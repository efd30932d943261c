------------------------ MODULE MCSubscriptionIndex ------------------------
(* Filters that share nodes of the trie, with wildcards at every level, a  *)
(* shared subscription on the node of a plain one, a stripped prefix, one  *)
(* that leaves nothing, and a namespace of the broker; all topics of up to *)
(* three levels, one of which no filter names.                             *)
EXTENDS SubscriptionIndex

MCFilters == {<<"a", "+">>, <<"$share", "g", "a", "+">>, <<"a", "#">>, <<"#">>, <<"a", "b">>,
              <<"+", "b", "#">>, <<"$queue", "a">>, <<"$queue", "">>, <<"$SYS", "#">>}
MCRequests == {<<f>> : f \in MCFilters} \cup {<<f, g>> : f, g \in MCFilters}
Names == {"a", "b", "c"}
MCLevels == Names \cup {"", "g", "+", "#"} \cup DollarLevels
MCTopics == {<<x>> : x \in Names \cup {"$SYS", ""}}
                \cup {<<x, y>> : x \in Names \cup {"$SYS", "$queue"}, y \in Names \cup {""}}
                \cup {<<"a", "b", z>> : z \in Names}
                \cup {<<"c", "b", "c">>, <<"$SYS", "a", "b">>, <<"a", "c", "c">>,
                      <<"c", "b", "c", "c">>, <<"$SYS", "c", "c">>, <<"a", "+">>}
=============================================================================
