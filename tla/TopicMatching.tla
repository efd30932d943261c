--------------------------- MODULE TopicMatching ---------------------------
(***************************************************************************)
(* Topic filters and their match (topic_matching.py).  A topic or filter   *)
(* is the sequence of its levels, what split("/") returns; the operators   *)
(* that look at the text before the first "/" look at the first level.     *)
(***************************************************************************)
EXTENDS Naturals, Sequences

CONSTANTS Levels,             \* texts of a level of a filter or topic
          DollarLevels,       \* those that begin with "$"
          StrippedPrefixes    \* stripped_prefixes: "$queue", "$exclusive"

ASSUME PrefixAssumption ==
    /\ StrippedPrefixes \subseteq DollarLevels \ {"$share"}
    /\ {"+", "#"} \subseteq Levels \ DollarLevels

StartsWithDollar(x) == x[1] \in DollarLevels

(* validate_subscribe_topic: not empty, "$" only in front, "#" only last.  *)
ValidFilter(f) ==
    /\ f \notin {<<>>, <<"">>}
    /\ \A i \in 2 .. Len(f) : f[i] \notin DollarLevels
    /\ \A i \in 1 .. Len(f) - 1 : f[i] # "#"

(* _shared_filter_to_actual: $share/group/filter and prefix/filter         *)
SharedFilterToActual(f) ==
    IF f[1] = "$share" /\ Len(f) >= 3 THEN SubSeq(f, 3, Len(f))
    ELSE IF f[1] \in StrippedPrefixes /\ Len(f) >= 2 THEN Tail(f)
    ELSE f

(* entry.actual_filter or filter_: an empty text counts as absent.         *)
ActualFilter(f) ==
    LET actual == SharedFilterToActual(f)
    IN  IF actual = <<"">> THEN f ELSE actual

(* _match_parts: from[i] is its result once i - 1 levels are consumed.      *)
MatchParts(fparts, tparts) ==
    LET from[i \in 1 .. Len(fparts) + 1] ==
            IF i > Len(fparts) THEN i > Len(tparts)
            ELSE \/ fparts[i] = "#"
                 \/ i <= Len(tparts) /\ fparts[i] \in {"+", tparts[i]} /\ from[i + 1]
    IN  from[1]

TopicMatches(actual, topic) ==
    /\ StartsWithDollar(topic) <=> StartsWithDollar(actual)
    /\ MatchParts(actual, topic)

\* Mutant: both wildcards rank alike.
SegmentRankFlat(segment) == IF segment \in {"+", "#"} THEN 1 ELSE 0

SegmentRank(segment) == IF segment = "#" THEN 2 ELSE IF segment = "+" THEN 1 ELSE 0

FilterSpecificity(actual) == [i \in DOMAIN actual |-> SegmentRank(actual[i])]

(* The order of tuples: at the first difference, or the shorter one first. *)
TupleLess(x, y) ==
    \/ Len(x) < Len(y) /\ x = SubSeq(y, 1, Len(x))
    \/ \E i \in DOMAIN x \cap DOMAIN y :
          /\ \A j \in 1 .. i - 1 : x[j] = y[j]
          /\ x[i] < y[i]

-----------------------------------------------------------------------------
(* The MQTT rules, stated without the recursion: "+" stands for one level, *)
(* a last "#" for any number of further levels, none included, and a       *)
(* leading wildcard for no topic that begins with "$".                     *)
Open(filter) == filter[Len(filter)] = "#"
Fixed(filter) == IF Open(filter) THEN Len(filter) - 1 ELSE Len(filter)

MqttMatches(filter, topic) ==
    /\ IF Open(filter) THEN Len(topic) >= Fixed(filter) ELSE Len(topic) = Fixed(filter)
    /\ \A i \in 1 .. Fixed(filter) : filter[i] \in {"+", topic[i]}
    /\ StartsWithDollar(topic) => filter[1] \notin {"+", "#"}
=============================================================================
