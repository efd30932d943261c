------------------------- MODULE SubscriptionIndex -------------------------
(***************************************************************************)
(* The subscription index of a connection (subscription_index.py): a trie  *)
(* of filter levels, a table by filter and a table by subscription         *)
(* identifier, and the choice of the recipient of a PUBLISH.               *)
(*                                                                         *)
(* The trie is a function from the paths of its nodes to their entries;    *)
(* literal and wildcard children have different level names, so a path     *)
(* names one node.  An entry is known by its filter and its identifier;    *)
(* queues and acknowledgement modes are carried along and tell nothing     *)
(* apart.  The response observers of the index are in RequestDispatcher.   *)
(***************************************************************************)
EXTENDS TopicMatching, FiniteSets, SequencesExt

CONSTANTS Filters,        \* filters the application may subscribe to
          Requests,       \* the lists of filters of one SUBSCRIBE
          Topics,         \* topics of incoming PUBLISH packets
          OtherLevel,     \* a level of topics that no filter names
          Identifiers,    \* subscription identifiers
          MaxEntries,     \* bound: filters subscribed at a time
          None

VARIABLE index            \* [tree, entries, identified]

(* client.subscribe() lets only valid filters pass.                        *)
ASSUME FilterAssumption ==
    /\ \A f \in Filters : f \in Seq(Levels) /\ ValidFilter(f)
    /\ Requests \subseteq Seq(Filters)
    /\ None \notin Identifiers
    /\ None \notin [filter : Filters, id : Identifiers \cup {None}]

(* An item of a node: the filter and its entry.                            *)
Item(f, id) == [filter |-> f, id |-> id]
Paths(f) == {SubSeq(f, 1, n) : n \in 0 .. Len(f)}

(* d[key] = value                                                          *)
With(d, key, value) == [k \in DOMAIN d \cup {key} |-> IF k = key THEN value ELSE d[k]]

(* A selection of the items of s: before[i] are the positions of those     *)
(* that go before the item at i, and their number is its place.            *)
Arranged(s, before) ==
    [n \in 1 .. Cardinality(DOMAIN before) |->
        s[CHOOSE i \in DOMAIN before : Cardinality(before[i]) = n - 1]]

(* [x for x in s if x in S]                                                *)
Where(s, S) ==
    LET P == {i \in DOMAIN s : s[i] \in S}
    IN  Arranged(s, [i \in P |-> {j \in P : j < i}])

Empty == [tree |-> [p \in {<<>>} |-> <<>>], entries |-> <<>>, identified |-> <<>>]

Init == index = Empty

-----------------------------------------------------------------------------
\* Mutant: wildcard children are not looked at.
PruneLiteral(tree, path) ==
    LET dead == {q \in Paths(path) \ {<<>>} :
                    \A p \in DOMAIN tree : (IsPrefix(q, p) /\ (p = q \/ p[Len(q) + 1] \notin {"+", "#"}))
                                               => p \in Paths(path) /\ tree[p] = <<>>}
    IN  [p \in {p \in DOMAIN tree : \A q \in dead : ~ IsPrefix(q, p)} |-> tree[p]]

(* _remove_entry on the way back: a node without children and entries goes.*)
Prune(tree, path) ==
    LET dead == {q \in Paths(path) \ {<<>>} :
                    \A p \in DOMAIN tree : IsPrefix(q, p) => p \in Paths(path) /\ tree[p] = <<>>}
    IN  [p \in DOMAIN tree \ dead |-> tree[p]]

RemoveEntry(tree, path, item) ==
    IF path \notin DOMAIN tree THEN tree
    ELSE Prune([tree EXCEPT ![path] = Where(@, ToSet(@) \ {item})], path)

(* _by_identifier loses the filter, and the identifier with its last one.  *)
Unidentify(identified, f, id) ==
    IF id \notin DOMAIN identified THEN identified
    ELSE LET left == Where(identified[id], ToSet(identified[id]) \ {f})
         IN  IF left = <<>> THEN [i \in DOMAIN identified \ {id} |-> identified[i]]
             ELSE [identified EXCEPT ![id] = left]

Removed(ix, f) ==
    IF f \notin DOMAIN ix.entries THEN ix
    ELSE LET id == ix.entries[f]
         IN  [tree |-> RemoveEntry(ix.tree, ActualFilter(f), Item(f, id)),
              entries |-> [g \in DOMAIN ix.entries \ {f} |-> ix.entries[g]],
              identified |-> Unidentify(ix.identified, f, id)]

Identify(identified, f, id) ==
    IF id = None THEN identified
    ELSE With(identified, id, Append(IF id \in DOMAIN identified THEN identified[id] ELSE <<>>, f))

(* add(): the old entry of the filter is removed first; missing nodes are  *)
(* made on the way down.                                                   *)
Added(old, item) ==
    LET ix == Removed(old, item.filter)
        path == ActualFilter(item.filter)
        tree == [p \in DOMAIN ix.tree \cup Paths(path) |->
                    IF p \in DOMAIN ix.tree THEN ix.tree[p] ELSE <<>>]
    IN  [tree |-> [tree EXCEPT ![path] = Append(@, item)],
         entries |-> With(ix.entries, item.filter, item.id),
         identified |-> Identify(ix.identified, item.filter, item.id)]

-----------------------------------------------------------------------------
(* add_many(): _subscribe adds the filters of one SUBSCRIBE that are not   *)
(* in the index yet, with the identifier they share; add() alone replaces. *)
AddMany(fs, id) ==
    /\ Cardinality(DOMAIN index.entries \cup ToSet(fs)) <= MaxEntries
    /\ LET added[n \in 0 .. Len(fs)] ==
               IF n = 0 THEN index ELSE Added(added[n - 1], Item(fs[n], id))
       IN  index' = added[Len(fs)]

RemoveFilter(f) == f \in DOMAIN index.entries /\ index' = Removed(index, f)

Clear == index' = Empty

Next ==
    \/ \E fs \in Requests, id \in Identifiers \cup {None} : AddMany(fs, id)
    \/ \E f \in Filters : RemoveFilter(f)
    \/ Clear

Spec == Init /\ [][Next]_index

-----------------------------------------------------------------------------
\* Mutant: "#" is looked for only while levels are left.
CollectNoParent(tree, parts) ==
    LET entries(path) == IF path \in DOMAIN tree THEN tree[path] ELSE <<>>
        from[node \in {p \in DOMAIN tree : Len(p) <= Len(parts)}] ==
            LET below(level) == IF Append(node, level) \in DOMAIN tree
                                THEN from[Append(node, level)] ELSE <<>>
                part == parts[Len(node) + 1]
            IN  IF Len(node) = Len(parts) THEN entries(node)
                ELSE entries(Append(node, "#")) \o below(part) \o below("+")
    IN  from[<<>>]

(* _collect: the entries of the nodes that a topic reaches, where idx is   *)
(* the depth of the node; a level "+" or "#" of a topic is no child.       *)
Collect(tree, parts) ==
    LET entries(path) == IF path \in DOMAIN tree THEN tree[path] ELSE <<>>
        from[node \in {p \in DOMAIN tree : Len(p) <= Len(parts)}] ==
            LET below(level) == IF Append(node, level) \in DOMAIN tree
                                THEN from[Append(node, level)] ELSE <<>>
                part == parts[Len(node) + 1]
            IN  entries(Append(node, "#")) \o
                    (IF Len(node) = Len(parts) THEN entries(node)
                     ELSE (IF part \in {"+", "#"} THEN <<>> ELSE below(part)) \o below("+"))
    IN  from[<<>>]

Specificity(item) == FilterSpecificity(ActualFilter(item.filter))

(* sorted() is stable.                                                     *)
SortedByRank(s) ==
    LET rank(i) == Specificity(s[i])
    IN  Arranged(s, [i \in DOMAIN s |->
                        {j \in DOMAIN s : \/ TupleLess(rank(j), rank(i))
                                          \/ rank(j) = rank(i) /\ j < i}])

(* Those of the items whose filter matches the topic, in their order.      *)
Matching(items, topic) ==
    Where(items, {item \in ToSet(items) : TopicMatches(ActualFilter(item.filter), topic)})

Match(topic) == SortedByRank(Matching(Collect(index.tree, topic), topic))

(* _select_from: the first of the most specific candidates, and all of     *)
(* them when there are several.                                            *)
SelectFrom(candidates) ==
    LET items == ToSet(candidates)
        winners == Where(candidates, {item \in items : \A other \in items :
                                         ~ TupleLess(Specificity(other), Specificity(item))})
    IN  [recipient |-> IF candidates = <<>> THEN None ELSE winners[1],
         tied |-> IF Len(winners) > 1 THEN ToSet(winners) ELSE {},
         missing |-> FALSE]

Select(topic) == SelectFrom(Match(topic))

(* The subscription with the identifier of the PUBLISH, among those of its *)
(* filters that match if any does; without one, the filters decide.        *)
SelectByIdentifier(topic, id) ==
    IF id \notin DOMAIN index.identified
    THEN [Select(topic) EXCEPT !.missing = TRUE]
    ELSE LET identified == [n \in DOMAIN index.identified[id] |-> Item(index.identified[id][n], id)]
             matching == Matching(identified, topic)
         IN  SelectFrom(IF matching # <<>> THEN matching ELSE identified)

(* InboundPublishFlow._select_subscription                                 *)
SelectSubscription(topic, id) ==
    IF id = None THEN Select(topic) ELSE SelectByIdentifier(topic, id)

-----------------------------------------------------------------------------
Subscribed == {Item(f, index.entries[f]) : f \in DOMAIN index.entries}

(* Whatever was added and removed before (subscription_index.py:79, :153), *)
(* the tables describe the same subscriptions: the trie has exactly the    *)
(* nodes that lead to an entry, each entry at its node once, and the table *)
(* of identifiers exactly the filters that carry them.                     *)
IndexConsistent ==
    /\ DOMAIN index.tree = {<<>>} \cup UNION {Paths(ActualFilter(f)) : f \in DOMAIN index.entries}
    /\ \A p \in DOMAIN index.tree :
          /\ ToSet(index.tree[p]) = {item \in Subscribed : ActualFilter(item.filter) = p}
          /\ IsInjective(index.tree[p])
    /\ DOMAIN index.identified = {item.id : item \in Subscribed} \ {None}
    /\ \A id \in DOMAIN index.identified :
          /\ ToSet(index.identified[id]) = {f \in DOMAIN index.entries : index.entries[f] = id}
          /\ IsInjective(index.identified[id])

(* match() finds, for every topic, the filters that match by the MQTT      *)
(* rules, each once and the most specific first: the walk down the trie    *)
(* loses nothing at a shared, wildcard or parent level.                    *)
MatchIsReference ==
    \A t \in Topics :
        LET found == Match(t)
        IN  /\ ToSet(found) = {item \in Subscribed : MqttMatches(ActualFilter(item.filter), t)}
            /\ IsInjective(found)
            /\ \A i, j \in DOMAIN found :
                  i < j => ~ TupleLess(Specificity(found[j]), Specificity(found[i]))

(* The topics tell the filters apart: among them are, for each filter, the *)
(* ones with a level that no filter names in the place of its wildcards.   *)
Witnesses(f) ==
    LET fixed == [i \in 1 .. Fixed(f) |-> IF f[i] = "+" THEN OtherLevel ELSE f[i]]
    IN  IF Open(f) THEN {fixed, Append(fixed, OtherLevel), fixed \o <<OtherLevel, OtherLevel>>} \ {<<>>}
        ELSE {fixed}

ASSUME TopicAssumption ==
    /\ Topics \subseteq Seq(Levels) \ {<<>>}
    /\ OtherLevel \in Levels \ DollarLevels
    /\ \A f \in Filters : OtherLevel \notin ToSet(f) /\ Witnesses(ActualFilter(f)) \subseteq Topics

(* Filter f is strictly narrower than g: every topic it matches, g does.   *)
Narrower ==
    [narrow \in Filters |-> [wide \in Filters |->
        LET f == ActualFilter(narrow)
            g == ActualFilter(wide)
        IN  /\ \A t \in Topics : MqttMatches(f, t) => MqttMatches(g, t)
            /\ \E t \in Topics : MqttMatches(g, t) /\ ~ MqttMatches(f, t)]]

(* One recipient is chosen and it is the right one: the subscription whose *)
(* identifier the broker names if it is known; among filters that match,   *)
(* never one that is more general than another (the ranks of the levels    *)
(* agree with what the filters match); a tie only between subscriptions to *)
(* the same filter; and nobody only if nobody can be meant.                *)
SelectionIsBest ==
    \A t \in Topics, id \in Identifiers \cup {None} :
        LET chosen == SelectSubscription(t, id)
            known == id # None /\ \E item \in Subscribed : item.id = id
            meant == {item \in Subscribed : known => item.id = id}
            fitting == {item \in meant : MqttMatches(ActualFilter(item.filter), t)}
            winner == chosen.recipient
        IN  /\ chosen.missing <=> id # None /\ ~ known
            /\ winner = None <=> fitting = {} /\ ~ known
            /\ winner # None =>
                  /\ winner \in IF fitting # {} THEN fitting ELSE meant
                  /\ \A other \in fitting : ~ Narrower[other.filter][winner.filter]
                  /\ fitting # {} =>
                        \A other \in chosen.tied :
                            ActualFilter(other.filter) = ActualFilter(winner.filter)
=============================================================================
