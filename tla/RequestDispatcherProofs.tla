----------------------- MODULE RequestDispatcherProofs -----------------------
(***************************************************************************)
(* The dispatcher of client.request(): its places, its interests, the      *)
(* responses it claims and the observers it leaves behind, for any set of  *)
(* calls (also an infinite one: only finitely many hold a place), topics,  *)
(* correlation data, connections and cancellations.                        *)
(***************************************************************************)
EXTENDS RequestDispatcher, SequencesExt, SequenceTheorems, FiniteSetTheorems, TLAPS

-----------------------------------------------------------------------------
(* What the operators on sequences that the model uses do, element by      *)
(* element.                                                                *)
\* A packet is written, or a future registered, behind the others.
LEMMA AppendAt ==
    ASSUME NEW S, NEW s \in Seq(S), NEW x \in S
    PROVE  /\ DOMAIN Append(s, x) = 1 .. Len(s) + 1 /\ DOMAIN s = 1 .. Len(s) /\ Len(s) \in Nat
           /\ \A n \in 1 .. Len(s) : Append(s, x)[n] = s[n]
           /\ Append(s, x)[Len(s) + 1] = x
  OBVIOUS

\* The first packet or future is taken.
LEMMA TailAt ==
    ASSUME NEW S, NEW s \in Seq(S), s # <<>>
    PROVE  /\ DOMAIN s = 1 .. Len(s) /\ Len(s) \in Nat \ {0} /\ Head(s) = s[1]
           /\ DOMAIN Tail(s) = 1 .. Len(s) - 1
           /\ \A n \in 1 .. Len(s) - 1 : Tail(s)[n] = s[n + 1]
  OBVIOUS

\* One in any place is taken out.
LEMMA RemoveAtAt ==
    ASSUME NEW S, NEW s \in Seq(S), NEW k \in DOMAIN s
    PROVE  /\ DOMAIN s = 1 .. Len(s) /\ Len(s) \in Nat
           /\ RemoveAt(s, k) \in Seq(S) /\ Len(RemoveAt(s, k)) = Len(s) - 1
           /\ DOMAIN RemoveAt(s, k) = 1 .. Len(s) - 1
           /\ \A n \in 1 .. Len(s) - 1 : RemoveAt(s, k)[n] = IF n < k THEN s[n] ELSE s[n + 1]
<1> DEFINE a == SubSeq(s, 1, k - 1)
           b == SubSeq(s, k + 1, Len(s))
<1>0. DOMAIN s = 1 .. Len(s) /\ Len(s) \in Nat /\ k \in 1 .. Len(s)
  OBVIOUS
<1>1. a \in Seq(S) /\ Len(a) = k - 1 /\ \A n \in 1 .. k - 1 : a[n] = s[n]
  OBVIOUS
<1>2. b \in Seq(S) /\ Len(b) = Len(s) - k /\ \A n \in 1 .. Len(s) - k : b[n] = s[n + k]
  OBVIOUS
<1>3. RemoveAt(s, k) = a \o b
  BY DEF RemoveAt
<1> HIDE DEF a, b
<1>4. /\ a \o b \in Seq(S) /\ Len(a \o b) = Len(s) - 1
      /\ \A n \in 1 .. Len(a) + Len(b) : (a \o b)[n] = IF n <= Len(a) THEN a[n] ELSE b[n - Len(a)]
  <2>1. a \in Seq(S) /\ b \in Seq(S)
    BY <1>1, <1>2
  <2>2. /\ a \o b \in Seq(S) /\ Len(a \o b) = Len(a) + Len(b)
        /\ \A n \in 1 .. Len(a) + Len(b) : (a \o b)[n] = IF n <= Len(a) THEN a[n] ELSE b[n - Len(a)]
    BY ONLY <2>1, ConcatProperties
  <2> QED
    BY <1>0, <1>1, <1>2, <2>2
<1>5. ASSUME NEW n \in 1 .. Len(s) - 1
      PROVE  (a \o b)[n] = IF n < k THEN s[n] ELSE s[n + 1]
  <2>0. n \in 1 .. Len(a) + Len(b) /\ n \in Nat
    BY <1>0, <1>1, <1>2
  <2>1. CASE n < k
    <3>1. n <= Len(a) /\ n \in 1 .. k - 1
      BY <1>0, <1>1, <2>0, <2>1
    <3> QED
      BY <1>1, <1>4, <2>0, <2>1, <3>1
  <2>2. CASE ~(n < k)
    <3>1. ~(n <= Len(a)) /\ n - Len(a) \in 1 .. Len(s) - k /\ (n - Len(a)) + k = n + 1
      BY <1>0, <1>1, <2>0, <2>2
    <3> QED
      BY <1>2, <1>4, <2>0, <2>2, <3>1
  <2> QED
    BY <2>1, <2>2
<1>6. DOMAIN (a \o b) = 1 .. Len(s) - 1
  BY <1>4, LenProperties
<1> QED
  BY <1>0, <1>3, <1>4, <1>5, <1>6

-----------------------------------------------------------------------------

-----------------------------------------------------------------------------
(***************************************************************************)
(* The places of the semaphore.                                            *)
(***************************************************************************)
Unregistering == {"cleanup", "removing", "unsuback"}
Holders == {r \in Requests : pc[r] \in Unregistering}
PendingKeys == {k \in Keys : pending[k] # None}

\* The places are counted by finite sets of keys and of calls.
Places ==
    /\ capacity \in Nat /\ IsFiniteSet(PendingKeys) /\ IsFiniteSet(Holders)
    /\ capacity + Cardinality(PendingKeys) + Cardinality(Holders) = MaxPending

\* The key of a request is one of the dictionary's keys, its topic one of the topics.
LEMMA KeyType == \A r \in Requests : Key(r) \in Keys /\ TopicOf[r] \in Topics
BY DEF Keys, Topics

\* A call that moves joins the calls in unregister(), leaves them, or neither.
LEMMA HoldersMove ==
    ASSUME TypeOK, NEW r \in Requests, NEW w, pc' = [pc EXCEPT ![r] = w]
    PROVE  /\ w \notin Unregistering => Holders' = Holders \ {r}
           /\ w \in Unregistering => Holders' = Holders \cup {r}
<1>1. \A q \in Requests : pc'[q] = IF q = r THEN w ELSE pc[q]
  BY DEF TypeOK
<1> QED
  BY <1>1 DEF Holders

\* A call that ends is not in unregister() any more.
LEMMA HoldersDone ==
    ASSUME TypeOK, NEW r \in Requests, pc' = [pc EXCEPT ![r] = "done"]
    PROVE  Holders' = Holders \ {r}
<1>1. "done" \notin Unregistering
  BY DEF Unregistering
<1> QED
  BY <1>1, HoldersMove

\* A key that is set or deleted.
LEMMA KeysMove ==
    ASSUME TypeOK, NEW r \in Requests, NEW v, pending' = [pending EXCEPT ![Key(r)] = v]
    PROVE  /\ v = None => PendingKeys' = PendingKeys \ {Key(r)}
           /\ v # None => PendingKeys' = PendingKeys \cup {Key(r)}
<1>1. Key(r) \in Keys
  BY KeyType
<1>2. \A k \in Keys : pending'[k] = IF k = Key(r) THEN v ELSE pending[k]
  BY <1>1 DEF TypeOK
<1> QED
  BY <1>1, <1>2 DEF PendingKeys

\* A place is taken for a new key.
LEMMA Taken ==
    ASSUME TypeOK, Places, NEW r \in Requests, capacity > 0, capacity' = capacity - 1,
           pending[Key(r)] = None, pending' = [pending EXCEPT ![Key(r)] = r], Holders' = Holders
    PROVE  Places'
<1>1. Key(r) \notin PendingKeys
  BY DEF PendingKeys
<1>2. PendingKeys' = PendingKeys \cup {Key(r)}
  BY KeysMove, NoneAssumption
<1>3. IsFiniteSet(PendingKeys') /\ Cardinality(PendingKeys') = Cardinality(PendingKeys) + 1
  BY <1>1, <1>2, FS_AddElement DEF Places
<1>4. Cardinality(PendingKeys) \in Nat /\ Cardinality(Holders) \in Nat
  BY FS_CardinalityType DEF Places
<1> QED
  BY <1>3, <1>4 DEF Places

\* A call leaves unregister() and gives its place back.
LEMMA GivenBack ==
    ASSUME TypeOK, Places, NEW r \in Requests, r \in Holders, Holders' = Holders \ {r},
           capacity' = capacity + 1, UNCHANGED pending
    PROVE  Places'
<1>1. IsFiniteSet(Holders') /\ Cardinality(Holders') = Cardinality(Holders) - 1
  BY FS_RemoveElement DEF Places
<1>2. Cardinality(PendingKeys) \in Nat /\ Cardinality(Holders) \in Nat
  BY FS_CardinalityType DEF Places
<1>3. PendingKeys' = PendingKeys
  BY DEF PendingKeys
<1> QED
  BY <1>1, <1>2, <1>3 DEF Places

\* A call unregisters its key: it gives the place back or keeps it for its cleanup.
LEMMA Unregistered ==
    ASSUME TypeOK, Places, NEW r \in Requests, Registered(r), r \notin Holders,
           pending' = [pending EXCEPT ![Key(r)] = None],
           \/ capacity' = capacity + 1 /\ Holders' = Holders
           \/ capacity' = capacity /\ Holders' = Holders \cup {r}
    PROVE  Places'
<1>1. Key(r) \in PendingKeys
  BY KeyType, NoneAssumption DEF PendingKeys, Registered
<1>2. PendingKeys' = PendingKeys \ {Key(r)}
  BY KeysMove
<1>3. IsFiniteSet(PendingKeys') /\ Cardinality(PendingKeys') = Cardinality(PendingKeys) - 1
  BY <1>1, <1>2, FS_RemoveElement DEF Places
<1>4. Cardinality(PendingKeys) \in Nat /\ Cardinality(Holders) \in Nat
  BY FS_CardinalityType DEF Places
<1>5. CASE capacity' = capacity + 1 /\ Holders' = Holders
  BY <1>3, <1>4, <1>5 DEF Places
<1>6. CASE capacity' = capacity /\ Holders' = Holders \cup {r}
  <2>1. IsFiniteSet(Holders') /\ Cardinality(Holders') = Cardinality(Holders) + 1
    BY <1>6, FS_AddElement DEF Places
  <2> QED
    BY <1>3, <1>4, <1>6, <2>1 DEF Places
<1> QED
  BY <1>5, <1>6

\* Nothing happens to the places.
LEMMA PlacesKept ==
    ASSUME Places, UNCHANGED <<capacity, pending>>, Holders' = Holders
    PROVE  Places'
BY DEF Places, PendingKeys

\* The capacity never exceeds its initial value.
LEMMA PlacesBound ==
    ASSUME Places'
    PROVE  capacity' \in 0 .. MaxPending
<1>1. Cardinality(PendingKeys') \in Nat /\ Cardinality(Holders') \in Nat
  BY FS_CardinalityType DEF Places
<1> QED
  BY <1>1, CapacityAssumption DEF Places

\* What the end of unregister() does to the place of its call.
LEMMA DropPlace ==
    ASSUME NEW r, NEW i, NEW status, DropInterest(r, i, status)
    PROVE  \/ capacity' = capacity + 1 /\ pc' = [pc EXCEPT ![r] = "done"]
           \/ capacity' = capacity /\ \E w \in {"removing", "unsuback"} : pc' = [pc EXCEPT ![r] = w]
BY DEF DropInterest, RemoveBody, Waits, Ends

\* What unregister() does to the place of its call up to its first wait.
LEMMA LeavePlace ==
    ASSUME NEW r, Leave(r)
    PROVE  \/ ~Registered(r) /\ pc' = [pc EXCEPT ![r] = "done"] /\ UNCHANGED <<capacity, pending>>
           \/ /\ Registered(r) /\ pending' = [pending EXCEPT ![Key(r)] = None]
              /\ \/ capacity' = capacity + 1 /\ pc' = [pc EXCEPT ![r] = "done"]
                 \/ capacity' = capacity /\ \E w \in Unregistering : pc' = [pc EXCEPT ![r] = w]
<1>1. CASE ~Registered(r)
  BY <1>1 DEF Leave, Ends, Waits, dispatcher
<1>2. CASE Registered(r)
  <2> DEFINE i == topics[TopicOf[r]]
  <2>1. pending' = [pending EXCEPT ![Key(r)] = None]
    BY <1>2 DEF Leave
  <2>2. \/ Ends(r) /\ capacity' = capacity + 1
        \/ DropInterest(r, i, task[i])
        \/ Waits(r, "cleanup", <<i, "none">>) /\ capacity' = capacity
    BY <1>2 DEF Leave
  <2>3. CASE Ends(r) /\ capacity' = capacity + 1
    BY <1>2, <2>1, <2>3 DEF Ends, Waits
  <2>4. CASE DropInterest(r, i, task[i])
    <3>1. \/ capacity' = capacity + 1 /\ pc' = [pc EXCEPT ![r] = "done"]
          \/ capacity' = capacity /\ \E w \in {"removing", "unsuback"} : pc' = [pc EXCEPT ![r] = w]
      BY <2>4, DropPlace
    <3> QED
      BY <1>2, <2>1, <3>1 DEF Unregistering
  <2>5. CASE Waits(r, "cleanup", <<i, "none">>) /\ capacity' = capacity
    BY <1>2, <2>1, <2>5 DEF Waits, Unregistering
  <2> QED
    BY <2>2, <2>3, <2>4, <2>5
<1> QED
  BY <1>1, <1>2

\* A call that waits to be ready or for its reply leaves.
LEMMA LeavePlaces ==
    ASSUME TypeOK, Places, NEW r \in Requests, pc[r] \in {"ready", "reply"}, Leave(r)
    PROVE  Places'
<1>1. r \notin Holders
  BY DEF Holders, Unregistering
<1>2. CASE ~Registered(r) /\ pc' = [pc EXCEPT ![r] = "done"] /\ UNCHANGED <<capacity, pending>>
  <2>1. Holders' = Holders \ {r}
    BY <1>2, HoldersDone
  <2> QED
    BY <1>1, <1>2, <2>1, PlacesKept
<1>3. CASE /\ Registered(r) /\ pending' = [pending EXCEPT ![Key(r)] = None]
           /\ capacity' = capacity + 1 /\ pc' = [pc EXCEPT ![r] = "done"]
  <2>1. Holders' = Holders \ {r}
    BY <1>3, HoldersDone
  <2>2. Holders' = Holders
    BY <1>1, <2>1
  <2> QED
    BY <1>1, <1>3, <2>2, Unregistered
<1>4. ASSUME NEW w \in Unregistering, Registered(r), pending' = [pending EXCEPT ![Key(r)] = None],
             capacity' = capacity, pc' = [pc EXCEPT ![r] = w]
      PROVE  Places'
  <2>1. Holders' = Holders \cup {r}
    BY <1>4, HoldersMove
  <2> QED
    BY <1>1, <1>4, <2>1, Unregistered
<1> QED
  BY <1>2, <1>3, <1>4, LeavePlace

\* A call in unregister() goes on: it keeps its place or gives it back and ends.
LEMMA HolderPlaces ==
    ASSUME TypeOK, Places, NEW r \in Requests, pc[r] \in Unregistering, UNCHANGED pending,
           \/ capacity' = capacity + 1 /\ pc' = [pc EXCEPT ![r] = "done"]
           \/ capacity' = capacity /\ \E w \in Unregistering : pc' = [pc EXCEPT ![r] = w]
    PROVE  Places'
<1>1. r \in Holders
  BY DEF Holders
<1>2. CASE capacity' = capacity + 1 /\ pc' = [pc EXCEPT ![r] = "done"]
  <2>1. Holders' = Holders \ {r}
    BY <1>2, HoldersDone
  <2> QED
    BY <1>1, <1>2, <2>1, GivenBack
<1>3. ASSUME NEW w \in Unregistering, capacity' = capacity, pc' = [pc EXCEPT ![r] = w] PROVE Places'
  <2>1. Holders' = Holders \cup {r}
    BY <1>3, HoldersMove
  <2>2. Holders' = Holders
    BY <1>1, <2>1
  <2> QED
    BY <1>3, <2>2, PlacesKept
<1> QED
  BY <1>2, <1>3

\* The steps of a call that leave its place alone.
IdleStep(r) == Refuse(r) \/ RegisterFails(r) \/ ReadyDone(r) \/ (CancelEarly(r) /\ Cancel(r))

\* The steps after which a call is still, or no longer, in unregister().
HolderStep(r) == \/ CleanupDone(r) \/ RemoveTurn(r) \/ RemoveAck(r)
                 \/ CancelCleanup(r) \/ CancelRemove(r) \/ CancelUnsuback(r)

\* The steps of the ready tasks, the responses, the application and the run loop.
OtherStep ==
    \/ \E r \in Requests : TaskStep(r) \/ Claim(r)
    \/ \E r \in Requests, g \in 1 .. MaxConns : Complete(r, g)
    \/ \E t \in AppTopics, kind \in {"subscribe", "unsubscribe"} : AppCall(kind, t)
    \/ AppTurn \/ AppAck \/ Bind \/ RestoreStart \/ RestoreNext

\* The next-state relation by what the steps do to the places.
LEMMA NextCases ==
    ASSUME Next
    PROVE  \/ \E r \in Requests : \/ IdleStep(r) \/ Register(r) \/ HolderStep(r)
                                  \/ pc[r] \in {"ready", "reply"} /\ Leave(r)
           \/ OtherStep
           \/ \E next \in {"lost", "failed", "stopped"} :
                 Teardown(next) /\ (next # "stopped" => Alive) /\ (next = "stopped" => client = "stopping")
           \/ Stop
<1>1. ASSUME NEW r \in Requests, CallStep(r) \/ Cancel(r)
      PROVE  \/ IdleStep(r) \/ Register(r) \/ HolderStep(r)
             \/ pc[r] \in {"ready", "reply"} /\ Leave(r)
  BY <1>1 DEF CallStep, Cancel, ReadyFails, ReplyEnds, CancelWait, IdleStep, HolderStep
<1>2. ASSUME Lose("lost") \/ Lose("failed") \/ UnmatchedUnsuback \/ RestoreFails \/ Close
      PROVE  \E next \in {"lost", "failed", "stopped"} :
                 Teardown(next) /\ (next # "stopped" => Alive) /\ (next = "stopped" => client = "stopping")
  BY <1>2 DEF Lose, UnmatchedUnsuback, RestoreFails, Close
<1> QED
  BY <1>1, <1>2 DEF Next, OtherStep

\* What the other steps never change.
LEMMA OtherKeeps ==
    ASSUME OtherStep
    PROVE  UNCHANGED <<capacity, pending, topics, refcount, pc, cancels, abandoned>>
<1>1. ASSUME NEW i, TaskStep(i) PROVE UNCHANGED <<capacity, pending, topics, refcount, pc, cancels, abandoned>>
  BY <1>1 DEF TaskStep, AddStart, AddTurn, AddBody, AddAck, dispatcher
<1>2. ASSUME NEW r, NEW g, Claim(r) \/ Complete(r, g)
      PROVE  UNCHANGED <<capacity, pending, topics, refcount, pc, cancels, abandoned>>
  BY <1>2 DEF Claim, Complete, dispatcher, interests
<1>3. ASSUME NEW kind, NEW t, AppCall(kind, t) \/ AppTurn \/ AppAck
      PROVE  UNCHANGED <<capacity, pending, topics, refcount, pc, cancels, abandoned>>
  BY <1>3 DEF AppCall, AppTurn, AppAck, dispatcher, interests
<1>4. ASSUME Bind \/ RestoreStart \/ RestoreNext
      PROVE  UNCHANGED <<capacity, pending, topics, refcount, pc, cancels, abandoned>>
  BY <1>4 DEF Bind, RestoreStart, RestoreNext, dispatcher, interests
<1> QED
  BY <1>1, <1>2, <1>3, <1>4 DEF OtherStep

\* The end of a connection ends the calls that were using it, with their places.
LEMMA TeardownPlaces ==
    ASSUME TypeOK, Places, NEW next, Teardown(next)
    PROVE  Places'
<1> DEFINE leaving == {r \in Requests : pc[r] \in {"removing", "unsuback"}}
<1>1. /\ pc' = [r \in Requests |-> IF r \in leaving THEN "done" ELSE pc[r]]
      /\ capacity' = capacity + Cardinality(leaving) /\ UNCHANGED pending
  BY DEF Teardown
<1>2. Holders' = Holders \ leaving /\ Holders \cap leaving = leaving
  BY <1>1 DEF Holders, Unregistering
<1> HIDE DEF leaving
<1>3. IsFiniteSet(Holders') /\ Cardinality(Holders') = Cardinality(Holders) - Cardinality(leaving)
  <2>1. IsFiniteSet(Holders)
    BY DEF Places
  <2>2. IsFiniteSet(Holders \ leaving)
        /\ Cardinality(Holders \ leaving) = Cardinality(Holders) - Cardinality(Holders \cap leaving)
    BY ONLY <2>1, FS_Difference
  <2> QED
    BY <1>2, <2>2
<1>4. leaving \in SUBSET Holders
  BY <1>2
<1>5. IsFiniteSet(leaving)
  BY <1>4, FS_Subset DEF Places
<1>6. Cardinality(leaving) \in Nat /\ Cardinality(Holders) \in Nat /\ Cardinality(PendingKeys) \in Nat
  BY <1>5, FS_CardinalityType DEF Places
<1>7. PendingKeys' = PendingKeys
  BY <1>1 DEF PendingKeys
<1> QED
  BY <1>1, <1>3, <1>6, <1>7 DEF Places

\* Every step conserves the places.
LEMMA PlacesStep ==
    ASSUME TypeOK, Places, [Next]_vars
    PROVE  Places'
<1>1. ASSUME NEW r \in Requests, IdleStep(r) PROVE Places'
  <2>1. /\ pc[r] \in {"calling", "ready"} /\ UNCHANGED <<capacity, pending>>
        /\ \E w \in {"done", "reply"} : pc' = [pc EXCEPT ![r] = w]
    BY <1>1 DEF IdleStep, Refuse, RegisterFails, ReadyDone, CancelEarly, Ends, Waits, dispatcher
  <2>2. PICK w \in {"done", "reply"} : pc' = [pc EXCEPT ![r] = w]
    BY <2>1
  <2>3. w \notin Unregistering /\ r \notin Holders
    BY <2>1 DEF Unregistering, Holders
  <2>4. Holders' = Holders \ {r}
    BY <2>2, <2>3, HoldersMove
  <2> QED
    BY <2>1, <2>3, <2>4, PlacesKept
<1>2. ASSUME NEW r \in Requests, Register(r) PROVE Places'
  <2>1. /\ pc[r] = "calling" /\ capacity > 0 /\ pending[Key(r)] = None /\ capacity' = capacity - 1
        /\ pending' = [pending EXCEPT ![Key(r)] = r]
        /\ \E w \in {"ready", "reply"} : pc' = [pc EXCEPT ![r] = w]
    BY <1>2 DEF Register
  <2>2. PICK w \in {"ready", "reply"} : pc' = [pc EXCEPT ![r] = w]
    BY <2>1
  <2>3. w \notin Unregistering /\ r \notin Holders
    BY <2>1 DEF Unregistering, Holders
  <2>4. Holders' = Holders \ {r}
    BY <2>2, <2>3, HoldersMove
  <2>5. Holders' = Holders
    BY <2>3, <2>4
  <2> QED
    BY <2>1, <2>5, Taken
<1>3. ASSUME NEW r \in Requests, HolderStep(r) PROVE Places'
  <2>1. pc[r] \in Unregistering /\ UNCHANGED pending
    BY <1>3 DEF HolderStep, CleanupDone, RemoveTurn, RemoveAck, CancelCleanup, CancelRemove, CancelUnsuback,
                Unregistering
  <2>2. \/ capacity' = capacity + 1 /\ pc' = [pc EXCEPT ![r] = "done"]
        \/ capacity' = capacity /\ \E w \in Unregistering : pc' = [pc EXCEPT ![r] = w]
    <3>1. CASE CleanupDone(r)
      <4>1. \/ \E i, status : DropInterest(r, i, status)
            \/ Ends(r) /\ capacity' = capacity + 1
        BY <3>1 DEF CleanupDone
      <4> QED
        BY <4>1, DropPlace DEF Ends, Waits, Unregistering
    <3>2. CASE RemoveTurn(r)
      BY <3>2 DEF RemoveTurn, RemoveBody, Ends, Waits, Unregistering
    <3>3. CASE RemoveAck(r) \/ CancelCleanup(r) \/ CancelRemove(r) \/ CancelUnsuback(r)
      BY <3>3 DEF RemoveAck, CancelCleanup, CancelRemove, CancelUnsuback, Ends, Waits
    <3> QED
      BY <1>3, <3>1, <3>2, <3>3 DEF HolderStep
  <2> QED
    BY <2>1, <2>2, HolderPlaces
<1>4. ASSUME NEW r \in Requests, pc[r] \in {"ready", "reply"}, Leave(r) PROVE Places'
  BY <1>4, LeavePlaces
<1>5. CASE OtherStep
  BY <1>5, OtherKeeps, PlacesKept DEF Holders
<1>6. ASSUME NEW next, Teardown(next) PROVE Places'
  BY <1>6, TeardownPlaces
<1>7. CASE Stop
  <2>1. /\ capacity' = capacity + Cardinality(PendingKeys) /\ pending' = [k \in Keys |-> None] /\ UNCHANGED pc
    BY <1>7 DEF Stop, PendingKeys
  <2>2. PendingKeys' = {} /\ Holders' = Holders
    BY <2>1 DEF PendingKeys, Holders
  <2>3. IsFiniteSet(PendingKeys') /\ Cardinality(PendingKeys') = 0
    BY <2>2, FS_EmptySet
  <2>4. Cardinality(PendingKeys) \in Nat /\ Cardinality(Holders) \in Nat
    BY FS_CardinalityType DEF Places
  <2> QED
    BY <2>1, <2>2, <2>3, <2>4 DEF Places
<1>8. CASE UNCHANGED vars
  BY <1>8, PlacesKept DEF vars, dispatcher, Holders
<1> QED
  BY <1>1, <1>2, <1>3, <1>4, <1>5, <1>6, <1>7, <1>8, NextCases

-----------------------------------------------------------------------------
(***************************************************************************)
(* Types.                                                                  *)
(***************************************************************************)
TaskStates == Finished \cup {"none", "created", "queued", "suback"}

\* The types of what the tasks, the responses and the connection change.
LEMMA OtherTypes ==
    ASSUME TypeOK, OtherStep
    PROVE  /\ task' \in [Requests -> TaskStates]
           /\ future' \in [Requests -> {"none", "waiting", "result", "failed"}]
           /\ client' \in {"up", "lost", "failed", "stopping", "stopped"} /\ conn' \in 1 .. MaxConns
<1> USE DEF TypeOK, TaskStates, Finished
<1>1. ASSUME NEW i \in Requests, TaskStep(i)
      PROVE  task' \in [Requests -> TaskStates] /\ UNCHANGED <<future, client, conn>>
  <2>1. UNCHANGED <<future, client, conn>>
    BY <1>1 DEF TaskStep, AddStart, AddTurn, AddBody, AddAck, waiters, link
  <2>2. \/ task' = [task EXCEPT ![i] = "queued"] \/ task' = [task EXCEPT ![i] = "suback"]
        \/ \E verdict \in Finished : TasksEnd({i}, verdict)
    BY <1>1 DEF TaskStep, AddStart, AddTurn, AddBody, AddAck, TaskEnds
  <2> QED
    BY <2>1, <2>2 DEF TasksEnd
<1>2. ASSUME NEW r \in Requests, Claim(r)
      PROVE  UNCHANGED <<task, future, client, conn>>
  BY <1>2 DEF Claim, interests, link
<1>3. ASSUME NEW r \in Requests, NEW g, Complete(r, g)
      PROVE  /\ UNCHANGED <<task, client, conn>>
             /\ future' \in [Requests -> {"none", "waiting", "result", "failed"}]
  BY <1>3 DEF Complete, interests, link
<1>4. ASSUME NEW kind, NEW t, AppCall(kind, t) \/ AppTurn \/ AppAck \/ RestoreStart
      PROVE  UNCHANGED <<task, future, client, conn>>
  BY <1>4 DEF AppCall, AppTurn, AppAck, RestoreStart, interests, link, waiters
<1>5. CASE Bind
  BY <1>5, ConnsAssumption DEF Bind, interests, waiters
<1>6. CASE RestoreNext
  BY <1>6 DEF RestoreNext, interests, link, waiters
<1> QED
  BY <1>1, <1>2, <1>3, <1>4, <1>5, <1>6 DEF OtherStep

\* Every step keeps the types.
LEMMA TypeStep ==
    ASSUME TypeOK, Places', [Next]_vars
    PROVE  TypeOK'
<1> USE DEF TaskStates, Finished
<1>0. capacity' \in 0 .. MaxPending
  BY PlacesBound
<1>1. ASSUME NEW r \in Requests, IdleStep(r) PROVE TypeOK'
  <2>1. /\ UNCHANGED <<pending, future, client, conn>>
        /\ \E w \in {"done", "reply"} : pc' = [pc EXCEPT ![r] = w]
        /\ topics' = topics \/ topics' = [topics EXCEPT ![TopicOf[r]] = None]
        /\ task' = task \/ \E i : task' = [task EXCEPT ![i] = "none"]
    BY <1>1 DEF IdleStep, Refuse, RegisterFails, ReadyDone, CancelEarly, Ends, Waits, dispatcher, interests,
                waiters, link
  <2> QED
    BY <1>0, <2>1 DEF TypeOK
<1>2. ASSUME NEW r \in Requests, Register(r) PROVE TypeOK'
  <2>1. Key(r) \in Keys /\ TopicOf[r] \in Topics
    BY KeyType
  <2>2. PICK i \in Requests : i = IF topics[TopicOf[r]] = None THEN r ELSE topics[TopicOf[r]]
    BY <2>1 DEF TypeOK
  <2>3. /\ pending' = [pending EXCEPT ![Key(r)] = r] /\ topics' = [topics EXCEPT ![TopicOf[r]] = i]
        /\ task' = [task EXCEPT ![i] = IF @ = "none" THEN "created" ELSE @]
        /\ future' = [future EXCEPT ![r] = "waiting"] /\ UNCHANGED <<client, conn>>
        /\ \E w \in {"ready", "reply"} : pc' = [pc EXCEPT ![r] = w]
    BY <1>2, <2>2 DEF Register, link
  <2> QED
    BY <1>0, <2>1, <2>3 DEF TypeOK
<1>3. ASSUME NEW r \in Requests, HolderStep(r) PROVE TypeOK'
  <2>1. UNCHANGED <<pending, future, client, conn>>
    BY <1>3 DEF HolderStep, CleanupDone, RemoveTurn, RemoveAck, CancelCleanup, CancelRemove, CancelUnsuback,
                waiters, link
  <2>2. /\ \E w \in {"done", "removing", "unsuback"} : pc' = [pc EXCEPT ![r] = w]
        /\ topics' = topics \/ topics' = [topics EXCEPT ![TopicOf[r]] = None]
        /\ \/ task' = task
           \/ \E i : task' = [task EXCEPT ![i] = IF @ \in Finished THEN "none" ELSE @]
           \/ \E i : task' = [task EXCEPT ![i] = "none"]
    <3>1. CASE CleanupDone(r)
      <4>1. \/ DropInterest(r, awaiting[r][1], awaiting[r][2])
            \/ Ends(r) /\ UNCHANGED <<topics, task>>
        BY <3>1 DEF CleanupDone
      <4> QED
        BY <4>1 DEF Ends, Waits, DropInterest, RemoveBody
    <3>2. CASE RemoveTurn(r)
      BY <3>2 DEF RemoveTurn, RemoveBody, Ends, Waits, interests
    <3>3. CASE RemoveAck(r) \/ CancelCleanup(r) \/ CancelRemove(r) \/ CancelUnsuback(r)
      BY <3>3 DEF RemoveAck, CancelCleanup, CancelRemove, CancelUnsuback, Ends, Waits, interests
    <3> QED
      BY <1>3, <3>1, <3>2, <3>3 DEF HolderStep
  <2> QED
    BY <1>0, <2>1, <2>2 DEF TypeOK
<1>4. ASSUME NEW r \in Requests, pc[r] \in {"ready", "reply"}, Leave(r) PROVE TypeOK'
  <2>1. /\ future' = [future EXCEPT ![r] = "none"] /\ UNCHANGED <<client, conn>>
        /\ pending' = pending \/ pending' = [pending EXCEPT ![Key(r)] = None]
    BY <1>4 DEF Leave, link, dispatcher
  <2>2. /\ \E w \in {"done", "cleanup", "removing", "unsuback"} : pc' = [pc EXCEPT ![r] = w]
        /\ topics' = topics \/ topics' = [topics EXCEPT ![TopicOf[r]] = None]
        /\ \/ task' = task
           \/ \E i : task' = [task EXCEPT ![i] = IF @ \in Finished THEN "none" ELSE @]
    <3> DEFINE i == topics[TopicOf[r]]
    <3>1. \/ DropInterest(r, i, task[i])
          \/ (Ends(r) \/ Waits(r, "cleanup", <<i, "none">>)) /\ UNCHANGED <<topics, task>>
      BY <1>4 DEF Leave, dispatcher, interests
    <3> QED
      BY <3>1 DEF Ends, Waits, DropInterest, RemoveBody
  <2> QED
    BY <1>0, <2>1, <2>2 DEF TypeOK
<1>5. CASE OtherStep
  BY <1>0, <1>5, OtherKeeps, OtherTypes DEF TypeOK
<1>6. ASSUME NEW next \in {"lost", "failed", "stopped"}, Teardown(next) PROVE TypeOK'
  BY <1>0, <1>6 DEF TypeOK, Teardown, TasksEnd, waiters
<1>7. CASE Stop
  BY <1>0, <1>7 DEF TypeOK, Stop
<1>8. CASE UNCHANGED vars
  BY <1>0, <1>8 DEF TypeOK, vars, dispatcher, interests, waiters, link
<1> QED
  BY <1>1, <1>2, <1>3, <1>4, <1>5, <1>6, <1>7, <1>8, NextCases

\* The initial states: nothing is pending and every place is free.
LEMMA InitPlaces == Init => TypeOK /\ Places
<1> SUFFICES ASSUME Init PROVE TypeOK /\ Places
  OBVIOUS
<1>1. TypeOK
  BY CapacityAssumption, ConnsAssumption DEF Init, TypeOK
<1>2. PendingKeys = {} /\ Holders = {}
  BY DEF Init, PendingKeys, Holders, Unregistering
<1>3. IsFiniteSet({}) /\ Cardinality({}) = 0
  BY FS_EmptySet
<1> QED
  BY <1>1, <1>2, <1>3, CapacityAssumption DEF Init, Places

(***************************************************************************)
(* No place of max_pending_requests is lost or given back twice, however   *)
(* the calls end: refused, answered, timed out, cancelled in any of their  *)
(* waits, by the end of the connection or by disconnect().                 *)
(***************************************************************************)
THEOREM PlacesAreConserved == Spec => []CapacityConserved
<1>1. TypeOK /\ Places /\ [Next]_vars => (TypeOK /\ Places)'
  BY PlacesStep, TypeStep
<1>2. TypeOK /\ Places => CapacityConserved
  BY DEF Places, CapacityConserved, PendingKeys, Holders, Unregistering
<1> QED
  BY <1>1, <1>2, InitPlaces, PTL DEF Spec

-----------------------------------------------------------------------------
(***************************************************************************)
(* Interests.                                                              *)
(***************************************************************************)
Users(t) == {r \in Requests : TopicOf[r] = t /\ Registered(r)}
InUse(i) == topics[TopicOf[i]] = i
Cleaner(i) == \E q \in Requests : pc[q] = "cleanup" /\ awaiting[q][1] = i

CountTypes ==
    /\ refcount \in [Requests -> Nat]
    /\ awaiting \in [Requests -> (Requests \cup {None}) \X (Finished \cup {"none"})]

\* The dictionary entry of a topic counts the requests that use it.
CountedAt(t) ==
    /\ IsFiniteSet(Users(t))
    /\ topics[t] = None => Users(t) = {}
    /\ topics[t] # None => /\ TopicOf[topics[t]] = t /\ refcount[topics[t]] = Cardinality(Users(t))
                           /\ Users(t) = {} => Cleaner(topics[t])

\* An interest object that left the dictionary counts nothing; a registered call waits to be
\* ready or for its reply; a call in cleanup waits for an interest of its own topic.
CallOK(r) ==
    /\ ~InUse(r) => refcount[r] = 0
    /\ Registered(r) => pc[r] \in {"ready", "reply"}
    /\ pc[r] = "cleanup" => awaiting[r][1] \in Requests /\ TopicOf[awaiting[r][1]] = TopicOf[r]

Counts == CountTypes /\ (\A t \in Topics : CountedAt(t)) /\ (\A r \in Requests : CallOK(r))

\* A new key registers one call.
LEMMA UsersAdd ==
    ASSUME TypeOK, NEW r \in Requests, pending[Key(r)] = None, pending' = [pending EXCEPT ![Key(r)] = r]
    PROVE  \A q \in Requests : Registered(q)' <=> (q = r \/ Registered(q))
<1>1. \A q \in Requests : Key(q) \in Keys
  BY KeyType
<1>2. \A q \in Requests : pending'[Key(q)] = IF Key(q) = Key(r) THEN r ELSE pending[Key(q)]
  BY <1>1 DEF TypeOK
<1> QED
  BY <1>2, NoneAssumption DEF Registered

\* A deleted key unregisters one call.
LEMMA UsersRemove ==
    ASSUME TypeOK, NEW r \in Requests, Registered(r), pending' = [pending EXCEPT ![Key(r)] = None]
    PROVE  \A q \in Requests : Registered(q)' <=> (q # r /\ Registered(q))
<1>1. \A q \in Requests : Key(q) \in Keys
  BY KeyType
<1>2. \A q \in Requests : pending'[Key(q)] = IF Key(q) = Key(r) THEN None ELSE pending[Key(q)]
  BY <1>1 DEF TypeOK
<1> QED
  BY <1>2, NoneAssumption DEF Registered

\* What happens to one topic leaves the others alone.
LEMMA OtherTopics ==
    ASSUME TypeOK, Counts, NEW t0,
           \A t \in Topics : t # t0 => topics'[t] = topics[t],
           \A q \in Requests : TopicOf[q] # t0 =>
               /\ refcount'[q] = refcount[q] /\ (Registered(q)' <=> Registered(q))
               /\ pc[q] = "cleanup" => pc'[q] = "cleanup" /\ awaiting'[q][1] = awaiting[q][1]
    PROVE  \A t \in Topics : t # t0 => CountedAt(t)'
<1> TAKE t \in Topics
<1> HAVE t # t0
<1>1. topics'[t] = topics[t] /\ topics[t] \in Requests \cup {None} /\ CountedAt(t)
  BY DEF TypeOK, Counts
<1>2. Users(t)' = Users(t)
  BY DEF Users
<1>3. CASE topics[t] = None
  BY <1>1, <1>2, <1>3 DEF CountedAt
<1>4. CASE topics[t] # None
  <2>1. topics[t] \in Requests /\ TopicOf[topics[t]] = t
    BY <1>1, <1>4 DEF CountedAt
  <2>2. refcount'[topics[t]] = refcount[topics[t]]
    BY <2>1
  <2>3. Cleaner(topics[t]) => \E q \in Requests : pc'[q] = "cleanup" /\ awaiting'[q][1] = topics[t]
    BY <2>1 DEF Cleaner, Counts, CallOK
  <2>4. Cleaner(topics[t]) => Cleaner(topics[t])'
    BY <1>1, <2>3 DEF Cleaner
  <2> QED
    BY <1>1, <1>2, <1>4, <2>1, <2>2, <2>4 DEF CountedAt
<1> QED
  BY <1>3, <1>4

\* A step that touches neither the dictionaries nor the calls in cleanup.
LEMMA QuietCounts ==
    ASSUME TypeOK, Counts, CountTypes', UNCHANGED <<topics, refcount, pending>>,
           \A q \in Requests :
               /\ pc'[q] = "cleanup" <=> pc[q] = "cleanup"
               /\ pc[q] = "cleanup" => awaiting'[q][1] = awaiting[q][1]
               /\ pc[q] \in {"ready", "reply"} => pc'[q] \in {"ready", "reply"} \/ ~Registered(q)
    PROVE  Counts'
<1>1. \A q \in Requests : Registered(q)' <=> Registered(q)
  BY DEF Registered
<1>2. \A t \in Topics : CountedAt(t)'
  <2> TAKE t \in Topics
  <2>1. Users(t)' = Users(t)
    BY <1>1 DEF Users
  <2>2. Cleaner(topics[t]) => \E q \in Requests : pc'[q] = "cleanup" /\ awaiting'[q][1] = topics[t]
    BY DEF Cleaner
  <2>3. CountedAt(t)
    BY DEF Counts
  <2> QED
    BY <2>1, <2>2, <2>3 DEF CountedAt, Cleaner
<1>3. \A q \in Requests : CallOK(q)'
  BY <1>1 DEF Counts, CallOK, InUse
<1> QED
  BY <1>2, <1>3 DEF Counts

\* An interest that nobody uses leaves the dictionary; the call that drops it stops waiting for it.
LEMMA DropCounts ==
    ASSUME TypeOK, Counts, CountTypes', NEW r \in Requests, NEW i \in Requests, NEW w, w # "cleanup",
           TopicOf[i] = TopicOf[r], InUse(i), refcount[i] = 0, ~Registered(r),
           topics' = [topics EXCEPT ![TopicOf[r]] = None], UNCHANGED <<refcount, pending>>,
           pc' = [pc EXCEPT ![r] = w],
           \A q \in Requests : q # r => awaiting'[q][1] = awaiting[q][1]
    PROVE  Counts'
<1> DEFINE t0 == TopicOf[r]
<1>1. \A q \in Requests : Registered(q)' <=> Registered(q)
  BY DEF Registered
<1>2. t0 \in Topics /\ topics[t0] = i /\ i # None
  BY KeyType, NoneAssumption DEF InUse
<1>3. \A t \in Topics : topics'[t] = IF t = t0 THEN None ELSE topics[t]
  BY DEF TypeOK
<1>4. \A q \in Requests : pc'[q] = IF q = r THEN w ELSE pc[q]
  BY DEF TypeOK
<1>5. Users(t0) = {}
  <2>1. Cardinality(Users(t0)) = 0 /\ IsFiniteSet(Users(t0))
    BY <1>2 DEF Counts, CountedAt
  <2> QED
    BY <2>1, FS_EmptySet
<1>6. Users(t0)' = {}
  BY <1>1, <1>5 DEF Users
<1>7. CountedAt(t0)'
  BY <1>2, <1>3, <1>6, FS_EmptySet DEF CountedAt
<1>8. \A t \in Topics : t # t0 => CountedAt(t)'
  <2>1. \A q \in Requests : TopicOf[q] # t0 =>
            /\ refcount'[q] = refcount[q] /\ (Registered(q)' <=> Registered(q))
            /\ pc[q] = "cleanup" => pc'[q] = "cleanup" /\ awaiting'[q][1] = awaiting[q][1]
    BY <1>1, <1>4
  <2> HIDE DEF t0
  <2> QED
    BY <1>3, <2>1, OtherTopics
<1>9. \A q \in Requests : CallOK(q)'
  <2> TAKE q \in Requests
  <2>1. CallOK(q)
    BY DEF Counts
  <2>2. ~InUse(q)' => refcount'[q] = 0
    BY <1>2, <1>3, <2>1, KeyType DEF CallOK, InUse
  <2> QED
    BY <1>1, <1>4, <2>1, <2>2 DEF CallOK
<1> QED
  BY <1>7, <1>8, <1>9 DEF Counts

\* A call registers with an interest of its topic.
LEMMA RegisterCounts ==
    ASSUME TypeOK, Counts, CountTypes', NEW r \in Requests, Register(r)
    PROVE  Counts'
<1> DEFINE t0 == TopicOf[r]
<1>0. t0 \in Topics
  BY KeyType
<1>1. PICK i \in Requests : i = IF topics[t0] = None THEN r ELSE topics[t0]
  BY <1>0 DEF TypeOK
<1>2. /\ pc[r] = "calling" /\ pending[Key(r)] = None /\ pending' = [pending EXCEPT ![Key(r)] = r]
      /\ topics' = [topics EXCEPT ![t0] = i] /\ refcount' = [refcount EXCEPT ![i] = @ + 1]
      /\ \E w \in {"ready", "reply"} : pc' = [pc EXCEPT ![r] = w]
      /\ \E a : awaiting' = [awaiting EXCEPT ![r] = a]
  BY <1>1 DEF Register
<1>3. \A q \in Requests : Registered(q)' <=> (q = r \/ Registered(q))
  BY <1>2, UsersAdd
<1>4. ~Registered(r)
  BY <1>2, NoneAssumption DEF Registered
<1>5. \A t \in Topics : topics'[t] = IF t = t0 THEN i ELSE topics[t]
  BY <1>2 DEF TypeOK
<1>6. /\ pc'[r] \in {"ready", "reply"}
      /\ \A q \in Requests : q # r => pc'[q] = pc[q] /\ awaiting'[q][1] = awaiting[q][1]
  BY <1>2 DEF TypeOK, Counts, CountTypes
<1>7. TopicOf[i] = t0 /\ \A q \in Requests : refcount'[q] = IF q = i THEN refcount[i] + 1 ELSE refcount[q]
  <2>1. TopicOf[i] = t0
    BY <1>0, <1>1 DEF Counts, CountedAt
  <2> QED
    BY <1>2, <2>1 DEF Counts, CountTypes
<1>8. refcount[i] = Cardinality(Users(t0)) /\ IsFiniteSet(Users(t0))
  <2>1. CountedAt(t0)
    BY <1>0 DEF Counts
  <2>2. CASE topics[t0] # None
    BY <1>1, <2>1, <2>2 DEF CountedAt
  <2>3. CASE topics[t0] = None
    <3>1. ~InUse(i)
      BY <1>1, <2>3, NoneAssumption DEF InUse
    <3>2. refcount[i] = 0 /\ Users(t0) = {}
      BY <2>1, <2>3, <3>1 DEF Counts, CallOK, CountedAt
    <3> QED
      BY <2>1, <3>2, FS_EmptySet DEF CountedAt
  <2> QED
    BY <2>2, <2>3
<1>9. CountedAt(t0)'
  <2>1. Users(t0)' = Users(t0) \cup {r} /\ r \notin Users(t0)
    BY <1>3, <1>4 DEF Users
  <2>2. IsFiniteSet(Users(t0)') /\ Cardinality(Users(t0)') = Cardinality(Users(t0)) + 1
    BY <1>8, <2>1, FS_AddElement
  <2>3. topics'[t0] = i /\ i # None /\ Users(t0)' # {} /\ refcount'[i] = Cardinality(Users(t0)')
    BY <1>0, <1>5, <1>7, <1>8, <2>1, <2>2, NoneAssumption
  <2> QED
    BY <1>7, <2>2, <2>3 DEF CountedAt
<1>10. \A t \in Topics : t # t0 => CountedAt(t)'
  <2>1. \A q \in Requests : TopicOf[q] # t0 =>
            /\ refcount'[q] = refcount[q] /\ (Registered(q)' <=> Registered(q))
            /\ pc[q] = "cleanup" => pc'[q] = "cleanup" /\ awaiting'[q][1] = awaiting[q][1]
    BY <1>3, <1>6, <1>7
  <2> HIDE DEF t0
  <2> QED
    BY <1>5, <2>1, OtherTopics
<1>11. \A q \in Requests : CallOK(q)'
  <2> TAKE q \in Requests
  <2>1. CallOK(q) /\ TopicOf[q] \in Topics
    BY KeyType DEF Counts
  <2>2. ~InUse(q)' => refcount'[q] = 0
    <3>1. CASE q = i
      BY <1>5, <1>7, <2>1, <3>1 DEF InUse
    <3>2. CASE q # i
      <4>1. refcount'[q] = refcount[q]
        BY <1>7, <3>2
      <4>2. InUse(q) => TopicOf[q] # t0
        BY <1>1, <2>1, <3>2, NoneAssumption DEF InUse
      <4>3. InUse(q) => InUse(q)'
        BY <1>5, <2>1, <4>2 DEF InUse
      <4> QED
        BY <2>1, <4>1, <4>3 DEF CallOK
    <3> QED
      BY <3>1, <3>2
  <2> QED
    BY <1>3, <1>6, <2>1, <2>2 DEF CallOK
<1> QED
  BY <1>9, <1>10, <1>11 DEF Counts

\* A call unregisters: the last one of its interest drops it or waits to drop it.
LEMMA UnregisterCounts ==
    ASSUME TypeOK, Counts, CountTypes', NEW r \in Requests, Registered(r), NEW i, i = topics[TopicOf[r]],
           pending' = [pending EXCEPT ![Key(r)] = None], refcount' = [refcount EXCEPT ![i] = @ - 1],
           NEW w, pc' = [pc EXCEPT ![r] = w],
           \A q \in Requests : q # r => awaiting'[q][1] = awaiting[q][1],
           \/ refcount[i] # 1 /\ UNCHANGED topics /\ w # "cleanup"
           \/ refcount[i] = 1 /\ topics' = [topics EXCEPT ![TopicOf[r]] = None] /\ w # "cleanup"
           \/ refcount[i] = 1 /\ UNCHANGED topics /\ w = "cleanup" /\ awaiting'[r][1] = i
    PROVE  Counts'
<1> DEFINE t0 == TopicOf[r]
<1>0. t0 \in Topics /\ CountedAt(t0)
  BY KeyType DEF Counts
<1>1. r \in Users(t0) /\ Users(t0) # {}
  BY DEF Users
<1>2. i \in Requests /\ TopicOf[i] = t0 /\ topics[t0] # None /\ IsFiniteSet(Users(t0))
      /\ refcount[i] = Cardinality(Users(t0))
  BY <1>0, <1>1 DEF CountedAt, TypeOK
<1>3. \A q \in Requests : Registered(q)' <=> (q # r /\ Registered(q))
  BY UsersRemove
<1>4. Users(t0)' = Users(t0) \ {r}
  BY <1>3 DEF Users
<1>5. IsFiniteSet(Users(t0)') /\ Cardinality(Users(t0)') = Cardinality(Users(t0)) - 1
  BY <1>1, <1>2, <1>4, FS_RemoveElement
<1>6. \A q \in Requests : refcount'[q] = IF q = i THEN refcount[i] - 1 ELSE refcount[q]
  BY DEF Counts, CountTypes
<1>7. \A q \in Requests : pc'[q] = IF q = r THEN w ELSE pc[q]
  BY DEF TypeOK
<1>8. \A t \in Topics : t # t0 => topics'[t] = topics[t]
  BY DEF TypeOK
<1>9. Cardinality(Users(t0)') \in Nat /\ (Cardinality(Users(t0)') = 0 <=> Users(t0)' = {})
  BY <1>5, FS_EmptySet, FS_CardinalityType
<1>10. CountedAt(t0)'
  <2>1. refcount'[i] = Cardinality(Users(t0)')
    BY <1>2, <1>5, <1>6
  <2>2. refcount[i] # 1 => Users(t0)' # {}
    BY <1>2, <1>5, <1>9, FS_CardinalityType
  <2>3. refcount[i] = 1 => Users(t0)' = {}
    BY <1>2, <1>5, <1>9
  <2>4. CASE refcount[i] # 1 /\ UNCHANGED topics /\ w # "cleanup"
    BY <1>2, <1>5, <2>1, <2>2, <2>4 DEF CountedAt
  <2>5. CASE refcount[i] = 1 /\ topics' = [topics EXCEPT ![t0] = None] /\ w # "cleanup"
    <3>1. topics'[t0] = None
      BY <1>0, <2>5 DEF TypeOK
    <3> QED
      BY <1>5, <2>3, <2>5, <3>1 DEF CountedAt
  <2>6. CASE refcount[i] = 1 /\ UNCHANGED topics /\ w = "cleanup" /\ awaiting'[r][1] = i
    <3>1. topics'[t0] = i
      BY <2>6
    <3>2. pc'[r] = "cleanup" /\ awaiting'[r][1] = topics'[t0]
      BY <1>7, <2>6, <3>1
    <3>3. Cleaner(topics[t0])'
      BY <3>2 DEF Cleaner
    <3> QED
      BY <1>2, <1>5, <2>1, <3>1, <3>3 DEF CountedAt
  <2> QED
    BY <2>4, <2>5, <2>6
<1>11. \A t \in Topics : t # t0 => CountedAt(t)'
  <2>1. \A q \in Requests : TopicOf[q] # t0 =>
            /\ refcount'[q] = refcount[q] /\ (Registered(q)' <=> Registered(q))
            /\ pc[q] = "cleanup" => pc'[q] = "cleanup" /\ awaiting'[q][1] = awaiting[q][1]
    BY <1>2, <1>3, <1>6, <1>7
  <2> HIDE DEF t0
  <2> QED
    BY <1>8, <2>1, OtherTopics
<1>12. \A q \in Requests : CallOK(q)'
  <2> TAKE q \in Requests
  <2>1. CallOK(q) /\ TopicOf[q] \in Topics
    BY KeyType DEF Counts
  <2>2. ~InUse(q)' => refcount'[q] = 0
    <3>1. CASE q = i
      <4>1. refcount[i] # 1 => InUse(q)'
        BY <1>2, <3>1 DEF InUse
      <4>2. refcount[i] = 1 => refcount'[i] = 0
        BY <1>2, <1>6
      <4> QED
        BY <3>1, <4>1, <4>2
    <3>2. CASE q # i
      <4>1. refcount'[q] = refcount[q]
        BY <1>6, <3>2
      <4>2. InUse(q) => TopicOf[q] # t0
        BY <3>2 DEF InUse
      <4>3. InUse(q) => InUse(q)'
        BY <1>8, <2>1, <4>2 DEF InUse
      <4> QED
        BY <2>1, <4>1, <4>3 DEF CallOK
    <3> QED
      BY <3>1, <3>2
  <2>3. pc'[q] = "cleanup" => awaiting'[q][1] \in Requests /\ TopicOf[awaiting'[q][1]] = TopicOf[q]
    BY <1>2, <1>7, <2>1 DEF CallOK
  <2> QED
    BY <1>3, <1>7, <2>1, <2>2, <2>3 DEF CallOK
<1> QED
  BY <1>10, <1>11, <1>12 DEF Counts

\* A verdict changes the second part of what a call awaits.
LEMMA InformedEffect ==
    ASSUME CountTypes, NEW I, NEW verdict \in Finished, Informed(I, verdict)
    PROVE  /\ awaiting' \in [Requests -> (Requests \cup {None}) \X (Finished \cup {"none"})]
           /\ \A q \in Requests :
                 /\ awaiting'[q][1] = awaiting[q][1]
                 /\ awaiting'[q][2] = IF awaiting[q][1] \in I /\ awaiting[q][2] = "none"
                                      THEN verdict ELSE awaiting[q][2]
<1>1. \A q \in Requests : /\ awaiting[q] = <<awaiting[q][1], awaiting[q][2]>>
                          /\ awaiting[q][1] \in Requests \cup {None} /\ awaiting[q][2] \in Finished \cup {"none"}
  BY DEF CountTypes
<1>2. \A q \in Requests : awaiting'[q] = IF awaiting[q][1] \in I /\ awaiting[q][2] = "none"
                                         THEN <<awaiting[q][1], verdict>> ELSE awaiting[q]
  BY DEF Informed
<1>3. awaiting' = [q \in Requests |-> awaiting'[q]]
  BY DEF Informed
<1> QED
  BY <1>1, <1>2, <1>3

\* A call that moves awaits an interest or nothing.
LEMMA WaitsEffect ==
    ASSUME CountTypes, NEW r \in Requests, NEW i \in Requests \cup {None},
           \/ awaiting' = [awaiting EXCEPT ![r] = Nothing]
           \/ awaiting' = [awaiting EXCEPT ![r] = <<i, "none">>]
    PROVE  /\ awaiting' \in [Requests -> (Requests \cup {None}) \X (Finished \cup {"none"})]
           /\ \A q \in Requests : q # r => awaiting'[q] = awaiting[q]
BY DEF CountTypes, Nothing

\* What the ready tasks and the restoration tell the calls that await them.
LEMMA OtherAwaiting ==
    ASSUME Counts, OtherStep
    PROVE  CountTypes' /\ \A q \in Requests : awaiting'[q][1] = awaiting[q][1]
<1>1. UNCHANGED refcount
  BY OtherKeeps
<1>2. \/ UNCHANGED awaiting
      \/ \E I : \E verdict \in Finished : Informed(I, verdict)
  <2>1. ASSUME NEW i, TaskStep(i)
        PROVE  \/ UNCHANGED awaiting
               \/ \E I : \E verdict \in Finished : Informed(I, verdict)
    <3>1. \/ UNCHANGED awaiting
          \/ \E verdict \in Finished : TaskEnds(i, verdict)
      BY <2>1 DEF TaskStep, AddStart, AddTurn, AddBody, AddAck, Finished
    <3> QED
      BY <3>1 DEF TaskEnds, TasksEnd
  <2>2. ASSUME NEW r, NEW g, Claim(r) \/ Complete(r, g) PROVE UNCHANGED awaiting
    BY <2>2 DEF Claim, Complete
  <2>3. ASSUME NEW kind, NEW t, AppCall(kind, t) \/ AppTurn \/ AppAck PROVE UNCHANGED awaiting
    BY <2>3 DEF AppCall, AppTurn, AppAck
  <2>4. ASSUME Bind \/ RestoreStart \/ RestoreNext PROVE UNCHANGED awaiting
    BY <2>4 DEF Bind, RestoreStart, RestoreNext
  <2> QED
    BY <2>1, <2>2, <2>3, <2>4 DEF OtherStep
<1> QED
  BY <1>1, <1>2, InformedEffect DEF Counts, CountTypes

\* What dropping an interest does to the dictionary and the call.
LEMMA DropEffect ==
    ASSUME NEW r, NEW i, NEW status, DropInterest(r, i, status)
    PROVE  /\ topics' = [topics EXCEPT ![TopicOf[r]] = None]
           /\ awaiting' = [awaiting EXCEPT ![r] = Nothing]
           /\ \E w \in {"done", "removing", "unsuback"} : pc' = [pc EXCEPT ![r] = w]
BY DEF DropInterest, RemoveBody, Ends, Waits

\* A call leaves.
LEMMA LeaveCounts ==
    ASSUME TypeOK, Counts, NEW r \in Requests, pc[r] \in {"ready", "reply"}, Leave(r)
    PROVE  Counts'
<1> DEFINE i == topics[TopicOf[r]]
<1>1. CASE ~Registered(r)
  <2>1. UNCHANGED <<topics, refcount, pending>> /\ pc' = [pc EXCEPT ![r] = "done"]
        /\ awaiting' = [awaiting EXCEPT ![r] = Nothing]
    BY <1>1 DEF Leave, Ends, Waits, dispatcher, interests
  <2>2. CountTypes' /\ \A q \in Requests : q # r => awaiting'[q] = awaiting[q]
    BY <2>1, WaitsEffect DEF Counts, CountTypes
  <2>3. \A q \in Requests : pc'[q] = IF q = r THEN "done" ELSE pc[q]
    BY <2>1 DEF TypeOK
  <2> QED
    BY <1>1, <2>1, <2>2, <2>3, QuietCounts
<1>2. CASE Registered(r)
  <2>1. pending' = [pending EXCEPT ![Key(r)] = None] /\ refcount' = [refcount EXCEPT ![i] = @ - 1]
    BY <1>2 DEF Leave
  <2>2. i \in Requests /\ refcount[i] \in Nat \ {0}
    <3>1. TopicOf[r] \in Topics /\ CountedAt(TopicOf[r]) /\ r \in Users(TopicOf[r])
      BY <1>2, KeyType DEF Counts, Users
    <3>2. i \in Requests /\ refcount[i] = Cardinality(Users(TopicOf[r])) /\ IsFiniteSet(Users(TopicOf[r]))
      BY <3>1 DEF CountedAt, TypeOK
    <3> QED
      BY <3>1, <3>2, FS_EmptySet, FS_CardinalityType
  <2>3. \/ refcount[i] # 1 /\ Ends(r) /\ UNCHANGED topics
        \/ refcount[i] = 1 /\ DropInterest(r, i, task[i])
        \/ refcount[i] = 1 /\ Waits(r, "cleanup", <<i, "none">>) /\ UNCHANGED topics
    BY <1>2 DEF Leave
  <2>4. \E w \in {"done", "removing", "unsuback", "cleanup"} :
          /\ pc' = [pc EXCEPT ![r] = w]
          /\ awaiting' = [awaiting EXCEPT ![r] = IF w = "cleanup" THEN <<i, "none">> ELSE Nothing]
          /\ \/ refcount[i] # 1 /\ UNCHANGED topics /\ w # "cleanup"
             \/ refcount[i] = 1 /\ topics' = [topics EXCEPT ![TopicOf[r]] = None] /\ w # "cleanup"
             \/ refcount[i] = 1 /\ UNCHANGED topics /\ w = "cleanup"
    <3>1. CASE refcount[i] = 1 /\ DropInterest(r, i, task[i])
      BY <3>1, DropEffect
    <3>2. CASE refcount[i] # 1 /\ Ends(r) /\ UNCHANGED topics
      BY <3>2 DEF Ends, Waits
    <3>3. CASE refcount[i] = 1 /\ Waits(r, "cleanup", <<i, "none">>) /\ UNCHANGED topics
      BY <3>3 DEF Waits
    <3> QED
      BY <2>3, <3>1, <3>2, <3>3
  <2> HIDE DEF i
  <2>5. PICK w \in {"done", "removing", "unsuback", "cleanup"} :
          /\ pc' = [pc EXCEPT ![r] = w]
          /\ awaiting' = [awaiting EXCEPT ![r] = IF w = "cleanup" THEN <<i, "none">> ELSE Nothing]
          /\ \/ refcount[i] # 1 /\ UNCHANGED topics /\ w # "cleanup"
             \/ refcount[i] = 1 /\ topics' = [topics EXCEPT ![TopicOf[r]] = None] /\ w # "cleanup"
             \/ refcount[i] = 1 /\ UNCHANGED topics /\ w = "cleanup"
    BY <2>4
  <2>6. /\ awaiting' \in [Requests -> (Requests \cup {None}) \X (Finished \cup {"none"})]
        /\ \A q \in Requests : q # r => awaiting'[q] = awaiting[q]
    BY <2>2, <2>5, WaitsEffect DEF Counts
  <2>7. CountTypes'
    <3>1. refcount[i] - 1 \in Nat
      BY <2>2
    <3>2. refcount' \in [Requests -> Nat]
      BY <2>1, <2>2, <3>1 DEF Counts, CountTypes
    <3> QED
      BY <2>6, <3>2 DEF CountTypes
  <2>8. w = "cleanup" => awaiting'[r][1] = i
    BY <2>5 DEF Counts, CountTypes
  <2>9. i = topics[TopicOf[r]]
    BY DEF i
  <2> QED
    BY <1>2, <2>1, <2>5, <2>6, <2>7, <2>8, <2>9, UnregisterCounts
<1> QED
  BY <1>1, <1>2

\* A call in cleanup finds its interest used again, or gone, and ends.
LEMMA InheritedCounts ==
    ASSUME TypeOK, Counts, CountTypes', NEW r \in Requests, pc[r] = "cleanup", ~Unused(awaiting[r][1]),
           UNCHANGED <<topics, refcount, pending>>, pc' = [pc EXCEPT ![r] = "done"],
           \A q \in Requests : q # r => awaiting'[q] = awaiting[q]
    PROVE  Counts'
<1>1. \A q \in Requests : Registered(q)' <=> Registered(q)
  BY DEF Registered
<1>2. \A q \in Requests : pc'[q] = IF q = r THEN "done" ELSE pc[q]
  BY DEF TypeOK
<1>3. \A t \in Topics : CountedAt(t)'
  <2> TAKE t \in Topics
  <2>1. Users(t)' = Users(t)
    BY <1>1 DEF Users
  <2>2. CountedAt(t)
    BY DEF Counts
  <2>3. topics[t] # None /\ Users(t) = {} => Cleaner(topics[t])'
    <3> SUFFICES ASSUME topics[t] # None, Users(t) = {} PROVE Cleaner(topics[t])'
      OBVIOUS
    <3>1. refcount[topics[t]] = 0 /\ TopicOf[topics[t]] = t
      BY <2>2, FS_EmptySet DEF CountedAt
    <3>2. topics[t] # awaiting[r][1]
      BY <3>1 DEF Unused
    <3>3. PICK q \in Requests : pc[q] = "cleanup" /\ awaiting[q][1] = topics[t]
      BY <2>2 DEF CountedAt, Cleaner
    <3>4. q # r
      BY <3>2, <3>3
    <3>5. pc'[q] = "cleanup" /\ awaiting'[q][1] = topics'[t]
      BY <1>2, <3>3, <3>4
    <3> QED
      BY <3>5 DEF Cleaner
  <2> QED
    BY <2>1, <2>2, <2>3 DEF CountedAt
<1>4. \A q \in Requests : CallOK(q)'
  <2> TAKE q \in Requests
  <2>1. CallOK(q)
    BY DEF Counts
  <2>2. ~Registered(r)
    BY DEF Counts, CallOK
  <2> QED
    BY <1>1, <1>2, <2>1, <2>2 DEF CallOK, InUse
<1> QED
  BY <1>3, <1>4 DEF Counts

\* A call in cleanup ends its wait: it drops the interest if nobody uses it.
LEMMA CleanupCounts ==
    ASSUME TypeOK, Counts, NEW r \in Requests, pc[r] = "cleanup", UNCHANGED <<refcount, pending>>,
           NEW w \in {"done", "removing", "unsuback"}, pc' = [pc EXCEPT ![r] = w],
           awaiting' = [awaiting EXCEPT ![r] = Nothing],
           \/ Unused(awaiting[r][1]) /\ topics' = [topics EXCEPT ![TopicOf[r]] = None]
           \/ ~Unused(awaiting[r][1]) /\ UNCHANGED topics /\ w = "done"
    PROVE  Counts'
<1>1. CountTypes' /\ \A q \in Requests : q # r => awaiting'[q] = awaiting[q]
  BY WaitsEffect DEF Counts, CountTypes
<1>2. awaiting[r][1] \in Requests /\ TopicOf[awaiting[r][1]] = TopicOf[r] /\ ~Registered(r)
  BY DEF Counts, CallOK
<1>3. CASE Unused(awaiting[r][1]) /\ topics' = [topics EXCEPT ![TopicOf[r]] = None]
  <2>1. PICK i \in Requests : i = awaiting[r][1]
    BY <1>2
  <2>2. InUse(i) /\ refcount[i] = 0 /\ TopicOf[i] = TopicOf[r] /\ w # "cleanup"
    BY <1>2, <1>3, <2>1 DEF Unused, InUse
  <2> QED
    BY <1>1, <1>2, <1>3, <2>2, DropCounts
<1>4. CASE ~Unused(awaiting[r][1]) /\ UNCHANGED topics /\ w = "done"
  BY <1>1, <1>4, InheritedCounts
<1> QED
  BY <1>3, <1>4

\* A call that does not enter or leave cleanup, and is not registered, moves.
LEMMA MoveCounts ==
    ASSUME TypeOK, Counts, NEW r \in Requests, pc[r] # "cleanup", NEW w, w # "cleanup",
           Registered(r) => w \in {"ready", "reply"},
           UNCHANGED <<topics, refcount, pending>>, pc' = [pc EXCEPT ![r] = w],
           awaiting' = [awaiting EXCEPT ![r] = Nothing]
    PROVE  Counts'
<1>1. CountTypes' /\ \A q \in Requests : q # r => awaiting'[q] = awaiting[q]
  BY WaitsEffect DEF Counts, CountTypes
<1>2. \A q \in Requests : pc'[q] = IF q = r THEN w ELSE pc[q]
  BY DEF TypeOK
<1> QED
  BY <1>1, <1>2, QuietCounts

\* Every step keeps the counts.
LEMMA CountsStep ==
    ASSUME TypeOK, Counts, [Next]_vars
    PROVE  Counts'
<1>0. \A r \in Requests : Registered(r) => pc[r] \in {"ready", "reply"}
  BY DEF Counts, CallOK
<1>1. ASSUME NEW r \in Requests, IdleStep(r) PROVE Counts'
  <2>1. CASE Refuse(r) \/ CancelEarly(r)
    <3>1. pc[r] = "calling" /\ pc' = [pc EXCEPT ![r] = "done"] /\ awaiting' = [awaiting EXCEPT ![r] = Nothing]
          /\ UNCHANGED <<topics, refcount, pending>>
      BY <2>1 DEF Refuse, CancelEarly, Ends, Waits, dispatcher, interests
    <3> QED
      BY <1>0, <3>1, MoveCounts
  <2>2. CASE ReadyDone(r)
    <3>1. pc[r] = "ready" /\ pc' = [pc EXCEPT ![r] = "reply"] /\ awaiting' = [awaiting EXCEPT ![r] = Nothing]
          /\ UNCHANGED <<topics, refcount, pending>>
      BY <2>2 DEF ReadyDone, Waits, dispatcher, interests
    <3> QED
      BY <3>1, MoveCounts
  <2>3. CASE RegisterFails(r)
    <3>1. TopicOf[r] \in Topics /\ topics[TopicOf[r]] # None
      BY <2>3, KeyType DEF RegisterFails
    <3>2. PICK i \in Requests : i = topics[TopicOf[r]]
      BY <3>1 DEF TypeOK
    <3>3. pc[r] = "calling" /\ pc' = [pc EXCEPT ![r] = "done"] /\ awaiting' = [awaiting EXCEPT ![r] = Nothing]
          /\ UNCHANGED <<refcount, pending>>
          /\ topics' = IF refcount[i] = 0 THEN [topics EXCEPT ![TopicOf[r]] = None] ELSE topics
      BY <2>3, <3>2 DEF RegisterFails, Ends, Waits
    <3>4. CASE refcount[i] = 0
      <4>1. CountTypes' /\ \A q \in Requests : q # r => awaiting'[q] = awaiting[q]
        BY <3>3, WaitsEffect DEF Counts, CountTypes
      <4>2. TopicOf[i] = TopicOf[r] /\ InUse(i) /\ ~Registered(r)
        BY <1>0, <3>1, <3>2, <3>3 DEF Counts, CountedAt, InUse
      <4> QED
        BY <3>3, <3>4, <4>1, <4>2, DropCounts
    <3>5. CASE refcount[i] # 0
      BY <1>0, <3>3, <3>5, MoveCounts
    <3> QED
      BY <3>4, <3>5
  <2> QED
    BY <1>1, <2>1, <2>2, <2>3 DEF IdleStep
<1>2. ASSUME NEW r \in Requests, Register(r) PROVE Counts'
  <2>1. PICK i \in Requests : i = IF topics[TopicOf[r]] = None THEN r ELSE topics[TopicOf[r]]
    BY KeyType DEF TypeOK
  <2>2. /\ refcount' = [refcount EXCEPT ![i] = @ + 1]
        /\ \/ awaiting' = [awaiting EXCEPT ![r] = Nothing]
           \/ awaiting' = [awaiting EXCEPT ![r] = <<i, "none">>]
    BY <1>2, <2>1 DEF Register
  <2>3. CountTypes'
    BY <2>2, WaitsEffect DEF Counts, CountTypes
  <2> QED
    BY <1>2, <2>3, RegisterCounts
<1>3. ASSUME NEW r \in Requests, HolderStep(r) PROVE Counts'
  <2>1. CASE CleanupDone(r)
    <3>1. pc[r] = "cleanup" /\ UNCHANGED <<refcount, pending>>
      BY <2>1 DEF CleanupDone
    <3>2. \/ Unused(awaiting[r][1]) /\ DropInterest(r, awaiting[r][1], awaiting[r][2])
          \/ ~Unused(awaiting[r][1]) /\ Ends(r) /\ UNCHANGED topics
      BY <2>1 DEF CleanupDone
    <3>3. CASE Unused(awaiting[r][1]) /\ DropInterest(r, awaiting[r][1], awaiting[r][2])
      BY <3>1, <3>3, DropEffect, CleanupCounts
    <3>4. CASE ~Unused(awaiting[r][1]) /\ Ends(r) /\ UNCHANGED topics
      BY <3>1, <3>4, CleanupCounts DEF Ends, Waits
    <3> QED
      BY <3>2, <3>3, <3>4
  <2>2. CASE CancelCleanup(r)
    <3>1. pc[r] = "cleanup" /\ UNCHANGED <<refcount, pending>> /\ pc' = [pc EXCEPT ![r] = "done"]
          /\ awaiting' = [awaiting EXCEPT ![r] = Nothing]
      BY <2>2 DEF CancelCleanup, Ends, Waits
    <3>2. \/ Unused(awaiting[r][1]) /\ topics' = [topics EXCEPT ![TopicOf[r]] = None]
          \/ ~Unused(awaiting[r][1]) /\ UNCHANGED topics
      BY <2>2 DEF CancelCleanup
    <3> QED
      BY <3>1, <3>2, CleanupCounts
  <2>3. CASE RemoveTurn(r) \/ RemoveAck(r) \/ CancelRemove(r) \/ CancelUnsuback(r)
    <3>1. pc[r] \in {"removing", "unsuback"} /\ UNCHANGED <<topics, refcount, pending>>
      BY <2>3 DEF RemoveTurn, RemoveAck, CancelRemove, CancelUnsuback, interests
    <3>2. awaiting' = [awaiting EXCEPT ![r] = Nothing] /\ \E w \in {"done", "unsuback"} : pc' = [pc EXCEPT ![r] = w]
      BY <2>3 DEF RemoveTurn, RemoveBody, RemoveAck, CancelRemove, CancelUnsuback, Ends, Waits
    <3> QED
      BY <1>0, <3>1, <3>2, MoveCounts
  <2> QED
    BY <1>3, <2>1, <2>2, <2>3 DEF HolderStep
<1>4. ASSUME NEW r \in Requests, pc[r] \in {"ready", "reply"}, Leave(r) PROVE Counts'
  BY <1>4, LeaveCounts
<1>5. CASE OtherStep
  BY <1>5, OtherKeeps, OtherAwaiting, QuietCounts
<1>6. ASSUME NEW next, Teardown(next) PROVE Counts'
  <2>1. /\ UNCHANGED <<topics, refcount, pending>> /\ \E I : Informed(I, "disconnected")
        /\ pc' = [r \in Requests |-> IF pc[r] \in {"removing", "unsuback"} THEN "done" ELSE pc[r]]
    BY <1>6 DEF Teardown, TasksEnd
  <2>2. CountTypes' /\ \A q \in Requests : awaiting'[q][1] = awaiting[q][1]
    BY <2>1, InformedEffect DEF Counts, CountTypes, Finished
  <2>3. \A q \in Requests : /\ pc'[q] = "cleanup" <=> pc[q] = "cleanup"
                            /\ pc[q] \in {"ready", "reply"} => pc'[q] = pc[q]
    BY <2>1
  <2> QED
    BY <2>1, <2>2, <2>3, QuietCounts
<1>7. CASE Stop
  <2>1. /\ pending' = [k \in Keys |-> None] /\ topics' = [t \in Topics |-> None]
        /\ refcount' = [i \in Requests |-> 0] /\ UNCHANGED pc /\ \E I : Informed(I, "cancelled")
    BY <1>7 DEF Stop
  <2>2. CountTypes' /\ \A q \in Requests : awaiting'[q][1] = awaiting[q][1]
    BY <2>1, InformedEffect DEF Counts, CountTypes, Finished
  <2>3. \A q \in Requests : ~Registered(q)'
    BY <2>1, KeyType, NoneAssumption DEF Registered
  <2>4. \A t \in Topics : CountedAt(t)'
    BY <2>1, <2>3, FS_EmptySet DEF CountedAt, Users
  <2>5. \A q \in Requests : CallOK(q)'
    BY <2>1, <2>2, <2>3 DEF Counts, CallOK
  <2> QED
    BY <2>2, <2>4, <2>5 DEF Counts
<1>8. CASE UNCHANGED vars
  <2>1. UNCHANGED <<topics, refcount, pending, pc, awaiting>>
    BY <1>8 DEF vars, dispatcher, interests
  <2>2. CountTypes'
    BY <2>1 DEF Counts, CountTypes
  <2> QED
    BY <2>1, <2>2, QuietCounts
<1> QED
  BY <1>1, <1>2, <1>3, <1>4, <1>5, <1>6, <1>7, <1>8, NextCases

\* The initial states count nothing.
LEMMA InitCounts == Init => Counts
<1> SUFFICES ASSUME Init PROVE Counts
  OBVIOUS
<1>1. CountTypes
  BY DEF Init, CountTypes, Nothing
<1>2. \A q \in Requests : ~Registered(q)
  BY KeyType, NoneAssumption DEF Init, Registered
<1>3. \A t \in Topics : CountedAt(t)
  BY <1>2, FS_EmptySet DEF Init, CountedAt, Users
<1>4. \A q \in Requests : CallOK(q)
  BY <1>2 DEF Init, CallOK
<1> QED
  BY <1>1, <1>3, <1>4 DEF Counts

\* The places, the types and the counts hold in every reachable state.
LEMMA DispatcherInvariant == Spec => [](TypeOK /\ Places /\ Counts)
<1>1. TypeOK /\ Places /\ Counts /\ [Next]_vars => (TypeOK /\ Places /\ Counts)'
  BY PlacesStep, TypeStep, CountsStep
<1> QED
  BY <1>1, InitPlaces, InitCounts, PTL DEF Spec

(***************************************************************************)
(* The reference counts of the interests are exact, whatever requests      *)
(* join, leave, fail or are cancelled while an interest is being made or   *)
(* cleaned up, and no interest is left behind: one without requests has a  *)
(* call in unregister() that waits to drop it.                             *)
(***************************************************************************)
THEOREM InterestsAreCounted == Spec => []InterestCounts
<1>1. TypeOK /\ Counts => InterestCounts
  <2> SUFFICES ASSUME Counts, NEW t \in Topics
               PROVE  IF topics[t] = None THEN Users(t) = {}
                      ELSE refcount[topics[t]] = Cardinality(Users(t)) /\ (Users(t) = {} => Cleaner(topics[t]))
    BY DEF InterestCounts, Users, Cleaner
  <2> QED
    BY DEF Counts, CountedAt
<1> QED
  BY <1>1, DispatcherInvariant, PTL

-----------------------------------------------------------------------------
(***************************************************************************)
(* Claimed responses.                                                      *)
(***************************************************************************)
Claims ==
    /\ claimed \in [Requests -> BOOLEAN]
    /\ \A r \in Requests : pc[r] = "calling" => ~claimed[r]
    /\ ClaimedIsOwed

\* Between two states of one live connection the generation stays.
LEMMA SameGeneration ==
    ASSUME UNCHANGED <<client, conn>>
    PROVE  Generation' = Generation /\ Alive' = Alive
BY DEF Generation, Bound, Alive

\* A step that leaves the responses, the dictionary of requests and the connection alone.
LEMMA QuietClaims ==
    ASSUME Claims, UNCHANGED <<pending, future, claimed, claims, client, conn>>,
           \A q \in Requests : pc'[q] = "calling" => pc[q] = "calling"
    PROVE  Claims'
BY SameGeneration DEF Claims, ClaimedIsOwed, Registered

\* A claimed response is owed to its request by the current connection.
LEMMA ClaimsStep ==
    ASSUME TypeOK, Counts, Claims, [Next]_vars
    PROVE  Claims'
<1>1. ASSUME NEW r \in Requests, IdleStep(r) PROVE Claims'
  <2>1. /\ UNCHANGED <<pending, future, claimed, claims, client, conn>>
        /\ \E w \in {"done", "reply"} : pc' = [pc EXCEPT ![r] = w]
    BY <1>1 DEF IdleStep, Refuse, RegisterFails, ReadyDone, CancelEarly, Ends, Waits, dispatcher, waiters, link
  <2> QED
    BY <2>1, QuietClaims DEF TypeOK
<1>2. ASSUME NEW r \in Requests, Register(r) PROVE Claims'
  <2>1. /\ pc[r] = "calling" /\ pending[Key(r)] = None /\ pending' = [pending EXCEPT ![Key(r)] = r]
        /\ future' = [future EXCEPT ![r] = "waiting"] /\ UNCHANGED <<claimed, claims, client, conn>>
        /\ \E w \in {"ready", "reply"} : pc' = [pc EXCEPT ![r] = w]
    BY <1>2 DEF Register, link
  <2>2. \A q \in Requests : Registered(q)' <=> (q = r \/ Registered(q))
    BY <2>1, UsersAdd
  <2>3. ~claimed[r] /\ \A q \in Requests : q # r => future'[q] = future[q]
    BY <2>1 DEF Claims, TypeOK
  <2>4. \A q \in Requests : pc'[q] = "calling" => pc[q] = "calling"
    BY <2>1 DEF TypeOK
  <2> QED
    BY <2>1, <2>2, <2>3, <2>4, SameGeneration DEF Claims, ClaimedIsOwed
<1>3. ASSUME NEW r \in Requests, HolderStep(r) PROVE Claims'
  <2>1. UNCHANGED <<pending, future, claimed, claims, client, conn>>
    BY <1>3 DEF HolderStep, CleanupDone, RemoveTurn, RemoveAck, CancelCleanup, CancelRemove, CancelUnsuback,
                waiters, link
  <2>2. \E w \in {"done", "removing", "unsuback"} : pc' = [pc EXCEPT ![r] = w]
    <3>1. CASE CleanupDone(r)
      BY <3>1, DropEffect DEF CleanupDone, Ends, Waits
    <3>2. CASE RemoveTurn(r)
      BY <3>2 DEF RemoveTurn, RemoveBody, Ends, Waits
    <3>3. CASE RemoveAck(r) \/ CancelCleanup(r) \/ CancelRemove(r) \/ CancelUnsuback(r)
      BY <3>3 DEF RemoveAck, CancelCleanup, CancelRemove, CancelUnsuback, Ends, Waits
    <3> QED
      BY <1>3, <3>1, <3>2, <3>3 DEF HolderStep
  <2> QED
    BY <2>1, <2>2, QuietClaims DEF TypeOK
<1>4. ASSUME NEW r \in Requests, pc[r] \in {"ready", "reply"}, Leave(r) PROVE Claims'
  <2>1. /\ future' = [future EXCEPT ![r] = "none"] /\ claimed' = [claimed EXCEPT ![r] = FALSE]
        /\ claims' = {response \in claims : response[1] # r} /\ UNCHANGED <<client, conn>>
    BY <1>4 DEF Leave, link
  <2>2. \A q \in Requests : Registered(q)' => Registered(q)
    <3>1. CASE Registered(r) /\ pending' = [pending EXCEPT ![Key(r)] = None]
      BY <3>1, UsersRemove
    <3>2. CASE UNCHANGED pending
      BY <3>2 DEF Registered
    <3> QED
      BY <1>4, <3>1, <3>2, LeavePlace
  <2>3. \A q \in Requests : pc'[q] = "calling" => pc[q] = "calling"
    BY <1>4, LeavePlace DEF TypeOK, Unregistering
  <2>4. /\ claimed' \in [Requests -> BOOLEAN] /\ ~claimed'[r]
        /\ \A q \in Requests : q # r => claimed'[q] = claimed[q] /\ future'[q] = future[q]
    BY <2>1 DEF Claims, TypeOK
  <2>5. \A q \in Requests : \A g : q # r /\ <<q, g>> \in claims => <<q, g>> \in claims'
    BY <2>1
  <2> QED
    BY <2>1, <2>2, <2>3, <2>4, <2>5, SameGeneration DEF Claims, ClaimedIsOwed
<1>5. CASE OtherStep
  <2>0. UNCHANGED <<pending, pc>>
    BY <1>5, OtherKeeps
  <2>1. ASSUME NEW r \in Requests, Claim(r) PROVE Claims'
    <3>1. /\ claimed' = [claimed EXCEPT ![r] = TRUE] /\ claims' = claims \cup {<<r, Generation>>}
          /\ Registered(r) /\ UNCHANGED <<future, client, conn>>
      BY <2>1 DEF Claim, link
    <3>2. pc[r] # "calling"
      BY <3>1 DEF Counts, CallOK
    <3>3. /\ claimed' \in [Requests -> BOOLEAN]
          /\ \A q \in Requests : q # r => claimed'[q] = claimed[q]
      BY <3>1 DEF Claims
    <3>4. \A q \in Requests : Registered(q)' <=> Registered(q)
      BY <2>0 DEF Registered
    <3>5. ClaimedIsOwed'
      BY <3>1, <3>3, <3>4, SameGeneration DEF Claims, ClaimedIsOwed
    <3> QED
      BY <2>0, <3>2, <3>3, <3>5 DEF Claims
  <2>2. ASSUME NEW r \in Requests, NEW g, Complete(r, g) PROVE Claims'
    <3>1. /\ claims' = claims \ {<<r, g>>} /\ UNCHANGED <<claimed, client, conn>>
          /\ future' = IF g = Generation /\ Registered(r) /\ future[r] = "waiting"
                       THEN [future EXCEPT ![r] = "result"] ELSE future
      BY <2>2 DEF Complete, link
    <3>2. \A q \in Requests : Registered(q)' <=> Registered(q)
      BY <2>0 DEF Registered
    <3>3. \A q \in Requests : /\ future'[q] = "waiting" => future[q] = "waiting"
                              /\ q = r /\ g = Generation /\ Registered(r) => future'[q] # "waiting"
      BY <3>1 DEF TypeOK
    <3>4. ClaimedIsOwed'
      <4> SUFFICES ASSUME NEW q \in Requests, Registered(q)', claimed'[q], future'[q] = "waiting", Alive'
                   PROVE  <<q, Generation'>> \in claims'
        BY DEF ClaimedIsOwed
      <4>1. <<q, Generation>> \in claims
        BY <3>1, <3>2, <3>3, SameGeneration DEF Claims, ClaimedIsOwed
      <4>2. <<q, Generation>> # <<r, g>>
        BY <3>2, <3>3
      <4>3. Generation' = Generation
        BY <3>1, SameGeneration
      <4> QED
        BY <3>1, <4>1, <4>2, <4>3
    <3> QED
      BY <2>0, <3>1, <3>4 DEF Claims
  <2>3. CASE Bind
    <3>1. claimed' = [r \in Requests |-> claimed[r] /\ ~Registered(r)]
      BY <2>3 DEF Bind, BoundClaims
    <3>2. \A q \in Requests : Registered(q)' <=> Registered(q)
      BY <2>0 DEF Registered
    <3> QED
      BY <2>0, <3>1, <3>2 DEF Claims, ClaimedIsOwed
  <2>4. ASSUME NEW i, TaskStep(i) PROVE UNCHANGED <<future, claimed, claims, client, conn>>
    BY <2>4 DEF TaskStep, AddStart, AddTurn, AddBody, AddAck, waiters, link
  <2>5. ASSUME NEW kind, NEW t, AppCall(kind, t) \/ AppTurn \/ AppAck \/ RestoreStart \/ RestoreNext
        PROVE  UNCHANGED <<future, claimed, claims, client, conn>>
    BY <2>5 DEF AppCall, AppTurn, AppAck, RestoreStart, RestoreNext, waiters, link
  <2> QED
    BY <1>5, <2>0, <2>1, <2>2, <2>3, <2>4, <2>5, QuietClaims DEF OtherStep
<1>6. ASSUME NEW next \in {"lost", "failed", "stopped"}, Teardown(next) PROVE Claims'
  <2>1. ~Alive' /\ UNCHANGED claimed /\ \A q \in Requests : pc'[q] = "calling" => pc[q] = "calling"
    BY <1>6 DEF Teardown, Alive, waiters
  <2> QED
    BY <2>1 DEF Claims, ClaimedIsOwed
<1>7. CASE Stop
  <2>1. ~Alive' /\ UNCHANGED <<claimed, pc>>
    BY <1>7 DEF Stop, Alive
  <2> QED
    BY <2>1 DEF Claims, ClaimedIsOwed
<1>8. CASE UNCHANGED vars
  BY <1>8, QuietClaims DEF vars, dispatcher, waiters, link
<1> QED
  BY <1>1, <1>2, <1>3, <1>4, <1>5, <1>6, <1>7, <1>8, NextCases

(***************************************************************************)
(* A request that waits with its response claimed has that response coming *)
(* on this connection: bind() takes back the claims of the last one, and   *)
(* complete() never spends the claim of another generation on it.          *)
(***************************************************************************)
THEOREM ClaimsAreOwed == Spec => []ClaimedIsOwed
<1>1. Init => Claims
  BY DEF Init, Claims, ClaimedIsOwed
<1>2. TypeOK /\ Counts /\ Claims /\ [Next]_vars => Claims'
  BY ClaimsStep
<1>3. Claims => ClaimedIsOwed
  BY DEF Claims
<1> QED
  BY <1>1, <1>2, <1>3, DispatcherInvariant, PTL DEF Spec

-----------------------------------------------------------------------------
(***************************************************************************)
(* Ready tasks and the observers they leave.                               *)
(***************************************************************************)
Live == {"created", "queued", "suback"}

\* Cleanup of the topic was cancelled, or the dispatcher has no connection to clean up on.
Excused(t) == t \in abandoned \/ ~Bound

\* Nobody refers to a call that has not registered yet.
FreshCall(r) == pc[r] = "calling" => task[r] = "none" /\ ~InUse(r) /\ \A q \in Requests : awaiting[q][1] # r

\* What a call was told of its interest's task is how that task still stands.
VerdictOK(r, i) == awaiting[r][2] # "none" /\ awaiting[r][1] = i /\ InUse(i) => task[i] = awaiting[r][2]

\* A ready task that has yet to end serves the interest in the dictionary.
LiveOK(i) == task[i] \in Live => InUse(i) \/ Excused(TopicOf[i])

\* An observer has an interest whose task made it, or a call that removes it.
Watched(t) ==
    \/ Excused(t)
    \/ \E q \in Requests : pc[q] = "removing" /\ TopicOf[q] = t
    \/ topics[t] \in Requests /\ task[topics[t]] \in {"ok", "suback"}

TasksInv ==
    /\ observers \subseteq Topics
    /\ client \in {"lost", "failed", "stopped"} => observers = {}
    /\ \A r \in Requests : FreshCall(r)
    /\ \A r, i \in Requests : VerdictOK(r, i)
    /\ \A i \in Requests : LiveOK(i)
    /\ \A t \in observers : Watched(t)

\* The interests in the dictionary are those named by their topic's entry.
LEMMA KnownInUse ==
    ASSUME TypeOK, Counts
    PROVE  \A i \in Requests : i \in Known <=> InUse(i)
<1> TAKE i \in Requests
<1>1. TopicOf[i] \in Topics /\ i # None
  BY KeyType, NoneAssumption
<1>2. InUse(i) => i \in Known
  BY <1>1 DEF InUse, Known
<1>3. ASSUME NEW t \in Topics, topics[t] = i PROVE InUse(i)
  BY <1>1, <1>3 DEF Counts, CountedAt, InUse
<1> QED
  BY <1>2, <1>3 DEF Known

\* A cancelled cleanup and the end of the dispatcher are not undone.
LEMMA ExcusedStays ==
    ASSUME TypeOK, [Next]_vars
    PROVE  \A t : Excused(t) => Excused(t)'
<1>1. ASSUME NEW r \in Requests, IdleStep(r) \/ Register(r) \/ HolderStep(r) \/ Leave(r)
      PROVE  UNCHANGED client /\ abandoned \subseteq abandoned'
  BY <1>1 DEF IdleStep, Refuse, RegisterFails, ReadyDone, CancelEarly, Register, HolderStep, CleanupDone, RemoveTurn,
              RemoveAck, CancelCleanup, CancelRemove, CancelUnsuback, Leave, link
<1>2. ASSUME OtherStep PROVE abandoned \subseteq abandoned' /\ (~Bound => ~Bound')
  <2>1. UNCHANGED abandoned
    BY <1>2, OtherKeeps
  <2>2. ASSUME NEW i, NEW g, NEW kind, NEW t,
               \/ TaskStep(i) \/ Claim(i) \/ Complete(i, g) \/ AppCall(kind, t) \/ AppTurn \/ AppAck
               \/ RestoreStart \/ RestoreNext
        PROVE  UNCHANGED client
    BY <2>2 DEF TaskStep, AddStart, AddTurn, AddBody, AddAck, Claim, Complete, AppCall, AppTurn, AppAck,
                RestoreStart, RestoreNext, link
  <2>3. CASE Bind
    BY <2>1, <2>3 DEF Bind, Bound
  <2>4. CASE UNCHANGED client
    BY <2>1, <2>4 DEF Bound
  <2> QED
    BY <1>2, <2>2, <2>3, <2>4 DEF OtherStep
<1>3. ASSUME NEW next, Teardown(next), next # "stopped" => Alive, next = "stopped" => client = "stopping"
      PROVE  UNCHANGED abandoned /\ (~Bound => ~Bound')
  BY <1>3 DEF Teardown, Alive, Bound
<1>4. CASE Stop
  BY <1>4 DEF Stop, Bound, Excused
<1>5. CASE UNCHANGED vars
  BY <1>5 DEF vars, link, Bound, Excused
<1> QED
  BY <1>1, <1>2, <1>3, <1>4, <1>5, NextCases DEF Excused, Bound

\* A call moves and awaits nothing; no interest, task or observer changes.
LEMMA MoveTasks ==
    ASSUME TypeOK, Counts, TasksInv, \A t : Excused(t) => Excused(t)', NEW r \in Requests, NEW w, w # "calling",
           pc' = [pc EXCEPT ![r] = w], awaiting' = [awaiting EXCEPT ![r] = Nothing],
           UNCHANGED <<topics, task, client>>,
           observers' \subseteq observers,
           pc[r] = "removing" => TopicOf[r] \notin observers' \/ Excused(TopicOf[r])'
    PROVE  TasksInv'
<1>1. \A q \in Requests : pc'[q] = IF q = r THEN w ELSE pc[q]
  BY DEF TypeOK
<1>2. /\ \A q \in Requests : q # r => awaiting'[q] = awaiting[q]
      /\ awaiting'[r][1] = None /\ awaiting'[r][2] = "none"
  BY DEF Counts, CountTypes, Nothing
<1>3. \A q \in Requests : FreshCall(q)'
  BY <1>1, <1>2, NoneAssumption DEF TasksInv, FreshCall, InUse
<1>4. \A q, i \in Requests : VerdictOK(q, i)'
  BY <1>2 DEF TasksInv, VerdictOK, InUse
<1>5. \A i \in Requests : LiveOK(i)'
  BY DEF TasksInv, LiveOK, InUse
<1>6. \A t \in observers' : Watched(t)'
  <2> TAKE t \in observers'
  <2>1. Watched(t)
    BY DEF TasksInv
  <2>2. ASSUME NEW q \in Requests, pc[q] = "removing", TopicOf[q] = t PROVE Watched(t)'
    <3>1. CASE q = r
      BY <2>2, <3>1 DEF Watched
    <3>2. CASE q # r
      <4>1. pc'[q] = "removing"
        BY <1>1, <2>2, <3>2
      <4> QED
        BY <2>2, <4>1 DEF Watched
    <3> QED
      BY <3>1, <3>2
  <2> QED
    BY <2>1, <2>2 DEF Watched
<1> QED
  BY <1>3, <1>4, <1>5, <1>6 DEF TasksInv

\* An interest leaves the dictionary with its task ended, or with its cleanup cancelled.
LEMMA DropTasks ==
    ASSUME TypeOK, Counts, TasksInv, \A t : Excused(t) => Excused(t)',
           NEW r \in Requests, NEW i \in Requests, NEW w, w # "calling", pc[r] # "removing",
           TopicOf[i] = TopicOf[r], InUse(i),
           topics' = [topics EXCEPT ![TopicOf[r]] = None],
           task' = task \/ task' = [task EXCEPT ![i] = "none"],
           task'[i] \in Live => Excused(TopicOf[r])',
           pc' = [pc EXCEPT ![r] = w], awaiting' = [awaiting EXCEPT ![r] = Nothing], UNCHANGED client,
           observers' \subseteq observers,
           \/ TopicOf[r] \notin observers' \/ w = "removing" \/ Excused(TopicOf[r])'
           \/ task[i] \notin {"ok", "suback"}
    PROVE  TasksInv'
<1> DEFINE t0 == TopicOf[r]
<1>1. \A q \in Requests : pc'[q] = IF q = r THEN w ELSE pc[q]
  BY DEF TypeOK
<1>2. /\ \A q \in Requests : q # r => awaiting'[q] = awaiting[q]
      /\ awaiting'[r][1] = None /\ awaiting'[r][2] = "none"
  BY DEF Counts, CountTypes, Nothing
<1>3. t0 \in Topics /\ topics[t0] = i /\ \A t \in Topics : topics'[t] = IF t = t0 THEN None ELSE topics[t]
  BY KeyType DEF TypeOK, InUse
<1>4. \A q \in Requests : (q # i => task'[q] = task[q]) /\ (task'[q] = task[q] \/ task'[q] = "none")
  BY DEF TypeOK
<1>5. \A q \in Requests : /\ InUse(q)' => InUse(q) /\ q # i
                          /\ InUse(q) /\ q # i => InUse(q)'
  BY <1>3, KeyType, NoneAssumption DEF InUse
<1>6. \A q \in Requests : FreshCall(q)'
  BY <1>1, <1>2, <1>4, <1>5, NoneAssumption DEF TasksInv, FreshCall
<1>7. \A q, j \in Requests : VerdictOK(q, j)'
  BY <1>2, <1>4, <1>5 DEF TasksInv, VerdictOK
<1>8. \A j \in Requests : LiveOK(j)'
  <2> TAKE j \in Requests
  <2>1. CASE j = i
    BY <2>1 DEF LiveOK
  <2>2. CASE j # i
    <3>1. LiveOK(j)
      BY DEF TasksInv
    <3> QED
      BY <1>4, <1>5, <2>2, <3>1 DEF LiveOK
  <2> QED
    BY <2>1, <2>2
<1>9. \A t \in observers' : Watched(t)'
  <2> TAKE t \in observers'
  <2>1. Watched(t) /\ t \in Topics
    BY DEF TasksInv
  <2>2. ASSUME NEW q \in Requests, pc[q] = "removing", TopicOf[q] = t PROVE Watched(t)'
    <3>1. pc'[q] = "removing"
      BY <1>1, <2>2
    <3> QED
      BY <2>2, <3>1 DEF Watched
  <2>3. CASE t = t0
    <3>1. CASE w = "removing"
      <4>1. pc'[r] = "removing"
        BY <1>1, <3>1
      <4> QED
        BY <2>3, <4>1 DEF Watched
    <3>2. CASE Excused(t0)'
      BY <2>3, <3>2 DEF Watched
    <3>3. CASE task[i] \notin {"ok", "suback"}
      BY <1>3, <2>1, <2>2, <2>3, <3>3 DEF Watched
    <3> QED
      BY <2>3, <3>1, <3>2, <3>3
  <2>4. CASE t # t0
    <3>1. topics'[t] = topics[t]
      BY <1>3, <2>1, <2>4
    <3>2. topics[t] \in Requests => topics[t] # i
      BY <2>1, <2>4, NoneAssumption DEF Counts, CountedAt
    <3>3. topics[t] \in Requests => task'[topics[t]] = task[topics[t]]
      BY <1>4, <3>2
    <3> QED
      BY <2>1, <2>2, <3>1, <3>3 DEF Watched
  <2> QED
    BY <2>3, <2>4
<1> QED
  BY <1>6, <1>7, <1>8, <1>9 DEF TasksInv

\* A call registers with its topic's interest, or makes one whose task is created.
LEMMA RegisterTasks ==
    ASSUME TypeOK, Counts, TasksInv, \A t : Excused(t) => Excused(t)', NEW r \in Requests, Register(r)
    PROVE  TasksInv'
<1> DEFINE t0 == TopicOf[r]
<1>0. t0 \in Topics
  BY KeyType
<1>1. PICK i \in Requests : i = IF topics[t0] = None THEN r ELSE topics[t0]
  BY <1>0 DEF TypeOK
<1>2. /\ pc[r] = "calling" /\ topics' = [topics EXCEPT ![t0] = i]
      /\ task' = [task EXCEPT ![i] = IF @ = "none" THEN "created" ELSE @]
      /\ \E w \in {"ready", "reply"} : pc' = [pc EXCEPT ![r] = w]
      /\ \/ awaiting' = [awaiting EXCEPT ![r] = Nothing]
         \/ awaiting' = [awaiting EXCEPT ![r] = <<i, "none">>]
      /\ UNCHANGED <<client, observers>>
  BY <1>1 DEF Register, link, index
<1>3. \A q \in Requests : /\ q # r => pc'[q] = pc[q]
                          /\ pc'[r] # "calling"
  BY <1>2 DEF TypeOK
<1>4. /\ \A q \in Requests : q # r => awaiting'[q] = awaiting[q]
      /\ awaiting'[r][1] \in {None, i} /\ awaiting'[r][2] = "none"
  BY <1>2 DEF Counts, CountTypes, Nothing
<1>5. \A t \in Topics : topics'[t] = IF t = t0 THEN i ELSE topics[t]
  BY <1>2 DEF TypeOK
<1>6. \A q \in Requests : /\ q # i => task'[q] = task[q]
                          /\ task'[i] = IF task[i] = "none" THEN "created" ELSE task[i]
  BY <1>2 DEF TypeOK
<1>7. TopicOf[i] = t0 /\ (i = r \/ InUse(i))
  BY <1>0, <1>1 DEF Counts, CountedAt, InUse
<1>8. \A q \in Requests : /\ InUse(q)' <=> (q = i \/ InUse(q))
  <2> TAKE q \in Requests
  <2>1. TopicOf[q] \in Topics
    BY KeyType
  <2>2. InUse(q) /\ q # i => TopicOf[q] # t0
    BY <1>1, NoneAssumption DEF InUse
  <2> QED
    BY <1>5, <1>7, <2>1, <2>2 DEF InUse
<1>9. \A q \in Requests : FreshCall(q)'
  <2> TAKE q \in Requests
  <2>1. CASE q = r
    BY <1>3, <2>1 DEF FreshCall
  <2>2. CASE q # r
    <3>1. FreshCall(q)
      BY DEF TasksInv
    <3>2. pc[q] = "calling" => q # i
      BY <1>7, <2>2, <3>1 DEF FreshCall
    <3> QED
      BY <1>3, <1>4, <1>6, <1>8, <2>2, <3>1, <3>2, NoneAssumption DEF FreshCall
  <2> QED
    BY <2>1, <2>2
<1>10. \A q, j \in Requests : VerdictOK(q, j)'
  <2> TAKE q, j \in Requests
  <2> SUFFICES ASSUME awaiting'[q][2] # "none", awaiting'[q][1] = j, InUse(j)'
               PROVE  task'[j] = awaiting'[q][2]
    BY DEF VerdictOK
  <2>1. q # r /\ awaiting'[q] = awaiting[q]
    BY <1>4
  <2>2. j # r
    BY <1>2, <2>1 DEF TasksInv, FreshCall
  <2>3. InUse(j)
    BY <1>7, <1>8, <2>2
  <2>4. task[j] = awaiting[q][2]
    BY <2>1, <2>3 DEF TasksInv, VerdictOK
  <2> QED
    BY <1>6, <2>1, <2>4
<1>11. \A j \in Requests : LiveOK(j)'
  <2> TAKE j \in Requests
  <2>1. LiveOK(j)
    BY DEF TasksInv
  <2>2. CASE j = i
    BY <1>8, <2>2 DEF LiveOK
  <2>3. CASE j # i
    BY <1>6, <1>8, <2>1, <2>3 DEF LiveOK
  <2> QED
    BY <2>2, <2>3
<1>12. \A t \in observers' : Watched(t)'
  <2> TAKE t \in observers'
  <2>1. Watched(t) /\ t \in Topics
    BY <1>2 DEF TasksInv
  <2>2. ASSUME NEW q \in Requests, pc[q] = "removing", TopicOf[q] = t PROVE Watched(t)'
    <3>1. pc'[q] = "removing"
      BY <1>2, <1>3, <2>2
    <3> QED
      BY <2>2, <3>1 DEF Watched
  <2>3. ASSUME topics[t] \in Requests, task[topics[t]] \in {"ok", "suback"} PROVE Watched(t)'
    <3>1. topics'[t] = topics[t]
      BY <1>1, <1>5, <2>1, <2>3, NoneAssumption
    <3>2. task'[topics[t]] = task[topics[t]]
      BY <1>6, <2>3
    <3> QED
      BY <2>3, <3>1, <3>2 DEF Watched
  <2> QED
    BY <2>1, <2>2, <2>3 DEF Watched
<1> QED
  BY <1>2, <1>9, <1>10, <1>11, <1>12 DEF TasksInv

\* Ready tasks end with a verdict, which reaches the calls that await them.
LEMMA TasksEndEffect ==
    ASSUME TypeOK, Counts, TasksInv, NEW I \in SUBSET Requests, \A i \in I : task[i] \in Live,
           NEW verdict \in Finished, TasksEnd(I, verdict), UNCHANGED topics,
           \A q \in Requests : pc'[q] = "calling" => pc[q] = "calling",
           \A t : Excused(t) => Excused(t)'
    PROVE  /\ \A q \in Requests : FreshCall(q)'
           /\ \A q, i \in Requests : VerdictOK(q, i)'
           /\ \A i \in Requests : LiveOK(i)'
           /\ \A i \in I : task'[i] = IF InUse(i) THEN verdict ELSE "none"
           /\ \A i \in Requests : i \notin I => task'[i] = task[i]
<1>1. \A i \in Requests : task'[i] = IF i \notin I THEN task[i] ELSE IF InUse(i) THEN verdict ELSE "none"
  BY KnownInUse DEF TasksEnd
<1>2. \A q \in Requests :
         /\ awaiting'[q][1] = awaiting[q][1]
         /\ awaiting'[q][2] = IF awaiting[q][1] \in I /\ awaiting[q][2] = "none" THEN verdict ELSE awaiting[q][2]
  BY InformedEffect DEF TasksEnd, Counts
<1>3. \A q \in Requests : InUse(q)' <=> InUse(q)
  BY DEF InUse
<1>4. verdict \notin Live /\ "none" \notin Live /\ verdict # "none"
  BY DEF Finished, Live
<1>5. \A q \in Requests : FreshCall(q)'
  <2> TAKE q \in Requests
  <2>1. FreshCall(q)
    BY DEF TasksInv
  <2> QED
    BY <1>1, <1>2, <1>3, <1>4, <2>1 DEF FreshCall
<1>6. \A q, i \in Requests : VerdictOK(q, i)'
  <2> TAKE q, i \in Requests
  <2> SUFFICES ASSUME awaiting'[q][2] # "none", awaiting'[q][1] = i, InUse(i)
               PROVE  task'[i] = awaiting'[q][2]
    BY <1>3 DEF VerdictOK
  <2>1. VerdictOK(q, i)
    BY DEF TasksInv
  <2>2. CASE awaiting[q][2] = "none"
    BY <1>1, <1>2, <2>2
  <2>3. CASE awaiting[q][2] # "none"
    <3>1. task[i] = awaiting[q][2] /\ awaiting'[q][2] = awaiting[q][2]
      BY <1>2, <2>1, <2>3 DEF VerdictOK
    <3>2. awaiting[q][2] \in Finished
      BY <2>3 DEF Counts, CountTypes
    <3>3. task[i] \notin Live
      BY <3>1, <3>2 DEF Live, Finished
    <3> QED
      BY <1>1, <3>1, <3>3
  <2> QED
    BY <2>2, <2>3
<1>7. \A i \in Requests : LiveOK(i)'
  <2> TAKE i \in Requests
  <2>1. LiveOK(i)
    BY DEF TasksInv
  <2> QED
    BY <1>1, <1>3, <1>4, <2>1 DEF LiveOK
<1> QED
  BY <1>1, <1>5, <1>6, <1>7

\* A ready task goes on, and may make the observer.
LEMMA TaskMoves ==
    ASSUME TypeOK, Counts, TasksInv, \A t : Excused(t) => Excused(t)',
           NEW i \in Requests, NEW s \in Live, InUse(i) \/ task[i] \in Live, task[i] \notin Finished \cup {"suback"},
           task' = [task EXCEPT ![i] = s], UNCHANGED <<topics, pc, awaiting, client>>,
           \/ observers' = observers
           \/ observers' = observers \cup {TopicOf[i]} /\ s = "suback" /\ Alive
    PROVE  TasksInv'
<1>1. \A q \in Requests : task'[q] = IF q = i THEN s ELSE task[q]
  BY DEF TypeOK
<1>2. \A q \in Requests : InUse(q)' <=> InUse(q)
  BY DEF InUse
<1>3. pc[i] # "calling"
  BY DEF TasksInv, FreshCall, Live
<1>4. \A q \in Requests : FreshCall(q)'
  BY <1>1, <1>2, <1>3 DEF TasksInv, FreshCall
<1>5. \A q, j \in Requests : VerdictOK(q, j)'
  <2> TAKE q, j \in Requests
  <2>1. VerdictOK(q, j) /\ (awaiting[q][2] # "none" => awaiting[q][2] \in Finished)
    BY DEF TasksInv, Counts, CountTypes
  <2> QED
    BY <1>1, <1>2, <2>1 DEF VerdictOK
<1>6. \A j \in Requests : LiveOK(j)'
  BY <1>1, <1>2 DEF TasksInv, LiveOK
<1>7. \A t \in observers' : Watched(t)'
  <2> TAKE t \in observers'
  <2>1. CASE t \in observers
    <3>1. Watched(t)
      BY <2>1 DEF TasksInv
    <3>2. topics[t] \in Requests /\ task[topics[t]] \in {"ok", "suback"} => task'[topics[t]] = task[topics[t]]
      BY <1>1 DEF Finished
    <3> QED
      BY <3>1, <3>2 DEF Watched
  <2>2. CASE t = TopicOf[i] /\ s = "suback"
    <3>1. InUse(i) \/ Excused(t)
      BY <2>2 DEF TasksInv, LiveOK
    <3>2. InUse(i) => topics'[t] = i /\ task'[i] = "suback"
      BY <1>1, <2>2 DEF InUse
    <3> QED
      BY <3>1, <3>2 DEF Watched
  <2> QED
    BY <2>1, <2>2
<1>8. observers' \subseteq Topics /\ (client' \in {"lost", "failed", "stopped"} => observers' = {})
  BY KeyType DEF TasksInv, Alive
<1> QED
  BY <1>4, <1>5, <1>6, <1>7, <1>8 DEF TasksInv

\* A ready task ends: the observer stays only if it was made, or nobody has to remove it.
LEMMA TaskEndsTasks ==
    ASSUME TypeOK, Counts, TasksInv, \A t : Excused(t) => Excused(t)',
           NEW i \in Requests, task[i] \in Live, NEW verdict \in Finished, TaskEnds(i, verdict),
           UNCHANGED <<topics, pc, client>>,
           observers' \subseteq observers \cup {TopicOf[i]},
           TopicOf[i] \in observers' => verdict = "ok" \/ Excused(TopicOf[i]),
           client \in {"lost", "failed", "stopped"} => observers' = {}
    PROVE  TasksInv'
<1>1. /\ \A q \in Requests : FreshCall(q)'
      /\ \A q, j \in Requests : VerdictOK(q, j)'
      /\ \A j \in Requests : LiveOK(j)'
      /\ \A j \in {i} : task'[j] = IF InUse(j) THEN verdict ELSE "none"
      /\ \A j \in Requests : j \notin {i} => task'[j] = task[j]
  <2>1. TasksEnd({i}, verdict) /\ {i} \in SUBSET Requests /\ \A j \in {i} : task[j] \in Live
    BY DEF TaskEnds
  <2> QED
    BY <2>1, TasksEndEffect
<1>2. \A t \in observers' : Watched(t)'
  <2> TAKE t \in observers'
  <2>1. CASE t = TopicOf[i]
    <3>1. InUse(i) \/ Excused(t)
      BY <2>1 DEF TasksInv, LiveOK
    <3>2. InUse(i) => topics'[t] = i /\ task'[i] = verdict
      BY <1>1, <2>1 DEF InUse
    <3> QED
      BY <2>1, <3>1, <3>2 DEF Watched
  <2>2. CASE t # TopicOf[i]
    <3>1. Watched(t) /\ t \in Topics
      BY <2>2 DEF TasksInv
    <3>2. topics[t] \in Requests => topics[t] # i
      BY <2>2, <3>1, NoneAssumption DEF Counts, CountedAt
    <3>3. topics[t] \in Requests => task'[topics[t]] = task[topics[t]]
      BY <1>1, <3>2
    <3> QED
      BY <3>1, <3>3 DEF Watched
  <2> QED
    BY <2>1, <2>2
<1>3. observers' \subseteq Topics
  BY KeyType DEF TasksInv
<1> QED
  BY <1>1, <1>2, <1>3 DEF TasksInv

\* add_response_observer() at the head of the guard's queue.
LEMMA AddBodyTasks ==
    ASSUME TypeOK, Counts, TasksInv, \A t : Excused(t) => Excused(t)',
           NEW i \in Requests, task[i] \in {"created", "queued"}, NEW q, AddBody(i, q)
    PROVE  TasksInv'
<1>1. UNCHANGED <<topics, pc, client>> /\ task[i] \in Live
  BY DEF AddBody, dispatcher, link, Live
<1>2. CASE Alive /\ TopicOf[i] \notin observers /\ TopicOf[i] \notin appsub
  <2>1. /\ observers' = observers \cup {TopicOf[i]} /\ task' = [task EXCEPT ![i] = "suback"]
        /\ UNCHANGED awaiting
    BY <1>2 DEF AddBody
  <2>2. "suback" \in Live /\ task[i] \notin Finished \cup {"suback"}
    BY DEF Live, Finished
  <2> QED
    BY <1>1, <1>2, <2>1, <2>2, TaskMoves
<1>3. CASE Alive /\ ~(TopicOf[i] \notin observers /\ TopicOf[i] \notin appsub)
  <2>1. observers' = observers \cup {TopicOf[i]} /\ TaskEnds(i, "ok")
    BY <1>3 DEF AddBody
  <2>2. client \notin {"lost", "failed", "stopped"} /\ "ok" \in Finished
    BY <1>3 DEF Alive, Finished
  <2> QED
    BY <1>1, <2>1, <2>2, TaskEndsTasks
<1>4. CASE ~Alive
  <2>1. observers' = observers /\ TaskEnds(i, "disconnected")
    BY <1>4 DEF AddBody
  <2>2. client \in {"lost", "failed", "stopped"} \/ ~Bound
    BY <1>4 DEF Alive, TypeOK, Bound
  <2>3. TopicOf[i] \in observers => Excused(TopicOf[i])
    BY <2>2 DEF TasksInv, Excused
  <2>4. client \in {"lost", "failed", "stopped"} => observers = {}
    BY DEF TasksInv
  <2>5. "disconnected" \in Finished
    BY DEF Finished
  <2> QED
    BY <1>1, <2>1, <2>3, <2>4, <2>5, TaskEndsTasks
<1> QED
  BY <1>2, <1>3, <1>4

\* The ready tasks.
LEMMA TaskStepTasks ==
    ASSUME TypeOK, Counts, TasksInv, \A t : Excused(t) => Excused(t)', NEW i \in Requests, TaskStep(i)
    PROVE  TasksInv'
<1>1. CASE AddStart(i)
  <2>1. task[i] = "created"
    BY <1>1 DEF AddStart
  <2>2. \/ \E q : AddBody(i, q)
        \/ task' = [task EXCEPT ![i] = "queued"] /\ UNCHANGED <<topics, pc, awaiting, client, observers>>
    BY <1>1 DEF AddStart, dispatcher, link, index
  <2>3. "queued" \in Live /\ task[i] \in Live /\ task[i] \notin Finished \cup {"suback"}
    BY <2>1 DEF Live, Finished
  <2>4. CASE task' = [task EXCEPT ![i] = "queued"] /\ UNCHANGED <<topics, pc, awaiting, client, observers>>
    BY <2>3, <2>4, TaskMoves
  <2> QED
    BY <2>1, <2>2, <2>4, AddBodyTasks
<1>2. CASE AddTurn(i)
  BY <1>2, AddBodyTasks DEF AddTurn
<1>3. CASE AddAck(i)
  <2>1. task[i] = "suback" /\ Alive /\ UNCHANGED <<topics, pc, client>>
    BY <1>3 DEF AddAck, dispatcher, link
  <2>2. \/ TaskEnds(i, "ok") /\ observers' = observers
        \/ TaskEnds(i, "rejected") /\ observers' = observers \ {TopicOf[i]}
    BY <1>3 DEF AddAck
  <2>3. {"ok", "rejected"} \subseteq Finished /\ task[i] \in Live /\ client \notin {"lost", "failed", "stopped"}
    BY <2>1 DEF Finished, Live, Alive
  <2>4. CASE TaskEnds(i, "ok") /\ observers' = observers
    BY <2>1, <2>3, <2>4, TaskEndsTasks
  <2>5. CASE TaskEnds(i, "rejected") /\ observers' = observers \ {TopicOf[i]}
    BY <2>1, <2>3, <2>5, TaskEndsTasks
  <2> QED
    BY <2>2, <2>4, <2>5
<1> QED
  BY <1>1, <1>2, <1>3 DEF TaskStep

\* A step that touches none of this.
LEMMA QuietTasks ==
    ASSUME TasksInv, \A t : Excused(t) => Excused(t)', UNCHANGED <<topics, task, pc, awaiting, client, observers>>
    PROVE  TasksInv'
BY DEF TasksInv, FreshCall, VerdictOK, LiveOK, Watched, InUse

\* bind() forgets the tasks of the last connection; restore() makes new ones.
LEMMA OtherTasks ==
    ASSUME TypeOK, Counts, TasksInv, \A t : Excused(t) => Excused(t)', OtherStep
    PROVE  TasksInv'
<1>0. UNCHANGED <<topics, refcount, pc>>
  BY OtherKeeps
<1>1. ASSUME NEW i \in Requests, TaskStep(i) PROVE TasksInv'
  BY <1>1, TaskStepTasks
<1>2. ASSUME NEW r, NEW g, NEW kind, NEW t,
             Claim(r) \/ Complete(r, g) \/ AppCall(kind, t) \/ AppTurn \/ AppAck \/ RestoreStart
      PROVE  TasksInv'
  <2>1. UNCHANGED <<task, awaiting, client, observers>>
    BY <1>2 DEF Claim, Complete, AppCall, AppTurn, AppAck, RestoreStart, interests, link, index
  <2> QED
    BY <1>0, <2>1, QuietTasks
<1>3. CASE Bind
  <2>1. /\ client = "lost" /\ client' = "up" /\ UNCHANGED <<awaiting, observers>>
        /\ \A r \in Requests : task[r] # "created" /\ awaiting[r][2] = "none"
        /\ \A i \in Requests : task'[i] = task[i] \/ task'[i] = "none"
    BY <1>3 DEF Bind, index
  <2>2. observers' = {}
    BY <2>1 DEF TasksInv
  <2>3. \A q \in Requests : InUse(q)' <=> InUse(q)
    BY <1>0 DEF InUse
  <2>4. \A q \in Requests : FreshCall(q)'
    BY <1>0, <2>1, <2>3 DEF TasksInv, FreshCall
  <2>5. \A i \in Requests : LiveOK(i)'
    BY <2>1, <2>3 DEF TasksInv, LiveOK, Live
  <2> QED
    BY <2>1, <2>2, <2>4, <2>5 DEF TasksInv, VerdictOK
<1>4. CASE RestoreNext
  <2>1. UNCHANGED <<awaiting, client, observers>>
    BY <1>4 DEF RestoreNext, link, index
  <2>2. CASE UNCHANGED task
    BY <1>0, <2>1, <2>2, QuietTasks
  <2>3. ASSUME NEW i \in Requests, refcount[i] > 0, task[i] = "none", task' = [task EXCEPT ![i] = "created"]
        PROVE  TasksInv'
    <3>1. InUse(i)
      BY <2>3 DEF Counts, CallOK
    <3>2. "created" \in Live /\ task[i] \notin Finished \cup {"suback"}
      BY <2>3 DEF Live, Finished
    <3> QED
      BY <1>0, <2>1, <2>3, <3>1, <3>2, TaskMoves
  <2>4. \/ UNCHANGED task
        \/ \E i \in Requests : refcount[i] > 0 /\ task[i] = "none" /\ task' = [task EXCEPT ![i] = "created"]
    <3>1. \/ UNCHANGED task
          \/ \E i : refcount[i] > 0 /\ task[i] = "none" /\ task' = [task EXCEPT ![i] = "created"]
      BY <1>4 DEF RestoreNext
    <3>2. ASSUME NEW i, i \notin Requests PROVE [task EXCEPT ![i] = "created"] = task
      BY <3>2 DEF TypeOK
    <3> QED
      BY <3>1, <3>2
  <2> QED
    BY <2>2, <2>3, <2>4
<1> QED
  BY <1>1, <1>2, <1>3, <1>4 DEF OtherStep

\* The end of unregister(), when what it knows of the task is how the task stands.
LEMMA DropInterestTasks ==
    ASSUME TypeOK, Counts, TasksInv, \A t : Excused(t) => Excused(t)',
           NEW r \in Requests, NEW i \in Requests, NEW status, pc[r] # "removing",
           TopicOf[i] = TopicOf[r], InUse(i), task[i] = status, status \in Finished \cup {"none"},
           DropInterest(r, i, status), UNCHANGED client
    PROVE  TasksInv'
<1>1. /\ topics' = [topics EXCEPT ![TopicOf[r]] = None] /\ awaiting' = [awaiting EXCEPT ![r] = Nothing]
      /\ \E w \in {"done", "removing", "unsuback"} : pc' = [pc EXCEPT ![r] = w]
  BY DropEffect
<1>2. task' = [task EXCEPT ![i] = "none"]
  BY DEF DropInterest, TypeOK
<1>3. task'[i] \notin Live
  BY <1>2 DEF TypeOK, Live
<1>4. PICK w \in {"done", "removing", "unsuback"} :
        /\ pc' = [pc EXCEPT ![r] = w]
        /\ \/ ~Removes(status) /\ observers' = observers
           \/ observers' = observers \ {TopicOf[r]}
           \/ observers' = observers /\ w = "removing"
  BY DEF DropInterest, RemoveBody, Ends, Waits
<1>5. CASE ~Removes(status) /\ observers' = observers
  <2>1. status # "ok" \/ ~Bound
    BY <1>5 DEF Removes
  <2>2. task[i] \notin {"ok", "suback"} \/ Excused(TopicOf[r])'
    BY <2>1 DEF Finished, Excused
  <2> QED
    BY <1>1, <1>2, <1>3, <1>4, <1>5, <2>2, DropTasks
<1>6. CASE observers' = observers \ {TopicOf[r]} \/ (observers' = observers /\ w = "removing")
  BY <1>1, <1>2, <1>3, <1>4, <1>6, DropTasks
<1> QED
  BY <1>4, <1>5, <1>6

\* A call leaves.
LEMMA LeaveTasks ==
    ASSUME TypeOK, Counts, TasksInv, \A t : Excused(t) => Excused(t)',
           NEW r \in Requests, pc[r] \in {"ready", "reply"}, Leave(r)
    PROVE  TasksInv'
<1> DEFINE i == topics[TopicOf[r]]
<1>0. UNCHANGED client
  BY DEF Leave, link
<1>1. CASE ~Registered(r)
  <2>1. /\ pc' = [pc EXCEPT ![r] = "done"] /\ awaiting' = [awaiting EXCEPT ![r] = Nothing]
        /\ UNCHANGED <<topics, task, observers>>
    BY <1>1 DEF Leave, Ends, Waits, dispatcher, interests
  <2> QED
    BY <1>0, <2>1, MoveTasks
<1>2. CASE Registered(r)
  <2>1. i \in Requests /\ TopicOf[i] = TopicOf[r] /\ InUse(i)
    <3>1. TopicOf[r] \in Topics /\ CountedAt(TopicOf[r]) /\ r \in Users(TopicOf[r])
      BY <1>2, KeyType DEF Counts, Users
    <3> QED
      BY <3>1 DEF CountedAt, TypeOK, InUse
  <2>2. \/ Ends(r) /\ UNCHANGED <<topics, task, observers>>
        \/ DropInterest(r, i, task[i]) /\ task[i] \in Finished \cup {"none"}
        \/ Waits(r, "cleanup", <<i, "none">>) /\ UNCHANGED <<topics, task, observers>>
    BY <1>2 DEF Leave
  <2>3. CASE Ends(r) /\ UNCHANGED <<topics, task, observers>>
    BY <1>0, <2>3, MoveTasks DEF Ends, Waits
  <2>4. CASE DropInterest(r, i, task[i]) /\ task[i] \in Finished \cup {"none"}
    <3> HIDE DEF i
    <3> QED
      BY <1>0, <2>1, <2>4, DropInterestTasks
  <2>5. CASE Waits(r, "cleanup", <<i, "none">>) /\ UNCHANGED <<topics, task, observers>>
    <3>1. \A q \in Requests : pc'[q] = IF q = r THEN "cleanup" ELSE pc[q]
      BY <2>5 DEF Waits, TypeOK
    <3>2. /\ \A q \in Requests : q # r => awaiting'[q] = awaiting[q]
          /\ awaiting'[r][1] = i /\ awaiting'[r][2] = "none"
      BY <2>5 DEF Waits, Counts, CountTypes
    <3>3. pc[i] # "calling"
      BY <2>1 DEF TasksInv, FreshCall
    <3> HIDE DEF i
    <3>4. \A q \in Requests : InUse(q)' <=> InUse(q)
      BY <2>5 DEF InUse
    <3>5. \A q \in Requests : FreshCall(q)'
      BY <2>5, <3>1, <3>2, <3>3, <3>4 DEF TasksInv, FreshCall
    <3>6. \A q, j \in Requests : VerdictOK(q, j)'
      BY <2>5, <3>2, <3>4 DEF TasksInv, VerdictOK
    <3>7. \A j \in Requests : LiveOK(j)'
      BY <2>5, <3>4 DEF TasksInv, LiveOK
    <3>8. \A t \in observers' : Watched(t)'
      <4>1. \A q \in Requests : pc[q] = "removing" => pc'[q] = "removing"
        BY <3>1
      <4> QED
        BY <2>5, <4>1 DEF TasksInv, Watched
    <3> QED
      BY <1>0, <2>5, <3>5, <3>6, <3>7, <3>8 DEF TasksInv
  <2> QED
    BY <2>2, <2>3, <2>4, <2>5
<1> QED
  BY <1>1, <1>2

\* A call in unregister() goes on.
LEMMA HolderTasks ==
    ASSUME TypeOK, Counts, TasksInv, \A t : Excused(t) => Excused(t)', NEW r \in Requests, HolderStep(r)
    PROVE  TasksInv'
<1>0. UNCHANGED client
  BY DEF HolderStep, CleanupDone, RemoveTurn, RemoveAck, CancelCleanup, CancelRemove, CancelUnsuback, link
<1>1. pc[r] = "cleanup" => awaiting[r][1] \in Requests /\ TopicOf[awaiting[r][1]] = TopicOf[r]
  BY DEF Counts, CallOK
<1>2. CASE CleanupDone(r)
  <2>1. pc[r] = "cleanup" /\ awaiting[r][2] \in Finished
    BY <1>2 DEF CleanupDone
  <2>2. PICK i \in Requests : i = awaiting[r][1]
    BY <1>1, <2>1
  <2>3. CASE Unused(i) /\ DropInterest(r, i, awaiting[r][2])
    <3>1. InUse(i) /\ TopicOf[i] = TopicOf[r]
      BY <1>1, <2>1, <2>2, <2>3 DEF Unused, InUse
    <3>2. VerdictOK(r, i) /\ awaiting[r][2] # "none"
      BY <2>1 DEF TasksInv, Finished
    <3>3. task[i] = awaiting[r][2]
      BY <2>2, <3>1, <3>2 DEF VerdictOK
    <3> QED
      BY <1>0, <2>1, <2>3, <3>1, <3>3, DropInterestTasks
  <2>4. CASE Ends(r) /\ UNCHANGED <<topics, task, observers>>
    BY <1>0, <2>1, <2>4, MoveTasks DEF Ends, Waits
  <2> QED
    BY <1>2, <2>2, <2>3, <2>4 DEF CleanupDone
<1>3. CASE CancelCleanup(r)
  <2>1. /\ pc[r] = "cleanup" /\ pc' = [pc EXCEPT ![r] = "done"] /\ awaiting' = [awaiting EXCEPT ![r] = Nothing]
        /\ UNCHANGED observers /\ Excused(TopicOf[r])'
    BY <1>3 DEF CancelCleanup, Ends, Waits, index, Excused
  <2>2. PICK i \in Requests : i = awaiting[r][1]
    BY <1>1, <2>1
  <2>3. CASE Unused(i)
    <3>1. InUse(i) /\ TopicOf[i] = TopicOf[r]
      BY <1>1, <2>1, <2>2, <2>3 DEF Unused, InUse
    <3>2. /\ topics' = [topics EXCEPT ![TopicOf[r]] = None]
          /\ task' = task \/ task' = [task EXCEPT ![i] = "none"]
      BY <1>3, <2>2, <2>3 DEF CancelCleanup
    <3> QED
      BY <1>0, <2>1, <3>1, <3>2, DropTasks
  <2>4. CASE ~Unused(i)
    <3>1. UNCHANGED <<topics, task>>
      BY <1>3, <2>2, <2>4 DEF CancelCleanup
    <3> QED
      BY <1>0, <2>1, <3>1, MoveTasks
  <2> QED
    BY <2>3, <2>4
<1>4. CASE RemoveTurn(r)
  <2>1. /\ observers' = observers \ {TopicOf[r]} /\ UNCHANGED <<topics, task>>
        /\ awaiting' = [awaiting EXCEPT ![r] = Nothing]
        /\ \E w \in {"done", "unsuback"} : pc' = [pc EXCEPT ![r] = w]
    BY <1>4 DEF RemoveTurn, RemoveBody, Ends, Waits, interests
  <2> QED
    BY <1>0, <2>1, MoveTasks
<1>5. CASE RemoveAck(r) \/ CancelUnsuback(r)
  <2>1. /\ pc[r] = "unsuback" /\ UNCHANGED <<topics, task, observers>>
        /\ pc' = [pc EXCEPT ![r] = "done"] /\ awaiting' = [awaiting EXCEPT ![r] = Nothing]
    BY <1>5 DEF RemoveAck, CancelUnsuback, Ends, Waits, interests, index
  <2> QED
    BY <1>0, <2>1, MoveTasks
<1>6. CASE CancelRemove(r)
  <2>1. /\ UNCHANGED <<topics, task, observers>> /\ Excused(TopicOf[r])'
        /\ pc' = [pc EXCEPT ![r] = "done"] /\ awaiting' = [awaiting EXCEPT ![r] = Nothing]
    BY <1>6 DEF CancelRemove, Ends, Waits, interests, index, Excused
  <2> QED
    BY <1>0, <2>1, MoveTasks
<1> QED
  BY <1>2, <1>3, <1>4, <1>5, <1>6 DEF HolderStep

\* Every step keeps the tasks and the observers in order.
LEMMA TasksStep ==
    ASSUME TypeOK, Counts, TasksInv, [Next]_vars
    PROVE  TasksInv'
<1>0. \A t : Excused(t) => Excused(t)'
  BY ExcusedStays
<1>1. ASSUME NEW r \in Requests, IdleStep(r) PROVE TasksInv'
  <2>1. CASE Refuse(r) \/ ReadyDone(r) \/ CancelEarly(r)
    <3>1. /\ pc[r] \in {"calling", "ready"} /\ awaiting' = [awaiting EXCEPT ![r] = Nothing]
          /\ \E w \in {"done", "reply"} : pc' = [pc EXCEPT ![r] = w]
          /\ UNCHANGED <<topics, task, client, observers>>
      BY <2>1 DEF Refuse, ReadyDone, CancelEarly, Ends, Waits, dispatcher, interests, link, index
    <3> QED
      BY <1>0, <3>1, MoveTasks
  <2>2. CASE RegisterFails(r)
    <3>1. TopicOf[r] \in Topics /\ topics[TopicOf[r]] # None
      BY <2>2, KeyType DEF RegisterFails
    <3>2. PICK i \in Requests : i = topics[TopicOf[r]]
      BY <3>1 DEF TypeOK
    <3>3. /\ pc[r] = "calling" /\ pc' = [pc EXCEPT ![r] = "done"] /\ awaiting' = [awaiting EXCEPT ![r] = Nothing]
          /\ UNCHANGED <<client, observers>> /\ task[i] \in Finished \ {"ok"}
          /\ topics' = IF refcount[i] = 0 THEN [topics EXCEPT ![TopicOf[r]] = None] ELSE topics
          /\ task' = IF refcount[i] = 0 THEN [task EXCEPT ![i] = "none"] ELSE task
      BY <2>2, <3>2 DEF RegisterFails, Ends, Waits, link, index
    <3>4. CASE refcount[i] = 0
      <4>1. InUse(i) /\ TopicOf[i] = TopicOf[r]
        BY <3>1, <3>2 DEF Counts, CountedAt, InUse
      <4>2. task'[i] \notin Live /\ task[i] \notin {"ok", "suback"}
        BY <3>3, <3>4 DEF Live, Finished, TypeOK
      <4> QED
        BY <1>0, <3>3, <3>4, <4>1, <4>2, DropTasks
    <3>5. CASE refcount[i] # 0
      BY <1>0, <3>3, <3>5, MoveTasks
    <3> QED
      BY <3>4, <3>5
  <2> QED
    BY <1>1, <2>1, <2>2 DEF IdleStep
<1>2. ASSUME NEW r \in Requests, Register(r) PROVE TasksInv'
  BY <1>0, <1>2, RegisterTasks
<1>3. ASSUME NEW r \in Requests, HolderStep(r) PROVE TasksInv'
  BY <1>0, <1>3, HolderTasks
<1>4. ASSUME NEW r \in Requests, pc[r] \in {"ready", "reply"}, Leave(r) PROVE TasksInv'
  BY <1>0, <1>4, LeaveTasks
<1>5. CASE OtherStep
  BY <1>0, <1>5, OtherTasks
<1>6. ASSUME NEW next, Teardown(next) PROVE TasksInv'
  <2> DEFINE live == {i \in Requests : task[i] \in Live}
  <2>1. /\ TasksEnd(live, "disconnected") /\ UNCHANGED topics /\ observers' = {}
        /\ \A q \in Requests : pc'[q] = "calling" => pc[q] = "calling"
    BY <1>6 DEF Teardown, Live
  <2>2. live \in SUBSET Requests /\ (\A i \in live : task[i] \in Live) /\ "disconnected" \in Finished
    BY DEF Finished
  <2> HIDE DEF live
  <2>3. /\ \A q \in Requests : FreshCall(q)'
        /\ \A q, i \in Requests : VerdictOK(q, i)'
        /\ \A i \in Requests : LiveOK(i)'
    BY <1>0, <2>1, <2>2, TasksEndEffect
  <2> QED
    BY <2>1, <2>3 DEF TasksInv
<1>7. CASE Stop
  <2>1. /\ client' = "stopping" /\ UNCHANGED pc /\ observers' \subseteq observers
        /\ topics' = [t \in Topics |-> None] /\ \E I : Informed(I, "cancelled")
        /\ \A i \in Requests : task'[i] = task[i] \/ task'[i] = "none"
    BY <1>7 DEF Stop
  <2>2. \A q \in Requests : awaiting'[q][1] = awaiting[q][1]
    BY <2>1, InformedEffect DEF Counts, Finished
  <2>3. \A q \in Requests : ~InUse(q)'
    BY <2>1, KeyType, NoneAssumption DEF InUse
  <2>4. \A t : Excused(t)'
    BY <2>1 DEF Excused, Bound
  <2>5. \A q \in Requests : FreshCall(q)'
    BY <2>1, <2>2, <2>3 DEF TasksInv, FreshCall
  <2> QED
    BY <2>1, <2>3, <2>4, <2>5 DEF TasksInv, VerdictOK, LiveOK, Watched
<1>8. CASE UNCHANGED vars
  <2>1. UNCHANGED <<topics, task, pc, awaiting, client, observers>>
    BY <1>8 DEF vars, dispatcher, interests, link, index
  <2> QED
    BY <1>0, <2>1, QuietTasks
<1> QED
  BY <1>1, <1>2, <1>3, <1>4, <1>5, <1>6, <1>7, <1>8, NextCases

\* The ready tasks and the observers are in order in every reachable state.
LEMMA TasksInvariant == Spec => []TasksInv
<1>1. Init => TasksInv
  <2> SUFFICES ASSUME Init PROVE TasksInv
    OBVIOUS
  <2>1. \A r \in Requests : ~InUse(r) /\ task[r] = "none" /\ awaiting[r][1] = None /\ awaiting[r][2] = "none"
    BY KeyType, NoneAssumption DEF Init, InUse, Nothing
  <2> QED
    BY <2>1, NoneAssumption DEF Init, TasksInv, FreshCall, VerdictOK, LiveOK, Live
<1>2. TypeOK /\ Counts /\ TasksInv /\ [Next]_vars => TasksInv'
  BY TasksStep
<1> QED
  BY <1>1, <1>2, DispatcherInvariant, PTL DEF Spec

(***************************************************************************)
(* The broker is not left sending responses nobody wants: an observer that *)
(* has lost its interest is being removed, unless the caller cancelled the *)
(* cleanup or disconnect() has begun.                                      *)
(***************************************************************************)
THEOREM ObserversAreWanted == Spec => []NoOrphanObserver
<1>1. TasksInv => NoOrphanObserver
  BY NoneAssumption DEF TasksInv, Watched, Excused, NoOrphanObserver
<1> QED
  BY <1>1, TasksInvariant, PTL

-----------------------------------------------------------------------------
(***************************************************************************)
(* The guards of the topics: the holder is first, the others wait in the   *)
(* order in which they came.                                               *)
(***************************************************************************)
Ops == {"add", "remove", "app"} \X (Requests \cup {None})
AppOp == <<"app", None>>

Has(s, o) == \E n \in DOMAIN s : s[n] = o
First(s, o) == s # <<>> /\ s[1] = o

\* No removal waits behind the addition of interest i.
Ordered(s, i) == \A n, m \in DOMAIN s : n < m /\ s[n] = <<"add", i>> => s[m][1] # "remove"

\* Two operations are the same only if they are of the same kind and for the same call.
LEMMA OpsDiffer ==
    /\ \A i, j : <<"add", i>> # <<"remove", j>> /\ <<"add", i>> # AppOp /\ <<"remove", i>> # AppOp
    /\ \A i, j : (<<"add", i>> = <<"add", j>> => i = j) /\ (<<"remove", i>> = <<"remove", j>> => i = j)
    /\ \A i \in Requests : <<"add", i>> \in Ops /\ <<"remove", i>> \in Ops
    /\ AppOp \in Ops
BY DEF Ops, AppOp

\* An operation joins the queue.
LEMMA QueueJoin ==
    ASSUME NEW s \in Seq(Ops), NEW x \in Ops
    PROVE  /\ Append(s, x) \in Seq(Ops) /\ Has(Append(s, x), x)
           /\ \A o : Has(s, o) => Has(Append(s, x), o)
           /\ \A o : Has(Append(s, x), o) => Has(s, o) \/ o = x
           /\ \A o : First(s, o) => First(Append(s, x), o)
           /\ \A i : Ordered(s, i) /\ x[1] # "remove" => Ordered(Append(s, x), i)
<1>1. /\ DOMAIN Append(s, x) = 1 .. Len(s) + 1 /\ DOMAIN s = 1 .. Len(s) /\ Len(s) \in Nat
      /\ \A n \in 1 .. Len(s) : Append(s, x)[n] = s[n]
      /\ Append(s, x)[Len(s) + 1] = x
  BY AppendAt
<1>2. Append(s, x) \in Seq(Ops)
  OBVIOUS
<1>3. Has(Append(s, x), x) /\ \A o : Has(s, o) => Has(Append(s, x), o)
  BY <1>1 DEF Has
<1>4. \A o : Has(Append(s, x), o) => Has(s, o) \/ o = x
  BY <1>1 DEF Has
<1>5. \A o : First(s, o) => First(Append(s, x), o)
  <2>1. s # <<>> => 1 \in 1 .. Len(s)
    OBVIOUS
  <2>2. Append(s, x) # <<>>
    OBVIOUS
  <2> QED
    BY <1>1, <2>1, <2>2 DEF First
<1>6. ASSUME NEW i, Ordered(s, i), x[1] # "remove" PROVE Ordered(Append(s, x), i)
  <2> SUFFICES ASSUME NEW n \in 1 .. Len(s) + 1, NEW m \in 1 .. Len(s) + 1, n < m, Append(s, x)[n] = <<"add", i>>
               PROVE  Append(s, x)[m][1] # "remove"
    BY <1>1 DEF Ordered
  <2>1. CASE m = Len(s) + 1
    BY <1>1, <1>6, <2>1
  <2>2. CASE m # Len(s) + 1
    <3>1. m \in 1 .. Len(s) /\ n \in 1 .. Len(s)
      BY <1>1, <2>2
    <3>2. s[m][1] # "remove"
      BY <1>1, <1>6, <3>1 DEF Ordered
    <3> QED
      BY <1>1, <3>1, <3>2
  <2> QED
    BY <2>1, <2>2
<1> QED
  BY <1>2, <1>3, <1>4, <1>5, <1>6

\* The holder lets go.
LEMMA QueueRelease ==
    ASSUME NEW s \in Seq(Ops), s # <<>>
    PROVE  /\ Tail(s) \in Seq(Ops) /\ Head(s) = s[1]
           /\ \A o : Has(s, o) /\ s[1] # o => Has(Tail(s), o)
           /\ \A o : Has(Tail(s), o) => Has(s, o)
           /\ \A i : Ordered(s, i) => Ordered(Tail(s), i)
<1>1. /\ DOMAIN s = 1 .. Len(s) /\ Len(s) \in Nat \ {0} /\ Head(s) = s[1]
      /\ DOMAIN Tail(s) = 1 .. Len(s) - 1
      /\ \A n \in 1 .. Len(s) - 1 : Tail(s)[n] = s[n + 1]
  BY TailAt
<1>2. Tail(s) \in Seq(Ops)
  OBVIOUS
<1>3. ASSUME NEW o, Has(s, o), s[1] # o PROVE Has(Tail(s), o)
  <2>1. PICK n \in 1 .. Len(s) : s[n] = o
    BY <1>1, <1>3 DEF Has
  <2>2. n - 1 \in 1 .. Len(s) - 1 /\ (n - 1) + 1 = n
    BY <1>1, <1>3, <2>1
  <2>3. Tail(s)[n - 1] = o
    BY <1>1, <2>1, <2>2
  <2> QED
    BY <1>1, <2>2, <2>3 DEF Has
<1>4. ASSUME NEW o, Has(Tail(s), o) PROVE Has(s, o)
  <2>1. PICK n \in 1 .. Len(s) - 1 : Tail(s)[n] = o
    BY <1>1, <1>4 DEF Has
  <2>2. n + 1 \in 1 .. Len(s)
    BY <1>1
  <2> QED
    BY <1>1, <2>1, <2>2 DEF Has
<1>5. ASSUME NEW i, Ordered(s, i) PROVE Ordered(Tail(s), i)
  <2> SUFFICES ASSUME NEW n \in 1 .. Len(s) - 1, NEW m \in 1 .. Len(s) - 1, n < m, Tail(s)[n] = <<"add", i>>
               PROVE  Tail(s)[m][1] # "remove"
    BY <1>1 DEF Ordered
  <2>1. n + 1 \in 1 .. Len(s) /\ m + 1 \in 1 .. Len(s) /\ n + 1 < m + 1
    BY <1>1
  <2>2. s[n + 1] = <<"add", i>> /\ Tail(s)[m] = s[m + 1]
    BY <1>1
  <2> QED
    BY <1>1, <1>5, <2>1, <2>2 DEF Ordered
<1> QED
  BY <1>1, <1>2, <1>3, <1>4, <1>5

\* One that waits gives up.
LEMMA QueueLeave ==
    ASSUME NEW s \in Seq(Ops), NEW k \in DOMAIN s
    PROVE  /\ RemoveAt(s, k) \in Seq(Ops)
           /\ \A o : Has(s, o) /\ s[k] # o => Has(RemoveAt(s, k), o)
           /\ \A o : Has(RemoveAt(s, k), o) => Has(s, o)
           /\ \A o : First(s, o) /\ s[k] # o => First(RemoveAt(s, k), o)
           /\ \A i : Ordered(s, i) => Ordered(RemoveAt(s, k), i)
<1>1. /\ DOMAIN s = 1 .. Len(s) /\ Len(s) \in Nat
      /\ RemoveAt(s, k) \in Seq(Ops) /\ Len(RemoveAt(s, k)) = Len(s) - 1
      /\ DOMAIN RemoveAt(s, k) = 1 .. Len(s) - 1
      /\ \A n \in 1 .. Len(s) - 1 : RemoveAt(s, k)[n] = IF n < k THEN s[n] ELSE s[n + 1]
  BY RemoveAtAt
<1> DEFINE q == RemoveAt(s, k)
<1> HIDE DEF q
<1>2. /\ q \in Seq(Ops) /\ Len(q) = Len(s) - 1 /\ DOMAIN q = 1 .. Len(s) - 1 /\ k \in 1 .. Len(s)
      /\ \A n \in 1 .. Len(s) - 1 : q[n] = IF n < k THEN s[n] ELSE s[n + 1]
  BY <1>1 DEF q
<1>3. ASSUME NEW o, Has(s, o), s[k] # o PROVE Has(q, o)
  <2>1. PICK n \in 1 .. Len(s) : s[n] = o
    BY <1>1, <1>3 DEF Has
  <2>2. CASE n < k
    <3>1. n \in 1 .. Len(s) - 1
      BY <1>1, <1>2, <2>2
    <3> QED
      BY <1>2, <2>1, <2>2, <3>1 DEF Has
  <2>3. CASE n > k
    <3>1. n - 1 \in 1 .. Len(s) - 1 /\ ~(n - 1 < k) /\ (n - 1) + 1 = n
      BY <1>1, <1>2, <2>3
    <3>2. q[n - 1] = o
      BY <1>2, <2>1, <3>1
    <3> QED
      BY <1>2, <3>1, <3>2 DEF Has
  <2> QED
    BY <1>2, <1>3, <2>1, <2>2, <2>3
<1>4. ASSUME NEW o, Has(q, o) PROVE Has(s, o)
  <2>1. PICK n \in 1 .. Len(s) - 1 : q[n] = o
    BY <1>2, <1>4 DEF Has
  <2>2. n \in 1 .. Len(s) /\ n + 1 \in 1 .. Len(s)
    BY <1>1
  <2> QED
    BY <1>1, <1>2, <2>1, <2>2 DEF Has
<1>5. ASSUME NEW o, First(s, o), s[k] # o PROVE First(q, o)
  <2>1. k > 1 /\ Len(s) - 1 >= 1
    BY <1>1, <1>2, <1>5 DEF First
  <2>2. 1 \in 1 .. Len(s) - 1
    BY <1>1, <2>1
  <2>3. q[1] = s[1]
    BY <1>2, <2>1, <2>2
  <2>4. q # <<>>
    BY <1>2, <2>2
  <2> QED
    BY <1>5, <2>3, <2>4 DEF First
<1>6. ASSUME NEW i, Ordered(s, i) PROVE Ordered(q, i)
  <2> SUFFICES ASSUME NEW n \in 1 .. Len(s) - 1, NEW m \in 1 .. Len(s) - 1, n < m, q[n] = <<"add", i>>
               PROVE  q[m][1] # "remove"
    BY <1>2 DEF Ordered
  <2>1. PICK a \in 1 .. Len(s) : a = IF n < k THEN n ELSE n + 1
    BY <1>1
  <2>2. PICK b \in 1 .. Len(s) : b = IF m < k THEN m ELSE m + 1
    BY <1>1
  <2>3. a < b
    BY <1>1, <1>2, <2>1, <2>2
  <2>4. q[n] = s[a] /\ q[m] = s[b]
    BY <1>2, <2>1, <2>2
  <2> QED
    BY <1>1, <1>6, <2>3, <2>4 DEF Ordered
<1> QED
  BY <1>2, <1>3, <1>4, <1>5, <1>6 DEF q

\* An operation alone, and none.
LEMMA QueueAlone ==
    ASSUME NEW x \in Ops
    PROVE  /\ <<x>> \in Seq(Ops) /\ First(<<x>>, x) /\ Has(<<x>>, x) /\ Tail(<<x>>) = <<>>
           /\ \A o : Has(<<x>>, o) => o = x
           /\ \A i : Ordered(<<x>>, i)
<1>1. <<x>> \in Seq(Ops) /\ DOMAIN <<x>> = {1} /\ <<x>>[1] = x /\ <<x>> # <<>>
  OBVIOUS
<1>2. Tail(<<x>>) = <<>>
  OBVIOUS
<1>3. \A n, m \in {1} : ~(n < m)
  OBVIOUS
<1> QED
  BY <1>1, <1>2, <1>3 DEF First, Has, Ordered

\* An empty queue has no operation, and every order.
LEMMA QueueEmpty ==
    /\ <<>> \in Seq(Ops) /\ (\A o : ~Has(<<>>, o) /\ ~First(<<>>, o)) /\ \A i : Ordered(<<>>, i)
<1>1. <<>> \in Seq(Ops) /\ DOMAIN <<>> = {}
  OBVIOUS
<1> QED
  BY <1>1 DEF Has, First, Ordered

\* What is first, and what is behind the addition that is first.
LEMMA QueueFirst ==
    ASSUME NEW s \in Seq(Ops)
    PROVE  /\ \A o, p : First(s, o) /\ First(s, p) => o = p
           /\ \A o : First(s, o) => Has(s, o)
           /\ \A i, r : First(s, <<"add", i>>) /\ Ordered(s, i) => ~Has(s, <<"remove", r>>)
<1>1. DOMAIN s = 1 .. Len(s) /\ Len(s) \in Nat /\ (s # <<>> => 1 \in 1 .. Len(s))
  OBVIOUS
<1>2. ASSUME NEW i, NEW r, First(s, <<"add", i>>), Ordered(s, i), Has(s, <<"remove", r>>) PROVE FALSE
  <2>1. PICK n \in 1 .. Len(s) : s[n] = <<"remove", r>>
    BY <1>1, <1>2 DEF Has
  <2>2. s[1] = <<"add", i>> /\ 1 \in DOMAIN s /\ n \in DOMAIN s
    BY <1>1, <1>2 DEF First
  <2>3. n # 1
    BY <2>1, <2>2
  <2>4. 1 < n
    BY <1>1, <2>3
  <2>5. s[n][1] # "remove"
    BY <1>2, <2>2, <2>4 DEF Ordered
  <2> QED
    BY <2>1, <2>5
<1> QED
  BY <1>1, <1>2 DEF First, Has

\* The application's call holds the guard of topic t, or waits for it.
AppAt(t, stages) == app.stage \in stages /\ app.topic = t
AppBusy(t) == AppAt(t, {"suback", "unsuback"})
Subscribing(t) == \E j \in Requests : TopicOf[j] = t /\ task[j] = "suback"

\* An operation on topic t that waits for an answer holds the guard; one that waits for the guard is in its queue.
Guarded(t) ==
    /\ \A j \in Requests : TopicOf[j] = t =>
          /\ task[j] = "suback" => First(queue[t], <<"add", j>>) /\ t \in observers /\ t \notin appsub
          /\ pc[j] = "unsuback" => First(queue[t], <<"remove", j>>) /\ t \notin observers /\ t \notin appsub
          /\ task[j] = "queued" => Has(queue[t], <<"add", j>>)
          /\ pc[j] = "removing" => Has(queue[t], <<"remove", j>>)
    /\ AppAt(t, {"queued"}) => Has(queue[t], AppOp)
    /\ AppBusy(t) => First(queue[t], AppOp)
    /\ AppAt(t, {"suback"}) /\ t \in observers => t \in broker
    /\ AppAt(t, {"unsuback"}) => t \notin observers /\ t \notin appsub

\* The broker has what the index routes, unless an answer is awaited.
Settled(t) == t \in observers \/ t \in appsub => t \in broker \/ Subscribing(t) \/ AppBusy(t)

\* The interest of a topic is not followed by a removal, and when it is ready its responses arrive.
Served(t) ==
    /\ topics[t] \in Requests =>
          /\ Ordered(queue[t], topics[t])
          /\ task[topics[t]] = "ok" =>
                /\ t \in observers /\ t \in broker
                /\ \A r \in Requests : TopicOf[r] = t => pc[r] \notin {"removing", "unsuback"}
    /\ \A j \in Requests : Has(queue[t], <<"add", j>>) => pc[j] # "calling"

TopicOK(t) == Guarded(t) /\ Settled(t) /\ Served(t)

\* Nothing of a lost connection is left.
Quiescent ==
    /\ observers = {} /\ appsub = {} /\ app = NoApp /\ queue = [t \in Topics |-> <<>>]
    /\ \A r \in Requests : pc[r] \notin {"removing", "unsuback"} /\ task[r] \notin {"queued", "suback"}

QueueTypes ==
    /\ queue \in [Topics -> Seq(Ops)]
    /\ app.stage \in {"queued", "suback", "unsuback"} => app.topic \in Topics

\* The guards and the topics of a live connection are in order.
UpInv == QueueTypes /\ \A t \in Topics : TopicOK(t)

\* A live connection is in order; between two connections there is nothing to put in order.
HeardInv == (Alive => UpInv) /\ (client = "lost" => Quiescent)

\* A topic on which nothing begins: operations may end without a trace, an interest may go or be new.
LEMMA TopicKept ==
    ASSUME NEW t \in Topics, TopicOK(t), queue'[t] = queue[t],
           t \in observers' <=> t \in observers, t \in appsub' <=> t \in appsub, t \in broker' <=> t \in broker,
           app' = app \/ ~(AppAt(t, {"queued", "suback", "unsuback"}) \/ AppAt(t, {"queued", "suback", "unsuback"})'),
           \A q \in Requests : pc'[q] = "calling" => pc[q] = "calling",
           \A q \in Requests : TopicOf[q] = t =>
               /\ task'[q] = "suback" <=> task[q] = "suback"
               /\ task'[q] = "queued" => task[q] = "queued"
               /\ task'[q] = "ok" => task[q] = "ok"
               /\ pc'[q] \in {"removing", "unsuback"} => pc'[q] = pc[q],
           topics'[t] \in Requests =>
               /\ TopicOf[topics'[t]] = t
               /\ topics'[t] = topics[t] \/ (pc[topics'[t]] = "calling" /\ task'[topics'[t]] # "ok")
    PROVE  TopicOK(t)'
<1>1. \A stages \in SUBSET {"queued", "suback", "unsuback"} : AppAt(t, stages)' <=> AppAt(t, stages)
  BY DEF AppAt
<1>2. /\ AppAt(t, {"queued"})' <=> AppAt(t, {"queued"})
      /\ AppAt(t, {"suback"})' <=> AppAt(t, {"suback"})
      /\ AppAt(t, {"unsuback"})' <=> AppAt(t, {"unsuback"})
      /\ AppBusy(t)' <=> AppBusy(t)
  BY <1>1 DEF AppBusy
<1>3. Guarded(t)'
  BY <1>2 DEF TopicOK, Guarded
<1>4. Subscribing(t)' <=> Subscribing(t)
  BY DEF Subscribing
<1>5. Settled(t)'
  BY <1>2, <1>4 DEF TopicOK, Settled
<1>6. \A j \in Requests : Has(queue'[t], <<"add", j>>) => pc'[j] # "calling"
  BY DEF TopicOK, Served
<1>7. ASSUME topics'[t] \in Requests
      PROVE  /\ Ordered(queue'[t], topics'[t])
             /\ task'[topics'[t]] = "ok" =>
                   /\ t \in observers' /\ t \in broker'
                   /\ \A r \in Requests : TopicOf[r] = t => pc'[r] \notin {"removing", "unsuback"}
  <2>1. CASE topics'[t] = topics[t]
    BY <1>7, <2>1 DEF TopicOK, Served
  <2>2. CASE pc[topics'[t]] = "calling" /\ task'[topics'[t]] # "ok"
    <3>1. ~Has(queue[t], <<"add", topics'[t]>>)
      BY <1>7, <2>2 DEF TopicOK, Served
    <3> QED
      BY <2>2, <3>1 DEF Has, Ordered
  <2> QED
    BY <1>7, <2>1, <2>2
<1> QED
  BY <1>3, <1>5, <1>6, <1>7 DEF TopicOK, Served

\* What happens on one topic leaves the others alone.
LEMMA OneTopic ==
    ASSUME TypeOK, Counts, QueueTypes, \A t \in Topics : TopicOK(t), NEW t0 \in Topics, NEW s \in Seq(Ops),
           queue' = [queue EXCEPT ![t0] = s], TopicOK(t0)',
           \A t \in Topics : t # t0 =>
               /\ t \in observers' <=> t \in observers
               /\ t \in appsub' <=> t \in appsub
               /\ t \in broker' <=> t \in broker
               /\ topics'[t] = topics[t],
           \A q \in Requests : pc'[q] = "calling" => pc[q] = "calling",
           \A q \in Requests : TopicOf[q] # t0 => pc'[q] = pc[q] /\ task'[q] = task[q],
           \/ app' = app
           \/ (app.topic = t0 \/ app.stage = "none") /\ (app'.topic = t0 \/ app'.stage = "none")
    PROVE  QueueTypes' /\ \A t \in Topics : TopicOK(t)'
<1>1. QueueTypes'
  BY DEF QueueTypes
<1>2. ASSUME NEW t \in Topics, t # t0 PROVE TopicOK(t)'
  <2>1. queue'[t] = queue[t]
    BY <1>2 DEF QueueTypes
  <2>2. topics[t] \in Requests => TopicOf[topics[t]] = t
    BY NoneAssumption DEF Counts, CountedAt
  <2>3. app' = app \/ ~(AppAt(t, {"queued", "suback", "unsuback"}) \/ AppAt(t, {"queued", "suback", "unsuback"})')
    BY <1>2 DEF AppAt
  <2> QED
    BY <1>2, <2>1, <2>2, <2>3, TopicKept
<1> QED
  BY <1>1, <1>2

\* The operation that holds the guard is the only one that awaits an answer.
LEMMA HolderAlone ==
    ASSUME QueueTypes, NEW t \in Topics, Guarded(t), NEW o, First(queue[t], o)
    PROVE  /\ \A j \in Requests : TopicOf[j] = t =>
                 (task[j] = "suback" => o = <<"add", j>>) /\ (pc[j] = "unsuback" => o = <<"remove", j>>)
           /\ AppBusy(t) => o = AppOp
<1>1. \A p : First(queue[t], p) => o = p
  BY QueueFirst DEF QueueTypes
<1> QED
  BY <1>1 DEF Guarded

\* A free guard: no operation on the topic is under way.
LEMMA GuardFree ==
    ASSUME NEW t \in Topics, Guarded(t), queue[t] = <<>>
    PROVE  /\ \A j \in Requests : TopicOf[j] = t =>
                 task[j] \notin {"suback", "queued"} /\ pc[j] \notin {"removing", "unsuback"}
           /\ ~Subscribing(t) /\ ~AppBusy(t) /\ ~AppAt(t, {"queued"})
BY QueueEmpty DEF Guarded, Subscribing

\* The holder of the guard lets go, and no answer is awaited for the topic any more.
LEMMA Released ==
    ASSUME QueueTypes, NEW t \in Topics, TopicOK(t), NEW o, First(queue[t], o), queue'[t] = Tail(queue[t]),
           \A q \in Requests : pc'[q] = "calling" => pc[q] = "calling",
           \A j \in Requests : TopicOf[j] = t =>
               /\ task'[j] \in {"queued", "suback"} => task'[j] = task[j] /\ o # <<"add", j>>
               /\ pc'[j] \in {"removing", "unsuback"} => pc'[j] = pc[j] /\ o # <<"remove", j>>,
           (app' = app /\ o # AppOp) \/ app' = NoApp,
           t \in observers' \/ t \in appsub' => t \in broker',
           topics'[t] = topics[t],
           topics[t] \in Requests /\ task'[topics[t]] = "ok" =>
               /\ t \in observers' /\ t \in broker'
               /\ \A r \in Requests : TopicOf[r] = t => pc'[r] \notin {"removing", "unsuback"}
    PROVE  TopicOK(t)'
<1>1. queue[t] \in Seq(Ops) /\ queue[t] # <<>> /\ queue[t][1] = o
  BY DEF QueueTypes, First
<1>2. /\ \A p : Has(queue[t], p) /\ o # p => Has(queue'[t], p)
      /\ \A p : Has(queue'[t], p) => Has(queue[t], p)
      /\ \A i : Ordered(queue[t], i) => Ordered(queue'[t], i)
  BY <1>1, QueueRelease
<1>3. /\ \A j \in Requests : TopicOf[j] = t =>
                (task[j] = "suback" => o = <<"add", j>>) /\ (pc[j] = "unsuback" => o = <<"remove", j>>)
      /\ AppBusy(t) => o = AppOp
  BY HolderAlone DEF TopicOK
<1>4. \A j \in Requests : TopicOf[j] = t => task'[j] # "suback" /\ pc'[j] # "unsuback"
  BY <1>3
<1>5. ~AppBusy(t)' /\ (AppAt(t, {"queued"})' => AppAt(t, {"queued"}) /\ o # AppOp)
  BY <1>3 DEF AppBusy, AppAt, NoApp
<1>6. ~AppAt(t, {"suback"})' /\ ~AppAt(t, {"unsuback"})'
  BY <1>5 DEF AppBusy, AppAt
<1>7. Guarded(t)'
  BY <1>2, <1>4, <1>5, <1>6 DEF TopicOK, Guarded
<1>8. Settled(t)'
  BY DEF Settled
<1>9. Served(t)'
  BY <1>2 DEF TopicOK, Served
<1> QED
  BY <1>7, <1>8, <1>9 DEF TopicOK

\* An operation waits for the guard behind the others.
LEMMA Joined ==
    ASSUME QueueTypes, NEW t \in Topics, TopicOK(t), NEW x \in Ops, queue[t] # <<>>, queue'[t] = Append(queue[t], x),
           \A q \in Requests : pc'[q] = "calling" => pc[q] = "calling",
           \A j \in Requests : TopicOf[j] = t =>
               /\ task'[j] = "suback" <=> task[j] = "suback"
               /\ pc'[j] = "unsuback" => pc[j] = "unsuback"
               /\ task'[j] = "queued" => task[j] = "queued" \/ x = <<"add", j>>
               /\ pc'[j] = "removing" => pc[j] = "removing" \/ x = <<"remove", j>>,
           \A j \in Requests : x = <<"add", j>> => pc'[j] # "calling",
           app' = app \/ (app = NoApp /\ app'.stage = "queued" /\ x = AppOp),
           UNCHANGED <<observers, appsub, broker>>,
           topics'[t] \in Requests =>
               /\ topics'[t] = topics[t] /\ x[1] # "remove"
               /\ task'[topics[t]] = "ok" =>
                     /\ task[topics[t]] = "ok"
                     /\ \A r \in Requests : TopicOf[r] = t /\ pc'[r] \in {"removing", "unsuback"} => pc'[r] = pc[r]
    PROVE  TopicOK(t)'
<1>1. queue[t] \in Seq(Ops)
  BY DEF QueueTypes
<1>2. /\ Has(queue'[t], x)
      /\ \A o : Has(queue[t], o) => Has(queue'[t], o)
      /\ \A o : Has(queue'[t], o) => Has(queue[t], o) \/ o = x
      /\ \A o : First(queue[t], o) => First(queue'[t], o)
      /\ \A i : Ordered(queue[t], i) /\ x[1] # "remove" => Ordered(queue'[t], i)
  BY <1>1, QueueJoin
<1>3. /\ AppAt(t, {"queued"})' => AppAt(t, {"queued"}) \/ x = AppOp
      /\ AppAt(t, {"suback"})' => AppAt(t, {"suback"})
      /\ AppAt(t, {"unsuback"})' => AppAt(t, {"unsuback"})
      /\ AppBusy(t)' <=> AppBusy(t)
  BY DEF AppBusy, AppAt, NoApp
<1>4. Guarded(t)'
  BY <1>2, <1>3 DEF TopicOK, Guarded
<1>5. Subscribing(t)' <=> Subscribing(t)
  BY DEF Subscribing
<1>6. Settled(t)'
  BY <1>3, <1>5 DEF TopicOK, Settled
<1>7. Served(t)'
  BY <1>2 DEF TopicOK, Served
<1> QED
  BY <1>4, <1>6, <1>7 DEF TopicOK

\* An operation finds the guard free, and is done with it at once.
LEMMA Passed ==
    ASSUME NEW t \in Topics, TopicOK(t), queue[t] = <<>>, queue'[t] = <<>>, UNCHANGED app,
           \A j \in Requests : TopicOf[j] = t =>
               task'[j] \notin {"queued", "suback"} /\ pc'[j] \notin {"removing", "unsuback"},
           t \in observers' \/ t \in appsub' => t \in broker',
           topics'[t] \in Requests /\ task'[topics'[t]] = "ok" => t \in observers' /\ t \in broker'
    PROVE  TopicOK(t)'
<1>1. ~AppBusy(t) /\ ~AppAt(t, {"queued"})
  BY GuardFree DEF TopicOK
<1>2. ~AppBusy(t)' /\ ~AppAt(t, {"queued"})' /\ ~AppAt(t, {"suback"})' /\ ~AppAt(t, {"unsuback"})'
  BY <1>1 DEF AppBusy, AppAt
<1>3. Guarded(t)'
  BY <1>2 DEF Guarded
<1>4. Settled(t)'
  BY DEF Settled
<1>5. Served(t)'
  BY QueueEmpty DEF Served
<1> QED
  BY <1>3, <1>4, <1>5 DEF TopicOK

\* An operation takes the free guard, or it is its turn: no other one awaits an answer.
LEMMA Begun ==
    ASSUME QueueTypes, NEW t \in Topics, Guarded(t), NEW x \in Ops,
           \/ queue[t] = <<>> /\ queue'[t] = <<x>>
           \/ First(queue[t], x) /\ queue'[t] = queue[t]
    PROVE  /\ queue'[t] \in Seq(Ops) /\ First(queue'[t], x)
           /\ \A o : Has(queue[t], o) => Has(queue'[t], o)
           /\ \A o : Has(queue'[t], o) => Has(queue[t], o) \/ o = x
           /\ \A i : Ordered(queue[t], i) => Ordered(queue'[t], i)
           /\ \A j \in Requests : TopicOf[j] = t =>
                 (task[j] = "suback" => x = <<"add", j>>) /\ (pc[j] = "unsuback" => x = <<"remove", j>>)
           /\ AppBusy(t) => x = AppOp
<1>1. CASE queue[t] = <<>> /\ queue'[t] = <<x>>
  <2>1. /\ queue'[t] \in Seq(Ops) /\ First(queue'[t], x) /\ (\A o : Has(queue'[t], o) => o = x)
        /\ \A i : Ordered(queue'[t], i)
    BY <1>1, QueueAlone
  <2>2. \A o : ~Has(queue[t], o)
    BY <1>1, QueueEmpty
  <2>3. /\ \A j \in Requests : TopicOf[j] = t => task[j] # "suback" /\ pc[j] # "unsuback"
        /\ ~AppBusy(t)
    BY <1>1, GuardFree
  <2> QED
    BY <2>1, <2>2, <2>3
<1>2. CASE First(queue[t], x) /\ queue'[t] = queue[t]
  BY <1>2, HolderAlone DEF QueueTypes
<1> QED
  BY <1>1, <1>2

\* add_response_observer() sends its SUBSCRIBE.
LEMMA AddAsks ==
    ASSUME QueueTypes, NEW i \in Requests, NEW t \in Topics, t = TopicOf[i], TopicOK(t), pc[i] # "calling",
           \/ queue[t] = <<>> /\ queue'[t] = << <<"add", i>> >>
           \/ First(queue[t], <<"add", i>>) /\ queue'[t] = queue[t],
           t \notin observers, t \notin appsub, observers' = observers \cup {t},
           \A j \in Requests : task'[j] = IF j = i THEN "suback" ELSE task[j],
           UNCHANGED <<topics, pc, appsub, app, broker>>
    PROVE  TopicOK(t)'
<1> DEFINE x == <<"add", i>>
<1>0. x \in Ops /\ x # AppOp /\ (\A j : x # <<"remove", j>>) /\ \A j : x = <<"add", j>> => i = j
  BY OpsDiffer
<1> HIDE DEF x
<1>1. \/ queue[t] = <<>> /\ queue'[t] = <<x>>
      \/ First(queue[t], x) /\ queue'[t] = queue[t]
  BY DEF x
<1>2. /\ First(queue'[t], x)
      /\ \A o : Has(queue[t], o) => Has(queue'[t], o)
      /\ \A o : Has(queue'[t], o) => Has(queue[t], o) \/ o = x
      /\ \A j : Ordered(queue[t], j) => Ordered(queue'[t], j)
      /\ \A j \in Requests : TopicOf[j] = t =>
            (task[j] = "suback" => x = <<"add", j>>) /\ (pc[j] = "unsuback" => x = <<"remove", j>>)
      /\ AppBusy(t) => x = AppOp
  <2>1. Guarded(t) /\ x \in Ops
    BY <1>0 DEF TopicOK
  <2> QED
    BY <1>1, <2>1, Begun
<1>3. ~AppBusy(t) /\ ~AppAt(t, {"suback"}) /\ ~AppAt(t, {"unsuback"})
  BY <1>0, <1>2 DEF AppBusy, AppAt
<1>4. ~AppBusy(t)' /\ ~AppAt(t, {"suback"})' /\ ~AppAt(t, {"unsuback"})' /\ (AppAt(t, {"queued"})' => AppAt(t, {"queued"}))
  BY <1>3 DEF AppBusy, AppAt
<1>5. \A j \in Requests : TopicOf[j] = t => pc[j] # "unsuback" /\ (task[j] = "suback" => j = i)
  BY <1>0, <1>2
<1>6. First(queue'[t], <<"add", i>>)
  BY <1>2 DEF x
<1>7. Guarded(t)'
  BY <1>2, <1>4, <1>5, <1>6 DEF TopicOK, Guarded
<1>8. Settled(t)'
  BY DEF Settled, Subscribing
<1>9. Served(t)'
  <2>1. topics[t] \in Requests => task[topics[t]] # "ok"
    BY DEF TopicOK, Served
  <2>2. \A j \in Requests : Has(queue'[t], <<"add", j>>) => pc'[j] # "calling"
    BY <1>0, <1>2 DEF TopicOK, Served
  <2> QED
    BY <1>2, <2>1, <2>2 DEF TopicOK, Served
<1> QED
  BY <1>7, <1>8, <1>9 DEF TopicOK

\* remove_response_observer() sends its UNSUBSCRIBE.
LEMMA RemoveAsks ==
    ASSUME QueueTypes, NEW r \in Requests, NEW t \in Topics, t = TopicOf[r], TopicOK(t),
           \/ queue[t] = <<>> /\ queue'[t] = << <<"remove", r>> >> /\ topics'[t] = None
           \/ First(queue[t], <<"remove", r>>) /\ queue'[t] = queue[t] /\ pc[r] = "removing" /\ UNCHANGED topics,
           t \notin appsub, observers' = observers \ {t},
           \A j \in Requests : task'[j] \in {"ok", "queued", "suback"} => task'[j] = task[j],
           \A j \in Requests : pc'[j] = IF j = r THEN "unsuback" ELSE pc[j],
           UNCHANGED <<appsub, app, broker>>
    PROVE  TopicOK(t)'
<1> DEFINE x == <<"remove", r>>
<1>0. x \in Ops /\ x # AppOp /\ (\A j : x # <<"add", j>>) /\ \A j : x = <<"remove", j>> => r = j
  BY OpsDiffer
<1> HIDE DEF x
<1>1. \/ queue[t] = <<>> /\ queue'[t] = <<x>>
      \/ First(queue[t], x) /\ queue'[t] = queue[t]
  BY DEF x
<1>2. /\ First(queue'[t], x)
      /\ \A o : Has(queue[t], o) => Has(queue'[t], o)
      /\ \A o : Has(queue'[t], o) => Has(queue[t], o) \/ o = x
      /\ \A j : Ordered(queue[t], j) => Ordered(queue'[t], j)
      /\ \A j \in Requests : TopicOf[j] = t =>
            (task[j] = "suback" => x = <<"add", j>>) /\ (pc[j] = "unsuback" => x = <<"remove", j>>)
      /\ AppBusy(t) => x = AppOp
  <2>1. Guarded(t) /\ x \in Ops
    BY <1>0 DEF TopicOK
  <2> QED
    BY <1>1, <2>1, Begun
<1>3. ~AppBusy(t) /\ ~AppAt(t, {"suback"}) /\ ~AppAt(t, {"unsuback"})
  BY <1>0, <1>2 DEF AppBusy, AppAt
<1>4. ~AppBusy(t)' /\ ~AppAt(t, {"suback"})' /\ ~AppAt(t, {"unsuback"})' /\ (AppAt(t, {"queued"})' => AppAt(t, {"queued"}))
  BY <1>3 DEF AppBusy, AppAt
<1>5. \A j \in Requests : TopicOf[j] = t => task'[j] # "suback" /\ (pc'[j] = "unsuback" => j = r)
  BY <1>0, <1>2
<1>6. First(queue'[t], <<"remove", r>>)
  BY <1>2 DEF x
<1>7. Guarded(t)'
  BY <1>2, <1>4, <1>5, <1>6 DEF TopicOK, Guarded
<1>8. Settled(t)'
  BY DEF Settled
<1>9. Served(t)'
  <2>1. topics'[t] \in Requests => UNCHANGED topics /\ task'[topics[t]] # "ok"
    BY NoneAssumption DEF TopicOK, Served
  <2>2. \A j \in Requests : Has(queue'[t], <<"add", j>>) => pc'[j] # "calling"
    BY <1>0, <1>2 DEF TopicOK, Served
  <2> QED
    BY <1>2, <2>1, <2>2 DEF TopicOK, Served
<1> QED
  BY <1>7, <1>8, <1>9 DEF TopicOK

\* The application's call sends its SUBSCRIBE or UNSUBSCRIBE.
LEMMA AppAsks ==
    ASSUME QueueTypes, NEW t \in Topics, TopicOK(t), NEW kind, AppBody(kind, t, queue'[t]),
           \/ queue[t] = <<>> /\ queue'[t] = <<AppOp>>
           \/ First(queue[t], AppOp) /\ queue'[t] = queue[t],
           app.stage \in {"none", "queued"},
           UNCHANGED <<topics, task, pc, observers, broker>>
    PROVE  TopicOK(t)'
<1>0. AppOp \in Ops /\ \A j : AppOp # <<"add", j>> /\ AppOp # <<"remove", j>>
  BY OpsDiffer
<1>1. /\ First(queue'[t], AppOp)
      /\ \A o : Has(queue[t], o) => Has(queue'[t], o)
      /\ \A o : Has(queue'[t], o) => Has(queue[t], o) \/ o = AppOp
      /\ \A j : Ordered(queue[t], j) => Ordered(queue'[t], j)
      /\ \A j \in Requests : TopicOf[j] = t =>
            (task[j] = "suback" => AppOp = <<"add", j>>) /\ (pc[j] = "unsuback" => AppOp = <<"remove", j>>)
  <2>1. Guarded(t)
    BY DEF TopicOK
  <2> QED
    BY <1>0, <2>1, Begun
<1>2. \A j \in Requests : TopicOf[j] = t => task[j] # "suback" /\ pc[j] # "unsuback"
  BY <1>0, <1>1
<1>3. ~Subscribing(t) /\ ~AppBusy(t)
  BY <1>2 DEF Subscribing, AppBusy, AppAt
<1>4. t \in observers => t \in broker
  BY <1>3 DEF TopicOK, Settled
<1>5. /\ AppBusy(t)' /\ ~AppAt(t, {"queued"})'
      /\ AppAt(t, {"unsuback"})' => t \notin observers /\ t \notin appsub'
  BY DEF AppBody, HasResponseObserver, AppBusy, AppAt
<1>6. Guarded(t)'
  BY <1>1, <1>2, <1>4, <1>5 DEF TopicOK, Guarded
<1>7. Settled(t)'
  BY <1>5 DEF Settled
<1>8. Served(t)'
  BY <1>0, <1>1 DEF TopicOK, Served
<1> QED
  BY <1>6, <1>7, <1>8 DEF TopicOK

-----------------------------------------------------------------------------
\* The application's calls.
LEMMA AppSteps ==
    ASSUME TypeOK, Counts, UpInv, Alive,
           (\E kind \in {"subscribe", "unsubscribe"}, t \in AppTopics : AppCall(kind, t)) \/ AppTurn \/ AppAck
    PROVE  UpInv'
<1>0. UNCHANGED <<topics, task, pc, observers>> /\ QueueTypes
  BY DEF AppCall, AppTurn, AppAck, dispatcher, interests, UpInv
<1>1. ASSUME NEW t \in Topics, NEW kind, NEW s \in Seq(Ops), AppBody(kind, t, s), UNCHANGED broker,
             \/ queue[t] = <<>> /\ s = <<AppOp>>
             \/ First(queue[t], AppOp) /\ s = queue[t],
             app = NoApp \/ (app.stage = "queued" /\ app.topic = t)
      PROVE  UpInv'
  <2>1. queue' = [queue EXCEPT ![t] = s] /\ queue'[t] = s /\ app.stage \in {"none", "queued"}
    BY <1>0, <1>1 DEF AppBody, QueueTypes, NoApp
  <2>2. TopicOK(t)'
    BY <1>0, <1>1, <2>1, AppAsks DEF UpInv
  <2>3. \A u \in Topics : u # t => (u \in appsub' <=> u \in appsub)
    BY <1>1 DEF AppBody
  <2>4. (app.topic = t \/ app.stage = "none") /\ app'.topic = t
    BY <1>1 DEF AppBody, NoApp
  <2> QED
    BY <1>0, <1>1, <2>1, <2>2, <2>3, <2>4, OneTopic DEF UpInv
<1>2. ASSUME NEW kind, NEW t \in AppTopics, AppCall(kind, t) PROVE UpInv'
  <2>1. t \in Topics /\ app = NoApp /\ UNCHANGED broker /\ AppOp \in Ops /\ <<AppOp>> \in Seq(Ops)
    BY <1>2, AppAssumption, OpsDiffer DEF AppCall
  <2>2. CASE queue[t] = <<>> /\ AppBody(kind, t, <<AppOp>>)
    BY <1>1, <2>1, <2>2
  <2>3. CASE /\ queue[t] # <<>> /\ queue' = [queue EXCEPT ![t] = Append(@, AppOp)]
             /\ app' = [kind |-> kind, topic |-> t, stage |-> "queued"] /\ UNCHANGED appsub
    <3>1. queue'[t] = Append(queue[t], AppOp) /\ queue[t] \in Seq(Ops) /\ Append(queue[t], AppOp) \in Seq(Ops)
      BY <1>0, <2>1, <2>3 DEF QueueTypes
    <3>2. AppOp[1] # "remove" /\ \A j : AppOp # <<"add", j>>
      BY DEF AppOp
    <3>3. TopicOK(t)'
      BY <1>0, <2>1, <2>3, <3>1, <3>2, Joined DEF UpInv
    <3>4. queue' = [queue EXCEPT ![t] = Append(queue[t], AppOp)] /\ app.stage = "none" /\ app'.topic = t
      BY <2>1, <2>3 DEF NoApp
    <3> QED
      BY <1>0, <2>1, <2>3, <3>1, <3>3, <3>4, OneTopic DEF UpInv
  <2> QED
    BY <1>2, <2>2, <2>3 DEF AppCall, AppOp
<1>3. CASE AppTurn
  <2>1. PICK t \in Topics : t = app.topic
    BY <1>0, <1>3 DEF AppTurn, QueueTypes
  <2>2. /\ app.stage = "queued" /\ Head(queue[t]) = AppOp /\ AppBody(app.kind, t, queue[t])
        /\ UNCHANGED broker /\ queue[t] \in Seq(Ops)
    BY <1>0, <1>3, <2>1 DEF AppTurn, AppOp, QueueTypes
  <2>3. queue[t] # <<>>
    <3>1. Has(queue[t], AppOp)
      BY <2>1, <2>2 DEF UpInv, TopicOK, Guarded, AppAt
    <3> QED
      BY <3>1, QueueEmpty
  <2>4. First(queue[t], AppOp)
    BY <2>2, <2>3, QueueRelease DEF First
  <2> QED
    BY <1>1, <2>1, <2>2, <2>4
<1>4. CASE AppAck
  <2>1. PICK t \in Topics : t = app.topic
    BY <1>0, <1>4 DEF AppAck, QueueTypes
  <2>2. /\ app.stage \in {"suback", "unsuback"} /\ app' = NoApp /\ queue' = [queue EXCEPT ![t] = Tail(queue[t])]
        /\ \/ /\ broker' = IF app.stage = "suback" THEN broker \cup {t} ELSE broker \ {t}
              /\ UNCHANGED appsub
           \/ /\ app.stage = "suback" /\ t \notin broker
              /\ appsub' = appsub \ {t}
              /\ UNCHANGED broker
    BY <1>4, <2>1 DEF AppAck
  <2>3. AppBusy(t) /\ TopicOK(t)
    BY <2>1, <2>2 DEF AppBusy, AppAt, UpInv
  <2>4. /\ First(queue[t], AppOp)
        /\ app.stage = "suback" /\ t \in observers => t \in broker
        /\ app.stage = "unsuback" => t \notin observers /\ t \notin appsub
    BY <2>1, <2>3 DEF TopicOK, Guarded, AppAt
  <2>5. queue[t] \in Seq(Ops) /\ Tail(queue[t]) \in Seq(Ops) /\ queue'[t] = Tail(queue[t])
    BY <1>0, <2>2, <2>4, QueueRelease DEF QueueTypes, First
  <2>6. t \in observers' \/ t \in appsub' => t \in broker'
    BY <1>0, <2>2, <2>4
  <2>7. topics[t] \in Requests /\ task'[topics[t]] = "ok" =>
               /\ t \in observers' /\ t \in broker'
               /\ \A r \in Requests : TopicOf[r] = t => pc'[r] \notin {"removing", "unsuback"}
    BY <1>0, <2>3, <2>6 DEF TopicOK, Served
  <2>8. \A j \in Requests : TopicOf[j] = t =>
            /\ task'[j] \in {"queued", "suback"} => task'[j] = task[j] /\ AppOp # <<"add", j>>
            /\ pc'[j] \in {"removing", "unsuback"} => pc'[j] = pc[j] /\ AppOp # <<"remove", j>>
    BY <1>0, OpsDiffer
  <2>9. TopicOK(t)'
    BY <1>0, <2>2, <2>3, <2>4, <2>5, <2>6, <2>7, <2>8, Released
  <2>10. \A u \in Topics : u # t => (u \in appsub' <=> u \in appsub) /\ (u \in broker' <=> u \in broker)
    BY <2>2
  <2>11. app.topic = t /\ app'.stage = "none"
    BY <2>1, <2>2 DEF NoApp
  <2> QED
    BY <1>0, <2>2, <2>5, <2>9, <2>10, <2>11, OneTopic DEF UpInv
<1> QED
  BY <1>2, <1>3, <1>4

\* A ready task ends and is the last to hold the guard, or found it free.
LEMMA TaskEndTopic ==
    ASSUME TypeOK, Counts, TasksInv, UpInv, NEW i \in Requests, NEW t \in Topics, t = TopicOf[i],
           NEW verdict \in Finished, TasksEnd({i}, verdict), task[i] \in Live,
           NEW q \in Seq(Ops), queue' = [queue EXCEPT ![t] = Tail(q)],
           \/ queue[t] = <<>> /\ q = << <<"add", i>> >>
           \/ First(queue[t], <<"add", i>>) /\ q = queue[t],
           t \in observers' \/ t \in appsub => t \in broker',
           verdict = "ok" => t \in observers',
           t \in observers /\ t \in broker => t \in observers' /\ t \in broker',
           UNCHANGED <<topics, pc, appsub, app>>
    PROVE  TopicOK(t)' /\ Tail(q) \in Seq(Ops)
<1>0. QueueTypes /\ TopicOK(t) /\ <<"add", i>> \in Ops
  BY OpsDiffer DEF UpInv
<1>1. /\ \A j \in Requests : j # i => task'[j] = task[j]
      /\ task'[i] = IF InUse(i) THEN verdict ELSE "none"
  BY KnownInUse DEF TasksEnd
<1>2. task'[i] \notin {"queued", "suback"} /\ (task'[i] = "ok" => InUse(i) /\ verdict = "ok")
  BY <1>1 DEF Finished
<1>3. topics[t] \in Requests => TopicOf[topics[t]] = t
  BY NoneAssumption DEF Counts, CountedAt
<1>4. topics[t] \in Requests /\ task'[topics[t]] = "ok" => t \in observers' /\ t \in broker'
  <2>1. CASE topics[t] = i
    BY <1>2, <2>1
  <2>2. CASE topics[t] # i
    BY <1>0, <1>1, <2>2 DEF TopicOK, Served
  <2> QED
    BY <2>1, <2>2
<1>5. CASE queue[t] = <<>> /\ q = << <<"add", i>> >>
  <2>1. Tail(q) = <<>> /\ Tail(q) \in Seq(Ops) /\ queue'[t] = <<>>
    <3>1. Tail(q) = <<>>
      BY <1>0, <1>5, QueueAlone
    <3> QED
      BY <1>0, <3>1, QueueEmpty DEF QueueTypes
  <2>2. \A j \in Requests : TopicOf[j] = t => task[j] \notin {"suback", "queued"} /\ pc[j] \notin {"removing", "unsuback"}
    BY <1>0, <1>5, GuardFree DEF TopicOK
  <2>3. \A j \in Requests : TopicOf[j] = t =>
               task'[j] \notin {"queued", "suback"} /\ pc'[j] \notin {"removing", "unsuback"}
    BY <1>1, <1>2, <2>2
  <2> QED
    BY <1>0, <1>4, <1>5, <2>1, <2>3, Passed
<1>6. CASE First(queue[t], <<"add", i>>) /\ q = queue[t]
  <2>1. Tail(q) \in Seq(Ops) /\ queue'[t] = Tail(queue[t])
    BY <1>0, <1>6, QueueRelease DEF QueueTypes, First
  <2>2. topics[t] \in Requests /\ task'[topics[t]] = "ok" =>
            \A r \in Requests : TopicOf[r] = t => pc'[r] \notin {"removing", "unsuback"}
    <3>1. CASE topics[t] = i
      <4>1. Ordered(queue[t], i)
        BY <1>0, <3>1 DEF TopicOK, Served
      <4>2. \A r : ~Has(queue[t], <<"remove", r>>)
        BY <1>0, <1>6, <4>1, QueueFirst DEF QueueTypes
      <4>3. \A r : ~First(queue[t], <<"remove", r>>)
        BY <1>0, <4>2, QueueFirst DEF QueueTypes
      <4> QED
        BY <1>0, <4>2, <4>3 DEF TopicOK, Guarded
    <3>2. CASE topics[t] # i
      BY <1>0, <1>1, <3>2 DEF TopicOK, Served
    <3> QED
      BY <3>1, <3>2
  <2>3. \A j \in Requests : TopicOf[j] = t =>
            /\ task'[j] \in {"queued", "suback"} => task'[j] = task[j] /\ <<"add", i>> # <<"add", j>>
            /\ pc'[j] \in {"removing", "unsuback"} => pc'[j] = pc[j] /\ <<"add", i>> # <<"remove", j>>
    BY <1>1, <1>2, OpsDiffer
  <2>4. <<"add", i>> # AppOp
    BY OpsDiffer
  <2>5. TopicOK(t)'
    <3> DEFINE o == <<"add", i>>
    <3>1. /\ First(queue[t], o) /\ o # AppOp
          /\ \A j \in Requests : TopicOf[j] = t =>
               /\ task'[j] \in {"queued", "suback"} => task'[j] = task[j] /\ o # <<"add", j>>
               /\ pc'[j] \in {"removing", "unsuback"} => pc'[j] = pc[j] /\ o # <<"remove", j>>
      BY <1>6, <2>3, <2>4
    <3> HIDE DEF o
    <3> QED
      BY <1>0, <1>4, <2>1, <2>2, <3>1, Released
  <2> QED
    BY <2>1, <2>5
<1> QED
  BY <1>5, <1>6

\* The ready tasks.
LEMMA TaskSteps ==
    ASSUME TypeOK, Counts, TasksInv, UpInv, Alive, NEW i \in Requests, TaskStep(i)
    PROVE  UpInv'
<1> DEFINE t == TopicOf[i]
<1>0. t \in Topics /\ QueueTypes /\ queue[t] \in Seq(Ops) /\ <<"add", i>> \in Ops /\ TopicOK(t)
  BY KeyType, OpsDiffer DEF UpInv, QueueTypes
<1>1. UNCHANGED <<topics, pc, appsub, app>> /\ task[i] \in Live /\ pc[i] # "calling"
  <2>1. UNCHANGED <<topics, pc, appsub, app>> /\ task[i] \in Live
    BY DEF TaskStep, AddStart, AddTurn, AddBody, AddAck, dispatcher, index, Live
  <2> QED
    BY <2>1 DEF TasksInv, FreshCall, Live
<1> HIDE DEF t
<1>2. ASSUME NEW q \in Seq(Ops), AddBody(i, q),
             \/ queue[t] = <<>> /\ q = << <<"add", i>> >>
             \/ First(queue[t], <<"add", i>>) /\ q = queue[t],
             task[i] # "suback"
      PROVE  UpInv'
  <2>1. UNCHANGED broker /\ observers' = observers \cup {t}
    BY <1>2 DEF AddBody, t
  <2>2. CASE t \notin observers /\ t \notin appsub
    <3>1. queue' = [queue EXCEPT ![t] = q] /\ task' = [task EXCEPT ![i] = "suback"]
      BY <1>2, <2>2 DEF AddBody, t
    <3>2. queue'[t] = q /\ \A j \in Requests : task'[j] = IF j = i THEN "suback" ELSE task[j]
      BY <1>0, <3>1 DEF QueueTypes, TypeOK
    <3>3. TopicOK(t)'
      BY <1>0, <1>1, <1>2, <2>1, <2>2, <3>2, AddAsks DEF t
    <3>4. \A j \in Requests : TopicOf[j] # t => task'[j] = task[j]
      BY <3>2 DEF t
    <3> QED
      BY <1>0, <1>1, <1>2, <2>1, <3>1, <3>3, <3>4, OneTopic DEF UpInv
  <2>3. CASE t \in observers \/ t \in appsub
    <3>1. queue' = [queue EXCEPT ![t] = Tail(q)] /\ TaskEnds(i, "ok")
      BY <1>2, <2>3 DEF AddBody, t
    <3>2. TasksEnd({i}, "ok") /\ "ok" \in Finished
      BY <3>1 DEF TaskEnds, Finished
    <3>3. t \in broker
      <4>1. ~Subscribing(t) /\ ~AppBusy(t)
        <5>1. CASE queue[t] = <<>>
          BY <1>0, <5>1, GuardFree DEF TopicOK
        <5>2. CASE First(queue[t], <<"add", i>>)
          <6>1. /\ \A j \in Requests : TopicOf[j] = t => (task[j] = "suback" => <<"add", i>> = <<"add", j>>)
                /\ AppBusy(t) => <<"add", i>> = AppOp
            BY <1>0, <5>2, HolderAlone DEF TopicOK
          <6> QED
            BY <1>2, <6>1, OpsDiffer DEF Subscribing
        <5> QED
          BY <1>2, <5>1, <5>2
      <4> QED
        BY <1>0, <2>3, <4>1 DEF TopicOK, Settled
    <3>4. TopicOK(t)' /\ Tail(q) \in Seq(Ops)
      BY <1>0, <1>1, <1>2, <2>1, <3>1, <3>2, <3>3, TaskEndTopic DEF t
    <3>5. \A j \in Requests : TopicOf[j] # t => task'[j] = task[j]
      BY <3>2 DEF TasksEnd, t
    <3> QED
      BY <1>0, <1>1, <2>1, <3>1, <3>4, <3>5, OneTopic DEF UpInv
  <2> QED
    BY <2>2, <2>3
<1>3. CASE AddStart(i)
  <2>1. CASE queue[t] = <<>> /\ AddBody(i, << <<"add", i>> >>)
    <3>1. << <<"add", i>> >> \in Seq(Ops) /\ task[i] # "suback"
      BY <1>0, <1>3 DEF AddStart
    <3> QED
      BY <1>2, <2>1, <3>1
  <2>2. CASE /\ queue[t] # <<>> /\ queue' = [queue EXCEPT ![t] = Append(queue[t], <<"add", i>>)]
             /\ task' = [task EXCEPT ![i] = "queued"] /\ UNCHANGED <<observers, broker>>
    <3> DEFINE x == <<"add", i>>
    <3>1. x \in Ops /\ x[1] # "remove" /\ (\A j : x = <<"add", j>> => i = j) /\ x # AppOp
      BY <1>0, OpsDiffer
    <3>2. x = <<"add", i>>
      OBVIOUS
    <3> HIDE DEF x
    <3>3. queue'[t] = Append(queue[t], x) /\ Append(queue[t], x) \in Seq(Ops)
      BY <1>0, <2>2, <3>1, <3>2 DEF QueueTypes
    <3>4. task[i] = "created" /\ \A j \in Requests : task'[j] = IF j = i THEN "queued" ELSE task[j]
      BY <1>3, <2>2 DEF AddStart, TypeOK
    <3>5. \A j \in Requests : /\ task'[j] = "suback" <=> task[j] = "suback"
                              /\ task'[j] = "queued" => task[j] = "queued" \/ x = <<"add", j>>
                              /\ task'[j] = "ok" => task[j] = "ok"
      BY <3>2, <3>4
    <3>6. \A j \in Requests : x = <<"add", j>> => pc'[j] # "calling"
      BY <1>1, <3>1
    <3>7. TopicOK(t)'
      BY <1>0, <1>1, <2>2, <3>1, <3>3, <3>5, <3>6, Joined
    <3>8. \A j \in Requests : TopicOf[j] # t => task'[j] = task[j]
      BY <3>4 DEF t
    <3>9. queue' = [queue EXCEPT ![t] = Append(queue[t], x)]
      BY <2>2, <3>2
    <3> QED
      BY <1>0, <1>1, <2>2, <3>3, <3>7, <3>8, <3>9, OneTopic DEF UpInv
  <2> QED
    BY <1>3, <2>1, <2>2 DEF AddStart, index, t
<1>4. CASE AddTurn(i)
  <2>1. task[i] = "queued" /\ Head(queue[t]) = <<"add", i>> /\ AddBody(i, queue[t])
    BY <1>4 DEF AddTurn, t
  <2>2. Has(queue[t], <<"add", i>>)
    BY <1>0, <2>1 DEF TopicOK, Guarded, t
  <2>3. queue[t] # <<>>
    BY <2>2, QueueEmpty
  <2>4. First(queue[t], <<"add", i>>)
    BY <1>0, <2>1, <2>3, QueueRelease DEF First
  <2> QED
    BY <1>0, <1>2, <2>1, <2>4
<1>5. CASE AddAck(i)
  <2>1. PICK verdict \in {"ok", "rejected"} :
            /\ TaskEnds(i, verdict) /\ task[i] = "suback" /\ queue' = [queue EXCEPT ![t] = Tail(queue[t])]
            /\ verdict = "ok" => broker' = broker \cup {t} /\ UNCHANGED observers
            /\ verdict = "rejected" => t \notin broker /\ observers' = observers \ {t} /\ UNCHANGED broker
    BY <1>5 DEF AddAck, t
  <2>2. TasksEnd({i}, verdict) /\ verdict \in Finished
    BY <2>1 DEF TaskEnds, Finished
  <2>3. First(queue[t], <<"add", i>>) /\ t \in observers /\ t \notin appsub
    BY <1>0, <2>1 DEF TopicOK, Guarded, t
  <2>4. TopicOK(t)' /\ Tail(queue[t]) \in Seq(Ops)
    BY <1>0, <1>1, <2>1, <2>2, <2>3, TaskEndTopic DEF t
  <2>5. \A j \in Requests : TopicOf[j] # t => task'[j] = task[j]
    BY <2>2 DEF TasksEnd, t
  <2>6. \A u \in Topics : u # t => (u \in observers' <=> u \in observers) /\ (u \in broker' <=> u \in broker)
    BY <2>1
  <2> QED
    BY <1>0, <1>1, <2>1, <2>4, <2>5, <2>6, OneTopic DEF UpInv
<1> QED
  BY <1>3, <1>4, <1>5 DEF TaskStep

\* A call drops the interest of its topic while the connection is alive.
LEMMA DropSteps ==
    ASSUME TypeOK, Counts, UpInv, Alive, NEW r \in Requests, NEW i \in Requests, NEW status,
           pc[r] \notin {"removing", "unsuback"}, TopicOf[i] = TopicOf[r], InUse(i), task[i] = status,
           DropInterest(r, i, status), UNCHANGED <<appsub, app, broker>>
    PROVE  UpInv'
<1> DEFINE t == TopicOf[r]
           x == <<"remove", r>>
<1>0. /\ t \in Topics /\ QueueTypes /\ queue[t] \in Seq(Ops) /\ TopicOK(t) /\ topics[t] = i
      /\ x \in Ops /\ x # AppOp /\ (\A j : x # <<"add", j>>) /\ x = <<"remove", r>>
  BY KeyType, OpsDiffer DEF UpInv, QueueTypes, InUse
<1>1. /\ topics' = [topics EXCEPT ![t] = None]
      /\ \A j \in Requests : task'[j] = task[j] \/ (j = i /\ task'[j] = "none")
  BY DEF DropInterest, TypeOK
<1>2. topics'[t] = None /\ None \notin Requests /\ \A u \in Topics : u # t => topics'[u] = topics[u]
  BY <1>0, <1>1, NoneAssumption DEF TypeOK
<1>3. \A j \in Requests : TopicOf[j] # t => task'[j] = task[j]
  BY <1>1
<1>4. PICK w \in {"done", "removing", "unsuback"} : pc' = [pc EXCEPT ![r] = w]
  BY DropEffect
<1>5. \A j \in Requests : pc'[j] = IF j = r THEN w ELSE pc[j]
  BY <1>4 DEF TypeOK
<1>6. CASE ~Removes(status)
  <2>1. UNCHANGED <<observers, queue>> /\ pc' = [pc EXCEPT ![r] = "done"]
    BY <1>6 DEF DropInterest, Ends, Waits
  <2>2. \A j \in Requests : pc'[j] = IF j = r THEN "done" ELSE pc[j]
    BY <2>1 DEF TypeOK
  <2>3. ASSUME NEW u \in Topics PROVE TopicOK(u)'
    <3>1. topics'[u] \in Requests => topics'[u] = topics[u] /\ TopicOf[topics'[u]] = u
      BY <1>2, NoneAssumption DEF Counts, CountedAt
    <3>2. \A j \in Requests : task[j] = "suback" => task'[j] = "suback"
      BY <1>6, <2>1 DEF DropInterest, TypeOK, Finished
    <3> QED
      BY <1>1, <2>1, <2>2, <3>1, <3>2, TopicKept DEF UpInv
  <2> QED
    BY <1>0, <2>1, <2>3 DEF UpInv, QueueTypes
<1>7. CASE Removes(status)
  <2>1. t \in observers /\ t \in broker /\ status = "ok"
    BY <1>0, <1>7 DEF Removes, TopicOK, Served
  <2>2. CASE queue[t] = <<>> /\ RemoveBody(r, <<x>>)
    <3>1. /\ \A j \in Requests : TopicOf[j] = t =>
                task[j] \notin {"suback", "queued"} /\ pc[j] \notin {"removing", "unsuback"}
      BY <1>0, <2>2, GuardFree DEF TopicOK
    <3>2. observers' = observers \ {t} /\ \A u \in Topics : u # t => (u \in observers' <=> u \in observers)
      BY <2>2 DEF RemoveBody
    <3>3. CASE t \notin appsub
      <4>1. queue' = [queue EXCEPT ![t] = <<x>>] /\ pc' = [pc EXCEPT ![r] = "unsuback"]
        BY <2>1, <2>2, <3>3 DEF RemoveBody, Waits
      <4>2. \A j \in Requests : pc'[j] = IF j = r THEN "unsuback" ELSE pc[j]
        BY <4>1 DEF TypeOK
      <4>3. queue'[t] = <<x>> /\ <<x>> \in Seq(Ops)
        BY <1>0, <4>1 DEF QueueTypes
      <4>4. \A j \in Requests : task'[j] \in {"ok", "queued", "suback"} => task'[j] = task[j]
        BY <1>1
      <4>5. TopicOK(t)'
        BY <1>0, <1>2, <2>2, <3>2, <3>3, <4>2, <4>3, <4>4, RemoveAsks
      <4> HIDE DEF t, x
      <4>6. \A j \in Requests : TopicOf[j] # t => pc'[j] = pc[j]
        BY <4>2 DEF t
      <4>7. PICK s \in Seq(Ops) : s = <<x>>
        BY <4>3
      <4>8. queue' = [queue EXCEPT ![t] = s] /\ \A j \in Requests : pc'[j] = "calling" => pc[j] = "calling"
        BY <4>1, <4>2, <4>7
      <4> QED
        BY <1>0, <1>2, <1>3, <3>2, <4>5, <4>6, <4>8, OneTopic DEF UpInv
    <3>4. CASE t \in appsub
      <4>1. queue' = [queue EXCEPT ![t] = Tail(<<x>>)] /\ pc' = [pc EXCEPT ![r] = "done"]
        BY <2>1, <2>2, <3>4 DEF RemoveBody, Waits, Ends
      <4>2. \A j \in Requests : pc'[j] = IF j = r THEN "done" ELSE pc[j]
        BY <4>1 DEF TypeOK
      <4>3. queue' = [queue EXCEPT ![t] = <<>>] /\ queue'[t] = <<>> /\ <<>> \in Seq(Ops)
        BY <1>0, <4>1, QueueAlone, QueueEmpty DEF QueueTypes
      <4>4. \A j \in Requests : TopicOf[j] = t =>
               task'[j] \notin {"queued", "suback"} /\ pc'[j] \notin {"removing", "unsuback"}
        BY <1>1, <3>1, <4>2
      <4>5. TopicOK(t)'
        BY <1>0, <1>2, <2>1, <2>2, <3>2, <4>3, <4>4, Passed
      <4> HIDE DEF t, x
      <4>6. \A j \in Requests : TopicOf[j] # t => pc'[j] = pc[j]
        BY <4>2 DEF t
      <4> QED
        BY <1>0, <1>2, <1>3, <3>2, <4>2, <4>3, <4>5, <4>6, OneTopic DEF UpInv
    <3> QED
      BY <3>3, <3>4
  <2>3. CASE /\ queue[t] # <<>> /\ queue' = [queue EXCEPT ![t] = Append(queue[t], x)]
             /\ pc' = [pc EXCEPT ![r] = "removing"] /\ UNCHANGED observers
    <3>1. \A j \in Requests : pc'[j] = IF j = r THEN "removing" ELSE pc[j]
      BY <2>3 DEF TypeOK
    <3>2. queue'[t] = Append(queue[t], x) /\ Append(queue[t], x) \in Seq(Ops)
      BY <1>0, <2>3 DEF QueueTypes
    <3>3. \A j \in Requests : /\ task'[j] = "suback" <=> task[j] = "suback"
                              /\ task'[j] = "queued" => task[j] = "queued"
      BY <1>1, <2>1
    <3>4. \A j \in Requests : /\ pc'[j] = "removing" => pc[j] = "removing" \/ x = <<"remove", j>>
                              /\ pc'[j] = "unsuback" => pc[j] = "unsuback"
                              /\ pc'[j] = "calling" => pc[j] = "calling"
      BY <1>0, <3>1
    <3> HIDE DEF t, x
    <3>5. TopicOK(t)'
      BY <1>0, <1>2, <2>3, <3>2, <3>3, <3>4, Joined
    <3>6. \A j \in Requests : TopicOf[j] # t => pc'[j] = pc[j]
      BY <3>1 DEF t
    <3> QED
      BY <1>0, <1>2, <1>3, <2>3, <3>2, <3>4, <3>5, <3>6, OneTopic DEF UpInv
  <2> QED
    BY <1>7, <2>2, <2>3 DEF DropInterest, Waits
<1> QED
  BY <1>6, <1>7

\* A removal lets go of the guard: its turn finds nothing to ask, or its UNSUBACK came or is not awaited.
LEMMA RemoveEnds ==
    ASSUME TypeOK, Counts, UpInv, NEW r \in Requests, NEW t \in Topics, t = TopicOf[r], pc[r] \in {"removing", "unsuback"},
           First(queue[t], <<"remove", r>>), queue' = [queue EXCEPT ![t] = Tail(queue[t])],
           pc' = [pc EXCEPT ![r] = "done"], UNCHANGED <<topics, task, appsub, app>>,
           observers' \in {observers, observers \ {t}}, broker' \in {broker, broker \ {t}},
           t \in observers' \/ t \in appsub => t \in broker'
    PROVE  UpInv'
<1> DEFINE o == <<"remove", r>>
<1>0. QueueTypes /\ TopicOK(t) /\ o # AppOp /\ (\A j : o # <<"add", j>>) /\ \A j : o = <<"remove", j>> => r = j
  BY OpsDiffer DEF UpInv
<1>1. \A j \in Requests : pc'[j] = IF j = r THEN "done" ELSE pc[j]
  BY DEF TypeOK
<1>2. ~(topics[t] \in Requests /\ task[topics[t]] = "ok")
  BY <1>0 DEF TopicOK, Served
<1> HIDE DEF o
<1>3. First(queue[t], o) /\ Tail(queue[t]) \in Seq(Ops) /\ queue'[t] = Tail(queue[t])
  BY <1>0, QueueRelease DEF QueueTypes, First, o
<1>4. TopicOK(t)'
  <2>1. \A j \in Requests : TopicOf[j] = t =>
               /\ task'[j] \in {"queued", "suback"} => task'[j] = task[j] /\ o # <<"add", j>>
               /\ pc'[j] \in {"removing", "unsuback"} => pc'[j] = pc[j] /\ o # <<"remove", j>>
    BY <1>0, <1>1
  <2>2. \A q \in Requests : pc'[q] = "calling" => pc[q] = "calling"
    BY <1>1
  <2> QED
    BY <1>0, <1>2, <1>3, <2>1, <2>2, Released
<1>5. \A u \in Topics : u # t => (u \in observers' <=> u \in observers) /\ (u \in broker' <=> u \in broker)
  OBVIOUS
<1>6. \A q \in Requests : (pc'[q] = "calling" => pc[q] = "calling") /\ (TopicOf[q] # t => pc'[q] = pc[q])
  BY <1>1
<1> QED
  BY <1>0, <1>3, <1>4, <1>5, <1>6, OneTopic DEF UpInv

\* A removal gives up its place in the queue.
LEMMA RemoveCancelled ==
    ASSUME TypeOK, Counts, UpInv, NEW r \in Requests, CancelRemove(r)
    PROVE  UpInv'
<1> DEFINE t == TopicOf[r]
           o == <<"remove", r>>
<1>0. /\ t \in Topics /\ QueueTypes /\ TopicOK(t) /\ queue[t] \in Seq(Ops)
      /\ o # AppOp /\ (\A j : o # <<"add", j>>) /\ \A j : o = <<"remove", j>> => r = j
  BY KeyType, OpsDiffer DEF UpInv, QueueTypes
<1>1. /\ pc[r] = "removing" /\ pc' = [pc EXCEPT ![r] = "done"]
      /\ UNCHANGED <<topics, task, observers, appsub, app, broker>>
  BY DEF CancelRemove, Ends, Waits, interests, index
<1>2. PICK k \in DOMAIN queue[t] : queue[t][k] = o /\ queue' = [queue EXCEPT ![t] = RemoveAt(queue[t], k)]
  BY DEF CancelRemove
<1> HIDE DEF t, o
<1>3. \A j \in Requests : pc'[j] = IF j = r THEN "done" ELSE pc[j]
  BY <1>1 DEF TypeOK
<1>4. PICK s \in Seq(Ops) :
      /\ s = RemoveAt(queue[t], k)
      /\ \A p : Has(queue[t], p) /\ o # p => Has(s, p)
      /\ \A p : Has(s, p) => Has(queue[t], p)
      /\ \A p : First(queue[t], p) /\ o # p => First(s, p)
      /\ \A i : Ordered(queue[t], i) => Ordered(s, i)
  BY <1>0, <1>2, QueueLeave
<1>5. queue' = [queue EXCEPT ![t] = s] /\ queue'[t] = s
  BY <1>0, <1>2, <1>4 DEF QueueTypes
<1>6. Guarded(t)'
  <2>1. \A j \in Requests : TopicOf[j] = t =>
            /\ pc'[j] = "unsuback" => pc[j] = "unsuback" /\ o # <<"remove", j>>
            /\ pc'[j] = "removing" => pc[j] = "removing" /\ o # <<"remove", j>>
    BY <1>0, <1>3
  <2>2. /\ AppAt(t, {"queued"})' <=> AppAt(t, {"queued"})
        /\ AppAt(t, {"suback"})' <=> AppAt(t, {"suback"})
        /\ AppAt(t, {"unsuback"})' <=> AppAt(t, {"unsuback"})
        /\ AppBusy(t)' <=> AppBusy(t)
    BY <1>1 DEF AppBusy, AppAt
  <2> QED
    BY <1>0, <1>1, <1>4, <1>5, <2>1, <2>2 DEF TopicOK, Guarded
<1>7. Settled(t)'
  BY <1>0, <1>1 DEF TopicOK, Settled, Subscribing, AppBusy, AppAt
<1>8. Served(t)'
  BY <1>0, <1>1, <1>3, <1>4, <1>5 DEF TopicOK, Served
<1>9. TopicOK(t)'
  BY <1>6, <1>7, <1>8 DEF TopicOK
<1>10. \A q \in Requests : (pc'[q] = "calling" => pc[q] = "calling") /\ (TopicOf[q] # t => pc'[q] = pc[q])
  BY <1>3 DEF t
<1> QED
  BY <1>0, <1>1, <1>5, <1>9, <1>10, OneTopic DEF UpInv

\* A step that begins no operation on any topic.
LEMMA QuietTopics ==
    ASSUME TypeOK, Counts, Counts', UpInv, UNCHANGED <<queue, observers, appsub, broker, app>>,
           \A q \in Requests :
               /\ pc'[q] = "calling" => pc[q] = "calling"
               /\ pc'[q] \in {"removing", "unsuback"} => pc'[q] = pc[q]
               /\ task'[q] = "suback" <=> task[q] = "suback"
               /\ task'[q] = "queued" => task[q] = "queued"
               /\ task'[q] = "ok" => task[q] = "ok",
           \A t \in Topics : topics'[t] \in Requests =>
               topics'[t] = topics[t] \/ (pc[topics'[t]] = "calling" /\ task'[topics'[t]] # "ok")
    PROVE  UpInv'
<1>1. QueueTypes'
  BY DEF UpInv, QueueTypes
<1>2. ASSUME NEW t \in Topics PROVE TopicOK(t)'
  <2>1. topics'[t] \in Requests => TopicOf[topics'[t]] = t
    BY NoneAssumption DEF Counts, CountedAt
  <2>2. TopicOK(t)
    BY DEF UpInv
  <2> QED
    BY <2>1, <2>2, TopicKept
<1> QED
  BY <1>1, <1>2 DEF UpInv

\* A call in unregister() goes on.
LEMMA HolderSteps ==
    ASSUME TypeOK, Counts, Counts', TasksInv, UpInv, Alive, NEW r \in Requests, HolderStep(r)
    PROVE  UpInv'
<1> DEFINE t == TopicOf[r]
<1>0. t \in Topics /\ QueueTypes /\ queue[t] \in Seq(Ops) /\ TopicOK(t)
  BY KeyType DEF UpInv, QueueTypes
<1>1. pc[r] = "cleanup" => awaiting[r][1] \in Requests /\ TopicOf[awaiting[r][1]] = TopicOf[r]
  BY DEF Counts, CallOK
<1>2. CASE CleanupDone(r)
  <2>1. pc[r] = "cleanup" /\ awaiting[r][2] \in Finished /\ UNCHANGED <<appsub, app, broker>>
    BY <1>2 DEF CleanupDone
  <2>2. PICK i \in Requests : i = awaiting[r][1]
    BY <1>1, <2>1
  <2>3. CASE Unused(i) /\ DropInterest(r, i, awaiting[r][2])
    <3>1. InUse(i) /\ TopicOf[i] = TopicOf[r]
      BY <1>1, <2>1, <2>2, <2>3 DEF Unused, InUse
    <3>2. VerdictOK(r, i) /\ awaiting[r][2] # "none"
      BY <2>1 DEF TasksInv, Finished
    <3>3. task[i] = awaiting[r][2]
      BY <2>2, <3>1, <3>2 DEF VerdictOK
    <3> QED
      BY <2>1, <2>3, <3>1, <3>3, DropSteps
  <2>4. CASE Ends(r) /\ UNCHANGED <<topics, task, observers, queue>>
    <3>1. \A q \in Requests : pc'[q] = IF q = r THEN "done" ELSE pc[q]
      BY <2>4 DEF Ends, Waits, TypeOK
    <3> QED
      BY <2>1, <2>4, <3>1, QuietTopics
  <2> QED
    BY <1>2, <2>2, <2>3, <2>4 DEF CleanupDone
<1>3. CASE CancelCleanup(r)
  <2>1. /\ pc' = [pc EXCEPT ![r] = "done"] /\ UNCHANGED <<queue, observers, appsub, broker, app>>
        /\ \A q \in Requests : task'[q] = task[q] \/ (task[q] \in Finished /\ task'[q] = "none")
        /\ \A u \in Topics : topics'[u] = topics[u] \/ topics'[u] = None
    BY <1>3 DEF CancelCleanup, Ends, Waits, index, TypeOK
  <2>2. \A q \in Requests : pc'[q] = IF q = r THEN "done" ELSE pc[q]
    BY <2>1 DEF TypeOK
  <2>3. \A q \in Requests : /\ task'[q] = "suback" <=> task[q] = "suback"
                            /\ task'[q] = "queued" => task[q] = "queued"
                            /\ task'[q] = "ok" => task[q] = "ok"
    BY <2>1 DEF Finished
  <2> QED
    BY <2>1, <2>2, <2>3, NoneAssumption, QuietTopics
<1>4. CASE RemoveTurn(r)
  <2>1. /\ pc[r] = "removing" /\ Head(queue[t]) = <<"remove", r>> /\ RemoveBody(r, queue[t])
        /\ UNCHANGED <<topics, task, appsub, app, broker>>
    BY <1>4 DEF RemoveTurn, interests
  <2>2. queue[t] # <<>>
    <3>1. Has(queue[t], <<"remove", r>>)
      BY <1>0, <2>1 DEF TopicOK, Guarded
    <3> QED
      BY <3>1, QueueEmpty
  <2>3. First(queue[t], <<"remove", r>>)
    BY <1>0, <2>1, <2>2, QueueRelease DEF First
  <2>4. observers' = observers \ {t}
    BY <2>1 DEF RemoveBody
  <2>5. CASE t \in observers /\ t \notin appsub
    <3>1. queue' = [queue EXCEPT ![t] = queue[t]] /\ pc' = [pc EXCEPT ![r] = "unsuback"]
      BY <2>1, <2>5 DEF RemoveBody, Waits
    <3>2. \A j \in Requests : pc'[j] = IF j = r THEN "unsuback" ELSE pc[j]
      BY <3>1 DEF TypeOK
    <3>3. queue'[t] = queue[t]
      BY <1>0, <3>1 DEF QueueTypes
    <3>4. TopicOK(t)'
      BY <1>0, <2>1, <2>3, <2>4, <2>5, <3>2, <3>3, RemoveAsks
    <3>5. \A u \in Topics : u # t => (u \in observers' <=> u \in observers)
      BY <2>4
    <3>6. \A q \in Requests : (pc'[q] = "calling" => pc[q] = "calling") /\ (TopicOf[q] # t => pc'[q] = pc[q])
      BY <3>2
    <3> HIDE DEF t
    <3> QED
      BY <1>0, <2>1, <3>1, <3>4, <3>5, <3>6, OneTopic DEF UpInv
  <2>6. CASE ~(t \in observers /\ t \notin appsub)
    <3>1. queue' = [queue EXCEPT ![t] = Tail(queue[t])] /\ pc' = [pc EXCEPT ![r] = "done"]
      BY <2>1, <2>6 DEF RemoveBody, Waits, Ends
    <3>2. t \in appsub => t \in broker
      <4>1. /\ \A j \in Requests : TopicOf[j] = t => (task[j] = "suback" => <<"remove", r>> = <<"add", j>>)
            /\ AppBusy(t) => <<"remove", r>> = AppOp
        BY <1>0, <2>3, HolderAlone DEF TopicOK
      <4>2. ~Subscribing(t) /\ ~AppBusy(t)
        BY <4>1, OpsDiffer DEF Subscribing
      <4> QED
        BY <1>0, <4>2 DEF TopicOK, Settled
    <3> QED
      BY <1>0, <2>1, <2>3, <2>4, <2>6, <3>1, <3>2, RemoveEnds
  <2> QED
    BY <2>5, <2>6
<1>5. CASE RemoveAck(r) \/ CancelUnsuback(r)
  <2>1. /\ pc[r] = "unsuback" /\ UNCHANGED <<topics, task, observers, appsub, app>> /\ broker' = broker \ {t}
        /\ pc' = [pc EXCEPT ![r] = "done"] /\ queue' = [queue EXCEPT ![t] = Tail(queue[t])]
    BY <1>5 DEF RemoveAck, CancelUnsuback, Ends, Waits, interests, index
  <2>2. First(queue[t], <<"remove", r>>) /\ t \notin observers /\ t \notin appsub
    BY <1>0, <2>1 DEF TopicOK, Guarded
  <2> QED
    BY <1>0, <2>1, <2>2, RemoveEnds
<1>6. CASE CancelRemove(r)
  BY <1>6, RemoveCancelled
<1> QED
  BY <1>2, <1>3, <1>4, <1>5, <1>6 DEF HolderStep

\* A call registers, is refused or goes on to wait for its reply.
LEMMA EarlySteps ==
    ASSUME TypeOK, Counts, Counts', TasksInv, UpInv, NEW r \in Requests, IdleStep(r) \/ Register(r)
    PROVE  UpInv'
<1>0. UNCHANGED <<queue, observers, appsub, broker, app>>
  BY DEF IdleStep, Refuse, RegisterFails, ReadyDone, CancelEarly, Register, index
<1>1. PICK w \in {"done", "reply", "ready"} : pc' = [pc EXCEPT ![r] = w]
  BY DEF IdleStep, Refuse, RegisterFails, ReadyDone, CancelEarly, Register, Ends, Waits
<1>2. \A q \in Requests : pc'[q] = IF q = r THEN w ELSE pc[q]
  BY <1>1 DEF TypeOK
<1>3. CASE Refuse(r) \/ ReadyDone(r) \/ CancelEarly(r)
  <2>1. UNCHANGED <<topics, task>>
    BY <1>3 DEF Refuse, ReadyDone, CancelEarly, dispatcher, interests
  <2> QED
    BY <1>0, <1>2, <2>1, QuietTopics
<1>4. CASE RegisterFails(r)
  <2>1. /\ \A q \in Requests : task'[q] = task[q] \/ (task[q] \in Finished /\ task'[q] = "none")
        /\ \A u \in Topics : topics'[u] = topics[u] \/ topics'[u] = None
    BY <1>4 DEF RegisterFails, TypeOK
  <2>2. \A q \in Requests : /\ task'[q] = "suback" <=> task[q] = "suback"
                            /\ task'[q] = "queued" => task[q] = "queued"
                            /\ task'[q] = "ok" => task[q] = "ok"
    BY <2>1 DEF Finished
  <2> QED
    BY <1>0, <1>2, <2>1, <2>2, NoneAssumption, QuietTopics
<1>5. CASE Register(r)
  <2> DEFINE i == IF topics[TopicOf[r]] = None THEN r ELSE topics[TopicOf[r]]
  <2>1. /\ topics' = [topics EXCEPT ![TopicOf[r]] = i] /\ pc[r] = "calling"
        /\ task' = [task EXCEPT ![i] = IF @ = "none" THEN "created" ELSE @]
    BY <1>5 DEF Register
  <2>2. \A q \in Requests : task'[q] = task[q] \/ (task[q] = "none" /\ task'[q] = "created")
    BY <2>1 DEF TypeOK
  <2>3. \A u \in Topics : topics'[u] = topics[u] \/ topics'[u] = r
    BY <2>1 DEF TypeOK
  <2>4. task'[r] # "ok"
    BY <2>1, <2>2 DEF TasksInv, FreshCall
  <2>5. \A q \in Requests : /\ task'[q] = "suback" <=> task[q] = "suback"
                            /\ task'[q] = "queued" => task[q] = "queued"
                            /\ task'[q] = "ok" => task[q] = "ok"
    BY <2>2
  <2> QED
    BY <1>0, <1>2, <2>1, <2>3, <2>4, <2>5, QuietTopics
<1> QED
  BY <1>3, <1>4, <1>5 DEF IdleStep

\* A call leaves.
LEMMA LeaveSteps ==
    ASSUME TypeOK, Counts, Counts', UpInv, Alive, NEW r \in Requests, pc[r] \in {"ready", "reply"}, Leave(r)
    PROVE  UpInv'
<1> DEFINE i == topics[TopicOf[r]]
<1>0. UNCHANGED <<appsub, app, broker>>
  BY DEF Leave
<1>1. ASSUME NEW w \in {"done", "cleanup"}, pc' = [pc EXCEPT ![r] = w], UNCHANGED <<topics, task, observers, queue>>
      PROVE  UpInv'
  <2>1. \A q \in Requests : pc'[q] = IF q = r THEN w ELSE pc[q]
    BY <1>1 DEF TypeOK
  <2> QED
    BY <1>0, <1>1, <2>1, QuietTopics
<1>2. CASE ~Registered(r)
  <2>1. pc' = [pc EXCEPT ![r] = "done"] /\ UNCHANGED <<topics, task, observers, queue>>
    BY <1>2 DEF Leave, Ends, Waits, dispatcher, interests
  <2> QED
    BY <1>1, <2>1
<1>3. CASE Registered(r)
  <2>1. i \in Requests /\ TopicOf[i] = TopicOf[r] /\ InUse(i)
    <3>1. TopicOf[r] \in Topics /\ CountedAt(TopicOf[r]) /\ r \in Users(TopicOf[r])
      BY <1>3, KeyType DEF Counts, Users
    <3> QED
      BY <3>1 DEF CountedAt, TypeOK, InUse
  <2>2. \/ \E w \in {"done", "cleanup"} : pc' = [pc EXCEPT ![r] = w] /\ UNCHANGED <<topics, task, observers, queue>>
        \/ DropInterest(r, i, task[i])
    BY <1>3 DEF Leave, Ends, Waits
  <2> HIDE DEF i
  <2>3. CASE DropInterest(r, i, task[i])
    BY <1>0, <2>1, <2>3, DropSteps
  <2> QED
    BY <1>1, <2>2, <2>3
<1> QED
  BY <1>2, <1>3

\* The tasks, the responses, the application and restore() on a live connection.
LEMMA OtherSteps ==
    ASSUME TypeOK, Counts, Counts', TasksInv, UpInv, Alive, OtherStep
    PROVE  UpInv' /\ UNCHANGED client
<1>0. UNCHANGED <<topics, pc>>
  BY OtherKeeps
<1>1. ASSUME UNCHANGED <<queue, observers, appsub, broker, app>>,
             \A q \in Requests : task'[q] = task[q] \/ (task[q] = "none" /\ task'[q] = "created")
      PROVE  UpInv'
  <2>1. \A q \in Requests : /\ task'[q] = "suback" <=> task[q] = "suback"
                            /\ task'[q] = "queued" => task[q] = "queued"
                            /\ task'[q] = "ok" => task[q] = "ok"
    BY <1>1
  <2> QED
    BY <1>0, <1>1, <2>1, QuietTopics
<1>2. ASSUME NEW r \in Requests, TaskStep(r) PROVE UpInv' /\ UNCHANGED client
  <2>1. UNCHANGED client
    BY <1>2 DEF TaskStep, AddStart, AddTurn, AddBody, AddAck, link
  <2> QED
    BY <1>2, <2>1, TaskSteps
<1>3. ASSUME NEW r \in Requests, NEW g, Claim(r) \/ Complete(r, g) PROVE UpInv' /\ UNCHANGED client
  <2>1. UNCHANGED <<queue, observers, appsub, broker, app, task, client>>
    BY <1>3 DEF Claim, Complete, interests, index, link
  <2> QED
    BY <1>1, <2>1
<1>4. ASSUME NEW t \in AppTopics, NEW kind \in {"subscribe", "unsubscribe"}, AppCall(kind, t)
      PROVE  UpInv' /\ UNCHANGED client
  <2>1. UNCHANGED client
    BY <1>4 DEF AppCall, link
  <2> QED
    BY <1>4, <2>1, AppSteps
<1>5. CASE AppTurn \/ AppAck
  <2>1. UNCHANGED client
    BY <1>5 DEF AppTurn, AppAck, link
  <2> QED
    BY <1>5, <2>1, AppSteps
<1>6. CASE RestoreStart \/ RestoreNext
  <2>1. UNCHANGED <<queue, observers, appsub, broker, app, client>>
    BY <1>6 DEF RestoreStart, RestoreNext, index, link
  <2>2. \A q \in Requests : task'[q] = task[q] \/ (task[q] = "none" /\ task'[q] = "created")
    BY <1>6 DEF RestoreStart, RestoreNext, interests, TypeOK
  <2> QED
    BY <1>1, <2>1, <2>2
<1>7. ~Bind
  BY DEF Bind, Alive
<1> QED
  BY <1>2, <1>3, <1>4, <1>5, <1>6, <1>7 DEF OtherStep

-----------------------------------------------------------------------------
\* The end of a connection leaves nothing of it.
LEMMA TeardownQuiescent ==
    ASSUME TypeOK, NEW next, Teardown(next)
    PROVE  Quiescent'
<1>1. /\ observers' = {} /\ appsub' = {} /\ app' = NoApp /\ queue' = [t \in Topics |-> <<>>]
      /\ \A r \in Requests : pc'[r] \notin {"removing", "unsuback"}
  BY DEF Teardown
<1>2. \A r \in Requests : task'[r] \notin {"queued", "suback"}
  BY DEF Teardown, TasksEnd, TypeOK
<1> QED
  BY <1>1, <1>2 DEF Quiescent

\* bind() starts with every guard free and no topic made ready.
LEMMA BindTopics ==
    ASSUME TypeOK, Counts, Quiescent, Bind
    PROVE  UpInv'
<1>1. /\ UNCHANGED <<topics, pc, observers, appsub, queue, app, broker>>
      /\ \A q \in Requests : task'[q] = IF InUse(q) THEN "none" ELSE task[q]
  BY KnownInUse DEF Bind, dispatcher, index
<1>2. /\ observers' = {} /\ appsub' = {} /\ app' = NoApp /\ queue' = [t \in Topics |-> <<>>]
      /\ \A r \in Requests : pc'[r] \notin {"removing", "unsuback"} /\ task'[r] \notin {"queued", "suback"}
  BY <1>1 DEF Quiescent
<1>3. QueueTypes'
  BY <1>2, QueueEmpty DEF QueueTypes, NoApp
<1>4. ASSUME NEW t \in Topics PROVE TopicOK(t)'
  <2>1. queue'[t] = <<>>
    BY <1>2
  <2>2. ~AppBusy(t)' /\ ~AppAt(t, {"queued"})' /\ ~AppAt(t, {"suback"})' /\ ~AppAt(t, {"unsuback"})'
    BY <1>2 DEF AppBusy, AppAt, NoApp
  <2>3. Guarded(t)'
    BY <1>2, <2>2 DEF Guarded
  <2>4. Settled(t)'
    BY <1>2 DEF Settled
  <2>5. topics'[t] \in Requests => task'[topics'[t]] # "ok"
    <3>1. topics[t] \in Requests => InUse(topics[t])
      BY NoneAssumption DEF Counts, CountedAt, InUse
    <3> QED
      BY <1>1, <3>1
  <2>6. Served(t)'
    BY <2>1, <2>5, QueueEmpty DEF Served
  <2> QED
    BY <2>3, <2>4, <2>6 DEF TopicOK
<1> QED
  BY <1>3, <1>4 DEF UpInv

\* Between two connections a call that drops an interest ends, for want of a connection.
LEMMA LostDrop ==
    ASSUME TypeOK, Quiescent, ~Alive, NEW r \in Requests, NEW i, NEW status, DropInterest(r, i, status),
           UNCHANGED <<appsub, app>>
    PROVE  Quiescent'
<1> DEFINE t == TopicOf[r]
           x == <<"remove", r>>
<1>0. t \in Topics /\ queue[t] = <<>> /\ x \in Ops
  BY KeyType, OpsDiffer DEF Quiescent
<1>1. \A q \in Requests : task'[q] \notin {"queued", "suback"}
  BY DEF DropInterest, Quiescent, TypeOK
<1>2. pc' = [pc EXCEPT ![r] = "done"] /\ observers' = {} /\ queue' = [u \in Topics |-> <<>>]
  <2>1. CASE ~Removes(status)
    BY <2>1 DEF DropInterest, Ends, Waits, Quiescent
  <2>2. CASE Removes(status)
    <3>1. RemoveBody(r, <<x>>)
      BY <1>0, <2>2 DEF DropInterest
    <3>2. queue' = [queue EXCEPT ![t] = Tail(<<x>>)] /\ Tail(<<x>>) = <<>>
      BY <1>0, <3>1, QueueAlone DEF RemoveBody
    <3>3. queue' = [u \in Topics |-> <<>>]
      BY <1>0, <3>2 DEF Quiescent
    <3> QED
      BY <3>1, <3>3 DEF RemoveBody, Ends, Waits, Quiescent
  <2> QED
    BY <2>1, <2>2
<1> QED
  BY <1>1, <1>2 DEF Quiescent, TypeOK

\* Nothing that happens between two connections concerns the next one.
LEMMA LostSteps ==
    ASSUME TypeOK, Counts, TasksInv, Quiescent, client = "lost",
           \/ \E r \in Requests : \/ IdleStep(r) \/ Register(r) \/ HolderStep(r)
                                  \/ pc[r] \in {"ready", "reply"} /\ Leave(r)
           \/ OtherStep /\ ~Bind
    PROVE  Quiescent'
<1>0. ~Alive
  BY DEF Alive
<1>1. ASSUME UNCHANGED <<observers, appsub, app, queue>>,
             \A q \in Requests :
                /\ pc'[q] \in {"removing", "unsuback"} => pc'[q] = pc[q]
                /\ task'[q] \in {"queued", "suback"} => task'[q] = task[q]
      PROVE  Quiescent'
  BY <1>1 DEF Quiescent
<1>2. ASSUME NEW r \in Requests, NEW w, w \notin {"removing", "unsuback"}, pc' = [pc EXCEPT ![r] = w],
             UNCHANGED <<observers, appsub, app, queue>>,
             \A q \in Requests : task'[q] \in {"queued", "suback"} => task'[q] = task[q]
      PROVE  Quiescent'
  <2>1. \A q \in Requests : pc'[q] = IF q = r THEN w ELSE pc[q]
    BY <1>2 DEF TypeOK
  <2> QED
    BY <1>1, <1>2, <2>1
<1>3. ASSUME NEW r \in Requests, IdleStep(r) \/ Register(r) PROVE Quiescent'
  <2>1. UNCHANGED <<observers, appsub, app, queue>>
    BY <1>3 DEF IdleStep, Refuse, RegisterFails, ReadyDone, CancelEarly, Register, index
  <2>2. \E w \in {"done", "reply", "ready"} : pc' = [pc EXCEPT ![r] = w]
    BY <1>3 DEF IdleStep, Refuse, RegisterFails, ReadyDone, CancelEarly, Register, Ends, Waits
  <2>3. \A q \in Requests : task'[q] \in {"queued", "suback"} => task'[q] = task[q]
    <3>1. CASE Refuse(r) \/ ReadyDone(r) \/ CancelEarly(r)
      BY <3>1 DEF Refuse, ReadyDone, CancelEarly, interests
    <3>2. CASE RegisterFails(r)
      BY <3>2 DEF RegisterFails, TypeOK
    <3>3. CASE Register(r)
      BY <3>3 DEF Register, TypeOK
    <3> QED
      BY <1>3, <3>1, <3>2, <3>3 DEF IdleStep
  <2> QED
    BY <1>2, <2>1, <2>2, <2>3
<1>4. ASSUME NEW r \in Requests, HolderStep(r) PROVE Quiescent'
  <2>1. pc[r] \notin {"removing", "unsuback"}
    BY DEF Quiescent
  <2>2. CASE CleanupDone(r)
    <3>1. UNCHANGED <<appsub, app>>
      BY <2>2 DEF CleanupDone
    <3>2. \/ \E i, status : DropInterest(r, i, status)
          \/ Ends(r) /\ UNCHANGED <<task, observers, queue>>
      BY <2>2 DEF CleanupDone
    <3>3. CASE Ends(r) /\ UNCHANGED <<task, observers, queue>>
      BY <1>2, <3>1, <3>3 DEF Ends, Waits
    <3> QED
      BY <1>0, <3>1, <3>2, <3>3, LostDrop
  <2>3. CASE CancelCleanup(r)
    <3>1. pc' = [pc EXCEPT ![r] = "done"] /\ UNCHANGED <<observers, appsub, app, queue>>
      BY <2>3 DEF CancelCleanup, Ends, Waits, index
    <3>2. \A q \in Requests : task'[q] \in {"queued", "suback"} => task'[q] = task[q]
      BY <2>3 DEF CancelCleanup, TypeOK
    <3> QED
      BY <1>2, <3>1, <3>2
  <2> QED
    BY <1>4, <2>1, <2>2, <2>3 DEF HolderStep, RemoveTurn, RemoveAck, CancelRemove, CancelUnsuback
<1>5. ASSUME NEW r \in Requests, Leave(r) PROVE Quiescent'
  <2>1. UNCHANGED <<appsub, app>>
    BY <1>5 DEF Leave
  <2>2. \/ \E i, status : DropInterest(r, i, status)
        \/ \E w \in {"done", "cleanup"} : pc' = [pc EXCEPT ![r] = w] /\ UNCHANGED <<task, observers, queue>>
    BY <1>5 DEF Leave, Ends, Waits, interests
  <2>3. ASSUME NEW w \in {"done", "cleanup"}, pc' = [pc EXCEPT ![r] = w], UNCHANGED <<task, observers, queue>>
        PROVE  Quiescent'
    BY <1>2, <2>1, <2>3
  <2> QED
    BY <1>0, <2>1, <2>2, <2>3, LostDrop
<1>6. CASE OtherStep /\ ~Bind
  <2>0. UNCHANGED pc
    BY <1>6, OtherKeeps
  <2>1. ASSUME NEW i \in Requests, TaskStep(i) PROVE Quiescent'
    <3>1. /\ task[i] = "created" /\ TopicOf[i] \in Topics /\ queue[TopicOf[i]] = <<>> /\ AddBody(i, << <<"add", i>> >>)
      BY <1>0, <2>1, KeyType DEF Quiescent, TaskStep, AddStart, AddTurn, AddAck
    <3>2. /\ UNCHANGED <<observers, appsub, app>> /\ TaskEnds(i, "disconnected")
          /\ queue' = [queue EXCEPT ![TopicOf[i]] = Tail(<< <<"add", i>> >>)]
      BY <1>0, <3>1 DEF AddBody
    <3>3. Tail(<< <<"add", i>> >>) = <<>>
      BY OpsDiffer, QueueAlone
    <3>4. queue' = [u \in Topics |-> <<>>]
      BY <3>1, <3>2, <3>3 DEF Quiescent
    <3>5. \A q \in Requests : task'[q] \in {"queued", "suback"} => task'[q] = task[q]
      BY <3>2 DEF TaskEnds, TasksEnd
    <3> QED
      BY <2>0, <3>2, <3>4, <3>5 DEF Quiescent
  <2>2. ASSUME NEW r, NEW g, Claim(r) \/ Complete(r, g) PROVE Quiescent'
    <3>1. UNCHANGED <<observers, appsub, app, queue, task>>
      BY <2>2 DEF Claim, Complete, interests, index
    <3> QED
      BY <1>1, <2>0, <3>1
  <2>3. ~AppTurn /\ ~AppAck /\ (\A kind, t : ~AppCall(kind, t)) /\ ~RestoreStart /\ ~RestoreNext
    BY <1>0 DEF AppTurn, AppAck, AppCall, RestoreStart, RestoreNext, Quiescent, NoApp
  <2> QED
    BY <1>6, <2>1, <2>2, <2>3 DEF OtherStep
<1> QED
  BY <1>3, <1>4, <1>5, <1>6

\* Every step keeps the guards and the topics in order.
LEMMA HeardStep ==
    ASSUME TypeOK, Counts, TasksInv, HeardInv, [Next]_vars
    PROVE  HeardInv'
<1>0. Counts'
  BY CountsStep
<1>1. ASSUME NEW r \in Requests, IdleStep(r) \/ Register(r) \/ HolderStep(r) \/ (pc[r] \in {"ready", "reply"} /\ Leave(r))
      PROVE  HeardInv'
  <2>1. UNCHANGED client
    <3>1. CASE IdleStep(r) \/ Register(r)
      BY <3>1 DEF IdleStep, Refuse, RegisterFails, ReadyDone, CancelEarly, Register, link
    <3>2. CASE HolderStep(r)
      BY <3>2 DEF HolderStep, CleanupDone, RemoveTurn, RemoveAck, CancelCleanup, CancelRemove, CancelUnsuback, link
    <3>3. CASE Leave(r)
      BY <3>3 DEF Leave, link
    <3> QED
      BY <1>1, <3>1, <3>2, <3>3
  <2>2. CASE Alive
    <3>1. UpInv
      BY <2>2 DEF HeardInv
    <3>2. UpInv'
      BY <1>0, <1>1, <2>2, <3>1, EarlySteps, HolderSteps, LeaveSteps
    <3> QED
      BY <2>1, <2>2, <3>2 DEF HeardInv, Alive
  <2>3. CASE client = "lost"
    <3>1. Quiescent'
      BY <1>1, <2>3, LostSteps DEF HeardInv
    <3> QED
      BY <2>1, <2>3, <3>1 DEF HeardInv, Alive
  <2> QED
    BY <2>1, <2>2, <2>3 DEF HeardInv, Alive
<1>2. CASE OtherStep
  <2>1. CASE Alive
    <3>1. UpInv
      BY <2>1 DEF HeardInv
    <3>2. UpInv' /\ UNCHANGED client
      BY <1>0, <1>2, <2>1, <3>1, OtherSteps
    <3> QED
      BY <2>1, <3>2 DEF HeardInv, Alive
  <2>2. CASE Bind
    <3>1. Quiescent /\ client' = "up"
      BY <2>2 DEF HeardInv, Bind
    <3>2. UpInv'
      BY <2>2, <3>1, BindTopics
    <3> QED
      BY <3>1, <3>2 DEF HeardInv
  <2>3. CASE ~Alive /\ ~Bind
    <3>1. UNCHANGED client
      BY <1>2, <2>3 DEF OtherStep, TaskStep, AddStart, AddTurn, AddBody, AddAck, Claim, Complete, AppCall, AppTurn,
                        AppAck, RestoreStart, RestoreNext, link
    <3>2. client = "lost" => Quiescent'
      BY <1>2, <2>3, LostSteps DEF HeardInv
    <3> QED
      BY <2>3, <3>1, <3>2 DEF HeardInv, Alive
  <2> QED
    BY <2>1, <2>2, <2>3
<1>3. ASSUME NEW next \in {"lost", "failed", "stopped"}, Teardown(next) PROVE HeardInv'
  <2>1. client' = next
    BY <1>3 DEF Teardown
  <2>2. Quiescent'
    BY <1>3, TeardownQuiescent
  <2> QED
    BY <2>1, <2>2 DEF HeardInv, Alive
<1>4. CASE Stop
  BY <1>4 DEF Stop, HeardInv, Alive
<1>5. CASE UNCHANGED vars
  <2>1. UNCHANGED <<client, queue, observers, appsub, broker, app, pc, task, topics>>
    BY <1>5 DEF vars, dispatcher, interests, link, index
  <2>2. UpInv => UpInv'
    BY <1>0, <2>1, QuietTopics
  <2>3. Quiescent => Quiescent'
    BY <2>1 DEF Quiescent
  <2> QED
    BY <2>1, <2>2, <2>3 DEF HeardInv, Alive
<1> QED
  BY <1>1, <1>2, <1>3, <1>4, <1>5, NextCases

(***************************************************************************)
(* A request that waits for its reply on a topic that was made ready is    *)
(* heard: its observer is in the index and the broker has the topic,       *)
(* whatever other requests of the topic and the application's own          *)
(* subscribe() and unsubscribe() do, and in whatever order they get the    *)
(* topic's guard.                                                          *)
(***************************************************************************)
THEOREM WaitersHear == Spec => []WaitersAreHeard
<1>1. Init => HeardInv
  <2> SUFFICES ASSUME Init PROVE HeardInv
    OBVIOUS
  <2>1. QueueTypes
    BY QueueEmpty DEF Init, QueueTypes, NoApp
  <2>2. ASSUME NEW t \in Topics PROVE TopicOK(t)
    <3>1. queue[t] = <<>> /\ topics[t] \notin Requests
      BY NoneAssumption DEF Init
    <3>2. ~AppBusy(t) /\ ~AppAt(t, {"queued"}) /\ ~AppAt(t, {"suback"}) /\ ~AppAt(t, {"unsuback"})
      BY DEF Init, AppBusy, AppAt, NoApp
    <3>3. Guarded(t)
      BY <3>2 DEF Init, Guarded
    <3>4. Settled(t) /\ Served(t)
      BY <3>1, QueueEmpty DEF Init, Settled, Served
    <3> QED
      BY <3>3, <3>4 DEF TopicOK
  <2> QED
    BY <2>1, <2>2 DEF Init, HeardInv, UpInv
<1>2. TypeOK /\ Counts /\ TasksInv /\ HeardInv /\ [Next]_vars => HeardInv'
  BY HeardStep
<1>3. TypeOK /\ Counts /\ HeardInv => WaitersAreHeard
  <2> SUFFICES ASSUME TypeOK, Counts, HeardInv, NEW r \in Requests, Alive, Registered(r),
                      task[topics[TopicOf[r]]] = "ok"
               PROVE  TopicOf[r] \in observers /\ TopicOf[r] \in broker
    BY DEF WaitersAreHeard
  <2>1. TopicOf[r] \in Topics /\ CountedAt(TopicOf[r]) /\ r \in Users(TopicOf[r])
    BY KeyType DEF Counts, Users
  <2>2. topics[TopicOf[r]] \in Requests
    BY <2>1 DEF CountedAt, TypeOK
  <2> QED
    BY <2>1, <2>2 DEF HeardInv, UpInv, TopicOK, Served
<1> QED
  BY <1>1, <1>2, <1>3, DispatcherInvariant, TasksInvariant, PTL DEF Spec
=============================================================================
