------------------------- MODULE MQTTProtocolProofs -------------------------
(***************************************************************************)
(* Theorems about one connection, for every set of tasks, every size of    *)
(* the identifier space, every choice of what may be cancelled and how the *)
(* connection may be lost, and a broker that may send anything.            *)
(***************************************************************************)
EXTENDS MQTTProtocol, SequencesExt, FiniteSetTheorems, WellFoundedInduction, SequenceTheorems, TLAPS

-----------------------------------------------------------------------------
(* The allocator: what acquire() and release() do, for every size of the   *)
(* identifier space.                                                       *)

(***************************************************************************)
(* A non-empty set of natural numbers has a least element.                 *)
(***************************************************************************)
LEMMA LeastElement ==
    ASSUME NEW S \in SUBSET Nat, S # {}
    PROVE  Min(S) \in S /\ \A y \in S : Min(S) <= y
<1> DEFINE R == OpToRel(<, Nat)
<1>1. IsWellFoundedOn(R, Nat)
  BY NatLessThanWellFounded
<1>2. \E x \in S : \A y \in S : ~(<<y, x>> \in R)
  <2> HIDE DEF R
  <2> QED BY <1>1, WFMin
<1>3. \A x, y \in Nat : y < x => <<y, x>> \in R
  BY DEF OpToRel
<1>4. \E x \in S : \A y \in S : x =< y
  <2>1. PICK x \in S : \A y \in S : ~(<<y, x>> \in R)
    BY <1>2
  <2>2. \A y \in S : ~(y < x)
    BY <1>3, <2>1
  <2> QED
    BY <2>2
<1> QED
  BY <1>4 DEF Min

(***************************************************************************)
(* When acquire() does not raise, there is a free identifier.              *)
(***************************************************************************)
LEMMA FreeWhenNotExhausted ==
    ASSUME NEW p \in Pools, CanAcquire(p)
    PROVE  FreeIds(p) # {}
<1>1. Cardinality(PacketIds) = MaxPacketId
  BY FS_Interval, MaxPacketIdAssumption DEF PacketIds
<1>2. p.inUse \subseteq PacketIds
  BY DEF Pools
<1>3. p.inUse # PacketIds
  BY <1>1, MaxPacketIdAssumption DEF CanAcquire
<1> QED
  BY <1>2, <1>3 DEF FreeIds

(***************************************************************************)
(* acquire() returns an identifier that nobody holds.                      *)
(***************************************************************************)
LEMMA AcquireIsFresh ==
    ASSUME NEW p \in Pools, CanAcquire(p)
    PROVE  /\ FirstFree(p) \in PacketIds
           /\ FirstFree(p) \notin p.inUse
<1> DEFINE ahead == {i \in FreeIds(p) : i >= p.next}
<1>1. FreeIds(p) \in SUBSET Nat /\ ahead \in SUBSET Nat /\ FreeIds(p) # {}
  BY FreeWhenNotExhausted DEF FreeIds, PacketIds
<1>2. FirstFree(p) \in FreeIds(p)
  BY <1>1, LeastElement DEF FirstFree
<1> QED
  BY <1>2 DEF FreeIds

(***************************************************************************)
(* Pools stay pools.                                                       *)
(***************************************************************************)
LEMMA AcquireType ==
    ASSUME NEW p \in Pools, CanAcquire(p)
    PROVE  Acquire(p) \in Pools
<1>1. FirstFree(p) \in PacketIds
  BY AcquireIsFresh
<1>2. Successor(FirstFree(p)) \in PacketIds
  BY <1>1, MaxPacketIdAssumption DEF Successor, PacketIds
<1> QED
  BY <1>1, <1>2 DEF Acquire, Pools

\* release() of an identifier gives a pool.
LEMMA ReleaseType ==
    ASSUME NEW p \in Pools, NEW i \in PacketIds
    PROVE  Release(p, i) \in Pools
  BY DEF Release, Pools

(***************************************************************************)
(* As long as the scan starts at or below every free identifier, acquire() *)
(* returns the lowest free identifier.                                     *)
(***************************************************************************)
THEOREM AcquireReturnsLowest ==
    ASSUME NEW p \in Pools, CanAcquire(p), ScanStartsAtLowest(p)
    PROVE  \A i \in FreeIds(p) : FirstFree(p) <= i
<1> DEFINE ahead == {i \in FreeIds(p) : i >= p.next}
<1>1. FreeIds(p) \in SUBSET Nat /\ ahead \in SUBSET Nat /\ FreeIds(p) # {}
  BY FreeWhenNotExhausted DEF FreeIds, PacketIds
<1>2. ahead = FreeIds(p)
  BY MaxPacketIdAssumption DEF ScanStartsAtLowest, FreeIds, PacketIds, Pools
<1>3. FirstFree(p) = Min(FreeIds(p))
  BY <1>1, <1>2 DEF FirstFree
<1> QED
  BY <1>1, <1>3, LeastElement

(***************************************************************************)
(* acquire() and release() keep the scan's start at or below every free    *)
(* identifier.                                                             *)
(***************************************************************************)
THEOREM AcquireKeepsScanStart ==
    ASSUME NEW p \in Pools, CanAcquire(p), ScanStartsAtLowest(p)
    PROVE  ScanStartsAtLowest(Acquire(p))
<1>1. FirstFree(p) \in PacketIds
  BY AcquireIsFresh
<1>2. \A i \in PacketIds : i < FirstFree(p) => i \in p.inUse
  BY <1>1, AcquireReturnsLowest, MaxPacketIdAssumption DEF FreeIds, PacketIds
<1>3. Acquire(p).next = Successor(FirstFree(p)) /\ Acquire(p).inUse = p.inUse \cup {FirstFree(p)}
  BY DEF Acquire
<1>4. SUFFICES ASSUME NEW i \in PacketIds, i < Successor(FirstFree(p))
               PROVE  i \in p.inUse \cup {FirstFree(p)}
  BY <1>3 DEF ScanStartsAtLowest
<1>5. i = FirstFree(p) \/ i < FirstFree(p)
  BY <1>1, <1>4, MaxPacketIdAssumption DEF Successor, PacketIds
<1> QED
  BY <1>2, <1>5

\* release() keeps every identifier below next in use: next moves down to
\* the released identifier.
THEOREM ReleaseKeepsScanStart ==
    ASSUME NEW p \in Pools, NEW i \in PacketIds, ScanStartsAtLowest(p)
    PROVE  ScanStartsAtLowest(Release(p, i))
  BY MaxPacketIdAssumption DEF Release, Pools, PacketIds, ScanStartsAtLowest

-----------------------------------------------------------------------------
(* The engine.                                                             *)

(***************************************************************************)
(* What each table says of the identifiers.                                *)
(***************************************************************************)
TableOK(table, k) ==
    \A i \in PacketIds : table[i] # None => pid[table[i]] = i /\ kind[table[i]] = k

TablesOK ==
    /\ TableOK(inflight1, "qos1") /\ TableOK(inflight2, "qos2")
    /\ TableOK(pendingSubs, "subscribe") /\ TableOK(pendingUnsubs, "unsubscribe")

Taken(i) == \/ inflight1[i] # None   \/ inflight2[i] # None
            \/ pendingSubs[i] # None \/ pendingUnsubs[i] # None

Disjoint ==
    \A i \in PacketIds :
        /\ inflight1[i] # None   => inflight2[i] = None /\ pendingSubs[i] = None /\ pendingUnsubs[i] = None
        /\ inflight2[i] # None   => pendingSubs[i] = None /\ pendingUnsubs[i] = None
        /\ pendingSubs[i] # None => pendingUnsubs[i] = None

InUseOK == \A i \in PacketIds : i \in pool.inUse <=> Taken(i)

(***************************************************************************)
(* What a task that has started and not finished still owns: the entry its *)
(* future is registered in, until something resolved the future (for a     *)
(* subscribe or unsubscribe: until the task itself removes it).            *)
(***************************************************************************)
Suspended == {"sending", "waiting", "unwinding"}

TaskOK(o) ==
    /\ pc[o] = "idle" => pid[o] = 0
    /\ pc[o] \in Suspended => kind[o] # "none"
    /\ pc[o] \in Suspended /\ kind[o] = "qos0" => fut[o] = "none"
    /\ pc[o] \in Suspended /\ kind[o] # "qos0" => pid[o] \in PacketIds
    /\ pc[o] \in Suspended /\ kind[o] = "subscribe" => pendingSubs[pid[o]] = o
    /\ pc[o] \in Suspended /\ kind[o] = "unsubscribe" => pendingUnsubs[pid[o]] = o
    /\ pc[o] \in Suspended /\ kind[o] = "qos1" /\ fut[o] = "pending" => inflight1[pid[o]] = o
    /\ pc[o] \in Suspended /\ kind[o] = "qos2" /\ fut[o] = "pending" => inflight2[pid[o]] = o
    /\ pc[o] = "idle" => fut[o] = "none"
    /\ outcome[o] = "unencodable" => pc[o] = "done"

TasksOK == \A o \in Ops : TaskOK(o)

IInv == TypeOK /\ TablesOK /\ Disjoint /\ InUseOK /\ TasksOK /\ DeadLeavesNoWaiter

USE OpsAssumption, MaxPacketIdAssumption

\* A new protocol over a new SessionState satisfies the invariant.
LEMMA InitIInv == Init => IInv
  BY DEF Init, IInv, TypeOK, TablesOK, TableOK, Disjoint, InUseOK, Taken, TasksOK, TaskOK, Suspended,
         DeadLeavesNoWaiter, EmptyPool, Pools, PacketIds, NoFlight, Tables, AllKinds, Publishes

\* The invariant gives the property the model checker checks.
LEMMA IInvImplies == IInv => PacketIdsExclusive
<1> SUFFICES ASSUME IInv, NEW i \in PacketIds
             PROVE  /\ (i \in pool.inUse) <=> (Owners(i) # {})
                    /\ \A o \in Owners(i) :
                          /\ pid[o] = i
                          /\ inflight1[i] = o     <=> kind[o] = "qos1"
                          /\ inflight2[i] = o     <=> kind[o] = "qos2"
                          /\ pendingSubs[i] = o   <=> kind[o] = "subscribe"
                          /\ pendingUnsubs[i] = o <=> kind[o] = "unsubscribe"
                    /\ \A o, q \in Owners(i) : o = q
  BY DEF PacketIdsExclusive
<1>1. (i \in pool.inUse) <=> (Owners(i) # {})
  BY DEF IInv, InUseOK, Taken, Owners
<1>2. ASSUME NEW o \in Owners(i)
      PROVE  /\ pid[o] = i
             /\ inflight1[i] = o     <=> kind[o] = "qos1"
             /\ inflight2[i] = o     <=> kind[o] = "qos2"
             /\ pendingSubs[i] = o   <=> kind[o] = "subscribe"
             /\ pendingUnsubs[i] = o <=> kind[o] = "unsubscribe"
  BY <1>2 DEF IInv, TablesOK, TableOK, Disjoint, Owners
<1>3. \A o, q \in Owners(i) : o = q
  BY DEF IInv, Disjoint, Owners
<1> QED
  BY <1>1, <1>2, <1>3

\* 0, which marks a task without an identifier, is not an identifier.
LEMMA ZeroIsNoId == 0 \notin PacketIds
  BY DEF PacketIds

(***************************************************************************)
(* What is written is well formed.                                         *)
(***************************************************************************)
LEMMA WrittenType ==
    ASSUME TypeOK, NEW t \in RequestTypes, NEW i \in PacketIds, NEW o \in Ops
    PROVE  Written(t, i, o) \in Seq(Requests)
<1>1. [type |-> t, pid |-> i, op |-> o] \in Requests
  BY DEF Requests
<1>2. toBroker \in Seq(Requests)
  BY DEF TypeOK
<1> HIDE DEF Requests
<1> QED
  BY <1>1, <1>2 DEF Written

\* A call that ends unsent changes nothing but its own task.
LEMMA EndsUnsentStep ==
    ASSUME IInv, NEW o \in Ops, NEW k \in AllKinds,
           NEW out \in {"disconnected", "qosExceeded", "exhausted", "unencodable"},
           EndsUnsent(o, k, out), pool' \in Pools, pool'.inUse = pool.inUse
    PROVE  IInv'
<1>1. TypeOK'
  BY DEF IInv, EndsUnsent, net, run, TypeOK, Tables, Requests, Answers, AllKinds, Publishes, Verdicts, RequestTypes, AnswerTypes, Errors
<1>2. TablesOK' /\ Disjoint' /\ InUseOK'
  BY ZeroIsNoId DEF IInv, EndsUnsent, net, run, TypeOK, Tables, TablesOK, TableOK, Disjoint, InUseOK, Taken, TasksOK, TaskOK
<1>3. TasksOK'
  BY DEF IInv, EndsUnsent, net, run, TypeOK, TasksOK, TaskOK, Suspended
<1>4. DeadLeavesNoWaiter'
  BY DEF IInv, EndsUnsent, net, run, TypeOK, DeadLeavesNoWaiter
<1> QED
  BY <1>1, <1>2, <1>3, <1>4 DEF IInv

\* acquire() and then release() of one identifier changes where the scan starts
\* at most.
LEMMA AcquireRelease ==
    ASSUME NEW p \in Pools, CanAcquire(p)
    PROVE  /\ FirstFree(p) \in PacketIds /\ Acquire(p) \in Pools
           /\ Release(Acquire(p), FirstFree(p)) \in Pools
           /\ Release(Acquire(p), FirstFree(p)).inUse = p.inUse
<1>1. FirstFree(p) \in PacketIds /\ FirstFree(p) \notin p.inUse /\ Acquire(p) \in Pools
  BY AcquireIsFresh, AcquireType
<1> QED
  BY <1>1, ReleaseType DEF Acquire, Release

\* A call that is refused: dead protocol, QoS too high, no identifier left, or
\* a packet that cannot be encoded and was not registered or is no longer.
Refused(o, k) ==
    RefuseDead(o, k) \/ RefuseQos(o, k) \/ RefuseExhausted(o, k) \/ RefuseUnencodable(o, k)

LEMMA RefuseStep ==
    ASSUME IInv, NEW o \in Ops, NEW k \in AllKinds, Refused(o, k)
    PROVE  IInv'
<1>1. pool' \in Pools /\ pool'.inUse = pool.inUse
  BY AcquireRelease DEF Refused, RefuseDead, RefuseQos, RefuseExhausted, RefuseUnencodable, Refuse, IInv, TypeOK
<1> QED
  BY <1>1, EndsUnsentStep DEF Refused, RefuseDead, RefuseQos, RefuseExhausted, RefuseUnencodable, Refuse

\* A QoS 0 publish registers nothing.
LEMMA PublishQos0Step ==
    ASSUME IInv, NEW o \in Ops, PublishQos0(o)
    PROVE  IInv'
<1>1. TypeOK'
  BY DEF IInv, PublishQos0, session, net, run, TypeOK, Tables, Requests, Answers, AllKinds, Publishes, Verdicts, RequestTypes, AnswerTypes, Errors
<1>2. TablesOK' /\ Disjoint' /\ InUseOK'
  BY ZeroIsNoId DEF IInv, PublishQos0, session, net, run, TypeOK, Tables, TablesOK, TableOK, Disjoint, InUseOK, Taken, TasksOK, TaskOK
<1>3. TasksOK'
  BY DEF IInv, PublishQos0, session, net, run, TypeOK, TasksOK, TaskOK, Suspended
<1>4. DeadLeavesNoWaiter'
  BY DEF IInv, PublishQos0, session, net, run, TypeOK, DeadLeavesNoWaiter, TasksOK, TaskOK
<1> QED
  BY <1>1, <1>2, <1>3, <1>4 DEF IInv

(***************************************************************************)
(* A task that registers a flight takes an identifier nobody holds.        *)
(***************************************************************************)
LEMMA RegisterFacts ==
    ASSUME IInv, NEW o \in Ops, NEW k \in AllKinds, Register(o, k)
    PROVE  \E i \in PacketIds :
              /\ i = FirstFree(pool) /\ ~Taken(i)
              /\ pool' \in Pools /\ pool'.inUse = pool.inUse \cup {i}
              /\ k \in {"qos1", "qos2", "subscribe", "unsubscribe"}
              /\ pid' = [pid EXCEPT ![o] = i]
              /\ inflight1' = IF k = "qos1" THEN [inflight1 EXCEPT ![i] = o] ELSE inflight1
              /\ inflight2' = IF k = "qos2" THEN [inflight2 EXCEPT ![i] = o] ELSE inflight2
              /\ qos2State' = IF k = "qos2" THEN [qos2State EXCEPT ![i] = "pending_pubrec"] ELSE qos2State
              /\ pendingSubs' = IF k = "subscribe" THEN [pendingSubs EXCEPT ![i] = o] ELSE pendingSubs
              /\ pendingUnsubs' = IF k = "unsubscribe" THEN [pendingUnsubs EXCEPT ![i] = o] ELSE pendingUnsubs
              /\ kind' = [kind EXCEPT ![o] = k]
              /\ fut' = [fut EXCEPT ![o] = "pending"]
              /\ pc[o] = "idle" /\ loop # "dead"
<1> DEFINE i == FirstFree(pool)
<1>1. pool \in Pools /\ CanAcquire(pool) /\ pool' = Acquire(pool)
  BY DEF IInv, TypeOK, Register
<1>2. /\ i \in PacketIds /\ i \notin pool.inUse
      /\ pool' \in Pools /\ pool'.inUse = pool.inUse \cup {i}
  BY <1>1, AcquireIsFresh, AcquireType DEF Acquire
<1>3. ~Taken(i) /\ k \in {"qos1", "qos2", "subscribe", "unsubscribe"}
  BY <1>2 DEF IInv, InUseOK, Register, AllKinds, Publishes
<1> QED
  BY <1>2, <1>3 DEF Register, EnsureAlive

LEMMA RegisterStep ==
    ASSUME IInv, NEW o \in Ops, NEW k \in AllKinds, Register(o, k), toBroker' \in Seq(Requests),
           NEW where \in {"sending", "waiting", "done"}, pc' = [pc EXCEPT ![o] = where],
           outcome' = outcome \/ (where = "done" /\ outcome' = [outcome EXCEPT ![o] = "unencodable"]),
           UNCHANGED <<conn, toClient, verdict, rogue, run>>
    PROVE  IInv'
<1>a. PICK i \in PacketIds :
              /\ ~Taken(i)
              /\ pool' \in Pools /\ pool'.inUse = pool.inUse \cup {i}
              /\ k \in {"qos1", "qos2", "subscribe", "unsubscribe"}
              /\ pid' = [pid EXCEPT ![o] = i]
              /\ inflight1' = IF k = "qos1" THEN [inflight1 EXCEPT ![i] = o] ELSE inflight1
              /\ inflight2' = IF k = "qos2" THEN [inflight2 EXCEPT ![i] = o] ELSE inflight2
              /\ qos2State' = IF k = "qos2" THEN [qos2State EXCEPT ![i] = "pending_pubrec"] ELSE qos2State
              /\ pendingSubs' = IF k = "subscribe" THEN [pendingSubs EXCEPT ![i] = o] ELSE pendingSubs
              /\ pendingUnsubs' = IF k = "unsubscribe" THEN [pendingUnsubs EXCEPT ![i] = o] ELSE pendingUnsubs
              /\ kind' = [kind EXCEPT ![o] = k]
              /\ fut' = [fut EXCEPT ![o] = "pending"]
              /\ pc[o] = "idle" /\ loop # "dead"
  BY RegisterFacts
<1>1. TypeOK'
  <2>1. outcome' \in [Ops -> {"none", "ok", "rejected", "disconnected", "oserror", "cancelled",
                              "exhausted", "qosExceeded", "unencodable"}]
    BY DEF IInv, TypeOK
  <2>2. kind' \in [Ops -> AllKinds \cup {"none"}] /\ pid' \in [Ops -> PacketIds \cup {0}]
    BY <1>a DEF IInv, TypeOK
  <2>3. inflight1' \in Tables /\ inflight2' \in Tables /\ pendingSubs' \in Tables /\ pendingUnsubs' \in Tables
    BY <1>a DEF IInv, TypeOK, Tables
  <2> QED
    BY <1>a, <2>1, <2>2, <2>3 DEF IInv, run, TypeOK
<1>2. TablesOK'
  BY <1>a, ZeroIsNoId DEF IInv, TypeOK, Tables, TablesOK, TableOK, TasksOK, TaskOK
<1>3. Disjoint' /\ InUseOK'
  BY <1>a DEF IInv, TypeOK, Tables, Disjoint, InUseOK, Taken
<1>4. TasksOK'
  BY <1>a DEF IInv, TypeOK, Tables, Taken, TasksOK, TaskOK, Suspended
<1>5. DeadLeavesNoWaiter'
  BY <1>a DEF run, DeadLeavesNoWaiter
<1> QED
  BY <1>1, <1>2, <1>3, <1>4, <1>5 DEF IInv

\* Whether its packet is then sent or not.
LEMMA StartFlightStep ==
    ASSUME IInv, NEW o \in Ops, NEW k \in AllKinds, StartFlight(o, k) \/ StrandPublish(o, k)
    PROVE  IInv'
<1>1. CASE StartFlight(o, k)
  <2>1. FirstFree(pool) \in PacketIds /\ k \in {"qos1", "qos2", "subscribe", "unsubscribe"}
    BY <1>1, RegisterFacts DEF StartFlight
  <2>2. RequestOf(k) \in RequestTypes
    BY <2>1 DEF RequestOf, RequestTypes
  <2>3. toBroker' \in Seq(Requests)
    BY <1>1, <2>1, <2>2, WrittenType DEF IInv, StartFlight
  <2>4. PICK where \in {"sending", "waiting", "done"} : pc' = [pc EXCEPT ![o] = where]
    BY <1>1 DEF StartFlight
  <2> QED
    BY <1>1, <2>3, <2>4, RegisterStep DEF StartFlight
<1>2. CASE StrandPublish(o, k)
  BY <1>2, RegisterStep DEF StrandPublish, net, IInv, TypeOK
<1> QED
  BY <1>1, <1>2

(***************************************************************************)
(* A subscribe or unsubscribe that ends gives back its own identifier.     *)
(***************************************************************************)
LEMMA FinishStep ==
    ASSUME IInv, NEW o \in Ops, pc[o] \in Suspended,
           NEW out \in {"ok", "rejected", "disconnected", "oserror", "cancelled"}, Finish(o, out)
    PROVE  IInv'
<1> DEFINE i == pid[o]
<1>1. CASE kind[o] \in Publishes
  <2>1. /\ UNCHANGED <<session, kind, pid, fut, net, run>>
        /\ pc' = [pc EXCEPT ![o] = "done"] /\ outcome' = [outcome EXCEPT ![o] = out]
    BY <1>1 DEF Finish, session, Publishes
  <2>2. TypeOK'
    BY <2>1 DEF IInv, session, net, run, TypeOK
  <2>3. TablesOK' /\ Disjoint' /\ InUseOK'
    BY <2>1 DEF IInv, session, TablesOK, TableOK, Disjoint, InUseOK, Taken
  <2>4. TasksOK' /\ DeadLeavesNoWaiter'
    BY <2>1 DEF IInv, session, run, TypeOK, TasksOK, TaskOK, Suspended, DeadLeavesNoWaiter
  <2> QED
    BY <2>2, <2>3, <2>4 DEF IInv
<1>2. CASE kind[o] = "subscribe" \/ kind[o] = "unsubscribe"
  <2>1. /\ i \in PacketIds
        /\ kind[o] = "subscribe" => pendingSubs[i] = o
        /\ kind[o] = "unsubscribe" => pendingUnsubs[i] = o
    BY <1>2 DEF IInv, TasksOK, TaskOK
  <2>2. /\ pc' = [pc EXCEPT ![o] = "done"] /\ outcome' = [outcome EXCEPT ![o] = out]
        /\ pendingSubs' = IF kind[o] = "subscribe" THEN [pendingSubs EXCEPT ![i] = None] ELSE pendingSubs
        /\ pendingUnsubs' = IF kind[o] = "unsubscribe" THEN [pendingUnsubs EXCEPT ![i] = None] ELSE pendingUnsubs
        /\ pool' \in Pools /\ pool'.inUse = pool.inUse \ {i}
        /\ UNCHANGED <<inflight1, inflight2, qos2State, kind, pid, fut, net, run>>
    <3>1. pool' = Release(pool, i) /\ pool \in Pools
      BY <1>2 DEF Finish, Publishes, IInv, TypeOK
    <3>2. pool' \in Pools /\ pool'.inUse = pool.inUse \ {i}
      BY <2>1, <3>1, ReleaseType DEF Release
    <3> QED
      BY <3>2 DEF Finish
  <2> HIDE DEF i
  <2>3. TypeOK'
    BY <2>1, <2>2 DEF IInv, net, run, TypeOK, Tables
  <2>4. TablesOK'
    BY <2>1, <2>2 DEF IInv, TypeOK, Tables, TablesOK, TableOK
  <2>5. Disjoint' /\ InUseOK'
    BY <1>2, <2>1, <2>2 DEF IInv, TypeOK, Tables, Disjoint, InUseOK, Taken
  <2>6. TasksOK'
    BY <1>2, <2>1, <2>2 DEF IInv, TypeOK, Tables, TablesOK, TableOK, TasksOK, TaskOK, Suspended
  <2>7. DeadLeavesNoWaiter'
    BY <2>2 DEF IInv, run, TypeOK, DeadLeavesNoWaiter
  <2> QED
    BY <2>3, <2>4, <2>5, <2>6, <2>7 DEF IInv
<1> QED
  BY <1>1, <1>2 DEF IInv, TypeOK, TasksOK, TaskOK, AllKinds, Publishes

\* A task that runs again (write drained or failed, future done, cancelled).
LEMMA TaskStepStep ==
    ASSUME IInv, NEW o \in Ops, TaskStep(o)
    PROVE  IInv'
<1>0. ResultOf(o) \in {"ok", "rejected", "disconnected"}
  BY DEF ResultOf
<1>1. CASE Drained(o)
  <2>1. CASE fut[o] = "pending"
    <3>1. /\ pc' = [pc EXCEPT ![o] = "waiting"] /\ pc[o] = "sending"
          /\ UNCHANGED <<session, kind, pid, outcome, fut, net, run>>
      BY <1>1, <2>1 DEF Drained
    <3>2. TypeOK'
      BY <3>1 DEF IInv, session, net, run, TypeOK
    <3>3. TablesOK' /\ Disjoint' /\ InUseOK'
      BY <3>1 DEF IInv, session, TablesOK, TableOK, Disjoint, InUseOK, Taken
    <3>4. TasksOK' /\ DeadLeavesNoWaiter'
      BY <2>1, <3>1 DEF IInv, session, run, TypeOK, TasksOK, TaskOK, Suspended, DeadLeavesNoWaiter
    <3> QED
      BY <3>2, <3>3, <3>4 DEF IInv
  <2>2. CASE fut[o] # "pending"
    BY <1>0, <1>1, <2>2, FinishStep DEF Drained, Suspended
  <2> QED
    BY <2>1, <2>2
<1>2. CASE SendFails(o)
  BY <1>2, FinishStep DEF SendFails, Suspended
<1>3. CASE Resume(o)
  BY <1>0, <1>3, FinishStep DEF Resume, Suspended
<1>4. CASE Unwind(o)
  BY <1>4, FinishStep DEF Unwind, Suspended
<1> QED
  BY <1>1, <1>2, <1>3, <1>4 DEF TaskStep

\* Cancelling a task resolves its own future only.
LEMMA CancelStep ==
    ASSUME IInv, NEW o \in Ops, Cancel(o)
    PROVE  IInv'
<1>1. TypeOK'
  BY DEF IInv, Cancel, session, net, run, TypeOK
<1>2. TablesOK' /\ Disjoint' /\ InUseOK'
  BY DEF IInv, Cancel, session, TablesOK, TableOK, Disjoint, InUseOK, Taken
<1>3. TasksOK' /\ DeadLeavesNoWaiter'
  BY DEF IInv, Cancel, session, run, TypeOK, TasksOK, TaskOK, Suspended, DeadLeavesNoWaiter
<1> QED
  BY <1>1, <1>2, <1>3 DEF IInv

(***************************************************************************)
(* Steps of the broker and the connection, and exceptions that leave the   *)
(* loops, change neither the tables nor the tasks.                         *)
(***************************************************************************)
LEMMA QuietStep ==
    ASSUME IInv, TypeOK', UNCHANGED <<session, tasks, fut>>, loop' = "dead" => loop = "dead"
    PROVE  IInv'
<1>1. TablesOK' /\ Disjoint' /\ InUseOK'
  BY DEF IInv, session, tasks, TablesOK, TableOK, Disjoint, InUseOK, Taken
<1>2. TasksOK' /\ DeadLeavesNoWaiter'
  BY DEF IInv, session, tasks, TasksOK, TaskOK, DeadLeavesNoWaiter
<1> QED
  BY <1>1, <1>2 DEF IInv

\* An answer of the broker changes the network only.
LEMMA BrokerStep ==
    ASSUME IInv, NEW n \in 1 .. Len(toBroker), NEW code \in Verdicts, BrokerAnswers(n, code)
    PROVE  IInv'
<1>1. toBroker[n] \in Requests /\ toBroker \in Seq(Requests) /\ toClient \in Seq(Answers)
  BY DEF IInv, TypeOK
<1>2. toBroker' \in Seq(Requests)
  BY <1>1 DEF BrokerAnswers, RemoveAt
<1>3. /\ toClient' \in Seq(Answers)
      /\ verdict' \in [Ops -> Verdicts \cup {"none"}]
  <2>1. [type |-> AnswerOf(toBroker[n].type), pid |-> toBroker[n].pid, code |-> code] \in Answers
    BY <1>1 DEF AnswerOf, Requests, Answers, AnswerTypes
  <2>2. toClient' \in Seq(Answers)
    BY <1>1, <2>1 DEF BrokerAnswers
  <2>3. verdict' \in [Ops -> Verdicts \cup {"none"}]
    BY <1>1 DEF BrokerAnswers, IInv, TypeOK, Requests
  <2> QED
    BY <2>2, <2>3
<1>4. UNCHANGED <<session, tasks, fut, conn, rogue, run>>
  BY DEF BrokerAnswers
<1>5. TypeOK'
  BY <1>2, <1>3, <1>4 DEF IInv, TypeOK, session, tasks, run
<1> QED
  BY <1>4, <1>5, QuietStep DEF run

\* A made-up packet, a DISCONNECT or a loss changes the network only.
LEMMA NetworkStep ==
    ASSUME IInv, \/ \E a \in Answers : BrokerMakesUp(a)
                 \/ BrokerDisconnects \/ LoseConnection \/ ResetConnection
    PROVE  IInv'
<1>0. toClient \in Seq(Answers) /\ toBroker \in Seq(Requests) /\ rogue \in 0 .. MaxRogue
  BY DEF IInv, TypeOK
<1>1. /\ toBroker' \in Seq(Requests) /\ toClient' \in Seq(Answers)
      /\ rogue' \in 0 .. MaxRogue /\ conn' \in {"up", "closed", "shut", "reset", "silent"}
  <2>1. CASE \E a \in Answers : BrokerMakesUp(a)
    BY <1>0, <2>1 DEF BrokerMakesUp
  <2>2. CASE BrokerDisconnects
    <3>1. [type |-> "DISCONNECT", pid |-> 1, code |-> "ok"] \in Answers
      BY DEF Answers, AnswerTypes, Verdicts, PacketIds
    <3> QED
      BY <1>0, <2>2, <3>1 DEF BrokerDisconnects
  <2>3. CASE LoseConnection
    BY <1>0, <2>3 DEF LoseConnection
  <2>4. CASE ResetConnection
    BY <1>0, <2>4 DEF ResetConnection
  <2> QED
    BY <2>1, <2>2, <2>3, <2>4
<1>2. UNCHANGED <<session, tasks, fut, verdict, run>>
  BY DEF BrokerMakesUp, BrokerDisconnects, LoseConnection, ResetConnection
<1>3. TypeOK'
  BY <1>1, <1>2 DEF IInv, TypeOK, session, tasks, run
<1> QED
  BY <1>2, <1>3, QuietStep DEF run

(***************************************************************************)
(* A packet taken from the wire.                                           *)
(***************************************************************************)
LEMMA ReceiveType ==
    ASSUME TypeOK, NEW type, Receive(type)
    PROVE  /\ Head(toClient) \in Answers /\ Head(toClient).pid \in PacketIds
           /\ toClient' \in Seq(Answers) /\ loop = "running"
           /\ UNCHANGED <<conn, verdict, rogue, tasks>>
<1>1. toClient \in Seq(Answers) /\ toClient # <<>>
  BY DEF TypeOK, Receive
<1>2. Head(toClient) \in Answers /\ Tail(toClient) \in Seq(Answers)
  BY <1>1, HeadTailProperties
<1> QED
  BY <1>2 DEF Receive, Answers

(***************************************************************************)
(* A publish flight that ends, whichever answer ends it: its own entry and *)
(* its own identifier go, and nobody else's.                               *)
(***************************************************************************)
LEMMA CompleteStep ==
    ASSUME IInv, NEW i \in PacketIds, NEW o \in Ops, NEW result \in {"acked", "rejected"},
           Complete(o, i, result),
           toClient' \in Seq(Answers), loop = "running",
           \/ /\ inflight1[i] = o /\ inflight1' = [inflight1 EXCEPT ![i] = None]
              /\ inflight2' = inflight2
           \/ /\ inflight2[i] = o /\ inflight2' = [inflight2 EXCEPT ![i] = None]
              /\ inflight1' = inflight1,
           UNCHANGED <<qos2State, pendingSubs, pendingUnsubs, toBroker, run, conn, verdict, rogue, tasks>>
    PROVE  IInv'
<1>1. pool' \in Pools /\ pool'.inUse = pool.inUse \ {i}
  <2>1. pool \in Pools /\ pool' = Release(pool, i)
    BY DEF Complete, IInv, TypeOK
  <2> QED
    BY <2>1, ReleaseType DEF Release
<1>2. fut' = IF fut[o] = "pending" THEN [fut EXCEPT ![o] = result] ELSE fut
  BY DEF Complete
<1>3. TypeOK'
  BY <1>1, <1>2 DEF IInv, TypeOK, Tables, tasks, run
<1>4. TablesOK'
  <2>1. \A table \in Tables, k \in AllKinds : TableOK(table, k) => TableOK([table EXCEPT ![i] = None], k)
    BY DEF Tables, TableOK
  <2>2. TableOK(inflight1', "qos1") /\ TableOK(inflight2', "qos2")
    BY <2>1 DEF IInv, TypeOK, TablesOK, AllKinds, Publishes
  <2> QED
    BY <2>2 DEF IInv, TablesOK, TableOK, tasks
<1>5. Disjoint' /\ InUseOK'
  BY <1>1 DEF IInv, TypeOK, Tables, Disjoint, InUseOK, Taken
<1>6. TasksOK'
  BY <1>2 DEF IInv, TypeOK, Tables, TablesOK, TableOK, TasksOK, TaskOK, Suspended, tasks
<1>7. DeadLeavesNoWaiter'
  BY DEF DeadLeavesNoWaiter, run
<1> QED
  BY <1>3, <1>4, <1>5, <1>6, <1>7 DEF IInv

\* _handle_puback removes the flight and releases its identifier together.
LEMMA HandlePubackStep ==
    ASSUME IInv, HandlePuback
    PROVE  IInv'
<1> DEFINE a == Head(toClient)
           o == inflight1[a.pid]
<1>1. /\ a \in Answers /\ a.pid \in PacketIds /\ toClient' \in Seq(Answers) /\ loop = "running"
      /\ UNCHANGED <<conn, verdict, rogue, tasks>>
  BY ReceiveType DEF IInv, HandlePuback
<1>2. o \in Ops /\ ResultFor(a.code) \in {"acked", "rejected"}
  BY <1>1 DEF HandlePuback, IInv, TypeOK, Tables, ResultFor
<1>3. /\ Complete(o, a.pid, ResultFor(a.code))
      /\ inflight1' = [inflight1 EXCEPT ![a.pid] = None]
      /\ UNCHANGED <<inflight2, qos2State, pendingSubs, pendingUnsubs, toBroker, run>>
  BY DEF HandlePuback
<1> QED
  BY <1>1, <1>2, <1>3, CompleteStep

\* A negative PUBREC removes the flight and releases its identifier together.
LEMMA HandlePubrecRejectedStep ==
    ASSUME IInv, HandlePubrecRejected
    PROVE  IInv'
<1> DEFINE a == Head(toClient)
           o == inflight2[a.pid]
<1>1. /\ a \in Answers /\ a.pid \in PacketIds /\ toClient' \in Seq(Answers) /\ loop = "running"
      /\ UNCHANGED <<conn, verdict, rogue, tasks>>
  BY ReceiveType DEF IInv, HandlePubrecRejected
<1>2. o \in Ops
  BY <1>1 DEF HandlePubrecRejected, IInv, TypeOK, Tables
<1>3. /\ Complete(o, a.pid, "rejected")
      /\ inflight2' = [inflight2 EXCEPT ![a.pid] = None]
      /\ UNCHANGED <<inflight1, qos2State, pendingSubs, pendingUnsubs, toBroker, run>>
  BY DEF HandlePubrecRejected
<1> QED
  BY <1>1, <1>2, <1>3, CompleteStep

\* _handle_pubcomp removes the flight and releases its identifier together.
LEMMA HandlePubcompStep ==
    ASSUME IInv, HandlePubcomp
    PROVE  IInv'
<1> DEFINE a == Head(toClient)
           o == inflight2[a.pid]
<1>1. /\ a \in Answers /\ a.pid \in PacketIds /\ toClient' \in Seq(Answers) /\ loop = "running"
      /\ UNCHANGED <<conn, verdict, rogue, tasks>>
  BY ReceiveType DEF IInv, HandlePubcomp
<1>2. o \in Ops
  BY <1>1 DEF HandlePubcomp, IInv, TypeOK, Tables
<1>3. /\ Complete(o, a.pid, "acked")
      /\ inflight2' = [inflight2 EXCEPT ![a.pid] = None]
      /\ UNCHANGED <<inflight1, qos2State, pendingSubs, pendingUnsubs, toBroker, run>>
  BY DEF HandlePubcomp
<1> QED
  BY <1>1, <1>2, <1>3, CompleteStep

\* A positive PUBREC changes the state of the flight only.
LEMMA HandlePubrecStep ==
    ASSUME IInv, HandlePubrec
    PROVE  IInv'
<1> DEFINE a == Head(toClient)
           o == inflight2[a.pid]
<1>1. /\ a \in Answers /\ a.pid \in PacketIds /\ toClient' \in Seq(Answers)
      /\ UNCHANGED <<conn, verdict, rogue, tasks>>
  BY ReceiveType DEF IInv, HandlePubrec
<1>2. o \in Ops
  BY <1>1 DEF HandlePubrec, IInv, TypeOK, Tables
<1>3. toBroker' \in Seq(Requests)
  BY <1>1, <1>2, WrittenType DEF HandlePubrec, IInv, RequestTypes
<1>4. /\ qos2State' = [qos2State EXCEPT ![a.pid] = "pending_pubcomp"]
      /\ reader' \in {"reading", "draining"}
      /\ UNCHANGED <<pool, inflight1, inflight2, pendingSubs, pendingUnsubs, fut, loop, cause,
                     maxPublishQos>>
  BY DEF HandlePubrec
<1> HIDE DEF a, o
<1>5. TypeOK'
  BY <1>1, <1>3, <1>4 DEF IInv, TypeOK, tasks
<1>6. TablesOK' /\ Disjoint' /\ InUseOK' /\ TasksOK' /\ DeadLeavesNoWaiter'
  BY <1>1, <1>4 DEF IInv, tasks, TablesOK, TableOK, Disjoint, InUseOK, Taken, TasksOK, TaskOK,
                    DeadLeavesNoWaiter
<1> QED
  BY <1>5, <1>6 DEF IInv

(***************************************************************************)
(* SUBACK and UNSUBACK resolve a future and touch no table.                *)
(***************************************************************************)
LEMMA SettleStep ==
    ASSUME IInv, NEW type, NEW table, table \in Tables, NEW result \in {"acked", "rejected"},
           Settle(type, table, result)
    PROVE  IInv'
<1> DEFINE o == table[Head(toClient).pid]
<1>1. /\ Head(toClient).pid \in PacketIds /\ toClient' \in Seq(Answers) /\ loop = "running"
      /\ UNCHANGED <<conn, verdict, rogue, tasks>>
  BY ReceiveType DEF IInv, Settle
<1>2. o \in Ops
  BY <1>1 DEF Settle, Tables
<1>3. /\ UNCHANGED <<session, toBroker>>
      /\ \/ /\ fut[o] = "pending" /\ fut' = [fut EXCEPT ![o] = result] /\ UNCHANGED run
         \/ FailLoop("invalidState") /\ UNCHANGED fut
  BY DEF Settle
<1> HIDE DEF o
<1>4. TypeOK'
  BY <1>1, <1>2, <1>3 DEF IInv, TypeOK, session, tasks, run, FailLoop, Errors
<1>5. TablesOK' /\ Disjoint' /\ InUseOK'
  BY <1>1, <1>3 DEF IInv, session, tasks, TablesOK, TableOK, Disjoint, InUseOK, Taken
<1>6. TasksOK'
  BY <1>1, <1>2, <1>3 DEF IInv, TypeOK, session, tasks, TasksOK, TaskOK, Suspended
<1>7. DeadLeavesNoWaiter'
  BY <1>1, <1>3 DEF DeadLeavesNoWaiter, run, FailLoop
<1> QED
  BY <1>4, <1>5, <1>6, <1>7 DEF IInv

(***************************************************************************)
(* Packets that end the read loop.                                         *)
(***************************************************************************)
LEMMA FailStep ==
    ASSUME IInv, NEW error \in Errors, FailLoop(error), UNCHANGED <<session, tasks, fut, conn, toBroker, verdict, rogue>>,
           toClient' \in Seq(Answers)
    PROVE  IInv'
<1>1. TypeOK'
  BY DEF IInv, TypeOK, session, tasks, FailLoop
<1> QED
  BY <1>1, QuietStep DEF FailLoop

\* Whatever packet the read loop dispatches.
LEMMA DispatchStep ==
    ASSUME IInv, Dispatch
    PROVE  IInv'
<1>1. ASSUME NEW type, NEW table, HandleUnknown(type, table)
      PROVE  IInv'
  BY <1>1, ReceiveType, FailStep DEF HandleUnknown, IInv, Errors
<1>2. CASE HandlePubrecWrongState
  BY <1>2, ReceiveType, FailStep DEF HandlePubrecWrongState, IInv, Errors
<1>3. CASE HandleDisconnect
  BY <1>3, ReceiveType, FailStep DEF HandleDisconnect, IInv, Errors
<1>4. CASE HandleOther
  BY <1>4, ReceiveType, FailStep DEF HandleOther, IInv, Errors
<1>5. CASE HandleSuback
  <2>1. pendingSubs \in Tables /\ ResultFor(Head(toClient).code) \in {"acked", "rejected"}
    BY DEF IInv, TypeOK, ResultFor
  <2> QED
    BY <1>5, <2>1, SettleStep DEF HandleSuback
<1>6. CASE HandleUnsuback
  <2>1. pendingUnsubs \in Tables
    BY DEF IInv, TypeOK
  <2> QED
    BY <1>6, <2>1, SettleStep DEF HandleUnsuback
<1> QED
  BY <1>1, <1>2, <1>3, <1>4, <1>5, <1>6, HandlePubackStep, HandlePubrecRejectedStep, HandlePubrecStep,
     HandlePubcompStep DEF Dispatch

\* The end of the loops, and the teardown that fails what is registered.
LEMMA LoopStep ==
    ASSUME IInv, ReadEof \/ ReaderDrained \/ PingTimeout \/ CancelRun
    PROVE  IInv'
<1>1. UNCHANGED <<session, tasks, fut, net>>
  BY DEF ReadEof, ReaderDrained, PingTimeout, CancelRun
<1>2. /\ loop' \in {"running", "failing"} /\ cause' \in Errors \cup {"none"}
      /\ reader' \in {"reading", "draining"} /\ UNCHANGED maxPublishQos
  BY DEF ReadEof, ReaderDrained, PingTimeout, CancelRun, FailLoop, Errors, IInv, TypeOK
<1>3. TypeOK'
  BY <1>1, <1>2 DEF IInv, TypeOK, session, tasks, net
<1> QED
  BY <1>1, <1>2, <1>3, QuietStep

(***************************************************************************)
(* _cancel_pending finds the future of every task that still waits: each   *)
(* one is registered in a table.                                           *)
(***************************************************************************)
LEMMA TeardownStep ==
    ASSUME IInv, Teardown
    PROVE  IInv'
<1>1. /\ UNCHANGED <<session, tasks, net, cause, reader, maxPublishQos>> /\ loop' = "dead"
      /\ fut' = [o \in Ops |-> IF o \in Registered /\ fut[o] = "pending" THEN "failed" ELSE fut[o]]
  BY DEF Teardown
<1>2. TypeOK'
  BY <1>1 DEF IInv, TypeOK, session, tasks, net
<1>3. TablesOK' /\ Disjoint' /\ InUseOK'
  BY <1>1 DEF IInv, session, tasks, TablesOK, TableOK, Disjoint, InUseOK, Taken
<1>4. TasksOK'
  BY <1>1 DEF IInv, TypeOK, session, tasks, TasksOK, TaskOK, Suspended
<1>5. ASSUME NEW o \in Ops, pc[o] \in {"sending", "waiting"}, fut[o] = "pending"
      PROVE  o \in Registered
  <2>1. kind[o] \in {"qos1", "qos2", "subscribe", "unsubscribe"} /\ pid[o] \in PacketIds
    BY <1>5 DEF IInv, TypeOK, TasksOK, TaskOK, Suspended, AllKinds, Publishes
  <2>2. \/ inflight1[pid[o]] = o   \/ inflight2[pid[o]] = o
        \/ pendingSubs[pid[o]] = o \/ pendingUnsubs[pid[o]] = o
    BY <1>5, <2>1 DEF IInv, TasksOK, TaskOK, Suspended
  <2> QED
    BY <2>1, <2>2 DEF Registered
<1>6. DeadLeavesNoWaiter'
  BY <1>1, <1>5 DEF DeadLeavesNoWaiter, tasks
<1> QED
  BY <1>2, <1>3, <1>4, <1>6 DEF IInv

\* Every step keeps the invariant.
LEMMA NextIInv == IInv /\ [Next]_vars => IInv'
<1> SUFFICES ASSUME IInv, [Next]_vars
             PROVE  IInv'
  OBVIOUS
<1>1. ASSUME NEW o \in Ops, NEW k \in Kinds,
             Refused(o, k) \/ StrandPublish(o, k) \/ StartFlight(o, k)
      PROVE  IInv'
  BY <1>1, RefuseStep, StartFlightStep
<1>2. ASSUME NEW o \in Ops, PublishQos0(o) \/ TaskStep(o) \/ Cancel(o)
      PROVE  IInv'
  BY <1>2, PublishQos0Step, TaskStepStep, CancelStep
<1>3. CASE Broker
  BY <1>3, BrokerStep DEF Broker
<1>4. CASE \/ \E a \in Answers : BrokerMakesUp(a)
           \/ BrokerDisconnects \/ LoseConnection \/ ResetConnection
  BY <1>4, NetworkStep
<1>5. CASE Dispatch
  BY <1>5, DispatchStep
<1>6. CASE ReadEof \/ ReaderDrained \/ PingTimeout \/ CancelRun
  BY <1>6, LoopStep
<1>7. CASE Teardown
  BY <1>7, TeardownStep
<1>8. CASE UNCHANGED vars
  <2>1. TypeOK'
    BY <1>8 DEF IInv, TypeOK, vars, session, tasks, net, run
  <2> QED
    BY <1>8, <2>1, QuietStep DEF vars, run
<1> QED
  BY <1>1, <1>2, <1>3, <1>4, <1>5, <1>6, <1>7, <1>8 DEF Next, Refused

\* The invariant holds in every reachable state.
LEMMA SpecIInv == Spec => []IInv
  BY InitIInv, NextIInv, PTL DEF Spec

(***************************************************************************)
(* Every state of a connection is well typed.                              *)
(***************************************************************************)
THEOREM TypeCorrect == Spec => []TypeOK
<1>1. IInv => TypeOK
  BY DEF IInv
<1> QED
  BY <1>1, SpecIInv, PTL

(***************************************************************************)
(* The identifier pool and the four tables of SessionState never disagree. *)
(***************************************************************************)
THEOREM IdsExclusive == Spec => []PacketIdsExclusive
  BY IInvImplies, SpecIInv, PTL

(***************************************************************************)
(* The end of run() leaves no task waiting for ever.                       *)
(***************************************************************************)
THEOREM NoWaiterLeft == Spec => []DeadLeavesNoWaiter
<1>1. IInv => DeadLeavesNoWaiter
  BY DEF IInv
<1> QED
  BY <1>1, SpecIInv, PTL

(***************************************************************************)
(* The pool changes only through acquire() and release().                  *)
(***************************************************************************)
LEMMA PoolMoves ==
    ASSUME IInv, [Next]_vars
    PROVE  \/ pool' = pool
           \/ CanAcquire(pool) /\ pool' = Acquire(pool)
           \/ \E i \in PacketIds : pool' = Release(pool, i)
           \/ CanAcquire(pool) /\ pool' = Release(Acquire(pool), FirstFree(pool))
<1> DEFINE Moves == \/ pool' = pool
                    \/ CanAcquire(pool) /\ pool' = Acquire(pool)
                    \/ \E i \in PacketIds : pool' = Release(pool, i)
                    \/ CanAcquire(pool) /\ pool' = Release(Acquire(pool), FirstFree(pool))
<1>1. ASSUME NEW o \in Ops, NEW k \in Kinds,
             Refused(o, k) \/ StrandPublish(o, k) \/ StartFlight(o, k)
      PROVE  Moves
  BY <1>1 DEF Refused, RefuseDead, RefuseQos, RefuseExhausted, RefuseUnencodable, Refuse, StartFlight,
              StrandPublish, Register
<1>2. ASSUME NEW o \in Ops, NEW out, Finish(o, out), pc[o] \in Suspended
      PROVE  Moves
  <2>1. kind[o] \in Publishes \/ pid[o] \in PacketIds
    BY <1>2 DEF IInv, TasksOK, TaskOK, Publishes
  <2> QED
    BY <1>2, <2>1 DEF Finish
<1>3. ASSUME NEW o \in Ops, PublishQos0(o) \/ TaskStep(o) \/ Cancel(o)
      PROVE  Moves
  BY <1>2, <1>3 DEF PublishQos0, TaskStep, Cancel, Drained, SendFails, Resume, Unwind, Suspended, session
<1>4. CASE Broker \/ BrokerDisconnects \/ LoseConnection \/ ResetConnection
           \/ \E a \in Answers : BrokerMakesUp(a)
  BY <1>4 DEF Broker, BrokerAnswers, BrokerMakesUp, BrokerDisconnects, LoseConnection, ResetConnection, session
<1>5. CASE Dispatch
  <2>1. CASE HandlePuback
    BY <2>1, ReceiveType DEF HandlePuback, Complete, IInv
  <2>2. CASE HandlePubrecRejected
    BY <2>2, ReceiveType DEF HandlePubrecRejected, Complete, IInv
  <2>3. CASE HandlePubcomp
    BY <2>3, ReceiveType DEF HandlePubcomp, Complete, IInv
  <2> QED
    BY <1>5, <2>1, <2>2, <2>3
       DEF Dispatch, HandlePubrecWrongState, HandlePubrec, HandleSuback, HandleUnsuback, Settle,
           HandleUnknown, HandleDisconnect, HandleOther, session
<1>6. CASE ReadEof \/ ReaderDrained \/ PingTimeout \/ CancelRun \/ Teardown
  BY <1>6 DEF ReadEof, ReaderDrained, PingTimeout, CancelRun, Teardown, session
<1>7. CASE UNCHANGED vars
  BY <1>7 DEF vars, session
<1> QED
  BY <1>1, <1>3, <1>4, <1>5, <1>6, <1>7 DEF Next, Refused

(***************************************************************************)
(* acquire() hands out the lowest free identifier, at every moment of a    *)
(* connection (with AcquireReturnsLowest).                                 *)
(***************************************************************************)
THEOREM LowestFirst == Spec => []LowestIdFirst
<1>1. Init => LowestIdFirst
  BY DEF Init, LowestIdFirst, ScanStartsAtLowest, EmptyPool, PacketIds
<1>2. LowestIdFirst /\ IInv /\ [Next]_vars => LowestIdFirst'
  <2> SUFFICES ASSUME LowestIdFirst, IInv, [Next]_vars
               PROVE  LowestIdFirst'
    OBVIOUS
  <2>1. pool \in Pools /\ ScanStartsAtLowest(pool)
    BY DEF IInv, TypeOK, LowestIdFirst
  <2>2. CanAcquire(pool) => ScanStartsAtLowest(Release(Acquire(pool), FirstFree(pool)))
    BY <2>1, AcquireRelease, AcquireKeepsScanStart, ReleaseKeepsScanStart
  <2>3. ScanStartsAtLowest(pool')
    BY <2>1, <2>2, PoolMoves, AcquireKeepsScanStart, ReleaseKeepsScanStart
  <2> QED
    BY <2>3 DEF LowestIdFirst
<1> QED
  BY <1>1, <1>2, SpecIInv, PTL DEF Spec


-----------------------------------------------------------------------------
(* What the operators on sequences that the model uses do, element by      *)
(* element.                                                                *)
\* A packet is written, or a future registered, behind the others.
LEMMA AppendAt ==
    ASSUME NEW S, NEW s \in Seq(S), NEW x \in S
    PROVE  /\ DOMAIN Append(s, x) = 1 .. Len(s) + 1 /\ DOMAIN s = 1 .. Len(s) /\ Len(s) \in Nat
           /\ \A n \in 1 .. Len(s) : Append(s, x)[n] = s[n]
           /\ Append(s, x)[Len(s) + 1] = x
  OBVIOUS

\* The first packet or future is taken.
LEMMA TailAt ==
    ASSUME NEW S, NEW s \in Seq(S), s # <<>>
    PROVE  /\ DOMAIN s = 1 .. Len(s) /\ Len(s) \in Nat \ {0} /\ Head(s) = s[1]
           /\ DOMAIN Tail(s) = 1 .. Len(s) - 1
           /\ \A n \in 1 .. Len(s) - 1 : Tail(s)[n] = s[n + 1]
  OBVIOUS

\* One in any place is taken out.
LEMMA RemoveAtAt ==
    ASSUME NEW S, NEW s \in Seq(S), NEW k \in DOMAIN s
    PROVE  /\ DOMAIN s = 1 .. Len(s) /\ Len(s) \in Nat
           /\ RemoveAt(s, k) \in Seq(S) /\ Len(RemoveAt(s, k)) = Len(s) - 1
           /\ DOMAIN RemoveAt(s, k) = 1 .. Len(s) - 1
           /\ \A n \in 1 .. Len(s) - 1 : RemoveAt(s, k)[n] = IF n < k THEN s[n] ELSE s[n + 1]
<1> DEFINE a == SubSeq(s, 1, k - 1)
           b == SubSeq(s, k + 1, Len(s))
<1>0. DOMAIN s = 1 .. Len(s) /\ Len(s) \in Nat /\ k \in 1 .. Len(s)
  OBVIOUS
<1>1. a \in Seq(S) /\ Len(a) = k - 1 /\ \A n \in 1 .. k - 1 : a[n] = s[n]
  OBVIOUS
<1>2. b \in Seq(S) /\ Len(b) = Len(s) - k /\ \A n \in 1 .. Len(s) - k : b[n] = s[n + k]
  OBVIOUS
<1>3. RemoveAt(s, k) = a \o b
  BY DEF RemoveAt
<1> HIDE DEF a, b
<1>4. /\ a \o b \in Seq(S) /\ Len(a \o b) = Len(s) - 1
      /\ \A n \in 1 .. Len(a) + Len(b) : (a \o b)[n] = IF n <= Len(a) THEN a[n] ELSE b[n - Len(a)]
  <2>1. a \in Seq(S) /\ b \in Seq(S)
    BY <1>1, <1>2
  <2>2. /\ a \o b \in Seq(S) /\ Len(a \o b) = Len(a) + Len(b)
        /\ \A n \in 1 .. Len(a) + Len(b) : (a \o b)[n] = IF n <= Len(a) THEN a[n] ELSE b[n - Len(a)]
    BY ONLY <2>1, ConcatProperties
  <2> QED
    BY <1>0, <1>1, <1>2, <2>2
<1>5. ASSUME NEW n \in 1 .. Len(s) - 1
      PROVE  (a \o b)[n] = IF n < k THEN s[n] ELSE s[n + 1]
  <2>0. n \in 1 .. Len(a) + Len(b) /\ n \in Nat
    BY <1>0, <1>1, <1>2
  <2>1. CASE n < k
    <3>1. n <= Len(a) /\ n \in 1 .. k - 1
      BY <1>0, <1>1, <2>0, <2>1
    <3> QED
      BY <1>1, <1>4, <2>0, <2>1, <3>1
  <2>2. CASE ~(n < k)
    <3>1. ~(n <= Len(a)) /\ n - Len(a) \in 1 .. Len(s) - k /\ (n - Len(a)) + k = n + 1
      BY <1>0, <1>1, <2>0, <2>2
    <3> QED
      BY <1>2, <1>4, <2>0, <2>2, <3>1
  <2> QED
    BY <2>1, <2>2
<1>6. DOMAIN (a \o b) = 1 .. Len(s) - 1
  BY <1>4, LenProperties
<1> QED
  BY <1>0, <1>3, <1>4, <1>5, <1>6

\* A loss may cut off what the broker sent last.
LEMMA PrefixAt ==
    ASSUME NEW S, NEW s \in Seq(S), NEW k \in 0 .. Len(s)
    PROVE  /\ DOMAIN s = 1 .. Len(s) /\ DOMAIN SubSeq(s, 1, k) = 1 .. k
           /\ \A n \in 1 .. k : SubSeq(s, 1, k)[n] = s[n]
  OBVIOUS

-----------------------------------------------------------------------------
(***************************************************************************)
(* What one connection has on the wire, for every set of tasks and every   *)
(* size of the identifier space.  The theorems relate the entries of       *)
(* SessionState to the packets under way: with a broker that answers each  *)
(* request once, every packet belongs to the flight whose identifier it    *)
(* carries, and to no other.                                               *)
(***************************************************************************)

(***************************************************************************)
(* A subscribe or unsubscribe runs to its end.  (The code releases the     *)
(* identifier of a cancelled one although its answer is still to come.)    *)
(***************************************************************************)
SubscribesUncancelled == Cancellable \subseteq Publishes

(***************************************************************************)
(* The flight a packet belongs to is registered and waits for it.          *)
(***************************************************************************)
RequestOK(r) ==
    /\ r.type = "PUBLISH1" => inflight1[r.pid] = r.op
    /\ r.type = "PUBLISH2" => inflight2[r.pid] = r.op /\ qos2State[r.pid] = "pending_pubrec"
    /\ r.type = "PUBREL"   => inflight2[r.pid] = r.op /\ qos2State[r.pid] = "pending_pubcomp"
    /\ r.type = "SUBSCRIBE"   => pendingSubs[r.pid] = r.op /\ fut[r.op] = "pending"
    /\ r.type = "UNSUBSCRIBE" => pendingUnsubs[r.pid] = r.op /\ fut[r.op] = "pending"

\* Once writes raise, the task of a subscribe may have ended before its SUBACK
\* is read, and its identifier may be that of a call whose write raises, too.
SubackOK(a) ==
    LET o == pendingSubs[a.pid]
    IN  \/ o # None /\ fut[o] = "pending" /\ verdict[o] = a.code
        \/ WritesRaise /\ (o = None \/ pc[o] = "sending")

AnswerOK(a) ==
    /\ a.type = "PUBACK" => inflight1[a.pid] # None /\ verdict[inflight1[a.pid]] = a.code
    /\ a.type = "PUBREC" =>
          /\ inflight2[a.pid] # None /\ qos2State[a.pid] = "pending_pubrec"
          /\ a.code = "rejected" => verdict[inflight2[a.pid]] = "rejected"
    /\ a.type = "PUBCOMP" =>
          /\ inflight2[a.pid] # None /\ qos2State[a.pid] = "pending_pubcomp"
          /\ verdict[inflight2[a.pid]] = "ok"
    /\ a.type = "SUBACK" => SubackOK(a)
    /\ a.type = "UNSUBACK" /\ conn = "up" =>
          pendingUnsubs[a.pid] # None /\ fut[pendingUnsubs[a.pid]] = "pending"
    /\ a.type = "DISCONNECT" => conn # "up"
    /\ a.type # "OTHER"

\* No two packets under way carry one identifier.
Alone ==
    /\ \A m, n \in DOMAIN toBroker : toBroker[m].pid = toBroker[n].pid => m = n
    /\ \A m, n \in DOMAIN toClient :
          /\ toClient[m].type # "DISCONNECT" /\ toClient[n].type # "DISCONNECT"
          /\ toClient[m].pid = toClient[n].pid
          => m = n
    /\ \A m \in DOMAIN toBroker, n \in DOMAIN toClient : toBroker[m].pid # toClient[n].pid

Flights ==
    /\ \A n \in DOMAIN toBroker : RequestOK(toBroker[n])
    /\ \A n \in DOMAIN toClient : AnswerOK(toClient[n])
    /\ Alone

\* A request under way has had no final answer, nor has a QoS 2 flight.
Unanswered ==
    /\ \A n \in DOMAIN toBroker : fut[toBroker[n].op] \notin {"none", "acked", "rejected"}
    /\ \A i \in PacketIds : inflight2[i] # None => fut[inflight2[i]] \notin {"none", "acked", "rejected"}

\* A task that can still return what its future holds has the broker's word for it.
FutureOK(o) ==
    /\ kind[o] \in {"qos1", "qos2", "subscribe"}
    /\ pc[o] = "waiting" \/ (pc[o] = "sending" /\ ~WritesRaise)
    => /\ fut[o] \in {"pending", "acked", "rejected", "failed"}
       /\ fut[o] = "acked" => verdict[o] = "ok"
       /\ fut[o] = "rejected" => verdict[o] = "rejected"

OutcomeOK(o) ==
    kind[o] \in {"qos1", "qos2", "subscribe"} =>
        /\ outcome[o] = "ok" => verdict[o] = "ok" /\ fut[o] = "acked"
        /\ outcome[o] = "rejected" => verdict[o] = "rejected" /\ fut[o] = "rejected"

ConformingInv ==
    rogue = 0 =>
        /\ loop # "dead" => Flights
        /\ conn # "up" => toBroker = <<>>
        /\ Unanswered
        /\ \A o \in Ops : FutureOK(o) /\ OutcomeOK(o)
        /\ \A o \in Ops : pc[o] = "unwinding" => kind[o] \in Publishes
        /\ \A o \in Ops : pc[o] = "idle" => verdict[o] = "none" /\ outcome[o] = "none"
        /\ NoSpuriousProtocolError

(***************************************************************************)
(* An entry of pending_subs or pending_unsubs has a task that will remove  *)
(* it, and an identifier in use has a packet under way or such a task, if  *)
(* its packet could be encoded.                                            *)
(***************************************************************************)
EntriesHaveTasks ==
    \A i \in PacketIds :
        /\ pendingSubs[i] # None => pc[pendingSubs[i]] \in Suspended
        /\ pendingUnsubs[i] # None => pc[pendingUnsubs[i]] \in Suspended

Owed(i) ==
    \/ \E n \in DOMAIN toBroker : toBroker[n].pid = i
    \/ \E n \in DOMAIN toClient : toClient[n].pid = i
    \/ pendingSubs[i] # None /\ fut[pendingSubs[i]] # "pending"
    \/ pendingUnsubs[i] # None /\ fut[pendingUnsubs[i]] # "pending"

Due(i) ==
    \/ inflight1[i] # None /\ outcome[inflight1[i]] # "unencodable"
    \/ inflight2[i] # None /\ outcome[inflight2[i]] # "unencodable"
    \/ pendingSubs[i] # None \/ pendingUnsubs[i] # None

OwedInv ==
    /\ EntriesHaveTasks
    /\ conn = "up" /\ loop = "running" => \A i \in PacketIds : Due(i) => Owed(i)

\* What encode() refused stays refused.
StrandedStays == \A o \in Ops : outcome[o] = "unencodable" => outcome'[o] = "unencodable"

USE OpsAssumption, MaxPacketIdAssumption

-----------------------------------------------------------------------------
(* No identifier leaks.                                                    *)

\* At first no identifier is in use.
LEMMA InitOwed == Init => OwedInv
  BY DEF Init, OwedInv, EntriesHaveTasks, Due, NoFlight

\* The invariant gives the property the model checker checks.
LEMMA OwedImplies == IInv /\ OwedInv => InUseIsOwed
<1> SUFFICES ASSUME IInv, OwedInv, conn = "up", loop = "running", NEW i \in pool.inUse
             PROVE  OnItsWay(i) \/ Stranded(i)
  BY DEF InUseIsOwed
<1>1. i \in PacketIds /\ Taken(i)
  BY DEF IInv, InUseOK, TypeOK, Pools
<1>2. Owed(i) \/ Stranded(i)
  BY <1>1 DEF OwedInv, Due, Taken, Stranded, Owners
<1>3. /\ pendingSubs[i] # None => kind[pendingSubs[i]] = "subscribe" /\ pc[pendingSubs[i]] # "done"
      /\ pendingUnsubs[i] # None => kind[pendingUnsubs[i]] = "unsubscribe" /\ pc[pendingUnsubs[i]] # "done"
  BY <1>1 DEF IInv, TablesOK, TableOK, OwedInv, EntriesHaveTasks, Suspended
<1> QED
  BY <1>2, <1>3 DEF Owed, OnItsWay, Owners

\* The tasks of the entries of pending_subs and pending_unsubs.
SubTasks == {pendingSubs[i] : i \in PacketIds} \cup {pendingUnsubs[i] : i \in PacketIds}

(***************************************************************************)
(* A step that leaves the entries and the queues alone.                    *)
(***************************************************************************)
LEMMA OwedQuiet ==
    ASSUME IInv, StrandedStays, OwedInv, UNCHANGED <<inflight1, inflight2, pendingSubs, pendingUnsubs, toBroker, toClient>>,
           \A o \in SubTasks \ {None} : /\ pc[o] \in Suspended => pc'[o] \in Suspended
                                        /\ fut[o] # "pending" => fut'[o] # "pending",
           conn' = "up" /\ loop' = "running" => conn = "up" /\ loop = "running"
    PROVE  OwedInv'
<1>1. \A i \in PacketIds : pendingSubs[i] \in SubTasks /\ pendingUnsubs[i] \in SubTasks
  BY DEF SubTasks
<1>2. EntriesHaveTasks'
  BY <1>1 DEF OwedInv, EntriesHaveTasks
<1>3. \A i \in PacketIds : Due(i)' => Due(i)
  BY DEF Due, StrandedStays, IInv, TypeOK, Tables
<1>4. \A i \in PacketIds : Owed(i) => Owed(i)'
  BY <1>1 DEF Owed
<1> QED
  BY <1>2, <1>3, <1>4 DEF OwedInv

\* The task of an entry has started.
LEMMA SubTasksStarted ==
    ASSUME IInv, NEW o \in SubTasks \ {None}
    PROVE  /\ o \in Ops /\ pc[o] # "idle" /\ kind[o] \in {"subscribe", "unsubscribe"}
           /\ pid[o] \in PacketIds
           /\ \A i \in PacketIds : pendingSubs[i] = o \/ pendingUnsubs[i] = o => pid[o] = i
  BY ZeroIsNoId DEF SubTasks, IInv, TypeOK, Tables, TablesOK, TableOK, TasksOK, TaskOK

\* A new flight has its request under way.
LEMMA StartFlightOwed ==
    ASSUME IInv, OwedInv, NEW o \in Ops, NEW k \in AllKinds, StartFlight(o, k)
    PROVE  OwedInv'
<1> DEFINE i == FirstFree(pool)
           r == [type |-> RequestOf(k), pid |-> i, op |-> o]
<1>0. /\ i \in PacketIds /\ ~Taken(i) /\ k \in {"qos1", "qos2", "subscribe", "unsubscribe"}
  BY RegisterFacts DEF StartFlight
<1>1. r \in Requests /\ toBroker \in Seq(Requests)
  BY <1>0 DEF Requests, RequestTypes, RequestOf, IInv, TypeOK
<1> HIDE DEF i
<1>2. /\ inflight1' = IF k = "qos1" THEN [inflight1 EXCEPT ![i] = o] ELSE inflight1
      /\ inflight2' = IF k = "qos2" THEN [inflight2 EXCEPT ![i] = o] ELSE inflight2
      /\ pendingSubs' = IF k = "subscribe" THEN [pendingSubs EXCEPT ![i] = o] ELSE pendingSubs
      /\ pendingUnsubs' = IF k = "unsubscribe" THEN [pendingUnsubs EXCEPT ![i] = o] ELSE pendingUnsubs
      /\ conn = "up" => toBroker' = Append(toBroker, r)
      /\ fut' = [fut EXCEPT ![o] = "pending"]
      /\ \E where \in Suspended : pc' = [pc EXCEPT ![o] = where]
      /\ pc[o] = "idle"
      /\ UNCHANGED <<outcome, conn, toClient, loop>>
  BY DEF StartFlight, Register, i, Written, run, Suspended
<1>3. EntriesHaveTasks'
  BY <1>0, <1>2 DEF IInv, TypeOK, Tables, OwedInv, EntriesHaveTasks, Suspended
<1>4. ASSUME conn = "up", NEW j \in PacketIds, Due(j)', loop = "running"
      PROVE  Owed(j)'
  <2>0. /\ DOMAIN toBroker' = 1 .. Len(toBroker) + 1 /\ DOMAIN toBroker = 1 .. Len(toBroker)
        /\ Len(toBroker) \in Nat
        /\ \A n \in 1 .. Len(toBroker) : toBroker'[n] = toBroker[n]
        /\ toBroker'[Len(toBroker) + 1] = r
    BY <1>1, <1>2, <1>4, AppendAt
  <2>1. CASE j = i
    <3>1. toBroker'[Len(toBroker) + 1].pid = j
      BY <2>0, <2>1
    <3> QED
      BY <2>0, <3>1 DEF Owed
  <2>2. CASE j # i
    <3>1. Due(j)
      BY <1>0, <1>2, <1>4, <2>2 DEF Due, IInv, TypeOK, Tables
    <3>2. Owed(j)
      BY <1>4, <3>1 DEF OwedInv
    <3>3. CASE \E n \in DOMAIN toBroker : toBroker[n].pid = j
      BY <2>0, <3>3 DEF Owed
    <3>4. CASE \E n \in DOMAIN toClient : toClient[n].pid = j
      BY <1>2, <3>4 DEF Owed
    <3>5. CASE \/ pendingSubs[j] # None /\ fut[pendingSubs[j]] # "pending"
               \/ pendingUnsubs[j] # None /\ fut[pendingUnsubs[j]] # "pending"
      <4>1. pendingSubs[j] # o /\ pendingUnsubs[j] # o
        BY <1>2, SubTasksStarted DEF SubTasks
      <4>2. pendingSubs'[j] = pendingSubs[j] /\ pendingUnsubs'[j] = pendingUnsubs[j]
        BY <1>0, <1>2, <2>2 DEF IInv, TypeOK, Tables
      <4>3. /\ pendingSubs[j] # None => fut'[pendingSubs[j]] = fut[pendingSubs[j]]
            /\ pendingUnsubs[j] # None => fut'[pendingUnsubs[j]] = fut[pendingUnsubs[j]]
        BY <1>2, <4>1 DEF IInv, TypeOK, Tables
      <4> QED
        BY <3>5, <4>2, <4>3 DEF Owed
    <3> QED
      BY <3>2, <3>3, <3>4, <3>5 DEF Owed
  <2> QED
    BY <2>1, <2>2
<1> QED
  BY <1>2, <1>3, <1>4 DEF OwedInv

\* A publish that cannot be encoded owes nothing.
LEMMA StrandOwed ==
    ASSUME IInv, OwedInv, NEW o \in Ops, NEW k \in AllKinds, StrandPublish(o, k)
    PROVE  OwedInv'
<1>1. /\ k \in {"qos1", "qos2"} /\ Register(o, k)
      /\ pc' = [pc EXCEPT ![o] = "done"] /\ outcome' = [outcome EXCEPT ![o] = "unencodable"]
      /\ UNCHANGED <<toBroker, toClient, conn, loop>>
  BY DEF StrandPublish, net, run
<1>a. PICK i \in PacketIds :
              /\ i = FirstFree(pool) /\ ~Taken(i)
              /\ inflight1' = IF k = "qos1" THEN [inflight1 EXCEPT ![i] = o] ELSE inflight1
              /\ inflight2' = IF k = "qos2" THEN [inflight2 EXCEPT ![i] = o] ELSE inflight2
              /\ pendingSubs' = IF k = "subscribe" THEN [pendingSubs EXCEPT ![i] = o] ELSE pendingSubs
              /\ pendingUnsubs' = IF k = "unsubscribe" THEN [pendingUnsubs EXCEPT ![i] = o] ELSE pendingUnsubs
              /\ fut' = [fut EXCEPT ![o] = "pending"]
              /\ pc[o] = "idle"
  BY <1>1, RegisterFacts
<1>0. pendingSubs' = pendingSubs /\ pendingUnsubs' = pendingUnsubs
  BY <1>1, <1>a
<1>2. \A q \in SubTasks \ {None} : pc'[q] = pc[q] /\ fut'[q] = fut[q]
  BY <1>1, <1>a, SubTasksStarted DEF IInv, TypeOK
<1>3. \A j \in PacketIds : pendingSubs[j] \in SubTasks /\ pendingUnsubs[j] \in SubTasks
  BY DEF SubTasks
<1>4. EntriesHaveTasks'
  BY <1>0, <1>2, <1>3 DEF OwedInv, EntriesHaveTasks
<1>5. \A j \in PacketIds : Owed(j) => Owed(j)'
  BY <1>0, <1>1, <1>2, <1>3 DEF Owed
<1>6. outcome'[o] = "unencodable" /\ \A q \in Ops \ {o} : outcome'[q] = outcome[q]
  BY <1>1 DEF IInv, TypeOK
<1>7. \A j \in PacketIds : inflight1[j] # o /\ inflight2[j] # o
  BY <1>a, ZeroIsNoId DEF IInv, TypeOK, Tables, TablesOK, TableOK, TasksOK, TaskOK
<1>8. \A j \in PacketIds : Due(j)' => Due(j)
  BY <1>0, <1>1, <1>a, <1>6, <1>7 DEF Due, IInv, TypeOK, Tables
<1> QED
  BY <1>1, <1>4, <1>5, <1>8 DEF OwedInv

\* A task that ends takes its own entry with it, if it has one.
LEMMA FinishOwed ==
    ASSUME IInv, OwedInv, NEW o \in Ops, NEW out, pc[o] \in Suspended, Finish(o, out)
    PROVE  OwedInv'
<1>0. /\ pc' = [pc EXCEPT ![o] = "done"]
      /\ UNCHANGED <<inflight1, inflight2, fut, toBroker, toClient, conn, loop>>
      /\ StrandedStays
  <2>1. outcome[o] # "unencodable" /\ outcome' = [outcome EXCEPT ![o] = out]
    BY DEF Finish, IInv, TasksOK, TaskOK, Suspended
  <2> QED
    BY <2>1 DEF Finish, net, run, StrandedStays, IInv, TypeOK
<1>1. CASE kind[o] \in Publishes
  <2>1. UNCHANGED <<pendingSubs, pendingUnsubs>>
    BY <1>1 DEF Finish, Publishes
  <2>2. \A q \in SubTasks \ {None} : q # o
    BY <1>1, SubTasksStarted DEF Publishes
  <2>3. \A q \in SubTasks \ {None} : pc'[q] = pc[q] /\ fut'[q] = fut[q]
    BY <1>0, <2>2, SubTasksStarted DEF IInv, TypeOK
  <2> QED
    BY <1>0, <2>1, <2>3, OwedQuiet
<1>2. CASE kind[o] = "subscribe" \/ kind[o] = "unsubscribe"
  <2>0. PICK i \in PacketIds : i = pid[o]
    BY <1>2 DEF IInv, TasksOK, TaskOK
  <2>1. /\ kind[o] = "subscribe" => pendingSubs[i] = o
        /\ kind[o] = "unsubscribe" => pendingUnsubs[i] = o
    BY <1>2, <2>0 DEF IInv, TasksOK, TaskOK
  <2>2. /\ pendingSubs' = IF kind[o] = "subscribe" THEN [pendingSubs EXCEPT ![i] = None] ELSE pendingSubs
        /\ pendingUnsubs' = IF kind[o] = "unsubscribe" THEN [pendingUnsubs EXCEPT ![i] = None] ELSE pendingUnsubs
    BY <2>0 DEF Finish
  <2>3. ~Taken(i)' /\ ~Due(i)'
    BY <1>0, <1>2, <2>1, <2>2 DEF Taken, Due, IInv, TypeOK, Tables, Disjoint
  <2>4. \A j \in PacketIds \ {i} : /\ pendingSubs'[j] = pendingSubs[j] /\ pendingSubs[j] # o
                                   /\ pendingUnsubs'[j] = pendingUnsubs[j] /\ pendingUnsubs[j] # o
    BY <2>0, <2>1, <2>2 DEF IInv, TypeOK, Tables, TablesOK, TableOK
  <2>5. \A j \in PacketIds \ {i} : (Due(j)' => Due(j)) /\ (Owed(j) => Owed(j)')
    BY <1>0, <2>4 DEF Due, Owed, StrandedStays, IInv, TypeOK, Tables
  <2>6. EntriesHaveTasks'
    <3>1. pendingSubs'[i] = None /\ pendingUnsubs'[i] = None
      BY <2>3 DEF Taken
    <3>2. ASSUME NEW j \in PacketIds \ {i}
          PROVE  /\ pendingSubs[j] # None => pc'[pendingSubs[j]] \in Suspended
                 /\ pendingUnsubs[j] # None => pc'[pendingUnsubs[j]] \in Suspended
      BY <1>0, <2>4 DEF OwedInv, EntriesHaveTasks, IInv, TypeOK, Tables
    <3> QED
      BY <2>4, <3>1, <3>2 DEF EntriesHaveTasks
  <2> QED
    BY <1>0, <2>3, <2>5, <2>6 DEF OwedInv
<1> QED
  BY <1>1, <1>2 DEF IInv, TypeOK, TasksOK, TaskOK, AllKinds, Publishes

\* Steps of a task that is refused, that runs again or that is cancelled.
LEMMA TaskOwed ==
    ASSUME IInv, OwedInv, NEW o \in Ops, NEW k,
           \/ Refused(o, k)
           \/ PublishQos0(o) \/ TaskStep(o) \/ Cancel(o)
    PROVE  OwedInv'
<1>1. CASE Refused(o, k) \/ PublishQos0(o)
  <2>1. /\ pc[o] = "idle" /\ \E where : pc' = [pc EXCEPT ![o] = where]
        /\ outcome' = outcome \/ \E out : outcome' = [outcome EXCEPT ![o] = out]
        /\ UNCHANGED <<inflight1, inflight2, pendingSubs, pendingUnsubs, toBroker, toClient, fut, conn, loop>>
    BY <1>1 DEF Refused, RefuseDead, RefuseQos, RefuseExhausted, RefuseUnencodable, Refuse, EndsUnsent,
                PublishQos0, session, net, run
  <2>0. StrandedStays
    BY <2>1 DEF StrandedStays, IInv, TypeOK, TasksOK, TaskOK
  <2>2. \A q \in SubTasks \ {None} : pc'[q] = pc[q] /\ fut'[q] = fut[q]
    BY <2>1, SubTasksStarted DEF IInv, TypeOK
  <2> QED
    BY <2>0, <2>1, <2>2, OwedQuiet
<1>2. CASE Cancel(o)
  <2>1. /\ pc' = [pc EXCEPT ![o] = "unwinding"]
        /\ fut' = [fut EXCEPT ![o] = "cancelled"] \/ fut' = fut
        /\ UNCHANGED <<inflight1, inflight2, pendingSubs, pendingUnsubs, toBroker, toClient, conn, loop>>
        /\ StrandedStays
    BY <1>2 DEF StrandedStays, Cancel, session, net, run
  <2>2. \A q \in SubTasks \ {None} : /\ pc[q] \in Suspended => pc'[q] \in Suspended
                                     /\ fut[q] # "pending" => fut'[q] # "pending"
    BY <2>1, SubTasksStarted DEF IInv, TypeOK, Suspended
  <2> QED
    BY <2>1, <2>2, OwedQuiet
<1>3. CASE Drained(o) /\ fut[o] = "pending"
  <2>1. /\ pc' = [pc EXCEPT ![o] = "waiting"]
        /\ UNCHANGED <<inflight1, inflight2, pendingSubs, pendingUnsubs, toBroker, toClient, fut, conn, loop>>
        /\ StrandedStays
    BY <1>3 DEF StrandedStays, Drained, session, net, run
  <2>2. \A q \in SubTasks \ {None} : (pc[q] \in Suspended => pc'[q] \in Suspended) /\ fut'[q] = fut[q]
    BY <2>1, SubTasksStarted DEF IInv, TypeOK, Suspended
  <2> QED
    BY <2>1, <2>2, OwedQuiet
<1>4. CASE TaskStep(o) /\ ~(Drained(o) /\ fut[o] = "pending")
  <2>1. pc[o] \in Suspended /\ \E out : Finish(o, out)
    BY <1>4 DEF TaskStep, Drained, SendFails, Resume, Unwind, Suspended
  <2> QED
    BY <2>1, FinishOwed
<1> QED
  BY <1>1, <1>2, <1>3, <1>4 DEF TaskStep

\* An answer takes the place of its request.
LEMMA BrokerOwed ==
    ASSUME IInv, OwedInv, NEW k \in DOMAIN toBroker, NEW code \in Verdicts, BrokerAnswers(k, code)
    PROVE  OwedInv'
<1> DEFINE a == [type |-> AnswerOf(toBroker[k].type), pid |-> toBroker[k].pid, code |-> code]
<1>1. /\ toClient' = Append(toClient, a) /\ toBroker' = RemoveAt(toBroker, k)
      /\ UNCHANGED <<inflight1, inflight2, pendingSubs, pendingUnsubs, outcome, pc, fut, conn, loop>>
  BY DEF BrokerAnswers, session, tasks, run
<1>2. toBroker \in Seq(Requests) /\ toClient \in Seq(Answers) /\ toBroker[k] \in Requests
  BY DEF IInv, TypeOK
<1>3. a \in Answers
  BY <1>2 DEF Requests, Answers, AnswerOf, AnswerTypes
<1>4. /\ DOMAIN toClient' = 1 .. Len(toClient) + 1 /\ DOMAIN toClient = 1 .. Len(toClient)
      /\ Len(toClient) \in Nat
      /\ \A n \in 1 .. Len(toClient) : toClient'[n] = toClient[n]
      /\ toClient'[Len(toClient) + 1] = a
  BY <1>1, <1>2, <1>3, AppendAt
<1>5. /\ DOMAIN toBroker = 1 .. Len(toBroker) /\ Len(toBroker) \in Nat
      /\ DOMAIN toBroker' = 1 .. Len(toBroker) - 1
      /\ \A n \in 1 .. Len(toBroker) - 1 :
            toBroker'[n] = IF n < k THEN toBroker[n] ELSE toBroker[n + 1]
  BY <1>1, <1>2, RemoveAtAt
<1>6. toClient'[Len(toClient) + 1].pid = toBroker[k].pid
  BY <1>4
<1> HIDE DEF a
<1>7. ASSUME NEW j \in PacketIds, Owed(j)
      PROVE  Owed(j)'
  <2>1. ASSUME NEW n \in DOMAIN toBroker, toBroker[n].pid = j
        PROVE  Owed(j)'
    <3>1. CASE n = k
      BY <1>4, <1>6, <2>1, <3>1 DEF Owed
    <3>2. CASE n < k
      <4>1. n \in 1 .. Len(toBroker) - 1 /\ toBroker'[n] = toBroker[n]
        BY <1>5, <3>2
      <4> QED
        BY <1>5, <2>1, <4>1 DEF Owed
    <3>3. CASE n > k
      <4>1. n - 1 \in 1 .. Len(toBroker) - 1 /\ toBroker'[n - 1] = toBroker[n]
        BY <1>5, <3>3
      <4> QED
        BY <1>5, <2>1, <4>1 DEF Owed
    <3> QED
      BY <1>5, <3>1, <3>2, <3>3
  <2>2. ASSUME NEW n \in DOMAIN toClient, toClient[n].pid = j
        PROVE  Owed(j)'
    BY <1>4, <2>2 DEF Owed
  <2>3. CASE \/ pendingSubs[j] # None /\ fut[pendingSubs[j]] # "pending"
             \/ pendingUnsubs[j] # None /\ fut[pendingUnsubs[j]] # "pending"
    BY <1>1, <2>3 DEF Owed
  <2> QED
    BY <1>7, <2>1, <2>2, <2>3 DEF Owed
<1> QED
  BY <1>1, <1>7 DEF OwedInv, EntriesHaveTasks, Due

\* Once the connection or the loops have ended nothing is owed.
LEMMA OwedNothing ==
    ASSUME OwedInv, UNCHANGED <<pendingSubs, pendingUnsubs, pc>>, ~(conn' = "up" /\ loop' = "running")
    PROVE  OwedInv'
  BY DEF OwedInv, EntriesHaveTasks

\* A packet the broker made up does not take the place of another.
LEMMA MadeUpOwed ==
    ASSUME IInv, OwedInv, NEW a \in Answers, BrokerMakesUp(a)
    PROVE  OwedInv'
<1>1. /\ toClient' = Append(toClient, a) /\ toClient \in Seq(Answers)
      /\ UNCHANGED <<inflight1, inflight2, pendingSubs, pendingUnsubs, toBroker, outcome, pc, fut, conn, loop>>
  BY DEF BrokerMakesUp, IInv, TypeOK, session, tasks, run
<1>2. /\ DOMAIN toClient' = 1 .. Len(toClient) + 1 /\ DOMAIN toClient = 1 .. Len(toClient)
      /\ Len(toClient) \in Nat /\ \A n \in 1 .. Len(toClient) : toClient'[n] = toClient[n]
  BY <1>1, AppendAt
<1>3. \A j \in PacketIds : Owed(j) => Owed(j)'
  BY <1>1, <1>2 DEF Owed
<1> QED
  BY <1>1, <1>3 DEF OwedInv, EntriesHaveTasks, Due

(***************************************************************************)
(* The read loop takes a packet: what is owed under other identifiers      *)
(* stays owed.                                                             *)
(***************************************************************************)
LEMMA ReceiveOwed ==
    ASSUME IInv, OwedInv, NEW type, Receive(type), NEW i \in PacketIds, i = Head(toClient).pid,
           UNCHANGED <<pendingSubs, pendingUnsubs>>,
           \A j \in PacketIds \ {i} : Due(j)' => Due(j),
           \A n \in DOMAIN toBroker : n \in DOMAIN toBroker' /\ toBroker'[n] = toBroker[n],
           \A q \in Ops : fut[q] # "pending" => fut'[q] # "pending",
           Due(i)' => Owed(i)'
    PROVE  OwedInv'
<1>1. toClient \in Seq(Answers) /\ toClient # <<>> /\ toClient' = Tail(toClient)
      /\ loop = "running" /\ UNCHANGED <<conn, pc>>
  BY DEF IInv, TypeOK, Receive, tasks
<1>2. /\ DOMAIN toClient = 1 .. Len(toClient) /\ Len(toClient) \in Nat \ {0} /\ Head(toClient) = toClient[1]
      /\ DOMAIN toClient' = 1 .. Len(toClient) - 1
      /\ \A n \in 1 .. Len(toClient) - 1 : toClient'[n] = toClient[n + 1]
  BY <1>1, TailAt
<1>3. ASSUME NEW j \in PacketIds \ {i}, Owed(j)
      PROVE  Owed(j)'
  <2>1. ASSUME NEW n \in DOMAIN toClient, toClient[n].pid = j
        PROVE  Owed(j)'
    <3>1. n # 1
      BY <1>2, <2>1
    <3>2. n - 1 \in 1 .. Len(toClient) - 1 /\ toClient'[n - 1] = toClient[n]
      BY <1>2, <3>1
    <3> QED
      BY <1>2, <2>1, <3>2 DEF Owed
  <2>2. /\ pendingSubs[j] \in Ops \cup {None} /\ pendingUnsubs[j] \in Ops \cup {None}
    BY DEF IInv, TypeOK, Tables
  <2> QED
    BY <1>3, <2>1, <2>2 DEF Owed
<1>4. EntriesHaveTasks'
  BY <1>1 DEF OwedInv, EntriesHaveTasks
<1>5. conn' = "up" => \A j \in PacketIds : Due(j)' => Owed(j)'
  BY <1>1, <1>3 DEF OwedInv
<1> QED
  BY <1>4, <1>5 DEF OwedInv

\* The answer that ends a publish releases its identifier.
LEMMA CompleteOwed ==
    ASSUME IInv, OwedInv, HandlePuback \/ HandlePubrecRejected \/ HandlePubcomp
    PROVE  OwedInv'
<1>1. PICK type : Receive(type)
  BY DEF HandlePuback, HandlePubrecRejected, HandlePubcomp
<1>2. PICK i \in PacketIds : i = Head(toClient).pid
  BY <1>1, ReceiveType DEF IInv
<1>3. /\ UNCHANGED <<pendingSubs, pendingUnsubs, toBroker>>
      /\ \/ /\ inflight1[i] # None /\ inflight1' = [inflight1 EXCEPT ![i] = None] /\ inflight2' = inflight2
         \/ /\ inflight2[i] # None /\ inflight2' = [inflight2 EXCEPT ![i] = None] /\ inflight1' = inflight1
  BY <1>2 DEF HandlePuback, HandlePubrecRejected, HandlePubcomp
<1>6. outcome' = outcome
  BY <1>1 DEF Receive, tasks
<1>4. ~Due(i)' /\ \A j \in PacketIds \ {i} : Due(j)' => Due(j)
  BY <1>3, <1>6 DEF IInv, TypeOK, Tables, Disjoint, Due
<1>5. \A q \in Ops : fut[q] # "pending" => fut'[q] # "pending"
  <2>1. ASSUME NEW o, NEW k, NEW result \in {"acked", "rejected"}, Complete(o, k, result)
        PROVE  \A q \in Ops : fut[q] # "pending" => fut'[q] # "pending"
    BY <2>1 DEF Complete, IInv, TypeOK
  <2>2. ResultFor(Head(toClient).code) \in {"acked", "rejected"}
    BY DEF ResultFor
  <2> QED
    BY <2>1, <2>2 DEF HandlePuback, HandlePubrecRejected, HandlePubcomp
<1> QED
  BY <1>1, <1>2, <1>3, <1>4, <1>5, ReceiveOwed

\* After a positive PUBREC the PUBREL is under way.
LEMMA PubrecOwed ==
    ASSUME IInv, OwedInv, HandlePubrec
    PROVE  OwedInv'
<1>1. PICK i \in PacketIds : i = Head(toClient).pid
  BY ReceiveType DEF IInv, HandlePubrec
<1> DEFINE r == [type |-> "PUBREL", pid |-> i, op |-> inflight2[i]]
<1>2. /\ r \in Requests /\ toBroker \in Seq(Requests)
      /\ toBroker' = IF conn = "up" THEN Append(toBroker, r) ELSE toBroker
      /\ UNCHANGED <<inflight1, inflight2, pendingSubs, pendingUnsubs, fut, conn, outcome>>
  BY <1>1 DEF HandlePubrec, Written, IInv, TypeOK, Tables, Requests, RequestTypes, Receive, tasks
<1>3. \A j \in PacketIds : Due(j)' => Due(j)
  BY <1>2 DEF Due
<1>4. CASE conn = "up"
  <2>1. /\ DOMAIN toBroker' = 1 .. Len(toBroker) + 1 /\ DOMAIN toBroker = 1 .. Len(toBroker)
        /\ Len(toBroker) \in Nat
        /\ \A n \in 1 .. Len(toBroker) : toBroker'[n] = toBroker[n]
        /\ toBroker'[Len(toBroker) + 1] = r
    BY <1>2, <1>4, AppendAt
  <2>2. toBroker'[Len(toBroker) + 1].pid = i
    BY <2>1
  <2>3. Owed(i)'
    BY <2>1, <2>2 DEF Owed
  <2>4. \A n \in DOMAIN toBroker : n \in DOMAIN toBroker' /\ toBroker'[n] = toBroker[n]
    BY <2>1
  <2>5. \A q \in Ops : fut[q] # "pending" => fut'[q] # "pending"
    BY <1>2
  <2> HIDE DEF r
  <2> QED
    BY <1>1, <1>2, <1>3, <2>3, <2>4, <2>5, ReceiveOwed DEF HandlePubrec
<1>5. CASE conn # "up"
  BY <1>2, <1>5, OwedNothing DEF HandlePubrec, Receive, tasks
<1> QED
  BY <1>4, <1>5

\* A SUBACK or UNSUBACK that is accepted settles the future of its entry.
LEMMA SettleOwed ==
    ASSUME IInv, OwedInv, HandleSuback \/ HandleUnsuback
    PROVE  OwedInv'
<1>1. PICK i \in PacketIds : i = Head(toClient).pid
  BY ReceiveType DEF IInv, HandleSuback, HandleUnsuback, Settle
<1>2. /\ UNCHANGED <<inflight1, inflight2, pendingSubs, pendingUnsubs, toBroker, outcome, pc>>
      /\ \E type : Receive(type)
  BY DEF HandleSuback, HandleUnsuback, Settle, session, Receive, tasks
<1>3. CASE loop' = "failing"
  BY <1>2, <1>3, OwedNothing
<1>4. CASE loop' # "failing"
  <2>1. PICK o \in Ops, result \in {"acked", "rejected"} :
           /\ o = pendingSubs[i] \/ o = pendingUnsubs[i]
           /\ fut' = [fut EXCEPT ![o] = result]
    <3>1. pendingSubs[i] \in Ops \cup {None} /\ pendingUnsubs[i] \in Ops \cup {None}
      BY DEF IInv, TypeOK, Tables
    <3>2. ResultFor(Head(toClient).code) \in {"acked", "rejected"}
      BY DEF ResultFor
    <3> QED
      BY <1>1, <1>4, <3>1, <3>2 DEF HandleSuback, HandleUnsuback, Settle, FailLoop
  <2>2. \A q \in Ops : fut[q] # "pending" => fut'[q] # "pending"
    BY <2>1 DEF IInv, TypeOK
  <2>3. fut'[o] # "pending" /\ o # None
    BY <2>1 DEF IInv, TypeOK
  <2>4. Owed(i)'
    BY <1>2, <2>1, <2>3 DEF Owed
  <2>5. \A j \in PacketIds : Due(j)' => Due(j)
    BY <1>2 DEF Due
  <2> QED
    BY <1>1, <1>2, <2>2, <2>4, <2>5, ReceiveOwed
<1> QED
  BY <1>3, <1>4

\* Every step keeps the invariant.
LEMMA NextOwed == IInv /\ OwedInv /\ [Next]_vars => OwedInv'
<1> SUFFICES ASSUME IInv, OwedInv, [Next]_vars
             PROVE  OwedInv'
  OBVIOUS
<1>1. ASSUME NEW o \in Ops, NEW k \in Kinds,
             Refused(o, k) \/ StrandPublish(o, k) \/ StartFlight(o, k)
      PROVE  OwedInv'
  BY <1>1, TaskOwed, StrandOwed, StartFlightOwed
<1>2. ASSUME NEW o \in Ops, PublishQos0(o) \/ TaskStep(o) \/ Cancel(o)
      PROVE  OwedInv'
  BY <1>2, TaskOwed
<1>3. CASE Broker
  <2>1. 1 .. Len(toBroker) = DOMAIN toBroker
    BY DEF IInv, TypeOK
  <2> QED
    BY <1>3, <2>1, BrokerOwed DEF Broker
<1>4. CASE \E a \in Answers : BrokerMakesUp(a)
  BY <1>4, MadeUpOwed
<1>5. CASE BrokerDisconnects \/ LoseConnection \/ ResetConnection
  <2>1. conn' # "up" /\ UNCHANGED <<pendingSubs, pendingUnsubs, pc>>
    BY <1>5 DEF BrokerDisconnects, LoseConnection, ResetConnection, session, tasks
  <2> QED
    BY <2>1, OwedNothing
<1>6. CASE Dispatch
  <2>1. ASSUME \/ HandlePubrecWrongState \/ HandleDisconnect \/ HandleOther
               \/ \E type, table : HandleUnknown(type, table)
        PROVE  OwedInv'
    <3>1. loop' = "failing" /\ UNCHANGED <<pendingSubs, pendingUnsubs, pc>>
      BY <2>1 DEF HandlePubrecWrongState, HandleDisconnect, HandleOther, HandleUnknown, FailLoop,
                  session, Receive, tasks
    <3> QED
      BY <3>1, OwedNothing
  <2> QED
    BY <1>6, <2>1, CompleteOwed, PubrecOwed, SettleOwed DEF Dispatch
<1>7. CASE ReadEof \/ ReaderDrained \/ PingTimeout \/ CancelRun \/ Teardown
  <2>1. CASE loop' = "running"
    <3>1. /\ UNCHANGED <<inflight1, inflight2, pendingSubs, pendingUnsubs, toBroker, toClient, outcome, pc, fut, conn, loop>>
      BY <1>7, <2>1 DEF ReadEof, ReaderDrained, PingTimeout, CancelRun, Teardown, FailLoop, session, tasks, net
    <3> QED
      BY <3>1, OwedQuiet DEF StrandedStays
  <2>2. CASE loop' # "running"
    <3>1. UNCHANGED <<pendingSubs, pendingUnsubs, pc>>
      BY <1>7 DEF ReadEof, ReaderDrained, PingTimeout, CancelRun, Teardown, session, tasks
    <3> QED
      BY <2>2, <3>1, OwedNothing
  <2> QED
    BY <2>1, <2>2
<1>8. CASE UNCHANGED vars
  <2>1. UNCHANGED <<inflight1, inflight2, pendingSubs, pendingUnsubs, toBroker, toClient, outcome, pc, fut, conn, loop>>
    BY <1>8 DEF vars, session, tasks, net, run
  <2> QED
    BY <2>1, OwedQuiet DEF StrandedStays
<1> QED
  BY <1>1, <1>2, <1>3, <1>4, <1>5, <1>6, <1>7, <1>8 DEF Next, Refused

(***************************************************************************)
(* While the connection works, every packet identifier in use has its      *)
(* request or its answer on the way, or the task that releases it is about *)
(* to run, or encode() raised in the publish that took it: nothing else    *)
(* leaks an identifier, whatever is cancelled at whichever await and       *)
(* whatever the broker sends.                                              *)
(***************************************************************************)
THEOREM NoIdLeaks == Spec => []InUseIsOwed
  BY InitOwed, NextOwed, OwedImplies, SpecIInv, PTL DEF Spec

-----------------------------------------------------------------------------
(* With a broker that answers each request once.                           *)

\* What the packets under way are.
LEMMA OnTheWire ==
    ASSUME IInv
    PROVE  /\ toBroker \in Seq(Requests) /\ toClient \in Seq(Answers)
           /\ \A n \in DOMAIN toBroker : /\ toBroker[n].pid \in PacketIds /\ toBroker[n].op \in Ops
                                         /\ toBroker[n].type \in RequestTypes
           /\ \A n \in DOMAIN toClient : /\ toClient[n].pid \in PacketIds
                                         /\ toClient[n].type \in AnswerTypes
                                         /\ toClient[n].code \in Verdicts
<1>1. toBroker \in Seq(Requests) /\ toClient \in Seq(Answers)
  BY DEF IInv, TypeOK
<1>2. \A n \in DOMAIN toBroker : toBroker[n] \in Requests
  BY <1>1
<1>3. \A n \in DOMAIN toClient : toClient[n] \in Answers
  BY <1>1
<1> QED
  BY <1>1, <1>2, <1>3 DEF Requests, Answers

\* Nothing is on the wire and nobody has called.
LEMMA InitConforming == Init => ConformingInv
  BY DEF Init, ConformingInv, Flights, Alone, Unanswered, FutureOK, OutcomeOK, NoSpuriousProtocolError,
         NoFlight

(***************************************************************************)
(* A step that leaves the entries, the network and the futures of          *)
(* subscribes and unsubscribes alone.                                      *)
(***************************************************************************)
LEMMA FlightsQuiet ==
    ASSUME IInv, Flights,
           UNCHANGED <<inflight1, inflight2, qos2State, pendingSubs, pendingUnsubs, toBroker, toClient,
                       verdict, conn>>,
           \A q \in SubTasks \ {None} : fut'[q] = fut[q] /\ (pc'[q] = pc[q] \/ ~WritesRaise)
    PROVE  Flights'
<1>1. \A i \in PacketIds : pendingSubs[i] \in SubTasks /\ pendingUnsubs[i] \in SubTasks
  BY DEF SubTasks
<1>2. Alone'
  BY DEF Flights, Alone
<1>3. ASSUME NEW n \in DOMAIN toBroker
      PROVE  RequestOK(toBroker[n])'
  <2>1. toBroker[n].pid \in PacketIds /\ toBroker[n].op # None /\ RequestOK(toBroker[n])
    BY OnTheWire DEF Flights
  <2> QED
    BY <1>1, <2>1 DEF RequestOK
<1>4. ASSUME NEW n \in DOMAIN toClient
      PROVE  AnswerOK(toClient[n])'
  <2>1. toClient[n].pid \in PacketIds /\ AnswerOK(toClient[n])
    BY OnTheWire DEF Flights
  <2>2. SubackOK(toClient[n]) => SubackOK(toClient[n])'
    BY <1>1, <2>1 DEF SubackOK, WritesRaise
  <2>3. toClient'[n] = toClient[n]
    OBVIOUS
  <2> QED
    BY <1>1, <2>1, <2>2, <2>3 DEF AnswerOK
<1> QED
  BY <1>2, <1>3, <1>4 DEF Flights

\* A task that is refused, suspended or cancelled, or that ends without an entry.
LEMMA TaskConforms ==
    ASSUME IInv, ConformingInv, NEW o \in Ops,
           UNCHANGED <<inflight1, inflight2, qos2State, pendingSubs, pendingUnsubs, net, run>>,
           pc' = [pc EXCEPT ![o] = pc'[o]], kind' = [kind EXCEPT ![o] = kind'[o]],
           outcome' = [outcome EXCEPT ![o] = outcome'[o]], fut' = [fut EXCEPT ![o] = fut'[o]],
           kind'[o] = kind[o] \/ pc[o] = "idle",
           fut'[o] = fut[o] \/ (fut'[o] = "cancelled" /\ kind[o] \in Publishes),
           o \in SubTasks => pc'[o] = pc[o] \/ ~WritesRaise,
           rogue = 0 => /\ FutureOK(o)' /\ OutcomeOK(o)'
                        /\ pc'[o] = "unwinding" => kind'[o] \in Publishes
                        /\ pc'[o] # "idle"
    PROVE  ConformingInv'
<1> SUFFICES ASSUME rogue' = 0
             PROVE  ConformingInv'
  BY DEF ConformingInv
<1>1. rogue = 0 /\ UNCHANGED <<conn, toBroker, toClient, verdict, rogue, loop, cause>>
  BY DEF net, run
<1>2. \A q \in SubTasks \ {None} : fut'[q] = fut[q] /\ (pc'[q] = pc[q] \/ ~WritesRaise)
  BY SubTasksStarted DEF IInv, TypeOK, Publishes
<1>3. loop' # "dead" => Flights'
  BY <1>1, <1>2, FlightsQuiet DEF ConformingInv
<1>4. Unanswered'
  <2>1. \A q \in Ops : /\ fut[q] \notin {"acked", "rejected"} => fut'[q] \notin {"acked", "rejected"}
                       /\ fut[q] # "none" => fut'[q] # "none"
    BY DEF IInv, TypeOK
  <2>2. \A n \in DOMAIN toBroker : toBroker[n].op \in Ops
    BY OnTheWire
  <2>3. \A i \in PacketIds : inflight2[i] # None => inflight2[i] \in Ops
    BY DEF IInv, TypeOK, Tables
  <2> QED
    BY <1>1, <2>1, <2>2, <2>3 DEF ConformingInv, Unanswered
<1>5. ASSUME NEW q \in Ops, q # o
      PROVE  /\ FutureOK(q)' /\ OutcomeOK(q)'
             /\ pc'[q] = "unwinding" => kind'[q] \in Publishes
             /\ pc'[q] = "idle" => verdict'[q] = "none" /\ outcome'[q] = "none"
  <2>1. pc'[q] = pc[q] /\ kind'[q] = kind[q] /\ outcome'[q] = outcome[q] /\ fut'[q] = fut[q]
    BY <1>5 DEF IInv, TypeOK
  <2> QED
    BY <1>1, <2>1 DEF ConformingInv, FutureOK, OutcomeOK, WritesRaise
<1>6. NoSpuriousProtocolError'
  BY <1>1 DEF ConformingInv, NoSpuriousProtocolError
<1> QED
  BY <1>1, <1>3, <1>4, <1>5, <1>6 DEF ConformingInv

\* Calls that are refused and QoS 0 publishes.
LEMMA UnregisteredConforms ==
    ASSUME IInv, ConformingInv, NEW o \in Ops, NEW k,
           Refused(o, k) \/ PublishQos0(o)
    PROVE  ConformingInv'
<1>1. /\ pc[o] = "idle" /\ pc' = [pc EXCEPT ![o] = pc'[o]] /\ kind' = [kind EXCEPT ![o] = kind'[o]]
      /\ outcome' = [outcome EXCEPT ![o] = outcome'[o]] /\ fut' = fut
      /\ pc'[o] \in {"sending", "done"}
      /\ UNCHANGED <<inflight1, inflight2, qos2State, pendingSubs, pendingUnsubs, net, run>>
      /\ kind'[o] = "qos0" \/ outcome'[o] \in {"disconnected", "qosExceeded", "exhausted", "unencodable"}
      /\ pc'[o] = "sending" => kind'[o] = "qos0"
  BY DEF Refused, RefuseDead, RefuseQos, RefuseExhausted, RefuseUnencodable, Refuse, EndsUnsent, PublishQos0,
         session, IInv, TypeOK
<1>2. fut' = [fut EXCEPT ![o] = fut'[o]] /\ fut'[o] = fut[o]
  BY <1>1 DEF IInv, TypeOK
<1>3. FutureOK(o)' /\ OutcomeOK(o)'
  BY <1>1 DEF FutureOK, OutcomeOK
<1>4. o \notin SubTasks
  BY <1>1, SubTasksStarted
<1> QED
  BY <1>1, <1>2, <1>3, <1>4, TaskConforms

\* A call that is cancelled is a publish: its future is, too.
LEMMA CancelConforms ==
    ASSUME IInv, ConformingInv, SubscribesUncancelled, NEW o \in Ops, Cancel(o)
    PROVE  ConformingInv'
<1>1. /\ kind[o] \in Publishes /\ pc' = [pc EXCEPT ![o] = "unwinding"] /\ pc[o] \in {"sending", "waiting"}
      /\ fut' = fut \/ fut' = [fut EXCEPT ![o] = "cancelled"]
      /\ UNCHANGED <<session, kind, outcome, net, run>>
  BY DEF Cancel, SubscribesUncancelled
<1>2. /\ pc'[o] = "unwinding" /\ pc' = [pc EXCEPT ![o] = pc'[o]] /\ kind' = [kind EXCEPT ![o] = kind'[o]]
      /\ outcome' = [outcome EXCEPT ![o] = outcome'[o]] /\ fut' = [fut EXCEPT ![o] = fut'[o]]
      /\ fut'[o] = fut[o] \/ fut'[o] = "cancelled"
  BY <1>1 DEF IInv, TypeOK
<1>3. o \notin SubTasks
  BY <1>1, SubTasksStarted DEF Publishes
<1>4. rogue = 0 => FutureOK(o)' /\ OutcomeOK(o)'
  <2> SUFFICES ASSUME rogue = 0 PROVE FutureOK(o)' /\ OutcomeOK(o)'
    OBVIOUS
  <2>1. FutureOK(o)'
    BY <1>2 DEF FutureOK
  <2>2. fut[o] \in {"acked", "rejected"} => fut'[o] = fut[o]
    BY DEF Cancel, IInv, TypeOK
  <2>3. OutcomeOK(o)'
    BY <1>1, <2>2 DEF ConformingInv, OutcomeOK, net
  <2> QED
    BY <2>1, <2>3
<1> QED
  BY <1>1, <1>2, <1>3, <1>4, TaskConforms DEF session

\* A write that drained, with the answer still to come.
LEMMA DrainedConforms ==
    ASSUME IInv, ConformingInv, NEW o \in Ops, Drained(o), fut[o] = "pending"
    PROVE  ConformingInv'
<1>1. /\ pc' = [pc EXCEPT ![o] = "waiting"] /\ pc[o] = "sending" /\ ~WritesRaise
      /\ UNCHANGED <<session, kind, outcome, fut, net, run>>
  BY DEF Drained, WritesRaise
<1>2. /\ pc'[o] = "waiting" /\ pc' = [pc EXCEPT ![o] = pc'[o]] /\ kind' = [kind EXCEPT ![o] = kind'[o]]
      /\ outcome' = [outcome EXCEPT ![o] = outcome'[o]] /\ fut' = [fut EXCEPT ![o] = fut'[o]]
  BY <1>1 DEF IInv, TypeOK
<1>3. rogue = 0 => FutureOK(o)' /\ OutcomeOK(o)'
  BY <1>1 DEF ConformingInv, FutureOK, OutcomeOK, net
<1> QED
  BY <1>1, <1>2, <1>3, TaskConforms DEF session

\* What a task that ends reports is what its future says.
LEMMA FinishOutcome ==
    ASSUME IInv, ConformingInv, rogue = 0, NEW o \in Ops, NEW out, Finish(o, out),
           \/ out = "oserror" \/ out = "cancelled"
           \/ out = ResultOf(o) /\ fut[o] # "pending" /\ (pc[o] = "waiting" \/ (pc[o] = "sending" /\ ~WritesRaise))
    PROVE  FutureOK(o)' /\ OutcomeOK(o)'
<1>1. /\ outcome'[o] = out /\ pc'[o] = "done" /\ UNCHANGED <<kind, fut, verdict>>
  BY DEF Finish, IInv, TypeOK, net
<1>2. FutureOK(o)'
  BY <1>1 DEF FutureOK
<1>3. FutureOK(o)
  BY DEF ConformingInv
<1>4. OutcomeOK(o)'
  BY <1>1, <1>3 DEF FutureOK, OutcomeOK, ResultOf
<1> QED
  BY <1>2, <1>4

(***************************************************************************)
(* A task ends.  A subscribe or unsubscribe gives its identifier back only *)
(* when its answer has been dispatched, or when nothing more can be        *)
(* written on the connection.                                              *)
(***************************************************************************)
LEMMA FinishConforms ==
    ASSUME IInv, ConformingInv, NEW o \in Ops, NEW out, Finish(o, out), pc[o] \in Suspended,
           \/ out = "oserror" /\ WritesRaise
           \/ out = "cancelled" /\ pc[o] = "unwinding"
           \/ out = ResultOf(o) /\ fut[o] # "pending" /\ (pc[o] = "waiting" \/ (pc[o] = "sending" /\ ~WritesRaise))
    PROVE  ConformingInv'
<1>0. /\ pc'[o] = "done" /\ pc' = [pc EXCEPT ![o] = pc'[o]] /\ outcome' = [outcome EXCEPT ![o] = outcome'[o]]
      /\ UNCHANGED <<inflight1, inflight2, qos2State, kind, fut, net, run>>
  BY DEF Finish, IInv, TypeOK
<1>1. rogue = 0 => FutureOK(o)' /\ OutcomeOK(o)'
  BY FinishOutcome
<1>2. CASE kind[o] \in Publishes
  <2>1. UNCHANGED <<pendingSubs, pendingUnsubs>> /\ o \notin SubTasks
    BY <1>2, SubTasksStarted DEF Finish, Publishes
  <2>2. kind' = [kind EXCEPT ![o] = kind'[o]] /\ fut' = [fut EXCEPT ![o] = fut'[o]]
    BY <1>0 DEF IInv, TypeOK
  <2> QED
    BY <1>0, <1>1, <2>1, <2>2, TaskConforms
<1>3. CASE kind[o] \notin Publishes
  <2> SUFFICES ASSUME rogue' = 0
               PROVE  ConformingInv'
    BY DEF ConformingInv
  <2>0. rogue = 0 /\ UNCHANGED <<conn, toBroker, toClient, verdict, loop, cause>>
    BY <1>0 DEF net, run
  <2>1. kind[o] = "subscribe" \/ kind[o] = "unsubscribe"
    BY <1>3 DEF IInv, TypeOK, TasksOK, TaskOK, AllKinds
  <2>2. PICK i \in PacketIds : i = pid[o]
    BY <2>1 DEF IInv, TasksOK, TaskOK
  <2>3. /\ pendingSubs' = IF kind[o] = "subscribe" THEN [pendingSubs EXCEPT ![i] = None] ELSE pendingSubs
        /\ pendingUnsubs' = IF kind[o] = "unsubscribe" THEN [pendingUnsubs EXCEPT ![i] = None] ELSE pendingUnsubs
        /\ kind[o] = "subscribe" => pendingSubs[i] = o
        /\ kind[o] = "unsubscribe" => pendingUnsubs[i] = o
    BY <2>1, <2>2 DEF Finish, IInv, TasksOK, TaskOK
  <2>4. fut[o] # "pending" \/ (WritesRaise /\ toBroker = <<>>)
    BY <1>3, <2>0 DEF ConformingInv, WritesRaise
  <2>5. ASSUME loop # "dead", NEW n \in DOMAIN toBroker
        PROVE  RequestOK(toBroker[n])'
    <3>1. /\ RequestOK(toBroker[n]) /\ toBroker[n].pid \in PacketIds /\ toBroker'[n] = toBroker[n]
      BY <2>0, <2>5, OnTheWire DEF ConformingInv, Flights
    <3>2. fut[o] # "pending"
      BY <2>4, <2>5
    <3> QED
      BY <1>0, <2>3, <3>1, <3>2 DEF RequestOK, IInv, TypeOK, Tables
  <2>6. ASSUME loop # "dead", NEW n \in DOMAIN toClient
        PROVE  AnswerOK(toClient[n])'
    <3>1. AnswerOK(toClient[n]) /\ toClient[n].pid \in PacketIds /\ toClient'[n] = toClient[n]
      BY <2>0, <2>6, OnTheWire DEF ConformingInv, Flights
    <3>2. \A j \in PacketIds : /\ pendingSubs'[j] = IF kind[o] = "subscribe" /\ j = i THEN None ELSE pendingSubs[j]
                               /\ pendingUnsubs'[j] = IF kind[o] = "unsubscribe" /\ j = i THEN None ELSE pendingUnsubs[j]
      BY <2>3 DEF IInv, TypeOK, Tables
    <3>3. \A j \in PacketIds \ {i} : pendingSubs[j] # o
      BY <2>2 DEF IInv, TablesOK, TableOK
    <3>4. \A j \in PacketIds \ {i} : pendingSubs[j] # None => pc'[pendingSubs[j]] = pc[pendingSubs[j]]
      BY <1>0, <3>3 DEF IInv, TypeOK, Tables
    <3>5. pendingSubs[i] # None => pendingSubs[i] = o \/ kind[o] # "subscribe"
      BY <2>3
    <3>6. kind[o] = "unsubscribe" => pendingSubs[i] = None
      BY <2>3 DEF IInv, Disjoint
    <3>7. SubackOK(toClient[n]) => SubackOK(toClient[n])'
      BY <1>0, <2>0, <2>1, <2>3, <2>4, <3>1, <3>2, <3>4, <3>6 DEF SubackOK, WritesRaise
    <3>8. conn # "up" \/ fut[o] # "pending"
      BY <2>4 DEF WritesRaise
    <3> QED
      BY <1>0, <2>0, <2>3, <3>1, <3>2, <3>7, <3>8 DEF AnswerOK
  <2>7. loop' # "dead" => Flights'
    BY <2>0, <2>5, <2>6 DEF Flights, Alone, ConformingInv
  <2>8. Unanswered' /\ NoSpuriousProtocolError'
    BY <1>0, <2>0 DEF ConformingInv, Unanswered, NoSpuriousProtocolError, net
  <2>9. ASSUME NEW q \in Ops
        PROVE  /\ FutureOK(q)' /\ OutcomeOK(q)'
               /\ pc'[q] = "unwinding" => kind'[q] \in Publishes
               /\ pc'[q] = "idle" => verdict'[q] = "none" /\ outcome'[q] = "none"
    <3>1. CASE q = o
      BY <1>0, <1>1, <2>0, <3>1
    <3>2. CASE q # o
      <4>1. pc'[q] = pc[q] /\ outcome'[q] = outcome[q]
        BY <1>0, <3>2 DEF IInv, TypeOK
      <4> QED
        BY <1>0, <2>0, <4>1 DEF ConformingInv, FutureOK, OutcomeOK, WritesRaise
    <3> QED
      BY <3>1, <3>2
  <2> QED
    BY <2>0, <2>7, <2>8, <2>9 DEF ConformingInv
<1> QED
  BY <1>2, <1>3

\* A task that runs again.
LEMMA TaskStepConforms ==
    ASSUME IInv, ConformingInv, NEW o \in Ops, TaskStep(o)
    PROVE  ConformingInv'
<1>1. CASE Drained(o) /\ fut[o] = "pending"
  BY <1>1, DrainedConforms
<1>2. CASE Drained(o) /\ fut[o] # "pending"
  <2>1. Finish(o, ResultOf(o)) /\ pc[o] = "sending" /\ ~WritesRaise /\ fut[o] # "pending"
    BY <1>2 DEF Drained, WritesRaise
  <2>2. pc[o] \in Suspended
    BY <2>1 DEF Suspended
  <2> QED
    BY <2>1, <2>2, FinishConforms
<1>3. CASE SendFails(o)
  <2>1. Finish(o, "oserror") /\ WritesRaise /\ pc[o] \in Suspended
    BY <1>3 DEF SendFails, Suspended
  <2> QED
    BY <2>1, FinishConforms
<1>4. CASE Resume(o)
  <2>1. Finish(o, ResultOf(o)) /\ pc[o] = "waiting" /\ fut[o] # "pending"
    BY <1>4 DEF Resume
  <2>2. pc[o] \in Suspended
    BY <2>1 DEF Suspended
  <2> QED
    BY <2>1, <2>2, FinishConforms
<1>5. CASE Unwind(o)
  <2>1. Finish(o, "cancelled") /\ pc[o] = "unwinding" /\ pc[o] \in Suspended
    BY <1>5 DEF Unwind, Suspended
  <2> QED
    BY <2>1, FinishConforms
<1> QED
  BY <1>1, <1>2, <1>3, <1>4, <1>5 DEF TaskStep

(***************************************************************************)
(* The read loop takes an answer: the packets that stay under way carry    *)
(* other identifiers, and what the handler changes is under this one.      *)
(***************************************************************************)
LEMMA ReceiveFlights ==
    ASSUME IInv, Flights, NEW type, Receive(type), type # "DISCONNECT",
           NEW i \in PacketIds, i = Head(toClient).pid,
           \A j \in PacketIds \ {i} :
              /\ inflight1'[j] = inflight1[j] /\ inflight2'[j] = inflight2[j] /\ qos2State'[j] = qos2State[j]
              /\ pendingSubs'[j] = pendingSubs[j] /\ pendingUnsubs'[j] = pendingUnsubs[j],
           \A q \in Ops : fut'[q] = fut[q] \/ q \in Owners(i),
           \/ toBroker' = toBroker
           \/ /\ conn = "up"
              /\ \E r \in Requests : toBroker' = Append(toBroker, r) /\ r.pid = i /\ RequestOK(r)'
    PROVE  Flights'
<1>1. /\ toClient \in Seq(Answers) /\ toClient # <<>> /\ toClient' = Tail(toClient)
      /\ UNCHANGED <<conn, pc, verdict>>
  BY DEF IInv, TypeOK, Receive, tasks
<1>2. /\ DOMAIN toClient = 1 .. Len(toClient) /\ Len(toClient) \in Nat \ {0} /\ Head(toClient) = toClient[1]
      /\ DOMAIN toClient' = 1 .. Len(toClient) - 1
      /\ \A n \in 1 .. Len(toClient) - 1 : toClient'[n] = toClient[n + 1]
  BY <1>1, TailAt
<1>3. toClient[1].pid = i /\ toClient[1].type # "DISCONNECT" /\ 1 \in DOMAIN toClient
  BY <1>2 DEF Receive
<1>4. \A j \in PacketIds \ {i} : /\ pendingSubs[j] # None => fut'[pendingSubs[j]] = fut[pendingSubs[j]]
                                 /\ pendingUnsubs[j] # None => fut'[pendingUnsubs[j]] = fut[pendingUnsubs[j]]
  <2>1. \A q \in Owners(i) : pid[q] = i
    BY DEF Owners, IInv, TablesOK, TableOK
  <2>2. \A j \in PacketIds \ {i} : /\ pendingSubs[j] # None => pendingSubs[j] \in Ops /\ pid[pendingSubs[j]] = j
                                   /\ pendingUnsubs[j] # None => pendingUnsubs[j] \in Ops /\ pid[pendingUnsubs[j]] = j
    BY DEF IInv, TypeOK, Tables, TablesOK, TableOK
  <2> QED
    BY <2>1, <2>2
<1>5. ASSUME NEW n \in DOMAIN toBroker
      PROVE  RequestOK(toBroker[n])' /\ toBroker[n].pid # i
  <2>1. RequestOK(toBroker[n]) /\ toBroker[n].pid \in PacketIds \ {i} /\ toBroker[n].op # None
    BY <1>3, OnTheWire DEF Flights, Alone
  <2>2. PICK r : r = toBroker[n]
    OBVIOUS
  <2>3. RequestOK(r)'
    BY <1>4, <2>1, <2>2 DEF RequestOK
  <2>4. toBroker'[n] = toBroker[n]
    <3>1. toBroker \in Seq(Requests)
      BY OnTheWire
    <3> QED
      BY <3>1, AppendAt
  <2> QED
    BY <2>1, <2>2, <2>3, <2>4
<1>6. ASSUME NEW n \in 1 .. Len(toClient) - 1
      PROVE  /\ AnswerOK(toClient[n])' /\ n + 1 \in DOMAIN toClient /\ toClient'[n] = toClient[n + 1]
             /\ toClient'[n].type # "DISCONNECT" => toClient'[n].pid # i
  <2>1. n + 1 \in DOMAIN toClient /\ n + 1 # 1 /\ toClient'[n] = toClient[n + 1]
    BY <1>2
  <2>2. PICK a : a = toClient[n + 1]
    OBVIOUS
  <2>3. AnswerOK(a) /\ a.pid \in PacketIds
    BY <2>1, <2>2, OnTheWire DEF Flights
  <2>4. a.type # "DISCONNECT" => a.pid # i
    BY <1>3, <2>1, <2>2 DEF Flights, Alone
  <2>5. AnswerOK(a)'
    <3>1. CASE a.type = "DISCONNECT"
      BY <1>1, <2>3, <3>1 DEF AnswerOK
    <3>2. CASE a.type # "DISCONNECT"
      <4>1. a.pid \in PacketIds \ {i}
        BY <2>3, <2>4, <3>2
      <4>2. SubackOK(a) => SubackOK(a)'
        BY <1>1, <1>4, <4>1 DEF SubackOK, WritesRaise
      <4> QED
        BY <1>1, <1>4, <2>3, <4>1, <4>2 DEF AnswerOK
    <3> QED
      BY <3>1, <3>2
  <2> QED
    BY <2>1, <2>2, <2>4, <2>5
<1>7. \A m, n \in DOMAIN toClient' :
          /\ toClient'[m].type # "DISCONNECT" /\ toClient'[n].type # "DISCONNECT"
          /\ toClient'[m].pid = toClient'[n].pid
          => m = n
  <2> SUFFICES ASSUME NEW m \in 1 .. Len(toClient) - 1, NEW n \in 1 .. Len(toClient) - 1,
                      toClient'[m].type # "DISCONNECT", toClient'[n].type # "DISCONNECT",
                      toClient'[m].pid = toClient'[n].pid
               PROVE  m = n
    BY <1>2
  <2>1. m + 1 = n + 1
    BY <1>6 DEF Flights, Alone
  <2> QED
    BY <2>1
<1>8. CASE toBroker' = toBroker
  <2>1. \A m \in DOMAIN toBroker, n \in 1 .. Len(toClient) - 1 : toBroker[m].pid # toClient'[n].pid
    BY <1>6 DEF Flights, Alone
  <2>2. Alone'
    BY <1>2, <1>7, <1>8, <2>1 DEF Alone, Flights
  <2> QED
    BY <1>2, <1>5, <1>6, <1>8, <2>2 DEF Flights
<1>9. CASE toBroker' # toBroker
  <2>0. PICK r \in Requests : toBroker' = Append(toBroker, r) /\ r.pid = i /\ RequestOK(r)'
    BY <1>9
  <2>1. /\ DOMAIN toBroker' = 1 .. Len(toBroker) + 1 /\ DOMAIN toBroker = 1 .. Len(toBroker)
        /\ Len(toBroker) \in Nat
        /\ \A n \in 1 .. Len(toBroker) : toBroker'[n] = toBroker[n]
        /\ toBroker'[Len(toBroker) + 1] = r
    BY <2>0, OnTheWire, AppendAt
  <2>2. \A n \in 1 .. Len(toBroker) + 1 : n \in DOMAIN toBroker \/ n = Len(toBroker) + 1
    BY <2>1
  <2>3. \A n \in DOMAIN toBroker' : RequestOK(toBroker[n])'
    BY <1>5, <2>0, <2>1, <2>2
  <2>4. \A n \in 1 .. Len(toClient) - 1 : toClient'[n].pid # i
    BY <1>1, <1>6, <1>9 DEF AnswerOK
  <2>5. ASSUME NEW m \in DOMAIN toBroker', NEW n \in 1 .. Len(toClient) - 1
        PROVE  toBroker'[m].pid # toClient'[n].pid
    <3>1. CASE m = Len(toBroker) + 1
      BY <2>0, <2>1, <2>4, <3>1
    <3>2. CASE m \in DOMAIN toBroker
      <4>1. toBroker'[m] = toBroker[m]
        BY <2>1, <3>2
      <4>2. toBroker[m].pid # toClient[n + 1].pid
        BY <1>6, <3>2 DEF Flights, Alone
      <4> QED
        BY <1>6, <4>1, <4>2
    <3> QED
      BY <2>1, <2>2, <3>1, <3>2
  <2>6. ASSUME NEW m \in DOMAIN toBroker', NEW n \in DOMAIN toBroker', toBroker'[m].pid = toBroker'[n].pid
        PROVE  m = n
    <3>1. \A k \in DOMAIN toBroker : toBroker'[k] = toBroker[k] /\ toBroker[k].pid # i
      BY <1>5, <2>1
    <3>2. toBroker'[Len(toBroker) + 1].pid = i
      BY <2>0, <2>1
    <3>3. m \in DOMAIN toBroker /\ n \in DOMAIN toBroker => m = n
      BY <2>6, <3>1 DEF Flights, Alone
    <3> QED
      BY <2>1, <2>2, <2>6, <3>1, <3>2, <3>3
  <2> QED
    BY <1>2, <1>6, <1>7, <2>3, <2>5, <2>6 DEF Flights, Alone
<1> QED
  BY <1>8, <1>9

(***************************************************************************)
(* An answer that resolves the future of the flight it belongs to: the     *)
(* result is the broker's, unless the task reports an OSError anyway.      *)
(***************************************************************************)
LEMMA ResolveConforms ==
    ASSUME IInv, ConformingInv, rogue = 0, loop = "running", Flights',
           NEW i \in PacketIds, NEW o \in Owners(i), NEW result \in {"acked", "rejected"},
           fut' = IF fut[o] = "pending" THEN [fut EXCEPT ![o] = result] ELSE fut,
           \/ verdict[o] = IF result = "acked" THEN "ok" ELSE "rejected"
           \/ kind[o] = "unsubscribe"
           \/ pc[o] = "sending" /\ WritesRaise,
           \A n \in DOMAIN toBroker : toBroker[n].pid # i,
           inflight2'[i] = None \/ inflight2[i] # o,
           \A j \in PacketIds : inflight2'[j] # None => inflight2'[j] = inflight2[j],
           UNCHANGED <<kind, pc, outcome, verdict, conn, rogue, loop, cause, toBroker>>
    PROVE  ConformingInv'
<1>1. o \in Ops /\ pid[o] = i
  BY DEF Owners, IInv, TypeOK, Tables, TablesOK, TableOK
<1>2. \A q \in Ops \ {o} : fut'[q] = fut[q]
  BY DEF IInv, TypeOK
<1>3. fut[o] # "pending" => fut'[o] = fut[o]
  OBVIOUS
<1>4. fut[o] = "pending" => fut'[o] = result
  BY <1>1 DEF IInv, TypeOK
<1>5. ASSUME NEW n \in DOMAIN toBroker
      PROVE  fut'[toBroker[n].op] \notin {"none", "acked", "rejected"}
  <2>1. /\ RequestOK(toBroker[n]) /\ toBroker[n].pid \in PacketIds /\ toBroker[n].op \in Ops
        /\ toBroker[n].type \in RequestTypes
    BY OnTheWire DEF ConformingInv, Flights
  <2>2. pid[toBroker[n].op] = toBroker[n].pid
    BY <2>1 DEF RequestOK, RequestTypes, IInv, TablesOK, TableOK
  <2>3. toBroker[n].op # o
    BY <1>1, <2>2
  <2> QED
    BY <1>2, <2>1, <2>3 DEF ConformingInv, Unanswered
<1>6. ASSUME NEW j \in PacketIds, inflight2'[j] # None
      PROVE  fut'[inflight2'[j]] \notin {"none", "acked", "rejected"}
  <2>1. inflight2'[j] = inflight2[j] /\ inflight2[j] \in Ops /\ pid[inflight2[j]] = j
    BY <1>6 DEF IInv, TypeOK, Tables, TablesOK, TableOK
  <2>2. inflight2[j] # o
    BY <1>1, <1>6, <2>1
  <2> QED
    BY <1>2, <2>1, <2>2 DEF ConformingInv, Unanswered
<1>7. Unanswered'
  BY <1>5, <1>6 DEF Unanswered
<1>8. FutureOK(o)' /\ OutcomeOK(o)'
  <2>1. FutureOK(o) /\ OutcomeOK(o)
    BY <1>1 DEF ConformingInv
  <2>2. FutureOK(o)'
    BY <1>3, <1>4, <2>1 DEF FutureOK, WritesRaise
  <2>3. OutcomeOK(o)'
    BY <1>3, <2>1 DEF OutcomeOK
  <2> QED
    BY <2>2, <2>3
<1>9. ASSUME NEW q \in Ops \ {o}
      PROVE  FutureOK(q)' /\ OutcomeOK(q)'
  <2>1. FutureOK(q) /\ OutcomeOK(q) /\ fut'[q] = fut[q]
    BY <1>2 DEF ConformingInv
  <2> QED
    BY <2>1 DEF FutureOK, OutcomeOK, WritesRaise
<1> QED
  BY <1>7, <1>8, <1>9 DEF ConformingInv, NoSpuriousProtocolError

\* The first packet, its identifier, and that no request under way has it.
LEMMA HeadOnTheWire ==
    ASSUME IInv, ConformingInv, rogue = 0, NEW type, Receive(type)
    PROVE  /\ Head(toClient).pid \in PacketIds /\ Head(toClient).code \in Verdicts
           /\ Head(toClient).type = type /\ AnswerOK(Head(toClient)) /\ Flights /\ loop = "running"
           /\ \A n \in DOMAIN toBroker : toBroker[n].pid # Head(toClient).pid
           /\ UNCHANGED <<kind, pc, outcome, verdict, conn, rogue>>
<1>1. loop = "running" /\ Flights /\ toClient # <<>> /\ toClient \in Seq(Answers)
  BY OnTheWire DEF Receive, ConformingInv
<1>2. 1 \in DOMAIN toClient /\ Head(toClient) = toClient[1]
  BY <1>1
<1> QED
  BY <1>1, <1>2, OnTheWire DEF Flights, Alone, Receive, tasks

\* PUBACK, a negative PUBREC and PUBCOMP end the flight they belong to.
LEMMA CompleteConforms ==
    ASSUME IInv, ConformingInv, HandlePuback \/ HandlePubrecRejected \/ HandlePubcomp
    PROVE  ConformingInv'
<1> SUFFICES ASSUME rogue' = 0
             PROVE  ConformingInv'
  BY DEF ConformingInv
<1>0. rogue = 0 /\ UNCHANGED <<loop, cause, pendingSubs, pendingUnsubs, qos2State, toBroker>>
  BY DEF HandlePuback, HandlePubrecRejected, HandlePubcomp, Receive, run
<1>1. CASE HandlePuback
  <2>0. Receive("PUBACK")
    BY <1>1 DEF HandlePuback
  <2>1. PICK i \in PacketIds : i = Head(toClient).pid
    BY <1>0, <2>0, HeadOnTheWire
  <2>2. PICK code \in Verdicts : code = Head(toClient).code
    BY <1>0, <2>0, HeadOnTheWire
  <2>3. PICK o \in Owners(i) : o = inflight1[i]
    BY <1>1, <2>1 DEF HandlePuback, Owners
  <2>4. /\ inflight1' = [inflight1 EXCEPT ![i] = None] /\ inflight2' = inflight2
        /\ fut' = IF fut[o] = "pending" THEN [fut EXCEPT ![o] = ResultFor(code)] ELSE fut
    BY <1>1, <2>1, <2>2, <2>3 DEF HandlePuback, Complete
  <2>5. verdict[o] = code /\ inflight2[i] # o
    <3>1. AnswerOK(Head(toClient)) /\ Head(toClient).type = "PUBACK"
      BY <1>0, <2>0, HeadOnTheWire
    <3> QED
      BY <2>1, <2>2, <2>3, <3>1 DEF AnswerOK, IInv, Disjoint, Owners
  <2>6. PICK result \in {"acked", "rejected"} : /\ result = ResultFor(code)
                                                /\ code = IF result = "acked" THEN "ok" ELSE "rejected"
    BY DEF ResultFor, Verdicts
  <2>7. \A q \in Ops : fut'[q] = fut[q] \/ q \in Owners(i)
    BY <2>4 DEF IInv, TypeOK
  <2>8. \A j \in PacketIds \ {i} : inflight1'[j] = inflight1[j]
    BY <2>4 DEF IInv, TypeOK, Tables
  <2>9. Flights'
    BY <1>0, <2>0, <2>1, <2>4, <2>7, <2>8, HeadOnTheWire, ReceiveFlights
  <2> QED
    BY <1>0, <2>0, <2>1, <2>4, <2>5, <2>6, <2>9, HeadOnTheWire, ResolveConforms
<1>2. CASE HandlePubrecRejected \/ HandlePubcomp
  <2>0. PICK type \in {"PUBREC", "PUBCOMP"}, result \in {"acked", "rejected"} :
           /\ Receive(type) /\ (type = "PUBREC" <=> result = "rejected")
           /\ result = "rejected" => Head(toClient).code = "rejected"
           /\ inflight2[Head(toClient).pid] # None
           /\ inflight2' = [inflight2 EXCEPT ![Head(toClient).pid] = None] /\ inflight1' = inflight1
           /\ Complete(inflight2[Head(toClient).pid], Head(toClient).pid, result)
    BY <1>2 DEF HandlePubrecRejected, HandlePubcomp
  <2>1. PICK i \in PacketIds : i = Head(toClient).pid
    BY <1>0, <2>0, HeadOnTheWire
  <2>3. PICK o \in Owners(i) : o = inflight2[i]
    BY <2>0, <2>1 DEF Owners
  <2>4. /\ inflight2' = [inflight2 EXCEPT ![i] = None] /\ inflight1' = inflight1
        /\ fut' = IF fut[o] = "pending" THEN [fut EXCEPT ![o] = result] ELSE fut
    BY <2>0, <2>1, <2>3 DEF Complete
  <2>5. verdict[o] = IF result = "acked" THEN "ok" ELSE "rejected"
    <3>1. AnswerOK(Head(toClient)) /\ Head(toClient).type = type
      BY <1>0, <2>0, HeadOnTheWire
    <3> QED
      BY <2>0, <2>1, <2>3, <3>1 DEF AnswerOK
  <2>7. \A q \in Ops : fut'[q] = fut[q] \/ q \in Owners(i)
    BY <2>4 DEF IInv, TypeOK
  <2>8. /\ \A j \in PacketIds \ {i} : inflight2'[j] = inflight2[j]
        /\ inflight2'[i] = None
    BY <2>4 DEF IInv, TypeOK, Tables
  <2>9. Flights'
    BY <1>0, <2>0, <2>1, <2>4, <2>7, <2>8, HeadOnTheWire, ReceiveFlights
  <2> QED
    BY <1>0, <2>0, <2>1, <2>4, <2>5, <2>8, <2>9, HeadOnTheWire, ResolveConforms
<1> QED
  BY <1>1, <1>2

(***************************************************************************)
(* After a positive PUBREC the PUBREL belongs to the flight in the state   *)
(* PENDING_PUBCOMP; nobody's future changes.                               *)
(***************************************************************************)
LEMMA PubrecConforms ==
    ASSUME IInv, ConformingInv, HandlePubrec
    PROVE  ConformingInv'
<1> SUFFICES ASSUME rogue' = 0
             PROVE  ConformingInv'
  BY DEF ConformingInv
<1>0. rogue = 0 /\ Receive("PUBREC")
  BY DEF HandlePubrec, Receive
<1>1. PICK i \in PacketIds : i = Head(toClient).pid
  BY <1>0, HeadOnTheWire
<1>2. PICK r \in Requests : r = [type |-> "PUBREL", pid |-> i, op |-> inflight2[i]]
  BY <1>1 DEF HandlePubrec, IInv, TypeOK, Tables, Requests, RequestTypes
<1>3. /\ toBroker' = IF conn = "up" THEN Append(toBroker, r) ELSE toBroker
      /\ qos2State' = [qos2State EXCEPT ![i] = "pending_pubcomp"]
      /\ UNCHANGED <<inflight1, inflight2, pendingSubs, pendingUnsubs, fut, loop, cause>>
  BY <1>1, <1>2 DEF HandlePubrec, Written
<1>4. RequestOK(r)'
  BY <1>2, <1>3 DEF RequestOK, IInv, TypeOK
<1>5. Flights'
  <2>1. \A j \in PacketIds \ {i} : qos2State'[j] = qos2State[j]
    BY <1>3 DEF IInv, TypeOK
  <2>2. r.pid = i
    BY <1>2
  <2> QED
    BY <1>0, <1>1, <1>3, <1>4, <2>1, <2>2, HeadOnTheWire, ReceiveFlights
<1>6. UNCHANGED <<kind, pc, outcome, verdict, conn, rogue>>
  BY <1>0, HeadOnTheWire
<1>7. inflight2[i] # None
  BY <1>1 DEF HandlePubrec
<1>8. Unanswered'
  <2>1. fut[r.op] \notin {"none", "acked", "rejected"}
    BY <1>0, <1>2, <1>7 DEF ConformingInv, Unanswered
  <2>2. CASE conn = "up"
    <3>1. /\ DOMAIN toBroker' = 1 .. Len(toBroker) + 1 /\ DOMAIN toBroker = 1 .. Len(toBroker)
          /\ Len(toBroker) \in Nat
          /\ \A n \in 1 .. Len(toBroker) : toBroker'[n] = toBroker[n]
          /\ toBroker'[Len(toBroker) + 1] = r
      BY <1>3, <2>2, OnTheWire, AppendAt
    <3>2. \A n \in 1 .. Len(toBroker) + 1 : n \in 1 .. Len(toBroker) \/ n = Len(toBroker) + 1
      BY <3>1
    <3> QED
      BY <1>0, <1>3, <2>1, <3>1, <3>2 DEF ConformingInv, Unanswered
  <2>3. CASE conn # "up"
    BY <1>0, <1>3, <2>3 DEF ConformingInv, Unanswered
  <2> QED
    BY <2>2, <2>3
<1>9. \A q \in Ops : FutureOK(q)' /\ OutcomeOK(q)'
  BY <1>0, <1>3, <1>6 DEF ConformingInv, FutureOK, OutcomeOK, WritesRaise
<1> QED
  BY <1>0, <1>3, <1>5, <1>6, <1>8, <1>9 DEF ConformingInv, NoSpuriousProtocolError

(***************************************************************************)
(* An exception leaves the loops: the packets under way still belong to    *)
(* their flights, and the cause is none that only a broker could be blamed *)
(* for, unless the connection is gone.                                     *)
(***************************************************************************)
LEMMA FailConforms ==
    ASSUME IInv, ConformingInv, rogue = 0, Flights',
           UNCHANGED <<inflight2, fut, toBroker, kind, pc, outcome, verdict, conn, rogue>>,
           loop = "running", conn = "up" => cause' \notin {"protocolError", "invalidState"}
    PROVE  ConformingInv'
<1>1. \A q \in Ops : FutureOK(q)' /\ OutcomeOK(q)'
  BY DEF ConformingInv, FutureOK, OutcomeOK, WritesRaise
<1> QED
  BY <1>1 DEF ConformingInv, Unanswered, NoSpuriousProtocolError

\* SUBACK and UNSUBACK.
LEMMA SettleConforms ==
    ASSUME IInv, ConformingInv, HandleSuback \/ HandleUnsuback
    PROVE  ConformingInv'
<1> SUFFICES ASSUME rogue' = 0
             PROVE  ConformingInv'
  BY DEF ConformingInv
<1>0. PICK type \in {"SUBACK", "UNSUBACK"} :
         /\ type = "SUBACK" => HandleSuback
         /\ type = "UNSUBACK" => HandleUnsuback
  OBVIOUS
<1>1. rogue = 0 /\ Receive(type) /\ UNCHANGED <<session, toBroker>>
  BY <1>0 DEF HandleSuback, HandleUnsuback, Settle, Receive
<1>2. PICK i \in PacketIds : i = Head(toClient).pid
  BY <1>1, HeadOnTheWire
<1>3. PICK code \in Verdicts : code = Head(toClient).code
  BY <1>1, HeadOnTheWire
<1>4. AnswerOK(Head(toClient)) /\ Head(toClient).type = type /\ loop = "running"
  BY <1>1, HeadOnTheWire
<1>5. PICK o \in Owners(i) :
         /\ o = IF type = "SUBACK" THEN pendingSubs[i] ELSE pendingUnsubs[i]
         /\ \/ /\ fut[o] = "pending" /\ UNCHANGED run
               /\ fut' = [fut EXCEPT ![o] = IF type = "SUBACK" THEN ResultFor(code) ELSE "acked"]
            \/ fut[o] # "pending" /\ UNCHANGED fut
  <2>1. CASE type = "SUBACK"
    BY <1>0, <1>2, <1>3, <2>1 DEF HandleSuback, Settle, Owners
  <2>2. CASE type = "UNSUBACK"
    BY <1>0, <1>2, <1>3, <2>2 DEF HandleUnsuback, Settle, Owners
  <2> QED
    BY <2>1, <2>2
<1>6. \A q \in Ops : fut'[q] = fut[q] \/ q \in Owners(i)
  BY <1>5 DEF IInv, TypeOK
<1>7. Flights'
  BY <1>1, <1>2, <1>6, HeadOnTheWire, ReceiveFlights DEF session
<1>8. CASE fut[o] = "pending"
  <2>1. PICK result \in {"acked", "rejected"} :
           result = IF type = "SUBACK" THEN ResultFor(code) ELSE "acked"
    BY DEF ResultFor
  <2>2. fut' = IF fut[o] = "pending" THEN [fut EXCEPT ![o] = result] ELSE fut
    BY <1>5, <1>8, <2>1
  <2>3. \/ verdict[o] = IF result = "acked" THEN "ok" ELSE "rejected"
        \/ kind[o] = "unsubscribe"
        \/ pc[o] = "sending" /\ WritesRaise
    <3>1. CASE type = "SUBACK"
      <4>1. o = pendingSubs[i] /\ o # None
        BY <1>5, <3>1 DEF Owners
      <4>2. verdict[o] = code \/ (pc[o] = "sending" /\ WritesRaise)
        BY <1>2, <1>3, <1>4, <3>1, <4>1 DEF AnswerOK, SubackOK
      <4> QED
        BY <2>1, <3>1, <4>2 DEF ResultFor, Verdicts
    <3>2. CASE type = "UNSUBACK"
      BY <1>5, <3>2 DEF Owners, IInv, TablesOK, TableOK
    <3> QED
      BY <3>1, <3>2
  <2>4. inflight2[i] # o /\ inflight2' = inflight2
    BY <1>1, <1>5 DEF session, Owners, IInv, Disjoint
  <2>5. UNCHANGED <<loop, cause>>
    BY <1>5, <1>8 DEF run
  <2>6. /\ \A n \in DOMAIN toBroker : toBroker[n].pid # i
        /\ UNCHANGED <<kind, pc, outcome, verdict, conn, rogue, toBroker>>
    BY <1>1, <1>2, HeadOnTheWire
  <2> QED
    BY <1>1, <1>4, <1>7, <2>2, <2>3, <2>4, <2>5, <2>6, ResolveConforms
<1>9. CASE fut[o] # "pending"
  <2>1. conn # "up"
    <3>1. o # None
      BY DEF Owners
    <3> QED
      BY <1>2, <1>4, <1>5, <1>9, <3>1 DEF AnswerOK, SubackOK, WritesRaise
  <2>2. fut' = fut
    BY <1>5, <1>9
  <2> QED
    BY <1>1, <1>4, <1>7, <2>1, <2>2, HeadOnTheWire, FailConforms DEF session
<1> QED
  BY <1>8, <1>9

(***************************************************************************)
(* A packet for which the handler raises: with a conforming broker only    *)
(* after the connection is gone, or a DISCONNECT.                          *)
(***************************************************************************)
LEMMA RaisingConforms ==
    ASSUME IInv, ConformingInv,
           \/ HandlePubrecWrongState \/ HandleDisconnect \/ HandleOther
           \/ HandleUnknown("PUBACK", inflight1) \/ HandleUnknown("PUBREC", inflight2)
           \/ HandleUnknown("PUBCOMP", inflight2) \/ HandleUnknown("SUBACK", pendingSubs)
           \/ HandleUnknown("UNSUBACK", pendingUnsubs)
    PROVE  ConformingInv'
<1> SUFFICES ASSUME rogue' = 0
             PROVE  ConformingInv'
  BY DEF ConformingInv
<1>1. PICK type : Receive(type)
  BY DEF HandlePubrecWrongState, HandleDisconnect, HandleOther, HandleUnknown
<1>2. UNCHANGED <<session, fut, toBroker>> /\ rogue = 0
  BY DEF HandlePubrecWrongState, HandleDisconnect, HandleOther, HandleUnknown, Receive
<1>3. AnswerOK(Head(toClient)) /\ Flights /\ Head(toClient).type = type
  BY <1>1, <1>2, HeadOnTheWire
<1>4. conn = "up" => cause' \notin {"protocolError", "invalidState"}
  BY <1>3 DEF HandlePubrecWrongState, HandleDisconnect, HandleOther, HandleUnknown, Receive, FailLoop,
              AnswerOK, SubackOK, WritesRaise
<1>5. Flights'
  <2>1. CASE type # "DISCONNECT"
    <3>1. PICK i \in PacketIds : i = Head(toClient).pid
      BY <1>1, <1>2, HeadOnTheWire
    <3> QED
      BY <1>1, <1>2, <1>3, <2>1, <3>1, ReceiveFlights DEF session
  <2>2. CASE type = "DISCONNECT"
    <3>1. /\ toClient \in Seq(Answers) /\ toClient # <<>> /\ toClient' = Tail(toClient)
          /\ UNCHANGED <<conn, pc, verdict>>
      BY <1>1 DEF IInv, TypeOK, Receive, tasks
    <3>2. /\ DOMAIN toClient = 1 .. Len(toClient) /\ Len(toClient) \in Nat \ {0}
          /\ DOMAIN toClient' = 1 .. Len(toClient) - 1
          /\ \A n \in 1 .. Len(toClient) - 1 : toClient'[n] = toClient[n + 1]
      BY <3>1, TailAt
    <3>3. toBroker = <<>>
      BY <1>2, <1>3, <2>2 DEF AnswerOK, ConformingInv
    <3>4. ASSUME NEW n \in 1 .. Len(toClient) - 1
          PROVE  n + 1 \in DOMAIN toClient /\ AnswerOK(toClient[n])'
      <4>1. n + 1 \in DOMAIN toClient /\ toClient'[n] = toClient[n + 1]
        BY <3>2
      <4>2. PICK a : a = toClient[n + 1]
        OBVIOUS
      <4>3. AnswerOK(a)
        BY <1>3, <4>1, <4>2 DEF Flights
      <4>4. AnswerOK(a)'
        BY <1>2, <3>1, <4>3 DEF AnswerOK, SubackOK, WritesRaise, session
      <4> QED
        BY <4>1, <4>2, <4>4
    <3>5. \A m, n \in 1 .. Len(toClient) - 1 :
             /\ toClient'[m].type # "DISCONNECT" /\ toClient'[n].type # "DISCONNECT"
             /\ toClient'[m].pid = toClient'[n].pid
             => m + 1 = n + 1
      BY <1>3, <3>2, <3>4 DEF Flights, Alone
    <3>6. Alone'
      BY <1>2, <3>2, <3>3, <3>5 DEF Alone
    <3> QED
      BY <1>2, <3>2, <3>3, <3>4, <3>6 DEF Flights
  <2> QED
    BY <2>1, <2>2
<1>6. loop = "running" /\ UNCHANGED <<kind, pc, outcome, verdict, conn, rogue>>
  BY <1>1, <1>2, HeadOnTheWire
<1> QED
  BY <1>2, <1>4, <1>5, <1>6, FailConforms DEF session

\* What the loops do by themselves.
LEMMA LoopConforms ==
    ASSUME IInv, ConformingInv, ReadEof \/ ReaderDrained \/ PingTimeout \/ CancelRun \/ UNCHANGED vars
    PROVE  ConformingInv'
<1> SUFFICES ASSUME rogue' = 0
             PROVE  ConformingInv'
  BY DEF ConformingInv
<1>1. UNCHANGED <<session, tasks, fut, net>> /\ (loop' = "dead" => loop = "dead") /\ (loop = "dead" => loop' = "dead")
  BY DEF ReadEof, ReaderDrained, PingTimeout, CancelRun, FailLoop, vars, run
<1>2. cause' \in {"disconnected", "oserror", "timeout", "cancelled"} \/ cause' = cause
  BY DEF ReadEof, ReaderDrained, PingTimeout, CancelRun, FailLoop, vars, run
<1>3. rogue = 0 /\ UNCHANGED <<pc, fut, conn, verdict, toBroker, toClient, kind, outcome>>
  BY <1>1 DEF net, tasks
<1>4. loop' # "dead" => Flights'
  BY <1>1, <1>3, FlightsQuiet DEF ConformingInv, session
<1>5. \A q \in Ops : FutureOK(q)' /\ OutcomeOK(q)'
  BY <1>3 DEF ConformingInv, FutureOK, OutcomeOK, WritesRaise
<1> QED
  BY <1>1, <1>2, <1>3, <1>4, <1>5 DEF ConformingInv, Unanswered, NoSpuriousProtocolError, session

\* _cancel_pending fails the futures that no answer resolved.
LEMMA TeardownConforms ==
    ASSUME IInv, ConformingInv, Teardown
    PROVE  ConformingInv'
<1> SUFFICES ASSUME rogue' = 0
             PROVE  ConformingInv'
  BY DEF ConformingInv
<1>1. /\ loop' = "dead" /\ rogue = 0
      /\ UNCHANGED <<inflight2, pc, conn, verdict, toBroker, kind, outcome, cause>>
  BY DEF Teardown, session, tasks, net
<1>2. \A q \in Ops : fut'[q] = fut[q] \/ (fut[q] = "pending" /\ fut'[q] = "failed")
  BY DEF Teardown
<1>3. Unanswered'
  <2>1. \A n \in DOMAIN toBroker : toBroker[n].op \in Ops
    BY OnTheWire
  <2>2. \A i \in PacketIds : inflight2[i] # None => inflight2[i] \in Ops
    BY DEF IInv, TypeOK, Tables
  <2> QED
    BY <1>1, <1>2, <2>1, <2>2 DEF ConformingInv, Unanswered
<1>4. ASSUME NEW q \in Ops
      PROVE  FutureOK(q)' /\ OutcomeOK(q)'
  <2>1. FutureOK(q) /\ OutcomeOK(q)
    BY <1>1 DEF ConformingInv
  <2> QED
    BY <1>1, <1>2, <2>1 DEF FutureOK, OutcomeOK, WritesRaise
<1> QED
  BY <1>1, <1>3, <1>4 DEF ConformingInv, NoSpuriousProtocolError

(***************************************************************************)
(* The connection is lost: what was written is lost with it, of what the   *)
(* broker had sent a part may still be read.                               *)
(***************************************************************************)
LEMMA LossConforms ==
    ASSUME IInv, ConformingInv, BrokerDisconnects \/ LoseConnection \/ ResetConnection
    PROVE  ConformingInv'
<1> SUFFICES ASSUME rogue' = 0
             PROVE  ConformingInv'
  BY DEF ConformingInv
<1>1. /\ toBroker' = <<>> /\ conn' # "up" /\ rogue = 0
      /\ UNCHANGED <<session, tasks, fut, verdict, rogue, run>>
      /\ WritesRaise => WritesRaise'
  BY DEF BrokerDisconnects, LoseConnection, ResetConnection, WritesRaise
<1>2. UNCHANGED <<inflight1, inflight2, qos2State, pendingSubs, pendingUnsubs, pc, kind, outcome, loop, cause>>
  BY <1>1 DEF session, tasks, run
<1>3. ASSUME loop # "dead"
      PROVE  Flights'
  <2>0. Flights
    BY <1>1, <1>3 DEF ConformingInv
  <2>1. ASSUME NEW a, AnswerOK(a)
        PROVE  AnswerOK(a)'
    <3>1. SubackOK(a) => SubackOK(a)'
      BY <1>1, <1>2 DEF SubackOK
    <3> QED
      BY <1>1, <1>2, <2>1, <3>1 DEF AnswerOK
  <2>2. CASE ResetConnection
    <3>1. toClient' = <<>>
      BY <2>2 DEF ResetConnection
    <3> QED
      BY <1>1, <3>1 DEF Flights, Alone
  <2>3. CASE LoseConnection
    <3>1. PICK k \in 0 .. Len(toClient) : toClient' = SubSeq(toClient, 1, k)
      BY <2>3 DEF LoseConnection
    <3>2. /\ DOMAIN toClient = 1 .. Len(toClient) /\ DOMAIN toClient' = 1 .. k
          /\ \A n \in 1 .. k : toClient'[n] = toClient[n]
      BY <3>1, OnTheWire, PrefixAt
    <3>3. 1 .. k \subseteq 1 .. Len(toClient)
      BY OnTheWire
    <3>4. \A n \in 1 .. k : AnswerOK(toClient[n])'
      BY <2>0, <2>1, <3>2, <3>3 DEF Flights
    <3>5. \A m, n \in 1 .. k :
             /\ toClient'[m].type # "DISCONNECT" /\ toClient'[n].type # "DISCONNECT"
             /\ toClient'[m].pid = toClient'[n].pid
             => m = n
      BY <2>0, <3>2, <3>3 DEF Flights, Alone
    <3> QED
      BY <1>1, <3>2, <3>4, <3>5 DEF Flights, Alone
  <2>4. CASE BrokerDisconnects
    <3>0. PICK d \in Answers : toClient' = Append(toClient, d) /\ d.type = "DISCONNECT"
      <4>1. [type |-> "DISCONNECT", pid |-> 1, code |-> "ok"] \in Answers
        BY DEF Answers, AnswerTypes, Verdicts, PacketIds
      <4> QED
        BY <2>4, <4>1 DEF BrokerDisconnects
    <3>1. /\ DOMAIN toClient' = 1 .. Len(toClient) + 1 /\ DOMAIN toClient = 1 .. Len(toClient)
          /\ Len(toClient) \in Nat
          /\ \A n \in 1 .. Len(toClient) : toClient'[n] = toClient[n]
          /\ toClient'[Len(toClient) + 1] = d
      BY <3>0, OnTheWire, AppendAt
    <3>2. \A n \in 1 .. Len(toClient) + 1 : n \in 1 .. Len(toClient) \/ n = Len(toClient) + 1
      BY <3>1
    <3>3. AnswerOK(d)'
      BY <1>1, <3>0 DEF AnswerOK
    <3>4. \A n \in DOMAIN toClient' : AnswerOK(toClient[n])'
      BY <2>0, <2>1, <3>1, <3>2, <3>3 DEF Flights
    <3>5. \A m, n \in DOMAIN toClient' :
             /\ toClient'[m].type # "DISCONNECT" /\ toClient'[n].type # "DISCONNECT"
             /\ toClient'[m].pid = toClient'[n].pid
             => m = n
      BY <2>0, <3>0, <3>1, <3>2 DEF Flights, Alone
    <3> QED
      BY <1>1, <3>4, <3>5 DEF Flights, Alone
  <2> QED
    BY <2>2, <2>3, <2>4
<1>4. Unanswered' /\ NoSpuriousProtocolError'
  BY <1>1, <1>2 DEF ConformingInv, Unanswered, NoSpuriousProtocolError
<1>5. \A q \in Ops : FutureOK(q)' /\ OutcomeOK(q)'
  <2>1. \A q \in Ops : FutureOK(q) /\ OutcomeOK(q)
    BY <1>1 DEF ConformingInv
  <2> QED
    BY <1>1, <1>2, <2>1 DEF FutureOK, OutcomeOK
<1> QED
  BY <1>1, <1>2, <1>3, <1>4, <1>5 DEF ConformingInv

(***************************************************************************)
(* The broker answers a request: its answer carries the verdict on the     *)
(* flight the request belongs to, and on no other.                         *)
(***************************************************************************)
LEMMA BrokerConforms ==
    ASSUME IInv, ConformingInv, NEW k \in DOMAIN toBroker, NEW code \in Verdicts, BrokerAnswers(k, code)
    PROVE  ConformingInv'
<1> SUFFICES ASSUME rogue' = 0
             PROVE  ConformingInv'
  BY DEF ConformingInv
<1>0. /\ conn = "up" /\ rogue = 0 /\ toBroker[k] \in Requests
      /\ UNCHANGED <<session, tasks, fut, conn, rogue, run>>
  BY OnTheWire DEF BrokerAnswers
<1>1. UNCHANGED <<inflight1, inflight2, qos2State, pendingSubs, pendingUnsubs, pc, kind, outcome, loop, cause>>
  BY <1>0 DEF session, tasks, run
<1>2. PICK r \in Requests : r = toBroker[k]
  BY <1>0
<1>3. r.pid \in PacketIds /\ r.op \in Ops /\ r.type \in RequestTypes
  BY DEF Requests
<1>4. PICK a \in Answers : a = [type |-> AnswerOf(r.type), pid |-> r.pid, code |-> code]
  BY <1>3 DEF Answers, AnswerOf, AnswerTypes
<1>5. /\ toClient' = Append(toClient, a) /\ toBroker' = RemoveAt(toBroker, k)
      /\ r.type = "PUBREL" => code = "ok"
      /\ verdict' = IF r.type = "PUBLISH2" /\ code = "ok" THEN verdict ELSE [verdict EXCEPT ![r.op] = code]
  BY <1>2, <1>4 DEF BrokerAnswers
<1>6. fut[r.op] \notin {"acked", "rejected"} /\ pc[r.op] # "idle"
  BY <1>0, <1>2, <1>3 DEF ConformingInv, Unanswered, IInv, TasksOK, TaskOK
<1>7. /\ DOMAIN toClient' = 1 .. Len(toClient) + 1 /\ DOMAIN toClient = 1 .. Len(toClient)
      /\ Len(toClient) \in Nat
      /\ \A n \in 1 .. Len(toClient) : toClient'[n] = toClient[n]
      /\ toClient'[Len(toClient) + 1] = a
  BY <1>5, OnTheWire, AppendAt
<1>8. /\ DOMAIN toBroker = 1 .. Len(toBroker) /\ Len(toBroker) \in Nat
      /\ DOMAIN toBroker' = 1 .. Len(toBroker) - 1
      /\ \A n \in 1 .. Len(toBroker) - 1 :
            toBroker'[n] = IF n < k THEN toBroker[n] ELSE toBroker[n + 1]
  BY <1>5, OnTheWire, RemoveAtAt
<1>9. PICK old \in [DOMAIN toBroker' -> DOMAIN toBroker] :
         /\ \A n \in DOMAIN toBroker' : toBroker'[n] = toBroker[old[n]] /\ old[n] # k
         /\ \A m, n \in DOMAIN toBroker' : old[m] = old[n] => m = n
  <2> DEFINE f == [n \in 1 .. Len(toBroker) - 1 |-> IF n < k THEN n ELSE n + 1]
  <2>1. f \in [DOMAIN toBroker' -> DOMAIN toBroker]
    BY <1>8
  <2>2. \A n \in DOMAIN toBroker' : toBroker'[n] = toBroker[f[n]] /\ f[n] # k
    BY <1>8
  <2>3. \A m, n \in DOMAIN toBroker' : f[m] = f[n] => m = n
    BY <1>8
  <2> HIDE DEF f
  <2> QED
    BY <2>1, <2>2, <2>3
<1>10. \A q \in Ops \ {r.op} : verdict'[q] = verdict[q]
  BY <1>3, <1>5 DEF IInv, TypeOK
<1>11. (r.type # "PUBLISH2" \/ code # "ok") => verdict'[r.op] = code
  BY <1>3, <1>5 DEF IInv, TypeOK
<1>12. ASSUME loop # "dead"
       PROVE  Flights'
  <2>0. Flights /\ RequestOK(r)
    BY <1>0, <1>2, <1>12 DEF ConformingInv, Flights
  <2>1. pid[r.op] = r.pid
    BY <1>3, <2>0 DEF RequestOK, RequestTypes, IInv, TablesOK, TableOK
  <2>2. \A j \in PacketIds \ {r.pid} :
           /\ inflight1[j] # None => inflight1[j] \in Ops \ {r.op}
           /\ inflight2[j] # None => inflight2[j] \in Ops \ {r.op}
           /\ pendingSubs[j] # None => pendingSubs[j] \in Ops \ {r.op}
    BY <2>1 DEF IInv, TypeOK, Tables, TablesOK, TableOK
  <2>3. ASSUME NEW n \in DOMAIN toBroker'
        PROVE  RequestOK(toBroker[n])'
    <3>1. PICK m \in DOMAIN toBroker : m = old[n] /\ toBroker'[n] = toBroker[m]
      BY <1>9, <2>3
    <3>2. PICK q : q = toBroker[m]
      OBVIOUS
    <3>3. RequestOK(q)
      BY <2>0, <3>2 DEF Flights
    <3>4. RequestOK(q)'
      BY <1>0, <1>1, <3>3 DEF RequestOK
    <3> QED
      BY <3>1, <3>2, <3>4
  <2>4. ASSUME NEW n \in 1 .. Len(toClient)
        PROVE  AnswerOK(toClient[n])' /\ toClient[n].type # "DISCONNECT" /\ toClient[n].pid # r.pid
    <3>1. PICK b : b = toClient[n]
      OBVIOUS
    <3>2. AnswerOK(b) /\ b.pid \in PacketIds \ {r.pid}
      BY <1>2, <1>7, <2>0, <3>1, OnTheWire DEF Flights, Alone
    <3>3. SubackOK(b) => SubackOK(b)'
      BY <1>0, <1>1, <1>10, <2>2, <3>2 DEF SubackOK, WritesRaise
    <3>4. AnswerOK(b)'
      BY <1>0, <1>1, <1>10, <2>2, <3>2, <3>3 DEF AnswerOK
    <3> QED
      BY <1>0, <1>7, <3>1, <3>2, <3>4 DEF AnswerOK
  <2>5. AnswerOK(a)'
    <3>1. a.type = AnswerOf(r.type) /\ a.pid = r.pid /\ a.code = code
      BY <1>4
    <3>2. r.type = "SUBSCRIBE" => SubackOK(a)'
      BY <1>0, <1>1, <1>3, <1>11, <2>0, <3>1 DEF SubackOK, RequestOK
    <3>3. CASE r.type = "SUBSCRIBE"
      BY <3>1, <3>2, <3>3 DEF AnswerOK, AnswerOf
    <3>4. CASE r.type = "PUBLISH1" \/ r.type = "UNSUBSCRIBE"
      BY <1>0, <1>1, <1>3, <1>11, <2>0, <3>1, <3>4 DEF AnswerOK, AnswerOf, RequestOK
    <3>5. CASE r.type = "PUBLISH2"
      BY <1>0, <1>1, <1>3, <1>11, <2>0, <3>1, <3>5 DEF AnswerOK, AnswerOf, RequestOK
    <3>6. CASE r.type = "PUBREL"
      BY <1>0, <1>1, <1>3, <1>5, <1>11, <2>0, <3>1, <3>6 DEF AnswerOK, AnswerOf, RequestOK
    <3> QED
      BY <1>3, <3>3, <3>4, <3>5, <3>6 DEF RequestTypes
  <2>6. \A n \in 1 .. Len(toClient) + 1 : n \in 1 .. Len(toClient) \/ n = Len(toClient) + 1
    BY <1>7
  <2>7. \A n \in DOMAIN toClient' : AnswerOK(toClient[n])'
    BY <1>7, <2>4, <2>5, <2>6
  <2>8. a.pid = r.pid
    BY <1>4
  <2>9. ASSUME NEW m \in DOMAIN toClient', NEW n \in DOMAIN toClient', toClient'[m].pid = toClient'[n].pid
        PROVE  m = n
    <3>1. CASE m \in 1 .. Len(toClient) /\ n \in 1 .. Len(toClient)
      BY <1>7, <2>0, <2>4, <2>9, <3>1 DEF Flights, Alone
    <3>2. CASE m = Len(toClient) + 1 \/ n = Len(toClient) + 1
      BY <1>7, <2>4, <2>6, <2>8, <2>9, <3>2
    <3> QED
      BY <1>7, <2>6, <3>1, <3>2
  <2>10. ASSUME NEW m \in DOMAIN toBroker', NEW n \in DOMAIN toClient'
         PROVE  toBroker'[m].pid # toClient'[n].pid
    <3>1. toBroker'[m] = toBroker[old[m]] /\ old[m] \in DOMAIN toBroker /\ old[m] # k
      BY <1>9
    <3>2. CASE n \in 1 .. Len(toClient)
      BY <1>7, <2>0, <3>1, <3>2 DEF Flights, Alone
    <3>3. CASE n = Len(toClient) + 1
      BY <1>2, <1>7, <2>0, <2>8, <3>1, <3>3 DEF Flights, Alone
    <3> QED
      BY <1>7, <2>6, <3>2, <3>3
  <2>11. ASSUME NEW m \in DOMAIN toBroker', NEW n \in DOMAIN toBroker', toBroker'[m].pid = toBroker'[n].pid
         PROVE  m = n
    <3>1. old[m] = old[n]
      BY <1>9, <2>0, <2>11 DEF Flights, Alone
    <3> QED
      BY <1>9, <3>1
  <2> QED
    BY <2>1, <2>3, <2>7, <2>9, <2>10, <2>11 DEF Flights, Alone
<1>13. Unanswered'
  <2>1. \A n \in DOMAIN toBroker' : fut'[toBroker'[n].op] \notin {"none", "acked", "rejected"}
    BY <1>0, <1>9 DEF ConformingInv, Unanswered
  <2> QED
    BY <1>0, <1>1, <2>1 DEF ConformingInv, Unanswered
<1>14. ASSUME NEW q \in Ops
       PROVE  FutureOK(q)' /\ OutcomeOK(q)'
  <2>1. FutureOK(q) /\ OutcomeOK(q)
    BY <1>0 DEF ConformingInv
  <2>2. CASE q = r.op
    BY <1>0, <1>1, <1>6, <2>1, <2>2 DEF FutureOK, OutcomeOK, WritesRaise
  <2>3. CASE q # r.op
    BY <1>0, <1>1, <1>10, <2>1, <2>3 DEF FutureOK, OutcomeOK, WritesRaise
  <2> QED
    BY <2>2, <2>3
<1> QED
  BY <1>0, <1>1, <1>6, <1>10, <1>12, <1>13, <1>14 DEF ConformingInv, NoSpuriousProtocolError

(***************************************************************************)
(* A new flight takes an identifier that no packet under way carries,      *)
(* except for a SUBACK or UNSUBACK on a connection that is gone.           *)
(***************************************************************************)
LEMMA StartConforms ==
    ASSUME IInv, ConformingInv, NEW o \in Ops, NEW k \in AllKinds, StartFlight(o, k)
    PROVE  ConformingInv'
<1> SUFFICES ASSUME rogue' = 0
             PROVE  ConformingInv'
  BY DEF ConformingInv
<1>0. PICK i \in PacketIds : i = FirstFree(pool) /\ ~Taken(i)
  BY RegisterFacts DEF StartFlight
<1>1. k \in {"qos1", "qos2", "subscribe", "unsubscribe"}
  BY DEF StartFlight, Register, AllKinds, Publishes
<1>2. PICK r \in Requests : r = [type |-> RequestOf(k), pid |-> i, op |-> o]
  <2>1. RequestOf(k) \in RequestTypes
    BY <1>1 DEF RequestTypes, RequestOf
  <2> QED
    BY <2>1 DEF Requests
<1>3. /\ inflight1' = IF k = "qos1" THEN [inflight1 EXCEPT ![i] = o] ELSE inflight1
      /\ inflight2' = IF k = "qos2" THEN [inflight2 EXCEPT ![i] = o] ELSE inflight2
      /\ qos2State' = IF k = "qos2" THEN [qos2State EXCEPT ![i] = "pending_pubrec"] ELSE qos2State
      /\ pendingSubs' = IF k = "subscribe" THEN [pendingSubs EXCEPT ![i] = o] ELSE pendingSubs
      /\ pendingUnsubs' = IF k = "unsubscribe" THEN [pendingUnsubs EXCEPT ![i] = o] ELSE pendingUnsubs
      /\ toBroker' = IF conn = "up" THEN Append(toBroker, r) ELSE toBroker
      /\ kind' = [kind EXCEPT ![o] = k]
      /\ fut' = [fut EXCEPT ![o] = "pending"]
      /\ pc[o] = "idle"
      /\ UNCHANGED <<outcome, conn, toClient, verdict, rogue, loop, cause>>
  BY <1>0, <1>2 DEF StartFlight, Register, Written, run
<1>4. PICK where \in {"sending", "waiting"} :
         pc' = [pc EXCEPT ![o] = where] /\ (WritesRaise => where = "sending")
  BY DEF StartFlight
<1>5. fut'[o] = "pending" /\ kind'[o] = k /\ pc'[o] = where
  BY <1>3, <1>4 DEF IInv, TypeOK
<1>6. \A q \in Ops \ {o} : fut'[q] = fut[q] /\ kind'[q] = kind[q] /\ pc'[q] = pc[q]
  BY <1>3, <1>4 DEF IInv, TypeOK
<1>7. rogue = 0 /\ verdict[o] = "none" /\ outcome[o] = "none"
  BY <1>3 DEF ConformingInv
<1>8. \A j \in PacketIds \ {i} :
         /\ inflight1'[j] = inflight1[j] /\ inflight2'[j] = inflight2[j] /\ qos2State'[j] = qos2State[j]
         /\ pendingSubs'[j] = pendingSubs[j] /\ pendingUnsubs'[j] = pendingUnsubs[j]
  BY <1>3 DEF IInv, TypeOK, Tables
<1>9. \A j \in PacketIds :
         /\ pendingSubs[j] # None => pendingSubs[j] \in Ops \ {o}
         /\ pendingUnsubs[j] # None => pendingUnsubs[j] \in Ops \ {o}
         /\ inflight2[j] # None => inflight2[j] \in Ops \ {o}
  BY <1>3, ZeroIsNoId DEF IInv, TypeOK, Tables, TablesOK, TableOK, TasksOK, TaskOK
<1>10. ASSUME NEW n \in DOMAIN toBroker
       PROVE  toBroker[n].op \in Ops \ {o}
  <2>1. toBroker[n].op \in Ops /\ fut[toBroker[n].op] # "none"
    BY <1>7, OnTheWire DEF ConformingInv, Unanswered
  <2>2. fut[o] = "none"
    BY <1>3 DEF IInv, TasksOK, TaskOK
  <2> QED
    BY <2>1, <2>2
<1>11. conn = "up" =>
         /\ DOMAIN toBroker' = 1 .. Len(toBroker) + 1 /\ DOMAIN toBroker = 1 .. Len(toBroker)
         /\ Len(toBroker) \in Nat
         /\ \A n \in 1 .. Len(toBroker) : toBroker'[n] = toBroker[n]
         /\ toBroker'[Len(toBroker) + 1] = r
         /\ \A n \in 1 .. Len(toBroker) + 1 : n \in 1 .. Len(toBroker) \/ n = Len(toBroker) + 1
  <2> SUFFICES ASSUME conn = "up"
               PROVE  /\ DOMAIN toBroker' = 1 .. Len(toBroker) + 1 /\ DOMAIN toBroker = 1 .. Len(toBroker)
                      /\ Len(toBroker) \in Nat
                      /\ \A n \in 1 .. Len(toBroker) : toBroker'[n] = toBroker[n]
                      /\ toBroker'[Len(toBroker) + 1] = r
                      /\ \A n \in 1 .. Len(toBroker) + 1 : n \in 1 .. Len(toBroker) \/ n = Len(toBroker) + 1
    OBVIOUS
  <2>1. /\ DOMAIN toBroker' = 1 .. Len(toBroker) + 1 /\ DOMAIN toBroker = 1 .. Len(toBroker)
        /\ Len(toBroker) \in Nat
        /\ \A n \in 1 .. Len(toBroker) : toBroker'[n] = toBroker[n]
        /\ toBroker'[Len(toBroker) + 1] = r
    BY <1>3, OnTheWire, AppendAt
  <2> QED
    BY <2>1
<1>12. conn # "up" => toBroker = <<>> /\ toBroker' = <<>>
  BY <1>3, <1>7 DEF ConformingInv
<1>13. r.pid = i /\ r.op = o /\ r.type = RequestOf(k)
  BY <1>2
<1>14. ASSUME loop # "dead"
       PROVE  Flights'
  <2>0. Flights
    BY <1>7, <1>14 DEF ConformingInv
  <2>1. RequestOK(r)'
    BY <1>1, <1>3, <1>5, <1>13 DEF RequestOK, RequestOf, IInv, TypeOK, Tables
  <2>2. ASSUME NEW n \in DOMAIN toBroker
        PROVE  RequestOK(toBroker[n])' /\ toBroker[n].pid # i /\ toBroker'[n] = toBroker[n]
    <3>1. PICK q : q = toBroker[n]
      OBVIOUS
    <3>2. RequestOK(q) /\ q.pid \in PacketIds /\ q.op \in Ops \ {o} /\ q.type \in RequestTypes
      BY <1>10, <2>0, <3>1, OnTheWire DEF Flights
    <3>3. q.pid # i
      BY <1>0, <3>2 DEF RequestOK, RequestTypes, Taken
    <3>4. RequestOK(q)'
      BY <1>6, <1>8, <3>2, <3>3 DEF RequestOK
    <3>5. toBroker'[n] = toBroker[n]
      BY <1>11, <1>12
    <3> QED
      BY <3>1, <3>3, <3>4, <3>5
  <2>3. ASSUME NEW n \in DOMAIN toClient
        PROVE  AnswerOK(toClient[n])' /\ (conn = "up" => toClient[n].pid # i)
    <3>1. PICK a : a = toClient[n]
      OBVIOUS
    <3>2. AnswerOK(a) /\ a.pid \in PacketIds /\ a.type \in AnswerTypes
      BY <2>0, <3>1, OnTheWire DEF Flights
    <3>3. CASE a.pid # i
      <4>1. SubackOK(a) => SubackOK(a)'
        BY <1>3, <1>6, <1>8, <1>9, <3>2, <3>3 DEF SubackOK, WritesRaise
      <4>2. AnswerOK(a)'
        BY <1>3, <1>6, <1>8, <1>9, <3>2, <3>3, <4>1 DEF AnswerOK
      <4> QED
        BY <1>3, <3>1, <3>3, <4>2
    <3>4. CASE a.pid = i
      <4>1. a.type \in {"SUBACK", "UNSUBACK", "DISCONNECT"} /\ conn # "up"
        BY <1>0, <3>2, <3>4 DEF AnswerOK, SubackOK, AnswerTypes, Taken, WritesRaise
      <4>2. a.type = "SUBACK" => WritesRaise
        BY <1>0, <3>2, <3>4 DEF AnswerOK, SubackOK, Taken
      <4>3. pendingSubs'[i] = IF k = "subscribe" THEN o ELSE None
        BY <1>0, <1>3 DEF Taken, IInv, TypeOK, Tables
      <4>4. a.type = "SUBACK" => SubackOK(a)'
        BY <1>3, <1>4, <1>5, <3>4, <4>2, <4>3 DEF SubackOK, WritesRaise
      <4>5. AnswerOK(a)'
        BY <1>3, <4>1, <4>4 DEF AnswerOK
      <4> QED
        BY <1>3, <3>1, <4>1, <4>5
    <3> QED
      BY <3>3, <3>4
  <2>4. CASE conn = "up"
    <3>1. \A n \in DOMAIN toBroker' : RequestOK(toBroker[n])'
      BY <1>11, <2>1, <2>2, <2>4
    <3>2. ASSUME NEW m \in DOMAIN toBroker', NEW n \in DOMAIN toBroker', toBroker'[m].pid = toBroker'[n].pid
          PROVE  m = n
      <4>1. \A j \in DOMAIN toBroker : toBroker'[j] = toBroker[j] /\ toBroker[j].pid # i
        BY <2>2
      <4>2. toBroker'[Len(toBroker) + 1].pid = i
        BY <1>11, <1>13, <2>4
      <4>3. m \in DOMAIN toBroker /\ n \in DOMAIN toBroker => m = n
        BY <2>0, <3>2, <4>1 DEF Flights, Alone
      <4> QED
        BY <1>11, <2>4, <3>2, <4>1, <4>2, <4>3
    <3>3. ASSUME NEW m \in DOMAIN toBroker', NEW n \in DOMAIN toClient
          PROVE  toBroker'[m].pid # toClient[n].pid
      <4>1. CASE m \in DOMAIN toBroker
        BY <2>0, <2>2, <4>1 DEF Flights, Alone
      <4>2. CASE m = Len(toBroker) + 1
        BY <1>11, <1>13, <2>3, <2>4, <4>2
      <4> QED
        BY <1>11, <2>4, <4>1, <4>2
    <3>4. Alone'
      BY <1>3, <2>0, <3>2, <3>3 DEF Flights, Alone
    <3> QED
      BY <1>3, <2>3, <3>1, <3>4 DEF Flights
  <2>5. CASE conn # "up"
    <3>1. Alone'
      BY <1>3, <1>12, <2>0, <2>5 DEF Flights, Alone
    <3> QED
      BY <1>3, <1>12, <2>3, <2>5, <3>1 DEF Flights
  <2> QED
    BY <2>4, <2>5
<1>15. Unanswered'
  <2>1. ASSUME NEW n \in DOMAIN toBroker'
        PROVE  fut'[toBroker'[n].op] \notin {"none", "acked", "rejected"}
    <3>1. CASE n \in DOMAIN toBroker
      <4>1. toBroker'[n] = toBroker[n]
        BY <1>11, <1>12, <3>1
      <4> QED
        BY <1>6, <1>7, <1>10, <3>1, <4>1 DEF ConformingInv, Unanswered
    <3>2. CASE n \notin DOMAIN toBroker
      BY <1>5, <1>11, <1>12, <1>13, <3>2
    <3> QED
      BY <3>1, <3>2
  <2>2. ASSUME NEW j \in PacketIds, inflight2'[j] # None
        PROVE  fut'[inflight2'[j]] \notin {"none", "acked", "rejected"}
    <3>1. inflight2'[j] = o \/ (inflight2'[j] = inflight2[j])
      BY <1>3 DEF IInv, TypeOK, Tables
    <3> QED
      BY <1>5, <1>6, <1>7, <1>9, <2>2, <3>1 DEF ConformingInv, Unanswered
  <2> QED
    BY <2>1, <2>2 DEF Unanswered
<1>16. ASSUME NEW q \in Ops
       PROVE  /\ FutureOK(q)' /\ OutcomeOK(q)'
              /\ pc'[q] = "unwinding" => kind'[q] \in Publishes
              /\ pc'[q] = "idle" => verdict'[q] = "none" /\ outcome'[q] = "none"
  <2>1. CASE q = o
    BY <1>3, <1>5, <1>7, <2>1 DEF FutureOK, OutcomeOK
  <2>2. CASE q # o
    BY <1>3, <1>6, <1>7, <2>2 DEF ConformingInv, FutureOK, OutcomeOK, WritesRaise
  <2> QED
    BY <2>1, <2>2
<1> QED
  BY <1>3, <1>7, <1>12, <1>14, <1>15, <1>16 DEF ConformingInv, NoSpuriousProtocolError

\* The flight of a publish that could not be encoded waits for no packet under way.
LEMMA StrandConforms ==
    ASSUME IInv, ConformingInv, NEW o \in Ops, NEW k \in AllKinds, StrandPublish(o, k)
    PROVE  ConformingInv'
<1> SUFFICES ASSUME rogue' = 0
             PROVE  ConformingInv'
  BY DEF ConformingInv
<1>1. /\ k \in {"qos1", "qos2"} /\ Register(o, k)
      /\ pc' = [pc EXCEPT ![o] = "done"] /\ outcome' = [outcome EXCEPT ![o] = "unencodable"]
      /\ UNCHANGED <<toBroker, toClient, conn, verdict, rogue, loop, cause>>
  BY DEF StrandPublish, net, run
<1>2. PICK i \in PacketIds :
              /\ i = FirstFree(pool) /\ ~Taken(i)
              /\ inflight1' = IF k = "qos1" THEN [inflight1 EXCEPT ![i] = o] ELSE inflight1
              /\ inflight2' = IF k = "qos2" THEN [inflight2 EXCEPT ![i] = o] ELSE inflight2
              /\ qos2State' = IF k = "qos2" THEN [qos2State EXCEPT ![i] = "pending_pubrec"] ELSE qos2State
              /\ pendingSubs' = IF k = "subscribe" THEN [pendingSubs EXCEPT ![i] = o] ELSE pendingSubs
              /\ pendingUnsubs' = IF k = "unsubscribe" THEN [pendingUnsubs EXCEPT ![i] = o] ELSE pendingUnsubs
              /\ kind' = [kind EXCEPT ![o] = k]
              /\ fut' = [fut EXCEPT ![o] = "pending"]
              /\ pc[o] = "idle"
  BY <1>1, RegisterFacts
<1>3. pendingSubs' = pendingSubs /\ pendingUnsubs' = pendingUnsubs
  BY <1>1, <1>2
<1>4. fut'[o] = "pending" /\ kind'[o] = k /\ pc'[o] = "done" /\ outcome'[o] = "unencodable"
  BY <1>1, <1>2 DEF IInv, TypeOK
<1>5. \A q \in Ops \ {o} : /\ fut'[q] = fut[q] /\ kind'[q] = kind[q]
                           /\ pc'[q] = pc[q] /\ outcome'[q] = outcome[q]
  BY <1>1, <1>2 DEF IInv, TypeOK
<1>6. \A j \in PacketIds \ {i} :
         inflight1'[j] = inflight1[j] /\ inflight2'[j] = inflight2[j] /\ qos2State'[j] = qos2State[j]
  BY <1>2 DEF IInv, TypeOK, Tables
<1>7. \A j \in PacketIds :
         /\ pendingSubs[j] # None => pendingSubs[j] \in Ops \ {o}
         /\ pendingUnsubs[j] # None => pendingUnsubs[j] \in Ops \ {o}
         /\ inflight2[j] # None => inflight2[j] \in Ops \ {o}
  BY <1>2, ZeroIsNoId DEF IInv, TypeOK, Tables, TablesOK, TableOK, TasksOK, TaskOK
<1>8. rogue = 0
  BY <1>1
<1>9. ASSUME NEW n \in DOMAIN toBroker
      PROVE  toBroker[n].op \in Ops \ {o}
  <2>1. toBroker[n].op \in Ops /\ fut[toBroker[n].op] # "none"
    BY <1>8, OnTheWire DEF ConformingInv, Unanswered
  <2>2. fut[o] = "none"
    BY <1>2 DEF IInv, TasksOK, TaskOK
  <2> QED
    BY <2>1, <2>2
<1>10. ASSUME loop # "dead"
       PROVE  Flights'
  <2>0. Flights
    BY <1>8, <1>10 DEF ConformingInv
  <2>1. ASSUME NEW n \in DOMAIN toBroker
        PROVE  RequestOK(toBroker[n])'
    <3>1. PICK q : q = toBroker[n]
      OBVIOUS
    <3>2. RequestOK(q) /\ q.pid \in PacketIds /\ q.op \in Ops \ {o} /\ q.type \in RequestTypes
      BY <1>9, <2>0, <3>1, OnTheWire DEF Flights
    <3>3. q.pid # i
      BY <1>2, <3>2 DEF RequestOK, RequestTypes, Taken
    <3>4. RequestOK(q)'
      BY <1>3, <1>5, <1>6, <3>2, <3>3 DEF RequestOK
    <3> QED
      BY <1>1, <3>1, <3>4
  <2>2. ASSUME NEW n \in DOMAIN toClient
        PROVE  AnswerOK(toClient[n])'
    <3>1. PICK a : a = toClient[n]
      OBVIOUS
    <3>2. AnswerOK(a) /\ a.pid \in PacketIds /\ a.type \in AnswerTypes
      BY <2>0, <3>1, OnTheWire DEF Flights
    <3>3. SubackOK(a) => SubackOK(a)'
      BY <1>1, <1>3, <1>5, <1>7, <3>2 DEF SubackOK, WritesRaise
    <3>4. CASE a.pid # i
      <4>1. AnswerOK(a)'
        BY <1>1, <1>3, <1>5, <1>6, <1>7, <3>2, <3>3, <3>4 DEF AnswerOK
      <4> QED
        BY <1>1, <3>1, <4>1
    <3>5. CASE a.pid = i
      <4>1. a.type \in {"SUBACK", "UNSUBACK", "DISCONNECT"}
        BY <1>2, <3>2, <3>5 DEF AnswerOK, AnswerTypes, Taken
      <4>2. AnswerOK(a)'
        BY <1>1, <1>3, <1>5, <1>7, <3>2, <3>3, <4>1 DEF AnswerOK
      <4> QED
        BY <1>1, <3>1, <4>2
    <3> QED
      BY <3>4, <3>5
  <2>3. Alone'
    BY <1>1, <2>0 DEF Flights, Alone
  <2> QED
    BY <1>1, <2>1, <2>2, <2>3 DEF Flights
<1>11. Unanswered'
  <2>1. ASSUME NEW n \in DOMAIN toBroker
        PROVE  fut'[toBroker[n].op] \notin {"none", "acked", "rejected"}
    BY <1>5, <1>8, <1>9 DEF ConformingInv, Unanswered
  <2>2. ASSUME NEW j \in PacketIds, inflight2'[j] # None
        PROVE  fut'[inflight2'[j]] \notin {"none", "acked", "rejected"}
    <3>1. inflight2'[j] = o \/ inflight2'[j] = inflight2[j]
      BY <1>2 DEF IInv, TypeOK, Tables
    <3> QED
      BY <1>4, <1>5, <1>7, <1>8, <2>2, <3>1 DEF ConformingInv, Unanswered
  <2> QED
    BY <1>1, <2>1, <2>2 DEF Unanswered
<1>12. ASSUME NEW q \in Ops
       PROVE  /\ FutureOK(q)' /\ OutcomeOK(q)'
              /\ pc'[q] = "unwinding" => kind'[q] \in Publishes
              /\ pc'[q] = "idle" => verdict'[q] = "none" /\ outcome'[q] = "none"
  <2>1. CASE q = o
    BY <1>4, <2>1 DEF FutureOK, OutcomeOK
  <2>2. CASE q # o
    BY <1>1, <1>5, <1>8, <2>2 DEF ConformingInv, FutureOK, OutcomeOK, WritesRaise
  <2> QED
    BY <2>1, <2>2
<1> QED
  BY <1>1, <1>8, <1>10, <1>11, <1>12 DEF ConformingInv, NoSpuriousProtocolError

\* A broker that makes packets up is not what the invariant is about.
LEMMA MadeUpConforms ==
    ASSUME IInv, NEW a, BrokerMakesUp(a)
    PROVE  ConformingInv'
  BY DEF BrokerMakesUp, IInv, TypeOK, ConformingInv

\* Every step keeps the invariant.
LEMMA NextConforming ==
    ASSUME SubscribesUncancelled, IInv, ConformingInv, [Next]_vars
    PROVE  ConformingInv'
<1>1. ASSUME NEW o \in Ops, NEW k \in Kinds,
             Refused(o, k) \/ StrandPublish(o, k) \/ StartFlight(o, k)
      PROVE  ConformingInv'
  BY <1>1, UnregisteredConforms, StrandConforms, StartConforms
<1>2. ASSUME NEW o \in Ops, PublishQos0(o) \/ TaskStep(o) \/ Cancel(o)
      PROVE  ConformingInv'
  BY <1>2, UnregisteredConforms, TaskStepConforms, CancelConforms
<1>3. CASE Broker
  <2>1. 1 .. Len(toBroker) = DOMAIN toBroker
    BY DEF IInv, TypeOK
  <2> QED
    BY <1>3, <2>1, BrokerConforms DEF Broker
<1>4. CASE \E a \in Answers : BrokerMakesUp(a)
  BY <1>4, MadeUpConforms
<1>5. CASE BrokerDisconnects \/ LoseConnection \/ ResetConnection
  BY <1>5, LossConforms
<1>6. CASE Dispatch
  BY <1>6, CompleteConforms, PubrecConforms, SettleConforms, RaisingConforms DEF Dispatch
<1>7. CASE ReadEof \/ ReaderDrained \/ PingTimeout \/ CancelRun \/ UNCHANGED vars
  BY <1>7, LoopConforms
<1>8. CASE Teardown
  BY <1>8, TeardownConforms
<1> QED
  BY <1>1, <1>2, <1>3, <1>4, <1>5, <1>6, <1>7, <1>8 DEF Next, Refused

(***************************************************************************)
(* With a conforming broker every packet under way belongs to the flight   *)
(* that waits for it.                                                      *)
(***************************************************************************)
LEMMA SpecConforming ==
    ASSUME SubscribesUncancelled
    PROVE  Spec => []ConformingInv
<1>1. IInv /\ ConformingInv /\ [Next]_vars => ConformingInv'
  BY NextConforming
<1> QED
  BY <1>1, InitConforming, SpecIInv, PTL DEF Spec

(***************************************************************************)
(* A call reports success only after the broker's positive final answer to *)
(* that very request, and a rejection only after a negative one: as long   *)
(* as the broker has sent nothing it was not asked for, and no subscribe   *)
(* or unsubscribe is cancelled.                                            *)
(***************************************************************************)
THEOREM OutcomesMatch ==
    ASSUME SubscribesUncancelled
    PROVE  Spec => [](rogue = 0 => OutcomeMatchesBroker)
<1>1. ConformingInv => (rogue = 0 => OutcomeMatchesBroker)
  BY DEF ConformingInv, OutcomeOK, OutcomeMatchesBroker
<1> QED
  BY <1>1, SpecConforming, PTL

(***************************************************************************)
(* A conforming broker on a live connection never makes the read loop      *)
(* raise MQTTProtocolError or InvalidStateError, if no subscribe or        *)
(* unsubscribe is cancelled.                                               *)
(***************************************************************************)
THEOREM NoSpuriousErrors ==
    ASSUME SubscribesUncancelled
    PROVE  Spec => []NoSpuriousProtocolError
<1>1. ConformingInv => NoSpuriousProtocolError
  BY DEF ConformingInv, NoSpuriousProtocolError
<1> QED
  BY <1>1, SpecConforming, PTL

\* What Qos2Handshake says of one step.
HandshakeStep ==
    \A i \in PacketIds :
       LET o == inflight2[i] IN
       o # None =>
          /\ (qos2State[i] = "pending_pubcomp" /\ inflight2'[i] = o) =>
                  qos2State'[i] = "pending_pubcomp"
          /\ (qos2State[i] = "pending_pubrec" /\ inflight2'[i] # o) => fut'[o] # "acked"

(***************************************************************************)
(* Only PUBREC moves a QoS 2 flight on and only a rejection or PUBCOMP     *)
(* ends it; PUBCOMP finds it waiting for PUBCOMP, although the handler     *)
(* does not look.                                                          *)
(***************************************************************************)
LEMMA NextHandshake ==
    ASSUME IInv, ConformingInv, rogue = 0, [Next]_vars
    PROVE  HandshakeStep
<1>0. ASSUME UNCHANGED <<inflight2, qos2State>>
      PROVE  HandshakeStep
  BY <1>0 DEF HandshakeStep
<1>1. ASSUME NEW o \in Ops, NEW k \in Kinds,
             Refused(o, k) \/ StrandPublish(o, k) \/ StartFlight(o, k)
      PROVE  HandshakeStep
  <2>1. CASE Refused(o, k)
    BY <1>0, <2>1 DEF Refused, RefuseDead, RefuseQos, RefuseExhausted, RefuseUnencodable, Refuse, EndsUnsent
  <2>2. CASE StartFlight(o, k) \/ StrandPublish(o, k)
    <3>0. Register(o, k)
      BY <2>2 DEF StartFlight, StrandPublish
    <3>1. PICK i \in PacketIds : i = FirstFree(pool) /\ ~Taken(i)
      BY <3>0, RegisterFacts
    <3>2. \A j \in PacketIds \ {i} : inflight2'[j] = inflight2[j] /\ qos2State'[j] = qos2State[j]
      BY <3>0, <3>1 DEF Register, IInv, TypeOK, Tables
    <3> QED
      BY <3>1, <3>2 DEF HandshakeStep, Taken
  <2> QED
    BY <1>1, <2>1, <2>2
<1>2. ASSUME NEW o \in Ops, PublishQos0(o) \/ TaskStep(o) \/ Cancel(o)
      PROVE  HandshakeStep
  BY <1>0, <1>2 DEF PublishQos0, TaskStep, Drained, SendFails, Resume, Unwind, Finish, Cancel, session
<1>3. CASE \/ Broker \/ (\E a \in Answers : BrokerMakesUp(a))
           \/ BrokerDisconnects \/ LoseConnection \/ ResetConnection
           \/ ReadEof \/ ReaderDrained \/ PingTimeout \/ CancelRun \/ Teardown \/ UNCHANGED vars
  BY <1>0, <1>3 DEF Broker, BrokerAnswers, BrokerMakesUp, BrokerDisconnects, LoseConnection, ResetConnection,
                    ReadEof, ReaderDrained, PingTimeout, CancelRun, Teardown, session, vars
<1>4. CASE HandlePubrec
  <2>1. PICK i \in PacketIds : i = Head(toClient).pid
    BY <1>4, HeadOnTheWire DEF HandlePubrec
  <2>2. inflight2' = inflight2 /\ qos2State' = [qos2State EXCEPT ![i] = "pending_pubcomp"]
    BY <1>4, <2>1 DEF HandlePubrec
  <2>3. \A j \in PacketIds : qos2State'[j] = qos2State[j] \/ qos2State'[j] = "pending_pubcomp"
    BY <2>2 DEF IInv, TypeOK
  <2> QED
    BY <2>2, <2>3 DEF HandshakeStep
<1>5. CASE HandlePubrecRejected
  <2>1. PICK i \in PacketIds : i = Head(toClient).pid
    BY <1>5, HeadOnTheWire DEF HandlePubrecRejected
  <2>2. PICK o \in Ops : o = inflight2[i]
    BY <1>5, <2>1 DEF HandlePubrecRejected, IInv, TypeOK, Tables
  <2>3. /\ qos2State' = qos2State /\ inflight2' = [inflight2 EXCEPT ![i] = None]
        /\ fut' = IF fut[o] = "pending" THEN [fut EXCEPT ![o] = "rejected"] ELSE fut
    BY <1>5, <2>1, <2>2 DEF HandlePubrecRejected, Complete
  <2>4. fut[o] # "acked"
    BY <2>2 DEF ConformingInv, Unanswered
  <2>5. fut'[o] # "acked"
    BY <2>3, <2>4 DEF IInv, TypeOK
  <2>6. \A j \in PacketIds \ {i} : inflight2'[j] = inflight2[j]
    BY <2>3 DEF IInv, TypeOK, Tables
  <2> QED
    BY <2>2, <2>3, <2>5, <2>6 DEF HandshakeStep
<1>6. CASE HandlePubcomp
  <2>0. Receive("PUBCOMP")
    BY <1>6 DEF HandlePubcomp
  <2>1. PICK i \in PacketIds : i = Head(toClient).pid
    BY <2>0, HeadOnTheWire
  <2>2. qos2State[i] = "pending_pubcomp"
    <3>1. AnswerOK(Head(toClient)) /\ Head(toClient).type = "PUBCOMP"
      BY <2>0, HeadOnTheWire
    <3> QED
      BY <2>1, <3>1 DEF AnswerOK
  <2>3. qos2State' = qos2State /\ inflight2' = [inflight2 EXCEPT ![i] = None]
    BY <1>6, <2>1 DEF HandlePubcomp
  <2>4. \A j \in PacketIds \ {i} : inflight2'[j] = inflight2[j]
    BY <2>3 DEF IInv, TypeOK, Tables
  <2> QED
    BY <2>2, <2>3, <2>4 DEF HandshakeStep
<1>7. CASE Dispatch /\ ~(HandlePubrec \/ HandlePubrecRejected \/ HandlePubcomp)
  BY <1>0, <1>7 DEF Dispatch, HandlePuback, HandlePubrecWrongState, HandleSuback, HandleUnsuback, Settle,
                    HandleUnknown, HandleDisconnect, HandleOther, session
<1> QED
  BY <1>1, <1>2, <1>3, <1>4, <1>5, <1>6, <1>7 DEF Next, Refused

(***************************************************************************)
(* The four-way handshake of QoS 2 keeps its order with a conforming       *)
(* broker, if no subscribe or unsubscribe is cancelled.                    *)
(***************************************************************************)
THEOREM HandshakeKeepsOrder ==
    ASSUME SubscribesUncancelled, MaxRogue = 0
    PROVE  Spec => Qos2Handshake
<1>1. IInv => rogue = 0
  BY DEF IInv, TypeOK
<1>2. IInv /\ ConformingInv /\ [Next]_vars => [HandshakeStep]_vars
  BY <1>1, NextHandshake
<1>3. Spec => [][HandshakeStep]_vars
  BY <1>2, SpecIInv, SpecConforming, PTL DEF Spec
<1> QED
  BY <1>3 DEF Qos2Handshake, HandshakeStep

=============================================================================
