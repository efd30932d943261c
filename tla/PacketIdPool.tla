---------------------------- MODULE PacketIdPool ----------------------------
(***************************************************************************)
(* The allocator of MQTT packet identifiers (class PacketIdPool).  A pool  *)
(* is a record: next is where the scan for a free identifier starts, inUse *)
(* the identifiers that are taken.  The code's 65535 is MaxPacketId.       *)
(***************************************************************************)
EXTENDS Naturals, FiniteSetsExt

CONSTANT MaxPacketId

ASSUME MaxPacketIdAssumption == MaxPacketId \in Nat \ {0}

PacketIds == 1 .. MaxPacketId

EmptyPool == [next |-> 1, inUse |-> {}]

Pools == [next : PacketIds, inUse : SUBSET PacketIds]

FreeIds(pool) == PacketIds \ pool.inUse

CanAcquire(pool) == Cardinality(pool.inUse) < MaxPacketId

(***************************************************************************)
(* The loop of acquire(): walk upwards from next, from the top back to 1,  *)
(* until the walk meets an identifier that is not in use.                  *)
(***************************************************************************)
FirstFree(pool) ==
    LET ahead == {i \in FreeIds(pool) : i >= pool.next}
    IN  IF ahead # {} THEN Min(ahead) ELSE Min(FreeIds(pool))

\* Mutant: no wrap at the top.
SuccessorNoWrap(i) == i + 1

Successor(i) == IF i = MaxPacketId THEN 1 ELSE i + 1

Acquire(pool) ==
    LET pid == FirstFree(pool)
    IN  [next |-> Successor(pid), inUse |-> pool.inUse \cup {pid}]

Release(pool, pid) ==
    [next  |-> IF pid < pool.next THEN pid ELSE pool.next,
     inUse |-> pool.inUse \ {pid}]

(***************************************************************************)
(* Every identifier below next is taken, so the scan never has to wrap and *)
(* acquire() returns the lowest free identifier.                           *)
(***************************************************************************)
ScanStartsAtLowest(pool) == \A i \in PacketIds : i < pool.next => i \in pool.inUse

=============================================================================
