------------------------- MODULE SubscriptionGuards -------------------------
(***************************************************************************)
(* The per-filter guards of a connection (protocol.py, _SubscriptionGuard  *)
(* and _SubscriptionGuards): subscribe(), unsubscribe() and the response   *)
(* observers run inside hold(filters).  A guard is an object with a lock   *)
(* and a count of users; the table maps a filter to its guard while it has *)
(* users.  Objects have identity here: two callers that hold two objects   *)
(* of one filter exclude nobody, so the table must not forget an object    *)
(* that somebody still refers to.                                          *)
(*                                                                         *)
(* asyncio.Lock is external: its waiters are served in arrival order, a    *)
(* free lock with waiters goes to the first of them, and a waiter that is  *)
(* cancelled leaves the queue.  A task runs from one suspension to the     *)
(* next in one step: hold() takes as many locks as are free.               *)
(***************************************************************************)
EXTENDS Naturals, Sequences, FiniteSets

CONSTANTS Callers,     \* the tasks that call hold()
          Filters,     \* topic filters: numbers, ordered as sorted() orders
          Slots,       \* identities of the guard objects of one filter
          None

ASSUME FiltersAssumption == Filters \subseteq Nat
ASSUME CallersAssumption == IsFiniteSet(Callers)
ASSUME NoneAssumption == None \notin Callers /\ None \notin Slots

VARIABLES
    guards,     \* _guards: filter |-> the object in the table, or None
    users,      \* users[f][k]: the user count of object k of filter f
    holder,     \* holder[f][k]: the caller that has its lock, or None
    waiters,    \* waiters[f][k]: the callers queued on its lock
    entries,    \* entries[c][f]: the object c noted for f, or None
    acquired,   \* the filters whose locks a caller has
    pc          \* "idle", "waiting" for a lock, or "inside" the body

vars == <<guards, users, holder, waiters, entries, acquired, pc>>

(* The filters a call of hold() names.                                     *)
Named(c) == {f \in Filters : entries[c][f] # None}

\* Mutant: the filters are taken as each caller lists them, not sorted.
BeforeAsListed(c, f, g) == IF c = CHOOSE d \in Callers : TRUE THEN g < f ELSE f < g

(* sorted(set(filters)): c takes the lock of f before the lock of g.       *)
Before(c, f, g) == f < g

(* lock.acquire() returns without waiting; the lock is handed to c, the    *)
(* first of its waiters.                                                   *)
Free(f, k) == holder[f][k] = None /\ waiters[f][k] = <<>>
Granted(c, f, k) == holder[f][k] = None /\ waiters[f][k] # <<>> /\ Head(waiters[f][k]) = c

-----------------------------------------------------------------------------
Init ==
    /\ guards = [f \in Filters |-> None]
    /\ users = [f \in Filters |-> [k \in Slots |-> 0]]
    /\ holder = [f \in Filters |-> [k \in Slots |-> None]]
    /\ waiters = [f \in Filters |-> [k \in Slots |-> <<>>]]
    /\ entries = [c \in Callers |-> [f \in Filters |-> None]]
    /\ acquired = [c \in Callers |-> {}]
    /\ pc = [c \in Callers |-> "idle"]

(* An identity nobody refers to stands for a newly made object.            *)
Unused(f, k) == guards[f] # k /\ \A c \in Callers : entries[c][f] # k

\* Mutant: a call always makes a guard of its own.
ObjectOfCall(f) == CHOOSE k \in Slots : Unused(f, k)

(* setdefault(filter, _SubscriptionGuard())                                *)
ObjectOf(f) ==
    IF guards[f] # None THEN guards[f] ELSE CHOOSE k \in Slots : Unused(f, k)

(* The loop over the entries es of c: it takes, in order, the locks of the *)
(* filters in rest until it meets one that is not free; it joins the queue *)
(* of that one, or enters the body when there is none.  The locks of the   *)
(* filters in handed have just been granted to it.                         *)
AcquireFrom(c, rest, es, handed) ==
    \E got \in SUBSET rest :
        LET left == rest \ got
            blocked == {f \in left : \A g \in left \ {f} : Before(c, f, g)}
        IN  /\ \A f \in got, g \in left : Before(c, f, g)
            /\ \A f \in got : f \in handed \/ Free(f, es[f])
            /\ \A f \in blocked : f \notin handed /\ ~ Free(f, es[f])
            /\ acquired' = [acquired EXCEPT ![c] = @ \cup got]
            /\ holder' = [f \in Filters |->
                    IF f \in got THEN [holder[f] EXCEPT ![es[f]] = c] ELSE holder[f]]
            /\ waiters' = [f \in Filters |->
                    IF f \in handed THEN [waiters[f] EXCEPT ![es[f]] = Tail(@)]
                    ELSE IF f \in blocked THEN [waiters[f] EXCEPT ![es[f]] = Append(@, c)]
                    ELSE waiters[f]]
            /\ pc' = [pc EXCEPT ![c] = IF left = {} THEN "inside" ELSE "waiting"]

(* hold(): the guard of every filter is looked up or made, and counted,    *)
(* before the first lock is waited for.                                    *)
Hold(c, fs) ==
    /\ pc[c] = "idle"
    /\ \A f \in fs : guards[f] = None => \E k \in Slots : Unused(f, k)
    /\ LET es == [f \in Filters |-> IF f \in fs THEN ObjectOf(f) ELSE None]
       IN  /\ entries' = [entries EXCEPT ![c] = es]
           /\ guards' = [f \in Filters |-> IF f \in fs THEN es[f] ELSE guards[f]]
           /\ users' = [f \in Filters |->
                  IF f \in fs THEN [users[f] EXCEPT ![es[f]] = @ + 1] ELSE users[f]]
           /\ AcquireFrom(c, fs, es, {})

(* The lock c waits for is handed to it; it goes on to the next ones.      *)
Resume(c) ==
    /\ pc[c] = "waiting"
    /\ \E f \in Named(c) :
           /\ Granted(c, f, entries[c][f])
           /\ AcquireFrom(c, Named(c) \ acquired[c], entries[c], {f})
    /\ UNCHANGED <<guards, users, entries>>

\* Mutant: the guard is dropped although others use it.
ReleasePopsShared(c) ==
    LET es == entries[c]
    IN  /\ holder' = [f \in Filters |->
               IF f \in acquired[c] THEN [holder[f] EXCEPT ![es[f]] = None] ELSE holder[f]]
        /\ waiters' = [f \in Filters |-> [k \in Slots |->
               SelectSeq(waiters[f][k], LAMBDA d : d # c)]]
        /\ users' = [f \in Filters |->
               IF f \in Named(c) THEN [users[f] EXCEPT ![es[f]] = @ - 1] ELSE users[f]]
        /\ guards' = [f \in Filters |-> IF f \in Named(c) THEN None ELSE guards[f]]
        /\ entries' = [entries EXCEPT ![c] = [f \in Filters |-> None]]
        /\ acquired' = [acquired EXCEPT ![c] = {}]
        /\ pc' = [pc EXCEPT ![c] = "idle"]

(* The finally clause: the acquired locks are released, every entry loses  *)
(* a user, and a guard without users leaves the table.  A cancelled waiter *)
(* has left the queue of its lock.                                         *)
Release(c) ==
    LET es == entries[c]
        last(f) == f \in Named(c) /\ users[f][es[f]] = 1
    IN  /\ holder' = [f \in Filters |->
               IF f \in acquired[c] THEN [holder[f] EXCEPT ![es[f]] = None] ELSE holder[f]]
        /\ waiters' = [f \in Filters |-> [k \in Slots |->
               SelectSeq(waiters[f][k], LAMBDA d : d # c)]]
        /\ users' = [f \in Filters |->
               IF f \in Named(c) THEN [users[f] EXCEPT ![es[f]] = @ - 1] ELSE users[f]]
        /\ guards' = [f \in Filters |-> IF last(f) THEN None ELSE guards[f]]
        /\ entries' = [entries EXCEPT ![c] = [f \in Filters |-> None]]
        /\ acquired' = [acquired EXCEPT ![c] = {}]
        /\ pc' = [pc EXCEPT ![c] = "idle"]

(* The body ends: it returns, raises or is cancelled.                      *)
Exit(c) == pc[c] = "inside" /\ Release(c)

(* The task is cancelled while it waits for a lock.                        *)
CancelWait(c) == pc[c] = "waiting" /\ Release(c)

Next == \E c \in Callers :
            \/ \E fs \in (SUBSET Filters) \ {{}} : Hold(c, fs)
            \/ Resume(c)
            \/ Exit(c)
            \/ CancelWait(c)

Spec == Init /\ [][Next]_vars

(* The event loop runs a task whose lock was handed over, and a body ends: *)
(* it waits for a SUBACK or UNSUBACK that comes, or for the connection to  *)
(* be lost.                                                                *)
Fairness == \A c \in Callers : WF_vars(Resume(c)) /\ WF_vars(Exit(c))

FairSpec == Spec /\ Fairness

-----------------------------------------------------------------------------
TypeOK ==
    /\ guards \in [Filters -> Slots \cup {None}]
    /\ users \in [Filters -> [Slots -> Nat]]
    /\ holder \in [Filters -> [Slots -> Callers \cup {None}]]
    /\ DOMAIN waiters = Filters
    /\ entries \in [Callers -> [Filters -> Slots \cup {None}]]
    /\ acquired \in [Callers -> SUBSET Filters]
    /\ pc \in [Callers -> {"idle", "waiting", "inside"}]

(* The callers that refer to object k of filter f.                         *)
UsersOf(f, k) == {c \in Callers : entries[c][f] = k}

(* A count is the number of callers that refer to the object, and the      *)
(* locks a caller acquired are those of the objects it noted.              *)
Bookkeeping ==
    /\ \A f \in Filters, k \in Slots : users[f][k] = Cardinality(UsersOf(f, k))
    /\ \A c \in Callers :
           /\ acquired[c] \subseteq Named(c)
           /\ pc[c] = "inside" => acquired[c] = Named(c)
           /\ pc[c] = "idle" <=> Named(c) = {}
           /\ \A f \in acquired[c] : holder[f][entries[c][f]] = c

(* hold() counts its users before it waits and the last one drops the      *)
(* guard (protocol.py:81, :95): everybody who named a filter refers to the *)
(* object that is in the table, and the table keeps no object that nobody  *)
(* refers to.  No caller can then wait on, or hold, a lock that the others *)
(* do not see, and the table does not grow.                                *)
NoStaleGuard ==
    /\ \A f \in Filters, c \in Callers : entries[c][f] \in {None, guards[f]}
    /\ \A f \in Filters : guards[f] # None => UsersOf(f, guards[f]) # {}

(* The inductive invariant behind NoStaleGuard and ImplementsOwnership.    *)
GuardInv == TypeOK /\ Bookkeeping /\ NoStaleGuard

(* The ownership the guards implement: the filters of the calls that are   *)
(* in their bodies.                                                        *)
Owned == [c \in Callers |-> IF pc[c] = "inside" THEN Named(c) ELSE {}]

Ownership == INSTANCE FilterOwnership WITH owned <- Owned

(* Every behaviour of the guards is one of exclusive ownership taken and   *)
(* given back as a whole (hold(), protocol.py:76-96).                      *)
ImplementsOwnership == Ownership!Spec

(* Sorted acquisition and first-come locks (protocol.py:79): a caller that *)
(* waits gets all its locks, whatever overlapping sets the others name and *)
(* whoever is cancelled meanwhile, unless it is cancelled itself.          *)
WaitersEnter == \A c \in Callers : pc[c] = "waiting" ~> pc[c] # "waiting"

=============================================================================
