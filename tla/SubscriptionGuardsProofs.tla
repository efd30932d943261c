---------------------- MODULE SubscriptionGuardsProofs ----------------------
(***************************************************************************)
(* Theorems about the guards of a connection, for every finite set of      *)
(* callers and every set of filters: the guard everybody refers to is the  *)
(* one in the table, and the guards implement exclusive ownership of the   *)
(* filters a call names.  Nothing is assumed of the waiters of a lock or   *)
(* of the order in which locks are taken: safety does not rest on them.    *)
(***************************************************************************)
EXTENDS SubscriptionGuards, FiniteSetTheorems, TLAPS

(* What a turn of hold()'s loop over the filters in rest does to the       *)
(* state, when it takes the locks of got.                                  *)
Takes(c, rest, es, got) ==
    /\ \A f \in got : holder[f][es[f]] = None
    /\ acquired' = [acquired EXCEPT ![c] = @ \cup got]
    /\ holder' = [f \in Filters |->
          IF f \in got THEN [holder[f] EXCEPT ![es[f]] = c] ELSE holder[f]]
    /\ pc'[c] \in {"inside", "waiting"}
    /\ pc' = [pc EXCEPT ![c] = pc'[c]]
    /\ pc'[c] = "inside" => got = rest
    /\ DOMAIN waiters' = Filters

(* The locks that a turn of hold()'s loop takes were free or handed to the *)
(* caller, and it enters the body only when it has taken all that it       *)
(* wanted (protocol.py:86-89).                                             *)
LEMMA AcquireTakesFreeLocks ==
    ASSUME TypeOK, NEW c \in Callers, NEW rest, NEW es, NEW handed,
           AcquireFrom(c, rest, es, handed),
           \A f \in handed : holder[f][es[f]] = None
    PROVE  \E got \in SUBSET rest : Takes(c, rest, es, got)
  <1>1. PICK got \in SUBSET rest :
           /\ \A f \in got : f \in handed \/ Free(f, es[f])
           /\ acquired' = [acquired EXCEPT ![c] = @ \cup got]
           /\ holder' = [f \in Filters |->
                 IF f \in got THEN [holder[f] EXCEPT ![es[f]] = c] ELSE holder[f]]
           /\ DOMAIN waiters' = Filters
           /\ pc' = [pc EXCEPT ![c] = IF rest \ got = {} THEN "inside" ELSE "waiting"]
    BY DEF AcquireFrom
  <1>2. \A f \in got : holder[f][es[f]] = None
    BY <1>1 DEF Free
  <1>3. pc'[c] = IF rest \ got = {} THEN "inside" ELSE "waiting"
    BY <1>1 DEF TypeOK
  <1>4. /\ pc'[c] \in {"inside", "waiting"}
        /\ pc' = [pc EXCEPT ![c] = pc'[c]]
    BY <1>1, <1>3
  <1>5. pc'[c] = "inside" => got = rest
    <2> SUFFICES ASSUME pc'[c] = "inside" PROVE got = rest OBVIOUS
    <2>1. rest \ got = {} BY <1>3
    <2> QED BY <2>1
  <1>6. Takes(c, rest, es, got) BY <1>1, <1>2, <1>4, <1>5 DEF Takes
  <1> QED BY <1>6

(* The users of an object are finitely many.                               *)
LEMMA UsersFinite ==
    ASSUME NEW f, NEW k
    PROVE  /\ IsFiniteSet(UsersOf(f, k))
           /\ Cardinality(UsersOf(f, k)) \in Nat
  <1>1. UsersOf(f, k) \in SUBSET Callers BY DEF UsersOf
  <1> QED BY <1>1, CallersAssumption, FS_Subset, FS_CardinalityType

(* Before the first call nobody refers to anything.                        *)
LEMMA InitGuards == Init => GuardInv
  <1> SUFFICES ASSUME Init PROVE GuardInv OBVIOUS
  <1>1. TypeOK BY DEF Init, TypeOK
  <1>2. \A f \in Filters, k \in Slots : UsersOf(f, k) = {}
    BY NoneAssumption DEF Init, UsersOf
  <1>3. Bookkeeping
    <2>1. \A f \in Filters, k \in Slots : users[f][k] = Cardinality(UsersOf(f, k))
      BY <1>2, FS_EmptySet DEF Init
    <2>2. \A c \in Callers : Named(c) = {} BY DEF Init, Named
    <2> QED BY <2>1, <2>2 DEF Bookkeeping, Init
  <1>4. NoStaleGuard BY DEF Init, NoStaleGuard
  <1> QED BY <1>1, <1>3, <1>4 DEF GuardInv

(* What hold() notes for the filters it names is an object: the one in the *)
(* table, or one nobody refers to.                                         *)
LEMMA ObjectsOfHold ==
    ASSUME TypeOK, NEW f \in Filters,
           guards[f] = None => \E k \in Slots : Unused(f, k)
    PROVE  /\ ObjectOf(f) \in Slots
           /\ guards[f] # None => ObjectOf(f) = guards[f]
  <1>1. CASE guards[f] # None BY <1>1 DEF ObjectOf, TypeOK
  <1>2. CASE guards[f] = None BY <1>2 DEF ObjectOf
  <1> QED BY <1>1, <1>2

(* A caller that names filters adds itself to the users of their objects,  *)
(* the ones in the table.                                                  *)
LEMMA HoldKeepsGuards ==
    ASSUME GuardInv, NEW c \in Callers, NEW fs \in (SUBSET Filters) \ {{}}, Hold(c, fs)
    PROVE  GuardInv'
  <1> DEFINE es == [f \in Filters |-> IF f \in fs THEN ObjectOf(f) ELSE None]
  <1> USE NoneAssumption
  <1>1. /\ entries' = [entries EXCEPT ![c] = es]
        /\ guards' = [f \in Filters |-> IF f \in fs THEN es[f] ELSE guards[f]]
        /\ users' = [f \in Filters |->
              IF f \in fs THEN [users[f] EXCEPT ![es[f]] = @ + 1] ELSE users[f]]
        /\ AcquireFrom(c, fs, es, {})
        /\ pc[c] = "idle"
    BY DEF Hold
  <1>2. \A f \in fs : es[f] \in Slots /\ (guards[f] # None => es[f] = guards[f])
    BY ObjectsOfHold DEF Hold, GuardInv
  <1>3. PICK got \in SUBSET fs : Takes(c, fs, es, got)
    <2>1. \A f \in {} : holder[f][es[f]] = None OBVIOUS
    <2>2. TypeOK BY DEF GuardInv
    <2> HIDE DEF es
    <2> QED BY <1>1, <2>1, <2>2, AcquireTakesFreeLocks
  <1>4. \A f \in Filters : es[f] \in Slots \cup {None} /\ (es[f] # None <=> f \in fs)
    BY <1>2
  <1>5. TypeOK /\ Bookkeeping /\ NoStaleGuard BY DEF GuardInv
  <1>6. Named(c) = {} /\ acquired[c] = {} /\ \A f \in Filters : entries[c][f] = None
    BY <1>1, <1>5 DEF Bookkeeping, Named
  <1>7. \A f \in Filters : /\ entries'[c][f] = es[f]
                           /\ \A d \in Callers \ {c} : entries'[d][f] = entries[d][f]
    BY <1>1, <1>5 DEF TypeOK
  <1> HIDE DEF es
  <1>8. TypeOK'
    <2>1. guards' \in [Filters -> Slots \cup {None}] BY <1>1, <1>4, <1>5 DEF TypeOK
    <2>2. users' \in [Filters -> [Slots -> Nat]]
      <3>1. ASSUME NEW f \in fs PROVE [users[f] EXCEPT ![es[f]] = @ + 1] \in [Slots -> Nat]
        <4>1. users[f] \in [Slots -> Nat] /\ es[f] \in Slots BY <1>2, <1>5 DEF TypeOK
        <4> QED BY <4>1
      <3> QED BY <3>1, <1>1, <1>5 DEF TypeOK
    <2>3. holder' \in [Filters -> [Slots -> Callers \cup {None}]] BY <1>3, <1>5 DEF TypeOK, Takes
    <2>4. entries' \in [Callers -> [Filters -> Slots \cup {None}]]
      <3>1. es \in [Filters -> Slots \cup {None}] BY <1>4 DEF es
      <3> QED BY <3>1, <1>1, <1>5 DEF TypeOK
    <2>5. acquired' \in [Callers -> SUBSET Filters] BY <1>3, <1>5 DEF TypeOK, Takes
    <2>6. pc' \in [Callers -> {"idle", "waiting", "inside"}] BY <1>3, <1>5 DEF TypeOK, Takes
    <2> QED BY <1>3, <2>1, <2>2, <2>3, <2>4, <2>5, <2>6 DEF TypeOK, Takes
  <1>9. ASSUME NEW f \in Filters, NEW k \in Slots
        PROVE  users'[f][k] = Cardinality(UsersOf(f, k)')
    <2>1. CASE f \in fs /\ k = es[f]
      <3>1. UsersOf(f, k)' = UsersOf(f, k) \cup {c} BY <2>1, <1>7 DEF UsersOf
      <3>2. c \notin UsersOf(f, k) BY <1>6 DEF UsersOf
      <3>3. users'[f][k] = users[f][k] + 1 BY <2>1, <1>1, <1>5 DEF TypeOK
      <3>4. Cardinality(UsersOf(f, k) \cup {c}) = Cardinality(UsersOf(f, k)) + 1
        BY <3>2, UsersFinite, FS_AddElement
      <3> QED BY <3>1, <3>3, <3>4, <1>5 DEF Bookkeeping
    <2>2. CASE ~ (f \in fs /\ k = es[f])
      <3>1. UsersOf(f, k)' = UsersOf(f, k) BY <2>2, <1>4, <1>6, <1>7 DEF UsersOf
      <3>2. users'[f][k] = users[f][k] BY <2>2, <1>1, <1>5 DEF TypeOK
      <3> QED BY <3>1, <3>2, <1>5 DEF Bookkeeping
    <2> QED BY <2>1, <2>2
  <1>10. Named(c)' = fs /\ \A d \in Callers \ {c} : Named(d)' = Named(d)
    BY <1>4, <1>7 DEF Named
  <1>11. ASSUME NEW d \in Callers
         PROVE  /\ acquired'[d] \subseteq Named(d)'
                /\ pc'[d] = "inside" => acquired'[d] = Named(d)'
                /\ pc'[d] = "idle" <=> Named(d)' = {}
                /\ \A f \in acquired'[d] : holder'[f][entries'[d][f]] = d
    <2>1. CASE d = c
      <3>1. acquired'[c] = got BY <1>3, <1>5, <1>6 DEF TypeOK, Takes
      <3>2. \A f \in got : holder'[f][es[f]] = c BY <1>2, <1>3, <1>5 DEF TypeOK, Takes
      <3>3. \A f \in got : holder'[f][entries'[c][f]] = c BY <3>2, <1>7
      <3>4. fs # {} OBVIOUS
      <3> QED BY <2>1, <3>1, <3>3, <3>4, <1>3, <1>10 DEF Takes
    <2>2. CASE d # c
      <3>1. acquired'[d] = acquired[d] /\ pc'[d] = pc[d] /\ Named(d)' = Named(d)
        BY <2>2, <1>3, <1>5, <1>10 DEF TypeOK, Takes
      <3>2. ASSUME NEW f \in acquired[d] PROVE holder'[f][entries'[d][f]] = d
        <4>1. /\ f \in Filters /\ holder[f][entries[d][f]] = d
              /\ entries'[d][f] = entries[d][f] /\ entries[d][f] \in Slots
          BY <2>2, <1>5, <1>7 DEF Bookkeeping, TypeOK, Named
        <4>2. f \in got => es[f] # entries[d][f] BY <4>1, <1>3 DEF Takes
        <4> QED BY <4>1, <4>2, <1>3, <1>5 DEF TypeOK, Takes
      <3> QED BY <3>1, <3>2, <1>5 DEF Bookkeeping
    <2> QED BY <2>1, <2>2
  <1>12. NoStaleGuard'
    <2>1. ASSUME NEW f \in Filters, NEW d \in Callers
          PROVE  entries'[d][f] \in {None, guards'[f]}
      <3>1. entries[d][f] \in {None, guards[f]} BY <1>5 DEF NoStaleGuard
      <3>2. guards'[f] = IF f \in fs THEN es[f] ELSE guards[f] BY <1>1
      <3> QED BY <3>1, <3>2, <1>2, <1>4, <1>7
    <2>2. ASSUME NEW f \in Filters, guards'[f] # None PROVE UsersOf(f, guards[f])' # {}
      <3>1. CASE f \in fs
        <4>1. c \in UsersOf(f, guards[f])' BY <3>1, <1>1, <1>7 DEF UsersOf
        <4> QED BY <4>1
      <3>2. CASE f \notin fs
        <4>1. guards'[f] = guards[f] BY <3>2, <1>1
        <4>2. PICK d \in Callers : entries[d][f] = guards[f]
          BY <4>1, <2>2, <1>5 DEF NoStaleGuard, UsersOf
        <4>3. d # c BY <4>1, <4>2, <2>2, <1>6
        <4>4. d \in UsersOf(f, guards[f])' BY <4>1, <4>2, <4>3, <1>7 DEF UsersOf
        <4> QED BY <4>4
      <3> QED BY <3>1, <3>2
    <2> QED BY <2>1, <2>2 DEF NoStaleGuard
  <1> QED BY <1>8, <1>9, <1>11, <1>12 DEF GuardInv, Bookkeeping

(* A caller that is handed a lock goes on; what it refers to stays.        *)
LEMMA ResumeKeepsGuards ==
    ASSUME GuardInv, NEW c \in Callers, Resume(c)
    PROVE  GuardInv'
  <1> USE NoneAssumption
  <1>1. PICK f0 \in Named(c) :
           /\ Granted(c, f0, entries[c][f0])
           /\ AcquireFrom(c, Named(c) \ acquired[c], entries[c], {f0})
    BY DEF Resume
  <1>2. TypeOK /\ Bookkeeping /\ NoStaleGuard BY DEF GuardInv
  <1>3. PICK got \in SUBSET (Named(c) \ acquired[c]) :
           Takes(c, Named(c) \ acquired[c], entries[c], got)
    <2>1. \A f \in {f0} : holder[f][entries[c][f]] = None BY <1>1 DEF Granted
    <2> QED BY <1>1, <1>2, <2>1, AcquireTakesFreeLocks
  <1>4. UNCHANGED <<guards, users, entries>> BY DEF Resume
  <1>5. \A d \in Callers : Named(d)' = Named(d) BY <1>4 DEF Named
  <1>6. \A f \in Filters, k \in Slots : UsersOf(f, k)' = UsersOf(f, k) BY <1>4 DEF UsersOf
  <1>7. Named(c) \subseteq Filters /\ \A f \in Named(c) : entries[c][f] \in Slots
    BY <1>2 DEF Named, TypeOK
  <1>8. TypeOK'
    <2>1. holder' \in [Filters -> [Slots -> Callers \cup {None}]] BY <1>2, <1>3 DEF TypeOK, Takes
    <2>2. acquired' \in [Callers -> SUBSET Filters] BY <1>2, <1>3, <1>7 DEF TypeOK, Takes
    <2>3. pc' \in [Callers -> {"idle", "waiting", "inside"}] BY <1>2, <1>3 DEF TypeOK, Takes
    <2> QED BY <1>2, <1>3, <1>4, <2>1, <2>2, <2>3 DEF TypeOK, Takes
  <1>9. ASSUME NEW d \in Callers
        PROVE  /\ acquired'[d] \subseteq Named(d)'
               /\ pc'[d] = "inside" => acquired'[d] = Named(d)'
               /\ pc'[d] = "idle" <=> Named(d)' = {}
               /\ \A f \in acquired'[d] : holder'[f][entries'[d][f]] = d
    <2>1. CASE d = c
      <3>1. acquired'[c] = acquired[c] \cup got BY <1>2, <1>3 DEF TypeOK, Takes
      <3>2. acquired[c] \subseteq Named(c) BY <1>2 DEF Bookkeeping
      <3>3. ASSUME NEW f \in acquired[c] \cup got PROVE holder'[f][entries[c][f]] = c
        <4>1. CASE f \in got BY <4>1, <1>2, <1>3, <1>7 DEF TypeOK, Takes
        <4>2. CASE f \notin got
          <5>1. holder'[f] = holder[f] BY <4>2, <3>2, <1>3, <1>7 DEF Takes
          <5> QED BY <5>1, <4>2, <1>2 DEF Bookkeeping
        <4> QED BY <4>1, <4>2
      <3>4. pc'[c] # "idle" /\ Named(c) # {} BY <1>1, <1>3 DEF Takes
      <3>5. pc'[c] = "inside" => acquired[c] \cup got = Named(c) BY <3>2, <1>3 DEF Takes
      <3> QED BY <2>1, <3>1, <3>2, <3>3, <3>4, <3>5, <1>4, <1>5
    <2>2. CASE d # c
      <3>1. acquired'[d] = acquired[d] /\ pc'[d] = pc[d]
        BY <2>2, <1>2, <1>3 DEF TypeOK, Takes
      <3>2. ASSUME NEW f \in acquired[d] PROVE holder'[f][entries[d][f]] = d
        <4>1. f \in Filters /\ holder[f][entries[d][f]] = d /\ entries[d][f] \in Slots
          BY <1>2 DEF Bookkeeping, TypeOK, Named
        <4>2. f \in got => entries[c][f] # entries[d][f] BY <4>1, <1>3 DEF Takes
        <4> QED BY <4>1, <4>2, <1>2, <1>3 DEF TypeOK, Takes
      <3> QED BY <3>1, <3>2, <1>2, <1>4, <1>5 DEF Bookkeeping
    <2> QED BY <2>1, <2>2
  <1>10. Bookkeeping' BY <1>2, <1>4, <1>6, <1>9 DEF Bookkeeping
  <1>11. NoStaleGuard' BY <1>2, <1>4 DEF NoStaleGuard, UsersOf
  <1> QED BY <1>8, <1>10, <1>11 DEF GuardInv

(* The caller that leaves refers to nothing any more; where it was the     *)
(* last the table forgets the object, and elsewhere somebody is left.      *)
LEMMA ReleaseKeepsGuards ==
    ASSUME GuardInv, NEW c \in Callers, Release(c)
    PROVE  GuardInv'
  <1> DEFINE es == entries[c]
             last(f) == f \in Named(c) /\ users[f][es[f]] = 1
  <1> USE NoneAssumption
  <1>1. /\ holder' = [f \in Filters |->
              IF f \in acquired[c] THEN [holder[f] EXCEPT ![es[f]] = None] ELSE holder[f]]
        /\ users' = [f \in Filters |->
              IF f \in Named(c) THEN [users[f] EXCEPT ![es[f]] = @ - 1] ELSE users[f]]
        /\ guards' = [f \in Filters |-> IF last(f) THEN None ELSE guards[f]]
        /\ entries' = [entries EXCEPT ![c] = [f \in Filters |-> None]]
        /\ acquired' = [acquired EXCEPT ![c] = {}]
        /\ pc' = [pc EXCEPT ![c] = "idle"]
        /\ DOMAIN waiters' = Filters
    BY DEF Release
  <1>2. TypeOK /\ Bookkeeping /\ NoStaleGuard BY DEF GuardInv
  <1>3. \A f \in Filters : /\ entries'[c][f] = None
                           /\ \A d \in Callers \ {c} : entries'[d][f] = entries[d][f]
    BY <1>1, <1>2 DEF TypeOK
  <1>4. \A f \in Filters, k \in Slots : UsersOf(f, k)' = UsersOf(f, k) \ {c}
    BY <1>3 DEF UsersOf
  <1>5. \A f \in Named(c) : f \in Filters /\ es[f] \in Slots /\ es[f] = guards[f]
    BY <1>2 DEF Named, TypeOK, NoStaleGuard
  <1>6. ASSUME NEW f \in Named(c)
        PROVE  /\ c \in UsersOf(f, es[f])
               /\ users[f][es[f]] = Cardinality(UsersOf(f, es[f]))
               /\ users[f][es[f]] \in Nat \ {0}
    <2>1. c \in UsersOf(f, es[f]) BY DEF UsersOf
    <2>2. users[f][es[f]] = Cardinality(UsersOf(f, es[f])) BY <1>2, <1>5 DEF Bookkeeping
    <2>3. Cardinality(UsersOf(f, es[f])) # 0 BY <2>1, UsersFinite, FS_EmptySet
    <2> QED BY <2>1, <2>2, <2>3, UsersFinite
  <1>7. TypeOK'
    <2>1. ASSUME NEW f \in Named(c) PROVE [users[f] EXCEPT ![es[f]] = @ - 1] \in [Slots -> Nat]
      <3>1. users[f] \in [Slots -> Nat] /\ users[f][es[f]] - 1 \in Nat
        BY <1>2, <1>5, <1>6 DEF TypeOK
      <3> QED BY <3>1, <1>5
    <2>2. users' \in [Filters -> [Slots -> Nat]] BY <2>1, <1>1, <1>2 DEF TypeOK
    <2>3. holder' \in [Filters -> [Slots -> Callers \cup {None}]] BY <1>1, <1>2 DEF TypeOK
    <2>4. guards' \in [Filters -> Slots \cup {None}] BY <1>1, <1>2 DEF TypeOK
    <2>5. entries' \in [Callers -> [Filters -> Slots \cup {None}]] BY <1>1, <1>2 DEF TypeOK
    <2>6. acquired' \in [Callers -> SUBSET Filters] BY <1>1, <1>2 DEF TypeOK
    <2>7. pc' \in [Callers -> {"idle", "waiting", "inside"}] BY <1>1, <1>2 DEF TypeOK
    <2> QED BY <1>1, <2>2, <2>3, <2>4, <2>5, <2>6, <2>7 DEF TypeOK
  <1>8. ASSUME NEW f \in Filters, NEW k \in Slots
        PROVE  users'[f][k] = Cardinality(UsersOf(f, k)')
    <2>1. CASE f \in Named(c) /\ k = es[f]
      <3>1. Cardinality(UsersOf(f, k) \ {c}) = Cardinality(UsersOf(f, k)) - 1
        BY <2>1, <1>6, UsersFinite, FS_RemoveElement
      <3>2. users'[f][k] = users[f][k] - 1 BY <2>1, <1>1, <1>2 DEF TypeOK
      <3> QED BY <2>1, <3>1, <3>2, <1>4, <1>6
    <2>2. CASE ~ (f \in Named(c) /\ k = es[f])
      <3>1. c \notin UsersOf(f, k) BY <2>2 DEF UsersOf, Named
      <3>2. UsersOf(f, k)' = UsersOf(f, k) BY <3>1, <1>4
      <3>3. users'[f][k] = users[f][k] BY <2>2, <1>1, <1>2 DEF TypeOK
      <3> QED BY <3>2, <3>3, <1>2 DEF Bookkeeping
    <2> QED BY <2>1, <2>2
  <1>9. Named(c)' = {} /\ \A d \in Callers \ {c} : Named(d)' = Named(d) BY <1>3 DEF Named
  <1>10. ASSUME NEW d \in Callers
         PROVE  /\ acquired'[d] \subseteq Named(d)'
                /\ pc'[d] = "inside" => acquired'[d] = Named(d)'
                /\ pc'[d] = "idle" <=> Named(d)' = {}
                /\ \A f \in acquired'[d] : holder'[f][entries'[d][f]] = d
    <2>1. CASE d = c
      <3>1. acquired'[c] = {} /\ pc'[c] = "idle" BY <1>1, <1>2 DEF TypeOK
      <3> QED BY <2>1, <3>1, <1>9
    <2>2. CASE d # c
      <3>1. acquired'[d] = acquired[d] /\ pc'[d] = pc[d] BY <2>2, <1>1, <1>2 DEF TypeOK
      <3>2. ASSUME NEW f \in acquired[d] PROVE holder'[f][entries'[d][f]] = d
        <4>1. /\ f \in Filters /\ holder[f][entries[d][f]] = d
              /\ entries'[d][f] = entries[d][f] /\ entries[d][f] \in Slots
          BY <2>2, <1>2, <1>3 DEF Bookkeeping, TypeOK, Named
        <4>2. f \in acquired[c] => es[f] # entries[d][f] BY <2>2, <4>1, <1>2 DEF Bookkeeping
        <4> QED BY <4>1, <4>2, <1>1, <1>2 DEF TypeOK
      <3> QED BY <2>2, <3>1, <3>2, <1>2, <1>9 DEF Bookkeeping
    <2> QED BY <2>1, <2>2
  <1>11. NoStaleGuard'
    <2>1. ASSUME NEW f \in Named(c), last(f), NEW d \in Callers \ {c} PROVE entries[d][f] = None
      <3>1. PICK x : UsersOf(f, es[f]) = {x} BY <2>1, <1>6, UsersFinite, FS_Singleton
      <3>2. d \notin UsersOf(f, es[f]) BY <3>1, <1>6
      <3>3. entries[d][f] # es[f] BY <3>2 DEF UsersOf
      <3> QED BY <3>3, <1>2, <1>5 DEF NoStaleGuard
    <2>2. ASSUME NEW f \in Filters, NEW d \in Callers
          PROVE  entries'[d][f] \in {None, guards'[f]}
      <3>1. CASE d = c BY <3>1, <1>3
      <3>2. CASE d # c /\ last(f) BY <3>2, <2>1, <1>3
      <3>3. CASE d # c /\ ~ last(f)
        <4>1. guards'[f] = guards[f] /\ entries'[d][f] = entries[d][f] BY <3>3, <1>1, <1>3
        <4> QED BY <4>1, <1>2 DEF NoStaleGuard
      <3> QED BY <3>1, <3>2, <3>3
    <2>3. ASSUME NEW f \in Filters, guards'[f] # None PROVE UsersOf(f, guards[f])' # {}
      <3>1. ~ last(f) /\ guards'[f] = guards[f] BY <2>3, <1>1
      <3>2. guards[f] \in Slots /\ UsersOf(f, guards[f]) # {}
        BY <2>3, <3>1, <1>2 DEF NoStaleGuard, TypeOK
      <3>3. UsersOf(f, guards[f]) # {c}
        <4>1. CASE f \in Named(c)
          <5>1. Cardinality(UsersOf(f, guards[f])) # 1 BY <4>1, <3>1, <1>5, <1>6
          <5> QED BY <5>1, FS_Singleton
        <4>2. CASE f \notin Named(c)
          <5>1. entries[c][f] = None BY <4>2 DEF Named
          <5>2. c \notin UsersOf(f, guards[f]) BY <5>1, <3>2 DEF UsersOf
          <5> QED BY <5>2
        <4> QED BY <4>1, <4>2
      <3>4. PICK d \in UsersOf(f, guards[f]) : d # c BY <3>2, <3>3
      <3>5. d \in UsersOf(f, guards[f])' BY <3>1, <3>4, <1>3 DEF UsersOf
      <3> QED BY <3>5
    <2> QED BY <2>2, <2>3 DEF NoStaleGuard
  <1> QED BY <1>7, <1>8, <1>10, <1>11 DEF GuardInv, Bookkeeping

(* Every step keeps the invariant.                                         *)
LEMMA NextKeepsGuards == GuardInv /\ [Next]_vars => GuardInv'
  <1> SUFFICES ASSUME GuardInv, [Next]_vars PROVE GuardInv' OBVIOUS
  <1>1. ASSUME NEW c \in Callers, NEW fs \in (SUBSET Filters) \ {{}}, Hold(c, fs) PROVE GuardInv'
    BY <1>1, HoldKeepsGuards
  <1>2. ASSUME NEW c \in Callers, Resume(c) PROVE GuardInv'
    BY <1>2, ResumeKeepsGuards
  <1>3. ASSUME NEW c \in Callers, Exit(c) \/ CancelWait(c) PROVE GuardInv'
    BY <1>3, ReleaseKeepsGuards DEF Exit, CancelWait
  <1>4. CASE UNCHANGED vars
    BY <1>4 DEF vars, GuardInv, TypeOK, Bookkeeping, NoStaleGuard, Named, UsersOf
  <1> QED BY <1>1, <1>2, <1>3, <1>4 DEF Next

(* The guards are counted right, the locks a caller believes it has are    *)
(* its own, and no guard is stale (hold(), protocol.py:76-96).             *)
THEOREM GuardsInvariant == Spec => []GuardInv
  BY InitGuards, NextKeepsGuards, PTL DEF Spec

(* Whoever named a filter refers to the guard in the table, and the table  *)
(* keeps no guard without users (protocol.py:80-82, :93-96).               *)
THEOREM GuardsAreCurrent == Spec => []NoStaleGuard
  <1>1. GuardInv => NoStaleGuard BY DEF GuardInv
  <1> QED BY <1>1, GuardsInvariant, PTL

-----------------------------------------------------------------------------
(* Two callers cannot both have the lock of a filter: their entries for it *)
(* are the same object.                                                    *)
LEMMA OneOwner ==
    ASSUME GuardInv, NEW c \in Callers, NEW d \in Callers, NEW f \in acquired[d],
           f \in Filters, NEW k \in Slots, guards[f] # None => k = guards[f],
           holder[f][k] \in {None, c}, c # d
    PROVE  FALSE
  <1>1. /\ entries[d][f] # None /\ entries[d][f] = guards[f]
        /\ holder[f][entries[d][f]] = d
    BY DEF GuardInv, Bookkeeping, NoStaleGuard, Named
  <1> QED BY <1>1, NoneAssumption

(* A call that names filters owns them at once or waits and owns nothing.  *)
LEMMA HoldEnters ==
    ASSUME GuardInv, NEW c \in Callers, NEW fs \in (SUBSET Filters) \ {{}}, Hold(c, fs)
    PROVE  Ownership!Next \/ UNCHANGED Owned
  <1> DEFINE es == [f \in Filters |-> IF f \in fs THEN ObjectOf(f) ELSE None]
  <1> USE NoneAssumption
  <1>1. /\ entries' = [entries EXCEPT ![c] = es]
        /\ AcquireFrom(c, fs, es, {})
        /\ pc[c] = "idle"
    BY DEF Hold
  <1>2. \A f \in fs : es[f] \in Slots /\ (guards[f] # None => es[f] = guards[f])
    BY ObjectsOfHold DEF Hold, GuardInv
  <1>3. TypeOK /\ Bookkeeping BY DEF GuardInv
  <1>4. PICK got \in SUBSET fs : Takes(c, fs, es, got)
    <2>1. \A f \in {} : holder[f][es[f]] = None OBVIOUS
    <2> HIDE DEF es
    <2> QED BY <1>1, <1>3, <2>1, AcquireTakesFreeLocks
  <1>5. Named(c)' = fs /\ \A d \in Callers \ {c} : Named(d)' = Named(d)
    <2>1. \A f \in Filters : es[f] # None <=> f \in fs BY <1>2
    <2>2. \A f \in Filters : /\ entries'[c][f] = es[f]
                             /\ \A d \in Callers \ {c} : entries'[d][f] = entries[d][f]
      BY <1>1, <1>3 DEF TypeOK
    <2> QED BY <2>1, <2>2 DEF Named
  <1> HIDE DEF es
  <1>6. \A d \in Callers \ {c} : pc'[d] = pc[d] BY <1>3, <1>4 DEF Takes, TypeOK
  <1>7. \A d \in Callers \ {c} : Owned'[d] = Owned[d] BY <1>5, <1>6 DEF Owned
  <1>8. Owned[c] = {} BY <1>1 DEF Owned
  <1>9. CASE pc'[c] = "inside"
    <2>1. got = fs BY <1>4, <1>9 DEF Takes
    <2>2. ASSUME NEW d \in Callers, NEW f \in Owned[d] \cap fs PROVE FALSE
      <3>1. d # c BY <2>2, <1>8
      <3>2. f \in acquired[d] /\ f \in Filters BY <2>2, <1>3 DEF Owned, Bookkeeping, Named
      <3>3. holder[f][es[f]] = None BY <2>1, <2>2, <1>4 DEF Takes
      <3> QED BY <3>1, <3>2, <3>3, <1>2, OneOwner
    <2>3. Owned' = [Owned EXCEPT ![c] = fs] BY <1>5, <1>7, <1>9 DEF Owned
    <2>4. Ownership!Enter(c, fs) BY <2>2, <2>3, <1>8 DEF Ownership!Enter
    <2> QED BY <2>4 DEF Ownership!Next
  <1>10. CASE pc'[c] # "inside"
    <2>1. Owned'[c] = {} BY <1>10 DEF Owned
    <2> QED BY <2>1, <1>7, <1>8 DEF Owned
  <1> QED BY <1>9, <1>10

(* So does a caller that is handed the lock it waited for: when it has     *)
(* them all it owns what it named.                                         *)
LEMMA ResumeEnters ==
    ASSUME GuardInv, NEW c \in Callers, Resume(c)
    PROVE  Ownership!Next \/ UNCHANGED Owned
  <1> USE NoneAssumption
  <1>1. PICK f0 \in Named(c) :
           /\ Granted(c, f0, entries[c][f0])
           /\ AcquireFrom(c, Named(c) \ acquired[c], entries[c], {f0})
    BY DEF Resume
  <1>2. TypeOK /\ Bookkeeping /\ NoStaleGuard BY DEF GuardInv
  <1>3. PICK got \in SUBSET (Named(c) \ acquired[c]) :
           Takes(c, Named(c) \ acquired[c], entries[c], got)
    <2>1. \A f \in {f0} : holder[f][entries[c][f]] = None BY <1>1 DEF Granted
    <2> QED BY <1>1, <1>2, <2>1, AcquireTakesFreeLocks
  <1>4. pc[c] = "waiting" /\ UNCHANGED entries BY DEF Resume
  <1>5. \A d \in Callers : Named(d)' = Named(d) BY <1>4 DEF Named
  <1>6. \A d \in Callers \ {c} : pc'[d] = pc[d] BY <1>2, <1>3 DEF Takes, TypeOK
  <1>7. \A d \in Callers \ {c} : Owned'[d] = Owned[d] BY <1>5, <1>6 DEF Owned
  <1>8. Owned[c] = {} BY <1>4 DEF Owned
  <1>9. CASE pc'[c] = "inside"
    <2>1. got = Named(c) \ acquired[c] BY <1>3, <1>9 DEF Takes
    <2>2. ASSUME NEW d \in Callers, NEW f \in Owned[d] \cap Named(c) PROVE FALSE
      <3>1. d # c BY <2>2, <1>8
      <3>2. f \in acquired[d] /\ f \in Filters BY <2>2, <1>2 DEF Owned, Bookkeeping, Named
      <3>3. entries[c][f] \in Slots /\ (guards[f] # None => entries[c][f] = guards[f])
        BY <2>2, <3>2, <1>2 DEF Named, TypeOK, NoStaleGuard
      <3>4. holder[f][entries[c][f]] \in {None, c}
        BY <2>1, <2>2, <1>2, <1>3 DEF Takes, Bookkeeping
      <3> QED BY <3>1, <3>2, <3>3, <3>4, OneOwner
    <2>3. Owned' = [Owned EXCEPT ![c] = Named(c)] BY <1>5, <1>7, <1>9 DEF Owned
    <2>4. Ownership!Enter(c, Named(c)) BY <2>2, <2>3, <1>8 DEF Ownership!Enter
    <2>5. Named(c) \in (SUBSET Filters) \ {{}} BY <1>1 DEF Named
    <2> QED BY <2>4, <2>5 DEF Ownership!Next
  <1>10. CASE pc'[c] # "inside"
    <2>1. Owned'[c] = {} BY <1>10 DEF Owned
    <2> QED BY <2>1, <1>7, <1>8 DEF Owned
  <1> QED BY <1>9, <1>10

(* A caller that leaves gives back what it owned.                          *)
LEMMA ReleaseLeaves ==
    ASSUME GuardInv, NEW c \in Callers, Exit(c) \/ CancelWait(c)
    PROVE  Ownership!Next \/ UNCHANGED Owned
  <1>1. TypeOK /\ Bookkeeping BY DEF GuardInv
  <1>2. /\ entries' = [entries EXCEPT ![c] = [f \in Filters |-> None]]
        /\ pc' = [pc EXCEPT ![c] = "idle"]
    BY DEF Exit, CancelWait, Release
  <1>3. \A d \in Callers \ {c} : Named(d)' = Named(d) /\ pc'[d] = pc[d]
    BY <1>1, <1>2 DEF Named, TypeOK
  <1>4. Owned'[c] = {} /\ \A d \in Callers \ {c} : Owned'[d] = Owned[d]
    <2>1. pc'[c] = "idle" BY <1>1, <1>2 DEF TypeOK
    <2> QED BY <1>3, <2>1 DEF Owned
  <1>5. CASE Owned[c] = {} BY <1>4, <1>5 DEF Owned
  <1>6. CASE Owned[c] # {}
    <2>1. Owned' = [Owned EXCEPT ![c] = {}] BY <1>4 DEF Owned
    <2> QED BY <1>6, <2>1 DEF Ownership!Next, Ownership!Leave
  <1> QED BY <1>5, <1>6

(* The guards implement exclusive ownership: every step that lets a body   *)
(* run gives its call all the filters it named, none of them owned by      *)
(* another, and nothing else changes what is owned (protocol.py:76-96).    *)
THEOREM GuardsImplementOwnership == Spec => ImplementsOwnership
  <1>1. Init => Ownership!Init BY DEF Init, Ownership!Init, Owned
  <1>2. GuardInv /\ [Next]_vars => [Ownership!Next]_Owned
    <2> SUFFICES ASSUME GuardInv, [Next]_vars PROVE Ownership!Next \/ UNCHANGED Owned OBVIOUS
    <2>1. ASSUME NEW c \in Callers, NEW fs \in (SUBSET Filters) \ {{}}, Hold(c, fs)
          PROVE  Ownership!Next \/ UNCHANGED Owned
      BY <2>1, HoldEnters
    <2>2. ASSUME NEW c \in Callers, Resume(c) PROVE Ownership!Next \/ UNCHANGED Owned
      BY <2>2, ResumeEnters
    <2>3. ASSUME NEW c \in Callers, Exit(c) \/ CancelWait(c)
          PROVE  Ownership!Next \/ UNCHANGED Owned
      BY <2>3, ReleaseLeaves
    <2>4. CASE UNCHANGED vars BY <2>4 DEF vars, Owned, Named
    <2> QED BY <2>1, <2>2, <2>3, <2>4 DEF Next
  <1> QED BY <1>1, <1>2, GuardsInvariant, PTL DEF Spec, ImplementsOwnership, Ownership!Spec

(* What exclusive ownership is for: two calls whose bodies run at the same *)
(* time have no filter in common.                                          *)
THEOREM OwnershipIsExclusive == Spec => []Ownership!Exclusive
  <1>1. GuardInv => Ownership!Exclusive
    <2> SUFFICES ASSUME GuardInv, NEW c \in Callers, NEW d \in Callers, c # d,
                        NEW f \in Owned[c] \cap Owned[d]
                 PROVE  FALSE
      BY DEF Ownership!Exclusive
    <2>1. /\ f \in acquired[c] /\ f \in acquired[d] /\ f \in Filters
          /\ entries[c][f] \in Slots /\ entries[c][f] = guards[f]
          /\ holder[f][entries[c][f]] = c
      BY DEF GuardInv, Bookkeeping, NoStaleGuard, Owned, Named, TypeOK
    <2> QED BY <2>1, OneOwner
  <1> QED BY <1>1, GuardsInvariant, PTL
=============================================================================
