---------------------- MODULE SubscriptionIndexProofs ----------------------
(***************************************************************************)
(* Theorems about topic matching and the subscription index, for filters   *)
(* and topics of any length, any number of subscriptions and every         *)
(* sequence of additions, removals and clears.                             *)
(***************************************************************************)
EXTENDS SubscriptionIndex, SequencesExt, SequenceTheorems, FiniteSetTheorems, WellFoundedInduction, TLAPS

-----------------------------------------------------------------------------
(* What the operators on sequences that the model uses do, element by      *)
(* element.                                                                *)
\* An entry is put behind the others.
LEMMA AppendAt ==
    ASSUME NEW S, NEW s \in Seq(S), NEW x \in S
    PROVE  /\ DOMAIN Append(s, x) = 1 .. Len(s) + 1 /\ DOMAIN s = 1 .. Len(s) /\ Len(s) \in Nat
           /\ \A n \in 1 .. Len(s) : Append(s, x)[n] = s[n]
           /\ Append(s, x)[Len(s) + 1] = x
  OBVIOUS

-----------------------------------------------------------------------------

-----------------------------------------------------------------------------
(* Naturals.                                                               *)

\* A set of naturals that is not empty has a least element.
LEMMA LeastElement ==
    ASSUME NEW T \in SUBSET Nat, T # {}
    PROVE  \E x \in T : \A y \in T : x <= y
<1>1. \E x \in T : \A y \in T : ~ (<<y, x>> \in OpToRel(<, Nat))
  BY NatLessThanWellFounded, WFMin
<1>2. PICK x \in T : \A y \in T : ~ (<<y, x>> \in OpToRel(<, Nat))
  BY <1>1
<1>3. ASSUME NEW y \in T PROVE x <= y
  <2>1. x \in Nat /\ y \in Nat
    OBVIOUS
  <2>2. ~ (y < x)
    BY <1>2, <2>1 DEF OpToRel
  <2> QED
    BY <2>1, <2>2
<1> QED
  BY <1>3

\* Induction over the naturals, on a set instead of a predicate.
LEMMA Induction ==
    ASSUME NEW S, 0 \in S, \A n \in Nat : n \in S => n + 1 \in S
    PROVE  Nat \subseteq S
<1> SUFFICES ASSUME Nat \ S # {} PROVE FALSE
  OBVIOUS
<1>1. PICK x \in Nat \ S : \A y \in Nat \ S : x <= y
  BY LeastElement
<1>2. x # 0 /\ x - 1 \in Nat /\ x - 1 \notin Nat \ S
  BY <1>1
<1>3. x \in S
  BY <1>2
<1> QED
  BY <1>3

-----------------------------------------------------------------------------
(* Lists: what a comprehension and sorted() return.                        *)

\* The positions come in the order given, each once, whatever the list.
LEMMA ArrangedPlaces ==
    ASSUME NEW s, NEW P, IsFiniteSet(P), NEW before \in [P -> SUBSET P],
           \A i \in P : i \notin before[i],
           \A i, j, k \in P : i \in before[j] /\ j \in before[k] => i \in before[k],
           \A i, j \in P : i # j => i \in before[j] \/ j \in before[i]
    PROVE  /\ Cardinality(P) \in Nat
           /\ \E place \in [1 .. Cardinality(P) -> P] :
                 /\ Arranged(s, before) = [n \in 1 .. Cardinality(P) |-> s[place[n]]]
                 /\ \A i \in P : \E n \in 1 .. Cardinality(P) : place[n] = i
                 /\ \A m, n \in 1 .. Cardinality(P) : (m < n) <=> (place[m] \in before[place[n]])
<1> DEFINE N == Cardinality(P)
           rank(i) == Cardinality(before[i])
<1>1. N \in Nat
  BY FS_CardinalityType
<1>2. ASSUME NEW i \in P
      PROVE  IsFiniteSet(before[i]) /\ rank(i) \in Nat /\ rank(i) + 1 \in 1 .. N
  <2>1. IsFiniteSet(P \ {i}) /\ Cardinality(P \ {i}) = N - 1
    BY FS_RemoveElement
  <2>2. before[i] \in SUBSET (P \ {i})
    OBVIOUS
  <2>3. IsFiniteSet(before[i]) /\ rank(i) <= N - 1
    BY <2>1, <2>2, FS_Subset
  <2>4. rank(i) \in Nat
    BY <2>3, FS_CardinalityType
  <2> QED
    BY <1>1, <2>3, <2>4
<1>3. ASSUME NEW i \in P, NEW j \in P, i \in before[j]
      PROVE  rank(i) < rank(j)
  <2>1. before[i] \in SUBSET before[j] /\ i \in before[j] /\ i \notin before[i]
    BY <1>3
  <2>2. IsFiniteSet(before[j]) /\ rank(i) \in Nat /\ rank(j) \in Nat
    BY <1>2
  <2>3. rank(i) <= rank(j) /\ rank(i) # rank(j)
    BY <2>1, <2>2, FS_Subset
  <2> QED
    BY <2>2, <2>3
<1>4. \A i, j \in P : rank(i) = rank(j) => i = j
  <2> SUFFICES ASSUME NEW i \in P, NEW j \in P, i # j PROVE rank(i) # rank(j)
    OBVIOUS
  <2>1. rank(i) < rank(j) \/ rank(j) < rank(i)
    BY <1>3
  <2>2. rank(i) \in Nat /\ rank(j) \in Nat
    BY <1>2
  <2> HIDE DEF rank
  <2> QED
    BY <2>1, <2>2
<1> HIDE DEF rank
<1>5. \A n \in 1 .. N : \E i \in P : rank(i) = n - 1
  <2> DEFINE f == [i \in P |-> rank(i) + 1]
  <2>1. f \in Injection(P, 1 .. N)
    <3>1. f \in [P -> 1 .. N]
      BY <1>2
    <3>2. ASSUME NEW i \in P, NEW j \in P, f[i] = f[j] PROVE i = j
      <4>1. rank(i) \in Nat /\ rank(j) \in Nat /\ rank(i) + 1 = rank(j) + 1
        BY <1>2, <3>2
      <4>2. rank(i) = rank(j)
        BY <4>1
      <4> QED
        BY <1>4, <4>2
    <3> QED
      BY <3>1, <3>2 DEF Injection, IsInjective
  <2>2. IsFiniteSet(1 .. N) /\ Cardinality(1 .. N) = N
    BY <1>1, FS_Interval
  <2> HIDE DEF f
  <2>3. f \in Surjection(P, 1 .. N)
    BY <2>1, <2>2, FS_Injection
  <2>4. ASSUME NEW n \in 1 .. N PROVE \E i \in P : rank(i) = n - 1
    <3>1. PICK i \in P : f[i] = n
      BY <2>3 DEF Surjection
    <3>2. rank(i) + 1 = n
      BY <3>1 DEF f
    <3>3. rank(i) \in Nat
      BY <1>2
    <3> QED
      BY <3>2, <3>3
  <2> QED
    BY <2>4
<1> DEFINE place == [n \in 1 .. N |-> CHOOSE i \in P : rank(i) = n - 1]
<1>6. ASSUME NEW n \in 1 .. N PROVE place[n] \in P /\ rank(place[n]) = n - 1
  BY <1>5
<1>7. place \in [1 .. N -> P]
  BY <1>6
<1>8. Arranged(s, before) = [n \in 1 .. N |-> s[place[n]]]
  BY DEF Arranged, rank
<1> HIDE DEF place
<1>9. ASSUME NEW i \in P PROVE \E n \in 1 .. N : place[n] = i
  <2>1. rank(i) + 1 \in 1 .. N /\ rank(i) \in Nat
    BY <1>2
  <2>2. rank(place[rank(i) + 1]) = rank(i) /\ place[rank(i) + 1] \in P
    BY <1>6, <2>1
  <2> QED
    BY <1>4, <2>1, <2>2
<1>10. ASSUME NEW m \in 1 .. N, NEW n \in 1 .. N
       PROVE  (m < n) <=> (place[m] \in before[place[n]])
  <2>1. place[m] \in P /\ place[n] \in P /\ rank(place[m]) = m - 1 /\ rank(place[n]) = n - 1
    BY <1>6
  <2>2. m \in Nat /\ n \in Nat
    BY <1>1
  <2>3. ASSUME place[m] \in before[place[n]] PROVE m < n
    <3>1. rank(place[m]) < rank(place[n])
      BY <1>3, <2>1, <2>3
    <3> QED
      BY <2>1, <2>2, <3>1
  <2>4. ASSUME m < n PROVE place[m] \in before[place[n]]
    <3>1. place[m] # place[n]
      BY <2>1, <2>2, <2>4
    <3>2. CASE place[n] \in before[place[m]]
      <4>1. rank(place[n]) < rank(place[m])
        BY <1>3, <2>1, <3>2
      <4> QED
        BY <2>1, <2>2, <2>4, <4>1
    <3> QED
      BY <2>1, <3>1, <3>2
  <2> QED
    BY <2>3, <2>4
<1> QED
  BY <1>1, <1>7, <1>8, <1>9, <1>10

\* A function on 1 .. n is a list.
LEMMA ListOf ==
    ASSUME NEW T, NEW n \in Nat, NEW f \in [1 .. n -> T]
    PROVE  f \in Seq(T) /\ Len(f) = n
<1>1. f \in Seq(T)
  BY SeqDef
<1>2. DOMAIN f = 1 .. Len(f) /\ DOMAIN f = 1 .. n /\ Len(f) \in Nat
  BY <1>1, LenProperties
<1> QED
  BY <1>1, <1>2

Ordering(P, before) ==
    /\ before \in [P -> SUBSET P]
    /\ \A i \in P : i \notin before[i]
    /\ \A i, j, k \in P : i \in before[j] /\ j \in before[k] => i \in before[k]
    /\ \A i, j \in P : i # j => i \in before[j] \/ j \in before[i]

\* The result holds the items at the positions P, and none twice that was not.
LEMMA ArrangedFacts ==
    ASSUME NEW T, NEW s \in Seq(T), NEW P, NEW before, P \subseteq DOMAIN s, Ordering(P, before),
           NEW w, w = Arranged(s, before)
    PROVE  /\ w \in Seq(T)
           /\ \A x : x \in ToSet(w) <=> \E i \in P : s[i] = x
           /\ IsInjective(s) => IsInjective(w)
           /\ \A m, n \in DOMAIN w :
                 m < n => \E i, j \in P : i \in before[j] /\ w[m] = s[i] /\ w[n] = s[j]
<1> DEFINE N == Cardinality(P)
<1>1. DOMAIN s = 1 .. Len(s) /\ Len(s) \in Nat
  OBVIOUS
<1>2. IsFiniteSet(P)
  <2>1. IsFiniteSet(1 .. Len(s)) /\ P \in SUBSET (1 .. Len(s))
    BY <1>1, FS_Interval
  <2> QED
    BY <2>1, FS_Subset
<1>3. N \in Nat
  BY <1>2, FS_CardinalityType
<1>a. /\ N \in Nat
      /\ \E place \in [1 .. N -> P] :
            /\ Arranged(s, before) = [n \in 1 .. N |-> s[place[n]]]
            /\ \A i \in P : \E n \in 1 .. N : place[n] = i
            /\ \A m, n \in 1 .. N : (m < n) <=> (place[m] \in before[place[n]])
  BY <1>2, ArrangedPlaces DEF Ordering
<1> HIDE DEF N
<1>4. PICK place \in [1 .. N -> P] :
            /\ w = [n \in 1 .. N |-> s[place[n]]]
            /\ \A i \in P : \E n \in 1 .. N : place[n] = i
            /\ \A m, n \in 1 .. N : (m < n) <=> (place[m] \in before[place[n]])
  BY <1>a
<1>5. /\ DOMAIN w = 1 .. N
      /\ \A n \in 1 .. N : w[n] = s[place[n]] /\ place[n] \in P
  BY <1>4
<1>6. w \in Seq(T)
  <2>1. w \in [1 .. N -> T]
    BY <1>1, <1>4
  <2> QED
    BY <1>3, <2>1, ListOf
<1>7. ASSUME NEW x PROVE x \in ToSet(w) <=> \E i \in P : s[i] = x
  BY <1>4, <1>5 DEF ToSet
<1>8. ASSUME IsInjective(s) PROVE IsInjective(w)
  <2> SUFFICES ASSUME NEW m \in 1 .. N, NEW n \in 1 .. N, w[m] = w[n] PROVE m = n
    BY <1>5 DEF IsInjective
  <2>1. place[m] = place[n]
    BY <1>5, <1>8 DEF IsInjective
  <2>2. ~ (m < n) /\ ~ (n < m)
    BY <1>4, <1>5, <2>1 DEF Ordering
  <2>3. m \in Nat /\ n \in Nat
    BY <1>3
  <2> QED
    BY <2>2, <2>3
<1>9. ASSUME NEW m \in DOMAIN w, NEW n \in DOMAIN w, m < n
      PROVE  \E i, j \in P : i \in before[j] /\ w[m] = s[i] /\ w[n] = s[j]
  BY <1>4, <1>5, <1>9
<1> QED
  BY <1>6, <1>7, <1>8, <1>9

\* A comprehension keeps what the test accepts, each item as often as it was.
LEMMA WhereFacts ==
    ASSUME NEW T, NEW s \in Seq(T), NEW S
    PROVE  /\ Where(s, S) \in Seq(T)
           /\ ToSet(Where(s, S)) = ToSet(s) \cap S
           /\ IsInjective(s) => IsInjective(Where(s, S))
<1> DEFINE P == {i \in DOMAIN s : s[i] \in S}
           before == [i \in P |-> {j \in P : j < i}]
           w == Where(s, S)
<1>1. \A i \in P : i \in Nat /\ i \in DOMAIN s
  OBVIOUS
<1>2. \A i, j \in P : i \in before[j] <=> i < j
  OBVIOUS
<1>3. w = Arranged(s, before)
  BY DEF Where
<1>4. \A x : x \in ToSet(s) \cap S <=> \E i \in P : s[i] = x
  BY DEF ToSet
<1>5. P \subseteq DOMAIN s /\ before \in [P -> SUBSET P]
  OBVIOUS
<1> HIDE DEF before, P
<1>6. Ordering(P, before)
  BY <1>1, <1>2, <1>5 DEF Ordering
<1> HIDE DEF w
<1>7. /\ w \in Seq(T)
      /\ \A x : x \in ToSet(w) <=> \E i \in P : s[i] = x
      /\ IsInjective(s) => IsInjective(w)
  BY <1>3, <1>5, <1>6, ArrangedFacts
<1>8. ToSet(w) = ToSet(s) \cap S
  BY <1>4, <1>7
<1> QED
  BY <1>7, <1>8 DEF w

-----------------------------------------------------------------------------
(* Tuples of ranks are totally ordered.                                    *)

\* At the first difference the first tuple is over or has the lower rank.
LEMMA TupleLessAt ==
    ASSUME NEW x \in Seq(Nat), NEW y \in Seq(Nat)
    PROVE  TupleLess(x, y) <=>
             \E i \in 1 .. Len(y) : /\ i <= Len(x) + 1
                                    /\ \A j \in 1 .. i - 1 : x[j] = y[j]
                                    /\ i <= Len(x) => x[i] < y[i]
<1>1. /\ DOMAIN x = 1 .. Len(x) /\ DOMAIN y = 1 .. Len(y) /\ Len(x) \in Nat /\ Len(y) \in Nat
      /\ DOMAIN x \cap DOMAIN y = {i \in 1 .. Len(y) : i <= Len(x)}
  OBVIOUS
<1>2. ASSUME Len(x) < Len(y)
      PROVE  x = SubSeq(y, 1, Len(x)) <=> \A j \in 1 .. Len(x) : x[j] = y[j]
  <2> DEFINE z == SubSeq(y, 1, Len(x))
  <2>1. z \in Seq(Nat) /\ Len(z) = Len(x) /\ \A j \in 1 .. Len(x) : z[j] = y[j]
    BY <1>1, <1>2
  <2> HIDE DEF z
  <2>2. (\A j \in 1 .. Len(x) : x[j] = z[j]) => x = z
    BY <1>1, <2>1, SeqEqual
  <2> QED
    BY <2>1, <2>2 DEF z
<1>3. ASSUME TupleLess(x, y)
      PROVE  \E i \in 1 .. Len(y) : /\ i <= Len(x) + 1
                                    /\ \A j \in 1 .. i - 1 : x[j] = y[j]
                                    /\ i <= Len(x) => x[i] < y[i]
  <2>1. CASE Len(x) < Len(y) /\ x = SubSeq(y, 1, Len(x))
    <3>1. Len(x) + 1 \in 1 .. Len(y) /\ (Len(x) + 1) - 1 = Len(x) /\ ~ (Len(x) + 1 <= Len(x))
      BY <1>1, <2>1
    <3>2. \A j \in 1 .. Len(x) : x[j] = y[j]
      BY <1>2, <2>1
    <3> QED
      BY <1>1, <3>1, <3>2
  <2>2. CASE \E i \in DOMAIN x \cap DOMAIN y : (\A j \in 1 .. i - 1 : x[j] = y[j]) /\ x[i] < y[i]
    BY <1>1, <2>2
  <2> QED
    BY <1>3, <2>1, <2>2 DEF TupleLess
<1>4. ASSUME NEW i \in 1 .. Len(y), i <= Len(x) + 1, \A j \in 1 .. i - 1 : x[j] = y[j],
             i <= Len(x) => x[i] < y[i]
      PROVE  TupleLess(x, y)
  <2>1. CASE i <= Len(x)
    <3>1. i \in DOMAIN x \cap DOMAIN y
      BY <1>1, <2>1
    <3> QED
      BY <1>4, <2>1, <3>1 DEF TupleLess
  <2>2. CASE ~ (i <= Len(x))
    <3>1. i - 1 = Len(x) /\ Len(x) < Len(y)
      BY <1>1, <1>4, <2>2
    <3> QED
      BY <1>2, <1>4, <3>1 DEF TupleLess
  <2> QED
    BY <2>1, <2>2
<1> QED
  BY <1>3, <1>4

\* No tuple is less than itself.
LEMMA TupleIrreflexive ==
    ASSUME NEW x \in Seq(Nat)
    PROVE  ~ TupleLess(x, x)
<1> SUFFICES ASSUME TupleLess(x, x) PROVE FALSE
  OBVIOUS
<1>1. PICK i \in 1 .. Len(x) : x[i] < x[i]
  BY TupleLessAt
<1>2. x[i] \in Nat
  OBVIOUS
<1> QED
  BY <1>1, <1>2

\* The order is transitive: it is decided at the earlier of two differences.
LEMMA TupleTransitive ==
    ASSUME NEW x \in Seq(Nat), NEW y \in Seq(Nat), NEW z \in Seq(Nat),
           TupleLess(x, y), TupleLess(y, z)
    PROVE  TupleLess(x, z)
<1>0. /\ Len(x) \in Nat /\ Len(y) \in Nat /\ Len(z) \in Nat
      /\ \A i \in 1 .. Len(x) : x[i] \in Nat
      /\ \A i \in 1 .. Len(y) : y[i] \in Nat
      /\ \A i \in 1 .. Len(z) : z[i] \in Nat
  OBVIOUS
<1>1. PICK a \in 1 .. Len(y) : /\ a <= Len(x) + 1
                               /\ \A j \in 1 .. a - 1 : x[j] = y[j]
                               /\ a <= Len(x) => x[a] < y[a]
  BY TupleLessAt
<1>2. PICK b \in 1 .. Len(z) : /\ b <= Len(y) + 1
                               /\ \A j \in 1 .. b - 1 : y[j] = z[j]
                               /\ b <= Len(y) => y[b] < z[b]
  BY TupleLessAt
<1> DEFINE i == IF a <= b THEN a ELSE b
<1>a. /\ Len(x) \in Nat /\ Len(y) \in Nat /\ Len(z) \in Nat
      /\ a \in 1 .. Len(y) /\ a <= Len(x) + 1
      /\ b \in 1 .. Len(z) /\ b <= Len(y) + 1
  BY <1>0, <1>1, <1>2
<1>b. a \in Nat /\ b \in Nat /\ i \in Nat /\ i <= a /\ i <= b /\ 1 <= i
  BY ONLY <1>a
<1>3. i \in 1 .. Len(z) /\ i <= Len(x) + 1
  BY ONLY <1>a, <1>b
<1>4. \A j \in 1 .. i - 1 : x[j] = z[j]
  <2> SUFFICES ASSUME NEW j \in 1 .. i - 1 PROVE x[j] = z[j]
    OBVIOUS
  <2>1. j \in 1 .. a - 1 /\ j \in 1 .. b - 1
    BY ONLY <1>b, j \in 1 .. i - 1
  <2> QED
    BY <1>1, <1>2, <2>1
<1>5. ASSUME i <= Len(x) PROVE x[i] < z[i]
  <2>1. CASE a < b
    <3>1. i = a /\ y[a] = z[a] /\ x[a] < y[a]
      BY <1>0, <1>1, <1>2, <1>5, <2>1
    <3> QED
      BY <3>1
  <2>2. CASE a = b
    <3>1. i = a /\ x[a] < y[a] /\ y[a] < z[a] /\ a \in 1 .. Len(x) /\ a \in 1 .. Len(z)
      BY <1>0, <1>1, <1>2, <1>5, <2>2
    <3>2. x[a] \in Nat /\ y[a] \in Nat /\ z[a] \in Nat
      BY <1>0, <1>1, <3>1
    <3>3. x[a] < y[a] /\ y[a] < z[a]
      BY <3>1
    <3>4. x[a] < z[a]
      BY ONLY <3>2, <3>3
    <3> QED
      BY <3>1, <3>4
  <2>3. CASE b < a
    <3>1. i = b /\ x[b] = y[b] /\ y[b] < z[b]
      BY <1>0, <1>1, <1>2, <1>5, <2>3
    <3> QED
      BY <3>1
  <2> QED
    BY <1>0, <1>1, <1>2, <2>1, <2>2, <2>3
<1> HIDE DEF i
<1> QED
  BY <1>3, <1>4, <1>5, TupleLessAt

\* Two tuples that are not the same are ordered.
LEMMA TupleTotal ==
    ASSUME NEW x \in Seq(Nat), NEW y \in Seq(Nat), x # y
    PROVE  TupleLess(x, y) \/ TupleLess(y, x)
<1>0. /\ Len(x) \in Nat /\ Len(y) \in Nat
      /\ \A i \in 1 .. Len(x) : x[i] \in Nat
      /\ \A i \in 1 .. Len(y) : y[i] \in Nat
  OBVIOUS
<1> DEFINE D == {i \in Nat \ {0} : i <= Len(x) + 1 /\ i <= Len(y) + 1 /\
                     (i \in 1 .. Len(x) /\ i \in 1 .. Len(y) => x[i] # y[i])
                     /\ (i \in 1 .. Len(x) \/ i \in 1 .. Len(y))}
<1>1. D # {}
  <2>1. CASE Len(x) = Len(y)
    <3>1. PICK i \in 1 .. Len(x) : x[i] # y[i]
      BY <2>1, SeqEqual
    <3>2. i \in D
      BY <1>0, <2>1, <3>1
    <3> QED
      BY <3>2
  <2>2. CASE Len(x) < Len(y)
    <3>1. Len(x) + 1 \in D
      BY <1>0, <2>2
    <3> QED
      BY <3>1
  <2>3. CASE Len(y) < Len(x)
    <3>1. Len(y) + 1 \in D
      BY <1>0, <2>3
    <3> QED
      BY <3>1
  <2> QED
    BY <1>0, <2>1, <2>2, <2>3
<1>2. PICK i \in D : \A j \in D : i <= j
  BY <1>1, LeastElement
<1>3. i \in Nat \ {0} /\ i <= Len(x) + 1 /\ i <= Len(y) + 1
  OBVIOUS
<1>4. ASSUME NEW j \in 1 .. i - 1 PROVE x[j] = y[j]
  <2>1. j \in Nat \ {0} /\ j < i /\ j \notin D /\ j \in 1 .. Len(x) /\ j \in 1 .. Len(y)
    BY <1>0, <1>2, <1>3
  <2> QED
    BY <1>0, <2>1
<1>5. CASE i <= Len(x) /\ i <= Len(y)
  <2>1. i \in 1 .. Len(x) /\ i \in 1 .. Len(y) /\ x[i] # y[i]
    BY <1>0, <1>3, <1>5
  <2>2. x[i] < y[i] \/ y[i] < x[i]
    BY <1>0, <2>1
  <2> QED
    BY <1>3, <1>4, <2>1, <2>2, TupleLessAt
<1>6. CASE ~ (i <= Len(x))
  <2>1. i \in 1 .. Len(y)
    BY <1>0, <1>3, <1>6
  <2> QED
    BY <1>3, <1>4, <1>6, <2>1, TupleLessAt
<1>7. CASE ~ (i <= Len(y))
  <2>1. i \in 1 .. Len(x)
    BY <1>0, <1>3, <1>7
  <2> QED
    BY <1>3, <1>4, <1>7, <2>1, TupleLessAt
<1> QED
  BY <1>5, <1>6, <1>7

\* sorted() returns the items of the list, the most specific first.
LEMMA SortedFacts ==
    ASSUME NEW T, NEW s \in Seq(T), \A x \in T : Specificity(x) \in Seq(Nat)
    PROVE  /\ SortedByRank(s) \in Seq(T)
           /\ ToSet(SortedByRank(s)) = ToSet(s)
           /\ IsInjective(s) => IsInjective(SortedByRank(s))
           /\ \A m, n \in DOMAIN SortedByRank(s) :
                 m < n => ~ TupleLess(Specificity(SortedByRank(s)[n]), Specificity(SortedByRank(s)[m]))
<1> DEFINE P == DOMAIN s
           rank(i) == Specificity(s[i])
           before == [i \in P |-> {j \in P : TupleLess(rank(j), rank(i)) \/ (rank(j) = rank(i) /\ j < i)}]
           w == SortedByRank(s)
<1>1. \A i \in P : rank(i) \in Seq(Nat) /\ i \in Nat
  OBVIOUS
<1>2. w = Arranged(s, before)
  BY DEF SortedByRank
<1> HIDE DEF rank
<1>3. \A i, j \in P : i \in before[j] <=> TupleLess(rank(i), rank(j)) \/ (rank(i) = rank(j) /\ i < j)
  BY Zenon
<1>4. P \subseteq DOMAIN s /\ before \in [P -> SUBSET P] /\ \A x : x \in ToSet(s) <=> \E i \in P : s[i] = x
  BY Zenon DEF ToSet
<1> HIDE DEF before, P, w
<1>5. \A i \in P : i \notin before[i]
  <2> SUFFICES ASSUME NEW i \in P PROVE i \notin before[i]
    OBVIOUS
  <2>1. ~ TupleLess(rank(i), rank(i)) /\ ~ (i < i)
    BY <1>1, TupleIrreflexive
  <2> QED
    BY <1>3, <2>1
<1>6. ASSUME NEW i \in P, NEW j \in P, NEW k \in P, i \in before[j], j \in before[k]
      PROVE  i \in before[k]
  <2>1. TupleLess(rank(i), rank(j)) \/ (rank(i) = rank(j) /\ i < j)
    BY <1>3, <1>6
  <2>2. TupleLess(rank(j), rank(k)) \/ (rank(j) = rank(k) /\ j < k)
    BY <1>3, <1>6
  <2>3. TupleLess(rank(i), rank(k)) \/ (rank(i) = rank(k) /\ i < k)
    <3>1. CASE TupleLess(rank(i), rank(j)) /\ TupleLess(rank(j), rank(k))
      BY <1>1, <3>1, TupleTransitive
    <3>2. CASE rank(i) = rank(j) /\ i < j /\ rank(j) = rank(k) /\ j < k
      BY <1>1, <3>2
    <3> QED
      BY <2>1, <2>2, <3>1, <3>2
  <2> QED
    BY <1>3, <2>3
<1>7. ASSUME NEW i \in P, NEW j \in P, i # j PROVE i \in before[j] \/ j \in before[i]
  <2>1. i < j \/ j < i
    BY <1>1, <1>7
  <2>2. rank(i) = rank(j) \/ TupleLess(rank(i), rank(j)) \/ TupleLess(rank(j), rank(i))
    BY <1>1, TupleTotal
  <2> QED
    BY <1>3, <2>1, <2>2
<1>a. Ordering(P, before)
  BY <1>4, <1>5, <1>6, <1>7 DEF Ordering
<1>8. /\ w \in Seq(T)
      /\ \A x : x \in ToSet(w) <=> \E i \in P : s[i] = x
      /\ IsInjective(s) => IsInjective(w)
      /\ \A m, n \in DOMAIN w : m < n => \E i, j \in P : i \in before[j] /\ w[m] = s[i] /\ w[n] = s[j]
  BY <1>2, <1>4, <1>a, ArrangedFacts
<1>9. ASSUME NEW m \in DOMAIN w, NEW n \in DOMAIN w, m < n
      PROVE  ~ TupleLess(Specificity(w[n]), Specificity(w[m]))
  <2>1. PICK i \in P, j \in P : i \in before[j] /\ w[m] = s[i] /\ w[n] = s[j]
    BY <1>8, <1>9
  <2>2. TupleLess(rank(i), rank(j)) \/ rank(i) = rank(j)
    BY <1>3, <2>1
  <2>3. ~ TupleLess(rank(j), rank(i))
    <3> SUFFICES ASSUME TupleLess(rank(j), rank(i)) PROVE FALSE
      OBVIOUS
    <3>1. TupleLess(rank(i), rank(i))
      BY <1>1, <2>2, TupleTransitive
    <3> QED
      BY <1>1, <3>1, TupleIrreflexive
  <2> QED
    BY <2>1, <2>3 DEF rank
<1>b. ToSet(w) = ToSet(s)
  BY <1>4, <1>8
<1> QED
  BY <1>8, <1>9, <1>b DEF w

-----------------------------------------------------------------------------
(* Topic matching: what the recursion of _match_parts computes.            *)

\* A filter as validate_subscribe_topic leaves it, its prefix stripped.
WellFormed(f) == f \in Seq(Levels) /\ f # <<>> /\ \A i \in 1 .. Len(f) - 1 : f[i] # "#"

\* One call of _match_parts, given the result of the next one.
MatchStep(f, t, next, i) ==
    IF i > Len(f) THEN i > Len(t)
    ELSE \/ f[i] = "#"
         \/ i <= Len(t) /\ f[i] \in {"+", t[i]} /\ next[i + 1]

\* The result of _match_parts with i - 1 levels consumed, without recursion.
MatchRest(f, t, i) ==
    IF i > Len(f) THEN i > Len(t)
    ELSE \/ f[i] = "#"
         \/ /\ IF Open(f) THEN Len(t) >= Fixed(f) ELSE Len(t) = Fixed(f)
            /\ \A j \in i .. Fixed(f) : f[j] \in {"+", t[j]}

LEMMA MatchRestStep ==
    ASSUME NEW f, WellFormed(f), NEW t \in Seq(Levels), NEW i \in 1 .. Len(f)
    PROVE  MatchRest(f, t, i) <=>
              (f[i] = "#" \/ (i <= Len(t) /\ f[i] \in {"+", t[i]} /\ MatchRest(f, t, i + 1)))
<1>1. Len(f) \in Nat /\ Len(t) \in Nat /\ Len(f) >= 1
  BY DEF WellFormed
<1>2. CASE i = Len(f)
  <2>1. CASE f[i] = "#"
    BY <1>1, <1>2, <2>1 DEF MatchRest
  <2>2. CASE f[i] # "#"
    <3>1. ~ Open(f) /\ Fixed(f) = Len(f) /\ i + 1 > Len(f) /\ ~ (i > Len(f))
      BY <1>1, <1>2, <2>2 DEF Open, Fixed
    <3>2. MatchRest(f, t, i) <=> (Len(t) = Len(f) /\ \A j \in i .. Len(f) : f[j] \in {"+", t[j]})
      BY <2>2, <3>1 DEF MatchRest
    <3>3. MatchRest(f, t, i + 1) <=> i + 1 > Len(t)
      BY <3>1 DEF MatchRest
    <3>4. (\A j \in i .. Len(f) : f[j] \in {"+", t[j]}) <=> f[i] \in {"+", t[i]}
      BY <1>1, <1>2
    <3> QED
      BY <1>1, <1>2, <2>2, <3>2, <3>3, <3>4
  <2> QED
    BY <2>1, <2>2
<1>3. CASE i < Len(f)
  <2>1. f[i] # "#" /\ ~ (i > Len(f)) /\ ~ (i + 1 > Len(f)) /\ i + 1 \in 1 .. Len(f)
    BY <1>1, <1>3 DEF WellFormed
  <2>2. MatchRest(f, t, i) <=> /\ IF Open(f) THEN Len(t) >= Fixed(f) ELSE Len(t) = Fixed(f)
                              /\ \A j \in i .. Fixed(f) : f[j] \in {"+", t[j]}
    BY <2>1 DEF MatchRest
  <2>3. CASE f[i + 1] = "#"
    <3>1. i + 1 = Len(f)
      BY <1>1, <1>3, <2>1, <2>3 DEF WellFormed
    <3>2. Open(f) /\ Fixed(f) = i
      BY <1>1, <2>3, <3>1 DEF Open, Fixed
    <3>3. MatchRest(f, t, i + 1)
      BY <2>1, <2>3 DEF MatchRest
    <3>4. (\A j \in i .. Fixed(f) : f[j] \in {"+", t[j]}) <=> f[i] \in {"+", t[i]}
      BY <1>1, <3>2
    <3> QED
      BY <1>1, <2>1, <2>2, <3>2, <3>3, <3>4
  <2>4. CASE f[i + 1] # "#"
    <3>1. MatchRest(f, t, i + 1) <=> /\ IF Open(f) THEN Len(t) >= Fixed(f) ELSE Len(t) = Fixed(f)
                                    /\ \A j \in i + 1 .. Fixed(f) : f[j] \in {"+", t[j]}
      BY <2>1, <2>4 DEF MatchRest
    <3>2. Fixed(f) \in Nat /\ i + 1 <= Fixed(f)
      BY <1>1, <1>3, <2>4 DEF Fixed, Open
    <3>3. (\A j \in i .. Fixed(f) : f[j] \in {"+", t[j]}) <=>
              (f[i] \in {"+", t[i]} /\ \A j \in i + 1 .. Fixed(f) : f[j] \in {"+", t[j]})
      <4>1. \A j \in i .. Fixed(f) : j = i \/ j \in i + 1 .. Fixed(f)
        BY <3>2
      <4>2. i \in i .. Fixed(f) /\ \A j \in i + 1 .. Fixed(f) : j \in i .. Fixed(f)
        BY <3>2
      <4> QED
        BY <4>1, <4>2
    <3>4. (IF Open(f) THEN Len(t) >= Fixed(f) ELSE Len(t) = Fixed(f)) => i <= Len(t)
      BY <1>1, <3>2
    <3> QED
      BY <2>1, <2>2, <3>1, <3>3, <3>4
  <2> QED
    BY <2>3, <2>4
<1> QED
  BY <1>1, <1>2, <1>3

\* A function that satisfies the recursive definition exists, and it is this one.
LEMMA MatchPartsIsRest ==
    ASSUME NEW f, WellFormed(f), NEW t \in Seq(Levels)
    PROVE  MatchParts(f, t) <=> MatchRest(f, t, 1)
<1> DEFINE D == 1 .. Len(f) + 1
           g == [i \in D |-> MatchRest(f, t, i)]
           h == CHOOSE h : h = [i \in D |-> MatchStep(f, t, h, i)]
<1>1. Len(f) \in Nat /\ Len(t) \in Nat /\ Len(f) >= 1
  BY DEF WellFormed
<1>2. g = [i \in D |-> MatchStep(f, t, g, i)]
  <2>1. ASSUME NEW i \in D PROVE MatchRest(f, t, i) = MatchStep(f, t, g, i)
    <3>1. CASE i > Len(f)
      BY <3>1 DEF MatchRest, MatchStep
    <3>2. CASE ~ (i > Len(f))
      <4>1. i \in 1 .. Len(f) /\ i + 1 \in D
        BY <1>1, <3>2
      <4>2. g[i + 1] = MatchRest(f, t, i + 1)
        BY <4>1
      <4>3. MatchRest(f, t, i) <=>
                (f[i] = "#" \/ (i <= Len(t) /\ f[i] \in {"+", t[i]} /\ MatchRest(f, t, i + 1)))
        BY <4>1, MatchRestStep
      <4>4. MatchRest(f, t, i) \in BOOLEAN
        BY <3>2, Zenon DEF MatchRest
      <4> HIDE DEF g
      <4> QED
        BY <3>2, <4>2, <4>3, <4>4 DEF MatchStep
    <3> QED
      BY <3>1, <3>2
  <2> QED
    BY <2>1
<1>3. h = [i \in D |-> MatchStep(f, t, h, i)]
  <2> HIDE DEF g
  <2> QED
    BY <1>2
<1>4. MatchParts(f, t) = h[1]
  BY DEF MatchParts, MatchStep
<1> HIDE DEF g, h
<1>5. ASSUME NEW i \in D PROVE h[i] = MatchStep(f, t, h, i) /\ g[i] = MatchStep(f, t, g, i)
  BY <1>2, <1>3
<1> DEFINE B == {k \in 0 .. Len(f) : h[Len(f) + 1 - k] # g[Len(f) + 1 - k]}
<1>6. B = {}
  <2> SUFFICES ASSUME B # {} PROVE FALSE
    OBVIOUS
  <2>0. B \in SUBSET Nat
    BY <1>1
  <2>1. PICK k \in B : \A l \in B : k <= l
    <3> HIDE DEF B
    <3> QED
      BY <2>0, LeastElement
  <2> DEFINE i == Len(f) + 1 - k
  <2>2. i \in D /\ h[i] # g[i] /\ k \in Nat
    BY <1>1, <2>1
  <2>3. CASE k = 0
    <3>1. i > Len(f)
      BY <1>1, <2>3
    <3>2. MatchStep(f, t, h, i) = MatchStep(f, t, g, i)
      BY <3>1 DEF MatchStep
    <3> QED
      BY <1>5, <2>2, <3>2
  <2>4. CASE k # 0
    <3>1. k - 1 \in 0 .. Len(f) /\ k - 1 \notin B /\ Len(f) + 1 - (k - 1) = i + 1
      BY <1>1, <2>1, <2>2, <2>4
    <3>2. h[i + 1] = g[i + 1]
      BY <3>1
    <3> HIDE DEF i
    <3>3. MatchStep(f, t, h, i) = MatchStep(f, t, g, i)
      BY <3>2 DEF MatchStep
    <3> QED
      BY <1>5, <2>2, <3>3
  <2> QED
    BY <2>3, <2>4
<1>7. Len(f) \in 0 .. Len(f) /\ Len(f) + 1 - Len(f) = 1 /\ 1 \in D
  BY <1>1
<1>8. h[1] = g[1]
  BY <1>6, <1>7
<1> QED
  BY <1>4, <1>7, <1>8 DEF g

(***************************************************************************)
(* _topic_matches, with its recursion over the levels and its comparison   *)
(* of the leading "$", is the match of the MQTT rules, for every filter    *)
(* that passed validation and every topic.                                 *)
(***************************************************************************)
THEOREM TopicMatchesIsMqtt ==
    ASSUME NEW f, WellFormed(f), NEW t \in Seq(Levels), t # <<>>
    PROVE  TopicMatches(f, t) <=> MqttMatches(f, t)
<1>1. Len(f) \in Nat /\ Len(t) \in Nat /\ Len(f) >= 1 /\ Len(t) >= 1
  BY DEF WellFormed
<1> DEFINE Long == IF Open(f) THEN Len(t) >= Fixed(f) ELSE Len(t) = Fixed(f)
           Fits == \A j \in 1 .. Fixed(f) : f[j] \in {"+", t[j]}
<1>2. MatchRest(f, t, 1) <=> (f[1] = "#" \/ (Long /\ Fits))
  BY <1>1 DEF MatchRest
<1>3. ASSUME f[1] = "#" PROVE Long /\ Fits
  <2>1. Len(f) = 1
    <3>1. Len(f) > 1 => 1 \in 1 .. Len(f) - 1
      BY <1>1
    <3>2. 1 \notin 1 .. Len(f) - 1
      BY <1>3 DEF WellFormed
    <3>3. \A n \in Nat : n >= 1 /\ ~ (n > 1) => n = 1
      OBVIOUS
    <3>4. Len(f) \in Nat /\ Len(f) >= 1
      BY <1>1
    <3> QED
      BY ONLY <3>1, <3>2, <3>3, <3>4
  <2>2. Open(f) /\ Fixed(f) = 0
    BY <1>3, <2>1 DEF Open, Fixed
  <2> QED
    BY <1>1, <2>2
<1>4. MatchParts(f, t) <=> (Long /\ Fits)
  BY <1>2, <1>3, MatchPartsIsRest
<1>5. ASSUME Long, Fits
      PROVE  (StartsWithDollar(t) <=> StartsWithDollar(f)) <=>
                 (StartsWithDollar(t) => f[1] \notin {"+", "#"})
  <2>1. CASE f[1] \in {"+", "#"}
    BY <2>1, PrefixAssumption DEF StartsWithDollar
  <2>2. CASE f[1] \notin {"+", "#"}
    <3>1. 1 \in 1 .. Fixed(f)
      BY <1>1, <2>2 DEF Fixed, Open
    <3>2. f[1] = t[1]
      BY <1>5, <2>2, <3>1
    <3> QED
      BY <2>2, <3>2 DEF StartsWithDollar
  <2> QED
    BY <2>1, <2>2
<1> QED
  BY <1>4, <1>5 DEF TopicMatches, MqttMatches

\* Without its prefix a valid filter is still a filter.
LEMMA ActualWellFormed ==
    ASSUME NEW f \in Seq(Levels), ValidFilter(f)
    PROVE  WellFormed(ActualFilter(f))
<1>0. f # <<>> /\ WellFormed(f)
  BY Zenon DEF ValidFilter, WellFormed
<1>1. Len(f) \in Nat /\ Len(f) >= 1 /\ WellFormed(f)
  BY <1>0
<1> DEFINE a == SharedFilterToActual(f)
<1>2. WellFormed(a)
  <2>1. CASE f[1] = "$share" /\ Len(f) >= 3
    <3> DEFINE u == SubSeq(f, 3, Len(f))
    <3>1. a = u
      BY <2>1 DEF SharedFilterToActual
    <3>2. u \in Seq(Levels) /\ Len(u) = Len(f) - 2 /\ \A i \in 1 .. Len(f) - 2 : u[i] = f[i + 2]
      BY <1>1, <2>1
    <3> HIDE DEF u
    <3>3. u # <<>>
      BY <1>1, <2>1, <3>2
    <3>4. \A i \in 1 .. Len(u) - 1 : u[i] # "#"
      BY <1>1, <2>1, <3>2 DEF WellFormed
    <3> QED
      BY <3>1, <3>2, <3>3, <3>4 DEF WellFormed
  <2>2. CASE ~ (f[1] = "$share" /\ Len(f) >= 3) /\ f[1] \in StrippedPrefixes /\ Len(f) >= 2
    <3> DEFINE u == Tail(f)
    <3>1. a = u
      BY <2>2 DEF SharedFilterToActual
    <3>2. u \in Seq(Levels) /\ Len(u) = Len(f) - 1 /\ \A i \in 1 .. Len(f) - 1 : u[i] = f[i + 1]
      BY <1>1, <2>2
    <3> HIDE DEF u
    <3>3. u # <<>>
      BY <1>1, <2>2, <3>2
    <3>4. \A i \in 1 .. Len(u) - 1 : u[i] # "#"
      BY <1>1, <2>2, <3>2 DEF WellFormed
    <3> QED
      BY <3>1, <3>2, <3>3, <3>4 DEF WellFormed
  <2> QED
    BY <1>1, <2>1, <2>2 DEF SharedFilterToActual
<1> HIDE DEF a
<1>3. ActualFilter(f) = f \/ ActualFilter(f) = a
  BY DEF ActualFilter, a
<1> QED
  BY <1>1, <1>2, <1>3

-----------------------------------------------------------------------------
(* Paths of the trie.                                                      *)

LEMMA PathsArePrefixes ==
    ASSUME NEW S, NEW a \in Seq(S)
    PROVE  /\ \A p \in Paths(a) : p \in Seq(S) /\ IsPrefix(p, a)
           /\ \A p \in Seq(S) : IsPrefix(p, a) => p \in Paths(a)
           /\ <<>> \in Paths(a) /\ a \in Paths(a)
<1>1. Len(a) \in Nat
  OBVIOUS
<1>2. ASSUME NEW n \in 0 .. Len(a)
      PROVE  LET q == SubSeq(a, 1, n)
             IN  q \in Seq(S) /\ Len(q) = n /\ q = SubSeq(q, 1, Len(q))
  <2> DEFINE q == SubSeq(a, 1, n)
  <2>1. q \in Seq(S) /\ Len(q) = n
    BY <1>1
  <2> HIDE DEF q
  <2>2. q = SubSeq(q, 1, Len(q))
    BY <2>1, SubSeqFull
  <2> QED
    BY <2>1, <2>2 DEF q
<1>3. ASSUME NEW p \in Paths(a) PROVE p \in Seq(S) /\ IsPrefix(p, a)
  <2>1. PICK n \in 0 .. Len(a) : p = SubSeq(a, 1, n)
    BY DEF Paths
  <2>2. p \in Seq(S) /\ Len(p) = n /\ p = SubSeq(p, 1, Len(p))
    BY <1>2, <2>1
  <2> QED
    BY <1>1, <2>1, <2>2 DEF IsPrefix
<1>4. ASSUME NEW p \in Seq(S), IsPrefix(p, a) PROVE p \in Paths(a)
  <2>1. SubSeq(p, 1, Len(p)) = p
    BY SubSeqFull
  <2>2. Len(p) \in 0 .. Len(a) /\ p = SubSeq(a, 1, Len(p))
    BY <1>1, <1>4, <2>1 DEF IsPrefix
  <2> QED
    BY <2>2 DEF Paths
<1>5. SubSeq(a, 1, 0) = <<>> /\ SubSeq(a, 1, Len(a)) = a /\ 0 \in 0 .. Len(a) /\ Len(a) \in 0 .. Len(a)
  BY <1>1, SubSeqFull, SubSeqEmpty
<1>6. <<>> \in Paths(a) /\ a \in Paths(a)
  BY <1>5 DEF Paths
<1> QED
  BY <1>3, <1>4, <1>6

\* A prefix, level by level.
LEMMA PrefixLevels ==
    ASSUME NEW S, NEW p \in Seq(S), NEW a \in Seq(S)
    PROVE  IsPrefix(p, a) <=> (Len(p) <= Len(a) /\ \A i \in 1 .. Len(p) : p[i] = a[i])
<1>1. Len(p) \in Nat /\ Len(a) \in Nat /\ SubSeq(p, 1, Len(p)) = p
  BY SubSeqFull
<1>2. ASSUME Len(p) <= Len(a)
      PROVE  p = SubSeq(a, 1, Len(p)) <=> \A i \in 1 .. Len(p) : p[i] = a[i]
  <2> DEFINE z == SubSeq(a, 1, Len(p))
  <2>1. z \in Seq(S) /\ Len(z) = Len(p) /\ \A j \in 1 .. Len(p) : z[j] = a[j]
    BY <1>1, <1>2
  <2> HIDE DEF z
  <2>2. (\A j \in 1 .. Len(p) : p[j] = z[j]) => p = z
    BY <1>1, <2>1, SeqEqual
  <2> QED
    BY <2>1, <2>2 DEF z
<1> QED
  BY <1>1, <1>2 DEF IsPrefix

LEMMA PrefixOfPrefix ==
    ASSUME NEW S, NEW p \in Seq(S), NEW q \in Seq(S), NEW a \in Seq(S), IsPrefix(p, q), IsPrefix(q, a)
    PROVE  IsPrefix(p, a)
<1>1. Len(p) \in Nat /\ Len(q) \in Nat /\ Len(a) \in Nat
  OBVIOUS
<1>2. Len(p) <= Len(q) /\ \A i \in 1 .. Len(p) : p[i] = q[i]
  BY PrefixLevels
<1>3. Len(q) <= Len(a) /\ \A i \in 1 .. Len(q) : q[i] = a[i]
  BY PrefixLevels
<1>4. Len(p) <= Len(a) /\ \A i \in 1 .. Len(p) : p[i] = a[i]
  BY <1>1, <1>2, <1>3
<1> QED
  BY <1>4, PrefixLevels

-----------------------------------------------------------------------------
(* The tables of the index, each compared with the table of entries.       *)

Ids   == Identifiers \cup {None}
Items == [filter : Filters, id : Ids]

EntriesOK(entries) == DOMAIN entries \subseteq Filters /\ \A f \in DOMAIN entries : entries[f] \in Ids

Holds(entries, x) == x.filter \in DOMAIN entries /\ x.id = entries[x.filter]

TreeOK(tree, entries) ==
    /\ \A p : p \in DOMAIN tree <=> (p = <<>> \/ \E f \in DOMAIN entries : p \in Paths(ActualFilter(f)))
    /\ \A p \in DOMAIN tree :
          /\ tree[p] \in Seq(Items) /\ IsInjective(tree[p])
          /\ \A x \in Items : x \in ToSet(tree[p]) <=> (Holds(entries, x) /\ ActualFilter(x.filter) = p)

IdentifiedOK(identified, entries) ==
    /\ \A id : id \in DOMAIN identified <=> (id # None /\ \E f \in DOMAIN entries : entries[f] = id)
    /\ \A id \in DOMAIN identified :
          /\ identified[id] \in Seq(Filters) /\ IsInjective(identified[id])
          /\ \A f \in Filters : f \in ToSet(identified[id]) <=> (f \in DOMAIN entries /\ entries[f] = id)

LEMMA ActualFilters ==
    \A f \in Filters : ActualFilter(f) \in Seq(Levels) /\ WellFormed(ActualFilter(f))
  BY FilterAssumption, ActualWellFormed DEF WellFormed

\* Every node of the trie is a list of levels.
LEMMA TreePaths ==
    ASSUME NEW tree, NEW entries, EntriesOK(entries), TreeOK(tree, entries)
    PROVE  DOMAIN tree \subseteq Seq(Levels)
<1> SUFFICES ASSUME NEW p \in DOMAIN tree PROVE p \in Seq(Levels)
  OBVIOUS
<1>1. CASE p = <<>>
  BY <1>1
<1>2. CASE p # <<>>
  <2>1. PICK f \in DOMAIN entries : p \in Paths(ActualFilter(f))
    BY <1>2 DEF TreeOK
  <2>2. ActualFilter(f) \in Seq(Levels)
    BY ActualFilters DEF EntriesOK
  <2> QED
    BY <2>1, <2>2, PathsArePrefixes
<1> QED
  BY <1>1, <1>2

\* A list with an item is not empty, and an empty list has none.
LEMMA NonEmpty ==
    ASSUME NEW T, NEW s \in Seq(T)
    PROVE  s # <<>> <=> \E x \in T : x \in ToSet(s)
<1>1. ASSUME s # <<>> PROVE \E x \in T : x \in ToSet(s)
  <2>1. 1 \in DOMAIN s /\ s[1] \in T
    BY <1>1
  <2> QED
    BY <2>1 DEF ToSet
<1>2. ASSUME NEW x \in ToSet(s) PROVE s # <<>>
  <2>1. PICK i \in DOMAIN s : TRUE
    BY DEF ToSet
  <2> QED
    BY <2>1
<1> QED
  BY <1>1, <1>2

\* _remove_entry: the node loses the item, and the trie the nodes that lead nowhere.
LEMMA TreeRemoved ==
    ASSUME NEW tree, NEW entries, EntriesOK(entries), TreeOK(tree, entries), NEW f \in DOMAIN entries,
           NEW rest, rest = [g \in DOMAIN entries \ {f} |-> entries[g]]
    PROVE  TreeOK(RemoveEntry(tree, ActualFilter(f), Item(f, entries[f])), rest)
<1> DEFINE path == ActualFilter(f)
           item == Item(f, entries[f])
           t1 == [tree EXCEPT ![path] = Where(tree[path], ToSet(tree[path]) \ {item})]
           dead == {q \in Paths(path) \ {<<>>} :
                       \A p \in DOMAIN t1 : IsPrefix(q, p) => p \in Paths(path) /\ t1[p] = <<>>}
           new == [p \in DOMAIN t1 \ dead |-> t1[p]]
<1>1. f \in Filters /\ entries[f] \in Ids /\ path \in Seq(Levels)
  BY ActualFilters DEF EntriesOK
<1>2. item \in Items /\ item.filter = f /\ item.id = entries[f] /\ Holds(entries, item)
  BY <1>1 DEF Item, Items, Holds
<1>3. \A x \in Items : x = item <=> (x.filter = f /\ x.id = entries[f])
  BY <1>1 DEF Item, Items
<1>4. \A p \in DOMAIN tree : p \in Seq(Levels)
  BY TreePaths
<1>5. path \in Paths(path) /\ <<>> \in Paths(path) /\ path \in DOMAIN tree
  BY <1>1, PathsArePrefixes DEF TreeOK
<1>6. RemoveEntry(tree, path, item) = new
  BY <1>5 DEF RemoveEntry, Prune
<1>7. \A x \in Items : Holds(rest, x) <=> (Holds(entries, x) /\ x # item)
  <2> SUFFICES ASSUME NEW x \in Items PROVE Holds(rest, x) <=> (Holds(entries, x) /\ x # item)
    OBVIOUS
  <2>1. CASE x.filter = f
    BY <1>3, <2>1 DEF Holds
  <2>2. CASE x.filter # f
    BY <1>3, <2>2 DEF Holds
  <2> QED
    BY <2>1, <2>2
<1> HIDE DEF path, item
<1>8. DOMAIN t1 = DOMAIN tree
  OBVIOUS
<1>9. ASSUME NEW p \in DOMAIN tree
      PROVE  /\ t1[p] \in Seq(Items) /\ IsInjective(t1[p])
             /\ \A x \in Items : x \in ToSet(t1[p]) <=> (Holds(rest, x) /\ ActualFilter(x.filter) = p)
  <2>1. tree[p] \in Seq(Items) /\ IsInjective(tree[p])
    BY DEF TreeOK
  <2>2. \A x \in Items : x \in ToSet(tree[p]) <=> (Holds(entries, x) /\ ActualFilter(x.filter) = p)
    BY DEF TreeOK
  <2>3. CASE p = path
    <3> DEFINE w == Where(tree[p], ToSet(tree[p]) \ {item})
    <3>1. t1[p] = w
      BY <2>3
    <3>2. w \in Seq(Items) /\ IsInjective(w) /\ ToSet(w) = ToSet(tree[p]) \cap (ToSet(tree[p]) \ {item})
      BY <2>1, WhereFacts
    <3> HIDE DEF w
    <3>3. \A x : x \in ToSet(w) <=> (x \in ToSet(tree[p]) /\ x # item)
      BY <3>2
    <3> QED
      BY <1>7, <2>2, <3>1, <3>2, <3>3
  <2>4. CASE p # path
    <3>1. t1[p] = tree[p]
      BY <2>4
    <3>2. ActualFilter(item.filter) # p
      BY <1>2, <2>4 DEF path
    <3> QED
      BY <1>7, <2>1, <2>2, <3>1, <3>2
  <2> QED
    BY <2>3, <2>4
<1> HIDE DEF t1
<1>10. DOMAIN rest = DOMAIN entries \ {f} /\ \A g \in DOMAIN rest : rest[g] = entries[g]
  OBVIOUS
<1>11. ASSUME NEW g \in DOMAIN rest, NEW p \in Paths(ActualFilter(g))
       PROVE  p \in DOMAIN tree /\ p \notin dead
  <2>1. g \in DOMAIN entries /\ g \in Filters /\ ActualFilter(g) \in Seq(Levels)
    BY <1>10, ActualFilters DEF EntriesOK
  <2>2. p \in DOMAIN tree
    BY <2>1 DEF TreeOK
  <2>3. IsPrefix(p, ActualFilter(g)) /\ ActualFilter(g) \in Paths(ActualFilter(g))
    BY <2>1, PathsArePrefixes
  <2>4. ActualFilter(g) \in DOMAIN tree
    BY <2>1, <2>3 DEF TreeOK
  <2> DEFINE x == Item(g, entries[g])
  <2>5. x \in Items /\ x.filter = g /\ Holds(rest, x)
    BY <1>10, <2>1 DEF Item, Items, Holds, EntriesOK
  <2> HIDE DEF x
  <2>6. x \in ToSet(t1[ActualFilter(g)]) /\ t1[ActualFilter(g)] \in Seq(Items)
    BY <1>9, <2>4, <2>5
  <2>7. t1[ActualFilter(g)] # <<>>
    BY <2>5, <2>6, NonEmpty
  <2> QED
    BY <1>8, <2>2, <2>3, <2>4, <2>7
<1>12. ASSUME NEW p \in DOMAIN tree, p # <<>>, p \notin dead
       PROVE  \E g \in DOMAIN rest : p \in Paths(ActualFilter(g))
  <2>1. PICK g \in DOMAIN entries : p \in Paths(ActualFilter(g))
    BY <1>12 DEF TreeOK
  <2>2. CASE g # f
    BY <1>10, <2>1, <2>2
  <2>3. CASE g = f
    <3>1. p \in Paths(path)
      BY <2>1, <2>3 DEF path
    <3>2. PICK q \in DOMAIN tree : IsPrefix(p, q) /\ (q \notin Paths(path) \/ t1[q] # <<>>)
      BY <1>8, <1>12, <3>1
    <3>3. p \in Seq(Levels) /\ q \in Seq(Levels)
      BY <1>4
    <3>4. CASE t1[q] # <<>>
      <4>1. PICK x \in Items : x \in ToSet(t1[q])
        BY <1>9, <3>4, NonEmpty
      <4>2. x.filter \in DOMAIN rest /\ ActualFilter(x.filter) = q
        BY <1>9, <4>1 DEF Holds
      <4>3. p \in Paths(q)
        BY <3>2, <3>3, PathsArePrefixes
      <4> QED
        BY <4>2, <4>3
    <3>5. CASE q \notin Paths(path)
      <4>1. q # <<>>
        BY <1>5, <3>5
      <4>2. PICK h \in DOMAIN entries : q \in Paths(ActualFilter(h))
        BY <4>1 DEF TreeOK
      <4>3. h # f
        BY <3>5, <4>2 DEF path
      <4>4. ActualFilter(h) \in Seq(Levels)
        BY ActualFilters DEF EntriesOK
      <4>5. IsPrefix(q, ActualFilter(h))
        BY <4>2, <4>4, PathsArePrefixes
      <4>6. IsPrefix(p, ActualFilter(h))
        BY <3>2, <3>3, <4>4, <4>5, PrefixOfPrefix
      <4>7. p \in Paths(ActualFilter(h))
        BY <3>3, <4>4, <4>6, PathsArePrefixes
      <4> QED
        BY <1>10, <4>3, <4>7
    <3> QED
      BY <3>2, <3>4, <3>5
  <2> QED
    BY <2>2, <2>3
<1>13. <<>> \in DOMAIN tree /\ <<>> \notin dead
  BY DEF TreeOK
<1>14. DOMAIN new = DOMAIN tree \ dead /\ \A p \in DOMAIN new : new[p] = t1[p]
  BY <1>8
<1> HIDE DEF dead, new
<1>15. \A p : p \in DOMAIN new <=> (p = <<>> \/ \E g \in DOMAIN rest : p \in Paths(ActualFilter(g)))
  BY <1>11, <1>12, <1>13, <1>14
<1>16. TreeOK(new, rest)
  BY <1>9, <1>14, <1>15 DEF TreeOK
<1> QED
  BY <1>6, <1>16 DEF path, item

\* add(): the nodes of the filter are there and its node has the item at the end.
LEMMA TreeAdded ==
    ASSUME NEW tree, NEW entries, EntriesOK(entries), TreeOK(tree, entries),
           NEW f \in Filters, f \notin DOMAIN entries, NEW id \in Ids,
           NEW more, more = With(entries, f, id)
    PROVE  TreeOK([[p \in DOMAIN tree \cup Paths(ActualFilter(f)) |->
                        IF p \in DOMAIN tree THEN tree[p] ELSE <<>>]
                       EXCEPT ![ActualFilter(f)] = Append(@, Item(f, id))], more)
<1> DEFINE path == ActualFilter(f)
           item == Item(f, id)
           t1 == [p \in DOMAIN tree \cup Paths(path) |-> IF p \in DOMAIN tree THEN tree[p] ELSE <<>>]
           new == [t1 EXCEPT ![path] = Append(t1[path], item)]
<1>1. path \in Seq(Levels)
  BY ActualFilters
<1>2. item \in Items /\ item.filter = f /\ item.id = id
  BY DEF Item, Items
<1>3. \A x \in Items : x = item <=> (x.filter = f /\ x.id = id)
  BY DEF Item, Items
<1>4. path \in Paths(path) /\ <<>> \in Paths(path)
  BY <1>1, PathsArePrefixes
<1>5. /\ DOMAIN more = DOMAIN entries \cup {f}
      /\ more[f] = id /\ \A g \in DOMAIN entries : more[g] = entries[g]
  BY DEF With
<1>6. \A x \in Items : Holds(more, x) <=> (Holds(entries, x) \/ x = item)
  <2> SUFFICES ASSUME NEW x \in Items PROVE Holds(more, x) <=> (Holds(entries, x) \/ x = item)
    OBVIOUS
  <2>1. CASE x.filter = f
    BY <1>3, <1>5, <2>1 DEF Holds
  <2>2. CASE x.filter # f
    BY <1>3, <1>5, <2>2 DEF Holds
  <2> QED
    BY <2>1, <2>2
<1>7. ~ Holds(entries, item)
  BY <1>2 DEF Holds
<1>8. /\ DOMAIN t1 = DOMAIN tree \cup Paths(path)
      /\ \A p \in DOMAIN t1 : t1[p] = IF p \in DOMAIN tree THEN tree[p] ELSE <<>>
  OBVIOUS
<1> HIDE DEF path, item, t1
<1>9. ASSUME NEW p \in DOMAIN t1
      PROVE  /\ t1[p] \in Seq(Items) /\ IsInjective(t1[p])
             /\ \A x \in Items : x \in ToSet(t1[p]) <=> (Holds(entries, x) /\ ActualFilter(x.filter) = p)
  <2>1. CASE p \in DOMAIN tree
    BY <1>8, <2>1 DEF TreeOK
  <2>2. CASE p \notin DOMAIN tree
    <3>1. t1[p] = <<>>
      BY <1>8, <2>2
    <3>2. t1[p] \in Seq(Items) /\ IsInjective(t1[p]) /\ ToSet(t1[p]) = {}
      BY <3>1 DEF IsInjective, ToSet
    <3>3. ASSUME NEW x \in Items, Holds(entries, x), ActualFilter(x.filter) = p PROVE FALSE
      <4>1. x.filter \in DOMAIN entries /\ ActualFilter(x.filter) \in Seq(Levels)
        BY <3>3, ActualFilters DEF Holds, EntriesOK
      <4>2. p \in Paths(ActualFilter(x.filter))
        BY <3>3, <4>1, PathsArePrefixes
      <4> QED
        BY <2>2, <4>1, <4>2 DEF TreeOK
    <3> QED
      BY <3>2, <3>3
  <2> QED
    BY <2>1, <2>2
<1>10. /\ DOMAIN new = DOMAIN t1 /\ new[path] = Append(t1[path], item)
       /\ \A p \in DOMAIN t1 : p # path => new[p] = t1[p]
  BY <1>4, <1>8
<1> HIDE DEF new
<1>11. ASSUME NEW p \in DOMAIN new
       PROVE  /\ new[p] \in Seq(Items) /\ IsInjective(new[p])
              /\ \A x \in Items : x \in ToSet(new[p]) <=> (Holds(more, x) /\ ActualFilter(x.filter) = p)
  <2>1. /\ t1[p] \in Seq(Items) /\ IsInjective(t1[p])
        /\ \A x \in Items : x \in ToSet(t1[p]) <=> (Holds(entries, x) /\ ActualFilter(x.filter) = p)
    BY <1>9, <1>10
  <2>2. CASE p = path
    <3>1. PICK s \in Seq(Items) : s = t1[p]
      BY <2>1
    <3> DEFINE w == Append(s, item)
    <3>2. /\ DOMAIN w = 1 .. Len(s) + 1 /\ DOMAIN s = 1 .. Len(s) /\ Len(s) \in Nat
          /\ \A n \in 1 .. Len(s) : w[n] = s[n]
          /\ w[Len(s) + 1] = item
      BY <1>2, AppendAt
    <3>3. w \in Seq(Items)
      BY <1>2
    <3>4. new[p] = w
      BY <1>10, <2>2, <3>1
    <3> HIDE DEF w
    <3>5. \A x : x \in ToSet(w) <=> (x \in ToSet(s) \/ x = item)
      BY <3>2 DEF ToSet
    <3>6. item \notin ToSet(s)
      BY <1>2, <1>7, <2>1, <3>1
    <3>7. IsInjective(w)
      <4>1. \A n \in 1 .. Len(s) : s[n] # item
        BY <3>2, <3>6 DEF ToSet
      <4>2. \A m, n \in 1 .. Len(s) : s[m] = s[n] => m = n
        BY <2>1, <3>1, <3>2 DEF IsInjective
      <4>3. \A n \in DOMAIN w : n \in 1 .. Len(s) \/ n = Len(s) + 1
        BY <3>2
      <4> QED
        BY <3>2, <4>1, <4>2, <4>3 DEF IsInjective
    <3>8. ActualFilter(item.filter) = p
      BY <1>2, <2>2 DEF path
    <3> QED
      BY <1>6, <2>1, <3>1, <3>3, <3>4, <3>5, <3>7, <3>8
  <2>3. CASE p # path
    <3>1. new[p] = t1[p]
      BY <1>10, <2>3
    <3>2. ActualFilter(item.filter) # p
      BY <1>2, <2>3 DEF path
    <3> QED
      BY <1>6, <2>1, <3>1, <3>2
  <2> QED
    BY <2>2, <2>3
<1>12. \A p : p \in DOMAIN new <=> (p = <<>> \/ \E g \in DOMAIN more : p \in Paths(ActualFilter(g)))
  <2> SUFFICES ASSUME NEW p PROVE p \in DOMAIN new <=> (p = <<>> \/ \E g \in DOMAIN more : p \in Paths(ActualFilter(g)))
    OBVIOUS
  <2>1. p \in DOMAIN new <=> (p \in DOMAIN tree \/ p \in Paths(path))
    BY <1>8, <1>10
  <2>2. p \in DOMAIN tree <=> (p = <<>> \/ \E g \in DOMAIN entries : p \in Paths(ActualFilter(g)))
    BY DEF TreeOK
  <2> QED
    BY <1>5, <2>1, <2>2 DEF path
<1>13. TreeOK(new, more)
  BY <1>11, <1>12 DEF TreeOK
<1> QED
  BY <1>13 DEF new, t1, path, item

\* remove(): the identifier loses the filter, and goes with its last one.
LEMMA IdentifiedRemoved ==
    ASSUME NEW identified, NEW entries, EntriesOK(entries), IdentifiedOK(identified, entries),
           NEW f \in DOMAIN entries, NEW rest, rest = [g \in DOMAIN entries \ {f} |-> entries[g]]
    PROVE  IdentifiedOK(Unidentify(identified, f, entries[f]), rest)
<1> DEFINE id == entries[f]
           left == Where(identified[id], ToSet(identified[id]) \ {f})
           new == Unidentify(identified, f, id)
<1>1. f \in Filters /\ id \in Ids
  BY DEF EntriesOK
<1>2. DOMAIN rest = DOMAIN entries \ {f} /\ \A g \in DOMAIN rest : rest[g] = entries[g]
  OBVIOUS
<1>3. CASE id \notin DOMAIN identified
  <2>1. id = None /\ None \notin DOMAIN identified
    BY <1>3 DEF IdentifiedOK
  <2>2. new = identified
    BY <1>3 DEF Unidentify
  <2>3. \A i : i # None => ((\E g \in DOMAIN rest : rest[g] = i) <=> \E g \in DOMAIN entries : entries[g] = i)
    BY <1>2, <2>1
  <2>4. \A i \in DOMAIN identified : \A g \in Filters :
            (g \in DOMAIN rest /\ rest[g] = i) <=> (g \in DOMAIN entries /\ entries[g] = i)
    BY <1>2, <2>1
  <2> HIDE DEF new, id
  <2>5. IdentifiedOK(identified, rest)
    BY <2>3, <2>4 DEF IdentifiedOK
  <2> QED
    BY <2>2, <2>5 DEF new, id
<1>4. CASE id \in DOMAIN identified
  <2>1. /\ id # None /\ identified[id] \in Seq(Filters) /\ IsInjective(identified[id])
        /\ \A g \in Filters : g \in ToSet(identified[id]) <=> (g \in DOMAIN entries /\ entries[g] = id)
    BY <1>4 DEF IdentifiedOK
  <2>2. /\ left \in Seq(Filters) /\ IsInjective(left)
        /\ ToSet(left) = ToSet(identified[id]) \cap (ToSet(identified[id]) \ {f})
    BY <2>1, WhereFacts
  <2>3. new = IF left = <<>> THEN [i \in DOMAIN identified \ {id} |-> identified[i]]
              ELSE [identified EXCEPT ![id] = left]
    BY <1>4 DEF Unidentify
  <2> HIDE DEF new, id, left
  <2>4. \A g \in Filters : g \in ToSet(left) <=> (g \in DOMAIN rest /\ rest[g] = id)
    BY <1>2, <2>1, <2>2
  <2>5. left = <<>> <=> ~ \E g \in DOMAIN rest : rest[g] = id
    <3>1. left # <<>> <=> \E g \in Filters : g \in ToSet(left)
      BY <2>2, NonEmpty
    <3>2. \A g \in DOMAIN rest : g \in Filters
      BY <1>2 DEF EntriesOK
    <3> QED
      BY <2>4, <3>1, <3>2
  <2>6. \A i : i # id => /\ (\E g \in DOMAIN rest : rest[g] = i) <=> \E g \in DOMAIN entries : entries[g] = i
                         /\ \A g : (g \in DOMAIN rest /\ rest[g] = i) <=> (g \in DOMAIN entries /\ entries[g] = i)
    BY <1>2 DEF id
  <2>7. /\ DOMAIN new = IF left = <<>> THEN DOMAIN identified \ {id} ELSE DOMAIN identified
        /\ \A i \in DOMAIN new : new[i] = IF i = id THEN left ELSE identified[i]
    BY <1>4, <2>3
  <2>8. \A i : i \in DOMAIN new <=> (i # None /\ \E g \in DOMAIN rest : rest[g] = i)
    <3> SUFFICES ASSUME NEW i PROVE i \in DOMAIN new <=> (i # None /\ \E g \in DOMAIN rest : rest[g] = i)
      OBVIOUS
    <3>1. i \in DOMAIN identified <=> (i # None /\ \E g \in DOMAIN entries : entries[g] = i)
      BY DEF IdentifiedOK
    <3>2. CASE i = id
      BY <1>4, <2>1, <2>5, <2>7, <3>2
    <3>3. CASE i # id
      BY <2>6, <2>7, <3>1, <3>3
    <3> QED
      BY <3>2, <3>3
  <2>9. ASSUME NEW i \in DOMAIN new
        PROVE  /\ new[i] \in Seq(Filters) /\ IsInjective(new[i])
               /\ \A g \in Filters : g \in ToSet(new[i]) <=> (g \in DOMAIN rest /\ rest[g] = i)
    <3>1. CASE i = id
      BY <2>2, <2>4, <2>7, <3>1
    <3>2. CASE i # id
      <4>1. i \in DOMAIN identified /\ new[i] = identified[i]
        BY <2>7, <3>2
      <4>2. /\ identified[i] \in Seq(Filters) /\ IsInjective(identified[i])
            /\ \A g \in Filters : g \in ToSet(identified[i]) <=> (g \in DOMAIN entries /\ entries[g] = i)
        BY <4>1 DEF IdentifiedOK
      <4> QED
        BY <2>6, <3>2, <4>1, <4>2
    <3> QED
      BY <3>1, <3>2
  <2>10. IdentifiedOK(new, rest)
    BY <2>8, <2>9 DEF IdentifiedOK
  <2> QED
    BY <2>10 DEF new, id
<1> QED
  BY <1>3, <1>4

\* add(): the identifier, if there is one, has the filter at the end.
LEMMA IdentifiedAdded ==
    ASSUME NEW identified, NEW entries, EntriesOK(entries), IdentifiedOK(identified, entries),
           NEW f \in Filters, f \notin DOMAIN entries, NEW id \in Ids,
           NEW more, more = With(entries, f, id)
    PROVE  IdentifiedOK(Identify(identified, f, id), more)
<1> DEFINE new == Identify(identified, f, id)
           old == IF id \in DOMAIN identified THEN identified[id] ELSE <<>>
<1>1. /\ DOMAIN more = DOMAIN entries \cup {f}
      /\ more[f] = id /\ \A g \in DOMAIN entries : more[g] = entries[g]
  BY DEF With
<1>2. \A i : i # id => /\ (\E g \in DOMAIN more : more[g] = i) <=> \E g \in DOMAIN entries : entries[g] = i
                       /\ \A g : (g \in DOMAIN more /\ more[g] = i) <=> (g \in DOMAIN entries /\ entries[g] = i)
  BY <1>1
<1>3. CASE id = None
  <2>1. new = identified
    BY <1>3 DEF Identify
  <2>2. \A i \in DOMAIN identified : i # id
    BY <1>3 DEF IdentifiedOK
  <2> HIDE DEF new
  <2>3. IdentifiedOK(identified, more)
    BY <1>2, <1>3, <2>2 DEF IdentifiedOK
  <2> QED
    BY <2>1, <2>3 DEF new
<1>4. CASE id # None
  <2>1. /\ old \in Seq(Filters) /\ IsInjective(old)
        /\ \A g \in Filters : g \in ToSet(old) <=> (g \in DOMAIN entries /\ entries[g] = id)
    <3>1. CASE id \in DOMAIN identified
      BY <3>1 DEF IdentifiedOK
    <3>2. CASE id \notin DOMAIN identified
      <4>1. old = <<>> /\ old \in Seq(Filters) /\ IsInjective(old) /\ ToSet(old) = {}
        BY <3>2 DEF IsInjective, ToSet
      <4>2. \A g \in DOMAIN entries : entries[g] # id
        BY <1>4, <3>2 DEF IdentifiedOK
      <4> QED
        BY <4>1, <4>2
    <3> QED
      BY <3>1, <3>2
  <2> HIDE DEF old
  <2> DEFINE w == Append(old, f)
  <2>2. /\ DOMAIN w = 1 .. Len(old) + 1 /\ DOMAIN old = 1 .. Len(old) /\ Len(old) \in Nat
        /\ \A n \in 1 .. Len(old) : w[n] = old[n]
        /\ w[Len(old) + 1] = f
    BY <2>1, AppendAt
  <2>3. w \in Seq(Filters)
    BY <2>1
  <2>4. /\ DOMAIN new = DOMAIN identified \cup {id}
        /\ new[id] = w /\ \A i \in DOMAIN identified : i # id => new[i] = identified[i]
    <3>1. new = With(identified, id, w)
      BY <1>4 DEF Identify, old
    <3> HIDE DEF new, w
    <3> QED
      BY <3>1 DEF With
  <2> HIDE DEF new, w
  <2>5. \A g : g \in ToSet(w) <=> (g \in ToSet(old) \/ g = f)
    BY <2>2 DEF ToSet
  <2>6. f \notin ToSet(old)
    BY <2>1
  <2>7. IsInjective(w)
    <3>1. \A n \in 1 .. Len(old) : old[n] # f
      BY <2>2, <2>6 DEF ToSet
    <3>2. \A m, n \in 1 .. Len(old) : old[m] = old[n] => m = n
      BY <2>1, <2>2 DEF IsInjective
    <3>3. \A n \in DOMAIN w : n \in 1 .. Len(old) \/ n = Len(old) + 1
      BY <2>2
    <3> QED
      BY <2>2, <3>1, <3>2, <3>3 DEF IsInjective
  <2>8. \A i : i \in DOMAIN new <=> (i # None /\ \E g \in DOMAIN more : more[g] = i)
    <3> SUFFICES ASSUME NEW i PROVE i \in DOMAIN new <=> (i # None /\ \E g \in DOMAIN more : more[g] = i)
      OBVIOUS
    <3>1. i \in DOMAIN identified <=> (i # None /\ \E g \in DOMAIN entries : entries[g] = i)
      BY DEF IdentifiedOK
    <3>2. CASE i = id
      BY <1>1, <1>4, <2>4, <3>2
    <3>3. CASE i # id
      BY <1>2, <2>4, <3>1, <3>3
    <3> QED
      BY <3>2, <3>3
  <2>9. ASSUME NEW i \in DOMAIN new
        PROVE  /\ new[i] \in Seq(Filters) /\ IsInjective(new[i])
               /\ \A g \in Filters : g \in ToSet(new[i]) <=> (g \in DOMAIN more /\ more[g] = i)
    <3>1. CASE i = id
      <4>1. \A g \in Filters : (g \in DOMAIN more /\ more[g] = id) <=> ((g \in DOMAIN entries /\ entries[g] = id) \/ g = f)
        BY <1>1
      <4> QED
        BY <2>1, <2>3, <2>4, <2>5, <2>7, <3>1, <4>1
    <3>2. CASE i # id
      <4>1. i \in DOMAIN identified /\ new[i] = identified[i]
        BY <2>4, <3>2
      <4>2. /\ identified[i] \in Seq(Filters) /\ IsInjective(identified[i])
            /\ \A g \in Filters : g \in ToSet(identified[i]) <=> (g \in DOMAIN entries /\ entries[g] = i)
        BY <4>1 DEF IdentifiedOK
      <4> QED
        BY <1>2, <3>2, <4>1, <4>2
    <3> QED
      BY <3>1, <3>2
  <2>10. IdentifiedOK(new, more)
    BY <2>8, <2>9 DEF IdentifiedOK
  <2> QED
    BY <2>10 DEF new
<1> QED
  BY <1>3, <1>4

-----------------------------------------------------------------------------
(* The operations of the index.                                            *)

IndexOK(ix) ==
    EntriesOK(ix.entries) /\ TreeOK(ix.tree, ix.entries) /\ IdentifiedOK(ix.identified, ix.entries)

LEMMA EmptyOK == IndexOK(Empty)
<1>1. /\ Empty.tree = [p \in {<<>>} |-> <<>>] /\ Empty.entries = <<>> /\ Empty.identified = <<>>
      /\ DOMAIN Empty.entries = {} /\ DOMAIN Empty.identified = {}
  BY DEF Empty
<1> DEFINE tree == [p \in {<<>>} |-> <<>>]
<1>2. DOMAIN tree = {<<>>} /\ tree[<<>>] = <<>>
  OBVIOUS
<1> HIDE DEF tree
<1>3. <<>> \in Seq(Items) /\ IsInjective(<<>>) /\ ToSet(<<>>) = {}
  BY DEF IsInjective, ToSet
<1>4. EntriesOK(Empty.entries) /\ IdentifiedOK(Empty.identified, Empty.entries)
  BY <1>1 DEF EntriesOK, IdentifiedOK
<1>5. \A x : ~ Holds(Empty.entries, x)
  BY <1>1 DEF Holds
<1>6. TreeOK(tree, Empty.entries)
  BY <1>1, <1>2, <1>3, <1>5 DEF TreeOK
<1> QED
  BY <1>1, <1>4, <1>6 DEF IndexOK, tree

LEMMA RemovedOK ==
    ASSUME NEW ix, IndexOK(ix), NEW f
    PROVE  IndexOK(Removed(ix, f)) /\ f \notin DOMAIN Removed(ix, f).entries
<1>1. CASE f \notin DOMAIN ix.entries
  BY <1>1 DEF Removed
<1>2. CASE f \in DOMAIN ix.entries
  <2> DEFINE rest == [g \in DOMAIN ix.entries \ {f} |-> ix.entries[g]]
             new == Removed(ix, f)
  <2>1. /\ new.entries = rest
        /\ new.tree = RemoveEntry(ix.tree, ActualFilter(f), Item(f, ix.entries[f]))
        /\ new.identified = Unidentify(ix.identified, f, ix.entries[f])
    BY <1>2 DEF Removed
  <2>2. EntriesOK(rest) /\ f \notin DOMAIN rest
    BY DEF IndexOK, EntriesOK
  <2>3. TreeOK(RemoveEntry(ix.tree, ActualFilter(f), Item(f, ix.entries[f])), rest)
    BY <1>2, TreeRemoved DEF IndexOK
  <2>4. IdentifiedOK(Unidentify(ix.identified, f, ix.entries[f]), rest)
    BY <1>2, IdentifiedRemoved DEF IndexOK
  <2> HIDE DEF rest, new
  <2>5. IndexOK(new) /\ f \notin DOMAIN new.entries
    BY <2>1, <2>2, <2>3, <2>4 DEF IndexOK
  <2> QED
    BY <2>5 DEF new
<1> QED
  BY <1>1, <1>2

LEMMA AddedOK ==
    ASSUME NEW old, IndexOK(old), NEW f \in Filters, NEW id \in Ids
    PROVE  IndexOK(Added(old, Item(f, id)))
<1> DEFINE ix == Removed(old, f)
           more == With(ix.entries, f, id)
           new == Added(old, Item(f, id))
           tree == [[p \in DOMAIN ix.tree \cup Paths(ActualFilter(f)) |->
                        IF p \in DOMAIN ix.tree THEN ix.tree[p] ELSE <<>>]
                       EXCEPT ![ActualFilter(f)] = Append(@, Item(f, id))]
<1>1. Item(f, id).filter = f /\ Item(f, id).id = id
  BY DEF Item
<1>2. IndexOK(ix) /\ f \notin DOMAIN ix.entries
  BY RemovedOK
<1>3. new.entries = more /\ new.tree = tree /\ new.identified = Identify(ix.identified, f, id)
  BY <1>1 DEF Added
<1> HIDE DEF ix
<1>4. TreeOK(tree, more)
  BY <1>2, TreeAdded DEF IndexOK
<1>5. IdentifiedOK(Identify(ix.identified, f, id), more)
  BY <1>2, IdentifiedAdded DEF IndexOK
<1>6. EntriesOK(more)
  BY <1>2 DEF IndexOK, EntriesOK, With
<1> HIDE DEF tree, more, new
<1>7. IndexOK(new)
  BY <1>3, <1>4, <1>5, <1>6 DEF IndexOK
<1> QED
  BY <1>7 DEF new

\* add_many(): the index after each of the additions.
AddStep(ix, fs, id, done, n) == IF n = 0 THEN ix ELSE Added(done[n - 1], Item(fs[n], id))

\* The recursion over the filters of a request is well defined.
LEMMA AddManyDefined ==
    ASSUME NEW ix, NEW fs \in Seq(Filters), NEW id
    PROVE  \E h : h = [n \in 0 .. Len(fs) |-> AddStep(ix, fs, id, h, n)]
<1>0. Len(fs) \in Nat
  OBVIOUS
<1> DEFINE S == {k \in Nat : \E h : h = [n \in 0 .. k |-> AddStep(ix, fs, id, h, n)]}
<1>1. 0 \in S
  <2> DEFINE h == [n \in 0 .. 0 |-> ix]
  <2>1. \A n \in 0 .. 0 : AddStep(ix, fs, id, h, n) = ix
    BY DEF AddStep
  <2>2. h = [n \in 0 .. 0 |-> AddStep(ix, fs, id, h, n)]
    BY <2>1
  <2> HIDE DEF h
  <2> QED
    BY <2>2
<1>2. ASSUME NEW k \in Nat, k \in S PROVE k + 1 \in S
  <2>1. PICK h : h = [n \in 0 .. k |-> AddStep(ix, fs, id, h, n)]
    BY <1>2
  <2> DEFINE g == [n \in 0 .. k + 1 |-> AddStep(ix, fs, id, h, n)]
  <2>2. \A n \in 0 .. k : g[n] = h[n]
    <3> SUFFICES ASSUME NEW n \in 0 .. k PROVE g[n] = h[n]
      OBVIOUS
    <3>1. n \in 0 .. k + 1
      OBVIOUS
    <3>2. h[n] = AddStep(ix, fs, id, h, n)
      BY <2>1
    <3> QED
      BY <3>1, <3>2
  <2>3. \A n \in 0 .. k + 1 : n # 0 => n - 1 \in 0 .. k
    OBVIOUS
  <2> HIDE DEF g
  <2>4. ASSUME NEW n \in 0 .. k + 1 PROVE AddStep(ix, fs, id, h, n) = AddStep(ix, fs, id, g, n)
    BY <2>2, <2>3 DEF AddStep
  <2>5. g = [n \in 0 .. k + 1 |-> AddStep(ix, fs, id, g, n)]
    BY <2>4 DEF g
  <2> QED
    BY <2>5
<1> HIDE DEF S
<1>3. Len(fs) \in S
  BY <1>0, <1>1, <1>2, Induction
<1> QED
  BY <1>3 DEF S

\* Every request leaves the tables consistent, whatever its length.
LEMMA AddManyOK ==
    ASSUME IndexOK(index), NEW fs \in Seq(Filters), NEW id \in Ids, AddMany(fs, id)
    PROVE  IndexOK(index')
<1> DEFINE h == CHOOSE h : h = [n \in 0 .. Len(fs) |-> AddStep(index, fs, id, h, n)]
<1>0. Len(fs) \in Nat
  OBVIOUS
<1>1. h = [n \in 0 .. Len(fs) |-> AddStep(index, fs, id, h, n)]
  BY AddManyDefined
<1>2. index' = h[Len(fs)]
  BY DEF AddMany, AddStep
<1> HIDE DEF h
<1> DEFINE S == {n \in Nat : n <= Len(fs) => IndexOK(h[n])}
<1>3. 0 \in S
  BY <1>0, <1>1 DEF AddStep
<1>4. ASSUME NEW n \in Nat, n \in S PROVE n + 1 \in S
  <2> SUFFICES ASSUME n + 1 <= Len(fs) PROVE IndexOK(h[n + 1])
    BY <1>4
  <2>1. n + 1 \in 0 .. Len(fs) /\ n + 1 # 0 /\ (n + 1) - 1 = n /\ n + 1 \in 1 .. Len(fs) /\ n <= Len(fs)
    BY <1>0
  <2>2. h[n + 1] = Added(h[n], Item(fs[n + 1], id))
    BY <1>1, <2>1 DEF AddStep
  <2>3. IndexOK(h[n]) /\ fs[n + 1] \in Filters
    BY <1>4, <2>1
  <2> QED
    BY <2>2, <2>3, AddedOK
<1> HIDE DEF S
<1>5. Len(fs) \in S
  BY <1>0, <1>3, <1>4, Induction
<1> QED
  BY <1>0, <1>2, <1>5 DEF S

(***************************************************************************)
(* The inductive invariant: the trie and the table of identifiers agree    *)
(* with the table of entries, item by item, and hold none twice.           *)
(***************************************************************************)
IndexInv == IndexOK(index)

THEOREM IndexInvariant == Spec => []IndexInv
<1>1. Init => IndexInv
  BY EmptyOK DEF Init, IndexInv
<1>2. IndexInv /\ [Next]_index => IndexInv'
  <2> SUFFICES ASSUME IndexOK(index), [Next]_index PROVE IndexOK(index')
    BY DEF IndexInv
  <2>1. CASE \E fs \in Requests, id \in Identifiers \cup {None} : AddMany(fs, id)
    <3>1. PICK fs \in Requests, id \in Identifiers \cup {None} : AddMany(fs, id)
      BY <2>1
    <3>2. fs \in Seq(Filters) /\ id \in Ids
      BY FilterAssumption DEF Ids
    <3> QED
      BY <3>1, <3>2, AddManyOK
  <2>2. CASE \E f \in Filters : RemoveFilter(f)
    BY <2>2, RemovedOK DEF RemoveFilter
  <2>3. CASE Clear
    BY <2>3, EmptyOK DEF Clear
  <2>4. CASE UNCHANGED index
    BY <2>4
  <2> QED
    BY <2>1, <2>2, <2>3, <2>4 DEF Next
<1> QED
  BY <1>1, <1>2, PTL DEF Spec

\* The items subscribed are those of the table of entries.
LEMMA SubscribedFacts ==
    ASSUME IndexOK(index)
    PROVE  Subscribed = {x \in Items : Holds(index.entries, x)}
<1> DEFINE entries == index.entries
<1>1. EntriesOK(entries)
  BY DEF IndexOK
<1>2. ASSUME NEW f \in DOMAIN entries PROVE Item(f, entries[f]) \in Items /\ Holds(entries, Item(f, entries[f]))
  BY <1>1 DEF EntriesOK, Items, Item, Holds
<1>3. ASSUME NEW x \in Items, Holds(entries, x) PROVE x = Item(x.filter, entries[x.filter])
  BY <1>3 DEF Items, Item, Holds
<1>4. \A x \in Items : Holds(entries, x) => x.filter \in DOMAIN entries
  BY DEF Holds
<1> QED
  BY <1>2, <1>3, <1>4 DEF Subscribed

\* What the invariant says is what the run checks.
LEMMA InvIsConsistent == IndexInv => IndexConsistent
<1> SUFFICES ASSUME IndexOK(index) PROVE IndexConsistent
  BY DEF IndexInv
<1> DEFINE tree == index.tree
           entries == index.entries
           identified == index.identified
<1>1. EntriesOK(entries) /\ TreeOK(tree, entries) /\ IdentifiedOK(identified, entries)
  BY DEF IndexOK
<1>2. Subscribed \subseteq Items /\ \A x \in Items : x \in Subscribed <=> Holds(entries, x)
  BY SubscribedFacts
<1>3. DOMAIN tree = {<<>>} \cup UNION {Paths(ActualFilter(f)) : f \in DOMAIN entries}
  BY <1>1 DEF TreeOK
<1>4. ASSUME NEW p \in DOMAIN tree
      PROVE  ToSet(tree[p]) = {x \in Subscribed : ActualFilter(x.filter) = p} /\ IsInjective(tree[p])
  <2>1. /\ tree[p] \in Seq(Items) /\ IsInjective(tree[p])
        /\ \A x \in Items : x \in ToSet(tree[p]) <=> (Holds(entries, x) /\ ActualFilter(x.filter) = p)
    BY <1>1 DEF TreeOK
  <2>2. ToSet(tree[p]) \subseteq Items
    <3>1. PICK s \in Seq(Items) : s = tree[p]
      BY <2>1
    <3>2. \A i \in DOMAIN s : s[i] \in Items
      OBVIOUS
    <3> QED
      BY <3>1, <3>2 DEF ToSet
  <2> QED
    BY <1>2, <2>1, <2>2
<1>5. DOMAIN identified = {x.id : x \in Subscribed} \ {None}
  <2>1. \A i : (\E f \in DOMAIN entries : entries[f] = i) <=> i \in {x.id : x \in Subscribed}
    <3>1. \A f \in DOMAIN entries : Item(f, entries[f]).id = entries[f]
      BY DEF Item
    <3> QED
      BY <3>1 DEF Subscribed
  <2> QED
    BY <1>1, <2>1 DEF IdentifiedOK
<1>6. ASSUME NEW id \in DOMAIN identified
      PROVE  /\ ToSet(identified[id]) = {f \in DOMAIN entries : entries[f] = id}
             /\ IsInjective(identified[id])
  <2>1. /\ identified[id] \in Seq(Filters) /\ IsInjective(identified[id])
        /\ \A f \in Filters : f \in ToSet(identified[id]) <=> (f \in DOMAIN entries /\ entries[f] = id)
    BY <1>1 DEF IdentifiedOK
  <2>2. ToSet(identified[id]) \subseteq Filters
    <3>1. PICK s \in Seq(Filters) : s = identified[id]
      BY <2>1
    <3>2. \A i \in DOMAIN s : s[i] \in Filters
      OBVIOUS
    <3> QED
      BY <3>1, <3>2 DEF ToSet
  <2>3. DOMAIN entries \subseteq Filters
    BY <1>1 DEF EntriesOK
  <2> QED
    BY <2>1, <2>2, <2>3
<1> QED
  BY <1>3, <1>4, <1>5, <1>6 DEF IndexConsistent

(***************************************************************************)
(* The tables describe the same subscriptions, after every sequence of     *)
(* additions, removals and clears (subscription_index.py:79, :153).        *)
(***************************************************************************)
THEOREM TablesConsistent == Spec => []IndexConsistent
  BY IndexInvariant, InvIsConsistent, PTL

-----------------------------------------------------------------------------
(* _collect: which entries the walk down the trie returns.                 *)

EntriesAt(tree, path) == IF path \in DOMAIN tree THEN tree[path] ELSE <<>>
Below(tree, from, path) == IF path \in DOMAIN tree THEN from[path] ELSE <<>>
Depths(tree, parts) == {p \in DOMAIN tree : Len(p) <= Len(parts)}

\* One call of _collect, given the results of the calls below.
CollectStep(tree, parts, from, node) ==
    EntriesAt(tree, Append(node, "#")) \o
        (IF Len(node) = Len(parts) THEN EntriesAt(tree, node)
         ELSE (IF parts[Len(node) + 1] \in {"+", "#"} THEN <<>>
               ELSE Below(tree, from, Append(node, parts[Len(node) + 1])))
                   \o Below(tree, from, Append(node, "+")))

\* A call looks at the results of the children only.
LEMMA CollectStepLocal ==
    ASSUME NEW tree, DOMAIN tree \subseteq Seq(Levels), NEW parts \in Seq(Levels), NEW g, NEW h,
           NEW node \in Depths(tree, parts),
           \A p \in Depths(tree, parts) : Len(p) = Len(node) + 1 => g[p] = h[p]
    PROVE  CollectStep(tree, parts, g, node) = CollectStep(tree, parts, h, node)
<1>1. node \in Seq(Levels) /\ Len(node) \in Nat /\ Len(parts) \in Nat /\ Len(node) <= Len(parts)
  BY DEF Depths
<1>2. CASE Len(node) = Len(parts)
  BY <1>2 DEF CollectStep
<1>3. CASE Len(node) # Len(parts)
  <2> DEFINE part == parts[Len(node) + 1]
  <2>1. part \in Levels /\ Len(node) + 1 <= Len(parts)
    BY <1>1, <1>3
  <2>2. ASSUME NEW l \in Levels PROVE Below(tree, g, Append(node, l)) = Below(tree, h, Append(node, l))
    <3>1. Len(Append(node, l)) = Len(node) + 1
      BY <1>1
    <3>2. Append(node, l) \in DOMAIN tree => Append(node, l) \in Depths(tree, parts)
      BY <2>1, <3>1 DEF Depths
    <3> QED
      BY <3>1, <3>2 DEF Below
  <2>3. /\ Below(tree, g, Append(node, part)) = Below(tree, h, Append(node, part))
        /\ Below(tree, g, Append(node, "+")) = Below(tree, h, Append(node, "+"))
    <3>1. "+" \in Levels
      BY PrefixAssumption
    <3>2. Below(tree, g, Append(node, "+")) = Below(tree, h, Append(node, "+"))
      BY <2>2, <3>1
    <3> HIDE DEF part
    <3>3. Below(tree, g, Append(node, part)) = Below(tree, h, Append(node, part))
      BY <2>1, <2>2
    <3> QED
      BY <3>2, <3>3
  <2> QED
    BY <1>3, <2>3 DEF CollectStep
<1> QED
  BY <1>2, <1>3

\* The recursion ends at the depth of the topic.
LEMMA CollectDefined ==
    ASSUME NEW tree, DOMAIN tree \subseteq Seq(Levels), NEW parts \in Seq(Levels)
    PROVE  \E h : h = [node \in Depths(tree, parts) |-> CollectStep(tree, parts, h, node)]
<1> DEFINE D == Depths(tree, parts)
           F(k) == {p \in D : Len(p) + k >= Len(parts)}
           S == {k \in Nat : \E h : h = [node \in F(k) |-> CollectStep(tree, parts, h, node)]}
<1>0. Len(parts) \in Nat /\ \A p \in D : Len(p) \in Nat /\ Len(p) <= Len(parts)
  BY DEF Depths
<1>1. ASSUME NEW k \in Nat, NEW h,
             \A p \in F(k) : h[p] = CollectStep(tree, parts, h, p)
      PROVE  k + 1 \in S
  <2> DEFINE g == [node \in F(k + 1) |-> CollectStep(tree, parts, h, node)]
  <2>1. \A p \in F(k) : p \in F(k + 1)
    BY <1>0
  <2>2. \A p \in F(k) : g[p] = h[p]
    BY <1>1, <2>1
  <2> HIDE DEF g
  <2>3. ASSUME NEW node \in F(k + 1)
        PROVE  CollectStep(tree, parts, h, node) = CollectStep(tree, parts, g, node)
    <3>1. node \in D /\ \A p \in D : Len(p) = Len(node) + 1 => p \in F(k)
      BY <1>0, <2>3
    <3>2. \A p \in D : Len(p) = Len(node) + 1 => h[p] = g[p]
      BY <2>2, <3>1
    <3> HIDE DEF F
    <3> QED
      BY <3>1, <3>2, CollectStepLocal
  <2>4. g = [node \in F(k + 1) |-> CollectStep(tree, parts, g, node)]
    BY <2>3 DEF g
  <2> HIDE DEF F
  <2> QED
    BY <2>4
<1>2. 0 \in S
  <2> DEFINE h == [node \in F(0) |-> CollectStep(tree, parts, <<>>, node)]
  <2>1. ASSUME NEW node \in F(0)
        PROVE  CollectStep(tree, parts, <<>>, node) = CollectStep(tree, parts, h, node)
    <3>1. Len(node) = Len(parts)
      BY <1>0
    <3> HIDE DEF h
    <3> QED
      BY <3>1 DEF CollectStep
  <2>2. h = [node \in F(0) |-> CollectStep(tree, parts, h, node)]
    BY <2>1
  <2> HIDE DEF h, F
  <2> QED
    BY <2>2
<1>3. ASSUME NEW k \in Nat, k \in S PROVE k + 1 \in S
  <2>1. PICK h : h = [node \in F(k) |-> CollectStep(tree, parts, h, node)]
    BY <1>3
  <2>2. \A p \in F(k) : h[p] = CollectStep(tree, parts, h, p)
    <3> HIDE DEF F
    <3> QED
      BY <2>1
  <2> QED
    BY <1>1, <2>2
<1> HIDE DEF S
<1>4. Len(parts) \in S
  BY <1>0, <1>2, <1>3, Induction
<1>5. F(Len(parts)) = D
  BY <1>0
<1> QED
  BY <1>4, <1>5 DEF S

\* A level of a node stands for a level of a topic.
Level(x, y) == x = "+" \/ (x = y /\ y \notin {"+", "#"})

\* A walk that has come to depth n of path p reaches p: at its end, or at its "#".
Reached(p, t, n) ==
    \/ Len(p) = Len(t) /\ \A i \in n + 1 .. Len(p) : Level(p[i], t[i])
    \/ /\ n < Len(p) /\ Len(p) <= Len(t) + 1 /\ p[Len(p)] = "#"
       /\ \A i \in n + 1 .. Len(p) - 1 : Level(p[i], t[i])

\* The next level decides where the walk goes on.
LEMMA ReachedNext ==
    ASSUME NEW t \in Seq(Levels), NEW node \in Seq(Levels), Len(node) < Len(t), NEW p \in Seq(Levels)
    PROVE  LET n == Len(node)
               part == t[n + 1]
           IN  (IsPrefix(node, p) /\ Reached(p, t, n)) <=>
                  \/ p = Append(node, "#")
                  \/ part \notin {"+", "#"} /\ IsPrefix(Append(node, part), p) /\ Reached(p, t, n + 1)
                  \/ IsPrefix(Append(node, "+"), p) /\ Reached(p, t, n + 1)
<1> DEFINE n == Len(node)
           part == t[n + 1]
<1>1. n \in Nat /\ Len(t) \in Nat /\ Len(p) \in Nat /\ part \in Levels
  OBVIOUS
<1>2. ASSUME NEW l \in Levels
      PROVE  /\ IsPrefix(Append(node, l), p) <=> (IsPrefix(node, p) /\ n + 1 <= Len(p) /\ p[n + 1] = l)
             /\ p = Append(node, l) <=> (IsPrefix(node, p) /\ Len(p) = n + 1 /\ p[n + 1] = l)
  <2> DEFINE c == Append(node, l)
  <2>1. /\ c \in Seq(Levels) /\ Len(c) = n + 1 /\ c[n + 1] = l
        /\ \A i \in 1 .. n : c[i] = node[i]
    BY <1>1
  <2> HIDE DEF c
  <2>2. IsPrefix(c, p) <=> (Len(c) <= Len(p) /\ \A i \in 1 .. Len(c) : c[i] = p[i])
    BY <2>1, PrefixLevels
  <2>3. IsPrefix(node, p) <=> (n <= Len(p) /\ \A i \in 1 .. n : node[i] = p[i])
    BY PrefixLevels
  <2>4. (\A i \in 1 .. n + 1 : c[i] = p[i]) <=> (c[n + 1] = p[n + 1] /\ \A i \in 1 .. n : c[i] = p[i])
    <3>1. \A i \in 1 .. n + 1 : i = n + 1 \/ i \in 1 .. n
      BY <1>1
    <3>2. n + 1 \in 1 .. n + 1 /\ \A i \in 1 .. n : i \in 1 .. n + 1
      BY <1>1
    <3> QED
      BY <3>1, <3>2
  <2>5. IsPrefix(c, p) <=> (IsPrefix(node, p) /\ n + 1 <= Len(p) /\ p[n + 1] = l)
    BY <1>1, <2>1, <2>2, <2>3, <2>4
  <2>6. p = c <=> (Len(c) = Len(p) /\ \A i \in 1 .. Len(c) : c[i] = p[i])
    BY <2>1, SeqEqual
  <2>7. p = c <=> (IsPrefix(node, p) /\ Len(p) = n + 1 /\ p[n + 1] = l)
    BY <1>1, <2>1, <2>3, <2>4, <2>6
  <2> QED
    BY <2>5, <2>7 DEF c
<1>3. /\ p = Append(node, "#") <=> (IsPrefix(node, p) /\ Len(p) = n + 1 /\ p[n + 1] = "#")
      /\ IsPrefix(Append(node, part), p) <=> (IsPrefix(node, p) /\ n + 1 <= Len(p) /\ p[n + 1] = part)
      /\ IsPrefix(Append(node, "+"), p) <=> (IsPrefix(node, p) /\ n + 1 <= Len(p) /\ p[n + 1] = "+")
  <2>1. "#" \in Levels /\ "+" \in Levels
    BY PrefixAssumption
  <2> HIDE DEF part, n
  <2> QED
    BY <1>1, <1>2, <2>1
<1>4. \A m \in Nat : n + 1 <= m => ((\A i \in n + 1 .. m : Level(p[i], t[i])) <=>
           (Level(p[n + 1], part) /\ \A i \in (n + 1) + 1 .. m : Level(p[i], t[i])))
  <2> SUFFICES ASSUME NEW m \in Nat, n + 1 <= m
               PROVE  (\A i \in n + 1 .. m : Level(p[i], t[i])) <=>
                          (Level(p[n + 1], part) /\ \A i \in (n + 1) + 1 .. m : Level(p[i], t[i]))
    OBVIOUS
  <2>1. \A i \in n + 1 .. m : i = n + 1 \/ i \in (n + 1) + 1 .. m
    BY <1>1
  <2>2. n + 1 \in n + 1 .. m /\ \A i \in (n + 1) + 1 .. m : i \in n + 1 .. m
    BY <1>1
  <2> QED
    BY <2>1, <2>2
<1>5. Level(p[n + 1], part) <=> (p[n + 1] = "+" \/ (part \notin {"+", "#"} /\ p[n + 1] = part))
  BY DEF Level
<1> DEFINE End(k) == Len(p) = Len(t) /\ \A i \in k + 1 .. Len(p) : Level(p[i], t[i])
           Hash(k) == /\ k < Len(p) /\ Len(p) <= Len(t) + 1 /\ p[Len(p)] = "#"
                      /\ \A i \in k + 1 .. Len(p) - 1 : Level(p[i], t[i])
<1>6. Reached(p, t, n) <=> (End(n) \/ Hash(n))
  BY DEF Reached
<1>7. Reached(p, t, n + 1) <=> (End(n + 1) \/ Hash(n + 1))
  BY DEF Reached
<1>8. End(n) <=> (n + 1 <= Len(p) /\ Level(p[n + 1], part) /\ End(n + 1))
  BY <1>1, <1>4
<1>9. Hash(n) <=> \/ Len(p) = n + 1 /\ p[n + 1] = "#"
                  \/ n + 1 <= Len(p) /\ Level(p[n + 1], part) /\ Hash(n + 1)
  <2>1. CASE Len(p) = n + 1
    BY <1>1, <2>1
  <2>2. CASE Len(p) > n + 1
    <3>1. Len(p) - 1 \in Nat /\ n + 1 <= Len(p) - 1
      BY <1>1, <2>2
    <3>2. (\A i \in n + 1 .. Len(p) - 1 : Level(p[i], t[i])) <=>
             (Level(p[n + 1], part) /\ \A i \in (n + 1) + 1 .. Len(p) - 1 : Level(p[i], t[i]))
      BY <1>4, <3>1
    <3> QED
      BY <1>1, <2>2, <3>2
  <2>3. CASE Len(p) < n + 1
    BY <1>1, <2>3
  <2> QED
    BY <1>1, <2>1, <2>2, <2>3
<1> HIDE DEF End, Hash, n, part
<1>10. (IsPrefix(node, p) /\ Reached(p, t, n)) <=>
                  \/ p = Append(node, "#")
                  \/ part \notin {"+", "#"} /\ IsPrefix(Append(node, part), p) /\ Reached(p, t, n + 1)
                  \/ IsPrefix(Append(node, "+"), p) /\ Reached(p, t, n + 1)
  BY <1>3, <1>5, <1>6, <1>7, <1>8, <1>9
<1> QED
  BY <1>10 DEF n, part

\* At the depth of the topic the walk ends here or at a "#" below.
LEMMA ReachedLast ==
    ASSUME NEW t \in Seq(Levels), NEW node \in Seq(Levels), Len(node) = Len(t), NEW p \in Seq(Levels)
    PROVE  (IsPrefix(node, p) /\ Reached(p, t, Len(node))) <=> (p = node \/ p = Append(node, "#"))
<1> DEFINE n == Len(node)
           c == Append(node, "#")
<1>1. n \in Nat /\ Len(p) \in Nat /\ Len(t) = n
  OBVIOUS
<1>2. "#" \in Levels
  BY PrefixAssumption
<1>3. c \in Seq(Levels) /\ Len(c) = n + 1 /\ c[n + 1] = "#" /\ \A i \in 1 .. n : c[i] = node[i]
  BY <1>1, <1>2
<1> HIDE DEF c
<1>4. IsPrefix(node, p) <=> (n <= Len(p) /\ \A i \in 1 .. n : node[i] = p[i])
  BY PrefixLevels
<1>5. p = node <=> (Len(p) = n /\ \A i \in 1 .. n : node[i] = p[i])
  BY SeqEqual
<1>6. p = c <=> (Len(p) = n + 1 /\ \A i \in 1 .. n + 1 : c[i] = p[i])
  BY <1>3, SeqEqual
<1>7. (\A i \in 1 .. n + 1 : c[i] = p[i]) <=> (p[n + 1] = "#" /\ \A i \in 1 .. n : node[i] = p[i])
  <2>1. \A i \in 1 .. n + 1 : i = n + 1 \/ i \in 1 .. n
    BY <1>1
  <2>2. n + 1 \in 1 .. n + 1 /\ \A i \in 1 .. n : i \in 1 .. n + 1
    BY <1>1
  <2> QED
    BY <1>3, <2>1, <2>2
<1>8. Reached(p, t, n) <=> (Len(p) = n \/ (Len(p) = n + 1 /\ p[n + 1] = "#"))
  <2>1. CASE Len(p) = n
    BY <1>1, <2>1 DEF Reached
  <2>2. CASE Len(p) = n + 1
    BY <1>1, <2>2 DEF Reached
  <2>3. CASE Len(p) # n /\ Len(p) # n + 1
    BY <1>1, <2>3 DEF Reached
  <2> QED
    BY <2>1, <2>2, <2>3
<1> HIDE DEF n
<1>9. (IsPrefix(node, p) /\ Reached(p, t, n)) <=> (p = node \/ p = c)
  BY <1>1, <1>4, <1>5, <1>6, <1>7, <1>8
<1> QED
  BY <1>9 DEF n, c

\* The list s holds the items S, each once.
OnceEach(s, S) == s \in Seq(Items) /\ IsInjective(s) /\ ToSet(s) = S

\* The entries at a node, and those that a walk still reaches from one.
At(entries, q) == {x \in Items : Holds(entries, x) /\ ActualFilter(x.filter) = q}
Under(entries, node, t, n) ==
    {x \in Items : Holds(entries, x) /\ IsPrefix(node, ActualFilter(x.filter)) /\ Reached(ActualFilter(x.filter), t, n)}

LEMMA EmptyOnce == OnceEach(<<>>, {})
<1>1. <<>> \in Seq(Items) /\ DOMAIN <<>> = {}
  OBVIOUS
<1> QED
  BY <1>1 DEF OnceEach, IsInjective, ToSet

\* Lists without a common item, one after the other.
LEMMA JoinOnce ==
    ASSUME NEW s, NEW S, OnceEach(s, S), NEW u, NEW U, OnceEach(u, U), \A x \in S : x \notin U
    PROVE  OnceEach(s \o u, S \cup U)
<1>1. /\ s \in Seq(Items) /\ u \in Seq(Items) /\ Len(s) \in Nat /\ Len(u) \in Nat
      /\ DOMAIN s = 1 .. Len(s) /\ DOMAIN u = 1 .. Len(u)
  BY DEF OnceEach
<1> DEFINE w == s \o u
<1>2. /\ w \in Seq(Items) /\ DOMAIN w = 1 .. Len(s) + Len(u)
      /\ \A i \in 1 .. Len(s) : w[i] = s[i]
      /\ \A i \in 1 .. Len(u) : w[Len(s) + i] = u[i]
  BY <1>1
<1> HIDE DEF w
<1>3. ASSUME NEW i \in DOMAIN w
      PROVE  (i \in DOMAIN s /\ w[i] = s[i]) \/ (i - Len(s) \in DOMAIN u /\ w[i] = u[i - Len(s)] /\ i \notin DOMAIN s)
  <2>1. CASE i <= Len(s)
    BY <1>1, <1>2, <2>1
  <2>2. CASE ~ (i <= Len(s))
    <3>1. i - Len(s) \in 1 .. Len(u) /\ Len(s) + (i - Len(s)) = i /\ i \notin 1 .. Len(s)
      BY <1>1, <1>2, <2>2
    <3> QED
      BY <1>1, <1>2, <3>1
  <2> QED
    BY <2>1, <2>2
<1>4. \A i \in DOMAIN s : i \in DOMAIN w /\ w[i] = s[i]
  BY <1>1, <1>2
<1>5. \A i \in DOMAIN u : Len(s) + i \in DOMAIN w /\ w[Len(s) + i] = u[i]
  BY <1>1, <1>2
<1>6. /\ \A i \in DOMAIN s : s[i] \in S
      /\ \A i \in DOMAIN u : u[i] \in U
      /\ \A x \in S : \E i \in DOMAIN s : s[i] = x
      /\ \A x \in U : \E i \in DOMAIN u : u[i] = x
  BY DEF OnceEach, ToSet
<1>7. ToSet(w) = S \cup U
  <2>1. ASSUME NEW i \in DOMAIN w PROVE w[i] \in S \cup U
    BY <1>3, <1>6
  <2>2. ASSUME NEW x \in S \cup U PROVE \E i \in DOMAIN w : w[i] = x
    <3>1. CASE x \in S
      BY <1>4, <1>6, <3>1
    <3>2. CASE x \in U
      BY <1>5, <1>6, <3>2
    <3> QED
      BY <3>1, <3>2
  <2> QED
    BY <2>1, <2>2 DEF ToSet
<1>8. IsInjective(w)
  <2>1. /\ \A i, j \in DOMAIN s : s[i] = s[j] => i = j
        /\ \A i, j \in DOMAIN u : u[i] = u[j] => i = j
    BY DEF OnceEach, IsInjective
  <2>2. ASSUME NEW i \in DOMAIN w, NEW j \in DOMAIN w, w[i] = w[j] PROVE i = j
    <3>0. i \in Int /\ j \in Int
      BY <1>1, <1>2
    <3>1. CASE i \in DOMAIN s /\ j \in DOMAIN s
      BY <1>4, <2>1, <2>2, <3>1
    <3>2. CASE i \notin DOMAIN s /\ j \notin DOMAIN s
      <4>1. i - Len(s) = j - Len(s)
        BY <1>3, <2>1, <2>2, <3>2
      <4> QED
        BY <1>1, <3>0, <4>1
    <3>3. CASE i \in DOMAIN s /\ j \notin DOMAIN s
      BY <1>3, <1>6, <2>2, <3>3
    <3>4. CASE i \notin DOMAIN s /\ j \in DOMAIN s
      BY <1>3, <1>6, <2>2, <3>4
    <3> QED
      BY <3>1, <3>2, <3>3, <3>4
  <2> QED
    BY <2>2 DEF IsInjective
<1> QED
  BY <1>2, <1>7, <1>8 DEF OnceEach, w

\* A node that is missing has no entries and leads to none.
LEMMA NodeEntries ==
    ASSUME NEW tree, NEW entries, EntriesOK(entries), TreeOK(tree, entries), NEW q \in Seq(Levels)
    PROVE  /\ OnceEach(EntriesAt(tree, q), At(entries, q))
           /\ q \notin DOMAIN tree =>
                 \A x \in Items : Holds(entries, x) => ~ IsPrefix(q, ActualFilter(x.filter))
<1>1. ASSUME q \notin DOMAIN tree, NEW x \in Items, Holds(entries, x), IsPrefix(q, ActualFilter(x.filter))
      PROVE  FALSE
  <2>1. x.filter \in DOMAIN entries /\ ActualFilter(x.filter) \in Seq(Levels)
    BY <1>1, ActualFilters DEF Holds, EntriesOK
  <2>2. q \in Paths(ActualFilter(x.filter))
    BY <1>1, <2>1, PathsArePrefixes
  <2> QED
    BY <1>1, <2>1, <2>2 DEF TreeOK
<1>2. CASE q \in DOMAIN tree
  <2>1. /\ tree[q] \in Seq(Items) /\ IsInjective(tree[q])
        /\ \A x \in Items : x \in ToSet(tree[q]) <=> (Holds(entries, x) /\ ActualFilter(x.filter) = q)
    BY <1>2 DEF TreeOK
  <2>2. ToSet(tree[q]) \subseteq Items
    <3>1. PICK s \in Seq(Items) : s = tree[q]
      BY <2>1
    <3>2. \A i \in DOMAIN s : s[i] \in Items
      OBVIOUS
    <3> QED
      BY <3>1, <3>2 DEF ToSet
  <2>3. ToSet(tree[q]) = At(entries, q)
    BY <2>1, <2>2 DEF At
  <2> QED
    BY <1>1, <1>2, <2>1, <2>3 DEF OnceEach, EntriesAt
<1>3. CASE q \notin DOMAIN tree
  <2>1. IsPrefix(q, q)
    BY PrefixLevels
  <2>2. At(entries, q) = {}
    BY <1>1, <1>3, <2>1 DEF At
  <2> QED
    BY <1>1, <1>3, <2>2, EmptyOnce DEF EntriesAt
<1> QED
  BY <1>2, <1>3

\* What lies under different children is different.
LEMMA ChildLevel ==
    ASSUME NEW node \in Seq(Levels), NEW l \in Levels, NEW p \in Seq(Levels)
    PROVE  /\ IsPrefix(Append(node, l), p) => p[Len(node) + 1] = l
           /\ p = Append(node, l) => p[Len(node) + 1] = l
<1> DEFINE c == Append(node, l)
<1>1. c \in Seq(Levels) /\ Len(c) = Len(node) + 1 /\ c[Len(node) + 1] = l /\ Len(node) \in Nat
  OBVIOUS
<1> HIDE DEF c
<1>2. IsPrefix(c, p) => p[Len(node) + 1] = l
  BY <1>1, PrefixLevels
<1> QED
  BY <1>1, <1>2 DEF c

\* The walk returns what it reaches, each entry once.
LEMMA CollectFacts ==
    ASSUME NEW tree, NEW entries, EntriesOK(entries), TreeOK(tree, entries), NEW t \in Seq(Levels)
    PROVE  OnceEach(Collect(tree, t), {x \in Items : Holds(entries, x) /\ Reached(ActualFilter(x.filter), t, 0)})
<1> DEFINE D == Depths(tree, t)
           h == CHOOSE h : h = [node \in D |-> CollectStep(tree, t, h, node)]
           OK(node) == OnceEach(h[node], Under(entries, node, t, Len(node)))
<1>1. DOMAIN tree \subseteq Seq(Levels)
  BY TreePaths
<1>2. h = [node \in D |-> CollectStep(tree, t, h, node)]
  <2>1. \E g : g = [node \in D |-> CollectStep(tree, t, g, node)]
    BY <1>1, CollectDefined
  <2> QED
    BY <2>1
<1>3. Collect(tree, t) = h[<<>>]
  BY DEF Collect, CollectStep, EntriesAt, Below, Depths
<1> HIDE DEF h
<1>4. ASSUME NEW node \in D PROVE h[node] = CollectStep(tree, t, h, node)
  BY <1>2
<1>5. /\ Len(t) \in Nat
      /\ \A p \in D : p \in Seq(Levels) /\ Len(p) \in Nat /\ Len(p) <= Len(t) /\ p \in DOMAIN tree
  BY <1>1 DEF Depths
<1>6. "#" \in Levels /\ "+" \in Levels
  BY PrefixAssumption
<1>7. \A x \in Items : ActualFilter(x.filter) \in Seq(Levels)
  BY ActualFilters DEF Items
<1>8. ASSUME NEW node \in D, Len(node) = Len(t) PROVE OK(node)
  <2> DEFINE c == Append(node, "#")
  <2>1. node \in Seq(Levels) /\ c \in Seq(Levels) /\ Len(c) = Len(node) + 1 /\ Len(node) \in Nat
    BY <1>5, <1>6
  <2>2. h[node] = EntriesAt(tree, c) \o EntriesAt(tree, node)
    BY <1>4, <1>8 DEF CollectStep
  <2> HIDE DEF c
  <2>3. OnceEach(EntriesAt(tree, c), At(entries, c)) /\ OnceEach(EntriesAt(tree, node), At(entries, node))
    BY <2>1, NodeEntries
  <2>4. \A x \in At(entries, c) : x \notin At(entries, node)
    <3>1. c # node
      BY <2>1
    <3> QED
      BY <3>1 DEF At
  <2>5. Under(entries, node, t, Len(node)) = At(entries, c) \cup At(entries, node)
    <3>1. \A p \in Seq(Levels) : (IsPrefix(node, p) /\ Reached(p, t, Len(node))) <=> (p = node \/ p = c)
      BY <1>8, <2>1, ReachedLast DEF c
    <3>2. \A x \in Items : x \in Under(entries, node, t, Len(node)) <=> (x \in At(entries, c) \/ x \in At(entries, node))
      BY <1>7, <3>1 DEF Under, At
    <3>3. Under(entries, node, t, Len(node)) \subseteq Items /\ At(entries, c) \subseteq Items /\ At(entries, node) \subseteq Items
      BY DEF Under, At
    <3> QED
      BY <3>2, <3>3
  <2>6. OnceEach(EntriesAt(tree, c) \o EntriesAt(tree, node), At(entries, c) \cup At(entries, node))
    BY <2>3, <2>4, JoinOnce
  <2> QED
    BY <2>2, <2>5, <2>6
<1>9. ASSUME NEW node \in D, Len(node) < Len(t),
             \A p \in D : Len(p) = Len(node) + 1 => OK(p)
      PROVE  OK(node)
  <2> DEFINE n == Len(node)
             part == t[n + 1]
             hash == Append(node, "#")
             U(l) == Under(entries, Append(node, l), t, n + 1)
             lit == IF part \in {"+", "#"} THEN <<>> ELSE Below(tree, h, Append(node, part))
             plus == Below(tree, h, Append(node, "+"))
             Lit == IF part \in {"+", "#"} THEN {} ELSE U(part)
  <2>1. node \in Seq(Levels) /\ hash \in Seq(Levels) /\ n \in Nat /\ part \in Levels /\ n + 1 <= Len(t)
    BY <1>5, <1>6, <1>9
  <2>2. h[node] = EntriesAt(tree, hash) \o (lit \o plus)
    <3>1. n # Len(t)
      BY <1>5, <1>9
    <3> QED
      BY <1>4, <3>1 DEF CollectStep
  <2>3. ASSUME NEW l \in Levels PROVE OnceEach(Below(tree, h, Append(node, l)), U(l))
    <3> DEFINE c == Append(node, l)
    <3>1. c \in Seq(Levels) /\ Len(c) = n + 1
      BY <2>1
    <3> HIDE DEF c
    <3>2. CASE c \in DOMAIN tree
      <4>1. c \in D
        BY <2>1, <3>1, <3>2 DEF Depths
      <4>2. OnceEach(h[c], Under(entries, c, t, n + 1))
        BY <1>9, <3>1, <4>1
      <4> QED
        BY <3>2, <4>2 DEF Below, c
    <3>3. CASE c \notin DOMAIN tree
      <4>1. Under(entries, c, t, n + 1) = {}
        BY <3>1, <3>3, NodeEntries DEF Under
      <4> QED
        BY <3>3, <4>1, EmptyOnce DEF Below, c
    <3> QED
      BY <3>2, <3>3
  <2>4. ASSUME NEW l \in Levels, NEW x \in U(l) PROVE ActualFilter(x.filter)[n + 1] = l
    <3>1. x \in Items /\ IsPrefix(Append(node, l), ActualFilter(x.filter))
      BY <2>4 DEF Under
    <3> QED
      BY <1>7, <2>1, <3>1, ChildLevel
  <2>5. ASSUME NEW x \in At(entries, hash) PROVE ActualFilter(x.filter)[n + 1] = "#"
    <3>1. x \in Items /\ ActualFilter(x.filter) = Append(node, "#")
      BY <2>5 DEF At
    <3> QED
      BY <1>6, <1>7, <2>1, <3>1, ChildLevel
  <2>6. OnceEach(EntriesAt(tree, hash), At(entries, hash))
    BY <2>1, NodeEntries
  <2>7. ASSUME NEW x \in Items
        PROVE  x \in Under(entries, node, t, n) <=> (x \in At(entries, hash) \/ x \in Lit \/ x \in U("+"))
    <3> DEFINE p == ActualFilter(x.filter)
    <3>1. p \in Seq(Levels)
      BY <1>7
    <3> HIDE DEF p
    <3>2. (IsPrefix(node, p) /\ Reached(p, t, n)) <=>
                  \/ p = hash
                  \/ part \notin {"+", "#"} /\ IsPrefix(Append(node, part), p) /\ Reached(p, t, n + 1)
                  \/ IsPrefix(Append(node, "+"), p) /\ Reached(p, t, n + 1)
      BY <1>9, <2>1, <3>1, ReachedNext
    <3>3. x \in Under(entries, node, t, n) <=> (Holds(entries, x) /\ IsPrefix(node, p) /\ Reached(p, t, n))
      BY DEF Under, p
    <3>4. x \in At(entries, hash) <=> (Holds(entries, x) /\ p = hash)
      BY DEF At, p
    <3>5. \A l : x \in U(l) <=> (Holds(entries, x) /\ IsPrefix(Append(node, l), p) /\ Reached(p, t, n + 1))
      BY DEF Under, p
    <3>6. x \in Lit <=> (part \notin {"+", "#"} /\ x \in U(part))
      OBVIOUS
    <3> HIDE DEF U, Lit, hash, part, n
    <3> QED
      BY <3>2, <3>3, <3>4, <3>5, <3>6
  <2>8. /\ \A l : U(l) \subseteq Items
        /\ Lit \subseteq Items /\ At(entries, hash) \subseteq Items /\ Under(entries, node, t, n) \subseteq Items
    BY DEF Under, At
  <2> HIDE DEF U, hash, n, part
  <2>9. OnceEach(lit, Lit) /\ OnceEach(plus, U("+"))
    BY <1>6, <2>1, <2>3, EmptyOnce
  <2>10. \A x \in Lit : x \notin U("+")
    BY <1>6, <2>1, <2>4
  <2>11. OnceEach(lit \o plus, Lit \cup U("+"))
    <3> HIDE DEF lit, plus, Lit
    <3> QED
      BY <2>9, <2>10, JoinOnce
  <2>12. \A x \in At(entries, hash) : x \notin Lit \cup U("+")
    <3>1. \A x \in Lit : part \notin {"+", "#"} /\ ActualFilter(x.filter)[n + 1] = part
      BY <2>1, <2>4
    <3> HIDE DEF Lit
    <3>2. \A x \in U("+") : ActualFilter(x.filter)[n + 1] = "+"
      BY <1>6, <2>4
    <3> QED
      BY <2>5, <3>1, <3>2
  <2> HIDE DEF lit, plus, Lit
  <2>13. OnceEach(EntriesAt(tree, hash) \o (lit \o plus), At(entries, hash) \cup (Lit \cup U("+")))
    BY <2>6, <2>11, <2>12, JoinOnce
  <2>14. Under(entries, node, t, n) = At(entries, hash) \cup (Lit \cup U("+"))
    BY <2>7, <2>8
  <2> QED
    BY <2>2, <2>13, <2>14 DEF n
<1> DEFINE S == {k \in Nat : \A p \in D : Len(p) + k >= Len(t) => OK(p)}
<1>10. 0 \in S
  <2>1. ASSUME NEW p \in D, Len(p) + 0 >= Len(t) PROVE OK(p)
    <3>1. Len(p) = Len(t)
      BY <1>5, <2>1
    <3> QED
      BY <1>8, <3>1
  <2> QED
    BY <2>1
<1>11. ASSUME NEW k \in Nat, k \in S PROVE k + 1 \in S
  <2>1. ASSUME NEW node \in D, Len(node) + (k + 1) >= Len(t) PROVE OK(node)
    <3>1. CASE Len(node) = Len(t)
      BY <1>8, <3>1
    <3>2. CASE Len(node) # Len(t)
      <4>1. Len(node) < Len(t)
        BY <1>5, <3>2
      <4>2. ASSUME NEW p \in D, Len(p) = Len(node) + 1 PROVE OK(p)
        <5>1. Len(p) + k >= Len(t)
          BY <1>5, <2>1, <4>2
        <5> QED
          BY <1>11, <5>1
      <4> QED
        BY <1>9, <4>1, <4>2
    <3> QED
      BY <3>1, <3>2
  <2> QED
    BY <2>1
<1> HIDE DEF S
<1>12. Len(t) \in S
  BY <1>5, <1>10, <1>11, Induction
<1>13. <<>> \in D /\ Len(<<>>) = 0
  BY <1>5 DEF Depths, TreeOK
<1>14. OK(<<>>)
  <2>1. Len(<<>>) + Len(t) >= Len(t)
    BY <1>5, <1>13
  <2> QED
    BY <1>12, <1>13, <2>1 DEF S
<1>15. Under(entries, <<>>, t, 0) = {x \in Items : Holds(entries, x) /\ Reached(ActualFilter(x.filter), t, 0)}
  <2>1. \A p \in Seq(Levels) : IsPrefix(<<>>, p)
    <3>1. <<>> \in Seq(Levels) /\ Len(<<>>) = 0 /\ 1 .. 0 = {} /\ \A p \in Seq(Levels) : 0 <= Len(p)
      OBVIOUS
    <3>2. ASSUME NEW z \in Seq(Levels), NEW p \in Seq(Levels), Len(z) = 0 PROVE IsPrefix(z, p)
      BY <3>1, <3>2, PrefixLevels
    <3> QED
      BY <3>1, <3>2
  <2> QED
    BY <1>7, <2>1 DEF Under
<1> QED
  BY <1>3, <1>13, <1>14, <1>15

-----------------------------------------------------------------------------
(* match(): the walk, the test of each entry and the sort.                 *)

\* A filter without its prefix, level by level.
LEMMA FilterLevels ==
    ASSUME NEW f, WellFormed(f)
    PROVE  /\ f \in Seq(Levels) /\ Len(f) \in Nat \ {0} /\ Fixed(f) \in 0 .. Len(f)
           /\ Open(f) => Fixed(f) = Len(f) - 1 /\ f[Len(f)] = "#"
           /\ ~ Open(f) => Fixed(f) = Len(f)
           /\ \A i \in 1 .. Fixed(f) : f[i] # "#"
<1>1. f \in Seq(Levels) /\ Len(f) \in Nat \ {0} /\ \A i \in 1 .. Len(f) - 1 : f[i] # "#"
  BY DEF WellFormed
<1>2. CASE Open(f)
  BY <1>1, <1>2 DEF Open, Fixed
<1>3. CASE ~ Open(f)
  <2>1. \A i \in 1 .. Len(f) : i = Len(f) \/ i \in 1 .. Len(f) - 1
    BY <1>1
  <2> QED
    BY <1>1, <1>3, <2>1 DEF Open, Fixed
<1> QED
  BY <1>2, <1>3

\* The walk comes by every filter that matches.
LEMMA MatchesReached ==
    ASSUME NEW f, WellFormed(f), NEW t \in Seq(Levels), MqttMatches(f, t)
    PROVE  Reached(f, t, 0)
<1>1. /\ IF Open(f) THEN Len(t) >= Fixed(f) ELSE Len(t) = Fixed(f)
      /\ \A i \in 1 .. Fixed(f) : f[i] \in {"+", t[i]}
  BY DEF MqttMatches
<1>2. \A i \in 1 .. Fixed(f) : Level(f[i], t[i])
  BY <1>1, FilterLevels DEF Level
<1>3. Len(t) \in Nat /\ Len(f) \in Nat \ {0}
  BY FilterLevels
<1>4. CASE Open(f)
  BY <1>1, <1>2, <1>3, <1>4, FilterLevels DEF Reached
<1>5. CASE ~ Open(f)
  BY <1>1, <1>2, <1>3, <1>5, FilterLevels DEF Reached
<1> QED
  BY <1>4, <1>5

LEMMA RankFacts ==
    ASSUME NEW f \in Seq(Levels)
    PROVE  /\ FilterSpecificity(f) \in Seq(Nat)
           /\ Len(FilterSpecificity(f)) = Len(f)
           /\ \A i \in 1 .. Len(f) : FilterSpecificity(f)[i] = SegmentRank(f[i])
<1> DEFINE r == [i \in 1 .. Len(f) |-> SegmentRank(f[i])]
<1>1. \A i \in 1 .. Len(f) : SegmentRank(f[i]) \in Nat
  BY DEF SegmentRank
<1>2. Len(f) \in Nat /\ DOMAIN f = 1 .. Len(f)
  OBVIOUS
<1>3. FilterSpecificity(f) = r
  BY <1>2 DEF FilterSpecificity
<1>4. r \in Seq(Nat) /\ Len(r) = Len(f)
  BY <1>1, <1>2
<1> QED
  BY <1>2, <1>3, <1>4

LEMMA ItemRank == \A x \in Items : Specificity(x) \in Seq(Nat)
  BY ActualFilters, RankFacts DEF Items, Specificity

\* The test leaves those of the items that match by the MQTT rules.
LEMMA MatchingFacts ==
    ASSUME NEW s, NEW S, OnceEach(s, S), NEW t \in Seq(Levels), t # <<>>
    PROVE  OnceEach(Matching(s, t), {x \in S : MqttMatches(ActualFilter(x.filter), t)})
<1> DEFINE M == {x \in ToSet(s) : TopicMatches(ActualFilter(x.filter), t)}
<1>1. s \in Seq(Items) /\ IsInjective(s) /\ ToSet(s) = S
  BY DEF OnceEach
<1>2. S \subseteq Items
  <2>1. \A i \in DOMAIN s : s[i] \in Items
    BY <1>1
  <2> QED
    BY <1>1, <2>1 DEF ToSet
<1>3. \A x \in Items : WellFormed(ActualFilter(x.filter))
  BY ActualFilters DEF Items
<1>4. \A x \in S : TopicMatches(ActualFilter(x.filter), t) <=> MqttMatches(ActualFilter(x.filter), t)
  BY <1>2, <1>3, TopicMatchesIsMqtt
<1>5. M = {x \in S : MqttMatches(ActualFilter(x.filter), t)}
  BY <1>1, <1>4
<1>6. Matching(s, t) = Where(s, M)
  BY DEF Matching
<1> HIDE DEF M
<1>7. Where(s, M) \in Seq(Items) /\ ToSet(Where(s, M)) = ToSet(s) \cap M /\ IsInjective(Where(s, M))
  BY <1>1, WhereFacts
<1>8. ToSet(s) \cap M = M
  BY DEF M
<1> QED
  BY <1>5, <1>6, <1>7, <1>8 DEF OnceEach

\* Those of the items that match a topic.
Fitting(S, t) == {x \in S : MqttMatches(ActualFilter(x.filter), t)}

LEMMA MatchFacts ==
    ASSUME IndexOK(index), NEW t \in Topics
    PROVE  /\ OnceEach(Match(t), Fitting(Subscribed, t))
           /\ \A i, j \in DOMAIN Match(t) :
                 i < j => ~ TupleLess(Specificity(Match(t)[j]), Specificity(Match(t)[i]))
<1> DEFINE walk == Collect(index.tree, t)
           found == Matching(walk, t)
           S == {x \in Items : Holds(index.entries, x) /\ Reached(ActualFilter(x.filter), t, 0)}
<1>1. t \in Seq(Levels) /\ t # <<>>
  BY TopicAssumption
<1>2. OnceEach(walk, S)
  BY <1>1, CollectFacts DEF IndexOK
<1> HIDE DEF walk
<1>3. Fitting(S, t) = Fitting(Subscribed, t)
  <2>1. \A x \in Items : MqttMatches(ActualFilter(x.filter), t) => Reached(ActualFilter(x.filter), t, 0)
    BY <1>1, ActualFilters, MatchesReached DEF Items
  <2> QED
    BY <2>1, SubscribedFacts DEF Fitting
<1> HIDE DEF S
<1>4. OnceEach(found, Fitting(Subscribed, t))
  BY <1>1, <1>2, <1>3, MatchingFacts DEF Fitting
<1>5. Match(t) = SortedByRank(found)
  BY DEF Match, walk
<1> HIDE DEF found
<1>6. found \in Seq(Items) /\ IsInjective(found) /\ ToSet(found) = Fitting(Subscribed, t)
  BY <1>4 DEF OnceEach
<1> QED
  BY <1>5, <1>6, ItemRank, SortedFacts DEF OnceEach

(***************************************************************************)
(* After every sequence of additions, removals and clears, match() finds   *)
(* for every topic exactly the filters that match by the MQTT rules, each  *)
(* once and the most specific first (subscription_index.py:108, :167).     *)
(***************************************************************************)
THEOREM MatchFindsAll == Spec => []MatchIsReference
<1>1. IndexInv => MatchIsReference
  <2> SUFFICES ASSUME IndexOK(index), NEW t \in Topics
               PROVE  /\ ToSet(Match(t)) = Fitting(Subscribed, t)
                      /\ IsInjective(Match(t))
                      /\ \A i, j \in DOMAIN Match(t) :
                            i < j => ~ TupleLess(Specificity(Match(t)[j]), Specificity(Match(t)[i]))
    BY DEF IndexInv, MatchIsReference, Fitting
  <2> QED
    BY MatchFacts DEF OnceEach
<1> QED
  BY <1>1, IndexInvariant, PTL

-----------------------------------------------------------------------------
(* select(): ranks and what the filters match.                             *)

\* The levels of a filter without its prefix are levels of the filter.
LEMMA ActualLevels ==
    ASSUME NEW f \in Filters, NEW l, l \notin ToSet(f)
    PROVE  \A i \in 1 .. Len(ActualFilter(f)) : ActualFilter(f)[i] # l
<1>1. f \in Seq(Levels) /\ Len(f) \in Nat /\ f # <<>>
  <2>1. f \in Seq(Levels) /\ ValidFilter(f)
    BY FilterAssumption
  <2>2. f # <<>>
    BY <2>1, Zenon DEF ValidFilter
  <2> QED
    BY <2>1, <2>2
<1>2. \A i \in 1 .. Len(f) : f[i] # l
  <2>1. DOMAIN f = 1 .. Len(f)
    BY <1>1
  <2> QED
    BY <2>1 DEF ToSet
<1>3. CASE ActualFilter(f) = f
  BY <1>2, <1>3
<1>4. CASE Len(f) >= 3 /\ ActualFilter(f) = SubSeq(f, 3, Len(f))
  <2> DEFINE u == SubSeq(f, 3, Len(f))
  <2>1. Len(u) = Len(f) - 2 /\ \A i \in 1 .. Len(f) - 2 : u[i] = f[i + 2] /\ i + 2 \in 1 .. Len(f)
    BY <1>1, <1>4
  <2> QED
    BY <1>2, <1>4, <2>1
<1>5. CASE Len(f) >= 2 /\ ActualFilter(f) = Tail(f)
  <2> DEFINE u == Tail(f)
  <2>1. Len(u) = Len(f) - 1 /\ \A i \in 1 .. Len(f) - 1 : u[i] = f[i + 1] /\ i + 1 \in 1 .. Len(f)
    BY <1>1, <1>5
  <2> QED
    BY <1>2, <1>5, <2>1
<1> QED
  BY <1>3, <1>4, <1>5 DEF ActualFilter, SharedFilterToActual

\* The lower rank at the first level where two filters differ.
LEMMA RankLess ==
    ASSUME NEW a, WellFormed(a), NEW b, WellFormed(b), a # b, Len(b) <= Len(a) + 1,
           \A i \in 1 .. Len(b) : i <= Len(a) => a[i] = b[i] \/ SegmentRank(a[i]) < SegmentRank(b[i]),
           Len(b) < Len(a) => a[Len(b)] # b[Len(b)]
    PROVE  TupleLess(FilterSpecificity(a), FilterSpecificity(b))
<1> DEFINE D == {i \in 1 .. Len(b) : i > Len(a) \/ a[i] # b[i]}
<1>1. /\ a \in Seq(Levels) /\ b \in Seq(Levels) /\ Len(a) \in Nat \ {0} /\ Len(b) \in Nat \ {0}
  BY FilterLevels
<1>2. D # {}
  <2>1. CASE Len(b) = Len(a)
    <3>1. \E i \in 1 .. Len(a) : a[i] # b[i]
      BY <1>1, <2>1, SeqEqual
    <3> QED
      BY <2>1, <3>1
  <2>2. CASE Len(b) # Len(a)
    <3>1. Len(b) \in D
      BY <1>1, <2>2
    <3> QED
      BY <3>1
  <2> QED
    BY <2>1, <2>2
<1>3. D \in SUBSET Nat
  BY <1>1
<1>4. \A i \in D : i \in 1 .. Len(b) /\ (i > Len(a) \/ a[i] # b[i])
  OBVIOUS
<1>5. \A j \in 1 .. Len(b) : j \notin D => j <= Len(a) /\ a[j] = b[j]
  BY <1>1
<1> HIDE DEF D
<1>6. PICK i \in D : \A j \in D : i <= j
  BY <1>2, <1>3, LeastElement
<1>7. i \in 1 .. Len(b) /\ i \in Nat
  BY <1>3, <1>4
<1>8. ASSUME NEW j \in 1 .. i - 1 PROVE j \in 1 .. Len(b) /\ j <= Len(a) /\ a[j] = b[j]
  <2>1. j \in 1 .. Len(b) /\ ~ (i <= j)
    BY <1>1, <1>7
  <2> QED
    BY <1>5, <1>6, <2>1
<1>9. i <= Len(a) + 1
  BY <1>1, <1>7
<1>10. i <= Len(a) => SegmentRank(a[i]) < SegmentRank(b[i])
  <2>1. i <= Len(a) => ~ (i > Len(a))
    BY <1>1, <1>7
  <2> QED
    BY <1>4, <1>7, <2>1
<1> DEFINE x == FilterSpecificity(a)
           y == FilterSpecificity(b)
<1>11. /\ x \in Seq(Nat) /\ Len(x) = Len(a) /\ \A j \in 1 .. Len(a) : x[j] = SegmentRank(a[j])
       /\ y \in Seq(Nat) /\ Len(y) = Len(b) /\ \A j \in 1 .. Len(b) : y[j] = SegmentRank(b[j])
  BY <1>1, RankFacts
<1> HIDE DEF x, y
<1>12. \A j \in 1 .. i - 1 : x[j] = y[j]
  <2> SUFFICES ASSUME NEW j \in 1 .. i - 1 PROVE x[j] = y[j]
    OBVIOUS
  <2>1. j \in 1 .. Len(a)
    BY <1>1, <1>7, <1>8
  <2> QED
    BY <1>8, <1>11, <2>1
<1>13. i <= Len(x) => x[i] < y[i]
  <2>1. i <= Len(a) => i \in 1 .. Len(a)
    BY <1>1, <1>7
  <2> QED
    BY <1>7, <1>10, <1>11, <2>1
<1>14. TupleLess(x, y)
  BY <1>7, <1>9, <1>11, <1>12, <1>13, TupleLessAt
<1> QED
  BY <1>14 DEF x, y

\* A filter that matches a witness of another has its levels or more general ones.
LEMMA WitnessLevels ==
    ASSUME NEW a, WellFormed(a), NEW b, WellFormed(b), NEW w \in Seq(Levels), NEW c, MqttMatches(b, w),
           \A i \in 1 .. Len(a) : a[i] # c, \A i \in 1 .. Len(b) : b[i] # c,
           \A i \in 1 .. Fixed(a) : w[i] = IF a[i] = "+" THEN c ELSE a[i],
           NEW i \in 1 .. Fixed(b), i <= Fixed(a)
    PROVE  a[i] = b[i] \/ SegmentRank(a[i]) < SegmentRank(b[i])
<1>1. b[i] \in {"+", w[i]}
  BY DEF MqttMatches
<1>2. Fixed(a) \in 0 .. Len(a) /\ Fixed(b) \in 0 .. Len(b) /\ Len(a) \in Nat /\ Len(b) \in Nat
  BY FilterLevels
<1>3. i \in 1 .. Len(b) /\ i \in 1 .. Fixed(a) /\ i \in 1 .. Len(a)
  BY <1>2
<1>4. a[i] # "#" /\ b[i] # c
  BY <1>3, FilterLevels
<1>5. w[i] = IF a[i] = "+" THEN c ELSE a[i]
  BY <1>3
<1>6. CASE a[i] = "+"
  BY <1>1, <1>4, <1>5, <1>6
<1>7. CASE a[i] # "+" /\ b[i] # "+"
  BY <1>1, <1>5, <1>7
<1>8. CASE a[i] # "+" /\ b[i] = "+"
  <2>1. SegmentRank(a[i]) = 0 /\ SegmentRank(b[i]) = 1
    BY <1>4, <1>8 DEF SegmentRank
  <2> QED
    BY <2>1
<1> QED
  BY <1>6, <1>7, <1>8

\* Filters of one rank that match one topic are the same filter.
LEMMA SameRank ==
    ASSUME NEW a, WellFormed(a), NEW b, WellFormed(b), NEW t \in Seq(Levels), MqttMatches(a, t), MqttMatches(b, t),
           FilterSpecificity(a) = FilterSpecificity(b)
    PROVE  a = b
<1>1. a \in Seq(Levels) /\ b \in Seq(Levels) /\ Len(a) \in Nat \ {0} /\ Len(b) \in Nat \ {0}
  BY FilterLevels
<1>2. Len(a) = Len(b) /\ \A i \in 1 .. Len(a) : SegmentRank(a[i]) = SegmentRank(b[i])
  BY <1>1, RankFacts
<1>3. \A i \in 1 .. Len(a) : (a[i] = "#" <=> b[i] = "#") /\ (a[i] = "+" <=> b[i] = "+")
  BY <1>2 DEF SegmentRank
<1>4. Open(a) <=> Open(b)
  BY <1>1, <1>2, <1>3 DEF Open
<1>5. Fixed(a) = Fixed(b)
  BY <1>2, <1>4 DEF Fixed
<1>6. \A i \in 1 .. Fixed(a) : a[i] \in {"+", t[i]} /\ b[i] \in {"+", t[i]}
  BY <1>5 DEF MqttMatches
<1>7. ASSUME NEW i \in 1 .. Len(a) PROVE a[i] = b[i]
  <2>1. i \in 1 .. Fixed(a) \/ a[i] = "#"
    <3>1. CASE Open(a)
      BY <1>1, <3>1, FilterLevels
    <3>2. CASE ~ Open(a)
      BY <1>1, <3>2, FilterLevels
    <3> QED
      BY <3>1, <3>2
  <2> QED
    BY <1>3, <1>6, <2>1
<1> QED
  BY <1>1, <1>2, <1>7, SeqEqual

LEMMA AppendTwo ==
    ASSUME NEW S, NEW s \in Seq(S), NEW x \in S, NEW w, w = s \o <<x, x>>
    PROVE  /\ w \in Seq(S) /\ Len(w) = Len(s) + 2 /\ w[Len(s) + 1] = x /\ w[Len(s) + 2] = x
           /\ \A i \in 1 .. Len(s) : w[i] = s[i]
<1>1. <<x, x>> \in Seq(S) /\ Len(<<x, x>>) = 2 /\ Len(s) \in Nat
  OBVIOUS
<1>2. /\ w \in Seq(S) /\ Len(w) = Len(s) + 2
      /\ \A i \in 1 .. Len(s) + 2 : w[i] = IF i <= Len(s) THEN s[i] ELSE <<x, x>>[i - Len(s)]
  BY <1>1, ConcatProperties
<1>3. /\ Len(s) + 1 \in 1 .. Len(s) + 2 /\ Len(s) + 2 \in 1 .. Len(s) + 2
      /\ ~ (Len(s) + 1 <= Len(s)) /\ ~ (Len(s) + 2 <= Len(s))
      /\ (Len(s) + 1) - Len(s) = 1 /\ (Len(s) + 2) - Len(s) = 2
      /\ \A i \in 1 .. Len(s) : i \in 1 .. Len(s) + 2 /\ i <= Len(s)
  BY <1>1
<1>4. w[Len(s) + 1] = <<x, x>>[1] /\ w[Len(s) + 2] = <<x, x>>[2]
  BY <1>2, <1>3
<1> QED
  BY <1>2, <1>3, <1>4

\* A witness of a filter: a topic that it matches, with c where it has wildcards.
IsWitness(a, w) ==
    /\ w \in Seq(Levels) /\ w # <<>> /\ Len(w) >= Fixed(a)
    /\ \A i \in 1 .. Fixed(a) : w[i] = IF a[i] = "+" THEN OtherLevel ELSE a[i]
    /\ \A i \in Fixed(a) + 1 .. Len(w) : w[i] = OtherLevel

\* The topics have a witness of each length that tells filters apart.
LEMMA WitnessesAre ==
    ASSUME NEW f \in Filters, NEW a, a = ActualFilter(f)
    PROVE  /\ ~ Open(a) => \E w \in Topics : IsWitness(a, w) /\ Len(w) = Fixed(a)
           /\ Open(a) => /\ Fixed(a) >= 1 => \E w \in Topics : IsWitness(a, w) /\ Len(w) = Fixed(a)
                         /\ \E w \in Topics : IsWitness(a, w) /\ Len(w) = Fixed(a) + 1
                         /\ \E w \in Topics : IsWitness(a, w) /\ Len(w) = Fixed(a) + 2
<1> DEFINE F == Fixed(a)
           z == [i \in 1 .. F |-> IF a[i] = "+" THEN OtherLevel ELSE a[i]]
           z1 == Append(z, OtherLevel)
           z2 == z \o <<OtherLevel, OtherLevel>>
<1>0. WellFormed(a)
  BY ActualFilters
<1>1. a \in Seq(Levels) /\ Len(a) \in Nat \ {0} /\ F \in 0 .. Len(a) /\ F \in Nat
  BY <1>0, FilterLevels
<1>2. OtherLevel \in Levels
  BY TopicAssumption
<1>3. z \in Seq(Levels) /\ Len(z) = F /\ \A i \in 1 .. F : z[i] = IF a[i] = "+" THEN OtherLevel ELSE a[i]
  <2>1. \A i \in 1 .. F : a[i] \in Levels
    BY <1>1
  <2>2. \A i \in 1 .. F : (IF a[i] = "+" THEN OtherLevel ELSE a[i]) \in Levels
    BY <1>2, <2>1
  <2> HIDE DEF F
  <2> QED
    BY <1>1, <2>2
<1>4. Witnesses(a) = IF Open(a) THEN {z, z1, z2} \ {<<>>} ELSE {z}
  BY DEF Witnesses
<1>5. Witnesses(a) \subseteq Topics
  BY TopicAssumption
<1> HIDE DEF z
<1>6. z1 \in Seq(Levels) /\ Len(z1) = F + 1 /\ z1[F + 1] = OtherLevel /\ \A i \in 1 .. F : z1[i] = z[i]
  BY <1>1, <1>2, <1>3
<1>7. z2 \in Seq(Levels) /\ Len(z2) = F + 2 /\ z2[F + 1] = OtherLevel /\ z2[F + 2] = OtherLevel
      /\ \A i \in 1 .. F : z2[i] = z[i]
  <2>1. z2 = z \o <<OtherLevel, OtherLevel>>
    OBVIOUS
  <2> HIDE DEF z2
  <2> QED
    BY <1>2, <1>3, <2>1, AppendTwo
<1> HIDE DEF z1, z2
<1>8. ASSUME F >= 1 PROVE IsWitness(a, z)
  BY <1>1, <1>3, <1>8 DEF IsWitness
<1>9. IsWitness(a, z1)
  <2>1. \A i \in F + 1 .. F + 1 : i = F + 1
    BY <1>1
  <2> QED
    BY <1>1, <1>3, <1>6, <2>1 DEF IsWitness
<1>10. IsWitness(a, z2)
  <2>1. \A i \in F + 1 .. F + 2 : i = F + 1 \/ i = F + 2
    BY <1>1
  <2> QED
    BY <1>1, <1>3, <1>7, <2>1 DEF IsWitness
<1>11. CASE ~ Open(a)
  <2>1. F >= 1
    BY <1>0, <1>1, <1>11, FilterLevels
  <2> QED
    BY <1>3, <1>4, <1>5, <1>8, <1>11, <2>1
<1>12. CASE Open(a)
  <2>1. z1 # <<>> /\ z2 # <<>>
    BY <1>1, <1>6, <1>7
  <2>2. z1 \in Topics /\ z2 \in Topics
    BY <1>4, <1>5, <1>12, <2>1
  <2>3. ASSUME F >= 1 PROVE z \in Topics
    <3>1. z # <<>>
      BY <1>1, <1>3, <2>3
    <3> QED
      BY <1>4, <1>5, <1>12, <3>1
  <2> QED
    BY <1>3, <1>6, <1>7, <1>8, <1>9, <1>10, <1>12, <2>2, <2>3
<1> QED
  BY <1>11, <1>12

LEMMA WitnessMatches ==
    ASSUME NEW a, WellFormed(a), NEW w, IsWitness(a, w), ~ Open(a) => Len(w) = Fixed(a)
    PROVE  MqttMatches(a, w)
<1>1. /\ a \in Seq(Levels) /\ Len(a) \in Nat \ {0} /\ Fixed(a) \in 0 .. Len(a) /\ Len(w) \in Nat \ {0}
      /\ w \in Seq(Levels)
  BY FilterLevels DEF IsWitness
<1>2. IF Open(a) THEN Len(w) >= Fixed(a) ELSE Len(w) = Fixed(a)
  BY DEF IsWitness
<1>3. \A i \in 1 .. Fixed(a) : a[i] \in {"+", w[i]}
  BY DEF IsWitness
<1>4. ASSUME StartsWithDollar(w), a[1] \in {"+", "#"} PROVE FALSE
  <2>1. OtherLevel \notin DollarLevels
    BY TopicAssumption
  <2>2. w[1] = OtherLevel
    <3>1. CASE Fixed(a) >= 1
      <4>1. 1 \in 1 .. Fixed(a) /\ a[1] # "#"
        BY <1>1, <3>1, FilterLevels
      <4> QED
        BY <1>4, <4>1 DEF IsWitness
    <3>2. CASE Fixed(a) = 0
      BY <1>1, <3>2 DEF IsWitness
    <3> QED
      BY <1>1, <3>1, <3>2
  <2> QED
    BY <1>4, <2>1, <2>2 DEF StartsWithDollar
<1> QED
  BY <1>2, <1>3, <1>4 DEF MqttMatches

\* The rules of ranking respect what the filters match.
LEMMA NarrowerRank ==
    ASSUME NEW f \in Filters, NEW g \in Filters, Narrower[f][g]
    PROVE  TupleLess(FilterSpecificity(ActualFilter(f)), FilterSpecificity(ActualFilter(g)))
<1> DEFINE a == ActualFilter(f)
           b == ActualFilter(g)
           c == OtherLevel
<1>1. /\ \A t \in Topics : MqttMatches(a, t) => MqttMatches(b, t)
      /\ \E t \in Topics : MqttMatches(b, t) /\ ~ MqttMatches(a, t)
  BY DEF Narrower
<1>2. WellFormed(a) /\ WellFormed(b)
  BY ActualFilters
<1>3. (\A i \in 1 .. Len(a) : a[i] # c) /\ (\A i \in 1 .. Len(b) : b[i] # c)
  BY TopicAssumption, ActualLevels
<1>4. \A t \in Topics : t \in Seq(Levels) /\ t # <<>>
  BY TopicAssumption
<1>5. /\ ~ Open(a) => \E w \in Topics : IsWitness(a, w) /\ Len(w) = Fixed(a)
      /\ Open(a) => /\ Fixed(a) >= 1 => \E w \in Topics : IsWitness(a, w) /\ Len(w) = Fixed(a)
                    /\ \E w \in Topics : IsWitness(a, w) /\ Len(w) = Fixed(a) + 1
                    /\ \E w \in Topics : IsWitness(a, w) /\ Len(w) = Fixed(a) + 2
  BY WitnessesAre
<1> HIDE DEF a, b, c
<1>6. a # b
  BY <1>1
<1>7. /\ Len(a) \in Nat \ {0} /\ Len(b) \in Nat \ {0} /\ Fixed(a) \in 0 .. Len(a) /\ Fixed(b) \in 0 .. Len(b)
      /\ Open(a) => Fixed(a) = Len(a) - 1 /\ a[Len(a)] = "#"
      /\ ~ Open(a) => Fixed(a) = Len(a)
      /\ Open(b) => Fixed(b) = Len(b) - 1 /\ b[Len(b)] = "#"
      /\ ~ Open(b) => Fixed(b) = Len(b)
      /\ \A i \in 1 .. Fixed(a) : a[i] # "#"
  BY <1>2, FilterLevels
<1>8. ASSUME NEW w \in Topics, IsWitness(a, w), ~ Open(a) => Len(w) = Fixed(a)
      PROVE  /\ MqttMatches(b, w)
             /\ IF Open(b) THEN Len(w) >= Fixed(b) ELSE Len(w) = Fixed(b)
             /\ \A i \in 1 .. Fixed(b) : i <= Fixed(a) => a[i] = b[i] \/ SegmentRank(a[i]) < SegmentRank(b[i])
  <2>1. MqttMatches(b, w)
    BY <1>1, <1>2, <1>8, WitnessMatches
  <2>2. \A i \in 1 .. Fixed(a) : w[i] = IF a[i] = "+" THEN c ELSE a[i]
    BY <1>8 DEF IsWitness, c
  <2>3. w \in Seq(Levels)
    BY <1>4
  <2>4. \A i \in 1 .. Fixed(b) : i <= Fixed(a) => a[i] = b[i] \/ SegmentRank(a[i]) < SegmentRank(b[i])
    BY <1>2, <1>3, <2>1, <2>2, <2>3, WitnessLevels
  <2>5. IF Open(b) THEN Len(w) >= Fixed(b) ELSE Len(w) = Fixed(b)
    BY <2>1 DEF MqttMatches
  <2> QED
    BY <2>1, <2>4, <2>5
<1>9. ASSUME Fixed(b) <= Fixed(a), Open(b) \/ Len(b) = Len(a),
             \A i \in 1 .. Fixed(b) : i <= Fixed(a) => a[i] = b[i] \/ SegmentRank(a[i]) < SegmentRank(b[i])
      PROVE  TupleLess(FilterSpecificity(a), FilterSpecificity(b))
  <2>1. Len(b) <= Len(a) + 1
    BY <1>7, <1>9
  <2>2. ASSUME NEW i \in 1 .. Len(b), i <= Len(a)
        PROVE  a[i] = b[i] \/ SegmentRank(a[i]) < SegmentRank(b[i])
    <3>1. CASE i <= Fixed(b)
      BY <1>7, <1>9, <3>1
    <3>2. CASE ~ (i <= Fixed(b))
      <4>1. Open(b) /\ i = Len(b) /\ b[i] = "#"
        BY <1>7, <3>2
      <4>2. CASE a[i] = "#"
        BY <4>1, <4>2
      <4>3. CASE a[i] # "#"
        <5>1. SegmentRank(b[i]) = 2 /\ SegmentRank(a[i]) \in {0, 1}
          BY <4>1, <4>3 DEF SegmentRank
        <5> QED
          BY <5>1
      <4> QED
        BY <4>2, <4>3
    <3> QED
      BY <3>1, <3>2
  <2>3. ASSUME Len(b) < Len(a) PROVE a[Len(b)] # b[Len(b)]
    <3>1. Open(b) /\ Len(b) \in 1 .. Fixed(a)
      BY <1>7, <1>9, <2>3
    <3> QED
      BY <1>7, <3>1
  <2> QED
    BY <1>2, <1>6, <2>1, <2>2, <2>3, RankLess
<1>10. CASE ~ Open(a)
  <2>1. PICK w \in Topics : IsWitness(a, w) /\ Len(w) = Fixed(a)
    BY <1>5, <1>10
  <2>2. /\ IF Open(b) THEN Len(w) >= Fixed(b) ELSE Len(w) = Fixed(b)
        /\ \A i \in 1 .. Fixed(b) : i <= Fixed(a) => a[i] = b[i] \/ SegmentRank(a[i]) < SegmentRank(b[i])
    BY <1>8, <2>1
  <2>3. Fixed(b) <= Fixed(a) /\ (Open(b) \/ Len(b) = Len(a))
    BY <1>7, <1>10, <2>1, <2>2
  <2> QED
    BY <1>9, <2>2, <2>3 DEF a, b
<1>11. CASE Open(a)
  <2>1. PICK w1 \in Topics : IsWitness(a, w1) /\ Len(w1) = Fixed(a) + 1
    BY <1>5, <1>11
  <2>2. PICK w2 \in Topics : IsWitness(a, w2) /\ Len(w2) = Fixed(a) + 2
    BY <1>5, <1>11
  <2>3. /\ MqttMatches(b, w1)
        /\ IF Open(b) THEN Len(w1) >= Fixed(b) ELSE Len(w1) = Fixed(b)
        /\ IF Open(b) THEN Len(w2) >= Fixed(b) ELSE Len(w2) = Fixed(b)
        /\ \A i \in 1 .. Fixed(b) : i <= Fixed(a) => a[i] = b[i] \/ SegmentRank(a[i]) < SegmentRank(b[i])
    BY <1>8, <1>11, <2>1, <2>2
  <2>4. Open(b) /\ Fixed(b) <= Fixed(a) + 1
    BY <1>7, <2>1, <2>2, <2>3
  <2>5. ASSUME Fixed(b) = Fixed(a) + 1 PROVE FALSE
    <3>1. CASE Fixed(a) >= 1
      <4>1. PICK w \in Topics : IsWitness(a, w) /\ Len(w) = Fixed(a)
        BY <1>5, <1>11, <3>1
      <4>2. Len(w) >= Fixed(b)
        BY <1>8, <1>11, <2>4, <4>1
      <4> QED
        BY <1>7, <2>5, <4>1, <4>2
    <3>2. CASE Fixed(a) = 0
      <4>1. Len(a) = 1 /\ a[1] = "#" /\ Fixed(b) = 1 /\ 1 \in 1 .. Len(b)
        <5>1. Len(a) = 1 /\ a[Len(a)] = "#"
          BY <1>7, <1>11, <3>2
        <5>2. Fixed(b) = 1
          BY <2>5, <3>2
        <5>3. 1 \in 1 .. Len(b)
          BY <1>7
        <5> QED
          BY <5>1, <5>2, <5>3
      <4>2. b[1] = "+"
        <5>1. w1[1] = c
          BY <2>1, <3>2 DEF IsWitness, c
        <5>2. b[1] \in {"+", w1[1]} /\ b[1] # c
          BY <1>3, <2>3, <4>1 DEF MqttMatches
        <5> QED
          BY <5>1, <5>2
      <4>3. PICK t \in Topics : MqttMatches(b, t) /\ ~ MqttMatches(a, t)
        BY <1>1
      <4>4. ~ StartsWithDollar(t)
        BY <4>2, <4>3 DEF MqttMatches
      <4>5. Len(t) >= 0 /\ 1 .. 0 = {}
        BY <1>4
      <4>6. MqttMatches(a, t)
        BY <1>11, <3>2, <4>4, <4>5 DEF MqttMatches
      <4> QED
        BY <4>3, <4>6
    <3> QED
      BY <1>7, <3>1, <3>2
  <2>6. Fixed(b) <= Fixed(a)
    BY <1>7, <2>4, <2>5
  <2> QED
    BY <1>9, <2>3, <2>4, <2>6 DEF a, b
<1> QED
  BY <1>10, <1>11

-----------------------------------------------------------------------------
(* select() and select_by_identifier().                                    *)

\* Those that no other is more specific than.
Best(S) == {x \in S : \A other \in S : ~ TupleLess(Specificity(other), Specificity(x))}

LEMMA BestExists ==
    ASSUME NEW s, NEW S, OnceEach(s, S), S # {}
    PROVE  Best(S) # {}
<1> DEFINE w == SortedByRank(s)
<1>1. s \in Seq(Items) /\ ToSet(s) = S
  BY DEF OnceEach
<1>2. /\ w \in Seq(Items) /\ ToSet(w) = S
      /\ \A m, n \in DOMAIN w : m < n => ~ TupleLess(Specificity(w[n]), Specificity(w[m]))
  BY <1>1, ItemRank, SortedFacts
<1> HIDE DEF w
<1>3. w # <<>>
  BY <1>2 DEF ToSet
<1>4. 1 \in DOMAIN w /\ w[1] \in Items /\ \A n \in DOMAIN w : n \in Nat /\ (n = 1 \/ 1 < n)
  BY <1>2, <1>3
<1>5. w[1] \in S /\ \A x \in S : \E n \in DOMAIN w : w[n] = x
  BY <1>2, <1>4 DEF ToSet
<1>6. ASSUME NEW x \in S PROVE ~ TupleLess(Specificity(x), Specificity(w[1]))
  <2>1. PICK n \in DOMAIN w : w[n] = x
    BY <1>5
  <2>2. CASE n = 1
    BY <1>4, <2>1, <2>2, ItemRank, TupleIrreflexive
  <2>3. CASE 1 < n
    BY <1>2, <1>4, <2>1, <2>3
  <2> QED
    BY <1>4, <2>2, <2>3
<1> QED
  BY <1>5, <1>6 DEF Best

\* _select_from, given its candidates.
LEMMA SelectFromFacts ==
    ASSUME NEW s, NEW S, OnceEach(s, S), NEW chosen, chosen = SelectFrom(s)
    PROVE  /\ chosen.missing = FALSE
           /\ S = {} => chosen.recipient = None
           /\ S # {} => /\ chosen.recipient \in Best(S)
                        /\ chosen.tied \subseteq Best(S)
<1> DEFINE winners == Where(s, Best(S))
<1>1. s \in Seq(Items) /\ ToSet(s) = S
  BY DEF OnceEach
<1>2. /\ chosen.missing = FALSE
      /\ chosen.recipient = IF s = <<>> THEN None ELSE winners[1]
      /\ chosen.tied = IF Len(winners) > 1 THEN ToSet(winners) ELSE {}
  BY <1>1 DEF SelectFrom, Best
<1>3. winners \in Seq(Items) /\ ToSet(winners) = ToSet(s) \cap Best(S)
  BY <1>1, WhereFacts
<1>4. ToSet(winners) = Best(S)
  BY <1>1, <1>3 DEF Best
<1> HIDE DEF winners
<1>5. CASE S = {}
  <2>1. s = <<>>
    BY <1>1, <1>5, NonEmpty
  <2> QED
    BY <1>2, <1>5, <2>1
<1>6. CASE S # {}
  <2>1. s # <<>>
    BY <1>1, <1>6 DEF ToSet
  <2>2. winners # <<>>
    BY <1>4, <1>6, BestExists DEF ToSet
  <2>3. winners[1] \in Best(S)
    BY <1>3, <1>4, <2>2 DEF ToSet
  <2> QED
    BY <1>2, <1>4, <1>6, <2>1, <2>3
<1> QED
  BY <1>5, <1>6

\* The best of the candidates: never more general than another, no other filter beside it.
LEMMA BestFacts ==
    ASSUME NEW S, S \subseteq Items, NEW x \in Best(S)
    PROVE  /\ x \in S /\ x # None
           /\ \A other \in S : ~ Narrower[other.filter][x.filter]
           /\ \A t \in Topics, other \in Best(S) :
                 (\A y \in S : MqttMatches(ActualFilter(y.filter), t)) =>
                     ActualFilter(other.filter) = ActualFilter(x.filter)
<1>1. x \in S /\ x \in Items /\ \A other \in S : ~ TupleLess(Specificity(other), Specificity(x))
  BY DEF Best
<1>2. x # None
  BY <1>1, FilterAssumption DEF Items, Ids
<1>3. ASSUME NEW other \in S, Narrower[other.filter][x.filter] PROVE FALSE
  <2>1. other.filter \in Filters /\ x.filter \in Filters
    BY <1>1 DEF Items
  <2>2. TupleLess(Specificity(other), Specificity(x))
    BY <1>3, <2>1, NarrowerRank DEF Specificity
  <2> QED
    BY <1>1, <2>2
<1>4. ASSUME NEW t \in Topics, NEW other \in Best(S), \A y \in S : MqttMatches(ActualFilter(y.filter), t)
      PROVE  ActualFilter(other.filter) = ActualFilter(x.filter)
  <2>1. other \in S /\ other \in Items /\ ~ TupleLess(Specificity(x), Specificity(other))
    BY <1>1 DEF Best
  <2>2. ~ TupleLess(Specificity(other), Specificity(x))
    BY <1>1, <2>1
  <2>3. Specificity(other) = Specificity(x)
    BY <1>1, <2>1, <2>2, ItemRank, TupleTotal
  <2>4. WellFormed(ActualFilter(other.filter)) /\ WellFormed(ActualFilter(x.filter))
    BY <1>1, <2>1, ActualFilters DEF Items
  <2>5. MqttMatches(ActualFilter(other.filter), t) /\ MqttMatches(ActualFilter(x.filter), t)
    BY <1>1, <1>4, <2>1
  <2>6. FilterSpecificity(ActualFilter(other.filter)) = FilterSpecificity(ActualFilter(x.filter))
    BY <2>3 DEF Specificity
  <2>7. t \in Seq(Levels)
    BY TopicAssumption
  <2> QED
    BY <2>4, <2>5, <2>6, <2>7, SameRank
<1> QED
  BY <1>1, <1>2, <1>3, <1>4

\* The filters of an identifier are the subscriptions that carry it.
LEMMA IdentifiedItems ==
    ASSUME IndexOK(index), NEW id \in DOMAIN index.identified,
           NEW s, s = [n \in DOMAIN index.identified[id] |-> Item(index.identified[id][n], id)]
    PROVE  OnceEach(s, {x \in Subscribed : x.id = id})
<1> DEFINE entries == index.entries
           fs == index.identified[id]
           M == {x \in Subscribed : x.id = id}
<1>1. /\ fs \in Seq(Filters) /\ IsInjective(fs)
      /\ \A f \in Filters : f \in ToSet(fs) <=> (f \in DOMAIN entries /\ entries[f] = id)
      /\ id \in Ids
  BY DEF IndexOK, IdentifiedOK, EntriesOK
<1>2. s = [n \in DOMAIN fs |-> Item(fs[n], id)]
  OBVIOUS
<1> HIDE DEF fs, entries
<1>3. /\ DOMAIN fs = 1 .. Len(fs) /\ Len(fs) \in Nat
      /\ \A n \in DOMAIN fs : fs[n] \in Filters /\ Item(fs[n], id) \in Items
  BY <1>1 DEF Item, Items
<1>4. s \in Seq(Items)
  BY <1>2, <1>3
<1>5. DOMAIN s = DOMAIN fs /\ \A n \in DOMAIN fs : s[n] = Item(fs[n], id)
  BY <1>2
<1>6. IsInjective(s)
  <2>1. \A m, n \in DOMAIN fs : Item(fs[m], id) = Item(fs[n], id) => fs[m] = fs[n]
    BY DEF Item
  <2>2. \A m, n \in DOMAIN fs : fs[m] = fs[n] => m = n
    BY <1>1 DEF IsInjective
  <2>3. ASSUME NEW m \in DOMAIN s, NEW n \in DOMAIN s, s[m] = s[n] PROVE m = n
    BY <1>5, <2>1, <2>2, <2>3
  <2> QED
    BY <2>3 DEF IsInjective
<1>7. ASSUME NEW n \in DOMAIN s PROVE s[n] \in M
  <2>1. fs[n] \in DOMAIN entries /\ entries[fs[n]] = id
    BY <1>1, <1>3, <1>5 DEF ToSet
  <2>2. s[n] = Item(fs[n], entries[fs[n]]) /\ s[n].id = id
    BY <1>5, <2>1 DEF Item
  <2> QED
    BY <2>1, <2>2 DEF Subscribed, entries
<1>8. ASSUME NEW x \in M PROVE \E n \in DOMAIN s : s[n] = x
  <2>1. x \in Items /\ Holds(entries, x) /\ x.id = id
    BY SubscribedFacts DEF entries
  <2>2. x.filter \in Filters /\ x.filter \in DOMAIN entries /\ entries[x.filter] = id
    BY <2>1 DEF Items, Holds
  <2>3. PICK n \in DOMAIN fs : fs[n] = x.filter
    BY <1>1, <2>2 DEF ToSet
  <2>4. Item(x.filter, id) = x
    BY <2>1 DEF Item, Items
  <2> QED
    BY <1>5, <2>3, <2>4
<1>9. ToSet(s) = M
  BY <1>7, <1>8 DEF ToSet
<1> QED
  BY <1>4, <1>6, <1>9 DEF OnceEach

\* What SelectionIsBest says of one choice.
RightChoice(t, id, chosen) ==
    LET known == id # None /\ \E item \in Subscribed : item.id = id
        meant == {item \in Subscribed : known => item.id = id}
        fitting == {item \in meant : MqttMatches(ActualFilter(item.filter), t)}
        winner == chosen.recipient
    IN  /\ chosen.missing <=> id # None /\ ~ known
        /\ winner = None <=> fitting = {} /\ ~ known
        /\ winner # None =>
              /\ winner \in IF fitting # {} THEN fitting ELSE meant
              /\ \A other \in fitting : ~ Narrower[other.filter][winner.filter]
              /\ fitting # {} =>
                    \A other \in chosen.tied :
                        ActualFilter(other.filter) = ActualFilter(winner.filter)

\* Without a known identifier the filters that match decide.
LEMMA ChoiceByFilter ==
    ASSUME IndexOK(index), NEW t \in Topics, NEW id, ~ (id # None /\ \E x \in Subscribed : x.id = id),
           NEW chosen, chosen.missing <=> id # None,
           chosen.recipient = Select(t).recipient, chosen.tied = Select(t).tied
    PROVE  RightChoice(t, id, chosen)
<1> DEFINE S == Fitting(Subscribed, t)
           known == id # None /\ \E item \in Subscribed : item.id = id
           meant == {item \in Subscribed : known => item.id = id}
           fitting == {item \in meant : MqttMatches(ActualFilter(item.filter), t)}
<1>1. ~ known /\ meant = Subscribed /\ fitting = S
  BY DEF Fitting
<1>2. OnceEach(Match(t), S) /\ Select(t) = SelectFrom(Match(t))
  BY MatchFacts DEF Select
<1>3. S \subseteq Items
  BY SubscribedFacts DEF Fitting
<1>4. \A y \in S : MqttMatches(ActualFilter(y.filter), t)
  BY DEF Fitting
<1> HIDE DEF S
<1>5. /\ S = {} => Select(t).recipient = None
      /\ S # {} => Select(t).recipient \in Best(S) /\ Select(t).tied \subseteq Best(S)
  BY <1>2, SelectFromFacts
<1>6. CASE S = {}
  <2>1. chosen.recipient = None
    BY <1>5, <1>6
  <2> QED
    BY <1>1, <1>6, <2>1 DEF RightChoice
<1>7. CASE S # {}
  <2>1. chosen.recipient \in Best(S) /\ chosen.tied \subseteq Best(S)
    BY <1>5, <1>7
  <2>2. /\ chosen.recipient \in S /\ chosen.recipient # None
        /\ \A other \in S : ~ Narrower[other.filter][chosen.recipient.filter]
        /\ \A other \in chosen.tied : ActualFilter(other.filter) = ActualFilter(chosen.recipient.filter)
    BY <1>3, <1>4, <2>1, BestFacts
  <2> QED
    BY <1>1, <1>7, <2>2 DEF RightChoice
<1> QED
  BY <1>6, <1>7

\* A known identifier decides, among its filters that match if there are any.
LEMMA ChoiceByIdentifier ==
    ASSUME IndexOK(index), NEW t \in Topics, NEW id \in DOMAIN index.identified, id # None,
           \E x \in Subscribed : x.id = id,
           NEW chosen, chosen = SelectByIdentifier(t, id)
    PROVE  RightChoice(t, id, chosen)
<1> DEFINE M == {x \in Subscribed : x.id = id}
           S == Fitting(M, t)
           all == [n \in DOMAIN index.identified[id] |-> Item(index.identified[id][n], id)]
           some == Matching(all, t)
           known == id # None /\ \E item \in Subscribed : item.id = id
           meant == {item \in Subscribed : known => item.id = id}
           fitting == {item \in meant : MqttMatches(ActualFilter(item.filter), t)}
<1>1. known /\ meant = M /\ fitting = S
  BY DEF Fitting
<1>2. chosen = SelectFrom(IF some # <<>> THEN some ELSE all)
  BY DEF SelectByIdentifier
<1>3. OnceEach(all, M)
  BY IdentifiedItems
<1> HIDE DEF all
<1>4. t \in Seq(Levels) /\ t # <<>>
  BY TopicAssumption
<1>5. M \subseteq Items /\ M # {} /\ S \subseteq Items /\ S \subseteq M
  BY SubscribedFacts DEF Fitting
<1>6. \A y \in S : MqttMatches(ActualFilter(y.filter), t)
  BY DEF Fitting
<1> HIDE DEF M
<1>7. OnceEach(some, S)
  BY <1>3, <1>4, MatchingFacts DEF Fitting
<1> HIDE DEF S, some
<1>8. some # <<>> <=> S # {}
  BY <1>5, <1>7, NonEmpty DEF OnceEach
<1>9. CASE S = {}
  <2>1. chosen.missing = FALSE /\ chosen.recipient \in Best(M)
    BY <1>2, <1>3, <1>5, <1>8, <1>9, SelectFromFacts
  <2>2. chosen.recipient \in M /\ chosen.recipient # None
    BY <1>5, <2>1, BestFacts
  <2> QED
    BY <1>1, <1>9, <2>1, <2>2 DEF RightChoice
<1>10. CASE S # {}
  <2>1. chosen.missing = FALSE /\ chosen.recipient \in Best(S) /\ chosen.tied \subseteq Best(S)
    BY <1>2, <1>7, <1>8, <1>10, SelectFromFacts
  <2>2. /\ chosen.recipient \in S /\ chosen.recipient # None
        /\ \A other \in S : ~ Narrower[other.filter][chosen.recipient.filter]
        /\ \A other \in chosen.tied : ActualFilter(other.filter) = ActualFilter(chosen.recipient.filter)
    BY <1>5, <1>6, <2>1, BestFacts
  <2> QED
    BY <1>1, <1>10, <2>1, <2>2 DEF RightChoice
<1> QED
  BY <1>9, <1>10

(***************************************************************************)
(* Whatever was subscribed before, the recipient of a PUBLISH is the right *)
(* one: the subscription whose identifier the broker names, and never a    *)
(* more general filter when a narrower one matches; ties are between       *)
(* subscriptions to one filter only (subscription_index.py:117, :159).     *)
(***************************************************************************)
THEOREM SelectsTheBest == Spec => []SelectionIsBest
<1>1. IndexInv => SelectionIsBest
  <2> SUFFICES ASSUME IndexOK(index), NEW t \in Topics, NEW id \in Identifiers \cup {None}
               PROVE  RightChoice(t, id, SelectSubscription(t, id))
    BY DEF IndexInv, SelectionIsBest, RightChoice
  <2>1. id \in DOMAIN index.identified <=> (id # None /\ \E x \in Subscribed : x.id = id)
    <3>1. \A f \in DOMAIN index.entries : Item(f, index.entries[f]).id = index.entries[f]
      BY DEF Item
    <3>2. (\E x \in Subscribed : x.id = id) <=> \E f \in DOMAIN index.entries : index.entries[f] = id
      BY <3>1 DEF Subscribed
    <3> QED
      BY <3>2 DEF IndexOK, IdentifiedOK
  <2>2. Select(t).missing = FALSE
    BY MatchFacts, SelectFromFacts DEF Select
  <2>3. CASE id = None
    <3>1. SelectSubscription(t, id) = Select(t)
      BY <2>3 DEF SelectSubscription
    <3> QED
      BY <2>2, <2>3, <3>1, ChoiceByFilter
  <2>4. CASE id # None /\ id \notin DOMAIN index.identified
    <3> DEFINE chosen == SelectSubscription(t, id)
    <3>1. chosen = [Select(t) EXCEPT !.missing = TRUE]
      BY <2>4 DEF SelectSubscription, SelectByIdentifier
    <3>2. \E r, u, m : Select(t) = [recipient |-> r, tied |-> u, missing |-> m]
      BY DEF Select, SelectFrom
    <3> HIDE DEF chosen
    <3>3. chosen.missing = TRUE /\ chosen.recipient = Select(t).recipient /\ chosen.tied = Select(t).tied
      BY <3>1, <3>2
    <3>4. RightChoice(t, id, chosen)
      BY <2>1, <2>4, <3>3, ChoiceByFilter
    <3> QED
      BY <3>4 DEF chosen
  <2>5. CASE id # None /\ id \in DOMAIN index.identified
    <3>1. SelectSubscription(t, id) = SelectByIdentifier(t, id)
      BY <2>5 DEF SelectSubscription
    <3> QED
      BY <2>1, <2>5, <3>1, ChoiceByIdentifier
  <2> QED
    BY <2>3, <2>4, <2>5
<1> QED
  BY <1>1, IndexInvariant, PTL
=============================================================================
