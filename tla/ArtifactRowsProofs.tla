-------------------------- MODULE ArtifactRowsProofs --------------------------
(* What the tables, the reports and the database of a finished artifact contain,
   and what the final verifier makes of them, for every set of source rows and
   every bound.

   The first part is about order: in a finite set with a total order every
   position is taken, so that sorting moves rows and loses none.  The second part
   shows that RowsInv is inductive, and the third that it implies the properties. *)
EXTENDS ArtifactRows, FiniteSetTheorems, SequenceTheorems, WellFoundedInduction, TLAPS

(***************************************************************************)
(* Order.                                                                  *)
(***************************************************************************)

\* A set of numbers has a least one.
LEMMA Least ==
    ASSUME NEW T \in SUBSET Nat, T # {} PROVE \E m \in T : \A k \in T : m <= k
<1>1. PICK x \in T : \A y \in T : ~ (<<y, x>> \in OpToRel(<, Nat))
  BY WFMin, NatLessThanWellFounded
<1>2. \A y \in T : ~(y < x)  BY <1>1 DEF OpToRel
<1> QED BY <1>2

TotalOrder(S, R) ==
    /\ \A x \in S : <<x, x>> \notin R
    /\ \A x, y, z \in S : <<x, y>> \in R /\ <<y, z>> \in R => <<x, z>> \in R
    /\ \A x, y \in S : x # y => <<x, y>> \in R \/ <<y, x>> \in R
Position(S, R, x) == Cardinality({y \in S : <<y, x>> \in R})

\* In a finite total order exactly one element stands at each position, counted
\* by the elements before it.
LEMMA Positions ==
    ASSUME NEW S, IsFiniteSet(S), NEW R, TotalOrder(S, R)
    PROVE  /\ Cardinality(S) \in Nat
           /\ \A x \in S : Position(S, R, x) \in 0..(Cardinality(S) - 1)
           /\ \A x, y \in S : <<x, y>> \in R => Position(S, R, x) < Position(S, R, y)
           /\ \A p \in 0..(Cardinality(S) - 1) : \E x \in S : Position(S, R, x) = p
<1> USE DEF TotalOrder
<1> DEFINE n == Cardinality(S)
           Below(x) == {y \in S : <<y, x>> \in R}
           at == [x \in S |-> Cardinality(Below(x))]
<1>1. n \in Nat  BY FS_CardinalityType
<1>2. \A x \in S : IsFiniteSet(Below(x)) /\ Cardinality(Below(x)) \in Nat /\ Cardinality(Below(x)) < n
  <2> SUFFICES ASSUME NEW x \in S
               PROVE  IsFiniteSet(Below(x)) /\ Cardinality(Below(x)) \in Nat /\ Cardinality(Below(x)) < n
    OBVIOUS
  <2>1. Below(x) \in SUBSET S /\ Below(x) # S  OBVIOUS
  <2>2. IsFiniteSet(Below(x)) /\ Cardinality(Below(x)) <= n /\ (n = Cardinality(Below(x)) => S = Below(x))
    BY <2>1, FS_Subset
  <2>3. Cardinality(Below(x)) \in Nat  BY <2>2, FS_CardinalityType
  <2> QED BY <2>1, <2>2, <2>3, <1>1
<1>3. \A x, y \in S : <<x, y>> \in R => Cardinality(Below(x)) < Cardinality(Below(y))
  <2> SUFFICES ASSUME NEW x \in S, NEW y \in S, <<x, y>> \in R
               PROVE  Cardinality(Below(x)) < Cardinality(Below(y))
    OBVIOUS
  <2>1. x \notin Below(x) /\ (Below(x) \cup {x}) \in SUBSET Below(y)  OBVIOUS
  <2>2. Cardinality(Below(x) \cup {x}) = Cardinality(Below(x)) + 1
    BY <2>1, <1>2, FS_AddElement
  <2>3. Cardinality(Below(x) \cup {x}) <= Cardinality(Below(y))
    BY <2>1, <1>2, FS_Subset
  <2>4. Cardinality(Below(x)) \in Nat /\ Cardinality(Below(y)) \in Nat  BY <1>2
  <2> HIDE DEF Below
  <2> QED BY <2>2, <2>3, <2>4
<1>11. \A x \in S : Cardinality(Below(x)) \in 0..(n - 1)
  <2> HIDE DEF Below, n
  <2> QED BY <1>1, <1>2
<1>4. at \in [S -> 0..(n - 1)]
  BY <1>11
<1>5. \A x, y \in S : at[x] = at[y] => x = y
  <2> SUFFICES ASSUME NEW x \in S, NEW y \in S, x # y PROVE at[x] # at[y]
    OBVIOUS
  <2>1. CASE <<x, y>> \in R
    <3>1. at[x] < at[y]  BY <2>1, <1>3
    <3> QED BY <3>1, <1>4
  <2>2. CASE <<y, x>> \in R
    <3>1. at[y] < at[x]  BY <2>2, <1>3
    <3> QED BY <3>1, <1>4
  <2> QED BY <2>1, <2>2
<1>6. at \in Injection(S, 0..(n - 1))
  BY <1>4, <1>5 DEF Injection, IsInjective
<1>7. IsFiniteSet(0..(n - 1)) /\ Cardinality(0..(n - 1)) = n
  <2> HIDE DEF n
  <2>1. 0 \in Int /\ n - 1 \in Int  BY <1>1
  <2>2. IsFiniteSet(0..(n - 1)) /\ Cardinality(0..(n - 1)) = IF 0 > n - 1 THEN 0 ELSE (n - 1) - 0 + 1
    BY <2>1, FS_Interval
  <2> QED BY <1>1, <2>2
<1>8. at \in Surjection(S, 0..(n - 1))
  BY <1>6, <1>7, FS_Injection
<1>9. \A p \in 0..(n - 1) : \E x \in S : at[x] = p
  BY <1>8 DEF Surjection
<1>10. \A p \in 0..(n - 1) : \E x \in S : Cardinality(Below(x)) = p
  BY <1>9
<1> QED BY <1>1, <1>3, <1>10, <1>11 DEF Position

\* Keys of one length are ordered lexicographically.
LEMMA LexOrder ==
    ASSUME NEW w \in Nat, NEW k \in [1..w -> Nat], NEW l \in [1..w -> Nat], NEW m \in [1..w -> Nat]
    PROVE  /\ ~LexLess(k, k)
           /\ LexLess(k, l) /\ LexLess(l, m) => LexLess(k, m)
           /\ k # l => LexLess(k, l) \/ LexLess(l, k)
<1>0. Len(k) = w /\ Len(l) = w /\ Len(m) = w
  <2>1. k \in Seq(Nat) /\ l \in Seq(Nat) /\ m \in Seq(Nat)  BY SeqDef
  <2> QED BY <2>1
<1>1. ~LexLess(k, k)  BY <1>0 DEF LexLess
<1>2. ASSUME LexLess(k, l), LexLess(l, m) PROVE LexLess(k, m)
  <2>1. PICK i \in 1..w : k[i] < l[i] /\ \A j \in 1..(i - 1) : k[j] = l[j]
    BY <1>0, <1>2 DEF LexLess
  <2>2. PICK h \in 1..w : l[h] < m[h] /\ \A j \in 1..(h - 1) : l[j] = m[j]
    BY <1>0, <1>2 DEF LexLess
  <2>3. CASE i <= h
    <3>1. k[i] < m[i] /\ \A j \in 1..(i - 1) : k[j] = m[j]  
      <4>0. k[i] \in Nat /\ l[i] \in Nat /\ m[i] \in Nat  OBVIOUS
      <4>1. i = h \/ i \in 1..(h - 1)  BY <2>3
      <4>2. k[i] < m[i]  BY <4>0, <4>1, <2>1, <2>2
      <4>3. ASSUME NEW j \in 1..(i - 1) PROVE k[j] = m[j]
        <5>1. j \in 1..(h - 1)  BY <2>3
        <5> QED BY <5>1, <2>1, <2>2
      <4> QED BY <4>2, <4>3
    <3> QED BY <3>1, <1>0 DEF LexLess
  <2>4. CASE h < i
    <3>1. k[h] < m[h] /\ \A j \in 1..(h - 1) : k[j] = m[j]  BY <2>1, <2>2, <2>4
    <3> QED BY <3>1, <1>0 DEF LexLess
  <2> QED BY <2>3, <2>4
<1>3. ASSUME k # l PROVE LexLess(k, l) \/ LexLess(l, k)
  <2> DEFINE D == {i \in 1..w : k[i] # l[i]}
  <2>1. D \in SUBSET Nat /\ D # {}
    <3>1. PICK i \in 1..w : k[i] # l[i]  BY <1>3
    <3>2. i \in D  BY <3>1
    <3>3. D \subseteq Nat  OBVIOUS
    <3> HIDE DEF D
    <3> QED BY <3>2, <3>3
  <2>2. PICK i \in D : \A h \in D : i <= h  BY <2>1, Least
  <2>3. \A j \in 1..(i - 1) : k[j] = l[j]  BY <2>2
  <2>4. i \in 1..w /\ (k[i] < l[i] \/ l[i] < k[i])  BY <2>2
  <2> QED BY <2>3, <2>4, <1>0 DEF LexLess
<1> QED BY <1>1, <1>2, <1>3

\* A sequence is a sequence over any set that holds its rows.
LEMMA SeqFacts ==
    ASSUME NEW s, IsSeq(s)
    PROVE  /\ Len(s) \in Nat /\ DOMAIN s = 1..Len(s) /\ \A i \in 1..Len(s) : s[i] \in ToSet(s)
           /\ \A x \in ToSet(s) : \E i \in 1..Len(s) : s[i] = x
<1>1. Len(s) \in Nat /\ DOMAIN s = 1..Len(s)  BY LenProperties DEF IsSeq
<1> QED BY <1>1 DEF ToSet

LEMMA MakeSeq ==
    ASSUME NEW n \in Nat, NEW s, DOMAIN s = 1..n, s = [i \in 1..n |-> s[i]]
    PROVE  IsSeq(s) /\ Len(s) = n
<1>1. s \in [1..n -> ToSet(s)]  BY DEF ToSet
<1>2. s \in Seq(ToSet(s))  BY <1>1, SeqDef
<1> QED BY <1>2, LenProperties DEF IsSeq

LEMMA KeyOrder ==
    ASSUME NEW w \in Nat, NEW x, NEW y, NEW z,
           x.key \in [1..w -> Nat], y.key \in [1..w -> Nat], z.key \in [1..w -> Nat],
           x.row \in Nat, y.row \in Nat, z.row \in Nat
    PROVE  /\ ~ByKey(x, x)
           /\ ByKey(x, y) /\ ByKey(y, z) => ByKey(x, z)
           /\ ByKey(x, y) => ~ByKey(y, x)
           /\ ByKey(x, y) \/ ByKey(y, x) \/ (x.key = y.key /\ x.row = y.row)
<1> DEFINE k == x.key
           l == y.key
           m == z.key
<1>1. /\ ~LexLess(k, k) /\ ~LexLess(l, l)
      /\ LexLess(k, l) /\ LexLess(l, m) => LexLess(k, m)
      /\ LexLess(k, l) /\ LexLess(l, k) => LexLess(k, k)
      /\ k # l => LexLess(k, l) \/ LexLess(l, k)
  <2> HIDE DEF k, l, m
  <2>1. k \in [1..w -> Nat] /\ l \in [1..w -> Nat] /\ m \in [1..w -> Nat]  BY DEF k, l, m
  <2> QED BY <2>1, LexOrder
<1> QED BY <1>1 DEF ByKey

\* Sorting keeps the rows, each as often as it was there, and puts them in order.
LEMMA SortedRows ==
    ASSUME NEW s, IsSeq(s), NEW w \in Nat,
           \A x \in ToSet(s) : x.key \in [1..w -> Nat] /\ x.row \in Nat
    PROVE  /\ IsSeq(Sorted(s)) /\ Len(Sorted(s)) = Len(s) /\ ToSet(Sorted(s)) = ToSet(s)
           /\ IsInjective(s) => IsInjective(Sorted(s))
           /\ \A p, q \in 1..Len(s) : p < q => ~LexLess(Sorted(s)[q].key, Sorted(s)[p].key)
<1> DEFINE n == Len(s)
           S == 1..n
           R == {p \in S \X S : Before(s, p[1], p[2])}
           Below(i) == {j \in S : <<j, i>> \in R}
           at(i) == Cardinality(Below(i))
           Place(p, i) == Cardinality({j \in 1..Len(s) : Before(s, j, i)}) = p - 1
           from == [p \in S |-> CHOOSE i \in 1..Len(s) : Place(p, i)]
<1>1. /\ n \in Nat /\ DOMAIN s = S /\ \A i \in S : s[i] \in ToSet(s)  BY SeqFacts
<1>2. \A i \in S : s[i].key \in [1..w -> Nat] /\ s[i].row \in Nat  BY <1>1
<1>3. \A i, j \in S : <<i, j>> \in R <=> Before(s, i, j)  OBVIOUS
<1>4. \A i \in S : ~Before(s, i, i)
  <2> SUFFICES ASSUME NEW i \in S PROVE ~Before(s, i, i)
    OBVIOUS
  <2>1. ~ByKey(s[i], s[i])  BY <1>2, KeyOrder
  <2>2. ~(i < i)  BY <1>1
  <2> QED BY <2>1, <2>2 DEF Before
<1>5. \A i, j, k \in S : Before(s, i, j) /\ Before(s, j, k) => Before(s, i, k)
  <2> SUFFICES ASSUME NEW i \in S, NEW j \in S, NEW k \in S, Before(s, i, j), Before(s, j, k)
               PROVE  Before(s, i, k)
    OBVIOUS
  <2>1. /\ ByKey(s[i], s[j]) /\ ByKey(s[j], s[k]) => ByKey(s[i], s[k])
        /\ ByKey(s[k], s[i]) /\ ByKey(s[i], s[j]) => ByKey(s[k], s[j])
        /\ ByKey(s[j], s[k]) /\ ByKey(s[k], s[i]) => ByKey(s[j], s[i])
        /\ ByKey(s[i], s[k]) \/ ByKey(s[k], s[i]) \/ (s[i].key = s[k].key /\ s[i].row = s[k].row)
        /\ ByKey(s[i], s[j]) \/ ByKey(s[j], s[i]) \/ (s[i].key = s[j].key /\ s[i].row = s[j].row)
        /\ ByKey(s[j], s[k]) \/ ByKey(s[k], s[j]) \/ (s[j].key = s[k].key /\ s[j].row = s[k].row)
        /\ ByKey(s[i], s[j]) => ~ByKey(s[j], s[i])
        /\ ByKey(s[j], s[k]) => ~ByKey(s[k], s[j])
    <3>1. ByKey(s[i], s[j]) /\ ByKey(s[j], s[k]) => ByKey(s[i], s[k])  BY <1>2, KeyOrder
    <3>2. ByKey(s[k], s[i]) /\ ByKey(s[i], s[j]) => ByKey(s[k], s[j])  BY <1>2, KeyOrder
    <3>3. ByKey(s[j], s[k]) /\ ByKey(s[k], s[i]) => ByKey(s[j], s[i])  BY <1>2, KeyOrder
    <3>4. ByKey(s[i], s[k]) \/ ByKey(s[k], s[i]) \/ (s[i].key = s[k].key /\ s[i].row = s[k].row)
      BY <1>2, KeyOrder
    <3>5. /\ ByKey(s[i], s[j]) \/ ByKey(s[j], s[i]) \/ (s[i].key = s[j].key /\ s[i].row = s[j].row)
          /\ ByKey(s[i], s[j]) => ~ByKey(s[j], s[i])
      BY <1>2, KeyOrder
    <3>6. /\ ByKey(s[j], s[k]) \/ ByKey(s[k], s[j]) \/ (s[j].key = s[k].key /\ s[j].row = s[k].row)
          /\ ByKey(s[j], s[k]) => ~ByKey(s[k], s[j])
      BY <1>2, KeyOrder
    <3> QED BY <3>1, <3>2, <3>3, <3>4, <3>5, <3>6
  <2>2. CASE ByKey(s[i], s[j])
    <3>1. CASE ByKey(s[j], s[k])  BY <2>1, <2>2, <3>1 DEF Before
    <3>2. CASE ~ByKey(s[j], s[k])
      <4>1. s[j].key = s[k].key /\ s[j].row = s[k].row  BY <2>1, <3>2 DEF Before
      <4>2. ByKey(s[i], s[k])  BY <2>2, <4>1 DEF ByKey
      <4> QED BY <4>2 DEF Before
    <3> QED BY <3>1, <3>2
  <2>3. CASE ~ByKey(s[i], s[j])
    <3>1. s[i].key = s[j].key /\ s[i].row = s[j].row /\ i < j  BY <2>1, <2>3 DEF Before
    <3>2. CASE ByKey(s[j], s[k])
      <4>1. ByKey(s[i], s[k])  BY <3>1, <3>2 DEF ByKey
      <4> QED BY <4>1 DEF Before
    <3>3. CASE ~ByKey(s[j], s[k])
      <4>1. s[j].key = s[k].key /\ s[j].row = s[k].row /\ j < k  BY <2>1, <3>3 DEF Before
      <4>2. i < k  BY <1>1, <3>1, <4>1
      <4>3. ~ByKey(s[k], s[k])  BY <1>2, KeyOrder
      <4>4. ~ByKey(s[k], s[i])  BY <3>1, <4>1, <4>3 DEF ByKey
      <4> QED BY <4>2, <4>4 DEF Before
    <3> QED BY <3>2, <3>3
  <2> QED BY <2>2, <2>3
<1>6. \A i, j \in S : i # j => Before(s, i, j) \/ Before(s, j, i)
  <2> SUFFICES ASSUME NEW i \in S, NEW j \in S, i # j PROVE Before(s, i, j) \/ Before(s, j, i)
    OBVIOUS
  <2>1. i < j \/ j < i  BY <1>1
  <2>2. ByKey(s[i], s[j]) => ~ByKey(s[j], s[i])  BY <1>2, KeyOrder
  <2> QED BY <2>1, <2>2 DEF Before
<1>7. IsFiniteSet(S) /\ Cardinality(S) = n
  <2> HIDE DEF n
  <2>1. IsFiniteSet(1..n) /\ Cardinality(1..n) = IF 1 > n THEN 0 ELSE n - 1 + 1
    BY <1>1, FS_Interval
  <2> QED BY <1>1, <2>1 DEF S
<1>8. /\ \A i \in S : at(i) \in 0..(n - 1)
      /\ \A i, j \in S : <<i, j>> \in R => at(i) < at(j)
      /\ \A p \in 0..(n - 1) : \E i \in S : at(i) = p
  <2>1. TotalOrder(S, R)
    <3> HIDE DEF R
    <3> QED BY <1>3, <1>4, <1>5, <1>6 DEF TotalOrder
  <2>2. /\ \A x \in S : Position(S, R, x) \in 0..(Cardinality(S) - 1)
        /\ \A x, y \in S : <<x, y>> \in R => Position(S, R, x) < Position(S, R, y)
        /\ \A p \in 0..(Cardinality(S) - 1) : \E x \in S : Position(S, R, x) = p
    <3> HIDE DEF R, S
    <3> QED BY <2>1, <1>7, Positions
  <2>3. \A i \in S : at(i) = Position(S, R, i)  BY DEF Position
  <2> HIDE DEF R, S, at
  <2> QED BY <2>2, <2>3, <1>7
<1>9. \A i \in S : {j \in 1..Len(s) : Before(s, j, i)} = Below(i)
  BY <1>3
<1>10. \A i, j \in S : at(i) = at(j) => i = j
  <2> SUFFICES ASSUME NEW i \in S, NEW j \in S, i # j PROVE at(i) # at(j)
    OBVIOUS
  <2>1. at(i) < at(j) \/ at(j) < at(i)
    <3> HIDE DEF at, R
    <3> QED BY <1>3, <1>6, <1>8
  <2>2. at(i) \in Int /\ at(j) \in Int
    <3> HIDE DEF at
    <3> QED BY <1>8
  <2> HIDE DEF at
  <2> QED BY <2>1, <2>2
<1>11. \A p \in S : from[p] \in S /\ at(from[p]) = p - 1
  <2> SUFFICES ASSUME NEW p \in S PROVE from[p] \in S /\ at(from[p]) = p - 1
    OBVIOUS
  <2>1. p - 1 \in 0..(n - 1)  BY <1>1
  <2>2. PICK i \in S : at(i) = p - 1
    <3> HIDE DEF at
    <3> QED BY <2>1, <1>8
  <2>3. Place(p, i)  BY <2>2, <1>9
  <2>4. from[p] \in 1..Len(s) /\ Place(p, from[p])
    <3> HIDE DEF Place
    <3> QED BY <2>3
  <2> QED BY <2>4, <1>9
<1>12. Sorted(s) = [p \in S |-> s[from[p]]]
  BY DEF Sorted
<1> HIDE DEF from, at, Below, R
<1>13. \A i \in S : \E p \in S : from[p] = i
  <2> SUFFICES ASSUME NEW i \in S PROVE \E p \in S : from[p] = i
    OBVIOUS
  <2>1. at(i) + 1 \in S /\ (at(i) + 1) - 1 = at(i)  BY <1>1, <1>8
  <2>2. from[at(i) + 1] = i  BY <2>1, <1>10, <1>11
  <2> QED BY <2>1, <2>2
<1>14. IsSeq(Sorted(s)) /\ Len(Sorted(s)) = n
  BY <1>1, <1>12, MakeSeq
<1>15. DOMAIN Sorted(s) = S /\ \A p \in S : Sorted(s)[p] = s[from[p]]
  BY <1>12
<1>16. ToSet(Sorted(s)) = ToSet(s)
  <2>0. \A p \in S : Sorted(s)[p] \in ToSet(Sorted(s))  BY <1>14, SeqFacts
  <2>1. ASSUME NEW x \in ToSet(s) PROVE x \in ToSet(Sorted(s))
    <3>1. PICK i \in S : s[i] = x  BY SeqFacts
    <3>2. PICK p \in S : from[p] = i  BY <1>13
    <3> QED BY <3>1, <3>2, <2>0, <1>15
  <2>2. ASSUME NEW x \in ToSet(Sorted(s)) PROVE x \in ToSet(s)
    <3>1. PICK p \in S : Sorted(s)[p] = x  BY <1>14, SeqFacts
    <3> QED BY <3>1, <1>1, <1>11, <1>15
  <2> QED BY <2>1, <2>2
<1>17. ASSUME IsInjective(s) PROVE IsInjective(Sorted(s))
  <2>1. ASSUME NEW p \in S, NEW q \in S, Sorted(s)[p] = Sorted(s)[q] PROVE p = q
    <3>1. s[from[p]] = s[from[q]] /\ from[p] \in S /\ from[q] \in S  BY <2>1, <1>11, <1>15
    <3>2. from[p] = from[q]  BY <3>1, <1>1, <1>17 DEF IsInjective
    <3>3. p - 1 = q - 1  BY <3>2, <1>11
    <3> QED BY <3>3, <1>1
  <2> QED BY <2>1, <1>15 DEF IsInjective
<1>18. ASSUME NEW p \in S, NEW q \in S, p < q, LexLess(Sorted(s)[q].key, Sorted(s)[p].key) PROVE FALSE
  <2>1. from[p] \in S /\ from[q] \in S /\ at(from[p]) = p - 1 /\ at(from[q]) = q - 1  BY <1>11
  <2>2. ByKey(s[from[q]], s[from[p]])  BY <1>15, <1>18 DEF ByKey
  <2>3. at(from[q]) < at(from[p])  BY <2>1, <2>2, <1>3, <1>8 DEF Before
  <2> QED BY <2>1, <2>3, <1>1, <1>18
<1> QED BY <1>14, <1>16, <1>17, <1>18

(***************************************************************************)
(* Sequences and finite sets.                                              *)
(***************************************************************************)

LEMMA ImageFinite ==
    ASSUME NEW S, IsFiniteSet(S), NEW f, DOMAIN f = S
    PROVE  IsFiniteSet({f[x] : x \in S})
<1> DEFINE T == {f[x] : x \in S}
           g == [x \in S |-> f[x]]
<1>1. g \in Surjection(S, T)  BY DEF Surjection
<1> QED BY <1>1, FS_Surjection

LEMMA RangeFinite ==
    ASSUME NEW s, IsSeq(s)
    PROVE  IsFiniteSet(ToSet(s))
<1>1. Len(s) \in Nat /\ DOMAIN s = 1..Len(s)  BY SeqFacts
<1>2. IsFiniteSet(DOMAIN s)  BY <1>1, FS_Interval
<1> QED BY <1>2, ImageFinite DEF ToSet

LEMMA IntervalSize ==
    ASSUME NEW n \in Nat PROVE IsFiniteSet(1..n) /\ Cardinality(1..n) = n
<1>1. IsFiniteSet(1..n) /\ Cardinality(1..n) = IF 1 > n THEN 0 ELSE n - 1 + 1
  BY FS_Interval
<1> QED BY <1>1

LEMMA EmptyRow == IsSeq(<<>>) /\ Len(<<>>) = 0 /\ ToSet(<<>>) = {}
BY EmptySeq DEF IsSeq, ToSet

LEMMA Appended ==
    ASSUME NEW s, IsSeq(s), NEW x
    PROVE  /\ IsSeq(Append(s, x)) /\ Len(Append(s, x)) = Len(s) + 1
           /\ ToSet(Append(s, x)) = ToSet(s) \cup {x}
           /\ Append(s, x)[Len(s) + 1] = x /\ \A i \in 1..Len(s) : Append(s, x)[i] = s[i]
<1> DEFINE n == Len(s)
           T == ToSet(s) \cup {x}
           a == Append(s, x)
<1>1. s \in Seq(T) /\ n \in Nat /\ DOMAIN s = 1..n
  <2>1. s \in Seq(ToSet(s)) /\ n \in Nat /\ DOMAIN s = 1..n  BY SeqFacts DEF IsSeq
  <2> HIDE DEF n
  <2> QED BY <2>1, SeqMonotonic
<1>2. a \in Seq(T) /\ Len(a) = n + 1 /\ a[n + 1] = x /\ \A i \in 1..n : a[i] = s[i]
  <2> HIDE DEF T
  <2>1. x \in T  BY DEF T
  <2> QED BY <1>1, <2>1, AppendProperties
<1>3. DOMAIN a = 1..(n + 1) /\ a = [i \in 1..(n + 1) |-> a[i]]
  <2> HIDE DEF a, T, n
  <2> QED BY <1>2, LenProperties
<1>4. ToSet(a) = T
  <2>1. ASSUME NEW y \in T PROVE y \in ToSet(a)
    <3>1. CASE y = x
      <4>1. n + 1 \in DOMAIN a  BY <1>1, <1>3
      <4> QED BY <3>1, <4>1, <1>2 DEF ToSet
    <3>2. CASE y \in ToSet(s)
      <4>1. PICK i \in 1..n : s[i] = y  BY <3>2, SeqFacts
      <4>2. i \in DOMAIN a  BY <1>1, <1>3
      <4> QED BY <4>1, <4>2, <1>2 DEF ToSet
    <3> QED BY <3>1, <3>2
  <2>2. ASSUME NEW i \in DOMAIN a PROVE a[i] \in T
    <3>1. i \in 1..n \/ i = n + 1  BY <1>1, <1>3
    <3> QED BY <3>1, <1>2, SeqFacts
  <2> QED BY <2>1, <2>2 DEF ToSet
<1> QED BY <1>2, <1>4 DEF IsSeq

LEMMA Joint ==
    ASSUME NEW s, IsSeq(s), NEW u, IsSeq(u)
    PROVE  /\ IsSeq(s \o u) /\ Len(s \o u) = Len(s) + Len(u)
           /\ ToSet(s \o u) = ToSet(s) \cup ToSet(u)
<1> DEFINE n == Len(s)
           m == Len(u)
           T == ToSet(s) \cup ToSet(u)
           a == s \o u
<1>1. s \in Seq(T) /\ u \in Seq(T) /\ n \in Nat /\ m \in Nat
  <2>1. s \in Seq(ToSet(s)) /\ u \in Seq(ToSet(u)) /\ n \in Nat /\ m \in Nat  BY SeqFacts DEF IsSeq
  <2> HIDE DEF n, m
  <2> QED BY <2>1, SeqMonotonic
<1>2. a \in Seq(T) /\ Len(a) = n + m /\ \A i \in 1..(n + m) : a[i] = IF i <= n THEN s[i] ELSE u[i - n]
  <2> HIDE DEF T
  <2> QED BY <1>1, ConcatProperties
<1>3. DOMAIN a = 1..(n + m) /\ \A i \in 1..(n + m) : a[i] \in T
  <2> HIDE DEF a, T, n, m
  <2> QED BY <1>2, LenProperties
<1>4. ToSet(a) = T
  <2>1. ASSUME NEW y \in T PROVE y \in ToSet(a)
    <3>1. CASE y \in ToSet(s)
      <4>1. PICK i \in 1..n : s[i] = y  BY <3>1, SeqFacts
      <4>2. i \in 1..(n + m) /\ i <= n  BY <1>1
      <4> QED BY <4>1, <4>2, <1>2, <1>3 DEF ToSet
    <3>2. CASE y \in ToSet(u)
      <4>1. PICK i \in 1..m : u[i] = y  BY <3>2, SeqFacts
      <4>2. n + i \in 1..(n + m) /\ ~(n + i <= n) /\ (n + i) - n = i  BY <1>1
      <4>3. a[n + i] = y  BY <4>1, <4>2, <1>2
      <4> QED BY <4>2, <4>3, <1>3 DEF ToSet
    <3> QED BY <3>1, <3>2
  <2> QED BY <2>1, <1>3 DEF ToSet
<1> QED BY <1>2, <1>4 DEF IsSeq

LEMMA Listed ==
    ASSUME NEW S, IsFiniteSet(S)
    PROVE  /\ IsSeq(SetToSeq(S)) /\ Len(SetToSeq(S)) = Cardinality(S) /\ ToSet(SetToSeq(S)) = S
           /\ IsInjective(SetToSeq(S))
<1> DEFINE n == Cardinality(S)
           f == SetToSeq(S)
<1>1. n \in Nat /\ ExistsBijection(1..n, S)  BY FS_CardinalityType
<1>2. PICK g : g \in Bijection(1..n, S)  BY <1>1 DEF ExistsBijection
<1>3. g \in [1..n -> S] /\ IsInjective(g)
  BY <1>2 DEF Bijection, Injection
<1>4. f \in [1..n -> S] /\ IsInjective(f)
  BY <1>3 DEF SetToSeq
<1> HIDE DEF f
<1>5. f \in Injection(1..n, S)  BY <1>4 DEF Injection
<1>6. f \in Surjection(1..n, S)
  <2>1. Cardinality(1..n) = n /\ IsFiniteSet(1..n)  BY <1>1, IntervalSize
  <2> QED BY <1>5, <2>1, FS_Injection
<1>7. ToSet(f) = S  BY <1>4, <1>6 DEF ToSet, Surjection
<1>8. f \in Seq(S) /\ Len(f) = n
  <2> HIDE DEF n
  <2>1. f \in Seq(S)  BY <1>1, <1>4, SeqDef
  <2>2. Len(f) = n  BY <1>1, <1>4, <2>1, LenProperties
  <2> QED BY <2>1, <2>2
<1> QED BY <1>4, <1>7, <1>8 DEF IsSeq, f

LEMMA OrderedSet ==
    ASSUME NEW S, IsFiniteSet(S), NEW w \in Nat,
           \A x \in S : x.key \in [1..w -> Nat] /\ x.row \in Nat
    PROVE  /\ IsSeq(Sorted(SetToSeq(S))) /\ Len(Sorted(SetToSeq(S))) = Cardinality(S)
           /\ ToSet(Sorted(SetToSeq(S))) = S /\ IsInjective(Sorted(SetToSeq(S)))
BY Listed, SortedRows

\* One row less.
LEMMA Shorter ==
    ASSUME NEW s, IsSeq(s), NEW u \in Dropped(s)
    PROVE  Len(u) = Len(s) - 1 /\ Len(s) \in Nat \ {0}
<1>1. PICK i \in 1..Len(s) : u = RemoveAt(s, i)  BY DEF Dropped
<1> DEFINE n == Len(s)
           T == ToSet(s)
<1>2. n \in Nat /\ \A j \in 1..n : s[j] \in T  BY SeqFacts
<1>3. /\ SubSeq(s, 1, i - 1) \in Seq(T) /\ Len(SubSeq(s, 1, i - 1)) = i - 1
  <2>1. \A j \in 1..(i - 1) : s[j] \in T  BY <1>2
  <2> HIDE DEF T
  <2> QED BY <1>2, <2>1, SubSeqProperties
<1>4. /\ SubSeq(s, i + 1, n) \in Seq(T) /\ Len(SubSeq(s, i + 1, n)) = n - i
  <2>1. \A j \in (i + 1)..n : s[j] \in T  BY <1>2
  <2> HIDE DEF T
  <2> QED BY <1>2, <2>1, SubSeqProperties
<1>5. Len(u) = (i - 1) + (n - i)
  <2> DEFINE a == SubSeq(s, 1, i - 1)
             b == SubSeq(s, i + 1, n)
  <2>1. u = a \o b  BY <1>1 DEF RemoveAt
  <2>2. a \in Seq(T) /\ b \in Seq(T) /\ Len(a) = i - 1 /\ Len(b) = n - i  BY <1>3, <1>4
  <2> HIDE DEF T, a, b
  <2>3. Len(u) = Len(a) + Len(b)  BY <2>1, <2>2, ConcatProperties
  <2> QED BY <2>2, <2>3
<1> QED BY <1>2, <1>5

(***************************************************************************)
(* The comparison of the database, batch by batch.                         *)
(***************************************************************************)

\* The bounds of the k-th batch of n rows.
Low(k)     == k * Batch
High(k, n) == IF (k + 1) * Batch < n THEN (k + 1) * Batch ELSE n

LEMMA BatchBounds ==
    ASSUME NEW k \in Nat, NEW n \in Nat, Low(k) < n
    PROVE  Low(k) \in Nat /\ High(k, n) \in Nat /\ Low(k) < High(k, n) /\ High(k, n) <= n
           /\ Low(k + 1) = Low(k) + Batch /\ Low(k + 1) \in Nat
<1>1. Batch \in Nat /\ Batch > 0  BY RowsAssumption
<1>2. k * Batch \in Nat /\ (k + 1) * Batch = k * Batch + Batch  BY <1>1
<1> QED BY <1>1, <1>2 DEF Low, High

\* Every row is in a batch.
LEMMA InBatch ==
    ASSUME NEW n \in Nat, NEW i \in 1..n
    PROVE  \E k \in 0..n : Low(k) < n /\ Low(k) < i /\ i <= High(k, n)
<1> DEFINE T == {k \in Nat : i <= Low(k + 1)}
<1>0. Batch \in Nat /\ Batch > 0  BY RowsAssumption
<1>1. i - 1 \in T
  <2>1. i - 1 \in Nat /\ (i - 1) + 1 = i  OBVIOUS
  <2>2. i * Batch >= i  BY <1>0
  <2> QED BY <2>1, <2>2 DEF Low
<1>2. PICK k \in T : \A h \in T : k <= h  
  <2>1. T \in SUBSET Nat /\ T # {}  BY <1>1
  <2> HIDE DEF T
  <2> QED BY <2>1, Least
<1>3. k \in Nat /\ k <= i - 1 /\ i <= Low(k + 1)  BY <1>1, <1>2
<1>4. Low(k) < i
  <2>1. CASE k = 0  BY <2>1, <1>0 DEF Low
  <2>2. CASE k # 0
    <3>1. k - 1 \in Nat /\ (k - 1) + 1 = k /\ ~(k <= k - 1)  BY <2>2, <1>3
    <3>2. ~(i <= Low(k))
      <4>1. k - 1 \notin T  BY <3>1, <1>2
      <4> QED BY <3>1, <4>1
    <3>3. Low(k) \in Nat  BY <1>0, <1>3 DEF Low
    <3> QED BY <3>2, <3>3
  <2> QED BY <2>1, <2>2
<1>5. k \in 0..n /\ Low(k) \in Nat  BY <1>0, <1>3 DEF Low
<1>6. Low(k) < n  BY <1>4, <1>5
<1>7. i <= High(k, n)  BY <1>3 DEF High, Low
<1> QED BY <1>4, <1>5, <1>6, <1>7

LEMMA SliceFacts ==
    ASSUME NEW s, IsSeq(s), NEW k \in Nat, Low(k) < Len(s)
    PROVE  /\ IsSeq(Slice(s, k)) /\ Len(Slice(s, k)) = High(k, Len(s)) - Low(k)
           /\ \A j \in 1..Len(Slice(s, k)) : Low(k) + j \in 1..Len(s) /\ Slice(s, k)[j] = s[Low(k) + j]
<1> DEFINE n == Len(s)
           lo == Low(k)
           hi == High(k, n)
           u == Slice(s, k)
           T == ToSet(s)
<1>1. n \in Nat /\ \A i \in 1..n : s[i] \in T  BY SeqFacts
<1>2. lo \in Nat /\ hi \in Nat /\ lo < hi /\ hi <= n  BY <1>1, BatchBounds
<1>3. u = SubSeq(s, lo + 1, hi)  BY DEF Slice, Low, High
<1> HIDE DEF n, lo, hi, u
<1>4. \A i \in (lo + 1)..hi : s[i] \in T  BY <1>1, <1>2
<1> HIDE DEF T
<1>5. /\ u \in Seq(T) /\ Len(u) = hi - lo
      /\ \A j \in 1..(hi - lo) : u[j] = s[lo + j]
  <2>1. lo + 1 \in Int /\ hi \in Int /\ lo + 1 <= hi /\ hi - (lo + 1) + 1 = hi - lo  BY <1>2
  <2>2. /\ u \in Seq(T) /\ Len(u) = hi - lo
        /\ \A j \in 1..(hi - lo) : u[j] = s[(lo + 1) + j - 1]
    BY <1>3, <1>4, <2>1, SubSeqProperties
  <2>3. \A j \in 1..(hi - lo) : (lo + 1) + j - 1 = lo + j  BY <1>2
  <2> QED BY <2>2, <2>3
<1>6. \A j \in 1..(hi - lo) : lo + j \in 1..n  BY <1>1, <1>2
<1>7. IsSeq(u)
  <2>1. DOMAIN u = 1..(hi - lo) /\ u = [j \in 1..(hi - lo) |-> u[j]] /\ hi - lo \in Nat
    BY <1>2, <1>5, LenProperties
  <2> QED BY <2>1, MakeSeq
<1> QED BY <1>5, <1>6, <1>7 DEF n, lo, hi, u

\* How often a row is there.
LEMMA TimesFacts ==
    ASSUME NEW s, IsSeq(s), NEW x
    PROVE  /\ Times(x, s) = 0 <=> x \notin ToSet(s)
           /\ \A i \in 1..Len(s) : s[i] = x /\ (\A j \in 1..Len(s) : s[j] = x => j = i) => Times(x, s) = 1
<1> DEFINE I == {i \in 1..Len(s) : s[i] = x}
<1>1. IsFiniteSet(I)
  <2>1. IsFiniteSet(1..Len(s))  BY SeqFacts, IntervalSize
  <2>2. I \in SUBSET (1..Len(s))  OBVIOUS
  <2> QED BY <2>1, <2>2, FS_Subset
<1>2. Cardinality(I) = 0 <=> I = {}  BY <1>1, FS_EmptySet
<1>3. I = {} <=> x \notin ToSet(s)
  <2>1. ASSUME x \in ToSet(s) PROVE I # {}  BY <2>1, SeqFacts
  <2>2. ASSUME I # {} PROVE x \in ToSet(s)  BY <2>2, SeqFacts
  <2> QED BY <2>1, <2>2
<1>4. ASSUME NEW i \in 1..Len(s), s[i] = x, \A j \in 1..Len(s) : s[j] = x => j = i
      PROVE  Cardinality(I) = 1
  <2>1. I = {i}  BY <1>4
  <2> QED BY <2>1, FS_Singleton
<1> QED BY <1>2, <1>3, <1>4 DEF Times

\* A row that is not in the database is missed.
LEMMA RowMissed ==
    ASSUME NEW t, NEW s, IsSeq(s), NEW d, IsSeq(d), NEW x \in ToSet(s), x \notin ToSet(d)
    PROVE  \E k \in 0..Len(s) : k * Batch < Len(s) /\ ~BatchSame(d, t, Slice(s, k))
<1>2. PICK i \in 1..Len(s) : s[i] = x  BY SeqFacts
<1>3. Len(s) \in Nat  BY SeqFacts
<1>4. PICK k \in 0..Len(s) : Low(k) < Len(s) /\ Low(k) < i /\ i <= High(k, Len(s))  BY <1>3, InBatch
<1> DEFINE u == Slice(s, k)
<1>5. /\ IsSeq(u) /\ Len(u) = High(k, Len(s)) - Low(k)
      /\ \A j \in 1..Len(u) : u[j] = s[Low(k) + j]
  BY <1>4, SliceFacts
<1>6. Low(k) \in Nat /\ High(k, Len(s)) \in Nat  BY <1>3, <1>4, BatchBounds
<1>7. i - Low(k) \in 1..Len(u) /\ Low(k) + (i - Low(k)) = i  BY <1>3, <1>4, <1>5, <1>6
<1>8. x \in ToSet(u)
  <2>1. u[i - Low(k)] = x  BY <1>2, <1>5, <1>7
  <2> QED BY <2>1, <1>5, <1>7, SeqFacts
<1>9. Times(x, d) = 0 /\ Times(x, u) # 0  BY <1>5, <1>8, TimesFacts
<1>10. ~BatchSame(d, t, u)  BY <1>8, <1>9 DEF BatchSame
<1>11. k * Batch < Len(s)  BY <1>4 DEF Low
<1> QED BY <1>10, <1>11

\* A table with unique keys, in order, is found in the database as it is.
LEMMA RowsFound ==
    ASSUME NEW t, NEW s, s = Contents[t], s = db[t], IsSeq(s), NEW w \in Nat,
           \A i \in 1..Len(s) : s[i].key \in [1..w -> Nat],
           \A i, j \in 1..Len(s) : UniqueKey(t, s[i]) = UniqueKey(t, s[j]) => i = j,
           \A p, q \in 1..Len(s) : p < q => ~LexLess(s[q].key, s[p].key)
    PROVE  SameRows(t)
<1>0. Len(s) \in Nat  BY SeqFacts
<1>1. SUFFICES ASSUME NEW k \in 0..Len(s), Low(k) < Len(s) PROVE BatchSame(s, t, Slice(s, k))
  BY DEF SameRows, Low
<1> DEFINE u == Slice(s, k)
<1>2. /\ IsSeq(u) /\ Len(u) = High(k, Len(s)) - Low(k)
      /\ \A j \in 1..Len(u) : Low(k) + j \in 1..Len(s) /\ u[j] = s[Low(k) + j]
  BY <1>1, SliceFacts
<1>3. Low(k) \in Nat /\ High(k, Len(s)) \in Nat /\ Low(k) < High(k, Len(s))  BY <1>0, <1>1, BatchBounds
<1>4. 1 \in 1..Len(u) /\ Len(u) \in 1..Len(u) /\ Len(u) \in Nat  BY <1>2, <1>3
<1>5. \A p, q \in 1..Len(s) : p <= q => ~LexLess(s[q].key, s[p].key)
  <2> SUFFICES ASSUME NEW p \in 1..Len(s), NEW q \in 1..Len(s), p <= q PROVE ~LexLess(s[q].key, s[p].key)
    OBVIOUS
  <2>1. CASE p = q
    <3>1. ~LexLess(s[p].key, s[p].key)
      <4> DEFINE a == s[p].key
      <4>1. a \in [1..w -> Nat]  OBVIOUS
      <4> HIDE DEF a
      <4>2. ~LexLess(a, a)  BY <4>1, LexOrder
      <4> QED BY <4>2 DEF a
    <3> QED BY <2>1, <3>1
  <2>2. CASE p # q
    <3>1. p < q  BY <2>2, <1>0
    <3> QED BY <3>1
  <2> QED BY <2>1, <2>2
<1>6. ASSUME NEW x \in ToSet(u) PROVE Hit(x, t, u) /\ Times(x, s) = 1 /\ Times(x, u) = 1
  <2>1. PICK j \in 1..Len(u) : u[j] = x  BY <1>2, SeqFacts
  <2> DEFINE i == Low(k) + j
  <2>2. i \in 1..Len(s) /\ s[i] = x  BY <1>2, <2>1
  <2>3. \A h \in 1..Len(s) : s[h] = x => h = i  BY <2>2
  <2>4. Times(x, s) = 1  BY <2>2, <2>3, TimesFacts
  <2>5. ASSUME NEW h \in 1..Len(u), u[h] = x PROVE h = j
    <3>1. Low(k) + h \in 1..Len(s) /\ s[Low(k) + h] = x  BY <1>2, <2>5
    <3>2. Low(k) + h = i  BY <2>3, <3>1
    <3> QED BY <3>2, <1>3, <1>4
  <2>6. Times(x, u) = 1  BY <1>2, <2>1, <2>5, TimesFacts
  <2>7. InBounds(x.key, u)
    <3>1. ~LexLess(x.key, u[1].key)
      <4>1. Low(k) + 1 \in 1..Len(s) /\ u[1] = s[Low(k) + 1] /\ Low(k) + 1 <= i  BY <1>2, <1>3, <1>4
      <4> QED BY <4>1, <2>2, <1>5
    <3>2. ~LexLess(u[Len(u)].key, x.key)
      <4>1. Low(k) + Len(u) \in 1..Len(s) /\ u[Len(u)] = s[Low(k) + Len(u)] /\ i <= Low(k) + Len(u)
        BY <1>2, <1>3, <1>4
      <4> QED BY <4>1, <2>2, <1>5
    <3> QED BY <3>1, <3>2 DEF InBounds
  <2>8. Hit(x, t, u)  BY <2>1, <2>7 DEF Hit
  <2> QED BY <2>4, <2>6, <2>8
<1>7. ASSUME NEW x \in ToSet(s), x \notin ToSet(u) PROVE ~Hit(x, t, u) /\ Times(x, u) = 0
  <2>1. Times(x, u) = 0  BY <1>2, <1>7, TimesFacts
  <2>2. ASSUME Hit(x, t, u) PROVE FALSE
    <3>1. PICK j \in 1..Len(u) : UniqueKey(t, u[j]) = UniqueKey(t, x)  BY <2>2 DEF Hit
    <3>2. PICK i \in 1..Len(s) : s[i] = x  BY SeqFacts
    <3>3. Low(k) + j \in 1..Len(s) /\ u[j] = s[Low(k) + j]  BY <1>2
    <3>4. Low(k) + j = i  BY <3>1, <3>2, <3>3
    <3>5. u[j] = x  BY <3>2, <3>3, <3>4
    <3> QED BY <3>5, <1>2, <1>7, SeqFacts
  <2> QED BY <2>1, <2>2
<1> QED BY <1>6, <1>7 DEF BatchSame

(***************************************************************************)
(* Keys.                                                                   *)
(***************************************************************************)

Width == [bond |-> 2, instrument |-> 1, domestic |-> 1, overseas |-> 1, fund |-> 2, quality |-> 3,
          coverage |-> 2, left |-> 2, right |-> 2, link |-> 2, evidence |-> 3]

LEMMA Tuples ==
    ASSUME NEW a \in Nat, NEW b \in Nat, NEW c \in Nat
    PROVE  <<a>> \in [1..1 -> Nat] /\ <<a, b>> \in [1..2 -> Nat] /\ <<a, b, c>> \in [1..3 -> Nat]
<1>1. 1..1 = {1} /\ 1..2 = {1, 2} /\ 1..3 = {1, 2, 3}  OBVIOUS
<1>2. <<a>> = [i \in {1} |-> <<a>>[i]] /\ <<a, b>> = [i \in {1, 2} |-> <<a, b>>[i]]
  OBVIOUS
<1>3. <<a, b, c>> = [i \in {1, 2, 3} |-> <<a, b, c>>[i]]  OBVIOUS
<1> QED BY <1>1, <1>2, <1>3

\* What normalisation makes of a source row.
LEMMA IssueFacts ==
    ASSUME NEW r \in Shapes, NEW n \in Nat
    PROVE  /\ IsFiniteSet(Issues(r, n))
           /\ \A x \in Issues(r, n) : x.key \in [1..3 -> Nat] /\ x.row = n /\ x.quarantined \in BOOLEAN
           /\ \A x \in Issues(r, n) : x.key[3] \in {Identity, Domain}
           /\ Blocked(r, n) <=> r.id = 0 \/ (r.src \in {"domestic", "overseas"} /\ r.a = 0)
           /\ Record(r, n).key \in [1..Width[r.src] -> Nat] /\ Record(r, n).row = n
           /\ Record(r, n).id = r.id /\ Record(r, n).a = r.a /\ Record(r, n).b = r.b
           /\ r.src \in {"bond", "domestic", "overseas", "fund"}
           /\ r.id \in Nat /\ r.a \in Nat /\ r.b \in Nat
<1>1. r.src \in {"bond", "domestic", "overseas", "fund"} /\ r.id \in Nat /\ r.a \in Nat /\ r.b \in Nat
  BY DEF Shapes, Order
<1>2. \A col, rule \in Nat, q \in BOOLEAN :
         /\ Issue(n, col, rule, q).key \in [1..3 -> Nat] /\ Issue(n, col, rule, q).row = n
         /\ Issue(n, col, rule, q).quarantined = q /\ Issue(n, col, rule, q).key[3] = rule
  BY Tuples DEF Issue
<1>3. /\ \A i : IsFiniteSet({i})
      /\ IsFiniteSet({}) /\ \A S, T : IsFiniteSet(S) /\ IsFiniteSet(T) => IsFiniteSet(S \cup T)
  BY FS_Singleton, FS_EmptySet, FS_Union
<1>4. Issues(r, n) \in {BondIssues(r, n), ListedIssues(r, n), FundIssues(r, n)}
  BY <1>1 DEF Issues
<1>5. IsFiniteSet(BondIssues(r, n)) /\ IsFiniteSet(FundIssues(r, n))
  BY <1>3 DEF BondIssues, FundIssues
<1>6. IsFiniteSet(ListedIssues(r, n))
  <2>1. IsFiniteSet(IF r.a = 0 THEN {Issue(n, 1, Identity, TRUE)} ELSE {})  BY <1>3
  <2>2. IsFiniteSet(IF r.id = 0 THEN {Issue(n, 2, Identity, TRUE)} ELSE {})  BY <1>3
  <2> QED BY <1>3, <2>1, <2>2 DEF ListedIssues
<1>7. \A x \in Issues(r, n) : \E col \in {1, 2}, rule \in {Identity, Domain}, q \in BOOLEAN : x = Issue(n, col, rule, q)
  BY <1>1 DEF Issues, BondIssues, ListedIssues, FundIssues
<1>8. {1, 2} \subseteq Nat /\ {Identity, Domain} \subseteq Nat  BY DEF Identity, Domain
<1>9. \A x \in Issues(r, n) : x.key \in [1..3 -> Nat] /\ x.row = n /\ x.quarantined \in BOOLEAN /\ x.key[3] \in {Identity, Domain}
  <2> SUFFICES ASSUME NEW x \in Issues(r, n)
               PROVE  x.key \in [1..3 -> Nat] /\ x.row = n /\ x.quarantined \in BOOLEAN /\ x.key[3] \in {Identity, Domain}
    OBVIOUS
  <2>1. PICK col \in {1, 2}, rule \in {Identity, Domain}, q \in BOOLEAN : x = Issue(n, col, rule, q)
    BY <1>7
  <2>2. col \in Nat /\ rule \in Nat  BY <1>8
  <2> QED BY <2>1, <2>2, <1>2
<1>10. Blocked(r, n) <=> r.id = 0 \/ (r.src \in {"domestic", "overseas"} /\ r.a = 0)
  <2>1. CASE r.src = "bond"
    <3>1. Issues(r, n) = BondIssues(r, n)  BY <2>1 DEF Issues
    <3>2. CASE r.id = 0
      <4>1. Issue(n, 1, Identity, TRUE) \in Issues(r, n)  BY <3>1, <3>2 DEF BondIssues
      <4>2. Issue(n, 1, Identity, TRUE).quarantined  BY DEF Issue
      <4> QED BY <4>1, <4>2, <3>2 DEF Blocked
    <3>3. CASE r.id # 0
      <4>1. \A i \in Issues(r, n) : i = Issue(n, 2, Domain, FALSE)  BY <3>1, <3>3 DEF BondIssues
      <4>2. ~Issue(n, 2, Domain, FALSE).quarantined  BY DEF Issue
      <4> QED BY <4>1, <4>2, <3>3, <2>1 DEF Blocked
    <3> QED BY <3>2, <3>3
  <2>2. CASE r.src = "fund"
    <3>1. Issues(r, n) = FundIssues(r, n)  BY <2>2 DEF Issues
    <3> QED BY <2>2, <3>1, <1>2 DEF Blocked, FundIssues, Identity, Domain, Issue
  <2>3. CASE r.src \in {"domestic", "overseas"}
    <3>1. Issues(r, n) = ListedIssues(r, n)  BY <2>3 DEF Issues
    <3>2. \A col \in Nat : Issue(n, col, Identity, TRUE).quarantined  BY DEF Issue
    <3>3. CASE r.a = 0
      <4>1. Issue(n, 1, Identity, TRUE) \in Issues(r, n)  BY <3>1, <3>3 DEF ListedIssues
      <4>2. Blocked(r, n)  BY <3>2, <4>1 DEF Blocked
      <4> QED BY <4>2, <2>3, <3>3
    <3>4. CASE r.id = 0
      <4>1. Issue(n, 2, Identity, TRUE) \in Issues(r, n)  BY <3>1, <3>4 DEF ListedIssues
      <4>2. Blocked(r, n)  BY <3>2, <4>1 DEF Blocked
      <4> QED BY <4>2, <3>4
    <3>5. CASE r.a # 0 /\ r.id # 0
      <4>1. Issues(r, n) = {}  BY <3>1, <3>5 DEF ListedIssues
      <4>2. ~Blocked(r, n)  BY <4>1 DEF Blocked
      <4> QED BY <4>2, <3>5
    <3> QED BY <3>3, <3>4, <3>5
  <2> QED BY <1>1, <2>1, <2>2, <2>3
<1>11. Record(r, n).key \in [1..Width[r.src] -> Nat]
  <2>1. CASE r.src \in {"bond", "fund"}
    <3>1. Width[r.src] = 2 /\ Record(r, n).key = <<r.id, n>>  BY <2>1 DEF Width, Record
    <3> QED BY <3>1, <1>1, Tuples
  <2>2. CASE r.src \in {"domestic", "overseas"}
    <3>1. Width[r.src] = 1 /\ Record(r, n).key = <<r.id>>  BY <2>2 DEF Width, Record
    <3> QED BY <3>1, <1>1, Tuples
  <2> QED BY <1>1, <2>1, <2>2
<1>12. Record(r, n).row = n /\ Record(r, n).id = r.id /\ Record(r, n).a = r.a /\ Record(r, n).b = r.b
  BY DEF Record
<1> QED BY <1>1, <1>4, <1>5, <1>6, <1>9, <1>10, <1>11, <1>12

\* A finite set of numbers has a greatest one.
LEMMA Greatest ==
    ASSUME NEW T \in SUBSET Nat, IsFiniteSet(T), T # {} PROVE \E m \in T : \A k \in T : k <= m
<1> DEFINE R == {p \in T \X T : p[2] < p[1]}
<1>1. TotalOrder(T, R)
  <2>1. \A x, y \in T : <<x, y>> \in R <=> y < x  OBVIOUS
  <2> HIDE DEF R
  <2> QED BY <2>1 DEF TotalOrder
<1>2. Cardinality(T) \in Nat /\ Cardinality(T) # 0  BY FS_CardinalityType, FS_EmptySet
<1>3. PICK m \in T : Position(T, R, m) = 0
  <2>1. 0 \in 0..(Cardinality(T) - 1)  BY <1>2
  <2> HIDE DEF R
  <2> QED BY <1>1, <2>1, Positions
<1>4. {y \in T : <<y, m>> \in R} = {}
  <2>1. IsFiniteSet({y \in T : <<y, m>> \in R})
    <3>1. {y \in T : <<y, m>> \in R} \in SUBSET T  OBVIOUS
    <3> QED BY <3>1, FS_Subset
  <2> QED BY <1>3, <2>1, FS_EmptySet DEF Position
<1>5. \A k \in T : ~(m < k)  BY <1>4
<1> QED BY <1>5

\* The lots of a product: one is the first, one is selected.
LEMMA LotFacts ==
    ASSUME NEW S, IsFiniteSet(S), S # {}, \A x \in S : x.row \in Nat /\ x.b \in Nat
    PROVE  /\ FirstLot(S) \in S
           /\ Selected(S) \in S /\ \A y \in S : y.b <= Selected(S).b
<1>1. FirstLot(S) \in S
  <2> DEFINE T == {x.row : x \in S}
  <2>1. T \in SUBSET Nat /\ T # {}  OBVIOUS
  <2>2. PICK m \in T : \A k \in T : m <= k
    <3> HIDE DEF T
    <3> QED BY <2>1, Least
  <2>3. PICK x \in S : x.row = m  OBVIOUS
  <2>4. \A y \in S : x.row <= y.row  BY <2>2, <2>3
  <2> QED BY <2>4 DEF FirstLot
<1> DEFINE B == {x.b : x \in S}
           f == [x \in S |-> x.b]
<1>2. B \in SUBSET Nat /\ B # {}  OBVIOUS
<1>3. IsFiniteSet(B)
  <2>1. IsFiniteSet({f[x] : x \in S})  BY ImageFinite
  <2>2. {f[x] : x \in S} = B  OBVIOUS
  <2> QED BY <2>1, <2>2
<1>4. PICK m \in B : \A k \in B : k <= m
  <2> HIDE DEF B
  <2> QED BY <1>2, <1>3, Greatest
<1> DEFINE U == {x.row : x \in {y \in S : y.b = m}}
<1>5. U \in SUBSET Nat /\ U # {}
  <2>1. PICK x \in S : x.b = m  OBVIOUS
  <2>2. x.row \in U  BY <2>1
  <2>3. U \subseteq Nat  OBVIOUS
  <2> HIDE DEF U
  <2> QED BY <2>2, <2>3
<1>6. PICK h \in U : \A k \in U : h <= k
  <2> HIDE DEF U
  <2> QED BY <1>5, Least
<1>7. PICK x \in S : x.b = m /\ x.row = h  OBVIOUS
<1>8. \A y \in S : y.b < x.b \/ (y.b = x.b /\ x.row <= y.row)
  <2> SUFFICES ASSUME NEW y \in S, ~(y.b < x.b) PROVE y.b = x.b /\ x.row <= y.row
    OBVIOUS
  <2>1. y.b \in B /\ y.b <= m  BY <1>4
  <2>2. y.b = m  BY <2>1, <1>2, <1>7
  <2>3. y.row \in U  BY <2>2
  <2>4. h <= y.row
    <3> HIDE DEF U
    <3> QED BY <2>3, <1>6
  <2> QED BY <2>2, <2>4, <1>7
<1>9. Selected(S) \in S /\ \A y \in S : y.b < Selected(S).b \/ (y.b = Selected(S).b /\ Selected(S).row <= y.row)
  BY <1>8 DEF Selected
<1> HIDE DEF Selected
<1>10. \A y \in S : y.b <= Selected(S).b  BY <1>9
<1> QED BY <1>1, <1>9, <1>10

(***************************************************************************)
(* What is staged.                                                         *)
(***************************************************************************)

LEMMA RowShape ==
    ASSUME RowTypes, NEW n \in 1..Len(rows)
    PROVE  /\ Len(rows) \in Nat /\ n \in Nat /\ rows[n] \in Shapes
           /\ rows[n].src \in {"bond", "domestic", "overseas", "fund"}
           /\ rows[n].id \in Nat /\ rows[n].a \in Nat /\ rows[n].b \in Nat
<1>1. Len(rows) \in Nat /\ rows[n] \in Shapes  BY LenProperties, ElementOfSeq DEF RowTypes
<1> QED BY <1>1, IssueFacts

LEMMA RecordsOf ==
    ASSUME RowTypes, StoreInv, Running, NEW src \in DOMAIN Order
    PROVE  /\ IsSeq(store[src])
           /\ \A x \in ToSet(store[src]) :
                /\ x.key \in [1..Width[src] -> Nat] /\ x.row \in 1..Len(rows) /\ x.row \in Nat
                /\ rows[x.row].src = src /\ ~Blocked(rows[x.row], x.row) /\ x = Record(rows[x.row], x.row)
                /\ x.id = rows[x.row].id /\ x.a = rows[x.row].a /\ x.b = rows[x.row].b
                /\ x.id \in Nat /\ x.a \in Nat /\ x.b \in Nat
           /\ \A n \in Staged(src) : Record(rows[n], n) \in ToSet(store[src])
<1>1. src \in {"bond", "domestic", "overseas", "fund"} /\ src \in Relations  BY DEF Order, Relations
<1>2. IsSeq(store[src]) /\ ToSet(store[src]) = {Record(rows[n], n) : n \in Staged(src)}
  BY <1>1 DEF StoreInv, RelationsStaged
<1>3. ASSUME NEW n \in Staged(src)
      PROVE  /\ n \in 1..Len(rows) /\ rows[n] \in Shapes /\ n \in Nat /\ rows[n].src = src
             /\ ~Blocked(rows[n], n)
  <2>1. n \in 1..Len(rows) /\ rows[n].src = src /\ ~Blocked(rows[n], n)  BY <1>3 DEF Staged, Of
  <2> QED BY <2>1, RowShape
<1>4. ASSUME NEW x \in ToSet(store[src])
      PROVE  /\ x.key \in [1..Width[src] -> Nat] /\ x.row \in 1..Len(rows) /\ x.row \in Nat
             /\ rows[x.row].src = src /\ ~Blocked(rows[x.row], x.row) /\ x = Record(rows[x.row], x.row)
             /\ x.id = rows[x.row].id /\ x.a = rows[x.row].a /\ x.b = rows[x.row].b
             /\ x.id \in Nat /\ x.a \in Nat /\ x.b \in Nat
  <2>1. PICK n \in Staged(src) : x = Record(rows[n], n)  BY <1>2
  <2>2. /\ n \in 1..Len(rows) /\ rows[n] \in Shapes /\ n \in Nat /\ rows[n].src = src
        /\ ~Blocked(rows[n], n)
    BY <1>3
  <2>3. /\ x.key \in [1..Width[rows[n].src] -> Nat] /\ x.row = n
        /\ x.id = rows[n].id /\ x.a = rows[n].a /\ x.b = rows[n].b
        /\ rows[n].id \in Nat /\ rows[n].a \in Nat /\ rows[n].b \in Nat
    BY <2>1, <2>2, IssueFacts
  <2> QED BY <2>1, <2>2, <2>3
<1> QED BY <1>2, <1>4

\* The lots of a product and what is made of them.
LEMMA LotsOf ==
    ASSUME RowTypes, StoreInv, Running, NEW p \in Ids
    PROVE  /\ \A x \in Lots(p) : x \in ToSet(store["bond"]) /\ x.id = p
           /\ FirstLot(Lots(p)) \in Lots(p) /\ Selected(Lots(p)) \in Lots(p)
           /\ \A y \in Lots(p) : y.b <= Selected(Lots(p)).b
           /\ Instrument(Lots(p)).id = p /\ Instrument(Lots(p)).key = <<p>> /\ p \in Nat
           /\ Instrument(Lots(p)).key \in [1..1 -> Nat]
           /\ Instrument(Lots(p)).row \in Nat /\ Instrument(Lots(p)).a \in Nat
           /\ Instrument(Lots(p)).b = Selected(Lots(p)).b
           /\ IsFiniteSet(ParentIssues(Lots(p)))
           /\ \A x \in ParentIssues(Lots(p)) :
                 /\ x.key \in [1..3 -> Nat] /\ x.row \in 1..Len(rows) /\ x.row \in Nat
                 /\ ~x.quarantined
<1>0. "bond" \in DOMAIN Order  BY DEF Order
<1> DEFINE S == Lots(p)
<1>1. /\ IsSeq(store["bond"])
      /\ \A x \in ToSet(store["bond"]) : /\ x.row \in 1..Len(rows) /\ x.row \in Nat
                                         /\ x.id \in Nat /\ x.a \in Nat /\ x.b \in Nat
  BY <1>0, RecordsOf
<1>2. \A x \in S : x \in ToSet(store["bond"]) /\ x.id = p  BY DEF Lots
<1>3. IsFiniteSet(S) /\ S # {} /\ p \in Nat
  <2>1. PICK x \in ToSet(store["bond"]) : x.id = p  BY DEF Ids
  <2>2. x \in S  BY <2>1 DEF Lots
  <2>3. IsFiniteSet(ToSet(store["bond"]))  BY <1>1, RangeFinite
  <2>4. S \in SUBSET ToSet(store["bond"])  BY DEF Lots
  <2>5. IsFiniteSet(S)  BY <2>3, <2>4, FS_Subset
  <2>6. p \in Nat  BY <2>1, <1>1
  <2> QED BY <2>2, <2>5, <2>6
<1> HIDE DEF S
<1>4. FirstLot(S) \in S /\ Selected(S) \in S /\ \A y \in S : y.b <= Selected(S).b
  BY <1>1, <1>2, <1>3, LotFacts
<1>5. /\ FirstLot(S).id = p /\ FirstLot(S).row \in 1..Len(rows) /\ FirstLot(S).row \in Nat
      /\ FirstLot(S).a \in Nat /\ Selected(S).row \in Nat
  BY <1>1, <1>2, <1>4
<1>6. /\ Instrument(S).id = p /\ Instrument(S).key = <<p>> /\ Instrument(S).row \in Nat
      /\ Instrument(S).a \in Nat /\ Instrument(S).b = Selected(S).b
  BY <1>5 DEF Instrument
<1>7. <<p>> \in [1..1 -> Nat]  BY <1>3, Tuples
<1> DEFINE m == FirstLot(S).row
           I1 == Issue(m, 2, Conflict, FALSE)
           I2 == Issue(m, 2, Unverifiable, FALSE)
<1>8. \A x \in ParentIssues(S) : x = I1 \/ x = I2
  BY DEF ParentIssues
<1>9. \A rule \in Nat : /\ Issue(m, 2, rule, FALSE).key \in [1..3 -> Nat] /\ Issue(m, 2, rule, FALSE).row = m
                        /\ ~Issue(m, 2, rule, FALSE).quarantined
  <2> HIDE DEF m
  <2>1. m \in Nat  BY <1>5 DEF m
  <2> QED BY <2>1, Tuples DEF Issue
<1>10. Conflict \in Nat /\ Unverifiable \in Nat  BY DEF Conflict, Unverifiable
<1>11. \A x \in ParentIssues(S) : x.key \in [1..3 -> Nat] /\ x.row = m /\ ~x.quarantined
  <2> HIDE DEF m
  <2> QED BY <1>8, <1>9, <1>10
<1>12. IsFiniteSet(ParentIssues(S))
  <2>1. IsFiniteSet({I1, I2})
    <3>1. IsFiniteSet({I1}) /\ IsFiniteSet({I2})  BY FS_Singleton
    <3>2. {I1, I2} = {I1} \cup {I2}  OBVIOUS
    <3> QED BY <3>1, <3>2, FS_Union
  <2>2. ParentIssues(S) \in SUBSET {I1, I2}  
    <3> HIDE DEF I1, I2
    <3> QED BY <1>8
  <2> QED BY <2>1, <2>2, FS_Subset
<1> QED BY <1>2, <1>3, <1>4, <1>5, <1>6, <1>7, <1>11, <1>12 DEF S

LEMMA ProductsFinite ==
    ASSUME RowTypes, StoreInv, Running
    PROVE  /\ IsFiniteSet(Ids) /\ IsFiniteSet(Instruments)
           /\ IsFiniteSet(UNION {ParentIssues(Lots(p)) : p \in Ids})
<1>1. IsSeq(store["bond"])  BY RecordsOf DEF Order
<1>2. IsFiniteSet(ToSet(store["bond"]))  BY <1>1, RangeFinite
<1>3. IsFiniteSet(Ids)
  <2> DEFINE f == [x \in ToSet(store["bond"]) |-> x.id]
  <2>1. IsFiniteSet({f[x] : x \in ToSet(store["bond"])})  BY <1>2, ImageFinite
  <2>2. {f[x] : x \in ToSet(store["bond"])} = Ids  BY DEF Ids
  <2> QED BY <2>1, <2>2
<1>4. IsFiniteSet(Instruments)
  <2> DEFINE f == [p \in Ids |-> Instrument(Lots(p))]
  <2>1. IsFiniteSet({f[p] : p \in Ids})  BY <1>3, ImageFinite
  <2>2. {f[p] : p \in Ids} = Instruments  BY DEF Instruments
  <2> QED BY <2>1, <2>2
<1>5. IsFiniteSet(UNION {ParentIssues(Lots(p)) : p \in Ids})
  <2> DEFINE f == [p \in Ids |-> ParentIssues(Lots(p))]
             F == {ParentIssues(Lots(p)) : p \in Ids}
  <2>1. IsFiniteSet({f[p] : p \in Ids})  BY <1>3, ImageFinite
  <2>2. {f[p] : p \in Ids} = F  OBVIOUS
  <2>3. \A T \in F : IsFiniteSet(T)  BY LotsOf
  <2>4. IsFiniteSet(F)  BY <2>1, <2>2
  <2> HIDE DEF F
  <2> QED BY <2>3, <2>4, FS_UNION DEF F
<1> QED BY <1>3, <1>4, <1>5

\* Quality issues, of the rows and of the products.
LEMMA QualityOf ==
    ASSUME RowTypes, StoreInv, Running
    PROVE  /\ IsSeq(store["quality"])
           /\ \A x \in ToSet(store["quality"]) : x.key \in [1..3 -> Nat] /\ x.row \in 1..Len(rows) /\ x.row \in Nat
           /\ \A x \in ToSet(store["quality"]) : x.quarantined => x \in Issues(rows[x.row], x.row)
           /\ \A n \in 1..Len(rows) : Issues(rows[n], n) \subseteq ToSet(store["quality"])
           /\ stage \notin {"rows", "bonds"} => \A p \in Ids : ParentIssues(Lots(p)) \subseteq ToSet(store["quality"])
<1> DEFINE Q == ToSet(store["quality"])
           U == UNION {Issues(rows[n], n) : n \in 1..Len(rows)}
           P == UNION {ParentIssues(Lots(p)) : p \in Ids}
<1>1. IsSeq(store["quality"]) /\ Q = U \cup (IF stage \in {"rows", "bonds"} THEN {} ELSE P)
  <2>1. "quality" \in Relations  BY DEF Relations
  <2>2. IsSeq(store["quality"])  BY <2>1 DEF StoreInv
  <2>3. Q = U \cup (IF stage \in {"rows", "bonds"} THEN {} ELSE P)
    BY DEF StoreInv, QualityStaged
  <2> QED BY <2>2, <2>3
<1>2. ASSUME NEW x \in U PROVE /\ x.key \in [1..3 -> Nat] /\ x.row \in 1..Len(rows) /\ x.row \in Nat
                               /\ x \in Issues(rows[x.row], x.row)
  <2>1. PICK n \in 1..Len(rows) : x \in Issues(rows[n], n)  BY <1>2
  <2>2. rows[n] \in Shapes /\ n \in Nat  BY RowShape
  <2>3. x.key \in [1..3 -> Nat] /\ x.row = n  BY <2>1, <2>2, IssueFacts
  <2> QED BY <2>1, <2>2, <2>3
<1>3. ASSUME NEW x \in P PROVE x.key \in [1..3 -> Nat] /\ x.row \in 1..Len(rows) /\ x.row \in Nat /\ ~x.quarantined
  <2>1. PICK p \in Ids : x \in ParentIssues(Lots(p))  BY <1>3
  <2> QED BY <2>1, LotsOf
<1>4. \A n \in 1..Len(rows) : Issues(rows[n], n) \subseteq U  OBVIOUS
<1>5. \A p \in Ids : ParentIssues(Lots(p)) \subseteq P  OBVIOUS
<1> HIDE DEF U, P
<1>6. \A x \in Q : x \in U \/ x \in P  BY <1>1
<1> HIDE DEF Q
<1>7. \A x \in Q : x.key \in [1..3 -> Nat] /\ x.row \in 1..Len(rows) /\ x.row \in Nat
  BY <1>2, <1>3, <1>6
<1>8. \A x \in Q : x.quarantined => x \in Issues(rows[x.row], x.row)
  BY <1>2, <1>3, <1>6
<1>9. U \subseteq Q /\ (stage \notin {"rows", "bonds"} => P \subseteq Q)  BY <1>1
<1> QED BY <1>1, <1>4, <1>5, <1>7, <1>8, <1>9 DEF Q

\* The candidates of links are the ETFs and the funds with a ksd identifier.
LEMMA CandidatesOf ==
    ASSUME RowTypes, StoreInv, Running
    PROVE  /\ IsSeq(store["left"]) /\ IsSeq(store["right"])
           /\ \A x \in ToSet(store["left"]) :
                /\ x.row \in Etfs /\ x.id = rows[x.row].id /\ x.key[1] = x.id /\ x.id \in Nat /\ x.row \in Nat
                /\ x.row \in 1..Len(rows)
                /\ x = [key |-> <<rows[x.row].id, rows[x.row].id>>, id |-> rows[x.row].id, row |-> x.row]
           /\ \A x \in ToSet(store["right"]) :
                /\ x.row \in KsdFunds /\ x.id = rows[x.row].id /\ x.key[1] = rows[x.row].a /\ x.id \in Nat
                /\ x.row \in Nat /\ x.row \in 1..Len(rows)
                /\ x = [key |-> <<rows[x.row].a, rows[x.row].id>>, id |-> rows[x.row].id, row |-> x.row]
           /\ \A n \in Etfs : \E x \in ToSet(store["left"]) : x.row = n
           /\ \A n \in KsdFunds : \E x \in ToSet(store["right"]) : x.row = n
<1>1. IsSeq(store["left"]) /\ IsSeq(store["right"])
  <2>1. "left" \in Relations /\ "right" \in Relations  BY DEF Relations
  <2> QED BY <2>1 DEF StoreInv
<1>2. ToSet(store["left"]) = {[key |-> <<rows[n].id, rows[n].id>>, id |-> rows[n].id, row |-> n] : n \in Etfs}
  BY DEF StoreInv, CandidatesStaged
<1>3. ToSet(store["right"]) = {[key |-> <<rows[n].a, rows[n].id>>, id |-> rows[n].id, row |-> n] : n \in KsdFunds}
  BY DEF StoreInv, CandidatesStaged
<1>4. \A n \in Etfs \cup KsdFunds : n \in 1..Len(rows) /\ n \in Nat /\ rows[n].id \in Nat /\ rows[n].a \in Nat
  <2>1. \A n \in Etfs \cup KsdFunds : n \in 1..Len(rows)  BY DEF Etfs, KsdFunds, Staged, Of
  <2> QED BY <2>1, RowShape
<1>5. ASSUME NEW x \in ToSet(store["left"])
      PROVE  /\ x.row \in Etfs /\ x.id = rows[x.row].id /\ x.key[1] = x.id /\ x.id \in Nat /\ x.row \in Nat
             /\ x.row \in 1..Len(rows)
             /\ x = [key |-> <<rows[x.row].id, rows[x.row].id>>, id |-> rows[x.row].id, row |-> x.row]
  <2>1. PICK n \in Etfs : x = [key |-> <<rows[n].id, rows[n].id>>, id |-> rows[n].id, row |-> n]  BY <1>2
  <2>2. x.row = n /\ x.id = rows[n].id /\ x.key[1] = rows[n].id  BY <2>1
  <2> QED BY <2>1, <2>2, <1>4
<1>6. ASSUME NEW x \in ToSet(store["right"])
      PROVE  /\ x.row \in KsdFunds /\ x.id = rows[x.row].id /\ x.key[1] = rows[x.row].a /\ x.id \in Nat
             /\ x.row \in Nat /\ x.row \in 1..Len(rows)
             /\ x = [key |-> <<rows[x.row].a, rows[x.row].id>>, id |-> rows[x.row].id, row |-> x.row]
  <2>1. PICK n \in KsdFunds : x = [key |-> <<rows[n].a, rows[n].id>>, id |-> rows[n].id, row |-> n]  BY <1>3
  <2>2. x.row = n /\ x.id = rows[n].id /\ x.key[1] = rows[n].a  BY <2>1
  <2> QED BY <2>1, <2>2, <1>4
<1>7. ASSUME NEW n \in Etfs PROVE \E x \in ToSet(store["left"]) : x.row = n
  <2> DEFINE x == [key |-> <<rows[n].id, rows[n].id>>, id |-> rows[n].id, row |-> n]
  <2>1. x \in ToSet(store["left"])  BY <1>2
  <2>2. x.row = n  OBVIOUS
  <2> QED BY <2>1, <2>2
<1>8. ASSUME NEW n \in KsdFunds PROVE \E x \in ToSet(store["right"]) : x.row = n
  <2> DEFINE x == [key |-> <<rows[n].a, rows[n].id>>, id |-> rows[n].id, row |-> n]
  <2>1. x \in ToSet(store["right"])  BY <1>3
  <2>2. x.row = n  OBVIOUS
  <2> QED BY <2>1, <2>2
<1> QED BY <1>1, <1>5, <1>6, <1>7, <1>8

\* The joined pairs are those in which the fund names the ETF.
LEMMA JoinedFacts ==
    ASSUME RowTypes, StoreInv, Running
    PROVE  /\ IsFiniteSet(Joined)
           /\ \A p \in Joined :
                /\ p.left \in ToSet(store["left"]) /\ p.right \in ToSet(store["right"])
                /\ p.raw = p.left.id /\ p.raw = rows[p.right.row].a
                /\ p.raw \in Nat /\ p.left.id \in Nat /\ p.right.id \in Nat
                /\ p.left.row \in Nat /\ p.right.row \in Nat
           /\ \A l \in ToSet(store["left"]), r \in ToSet(store["right"]) :
                 l.id = rows[r.row].a => \E p \in Joined : p.left = l /\ p.right = r
<1> DEFINE L == ToSet(store["left"])
           R == ToSet(store["right"])
           M == {q \in L \X R : q[1].key[1] = q[2].key[1]}
           f == [p \in M |-> [raw |-> p[1].key[1], left |-> p[1], right |-> p[2]]]
<1>1. IsFiniteSet(M)
  <2>1. IsFiniteSet(L) /\ IsFiniteSet(R)  BY CandidatesOf, RangeFinite
  <2>2. IsFiniteSet(L \X R)
    <3> HIDE DEF L, R
    <3> QED BY <2>1, FS_Product
  <2>3. M \in SUBSET (L \X R)  OBVIOUS
  <2> HIDE DEF M, L, R
  <2> QED BY <2>2, <2>3, FS_Subset
<1>2. Joined = {f[p] : p \in M}  BY DEF Joined
<1>3. IsFiniteSet(Joined)
  <2>1. IsFiniteSet({f[p] : p \in M})
    <3> DOMAIN f = M  OBVIOUS
    <3> HIDE DEF f, M
    <3> QED BY <1>1, ImageFinite
  <2> QED BY <1>2, <2>1
<1>4. /\ \A x \in L : x.key[1] = x.id /\ x.id \in Nat /\ x.row \in Nat
      /\ \A x \in R : x.key[1] = rows[x.row].a /\ x.id \in Nat /\ x.row \in Nat
  BY CandidatesOf
<1>5. ASSUME NEW p \in Joined
      PROVE  /\ p.left \in L /\ p.right \in R /\ p.raw = p.left.id /\ p.raw = rows[p.right.row].a
             /\ p.raw \in Nat /\ p.left.id \in Nat /\ p.right.id \in Nat
             /\ p.left.row \in Nat /\ p.right.row \in Nat
  <2>1. PICK l \in L, r \in R : l.key[1] = r.key[1] /\ p = [raw |-> l.key[1], left |-> l, right |-> r]
    BY DEF Joined
  <2>2. p.left = l /\ p.right = r /\ p.raw = l.key[1]  BY <2>1
  <2> HIDE DEF L, R
  <2> QED BY <2>1, <2>2, <1>4
<1>6. ASSUME NEW l \in L, NEW r \in R, l.id = rows[r.row].a PROVE \E p \in Joined : p.left = l /\ p.right = r
  <2>1. l.key[1] = r.key[1]  BY <1>4, <1>6
  <2>2. <<l, r>> \in M  BY <2>1
  <2>3. [raw |-> l.key[1], left |-> l, right |-> r] \in Joined  BY <2>2, <1>2
  <2> QED BY <2>3
<1> QED BY <1>3, <1>5, <1>6

\* The rows of the two Gold tables before they are put in order.
LinkRows     == {Link(p) : p \in Joined}
EvidenceRows == UNION {Evidence(p) : p \in Joined}

LEMMA GoldFacts ==
    ASSUME RowTypes, StoreInv, Running
    PROVE  /\ IsFiniteSet(LinkRows) /\ \A x \in LinkRows : x.key \in [1..2 -> Nat] /\ x.row \in Nat
           /\ IsFiniteSet(EvidenceRows) /\ \A x \in EvidenceRows : x.key \in [1..3 -> Nat] /\ x.row \in Nat
<1>1. IsFiniteSet(Joined)  BY JoinedFacts
<1>2. IsFiniteSet(LinkRows)
  <2> DEFINE f == [p \in Joined |-> Link(p)]
  <2>1. IsFiniteSet({f[p] : p \in Joined})  BY <1>1, ImageFinite
  <2>2. {f[p] : p \in Joined} = LinkRows  BY DEF LinkRows
  <2> QED BY <2>1, <2>2
<1>3. IsFiniteSet(EvidenceRows)
  <2> DEFINE f == [p \in Joined |-> Evidence(p)]
             F == {Evidence(p) : p \in Joined}
  <2>1. IsFiniteSet({f[p] : p \in Joined})  BY <1>1, ImageFinite
  <2>2. {f[p] : p \in Joined} = F  OBVIOUS
  <2>3. \A x, y : IsFiniteSet({x, y})
    <3> SUFFICES ASSUME NEW x, NEW y PROVE IsFiniteSet({x, y})
      OBVIOUS
    <3>1. IsFiniteSet({x}) /\ IsFiniteSet({y}) /\ {x, y} = {x} \cup {y}  BY FS_Singleton
    <3> QED BY <3>1, FS_Union
  <2>4. ASSUME NEW T \in F PROVE IsFiniteSet(T)
    <3>1. PICK p \in Joined : T = Evidence(p)  OBVIOUS
    <3>2. IsFiniteSet(Evidence(p))  BY <2>3, Zenon DEF Evidence
    <3> QED BY <3>1, <3>2
  <2>5. IsFiniteSet(F)  BY <2>1, <2>2
  <2> HIDE DEF F
  <2> QED BY <2>4, <2>5, FS_UNION DEF F, EvidenceRows
<1>4. ASSUME NEW p \in Joined
      PROVE  /\ Link(p).key \in [1..2 -> Nat] /\ Link(p).row \in Nat
             /\ \A x \in Evidence(p) : x.key \in [1..3 -> Nat] /\ x.row \in Nat
  <2>1. p.left.id \in Nat /\ p.right.id \in Nat /\ p.left.row \in Nat /\ p.right.row \in Nat
    BY JoinedFacts
  <2>2. /\ <<p.left.id, p.right.id>> \in [1..2 -> Nat]
        /\ <<p.left.id, p.right.id, 0>> \in [1..3 -> Nat] /\ <<p.left.id, p.right.id, 1>> \in [1..3 -> Nat]
    BY <2>1, Tuples
  <2> QED BY <2>1, <2>2 DEF Link, Evidence
<1> QED BY <1>2, <1>3, <1>4 DEF LinkRows, EvidenceRows

\* The coverage rows before they are put in order.
LEMMA OwnerFacts ==
    ASSUME RowTypes, StoreInv, Running
    PROVE  /\ IsSeq(Owners) /\ Len(Owners) = Len(enabled) /\ Len(enabled) \in Nat
           /\ \A i \in 1..Len(enabled) : Owners[i].key = enabled[i]
           /\ \A x \in ToSet(Owners) : x.key \in [1..2 -> Nat] /\ x.row \in Nat /\ x.key \in ToSet(enabled)
<1> DEFINE n == Len(enabled)
           s == Owners
<1>1. IsSeq(enabled) /\ n \in Nat /\ \A i \in 1..n : enabled[i] \in ToSet(enabled)
  <2>1. IsSeq(enabled)  BY DEF StoreInv
  <2> QED BY <2>1, SeqFacts
<1>2. /\ DOMAIN s = 1..n /\ s = [i \in 1..n |-> s[i]]
      /\ \A i \in 1..n : s[i].key = enabled[i] /\ s[i].row = 0
  BY DEF Owners
<1> HIDE DEF n, s
<1>3. IsSeq(s) /\ Len(s) = n  BY <1>1, <1>2, MakeSeq
<1>4. ASSUME NEW k \in ToSet(enabled) PROVE k \in [1..2 -> Nat]
  <2>1. ToSet(enabled) = {Owner(rows[m]) : m \in {h \in 1..Len(rows) : rows[h].src # "bond" /\ ~Blocked(rows[h], h)}}
    BY DEF StoreInv, CoverageOwed
  <2>2. PICK m \in 1..Len(rows) : rows[m].src # "bond" /\ k = Owner(rows[m])  BY <2>1, <1>4
  <2>3. /\ rows[m].src \in {"domestic", "overseas", "fund"}
        /\ rows[m].id \in Nat /\ rows[m].a \in Nat
    BY <2>2, RowShape
  <2>4. Order["domestic"] = 2 /\ Order["overseas"] = 3  BY DEF Order
  <2>5. (IF rows[m].src = "fund" THEN 5 ELSE 2 * (Order[rows[m].src] - 2) + rows[m].a) \in Nat
    <3>1. CASE rows[m].src = "fund"  BY <3>1
    <3>2. CASE rows[m].src = "domestic"  BY <3>2, <2>3, <2>4
    <3>3. CASE rows[m].src = "overseas"  BY <3>3, <2>3, <2>4
    <3> QED BY <2>3, <3>1, <3>2, <3>3
  <2> QED BY <2>2, <2>3, <2>5, Tuples DEF Owner
<1>5. ASSUME NEW x \in ToSet(s) PROVE x.key \in [1..2 -> Nat] /\ x.row \in Nat /\ x.key \in ToSet(enabled)
  <2>1. PICK i \in 1..n : s[i] = x  BY <1>3, SeqFacts
  <2>2. x.key = enabled[i] /\ x.row = 0  BY <1>2, <2>1
  <2> QED BY <2>2, <1>1, <1>4 DEF n
<1> QED BY <1>1, <1>2, <1>3, <1>5 DEF n, s

(***************************************************************************)
(* The finished tables.                                                    *)
(***************************************************************************)

InOrder(s, w) ==
    /\ IsSeq(s) /\ \A i \in 1..Len(s) : s[i].key \in [1..w -> Nat]
    /\ \A p, q \in 1..Len(s) : p < q => ~LexLess(s[q].key, s[p].key)

LEMMA SortedInOrder ==
    ASSUME NEW s, IsSeq(s), NEW w \in Nat,
           \A x \in ToSet(s) : x.key \in [1..w -> Nat] /\ x.row \in Nat
    PROVE  /\ InOrder(Sorted(s), w) /\ ToSet(Sorted(s)) = ToSet(s) /\ Len(Sorted(s)) = Len(s)
           /\ IsInjective(s) => IsInjective(Sorted(s))
<1> DEFINE u == Sorted(s)
<1>1. /\ IsSeq(u) /\ Len(u) = Len(s) /\ ToSet(u) = ToSet(s) /\ (IsInjective(s) => IsInjective(u))
      /\ \A p, q \in 1..Len(s) : p < q => ~LexLess(u[q].key, u[p].key)
  BY SortedRows
<1> HIDE DEF u
<1>2. \A i \in 1..Len(u) : u[i] \in ToSet(s)  BY <1>1, SeqFacts
<1>3. InOrder(u, w)  BY <1>1, <1>2 DEF InOrder
<1> QED BY <1>1, <1>3 DEF u

LEMMA SortedSet ==
    ASSUME NEW S, IsFiniteSet(S), NEW w \in Nat,
           \A x \in S : x.key \in [1..w -> Nat] /\ x.row \in Nat
    PROVE  /\ InOrder(Sorted(SetToSeq(S)), w) /\ ToSet(Sorted(SetToSeq(S))) = S
           /\ IsInjective(Sorted(SetToSeq(S)))
<1> DEFINE s == SetToSeq(S)
<1>1. IsSeq(s) /\ ToSet(s) = S /\ IsInjective(s)  BY Listed
<1> HIDE DEF s
<1>2. InOrder(Sorted(s), w) /\ ToSet(Sorted(s)) = S /\ IsInjective(Sorted(s))
  BY <1>1, SortedInOrder
<1> QED BY <1>2 DEF s

\* Past the drains every Silver table is there, in order, and lost nothing.
LEMMA SilverRows ==
    ASSUME RowTypes, StoreInv, TablesInv, Running, ~altered,
           stage \notin Draining \cup {"rows", "bonds"}
    PROVE  /\ \A r \in {"bond", "domestic", "overseas", "fund", "quality"} :
                 ToSet(tables[r]) = ToSet(store[r]) /\ Len(tables[r]) = Len(store[r])
           /\ ToSet(tables["instrument"]) = Instruments
           /\ ToSet(tables["coverage"]) = ToSet(Owners) /\ tables["coverage"] = Sorted(Owners)
           /\ \A t \in Silver : InOrder(tables[t], Width[t]) /\ TableOrdered(t)
<1>1. /\ tables["bond"] = Sorted(store["bond"]) /\ tables["instrument"] = Sorted(SetToSeq(Instruments))
      /\ tables["domestic"] = Sorted(store["domestic"])
      /\ tables["overseas"] = Sorted(store["overseas"])
      /\ tables["fund"] = Sorted(store["fund"])
      /\ tables["quality"] = Sorted(store["quality"])
      /\ tables["coverage"] = Sorted(Owners)
      /\ \A t \in Silver : TableOrdered(t)
  <2>1. stage \notin {"rows", "bonds", "domestic", "overseas", "fund", "quality", "coverage", "verify", "join"}
    BY DEF Draining
  <2> QED BY <2>1 DEF TablesInv, Draining
<1>2. ASSUME NEW r \in {"bond", "domestic", "overseas", "fund", "quality"}
      PROVE  /\ ToSet(tables[r]) = ToSet(store[r]) /\ Len(tables[r]) = Len(store[r])
             /\ InOrder(tables[r], Width[r])
  <2>1. tables[r] = Sorted(store[r])  BY <1>1
  <2>2. IsSeq(store[r]) /\ \A x \in ToSet(store[r]) : x.key \in [1..Width[r] -> Nat] /\ x.row \in Nat
    <3>1. CASE r = "quality"
      <4>1. Width[r] = 3  BY <3>1 DEF Width
      <4> QED BY <3>1, <4>1, QualityOf
    <3>2. CASE r # "quality"
      <4>1. r \in DOMAIN Order  BY <3>2 DEF Order
      <4> QED BY <4>1, RecordsOf
    <3> QED BY <3>1, <3>2
  <2>3. Width[r] \in Nat  BY DEF Width
  <2> QED BY <2>1, <2>2, <2>3, SortedInOrder
<1>3. ToSet(tables["instrument"]) = Instruments /\ InOrder(tables["instrument"], Width["instrument"])
  <2>1. IsFiniteSet(Instruments)  BY ProductsFinite
  <2>2. \A x \in Instruments : x.key \in [1..1 -> Nat] /\ x.row \in Nat
    <3> SUFFICES ASSUME NEW p \in Ids
                 PROVE  Instrument(Lots(p)).key \in [1..1 -> Nat] /\ Instrument(Lots(p)).row \in Nat
      BY DEF Instruments
    <3> QED BY LotsOf
  <2>3. Width["instrument"] = 1  BY DEF Width
  <2>4. InOrder(Sorted(SetToSeq(Instruments)), 1) /\ ToSet(Sorted(SetToSeq(Instruments))) = Instruments
    BY <2>1, <2>2, SortedSet
  <2> QED BY <1>1, <2>3, <2>4
<1>4. ToSet(tables["coverage"]) = ToSet(Owners) /\ InOrder(tables["coverage"], Width["coverage"])
  <2>1. IsSeq(Owners) /\ \A x \in ToSet(Owners) : x.key \in [1..2 -> Nat] /\ x.row \in Nat  BY OwnerFacts
  <2>2. Width["coverage"] = 2  BY DEF Width
  <2> QED BY <1>1, <2>1, <2>2, SortedInOrder
<1>5. \A t \in Silver : InOrder(tables[t], Width[t])
  BY <1>2, <1>3, <1>4 DEF Silver
<1> QED BY <1>1, <1>2, <1>3, <1>4, <1>5

\* The links and their evidence are in order, and none is there twice.
LEMMA GoldRows ==
    ASSUME RowTypes, StoreInv, TablesInv, MadeInv, Running, ~altered,
           stage \notin Draining \cup {"rows", "bonds", "links"}
    PROVE  /\ InOrder(links, 2) /\ ToSet(links) = LinkRows
           /\ InOrder(proof, 3) /\ ToSet(proof) = EvidenceRows
           /\ \A i, j \in 1..Len(links) : links[i].key = links[j].key => i = j
           /\ \A i, j \in 1..Len(proof) : proof[i].key = proof[j].key => i = j
<1>1. /\ links = Sorted(SetToSeq(LinkRows)) /\ proof = Sorted(SetToSeq(EvidenceRows))
      /\ LeftUnique(Joined) /\ RightUnique(Joined)
  BY DEF MadeInv, LinkRows, EvidenceRows
<1>2. InOrder(links, 2) /\ ToSet(links) = LinkRows /\ IsInjective(links)
  BY <1>1, GoldFacts, SortedSet
<1>3. InOrder(proof, 3) /\ ToSet(proof) = EvidenceRows /\ IsInjective(proof)
  BY <1>1, GoldFacts, SortedSet
<1>4. \A p, q \in Joined : p.left.id = q.left.id /\ p.right.id = q.right.id =>
         p.raw = q.raw /\ p.left.row = q.left.row /\ p.right.row = q.right.row
  <2> SUFFICES ASSUME NEW p \in Joined, NEW q \in Joined, p.left.id = q.left.id, p.right.id = q.right.id
               PROVE  p.raw = q.raw /\ p.left.row = q.left.row /\ p.right.row = q.right.row
    OBVIOUS
  <2>0. /\ p.left \in ToSet(store["left"]) /\ q.left \in ToSet(store["left"])
        /\ p.right \in ToSet(store["right"]) /\ q.right \in ToSet(store["right"])
        /\ p.raw = p.left.id /\ q.raw = q.left.id
    BY JoinedFacts
  <2>1. ASSUME NEW src \in {"domestic", "fund"}, NEW n \in Staged(src), NEW m \in Staged(src),
               rows[n].id = rows[m].id
        PROVE  n = m
    <3>1. src \in DOMAIN Order /\ src \in Silver  BY DEF Order, Silver
    <3>2. Record(rows[n], n) \in ToSet(tables[src]) /\ Record(rows[m], m) \in ToSet(tables[src])
      BY <3>1, RecordsOf, SilverRows
    <3>3. InOrder(tables[src], Width[src]) /\ TableOrdered(src)  BY <3>1, SilverRows
    <3>4. IsSeq(tables[src])  BY <3>3 DEF InOrder
    <3>5. PICK i \in 1..Len(tables[src]) : tables[src][i] = Record(rows[n], n)  BY <3>2, <3>4, SeqFacts
    <3>6. PICK j \in 1..Len(tables[src]) : tables[src][j] = Record(rows[m], m)  BY <3>2, <3>4, SeqFacts
    <3>7. n \in 1..Len(rows) /\ m \in 1..Len(rows) /\ rows[n].src = src /\ rows[m].src = src
      BY DEF Staged, Of
    <3>8. UniqueKey(src, Record(rows[n], n)) = UniqueKey(src, Record(rows[m], m))
      BY <2>1, <3>7 DEF UniqueKey, Record
    <3>9. i = j  BY <3>3, <3>5, <3>6, <3>8 DEF TableOrdered
    <3>10. Record(rows[n], n).row = n /\ Record(rows[m], m).row = m  BY DEF Record
    <3> QED BY <3>5, <3>6, <3>9, <3>10
  <2>2. /\ p.left.row \in Staged("domestic") /\ q.left.row \in Staged("domestic")
        /\ p.right.row \in Staged("fund") /\ q.right.row \in Staged("fund")
        /\ rows[p.left.row].id = rows[q.left.row].id /\ rows[p.right.row].id = rows[q.right.row].id
    BY <2>0, CandidatesOf DEF Etfs, KsdFunds
  <2> QED BY <2>0, <2>1, <2>2
<1>5. \A x, y \in LinkRows : x.key = y.key => x = y
  <2> SUFFICES ASSUME NEW p \in Joined, NEW q \in Joined, Link(p).key = Link(q).key PROVE Link(p) = Link(q)
    BY DEF LinkRows
  <2>1. p.left.id = q.left.id /\ p.right.id = q.right.id  BY DEF Link
  <2> QED BY <2>1, <1>4 DEF Link
<1>6. \A x, y \in EvidenceRows : x.key = y.key => x = y
  <2> SUFFICES ASSUME NEW p \in Joined, NEW q \in Joined, NEW x \in Evidence(p), NEW y \in Evidence(q), x.key = y.key
               PROVE  x = y
    BY DEF EvidenceRows
  <2> DEFINE E(h, role) == [key |-> <<h.left.id, h.right.id, role>>,
                            row |-> IF role = 0 THEN h.left.row ELSE h.right.row, raw |-> h.raw]
  <2>1. PICK c \in {0, 1} : x = E(p, c)  BY DEF Evidence
  <2>2. PICK d \in {0, 1} : y = E(q, d)  BY DEF Evidence
  <2>3. c = d /\ p.left.id = q.left.id /\ p.right.id = q.right.id  BY <2>1, <2>2
  <2>4. p.raw = q.raw /\ p.left.row = q.left.row /\ p.right.row = q.right.row  BY <2>3, <1>4
  <2> QED BY <2>1, <2>2, <2>3, <2>4
<1>7. ASSUME NEW s, IsSeq(s), IsInjective(s), \A x, y \in ToSet(s) : x.key = y.key => x = y
      PROVE  \A i, j \in 1..Len(s) : s[i].key = s[j].key => i = j
  <2>1. DOMAIN s = 1..Len(s) /\ \A i \in 1..Len(s) : s[i] \in ToSet(s)  BY <1>7, SeqFacts
  <2> QED BY <2>1, <1>7 DEF IsInjective
<1>8. IsSeq(links) /\ IsSeq(proof)  BY <1>2, <1>3 DEF InOrder
<1> QED BY <1>2, <1>3, <1>5, <1>6, <1>7, <1>8

(***************************************************************************)
(* The verifier accepts what the builder wrote.                            *)
(***************************************************************************)

LEMMA CountFacts ==
    ASSUME RowTypes, NEW src
    PROVE  /\ IsFiniteSet(Of(src)) /\ Cardinality(Of(src)) \in Nat
           /\ IsFiniteSet(Staged(src)) /\ Cardinality(Staged(src)) \in Nat
           /\ IsFiniteSet(Of(src) \ Staged(src)) /\ Cardinality(Of(src) \ Staged(src)) \in Nat
           /\ Cardinality(Of(src) \ Staged(src)) = Cardinality(Of(src)) - Cardinality(Staged(src))
<1>1. Len(rows) \in Nat  BY LenProperties DEF RowTypes
<1>2. IsFiniteSet(1..Len(rows)) /\ Of(src) \in SUBSET (1..Len(rows))  BY <1>1, IntervalSize DEF Of
<1>3. IsFiniteSet(Of(src))  BY <1>2, FS_Subset
<1>4. Staged(src) \in SUBSET Of(src)  BY DEF Staged
<1>5. IsFiniteSet(Staged(src))  BY <1>3, <1>4, FS_Subset
<1>6. Of(src) \cap Staged(src) = Staged(src)  BY <1>4
<1>7. /\ IsFiniteSet(Of(src) \ Staged(src))
      /\ Cardinality(Of(src) \ Staged(src)) = Cardinality(Of(src)) - Cardinality(Staged(src))
  BY <1>3, <1>6, FS_Difference
<1> QED BY <1>3, <1>5, <1>7, FS_CardinalityType

LEMMA Recounted ==
    ASSUME RowTypes, StoreInv, TablesInv, Running, ~altered,
           stage \notin Draining \cup {"rows", "bonds"}
    PROVE  Recount = excluded
<1>1. ASSUME NEW src \in DOMAIN Order
      PROVE  CountRows(rows)[src] - Len(tables[src]) = Cardinality(Of(src) \ Staged(src))
  <2>1. src \in {"bond", "domestic", "overseas", "fund"}  BY <1>1 DEF Order
  <2>2. CountRows(rows)[src] = Cardinality(Of(src))  BY DEF CountRows, Of
  <2>3. Len(store[src]) = Cardinality(Staged(src))  BY <1>1 DEF StoreInv, RelationsStaged
  <2>4. Len(tables[src]) = Len(store[src])  BY <2>1, SilverRows
  <2> QED BY <2>2, <2>3, <2>4, CountFacts
<1>2. /\ excluded["instrument"] = Cardinality(Of("bond") \ Staged("bond"))
      /\ excluded["fund_item"] = Cardinality(Of("fund") \ Staged("fund"))
      /\ excluded["listed_product"] = Cardinality(Of("domestic") \ Staged("domestic"))
                                      + Cardinality(Of("overseas") \ Staged("overseas"))
  BY DEF StoreInv, ExcludedCounted
<1>3. "bond" \in DOMAIN Order /\ "fund" \in DOMAIN Order /\ "domestic" \in DOMAIN Order /\ "overseas" \in DOMAIN Order
  BY DEF Order
<1>4. \A g \in Grains : Recount[g] = excluded[g]
  <2> SUFFICES ASSUME NEW g \in Grains PROVE Recount[g] = excluded[g]
    OBVIOUS
  <2>1. CASE g = "fund_item"
    <3>1. Recount[g] = CountRows(rows)["fund"] - Len(tables["fund"])  BY <2>1 DEF Recount, Grains
    <3> QED BY <2>1, <3>1, <1>1, <1>2, <1>3
  <2>2. CASE g = "instrument"
    <3>1. Recount[g] = CountRows(rows)["bond"] - Len(tables["bond"])  BY <2>2 DEF Recount, Grains
    <3> QED BY <2>2, <3>1, <1>1, <1>2, <1>3
  <2>3. CASE g = "listed_product"
    <3>1. Recount[g] = (CountRows(rows)["domestic"] - Len(tables["domestic"]))
                       + (CountRows(rows)["overseas"] - Len(tables["overseas"]))
      BY <2>3 DEF Recount, Grains
    <3> QED BY <2>3, <3>1, <1>1, <1>2, <1>3
  <2> QED BY <2>1, <2>2, <2>3 DEF Grains
<1>5. excluded = [g \in Grains |-> excluded[g]]  BY DEF RowTypes
<1>6. Recount = [g \in Grains |-> Recount[g]]  BY DEF Recount
<1> HIDE DEF Recount
<1> QED BY <1>4, <1>5, <1>6

LEMMA BuiltStage ==
    ASSUME Built
    PROVE  Running /\ stage \notin Draining \cup {"rows", "bonds", "links", "evidence", "reports"}
BY DEF Built, Running, Draining

LEMMA PristineReports ==
    ASSUME RowsInv, ~altered, Built
    PROVE  ReportsRight
<1>1. /\ RowTypes /\ StoreInv /\ TablesInv /\ MadeInv /\ Running
      /\ stage \notin Draining \cup {"rows", "bonds", "links", "evidence", "reports"}
  BY BuiltStage DEF RowsInv
<1>2. Recount = excluded  BY <1>1, Recounted
<1>3. /\ QualityJoined(tables["quality"]) /\ reports["summary"] = Summary(tables["quality"], excluded)
      /\ EvidenceHolds(links, proof) /\ LinkedExist(links, tables) /\ PairsOrdered(links)
      /\ reports["audit"] = Audit(tables, links, proof, tables["quality"])
  BY <1>1 DEF MadeInv
<1> QED BY <1>2, <1>3 DEF ReportsRight

LEMMA PristineRows ==
    ASSUME RowsInv, ~altered, Built
    PROVE  /\ db = Contents
           /\ \A t \in DOMAIN Contents :
                 /\ InOrder(Contents[t], Width[t]) /\ Width[t] \in Nat
                 /\ \A i, j \in 1..Len(Contents[t]) :
                       UniqueKey(t, Contents[t][i]) = UniqueKey(t, Contents[t][j]) => i = j
<1>1. /\ RowTypes /\ StoreInv /\ TablesInv /\ MadeInv /\ Running
      /\ stage \notin Draining \cup {"rows", "bonds", "links", "evidence", "reports"}
  BY BuiltStage DEF RowsInv
<1>2. db = Contents  BY <1>1 DEF MadeInv
<1>3. ASSUME NEW t \in DOMAIN Contents
      PROVE  /\ InOrder(Contents[t], Width[t]) /\ Width[t] \in Nat
             /\ \A i, j \in 1..Len(Contents[t]) :
                   UniqueKey(t, Contents[t][i]) = UniqueKey(t, Contents[t][j]) => i = j
  <2>0. t \in Silver \cup {"link", "evidence"}  BY DEF Contents
  <2>1. CASE t \in Silver
    <3>1. Contents[t] = tables[t]  BY <2>1 DEF Contents, Silver
    <3>2. InOrder(tables[t], Width[t]) /\ TableOrdered(t)  BY <2>1, <1>1, SilverRows
    <3>3. Width[t] \in Nat  BY <2>1 DEF Width, Silver
    <3> QED BY <3>1, <3>2, <3>3 DEF TableOrdered
  <2>2. CASE t = "link"
    <3>1. Contents[t] = links /\ Width[t] = 2  BY <2>2 DEF Contents, Width
    <3>2. \A x : UniqueKey(t, x) = x.key  BY <2>2 DEF UniqueKey
    <3> QED BY <3>1, <3>2, <1>1, GoldRows
  <2>3. CASE t = "evidence"
    <3>1. Contents[t] = proof /\ Width[t] = 3  BY <2>3 DEF Contents, Width
    <3>2. \A x : UniqueKey(t, x) = x.key  BY <2>3 DEF UniqueKey
    <3> QED BY <3>1, <3>2, <1>1, GoldRows
  <2> QED BY <2>0, <2>1, <2>2, <2>3
<1> QED BY <1>2, <1>3

LEMMA PristineBase ==
    ASSUME RowsInv, ~altered, Built
    PROVE  BaseRight
<1> SUFFICES ASSUME NEW t \in DOMAIN Contents PROVE SameRows(t)
  BY DEF BaseRight
<1>1. /\ db = Contents /\ InOrder(Contents[t], Width[t]) /\ Width[t] \in Nat
      /\ \A i, j \in 1..Len(Contents[t]) :
            UniqueKey(t, Contents[t][i]) = UniqueKey(t, Contents[t][j]) => i = j
  BY PristineRows
<1> DEFINE s == Contents[t]
<1>2. s = Contents[t] /\ s = db[t]  BY <1>1
<1> HIDE DEF s
<1> QED BY <1>1, <1>2, RowsFound DEF InOrder

(***************************************************************************)
(* An alteration shows.                                                    *)
(***************************************************************************)

\* A row is replaced by another: the old one is gone.
LEMMA Replaced ==
    ASSUME NEW t, NEW s, IsSeq(s), NEW i \in 1..Len(s), NEW y, y # s[i],
           \A h, j \in 1..Len(s) : UniqueKey(t, s[h]) = UniqueKey(t, s[j]) => h = j
    PROVE  /\ IsSeq([s EXCEPT ![i] = y]) /\ Len([s EXCEPT ![i] = y]) = Len(s)
           /\ s[i] \in ToSet(s) /\ s[i] \notin ToSet([s EXCEPT ![i] = y])
           /\ y \in ToSet([s EXCEPT ![i] = y])
           /\ UniqueKey(t, y) = UniqueKey(t, s[i]) => y \notin ToSet(s)
<1> DEFINE d == [s EXCEPT ![i] = y]
           n == Len(s)
<1>1. n \in Nat /\ DOMAIN s = 1..n /\ \A j \in 1..n : s[j] \in ToSet(s)  BY SeqFacts
<1>2. DOMAIN d = 1..n /\ d = [j \in 1..n |-> d[j]] /\ \A j \in 1..n : d[j] = IF j = i THEN y ELSE s[j]
  BY <1>1
<1> HIDE DEF d
<1>3. IsSeq(d) /\ Len(d) = n  BY <1>1, <1>2, MakeSeq
<1>4. s[i] \notin ToSet(d)
  <2> SUFFICES ASSUME NEW j \in 1..n, d[j] = s[i] PROVE FALSE
    BY <1>3, SeqFacts
  <2>1. j # i /\ s[j] = s[i]  BY <1>2
  <2> QED BY <2>1
<1>5. y \in ToSet(d)  BY <1>2, <1>3, SeqFacts
<1>6. ASSUME UniqueKey(t, y) = UniqueKey(t, s[i]), y \in ToSet(s) PROVE FALSE
  <2>1. PICK j \in 1..n : s[j] = y  BY <1>6, SeqFacts
  <2>2. j = i  BY <1>6, <2>1
  <2> QED BY <2>1, <2>2
<1> QED BY <1>1, <1>3, <1>4, <1>5, <1>6 DEF d

LEMMA SilverShows ==
    ASSUME RowsInv, AlterSilver
    PROVE  (~ReportsRight \/ ~BaseRight)'
<1>1. /\ ~altered /\ Built /\ reports' = reports /\ db' = db /\ RowTypes
  BY DEF AlterSilver, Altering, Built, RowsInv
<1>2. PICK t \in Silver : \E s \in Dropped(tables[t]) : tables' = [tables EXCEPT ![t] = s]
  BY DEF AlterSilver
<1>3. PICK s \in Dropped(tables[t]) : tables' = [tables EXCEPT ![t] = s]
  BY <1>2
<1>4. tables'[t] = s  BY <1>1, <1>3 DEF RowTypes
<1>5. ReportsRight  BY <1>1, PristineReports
<1>6. t \in DOMAIN Contents /\ Contents[t] = tables[t]  BY DEF Contents, Silver
<1>7. IsSeq(tables[t]) /\ db = Contents  BY <1>1, <1>6, PristineRows DEF InOrder
<1>8. Len(s) = Len(tables[t]) - 1 /\ Len(tables[t]) \in Nat  BY <1>3, <1>7, Shorter
<1>9. Len(s) # Len(tables[t])  BY <1>8
<1>10. CASE t \notin {"quality", "coverage"}
  <2>1. SUFFICES ASSUME ReportsRight' PROVE FALSE
    OBVIOUS
  <2>2. reports["audit"].silver[t] = Len(tables[t])
    BY <1>5, <1>10 DEF ReportsRight, Audit, SilverCounts
  <2>3. reports'["audit"].silver[t] = Len(tables'[t])
    BY <2>1, <1>10 DEF ReportsRight, Audit, SilverCounts
  <2> QED BY <2>2, <2>3, <1>1, <1>4, <1>9
<1>11. CASE t = "quality"
  <2>1. SUFFICES ASSUME ReportsRight' PROVE FALSE
    OBVIOUS
  <2>2. reports["summary"].total = Len(tables["quality"])
    BY <1>5 DEF ReportsRight, Summary
  <2>3. reports'["summary"].total = Len(tables'["quality"])
    BY <2>1 DEF ReportsRight, Summary
  <2> QED BY <2>2, <2>3, <1>1, <1>4, <1>9, <1>11
<1>12. CASE t = "coverage"
  <2>1. SUFFICES ASSUME BaseRight' PROVE FALSE
    OBVIOUS
  <2>2. (t \in DOMAIN Contents)' /\ Contents'[t] = tables'[t]  BY <1>12 DEF Contents, Silver
  <2>3. SameRows(t)'  BY <2>1, <2>2 DEF BaseRight
  <2>4. Len(db'[t]) = Len(Contents'[t])  BY <2>3 DEF SameRows
  <2> QED BY <2>2, <2>4, <1>1, <1>4, <1>6, <1>7, <1>9
<1> QED BY <1>10, <1>11, <1>12

LEMMA GoldShows ==
    ASSUME RowsInv, AlterGold
    PROVE  (~ReportsRight \/ ~BaseRight)'
<1>1. /\ ~altered /\ Built /\ reports' = reports /\ db' = db /\ RowTypes
  BY DEF AlterGold, Altering, Built, RowsInv
<1>2. ReportsRight /\ db = Contents  BY <1>1, PristineReports, PristineRows
<1>3. "link" \in DOMAIN Contents /\ "evidence" \in DOMAIN Contents
  BY DEF Contents
<1>4. Contents["link"] = links /\ Contents["evidence"] = proof  BY DEF Contents, Silver
<1>5. IsSeq(links) /\ IsSeq(proof)  BY <1>1, <1>3, <1>4, PristineRows DEF InOrder
<1>6. reports["audit"].links = Len(links) /\ reports["audit"].evidence = Len(proof)
  BY <1>2 DEF ReportsRight, Audit
<1>7. ReportsRight' => reports'["audit"].links = Len(links') /\ reports'["audit"].evidence = Len(proof')
  BY DEF ReportsRight, Audit
<1>8. CASE links' \in Dropped(links)
  <2>1. Len(links') = Len(links) - 1 /\ Len(links) \in Nat  BY <1>5, <1>8, Shorter
  <2>2. Len(links') # Len(links)  BY <2>1
  <2> QED BY <2>2, <1>1, <1>6, <1>7
<1>9. CASE proof' \in Dropped(proof)
  <2>1. Len(proof') = Len(proof) - 1 /\ Len(proof) \in Nat  BY <1>5, <1>9, Shorter
  <2>2. Len(proof') # Len(proof)  BY <2>1
  <2> QED BY <2>2, <1>1, <1>6, <1>7
<1>10. ASSUME NEW i \in 1..Len(proof), proof' = [proof EXCEPT ![i].row = @ + 1] PROVE ~BaseRight'
  <2> DEFINE y == [proof[i] EXCEPT !.row = @ + 1]
  <2>1. proof' = [proof EXCEPT ![i] = y]  BY <1>10
  <2>2. /\ proof[i].row \in Nat /\ proof[i].key \in [1..3 -> Nat]
        /\ \E k, m, c : proof[i] = [key |-> k, row |-> m, raw |-> c]
    <3>1. proof[i] \in EvidenceRows
      <4>1. ToSet(proof) = EvidenceRows  BY <1>1, BuiltStage, GoldRows DEF RowsInv
      <4> QED BY <4>1, <1>5, SeqFacts
    <3>2. proof[i].row \in Nat /\ proof[i].key \in [1..3 -> Nat]
      BY <3>1, <1>1, BuiltStage, GoldFacts DEF RowsInv
    <3>3. \E k, m, c : proof[i] = [key |-> k, row |-> m, raw |-> c]
      <4>1. PICK p \in Joined : proof[i] \in Evidence(p)  BY <3>1 DEF EvidenceRows
      <4> QED BY <4>1 DEF Evidence
    <3> QED BY <3>2, <3>3
  <2>3. y.key = proof[i].key /\ y.row = proof[i].row + 1  BY <2>2
  <2>4. y # proof[i]  BY <2>2, <2>3
  <2>5. \A h, j \in 1..Len(proof) : UniqueKey("evidence", proof[h]) = UniqueKey("evidence", proof[j]) => h = j
    BY <1>1, <1>3, <1>4, PristineRows
  <2>6. UniqueKey("evidence", y) = UniqueKey("evidence", proof[i])  BY <2>3 DEF UniqueKey
  <2> HIDE DEF y
  <2>7. IsSeq(proof') /\ y \in ToSet(proof') /\ y \notin ToSet(proof)
    BY <1>5, <2>1, <2>4, <2>5, <2>6, Replaced
  <2>8. db'["evidence"] = proof  BY <1>1, <1>2, <1>4
  <2>9. PICK k \in 0..Len(proof') : k * Batch < Len(proof') /\ ~BatchSame(proof, "evidence", Slice(proof', k))
    BY <1>5, <2>7, RowMissed
  <2>10. ("evidence" \in DOMAIN Contents)' /\ Contents'["evidence"] = proof'  BY DEF Contents, Silver
  <2>11. ~SameRows("evidence")'  BY <2>8, <2>9, <2>10 DEF SameRows
  <2> QED BY <2>10, <2>11 DEF BaseRight
<1> QED BY <1>8, <1>9, <1>10 DEF AlterGold

LEMMA ReportShows ==
    ASSUME RowsInv, AlterReport
    PROVE  ~ReportsRight'
<1>1. /\ ~altered /\ Built /\ rows' = rows /\ tables' = tables /\ links' = links /\ proof' = proof /\ RowTypes
  BY DEF AlterReport, Altering, Rest, Built, RowsInv
<1> DEFINE q == tables["quality"]
<1>2. ReportsRight  BY <1>1, PristineReports
<1>3. reports["audit"] = Audit(tables, links, proof, q) /\ reports["summary"] = Summary(q, Recount)
  BY <1>2 DEF ReportsRight
<1>4. ASSUME ReportsRight'
      PROVE  /\ reports'["audit"] = Audit(tables, links, proof, q)
             /\ reports'["summary"] = Summary(q, Recount)
  <2>1. Recount' = Recount  BY <1>1 DEF Recount, CountRows
  <2>2. Audit(tables, links, proof, q)' = Audit(tables, links, proof, q)
    BY <1>1 DEF Audit, CountRows, SilverCounts
  <2>3. /\ reports'["audit"] = Audit(tables, links, proof, q)'
        /\ reports'["summary"] = Summary(q', Recount')
    BY <1>4 DEF ReportsRight
  <2> QED BY <2>1, <2>2, <2>3, <1>1
<1>5. DOMAIN reports = {"audit", "summary"}  BY <1>1 DEF RowTypes
<1>6. /\ IsSeq(q) /\ Recount = excluded /\ excluded \in [Grains -> Nat]
  <2>1. "quality" \in Silver  BY DEF Silver
  <2>2. /\ RowTypes /\ StoreInv /\ TablesInv /\ Running
        /\ stage \notin Draining \cup {"rows", "bonds", "links", "evidence", "reports"}
    BY <1>1, BuiltStage DEF RowsInv
  <2>3. InOrder(q, Width["quality"])  BY <2>1, <2>2, <1>1, SilverRows
  <2>4. Recount = excluded  BY <2>2, <1>1, Recounted
  <2> QED BY <2>2, <2>3, <2>4 DEF InOrder, RowTypes
<1> DEFINE A == {x.row : x \in ToSet(q)}
           Z == Quarantined(q)
<1>7. Cardinality(A) \in Nat /\ Cardinality(Z) \in Nat
  <2>1. IsFiniteSet(ToSet(q))  BY <1>6, RangeFinite
  <2> DEFINE f == [x \in ToSet(q) |-> x.row]
  <2>2. IsFiniteSet({f[x] : x \in ToSet(q)})  BY <2>1, ImageFinite
  <2>3. {f[x] : x \in ToSet(q)} = A  OBVIOUS
  <2>4. IsFiniteSet(A)  BY <2>2, <2>3
  <2>5. Z \in SUBSET A  BY DEF Quarantined
  <2>6. IsFiniteSet(Z)  BY <2>4, <2>5, FS_Subset
  <2> QED BY <2>4, <2>6, FS_CardinalityType
<1>8. /\ reports["summary"].affected = Cardinality(A) /\ reports["audit"].quarantined = Cardinality(Z)
      /\ reports["summary"].excluded = excluded
  BY <1>3, <1>6 DEF Summary, Audit
<1>9. ASSUME ReportsRight'
      PROVE  /\ reports'["summary"].affected = Cardinality(A) /\ reports'["audit"].quarantined = Cardinality(Z)
             /\ reports'["summary"].excluded = excluded
  <2>1. reports'["audit"] = Audit(tables, links, proof, q) /\ reports'["summary"] = Summary(q, Recount)
    BY <1>4, <1>9
  <2>2. reports'["audit"] = reports["audit"] /\ reports'["summary"] = reports["summary"]
    BY <2>1, <1>3
  <2> HIDE DEF A, Z
  <2> QED BY <2>2, <1>8
<1>10. CASE reports' = [reports EXCEPT !["summary"].affected = @ + 1]
  <2>1. reports'["summary"].affected = reports["summary"].affected + 1
    BY <1>3, <1>5, <1>10 DEF Summary
  <2> HIDE DEF A, Z
  <2> QED BY <2>1, <1>7, <1>8, <1>9
<1>11. ASSUME NEW g \in Grains, reports' = [reports EXCEPT !["summary"].excluded[g] = @ + 1] PROVE ~ReportsRight'
  <2>1. reports'["summary"].excluded[g] = reports["summary"].excluded[g] + 1
    BY <1>3, <1>5, <1>6, <1>11 DEF Summary
  <2>2. excluded[g] \in Nat  BY <1>6
  <2> HIDE DEF A, Z
  <2> QED BY <2>1, <2>2, <1>8, <1>9
<1>12. CASE reports' = [reports EXCEPT !["audit"].quarantined = @ + 1]
  <2>1. reports'["audit"].quarantined = reports["audit"].quarantined + 1
    BY <1>3, <1>5, <1>12 DEF Audit
  <2> HIDE DEF A, Z
  <2> QED BY <2>1, <1>7, <1>8, <1>9
<1> QED BY <1>10, <1>11, <1>12 DEF AlterReport

LEMMA BaseShows ==
    ASSUME RowsInv, AlterBase
    PROVE  ~BaseRight'
<1>1. /\ ~altered /\ Built /\ rows' = rows /\ tables' = tables /\ links' = links /\ proof' = proof /\ RowTypes
  BY DEF AlterBase, Altering, Rest, Built, RowsInv
<1> DEFINE Bases == {"bond", "instrument", "domestic", "overseas", "fund"}
<1>2. PICK t \in Bases : \E d \in Dropped(db[t]) \cup Changed(db[t]) \cup Copied(db[t]) : db' = [db EXCEPT ![t] = d]
  BY DEF AlterBase
<1>3. PICK d \in Dropped(db[t]) \cup Changed(db[t]) \cup Copied(db[t]) : db' = [db EXCEPT ![t] = d]
  BY <1>2
<1>4. t \in Silver /\ t \in DOMAIN Contents /\ Contents[t] = tables[t]  BY DEF Contents, Silver
<1>5. db = Contents  BY <1>1, PristineRows
<1> DEFINE s == tables[t]
<1>6. /\ db[t] = s /\ db'[t] = d  BY <1>3, <1>4, <1>5
<1>7. /\ IsSeq(s)
      /\ \A h, j \in 1..Len(s) : UniqueKey(t, s[h]) = UniqueKey(t, s[j]) => h = j
  BY <1>1, <1>4, PristineRows DEF InOrder
<1>8. Len(s) \in Nat /\ DOMAIN s = 1..Len(s) /\ \A i \in 1..Len(s) : s[i] \in ToSet(s)  BY <1>7, SeqFacts
<1>9. \A x \in ToSet(s) : x.a \in Nat /\ \E k, id, n, a, b : x = [key |-> k, id |-> id, row |-> n, a |-> a, b |-> b]
  <2>1. /\ RowTypes /\ StoreInv /\ TablesInv /\ Running
        /\ stage \notin Draining \cup {"rows", "bonds", "links", "evidence", "reports"}
    BY <1>1, BuiltStage DEF RowsInv
  <2>2. CASE t = "instrument"
    <3>1. ToSet(s) = Instruments  BY <2>1, <2>2, <1>1, SilverRows
    <3>2. \A p \in Ids : Instrument(Lots(p)).a \in Nat  BY <2>1, LotsOf
    <3> QED BY <3>1, <3>2 DEF Instruments, Instrument
  <2>3. CASE t # "instrument"
    <3>1. t \in DOMAIN Order  BY <2>3 DEF Order
    <3>2. ToSet(s) = ToSet(store[t])  BY <2>1, <2>3, <1>1, SilverRows
    <3>3. \A x \in ToSet(store[t]) : x.a \in Nat /\ x = Record(rows[x.row], x.row)  BY <2>1, <3>1, RecordsOf
    <3> QED BY <3>2, <3>3 DEF Record
  <2> QED BY <2>2, <2>3
<1>10. (t \in DOMAIN Contents)' /\ Contents'[t] = s  BY <1>1 DEF Contents, Silver
<1> HIDE DEF s
<1>11. CASE d \in Dropped(s)
  <2>1. Len(d) = Len(s) - 1  BY <1>7, <1>11, Shorter
  <2>2. Len(d) # Len(s)  BY <2>1, <1>8
  <2>3. ~SameRows(t)'  BY <2>2, <1>6, <1>10 DEF SameRows
  <2> QED BY <2>3, <1>10 DEF BaseRight
<1>12. ASSUME NEW i \in 1..Len(s), NEW y, y # s[i], d = [s EXCEPT ![i] = y] PROVE ~BaseRight'
  <2>1. IsSeq(d) /\ s[i] \in ToSet(s) /\ s[i] \notin ToSet(d)  BY <1>7, <1>12, Replaced
  <2>2. PICK k \in 0..Len(s) : k * Batch < Len(s) /\ ~BatchSame(d, t, Slice(s, k))
    BY <1>7, <2>1, RowMissed
  <2>3. ~SameRows(t)'  BY <2>2, <1>6, <1>10 DEF SameRows
  <2> QED BY <2>3, <1>10 DEF BaseRight
<1>13. CASE d \in Changed(s)
  <2>1. PICK i \in 1..Len(s) : d = [s EXCEPT ![i].a = @ + 1]  BY <1>13 DEF Changed
  <2> DEFINE y == [s[i] EXCEPT !.a = @ + 1]
  <2>2. d = [s EXCEPT ![i] = y]  BY <2>1
  <2>3. s[i].a \in Nat /\ \E k, id, n, a, b : s[i] = [key |-> k, id |-> id, row |-> n, a |-> a, b |-> b]
    BY <1>8, <1>9
  <2>4. y.a = s[i].a + 1  BY <2>3
  <2>5. y # s[i]  BY <2>3, <2>4
  <2> HIDE DEF y
  <2> QED BY <2>2, <2>5, <1>12
<1>14. CASE d \in Copied(s)
  <2>1. PICK i \in 1..Len(s), j \in 1..Len(s) : d = [s EXCEPT ![i] = s[j]] /\ d # s
    BY <1>14 DEF Copied
  <2>2. s = [h \in 1..Len(s) |-> s[h]]  BY <1>7, LenProperties DEF IsSeq
  <2>3. s[j] # s[i]
    <3>1. SUFFICES ASSUME s[j] = s[i] PROVE d = s
      BY <2>1
    <3>2. d = [h \in 1..Len(s) |-> IF h = i THEN s[j] ELSE s[h]]  BY <2>1, <1>8
    <3> QED BY <2>2, <3>1, <3>2
  <2> QED BY <2>1, <2>3, <1>12
<1> QED BY <1>3, <1>6, <1>11, <1>13, <1>14

(***************************************************************************)
(* RowsInv is inductive.                                                   *)
(***************************************************************************)

LEMMA RowsStart == RInit => RowsInv
<1> SUFFICES ASSUME RInit PROVE RowsInv
  OBVIOUS
<1>0. Len(<<>>) = 0 /\ IsSeq(<<>>) /\ ToSet(<<>>) = {}  BY EmptyRow
<1>1. rows = <<>> /\ stage = "rows" /\ enabled = <<>> /\ ~altered  BY DEF RInit
<1>2. \A rel \in Relations : store[rel] = <<>>  BY DEF RInit
<1>3. 1..Len(rows) = {}  BY <1>0, <1>1
<1>4. \A src : Of(src) = {} /\ Staged(src) = {} /\ Of(src) \ Staged(src) = {}  BY <1>3 DEF Of, Staged
<1>5. Etfs = {} /\ KsdFunds = {}  BY <1>4 DEF Etfs, KsdFunds
<1>6. Cardinality({}) = 0  BY FS_EmptySet
<1>7. excluded = [g \in Grains |-> 0]  BY DEF RInit
<1>8. RowTypes
  <2>1. rows \in Seq(Shapes)  BY <1>1, EmptySeq
  <2>2. reports = None /\ DOMAIN None = {"audit", "summary"}  BY DEF RInit, None
  <2>3. excluded \in [Grains -> Nat]  BY <1>7
  <2>4. DOMAIN store = Relations /\ DOMAIN tables = Silver /\ spill \in BOOLEAN /\ altered \in BOOLEAN
    BY DEF RInit
  <2> QED BY <2>1, <2>2, <2>3, <2>4, <1>1 DEF RowTypes, Stages
<1>9. StoreInv
  <2>1. IsSeq(enabled) /\ \A rel \in Relations : IsSeq(store[rel])  BY <1>0, <1>1, <1>2
  <2>2. ASSUME NEW src \in DOMAIN Order
        PROVE  /\ ToSet(store[src]) = {Record(rows[n], n) : n \in Staged(src)}
               /\ Len(store[src]) = Cardinality(Staged(src))
    <3>1. src \in Relations  BY DEF Order, Relations
    <3> QED BY <3>1, <1>0, <1>2, <1>4, <1>6
  <2>3. ToSet(store["left"]) = {} /\ ToSet(store["right"]) = {} /\ ToSet(store["quality"]) = {}
    BY <1>0, <1>2 DEF Relations
  <2>4. (UNION {Issues(rows[n], n) : n \in 1..Len(rows)}) = {}  BY <1>3
  <2>5. ToSet(enabled) = {Owner(rows[n]) : n \in {m \in 1..Len(rows) : rows[m].src # "bond" /\ ~Blocked(rows[m], m)}}
    BY <1>0, <1>1, <1>3
  <2>6. excluded["instrument"] = 0 /\ excluded["fund_item"] = 0 /\ excluded["listed_product"] = 0
    BY <1>7 DEF Grains
  <2>7. ToSet(store["left"]) = {[key |-> <<rows[n].id, rows[n].id>>, id |-> rows[n].id, row |-> n] : n \in Etfs}
    BY <2>3, <1>5
  <2>8. ToSet(store["right"]) = {[key |-> <<rows[n].a, rows[n].id>>, id |-> rows[n].id, row |-> n] : n \in KsdFunds}
    BY <2>3, <1>5
  <2>9. ToSet(store["quality"]) =
           (UNION {Issues(rows[n], n) : n \in 1..Len(rows)})
           \cup (IF stage \in {"rows", "bonds"} THEN {} ELSE UNION {ParentIssues(Lots(p)) : p \in Ids})
    BY <2>3, <2>4, <1>1
  <2>10. /\ excluded["instrument"] = Cardinality(Of("bond") \ Staged("bond"))
         /\ excluded["fund_item"] = Cardinality(Of("fund") \ Staged("fund"))
         /\ excluded["listed_product"] = Cardinality(Of("domestic") \ Staged("domestic"))
                                         + Cardinality(Of("overseas") \ Staged("overseas"))
    BY <2>6, <1>4, <1>6
  <2> QED BY <2>1, <2>2, <2>5, <2>7, <2>8, <2>9, <2>10 DEF StoreInv, RelationsStaged, CandidatesStaged, QualityStaged, CoverageOwed, ExcludedCounted
<1>10. TablesInv /\ MadeInv  BY <1>1 DEF TablesInv, MadeInv
<1>11. AlteredInv  BY <1>1 DEF AlteredInv
<1> QED BY <1>8, <1>9, <1>10, <1>11 DEF RowsInv

\* What does not depend on the stage.
LEMMA StoreKept ==
    ASSUME StoreInv, Running, UNCHANGED <<rows, store, enabled, excluded>>,
           stage \in {"rows", "bonds"} <=> stage' \in {"rows", "bonds"}
    PROVE  StoreInv'
<1>1. \A src : Staged(src)' = Staged(src) /\ Of(src)' = Of(src)  BY DEF Staged, Of
<1>2. Etfs' = Etfs /\ KsdFunds' = KsdFunds  BY <1>1 DEF Etfs, KsdFunds
<1>3. Ids' = Ids /\ \A p : Lots(p)' = Lots(p)  BY DEF Ids, Lots
<1>4. /\ IsSeq(enabled) /\ \A rel \in Relations : IsSeq(store[rel])
      /\ RelationsStaged /\ CandidatesStaged /\ QualityStaged /\ CoverageOwed /\ ExcludedCounted
  BY DEF StoreInv
<1>5. RelationsStaged'  BY <1>1, <1>4 DEF RelationsStaged
<1>6. CandidatesStaged'  BY <1>2, <1>4 DEF CandidatesStaged
<1>7. QualityStaged'  BY <1>3, <1>4 DEF QualityStaged
<1>8. CoverageOwed'  BY <1>4 DEF CoverageOwed
<1>9. ExcludedCounted'  BY <1>1, <1>4 DEF ExcludedCounted
<1> QED BY <1>4, <1>5, <1>6, <1>7, <1>8, <1>9 DEF StoreInv

LEMMA TablesKept ==
    ASSUME UNCHANGED <<store, tables, enabled>>
    PROVE  /\ Instruments' = Instruments /\ Owners' = Owners
           /\ \A t \in Silver : TableOrdered(t)' <=> TableOrdered(t)
<1>1. Ids' = Ids /\ \A p : Lots(p)' = Lots(p)  BY DEF Ids, Lots
<1>2. Instruments' = Instruments  BY <1>1 DEF Instruments
<1>3. Owners' = Owners  BY DEF Owners
<1>4. \A t \in Silver : TableOrdered(t)' <=> TableOrdered(t)  BY DEF TableOrdered
<1> QED BY <1>2, <1>3, <1>4

LEMMA MadeKept ==
    ASSUME UNCHANGED <<rows, store, tables, links, proof>>
    PROVE  /\ Joined' = Joined /\ Contents' = Contents
           /\ QualityJoined(tables["quality"])' <=> QualityJoined(tables["quality"])
           /\ EvidenceHolds(links, proof)' <=> EvidenceHolds(links, proof)
           /\ Audit(tables, links, proof, tables["quality"])' = Audit(tables, links, proof, tables["quality"])
<1>1. Joined' = Joined  BY DEF Joined
<1>2. Contents' = Contents  BY DEF Contents
<1>3. QualityJoined(tables["quality"])' <=> QualityJoined(tables["quality"])  BY DEF QualityJoined
<1>4. EvidenceHolds(links, proof)' <=> EvidenceHolds(links, proof)  BY DEF EvidenceHolds, Cell
<1>5. Audit(tables, links, proof, tables["quality"])' = Audit(tables, links, proof, tables["quality"])
  BY DEF Audit, CountRows, SilverCounts
<1> QED BY <1>1, <1>2, <1>3, <1>4, <1>5

LEMMA RightKept ==
    ASSUME UNCHANGED <<rows, store, tables, links, proof, reports, db>>
    PROVE  (ReportsRight' <=> ReportsRight) /\ (BaseRight' <=> BaseRight)
<1>1. Recount' = Recount  BY DEF Recount, CountRows
<1>2. ReportsRight' <=> ReportsRight  BY <1>1, MadeKept DEF ReportsRight
<1>3. \A t : SameRows(t)' <=> SameRows(t)  BY MadeKept DEF SameRows
<1>4. BaseRight' <=> BaseRight  BY <1>3, MadeKept DEF BaseRight
<1> QED BY <1>2, <1>4

\* A step to "failed", or any step before something was altered.
LEMMA NotAltered ==
    ASSUME AlteredInv, stage \notin {"handed", "recount", "compare", "refused"}, altered' = altered, stage' # "refused"
    PROVE  AlteredInv' /\ ~altered
BY DEF AlteredInv

LEMMA FailedRows ==
    ASSUME RowTypes', AlteredInv', stage' = "failed"
    PROVE  RowsInv'
BY DEF RowsInv, StoreInv, TablesInv, MadeInv, Running

LEMMA EndRowsKeeps == RowsInv /\ EndRows => RowsInv'
<1> SUFFICES ASSUME RowsInv, EndRows PROVE RowsInv'
  OBVIOUS
<1>1. /\ RowTypes /\ StoreInv /\ AlteredInv /\ Running /\ stage = "rows" /\ stage' = "bonds"
      /\ UNCHANGED <<rows, spill, store, tables, enabled, excluded, links, proof, reports, db, altered>>
  BY DEF RowsInv, EndRows, Running
<1>2. RowTypes'  BY <1>1 DEF RowTypes, Stages
<1>3. StoreInv'  BY <1>1, StoreKept
<1>4. TablesInv' /\ MadeInv'  BY <1>1 DEF TablesInv, MadeInv
<1>5. AlteredInv'  BY <1>1, NotAltered
<1> QED BY <1>2, <1>3, <1>4, <1>5 DEF RowsInv

LEMMA DrainBondsKeeps == RowsInv /\ DrainBonds => RowsInv'
<1> SUFFICES ASSUME RowsInv, DrainBonds PROVE RowsInv'
  OBVIOUS
<1>1. /\ RowTypes /\ StoreInv /\ AlteredInv /\ Running /\ stage = "bonds" /\ stage' \in {"failed", "domestic"}
      /\ UNCHANGED <<rows, spill, enabled, excluded, links, proof, reports, db, altered>>
  BY DEF RowsInv, DrainBonds, Running, Failed
<1>2. AlteredInv' /\ ~altered  BY <1>1, NotAltered
<1>3. CASE ReadRefuses("bond")
  <2>1. stage' = "failed" /\ UNCHANGED <<tables, store>>  BY <1>3 DEF DrainBonds, Failed
  <2>2. RowTypes'  BY <1>1, <2>1 DEF RowTypes
  <2> QED BY <2>1, <2>2, <1>2, FailedRows
<1>4. CASE ~ReadRefuses("bond")
  <2> DEFINE P == UNION {ParentIssues(Lots(p)) : p \in Ids}
  <2>1. /\ tables' = [tables EXCEPT !["bond"] = Sorted(store["bond"]), !["instrument"] = Sorted(SetToSeq(Instruments))]
        /\ store' = [store EXCEPT !["quality"] = @ \o SetToSeq(P)]
        /\ stage' = "domestic"
    BY <1>4 DEF DrainBonds, InsertAll, Instruments
  <2>2. DOMAIN store = Relations /\ DOMAIN tables = Silver /\ "quality" \in Relations  BY <1>1 DEF RowTypes, Relations
  <2>3. IsFiniteSet(P)  BY <1>1, ProductsFinite
  <2> HIDE DEF P
  <2>4. \A rel \in Relations \ {"quality"} : store'[rel] = store[rel]  BY <2>1, <2>2
  <2>5. store'["quality"] = store["quality"] \o SetToSeq(P)  BY <2>1, <2>2
  <2>6. IsSeq(SetToSeq(P)) /\ ToSet(SetToSeq(P)) = P  BY <2>3, Listed
  <2>7. IsSeq(store["quality"])  BY <1>1, QualityOf
  <2>8. IsSeq(store'["quality"]) /\ ToSet(store'["quality"]) = ToSet(store["quality"]) \cup P
    BY <2>5, <2>6, <2>7, Joint
  <2>9. store'["bond"] = store["bond"] /\ store'["left"] = store["left"] /\ store'["right"] = store["right"]
        /\ \A src \in DOMAIN Order : store'[src] = store[src]
    BY <2>4 DEF Relations, Order
  <2>10. Ids' = Ids /\ \A p : Lots(p)' = Lots(p)  BY <2>9 DEF Ids, Lots
  <2>11. \A src : Staged(src)' = Staged(src) /\ Of(src)' = Of(src)  BY <1>1 DEF Staged, Of
  <2>12. Etfs' = Etfs /\ KsdFunds' = KsdFunds  BY <1>1, <2>11 DEF Etfs, KsdFunds
  <2>13. ToSet(store'["quality"]) =
           (UNION {Issues(rows'[n], n) : n \in 1..Len(rows')})
           \cup (IF stage' \in {"rows", "bonds"} THEN {} ELSE UNION {ParentIssues(Lots(p)') : p \in Ids'})
    <3>1. ToSet(store["quality"]) =
           (UNION {Issues(rows[n], n) : n \in 1..Len(rows)})
           \cup (IF stage \in {"rows", "bonds"} THEN {} ELSE UNION {ParentIssues(Lots(p)) : p \in Ids})
      BY <1>1 DEF StoreInv, QualityStaged
    <3>2. ToSet(store["quality"]) = UNION {Issues(rows[n], n) : n \in 1..Len(rows)}
      BY <1>1, <3>1
    <3>3. (UNION {ParentIssues(Lots(p)') : p \in Ids'}) = P  BY <2>10 DEF P
    <3>4. rows' = rows  BY <1>1
    <3> QED BY <2>1, <2>8, <3>2, <3>3, <3>4
  <2>14. \A rel \in Relations : IsSeq(store'[rel])
    <3>1. \A rel \in Relations : IsSeq(store[rel])  BY <1>1 DEF StoreInv
    <3> QED BY <3>1, <2>4, <2>8
  <2>15. StoreInv'
    <3>0. RelationsStaged /\ CandidatesStaged /\ CoverageOwed /\ ExcludedCounted /\ IsSeq(enabled)
      BY <1>1 DEF StoreInv
    <3>1. RelationsStaged'  BY <3>0, <1>1, <2>9, <2>11 DEF RelationsStaged
    <3>2. CandidatesStaged'  BY <3>0, <1>1, <2>9, <2>12 DEF CandidatesStaged
    <3>3. QualityStaged'  BY <2>13 DEF QualityStaged
    <3>4. CoverageOwed'  BY <3>0, <1>1 DEF CoverageOwed
    <3>5. ExcludedCounted'  BY <3>0, <1>1, <2>11 DEF ExcludedCounted
    <3>6. IsSeq(enabled')  BY <3>0, <1>1
    <3> QED BY <3>1, <3>2, <3>3, <3>4, <3>5, <3>6, <2>14 DEF StoreInv
  <2>16. RowTypes'  BY <1>1, <2>1, <2>2 DEF RowTypes, Stages
  <2>17. Instruments' = Instruments  BY <2>10 DEF Instruments
  <2>18. tables'["bond"] = Sorted(store["bond"]) /\ tables'["instrument"] = Sorted(SetToSeq(Instruments))
    BY <2>1, <2>2 DEF Silver
  <2>19. TablesInv'  BY <2>1, <2>9, <2>17, <2>18 DEF TablesInv, Draining
  <2>20. MadeInv'  BY <2>1 DEF MadeInv, Draining
  <2> QED BY <1>2, <2>15, <2>16, <2>19, <2>20 DEF RowsInv
<1> QED BY <1>3, <1>4

LEMMA DrainKeeps == ASSUME NEW rel \in {"domestic", "overseas", "fund", "quality"} PROVE RowsInv /\ Drain(rel) => RowsInv'
<1> SUFFICES ASSUME RowsInv, Drain(rel) PROVE RowsInv'
  OBVIOUS
<1>0. After[rel] \in {"overseas", "fund", "quality", "coverage"}  BY DEF After
<1>1. /\ RowTypes /\ StoreInv /\ TablesInv /\ AlteredInv /\ Running /\ stage = rel
      /\ UNCHANGED <<rows, spill, store, enabled, excluded, links, proof, reports, db, altered>>
  BY DEF RowsInv, Drain, Running
<1>2. stage' \in {"failed", "overseas", "fund", "quality", "coverage"}  BY <1>0 DEF Drain, Failed
<1>3. AlteredInv' /\ ~altered  BY <1>1, <1>2, NotAltered
<1>4. CASE ReadRefuses(rel)
  <2>1. stage' = "failed" /\ UNCHANGED tables  BY <1>4 DEF Drain, Failed
  <2>2. RowTypes'  BY <1>1, <2>1 DEF RowTypes
  <2> QED BY <2>1, <2>2, <1>3, FailedRows
<1>5. CASE ~ReadRefuses(rel)
  <2>1. tables' = [tables EXCEPT ![rel] = Sorted(store[rel])] /\ stage' = After[rel]
    BY <1>5 DEF Drain
  <2>2. DOMAIN tables = Silver /\ rel \in Silver  BY <1>1 DEF RowTypes, Silver
  <2>3. RowTypes'  BY <1>0, <1>1, <2>1 DEF RowTypes, Stages
  <2>4. StoreInv'  BY <1>0, <1>1, <2>1, StoreKept
  <2>5. MadeInv'  BY <1>0, <2>1 DEF MadeInv, Draining
  <2>6. tables'[rel] = Sorted(store[rel]) /\ \A t \in Silver \ {rel} : tables'[t] = tables[t]
    BY <2>1, <2>2
  <2>7. Instruments' = Instruments
    <3>1. Ids' = Ids /\ \A p : Lots(p)' = Lots(p)  BY <1>1 DEF Ids, Lots
    <3> QED BY <3>1 DEF Instruments
  <2>8. TablesInv'
    <3>1. /\ tables["bond"] = Sorted(store["bond"]) /\ tables["instrument"] = Sorted(SetToSeq(Instruments))
          /\ stage # "domestic" => tables["domestic"] = Sorted(store["domestic"])
          /\ stage \notin {"domestic", "overseas"} => tables["overseas"] = Sorted(store["overseas"])
          /\ stage \notin {"domestic", "overseas", "fund"} => tables["fund"] = Sorted(store["fund"])
      BY <1>1, <1>3 DEF TablesInv
    <3>2. /\ tables'["bond"] = Sorted(store["bond"]) /\ tables'["instrument"] = Sorted(SetToSeq(Instruments))
      BY <3>1, <2>6 DEF Silver
    <3>3. /\ stage' # "domestic" => tables'["domestic"] = Sorted(store["domestic"])
          /\ stage' \notin {"domestic", "overseas"} => tables'["overseas"] = Sorted(store["overseas"])
          /\ stage' \notin {"domestic", "overseas", "fund"} => tables'["fund"] = Sorted(store["fund"])
          /\ stage' \notin {"domestic", "overseas", "fund", "quality"} => tables'["quality"] = Sorted(store["quality"])
      BY <3>1, <2>1, <2>6, <1>1 DEF Silver, After
    <3>4. stage' \in Draining \ {"verify", "join"}  BY <1>0, <2>1 DEF Draining
    <3> QED BY <3>2, <3>3, <3>4, <2>7, <1>1 DEF TablesInv
  <2> QED BY <1>3, <2>3, <2>4, <2>5, <2>8 DEF RowsInv
<1> QED BY <1>4, <1>5

LEMMA BuildCoverageKeeps == RowsInv /\ BuildCoverage => RowsInv'
<1> SUFFICES ASSUME RowsInv, BuildCoverage PROVE RowsInv'
  OBVIOUS
<1>1. /\ RowTypes /\ StoreInv /\ TablesInv /\ AlteredInv /\ Running /\ stage = "coverage"
      /\ UNCHANGED <<rows, spill, store, enabled, excluded, links, proof, reports, db, altered>>
      /\ stage' \in {"failed", "verify"}
  BY DEF RowsInv, BuildCoverage, Running, Failed
<1>2. AlteredInv' /\ ~altered  BY <1>1, NotAltered
<1>3. CASE ~IsInjective(enabled)
  <2>1. stage' = "failed" /\ UNCHANGED tables  BY <1>3 DEF BuildCoverage, Failed
  <2>2. RowTypes'  BY <1>1, <2>1 DEF RowTypes
  <2> QED BY <2>1, <2>2, <1>2, FailedRows
<1>4. CASE IsInjective(enabled)
  <2>1. tables' = [tables EXCEPT !["coverage"] = Sorted(Owners)] /\ stage' = "verify"
    BY <1>4 DEF BuildCoverage, Owners
  <2>2. DOMAIN tables = Silver /\ "coverage" \in Silver  BY <1>1 DEF RowTypes, Silver
  <2>3. RowTypes'  BY <1>1, <2>1 DEF RowTypes, Stages
  <2>4. StoreInv'  BY <1>1, <2>1, StoreKept
  <2>5. MadeInv'  BY <2>1 DEF MadeInv, Draining
  <2>6. tables'["coverage"] = Sorted(Owners) /\ \A t \in Silver \ {"coverage"} : tables'[t] = tables[t]
    BY <2>1, <2>2
  <2>7. Instruments' = Instruments /\ Owners' = Owners
    <3>1. Ids' = Ids /\ \A p : Lots(p)' = Lots(p)  BY <1>1 DEF Ids, Lots
    <3> QED BY <3>1, <1>1 DEF Instruments, Owners
  <2>8. TablesInv'
    <3>1. /\ tables["bond"] = Sorted(store["bond"]) /\ tables["instrument"] = Sorted(SetToSeq(Instruments))
          /\ tables["domestic"] = Sorted(store["domestic"]) /\ tables["overseas"] = Sorted(store["overseas"])
          /\ tables["fund"] = Sorted(store["fund"]) /\ tables["quality"] = Sorted(store["quality"])
      BY <1>1, <1>2 DEF TablesInv
    <3>2. /\ tables'["bond"] = Sorted(store["bond"]) /\ tables'["instrument"] = Sorted(SetToSeq(Instruments))
          /\ tables'["domestic"] = Sorted(store["domestic"]) /\ tables'["overseas"] = Sorted(store["overseas"])
          /\ tables'["fund"] = Sorted(store["fund"]) /\ tables'["quality"] = Sorted(store["quality"])
      BY <3>1, <2>6 DEF Silver
    <3> QED BY <3>2, <2>1, <2>6, <2>7, <1>1, <1>4 DEF TablesInv, Draining
  <2> QED BY <1>2, <2>3, <2>4, <2>5, <2>8 DEF RowsInv
<1> QED BY <1>3, <1>4

LEMMA CheckTablesKeeps == RowsInv /\ CheckTables => RowsInv'
<1> SUFFICES ASSUME RowsInv, CheckTables PROVE RowsInv'
  OBVIOUS
<1>1. /\ RowTypes /\ StoreInv /\ TablesInv /\ AlteredInv /\ Running /\ stage = "verify"
      /\ UNCHANGED <<rows, spill, store, tables, enabled, excluded, links, proof, reports, db, altered>>
      /\ stage' = IF \A t \in Silver : TableOrdered(t) THEN "join" ELSE "failed"
  BY DEF RowsInv, CheckTables, Running
<1>2. AlteredInv' /\ ~altered  BY <1>1, NotAltered
<1>3. RowTypes'  BY <1>1 DEF RowTypes, Stages
<1>4. CASE stage' = "failed"  BY <1>2, <1>3, <1>4, FailedRows
<1>5. CASE \A t \in Silver : TableOrdered(t)
  <2>1. StoreInv'  BY <1>1, <1>5, StoreKept
  <2>2. MadeInv'  BY <1>1, <1>5 DEF MadeInv, Draining
  <2>3. TablesInv'  BY <1>1, <1>2, <1>5, TablesKept DEF TablesInv, Draining
  <2> QED BY <1>2, <1>3, <2>1, <2>2, <2>3 DEF RowsInv
<1> QED BY <1>1, <1>4, <1>5

\* Past the drains nothing of the store and the Silver tables changes any more.
LEMMA DrainedKeeps ==
    ASSUME RowTypes, StoreInv, TablesInv, Running, ~altered,
           stage \notin (Draining \ {"join"}) \cup {"rows", "bonds"},
           stage' \notin (Draining \ {"join"}) \cup {"rows", "bonds"},
           UNCHANGED <<rows, spill, store, tables, enabled, excluded>>
    PROVE  StoreInv' /\ TablesInv'
<1>0. stage \notin {"rows", "bonds"} /\ stage' \notin {"rows", "bonds"}  OBVIOUS
<1>1. StoreInv'  BY <1>0, StoreKept
<1>2. TablesInv'
  <2>1. stage \notin {"rows", "bonds", "domestic", "overseas", "fund", "quality", "coverage", "verify"}
    BY DEF Draining
  <2>2. /\ tables["bond"] = Sorted(store["bond"]) /\ tables["instrument"] = Sorted(SetToSeq(Instruments))
        /\ tables["domestic"] = Sorted(store["domestic"]) /\ tables["overseas"] = Sorted(store["overseas"])
        /\ tables["fund"] = Sorted(store["fund"]) /\ tables["quality"] = Sorted(store["quality"])
        /\ tables["coverage"] = Sorted(Owners) /\ IsInjective(enabled)
        /\ \A t \in Silver : TableOrdered(t)
    BY <2>1 DEF TablesInv, Draining
  <2> QED BY <2>2, TablesKept DEF TablesInv
<1> QED BY <1>1, <1>2

LEMMA JoinQualityKeeps == RowsInv /\ JoinQuality => RowsInv'
<1> SUFFICES ASSUME RowsInv, JoinQuality PROVE RowsInv'
  OBVIOUS
<1>1. /\ RowTypes /\ StoreInv /\ TablesInv /\ AlteredInv /\ Running /\ stage = "join"
      /\ UNCHANGED <<rows, spill, store, tables, enabled, excluded, links, proof, db, altered>>
      /\ stage' \in {"failed", "links"}
  BY DEF RowsInv, JoinQuality, Running, Failed
<1>2. AlteredInv' /\ ~altered  BY <1>1, NotAltered
<1> DEFINE Fine == QualityJoined(tables["quality"]) /\ CountsAgree /\ ~ReadRefuses("quality")
<1>3. CASE ~Fine
  <2>1. stage' = "failed" /\ UNCHANGED reports  BY <1>3 DEF JoinQuality, Failed
  <2>2. RowTypes'  BY <1>1, <2>1 DEF RowTypes
  <2> QED BY <2>1, <2>2, <1>2, FailedRows
<1>4. CASE Fine
  <2>1. stage' = "links" /\ reports' = [reports EXCEPT !["summary"] = Summary(Sorted(store["quality"]), excluded)]
    BY <1>4 DEF JoinQuality
  <2>2. RowTypes'  BY <1>1, <2>1 DEF RowTypes, Stages
  <2>3. StoreInv' /\ TablesInv'
    BY <1>1, <1>2, <2>1, DrainedKeeps DEF Draining
  <2>4. tables["quality"] = Sorted(store["quality"])  BY <1>1, <1>2 DEF TablesInv
  <2>5. reports'["summary"] = Summary(tables["quality"], excluded)  BY <2>1, <2>4, <1>1 DEF RowTypes
  <2>6. QualityJoined(tables["quality"])'  BY <1>1, <1>4 DEF QualityJoined
  <2>7. MadeInv'  BY <1>1, <2>1, <2>5, <2>6 DEF MadeInv, Built
  <2> QED BY <1>2, <2>2, <2>3, <2>7 DEF RowsInv
<1> QED BY <1>3, <1>4

LEMMA BuildLinksKeeps == RowsInv /\ BuildLinks => RowsInv'
<1> SUFFICES ASSUME RowsInv, BuildLinks PROVE RowsInv'
  OBVIOUS
<1>1. /\ RowTypes /\ StoreInv /\ TablesInv /\ MadeInv /\ AlteredInv /\ Running /\ stage = "links"
      /\ UNCHANGED <<rows, spill, store, tables, enabled, excluded, reports, db, altered>>
      /\ stage' \in {"failed", "evidence"}
  BY DEF RowsInv, BuildLinks, Running, Failed
<1>2. AlteredInv' /\ ~altered  BY <1>1, NotAltered
<1>3. RowTypes'  BY <1>1 DEF RowTypes, Stages
<1>4. CASE stage' = "failed"  BY <1>2, <1>3, <1>4, FailedRows
<1>5. CASE stage' = "evidence"
  <2>1. /\ links' = Sorted(SetToSeq({Link(p) : p \in Joined}))
        /\ proof' = Sorted(SetToSeq(UNION {Evidence(p) : p \in Joined}))
        /\ LeftUnique(Joined) /\ RightUnique(Joined)
    BY <1>5 DEF BuildLinks, Failed
  <2>2. StoreInv' /\ TablesInv'  BY <1>1, <1>2, <1>5, DrainedKeeps DEF Draining
  <2>3. Joined' = Joined  BY <1>1 DEF Joined
  <2>4. QualityJoined(tables["quality"]) /\ reports["summary"] = Summary(tables["quality"], excluded)
    BY <1>1, <1>2 DEF MadeInv, Draining
  <2>5. QualityJoined(tables["quality"])'  BY <1>1, <2>4 DEF QualityJoined
  <2>6. MadeInv'  BY <1>1, <1>5, <2>1, <2>3, <2>4, <2>5 DEF MadeInv, Built
  <2> QED BY <1>2, <1>3, <2>2, <2>6 DEF RowsInv
<1> QED BY <1>1, <1>4, <1>5

\* Once the links are there: what a step leaves alone, and what it adds.
LEMMA LinkedKeeps ==
    ASSUME RowsInv, ~altered, Running, stage \notin Draining \cup {"rows", "bonds", "links"},
           stage' \notin Draining \cup {"rows", "bonds", "links"},
           UNCHANGED <<rows, spill, store, tables, enabled, excluded, links, proof>>
    PROVE  /\ StoreInv' /\ TablesInv'
           /\ QualityJoined(tables["quality"])'
           /\ links' = Sorted(SetToSeq({Link(p) : p \in Joined'}))
           /\ proof' = Sorted(SetToSeq(UNION {Evidence(p) : p \in Joined'}))
           /\ LeftUnique(Joined') /\ RightUnique(Joined')
           /\ reports["summary"] = Summary(tables'["quality"], excluded')
           /\ Contents' = Contents
           /\ EvidenceHolds(links, proof)' <=> EvidenceHolds(links, proof)
           /\ LinkedExist(links, tables)' <=> LinkedExist(links, tables)
           /\ PairsOrdered(links)' <=> PairsOrdered(links)
           /\ Audit(tables, links, proof, tables["quality"])' = Audit(tables, links, proof, tables["quality"])
<1>1. RowTypes /\ StoreInv /\ TablesInv /\ MadeInv  BY DEF RowsInv
<1>2. StoreInv' /\ TablesInv'  BY <1>1, DrainedKeeps
<1>3. /\ QualityJoined(tables["quality"]) /\ reports["summary"] = Summary(tables["quality"], excluded)
      /\ links = Sorted(SetToSeq({Link(p) : p \in Joined}))
      /\ proof = Sorted(SetToSeq(UNION {Evidence(p) : p \in Joined}))
      /\ LeftUnique(Joined) /\ RightUnique(Joined)
  BY <1>1 DEF MadeInv
<1>4. /\ Joined' = Joined /\ Contents' = Contents
      /\ QualityJoined(tables["quality"])' <=> QualityJoined(tables["quality"])
      /\ EvidenceHolds(links, proof)' <=> EvidenceHolds(links, proof)
      /\ Audit(tables, links, proof, tables["quality"])' = Audit(tables, links, proof, tables["quality"])
  BY MadeKept
<1>5. /\ LinkedExist(links, tables)' <=> LinkedExist(links, tables)
      /\ PairsOrdered(links)' <=> PairsOrdered(links)
  BY DEF LinkedExist, PairsOrdered
<1> QED BY <1>2, <1>3, <1>4, <1>5

LEMMA VerifyEvidenceKeeps == RowsInv /\ VerifyEvidence => RowsInv'
<1> SUFFICES ASSUME RowsInv, VerifyEvidence PROVE RowsInv'
  OBVIOUS
<1>1. /\ RowTypes /\ AlteredInv /\ Running /\ stage = "evidence"
      /\ UNCHANGED <<rows, spill, store, tables, enabled, excluded, links, proof, reports, db, altered>>
      /\ stage' \in {"failed", "reports"}
  BY DEF RowsInv, VerifyEvidence, Running
<1>2. AlteredInv' /\ ~altered  BY <1>1, NotAltered
<1>3. RowTypes'  BY <1>1 DEF RowTypes, Stages
<1>4. CASE stage' = "failed"  BY <1>2, <1>3, <1>4, FailedRows
<1>5. CASE stage' = "reports"
  <2>1. EvidenceHolds(links, proof) /\ LinkedExist(links, tables) /\ PairsOrdered(links)
    BY <1>5 DEF VerifyEvidence
  <2>2. stage \notin Draining \cup {"rows", "bonds", "links"} /\ stage' \notin Draining \cup {"rows", "bonds", "links"}
    BY <1>1, <1>5 DEF Draining
  <2>3. MadeInv' /\ StoreInv' /\ TablesInv'
    BY <1>1, <1>2, <1>5, <2>1, <2>2, LinkedKeeps DEF MadeInv, Built
  <2> QED BY <1>2, <1>3, <2>3 DEF RowsInv
<1> QED BY <1>1, <1>4, <1>5

LEMMA WriteReportsKeeps == RowsInv /\ WriteReports => RowsInv'
<1> SUFFICES ASSUME RowsInv, WriteReports PROVE RowsInv'
  OBVIOUS
<1>1. /\ RowTypes /\ MadeInv /\ AlteredInv /\ Running /\ stage = "reports" /\ stage' = "database"
      /\ UNCHANGED <<rows, spill, store, tables, enabled, excluded, links, proof, db, altered>>
      /\ reports' = [reports EXCEPT !["audit"] = Audit(tables, links, proof, tables["quality"])]
  BY DEF RowsInv, WriteReports, Running
<1>2. AlteredInv' /\ ~altered  BY <1>1, NotAltered
<1>3. RowTypes'  BY <1>1 DEF RowTypes, Stages
<1>4. EvidenceHolds(links, proof) /\ LinkedExist(links, tables) /\ PairsOrdered(links)
  BY <1>1, <1>2 DEF MadeInv, Draining
<1>5. stage \notin Draining \cup {"rows", "bonds", "links"} /\ stage' \notin Draining \cup {"rows", "bonds", "links"}
  BY <1>1 DEF Draining
<1>6. /\ reports'["audit"] = Audit(tables, links, proof, tables["quality"])
      /\ reports'["summary"] = reports["summary"]
  BY <1>1 DEF RowTypes
<1>7. MadeInv' /\ StoreInv' /\ TablesInv'
  BY <1>1, <1>2, <1>4, <1>5, <1>6, LinkedKeeps DEF MadeInv, Built
<1> QED BY <1>2, <1>3, <1>7 DEF RowsInv

LEMMA BuildDatabaseKeeps == RowsInv /\ BuildDatabase => RowsInv'
<1> SUFFICES ASSUME RowsInv, BuildDatabase PROVE RowsInv'
  OBVIOUS
<1>1. /\ RowTypes /\ MadeInv /\ AlteredInv /\ Running /\ stage = "database" /\ stage' = "handed"
      /\ UNCHANGED <<rows, spill, store, tables, enabled, excluded, links, proof, reports, altered>>
      /\ db' = Contents
  BY DEF RowsInv, BuildDatabase, Running
<1>2. AlteredInv' /\ ~altered  BY <1>1, NotAltered
<1>3. RowTypes'  BY <1>1 DEF RowTypes, Stages
<1>4. /\ EvidenceHolds(links, proof) /\ LinkedExist(links, tables) /\ PairsOrdered(links)
      /\ reports["audit"] = Audit(tables, links, proof, tables["quality"])
  BY <1>1, <1>2 DEF MadeInv, Draining
<1>5. stage \notin Draining \cup {"rows", "bonds", "links"} /\ stage' \notin Draining \cup {"rows", "bonds", "links"}
  BY <1>1 DEF Draining
<1>6. MadeInv' /\ StoreInv' /\ TablesInv'
  BY <1>1, <1>2, <1>4, <1>5, LinkedKeeps DEF MadeInv
<1> QED BY <1>2, <1>3, <1>6 DEF RowsInv

\* A step of a finished set in which only the stage changes.
LEMMA FinishedKeeps ==
    ASSUME RowsInv, stage \in {"handed", "recount", "compare"}, stage' \in {"recount", "compare", "accepted", "refused"},
           UNCHANGED <<rows, spill, store, tables, enabled, excluded, links, proof, reports, db, altered>>,
           stage' = "refused" => altered,
           stage' = "accepted" => ~altered,
           stage' = "compare" /\ altered => ReportsRight
    PROVE  RowsInv'
<1>1. RowTypes /\ StoreInv /\ TablesInv /\ MadeInv /\ AlteredInv /\ Running  BY DEF RowsInv, Running
<1>2. RowTypes'  BY <1>1 DEF RowTypes, Stages
<1>3. AlteredInv'  BY <1>1, RightKept DEF AlteredInv
<1>4. StoreInv'
  <2>1. stage \notin {"rows", "bonds"} /\ stage' \notin {"rows", "bonds"}  OBVIOUS
  <2> QED BY <1>1, <2>1, StoreKept
<1>5. TablesInv' /\ MadeInv'
  <2>1. CASE altered  BY <2>1 DEF TablesInv, MadeInv
  <2>2. CASE ~altered
    <3>1. stage \notin Draining \cup {"rows", "bonds", "links"} /\ stage' \notin Draining \cup {"rows", "bonds", "links"}
      BY DEF Draining
    <3>2. /\ EvidenceHolds(links, proof) /\ LinkedExist(links, tables) /\ PairsOrdered(links)
          /\ reports["audit"] = Audit(tables, links, proof, tables["quality"]) /\ db = Contents
      BY <1>1, <2>2, <3>1 DEF MadeInv, Built
    <3> QED BY <1>1, <2>2, <3>1, <3>2, LinkedKeeps DEF MadeInv
  <2> QED BY <2>1, <2>2 DEF RowTypes
<1> QED BY <1>2, <1>3, <1>4, <1>5 DEF RowsInv

LEMMA VerifierKeeps == RowsInv /\ (HandOver \/ RecountReports \/ CompareRows) => RowsInv'
<1> SUFFICES ASSUME RowsInv, HandOver \/ RecountReports \/ CompareRows PROVE RowsInv'
  OBVIOUS
<1>1. CASE HandOver  BY <1>1, FinishedKeeps DEF HandOver
<1>2. CASE RecountReports
  <2>1. stage = "recount" /\ stage' = IF ReportsRight THEN "compare" ELSE "refused"  BY <1>2 DEF RecountReports
  <2>2. ~altered => ReportsRight  BY <2>1, PristineReports DEF Built
  <2> QED BY <1>2, <2>1, <2>2, FinishedKeeps DEF RecountReports
<1>3. CASE CompareRows
  <2>1. stage = "compare" /\ stage' = IF BaseRight THEN "accepted" ELSE "refused"  BY <1>3 DEF CompareRows
  <2>2. ~altered => BaseRight  BY <2>1, PristineBase DEF Built
  <2>3. altered => ~BaseRight  BY <2>1 DEF RowsInv, AlteredInv
  <2> QED BY <1>3, <2>1, <2>2, <2>3, FinishedKeeps DEF CompareRows
<1> QED BY <1>1, <1>2, <1>3

LEMMA AlterKeeps == RowsInv /\ (AlterSilver \/ AlterGold \/ AlterReport \/ AlterBase) => RowsInv'
<1> SUFFICES ASSUME RowsInv, AlterSilver \/ AlterGold \/ AlterReport \/ AlterBase PROVE RowsInv'
  OBVIOUS
<1>1. RowTypes /\ StoreInv  BY DEF RowsInv
<1>2. /\ stage = "handed" /\ stage' = stage /\ altered' = TRUE
      /\ UNCHANGED <<rows, spill, store, enabled, excluded>>
  BY DEF AlterSilver, AlterGold, AlterReport, AlterBase, Altering, Rest
<1>3. (~ReportsRight \/ ~BaseRight)'
  BY SilverShows, GoldShows, ReportShows, BaseShows
<1>4. AlteredInv'  BY <1>2, <1>3 DEF AlteredInv
<1>5. TablesInv' /\ MadeInv'  BY <1>2 DEF TablesInv, MadeInv
<1>6. StoreInv'
  <2>1. stage \notin {"rows", "bonds"} /\ stage' \notin {"rows", "bonds"} /\ Running  BY <1>2 DEF Running
  <2> QED BY <1>1, <1>2, <2>1, StoreKept
<1>7. DOMAIN tables' = Silver /\ DOMAIN reports' = {"audit", "summary"}
  BY <1>1 DEF RowTypes, AlterSilver, AlterGold, AlterReport, AlterBase
<1>8. RowTypes'  BY <1>1, <1>2, <1>7 DEF RowTypes, Stages
<1> QED BY <1>4, <1>5, <1>6, <1>8 DEF RowsInv

\* A source row more: who is of its source, staged, a candidate.
LEMMA OneRowMore ==
    ASSUME RowTypes, NEW r \in Shapes, rows' = Append(rows, r)
    PROVE  /\ Len(rows) \in Nat /\ Len(rows') = Len(rows) + 1 /\ rows' \in Seq(Shapes)
           /\ 1..Len(rows') = (1..Len(rows)) \cup {Len(rows) + 1}
           /\ rows'[Len(rows) + 1] = r /\ \A m \in 1..Len(rows) : rows'[m] = rows[m]
           /\ \A src : Of(src)' = IF r.src = src THEN Of(src) \cup {Len(rows) + 1} ELSE Of(src)
           /\ \A src : Staged(src)' = IF r.src = src /\ ~Blocked(r, Len(rows) + 1)
                                      THEN Staged(src) \cup {Len(rows) + 1} ELSE Staged(src)
           /\ \A src : Len(rows) + 1 \notin Of(src) /\ Len(rows) + 1 \notin Staged(src)
           /\ \A src : Staged(src) \subseteq 1..Len(rows) /\ Of(src) \subseteq 1..Len(rows)
<1> DEFINE l == Len(rows)
           n == l + 1
<1>1. l \in Nat /\ rows \in Seq(Shapes)  BY LenProperties DEF RowTypes
<1>2. rows' \in Seq(Shapes) /\ Len(rows') = n /\ rows'[n] = r /\ \A m \in 1..l : rows'[m] = rows[m]
  BY <1>1, AppendProperties
<1>3. 1..n = (1..l) \cup {n} /\ n \notin 1..l
  <2> HIDE DEF l
  <2> QED BY <1>1
<1>4. \A m \in 1..n : m \in 1..l \/ m = n
  <2> HIDE DEF n, l
  <2> QED BY <1>3
<1>5. \A src : Of(src)' = {m \in 1..n : rows'[m].src = src}
  BY <1>2 DEF Of
<1>6. ASSUME NEW src PROVE Of(src)' = IF r.src = src THEN Of(src) \cup {n} ELSE Of(src)
  <2>1. Of(src) = {m \in 1..l : rows[m].src = src}  BY DEF Of
  <2> HIDE DEF n, l
  <2> QED BY <2>1, <1>2, <1>3, <1>4, <1>5
<1>7. ASSUME NEW src PROVE Staged(src)' = IF r.src = src /\ ~Blocked(r, n) THEN Staged(src) \cup {n} ELSE Staged(src)
  <2>1. Staged(src)' = {m \in Of(src)' : ~Blocked(rows'[m], m)}  BY DEF Staged
  <2>2. Staged(src) = {m \in Of(src) : ~Blocked(rows[m], m)}  BY DEF Staged
  <2>3. \A m \in Of(src) : m \in 1..l  BY DEF Of
  <2> HIDE DEF n, l
  <2> QED BY <2>1, <2>2, <2>3, <1>2, <1>3, <1>6
<1>8. \A src : Of(src) \subseteq 1..l /\ Staged(src) \subseteq 1..l  BY DEF Of, Staged
<1> QED BY <1>1, <1>2, <1>3, <1>6, <1>7, <1>8

\* What a source row adds to the store.
LEMMA OneRowStaged ==
    ASSUME RowTypes, NEW r \in Shapes, Receive(r), stage' # "failed"
    PROVE  /\ stage' = "rows" /\ DOMAIN store' = Relations
           /\ \A src \in {"bond", "domestic", "overseas", "fund"} :
                 store'[src] = IF r.src = src /\ ~Blocked(r, Len(rows) + 1)
                               THEN Append(store[src], Record(r, Len(rows) + 1)) ELSE store[src]
           /\ store'["quality"] = store["quality"] \o SetToSeq(Issues(r, Len(rows) + 1))
           /\ store'["left"] = IF r.src = "domestic" /\ r.a = 1 /\ ~Blocked(r, Len(rows) + 1)
                               THEN Append(store["left"], [key |-> <<r.id, r.id>>, id |-> r.id, row |-> Len(rows) + 1])
                               ELSE store["left"]
           /\ store'["right"] = IF r.src = "fund" /\ r.a # 0 /\ ~Blocked(r, Len(rows) + 1)
                                THEN Append(store["right"], [key |-> <<r.a, r.id>>, id |-> r.id, row |-> Len(rows) + 1])
                                ELSE store["right"]
<1> DEFINE n == Len(rows) + 1
           rec == Record(r, n)
           cand == Candidates(r, n)
           L == [key |-> <<r.id, r.id>>, id |-> r.id, row |-> n]
           R == [key |-> <<r.a, r.id>>, id |-> r.id, row |-> n]
           kept == IF Blocked(r, n) THEN store
                   ELSE IF cand = {} THEN Inserted(store, r.src, rec)
                   ELSE Inserted(Inserted(store, r.src, rec), (CHOOSE x \in cand : TRUE)[1], (CHOOSE x \in cand : TRUE)[2])
<1>1. stage' = "rows"  BY DEF Receive
<1>2. store' = InsertAll(kept, "quality", Issues(r, n))  BY DEF Receive
<1>3. DOMAIN store = Relations  BY DEF RowTypes
<1>4. r.src \in {"bond", "domestic", "overseas", "fund"}  BY DEF Shapes, Order
<1>5. \A x : x \in {x} /\ (CHOOSE y \in {x} : TRUE) = x  OBVIOUS
<1>6. CASE Blocked(r, n)
  <2>1. store' = [store EXCEPT !["quality"] = @ \o SetToSeq(Issues(r, n))]  BY <1>2, <1>6 DEF InsertAll
  <2>2. DOMAIN store' = Relations /\ store'["quality"] = store["quality"] \o SetToSeq(Issues(r, n))
        /\ \A rel \in Relations \ {"quality"} : store'[rel] = store[rel]
    BY <2>1, <1>3 DEF Relations
  <2>3. {"bond", "domestic", "overseas", "fund", "left", "right"} \subseteq Relations \ {"quality"}  BY DEF Relations
  <2> HIDE DEF n
  <2> QED BY <1>1, <1>6, <2>2, <2>3 DEF n
<1>7. ASSUME ~Blocked(r, n), NEW two, two \in {"left", "right"}, NEW x, cand = {<<two, x>>}
      PROVE  /\ DOMAIN store' = Relations /\ store'["quality"] = store["quality"] \o SetToSeq(Issues(r, n))
             /\ store'[r.src] = Append(store[r.src], rec) /\ store'[two] = Append(store[two], x)
             /\ \A rel \in Relations \ {"quality", r.src, two} : store'[rel] = store[rel]
  <2>1. (CHOOSE y \in cand : TRUE) = <<two, x>>  BY <1>5, <1>7
  <2>2. kept = Inserted(Inserted(store, r.src, rec), two, x)  BY <2>1, <1>7
  <2>3. store' = [[[store EXCEPT ![r.src] = Append(@, rec)] EXCEPT ![two] = Append(@, x)]
                    EXCEPT !["quality"] = @ \o SetToSeq(Issues(r, n))]
    BY <2>2, <1>2 DEF InsertAll, Inserted
  <2> HIDE DEF n, rec, cand, kept
  <2> QED BY <2>3, <1>3, <1>4, <1>7 DEF Relations
<1>8. ASSUME ~Blocked(r, n), cand = {}
      PROVE  /\ DOMAIN store' = Relations /\ store'["quality"] = store["quality"] \o SetToSeq(Issues(r, n))
             /\ store'[r.src] = Append(store[r.src], rec)
             /\ \A rel \in Relations \ {"quality", r.src} : store'[rel] = store[rel]
  <2>1. kept = Inserted(store, r.src, rec)  BY <1>8
  <2>2. store' = [[store EXCEPT ![r.src] = Append(@, rec)] EXCEPT !["quality"] = @ \o SetToSeq(Issues(r, n))]
    BY <2>1, <1>2 DEF InsertAll, Inserted
  <2> HIDE DEF n, rec, cand, kept
  <2> QED BY <2>2, <1>3, <1>4 DEF Relations
<1>9. Relations = {"bond", "domestic", "overseas", "fund", "quality", "left", "right"}  BY DEF Relations
<1>10. CASE ~Blocked(r, n) /\ r.src = "domestic" /\ r.a = 1
  <2>1. cand = {<<"left", L>>}  BY <1>10 DEF Candidates
  <2>2. /\ DOMAIN store' = Relations /\ store'["quality"] = store["quality"] \o SetToSeq(Issues(r, n))
        /\ store'[r.src] = Append(store[r.src], rec) /\ store'["left"] = Append(store["left"], L)
        /\ \A rel \in Relations \ {"quality", r.src, "left"} : store'[rel] = store[rel]
    <3> HIDE DEF cand, L, rec, n
    <3> QED BY <1>7, <1>10, <2>1
  <2> QED BY <2>2, <1>1, <1>9, <1>10
<1>11. CASE ~Blocked(r, n) /\ r.src = "fund" /\ r.a # 0
  <2>1. cand = {<<"right", R>>}  BY <1>11 DEF Candidates
  <2>2. /\ DOMAIN store' = Relations /\ store'["quality"] = store["quality"] \o SetToSeq(Issues(r, n))
        /\ store'[r.src] = Append(store[r.src], rec) /\ store'["right"] = Append(store["right"], R)
        /\ \A rel \in Relations \ {"quality", r.src, "right"} : store'[rel] = store[rel]
    <3> HIDE DEF cand, R, rec, n
    <3> QED BY <1>7, <1>11, <2>1
  <2> QED BY <2>2, <1>1, <1>9, <1>11
<1>12. CASE ~Blocked(r, n) /\ ~(r.src = "domestic" /\ r.a = 1) /\ ~(r.src = "fund" /\ r.a # 0)
  <2>1. cand = {}  BY <1>12 DEF Candidates
  <2>2. /\ DOMAIN store' = Relations /\ store'["quality"] = store["quality"] \o SetToSeq(Issues(r, n))
        /\ store'[r.src] = Append(store[r.src], rec)
        /\ \A rel \in Relations \ {"quality", r.src} : store'[rel] = store[rel]
    <3> HIDE DEF cand, rec, n
    <3> QED BY <1>8, <1>12, <2>1
  <2> QED BY <2>2, <1>1, <1>4, <1>9, <1>12
<1> QED BY <1>6, <1>10, <1>11, <1>12

LEMMA ReceiveKeeps == ASSUME NEW r \in Variants PROVE RowsInv /\ Receive(r) => RowsInv'
<1> SUFFICES ASSUME RowsInv, Receive(r) PROVE RowsInv'
  OBVIOUS
<1>0. r \in Shapes  BY RowsAssumption
<1> DEFINE l == Len(rows)
           n == l + 1
           B == Blocked(r, n)
<1>1. /\ RowTypes /\ StoreInv /\ AlteredInv /\ Running /\ stage = "rows" /\ rows' = Append(rows, r)
      /\ UNCHANGED <<spill, tables, links, proof, reports, db, altered>>
      /\ stage' \in {"failed", "rows"}
  BY DEF RowsInv, Receive, Running
<1>2. /\ excluded' = IF B THEN [excluded EXCEPT ![Grain(r.src)] = @ + 1] ELSE excluded
      /\ enabled' = IF B \/ r.src = "bond" THEN enabled ELSE Append(enabled, Owner(r))
  BY DEF Receive
<1>3. AlteredInv' /\ ~altered  BY <1>1, NotAltered
<1>4. /\ l \in Nat /\ Len(rows') = n /\ rows' \in Seq(Shapes) /\ 1..n = (1..l) \cup {n}
      /\ rows'[n] = r /\ \A m \in 1..l : rows'[m] = rows[m]
      /\ \A src : Of(src)' = IF r.src = src THEN Of(src) \cup {n} ELSE Of(src)
      /\ \A src : Staged(src)' = IF r.src = src /\ ~B THEN Staged(src) \cup {n} ELSE Staged(src)
      /\ \A src : n \notin Of(src) /\ n \notin Staged(src)
      /\ \A src : Staged(src) \subseteq 1..l /\ Of(src) \subseteq 1..l
  BY <1>0, <1>1, OneRowMore
<1>5. r.src \in {"bond", "domestic", "overseas", "fund"} /\ r.a \in Nat  BY <1>0 DEF Shapes, Order
<1>6. excluded' \in [Grains -> Nat]
  <2>1. excluded \in [Grains -> Nat]  BY <1>1 DEF RowTypes
  <2>2. Grain(r.src) \in Grains  BY <1>5 DEF Grain, Grains
  <2> QED BY <2>1, <2>2, <1>2
<1>7. DOMAIN store' = Relations
  <2>1. DOMAIN store = Relations  BY <1>1 DEF RowTypes
  <2> QED BY <2>1 DEF Receive, InsertAll, Inserted
<1>8. RowTypes'  BY <1>1, <1>4, <1>6, <1>7 DEF RowTypes, Stages
<1>9. CASE stage' = "failed"  BY <1>3, <1>8, <1>9, FailedRows
<1>10. CASE stage' = "rows"
  <2>0. /\ \A src \in {"bond", "domestic", "overseas", "fund"} :
              store'[src] = IF r.src = src /\ ~B THEN Append(store[src], Record(r, n)) ELSE store[src]
        /\ store'["quality"] = store["quality"] \o SetToSeq(Issues(r, n))
        /\ store'["left"] = IF r.src = "domestic" /\ r.a = 1 /\ ~B
                            THEN Append(store["left"], [key |-> <<r.id, r.id>>, id |-> r.id, row |-> n])
                            ELSE store["left"]
        /\ store'["right"] = IF r.src = "fund" /\ r.a # 0 /\ ~B
                             THEN Append(store["right"], [key |-> <<r.a, r.id>>, id |-> r.id, row |-> n])
                             ELSE store["right"]
    BY <1>0, <1>1, <1>10, OneRowStaged
  <2>1. /\ IsSeq(enabled) /\ \A rel \in Relations : IsSeq(store[rel])
        /\ RelationsStaged /\ CandidatesStaged /\ QualityStaged /\ CoverageOwed /\ ExcludedCounted
    BY <1>1 DEF StoreInv
  <2>2. DOMAIN Order = {"bond", "domestic", "overseas", "fund"}
        /\ Relations = {"bond", "domestic", "overseas", "fund", "quality", "left", "right"}
    BY DEF Order, Relations
  <2>3. IsFiniteSet(Issues(r, n))  BY <1>0, <1>4, IssueFacts
  <2> HIDE DEF l, n, B
  <2>4. \A rel \in Relations : IsSeq(store'[rel])
    <3>1. \A x : \A rel \in Relations : IsSeq(Append(store[rel], x))  BY <2>1, Appended
    <3>2. IsSeq(store["quality"] \o SetToSeq(Issues(r, n)))
      <4>1. IsSeq(SetToSeq(Issues(r, n)))  BY <2>3, Listed
      <4> QED BY <4>1, <2>1, <2>2, Joint
    <3> QED BY <3>1, <3>2, <2>0, <2>1, <2>2
  <2>5. IsSeq(enabled') /\ CoverageOwed'
    <3> DEFINE K == {m \in 1..l : rows[m].src # "bond" /\ ~Blocked(rows[m], m)}
               K2 == {m \in 1..n : rows'[m].src # "bond" /\ ~Blocked(rows'[m], m)}
    <3>1. ToSet(enabled) = {Owner(rows[m]) : m \in K}  BY <2>1 DEF CoverageOwed, l
    <3>2. K2 = IF B \/ r.src = "bond" THEN K ELSE K \cup {n}  BY <1>4 DEF B
    <3>3. ToSet(enabled') = {Owner(rows'[m]) : m \in K2}
      <4>0. \A m \in K : rows'[m] = rows[m]  BY <1>4
      <4>1. CASE B \/ r.src = "bond"
        <5>1. enabled' = enabled /\ K2 = K  BY <4>1, <3>2, <1>2
        <5> HIDE DEF K, K2
        <5> QED BY <5>1, <3>1, <4>0
      <4>2. CASE ~(B \/ r.src = "bond")
        <5>1. ToSet(enabled') = ToSet(enabled) \cup {Owner(r)}  BY <4>2, <1>2, <2>1, Appended
        <5>2. K2 = K \cup {n}  BY <4>2, <3>2
        <5> HIDE DEF K, K2
        <5> QED BY <5>1, <5>2, <3>1, <4>0, <1>4
      <4> QED BY <4>1, <4>2
    <3>4. CoverageOwed'  BY <3>3, <1>4 DEF CoverageOwed
    <3>5. IsSeq(enabled')  BY <1>2, <2>1, Appended
    <3> QED BY <3>4, <3>5
  <2>6. RelationsStaged'
    <3> SUFFICES ASSUME NEW src \in DOMAIN Order
                 PROVE  /\ ToSet(store'[src]) = {Record(rows'[m], m) : m \in Staged(src)'}
                        /\ Len(store'[src]) = Cardinality(Staged(src)')
      BY DEF RelationsStaged
    <3>1. /\ ToSet(store[src]) = {Record(rows[m], m) : m \in Staged(src)}
          /\ Len(store[src]) = Cardinality(Staged(src))
      BY <2>1 DEF RelationsStaged
    <3>2. IsSeq(store[src])  BY <2>1, <2>2
    <3>3. \A m \in Staged(src) : rows'[m] = rows[m]  BY <1>4
    <3>4. CASE r.src = src /\ ~B
      <4>1. /\ store'[src] = Append(store[src], Record(r, n)) /\ Staged(src)' = Staged(src) \cup {n}
            /\ n \notin Staged(src)
        BY <3>4, <2>0, <2>2, <1>4
      <4>2. Cardinality(Staged(src) \cup {n}) = Cardinality(Staged(src)) + 1
        BY <4>1, <1>1, CountFacts, FS_AddElement
      <4>3. ToSet(store'[src]) = ToSet(store[src]) \cup {Record(r, n)} /\ Len(store'[src]) = Len(store[src]) + 1
        BY <4>1, <3>2, Appended
      <4> QED BY <4>1, <4>2, <4>3, <3>1, <3>3, <1>4
    <3>5. CASE ~(r.src = src /\ ~B)
      <4>1. store'[src] = store[src] /\ Staged(src)' = Staged(src)  BY <3>5, <2>0, <2>2, <1>4
      <4> QED BY <4>1, <3>1, <3>3
    <3> QED BY <3>4, <3>5
  <2>7. CandidatesStaged'
    <3> DEFINE L(rr, m) == [key |-> <<rr.id, rr.id>>, id |-> rr.id, row |-> m]
               R(rr, m) == [key |-> <<rr.a, rr.id>>, id |-> rr.id, row |-> m]
    <3>1. /\ ToSet(store["left"]) = {L(rows[m], m) : m \in Etfs}
          /\ ToSet(store["right"]) = {R(rows[m], m) : m \in KsdFunds}
      BY <2>1 DEF CandidatesStaged
    <3>2. IsSeq(store["left"]) /\ IsSeq(store["right"])  BY <2>1, <2>2
    <3>3. \A m \in Etfs \cup KsdFunds : rows'[m] = rows[m]  BY <1>4 DEF Etfs, KsdFunds
    <3>4. Etfs' = {m \in Staged("domestic")' : rows'[m].a = 1} /\ KsdFunds' = {m \in Staged("fund")' : rows'[m].a # 0}
      BY DEF Etfs, KsdFunds
    <3>5. Etfs = {m \in Staged("domestic") : rows[m].a = 1} /\ KsdFunds = {m \in Staged("fund") : rows[m].a # 0}
      BY DEF Etfs, KsdFunds
    <3>6. Etfs' = IF r.src = "domestic" /\ r.a = 1 /\ ~B THEN Etfs \cup {n} ELSE Etfs
      BY <3>4, <3>5, <1>4
    <3>7. KsdFunds' = IF r.src = "fund" /\ r.a # 0 /\ ~B THEN KsdFunds \cup {n} ELSE KsdFunds
      BY <3>4, <3>5, <1>4
    <3>8. ToSet(store'["left"]) = {L(rows'[m], m) : m \in Etfs'}
      <4>1. CASE r.src = "domestic" /\ r.a = 1 /\ ~B
        <5>1. store'["left"] = Append(store["left"], L(r, n)) /\ Etfs' = Etfs \cup {n}  BY <4>1, <2>0, <3>6
        <5> HIDE DEF L
        <5>2. ToSet(store'["left"]) = ToSet(store["left"]) \cup {L(r, n)}  BY <5>1, <3>2, Appended
        <5> QED BY <5>1, <5>2, <3>1, <3>3, <1>4
      <4>2. CASE ~(r.src = "domestic" /\ r.a = 1 /\ ~B)
        <5>1. store'["left"] = store["left"] /\ Etfs' = Etfs  BY <4>2, <2>0, <3>6
        <5> HIDE DEF L
        <5> QED BY <5>1, <3>1, <3>3
      <4> QED BY <4>1, <4>2
    <3>9. ToSet(store'["right"]) = {R(rows'[m], m) : m \in KsdFunds'}
      <4>1. CASE r.src = "fund" /\ r.a # 0 /\ ~B
        <5>1. store'["right"] = Append(store["right"], R(r, n)) /\ KsdFunds' = KsdFunds \cup {n}  BY <4>1, <2>0, <3>7
        <5> HIDE DEF R
        <5>2. ToSet(store'["right"]) = ToSet(store["right"]) \cup {R(r, n)}  BY <5>1, <3>2, Appended
        <5> QED BY <5>1, <5>2, <3>1, <3>3, <1>4
      <4>2. CASE ~(r.src = "fund" /\ r.a # 0 /\ ~B)
        <5>1. store'["right"] = store["right"] /\ KsdFunds' = KsdFunds  BY <4>2, <2>0, <3>7
        <5> HIDE DEF R
        <5> QED BY <5>1, <3>1, <3>3
      <4> QED BY <4>1, <4>2
    <3> QED BY <3>8, <3>9 DEF CandidatesStaged
  <2>8. QualityStaged'
    <3>1. ToSet(store["quality"]) = UNION {Issues(rows[m], m) : m \in 1..l}
      <4>1. ToSet(store["quality"]) = (UNION {Issues(rows[m], m) : m \in 1..Len(rows)}) \cup {}
        BY <2>1, <1>1 DEF QualityStaged
      <4> QED BY <4>1 DEF l
    <3>2. ToSet(store'["quality"]) = ToSet(store["quality"]) \cup Issues(r, n)
      <4>1. IsSeq(SetToSeq(Issues(r, n))) /\ ToSet(SetToSeq(Issues(r, n))) = Issues(r, n)  BY <2>3, Listed
      <4>2. IsSeq(store["quality"])  BY <2>1, <2>2
      <4> QED BY <4>1, <4>2, <2>0, Joint
    <3>3. ToSet(store'["quality"]) = UNION {Issues(rows'[m], m) : m \in 1..n}
      <4>1. ASSUME NEW x \in ToSet(store'["quality"]) PROVE \E m \in 1..n : x \in Issues(rows'[m], m)
        <5>1. CASE x \in Issues(r, n)  BY <5>1, <1>4
        <5>2. CASE x \in ToSet(store["quality"])
          <6>1. PICK m \in 1..l : x \in Issues(rows[m], m)  BY <5>2, <3>1
          <6>2. m \in 1..n /\ rows'[m] = rows[m]  BY <1>4
          <6> QED BY <6>1, <6>2
        <5> QED BY <5>1, <5>2, <3>2
      <4>2. ASSUME NEW m \in 1..n, NEW x \in Issues(rows'[m], m) PROVE x \in ToSet(store'["quality"])
        <5>1. CASE m = n  BY <5>1, <4>2, <3>2, <1>4
        <5>2. CASE m \in 1..l
          <6>1. x \in Issues(rows[m], m)  BY <5>2, <4>2, <1>4
          <6>2. x \in ToSet(store["quality"])  BY <5>2, <6>1, <3>1
          <6> QED BY <6>2, <3>2
        <5> QED BY <5>1, <5>2, <1>4
      <4> QED BY <4>1, <4>2
    <3> QED BY <3>3, <1>4, <1>10 DEF QualityStaged
  <2>9. ExcludedCounted'
    <3> DEFINE X(src) == Of(src) \ Staged(src)
    <3>1. ASSUME NEW src
          PROVE  /\ Cardinality(Of(src)' \ Staged(src)') =
                       IF r.src = src /\ B THEN Cardinality(X(src)) + 1 ELSE Cardinality(X(src))
                 /\ Cardinality(X(src)) \in Nat
      <4>1. IsFiniteSet(X(src)) /\ Cardinality(X(src)) \in Nat  BY <1>1, CountFacts
      <4>2. CASE r.src = src /\ B
        <5>1. Of(src)' \ Staged(src)' = X(src) \cup {n} /\ n \notin X(src)  BY <4>2, <1>4
        <5> HIDE DEF X
        <5>2. Cardinality(X(src) \cup {n}) = Cardinality(X(src)) + 1  BY <4>1, <5>1, FS_AddElement
        <5> QED BY <4>1, <4>2, <5>1, <5>2
      <4>3. CASE ~(r.src = src /\ B)
        <5>1. Of(src)' \ Staged(src)' = X(src)  BY <4>3, <1>4
        <5> HIDE DEF X
        <5> QED BY <4>1, <4>3, <5>1
      <4> QED BY <4>2, <4>3
    <3>2. /\ excluded["instrument"] = Cardinality(X("bond"))
          /\ excluded["fund_item"] = Cardinality(X("fund"))
          /\ excluded["listed_product"] = Cardinality(X("domestic")) + Cardinality(X("overseas"))
      BY <2>1 DEF ExcludedCounted
    <3>3. /\ Grain("bond") = "instrument" /\ Grain("fund") = "fund_item"
          /\ Grain("domestic") = "listed_product" /\ Grain("overseas") = "listed_product"
      BY DEF Grain
    <3>4. DOMAIN excluded = {"instrument", "fund_item", "listed_product"}  BY <1>1 DEF RowTypes, Grains
    <3> HIDE DEF X
    <3>5. excluded'["instrument"] = Cardinality(Of("bond")' \ Staged("bond")')
      BY <3>1, <3>2, <3>3, <3>4, <1>2, <1>5
    <3>6. excluded'["fund_item"] = Cardinality(Of("fund")' \ Staged("fund")')
      BY <3>1, <3>2, <3>3, <3>4, <1>2, <1>5
    <3>7. excluded'["listed_product"] = Cardinality(Of("domestic")' \ Staged("domestic")')
                                        + Cardinality(Of("overseas")' \ Staged("overseas")')
      BY <3>1, <3>2, <3>3, <3>4, <1>2, <1>5
    <3> QED BY <3>5, <3>6, <3>7 DEF ExcludedCounted
  <2>10. StoreInv'  BY <2>4, <2>5, <2>6, <2>7, <2>8, <2>9 DEF StoreInv
  <2>11. TablesInv' /\ MadeInv'  BY <1>10 DEF TablesInv, MadeInv
  <2> QED BY <1>3, <1>8, <2>10, <2>11 DEF RowsInv
<1> QED BY <1>1, <1>9, <1>10

\* The builder, whatever is altered in its result, and the verifier keep RowsInv:
\* the store says what the rows so far say, a table is its relation in order, and
\* an alteration shows in the reports or in the database.
THEOREM RowsKept == RSpec => []RowsInv
<1>1. RInit => RowsInv  BY RowsStart
<1>2. RowsInv /\ [RNext]_rvars => RowsInv'
  <2> SUFFICES ASSUME RowsInv, [RNext]_rvars PROVE RowsInv'
    OBVIOUS
  <2>1. CASE UNCHANGED rvars
    <3>1. RowTypes /\ StoreInv /\ TablesInv /\ MadeInv /\ AlteredInv  BY DEF RowsInv
    <3>2. UNCHANGED <<rows, spill, stage, store, tables, enabled, excluded, links, proof, reports, db, altered>>
      BY <2>1 DEF rvars
    <3>3. RowTypes'  BY <3>1, <3>2 DEF RowTypes
    <3>4. StoreInv'
      <4>1. CASE Running  BY <4>1, <3>1, <3>2, StoreKept
      <4>2. CASE ~Running  BY <4>2, <3>2 DEF StoreInv, Running
      <4> QED BY <4>1, <4>2
    <3>5. TablesInv'  BY <3>1, <3>2, TablesKept DEF TablesInv, Running
    <3>6. MadeInv'
      <4>1. /\ LinkedExist(links, tables)' <=> LinkedExist(links, tables)
            /\ PairsOrdered(links)' <=> PairsOrdered(links)
        BY <3>2 DEF LinkedExist, PairsOrdered
      <4> QED BY <3>1, <3>2, <4>1, MadeKept DEF MadeInv, Running, Built
    <3>7. AlteredInv'  BY <3>1, <3>2, RightKept DEF AlteredInv
    <3> QED BY <3>3, <3>4, <3>5, <3>6, <3>7 DEF RowsInv
  <2>2. ASSUME NEW r \in Variants, Receive(r) PROVE RowsInv'  BY <2>2, ReceiveKeeps
  <2>3. CASE EndRows  BY <2>3, EndRowsKeeps
  <2>4. CASE DrainBonds  BY <2>4, DrainBondsKeeps
  <2>5. ASSUME NEW rel \in {"domestic", "overseas", "fund", "quality"}, Drain(rel) PROVE RowsInv'
    BY <2>5, DrainKeeps
  <2>6. CASE BuildCoverage  BY <2>6, BuildCoverageKeeps
  <2>7. CASE CheckTables  BY <2>7, CheckTablesKeeps
  <2>8. CASE JoinQuality  BY <2>8, JoinQualityKeeps
  <2>9. CASE BuildLinks  BY <2>9, BuildLinksKeeps
  <2>10. CASE VerifyEvidence  BY <2>10, VerifyEvidenceKeeps
  <2>11. CASE WriteReports  BY <2>11, WriteReportsKeeps
  <2>12. CASE BuildDatabase  BY <2>12, BuildDatabaseKeeps
  <2>13. CASE AlterSilver \/ AlterGold \/ AlterReport \/ AlterBase  BY <2>13, AlterKeeps
  <2>14. CASE HandOver \/ RecountReports \/ CompareRows  BY <2>14, VerifierKeeps
  <2> QED
    BY <2>1, <2>2, <2>3, <2>4, <2>5, <2>6, <2>7, <2>8, <2>9, <2>10, <2>11, <2>12, <2>13, <2>14 DEF RNext
<1> QED BY <1>1, <1>2, PTL DEF RSpec

(***************************************************************************)
(* The properties.                                                         *)
(***************************************************************************)

\* No source row is lost or kept twice on the way to a finished set, every bond
\* product has its instrument with the best yield and a conflict on record, and
\* every listed product and fund one coverage row (consume, _drain_bond_relation,
\* project_bond_instrument, build_holding_relations), for any rows in any order.
THEOREM RowsAreAccounted == RSpec => []RowsAccounted
<1>1. RowsInv => RowsAccounted
  <2> SUFFICES ASSUME RowsInv, Built, ~altered PROVE RowsAccounted
    BY DEF RowsAccounted
  <2>1. /\ RowTypes /\ StoreInv /\ TablesInv /\ Running
        /\ stage \notin Draining \cup {"rows", "bonds", "links", "evidence", "reports"}
    BY BuiltStage DEF RowsInv
  <2>2. /\ \A t \in {"bond", "domestic", "overseas", "fund", "quality"} : ToSet(tables[t]) = ToSet(store[t])
        /\ ToSet(tables["instrument"]) = Instruments /\ ToSet(tables["coverage"]) = ToSet(Owners)
        /\ \A t \in Silver : InOrder(tables[t], Width[t]) /\ TableOrdered(t)
    BY <2>1, SilverRows
  <2>3. ASSUME NEW n \in 1..Len(rows)
        PROVE  (\E x \in ToSet(tables[rows[n].src]) : x.row = n) # (n \in Quarantined(tables["quality"]))
    <3> DEFINE src == rows[n].src
    <3>1. src \in {"bond", "domestic", "overseas", "fund"} /\ src \in DOMAIN Order /\ n \in Nat /\ rows[n] \in Shapes
      BY <2>1, RowShape DEF Order
    <3>2. (\E x \in ToSet(tables[src]) : x.row = n) <=> ~Blocked(rows[n], n)
      <4>1. ToSet(tables[src]) = ToSet(store[src])  BY <2>2, <3>1
      <4>2. ASSUME NEW x \in ToSet(store[src]), x.row = n PROVE ~Blocked(rows[n], n)
        BY <2>1, <3>1, <4>2, RecordsOf
      <4>3. ASSUME ~Blocked(rows[n], n) PROVE \E x \in ToSet(store[src]) : x.row = n
        <5>1. n \in Staged(src)  BY <4>3 DEF Staged, Of
        <5>2. Record(rows[n], n) \in ToSet(store[src]) /\ Record(rows[n], n).row = n
          BY <2>1, <3>1, <5>1, RecordsOf DEF Record
        <5> QED BY <5>2
      <4> QED BY <4>1, <4>2, <4>3
    <3>3. n \in Quarantined(tables["quality"]) <=> Blocked(rows[n], n)
      <4>1. ToSet(tables["quality"]) = ToSet(store["quality"])  BY <2>2
      <4>2. ASSUME NEW x \in ToSet(store["quality"]), x.quarantined, x.row = n PROVE Blocked(rows[n], n)
        <5>1. x \in Issues(rows[n], n)  BY <2>1, <4>2, QualityOf
        <5> QED BY <5>1, <4>2 DEF Blocked
      <4>3. ASSUME Blocked(rows[n], n) PROVE \E x \in ToSet(store["quality"]) : x.quarantined /\ x.row = n
        <5>1. PICK x \in Issues(rows[n], n) : x.quarantined  BY <4>3 DEF Blocked
        <5>2. x \in ToSet(store["quality"]) /\ x.row = n  BY <2>1, <3>1, QualityOf, IssueFacts
        <5> QED BY <5>1, <5>2
      <4> QED BY <4>1, <4>2, <4>3 DEF Quarantined
    <3> QED BY <3>2, <3>3
  <2>4. {x.id : x \in ToSet(tables["instrument"])} = {x.id : x \in ToSet(tables["bond"])}
    <3>1. {x.id : x \in ToSet(tables["bond"])} = Ids  BY <2>2 DEF Ids
    <3>2. \A p \in Ids : Instrument(Lots(p)).id = p  BY <2>1, LotsOf
    <3>3. {x.id : x \in Instruments} = Ids  BY <3>2 DEF Instruments
    <3> QED BY <3>1, <3>3, <2>2
  <2>5. ASSUME NEW x \in ToSet(tables["instrument"]), NEW y \in ToSet(tables["bond"]), x.id = y.id
        PROVE  /\ y.b <= x.b
               /\ \A z \in ToSet(tables["bond"]) : z.id = x.id /\ z.a # y.a =>
                    x.a = 0 /\ \E q \in ToSet(tables["quality"]) : q.key[3] = Conflict /\ rows[q.row].id = x.id
    <3>1. PICK p \in Ids : x = Instrument(Lots(p))  BY <2>2 DEF Instruments
    <3> DEFINE S == Lots(p)
    <3>2. /\ \A h \in S : h \in ToSet(store["bond"]) /\ h.id = p
          /\ FirstLot(S) \in S /\ \A h \in S : h.b <= Selected(S).b
          /\ x.id = p /\ x.b = Selected(S).b
      BY <2>1, <3>1, LotsOf
    <3>3. \A z \in ToSet(tables["bond"]) : z.id = p => z \in S  BY <2>2 DEF Lots
    <3>4. y \in S /\ y.b <= x.b  BY <3>2, <3>3, <2>5
    <3>5. ASSUME NEW z \in ToSet(tables["bond"]), z.id = x.id, z.a # y.a
          PROVE  x.a = 0 /\ \E q \in ToSet(tables["quality"]) : q.key[3] = Conflict /\ rows[q.row].id = x.id
      <4>1. ~Agreed(S)  BY <3>2, <3>3, <3>4, <3>5 DEF Agreed
      <4>2. x.a = 0  BY <3>1, <4>1 DEF Instrument
      <4> DEFINE q == Issue(FirstLot(S).row, 2, Conflict, FALSE)
      <4>3. q \in ParentIssues(S)  BY <4>1 DEF ParentIssues
      <4>4. q \in ToSet(tables["quality"])  BY <4>3, <2>1, <2>2, QualityOf
      <4>5. q.key[3] = Conflict /\ q.row = FirstLot(S).row  BY DEF Issue
      <4>6. "bond" \in DOMAIN Order  BY DEF Order
      <4>7. rows[FirstLot(S).row].id = FirstLot(S).id  BY <2>1, <3>2, <4>6, RecordsOf
      <4>8. rows[q.row].id = x.id  BY <4>5, <4>7, <3>2
      <4> HIDE DEF q
      <4> QED BY <4>2, <4>4, <4>5, <4>8
    <3> QED BY <3>4, <3>5
  <2>6. {x.key : x \in ToSet(tables["coverage"])} =
           {Owner(rows[n]) : n \in {m \in 1..Len(rows) : rows[m].src # "bond" /\ ~Blocked(rows[m], m)}}
    <3>1. {x.key : x \in ToSet(Owners)} = ToSet(enabled)
      <4>0. IsSeq(enabled)  BY <2>1 DEF StoreInv
      <4>1. ASSUME NEW k \in ToSet(enabled) PROVE \E x \in ToSet(Owners) : x.key = k
        <5>1. PICK i \in 1..Len(enabled) : enabled[i] = k  BY <4>0, SeqFacts
        <5>2. Owners[i].key = k /\ IsSeq(Owners) /\ Len(Owners) = Len(enabled)  BY <5>1, <2>1, OwnerFacts
        <5>3. Owners[i] \in ToSet(Owners)  BY <5>2, SeqFacts
        <5> QED BY <5>2, <5>3
      <4>2. \A x \in ToSet(Owners) : x.key \in ToSet(enabled)  BY <2>1, OwnerFacts
      <4> QED BY <4>1, <4>2
    <3> QED BY <3>1, <2>1, <2>2 DEF StoreInv, CoverageOwed
  <2>7. IsInjective([i \in 1..Len(tables["coverage"]) |-> tables["coverage"][i].key])
    <3>1. TableOrdered("coverage")  BY <2>2 DEF Silver
    <3>2. \A x : UniqueKey("coverage", x) = x.key  BY DEF UniqueKey
    <3> QED BY <3>1, <3>2 DEF TableOrdered, IsInjective
  <2> QED BY <2>3, <2>4, <2>5, <2>6, <2>7 DEF RowsAccounted
<1> QED BY <1>1, RowsKept, PTL

\* A finished set links a domestic ETF and a fund exactly when the fund's ksd
\* identifier is the ETF's, and no product twice (build_exact_links,
\* _reject_left_conflicts, _reject_right_and_duplicate_conflicts), whatever the limit.
THEOREM LinksAreExact == RSpec => []LinksExact
<1>1. RowsInv => LinksExact
  <2> SUFFICES ASSUME RowsInv, Built, ~altered PROVE LinksExact
    BY DEF LinksExact
  <2>1. /\ RowTypes /\ StoreInv /\ TablesInv /\ MadeInv /\ Running
        /\ stage \notin Draining \cup {"rows", "bonds", "links", "evidence", "reports"}
    BY BuiltStage DEF RowsInv
  <2>2. ToSet(links) = LinkRows  BY <2>1, GoldRows
  <2>3. LeftUnique(Joined) /\ RightUnique(Joined)  BY <2>1 DEF MadeInv
  <2> DEFINE P == {q \in Of("domestic") \X Of("fund") :
                       /\ rows[q[1]].id # 0 /\ rows[q[1]].a = 1 /\ rows[q[2]].id # 0
                       /\ rows[q[2]].a = rows[q[1]].id}
  <2>4. ASSUME NEW x \in ToSet(links) PROVE \E p \in P : x.key = <<rows[p[1]].id, rows[p[2]].id>>
    <3>1. PICK h \in Joined : x = Link(h)  BY <2>2 DEF LinkRows
    <3> DEFINE n == h.left.row
               m == h.right.row
    <3>2. /\ h.left \in ToSet(store["left"]) /\ h.right \in ToSet(store["right"])
          /\ h.raw = h.left.id /\ h.raw = rows[m].a
      BY <2>1, JoinedFacts
    <3>3. /\ n \in Etfs /\ m \in KsdFunds /\ h.left.id = rows[n].id /\ h.right.id = rows[m].id
          /\ n \in 1..Len(rows) /\ m \in 1..Len(rows)
      BY <2>1, <3>2, CandidatesOf
    <3>4. /\ n \in Of("domestic") /\ m \in Of("fund") /\ ~Blocked(rows[n], n) /\ ~Blocked(rows[m], m) /\ rows[n].a = 1
      BY <3>3 DEF Etfs, KsdFunds, Staged
    <3>5. rows[n] \in Shapes /\ rows[m] \in Shapes /\ n \in Nat /\ m \in Nat  BY <2>1, <3>3, RowShape
    <3>6. rows[n].id # 0 /\ rows[m].id # 0  BY <3>4, <3>5, IssueFacts
    <3>7. <<n, m>> \in P  BY <3>2, <3>3, <3>4, <3>6
    <3>8. x.key = <<rows[n].id, rows[m].id>>  BY <3>1, <3>3 DEF Link
    <3> HIDE DEF n, m
    <3> QED BY <3>7, <3>8
  <2>5. ASSUME NEW p \in P PROVE \E x \in ToSet(links) : x.key = <<rows[p[1]].id, rows[p[2]].id>>
    <3> DEFINE n == p[1]
               m == p[2]
    <3>1. /\ n \in Of("domestic") /\ m \in Of("fund") /\ rows[n].id # 0 /\ rows[n].a = 1 /\ rows[m].id # 0
          /\ rows[m].a = rows[n].id
      OBVIOUS
    <3>2. n \in 1..Len(rows) /\ m \in 1..Len(rows) /\ rows[n].src = "domestic" /\ rows[m].src = "fund"
      BY <3>1 DEF Of
    <3> HIDE DEF n, m
    <3>3. rows[n] \in Shapes /\ rows[m] \in Shapes /\ n \in Nat /\ m \in Nat  BY <2>1, <3>2, RowShape
    <3>4. ~Blocked(rows[n], n) /\ ~Blocked(rows[m], m)
      BY <3>1, <3>2, <3>3, IssueFacts
    <3>5. n \in Etfs /\ m \in KsdFunds  BY <3>1, <3>4 DEF Etfs, KsdFunds, Staged
    <3>6. PICK l \in ToSet(store["left"]) : l.row = n  BY <2>1, <3>5, CandidatesOf
    <3>7. PICK r \in ToSet(store["right"]) : r.row = m  BY <2>1, <3>5, CandidatesOf
    <3>8. l.id = rows[n].id /\ r.id = rows[m].id  BY <2>1, <3>6, <3>7, CandidatesOf
    <3>9. PICK h \in Joined : h.left = l /\ h.right = r  BY <2>1, <3>1, <3>6, <3>7, <3>8, JoinedFacts
    <3>10. Link(h) \in ToSet(links)  BY <2>2, <3>9 DEF LinkRows
    <3>11. Link(h).key = <<rows[n].id, rows[m].id>>  BY <3>8, <3>9 DEF Link
    <3> QED BY <3>10, <3>11 DEF n, m
  <2>6. ASSUME NEW x \in ToSet(links), NEW y \in ToSet(links), x.key[1] = y.key[1] \/ x.key[2] = y.key[2]
        PROVE  x = y
    <3>1. PICK h \in Joined : x = Link(h)  BY <2>2 DEF LinkRows
    <3>2. PICK k \in Joined : y = Link(k)  BY <2>2 DEF LinkRows
    <3>3. /\ x.key[1] = h.left.id /\ x.key[2] = h.right.id /\ y.key[1] = k.left.id /\ y.key[2] = k.right.id
      BY <3>1, <3>2 DEF Link
    <3>4. h.left.id = k.left.id /\ h.right.id = k.right.id
      BY <3>3, <2>3, <2>6 DEF LeftUnique, RightUnique
    <3>5. h.raw = h.left.id /\ k.raw = k.left.id  BY <2>1, JoinedFacts
    <3> QED BY <3>1, <3>2, <3>4, <3>5 DEF Link
  <2>7. {x.key : x \in ToSet(links)} = {<<rows[p[1]].id, rows[p[2]].id>> : p \in P}
    <3> DEFINE K(p) == <<rows[p[1]].id, rows[p[2]].id>>
    <3>1. \A x \in ToSet(links) : \E p \in P : x.key = K(p)  BY <2>4
    <3>2. \A p \in P : \E x \in ToSet(links) : x.key = K(p)  BY <2>5
    <3> HIDE DEF P, K
    <3>3. {x.key : x \in ToSet(links)} = {K(p) : p \in P}  BY <3>1, <3>2
    <3> QED BY <3>3 DEF K
  <2> QED BY <2>6, <2>7 DEF LinksExact
<1> QED BY <1>1, RowsKept, PTL

\* The final verifier accepts every set as the builder wrote it and refuses every
\* set in which a row, a link, a piece of evidence, a report or the database was
\* altered (verify_reports, _verify_database_against_parquet), for any batch size.
THEOREM VerifierIsExact == RSpec => []VerifierExact
<1>1. RowsInv => VerifierExact  BY DEF RowsInv, AlteredInv, VerifierExact
<1> QED BY <1>1, RowsKept, PTL
=============================================================================
