---------------------------- MODULE OrderFacts -----------------------------
(***************************************************************************)
(* The Laws hold: sets of numbers, functions defined from number to        *)
(* number, finite sets, and records sorted by RecordOrder.                 *)
(***************************************************************************)
EXTENDS Laws, TLAPS, WellFoundedInduction, FiniteSetTheorems

\* A non-empty bounded set of numbers has a largest member.
LEMMA MaxExists ==
  ASSUME NEW S \in SUBSET Nat, S # {}, NEW b \in Nat, \A s \in S : s <= b
  PROVE  \E m \in S : \A s \in S : s <= m
<1> DEFINE T == {b - s : s \in S}
<1>0. \A s \in S : b - s \in Nat
  OBVIOUS
<1>1. T \subseteq Nat /\ T # {}
  BY <1>0, Zenon
<1>2. PICK x \in T : \A y \in T : ~(<<y, x>> \in OpToRel(<, Nat))
  BY <1>1, NatLessThanWellFounded, WFMin
<1>3. \A y \in T : ~(y < x)
  BY <1>1, <1>2 DEF OpToRel
<1>4. PICK m \in S : x = b - m
  OBVIOUS
<1>5. ASSUME NEW s \in S PROVE s <= m
  <2>1. ~(b - s < b - m)
    BY <1>3, <1>4
  <2> QED BY <2>1
<1> QED BY <1>5

\* A non-empty set of numbers has a smallest member.
LEMMA MinExists ==
  ASSUME NEW S \in SUBSET Nat, S # {}
  PROVE  \E m \in S : \A s \in S : m <= s
<1>1. PICK m \in S : \A s \in S : ~(<<s, m>> \in OpToRel(<, Nat))
  BY NatLessThanWellFounded, WFMin
<1>2. \A s \in S : ~(s < m)
  BY <1>1 DEF OpToRel
<1> QED BY <1>2

\* A function that takes each number's value from the one before it exists.
LEMMA IterationExists ==
  ASSUME NEW n \in Nat, NEW V, NEW v \in V, NEW g, StepsIn(g, n, V)
  PROVE  \E f \in [0..n -> V] : Iterates(f, g, n, v)
<1> USE DEF StepsIn, Iterates
<1> DEFINE Is(f, m) == f[0] = v /\ \A i \in 1..m : f[i] = g[i][f[i - 1]]
           Bad == {m \in 0..n : ~\E f \in [0..m -> V] : Is(f, m)}
<1>1. SUFFICES ASSUME Bad # {} PROVE FALSE
  <2>1. n \in 0..n
    OBVIOUS
  <2> QED BY <1>1, <2>1, Zenon
<1>2. PICK m \in Bad : \A s \in Bad : m <= s
  <2>1. Bad \in SUBSET Nat
    OBVIOUS
  <2> QED BY <1>1, <2>1, MinExists
<1>3. m # 0
  <2>1. ASSUME m = 0 PROVE [i \in 0..m |-> v] \in [0..m -> V] /\ Is([i \in 0..m |-> v], m)
    BY <2>1
  <2> QED BY <2>1, <1>2
<1>4. m - 1 \in 0..n /\ m - 1 \notin Bad /\ m \in 0..n
  BY <1>2, <1>3
<1>5. PICK f \in [0..(m - 1) -> V] : Is(f, m - 1)
  BY <1>4
<1> DEFINE h == [i \in 0..m |-> IF i = m THEN g[m][f[m - 1]] ELSE f[i]]
<1>6. h \in [0..m -> V]
  <2>1. f[m - 1] \in V /\ m \in 1..n
    BY <1>3, <1>4, <1>5
  <2> QED BY <1>4, <1>5, <2>1
<1>7. ASSUME NEW i \in 1..m PROVE h[i] = g[i][h[i - 1]]
  <2>1. CASE i = m
    <3>1. h[m] = g[m][f[m - 1]] /\ h[m - 1] = f[m - 1]
      BY <1>3, <1>4
    <3> QED BY <2>1, <3>1
  <2>2. CASE i # m
    <3>1. i \in 1..(m - 1) /\ i - 1 \in 0..(m - 1) /\ i - 1 # m
      BY <1>4, <2>2
    <3>2. h[i] = f[i] /\ h[i - 1] = f[i - 1]
      BY <1>4, <2>2, <3>1
    <3> QED BY <1>5, <3>1, <3>2
  <2> QED BY <2>1, <2>2
<1>8. h[0] = v
  BY <1>3, <1>4, <1>5
<1> QED
  <2> HIDE DEF h
  <2> QED BY <1>2, <1>6, <1>7, <1>8

\* A sequence has finitely many members.
LEMMA ToSetFinite ==
  ASSUME NEW S, NEW s \in Seq(S)
  PROVE  IsFiniteSet(ToSet(s)) /\ ToSet(s) \subseteq S
<1>1. s \in Surjection(1..Len(s), ToSet(s))
  BY DEF Surjection, ToSet
<1>2. IsFiniteSet(1..Len(s))
  BY FS_Interval
<1>3. IsFiniteSet(ToSet(s))
  BY <1>1, <1>2, FS_Surjection
<1> QED BY <1>3 DEF ToSet

-----------------------------------------------------------------------------
\* One of them comes before all the others.
LEMMA FirstExists ==
  ASSUME NEW rows, NEW bound \in Nat, Sortable(rows, bound), rows # {}
  PROVE  \E first \in rows : \A r \in rows \ {first} : Before(first, r)
<1> DEFINE keys == {r.key : r \in rows}
<1>1. keys \in SUBSET Nat /\ keys # {}
  BY DEF Sortable
<1>2. PICK least \in keys : \A k \in keys : least <= k
  BY <1>1, MinExists, Zenon
<1> DEFINE seqs == {r.seq : r \in {s \in rows : s.key = least}}
<1>3. seqs \in SUBSET Nat /\ seqs # {} /\ \A n \in seqs : n <= bound
  BY <1>2 DEF Sortable
<1>4. PICK newest \in seqs : \A n \in seqs : n <= newest
  BY <1>3, MaxExists, Zenon
<1>5. PICK first \in rows : first.key = least /\ first.seq = newest
  BY <1>4
<1>6. ASSUME NEW r \in rows \ {first} PROVE Before(first, r)
  <2>1. least \in Nat /\ r.key \in Nat /\ least <= r.key
    BY <1>1, <1>2
  <2>2. CASE r.key = least
    <3>1. r.seq \in seqs
      BY <2>2
    <3>2. r.seq \in Nat /\ newest \in Nat /\ r.seq <= newest /\ r.seq # newest
      BY <1>3, <1>4, <1>5, <3>1 DEF Sortable
    <3> QED BY <1>5, <2>2, <3>2 DEF Before
  <2> QED BY <1>5, <2>1, <2>2 DEF Before
<1> QED BY <1>6

IsSorted(s, rows) ==
  /\ s \in [1..Cardinality(rows) -> rows]
  /\ ToSet(s) = rows
  /\ \A i, j \in DOMAIN s : i < j => Before(s[i], s[j])

\* A first row goes in front of the others, sorted.
LEMMA SortStep ==
  ASSUME NEW rows, IsFiniteSet(rows), NEW first \in rows,
         \A r \in rows \ {first} : Before(first, r),
         NEW t, IsSorted(t, rows \ {first})
  PROVE  \E s : IsSorted(s, rows)
<1> DEFINE n == Cardinality(rows)
           s == [i \in 1..n |-> IF i = 1 THEN first ELSE t[i - 1]]
<1>1. /\ n \in Nat /\ n # 0
      /\ Cardinality(rows \ {first}) = n - 1
  BY FS_CardinalityType, FS_RemoveElement, FS_EmptySet, Zenon
<1>2. t \in [1..(n - 1) -> rows \ {first}] /\ ToSet(t) = rows \ {first}
  BY <1>1, Zenon DEF IsSorted
<1>3. \A i \in 1..n : i # 1 => i - 1 \in 1..(n - 1)
  BY <1>1
<1>4. \A i \in 1..(n - 1) : i + 1 \in 1..n /\ i + 1 # 1 /\ (i + 1) - 1 = i
  BY <1>1
<1>5. s \in [1..n -> rows]
  BY <1>2, <1>3
<1>6. ToSet(s) = rows
  <2>1. ASSUME NEW r \in rows PROVE r \in ToSet(s)
    <3>1. CASE r = first
      BY <1>1, <3>1 DEF ToSet
    <3>2. CASE r # first
      <4>1. PICK i \in 1..(n - 1) : t[i] = r
        BY <1>2, <3>2 DEF ToSet
      <4>2. i + 1 \in DOMAIN s /\ s[i + 1] = r
        BY <1>4, <4>1
      <4> QED BY <4>2, Zenon DEF ToSet
    <3> QED BY <3>1, <3>2
  <2>2. \A i \in DOMAIN s : s[i] \in rows
    BY <1>5
  <2> QED BY <2>1, <2>2, Zenon DEF ToSet
<1>7. ASSUME NEW i \in 1..n, NEW j \in 1..n, i < j PROVE Before(s[i], s[j])
  <2>1. j # 1 /\ s[j] = t[j - 1] /\ j - 1 \in 1..(n - 1) /\ t[j - 1] \in rows \ {first}
    BY <1>1, <1>2, <1>3, <1>7
  <2>2. CASE i = 1
    BY <2>1, <2>2
  <2>3. CASE i # 1
    <3>1. s[i] = t[i - 1] /\ i - 1 \in 1..(n - 1) /\ i - 1 < j - 1
      BY <1>1, <1>3, <1>7, <2>3
    <3>2. DOMAIN t = 1..(n - 1)
      BY <1>2
    <3> QED BY <2>1, <3>1, <3>2, Zenon DEF IsSorted
  <2> QED BY <2>2, <2>3
<1>8. DOMAIN s = 1..n
  OBVIOUS
<1>9. IsSorted(s, rows)
  <2> HIDE DEF s
  <2> QED BY <1>5, <1>6, <1>7, <1>8 DEF IsSorted
<1> QED BY <1>9

\* A finite set of such rows can be sorted: a smallest one that could not would have a
\* first row, and the others could be sorted.
LEMMA SortExists ==
  ASSUME NEW all, IsFiniteSet(all), NEW bound \in Nat, Sortable(all, bound)
  PROVE  \E s : IsSorted(s, all)
<1> DEFINE Bad == {rows \in SUBSET all : ~\E s : IsSorted(s, rows)}
           sizes == {Cardinality(rows) : rows \in Bad}
<1>1. SUFFICES ASSUME Bad # {} PROVE FALSE
  OBVIOUS
<1>2. \A rows \in SUBSET all : IsFiniteSet(rows) /\ Cardinality(rows) \in Nat
  BY FS_Subset, FS_CardinalityType
<1>3. sizes \in SUBSET Nat /\ sizes # {}
  BY <1>1, <1>2
<1>4. PICK least \in sizes : \A n \in sizes : least <= n
  BY <1>3, MinExists, Zenon
<1>5. PICK rows \in Bad : Cardinality(rows) = least
  BY <1>4
<1>6. rows # {}
  <2>1. ASSUME rows = {} PROVE IsSorted(<<>>, rows)
    <3>1. 1..Cardinality(rows) = {}
      BY <2>1, FS_EmptySet
    <3>2. <<>> \in [{} -> rows] /\ DOMAIN <<>> = {}
      OBVIOUS
    <3> QED BY <2>1, <3>1, <3>2 DEF IsSorted, ToSet
  <2> QED BY <1>5, <2>1
<1>7. Sortable(rows, bound)
  BY <1>5 DEF Sortable
<1>8. PICK first \in rows : \A r \in rows \ {first} : Before(first, r)
  BY <1>6, <1>7, FirstExists
<1>9. Cardinality(rows \ {first}) < Cardinality(rows)
  BY <1>2, <1>5, <1>8, FS_RemoveElement
<1>10. rows \ {first} \notin Bad
  BY <1>2, <1>4, <1>5, <1>9
<1>11. PICK t : IsSorted(t, rows \ {first})
  BY <1>5, <1>10
<1>12. \E s : IsSorted(s, rows)
  BY <1>2, <1>5, <1>8, <1>11, SortStep
<1> QED BY <1>5, <1>12

\* What an iterator over a table's rows hands out.
LEMMA SortedRows ==
  ASSUME NEW rows, IsFiniteSet(rows), NEW bound \in Nat, Sortable(rows, bound)
  PROVE  /\ Sorted(rows) \in Seq(rows) /\ ToSet(Sorted(rows)) = rows
         /\ \A i, j \in DOMAIN Sorted(rows) : i < j => Before(Sorted(rows)[i], Sorted(rows)[j])
<1>1. \E s : IsSorted(s, rows)
  BY SortExists
<1>2. IsSorted(Sorted(rows), rows)
  <2> DEFINE Is(s) == ToSet(s) = rows /\ \A i, j \in DOMAIN s : i < j => Before(s[i], s[j])
             S == [1..Cardinality(rows) -> rows]
  <2>1. \E s \in S : Is(s)
    BY <1>1, Zenon DEF IsSorted
  <2>2. Sorted(rows) = CHOOSE s \in S : Is(s)
    BY Zenon DEF Sorted
  <2>3. Sorted(rows) \in S /\ Is(Sorted(rows))
    <3> HIDE DEF S, Is
    <3> QED BY <2>1, <2>2, Zenon
  <2> QED BY <2>3, Zenon DEF IsSorted
<1>3. Cardinality(rows) \in Nat
  BY FS_CardinalityType
<1>4. Sorted(rows) \in Seq(rows)
  BY <1>2, <1>3 DEF IsSorted
<1> QED BY <1>2, <1>4, Zenon DEF IsSorted

\* A finite set of numbers has an upper bound: a smallest one without would have one
\* once a member is removed.
LEMMA FiniteBounded ==
  ASSUME NEW all \in SUBSET Nat, IsFiniteSet(all)
  PROVE  \E b \in Nat : \A n \in all : n <= b
<1> DEFINE Bad == {S \in SUBSET all : ~\E b \in Nat : \A n \in S : n <= b}
           sizes == {Cardinality(S) : S \in Bad}
<1>1. SUFFICES ASSUME Bad # {} PROVE FALSE
  OBVIOUS
<1>2. \A S \in SUBSET all : IsFiniteSet(S) /\ Cardinality(S) \in Nat
  BY FS_Subset, FS_CardinalityType
<1>3. sizes \in SUBSET Nat /\ sizes # {}
  BY <1>1, <1>2
<1>4. PICK least \in sizes : \A n \in sizes : least <= n
  BY <1>3, MinExists, Zenon
<1>5. PICK S \in Bad : Cardinality(S) = least
  BY <1>4
<1>6. PICK x \in S : TRUE
  <2>1. S # {}
    <3>1. S = {} => \A n \in S : n <= 0
      OBVIOUS
    <3> QED BY <1>5, <3>1
  <2> QED BY <2>1
<1> DEFINE T == S \ {x}
<1>7. T \in SUBSET all /\ Cardinality(T) \in Nat /\ Cardinality(T) < Cardinality(S)
  <2>1. S \in SUBSET all /\ IsFiniteSet(S) /\ Cardinality(S) \in Nat
    BY <1>2, <1>5
  <2>2. Cardinality(T) = Cardinality(S) - 1
    BY <1>6, <2>1, FS_RemoveElement
  <2> QED BY <1>2, <2>1, <2>2
<1> HIDE DEF T
<1>8. T \notin Bad
  <2>1. T \in Bad => Cardinality(T) \in sizes
    OBVIOUS
  <2>2. \A n \in sizes : n \in Nat
    BY <1>3
  <2> HIDE DEF sizes
  <2> QED BY <1>4, <1>5, <1>7, <2>1, <2>2
<1>9. PICK b \in Nat : \A n \in S \ {x} : n <= b
  BY <1>7, <1>8 DEF T
<1>10. x \in Nat /\ \A n \in S : n \in Nat
  BY <1>5, <1>6
<1>11. b + x \in Nat /\ \A n \in S : n <= b + x
  BY <1>9, <1>10
<1>12. ~\E c \in Nat : \A n \in S : n <= c
  BY <1>5
<1> QED BY <1>11, <1>12

-----------------------------------------------------------------------------
\* A finite set of records has a largest number.
LEMMA NumbersBounded == BoundLaw
<1> SUFFICES ASSUME NEW rows, IsFiniteSet(rows), \A r \in rows : r.seq \in Nat
             PROVE  \E b \in Nat : \A r \in rows : r.seq <= b
  BY Zenon DEF BoundLaw
<1> DEFINE seqs == {r.seq : r \in rows}
           f == [r \in rows |-> r.seq]
<1>1. f \in Surjection(rows, seqs)
  BY DEF Surjection
<1>2. seqs \in SUBSET Nat
  OBVIOUS
<1>3. IsFiniteSet(seqs)
  <2> HIDE DEF f, seqs
  <2> QED BY <1>1, FS_Surjection
<1>4. \E b \in Nat : \A n \in seqs : n <= b
  <2> HIDE DEF seqs
  <2> QED BY <1>2, <1>3, FiniteBounded
<1> QED BY <1>4

\* The facts about finite sets that the proofs use.
LEMMA FiniteFacts == FiniteLaw
<1>1. IsFiniteSet({}) /\ \A S, x : IsFiniteSet(S) => IsFiniteSet(S \cup {x})
  BY FS_EmptySet, FS_AddElement
<1>2. \A S, T : IsFiniteSet(S) /\ T \subseteq S => IsFiniteSet(T)
  BY FS_Subset
<1>3. \A S : IsFiniteSet(S) => Cardinality(S) \in Nat
  BY FS_CardinalityType
<1>4. \A n \in Nat : Cardinality(1..n) = n
  BY FS_Interval
<1>5. \A S : \A s \in Seq(S) : IsFiniteSet(ToSet(s))
  BY ToSetFinite, Zenon
<1> QED BY <1>1, <1>2, <1>3, <1>4, <1>5, Zenon DEF FiniteLaw

\* Everything the proofs of the components take as a hypothesis.
THEOREM LawsHold == Laws
<1>1. MinLaw /\ MaxLaw
  BY MinExists, MaxExists, Zenon DEF MinLaw, MaxLaw
<1>2. IterationLaw
  BY IterationExists, Zenon DEF IterationLaw
<1>3. SortLaw
  BY SortedRows, Zenon DEF SortLaw
<1> QED BY <1>1, <1>2, <1>3, FiniteFacts, NumbersBounded, Zenon DEF Laws
=============================================================================
