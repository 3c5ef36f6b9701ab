-------------------------------- MODULE Laws --------------------------------
(***************************************************************************)
(* What the proofs need to know of sets of numbers, of functions defined   *)
(* from number to number, of finite sets and of sorted records.  Module    *)
(* OrderFacts proves it from the library's induction theorems.             *)
(*                                                                         *)
(* A component's lemmas take Laws as a hypothesis, and its proof module    *)
(* brings OrderFacts in only where the hypothesis is discharged, before    *)
(* the theorems about the specification: the library's many theorems would *)
(* otherwise be part of every obligation.                                  *)
(***************************************************************************)
EXTENDS RecordOrder

\* A non-empty set of numbers has a smallest member.
MinLaw == \A S \in SUBSET Nat : S # {} => \E m \in S : \A s \in S : m <= s

\* A non-empty bounded set of numbers has a largest member.
MaxLaw ==
  \A S \in SUBSET Nat : \A b \in Nat :
    S # {} /\ (\A s \in S : s <= b) => \E m \in S : \A s \in S : s <= m

\* g[i] takes the value of i - 1 to the value of i.
StepsIn(g, n, V) == \A i \in 1..n : \A x \in V : g[i][x] \in V

Iterates(f, g, n, v) == f[0] = v /\ \A i \in 1..n : f[i] = g[i][f[i - 1]]

\* A function that takes each number's value from the one before it exists.
IterationLaw ==
  \A n \in Nat : \A V, g : \A v \in V :
    StepsIn(g, n, V) => \E f \in [0..n -> V] : Iterates(f, g, n, v)

\* Finite sets.
FiniteLaw ==
  /\ IsFiniteSet({})
  /\ \A S, x : IsFiniteSet(S) => IsFiniteSet(S \cup {x})
  /\ \A S, T : IsFiniteSet(S) /\ T \subseteq S => IsFiniteSet(T)
  /\ \A S : IsFiniteSet(S) => Cardinality(S) \in Nat
  /\ \A n \in Nat : Cardinality(1..n) = n
  /\ \A S : \A s \in Seq(S) : IsFiniteSet(ToSet(s))

\* A finite set of records has finitely many, hence bounded numbers.
BoundLaw ==
  \A rows : IsFiniteSet(rows) /\ (\A r \in rows : r.seq \in Nat) =>
    \E b \in Nat : \A r \in rows : r.seq <= b

\* Rows that can be told apart and whose numbers are bounded.
Sortable(rows, bound) ==
  /\ \A r \in rows : r.key \in Nat /\ r.seq \in Nat /\ r.seq <= bound
  /\ \A r, s \in rows : r.seq = s.seq => r = s

\* What an iterator over a table's rows hands out.
SortLaw ==
  \A rows : \A bound \in Nat : IsFiniteSet(rows) /\ Sortable(rows, bound) =>
    /\ Sorted(rows) \in Seq(rows) /\ ToSet(Sorted(rows)) = rows
    /\ \A i, j \in DOMAIN Sorted(rows) : i < j => Before(Sorted(rows)[i], Sorted(rows)[j])

Laws == MinLaw /\ MaxLaw /\ IterationLaw /\ FiniteLaw /\ BoundLaw /\ SortLaw
=============================================================================
