----------------------------- MODULE SeqHelpers -----------------------------
(***************************************************************************)
(* The few operators on sequences that the modules with proofs use.        *)
(***************************************************************************)
EXTENDS Naturals, Sequences, FiniteSets

\* The members of a sequence.
ToSet(s) == {s[i] : i \in DOMAIN s}

Last(s) == s[Len(s)]

\* t begins with s.
IsPrefix(s, t) == Len(s) <= Len(t) /\ \A i \in 1..Len(s) : s[i] = t[i]
=============================================================================
