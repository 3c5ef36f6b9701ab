------------------------------ MODULE RecordOrder ------------------------------
(***************************************************************************)
(* The order of records in tables and merges: Record::operator<            *)
(* (src/server/lsm/types.cpp).                                             *)
(***************************************************************************)
EXTENDS SeqHelpers

\* By key, newest first.
Before(r, s) == r.key < s.key \/ (r.key = s.key /\ r.seq > s.seq)

\* The records of a table in that order.
Sorted(rows) ==
  CHOOSE s \in [1..Cardinality(rows) -> rows] :
    /\ ToSet(s) = rows
    /\ \A i, j \in DOMAIN s : i < j => Before(s[i], s[j])
=============================================================================
