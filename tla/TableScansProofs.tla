------------------------- MODULE TableScansProofs --------------------------
(***************************************************************************)
(* TableScansInv is inductive, and the safety properties of TableScans     *)
(* follow from it, for any keys, transactions and number of rows.          *)
(***************************************************************************)
EXTENDS TableScans, Laws, TLAPS

-----------------------------------------------------------------------------
\* The members of a sequence that grows at its end.
LEMMA ToSetAppend ==
  ASSUME NEW S, NEW s \in Seq(S), NEW e \in S
  PROVE  ToSet(Append(s, e)) = ToSet(s) \cup {e}
<1>1. DOMAIN Append(s, e) = DOMAIN s \cup {Len(s) + 1}
  OBVIOUS
<1>2. Append(s, e)[Len(s) + 1] = e /\ \A i \in DOMAIN s : Append(s, e)[i] = s[i]
  OBVIOUS
<1> QED BY <1>1, <1>2, Zenon DEF ToSet

\* A sequence with another member in one place.
LEMMA ExceptIs ==
  ASSUME NEW S, NEW s \in Seq(S), NEW i \in DOMAIN s, NEW e \in S, NEW t, t = [s EXCEPT ![i] = e]
  PROVE  /\ t \in Seq(S) /\ DOMAIN t = DOMAIN s
         /\ t[i] = e /\ \A j \in DOMAIN s \ {i} : t[j] = s[j]
<1>1. s \in [1..Len(s) -> S] /\ Len(s) \in Nat /\ DOMAIN s = 1..Len(s)
  OBVIOUS
<1>2. t \in [1..Len(s) -> S]
  BY <1>1
<1> QED BY <1>1, <1>2

\* A sequence is its head and its tail.
LEMMA ToSetTail ==
  ASSUME NEW S, NEW s \in Seq(S), s # <<>>
  PROVE  /\ ToSet(s) = {Head(s)} \cup ToSet(Tail(s))
         /\ Head(s) = s[1] /\ Tail(s) \in Seq(S)
         /\ \A i \in DOMAIN Tail(s) : i + 1 \in DOMAIN s /\ Tail(s)[i] = s[i + 1]
<1>1. /\ Head(s) = s[1] /\ Tail(s) \in Seq(S)
      /\ \A i \in DOMAIN Tail(s) : i + 1 \in DOMAIN s /\ Tail(s)[i] = s[i + 1]
  OBVIOUS
<1>2. ASSUME NEW i \in DOMAIN s, i # 1
      PROVE  i - 1 \in DOMAIN Tail(s) /\ Tail(s)[i - 1] = s[i]
  BY <1>2
<1>3. 1 \in DOMAIN s
  OBVIOUS
<1>4. ToSet(s) \subseteq {Head(s)} \cup ToSet(Tail(s))
  <2> SUFFICES ASSUME NEW i \in DOMAIN s PROVE s[i] \in {Head(s)} \cup ToSet(Tail(s))
    BY Zenon DEF ToSet
  <2> QED BY <1>1, <1>2, Zenon DEF ToSet
<1>5. {Head(s)} \cup ToSet(Tail(s)) \subseteq ToSet(s)
  BY <1>1, <1>3 DEF ToSet
<1> QED BY <1>1, <1>4, <1>5

\* Where a row on disk is.
LEMMA DiskRows ==
  \A r : r \in OnDisk <=> \E i \in DOMAIN ss_tables : r \in ss_tables[i]
BY Zenon DEF OnDisk, ToSet

\* Where a row is that the merge has not handed out.
LEMMA LeftRows ==
  \A r : r \in Left <=> \E i \in DOMAIN job.iterators : r \in ToSet(job.iterators[i])
BY Zenon DEF Left

\* Before is a strict order.
LEMMA BeforeOrders ==
  ASSUME NEW r \in Row, NEW s \in Row, NEW t \in Row
  PROVE  ~Before(r, r) /\ (Before(r, s) /\ Before(s, t) => Before(r, t))
<1>1. \A x \in Row : x.key \in Nat /\ x.seq \in Nat
  BY TableScansAssumption, Zenon DEF Row
<1> QED BY <1>1 DEF Before

\* The newest of a set of rows whose numbers are bounded.
LEMMA NewestIs ==
  ASSUME NEW rows \in SUBSET Row, NEW r \in rows, \A s \in rows : s.seq <= r.seq,
         \A s, t \in rows : s.seq = t.seq => s = t
  PROVE  NewestOf(rows) = r
<1>1. \A s \in rows : s.seq \in Nat
  BY DEF Row
<1>2. \A s \in rows : (\A t \in rows : t.seq <= s.seq) => s.seq = r.seq
  BY <1>1
<1> QED BY <1>2, Zenon DEF NewestOf

LEMMA NewestExists ==
  ASSUME Laws, NEW rows \in SUBSET Row, rows # {}, NEW bound \in Nat, \A r \in rows : r.seq < bound
  PROVE  \E r \in rows : \A s \in rows : s.seq <= r.seq
<1> DEFINE seqs == {r.seq : r \in rows}
<1>1. seqs \in SUBSET Nat /\ seqs # {} /\ \A n \in seqs : n <= bound
  BY DEF Row
<1>2. PICK newest \in seqs : \A n \in seqs : n <= newest
  BY <1>1, Zenon DEF Laws, MaxLaw
<1> QED BY <1>2

\* What is in the tables.
LEMMA RowTypes ==
  RowsInv =>
         /\ OnDisk \subseteq Row /\ Rows \subseteq Row
         /\ \A r \in Rows : r.seq \in Nat \ {0} /\ r.key \in Nat /\ r.key \in Key /\ r.tx \in Tx
<1> SUFFICES ASSUME RowsInv
             PROVE  /\ OnDisk \subseteq Row /\ Rows \subseteq Row
                    /\ \A r \in Rows : /\ r.seq \in Nat \ {0} /\ r.key \in Nat
                                      /\ r.key \in Key /\ r.tx \in Tx
  OBVIOUS
<1>1. OnDisk \subseteq Row
  BY DiskRows DEF RowsInv
<1> QED BY <1>1, TableScansAssumption, Zenon DEF RowsInv, Rows, Row

\* Without rows of its own, a reader sees what is committed.
Committed(key) == {r \in Rows : r.key = key /\ IsCommited(r.tx)}

LEMMA SeenByNobody ==
  RowsInv => \A key : Seen(key, 0) = Committed(key)
<1> SUFFICES ASSUME RowsInv, NEW key
             PROVE  Seen(key, 0) = Committed(key)
  OBVIOUS
<1>1. \A r \in Rows : r.tx # 0 /\ (r.is_frozen => IsCommited(r.tx))
  BY RowTypes, TableScansAssumption DEF RowsInv
<1> QED BY <1>1 DEF Seen, Rows, Committed

LEMMA SeenByNobodyNext ==
  (RowsInv => \A key : Seen(key, 0) = Committed(key))'
BY SeenByNobody, PTL

\* The newest row decides.
LEMMA VerdictIs ==
  ASSUME NEW rows \in SUBSET Row, \A s, t \in rows : s.seq = t.seq => s = t,
         NEW r \in rows, \A s \in rows : s.seq <= r.seq
  PROVE  Verdict(rows) = IF r.is_deleted THEN 0 ELSE r.seq
<1>1. NewestOf(rows) = r
  BY NewestIs
<1> QED BY <1>1 DEF Verdict

\* Commits never go back.
CommitsStay == \A tx \in Tx : IsCommited(tx) => IsCommited(tx)'

\* A step next to a scan or a compaction does not disturb it.
LEMMA JobKept ==
  ASSUME TableScansInv, UNCHANGED <<job, disturbed>>, CommitsStay,
         job.kind = "compact" => OnDisk' = OnDisk
  PROVE  MergeInv' /\ OutInv' /\ ScanJobInv' /\ CompactJobInv'
<1> USE DEF TableScansInv
<1>1. Left' = Left
  BY DEF Left
<1>2. /\ \A r \in job.input : r.tx \in Tx
      /\ \A i \in DOMAIN job.out : job.out[i] \in Row /\ job.out[i].tx \in Tx
  <2>1. job.input \subseteq Row /\ job.out \in Seq(Row)
    BY DEF MergeInv
  <2>2. \A r \in Row : r.tx \in Tx
    BY DEF Row
  <2>3. \A i \in DOMAIN job.out : job.out[i] \in Row
    BY <2>1
  <2> QED BY <2>1, <2>2, <2>3, Zenon
<1>3. MergeInv'
  BY <1>1, <1>2 DEF MergeInv, CommitsStay
<1>4. OutInv'
  BY <1>2 DEF OutInv, CommitsStay
<1>5. ScanJobInv'
  <2> SUFFICES ASSUME job.kind \in {"scan", "scanned"} PROVE ScanJobInv'
    BY DEF ScanJobInv
  <2> QED BY <1>2 DEF ScanJobInv, CommitsStay
<1>6. CompactJobInv'
  <2> SUFFICES ASSUME job.kind = "compact" PROVE CompactJobInv'
    BY DEF CompactJobInv
  <2>1. \A r \in OnDisk : r.tx \in Tx
    BY RowTypes DEF Rows
  <2> QED BY <2>1 DEF CompactJobInv, CommitsStay
<1> QED BY <1>3, <1>4, <1>5, <1>6

\* A key whose committed rows stay keeps its answer.
LEMMA AnswerKept ==
  ASSUME RowsInv, RowsInv', NEW key,
         Committed(key)' = Committed(key)
  PROVE  Answer(key, 0)' = Answer(key, 0)
<1>2. Seen(key, 0)' = Seen(key, 0)
  BY SeenByNobody, SeenByNobodyNext
<1> QED BY <1>2 DEF Answer

\* A row that is written is the newest one, and not committed.
LEMMA WriteStep ==
  ASSUME Laws, TableScansInv, NEW tx \in Tx, NEW key \in Key, NEW is_deleted \in BOOLEAN,
         Write(tx, key, is_deleted)
  PROVE  TableScansInv'
<1> DEFINE new == [key |-> key, seq |-> next_seq_no, tx |-> tx,
                   is_deleted |-> is_deleted, is_frozen |-> FALSE]
<1>0. RowsInv /\ WritersInv /\ CompactionKeepsAnswers
  BY DEF TableScansInv
<1>1. /\ OnDisk' = OnDisk /\ Rows' = Rows \cup {new}
      /\ new \in Row /\ next_seq_no \in Nat \ {0}
      /\ tx_status' = tx_status /\ ~IsCommited(tx)
  BY <1>0 DEF Write, OnDisk, Rows, RowsInv, Row, IsCommited
<1>2. \A r \in Rows : /\ r.seq \in Nat /\ r.seq < next_seq_no /\ r.key \in Key /\ r.tx \in Tx
                      /\ r # new
  BY <1>0, RowTypes DEF RowsInv
<1> HIDE DEF new
<1>3. new.key = key /\ new.seq = next_seq_no /\ new.tx = tx /\ new.is_deleted = is_deleted
      /\ ~new.is_frozen
  BY DEF new
<1>4. RowsInv'
  <2>1. memory' = memory \cup {new} /\ next_seq_no' = next_seq_no + 1
        /\ ss_tables' = ss_tables /\ row_locks' \in [Key -> Tx \cup {0}]
    BY <1>0 DEF Write, new, RowsInv
  <2>2. IsFiniteSet(memory')
    BY <1>0, <2>1 DEF Laws, FiniteLaw, RowsInv
  <2>3. \A r \in Rows' : r.seq < next_seq_no' /\ (r.is_frozen => IsCommited(r.tx)')
    BY <1>0, <1>1, <1>2, <1>3, <2>1 DEF RowsInv, IsCommited
  <2>4. \A r, s \in Rows' : r.seq = s.seq => r = s
    BY <1>0, <1>1, <1>2, <1>3 DEF RowsInv
  <2>5. \A r \in memory', s \in OnDisk' : s.seq < r.seq
    BY <1>0, <1>1, <1>2, <1>3, <2>1 DEF RowsInv, Rows
  <2> QED BY <1>0, <1>1, <2>1, <2>2, <2>3, <2>4, <2>5 DEF RowsInv
<1>5. WritersInv'
  <2>1. /\ row_locks[key] = 0 /\ row_locks' = [row_locks EXCEPT ![key] = tx]
        /\ row_locks \in [Key -> Tx \cup {0}] /\ 0 \notin Tx
        /\ pending' = [pending EXCEPT ![key] = IF is_deleted THEN 0 ELSE next_seq_no]
        /\ tx_status[tx] = "started" /\ answer' = answer /\ disturbed' = disturbed
    BY <1>0, TableScansAssumption DEF Write, RowsInv
  <2>2. ASSUME NEW r \in Rows', ~IsCommited(r.tx)' PROVE row_locks'[r.key] = r.tx
    BY <1>0, <1>1, <1>2, <1>3, <2>1, <2>2 DEF WritersInv, IsCommited
  <2>3. ASSUME NEW k \in Key, row_locks'[k] # 0 PROVE tx_status'[row_locks'[k]] = "started"
    BY <1>0, <1>1, <2>1, <2>3 DEF WritersInv
  <2>4. ASSUME NEW k \in Key \ disturbed', row_locks'[k] # 0
        PROVE  \E r \in Rows' :
                 /\ r.key = k /\ r.tx = row_locks'[k]
                 /\ pending'[k] = IF r.is_deleted THEN 0 ELSE r.seq
                 /\ \A s \in Rows' : s.key = k => s.seq <= r.seq
    <3>1. CASE k = key
      <4>1. new \in Rows' /\ new.key = k /\ new.tx = row_locks'[k]
            /\ pending'[k] = IF new.is_deleted THEN 0 ELSE new.seq
        BY <1>0, <1>1, <1>3, <2>1, <3>1 DEF WritersInv
      <4>2. \A s \in Rows' : s.seq <= new.seq
        BY <1>1, <1>2, <1>3
      <4> QED BY <4>1, <4>2
    <3>2. CASE k # key
      BY <1>0, <1>1, <1>3, <2>1, <2>4, <3>2 DEF WritersInv
    <3> QED BY <3>1, <3>2
  <2>5. pending' \in [Key -> Nat] /\ answer' \in [Key -> Nat]
    BY <1>0, <1>1, <2>1 DEF WritersInv
  <2> QED BY <2>2, <2>3, <2>4, <2>5 DEF WritersInv
<1>6. MergeInv' /\ OutInv' /\ ScanJobInv' /\ CompactJobInv'
  <2>1. UNCHANGED <<job, disturbed>> /\ CommitsStay
    BY <1>1 DEF Write, CommitsStay, IsCommited
  <2> QED BY <1>1, <2>1, JobKept
<1>7. CompactionKeepsAnswers'
  <2> SUFFICES ASSUME NEW k \in Key \ disturbed' PROVE Answer(k, 0)' = answer'[k]
    BY DEF CompactionKeepsAnswers
  <2>1. Committed(k)' = Committed(k)
    BY <1>1, <1>3 DEF Committed, IsCommited
  <2>2. Answer(k, 0)' = Answer(k, 0)
    BY <1>0, <1>4, <2>1, AnswerKept
  <2> QED BY <1>0, <2>2 DEF CompactionKeepsAnswers, Write
<1> QED BY <1>4, <1>5, <1>6, <1>7 DEF TableScansInv

\* A commit makes the newest rows of the keys it had locked the ones that decide.
LEMMA CommitStep ==
  ASSUME TableScansInv, NEW tx \in Tx, Commit(tx)
  PROVE  TableScansInv'
<1>0. RowsInv /\ WritersInv /\ CompactionKeepsAnswers
  BY DEF TableScansInv
<1>1. /\ UNCHANGED <<memory, ss_tables, next_seq_no, job, pending, disturbed>>
      /\ OnDisk' = OnDisk /\ Rows' = Rows
      /\ tx_status' = [tx_status EXCEPT ![tx] = "commited"]
      /\ tx_status \in [Tx -> {"started", "commited"}] /\ tx_status[tx] = "started"
      /\ row_locks \in [Key -> Tx \cup {0}] /\ 0 \notin Tx
      /\ row_locks' = [key \in Key |-> IF row_locks[key] = tx THEN 0 ELSE row_locks[key]]
      /\ answer' = [key \in Key |-> IF row_locks[key] = tx THEN pending[key] ELSE answer[key]]
  BY <1>0, TableScansAssumption DEF Commit, RowsInv, Rows, OnDisk
<1>2. \A t \in Tx : IsCommited(t)' <=> IsCommited(t) \/ t = tx
  BY <1>1 DEF IsCommited
<1>3. Rows \subseteq Row /\ \A r \in Rows : r.key \in Key /\ r.tx \in Tx
  BY <1>0, RowTypes
<1>4. RowsInv'
  <2>1. \A r \in Rows' : r.is_frozen => IsCommited(r.tx)'
    BY <1>0, <1>1, <1>2, <1>3 DEF RowsInv
  <2>2. tx_status' \in [Tx -> {"started", "commited"}] /\ row_locks' \in [Key -> Tx \cup {0}]
    BY <1>1
  <2> QED BY <1>0, <1>1, <2>1, <2>2 DEF RowsInv
<1>5. WritersInv'
  <2>1. ASSUME NEW r \in Rows', ~IsCommited(r.tx)' PROVE row_locks'[r.key] = r.tx
    BY <1>0, <1>1, <1>2, <1>3, <2>1 DEF WritersInv
  <2>2. ASSUME NEW k \in Key, row_locks'[k] # 0 PROVE tx_status'[row_locks'[k]] = "started"
    BY <1>0, <1>1, <2>2 DEF WritersInv
  <2>3. ASSUME NEW k \in Key \ disturbed', row_locks'[k] # 0
        PROVE  \E r \in Rows' :
                 /\ r.key = k /\ r.tx = row_locks'[k]
                 /\ pending'[k] = IF r.is_deleted THEN 0 ELSE r.seq
                 /\ \A s \in Rows' : s.key = k => s.seq <= r.seq
    <3>1. row_locks'[k] = row_locks[k]
      BY <1>1, <2>3
    <3> QED BY <1>0, <1>1, <2>3, <3>1 DEF WritersInv
  <2>4. pending' \in [Key -> Nat] /\ answer' \in [Key -> Nat]
    BY <1>0, <1>1 DEF WritersInv
  <2> QED BY <2>1, <2>2, <2>3, <2>4 DEF WritersInv
<1>6. MergeInv' /\ OutInv' /\ ScanJobInv' /\ CompactJobInv'
  BY <1>1, <1>2, JobKept DEF CommitsStay
<1>7. CompactionKeepsAnswers'
  <2> SUFFICES ASSUME NEW k \in Key \ disturbed' PROVE Answer(k, 0)' = answer'[k]
    BY DEF CompactionKeepsAnswers
  <2>1. CASE row_locks[k] = tx
    <3>1. PICK r \in Rows : /\ r.key = k /\ r.tx = tx
                            /\ pending[k] = IF r.is_deleted THEN 0 ELSE r.seq
                            /\ \A s \in Rows : s.key = k => s.seq <= r.seq
      BY <1>0, <1>1, <2>1, TableScansAssumption DEF WritersInv
    <3>2. /\ Committed(k)' \subseteq Row /\ r \in Committed(k)'
          /\ \A s \in Committed(k)' : s.seq <= r.seq
          /\ \A s, t \in Committed(k)' : s.seq = t.seq => s = t
      BY <1>0, <1>1, <1>2, <1>3, <3>1 DEF Committed, RowsInv
    <3>3. Verdict(Committed(k)') = pending[k]
      BY <3>1, <3>2, VerdictIs
    <3> QED BY <1>1, <1>4, <2>1, <3>3, SeenByNobodyNext DEF Answer
  <2>2. CASE row_locks[k] # tx
    <3>1. \A r \in Rows : r.key = k => r.tx # tx
      BY <1>0, <1>1, <1>3, <2>2 DEF WritersInv, IsCommited
    <3>2. Committed(k)' = Committed(k)
      BY <1>1, <1>2, <1>3, <3>1 DEF Committed
    <3>3. Answer(k, 0)' = Answer(k, 0)
      BY <1>0, <1>4, <3>2, AnswerKept
    <3> QED BY <1>0, <1>1, <2>2, <3>3 DEF CompactionKeepsAnswers
  <2> QED BY <2>1, <2>2
<1> QED BY <1>4, <1>5, <1>6, <1>7 DEF TableScansInv

\* A flush moves the oldest rows of memory to a new ss table.
LEMMA FlushStep ==
  ASSUME Laws, TableScansInv, Flush
  PROVE  TableScansInv'
<1>0. RowsInv /\ WritersInv /\ CompactionKeepsAnswers
  BY DEF TableScansInv
<1> PICK n \in 1..(next_seq_no - 1) :
      /\ ss_tables' = Append(ss_tables, {r \in memory : r.seq <= n})
      /\ memory' = memory \ {r \in memory : r.seq <= n}
  BY DEF Flush
<1> DEFINE frozen == {r \in memory : r.seq <= n}
<1>1. /\ UNCHANGED <<tx_status, row_locks, next_seq_no, job, pending, answer, disturbed>>
      /\ job.kind # "compact" /\ n \in Nat
  BY <1>0 DEF Flush, RowsInv
<1>2. /\ frozen \subseteq memory /\ frozen \in SUBSET Row /\ memory' \subseteq memory
      /\ IsFiniteSet(frozen) /\ IsFiniteSet(memory')
      /\ \A r \in frozen, s \in memory' : r.seq < s.seq
  <2>1. frozen \subseteq memory /\ memory' \subseteq memory /\ IsFiniteSet(memory)
    BY <1>0 DEF RowsInv
  <2>2. \A r \in memory : r.seq \in Nat
    BY <1>0, RowTypes DEF Rows
  <2>3. frozen \in SUBSET Row
    BY <1>0, <2>1 DEF RowsInv
  <2>4. IsFiniteSet(frozen) /\ IsFiniteSet(memory')
    BY <2>1 DEF Laws, FiniteLaw
  <2>5. \A r \in frozen, s \in memory' : r.seq < s.seq
    BY <1>1, <2>2
  <2> QED BY <2>1, <2>3, <2>4, <2>5
<1>3. memory' = memory \ frozen
  OBVIOUS
<1>4. /\ ss_tables' \in Seq(SUBSET Row)
      /\ DOMAIN ss_tables' = DOMAIN ss_tables \cup {Len(ss_tables) + 1}
      /\ Len(ss_tables) + 1 \notin DOMAIN ss_tables
      /\ ss_tables'[Len(ss_tables) + 1] = frozen
      /\ \A i \in DOMAIN ss_tables : ss_tables'[i] = ss_tables[i]
  <2>1. ss_tables \in Seq(SUBSET Row) /\ ss_tables' = Append(ss_tables, frozen)
    BY <1>0 DEF RowsInv
  <2> HIDE DEF frozen
  <2> QED BY <1>2, <2>1
<1> HIDE DEF frozen
<1>5. OnDisk' = OnDisk \cup frozen
  <2>1. \A r : r \in OnDisk' <=> \E i \in DOMAIN ss_tables' : r \in ss_tables'[i]
    BY Zenon DEF OnDisk, ToSet
  <2> QED BY <1>4, <2>1, DiskRows
<1>6. Rows' = Rows
  BY <1>2, <1>3, <1>5 DEF Rows
<1>7. RowsInv'
  <2>1. \A i \in DOMAIN ss_tables' : IsFiniteSet(ss_tables'[i])
    BY <1>0, <1>2, <1>4, Zenon DEF RowsInv
  <2>2. \A r \in memory', s \in OnDisk' : s.seq < r.seq
    BY <1>0, <1>2, <1>5 DEF RowsInv
  <2>3. \A i \in DOMAIN ss_tables : ss_tables[i] \cap frozen = {}
    <3>1. \A r \in frozen : r \notin OnDisk
      BY <1>0, <1>2, RowTypes DEF RowsInv, Rows
    <3> QED BY <3>1, DiskRows
  <2>4. \A i, j \in DOMAIN ss_tables' : i # j => ss_tables'[i] \cap ss_tables'[j] = {}
    BY <1>0, <1>4, <2>3 DEF RowsInv
  <2>5. memory' \subseteq Row
    BY <1>0, <1>2 DEF RowsInv
  <2> QED BY <1>0, <1>1, <1>2, <1>4, <1>6, <2>1, <2>2, <2>4, <2>5, Zenon DEF RowsInv, IsCommited
<1>8. WritersInv'
  BY <1>0, <1>1, <1>6 DEF WritersInv, IsCommited
<1>9. MergeInv' /\ OutInv' /\ ScanJobInv' /\ CompactJobInv'
  BY <1>1, JobKept DEF CommitsStay, IsCommited
<1>10. CompactionKeepsAnswers'
  <2> SUFFICES ASSUME NEW k \in Key \ disturbed' PROVE Answer(k, 0)' = answer'[k]
    BY DEF CompactionKeepsAnswers
  <2>1. Committed(k)' = Committed(k)
    BY <1>1, <1>6 DEF Committed, IsCommited
  <2>2. Answer(k, 0)' = Answer(k, 0)
    BY <1>0, <1>7, <2>1, AnswerKept
  <2> QED BY <1>0, <1>1, <2>2 DEF CompactionKeepsAnswers
<1> QED BY <1>7, <1>8, <1>9, <1>10 DEF TableScansInv

-----------------------------------------------------------------------------
\* A step that leaves the tables and the transactions alone.
LEMMA TablesKept ==
  ASSUME TableScansInv, disturbed \subseteq disturbed',
         UNCHANGED <<tx_status, row_locks, memory, ss_tables, next_seq_no, pending, answer>>
  PROVE  RowsInv' /\ WritersInv' /\ CompactionKeepsAnswers' /\ OnDisk' = OnDisk /\ Rows' = Rows
<1>0. RowsInv /\ WritersInv /\ CompactionKeepsAnswers
  BY DEF TableScansInv
<1>1. OnDisk' = OnDisk /\ Rows' = Rows
  BY DEF OnDisk, Rows
<1>2. RowsInv'
  BY <1>0, <1>1 DEF RowsInv, IsCommited
<1>3. WritersInv'
  BY <1>0, <1>1 DEF WritersInv, IsCommited
<1>4. ASSUME NEW k \in Key \ disturbed' PROVE Answer(k, 0)' = answer'[k]
  <2>1. Committed(k)' = Committed(k)
    BY <1>1 DEF Committed, IsCommited
  <2>2. Answer(k, 0)' = Answer(k, 0)
    BY <1>0, <1>2, <2>1, AnswerKept
  <2> QED BY <1>0, <2>2 DEF CompactionKeepsAnswers
<1>5. CompactionKeepsAnswers'
  BY <1>4 DEF CompactionKeepsAnswers
<1> QED BY <1>1, <1>2, <1>3, <1>5

\* The iterators over tables that have no row in common.
LEMMA FreshIterators ==
  ASSUME Laws, NEW layers \in Seq(SUBSET Row), NEW bound \in Nat,
         \A i \in DOMAIN layers : IsFiniteSet(layers[i]),
         \A i \in DOMAIN layers : \A r \in layers[i] : r.seq <= bound,
         \A i \in DOMAIN layers : \A r, s \in layers[i] : r.seq = s.seq => r = s,
         \A i, j \in DOMAIN layers : i # j => layers[i] \cap layers[j] = {},
         NEW iterators, iterators = [i \in DOMAIN layers |-> Sorted(layers[i])]
  PROVE  /\ iterators \in Seq(Seq(Row)) /\ DOMAIN iterators = DOMAIN layers
         /\ \A i \in DOMAIN iterators : ToSet(iterators[i]) = layers[i]
         /\ \A i \in DOMAIN iterators : \A j, k \in DOMAIN iterators[i] :
              j < k => Before(iterators[i][j], iterators[i][k])
         /\ \A i, j \in DOMAIN iterators :
              i # j => ToSet(iterators[i]) \cap ToSet(iterators[j]) = {}
<1>1. ASSUME NEW i \in DOMAIN layers
      PROVE  /\ Sorted(layers[i]) \in Seq(Row) /\ ToSet(Sorted(layers[i])) = layers[i]
             /\ \A j, k \in DOMAIN Sorted(layers[i]) :
                  j < k => Before(Sorted(layers[i])[j], Sorted(layers[i])[k])
  <2>1. layers[i] \in SUBSET Row
    OBVIOUS
  <2>2. Sortable(layers[i], bound)
    BY <2>1, TableScansAssumption, Zenon DEF Sortable, Row
  <2>3. /\ Sorted(layers[i]) \in Seq(layers[i]) /\ ToSet(Sorted(layers[i])) = layers[i]
        /\ \A j, k \in DOMAIN Sorted(layers[i]) :
             j < k => Before(Sorted(layers[i])[j], Sorted(layers[i])[k])
    BY <2>2 DEF Laws, SortLaw
  <2>4. Sorted(layers[i]) \in Seq(Row)
    BY <2>1, <2>3
  <2> QED BY <2>3, <2>4
<1>2. DOMAIN iterators = DOMAIN layers /\ DOMAIN layers = 1..Len(layers) /\ Len(layers) \in Nat
  OBVIOUS
<1>3. iterators \in Seq(Seq(Row))
  <2>1. iterators \in [1..Len(layers) -> Seq(Row)]
    BY <1>1, <1>2
  <2> QED BY <1>2, <2>1
<1>4. \A i \in DOMAIN iterators : iterators[i] = Sorted(layers[i])
  OBVIOUS
<1> QED BY <1>1, <1>2, <1>3, <1>4

\* A job that has just begun over such tables.
FreshJob(layers) ==
  [kind : {"scan", "compact"}, tx : Tx \cup {0},
   iterators : {[i \in DOMAIN layers |-> Sorted(layers[i])]},
   input : {UNION ToSet(layers)}, handed : {<<>>}, out : {<<>>}, floor : [Key -> Nat]]

LEMMA FreshMerge ==
  ASSUME Laws, NEW layers \in Seq(SUBSET Row), NEW bound \in Nat,
         \A i \in DOMAIN layers : IsFiniteSet(layers[i]),
         \A i, j \in DOMAIN layers : i # j => layers[i] \cap layers[j] = {},
         job' \in FreshJob(layers),
         \A r \in job'.input : r.seq <= bound /\ (r.is_frozen => IsCommited(r.tx)'),
         \A r, s \in job'.input : r.seq = s.seq => r = s
  PROVE  MergeInv' /\ OutInv'
<1> DEFINE input == UNION ToSet(layers)
<1>0. \A r : r \in input <=> \E i \in DOMAIN layers : r \in layers[i]
  <2>1. \A r : r \in UNION ToSet(layers) <=> \E i \in DOMAIN layers : r \in layers[i]
    BY Zenon DEF ToSet
  <2> QED BY <2>1
<1> HIDE DEF input
<1>1. \A i \in DOMAIN layers : \A r \in layers[i] : r \in input
  BY <1>0
<1> DEFINE iterators == [i \in DOMAIN layers |-> Sorted(layers[i])]
<1>2. /\ iterators \in Seq(Seq(Row)) /\ DOMAIN iterators = DOMAIN layers
      /\ \A i \in DOMAIN iterators : ToSet(iterators[i]) = layers[i]
      /\ \A i \in DOMAIN iterators : \A j, k \in DOMAIN iterators[i] :
           j < k => Before(iterators[i][j], iterators[i][k])
      /\ \A i, j \in DOMAIN iterators :
           i # j => ToSet(iterators[i]) \cap ToSet(iterators[j]) = {}
  <2>1. job'.input = input
    BY DEF FreshJob, input
  <2>2. /\ \A i \in DOMAIN layers : \A r \in layers[i] : r.seq <= bound
        /\ \A i \in DOMAIN layers : \A r, s \in layers[i] : r.seq = s.seq => r = s
    BY <1>1, <2>1
  <2> QED BY <2>2, FreshIterators, Zenon
<1> HIDE DEF iterators
<1>3. /\ job' \in [kind : {"scan", "compact"}, tx : Tx \cup {0}, iterators : {iterators},
                   input : {input}, handed : {<<>>}, out : {<<>>}, floor : [Key -> Nat]]
      /\ job'.kind \in {"scan", "compact"} /\ job'.iterators = iterators
      /\ job'.input = input /\ job'.handed = <<>> /\ job'.out = <<>>
  BY DEF iterators, input, FreshJob
<1>4. Left' = input
  <2>1. \A r : r \in Left' <=> \E i \in DOMAIN iterators : r \in ToSet(iterators[i])
    <3>1. Left' = UNION {ToSet(iterators[i]) : i \in DOMAIN iterators}
      BY <1>3 DEF Left
    <3> QED BY <3>1, Zenon
  <2>2. DOMAIN iterators = DOMAIN layers /\ \A i \in DOMAIN layers : ToSet(iterators[i]) = layers[i]
    BY <1>2
  <2>3. \A r : r \in Left' <=> \E i \in DOMAIN layers : r \in layers[i]
    BY <2>1, <2>2
  <2> QED BY <1>0, <2>3, Zenon
<1>5. input \subseteq Row
  BY <1>0
<1>6. job' \in [kind : {"none", "scan", "scanned", "compact", "compacted"}, tx : Tx \cup {0},
                iterators : Seq(Seq(Row)), input : SUBSET Row, handed : Seq(Row),
                out : Seq(Row), floor : [Key -> Nat]]
  <2>1. /\ {iterators} \subseteq Seq(Seq(Row)) /\ {input} \subseteq SUBSET Row
        /\ {<<>>} \subseteq Seq(Row)
        /\ {"scan", "compact"} \subseteq {"none", "scan", "scanned", "compact", "compacted"}
    BY <1>2, <1>5
  <2> QED BY <1>3, <2>1, Zenon
<1>7. ToSet(<<>>) = {} /\ DOMAIN <<>> = {}
  BY DEF ToSet
<1>8. MergeInv'
  <2>1. /\ \A r, s \in job'.input : r.seq = s.seq => r = s
        /\ \A r \in job'.input : r.is_frozen => IsCommited(r.tx)'
        /\ job'.kind \in {"scan", "compact"}
    BY <1>3
  <2>2. ToSet(job'.handed) \cup Left' = job'.input
    BY <1>3, <1>4, <1>7
  <2>3. /\ \A i, j \in DOMAIN job'.handed : i < j => Before(job'.handed[i], job'.handed[j])
        /\ \A r \in ToSet(job'.handed), s \in Left' : Before(r, s)
    BY <1>3, <1>7
  <2>4. /\ \A i \in DOMAIN job'.iterators : \A j, k \in DOMAIN job'.iterators[i] :
             j < k => Before(job'.iterators[i][j], job'.iterators[i][k])
        /\ \A i, j \in DOMAIN job'.iterators :
             i # j => ToSet(job'.iterators[i]) \cap ToSet(job'.iterators[j]) = {}
    BY <1>2, <1>3
  <2>5. job'.kind \notin {"scan", "compact"} => Left' = {}
    BY <2>1
  <2> QED BY <1>6, <2>1, <2>2, <2>3, <2>4, <2>5, Zenon DEF MergeInv
<1>9. OutInv'
  BY <1>3, <1>7 DEF OutInv
<1> QED BY <1>8, <1>9

\* A scan begins with all layers, and with what its transaction sees now as its floor.
LEMMA StartScanStep ==
  ASSUME Laws, TableScansInv, NEW tx \in Tx, StartScan(tx)
  PROVE  TableScansInv'
<1>0. RowsInv
  BY DEF TableScansInv
<1>1. /\ RowsInv' /\ WritersInv' /\ CompactionKeepsAnswers' /\ OnDisk' = OnDisk /\ Rows' = Rows
      /\ tx_status' = tx_status
  BY TablesKept DEF StartScan
<1> DEFINE layers == <<memory>> \o ss_tables
           floor == [key \in Key |-> Answer(key, tx)]
<1>2. job' = [kind |-> "scan", tx |-> tx,
              iterators |-> [i \in DOMAIN layers |-> Sorted(layers[i])],
              input |-> Rows, handed |-> <<>>, out |-> <<>>, floor |-> floor]
  BY Zenon DEF StartScan, NoJob, RangeIterators, Rows
<1>3. /\ memory \in SUBSET Row /\ ss_tables \in Seq(SUBSET Row) /\ next_seq_no \in Nat
      /\ OnDisk \subseteq Row
  BY <1>0, RowTypes DEF RowsInv
<1>4. /\ layers \in Seq(SUBSET Row) /\ DOMAIN layers = 1..(Len(ss_tables) + 1)
      /\ layers[1] = memory /\ 1 \in DOMAIN layers
      /\ \A i \in DOMAIN ss_tables : i + 1 \in DOMAIN layers /\ layers[i + 1] = ss_tables[i]
      /\ \A i \in DOMAIN layers : i # 1 =>
           i - 1 \in DOMAIN ss_tables /\ layers[i] = ss_tables[i - 1]
  BY <1>3
<1> HIDE DEF layers
<1>5. \A i \in DOMAIN layers : IsFiniteSet(layers[i])
  BY <1>0, <1>4 DEF RowsInv
<1>6. \A i \in DOMAIN ss_tables : memory \cap ss_tables[i] = {}
  <2>1. \A r \in memory : r \notin OnDisk
    BY <1>0, RowTypes DEF RowsInv, Rows
  <2> QED BY <2>1, DiskRows
<1>7. ASSUME NEW i \in DOMAIN layers, NEW j \in DOMAIN layers, i # j
      PROVE  layers[i] \cap layers[j] = {}
  <2>1. CASE i = 1
    BY <1>4, <1>6, <1>7, <2>1
  <2>2. CASE j = 1
    BY <1>4, <1>6, <1>7, <2>2
  <2>3. CASE i # 1 /\ j # 1
    <3>1. i - 1 # j - 1
      BY <1>4, <1>7
    <3> QED BY <1>0, <1>4, <2>3, <3>1 DEF RowsInv
  <2> QED BY <2>1, <2>2, <2>3
<1>8. Rows = UNION ToSet(layers)
  <2>1. \A r : r \in UNION ToSet(layers) <=> \E i \in DOMAIN layers : r \in layers[i]
    BY Zenon DEF ToSet
  <2>2. \A r : r \in Rows <=> r \in memory \/ \E i \in DOMAIN ss_tables : r \in ss_tables[i]
    BY DiskRows DEF Rows
  <2>3. \A r : (\E i \in DOMAIN layers : r \in layers[i])
               <=> r \in memory \/ \E i \in DOMAIN ss_tables : r \in ss_tables[i]
    BY <1>4, Zenon
  <2> QED BY <2>1, <2>2, <2>3
<1>9. ASSUME NEW key \in Key, floor[key] # 0
      PROVE  \E r \in Rows : /\ r.key = key /\ r.seq = floor[key] /\ ~r.is_deleted
                             /\ r.tx = tx \/ IsCommited(r.tx)
  <2>1. floor[key] = Verdict(Seen(key, tx))
    BY DEF Answer
  <2>2. /\ Seen(key, tx) # {} /\ ~NewestOf(Seen(key, tx)).is_deleted
        /\ floor[key] = NewestOf(Seen(key, tx)).seq
    BY <1>9, <2>1 DEF Verdict
  <2>3. /\ Seen(key, tx) \in SUBSET Row /\ \A r \in Seen(key, tx) : r.seq < next_seq_no
        /\ \A r, s \in Seen(key, tx) : r.seq = s.seq => r = s
    BY <1>0, RowTypes DEF Seen, Rows, RowsInv
  <2>4. PICK r \in Seen(key, tx) : \A s \in Seen(key, tx) : s.seq <= r.seq
    BY <1>3, <2>2, <2>3, NewestExists
  <2>5. NewestOf(Seen(key, tx)) = r
    BY <2>3, <2>4, NewestIs
  <2>6. r \in Rows /\ r.key = key /\ (r.tx = tx \/ IsCommited(r.tx))
    BY <1>0, <2>4 DEF Seen, Rows, RowsInv
  <2> QED BY <2>2, <2>5, <2>6
<1>10. floor \in [Key -> Nat]
  <2> SUFFICES ASSUME NEW key \in Key PROVE floor[key] \in Nat
    OBVIOUS
  <2>1. CASE floor[key] # 0
    BY <1>0, <1>9, <2>1, RowTypes
  <2> QED BY <2>1
<1> HIDE DEF floor
<1>11. MergeInv' /\ OutInv'
  <2>1. \A r \in Rows : r.seq <= next_seq_no /\ (r.is_frozen => IsCommited(r.tx)')
    BY <1>0, <1>1, RowTypes DEF RowsInv, IsCommited
  <2>2. \A r, s \in Rows : r.seq = s.seq => r = s
    BY <1>0 DEF RowsInv
  <2>3. job' \in FreshJob(layers) /\ job'.input = Rows
    BY <1>2, <1>8, <1>10 DEF FreshJob
  <2> QED BY <1>3, <1>4, <1>5, <1>7, <2>1, <2>2, <2>3, FreshMerge, Zenon
<1>12. /\ job'.kind = "scan" /\ job'.tx = tx /\ job'.input = Rows /\ job'.handed = <<>>
       /\ job'.out = <<>> /\ job'.floor = floor
  BY <1>2
<1>13. ScanJobInv'
  <2>1. DOMAIN job'.out = {} /\ ToSet(job'.handed) = {}
    BY <1>12 DEF ToSet
  <2> QED BY <1>1, <1>9, <1>12, <2>1 DEF ScanJobInv, IsCommited
<1>14. CompactJobInv'
  BY <1>12 DEF CompactJobInv
<1> QED BY <1>1, <1>11, <1>13, <1>14 DEF TableScansInv

\* A compaction begins with the ss tables, and disturbs the keys with a deletion or an
\* uncommitted row on top of them.
LEMMA StartCompactStep ==
  ASSUME Laws, TableScansInv, StartCompact
  PROVE  TableScansInv'
<1>0. RowsInv
  BY DEF TableScansInv
<1>1. /\ RowsInv' /\ WritersInv' /\ CompactionKeepsAnswers' /\ OnDisk' = OnDisk /\ Rows' = Rows
      /\ tx_status' = tx_status
  BY TablesKept DEF StartCompact
<1> DEFINE floor == [key \in Key |-> 0]
<1>2. job' = [kind |-> "compact", tx |-> 0,
              iterators |-> [i \in DOMAIN ss_tables |-> Sorted(ss_tables[i])],
              input |-> OnDisk, handed |-> <<>>, out |-> <<>>, floor |-> floor]
  BY Zenon DEF StartCompact, NoJob
<1>3. /\ ss_tables \in Seq(SUBSET Row) /\ next_seq_no \in Nat
      /\ \A i \in DOMAIN ss_tables : IsFiniteSet(ss_tables[i])
      /\ \A i, j \in DOMAIN ss_tables : i # j => ss_tables[i] \cap ss_tables[j] = {}
  BY <1>0 DEF RowsInv
<1>4. MergeInv' /\ OutInv'
  <2>1. \A r \in OnDisk : r.seq <= next_seq_no /\ (r.is_frozen => IsCommited(r.tx)')
    BY <1>0, <1>1, RowTypes DEF RowsInv, IsCommited, Rows
  <2>2. \A r, s \in OnDisk : r.seq = s.seq => r = s
    BY <1>0 DEF RowsInv, Rows
  <2>3. job' \in FreshJob(ss_tables) /\ job'.input = OnDisk
    BY <1>2 DEF FreshJob, OnDisk
  <2> QED BY <1>3, <2>1, <2>2, <2>3, FreshMerge
<1>5. job'.kind = "compact" /\ job'.input = OnDisk /\ job'.handed = <<>>
  BY <1>2
<1>6. ScanJobInv'
  BY <1>5 DEF ScanJobInv
<1>7. CompactJobInv'
  <2>1. ToSet(job'.handed) = {}
    BY <1>5 DEF ToSet
  <2>2. ASSUME NEW r \in OnDisk, \A s \in OnDisk : s.key = r.key => s.seq <= r.seq,
               r.is_deleted \/ ~IsCommited(r.tx)
        PROVE  r.key \in disturbed'
    BY <2>2 DEF StartCompact
  <2> QED BY <1>1, <1>5, <2>1, <2>2 DEF CompactJobInv, IsCommited
<1> QED BY <1>1, <1>4, <1>6, <1>7 DEF TableScansInv

-----------------------------------------------------------------------------
\* The row on top of the merge comes before every other one that is left.
LEMMA TopIsFirst ==
  ASSUME MergeInv, NEW i \in DOMAIN job.iterators, IsTop(i)
  PROVE  /\ Head(job.iterators[i]) \in Row /\ Head(job.iterators[i]) \in Left
         /\ \A s \in ToSet(Tail(job.iterators[i])) : Before(Head(job.iterators[i]), s)
         /\ \A j \in DOMAIN job.iterators \ {i} : \A s \in ToSet(job.iterators[j]) :
              Before(Head(job.iterators[i]), s)
<1> DEFINE its == job.iterators
           row == Head(its[i])
<1>1. /\ its \in Seq(Seq(Row)) /\ its[i] \in Seq(Row) /\ its[i] # <<>>
      /\ \A k \in DOMAIN its : \A m, n \in DOMAIN its[k] : m < n => Before(its[k][m], its[k][n])
      /\ \A j \in DOMAIN its \ {i} : its[j] # <<>> => Before(row, Head(its[j]))
  <2>1. its \in Seq(Seq(Row))
    BY DEF MergeInv
  <2>2. its[i] \in Seq(Row)
    BY <2>1
  <2> QED BY <2>1, <2>2 DEF MergeInv, IsTop
<1> HIDE DEF its
<1>2. /\ row = its[i][1] /\ 1 \in DOMAIN its[i] /\ Tail(its[i]) \in Seq(Row)
      /\ \A k \in DOMAIN Tail(its[i]) :
           k + 1 \in DOMAIN its[i] /\ Tail(its[i])[k] = its[i][k + 1] /\ 1 < k + 1
  BY <1>1
<1>3. row \in Row /\ row \in Left
  <2>1. row \in ToSet(its[i])
    BY <1>2, Zenon DEF ToSet
  <2>2. row \in Row
    BY <1>1, <1>2
  <2> QED BY <2>1, <2>2, LeftRows DEF its
<1>4. ASSUME NEW k \in DOMAIN Tail(its[i]) PROVE Before(row, Tail(its[i])[k])
  BY <1>1, <1>2, i \in DOMAIN its DEF its
<1>5. ASSUME NEW j \in DOMAIN its \ {i}, NEW k \in DOMAIN its[j] PROVE Before(row, its[j][k])
  <2>1. its[j] \in Seq(Row) /\ its[j] # <<>> /\ 1 \in DOMAIN its[j] /\ Head(its[j]) = its[j][1]
        /\ its[j][1] \in Row /\ its[j][k] \in Row
    BY <1>1
  <2>2. Before(row, its[j][1])
    BY <1>1, <2>1
  <2>3. CASE k = 1
    BY <2>2, <2>3
  <2>4. CASE k # 1
    <3>1. 1 < k
      BY <2>1, <2>4
    <3>2. Before(its[j][1], its[j][k])
      BY <1>1, <2>1, <3>1
    <3> QED BY <1>3, <2>1, <2>2, <3>2, BeforeOrders
  <2> QED BY <2>3, <2>4
<1>6. \A s \in ToSet(Tail(its[i])) : Before(row, s)
  BY <1>4, Zenon DEF ToSet
<1>7. \A j \in DOMAIN its \ {i} : \A s \in ToSet(its[j]) : Before(row, s)
  BY <1>5, Zenon DEF ToSet
<1> QED BY <1>3, <1>6, <1>7 DEF its

\* The merge goes on: the row on top moves from what is left to what was handed out.
Moved(i, row, out) ==
  [job EXCEPT !.iterators[i] = Tail(@), !.handed = Append(@, row), !.out = out]

LEMMA MergeMoves ==
  ASSUME MergeInv, NEW i \in DOMAIN job.iterators, IsTop(i),
         NEW row, row = Head(job.iterators[i]), NEW out \in Seq(Row),
         tx_status' = tx_status,
         job' = Moved(i, row, out)
  PROVE  /\ MergeInv' /\ row \in Row /\ row \in job.input
         /\ job.kind \in {"scan", "compact"}
         /\ \A h \in ToSet(job.handed) : Before(h, row)
         /\ ToSet(job'.handed) = ToSet(job.handed) \cup {row}
         /\ job'.kind = job.kind /\ job'.tx = job.tx /\ job'.input = job.input
         /\ job'.out = out /\ job'.floor = job.floor
<1> DEFINE its == job.iterators
<1>1. /\ its \in Seq(Seq(Row)) /\ its[i] \in Seq(Row) /\ its[i] # <<>> /\ i \in DOMAIN its
      /\ job.handed \in Seq(Row)
  <2>1. its \in Seq(Seq(Row)) /\ job.handed \in Seq(Row)
    BY DEF MergeInv
  <2>2. its[i] \in Seq(Row)
    BY <2>1
  <2> QED BY <2>1, <2>2 DEF MergeInv, IsTop
<1>2. /\ row \in Row /\ row \in Left /\ \A s \in ToSet(Tail(its[i])) : Before(row, s)
      /\ \A j \in DOMAIN its \ {i} : \A s \in ToSet(its[j]) : Before(row, s)
  BY TopIsFirst, Zenon
<1>3. /\ job'.kind = job.kind /\ job'.tx = job.tx /\ job'.input = job.input
      /\ job'.out = out /\ job'.floor = job.floor
      /\ job'.handed = Append(job.handed, row)
      /\ job'.iterators = [its EXCEPT ![i] = Tail(its[i])]
  BY DEF MergeInv, Moved
<1>0. job' \in [kind : {"none", "scan", "scanned", "compact", "compacted"}, tx : Tx \cup {0},
                   iterators : {job'.iterators}, input : SUBSET Row, handed : {job'.handed},
                   out : {out}, floor : [Key -> Nat]]
  BY Zenon DEF MergeInv, Moved
<1>4. /\ ToSet(its[i]) = {row} \cup ToSet(Tail(its[i])) /\ Tail(its[i]) \in Seq(Row)
      /\ \A k \in DOMAIN Tail(its[i]) : k + 1 \in DOMAIN its[i] /\ Tail(its[i])[k] = its[i][k + 1]
  BY <1>1, ToSetTail
<1> HIDE DEF its
<1>5. /\ DOMAIN job'.iterators = DOMAIN its /\ job'.iterators[i] = Tail(its[i])
      /\ \A j \in DOMAIN its \ {i} : job'.iterators[j] = its[j]
      /\ job'.iterators \in Seq(Seq(Row))
  <2>1. /\ its \in Seq(Seq(Row)) /\ i \in DOMAIN its /\ Tail(its[i]) \in Seq(Row)
        /\ job'.iterators = [its EXCEPT ![i] = Tail(its[i])]
    BY <1>1, <1>3, <1>4, Zenon
  <2> DEFINE next == job'.iterators
  <2>2. next = [its EXCEPT ![i] = Tail(its[i])]
    BY <2>1
  <2> HIDE DEF next
  <2>3. /\ DOMAIN next = DOMAIN its /\ next[i] = Tail(its[i])
        /\ \A j \in DOMAIN its \ {i} : next[j] = its[j]
        /\ next \in Seq(Seq(Row))
    BY <2>1, <2>2, ExceptIs
  <2> QED BY <2>3, Zenon DEF next
<1>6. \A r : r \in Left' <=> \E j \in DOMAIN its : r \in ToSet(job'.iterators[j])
  <2>1. Left' = UNION {ToSet(job'.iterators[j]) : j \in DOMAIN its}
    BY <1>5 DEF Left
  <2> QED BY <2>1, Zenon
<1>7. Left = Left' \cup {row} /\ \A s \in Left' : Before(row, s)
  <2>1. \A r : r \in Left <=> \E j \in DOMAIN its : r \in ToSet(its[j])
    BY LeftRows DEF its
  <2>2. \A r : r \in Left' <=> \/ r \in ToSet(Tail(its[i]))
                               \/ \E j \in DOMAIN its \ {i} : r \in ToSet(its[j])
    BY <1>1, <1>5, <1>6, Zenon
  <2>3. \A r : r \in Left <=> r \in Left' \/ r = row
    BY <1>1, <1>4, <2>1, <2>2
  <2>4. Left = Left' \cup {row}
    BY <2>3
  <2> QED BY <1>2, <2>2, <2>4
<1>8. /\ ToSet(job'.handed) = ToSet(job.handed) \cup {row} /\ job'.handed \in Seq(Row)
      /\ DOMAIN job'.handed = DOMAIN job.handed \cup {Len(job.handed) + 1}
      /\ DOMAIN job.handed = 1..Len(job.handed) /\ Len(job.handed) \in Nat
      /\ job'.handed[Len(job.handed) + 1] = row
      /\ \A j \in DOMAIN job.handed : job'.handed[j] = job.handed[j]
  <2>1. job.handed \in Seq(Row) /\ row \in Row
    BY <1>1, <1>2, Zenon
  <2> DEFINE next == job'.handed
  <2>2. next = Append(job.handed, row)
    BY <1>3, Zenon
  <2> HIDE DEF next
  <2>3. ToSet(next) = ToSet(job.handed) \cup {row}
    BY <2>1, <2>2, ToSetAppend
  <2>4. /\ next \in Seq(Row)
        /\ DOMAIN next = DOMAIN job.handed \cup {Len(job.handed) + 1}
        /\ DOMAIN job.handed = 1..Len(job.handed) /\ Len(job.handed) \in Nat
        /\ next[Len(job.handed) + 1] = row
        /\ \A j \in DOMAIN job.handed : next[j] = job.handed[j]
    BY <2>1, <2>2
  <2> QED BY <2>3, <2>4, Zenon DEF next
<1>9. /\ \A h \in ToSet(job.handed) : Before(h, row)
      /\ job.kind \in {"scan", "compact"} /\ row \in job.input
  BY <1>2, Zenon DEF MergeInv
<1>10. MergeInv'
  <2>1. job' \in [kind : {"none", "scan", "scanned", "compact", "compacted"}, tx : Tx \cup {0},
                  iterators : Seq(Seq(Row)), input : SUBSET Row, handed : Seq(Row),
                  out : Seq(Row), floor : [Key -> Nat]]
    <3>1. /\ {job'.iterators} \subseteq Seq(Seq(Row)) /\ {out} \subseteq Seq(Row)
          /\ {job'.handed} \subseteq Seq(Row)
      BY <1>5, <1>8, ZenonT(30)
    <3> QED BY <1>0, <3>1
  <2>2. /\ \A r, s \in job'.input : r.seq = s.seq => r = s
        /\ \A r \in job'.input : r.is_frozen => IsCommited(r.tx)'
    BY <1>3, ZenonT(30) DEF MergeInv, IsCommited
  <2>3. ToSet(job'.handed) \cup Left' = job'.input
    BY <1>3, <1>7, <1>8, ZenonT(30) DEF MergeInv
  <2>4. ASSUME NEW j \in DOMAIN its, NEW m \in DOMAIN job'.iterators[j],
               NEW n \in DOMAIN job'.iterators[j], m < n
        PROVE  Before(job'.iterators[j][m], job'.iterators[j][n])
    <3>1. \A p, q \in DOMAIN its[j] : p < q => Before(its[j][p], its[j][q])
      BY ZenonT(30) DEF MergeInv, its
    <3>2. CASE j = i
      <4>1. m + 1 \in DOMAIN its[i] /\ n + 1 \in DOMAIN its[i]
            /\ job'.iterators[j][m] = its[i][m + 1] /\ job'.iterators[j][n] = its[i][n + 1]
        BY <1>4, <1>5, <3>2, ZenonT(30)
      <4>2. m + 1 < n + 1
        BY <1>4, <1>5, <2>4, <3>2
      <4> QED BY <3>1, <3>2, <4>1, <4>2, ZenonT(30)
    <3>3. CASE j # i
      BY <1>5, <2>4, <3>1, <3>3
    <3> QED BY <3>2, <3>3, ZenonT(30)
  <2>5. \A j \in DOMAIN its : ToSet(job'.iterators[j]) \subseteq ToSet(its[j])
    BY <1>4, <1>5, Zenon
  <2>6. \A j, k \in DOMAIN its :
          j # k => ToSet(job'.iterators[j]) \cap ToSet(job'.iterators[k]) = {}
    <3>1. \A j, k \in DOMAIN its : j # k => ToSet(its[j]) \cap ToSet(its[k]) = {}
      BY ZenonT(30) DEF MergeInv, its
    <3> QED BY <2>5, <3>1
  <2>7. ASSUME NEW j \in DOMAIN job'.handed, NEW k \in DOMAIN job'.handed, j < k
        PROVE  Before(job'.handed[j], job'.handed[k])
    <3>1. j \in DOMAIN job.handed /\ job'.handed[j] = job.handed[j]
      BY <1>8, <2>7
    <3>2. CASE k \in DOMAIN job.handed
      <4>1. job'.handed[k] = job.handed[k]
        BY <1>8, <3>2
      <4> QED BY <2>7, <3>1, <3>2, <4>1, ZenonT(30) DEF MergeInv
    <3>3. CASE k \notin DOMAIN job.handed
      <4>1. job'.handed[k] = row
        BY <1>8, <3>3
      <4>2. job.handed[j] \in ToSet(job.handed)
        BY <3>1, Zenon DEF ToSet
      <4> QED BY <1>9, <3>1, <4>1, <4>2
    <3> QED BY <3>2, <3>3, Zenon
  <2>8. \A r \in ToSet(job'.handed), s \in Left' : Before(r, s)
    <3>1. \A r \in ToSet(job.handed), s \in Left : Before(r, s)
      BY ZenonT(30) DEF MergeInv
    <3> QED BY <1>7, <1>8, <3>1
  <2>9. job'.kind \notin {"scan", "compact"} => Left' = {}
    BY <1>3, <1>9, ZenonT(30)
  <2>10. /\ \A j \in DOMAIN job'.iterators : \A m, n \in DOMAIN job'.iterators[j] :
              m < n => Before(job'.iterators[j][m], job'.iterators[j][n])
         /\ \A j, k \in DOMAIN job'.iterators :
              j # k => ToSet(job'.iterators[j]) \cap ToSet(job'.iterators[k]) = {}
    BY <1>5, <2>4, <2>6, ZenonT(30)
  <2> QED BY <2>1, <2>2, <2>3, <2>7, <2>8, <2>9, <2>10, Zenon DEF MergeInv
<1> QED BY <1>2, <1>3, <1>8, <1>9, <1>10, ZenonT(30)

\* What is handed out next has the key of the last row that was kept, and is older, or a
\* larger one.
LEMMA OutBehind ==
  ASSUME MergeInv, OutInv, NEW row \in Row, \A h \in ToSet(job.handed) : Before(h, row),
         NEW i \in DOMAIN job.out
  PROVE  /\ job.out[i] \in Row /\ job.out[i].key <= row.key
         /\ job.out[i].key = row.key => job.out[i].seq > row.seq
<1>1. PICK h \in ToSet(job.handed) : SameRow(job.out[i], h)
  BY DEF OutInv
<1>2. job.out \in Seq(Row) /\ job.handed \in Seq(Row)
  BY DEF MergeInv
<1>3. job.out[i] \in Row /\ h \in Row
  BY <1>1, <1>2 DEF ToSet
<1>4. \A r \in Row : r.key \in Nat /\ r.seq \in Nat
  BY TableScansAssumption, Zenon DEF Row
<1> QED BY <1>1, <1>3, <1>4 DEF Before, SameRow

\* A job keeps the row it was handed, or not.
LEMMA OutGrows ==
  ASSUME MergeInv, OutInv, NEW row \in Row, \A h \in ToSet(job.handed) : Before(h, row),
         ToSet(job'.handed) = ToSet(job.handed) \cup {row}, tx_status' = tx_status,
         NEW kept \in Row, SameRow(kept, row), kept.is_frozen => IsCommited(kept.tx),
         \/ job'.out = job.out
         \/ /\ job'.out = Append(job.out, kept)
            /\ job.out = <<>> \/ Last(job.out).key # row.key
  PROVE  OutInv'
<1>0. job.out \in Seq(Row)
  BY DEF MergeInv
<1>1. CASE job'.out = job.out
  BY <1>1 DEF OutInv, IsCommited
<1>2. CASE /\ job'.out = Append(job.out, kept)
           /\ job.out = <<>> \/ Last(job.out).key # row.key
  <2>1. /\ DOMAIN job'.out = DOMAIN job.out \cup {Len(job.out) + 1}
        /\ DOMAIN job.out = 1..Len(job.out) /\ Len(job.out) \in Nat
        /\ job'.out[Len(job.out) + 1] = kept
        /\ \A i \in DOMAIN job.out : job'.out[i] = job.out[i]
    BY <1>0, <1>2
  <2>2. ASSUME NEW i \in DOMAIN job.out PROVE job.out[i].key < kept.key
    <3>1. Len(job.out) \in DOMAIN job.out /\ job.out[Len(job.out)].key # row.key
      BY <1>0, <1>2 DEF Last
    <3>2. /\ job.out[i] \in Row /\ job.out[i].key <= row.key
          /\ job.out[Len(job.out)].key <= row.key /\ job.out[Len(job.out)] \in Row
      BY <3>1, OutBehind
    <3>3. i = Len(job.out) \/ job.out[i].key < job.out[Len(job.out)].key
      BY <2>1, <3>1 DEF OutInv
    <3>4. \A r \in Row : r.key \in Nat
      BY TableScansAssumption, Zenon DEF Row
    <3> QED BY <3>1, <3>2, <3>3, <3>4 DEF SameRow
  <2>3. \A i, j \in DOMAIN job'.out : i < j => job'.out[i].key < job'.out[j].key
    BY <2>1, <2>2 DEF OutInv
  <2>4. \A i \in DOMAIN job'.out : \E r \in ToSet(job'.handed) : SameRow(job'.out[i], r)
    BY <2>1 DEF OutInv
  <2>5. \A i \in DOMAIN job'.out : job'.out[i].is_frozen => tx_status'[job'.out[i].tx] = "commited"
    <3> SUFFICES ASSUME NEW i \in DOMAIN job'.out, job'.out[i].is_frozen
                 PROVE  tx_status'[job'.out[i].tx] = "commited"
      OBVIOUS
    <3>1. CASE i \in DOMAIN job.out
      BY <2>1, <3>1 DEF OutInv, IsCommited
    <3>2. CASE i = Len(job.out) + 1
      BY <2>1, <3>2 DEF IsCommited
    <3> QED BY <2>1, <3>1, <3>2, Zenon
  <2> QED BY <2>3, <2>4, <2>5 DEF OutInv, IsCommited
<1> QED BY <1>1, <1>2

\* One more row of the merge.
LEMMA NextRowStep ==
  ASSUME TableScansInv, NextRow
  PROVE  TableScansInv'
<1>0. RowsInv /\ MergeInv /\ OutInv /\ ScanJobInv /\ CompactJobInv
  BY DEF TableScansInv
<1>1. /\ RowsInv' /\ WritersInv' /\ CompactionKeepsAnswers' /\ OnDisk' = OnDisk /\ Rows' = Rows
      /\ tx_status' = tx_status /\ disturbed' = disturbed
  BY TablesKept DEF NextRow
<1>2. PICK i \in DOMAIN job.iterators :
        /\ IsTop(i)
        /\ job' = [job EXCEPT !.iterators[i] = Tail(@), !.handed = Append(@, Head(job.iterators[i])),
                     !.out = IF job.kind = "scan" THEN ScanRow(Head(job.iterators[i]))
                             ELSE CompactRow(Head(job.iterators[i]))]
  BY Zenon DEF NextRow
<1> DEFINE row == Head(job.iterators[i])
           frozen == row.is_frozen \/ IsCommited(row.tx)
           kept == IF job.kind = "scan" THEN row ELSE [row EXCEPT !.is_frozen = frozen]
           out == IF job.kind = "scan" THEN ScanRow(row) ELSE CompactRow(row)
<1>3. row \in Row /\ row \in Left
  BY <1>0, <1>2, TopIsFirst
<1>4. row \in job.input /\ (row.is_frozen => IsCommited(row.tx))
  BY <1>0, <1>3, Zenon DEF MergeInv
<1>5. /\ kept \in Row /\ SameRow(kept, row) /\ (kept.is_frozen => IsCommited(kept.tx))
  <2>1. frozen \in BOOLEAN
    BY DEF IsCommited
  <2>2. CASE job.kind = "scan"
    BY <1>3, <1>4, <2>2 DEF SameRow
  <2>3. CASE job.kind # "scan"
    <3> HIDE DEF frozen
    <3>1. [row EXCEPT !.is_frozen = frozen] \in Row
          /\ SameRow([row EXCEPT !.is_frozen = frozen], row)
          /\ [row EXCEPT !.is_frozen = frozen].is_frozen = frozen
      BY <1>3, <2>1 DEF Row, SameRow
    <3>2. frozen => IsCommited(row.tx)
      BY <1>4 DEF frozen
    <3> QED BY <2>3, <3>1, <3>2 DEF SameRow
  <2> QED BY <2>2, <2>3
<1>6. \/ out = job.out
      \/ out = Append(job.out, kept) /\ (job.out = <<>> \/ Last(job.out).key # row.key)
  BY Zenon DEF ScanRow, CompactRow
<1>7. job.kind = "scan" => \/ row.tx = job.tx \/ IsCommited(row.tx)
                           \/ out = job.out
  BY DEF ScanRow
<1>8. /\ job.kind = "scan" /\ (row.tx = job.tx \/ IsCommited(row.tx)) /\ ~row.is_deleted =>
           \/ job.out # <<>> /\ Last(job.out).key = row.key
           \/ out = Append(job.out, kept)
      /\ job.kind = "compact" /\ ~row.is_deleted =>
           \/ job.out # <<>> /\ Last(job.out).key = row.key
           \/ out = Append(job.out, kept)
  <2>1. tx_status[row.tx] \in {"commited", "started"}
    BY <1>0, <1>3 DEF RowsInv, Row
  <2> QED BY <2>1, Zenon DEF ScanRow, CompactRow
<1>9. job' = Moved(i, row, out)
  BY <1>2 DEF Moved
<1> HIDE DEF row, kept, out
<1>10. out \in Seq(Row) /\ job.out \in Seq(Row)
  <2>1. job.out \in Seq(Row)
    BY <1>0 DEF MergeInv
  <2> QED BY <1>5, <1>6, <2>1
<1>11. /\ MergeInv' /\ job.kind \in {"scan", "compact"}
       /\ \A h \in ToSet(job.handed) : Before(h, row)
       /\ ToSet(job'.handed) = ToSet(job.handed) \cup {row}
       /\ job'.kind = job.kind /\ job'.tx = job.tx /\ job'.input = job.input
       /\ job'.out = out /\ job'.floor = job.floor
  <2>1. row = Head(job.iterators[i])
    BY DEF row
  <2> QED BY <1>0, <1>1, <1>2, <1>9, <1>10, <2>1, MergeMoves
<1>12. OutInv'
  BY <1>0, <1>1, <1>3, <1>5, <1>6, <1>11, OutGrows
<1>13. /\ job.out # <<>> => Len(job.out) \in DOMAIN job.out /\ Last(job.out) = job.out[Len(job.out)]
       /\ out = Append(job.out, kept) => /\ Len(job.out) + 1 \in DOMAIN out
                                         /\ out[Len(job.out) + 1] = kept
  BY <1>5, <1>10 DEF Last
<1>14. \A k \in DOMAIN job.out : k \in DOMAIN out /\ out[k] = job.out[k]
  BY <1>5, <1>6, <1>10
<1>15. \A r \in Row : r.key \in Nat /\ r.seq \in Nat
  BY TableScansAssumption, ZenonT(30) DEF Row
<1>16. ASSUME job.out # <<>>, Last(job.out).key = row.key
       PROVE  \E k \in DOMAIN out : out[k].key = row.key /\ out[k].seq > row.seq
  <2>1. job.out[Len(job.out)].seq > row.seq /\ job.out[Len(job.out)].key = row.key
    BY <1>0, <1>3, <1>11, <1>13, <1>16, OutBehind
  <2> QED BY <1>13, <1>14, <1>16, <2>1
<1>17. ScanJobInv'
  <2> SUFFICES ASSUME job.kind = "scan" PROVE ScanJobInv'
    BY <1>11 DEF ScanJobInv
  <2>1. ASSUME NEW k \in DOMAIN out PROVE out[k].tx = job.tx \/ IsCommited(out[k].tx)
    <3>1. CASE k \in DOMAIN job.out
      BY <1>0, <1>14, <3>1 DEF ScanJobInv
    <3>2. CASE k \notin DOMAIN job.out
      <4>1. out = Append(job.out, kept) /\ k = Len(job.out) + 1
        BY <1>5, <1>6, <1>10, <3>2
      <4>2. out # job.out
        BY <3>2
      <4> QED BY <1>5, <1>7, <1>13, <4>1, <4>2 DEF SameRow
    <3> QED BY <3>1, <3>2
  <2>2. ASSUME NEW key \in Key, job.floor[key] # 0
        PROVE  \E r \in job.input :
                 /\ r.key = key /\ r.seq = job.floor[key] /\ ~r.is_deleted
                 /\ r.tx = job.tx \/ IsCommited(r.tx)
                 /\ r \in ToSet(job'.handed) =>
                      \E k \in DOMAIN out : out[k].key = key /\ out[k].seq >= r.seq
    <3>1. PICK r \in job.input :
            /\ r.key = key /\ r.seq = job.floor[key] /\ ~r.is_deleted
            /\ r.tx = job.tx \/ IsCommited(r.tx)
            /\ r \in ToSet(job.handed) =>
                 \E k \in DOMAIN job.out : job.out[k].key = key /\ job.out[k].seq >= r.seq
      BY <1>0, <2>2 DEF ScanJobInv
    <3>2. CASE r \in ToSet(job.handed)
      BY <1>14, <3>1, <3>2
    <3>3. CASE r = row
      <4>1. CASE job.out # <<>> /\ Last(job.out).key = row.key
        <5>1. PICK k \in DOMAIN out : out[k].key = row.key /\ out[k].seq > row.seq
          BY <1>16, <4>1
        <5>2. out[k].seq \in Nat /\ row.seq \in Nat
          BY <1>3, <1>10, <1>15
        <5> QED BY <3>1, <3>3, <5>1, <5>2
      <4>2. CASE out = Append(job.out, kept)
        <5>1. kept.key = key /\ kept.seq >= r.seq
          BY <1>3, <1>5, <1>15, <3>1, <3>3 DEF SameRow
        <5> QED BY <1>13, <3>1, <4>2, <5>1
      <4> QED BY <1>8, <3>1, <3>3, <4>1, <4>2, ZenonT(30)
    <3>4. CASE r \notin ToSet(job'.handed)
      BY <3>1, <3>4
    <3> QED BY <1>11, <3>2, <3>3, <3>4
  <2> QED BY <1>1, <1>11, <2>1, <2>2 DEF ScanJobInv, IsCommited
<1>18. CompactJobInv'
  <2> SUFFICES ASSUME job.kind = "compact" PROVE CompactJobInv'
    BY <1>11, Zenon DEF CompactJobInv
  <2>1. ASSUME NEW r \in OnDisk, \A s \in OnDisk : s.key = r.key => s.seq <= r.seq,
               r \in ToSet(job'.handed), ~r.is_deleted
        PROVE  \E k \in DOMAIN out : out[k].key = r.key /\ out[k].seq = r.seq
    <3>1. CASE r \in ToSet(job.handed)
      <4>1. PICK k \in DOMAIN job.out : job.out[k].key = r.key /\ job.out[k].seq = r.seq
        BY <1>0, <2>1, <3>1 DEF CompactJobInv
      <4> QED BY <1>14, <4>1
    <3>2. CASE r = row
      <4>1. CASE job.out # <<>> /\ Last(job.out).key = row.key
        <5>1. PICK k \in DOMAIN out : out[k].key = row.key /\ out[k].seq > row.seq
          BY <1>16, <4>1
        <5>2. PICK h \in ToSet(job'.handed) : SameRow(out[k], h)
          BY <1>11, <1>12 DEF OutInv
        <5>3. h \in OnDisk /\ h \in Row
          BY <1>0, <1>11, <5>2, RowTypes, ZenonT(30) DEF MergeInv, CompactJobInv
        <5>4. h.seq <= row.seq /\ h.seq > row.seq
          BY <2>1, <3>2, <5>1, <5>2, <5>3 DEF SameRow
        <5> QED BY <1>3, <1>15, <5>3, <5>4
      <4>2. CASE out = Append(job.out, kept)
        BY <1>5, <1>13, <3>2, <4>2 DEF SameRow
      <4> QED BY <1>8, <2>1, <3>2, <4>1, <4>2
    <3> QED BY <1>11, <2>1, <3>1, <3>2
  <2>2. ASSUME NEW r \in OnDisk, \A s \in OnDisk : s.key = r.key => s.seq <= r.seq,
               r.is_deleted \/ ~IsCommited(r.tx)
        PROVE  r.key \in disturbed
    BY <1>0, <2>2 DEF CompactJobInv
  <2>3. job'.input = OnDisk
    BY <1>0, <1>11 DEF CompactJobInv
  <2> QED BY <1>1, <1>11, <2>1, <2>2, <2>3, ZenonT(30) DEF CompactJobInv, IsCommited
<1> QED BY <1>1, <1>11, <1>12, <1>17, <1>18, Zenon DEF TableScansInv

-----------------------------------------------------------------------------
\* A job has no row left when its iterators have none.
LEMMA NothingLeft ==
  ASSUME MergeInv, ~HasMore
  PROVE  Left = {} /\ ToSet(job.handed) = job.input
<1>1. \A i \in DOMAIN job.iterators : ToSet(job.iterators[i]) = {}
  BY DEF HasMore, ToSet
<1>2. Left = {}
  BY <1>1, LeftRows
<1> QED BY <1>2 DEF MergeInv

\* A scan or a compaction is over, its rows stay.
LEMMA FinishedJob ==
  ASSUME TableScansInv, ~HasMore, job.kind \in {"scan", "compact"}, tx_status' = tx_status,
         job' = [job EXCEPT !.kind = IF @ = "scan" THEN "scanned" ELSE "compacted"]
  PROVE  MergeInv' /\ OutInv' /\ ScanJobInv' /\ CompactJobInv'
<1>0. MergeInv /\ OutInv /\ ScanJobInv
  BY DEF TableScansInv
<1>1. Left = {}
  BY <1>0, NothingLeft
<1>2. /\ job'.tx = job.tx /\ job'.input = job.input /\ job'.iterators = job.iterators
      /\ job'.out = job.out /\ job'.floor = job.floor /\ job'.handed = job.handed
      /\ job'.kind = IF job.kind = "scan" THEN "scanned" ELSE "compacted"
      /\ job' \in [kind : {"none", "scan", "scanned", "compact", "compacted"}, tx : Tx \cup {0},
                   iterators : Seq(Seq(Row)), input : SUBSET Row, handed : Seq(Row),
                   out : Seq(Row), floor : [Key -> Nat]]
  BY <1>0, Zenon DEF MergeInv
<1>3. Left' = {}
  <2>1. job'.iterators = job.iterators
    BY <1>2
  <2>2. Left' = Left
    BY <2>1 DEF Left
  <2> QED BY <1>1, <2>2
<1>4. MergeInv'
  <2>1. /\ \A r, s \in job'.input : r.seq = s.seq => r = s
        /\ \A r \in job'.input : r.is_frozen => IsCommited(r.tx)'
        /\ ToSet(job'.handed) \cup Left' = job'.input
    BY <1>0, <1>1, <1>2, <1>3 DEF MergeInv, IsCommited
  <2>2. /\ \A i \in DOMAIN job'.iterators : \A j, k \in DOMAIN job'.iterators[i] :
             j < k => Before(job'.iterators[i][j], job'.iterators[i][k])
        /\ \A i, j \in DOMAIN job'.iterators :
             i # j => ToSet(job'.iterators[i]) \cap ToSet(job'.iterators[j]) = {}
        /\ \A i, j \in DOMAIN job'.handed : i < j => Before(job'.handed[i], job'.handed[j])
    BY <1>0, <1>2 DEF MergeInv
  <2>3. /\ \A r \in ToSet(job'.handed), s \in Left' : Before(r, s)
        /\ job'.kind \notin {"scan", "compact"} => Left' = {}
    BY <1>3
  <2> QED BY <1>2, <2>1, <2>2, <2>3, Zenon DEF MergeInv
<1>5. OutInv'
  BY <1>0, <1>2 DEF OutInv, IsCommited
<1>6. ScanJobInv'
  <2>1. job.kind = "compact" => job'.kind = "compacted"
    BY <1>2
  <2>2. job.kind = "scan" => ScanJobInv'
    BY <1>0, <1>2 DEF ScanJobInv, IsCommited
  <2> QED BY <2>1, <2>2 DEF ScanJobInv
<1>7. CompactJobInv'
  BY <1>2 DEF CompactJobInv
<1> QED BY <1>4, <1>5, <1>6, <1>7

\* What a compaction leaves of the rows on disk: the newest row of each key that is not
\* deleted, with its number and its transaction.
LEMMA CompactedRows ==
  ASSUME Laws, TableScansInv, ~HasMore, job.kind = "compact"
  PROVE  /\ ToSet(job.out) \in SUBSET Row /\ IsFiniteSet(ToSet(job.out))
         /\ \A r \in ToSet(job.out) : /\ r.is_frozen => IsCommited(r.tx)
                                      /\ \E s \in OnDisk : SameRow(r, s)
         /\ \A r, s \in ToSet(job.out) : r.key = s.key => r = s
         /\ \A r, s \in ToSet(job.out) : r.seq = s.seq => r = s
         /\ \A d \in OnDisk : (\A s \in OnDisk : s.key = d.key => s.seq <= d.seq) =>
              /\ d.is_deleted \/ ~IsCommited(d.tx) => d.key \in disturbed
              /\ ~d.is_deleted => \E r \in ToSet(job.out) : SameRow(r, d)
<1>0. RowsInv /\ MergeInv /\ OutInv /\ CompactJobInv
  BY DEF TableScansInv
<1>1. ToSet(job.handed) = OnDisk /\ job.out \in Seq(Row)
  BY <1>0, NothingLeft, ZenonT(30) DEF CompactJobInv, MergeInv
<1>2. ToSet(job.out) \in SUBSET Row /\ IsFiniteSet(ToSet(job.out))
  <2>1. ToSet(job.out) \in SUBSET Row
    BY <1>1 DEF ToSet
  <2>2. IsFiniteSet(ToSet(job.out))
    BY <1>1, Zenon DEF Laws, FiniteLaw
  <2> QED BY <2>1, <2>2
<1>3. \A r \in ToSet(job.out) : /\ r.is_frozen => IsCommited(r.tx)
                                /\ \E s \in OnDisk : SameRow(r, s)
  BY <1>0, <1>1 DEF OutInv, ToSet
<1>4. ASSUME NEW r \in ToSet(job.out), NEW s \in ToSet(job.out), r.key = s.key PROVE r = s
  <2>1. PICK i \in DOMAIN job.out, j \in DOMAIN job.out : r = job.out[i] /\ s = job.out[j]
    BY Zenon DEF ToSet
  <2>2. i \in Nat /\ j \in Nat /\ r.key \in Nat
    <3>1. i \in Nat /\ j \in Nat
      BY <1>1
    <3>2. r \in Row
      BY <1>2
    <3> QED BY <3>1, <3>2, TableScansAssumption, ZenonT(30) DEF Row
  <2>3. ~(i < j) /\ ~(j < i)
    BY <1>0, <1>4, <2>1, <2>2 DEF OutInv
  <2> QED BY <2>1, <2>2, <2>3
<1>5. ASSUME NEW r \in ToSet(job.out), NEW s \in ToSet(job.out), r.seq = s.seq PROVE r = s
  <2>1. PICK a \in OnDisk, b \in OnDisk : SameRow(r, a) /\ SameRow(s, b)
    BY <1>3
  <2>2. a = b
    BY <1>0, <1>5, <2>1, Zenon DEF RowsInv, Rows, SameRow
  <2> QED BY <1>4, <2>1, <2>2 DEF SameRow
<1>6. ASSUME NEW d \in OnDisk, \A s \in OnDisk : s.key = d.key => s.seq <= d.seq
      PROVE  /\ d.is_deleted \/ ~IsCommited(d.tx) => d.key \in disturbed
             /\ ~d.is_deleted => \E r \in ToSet(job.out) : SameRow(r, d)
  <2>1. /\ d.is_deleted \/ ~IsCommited(d.tx) => d.key \in disturbed
        /\ ~d.is_deleted =>
             \E i \in DOMAIN job.out : job.out[i].key = d.key /\ job.out[i].seq = d.seq
    BY <1>0, <1>1, <1>6 DEF CompactJobInv
  <2>2. ASSUME NEW i \in DOMAIN job.out, job.out[i].key = d.key, job.out[i].seq = d.seq
        PROVE  job.out[i] \in ToSet(job.out) /\ SameRow(job.out[i], d)
    <3>1. job.out[i] \in ToSet(job.out)
      BY Zenon DEF ToSet
    <3>2. PICK s \in OnDisk : SameRow(job.out[i], s)
      BY <1>3, <3>1
    <3>3. s = d
      BY <1>0, <2>2, <3>2, Zenon DEF RowsInv, Rows, SameRow
    <3> QED BY <3>1, <3>2, <3>3
  <2> QED BY <2>1, <2>2
<1> QED BY <1>2, <1>3, <1>4, <1>5, <1>6, Zenon

\* A compaction replaces the ss tables: what they answered, they answer.
LEMMA CompactedStep ==
  ASSUME Laws, TableScansInv, Finish, job.kind = "compact"
  PROVE  TableScansInv'
<1> DEFINE kept == ToSet(job.out)
<1>0. RowsInv /\ WritersInv /\ CompactionKeepsAnswers
  BY DEF TableScansInv
<1>1. /\ UNCHANGED <<tx_status, row_locks, memory, next_seq_no, pending, answer, disturbed>>
      /\ ss_tables' = <<kept>> /\ ~HasMore
      /\ job' = [job EXCEPT !.kind = IF @ = "scan" THEN "scanned" ELSE "compacted"]
  BY DEF Finish
<1>2. /\ kept \in SUBSET Row /\ IsFiniteSet(kept)
      /\ \A r \in kept : (r.is_frozen => IsCommited(r.tx)) /\ \E s \in OnDisk : SameRow(r, s)
      /\ \A r, s \in kept : r.key = s.key => r = s
      /\ \A r, s \in kept : r.seq = s.seq => r = s
      /\ \A d \in OnDisk : (\A s \in OnDisk : s.key = d.key => s.seq <= d.seq) =>
           /\ d.is_deleted \/ ~IsCommited(d.tx) => d.key \in disturbed
           /\ ~d.is_deleted => \E r \in kept : SameRow(r, d)
  BY <1>1, CompactedRows
<1>3. MergeInv' /\ OutInv' /\ ScanJobInv' /\ CompactJobInv'
  BY <1>1, FinishedJob
<1> HIDE DEF kept
<1>4. OnDisk' = kept /\ Rows' = memory \cup kept
  <2>1. DOMAIN <<kept>> = {1} /\ <<kept>>[1] = kept
    OBVIOUS
  <2>2. \A r : r \in OnDisk' <=> \E i \in DOMAIN ss_tables' : r \in ss_tables'[i]
    BY Zenon DEF OnDisk, ToSet
  <2>3. OnDisk' = kept
    BY <1>1, <2>1, <2>2, Zenon
  <2> QED BY <1>1, <2>3 DEF Rows
<1>5. /\ \A r \in Rows : r.seq \in Nat /\ r.key \in Key /\ r.tx \in Tx
      /\ \A r \in kept : r.seq \in Nat /\ r.key \in Key /\ r.tx \in Tx
      /\ OnDisk \subseteq Rows /\ memory \subseteq Rows /\ Rows \subseteq Row
  BY <1>0, <1>2, RowTypes DEF Rows, Row
<1>6. \A r \in memory, s \in kept : s.seq < r.seq
  BY <1>0, <1>2 DEF RowsInv, SameRow
<1>7. RowsInv'
  <2>1. ss_tables' \in Seq(SUBSET Row) /\ \A i \in DOMAIN ss_tables' : IsFiniteSet(ss_tables'[i])
    <3>1. <<kept>> \in Seq(SUBSET Row) /\ DOMAIN <<kept>> = {1} /\ <<kept>>[1] = kept
      BY <1>2
    <3> QED BY <1>1, <1>2, <3>1
  <2>2. \A r \in Rows' : r.seq < next_seq_no' /\ (r.is_frozen => IsCommited(r.tx)')
    BY <1>0, <1>1, <1>2, <1>4, <1>5 DEF RowsInv, IsCommited, SameRow
  <2>3. \A r, s \in Rows' : r.seq = s.seq => r = s
    BY <1>0, <1>2, <1>4, <1>5, <1>6 DEF RowsInv
  <2>4. \A i, j \in DOMAIN ss_tables' : i # j => ss_tables'[i] \cap ss_tables'[j] = {}
    <3>1. DOMAIN <<kept>> = {1}
      OBVIOUS
    <3> QED BY <1>1, <3>1
  <2> QED BY <1>0, <1>1, <1>4, <1>6, <2>1, <2>2, <2>3, <2>4 DEF RowsInv
<1>8. WritersInv'
  <2>1. ASSUME NEW r \in Rows', ~IsCommited(r.tx)' PROVE row_locks'[r.key] = r.tx
    <3>1. CASE r \in memory
      BY <1>0, <1>1, <1>5, <2>1, <3>1 DEF WritersInv, IsCommited
    <3>2. CASE r \in kept
      <4>1. PICK s \in OnDisk : SameRow(r, s)
        BY <1>2, <3>2
      <4> QED BY <1>0, <1>1, <1>5, <2>1, <4>1 DEF WritersInv, IsCommited, SameRow
    <3> QED BY <1>4, <3>1, <3>2
  <2>2. ASSUME NEW k \in Key \ disturbed', row_locks'[k] # 0
        PROVE  \E r \in Rows' :
                 /\ r.key = k /\ r.tx = row_locks'[k]
                 /\ pending'[k] = IF r.is_deleted THEN 0 ELSE r.seq
                 /\ \A s \in Rows' : s.key = k => s.seq <= r.seq
    <3>1. PICK r \in Rows : /\ r.key = k /\ r.tx = row_locks[k]
                            /\ pending[k] = IF r.is_deleted THEN 0 ELSE r.seq
                            /\ \A s \in Rows : s.key = k => s.seq <= r.seq
      BY <1>0, <1>1, <2>2 DEF WritersInv
    <3>2. ~IsCommited(r.tx)
      BY <1>0, <1>1, <2>2, <3>1 DEF WritersInv, IsCommited
    <3>3. r \notin OnDisk
      BY <1>1, <1>2, <1>5, <2>2, <3>1, <3>2
    <3>4. r \in memory
      BY <3>3 DEF Rows
    <3>5. \A s \in Rows' : s.key = k => s.seq <= r.seq
      BY <1>4, <1>5, <1>6, <3>1, <3>4
    <3> QED BY <1>1, <1>4, <3>1, <3>4, <3>5
  <2> QED BY <1>0, <1>1, <2>1, <2>2 DEF WritersInv
<1>9. ASSUME NEW k \in Key \ disturbed PROVE Answer(k, 0)' = Answer(k, 0)
  <2>1. /\ Committed(k) \in SUBSET Row /\ Committed(k)' \in SUBSET Row
        /\ \A s, t \in Committed(k) : s.seq = t.seq => s = t
        /\ \A s, t \in Committed(k)' : s.seq = t.seq => s = t
        /\ \A s \in Committed(k) : s.seq < next_seq_no
    BY <1>0, <1>2, <1>4, <1>5, <1>7, Zenon DEF RowsInv, Committed
  <2>2. \A r : /\ r \in Committed(k) <=> r \in Rows /\ r.key = k /\ IsCommited(r.tx)
               /\ r \in Committed(k)' <=> r \in memory \cup kept /\ r.key = k /\ IsCommited(r.tx)
    BY <1>1, <1>4 DEF Committed, IsCommited
  <2>3. /\ RowsInv' /\ Seen(k, 0)' = Committed(k)' /\ Seen(k, 0) = Committed(k)
    BY <1>0, <1>7, SeenByNobody, SeenByNobodyNext
  <2>4. CASE Committed(k) = {}
    <3>1. Committed(k)' = {}
      <4>1. ASSUME NEW r \in kept, r.key = k, IsCommited(r.tx) PROVE FALSE
        BY <1>2, <1>5, <2>2, <2>4, <4>1 DEF SameRow
      <4>2. ASSUME NEW r \in Committed(k)' PROVE FALSE
        BY <1>5, <2>2, <2>4, <4>1, <4>2
      <4> QED BY <4>2
    <3> QED BY <2>3, <2>4, <3>1 DEF Answer
  <2>5. CASE Committed(k) # {}
    <3>1. PICK d \in Committed(k) : \A s \in Committed(k) : s.seq <= d.seq
      BY <1>0, <2>1, <2>5, NewestExists DEF RowsInv
    <3>2. Verdict(Committed(k)) = IF d.is_deleted THEN 0 ELSE d.seq
      BY <2>1, <3>1, VerdictIs
    <3>3. CASE d \in memory
      <4>1. d \in Committed(k)'
        BY <2>2, <3>1, <3>3
      <4>2. \A s \in Committed(k)' : s.seq <= d.seq
        BY <1>5, <1>6, <2>2, <3>1, <3>3
      <4>3. Verdict(Committed(k)') = IF d.is_deleted THEN 0 ELSE d.seq
        BY <2>1, <4>1, <4>2, VerdictIs
      <4> QED BY <2>3, <3>2, <4>3 DEF Answer
    <3>4. CASE d \notin memory
      <4>1. d \in OnDisk /\ d.key = k /\ IsCommited(d.tx)
        BY <2>2, <3>1, <3>4 DEF Rows
      <4>2. \A s \in memory : s.key = k => ~IsCommited(s.tx)
        <5>1. ASSUME NEW s \in memory, s.key = k, IsCommited(s.tx) PROVE FALSE
          <6>1. s.seq <= d.seq
            BY <1>5, <2>2, <3>1, <5>1
          <6>2. d.seq < s.seq
            BY <1>0, <4>1, <5>1 DEF RowsInv
          <6> QED BY <1>5, <4>1, <6>1, <6>2
        <5> QED BY <5>1
      <4>3. PICK top \in OnDisk : /\ top.key = k
                                  /\ \A s \in OnDisk : s.key = k => s.seq <= top.seq
        <5> DEFINE S == {s \in OnDisk : s.key = k}
        <5>1. S \in SUBSET Row /\ S # {} /\ \A s \in S : s.seq < next_seq_no
          BY <1>0, <1>5, <4>1, Zenon DEF RowsInv
        <5>2. PICK top \in S : \A s \in S : s.seq <= top.seq
          BY <1>0, <5>1, NewestExists, Zenon DEF RowsInv
        <5> QED BY <5>2
      <4>4. ~top.is_deleted /\ IsCommited(top.tx) /\ \E r \in kept : SameRow(r, top)
        BY <1>2, <1>9, <4>3
      <4>5. top = d
        <5>1. top \in Committed(k)
          BY <1>5, <2>2, <4>3, <4>4
        <5>2. top.seq <= d.seq /\ d.seq <= top.seq
          BY <3>1, <4>1, <4>3, <5>1
        <5>3. top.seq = d.seq
          BY <1>5, <4>1, <4>3, <5>2
        <5> QED BY <2>1, <3>1, <5>1, <5>3
      <4>6. PICK r \in kept : SameRow(r, top)
        BY <4>4
      <4>7. r \in Committed(k)'
        BY <2>2, <4>3, <4>4, <4>6 DEF SameRow
      <4>8. \A s \in Committed(k)' : s.seq <= r.seq
        BY <1>2, <1>5, <2>2, <4>2, <4>6, <4>7
      <4>9. Verdict(Committed(k)') = IF r.is_deleted THEN 0 ELSE r.seq
        BY <2>1, <4>7, <4>8, VerdictIs
      <4> QED BY <2>3, <3>2, <4>5, <4>6, <4>9 DEF Answer, SameRow
    <3> QED BY <3>3, <3>4
  <2> QED BY <2>4, <2>5
<1>10. CompactionKeepsAnswers'
  BY <1>0, <1>1, <1>9 DEF CompactionKeepsAnswers
<1> QED BY <1>3, <1>7, <1>8, <1>10 DEF TableScansInv

\* No job: nothing is handed out, and nothing is left.
LEMMA NoJobInv ==
  ASSUME job' = NoJob
  PROVE  MergeInv' /\ OutInv' /\ ScanJobInv' /\ CompactJobInv'
<1>1. /\ job'.kind = "none" /\ job'.iterators = <<>> /\ job'.input = {}
      /\ job'.handed = <<>> /\ job'.out = <<>>
  BY DEF NoJob
<1>2. job' \in [kind : {"none", "scan", "scanned", "compact", "compacted"}, tx : Tx \cup {0},
                iterators : Seq(Seq(Row)), input : SUBSET Row, handed : Seq(Row),
                out : Seq(Row), floor : [Key -> Nat]]
  BY DEF NoJob
<1>3. DOMAIN <<>> = {} /\ ToSet(<<>>) = {}
  BY DEF ToSet
<1>4. Left' = {}
  <2>1. Left' = UNION {ToSet(job'.iterators[i]) : i \in DOMAIN job'.iterators}
    BY DEF Left
  <2> QED BY <1>1, <1>3, <2>1
<1>5. MergeInv'
  BY <1>1, <1>2, <1>3, <1>4 DEF MergeInv
<1>6. OutInv'
  BY <1>1, <1>3 DEF OutInv
<1> QED BY <1>1, <1>5, <1>6, Zenon DEF ScanJobInv, CompactJobInv

\* The job is over, and its result was used.
LEMMA FinishStep ==
  ASSUME Laws, TableScansInv, Finish
  PROVE  TableScansInv'
<1>1. CASE job.kind = "compact"
  BY <1>1, CompactedStep
<1>2. CASE job.kind # "compact"
  <2>1. /\ ~HasMore /\ job.kind \in {"scan", "compact"} /\ tx_status' = tx_status
        /\ job' = [job EXCEPT !.kind = IF @ = "scan" THEN "scanned" ELSE "compacted"]
    BY DEF Finish
  <2>2. MergeInv' /\ OutInv' /\ ScanJobInv' /\ CompactJobInv'
    BY <2>1, FinishedJob
  <2>3. RowsInv' /\ WritersInv' /\ CompactionKeepsAnswers'
    BY <1>2, TablesKept DEF Finish
  <2> QED BY <2>2, <2>3 DEF TableScansInv
<1> QED BY <1>1, <1>2

LEMMA ReturnStep ==
  ASSUME TableScansInv, Return
  PROVE  TableScansInv'
<1>1. RowsInv' /\ WritersInv' /\ CompactionKeepsAnswers'
  BY TablesKept DEF Return
<1>2. MergeInv' /\ OutInv' /\ ScanJobInv' /\ CompactJobInv'
  BY NoJobInv DEF Return
<1> QED BY <1>1, <1>2 DEF TableScansInv

\* A step that changes nothing.
LEMMA TableScansStutter ==
  ASSUME TableScansInv, UNCHANGED scanVars
  PROVE  TableScansInv'
<1>1. RowsInv' /\ WritersInv' /\ CompactionKeepsAnswers' /\ OnDisk' = OnDisk
  BY TablesKept DEF scanVars
<1>2. MergeInv' /\ OutInv' /\ ScanJobInv' /\ CompactJobInv'
  BY <1>1, JobKept DEF scanVars, CommitsStay, IsCommited
<1> QED BY <1>1, <1>2 DEF TableScansInv

\* The initial state.
LEMMA TableScansStart ==
  ASSUME Laws, ScanInit PROVE TableScansInv
<1>1. OnDisk = {} /\ Rows = {}
  BY DEF ScanInit, OnDisk, ToSet, Rows
<1>2. RowsInv
  BY <1>1 DEF Laws, FiniteLaw, ScanInit, RowsInv
<1>3. WritersInv
  BY <1>1 DEF ScanInit, WritersInv
<1>4. /\ job.kind = "none" /\ job.iterators = <<>> /\ job.input = {}
      /\ job.handed = <<>> /\ job.out = <<>>
  BY DEF ScanInit, NoJob
<1>5. job \in [kind : {"none", "scan", "scanned", "compact", "compacted"}, tx : Tx \cup {0},
               iterators : Seq(Seq(Row)), input : SUBSET Row, handed : Seq(Row),
               out : Seq(Row), floor : [Key -> Nat]]
  BY DEF ScanInit, NoJob
<1>6. DOMAIN <<>> = {} /\ ToSet(<<>>) = {}
  BY DEF ToSet
<1>7. Left = {}
  BY <1>4, <1>6, LeftRows
<1>8. MergeInv
  BY <1>4, <1>5, <1>6, <1>7 DEF MergeInv
<1>9. OutInv
  BY <1>4, <1>6 DEF OutInv
<1>10. ScanJobInv /\ CompactJobInv
  BY <1>4 DEF ScanJobInv, CompactJobInv
<1>11. CompactionKeepsAnswers
  BY <1>1 DEF CompactionKeepsAnswers, Answer, Verdict, Seen, Rows, ScanInit
<1> QED BY <1>2, <1>3, <1>8, <1>9, <1>10, <1>11 DEF TableScansInv

-----------------------------------------------------------------------------

-----------------------------------------------------------------------------
\* The laws of numbers and finite sets hold.
INSTANCE OrderFacts

\* Rows, locks, the merge and what a scan or a compaction has kept stay consistent
\* through every interleaving of writes, commits and flushes with the rows of a job.
THEOREM TableScansInvariant == ScanSpec => []TableScansInv
<1>1. ScanInit => TableScansInv
  BY TableScansStart, LawsHold
<1>2. TableScansInv /\ [ScanNext]_scanVars => TableScansInv'
  <2> SUFFICES ASSUME TableScansInv, [ScanNext]_scanVars PROVE TableScansInv'
    OBVIOUS
  <2>1. ASSUME NEW tx \in Tx, NEW key \in Key, NEW is_deleted \in BOOLEAN,
               Write(tx, key, is_deleted)
        PROVE  TableScansInv'
    BY <2>1, WriteStep, LawsHold
  <2>2. ASSUME NEW tx \in Tx, Commit(tx) PROVE TableScansInv'
    BY <2>2, CommitStep
  <2>3. ASSUME NEW tx \in Tx, StartScan(tx) PROVE TableScansInv'
    BY <2>3, StartScanStep, LawsHold
  <2> QED BY <2>1, <2>2, <2>3, FlushStep, StartCompactStep, LawsHold, NextRowStep, FinishStep, LawsHold,
             ReturnStep, TableScansStutter DEF ScanNext
<1> QED BY <1>1, <1>2, PTL DEF ScanSpec

\* Types, and a row is in one layer (ScanTypeOK).
THEOREM ScanTypes == ScanSpec => []ScanTypeOK
<1>1. TableScansInv => ScanTypeOK
  <2> SUFFICES ASSUME TableScansInv PROVE ScanTypeOK
    OBVIOUS
  <2>0. RowsInv /\ MergeInv
    BY DEF TableScansInv
  <2>1. \A r \in Rows : r.key \in Key /\ r.tx \in Tx /\ r.seq \in 1..(next_seq_no - 1)
    <3>1. next_seq_no \in Nat /\ \A r \in Rows : r.seq < next_seq_no
      BY <2>0, Zenon DEF RowsInv
    <3>2. \A r \in Rows : r.seq \in Nat \ {0} /\ r.key \in Key /\ r.tx \in Tx
      BY <2>0, RowTypes, Zenon
    <3> QED BY <3>1, <3>2
  <2>2. \A r \in memory : \A s \in OnDisk : r.seq # s.seq
    BY <2>0, RowTypes DEF RowsInv, Rows
  <2>3. job.kind \in {"none", "scan", "scanned", "compact", "compacted"}
    BY <2>0, ZenonT(30) DEF MergeInv
  <2> QED BY <2>0, <2>1, <2>2, <2>3 DEF ScanTypeOK, RowsInv, Rows
<1> QED BY <1>1, TableScansInvariant, PTL

\* The merge hands its whole input out in order, for any number of layers.
THEOREM MergeIsOrdered == ScanSpec => []MergeOrdered
<1>1. TableScansInv => MergeOrdered
  BY DEF TableScansInv, MergeInv, MergeOrdered, Left
<1> QED BY <1>1, TableScansInvariant, PTL

\* A scan loses no key that had a value when it began and goes back to no older one,
\* whatever is written and committed while it runs.
THEOREM ScansFindLive == ScanSpec => []ScanFindsLive
<1>1. TableScansInv => ScanFindsLive
  <2> SUFFICES ASSUME TableScansInv, job.kind = "scanned" PROVE ScanFindsLive
    BY DEF ScanFindsLive
  <2>1. ToSet(job.handed) = job.input
    BY Zenon DEF TableScansInv, MergeInv
  <2>2. ASSUME NEW key \in Key, job.floor[key] # 0
        PROVE  \E i \in DOMAIN job.out : job.out[i].key = key /\ job.out[i].seq >= job.floor[key]
    BY <2>1, <2>2 DEF TableScansInv, ScanJobInv
  <2> QED BY <2>2, Zenon DEF TableScansInv, ScanFindsLive, ScanJobInv, OutInv
<1> QED BY <1>1, TableScansInvariant, PTL

\* Compactions and flushes change no answer, except for the keys a compaction met with a
\* deletion or an uncommitted row on top.
THEOREM CompactionsKeepAnswers == ScanSpec => []CompactionKeepsAnswers
<1>1. TableScansInv => CompactionKeepsAnswers
  BY DEF TableScansInv
<1> QED BY <1>1, TableScansInvariant, PTL
=============================================================================
