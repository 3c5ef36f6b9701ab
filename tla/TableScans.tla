----------------------------- MODULE TableScans -----------------------------
(***************************************************************************)
(* What a transactional table does with the row versions its storage       *)
(* engine keeps (src/server/table/transactional_table.cpp): Scan over a    *)
(* MergeIterator of all layers, and Compact, whose CompactStrategy rewrites *)
(* the ss tables row by row, while transactions write and commit.          *)
(*                                                                         *)
(* One scan or compaction runs at a time.  It suspends where an ss table's *)
(* page is read, so each row is a step.  memory holds the rows of the mem  *)
(* table and the frozen ones; a scan works on the rows memory had when it  *)
(* began.  Every transaction has begun; each writes a row at most once (a  *)
(* second write of its own row never completes, see TransactionalTable).   *)
(***************************************************************************)
EXTENDS RecordOrder

CONSTANTS Key,        \* row keys, numbers for their order
          Tx,         \* transactions
          MaxRows,    \* bound: rows written
          MaxJobs     \* bound: scans and compactions

ASSUME TableScansAssumption ==
  Key \subseteq Nat \ {0} /\ 0 \notin Tx /\ MaxRows \in Nat /\ MaxJobs \in Nat

VARIABLES tx_status,
          row_locks,      \* key to the transaction that holds it, 0 for none
          memory,         \* rows not on disk
          ss_tables,      \* sets of rows, oldest first
          next_seq_no,
          job,            \* the scan or compaction in progress
          jobs,           \* bound
          pending,        \* history: per key the row last written, 0 for a deletion
          answer,         \* history: the same for the last write that was committed
          disturbed       \* history: keys a compaction met with a newest row that was
                          \*   deleted or not committed

scanVars == <<tx_status, row_locks, memory, ss_tables, next_seq_no, job, jobs, pending,
              answer, disturbed>>

-----------------------------------------------------------------------------
IsCommited(tx) == tx_status[tx] = "commited"

OnDisk == UNION ToSet(ss_tables)

NewestOf(rows) == CHOOSE r \in rows : \A s \in rows : s.seq <= r.seq

\* The versions of a row that are frozen, the reader's own or committed.  Reader 0 has
\* no rows of its own.
Seen(key, tx) ==
  {r \in memory \cup OnDisk : r.key = key /\ (r.is_frozen \/ r.tx = tx \/ IsCommited(r.tx))}

\* Lookup: the first of them decides.
Verdict(rows) ==
  IF rows = {} \/ NewestOf(rows).is_deleted THEN 0 ELSE NewestOf(rows).seq

Answer(key, tx) == Verdict(Seen(key, tx))

NoJob == [kind |-> "none", tx |-> 0, iterators |-> <<>>, input |-> {}, handed |-> <<>>,
          out |-> <<>>, floor |-> [key \in Key |-> 0]]

ScanInit ==
  /\ tx_status = [tx \in Tx |-> "started"]
  /\ row_locks = [key \in Key |-> 0]
  /\ memory = {} /\ ss_tables = <<>>
  /\ next_seq_no = 1
  /\ job = NoJob /\ jobs = 0
  /\ pending = [key \in Key |-> 0] /\ answer = pending
  /\ disturbed = {}

-----------------------------------------------------------------------------
\* Upsert, or Delete, whose Lookup found a version before it waited for the lock.
Write(tx, key, is_deleted) ==
  /\ tx_status[tx] = "started"
  /\ row_locks[key] = 0
  /\ next_seq_no <= MaxRows
  /\ is_deleted => \E r \in memory \cup OnDisk : r.key = key
  /\ row_locks' = [row_locks EXCEPT ![key] = tx]
  /\ memory' = memory \cup {[key |-> key, seq |-> next_seq_no, tx |-> tx,
                             is_deleted |-> is_deleted, is_frozen |-> FALSE]}
  /\ next_seq_no' = next_seq_no + 1
  /\ pending' = [pending EXCEPT ![key] = IF is_deleted THEN 0 ELSE next_seq_no]
  /\ UNCHANGED <<tx_status, ss_tables, job, jobs, answer, disturbed>>

\* Storage::Commit, with the release of the locks.
Commit(tx) ==
  /\ tx_status[tx] = "started"
  /\ tx_status' = [tx_status EXCEPT ![tx] = "commited"]
  /\ row_locks' = [key \in Key |-> IF row_locks[key] = tx THEN 0 ELSE row_locks[key]]
  /\ answer' = [key \in Key |-> IF row_locks[key] = tx THEN pending[key] ELSE answer[key]]
  /\ UNCHANGED <<memory, ss_tables, next_seq_no, job, jobs, pending, disturbed>>

\* Mutant of Flush: the frozen table is not dropped.
FlushKeepsMemory ==
  /\ job.kind # "compact"
  /\ \E n \in 1..(next_seq_no - 1) :
       LET frozen == {r \in memory : r.seq <= n}
       IN frozen # {} /\ ss_tables' = Append(ss_tables, frozen)
  /\ UNCHANGED <<tx_status, row_locks, memory, next_seq_no, job, jobs, pending, answer,
                 disturbed>>

\* Lsm::Flush of a frozen table; the maintenance mutex keeps it out of a compaction.
Flush ==
  /\ job.kind # "compact"
  /\ \E n \in 1..(next_seq_no - 1) :
       LET frozen == {r \in memory : r.seq <= n}
       IN /\ frozen # {}
          /\ ss_tables' = Append(ss_tables, frozen)
          /\ memory' = memory \ frozen
  /\ UNCHANGED <<tx_status, row_locks, next_seq_no, job, jobs, pending, answer,
                 disturbed>>

-----------------------------------------------------------------------------
\* MergeIterator::Next: the least of the iterators' next records.
HasMore == \E i \in DOMAIN job.iterators : job.iterators[i] # <<>>

\* Mutant of IsTop: any iterator that has more.
IsTopAny(i) == job.iterators[i] # <<>>

IsTop(i) ==
  /\ job.iterators[i] # <<>>
  /\ \A j \in DOMAIN job.iterators \ {i} :
       job.iterators[j] # <<>> => Before(Head(job.iterators[i]), Head(job.iterators[j]))

\* Mutant of ScanRow: the transaction's own rows are not seen.
ScanRowNotOwn(row) ==
  IF \/ ~IsCommited(row.tx)
     \/ row.is_deleted
     \/ job.out # <<>> /\ Last(job.out).key = row.key
  THEN job.out ELSE Append(job.out, row)

\* The loop body of TransactionalTable::Scan.
ScanRow(row) ==
  IF \/ ~(row.tx = job.tx \/ IsCommited(row.tx))
     \/ row.is_deleted
     \/ job.out # <<>> /\ Last(job.out).key = row.key
  THEN job.out ELSE Append(job.out, row)

\* Mutant of CompactRow: only rows that are not committed yet are kept.
CompactRowStartedOnly(row) ==
  IF \/ row.is_deleted
     \/ tx_status[row.tx] # "started"
     \/ job.out # <<>> /\ Last(job.out).key = row.key
  THEN job.out ELSE Append(job.out, row)

\* The loop body of CompactRows.
CompactRow(row) ==
  IF \/ row.is_deleted
     \/ tx_status[row.tx] \notin {"commited", "started"}
     \/ job.out # <<>> /\ Last(job.out).key = row.key
  THEN job.out
  ELSE Append(job.out, [row EXCEPT !.is_frozen = @ \/ IsCommited(row.tx)])

\* LsmRangeIterator::Create: every layer is scanned.
RangeIterators ==
  LET layers == <<memory>> \o ss_tables
  IN [i \in DOMAIN layers |-> Sorted(layers[i])]

\* The Scan handler; the session's transaction reads.
StartScan(tx) ==
  /\ job.kind = "none" /\ jobs < MaxJobs
  /\ tx_status[tx] = "started"
  /\ job' = [NoJob EXCEPT !.kind = "scan", !.tx = tx,
       !.iterators = RangeIterators, !.input = memory \cup OnDisk,
       !.floor = [key \in Key |-> Answer(key, tx)]]
  /\ jobs' = jobs + 1
  /\ UNCHANGED <<tx_status, row_locks, memory, ss_tables, next_seq_no, pending, answer,
                 disturbed>>

\* Lsm::Compact: the ss tables are scanned.
StartCompact ==
  /\ job.kind = "none" /\ jobs < MaxJobs
  /\ job' = [NoJob EXCEPT !.kind = "compact", !.input = OnDisk,
                !.iterators = [i \in DOMAIN ss_tables |-> Sorted(ss_tables[i])]]
  /\ jobs' = jobs + 1
  /\ disturbed' = disturbed \cup
       {r.key : r \in {s \in OnDisk : /\ s.is_deleted \/ ~IsCommited(s.tx)
                                      /\ \A t \in OnDisk : t.key = s.key => t.seq <= s.seq}}
  /\ UNCHANGED <<tx_status, row_locks, memory, ss_tables, next_seq_no, pending, answer>>

\* One row of the merge goes to the consumer.
NextRow ==
  /\ \E i \in DOMAIN job.iterators :
       /\ IsTop(i)
       /\ LET row == Head(job.iterators[i])
          IN job' = [job EXCEPT !.iterators[i] = Tail(@), !.handed = Append(@, row),
                       !.out = IF job.kind = "scan" THEN ScanRow(row) ELSE CompactRow(row)]
  /\ UNCHANGED <<tx_status, row_locks, memory, ss_tables, next_seq_no, jobs, pending,
                 answer, disturbed>>

\* The merge is exhausted: a scan answers, a compaction replaces the ss tables.
Finish ==
  /\ ~HasMore
  /\ job.kind \in {"scan", "compact"}
  /\ job' = [job EXCEPT !.kind = IF @ = "scan" THEN "scanned" ELSE "compacted"]
  /\ ss_tables' = IF job.kind = "compact" THEN <<ToSet(job.out)>> ELSE ss_tables
  /\ UNCHANGED <<tx_status, row_locks, memory, next_seq_no, jobs, pending,
                 answer, disturbed>>

\* The caller has used the result.
Return ==
  /\ job.kind \in {"scanned", "compacted"}
  /\ job' = NoJob
  /\ UNCHANGED <<tx_status, row_locks, memory, ss_tables, next_seq_no, jobs, pending,
                 answer, disturbed>>

ScanNext ==
  \/ \E tx \in Tx :
       \/ \E key \in Key, is_deleted \in BOOLEAN : Write(tx, key, is_deleted)
       \/ Commit(tx)
       \/ StartScan(tx)
  \/ Flush \/ StartCompact \/ NextRow \/ Finish \/ Return

ScanSpec == ScanInit /\ [][ScanNext]_scanVars

-----------------------------------------------------------------------------
\* Types; a row is in one layer.
ScanTypeOK ==
  /\ tx_status \in [Tx -> {"started", "commited"}]
  /\ row_locks \in [Key -> Tx \cup {0}]
  /\ \A r \in memory \cup OnDisk : r.key \in Key /\ r.tx \in Tx /\ r.seq \in 1..(next_seq_no - 1)
  /\ \A r \in memory : \A s \in OnDisk : r.seq # s.seq
  /\ job.kind \in {"none", "scan", "scanned", "compact", "compacted"}

\* merge_iterator.hpp:12, "sorted output across all input iterators": what the merge
\* handed out so far is in order, and with what it has left it is its whole input.
MergeOrdered ==
  job.kind # "none" =>
    /\ \A i, j \in DOMAIN job.handed : i < j => Before(job.handed[i], job.handed[j])
    /\ ToSet(job.handed) \cup UNION {ToSet(job.iterators[i]) : i \in DOMAIN job.iterators}
         = job.input

\* table.hpp:30, "all key, values from given range": commits in the middle of a scan
\* do not make it lose a key that had a value when it began, go back to an older
\* value, return a key twice, or return a row that is neither committed nor its own.
ScanFindsLive ==
  job.kind = "scanned" =>
    /\ \A i, j \in DOMAIN job.out : i < j => job.out[i].key < job.out[j].key
    /\ \A i \in DOMAIN job.out : job.out[i].tx = job.tx \/ IsCommited(job.out[i].tx)
    /\ \A key \in Key : job.floor[key] # 0 =>
         \E i \in DOMAIN job.out : job.out[i].key = key /\ job.out[i].seq >= job.floor[key]

\* Whatever compactions and flushes ran, a key answers with its last committed write,
\* unless a compaction met it with a deletion or an uncommitted row on top.
CompactionKeepsAnswers ==
  \A key \in Key \ disturbed : Answer(key, 0) = answer[key]

\* table.hpp:27, Delete "deletes key from table": once the last committed write of a key
\* is a deletion, the key has no value.
DeletedStaysDeleted ==
  \A key \in Key : answer[key] = 0 => Answer(key, 0) = 0

-----------------------------------------------------------------------------
Rows == memory \cup OnDisk

Row == [key : Key, seq : Nat \ {0}, tx : Tx, is_deleted : BOOLEAN, is_frozen : BOOLEAN]

\* A number belongs to one row and a row to one layer, the newest rows to memory, and
\* only rows of committed transactions are frozen.
RowsInv ==
  /\ tx_status \in [Tx -> {"started", "commited"}]
  /\ row_locks \in [Key -> Tx \cup {0}]
  /\ next_seq_no \in Nat \ {0}
  /\ memory \subseteq Row /\ IsFiniteSet(memory)
  /\ ss_tables \in Seq(SUBSET Row) /\ \A i \in DOMAIN ss_tables : IsFiniteSet(ss_tables[i])
  /\ \A r \in Rows : r.seq < next_seq_no /\ (r.is_frozen => IsCommited(r.tx))
  /\ \A r, s \in Rows : r.seq = s.seq => r = s
  /\ \A r \in memory, s \in OnDisk : s.seq < r.seq
  /\ \A i, j \in DOMAIN ss_tables : i # j => ss_tables[i] \cap ss_tables[j] = {}

\* What is not committed is locked, and the last write of a locked key that no
\* compaction has disturbed is its newest row.
WritersInv ==
  /\ \A r \in Rows : ~IsCommited(r.tx) => row_locks[r.key] = r.tx
  /\ \A key \in Key : row_locks[key] # 0 => tx_status[row_locks[key]] = "started"
  /\ \A key \in Key \ disturbed : row_locks[key] # 0 =>
       \E r \in Rows :
         /\ r.key = key /\ r.tx = row_locks[key]
         /\ pending[key] = IF r.is_deleted THEN 0 ELSE r.seq
         /\ \A s \in Rows : s.key = key => s.seq <= r.seq
  /\ pending \in [Key -> Nat] /\ answer \in [Key -> Nat]

\* What the merge has not handed out.
Left == UNION {ToSet(job.iterators[i]) : i \in DOMAIN job.iterators}

\* Each iterator is sorted, no two have a row in common, and what was handed out
\* comes before what is left.
MergeInv ==
  /\ job \in [kind : {"none", "scan", "scanned", "compact", "compacted"}, tx : Tx \cup {0},
               iterators : Seq(Seq(Row)), input : SUBSET Row, handed : Seq(Row),
               out : Seq(Row), floor : [Key -> Nat]]
  /\ \A r, s \in job.input : r.seq = s.seq => r = s
  /\ \A r \in job.input : r.is_frozen => IsCommited(r.tx)
  /\ ToSet(job.handed) \cup Left = job.input
  /\ \A i \in DOMAIN job.iterators : \A j, k \in DOMAIN job.iterators[i] :
       j < k => Before(job.iterators[i][j], job.iterators[i][k])
  /\ \A i, j \in DOMAIN job.iterators :
       i # j => ToSet(job.iterators[i]) \cap ToSet(job.iterators[j]) = {}
  /\ \A i, j \in DOMAIN job.handed : i < j => Before(job.handed[i], job.handed[j])
  /\ \A r \in ToSet(job.handed), s \in Left : Before(r, s)
  /\ job.kind \notin {"scan", "compact"} => Left = {}

\* The row that was written, whether a compaction froze it or not.
SameRow(r, s) ==
  r.key = s.key /\ r.seq = s.seq /\ r.tx = s.tx /\ r.is_deleted = s.is_deleted

\* What a scan or a compaction keeps of what it was handed: one row per key.
OutInv ==
  /\ \A i, j \in DOMAIN job.out : i < j => job.out[i].key < job.out[j].key
  /\ \A i \in DOMAIN job.out : \E r \in ToSet(job.handed) : SameRow(job.out[i], r)
  /\ \A i \in DOMAIN job.out : job.out[i].is_frozen => IsCommited(job.out[i].tx)

\* A scan has not lost what was visible when it began.
ScanJobInv ==
  job.kind \in {"scan", "scanned"} =>
    /\ \A i \in DOMAIN job.out : job.out[i].tx = job.tx \/ IsCommited(job.out[i].tx)
    /\ \A key \in Key : job.floor[key] # 0 =>
         \E r \in job.input :
           /\ r.key = key /\ r.seq = job.floor[key] /\ ~r.is_deleted
           /\ r.tx = job.tx \/ IsCommited(r.tx)
           /\ r \in ToSet(job.handed) =>
                \E i \in DOMAIN job.out : job.out[i].key = key /\ job.out[i].seq >= r.seq

\* A compaction works on the ss tables and keeps the newest row of a key, if that is
\* not deleted.
CompactJobInv ==
  job.kind = "compact" =>
    /\ job.input = OnDisk
    /\ \A r \in OnDisk : (\A s \in OnDisk : s.key = r.key => s.seq <= r.seq) =>
         /\ r.is_deleted \/ ~IsCommited(r.tx) => r.key \in disturbed
         /\ r \in ToSet(job.handed) /\ ~r.is_deleted =>
              \E i \in DOMAIN job.out : job.out[i].key = r.key /\ job.out[i].seq = r.seq

\* What makes the properties above inductive.
TableScansInv ==
  /\ RowsInv /\ WritersInv /\ MergeInv /\ OutInv /\ ScanJobInv /\ CompactJobInv
  /\ CompactionKeepsAnswers
=============================================================================
