-------------------------------- MODULE Lsm --------------------------------
(***************************************************************************)
(* One LSM tree (src/server/lsm/lsm.cpp): the active mem table, the frozen *)
(* mem tables, the ss tables and the files behind them, written by puts    *)
(* and reorganised by one flush job and any number of compactions, with    *)
(* file operations that fail and crashes of the process followed by Init.  *)
(*                                                                         *)
(* The server runs every coroutine on one thread, so a step of this module *)
(* is the code between two points where a coroutine really suspends (file  *)
(* open, file write, lock that is taken).  DoPut has no such point inside: *)
(* nothing holds shared_mutex_ across a suspension except Lsm::Get, which  *)
(* has no caller, so taking and releasing it around the layers' updates is *)
(* part of the steps below.  The maintenance mutex is held across file I/O *)
(* and is a variable; a coroutine that finds it taken waits in its queue   *)
(* (io/shared_mutex.cpp).                                                  *)
(*                                                                         *)
(* A record is its key and its sequence number; the value plays no role in *)
(* where a record is kept.                                                 *)
(***************************************************************************)
EXTENDS Naturals, Sequences, FiniteSets

CONSTANTS Key,                        \* the keys written
          Compactor,                  \* coroutines that may run Compact
          max_records_in_mem_table,   \* Options::max_records_in_mem_table
          MaxSeqNo,                   \* bound: records put
          MaxFileNo,                  \* bound: numbers of merged files
          MaxRestarts                 \* bound: crashes followed by Init

ASSUME LsmAssumption ==
  /\ max_records_in_mem_table \in Nat
  /\ MaxSeqNo \in Nat
  /\ MaxFileNo \in Nat
  /\ MaxRestarts \in Nat
  /\ {"nobody", "flush", "abandoned"} \cap Compactor = {}

VARIABLES
  mem_table,               \* set of records
  ro_mem_tables,           \* deque of frozen mem tables, oldest first
  ss_tables,               \* vector of open ss tables, oldest first
  max_persistent_seq_no,
  next_seq_no,
  maintenance_mutex,       \* who holds it: "nobody", "flush", a compactor, or
                           \* "abandoned" by one that ended with an exception
  files,                   \* what the table's directory holds, by file number
  flush,                   \* progress of Flush()
  compact,                 \* progress of each Compact()
  discarded,               \* history: records a compaction strategy left out
  directory,               \* history: how the files compare with ss_tables
  restarts                 \* history: number of restarts

lsmVars == <<mem_table, ro_mem_tables, ss_tables, max_persistent_seq_no,
             next_seq_no, maintenance_mutex, files, flush, compact, discarded,
             directory, restarts>>

-----------------------------------------------------------------------------
Record == [key : Key, seq : Nat]

\* An open ss table: the number in its file's name and what it serves (the
\* descriptor stays readable when the file is unlinked).
SSTable == [no : Nat, recs : SUBSET Record]

\* A file is created empty; its header is reserved (zero pages) before the
\* pages are written and rewritten with the page count at the end, so a file
\* without its final header loads as a table with no records.
File == [has_header : BOOLEAN, recs : SUBSET Record]

Seqs(recs) == {r.seq : r \in recs}

\* Mutant of HeaderMaxSeqNo: the header records the next number.
HeaderMaxSeqNoNext(recs) ==
  1 + CHOOSE m \in Seqs(recs) \cup {0} : \A s \in Seqs(recs) : s <= m

\* SSTableHeader::max_seq_no as SSTableBuilder::Add accumulates it.
HeaderMaxSeqNo(recs) ==
  CHOOSE m \in Seqs(recs) \cup {0} : \A s \in Seqs(recs) : s <= m

MaxOf(a, b) == IF a >= b THEN a ELSE b

WriteFile(no, has_header, recs) ==
  files' = [n \in DOMAIN files \cup {no} |->
              IF n = no THEN [has_header |-> has_header, recs |-> recs]
                        ELSE files[n]]

FlushJob ==
  [pc : {"idle", "waiting", "woken", "open", "header", "records", "publish"},
   pending : Nat, no : Nat]

CompactJob ==
  [pc : {"idle", "waiting", "woken", "open", "header", "records", "publish", "remove"},
   no : Nat, input : SUBSET Record, files_to_delete : Seq(Nat)]

FlushIdle == [pc |-> "idle", pending |-> 0, no |-> 0]
CompactIdle == [pc |-> "idle", no |-> 0, input |-> {}, files_to_delete |-> <<>>]

LsmInit ==
  /\ mem_table = {}
  /\ ro_mem_tables = <<>>
  /\ ss_tables = <<>>
  /\ max_persistent_seq_no = 0
  /\ next_seq_no = 1
  /\ maintenance_mutex = "nobody"
  /\ files = [n \in {} |-> [has_header |-> FALSE, recs |-> {}]]
  /\ flush = FlushIdle
  /\ compact = [c \in Compactor |-> CompactIdle]
  /\ discarded = {}
  /\ directory = "in_step"
  /\ restarts = 0

-----------------------------------------------------------------------------
\* Mutant of DoPut: the frozen table is queued at the wrong end of the deque.
DoPutPushFront(seq_no, key) ==
  LET grown == mem_table \cup {[key |-> key, seq |-> seq_no]}
  IN IF Cardinality(grown) > max_records_in_mem_table
     THEN ro_mem_tables' = <<grown>> \o ro_mem_tables /\ mem_table' = {}
     ELSE mem_table' = grown /\ UNCHANGED ro_mem_tables

\* DoPut: insert, and freeze the mem table once it exceeds its limit.
DoPut(seq_no, key) ==
  LET grown == mem_table \cup {[key |-> key, seq |-> seq_no]}
  IN IF Cardinality(grown) > max_records_in_mem_table
     THEN /\ ro_mem_tables' = Append(ro_mem_tables, grown)
          /\ mem_table' = {}
     ELSE /\ mem_table' = grown
          /\ UNCHANGED ro_mem_tables

\* Put(key, value), the write path.  Put(seq_no, key, value), used by WAL replay
\* and replication, is the same step when seq_no is the next number and changes
\* nothing otherwise.
Put(key) ==
  /\ next_seq_no <= MaxSeqNo
  /\ next_seq_no' = next_seq_no + 1
  /\ DoPut(next_seq_no, key)
  /\ UNCHANGED <<ss_tables, max_persistent_seq_no, maintenance_mutex, files,
                 flush, compact, discarded, directory, restarts>>

-----------------------------------------------------------------------------
\* Mutant of Wake: a coroutine that waits for the mutex is not notified.
WakeNobody(job) == job

\* SharedMutex::NotifyWaiters resumes every coroutine waiting in TryLock; each
\* tests the mutex again when it runs.
Wake(job) == IF job.pc = "waiting" THEN [job EXCEPT !.pc = "woken"] ELSE job

WakeAll(jobs) == [c \in DOMAIN jobs |-> Wake(jobs[c])]

\* Flush tries the maintenance mutex, for the first time or after being resumed.
\* With the mutex taken it waits; without frozen tables it returns at once;
\* otherwise it decides how many frozen tables to write in this run.
FlushLock ==
  /\ flush.pc \in {"idle", "woken"}
  /\ \/ /\ maintenance_mutex # "nobody"
        /\ flush' = [FlushIdle EXCEPT !.pc = "waiting"]
        /\ UNCHANGED maintenance_mutex
     \/ /\ maintenance_mutex = "nobody"
        /\ ro_mem_tables = <<>>
        /\ flush' = FlushIdle
        /\ UNCHANGED maintenance_mutex
     \/ /\ maintenance_mutex = "nobody"
        /\ ro_mem_tables # <<>>
        /\ maintenance_mutex' = "flush"
        /\ flush' = [pc |-> "open", pending |-> Len(ro_mem_tables), no |-> 0]
  /\ UNCHANGED <<mem_table, ro_mem_tables, ss_tables, max_persistent_seq_no,
                 next_seq_no, files, compact, discarded, directory, restarts>>

\* Mutant of FlushFileNo: numbers start one too low.
FlushFileNoOffByOne == Len(ss_tables) - 1

\* The file is named after the number of ss tables.
FlushFileNo == Len(ss_tables)

\* CreateFileWriter unlinks what has the name and creates an empty file.  From
\* here on the directory is out of step if the number is not above all others.
FlushOpen ==
  /\ flush.pc = "open"
  /\ WriteFile(FlushFileNo, FALSE, {})
  /\ flush' = [flush EXCEPT !.pc = "header", !.no = FlushFileNo]
  /\ directory' = IF directory = "in_step" /\ \E n \in DOMAIN files : n >= FlushFileNo
                  THEN "out_of_step" ELSE directory
  /\ UNCHANGED <<mem_table, ro_mem_tables, ss_tables, max_persistent_seq_no,
                 next_seq_no, maintenance_mutex, compact, discarded, restarts>>

\* SSTableBuilder::Create reserves the header.
FlushHeader ==
  /\ flush.pc = "header"
  /\ WriteFile(flush.no, TRUE, {})
  /\ flush' = [flush EXCEPT !.pc = "records"]
  /\ UNCHANGED <<mem_table, ro_mem_tables, ss_tables, max_persistent_seq_no,
                 next_seq_no, maintenance_mutex, compact, discarded, directory,
                 restarts>>

\* Mutant of FlushRecords: the frozen table is dropped once its file is written.
FlushRecordsPop ==
  /\ flush.pc = "records"
  /\ WriteFile(flush.no, TRUE, ro_mem_tables[1])
  /\ ro_mem_tables' = Tail(ro_mem_tables)
  /\ flush' = [flush EXCEPT !.pc = "publish"]
  /\ UNCHANGED <<mem_table, ss_tables, max_persistent_seq_no, next_seq_no,
                 maintenance_mutex, compact, discarded, directory, restarts>>

\* The pages of the front frozen table, then Finish with the final header.
FlushRecords ==
  /\ flush.pc = "records"
  /\ WriteFile(flush.no, TRUE, ro_mem_tables[1])
  /\ flush' = [flush EXCEPT !.pc = "publish"]
  /\ UNCHANGED <<mem_table, ro_mem_tables, ss_tables, max_persistent_seq_no,
                 next_seq_no, maintenance_mutex, compact, discarded, directory,
                 restarts>>

\* Publish the ss table read back from the file and drop the frozen table;
\* after the last one the maintenance mutex is released.
FlushPublish ==
  /\ flush.pc = "publish"
  /\ LET table == [no |-> flush.no, recs |-> files[flush.no].recs]
     IN /\ max_persistent_seq_no' =
             MaxOf(max_persistent_seq_no, HeaderMaxSeqNo(table.recs))
        /\ ss_tables' = Append(ss_tables, table)
  /\ ro_mem_tables' = Tail(ro_mem_tables)
  /\ IF flush.pending > 1
     THEN /\ flush' = [pc |-> "open", pending |-> flush.pending - 1, no |-> 0]
          /\ UNCHANGED <<maintenance_mutex, compact>>
     ELSE /\ flush' = FlushIdle
          /\ maintenance_mutex' = "nobody"
          /\ compact' = WakeAll(compact)
  /\ UNCHANGED <<mem_table, next_seq_no, files, discarded, directory, restarts>>

\* A file operation fails: the exception leaves Flush with the mutex locked and
\* the file as far as it got.  JobLauncher logs it and starts the job again.
FlushFail ==
  /\ flush.pc \in {"open", "header", "records", "publish"}
  /\ flush' = FlushIdle
  /\ maintenance_mutex' = "abandoned"
  /\ UNCHANGED <<mem_table, ro_mem_tables, ss_tables, max_persistent_seq_no,
                 next_seq_no, files, compact, discarded, directory, restarts>>

-----------------------------------------------------------------------------
\* The merged table takes the number after the last table's file.
CompactFileNo ==
  IF ss_tables = <<>> THEN 0 ELSE ss_tables[Len(ss_tables)].no + 1

\* Mutant of CompactLock: the maintenance mutex is not looked at.
CompactLockUnguarded(c) ==
  /\ \/ compact[c].pc = "idle" /\ CompactFileNo <= MaxFileNo
     \/ compact[c].pc = "woken"
  /\ maintenance_mutex' = c
  /\ compact' = [compact EXCEPT ![c].pc = "open"]
  /\ UNCHANGED <<mem_table, ro_mem_tables, ss_tables, max_persistent_seq_no,
                 next_seq_no, files, flush, discarded, directory, restarts>>

\* Compact tries the maintenance mutex, for the first time or after being resumed.
CompactLock(c) ==
  /\ \/ compact[c].pc = "idle" /\ CompactFileNo <= MaxFileNo
     \/ compact[c].pc = "woken"
  /\ \/ /\ maintenance_mutex # "nobody"
        /\ compact' = [compact EXCEPT ![c].pc = "waiting"]
        /\ UNCHANGED maintenance_mutex
     \/ /\ maintenance_mutex = "nobody"
        /\ compact' = [compact EXCEPT ![c].pc = "open"]
        /\ maintenance_mutex' = c
  /\ UNCHANGED <<mem_table, ro_mem_tables, ss_tables, max_persistent_seq_no,
                 next_seq_no, files, flush, discarded, directory, restarts>>

\* Every ss table is scanned and its path remembered for deletion; then the
\* output file is created.
CompactOpen(c) ==
  /\ compact[c].pc = "open"
  /\ compact' = [compact EXCEPT ![c] =
       [pc |-> "header", no |-> CompactFileNo,
        input |-> UNION {ss_tables[i].recs : i \in DOMAIN ss_tables},
        files_to_delete |-> [i \in 1..Len(ss_tables) |-> ss_tables[i].no]]]
  /\ WriteFile(CompactFileNo, FALSE, {})
  /\ UNCHANGED <<mem_table, ro_mem_tables, ss_tables, max_persistent_seq_no,
                 next_seq_no, maintenance_mutex, flush, discarded, directory,
                 restarts>>

CompactHeader(c) ==
  /\ compact[c].pc = "header"
  /\ WriteFile(compact[c].no, TRUE, {})
  /\ compact' = [compact EXCEPT ![c].pc = "records"]
  /\ UNCHANGED <<mem_table, ro_mem_tables, ss_tables, max_persistent_seq_no,
                 next_seq_no, maintenance_mutex, flush, discarded, directory,
                 restarts>>

\* strategy->CompactRecords: whatever the strategy, it writes records of its
\* input under their own sequence numbers.  Until the inputs are removed the
\* directory holds them and the merged table.
CompactRecords(c) ==
  /\ compact[c].pc = "records"
  /\ \E kept \in SUBSET compact[c].input : WriteFile(compact[c].no, TRUE, kept)
  /\ compact' = [compact EXCEPT ![c].pc = "publish"]
  /\ directory' = IF directory = "in_step" THEN "merging" ELSE directory
  /\ UNCHANGED <<mem_table, ro_mem_tables, ss_tables, max_persistent_seq_no,
                 next_seq_no, maintenance_mutex, flush, discarded, restarts>>

\* ss_tables_ is replaced by the one table read back from the file,
\* max_persistent_seq_no_ is left as it is.
CompactPublish(c) ==
  /\ compact[c].pc = "publish"
  /\ LET merged == [no |-> compact[c].no, recs |-> files[compact[c].no].recs]
     IN /\ ss_tables' = <<merged>>
        /\ discarded' = discarded \cup (compact[c].input \ merged.recs)
  /\ compact' = [compact EXCEPT ![c].pc = "remove"]
  /\ UNCHANGED <<mem_table, ro_mem_tables, max_persistent_seq_no, next_seq_no,
                 maintenance_mutex, files, flush, directory, restarts>>

\* Remove the merged tables' files one by one; a file already gone is no error.
CompactRemove(c) ==
  /\ compact[c].pc = "remove"
  /\ compact[c].files_to_delete # <<>>
  /\ files' = [n \in DOMAIN files \ {Head(compact[c].files_to_delete)} |-> files[n]]
  /\ compact' = [compact EXCEPT ![c].files_to_delete = Tail(@)]
  /\ UNCHANGED <<mem_table, ro_mem_tables, ss_tables, max_persistent_seq_no,
                 next_seq_no, maintenance_mutex, flush, discarded, directory,
                 restarts>>

CompactFinish(c) ==
  /\ compact[c].pc = "remove"
  /\ compact[c].files_to_delete = <<>>
  /\ compact' = [WakeAll(compact) EXCEPT ![c] = CompactIdle]
  /\ flush' = Wake(flush)
  /\ maintenance_mutex' = "nobody"
  /\ directory' = IF directory = "merging" THEN "in_step" ELSE directory
  /\ UNCHANGED <<mem_table, ro_mem_tables, ss_tables, max_persistent_seq_no,
                 next_seq_no, files, discarded, restarts>>

\* Mutant of CompactFail: the exception frees the mutex without waking the waiters.
CompactFailUnlocks(c) ==
  /\ compact[c].pc \in {"open", "header", "records", "publish", "remove"}
  /\ compact' = [compact EXCEPT ![c] = CompactIdle]
  /\ maintenance_mutex' = "nobody"
  /\ UNCHANGED <<mem_table, ro_mem_tables, ss_tables, max_persistent_seq_no,
                 next_seq_no, files, flush, discarded, directory, restarts>>

\* A file operation fails: the exception leaves Compact with the mutex locked.
CompactFail(c) ==
  /\ compact[c].pc \in {"open", "header", "records", "publish", "remove"}
  /\ compact' = [compact EXCEPT ![c] = CompactIdle]
  /\ maintenance_mutex' = "abandoned"
  /\ UNCHANGED <<mem_table, ro_mem_tables, ss_tables, max_persistent_seq_no,
                 next_seq_no, files, flush, discarded, directory, restarts>>

-----------------------------------------------------------------------------
\* The file numbers in the order of the sorted names.
IsNameOrder(names) ==
  /\ \A n \in DOMAIN files : \E i \in DOMAIN names : names[i] = n
  /\ \A i, j \in DOMAIN names : i < j => names[i] < names[j]

\* The process dies at any moment and Lsm::Init opens every file of the directory
\* in the order of the names.  A file without its header makes SSTable::Init
\* throw and the server exit, so no such restart succeeds.
Restart ==
  /\ restarts < MaxRestarts
  /\ restarts' = restarts + 1
  /\ \A n \in DOMAIN files : files[n].has_header
  /\ \E names \in [1..Cardinality(DOMAIN files) -> DOMAIN files] :
       /\ IsNameOrder(names)
       /\ ss_tables' = [i \in 1..Cardinality(DOMAIN files) |->
                          [no |-> names[i], recs |-> files[names[i]].recs]]
  /\ max_persistent_seq_no' =
       HeaderMaxSeqNo(UNION {files[n].recs : n \in DOMAIN files})
  /\ next_seq_no' = max_persistent_seq_no' + 1
  /\ mem_table' = {}
  /\ ro_mem_tables' = <<>>
  /\ maintenance_mutex' = "nobody"
  /\ flush' = FlushIdle
  /\ compact' = [c \in Compactor |-> CompactIdle]
  /\ directory' = IF directory = "in_step" THEN "in_step" ELSE "disordered"
  /\ discarded' = {r \in discarded : r.seq < next_seq_no'}
  /\ UNCHANGED files

-----------------------------------------------------------------------------
FlushStep == FlushLock \/ FlushOpen \/ FlushHeader \/ FlushRecords \/ FlushPublish

CompactStep(c) ==
  \/ CompactLock(c)
  \/ CompactOpen(c)
  \/ CompactHeader(c)
  \/ CompactRecords(c)
  \/ CompactPublish(c)
  \/ CompactRemove(c)
  \/ CompactFinish(c)

\* What happens while the process runs.
LsmWork ==
  \/ \E key \in Key : Put(key)
  \/ FlushStep
  \/ FlushFail
  \/ \E c \in Compactor : CompactStep(c) \/ CompactFail(c)

LsmNext == LsmWork \/ Restart

LsmSpec == LsmInit /\ [][LsmNext]_lsmVars

\* The io_context runs every ready coroutine and the thread pool completes every
\* file operation, so a flush or compaction that can continue does, and the
\* flush job, re-armed by its timer, is started again while tables are frozen.
LsmFairness ==
  /\ WF_lsmVars(FlushStep)
  /\ \A c \in Compactor : WF_lsmVars(CompactStep(c) /\ compact[c].pc # "idle")

FairLsmSpec == LsmSpec /\ LsmFairness

-----------------------------------------------------------------------------
\* The tables in the order LsmKeyIterator leaves them behind: it starts at the
\* end of this sequence and walks to its beginning.
Layers ==
  [i \in 1..Len(ss_tables) |-> ss_tables[i].recs] \o ro_mem_tables \o <<mem_table>>

AllRecords == UNION {Layers[i] : i \in DOMAIN Layers}

\* Mutant of IsFirstOfScan: the ss tables are walked oldest first.
IsFirstOfScanOldest(record, key) ==
  \E i \in DOMAIN Layers :
    /\ record \in Layers[i]
    /\ record.key = key
    /\ \A other \in Layers[i] : other.key = key => other.seq <= record.seq
    /\ \A j \in 1..(i - 1) : \A other \in Layers[j] : other.key # key

\* The first record LsmKeyIterator yields for key: the largest one of the last
\* layer that has the key.
IsFirstOfScan(record, key) ==
  \E i \in DOMAIN Layers :
    /\ record \in Layers[i]
    /\ record.key = key
    /\ \A other \in Layers[i] : other.key = key => other.seq <= record.seq
    /\ \A j \in (i + 1)..Len(Layers) : \A other \in Layers[j] : other.key # key

-----------------------------------------------------------------------------
\* Types of every variable of the tree (lsm.hpp, the members of class Lsm).
LsmTypeOK ==
  /\ mem_table \in SUBSET Record
  /\ ro_mem_tables \in Seq(SUBSET Record)
  /\ ss_tables \in Seq(SSTable)
  /\ max_persistent_seq_no \in Nat
  /\ next_seq_no \in Nat
  /\ maintenance_mutex \in {"nobody", "flush", "abandoned"} \cup Compactor
  /\ DOMAIN files \in SUBSET Nat
  /\ IsFiniteSet(DOMAIN files)
  /\ \A n \in DOMAIN files : files[n] \in File
  /\ flush \in FlushJob
  /\ compact \in [Compactor -> CompactJob]
  /\ discarded \in SUBSET Record
  /\ directory \in {"in_step", "merging", "out_of_step", "disordered"}
  /\ restarts \in Nat

\* No restart so far found a directory that was not the ss tables in their order:
\* neither one with the inputs and the output of a compaction, nor one where a
\* flush had taken a number below another file's.
Orderly == directory # "disordered"

\* Every record of an older layer has a smaller number than every record of a
\* newer one: the order in which LsmKeyIterator visits the tables is the order
\* of the writes, whatever flushes, compactions and orderly restarts happen.
LayersOrdered ==
  Orderly => \A i, j \in DOMAIN Layers :
    i < j => \A r \in Layers[i], s \in Layers[j] : r.seq < s.seq

\* The read path returns the newest version: what LsmKeyIterator yields first for
\* a key is the record with the largest number in the whole tree.
ScanStartsAtNewest ==
  Orderly => \A record \in AllRecords :
    (\A other \in AllRecords : other.key = record.key => other.seq <= record.seq)
      <=> IsFirstOfScan(record, record.key)

\* Every number handed out and not given up by a restart belongs to a record some
\* layer serves, unless a compaction strategy left the record out.
NumbersServed ==
  \A seq \in 1..(next_seq_no - 1) :
    seq \in Seqs(AllRecords) \cup Seqs(discarded)

\* lsm.cpp:117-119, "concurrent reads never lose its keys": in every state each
\* number below the next one belongs to a record some layer still serves, unless
\* a compaction strategy left the record out.
NoRecordLost == Orderly => NumbersServed

\* IsPersistent (lsm_storage.cpp:115) never answers yes for a record that exists
\* only in memory: numbers up to max_persistent_seq_no_ are in no mem table.
PersistentNotOnlyInMemory ==
  \A i \in DOMAIN Layers :
    i > Len(ss_tables) => \A r \in Layers[i] : r.seq > max_persistent_seq_no

\* The holder of the maintenance mutex is the only flush or compaction running,
\* what it has read is still what the tree holds, and nobody waits for a mutex
\* that is free (every unlock wakes the waiters, a woken one waits again only
\* behind a new holder).
MaintenanceExclusive ==
  /\ flush.pc \notin {"idle", "waiting", "woken"} <=> maintenance_mutex = "flush"
  /\ \A c \in Compactor :
       compact[c].pc \notin {"idle", "waiting", "woken"} <=> maintenance_mutex = c
  /\ maintenance_mutex = "nobody" =>
       flush.pc # "waiting" /\ \A c \in Compactor : compact[c].pc # "waiting"
  /\ maintenance_mutex = "flush" => flush.pending \in 1..Len(ro_mem_tables)
  /\ flush.pc \in {"header", "records", "publish"} => flush.no = Len(ss_tables)
  /\ flush.pc = "publish" =>
       /\ flush.no \in DOMAIN files
       /\ files[flush.no] = [has_header |-> TRUE, recs |-> ro_mem_tables[1]]
  /\ \A c \in Compactor :
       /\ compact[c].pc \in {"header", "records", "publish"} =>
            compact[c].input = UNION {ss_tables[i].recs : i \in DOMAIN ss_tables}
       /\ compact[c].pc = "publish" =>
            /\ compact[c].no \in DOMAIN files
            /\ files[compact[c].no].has_header
            /\ files[compact[c].no].recs \subseteq compact[c].input

\* The numbers split into those on disk and those in memory at
\* max_persistent_seq_no, and those in memory are ordered.
NumbersSplit ==
  /\ next_seq_no \in Nat \ {0}
  /\ max_persistent_seq_no < next_seq_no
  /\ \A i \in DOMAIN ss_tables : \A r \in ss_tables[i].recs :
       r.seq <= max_persistent_seq_no
  /\ \A i \in DOMAIN ro_mem_tables : \A r \in ro_mem_tables[i] :
       max_persistent_seq_no < r.seq /\ r.seq < next_seq_no
  /\ \A r \in mem_table : max_persistent_seq_no < r.seq /\ r.seq < next_seq_no
  /\ \A i, j \in DOMAIN ro_mem_tables : i < j =>
       \A r \in ro_mem_tables[i], s \in ro_mem_tables[j] : r.seq < s.seq
  /\ \A i \in DOMAIN ro_mem_tables : \A r \in ro_mem_tables[i], s \in mem_table :
       r.seq < s.seq

\* No file holds a number still to be given.
FilesBelowNext ==
  \A n \in DOMAIN files : \A r \in files[n].recs : r.seq < next_seq_no

TablesOrdered ==
  \A i, j \in DOMAIN ss_tables : i < j =>
    \A r \in ss_tables[i].recs, s \in ss_tables[j].recs : r.seq < s.seq

\* The tables are in the order of their files' numbers and each file holds what
\* its table serves.
FilesMatchTables ==
  /\ \A i, j \in DOMAIN ss_tables : i < j => ss_tables[i].no < ss_tables[j].no
  /\ \A i \in DOMAIN ss_tables :
       /\ ss_tables[i].no \in DOMAIN files
       /\ files[ss_tables[i].no].has_header
       /\ files[ss_tables[i].no].recs = ss_tables[i].recs

TableNos == {ss_tables[i].no : i \in DOMAIN ss_tables}

SpareFiles == DOMAIN files \ TableNos

BeingWritten(n) ==
  \/ flush.pc \in {"header", "records", "publish"} /\ flush.no = n
  \/ \E c \in Compactor :
       compact[c].pc \in {"header", "records"} /\ compact[c].no = n

ToDelete(c) ==
  {compact[c].files_to_delete[i] : i \in DOMAIN compact[c].files_to_delete}

\* While in step the only file without a table is the one being written, or left
\* by an exception; its number is above the tables' and it is empty or holds the
\* oldest frozen table.
InStepFiles ==
  /\ \A n \in SpareFiles :
       /\ \A m \in TableNos : m < n
       /\ files[n].recs = {} \/ (ro_mem_tables # <<>> /\ files[n].recs = ro_mem_tables[1])
       /\ BeingWritten(n) \/ maintenance_mutex = "abandoned"
  /\ \A n, m \in SpareFiles : n = m
  /\ flush.pc \in {"header", "records", "publish"} => flush.no \in SpareFiles
  /\ \A c \in Compactor :
       /\ compact[c].pc \in {"header", "records"} =>
            compact[c].no \in SpareFiles /\ ToDelete(c) = TableNos
       /\ compact[c].pc \notin {"publish", "remove"}

\* While merging the directory holds the inputs and the output of one compaction,
\* and what is to be deleted is not the output.
MergingFiles ==
  /\ \/ maintenance_mutex = "abandoned"
     \/ \E c \in Compactor : compact[c].pc \in {"publish", "remove"}
  /\ \A c \in Compactor :
       /\ compact[c].pc = "publish" =>
            /\ SpareFiles = {compact[c].no}
            /\ ToDelete(c) = TableNos
       /\ compact[c].pc = "remove" =>
            /\ TableNos = {compact[c].no}
            /\ SpareFiles \subseteq ToDelete(c)
            /\ compact[c].no \notin ToDelete(c)

DirectoryInv ==
  /\ directory \in {"in_step", "merging"} => FilesMatchTables
  /\ directory = "in_step" => InStepFiles
  /\ directory = "merging" => MergingFiles

\* The inductive invariant of the tree.  What the order of the layers rests on is
\* that at most one flush or compaction is past its start, that the disk part of
\* the numbers lies below the memory part, and that as long as the directory is in
\* step with the tables Init reads back the same tables in the same order.
LsmInv ==
  /\ LsmTypeOK
  /\ MaintenanceExclusive
  /\ NumbersSplit
  /\ FilesBelowNext
  /\ Orderly => TablesOrdered /\ NumbersServed
  /\ DirectoryInv

\* README.md:13, "immutable SSTables on disk": as long as a table is served its
\* file is in the directory and holds the table's records.
SSTablesImmutable ==
  \A i \in DOMAIN ss_tables :
    /\ ss_tables[i].no \in DOMAIN files
    /\ files[ss_tables[i].no].recs = ss_tables[i].recs

\* What IsPersistent reported, and the cleaner therefore dropped from the log, is
\* still served after a crash and Init.
PersistentSurvivesRestart ==
  [][restarts' # restarts /\ Orderly' =>
       {r \in AllRecords : r.seq <= max_persistent_seq_no} \subseteq AllRecords']_lsmVars

\* Frozen tables are drained: once frozen, a record is eventually reported
\* persistent, although compactions take the maintenance mutex in between (a finite
\* number of them: the compaction job pauses after each one), unless a crash takes
\* it or an exception left the mutex locked.
FrozenBecomesPersistent ==
  \A seq \in 1..MaxSeqNo, n \in 0..MaxRestarts :
    (restarts = n /\ \E i \in DOMAIN ro_mem_tables : seq \in Seqs(ro_mem_tables[i]))
      ~> \/ seq <= max_persistent_seq_no
         \/ maintenance_mutex = "abandoned"
         \/ restarts # n

\* The layers together are an unordered store of versions.
Abstract == INSTANCE VersionStore WITH
  versions <- AllRecords, forgotten <- discarded, intact <- Orderly

\* The tree implements that store: freezing and flushing are invisible, a
\* compaction removes exactly what its strategy left out, and an orderly restart
\* loses the writes from some number on.
ImplementsVersionStore == Abstract!VersionStoreSpec
=============================================================================
