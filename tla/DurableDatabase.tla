-------------------------- MODULE DurableDatabase --------------------------
(***************************************************************************)
(* Durability: the write path of LsmEngine::Upsert and Storage::Commit     *)
(* into the write-ahead log, the flush that makes records persistent, the  *)
(* WAL cleaner, and Database::Init after a crash of the process.           *)
(*                                                                         *)
(* The tree is the set of its records; module Lsm shows that the records   *)
(* on disk are those up to max_persistent_seq_no.  Each call is one        *)
(* transaction that writes one record of its own row and then commits.     *)
(* write_no tells writes apart across crashes, when numbers are reused.    *)
(***************************************************************************)
EXTENDS WalWriter

CONSTANTS Call,           \* concurrent transactions
          CleanerRuns,    \* whether the WalCleaner job is on
          MaxWrites,      \* bound: records written
          MaxCrashes,     \* bound: crashes
          MaxFailures     \* bound: operations on the log's files that throw

ASSUME DurableDatabaseAssumption ==
  /\ kWalPageSize \in Nat \ {0, 1}
  /\ MaxSegment \in Nat /\ MaxWrites \in Nat /\ MaxCrashes \in Nat
  /\ CleanerRuns \in BOOLEAN /\ MaxFailures \in Nat

kInitialTxId == 10

VARIABLES records,                 \* the versions in the tree
          next_seq_no, max_persistent_seq_no,
          commited, next_tx_id,    \* transaction::Storage
          calls,
          cleaner,                 \* progress of wal::Clean
          crashes,                 \* bound
          writes,                  \* history: records written so far
          acked,                   \* history: writes whose commit was answered
          overlapped,              \* history: two callers were in Write at once
          removed,                 \* history: a segment was removed
          failures,                \* bound: events that did not get into the log
          exposed                  \* history: writes answered after that

dbVars == <<walVars, records, next_seq_no, max_persistent_seq_no, commited, next_tx_id,
            calls, cleaner, crashes, writes, acked, overlapped, removed, failures,
            exposed>>

treeVars == <<records, next_seq_no, max_persistent_seq_no>>
histVars == <<crashes, writes, acked, removed, failures, exposed>>

-----------------------------------------------------------------------------
IdleCall == [pc |-> "idle", tx |-> 0, write_no |-> 0, event |-> Padding, no |-> 0]
IdleCleaner == [to_read |-> {}, obsolete |-> {}]

InWrite(c) == calls[c].pc \in {"padded", "opening", "written"}

DbInit ==
  /\ segments = [no \in {0} |-> <<>>]
  /\ current_segment_no = 0
  /\ current_segment_writer = 0
  /\ current_page_size = 0
  /\ records = {}
  /\ next_seq_no = 1
  /\ max_persistent_seq_no = 0
  /\ commited = {}
  /\ next_tx_id = kInitialTxId
  /\ calls = [c \in Call |-> IdleCall]
  /\ cleaner = IdleCleaner
  /\ crashes = 0 /\ writes = 0
  /\ acked = {}
  /\ overlapped = FALSE /\ removed = FALSE
  /\ failures = 0 /\ exposed = {}

\* The events: what they carry is all that recovery has.
UpsertEvent(record) == [type |-> "upsert", record |-> record]
CommitEvent(tx) == [type |-> "commit", tx |-> tx]

\* The call enters Write with this event.
Log(c, call, event) ==
  /\ \E at \in WritePoint :
       /\ WriteStart(event, at)
       /\ calls' = [calls EXCEPT ![c] =
                      [call EXCEPT !.pc = at.pc, !.no = at.no, !.event = event]]
  /\ overlapped' = (overlapped \/ \E d \in Call \ {c} : InWrite(d))

\* Session::Start begins the transaction; LsmEngine::Upsert puts the record in the
\* tree before it writes the log.
Upsert(c) ==
  /\ calls[c].pc = "idle"
  /\ writes < MaxWrites
  /\ writes' = writes + 1
  /\ LET record == [seq |-> next_seq_no, tx |-> next_tx_id, write_no |-> writes + 1]
     IN /\ records' = records \cup {record}
        /\ Log(c, [calls[c] EXCEPT !.tx = next_tx_id, !.write_no = writes + 1],
               UpsertEvent(record))
  /\ next_seq_no' = next_seq_no + 1
  /\ next_tx_id' = next_tx_id + 1
  /\ UNCHANGED <<max_persistent_seq_no, commited, cleaner, crashes, acked, removed, failures,
                 exposed>>

\* Storage::Commit: the status changes before the log is written.
Commit(c) ==
  /\ calls[c].pc = "upserted"
  /\ commited' = commited \cup {calls[c].tx}
  /\ Log(c, calls[c], CommitEvent(calls[c].tx))
  /\ UNCHANGED <<treeVars, next_tx_id, cleaner, histVars>>

\* The steps inside Write.
Padded(c) ==
  /\ calls[c].pc = "padded"
  /\ \E at \in WritePoint :
       /\ WriteAfterPadding(at)
       /\ calls' = [calls EXCEPT ![c].pc = at.pc, ![c].no = at.no]
  /\ UNCHANGED <<treeVars, commited, next_tx_id, cleaner, histVars, overlapped>>

Opened(c) ==
  /\ calls[c].pc = "opening"
  /\ \E at \in WritePoint :
       /\ WriteAfterOpening(calls[c].event, calls[c].no, at)
       /\ calls' = [calls EXCEPT ![c].pc = at.pc]
  /\ UNCHANGED <<treeVars, commited, next_tx_id, cleaner, histVars, overlapped>>

\* Write returns: after the upsert the handler goes on to commit (autocommit) or
\* answers and waits for the client's Commit; after the commit it answers.
Written(c) ==
  /\ calls[c].pc = "written"
  /\ WriteDone(calls[c].event)
  /\ IF calls[c].event.type = "upsert"
     THEN calls' = [calls EXCEPT ![c].pc = "upserted"] /\ UNCHANGED <<acked, exposed>>
     ELSE /\ calls' = [calls EXCEPT ![c] = IdleCall]
          /\ acked' = acked \cup {calls[c].write_no}
          /\ exposed' = IF failures > 0 THEN exposed \cup {calls[c].write_no} ELSE exposed
  /\ UNCHANGED <<treeVars, commited, next_tx_id, cleaner, crashes, writes,
                 overlapped, removed, failures>>

-----------------------------------------------------------------------------
\* FileWriter::Write throws and nothing is written: the handler answers with an error.
\* The record stays in the tree, its number used; the transaction stays started.
UpsertFails(c) ==
  /\ failures < MaxFailures
  /\ calls[c].pc = "idle"
  /\ writes < MaxWrites
  /\ writes' = writes + 1
  /\ records' = records \cup {[seq |-> next_seq_no, tx |-> next_tx_id, write_no |-> writes + 1]}
  /\ next_seq_no' = next_seq_no + 1
  /\ next_tx_id' = next_tx_id + 1
  /\ failures' = failures + 1
  /\ UNCHANGED <<walVars, max_persistent_seq_no, commited, calls, cleaner, crashes, acked,
                 overlapped, removed, exposed>>

\* The same in Storage::Commit: the status is not taken back.
CommitFails(c) ==
  /\ failures < MaxFailures
  /\ calls[c].pc = "upserted"
  /\ commited' = commited \cup {calls[c].tx}
  /\ calls' = [calls EXCEPT ![c] = IdleCall]
  /\ failures' = failures + 1
  /\ UNCHANGED <<walVars, treeVars, next_tx_id, cleaner, crashes, writes, acked, overlapped,
                 removed, exposed>>

\* The next segment cannot be opened: the writer stays at the file whose page is complete.
OpenFails(c) ==
  /\ failures < MaxFailures
  /\ calls[c].pc = "opening"
  /\ calls' = [calls EXCEPT ![c] = IdleCall]
  /\ failures' = failures + 1
  /\ UNCHANGED <<walVars, treeVars, commited, next_tx_id, cleaner, crashes, writes, acked,
                 overlapped, removed, exposed>>

-----------------------------------------------------------------------------
\* A flush publishes the frozen tables up to some record (module Lsm).
Flush ==
  /\ \E seq \in (max_persistent_seq_no + 1)..(next_seq_no - 1) : max_persistent_seq_no' = seq
  /\ UNCHANGED <<walVars, records, next_seq_no, commited, next_tx_id, calls, cleaner,
                 histVars, overlapped>>

\* Event::IsPersistent.
IsPersistent(event) ==
  event.type = "commit" \/ event.record.seq <= max_persistent_seq_no

\* wal::Clean lists the directory, reads the segments in order, then removes those
\* whose events were all persistent when read; a segment without events stays.
CleanStart ==
  /\ CleanerRuns
  /\ cleaner = IdleCleaner
  /\ cleaner' = [to_read |-> DOMAIN segments, obsolete |-> {}]
  /\ UNCHANGED <<walVars, treeVars, commited, next_tx_id, calls, histVars, overlapped>>

CleanRead ==
  /\ cleaner.to_read # {}
  /\ \E torn \in BOOLEAN :
       LET no == Min(cleaner.to_read)
           events == Readable(segments[no], torn)
       IN cleaner' = [cleaner EXCEPT
            !.to_read = @ \ {no},
            !.obsolete = IF events # <<>> /\ \A i \in DOMAIN events : IsPersistent(events[i])
                         THEN @ \cup {no} ELSE @]
  /\ UNCHANGED <<walVars, treeVars, commited, next_tx_id, calls, histVars, overlapped>>

CleanRemove ==
  /\ cleaner.to_read = {}
  /\ \E no \in cleaner.obsolete :
       /\ segments' = [n \in DOMAIN segments \ {no} |-> segments[n]]
       /\ cleaner' = [cleaner EXCEPT !.obsolete = @ \ {no}]
  /\ removed' = TRUE
  /\ UNCHANGED <<current_segment_no, current_segment_writer, current_page_size,
                 treeVars, commited, next_tx_id, calls,
                 crashes, writes, acked, overlapped, failures, exposed>>

-----------------------------------------------------------------------------
\* Mutant of RecoverCommit: the next transaction id is not recovered.
RecoverCommitNoTxId(tx, db) == [db EXCEPT !.commited = @ \cup {tx}]

\* RecoverFromLog of the transaction storage, on what has been recovered so far.
RecoverCommit(tx, db) ==
  [db EXCEPT !.commited = @ \cup {tx}, !.next_tx_id = Max({@, tx + 1})]

\* Mutant of RecoverUpsert: the number of the record is not compared with the next one.
RecoverUpsertUnnumbered(record, db) ==
  [db EXCEPT !.records = @ \cup {record}, !.next_seq_no = record.seq + 1]

\* RecoverFromLog of the engine: Lsm::Put(seq_no, ...) ignores a record that is not the
\* next one.
RecoverUpsert(record, db) ==
  IF record.seq = db.next_seq_no
  THEN [db EXCEPT !.records = @ \cup {record}, !.next_seq_no = @ + 1]
  ELSE db

\* Event::Apply.
Apply(event, db) ==
  IF event.type = "commit" THEN RecoverCommit(event.tx, db) ELSE RecoverUpsert(event.record, db)

\* wal::Recover: the events in their order.
Replay(events, db) ==
  LET after[i \in 0..Len(events)] ==
        IF i = 0 THEN db ELSE Apply(events[i], after[i - 1])
  IN after[Len(events)]

\* What Lsm::Init finds: the ss tables.
Persistent ==
  [records |-> {r \in records : r.seq <= max_persistent_seq_no},
   next_seq_no |-> max_persistent_seq_no + 1, commited |-> {}, next_tx_id |-> kInitialTxId]

\* Database::Init: the ss tables first, then the log.
Recovered(torn) == Replay(LogEvents(segments, torn), Persistent)

\* The process dies at any moment and is started again; nothing is written to disk
\* before the new segment is opened.
Crash ==
  /\ crashes < MaxCrashes
  /\ crashes' = crashes + 1
  /\ \E torn \in BOOLEAN :
       LET db == Recovered(torn)
       IN /\ records' = db.records
          /\ next_seq_no' = db.next_seq_no
          /\ commited' = db.commited
          /\ next_tx_id' = db.next_tx_id
  /\ WriterInit(segments)
  /\ calls' = [c \in Call |-> IdleCall]
  /\ cleaner' = IdleCleaner
  /\ UNCHANGED <<max_persistent_seq_no, writes, acked, overlapped, removed, failures,
                 exposed>>

-----------------------------------------------------------------------------
DbNext ==
  \/ \E c \in Call :
       \/ Upsert(c) \/ Commit(c) \/ Padded(c) \/ Opened(c) \/ Written(c)
       \/ UpsertFails(c) \/ CommitFails(c) \/ OpenFails(c)
  \/ Flush
  \/ CleanStart \/ CleanRead \/ CleanRemove
  \/ Crash

DbSpec == DbInit /\ [][DbNext]_dbVars

-----------------------------------------------------------------------------
\* Types of the log writer, the tree and the transaction storage.
DbTypeOK ==
  /\ DOMAIN segments \subseteq 0..MaxSegment
  /\ current_segment_no \in 0..MaxSegment
  /\ current_segment_writer \in 0..MaxSegment
  /\ current_page_size \in Nat
  /\ next_seq_no \in 1..(MaxWrites + 1)
  /\ max_persistent_seq_no \in 0..(next_seq_no - 1)
  /\ commited \subseteq kInitialTxId..(next_tx_id - 1)

\* Whatever a crash, a flush, the cleaner and interleaved log writes leave behind,
\* the tree holds one record under each number below next_seq_no: Lsm::Put's test of
\* the number lets recovery stop early, never skip or apply one twice.
NumbersWithoutHoles ==
  /\ {r.seq : r \in records} = 1..(next_seq_no - 1)
  /\ \A r, s \in records : r.seq = s.seq => r = s

\* A crash now would leave the write readable and committed.
Survives(w) ==
  \A torn \in BOOLEAN :
    LET db == Recovered(torn)
    IN \E r \in db.records : r.write_no = w /\ r.tx \in db.commited

\* README.md:15-16, "every mutation is logged ...; the database replays the WAL on
\* startup to recover": a write whose commit was answered survives a crash.
AckedSurvivesCrash == \A w \in acked : Survives(w)

\* The same, as long as log writes did not overlap, nothing was cleaned, and the write
\* was answered before the first event that the log refused: the hole which that event
\* leaves hides what comes after it, and nothing that came before.
SerialLogDurable ==
  ~overlapped /\ ~removed => \A w \in acked \ exposed : Survives(w)
=============================================================================
