------------------------- MODULE TransactionalTable -------------------------
(***************************************************************************)
(* RPC handlers working on one transactional table: Upsert, Lookup and     *)
(* Delete of services/table_service, Begin and Commit of                   *)
(* services/transaction_service, with Session, TransactionalTable and      *)
(* transaction::Storage below them.  A call is one handler's coroutine.    *)
(* Its steps are separated where the coroutine can suspend: looking up the *)
(* table in the catalog, waiting for a row lock, reading an ss table, and  *)
(* the writes of the write-ahead log.                                      *)
(*                                                                         *)
(* The storage engine is the set of versions of a VersionStore; the value  *)
(* of a version is identified by its sequence number.                      *)
(***************************************************************************)
EXTENDS TxStorage

CONSTANTS Call,                \* concurrent handler coroutines
          Ops,                 \* which handlers the clients use
          SerialTransactions   \* clients run one call per transaction at a time

ASSUME TransactionalTableAssumption ==
  /\ MaxTx \in Nat /\ MaxTx >= kInitialTxId
  /\ SerialTransactions \in BOOLEAN
  /\ Ops \subseteq {"upsert", "lookup", "delete", "begin", "commit", "rollback"}

VARIABLES versions,      \* every version in the storage engine
          next_seq_no,
          calls          \* progress of each call

tableVars == <<tx_status, next_tx_id, row_locks, tx_locks, versions, next_seq_no, calls>>

-----------------------------------------------------------------------------
Version == [seq : Nat, key : Key, tx : TxId, is_deleted : BOOLEAN]

\* pc: "idle"; "table" session started; "lookup" walking the versions from newest
\* to oldest, cursor excluded; "lock" about to test the row lock; "wait" suspended
\* in lock_available_; "log" version written, its log write in flight; "commit"
\* status changed, commit's log write in flight; "done" answered.
Calls == [pc : {"idle", "table", "lookup", "lock", "wait", "log", "commit", "done"},
          op : {"none", "upsert", "lookup", "delete", "commit"},
          tx : TxId \cup {NoTx}, key : Key \cup {"none"}, is_autocommit : BOOLEAN,
          cursor : Nat, result : Nat, floor : Nat]

Idle == [pc |-> "idle", op |-> "none", tx |-> NoTx, key |-> "none",
         is_autocommit |-> FALSE, cursor |-> 0, result |-> 0, floor |-> 0]

TableInit ==
  /\ TxStorageInit
  /\ versions = {}
  /\ next_seq_no = 1
  /\ calls = [c \in Call |-> Idle]

\* The test of Lookup.
Visible(version, tx) == version.tx = tx \/ IsCommited(version.tx)

\* The sequence number of the newest version of key that tx can see, 0 if none.
NewestVisible(key, tx) ==
  LET seen == {v.seq : v \in {w \in versions : w.key = key /\ Visible(w, tx)}}
  IN CHOOSE n \in seen \cup {0} : \A m \in seen : m <= n

\* Mutant of MayUse: Session::Start does not ask whether the id is started.
MayUseUnchecked(tx) ==
  \A c \in Call : calls[c].tx = tx =>
    /\ ~calls[c].is_autocommit
    /\ SerialTransactions => calls[c].pc \in {"idle", "done"}

\* The ids a client may send: those Begin answered, not those of autocommit
\* sessions.  A careful client has one call in flight per transaction.
MayUse(tx) ==
  /\ IsStarted(tx)
  /\ \A c \in Call : calls[c].tx = tx =>
       /\ ~calls[c].is_autocommit
       /\ SerialTransactions => calls[c].pc \in {"idle", "done"}

-----------------------------------------------------------------------------
\* TransactionService::Begin: a session is started and not finished.
BeginTransaction ==
  /\ "begin" \in Ops
  /\ Begin
  /\ UNCHANGED <<row_locks, tx_locks, versions, next_seq_no, calls>>

\* Session::Start without a transaction begins one that Finish will commit; with
\* one it fails unless that is started.  Then the table is looked up.
StartAutocommit(c, op, key) ==
  /\ calls[c].pc = "idle"
  /\ Begin
  /\ calls' = [calls EXCEPT ![c] = [Idle EXCEPT !.pc = "table", !.op = op,
                  !.key = key, !.tx = next_tx_id, !.is_autocommit = TRUE]]
  /\ UNCHANGED <<row_locks, tx_locks, versions, next_seq_no>>

StartInTransaction(c, op, key, tx) ==
  /\ calls[c].pc = "idle"
  /\ MayUse(tx)
  /\ calls' = [calls EXCEPT ![c] = [Idle EXCEPT !.pc = "table", !.op = op,
                  !.key = key, !.tx = tx]]
  /\ UNCHANGED <<tx_status, next_tx_id, row_locks, tx_locks, versions, next_seq_no>>

\* GetTable is done: Upsert goes for the row lock, Lookup and Delete scan.
TableFound(c) ==
  /\ calls[c].pc = "table"
  /\ calls' = IF calls[c].op = "upsert"
              THEN [calls EXCEPT ![c].pc = "lock"]
              ELSE [calls EXCEPT ![c] =
                     [calls[c] EXCEPT !.pc = "lookup", !.cursor = next_seq_no,
                        !.floor = NewestVisible(calls[c].key, calls[c].tx)]]
  /\ UNCHANGED <<tx_status, next_tx_id, row_locks, tx_locks, versions, next_seq_no>>

\* The body of the handler is over: Finish commits an autocommit session.
FinishStatus(c) ==
  IF calls[c].is_autocommit THEN MarkCommited(calls[c].tx) ELSE UNCHANGED tx_status

FinishPc(c) == IF calls[c].is_autocommit THEN "commit" ELSE "done"

\* Mutant of IsNext: the versions come oldest first.
IsNextOldest(v, c) ==
  LET older == {w \in versions : w.key = calls[c].key /\ w.seq < calls[c].cursor}
  IN v \in older /\ \A w \in older : w.seq >= v.seq

\* The record iterator->Next() of Lookup yields: the newest one below the cursor.
IsNext(v, c) ==
  LET older == {w \in versions : w.key = calls[c].key /\ w.seq < calls[c].cursor}
  IN v \in older /\ \A w \in older : w.seq <= v.seq

\* Mutant of LookupSkip: the iterator is not advanced.
LookupSkipStays(c) ==
  /\ calls[c].pc = "lookup"
  /\ \E v \in versions : IsNext(v, c) /\ ~Visible(v, calls[c].tx)
  /\ UNCHANGED tableVars

\* The candidate is neither committed nor the session's own.
LookupSkip(c) ==
  /\ calls[c].pc = "lookup"
  /\ \E v \in versions :
       /\ IsNext(v, c)
       /\ ~Visible(v, calls[c].tx)
       /\ calls' = [calls EXCEPT ![c].cursor = v.seq]
  /\ UNCHANGED <<tx_status, next_tx_id, row_locks, tx_locks, versions, next_seq_no>>

\* The first visible version answers a Lookup; a Delete goes on to the row lock
\* unless that version is itself a deletion.
LookupFound(c) ==
  /\ calls[c].pc = "lookup"
  /\ \E v \in versions :
       /\ IsNext(v, c)
       /\ Visible(v, calls[c].tx)
       /\ IF calls[c].op = "delete" /\ ~v.is_deleted
          THEN /\ calls' = [calls EXCEPT ![c].pc = "lock", ![c].result = v.seq]
               /\ UNCHANGED tx_status
          ELSE /\ calls' = [calls EXCEPT ![c].pc = FinishPc(c), ![c].result = v.seq]
               /\ FinishStatus(c)
  /\ UNCHANGED <<next_tx_id, row_locks, tx_locks, versions, next_seq_no>>

\* The iterator has no more records.
LookupNotFound(c) ==
  /\ calls[c].pc = "lookup"
  /\ \A v \in versions : ~IsNext(v, c)
  /\ calls' = [calls EXCEPT ![c].pc = FinishPc(c)]
  /\ FinishStatus(c)
  /\ UNCHANGED <<next_tx_id, row_locks, tx_locks, versions, next_seq_no>>

\* AcquireRowLock finds the row held and suspends.
WaitForRow(c) ==
  /\ calls[c].pc = "lock"
  /\ ~RowIsFree(calls[c].key)
  /\ calls' = [calls EXCEPT ![c].pc = "wait"]
  /\ UNCHANGED <<tx_status, next_tx_id, row_locks, tx_locks, versions, next_seq_no>>

\* Mutant of AcquireAndPut: a woken caller does not test the row again.
AcquireAndPutUntested(c) ==
  /\ calls[c].pc = "lock"
  /\ RecordRowLock(calls[c].tx, calls[c].key)
  /\ versions' = versions \cup
       {[seq |-> next_seq_no, key |-> calls[c].key, tx |-> calls[c].tx,
         is_deleted |-> calls[c].op = "delete"]}
  /\ next_seq_no' = next_seq_no + 1
  /\ calls' = [calls EXCEPT ![c].pc = "log"]
  /\ UNCHANGED <<tx_status, next_tx_id>>

\* AcquireRowLock finds the row free: the lock is recorded and the version put
\* before the coroutine suspends in the log write.
AcquireAndPut(c) ==
  /\ calls[c].pc = "lock"
  /\ RowIsFree(calls[c].key)
  /\ RecordRowLock(calls[c].tx, calls[c].key)
  /\ versions' = versions \cup
       {[seq |-> next_seq_no, key |-> calls[c].key, tx |-> calls[c].tx,
         is_deleted |-> calls[c].op = "delete"]}
  /\ next_seq_no' = next_seq_no + 1
  /\ calls' = [calls EXCEPT ![c].pc = "log"]
  /\ UNCHANGED <<tx_status, next_tx_id>>

\* The upsert event is logged: Upsert or Delete returns.
Logged(c) ==
  /\ calls[c].pc = "log"
  /\ calls' = [calls EXCEPT ![c].pc = FinishPc(c)]
  /\ FinishStatus(c)
  /\ UNCHANGED <<next_tx_id, row_locks, tx_locks, versions, next_seq_no>>

\* TransactionService::Commit.
StartCommit(c, tx) ==
  /\ calls[c].pc = "idle"
  /\ MayUse(tx)
  /\ MarkCommited(tx)
  /\ calls' = [calls EXCEPT ![c] = [Idle EXCEPT !.pc = "commit", !.op = "commit", !.tx = tx]]
  /\ UNCHANGED <<next_tx_id, row_locks, tx_locks, versions, next_seq_no>>

\* ReleaseAllLocks wakes every suspended caller; each will test its row again.
Woken(tx) ==
  [c \in Call |-> IF calls[c].pc = "wait" /\ ReleaseNotifies(tx)
                  THEN [calls[c] EXCEPT !.pc = "lock"] ELSE calls[c]]

\* Mutant of CommitLogged: Commit does not release the locks.
CommitLoggedKeepsLocks(c) ==
  /\ calls[c].pc = "commit"
  /\ calls' = [calls EXCEPT ![c].pc = "done"]
  /\ UNCHANGED <<tx_status, next_tx_id, row_locks, tx_locks, versions, next_seq_no>>

\* The commit event is logged: the locks are released and the call answers.
CommitLogged(c) ==
  /\ calls[c].pc = "commit"
  /\ ReleaseAllLocks(calls[c].tx)
  /\ calls' = [Woken(calls[c].tx) EXCEPT ![c].pc = "done"]
  /\ UNCHANGED <<tx_status, next_tx_id, versions, next_seq_no>>

\* Storage::Rollback: synchronous.
Rollback(tx) ==
  /\ "rollback" \in Ops
  /\ MayUse(tx)
  /\ MarkRollbacked(tx)
  /\ ReleaseAllLocks(tx)
  /\ calls' = Woken(tx)
  /\ UNCHANGED <<next_tx_id, versions, next_seq_no>>

\* The client has read the answer and may call again.
Answered(c) ==
  /\ calls[c].pc = "done"
  /\ calls' = [calls EXCEPT ![c] = Idle]
  /\ UNCHANGED <<tx_status, next_tx_id, row_locks, tx_locks, versions, next_seq_no>>

-----------------------------------------------------------------------------
\* What a call does on its own once started.
CallStep(c) ==
  \/ TableFound(c)
  \/ LookupSkip(c)
  \/ LookupFound(c)
  \/ LookupNotFound(c)
  \/ WaitForRow(c)
  \/ AcquireAndPut(c)
  \/ Logged(c)
  \/ CommitLogged(c)

\* What the clients do.
ClientStep ==
  \/ BeginTransaction
  \/ \E c \in Call :
       \/ \E op \in Ops \cap {"upsert", "lookup", "delete"}, key \in Key :
            \/ StartAutocommit(c, op, key)
            \/ \E tx \in TxId : StartInTransaction(c, op, key, tx)
       \/ "commit" \in Ops /\ \E tx \in TxId : StartCommit(c, tx)
       \/ Answered(c)
  \/ \E tx \in TxId : Rollback(tx)

TableNext == ClientStep \/ \E c \in Call : CallStep(c)

TableSpec == TableInit /\ [][TableNext]_tableVars

\* The io_context resumes every coroutine that is ready, and log and table reads
\* complete; nothing forces a client to call, so client steps are not fair.
FairTableSpec == TableSpec /\ \A c \in Call : WF_tableVars(CallStep(c))

-----------------------------------------------------------------------------
\* Types of the transaction storage, the versions and the calls.
TableTypeOK ==
  /\ tx_status \in [TxId -> Status]
  /\ next_tx_id \in kInitialTxId..(MaxTx + 1)
  /\ row_locks \in [Key -> TxId \cup {NoTx}]
  /\ tx_locks \in [TxId -> SUBSET Key]
  /\ versions \subseteq Version
  /\ next_seq_no \in Nat
  /\ calls \in [Call -> Calls]

\* The two lock tables of storage.hpp:66-68 describe the same locks, so the
\* cleanup of ReleaseAllLocks frees every row its transaction holds.
LockTablesAgree ==
  \A key \in Key, tx \in TxId : row_locks[key] = tx <=> key \in tx_locks[tx]

\* No lost wakeup: a caller suspended in lock_available_ waits for a row that is
\* really held (every release that freed the row has woken it).
NoLostWakeup ==
  \A c \in Call : calls[c].pc = "wait" => ~RowIsFree(calls[c].key)

\* No dirty write: a version is put on top of another transaction's version of the
\* same key only after that transaction has committed or rolled back.
WritersSerialized ==
  \A v, w \in versions :
    v.key = w.key /\ v.seq < w.seq /\ v.tx # w.tx => ~IsStarted(v.tx)

\* Lookup walks the versions while writers commit, and still never answers with
\* something older than what was committed when it began, nor with a version that
\* is neither committed nor its own.
LookupNotStale ==
  \A c \in Call : calls[c].pc = "done" /\ calls[c].op = "lookup" =>
    /\ calls[c].result >= calls[c].floor
    /\ calls[c].result # 0 =>
         \E v \in versions : v.seq = calls[c].result /\ Visible(v, calls[c].tx)

\* storage.hpp:43, "The lock is held until the transaction commits or rolls back":
\* whoever holds a row is still running or is just logging its commit.
LockHolderActive ==
  \A key \in Key : ~RowIsFree(key) =>
    \/ IsStarted(row_locks[key])
    \/ \E c \in Call : calls[c].tx = row_locks[key] /\ calls[c].pc = "commit"

\* An id that was not handed out yet is used nowhere, and a call that has one
\* knows the row it is working on.
IdsHandedOut ==
  /\ \A tx \in TxId : tx >= next_tx_id => tx_status[tx] = "unknown"
  /\ \A v \in versions : v.tx < next_tx_id /\ v.seq < next_seq_no
  /\ \A c \in Call : calls[c].pc # "idle" => calls[c].tx \in TxId /\ calls[c].tx < next_tx_id
  /\ \A c \in Call :
       calls[c].pc \in {"table", "lookup", "lock", "wait", "log"} => calls[c].key \in Key
  /\ \A c \in Call : calls[c].pc = "commit" => IsCommited(calls[c].tx)

\* The writer of an uncommitted version still holds its row.
WriterHoldsLock ==
  \A v \in versions : IsStarted(v.tx) => row_locks[v.key] = v.tx

\* The inductive invariant behind the lock properties: AcquireRowLock, Commit,
\* Rollback and ReleaseAllLocks keep the locks of the uncommitted versions.
TableInv ==
  /\ TableTypeOK
  /\ LockTablesAgree
  /\ NoLostWakeup
  /\ IdsHandedOut
  /\ WriterHoldsLock
  /\ WritersSerialized

\* The client's discipline seen from the server: a transaction that is worked on
\* is running, and has no second call in flight.
OneCallPerTransaction ==
  /\ \A c \in Call :
       calls[c].pc \in {"table", "lookup", "lock", "wait", "log"} => IsStarted(calls[c].tx)
  /\ \A c, d \in Call :
       c # d /\ calls[c].tx = calls[d].tx /\ calls[c].pc \notin {"idle", "done"} =>
         calls[d].pc \in {"idle", "done"}

\* What makes LockHolderActive inductive: an acquiring call's transaction is not
\* ended by another call of the same transaction in between.
LockHolderInv == SerialTransactions => OneCallPerTransaction /\ LockHolderActive

\* What makes LookupNotStale inductive: the version that was newest when the walk
\* began is still visible and still ahead of the iterator.
LookupInv ==
  /\ \A v, w \in versions : v.seq = w.seq => v = w
  /\ \A c \in Call : calls[c].pc \in {"table", "lookup"} => calls[c].result = 0
  /\ \A c \in Call : calls[c].pc \in {"lock", "wait", "log"} => calls[c].op # "lookup"
  /\ \A c \in Call : calls[c].pc = "lookup" /\ calls[c].floor # 0 =>
       \E v \in versions : /\ v.seq = calls[c].floor /\ v.seq < calls[c].cursor
                          /\ v.key = calls[c].key /\ Visible(v, calls[c].tx)
  /\ \A c \in Call : calls[c].pc \in {"commit", "done"} /\ calls[c].op = "lookup" =>
       /\ calls[c].result >= calls[c].floor
       /\ calls[c].result # 0 =>
            \E v \in versions : v.seq = calls[c].result /\ Visible(v, calls[c].tx)

\* README.md:17, "snapshot isolation": two reads of a key in one transaction that
\* did not write it return the same version.
SnapshotReads ==
  \A c, d \in Call :
    /\ calls[c].pc = "done" /\ calls[d].pc = "done"
    /\ calls[c].op = "lookup" /\ calls[d].op = "lookup"
    /\ calls[c].tx = calls[d].tx /\ calls[c].key = calls[d].key
    /\ \A v \in versions : v.key = calls[c].key => v.tx # calls[c].tx
    => calls[c].result = calls[d].result

\* The row belongs to a transaction a client began, who may keep it for ever.
HeldByClient(key) ==
  row_locks[key] # NoTx /\ \A c \in Call : calls[c].tx = row_locks[key] => ~calls[c].is_autocommit

\* database_test.cpp:319-321, a write that waits is resumed and completes: every call is
\* answered, or waits for a row that a client's transaction holds.
EveryCallAnswered ==
  \A c \in Call :
    calls[c].pc = "table" ~>
      (calls[c].pc = "done" \/ (calls[c].pc = "wait" /\ HeldByClient(calls[c].key)))
=============================================================================
