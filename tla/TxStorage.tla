----------------------------- MODULE TxStorage -----------------------------
(***************************************************************************)
(* transaction::Storage (src/server/transaction/storage.cpp): transaction  *)
(* ids and statuses and the row locks.  Every operation is synchronous up  *)
(* to its write-ahead-log write, so the operators below are the parts of   *)
(* the steps of the coroutines that call them (TransactionalTable).        *)
(*                                                                         *)
(* A missing entry of tx_status_ is "unknown", of row_locks_ is NoTx and   *)
(* of tx_locks_ is the empty set.  The waiters of lock_available_ are the  *)
(* callers that are suspended; the caller's module knows them.             *)
(***************************************************************************)
EXTENDS Naturals

CONSTANTS Key,       \* row keys; locks are by key, whatever the table
          MaxTx      \* bound: the largest transaction id handed out

\* Storage::kInitialTxId
kInitialTxId == 10

TxId == kInitialTxId..MaxTx

NoTx == 0

VARIABLES tx_status, next_tx_id, row_locks, tx_locks

txStorageVars == <<tx_status, next_tx_id, row_locks, tx_locks>>

Status == {"unknown", "started", "commited", "rollbacked"}

TxStorageInit ==
  /\ tx_status = [tx \in TxId |-> "unknown"]
  /\ next_tx_id = kInitialTxId
  /\ row_locks = [key \in Key |-> NoTx]
  /\ tx_locks = [tx \in TxId |-> {}]

-----------------------------------------------------------------------------
\* Mutant of Begin: the counter is incremented twice.
BeginTwice ==
  /\ next_tx_id <= MaxTx
  /\ tx_status' = [tx_status EXCEPT ![next_tx_id] = "started"]
  /\ next_tx_id' = next_tx_id + 2

\* Mutant of Begin: the counter is not incremented.
BeginSame ==
  /\ next_tx_id <= MaxTx
  /\ tx_status' = [tx_status EXCEPT ![next_tx_id] = "started"]
  /\ UNCHANGED next_tx_id

\* Begin hands out the next id.
Begin ==
  /\ next_tx_id <= MaxTx
  /\ tx_status' = [tx_status EXCEPT ![next_tx_id] = "started"]
  /\ next_tx_id' = next_tx_id + 1

IsStarted(tx) == tx_status[tx] = "started"

IsCommited(tx) == tx_status[tx] = "commited"

\* The first part of Commit: the status changes before the commit is logged and
\* before the locks are released.
MarkCommited(tx) == tx_status' = [tx_status EXCEPT ![tx] = "commited"]

\* The first part of Rollback.
MarkRollbacked(tx) == tx_status' = [tx_status EXCEPT ![tx] = "rollbacked"]

\* Mutant of RowIsFree: the lock of a transaction that has committed does not count,
\* although its commit is still being logged.
RowIsFreeCommited(key) == row_locks[key] \notin {tx \in TxId : ~IsCommited(tx)}

\* The predicate AcquireRowLock waits for.
RowIsFree(key) == row_locks[key] = NoTx

\* AcquireRowLock once the predicate holds.
RecordRowLock(tx, key) ==
  /\ row_locks' = [row_locks EXCEPT ![key] = tx]
  /\ tx_locks' = [tx_locks EXCEPT ![tx] = @ \cup {key}]

\* Mutant of ReleaseAllLocks: the entry of tx_locks_ is not erased.
ReleaseAllLocksNoErase(tx) ==
  /\ row_locks' = [key \in Key |->
       IF key \in tx_locks[tx] /\ row_locks[key] = tx THEN NoTx ELSE row_locks[key]]
  /\ UNCHANGED tx_locks

\* ReleaseAllLocks: only rows still held by tx are freed.
ReleaseAllLocks(tx) ==
  /\ row_locks' = [key \in Key |->
       IF key \in tx_locks[tx] /\ row_locks[key] = tx THEN NoTx ELSE row_locks[key]]
  /\ tx_locks' = [tx_locks EXCEPT ![tx] = {}]

\* Mutant of ReleaseNotifies: the early return is taken when there are locks.
ReleaseNotifiesInverted(tx) == tx_locks[tx] = {}

\* lock_available_.NotifyAll is reached only if tx held locks.
ReleaseNotifies(tx) == tx_locks[tx] # {}
=============================================================================
