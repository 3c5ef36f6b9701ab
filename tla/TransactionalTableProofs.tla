---------------------- MODULE TransactionalTableProofs ----------------------
(***************************************************************************)
(* Proofs about the row locks and the lookups of TransactionalTable, for   *)
(* any keys, any number of concurrent calls, any number of transactions,   *)
(* and clients that may or may not run several calls of a transaction at   *)
(* once.                                                                   *)
(***************************************************************************)
EXTENDS TransactionalTable, Laws, TLAPS

\* NoTx is no transaction id.
LEMMA NoTxFact == NoTx \notin TxId /\ TxId \subseteq Nat
  BY TransactionalTableAssumption DEF NoTx, TxId, kInitialTxId

\* Before the first call nothing is locked and nobody waits.
LEMMA InitInv == TableInit => TableInv
<1> SUFFICES ASSUME TableInit PROVE TableInv
  OBVIOUS
<1> USE TransactionalTableAssumption DEF TableInit, TxStorageInit, Idle
<1>1. TableTypeOK
  BY DEF TableTypeOK, Calls, Status, kInitialTxId
<1>2. LockTablesAgree
  BY NoTxFact DEF LockTablesAgree
<1>3. NoLostWakeup /\ IdsHandedOut /\ WriterHoldsLock /\ WritersSerialized
  BY DEF NoLostWakeup, IdsHandedOut, WriterHoldsLock, WritersSerialized
<1> QED BY <1>1, <1>2, <1>3 DEF TableInv

\* The number a Lookup starts from is the number of a version it can see or zero.
LEMMA NewestVisibleType ==
  ASSUME Laws, TableInv, NEW key \in Key, NEW tx \in TxId
  PROVE  /\ NewestVisible(key, tx) \in Nat
         /\ NewestVisible(key, tx) # 0 =>
              \E v \in versions : /\ v.seq = NewestVisible(key, tx)
                                 /\ v.key = key /\ Visible(v, tx)
<1> DEFINE seen == {v.seq : v \in {w \in versions : w.key = key /\ Visible(w, tx)}}
           S == seen \cup {0}
<1>1. S \in SUBSET Nat /\ S # {} /\ next_seq_no \in Nat
  BY DEF TableInv, TableTypeOK, Version
<1>2. \A s \in S : s <= next_seq_no
  BY <1>1 DEF TableInv, IdsHandedOut, TableTypeOK, Version
<1>3. \E m \in S : \A s \in S : s <= m
  <2> HIDE DEF S
  <2> QED BY <1>1, <1>2, Zenon DEF Laws, MaxLaw
<1>4. \E n \in seen \cup {0} : \A m \in seen : m <= n
  BY <1>3
<1>5. NewestVisible(key, tx) = CHOOSE n \in seen \cup {0} : \A m \in seen : m <= n
  BY DEF NewestVisible
<1>6. NewestVisible(key, tx) \in seen \cup {0}
  <2> HIDE DEF seen
  <2> QED BY <1>4, <1>5
<1>7. NewestVisible(key, tx) \in seen =>
        \E v \in versions : /\ v.seq = NewestVisible(key, tx)
                           /\ v.key = key /\ Visible(v, tx)
  <2> HIDE DEF NewestVisible, Visible
  <2> QED OBVIOUS
<1> HIDE DEF seen, NewestVisible
<1> QED BY <1>1, <1>6, <1>7

-----------------------------------------------------------------------------
\* The calls keep their type when single fields change.
LEMMA CallType ==
  ASSUME TableTypeOK, NEW c \in Call
  PROVE  /\ calls[c] \in Calls
         /\ calls[c].pc \in {"idle", "table", "lookup", "lock", "wait", "log", "commit", "done"}
         /\ calls[c].tx \in TxId \cup {NoTx}
         /\ calls[c].key \in Key \cup {"none"}
  BY DEF TableTypeOK, Calls

\* Every step keeps the types.
LEMMA TypeStep ==
  ASSUME Laws, TableInv, [TableNext]_tableVars PROVE TableTypeOK'
<1> USE TransactionalTableAssumption DEF TableInv
<1>0. next_tx_id \in Nat /\ (next_tx_id <= MaxTx => next_tx_id \in TxId)
  BY DEF TableTypeOK, TxId, kInitialTxId
<1>b. ASSUME Begin
      PROVE  /\ tx_status' \in [TxId -> Status]
             /\ next_tx_id' \in kInitialTxId..(MaxTx + 1)
  BY <1>b, <1>0 DEF Begin, TableTypeOK, Status, kInitialTxId
<1>m. ASSUME NEW tx \in TxId, MarkCommited(tx) \/ MarkRollbacked(tx)
      PROVE  tx_status' \in [TxId -> Status]
  BY <1>m DEF MarkCommited, MarkRollbacked, TableTypeOK, Status
<1>f. ASSUME NEW c \in Call, calls[c].pc # "idle", FinishStatus(c)
      PROVE  tx_status' \in [TxId -> Status]
  BY <1>f DEF FinishStatus, MarkCommited, IdsHandedOut, TableTypeOK, Status
<1>p. \A c \in Call : FinishPc(c) \in {"commit", "done"}
  BY DEF FinishPc
<1>r. ASSUME NEW tx \in TxId, ReleaseAllLocks(tx)
      PROVE  /\ row_locks' \in [Key -> TxId \cup {NoTx}]
             /\ tx_locks' \in [TxId -> SUBSET Key]
  BY <1>r DEF ReleaseAllLocks, TableTypeOK
<1>w. ASSUME NEW tx \in TxId PROVE Woken(tx) \in [Call -> Calls]
  <2>1. ASSUME NEW c \in Call PROVE [calls[c] EXCEPT !.pc = "lock"] \in Calls
    BY CallType DEF Calls
  <2> QED BY <2>1, CallType DEF Woken
<1>1. CASE BeginTransaction
  BY <1>1, <1>b DEF BeginTransaction, TableTypeOK
<1>2. ASSUME NEW c \in Call, NEW op \in Ops \cap {"upsert", "lookup", "delete"},
             NEW key \in Key, StartAutocommit(c, op, key)
      PROVE  TableTypeOK'
  <2>1. calls' \in [Call -> Calls]
    BY <1>2, <1>0, Zenon DEF StartAutocommit, Begin, Idle, Calls, TableTypeOK
  <2> QED BY <1>2, <1>b, <2>1 DEF StartAutocommit, TableTypeOK
<1>3. ASSUME NEW c \in Call, NEW op \in Ops \cap {"upsert", "lookup", "delete"},
             NEW key \in Key, NEW tx \in TxId, StartInTransaction(c, op, key, tx)
      PROVE  TableTypeOK'
  <2>1. calls' \in [Call -> Calls]
    BY <1>3, Zenon DEF StartInTransaction, Idle, Calls, TableTypeOK
  <2> QED BY <1>3, <2>1 DEF StartInTransaction, TableTypeOK
<1>4. ASSUME NEW c \in Call, NEW tx \in TxId, StartCommit(c, tx) PROVE TableTypeOK'
  <2>1. calls' \in [Call -> Calls]
    BY <1>4, Zenon DEF StartCommit, Idle, Calls, TableTypeOK
  <2> QED BY <1>4, <1>m, <2>1 DEF StartCommit, TableTypeOK
<1>5. ASSUME NEW c \in Call, Answered(c) PROVE TableTypeOK'
  <2>1. calls' \in [Call -> Calls]
    BY <1>5 DEF Answered, Idle, Calls, TableTypeOK
  <2> QED BY <1>5, <2>1 DEF Answered, TableTypeOK
<1>6. ASSUME NEW tx \in TxId, Rollback(tx) PROVE TableTypeOK'
  BY <1>6, <1>m, <1>r, <1>w DEF Rollback, TableTypeOK
<1>7. ASSUME NEW c \in Call, TableFound(c) PROVE TableTypeOK'
  <2>1. NewestVisible(calls[c].key, calls[c].tx) \in Nat
    BY <1>7, NewestVisibleType DEF TableFound, IdsHandedOut
  <2>2. calls' \in [Call -> Calls]
    <3>1. CASE calls[c].op = "upsert"
      BY <1>7, <3>1 DEF TableFound, Calls, TableTypeOK
    <3>2. CASE calls[c].op # "upsert"
      <4> DEFINE f == NewestVisible(calls[c].key, calls[c].tx)
      <4> DEFINE g == [calls[c] EXCEPT !.pc = "lookup", !.cursor = next_seq_no, !.floor = f]
      <4>1. calls' = [calls EXCEPT ![c] = g]
        BY <1>7, <3>2 DEF TableFound
      <4>2. f \in Nat /\ calls[c] \in Calls /\ next_seq_no \in Nat
        BY <2>1 DEF TableTypeOK
      <4> HIDE DEF f
      <4>3. g \in Calls
        BY <4>2, Zenon DEF Calls
      <4> HIDE DEF g
      <4> QED BY <4>1, <4>3 DEF TableTypeOK
    <3> QED BY <3>1, <3>2
  <2> QED BY <1>7, <2>2 DEF TableFound, TableTypeOK
<1>8. ASSUME NEW c \in Call, LookupSkip(c) PROVE TableTypeOK'
  <2>1. calls' \in [Call -> Calls]
    BY <1>8 DEF LookupSkip, Calls, TableTypeOK, Version
  <2> QED BY <1>8, <2>1 DEF LookupSkip, TableTypeOK
<1>9. ASSUME NEW c \in Call, LookupFound(c) PROVE TableTypeOK'
  <2>1. calls' \in [Call -> Calls]
    BY <1>9, <1>p DEF LookupFound, Calls, TableTypeOK, Version
  <2>2. tx_status' \in [TxId -> Status]
    BY <1>9, <1>f DEF LookupFound, TableTypeOK
  <2> QED BY <1>9, <2>1, <2>2 DEF LookupFound, TableTypeOK
<1>10. ASSUME NEW c \in Call, LookupNotFound(c) PROVE TableTypeOK'
  <2>1. calls' \in [Call -> Calls]
    BY <1>10, <1>p DEF LookupNotFound, Calls, TableTypeOK
  <2> QED BY <1>10, <1>f, <2>1 DEF LookupNotFound, TableTypeOK
<1>11. ASSUME NEW c \in Call, WaitForRow(c) PROVE TableTypeOK'
  <2>1. calls' \in [Call -> Calls]
    BY <1>11 DEF WaitForRow, Calls, TableTypeOK
  <2> QED BY <1>11, <2>1 DEF WaitForRow, TableTypeOK
<1>12. ASSUME NEW c \in Call, AcquireAndPut(c) PROVE TableTypeOK'
  <2>1. calls' \in [Call -> Calls]
    BY <1>12 DEF AcquireAndPut, Calls, TableTypeOK
  <2>2. calls[c].tx \in TxId /\ calls[c].key \in Key
    BY <1>12 DEF AcquireAndPut, IdsHandedOut
  <2>3. /\ row_locks' \in [Key -> TxId \cup {NoTx}]
        /\ tx_locks' \in [TxId -> SUBSET Key]
    BY <1>12, <2>2 DEF AcquireAndPut, RecordRowLock, TableTypeOK
  <2>4. versions' \subseteq Version /\ next_seq_no' \in Nat
    <3> DEFINE v == [seq |-> next_seq_no, key |-> calls[c].key, tx |-> calls[c].tx,
                     is_deleted |-> calls[c].op = "delete"]
    <3>1. (calls[c].op = "delete") \in BOOLEAN
      OBVIOUS
    <3>2. v \in Version
      BY <2>2, <3>1 DEF Version, TableTypeOK
    <3>3. versions' = versions \cup {v} /\ next_seq_no' = next_seq_no + 1
      BY <1>12 DEF AcquireAndPut
    <3> HIDE DEF v
    <3> QED BY <3>2, <3>3 DEF TableTypeOK
  <2> QED BY <1>12, <2>1, <2>3, <2>4 DEF AcquireAndPut, TableTypeOK
<1>13. ASSUME NEW c \in Call, Logged(c) PROVE TableTypeOK'
  <2>1. calls' \in [Call -> Calls]
    BY <1>13, <1>p DEF Logged, Calls, TableTypeOK
  <2> QED BY <1>13, <1>f, <2>1 DEF Logged, TableTypeOK
<1>14. ASSUME NEW c \in Call, CommitLogged(c) PROVE TableTypeOK'
  <2>1. calls[c].tx \in TxId
    BY <1>14 DEF CommitLogged, IdsHandedOut
  <2>2. calls' \in [Call -> Calls]
    <3> DEFINE woken == Woken(calls[c].tx)
    <3>1. woken \in [Call -> Calls]
      BY <1>w, <2>1
    <3>2. calls' = [woken EXCEPT ![c].pc = "done"]
      BY <1>14 DEF CommitLogged
    <3> HIDE DEF woken
    <3>3. [woken[c] EXCEPT !.pc = "done"] \in Calls
      BY <3>1 DEF Calls
    <3> QED BY <3>1, <3>2, <3>3
  <2> QED BY <1>14, <1>r, <2>1, <2>2 DEF CommitLogged, TableTypeOK
<1>15. CASE UNCHANGED tableVars
  BY <1>15 DEF tableVars, TableTypeOK
<1> QED
  BY <1>1, <1>2, <1>3, <1>4, <1>5, <1>6, <1>7, <1>8, <1>9, <1>10, <1>11, <1>12, <1>13,
     <1>14, <1>15 DEF TableNext, ClientStep, CallStep

-----------------------------------------------------------------------------
\* Every step keeps the two lock tables in agreement.
LEMMA LockTablesStep ==
  ASSUME TableInv, [TableNext]_tableVars PROVE LockTablesAgree'
<1> USE DEF TableInv
<1>1. ASSUME UNCHANGED <<row_locks, tx_locks>> PROVE LockTablesAgree'
  BY <1>1 DEF LockTablesAgree
<1>2. ASSUME NEW tx \in TxId, ReleaseAllLocks(tx) PROVE LockTablesAgree'
  BY <1>2, NoTxFact DEF ReleaseAllLocks, LockTablesAgree, TableTypeOK
<1>3. ASSUME NEW c \in Call, AcquireAndPut(c) PROVE LockTablesAgree'
  <2>1. calls[c].tx \in TxId /\ calls[c].key \in Key
    BY <1>3 DEF AcquireAndPut, IdsHandedOut
  <2>2. \A tx \in TxId : calls[c].key \notin tx_locks[tx]
    BY <1>3, <2>1, NoTxFact DEF AcquireAndPut, RowIsFree, LockTablesAgree
  <2> QED BY <1>3, <2>1, <2>2 DEF AcquireAndPut, RecordRowLock, LockTablesAgree, TableTypeOK
<1>4. ASSUME NEW c \in Call, CommitLogged(c) PROVE LockTablesAgree'
  <2>1. calls[c].tx \in TxId
    BY <1>4 DEF CommitLogged, IdsHandedOut
  <2> QED BY <1>2, <1>4, <2>1 DEF CommitLogged
<1>5. ASSUME NEW tx \in TxId, Rollback(tx) PROVE LockTablesAgree'
  BY <1>2, <1>5 DEF Rollback
<1>6. ASSUME NEW c \in Call, CallStep(c), ~AcquireAndPut(c), ~CommitLogged(c)
      PROVE  LockTablesAgree'
  BY <1>1, <1>6 DEF CallStep, TableFound, LookupSkip, LookupFound, LookupNotFound,
                    WaitForRow, Logged
<1>7. ASSUME ClientStep, ~\E tx \in TxId : Rollback(tx) PROVE LockTablesAgree'
  BY <1>1, <1>7, Zenon DEF ClientStep, BeginTransaction, StartAutocommit, StartInTransaction,
                    StartCommit, Answered
<1>8. CASE UNCHANGED tableVars
  BY <1>1, <1>8 DEF tableVars
<1> QED BY <1>3, <1>4, <1>5, <1>6, <1>7, <1>8 DEF TableNext

\* A release that frees a row wakes every caller.
LEMMA ReleaseWakes ==
  ASSUME TableInv, NEW tx \in TxId, ReleaseAllLocks(tx), NEW c \in Call,
         Woken(tx)[c].pc = "wait"
  PROVE  /\ calls[c].pc = "wait" /\ Woken(tx)[c].key = calls[c].key
         /\ row_locks'[calls[c].key] # NoTx
<1>1. calls[c] \in Calls
  BY CallType DEF TableInv
<1>2. calls[c].pc = "wait" /\ ~ReleaseNotifies(tx) /\ Woken(tx)[c] = calls[c]
  BY <1>1 DEF Woken, Calls
<1>3. calls[c].key \in Key /\ row_locks[calls[c].key] # NoTx
  BY <1>2 DEF TableInv, IdsHandedOut, NoLostWakeup, RowIsFree
<1>4. row_locks'[calls[c].key] = row_locks[calls[c].key]
  BY <1>2, <1>3 DEF ReleaseAllLocks, ReleaseNotifies
<1> QED BY <1>2, <1>3, <1>4

\* Every step keeps the waiting callers waiting for held rows.
LEMMA NoLostWakeupStep ==
  ASSUME TableInv, [TableNext]_tableVars PROVE NoLostWakeup'
<1> USE DEF TableInv
<1>1. ASSUME UNCHANGED row_locks,
             \A c \in Call : calls'[c].pc = "wait" =>
               calls[c].pc = "wait" /\ calls'[c].key = calls[c].key
      PROVE  NoLostWakeup'
  BY <1>1 DEF NoLostWakeup, RowIsFree
<1>2. ASSUME NEW c \in Call, WaitForRow(c) PROVE NoLostWakeup'
  BY <1>2 DEF WaitForRow, NoLostWakeup, RowIsFree, TableTypeOK
<1>3. ASSUME NEW c \in Call, AcquireAndPut(c) PROVE NoLostWakeup'
  <2>1. calls[c].tx \in TxId /\ calls[c].key \in Key
    BY <1>3 DEF AcquireAndPut, IdsHandedOut
  <2>2. ASSUME NEW d \in Call, calls'[d].pc = "wait"
        PROVE  calls[d].pc = "wait" /\ calls'[d].key = calls[d].key /\ calls[d].key \in Key
    BY <1>3, <2>2 DEF AcquireAndPut, TableTypeOK, IdsHandedOut
  <2>3. \A key \in Key : row_locks[key] # NoTx => row_locks'[key] # NoTx
    BY <1>3, <2>1, NoTxFact DEF AcquireAndPut, RecordRowLock, TableTypeOK
  <2> QED BY <2>2, <2>3 DEF NoLostWakeup, RowIsFree
<1>4. ASSUME NEW c \in Call, CommitLogged(c) PROVE NoLostWakeup'
  <2>1. calls[c].tx \in TxId
    BY <1>4 DEF CommitLogged, IdsHandedOut
  <2>2. ASSUME NEW d \in Call, calls'[d].pc = "wait" PROVE calls'[d] = Woken(calls[c].tx)[d]
    BY <1>4, <2>2 DEF CommitLogged, Woken
  <2>3. ASSUME NEW d \in Call, calls'[d].pc = "wait" PROVE row_locks'[calls'[d].key] # NoTx
    BY <1>4, <2>1, <2>2, <2>3, ReleaseWakes DEF CommitLogged
  <2> QED BY <2>3 DEF NoLostWakeup, RowIsFree
<1>5. ASSUME NEW tx \in TxId, Rollback(tx) PROVE NoLostWakeup'
  <2>1. ASSUME NEW d \in Call, calls'[d].pc = "wait" PROVE row_locks'[calls'[d].key] # NoTx
    BY <1>5, <2>1, ReleaseWakes DEF Rollback
  <2> QED BY <2>1 DEF NoLostWakeup, RowIsFree
<1>6. ASSUME NEW c \in Call,
             TableFound(c) \/ LookupSkip(c) \/ LookupFound(c) \/ LookupNotFound(c) \/ Logged(c)
      PROVE  NoLostWakeup'
  <2>1. \A d \in Call : calls'[d].pc = "wait" =>
          calls[d].pc = "wait" /\ calls'[d].key = calls[d].key
    <3>1. FinishPc(c) # "wait"
      BY DEF FinishPc
    <3>2. CASE TableFound(c)
      BY <3>2 DEF TableFound, TableTypeOK
    <3>3. CASE LookupSkip(c)
      BY <3>3 DEF LookupSkip, TableTypeOK
    <3>p. ASSUME NEW p, p # "wait", NEW n \in Nat,
                 \/ calls' = [calls EXCEPT ![c].pc = p]
                 \/ calls' = [calls EXCEPT ![c].pc = p, ![c].result = n]
          PROVE  \A d \in Call : calls'[d].pc = "wait" =>
                   calls[d].pc = "wait" /\ calls'[d].key = calls[d].key
      BY <3>p DEF TableTypeOK, Calls
    <3>4. CASE LookupFound(c)
      <4>1. PICK v \in versions :
              \/ calls' = [calls EXCEPT ![c].pc = "lock", ![c].result = v.seq]
              \/ calls' = [calls EXCEPT ![c].pc = FinishPc(c), ![c].result = v.seq]
        BY <3>4 DEF LookupFound
      <4>2. v.seq \in Nat
        BY DEF TableTypeOK, Version
      <4> QED BY <3>1, <3>p, <4>1, <4>2
    <3>5. CASE LookupNotFound(c) \/ Logged(c)
      <4>1. calls' = [calls EXCEPT ![c].pc = FinishPc(c)]
        BY <3>5 DEF LookupNotFound, Logged
      <4> QED BY <3>1, <3>p, <4>1
    <3> QED BY <1>6, <3>2, <3>3, <3>4, <3>5
  <2>2. UNCHANGED row_locks
    BY <1>6 DEF TableFound, LookupSkip, LookupFound, LookupNotFound, Logged
  <2> QED BY <1>1, <2>1, <2>2
<1>7. ASSUME ClientStep, ~\E tx \in TxId : Rollback(tx) PROVE NoLostWakeup'
  <2>1. UNCHANGED row_locks
    BY <1>7, Zenon DEF ClientStep, BeginTransaction, StartAutocommit, StartInTransaction,
                StartCommit, Answered
  <2>2. CASE BeginTransaction
    BY <1>1, <2>2 DEF BeginTransaction
  <2>3. ASSUME NEW c \in Call, NEW g, g.pc # "wait", calls' = [calls EXCEPT ![c] = g]
        PROVE  NoLostWakeup'
    BY <1>1, <2>1, <2>3 DEF TableTypeOK
  <2>4. ASSUME NEW c \in Call, NEW op \in Ops, NEW key \in Key,
               \/ StartAutocommit(c, op, key)
               \/ \E tx \in TxId : StartInTransaction(c, op, key, tx)
        PROVE  NoLostWakeup'
    BY <2>3, <2>4, Zenon DEF StartAutocommit, StartInTransaction, Idle
  <2>5. ASSUME NEW c \in Call, NEW tx \in TxId, StartCommit(c, tx) PROVE NoLostWakeup'
    BY <2>3, <2>5, Zenon DEF StartCommit, Idle
  <2>6. ASSUME NEW c \in Call, Answered(c) PROVE NoLostWakeup'
    BY <2>3, <2>6, Zenon DEF Answered, Idle
  <2> QED BY <1>7, <2>2, <2>4, <2>5, <2>6 DEF ClientStep
<1>8. CASE UNCHANGED tableVars
  BY <1>1, <1>8 DEF tableVars
<1> QED BY <1>2, <1>3, <1>4, <1>5, <1>6, <1>7, <1>8 DEF TableNext, CallStep

-----------------------------------------------------------------------------
\* A status changes only from unknown (Begin) or started (Commit, Rollback), so
\* what has ended stays ended and what has not begun is not committed.
LEMMA StatusStep ==
  ASSUME TableInv, [TableNext]_tableVars, NEW tx \in TxId
  PROVE  /\ tx_status'[tx] = "started" /\ ~IsStarted(tx) => tx = next_tx_id
         /\ IsCommited(tx) => tx_status'[tx] = "commited"
         /\ tx >= next_tx_id' => tx_status'[tx] = "unknown"
         /\ next_tx_id <= next_tx_id' /\ next_tx_id' \in Nat
<1> USE TransactionalTableAssumption DEF TableInv
<1>0. next_tx_id \in Nat /\ tx \in Nat
  BY NoTxFact DEF TableTypeOK, kInitialTxId
<1>1. CASE Begin
  BY <1>0, <1>1 DEF Begin, IdsHandedOut, TableTypeOK, IsStarted, IsCommited
<1>2. CASE UNCHANGED <<tx_status, next_tx_id>>
  BY <1>0, <1>2 DEF IdsHandedOut, TableTypeOK, IsStarted, IsCommited
<1>3. ASSUME NEW t \in TxId, t < next_tx_id, MarkCommited(t), UNCHANGED next_tx_id
      PROVE  /\ tx_status'[tx] = "started" /\ ~IsStarted(tx) => tx = next_tx_id
             /\ IsCommited(tx) => tx_status'[tx] = "commited"
             /\ tx >= next_tx_id' => tx_status'[tx] = "unknown"
             /\ next_tx_id <= next_tx_id' /\ next_tx_id' \in Nat
  BY <1>0, <1>3, NoTxFact DEF MarkCommited, IdsHandedOut, TableTypeOK, IsStarted, IsCommited
<1>4. ASSUME NEW c \in Call, calls[c].pc # "idle", FinishStatus(c), UNCHANGED next_tx_id
      PROVE  /\ tx_status'[tx] = "started" /\ ~IsStarted(tx) => tx = next_tx_id
             /\ IsCommited(tx) => tx_status'[tx] = "commited"
             /\ tx >= next_tx_id' => tx_status'[tx] = "unknown"
             /\ next_tx_id <= next_tx_id' /\ next_tx_id' \in Nat
  BY <1>2, <1>3, <1>4 DEF FinishStatus, IdsHandedOut
<1>5. ASSUME NEW t \in TxId, MayUse(t) PROVE t < next_tx_id
  BY <1>0, <1>5, NoTxFact DEF MayUse, IsStarted, IdsHandedOut
<1>6. ASSUME NEW t \in TxId, Rollback(t)
      PROVE  /\ tx_status'[tx] = "started" /\ ~IsStarted(tx) => tx = next_tx_id
             /\ IsCommited(tx) => tx_status'[tx] = "commited"
             /\ tx >= next_tx_id' => tx_status'[tx] = "unknown"
             /\ next_tx_id <= next_tx_id' /\ next_tx_id' \in Nat
  BY <1>0, <1>5, <1>6, NoTxFact DEF Rollback, MarkRollbacked, MayUse, IdsHandedOut,
                                   TableTypeOK, IsStarted, IsCommited
<1>7. CASE ClientStep
  <2>1. CASE Begin
    BY <1>1, <2>1
  <2>2. CASE \E c \in Call, t \in TxId : StartCommit(c, t)
    BY <1>3, <1>5, <2>2 DEF StartCommit
  <2>3. CASE \E t \in TxId : Rollback(t)
    BY <1>6, <2>3
  <2> QED BY <1>2, <1>7, <2>1, <2>2, <2>3, Zenon
          DEF ClientStep, BeginTransaction, StartAutocommit, StartInTransaction, Answered
<1>8. ASSUME NEW c \in Call, CallStep(c)
      PROVE  /\ tx_status'[tx] = "started" /\ ~IsStarted(tx) => tx = next_tx_id
             /\ IsCommited(tx) => tx_status'[tx] = "commited"
             /\ tx >= next_tx_id' => tx_status'[tx] = "unknown"
             /\ next_tx_id <= next_tx_id' /\ next_tx_id' \in Nat
  <2>1. CASE LookupFound(c) \/ LookupNotFound(c) \/ Logged(c)
    BY <1>2, <1>4, <2>1 DEF LookupFound, LookupNotFound, Logged
  <2> QED BY <1>2, <1>8, <2>1
          DEF CallStep, TableFound, LookupSkip, WaitForRow, AcquireAndPut, CommitLogged
<1>9. CASE UNCHANGED tableVars
  BY <1>2, <1>9 DEF tableVars
<1> QED BY <1>7, <1>8, <1>9 DEF TableNext

\* Only AcquireAndPut adds a version, and no step removes one.
LEMMA VersionsStep ==
  ASSUME TableInv, [TableNext]_tableVars
  PROVE  \/ UNCHANGED <<versions, next_seq_no>>
         \/ \E c \in Call : AcquireAndPut(c)
<1>1. CASE ClientStep
  BY <1>1, Zenon DEF ClientStep, BeginTransaction, StartAutocommit, StartInTransaction,
              StartCommit, Answered, Rollback
<1>2. ASSUME NEW c \in Call, CallStep(c), ~AcquireAndPut(c)
      PROVE  UNCHANGED <<versions, next_seq_no>>
  BY <1>2 DEF CallStep, TableFound, LookupSkip, LookupFound, LookupNotFound,
              WaitForRow, Logged, CommitLogged
<1> QED BY <1>1, <1>2 DEF TableNext, tableVars

\* Every step keeps the locks of the uncommitted versions: the only releases are
\* those of a transaction that has already ended.
LEMMA WriterHoldsLockStep ==
  ASSUME TableInv, [TableNext]_tableVars PROVE WriterHoldsLock'
<1> USE TransactionalTableAssumption DEF TableInv
<1>1. ASSUME NEW v \in versions, tx_status'[v.tx] = "started"
      PROVE  row_locks[v.key] = v.tx /\ v.tx \in TxId /\ v.key \in Key
  <2>1. v.tx \in TxId /\ v.key \in Key /\ v.tx < next_tx_id /\ next_tx_id \in Nat
    BY DEF TableTypeOK, Version, IdsHandedOut, kInitialTxId
  <2>2. tx_status'[v.tx] = "started" /\ ~IsStarted(v.tx) => v.tx = next_tx_id
    BY ONLY TableInv, [TableNext]_tableVars, <2>1, StatusStep
  <2>3. IsStarted(v.tx)
    BY <1>1, <2>1, <2>2, NoTxFact
  <2> QED BY <2>1, <2>3 DEF WriterHoldsLock
<1>2. CASE UNCHANGED <<row_locks, versions>>
  BY <1>1, <1>2 DEF WriterHoldsLock, IsStarted
<1>3. ASSUME NEW c \in Call, AcquireAndPut(c) PROVE WriterHoldsLock'
  <2> DEFINE new == [seq |-> next_seq_no, key |-> calls[c].key, tx |-> calls[c].tx,
                     is_deleted |-> calls[c].op = "delete"]
  <2>1. calls[c].key \in Key /\ row_locks[calls[c].key] = NoTx
    BY <1>3 DEF AcquireAndPut, IdsHandedOut, RowIsFree
  <2>2. row_locks' = [row_locks EXCEPT ![calls[c].key] = calls[c].tx]
    BY <1>3 DEF AcquireAndPut, RecordRowLock
  <2>3. versions' = versions \cup {new} /\ new.key = calls[c].key /\ new.tx = calls[c].tx
    BY <1>3 DEF AcquireAndPut
  <2>4. ASSUME NEW v \in versions, tx_status'[v.tx] = "started"
        PROVE  row_locks'[v.key] = v.tx
    BY <1>1, <2>1, <2>2, <2>4, NoTxFact DEF TableTypeOK
  <2>5. row_locks'[new.key] = new.tx
    BY <2>1, <2>2, <2>3 DEF TableTypeOK
  <2> HIDE DEF new
  <2> QED BY <2>3, <2>4, <2>5 DEF WriterHoldsLock, IsStarted
<1>4. ASSUME NEW tx \in TxId, ReleaseAllLocks(tx), tx_status'[tx] # "started",
             UNCHANGED versions
      PROVE  WriterHoldsLock'
  BY <1>1, <1>4 DEF ReleaseAllLocks, WriterHoldsLock, IsStarted
<1>5. ASSUME NEW c \in Call, CommitLogged(c) PROVE WriterHoldsLock'
  <2>1. calls[c].tx \in TxId /\ IsCommited(calls[c].tx)
    BY <1>5 DEF CommitLogged, IdsHandedOut
  <2> QED BY <1>4, <1>5, <2>1, StatusStep DEF CommitLogged
<1>6. ASSUME NEW tx \in TxId, Rollback(tx) PROVE WriterHoldsLock'
  BY <1>4, <1>6 DEF Rollback, MarkRollbacked, TableTypeOK
<1>7. CASE ClientStep
  BY <1>2, <1>6, <1>7, Zenon DEF ClientStep, BeginTransaction, StartAutocommit,
                         StartInTransaction, StartCommit, Answered
<1>8. ASSUME NEW c \in Call, CallStep(c) PROVE WriterHoldsLock'
  BY <1>2, <1>3, <1>5, <1>8 DEF CallStep, TableFound, LookupSkip, LookupFound,
                               LookupNotFound, WaitForRow, Logged
<1> QED BY <1>2, <1>7, <1>8 DEF TableNext, tableVars

\* Every step keeps the writers of a key serialized: the row is free when a
\* version is put, so no uncommitted version lies below it.
LEMMA WritersSerializedStep ==
  ASSUME TableInv, [TableNext]_tableVars PROVE WritersSerialized'
<1> USE TransactionalTableAssumption DEF TableInv
<1>1. ASSUME NEW v \in versions PROVE tx_status'[v.tx] = "started" => IsStarted(v.tx)
  <2>1. v.tx \in TxId /\ v.tx < next_tx_id /\ next_tx_id \in Nat
    BY DEF TableTypeOK, Version, IdsHandedOut, kInitialTxId
  <2>2. tx_status'[v.tx] = "started" /\ ~IsStarted(v.tx) => v.tx = next_tx_id
    BY ONLY TableInv, [TableNext]_tableVars, <2>1, StatusStep
  <2> QED BY <2>1, <2>2, NoTxFact
<1>2. CASE UNCHANGED versions
  BY <1>1, <1>2 DEF WritersSerialized, IsStarted
<1>3. ASSUME NEW c \in Call, AcquireAndPut(c) PROVE WritersSerialized'
  <2> DEFINE new == [seq |-> next_seq_no, key |-> calls[c].key, tx |-> calls[c].tx,
                     is_deleted |-> calls[c].op = "delete"]
  <2>1. versions' = versions \cup {new} /\ new.key = calls[c].key /\ new.seq = next_seq_no
    BY <1>3 DEF AcquireAndPut
  <2>2. ASSUME NEW v \in versions, v.key = new.key PROVE ~IsStarted(v.tx)
    <3>1. v.tx \in TxId
      BY DEF TableTypeOK, Version
    <3> QED BY <1>3, <2>1, <2>2, <3>1, NoTxFact DEF AcquireAndPut, RowIsFree, WriterHoldsLock
  <2>3. ASSUME NEW v \in versions PROVE v.seq \in Nat /\ v.seq < next_seq_no /\ next_seq_no \in Nat
    BY DEF IdsHandedOut, TableTypeOK, Version
  <2> HIDE DEF new
  <2>4. ASSUME NEW v \in versions', NEW w \in versions', v.key = w.key, v.seq < w.seq, v.tx # w.tx
        PROVE  tx_status'[v.tx] # "started"
    <3>1. CASE v \in versions /\ w \in versions
      BY <1>1, <2>4, <3>1 DEF WritersSerialized
    <3>2. CASE v \in versions /\ w = new
      BY <1>1, <2>2, <2>4, <3>2
    <3>3. CASE v = new /\ w \in versions
      BY <2>1, <2>3, <2>4, <3>3
    <3> QED BY <2>1, <2>4, <3>1, <3>2, <3>3
  <2> QED BY <2>4 DEF WritersSerialized, IsStarted
<1> QED BY <1>2, <1>3, VersionsStep

\* Every step uses only ids that were handed out.
LEMMA IdsStep ==
  ASSUME TableInv, [TableNext]_tableVars PROVE IdsHandedOut'
<1> USE TransactionalTableAssumption DEF TableInv
<1>0. next_tx_id \in Nat /\ next_seq_no \in Nat
  BY DEF TableTypeOK, kInitialTxId
<1>1. /\ next_tx_id' \in Nat /\ next_tx_id <= next_tx_id'
      /\ \A tx \in TxId : tx >= next_tx_id' => tx_status'[tx] = "unknown"
      /\ \A tx \in TxId : IsCommited(tx) => tx_status'[tx] = "commited"
  <2>1. kInitialTxId \in TxId
    BY DEF TxId, kInitialTxId
  <2> QED BY ONLY TableInv, [TableNext]_tableVars, <2>1, StatusStep
<1>2. \A v \in versions' : v.tx < next_tx_id' /\ v.seq < next_seq_no'
  <2>1. \A v \in versions : v.tx \in Nat /\ v.seq \in Nat
    BY NoTxFact, Zenon DEF TableTypeOK, Version
  <2>2. CASE UNCHANGED <<versions, next_seq_no>>
    BY <1>0, <1>1, <2>1, <2>2 DEF IdsHandedOut
  <2>3. ASSUME NEW c \in Call, AcquireAndPut(c)
        PROVE  \A v \in versions' : v.tx < next_tx_id' /\ v.seq < next_seq_no'
    <3>1. calls[c].tx \in Nat /\ calls[c].tx < next_tx_id
      BY <2>3, NoTxFact DEF AcquireAndPut, IdsHandedOut
    <3> QED BY <1>0, <1>1, <2>1, <2>3, <3>1 DEF AcquireAndPut, IdsHandedOut
  <2> QED BY <2>2, <2>3, VersionsStep
<1>m. \A tx \in TxId : tx < next_tx_id => tx < next_tx_id'
  BY <1>0, <1>1, NoTxFact
<1>o. ASSUME NEW d \in Call
      PROVE  /\ calls[d].pc # "idle" => calls[d].tx \in TxId /\ calls[d].tx < next_tx_id'
             /\ calls[d].pc \in {"table", "lookup", "lock", "wait", "log"} => calls[d].key \in Key
             /\ calls[d].pc = "commit" => tx_status'[calls[d].tx] = "commited"
  <2>1. /\ calls[d].pc # "idle" => calls[d].tx \in TxId /\ calls[d].tx < next_tx_id
        /\ calls[d].pc \in {"table", "lookup", "lock", "wait", "log"} => calls[d].key \in Key
        /\ calls[d].pc = "commit" => IsCommited(calls[d].tx)
    BY DEF IdsHandedOut
  <2> QED BY <1>1, <1>m, <2>1
<1> DEFINE CallOK(d) ==
      /\ calls'[d].pc # "idle" => calls'[d].tx \in TxId /\ calls'[d].tx < next_tx_id'
      /\ calls'[d].pc \in {"table", "lookup", "lock", "wait", "log"} => calls'[d].key \in Key
      /\ calls'[d].pc = "commit" => tx_status'[calls'[d].tx] = "commited"
<1>3. ASSUME NEW d \in Call, calls'[d] = calls[d] PROVE CallOK(d)
  BY <1>3, <1>o
<1>4. ASSUME NEW d \in Call, calls[d].pc \in {"table", "lookup", "lock", "wait", "log"},
             calls'[d].tx = calls[d].tx, calls'[d].key = calls[d].key,
             calls'[d].pc # "commit"
      PROVE  CallOK(d)
  BY <1>4, <1>o
<1>5. ASSUME NEW d \in Call, calls[d].pc \in {"table", "lookup", "lock", "wait", "log"},
             calls'[d].tx = calls[d].tx, calls'[d].key = calls[d].key,
             calls'[d].pc = FinishPc(d), FinishStatus(d)
      PROVE  CallOK(d)
  <2>1. calls[d].tx \in TxId /\ calls[d].tx < next_tx_id
    BY <1>5 DEF IdsHandedOut
  <2>2. FinishPc(d) = "commit" => tx_status'[calls[d].tx] = "commited"
    BY <1>5, <2>1 DEF FinishPc, FinishStatus, MarkCommited, TableTypeOK
  <2>3. FinishPc(d) \in {"commit", "done"}
    BY DEF FinishPc
  <2> QED BY <1>m, <1>5, <2>1, <2>2, <2>3
<1>6. ASSUME NEW c \in Call, NEW g, calls' = [calls EXCEPT ![c] = g], CallOK(c), NEW d \in Call
      PROVE  CallOK(d)
  BY <1>3, <1>6 DEF TableTypeOK
<1>7. ASSUME NEW tx \in TxId, NEW d \in Call, calls'[d] = Woken(tx)[d] PROVE CallOK(d)
  <2>1. calls[d] \in Calls
    BY CallType
  <2>2. CASE calls'[d] = calls[d]
    BY <1>3, <2>2
  <2>3. CASE calls[d].pc = "wait" /\ calls'[d] = [calls[d] EXCEPT !.pc = "lock"]
    BY <1>4, <2>1, <2>3 DEF Calls
  <2> QED BY <1>7, <2>2, <2>3 DEF Woken
<1> HIDE DEF CallOK
<1>8. ASSUME ClientStep, NEW d \in Call PROVE CallOK(d)
  <2>1. CASE BeginTransaction
    BY <1>3, <2>1 DEF BeginTransaction
  <2>2. ASSUME NEW c \in Call, NEW op, NEW key \in Key, StartAutocommit(c, op, key)
        PROVE  CallOK(d)
    <3>1. next_tx_id \in TxId /\ next_tx_id < next_tx_id'
      BY <1>0, <2>2 DEF StartAutocommit, Begin, TxId, TableTypeOK
    <3>2. CallOK(c)
      BY <2>2, <3>1 DEF StartAutocommit, Idle, CallOK, TableTypeOK
    <3> QED BY <1>6, <2>2, <3>2, Zenon DEF StartAutocommit
  <2>3. ASSUME NEW t \in TxId, MayUse(t) PROVE t < next_tx_id' /\ IsStarted(t)
    BY <1>0, <1>1, <2>3, NoTxFact DEF MayUse, IsStarted, IdsHandedOut
  <2>4. ASSUME NEW c \in Call, NEW op, NEW key \in Key, NEW t \in TxId,
               StartInTransaction(c, op, key, t)
        PROVE  CallOK(d)
    <3>1. CallOK(c)
      BY <2>3, <2>4 DEF StartInTransaction, Idle, CallOK, TableTypeOK
    <3> QED BY <1>6, <2>4, <3>1, Zenon DEF StartInTransaction
  <2>5. ASSUME NEW c \in Call, NEW t \in TxId, StartCommit(c, t) PROVE CallOK(d)
    <3>1. CallOK(c)
      BY <2>3, <2>5 DEF StartCommit, MarkCommited, Idle, CallOK, TableTypeOK
    <3> QED BY <1>6, <2>5, <3>1, Zenon DEF StartCommit
  <2>6. ASSUME NEW c \in Call, Answered(c) PROVE CallOK(d)
    <3>1. CallOK(c)
      BY <2>6 DEF Answered, Idle, CallOK, TableTypeOK
    <3> QED BY <1>6, <2>6, <3>1, Zenon DEF Answered
  <2>7. ASSUME NEW t \in TxId, Rollback(t) PROVE CallOK(d)
    BY <1>7, <2>7 DEF Rollback
  <2> QED BY <1>8, <2>1, <2>2, <2>4, <2>5, <2>6, <2>7 DEF ClientStep
<1>9. ASSUME NEW c \in Call, CallStep(c), NEW d \in Call PROVE CallOK(d)
  <2>0. calls[c] \in Calls
    BY CallType
  <2>1. CASE CommitLogged(c)
    <3>1. calls[c].tx \in TxId /\ calls[c].tx < next_tx_id
      BY <2>1 DEF CommitLogged, IdsHandedOut
    <3>2. CASE d # c
      <4>1. calls'[d] = Woken(calls[c].tx)[d]
        BY <2>1, <3>2 DEF CommitLogged, Woken
      <4> QED BY <1>7, <3>1, <4>1
    <3>3. CASE d = c
      <4>1. calls'[c] = [calls[c] EXCEPT !.pc = "done"]
        BY <2>0, <2>1 DEF CommitLogged, Woken
      <4>2. calls'[c].pc = "done" /\ calls'[c].tx = calls[c].tx
        BY <2>0, <4>1 DEF Calls
      <4> QED BY <1>m, <3>1, <3>3, <4>2 DEF CallOK
    <3> QED BY <3>2, <3>3
  <2>2. CASE ~CommitLogged(c) /\ d # c
    BY <1>3, <1>9, <2>2 DEF CallStep, TableFound, LookupSkip, LookupFound, LookupNotFound,
                            WaitForRow, AcquireAndPut, Logged, TableTypeOK
  <2>3. CASE TableFound(c) /\ d = c
    <3>1. /\ calls[c].pc = "table" /\ calls'[c].pc \in {"lock", "lookup"}
          /\ calls'[c].tx = calls[c].tx /\ calls'[c].key = calls[c].key
      BY <2>0, <2>3 DEF TableFound, Calls, TableTypeOK
    <3> QED BY <1>4, <2>3, <3>1
  <2>4. CASE (LookupSkip(c) \/ WaitForRow(c) \/ AcquireAndPut(c)) /\ d = c
    <3>1. /\ calls[c].pc \in {"lookup", "lock"} /\ calls'[c].pc # "commit"
          /\ calls'[c].tx = calls[c].tx /\ calls'[c].key = calls[c].key
      BY <2>0, <2>4 DEF LookupSkip, WaitForRow, AcquireAndPut, Calls, TableTypeOK
    <3> QED BY <1>4, <2>4, <3>1
  <2>5. ASSUME NEW p, NEW n, d = c, calls[c].pc \in {"lookup", "log"},
               \/ calls' = [calls EXCEPT ![c].pc = p]
               \/ calls' = [calls EXCEPT ![c].pc = p, ![c].result = n],
               p = "lock" \/ (p = FinishPc(c) /\ FinishStatus(c))
        PROVE  CallOK(d)
    <3>1. /\ calls'[c].pc = p
          /\ calls'[c].tx = calls[c].tx /\ calls'[c].key = calls[c].key
      BY <2>0, <2>5 DEF Calls, TableTypeOK
    <3> QED BY <1>4, <1>5, <2>5, <3>1
  <2>6. CASE LookupFound(c) /\ d = c
    <3>1. PICK v \in versions :
            \/ calls' = [calls EXCEPT ![c].pc = "lock", ![c].result = v.seq]
            \/ /\ calls' = [calls EXCEPT ![c].pc = FinishPc(c), ![c].result = v.seq]
               /\ FinishStatus(c)
      BY <2>6 DEF LookupFound
    <3>2. calls[c].pc = "lookup"
      BY <2>6 DEF LookupFound
    <3>3. CASE calls' = [calls EXCEPT ![c].pc = "lock", ![c].result = v.seq]
      <4>1. /\ calls'[c].pc = "lock"
            /\ calls'[c].tx = calls[c].tx /\ calls'[c].key = calls[c].key
        BY <2>0, <3>3 DEF Calls, TableTypeOK
      <4> QED BY <1>4, <2>6, <3>2, <4>1
    <3>4. CASE calls' = [calls EXCEPT ![c].pc = FinishPc(c), ![c].result = v.seq]
               /\ FinishStatus(c)
      BY <2>5, <2>6, <3>2, <3>4, Zenon
    <3> QED BY <3>1, <3>3, <3>4
  <2>7. CASE (LookupNotFound(c) \/ Logged(c)) /\ d = c
    BY <2>5, <2>7, Zenon DEF LookupNotFound, Logged
  <2> QED BY <1>9, <2>1, <2>2, <2>3, <2>4, <2>6, <2>7 DEF CallStep
<1>10. ASSUME UNCHANGED tableVars, NEW d \in Call PROVE CallOK(d)
  BY <1>3, <1>10 DEF tableVars
<1>11. \A d \in Call : CallOK(d)
  BY <1>8, <1>9, <1>10 DEF TableNext
<1> QED BY <1>1, <1>2, <1>11 DEF IdsHandedOut, CallOK, IsCommited

-----------------------------------------------------------------------------
\* How one step moves one call: what AcquireRowLock's caller, a walk over the
\* versions and a finishing handler change of their own record, and nothing else.
LEMMA CallStepMoves ==
  ASSUME TableInv, NEW c \in Call, CallStep(c), ~CommitLogged(c)
  PROVE  /\ \A d \in Call : d # c => calls'[d] = calls[d]
         /\ calls[c].pc \in {"table", "lookup", "lock", "log"}
         /\ calls'[c].tx = calls[c].tx /\ calls'[c].key = calls[c].key
         /\ calls'[c].op = calls[c].op
         /\ \/ /\ calls'[c].pc \in {"lookup", "lock", "wait", "log"}
               /\ UNCHANGED tx_status
            \/ /\ calls'[c].pc = FinishPc(c)
               /\ calls[c].pc \in {"lookup", "log"}
               /\ FinishStatus(c)
<1>0. calls[c] \in Calls /\ calls \in [Call -> Calls]
  BY CallType DEF TableInv, TableTypeOK
<1>p. ASSUME NEW p, NEW n,
             \/ calls' = [calls EXCEPT ![c].pc = p]
             \/ calls' = [calls EXCEPT ![c].pc = p, ![c].result = n]
      PROVE  /\ \A d \in Call : d # c => calls'[d] = calls[d]
             /\ calls'[c].tx = calls[c].tx /\ calls'[c].key = calls[c].key
             /\ calls'[c].op = calls[c].op /\ calls'[c].pc = p
  BY <1>0, <1>p DEF Calls
<1>1. CASE TableFound(c)
  BY <1>0, <1>1 DEF TableFound, Calls
<1>2. CASE LookupSkip(c)
  BY <1>0, <1>2 DEF LookupSkip, Calls
<1>3. CASE LookupFound(c)
  <2>1. PICK v \in versions :
          \/ /\ calls' = [calls EXCEPT ![c].pc = "lock", ![c].result = v.seq]
             /\ UNCHANGED tx_status
          \/ /\ calls' = [calls EXCEPT ![c].pc = FinishPc(c), ![c].result = v.seq]
             /\ FinishStatus(c)
    BY <1>3 DEF LookupFound
  <2>2. calls[c].pc = "lookup"
    BY <1>3 DEF LookupFound
  <2>3. CASE /\ calls' = [calls EXCEPT ![c].pc = "lock", ![c].result = v.seq]
             /\ UNCHANGED tx_status
    BY <1>p, <2>2, <2>3, Zenon
  <2>4. CASE /\ calls' = [calls EXCEPT ![c].pc = FinishPc(c), ![c].result = v.seq]
             /\ FinishStatus(c)
    BY <1>p, <2>2, <2>4, Zenon
  <2> QED BY <2>1, <2>3, <2>4
<1>4. CASE LookupNotFound(c) \/ Logged(c)
  <2>1. calls' = [calls EXCEPT ![c].pc = FinishPc(c)] /\ FinishStatus(c)
    BY <1>4 DEF LookupNotFound, Logged
  <2>2. calls[c].pc \in {"lookup", "log"}
    BY <1>4 DEF LookupNotFound, Logged
  <2> QED BY <1>p, <2>1, <2>2, Zenon
<1>5. CASE WaitForRow(c)
  BY <1>0, <1>5 DEF WaitForRow, Calls
<1>6. CASE AcquireAndPut(c)
  BY <1>0, <1>6 DEF AcquireAndPut, Calls
<1> QED BY <1>1, <1>2, <1>3, <1>4, <1>5, <1>6, Zenon DEF CallStep

\* A release only moves waiting calls back to the test of their row.
LEMMA WokenMoves ==
  ASSUME TableInv, NEW tx \in TxId, NEW d \in Call
  PROVE  /\ Woken(tx)[d].tx = calls[d].tx
         /\ Woken(tx)[d] = calls[d] \/
              (calls[d].pc = "wait" /\ Woken(tx)[d].pc = "lock")
<1>1. calls[d] \in Calls
  BY CallType DEF TableInv
<1> QED BY <1>1 DEF Woken, Calls

\* A finished autocommit session is committed, and no other status changes.
LEMMA FinishMarks ==
  ASSUME TableInv, NEW c \in Call, calls[c].pc # "idle", FinishStatus(c)
  PROVE  /\ calls[c].is_autocommit => tx_status'[calls[c].tx] = "commited"
         /\ ~calls[c].is_autocommit => UNCHANGED tx_status
         /\ \A tx \in TxId : tx # calls[c].tx => tx_status'[tx] = tx_status[tx]
  BY DEF FinishStatus, MarkCommited, TableInv, TableTypeOK, IdsHandedOut

-----------------------------------------------------------------------------
\* Where every transaction has one call in flight, each step keeps the holder of
\* a row running or logging its commit.
LEMMA LockHolderStep ==
  ASSUME TableInv, LockHolderInv, [TableNext]_tableVars PROVE LockHolderInv'
<1> SUFFICES ASSUME SerialTransactions PROVE (OneCallPerTransaction /\ LockHolderActive)'
  BY TransactionalTableAssumption DEF LockHolderInv
<1> USE TransactionalTableAssumption DEF TableInv
<1>0. OneCallPerTransaction /\ LockHolderActive /\ next_tx_id \in Nat
  BY DEF LockHolderInv, TableTypeOK, kInitialTxId
<1>t. /\ \A d \in Call : calls[d].pc # "idle" => calls[d].tx \in TxId /\ calls[d].tx # next_tx_id
      /\ \A key \in Key : row_locks[key] \in TxId \cup {NoTx}
  BY <1>0, NoTxFact DEF IdsHandedOut, TableTypeOK
<1>1. CASE UNCHANGED <<tx_status, row_locks, calls>>
  BY <1>0, <1>1 DEF OneCallPerTransaction, LockHolderActive, IsStarted, RowIsFree
<1>b. ASSUME Begin PROVE \A tx \in TxId : tx # next_tx_id => tx_status'[tx] = tx_status[tx]
  BY <1>b DEF Begin, TableTypeOK
<1>n. next_tx_id \in TxId => ~IsStarted(next_tx_id) /\ \A key \in Key : row_locks[key] # next_tx_id
  <2>1. next_tx_id \in TxId => ~IsStarted(next_tx_id)
    BY <1>0 DEF IdsHandedOut, IsStarted
  <2>2. ASSUME NEW key \in Key, next_tx_id \in TxId, row_locks[key] = next_tx_id PROVE FALSE
    <3>1. ~RowIsFree(key)
      BY <2>2, NoTxFact DEF RowIsFree
    <3>2. PICK c \in Call : calls[c].tx = next_tx_id /\ calls[c].pc = "commit"
      BY <1>0, <2>1, <2>2, <3>1 DEF LockHolderActive
    <3> QED BY <1>t, <3>2
  <2> QED BY <2>1, <2>2
<1>2. CASE BeginTransaction
  <2>1. UNCHANGED <<row_locks, calls>> /\ Begin
    BY <1>2 DEF BeginTransaction
  <2>2. next_tx_id \in TxId
    BY <1>0, <2>1 DEF Begin, TxId, TableTypeOK
  <2> QED BY <1>0, <1>b, <1>n, <1>t, <2>1, <2>2, ZenonT(30)
          DEF OneCallPerTransaction, LockHolderActive, IsStarted, RowIsFree
<1>3. ASSUME NEW c \in Call, NEW op, NEW key \in Key, StartAutocommit(c, op, key)
      PROVE  (OneCallPerTransaction /\ LockHolderActive)'
  <2>1. /\ calls[c].pc = "idle" /\ Begin /\ UNCHANGED row_locks
        /\ calls'[c].pc = "table" /\ calls'[c].tx = next_tx_id
        /\ \A d \in Call : d # c => calls'[d] = calls[d]
    BY <1>3 DEF StartAutocommit, Idle, TableTypeOK
  <2>2. next_tx_id \in TxId /\ tx_status'[next_tx_id] = "started"
    BY <1>0, <2>1 DEF Begin, TxId, TableTypeOK
  <2>3. OneCallPerTransaction'
    BY <1>0, <1>b, <1>t, <2>1, <2>2 DEF OneCallPerTransaction, IsStarted
  <2>4. ASSUME NEW k \in Key, row_locks[k] # NoTx
        PROVE  \/ tx_status'[row_locks[k]] = "started"
               \/ \E d \in Call : calls'[d].tx = row_locks[k] /\ calls'[d].pc = "commit"
    <3>1. row_locks[k] \in TxId /\ tx_status'[row_locks[k]] = tx_status[row_locks[k]]
      BY <1>b, <1>n, <1>t, <2>1, <2>2, <2>4
    <3>2. CASE ~IsStarted(row_locks[k])
      <4>1. PICK d \in Call : calls[d].tx = row_locks[k] /\ calls[d].pc = "commit"
        BY <1>0, <2>4, <3>2 DEF LockHolderActive, RowIsFree
      <4> QED BY <2>1, <4>1
    <3> QED BY <3>1, <3>2 DEF IsStarted
  <2>5. LockHolderActive'
    BY <2>1, <2>4 DEF LockHolderActive, IsStarted, RowIsFree
  <2> QED BY <2>3, <2>5
<1>4. ASSUME NEW c \in Call, NEW op, NEW key \in Key, NEW tx \in TxId,
             StartInTransaction(c, op, key, tx)
      PROVE  (OneCallPerTransaction /\ LockHolderActive)'
  <2>1. /\ calls[c].pc = "idle" /\ MayUse(tx) /\ UNCHANGED <<row_locks, tx_status>>
        /\ calls'[c].pc = "table" /\ calls'[c].tx = tx
        /\ \A d \in Call : d # c => calls'[d] = calls[d]
    BY <1>4 DEF StartInTransaction, Idle, TableTypeOK
  <2>2. OneCallPerTransaction'
    BY <1>0, <2>1 DEF OneCallPerTransaction, IsStarted, MayUse
  <2>3. LockHolderActive'
    BY <1>0, <2>1 DEF LockHolderActive, IsStarted, RowIsFree
  <2> QED BY <2>2, <2>3
<1>5. ASSUME NEW c \in Call, NEW tx \in TxId, StartCommit(c, tx)
      PROVE  (OneCallPerTransaction /\ LockHolderActive)'
  <2>1. /\ calls[c].pc = "idle" /\ MayUse(tx) /\ UNCHANGED row_locks
        /\ calls'[c].pc = "commit" /\ calls'[c].tx = tx
        /\ \A d \in Call : d # c => calls'[d] = calls[d]
    BY <1>5 DEF StartCommit, Idle, TableTypeOK
  <2>2. \A t \in TxId : t # tx => tx_status'[t] = tx_status[t]
    BY <1>5 DEF StartCommit, MarkCommited, TableTypeOK
  <2>3. OneCallPerTransaction'
    BY <1>0, <1>t, <2>1, <2>2 DEF OneCallPerTransaction, IsStarted, MayUse
  <2>4. LockHolderActive'
    BY <1>0, <1>t, <2>1, <2>2 DEF LockHolderActive, IsStarted, RowIsFree
  <2> QED BY <2>3, <2>4
<1>6. ASSUME NEW c \in Call, Answered(c) PROVE (OneCallPerTransaction /\ LockHolderActive)'
  <2>1. /\ calls[c].pc = "done" /\ UNCHANGED <<row_locks, tx_status>>
        /\ calls'[c].pc = "idle"
        /\ \A d \in Call : d # c => calls'[d] = calls[d]
    BY <1>6 DEF Answered, Idle, TableTypeOK
  <2> QED BY <1>0, <2>1 DEF OneCallPerTransaction, LockHolderActive, IsStarted, RowIsFree
<1>r. ASSUME NEW tx \in TxId, ReleaseAllLocks(tx), NEW key \in Key, row_locks'[key] # NoTx
      PROVE  row_locks'[key] = row_locks[key] /\ row_locks[key] # tx
  BY <1>r, NoTxFact DEF ReleaseAllLocks, LockTablesAgree
<1>7. ASSUME NEW tx \in TxId, Rollback(tx) PROVE (OneCallPerTransaction /\ LockHolderActive)'
  <2>1. MayUse(tx) /\ ReleaseAllLocks(tx) /\ calls' = Woken(tx)
    BY <1>7 DEF Rollback
  <2>2. \A t \in TxId : t # tx => tx_status'[t] = tx_status[t]
    BY <1>7 DEF Rollback, MarkRollbacked, TableTypeOK
  <2>w. \A d \in Call : /\ calls'[d].tx = calls[d].tx
                        /\ \/ calls'[d] = calls[d]
                           \/ calls[d].pc = "wait" /\ calls'[d].pc = "lock"
    BY <2>1, WokenMoves
  <2>3. OneCallPerTransaction'
    BY <1>0, <1>t, <2>1, <2>2, <2>w DEF OneCallPerTransaction, IsStarted, MayUse
  <2>4. LockHolderActive'
    BY <1>0, <1>t, <1>r, <2>1, <2>2, <2>w DEF LockHolderActive, IsStarted, RowIsFree
  <2> QED BY <2>3, <2>4
<1>8. ASSUME NEW c \in Call, CommitLogged(c) PROVE (OneCallPerTransaction /\ LockHolderActive)'
  <2>0. calls[c] \in Calls /\ calls[c].pc = "commit" /\ calls[c].tx \in TxId
    BY <1>8, CallType DEF CommitLogged, IdsHandedOut
  <2>1. ReleaseAllLocks(calls[c].tx) /\ UNCHANGED tx_status
    BY <1>8 DEF CommitLogged
  <2>2. calls'[c].pc = "done"
    BY <1>8, <2>0 DEF CommitLogged, Woken, Calls
  <2>3. \A d \in Call : d # c => calls'[d] = Woken(calls[c].tx)[d]
    BY <1>8 DEF CommitLogged, Woken
  <2>w. \A d \in Call : d # c => /\ calls'[d].tx = calls[d].tx
                                 /\ \/ calls'[d] = calls[d]
                                    \/ calls[d].pc = "wait" /\ calls'[d].pc = "lock"
    BY <2>0, <2>3, WokenMoves
  <2>4. OneCallPerTransaction'
    BY <1>0, <2>1, <2>2, <2>w DEF OneCallPerTransaction, IsStarted
  <2>5. LockHolderActive'
    BY <1>0, <1>r, <2>0, <2>1, <2>w DEF LockHolderActive, IsStarted, RowIsFree
  <2> QED BY <2>4, <2>5
<1>9. ASSUME NEW c \in Call, CallStep(c), ~CommitLogged(c)
      PROVE  (OneCallPerTransaction /\ LockHolderActive)'
  <2> DEFINE Same == /\ calls'[c].pc \in {"lookup", "lock", "wait", "log"}
                     /\ UNCHANGED tx_status
             Ends == /\ calls'[c].pc = FinishPc(c)
                     /\ FinishStatus(c)
  <2>1. /\ \A d \in Call : d # c => calls'[d] = calls[d]
        /\ calls[c].pc \in {"table", "lookup", "lock", "log"}
        /\ calls'[c].tx = calls[c].tx
    BY <1>9, CallStepMoves
  <2>2. Same \/ (Ends /\ calls[c].pc \in {"lookup", "log"})
    BY <1>9, CallStepMoves
  <2>3. FinishPc(c) \in {"commit", "done"} /\ (calls[c].is_autocommit => FinishPc(c) = "commit")
    BY DEF FinishPc
  <2>f. Ends => /\ ~calls[c].is_autocommit => UNCHANGED tx_status
                /\ \A tx \in TxId : tx # calls[c].tx => tx_status'[tx] = tx_status[tx]
    BY <2>1, FinishMarks
  <2>s. calls[c].tx \in TxId /\ IsStarted(calls[c].tx)
    BY <1>0, <1>t, <2>1 DEF OneCallPerTransaction
  <2>4. OneCallPerTransaction'
    <3>1. CASE Same
      BY <1>0, <2>1, <3>1 DEF OneCallPerTransaction, IsStarted
    <3>2. CASE Ends
      <4>1. \A d \in Call : d # c /\ calls[d].tx = calls[c].tx => calls[d].pc \in {"idle", "done"}
        BY <1>0, <2>1 DEF OneCallPerTransaction
      <4>2. ASSUME NEW d \in Call, calls'[d].pc \in {"table", "lookup", "lock", "wait", "log"}
            PROVE  tx_status'[calls'[d].tx] = "started"
        <5>1. d # c /\ calls'[d] = calls[d] /\ calls[d].tx # calls[c].tx
          BY <2>1, <2>3, <3>2, <4>1, <4>2
        <5>2. calls[d].tx \in TxId /\ IsStarted(calls[d].tx)
          BY <1>0, <1>t, <4>2, <5>1 DEF OneCallPerTransaction
        <5> QED BY <2>f, <3>2, <5>1, <5>2 DEF IsStarted
      <4>3. ASSUME NEW d \in Call, NEW e \in Call, d # e, calls'[d].tx = calls'[e].tx,
                   calls'[d].pc \notin {"idle", "done"}
            PROVE  calls'[e].pc \in {"idle", "done"}
        BY <1>0, <2>1, <2>3, <3>2, <4>1, <4>3 DEF OneCallPerTransaction
      <4> QED BY <4>2, <4>3 DEF OneCallPerTransaction, IsStarted
    <3> QED BY <2>2, <3>1, <3>2
  <2>5. ASSUME NEW key \in Key, row_locks'[key] # NoTx, UNCHANGED row_locks
        PROVE  \/ tx_status'[row_locks'[key]] = "started"
               \/ \E d \in Call : calls'[d].tx = row_locks'[key] /\ calls'[d].pc = "commit"
    <3>1. CASE row_locks[key] = calls[c].tx
      <4>1. CASE Same
        BY <2>5, <2>s, <3>1, <4>1 DEF IsStarted
      <4>2. CASE Ends /\ calls[c].is_autocommit
        BY <2>1, <2>3, <2>5, <3>1, <4>2
      <4>3. CASE Ends /\ ~calls[c].is_autocommit
        BY <2>5, <2>f, <2>s, <3>1, <4>3 DEF IsStarted
      <4> QED BY <2>2, <4>1, <4>2, <4>3
    <3>2. CASE row_locks[key] # calls[c].tx
      <4>1. row_locks[key] \in TxId /\ tx_status'[row_locks[key]] = tx_status[row_locks[key]]
        BY <1>t, <2>2, <2>5, <2>f, <3>2
      <4>2. CASE IsStarted(row_locks[key])
        BY <2>5, <4>1, <4>2 DEF IsStarted
      <4>3. CASE ~IsStarted(row_locks[key])
        <5>1. PICK d \in Call : calls[d].tx = row_locks[key] /\ calls[d].pc = "commit"
          BY <1>0, <2>5, <4>3 DEF LockHolderActive, RowIsFree
        <5> QED BY <2>1, <2>5, <5>1
      <4> QED BY <4>2, <4>3
    <3> QED BY <3>1, <3>2
  <2>6. LockHolderActive'
    <3>1. CASE UNCHANGED row_locks
      BY <2>5, <3>1 DEF LockHolderActive, RowIsFree, IsStarted
    <3>2. CASE AcquireAndPut(c)
      <4>1. calls[c].key \in Key /\ row_locks' = [row_locks EXCEPT ![calls[c].key] = calls[c].tx]
        BY <3>2 DEF AcquireAndPut, RecordRowLock, IdsHandedOut
      <4>2. UNCHANGED tx_status
        BY <3>2 DEF AcquireAndPut
      <4> QED BY <1>0, <2>1, <2>s, <4>1, <4>2 DEF LockHolderActive, RowIsFree, IsStarted, TableTypeOK
    <3> QED BY <1>9, <3>1, <3>2 DEF CallStep, TableFound, LookupSkip, LookupFound,
                                    LookupNotFound, WaitForRow, Logged
  <2> QED BY <2>4, <2>6
<1>10. CASE UNCHANGED tableVars
  BY <1>1, <1>10 DEF tableVars
<1>11. CASE ClientStep
  BY <1>2, <1>3, <1>4, <1>5, <1>6, <1>7, <1>11 DEF ClientStep
<1> QED BY <1>8, <1>9, <1>10, <1>11 DEF TableNext

-----------------------------------------------------------------------------
\* No step takes a version away or hides it from who could see it.
LEMMA VisibleStays ==
  ASSUME TableInv, [TableNext]_tableVars, NEW v \in versions, NEW tx
  PROVE  v \in versions' /\ (Visible(v, tx) => Visible(v, tx)')
<1>1. v.tx \in TxId
  BY DEF TableInv, TableTypeOK, Version
<1>2. IsCommited(v.tx) => tx_status'[v.tx] = "commited"
  BY <1>1, StatusStep
<1>3. v \in versions'
  BY VersionsStep DEF AcquireAndPut
<1> QED BY <1>2, <1>3 DEF Visible, IsCommited

\* While versions of the key lie below the cursor the iterator has a next one.
LEMMA NextExists ==
  ASSUME Laws, TableInv, NEW c \in Call, calls[c].pc = "lookup",
         NEW w \in versions, w.key = calls[c].key, w.seq < calls[c].cursor
  PROVE  \E v \in versions : IsNext(v, c)
<1> DEFINE older == {v \in versions : v.key = calls[c].key /\ v.seq < calls[c].cursor}
           S == {v.seq : v \in older}
<1>1. \A v \in versions : v.seq \in Nat
  BY DEF TableInv, TableTypeOK, Version
<1>2. S \in SUBSET Nat /\ S # {} /\ calls[c].cursor \in Nat
  BY <1>1, CallType DEF TableInv, TableTypeOK, Calls
<1>3. \A n \in S : n <= calls[c].cursor
  BY <1>1, <1>2
<1>4. PICK m \in S : \A n \in S : n <= m
  <2> HIDE DEF S
  <2> QED BY <1>2, <1>3, Zenon DEF Laws, MaxLaw
<1>5. PICK v \in older : v.seq = m
  OBVIOUS
<1> QED BY <1>4, <1>5 DEF IsNext

\* Each step keeps what a walk over the versions began with ahead of it.
LEMMA LookupStep ==
  ASSUME Laws, TableInv, LookupInv, [TableNext]_tableVars PROVE LookupInv'
<1> USE TransactionalTableAssumption DEF TableInv
<1>0. calls \in [Call -> Calls] /\ \A d \in Call : calls[d] \in Calls
  BY DEF TableTypeOK
<1>v. \A v \in versions : v \in versions' /\ v.seq \in Nat
  BY VisibleStays DEF TableTypeOK, Version
<1>s. \A v \in versions : \A tx \in TxId : Visible(v, tx) => Visible(v, tx)'
  BY VisibleStays
<1>u. \A v, w \in versions' : v.seq = w.seq => v = w
  <2>1. CASE UNCHANGED <<versions, next_seq_no>>
    BY <2>1 DEF LookupInv
  <2>2. ASSUME NEW c \in Call, AcquireAndPut(c)
        PROVE  \A v, w \in versions' : v.seq = w.seq => v = w
    <3> DEFINE new == [seq |-> next_seq_no, key |-> calls[c].key, tx |-> calls[c].tx,
                       is_deleted |-> calls[c].op = "delete"]
    <3>1. versions' = versions \cup {new} /\ new.seq = next_seq_no
      BY <2>2 DEF AcquireAndPut
    <3> HIDE DEF new
    <3>2. \A v \in versions : v.seq # next_seq_no
      BY <1>v DEF IdsHandedOut, TableTypeOK
    <3> QED BY <3>1, <3>2 DEF LookupInv
  <2> QED BY <2>1, <2>2, VersionsStep
<1> DEFINE OK(d) ==
      /\ calls'[d].pc \in {"table", "lookup"} => calls'[d].result = 0
      /\ calls'[d].pc \in {"lock", "wait", "log"} => calls'[d].op # "lookup"
      /\ calls'[d].pc = "lookup" /\ calls'[d].floor # 0 =>
           \E v \in versions' : /\ v.seq = calls'[d].floor /\ v.seq < calls'[d].cursor
                                /\ v.key = calls'[d].key
                                /\ v.tx = calls'[d].tx \/ tx_status'[v.tx] = "commited"
      /\ calls'[d].pc \in {"commit", "done"} /\ calls'[d].op = "lookup" =>
           /\ calls'[d].result >= calls'[d].floor
           /\ calls'[d].result # 0 =>
                \E v \in versions' : /\ v.seq = calls'[d].result
                                     /\ v.tx = calls'[d].tx \/ tx_status'[v.tx] = "commited"
<1>t. \A d \in Call : calls[d].pc # "idle" => calls[d].tx \in TxId
  BY DEF IdsHandedOut
<1>1. ASSUME NEW d \in Call, calls'[d] = calls[d] PROVE OK(d)
  <2>1. /\ calls[d].pc \in {"table", "lookup"} => calls[d].result = 0
        /\ calls[d].pc \in {"lock", "wait", "log"} => calls[d].op # "lookup"
    BY DEF LookupInv
  <2>2. calls[d].pc = "lookup" /\ calls[d].floor # 0 =>
          \E v \in versions' : /\ v.seq = calls[d].floor /\ v.seq < calls[d].cursor
                               /\ v.key = calls[d].key
                               /\ v.tx = calls[d].tx \/ tx_status'[v.tx] = "commited"
    BY <1>v, <1>s, <1>t DEF LookupInv, Visible, IsCommited
  <2>3. calls[d].pc \in {"commit", "done"} /\ calls[d].op = "lookup" =>
          /\ calls[d].result >= calls[d].floor
          /\ calls[d].result # 0 =>
               \E v \in versions' : /\ v.seq = calls[d].result
                                    /\ v.tx = calls[d].tx \/ tx_status'[v.tx] = "commited"
    BY <1>v, <1>s, <1>t DEF LookupInv, Visible, IsCommited
  <2> QED BY <1>1, <2>1, <2>2, <2>3
<1>2. ASSUME NEW d \in Call, calls'[d].pc \in {"lock", "wait", "log"}, calls'[d].op # "lookup"
      PROVE  OK(d)
  BY <1>2
<1>3. ASSUME NEW d \in Call, calls'[d].pc \in {"idle", "commit", "done"}, calls'[d].op # "lookup"
      PROVE  OK(d)
  BY <1>3
<1>4. ASSUME NEW d \in Call, calls'[d].pc = "table", calls'[d].result = 0 PROVE OK(d)
  BY <1>4
<1>5. ASSUME NEW tx \in TxId, NEW d \in Call, calls'[d] = Woken(tx)[d] PROVE OK(d)
  <2>1. CASE calls'[d] = calls[d]
    BY <1>1, <2>1
  <2>2. CASE calls[d].pc = "wait" /\ calls'[d] = [calls[d] EXCEPT !.pc = "lock"]
    <3>1. calls[d].op # "lookup" /\ calls[d] \in Calls
      BY <1>0, <2>2 DEF LookupInv
    <3>2. calls'[d].pc = "lock" /\ calls'[d].op = calls[d].op
      BY <2>2, <3>1 DEF Calls
    <3> QED BY <1>2, <3>1, <3>2
  <2> QED BY <1>5, <2>1, <2>2 DEF Woken
<1> HIDE DEF OK
<1>6. ASSUME ClientStep, NEW d \in Call PROVE OK(d)
  <2>1. CASE BeginTransaction
    BY <1>1, <2>1 DEF BeginTransaction
  <2>2. ASSUME NEW c \in Call, NEW op, NEW key,
               StartAutocommit(c, op, key) \/ \E tx \in TxId : StartInTransaction(c, op, key, tx)
        PROVE  OK(d)
    <3>1. /\ \A e \in Call : e # c => calls'[e] = calls[e]
          /\ calls'[c].pc = "table" /\ calls'[c].result = 0
      <4>1. \/ \E tx : calls' = [calls EXCEPT ![c] = [Idle EXCEPT !.pc = "table", !.op = op,
                                  !.key = key, !.tx = tx, !.is_autocommit = TRUE]]
            \/ \E tx : calls' = [calls EXCEPT ![c] = [Idle EXCEPT !.pc = "table", !.op = op,
                                  !.key = key, !.tx = tx]]
        BY <2>2, Zenon DEF StartAutocommit, StartInTransaction
      <4>2. DOMAIN calls = Call
        BY <1>0
      <4>3. \A e \in Call : e # c => calls'[e] = calls[e]
        BY <4>1, <4>2
      <4>4. calls'[c].pc = "table" /\ calls'[c].result = 0
        BY <4>1, <4>2 DEF Idle
      <4> QED BY <4>3, <4>4
    <3> QED BY <1>1, <1>4, <3>1
  <2>3. ASSUME NEW c \in Call, Answered(c) \/ \E tx \in TxId : StartCommit(c, tx) PROVE OK(d)
    <3>1. /\ \A e \in Call : e # c => calls'[e] = calls[e]
          /\ calls'[c].pc \in {"idle", "commit"} /\ calls'[c].op # "lookup"
      <4>1. CASE Answered(c)
        BY <1>0, <4>1 DEF Answered, Idle
      <4>2. ASSUME NEW tx \in TxId, StartCommit(c, tx)
            PROVE  /\ \A e \in Call : e # c => calls'[e] = calls[e]
                   /\ calls'[c].pc = "commit" /\ calls'[c].op # "lookup"
        BY <1>0, <4>2 DEF StartCommit, Idle
      <4> QED BY <2>3, <4>1, <4>2
    <3> QED BY <1>1, <1>3, <3>1
  <2>4. ASSUME NEW t \in TxId, Rollback(t) PROVE OK(d)
    BY <1>5, <2>4 DEF Rollback
  <2> QED BY <1>6, <2>1, <2>2, <2>3, <2>4, Zenon DEF ClientStep
<1>7. ASSUME NEW c \in Call, CommitLogged(c), NEW d \in Call PROVE OK(d)
  <2>1. calls[c] \in Calls /\ calls[c].pc = "commit" /\ calls[c].tx \in TxId
    BY <1>0, <1>7, <1>t DEF CommitLogged
  <2>2. CASE d # c
    <3>1. calls'[d] = Woken(calls[c].tx)[d]
      BY <1>7, <2>2 DEF CommitLogged, Woken
    <3> QED BY <1>5, <2>1, <3>1
  <2>3. CASE d = c
    <3>1. calls'[c] = [calls[c] EXCEPT !.pc = "done"]
      BY <1>7, <2>1 DEF CommitLogged, Woken
    <3>2. /\ calls'[c].pc = "done" /\ calls'[c].tx = calls[c].tx /\ calls'[c].op = calls[c].op
          /\ calls'[c].result = calls[c].result /\ calls'[c].floor = calls[c].floor
      BY <2>1, <3>1 DEF Calls
    <3>3. calls[c].op = "lookup" =>
            /\ calls[c].result >= calls[c].floor
            /\ calls[c].result # 0 =>
                 \E v \in versions' : /\ v.seq = calls[c].result
                                      /\ v.tx = calls[c].tx \/ tx_status'[v.tx] = "commited"
      BY <1>v, <1>s, <2>1 DEF LookupInv, Visible, IsCommited
    <3> QED BY <2>3, <3>2, <3>3 DEF OK
  <2> QED BY <2>2, <2>3
<1>8. ASSUME NEW c \in Call, CallStep(c), ~CommitLogged(c) PROVE OK(c)
  <2>0. /\ calls[c] \in Calls /\ calls[c].tx \in TxId /\ calls[c].key \in Key
        /\ calls[c].floor \in Nat /\ calls[c].cursor \in Nat
        /\ calls[c].pc \in {"table", "lookup", "lock", "log"}
    BY <1>0, <1>8, <1>t, CallStepMoves, Zenon DEF IdsHandedOut, Calls
  <2>f. FinishPc(c) \in {"commit", "done"}
    BY DEF FinishPc
  <2>w. calls[c].pc = "lookup" /\ calls[c].floor # 0 =>
          \E w \in versions : /\ w.seq = calls[c].floor /\ w.seq < calls[c].cursor
                              /\ w.key = calls[c].key /\ Visible(w, calls[c].tx)
    BY DEF LookupInv
  <2>1. CASE TableFound(c)
    <3>1. CASE calls[c].op = "upsert"
      <4>1. calls'[c].pc = "lock" /\ calls'[c].op # "lookup"
        BY <1>0, <2>0, <2>1, <3>1 DEF TableFound, Calls
      <4> QED BY <1>2, <4>1
    <3>2. CASE calls[c].op # "upsert"
      <4> DEFINE f == NewestVisible(calls[c].key, calls[c].tx)
      <4>1. f # 0 => \E v \in versions : v.seq = f /\ v.key = calls[c].key /\ Visible(v, calls[c].tx)
        BY <2>0, NewestVisibleType
      <4>2. calls'[c] = [calls[c] EXCEPT !.pc = "lookup", !.cursor = next_seq_no, !.floor = f]
        BY <1>0, <2>1, <3>2 DEF TableFound
      <4> HIDE DEF f
      <4>3. /\ calls'[c].pc = "lookup" /\ calls'[c].cursor = next_seq_no /\ calls'[c].floor = f
            /\ calls'[c].key = calls[c].key /\ calls'[c].tx = calls[c].tx
            /\ calls'[c].result = calls[c].result
        BY <2>0, <4>2 DEF Calls
      <4>4. calls[c].result = 0 /\ \A v \in versions : v.seq < next_seq_no
        BY <2>1 DEF TableFound, LookupInv, IdsHandedOut
      <4>5. f # 0 => \E v \in versions' : /\ v.seq = f /\ v.seq < next_seq_no
                                          /\ v.key = calls[c].key
                                          /\ v.tx = calls[c].tx \/ tx_status'[v.tx] = "commited"
        BY <1>v, <1>s, <2>0, <4>1, <4>4 DEF Visible, IsCommited
      <4> QED BY <4>3, <4>4, <4>5, Zenon DEF OK
    <3> QED BY <3>1, <3>2
  <2>2. CASE LookupSkip(c)
    <3>1. PICK v \in versions : /\ IsNext(v, c) /\ ~Visible(v, calls[c].tx)
                                /\ calls' = [calls EXCEPT ![c].cursor = v.seq]
      BY <2>2, Zenon DEF LookupSkip
    <3>2. /\ calls'[c].pc = "lookup" /\ calls'[c].cursor = v.seq
          /\ calls'[c].floor = calls[c].floor /\ calls[c].pc = "lookup"
          /\ calls'[c].key = calls[c].key /\ calls'[c].tx = calls[c].tx
          /\ calls'[c].result = calls[c].result
      BY <1>0, <2>0, <2>2, <3>1 DEF LookupSkip, Calls
    <3>3. calls[c].result = 0
      BY <3>2 DEF LookupInv
    <3>4. ASSUME calls[c].floor # 0
          PROVE  \E w \in versions' : /\ w.seq = calls[c].floor /\ w.seq < v.seq
                                      /\ w.key = calls[c].key
                                      /\ w.tx = calls[c].tx \/ tx_status'[w.tx] = "commited"
      <4>1. PICK w \in versions : /\ w.seq = calls[c].floor /\ w.seq < calls[c].cursor
                                  /\ w.key = calls[c].key /\ Visible(w, calls[c].tx)
        BY <2>w, <3>2, <3>4
      <4>2. w.seq <= v.seq /\ w # v
        BY <3>1, <4>1 DEF IsNext
      <4>3. w.seq < v.seq
        BY <1>v, <4>2 DEF LookupInv
      <4> QED BY <1>v, <1>s, <2>0, <4>1, <4>3 DEF Visible, IsCommited
    <3> QED BY <3>2, <3>3, <3>4 DEF OK
  <2>3. CASE LookupFound(c)
    <3>1. PICK v \in versions :
            /\ IsNext(v, c) /\ Visible(v, calls[c].tx)
            /\ \/ /\ calls[c].op = "delete"
                  /\ calls' = [calls EXCEPT ![c].pc = "lock", ![c].result = v.seq]
               \/ calls' = [calls EXCEPT ![c].pc = FinishPc(c), ![c].result = v.seq]
      BY <2>3 DEF LookupFound
    <3>2. CASE calls[c].op = "delete" /\ calls' = [calls EXCEPT ![c].pc = "lock", ![c].result = v.seq]
      <4>1. calls'[c].pc = "lock" /\ calls'[c].op # "lookup"
        BY <1>0, <2>0, <3>2 DEF Calls
      <4> QED BY <1>2, <4>1
    <3>3. CASE calls' = [calls EXCEPT ![c].pc = FinishPc(c), ![c].result = v.seq]
      <4>1. /\ calls'[c].pc \in {"commit", "done"} /\ calls'[c].result = v.seq
            /\ calls'[c].floor = calls[c].floor /\ calls'[c].tx = calls[c].tx
        BY <1>0, <2>0, <2>f, <3>3 DEF Calls
      <4>2. calls[c].pc = "lookup"
        BY <2>3 DEF LookupFound
      <4>3. v.seq >= calls[c].floor
        BY <1>v, <2>0, <2>w, <3>1, <4>2 DEF IsNext
      <4>4. v \in versions' /\ (v.tx = calls[c].tx \/ tx_status'[v.tx] = "commited")
        BY <1>v, <1>s, <2>0, <3>1 DEF Visible, IsCommited
      <4> QED BY <4>1, <4>3, <4>4 DEF OK
    <3> QED BY <3>1, <3>2, <3>3
  <2>4. CASE LookupNotFound(c)
    <3>1. calls[c].pc = "lookup" /\ \A v \in versions : ~IsNext(v, c)
      BY <2>4 DEF LookupNotFound
    <3>2. calls[c].floor = 0
      BY <2>w, <3>1, NextExists
    <3>3. calls[c].result = 0
      BY <3>1 DEF LookupInv
    <3>4. /\ calls'[c].pc \in {"commit", "done"} /\ calls'[c].result = calls[c].result
          /\ calls'[c].floor = calls[c].floor
      BY <1>0, <2>0, <2>4, <2>f DEF LookupNotFound, Calls
    <3> QED BY <3>2, <3>3, <3>4 DEF OK
  <2>5. CASE WaitForRow(c) \/ AcquireAndPut(c)
    <3>1. calls[c].op # "lookup"
      BY <2>5 DEF LookupInv, WaitForRow, AcquireAndPut
    <3>2. calls'[c].pc \in {"wait", "log"} /\ calls'[c].op = calls[c].op
      BY <1>0, <2>0, <2>5 DEF WaitForRow, AcquireAndPut, Calls
    <3> QED BY <1>2, <3>1, <3>2
  <2>6. CASE Logged(c)
    <3>1. calls[c].op # "lookup"
      BY <2>6 DEF LookupInv, Logged
    <3>2. calls'[c].pc \in {"commit", "done"} /\ calls'[c].op = calls[c].op
      BY <1>0, <2>0, <2>6, <2>f DEF Logged, Calls
    <3> QED BY <1>3, <3>1, <3>2
  <2> QED BY <1>8, <2>1, <2>2, <2>3, <2>4, <2>5, <2>6 DEF CallStep
<1>9. ASSUME NEW c \in Call, CallStep(c), NEW d \in Call PROVE OK(d)
  BY <1>1, <1>7, <1>8, <1>9, CallStepMoves
<1>10. \A d \in Call : OK(d)
  <2>1. CASE UNCHANGED tableVars
    BY <1>1, <2>1 DEF tableVars
  <2> QED BY <1>6, <1>9, <2>1 DEF TableNext
<1> QED BY <1>u, <1>10 DEF OK, LookupInv, Visible, IsCommited

-----------------------------------------------------------------------------
\* TableInv is inductive.
LEMMA InvStep ==
  ASSUME Laws
  PROVE  TableInv /\ [TableNext]_tableVars => TableInv'
  BY TypeStep, LockTablesStep, NoLostWakeupStep, IdsStep, WriterHoldsLockStep,
     WritersSerializedStep DEF TableInv

-----------------------------------------------------------------------------
\* The laws of numbers and finite sets hold.
INSTANCE OrderFacts

\* The inductive invariant of the row locks holds in every reachable state, for
\* every number of callers, keys and transactions.
THEOREM TableInvariant == TableSpec => []TableInv
  BY InitInv, InvStep, LawsHold, PTL DEF TableSpec

\* Types of the handlers' and the transaction storage's state.
THEOREM TableTypeCorrect == TableSpec => []TableTypeOK
<1>1. TableInv => TableTypeOK
  BY DEF TableInv
<1> QED BY <1>1, TableInvariant, PTL

\* row_locks_ and tx_locks_ always describe the same locks.
THEOREM LockTablesAgreeAlways == TableSpec => []LockTablesAgree
<1>1. TableInv => LockTablesAgree
  BY DEF TableInv
<1> QED BY <1>1, TableInvariant, PTL

\* No caller of AcquireRowLock sleeps while its row is free.
THEOREM NoLostWakeupAlways == TableSpec => []NoLostWakeup
<1>1. TableInv => NoLostWakeup
  BY DEF TableInv
<1> QED BY <1>1, TableInvariant, PTL

\* No transaction writes over the uncommitted version of another one.
THEOREM WritersSerializedAlways == TableSpec => []WritersSerialized
<1>1. TableInv => WritersSerialized
  BY DEF TableInv
<1> QED BY <1>1, TableInvariant, PTL

\* storage.hpp's promise that a lock is held until the transaction ends, read the
\* other way: where clients run one call per transaction at a time, no ended
\* transaction leaves a row locked behind it.
THEOREM LockHolderActiveAlways == TableSpec => [](SerialTransactions => LockHolderActive)
<1>1. TableInit => LockHolderInv
  BY DEF TableInit, TxStorageInit, Idle, LockHolderInv, OneCallPerTransaction,
         LockHolderActive, RowIsFree
<1>2. TableInv /\ LockHolderInv /\ [TableNext]_tableVars => LockHolderInv'
  BY LockHolderStep
<1>3. LockHolderInv => (SerialTransactions => LockHolderActive)
  BY DEF LockHolderInv
<1> QED BY <1>1, <1>2, <1>3, TableInvariant, PTL DEF TableSpec

\* Lookup never answers with something older than what was committed when it began,
\* nor with another transaction's uncommitted version, whatever commits meanwhile.
THEOREM LookupNotStaleAlways == TableSpec => []LookupNotStale
<1>1. TableInit => LookupInv
  BY DEF TableInit, Idle, LookupInv
<1>2. TableInv /\ LookupInv /\ [TableNext]_tableVars => LookupInv'
  BY LookupStep, LawsHold
<1>3. LookupInv => LookupNotStale
  BY DEF LookupInv, LookupNotStale
<1> QED BY <1>1, <1>2, <1>3, TableInvariant, PTL DEF TableSpec
=============================================================================
