--------------------------- MODULE CatalogProofs ---------------------------
(***************************************************************************)
(* The catalog is proved correct for any clients, table names, number of   *)
(* transactions, restarts and failures: CatalogInv is inductive, and the   *)
(* properties of module Catalog follow from it.                            *)
(***************************************************************************)
EXTENDS Catalog, Laws, TLAPS

-----------------------------------------------------------------------------
\* The number of a new row is a number larger than all.
LEMMA NextSeqIsNew ==
  ASSUME rows \subseteq Row, rows # {} => \E last \in rows : \A r \in rows : r.seq <= last.seq
  PROVE  NextSeq \in Nat \ {0} /\ \A r \in rows : r.seq < NextSeq
<1> DEFINE S == {r.seq : r \in rows} \cup {0}
<1>1. \A r \in rows : r.seq \in Nat
  BY DEF Row
<1>2. \E m \in S : \A s \in S : m >= s
  <2>1. CASE rows = {}
    BY <2>1
  <2>2. CASE rows # {}
    <3>1. PICK last \in rows : \A r \in rows : r.seq <= last.seq
      BY <2>2
    <3>2. last.seq \in S /\ \A s \in S : last.seq >= s
      BY <1>1, <3>1
    <3> QED BY <3>2
  <2> QED BY <2>1, <2>2
<1> HIDE DEF S
<1>3. Max(S) \in S /\ \A s \in S : Max(S) >= s
  BY <1>2 DEF Max
<1>4. NextSeq = Max(S) + 1
  BY DEF NextSeq, S
<1>5. S \subseteq Nat /\ 0 \in S
  BY <1>1 DEF S
<1>6. \A r \in rows : r.seq \in S
  BY DEF S
<1>7. NextSeq \in Nat \ {0}
  <2>1. Max(S) \in Nat
    BY <1>3, <1>5, Zenon
  <2> QED BY <2>1, <1>4
<1>8. ASSUME NEW r \in rows PROVE r.seq < NextSeq
  <2>1. Max(S) >= r.seq /\ Max(S) \in Nat /\ r.seq \in Nat
    BY <1>1, <1>3, <1>5, <1>6, Zenon
  <2> QED BY <2>1, <1>4
<1> QED BY <1>7, <1>8

\* After a restart the next id is past every commit that was found.
LEMMA NextIdFollows ==
  ASSUME Laws, NEW commited \in SUBSET TxId,
         NEW next, next = Max({tx + 1 : tx \in commited} \cup {kInitialTxId})
  PROVE  next \in kInitialTxId..(MaxTx + 1) /\ \A tx \in commited : tx < next
<1> DEFINE S == {tx + 1 : tx \in commited} \cup {kInitialTxId}
<1>1. S \subseteq kInitialTxId..(MaxTx + 1)
  <2>1. /\ kInitialTxId \in kInitialTxId..(MaxTx + 1)
        /\ \A tx \in commited : tx + 1 \in kInitialTxId..(MaxTx + 1)
    BY CatalogAssumption DEF TxId, kInitialTxId
  <2> QED BY <2>1, Zenon
<1>2. S \in SUBSET Nat /\ S # {} /\ MaxTx + 1 \in Nat /\ \A s \in S : s <= MaxTx + 1
  BY <1>1, CatalogAssumption DEF kInitialTxId
<1>3. \A tx \in commited : tx + 1 \in S
  OBVIOUS
<1>4. next = Max(S)
  OBVIOUS
<1> HIDE DEF S
<1>5. \E m \in S : \A s \in S : s <= m
  BY <1>2, Zenon DEF Laws, MaxLaw
<1>6. \E m \in S : \A s \in S : m >= s
  BY <1>2, <1>5
<1>7. next \in S /\ \A s \in S : next >= s
  BY <1>4, <1>6, Zenon DEF Max
<1>8. TxId \subseteq Nat
  BY CatalogAssumption DEF TxId, kInitialTxId
<1>9. \A tx \in commited : next >= tx + 1
  BY <1>3, <1>7
<1>10. \A tx \in commited : tx \in Nat
  BY <1>8
<1>11. next \in Nat
  BY <1>2, <1>7
<1> QED BY <1>1, <1>7, <1>9, <1>10, <1>11

-----------------------------------------------------------------------------
\* Few kinds of steps are to be told apart.  A call that goes on is the same call.
Same(k, c) ==
  /\ k.tx = calls[c].tx /\ k.name = calls[c].name /\ k.op = calls[c].op
  /\ k.is_autocommit = calls[c].is_autocommit

PCs == {"idle", "check", "lock", "wait", "log", "mkdir", "init", "commit"}

\* A client enters a transaction or leaves it:
Enters(c, tx) ==
  /\ calls[c].pc = "idle"
  /\ context' = [context EXCEPT ![c] = tx]
  /\ \/ Begin /\ tx = next_tx_id
     \/ tx \in {NoTx, EmptyTx} /\ UNCHANGED <<tx_status, next_tx_id>>
  /\ UNCHANGED <<row_locks, tx_locks, calls, rows, storages, directories, unmade, restarts,
                 orphaned, overlapped>>

\* a call of its starts:
Starts(c, k) ==
  /\ calls[c].pc = "idle"
  /\ k \in Calls /\ calls' = [calls EXCEPT ![c] = k]
  /\ \/ /\ k.pc = "check" /\ k.name \in Key /\ k.tx = next_tx_id /\ k.is_autocommit
        /\ context[c] = NoTx
        /\ Begin
     \/ /\ k.pc = "check" /\ k.name \in Key /\ k.tx = context[c] /\ ~k.is_autocommit
        /\ k.tx \in TxId /\ IsStarted(k.tx)
        /\ UNCHANGED <<tx_status, next_tx_id>>
     \/ /\ k.pc = "commit" /\ k.op = "commit" /\ k.tx = context[c] /\ ~k.is_autocommit
        /\ k.tx \in TxId /\ IsStarted(k.tx)
        /\ MarkCommited(k.tx) /\ UNCHANGED next_tx_id
  /\ UNCHANGED <<row_locks, tx_locks, context, rows, storages, directories, unmade, restarts,
                 orphaned, overlapped>>

\* it proceeds from one suspension to the next:
Proceeds(c, k) ==
  /\ k \in Calls /\ calls' = [calls EXCEPT ![c] = k]
  /\ Same(k, c)
  /\ \/ /\ calls[c].pc = "check" /\ k.pc = "lock" /\ k.op = "create"
        /\ GetStorageId(k.name, k.tx) = {}
        /\ overlapped' = (overlapped \/ CreationInProgress(c, k.name))
        /\ UNCHANGED <<directories, unmade>>
     \/ /\ calls[c].pc = "check" /\ k.pc = "lock" /\ k.op = "drop"
        /\ k.id \in GetStorageId(k.name, k.tx)
        /\ UNCHANGED <<directories, unmade, overlapped>>
     \/ /\ calls[c].pc = "lock" /\ k.pc = "wait" /\ k.id = calls[c].id
        /\ UNCHANGED <<directories, unmade, overlapped>>
     \/ /\ calls[c].pc = "log" /\ k.pc = "mkdir" /\ k.id = calls[c].id
        /\ UNCHANGED <<directories, unmade, overlapped>>
     \/ /\ calls[c].pc = "mkdir" /\ k.pc = "init" /\ k.id = calls[c].id
        /\ directories' \cup unmade' = directories \cup unmade \cup {k.id}
        /\ directories \subseteq directories' /\ unmade \subseteq unmade'
        /\ UNCHANGED overlapped
  /\ UNCHANGED <<tx_status, next_tx_id, row_locks, tx_locks, context, rows, storages,
                 restarts, orphaned>>

\* its work is over, and it answers or goes on to its commit.
Ends(c) ==
  /\ \/ calls[c].pc = "check" /\ UNCHANGED storages
     \/ calls[c].pc = "log" /\ calls[c].op = "drop" /\ UNCHANGED storages
     \/ calls[c].pc = "init" /\ storages' = storages \cup {calls[c].id}
  /\ \/ calls' = [calls EXCEPT ![c] = Idle] /\ UNCHANGED tx_status
     \/ /\ calls[c].is_autocommit
        /\ calls' = [calls EXCEPT ![c].pc = "commit"]
        /\ MarkCommited(calls[c].tx)
  /\ UNCHANGED <<next_tx_id, row_locks, tx_locks, context, rows, directories, unmade,
                 restarts, orphaned, overlapped>>

LEMMA CallMoves ==
  ASSUME calls \in [Client -> Calls], NEW c \in Client, NEW pc \in PCs,
         calls' = [calls EXCEPT ![c].pc = pc]
  PROVE  \E k \in Calls : /\ calls' = [calls EXCEPT ![c] = k] /\ Same(k, c)
                          /\ k.pc = pc /\ k.id = calls[c].id
<1> DEFINE k == [calls[c] EXCEPT !.pc = pc]
<1>1. k \in Calls /\ k.pc = pc /\ k.id = calls[c].id /\ Same(k, c)
  BY DEF Calls, Same, PCs
<1>2. calls' = [calls EXCEPT ![c] = k]
  OBVIOUS
<1> QED BY <1>1, <1>2, Zenon

LEMMA IdleIsCall ==
  Idle \in Calls /\ Idle.pc = "idle" /\ Idle.tx = NoTx /\ Idle.op = "none" /\ Idle.id = 0
  BY DEF Idle, Calls, NoTx

LEMMA IdsAreNumbers ==
  ASSUME CatalogTypeOK, NEW name, NEW tx, NEW id \in GetStorageId(name, tx)
  PROVE  id \in Nat
  BY DEF CatalogTypeOK, GetStorageId, GetTableInfo, Row

\* What the commands of a client do.
LEMMA CommandSteps ==
  ASSUME CatalogTypeOK, NEW c \in Client, Command(c)
  PROVE  \/ \E tx \in TxId \cup {NoTx, EmptyTx} : Enters(c, tx)
         \/ \E k \in Calls : Starts(c, k)
<1>0. calls \in [Client -> Calls] /\ (Begin => next_tx_id \in TxId)
  BY CatalogAssumption DEF CatalogTypeOK, Begin, TxId
<1>1. CASE BeginCommand(c)
  <2>1. Enters(c, next_tx_id) /\ next_tx_id \in TxId
    BY <1>0, <1>1 DEF BeginCommand, Enters
  <2> QED BY <2>1
<1>2. CASE BeginFails(c)
  <2>1. Enters(c, EmptyTx)
    BY <1>2 DEF BeginFails, Enters
  <2> QED BY <2>1
<1>3. CASE CommitCommand(c)
  <2> DEFINE k == [Idle EXCEPT !.pc = "commit", !.op = "commit", !.tx = context[c]]
  <2>1. k \in Calls /\ k.pc = "commit" /\ k.op = "commit" /\ k.tx = context[c]
        /\ ~k.is_autocommit
    BY <1>3, Zenon DEF CommitCommand, Idle, Calls
  <2>2. calls' = [calls EXCEPT ![c] = k]
    BY <1>3 DEF CommitCommand
  <2> HIDE DEF k
  <2>3. Starts(c, k)
    BY <1>3, <2>1, <2>2, Zenon DEF CommitCommand, Starts
  <2> QED BY <2>1, <2>3
<1>4. CASE RollbackCommand(c)
  <2>1. Enters(c, NoTx)
    BY <1>4 DEF RollbackCommand, Enters
  <2> QED BY <2>1
<1>5. ASSUME NEW op \in {"create", "drop", "use"}, NEW name \in Key,
             SessionAutocommit(c, op, name)
      PROVE  \E k \in Calls : Starts(c, k)
  <2> DEFINE k == [Idle EXCEPT !.pc = "check", !.op = op, !.name = name,
                               !.tx = next_tx_id, !.is_autocommit = TRUE]
  <2>1. next_tx_id \in TxId
    BY <1>0, <1>5 DEF SessionAutocommit
  <2>2. k \in Calls /\ k.pc = "check" /\ k.name = name /\ k.tx = next_tx_id /\ k.is_autocommit
    BY <2>1, Zenon DEF Idle, Calls
  <2>3. calls' = [calls EXCEPT ![c] = k]
    BY <1>5 DEF SessionAutocommit
  <2> HIDE DEF k
  <2>4. Starts(c, k)
    BY <1>5, <2>2, <2>3, Zenon DEF SessionAutocommit, Starts
  <2> QED BY <2>2, <2>4
<1>6. ASSUME NEW op \in {"create", "drop", "use"}, NEW name \in Key,
             SessionInTransaction(c, op, name)
      PROVE  \E k \in Calls : Starts(c, k)
  <2> DEFINE k == [Idle EXCEPT !.pc = "check", !.op = op, !.name = name, !.tx = context[c]]
  <2>1. k \in Calls /\ k.pc = "check" /\ k.name = name /\ k.tx = context[c] /\ ~k.is_autocommit
    BY <1>6, Zenon DEF SessionInTransaction, Idle, Calls
  <2>2. calls' = [calls EXCEPT ![c] = k]
    BY <1>6 DEF SessionInTransaction
  <2> HIDE DEF k
  <2>3. Starts(c, k)
    BY <1>6, <2>1, <2>2, Zenon DEF SessionInTransaction, Starts
  <2> QED BY <2>1, <2>3
<1>7. CASE TableCommand(c) \/ RowCommand(c)
  BY <1>5, <1>6, <1>7 DEF TableCommand, RowCommand, TableClient, Call
<1> QED
  BY <1>1, <1>2, <1>3, <1>4, <1>7 DEF Command

\* Apart from the two steps that put a row and release locks, that is all they do.
LEMMA HandlerSteps ==
  ASSUME CatalogTypeOK, NEW c \in Client, Handler(c)
  PROVE  \/ \E k \in Calls : Proceeds(c, k)
         \/ Ends(c)
         \/ PutRow(c)
         \/ CommitLogged(c)
<1>0. calls \in [Client -> Calls]
  BY DEF CatalogTypeOK
<1>1. CASE AddStorageCheck(c)
  <2>1. CASE MayAdd(calls[c].name, calls[c].tx)
    <3>1. PICK k \in Calls : /\ calls' = [calls EXCEPT ![c] = k] /\ Same(k, c)
                           /\ k.pc = "lock" /\ k.id = calls[c].id
      BY <1>0, <1>1, <2>1, CallMoves DEF AddStorageCheck, MayAdd, PCs
    <3>2. Proceeds(c, k)
      BY <1>1, <2>1, <3>1 DEF AddStorageCheck, MayAdd, Proceeds, Same
    <3> QED BY <3>2
  <2>2. CASE ~MayAdd(calls[c].name, calls[c].tx)
    BY <1>1, <2>2 DEF AddStorageCheck, Fail, Ends
  <2> QED BY <2>1, <2>2
<1>2. CASE DeleteStorageCheck(c)
  <2>1. CASE Finish(c)
    BY <1>2, <2>1 DEF DeleteStorageCheck, Finish, Ends
  <2>2. CASE ~Finish(c)
    <3>1. PICK id \in GetStorageId(calls[c].name, calls[c].tx) :
               calls' = [calls EXCEPT ![c].pc = "lock", ![c].id = id]
      BY <1>2, <2>2 DEF DeleteStorageCheck
    <3>2. id \in Nat
      BY <3>1, IdsAreNumbers
    <3> DEFINE k == [calls[c] EXCEPT !.pc = "lock", !.id = id]
    <3>3. k \in Calls /\ k.pc = "lock" /\ k.id = id /\ Same(k, c)
      BY <1>0, <3>2, Zenon DEF Calls, Same
    <3>4. calls' = [calls EXCEPT ![c] = k]
      BY <1>0, <3>1, Zenon
    <3> HIDE DEF k
    <3>5. Proceeds(c, k)
      BY <1>2, <2>2, <3>1, <3>3, <3>4, Zenon DEF DeleteStorageCheck, Proceeds, Same
    <3> QED BY <3>3, <3>5
  <2> QED BY <2>1, <2>2
<1>3. CASE UseTable(c)
  BY <1>3 DEF UseTable, Finish, Fail, Ends
<1>4. CASE WaitForName(c)
  <2>1. PICK k \in Calls : /\ calls' = [calls EXCEPT ![c] = k] /\ Same(k, c)
                         /\ k.pc = "wait" /\ k.id = calls[c].id
    BY <1>0, <1>4, CallMoves, ZenonT(60) DEF WaitForName, PCs
  <2>2. Proceeds(c, k)
    BY <1>4, <2>1, Zenon DEF WaitForName, Proceeds, Same
  <2> QED BY <2>2
<1>6. CASE RowLogged(c)
  <2>1. CASE calls[c].op = "create"
    <3>1. PICK k \in Calls : /\ calls' = [calls EXCEPT ![c] = k] /\ Same(k, c)
                           /\ k.pc = "mkdir" /\ k.id = calls[c].id
      BY <1>0, <1>6, <2>1, CallMoves DEF RowLogged, PCs
    <3>2. Proceeds(c, k)
      BY <1>6, <2>1, <3>1 DEF RowLogged, Proceeds, Same
    <3> QED BY <3>2
  <2>2. CASE calls[c].op = "drop"
    BY <1>6, <2>2 DEF RowLogged, Finish, Ends
  <2> QED BY <1>6, <2>1, <2>2 DEF RowLogged
<1>7. CASE CreateDirectory(c)
  <2>1. PICK k \in Calls : /\ calls' = [calls EXCEPT ![c] = k] /\ Same(k, c)
                         /\ k.pc = "init" /\ k.id = calls[c].id
    BY <1>0, <1>7, CallMoves, ZenonT(60) DEF CreateDirectory, PCs
  <2>2. Proceeds(c, k)
    BY <1>7, <2>1, Zenon DEF CreateDirectory, Proceeds, Same
  <2> QED BY <2>2
<1>8. CASE CreateDirectoryFails(c)
  <2>1. PICK k \in Calls : /\ calls' = [calls EXCEPT ![c] = k] /\ Same(k, c)
                         /\ k.pc = "init" /\ k.id = calls[c].id
    BY <1>0, <1>8, CallMoves, ZenonT(60) DEF CreateDirectoryFails, PCs
  <2>2. Proceeds(c, k)
    BY <1>8, <2>1, Zenon DEF CreateDirectoryFails, Proceeds, Same
  <2> QED BY <2>2
<1>9. CASE EmplaceStorage(c)
  BY <1>9 DEF EmplaceStorage, Finish, Ends
<1> QED
  BY <1>1, <1>2, <1>3, <1>4, <1>6, <1>7, <1>8, <1>9 DEF Handler

-----------------------------------------------------------------------------
\* Types.
LEMMA TypesInit == CatalogInit => CatalogTypeOK /\ ServedInv
<1> SUFFICES ASSUME CatalogInit PROVE CatalogTypeOK /\ ServedInv
  OBVIOUS
<1>1. calls \in [Client -> Calls] /\ \A c \in Client : calls[c].pc = "idle"
  BY IdleIsCall DEF CatalogInit
<1>2. kInitialTxId \in kInitialTxId..(MaxTx + 1)
  BY CatalogAssumption DEF kInitialTxId
<1>3. CatalogTypeOK
  <2>1. /\ tx_status \in [TxId -> Status] /\ row_locks \in [Key -> TxId \cup {NoTx}]
        /\ tx_locks \in [TxId -> SUBSET Key] /\ context \in [Client -> TxId \cup {NoTx, EmptyTx}]
    BY DEF CatalogInit, TxStorageInit, Status
  <2>2. rows \subseteq Row /\ storages \subseteq directories \cup unmade
        /\ directories \cup unmade \subseteq Nat /\ orphaned \in BOOLEAN /\ overlapped \in BOOLEAN
    BY Zenon DEF CatalogInit
  <2>3. restarts \in 0..MaxRestarts /\ next_tx_id \in kInitialTxId..(MaxTx + 1)
    BY <1>2, CatalogAssumption DEF CatalogInit, TxStorageInit
  <2> QED BY <1>1, <2>1, <2>2, <2>3 DEF CatalogTypeOK
<1>4. ServedInv
  BY <1>1 DEF CatalogInit, ServedInv
<1> QED BY <1>3, <1>4

LEMMA TypesEnters ==
  ASSUME CatalogTypeOK, ServedInv, NEW c \in Client, NEW tx \in TxId \cup {NoTx, EmptyTx},
         Enters(c, tx)
  PROVE  CatalogTypeOK' /\ ServedInv'
<1>1. tx_status' \in [TxId -> Status] /\ next_tx_id' \in kInitialTxId..(MaxTx + 1)
  BY CatalogAssumption DEF CatalogTypeOK, Enters, Begin, TxId, kInitialTxId, Status
<1>2. context' \in [Client -> TxId \cup {NoTx, EmptyTx}]
  BY DEF CatalogTypeOK, Enters
<1>3. CatalogTypeOK'
  BY <1>1, <1>2 DEF CatalogTypeOK, Enters
<1>4. ServedInv'
  BY DEF ServedInv, Enters
<1> QED BY <1>3, <1>4

LEMMA TypesStarts ==
  ASSUME CatalogTypeOK, ServedInv, NEW c \in Client, NEW k \in Calls, Starts(c, k)
  PROVE  CatalogTypeOK' /\ ServedInv'
<1>1. tx_status' \in [TxId -> Status] /\ next_tx_id' \in kInitialTxId..(MaxTx + 1)
  BY CatalogAssumption DEF CatalogTypeOK, Starts, Begin, MarkCommited, TxId, kInitialTxId, Status
<1>2. calls' \in [Client -> Calls]
  BY DEF CatalogTypeOK, Starts
<1>3. CatalogTypeOK'
  BY <1>1, <1>2 DEF CatalogTypeOK, Starts
<1>4. k.tx \in TxId /\ k.pc \in {"check", "commit"} /\ (k.pc = "check" => k.name \in Key)
  BY CatalogAssumption DEF Starts, Begin, CatalogTypeOK, TxId
<1>5. \A d \in Client : calls'[d] = IF d = c THEN k ELSE calls[d]
  BY DEF CatalogTypeOK, Starts
<1>6. UNCHANGED <<rows, directories, unmade>>
  BY DEF Starts
<1>7. ServedInv'
  BY <1>4, <1>5, <1>6 DEF ServedInv
<1> QED BY <1>3, <1>7

LEMMA TypesProceeds ==
  ASSUME CatalogTypeOK, ServedInv, NEW c \in Client, NEW k \in Calls, Proceeds(c, k)
  PROVE  CatalogTypeOK' /\ ServedInv'
<1>1. calls' \in [Client -> Calls]
  BY DEF CatalogTypeOK, Proceeds
<1>2. \A d \in Client : calls'[d] = IF d = c THEN k ELSE calls[d]
  BY DEF CatalogTypeOK, Proceeds
<1>3. /\ directories' \cup unmade' \subseteq Nat /\ overlapped' \in BOOLEAN
      /\ directories \cup unmade \subseteq directories' \cup unmade'
  BY Zenon DEF CatalogTypeOK, Proceeds, Calls
<1>4. CatalogTypeOK'
  BY <1>1, <1>3 DEF CatalogTypeOK, Proceeds
<1>5. /\ k.tx = calls[c].tx /\ k.name = calls[c].name /\ k.op = calls[c].op
      /\ calls[c].pc \notin {"idle", "commit"} /\ k.pc \in {"lock", "wait", "mkdir", "init"}
      /\ k.pc \in {"lock", "wait"} => k.op \in {"create", "drop"}
      /\ k.pc = "init" => k.id \in directories' \cup unmade'
  BY DEF Proceeds, Same, ServedInv
<1>6. ServedInv'
  BY <1>2, <1>3, <1>5 DEF ServedInv, Proceeds
<1> QED BY <1>4, <1>6

LEMMA TypesEnds ==
  ASSUME CatalogTypeOK, ServedInv, NEW c \in Client, Ends(c)
  PROVE  CatalogTypeOK' /\ ServedInv'
<1>1. calls[c].tx \in TxId
  BY DEF Ends, ServedInv
<1>2. PICK k \in Calls : /\ calls' = [calls EXCEPT ![c] = k]
                         /\ k.pc = "idle" \/ (k.pc = "commit" /\ k.tx = calls[c].tx)
  BY IdleIsCall, CallMoves DEF Ends, CatalogTypeOK, PCs, Same
<1>3. calls' \in [Client -> Calls]
  BY <1>2 DEF CatalogTypeOK
<1>4. tx_status' \in [TxId -> Status]
  BY <1>1 DEF CatalogTypeOK, Ends, MarkCommited, Status
<1>5. storages' \subseteq directories \cup unmade
  BY DEF CatalogTypeOK, ServedInv, Ends
<1>6. CatalogTypeOK'
  BY <1>3, <1>4, <1>5 DEF CatalogTypeOK, Ends
<1>7. \A d \in Client : calls'[d] = IF d = c THEN k ELSE calls[d]
  BY <1>2 DEF CatalogTypeOK
<1>8. ServedInv'
  BY <1>1, <1>2, <1>7 DEF ServedInv, Ends
<1> QED BY <1>6, <1>8

LEMMA TypesPutRow ==
  ASSUME CatalogTypeOK, ServedInv, NEW c \in Client, PutRow(c)
  PROVE  /\ CatalogTypeOK' /\ ServedInv'
         /\ \E row \in Row, k \in Calls :
              /\ rows' = rows \cup {row}
              /\ row.name = calls[c].name /\ row.tx = calls[c].tx /\ row.seq = NextSeq
              /\ row.status = IF calls[c].op = "create" THEN "created" ELSE "dropped"
              /\ calls[c].op # "create" => row.id = calls[c].id
              /\ calls' = [calls EXCEPT ![c] = k]
              /\ Same(k, c) /\ k.pc = "log" /\ k.id = row.id
<1> DEFINE id == IF calls[c].op = "create" THEN NextSeq ELSE calls[c].id
           row == [seq |-> NextSeq, name |-> calls[c].name, tx |-> calls[c].tx, id |-> id,
                   status |-> IF calls[c].op = "create" THEN "created" ELSE "dropped"]
           k == [calls[c] EXCEPT !.pc = "log", !.id = id]
<1>1. /\ calls[c].pc = "lock" /\ calls[c].tx \in TxId /\ calls[c].name \in Key
      /\ calls[c].op \in {"create", "drop"} /\ calls[c].id \in Nat /\ calls[c] \in Calls
  BY DEF PutRow, ServedInv, CatalogTypeOK, Calls
<1>2. NextSeq \in Nat \ {0} /\ \A r \in rows : r.seq < NextSeq
  BY NextSeqIsNew DEF CatalogTypeOK, ServedInv
<1>3. id \in Nat
  BY <1>1, <1>2
<1>4. rows' = rows \cup {row} /\ calls' = [calls EXCEPT ![c].pc = "log", ![c].id = id]
  BY DEF PutRow
<1>5. row.name = calls[c].name /\ row.tx = calls[c].tx /\ row.seq = NextSeq /\ row.id = id
      /\ row.status = IF calls[c].op = "create" THEN "created" ELSE "dropped"
  OBVIOUS
<1>6. (calls[c].op # "create" => id = calls[c].id)
  OBVIOUS
<1> HIDE DEF id
<1>7. k \in Calls /\ k.pc = "log" /\ k.id = id /\ Same(k, c)
  BY <1>1, <1>3, Zenon DEF Calls, Same
<1>8. calls' = [calls EXCEPT ![c] = k]
  BY <1>4, Zenon
<1>9. row \in Row
  BY <1>1, <1>2, <1>3 DEF Row
<1> HIDE DEF k, row
<1>10. calls' \in [Client -> Calls]
  BY <1>7, <1>8 DEF CatalogTypeOK
<1>11. row_locks' \in [Key -> TxId \cup {NoTx}] /\ tx_locks' \in [TxId -> SUBSET Key]
  BY <1>1 DEF CatalogTypeOK, PutRow, RecordRowLock
<1>12. CatalogTypeOK'
  BY <1>4, <1>9, <1>10, <1>11 DEF CatalogTypeOK, PutRow
<1>13. \A d \in Client : calls'[d] = IF d = c THEN k ELSE calls[d]
  BY <1>8 DEF CatalogTypeOK
<1>14. \A r \in rows' : r.seq <= row.seq
  BY <1>2, <1>4, <1>5 DEF CatalogTypeOK, Row
<1>15. ServedInv'
  <2>1. \E last \in rows' : \A r \in rows' : r.seq <= last.seq
    BY <1>4, <1>14
  <2>2. k.pc = "log" /\ k.tx \in TxId /\ k.name \in Key /\ k.op \in {"create", "drop"}
    BY <1>1, <1>7 DEF Same
  <2>3. UNCHANGED <<directories, unmade>>
    BY DEF PutRow
  <2> QED BY <1>13, <2>1, <2>2, <2>3 DEF ServedInv
<1> QED BY <1>4, <1>5, <1>6, <1>7, <1>8, <1>9, <1>12, <1>15, ZenonT(60)

\* The commit of a call is answered: who waits for a lock tries again.
LEMMA TypesCommitLogged ==
  ASSUME CatalogTypeOK, ServedInv, NEW c \in Client, CommitLogged(c)
  PROVE  /\ CatalogTypeOK' /\ ServedInv'
         /\ calls'[c] = Idle
         /\ \A d \in Client \ {c} :
              /\ calls'[d] \in Calls
              /\ calls'[d].tx = calls[d].tx /\ calls'[d].name = calls[d].name
              /\ calls'[d].op = calls[d].op /\ calls'[d].id = calls[d].id
              /\ calls'[d].is_autocommit = calls[d].is_autocommit
              /\ \/ calls'[d].pc = calls[d].pc
                 \/ calls[d].pc = "wait" /\ calls'[d].pc = "lock"
<1>1. calls[c].pc = "commit" /\ calls[c].tx \in TxId
  BY DEF CommitLogged, ServedInv
<1>2. calls' = [d \in Client |->
       IF d = c THEN Idle
       ELSE IF calls[d].pc = "wait" /\ ReleaseNotifies(calls[c].tx)
            THEN [calls[d] EXCEPT !.pc = "lock"] ELSE calls[d]]
  BY DEF CommitLogged
<1>3. calls'[c] = Idle
  BY <1>2
<1>4. ASSUME NEW d \in Client \ {c}
      PROVE  /\ calls'[d] \in Calls
             /\ calls'[d].tx = calls[d].tx /\ calls'[d].name = calls[d].name
             /\ calls'[d].op = calls[d].op /\ calls'[d].id = calls[d].id
             /\ calls'[d].is_autocommit = calls[d].is_autocommit
             /\ \/ calls'[d].pc = calls[d].pc
                \/ calls[d].pc = "wait" /\ calls'[d].pc = "lock"
  <2>1. calls[d] \in Calls
    BY DEF CatalogTypeOK
  <2>2. CASE calls[d].pc = "wait" /\ ReleaseNotifies(calls[c].tx)
    <3>1. calls'[d] = [calls[d] EXCEPT !.pc = "lock"]
      BY <1>2, <2>2
    <3> QED BY <2>1, <2>2, <3>1 DEF Calls
  <2>3. CASE ~(calls[d].pc = "wait" /\ ReleaseNotifies(calls[c].tx))
    BY <1>2, <2>1, <2>3
  <2> QED BY <2>2, <2>3
<1>5. calls' \in [Client -> Calls]
  BY <1>2, <1>3, <1>4, IdleIsCall
<1>6. row_locks' \in [Key -> TxId \cup {NoTx}] /\ tx_locks' \in [TxId -> SUBSET Key]
  BY <1>1 DEF CatalogTypeOK, CommitLogged, ReleaseAllLocks
<1>7. context' \in [Client -> TxId \cup {NoTx, EmptyTx}]
  BY DEF CatalogTypeOK, CommitLogged
<1>8. CatalogTypeOK'
  BY <1>5, <1>6, <1>7 DEF CatalogTypeOK, CommitLogged
<1>9. UNCHANGED <<rows, directories, unmade>>
  BY DEF CommitLogged
<1>10. ServedInv'
  BY <1>3, <1>4, <1>9, IdleIsCall DEF ServedInv
<1> QED BY <1>3, <1>4, <1>8, <1>10

\* A restart: nobody is served, and no id that will be handed out is in use, unless that is
\* noticed as orphaned.
LEMMA TypesRestart ==
  ASSUME Laws, CatalogTypeOK, ServedInv,
         NEW lostRows \in SUBSET RowsInFlight, NEW lostCommits \in SUBSET CommitsInFlight,
         Restart(lostRows, lostCommits)
  PROVE  /\ CatalogTypeOK' /\ ServedInv'
         /\ \A c \in Client : calls'[c] = Idle
         /\ \A tx \in TxId : tx_status'[tx] = IF IsCommited(tx) /\ tx \notin lostCommits
                                              THEN "commited" ELSE "unknown"
         /\ \A tx \in TxId : tx_status'[tx] = "commited" => tx < next_tx_id'
         /\ ~orphaned' => /\ ~orphaned
                          /\ \A r \in rows' : r.tx < next_tx_id'
                          /\ \A c \in Client : context'[c] < next_tx_id'
<1> DEFINE commited == {tx \in TxId : IsCommited(tx)} \ lostCommits
           next == Max({tx + 1 : tx \in commited} \cup {kInitialTxId})
<1>1. /\ tx_status' = [tx \in TxId |-> IF tx \in commited THEN "commited" ELSE "unknown"]
      /\ next_tx_id' = next
      /\ orphaned' = (orphaned \/ (\E r \in rows \ lostRows : r.tx >= next)
                               \/ (\E c \in Client : context[c] >= next))
  BY DEF Restart
<1>2. commited \in SUBSET TxId
  OBVIOUS
<1>3. \A tx \in TxId : tx \in commited <=> IsCommited(tx) /\ tx \notin lostCommits
  OBVIOUS
<1> HIDE DEF commited
<1>4. next \in kInitialTxId..(MaxTx + 1) /\ \A tx \in commited : tx < next
  BY <1>2, NextIdFollows, Zenon
<1> HIDE DEF next
<1>5. /\ \A c \in Client : calls'[c] = Idle
      /\ calls' \in [Client -> Calls]
  BY IdleIsCall DEF Restart
<1>6. tx_status' \in [TxId -> Status] /\ next_tx_id' \in kInitialTxId..(MaxTx + 1)
      /\ orphaned' \in BOOLEAN
  BY <1>1, <1>4 DEF Status, CatalogTypeOK
<1>7. rows' = rows \ lostRows /\ rows' \subseteq Row /\ storages' = directories
  BY DEF Restart, CatalogTypeOK, RecoveredStorages
<1>8. /\ row_locks' \in [Key -> TxId \cup {NoTx}] /\ tx_locks' \in [TxId -> SUBSET Key]
      /\ restarts' \in 0..MaxRestarts
  BY CatalogAssumption DEF Restart, CatalogTypeOK
<1>9. CatalogTypeOK'
  BY <1>5, <1>6, <1>7, <1>8 DEF CatalogTypeOK, Restart
<1>10. rows' # {} => \E last \in rows' : \A r \in rows' : r.seq <= last.seq
  <2> SUFFICES ASSUME rows' # {} PROVE \E last \in rows' : \A r \in rows' : r.seq <= last.seq
    OBVIOUS
  <2> DEFINE S == {r.seq : r \in rows'}
  <2>1. PICK last \in rows : \A r \in rows : r.seq <= last.seq
    BY <1>7 DEF ServedInv
  <2>2. S \in SUBSET Nat /\ S # {} /\ last.seq \in Nat
    BY <1>7, <2>1 DEF Row, CatalogTypeOK
  <2>3. \A s \in S : s <= last.seq
    BY <1>7, <2>1
  <2>4. PICK m \in S : \A s \in S : s <= m
    <3> HIDE DEF S
    <3> QED BY <2>2, <2>3, Zenon DEF Laws, MaxLaw
  <2>5. PICK r \in rows' : r.seq = m
    BY <2>4
  <2> QED BY <2>4, <2>5
<1>11. ServedInv'
  BY <1>5, <1>10, IdleIsCall DEF ServedInv
<1>12. \A tx \in TxId : tx_status'[tx] = IF IsCommited(tx) /\ tx \notin lostCommits
                                        THEN "commited" ELSE "unknown"
  BY <1>1, <1>3
<1>13. \A tx \in TxId : tx_status'[tx] = "commited" => tx < next_tx_id'
  BY <1>1, <1>4
<1>14. ASSUME ~orphaned'
       PROVE  /\ ~orphaned
              /\ \A r \in rows' : r.tx < next_tx_id'
              /\ \A c \in Client : context'[c] < next_tx_id'
  <2>1. /\ ~orphaned
        /\ \A r \in rows' : ~(r.tx >= next)
        /\ \A c \in Client : ~(context[c] >= next)
    BY <1>1, <1>7, <1>14, Zenon
  <2>2. next \in Nat /\ (\A r \in rows' : r.tx \in Nat)
        /\ \A c \in Client : context[c] \in Nat
    BY <1>4, <1>7, CatalogAssumption DEF CatalogTypeOK, Row, TxId, NoTx, EmptyTx, kInitialTxId
  <2>3. context' = context
    BY DEF Restart
  <2> QED BY <1>1, <2>1, <2>2, <2>3
<1> QED BY <1>5, <1>9, <1>11, <1>12, <1>13, <1>14

-----------------------------------------------------------------------------
\* Who owns which transaction.
Sessions == NewIdsInv /\ OneOwner /\ SessionInv

LEMMA TxIdsAreNumbers == TxId \subseteq Nat /\ NoTx \notin TxId /\ EmptyTx \notin TxId
  BY CatalogAssumption DEF TxId, kInitialTxId, NoTx, EmptyTx

LEMMA NumbersOf ==
  ASSUME CatalogTypeOK
  PROVE  /\ \A c \in Client : context[c] \in Nat /\ calls[c].tx \in Nat
         /\ \A r \in rows : r.tx \in Nat
         /\ next_tx_id \in Nat
<1>1. NoTx \in Nat /\ EmptyTx \in Nat
  BY DEF NoTx, EmptyTx
<1>2. \A c \in Client : context[c] \in TxId \cup {NoTx, EmptyTx}
  BY DEF CatalogTypeOK
<1>3. \A c \in Client : calls[c].tx \in TxId \cup {NoTx}
  BY DEF CatalogTypeOK, Calls
<1>4. \A r \in rows : r.tx \in TxId
  BY DEF CatalogTypeOK, Row
<1>5. next_tx_id \in Nat
  BY CatalogAssumption DEF CatalogTypeOK, kInitialTxId
<1> QED BY <1>1, <1>2, <1>3, <1>4, <1>5, TxIdsAreNumbers, Zenon

LEMMA SessionsInit == CatalogInit => Sessions
<1> SUFFICES ASSUME CatalogInit PROVE Sessions
  OBVIOUS
<1>1. \A c \in Client : calls[c] = Idle /\ context[c] = NoTx
  BY DEF CatalogInit
<1>2. rows = {} /\ next_tx_id = kInitialTxId /\ \A tx \in TxId : tx_status[tx] = "unknown"
  BY DEF CatalogInit, TxStorageInit
<1>3. NewIdsInv
  BY <1>1, <1>2, IdleIsCall DEF NewIdsInv, NoTx, kInitialTxId
<1>4. OneOwner
  BY <1>1, TxIdsAreNumbers DEF OneOwner
<1>5. SessionInv
  BY <1>1, IdleIsCall DEF SessionInv
<1> QED BY <1>3, <1>4, <1>5 DEF Sessions

\* Begin hands out an id that is new.
LEMMA BeginsNew ==
  ASSUME CatalogTypeOK, NewIdsInv, Begin
  PROVE  /\ next_tx_id \in TxId /\ next_tx_id' = next_tx_id + 1
         /\ tx_status[next_tx_id] = "unknown"
         /\ \A tx \in TxId : tx_status'[tx] = IF tx = next_tx_id THEN "started" ELSE tx_status[tx]
  BY CatalogAssumption DEF CatalogTypeOK, NewIdsInv, Begin, TxId, kInitialTxId

LEMMA SessionsEnters ==
  ASSUME CatalogTypeOK, ServedInv, Sessions, ~orphaned,
         NEW c \in Client, NEW tx \in TxId \cup {NoTx, EmptyTx}, Enters(c, tx)
  PROVE  Sessions'
<1> USE TxIdsAreNumbers
<1>1. \A d \in Client : context'[d] = IF d = c THEN tx ELSE context[d]
  BY DEF CatalogTypeOK, Enters
<1>2. UNCHANGED <<calls, rows, orphaned>>
  BY DEF Enters
<1>3. next_tx_id \in Nat /\ next_tx_id' \in Nat /\ next_tx_id <= next_tx_id'
  BY CatalogAssumption DEF CatalogTypeOK, Enters, Begin, kInitialTxId
<1>4. /\ \A t \in TxId : t >= next_tx_id' => tx_status'[t] = "unknown"
      /\ tx < next_tx_id'
      /\ \A t \in TxId : t < next_tx_id => tx_status'[t] = tx_status[t]
  <2>1. CASE Begin /\ tx = next_tx_id
    <3>1. /\ next_tx_id' = next_tx_id + 1
          /\ \A t \in TxId : tx_status'[t] = IF t = next_tx_id THEN "started" ELSE tx_status[t]
      BY <2>1, BeginsNew DEF Sessions
    <3>2. \A t \in TxId : t \in Nat
      OBVIOUS
    <3>3. \A t \in TxId : t >= next_tx_id => tx_status[t] = "unknown"
      BY Zenon DEF Sessions, NewIdsInv
    <3>4. ASSUME NEW t \in TxId
          PROVE  /\ t >= next_tx_id' => tx_status'[t] = "unknown"
                 /\ t < next_tx_id => tx_status'[t] = tx_status[t]
      <4>1. t \in Nat
        BY <3>2
      <4> QED BY <1>3, <3>1, <3>3, <4>1
    <3>5. tx < next_tx_id'
      BY <1>3, <2>1, <3>1
    <3> QED BY <3>4, <3>5
  <2>2. CASE tx \in {NoTx, EmptyTx} /\ UNCHANGED <<tx_status, next_tx_id>>
    BY <2>2, CatalogAssumption
    DEF Sessions, NewIdsInv, CatalogTypeOK, kInitialTxId, NoTx, EmptyTx
  <2> QED BY <2>1, <2>2 DEF Enters
<1>5. \A d \in Client : context[d] \in Nat /\ calls[d].tx \in Nat
  BY NumbersOf
<1>6. \A r \in rows : r.tx \in Nat
  BY NumbersOf
<1>7. NewIdsInv'
  BY <1>1, <1>2, <1>3, <1>4, <1>5, <1>6 DEF Sessions, NewIdsInv
<1>8. tx \in TxId => /\ \A d \in Client : context[d] # tx
                     /\ \A d \in Client : calls[d].tx # tx
  <2>1. tx \in TxId => tx = next_tx_id
    BY DEF Enters
  <2> QED BY <1>5, <2>1, <1>3 DEF Sessions, NewIdsInv
<1>9. OneOwner'
  BY <1>1, <1>2, <1>8 DEF Sessions, OneOwner
<1>10. ASSUME NEW d \in Client, calls[d].pc # "idle"
       PROVE  context'[d] = context[d] /\ tx_status'[calls[d].tx] = tx_status[calls[d].tx]
  <2>1. d # c /\ calls[d].tx \in TxId /\ calls[d].tx < next_tx_id
    BY <1>10 DEF Enters, ServedInv, Sessions, NewIdsInv
  <2> QED BY <1>1, <1>4, <2>1, Zenon
<1>11. SessionInv'
  BY <1>2, <1>10 DEF Sessions, SessionInv, IsStarted, IsCommited
<1> QED BY <1>7, <1>9, <1>11 DEF Sessions

LEMMA SessionsStarts ==
  ASSUME CatalogTypeOK, ServedInv, Sessions, ~orphaned,
         NEW c \in Client, NEW k \in Calls, Starts(c, k)
  PROVE  Sessions'
<1> USE TxIdsAreNumbers
<1>1. \A d \in Client : calls'[d] = IF d = c THEN k ELSE calls[d]
  BY DEF CatalogTypeOK, Starts
<1>2. UNCHANGED <<context, rows, orphaned>>
  BY DEF Starts
<1>3. next_tx_id \in Nat /\ next_tx_id' \in Nat /\ next_tx_id <= next_tx_id'
  BY CatalogAssumption DEF CatalogTypeOK, Starts, Begin, kInitialTxId
<1>4. \A d \in Client : context[d] \in Nat /\ calls[d].tx \in Nat
  BY NumbersOf
<1>5. \A r \in rows : r.tx \in Nat
  BY NumbersOf
<1>6. /\ k.tx \in TxId /\ k.tx < next_tx_id' /\ k.pc \in {"check", "commit"}
      /\ tx_status'[k.tx] = IF k.pc = "commit" THEN "commited" ELSE "started"
      /\ context[c] = IF k.is_autocommit THEN NoTx ELSE k.tx
      /\ \A t \in TxId : t # k.tx => tx_status'[t] = tx_status[t]
      /\ \A t \in TxId : t >= next_tx_id' => tx_status'[t] = "unknown"
      /\ \A d \in Client \ {c} : calls[d].pc # "idle" => calls[d].tx # k.tx
      /\ \A d \in Client \ {c} : context[d] # k.tx
  <2>1. CASE Begin /\ k.tx = next_tx_id /\ k.pc = "check" /\ k.is_autocommit /\ context[c] = NoTx
    BY <1>3, <1>4, <2>1, BeginsNew DEF Sessions, NewIdsInv
  <2>2. CASE /\ k.tx = context[c] /\ ~k.is_autocommit /\ k.tx \in TxId /\ IsStarted(k.tx)
             /\ k.pc = "check" /\ UNCHANGED <<tx_status, next_tx_id>>
    BY <1>3, <1>4, <2>2 DEF Sessions, NewIdsInv, OneOwner, IsStarted
  <2>3. CASE /\ k.tx = context[c] /\ ~k.is_autocommit /\ k.tx \in TxId /\ IsStarted(k.tx)
             /\ k.pc = "commit" /\ MarkCommited(k.tx) /\ UNCHANGED next_tx_id
    BY <1>3, <1>4, <2>3 DEF Sessions, NewIdsInv, OneOwner, MarkCommited, CatalogTypeOK
  <2> QED BY <2>1, <2>2, <2>3 DEF Starts
<1>7. NewIdsInv'
  BY <1>1, <1>2, <1>3, <1>4, <1>5, <1>6 DEF Sessions, NewIdsInv
<1>8. OneOwner'
  BY <1>1, <1>2, <1>6 DEF Sessions, OneOwner
<1>9. ASSUME NEW d \in Client, d # c, calls[d].pc # "idle"
      PROVE  calls[d].tx # k.tx /\ tx_status'[calls[d].tx] = tx_status[calls[d].tx]
  BY <1>6, <1>9, Zenon DEF ServedInv
<1>10. SessionInv'
  BY <1>1, <1>2, <1>6, <1>9, SMTT(30) DEF Sessions, SessionInv, IsStarted, IsCommited
<1> QED BY <1>7, <1>8, <1>10 DEF Sessions

LEMMA SessionsProceeds ==
  ASSUME CatalogTypeOK, ServedInv, Sessions, ~orphaned,
         NEW c \in Client, NEW k \in Calls, Proceeds(c, k)
  PROVE  Sessions'
<1>1. \A d \in Client : calls'[d] = IF d = c THEN k ELSE calls[d]
  BY DEF CatalogTypeOK, Proceeds
<1>2. UNCHANGED <<tx_status, next_tx_id, context, rows, orphaned>>
  BY DEF Proceeds
<1>3. /\ k.tx = calls[c].tx /\ k.is_autocommit = calls[c].is_autocommit
      /\ calls[c].pc \notin {"idle", "commit"} /\ k.pc \notin {"idle", "commit"}
  BY DEF Proceeds, Same
<1>4. NewIdsInv'
  BY <1>1, <1>2, <1>3 DEF Sessions, NewIdsInv
<1>5. OneOwner'
  BY <1>1, <1>2, <1>3 DEF Sessions, OneOwner
<1>6. SessionInv'
  BY <1>1, <1>2, <1>3 DEF Sessions, SessionInv, IsStarted, IsCommited
<1> QED BY <1>4, <1>5, <1>6 DEF Sessions

LEMMA SessionsEnds ==
  ASSUME CatalogTypeOK, ServedInv, Sessions, ~orphaned, NEW c \in Client, Ends(c)
  PROVE  Sessions'
<1> USE TxIdsAreNumbers
<1>1. calls[c].tx \in TxId /\ calls[c].pc \notin {"idle", "commit"}
  BY DEF Ends, ServedInv
<1>2. PICK k \in Calls :
        /\ calls' = [calls EXCEPT ![c] = k]
        /\ \/ k.pc = "idle" /\ k.tx = NoTx /\ UNCHANGED tx_status
           \/ /\ k.pc = "commit" /\ k.tx = calls[c].tx
              /\ k.is_autocommit = calls[c].is_autocommit
              /\ MarkCommited(calls[c].tx)
  BY IdleIsCall, CallMoves DEF Ends, CatalogTypeOK, PCs, Same
<1>3. \A d \in Client : calls'[d] = IF d = c THEN k ELSE calls[d]
  BY <1>2 DEF CatalogTypeOK
<1>4. UNCHANGED <<next_tx_id, context, rows, orphaned>>
  BY DEF Ends
<1>5. /\ \A t \in TxId : t # calls[c].tx => tx_status'[t] = tx_status[t]
      /\ k.pc = "commit" => tx_status'[calls[c].tx] = "commited"
  BY <1>1, <1>2 DEF MarkCommited, CatalogTypeOK
<1>6. calls[c].tx < next_tx_id /\ NoTx < next_tx_id
  BY CatalogAssumption DEF Sessions, NewIdsInv, CatalogTypeOK, kInitialTxId, NoTx
<1>7. NewIdsInv'
  <2>1. \A t \in TxId : t >= next_tx_id => t # calls[c].tx
    BY <1>6, NumbersOf
  <2>2. k.tx < next_tx_id
    BY <1>2, <1>6
  <2> QED BY <1>3, <1>4, <1>5, <2>1, <2>2 DEF Sessions, NewIdsInv
<1>8. OneOwner'
  BY <1>2, <1>3, <1>4 DEF Sessions, OneOwner
<1>9. ASSUME NEW d \in Client, d # c, calls[d].pc # "idle"
      PROVE  calls[d].tx # calls[c].tx /\ tx_status'[calls[d].tx] = tx_status[calls[d].tx]
  BY <1>1, <1>5, <1>9, Zenon DEF ServedInv, Sessions, SessionInv
<1>10. SessionInv'
  BY <1>1, <1>2, <1>3, <1>4, <1>5, <1>9, SMTT(30) DEF Sessions, SessionInv, IsStarted, IsCommited
<1> QED BY <1>7, <1>8, <1>10 DEF Sessions

LEMMA SessionsPutRow ==
  ASSUME CatalogTypeOK, ServedInv, Sessions, ~orphaned, NEW c \in Client, PutRow(c)
  PROVE  Sessions'
<1>1. PICK row \in Row, k \in Calls :
        /\ rows' = rows \cup {row} /\ row.tx = calls[c].tx
        /\ calls' = [calls EXCEPT ![c] = k] /\ Same(k, c) /\ k.pc = "log"
  BY TypesPutRow
<1>2. \A d \in Client : calls'[d] = IF d = c THEN k ELSE calls[d]
  BY <1>1 DEF CatalogTypeOK
<1>3. UNCHANGED <<tx_status, next_tx_id, context, orphaned>>
  BY DEF PutRow
<1>4. /\ k.tx = calls[c].tx /\ k.is_autocommit = calls[c].is_autocommit
      /\ calls[c].pc = "lock" /\ k.pc = "log"
  BY <1>1 DEF PutRow, Same
<1>5. NewIdsInv'
  BY <1>1, <1>2, <1>3, <1>4 DEF Sessions, NewIdsInv
<1>6. OneOwner'
  BY <1>2, <1>3, <1>4 DEF Sessions, OneOwner
<1>7. SessionInv'
  BY <1>2, <1>3, <1>4 DEF Sessions, SessionInv, IsStarted, IsCommited
<1> QED BY <1>5, <1>6, <1>7 DEF Sessions

LEMMA SessionsCommitLogged ==
  ASSUME CatalogTypeOK, ServedInv, Sessions, ~orphaned, NEW c \in Client, CommitLogged(c)
  PROVE  Sessions'
<1> USE TxIdsAreNumbers
<1>1. /\ calls'[c].pc = "idle" /\ calls'[c].tx = NoTx
      /\ \A d \in Client \ {c} :
           /\ calls'[d].tx = calls[d].tx
           /\ calls'[d].is_autocommit = calls[d].is_autocommit
           /\ \/ calls'[d].pc = calls[d].pc
              \/ calls[d].pc = "wait" /\ calls'[d].pc = "lock"
  BY TypesCommitLogged, IdleIsCall
<1>2. UNCHANGED <<tx_status, next_tx_id, rows, orphaned>>
  BY DEF CommitLogged
<1>3. \A d \in Client : context'[d] = context[d] \/ (d = c /\ context'[d] = NoTx)
  BY DEF CommitLogged, CatalogTypeOK
<1>4. NoTx < next_tx_id
  BY CatalogAssumption DEF CatalogTypeOK, kInitialTxId, NoTx
<1>5. NewIdsInv'
  <2>1. \A d \in Client : context'[d] < next_tx_id
    BY <1>3, <1>4 DEF Sessions, NewIdsInv
  <2>2. \A d \in Client : calls'[d].tx < next_tx_id
    BY <1>1, <1>4 DEF Sessions, NewIdsInv
  <2> QED BY <1>2, <2>1, <2>2 DEF Sessions, NewIdsInv
<1>6. OneOwner'
  BY <1>1, <1>2, <1>3 DEF Sessions, OneOwner
<1>7. SessionInv'
  BY <1>1, <1>2, <1>3 DEF Sessions, SessionInv, IsStarted, IsCommited
<1> QED BY <1>5, <1>6, <1>7 DEF Sessions

LEMMA SessionsRestart ==
  ASSUME Laws, CatalogTypeOK, ServedInv, Sessions, ~orphaned, ~orphaned',
         NEW lostRows \in SUBSET RowsInFlight, NEW lostCommits \in SUBSET CommitsInFlight,
         Restart(lostRows, lostCommits)
  PROVE  Sessions'
<1> USE TxIdsAreNumbers
<1>1. /\ \A c \in Client : calls'[c] = Idle
      /\ \A tx \in TxId : tx_status'[tx] \in {"commited", "unknown"}
      /\ \A tx \in TxId : tx_status'[tx] = "commited" => tx < next_tx_id'
      /\ \A r \in rows' : r.tx < next_tx_id'
      /\ \A c \in Client : context'[c] < next_tx_id'
      /\ next_tx_id' \in kInitialTxId..(MaxTx + 1)
  BY TypesRestart, Zenon DEF CatalogTypeOK
<1>2. NoTx < next_tx_id' /\ next_tx_id' \in Nat
  BY <1>1, CatalogAssumption DEF kInitialTxId, NoTx
<1>3. \A tx \in TxId : tx \in Nat
  OBVIOUS
<1>4. NewIdsInv'
  <2>1. \A tx \in TxId : tx >= next_tx_id' => tx_status'[tx] = "unknown"
    <3> SUFFICES ASSUME NEW tx \in TxId, tx >= next_tx_id' PROVE tx_status'[tx] = "unknown"
      OBVIOUS
    <3>1. tx \in Nat /\ ~(tx < next_tx_id')
      BY <1>2, <1>3
    <3> QED BY <1>1, <3>1, Zenon
  <2>2. \A c \in Client : calls'[c].tx < next_tx_id'
    <3>1. Idle.tx = NoTx
      BY DEF Idle
    <3> QED BY <1>1, <1>2, <3>1, Zenon
  <2> QED BY <1>1, <2>1, <2>2, Zenon DEF NewIdsInv
<1>5. UNCHANGED context
  BY Zenon DEF Restart
<1>6. OneOwner'
  BY <1>1, <1>5, IdleIsCall DEF Sessions, OneOwner
<1>7. SessionInv'
  BY <1>1, IdleIsCall DEF SessionInv
<1> QED BY <1>4, <1>6, <1>7 DEF Sessions

-----------------------------------------------------------------------------
\* Storages.
LEMMA StorageInit == CatalogInit => StorageInv
  BY IdleIsCall DEF CatalogInit, StorageInv

\* The table that a session can see is not being created any more.
LEMMA VisibleStorage ==
  ASSUME CatalogTypeOK, ServedInv, Sessions, StorageInv, NEW c \in Client,
         calls[c].pc = "check"
  PROVE  GetStorageId(calls[c].name, calls[c].tx) \subseteq storages \cup unmade
<1> SUFFICES ASSUME NEW r \in rows, r.tx = calls[c].tx \/ IsCommited(r.tx)
             PROVE  r.id \in storages \cup unmade
  BY DEF GetStorageId, GetTableInfo
<1>1. tx_status[r.tx] # "unknown"
  BY DEF Sessions, SessionInv, IsStarted, IsCommited
<1>2. ASSUME BeingCreated(r) PROVE FALSE
  <2>1. PICK d \in Client : calls[d].pc \in {"log", "mkdir", "init"} /\ calls[d].tx = r.tx
    BY <1>2 DEF BeingCreated
  <2>2. IsStarted(r.tx)
    BY <2>1 DEF Sessions, SessionInv
  <2>3. r.tx = calls[c].tx
    BY <2>2 DEF IsStarted, IsCommited
  <2>4. d = c
    BY <2>1, <2>3 DEF Sessions, SessionInv
  <2> QED BY <2>1, <2>4
<1> QED BY <1>1, <1>2 DEF StorageInv

LEMMA StorageEnters ==
  ASSUME CatalogTypeOK, ServedInv, Sessions, StorageInv, ~orphaned,
         NEW c \in Client, NEW tx \in TxId \cup {NoTx, EmptyTx}, Enters(c, tx)
  PROVE  StorageInv'
<1>1. \A r \in rows : tx_status[r.tx] = "unknown" => tx_status'[r.tx] = "unknown"
  <2>1. \A r \in rows : r.tx \in TxId /\ r.tx < next_tx_id /\ r.tx \in Nat
    BY NumbersOf DEF CatalogTypeOK, Row, Sessions, NewIdsInv
  <2>2. next_tx_id \in Nat
    BY NumbersOf
  <2>3. CASE Begin
    BY <2>1, <2>2, <2>3, BeginsNew DEF Sessions
  <2>4. CASE UNCHANGED tx_status
    BY <2>4
  <2> QED BY <2>3, <2>4 DEF Enters
<1>2. UNCHANGED <<calls, rows, storages, unmade>>
  BY DEF Enters
<1> QED BY <1>1, <1>2 DEF StorageInv, BeingCreated

LEMMA StorageStarts ==
  ASSUME CatalogTypeOK, ServedInv, Sessions, StorageInv, ~orphaned,
         NEW c \in Client, NEW k \in Calls, Starts(c, k)
  PROVE  StorageInv'
<1>1. \A r \in rows : tx_status[r.tx] = "unknown" => tx_status'[r.tx] = "unknown"
  <2>1. \A r \in rows : r.tx \in TxId /\ r.tx < next_tx_id /\ r.tx \in Nat
    BY NumbersOf DEF CatalogTypeOK, Row, Sessions, NewIdsInv
  <2>2. next_tx_id \in Nat
    BY NumbersOf
  <2>3. CASE Begin
    BY <2>1, <2>2, <2>3, BeginsNew DEF Sessions
  <2>4. CASE UNCHANGED tx_status
    BY <2>4
  <2>5. CASE MarkCommited(k.tx) /\ IsStarted(k.tx)
    BY <2>1, <2>5 DEF MarkCommited, IsStarted, CatalogTypeOK
  <2> QED BY <2>3, <2>4, <2>5 DEF Starts
<1>2. \A d \in Client : calls'[d] = IF d = c THEN k ELSE calls[d]
  BY DEF CatalogTypeOK, Starts
<1>3. calls[c].pc = "idle" /\ k.pc \in {"check", "commit"}
  BY DEF Starts
<1>4. UNCHANGED <<rows, storages, unmade>>
  BY DEF Starts
<1>5. \A r \in rows : BeingCreated(r) => BeingCreated(r)'
  BY <1>2, <1>3 DEF BeingCreated
<1> QED BY <1>1, <1>2, <1>3, <1>4, <1>5 DEF StorageInv

LEMMA StorageProceeds ==
  ASSUME CatalogTypeOK, ServedInv, Sessions, StorageInv, ~orphaned,
         NEW c \in Client, NEW k \in Calls, Proceeds(c, k)
  PROVE  StorageInv'
<1>1. \A d \in Client : calls'[d] = IF d = c THEN k ELSE calls[d]
  BY Zenon DEF CatalogTypeOK, Proceeds
<1>2. UNCHANGED <<tx_status, rows, storages>> /\ unmade \subseteq unmade'
  BY DEF Proceeds
<1>3. /\ k.tx = calls[c].tx /\ k.name = calls[c].name /\ k.op = calls[c].op
      /\ calls[c].pc \in {"log", "mkdir", "init"} =>
           k.pc \in {"log", "mkdir", "init"} /\ k.id = calls[c].id
  BY DEF Proceeds, Same
<1>4. \A r \in rows : BeingCreated(r) => BeingCreated(r)'
  BY <1>1, <1>3 DEF BeingCreated
<1>5. ASSUME k.op = "drop", k.pc \in {"lock", "wait", "log"} PROVE k.id \in storages \cup unmade
  <2>1. CASE calls[c].pc = "check"
    <3>1. k.id \in GetStorageId(k.name, k.tx)
      BY <1>5, <2>1 DEF Proceeds
    <3> QED BY <1>3, <2>1, <3>1, VisibleStorage
  <2>2. CASE calls[c].pc # "check"
    <3>1. calls[c].pc \in {"lock", "wait", "log"} /\ k.id = calls[c].id
      BY <1>5, <2>2 DEF Proceeds
    <3> QED BY <1>3, <1>5, <3>1, Zenon DEF StorageInv
  <2> QED BY <2>1, <2>2
<1> QED BY <1>1, <1>2, <1>4, <1>5 DEF StorageInv

LEMMA StorageEnds ==
  ASSUME CatalogTypeOK, ServedInv, Sessions, StorageInv, ~orphaned, NEW c \in Client, Ends(c)
  PROVE  StorageInv'
<1>1. calls[c].tx \in TxId /\ IsStarted(calls[c].tx)
  BY DEF Ends, ServedInv, Sessions, SessionInv
<1>2. PICK k \in Calls : /\ calls' = [calls EXCEPT ![c] = k]
                         /\ k.pc \in {"idle", "commit"}
  BY IdleIsCall, CallMoves DEF Ends, CatalogTypeOK, PCs, Same
<1>3. \A d \in Client : calls'[d] = IF d = c THEN k ELSE calls[d]
  BY <1>2 DEF CatalogTypeOK
<1>4. \A r \in rows : tx_status[r.tx] = "unknown" => tx_status'[r.tx] = "unknown"
  <2>1. \A r \in rows : r.tx \in TxId
    BY DEF CatalogTypeOK, Row
  <2> QED BY <1>1, <2>1 DEF Ends, MarkCommited, IsStarted, CatalogTypeOK
<1>5. UNCHANGED <<rows, unmade>> /\ storages \subseteq storages'
  BY DEF Ends
<1>6. \A r \in rows : BeingCreated(r) => BeingCreated(r)' \/ r.id \in storages'
  <2>1. calls[c].pc \in {"log", "mkdir", "init"} /\ calls[c].op = "create"
        => calls[c].id \in storages'
    BY DEF Ends
  <2> QED BY <1>3, <2>1 DEF BeingCreated
<1> QED BY <1>2, <1>3, <1>4, <1>5, <1>6, SMTT(30) DEF StorageInv

LEMMA StoragePutRow ==
  ASSUME CatalogTypeOK, ServedInv, Sessions, StorageInv, ~orphaned, NEW c \in Client, PutRow(c)
  PROVE  StorageInv'
<1>1. PICK row \in Row, k \in Calls :
        /\ rows' = rows \cup {row} /\ row.tx = calls[c].tx
        /\ row.status = IF calls[c].op = "create" THEN "created" ELSE "dropped"
        /\ calls[c].op # "create" => row.id = calls[c].id
        /\ calls' = [calls EXCEPT ![c] = k] /\ Same(k, c) /\ k.pc = "log" /\ k.id = row.id
  BY TypesPutRow
<1>2. \A d \in Client : calls'[d] = IF d = c THEN k ELSE calls[d]
  BY <1>1 DEF CatalogTypeOK
<1>3. UNCHANGED <<tx_status, storages, unmade>>
  BY DEF PutRow
<1>4. /\ k.tx = calls[c].tx /\ k.op = calls[c].op
      /\ calls[c].pc = "lock" /\ calls[c].op \in {"create", "drop"}
  BY <1>1 DEF PutRow, Same, ServedInv
<1>5. \A r \in rows : BeingCreated(r) => BeingCreated(r)'
  BY <1>2, <1>4 DEF BeingCreated
<1>6. calls[c].op = "drop" => calls[c].id \in storages \cup unmade
  BY <1>4 DEF StorageInv
<1>7. calls[c].op = "create" => BeingCreated(row)'
  BY <1>1, <1>2, <1>4 DEF BeingCreated
<1>8. \/ row.id \in storages \cup unmade
      \/ row.status = "created" /\ BeingCreated(row)'
  BY <1>1, <1>4, <1>6, <1>7
<1>9. ASSUME NEW r \in rows'
      PROVE  \/ r.id \in storages' \cup unmade'
             \/ r.status = "created" /\ (tx_status'[r.tx] = "unknown" \/ BeingCreated(r)')
  BY <1>1, <1>3, <1>5, <1>8, <1>9, Zenon DEF StorageInv
<1>10. \A d \in Client : calls'[d].op = "drop" /\ calls'[d].pc \in {"lock", "wait", "log"}
                         => calls'[d].id \in storages' \cup unmade'
  <2> SUFFICES ASSUME NEW d \in Client, calls'[d].op = "drop",
                      calls'[d].pc \in {"lock", "wait", "log"}
               PROVE  calls'[d].id \in storages \cup unmade
    BY <1>3
  <2>1. CASE d = c
    <3>1. calls'[d] = k
      BY <1>2, <2>1
    <3>2. calls[c].op = "drop"
      BY <1>4, <3>1
    <3>3. k.id = calls[c].id
      BY <1>1, <3>2
    <3> QED BY <1>6, <3>1, <3>2, <3>3
  <2>2. CASE d # c
    <3>1. calls'[d] = calls[d]
      BY <1>2, <2>2
    <3> QED BY <3>1 DEF StorageInv
  <2> QED BY <2>1, <2>2
<1> QED BY <1>9, <1>10 DEF StorageInv

LEMMA StorageCommitLogged ==
  ASSUME CatalogTypeOK, ServedInv, Sessions, StorageInv, ~orphaned, NEW c \in Client,
         CommitLogged(c)
  PROVE  StorageInv'
<1>1. /\ calls'[c].pc = "idle" /\ calls[c].pc = "commit"
      /\ \A d \in Client \ {c} :
           /\ calls'[d].tx = calls[d].tx /\ calls'[d].op = calls[d].op
           /\ calls'[d].id = calls[d].id
           /\ \/ calls'[d].pc = calls[d].pc
              \/ calls[d].pc = "wait" /\ calls'[d].pc = "lock"
  BY TypesCommitLogged, IdleIsCall DEF CommitLogged
<1>2. UNCHANGED <<tx_status, rows, storages, unmade>>
  BY DEF CommitLogged
<1>3. \A r \in rows : BeingCreated(r) => BeingCreated(r)'
  BY <1>1 DEF BeingCreated
<1> QED BY <1>1, <1>2, <1>3 DEF StorageInv

LEMMA StorageRestart ==
  ASSUME Laws, CatalogTypeOK, ServedInv, Sessions, StorageInv,
         NEW lostRows \in SUBSET RowsInFlight, NEW lostCommits \in SUBSET CommitsInFlight,
         Restart(lostRows, lostCommits)
  PROVE  StorageInv'
<1>1. /\ \A c \in Client : calls'[c] = Idle
      /\ \A tx \in TxId : ~IsCommited(tx) => tx_status'[tx] = "unknown"
  BY TypesRestart, Zenon
<1>2. rows' \subseteq rows /\ storages' = directories /\ unmade' = unmade
  BY DEF Restart, RecoveredStorages
<1>3. ASSUME NEW r \in rows', r.id \notin storages' \cup unmade'
      PROVE  r.status = "created" /\ tx_status'[r.tx] = "unknown"
  <2>1. r \in rows /\ r.id \notin storages \cup unmade /\ r.tx \in TxId
    BY <1>2, <1>3 DEF CatalogTypeOK, Row
  <2>2. r.status = "created" /\ (tx_status[r.tx] = "unknown" \/ BeingCreated(r))
    BY <2>1 DEF StorageInv
  <2>3. BeingCreated(r) => IsStarted(r.tx)
    BY DEF BeingCreated, Sessions, SessionInv
  <2>4. ~IsCommited(r.tx)
    BY <2>2, <2>3 DEF IsStarted, IsCommited
  <2> QED BY <1>1, <2>1, <2>2, <2>4
<1> QED BY <1>1, <1>3, IdleIsCall DEF StorageInv

-----------------------------------------------------------------------------
\* What becomes of the rows there are: nothing that can commit is lost, nothing that was
\* lost can commit, and an answer stands.
Kept == \A r \in rows : /\ r \in rows'
                        /\ Live(r)' <=> Live(r)
                        /\ r \in Answered => r \in Answered'

LEMMA AnsweredRows ==
  /\ \A r : r \in Answered <=>
       r \in rows /\ IsCommited(r.tx) /\ \A c \in Client : calls[c].pc = "commit" => calls[c].tx # r.tx
  /\ \A r : r \in Answered' <=>
       /\ r \in rows' /\ tx_status'[r.tx] = "commited"
       /\ \A c \in Client : calls'[c].pc = "commit" => calls'[c].tx # r.tx
  BY DEF Answered, CommitsInFlight, IsCommited

LEMMA KeptEnters ==
  ASSUME CatalogTypeOK, ServedInv, Sessions, ~orphaned,
         NEW c \in Client, NEW tx \in TxId \cup {NoTx, EmptyTx}, Enters(c, tx)
  PROVE  Kept
<1>1. \A r \in rows : tx_status'[r.tx] = tx_status[r.tx]
  <2>1. \A r \in rows : r.tx \in TxId /\ r.tx < next_tx_id /\ r.tx \in Nat
    BY NumbersOf DEF CatalogTypeOK, Row, Sessions, NewIdsInv
  <2>2. next_tx_id \in Nat
    BY NumbersOf
  <2>3. CASE Begin
    BY <2>1, <2>2, <2>3, BeginsNew DEF Sessions
  <2>4. CASE UNCHANGED tx_status
    BY <2>4
  <2> QED BY <2>3, <2>4 DEF Enters
<1>2. UNCHANGED <<calls, rows>>
  BY DEF Enters
<1>3. \A r \in rows : Live(r)' <=> Live(r)
  BY <1>1 DEF Live, IsStarted, IsCommited
<1> QED BY <1>1, <1>2, <1>3, AnsweredRows, SMTT(30) DEF Kept, IsCommited

LEMMA KeptStarts ==
  ASSUME CatalogTypeOK, ServedInv, Sessions, ~orphaned,
         NEW c \in Client, NEW k \in Calls, Starts(c, k)
  PROVE  Kept
<1>0. \A r \in rows : r.tx \in TxId /\ r.tx < next_tx_id /\ r.tx \in Nat
  BY NumbersOf DEF CatalogTypeOK, Row, Sessions, NewIdsInv
<1>1. ASSUME NEW r \in rows
      PROVE  \/ tx_status'[r.tx] = tx_status[r.tx] /\ (k.pc = "commit" => k.tx # r.tx)
             \/ IsStarted(r.tx) /\ tx_status'[r.tx] = "commited"
  <2>2. next_tx_id \in Nat
    BY NumbersOf
  <2>3. CASE Begin /\ k.pc = "check"
    BY <1>0, <2>2, <2>3, BeginsNew DEF Sessions
  <2>4. CASE UNCHANGED tx_status /\ k.pc = "check"
    BY <2>4
  <2>5. CASE MarkCommited(k.tx) /\ IsStarted(k.tx)
    BY <1>0, <2>5 DEF MarkCommited, CatalogTypeOK
  <2> QED BY <2>3, <2>4, <2>5 DEF Starts
<1>2. \A d \in Client : calls'[d] = IF d = c THEN k ELSE calls[d]
  BY DEF CatalogTypeOK, Starts
<1>3. UNCHANGED rows
  BY DEF Starts
<1>4. \A r \in rows : Live(r)' <=> Live(r)
  BY <1>1 DEF Live, IsStarted, IsCommited
<1>5. \A r \in rows : r \in Answered => r \in Answered'
  BY <1>1, <1>2, <1>3, AnsweredRows DEF IsStarted, IsCommited
<1> QED BY <1>3, <1>4, <1>5 DEF Kept

LEMMA KeptProceeds ==
  ASSUME CatalogTypeOK, ServedInv, Sessions, ~orphaned,
         NEW c \in Client, NEW k \in Calls, Proceeds(c, k)
  PROVE  Kept
<1>1. \A d \in Client : calls'[d] = IF d = c THEN k ELSE calls[d]
  BY DEF CatalogTypeOK, Proceeds
<1>2. UNCHANGED <<tx_status, rows>> /\ k.pc # "commit"
  BY DEF Proceeds
<1>3. \A r \in rows : Live(r)' <=> Live(r)
  BY <1>2 DEF Live, IsStarted, IsCommited
<1> QED BY <1>1, <1>2, <1>3, AnsweredRows DEF Kept, IsCommited

LEMMA KeptEnds ==
  ASSUME CatalogTypeOK, ServedInv, Sessions, ~orphaned, NEW c \in Client, Ends(c)
  PROVE  Kept
<1>1. calls[c].tx \in TxId /\ IsStarted(calls[c].tx)
  BY DEF Ends, ServedInv, Sessions, SessionInv
<1>2. PICK k \in Calls :
        /\ calls' = [calls EXCEPT ![c] = k]
        /\ \/ k.pc = "idle" /\ UNCHANGED tx_status
           \/ k.pc = "commit" /\ k.tx = calls[c].tx /\ MarkCommited(calls[c].tx)
  BY IdleIsCall, CallMoves DEF Ends, CatalogTypeOK, PCs, Same
<1>3. \A d \in Client : calls'[d] = IF d = c THEN k ELSE calls[d]
  BY <1>2 DEF CatalogTypeOK
<1>4. UNCHANGED rows
  BY DEF Ends
<1>5. \A r \in rows : r.tx \in TxId
  BY DEF CatalogTypeOK, Row
<1>6. ASSUME NEW r \in rows
      PROVE  \/ tx_status'[r.tx] = tx_status[r.tx] /\ (k.pc = "commit" => k.tx # r.tx)
             \/ IsStarted(r.tx) /\ tx_status'[r.tx] = "commited"
  BY <1>1, <1>2, <1>5 DEF MarkCommited, CatalogTypeOK
<1>7. \A r \in rows : Live(r)' <=> Live(r)
  BY <1>6 DEF Live, IsStarted, IsCommited
<1>8. \A r \in rows : r \in Answered => r \in Answered'
  BY <1>3, <1>4, <1>6, AnsweredRows, SMTT(30) DEF IsStarted, IsCommited
<1> QED BY <1>4, <1>7, <1>8 DEF Kept

LEMMA KeptPutRow ==
  ASSUME CatalogTypeOK, ServedInv, Sessions, ~orphaned, NEW c \in Client, PutRow(c)
  PROVE  Kept
<1>1. PICK row \in Row, k \in Calls :
        rows' = rows \cup {row} /\ calls' = [calls EXCEPT ![c] = k] /\ k.pc = "log"
  BY TypesPutRow
<1>2. \A d \in Client : calls'[d] = IF d = c THEN k ELSE calls[d]
  BY <1>1 DEF CatalogTypeOK
<1>3. UNCHANGED tx_status
  BY DEF PutRow
<1>4. \A r \in rows : Live(r)' <=> Live(r)
  BY <1>3 DEF Live, IsStarted, IsCommited
<1>5. ASSUME NEW r \in Answered PROVE r \in Answered'
  <2>1. /\ r \in rows /\ tx_status[r.tx] = "commited"
        /\ \A d \in Client : calls[d].pc = "commit" => calls[d].tx # r.tx
    BY <1>5, AnsweredRows DEF IsCommited
  <2>2. r \in rows' /\ tx_status'[r.tx] = "commited"
    BY <1>1, <1>3, <2>1
  <2>3. \A d \in Client : calls'[d].pc = "commit" => calls'[d].tx # r.tx
    BY <1>1, <1>2, <2>1
  <2> QED BY <2>2, <2>3, AnsweredRows
<1>6. \A r \in rows : r \in rows'
  BY <1>1
<1> QED BY <1>4, <1>5, <1>6 DEF Kept

LEMMA KeptCommitLogged ==
  ASSUME CatalogTypeOK, ServedInv, Sessions, ~orphaned, NEW c \in Client, CommitLogged(c)
  PROVE  Kept
<1>1. /\ calls'[c].pc = "idle"
      /\ \A d \in Client \ {c} : calls'[d].tx = calls[d].tx
                                 /\ (calls'[d].pc = "commit" => calls[d].pc = "commit")
  BY TypesCommitLogged, IdleIsCall
<1>2. UNCHANGED <<tx_status, rows>>
  BY DEF CommitLogged
<1>3. \A r \in rows : Live(r)' <=> Live(r)
  BY <1>2 DEF Live, IsStarted, IsCommited
<1> QED BY <1>1, <1>2, <1>3, AnsweredRows, SMTT(30) DEF Kept, IsCommited

\* A restart forgets what was not committed; what it finds committed is answered.
LEMMA KeptRestart ==
  ASSUME Laws, CatalogTypeOK, ServedInv, Sessions,
         NEW lostRows \in SUBSET RowsInFlight, NEW lostCommits \in SUBSET CommitsInFlight,
         Restart(lostRows, lostCommits)
  PROVE  /\ \A r \in Answered : r \in Answered'
         /\ \A r \in rows' : Live(r)' => IsCommited(r.tx) /\ r \in Answered'
         /\ \A r \in rows : IsCommited(r.tx) => r \in rows'
<1>1. /\ \A c \in Client : calls'[c] = Idle
      /\ \A tx \in TxId : tx_status'[tx] = IF IsCommited(tx) /\ tx \notin lostCommits
                                           THEN "commited" ELSE "unknown"
  BY TypesRestart, Zenon
<1>2. rows' = rows \ lostRows /\ \A r \in rows : r.tx \in TxId
  BY Zenon DEF Restart, CatalogTypeOK, Row
<1>3. \A r \in rows : IsCommited(r.tx) => r \in rows'
  <2>1. \A r \in lostRows : IsStarted(r.tx)
    BY ZenonT(30) DEF RowsInFlight, Sessions, SessionInv
  <2> QED BY <1>2, <2>1 DEF IsStarted, IsCommited
<1>4. \A c \in Client : calls'[c].pc # "commit"
  BY <1>1, IdleIsCall
<1>5. ASSUME NEW r \in rows', Live(r)' PROVE IsCommited(r.tx) /\ r \in Answered'
  <2>1. tx_status'[r.tx] \in {"started", "commited"} /\ r.tx \in TxId
    BY <1>2, <1>5, Zenon DEF Live, IsStarted, IsCommited
  <2>2. IsCommited(r.tx) /\ tx_status'[r.tx] = "commited"
    BY <1>1, <2>1
  <2> QED BY <1>4, <2>2, AnsweredRows, Zenon
<1>6. ASSUME NEW r \in Answered PROVE r \in Answered'
  <2>1. r \in rows /\ IsCommited(r.tx) /\ r.tx \notin lostCommits
    BY DEF Answered
  <2>2. tx_status'[r.tx] = "commited"
    BY <1>1, <1>2, <2>1
  <2> QED BY <1>3, <1>4, <2>1, <2>2, AnsweredRows
<1> QED BY <1>3, <1>5, <1>6

-----------------------------------------------------------------------------
\* Row locks.
LEMMA LockStays ==
  ASSUME LockInv, Kept, UNCHANGED <<rows, row_locks>>
  PROVE  LockInv'
  BY DEF LockInv, Kept

LEMMA LockPutRow ==
  ASSUME CatalogTypeOK, ServedInv, Sessions, LockInv, ~orphaned, NEW c \in Client, PutRow(c)
  PROVE  LockInv'
<1>1. PICK row \in Row :
        /\ rows' = rows \cup {row} /\ row.seq = NextSeq
        /\ row.name = calls[c].name /\ row.tx = calls[c].tx
  BY TypesPutRow
<1>2. /\ \A r \in rows : r.seq < NextSeq /\ r.seq \in Nat
      /\ NextSeq \in Nat
  BY NextSeqIsNew DEF CatalogTypeOK, ServedInv, Row
<1>3. \A r, s \in rows' : r.seq = s.seq => r = s
  BY <1>1, <1>2 DEF LockInv
<1>4. row_locks[row.name] = NoTx /\ row_locks' = [row_locks EXCEPT ![row.name] = row.tx]
  BY <1>1 DEF PutRow, RowIsFree, RecordRowLock
<1>5. \A key \in Key : row_locks'[key] = IF key = row.name THEN row.tx ELSE row_locks[key]
  BY <1>4 DEF CatalogTypeOK
<1>6. ASSUME NEW r \in rows, Live(r) PROVE r \in Answered' \/ row_locks'[r.name] = r.tx
  <2>1. r.tx \in TxId /\ r.name \in Key
    BY DEF CatalogTypeOK, Row
  <2>2. CASE r \in Answered
    BY <2>2, KeptPutRow DEF Kept
  <2>3. CASE row_locks[r.name] = r.tx
    BY <1>4, <1>5, <2>1, <2>3, TxIdsAreNumbers
  <2> QED BY <1>6, <2>2, <2>3 DEF LockInv
<1>7. row.name \in Key
  BY DEF Row
<1>8. ASSUME NEW r \in rows', Live(r)' PROVE r \in Answered' \/ row_locks'[r.name] = r.tx
  <2>1. CASE r = row
    BY <1>5, <1>7, <2>1
  <2>2. CASE r \in rows
    BY <1>6, <1>8, <2>2, KeptPutRow DEF Kept
  <2> QED BY <1>1, <2>1, <2>2
<1> QED BY <1>3, <1>8 DEF LockInv

LEMMA LockCommitLogged ==
  ASSUME CatalogTypeOK, ServedInv, Sessions, LockInv, ~orphaned, NEW c \in Client,
         CommitLogged(c)
  PROVE  LockInv'
<1>1. /\ calls'[c].pc = "idle" /\ calls[c].pc = "commit"
      /\ \A d \in Client \ {c} : calls'[d].tx = calls[d].tx
                                 /\ (calls'[d].pc = "commit" => calls[d].pc = "commit")
  BY TypesCommitLogged, IdleIsCall DEF CommitLogged
<1>2. UNCHANGED <<tx_status, rows>>
  BY DEF CommitLogged
<1>3. \A key \in Key : row_locks[key] # calls[c].tx => row_locks'[key] = row_locks[key]
  BY DEF CommitLogged, ReleaseAllLocks
<1>4. IsCommited(calls[c].tx) /\ \A d \in Client \ {c} : calls[d].pc = "commit" =>
                                    calls[d].tx # calls[c].tx
  BY <1>1 DEF Sessions, SessionInv
<1>5. ASSUME NEW r \in rows', Live(r)' PROVE r \in Answered' \/ row_locks'[r.name] = r.tx
  <2>1. r \in rows /\ Live(r) /\ r.name \in Key
    BY <1>2, <1>5, KeptCommitLogged DEF Kept, CatalogTypeOK, Row
  <2>2. CASE r \in Answered
    BY <2>2, KeptCommitLogged DEF Answered, Kept
  <2>3. CASE r.tx = calls[c].tx
    <3>1. r \in rows' /\ tx_status'[r.tx] = "commited"
      BY <1>2, <1>4, <2>1, <2>3 DEF IsCommited
    <3>2. \A d \in Client : calls'[d].pc = "commit" => calls'[d].tx # r.tx
      BY <1>1, <1>4, <2>3
    <3> QED BY <3>1, <3>2, AnsweredRows
  <2>4. CASE row_locks[r.name] = r.tx /\ r.tx # calls[c].tx
    BY <1>3, <2>1, <2>4
  <2> QED BY <2>1, <2>2, <2>3, <2>4 DEF LockInv
<1> QED BY <1>2, <1>5 DEF LockInv

LEMMA LockRestart ==
  ASSUME Laws, CatalogTypeOK, ServedInv, Sessions, LockInv,
         NEW lostRows \in SUBSET RowsInFlight, NEW lostCommits \in SUBSET CommitsInFlight,
         Restart(lostRows, lostCommits)
  PROVE  LockInv'
<1>1. rows' \subseteq rows
  BY DEF Restart
<1>2. \A r \in rows' : Live(r)' => r \in Answered'
  BY KeptRestart
<1> QED BY <1>1, <1>2 DEF LockInv

-----------------------------------------------------------------------------
\* Creations of one name.
LEMMA CreationStays ==
  ASSUME CreationInv, Kept, UNCHANGED rows,
         \A d \in Client, name \in Key : Creating(d, name)' => Creating(d, name)
  PROVE  CreationInv'
<1>1. \A name \in Key : \A c, d \in Client : Creating(c, name)' /\ Creating(d, name)' => c = d
  BY DEF CreationInv
<1>2. \A name \in Key, c \in Client : Creating(c, name)' =>
        \A r \in rows : r.name = name /\ r.status = "created" /\ Live(r)' =>
          \E d \in rows : d.name = name /\ d.status = "dropped" /\ Live(d)' /\ r.seq < d.seq
  BY DEF CreationInv, Kept
<1>3. ASSUME NEW r \in rows, NEW s \in rows, r.name = s.name, r.seq < s.seq, Live(r)', Live(s)',
             r.status = "created", s.status = "created"
      PROVE  Dropped(r, s.seq, s.tx)'
  <2>1. Dropped(r, s.seq, s.tx)
    BY <1>3 DEF CreationInv, Kept
  <2> QED BY <2>1 DEF Dropped, Kept
<1> QED BY <1>1, <1>2, <1>3 DEF CreationInv

LEMMA CreationStarts ==
  ASSUME CatalogTypeOK, ServedInv, Sessions, CreationInv, ~orphaned,
         NEW c \in Client, NEW k \in Calls, Starts(c, k)
  PROVE  CreationInv'
<1>1. \A d \in Client : calls'[d] = IF d = c THEN k ELSE calls[d]
  BY DEF CatalogTypeOK, Starts
<1>2. k.pc \in {"check", "commit"} /\ UNCHANGED rows
  BY DEF Starts
<1>3. \A d \in Client, name \in Key : Creating(d, name)' => Creating(d, name)
  BY <1>1, <1>2 DEF Creating
<1> QED BY <1>2, <1>3, KeptStarts, CreationStays

LEMMA CreationEnds ==
  ASSUME CatalogTypeOK, ServedInv, Sessions, CreationInv, ~orphaned, NEW c \in Client, Ends(c)
  PROVE  CreationInv'
<1>1. PICK k \in Calls : calls' = [calls EXCEPT ![c] = k] /\ k.pc \in {"idle", "commit"}
  BY IdleIsCall, CallMoves DEF Ends, CatalogTypeOK, PCs, Same
<1>2. \A d \in Client : calls'[d] = IF d = c THEN k ELSE calls[d]
  BY <1>1 DEF CatalogTypeOK
<1>3. \A d \in Client, name \in Key : Creating(d, name)' => Creating(d, name)
  BY <1>1, <1>2 DEF Creating
<1>4. UNCHANGED rows
  BY DEF Ends
<1> QED BY <1>3, <1>4, KeptEnds, CreationStays

LEMMA CreationCommitLogged ==
  ASSUME CatalogTypeOK, ServedInv, Sessions, CreationInv, ~orphaned, NEW c \in Client,
         CommitLogged(c)
  PROVE  CreationInv'
<1>1. /\ calls'[c].pc = "idle"
      /\ \A d \in Client \ {c} :
           /\ calls'[d].name = calls[d].name /\ calls'[d].op = calls[d].op
           /\ \/ calls'[d].pc = calls[d].pc
              \/ calls[d].pc = "wait" /\ calls'[d].pc = "lock"
  BY TypesCommitLogged, IdleIsCall
<1>2. \A d \in Client, name \in Key : Creating(d, name)' => Creating(d, name)
  BY <1>1 DEF Creating
<1>3. UNCHANGED rows
  BY DEF CommitLogged
<1> QED BY <1>2, <1>3, KeptCommitLogged, CreationStays

\* A session that finds no table, with nobody else creating it, finds that every table of
\* the name was dropped.
LEMMA CheckFindsDropped ==
  ASSUME Laws, CatalogTypeOK, ServedInv, Sessions, LockInv, NEW c \in Client, calls[c].pc = "check",
         NEW name \in Key, RowIsFree(name), GetStorageId(name, calls[c].tx) = {},
         NEW r \in rows, r.name = name, r.status = "created", Live(r)
  PROVE  \E d \in rows : d.name = name /\ d.status = "dropped" /\ Live(d) /\ r.seq < d.seq
<1> DEFINE tx == calls[c].tx
           seen == {s \in rows : s.name = name /\ (s.tx = tx \/ IsCommited(s.tx))}
           S == {s.seq : s \in seen}
<1>1. r \in seen
  <2>1. r.tx \in TxId /\ row_locks[name] = NoTx
    BY DEF CatalogTypeOK, Row, RowIsFree
  <2>2. r \in Answered
    BY <2>1, TxIdsAreNumbers DEF LockInv
  <2> QED BY <2>2 DEF Answered
<1>2. PICK last \in rows : \A s \in rows : s.seq <= last.seq
  BY DEF ServedInv
<1>3. /\ \A s \in rows : s.seq \in Nat /\ s.status \in {"created", "dropped"}
      /\ last.seq \in Nat
  BY DEF CatalogTypeOK, Row
<1>4. S \in SUBSET Nat /\ S # {} /\ \A n \in S : n <= last.seq
  BY <1>1, <1>2, <1>3, ZenonT(30)
<1>5. PICK m \in S : \A n \in S : n <= m
  <2> HIDE DEF S
  <2> QED BY <1>3, <1>4, Zenon DEF Laws, MaxLaw
<1>6. PICK d \in seen : d.seq = m
  BY <1>5, Zenon
<1>7. d \in GetTableInfo(name, tx)
  BY <1>5, <1>6, Zenon DEF GetTableInfo
<1>8. d.status = "dropped"
  <2>1. d.status # "created"
    BY <1>7 DEF GetStorageId
  <2> QED BY <1>3, <1>6, <2>1
<1>9. r.seq < d.seq
  <2>1. r.seq <= d.seq /\ r.seq \in Nat /\ d.seq \in Nat
    BY <1>1, <1>3, <1>5, <1>6
  <2>2. r.seq # d.seq
    BY <1>1, <1>6, <1>8 DEF LockInv
  <2> QED BY <2>1, <2>2, SMTT(30)
<1>10. Live(d)
  <2>1. IsStarted(tx)
    BY DEF Sessions, SessionInv
  <2> QED BY <1>6, <2>1 DEF Live
<1> QED BY <1>6, <1>8, <1>9, <1>10

LEMMA CreationProceeds ==
  ASSUME Laws, CatalogTypeOK, ServedInv, Sessions, LockInv, CreationInv, ~orphaned, ~overlapped',
         NEW c \in Client, NEW k \in Calls, Proceeds(c, k)
  PROVE  CreationInv'
<1>1. \A d \in Client : calls'[d] = IF d = c THEN k ELSE calls[d]
  BY ZenonT(30) DEF CatalogTypeOK, Proceeds
<1>2. UNCHANGED rows /\ k.name = calls[c].name /\ k.tx = calls[c].tx /\ k.op = calls[c].op
  BY DEF Proceeds, Same
<1>3. CASE ~(calls[c].pc = "check" /\ k.op = "create")
  <2>1. k.pc \in {"lock", "wait"} /\ k.op = "create" => calls[c].pc \in {"lock", "wait"}
    BY <1>3, Zenon DEF Proceeds
  <2>2. \A d \in Client, name \in Key : Creating(d, name)' => Creating(d, name)
    BY <1>1, <1>2, <2>1 DEF Creating
  <2> QED BY <1>2, <2>2, KeptProceeds, CreationStays
<1>4. CASE calls[c].pc = "check" /\ k.op = "create"
  <2>1. /\ calls[c].name \in Key /\ GetStorageId(k.name, k.tx) = {}
        /\ ~CreationInProgress(c, k.name)
    BY <1>4, Zenon DEF Proceeds, ServedInv
  <2>2. RowIsFree(k.name) /\ \A d \in Client \ {c} : ~Creating(d, k.name)
    BY <2>1 DEF CreationInProgress
  <2>3. \A d \in Client, name \in Key : Creating(d, name)' =>
          Creating(d, name) \/ (d = c /\ name = k.name)
    BY <1>1 DEF Creating
  <2>4. \A name \in Key : \A d, e \in Client : Creating(d, name)' /\ Creating(e, name)' => d = e
    BY <2>2, <2>3, SMTT(30) DEF CreationInv
  <2>5. \A r \in rows : Live(r)' <=> Live(r)
    BY KeptProceeds DEF Kept
  <2>6. ASSUME NEW name \in Key, NEW e \in Client, Creating(e, name)', NEW r \in rows,
               r.name = name, r.status = "created", Live(r)
        PROVE  \E d \in rows : d.name = name /\ d.status = "dropped" /\ Live(d) /\ r.seq < d.seq
    <3>1. CASE Creating(e, name)
      BY <2>6, <3>1 DEF CreationInv
    <3>2. CASE e = c /\ name = k.name
      <4>1. RowIsFree(name) /\ GetStorageId(name, calls[c].tx) = {}
        BY <1>2, <2>1, <2>2, <3>2
      <4>2. calls[c].pc = "check" /\ name \in Key
        BY <1>4
      <4>3. r \in rows /\ r.name = name /\ r.status = "created" /\ Live(r)
        BY <2>6
      <4> QED BY <4>1, <4>2, <4>3, CheckFindsDropped
    <3> QED BY <2>3, <2>6, <3>1, <3>2, Zenon
  <2>7. ASSUME NEW r \in rows, NEW s \in rows, r.name = s.name, r.seq < s.seq, Live(r), Live(s),
               r.status = "created", s.status = "created"
        PROVE  Dropped(r, s.seq, s.tx)'
    <3>1. Dropped(r, s.seq, s.tx)
      BY <2>7 DEF CreationInv
    <3> QED BY <1>2, <3>1, KeptProceeds, Zenon DEF Dropped, Kept
  <2> QED BY <1>2, <2>4, <2>5, <2>6, <2>7, Zenon DEF CreationInv
<1> QED BY <1>3, <1>4

LEMMA CreationPutRow ==
  ASSUME CatalogTypeOK, ServedInv, Sessions, LockInv, CreationInv, ~orphaned,
         NEW c \in Client, PutRow(c)
  PROVE  CreationInv'
<1>1. PICK row \in Row, k \in Calls :
        /\ rows' = rows \cup {row} /\ row.seq = NextSeq
        /\ row.name = calls[c].name /\ row.tx = calls[c].tx
        /\ row.status = IF calls[c].op = "create" THEN "created" ELSE "dropped"
        /\ calls' = [calls EXCEPT ![c] = k] /\ k.pc = "log"
  BY TypesPutRow
<1>2. \A d \in Client : calls'[d] = IF d = c THEN k ELSE calls[d]
  BY <1>1 DEF CatalogTypeOK
<1>3. /\ \A r \in rows : r.seq < NextSeq /\ r.seq \in Nat
      /\ NextSeq \in Nat
  BY NextSeqIsNew DEF CatalogTypeOK, ServedInv, Row
<1>4. calls[c].pc = "lock" /\ calls[c].name \in Key /\ row_locks[row.name] = NoTx
  BY <1>1 DEF PutRow, RowIsFree, ServedInv
<1>5. row.status = "created" => Creating(c, row.name)
  BY <1>1, <1>4 DEF Creating
<1>6. \A d \in Client, name \in Key : Creating(d, name)' => Creating(d, name) /\ d # c
  BY <1>1, <1>2 DEF Creating
<1>7. \A r \in rows : (Live(r)' <=> Live(r)) /\ (r \in Answered => r \in Answered')
  BY KeptPutRow DEF Kept
<1>8. \A name \in Key : \A d, e \in Client : Creating(d, name)' /\ Creating(e, name)' => d = e
  BY <1>6 DEF CreationInv
<1>9. ASSUME NEW name \in Key, NEW e \in Client, Creating(e, name)', NEW r \in rows',
             r.name = name, r.status = "created", Live(r)'
      PROVE  \E d \in rows' : d.name = name /\ d.status = "dropped" /\ Live(d)' /\ r.seq < d.seq
  <2>1. Creating(e, name) /\ e # c
    BY <1>6, <1>9
  <2>2. r \in rows
    BY <1>1, <1>5, <1>9, <2>1, Zenon DEF CreationInv
  <2>3. PICK d \in rows : d.name = name /\ d.status = "dropped" /\ Live(d) /\ r.seq < d.seq
    BY <1>7, <1>9, <2>1, <2>2 DEF CreationInv
  <2> QED BY <1>1, <1>7, <2>3, Zenon
<1>10. ASSUME NEW r \in rows', NEW s \in rows', r.name = s.name, r.seq < s.seq,
              Live(r)', Live(s)', r.status = "created", s.status = "created"
       PROVE  Dropped(r, s.seq, s.tx)'
  <2>1. r \in rows
    <3>1. s.seq <= NextSeq /\ s.seq \in Nat
      BY <1>1, <1>3
    <3>2. r.seq # NextSeq
      BY <1>3, <1>10, <3>1
    <3> QED BY <1>1, <3>2
  <2>2. CASE s \in rows
    <3>1. Dropped(r, s.seq, s.tx)
      BY <1>7, <1>10, <2>1, <2>2 DEF CreationInv
    <3> QED BY <1>1, <1>7, <3>1 DEF Dropped
  <2>3. CASE s = row
    <3>1. Creating(c, row.name) /\ row.name \in Key /\ Live(r)
      BY <1>5, <1>7, <1>10, <2>1, <2>3 DEF Row
    <3>2. PICK d \in rows : d.name = row.name /\ d.status = "dropped" /\ Live(d) /\ r.seq < d.seq
      BY <1>10, <2>1, <2>3, <3>1 DEF CreationInv
    <3>3. d \in Answered
      <4>1. d.tx \in TxId
        BY DEF CatalogTypeOK, Row
      <4> QED BY <1>4, <3>2, <4>1, TxIdsAreNumbers DEF LockInv
    <3>4. d.seq < s.seq /\ d.name = r.name
      BY <1>1, <1>3, <1>10, <2>3, <3>2
    <3> QED BY <1>1, <1>7, <3>2, <3>3, <3>4 DEF Dropped
  <2> QED BY <1>1, <2>2, <2>3
<1> QED BY <1>8, <1>9, <1>10, ZenonT(30) DEF CreationInv

LEMMA CreationRestart ==
  ASSUME Laws, CatalogTypeOK, ServedInv, Sessions, CreationInv,
         NEW lostRows \in SUBSET RowsInFlight, NEW lostCommits \in SUBSET CommitsInFlight,
         Restart(lostRows, lostCommits)
  PROVE  CreationInv'
<1>1. \A c \in Client, name \in Key : ~Creating(c, name)'
  BY TypesRestart, IdleIsCall, Zenon DEF Creating
<1>2. rows' \subseteq rows
  BY DEF Restart
<1>3. /\ \A r \in Answered : r \in Answered'
      /\ \A r \in rows' : Live(r)' => IsCommited(r.tx)
      /\ \A r \in rows : IsCommited(r.tx) => r \in rows'
  BY KeptRestart
<1>4. ASSUME NEW r \in rows', NEW s \in rows', r.name = s.name, r.seq < s.seq,
             Live(r)', Live(s)', r.status = "created", s.status = "created"
      PROVE  Dropped(r, s.seq, s.tx)'
  <2>1. IsCommited(r.tx) /\ IsCommited(s.tx)
    BY <1>3, <1>4
  <2>2. Dropped(r, s.seq, s.tx)
    BY <1>2, <1>4, <2>1 DEF CreationInv, Live
  <2>3. \A d \in Answered : d \in rows'
    BY <1>3 DEF Answered
  <2> QED BY <1>3, <2>1, <2>2, <2>3 DEF Dropped
<1> QED BY <1>1, <1>4, Zenon DEF CreationInv

-----------------------------------------------------------------------------
\* CatalogInv, whatever a step is.
LEMMA CatalogInvInit == CatalogInit => CatalogInv
<1> SUFFICES ASSUME CatalogInit PROVE CatalogInv
  OBVIOUS
<1>1. rows = {} /\ \A c \in Client : calls[c].pc = "idle"
  BY IdleIsCall DEF CatalogInit
<1>2. LockInv /\ CreationInv
  BY <1>1, Zenon DEF LockInv, CreationInv, Creating
<1> QED BY <1>2, TypesInit, SessionsInit, StorageInit DEF CatalogInv, Sessions

LEMMA CommandKeeps ==
  ASSUME CatalogInv, NEW c \in Client, Command(c)
  PROVE  CatalogInv'
<1>0. CatalogTypeOK /\ ServedInv
  BY DEF CatalogInv
<1>1. ASSUME NEW tx \in TxId \cup {NoTx, EmptyTx}, Enters(c, tx) PROVE CatalogInv'
  <2>1. CatalogTypeOK' /\ ServedInv'
    BY <1>0, <1>1, TypesEnters
  <2>2. UNCHANGED <<orphaned, overlapped, rows, row_locks, calls>>
    BY <1>1 DEF Enters
  <2>3. ASSUME ~orphaned
        PROVE  Sessions' /\ StorageInv' /\ LockInv' /\ (~overlapped => CreationInv')
    <3>1. Sessions /\ StorageInv /\ LockInv /\ (~overlapped => CreationInv)
      BY <2>3 DEF CatalogInv, Sessions
    <3>2. Sessions' /\ StorageInv' /\ Kept
      BY <1>0, <1>1, <2>3, <3>1, SessionsEnters, StorageEnters, KeptEnters
    <3>3. \A d \in Client, name \in Key : Creating(d, name)' => Creating(d, name)
      BY <2>2, Zenon DEF Creating
    <3> QED BY <2>2, <3>1, <3>2, <3>3, LockStays, CreationStays
  <2> QED BY <2>1, <2>2, <2>3 DEF CatalogInv, Sessions
<1>2. ASSUME NEW k \in Calls, Starts(c, k) PROVE CatalogInv'
  <2>1. CatalogTypeOK' /\ ServedInv'
    BY <1>0, <1>2, TypesStarts
  <2>2. UNCHANGED <<orphaned, overlapped, rows, row_locks>>
    BY <1>2, Zenon DEF Starts
  <2>3. ASSUME ~orphaned
        PROVE  Sessions' /\ StorageInv' /\ LockInv' /\ (~overlapped => CreationInv')
    <3>1. Sessions /\ StorageInv /\ LockInv /\ (~overlapped => CreationInv)
      BY <2>3 DEF CatalogInv, Sessions
    <3>2. Sessions' /\ StorageInv' /\ Kept
      BY <1>0, <1>2, <2>3, <3>1, SessionsStarts, StorageStarts, KeptStarts
    <3> QED BY <1>0, <1>2, <2>2, <2>3, <3>1, <3>2, LockStays, CreationStarts
  <2> QED BY <2>1, <2>2, <2>3 DEF CatalogInv, Sessions
<1> QED BY <1>0, <1>1, <1>2, CommandSteps

LEMMA HandlerKeeps ==
  ASSUME Laws, CatalogInv, NEW c \in Client, Handler(c)
  PROVE  CatalogInv'
<1>0. CatalogTypeOK /\ ServedInv
  BY DEF CatalogInv
<1>1. ASSUME NEW k \in Calls, Proceeds(c, k) PROVE CatalogInv'
  <2>1. CatalogTypeOK' /\ ServedInv'
    BY <1>0, <1>1, TypesProceeds
  <2>2. UNCHANGED <<orphaned, rows, row_locks>> /\ (~overlapped' => ~overlapped)
    <3>1. UNCHANGED <<orphaned, rows, row_locks>>
      BY <1>1, ZenonT(30) DEF Proceeds
    <3>2. overlapped' = (overlapped \/ CreationInProgress(c, k.name)) \/ overlapped' = overlapped
      BY <1>1, Zenon DEF Proceeds
    <3>3. overlapped \in BOOLEAN /\ overlapped' \in BOOLEAN
      BY <1>0, <2>1 DEF CatalogTypeOK
    <3> QED BY <3>1, <3>2, <3>3
  <2>3. ASSUME ~orphaned
        PROVE  Sessions' /\ StorageInv' /\ LockInv' /\ (~overlapped' => CreationInv')
    <3>1. Sessions /\ StorageInv /\ LockInv /\ (~overlapped => CreationInv)
      BY <2>3 DEF CatalogInv, Sessions
    <3>2. Sessions' /\ StorageInv' /\ Kept
      BY <1>0, <1>1, <2>3, <3>1, SessionsProceeds, StorageProceeds, KeptProceeds
    <3> QED BY <1>0, <1>1, <2>2, <2>3, <3>1, <3>2, LockStays, CreationProceeds
  <2> QED BY <2>1, <2>2, <2>3 DEF CatalogInv, Sessions
<1>2. ASSUME Ends(c) PROVE CatalogInv'
  <2>1. CatalogTypeOK' /\ ServedInv'
    BY <1>0, <1>2, TypesEnds
  <2>2. UNCHANGED <<orphaned, overlapped, rows, row_locks>>
    BY <1>2 DEF Ends
  <2>3. ASSUME ~orphaned
        PROVE  Sessions' /\ StorageInv' /\ LockInv' /\ (~overlapped => CreationInv')
    <3>1. Sessions /\ StorageInv /\ LockInv /\ (~overlapped => CreationInv)
      BY <2>3 DEF CatalogInv, Sessions
    <3>2. Sessions' /\ StorageInv' /\ Kept
      BY <1>0, <1>2, <2>3, <3>1, SessionsEnds, StorageEnds, KeptEnds
    <3> QED BY <1>0, <1>2, <2>2, <2>3, <3>1, <3>2, LockStays, CreationEnds
  <2> QED BY <2>1, <2>2, <2>3 DEF CatalogInv, Sessions
<1>3. ASSUME PutRow(c) PROVE CatalogInv'
  <2>1. CatalogTypeOK' /\ ServedInv'
    BY <1>0, <1>3, TypesPutRow
  <2>2. UNCHANGED <<orphaned, overlapped>>
    BY <1>3 DEF PutRow
  <2>3. ASSUME ~orphaned
        PROVE  Sessions' /\ StorageInv' /\ LockInv' /\ (~overlapped => CreationInv')
    <3>1. Sessions /\ StorageInv /\ LockInv /\ (~overlapped => CreationInv)
      BY <2>3 DEF CatalogInv, Sessions
    <3> QED BY <1>0, <1>3, <2>3, <3>1, SessionsPutRow, StoragePutRow, LockPutRow, CreationPutRow
  <2> QED BY <2>1, <2>2, <2>3 DEF CatalogInv, Sessions
<1>4. ASSUME CommitLogged(c) PROVE CatalogInv'
  <2>1. CatalogTypeOK' /\ ServedInv'
    BY <1>0, <1>4, TypesCommitLogged
  <2>2. UNCHANGED <<orphaned, overlapped>>
    BY <1>4 DEF CommitLogged
  <2>3. ASSUME ~orphaned
        PROVE  Sessions' /\ StorageInv' /\ LockInv' /\ (~overlapped => CreationInv')
    <3>1. Sessions /\ StorageInv /\ LockInv /\ (~overlapped => CreationInv)
      BY <2>3 DEF CatalogInv, Sessions
    <3> QED BY <1>0, <1>4, <2>3, <3>1, SessionsCommitLogged, StorageCommitLogged,
               LockCommitLogged, CreationCommitLogged
  <2> QED BY <2>1, <2>2, <2>3 DEF CatalogInv, Sessions
<1> QED BY <1>0, <1>1, <1>2, <1>3, <1>4, HandlerSteps

LEMMA RestartKeeps ==
  ASSUME Laws, CatalogInv, NEW lostRows \in SUBSET RowsInFlight,
         NEW lostCommits \in SUBSET CommitsInFlight, Restart(lostRows, lostCommits)
  PROVE  CatalogInv'
<1>0. CatalogTypeOK /\ ServedInv
  BY DEF CatalogInv
<1>1. CatalogTypeOK' /\ ServedInv' /\ (~orphaned' => ~orphaned)
  BY <1>0, TypesRestart
<1>2. UNCHANGED overlapped
  BY DEF Restart
<1>3. ASSUME ~orphaned'
      PROVE  Sessions' /\ StorageInv' /\ LockInv' /\ (~overlapped => CreationInv')
  <2>1. /\ ~orphaned
        /\ Sessions /\ StorageInv /\ LockInv /\ (~overlapped => CreationInv)
    BY <1>1, <1>3 DEF CatalogInv, Sessions
  <2> QED BY <1>0, <1>3, <2>1, SessionsRestart, StorageRestart, LockRestart, CreationRestart
<1> QED BY <1>1, <1>2, <1>3 DEF CatalogInv, Sessions

LEMMA CatalogInvStep ==
  ASSUME Laws, CatalogInv, [CatalogNext]_catalogVars
  PROVE  CatalogInv'
<1>1. CASE UNCHANGED catalogVars
  <2> USE <1>1 DEF catalogVars
  <2>1. CatalogTypeOK' <=> CatalogTypeOK
    BY DEF CatalogTypeOK
  <2>2. ServedInv' <=> ServedInv
    BY DEF ServedInv
  <2>3. (NewIdsInv' <=> NewIdsInv) /\ (OneOwner' <=> OneOwner)
    BY DEF NewIdsInv, OneOwner
  <2>4. SessionInv' <=> SessionInv
    BY DEF SessionInv, IsStarted, IsCommited
  <2>5. StorageInv' <=> StorageInv
    BY DEF StorageInv, BeingCreated
  <2>6. \A r : Live(r)' <=> Live(r)
    BY DEF Live, IsStarted, IsCommited
  <2>7. Answered' = Answered
    BY DEF Answered, CommitsInFlight, IsCommited
  <2>8. LockInv' <=> LockInv
    BY <2>6, <2>7 DEF LockInv
  <2>9. CreationInv' <=> CreationInv
    <3>1. \A c, name : Creating(c, name)' <=> Creating(c, name)
      BY DEF Creating
    <3>2. \A r, seq, tx : Dropped(r, seq, tx)' <=> Dropped(r, seq, tx)
      BY <2>7 DEF Dropped
    <3> QED BY <2>6, <3>1, <3>2 DEF CreationInv
  <2> QED BY <2>1, <2>2, <2>3, <2>4, <2>5, <2>8, <2>9 DEF CatalogInv
<1>2. CASE CatalogNext
  BY <1>2, CommandKeeps, HandlerKeeps, RestartKeeps DEF CatalogNext
<1> QED BY <1>1, <1>2

\* What a step does to what was answered.
LEMMA AnsweredStep ==
  ASSUME Laws, CatalogInv, CatalogNext, ~orphaned, NEW r \in Answered
  PROVE  r \in rows' /\ tx_status'[r.tx] = "commited" /\ r.id \in storages' \cup unmade
<1>0. CatalogTypeOK /\ ServedInv /\ Sessions /\ StorageInv
  BY DEF CatalogInv, Sessions
<1>1. r \in rows /\ r.id \in storages \cup unmade
  <2>1. r \in rows /\ IsCommited(r.tx)
    BY DEF Answered
  <2>2. ~BeingCreated(r)
    BY <1>0, <2>1, Zenon DEF BeingCreated, Sessions, SessionInv, IsStarted, IsCommited
  <2> QED BY <1>0, <2>1, <2>2 DEF StorageInv, IsCommited
<1>2. ASSUME NEW c \in Client, Command(c) \/ Handler(c)
      PROVE  r \in Answered' /\ storages \subseteq storages'
  <2>1. CASE \E tx \in TxId \cup {NoTx, EmptyTx} : Enters(c, tx)
    <3>1. PICK tx \in TxId \cup {NoTx, EmptyTx} : Enters(c, tx)
      BY <2>1
    <3>2. Kept
      BY <1>0, <3>1, KeptEnters
    <3> QED BY <1>1, <3>1, <3>2, Zenon DEF Enters, Kept
  <2>2. CASE \E k \in Calls : Starts(c, k)
    <3>1. PICK k \in Calls : Starts(c, k)
      BY <2>2
    <3>2. Kept
      BY <1>0, <3>1, KeptStarts
    <3> QED BY <1>1, <3>1, <3>2, Zenon DEF Starts, Kept
  <2>3. CASE \E k \in Calls : Proceeds(c, k)
    <3>1. PICK k \in Calls : Proceeds(c, k)
      BY <2>3
    <3>2. Kept
      BY <1>0, <3>1, KeptProceeds
    <3> QED BY <1>1, <3>1, <3>2, Zenon DEF Proceeds, Kept
  <2>4. CASE Ends(c)
    <3>1. Kept
      BY <1>0, <2>4, KeptEnds
    <3> QED BY <1>1, <2>4, <3>1 DEF Ends, Kept
  <2>5. CASE PutRow(c)
    <3>1. Kept
      BY <1>0, <2>5, KeptPutRow
    <3> QED BY <1>1, <2>5, <3>1 DEF PutRow, Kept
  <2>6. CASE CommitLogged(c)
    <3>1. Kept
      BY <1>0, <2>6, KeptCommitLogged
    <3> QED BY <1>1, <2>6, <3>1 DEF CommitLogged, Kept
  <2> QED BY <1>0, <1>2, <2>1, <2>2, <2>3, <2>4, <2>5, <2>6, CommandSteps, HandlerSteps
<1>3. ASSUME NEW lostRows \in SUBSET RowsInFlight, NEW lostCommits \in SUBSET CommitsInFlight,
             Restart(lostRows, lostCommits)
      PROVE  r \in Answered' /\ storages \subseteq storages' \cup unmade
  <2>1. r \in Answered'
    BY <1>0, <1>3, KeptRestart
  <2>2. storages' = directories /\ storages \subseteq directories \cup unmade
    BY <1>0, <1>3, Zenon DEF Restart, RecoveredStorages, CatalogTypeOK
  <2> QED BY <2>1, <2>2
<1>4. r \in Answered' /\ storages \subseteq storages' \cup unmade
  BY <1>2, <1>3 DEF CatalogNext
<1> QED BY <1>1, <1>4, AnsweredRows, Zenon

-----------------------------------------------------------------------------
\* The laws of numbers and finite sets hold.
INSTANCE OrderFacts

\* The invariant of the catalog holds in every state, whatever clients there are and
\* whenever the server dies.
THEOREM CatalogInvariant == CatalogSpec => []CatalogInv
<1>1. CatalogInit => CatalogInv
  BY CatalogInvInit
<1>2. CatalogInv /\ [CatalogNext]_catalogVars => CatalogInv'
  BY CatalogInvStep, LawsHold
<1> QED BY <1>1, <1>2, PTL DEF CatalogSpec

\* catalog.cpp, session.cpp: the catalog, the sessions and the clients stay well typed.
THEOREM CatalogTypeOKAlways == CatalogSpec => []CatalogTypeOK
<1>1. CatalogInv => CatalogTypeOK
  BY DEF CatalogInv
<1> QED BY <1>1, CatalogInvariant, PTL

\* transaction::Storage::Begin and the command line clients: a transaction has one owner.
THEOREM OneOwnerAlways == CatalogSpec => []OneOwner
<1>1. CatalogInv => OneOwner
  BY DEF CatalogInv, OneOwner
<1> QED BY <1>1, CatalogInvariant, PTL

\* session.cpp:107: storages.at() finds the storage of every table a session can see.
THEOREM VisibleTableHasStorageAlways == CatalogSpec => []VisibleTableHasStorage
<1>1. CatalogInv => VisibleTableHasStorage
  BY VisibleStorage DEF CatalogInv, Sessions, VisibleTableHasStorage
<1> QED BY <1>1, CatalogInvariant, PTL

\* catalog.cpp:66: a table is created twice only if it was dropped in between, or the
\* creations overlapped.
THEOREM NoDoubleCreateAlways == CatalogSpec => []NoDoubleCreate
<1>1. CatalogInv => NoDoubleCreate
  <2> SUFFICES ASSUME CatalogInv, ~orphaned, ~overlapped, NEW r \in rows, NEW s \in rows,
                      r.name = s.name, r.seq < s.seq,
                      r.status = "created", s.status = "created",
                      IsCommited(r.tx), IsCommited(s.tx)
               PROVE  \E d \in rows : /\ d.name = r.name /\ d.status = "dropped"
                                      /\ IsCommited(d.tx) /\ r.seq < d.seq /\ d.seq < s.seq
    BY DEF NoDoubleCreate
  <2>1. Dropped(r, s.seq, s.tx)
    BY DEF CatalogInv, CreationInv, Live
  <2> QED BY <2>1 DEF Dropped, Answered
<1> QED BY <1>1, CatalogInvariant, PTL

\* Session::Finish and Database::Init: no step, a crash and a restart included, takes back
\* what a client was told about its tables.
THEOREM AnsweredSurvivesAlways == CatalogSpec => AnsweredSurvives
<1> DEFINE Survives == ~orphaned => \A r \in Answered :
                         /\ r \in rows'
                         /\ tx_status'[r.tx] = "commited"
                         /\ r.id \in storages' \cup unmade
<1>1. CatalogInv /\ [CatalogNext]_catalogVars => [Survives]_catalogVars
  BY AnsweredStep, LawsHold
<1>2. AnsweredSurvives <=> [][Survives]_catalogVars
  BY DEF AnsweredSurvives
<1> HIDE DEF Survives
<1> QED BY <1>1, <1>2, CatalogInvariant, PTL DEF CatalogSpec
=============================================================================
