------------------------------ MODULE Catalog ------------------------------
(***************************************************************************)
(* The table catalog and the sessions that use it: database/catalog.cpp,   *)
(* database/session.cpp, CreateTable and DropTable of table_service, Begin *)
(* and Commit of transaction_service, and the command line clients in      *)
(* front of them (cli/command/command.cpp, client/database/).  The server  *)
(* is a leader, so read_only_ is false.                                    *)
(*                                                                         *)
(* Key is the set of table names: the catalog is the transactional table   *)
(* sys_tables, whose rows are locked by name.  A new storage id (a uuid)   *)
(* is written as the sequence number of the row that introduces it.  A row *)
(* or a commit whose log write is in flight when the server dies may or    *)
(* may not be found in the log; DurableDatabase has the log itself.        *)
(***************************************************************************)
EXTENDS TxStorage, FiniteSetsExt

CONSTANTS Client,       \* command line clients, each one command at a time
          MaxRestarts,  \* bound: crashes of the server
          MaxFailures   \* bound: directories that cannot be created

ASSUME CatalogAssumption ==
  /\ MaxTx \in Nat /\ MaxTx >= kInitialTxId
  /\ MaxRestarts \in Nat /\ MaxFailures \in Nat

VARIABLES context,      \* Context::tx of each client
          calls,        \* the handler serving each client
          rows,         \* the rows of sys_tables
          storages,     \* context_.storages: ids of the storages in memory
          directories,  \* ids that have a directory on disk
          unmade,       \* history: ids whose directory could not be created
          restarts,
          orphaned,     \* history: a restart forgot a transaction still in use
          overlapped    \* history: two creations of a name overlapped

catalogVars == <<tx_status, next_tx_id, row_locks, tx_locks, context, calls, rows,
                 storages, directories, unmade, restarts, orphaned, overlapped>>

-----------------------------------------------------------------------------
kInternalTables == {"sys_transactions", "sys_tables", "wal"}

\* The transaction of a client whose BEGIN failed: the empty string.
EmptyTx == 1

Row == [seq : Nat, name : Key, tx : TxId, status : {"created", "dropped"}, id : Nat]

\* pc: "idle"; "check" session started; "lock" about to test the lock of the name;
\* "wait" suspended for it; "log" row put, its log write in flight; "mkdir" and
\* "init" creating the storage; "commit" the log write of a commit in flight.
Calls == [pc : {"idle", "check", "lock", "wait", "log", "mkdir", "init", "commit"},
          op : {"none", "create", "drop", "use", "commit"}, name : Key \cup {"none"},
          tx : TxId \cup {NoTx}, is_autocommit : BOOLEAN, id : Nat]

Idle == [pc |-> "idle", op |-> "none", name |-> "none", tx |-> NoTx,
         is_autocommit |-> FALSE, id |-> 0]

CatalogInit ==
  /\ TxStorageInit
  /\ context = [c \in Client |-> NoTx]
  /\ calls = [c \in Client |-> Idle]
  /\ rows = {}
  /\ storages = {}
  /\ directories = {}
  /\ unmade = {}
  /\ restarts = 0
  /\ orphaned = FALSE
  /\ overlapped = FALSE

\* The newest row of name that tx can see, as a set of at most one row.
GetTableInfo(name, tx) ==
  LET seen == {r \in rows : r.name = name /\ (r.tx = tx \/ IsCommited(r.tx))}
  IN {r \in seen : \A s \in seen : s.seq <= r.seq}

\* The id of name's storage, if the table exists.
GetStorageId(name, tx) ==
  {r.id : r \in {s \in GetTableInfo(name, tx) : s.status = "created"}}

-----------------------------------------------------------------------------
\* BEGIN.  The status of the call is not looked at, see BeginFails.
BeginCommand(c) ==
  /\ calls[c].pc = "idle" /\ context[c] = NoTx
  /\ Begin
  /\ context' = [context EXCEPT ![c] = next_tx_id]
  /\ UNCHANGED <<row_locks, tx_locks, calls, rows, storages, directories, unmade, restarts,
                 orphaned, overlapped>>

\* BEGIN while the server cannot be reached: the client is in a transaction whose id
\* is empty, and every command it sends is refused until it rolls back.
BeginFails(c) ==
  /\ calls[c].pc = "idle" /\ context[c] = NoTx
  /\ context' = [context EXCEPT ![c] = EmptyTx]
  /\ UNCHANGED <<tx_status, next_tx_id, row_locks, tx_locks, calls, rows, storages,
                 directories, unmade, restarts, orphaned, overlapped>>

\* COMMIT of a transaction the server knows; any other leaves everything as it is,
\* the client's transaction included.
CommitCommand(c) ==
  /\ calls[c].pc = "idle" /\ context[c] \in TxId
  /\ IsStarted(context[c])
  /\ MarkCommited(context[c])
  /\ calls' = [calls EXCEPT ![c] = [Idle EXCEPT !.pc = "commit", !.op = "commit",
                                                !.tx = context[c]]]
  /\ UNCHANGED <<next_tx_id, row_locks, tx_locks, context, rows, storages, directories, unmade,
                 restarts, orphaned, overlapped>>

\* ROLLBACK sends nothing to the server; leaving the program has the same effect.
RollbackCommand(c) ==
  /\ calls[c].pc = "idle" /\ context[c] # NoTx
  /\ context' = [context EXCEPT ![c] = NoTx]
  /\ UNCHANGED <<tx_status, next_tx_id, row_locks, tx_locks, calls, rows, storages,
                 directories, unmade, restarts, orphaned, overlapped>>

\* GetDatabase: a command outside a transaction is an autocommit session.
SessionAutocommit(c, op, name) ==
  /\ calls[c].pc = "idle" /\ context[c] = NoTx
  /\ Begin
  /\ calls' = [calls EXCEPT ![c] = [Idle EXCEPT !.pc = "check", !.op = op, !.name = name,
                  !.tx = next_tx_id, !.is_autocommit = TRUE]]
  /\ UNCHANGED <<row_locks, tx_locks, context, rows, storages, directories, unmade, restarts,
                 orphaned, overlapped>>

\* Session::Start refuses a transaction that is not started.
SessionInTransaction(c, op, name) ==
  /\ calls[c].pc = "idle" /\ context[c] \in TxId
  /\ IsStarted(context[c])
  /\ calls' = [calls EXCEPT ![c] = [Idle EXCEPT !.pc = "check", !.op = op, !.name = name,
                                                !.tx = context[c]]]
  /\ UNCHANGED <<tx_status, next_tx_id, row_locks, tx_locks, context, rows, storages,
                 directories, unmade, restarts, orphaned, overlapped>>

-----------------------------------------------------------------------------
\* Session::Finish: an autocommit session goes on to its commit, another answers.
Finish(c) ==
  IF calls[c].is_autocommit
  THEN /\ MarkCommited(calls[c].tx)
       /\ calls' = [calls EXCEPT ![c].pc = "commit"]
  ELSE /\ calls' = [calls EXCEPT ![c] = Idle]
       /\ UNCHANGED tx_status

\* An exception, or "No such table": the handler answers and the session is dropped
\* without Finish, so an autocommit transaction stays started.
Fail(c) == calls' = [calls EXCEPT ![c] = Idle] /\ UNCHANGED tx_status

\* A session that has checked that it may create the table, and has not put its row yet.
Creating(c, name) ==
  calls[c].op = "create" /\ calls[c].name = name /\ calls[c].pc \in {"lock", "wait"}

\* Some other creation of the name is between its check and the end of its transaction.
CreationInProgress(c, name) ==
  ~RowIsFree(name) \/ \E d \in Client \ {c} : Creating(d, name)

\* Mutant of MayAdd: an existing table is not noticed.
MayAddAnyway(name, tx) == name \notin kInternalTables

\* The checks of Catalog::AddStorage.
MayAdd(name, tx) == name \notin kInternalTables /\ GetStorageId(name, tx) = {}

\* AddStorage up to its Upsert.
AddStorageCheck(c) ==
  /\ calls[c].pc = "check" /\ calls[c].op = "create"
  /\ IF MayAdd(calls[c].name, calls[c].tx)
     THEN /\ calls' = [calls EXCEPT ![c].pc = "lock"]
          /\ overlapped' = (overlapped \/ CreationInProgress(c, calls[c].name))
          /\ UNCHANGED tx_status
     ELSE Fail(c) /\ UNCHANGED overlapped
  /\ UNCHANGED <<next_tx_id, row_locks, tx_locks, context, rows, storages, directories, unmade,
                 restarts, orphaned>>

\* DeleteStorage up to its Upsert, which keeps the id it found.  DropTable swallows
\* the exception about a system table and finishes the session.
DeleteStorageCheck(c) ==
  /\ calls[c].pc = "check" /\ calls[c].op = "drop"
  /\ LET found == IF calls[c].name \in kInternalTables
                  THEN {} ELSE GetStorageId(calls[c].name, calls[c].tx)
     IN \/ found = {} /\ Finish(c)
        \/ \E id \in found :
             /\ calls' = [calls EXCEPT ![c].pc = "lock", ![c].id = id]
             /\ UNCHANGED tx_status
  /\ UNCHANGED <<next_tx_id, row_locks, tx_locks, context, rows, storages, directories, unmade,
                 restarts, orphaned, overlapped>>

\* GetTable for the commands on rows: a system view, no such table, or a storage that
\* storages.at() must find.  What is done with the table is in TransactionalTable.
UseTable(c) ==
  /\ calls[c].pc = "check" /\ calls[c].op = "use"
  /\ \/ calls[c].name \in kInternalTables \ {"wal"} /\ Finish(c)
     \/ /\ calls[c].name \notin kInternalTables \ {"wal"}
        /\ LET found == GetStorageId(calls[c].name, calls[c].tx)
           IN IF found # {} /\ found \subseteq storages THEN Finish(c) ELSE Fail(c)
  /\ UNCHANGED <<next_tx_id, row_locks, tx_locks, context, rows, storages, directories, unmade,
                 restarts, orphaned, overlapped>>

\* AcquireRowLock suspends.
WaitForName(c) ==
  /\ calls[c].pc = "lock" /\ ~RowIsFree(calls[c].name)
  /\ calls' = [calls EXCEPT ![c].pc = "wait"]
  /\ UNCHANGED <<tx_status, next_tx_id, row_locks, tx_locks, context, rows, storages,
                 directories, unmade, restarts, orphaned, overlapped>>

NextSeq == Max({r.seq : r \in rows} \cup {0}) + 1

\* The row of sys_tables is put, with a new id if the table is created.
PutRow(c) ==
  /\ calls[c].pc = "lock" /\ RowIsFree(calls[c].name)
  /\ RecordRowLock(calls[c].tx, calls[c].name)
  /\ LET id == IF calls[c].op = "create" THEN NextSeq ELSE calls[c].id IN
     /\ rows' = rows \cup
          {[seq |-> NextSeq, name |-> calls[c].name, tx |-> calls[c].tx, id |-> id,
            status |-> IF calls[c].op = "create" THEN "created" ELSE "dropped"]}
     /\ calls' = [calls EXCEPT ![c].pc = "log", ![c].id = id]
  /\ UNCHANGED <<tx_status, next_tx_id, context, storages, directories, unmade, restarts,
                 orphaned, overlapped>>

\* Mutant of RowLogged: the session finishes before the storage is created.
RowLoggedFinishes(c) ==
  /\ calls[c].pc = "log"
  /\ Finish(c)
  /\ UNCHANGED <<next_tx_id, row_locks, tx_locks, context, rows, storages, directories, unmade,
                 restarts, orphaned, overlapped>>

\* The row is in the log.  A drop is over; a creation makes the directory.
RowLogged(c) ==
  /\ calls[c].pc = "log"
  /\ \/ /\ calls[c].op = "create"
        /\ calls' = [calls EXCEPT ![c].pc = "mkdir"]
        /\ UNCHANGED tx_status
     \/ calls[c].op = "drop" /\ Finish(c)
  /\ UNCHANGED <<next_tx_id, row_locks, tx_locks, context, rows, storages, directories, unmade,
                 restarts, orphaned, overlapped>>

\* Mutant of CreateDirectory: no directory is made.
CreateDirectoryNone(c) ==
  /\ calls[c].pc = "mkdir"
  /\ calls' = [calls EXCEPT ![c].pc = "init"]
  /\ UNCHANGED <<tx_status, next_tx_id, row_locks, tx_locks, context, rows, storages,
                 directories, unmade, restarts, orphaned, overlapped>>

CreateDirectory(c) ==
  /\ calls[c].pc = "mkdir"
  /\ directories' = directories \cup {calls[c].id}
  /\ calls' = [calls EXCEPT ![c].pc = "init"]
  /\ UNCHANGED <<tx_status, next_tx_id, row_locks, tx_locks, context, rows, storages, unmade,
                 restarts, orphaned, overlapped>>

\* The directory cannot be created: that is only logged.
CreateDirectoryFails(c) ==
  /\ calls[c].pc = "mkdir" /\ Cardinality(unmade) < MaxFailures
  /\ unmade' = unmade \cup {calls[c].id}
  /\ calls' = [calls EXCEPT ![c].pc = "init"]
  /\ UNCHANGED <<tx_status, next_tx_id, row_locks, tx_locks, context, rows, storages,
                 directories, restarts, orphaned, overlapped>>

\* The LSM tree of the new table is initialized and registered.
EmplaceStorage(c) ==
  /\ calls[c].pc = "init"
  /\ storages' = storages \cup {calls[c].id}
  /\ Finish(c)
  /\ UNCHANGED <<next_tx_id, row_locks, tx_locks, context, rows, directories, unmade, restarts,
                 orphaned, overlapped>>

\* The commit is in the log: locks are released, waiters woken, the client answered.
CommitLogged(c) ==
  /\ calls[c].pc = "commit"
  /\ ReleaseAllLocks(calls[c].tx)
  /\ calls' = [d \in Client |->
       IF d = c THEN Idle
       ELSE IF calls[d].pc = "wait" /\ ReleaseNotifies(calls[c].tx)
            THEN [calls[d] EXCEPT !.pc = "lock"] ELSE calls[d]]
  /\ context' = IF calls[c].op = "commit" THEN [context EXCEPT ![c] = NoTx] ELSE context
  /\ UNCHANGED <<tx_status, next_tx_id, rows, storages, directories, unmade, restarts, orphaned,
                 overlapped>>

-----------------------------------------------------------------------------
\* What is still on its way to the log.
RowsInFlight ==
  {r \in rows : \E c \in Client :
     calls[c].pc = "log" /\ calls[c].tx = r.tx /\ calls[c].name = r.name}

CommitsInFlight == {calls[c].tx : c \in {d \in Client : calls[d].pc = "commit"}}

\* Mutant of RecoveredStorages: the directories are not searched.
RecoveredStoragesNone == {}

\* Database::Init makes a storage of every directory it finds.
RecoveredStorages == directories

\* The server dies and starts again.  tx_status_ has the commits found in the log and
\* next_tx_id_ follows the largest; the clients keep their transactions, and their
\* commands in flight fail.
Restart(lostRows, lostCommits) ==
  LET commited == {tx \in TxId : IsCommited(tx)} \ lostCommits
      next == Max({tx + 1 : tx \in commited} \cup {kInitialTxId})
  IN /\ restarts < MaxRestarts
     /\ restarts' = restarts + 1
     /\ tx_status' = [tx \in TxId |-> IF tx \in commited THEN "commited" ELSE "unknown"]
     /\ next_tx_id' = next
     /\ row_locks' = [key \in Key |-> NoTx]
     /\ tx_locks' = [tx \in TxId |-> {}]
     /\ rows' = rows \ lostRows
     /\ storages' = RecoveredStorages
     /\ calls' = [c \in Client |-> Idle]
     /\ orphaned' = (orphaned \/ (\E r \in rows \ lostRows : r.tx >= next)
                              \/ (\E c \in Client : context[c] >= next))
     /\ UNCHANGED <<context, directories, unmade, overlapped>>

-----------------------------------------------------------------------------
\* A call of the client library, which names the transaction if the client is in one.
Call(c, op, name) == SessionAutocommit(c, op, name) \/ SessionInTransaction(c, op, name)

\* The methods of Table: as far as the catalog is concerned, all the same.
TableClient(c, name) == Call(c, "use", name)

\* CREATE TABLE and DROP TABLE.
TableCommand(c) ==
  \E op \in {"create", "drop"}, name \in Key : Call(c, op, name)

\* UPSERT, LOOKUP, DELETE and SCAN.
RowCommand(c) == \E name \in Key : TableClient(c, name)

Command(c) ==
  \/ BeginCommand(c)
  \/ BeginFails(c)
  \/ CommitCommand(c)
  \/ RollbackCommand(c)
  \/ TableCommand(c)
  \/ RowCommand(c)

Handler(c) ==
  \/ AddStorageCheck(c)
  \/ DeleteStorageCheck(c)
  \/ UseTable(c)
  \/ WaitForName(c)
  \/ PutRow(c)
  \/ RowLogged(c)
  \/ CreateDirectory(c)
  \/ CreateDirectoryFails(c)
  \/ EmplaceStorage(c)
  \/ CommitLogged(c)

CatalogNext ==
  \/ \E c \in Client : Command(c) \/ Handler(c)
  \/ \E lostRows \in SUBSET RowsInFlight, lostCommits \in SUBSET CommitsInFlight :
       Restart(lostRows, lostCommits)

CatalogSpec == CatalogInit /\ [][CatalogNext]_catalogVars

-----------------------------------------------------------------------------
\* Types of the catalog, the sessions and the clients.
CatalogTypeOK ==
  /\ tx_status \in [TxId -> Status]
  /\ next_tx_id \in kInitialTxId..(MaxTx + 1)
  /\ row_locks \in [Key -> TxId \cup {NoTx}]
  /\ tx_locks \in [TxId -> SUBSET Key]
  /\ context \in [Client -> TxId \cup {NoTx, EmptyTx}]
  /\ calls \in [Client -> Calls]
  /\ rows \subseteq Row
  /\ storages \subseteq directories \cup unmade /\ directories \cup unmade \subseteq Nat
  /\ restarts \in 0..MaxRestarts
  /\ orphaned \in BOOLEAN /\ overlapped \in BOOLEAN

\* session.cpp:107, storages.at() does not throw: whatever table a session can see has
\* its storage, although the row is put before the directory and the storage exist and
\* the server may die in between.  (A table whose directory could not be created has
\* it only until the restart, and once a restart has forgotten a transaction whose id
\* will be handed out again, nothing is promised.)
VisibleTableHasStorage ==
  \A c \in Client : ~orphaned /\ calls[c].pc = "check" =>
    GetStorageId(calls[c].name, calls[c].tx) \subseteq storages \cup unmade

\* A row whose commit was answered.
Answered == {r \in rows : IsCommited(r.tx) /\ r.tx \notin CommitsInFlight}

\* What a client was told about its tables stays true: no step, a crash and a restart
\* included, loses the row of an answered CREATE or DROP, its commit or its storage,
\* unless the storage never had a directory.  (An earlier restart must not have left two
\* clients in one transaction, where one commits what the other is still writing.)
AnsweredSurvives ==
  [][~orphaned => \A r \in Answered :
       /\ r \in rows'
       /\ tx_status'[r.tx] = "commited"
       /\ r.id \in storages' \cup unmade]_catalogVars

\* catalog.cpp:66, "already exists": of two committed creations of a table the first
\* was dropped before the second, when their transactions did not overlap.
NoDoubleCreate ==
  ~orphaned /\ ~overlapped =>
    \A r, s \in rows :
      /\ r.name = s.name /\ r.seq < s.seq
      /\ r.status = "created" /\ s.status = "created"
      /\ IsCommited(r.tx) /\ IsCommited(s.tx)
      => \E d \in rows : /\ d.name = r.name /\ d.status = "dropped"
                         /\ IsCommited(d.tx) /\ r.seq < d.seq /\ d.seq < s.seq

\* A transaction has one owner: no two clients are in the same one, and a client's is
\* never that of another client's autocommit session.
OneOwner ==
  ~orphaned => \A c, d \in Client : c # d /\ context[c] \in TxId =>
    /\ context[d] # context[c]
    /\ calls[d].tx # context[c]

-----------------------------------------------------------------------------
\* A call that is being served has a transaction and a name of its own kind, and the
\* directory is there, or was given up, before the storage is.
ServedInv ==
  /\ rows # {} => \E last \in rows : \A r \in rows : r.seq <= last.seq
  /\ \A c \in Client :
       /\ calls[c].pc # "idle" => calls[c].tx \in TxId
       /\ calls[c].pc \notin {"idle", "commit"} => calls[c].name \in Key
       /\ calls[c].pc \in {"lock", "wait", "log"} => calls[c].op \in {"create", "drop"}
       /\ calls[c].pc = "init" => calls[c].id \in directories \cup unmade

\* Every id that will be handed out is new to the server and to its clients.
NewIdsInv ==
  /\ \A tx \in TxId : tx >= next_tx_id => tx_status[tx] = "unknown"
  /\ \A r \in rows : r.tx < next_tx_id
  /\ \A c \in Client : context[c] < next_tx_id /\ calls[c].tx < next_tx_id

\* A call runs in a transaction that is started until it commits: the one its client is
\* in, or one that nobody else knows.
SessionInv ==
  \A c \in Client :
    /\ calls[c].pc \notin {"idle", "commit"} => IsStarted(calls[c].tx)
    /\ calls[c].pc = "commit" => IsCommited(calls[c].tx)
    /\ calls[c].pc # "idle" => context[c] = IF calls[c].is_autocommit THEN NoTx ELSE calls[c].tx
    /\ \A d \in Client : calls[c].pc # "idle" /\ calls[d].pc # "idle" /\ calls[c].tx = calls[d].tx
                          => c = d

\* The row's storage is being created by the session that put the row.
BeingCreated(r) ==
  \E c \in Client : /\ calls[c].pc \in {"log", "mkdir", "init"} /\ calls[c].op = "create"
                     /\ calls[c].tx = r.tx /\ calls[c].id = r.id

\* A row has its storage, unless that is being created or its transaction was forgotten;
\* a drop carries the id of a storage that exists.
StorageInv ==
  /\ \A r \in rows :
       \/ r.id \in storages \cup unmade
       \/ r.status = "created" /\ (tx_status[r.tx] = "unknown" \/ BeingCreated(r))
  /\ \A c \in Client : calls[c].op = "drop" /\ calls[c].pc \in {"lock", "wait", "log"}
                       => calls[c].id \in storages \cup unmade

\* The row's transaction has committed, or still can.
Live(r) == IsStarted(r.tx) \/ IsCommited(r.tx)

\* A row is told from another by its number, and its name stays locked until its commit
\* is answered.
LockInv ==
  /\ \A r, s \in rows : r.seq = s.seq => r = s
  /\ \A r \in rows : Live(r) => r \in Answered \/ row_locks[r.name] = r.tx

\* The table of the row was dropped before seq, by a transaction that is answered or tx.
Dropped(r, seq, tx) ==
  \E d \in rows : /\ d.name = r.name /\ d.status = "dropped"
                  /\ r.seq < d.seq /\ d.seq < seq
                  /\ d \in Answered \/ d.tx = tx

\* One session at a time creates a table; then and afterwards every earlier creation is
\* followed by a drop.
CreationInv ==
  /\ \A name \in Key : \A c, d \in Client : Creating(c, name) /\ Creating(d, name) => c = d
  /\ \A name \in Key, c \in Client : Creating(c, name) =>
       \A r \in rows : r.name = name /\ r.status = "created" /\ Live(r) =>
         \E d \in rows : /\ d.name = name /\ d.status = "dropped" /\ Live(d)
                         /\ r.seq < d.seq
  /\ \A r, s \in rows :
       /\ r.name = s.name /\ r.seq < s.seq /\ Live(r) /\ Live(s)
       /\ r.status = "created" /\ s.status = "created"
       => Dropped(r, s.seq, s.tx)

\* The inductive invariant of the catalog.
CatalogInv ==
  /\ CatalogTypeOK /\ ServedInv
  /\ ~orphaned => /\ NewIdsInv /\ OneOwner /\ SessionInv /\ StorageInv /\ LockInv
                  /\ ~overlapped => CreationInv
=============================================================================
