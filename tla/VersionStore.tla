---------------------------- MODULE VersionStore ----------------------------
(***************************************************************************)
(* What an LSM tree of src/server/lsm promises, without its layers: a set  *)
(* of versions, each a key with the sequence number it was written under.  *)
(* A write adds the version with the next number, maintenance may only     *)
(* forget versions, neither ever changes or renumbers one, and a restart   *)
(* loses the versions from some number on, which is then the next one.     *)
(* All of it holds as long as the store is intact.                         *)
(***************************************************************************)
EXTENDS Naturals

CONSTANT Key

VARIABLES versions,      \* every version a scan can still return
          forgotten,     \* versions a compaction strategy gave up
          next_seq_no,   \* number of the next write
          intact         \* no restart found its files disordered

VersionStoreVars == <<versions, forgotten, next_seq_no, intact>>

VersionStoreInit ==
  /\ versions = {}
  /\ forgotten = {}
  /\ next_seq_no = 1
  /\ intact = TRUE

\* A write: the version is readable as soon as its number is used up.
AddVersion(key) ==
  /\ versions' = versions \cup {[key |-> key, seq |-> next_seq_no]}
  /\ next_seq_no' = next_seq_no + 1
  /\ UNCHANGED <<forgotten, intact>>

\* Compaction: the strategy decides which versions are no longer needed.
ForgetVersions ==
  /\ \E gone \in SUBSET versions :
       /\ versions' = versions \ gone
       /\ forgotten' = forgotten \cup gone
  /\ UNCHANGED <<next_seq_no, intact>>

\* Restart: what was only in memory is gone, and it was the newest.
LoseSuffix ==
  /\ next_seq_no' <= next_seq_no
  /\ versions' = {v \in versions : v.seq < next_seq_no'}
  /\ forgotten' = {v \in forgotten : v.seq < next_seq_no'}
  /\ UNCHANGED intact

VersionStoreNext ==
  \/ \E key \in Key : AddVersion(key)
  \/ ForgetVersions
  \/ LoseSuffix
  \/ intact' = FALSE

VersionStoreSpec == VersionStoreInit /\ [][VersionStoreNext]_VersionStoreVars
=============================================================================
