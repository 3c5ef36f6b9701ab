----------------------------- MODULE LsmProofs -----------------------------
(***************************************************************************)
(* Theorems about Lsm, for any keys, any number of compactors, any mem     *)
(* table limit and any bounds: first what the steps of a running tree      *)
(* preserve (types, the exclusion of flushes and compactions, the split    *)
(* and the order of the numbers, the records a scan can reach), then the   *)
(* files, what Init makes of them after a crash, and the theorems.         *)
(***************************************************************************)
EXTENDS Lsm, Laws, TLAPS

-----------------------------------------------------------------------------
\* What SSTableBuilder::Add accumulates is an upper bound of the numbers added,
\* and one of them unless nothing was added.
LEMMA HeaderMaxSeqNoIsMax ==
  ASSUME Laws, NEW recs \in SUBSET Record, NEW b \in Nat, \A r \in recs : r.seq <= b
  PROVE  /\ HeaderMaxSeqNo(recs) \in Seqs(recs) \cup {0}
         /\ HeaderMaxSeqNo(recs) \in Nat
         /\ HeaderMaxSeqNo(recs) <= b
         /\ \A r \in recs : r.seq <= HeaderMaxSeqNo(recs)
<1> DEFINE S == Seqs(recs) \cup {0}
<1>1. S \in SUBSET Nat /\ S # {} /\ \A s \in S : s <= b
  BY DEF Seqs, Record
<1>2. \E m \in S : \A s \in S : s <= m
  <2> HIDE DEF S
  <2> QED BY <1>1, Zenon DEF Laws, MaxLaw
<1>3. \E m \in Seqs(recs) \cup {0} : \A s \in Seqs(recs) : s <= m
  BY <1>2
<1>4. /\ HeaderMaxSeqNo(recs) \in Seqs(recs) \cup {0}
      /\ \A s \in Seqs(recs) : s <= HeaderMaxSeqNo(recs)
  BY <1>3, Zenon DEF HeaderMaxSeqNo
<1> QED BY <1>1, <1>4 DEF Seqs

\* Where the layers' sequence gets its members from.
LEMMA LayersValue ==
  ASSUME LsmTypeOK
  PROVE  /\ Layers \in Seq(SUBSET Record)
         /\ Len(Layers) = Len(ss_tables) + Len(ro_mem_tables) + 1
         /\ DOMAIN Layers = 1..Len(Layers)
         /\ \A i \in 1..Len(Layers) : Layers[i] =
              IF i <= Len(ss_tables) THEN ss_tables[i].recs
              ELSE IF i <= Len(ss_tables) + Len(ro_mem_tables)
                   THEN ro_mem_tables[i - Len(ss_tables)]
                   ELSE mem_table
<1> DEFINE A == [i \in 1..Len(ss_tables) |-> ss_tables[i].recs]
           B == A \o ro_mem_tables
<1>1. /\ ss_tables \in Seq(SSTable) /\ Len(ss_tables) \in Nat
      /\ ro_mem_tables \in Seq(SUBSET Record) /\ mem_table \in SUBSET Record
      /\ Len(ro_mem_tables) \in Nat
  BY DEF LsmTypeOK
<1>2. A \in Seq(SUBSET Record) /\ Len(A) = Len(ss_tables)
      /\ \A i \in 1..Len(ss_tables) : A[i] = ss_tables[i].recs
  <2>1. \A i \in 1..Len(ss_tables) : ss_tables[i].recs \in SUBSET Record
    <3>1. \A i \in 1..Len(ss_tables) : ss_tables[i] \in SSTable
      BY <1>1
    <3>2. \A t \in SSTable : t.recs \in SUBSET Record
      BY DEF SSTable
    <3> QED BY <3>1, <3>2
  <2> QED BY <1>1, <2>1
<1> HIDE DEF A
<1>3. /\ B \in Seq(SUBSET Record) /\ Len(B) = Len(A) + Len(ro_mem_tables)
      /\ \A i \in 1..Len(B) :
           B[i] = IF i <= Len(A) THEN A[i] ELSE ro_mem_tables[i - Len(A)]
  <2> DEFINE E == SUBSET Record
  <2>1. A \in Seq(E) /\ ro_mem_tables \in Seq(E)
    BY <1>1, <1>2
  <2> HIDE DEF E
  <2>2. /\ B \in Seq(E) /\ Len(B) = Len(A) + Len(ro_mem_tables)
        /\ \A i \in 1..Len(B) :
             B[i] = IF i <= Len(A) THEN A[i] ELSE ro_mem_tables[i - Len(A)]
    BY <2>1
  <2> QED BY <2>2 DEF E
<1>4. Layers = B \o <<mem_table>>
  BY DEF Layers, A
<1> HIDE DEF B
<1>5. <<mem_table>> \in Seq(SUBSET Record) /\ Len(<<mem_table>>) = 1
      /\ <<mem_table>>[1] = mem_table
  BY <1>1
<1>6. /\ Layers \in Seq(SUBSET Record) /\ Len(Layers) = Len(B) + 1
      /\ \A i \in 1..Len(Layers) :
           Layers[i] = IF i <= Len(B) THEN B[i] ELSE <<mem_table>>[i - Len(B)]
  BY <1>3, <1>4, <1>5
<1>7. DOMAIN Layers = 1..Len(Layers)
  BY <1>6
<1>8. ASSUME NEW i \in 1..Len(Layers), i > Len(B)
      PROVE  Layers[i] = mem_table
  <2>1. i - Len(B) = 1
    BY <1>3, <1>6, <1>8, <1>1, <1>2
  <2> QED BY <2>1, <1>5, <1>6, <1>8, <1>1, <1>2, <1>3
<1>9. ASSUME NEW i \in 1..Len(Layers)
      PROVE  Layers[i] =
              IF i <= Len(ss_tables) THEN ss_tables[i].recs
              ELSE IF i <= Len(ss_tables) + Len(ro_mem_tables)
                   THEN ro_mem_tables[i - Len(ss_tables)]
                   ELSE mem_table
  <2>1. i \in Nat /\ i >= 1 /\ Len(B) = Len(ss_tables) + Len(ro_mem_tables)
        /\ Len(A) = Len(ss_tables) /\ Len(B) \in Nat
    BY <1>1, <1>2, <1>3, <1>6
  <2>2. CASE i > Len(B)
    <3>1. Layers[i] = mem_table
      BY <1>8, <2>2
    <3> QED BY <1>1, <2>1, <2>2, <3>1
  <2>3. CASE i <= Len(B)
    <3>1. Layers[i] = B[i]
      BY <1>6, <2>3
    <3>2. B[i] = IF i <= Len(A) THEN A[i] ELSE ro_mem_tables[i - Len(A)]
      BY <1>3, <2>1, <2>3
    <3>3. CASE i <= Len(ss_tables)
      BY <1>2, <2>1, <3>1, <3>2, <3>3
    <3>4. CASE i > Len(ss_tables)
      BY <1>1, <2>1, <2>3, <3>1, <3>2, <3>4
    <3> QED BY <1>1, <2>1, <3>3, <3>4
  <2> QED BY <1>1, <2>1, <2>2, <2>3
<1>10. Len(Layers) = Len(ss_tables) + Len(ro_mem_tables) + 1
  BY <1>2, <1>3, <1>6
<1> QED BY <1>6, <1>7, <1>9, <1>10

\* A scan can reach exactly the records of the ss tables, of the frozen tables
\* and of the active mem table.
MembersByLayer ==
  \A r : r \in AllRecords <=>
    \/ \E i \in DOMAIN ss_tables : r \in ss_tables[i].recs
    \/ \E i \in DOMAIN ro_mem_tables : r \in ro_mem_tables[i]
    \/ r \in mem_table

\* Layers, as Lsm::Scan puts them together, hold no other records.
LEMMA AllRecordsMembers == LsmTypeOK => MembersByLayer
<1> SUFFICES ASSUME LsmTypeOK PROVE MembersByLayer
  OBVIOUS
<1>1. /\ ss_tables \in Seq(SSTable) /\ Len(ss_tables) \in Nat
      /\ ro_mem_tables \in Seq(SUBSET Record) /\ Len(ro_mem_tables) \in Nat
      /\ DOMAIN ss_tables = 1..Len(ss_tables)
      /\ DOMAIN ro_mem_tables = 1..Len(ro_mem_tables)
  BY DEF LsmTypeOK
<1>2. \A r : r \in AllRecords <=> \E i \in 1..Len(Layers) : r \in Layers[i]
  BY LayersValue DEF AllRecords
<1>3. ASSUME NEW r, NEW i \in DOMAIN ss_tables, r \in ss_tables[i].recs
      PROVE  r \in AllRecords
  <2>0. Len(Layers) = Len(ss_tables) + Len(ro_mem_tables) + 1
    BY LayersValue
  <2>a. i \in 1..Len(Layers) /\ i <= Len(ss_tables)
    BY <1>1, <2>0
  <2>1. i \in 1..Len(Layers) /\ Layers[i] = ss_tables[i].recs
    BY <2>a, LayersValue
  <2> QED BY <1>2, <1>3, <2>1
<1>4. ASSUME NEW r, NEW i \in DOMAIN ro_mem_tables, r \in ro_mem_tables[i]
      PROVE  r \in AllRecords
  <2> DEFINE j == i + Len(ss_tables)
  <2>1. j \in 1..Len(Layers) /\ Layers[j] = ro_mem_tables[i]
    BY <1>1, LayersValue
  <2> QED BY <1>2, <1>4, <2>1
<1>5. ASSUME NEW r, r \in mem_table PROVE r \in AllRecords
  <2>1. Len(Layers) \in 1..Len(Layers) /\ Layers[Len(Layers)] = mem_table
    BY <1>1, LayersValue
  <2> QED BY <1>2, <1>5, <2>1
<1>6. ASSUME NEW r, NEW i \in 1..Len(Layers), r \in Layers[i]
      PROVE  \/ \E k \in DOMAIN ss_tables : r \in ss_tables[k].recs
             \/ \E k \in DOMAIN ro_mem_tables : r \in ro_mem_tables[k]
             \/ r \in mem_table
  <2>1. CASE i <= Len(ss_tables)
    BY <2>1, <1>1, <1>6, LayersValue
  <2>2. CASE i > Len(ss_tables) /\ i <= Len(ss_tables) + Len(ro_mem_tables)
    <3>1. i - Len(ss_tables) \in DOMAIN ro_mem_tables
      BY <2>2, <1>1
    <3>2. r \in ro_mem_tables[i - Len(ss_tables)]
      BY <2>2, <1>1, <1>6, LayersValue
    <3> QED BY <3>1, <3>2
  <2>3. CASE i > Len(ss_tables) + Len(ro_mem_tables)
    BY <2>3, <1>1, <1>6, LayersValue
  <2> QED BY <2>1, <2>2, <2>3, <1>1
<1> QED BY <1>2, <1>3, <1>4, <1>5, <1>6 DEF MembersByLayer

-----------------------------------------------------------------------------
\* Writing a file keeps the directory well typed and the other files as they are.
LEMMA WriteFileEffect ==
  ASSUME Laws, LsmTypeOK, NEW no \in Nat, NEW h \in BOOLEAN, NEW recs \in SUBSET Record,
         WriteFile(no, h, recs)
  PROVE  /\ DOMAIN files' = DOMAIN files \cup {no}
         /\ DOMAIN files' \in SUBSET Nat
         /\ IsFiniteSet(DOMAIN files')
         /\ \A n \in DOMAIN files' : files'[n] \in File
         /\ \A n \in DOMAIN files : n # no => files'[n] = files[n]
         /\ no \in DOMAIN files'
         /\ files'[no] = [has_header |-> h, recs |-> recs]
<1>1. DOMAIN files' = DOMAIN files \cup {no}
  BY DEF WriteFile
<1>2. files'[no] = [has_header |-> h, recs |-> recs]
  BY <1>1 DEF WriteFile
<1>3. \A n \in DOMAIN files : n # no => files'[n] = files[n]
  BY <1>1 DEF WriteFile
<1>4. [has_header |-> h, recs |-> recs] \in File
  BY DEF File
<1>5. IsFiniteSet(DOMAIN files')
  <2>1. IsFiniteSet(DOMAIN files)
    BY DEF LsmTypeOK
  <2> QED BY <1>1, <2>1 DEF Laws, FiniteLaw
<1> QED BY <1>1, <1>2, <1>3, <1>4, <1>5 DEF LsmTypeOK

\* The number of a merged file is a number above the last table's.
LEMMA CompactFileNoType ==
  ASSUME LsmTypeOK PROVE CompactFileNo \in Nat
<1>1. CASE ss_tables = <<>>
  BY <1>1 DEF CompactFileNo
<1>2. CASE ss_tables # <<>>
  <2>1. ss_tables[Len(ss_tables)] \in SSTable
    BY <1>2 DEF LsmTypeOK
  <2> QED BY <1>2, <2>1 DEF CompactFileNo, SSTable
<1> QED BY <1>1, <1>2

\* The records of the ss tables are records.
LEMMA TableTypes ==
  ASSUME LsmTypeOK
  PROVE  /\ Len(ss_tables) \in Nat /\ DOMAIN ss_tables = 1..Len(ss_tables)
         /\ \A i \in DOMAIN ss_tables :
              ss_tables[i].no \in Nat /\ ss_tables[i].recs \in SUBSET Record
         /\ UNION {ss_tables[i].recs : i \in DOMAIN ss_tables} \in SUBSET Record
<1>1. /\ Len(ss_tables) \in Nat /\ DOMAIN ss_tables = 1..Len(ss_tables)
      /\ \A i \in DOMAIN ss_tables : ss_tables[i] \in SSTable
  BY DEF LsmTypeOK
<1>2. \A t \in SSTable : t.no \in Nat /\ t.recs \in SUBSET Record
  BY DEF SSTable
<1>3. \A i \in DOMAIN ss_tables :
        ss_tables[i].no \in Nat /\ ss_tables[i].recs \in SUBSET Record
  BY <1>1, <1>2
<1> QED BY <1>1, <1>3

\* Resuming the waiters of the mutex changes nothing but where they are.
LEMMA WakeEffect ==
  ASSUME LsmTypeOK
  PROVE  /\ Wake(flush) \in FlushJob
         /\ Wake(flush).pc = IF flush.pc = "waiting" THEN "woken" ELSE flush.pc
         /\ Wake(flush).no = flush.no /\ Wake(flush).pending = flush.pending
         /\ WakeAll(compact) \in [Compactor -> CompactJob]
         /\ \A c \in Compactor : WakeAll(compact)[c].pc =
              IF compact[c].pc = "waiting" THEN "woken" ELSE compact[c].pc
         /\ \A c \in Compactor :
              compact[c].pc # "waiting" => WakeAll(compact)[c] = compact[c]
<1>1. flush \in FlushJob /\ compact \in [Compactor -> CompactJob]
  BY DEF LsmTypeOK
<1>2. /\ Wake(flush) \in FlushJob
      /\ Wake(flush).pc = IF flush.pc = "waiting" THEN "woken" ELSE flush.pc
      /\ Wake(flush).no = flush.no /\ Wake(flush).pending = flush.pending
  BY <1>1 DEF Wake, FlushJob
<1>3. \A job \in CompactJob :
        /\ Wake(job) \in CompactJob
        /\ Wake(job).pc = IF job.pc = "waiting" THEN "woken" ELSE job.pc
        /\ job.pc # "waiting" => Wake(job) = job
  BY Zenon DEF Wake, CompactJob
<1>4. DOMAIN compact = Compactor /\ \A c \in Compactor : compact[c] \in CompactJob
  BY <1>1
<1> QED BY <1>2, <1>3, <1>4 DEF WakeAll

\* What DoPut does to the two kinds of mem tables.
LEMMA PutEffect ==
  ASSUME LsmTypeOK, NEW key \in Key, Put(key)
  PROVE  LET grown == mem_table \cup {[key |-> key, seq |-> next_seq_no]}
         IN /\ grown \in SUBSET Record
            /\ mem_table' \in SUBSET Record
            /\ ro_mem_tables' \in Seq(SUBSET Record)
            /\ Len(ro_mem_tables) \in Nat
            /\ Len(ro_mem_tables') \in Nat
            /\ Len(ro_mem_tables') >= Len(ro_mem_tables)
            /\ \A i \in 1..Len(ro_mem_tables) : ro_mem_tables'[i] = ro_mem_tables[i]
            /\ \/ mem_table' = grown /\ ro_mem_tables' = ro_mem_tables
               \/ /\ mem_table' = {}
                  /\ Len(ro_mem_tables') = Len(ro_mem_tables) + 1
                  /\ ro_mem_tables'[Len(ro_mem_tables')] = grown
<1> DEFINE grown == mem_table \cup {[key |-> key, seq |-> next_seq_no]}
           E == SUBSET Record
<1>1. grown \in E /\ {} \in E /\ mem_table \in E
  BY DEF LsmTypeOK, Record
<1>2. \/ mem_table' = grown /\ ro_mem_tables' = ro_mem_tables
      \/ mem_table' = {} /\ ro_mem_tables' = Append(ro_mem_tables, grown)
  BY DEF Put, DoPut
<1>3. ro_mem_tables \in Seq(E)
  BY DEF LsmTypeOK
<1> HIDE DEF grown, E
<1>4. Len(ro_mem_tables) \in Nat
  BY <1>3
<1>5. CASE mem_table' = grown /\ ro_mem_tables' = ro_mem_tables
  BY <1>1, <1>3, <1>4, <1>5 DEF grown, E
<1>6. CASE mem_table' = {} /\ ro_mem_tables' = Append(ro_mem_tables, grown)
  <2>1. /\ ro_mem_tables' \in Seq(E)
        /\ Len(ro_mem_tables') = Len(ro_mem_tables) + 1
        /\ \A i \in 1..Len(ro_mem_tables) : ro_mem_tables'[i] = ro_mem_tables[i]
        /\ ro_mem_tables'[Len(ro_mem_tables) + 1] = grown
    BY <1>1, <1>3, <1>6
  <2> QED BY <1>1, <1>4, <1>6, <2>1 DEF grown, E
<1> QED BY <1>2, <1>5, <1>6

\* Every step of the running process keeps the types.
LEMMA TypeStep ==
  ASSUME Laws, LsmTypeOK, MaintenanceExclusive, NumbersSplit, LsmWork PROVE LsmTypeOK'
<1>0. /\ flush \in FlushJob /\ compact \in [Compactor -> CompactJob]
      /\ FlushIdle \in FlushJob /\ CompactIdle \in CompactJob
  BY DEF LsmTypeOK, FlushIdle, CompactIdle, FlushJob, CompactJob
<1>1. ASSUME NEW key \in Key, Put(key) PROVE LsmTypeOK'
  <2>2. mem_table' \in SUBSET Record /\ ro_mem_tables' \in Seq(SUBSET Record)
    BY <1>1, PutEffect
  <2> QED BY <1>1, <2>2 DEF Put, LsmTypeOK
<1>2. CASE FlushLock
  <2>1. Len(ro_mem_tables) \in Nat
    BY DEF LsmTypeOK
  <2>2. flush' \in FlushJob
    BY <1>2, <2>1 DEF FlushLock, FlushJob, FlushIdle
  <2>3. maintenance_mutex' \in {"nobody", "flush", "abandoned"} \cup Compactor
    BY <1>2 DEF FlushLock, LsmTypeOK
  <2> QED BY <1>2, <2>2, <2>3 DEF FlushLock, LsmTypeOK
<1>3. CASE FlushOpen
  <2>1. FlushFileNo \in Nat
    BY DEF FlushFileNo, LsmTypeOK
  <2>2. flush' \in FlushJob
    BY <1>0, <1>3, <2>1, Zenon DEF FlushOpen, FlushJob
  <2>3. directory' \in {"in_step", "merging", "out_of_step", "disordered"}
    BY <1>3 DEF FlushOpen, LsmTypeOK
  <2> QED BY <1>3, <2>1, <2>2, <2>3, WriteFileEffect, Zenon DEF FlushOpen, LsmTypeOK
<1>4. CASE FlushHeader
  <2>1. flush.no \in Nat /\ flush' \in FlushJob
    BY <1>0, <1>4 DEF FlushHeader, FlushJob
  <2>2. /\ DOMAIN files' \in SUBSET Nat /\ IsFiniteSet(DOMAIN files')
        /\ \A n \in DOMAIN files' : files'[n] \in File
    <3>1. TRUE \in BOOLEAN /\ {} \in SUBSET Record /\ WriteFile(flush.no, TRUE, {})
      BY <1>4, Zenon DEF FlushHeader
    <3> QED BY <2>1, <3>1, WriteFileEffect, Zenon
  <2> QED BY <1>4, <2>1, <2>2 DEF FlushHeader, LsmTypeOK
<1>5. CASE FlushRecords
  <2>1. flush.no \in Nat /\ flush' \in FlushJob
    BY <1>0, <1>5 DEF FlushRecords, FlushJob
  <2>2. ro_mem_tables[1] \in SUBSET Record
    BY <1>5 DEF FlushRecords, LsmTypeOK, MaintenanceExclusive
  <2>3. /\ DOMAIN files' \in SUBSET Nat /\ IsFiniteSet(DOMAIN files')
        /\ \A n \in DOMAIN files' : files'[n] \in File
    <3>1. TRUE \in BOOLEAN /\ WriteFile(flush.no, TRUE, ro_mem_tables[1])
      BY <1>5, Zenon DEF FlushRecords
    <3> QED BY <2>1, <2>2, <3>1, WriteFileEffect, Zenon
  <2> QED BY <1>5, <2>1, <2>3 DEF FlushRecords, LsmTypeOK
<1>6. CASE FlushPublish
  <2>1. flush.no \in Nat /\ files[flush.no] \in File
    BY <1>0, <1>6 DEF FlushPublish, LsmTypeOK, MaintenanceExclusive, FlushJob
  <2>2. files[flush.no].recs \in SUBSET Record
    BY <2>1 DEF File
  <2>3. [no |-> flush.no, recs |-> files[flush.no].recs] \in SSTable
    BY <2>1, <2>2 DEF SSTable
  <2>4. ss_tables' \in Seq(SSTable)
    BY <1>6, <2>3 DEF FlushPublish, LsmTypeOK
  <2>5. ro_mem_tables # <<>> /\ flush.pending \in 1..Len(ro_mem_tables)
    BY <1>6 DEF FlushPublish, LsmTypeOK, MaintenanceExclusive
  <2>6. ro_mem_tables' \in Seq(SUBSET Record)
    BY <1>6, <2>5 DEF FlushPublish, LsmTypeOK
  <2>7. max_persistent_seq_no' \in Nat
    <3>1. \A r \in files[flush.no].recs : r.seq <= next_seq_no
      <4>1. files[flush.no].recs = ro_mem_tables[1]
        BY <1>6 DEF FlushPublish, MaintenanceExclusive
      <4>2. 1 \in DOMAIN ro_mem_tables
        BY <2>5 DEF LsmTypeOK
      <4>3. \A r \in ro_mem_tables[1] : r.seq < next_seq_no
        BY <4>2 DEF NumbersSplit
      <4>4. \A r \in ro_mem_tables[1] : r.seq \in Nat
        BY <2>2, <4>1 DEF Record
      <4> QED BY <4>1, <4>3, <4>4 DEF LsmTypeOK
    <3>2. HeaderMaxSeqNo(files[flush.no].recs) \in Nat
      BY <2>2, <3>1, HeaderMaxSeqNoIsMax DEF LsmTypeOK
    <3> QED BY <1>6, <3>2 DEF FlushPublish, MaxOf, LsmTypeOK
  <2>8. flush' \in FlushJob
    BY <1>0, <1>6, <2>5 DEF FlushPublish, FlushJob
  <2>9. /\ compact' \in [Compactor -> CompactJob]
        /\ maintenance_mutex' \in {"nobody", "flush", "abandoned"} \cup Compactor
    BY <1>6, WakeEffect DEF FlushPublish, LsmTypeOK
  <2> QED BY <1>6, <2>4, <2>6, <2>7, <2>8, <2>9 DEF FlushPublish, LsmTypeOK
<1>7. CASE FlushFail
  BY <1>0, <1>7 DEF FlushFail, LsmTypeOK
<1>8. ASSUME NEW c \in Compactor, CompactStep(c) \/ CompactFail(c) PROVE LsmTypeOK'
  <2>0. compact[c] \in CompactJob
    BY <1>0
  <2>1. CASE CompactLock(c)
    <3>1. compact' \in [Compactor -> CompactJob]
      <4>1. \/ compact' = [compact EXCEPT ![c] = [compact[c] EXCEPT !.pc = "waiting"]]
            \/ compact' = [compact EXCEPT ![c] = [compact[c] EXCEPT !.pc = "open"]]
        BY <2>1 DEF CompactLock
      <4>2. /\ [compact[c] EXCEPT !.pc = "waiting"] \in CompactJob
            /\ [compact[c] EXCEPT !.pc = "open"] \in CompactJob
        BY <2>0, Zenon DEF CompactJob
      <4> QED BY <1>0, <4>1, <4>2
    <3>2. maintenance_mutex' \in {"nobody", "flush", "abandoned"} \cup Compactor
      BY <2>1 DEF CompactLock, LsmTypeOK
    <3> QED BY <2>1, <3>1, <3>2 DEF CompactLock, LsmTypeOK
  <2>2. CASE CompactOpen(c)
    <3>1. [i \in 1..Len(ss_tables) |-> ss_tables[i].no] \in Seq(Nat)
      BY TableTypes
    <3>2. [pc |-> "header", no |-> CompactFileNo,
           input |-> UNION {ss_tables[i].recs : i \in DOMAIN ss_tables},
           files_to_delete |-> [i \in 1..Len(ss_tables) |-> ss_tables[i].no]]
          \in CompactJob
      BY <3>1, TableTypes, CompactFileNoType DEF CompactJob
    <3>3. compact' \in [Compactor -> CompactJob]
      BY <1>0, <2>2, <3>2 DEF CompactOpen
    <3> QED BY <2>2, <3>3, CompactFileNoType, WriteFileEffect, Zenon DEF CompactOpen, LsmTypeOK
  <2>3. CASE CompactHeader(c)
    <3>1. compact[c].no \in Nat /\ compact' \in [Compactor -> CompactJob]
      BY <1>0, <2>0, <2>3, Zenon DEF CompactHeader, CompactJob
    <3>2. /\ DOMAIN files' \in SUBSET Nat /\ IsFiniteSet(DOMAIN files')
          /\ \A n \in DOMAIN files' : files'[n] \in File
      <4>1. TRUE \in BOOLEAN /\ {} \in SUBSET Record
            /\ WriteFile(compact[c].no, TRUE, {})
        BY <2>3, Zenon DEF CompactHeader
      <4> QED BY <3>1, <4>1, WriteFileEffect, Zenon
    <3> QED BY <2>3, <3>1, <3>2 DEF CompactHeader, LsmTypeOK
  <2>4. CASE CompactRecords(c)
    <3>1. PICK kept \in SUBSET compact[c].input : WriteFile(compact[c].no, TRUE, kept)
      BY <2>4, Zenon DEF CompactRecords
    <3>2. kept \in SUBSET Record /\ compact[c].no \in Nat
      BY <2>0 DEF CompactJob
    <3>3. /\ DOMAIN files' \in SUBSET Nat /\ IsFiniteSet(DOMAIN files')
          /\ \A n \in DOMAIN files' : files'[n] \in File
      BY <3>1, <3>2, WriteFileEffect, Zenon
    <3>4. compact' \in [Compactor -> CompactJob]
      BY <1>0, <2>0, <2>4, Zenon DEF CompactRecords, CompactJob
    <3>5. directory' \in {"in_step", "merging", "out_of_step", "disordered"}
      BY <2>4 DEF CompactRecords, LsmTypeOK
    <3> QED BY <2>4, <3>3, <3>4, <3>5 DEF CompactRecords, LsmTypeOK
  <2>5. CASE CompactPublish(c)
    <3>1. compact[c].no \in Nat /\ files[compact[c].no] \in File
      BY <2>0, <2>5 DEF CompactPublish, LsmTypeOK, MaintenanceExclusive, CompactJob
    <3>2. [no |-> compact[c].no, recs |-> files[compact[c].no].recs] \in SSTable
      BY <3>1 DEF SSTable, File
    <3>3. ss_tables' \in Seq(SSTable)
      BY <2>5, <3>2 DEF CompactPublish
    <3>4. compact' \in [Compactor -> CompactJob]
      BY <1>0, <2>0, <2>5, Zenon DEF CompactPublish, CompactJob
    <3>5. discarded' \in SUBSET Record
      BY <2>0, <2>5 DEF CompactPublish, CompactJob, LsmTypeOK
    <3> QED BY <2>5, <3>3, <3>4, <3>5 DEF CompactPublish, LsmTypeOK
  <2>6. CASE CompactRemove(c)
    <3>1. DOMAIN files' = DOMAIN files \ {Head(compact[c].files_to_delete)}
          /\ \A n \in DOMAIN files' : files'[n] = files[n]
      BY <2>6 DEF CompactRemove
    <3>2. DOMAIN files' \in SUBSET Nat /\ \A n \in DOMAIN files' : files'[n] \in File
      BY <3>1 DEF LsmTypeOK
    <3>3. IsFiniteSet(DOMAIN files')
      BY <3>1 DEF Laws, FiniteLaw, LsmTypeOK
    <3>4. Tail(compact[c].files_to_delete) \in Seq(Nat)
      BY <2>0, <2>6 DEF CompactRemove, CompactJob
    <3>5. compact' \in [Compactor -> CompactJob]
      <4>1. compact' = [compact EXCEPT ![c] =
                          [@ EXCEPT !.files_to_delete = Tail(compact[c].files_to_delete)]]
        BY <2>6 DEF CompactRemove
      <4> QED BY <1>0, <2>0, <3>4, <4>1, Zenon DEF CompactJob
    <3> QED BY <2>6, <3>2, <3>3, <3>5 DEF CompactRemove, LsmTypeOK
  <2>7. CASE CompactFinish(c)
    <3>1. compact' \in [Compactor -> CompactJob] /\ flush' \in FlushJob
      BY <1>0, <2>7, WakeEffect DEF CompactFinish
    <3>2. directory' \in {"in_step", "merging", "out_of_step", "disordered"}
      BY <2>7 DEF CompactFinish, LsmTypeOK
    <3> QED BY <2>7, <3>1, <3>2 DEF CompactFinish, LsmTypeOK
  <2>8. CASE CompactFail(c)
    BY <1>0, <2>8 DEF CompactFail, LsmTypeOK
  <2> QED BY <1>8, <2>1, <2>2, <2>3, <2>4, <2>5, <2>6, <2>7, <2>8 DEF CompactStep
<1> QED BY <1>1, <1>2, <1>3, <1>4, <1>5, <1>6, <1>7, <1>8 DEF LsmWork, FlushStep

\* Every step keeps the maintenance mutex exclusive, its holder's view of the tree
\* up to date and its waiters behind a holder.
LEMMA MaintenanceStep ==
  ASSUME Laws, LsmTypeOK, MaintenanceExclusive, LsmWork PROVE MaintenanceExclusive'
<1> USE LsmAssumption
<1> DEFINE Out == {"idle", "waiting", "woken"}
<1>0. /\ flush \in FlushJob /\ compact \in [Compactor -> CompactJob]
      /\ Len(ss_tables) \in Nat /\ Len(ro_mem_tables) \in Nat
      /\ \A c \in Compactor : c # "nobody" /\ c # "flush" /\ c # "abandoned"
  BY DEF LsmTypeOK
<1>1. ASSUME NEW key \in Key, Put(key) PROVE MaintenanceExclusive'
  <2>1. /\ Len(ro_mem_tables') >= Len(ro_mem_tables) /\ Len(ro_mem_tables') \in Nat
        /\ ro_mem_tables # <<>> => ro_mem_tables'[1] = ro_mem_tables[1]
    BY <1>1, PutEffect
  <2>2. maintenance_mutex = "flush" =>
          ro_mem_tables # <<>> /\ flush.pending \in 1..Len(ro_mem_tables')
    BY <1>0, <2>1 DEF MaintenanceExclusive, FlushJob
  <2>3. flush.pc = "publish" => maintenance_mutex = "flush"
    BY DEF MaintenanceExclusive
  <2>4. UNCHANGED <<ss_tables, maintenance_mutex, files, flush, compact>>
    BY <1>1 DEF Put
  <2>5. flush.pc = "publish" => ro_mem_tables'[1] = ro_mem_tables[1]
    BY <2>1, <2>2, <2>3
  <2>6. maintenance_mutex' = "flush" => flush'.pending \in 1..Len(ro_mem_tables')
    BY <2>2, <2>4
  <2>7. flush'.pc = "publish" =>
          /\ flush'.no \in DOMAIN files'
          /\ files'[flush'.no] = [has_header |-> TRUE, recs |-> ro_mem_tables'[1]]
    BY <2>4, <2>5, Zenon DEF MaintenanceExclusive
  <2> QED BY <2>4, <2>6, <2>7 DEF MaintenanceExclusive
<1>2. CASE FlushLock
  <2>1. \A c \in Compactor : compact'[c] = compact[c]
    BY <1>2 DEF FlushLock
  <2>2. CASE maintenance_mutex' = maintenance_mutex /\ flush'.pc \in {"idle", "waiting"}
             /\ (flush'.pc = "waiting" => maintenance_mutex # "nobody")
    BY <1>2, <2>1, <2>2 DEF FlushLock, MaintenanceExclusive
  <2>3. CASE /\ maintenance_mutex = "nobody" /\ maintenance_mutex' = "flush"
             /\ flush'.pc = "open" /\ flush'.pending \in 1..Len(ro_mem_tables)
    BY <1>0, <1>2, <2>1, <2>3 DEF FlushLock, MaintenanceExclusive
  <2> QED
    <3>1. ro_mem_tables # <<>> => Len(ro_mem_tables) \in 1..Len(ro_mem_tables)
      BY <1>0 DEF LsmTypeOK
    <3> QED BY <1>0, <1>2, <2>2, <2>3, <3>1 DEF FlushLock, FlushIdle
<1>3. ASSUME flush.pc \in {"open", "header", "records", "publish"}
      PROVE  /\ maintenance_mutex = "flush"
             /\ flush.pending \in 1..Len(ro_mem_tables) /\ ro_mem_tables # <<>>
             /\ \A c \in Compactor : compact[c].pc \in Out
  BY <1>0, <1>3 DEF MaintenanceExclusive
<1>4. CASE FlushOpen
  <2>1. compact' = compact /\ flush' = [flush EXCEPT !.pc = "header", !.no = Len(ss_tables)]
    BY <1>4 DEF FlushOpen, FlushFileNo
  <2>2. flush'.pc = "header" /\ flush'.no = Len(ss_tables) /\ flush'.pending = flush.pending
    BY <1>0, <2>1 DEF FlushJob
  <2>3. UNCHANGED <<ro_mem_tables, ss_tables, maintenance_mutex>>
    BY <1>4 DEF FlushOpen
  <2>4. flush.pc = "open"
    BY <1>4 DEF FlushOpen
  <2> QED BY <1>0, <1>3, <2>1, <2>2, <2>3, <2>4 DEF MaintenanceExclusive
<1>5. CASE FlushHeader
  <2>1. compact' = compact /\ flush' = [flush EXCEPT !.pc = "records"] /\ flush.pc = "header"
    BY <1>5 DEF FlushHeader
  <2>2. flush'.pc = "records" /\ flush'.no = flush.no /\ flush'.pending = flush.pending
    BY <1>0, <2>1 DEF FlushJob
  <2>3. UNCHANGED <<ro_mem_tables, ss_tables, maintenance_mutex>>
    BY <1>5 DEF FlushHeader
  <2> QED BY <1>0, <1>3, <2>1, <2>2, <2>3 DEF MaintenanceExclusive
<1>6. CASE FlushRecords
  <2>1. compact' = compact /\ flush' = [flush EXCEPT !.pc = "publish"] /\ flush.pc = "records"
    BY <1>6 DEF FlushRecords
  <2>2. flush'.pc = "publish" /\ flush'.no = flush.no /\ flush'.pending = flush.pending
    BY <1>0, <2>1 DEF FlushJob
  <2>3. UNCHANGED <<ro_mem_tables, ss_tables, maintenance_mutex>>
    BY <1>6 DEF FlushRecords
  <2>4. flush.no \in Nat /\ ro_mem_tables[1] \in SUBSET Record
    BY <1>0, <1>3, <2>1 DEF LsmTypeOK, FlushJob
  <2>5. /\ flush.no \in DOMAIN files'
        /\ files'[flush.no] = [has_header |-> TRUE, recs |-> ro_mem_tables[1]]
    <3>1. TRUE \in BOOLEAN /\ WriteFile(flush.no, TRUE, ro_mem_tables[1])
      BY <1>6, Zenon DEF FlushRecords
    <3> QED BY <2>4, <3>1, WriteFileEffect, Zenon
  <2> QED BY <1>0, <1>3, <2>1, <2>2, <2>3, <2>5 DEF MaintenanceExclusive
<1>7. CASE FlushPublish
  <2>0. flush.pc = "publish"
    BY <1>7 DEF FlushPublish
  <2>1. Len(ro_mem_tables') = Len(ro_mem_tables) - 1
    BY <1>0, <1>3, <1>7, <2>0 DEF FlushPublish, LsmTypeOK
  <2>2. CASE flush.pending > 1
    <3>1. /\ flush' = [pc |-> "open", pending |-> flush.pending - 1, no |-> 0]
          /\ UNCHANGED <<maintenance_mutex, compact>>
      BY <1>7, <2>2 DEF FlushPublish
    <3>2. flush'.pc = "open" /\ flush'.pending \in 1..Len(ro_mem_tables')
      BY <1>0, <1>3, <2>0, <2>1, <2>2, <3>1
    <3> QED BY <1>0, <1>3, <2>0, <3>1, <3>2 DEF MaintenanceExclusive
  <2>3. CASE ~(flush.pending > 1)
    <3>1. flush' = FlushIdle /\ maintenance_mutex' = "nobody" /\ compact' = WakeAll(compact)
      BY <1>7, <2>3 DEF FlushPublish
    <3>2. \A c \in Compactor : compact'[c].pc \in {"idle", "woken"}
      BY <1>3, <2>0, <3>1, WakeEffect
    <3> QED BY <1>0, <3>1, <3>2 DEF MaintenanceExclusive, FlushIdle
  <2> QED BY <2>2, <2>3
<1>8. CASE FlushFail
  <2>1. flush' = FlushIdle /\ maintenance_mutex' = "abandoned" /\ compact' = compact
    BY <1>8 DEF FlushFail
  <2>2. \A c \in Compactor : compact[c].pc \in Out
    BY <1>3, <1>8 DEF FlushFail
  <2> QED BY <1>0, <2>1, <2>2 DEF MaintenanceExclusive, FlushIdle
<1>9. ASSUME NEW c \in Compactor, CompactStep(c) \/ CompactFail(c)
      PROVE  MaintenanceExclusive'
  <2>0. compact[c] \in CompactJob
    BY <1>0
  <2>1. CASE CompactLock(c)
    <3>1. UNCHANGED <<flush, files, ro_mem_tables, ss_tables>> /\ compact[c].pc \in Out
      BY <2>1 DEF CompactLock
    <3>2. CASE /\ maintenance_mutex # "nobody" /\ maintenance_mutex' = maintenance_mutex
               /\ compact' = [compact EXCEPT ![c].pc = "waiting"]
      <4>1. compact'[c].pc = "waiting" /\ \A d \in Compactor : d # c => compact'[d] = compact[d]
        BY <1>0, <2>0, <3>2 DEF CompactJob
      <4> QED BY <3>1, <3>2, <4>1 DEF MaintenanceExclusive
    <3>3. CASE /\ maintenance_mutex = "nobody" /\ maintenance_mutex' = c
               /\ compact' = [compact EXCEPT ![c].pc = "open"]
      <4>1. compact'[c].pc = "open" /\ \A d \in Compactor : d # c => compact'[d] = compact[d]
        BY <1>0, <2>0, <3>3 DEF CompactJob
      <4>2. flush.pc \in Out /\ \A d \in Compactor : compact[d].pc \in Out
        BY <1>0, <3>3 DEF MaintenanceExclusive
      <4> QED BY <1>0, <3>1, <3>3, <4>1, <4>2 DEF MaintenanceExclusive
    <3> QED BY <2>1, <3>2, <3>3 DEF CompactLock
  <2>2. ASSUME compact[c].pc \notin Out
        PROVE  /\ maintenance_mutex = c /\ flush.pc \in Out
               /\ \A d \in Compactor : d # c => compact[d].pc \in Out
    BY <1>0, <2>2 DEF MaintenanceExclusive
  <2>3. CASE CompactOpen(c)
    <3>1. UNCHANGED <<flush, ro_mem_tables, ss_tables, maintenance_mutex>>
          /\ compact[c].pc = "open"
      BY <2>3 DEF CompactOpen
    <3>2. /\ compact'[c].pc = "header"
          /\ compact'[c].input = UNION {ss_tables[i].recs : i \in DOMAIN ss_tables}
          /\ \A d \in Compactor : d # c => compact'[d] = compact[d]
      BY <1>0, <2>3 DEF CompactOpen
    <3> QED BY <1>0, <2>2, <3>1, <3>2 DEF MaintenanceExclusive
  <2>4. CASE CompactHeader(c)
    <3>1. UNCHANGED <<flush, ro_mem_tables, ss_tables, maintenance_mutex>>
          /\ compact[c].pc = "header"
      BY <2>4 DEF CompactHeader
    <3>2. /\ compact'[c].pc = "records" /\ compact'[c].input = compact[c].input
          /\ \A d \in Compactor : d # c => compact'[d] = compact[d]
      BY <1>0, <2>0, <2>4 DEF CompactHeader, CompactJob
    <3> QED BY <1>0, <2>2, <3>1, <3>2 DEF MaintenanceExclusive
  <2>5. CASE CompactRecords(c)
    <3>0. UNCHANGED <<flush, ro_mem_tables, ss_tables, maintenance_mutex>>
          /\ compact[c].pc = "records"
      BY <2>5 DEF CompactRecords
    <3>1. PICK kept \in SUBSET compact[c].input : WriteFile(compact[c].no, TRUE, kept)
      BY <2>5, Zenon DEF CompactRecords
    <3>2. kept \in SUBSET Record /\ compact[c].no \in Nat
      BY <2>0 DEF CompactJob
    <3>3. /\ compact[c].no \in DOMAIN files'
          /\ files'[compact[c].no] = [has_header |-> TRUE, recs |-> kept]
      <4>1. TRUE \in BOOLEAN
        OBVIOUS
      <4> QED BY <3>1, <3>2, <4>1, WriteFileEffect, Zenon
    <3>4. /\ compact'[c].pc = "publish" /\ compact'[c].input = compact[c].input
          /\ compact'[c].no = compact[c].no
          /\ \A d \in Compactor : d # c => compact'[d] = compact[d]
      BY <1>0, <2>0, <2>5 DEF CompactRecords, CompactJob
    <3> QED BY <1>0, <2>2, <3>0, <3>3, <3>4 DEF MaintenanceExclusive
  <2>6. CASE CompactPublish(c)
    <3>1. UNCHANGED <<flush, ro_mem_tables, files, maintenance_mutex>>
          /\ compact[c].pc = "publish"
      BY <2>6 DEF CompactPublish
    <3>2. /\ compact'[c].pc = "remove"
          /\ \A d \in Compactor : d # c => compact'[d] = compact[d]
      BY <1>0, <2>0, <2>6 DEF CompactPublish, CompactJob
    <3> QED BY <1>0, <2>2, <3>1, <3>2 DEF MaintenanceExclusive
  <2>7. CASE CompactRemove(c)
    <3>1. UNCHANGED <<flush, ro_mem_tables, ss_tables, maintenance_mutex>>
          /\ compact[c].pc = "remove"
      BY <2>7 DEF CompactRemove
    <3>2. /\ compact'[c].pc = "remove"
          /\ \A d \in Compactor : d # c => compact'[d] = compact[d]
      <4>1. compact' = [compact EXCEPT ![c] =
                          [@ EXCEPT !.files_to_delete = Tail(compact[c].files_to_delete)]]
        BY <2>7 DEF CompactRemove
      <4> QED BY <1>0, <2>0, <3>1, <4>1 DEF CompactJob
    <3> QED BY <1>0, <2>2, <3>1, <3>2 DEF MaintenanceExclusive
  <2>8. CASE CompactFinish(c)
    <3>1. /\ compact' = [WakeAll(compact) EXCEPT ![c] = CompactIdle]
          /\ flush' = Wake(flush) /\ maintenance_mutex' = "nobody"
          /\ compact[c].pc = "remove"
      BY <2>8 DEF CompactFinish
    <3>2. \A d \in Compactor : compact'[d].pc \in {"idle", "woken"}
      BY <2>2, <3>1, WakeEffect DEF CompactIdle
    <3>3. flush'.pc \in {"idle", "woken"}
      BY <2>2, <3>1, WakeEffect
    <3> QED BY <1>0, <3>1, <3>2, <3>3 DEF MaintenanceExclusive
  <2>9. CASE CompactFail(c)
    <3>1. /\ compact' = [compact EXCEPT ![c] = CompactIdle] /\ flush' = flush
          /\ maintenance_mutex' = "abandoned" /\ compact[c].pc \notin Out
      BY <2>9 DEF CompactFail
    <3>2. \A d \in Compactor : compact'[d].pc \in Out
      BY <1>0, <2>2, <3>1 DEF CompactIdle
    <3> QED BY <1>0, <2>2, <3>1, <3>2 DEF MaintenanceExclusive
  <2> QED BY <1>9, <2>1, <2>3, <2>4, <2>5, <2>6, <2>7, <2>8, <2>9 DEF CompactStep
<1> QED BY <1>1, <1>2, <1>4, <1>5, <1>6, <1>7, <1>8, <1>9 DEF LsmWork, FlushStep

\* Every step keeps the split of the numbers and the order of those in memory, and
\* the order of the ss tables if they were in order.
LEMMA NumbersStep ==
  ASSUME Laws, LsmTypeOK, MaintenanceExclusive, NumbersSplit, LsmWork
  PROVE  NumbersSplit' /\ (TablesOrdered => TablesOrdered')
<1>a. /\ ro_mem_tables \in Seq(SUBSET Record) /\ Len(ro_mem_tables) \in Nat
      /\ DOMAIN ro_mem_tables = 1..Len(ro_mem_tables)
      /\ ss_tables \in Seq(SSTable) /\ Len(ss_tables) \in Nat
      /\ DOMAIN ss_tables = 1..Len(ss_tables)
      /\ next_seq_no \in Nat /\ max_persistent_seq_no \in Nat
      /\ mem_table \in SUBSET Record
  BY DEF LsmTypeOK
<1>b. /\ \A i \in DOMAIN ro_mem_tables : \A r \in ro_mem_tables[i] : r.seq \in Nat
      /\ \A r \in mem_table : r.seq \in Nat
      /\ \A i \in DOMAIN ss_tables : \A r \in ss_tables[i].recs : r.seq \in Nat
  <2>1. \A r \in Record : r.seq \in Nat
    BY DEF Record
  <2>2. \A i \in DOMAIN ro_mem_tables : ro_mem_tables[i] \in SUBSET Record
    BY <1>a
  <2>3. \A i \in DOMAIN ss_tables : ss_tables[i].recs \in SUBSET Record
    <3>1. \A i \in DOMAIN ss_tables : ss_tables[i] \in SSTable
      BY <1>a
    <3>2. \A t \in SSTable : t.recs \in SUBSET Record
      BY DEF SSTable
    <3> QED BY <3>1, <3>2
  <2> QED BY <1>a, <2>1, <2>2, <2>3
<1>1. ASSUME NEW key \in Key, Put(key) PROVE NumbersSplit' /\ (TablesOrdered => TablesOrdered')
  <2> DEFINE grown == mem_table \cup {[key |-> key, seq |-> next_seq_no]}
  <2>1. /\ next_seq_no' = next_seq_no + 1
        /\ max_persistent_seq_no' = max_persistent_seq_no /\ ss_tables' = ss_tables
    BY <1>1 DEF Put
  <2>2. \A r \in grown : max_persistent_seq_no < r.seq /\ r.seq < next_seq_no'
    BY <1>a, <1>b, <2>1 DEF NumbersSplit
  <2>3. \A i \in DOMAIN ro_mem_tables : \A r \in ro_mem_tables[i], s \in grown : r.seq < s.seq
    BY <1>a, <1>b DEF NumbersSplit
  <2>4. DOMAIN ro_mem_tables' = 1..Len(ro_mem_tables')
    BY <1>1, PutEffect
  <2>5. CASE mem_table' = grown /\ ro_mem_tables' = ro_mem_tables
    <3> HIDE DEF grown
    <3> QED BY <1>a, <1>b, <2>1, <2>2, <2>3, <2>5, SMTT(60) DEF NumbersSplit, TablesOrdered
  <2>6. CASE /\ mem_table' = {}
             /\ Len(ro_mem_tables') = Len(ro_mem_tables) + 1
             /\ ro_mem_tables'[Len(ro_mem_tables')] = grown
    <3> HIDE DEF grown
    <3>1. \A i \in DOMAIN ro_mem_tables' :
            \/ i \in DOMAIN ro_mem_tables /\ ro_mem_tables'[i] = ro_mem_tables[i]
            \/ i = Len(ro_mem_tables) + 1 /\ ro_mem_tables'[i] = grown
      BY <1>1, <1>a, <2>4, <2>6, PutEffect
    <3>2. \A i \in DOMAIN ro_mem_tables' : \A r \in ro_mem_tables'[i] :
            max_persistent_seq_no' < r.seq /\ r.seq < next_seq_no'
      BY <1>a, <1>b, <2>1, <2>2, <3>1 DEF NumbersSplit
    <3>3. \A i, j \in DOMAIN ro_mem_tables' : i < j =>
            \A r \in ro_mem_tables'[i], s \in ro_mem_tables'[j] : r.seq < s.seq
      BY <1>a, <2>3, <3>1 DEF NumbersSplit
    <3> QED BY <1>a, <1>b, <2>1, <2>6, <3>2, <3>3 DEF NumbersSplit, TablesOrdered
  <2> QED BY <1>1, <2>5, <2>6, PutEffect
<1>2. CASE FlushPublish
  <2> DEFINE recs == ro_mem_tables[1]
  <2>1. /\ ro_mem_tables # <<>> /\ recs = files[flush.no].recs
        /\ recs \in SUBSET Record /\ 1 \in DOMAIN ro_mem_tables
    BY <1>2, <1>a DEF FlushPublish, MaintenanceExclusive
  <2>2. \A r \in recs : r.seq \in Nat /\ max_persistent_seq_no < r.seq /\ r.seq <= next_seq_no - 1
    BY <1>a, <1>b, <2>1 DEF NumbersSplit
  <2>3. /\ HeaderMaxSeqNo(recs) \in Seqs(recs) \cup {0} /\ HeaderMaxSeqNo(recs) \in Nat
        /\ HeaderMaxSeqNo(recs) <= next_seq_no - 1
        /\ \A r \in recs : r.seq <= HeaderMaxSeqNo(recs)
    <3>1. next_seq_no - 1 \in Nat
      BY DEF NumbersSplit
    <3> HIDE DEF recs
    <3> QED BY <2>1, <2>2, <3>1, HeaderMaxSeqNoIsMax
  <2>4. max_persistent_seq_no' = MaxOf(max_persistent_seq_no, HeaderMaxSeqNo(recs))
    BY <1>2, <2>1 DEF FlushPublish
  <2>5. /\ max_persistent_seq_no' \in Nat
        /\ max_persistent_seq_no <= max_persistent_seq_no'
        /\ max_persistent_seq_no' < next_seq_no
        /\ \A r \in recs : r.seq <= max_persistent_seq_no'
        /\ \/ max_persistent_seq_no' = max_persistent_seq_no
           \/ \E r \in recs : r.seq = max_persistent_seq_no'
    BY <1>a, <2>2, <2>3, <2>4 DEF MaxOf, Seqs, NumbersSplit
  <2>6. /\ Len(ro_mem_tables') = Len(ro_mem_tables) - 1
        /\ DOMAIN ro_mem_tables' = 1..Len(ro_mem_tables')
        /\ \A i \in DOMAIN ro_mem_tables' :
             i + 1 \in DOMAIN ro_mem_tables /\ ro_mem_tables'[i] = ro_mem_tables[i + 1]
    <3>1. ro_mem_tables' = Tail(ro_mem_tables)
      BY <1>2 DEF FlushPublish
    <3> QED BY <1>a, <2>1, <3>1
  <2>7. /\ Len(ss_tables') = Len(ss_tables) + 1
        /\ DOMAIN ss_tables' = 1..Len(ss_tables')
        /\ \A i \in DOMAIN ss_tables' :
             \/ i \in DOMAIN ss_tables /\ ss_tables'[i] = ss_tables[i]
             \/ i = Len(ss_tables) + 1 /\ ss_tables'[i].recs = recs
    <3> DEFINE table == [no |-> flush.no, recs |-> files[flush.no].recs]
    <3>1. ss_tables' = Append(ss_tables, table) /\ table.recs = recs
      BY <1>2, <2>1 DEF FlushPublish
    <3>2. table \in SSTable
      BY <2>1 DEF SSTable, LsmTypeOK, FlushJob
    <3> HIDE DEF table
    <3> QED BY <1>a, <3>1, <3>2
  <2>8. mem_table' = mem_table /\ next_seq_no' = next_seq_no
    BY <1>2 DEF FlushPublish
  <2> HIDE DEF recs
  <2>9. \A i \in DOMAIN ro_mem_tables' : \A r \in recs, s \in ro_mem_tables'[i] : r.seq < s.seq
    <3> SUFFICES ASSUME NEW i \in DOMAIN ro_mem_tables'
                 PROVE  \A r \in recs, s \in ro_mem_tables'[i] : r.seq < s.seq
      OBVIOUS
    <3>1. i + 1 \in DOMAIN ro_mem_tables /\ ro_mem_tables'[i] = ro_mem_tables[i + 1]
      BY <2>6
    <3>2. i \in Nat /\ 1 <= i
      BY <2>6
    <3>3. 1 < i + 1
      BY <3>2
    <3>4. \A r \in ro_mem_tables[1], s \in ro_mem_tables[i + 1] : r.seq < s.seq
      BY <2>1, <3>1, <3>3 DEF NumbersSplit
    <3> QED BY <3>1, <3>4 DEF recs
  <2>10. \A r \in recs, s \in mem_table : r.seq < s.seq
    BY <1>a, <2>1 DEF NumbersSplit, recs
  <2>11. \A i \in DOMAIN ss_tables' : \A r \in ss_tables'[i].recs : r.seq <= max_persistent_seq_no'
    BY <1>a, <1>b, <2>5, <2>7 DEF NumbersSplit
  <2>12. \A i \in DOMAIN ro_mem_tables' : \A r \in ro_mem_tables'[i] :
           max_persistent_seq_no' < r.seq /\ r.seq < next_seq_no'
    BY <1>a, <1>b, <2>5, <2>6, <2>8, <2>9 DEF NumbersSplit
  <2>13. \A r \in mem_table' : max_persistent_seq_no' < r.seq /\ r.seq < next_seq_no'
    BY <1>a, <1>b, <2>5, <2>8, <2>10 DEF NumbersSplit
  <2>14. TablesOrdered => TablesOrdered'
    BY <1>a, <1>b, <2>2, <2>7 DEF NumbersSplit, TablesOrdered
  <2>15. \A i, j \in DOMAIN ro_mem_tables' : i < j =>
           \A r \in ro_mem_tables'[i], s \in ro_mem_tables'[j] : r.seq < s.seq
    <3>1. \A i, j \in DOMAIN ro_mem_tables' : i < j => i + 1 < j + 1
      BY <1>a, <2>6
    <3> QED BY <1>a, <2>6, <3>1 DEF NumbersSplit
  <2>16. \A i \in DOMAIN ro_mem_tables' : \A r \in ro_mem_tables'[i], s \in mem_table' :
           r.seq < s.seq
    BY <1>a, <2>6, <2>8 DEF NumbersSplit
  <2> QED BY <1>a, <2>5, <2>8, <2>11, <2>12, <2>13, <2>14, <2>15, <2>16 DEF NumbersSplit
<1>3. ASSUME NEW c \in Compactor, CompactPublish(c) PROVE NumbersSplit' /\ (TablesOrdered => TablesOrdered')
  <2> DEFINE merged == [no |-> compact[c].no, recs |-> files[compact[c].no].recs]
  <2>1. ss_tables' = <<merged>>
    BY <1>3 DEF CompactPublish
  <2>2. DOMAIN ss_tables' = {1} /\ ss_tables'[1].recs = files[compact[c].no].recs
    BY <2>1
  <2>3. files[compact[c].no].recs \subseteq
          UNION {ss_tables[i].recs : i \in DOMAIN ss_tables}
    BY <1>3 DEF CompactPublish, MaintenanceExclusive
  <2>4. \A r \in files[compact[c].no].recs : r.seq <= max_persistent_seq_no
    BY <1>a, <2>3 DEF NumbersSplit
  <2>5. UNCHANGED <<mem_table, ro_mem_tables, max_persistent_seq_no, next_seq_no>>
    BY <1>3 DEF CompactPublish
  <2>6. \A i, j \in DOMAIN ss_tables' : ~(i < j)
    BY <2>2
  <2> QED BY <1>a, <2>2, <2>4, <2>5, <2>6 DEF NumbersSplit, TablesOrdered
<1>4. ASSUME UNCHANGED <<mem_table, ro_mem_tables, ss_tables, max_persistent_seq_no,
                         next_seq_no>>
      PROVE  NumbersSplit' /\ (TablesOrdered => TablesOrdered')
  BY <1>4 DEF NumbersSplit, TablesOrdered
<1>5. CASE FlushLock \/ FlushOpen \/ FlushHeader \/ FlushRecords \/ FlushFail
  BY <1>4, <1>5, Zenon DEF FlushLock, FlushOpen, FlushHeader, FlushRecords, FlushFail
<1>6. ASSUME NEW c \in Compactor,
             \/ CompactLock(c) \/ CompactOpen(c) \/ CompactHeader(c)
             \/ CompactRecords(c) \/ CompactRemove(c) \/ CompactFinish(c)
             \/ CompactFail(c)
      PROVE  NumbersSplit' /\ (TablesOrdered => TablesOrdered')
  BY <1>4, <1>6, Zenon DEF CompactLock, CompactOpen, CompactHeader, CompactRecords,
                    CompactRemove, CompactFinish, CompactFail
<1> QED BY <1>1, <1>2, <1>3, <1>5, <1>6 DEF LsmWork, FlushStep, CompactStep

-----------------------------------------------------------------------------
\* What a step does to the readable records: a put adds one, publishing a
\* compaction removes what the strategy left out, and no other step changes them.
LEMMA RecordsStep ==
  ASSUME LsmTypeOK, MaintenanceExclusive, NumbersSplit, LsmTypeOK', LsmWork
  PROVE  \/ \E key \in Key :
              /\ AllRecords' = AllRecords \cup {[key |-> key, seq |-> next_seq_no]}
              /\ next_seq_no' = next_seq_no + 1
              /\ discarded' = discarded
         \/ \E gone \in SUBSET AllRecords :
              /\ AllRecords' = AllRecords \ gone
              /\ discarded' = discarded \cup gone
              /\ next_seq_no' = next_seq_no
         \/ UNCHANGED <<AllRecords, discarded, next_seq_no>>
<1>a. MembersByLayer
  BY AllRecordsMembers
<1>b. MembersByLayer'
  BY AllRecordsMembers, PTL
<1>c. /\ ro_mem_tables \in Seq(SUBSET Record) /\ Len(ro_mem_tables) \in Nat
      /\ DOMAIN ro_mem_tables = 1..Len(ro_mem_tables)
      /\ ss_tables \in Seq(SSTable) /\ Len(ss_tables) \in Nat
      /\ DOMAIN ss_tables = 1..Len(ss_tables)
  BY DEF LsmTypeOK
<1>1. ASSUME NEW key \in Key, Put(key)
      PROVE  /\ AllRecords' = AllRecords \cup {[key |-> key, seq |-> next_seq_no]}
             /\ next_seq_no' = next_seq_no + 1
             /\ discarded' = discarded
  <2> DEFINE grown == mem_table \cup {[key |-> key, seq |-> next_seq_no]}
  <2>1. ss_tables' = ss_tables /\ next_seq_no' = next_seq_no + 1 /\ discarded' = discarded
    BY <1>1 DEF Put
  <2>2. DOMAIN ro_mem_tables' = 1..Len(ro_mem_tables')
    BY <1>1, PutEffect
  <2>3. ASSUME NEW r
        PROVE  (r \in mem_table' \/ \E i \in DOMAIN ro_mem_tables' : r \in ro_mem_tables'[i])
               <=> (r \in grown \/ \E i \in DOMAIN ro_mem_tables : r \in ro_mem_tables[i])
    <3>1. CASE mem_table' = grown /\ ro_mem_tables' = ro_mem_tables
      BY <3>1
    <3>2. CASE /\ mem_table' = {}
               /\ Len(ro_mem_tables') = Len(ro_mem_tables) + 1
               /\ ro_mem_tables'[Len(ro_mem_tables')] = grown
      <4> HIDE DEF grown
      <4>1. DOMAIN ro_mem_tables' = DOMAIN ro_mem_tables \cup {Len(ro_mem_tables')}
        BY <1>c, <2>2, <3>2
      <4>2. \A i \in DOMAIN ro_mem_tables : ro_mem_tables'[i] = ro_mem_tables[i]
        BY <1>1, <1>c, PutEffect
      <4> QED BY <3>2, <4>1, <4>2
    <3> QED BY <1>1, <3>1, <3>2, PutEffect
  <2>4. \A r : r \in AllRecords' <=>
               r \in AllRecords \/ r = [key |-> key, seq |-> next_seq_no]
    BY <1>a, <1>b, <2>1, <2>3 DEF MembersByLayer
  <2> QED BY <2>1, <2>4
<1>2. CASE FlushPublish
  <2>1. ro_mem_tables # <<>> /\ 1 \in DOMAIN ro_mem_tables
        /\ files[flush.no].recs = ro_mem_tables[1] /\ ro_mem_tables[1] \in SUBSET Record
    BY <1>2, <1>c, SMTT(90) DEF FlushPublish, MaintenanceExclusive
  <2>2. /\ DOMAIN ro_mem_tables' = 1..(Len(ro_mem_tables) - 1)
        /\ \A i \in DOMAIN ro_mem_tables' : ro_mem_tables'[i] = ro_mem_tables[i + 1]
    <3>1. ro_mem_tables' = Tail(ro_mem_tables)
      BY <1>2 DEF FlushPublish
    <3> QED BY <1>c, <2>1, <3>1
  <2>3. \A r : (\E i \in DOMAIN ro_mem_tables : r \in ro_mem_tables[i]) <=>
               \/ r \in ro_mem_tables[1]
               \/ \E i \in DOMAIN ro_mem_tables' : r \in ro_mem_tables'[i]
    <3>1. \A i \in DOMAIN ro_mem_tables : i = 1 \/ i - 1 \in DOMAIN ro_mem_tables'
      BY <1>c, <2>2
    <3>2. \A i \in DOMAIN ro_mem_tables' : i + 1 \in DOMAIN ro_mem_tables
      BY <1>c, <2>2
    <3>3. \A i \in DOMAIN ro_mem_tables : (i - 1) + 1 = i
      BY <1>c
    <3>4. \A i \in DOMAIN ro_mem_tables : i # 1 => ro_mem_tables'[i - 1] = ro_mem_tables[i]
      BY <2>2, <3>1, <3>3
    <3> QED BY <2>1, <2>2, <3>1, <3>2, <3>4
  <2>4. \A r : (\E i \in DOMAIN ss_tables' : r \in ss_tables'[i].recs) <=>
               \/ r \in ro_mem_tables[1]
               \/ \E i \in DOMAIN ss_tables : r \in ss_tables[i].recs
    <3> DEFINE table == [no |-> flush.no, recs |-> files[flush.no].recs]
    <3>1. ss_tables' = Append(ss_tables, table) /\ table.recs = ro_mem_tables[1]
      BY <1>2, <2>1 DEF FlushPublish
    <3>2. table \in SSTable
      BY <2>1 DEF SSTable, LsmTypeOK, FlushJob
    <3> HIDE DEF table
    <3>3. /\ DOMAIN ss_tables' = DOMAIN ss_tables \cup {Len(ss_tables) + 1}
          /\ \A i \in DOMAIN ss_tables : ss_tables'[i] = ss_tables[i]
          /\ ss_tables'[Len(ss_tables) + 1] = table
      BY <1>c, <3>1, <3>2
    <3> QED BY <3>1, <3>3
  <2>5. UNCHANGED <<mem_table, discarded, next_seq_no>>
    BY <1>2 DEF FlushPublish
  <2>6. \A r : r \in AllRecords' <=> r \in AllRecords
    BY <1>a, <1>b, <2>3, <2>4, <2>5 DEF MembersByLayer
  <2>7. AllRecords' = AllRecords
    BY <2>6
  <2> QED BY <2>5, <2>7
<1>3. ASSUME NEW c \in Compactor, CompactPublish(c)
      PROVE  \E gone \in SUBSET AllRecords :
               /\ AllRecords' = AllRecords \ gone
               /\ discarded' = discarded \cup gone
               /\ next_seq_no' = next_seq_no
  <2> DEFINE kept == files[compact[c].no].recs
             gone == compact[c].input \ kept
  <2>1. /\ compact[c].input = UNION {ss_tables[i].recs : i \in DOMAIN ss_tables}
        /\ kept \subseteq compact[c].input
    BY <1>3 DEF CompactPublish, MaintenanceExclusive
  <2>2. /\ UNCHANGED <<mem_table, ro_mem_tables, next_seq_no>>
        /\ discarded' = discarded \cup gone
        /\ ss_tables' = <<[no |-> compact[c].no, recs |-> kept]>>
    BY <1>3 DEF CompactPublish
  <2>3. \A r : (\E i \in DOMAIN ss_tables' : r \in ss_tables'[i].recs) <=> r \in kept
    BY <2>2
  <2>4. \A r \in gone : r \notin mem_table
                        /\ \A i \in DOMAIN ro_mem_tables : r \notin ro_mem_tables[i]
    <3>1. \A r \in gone : ~(max_persistent_seq_no < r.seq)
      <4>1. \A r \in gone : \E i \in DOMAIN ss_tables : r \in ss_tables[i].recs
        BY <2>1
      <4>2. \A i \in DOMAIN ss_tables : \A r \in ss_tables[i].recs :
              r.seq \in Nat /\ r.seq <= max_persistent_seq_no
        <5>1. \A i \in DOMAIN ss_tables : ss_tables[i] \in SSTable
          BY <1>c
        <5>2. \A t \in SSTable : \A r \in t.recs : r.seq \in Nat
          BY DEF SSTable, Record
        <5> QED BY <5>1, <5>2 DEF NumbersSplit
      <4>3. max_persistent_seq_no \in Nat
        BY DEF LsmTypeOK
      <4>4. \A n, m \in Nat : n <= m => ~(m < n)
        OBVIOUS
      <4> QED BY <4>1, <4>2, <4>3, <4>4, Zenon
    <3> QED BY <3>1 DEF NumbersSplit
  <2>5. gone \in SUBSET AllRecords
    BY <1>a, <2>1 DEF MembersByLayer
  <2>6. \A r : (\E i \in DOMAIN ss_tables : r \in ss_tables[i].recs)
               <=> r \in kept \/ r \in gone
    BY <2>1
  <2> HIDE DEF kept
  <2>7. \A r \in gone : r \notin kept
    OBVIOUS
  <2> HIDE DEF gone
  <2>8. \A r : r \in AllRecords' <=> r \in AllRecords /\ r \notin gone
    BY <1>a, <1>b, <2>2, <2>3, <2>4, <2>6, <2>7 DEF MembersByLayer
  <2>9. AllRecords' = AllRecords \ gone
    BY <2>8
  <2> QED BY <2>2, <2>5, <2>9
<1>4. ASSUME UNCHANGED <<mem_table, ro_mem_tables, ss_tables, next_seq_no, discarded>>
      PROVE  UNCHANGED <<AllRecords, discarded, next_seq_no>>
  BY <1>4 DEF AllRecords, Layers
<1>5. CASE FlushLock \/ FlushOpen \/ FlushHeader \/ FlushRecords \/ FlushFail
  BY <1>4, <1>5, Zenon DEF FlushLock, FlushOpen, FlushHeader, FlushRecords, FlushFail
<1>6. ASSUME NEW c \in Compactor,
             \/ CompactLock(c) \/ CompactOpen(c) \/ CompactHeader(c)
             \/ CompactRecords(c) \/ CompactRemove(c) \/ CompactFinish(c)
             \/ CompactFail(c)
      PROVE  UNCHANGED <<AllRecords, discarded, next_seq_no>>
  BY <1>4, <1>6, Zenon DEF CompactLock, CompactOpen, CompactHeader, CompactRecords,
                    CompactRemove, CompactFinish, CompactFail
<1> QED
  BY <1>1, <1>2, <1>3, <1>5, <1>6 DEF LsmWork, FlushStep, CompactStep

\* Every step keeps each number used up readable or discarded.
LEMMA ServedStep ==
  ASSUME LsmTypeOK, MaintenanceExclusive, NumbersSplit, NumbersServed, LsmTypeOK', LsmWork
  PROVE  NumbersServed'
<1>1. ASSUME NEW key \in Key,
             /\ AllRecords' = AllRecords \cup {[key |-> key, seq |-> next_seq_no]}
             /\ next_seq_no' = next_seq_no + 1
             /\ discarded' = discarded
      PROVE  NumbersServed'
  <2>1. ASSUME NEW seq \in 1..(next_seq_no' - 1)
        PROVE  seq \in Seqs(AllRecords') \cup Seqs(discarded')
    <3>1. CASE seq = next_seq_no
      <4>1. [key |-> key, seq |-> next_seq_no] \in AllRecords'
        BY <1>1
      <4>2. [key |-> key, seq |-> next_seq_no].seq = seq
        BY <3>1
      <4> QED BY <4>1, <4>2 DEF Seqs
    <3>2. CASE seq # next_seq_no
      <4>1. seq \in 1..(next_seq_no - 1)
        <5>1. next_seq_no \in Nat
          BY DEF LsmTypeOK
        <5>2. next_seq_no' = next_seq_no + 1
          BY <1>1
        <5> QED BY <5>1, <5>2, <2>1, <3>2
      <4> QED BY <1>1, <4>1 DEF NumbersServed, Seqs
    <3> QED BY <3>1, <3>2
  <2> QED BY <2>1 DEF NumbersServed, Seqs
<1>2. ASSUME NEW gone \in SUBSET AllRecords,
             /\ AllRecords' = AllRecords \ gone
             /\ discarded' = discarded \cup gone
             /\ next_seq_no' = next_seq_no
      PROVE  NumbersServed'
  BY <1>2 DEF NumbersServed, Seqs
<1>3. CASE UNCHANGED <<AllRecords, discarded, next_seq_no>>
  BY <1>3 DEF NumbersServed, Seqs
<1> QED BY <1>1, <1>2, <1>3, RecordsStep

-----------------------------------------------------------------------------
\* A freshly created table satisfies the invariant.
LEMMA InitInv ==
  ASSUME Laws
  PROVE  LsmInit => LsmInv
<1> SUFFICES ASSUME LsmInit PROVE LsmInv
  OBVIOUS
<1> USE LsmAssumption
<1>1. DOMAIN files = {} /\ IsFiniteSet(DOMAIN files)
  BY DEF Laws, FiniteLaw, LsmInit
<1>2. LsmTypeOK
  <2>1. CompactIdle \in CompactJob /\ FlushIdle \in FlushJob
    BY DEF CompactIdle, CompactJob, FlushIdle, FlushJob
  <2> QED BY <1>1, <2>1 DEF LsmInit, LsmTypeOK
<1>3. MaintenanceExclusive
  BY DEF LsmInit, MaintenanceExclusive, FlushIdle, CompactIdle
<1>4. NumbersSplit /\ TablesOrdered /\ FilesMatchTables /\ FilesBelowNext
  BY <1>1 DEF LsmInit, NumbersSplit, TablesOrdered, FilesMatchTables, FilesBelowNext
<1>5. NumbersServed
  BY DEF LsmInit, NumbersServed
<1>6. InStepFiles
  BY <1>1 DEF LsmInit, InStepFiles, SpareFiles, FlushIdle, CompactIdle
<1>7. directory = "in_step"
  BY DEF LsmInit
<1> QED BY <1>2, <1>3, <1>4, <1>5, <1>6, <1>7 DEF LsmInv, DirectoryInv

-----------------------------------------------------------------------------
\* What is written to a file is a frozen table or part of the ss tables, so no
\* file gets ahead of the numbers.
LEMMA FilesBelowStep ==
  ASSUME Laws, LsmTypeOK, MaintenanceExclusive, NumbersSplit, FilesBelowNext, LsmWork
  PROVE  FilesBelowNext'
<1>t. /\ next_seq_no \in Nat /\ max_persistent_seq_no \in Nat
      /\ \A n \in DOMAIN files : files[n].recs \in SUBSET Record
      /\ \A r \in Record : r.seq \in Nat
  BY DEF LsmTypeOK, File, Record
<1>1. ASSUME files' = files, next_seq_no' \in Nat, next_seq_no' >= next_seq_no
      PROVE  FilesBelowNext'
  <2>1. \A n \in DOMAIN files : \A r \in files[n].recs : r.seq \in Nat
    BY <1>t
  <2> QED BY <1>1, <1>t, <2>1 DEF FilesBelowNext
<1>2. ASSUME NEW no \in Nat, NEW h \in BOOLEAN, NEW recs \in SUBSET Record,
             WriteFile(no, h, recs), \A r \in recs : r.seq < next_seq_no,
             next_seq_no' = next_seq_no
      PROVE  FilesBelowNext'
  <2>1. /\ DOMAIN files' = DOMAIN files \cup {no}
        /\ \A n \in DOMAIN files : n # no => files'[n] = files[n]
        /\ files'[no] = [has_header |-> h, recs |-> recs]
    BY <1>2, WriteFileEffect, Zenon
  <2>2. files'[no].recs = recs
    BY <2>1
  <2> QED BY <1>2, <2>1, <2>2 DEF FilesBelowNext
<1>3. ASSUME NEW key \in Key, Put(key) PROVE FilesBelowNext'
  <2>1. files' = files /\ next_seq_no' = next_seq_no + 1
    BY <1>3 DEF Put
  <2> QED BY <1>1, <1>t, <2>1
<1>4. CASE FlushLock \/ FlushPublish \/ FlushFail
  <2>1. files' = files /\ next_seq_no' = next_seq_no
    BY <1>4 DEF FlushLock, FlushPublish, FlushFail
  <2> QED BY <1>1, <1>t, <2>1
<1>5. CASE FlushOpen \/ FlushHeader
  <2>1. /\ next_seq_no' = next_seq_no
        /\ \E no \in Nat, h \in BOOLEAN : WriteFile(no, h, {})
    <3>1. FlushFileNo \in Nat /\ flush.no \in Nat /\ TRUE \in BOOLEAN /\ FALSE \in BOOLEAN
      BY DEF FlushFileNo, LsmTypeOK, FlushJob
    <3> QED BY <1>5, <3>1, Zenon DEF FlushOpen, FlushHeader
  <2> QED BY <1>2, <2>1
<1>6. CASE FlushRecords
  <2>1. /\ next_seq_no' = next_seq_no /\ WriteFile(flush.no, TRUE, ro_mem_tables[1])
        /\ flush.no \in Nat
    BY <1>6, Zenon DEF FlushRecords, LsmTypeOK, FlushJob
  <2>2. 1 \in DOMAIN ro_mem_tables
    BY <1>6 DEF FlushRecords, MaintenanceExclusive, LsmTypeOK
  <2>3. /\ ro_mem_tables[1] \in SUBSET Record
        /\ \A r \in ro_mem_tables[1] : r.seq < next_seq_no
    BY <2>2 DEF LsmTypeOK, NumbersSplit
  <2>4. TRUE \in BOOLEAN
    OBVIOUS
  <2> QED BY <1>2, <2>1, <2>3, <2>4, Zenon
<1>7. ASSUME NEW c \in Compactor,
             \/ CompactLock(c) \/ CompactPublish(c) \/ CompactFinish(c) \/ CompactFail(c)
      PROVE  FilesBelowNext'
  <2>1. files' = files /\ next_seq_no' = next_seq_no
    BY <1>7 DEF CompactLock, CompactPublish, CompactFinish, CompactFail
  <2> QED BY <1>1, <1>t, <2>1
<1>8. ASSUME NEW c \in Compactor, CompactOpen(c) \/ CompactHeader(c)
      PROVE  FilesBelowNext'
  <2>1. /\ next_seq_no' = next_seq_no
        /\ \E no \in Nat, h \in BOOLEAN : WriteFile(no, h, {})
    <3>1. CompactFileNo \in Nat /\ compact[c].no \in Nat /\ TRUE \in BOOLEAN /\ FALSE \in BOOLEAN
      BY CompactFileNoType DEF LsmTypeOK, CompactJob
    <3> QED BY <1>8, <3>1, Zenon DEF CompactOpen, CompactHeader
  <2> QED BY <1>2, <2>1
<1>9. ASSUME NEW c \in Compactor, CompactRecords(c) PROVE FilesBelowNext'
  <2>1. PICK kept \in SUBSET compact[c].input : WriteFile(compact[c].no, TRUE, kept)
    BY <1>9, Zenon DEF CompactRecords
  <2>2. compact[c].input = UNION {ss_tables[i].recs : i \in DOMAIN ss_tables}
    BY <1>9 DEF CompactRecords, MaintenanceExclusive
  <2>3. compact[c].no \in Nat /\ compact[c].input \in SUBSET Record
    BY DEF LsmTypeOK, CompactJob
  <2>4. \A r \in kept : r.seq \in Nat /\ r.seq <= max_persistent_seq_no
    BY <1>t, <2>2, <2>3 DEF NumbersSplit
  <2>5. \A r \in kept : r.seq < next_seq_no
    BY <1>t, <2>4 DEF NumbersSplit
  <2>6. next_seq_no' = next_seq_no /\ TRUE \in BOOLEAN
    BY <1>9 DEF CompactRecords
  <2> QED BY <1>2, <2>1, <2>3, <2>5, <2>6, Zenon
<1>10. ASSUME NEW c \in Compactor, CompactRemove(c) PROVE FilesBelowNext'
  <2>1. /\ DOMAIN files' \subseteq DOMAIN files /\ next_seq_no' = next_seq_no
        /\ \A n \in DOMAIN files' : files'[n] = files[n]
    BY <1>10 DEF CompactRemove
  <2> QED BY <2>1 DEF FilesBelowNext
<1> QED BY <1>3, <1>4, <1>5, <1>6, <1>7, <1>8, <1>9, <1>10
        DEF LsmWork, FlushStep, CompactStep

-----------------------------------------------------------------------------
\* Steps that only lock, or leave the mutex abandoned, or put a record, leave the
\* directory as it is.
LEMMA DirectoryIdleStep ==
  ASSUME LsmInv, UNCHANGED <<ss_tables, files, directory>>,
         ro_mem_tables # <<>> => ro_mem_tables' # <<>> /\ ro_mem_tables'[1] = ro_mem_tables[1],
         \/ maintenance_mutex' = "abandoned"
         \/ /\ \A n : BeingWritten(n) => BeingWritten(n)'
            /\ maintenance_mutex' = maintenance_mutex \/ maintenance_mutex = "nobody",
         flush'.pc \in {"header", "records", "publish"} => flush' = flush,
         \A c \in Compactor :
           compact'[c].pc \in {"header", "records", "publish", "remove"} =>
             compact'[c] = compact[c],
         \/ maintenance_mutex' = "abandoned"
         \/ \A c \in Compactor :
              compact[c].pc \in {"publish", "remove"} => compact'[c] = compact[c]
  PROVE  DirectoryInv'
<1> USE DEF LsmInv
<1>1. /\ TableNos' = TableNos /\ SpareFiles' = SpareFiles
      /\ FilesMatchTables => FilesMatchTables'
  BY DEF TableNos, SpareFiles, FilesMatchTables
<1>2. ASSUME NEW c \in Compactor,
             compact'[c].pc \in {"header", "records", "publish", "remove"}
      PROVE  compact'[c] = compact[c] /\ ToDelete(c)' = ToDelete(c)
  BY <1>2 DEF ToDelete
<1>3. CASE directory = "in_step"
  <2>1. InStepFiles
    BY <1>3 DEF DirectoryInv
  <2>2. ASSUME NEW n \in SpareFiles
        PROVE  /\ \A m \in TableNos' : m < n
               /\ files'[n].recs = {} \/ (ro_mem_tables' # <<>> /\ files'[n].recs = ro_mem_tables'[1])
               /\ BeingWritten(n)' \/ maintenance_mutex' = "abandoned"
    <3>1. \A m \in TableNos' : m < n
      BY <1>1, <2>1 DEF InStepFiles
    <3>2. files'[n].recs = {} \/ (ro_mem_tables' # <<>> /\ files'[n].recs = ro_mem_tables'[1])
      BY <2>1 DEF InStepFiles
    <3>3. BeingWritten(n) \/ maintenance_mutex = "abandoned"
      BY <2>1 DEF InStepFiles
    <3>4. maintenance_mutex = "abandoned" =>
            maintenance_mutex' = "abandoned"
      OBVIOUS
    <3> QED BY <3>1, <3>2, <3>3, <3>4
  <2>3. flush'.pc \in {"header", "records", "publish"} => flush'.no \in SpareFiles'
    BY <1>1, <2>1 DEF InStepFiles
  <2>4. ASSUME NEW c \in Compactor
        PROVE  /\ compact'[c].pc \in {"header", "records"} =>
                    compact'[c].no \in SpareFiles' /\ ToDelete(c)' = TableNos'
               /\ compact'[c].pc \notin {"publish", "remove"}
    BY <1>1, <1>2, <2>1 DEF InStepFiles
  <2>5. \A n, m \in SpareFiles' : n = m
    BY <1>1, <2>1 DEF InStepFiles
  <2>6. InStepFiles'
    BY <1>1, <2>2, <2>3, <2>4, <2>5 DEF InStepFiles
  <2> QED BY <1>1, <1>3, <2>6 DEF DirectoryInv
<1>4. CASE directory = "merging"
  <2>1. MergingFiles
    BY <1>4 DEF DirectoryInv
  <2>2. \/ maintenance_mutex' = "abandoned"
        \/ \E c \in Compactor : compact'[c].pc \in {"publish", "remove"}
    BY <2>1 DEF MergingFiles, MaintenanceExclusive
  <2>3. ASSUME NEW c \in Compactor
        PROVE  /\ compact'[c].pc = "publish" =>
                    /\ SpareFiles' = {compact'[c].no}
                    /\ ToDelete(c)' = TableNos'
               /\ compact'[c].pc = "remove" =>
                    /\ TableNos' = {compact'[c].no}
                    /\ SpareFiles' \subseteq ToDelete(c)'
                    /\ compact'[c].no \notin ToDelete(c)'
    BY <1>1, <1>2, <2>1 DEF MergingFiles
  <2>4. MergingFiles'
    BY <2>2, <2>3 DEF MergingFiles
  <2> QED BY <1>1, <1>4, <2>4 DEF DirectoryInv
<1> QED BY <1>3, <1>4 DEF DirectoryInv

\* While somebody writes a file no other flush or compaction is running.
LEMMA WriterIsAlone ==
  ASSUME LsmInv
  PROVE  /\ flush.pc \in {"open", "header", "records", "publish"} =>
              /\ directory # "merging"
              /\ maintenance_mutex = "flush"
              /\ \A d \in Compactor : compact[d].pc \in {"idle", "waiting", "woken"}
         /\ \A c \in Compactor :
              compact[c].pc \in {"open", "header", "records", "publish", "remove"} =>
                /\ compact[c].pc \in {"open", "header", "records"} => directory # "merging"
                /\ maintenance_mutex = c
                /\ flush.pc \in {"idle", "waiting", "woken"}
                /\ \A d \in Compactor : d # c => compact[d].pc \in {"idle", "waiting", "woken"}
<1> USE LsmAssumption DEF LsmInv
<1>1. ASSUME flush.pc \in {"open", "header", "records", "publish"}
      PROVE  /\ maintenance_mutex = "flush"
             /\ \A d \in Compactor : compact[d].pc \in {"idle", "waiting", "woken"}
  BY <1>1 DEF MaintenanceExclusive
<1>2. ASSUME NEW c \in Compactor,
             compact[c].pc \in {"open", "header", "records", "publish", "remove"}
      PROVE  /\ maintenance_mutex = c
             /\ flush.pc \in {"idle", "waiting", "woken"}
             /\ \A d \in Compactor : d # c => compact[d].pc \in {"idle", "waiting", "woken"}
  BY <1>2 DEF MaintenanceExclusive
<1>3. ASSUME directory = "merging"
      PROVE  \/ maintenance_mutex = "abandoned"
             \/ \E d \in Compactor : compact[d].pc \in {"publish", "remove"}
  BY <1>3 DEF DirectoryInv, MergingFiles
<1>4. ASSUME flush.pc \in {"open", "header", "records", "publish"}
      PROVE  directory # "merging"
  BY <1>1, <1>3, <1>4
<1>5. ASSUME NEW c \in Compactor, compact[c].pc \in {"open", "header", "records"}
      PROVE  directory # "merging"
  <2>1. /\ maintenance_mutex = c
        /\ \A d \in Compactor : d # c => compact[d].pc \in {"idle", "waiting", "woken"}
    BY <1>2, <1>5
  <2>2. c # "abandoned"
    OBVIOUS
  <2> QED BY <1>3, <1>5, <2>1, <2>2
<1> QED BY <1>1, <1>2, <1>4, <1>5

\* While the directory is in step a file may be written whose number is above the
\* tables', if there is no other spare file and it becomes the one being written.
LEMMA DirectoryWriteStep ==
  ASSUME LsmInv, directory = "in_step", directory' = "in_step",
         NEW no \in Nat, NEW h \in BOOLEAN, NEW recs \in SUBSET Record,
         WriteFile(no, h, recs), UNCHANGED <<ss_tables, ro_mem_tables>>,
         \A m \in TableNos : m < no,
         SpareFiles \subseteq {no},
         recs = {} \/ (ro_mem_tables # <<>> /\ recs = ro_mem_tables[1]),
         BeingWritten(no)',
         flush'.pc \in {"header", "records", "publish"} => flush'.no = no,
         \A c \in Compactor :
           /\ compact'[c].pc \in {"header", "records"} =>
                compact'[c].no = no /\ ToDelete(c)' = TableNos
           /\ compact'[c].pc \notin {"publish", "remove"}
  PROVE  DirectoryInv'
<1> USE DEF LsmInv
<1>1. /\ DOMAIN files' = DOMAIN files \cup {no}
      /\ \A n \in DOMAIN files : n # no => files'[n] = files[n]
      /\ files'[no] = [has_header |-> h, recs |-> recs]
  <2>1. DOMAIN files' = DOMAIN files \cup {no}
    BY DEF WriteFile
  <2>2. files'[no] = [has_header |-> h, recs |-> recs]
    BY <2>1 DEF WriteFile
  <2>3. \A n \in DOMAIN files : n # no => files'[n] = files[n]
    BY <2>1 DEF WriteFile
  <2> QED BY <2>1, <2>2, <2>3
<1>2. TableNos' = TableNos /\ no \notin TableNos
  <2>1. TableNos' = TableNos
    BY DEF TableNos
  <2>2. ~(no < no)
    OBVIOUS
  <2> QED BY <2>1, <2>2
<1>3. SpareFiles' = {no}
  BY <1>1, <1>2 DEF SpareFiles
<1>4. FilesMatchTables'
  <2>1. FilesMatchTables
    BY DEF DirectoryInv
  <2>2. \A i \in DOMAIN ss_tables : ss_tables[i].no # no
    BY <1>2 DEF TableNos
  <2> QED BY <1>1, <2>1, <2>2 DEF FilesMatchTables
<1>5. files'[no].recs = {} \/ (ro_mem_tables' # <<>> /\ files'[no].recs = ro_mem_tables'[1])
  BY <1>1
<1>6. InStepFiles'
  BY <1>2, <1>3, <1>5 DEF InStepFiles
<1> QED BY <1>4, <1>6 DEF DirectoryInv

\* The flush keeps the directory as the invariant says.
LEMMA DirectoryFlushStep ==
  ASSUME LsmInv, FlushStep \/ FlushFail PROVE DirectoryInv'
<1> USE DEF LsmInv
<1>t. /\ flush \in FlushJob /\ flush.no \in Nat /\ FlushFileNo \in Nat
      /\ TRUE \in BOOLEAN /\ FALSE \in BOOLEAN /\ {} \in SUBSET Record
      /\ DOMAIN files \in SUBSET Nat
  BY DEF LsmTypeOK, FlushJob, FlushFileNo
<1>1. CASE FlushLock \/ FlushFail
  <2>1. /\ UNCHANGED <<ss_tables, files, directory, ro_mem_tables, compact>>
        /\ flush'.pc \notin {"header", "records", "publish"}
    BY <1>1 DEF FlushLock, FlushFail, FlushIdle
  <2>2. \/ maintenance_mutex' = "abandoned"
        \/ /\ flush.pc \in {"idle", "woken"}
           /\ maintenance_mutex' = maintenance_mutex \/ maintenance_mutex = "nobody"
    BY <1>1 DEF FlushLock, FlushFail
  <2>3. ASSUME NEW n, flush.pc \in {"idle", "woken"}
        PROVE  BeingWritten(n) => BeingWritten(n)'
    BY <2>1, <2>3 DEF BeingWritten
  <2> QED BY <2>1, <2>2, <2>3, DirectoryIdleStep
<1>2. ASSUME NEW no, flush'.no = no,
             flush'.pc \in {"header", "records", "publish"}, compact' = compact,
             flush.pc \in {"open", "header", "records", "publish"}
      PROVE  /\ BeingWritten(no)'
             /\ \A c \in Compactor :
                  /\ compact'[c].pc \in {"header", "records"} =>
                       compact'[c].no = no /\ ToDelete(c)' = TableNos
                  /\ compact'[c].pc \notin {"publish", "remove"}
  <2>1. \A d \in Compactor : compact[d].pc \in {"idle", "waiting", "woken"}
    BY <1>2, WriterIsAlone
  <2>2. BeingWritten(no)'
    BY <1>2 DEF BeingWritten
  <2> QED BY <1>2, <2>1, <2>2
<1>3. CASE FlushOpen
  <2>1. /\ WriteFile(FlushFileNo, FALSE, {})
        /\ UNCHANGED <<ss_tables, ro_mem_tables, compact>>
        /\ flush.pc = "open"
    BY <1>3, Zenon DEF FlushOpen
  <2>2. flush'.pc = "header" /\ flush'.no = FlushFileNo
    BY <1>3, <1>t DEF FlushOpen, FlushJob
  <2>3. directory # "merging" /\ maintenance_mutex = "flush"
        /\ \A d \in Compactor : compact[d].pc \in {"idle", "waiting", "woken"}
    BY <2>1, WriterIsAlone
  <2>4. CASE directory' = "in_step"
    <3>1. directory = "in_step" /\ \A n \in DOMAIN files : ~(n >= FlushFileNo)
      BY <1>3, <2>4 DEF FlushOpen
    <3>2. FilesMatchTables /\ InStepFiles
      BY <3>1 DEF DirectoryInv
    <3>3. TableNos \subseteq DOMAIN files
      BY <3>2 DEF TableNos, FilesMatchTables
    <3>4. \A m \in TableNos : m < FlushFileNo
      BY <1>t, <3>1, <3>3
    <3>5. \A n : ~BeingWritten(n)
      BY <2>1, <2>3 DEF BeingWritten
    <3>6. SpareFiles \subseteq {FlushFileNo}
      BY <2>3, <3>2, <3>5 DEF InStepFiles
    <3>7. PICK no \in Nat : no = FlushFileNo
      BY <1>t
    <3>8. /\ BeingWritten(no)'
          /\ \A c \in Compactor :
               /\ compact'[c].pc \in {"header", "records"} =>
                    compact'[c].no = no /\ ToDelete(c)' = TableNos
               /\ compact'[c].pc \notin {"publish", "remove"}
      BY <1>2, <2>1, <2>2, <3>7
    <3>9. /\ WriteFile(no, FALSE, {}) /\ \A m \in TableNos : m < no
          /\ SpareFiles \subseteq {no} /\ flush'.no = no
          /\ UNCHANGED <<ss_tables, ro_mem_tables>>
      BY <2>1, <2>2, <3>4, <3>6, <3>7, Zenon
    <3> QED BY <1>t, <2>4, <3>1, <3>8, <3>9, DirectoryWriteStep, Zenon
  <2>5. CASE directory' # "in_step"
    <3>1. directory' \notin {"in_step", "merging"}
      BY <1>3, <2>3, <2>5 DEF FlushOpen
    <3> QED BY <3>1 DEF DirectoryInv
  <2> QED BY <2>4, <2>5
<1>4. CASE FlushHeader \/ FlushRecords
  <2>1. /\ UNCHANGED <<ss_tables, ro_mem_tables, compact, directory>>
        /\ flush.pc \in {"header", "records"}
    BY <1>4, Zenon DEF FlushHeader, FlushRecords
  <2>2. flush'.pc \in {"header", "records", "publish"} /\ flush'.no = flush.no
    BY <1>4, <1>t, Zenon DEF FlushHeader, FlushRecords, FlushJob
  <2>3. PICK recs \in SUBSET Record :
          /\ WriteFile(flush.no, TRUE, recs)
          /\ recs = {} \/ (ro_mem_tables # <<>> /\ recs = ro_mem_tables[1])
    <3>1. CASE FlushHeader
      BY <3>1, Zenon DEF FlushHeader
    <3>2. CASE FlushRecords
      <4>1. ro_mem_tables # <<>> /\ ro_mem_tables[1] \in SUBSET Record
        BY <2>1 DEF MaintenanceExclusive, LsmTypeOK
      <4> QED BY <3>2, <4>1, Zenon DEF FlushRecords
    <3> QED BY <1>4, <3>1, <3>2, Zenon
  <2>4. directory # "merging"
    BY <2>1, WriterIsAlone
  <2>5. CASE directory = "in_step"
    <3>1. InStepFiles
      BY <2>5 DEF DirectoryInv
    <3>2. /\ \A m \in TableNos : m < flush.no
          /\ SpareFiles \subseteq {flush.no}
      BY <2>1, <3>1 DEF InStepFiles
    <3>3. PICK no \in Nat : no = flush.no
      BY <1>t
    <3>4. /\ BeingWritten(no)'
          /\ \A c \in Compactor :
               /\ compact'[c].pc \in {"header", "records"} =>
                    compact'[c].no = no /\ ToDelete(c)' = TableNos
               /\ compact'[c].pc \notin {"publish", "remove"}
      BY <1>2, <2>1, <2>2, <3>3
    <3>5. /\ WriteFile(no, TRUE, recs) /\ \A m \in TableNos : m < no
          /\ SpareFiles \subseteq {no} /\ flush'.no = no
          /\ UNCHANGED <<ss_tables, ro_mem_tables>> /\ directory' = "in_step"
      BY <2>1, <2>2, <2>3, <2>5, <3>2, <3>3, Zenon
    <3> QED BY <1>t, <2>3, <2>5, <3>4, <3>5, DirectoryWriteStep, Zenon
  <2>6. CASE directory # "in_step"
    BY <2>1, <2>4, <2>6 DEF DirectoryInv
  <2> QED BY <2>5, <2>6
<1>5. CASE FlushPublish
  <2> DEFINE table == [no |-> flush.no, recs |-> files[flush.no].recs]
  <2>1. /\ UNCHANGED <<files, directory>> /\ flush.pc = "publish"
        /\ ss_tables' = Append(ss_tables, table)
        /\ compact' = compact \/ compact' = WakeAll(compact)
    BY <1>5 DEF FlushPublish
  <2>2. flush'.pc \in {"open", "idle"}
    BY <1>5 DEF FlushPublish, FlushIdle
  <2>3. directory # "merging"
        /\ \A d \in Compactor : compact[d].pc \in {"idle", "waiting", "woken"}
    BY <2>1, WriterIsAlone
  <2>4. \A d \in Compactor : compact'[d].pc \in {"idle", "waiting", "woken"}
    BY <2>1, <2>3, WakeEffect
  <2>5. /\ flush.no \in DOMAIN files /\ files[flush.no].has_header
        /\ files[flush.no].recs \in SUBSET Record
    <3>0. MaintenanceExclusive /\ flush.pc = "publish"
      BY <2>1
    <3>1. flush.no \in DOMAIN files /\ files[flush.no].has_header
      BY ONLY <3>0 DEF MaintenanceExclusive
    <3>2. files[flush.no] \in File
      BY <3>1 DEF LsmTypeOK
    <3> QED BY <3>1, <3>2 DEF File
  <2>6. /\ DOMAIN ss_tables' = 1..(Len(ss_tables) + 1)
        /\ Len(ss_tables) \in Nat /\ DOMAIN ss_tables = 1..Len(ss_tables)
        /\ \A i \in 1..Len(ss_tables) : ss_tables'[i] = ss_tables[i]
        /\ ss_tables'[Len(ss_tables) + 1] = table
    <3>1. table \in SSTable /\ ss_tables \in Seq(SSTable)
      BY <1>t, <2>5 DEF SSTable, LsmTypeOK
    <3> HIDE DEF table
    <3>2. Len(ss_tables') = Len(ss_tables) + 1 /\ ss_tables' \in Seq(SSTable)
      BY <2>1, <3>1
    <3> QED BY <2>1, <3>1, <3>2
  <2>7. CASE directory = "in_step"
    <3>1. FilesMatchTables /\ InStepFiles
      BY <2>7 DEF DirectoryInv
    <3>2. /\ \A m \in TableNos : m < flush.no
          /\ SpareFiles \subseteq {flush.no}
      BY <2>1, <3>1 DEF InStepFiles
    <3>3. table.no = flush.no /\ table.recs = files[flush.no].recs
      OBVIOUS
    <3> HIDE DEF table
    <3>4. TableNos' = TableNos \cup {flush.no}
      BY <2>6, <3>3 DEF TableNos
    <3>5. SpareFiles' = {}
      BY <2>1, <3>2, <3>4 DEF SpareFiles
    <3>6. \A i \in DOMAIN ss_tables : ss_tables[i].no < flush.no
      BY <3>2 DEF TableNos
    <3>7. \A i, j \in DOMAIN ss_tables' : i < j => ss_tables'[i].no < ss_tables'[j].no
      <4> SUFFICES ASSUME NEW i \in DOMAIN ss_tables', NEW j \in DOMAIN ss_tables', i < j
                   PROVE  ss_tables'[i].no < ss_tables'[j].no
        OBVIOUS
      <4>1. i \in 1..Len(ss_tables)
        BY <2>6
      <4>2. j \in 1..Len(ss_tables) \/ j = Len(ss_tables) + 1
        BY <2>6
      <4> QED BY <2>6, <3>1, <3>3, <3>6, <4>1, <4>2 DEF FilesMatchTables
    <3>8. \A i \in DOMAIN ss_tables' :
            /\ ss_tables'[i].no \in DOMAIN files'
            /\ files'[ss_tables'[i].no].has_header
            /\ files'[ss_tables'[i].no].recs = ss_tables'[i].recs
      <4> SUFFICES ASSUME NEW i \in DOMAIN ss_tables'
                   PROVE  /\ ss_tables'[i].no \in DOMAIN files'
                          /\ files'[ss_tables'[i].no].has_header
                          /\ files'[ss_tables'[i].no].recs = ss_tables'[i].recs
        OBVIOUS
      <4>1. i \in 1..Len(ss_tables) \/ i = Len(ss_tables) + 1
        BY <2>6
      <4> QED BY <2>1, <2>5, <2>6, <3>1, <3>3, <4>1 DEF FilesMatchTables
    <3>9. FilesMatchTables'
      BY <3>7, <3>8 DEF FilesMatchTables
    <3>10. InStepFiles'
      BY <2>2, <2>4, <3>5 DEF InStepFiles
    <3> QED BY <2>1, <2>7, <3>9, <3>10 DEF DirectoryInv
  <2>8. CASE directory # "in_step"
    BY <2>1, <2>3, <2>8 DEF DirectoryInv
  <2> QED BY <2>7, <2>8
<1> QED BY <1>1, <1>3, <1>4, <1>5 DEF FlushStep

\* The compactions keep the directory as the invariant says.
LEMMA DirectoryCompactStep ==
  ASSUME LsmInv, NEW c \in Compactor, CompactStep(c) \/ CompactFail(c)
  PROVE  DirectoryInv'
<1> USE DEF LsmInv
<1>t. /\ compact \in [Compactor -> CompactJob] /\ compact[c] \in CompactJob
      /\ compact[c].no \in Nat /\ CompactFileNo \in Nat
      /\ TRUE \in BOOLEAN /\ FALSE \in BOOLEAN /\ {} \in SUBSET Record
      /\ DOMAIN files \in SUBSET Nat
  <2>1. compact \in [Compactor -> CompactJob] /\ DOMAIN files \in SUBSET Nat
    BY DEF LsmTypeOK
  <2>2. compact[c] \in CompactJob
    BY <2>1
  <2> QED BY <2>1, <2>2, CompactFileNoType DEF CompactJob
<1>1. CASE CompactLock(c) \/ CompactFail(c)
  <2>1. UNCHANGED <<ss_tables, files, directory, ro_mem_tables, flush>>
    BY <1>1 DEF CompactLock, CompactFail
  <2>2. /\ \A d \in Compactor : d # c => compact'[d] = compact[d]
        /\ compact'[c].pc \in {"idle", "waiting", "open"}
    BY <1>1, <1>t DEF CompactLock, CompactFail, CompactIdle, CompactJob
  <2>3. \/ maintenance_mutex' = "abandoned"
        \/ /\ compact[c].pc \in {"idle", "woken"}
           /\ maintenance_mutex' = maintenance_mutex \/ maintenance_mutex = "nobody"
    BY <1>1 DEF CompactLock, CompactFail
  <2>4. ASSUME NEW n, compact[c].pc \in {"idle", "woken"}
        PROVE  BeingWritten(n) => BeingWritten(n)'
    BY <2>1, <2>2, <2>4 DEF BeingWritten
  <2>5. \A d \in Compactor :
          compact'[d].pc \in {"header", "records", "publish", "remove"} =>
            compact'[d] = compact[d]
    BY <2>2
  <2>6. \/ maintenance_mutex' = "abandoned"
        \/ \A d \in Compactor :
             compact[d].pc \in {"publish", "remove"} => compact'[d] = compact[d]
    BY <2>2, <2>3
  <2> QED BY <2>1, <2>3, <2>4, <2>5, <2>6, DirectoryIdleStep
<1>2. ASSUME compact[c].pc \in {"open", "header", "records", "publish", "remove"}
      PROVE  /\ maintenance_mutex = c
             /\ flush.pc \in {"idle", "waiting", "woken"}
             /\ \A d \in Compactor : d # c => compact[d].pc \in {"idle", "waiting", "woken"}
  BY <1>2, WriterIsAlone
<1>3. CASE CompactOpen(c)
  <2> DEFINE job == [pc |-> "header", no |-> CompactFileNo,
                     input |-> UNION {ss_tables[i].recs : i \in DOMAIN ss_tables},
                     files_to_delete |-> [i \in 1..Len(ss_tables) |-> ss_tables[i].no]]
  <2>1. /\ WriteFile(CompactFileNo, FALSE, {})
        /\ UNCHANGED <<ss_tables, ro_mem_tables, flush, directory>>
        /\ compact[c].pc = "open"
        /\ compact' = [compact EXCEPT ![c] = job]
    BY <1>3, Zenon DEF CompactOpen
  <2>2. /\ compact'[c] = job
        /\ \A d \in Compactor : d # c => compact'[d] = compact[d]
    BY <1>t, <2>1
  <2>3. /\ compact'[c].pc = "header" /\ compact'[c].no = CompactFileNo
        /\ compact'[c].files_to_delete = [i \in 1..Len(ss_tables) |-> ss_tables[i].no]
    BY <2>2
  <2> HIDE DEF job
  <2>4. ToDelete(c)' = TableNos
    BY <2>3, TableTypes DEF ToDelete, TableNos
  <2>5. directory # "merging"
    BY <2>1, WriterIsAlone
  <2>6. CASE directory = "in_step"
    <3>1. FilesMatchTables /\ InStepFiles
      BY <2>6 DEF DirectoryInv
    <3>2. \A m \in TableNos : m < CompactFileNo
      <4> SUFFICES ASSUME NEW i \in DOMAIN ss_tables PROVE ss_tables[i].no < CompactFileNo
        BY DEF TableNos
      <4>1. /\ Len(ss_tables) \in Nat /\ DOMAIN ss_tables = 1..Len(ss_tables)
            /\ ss_tables # <<>> /\ Len(ss_tables) \in DOMAIN ss_tables
        BY TableTypes
      <4>2. /\ ss_tables[i].no \in Nat /\ ss_tables[Len(ss_tables)].no \in Nat
        BY <4>1, TableTypes
      <4>3. i = Len(ss_tables) \/ ss_tables[i].no < ss_tables[Len(ss_tables)].no
        BY <3>1, <4>1 DEF FilesMatchTables
      <4> QED BY <4>1, <4>2, <4>3 DEF CompactFileNo
    <3>3. \A n : ~BeingWritten(n)
      BY <1>2, <2>1 DEF BeingWritten
    <3>4. maintenance_mutex # "abandoned"
      BY <1>2, <2>1, LsmAssumption
    <3>5. SpareFiles \subseteq {CompactFileNo}
      BY <3>1, <3>3, <3>4 DEF InStepFiles
    <3>6. PICK no \in Nat : no = CompactFileNo
      BY <1>t
    <3>7. BeingWritten(no)'
      BY <2>3, <3>6 DEF BeingWritten
    <3>8. /\ flush'.pc \notin {"header", "records", "publish"}
          /\ \A d \in Compactor :
               /\ compact'[d].pc \in {"header", "records"} =>
                    compact'[d].no = no /\ ToDelete(d)' = TableNos
               /\ compact'[d].pc \notin {"publish", "remove"}
      BY <1>2, <2>1, <2>2, <2>3, <2>4, <3>6
    <3>9. /\ WriteFile(no, FALSE, {}) /\ \A m \in TableNos : m < no
          /\ SpareFiles \subseteq {no}
          /\ UNCHANGED <<ss_tables, ro_mem_tables>> /\ directory' = "in_step"
      BY <2>1, <2>6, <3>2, <3>5, <3>6, Zenon
    <3> QED BY <1>t, <2>6, <3>7, <3>8, <3>9, DirectoryWriteStep, Zenon
  <2>7. CASE directory # "in_step"
    BY <2>1, <2>5, <2>7 DEF DirectoryInv
  <2> QED BY <2>6, <2>7
<1>4. CASE CompactHeader(c)
  <2>1. /\ WriteFile(compact[c].no, TRUE, {})
        /\ UNCHANGED <<ss_tables, ro_mem_tables, flush, directory>>
        /\ compact[c].pc = "header"
    BY <1>4, Zenon DEF CompactHeader
  <2>2. /\ compact'[c] = [compact[c] EXCEPT !.pc = "records"]
        /\ \A d \in Compactor : d # c => compact'[d] = compact[d]
    BY <1>t, <1>4 DEF CompactHeader
  <2>3. /\ compact'[c].pc = "records" /\ compact'[c].no = compact[c].no
        /\ compact'[c].files_to_delete = compact[c].files_to_delete
    BY <1>t, <2>2 DEF CompactJob
  <2>4. ToDelete(c)' = ToDelete(c)
    BY <2>3 DEF ToDelete
  <2>5. directory # "merging"
    BY <2>1, WriterIsAlone
  <2>6. CASE directory = "in_step"
    <3>1. InStepFiles
      BY <2>6 DEF DirectoryInv
    <3>2. /\ \A m \in TableNos : m < compact[c].no
          /\ SpareFiles \subseteq {compact[c].no}
          /\ ToDelete(c) = TableNos
      BY <2>1, <3>1 DEF InStepFiles
    <3>3. PICK no \in Nat : no = compact[c].no
      BY <1>t
    <3>4. BeingWritten(no)'
      BY <2>3, <3>3 DEF BeingWritten
    <3>5. /\ flush'.pc \notin {"header", "records", "publish"}
          /\ \A d \in Compactor :
               /\ compact'[d].pc \in {"header", "records"} =>
                    compact'[d].no = no /\ ToDelete(d)' = TableNos
               /\ compact'[d].pc \notin {"publish", "remove"}
      BY <1>2, <2>1, <2>2, <2>3, <2>4, <3>2, <3>3, Zenon
    <3>6. /\ WriteFile(no, TRUE, {}) /\ \A m \in TableNos : m < no
          /\ SpareFiles \subseteq {no}
          /\ UNCHANGED <<ss_tables, ro_mem_tables>> /\ directory' = "in_step"
      BY <2>1, <2>6, <3>2, <3>3, Zenon
    <3> QED BY <1>t, <2>6, <3>4, <3>5, <3>6, DirectoryWriteStep, Zenon
  <2>7. CASE directory # "in_step"
    BY <2>1, <2>5, <2>7 DEF DirectoryInv
  <2> QED BY <2>6, <2>7
<1>5. CASE CompactRecords(c)
  <2>1. /\ \E kept \in SUBSET compact[c].input : WriteFile(compact[c].no, TRUE, kept)
        /\ UNCHANGED <<ss_tables, ro_mem_tables, flush>>
        /\ compact[c].pc = "records"
        /\ directory' = IF directory = "in_step" THEN "merging" ELSE directory
    BY <1>5, Zenon DEF CompactRecords
  <2>2. /\ compact'[c] = [compact[c] EXCEPT !.pc = "publish"]
        /\ \A d \in Compactor : d # c => compact'[d] = compact[d]
    BY <1>t, <1>5 DEF CompactRecords
  <2>3. /\ compact'[c].pc = "publish" /\ compact'[c].no = compact[c].no
        /\ compact'[c].files_to_delete = compact[c].files_to_delete
    BY <1>t, <2>2 DEF CompactJob
  <2>4. ToDelete(c)' = ToDelete(c)
    BY <2>3 DEF ToDelete
  <2>5. directory # "merging"
    BY <2>1, WriterIsAlone
  <2>6. CASE directory = "in_step"
    <3>1. FilesMatchTables /\ InStepFiles
      BY <2>6 DEF DirectoryInv
    <3>2. SpareFiles = {compact[c].no} /\ ToDelete(c) = TableNos
      BY <2>1, <3>1 DEF InStepFiles
    <3>3. /\ DOMAIN files' = DOMAIN files \cup {compact[c].no}
          /\ \A n \in DOMAIN files : n # compact[c].no => files'[n] = files[n]
      BY <2>1 DEF WriteFile
    <3>4. TableNos' = TableNos
      BY <2>1 DEF TableNos
    <3>5. SpareFiles' = {compact[c].no}
      BY <3>2, <3>3, <3>4 DEF SpareFiles
    <3>6. FilesMatchTables'
      <4>1. \A i \in DOMAIN ss_tables : ss_tables[i].no # compact[c].no
        BY <3>2, Zenon DEF TableNos, SpareFiles
      <4> QED BY <2>1, <3>1, <3>3, <4>1 DEF FilesMatchTables
    <3>7. MergingFiles'
      BY <1>2, <2>1, <2>2, <2>3, <2>4, <3>2, <3>4, <3>5, Zenon DEF MergingFiles
    <3> QED BY <2>1, <2>6, <3>6, <3>7 DEF DirectoryInv
  <2>7. CASE directory # "in_step"
    BY <2>1, <2>5, <2>7 DEF DirectoryInv
  <2> QED BY <2>6, <2>7
<1>6. ASSUME compact[c].pc \in {"publish", "remove"}, directory' = directory,
             directory = "merging" => FilesMatchTables' /\ MergingFiles'
      PROVE  DirectoryInv'
  <2>1. directory # "in_step"
    BY <1>6 DEF DirectoryInv, InStepFiles
  <2> QED BY <1>6, <2>1 DEF DirectoryInv
<1>7. CASE CompactPublish(c)
  <2> DEFINE merged == [no |-> compact[c].no, recs |-> files[compact[c].no].recs]
  <2>1. /\ UNCHANGED <<files, flush, directory>>
        /\ compact[c].pc = "publish"
        /\ ss_tables' = <<merged>>
    BY <1>7 DEF CompactPublish
  <2>2. /\ compact'[c] = [compact[c] EXCEPT !.pc = "remove"]
        /\ \A d \in Compactor : d # c => compact'[d] = compact[d]
    BY <1>t, <1>7 DEF CompactPublish
  <2>3. /\ compact'[c].pc = "remove" /\ compact'[c].no = compact[c].no
        /\ compact'[c].files_to_delete = compact[c].files_to_delete
    BY <1>t, <2>2 DEF CompactJob
  <2>4. ToDelete(c)' = ToDelete(c)
    BY <2>3 DEF ToDelete
  <2>5. /\ DOMAIN ss_tables' = {1} /\ ss_tables'[1].no = compact[c].no
        /\ ss_tables'[1].recs = files[compact[c].no].recs
    BY <2>1
  <2>6. TableNos' = {compact[c].no}
    BY <2>5 DEF TableNos
  <2>7. compact[c].no \in DOMAIN files /\ files[compact[c].no].has_header
    BY <2>1 DEF MaintenanceExclusive
  <2>8. FilesMatchTables'
    <3>1. \A i, j \in DOMAIN ss_tables' : ~(i < j)
      BY <2>5
    <3> QED BY <2>1, <2>5, <2>7, <3>1, Zenon DEF FilesMatchTables
  <2>9. ASSUME directory = "merging" PROVE MergingFiles'
    <3>1. SpareFiles = {compact[c].no} /\ ToDelete(c) = TableNos
      BY <2>1, <2>9 DEF DirectoryInv, MergingFiles
    <3>2. /\ SpareFiles' \subseteq ToDelete(c)'
          /\ compact[c].no \notin ToDelete(c)'
      BY <2>1, <2>4, <2>6, <3>1 DEF SpareFiles
    <3> QED BY <1>2, <2>1, <2>2, <2>3, <2>6, <3>2, Zenon DEF MergingFiles
  <2> QED BY <1>6, <2>1, <2>8, <2>9
<1>8. CASE CompactRemove(c)
  <2> DEFINE del == compact[c].files_to_delete
  <2>1. /\ UNCHANGED <<ss_tables, flush, directory>>
        /\ compact[c].pc = "remove" /\ del # <<>>
        /\ DOMAIN files' = DOMAIN files \ {Head(del)}
        /\ \A n \in DOMAIN files' : files'[n] = files[n]
    BY <1>8 DEF CompactRemove
  <2>2. /\ compact'[c] = [compact[c] EXCEPT !.files_to_delete = Tail(del)]
        /\ \A d \in Compactor : d # c => compact'[d] = compact[d]
    BY <1>t, <1>8 DEF CompactRemove
  <2>3. /\ compact'[c].pc = "remove" /\ compact'[c].no = compact[c].no
        /\ compact'[c].files_to_delete = Tail(del)
    BY <1>t, <2>1, <2>2 DEF CompactJob
  <2>4. /\ del \in Seq(Nat) /\ Len(del) \in Nat /\ DOMAIN del = 1..Len(del)
        /\ Len(del) # 0 /\ Head(del) = del[1]
        /\ DOMAIN Tail(del) = 1..(Len(del) - 1)
        /\ \A i \in 1..(Len(del) - 1) : Tail(del)[i] = del[i + 1]
    <3>1. del \in Seq(Nat)
      BY <1>t DEF CompactJob
    <3> HIDE DEF del
    <3> QED BY <2>1, <3>1
  <2>5. /\ ToDelete(c)' \subseteq ToDelete(c)
        /\ Head(del) \in ToDelete(c)
        /\ \A n \in ToDelete(c) : n = Head(del) \/ n \in ToDelete(c)'
    <3>1. ToDelete(c) = {del[i] : i \in 1..Len(del)}
      BY <2>4 DEF ToDelete
    <3>2. ToDelete(c)' = {Tail(del)[i] : i \in 1..(Len(del) - 1)}
      BY <2>3, <2>4, Zenon DEF ToDelete
    <3> HIDE DEF del
    <3>3. \A i \in 1..(Len(del) - 1) : i + 1 \in 1..Len(del)
      BY <2>4
    <3>4. \A i \in 1..Len(del) : i = 1 \/ (i - 1 \in 1..(Len(del) - 1) /\ Tail(del)[i - 1] = del[i])
      BY <2>4
    <3>5. 1 \in 1..Len(del)
      BY <2>4
    <3>6. ASSUME NEW n \in ToDelete(c) PROVE n = Head(del) \/ n \in ToDelete(c)'
      BY <2>4, <3>1, <3>2, <3>4, <3>6
    <3>7. ASSUME NEW n \in ToDelete(c)' PROVE n \in ToDelete(c)
      BY <2>4, <3>1, <3>2, <3>3, <3>7
    <3> QED BY <2>4, <3>1, <3>5, <3>6, <3>7
  <2>6. TableNos' = TableNos
    BY <2>1 DEF TableNos
  <2> HIDE DEF del
  <2>7. ASSUME directory = "merging" PROVE FilesMatchTables' /\ MergingFiles'
    <3>1. /\ TableNos = {compact[c].no}
          /\ SpareFiles \subseteq ToDelete(c)
          /\ compact[c].no \notin ToDelete(c)
      BY <2>1, <2>7 DEF DirectoryInv, MergingFiles
    <3>2. FilesMatchTables'
      <4>1. FilesMatchTables
        BY <2>7 DEF DirectoryInv
      <4>2. \A i \in DOMAIN ss_tables : ss_tables[i].no # Head(del)
        BY <2>5, <3>1 DEF TableNos
      <4> QED BY <2>1, <4>1, <4>2 DEF FilesMatchTables
    <3>3. SpareFiles' \subseteq ToDelete(c)' /\ compact[c].no \notin ToDelete(c)'
      BY <2>1, <2>5, <2>6, <3>1 DEF SpareFiles
    <3>4. MergingFiles'
      BY <1>2, <2>1, <2>2, <2>3, <2>6, <3>1, <3>3, Zenon DEF MergingFiles
    <3> QED BY <3>2, <3>4
  <2> QED BY <1>6, <2>1, <2>7
<1>9. CASE CompactFinish(c)
  <2>1. /\ UNCHANGED <<ss_tables, files>>
        /\ compact[c].pc = "remove" /\ compact[c].files_to_delete = <<>>
        /\ directory' = IF directory = "merging" THEN "in_step" ELSE directory
        /\ compact' = [WakeAll(compact) EXCEPT ![c] = CompactIdle]
        /\ flush' = Wake(flush)
    BY <1>9 DEF CompactFinish
  <2>2. \A d \in Compactor : compact'[d].pc \in {"idle", "waiting", "woken"}
    <3>1. compact'[c] = CompactIdle /\ \A d \in Compactor : d # c => compact'[d] = WakeAll(compact)[d]
      BY <2>1, WakeEffect
    <3> QED BY <1>2, <2>1, <3>1, WakeEffect, Zenon DEF CompactIdle
  <2>3. flush'.pc \in {"idle", "waiting", "woken"}
    BY <1>2, <2>1, WakeEffect
  <2>4. CASE directory = "merging"
    <3>1. FilesMatchTables /\ SpareFiles \subseteq ToDelete(c)
      BY <2>1, <2>4 DEF DirectoryInv, MergingFiles
    <3>2. ToDelete(c) = {}
      BY <2>1 DEF ToDelete
    <3>3. SpareFiles' = {} /\ FilesMatchTables'
      BY <2>1, <3>1, <3>2 DEF SpareFiles, TableNos, FilesMatchTables
    <3>4. InStepFiles'
      BY <2>2, <2>3, <3>3 DEF InStepFiles
    <3> QED BY <2>1, <2>4, <3>3, <3>4 DEF DirectoryInv
  <2>5. CASE directory # "merging"
    BY <1>6, <2>1, <2>5
  <2> QED BY <2>4, <2>5
<1> QED BY <1>1, <1>3, <1>4, <1>5, <1>7, <1>8, <1>9 DEF CompactStep

\* Together: the running tree keeps the files as the invariant says.
LEMMA DirectoryStep ==
  ASSUME LsmInv, LsmWork PROVE DirectoryInv' /\ (Orderly' <=> Orderly)
<1>1. ASSUME NEW key \in Key, Put(key) PROVE DirectoryInv'
  <2>1. UNCHANGED <<ss_tables, files, directory, maintenance_mutex, flush, compact>>
    BY <1>1 DEF Put
  <2>2. ro_mem_tables # <<>> => ro_mem_tables' # <<>> /\ ro_mem_tables'[1] = ro_mem_tables[1]
    <3>1. LsmTypeOK /\ ro_mem_tables \in Seq(SUBSET Record)
      BY DEF LsmInv, LsmTypeOK
    <3>2. /\ ro_mem_tables' \in Seq(SUBSET Record)
          /\ Len(ro_mem_tables') >= Len(ro_mem_tables)
          /\ \A i \in 1..Len(ro_mem_tables) : ro_mem_tables'[i] = ro_mem_tables[i]
      BY <1>1, <3>1, PutEffect
    <3> QED BY <3>1, <3>2
  <2>3. \A n : BeingWritten(n) => BeingWritten(n)'
    BY <2>1 DEF BeingWritten
  <2> QED BY <2>1, <2>2, <2>3, DirectoryIdleStep
<1>2. DirectoryInv'
  BY <1>1, DirectoryFlushStep, DirectoryCompactStep DEF LsmWork
<1>3. directory' = "disordered" <=> directory = "disordered"
  BY Zenon DEF LsmWork, Put, FlushStep, FlushLock, FlushOpen, FlushHeader, FlushRecords,
         FlushPublish, FlushFail, CompactStep, CompactLock, CompactOpen, CompactHeader,
         CompactRecords, CompactPublish, CompactRemove, CompactFinish, CompactFail
<1> QED BY <1>2, <1>3 DEF Orderly

-----------------------------------------------------------------------------
\* What Init reads back from the directory.
LEMMA RestartTables ==
  ASSUME Laws, LsmInv, Restart
  PROVE  /\ LsmTypeOK'
         /\ max_persistent_seq_no' \in Nat
         /\ next_seq_no' = max_persistent_seq_no' + 1
         /\ next_seq_no' <= next_seq_no
         /\ \A n \in DOMAIN files : \A r \in files[n].recs :
              r.seq \in Nat /\ r.seq <= max_persistent_seq_no'
         /\ \/ max_persistent_seq_no' = 0
            \/ \E n \in DOMAIN files : \E r \in files[n].recs : r.seq = max_persistent_seq_no'
         /\ \A n \in DOMAIN files : \E i \in DOMAIN ss_tables' : ss_tables'[i].no = n
         /\ \A i, j \in DOMAIN ss_tables' : i < j => ss_tables'[i].no < ss_tables'[j].no
         /\ \A i \in DOMAIN ss_tables' :
              /\ ss_tables'[i].no \in DOMAIN files
              /\ ss_tables'[i].recs = files[ss_tables'[i].no].recs
<1> USE DEF LsmInv
<1> DEFINE k == Cardinality(DOMAIN files)
           U == UNION {files[n].recs : n \in DOMAIN files}
<1>1. /\ IsFiniteSet(DOMAIN files) /\ DOMAIN files \in SUBSET Nat
      /\ \A n \in DOMAIN files : files[n] \in File
      /\ next_seq_no \in Nat
  BY DEF LsmTypeOK
<1>2. k \in Nat
  BY <1>1 DEF Laws, FiniteLaw
<1>3. \A n \in DOMAIN files : files[n].recs \in SUBSET Record
  BY <1>1 DEF File
<1>4. \A r \in Record : r.seq \in Nat
  BY DEF Record
<1>5. U \in SUBSET Record /\ \A r \in U : r.seq <= next_seq_no - 1
  <2>1. ASSUME NEW r \in U PROVE r \in Record /\ r.seq <= next_seq_no - 1
    <3>1. PICK n \in DOMAIN files : r \in files[n].recs
      OBVIOUS
    <3>2. r \in Record /\ r.seq \in Nat
      BY <1>3, <1>4, <3>1
    <3>3. r.seq < next_seq_no
      BY <3>1 DEF FilesBelowNext
    <3> QED BY <1>1, <3>2, <3>3
  <2> QED BY <2>1
<1>6. next_seq_no - 1 \in Nat
  BY DEF NumbersSplit
<1>7. max_persistent_seq_no' = HeaderMaxSeqNo(U)
      /\ next_seq_no' = max_persistent_seq_no' + 1
  BY DEF Restart
<1>8. /\ HeaderMaxSeqNo(U) \in Seqs(U) \cup {0}
      /\ HeaderMaxSeqNo(U) \in Nat
      /\ HeaderMaxSeqNo(U) <= next_seq_no - 1
      /\ \A r \in U : r.seq <= HeaderMaxSeqNo(U)
  <2> HIDE DEF U
  <2> QED BY <1>5, <1>6, HeaderMaxSeqNoIsMax
<1>9. /\ max_persistent_seq_no' \in Nat /\ next_seq_no' <= next_seq_no
      /\ \A r \in U : r.seq <= max_persistent_seq_no'
      /\ max_persistent_seq_no' = 0 \/ \E r \in U : r.seq = max_persistent_seq_no'
  <2> HIDE DEF U
  <2> QED BY <1>1, <1>7, <1>8 DEF Seqs
<1>10. PICK names \in [1..k -> DOMAIN files] :
         /\ IsNameOrder(names)
         /\ ss_tables' = [i \in 1..k |-> [no |-> names[i], recs |-> files[names[i]].recs]]
  BY Zenon DEF Restart
<1>11. /\ DOMAIN ss_tables' = 1..k /\ DOMAIN names = 1..k
       /\ \A i \in 1..k : /\ names[i] \in DOMAIN files
                            /\ ss_tables'[i].no = names[i]
                            /\ ss_tables'[i].recs = files[names[i]].recs
  <2> HIDE DEF k
  <2> QED BY <1>10
<1>12. /\ \A n \in DOMAIN files : \E i \in DOMAIN ss_tables' : ss_tables'[i].no = n
       /\ \A i, j \in DOMAIN ss_tables' : i < j => ss_tables'[i].no < ss_tables'[j].no
       /\ \A i \in DOMAIN ss_tables' :
            /\ ss_tables'[i].no \in DOMAIN files
            /\ ss_tables'[i].recs = files[ss_tables'[i].no].recs
  <2> HIDE DEF k
  <2> QED BY <1>10, <1>11 DEF IsNameOrder
<1>13. ss_tables' \in Seq(SSTable)
  <2>1. \A i \in 1..k : [no |-> names[i], recs |-> files[names[i]].recs] \in SSTable
    <3> HIDE DEF k
    <3> QED BY <1>1, <1>3, <1>11 DEF SSTable
  <2> HIDE DEF k
  <2> QED BY <1>2, <1>10, <2>1
<1>14. LsmTypeOK'
  <2>1. CompactIdle \in CompactJob /\ FlushIdle \in FlushJob
    BY DEF CompactIdle, CompactJob, FlushIdle, FlushJob
  <2>2. /\ mem_table' = {} /\ ro_mem_tables' = <<>> /\ maintenance_mutex' = "nobody"
        /\ files' = files /\ flush' = FlushIdle
        /\ compact' = [c \in Compactor |-> CompactIdle]
        /\ discarded' \subseteq discarded
        /\ directory' \in {"in_step", "disordered"}
        /\ restarts' = restarts + 1
    BY DEF Restart
  <2>3. next_seq_no' \in Nat
    BY <1>7, <1>9
  <2> HIDE DEF U, k
  <2> QED BY <1>9, <1>13, <2>1, <2>2, <2>3 DEF LsmTypeOK
<1>15. \A n \in DOMAIN files : \A r \in files[n].recs :
         r.seq \in Nat /\ r.seq <= max_persistent_seq_no'
  BY <1>3, <1>4, <1>9
<1>16. \/ max_persistent_seq_no' = 0
       \/ \E n \in DOMAIN files : \E r \in files[n].recs : r.seq = max_persistent_seq_no'
  BY <1>9
<1> HIDE DEF U, k
<1> QED BY <1>7, <1>9, <1>12, <1>14, <1>15, <1>16

\* After a restart a scan reaches what the files hold.
LEMMA RestartServesFiles ==
  ASSUME Laws, LsmInv, Restart
  PROVE  \A r : r \in AllRecords' <=> \E n \in DOMAIN files : r \in files[n].recs
<1>1. MembersByLayer'
  <2>1. LsmTypeOK'
    BY RestartTables
  <2> QED BY <2>1, AllRecordsMembers, PTL
<1>2. mem_table' = {} /\ ro_mem_tables' = <<>>
  BY Zenon DEF Restart
<1>3. \A r : r \in AllRecords' <=> \E i \in DOMAIN ss_tables' : r \in ss_tables'[i].recs
  BY <1>1, <1>2 DEF MembersByLayer
<1>4. /\ \A n \in DOMAIN files : \E i \in DOMAIN ss_tables' : ss_tables'[i].no = n
      /\ \A i \in DOMAIN ss_tables' :
           /\ ss_tables'[i].no \in DOMAIN files
           /\ ss_tables'[i].recs = files[ss_tables'[i].no].recs
  BY RestartTables
<1> QED BY <1>3, <1>4

\* When the directory was in step, Init loses exactly the records from some number
\* on: those of frozen tables that have no complete file, and of the mem table.
LEMMA RestartLosesSuffix ==
  ASSUME Laws, LsmInv, Restart, directory = "in_step"
  PROVE  /\ AllRecords' = {v \in AllRecords : v.seq < next_seq_no'}
         /\ {r \in AllRecords : r.seq <= max_persistent_seq_no} \subseteq AllRecords'
<1> USE DEF LsmInv
<1>1. MembersByLayer
  BY AllRecordsMembers
<1>2. /\ max_persistent_seq_no' \in Nat
      /\ next_seq_no' = max_persistent_seq_no' + 1
      /\ \A n \in DOMAIN files : \A r \in files[n].recs :
           r.seq \in Nat /\ r.seq <= max_persistent_seq_no'
      /\ \/ max_persistent_seq_no' = 0
         \/ \E n \in DOMAIN files : \E r \in files[n].recs : r.seq = max_persistent_seq_no'
  BY RestartTables
<1>3. FilesMatchTables /\ InStepFiles
  BY DEF DirectoryInv
<1>4. \A r : r \in AllRecords' <=> \E n \in DOMAIN files : r \in files[n].recs
  BY RestartServesFiles
<1>5. ASSUME NEW n \in DOMAIN files
      PROVE  \/ \E i \in DOMAIN ss_tables : files[n].recs = ss_tables[i].recs
             \/ files[n].recs = {}
             \/ 1 \in DOMAIN ro_mem_tables /\ files[n].recs = ro_mem_tables[1]
  <2>1. CASE n \in TableNos
    BY <1>3, <2>1 DEF TableNos, FilesMatchTables
  <2>2. CASE n \notin TableNos
    <3>1. files[n].recs = {} \/ (ro_mem_tables # <<>> /\ files[n].recs = ro_mem_tables[1])
      BY <1>3, <2>2 DEF InStepFiles, SpareFiles
    <3>2. ro_mem_tables # <<>> => 1 \in DOMAIN ro_mem_tables
      BY DEF LsmTypeOK
    <3> QED BY <3>1, <3>2
  <2> QED BY <2>1, <2>2
<1>6. ASSUME NEW i \in DOMAIN ss_tables, NEW r \in ss_tables[i].recs
      PROVE  r \in AllRecords'
  BY <1>3, <1>4, <1>6 DEF FilesMatchTables
<1>7. /\ max_persistent_seq_no \in Nat
      /\ \A i \in DOMAIN ro_mem_tables : \A r \in ro_mem_tables[i] :
           r.seq \in Nat /\ max_persistent_seq_no < r.seq
      /\ \A r \in mem_table : r.seq \in Nat /\ max_persistent_seq_no < r.seq
  <2>1. /\ \A i \in DOMAIN ro_mem_tables : ro_mem_tables[i] \in SUBSET Record
        /\ mem_table \in SUBSET Record /\ max_persistent_seq_no \in Nat
    BY DEF LsmTypeOK
  <2>2. \A r \in Record : r.seq \in Nat
    BY DEF Record
  <2> QED BY <2>1, <2>2 DEF NumbersSplit
<1>8. ASSUME NEW r, r \in AllRecords'
      PROVE  r \in AllRecords /\ r.seq < next_seq_no'
  <2>1. PICK n \in DOMAIN files : r \in files[n].recs
    BY <1>4, <1>8
  <2>2. r.seq < next_seq_no'
    BY <1>2, <2>1
  <2>3. r \in AllRecords
    BY <1>1, <1>5, <2>1 DEF MembersByLayer
  <2> QED BY <2>2, <2>3
<1>9. ASSUME NEW v \in AllRecords, v.seq < next_seq_no',
             \A i \in DOMAIN ss_tables : v \notin ss_tables[i].recs
      PROVE  v \in AllRecords'
  <2>1. v.seq \in Nat /\ max_persistent_seq_no < v.seq
    BY <1>1, <1>7, <1>9 DEF MembersByLayer
  <2>2. max_persistent_seq_no' # 0
    BY <1>2, <1>7, <1>9, <2>1
  <2>a. PICK n \in DOMAIN files : \E r \in files[n].recs : r.seq = max_persistent_seq_no'
    BY <1>2, <2>2
  <2>3. PICK x \in files[n].recs : x.seq = max_persistent_seq_no'
    BY <2>a
  <2>4. v.seq <= x.seq
    BY <1>2, <1>9, <2>1, <2>3
  <2>5. \A i \in DOMAIN ss_tables : x \notin ss_tables[i].recs
    <3>1. x.seq > max_persistent_seq_no
      BY <1>2, <1>7, <2>1, <2>3, <2>4
    <3>2. ~(x.seq <= max_persistent_seq_no)
      BY <1>2, <1>7, <2>3, <3>1
    <3> QED BY <3>2 DEF NumbersSplit
  <2>6. 1 \in DOMAIN ro_mem_tables /\ files[n].recs = ro_mem_tables[1]
    BY <1>5, <2>3, <2>5
  <2>7. ASSUME v \in mem_table PROVE FALSE
    <3>1. x.seq < v.seq
      BY <2>3, <2>6, <2>7 DEF NumbersSplit
    <3> QED BY <1>2, <2>1, <2>3, <2>4, <3>1
  <2>8. ASSUME NEW i \in DOMAIN ro_mem_tables, v \in ro_mem_tables[i], i # 1 PROVE FALSE
    <3>1. 1 < i
      BY <2>8 DEF LsmTypeOK
    <3>2. x.seq < v.seq
      BY <2>3, <2>6, <2>8, <3>1 DEF NumbersSplit
    <3> QED BY <1>2, <2>1, <2>3, <2>4, <3>2
  <2>9. v \in ro_mem_tables[1]
    BY <1>1, <1>9, <2>7, <2>8 DEF MembersByLayer
  <2> QED BY <1>4, <2>6, <2>9
<1>10. AllRecords' = {v \in AllRecords : v.seq < next_seq_no'}
  BY <1>6, <1>8, <1>9
<1>11. ASSUME NEW r \in AllRecords, r.seq <= max_persistent_seq_no PROVE r \in AllRecords'
  <2>1. \A i \in DOMAIN ro_mem_tables : r \notin ro_mem_tables[i]
    BY <1>7, <1>11
  <2>2. r \notin mem_table
    BY <1>7, <1>11
  <2> QED BY <1>1, <1>6, <2>1, <2>2 DEF MembersByLayer
<1> QED BY <1>10, <1>11

\* Arithmetic of the number Init continues with.
LEMMA NextNumber ==
  ASSUME NEW m \in Nat, NEW old \in Nat, NEW n, n = m + 1, n <= old
  PROVE  /\ n \in Nat \ {0} /\ m < n
         /\ \A seq \in 1..(n - 1) : seq \in 1..(old - 1) /\ seq < n
  OBVIOUS

\* A crash at any moment followed by Init keeps the invariant.
LEMMA RestartInv ==
  ASSUME Laws, LsmInv, Restart PROVE LsmInv'
<1> USE DEF LsmInv
<1>1. /\ mem_table' = {} /\ ro_mem_tables' = <<>> /\ maintenance_mutex' = "nobody"
      /\ files' = files /\ flush' = FlushIdle
      /\ compact' = [c \in Compactor |-> CompactIdle]
      /\ \A n \in DOMAIN files : files[n].has_header
      /\ discarded' = {r \in discarded : r.seq < next_seq_no'}
      /\ directory' = IF directory = "in_step" THEN "in_step" ELSE "disordered"
  BY DEF Restart
<1>2. /\ LsmTypeOK'
      /\ max_persistent_seq_no' \in Nat
      /\ next_seq_no' = max_persistent_seq_no' + 1
      /\ next_seq_no' <= next_seq_no
      /\ \A n \in DOMAIN files : \A r \in files[n].recs :
           r.seq \in Nat /\ r.seq <= max_persistent_seq_no'
  BY RestartTables
<1>3. /\ \A n \in DOMAIN files : \E i \in DOMAIN ss_tables' : ss_tables'[i].no = n
      /\ \A i, j \in DOMAIN ss_tables' : i < j => ss_tables'[i].no < ss_tables'[j].no
      /\ \A i \in DOMAIN ss_tables' :
           /\ ss_tables'[i].no \in DOMAIN files
           /\ ss_tables'[i].recs = files[ss_tables'[i].no].recs
  BY RestartTables
<1>n. /\ max_persistent_seq_no' \in Nat
      /\ next_seq_no' = max_persistent_seq_no' + 1
      /\ next_seq_no' <= next_seq_no
  BY <1>2
<1>m. /\ next_seq_no' \in Nat \ {0} /\ max_persistent_seq_no' < next_seq_no'
      /\ \A seq \in 1..(next_seq_no' - 1) :
           seq \in 1..(next_seq_no - 1) /\ seq < next_seq_no'
  <2>1. next_seq_no \in Nat
    BY DEF LsmTypeOK
  <2> QED BY <1>n, <2>1, NextNumber, Zenon
<1>4. MaintenanceExclusive'
  <2>1. flush'.pc = "idle" /\ \A c \in Compactor : compact'[c].pc = "idle"
    BY <1>1 DEF FlushIdle, CompactIdle
  <2> QED BY <1>1, <2>1, LsmAssumption, ZenonT(30) DEF MaintenanceExclusive
<1>5. NumbersSplit'
  <2>1. \A i \in DOMAIN ss_tables' : \A r \in ss_tables'[i].recs :
          r.seq <= max_persistent_seq_no'
    BY <1>2, <1>3
  <2>2. next_seq_no' \in Nat \ {0} /\ max_persistent_seq_no' < next_seq_no'
    BY <1>m
  <2>3. DOMAIN ro_mem_tables' = {} /\ mem_table' = {}
    BY <1>1
  <2> QED BY <2>1, <2>2, <2>3, Zenon DEF NumbersSplit
<1>6. FilesBelowNext'
  BY <1>1, <1>2 DEF FilesBelowNext
<1>7. CASE directory # "in_step"
  <2>1. directory' = "disordered"
    BY <1>1, <1>7
  <2> QED BY <1>2, <1>4, <1>5, <1>6, <2>1 DEF Orderly, DirectoryInv
<1>8. CASE directory = "in_step"
  <2>1. FilesMatchTables /\ InStepFiles /\ TablesOrdered /\ NumbersServed
    BY <1>8 DEF DirectoryInv, Orderly
  <2>2. FilesMatchTables'
    BY <1>1, <1>3 DEF FilesMatchTables
  <2>3. InStepFiles'
    <3>1. SpareFiles' = {}
      BY <1>1, <1>3 DEF SpareFiles, TableNos
    <3>2. flush'.pc = "idle" /\ \A c \in Compactor : compact'[c].pc = "idle"
      BY <1>1 DEF FlushIdle, CompactIdle
    <3> QED BY <3>1, <3>2 DEF InStepFiles
  <2>4. DirectoryInv'
    BY <1>1, <1>8, <2>2, <2>3 DEF DirectoryInv
  <2>5. NumbersServed'
    <3>1. AllRecords' = {v \in AllRecords : v.seq < next_seq_no'}
      BY <1>8, RestartLosesSuffix
    <3> SUFFICES ASSUME NEW seq \in 1..(next_seq_no' - 1)
                 PROVE  seq \in Seqs(AllRecords') \cup Seqs(discarded')
      BY DEF NumbersServed, Seqs
    <3>3. seq \in 1..(next_seq_no - 1) /\ seq < next_seq_no'
      BY <1>m, Zenon
    <3>4. seq \in Seqs(AllRecords) \cup Seqs(discarded)
      BY <2>1, <3>3 DEF NumbersServed
    <3> QED BY <1>1, <3>1, <3>3, <3>4 DEF Seqs
  <2>6. TablesOrdered'
    <3> SUFFICES ASSUME NEW i \in DOMAIN ss_tables', NEW j \in DOMAIN ss_tables', i < j,
                        NEW r \in ss_tables'[i].recs, NEW s \in ss_tables'[j].recs
                 PROVE  r.seq < s.seq
      BY DEF TablesOrdered
    <3> DEFINE a == ss_tables'[i].no
               b == ss_tables'[j].no
    <3>1. /\ a < b /\ a \in DOMAIN files /\ b \in DOMAIN files
          /\ r \in files[a].recs /\ s \in files[b].recs
      BY <1>3
    <3>2. a \in Nat /\ b \in Nat
      BY <3>1 DEF LsmTypeOK
    <3> HIDE DEF a, b
    <3>3. a \in TableNos
      <4> SUFFICES ASSUME a \in SpareFiles PROVE FALSE
        BY <3>1 DEF SpareFiles
      <4>1. CASE b \in TableNos
        <5>1. b < a
          BY <2>1, <4>1 DEF InStepFiles
        <5> QED BY <3>1, <3>2, <5>1
      <4>2. CASE b \notin TableNos
        <5>1. b = a
          BY <2>1, <3>1, <4>2 DEF InStepFiles, SpareFiles
        <5> QED BY <3>1, <3>2, <5>1
      <4> QED BY <4>1, <4>2
    <3>4. PICK x \in DOMAIN ss_tables : ss_tables[x].no = a
      BY <3>3 DEF TableNos
    <3>5. r \in ss_tables[x].recs
      BY <2>1, <3>1, <3>4 DEF FilesMatchTables
    <3>6. CASE b \in TableNos
      <4>1. PICK y \in DOMAIN ss_tables : ss_tables[y].no = b
        BY <3>6 DEF TableNos
      <4>2. s \in ss_tables[y].recs
        BY <2>1, <3>1, <4>1 DEF FilesMatchTables
      <4>3. x \in Nat /\ y \in Nat
        BY TableTypes
      <4>4. ~(y < x) /\ x # y
        <5>1. y < x => ss_tables[y].no < ss_tables[x].no
          BY <2>1 DEF FilesMatchTables
        <5> QED BY <3>1, <3>2, <3>4, <4>1, <5>1
      <4>5. x < y
        BY <4>3, <4>4
      <4> QED BY <2>1, <3>5, <4>2, <4>5 DEF TablesOrdered
    <3>7. CASE b \notin TableNos
      <4>1. ro_mem_tables # <<>> /\ s \in ro_mem_tables[1]
        BY <2>1, <3>1, <3>7 DEF InStepFiles, SpareFiles
      <4>2. 1 \in DOMAIN ro_mem_tables
        BY <4>1 DEF LsmTypeOK
      <4>3. r.seq <= max_persistent_seq_no /\ max_persistent_seq_no < s.seq
        BY <3>5, <4>1, <4>2 DEF NumbersSplit
      <4>4. r.seq \in Nat /\ s.seq \in Nat /\ max_persistent_seq_no \in Nat
        BY <1>2, <3>1 DEF LsmTypeOK
      <4> QED BY <4>3, <4>4
    <3> QED BY <3>6, <3>7
  <2> QED BY <1>2, <1>4, <1>5, <1>6, <2>4, <2>5, <2>6
<1> QED BY <1>7, <1>8

\* Together: the invariant is inductive.
LEMMA InvStep ==
  ASSUME Laws
  PROVE  LsmInv /\ [LsmNext]_lsmVars => LsmInv'
<1> SUFFICES ASSUME LsmInv, [LsmNext]_lsmVars PROVE LsmInv'
  OBVIOUS
<1>1. CASE LsmWork
  <2>1. LsmTypeOK' /\ MaintenanceExclusive'
    BY <1>1, TypeStep, MaintenanceStep DEF LsmInv
  <2>2. NumbersSplit' /\ (TablesOrdered => TablesOrdered')
    BY <1>1, NumbersStep DEF LsmInv
  <2>3. FilesBelowNext'
    BY <1>1, FilesBelowStep DEF LsmInv
  <2>4. NumbersServed => NumbersServed'
    BY <1>1, <2>1, ServedStep DEF LsmInv
  <2>5. DirectoryInv' /\ (Orderly' <=> Orderly)
    BY <1>1, DirectoryStep
  <2> QED BY <2>1, <2>2, <2>3, <2>4, <2>5 DEF LsmInv
<1>2. CASE Restart
  BY <1>2, RestartInv
<1>3. CASE UNCHANGED lsmVars
  <2>0. LsmTypeOK /\ NumbersSplit /\ FilesBelowNext /\ MaintenanceExclusive
    BY DEF LsmInv
  <2>t. LsmTypeOK'
    BY <1>3, <2>0 DEF lsmVars, LsmTypeOK
  <2>1. NumbersSplit' /\ FilesBelowNext'
    BY <1>3, <2>0 DEF lsmVars, NumbersSplit, FilesBelowNext
  <2>2. MaintenanceExclusive'
    <3>1. /\ ss_tables' = ss_tables /\ files' = files /\ ro_mem_tables' = ro_mem_tables
          /\ maintenance_mutex' = maintenance_mutex /\ flush' = flush /\ compact' = compact
      BY <1>3 DEF lsmVars
    <3>2. MaintenanceExclusive' <=> MaintenanceExclusive
      BY ONLY <3>1 DEF MaintenanceExclusive
    <3> QED BY <2>0, <3>2
  <2>3. Orderly' => TablesOrdered' /\ NumbersServed'
    <3>1. UNCHANGED <<ss_tables, ro_mem_tables, mem_table, directory, next_seq_no, discarded>>
      BY <1>3 DEF lsmVars
    <3>2. (Orderly' <=> Orderly) /\ (TablesOrdered' <=> TablesOrdered)
      BY ONLY <3>1 DEF Orderly, TablesOrdered
    <3>3. AllRecords' = AllRecords
      <4>1. Layers' = Layers
        BY ONLY <3>1 DEF Layers
      <4> QED BY ONLY <4>1 DEF AllRecords
    <3>4. NumbersServed' <=> NumbersServed
      BY ONLY <3>1, <3>3 DEF NumbersServed
    <3> QED BY <3>2, <3>4 DEF LsmInv
  <2>4. DirectoryInv'
    <3>1. LsmInv
      OBVIOUS
    <3>2. \A n : BeingWritten(n) => BeingWritten(n)'
      BY <1>3 DEF lsmVars, BeingWritten
    <3>3. UNCHANGED <<ss_tables, files, directory, ro_mem_tables, maintenance_mutex, flush, compact>>
      BY <1>3 DEF lsmVars
    <3> QED BY <3>1, <3>2, <3>3, DirectoryIdleStep
  <2> QED BY <2>t, <2>1, <2>2, <2>3, <2>4 DEF LsmInv
<1> QED BY <1>1, <1>2, <1>3 DEF LsmNext

-----------------------------------------------------------------------------

\* The invariant orders the layers.
LEMMA InvOrdersLayers == LsmInv => LayersOrdered
<1> SUFFICES ASSUME LsmInv, Orderly, NEW i \in DOMAIN Layers, NEW j \in DOMAIN Layers, i < j,
                    NEW r \in Layers[i], NEW s \in Layers[j]
             PROVE  r.seq < s.seq
  BY DEF LayersOrdered
<1> USE DEF LsmInv
<1>1. /\ Len(ss_tables) \in Nat /\ Len(ro_mem_tables) \in Nat
      /\ DOMAIN ss_tables = 1..Len(ss_tables)
      /\ DOMAIN ro_mem_tables = 1..Len(ro_mem_tables)
      /\ max_persistent_seq_no \in Nat
  BY DEF LsmTypeOK
<1>2. i \in 1..Len(Layers) /\ j \in 1..Len(Layers)
      /\ Len(Layers) = Len(ss_tables) + Len(ro_mem_tables) + 1
  BY LayersValue
<1>3. r.seq \in Nat /\ s.seq \in Nat
  <2>1. Layers[i] \in SUBSET Record /\ Layers[j] \in SUBSET Record
    BY <1>2, LayersValue
  <2> QED BY <2>1 DEF Record
<1>4. ASSUME NEW k \in 1..Len(Layers), k > Len(ss_tables), NEW t \in Layers[k]
      PROVE  max_persistent_seq_no < t.seq
  <2>1. CASE k <= Len(ss_tables) + Len(ro_mem_tables)
    <3>1. Layers[k] = ro_mem_tables[k - Len(ss_tables)]
          /\ k - Len(ss_tables) \in DOMAIN ro_mem_tables
      BY <1>1, <1>2, <1>4, <2>1, LayersValue
    <3> QED BY <1>4, <3>1 DEF NumbersSplit, TablesOrdered
  <2>2. CASE ~(k <= Len(ss_tables) + Len(ro_mem_tables))
    <3>1. Layers[k] = mem_table
      BY <1>1, <1>2, <1>4, <2>2, LayersValue
    <3> QED BY <1>4, <3>1 DEF NumbersSplit, TablesOrdered
  <2> QED BY <2>1, <2>2
<1>5. CASE j <= Len(ss_tables)
  <2>1. /\ Layers[i] = ss_tables[i].recs /\ Layers[j] = ss_tables[j].recs
        /\ i \in DOMAIN ss_tables /\ j \in DOMAIN ss_tables
    BY <1>1, <1>2, <1>5, LayersValue
  <2> QED BY <2>1 DEF NumbersSplit, TablesOrdered
<1>6. CASE i <= Len(ss_tables) /\ j > Len(ss_tables)
  <2>1. Layers[i] = ss_tables[i].recs /\ i \in DOMAIN ss_tables
    BY <1>1, <1>2, <1>6, LayersValue
  <2>2. r.seq <= max_persistent_seq_no
    BY <2>1 DEF NumbersSplit, TablesOrdered
  <2>3. max_persistent_seq_no < s.seq
    BY <1>2, <1>4, <1>6
  <2> QED BY <1>1, <1>3, <2>2, <2>3
<1>7. CASE i > Len(ss_tables) /\ j <= Len(ss_tables) + Len(ro_mem_tables)
  <2> DEFINE a == i - Len(ss_tables)
             b == j - Len(ss_tables)
  <2>1. /\ Layers[i] = ro_mem_tables[a] /\ Layers[j] = ro_mem_tables[b]
        /\ a \in DOMAIN ro_mem_tables /\ b \in DOMAIN ro_mem_tables /\ a < b
    BY <1>1, <1>2, <1>7, LayersValue
  <2> QED BY <2>1 DEF NumbersSplit, TablesOrdered
<1>8. CASE i > Len(ss_tables) /\ j > Len(ss_tables) + Len(ro_mem_tables)
  <2> DEFINE a == i - Len(ss_tables)
  <2>1. /\ Layers[i] = ro_mem_tables[a] /\ Layers[j] = mem_table
        /\ a \in DOMAIN ro_mem_tables
    BY <1>1, <1>2, <1>8, LayersValue
  <2> QED BY <2>1 DEF NumbersSplit, TablesOrdered
<1> QED BY <1>1, <1>2, <1>5, <1>6, <1>7, <1>8

-----------------------------------------------------------------------------
\* The laws of numbers and finite sets hold.
INSTANCE OrderFacts

\* The invariant holds in every state of every run of Put, Flush, Compact and Init.
THEOREM LsmInvariant == LsmSpec => []LsmInv
<1> QED BY InitInv, InvStep, LawsHold, PTL DEF LsmSpec

\* The variables of the tree keep their types.
THEOREM LsmTypeCorrect == LsmSpec => []LsmTypeOK
<1>1. LsmInv => LsmTypeOK
  BY DEF LsmInv
<1> QED BY <1>1, LsmInvariant, PTL

\* No number handed out by Put ever disappears from the readable records unless a
\* compaction strategy left its record out.
THEOREM NoRecordLostAlways == LsmSpec => []NoRecordLost
<1>1. LsmInv => NoRecordLost
  BY DEF LsmInv, NoRecordLost
<1> QED BY <1>1, LsmInvariant, PTL

\* Key iterators visit the tables from newest to oldest whatever flushes and
\* compactions have done.
THEOREM LayersOrderedAlways == LsmSpec => []LayersOrdered
<1> QED BY InvOrdersLayers, LsmInvariant, PTL

\* IsPersistent never claims a record that is only in memory.
THEOREM PersistentNotOnlyInMemoryAlways == LsmSpec => []PersistentNotOnlyInMemory
<1>1. LsmInv => PersistentNotOnlyInMemory
  <2> SUFFICES ASSUME LsmInv, NEW k \in DOMAIN Layers, k > Len(ss_tables),
                      NEW t \in Layers[k]
               PROVE  t.seq > max_persistent_seq_no
    BY DEF PersistentNotOnlyInMemory
  <2> USE DEF LsmInv
  <2>1. /\ Len(ss_tables) \in Nat /\ Len(ro_mem_tables) \in Nat
        /\ DOMAIN ro_mem_tables = 1..Len(ro_mem_tables)
        /\ max_persistent_seq_no \in Nat
    BY DEF LsmTypeOK
  <2>2. k \in 1..Len(Layers) /\ Len(Layers) = Len(ss_tables) + Len(ro_mem_tables) + 1
    BY LayersValue
  <2>3. CASE k <= Len(ss_tables) + Len(ro_mem_tables)
    <3>1. Layers[k] = ro_mem_tables[k - Len(ss_tables)]
          /\ k - Len(ss_tables) \in DOMAIN ro_mem_tables
      BY <2>1, <2>2, <2>3, LayersValue
    <3> QED BY <3>1 DEF NumbersSplit, TablesOrdered
  <2>4. CASE ~(k <= Len(ss_tables) + Len(ro_mem_tables))
    <3>1. Layers[k] = mem_table
      BY <2>1, <2>2, <2>4, LayersValue
    <3> QED BY <3>1 DEF NumbersSplit, TablesOrdered
  <2> QED BY <2>3, <2>4
<1> QED BY <1>1, LsmInvariant, PTL

\* The first record a key iterator yields is the newest version of its key.
THEOREM ScanStartsAtNewestAlways == LsmSpec => []ScanStartsAtNewest
<1>1. LsmInv => ScanStartsAtNewest
  <2> SUFFICES ASSUME LsmInv, Orderly, NEW record \in AllRecords
               PROVE  (\A other \in AllRecords :
                         other.key = record.key => other.seq <= record.seq)
                      <=> IsFirstOfScan(record, record.key)
    BY DEF ScanStartsAtNewest
  <2>1. /\ DOMAIN Layers = 1..Len(Layers) /\ Len(Layers) \in Nat
        /\ \A i \in DOMAIN Layers : Layers[i] \in SUBSET Record
    <3>1. LsmTypeOK
      BY DEF LsmInv
    <3> QED BY <3>1, LayersValue
  <2>2. \A r \in AllRecords : r.seq \in Nat
    BY <2>1 DEF AllRecords, Record
  <2>3. ASSUME NEW i \in DOMAIN Layers, NEW j \in DOMAIN Layers, i < j,
               NEW r \in Layers[i], NEW s \in Layers[j]
        PROVE  r.seq < s.seq
    BY <2>3, InvOrdersLayers DEF LayersOrdered
  <2>4. ASSUME \A other \in AllRecords : other.key = record.key => other.seq <= record.seq
        PROVE  IsFirstOfScan(record, record.key)
    <3>1. PICK i \in DOMAIN Layers : record \in Layers[i]
      BY DEF AllRecords
    <3>2. \A other \in Layers[i] : other.key = record.key => other.seq <= record.seq
      BY <2>4 DEF AllRecords
    <3>3. ASSUME NEW j \in (i + 1)..Len(Layers), NEW other \in Layers[j]
          PROVE  other.key # record.key
      <4>1. j \in DOMAIN Layers /\ i < j
        BY <2>1
      <4>2. record.seq < other.seq
        BY <2>3, <3>1, <4>1
      <4>3. other \in AllRecords
        BY <4>1 DEF AllRecords
      <4>4. ~(other.seq <= record.seq)
        BY <2>2, <4>2, <4>3
      <4> QED BY <2>4, <4>3, <4>4
    <3> QED BY <3>1, <3>2, <3>3 DEF IsFirstOfScan
  <2>5. ASSUME IsFirstOfScan(record, record.key), NEW other \in AllRecords,
               other.key = record.key
        PROVE  other.seq <= record.seq
    <3>1. PICK i \in DOMAIN Layers :
            /\ record \in Layers[i]
            /\ \A o \in Layers[i] : o.key = record.key => o.seq <= record.seq
            /\ \A j \in (i + 1)..Len(Layers) : \A o \in Layers[j] : o.key # record.key
      BY <2>5 DEF IsFirstOfScan
    <3>2. PICK j \in DOMAIN Layers : other \in Layers[j]
      BY DEF AllRecords
    <3>3. ~(j > i)
      <4>1. j > i => j \in (i + 1)..Len(Layers)
        BY <2>1
      <4> QED BY <2>5, <3>1, <3>2, <4>1
    <3>4. CASE j = i
      BY <2>5, <3>1, <3>2, <3>4
    <3>5. CASE j < i
      <4>1. other.seq < record.seq
        BY <2>3, <3>1, <3>2, <3>5
      <4> QED BY <2>2, <4>1
    <3> QED BY <2>1, <3>3, <3>4, <3>5
  <2> QED BY <2>4, <2>5
<1> QED BY <1>1, LsmInvariant, PTL

\* What IsPersistent reported before a crash is served after Init, as long as Init
\* finds the directory in step.
THEOREM PersistentSurvivesRestartAlways == LsmSpec => PersistentSurvivesRestart
<1>1. LsmInv /\ [LsmNext]_lsmVars =>
        [restarts' # restarts /\ Orderly' =>
           {r \in AllRecords : r.seq <= max_persistent_seq_no} \subseteq AllRecords']_lsmVars
  <2> SUFFICES ASSUME LsmInv, LsmNext, restarts' # restarts, Orderly'
               PROVE  {r \in AllRecords : r.seq <= max_persistent_seq_no} \subseteq AllRecords'
    OBVIOUS
  <2>1. LsmWork => restarts' = restarts
    BY Zenon DEF LsmWork, Put, FlushStep, FlushLock, FlushOpen, FlushHeader, FlushRecords,
           FlushPublish, FlushFail, CompactStep, CompactLock, CompactOpen, CompactHeader,
           CompactRecords, CompactPublish, CompactRemove, CompactFinish, CompactFail
  <2>2. Restart
    BY <2>1 DEF LsmNext
  <2>3. directory = "in_step"
    BY <2>2 DEF Restart, Orderly
  <2> QED BY <2>2, <2>3, RestartLosesSuffix, LawsHold
<1> QED BY <1>1, LsmInvariant, PTL DEF LsmSpec, PersistentSurvivesRestart

\* The tree implements the unordered version store: a put adds one version, a
\* published compaction forgets what its strategy left out, freezing, flushing and
\* every step in between are invisible, and a restart of an orderly directory
\* loses the newest versions only.
THEOREM LsmImplementsVersionStore == LsmSpec => ImplementsVersionStore
<1>1. LsmInit => Abstract!VersionStoreInit
  <2> SUFFICES ASSUME LsmInit PROVE Abstract!VersionStoreInit
    OBVIOUS
  <2>1. LsmTypeOK
    BY InitInv, LawsHold DEF LsmInv
  <2>2. AllRecords = {}
    BY <2>1, AllRecordsMembers DEF MembersByLayer, LsmInit
  <2> QED BY <2>2 DEF Abstract!VersionStoreInit, LsmInit, Orderly
<1>2. LsmInv /\ [LsmNext]_lsmVars =>
        [Abstract!VersionStoreNext]_(Abstract!VersionStoreVars)
  <2> SUFFICES ASSUME LsmInv, [LsmNext]_lsmVars
               PROVE  [Abstract!VersionStoreNext]_(Abstract!VersionStoreVars)
    OBVIOUS
  <2>1. CASE LsmWork
    <3>1. LsmTypeOK' /\ Orderly' = Orderly
      BY <2>1, TypeStep, LawsHold, DirectoryStep DEF LsmInv, Orderly
    <3>2. ASSUME NEW key \in Key,
                 /\ AllRecords' = AllRecords \cup {[key |-> key, seq |-> next_seq_no]}
                 /\ next_seq_no' = next_seq_no + 1
                 /\ discarded' = discarded
          PROVE  Abstract!VersionStoreNext
      BY <3>1, <3>2 DEF Abstract!VersionStoreNext, Abstract!AddVersion
    <3>3. ASSUME NEW gone \in SUBSET AllRecords,
                 /\ AllRecords' = AllRecords \ gone
                 /\ discarded' = discarded \cup gone
                 /\ next_seq_no' = next_seq_no
          PROVE  Abstract!VersionStoreNext
      BY <3>1, <3>3 DEF Abstract!VersionStoreNext, Abstract!ForgetVersions
    <3>4. CASE UNCHANGED <<AllRecords, discarded, next_seq_no>>
      BY <3>1, <3>4 DEF Abstract!VersionStoreVars
    <3> QED BY <2>1, <3>1, <3>2, <3>3, <3>4, RecordsStep DEF LsmInv
  <2>2. CASE Restart /\ directory = "in_step"
    <3>1. /\ next_seq_no' <= next_seq_no
          /\ AllRecords' = {v \in AllRecords : v.seq < next_seq_no'}
      BY <2>2, RestartTables, RestartLosesSuffix, LawsHold
    <3>2. discarded' = {v \in discarded : v.seq < next_seq_no'} /\ Orderly' = Orderly
      BY <2>2 DEF Restart, Orderly
    <3> QED BY <3>1, <3>2 DEF Abstract!VersionStoreNext, Abstract!LoseSuffix
  <2>3. CASE Restart /\ directory # "in_step"
    <3>1. Orderly' = FALSE
      BY <2>3, Zenon DEF Restart, Orderly
    <3> QED BY <3>1 DEF Abstract!VersionStoreNext
  <2>4. CASE UNCHANGED lsmVars
    BY <2>4 DEF lsmVars, AllRecords, Layers, Orderly, Abstract!VersionStoreVars
  <2> QED BY <2>1, <2>2, <2>3, <2>4 DEF LsmNext
<1> QED BY <1>1, <1>2, LsmInvariant, PTL
         DEF LsmSpec, ImplementsVersionStore, Abstract!VersionStoreSpec
=============================================================================
