------------------------------ MODULE SsTable -------------------------------
(***************************************************************************)
(* One ss table on disk: how SSTableBuilder lays records out in pages      *)
(* (src/server/lsm/disk), and how SSTableIterator scans them through       *)
(* LowerBound and GetPage (src/server/lsm/ss_table.cpp, iterators).  All   *)
(* scans of a table share one FileReader, whose offset GetPage moves with  *)
(* Seek and then reads from, and one page cache.                           *)
(*                                                                         *)
(* A coroutine suspends in GetPage when the page is not cached: while      *)
(* lseek runs on the thread pool, and after the read.  A page the cache    *)
(* has costs no suspension; the model gives it a step of its own.  Page    *)
(* numbers and positions in a page count from 0, as in the code; pages     *)
(* have equal size in the file, so an offset is a page number.             *)
(***************************************************************************)
EXTENDS LruCache, RecordOrder, Integers

CONSTANTS Scan,                 \* concurrent scans
          Records,              \* what tables are made of: [key, seq, size]
          Ranges,               \* ScanRange values: [lower, upper], 0 for no bound
          page_size,            \* with a page header of one unit
          page_cache_capacity

ASSUME SsTableAssumption ==
  /\ page_size \in Nat /\ page_cache_capacity \in Nat
  /\ IsFiniteSet(Records)
  /\ \A r \in Records : r.key \in Nat \ {0} /\ r.seq \in Nat /\ r.size \in 1..(page_size - 1)
  /\ \A r, t \in Records : r.seq = t.seq => r = t
  /\ \A range \in Ranges : range.lower \in Nat /\ range.upper \in Nat

VARIABLES pages,         \* the file after its header
          file_offset,   \* of the shared FileReader
          page_cache,    \* LruCache from page numbers to pages
          scans,         \* progress of each SSTableIterator
          overlapped     \* history: a Seek came between another one and its Read

ssTableVars == <<pages, file_offset, page_cache, scans, overlapped>>

-----------------------------------------------------------------------------
\* SSTableBuilder::Add and PageBuilder: the page is flushed when the record does not
\* fit in what its header and records leave.
AddRecord(builder, record) ==
  IF builder.used + record.size <= page_size
  THEN [builder EXCEPT !.page = Append(@, record), !.used = @ + record.size]
  ELSE [pages |-> Append(builder.pages, builder.page), page |-> <<record>>,
        used |-> 1 + record.size]

\* Create, Add for each record in order, Finish.
BuildPages(recs) ==
  LET rows == Sorted(recs)
      builder[i \in 0..Len(rows)] ==
        IF i = 0 THEN [pages |-> <<>>, page |-> <<>>, used |-> 1]
        ELSE AddRecord(builder[i - 1], rows[i])
      built == builder[Len(rows)]
  IN IF built.page = <<>> THEN built.pages ELSE Append(built.pages, built.page)

page_count == Len(pages)

MaxKey(page) == Last(page).key

\* Page::Find, std::lower_bound on the keys: the first position not below key.
Find(page, key) == Cardinality({i \in DOMAIN page : page[i].key < key})

-----------------------------------------------------------------------------
\* pc: "get" about to call GetPage; "seek" and "read" suspended in it; "load" the
\* page's bytes are in buffer.  phase: what the page is for.
NewScan == [pc |-> "idle", phase |-> "bound", range |-> [lower |-> 0, upper |-> 0],
            lo |-> 0, hi |-> 0, current_page |-> 0, current_record |-> 0,
            buffer |-> <<>>, out |-> <<>>]

SsTableInit ==
  /\ \E recs \in SUBSET Records : pages = BuildPages(recs)
  /\ file_offset = 0
  /\ page_cache = <<>>
  /\ scans = [s \in Scan |-> NewScan]
  /\ overlapped = FALSE

\* Mutant of Mid: the upper end of the interval.
MidHigh(scan) == scan.hi

\* The middle of LowerBound's interval.
Mid(scan) == scan.lo + (scan.hi - scan.lo) \div 2

WantedPage(scan) == IF scan.phase = "bound" THEN Mid(scan) ELSE scan.current_page

\* Where a scan goes without asking for a page: out of LowerBound's loop, and past
\* the last page.
Settle(scan) ==
  LET found == IF scan.phase = "bound" /\ scan.lo >= scan.hi
               THEN [scan EXCEPT !.phase = "find", !.current_page = scan.lo] ELSE scan
  IN IF found.phase # "bound" /\ found.current_page >= page_count
     THEN [found EXCEPT !.pc = "done"] ELSE [found EXCEPT !.pc = "get"]

\* Mutants of Narrow: the comparison is strict; the lower end does not move past Mid.
NarrowStrict(scan, page) ==
  IF scan.range.lower < MaxKey(page) THEN [scan EXCEPT !.hi = Mid(scan)]
  ELSE [scan EXCEPT !.lo = Mid(scan) + 1]

NarrowStays(scan, page) ==
  IF scan.range.lower <= MaxKey(page) THEN [scan EXCEPT !.hi = Mid(scan)]
  ELSE [scan EXCEPT !.lo = Mid(scan)]

\* One turn of LowerBound's loop.
Narrow(scan, page) ==
  IF scan.range.lower <= MaxKey(page) THEN [scan EXCEPT !.hi = Mid(scan)]
  ELSE [scan EXCEPT !.lo = Mid(scan) + 1]

\* Create, once it has the start page.
StartAt(scan, page) ==
  [scan EXCEPT !.current_record = Find(page, scan.range.lower), !.phase = "next"]

\* NextImpl, and HasMore on what it prefetched: a record up to the upper bound is
\* handed out by the following Next.  Reading behind the page's vectors is undefined.
TakeNext(scan, page) ==
  LET last == scan.current_record + 1 >= Len(page)
      record == page[scan.current_record + 1]
      advanced == [scan EXCEPT
        !.current_record = IF last THEN 0 ELSE @ + 1,
        !.current_page = IF last THEN @ + 1 ELSE @]
  IN IF scan.current_record >= Len(page) THEN [scan EXCEPT !.pc = "failed"]
     ELSE IF scan.range.upper = 0 \/ record.key <= scan.range.upper
     THEN Settle([advanced EXCEPT !.out = Append(@, record)])
     ELSE [advanced EXCEPT !.pc = "done"]

\* What the scan does with the page GetPage returns.
UsePage(scan, page) ==
  CASE scan.phase = "bound" -> Settle(Narrow(scan, page))
    [] scan.phase = "find"  -> [StartAt(scan, page) EXCEPT !.pc = "get"]
    [] scan.phase = "next"  -> TakeNext(scan, page)

-----------------------------------------------------------------------------
\* SSTableIterator::Create: without a lower bound the scan starts at the first page.
StartScan(s, range) ==
  /\ scans[s].pc = "idle"
  /\ scans' = [scans EXCEPT ![s] = Settle(
       [NewScan EXCEPT !.range = range, !.hi = page_count,
                       !.phase = IF range.lower = 0 THEN "next" ELSE "bound"])]
  /\ UNCHANGED <<pages, file_offset, page_cache, overlapped>>

GetPageHit(s) ==
  /\ scans[s].pc = "get"
  /\ HasKey(page_cache, WantedPage(scans[s]))
  /\ page_cache' = CacheGet(page_cache, WantedPage(scans[s]))
  /\ scans' = [scans EXCEPT ![s] =
                 UsePage(@, Cached(page_cache, WantedPage(scans[s])).value)]
  /\ UNCHANGED <<pages, file_offset, overlapped>>

GetPageMiss(s) ==
  /\ scans[s].pc = "get"
  /\ ~HasKey(page_cache, WantedPage(scans[s]))
  /\ scans' = [scans EXCEPT ![s].pc = "seek"]
  /\ UNCHANGED <<pages, file_offset, page_cache, overlapped>>

\* FileReader::Seek: lseek on a thread of the pool.
Seek(s) ==
  /\ scans[s].pc = "seek"
  /\ file_offset' = WantedPage(scans[s])
  /\ scans' = [scans EXCEPT ![s].pc = "read"]
  /\ overlapped' = (overlapped \/ \E t \in Scan \ {s} : scans[t].pc = "read")
  /\ UNCHANGED <<pages, page_cache>>

\* FileReader::Read takes the bytes at the offset and moves it; at the end of the
\* file it throws EndOfFile.
ReadPage(s) ==
  /\ scans[s].pc = "read"
  /\ IF file_offset < page_count
     THEN /\ scans' = [scans EXCEPT ![s].pc = "load", ![s].buffer = pages[file_offset + 1]]
          /\ file_offset' = file_offset + 1
     ELSE /\ scans' = [scans EXCEPT ![s].pc = "failed"]
          /\ UNCHANGED file_offset
  /\ UNCHANGED <<pages, page_cache, overlapped>>

\* Page::Load and page_cache_.Put under the number asked for.
LoadPage(s) ==
  /\ scans[s].pc = "load"
  /\ page_cache' = CachePut(page_cache, WantedPage(scans[s]), scans[s].buffer,
                            page_cache_capacity)
  /\ scans' = [scans EXCEPT ![s] = UsePage([@ EXCEPT !.buffer = <<>>], @.buffer)]
  /\ UNCHANGED <<pages, file_offset, overlapped>>

ScanStep(s) == GetPageHit(s) \/ GetPageMiss(s) \/ Seek(s) \/ ReadPage(s) \/ LoadPage(s)

SsTableNext ==
  \E s \in Scan : (\E range \in Ranges : StartScan(s, range)) \/ ScanStep(s)

\* A ready coroutine is resumed and the pool runs every lseek.
SsTableSpec ==
  SsTableInit /\ [][SsTableNext]_ssTableVars /\ \A s \in Scan : WF_ssTableVars(ScanStep(s))

-----------------------------------------------------------------------------
\* Types of the file, the reader and the scans.
SsTableTypeOK ==
  /\ \A i \in DOMAIN pages : pages[i] # <<>> /\ ToSet(pages[i]) \subseteq Records
  /\ file_offset \in 0..page_count
  /\ \A s \in Scan :
       /\ scans[s].pc \in {"idle", "get", "seek", "read", "load", "done", "failed"}
       /\ scans[s].phase \in {"bound", "find", "next"}
       /\ 0 <= scans[s].lo /\ scans[s].lo <= scans[s].hi /\ scans[s].hi <= page_count
       /\ scans[s].pc = "get" => WantedPage(scans[s]) \in 0..(page_count - 1)

\* lru_cache.hpp:47: the cache never exceeds its capacity, and its list and its index
\* hold the same keys, also when two scans load the same page at the same time.
CacheConsistent ==
  /\ Len(page_cache) <= page_cache_capacity
  /\ \A i, j \in DOMAIN page_cache : page_cache[i].key = page_cache[j].key => i = j

\* ss_table.hpp:57, GetPage "returns page by its number": what the cache holds under a
\* number, and what a scan has read for one, is the page of that number.
PageByNumber ==
  /\ \A i \in DOMAIN page_cache : page_cache[i].value = pages[page_cache[i].key + 1]
  /\ \A s \in Scan : scans[s].pc = "load" =>
       scans[s].buffer = pages[WantedPage(scans[s]) + 1]

FileRecords == UNION {ToSet(pages[i]) : i \in DOMAIN pages}

InRange(record, range) ==
  /\ record.key >= range.lower
  /\ range.upper = 0 \/ record.key <= range.upper

\* ss_table.hpp:25, storage.hpp:44, both borders inclusive: as long as no Seek came
\* between another one and its Read, a scan through binary search, pages and cache
\* hands out exactly the records of its range, in order, and none fails.
SerialScansExact ==
  ~overlapped =>
    /\ PageByNumber
    /\ \A s \in Scan :
         /\ scans[s].pc # "failed"
         /\ scans[s].pc = "done" =>
              /\ ToSet(scans[s].out) = {r \in FileRecords : InRange(r, scans[s].range)}
              /\ \A i, j \in DOMAIN scans[s].out :
                   i < j => Before(scans[s].out[i], scans[s].out[j])

\* LowerBound's loop and the walk over the pages end, whatever pages they are given.
ScanEnds ==
  \A s \in Scan : scans[s].pc = "get" ~> scans[s].pc \in {"done", "failed"}

-----------------------------------------------------------------------------
\* Record i of page p comes before record j of page q in the file.
Precedes(p, i, q, j) == p < q \/ (p = q /\ i < j)

\* The file is one sorted run of records, cut into pages that are not empty.
PagesSorted(file) ==
  /\ file \in Seq(Seq(Records))
  /\ \A p \in DOMAIN file : file[p] # <<>>
  /\ \A p, q \in DOMAIN file : \A i \in DOMAIN file[p], j \in DOMAIN file[q] :
       Precedes(p, i, q, j) => Before(file[p][i], file[q][j])

ScanState ==
  [pc : {"idle", "get", "seek", "read", "load", "done", "failed"},
   phase : {"bound", "find", "next"}, range : Ranges \cup {NewScan.range},
   lo : Nat, hi : Nat, current_page : Nat, current_record : Nat,
   buffer : Seq(Records), out : Seq(Records)]

\* A scan's interval lies in the file, and so does a page it asks for or has read;
\* LowerBound's loop goes on only while the interval is not empty.
IsScan(scan) ==
  /\ scan \in ScanState
  /\ scan.lo <= scan.hi /\ scan.hi <= page_count
  /\ scan.pc \in {"get", "seek", "read", "load"} =>
       /\ WantedPage(scan) \in 0..(page_count - 1)
       /\ scan.phase = "bound" => scan.lo < scan.hi
  /\ scan.pc = "load" => scan.buffer \in ToSet(pages)

\* Whatever scans overlap, every page comes from the file and has a number in it.
TypesInv ==
  /\ PagesSorted(pages)
  /\ file_offset \in 0..page_count
  /\ page_cache \in Seq([key : 0..(page_count - 1), value : ToSet(pages)])
  /\ DOMAIN scans = Scan /\ \A s \in Scan : IsScan(scans[s])
  /\ overlapped \in BOOLEAN

\* The position of a scan is behind record i of page p.
Behind(scan, p, i) == Precedes(p, i, scan.current_page + 1, scan.current_record + 1)

\* LowerBound has all pages before lo below the bound and none from hi on.
BoundInv(scan) ==
  /\ \A p \in DOMAIN pages : p <= scan.lo => MaxKey(pages[p]) < scan.range.lower
  /\ \A p \in DOMAIN pages : scan.hi < p => scan.range.lower <= MaxKey(pages[p])
  /\ scan.phase = "find" => scan.current_page = scan.lo /\ scan.lo = scan.hi

\* What is handed out is what the position has left behind of the range, in order.
OutInv(scan) ==
  /\ ToSet(scan.out) \subseteq FileRecords
  /\ \A i, j \in DOMAIN scan.out : i < j => Before(scan.out[i], scan.out[j])
  /\ \A p \in DOMAIN pages : \A i \in DOMAIN pages[p] :
       pages[p][i] \in ToSet(scan.out)
         <=> (Behind(scan, p, i) \/ scan.pc = "done") /\ InRange(pages[p][i], scan.range)

\* The position is a record of the file, and no record from it on is below the range.
PositionInv(scan) ==
  /\ scan.pc # "done" => scan.current_record < Len(pages[scan.current_page + 1])
  /\ \A p \in DOMAIN pages : \A i \in DOMAIN pages[p] :
       Behind(scan, p, i) \/ pages[p][i].key >= scan.range.lower

ScanInv(scan) ==
  /\ scan.pc # "failed"
  /\ scan.pc = "load" => scan.buffer = pages[WantedPage(scan) + 1]
  /\ scan.pc # "idle" /\ scan.phase # "next" =>
       BoundInv(scan) /\ scan.out = <<>> /\ scan.current_record = 0
  /\ scan.pc # "idle" /\ scan.phase = "next" => OutInv(scan) /\ PositionInv(scan)
  /\ scan.pc = "done" => OutInv(scan)

\* Without overlap a Read finds the offset its Seek has set, so every scan uses the
\* pages it asks for, and LowerBound and the walk do what they would in memory.
SsTableInv ==
  /\ TypesInv
  /\ CacheConsistent
  /\ ~overlapped =>
       /\ \A i \in DOMAIN page_cache : page_cache[i].value = pages[page_cache[i].key + 1]
       /\ \A s, t \in Scan : scans[s].pc = "read" /\ scans[t].pc = "read" => s = t
       /\ \A s \in Scan : scans[s].pc = "read" => file_offset = WantedPage(scans[s])
       /\ \A s \in Scan : ScanInv(scans[s])
=============================================================================
