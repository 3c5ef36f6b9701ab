----------------------------- MODULE WalWriter -----------------------------
(***************************************************************************)
(* wal::Writer (src/server/wal/writer.cpp) and what wal::Reader can read   *)
(* back.  The writer takes no lock: a coroutine in Write suspends after    *)
(* its padding, while the next segment's file is opened, and after its     *)
(* data, and another coroutine may enter Write there.  The operators below *)
(* are the parts of Write between those points; the module of the callers  *)
(* keeps each caller's point.                                              *)
(*                                                                         *)
(* A file write reaches the file when it is started (a regular file is     *)
(* always ready), so it is part of the step that starts it.  A segment is  *)
(* the sequence of what was written to it, events and padding, each with   *)
(* the file offset it ends at; sizes are in units of the commit event.     *)
(* kMaxPagesInSegment is 1: the page that is complete completes its        *)
(* segment, and pages_in_current_segment_ is 0 at every suspension point.  *)
(***************************************************************************)
EXTENDS Naturals, FiniteSetsExt, SeqHelpers

CONSTANTS kWalPageSize,     \* units in a page
          MaxSegment        \* bound: largest segment number opened

VARIABLES segments,                   \* the files of the wal directory
          current_segment_no,
          current_segment_writer,     \* number of the file written to
          current_page_size

walVars == <<segments, current_segment_no, current_segment_writer, current_page_size>>

Padding == [type |-> "padding"]

\* Where a caller of Write is suspended.
WritePoint == [pc : {"padded", "opening", "written"}, no : 0..MaxSegment]

EventSize(event) == IF event.type = "commit" THEN 1 ELSE 2

\* FileWriter::Write appends to the file that is open.  A file that was removed
\* meanwhile takes the bytes with it.
AppendTo(files, no, event, size) ==
  LET end(segment) == IF segment = <<>> THEN 0 ELSE Last(segment).end
  IN [n \in DOMAIN files |->
        IF n # no THEN files[n]
        ELSE Append(files[n], [event |-> event, end |-> end(files[n]) + size])]

\* CreateFileWriter(path, append): what is there is kept.
CreateSegment(files, no) ==
  [n \in DOMAIN files \cup {no} |-> IF n \in DOMAIN files THEN files[n] ELSE <<>>]

\* The number after the last segment's.
NextSegment(files) == IF DOMAIN files = {} THEN 0 ELSE Max(DOMAIN files) + 1

-----------------------------------------------------------------------------
\* The data of the event, wherever current_segment_writer_ points by now.
WriteData(event, at) ==
  /\ segments' = AppendTo(segments, current_segment_writer, event, EventSize(event))
  /\ at = [pc |-> "written", no |-> current_segment_writer]

\* The end of FlushPage: the page is complete, and with it the segment; the
\* caller suspends while the next one is opened.
EndPage(at) ==
  /\ current_page_size' = 0
  /\ current_segment_no' = current_segment_no + 1
  /\ at = [pc |-> "opening", no |-> current_segment_no + 1]

\* Write up to its first suspension.
WriteStart(event, at) ==
  LET overflows == current_page_size + EventSize(event) > kWalPageSize
  IN \/ /\ ~overflows \/ current_page_size = 0
        /\ WriteData(event, at)
        /\ UNCHANGED <<current_segment_no, current_segment_writer, current_page_size>>
     \/ /\ overflows /\ current_page_size > 0 /\ current_page_size < kWalPageSize
        /\ segments' = AppendTo(segments, current_segment_writer, Padding,
                                kWalPageSize - current_page_size)
        /\ at = [pc |-> "padded", no |-> current_segment_writer]
        /\ UNCHANGED <<current_segment_no, current_segment_writer, current_page_size>>
     \/ /\ overflows /\ current_page_size >= kWalPageSize
        /\ EndPage(at)
        /\ UNCHANGED <<segments, current_segment_writer>>

\* The padding is written.
WriteAfterPadding(at) ==
  /\ EndPage(at)
  /\ UNCHANGED <<segments, current_segment_writer>>

\* The next segment is open: it becomes the one written to, and the data follows.
WriteAfterOpening(event, no, at) ==
  /\ segments' = AppendTo(CreateSegment(segments, no), no, event, EventSize(event))
  /\ current_segment_writer' = no
  /\ at = [pc |-> "written", no |-> no]
  /\ UNCHANGED <<current_segment_no, current_page_size>>

\* The data is written and synced.
WriteDone(event) ==
  /\ current_page_size' = current_page_size + EventSize(event)
  /\ UNCHANGED <<segments, current_segment_no, current_segment_writer>>

\* Mutant of WriterInit: the last segment is continued as if its page were empty.
WriterInitLastSegment(files) ==
  LET no == IF DOMAIN files = {} THEN 0 ELSE Max(DOMAIN files)
  IN /\ segments' = CreateSegment(files, no)
     /\ current_segment_no' = no
     /\ current_segment_writer' = no
     /\ current_page_size' = 0

\* Writer::Init: a new segment after the last one, or segment 0.
WriterInit(files) ==
  LET no == NextSegment(files)
  IN /\ no <= MaxSegment
     /\ segments' = CreateSegment(files, no)
     /\ current_segment_no' = no
     /\ current_segment_writer' = no
     /\ current_page_size' = 0

-----------------------------------------------------------------------------
\* Data that crosses the end of a page: the callers that were in Write together
\* all added to the same page.
IsTorn(chunk) ==
  (chunk.end - EventSize(chunk.event)) \div kWalPageSize # (chunk.end - 1) \div kWalPageSize

\* Parsing the padding throws, and so may parsing a torn event.
IsUnreadable(chunk) == chunk.event.type = "padding" \/ IsTorn(chunk)

\* The chunks that are parsed: the exception ends the segment whatever follows.
ReadLength(segment) ==
  LET stops == {i \in DOMAIN segment : IsUnreadable(segment[i])}
  IN IF stops = {} THEN Len(segment) ELSE Min(stops) - 1

\* What Reader::ReadSegment hands out of a segment.  A torn event is parsed from
\* bytes past the end of the page's buffer: either it is dropped as well, or (torn)
\* an upsert with its number and unspecified content comes out, write 0.
Readable(segment, torn) ==
  LET n == ReadLength(segment)
      events == [i \in 1..n |-> segment[i].event]
  IN IF torn /\ n < Len(segment) /\ segment[n + 1].event.type = "upsert"
     THEN Append(events, [segment[n + 1].event EXCEPT !.record.write_no = 0])
     ELSE events

\* The events of the whole log in the order of the segments' numbers.
LogEvents(files, torn) ==
  LET last == NextSegment(files)
      before[no \in 0..last] ==
        IF no = 0 THEN <<>>
        ELSE IF no - 1 \in DOMAIN files
             THEN before[no - 1] \o Readable(files[no - 1], torn)
        ELSE before[no - 1]
  IN before[last]
=============================================================================
