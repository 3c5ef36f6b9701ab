---------------------------- MODULE Replication ----------------------------
(***************************************************************************)
(* A leader that ships its write-ahead log and its followers:              *)
(* GetEventsReactor::Pump (services/replication_service), FollowerRegistry *)
(* and the retention of the WAL cleaner, CollectPagesFrom,                 *)
(* NextSegmentToFetch and WriteReceivedPage (wal/tail.cpp), and the loop   *)
(* of replication::Follower.                                               *)
(*                                                                         *)
(* A segment is one page, the sequence of the numbers of its events; a     *)
(* page of PageEvents events is padded to its full size by the next write. *)
(* Events are upserts of one table.  The stream delivers in order until it *)
(* breaks, and then loses what is in flight.                               *)
(***************************************************************************)
EXTENDS Integers, FiniteSetsExt, Functions, SeqHelpers

CONSTANTS Follower,            \* the followers
          PageEvents,          \* events of a complete page
          MaxEvents,           \* bound: events logged by the leader
          MaxBreaks,           \* bound: streams broken
          MaxCrashes,          \* bound: crashes of followers
          MaxRestarts,         \* bound: restarts of the leader
          MaxCleans            \* bound: steps of the WAL cleaner

ASSUME ReplicationAssumption ==
  /\ PageEvents \in Nat \ {0}
  /\ MaxEvents \in Nat /\ MaxBreaks \in Nat /\ MaxCrashes \in Nat
  /\ MaxRestarts \in Nat /\ MaxCleans \in Nat

VARIABLES
  segments,        \* the leader's wal directory
  current_segment, \* the one its writer appends to
  next_event,      \* number of the next event
  cleaner,         \* progress of a WalCleaner::Step
  registry,        \* FollowerRegistry::positions_: the segment of each token
  next_token,
  stream,          \* the GetEventsReactor of each follower's connection
  network,         \* pages written to each follower and not read yet
  follower,        \* [pc, page, next_seq_no] of each follower
  mirror,          \* the wal directory of each follower
  logged,          \* history: the leader's segments without the cleaning
  reused,          \* history: a restart gave a segment the number of a removed one
  removed,         \* history: [no, known] of each segment the cleaner has removed
  breaks, crashes, restarts, cleans

replVars == <<segments, current_segment, next_event, cleaner, registry, next_token, stream,
              network, follower, mirror, logged, reused, removed, breaks, crashes,
              restarts, cleans>>

logVars == <<segments, current_segment, next_event, logged, reused>>
leaderVars == <<logVars, cleaner, removed, restarts, cleans>>
registryVars == <<registry, next_token>>
followerVars == <<follower, mirror>>
faultVars == <<breaks, crashes>>

-----------------------------------------------------------------------------
Padding == 0

\* A page has its full size, kWalPageSize.
IsComplete(data) == data # <<>> /\ Last(data) = Padding

\* known is history: the streams that were registered when the cleaner asked.
IdleCleaner == [pc |-> "idle", retain |-> {}, obsolete |-> {}, known |-> {}]

NoPages == [no \in {} |-> <<>>]

\* A file is created, or replaced, in a directory; or a map gets an entry.
Put(files, no, data) ==
  [n \in DOMAIN files \cup {no} |-> IF n = no THEN data ELSE files[n]]

\* No stream.  from is history: the segment that was asked for.
Closed == [open |-> FALSE, token |-> 0, next_segment |-> 0, next_page |-> 0,
           tail_sent_size |-> -1, pages |-> NoPages, write_pending |-> FALSE,
           from |-> 0]

NoPage == [segment |-> 0, data |-> <<>>]

ReplInit ==
  /\ segments = Put(NoPages, 0, <<>>) /\ logged = segments
  /\ current_segment = 0
  /\ next_event = 1
  /\ cleaner = IdleCleaner
  /\ registry = [token \in {} |-> 0] /\ next_token = 0
  /\ stream = [f \in Follower |-> Closed]
  /\ network = [f \in Follower |-> <<>>]
  /\ follower = [f \in Follower |-> [pc |-> "connect", page |-> NoPage, next_seq_no |-> 1]]
  /\ mirror = [f \in Follower |-> Put(NoPages, 0, <<>>)]
  /\ reused = FALSE /\ removed = {} /\ breaks = 0 /\ crashes = 0 /\ restarts = 0 /\ cleans = 0

-----------------------------------------------------------------------------
\* wal::Writer::Write by one writer at a time (module WalWriter).
LeaderWrite ==
  /\ next_event <= MaxEvents
  /\ LET full == Len(logged[current_segment]) = PageEvents
         no == IF full THEN current_segment + 1 ELSE current_segment
         append(files, event) ==          \* no effect on a file that was removed
           [n \in DOMAIN files |->
              IF n = current_segment THEN Append(files[n], event) ELSE files[n]]
         written(files) ==
           IF full THEN Put(append(files, Padding), no, <<next_event>>)
           ELSE append(files, next_event)
     IN /\ segments' = written(segments)
        /\ logged' = written(logged)
        /\ current_segment' = no
  /\ next_event' = next_event + 1
  /\ UNCHANGED <<cleaner, registryVars, stream, network, followerVars, reused, removed,
                 faultVars, restarts, cleans>>

\* The leader's process is restarted: Writer::Init opens the segment after the last one
\* in the directory, and nobody is registered.
LeaderRestart ==
  /\ restarts < MaxRestarts
  /\ restarts' = restarts + 1
  /\ LET no == Max(DOMAIN segments \cup {-1}) + 1
     IN /\ segments' = Put(segments, no, <<>>)
        /\ logged' = Put(logged, no, <<>>)
        /\ reused' = (reused \/ no \in DOMAIN logged)
        /\ current_segment' = no
  /\ cleaner' = IdleCleaner
  /\ removed' = {}
  /\ registry' = [token \in {} |-> 0] /\ next_token' = 0
  /\ stream' = [f \in Follower |-> Closed]
  /\ network' = [f \in Follower |-> <<>>]
  /\ UNCHANGED <<next_event, followerVars, faultVars, cleans>>

\* Mutant of Register: the first segment of a stream is not retained for it.
RegisterNext(from) == Put(registry, next_token, from + 1)

\* FollowerRegistry: what Register, Update and Unregister make of positions_.
Register(from) == Put(registry, next_token, from)
Update(token, no) == [registry EXCEPT ![token] = no]
Unregister(token) == [t \in DOMAIN registry \ {token} |-> registry[t]]

\* FollowerRegistry::MinRetainedSegment, as a set of at most one number: without a
\* stream nothing is retained.
MinRetainedSegment ==
  {no \in Range(registry) : \A other \in Range(registry) : no <= other}

\* WalCleaner::Step asks the registry, ...
CleanStart ==
  /\ cleaner.pc = "idle" /\ cleans < MaxCleans
  /\ cleans' = cleans + 1
  /\ cleaner' = [cleaner EXCEPT !.pc = "read", !.retain = MinRetainedSegment,
                                !.known = DOMAIN registry]
  /\ UNCHANGED <<logVars, registryVars, stream, network, followerVars, removed, faultVars,
                 restarts>>

\* Mutant of IsObsolete: the segments a stream needs are not kept.
IsObsoleteUnretained(no, persistent) ==
  segments[no] # <<>> /\ \A i \in DOMAIN segments[no] : segments[no][i] < persistent

\* All the events of the segment are in SSTables and no stream needs it.
IsObsolete(no, persistent) ==
  /\ segments[no] # <<>> /\ \A i \in DOMAIN segments[no] : segments[no][i] < persistent
  /\ \A retain \in cleaner.retain : no < retain

\* ... reads the segments, the events before some number having been flushed, ...
CleanRead ==
  /\ cleaner.pc = "read"
  /\ \E persistent \in 1..next_event :
       cleaner' = [cleaner EXCEPT !.pc = "remove",
                     !.obsolete = {no \in DOMAIN segments : IsObsolete(no, persistent)}]
  /\ UNCHANGED <<logVars, registryVars, stream, network, followerVars, removed, faultVars,
                 restarts, cleans>>

\* ... and removes those that are obsolete.
CleanRemove ==
  /\ cleaner.pc = "remove"
  /\ \/ /\ cleaner.obsolete = {}
        /\ cleaner' = IdleCleaner /\ UNCHANGED <<segments, removed>>
     \/ \E no \in cleaner.obsolete :
        /\ segments' = [n \in DOMAIN segments \ {no} |-> segments[n]]
        /\ cleaner' = [cleaner EXCEPT !.obsolete = @ \ {no}]
        /\ removed' = removed \cup {[no |-> no, known |-> cleaner.known]}
  /\ UNCHANGED <<current_segment, next_event, registryVars, stream, network, followerVars,
                 logged, reused, faultVars, restarts, cleans>>

-----------------------------------------------------------------------------
\* CollectPagesFrom(next_pos_): a position has page 1 once the segment's page was sent.
CollectPagesFrom(segment, page) ==
  [no \in {n \in DOMAIN segments :
             segments[n] # <<>> /\ (n > segment \/ (n = segment /\ page = 0))}
     |-> segments[no]]

\* The pages are visited in the order of their numbers.
IsFirst(no, pages) == no \in DOMAIN pages /\ \A n \in DOMAIN pages : no <= n

IsAlreadySentTail(s, no, data) ==
  no = s.next_segment /\ s.next_page = 0 /\ Len(data) = s.tail_sent_size

\* Pump polls, unless what it finds first is the tail it has sent.
PumpPoll(f) ==
  /\ stream[f].open /\ ~stream[f].write_pending /\ stream[f].pages = NoPages
  /\ LET pages == CollectPagesFrom(stream[f].next_segment, stream[f].next_page)
     IN /\ \E no \in DOMAIN pages :
             /\ IsFirst(no, pages)
             /\ IsComplete(pages[no]) \/ ~IsAlreadySentTail(stream[f], no, pages[no])
        /\ stream' = [stream EXCEPT ![f].pages = pages]
  /\ UNCHANGED <<leaderVars, registryVars, network, followerVars, faultVars>>

\* StartWrite of the next page.
PumpWrite(f) ==
  /\ stream[f].open /\ ~stream[f].write_pending
  /\ \E no \in DOMAIN stream[f].pages :
       /\ IsFirst(no, stream[f].pages)
       /\ network' = [network EXCEPT ![f] =
                        Append(@, [segment |-> no, data |-> stream[f].pages[no]])]
  /\ stream' = [stream EXCEPT ![f].write_pending = TRUE]
  /\ UNCHANGED <<leaderVars, registryVars, followerVars, faultVars>>

\* Past a complete page, or again at the tail that still grows.
Sent(s, no) ==
  IF IsComplete(s.pages[no])
  THEN [s EXCEPT !.write_pending = FALSE, !.next_segment = no, !.next_page = 1,
          !.tail_sent_size = -1, !.pages = [n \in DOMAIN @ \ {no} |-> @[n]]]
  ELSE [s EXCEPT !.write_pending = FALSE, !.next_segment = no, !.next_page = 0,
          !.tail_sent_size = Len(s.pages[no]), !.pages = NoPages]

\* OnWriteDone: a complete page is reported to the registry.
PumpWriteDone(f) ==
  /\ stream[f].open /\ stream[f].write_pending
  /\ \E no \in DOMAIN stream[f].pages :
       /\ IsFirst(no, stream[f].pages)
       /\ stream' = [stream EXCEPT ![f] = Sent(@, no)]
       /\ registry' = IF IsComplete(stream[f].pages[no])
                      THEN Update(stream[f].token, no) ELSE registry
  /\ UNCHANGED <<leaderVars, next_token, network, followerVars, faultVars>>

\* The stream breaks: OnCancel.  The reactor stays registered until Pump notices.
StreamBreaks(f) ==
  /\ stream[f].open /\ breaks < MaxBreaks
  /\ breaks' = breaks + 1
  /\ stream' = [stream EXCEPT ![f] = Closed]
  /\ network' = [network EXCEPT ![f] = <<>>]
  /\ UNCHANGED <<leaderVars, registryVars, followerVars, crashes>>

\* Pump has ended with Finish: OnDone unregisters the cancelled reactor.
OnDone(token) ==
  /\ \A f \in Follower : ~(stream[f].open /\ stream[f].token = token)
  /\ registry' = Unregister(token)
  /\ UNCHANGED <<leaderVars, next_token, stream, network, followerVars, faultVars>>

-----------------------------------------------------------------------------
\* Mutant of Replay: an event is applied whatever its number.
ReplayAll(events, next) == next + Len(events)

\* Lsm::Put(seq_no, ...) for each event: only the next number is applied.
Replay(events, next) ==
  LET after[i \in 0..Len(events)] ==
        IF i = 0 THEN next
        ELSE LET n == after[i - 1] IN IF events[i] = n THEN n + 1 ELSE n
  IN after[Len(events)]

\* wal::Recover over the mirrored segments, in the order of their numbers.
Recovered(files) ==
  LET after[no \in 0..(Max(DOMAIN files) + 1)] ==
        IF no = 0 THEN 1
        ELSE IF no - 1 \in DOMAIN files THEN Replay(files[no - 1], after[no - 1])
        ELSE after[no - 1]
  IN after[Max(DOMAIN files) + 1]

\* Mutant of NextSegmentToFetch: a segment that is not complete is not asked for again.
NextSegmentToFetchMissing(files) ==
  Min({no \in 0..(Max(DOMAIN files \cup {0}) + 1) : no \notin DOMAIN files})

\* wal::NextSegmentToFetch: the first one that is missing or not complete.
NextSegmentToFetch(files) ==
  Min({no \in 0..(Max(DOMAIN files \cup {0}) + 1) :
         no \notin DOMAIN files \/ ~IsComplete(files[no])})

\* The follower asks for the stream; the leader registers it.
FollowerConnect(f) ==
  /\ follower[f].pc = "connect"
  /\ LET from == NextSegmentToFetch(mirror[f])
     IN /\ stream' = [stream EXCEPT ![f] = [Closed EXCEPT !.open = TRUE, !.token = next_token,
                                              !.from = from, !.next_segment = from]]
        /\ registry' = Register(from)
  /\ next_token' = next_token + 1
  /\ follower' = [follower EXCEPT ![f].pc = "reading"]
  /\ UNCHANGED <<leaderVars, network, mirror, faultVars>>

\* reader->Read fails: back to the connection.
FollowerStreamEnd(f) ==
  /\ follower[f].pc = "reading" /\ ~stream[f].open
  /\ follower' = [follower EXCEPT ![f].pc = "connect"]
  /\ UNCHANGED <<leaderVars, registryVars, stream, network, mirror, faultVars>>

\* Mutant of FollowerReceive: the page is applied and not written.
FollowerReceiveUnwritten(f) ==
  /\ follower[f].pc = "reading" /\ network[f] # <<>>
  /\ follower' = [follower EXCEPT ![f].pc = "apply", ![f].page = Head(network[f])]
  /\ network' = [network EXCEPT ![f] = Tail(@)]
  /\ mirror' = [mirror EXCEPT ![f] = Put(@, Head(network[f]).segment, <<>>)]
  /\ UNCHANGED <<leaderVars, registryVars, stream, faultVars>>

\* ProcessPage: WriteReceivedPage unlinks the segment's file and creates it anew ...
FollowerReceive(f) ==
  /\ follower[f].pc = "reading" /\ network[f] # <<>>
  /\ follower' = [follower EXCEPT ![f].pc = "mirror", ![f].page = Head(network[f])]
  /\ network' = [network EXCEPT ![f] = Tail(@)]
  /\ mirror' = [mirror EXCEPT ![f] = Put(@, Head(network[f]).segment, <<>>)]
  /\ UNCHANGED <<leaderVars, registryVars, stream, faultVars>>

\* Mutant of FollowerMirror: the page is appended to what was received before.
FollowerMirrorAppends(f) ==
  /\ follower[f].pc = "mirror"
  /\ mirror' = [mirror EXCEPT ![f][follower[f].page.segment] = @ \o Tail(follower[f].page.data)]
  /\ follower' = [follower EXCEPT ![f].pc = "apply"]
  /\ UNCHANGED <<leaderVars, registryVars, stream, network, faultVars>>

\* ... writes the page ...
FollowerMirror(f) ==
  /\ follower[f].pc = "mirror"
  /\ mirror' = [mirror EXCEPT ![f][follower[f].page.segment] = follower[f].page.data]
  /\ follower' = [follower EXCEPT ![f].pc = "apply"]
  /\ UNCHANGED <<leaderVars, registryVars, stream, network, faultVars>>

\* ... and the events are applied.
FollowerApply(f) ==
  /\ follower[f].pc = "apply"
  /\ follower' = [follower EXCEPT ![f].pc = "reading", ![f].page = NoPage,
                    ![f].next_seq_no = Replay(follower[f].page.data, @)]
  /\ UNCHANGED <<leaderVars, registryVars, stream, network, mirror, faultVars>>

\* The follower's process dies and is started again: it recovers from its mirror and its
\* own WAL writer creates the segment after the last one.
FollowerCrash(f) ==
  /\ crashes < MaxCrashes
  /\ crashes' = crashes + 1
  /\ follower' = [follower EXCEPT ![f].pc = "connect", ![f].page = NoPage,
                                  ![f].next_seq_no = Recovered(mirror[f])]
  /\ mirror' = [mirror EXCEPT ![f] = Put(@, Max(DOMAIN @) + 1, <<>>)]
  /\ stream' = [stream EXCEPT ![f] = Closed]
  /\ network' = [network EXCEPT ![f] = <<>>]
  /\ UNCHANGED <<leaderVars, registryVars, breaks>>

-----------------------------------------------------------------------------
PumpStep(f) == PumpPoll(f) \/ PumpWrite(f) \/ PumpWriteDone(f)

FollowerStep(f) ==
  \/ FollowerConnect(f) \/ FollowerStreamEnd(f)
  \/ FollowerReceive(f) \/ FollowerMirror(f) \/ FollowerApply(f)

ReplNext ==
  \/ LeaderWrite \/ LeaderRestart \/ CleanStart \/ CleanRead \/ CleanRemove
  \/ \E f \in Follower : PumpStep(f) \/ StreamBreaks(f) \/ FollowerStep(f) \/ FollowerCrash(f)
  \/ \E token \in DOMAIN registry : OnDone(token)

\* The pump polls on a timer, gRPC completes its writes, and the follower's thread
\* reads and reconnects for ever.
ReplSpec ==
  /\ ReplInit /\ [][ReplNext]_replVars
  /\ \A f \in Follower : WF_replVars(PumpStep(f)) /\ WF_replVars(FollowerStep(f))

-----------------------------------------------------------------------------
\* Types of the leader, the streams and the followers.
ReplTypeOK ==
  /\ DOMAIN segments \subseteq DOMAIN logged
  /\ current_segment \in DOMAIN logged
  /\ \A no \in DOMAIN logged : Len(logged[no]) <= PageEvents + 1
  /\ \A f \in Follower :
       /\ stream[f].open => stream[f].token \in DOMAIN registry
       /\ stream[f].next_page \in {0, 1} /\ stream[f].tail_sent_size \in -1..PageEvents
       /\ follower[f].pc \in {"connect", "reading", "mirror", "apply"}
       /\ follower[f].next_seq_no \in 1..next_event

\* replication.md:29, the follower "mirrors them into its own wal/ directory": through
\* growing tails sent again, broken streams and crashes, a mirrored segment is the
\* beginning of the leader's segment of that number, unless the leader gave a number
\* twice.
MirrorIsPrefix ==
  ~reused => \A f \in Follower : \A no \in DOMAIN mirror[f] :
    mirror[f][no] # <<>> => no \in DOMAIN logged /\ IsPrefix(mirror[f][no], logged[no])

\* follower.cpp:28-29, "a crash replays the page through normal recovery": what a
\* follower has applied comes back from its mirror, except while a page that was
\* received before is being replaced.
AppliedRecoverable ==
  \A f \in Follower :
    ~reused /\ follower[f].pc # "mirror" => Recovered(mirror[f]) >= follower[f].next_seq_no

\* The page has arrived at the follower, or is on its way.
Copied(f, no, data) ==
  \/ no \in DOMAIN mirror[f] /\ mirror[f][no] = data
  \/ follower[f].pc = "mirror" /\ follower[f].page = [segment |-> no, data |-> data]
  \/ \E i \in DOMAIN network[f] : network[f][i] = [segment |-> no, data |-> data]

\* follower_registry.hpp:15-16, "a segment may only be cleaned once every connected follower
\* has been streamed past it": a stream misses no segment that was removed by a cleaner
\* which knew of the stream, however the streams, the writer and the cleaner's pass
\* interleave.
CleanedWasStreamed ==
  ~reused => \A f \in Follower : \A r \in removed :
    stream[f].open /\ stream[f].token \in r.known /\ r.no >= stream[f].from =>
      Copied(f, r.no, logged[r.no])

Cleaned == reused \/ DOMAIN segments # DOMAIN logged

\* replication.md:34-35, a follower "catches up on anything written while it was offline",
\* as long as the leader was not restarted and removed nothing: at every moment, every
\* follower has yet to come to have applied all that is logged by then.  (The writes of a
\* behaviour are finitely many, so this is what each of them leads to.)
ShippedWithoutRestart ==
  \A f \in Follower :
    []<>(follower[f].next_seq_no = next_event \/ restarts > 0 \/ Cleaned)

\* replication.md:34-35, as it is said: only what was cleaned may be missing.
CatchesUp ==
  \A f \in Follower : []<>(follower[f].next_seq_no = next_event \/ Cleaned)

-----------------------------------------------------------------------------
\* A page that was read from the segment at some time.
IsCopy(log, no, data) ==
  data \in Seq(Nat) /\ (data # <<>> => no \in DOMAIN log /\ IsPrefix(data, log[no]))

\* The leader's log: numbered without gaps, only complete pages end with padding, and
\* only the last segment may still grow.
LogInv ==
  /\ current_segment \in Nat /\ next_event \in Nat \ {0}
  /\ DOMAIN logged = 0..current_segment /\ DOMAIN segments \subseteq DOMAIN logged
  /\ \A no \in DOMAIN segments : segments[no] = logged[no]
  /\ \A no \in DOMAIN logged :
       /\ logged[no] \in Seq(Nat)
       /\ \A i \in 1..Len(logged[no]) :
            logged[no][i] = Padding => i = Len(logged[no]) /\ no # current_segment

\* Wherever a page is between the pump of the leader and the mirror of the follower, it
\* is a copy of the leader's.
CopiesInv(f) ==
  /\ DOMAIN mirror[f] \subseteq Nat
  /\ \E last \in DOMAIN mirror[f] : \A no \in DOMAIN mirror[f] : no <= last
  /\ \A no \in DOMAIN mirror[f] : IsCopy(logged, no, mirror[f][no])
  /\ network[f] \in Seq([segment : Nat, data : Seq(Nat)])
  /\ \A i \in DOMAIN network[f] : IsCopy(logged, network[f][i].segment, network[f][i].data)
  /\ follower[f].page \in [segment : Nat, data : Seq(Nat)]
  /\ IsCopy(logged, follower[f].page.segment, follower[f].page.data)
  /\ follower[f].pc = "mirror" => follower[f].page.segment \in DOMAIN mirror[f]
  /\ \A no \in DOMAIN stream[f].pages :
       IsCopy(logged, no, stream[f].pages[no]) /\ stream[f].pages[no] # <<>>

\* The state of every follower and of its stream is there.
Shape ==
  /\ DOMAIN stream = Follower /\ DOMAIN network = Follower
  /\ DOMAIN follower = Follower /\ DOMAIN mirror = Follower
  /\ \A f \in Follower :
       DOMAIN stream[f] = DOMAIN Closed /\ DOMAIN follower[f] = {"pc", "page", "next_seq_no"}

\* What makes MirrorIsPrefix inductive.
ReplicaInv == Shape /\ (~reused => LogInv /\ \A f \in Follower : CopiesInv(f))

\* Copies of a growing segment arrive in the order of their lengths.
OrderInv(f) ==
  /\ \A i, j \in DOMAIN network[f] :
       i < j /\ network[f][i].segment = network[f][j].segment =>
         Len(network[f][i].data) <= Len(network[f][j].data)
  /\ \A i \in DOMAIN network[f] : network[f][i].segment \in DOMAIN mirror[f] =>
       Len(mirror[f][network[f][i].segment]) <= Len(network[f][i].data)
  /\ follower[f].pc = "mirror" => \A i \in DOMAIN network[f] :
       network[f][i].segment = follower[f].page.segment =>
         Len(follower[f].page.data) <= Len(network[f][i].data)
  /\ follower[f].pc = "mirror" => mirror[f][follower[f].page.segment] = <<>>
  /\ \A no \in DOMAIN stream[f].pages :
       /\ no \in DOMAIN mirror[f] => Len(mirror[f][no]) <= Len(stream[f].pages[no])
       /\ follower[f].pc = "mirror" /\ follower[f].page.segment = no =>
            Len(follower[f].page.data) <= Len(stream[f].pages[no])
       /\ \A i \in DOMAIN network[f] : network[f][i].segment = no =>
            Len(network[f][i].data) <= Len(stream[f].pages[no])

\* The stream's position is behind the segment's page.
Passed(s, no) == no < s.next_segment \/ (no = s.next_segment /\ s.next_page = 1)

\* The stream must not miss the segment: it is there, or was removed by a cleaner that
\* knew of the stream.
Due(s, no) ==
  /\ no \in DOMAIN logged /\ logged[no] # <<>>
  /\ no \in DOMAIN segments \/ \E r \in removed : r.no = no /\ s.token \in r.known

\* What a stream has sent and what it is about to send.
StreamInv(f, s) == s.open =>
  /\ s.from \in Nat /\ s.next_segment \in Nat /\ s.next_page \in {0, 1}
  /\ s.from <= s.next_segment
  /\ (s.next_segment = s.from /\ s.next_page = 0) \/ s.next_segment \in DOMAIN logged
  /\ s.next_page = 1 => s.next_segment # current_segment
  /\ \A no \in DOMAIN s.pages : ~Passed(s, no)
  /\ \A no \in DOMAIN s.pages, n \in DOMAIN logged :
       Due(s, n) /\ ~Passed(s, n) /\ n < no => n \in DOMAIN s.pages
  /\ s.write_pending => \A no \in DOMAIN s.pages :
       IsFirst(no, s.pages) => Copied(f, no, s.pages[no])
  /\ \A n \in DOMAIN logged : Due(s, n) /\ Passed(s, n) /\ s.from <= n =>
       Copied(f, n, logged[n])

\* The registry never runs ahead of a stream, and a cleaner that knew of the stream
\* stays behind the registry.
RegistryInv(s) == s.open =>
  /\ s.token \in DOMAIN registry /\ registry[s.token] <= s.next_segment
  /\ s.token \in cleaner.known =>
       cleaner.retain # {} /\ \A retain \in cleaner.retain : retain <= registry[s.token]
  /\ \A r \in removed : s.token \in r.known => r.no < registry[s.token]

\* Tokens are handed out once, and what is removed was read and not retained.
CleanerInv ==
  /\ DOMAIN cleaner = DOMAIN IdleCleaner
  /\ next_token \in Nat
  /\ \A token \in DOMAIN registry :
       token \in Nat /\ token < next_token /\ registry[token] \in Nat
  /\ \A token \in cleaner.known : token \in Nat /\ token < next_token
  /\ \A r \in removed : \A token \in r.known : token \in Nat /\ token < next_token
  /\ cleaner.retain \subseteq Nat
  /\ cleaner.pc # "remove" => cleaner.obsolete = {}
  /\ \A no \in cleaner.obsolete :
       /\ no \in DOMAIN segments /\ segments[no] # <<>>
       /\ \A retain \in cleaner.retain : no < retain
  /\ \A r \in removed : r.no \in DOMAIN logged /\ logged[r.no] # <<>>
  /\ \A f, g \in Follower :
       f # g /\ stream[f].open /\ stream[g].open => stream[f].token # stream[g].token

\* What makes CleanedWasStreamed inductive.
CleaningInv ==
  ~reused => /\ CleanerInv
             /\ \A f \in Follower :
                  OrderInv(f) /\ StreamInv(f, stream[f]) /\ RegistryInv(stream[f])

-----------------------------------------------------------------------------
\* A page as it is at some time: padding makes it longer than its events.
IsPage(data, limit) ==
  /\ data \in Seq(Nat) /\ \A i \in 1..Len(data) : data[i] < limit
  /\ Len(data) <= PageEvents + 1 /\ (Len(data) = PageEvents + 1 => Last(data) = Padding)

\* A directory of pages.
ArePages(files, limit) ==
  /\ DOMAIN files \subseteq Nat
  /\ \E last \in DOMAIN files : \A no \in DOMAIN files : no <= last
  /\ \A no \in DOMAIN files : IsPage(files[no], limit)

\* The leader's directories hold pages, and what is logged is what was written.
PagesInv ==
  /\ next_event \in Nat \ {0}
  /\ ArePages(logged, next_event) /\ current_segment \in DOMAIN logged
  /\ DOMAIN segments \subseteq DOMAIN logged
  /\ \A no \in DOMAIN segments : segments[no] = logged[no]
  /\ Len(logged[current_segment]) <= PageEvents

\* Every copy of a page is a page, and a follower has applied only what was logged.
FollowerPagesInv(f) ==
  /\ DOMAIN stream[f].pages \subseteq Nat
  /\ \A no \in DOMAIN stream[f].pages : IsPage(stream[f].pages[no], next_event)
  /\ stream[f].next_page \in {0, 1} /\ stream[f].tail_sent_size \in -1..PageEvents
  /\ stream[f].open => stream[f].token \in DOMAIN registry
  /\ network[f] \in Seq([segment : Nat, data : Seq(Nat)])
  /\ \A i \in DOMAIN network[f] : IsPage(network[f][i].data, next_event)
  /\ ArePages(mirror[f], next_event)
  /\ follower[f].pc \in {"connect", "reading", "mirror", "apply"}
  /\ follower[f].page \in [segment : Nat, data : Seq(Nat)]
  /\ IsPage(follower[f].page.data, next_event)
  /\ follower[f].pc = "mirror" => follower[f].page.segment \in DOMAIN mirror[f]
  /\ follower[f].next_seq_no \in 1..next_event

\* What makes ReplTypeOK inductive.
TypesInv == Shape /\ PagesInv /\ \A f \in Follower : FollowerPagesInv(f)

\* The events of a directory are in the order of their numbers.
InOrder(files) ==
  \A no, n \in DOMAIN files : \A i \in 1..Len(files[no]), j \in 1..Len(files[n]) :
    /\ no < n \/ (no = n /\ i < j)
    /\ files[no][i] # Padding /\ files[n][j] # Padding
    => files[no][i] < files[n][j]

\* The mirror once the page that is being written is there.
Mirrored(f) ==
  IF follower[f].pc = "mirror"
  THEN Put(mirror[f], follower[f].page.segment, follower[f].page.data) ELSE mirror[f]

Holds(files, event) ==
  \E no \in DOMAIN files : \E i \in 1..Len(files[no]) : files[no][i] = event

\* A follower holds every event that it has applied.
HeldInv(f) ==
  /\ follower[f].pc = "apply" =>
       /\ follower[f].page.segment \in DOMAIN mirror[f]
       /\ mirror[f][follower[f].page.segment] = follower[f].page.data
  /\ \A event \in 1..(follower[f].next_seq_no - 1) : Holds(Mirrored(f), event)

\* What makes AppliedRecoverable inductive.
AppliedInv == ~reused => InOrder(logged) /\ \A f \in Follower : HeldInv(f)
=============================================================================
