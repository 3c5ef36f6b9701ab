-------------------------- MODULE ReplicationSteps --------------------------
(***************************************************************************)
(* What the steps of Replication do, for any number of followers, any      *)
(* events and any page size: which steps change which part of the state,   *)
(* and that ReplicaInv (what is a copy of the leader's log) and TypesInv   *)
(* are inductive; and which events wal::Recover finds in a directory of    *)
(* segments.  ReplicationProofs builds on it.                              *)
(***************************************************************************)
EXTENDS Replication, Laws, TLAPS

-----------------------------------------------------------------------------
\* Prefixes of a segment that grows at its end.
LEMMA PrefixFacts ==
  ASSUME NEW s \in Seq(Nat), NEW t \in Seq(Nat)
  PROVE  /\ IsPrefix(s, s)
         /\ IsPrefix(s, t) => Len(s) <= Len(t)
         /\ IsPrefix(s, t) /\ Len(s) = Len(t) => s = t
         /\ IsPrefix(s, t) => \A x \in Nat : IsPrefix(s, Append(t, x))
         /\ IsPrefix(s, t) /\ s # <<>> => Last(s) = t[Len(s)] /\ Len(s) \in 1..Len(t)
<1>1. IsPrefix(s, s) /\ (IsPrefix(s, t) => Len(s) <= Len(t))
  BY DEF IsPrefix
<1>2. ASSUME IsPrefix(s, t), Len(s) = Len(t) PROVE s = t
  <2>1. SubSeq(s, 1, Len(s)) = s /\ SubSeq(t, 1, Len(t)) = t
    OBVIOUS
  <2> QED BY <1>2, <2>1 DEF IsPrefix
<1>3. IsPrefix(s, t) => \A x \in Nat : IsPrefix(s, Append(t, x))
  BY DEF IsPrefix
<1>4. IsPrefix(s, t) /\ s # <<>> => Last(s) = t[Len(s)] /\ Len(s) \in 1..Len(t)
  BY DEF IsPrefix, Last
<1> QED BY <1>1, <1>2, <1>3, <1>4

\* The next number after the largest of a directory.
LEMMA MaxOfDirectory ==
  ASSUME Laws, NEW S \in SUBSET Nat, NEW b \in Nat, \A n \in S : n <= b
  PROVE  Max(S \cup {-1}) \in S \cup {-1}
<1> DEFINE T == {n + 1 : n \in S \cup {-1}}
<1>1. T \in SUBSET Nat /\ T # {}
  <2>1. \A n \in S \cup {-1} : n + 1 \in Nat
    OBVIOUS
  <2> QED BY <2>1, Zenon
<1>2. b + 1 \in Nat /\ \A t \in T : t <= b + 1
  OBVIOUS
<1>3. PICK m \in T : \A t \in T : t <= m
  <2> HIDE DEF T
  <2> QED BY <1>1, <1>2, Zenon DEF Laws, MaxLaw
<1>4. PICK x \in S \cup {-1} : m = x + 1
  OBVIOUS
<1>5. \A y \in S \cup {-1} : x >= y
  <2>1. \A y \in S \cup {-1} : y + 1 <= m
    BY <1>3
  <2> QED BY <1>4, <2>1
<1> QED BY <1>5 DEF Max

-----------------------------------------------------------------------------
\* The segments only grow at their end.
Grows ==
  \A no \in DOMAIN logged :
    /\ no \in DOMAIN logged'
    /\ logged'[no] = logged[no] \/
         (no = current_segment /\ \E x \in Nat : logged'[no] = Append(logged[no], x))

\* A copy of a segment's page remains one while the segment grows.
LEMMA CopyStays ==
  ASSUME LogInv, Grows, NEW no, NEW data, IsCopy(logged, no, data) PROVE IsCopy(logged', no, data)
<1>1. CASE data = <<>>
  BY <1>1 DEF IsCopy
<1>2. CASE data # <<>>
  <2>1. no \in DOMAIN logged /\ logged[no] \in Seq(Nat) /\ data \in Seq(Nat)
        /\ IsPrefix(data, logged[no])
    BY <1>2 DEF IsCopy, LogInv
  <2>2. no \in DOMAIN logged' /\ IsPrefix(data, logged'[no])
    <3>1. CASE logged'[no] = logged[no]
      BY <2>1, <3>1 DEF Grows
    <3>2. ASSUME NEW x \in Nat, logged'[no] = Append(logged[no], x)
          PROVE  IsPrefix(data, logged'[no])
      <4>1. IsPrefix(data, Append(logged[no], x))
        BY <2>1, PrefixFacts
      <4> QED BY <3>2, <4>1
    <3> QED BY <2>1, <3>1, <3>2 DEF Grows
  <2> QED BY <2>1, <2>2 DEF IsCopy
<1> QED BY <1>1, <1>2

\* Only the leader's writer, its restart and its cleaner touch its log.
LEMMA LogLeftAlone ==
  ASSUME [ReplNext]_replVars
  PROVE  LeaderWrite \/ LeaderRestart \/ CleanRemove \/ UNCHANGED logVars
<1>1. CASE UNCHANGED replVars
  BY <1>1, Zenon DEF replVars, logVars
<1>2. CASE CleanStart \/ CleanRead
  BY <1>2, Zenon DEF CleanStart, CleanRead
<1>3. ASSUME NEW f \in Follower, PumpStep(f) \/ StreamBreaks(f) PROVE UNCHANGED logVars
  BY <1>3, Zenon DEF PumpStep, PumpPoll, PumpWrite, PumpWriteDone, StreamBreaks, leaderVars
<1>4. ASSUME NEW f \in Follower, FollowerStep(f) \/ FollowerCrash(f) PROVE UNCHANGED logVars
  BY <1>4, Zenon DEF FollowerStep, FollowerConnect, FollowerStreamEnd, FollowerReceive,
     FollowerMirror, FollowerApply, FollowerCrash, leaderVars
<1>5. ASSUME NEW token \in DOMAIN registry, OnDone(token) PROVE UNCHANGED logVars
  BY <1>5, Zenon DEF OnDone, leaderVars
<1> QED BY <1>1, <1>2, <1>3, <1>4, <1>5, Zenon DEF ReplNext

\* Every step keeps the shape of the leader's log, unless a restart reuses a number.
LEMMA LogStep ==
  ASSUME Laws, ReplicaInv, [ReplNext]_replVars, ~reused'
  PROVE  ~reused /\ LogInv' /\ Grows
<1>0. ~reused
  <2>1. CASE LeaderWrite
    BY <2>1, Zenon DEF LeaderWrite
  <2>2. CASE LeaderRestart
    BY <2>2, Zenon DEF LeaderRestart
  <2>3. CASE CleanRemove
    BY <2>3, Zenon DEF CleanRemove
  <2>4. CASE UNCHANGED logVars
    BY <2>4, Zenon DEF logVars
  <2> QED BY <2>1, <2>2, <2>3, <2>4, LogLeftAlone, Zenon
<1>1. LogInv
  BY <1>0 DEF ReplicaInv
<1>u. CASE UNCHANGED <<logged, current_segment, next_event>> /\ UNCHANGED segments
  BY <1>0, <1>1, <1>u DEF LogInv, Grows
<1>2. CASE LeaderWrite
  <2> DEFINE full == Len(logged[current_segment]) = PageEvents
             no == IF full THEN current_segment + 1 ELSE current_segment
             x == IF full THEN Padding ELSE next_event
             grown(files) == [n \in DOMAIN files |->
               IF n = current_segment THEN Append(files[n], x) ELSE files[n]]
  <2>0. current_segment \in DOMAIN logged /\ x \in Nat /\ no \in Nat
    BY <1>1 DEF LogInv, Padding
  <2>1. ASSUME NEW n \in DOMAIN logged
        PROVE  grown(logged)[n] \in Seq(Nat)
    BY <1>1, <2>0 DEF LogInv
  <2>2. CASE ~full
    <3>1. /\ segments' = grown(segments) /\ logged' = grown(logged)
          /\ current_segment' = current_segment /\ next_event' = next_event + 1
      BY <1>2, <2>2 DEF LeaderWrite
    <3>2. DOMAIN logged' = 0..current_segment' /\ DOMAIN segments' \subseteq DOMAIN logged'
      BY <1>1, <3>1 DEF LogInv
    <3>3. \A n \in DOMAIN segments' : segments'[n] = logged'[n]
      BY <1>1, <3>1 DEF LogInv
    <3>4. ASSUME NEW n \in DOMAIN logged', NEW i \in 1..Len(logged'[n]), logged'[n][i] = Padding
          PROVE  i = Len(logged'[n]) /\ n # current_segment'
      <4>1. n \in DOMAIN logged /\ logged[n] \in Seq(Nat)
        BY <1>1, <3>1 DEF LogInv
      <4>2. CASE n = current_segment
        <5>1. logged'[n] = Append(logged[n], next_event) /\ next_event # Padding
          BY <1>1, <2>2, <3>1, <4>1, <4>2 DEF LogInv, Padding
        <5>2. CASE i <= Len(logged[n])
          <6>1. logged[n][i] = Padding
            BY <3>4, <4>1, <5>1, <5>2
          <6> QED BY <1>1, <4>1, <4>2, <5>2, <6>1 DEF LogInv
        <5>3. CASE i > Len(logged[n])
          <6>1. logged'[n][i] = next_event
            BY <1>1, <3>4, <4>1, <5>1, <5>3 DEF LogInv
          <6> QED BY <3>4, <5>1, <6>1
        <5> QED BY <4>1, <5>2, <5>3
      <4>3. CASE n # current_segment
        <5>1. logged'[n] = logged[n]
          BY <3>1, <4>1, <4>3
        <5> QED BY <1>1, <3>1, <3>4, <4>1, <4>3, <5>1 DEF LogInv
      <4> QED BY <4>2, <4>3
    <3>5. Grows
      BY <2>0, <3>1 DEF Grows
    <3>6. next_event' \in Nat \ {0} /\ \A n \in DOMAIN logged' : logged'[n] \in Seq(Nat)
      BY <1>1, <2>1, <3>1 DEF LogInv
    <3>7. current_segment' \in Nat
      BY <1>1, <3>1 DEF LogInv
    <3> QED BY <1>0, <3>2, <3>3, <3>4, <3>5, <3>6, <3>7 DEF LogInv
  <2>3. CASE full
    <3>1. /\ segments' = Put(grown(segments), no, <<next_event>>)
          /\ logged' = Put(grown(logged), no, <<next_event>>)
          /\ current_segment' = no /\ next_event' = next_event + 1
      BY <1>2, <2>3 DEF LeaderWrite
    <3>2. no = current_segment + 1 /\ no \notin DOMAIN logged /\ no \notin DOMAIN segments
      BY <1>1, <2>3 DEF LogInv
    <3>3. DOMAIN logged' = DOMAIN logged \cup {no} /\ DOMAIN segments' = DOMAIN segments \cup {no}
      BY <3>1 DEF Put
    <3>4. /\ logged'[no] = <<next_event>> /\ segments'[no] = <<next_event>>
          /\ \A n \in DOMAIN logged : logged'[n] = grown(logged)[n]
          /\ \A n \in DOMAIN segments : segments'[n] = grown(segments)[n]
      BY <3>1, <3>2 DEF Put
    <3>5. DOMAIN logged' = 0..current_segment' /\ DOMAIN segments' \subseteq DOMAIN logged'
      <4>1. DOMAIN logged' = (0..current_segment) \cup {current_segment + 1}
        BY <1>1, <3>2, <3>3 DEF LogInv
      <4>2. current_segment \in Nat /\ current_segment' = current_segment + 1
        BY <1>1, <3>1, <3>2 DEF LogInv
      <4>3. (0..current_segment) \cup {current_segment + 1} = 0..(current_segment + 1)
        BY <4>2
      <4> QED BY <1>1, <3>3, <4>1, <4>2, <4>3, Zenon DEF LogInv
    <3>6. \A n \in DOMAIN segments' : segments'[n] = logged'[n]
      BY <1>1, <3>3, <3>4, Zenon DEF LogInv
    <3>7. ASSUME NEW n \in DOMAIN logged', NEW i \in 1..Len(logged'[n]), logged'[n][i] = Padding
          PROVE  i = Len(logged'[n]) /\ n # current_segment'
      <4>1. CASE n = no
        BY <1>1, <3>4, <3>7, <4>1 DEF LogInv, Padding
      <4>2. CASE n # no
        <5>1. n \in DOMAIN logged /\ logged[n] \in Seq(Nat) /\ logged'[n] = grown(logged)[n]
          BY <1>1, <3>3, <3>4, <4>2 DEF LogInv
        <5>2. CASE n = current_segment
          <6>1. logged'[n] = Append(logged[n], Padding)
            BY <2>3, <5>1, <5>2
          <6>2. CASE i <= Len(logged[n])
            <7>1. logged[n][i] = Padding
              BY <3>7, <5>1, <6>1, <6>2
            <7> QED BY <1>1, <5>1, <5>2, <6>2, <7>1, SMTT(30) DEF LogInv
          <6>3. CASE i > Len(logged[n])
            BY <3>1, <3>7, <4>2, <5>1, <6>1, <6>3
          <6> QED BY <5>1, <6>2, <6>3
        <5>3. CASE n # current_segment
          BY <1>1, <3>1, <3>7, <4>2, <5>1, <5>3 DEF LogInv
        <5> QED BY <5>2, <5>3
      <4> QED BY <4>1, <4>2
    <3>8. \A n \in DOMAIN logged' : logged'[n] \in Seq(Nat)
      <4>1. <<next_event>> \in Seq(Nat)
        BY <1>1 DEF LogInv
      <4> QED BY <2>1, <3>3, <3>4, <4>1, Zenon
    <3>9. Grows
      BY <2>0, <3>3, <3>4 DEF Grows
    <3> HIDE DEF no
    <3>10. next_event' \in Nat \ {0} /\ current_segment' \in Nat
      BY <1>1, <2>0, <3>1 DEF LogInv
    <3> QED BY <1>0, <3>5, <3>6, <3>7, <3>8, <3>9, <3>10 DEF LogInv
  <2> QED BY <2>2, <2>3
<1>3. CASE LeaderRestart
  <2> DEFINE no == Max(DOMAIN segments \cup {-1}) + 1
  <2>1. /\ segments' = Put(segments, no, <<>>) /\ logged' = Put(logged, no, <<>>)
        /\ current_segment' = no /\ next_event' = next_event
        /\ no \notin DOMAIN logged
    BY <1>3, <1>0, Zenon DEF LeaderRestart
  <2>2. no \in Int /\ no - 1 \in DOMAIN segments \cup {-1}
    <3>1. DOMAIN segments \in SUBSET Nat /\ \A n \in DOMAIN segments : n <= current_segment
      BY <1>1 DEF LogInv
    <3>2. Max(DOMAIN segments \cup {-1}) \in DOMAIN segments \cup {-1}
      BY <1>1, <3>1, MaxOfDirectory, Zenon DEF LogInv
    <3> QED BY <3>1, <3>2
  <2> HIDE DEF no
  <2>3. no = current_segment + 1
    <3>1. no \in Int /\ (no - 1 \in 0..current_segment \/ no - 1 = -1)
      BY <1>1, <2>2 DEF LogInv
    <3>2. no \notin 0..current_segment /\ current_segment \in Nat
      BY <1>1, <2>1 DEF LogInv
    <3> QED BY <3>1, <3>2
  <2>4. /\ DOMAIN logged' = DOMAIN logged \cup {no} /\ DOMAIN segments' = DOMAIN segments \cup {no}
        /\ logged'[no] = <<>> /\ segments'[no] = <<>>
        /\ \A n \in DOMAIN logged : n # no => logged'[n] = logged[n]
        /\ \A n \in DOMAIN segments : n # no => segments'[n] = segments[n]
    BY <2>1 DEF Put
  <2>5. <<>> \in Seq(Nat) /\ Len(<<>>) = 0
    OBVIOUS
  <2>6. Grows
    BY <2>1, <2>4 DEF Grows
  <2>7. DOMAIN logged' = 0..current_segment' /\ current_segment' \in Nat
    <3>1. DOMAIN logged' = (0..current_segment) \cup {current_segment + 1} /\ current_segment \in Nat
      BY <1>1, <2>3, <2>4 DEF LogInv
    <3>2. (0..current_segment) \cup {current_segment + 1} = 0..(current_segment + 1)
      BY <3>1
    <3>3. current_segment' = current_segment + 1
      BY <2>1, <2>3
    <3> QED BY <3>1, <3>2, <3>3
  <2>8. ASSUME NEW n \in DOMAIN logged'
        PROVE  /\ logged'[n] \in Seq(Nat)
               /\ \A i \in 1..Len(logged'[n]) :
                    logged'[n][i] = Padding => i = Len(logged'[n]) /\ n # current_segment'
    <3>1. CASE n = no
      BY <2>4, <2>5, <3>1
    <3>2. CASE n # no
      <4>1. n \in DOMAIN logged /\ logged'[n] = logged[n] /\ current_segment' = no
        BY <2>1, <2>4, <3>2
      <4> QED BY <1>1, <3>2, <4>1 DEF LogInv
    <3> QED BY <3>1, <3>2
  <2>9. /\ DOMAIN segments' \subseteq DOMAIN logged'
        /\ \A n \in DOMAIN segments' : segments'[n] = logged'[n]
    BY <1>1, <2>1, <2>4 DEF LogInv
  <2>10. next_event' \in Nat \ {0}
    BY <1>1, <2>1 DEF LogInv
  <2> QED BY <1>0, <2>6, <2>7, <2>8, <2>9, <2>10 DEF LogInv
<1>4. CASE CleanRemove
  BY <1>0, <1>1, <1>4 DEF CleanRemove, LogInv, Grows
<1> QED BY <1>u, <1>2, <1>3, <1>4, LogLeftAlone, Zenon DEF logVars

-----------------------------------------------------------------------------
\* Every step keeps the state of every follower in its place.
LEMMA ShapeStep == ASSUME Shape, [ReplNext]_replVars PROVE Shape'
<1> USE DEF Shape
<1>1. CASE UNCHANGED <<stream, network, follower, mirror>>
  BY <1>1
<1>2. CASE LeaderRestart
  BY <1>2 DEF LeaderRestart, Closed, followerVars
<1>3. ASSUME NEW f \in Follower, PumpStep(f) \/ StreamBreaks(f) PROVE Shape'
  BY <1>3, Zenon DEF PumpStep, PumpPoll, PumpWrite, PumpWriteDone, Sent, StreamBreaks, Closed,
              followerVars
<1>4. ASSUME NEW f \in Follower, FollowerStep(f) \/ FollowerCrash(f) PROVE Shape'
  BY <1>4, ZenonT(30) DEF FollowerStep, FollowerConnect, FollowerStreamEnd, FollowerReceive,
              FollowerMirror, FollowerApply, FollowerCrash, Closed
<1> QED BY <1>1, <1>2, <1>3, <1>4, Zenon DEF ReplNext, LeaderWrite, CleanStart, CleanRead,
      CleanRemove, OnDone, followerVars, replVars

\* A mirror changes only when a page is received and written, and after a crash.
LEMMA MirrorChanges ==
  ASSUME Shape, [ReplNext]_replVars, NEW g \in Follower
  PROVE  \/ mirror'[g] = mirror[g]
         \/ FollowerReceive(g) /\ mirror'[g] = Put(mirror[g], Head(network[g]).segment, <<>>)
         \/ FollowerMirror(g) /\
            mirror'[g] = [mirror[g] EXCEPT ![follower[g].page.segment] = follower[g].page.data]
         \/ FollowerCrash(g) /\
            mirror'[g] = Put(mirror[g], Max(DOMAIN mirror[g]) + 1, <<>>)
<1>1. ASSUME NEW f \in Follower, f # g,
             FollowerReceive(f) \/ FollowerMirror(f) \/ FollowerCrash(f)
      PROVE  mirror'[g] = mirror[g]
  BY <1>1 DEF FollowerReceive, FollowerMirror, FollowerCrash, Shape
<1>3. CASE FollowerReceive(g)
  BY <1>3 DEF FollowerReceive, Shape
<1>4. CASE FollowerMirror(g)
  BY <1>4 DEF FollowerMirror, Shape
<1>5. CASE FollowerCrash(g)
  BY <1>5 DEF FollowerCrash, Shape
<1>2. UNCHANGED mirror \/ \E f \in Follower :
        FollowerReceive(f) \/ FollowerMirror(f) \/ FollowerCrash(f)
  BY Zenon DEF ReplNext, LeaderWrite, LeaderRestart, CleanStart, CleanRead, CleanRemove, PumpStep,
         PumpPoll, PumpWrite, PumpWriteDone, StreamBreaks, FollowerStep, FollowerConnect,
         FollowerStreamEnd, FollowerApply, OnDone, followerVars, replVars
<1> QED BY <1>1, <1>2, <1>3, <1>4, <1>5, Zenon

\* The network gets what the pump writes and loses what the follower reads.
LEMMA NetworkChanges ==
  ASSUME Shape, [ReplNext]_replVars, NEW g \in Follower
  PROVE  \/ network'[g] = network[g]
         \/ network'[g] = <<>>
         \/ PumpWrite(g) /\ \E no \in DOMAIN stream[g].pages :
              /\ IsFirst(no, stream[g].pages)
              /\ network'[g] = Append(network[g], [segment |-> no, data |-> stream[g].pages[no]])
         \/ FollowerReceive(g) /\ network[g] # <<>> /\ network'[g] = Tail(network[g])
<1>1. CASE LeaderRestart
  BY <1>1 DEF LeaderRestart
<1>2. ASSUME NEW f \in Follower, f # g, PumpWrite(f) \/ StreamBreaks(f) \/ FollowerReceive(f)
                                        \/ FollowerCrash(f)
      PROVE  network'[g] = network[g]
  BY <1>2, Zenon DEF PumpWrite, StreamBreaks, FollowerReceive, FollowerCrash, Shape
<1>3. CASE PumpWrite(g)
  BY <1>3, Zenon DEF PumpWrite, Shape
<1>4. CASE StreamBreaks(g) \/ FollowerCrash(g)
  BY <1>4 DEF StreamBreaks, FollowerCrash, Shape
<1>5. CASE FollowerReceive(g)
  BY <1>5 DEF FollowerReceive, Shape
<1>6. UNCHANGED network \/ LeaderRestart \/ \E f \in Follower :
        PumpWrite(f) \/ StreamBreaks(f) \/ FollowerReceive(f) \/ FollowerCrash(f)
  BY Zenon DEF ReplNext, LeaderWrite, CleanStart, CleanRead, CleanRemove, PumpStep,
         PumpPoll, PumpWriteDone, FollowerStep, FollowerConnect,
         FollowerStreamEnd, FollowerMirror, FollowerApply, OnDone, replVars
<1> QED BY <1>1, <1>2, <1>3, <1>4, <1>5, <1>6

\* The follower's loop: what it does with its page.
LEMMA FollowerChanges ==
  ASSUME Shape, [ReplNext]_replVars, NEW g \in Follower
  PROVE  \/ follower'[g] = follower[g]
         \/ follower'[g].page = NoPage /\ follower'[g].pc # "mirror"
         \/ /\ FollowerConnect(g) \/ FollowerStreamEnd(g)
            /\ follower'[g].page = follower[g].page
            /\ follower[g].pc # "mirror" /\ follower'[g].pc # "mirror"
         \/ /\ FollowerReceive(g) /\ network[g] # <<>> /\ follower[g].pc # "mirror"
            /\ follower'[g].pc = "mirror" /\ follower'[g].page = Head(network[g])
         \/ /\ FollowerMirror(g) /\ follower[g].pc = "mirror"
            /\ follower'[g].pc = "apply" /\ follower'[g].page = follower[g].page
<1>1. ASSUME NEW f \in Follower, f # g, FollowerStep(f) \/ FollowerCrash(f)
      PROVE  follower'[g] = follower[g]
  BY <1>1 DEF FollowerStep, FollowerConnect, FollowerStreamEnd, FollowerReceive,
              FollowerMirror, FollowerApply, FollowerCrash, Shape
<1>2. CASE FollowerConnect(g) \/ FollowerStreamEnd(g)
  BY <1>2 DEF FollowerConnect, FollowerStreamEnd, Shape
<1>3. CASE FollowerReceive(g)
  BY <1>3 DEF FollowerReceive, Shape
<1>4. CASE FollowerMirror(g)
  BY <1>4 DEF FollowerMirror, Shape
<1>5. CASE FollowerApply(g) \/ FollowerCrash(g)
  <2>1. CASE FollowerApply(g)
    <3>1. PICK n : follower' = [follower EXCEPT ![g].pc = "reading", ![g].page = NoPage,
                                                ![g].next_seq_no = n]
      BY <2>1, Zenon DEF FollowerApply
    <3> QED BY <3>1 DEF Shape
  <2>2. CASE FollowerCrash(g)
    <3>1. PICK n : follower' = [follower EXCEPT ![g].pc = "connect", ![g].page = NoPage,
                                                ![g].next_seq_no = n]
      BY <2>2, Zenon DEF FollowerCrash
    <3> QED BY <3>1 DEF Shape
  <2> QED BY <1>5, <2>1, <2>2, Zenon
<1>6. UNCHANGED follower \/ \E f \in Follower : FollowerStep(f) \/ FollowerCrash(f)
  BY Zenon DEF ReplNext, LeaderWrite, LeaderRestart, CleanStart, CleanRead, CleanRemove, PumpStep,
         PumpPoll, PumpWrite, PumpWriteDone, StreamBreaks, OnDone, followerVars, replVars
<1> QED BY <1>1, <1>2, <1>3, <1>4, <1>5, <1>6 DEF FollowerStep

\* How one step moves one stream.
LEMMA StreamChanges ==
  ASSUME Shape, [ReplNext]_replVars, NEW g \in Follower
  PROVE  \/ stream'[g] = stream[g]
         \/ stream'[g] = Closed
         \/ PumpPoll(g) /\ ~stream[g].write_pending /\ stream'[g] = [stream[g] EXCEPT
              !.pages = CollectPagesFrom(stream[g].next_segment, stream[g].next_page)]
         \/ PumpWrite(g) /\ stream'[g] = [stream[g] EXCEPT !.write_pending = TRUE]
         \/ PumpWriteDone(g) /\ stream[g].write_pending /\ \E no \in DOMAIN stream[g].pages :
              /\ IsFirst(no, stream[g].pages)
              /\ stream'[g] = Sent(stream[g], no)
              /\ registry' = IF IsComplete(stream[g].pages[no])
                             THEN [registry EXCEPT ![stream[g].token] = no] ELSE registry
         \/ FollowerConnect(g) /\ stream'[g] =
              [Closed EXCEPT !.open = TRUE, !.token = next_token,
                 !.from = NextSegmentToFetch(mirror[g]),
                 !.next_segment = NextSegmentToFetch(mirror[g])]
<1>1. CASE LeaderRestart
  BY <1>1 DEF LeaderRestart
<1>2. ASSUME NEW f \in Follower, f # g,
             PumpStep(f) \/ StreamBreaks(f) \/ FollowerStep(f) \/ FollowerCrash(f)
      PROVE  stream'[g] = stream[g]
  BY <1>2 DEF PumpStep, PumpPoll, PumpWrite, PumpWriteDone, StreamBreaks, FollowerStep,
              FollowerConnect, FollowerStreamEnd, FollowerReceive, FollowerMirror,
              FollowerApply, FollowerCrash, Shape
<1>3. CASE PumpPoll(g)
  BY <1>3 DEF PumpPoll, Shape
<1>4. CASE PumpWrite(g)
  BY <1>4, Zenon DEF PumpWrite, Shape
<1>5. CASE PumpWriteDone(g)
  BY <1>5, Zenon DEF PumpWriteDone, Shape, Update
<1>6. CASE StreamBreaks(g) \/ FollowerCrash(g)
  BY <1>6 DEF StreamBreaks, FollowerCrash, Shape
<1>7. CASE FollowerConnect(g)
  BY <1>7 DEF FollowerConnect, Shape
<1>8. \/ UNCHANGED stream \/ LeaderRestart
      \/ \E f \in Follower : \/ PumpStep(f) \/ StreamBreaks(f) \/ FollowerConnect(f)
                             \/ FollowerCrash(f)
  BY Zenon DEF ReplNext, LeaderWrite, CleanStart, CleanRead, CleanRemove, FollowerStep,
         FollowerStreamEnd, FollowerReceive, FollowerMirror, FollowerApply, OnDone, replVars
<1> QED BY <1>1, <1>2, <1>3, <1>4, <1>5, <1>6, <1>7, <1>8 DEF PumpStep, FollowerStep

-----------------------------------------------------------------------------
\* The largest number of a mirror.
LEMMA MirrorMax ==
  ASSUME NEW S \in SUBSET Nat, \E last \in S : \A no \in S : no <= last
  PROVE  Max(S) \in S /\ \A no \in S : no <= Max(S)
<1>1. PICK last \in S : \A no \in S : last >= no
  OBVIOUS
<1>2. Max(S) \in S /\ \A no \in S : Max(S) >= no
  BY <1>1, Zenon DEF Max
<1> QED BY <1>2

\* Wherever a page is, it remains a copy of the leader's.
LEMMA CopiesStep ==
  ASSUME Laws, ReplicaInv, [ReplNext]_replVars, ~reused', NEW g \in Follower
  PROVE  CopiesInv(g)'
<1>0. Shape /\ LogInv /\ CopiesInv(g) /\ Grows /\ LogInv'
  BY LogStep DEF ReplicaInv
<1>c. ASSUME NEW no, NEW data, IsCopy(logged, no, data) PROVE IsCopy(logged', no, data)
  BY <1>0, <1>c, CopyStays
<1>e. \A no : IsCopy(logged', no, <<>>)
  BY DEF IsCopy
<1> DEFINE Page == [segment : Nat, data : Seq(Nat)]
<1>h. network[g] # <<>> =>
        /\ Head(network[g]) \in Page
        /\ IsCopy(logged, Head(network[g]).segment, Head(network[g]).data)
  <2>0. network[g] \in Seq(Page)
    BY <1>0 DEF CopiesInv
  <2>1. ASSUME network[g] # <<>>
        PROVE  /\ 1 \in DOMAIN network[g] /\ Head(network[g]) = network[g][1]
               /\ network[g][1] \in Page
    <3> HIDE DEF Page
    <3> QED BY <2>0, <2>1
  <2>2. \A i \in DOMAIN network[g] : IsCopy(logged, network[g][i].segment, network[g][i].data)
    BY <1>0 DEF CopiesInv
  <2> HIDE DEF Page
  <2> QED BY <2>1, <2>2
<1>1. /\ DOMAIN mirror'[g] \subseteq Nat
      /\ \E last \in DOMAIN mirror'[g] : \A no \in DOMAIN mirror'[g] : no <= last
      /\ \A no \in DOMAIN mirror'[g] : IsCopy(logged', no, mirror'[g][no])
      /\ DOMAIN mirror[g] \subseteq DOMAIN mirror'[g]
  <2>m. PICK last \in DOMAIN mirror[g] : \A no \in DOMAIN mirror[g] : no <= last
    BY <1>0 DEF CopiesInv
  <2>n. DOMAIN mirror[g] \subseteq Nat /\ \A no \in DOMAIN mirror[g] : IsCopy(logged', no, mirror[g][no])
    BY <1>0, <1>c DEF CopiesInv
  <2>1. CASE mirror'[g] = mirror[g]
    BY <2>1, <2>m, <2>n
  <2>2. ASSUME NEW no \in Nat, mirror'[g] = Put(mirror[g], no, <<>>)
        PROVE  /\ DOMAIN mirror'[g] \subseteq Nat
               /\ \E b \in DOMAIN mirror'[g] : \A n \in DOMAIN mirror'[g] : n <= b
               /\ \A n \in DOMAIN mirror'[g] : IsCopy(logged', n, mirror'[g][n])
               /\ DOMAIN mirror[g] \subseteq DOMAIN mirror'[g]
    <3>1. /\ DOMAIN mirror'[g] = DOMAIN mirror[g] \cup {no} /\ mirror'[g][no] = <<>>
          /\ \A n \in DOMAIN mirror[g] : n # no => mirror'[g][n] = mirror[g][n]
      BY <2>2 DEF Put
    <3>2. \A n \in DOMAIN mirror'[g] : IsCopy(logged', n, mirror'[g][n])
      BY <1>e, <2>n, <3>1
    <3>3. CASE no <= last
      BY <2>m, <2>n, <3>1, <3>2, <3>3
    <3>4. CASE no > last
      <4>1. \A n \in DOMAIN mirror'[g] : n <= no
        BY <2>m, <2>n, <3>1, <3>4
      <4> QED BY <2>n, <3>1, <3>2, <4>1
    <3> QED BY <2>n, <3>3, <3>4
  <2>3. CASE FollowerReceive(g) /\ mirror'[g] = Put(mirror[g], Head(network[g]).segment, <<>>)
    <3>1. Head(network[g]).segment \in Nat
      BY <1>h, <2>3 DEF FollowerReceive
    <3> QED BY <2>2, <2>3, <3>1
  <2>4. CASE FollowerMirror(g) /\
             mirror'[g] = [mirror[g] EXCEPT ![follower[g].page.segment] = follower[g].page.data]
    <3>1. IsCopy(logged', follower[g].page.segment, follower[g].page.data)
      BY <1>0, <1>c DEF CopiesInv
    <3>2. DOMAIN mirror'[g] = DOMAIN mirror[g]
      BY <2>4
    <3>3. ASSUME NEW n \in DOMAIN mirror'[g] PROVE IsCopy(logged', n, mirror'[g][n])
      <4>1. CASE n = follower[g].page.segment
        <5>1. mirror'[g][n] = follower[g].page.data
          BY <2>4, <3>2, <4>1
        <5> QED BY <3>1, <4>1, <5>1
      <4>2. CASE n # follower[g].page.segment
        <5>1. mirror'[g][n] = mirror[g][n]
          BY <2>4, <3>2, <4>2
        <5> QED BY <2>n, <3>2, <5>1
      <4> QED BY <4>1, <4>2
    <3> QED BY <2>m, <2>n, <3>2, <3>3
  <2>5. CASE FollowerCrash(g) /\ mirror'[g] = Put(mirror[g], Max(DOMAIN mirror[g]) + 1, <<>>)
    <3>1. Max(DOMAIN mirror[g]) \in Nat
      BY <1>0, MirrorMax, Zenon DEF CopiesInv
    <3>2. Max(DOMAIN mirror[g]) + 1 \in Nat
      BY <3>1
    <3> QED BY <2>2, <2>5, <3>2
  <2> QED BY <1>0, <2>1, <2>3, <2>4, <2>5, MirrorChanges, ZenonT(30)
<1>2. /\ network'[g] \in Seq(Page)
      /\ \A i \in DOMAIN network'[g] : IsCopy(logged', network'[g][i].segment, network'[g][i].data)
  <2>n. /\ network[g] \in Seq(Page)
        /\ \A i \in DOMAIN network[g] : IsCopy(logged', network[g][i].segment, network[g][i].data)
    BY <1>0, <1>c, Zenon DEF CopiesInv
  <2>1. CASE network'[g] = network[g]
    BY <2>1, <2>n
  <2>2. CASE network'[g] = <<>>
    <3>1. <<>> \in Seq(Page) /\ DOMAIN <<>> = {}
      OBVIOUS
    <3> QED BY <2>2, <3>1
  <2>3. ASSUME NEW no \in DOMAIN stream[g].pages,
               network'[g] = Append(network[g], [segment |-> no, data |-> stream[g].pages[no]])
        PROVE  /\ network'[g] \in Seq(Page)
               /\ \A i \in DOMAIN network'[g] : IsCopy(logged', network'[g][i].segment, network'[g][i].data)
    <3> DEFINE p == [segment |-> no, data |-> stream[g].pages[no]]
    <3>1. IsCopy(logged, no, stream[g].pages[no]) /\ stream[g].pages[no] # <<>>
      BY <1>0 DEF CopiesInv
    <3>2. p \in Page /\ IsCopy(logged', p.segment, p.data)
      <4>1. no \in Nat /\ stream[g].pages[no] \in Seq(Nat)
        BY <1>0, <3>1 DEF IsCopy, LogInv
      <4> QED BY <1>c, <3>1, <4>1
    <3>3. network'[g] = Append(network[g], p)
      BY <2>3
    <3> HIDE DEF p, Page
    <3>4. network'[g] \in Seq(Page)
      BY <2>n, <3>2, <3>3
    <3>5. ASSUME NEW i \in DOMAIN network'[g]
          PROVE  IsCopy(logged', network'[g][i].segment, network'[g][i].data)
      <4>1. CASE i \in DOMAIN network[g]
        <5>1. network'[g][i] = network[g][i]
          BY <2>n, <3>3, <4>1
        <5> QED BY <2>n, <4>1, <5>1
      <4>2. CASE i \notin DOMAIN network[g]
        <5>1. network'[g][i] = p
          BY <2>n, <3>2, <3>3, <4>2
        <5> QED BY <3>2, <5>1
      <4> QED BY <4>1, <4>2
    <3> QED BY <3>4, <3>5
  <2>4. CASE network[g] # <<>> /\ network'[g] = Tail(network[g])
    <3> HIDE DEF Page
    <3>1. network'[g] \in Seq(Page)
      BY <2>4, <2>n
    <3>2. ASSUME NEW i \in DOMAIN network'[g]
          PROVE  i + 1 \in DOMAIN network[g] /\ network'[g][i] = network[g][i + 1]
      BY <2>4, <2>n
    <3> QED BY <2>n, <3>1, <3>2
  <2> QED BY <1>0, <2>1, <2>2, <2>3, <2>4, NetworkChanges, Zenon
<1>3. /\ follower'[g].page \in Page
      /\ IsCopy(logged', follower'[g].page.segment, follower'[g].page.data)
      /\ follower'[g].pc = "mirror" => follower'[g].page.segment \in DOMAIN mirror'[g]
  <2>n. /\ follower[g].page \in Page
        /\ IsCopy(logged', follower[g].page.segment, follower[g].page.data)
        /\ follower[g].pc = "mirror" => follower[g].page.segment \in DOMAIN mirror'[g]
    BY <1>0, <1>1, <1>c DEF CopiesInv
  <2>1. CASE follower'[g].page = NoPage /\ follower'[g].pc # "mirror"
    <3>1. NoPage \in Page /\ NoPage.data = <<>>
      BY DEF NoPage
    <3> QED BY <1>e, <2>1, <3>1
  <2>2. CASE /\ FollowerReceive(g) /\ network[g] # <<>>
             /\ follower'[g].pc = "mirror" /\ follower'[g].page = Head(network[g])
    <3>1. mirror'[g] = Put(mirror[g], Head(network[g]).segment, <<>>)
      BY <1>0, <2>2 DEF FollowerReceive, Shape
    <3>2. Head(network[g]).segment \in DOMAIN mirror'[g]
      BY <3>1 DEF Put
    <3>3. IsCopy(logged', Head(network[g]).segment, Head(network[g]).data)
      BY <1>c, <1>h, <2>2
    <3> QED BY <1>h, <2>2, <3>2, <3>3
  <2> QED BY <1>0, <2>1, <2>2, <2>n, FollowerChanges, Zenon
<1>4. \A no \in DOMAIN stream'[g].pages :
        IsCopy(logged', no, stream'[g].pages[no]) /\ stream'[g].pages[no] # <<>>
  <2>n. \A no \in DOMAIN stream[g].pages :
          IsCopy(logged', no, stream[g].pages[no]) /\ stream[g].pages[no] # <<>>
    BY <1>0, <1>c DEF CopiesInv
  <2>s. DOMAIN stream[g] = DOMAIN Closed
    BY <1>0 DEF Shape
  <2>1. CASE stream'[g] = stream[g]
    BY <2>1, <2>n
  <2>2. CASE stream'[g].pages = NoPages
    BY <2>2 DEF NoPages
  <2>3. CASE stream'[g] = [stream[g] EXCEPT
               !.pages = CollectPagesFrom(stream[g].next_segment, stream[g].next_page)]
    <3> DEFINE q == CollectPagesFrom(stream[g].next_segment, stream[g].next_page)
    <3>1. stream'[g].pages = q
      BY <2>3, <2>s DEF Closed
    <3>2. \A no \in DOMAIN q : no \in DOMAIN segments /\ q[no] = segments[no] /\ q[no] # <<>>
      BY DEF CollectPagesFrom
    <3> HIDE DEF q
    <3>3. ASSUME NEW no \in DOMAIN q PROVE IsCopy(logged, no, q[no])
      <4>1. no \in DOMAIN logged /\ q[no] = logged[no] /\ logged[no] \in Seq(Nat)
        BY <1>0, <3>2 DEF LogInv
      <4> QED BY <4>1, PrefixFacts DEF IsCopy
    <3> QED BY <1>c, <3>1, <3>2, <3>3
  <2>4. CASE stream'[g] = [stream[g] EXCEPT !.write_pending = TRUE]
    <3>1. stream'[g].pages = stream[g].pages
      BY <2>4, <2>s DEF Closed
    <3> QED BY <2>n, <3>1
  <2>5. ASSUME NEW no \in DOMAIN stream[g].pages, stream'[g] = Sent(stream[g], no)
        PROVE  \/ stream'[g].pages = NoPages
               \/ stream'[g].pages =
                    [n \in DOMAIN stream[g].pages \ {no} |-> stream[g].pages[n]]
    BY <2>5, <2>s DEF Sent, Closed
  <2>6. ASSUME NEW no, stream'[g].pages =
                    [n \in DOMAIN stream[g].pages \ {no} |-> stream[g].pages[n]]
        PROVE  \A n \in DOMAIN stream'[g].pages :
                 IsCopy(logged', n, stream'[g].pages[n]) /\ stream'[g].pages[n] # <<>>
    BY <2>6, <2>n
  <2>7. CASE stream'[g] = Closed \/ FollowerConnect(g)
    <3>1. CASE stream'[g] = Closed
      BY <2>2, <3>1 DEF Closed
    <3>2. CASE FollowerConnect(g)
      <4>1. PICK t, from : stream'[g] = [Closed EXCEPT !.open = TRUE, !.token = t,
                                           !.from = from, !.next_segment = from]
        BY <1>0, <3>2, Zenon DEF FollowerConnect, Shape
      <4> QED BY <2>2, <4>1 DEF Closed
    <3> QED BY <2>7, <3>1, <3>2
  <2> QED BY <1>0, <2>1, <2>2, <2>3, <2>4, <2>5, <2>6, <2>7, StreamChanges, ZenonT(30)
<1> QED BY <1>1, <1>2, <1>3, <1>4 DEF CopiesInv

\* The leader's first segment is empty and so are the mirrors.
LEMMA ReplicaInit == ASSUME ReplInit PROVE ReplicaInv
<1> USE DEF ReplInit
<1>1. Shape
  BY DEF Shape, Closed
<1>2. /\ DOMAIN Put(NoPages, 0, <<>>) = {0} /\ Put(NoPages, 0, <<>>)[0] = <<>>
      /\ <<>> \in Seq(Nat) /\ Len(<<>>) = 0 /\ 0..0 = {0}
  BY DEF Put, NoPages
<1>3. LogInv
  <2>1. /\ current_segment = 0 /\ next_event = 1 /\ segments = logged
        /\ DOMAIN logged = {0} /\ logged[0] = <<>>
    BY <1>2
  <2>2. 1..Len(logged[0]) = {}
    BY <1>2, <2>1
  <2>3. \A no \in DOMAIN logged : logged[no] \in Seq(Nat) /\ 1..Len(logged[no]) = {}
    BY <1>2, <2>1, <2>2, Zenon
  <2>4. DOMAIN logged = 0..current_segment
    BY <1>2, <2>1
  <2> HIDE DEF ReplInit
  <2> QED BY <2>1, <2>3, <2>4 DEF LogInv
<1>4. ASSUME NEW f \in Follower PROVE CopiesInv(f)
  <2>1. DOMAIN mirror[f] = {0} /\ mirror[f][0] = <<>>
    BY <1>2
  <2>2. network[f] = <<>> /\ <<>> \in Seq([segment : Nat, data : Seq(Nat)]) /\ DOMAIN <<>> = {}
    OBVIOUS
  <2>3. follower[f].page = NoPage /\ follower[f].pc = "connect"
    OBVIOUS
  <2>4. stream[f].pages = NoPages /\ DOMAIN NoPages = {}
    BY DEF Closed, NoPages
  <2>5. \A no : IsCopy(logged, no, <<>>)
    BY <1>2 DEF IsCopy
  <2>6. /\ NoPage \in [segment : Nat, data : Seq(Nat)]
        /\ NoPage.segment = 0 /\ NoPage.data = <<>>
    BY <1>2 DEF NoPage
  <2> HIDE DEF ReplInit
  <2>7. /\ DOMAIN mirror[f] \subseteq Nat
        /\ \E last \in DOMAIN mirror[f] : \A no \in DOMAIN mirror[f] : no <= last
        /\ \A no \in DOMAIN mirror[f] : IsCopy(logged, no, mirror[f][no])
    BY <2>1, <2>5
  <2>8. /\ network[f] \in Seq([segment : Nat, data : Seq(Nat)])
        /\ \A i \in DOMAIN network[f] :
             IsCopy(logged, network[f][i].segment, network[f][i].data)
    BY <2>2
  <2>9. /\ follower[f].page \in [segment : Nat, data : Seq(Nat)]
        /\ IsCopy(logged, follower[f].page.segment, follower[f].page.data)
        /\ follower[f].pc # "mirror"
    BY <2>3, <2>5, <2>6
  <2> QED BY <2>4, <2>7, <2>8, <2>9, Zenon DEF CopiesInv
<1> QED BY <1>1, <1>3, <1>4 DEF ReplicaInv

\* ReplicaInv is inductive.
LEMMA ReplicaStep ==
  ASSUME Laws
  PROVE  ReplicaInv /\ [ReplNext]_replVars => ReplicaInv'
<1> SUFFICES ASSUME ReplicaInv, [ReplNext]_replVars PROVE ReplicaInv'
  OBVIOUS
<1>1. Shape'
  BY ShapeStep DEF ReplicaInv
<1> QED BY <1>1, LogStep, CopiesStep DEF ReplicaInv

-----------------------------------------------------------------------------
\* The numbers that Replay goes through.
IsReplay(after, events, next) ==
  /\ after \in [0..Len(events) -> Nat]
  /\ after[0] = next /\ Replay(events, next) = after[Len(events)]
  /\ \A i \in 1..Len(events) :
       after[i] = IF events[i] = after[i - 1] THEN after[i - 1] + 1 ELSE after[i - 1]

\* Replay goes through the events one by one.
LEMMA ReplayRuns ==
  ASSUME Laws, NEW events \in Seq(Nat), NEW next \in Nat
  PROVE  \E after : IsReplay(after, events, next)
<1> DEFINE n == Len(events)
           Is(f) == f = [i \in 0..n |-> IF i = 0 THEN next
                                        ELSE IF events[i] = f[i - 1] THEN f[i - 1] + 1 ELSE f[i - 1]]
           g == [i \in 1..n |-> [x \in Nat |-> IF events[i] = x THEN x + 1 ELSE x]]
<1>0. n \in Nat
  OBVIOUS
<1>1. StepsIn(g, n, Nat)
  BY DEF StepsIn
<1>2. PICK f \in [0..n -> Nat] : f[0] = next /\ \A i \in 1..n : f[i] = g[i][f[i - 1]]
  <2>1. \E f \in [0..n -> Nat] : Iterates(f, g, n, next)
    <3> HIDE DEF g, n
    <3> QED BY <1>0, <1>1, Zenon DEF Laws, IterationLaw
  <2> QED BY <2>1, Zenon DEF Iterates
<1>3. ASSUME NEW i \in 0..n, i # 0
      PROVE  f[i] = IF events[i] = f[i - 1] THEN f[i - 1] + 1 ELSE f[i - 1]
  <2>1. i \in 1..n /\ i - 1 \in 0..n
    BY <1>0, <1>3
  <2>2. f[i - 1] \in Nat
    BY <2>1
  <2> QED BY <1>2, <2>1, <2>2, Zenon
<1>4. Is(f)
  <2>1. f = [i \in 0..n |-> f[i]]
    OBVIOUS
  <2> QED BY <1>2, <1>3, <2>1
<1> DEFINE a == CHOOSE h : Is(h)
<1>5. Is(a)
  <2> HIDE DEF Is
  <2> QED BY <1>4, Zenon
<1>6. Replay(events, next) = a[n]
  BY Zenon DEF Replay
<1> HIDE DEF a
<1>7. ASSUME NEW i \in 0..n PROVE a[i] = f[i]
  <2> DEFINE Bad == {k \in 0..n : a[k] # f[k]}
  <2>1. SUFFICES ASSUME Bad # {} PROVE FALSE
    OBVIOUS
  <2>2. PICK k \in Bad : \A s \in Bad : k <= s
    <3>1. Bad \in SUBSET Nat
      BY <1>0
    <3> QED BY <2>1, <3>1, Zenon DEF Laws, MinLaw
  <2>3. k # 0
    BY <1>2, <1>5
  <2>4. k \in 1..n /\ k - 1 \in 0..n /\ k - 1 \notin Bad
    BY <1>0, <2>2, <2>3
  <2>5. a[k - 1] = f[k - 1]
    BY <2>4
  <2>6. a[k] = IF events[k] = a[k - 1] THEN a[k - 1] + 1 ELSE a[k - 1]
    BY <1>5, <2>3, <2>4, Zenon
  <2>7. f[k] = IF events[k] = f[k - 1] THEN f[k - 1] + 1 ELSE f[k - 1]
    BY <1>3, <2>3, <2>4
  <2> QED BY <2>2, <2>5, <2>6, <2>7
<1>8. a = f
  <2>1. a = [i \in 0..n |-> a[i]] /\ f = [i \in 0..n |-> f[i]]
    BY <1>5
  <2> QED BY <1>7, <2>1, Zenon
<1>9. \A i \in 1..n : f[i] = IF events[i] = f[i - 1] THEN f[i - 1] + 1 ELSE f[i - 1]
  BY <1>0, <1>3
<1> QED BY <1>2, <1>6, <1>8, <1>9, Zenon DEF IsReplay

\* The number of the next event never gets smaller.
LEMMA ReplayGrows ==
  ASSUME Laws, NEW events \in Seq(Nat), NEW next \in Nat, NEW a, IsReplay(a, events, next),
         NEW i \in 0..Len(events), NEW j \in 0..Len(events), i <= j
  PROVE  a[i] \in Nat /\ a[j] \in Nat /\ a[i] <= a[j]
<1> DEFINE n == Len(events)
           Bad == {m \in 0..n : i <= m /\ ~(a[i] <= a[m])}
<1>0. n \in Nat /\ a \in [0..n -> Nat]
  BY DEF IsReplay
<1>1. SUFFICES ASSUME Bad # {} PROVE FALSE
  BY <1>0
<1>2. PICK m \in Bad : \A s \in Bad : m <= s
  <2>1. Bad \in SUBSET Nat
    BY <1>0
  <2> QED BY <1>1, <2>1, Zenon DEF Laws, MinLaw
<1>3. m # i /\ m \in 0..n /\ i <= m
  BY <1>0, <1>2
<1>4. m - 1 \in 0..n /\ i <= m - 1 /\ m \in 1..n /\ m - 1 \notin Bad
  BY <1>0, <1>2, <1>3
<1>5. a[i] <= a[m - 1] /\ a[m - 1] \in Nat /\ a[m] \in Nat /\ a[i] \in Nat
  BY <1>0, <1>3, <1>4, Zenon
<1>6. a[m] = IF events[m] = a[m - 1] THEN a[m - 1] + 1 ELSE a[m - 1]
  BY <1>4 DEF IsReplay
<1> QED BY <1>2, <1>5, <1>6

\* Only an event that is there is applied.
LEMMA ReplayTakes ==
  ASSUME Laws, NEW events \in Seq(Nat), NEW next \in Nat, NEW a, IsReplay(a, events, next),
         NEW event \in Nat, next <= event, event < a[Len(events)]
  PROVE  \E i \in 1..Len(events) : events[i] = event
<1> DEFINE n == Len(events)
           Past == {m \in 0..n : event < a[m]}
<1>0. n \in Nat /\ a \in [0..n -> Nat] /\ a[0] = next
  BY DEF IsReplay
<1>1. PICK m \in Past : \A s \in Past : m <= s
  <2>1. Past \in SUBSET Nat /\ n \in Past
    BY <1>0
  <2> QED BY <2>1, Zenon DEF Laws, MinLaw
<1>2. m # 0
  BY <1>0, <1>1
<1>3. m \in 1..n /\ m - 1 \in 0..n /\ m - 1 \notin Past
  BY <1>0, <1>1, <1>2
<1>4. a[m - 1] <= event /\ a[m - 1] \in Nat /\ event < a[m]
  <2>1. ~(event < a[m - 1]) /\ event < a[m] /\ a[m - 1] \in Nat
    BY <1>0, <1>1, <1>3
  <2> QED BY <2>1
<1>5. a[m] = IF events[m] = a[m - 1] THEN a[m - 1] + 1 ELSE a[m - 1]
  BY <1>3 DEF IsReplay
<1>6. events[m] = event
  BY <1>4, <1>5
<1> QED BY <1>3, <1>6

\* What Replay makes of the next number.
LEMMA ReplayBounds ==
  ASSUME Laws, NEW events \in Seq(Nat), NEW next \in Nat
  PROVE  /\ Replay(events, next) \in Nat /\ next <= Replay(events, next)
         /\ \A event \in Nat : next <= event /\ event < Replay(events, next) =>
              \E i \in 1..Len(events) : events[i] = event
<1>1. PICK a : IsReplay(a, events, next)
  BY ReplayRuns
<1>2. a[0] = next /\ Replay(events, next) = a[Len(events)]
  BY <1>1 DEF IsReplay
<1>3. Len(events) \in Nat /\ 0 \in 0..Len(events) /\ Len(events) \in 0..Len(events)
  OBVIOUS
<1>4. a[0] <= a[Len(events)] /\ a[Len(events)] \in Nat
  BY <1>1, <1>3, ReplayGrows
<1>5. \A event \in Nat : next <= event /\ event < a[Len(events)] =>
        \E i \in 1..Len(events) : events[i] = event
  BY <1>1, ReplayTakes
<1> QED BY <1>2, <1>4, <1>5

-----------------------------------------------------------------------------
\* A directory with a last segment.
IsDirectory(files, last) ==
  /\ DOMAIN files \subseteq Nat /\ last \in DOMAIN files /\ \A no \in DOMAIN files : no <= last
  /\ \A no \in DOMAIN files : files[no] \in Seq(Nat)

\* The numbers that Recovered goes through.
IsRecovery(after, files, last) ==
  /\ after \in [0..(last + 1) -> Nat]
  /\ after[0] = 1 /\ Recovered(files) = after[last + 1]
  /\ \A no \in 0..last :
       after[no + 1] = IF no \in DOMAIN files THEN Replay(files[no], after[no]) ELSE after[no]

LEMMA LastIsMax ==
  ASSUME NEW files, NEW last, IsDirectory(files, last)
  PROVE  Max(DOMAIN files) = last /\ last \in Nat
<1>1. last \in DOMAIN files /\ \A no \in DOMAIN files : no \in Nat /\ no <= last
  BY DEF IsDirectory
<1>2. \A m \in DOMAIN files : (\A no \in DOMAIN files : m >= no) => m = last
  BY <1>1
<1> QED BY <1>1, <1>2 DEF Max

\* wal::Recover goes through the segments one by one.
LEMMA RecoveredRuns ==
  ASSUME Laws, NEW files, NEW last, IsDirectory(files, last)
  PROVE  \E after : IsRecovery(after, files, last)
<1> DEFINE n == last + 1
           Is(f) == f = [no \in 0..n |->
                           IF no = 0 THEN 1
                           ELSE IF no - 1 \in DOMAIN files THEN Replay(files[no - 1], f[no - 1])
                           ELSE f[no - 1]]
           g == [no \in 1..n |-> [x \in Nat |->
                   IF no - 1 \in DOMAIN files THEN Replay(files[no - 1], x) ELSE x]]
<1>0. n \in Nat /\ last \in Nat /\ Max(DOMAIN files) = last
  BY LastIsMax
<1>1. StepsIn(g, n, Nat)
  <2>1. ASSUME NEW no \in 1..n, NEW x \in Nat PROVE g[no][x] \in Nat
    <3>1. no - 1 \in DOMAIN files => Replay(files[no - 1], x) \in Nat
      BY ReplayBounds, Zenon DEF IsDirectory
    <3> QED BY <3>1
  <2> QED BY <2>1 DEF StepsIn
<1>2. PICK f \in [0..n -> Nat] : f[0] = 1 /\ \A no \in 1..n : f[no] = g[no][f[no - 1]]
  <2>1. \E f \in [0..n -> Nat] : Iterates(f, g, n, 1)
    <3>1. 1 \in Nat
      OBVIOUS
    <3> HIDE DEF g, n
    <3> QED BY <1>0, <1>1, <3>1, Zenon DEF Laws, IterationLaw
  <2> QED BY <2>1, Zenon DEF Iterates
<1>3. ASSUME NEW no \in 0..n, no # 0
      PROVE  f[no] = IF no - 1 \in DOMAIN files THEN Replay(files[no - 1], f[no - 1])
                     ELSE f[no - 1]
  <2>1. no \in 1..n /\ no - 1 \in 0..n
    BY <1>0, <1>3
  <2>2. f[no - 1] \in Nat
    BY <2>1
  <2> QED BY <1>2, <2>1, <2>2, Zenon
<1>4. Is(f)
  <2>1. f = [no \in 0..n |-> f[no]]
    OBVIOUS
  <2> QED BY <1>2, <1>3, <2>1
<1> DEFINE a == CHOOSE h : Is(h)
<1>5. Is(a)
  <2> HIDE DEF Is
  <2> QED BY <1>4, Zenon
<1>6. Recovered(files) = a[n]
  BY <1>0, Zenon DEF Recovered
<1> HIDE DEF a
<1>7. ASSUME NEW no \in 0..n PROVE a[no] = f[no]
  <2> DEFINE Bad == {k \in 0..n : a[k] # f[k]}
  <2>1. SUFFICES ASSUME Bad # {} PROVE FALSE
    OBVIOUS
  <2>2. PICK k \in Bad : \A s \in Bad : k <= s
    <3>1. Bad \in SUBSET Nat
      BY <1>0
    <3> QED BY <2>1, <3>1, Zenon DEF Laws, MinLaw
  <2>3. k # 0
    BY <1>0, <1>2, <1>5
  <2>4. k \in 1..n /\ k - 1 \in 0..n /\ k - 1 \notin Bad
    BY <1>0, <2>2, <2>3
  <2>5. a[k - 1] = f[k - 1]
    BY <2>4
  <2>6. a[k] = IF k - 1 \in DOMAIN files THEN Replay(files[k - 1], a[k - 1]) ELSE a[k - 1]
    BY <1>5, <2>3, <2>4
  <2>7. f[k] = IF k - 1 \in DOMAIN files THEN Replay(files[k - 1], f[k - 1]) ELSE f[k - 1]
    BY <1>3, <2>3, <2>4
  <2> QED BY <2>2, <2>5, <2>6, <2>7
<1>8. a = f
  <2>1. a = [no \in 0..n |-> a[no]] /\ f = [no \in 0..n |-> f[no]]
    BY <1>5
  <2> QED BY <1>7, <2>1, Zenon
<1>9. ASSUME NEW no \in 0..last
      PROVE  f[no + 1] = IF no \in DOMAIN files THEN Replay(files[no], f[no]) ELSE f[no]
  <2>1. no + 1 \in 0..n /\ no + 1 # 0 /\ (no + 1) - 1 = no
    BY <1>0
  <2> QED BY <1>3, <2>1
<1> QED BY <1>2, <1>6, <1>8, <1>9, Zenon DEF IsRecovery

\* A step of the recovery.
LEMMA RecoverySteps ==
  ASSUME Laws, NEW files, NEW last, IsDirectory(files, last), NEW a, IsRecovery(a, files, last),
         NEW no \in 0..last
  PROVE  /\ a[no] \in Nat /\ a[no + 1] \in Nat /\ a[no] <= a[no + 1]
         /\ \A event \in Nat : a[no] <= event /\ event < a[no + 1] => Holds(files, event)
<1>1. last \in Nat
  BY LastIsMax
<1>2. a[no] \in Nat /\ a[no + 1] \in Nat
  BY <1>1 DEF IsRecovery
<1>3. a[no + 1] = IF no \in DOMAIN files THEN Replay(files[no], a[no]) ELSE a[no]
  BY DEF IsRecovery
<1>4. CASE no \in DOMAIN files
  <2>1. files[no] \in Seq(Nat)
    BY <1>4 DEF IsDirectory
  <2>2. /\ a[no] <= Replay(files[no], a[no])
        /\ \A event \in Nat : a[no] <= event /\ event < Replay(files[no], a[no]) =>
             \E i \in 1..Len(files[no]) : files[no][i] = event
    BY <1>2, <2>1, ReplayBounds, Zenon
  <2> QED BY <1>2, <1>3, <1>4, <2>2 DEF Holds
<1>5. CASE no \notin DOMAIN files
  BY <1>2, <1>3, <1>5
<1> QED BY <1>4, <1>5

LEMMA RecoveryGrows ==
  ASSUME Laws, NEW files, NEW last, IsDirectory(files, last), NEW a, IsRecovery(a, files, last),
         NEW i \in 0..(last + 1), NEW j \in 0..(last + 1), i <= j
  PROVE  a[i] \in Nat /\ a[j] \in Nat /\ a[i] <= a[j]
<1> DEFINE Bad == {m \in 0..(last + 1) : i <= m /\ ~(a[i] <= a[m])}
<1>0. last \in Nat /\ a \in [0..(last + 1) -> Nat]
  BY LastIsMax DEF IsRecovery
<1>1. SUFFICES ASSUME Bad # {} PROVE FALSE
  BY <1>0, Zenon
<1>2. PICK m \in Bad : \A s \in Bad : m <= s
  <2>1. Bad \in SUBSET Nat
    BY <1>0
  <2> QED BY <1>1, <2>1, Zenon DEF Laws, MinLaw
<1>3. m # i /\ m \in 0..(last + 1) /\ i <= m
  BY <1>0, <1>2
<1>4. m - 1 \in 0..last /\ m - 1 \in 0..(last + 1) /\ i <= m - 1 /\ m - 1 \notin Bad /\ (m - 1) + 1 = m
  BY <1>0, <1>2, <1>3
<1>5. a[i] <= a[m - 1]
  BY <1>4
<1>6. a[m - 1] \in Nat /\ a[m] \in Nat /\ a[m - 1] <= a[m]
  BY <1>4, RecoverySteps
<1>7. a[i] \in Nat /\ ~(a[i] <= a[m])
  BY <1>0, <1>2
<1> QED BY <1>5, <1>6, <1>7

\* What is recovered is in the files.
LEMMA RecoveredHolds ==
  ASSUME Laws, NEW files, NEW last, IsDirectory(files, last)
  PROVE  /\ Recovered(files) \in Nat \ {0}
         /\ \A event \in 1..(Recovered(files) - 1) : Holds(files, event)
<1>1. PICK a : IsRecovery(a, files, last)
  BY RecoveredRuns
<1>2. last \in Nat /\ a \in [0..(last + 1) -> Nat] /\ a[0] = 1 /\ Recovered(files) = a[last + 1]
  BY <1>1, LastIsMax DEF IsRecovery
<1>3. a[0] <= a[last + 1] /\ a[last + 1] \in Nat
  BY <1>1, <1>2, RecoveryGrows
<1>4. ASSUME NEW event \in 1..(a[last + 1] - 1) PROVE Holds(files, event)
  <2> DEFINE Past == {m \in 0..(last + 1) : event < a[m]}
  <2>1. PICK m \in Past : \A s \in Past : m <= s
    <3>1. Past \in SUBSET Nat /\ last + 1 \in Past
      BY <1>2, <1>3
    <3> QED BY <3>1, Zenon DEF Laws, MinLaw
  <2>2. m # 0
    BY <1>2, <2>1
  <2>3. m - 1 \in 0..last /\ m - 1 \in 0..(last + 1) /\ m - 1 \notin Past /\ (m - 1) + 1 = m
    BY <1>2, <2>1, <2>2
  <2>4. ~(event < a[m - 1]) /\ event < a[m] /\ event \in Nat
    BY <1>2, <1>3, <2>1, <2>3
  <2>5. /\ a[m - 1] \in Nat
        /\ \A e \in Nat : a[m - 1] <= e /\ e < a[m] => Holds(files, e)
    BY <1>1, <2>3, RecoverySteps
  <2>6. a[m - 1] <= event
    BY <2>4, <2>5
  <2> QED BY <2>4, <2>5, <2>6
<1> QED BY <1>2, <1>3, <1>4

\* The event is in the files and is not applied where it is.
Skipped(files, a, event) ==
  \E no \in DOMAIN files : \E i \in 1..Len(files[no]) :
    files[no][i] = event /\ \E b : IsReplay(b, files[no], a[no]) /\ b[i] <= event

\* The event before which a recovery stops would have been skipped.
LEMMA SkippedFirst ==
  ASSUME Laws, NEW files, NEW last, IsDirectory(files, last), InOrder(files),
         NEW a, IsRecovery(a, files, last), NEW n \in Nat,
         \A event \in 1..n : Holds(files, event),
         NEW event \in 1..n, Skipped(files, a, event),
         \A e \in 1..n : e < event => ~Skipped(files, a, e)
  PROVE  FALSE
<1>0. PICK no \in DOMAIN files : \E i \in 1..Len(files[no]) :
        files[no][i] = event /\ \E b : IsReplay(b, files[no], a[no]) /\ b[i] <= event
  BY Zenon DEF Skipped
<1>1. PICK i \in 1..Len(files[no]) :
        files[no][i] = event /\ \E b : IsReplay(b, files[no], a[no]) /\ b[i] <= event
  BY <1>0, Zenon
<1>b. PICK b : IsReplay(b, files[no], a[no]) /\ b[i] <= event
  BY <1>1, Zenon
<1>2. /\ files[no] \in Seq(Nat) /\ no \in 0..last /\ last \in Nat
      /\ Len(files[no]) \in Nat /\ i \in 0..Len(files[no]) /\ i - 1 \in 0..Len(files[no])
  BY LastIsMax DEF IsDirectory
<1>3. a[no] \in Nat
  BY <1>2, RecoverySteps
<1> DEFINE w == b[i - 1]
<1>4. w \in Nat /\ b[i] \in Nat /\ w <= b[i]
  <2>1. i - 1 <= i /\ IsReplay(b, files[no], a[no])
    BY <1>2, <1>b
  <2> QED BY <1>2, <1>3, <2>1, ReplayGrows
<1>5. b[i] = IF files[no][i] = w THEN w + 1 ELSE w
  BY <1>b DEF IsReplay
<1>6. w < event
  BY <1>1, <1>b, <1>4, <1>5
<1>7. a[no] <= w /\ b[0] = a[no]
  <2>1. b[0] = a[no] /\ 0 \in 0..Len(files[no]) /\ 0 <= i - 1
    BY <1>1, <1>b, <1>2 DEF IsReplay
  <2>2. b[0] <= b[i - 1]
    BY <1>1, <1>b, <1>2, <1>3, <2>1, ReplayGrows
  <2> QED BY <2>1, <2>2, Zenon
<1> HIDE DEF w
<1>8. 1 <= w
  <2>1. a[0] = 1 /\ 0 \in 0..(last + 1) /\ no \in 0..(last + 1) /\ 0 <= no
    BY <1>2 DEF IsRecovery
  <2>2. a[0] <= a[no]
    BY <2>1, RecoveryGrows
  <2> QED BY <1>3, <1>4, <1>7, <2>1, <2>2
<1>9. w \in 1..n
  BY <1>4, <1>6, <1>8
<1>m. PICK m \in DOMAIN files : \E j \in 1..Len(files[m]) : files[m][j] = w
  BY <1>9 DEF Holds
<1>10. PICK j \in 1..Len(files[m]) : files[m][j] = w
  BY <1>m
<1>11. /\ files[m] \in Seq(Nat) /\ m \in 0..last /\ Len(files[m]) \in Nat
       /\ j \in 0..Len(files[m])
  BY <1>2 DEF IsDirectory
<1>12. m < no \/ (m = no /\ j < i)
  <2>1. CASE no < m \/ (no = m /\ i < j)
    <3>1. event < w
      BY <1>1, <1>b, <1>6, <1>8, <1>10, <2>1 DEF InOrder, Padding
    <3> QED BY <1>4, <1>6, <3>1
  <2>2. CASE m = no /\ i = j
    BY <1>1, <1>b, <1>4, <1>6, <1>10, <2>2
  <2> QED BY <1>2, <1>11, <2>1, <2>2
<1>13. CASE m = no /\ j < i
  <2>1. ~(b[j] <= w)
    BY <1>1, <1>b, <1>6, <1>9, <1>10, <1>13, Zenon DEF Skipped
  <2>2. j <= i - 1 /\ j \in 0..Len(files[no])
    BY <1>11, <1>13
  <2>3. b[j] <= b[i - 1]
    BY <1>1, <1>b, <1>2, <1>3, <2>2, ReplayGrows
  <2> QED BY <2>1, <2>3 DEF w
<1>14. CASE m < no
  <2>1. a[m] \in Nat /\ a[m + 1] \in Nat
    BY <1>11, RecoverySteps
  <2>2. PICK c : IsReplay(c, files[m], a[m])
    BY <1>11, <2>1, ReplayRuns
  <2>3. ~(c[j] <= w)
    BY <1>6, <1>9, <1>10, <2>2 DEF Skipped
  <2>4. c[j] \in Nat /\ c[j] <= c[Len(files[m])]
    BY <1>11, <2>1, <2>2, ReplayGrows
  <2>5. a[m + 1] = c[Len(files[m])]
    <3>1. c[Len(files[m])] = Replay(files[m], a[m])
      BY <2>2 DEF IsReplay
    <3> QED BY <1>11, <3>1 DEF IsRecovery
  <2>6. a[m + 1] <= a[no]
    <3>1. m + 1 \in 0..(last + 1) /\ no \in 0..(last + 1) /\ m + 1 <= no
      <4>1. last \in Nat /\ m \in Nat /\ no \in Nat /\ no <= last
        BY <1>2, <1>11
      <4> QED BY <1>14, <4>1
    <3> QED BY <3>1, RecoveryGrows
  <2> QED BY <1>3, <1>4, <1>7, <2>1, <2>3, <2>4, <2>5, <2>6
<1> QED BY <1>12, <1>13, <1>14

\* Events that the files hold in their order are recovered.
LEMMA HeldIsRecovered ==
  ASSUME Laws, NEW files, NEW last, IsDirectory(files, last), InOrder(files), NEW n \in Nat,
         \A event \in 1..n : Holds(files, event)
  PROVE  Recovered(files) > n
<1>1. PICK a : IsRecovery(a, files, last)
  BY RecoveredRuns
<1> DEFINE r == Recovered(files)
           Bad == {event \in 1..n : Skipped(files, a, event)}
<1>2. r \in Nat \ {0} /\ r = a[last + 1] /\ last \in Nat
  BY <1>1, RecoveredHolds, LastIsMax DEF IsRecovery
<1> HIDE DEF r
<1>3. SUFFICES ASSUME r <= n PROVE FALSE
  BY <1>2 DEF r
<1>4. Skipped(files, a, r)
  <2>0. PICK no \in DOMAIN files : \E i \in 1..Len(files[no]) : files[no][i] = r
    <3>1. r \in 1..n
      BY <1>2, <1>3
    <3> QED BY <3>1 DEF Holds
  <2>1. PICK i \in 1..Len(files[no]) : files[no][i] = r
    BY <2>0
  <2>2. /\ files[no] \in Seq(Nat) /\ no \in 0..last
        /\ Len(files[no]) \in 0..Len(files[no]) /\ i \in 0..Len(files[no])
    BY <1>2 DEF IsDirectory
  <2>3. a[no] \in Nat /\ a[no + 1] \in Nat
    BY <1>1, <2>2, RecoverySteps
  <2>4. PICK b : IsReplay(b, files[no], a[no])
    BY <2>2, <2>3, ReplayRuns
  <2>5. b[i] \in Nat /\ b[i] <= b[Len(files[no])]
    BY <2>2, <2>3, <2>4, ReplayGrows
  <2>6. a[no + 1] = b[Len(files[no])]
    <3>1. b[Len(files[no])] = Replay(files[no], a[no])
      BY <2>4 DEF IsReplay
    <3> QED BY <1>1, <2>2, <3>1 DEF IsRecovery
  <2>7. a[no + 1] <= a[last + 1]
    <3>1. no + 1 \in 0..(last + 1) /\ last + 1 \in 0..(last + 1) /\ no + 1 <= last + 1
      BY <1>2, <2>2
    <3> QED BY <1>1, <3>1, RecoveryGrows
  <2>8. b[i] <= r
    BY <1>2, <2>3, <2>5, <2>6, <2>7
  <2> QED BY <2>1, <2>4, <2>8, Zenon DEF Skipped
<1>5. PICK event \in Bad : \A s \in Bad : event <= s
  <2>1. Bad \in SUBSET Nat /\ r \in Bad
    BY <1>2, <1>3, <1>4
  <2> QED BY <2>1, Zenon DEF Laws, MinLaw
<1>6. \A e \in 1..n : e < event => ~Skipped(files, a, e)
  BY <1>5
<1> QED BY <1>1, <1>5, <1>6, SkippedFirst

-----------------------------------------------------------------------------
\* A page remains one while events are logged.
LEMMA PageStays ==
  ASSUME NEW limit \in Nat, NEW more \in Nat, limit <= more, NEW data, IsPage(data, limit)
  PROVE  IsPage(data, more)
<1>1. data \in Seq(Nat) /\ \A i \in 1..Len(data) : data[i] \in Nat /\ data[i] < limit
  BY DEF IsPage
<1>2. \A i \in 1..Len(data) : data[i] < more
  BY <1>1
<1> QED BY <1>1, <1>2 DEF IsPage

LEMMA EmptyPage == ASSUME NEW limit \in Nat PROVE IsPage(<<>>, limit)
<1>1. <<>> \in Seq(Nat) /\ Len(<<>>) = 0 /\ 1..0 = {}
  OBVIOUS
<1> QED BY <1>1, ReplicationAssumption DEF IsPage

\* The log holds pages, also when the leader writes and when it is restarted.
LEMMA PagesWrite == ASSUME PagesInv, LeaderWrite PROVE PagesInv' /\ next_event <= next_event'
<1> DEFINE full == Len(logged[current_segment]) = PageEvents
           no == IF full THEN current_segment + 1 ELSE current_segment
           x == IF full THEN Padding ELSE next_event
           grown(files) == [n \in DOMAIN files |->
                              IF n = current_segment THEN Append(files[n], x) ELSE files[n]]
<1> USE ReplicationAssumption
<1>0. /\ next_event \in Nat \ {0} /\ next_event' = next_event + 1 /\ current_segment \in Nat
      /\ current_segment \in DOMAIN logged
  BY DEF PagesInv, ArePages, LeaderWrite
<1>p. ASSUME NEW data, IsPage(data, next_event) PROVE IsPage(data, next_event')
  BY <1>0, <1>p, PageStays
<1>1. ASSUME NEW n \in DOMAIN logged
      PROVE  /\ IsPage(grown(logged)[n], next_event')
             /\ n = current_segment /\ ~full => Len(grown(logged)[n]) <= PageEvents
  <2>1. CASE n # current_segment
    <3>1. grown(logged)[n] = logged[n] /\ IsPage(logged[n], next_event)
      BY <2>1 DEF PagesInv, ArePages
    <3> QED BY <1>p, <2>1, <3>1
  <2>2. CASE n = current_segment
    <3> DEFINE data == logged[current_segment]
    <3>1. /\ IsPage(data, next_event) /\ data \in Seq(Nat) /\ Len(data) \in Nat /\ Len(data) <= PageEvents
          /\ \A i \in 1..Len(data) : data[i] \in Nat /\ data[i] < next_event
      <4>1. IsPage(data, next_event) /\ Len(data) <= PageEvents
        BY <1>0 DEF PagesInv, ArePages
      <4> HIDE DEF data
      <4> QED BY <4>1 DEF IsPage
    <3>2. grown(logged)[n] = Append(data, x)
      BY <2>2
    <3>3. x \in Nat /\ x < next_event'
      BY <1>0 DEF Padding
    <3> HIDE DEF data, x
    <3>4. /\ Append(data, x) \in Seq(Nat) /\ Len(Append(data, x)) = Len(data) + 1
          /\ Last(Append(data, x)) = x
          /\ \A i \in 1..Len(Append(data, x)) : Append(data, x)[i] < next_event'
      <4>1. Append(data, x) \in Seq(Nat) /\ Len(Append(data, x)) = Len(data) + 1
        BY <3>1, <3>3
      <4>2. \A i \in 1..Len(data) + 1 : Append(data, x)[i] = IF i <= Len(data) THEN data[i] ELSE x
        BY <3>1, <3>3
      <4>3. \A i \in 1..Len(data) : data[i] < next_event'
        BY <1>0, <3>1
      <4> QED BY <3>1, <3>3, <4>1, <4>2, <4>3 DEF Last
    <3>5. CASE full
      <4>1. x = Padding /\ Len(data) = PageEvents
        BY <3>5 DEF x, data
      <4>2. Len(Append(data, x)) <= PageEvents + 1
        BY <3>4, <4>1
      <4>3. IsPage(Append(data, x), next_event')
        BY <3>4, <4>1, <4>2 DEF IsPage
      <4> QED BY <3>2, <3>5, <4>3, Zenon
    <3>6. CASE ~full
      <4>1. Len(data) + 1 <= PageEvents
        BY <3>1, <3>6 DEF data
      <4>2. Len(Append(data, x)) <= PageEvents
        BY <3>4, <4>1
      <4>3. IsPage(Append(data, x), next_event')
        BY <3>4, <4>2 DEF IsPage
      <4> QED BY <3>2, <3>6, <4>2, <4>3, Zenon
    <3> QED BY <3>5, <3>6
  <2> QED BY <2>1, <2>2
<1>2. CASE ~full
  <2>1. /\ segments' = grown(segments) /\ logged' = grown(logged)
        /\ current_segment' = current_segment
    BY <1>2 DEF LeaderWrite
  <2>2. DOMAIN logged' = DOMAIN logged /\ DOMAIN segments' = DOMAIN segments
    BY <2>1
  <2>3. \A n \in DOMAIN segments' : segments'[n] = logged'[n]
    BY <2>1, <2>2 DEF PagesInv, ArePages
  <2>4. \A n \in DOMAIN logged' : IsPage(logged'[n], next_event')
    BY <1>1, <2>1, <2>2
  <2>5. Len(logged'[current_segment']) <= PageEvents
    BY <1>0, <1>1, <1>2, <2>1
  <2> HIDE DEF grown
  <2>6. DOMAIN logged \subseteq Nat /\ DOMAIN segments \subseteq DOMAIN logged
    BY DEF PagesInv, ArePages
  <2>7. \E last \in DOMAIN logged : \A n \in DOMAIN logged : n <= last
    BY DEF PagesInv, ArePages
  <2> QED BY <1>0, <2>1, <2>2, <2>3, <2>4, <2>5, <2>6, <2>7 DEF PagesInv, ArePages
<1>3. CASE full
  <2>1. /\ segments' = Put(grown(segments), no, <<next_event>>)
        /\ logged' = Put(grown(logged), no, <<next_event>>)
        /\ current_segment' = no /\ no = current_segment + 1 /\ no \in Nat
    BY <1>0, <1>3 DEF LeaderWrite
  <2> HIDE DEF no
  <2>2. DOMAIN logged' = DOMAIN logged \cup {no} /\ DOMAIN segments' = DOMAIN segments \cup {no}
    BY <2>1 DEF Put
  <2>3. /\ \A n \in DOMAIN logged' : logged'[n] = IF n = no THEN <<next_event>> ELSE grown(logged)[n]
        /\ \A n \in DOMAIN segments' :
             segments'[n] = IF n = no THEN <<next_event>> ELSE grown(segments)[n]
    BY <2>1, <2>2 DEF Put
  <2>4. DOMAIN logged \subseteq Nat /\ DOMAIN segments \subseteq DOMAIN logged
    BY DEF PagesInv, ArePages
  <2>5. \A n \in DOMAIN segments' : segments'[n] = logged'[n]
    BY <2>2, <2>3, <2>4, ZenonT(30) DEF PagesInv, ArePages
  <2>6. IsPage(<<next_event>>, next_event') /\ Len(<<next_event>>) <= PageEvents
    <3>1. <<next_event>> \in Seq(Nat) /\ Len(<<next_event>>) = 1 /\ <<next_event>>[1] = next_event
      BY <1>0
    <3> QED BY <1>0, <3>1 DEF IsPage
  <2> HIDE DEF grown
  <2>7. \A n \in DOMAIN logged' : IsPage(logged'[n], next_event')
    BY <1>1, <2>2, <2>3, <2>6
  <2>8. current_segment' \in DOMAIN logged' /\ Len(logged'[current_segment']) <= PageEvents
    BY <2>1, <2>2, <2>3, <2>6, Zenon
  <2>9. \E last \in DOMAIN logged' : \A n \in DOMAIN logged' : n <= last
    <3>1. PICK last \in DOMAIN logged : \A n \in DOMAIN logged : n <= last
      BY DEF PagesInv, ArePages
    <3>2. CASE no <= last
      BY <2>2, <3>1, <3>2
    <3>3. CASE last <= no
      <4>1. \A n \in DOMAIN logged : n <= no
        BY <2>1, <2>4, <3>1, <3>3
      <4> QED BY <2>1, <2>2, <4>1
    <3> QED BY <2>1, <2>4, <3>2, <3>3
  <2>10. DOMAIN logged' \subseteq Nat /\ DOMAIN segments' \subseteq DOMAIN logged'
    BY <2>1, <2>2, <2>4
  <2> QED BY <1>0, <2>5, <2>7, <2>8, <2>9, <2>10 DEF PagesInv, ArePages
<1> QED BY <1>2, <1>3

LEMMA PagesRestart == ASSUME Laws, PagesInv, LeaderRestart PROVE PagesInv' /\ next_event' = next_event
<1> DEFINE no == Max(DOMAIN segments \cup {-1}) + 1
<1> USE ReplicationAssumption
<1>1. /\ segments' = Put(segments, no, <<>>) /\ logged' = Put(logged, no, <<>>)
      /\ current_segment' = no /\ next_event' = next_event
  BY DEF LeaderRestart
<1>2. no \in Nat
  <2>1. PICK last \in DOMAIN logged : \A n \in DOMAIN logged : n <= last
    BY DEF PagesInv, ArePages
  <2>2. DOMAIN segments \in SUBSET Nat /\ last \in Nat /\ \A n \in DOMAIN segments : n <= last
    BY <2>1 DEF PagesInv, ArePages
  <2>3. Max(DOMAIN segments \cup {-1}) \in DOMAIN segments \cup {-1}
    BY <2>2, MaxOfDirectory, Zenon
  <2> QED BY <2>2, <2>3
<1> HIDE DEF no
<1>3. DOMAIN logged' = DOMAIN logged \cup {no} /\ DOMAIN segments' = DOMAIN segments \cup {no}
  BY <1>1 DEF Put
<1>4. /\ \A n \in DOMAIN logged' : logged'[n] = IF n = no THEN <<>> ELSE logged[n]
      /\ \A n \in DOMAIN segments' : segments'[n] = IF n = no THEN <<>> ELSE segments[n]
  BY <1>1, <1>3 DEF Put
<1>5. DOMAIN logged \subseteq Nat /\ DOMAIN segments \subseteq DOMAIN logged
      /\ next_event \in Nat \ {0}
  BY DEF PagesInv, ArePages
<1>6. \A n \in DOMAIN segments' : segments'[n] = logged'[n]
  BY <1>3, <1>4, <1>5 DEF PagesInv, ArePages
<1>7. IsPage(<<>>, next_event)
  BY <1>5, EmptyPage
<1>8. \A n \in DOMAIN logged' : IsPage(logged'[n], next_event')
  BY <1>1, <1>3, <1>4, <1>7 DEF PagesInv, ArePages
<1>9. current_segment' \in DOMAIN logged' /\ Len(logged'[current_segment']) <= PageEvents
  <2>1. Len(<<>>) = 0
    OBVIOUS
  <2> QED BY <1>1, <1>3, <1>4, <2>1
<1>10. \E last \in DOMAIN logged' : \A n \in DOMAIN logged' : n <= last
  <2>1. PICK last \in DOMAIN logged : \A n \in DOMAIN logged : n <= last
    BY DEF PagesInv, ArePages
  <2>2. CASE no <= last
    BY <1>3, <2>1, <2>2
  <2>3. CASE last <= no
    <3>1. \A n \in DOMAIN logged : n <= no
      BY <1>2, <1>5, <2>1, <2>3
    <3> QED BY <1>2, <1>3, <3>1
  <2> QED BY <1>2, <1>5, <2>2, <2>3
<1>11. DOMAIN logged' \subseteq Nat /\ DOMAIN segments' \subseteq DOMAIN logged'
  BY <1>2, <1>3, <1>5
<1>12. next_event' \in Nat \ {0}
  BY <1>1, <1>5
<1> QED BY <1>1, <1>6, <1>8, <1>9, <1>10, <1>11, <1>12 DEF PagesInv, ArePages

\* Which steps change the leader's log.
LEMMA LeaderChanges ==
  ASSUME [ReplNext]_replVars
  PROVE  UNCHANGED logVars \/ LeaderWrite \/ LeaderRestart \/ CleanRemove
<1>1. ASSUME NEW f \in Follower,
             PumpStep(f) \/ StreamBreaks(f) \/ FollowerStep(f) \/ FollowerCrash(f)
      PROVE  UNCHANGED leaderVars
  BY <1>1, Zenon DEF PumpStep, PumpPoll, PumpWrite, PumpWriteDone, StreamBreaks, FollowerStep,
              FollowerConnect, FollowerStreamEnd, FollowerReceive, FollowerMirror,
              FollowerApply, FollowerCrash
<1>2. ASSUME NEW token, OnDone(token) PROVE UNCHANGED leaderVars
  BY <1>2 DEF OnDone
<1>3. UNCHANGED leaderVars => UNCHANGED logVars
  BY DEF leaderVars
<1>4. CleanStart \/ CleanRead \/ UNCHANGED replVars => UNCHANGED logVars
  BY Zenon DEF CleanStart, CleanRead, replVars, logVars
<1> QED BY <1>1, <1>2, <1>3, <1>4 DEF ReplNext

LEMMA PagesStep ==
  ASSUME Laws, PagesInv, [ReplNext]_replVars
  PROVE  /\ PagesInv' /\ next_event \in Nat \ {0} /\ next_event' \in Nat \ {0}
         /\ next_event <= next_event'
<1>0. next_event \in Nat \ {0}
  BY DEF PagesInv, ArePages
<1>1. CASE UNCHANGED logVars
  <2>1. UNCHANGED <<segments, current_segment, next_event, logged>>
    BY <1>1 DEF logVars
  <2>2. PagesInv'
    BY <2>1 DEF PagesInv, ArePages
  <2> QED BY <1>0, <2>1, <2>2
<1>2. CASE LeaderWrite
  BY <1>0, <1>2, PagesWrite DEF PagesInv, ArePages
<1>3. CASE LeaderRestart
  BY <1>0, <1>3, PagesRestart DEF PagesInv, ArePages
<1>4. CASE CleanRemove
  <2>1. UNCHANGED <<current_segment, next_event, logged>>
    BY <1>4 DEF CleanRemove
  <2>2. \/ segments' = segments
        \/ \E no : segments' = [n \in DOMAIN segments \ {no} |-> segments[n]]
    BY <1>4, Zenon DEF CleanRemove
  <2>3. DOMAIN segments' \subseteq DOMAIN segments
        /\ \A n \in DOMAIN segments' : segments'[n] = segments[n]
    BY <2>2, Zenon
  <2>4. PagesInv'
    BY <2>1, <2>3 DEF PagesInv, ArePages
  <2> QED BY <1>0, <2>1, <2>4
<1> QED BY <1>1, <1>2, <1>3, <1>4, LeaderChanges

\* A directory gets a page.
LEMMA PagesPut ==
  ASSUME NEW limit \in Nat, NEW files, ArePages(files, limit),
         NEW no \in Nat, NEW data, IsPage(data, limit)
  PROVE  ArePages(Put(files, no, data), limit)
<1> DEFINE put == Put(files, no, data)
<1>1. /\ DOMAIN put = DOMAIN files \cup {no}
      /\ \A n \in DOMAIN put : put[n] = IF n = no THEN data ELSE files[n]
  BY DEF Put
<1> HIDE DEF put
<1>2. \A n \in DOMAIN put : n \in Nat /\ IsPage(put[n], limit)
  BY <1>1 DEF ArePages
<1>3. \E last \in DOMAIN put : \A n \in DOMAIN put : n <= last
  <2>1. PICK last \in DOMAIN files : \A n \in DOMAIN files : n <= last
    BY DEF ArePages
  <2>2. CASE no <= last
    BY <1>1, <2>1, <2>2
  <2>3. CASE last <= no
    <3>1. \A n \in DOMAIN files : n <= no
      BY <2>1, <2>3 DEF ArePages
    <3> QED BY <1>1, <3>1
  <2> QED BY <2>1, <2>2, <2>3 DEF ArePages
<1>4. ArePages(put, limit)
  BY <1>2, <1>3 DEF ArePages
<1> QED BY <1>4 DEF put

\* What the streams hold and how far they are.
LEMMA StreamTypesStep ==
  ASSUME Laws, TypesInv, [ReplNext]_replVars, NEW g \in Follower
  PROVE  /\ DOMAIN stream'[g].pages \subseteq Nat
         /\ \A no \in DOMAIN stream'[g].pages : IsPage(stream'[g].pages[no], next_event')
         /\ stream'[g].next_page \in {0, 1} /\ stream'[g].tail_sent_size \in -1..PageEvents
<1> DEFINE s == stream[g]
           t == stream'[g]
           Good(r) == /\ DOMAIN r.pages \subseteq Nat
                      /\ \A no \in DOMAIN r.pages : IsPage(r.pages[no], next_event')
                      /\ r.next_page \in {0, 1} /\ r.tail_sent_size \in -1..PageEvents
<1> USE ReplicationAssumption
<1>0. /\ Shape /\ PagesInv /\ FollowerPagesInv(g)
      /\ next_event \in Nat /\ next_event' \in Nat /\ next_event <= next_event'
  BY PagesStep DEF TypesInv
<1>p. ASSUME NEW data, IsPage(data, next_event) PROVE IsPage(data, next_event')
  BY <1>0, <1>p, PageStays
<1>s. DOMAIN s = DOMAIN Closed
  BY <1>0 DEF Shape
<1>1. Good(s)
  <2>1. \A no \in DOMAIN s.pages : IsPage(s.pages[no], next_event)
    BY <1>0 DEF FollowerPagesInv
  <2> QED BY <1>0, <1>p, <2>1 DEF FollowerPagesInv
<1>2. Good(Closed)
  BY DEF Closed, NoPages
<1> HIDE DEF s, t
<1>3. ASSUME t = s \/ t = Closed PROVE Good(t)
  BY <1>1, <1>2, <1>3
<1>4. ASSUME t = [s EXCEPT !.pages = CollectPagesFrom(s.next_segment, s.next_page)] PROVE Good(t)
  <2> DEFINE pages == CollectPagesFrom(s.next_segment, s.next_page)
  <2>1. DOMAIN pages \subseteq DOMAIN segments /\ \A no \in DOMAIN pages : pages[no] = segments[no]
    BY DEF CollectPagesFrom
  <2> HIDE DEF pages
  <2>2. \A no \in DOMAIN segments : no \in Nat /\ IsPage(segments[no], next_event)
    BY <1>0 DEF PagesInv, ArePages
  <2>3. \A no \in DOMAIN pages : no \in Nat /\ IsPage(pages[no], next_event')
    BY <1>p, <2>1, <2>2
  <2>4. t.pages = pages /\ t.next_page = s.next_page /\ t.tail_sent_size = s.tail_sent_size
    BY <1>4, <1>s DEF Closed, pages
  <2> QED BY <1>1, <2>3, <2>4
<1>5. ASSUME t = [s EXCEPT !.write_pending = TRUE] PROVE Good(t)
  <2>1. t.pages = s.pages /\ t.next_page = s.next_page /\ t.tail_sent_size = s.tail_sent_size
    BY <1>5, <1>s DEF Closed
  <2> QED BY <1>1, <2>1
<1>6. ASSUME NEW no \in DOMAIN s.pages, t = Sent(s, no) PROVE Good(t)
  <2>0. DOMAIN s = {"open", "token", "next_segment", "next_page", "tail_sent_size", "pages",
                    "write_pending", "from"}
    BY <1>s DEF Closed
  <2>1. CASE IsComplete(s.pages[no])
    <3>1. /\ t.pages = [n \in DOMAIN s.pages \ {no} |-> s.pages[n]]
          /\ t.next_page = 1 /\ t.tail_sent_size = -1
      BY <1>6, <2>0, <2>1 DEF Sent
    <3>2. DOMAIN t.pages \subseteq DOMAIN s.pages /\ \A n \in DOMAIN t.pages : t.pages[n] = s.pages[n]
      BY <3>1
    <3> QED BY <1>1, <3>1, <3>2
  <2>2. CASE ~IsComplete(s.pages[no])
    <3>1. t.pages = NoPages /\ t.next_page = 0 /\ t.tail_sent_size = Len(s.pages[no])
      BY <1>6, <2>0, <2>2 DEF Sent
    <3>2. IsPage(s.pages[no], next_event')
      BY <1>1, <1>6
    <3>3. Len(s.pages[no]) \in 0..PageEvents
      <4>1. s.pages[no] \in Seq(Nat) /\ Len(s.pages[no]) \in Nat
        BY <3>2 DEF IsPage
      <4>2. s.pages[no] = <<>> \/ Last(s.pages[no]) # Padding
        BY <2>2 DEF IsComplete
      <4>3. s.pages[no] = <<>> => Len(s.pages[no]) = 0
        OBVIOUS
      <4> QED BY <3>2, <4>1, <4>2, <4>3 DEF IsPage
    <3>4. DOMAIN NoPages = {}
      BY DEF NoPages
    <3> QED BY <3>1, <3>3, <3>4
  <2> QED BY <2>1, <2>2
<1>7. ASSUME NEW no, t = [Closed EXCEPT !.open = TRUE, !.token = next_token, !.from = no,
                                        !.next_segment = no]
      PROVE  Good(t)
  <2>1. /\ t.pages = Closed.pages /\ t.next_page = Closed.next_page
        /\ t.tail_sent_size = Closed.tail_sent_size
    BY <1>7 DEF Closed
  <2> QED BY <1>2, <2>1
<1> HIDE DEF Good
<1>8. Good(t)
  BY <1>0, <1>3, <1>4, <1>5, <1>6, <1>7, StreamChanges, ZenonT(30) DEF s, t
<1> QED BY <1>8 DEF Good, t

\* An open stream is registered: OnDone unregisters only a stream that is closed.
LEMMA TokenStep ==
  ASSUME TypesInv, [ReplNext]_replVars, NEW g \in Follower
  PROVE  stream'[g].open => stream'[g].token \in DOMAIN registry'
<1>0. Shape /\ (stream[g].open => stream[g].token \in DOMAIN registry)
  BY Zenon DEF TypesInv, FollowerPagesInv
<1>c. ~Closed.open
  BY DEF Closed
<1>1. CASE LeaderRestart
  BY <1>1, <1>c DEF LeaderRestart
<1>2. ASSUME NEW token, OnDone(token) PROVE stream'[g].open => stream'[g].token \in DOMAIN registry'
  <2>1. stream'[g] = stream[g] /\ (stream[g].open => stream[g].token # token)
        /\ registry' = Unregister(token)
    BY <1>2 DEF OnDone
  <2> QED BY <1>0, <2>1 DEF Unregister
<1>3. CASE DOMAIN registry \subseteq DOMAIN registry'
  <2>1. CASE stream'[g] = stream[g] \/ stream'[g] = Closed
    BY <1>0, <1>3, <1>c, <2>1
  <2>2. ASSUME NEW p, stream'[g] = [stream[g] EXCEPT !.pages = p]
        PROVE  stream'[g].open => stream'[g].token \in DOMAIN registry'
    BY <1>0, <1>3, <2>2 DEF Shape, Closed
  <2>3. CASE stream'[g] = [stream[g] EXCEPT !.write_pending = TRUE]
    BY <1>0, <1>3, <2>3 DEF Shape, Closed
  <2>4. ASSUME NEW no, stream'[g] = Sent(stream[g], no)
        PROVE  stream'[g].open => stream'[g].token \in DOMAIN registry'
    <3>1. stream'[g].open = stream[g].open /\ stream'[g].token = stream[g].token
      BY <1>0, <2>4 DEF Shape, Closed, Sent
    <3> QED BY <1>0, <1>3, <3>1
  <2>5. CASE FollowerConnect(g)
    <3>1. registry' = Put(registry, next_token, NextSegmentToFetch(mirror[g]))
      BY <2>5 DEF FollowerConnect, Register
    <3>2. stream'[g] = [Closed EXCEPT !.open = TRUE, !.token = next_token,
                          !.from = NextSegmentToFetch(mirror[g]),
                          !.next_segment = NextSegmentToFetch(mirror[g])]
      BY <1>0, <2>5 DEF FollowerConnect, Shape
    <3>3. stream'[g].token = next_token
      BY <3>2 DEF Closed
    <3> QED BY <3>1, <3>3 DEF Put
  <2> QED BY <1>0, <2>1, <2>2, <2>3, <2>4, <2>5, StreamChanges, ZenonT(30)
<1>4. LeaderRestart \/ DOMAIN registry \subseteq DOMAIN registry' \/ \E token : OnDone(token)
  <2>1. ASSUME NEW f \in Follower, PumpWriteDone(f) PROVE DOMAIN registry \subseteq DOMAIN registry'
    BY <2>1 DEF PumpWriteDone, Update
  <2>2. ASSUME NEW f \in Follower, FollowerConnect(f) PROVE DOMAIN registry \subseteq DOMAIN registry'
    BY <2>2 DEF FollowerConnect, Register, Put
  <2>3. ASSUME NEW f \in Follower,
               \/ PumpPoll(f) \/ PumpWrite(f) \/ StreamBreaks(f) \/ FollowerStreamEnd(f)
               \/ FollowerReceive(f) \/ FollowerMirror(f) \/ FollowerApply(f) \/ FollowerCrash(f)
        PROVE  UNCHANGED registry
    BY <2>3, ZenonT(30) DEF PumpPoll, PumpWrite, StreamBreaks, FollowerStreamEnd, FollowerReceive,
                FollowerMirror, FollowerApply, FollowerCrash, registryVars
  <2>4. LeaderWrite \/ CleanStart \/ CleanRead \/ CleanRemove \/ UNCHANGED replVars =>
          UNCHANGED registry
    BY ZenonT(30) DEF LeaderWrite, CleanStart, CleanRead, CleanRemove, replVars, registryVars
  <2> QED BY <2>1, <2>2, <2>3, <2>4 DEF ReplNext, PumpStep, FollowerStep
<1> QED BY <1>1, <1>2, <1>3, <1>4

\* What is in flight are pages.
LEMMA NetworkTypesStep ==
  ASSUME Laws, TypesInv, [ReplNext]_replVars, NEW g \in Follower
  PROVE  /\ network'[g] \in Seq([segment : Nat, data : Seq(Nat)])
         /\ \A i \in DOMAIN network'[g] : IsPage(network'[g][i].data, next_event')
<1> DEFINE Message == [segment : Nat, data : Seq(Nat)]
           m == network[g]
<1>0. /\ Shape /\ m \in Seq(Message)
      /\ next_event \in Nat /\ next_event' \in Nat /\ next_event <= next_event'
  BY PagesStep, Zenon DEF TypesInv, FollowerPagesInv
<1>p. ASSUME NEW data, IsPage(data, next_event) PROVE IsPage(data, next_event')
  BY <1>0, <1>p, PageStays
<1>1. \A i \in DOMAIN m : IsPage(m[i].data, next_event')
  BY <1>p, Zenon DEF TypesInv, FollowerPagesInv
<1>2. CASE network'[g] = m
  BY <1>0, <1>1, <1>2
<1>3. CASE network'[g] = <<>>
  BY <1>3
<1>4. ASSUME NEW no \in DOMAIN stream[g].pages,
             network'[g] = Append(m, [segment |-> no, data |-> stream[g].pages[no]])
      PROVE  /\ network'[g] \in Seq(Message)
             /\ \A i \in DOMAIN network'[g] : IsPage(network'[g][i].data, next_event')
  <2> DEFINE x == [segment |-> no, data |-> stream[g].pages[no]]
  <2>1. no \in Nat /\ IsPage(stream[g].pages[no], next_event)
    BY <1>4, ZenonT(30) DEF TypesInv, FollowerPagesInv
  <2>2. IsPage(x.data, next_event') /\ stream[g].pages[no] \in Seq(Nat)
    BY <1>p, <2>1, Zenon DEF IsPage
  <2>3. x \in Message
    BY <2>1, <2>2
  <2> HIDE DEF x, m, Message
  <2>4. Append(m, x) \in Seq(Message) /\ DOMAIN Append(m, x) = 1..(Len(m) + 1) /\ Len(m) \in Nat
    BY <1>0, <2>3
  <2>5. \A i \in 1..(Len(m) + 1) : Append(m, x)[i] = IF i <= Len(m) THEN m[i] ELSE x
    BY <1>0, <2>3
  <2>6. \A i \in 1..(Len(m) + 1) : i <= Len(m) => i \in DOMAIN m
    BY <1>0
  <2>7. network'[g] = Append(m, x)
    BY <1>4 DEF x, m
  <2> QED BY <1>1, <2>2, <2>4, <2>5, <2>6, <2>7, ZenonT(30)
<1>5. ASSUME m # <<>>, network'[g] = Tail(m)
      PROVE  /\ network'[g] \in Seq(Message)
             /\ \A i \in DOMAIN network'[g] : IsPage(network'[g][i].data, next_event')
  <2> HIDE DEF m, Message
  <2>1. Tail(m) \in Seq(Message) /\ DOMAIN Tail(m) = 1..(Len(m) - 1) /\ Len(m) \in Nat
    BY <1>0, <1>5
  <2>2. \A i \in 1..(Len(m) - 1) : Tail(m)[i] = m[i + 1] /\ i + 1 \in DOMAIN m
    BY <1>0, <1>5
  <2> QED BY <1>1, <1>5, <2>1, <2>2
<1> QED BY <1>0, <1>2, <1>3, <1>4, <1>5, NetworkChanges, ZenonT(30)

\* The mirrors hold pages.
LEMMA MirrorTypesStep ==
  ASSUME Laws, TypesInv, [ReplNext]_replVars, NEW g \in Follower
  PROVE  ArePages(mirror'[g], next_event')
<1> DEFINE files == mirror[g]
           Message == [segment : Nat, data : Seq(Nat)]
<1>0. /\ Shape /\ FollowerPagesInv(g)
      /\ next_event \in Nat /\ next_event' \in Nat /\ next_event <= next_event'
  BY PagesStep DEF TypesInv
<1>p. ASSUME NEW data, IsPage(data, next_event) PROVE IsPage(data, next_event')
  BY <1>0, <1>p, PageStays
<1>1. ArePages(files, next_event')
  BY <1>0, <1>p, Zenon DEF FollowerPagesInv, ArePages
<1>e. IsPage(<<>>, next_event')
  BY <1>0, EmptyPage
<1>2. CASE mirror'[g] = files
  BY <1>1, <1>2
<1>3. CASE FollowerReceive(g) /\ mirror'[g] = Put(files, Head(network[g]).segment, <<>>)
  <2>1. network[g] # <<>> /\ network[g] \in Seq(Message)
    BY <1>0, <1>3 DEF FollowerReceive, FollowerPagesInv
  <2>2. Head(network[g]).segment \in Nat
    <3> HIDE DEF Message
    <3>1. Head(network[g]) \in Message
      BY <2>1
    <3> QED BY <3>1 DEF Message
  <2> HIDE DEF files
  <2> DEFINE no == Head(network[g]).segment
  <2> HIDE DEF no
  <2>3. no \in Nat /\ mirror'[g] = Put(files, no, <<>>)
    BY <1>3, <2>2 DEF no
  <2> QED BY <1>0, <1>1, <1>e, <2>3, PagesPut
<1>4. CASE FollowerMirror(g) /\
           mirror'[g] = [files EXCEPT ![follower[g].page.segment] = follower[g].page.data]
  <2>1. IsPage(follower[g].page.data, next_event')
    BY <1>0, <1>p DEF FollowerPagesInv
  <2> HIDE DEF files
  <2> QED BY <1>1, <1>4, <2>1 DEF ArePages
<1>5. CASE mirror'[g] = Put(files, Max(DOMAIN files) + 1, <<>>)
  <2> HIDE DEF files
  <2> DEFINE no == Max(DOMAIN files) + 1
  <2>1. no \in Nat
    BY <1>1, MirrorMax DEF ArePages
  <2> HIDE DEF no
  <2>2. mirror'[g] = Put(files, no, <<>>)
    BY <1>5 DEF no
  <2> QED BY <1>0, <1>1, <1>e, <2>1, <2>2, PagesPut
<1> QED BY <1>0, <1>2, <1>3, <1>4, <1>5, MirrorChanges, Zenon

\* What a follower works on is a page, whose file is there when it is written.
LEMMA FollowerTypesStep ==
  ASSUME Laws, TypesInv, [ReplNext]_replVars, NEW g \in Follower
  PROVE  /\ follower'[g].pc \in {"connect", "reading", "mirror", "apply"}
         /\ follower'[g].page \in [segment : Nat, data : Seq(Nat)]
         /\ IsPage(follower'[g].page.data, next_event')
         /\ follower'[g].pc = "mirror" => follower'[g].page.segment \in DOMAIN mirror'[g]
<1>0. /\ Shape /\ FollowerPagesInv(g)
      /\ next_event \in Nat /\ next_event' \in Nat /\ next_event <= next_event'
  BY PagesStep DEF TypesInv
<1>p. ASSUME NEW data, IsPage(data, next_event) PROVE IsPage(data, next_event')
  BY <1>0, <1>p, PageStays
<1>1. /\ follower[g].page \in [segment : Nat, data : Seq(Nat)]
      /\ IsPage(follower[g].page.data, next_event')
      /\ follower[g].pc = "mirror" => follower[g].page.segment \in DOMAIN mirror[g]
  BY <1>0, <1>p DEF FollowerPagesInv
<1>2. NoPage \in [segment : Nat, data : Seq(Nat)] /\ IsPage(NoPage.data, next_event')
  BY <1>0, EmptyPage DEF NoPage
<1>3. ASSUME network[g] # <<>>
      PROVE  /\ Head(network[g]) \in [segment : Nat, data : Seq(Nat)]
             /\ IsPage(Head(network[g]).data, next_event')
  <2> DEFINE Message == [segment : Nat, data : Seq(Nat)]
  <2>1. network[g] \in Seq(Message)
    BY <1>0 DEF FollowerPagesInv
  <2> HIDE DEF Message
  <2>2. Head(network[g]) = network[g][1] /\ 1 \in DOMAIN network[g] /\ Head(network[g]) \in Message
    BY <1>3, <2>1
  <2>3. IsPage(Head(network[g]).data, next_event)
    BY <1>0, <2>2, ZenonT(30) DEF FollowerPagesInv
  <2> QED BY <1>p, <2>2, <2>3 DEF Message
<1>4. follower'[g].pc \in {"connect", "reading", "mirror", "apply"}
  <2>1. ASSUME NEW f \in Follower, FollowerStep(f) \/ FollowerCrash(f)
        PROVE  \/ follower'[g].pc = follower[g].pc
               \/ follower'[g].pc \in {"connect", "reading", "mirror", "apply"}
    BY <1>0, <2>1 DEF FollowerStep, FollowerConnect, FollowerStreamEnd, FollowerReceive,
                      FollowerMirror, FollowerApply, FollowerCrash, Shape
  <2>2. UNCHANGED follower \/ \E f \in Follower : FollowerStep(f) \/ FollowerCrash(f)
    BY DEF ReplNext, LeaderWrite, LeaderRestart, CleanStart, CleanRead, CleanRemove, PumpStep,
           PumpPoll, PumpWrite, PumpWriteDone, StreamBreaks, OnDone, followerVars, replVars
  <2> QED BY <1>0, <2>1, <2>2, ZenonT(30) DEF FollowerPagesInv
<1>5. /\ follower'[g].page \in [segment : Nat, data : Seq(Nat)]
      /\ IsPage(follower'[g].page.data, next_event')
  BY <1>0, <1>1, <1>2, <1>3, FollowerChanges, ZenonT(30)
<1>6. ASSUME follower'[g].pc = "mirror" PROVE follower'[g].page.segment \in DOMAIN mirror'[g]
  <2>1. CASE follower'[g] = follower[g]
    <3>1. DOMAIN mirror[g] \subseteq DOMAIN mirror'[g]
      BY <1>0, MirrorChanges, Zenon DEF Put
    <3> QED BY <1>1, <1>6, <2>1, <3>1
  <2>2. CASE FollowerReceive(g) /\ follower'[g].page = Head(network[g])
    <3>1. mirror'[g] = Put(mirror[g], Head(network[g]).segment, <<>>)
      BY <1>0, <2>2 DEF FollowerReceive, Shape
    <3> QED BY <2>2, <3>1 DEF Put
  <2> QED BY <1>0, <1>6, <2>1, <2>2, FollowerChanges, Zenon
<1> QED BY <1>4, <1>5, <1>6

\* An event that is in a page was logged.
LEMMA HeldIsLogged ==
  ASSUME NEW limit \in Nat, NEW data, IsPage(data, limit), NEW i \in 1..Len(data)
  PROVE  data[i] \in Nat /\ data[i] < limit
  BY DEF IsPage

\* A follower has applied only what was logged.
LEMMA NextSeqNoStep ==
  ASSUME Laws, TypesInv, [ReplNext]_replVars, NEW g \in Follower
  PROVE  follower'[g].next_seq_no \in 1..next_event'
<1>0. /\ Shape /\ FollowerPagesInv(g)
      /\ next_event \in Nat \ {0} /\ next_event' \in Nat \ {0} /\ next_event <= next_event'
  BY PagesStep DEF TypesInv
<1>1. follower[g].next_seq_no \in 1..next_event
  BY <1>0 DEF FollowerPagesInv
<1>2. CASE follower'[g].next_seq_no = follower[g].next_seq_no
  BY <1>0, <1>1, <1>2
<1>3. CASE FollowerApply(g)
  <2> DEFINE data == follower[g].page.data
             next == follower[g].next_seq_no
             r == Replay(data, next)
  <2>1. IsPage(data, next_event) /\ data \in Seq(Nat) /\ next \in Nat
    <3>1. IsPage(data, next_event)
      BY <1>0, Zenon DEF FollowerPagesInv
    <3>2. data \in Seq(Nat)
      BY <3>1, Zenon DEF IsPage
    <3> QED BY <1>0, <1>1, <3>1, <3>2
  <2>2. follower'[g].next_seq_no = r
    <3>1. follower' = [follower EXCEPT ![g].pc = "reading", ![g].page = NoPage,
                                       ![g].next_seq_no = r]
      BY <1>3 DEF FollowerApply
    <3> HIDE DEF r
    <3> QED BY <1>0, <3>1 DEF Shape
  <2> HIDE DEF data, r
  <2>3. /\ r \in Nat /\ next <= r
        /\ \A event \in Nat : next <= event /\ event < r => \E i \in 1..Len(data) : data[i] = event
    BY <2>1, ReplayBounds, Zenon DEF r
  <2>4. r <= next_event
    <3>1. CASE r = next
      BY <1>1, <3>1
    <3>2. CASE r # next
      <4>1. r - 1 \in Nat /\ next <= r - 1 /\ r - 1 < r
        BY <2>1, <2>3, <3>2
      <4>2. PICK i \in 1..Len(data) : data[i] = r - 1
        BY <2>3, <4>1
      <4>3. r - 1 < next_event
        BY <1>0, <2>1, <4>2, HeldIsLogged
      <4> QED BY <1>0, <2>3, <4>3
    <3> QED BY <3>1, <3>2
  <2> QED BY <1>0, <1>1, <2>2, <2>3, <2>4
<1>4. CASE FollowerCrash(g)
  <2> DEFINE files == mirror[g]
             r == Recovered(files)
  <2>1. follower'[g].next_seq_no = r
    <3>1. follower' = [follower EXCEPT ![g].pc = "connect", ![g].page = NoPage,
                                       ![g].next_seq_no = r]
      BY <1>4 DEF FollowerCrash
    <3> HIDE DEF r
    <3> QED BY <1>0, <3>1 DEF Shape
  <2>2. PICK last : IsDirectory(files, last)
    BY <1>0, ZenonT(30) DEF FollowerPagesInv, ArePages, IsDirectory, IsPage
  <2>3. \A no \in DOMAIN files : IsPage(files[no], next_event)
    BY <1>0, Zenon DEF FollowerPagesInv, ArePages
  <2> HIDE DEF files, r
  <2>4. r \in Nat \ {0} /\ \A event \in 1..(r - 1) : Holds(files, event)
    BY <2>2, RecoveredHolds DEF r
  <2>5. r <= next_event
    <3>1. CASE r = 1
      BY <1>0, <3>1
    <3>2. CASE r # 1
      <4>1. r - 1 \in 1..(r - 1)
        BY <2>4, <3>2
      <4>2. Holds(files, r - 1)
        BY <2>4, <4>1
      <4>3. PICK no \in DOMAIN files : \E i \in 1..Len(files[no]) : files[no][i] = r - 1
        BY <4>2 DEF Holds
      <4>4. r - 1 < next_event
        BY <1>0, <2>3, <4>3, HeldIsLogged
      <4> QED BY <1>0, <2>4, <4>4
    <3> QED BY <3>1, <3>2
  <2> QED BY <1>0, <2>1, <2>4, <2>5
<1>5. \/ follower'[g].next_seq_no = follower[g].next_seq_no
      \/ FollowerApply(g) \/ FollowerCrash(g)
  <2>1. ASSUME NEW f \in Follower, f # g, FollowerStep(f) \/ FollowerCrash(f)
        PROVE  follower'[g] = follower[g]
    BY <1>0, <2>1 DEF FollowerStep, FollowerConnect, FollowerStreamEnd, FollowerReceive,
                      FollowerMirror, FollowerApply, FollowerCrash, Shape
  <2>2. CASE FollowerConnect(g) \/ FollowerStreamEnd(g) \/ FollowerReceive(g) \/ FollowerMirror(g)
    BY <1>0, <2>2 DEF FollowerConnect, FollowerStreamEnd, FollowerReceive, FollowerMirror, Shape
  <2>3. UNCHANGED follower \/ \E f \in Follower : FollowerStep(f) \/ FollowerCrash(f)
    BY DEF ReplNext, LeaderWrite, LeaderRestart, CleanStart, CleanRead, CleanRemove, PumpStep,
           PumpPoll, PumpWrite, PumpWriteDone, StreamBreaks, OnDone, followerVars, replVars
  <2> QED BY <2>1, <2>2, <2>3 DEF FollowerStep
<1> QED BY <1>2, <1>3, <1>4, <1>5

LEMMA TypesInit == ASSUME ReplInit PROVE TypesInv
<1> USE DEF ReplInit
<1>0. Shape
  BY ReplicaInit, ZenonT(30) DEF ReplicaInv
<1>1. next_event = 1 /\ IsPage(<<>>, next_event)
  BY EmptyPage
<1>2. /\ DOMAIN Put(NoPages, 0, <<>>) = {0} /\ Put(NoPages, 0, <<>>)[0] = <<>>
      /\ Len(<<>>) = 0
  BY DEF Put, NoPages
<1>3. ArePages(Put(NoPages, 0, <<>>), next_event)
  <2>1. 0 \in Nat /\ 0 <= 0
    OBVIOUS
  <2> QED BY <1>1, <1>2, <2>1, Zenon DEF ArePages
<1>4. PagesInv
  <2>1. /\ logged = Put(NoPages, 0, <<>>) /\ segments = Put(NoPages, 0, <<>>)
        /\ current_segment = 0
    BY Zenon
  <2>2. 0 <= PageEvents /\ 1 \in Nat \ {0}
    BY ReplicationAssumption
  <2> QED BY <1>1, <1>2, <1>3, <2>1, <2>2, Zenon DEF PagesInv
<1>5. ASSUME NEW f \in Follower PROVE FollowerPagesInv(f)
  <2>1. /\ ~stream[f].open /\ stream[f].next_page = 0 /\ stream[f].tail_sent_size = -1
        /\ stream[f].pages = NoPages /\ DOMAIN NoPages = {}
    BY DEF Closed, NoPages
  <2>2. network[f] = <<>> /\ <<>> \in Seq([segment : Nat, data : Seq(Nat)]) /\ DOMAIN <<>> = {}
    OBVIOUS
  <2>3. mirror[f] = Put(NoPages, 0, <<>>)
    OBVIOUS
  <2>4. /\ follower[f].pc = "connect" /\ follower[f].page.segment = 0
        /\ follower[f].page.data = <<>> /\ follower[f].next_seq_no = 1
        /\ follower[f].page \in [segment : Nat, data : Seq(Nat)]
    <3>1. <<>> \in Seq(Nat)
      OBVIOUS
    <3>2. NoPage \in [segment : Nat, data : Seq(Nat)]
      BY <3>1 DEF NoPage
    <3>3. NoPage.segment = 0 /\ NoPage.data = <<>>
      BY DEF NoPage
    <3> QED BY <3>2, <3>3
  <2>5. -1 \in -1..PageEvents /\ 1 \in 1..next_event
    BY <1>1, ReplicationAssumption
  <2> QED BY <1>1, <1>3, <2>1, <2>2, <2>3, <2>4, <2>5, ZenonT(30) DEF FollowerPagesInv
<1> QED BY <1>0, <1>4, <1>5 DEF TypesInv

\* TypesInv is inductive.
LEMMA TypesStep ==
  ASSUME Laws
  PROVE  TypesInv /\ [ReplNext]_replVars => TypesInv'
<1> SUFFICES ASSUME TypesInv, [ReplNext]_replVars PROVE TypesInv'
  OBVIOUS
<1>1. Shape' /\ PagesInv'
  BY ShapeStep, PagesStep DEF TypesInv
<1>2. ASSUME NEW f \in Follower PROVE FollowerPagesInv(f)'
  <2>1. /\ DOMAIN stream'[f].pages \subseteq Nat
        /\ \A no \in DOMAIN stream'[f].pages : IsPage(stream'[f].pages[no], next_event')
        /\ stream'[f].next_page \in {0, 1} /\ stream'[f].tail_sent_size \in -1..PageEvents
    BY StreamTypesStep
  <2>2. stream'[f].open => stream'[f].token \in DOMAIN registry'
    BY TokenStep
  <2>3. /\ network'[f] \in Seq([segment : Nat, data : Seq(Nat)])
        /\ \A i \in DOMAIN network'[f] : IsPage(network'[f][i].data, next_event')
    BY NetworkTypesStep
  <2>4. ArePages(mirror'[f], next_event')
    BY MirrorTypesStep
  <2>5. /\ follower'[f].pc \in {"connect", "reading", "mirror", "apply"}
        /\ follower'[f].page \in [segment : Nat, data : Seq(Nat)]
        /\ IsPage(follower'[f].page.data, next_event')
        /\ follower'[f].pc = "mirror" => follower'[f].page.segment \in DOMAIN mirror'[f]
    BY FollowerTypesStep
  <2>6. follower'[f].next_seq_no \in 1..next_event'
    BY NextSeqNoStep
  <2> QED BY <2>1, <2>2, <2>3, <2>4, <2>5, <2>6, Zenon DEF FollowerPagesInv
<1> QED BY <1>1, <1>2 DEF TypesInv
=============================================================================
