------------------------- MODULE ReplicationProofs -------------------------
(***************************************************************************)
(* Proofs about Replication, for any number of followers, any events and   *)
(* any page size: what is a copy of the leader's log, the types, the order *)
(* in which copies arrive, that the cleaner of the leader's log takes      *)
(* nothing away from the streams it knew of, and that what a follower has  *)
(* applied comes back from its mirror.                                     *)
(***************************************************************************)
EXTENDS ReplicationSteps

-----------------------------------------------------------------------------

\* Two beginnings of a segment of the same length.
LEMMA SamePrefix ==
  ASSUME NEW s \in Seq(Nat), NEW t \in Seq(Nat), NEW u \in Seq(Nat),
         IsPrefix(s, u), IsPrefix(t, u), Len(s) = Len(t)
  PROVE  s = t
<1>1. \A i \in 1..Len(s) : s[i] = t[i]
  BY DEF IsPrefix
<1>2. s = [i \in 1..Len(s) |-> s[i]] /\ t = [i \in 1..Len(s) |-> t[i]]
  OBVIOUS
<1>3. [i \in 1..Len(s) |-> s[i]] = [i \in 1..Len(s) |-> t[i]]
  BY <1>1
<1> QED BY <1>2, <1>3, Zenon

\* A restart of the leader closes every stream.
LEMMA RestartCloses ==
  ASSUME LeaderRestart, NEW g \in Follower PROVE stream'[g] = Closed /\ ~stream'[g].open
<1>1. stream'[g] = Closed
  BY DEF LeaderRestart
<1>2. ~Closed.open
  BY DEF Closed
<1> QED BY <1>1, <1>2

\* The pages of a stream are pages of segments there were.
LEMMA PagesAreLogged ==
  ASSUME LogInv, NEW g, CopiesInv(g)
  PROVE  DOMAIN logged \subseteq Nat /\ DOMAIN stream[g].pages \subseteq DOMAIN logged
<1>1. DOMAIN logged \subseteq Nat
  BY DEF LogInv
<1>2. DOMAIN stream[g].pages \subseteq DOMAIN logged
  BY DEF CopiesInv, IsCopy
<1> QED BY <1>1, <1>2

\* The page has arrived at the follower, or is on its way, after the step.
CopiedNext(f, no, data) ==
  \/ no \in DOMAIN mirror'[f] /\ mirror'[f][no] = data
  \/ follower'[f].pc = "mirror" /\ follower'[f].page = [segment |-> no, data |-> data]
  \/ \E i \in DOMAIN network'[f] : network'[f][i] = [segment |-> no, data |-> data]

\* The network of a stream that stays open.
LEMMA OpenNetwork ==
  ASSUME Shape, [ReplNext]_replVars, NEW g \in Follower, stream'[g].open
  PROVE  \/ network'[g] = network[g]
         \/ PumpWrite(g) /\ \E no \in DOMAIN stream[g].pages :
              /\ IsFirst(no, stream[g].pages)
              /\ network'[g] = Append(network[g], [segment |-> no, data |-> stream[g].pages[no]])
         \/ FollowerReceive(g) /\ network[g] # <<>> /\ network'[g] = Tail(network[g])
<1>1. CASE LeaderRestart
  BY <1>1, RestartCloses
<1>2. CASE StreamBreaks(g) \/ FollowerCrash(g)
  BY <1>2 DEF StreamBreaks, FollowerCrash, Closed, Shape
<1>3. CASE PumpWrite(g)
  BY <1>3, Zenon DEF PumpWrite, Shape
<1>4. CASE FollowerReceive(g)
  BY <1>4 DEF FollowerReceive, Shape
<1>5. ASSUME NEW f \in Follower, f # g, PumpWrite(f) \/ StreamBreaks(f) \/ FollowerReceive(f)
                                        \/ FollowerCrash(f)
      PROVE  network'[g] = network[g]
  BY <1>5, Zenon DEF PumpWrite, StreamBreaks, FollowerReceive, FollowerCrash, Shape
<1>6. UNCHANGED network \/ LeaderRestart \/ \E f \in Follower :
        PumpWrite(f) \/ StreamBreaks(f) \/ FollowerReceive(f) \/ FollowerCrash(f)
  BY ZenonT(30) DEF ReplNext, LeaderWrite, CleanStart, CleanRead, CleanRemove, PumpStep,
         PumpPoll, PumpWriteDone, FollowerStep, FollowerConnect,
         FollowerStreamEnd, FollowerMirror, FollowerApply, OnDone, replVars
<1> QED BY <1>1, <1>2, <1>3, <1>4, <1>5, <1>6

\* The longest copy of a segment is not lost while the stream is open: the file is
\* replaced only by a copy that is at least as long.
LEMMA CopiedStays ==
  ASSUME Shape, LogInv, [ReplNext]_replVars, NEW g \in Follower, CopiesInv(g), OrderInv(g),
         stream'[g].open, NEW no, NEW data, IsCopy(logged, no, data), Copied(g, no, data), data # <<>>,
         \A i \in DOMAIN network[g] :
           network[g][i].segment = no => Len(network[g][i].data) <= Len(data)
  PROVE  CopiedNext(g, no, data)
<1> DEFINE Page == [segment : Nat, data : Seq(Nat)]
           page == [segment |-> no, data |-> data]
<1>0. network[g] \in Seq(Page) /\ follower[g].page \in Page /\ data \in Seq(Nat)
  BY DEF CopiesInv, IsCopy
<1>1. ASSUME NEW i \in DOMAIN network[g], network[g][i] = page PROVE CopiedNext(g, no, data)
  <2> HIDE DEF Page, page
  <2>1. CASE network'[g] = network[g]
    BY <1>1, <2>1 DEF CopiedNext, page
  <2>2. ASSUME NEW p, network'[g] = Append(network[g], p) PROVE CopiedNext(g, no, data)
    <3>1. i \in DOMAIN network'[g] /\ network'[g][i] = page
      BY <1>0, <1>1, <2>2
    <3> QED BY <3>1 DEF CopiedNext, page
  <2>3. CASE FollowerReceive(g) /\ network[g] # <<>> /\ network'[g] = Tail(network[g])
    <3>1. CASE i = 1
      <4>1. Head(network[g]) = page
        BY <1>0, <1>1, <3>1
      <4>2. follower'[g].pc = "mirror" /\ follower'[g].page = Head(network[g])
        BY <2>3 DEF FollowerReceive, Shape
      <4> QED BY <4>1, <4>2 DEF CopiedNext, page
    <3>2. CASE i # 1
      <4>1. i - 1 \in DOMAIN network'[g] /\ network'[g][i - 1] = page
        BY <1>0, <1>1, <2>3, <3>2, SMTT(30)
      <4> QED BY <4>1 DEF CopiedNext, page
    <3> QED BY <3>1, <3>2
  <2> QED BY <2>1, <2>2, <2>3, OpenNetwork, Zenon
<1>2. CASE follower[g].pc = "mirror" /\ follower[g].page = page
  <2>1. CASE follower'[g] = follower[g]
    BY <1>2, <2>1 DEF CopiedNext
  <2>2. CASE FollowerMirror(g)
    <3>1. mirror'[g] = [mirror[g] EXCEPT ![no] = data]
      BY <1>2, <2>2 DEF FollowerMirror, Shape
    <3>2. no \in DOMAIN mirror[g]
      BY <1>2 DEF CopiesInv
    <3> QED BY <3>1, <3>2 DEF CopiedNext
  <2>3. CASE FollowerCrash(g)
    BY <2>3 DEF FollowerCrash, Shape, Closed
  <2>4. ASSUME NEW f \in Follower, f # g, FollowerStep(f) \/ FollowerCrash(f)
        PROVE  follower'[g] = follower[g]
    BY <2>4 DEF FollowerStep, FollowerConnect, FollowerStreamEnd, FollowerReceive,
                FollowerMirror, FollowerApply, FollowerCrash, Shape
  <2>5. ~(FollowerConnect(g) \/ FollowerStreamEnd(g) \/ FollowerReceive(g) \/ FollowerApply(g))
    BY <1>2 DEF FollowerConnect, FollowerStreamEnd, FollowerReceive, FollowerApply
  <2>6. UNCHANGED follower \/ \E f \in Follower : FollowerStep(f) \/ FollowerCrash(f)
    BY Zenon DEF ReplNext, LeaderWrite, LeaderRestart, CleanStart, CleanRead, CleanRemove, PumpStep,
           PumpPoll, PumpWrite, PumpWriteDone, StreamBreaks, OnDone, followerVars, replVars
  <2> QED BY <2>1, <2>2, <2>3, <2>4, <2>5, <2>6 DEF FollowerStep
<1>3. CASE no \in DOMAIN mirror[g] /\ mirror[g][no] = data
  <2>1. CASE mirror'[g] = mirror[g]
    BY <1>3, <2>1 DEF CopiedNext
  <2>2. CASE FollowerReceive(g) /\ mirror'[g] = Put(mirror[g], Head(network[g]).segment, <<>>)
    <3>1. CASE Head(network[g]).segment # no
      BY <1>3, <2>2, <3>1 DEF Put, CopiedNext
    <3>2. CASE Head(network[g]).segment = no
      <4>1. 1 \in DOMAIN network[g] /\ Head(network[g]) = network[g][1] /\ network[g][1] \in Page
        <5>1. network[g] # <<>>
          BY <2>2 DEF FollowerReceive
        <5> HIDE DEF Page
        <5> QED BY <1>0, <5>1
      <4>2. Len(data) <= Len(network[g][1].data) /\ Len(network[g][1].data) <= Len(data)
        BY <1>3, <3>2, <4>1, Zenon DEF OrderInv
      <4>3. IsCopy(logged, no, network[g][1].data)
        BY <3>2, <4>1 DEF CopiesInv
      <4>4. network[g][1].data = data
        <5>1. network[g][1].data \in Seq(Nat) /\ Len(network[g][1].data) = Len(data)
          BY <1>0, <4>1, <4>2
        <5>2. network[g][1].data # <<>>
          BY <1>0, <5>1
        <5>3. /\ logged[no] \in Seq(Nat) /\ IsPrefix(data, logged[no])
              /\ IsPrefix(network[g][1].data, logged[no])
          BY <4>3, <5>2 DEF IsCopy, LogInv
        <5> QED BY <1>0, <5>1, <5>3, SamePrefix, Zenon
      <4>5. Head(network[g]) = page
        BY <3>2, <4>1, <4>4
      <4>6. follower'[g].pc = "mirror" /\ follower'[g].page = Head(network[g])
        BY <2>2 DEF FollowerReceive, Shape
      <4> QED BY <4>5, <4>6 DEF CopiedNext
    <3> QED BY <3>1, <3>2
  <2>3. CASE FollowerMirror(g) /\
             mirror'[g] = [mirror[g] EXCEPT ![follower[g].page.segment] = follower[g].page.data]
    <3>1. CASE follower[g].page.segment # no
      BY <1>3, <2>3, <3>1 DEF CopiedNext
    <3>2. CASE follower[g].page.segment = no
      <4>1. mirror[g][no] = <<>>
        BY <2>3, <3>2 DEF FollowerMirror, OrderInv
      <4> QED BY <1>3, <4>1
    <3> QED BY <3>1, <3>2
  <2>4. CASE FollowerCrash(g)
    BY <2>4 DEF FollowerCrash, Shape, Closed
  <2> QED BY <2>1, <2>2, <2>3, <2>4, MirrorChanges
<1> QED BY <1>1, <1>2, <1>3 DEF Copied

-----------------------------------------------------------------------------
\* Copies of a segment keep arriving in the order of their lengths.
LEMMA OrderStep ==
  ASSUME Laws, ReplicaInv, [ReplNext]_replVars, ~reused', NEW g \in Follower, OrderInv(g)
  PROVE  OrderInv(g)'
<1> DEFINE Page == [segment : Nat, data : Seq(Nat)]
<1>0. Shape /\ LogInv /\ CopiesInv(g)
  BY LogStep DEF ReplicaInv
<1>1. network[g] \in Seq(Page) /\ follower[g].page \in Page
  BY <1>0 DEF CopiesInv
<1>2. \A no \in DOMAIN mirror[g] : Len(mirror[g][no]) \in Nat
  BY <1>0 DEF CopiesInv, IsCopy
<1>3. \A i \in DOMAIN network[g] : network[g][i] \in Page
  <2> HIDE DEF Page
  <2> QED BY <1>1
<1>4. ASSUME mirror'[g] = mirror[g], network'[g] = network[g],
             stream'[g].pages = stream[g].pages \/ stream'[g].pages = NoPages,
             follower'[g] = follower[g] \/ follower'[g].pc # "mirror"
      PROVE  OrderInv(g)'
  BY <1>4 DEF OrderInv, NoPages
<1>5. ASSUME network'[g] = <<>>, stream'[g].pages = NoPages,
             (follower'[g] = follower[g] /\ mirror'[g] = mirror[g]) \/ follower'[g].pc # "mirror"
      PROVE  OrderInv(g)'
  BY <1>5 DEF OrderInv, NoPages
<1>6. CASE LeaderRestart
  BY <1>5, <1>6 DEF LeaderRestart, Closed, followerVars
<1>7. CASE StreamBreaks(g)
  BY <1>0, <1>5, <1>7 DEF StreamBreaks, Closed, followerVars, Shape
<1>8. CASE FollowerCrash(g)
  BY <1>0, <1>5, <1>8 DEF FollowerCrash, Closed, Shape
<1>9. CASE PumpPoll(g)
  <2>1. /\ mirror'[g] = mirror[g] /\ network'[g] = network[g] /\ follower'[g] = follower[g]
        /\ stream'[g].pages = CollectPagesFrom(stream[g].next_segment, stream[g].next_page)
    BY <1>0, <1>9 DEF PumpPoll, followerVars, Shape
  <2>2. ASSUME NEW no, NEW data, IsCopy(logged, no, data), no \in DOMAIN stream'[g].pages
        PROVE  Len(data) <= Len(stream'[g].pages[no])
    <3>1. no \in DOMAIN segments /\ stream'[g].pages[no] = segments[no]
      BY <2>1, <2>2 DEF CollectPagesFrom
    <3>2. stream'[g].pages[no] = logged[no] /\ logged[no] \in Seq(Nat)
      BY <1>0, <3>1 DEF LogInv
    <3>3. CASE data = <<>>
      BY <3>2, <3>3
    <3>4. CASE data # <<>>
      BY <2>2, <3>2, <3>4, PrefixFacts DEF IsCopy
    <3> QED BY <3>3, <3>4
  <2>3. \A no \in DOMAIN stream'[g].pages :
          /\ no \in DOMAIN mirror[g] => Len(mirror[g][no]) <= Len(stream'[g].pages[no])
          /\ follower[g].pc = "mirror" /\ follower[g].page.segment = no =>
               Len(follower[g].page.data) <= Len(stream'[g].pages[no])
          /\ \A i \in DOMAIN network[g] : network[g][i].segment = no =>
               Len(network[g][i].data) <= Len(stream'[g].pages[no])
    BY <1>0, <2>2, Zenon DEF CopiesInv
  <2> QED BY <2>1, <2>3 DEF OrderInv
<1>10. CASE PumpWrite(g)
  <2>1. PICK no \in DOMAIN stream[g].pages :
          network'[g] = Append(network[g], [segment |-> no, data |-> stream[g].pages[no]])
    BY <1>0, <1>10 DEF PumpWrite, Shape
  <2>2. /\ mirror'[g] = mirror[g] /\ follower'[g] = follower[g]
        /\ stream'[g].pages = stream[g].pages
    BY <1>0, <1>10 DEF PumpWrite, followerVars, Shape
  <2> DEFINE new == [segment |-> no, data |-> stream[g].pages[no]]
             n == Len(network[g]) + 1
  <2>3. /\ n \in Nat /\ DOMAIN network[g] = 1..Len(network[g])
        /\ DOMAIN network'[g] = 1..n /\ network'[g][n] = new
        /\ \A i \in DOMAIN network[g] : network'[g][i] = network[g][i] /\ i < n
    <3> HIDE DEF Page, new
    <3>1. network'[g] = Append(network[g], new)
      BY <2>1 DEF new
    <3> QED BY <1>1, <3>1
  <2>4. \A i \in DOMAIN network'[g] : i \in DOMAIN network[g] \/ i = n
    BY <2>3
  <2>5. Len(stream[g].pages[no]) \in Nat
    BY <1>0, SMTT(30) DEF CopiesInv, IsCopy
  <2>6. new.segment = no /\ new.data = stream[g].pages[no]
    OBVIOUS
  <2> HIDE DEF new, n, Page
  <2>7. ASSUME NEW i \in DOMAIN network'[g], NEW j \in DOMAIN network'[g], i < j,
               network'[g][i].segment = network'[g][j].segment
        PROVE  Len(network'[g][i].data) <= Len(network'[g][j].data)
    <3>1. i \in DOMAIN network[g]
      BY <2>3, <2>4, <2>7
    <3> QED BY <2>3, <2>4, <2>6, <2>7, <3>1, ZenonT(30) DEF OrderInv
  <2>8. ASSUME NEW i \in DOMAIN network'[g], network'[g][i].segment \in DOMAIN mirror[g]
        PROVE  Len(mirror[g][network'[g][i].segment]) <= Len(network'[g][i].data)
    BY <2>3, <2>4, <2>6, <2>8, ZenonT(30) DEF OrderInv
  <2>9. ASSUME NEW i \in DOMAIN network'[g], follower[g].pc = "mirror",
               network'[g][i].segment = follower[g].page.segment
        PROVE  Len(follower[g].page.data) <= Len(network'[g][i].data)
    BY <2>3, <2>4, <2>6, <2>9 DEF OrderInv
  <2>10. ASSUME NEW k \in DOMAIN stream[g].pages, NEW i \in DOMAIN network'[g],
                network'[g][i].segment = k
         PROVE  Len(network'[g][i].data) <= Len(stream[g].pages[k])
    BY <2>3, <2>4, <2>5, <2>6, <2>10 DEF OrderInv
  <2> QED BY <2>2, <2>7, <2>8, <2>9, <2>10, Zenon DEF OrderInv
<1>11. CASE PumpWriteDone(g)
  <2>1. /\ mirror'[g] = mirror[g] /\ network'[g] = network[g] /\ follower'[g] = follower[g]
    BY <1>11 DEF PumpWriteDone, followerVars
  <2>2. PICK no : stream'[g] = Sent(stream[g], no)
    BY <1>0, <1>11 DEF PumpWriteDone, Shape
  <2>3. CASE stream'[g].pages = NoPages
    BY <1>4, <2>1, <2>3
  <2>4. CASE stream'[g].pages = [k \in DOMAIN stream[g].pages \ {no} |-> stream[g].pages[k]]
    BY <2>1, <2>4, ZenonT(30) DEF OrderInv
  <2> QED BY <1>0, <2>2, <2>3, <2>4 DEF Sent, Shape, Closed
<1>12. CASE FollowerReceive(g)
  <2> DEFINE head == Head(network[g])
  <2>1. /\ network[g] # <<>> /\ follower'[g].pc = "mirror" /\ follower'[g].page = head
        /\ network'[g] = Tail(network[g]) /\ stream'[g] = stream[g]
        /\ mirror'[g] = Put(mirror[g], head.segment, <<>>)
    BY <1>0, <1>12 DEF FollowerReceive, Shape
  <2>2. /\ 1 \in DOMAIN network[g] /\ head = network[g][1]
        /\ \A i \in DOMAIN network'[g] :
             /\ i \in Nat \ {0} /\ i + 1 \in DOMAIN network[g]
             /\ network'[g][i] = network[g][i + 1]
    <3> HIDE DEF Page
    <3> QED BY <1>1, <2>1
  <2>3. head \in Page
    BY <1>3, <2>2
  <2> HIDE DEF head, Page
  <2>4. /\ DOMAIN mirror'[g] = DOMAIN mirror[g] \cup {head.segment}
        /\ \A k \in DOMAIN mirror'[g] :
             mirror'[g][k] = IF k = head.segment THEN <<>> ELSE mirror[g][k]
    BY <2>1 DEF Put
  <2>5. \A i \in DOMAIN network'[g] : Len(network'[g][i].data) \in Nat
    BY <1>3, <2>2 DEF Page
  <2>6. \A i, j \in DOMAIN network'[g] :
          i < j /\ network'[g][i].segment = network'[g][j].segment =>
            Len(network'[g][i].data) <= Len(network'[g][j].data)
    BY <2>2, SMTT(30) DEF OrderInv
  <2>7. ASSUME NEW i \in DOMAIN network'[g], network'[g][i].segment \in DOMAIN mirror'[g]
        PROVE  Len(mirror'[g][network'[g][i].segment]) <= Len(network'[g][i].data)
    <3>1. CASE network'[g][i].segment = head.segment
      <4>1. mirror'[g][network'[g][i].segment] = <<>>
        BY <2>4, <2>7, <3>1
      <4> QED BY <2>5, <4>1
    <3>2. CASE network'[g][i].segment # head.segment
      <4>1. /\ i + 1 \in DOMAIN network[g] /\ network'[g][i] = network[g][i + 1]
            /\ network[g][i + 1].segment \in DOMAIN mirror[g]
            /\ mirror'[g][network'[g][i].segment] = mirror[g][network[g][i + 1].segment]
        BY <2>2, <2>4, <2>7, <3>2
      <4> QED BY <4>1 DEF OrderInv
    <3> QED BY <3>1, <3>2
  <2>8. \A i \in DOMAIN network'[g] : network'[g][i].segment = head.segment =>
          Len(head.data) <= Len(network'[g][i].data)
    BY <2>2, SMTT(30) DEF OrderInv
  <2>9. \A k \in DOMAIN stream[g].pages :
          /\ k \in DOMAIN mirror'[g] => Len(mirror'[g][k]) <= Len(stream[g].pages[k])
          /\ head.segment = k => Len(head.data) <= Len(stream[g].pages[k])
          /\ \A i \in DOMAIN network'[g] : network'[g][i].segment = k =>
               Len(network'[g][i].data) <= Len(stream[g].pages[k])
    <3>1. \A k \in DOMAIN stream[g].pages : Len(stream[g].pages[k]) \in Nat
      BY <1>0, SMTT(30) DEF CopiesInv, IsCopy
    <3> QED BY <2>2, <2>4, <3>1, SMTT(30) DEF OrderInv
  <2>10. mirror'[g][head.segment] = <<>>
    BY <2>4
  <2> QED BY <2>1, <2>6, <2>7, <2>8, <2>9, <2>10, Zenon DEF OrderInv
<1>13. CASE FollowerMirror(g)
  <2>1. /\ network'[g] = network[g] /\ stream'[g] = stream[g] /\ follower'[g].pc = "apply"
        /\ mirror'[g] = [mirror[g] EXCEPT ![follower[g].page.segment] = follower[g].page.data]
        /\ follower[g].pc = "mirror"
    BY <1>0, <1>13 DEF FollowerMirror, Shape
  <2>2. /\ DOMAIN mirror'[g] = DOMAIN mirror[g]
        /\ \A k \in DOMAIN mirror'[g] : mirror'[g][k] =
             IF k = follower[g].page.segment THEN follower[g].page.data ELSE mirror[g][k]
    BY <2>1
  <2> HIDE DEF Page
  <2> QED BY <2>1, <2>2, SMTT(30) DEF OrderInv
<1>14. CASE FollowerConnect(g)
  <2>1. stream'[g].pages = NoPages /\ follower'[g].pc # "mirror"
    BY <1>0, <1>14 DEF FollowerConnect, Shape, Closed
  <2> QED BY <1>4, <1>14, <2>1 DEF FollowerConnect
<1>15. CASE FollowerStreamEnd(g) \/ FollowerApply(g)
  BY <1>0, <1>4, <1>15 DEF FollowerStreamEnd, FollowerApply, Shape
<1>16. ASSUME NEW f \in Follower, f # g, PumpStep(f) \/ StreamBreaks(f)
       PROVE  OrderInv(g)'
  BY <1>0, <1>4, <1>16, ZenonT(30) DEF PumpStep, PumpPoll, PumpWrite, PumpWriteDone, StreamBreaks, Shape,
                           followerVars
<1>17. ASSUME NEW f \in Follower, f # g, FollowerStep(f) \/ FollowerCrash(f)
       PROVE  OrderInv(g)'
  BY <1>0, <1>4, <1>17 DEF FollowerStep, FollowerConnect, FollowerStreamEnd, FollowerReceive,
                           FollowerMirror, FollowerApply, FollowerCrash, Shape
<1>18. CASE UNCHANGED <<stream, network, followerVars>>
  BY <1>4, <1>18 DEF followerVars
<1>19. \/ UNCHANGED <<stream, network, followerVars>>
       \/ LeaderRestart
       \/ \E f \in Follower : PumpStep(f) \/ StreamBreaks(f) \/ FollowerStep(f) \/ FollowerCrash(f)
  BY Zenon DEF ReplNext, LeaderWrite, CleanStart, CleanRead, CleanRemove, OnDone, replVars, followerVars
<1> QED BY <1>6, <1>7, <1>8, <1>9, <1>10, <1>11, <1>12, <1>13, <1>14, <1>15, <1>16, <1>17,
           <1>18, <1>19 DEF PumpStep, FollowerStep

-----------------------------------------------------------------------------
\* wal::NextSegmentToFetch finds a segment in every directory.
LEMMA FetchExists ==
  ASSUME Laws, NEW f \in Follower, CopiesInv(f) PROVE NextSegmentToFetch(mirror[f]) \in Nat
<1> DEFINE files == mirror[f]
           top == Max(DOMAIN files \cup {0})
           S == {no \in 0..(top + 1) : no \notin DOMAIN files \/ ~IsComplete(files[no])}
<1>1. top \in DOMAIN files \cup {0} /\ \A no \in DOMAIN files \cup {0} : no <= top
  <2>1. PICK last \in DOMAIN files : \A no \in DOMAIN files : no <= last
    BY DEF CopiesInv
  <2>2. DOMAIN files \cup {0} \in SUBSET Nat
    BY DEF CopiesInv
  <2>3. \A no \in DOMAIN files \cup {0} : no <= last
    BY <2>1, <2>2
  <2> QED BY <2>1, <2>2, <2>3, MirrorMax
<1>2. top \in Nat
  BY <1>1 DEF CopiesInv
<1> HIDE DEF top
<1>3. top + 1 \in S
  BY <1>1, <1>2
<1>4. S \in SUBSET Nat /\ S # {}
  BY <1>3, <1>2
<1> HIDE DEF S
<1>5. PICK m \in S : \A no \in S : m <= no
  BY <1>4 DEF Laws, MinLaw
<1>6. Min(S) \in S
  BY <1>4, <1>5, Zenon DEF Min
<1> QED BY <1>4, <1>6 DEF NextSegmentToFetch, S, top

\* A segment the stream must not miss after the step.
DueNext(token, no) ==
  /\ no \in DOMAIN logged' /\ logged'[no] # <<>>
  /\ no \in DOMAIN segments' \/ \E r \in removed' : r.no = no /\ token \in r.known

\* A segment the leader is past does not change any more, and was due before.
LEMMA DueBefore ==
  ASSUME Laws, ReplicaInv, CleanerInv, [ReplNext]_replVars, ~reused', ~LeaderRestart,
         NEW token, NEW no, no < current_segment, DueNext(token, no)
  PROVE  /\ no \in DOMAIN logged /\ logged'[no] = logged[no] /\ logged[no] # <<>>
         /\ no \in DOMAIN segments \/ \E r \in removed : r.no = no /\ token \in r.known
<1>1. LogInv /\ LogInv' /\ Grows
  BY LogStep DEF ReplicaInv
<1>2. no \in DOMAIN logged /\ logged'[no] = logged[no]
  BY <1>1 DEF LogInv, Grows, DueNext
<1>3. CASE UNCHANGED <<segments, removed>>
  BY <1>2, <1>3 DEF DueNext
<1>4. CASE LeaderWrite
  <2>1. removed' = removed /\ DOMAIN segments' \subseteq DOMAIN segments \cup {current_segment + 1}
    BY <1>4 DEF LeaderWrite, Put
  <2>2. no # current_segment + 1
    BY <1>1 DEF LogInv
  <2> QED BY <1>2, <2>1, <2>2 DEF DueNext
<1>5. CASE CleanRemove
  <2>1. CASE UNCHANGED <<segments, removed>>
    BY <1>3, <2>1
  <2>2. ASSUME NEW n \in cleaner.obsolete,
               segments' = [k \in DOMAIN segments \ {n} |-> segments[k]],
               removed' = removed \cup {[no |-> n, known |-> cleaner.known]}
        PROVE  no \in DOMAIN segments \/ \E r \in removed : r.no = no /\ token \in r.known
    <3>1. n \in DOMAIN segments
      BY DEF CleanerInv
    <3> QED BY <2>2, <3>1 DEF DueNext
  <2> QED BY <1>2, <1>5, <2>1, <2>2, Zenon DEF CleanRemove, DueNext
<1> QED BY <1>3, <1>4, <1>5, ZenonT(30) DEF ReplNext, CleanStart, CleanRead, PumpStep, PumpPoll, PumpWrite,
           PumpWriteDone, StreamBreaks, FollowerStep, FollowerConnect, FollowerStreamEnd,
           FollowerReceive, FollowerMirror, FollowerApply, FollowerCrash, OnDone, leaderVars,
           logVars, replVars

-----------------------------------------------------------------------------
\* StreamInv after the step.
StreamNext(f, s) ==
  /\ s.from \in Nat /\ s.next_segment \in Nat /\ s.next_page \in {0, 1}
  /\ s.from <= s.next_segment
  /\ (s.next_segment = s.from /\ s.next_page = 0) \/ s.next_segment \in DOMAIN logged'
  /\ s.next_page = 1 => s.next_segment # current_segment'
  /\ \A no \in DOMAIN s.pages : ~Passed(s, no)
  /\ \A no \in DOMAIN s.pages, n \in DOMAIN logged' :
       DueNext(s.token, n) /\ ~Passed(s, n) /\ n < no => n \in DOMAIN s.pages
  /\ s.write_pending => \A no \in DOMAIN s.pages :
       IsFirst(no, s.pages) => CopiedNext(f, no, s.pages[no])
  /\ \A n \in DOMAIN logged' : DueNext(s.token, n) /\ Passed(s, n) /\ s.from <= n =>
       CopiedNext(f, n, logged'[n])

\* What an open stream knows in a state.
LEMMA StreamFacts ==
  ASSUME LogInv, NEW g \in Follower, StreamInv(g, stream[g]), stream[g].open,
         NEW n, n \in Nat, Passed(stream[g], n), stream[g].from <= n
  PROVE  n < current_segment
<1>1. /\ stream[g].from \in Nat /\ stream[g].next_segment \in Nat /\ current_segment \in Nat
      /\ DOMAIN logged = 0..current_segment
  BY DEF StreamInv, LogInv
<1>2. stream[g].next_segment \in DOMAIN logged
  BY <1>1, SMTT(30) DEF StreamInv, Passed
<1>3. CASE n < stream[g].next_segment
  BY <1>1, <1>2, <1>3
<1>4. CASE n = stream[g].next_segment /\ stream[g].next_page = 1
  <2>1. stream[g].next_segment # current_segment
    BY <1>4 DEF StreamInv
  <2> QED BY <1>1, <1>2, <1>4, <2>1
<1> QED BY <1>3, <1>4 DEF Passed

\* What has reached a follower, or is on its way, stays there while the stream is open.
LEMMA DeliveredStays ==
  ASSUME Laws, ReplicaInv, [ReplNext]_replVars, ~reused', NEW g \in Follower, OrderInv(g),
         stream'[g].open
  PROVE  /\ \A no \in DOMAIN stream[g].pages :
              Copied(g, no, stream[g].pages[no]) => CopiedNext(g, no, stream[g].pages[no])
         /\ \A n \in DOMAIN logged :
              logged[n] # <<>> /\ Copied(g, n, logged[n]) => CopiedNext(g, n, logged[n])
<1>0. Shape /\ LogInv /\ CopiesInv(g)
  BY LogStep DEF ReplicaInv
<1>1. ASSUME NEW no \in DOMAIN stream[g].pages, Copied(g, no, stream[g].pages[no])
      PROVE  CopiedNext(g, no, stream[g].pages[no])
  <2>1. IsCopy(logged, no, stream[g].pages[no]) /\ stream[g].pages[no] # <<>>
    BY <1>0 DEF CopiesInv
  <2>2. \A i \in DOMAIN network[g] : network[g][i].segment = no =>
          Len(network[g][i].data) <= Len(stream[g].pages[no])
    BY DEF OrderInv
  <2> QED BY <1>0, <1>1, <2>1, <2>2, CopiedStays
<1>2. ASSUME NEW n \in DOMAIN logged, logged[n] # <<>>, Copied(g, n, logged[n])
      PROVE  CopiedNext(g, n, logged[n])
  <2>0. logged[n] \in Seq(Nat)
    BY <1>0 DEF LogInv
  <2>1. IsCopy(logged, n, logged[n])
    BY <2>0, PrefixFacts DEF IsCopy
  <2>2. ASSUME NEW i \in DOMAIN network[g], network[g][i].segment = n
        PROVE  Len(network[g][i].data) <= Len(logged[n])
    <3>1. IsCopy(logged, n, network[g][i].data)
      BY <1>0, <2>2 DEF CopiesInv
    <3>2. CASE network[g][i].data = <<>>
      BY <2>0, <3>2
    <3>3. CASE network[g][i].data # <<>>
      BY <2>0, <3>1, <3>3, PrefixFacts DEF IsCopy
    <3> QED BY <3>2, <3>3
  <2> QED BY <1>0, <1>2, <2>1, <2>2, CopiedStays
<1> QED BY <1>1, <1>2

\* A stream that does nothing in the step, whatever the others do.
LEMMA StreamWaits ==
  ASSUME Laws, ReplicaInv, CleanerInv, [ReplNext]_replVars, ~reused', NEW g \in Follower, OrderInv(g),
         StreamInv(g, stream[g]), stream[g].open, stream'[g] = stream[g]
  PROVE  StreamNext(g, stream[g])
<1> DEFINE s == stream[g]
<1>0. LogInv /\ LogInv' /\ Grows /\ CopiesInv(g)
  BY LogStep DEF ReplicaInv
<1>1. ~LeaderRestart
  BY RestartCloses
<1>2. /\ current_segment \in Nat /\ current_segment' \in Nat /\ current_segment <= current_segment'
      /\ DOMAIN logged = 0..current_segment /\ DOMAIN logged' = 0..current_segment'
  <2>1. /\ current_segment \in Nat /\ DOMAIN logged = 0..current_segment
        /\ current_segment' \in Nat /\ DOMAIN logged' = 0..current_segment'
    BY <1>0 DEF LogInv
  <2>2. current_segment \in DOMAIN logged'
    BY <1>0, <2>1 DEF Grows
  <2> QED BY <2>1, <2>2
<1>3. s.next_page = 1 => s.next_segment # current_segment'
  <2>1. s.next_page = 1 => s.next_segment \in DOMAIN logged /\ s.next_segment # current_segment
    BY SMTT(30) DEF StreamInv
  <2> QED BY <1>2, <2>1
<1>4. (s.next_segment = s.from /\ s.next_page = 0) \/ s.next_segment \in DOMAIN logged'
  BY <1>2, SMTT(30) DEF StreamInv
<1>5. ASSUME NEW no \in DOMAIN s.pages, NEW n \in DOMAIN logged', DueNext(s.token, n),
             ~Passed(s, n), n < no
      PROVE  n \in DOMAIN s.pages
  <2>1. no \in DOMAIN logged
    BY <1>0 DEF CopiesInv, IsCopy
  <2>2. n < current_segment
    BY <1>2, <1>5, <2>1
  <2>3. Due(s, n)
    BY <1>1, <1>5, <2>2, DueBefore DEF Due
  <2> QED BY <1>5, <2>3, ZenonT(30) DEF StreamInv, Due
<1>6. ASSUME s.write_pending, NEW no \in DOMAIN s.pages, IsFirst(no, s.pages)
      PROVE  CopiedNext(g, no, s.pages[no])
  BY <1>6, DeliveredStays, Zenon DEF StreamInv
<1>7. ASSUME NEW n \in DOMAIN logged', DueNext(s.token, n), Passed(s, n), s.from <= n
      PROVE  CopiedNext(g, n, logged'[n])
  <2>1. n < current_segment
    BY <1>0, <1>2, <1>7, StreamFacts, SMTT(30)
  <2>2. Due(s, n) /\ logged'[n] = logged[n] /\ n \in DOMAIN logged /\ logged[n] # <<>>
    BY <1>1, <1>7, <2>1, DueBefore DEF Due
  <2>3. Copied(g, n, logged[n])
    BY <1>7, <2>2, ZenonT(30) DEF StreamInv
  <2> QED BY <2>2, <2>3, DeliveredStays
<1> QED BY <1>3, <1>4, <1>5, <1>6, <1>7, ZenonT(30) DEF StreamNext, StreamInv

\* Pump reads the pages behind its position: all those the stream must not miss, since
\* what was removed is in front of the registered position.
LEMMA StreamPolls ==
  ASSUME ReplicaInv, ~reused, NEW g \in Follower, StreamInv(g, stream[g]),
         RegistryInv(stream[g]), CleanerInv, PumpPoll(g)
  PROVE  StreamNext(g, stream'[g])
<1> DEFINE s == stream[g]
           pages == CollectPagesFrom(s.next_segment, s.next_page)
<1>0. LogInv /\ Shape
  BY DEF ReplicaInv
<1>1. stream'[g] = [s EXCEPT !.pages = pages] /\ s.open /\ ~s.write_pending
  BY <1>0 DEF PumpPoll, Shape
<1>2. /\ stream'[g].open /\ stream'[g].pages = pages /\ ~stream'[g].write_pending
      /\ stream'[g].from = s.from /\ stream'[g].token = s.token
      /\ stream'[g].next_segment = s.next_segment /\ stream'[g].next_page = s.next_page
  BY <1>0, <1>1 DEF Shape, Closed
<1>3. /\ logged' = logged /\ segments' = segments /\ current_segment' = current_segment
      /\ removed' = removed /\ network' = network /\ mirror' = mirror /\ follower' = follower
  BY DEF PumpPoll, leaderVars, logVars, followerVars
<1>4. s.next_segment \in Nat /\ s.next_page \in {0, 1} /\ DOMAIN logged \subseteq Nat
  BY <1>0, <1>1 DEF StreamInv, LogInv
<1>5. DOMAIN pages = {n \in DOMAIN segments :
        segments[n] # <<>> /\ (n > s.next_segment \/ (n = s.next_segment /\ s.next_page = 0))}
  BY DEF CollectPagesFrom
<1> HIDE DEF pages
<1>6. \A n : Passed(stream'[g], n) <=> Passed(s, n)
  BY <1>2 DEF Passed
<1>7. ASSUME NEW no \in DOMAIN pages PROVE ~Passed(s, no)
  BY <1>0, <1>4, <1>5, SMTT(30) DEF Passed, LogInv
<1>8. ASSUME NEW n \in DOMAIN logged, Due(s, n), ~Passed(s, n) PROVE n \in DOMAIN pages
  <2>1. n \in DOMAIN segments
    <3>1. ASSUME NEW r \in removed, r.no = n, s.token \in r.known PROVE FALSE
      <4>1. r.no < registry[s.token] /\ registry[s.token] <= s.next_segment
            /\ registry[s.token] \in Nat
        BY <1>1, <3>1 DEF RegistryInv, CleanerInv
      <4> QED BY <1>4, <1>8, <3>1, <4>1 DEF Passed
    <3> QED BY <1>8, <3>1 DEF Due
  <2>2. segments[n] # <<>>
    BY <1>0, <1>8, <2>1 DEF Due, LogInv
  <2>3. n > s.next_segment \/ (n = s.next_segment /\ s.next_page = 0)
    BY <1>4, <1>8 DEF Passed
  <2> QED BY <1>5, <2>1, <2>2, <2>3
<1>9. \A n : DueNext(s.token, n) <=> Due(s, n)
  BY <1>3 DEF Due, DueNext
<1>10. \A no, data : CopiedNext(g, no, data) <=> Copied(g, no, data)
  BY <1>3 DEF Copied, CopiedNext
<1>11. /\ s.from \in Nat /\ s.from <= s.next_segment
       /\ (s.next_segment = s.from /\ s.next_page = 0) \/ s.next_segment \in DOMAIN logged
       /\ s.next_page = 1 => s.next_segment # current_segment
       /\ \A n \in DOMAIN logged : Due(s, n) /\ Passed(s, n) /\ s.from <= n =>
            Copied(g, n, logged[n])
  BY <1>1 DEF StreamInv
<1>12. \A no \in DOMAIN pages : ~Passed(stream'[g], no)
  BY <1>6, <1>7
<1>13. \A n \in DOMAIN logged : DueNext(s.token, n) /\ ~Passed(stream'[g], n) =>
         n \in DOMAIN pages
  BY <1>6, <1>8, <1>9
<1>14. \A n \in DOMAIN logged : DueNext(s.token, n) /\ Passed(stream'[g], n) /\ s.from <= n =>
         CopiedNext(g, n, logged[n])
  BY <1>6, <1>9, <1>10, <1>11
<1> QED BY <1>2, <1>3, <1>4, <1>11, <1>12, <1>13, <1>14, Zenon DEF StreamNext

\* StartWrite puts the first page on its way.
LEMMA StreamWrites ==
  ASSUME Laws, ReplicaInv, ~reused, ~reused', NEW g \in Follower, OrderInv(g), StreamInv(g, stream[g]),
         PumpWrite(g)
  PROVE  StreamNext(g, stream'[g])
<1> DEFINE s == stream[g]
<1>0. LogInv /\ Shape /\ CopiesInv(g)
  BY DEF ReplicaInv
<1>1. stream'[g] = [s EXCEPT !.write_pending = TRUE] /\ s.open
  BY <1>0 DEF PumpWrite, Shape
<1>2. /\ stream'[g].open /\ stream'[g].pages = s.pages
      /\ stream'[g].from = s.from /\ stream'[g].token = s.token
      /\ stream'[g].next_segment = s.next_segment /\ stream'[g].next_page = s.next_page
  BY <1>0, <1>1 DEF Shape, Closed
<1>3. /\ logged' = logged /\ segments' = segments /\ current_segment' = current_segment
      /\ removed' = removed
  BY DEF PumpWrite, leaderVars, logVars
<1>4. PICK no \in DOMAIN s.pages :
        /\ IsFirst(no, s.pages)
        /\ network'[g] = Append(network[g], [segment |-> no, data |-> s.pages[no]])
  BY <1>0 DEF PumpWrite, Shape
<1>5. ASSUME NEW n \in DOMAIN s.pages, IsFirst(n, s.pages) PROVE CopiedNext(g, n, s.pages[n])
  <2>1. n = no
    <3>1. n \in Nat /\ no \in Nat
      BY <1>0, PagesAreLogged
    <3> QED BY <1>4, <1>5, <3>1 DEF IsFirst
  <2> DEFINE Page == [segment : Nat, data : Seq(Nat)]
             new == [segment |-> no, data |-> s.pages[no]]
             i == Len(network[g]) + 1
  <2>2. network[g] \in Seq(Page)
    BY <1>0 DEF CopiesInv
  <2>3. network'[g] = Append(network[g], new)
    BY <1>4
  <2>4. i \in DOMAIN network'[g] /\ network'[g][i] = new
    <3> HIDE DEF Page, new
    <3> QED BY <2>2, <2>3
  <2> QED BY <2>1, <2>4 DEF CopiedNext
<1>6. \A n : Passed(stream'[g], n) <=> Passed(s, n)
  BY <1>2 DEF Passed
<1>7. \A n : DueNext(s.token, n) <=> Due(s, n)
  BY <1>3 DEF Due, DueNext
<1>8. \A n \in DOMAIN logged :
        logged[n] # <<>> /\ Copied(g, n, logged[n]) => CopiedNext(g, n, logged[n])
  <2>1. [ReplNext]_replVars
    BY DEF ReplNext, PumpStep
  <2> QED BY <1>2, <2>1, DeliveredStays
<1>9. /\ s.from \in Nat /\ s.next_segment \in Nat /\ s.next_page \in {0, 1}
      /\ s.from <= s.next_segment
      /\ (s.next_segment = s.from /\ s.next_page = 0) \/ s.next_segment \in DOMAIN logged
      /\ s.next_page = 1 => s.next_segment # current_segment
      /\ \A k \in DOMAIN s.pages : ~Passed(s, k)
      /\ \A k \in DOMAIN s.pages, n \in DOMAIN logged :
           Due(s, n) /\ ~Passed(s, n) /\ n < k => n \in DOMAIN s.pages
      /\ \A n \in DOMAIN logged : Due(s, n) /\ Passed(s, n) /\ s.from <= n =>
           Copied(g, n, logged[n])
  BY <1>1 DEF StreamInv
<1>10. \A n \in DOMAIN logged : DueNext(s.token, n) /\ Passed(stream'[g], n) /\ s.from <= n =>
         CopiedNext(g, n, logged[n])
  BY <1>6, <1>7, <1>8, <1>9, ZenonT(30) DEF Due
<1>11. /\ \A k \in DOMAIN s.pages : ~Passed(stream'[g], k)
       /\ \A k \in DOMAIN s.pages, n \in DOMAIN logged :
            DueNext(s.token, n) /\ ~Passed(stream'[g], n) /\ n < k => n \in DOMAIN s.pages
  BY <1>6, <1>7, <1>9, ZenonT(30)
<1> QED BY <1>2, <1>3, <1>5, <1>9, <1>10, <1>11, Zenon DEF StreamNext

\* A complete copy of a page is the whole page, and the leader is past it.
LEMMA CompleteCopy ==
  ASSUME LogInv, NEW no, NEW data, IsCopy(logged, no, data), IsComplete(data)
  PROVE  no \in DOMAIN logged /\ data = logged[no] /\ no # current_segment
<1>1. /\ no \in DOMAIN logged /\ logged[no] \in Seq(Nat) /\ data \in Seq(Nat) /\ data # <<>>
      /\ IsPrefix(data, logged[no]) /\ Last(data) = Padding
  BY DEF IsCopy, IsComplete, LogInv
<1>2. Last(data) = logged[no][Len(data)] /\ Len(data) \in 1..Len(logged[no])
  BY <1>1, PrefixFacts
<1>3. Len(data) = Len(logged[no]) /\ no # current_segment
  BY <1>1, <1>2 DEF LogInv
<1> QED BY <1>1, <1>3, PrefixFacts, Zenon

\* OnWriteDone: the position moves over the first page, which was delivered.
LEMMA StreamSends ==
  ASSUME ReplicaInv, ~reused, NEW g \in Follower, StreamInv(g, stream[g]), PumpWriteDone(g)
  PROVE  StreamNext(g, stream'[g])
<1> DEFINE s == stream[g]
           t == stream'[g]
<1>0. LogInv /\ Shape /\ CopiesInv(g)
  BY DEF ReplicaInv
<1>1. PICK no \in DOMAIN s.pages : IsFirst(no, s.pages) /\ t = Sent(s, no)
  BY <1>0, Zenon DEF PumpWriteDone, Shape
<1>2. s.open /\ s.write_pending
  BY DEF PumpWriteDone
<1>3. /\ logged' = logged /\ segments' = segments /\ current_segment' = current_segment
      /\ removed' = removed /\ network' = network /\ mirror' = mirror /\ follower' = follower
  BY DEF PumpWriteDone, leaderVars, logVars, followerVars
<1>4. IsCopy(logged, no, s.pages[no]) /\ s.pages[no] # <<>> /\ no \in DOMAIN logged
  BY <1>0, Zenon DEF CopiesInv, IsCopy
<1>5. DOMAIN logged \subseteq Nat /\ DOMAIN s.pages \subseteq Nat
  BY <1>0, PagesAreLogged
<1>6. /\ s.from \in Nat /\ s.next_segment \in Nat /\ s.next_page \in {0, 1}
      /\ s.from <= s.next_segment
      /\ \A k \in DOMAIN s.pages : ~Passed(s, k)
      /\ \A k \in DOMAIN s.pages, n \in DOMAIN logged :
           Due(s, n) /\ ~Passed(s, n) /\ n < k => n \in DOMAIN s.pages
      /\ \A n \in DOMAIN logged : Due(s, n) /\ Passed(s, n) /\ s.from <= n =>
           Copied(g, n, logged[n])
      /\ Copied(g, no, s.pages[no])
  BY <1>1, <1>2, ZenonT(30) DEF StreamInv
<1>7. no >= s.next_segment /\ no \in Nat /\ s.next_segment \in Nat
  <2>1. s.next_segment \in Nat /\ ~Passed(s, no) /\ no \in Nat
    BY <1>5, <1>6, Zenon
  <2> QED BY <2>1 DEF Passed
<1>8. /\ t.open /\ t.from = s.from /\ t.token = s.token /\ t.next_segment = no
      /\ ~t.write_pending /\ t.next_page = IF IsComplete(s.pages[no]) THEN 1 ELSE 0
      /\ t.pages = IF IsComplete(s.pages[no])
                   THEN [n \in DOMAIN s.pages \ {no} |-> s.pages[n]] ELSE NoPages
  BY <1>0, <1>1, <1>2 DEF Sent, Shape, Closed
<1>9. IsComplete(s.pages[no]) => s.pages[no] = logged[no] /\ no # current_segment
  BY <1>0, <1>4, CompleteCopy, Zenon
<1>10. \A n : DueNext(s.token, n) <=> Due(s, n)
  BY <1>3 DEF Due, DueNext
<1>11. \A k, data : CopiedNext(g, k, data) <=> Copied(g, k, data)
  BY <1>3 DEF Copied, CopiedNext
<1> HIDE DEF t
<1>12. DOMAIN t.pages \subseteq DOMAIN s.pages \ {no}
  BY <1>8 DEF NoPages
<1>18. \A n \in Nat : Passed(t, n) <=> n < no \/ (n = no /\ IsComplete(s.pages[no]))
  <2>1. t.next_segment = no /\ (t.next_page = 1 <=> IsComplete(s.pages[no]))
    BY <1>8
  <2> QED BY <2>1 DEF Passed
<1>19. \A n \in Nat : n > no => ~Passed(s, n)
  BY <1>7 DEF Passed
<1>13. ASSUME NEW k \in DOMAIN t.pages PROVE ~Passed(t, k) /\ IsComplete(s.pages[no])
  <2>0. k \in Nat
    BY <1>5, <1>12
  <2>1. k > no
    BY <1>1, <1>7, <1>12, <2>0 DEF IsFirst
  <2>2. ~Passed(t, k)
    BY <1>7, <1>18, <2>0, <2>1
  <2>3. IsComplete(s.pages[no])
    BY <1>8, <1>13 DEF NoPages
  <2> QED BY <2>2, <2>3
<1>14. ASSUME NEW k \in DOMAIN t.pages, NEW n \in DOMAIN logged, Due(s, n), ~Passed(t, n), n < k
       PROVE  n \in DOMAIN t.pages
  <2>0. n \in Nat /\ IsComplete(s.pages[no])
    BY <1>5, <1>13
  <2>1. n > no
    BY <1>7, <1>14, <1>18, <2>0
  <2>2. ~Passed(s, n)
    BY <1>19, <2>0, <2>1
  <2>3. n \in DOMAIN s.pages
    BY <1>6, <1>12, <1>14, <2>2, ZenonT(30)
  <2>4. t.pages = [i \in DOMAIN s.pages \ {no} |-> s.pages[i]] /\ n # no
    BY <1>7, <1>8, <2>0, <2>1
  <2> QED BY <2>3, <2>4
<1>15. ASSUME NEW n \in DOMAIN logged, Due(s, n), Passed(t, n), s.from <= n
       PROVE  Copied(g, n, logged[n])
  <2>1. CASE Passed(s, n)
    BY <1>6, <1>15, <2>1, ZenonT(30)
  <2>2. CASE ~Passed(s, n) /\ n < no
    <3>1. n \in DOMAIN s.pages
      BY <1>6, <1>15, <2>2, ZenonT(30)
    <3> QED BY <1>1, <1>5, <1>7, <2>2, <3>1 DEF IsFirst
  <2>3. CASE n = no /\ IsComplete(s.pages[no])
    BY <1>6, <1>9, <2>3, ZenonT(30)
  <2>4. n < no \/ (n = no /\ IsComplete(s.pages[no]))
    BY <1>5, <1>15, <1>18
  <2> QED BY <2>1, <2>2, <2>3, <2>4
<1>16. t.from \in Nat /\ t.next_segment \in Nat /\ t.next_page \in {0, 1}
       /\ t.from <= t.next_segment
  <2>1. s.from \in Nat /\ s.next_segment \in Nat /\ s.from <= s.next_segment
    BY <1>6
  <2>2. s.from <= no
    BY <1>7, <2>1
  <2> QED BY <1>7, <1>8, <2>1, <2>2
<1>17. t.next_page = 1 => t.next_segment # current_segment
  BY <1>8, <1>9, SMTT(30)
<1> QED BY <1>3, <1>4, <1>8, <1>10, <1>11, <1>13, <1>14, <1>15, <1>16, <1>17, Zenon DEF StreamNext, t

\* A stream is opened at the segment the follower asks for.
LEMMA StreamOpens ==
  ASSUME Laws, ReplicaInv, ~reused, NEW g \in Follower, FollowerConnect(g)
  PROVE  StreamNext(g, stream'[g])
<1> DEFINE from == NextSegmentToFetch(mirror[g])
           t == stream'[g]
<1>0. from \in Nat
  BY FetchExists DEF ReplicaInv
<1> HIDE DEF from
<1>1. t = [Closed EXCEPT !.open = TRUE, !.token = next_token, !.from = from,
                         !.next_segment = from]
  BY DEF FollowerConnect, ReplicaInv, Shape, from
<1>2. /\ t.from = from /\ t.next_segment = from /\ t.next_page = 0 /\ t.pages = NoPages
      /\ ~t.write_pending
  BY <1>1 DEF Closed
<1>3. LogInv'
  BY DEF FollowerConnect, leaderVars, logVars, ReplicaInv, LogInv
<1> HIDE DEF t
<1>4. DOMAIN t.pages = {}
  BY <1>2 DEF NoPages
<1>5. \A n \in DOMAIN logged' : ~(Passed(t, n) /\ t.from <= n)
  BY <1>0, <1>2, <1>3 DEF Passed, LogInv
<1> QED BY <1>0, <1>2, <1>4, <1>5, SMTT(30) DEF StreamNext, t

\* Every step keeps what is said of a stream.
LEMMA StreamStep ==
  ASSUME Laws, ReplicaInv, CleaningInv, [ReplNext]_replVars, ~reused', NEW g \in Follower
  PROVE  StreamInv(g, stream[g])'
<1>0. /\ ~reused /\ CleanerInv /\ OrderInv(g) /\ StreamInv(g, stream[g])
      /\ RegistryInv(stream[g]) /\ Shape
  BY LogStep DEF CleaningInv, ReplicaInv
<1> SUFFICES ASSUME stream'[g].open PROVE StreamNext(g, stream'[g])
  BY ZenonT(30) DEF StreamInv, StreamNext, Due, DueNext, Copied, CopiedNext
<1>1. CASE stream'[g] = stream[g]
  BY <1>0, <1>1, StreamWaits, ZenonT(30)
<1>2. CASE PumpPoll(g)
  BY <1>0, <1>2, StreamPolls
<1>3. CASE PumpWrite(g)
  BY <1>0, <1>3, StreamWrites
<1>4. CASE PumpWriteDone(g)
  BY <1>0, <1>4, StreamSends
<1>5. CASE FollowerConnect(g)
  BY <1>0, <1>5, StreamOpens
<1>6. stream'[g] # Closed
  BY DEF Closed
<1> QED BY <1>0, <1>1, <1>2, <1>3, <1>4, <1>5, <1>6, StreamChanges, Zenon

-----------------------------------------------------------------------------
\* The registered position of a stream that stays open.
LEMMA RegistryMoves ==
  ASSUME Laws, ReplicaInv, CleaningInv, [ReplNext]_replVars, ~reused', NEW g \in Follower,
         stream[g].open, stream'[g].open, ~FollowerConnect(g)
  PROVE  /\ stream'[g].token = stream[g].token
         /\ stream[g].token \in DOMAIN registry /\ stream[g].token \in DOMAIN registry'
         /\ registry[stream[g].token] \in Nat /\ registry'[stream[g].token] \in Nat
         /\ registry[stream[g].token] <= registry'[stream[g].token]
         /\ registry'[stream[g].token] <= stream'[g].next_segment
<1> DEFINE s == stream[g]
<1>0. /\ ~reused /\ CleanerInv /\ StreamInv(g, s) /\ RegistryInv(s) /\ Shape /\ CopiesInv(g)
      /\ LogInv
  BY LogStep, ZenonT(30) DEF CleaningInv, ReplicaInv
<1>1. /\ s.token \in DOMAIN registry /\ registry[s.token] \in Nat /\ s.token \in Nat
      /\ s.token < next_token /\ next_token \in Nat
      /\ registry[s.token] <= s.next_segment /\ s.next_segment \in Nat
  BY <1>0, ZenonT(30) DEF RegistryInv, CleanerInv, StreamInv
<1>2. CASE PumpWriteDone(g)
  <2>1. PICK no \in DOMAIN s.pages :
          /\ stream'[g] = Sent(s, no)
          /\ registry' = IF IsComplete(s.pages[no])
                         THEN [registry EXCEPT ![s.token] = no] ELSE registry
    BY <1>0, <1>2, Zenon DEF PumpWriteDone, Update, Shape
  <2>2. stream'[g].token = s.token /\ stream'[g].next_segment = no
    BY <1>0, <2>1 DEF Sent, Shape, Closed
  <2>3. no \in Nat /\ no >= s.next_segment
    <3>1. no \in Nat
      BY <1>0, PagesAreLogged
    <3>2. ~Passed(s, no)
      BY <1>0, ZenonT(30) DEF StreamInv
    <3> QED BY <1>1, <3>1, <3>2 DEF Passed
  <2>4. registry'[s.token] \in {no, registry[s.token]} /\ DOMAIN registry' = DOMAIN registry
    BY <1>1, <2>1
  <2> QED BY <1>1, <2>2, <2>3, <2>4
<1>3. ASSUME ~PumpWriteDone(g)
      PROVE  stream'[g].token = s.token /\ stream'[g].next_segment = s.next_segment
  <2>1. stream'[g] # Closed
    BY SMTT(30) DEF Closed
  <2>2. ASSUME NEW pages, stream'[g] = [s EXCEPT !.pages = pages]
        PROVE  stream'[g].token = s.token /\ stream'[g].next_segment = s.next_segment
    BY <1>0, <2>2 DEF Shape, Closed
  <2>3. CASE stream'[g] = [s EXCEPT !.write_pending = TRUE]
    BY <1>0, <2>3 DEF Shape, Closed
  <2> QED BY <1>0, <1>3, <2>1, <2>2, <2>3, StreamChanges, Zenon
<1>5. ASSUME NEW f \in Follower, f # g, PumpWriteDone(f)
      PROVE  s.token \in DOMAIN registry' /\ registry'[s.token] = registry[s.token]
  <2>1. s.token # stream[f].token
    BY <1>0, <1>5, ZenonT(30) DEF CleanerInv, PumpWriteDone
  <2> QED BY <1>1, <1>5, <2>1 DEF PumpWriteDone, Update
<1>6. ASSUME NEW token, OnDone(token)
      PROVE  s.token \in DOMAIN registry' /\ registry'[s.token] = registry[s.token]
  BY <1>1, <1>6, Zenon DEF OnDone, Unregister
<1>7. ASSUME NEW f \in Follower, FollowerConnect(f)
      PROVE  s.token \in DOMAIN registry' /\ registry'[s.token] = registry[s.token]
  BY <1>1, <1>7 DEF FollowerConnect, Register, Put
<1>8. ~LeaderRestart
  BY RestartCloses
<1>9. \/ registry' = registry
      \/ \E f \in Follower : PumpWriteDone(f) \/ FollowerConnect(f)
      \/ \E token : OnDone(token)
  BY <1>8, Zenon DEF ReplNext, LeaderWrite, CleanStart, CleanRead, CleanRemove, PumpStep,
         PumpPoll, PumpWrite, StreamBreaks, FollowerStep, FollowerStreamEnd, FollowerReceive,
         FollowerMirror, FollowerApply, FollowerCrash, registryVars, replVars
<1>10. CASE ~PumpWriteDone(g)
  <2>1. s.token \in DOMAIN registry' /\ registry'[s.token] = registry[s.token]
    BY <1>1, <1>5, <1>6, <1>7, <1>9, <1>10, Zenon
  <2> QED BY <1>1, <1>3, <1>10, <2>1, SMTT(30)
<1> QED BY <1>2, <1>10, ZenonT(30)

\* The registry has a smallest position when it has one at all.
LEMMA MinRetained ==
  ASSUME Laws, CleanerInv, NEW token \in DOMAIN registry
  PROVE  /\ MinRetainedSegment # {} /\ MinRetainedSegment \subseteq Nat
         /\ \A retain \in MinRetainedSegment : retain <= registry[token]
<1>1. Range(registry) \in SUBSET Nat /\ registry[token] \in Range(registry)
  BY DEF Range, CleanerInv
<1>2. PICK m \in Range(registry) : \A no \in Range(registry) : m <= no
  BY <1>1 DEF Laws, MinLaw
<1> QED BY <1>1, <1>2 DEF MinRetainedSegment

\* What the cleaner does to its own state and to the directory.
LEMMA CleanerChanges ==
  ASSUME CleanerInv, [ReplNext]_replVars, ~LeaderRestart
  PROVE  \/ cleaner' = cleaner /\ removed' = removed
         \/ CleanStart /\ removed' = removed /\ cleaner.obsolete = {} /\
            cleaner' = [pc |-> "read", retain |-> MinRetainedSegment, obsolete |-> {},
                        known |-> DOMAIN registry]
         \/ CleanRead /\ removed' = removed /\ \E persistent \in 1..next_event :
            cleaner' = [pc |-> "remove", retain |-> cleaner.retain, known |-> cleaner.known,
                        obsolete |-> {no \in DOMAIN segments : IsObsolete(no, persistent)}]
         \/ CleanRemove /\ removed' = removed /\ segments' = segments /\ cleaner' = IdleCleaner
         \/ CleanRemove /\ \E no \in cleaner.obsolete :
            /\ segments' = [n \in DOMAIN segments \ {no} |-> segments[n]]
            /\ removed' = removed \cup {[no |-> no, known |-> cleaner.known]}
            /\ cleaner' = [pc |-> "remove", retain |-> cleaner.retain, known |-> cleaner.known,
                           obsolete |-> cleaner.obsolete \ {no}]
<1>0. DOMAIN cleaner = {"pc", "retain", "obsolete", "known"}
  BY DEF CleanerInv, IdleCleaner
<1>1. CASE CleanStart
  <2>1. cleaner' = [cleaner EXCEPT !.pc = "read", !.retain = MinRetainedSegment,
                                   !.known = DOMAIN registry]
        /\ removed' = removed /\ cleaner.pc = "idle"
    BY <1>1 DEF CleanStart
  <2>2. cleaner.obsolete = {}
    BY <2>1 DEF CleanerInv
  <2> QED BY <1>0, <1>1, <2>1, <2>2, Zenon
<1>2. CASE CleanRead
  <2>1. PICK persistent \in 1..next_event :
          cleaner' = [cleaner EXCEPT !.pc = "remove",
                        !.obsolete = {no \in DOMAIN segments : IsObsolete(no, persistent)}]
    BY <1>2, Zenon DEF CleanRead
  <2>2. removed' = removed
    BY <1>2 DEF CleanRead
  <2> DEFINE obsolete == {no \in DOMAIN segments : IsObsolete(no, persistent)}
  <2> HIDE DEF obsolete
  <2>3. cleaner' = [pc |-> "remove", retain |-> cleaner.retain, known |-> cleaner.known,
                    obsolete |-> obsolete]
    <3>1. cleaner' = [cleaner EXCEPT !.pc = "remove", !.obsolete = obsolete]
      BY <2>1 DEF obsolete
    <3> QED BY <1>0, <3>1, Zenon
  <2> QED BY <1>2, <2>2, <2>3, Zenon DEF obsolete
<1>3. CASE CleanRemove
  <2>1. CASE cleaner' = IdleCleaner /\ UNCHANGED <<segments, removed>>
    BY <1>3, <2>1
  <2>2. ASSUME NEW no \in cleaner.obsolete, cleaner.pc = "remove",
               cleaner' = [cleaner EXCEPT !.obsolete = @ \ {no}]
        PROVE  cleaner' = [pc |-> "remove", retain |-> cleaner.retain, known |-> cleaner.known,
                           obsolete |-> cleaner.obsolete \ {no}]
    BY <1>0, <2>2
  <2> QED BY <1>3, <2>1, <2>2, Zenon DEF CleanRemove
<1> QED BY <1>1, <1>2, <1>3 DEF ReplNext, LeaderWrite, PumpStep, PumpPoll, PumpWrite,
           PumpWriteDone, StreamBreaks, FollowerStep, FollowerConnect, FollowerStreamEnd,
           FollowerReceive, FollowerMirror, FollowerApply, FollowerCrash, OnDone, leaderVars,
           replVars

\* Every step keeps the registry behind the streams and the cleaner behind the registry.
LEMMA RegistryStep ==
  ASSUME Laws, ReplicaInv, CleaningInv, [ReplNext]_replVars, ~reused', NEW g \in Follower
  PROVE  RegistryInv(stream[g])'
<1>0. ~reused /\ CleanerInv /\ RegistryInv(stream[g]) /\ Shape /\ CopiesInv(g) /\ LogInv
  BY LogStep DEF CleaningInv, ReplicaInv
<1> SUFFICES ASSUME stream'[g].open PROVE RegistryInv(stream[g])'
  BY DEF RegistryInv
<1>1. CASE FollowerConnect(g)
  <2> DEFINE from == NextSegmentToFetch(mirror[g])
  <2>1. from \in Nat
    BY <1>0, FetchExists
  <2> HIDE DEF from
  <2>2. /\ stream'[g] = [Closed EXCEPT !.open = TRUE, !.token = next_token, !.from = from,
                                       !.next_segment = from]
        /\ registry' = Put(registry, next_token, from)
        /\ cleaner' = cleaner /\ removed' = removed
    BY <1>0, <1>1 DEF FollowerConnect, Register, Shape, leaderVars, from
  <2>3. stream'[g].token = next_token /\ stream'[g].next_segment = from
    BY <2>2 DEF Closed
  <2>4. next_token \in DOMAIN registry' /\ registry'[next_token] = from
    BY <2>2 DEF Put
  <2>5. next_token \notin cleaner.known /\ \A r \in removed : next_token \notin r.known
    BY <1>0 DEF CleanerInv
  <2> QED BY <2>1, <2>2, <2>3, <2>4, <2>5 DEF RegistryInv
<1>2. CASE ~FollowerConnect(g)
  <2>0. stream[g].open /\ ~LeaderRestart
    <3>1. ~LeaderRestart
      BY RestartCloses
    <3>2. stream'[g] # Closed
      BY DEF Closed
    <3> QED BY <1>0, <1>2, <3>1, <3>2, StreamChanges, Zenon DEF PumpPoll, PumpWrite, PumpWriteDone
  <2> DEFINE token == stream[g].token
             old == registry[token]
             new == registry'[token]
  <2>1. /\ stream'[g].token = token /\ token \in DOMAIN registry /\ token \in DOMAIN registry'
        /\ old \in Nat /\ new \in Nat /\ old <= new /\ new <= stream'[g].next_segment
    BY <1>2, <2>0, RegistryMoves
  <2> HIDE DEF old, new
  <2>2. /\ token \in cleaner.known =>
             cleaner.retain # {} /\ \A retain \in cleaner.retain : retain <= old
        /\ \A r \in removed : token \in r.known => r.no < old
        /\ cleaner.retain \subseteq Nat
    BY <1>0, <2>0 DEF RegistryInv, CleanerInv, old
  <2>3. ASSUME NEW r \in removed, token \in r.known PROVE r.no < new
    <3>1. r.no \in Nat
      BY <1>0 DEF CleanerInv, LogInv
    <3>2. r.no < old
      BY <2>2, <2>3, Zenon
    <3>3. old \in Nat /\ new \in Nat /\ old <= new
      BY <2>1, Zenon
    <3> QED BY ONLY <3>1, <3>2, <3>3
  <2>4. token \in cleaner.known =>
          cleaner.retain # {} /\ \A retain \in cleaner.retain : retain <= new
    <3>1. old \in Nat /\ new \in Nat /\ old <= new
      BY <2>1, Zenon
    <3>2. \A n \in Nat : n <= old => n <= new
      BY ONLY <3>1
    <3>3. \A retain \in cleaner.retain : retain \in Nat
      BY <2>2
    <3> QED BY <2>2, <3>2, <3>3, Zenon
  <2>5. (token \in cleaner'.known =>
           cleaner'.retain # {} /\ \A retain \in cleaner'.retain : retain <= new)
        /\ \A r \in removed' : token \in r.known => r.no < new
    <3>1. CASE cleaner' = cleaner /\ removed' = removed
      BY <2>3, <2>4, <3>1
    <3>2. CASE removed' = removed /\ cleaner'.retain = MinRetainedSegment
      <4>1. /\ MinRetainedSegment # {} /\ MinRetainedSegment \subseteq Nat
            /\ \A retain \in MinRetainedSegment : retain <= old
        BY <1>0, <2>1, MinRetained DEF old
      <4>2. \A retain \in MinRetainedSegment : retain <= new
        <5>1. old \in Nat /\ new \in Nat /\ old <= new
          BY <2>1, Zenon
        <5>2. \A n \in Nat : n <= old => n <= new
          BY ONLY <5>1
        <5>3. \A retain \in MinRetainedSegment : retain \in Nat
          BY <4>1
        <5> QED BY <4>1, <5>2, <5>3, Zenon
      <4> QED BY <2>3, <3>2, <4>1, <4>2, Zenon
    <3>3. CASE removed' = removed /\ cleaner'.retain = cleaner.retain
               /\ cleaner'.known = cleaner.known
      BY <2>3, <2>4, <3>3
    <3>4. CASE removed' = removed /\ cleaner' = IdleCleaner
      BY <2>3, <3>4 DEF IdleCleaner
    <3>5. ASSUME NEW no \in cleaner.obsolete,
                 removed' = removed \cup {[no |-> no, known |-> cleaner.known]},
                 cleaner'.retain = cleaner.retain, cleaner'.known = cleaner.known
          PROVE  \A r \in removed' : token \in r.known => r.no < new
      <4>1. ASSUME token \in cleaner.known PROVE no < new
        <5>1. PICK retain \in cleaner.retain : retain <= new
          BY <2>4, <4>1
        <5>2. no < retain /\ no \in Nat /\ retain \in Nat
          BY <1>0 DEF CleanerInv, LogInv
        <5> QED BY <2>1, <5>1, <5>2
      <4> QED BY <2>3, <3>5, <4>1
    <3>6. \/ cleaner' = cleaner /\ removed' = removed
          \/ removed' = removed /\ cleaner'.retain = MinRetainedSegment
          \/ removed' = removed /\ cleaner'.retain = cleaner.retain /\ cleaner'.known = cleaner.known
          \/ removed' = removed /\ cleaner' = IdleCleaner
          \/ \E no \in cleaner.obsolete :
               /\ removed' = removed \cup {[no |-> no, known |-> cleaner.known]}
               /\ cleaner'.retain = cleaner.retain /\ cleaner'.known = cleaner.known
      <4>1. ASSUME NEW obsolete,
                   cleaner' = [pc |-> "remove", retain |-> cleaner.retain,
                               known |-> cleaner.known, obsolete |-> obsolete]
            PROVE  cleaner'.retain = cleaner.retain /\ cleaner'.known = cleaner.known
        BY <4>1
      <4>2. ASSUME cleaner' = [pc |-> "read", retain |-> MinRetainedSegment, obsolete |-> {},
                               known |-> DOMAIN registry]
            PROVE  cleaner'.retain = MinRetainedSegment
        BY <4>2
      <4> QED BY <1>0, <2>0, <4>1, <4>2, CleanerChanges, Zenon
    <3>7. (\E no \in cleaner.obsolete :
             /\ removed' = removed \cup {[no |-> no, known |-> cleaner.known]}
             /\ cleaner'.retain = cleaner.retain /\ cleaner'.known = cleaner.known)
          => (token \in cleaner'.known =>
                cleaner'.retain # {} /\ \A retain \in cleaner'.retain : retain <= new)
             /\ \A r \in removed' : token \in r.known => r.no < new
      BY <2>4, <3>5
    <3> QED BY <3>1, <3>2, <3>3, <3>4, <3>6, <3>7, Zenon
  <2> QED BY <2>1, <2>5 DEF RegistryInv, new
<1> QED BY <1>1, <1>2

\* Every step keeps the tokens apart and the cleaner's work sound.
LEMMA CleanerStep ==
  ASSUME Laws, ReplicaInv, CleaningInv, [ReplNext]_replVars, ~reused' PROVE CleanerInv'
<1>0. /\ ~reused /\ CleanerInv /\ Shape /\ LogInv /\ LogInv' /\ Grows
      /\ \A f \in Follower : RegistryInv(stream[f]) /\ CopiesInv(f)
  BY LogStep DEF CleaningInv, ReplicaInv
<1>1. CASE LeaderRestart
  <2>1. /\ cleaner' = IdleCleaner /\ removed' = {} /\ next_token' = 0
        /\ DOMAIN registry' = {} /\ \A f \in Follower : ~stream'[f].open
    BY <1>1, RestartCloses DEF LeaderRestart
  <2> QED BY <2>1 DEF CleanerInv, IdleCleaner
<1>2. CASE ~LeaderRestart
  <2>1. /\ next_token' \in Nat /\ next_token <= next_token'
        /\ \A token \in DOMAIN registry' :
             token \in Nat /\ token < next_token' /\ registry'[token] \in Nat
    <3>0. next_token \in Nat /\ \A token \in DOMAIN registry :
            token \in Nat /\ token < next_token /\ registry[token] \in Nat
      BY <1>0 DEF CleanerInv
    <3>1. CASE UNCHANGED registryVars
      BY <3>0, <3>1 DEF registryVars
    <3>2. ASSUME NEW f \in Follower, PumpWriteDone(f)
          PROVE  next_token' = next_token /\ DOMAIN registry' = DOMAIN registry /\
                 \A token \in DOMAIN registry : registry'[token] \in Nat
      <4>1. \A no \in DOMAIN stream[f].pages : no \in Nat
        BY <1>0, PagesAreLogged
      <4> QED BY <3>0, <3>2, <4>1, ZenonT(30) DEF PumpWriteDone, Update
    <3>3. ASSUME NEW f \in Follower, FollowerConnect(f)
          PROVE  next_token' = next_token + 1 /\
                 \A token \in DOMAIN registry' :
                   token \in Nat /\ token < next_token' /\ registry'[token] \in Nat
      <4>1. NextSegmentToFetch(mirror[f]) \in Nat
        BY <1>0, FetchExists
      <4> QED BY <3>0, <3>3, <4>1 DEF FollowerConnect, Register, Put
    <3>4. ASSUME NEW token, OnDone(token)
          PROVE  next_token' = next_token /\ \A t \in DOMAIN registry' :
                   t \in DOMAIN registry /\ registry'[t] = registry[t]
      BY <3>4 DEF OnDone, Unregister
    <3>5. \/ UNCHANGED registryVars
          \/ \E f \in Follower : PumpWriteDone(f) \/ FollowerConnect(f)
          \/ \E token : OnDone(token)
      BY <1>2, Zenon DEF ReplNext, LeaderWrite, CleanStart, CleanRead, CleanRemove, PumpStep, PumpPoll,
                  PumpWrite, StreamBreaks, FollowerStep, FollowerStreamEnd, FollowerReceive,
                  FollowerMirror, FollowerApply, FollowerCrash, registryVars, replVars
    <3> QED BY <3>0, <3>1, <3>2, <3>3, <3>4, <3>5
  <2>2. ASSUME NEW f \in Follower, NEW g \in Follower, f # g, stream'[f].open, stream'[g].open
        PROVE  stream'[f].token # stream'[g].token
    <3>1. ASSUME NEW h \in Follower, stream'[h].open, ~FollowerConnect(h)
          PROVE  stream[h].open /\ stream'[h].token = stream[h].token /\
                 stream[h].token \in Nat /\ stream[h].token < next_token
      <4>1. stream'[h] # Closed
        BY <3>1 DEF Closed
      <4>2. stream[h].open
        BY <1>0, <3>1, <4>1, StreamChanges, Zenon DEF PumpPoll, PumpWrite, PumpWriteDone
      <4>3. stream'[h].token = stream[h].token /\ stream[h].token \in DOMAIN registry
        BY <3>1, <4>2, RegistryMoves
      <4> QED BY <1>0, <4>2, <4>3, ZenonT(30) DEF CleanerInv
    <3>2. ASSUME NEW h \in Follower, FollowerConnect(h)
          PROVE  stream'[h].token = next_token /\ next_token \in Nat /\
                 \A k \in Follower : k # h => stream'[k] = stream[k] /\ ~FollowerConnect(k)
      <4>1. /\ follower[h].pc = "connect" /\ follower'[h].pc = "reading"
            /\ \A k \in Follower : k # h => stream'[k] = stream[k] /\ follower'[k] = follower[k]
        BY <1>0, <3>2 DEF FollowerConnect, Shape
      <4>2. \A k \in Follower : FollowerConnect(k) => follower[k].pc = "connect"
                                                      /\ follower'[k].pc = "reading"
        BY <1>0 DEF FollowerConnect, Shape
      <4>3. stream'[h].token = next_token
        BY <1>0, <3>2 DEF FollowerConnect, Shape, Closed
      <4> QED BY <1>0, <4>1, <4>2, <4>3 DEF CleanerInv
    <3>3. CASE FollowerConnect(f)
      BY <2>2, <3>1, <3>2, <3>3
    <3>4. CASE FollowerConnect(g)
      BY <2>2, <3>1, <3>2, <3>4
    <3>5. CASE ~FollowerConnect(f) /\ ~FollowerConnect(g)
      BY <1>0, <2>2, <3>1, <3>5 DEF CleanerInv
    <3> QED BY <3>3, <3>4, <3>5
  <2>3. ASSUME NEW n \in DOMAIN logged, logged[n] # <<>>
        PROVE  n \in DOMAIN logged' /\ logged'[n] # <<>>
    <3>1. n \in DOMAIN logged' /\ logged[n] \in Seq(Nat)
      BY <1>0, Zenon DEF Grows, LogInv
    <3>2. ASSUME NEW x \in Nat, logged'[n] = Append(logged[n], x) PROVE logged'[n] # <<>>
      BY <3>1, <3>2
    <3> QED BY <1>0, <2>3, <3>1, <3>2 DEF Grows
  <2>4. ASSUME NEW n \in DOMAIN segments, segments[n] # <<>>, n \in DOMAIN segments'
        PROVE  segments'[n] # <<>>
    BY <1>0, <2>3, <2>4 DEF LogInv
  <2>5. /\ \A token \in cleaner.known : token \in Nat /\ token < next_token'
        /\ \A token \in DOMAIN registry : token \in Nat /\ token < next_token'
        /\ \A r \in removed : \A token \in r.known : token \in Nat /\ token < next_token'
        /\ \A r \in removed : r.no \in DOMAIN logged' /\ logged'[r.no] # <<>>
    <3>1. next_token \in Nat /\ next_token' \in Nat /\ next_token <= next_token'
      BY <1>0, <2>1 DEF CleanerInv
    <3> QED BY <1>0, <2>3, <3>1 DEF CleanerInv
  <2> DEFINE Tokens(S) == \A token \in S : token \in Nat /\ token < next_token'
             Gone(R) == \A r \in R : Tokens(r.known) /\ r.no \in DOMAIN logged'
                                                     /\ logged'[r.no] # <<>>
             Doomed(S, retained) == \A no \in S :
               /\ no \in DOMAIN segments' /\ segments'[no] # <<>>
               /\ \A retain \in retained : no < retain
             Goal == /\ DOMAIN cleaner' = DOMAIN IdleCleaner
                     /\ Tokens(cleaner'.known) /\ Gone(removed') /\ cleaner'.retain \subseteq Nat
                     /\ cleaner'.pc # "remove" => cleaner'.obsolete = {}
                     /\ Doomed(cleaner'.obsolete, cleaner'.retain)
  <2>6. Tokens(cleaner.known) /\ Tokens(DOMAIN registry) /\ Gone(removed)
    BY <2>5
  <2>7. DOMAIN IdleCleaner = {"pc", "retain", "obsolete", "known"}
    BY DEF IdleCleaner
  <2>8. ASSUME cleaner' = cleaner, removed' = removed PROVE Goal
    <3>1. DOMAIN segments \subseteq DOMAIN segments'
      <4>1. CASE LeaderWrite
        BY <4>1 DEF LeaderWrite, Put
      <4>2. CASE CleanRemove
        <5>1. cleaner.pc = "remove" /\ IdleCleaner.pc = "idle" /\ "obsolete" \in DOMAIN cleaner
          BY <1>0, <2>7, <4>2 DEF CleanRemove, CleanerInv, IdleCleaner
        <5>2. \A no \in cleaner.obsolete : cleaner # [cleaner EXCEPT !.obsolete = @ \ {no}]
          BY <5>1
        <5> QED BY <2>8, <4>2, <5>1, <5>2, Zenon DEF CleanRemove
      <4> QED BY <1>2, <4>1, <4>2, Zenon DEF ReplNext, CleanStart, CleanRead, PumpStep, PumpPoll,
                 PumpWrite, PumpWriteDone, StreamBreaks, FollowerStep, FollowerConnect,
                 FollowerStreamEnd, FollowerReceive, FollowerMirror, FollowerApply,
                 FollowerCrash, OnDone, leaderVars, logVars, replVars
    <3>2. Doomed(cleaner.obsolete, cleaner.retain)
      BY <1>0, <2>4, <3>1 DEF CleanerInv
    <3> HIDE DEF Tokens, Gone, Doomed
    <3> QED BY <1>0, <2>6, <2>8, <3>2 DEF CleanerInv
  <2>9. ASSUME removed' = removed,
               cleaner' = [pc |-> "read", retain |-> MinRetainedSegment, obsolete |-> {},
                           known |-> DOMAIN registry]
        PROVE  Goal
    <3>1. MinRetainedSegment \subseteq Nat
      BY <1>0, Zenon DEF MinRetainedSegment, CleanerInv, Range
    <3>2. \A S : Doomed({}, S)
      OBVIOUS
    <3> HIDE DEF Tokens, Gone, Doomed
    <3> QED BY <2>6, <2>7, <2>9, <3>1, <3>2
  <2>10. ASSUME NEW obsolete, CleanRead, removed' = removed,
                \A no \in obsolete : no \in DOMAIN segments /\ segments[no] # <<>>
                                     /\ \A retain \in cleaner.retain : no < retain,
                cleaner' = [pc |-> "remove", retain |-> cleaner.retain, known |-> cleaner.known,
                            obsolete |-> obsolete]
         PROVE  Goal
    <3>1. segments' = segments /\ cleaner.retain \subseteq Nat
      BY <1>0, <2>10 DEF CleanRead, logVars, CleanerInv
    <3>2. Doomed(obsolete, cleaner.retain)
      BY <2>10, <3>1, ZenonT(30)
    <3> HIDE DEF Tokens, Gone, Doomed
    <3> QED BY <2>6, <2>7, <2>10, <3>1, <3>2
  <2>11. ASSUME removed' = removed, cleaner' = IdleCleaner PROVE Goal
    BY <2>6, <2>11 DEF IdleCleaner
  <2>12. ASSUME NEW no \in cleaner.obsolete,
                segments' = [n \in DOMAIN segments \ {no} |-> segments[n]],
                removed' = removed \cup {[no |-> no, known |-> cleaner.known]},
                cleaner' = [pc |-> "remove", retain |-> cleaner.retain, known |-> cleaner.known,
                            obsolete |-> cleaner.obsolete \ {no}]
         PROVE  Goal
    <3>1. Doomed(cleaner.obsolete \ {no}, cleaner.retain)
      BY <1>0, <2>12, Zenon DEF CleanerInv
    <3>2. no \in DOMAIN logged' /\ logged'[no] # <<>>
      <4>1. no \in DOMAIN logged /\ logged[no] # <<>>
        BY <1>0 DEF CleanerInv, LogInv
      <4> QED BY <2>3, <4>1
    <3>3. Gone(removed')
      BY <2>6, <2>12, <3>2
    <3>4. cleaner.retain \subseteq Nat
      BY <1>0 DEF CleanerInv
    <3> HIDE DEF Tokens, Gone, Doomed
    <3> QED BY <2>6, <2>7, <2>12, <3>1, <3>3, <3>4, Zenon
  <2>13. Goal
    <3>1. ASSUME NEW persistent, NEW no \in {n \in DOMAIN segments : IsObsolete(n, persistent)}
          PROVE  no \in DOMAIN segments /\ segments[no] # <<>>
                 /\ \A retain \in cleaner.retain : no < retain
      BY DEF IsObsolete
    <3> HIDE DEF Goal
    <3>2. ASSUME NEW persistent, CleanRead, removed' = removed,
                 cleaner' = [pc |-> "remove", retain |-> cleaner.retain, known |-> cleaner.known,
                             obsolete |-> {n \in DOMAIN segments : IsObsolete(n, persistent)}]
          PROVE  Goal
      <4> DEFINE obsolete == {n \in DOMAIN segments : IsObsolete(n, persistent)}
      <4>1. \A no \in obsolete : no \in DOMAIN segments /\ segments[no] # <<>>
                                 /\ \A retain \in cleaner.retain : no < retain
        BY <3>1
      <4> HIDE DEF obsolete
      <4>2. cleaner' = [pc |-> "remove", retain |-> cleaner.retain, known |-> cleaner.known,
                        obsolete |-> obsolete]
        BY <3>2 DEF obsolete
      <4> QED BY <2>10, <3>2, <4>1, <4>2, Zenon
    <3> QED BY <1>0, <1>2, <2>8, <2>9, <2>11, <2>12, <3>2, CleanerChanges, Zenon
  <2> QED BY <2>1, <2>2, <2>13 DEF CleanerInv
<1> QED BY <1>1, <1>2

-----------------------------------------------------------------------------
\* At the start nothing was sent, registered or removed.
LEMMA CleaningInit == ASSUME ReplInit PROVE CleaningInv
<1> USE DEF ReplInit
<1>1. CleanerInv
  BY Zenon DEF CleanerInv, IdleCleaner, Closed
<1>2. ASSUME NEW f \in Follower
      PROVE  OrderInv(f) /\ StreamInv(f, stream[f]) /\ RegistryInv(stream[f])
  <2>1. ~stream[f].open /\ stream[f].pages = NoPages /\ network[f] = <<>>
        /\ follower[f].pc = "connect"
    BY DEF Closed
  <2>2. OrderInv(f)
    <3>1. DOMAIN stream[f].pages = {} /\ DOMAIN network[f] = {}
      BY <2>1 DEF NoPages
    <3>2. follower[f].pc # "mirror" /\ follower[f].pc # "apply"
      BY <2>1
    <3> QED BY <2>1, <3>1, <3>2 DEF OrderInv
  <2>3. StreamInv(f, stream[f]) /\ RegistryInv(stream[f])
    BY <2>1, Zenon DEF StreamInv, RegistryInv
  <2> QED BY <2>2, <2>3
<1> QED BY <1>1, <1>2 DEF CleaningInv

\* What is said of the streams, the registry and the cleaner is inductive.
LEMMA CleaningStep ==
  ASSUME Laws
  PROVE  ReplicaInv /\ CleaningInv /\ [ReplNext]_replVars => CleaningInv'
<1> SUFFICES ASSUME ReplicaInv, CleaningInv, [ReplNext]_replVars, ~reused'
             PROVE  CleanerInv' /\ \A f \in Follower :
                      OrderInv(f)' /\ StreamInv(f, stream[f])' /\ RegistryInv(stream[f])'
  BY DEF CleaningInv
<1>1. \A f \in Follower : OrderInv(f)
  BY LogStep DEF CleaningInv
<1> QED BY <1>1, CleanerStep, OrderStep, StreamStep, RegistryStep

-----------------------------------------------------------------------------
\* A log stays in order when an event that is larger than all others is added at its end.
LEMMA OrderExtends ==
  ASSUME NEW log, NEW more, NEW x \in Nat, InOrder(log),
         DOMAIN more \subseteq Nat, \A no \in DOMAIN more : more[no] \in Seq(Nat),
         \A no \in DOMAIN log : \A i \in 1..Len(log[no]) : log[no][i] < x,
         \A no \in DOMAIN more : \A i \in 1..Len(more[no]) :
           \/ more[no][i] = Padding
           \/ no \in DOMAIN log /\ i \in 1..Len(log[no]) /\ more[no][i] = log[no][i]
           \/ more[no][i] = x /\ i = Len(more[no]) /\ \A n \in DOMAIN more : n <= no
  PROVE  InOrder(more)
<1> SUFFICES ASSUME NEW no \in DOMAIN more, NEW n \in DOMAIN more,
                    NEW i \in 1..Len(more[no]), NEW j \in 1..Len(more[n]),
                    no < n \/ (no = n /\ i < j),
                    more[no][i] # Padding, more[n][j] # Padding
             PROVE  more[no][i] < more[n][j]
  BY DEF InOrder
<1>0. no \in Nat /\ n \in Nat /\ Len(more[no]) \in Nat /\ Len(more[n]) \in Nat
  OBVIOUS
<1>1. no \in DOMAIN log /\ i \in 1..Len(log[no]) /\ more[no][i] = log[no][i]
  <2>1. ~(i = Len(more[no]) /\ \A m \in DOMAIN more : m <= no)
    BY <1>0
  <2> QED BY <2>1
<1>2. CASE n \in DOMAIN log /\ j \in 1..Len(log[n]) /\ more[n][j] = log[n][j]
  BY <1>1, <1>2, Zenon DEF InOrder
<1>3. CASE more[n][j] = x
  BY <1>1, <1>3
<1> QED BY <1>2, <1>3

\* The leader numbers the events of its log in order.
LEMMA OrderedLogStep ==
  ASSUME Laws, ReplicaInv, TypesInv, InOrder(logged), [ReplNext]_replVars, ~reused'
  PROVE  InOrder(logged')
<1>0. ~reused /\ LogInv /\ LogInv' /\ PagesInv /\ PagesInv' /\ next_event \in Nat
  BY LogStep, PagesStep DEF ReplicaInv, TypesInv
<1>1. /\ \A no \in DOMAIN logged : logged[no] \in Seq(Nat) /\ Len(logged[no]) \in Nat
      /\ \A no \in DOMAIN logged : \A i \in 1..Len(logged[no]) : logged[no][i] < next_event
      /\ DOMAIN logged = 0..current_segment /\ current_segment \in Nat
  BY <1>0 DEF PagesInv, ArePages, IsPage, LogInv
<1>2. DOMAIN logged' \subseteq Nat /\ \A no \in DOMAIN logged' : logged'[no] \in Seq(Nat)
  BY <1>0, Zenon DEF PagesInv, ArePages, IsPage
<1>3. CASE LeaderRestart
  <2>1. PICK no : /\ logged' = Put(logged, no, <<>>) /\ reused' = (reused \/ no \in DOMAIN logged)
    BY <1>3 DEF LeaderRestart
  <2>2. /\ DOMAIN logged' = DOMAIN logged \cup {no} /\ no \notin DOMAIN logged
        /\ \A n \in DOMAIN logged' : logged'[n] = IF n = no THEN <<>> ELSE logged[n]
    BY <2>1, ZenonT(30) DEF Put
  <2>3. \A n \in DOMAIN logged' : \A i \in 1..Len(logged'[n]) :
          n \in DOMAIN logged /\ i \in 1..Len(logged[n]) /\ logged'[n][i] = logged[n][i]
    <3>1. 1..Len(<<>>) = {}
      OBVIOUS
    <3> QED BY <2>2, <3>1
  <2> QED BY <1>0, <1>1, <1>2, <2>3, OrderExtends, Zenon
<1>4. CASE LeaderWrite
  <2> DEFINE cur == logged[current_segment]
             full == Len(cur) = PageEvents
             x == IF full THEN Padding ELSE next_event
             grown == [n \in DOMAIN logged |->
                         IF n = current_segment THEN Append(cur, x) ELSE logged[n]]
  <2>1. logged' = IF full THEN Put(grown, current_segment + 1, <<next_event>>) ELSE grown
    BY <1>4, Zenon DEF LeaderWrite
  <2>2. cur \in Seq(Nat) /\ Len(cur) \in Nat /\ x \in Nat /\ current_segment \in DOMAIN logged
    BY <1>0, <1>1 DEF Padding
  <2> HIDE DEF cur
  <2>3. /\ Len(Append(cur, x)) = Len(cur) + 1
        /\ \A i \in 1..(Len(cur) + 1) : Append(cur, x)[i] = IF i <= Len(cur) THEN cur[i] ELSE x
    <3> HIDE DEF x
    <3> QED BY <2>2
  <2>4. \A n \in DOMAIN grown : \A i \in 1..Len(grown[n]) :
          \/ i \in 1..Len(logged[n]) /\ grown[n][i] = logged[n][i]
          \/ n = current_segment /\ i = Len(grown[n]) /\ grown[n][i] = x
    <3> HIDE DEF x
    <3>1. ASSUME NEW i \in 1..(Len(cur) + 1)
          PROVE  \/ i \in 1..Len(cur) /\ Append(cur, x)[i] = cur[i]
                 \/ i = Len(cur) + 1 /\ Append(cur, x)[i] = x
      BY <2>2, <2>3
    <3>2. \A n \in DOMAIN grown : n # current_segment => grown[n] = logged[n]
      OBVIOUS
    <3>3. grown[current_segment] = Append(cur, x) /\ cur = logged[current_segment]
      BY <2>2 DEF cur
    <3> HIDE DEF grown
    <3> QED BY <2>3, <3>1, <3>2, <3>3
  <2>5. DOMAIN grown = 0..current_segment
    BY <1>1
  <2>6. CASE ~full
    <3>1. logged' = grown /\ x = next_event
      BY <2>1, <2>6
    <3>2. \A n \in DOMAIN logged' : \A i \in 1..Len(logged'[n]) :
            \/ n \in DOMAIN logged /\ i \in 1..Len(logged[n]) /\ logged'[n][i] = logged[n][i]
            \/ /\ logged'[n][i] = next_event /\ i = Len(logged'[n])
               /\ \A m \in DOMAIN logged' : m <= n
      <4> HIDE DEF x, grown
      <4> QED BY <1>1, <2>4, <2>5, <3>1
    <3> QED BY <1>0, <1>1, <1>2, <3>2, OrderExtends, ZenonT(30)
  <2>7. CASE full
    <3> DEFINE no == current_segment + 1
    <3>1. logged' = Put(grown, no, <<next_event>>) /\ x = Padding
      BY <2>1, <2>7
    <3> HIDE DEF x, grown
    <3>2. /\ DOMAIN logged' = DOMAIN grown \cup {no}
          /\ \A n \in DOMAIN logged' : logged'[n] = IF n = no THEN <<next_event>> ELSE grown[n]
      BY <3>1 DEF Put
    <3>3. /\ Len(<<next_event>>) = 1 /\ <<next_event>>[1] = next_event
          /\ \A m \in DOMAIN logged' : m <= no
      BY <1>1, <2>5, <3>2
    <3>4. \A n \in DOMAIN logged' : \A i \in 1..Len(logged'[n]) :
            \/ logged'[n][i] = Padding
            \/ n \in DOMAIN logged /\ i \in 1..Len(logged[n]) /\ logged'[n][i] = logged[n][i]
            \/ /\ logged'[n][i] = next_event /\ i = Len(logged'[n])
               /\ \A m \in DOMAIN logged' : m <= n
      <4>1. ASSUME NEW n \in DOMAIN logged', n # no, NEW i \in 1..Len(logged'[n])
            PROVE  \/ logged'[n][i] = Padding
                   \/ n \in DOMAIN logged /\ i \in 1..Len(logged[n]) /\ logged'[n][i] = logged[n][i]
        BY <1>1, <2>4, <2>5, <3>1, <3>2, <4>1
      <4>2. logged'[no] = <<next_event>>
        BY <3>2
      <4>3. \A i \in 1..Len(logged'[no]) : logged'[no][i] = next_event /\ i = Len(logged'[no])
        BY <3>3, <4>2
      <4> HIDE DEF no
      <4> QED BY <3>3, <4>1, <4>3
    <3> QED BY <1>0, <1>1, <1>2, <3>4, OrderExtends, Zenon
  <2> QED BY <2>6, <2>7
<1>5. UNCHANGED logged \/ LeaderWrite \/ LeaderRestart
  BY LeaderChanges DEF CleanRemove, logVars
<1> QED BY <1>3, <1>4, <1>5

\* A directory holds no less once a file of it is replaced by one that is not shorter and
\* begins alike.
LEMMA PutHolds ==
  ASSUME NEW files, NEW no, NEW data, NEW event, Holds(files, event),
         no \in DOMAIN files => \A i \in 1..Len(files[no]) :
           i \in 1..Len(data) /\ data[i] = files[no][i]
  PROVE  Holds(Put(files, no, data), event)
<1>1. PICK n \in DOMAIN files : \E i \in 1..Len(files[n]) : files[n][i] = event
  BY DEF Holds
<1>2. PICK i \in 1..Len(files[n]) : files[n][i] = event
  BY <1>1
<1> DEFINE put == Put(files, no, data)
<1>3. n \in DOMAIN put /\ put[n] = IF n = no THEN data ELSE files[n]
  BY DEF Put
<1> HIDE DEF put
<1>4. i \in 1..Len(put[n]) /\ put[n][i] = event
  BY <1>2, <1>3
<1>5. Holds(put, event)
  BY <1>3, <1>4 DEF Holds
<1> QED BY <1>5 DEF put

\* Of two copies of a segment's page the shorter is the beginning of the longer.
LEMMA CopiesAgree ==
  ASSUME LogInv, NEW no, NEW s, NEW t, IsCopy(logged, no, s), IsCopy(logged, no, t),
         Len(s) <= Len(t), NEW i \in 1..Len(s)
  PROVE  i \in 1..Len(t) /\ t[i] = s[i]
<1>1. s \in Seq(Nat) /\ t \in Seq(Nat) /\ Len(s) \in Nat /\ Len(t) \in Nat
  BY DEF IsCopy
<1>2. i \in Nat /\ i <= Len(s) /\ i <= Len(t) /\ 1 <= i
  BY <1>1
<1>3. s # <<>> /\ t # <<>>
  BY <1>1, <1>2
<1>4. IsPrefix(s, logged[no]) /\ IsPrefix(t, logged[no]) /\ logged[no] \in Seq(Nat)
  BY <1>3 DEF IsCopy, LogInv
<1>5. s[i] = logged[no][i]
  BY <1>1, <1>2, <1>4 DEF IsPrefix
<1>6. t[i] = logged[no][i]
  BY <1>1, <1>2, <1>4 DEF IsPrefix
<1> QED BY <1>1, <1>2, <1>5, <1>6

\* What a follower holds, when its page arrives, ...
LEMMA HeldReceive ==
  ASSUME LogInv, TypesInv, NEW g \in Follower, CopiesInv(g), OrderInv(g), HeldInv(g),
         FollowerReceive(g)
  PROVE  HeldInv(g)'
<1> DEFINE page == Head(network[g])
           files == mirror[g]
           next == follower[g].next_seq_no
<1>0. Shape
  BY DEF TypesInv
<1>1. /\ follower[g].pc = "reading" /\ network[g] # <<>>
      /\ follower' = [follower EXCEPT ![g].pc = "mirror", ![g].page = page]
      /\ mirror' = [mirror EXCEPT ![g] = Put(@, page.segment, <<>>)]
  BY DEF FollowerReceive
<1>2. /\ follower'[g].pc = "mirror" /\ follower'[g].page = page
      /\ follower'[g].next_seq_no = next /\ mirror'[g] = Put(files, page.segment, <<>>)
  BY <1>0, <1>1 DEF Shape
<1>3. \A event \in 1..(next - 1) : Holds(files, event)
  BY <1>1 DEF HeldInv, Mirrored
<1>4. page = network[g][1] /\ 1 \in DOMAIN network[g]
  <2>1. network[g] \in Seq([segment : Nat, data : Seq(Nat)])
    BY DEF CopiesInv
  <2> QED BY <1>1, <2>1
<1> HIDE DEF page, files, next
<1>5. ASSUME page.segment \in DOMAIN files
      PROVE  \A i \in 1..Len(files[page.segment]) :
               i \in 1..Len(page.data) /\ page.data[i] = files[page.segment][i]
  <2>1. Len(files[page.segment]) <= Len(page.data)
    BY <1>4, <1>5, ZenonT(30) DEF OrderInv, files
  <2>2. IsCopy(logged, page.segment, files[page.segment]) /\ IsCopy(logged, page.segment, page.data)
    BY <1>4, <1>5, ZenonT(30) DEF CopiesInv, files
  <2> QED BY <2>1, <2>2, CopiesAgree
<1>6. ASSUME NEW event \in 1..(next - 1) PROVE Holds(Put(files, page.segment, page.data), event)
  BY <1>3, <1>5, <1>6, PutHolds
<1>7. Mirrored(g)' = Put(files, page.segment, page.data)
  <2>1. Mirrored(g)' = Put(Put(files, page.segment, <<>>), page.segment, page.data)
    BY <1>2 DEF Mirrored
  <2>2. \A no, data : Put(Put(files, no, <<>>), no, data) = Put(files, no, data)
    BY DEF Put
  <2> QED BY <2>1, <2>2, Zenon
<1>8. \A event \in 1..(next - 1) : Holds(Mirrored(g)', event)
  BY <1>6, <1>7
<1> QED BY <1>2, <1>8, Zenon DEF HeldInv, Holds

\* ... is written, ...
LEMMA HeldMirror ==
  ASSUME TypesInv, NEW g \in Follower, HeldInv(g), FollowerMirror(g)
  PROVE  HeldInv(g)'
<1> DEFINE page == follower[g].page
           files == mirror[g]
           next == follower[g].next_seq_no
<1>0. Shape /\ FollowerPagesInv(g)
  BY DEF TypesInv
<1>1. /\ follower[g].pc = "mirror" /\ follower' = [follower EXCEPT ![g].pc = "apply"]
      /\ mirror' = [mirror EXCEPT ![g][page.segment] = page.data]
  BY DEF FollowerMirror
<1>2. /\ follower'[g].pc = "apply" /\ follower'[g].page = page
      /\ follower'[g].next_seq_no = next
      /\ mirror'[g] = [files EXCEPT ![page.segment] = page.data]
  BY <1>0, <1>1 DEF Shape
<1>3. page.segment \in DOMAIN files
  BY <1>0, <1>1 DEF FollowerPagesInv
<1>4. \A event \in 1..(next - 1) : Holds(Put(files, page.segment, page.data), event)
  BY <1>1 DEF HeldInv, Mirrored
<1> HIDE DEF page, files, next
<1>5. mirror'[g] = Put(files, page.segment, page.data)
  BY <1>2, <1>3 DEF Put
<1>6. page.segment \in DOMAIN mirror'[g] /\ mirror'[g][page.segment] = page.data
  BY <1>2, <1>3
<1>7. Mirrored(g)' = Put(files, page.segment, page.data)
  BY <1>2, <1>5 DEF Mirrored
<1>8. \A event \in 1..(next - 1) : Holds(Mirrored(g)', event)
  BY <1>4, <1>7
<1> QED BY <1>2, <1>6, <1>8, Zenon DEF HeldInv, Holds

\* ... and is applied, ...
LEMMA HeldApply ==
  ASSUME Laws, TypesInv, NEW g \in Follower, HeldInv(g), FollowerApply(g)
  PROVE  HeldInv(g)'
<1> DEFINE page == follower[g].page
           files == mirror[g]
           next == follower[g].next_seq_no
           r == Replay(page.data, next)
<1>0. /\ Shape /\ page.data \in Seq(Nat) /\ next \in Nat \ {0}
  <2>1. FollowerPagesInv(g) /\ next_event \in Nat /\ Shape
    BY DEF TypesInv, PagesInv
  <2>2. page \in [segment : Nat, data : Seq(Nat)] /\ next \in 1..next_event
    BY <2>1 DEF FollowerPagesInv
  <2> HIDE DEF page, next
  <2> QED BY <2>1, <2>2
<1>1. /\ follower[g].pc = "apply" /\ mirror' = mirror
      /\ follower' = [follower EXCEPT ![g].pc = "reading", ![g].page = NoPage,
                                      ![g].next_seq_no = r]
  BY DEF FollowerApply
<1>2. follower'[g].pc = "reading" /\ follower'[g].next_seq_no = r
  <2> HIDE DEF r
  <2> QED BY <1>0, <1>1 DEF Shape
<1>3. /\ \A event \in 1..(next - 1) : Holds(files, event)
      /\ page.segment \in DOMAIN files /\ files[page.segment] = page.data
  BY <1>1 DEF HeldInv, Mirrored
<1> HIDE DEF page, files, next, r
<1>4. /\ r \in Nat /\ next <= r
      /\ \A event \in Nat : next <= event /\ event < r =>
           \E i \in 1..Len(page.data) : page.data[i] = event
  BY <1>0, ReplayBounds, Zenon DEF r
<1>5. ASSUME NEW event \in 1..(r - 1) PROVE Holds(files, event)
  <2>1. CASE event < next
    <3>1. event \in 1..(next - 1)
      BY <1>0, <2>1
    <3> QED BY <1>3, <3>1
  <2>2. CASE next <= event
    <3>1. event \in Nat /\ event < r
      BY <1>4
    <3>2. PICK i \in 1..Len(page.data) : page.data[i] = event
      BY <1>4, <2>2, <3>1
    <3> QED BY <1>3, <3>2 DEF Holds
  <2> QED BY <1>0, <2>1, <2>2
<1>6. Mirrored(g)' = files
  BY <1>1, <1>2 DEF Mirrored, files
<1>7. \A event \in 1..(r - 1) : Holds(Mirrored(g)', event)
  BY <1>5, <1>6
<1> QED BY <1>2, <1>7, ZenonT(30) DEF HeldInv, Holds

\* ... and when it dies and recovers.
LEMMA HeldCrash ==
  ASSUME Laws, TypesInv, NEW g \in Follower, FollowerCrash(g)
  PROVE  HeldInv(g)'
<1> DEFINE files == mirror[g]
           r == Recovered(files)
           no == Max(DOMAIN files) + 1
<1>0. Shape /\ ArePages(files, next_event)
  BY Zenon DEF TypesInv, FollowerPagesInv
<1>1. /\ follower' = [follower EXCEPT ![g].pc = "connect", ![g].page = NoPage,
                                      ![g].next_seq_no = r]
      /\ mirror' = [mirror EXCEPT ![g] = Put(@, Max(DOMAIN @) + 1, <<>>)]
  BY DEF FollowerCrash
<1>2. /\ follower'[g].pc = "connect" /\ follower'[g].next_seq_no = r
      /\ mirror'[g] = Put(files, no, <<>>)
  <2> HIDE DEF r
  <2> QED BY <1>0, <1>1 DEF Shape
<1>3. PICK last : IsDirectory(files, last)
  BY <1>0 DEF ArePages, IsDirectory, IsPage
<1> HIDE DEF files, r
<1>4. \A event \in 1..(r - 1) : Holds(files, event)
  BY <1>3, RecoveredHolds DEF r
<1>5. no \notin DOMAIN files
  BY <1>3, LastIsMax DEF IsDirectory
<1> HIDE DEF no
<1>6. \A event \in 1..(r - 1) : Holds(Put(files, no, <<>>), event)
  BY <1>4, <1>5, PutHolds
<1>7. Mirrored(g)' = Put(files, no, <<>>)
  BY <1>2 DEF Mirrored
<1>8. \A event \in 1..(r - 1) : Holds(Mirrored(g)', event)
  BY <1>6, <1>7
<1> QED BY <1>2, <1>8 DEF HeldInv, Holds

LEMMA HeldStep ==
  ASSUME Laws, ReplicaInv, CleaningInv, TypesInv, [ReplNext]_replVars, ~reused', NEW g \in Follower,
         HeldInv(g)
  PROVE  HeldInv(g)'
<1>0. Shape /\ LogInv /\ CopiesInv(g) /\ OrderInv(g)
  BY LogStep DEF ReplicaInv, CleaningInv
<1>1. CASE follower'[g] = follower[g] /\ mirror'[g] = mirror[g]
  <2>1. Mirrored(g)' = Mirrored(g)
    BY <1>1, ZenonT(30) DEF Mirrored
  <2> QED BY <1>1, <2>1 DEF HeldInv, Holds
<1>2. CASE FollowerConnect(g) \/ FollowerStreamEnd(g)
  <2>1. /\ follower[g].pc # "mirror" /\ follower'[g].pc \in {"reading", "connect"}
        /\ follower'[g].next_seq_no = follower[g].next_seq_no /\ mirror' = mirror
    BY <1>0, <1>2 DEF FollowerConnect, FollowerStreamEnd, Shape
  <2>2. Mirrored(g)' = Mirrored(g)
    BY <2>1 DEF Mirrored
  <2>3. follower'[g].pc # "apply"
    BY <2>1
  <2>4. \A event \in 1..(follower[g].next_seq_no - 1) : Holds(Mirrored(g), event)
    BY Zenon DEF HeldInv
  <2>5. \A event \in 1..(follower'[g].next_seq_no - 1) : Holds(Mirrored(g)', event)
    BY <2>1, <2>2, <2>4, Zenon
  <2> QED BY <2>3, <2>5, Zenon DEF HeldInv, Holds
<1>3. CASE FollowerReceive(g) \/ FollowerMirror(g) \/ FollowerApply(g) \/ FollowerCrash(g)
  BY <1>0, <1>3, HeldReceive, HeldMirror, HeldApply, HeldCrash
<1>4. \/ follower'[g] = follower[g] /\ mirror'[g] = mirror[g]
      \/ FollowerStep(g) \/ FollowerCrash(g)
  <2>1. ASSUME NEW f \in Follower, f # g, FollowerStep(f) \/ FollowerCrash(f)
        PROVE  follower'[g] = follower[g] /\ mirror'[g] = mirror[g]
    BY <1>0, <2>1 DEF FollowerStep, FollowerConnect, FollowerStreamEnd, FollowerReceive,
                      FollowerMirror, FollowerApply, FollowerCrash, Shape
  <2>2. UNCHANGED <<follower, mirror>> \/ \E f \in Follower : FollowerStep(f) \/ FollowerCrash(f)
    BY Zenon DEF ReplNext, LeaderWrite, LeaderRestart, CleanStart, CleanRead, CleanRemove, PumpStep,
           PumpPoll, PumpWrite, PumpWriteDone, StreamBreaks, OnDone, followerVars, replVars
  <2> QED BY <2>1, <2>2
<1> QED BY <1>1, <1>2, <1>3, <1>4, Zenon DEF FollowerStep

\* A mirror is in order when the log is.
LEMMA OrderedMirror ==
  ASSUME LogInv, InOrder(logged), NEW f \in Follower, CopiesInv(f)
  PROVE  InOrder(mirror[f])
<1> DEFINE files == mirror[f]
<1>1. ASSUME NEW no \in DOMAIN files, NEW i \in 1..Len(files[no])
      PROVE  no \in DOMAIN logged /\ i \in 1..Len(logged[no]) /\ files[no][i] = logged[no][i]
  <2>1. IsCopy(logged, no, files[no])
    BY <1>1, Zenon DEF CopiesInv
  <2> HIDE DEF files
  <2>2. files[no] \in Seq(Nat) /\ files[no] # <<>> /\ Len(files[no]) \in Nat
    BY <1>1, <2>1 DEF IsCopy
  <2>3. no \in DOMAIN logged /\ IsPrefix(files[no], logged[no]) /\ logged[no] \in Seq(Nat)
    BY <2>1, <2>2, ZenonT(30) DEF IsCopy, LogInv
  <2>4. Len(files[no]) <= Len(logged[no]) /\ Len(logged[no]) \in Nat
    BY <2>2, <2>3, PrefixFacts
  <2>5. i \in 1..Len(logged[no])
    BY <1>1, <2>2, <2>4
  <2>6. files[no][i] = logged[no][i]
    BY <1>1, <2>3, Zenon DEF IsPrefix
  <2> QED BY <2>3, <2>5, <2>6
<1> HIDE DEF files
<1>2. InOrder(files)
  BY <1>1 DEF InOrder
<1> QED BY <1>2 DEF files

-----------------------------------------------------------------------------
\* The laws of numbers and finite sets hold.
INSTANCE OrderFacts

\* The mirrors of all followers hold beginnings of the leader's segments, in every
\* reachable state.
THEOREM ReplicaInvariant == ReplSpec => []ReplicaInv
<1>1. ReplInit => ReplicaInv
  BY ReplicaInit
<1> QED BY <1>1, ReplicaStep, LawsHold, PTL DEF ReplSpec

\* A mirrored segment is the beginning of the leader's segment of that number, through
\* growing tails sent again, broken streams and crashes of any number of followers.
THEOREM MirrorIsPrefixAlways == ReplSpec => []MirrorIsPrefix
<1>1. ReplicaInv => MirrorIsPrefix
  BY DEF ReplicaInv, CopiesInv, IsCopy, MirrorIsPrefix
<1> QED BY <1>1, ReplicaInvariant, PTL

\* Whatever is removed, lost, sent again or restarted, and even when the leader gives a
\* number twice, directories, streams and followers hold pages of events that were logged.
THEOREM TypesInvariant == ReplSpec => []TypesInv
<1>1. ReplInit => TypesInv
  BY TypesInit
<1> QED BY <1>1, TypesStep, LawsHold, PTL DEF ReplSpec

\* Types of the leader, the streams and the followers: an open stream is registered, and
\* no follower applies an event that was not logged (ReplTypeOK).
THEOREM ReplTypes == ReplSpec => []ReplTypeOK
<1>1. TypesInv => ReplTypeOK
  <2> SUFFICES ASSUME TypesInv PROVE ReplTypeOK
    OBVIOUS
  <2>1. DOMAIN segments \subseteq DOMAIN logged /\ current_segment \in DOMAIN logged
    BY DEF TypesInv, PagesInv
  <2>2. \A no \in DOMAIN logged : Len(logged[no]) <= PageEvents + 1
    BY DEF TypesInv, PagesInv, ArePages, IsPage
  <2>3. ASSUME NEW f \in Follower
        PROVE  /\ stream[f].open => stream[f].token \in DOMAIN registry
               /\ stream[f].next_page \in {0, 1} /\ stream[f].tail_sent_size \in -1..PageEvents
               /\ follower[f].pc \in {"connect", "reading", "mirror", "apply"}
               /\ follower[f].next_seq_no \in 1..next_event
    BY Zenon DEF TypesInv, FollowerPagesInv
  <2> QED BY <2>1, <2>2, <2>3, Zenon DEF ReplTypeOK
<1> QED BY <1>1, TypesInvariant, PTL

\* The streams, the registry and the pass of the cleaner agree on what has been sent and
\* what may be removed, in every reachable state.
THEOREM CleaningInvariant == ReplSpec => []CleaningInv
<1>1. ReplInit => CleaningInv
  BY CleaningInit
<1> QED BY <1>1, CleaningStep, LawsHold, ReplicaInvariant, PTL DEF ReplSpec

\* follower_registry.hpp:15-16, for any number of followers and any interleaving of the
\* streams, the leader's writer and the cleaner: a stream misses no segment that was
\* removed by a cleaner which knew of the stream.
THEOREM CleanedWasStreamedAlways == ReplSpec => []CleanedWasStreamed
<1>1. ReplicaInv /\ CleaningInv => CleanedWasStreamed
  <2> SUFFICES ASSUME ReplicaInv, CleaningInv, ~reused, NEW f \in Follower, NEW r \in removed,
                      stream[f].open, stream[f].token \in r.known, r.no >= stream[f].from
               PROVE  Copied(f, r.no, logged[r.no])
    BY DEF CleanedWasStreamed
  <2>1. CleanerInv /\ StreamInv(f, stream[f]) /\ RegistryInv(stream[f]) /\ LogInv
    BY DEF CleaningInv, ReplicaInv
  <2>2. Due(stream[f], r.no) /\ r.no \in DOMAIN logged /\ r.no \in Nat
    BY <2>1 DEF Due, CleanerInv, LogInv
  <2>3. /\ r.no < registry[stream[f].token]
        /\ registry[stream[f].token] <= stream[f].next_segment
        /\ registry[stream[f].token] \in Nat /\ stream[f].next_segment \in Nat
        /\ stream[f].from \in Nat
    BY <2>1, ZenonT(30) DEF RegistryInv, CleanerInv, StreamInv
  <2>4. Passed(stream[f], r.no) /\ stream[f].from <= r.no
    <3>1. r.no < stream[f].next_segment /\ stream[f].from <= r.no
      <4>1. r.no < registry[stream[f].token] /\ r.no \in Nat
        BY <2>2, <2>3, Zenon
      <4>2. \A m, n \in Nat : r.no < m /\ m <= n => r.no < n
        BY ONLY <4>1
      <4>3. r.no >= stream[f].from /\ r.no \in Nat /\ stream[f].from \in Nat
        BY <2>2, <2>3, Zenon
      <4>4. stream[f].from <= r.no
        BY ONLY <4>3
      <4> QED BY <2>3, <4>1, <4>2, <4>4, Zenon
    <3> QED BY <3>1 DEF Passed
  <2> QED BY <2>1, <2>2, <2>4, ZenonT(30) DEF StreamInv
<1> QED BY <1>1, CleaningInvariant, ReplicaInvariant, PTL

\* As long as the leader gives no number twice, its log is in order and every follower
\* holds what it has applied.
THEOREM AppliedInvariant == ReplSpec => []AppliedInv
<1>1. ReplInit => AppliedInv
  <2> SUFFICES ASSUME ReplInit PROVE AppliedInv
    OBVIOUS
  <2>1. logged = Put(NoPages, 0, <<>>)
    BY DEF ReplInit
  <2>2. DOMAIN logged = {0} /\ logged[0] = <<>> /\ 1..Len(<<>>) = {}
    BY <2>1 DEF Put, NoPages
  <2>3. InOrder(logged)
    BY <2>2 DEF InOrder
  <2>4. ASSUME NEW f \in Follower PROVE HeldInv(f)
    <3>1. follower[f].pc = "connect" /\ follower[f].next_seq_no = 1 /\ 1..(1 - 1) = {}
      BY DEF ReplInit
    <3> QED BY <3>1 DEF HeldInv
  <2> QED BY <2>3, <2>4 DEF AppliedInv
<1>2. ReplicaInv /\ CleaningInv /\ TypesInv /\ AppliedInv /\ [ReplNext]_replVars => AppliedInv'
  <2> SUFFICES ASSUME ReplicaInv, CleaningInv, TypesInv, AppliedInv, [ReplNext]_replVars, ~reused'
               PROVE  InOrder(logged') /\ \A f \in Follower : HeldInv(f)'
    BY Zenon DEF AppliedInv, InOrder
  <2>1. InOrder(logged) /\ \A f \in Follower : HeldInv(f)
    BY LogStep, LawsHold DEF AppliedInv
  <2> QED BY <2>1, OrderedLogStep, HeldStep, LawsHold
<1> QED BY <1>1, <1>2, ReplicaInvariant, CleaningInvariant, TypesInvariant, PTL DEF ReplSpec

\* "A crash replays the page through normal recovery" (follower.cpp:28-29): what a follower
\* has applied comes back from its mirror, however many tails were sent again, streams
\* broken and crashes survived, except while a page that was received before is being
\* replaced.
THEOREM AppliedRecoverableAlways == ReplSpec => []AppliedRecoverable
<1>1. ReplicaInv /\ TypesInv /\ AppliedInv => AppliedRecoverable
  <2> SUFFICES ASSUME ReplicaInv, TypesInv, AppliedInv, ~reused,
                      NEW f \in Follower, follower[f].pc # "mirror"
               PROVE  Recovered(mirror[f]) >= follower[f].next_seq_no
    BY DEF AppliedRecoverable
  <2> DEFINE files == mirror[f]
             next == follower[f].next_seq_no
  <2>1. InOrder(files)
    BY OrderedMirror DEF ReplicaInv, AppliedInv
  <2>2. /\ ArePages(files, next_event)
        /\ next \in 1..next_event /\ next_event \in Nat
    BY DEF TypesInv, FollowerPagesInv, PagesInv
  <2>3. \A event \in 1..(next - 1) : Holds(files, event)
    BY ZenonT(30) DEF AppliedInv, HeldInv, Mirrored
  <2>4. PICK last : IsDirectory(files, last)
    BY <2>2, ZenonT(30) DEF ArePages, IsDirectory, IsPage
  <2> HIDE DEF files, next
  <2>5. next - 1 \in Nat
    BY <2>2
  <2>6. Recovered(files) > next - 1
    BY <2>1, <2>3, <2>4, <2>5, HeldIsRecovered, LawsHold
  <2>7. Recovered(files) \in Nat
    BY <2>4, RecoveredHolds, LawsHold
  <2>8. Recovered(files) >= next
    BY <2>2, <2>6, <2>7
  <2> QED BY <2>8 DEF files, next
<1> QED BY <1>1, ReplicaInvariant, TypesInvariant, AppliedInvariant, PTL
=============================================================================
