----------------------------- MODULE NodeProofs -----------------------------
(***************************************************************************)
(* A node of module Node and the node at the other end of its lines.  What *)
(* it does is a step of PublishWait, for itself; for the other node it is  *)
(* a step of the peer and the link of PublishWait, or nothing.  What is    *)
(* underway between the calls of the one and the RX thread of the other    *)
(* (Underway) is kept by the steps of both.                                *)
(***************************************************************************)
EXTENDS Node, PublishWaitProofs

\* The packets of a kind on a line, as in module TwoNodes.
Carried(line, kind) ==
  {[id |-> line[k].id, owner |-> line[k].owner] :
     k \in {j \in DOMAIN line : line[j].kind = kind}}

\* The node at the other end has other threads, and the lock is released by
\* those who wait.
Apart(Peer) ==
  /\ RxThread \in RxThreads
  /\ Peer \cap Threads = {}
  /\ NoThread \notin Peer
  /\ Platform # "freertos"

\* The packets on a line from a node with threads From to one with threads To:
\* a message belongs to a call of the former, an ACK to one of the latter.
LinePackets(From, To) ==
  {p \in [kind : {"BROADCAST", "PUBLISH", "ACK"}, id : Ids,
          owner : From \cup To \cup {NoThread},
          answers : From \cup To \cup {NoThread}] :
     p.owner \in (IF p.kind = "ACK" THEN To ELSE From) \cup {NoThread}}

\* The inductive invariant of the lines and the lock.
LinesOk(Peer) ==
  /\ outbox \in Seq(LinePackets(Threads, Peer))
  /\ inbox \in Seq(LinePackets(Peer, Threads))
  /\ handles \in [RxThreads -> Threads \cup Peer \cup {NoThread}]
  /\ nextPacketId_ \in Ids
  /\ mutex = NoThread

\* The ACKs on the line to this node are those PublishWait sees.
Linked == fromPeer = Carried(inbox, "ACK")

\* What a node does on its lines is, to the other one, a PUBLISH received and
\* acknowledged, or nothing.
PeerStep ==
  LET publishes == Carried(inbox, "PUBLISH")
      acks == Carried(outbox, "ACK")
  IN  \/ publishes' = publishes /\ acks' = acks
      \/ \E p \in publishes : /\ acks' = acks \cup {p}
                              /\ publishes' \in {publishes, publishes \ {p}}

-----------------------------------------------------------------------------
(* Lines                                                                   *)

\* What a line carries once a packet is appended.
LEMMA CarriedAppend ==
  ASSUME NEW S, NEW line \in Seq(S), NEW p \in S, NEW kind
  PROVE  Carried(Append(line, p), kind)
           = IF p.kind = kind
             THEN Carried(line, kind) \cup {[id |-> p.id, owner |-> p.owner]}
             ELSE Carried(line, kind)
<1> DEFINE longer == Append(line, p)
           n == Len(line) + 1
<1>1. /\ DOMAIN longer = DOMAIN line \cup {n}
      /\ n \notin DOMAIN line
      /\ longer[n] = p
      /\ \A k \in DOMAIN line : longer[k] = line[k]
  OBVIOUS
<1> HIDE DEF longer, n
<1>2. {j \in DOMAIN longer : longer[j].kind = kind}
        = {j \in DOMAIN line : line[j].kind = kind}
            \cup (IF p.kind = kind THEN {n} ELSE {})
  BY <1>1
<1>3. CASE p.kind = kind
  BY <1>1, <1>2, <1>3 DEF Carried, longer
<1>4. CASE p.kind # kind
  BY <1>1, <1>2, <1>4 DEF Carried, longer
<1> QED
  BY <1>3, <1>4

\* What a line carries that still has its head.
LEMMA CarriedHead ==
  ASSUME NEW S, NEW line \in Seq(S), line # <<>>, NEW kind
  PROVE  Carried(line, kind)
           = IF Head(line).kind = kind
             THEN Carried(Tail(line), kind)
                    \cup {[id |-> Head(line).id, owner |-> Head(line).owner]}
             ELSE Carried(Tail(line), kind)
<1> DEFINE rest == Tail(line)
<1>1. /\ DOMAIN line = 1 .. Len(line)
      /\ DOMAIN rest = 1 .. Len(line) - 1
      /\ Len(line) \in Nat \ {0}
      /\ line[1] = Head(line)
      /\ \A k \in DOMAIN rest : k + 1 \in DOMAIN line /\ rest[k] = line[k + 1]
      /\ \A k \in DOMAIN line : k = 1 \/ (k - 1 \in DOMAIN rest /\ line[k] = rest[k - 1])
  OBVIOUS
<1> HIDE DEF rest
<1> DEFINE item(q) == [id |-> q.id, owner |-> q.owner]
<1>2. Carried(line, kind) = {item(line[k]) : k \in {j \in DOMAIN line : line[j].kind = kind}}
  BY DEF Carried
<1>3. Carried(rest, kind) = {item(rest[k]) : k \in {j \in DOMAIN rest : rest[j].kind = kind}}
  BY DEF Carried
<1> HIDE DEF item
<1>4. ASSUME NEW x \in Carried(rest, kind)
      PROVE  x \in Carried(line, kind)
  BY <1>1, <1>2, <1>3, <1>4
<1>5. ASSUME NEW x \in Carried(line, kind)
      PROVE  x \in Carried(rest, kind) \/ (Head(line).kind = kind /\ x = item(Head(line)))
  BY <1>1, <1>2, <1>3, <1>5
<1>6. Head(line).kind = kind => item(Head(line)) \in Carried(line, kind)
  BY <1>1, <1>2
<1>7. Carried(line, kind) = IF Head(line).kind = kind
                            THEN Carried(rest, kind) \cup {item(Head(line))}
                            ELSE Carried(rest, kind)
  BY <1>4, <1>5, <1>6
<1> QED
  BY <1>7 DEF item, rest

\* What is left of a packet when what belongs to t is disowned.
LEMMA DisownedPacket ==
  ASSUME NEW From, NEW To, NEW line \in Seq(LinePackets(From, To)), NEW t
  PROVE  /\ DOMAIN DisownedLine(line, t) = DOMAIN line
         /\ \A k \in DOMAIN line :
              LET p == line[k]
                  q == DisownedLine(line, t)[k]
              IN  /\ q \in LinePackets(From, To)
                  /\ q.kind = p.kind
                  /\ q.id = p.id
                  /\ q.owner = IF p.owner = t THEN NoThread ELSE p.owner
                  /\ q.answers = IF p.answers = t THEN NoThread ELSE p.answers
<1>1. DOMAIN DisownedLine(line, t) = DOMAIN line
  BY DEF DisownedLine
<1>2. ASSUME NEW k \in DOMAIN line
      PROVE  LET p == line[k]
                 q == DisownedLine(line, t)[k]
             IN  /\ q \in LinePackets(From, To)
                 /\ q.kind = p.kind
                 /\ q.id = p.id
                 /\ q.owner = IF p.owner = t THEN NoThread ELSE p.owner
                 /\ q.answers = IF p.answers = t THEN NoThread ELSE p.answers
  <2> DEFINE p == line[k]
             owner == IF p.owner = t THEN NoThread ELSE p.owner
             answers == IF p.answers = t THEN NoThread ELSE p.answers
             q == [p EXCEPT !.owner = owner, !.answers = answers]
  <2>1. p \in LinePackets(From, To)
    OBVIOUS
  <2>2. DisownedLine(line, t)[k] = q
    BY DEF DisownedLine
  <2> HIDE DEF p
  <2>3. /\ q.kind = p.kind
        /\ q.id = p.id
        /\ q.owner = owner
        /\ q.answers = answers
        /\ q \in LinePackets(From, To)
    BY <2>1 DEF LinePackets
  <2> QED
    BY <2>2, <2>3 DEF p
<1> QED
  BY <1>1, <1>2

\* Disowning what belongs to t leaves alone what belongs to nobody or to others.
LEMMA CarriedDisowned ==
  ASSUME NEW From, NEW To, NEW line \in Seq(LinePackets(From, To)), NEW t, NEW kind,
         \A k \in DOMAIN line : line[k].kind = kind => line[k].owner # t
  PROVE  Carried(DisownedLine(line, t), kind) = Carried(line, kind)
<1> DEFINE other == DisownedLine(line, t)
<1>1. /\ DOMAIN other = DOMAIN line
      /\ \A k \in DOMAIN line :
           /\ other[k].kind = line[k].kind
           /\ other[k].id = line[k].id
           /\ other[k].owner = IF line[k].owner = t THEN NoThread ELSE line[k].owner
  BY DisownedPacket
<1> HIDE DEF other
<1>2. {j \in DOMAIN other : other[j].kind = kind} = {j \in DOMAIN line : line[j].kind = kind}
  BY <1>1
<1>3. \A k \in {j \in DOMAIN line : line[j].kind = kind} :
        [id |-> other[k].id, owner |-> other[k].owner]
          = [id |-> line[k].id, owner |-> line[k].owner]
  BY <1>1
<1>4. Carried(other, kind) = Carried(line, kind)
  BY <1>2, <1>3 DEF Carried
<1> QED
  BY <1>4 DEF other

\* A line stays one when what belongs to t is disowned.
LEMMA DisownedStays ==
  ASSUME NEW From, NEW To, NEW line \in Seq(LinePackets(From, To)), NEW t
  PROVE  DisownedLine(line, t) \in Seq(LinePackets(From, To))
<1>1. \A k \in DOMAIN line : DisownedLine(line, t)[k] \in LinePackets(From, To)
  BY DisownedPacket
<1>2. DisownedLine(line, t) = [k \in 1 .. Len(line) |-> DisownedLine(line, t)[k]]
  BY DEF DisownedLine
<1>3. Len(line) \in Nat /\ DOMAIN line = 1 .. Len(line)
  OBVIOUS
<1> QED
  BY <1>1, <1>2, <1>3

-----------------------------------------------------------------------------
(* What a step of a node is to itself                                      *)

\* Whatever a node does, it does as PublishWait says.
LEMMA OwnStep ==
  ASSUME NEW Peer, LinesOk(Peer), Linked, NodeNext
  PROVE  [Next]_vars
<1>1. ASSUME NEW t \in Threads,
             \/ CallPublish(t)
             \/ CallPublishWait(t)
             \/ CallPublishWaitRefused(t)
             \/ AwaitAck(t)
             \/ ReturnFromPublishWait(t)
      PROVE  Call(t) \/ Wait(t)
  BY <1>1 DEF CallPublish, CallPublishWait, CallPublishWaitRefused, AwaitAck,
              ReturnFromPublishWait, Call
<1>2. CASE GiveRxDataAck
  <2> DEFINE a == [id |-> Head(inbox).id, owner |-> Head(inbox).owner]
  <2>1. inbox \in Seq(LinePackets(Peer, Threads)) /\ inbox # <<>>
    BY <1>2 DEF LinesOk, GiveRxDataAck, Reads
  <2>2. 1 \in DOMAIN inbox /\ inbox[1] = Head(inbox)
    BY <2>1
  <2>3. a \in fromPeer
    BY <2>2, <1>2 DEF Linked, Carried, GiveRxDataAck
  <2>4. GiveRxAck(a) \/ GiveRxUnexpectedAck(a)
    BY <1>2 DEF GiveRxDataAck
  <2> QED
    BY <2>3, <2>4 DEF Next
<1>3. CASE GiveRxDataMessage
  BY <1>3 DEF GiveRxDataMessage, publishWaitVars, vars, nodeVars, syncVars,
              callVars, linkVars
<1>4. CASE CallbackReturns
  BY <1>4 DEF CallbackReturns, publishWaitVars, vars, nodeVars, syncVars,
              callVars, linkVars
<1> QED
  BY <1>1, <1>2, <1>3, <1>4 DEF NodeNext, GiveRxData, Next

-----------------------------------------------------------------------------
(* What a step of a node is to the other one                               *)

\* An ID that has been used up is followed by an ID.
LEMMA NextIdOk ==
  ASSUME nextPacketId_ \in Ids
  PROVE  Increment(nextPacketId_) \in Ids
<1> DEFINE next == (nextPacketId_ + 1) % (IdMax + 1)
<1>1. nextPacketId_ + 1 \in Nat /\ IdMax + 1 \in Nat \ {0}
  BY ConstantsAssumption DEF Ids, ConstantsAssumption
<1>2. next \in 0 .. IdMax
  BY <1>1, ConstantsAssumption DEF ConstantsAssumption
<1>3. 1 \in Ids
  BY ConstantsAssumption DEF Ids, ConstantsAssumption
<1> QED
  BY <1>2, <1>3 DEF Increment, Ids

\* What a thread of this node puts on its line may be there.
LEMMA LinePacketOk ==
  ASSUME NEW Peer, Apart(Peer), LinesOk(Peer), NEW t \in Threads,
         NEW kind \in {"BROADCAST", "PUBLISH"}, NEW owner \in Threads \cup {NoThread}
  PROVE  LinePacket(kind, nextPacketId_, owner, t) \in LinePackets(Threads, Peer)
BY DEF LinePacket, LinePackets, LinesOk, Apart

\* The lines stay what they are, and the other node sees of the step no more
\* than that one of its packets was received and acknowledged.
LEMMA LinesKept ==
  ASSUME NEW Peer, Apart(Peer), LinesOk(Peer), NodeNext
  PROVE  LinesOk(Peer)' /\ PeerStep
<1> DEFINE Sendable == LinePackets(Threads, Peer)
           Receivable == LinePackets(Peer, Threads)
           Anyone == Threads \cup Peer \cup {NoThread}
<1>1. /\ outbox \in Seq(Sendable)
      /\ inbox \in Seq(Receivable)
      /\ handles \in [RxThreads -> Anyone]
      /\ nextPacketId_ \in Ids
      /\ mutex = NoThread
  BY DEF LinesOk
<1>2. SUFFICES /\ outbox' \in Seq(Sendable)
               /\ inbox' \in Seq(Receivable)
               /\ handles' \in [RxThreads -> Anyone]
               /\ nextPacketId_' \in Ids
               /\ mutex' = NoThread
               /\ PeerStep
  BY DEF LinesOk, LinePackets, Ids
<1> HIDE DEF Sendable, Receivable, Anyone
<1>3. ASSUME NEW t \in Threads, CallPublish(t)
      PROVE  /\ outbox' \in Seq(Sendable)
             /\ UNCHANGED <<inbox, handles, mutex>>
             /\ nextPacketId_' \in Ids
             /\ PeerStep
  <2> DEFINE p == LinePacket("BROADCAST", nextPacketId_, NoThread, t)
  <2>1. p \in Sendable /\ p.kind = "BROADCAST"
    BY LinePacketOk DEF Sendable, LinePacket
  <2>2. /\ outbox' = Append(outbox, p)
        /\ UNCHANGED <<inbox, handles, mutex>>
        /\ nextPacketId_' \in {nextPacketId_, Increment(nextPacketId_)}
    BY <1>3 DEF CallPublish, Publish, AdvancePacketId, syncVars
  <2>3. Carried(outbox', "ACK") = Carried(outbox, "ACK")
    BY <1>1, <2>1, <2>2, CarriedAppend
  <2> QED
    BY <1>1, <2>1, <2>2, <2>3, NextIdOk DEF PeerStep, Carried
<1>4. ASSUME NEW t \in Threads, CallPublishWait(t)
      PROVE  /\ outbox' \in Seq(Sendable)
             /\ UNCHANGED <<inbox, handles, mutex>>
             /\ nextPacketId_' \in Ids
             /\ PeerStep
  <2> DEFINE p == LinePacket("PUBLISH", nextPacketId_, t, t)
  <2>1. p \in Sendable /\ p.kind = "PUBLISH"
    BY LinePacketOk DEF Sendable, LinePacket
  <2>2. /\ outbox' = Append(outbox, p)
        /\ UNCHANGED <<inbox, handles, mutex>>
        /\ nextPacketId_' \in {nextPacketId_, Increment(nextPacketId_)}
    BY <1>1, <1>4 DEF CallPublishWait, PublishWaitBegin, AdvancePacketId, Apart
  <2>3. Carried(outbox', "ACK") = Carried(outbox, "ACK")
    BY <1>1, <2>1, <2>2, CarriedAppend
  <2> QED
    BY <1>1, <2>1, <2>2, <2>3, NextIdOk DEF PeerStep, Carried
<1>5. ASSUME NEW t \in Threads, CallPublishWaitRefused(t) \/ AwaitAck(t)
      PROVE  UNCHANGED <<outbox, inbox, handles, nextPacketId_, mutex>>
  BY <1>5 DEF CallPublishWaitRefused, PublishWaitRefused, AwaitAck, Wait,
              TakeSignal, Timeout, EventReset, SpuriousWakeup, DeadlinePasses,
              lineVars, nodeVars, syncVars
<1>6. ASSUME NEW t \in Threads, ReturnFromPublishWait(t)
      PROVE  /\ outbox' \in Seq(Sendable)
             /\ inbox' \in Seq(Receivable)
             /\ handles' \in [RxThreads -> Anyone]
             /\ nextPacketId_' = nextPacketId_
             /\ mutex' = NoThread
             /\ PeerStep
  <2>1. /\ inbox' = DisownedLine(inbox, t)
        /\ outbox' = DisownedLine(outbox, t)
        /\ handles' = [r \in RxThreads |-> IF handles[r] = t THEN NoThread
                                                            ELSE handles[r]]
        /\ nextPacketId_' = nextPacketId_
        /\ mutex' = NoThread
    BY <1>6 DEF ReturnFromPublishWait, PublishWaitReturn
  <2>2. outbox' \in Seq(Sendable) /\ inbox' \in Seq(Receivable)
    BY <1>1, <2>1, DisownedStays DEF Sendable, Receivable
  <2>3. t \notin Peer \cup {NoThread}
    BY ConstantsAssumption DEF Apart, ConstantsAssumption
  <2>4. \A k \in DOMAIN outbox : outbox[k].kind = "ACK" => outbox[k].owner # t
    BY <1>1, <2>3 DEF Sendable, LinePackets
  <2>5. \A k \in DOMAIN inbox : inbox[k].kind = "PUBLISH" => inbox[k].owner # t
    BY <1>1, <2>3 DEF Receivable, LinePackets
  <2>6. Carried(outbox', "ACK") = Carried(outbox, "ACK")
    BY <1>1, <2>1, <2>4, CarriedDisowned DEF Sendable
  <2>7. Carried(inbox', "PUBLISH") = Carried(inbox, "PUBLISH")
    BY <1>1, <2>1, <2>5, CarriedDisowned DEF Receivable
  <2>8. handles' \in [RxThreads -> Anyone]
    BY <1>1, <2>1 DEF Anyone
  <2> QED
    BY <2>1, <2>2, <2>6, <2>7, <2>8 DEF PeerStep, Carried
<1>7. ASSUME GiveRxDataAck
      PROVE  /\ inbox' \in Seq(Receivable)
             /\ UNCHANGED <<outbox, handles, nextPacketId_, mutex>>
             /\ PeerStep
  <2>1. /\ inbox # <<>>
        /\ Head(inbox).kind = "ACK"
        /\ inbox' = Tail(inbox)
        /\ UNCHANGED <<outbox, handles, nextPacketId_, mutex>>
    BY <1>7 DEF GiveRxDataAck, Reads, GiveRxAck, GiveRxUnexpectedAck, nodeVars, syncVars
  <2>2. Carried(inbox', "PUBLISH") = Carried(inbox, "PUBLISH")
    BY <1>1, <2>1, CarriedHead
  <2> QED
    BY <1>1, <2>1, <2>2 DEF PeerStep, Carried
<1>8. ASSUME GiveRxDataMessage
      PROVE  /\ outbox' \in Seq(Sendable)
             /\ inbox' \in Seq(Receivable)
             /\ handles' \in [RxThreads -> Anyone]
             /\ UNCHANGED <<nextPacketId_, mutex>>
             /\ PeerStep
  <2> DEFINE m == Head(inbox)
             ack == [m EXCEPT !.kind = "ACK", !.answers = NoThread]
             publish == [id |-> m.id, owner |-> m.owner]
  <2>1. /\ inbox # <<>>
        /\ m.kind # "ACK"
        /\ inbox' = Tail(inbox)
        /\ outbox' = outbox \o Answer(m)
        /\ handles' = [handles EXCEPT ![RxThread] = m.owner]
        /\ UNCHANGED <<nextPacketId_, mutex>>
    BY <1>8 DEF GiveRxDataMessage, Reads, publishWaitVars, nodeVars, syncVars
  <2>2. m \in Receivable
    BY <1>1, <2>1
  <2>3. inbox' \in Seq(Receivable)
    BY <1>1, <2>1
  <2>4. handles' \in [RxThreads -> Anyone]
    BY <1>1, <2>1, <2>2 DEF Receivable, LinePackets, Anyone
  <2>5. /\ ack \in Sendable
        /\ ack.kind = "ACK"
        /\ ack.id = m.id
        /\ ack.owner = m.owner
     \/ m.kind # "PUBLISH"
    BY <2>2 DEF Receivable, Sendable, LinePackets
  <2> HIDE DEF m, ack
  <2>6. CASE m.kind = "PUBLISH"
    <3>1. outbox' = Append(outbox, ack)
      BY <1>1, <2>1, <2>5, <2>6 DEF Answer, ack
    <3>2. Carried(outbox', "ACK") = Carried(outbox, "ACK") \cup {publish}
      BY <1>1, <2>5, <2>6, <3>1, CarriedAppend
    <3>3. Carried(inbox, "PUBLISH") = Carried(inbox', "PUBLISH") \cup {publish}
      BY <1>1, <2>1, <2>6, CarriedHead DEF m
    <3>4. Carried(inbox', "PUBLISH")
            \in {Carried(inbox, "PUBLISH"), Carried(inbox, "PUBLISH") \ {publish}}
      <4> HIDE DEF publish
      <4> QED
        BY <3>3
    <3>5. PeerStep
      BY <3>2, <3>3, <3>4 DEF PeerStep, Carried
    <3> QED
      BY <1>1, <2>1, <2>3, <2>4, <2>5, <2>6, <3>1, <3>5
  <2>7. CASE m.kind # "PUBLISH"
    <3>1. outbox' = outbox
      BY <1>1, <2>1, <2>7 DEF Answer
    <3>2. Carried(inbox', "PUBLISH") = Carried(inbox, "PUBLISH")
      BY <1>1, <2>1, <2>7, CarriedHead DEF m
    <3> QED
      BY <1>1, <2>1, <2>3, <2>4, <3>1, <3>2 DEF PeerStep, Carried
  <2> QED
    BY <2>6, <2>7
<1>9. ASSUME CallbackReturns
      PROVE  /\ handles' \in [RxThreads -> Anyone]
             /\ UNCHANGED <<outbox, inbox, nextPacketId_, mutex>>
  BY <1>1, <1>9 DEF CallbackReturns, lineVars, publishWaitVars, nodeVars,
                    syncVars, Anyone
<1>10. UNCHANGED <<outbox, inbox>> => PeerStep
  BY DEF PeerStep, Carried
<1> QED
  BY <1>1, <1>3, <1>4, <1>5, <1>6, <1>7, <1>8, <1>9, <1>10 DEF NodeNext, GiveRxData

-----------------------------------------------------------------------------
(* A PublishWait in a callback                                             *)

\* The RX thread is in a PublishWait only while a callback that called it has
\* not returned; nothing wakes it but its own timeout.
CallbackInv ==
  /\ rx # "called" => pc[RxThread] = "idle"
  /\ pc[RxThread] \in {"expired", "woken"} => waitReturn[RxThread] = TimeoutReturn
  /\ CallbackNotAcked

\* Every step of the node keeps it.
LEMMA CallbackInvKept ==
  ASSUME Platform = "std", ~SpuriousWakeups, RxThread \in Threads,
         TypeOK, CallbackInv, NodeNext
  PROVE  CallbackInv'
<1> USE DEF CallbackInv, CallbackNotAcked, TimeoutReturn
<1>1. /\ pc \in [Threads -> Pcs]
      /\ waitReturn \in [Threads -> {0, 1}]
      /\ response \in [Threads -> Responses]
  BY DEF TypeOK
<1>2. ASSUME NEW t \in Threads, CallPublish(t)
      PROVE  CallbackInv'
  BY <1>2 DEF CallPublish, Called, MayCall, Publish, callVars
<1>3. ASSUME NEW t \in Threads, CallPublishWait(t)
      PROVE  CallbackInv'
  BY <1>1, <1>3 DEF CallPublishWait, Called, MayCall, PublishWaitBegin
<1>4. ASSUME NEW t \in Threads, CallPublishWaitRefused(t)
      PROVE  CallbackInv'
  BY <1>1, <1>4 DEF CallPublishWaitRefused, Called, MayCall, PublishWaitRefused
<1>5. ASSUME NEW t \in Threads, AwaitAck(t)
      PROVE  CallbackInv'
  <2>1. CASE Timeout(t)
    BY <1>1, <1>5, <2>1 DEF AwaitAck, Timeout
  <2>2. CASE DeadlinePasses(t)
    BY <1>1, <1>5, <2>2 DEF AwaitAck, DeadlinePasses
  <2>3. CASE EventReset(t)
    BY <1>1, <1>5, <2>3 DEF AwaitAck, EventReset
  <2>4. ~TakeSignal(t) /\ ~SpuriousWakeup(t)
    BY DEF TakeSignal, SpuriousWakeup
  <2> QED
    BY <1>5, <2>1, <2>2, <2>3, <2>4 DEF AwaitAck, Wait
<1>6. ASSUME NEW t \in Threads, ReturnFromPublishWait(t)
      PROVE  CallbackInv'
  BY <1>1, <1>6 DEF ReturnFromPublishWait, PublishWaitReturn, ESF_NO_TIMEOUT
<1>7. CASE GiveRxDataAck
  <2>1. UNCHANGED <<rx, response>> /\ pc[RxThread] = "idle"
    BY <1>7 DEF GiveRxDataAck, Reads, GiveRxAck, GiveRxUnexpectedAck, callVars
  <2>2. pc'[RxThread] = "idle"
    BY <1>1, <1>7, <2>1 DEF GiveRxDataAck, GiveRxAck, GiveRxUnexpectedAck,
                            NotifyAll, Waiters, callVars
  <2> QED
    BY <2>1, <2>2
<1>8. CASE GiveRxDataMessage
  BY <1>8 DEF GiveRxDataMessage, Reads, publishWaitVars, callVars
<1>9. CASE CallbackReturns
  BY <1>9 DEF CallbackReturns, publishWaitVars, callVars
<1> QED
  BY <1>2, <1>3, <1>4, <1>5, <1>6, <1>7, <1>8, <1>9 DEF NodeNext, GiveRxData

-----------------------------------------------------------------------------
(* What is underway between a node and the other one                       *)

\* Of the node with threads T: `from` is the line to it and `to` the line from
\* it, `handled` whose message the other RX thread handles, and calls and seen
\* are its pc and ackSeen.

\* Nothing that is underway belongs to a thread that is not in PublishWait.
OfPendingCalls(T, from, to, handled, calls) ==
  \A t \in T :
    calls[t] = "idle" =>
      /\ handled # t
      /\ ~On(to, "PUBLISH", t)
      /\ ~On(from, "ACK", t)
      /\ \A k \in DOMAIN from : from[k].answers # t

\* A call has one PUBLISH on the line; no BROADCAST belongs to a call.
OncePerCall(T, to) ==
  /\ \A k \in DOMAIN to : to[k].kind = "BROADCAST" => to[k].owner = NoThread
  /\ \A j, k \in DOMAIN to :
       /\ to[j].kind = "PUBLISH"
       /\ to[k].kind = "PUBLISH"
       /\ to[j].owner = to[k].owner
       /\ to[j].owner \in T
       => j = k

\* PacketOrAckUnderway.
OneUnderway(T, from, to, calls, seen) ==
  \A t \in T : calls[t] = "waiting" /\ seen[t] = "no" =>
                 (On(to, "PUBLISH", t) <=> ~On(from, "ACK", t))

\* AnswerBehindAck.
BehindAck(T, from, seen) ==
  \A k \in DOMAIN from :
    LET t == from[k].answers
    IN  t \in T /\ seen[t] = "no" =>
          \E j \in 1 .. k - 1 : from[j].kind = "ACK" /\ from[j].owner = t

\* So is what the callbacks that are running may still send.
HandledAcked(T, from, handled, seen) ==
  handled \in T /\ seen[handled] = "no" => On(from, "ACK", handled)

\* The inductive invariant of what is underway.
Underway(T, from, to, handled, calls, seen) ==
  /\ OfPendingCalls(T, from, to, handled, calls)
  /\ OncePerCall(T, to)
  /\ OneUnderway(T, from, to, calls, seen)
  /\ BehindAck(T, from, seen)
  /\ HandledAcked(T, from, handled, seen)

\* What is where on a line that was appended to.
LEMMA AppendItems ==
  ASSUME NEW S, NEW line \in Seq(S), NEW p \in S
  PROVE  /\ Len(line) \in Nat
         /\ DOMAIN line = 1 .. Len(line)
         /\ DOMAIN Append(line, p) = 1 .. Len(line) + 1
         /\ Append(line, p)[Len(line) + 1] = p
         /\ \A k \in 1 .. Len(line) : Append(line, p)[k] = line[k]
OBVIOUS

\* What is where on a line whose first packet was taken.
LEMMA TailItems ==
  ASSUME NEW S, NEW line \in Seq(S), line # <<>>
  PROVE  /\ Len(line) \in Nat \ {0}
         /\ DOMAIN line = 1 .. Len(line)
         /\ DOMAIN Tail(line) = 1 .. Len(line) - 1
         /\ line[1] = Head(line)
         /\ \A k \in 1 .. Len(line) - 1 : Tail(line)[k] = line[k + 1]
OBVIOUS

\* Whose packets of a kind are on a line that was appended to.
LEMMA OnAppend ==
  ASSUME NEW S, NEW line \in Seq(S), NEW p \in S, NEW kind, NEW t
  PROVE  On(Append(line, p), kind, t)
           <=> On(line, kind, t) \/ (p.kind = kind /\ p.owner = t)
BY AppendItems DEF On

\* Whose packets of a kind are on a line that still has its head.
LEMMA OnTail ==
  ASSUME NEW S, NEW line \in Seq(S), line # <<>>, NEW kind, NEW t
  PROVE  On(line, kind, t)
           <=> On(Tail(line), kind, t) \/ (Head(line).kind = kind /\ Head(line).owner = t)
<1> DEFINE rest == Tail(line)
<1>1. /\ DOMAIN line = 1 .. Len(line)
      /\ DOMAIN rest = 1 .. Len(line) - 1
      /\ Len(line) \in Nat \ {0}
      /\ line[1] = Head(line)
      /\ \A k \in DOMAIN rest : k + 1 \in DOMAIN line /\ rest[k] = line[k + 1]
      /\ \A k \in DOMAIN line : k = 1 \/ (k - 1 \in DOMAIN rest /\ line[k] = rest[k - 1])
  BY TailItems
<1> HIDE DEF rest
<1>2. On(rest, kind, t) => On(line, kind, t)
  BY <1>1 DEF On
<1>3. Head(line).kind = kind /\ Head(line).owner = t => On(line, kind, t)
  BY <1>1 DEF On
<1>4. On(line, kind, t)
        => On(rest, kind, t) \/ (Head(line).kind = kind /\ Head(line).owner = t)
  BY <1>1 DEF On
<1> QED
  BY <1>2, <1>3, <1>4 DEF rest

\* The other node sends a message, in answer to what it handles or to nothing.
LEMMA MessageFrom ==
  ASSUME NEW T, NEW S, NEW from \in Seq(S), NEW to, NEW handled, NEW calls, NEW seen,
         Underway(T, from, to, handled, calls, seen), NoThread \notin T,
         NEW p \in S, p.kind # "ACK", p.answers \in {handled, NoThread}
  PROVE  Underway(T, Append(from, p), to, handled, calls, seen)
<1> DEFINE longer == Append(from, p)
<1>1. \A t : On(longer, "ACK", t) <=> On(from, "ACK", t)
  BY OnAppend
<1>2. /\ Len(from) \in Nat
      /\ DOMAIN from = 1 .. Len(from)
      /\ DOMAIN longer = 1 .. Len(from) + 1
      /\ longer[Len(from) + 1] = p
      /\ \A k \in 1 .. Len(from) : longer[k] = from[k]
  BY AppendItems
<1> HIDE DEF longer
<1>3. OfPendingCalls(T, longer, to, handled, calls)
  BY <1>1, <1>2 DEF Underway, OfPendingCalls
<1>4. OneUnderway(T, longer, to, calls, seen)
  BY <1>1 DEF Underway, OneUnderway
<1>5. HandledAcked(T, longer, handled, seen)
  BY <1>1 DEF Underway, HandledAcked
<1>6. BehindAck(T, longer, seen)
  <2> SUFFICES ASSUME NEW k \in DOMAIN longer,
                      longer[k].answers \in T, seen[longer[k].answers] = "no"
               PROVE  \E j \in 1 .. k - 1 : /\ longer[j].kind = "ACK"
                                            /\ longer[j].owner = longer[k].answers
    BY DEF BehindAck
  <2>1. CASE k \in DOMAIN from
    BY <1>2, <2>1 DEF Underway, BehindAck
  <2>2. CASE k = Len(from) + 1
    <3>1. longer[k] = p /\ p.answers = handled
      BY <1>2, <2>2
    <3>2. PICK j \in DOMAIN from : from[j].kind = "ACK" /\ from[j].owner = handled
      BY <3>1 DEF Underway, HandledAcked, On
    <3> QED
      BY <1>2, <2>2, <3>1, <3>2
  <2> QED
    BY <1>2, <2>1, <2>2
<1> QED
  BY <1>3, <1>4, <1>5, <1>6 DEF Underway, longer

\* The node takes a message off the line.
LEMMA MessageTaken ==
  ASSUME NEW T, NEW S, NEW from \in Seq(S), NEW to, NEW handled, NEW calls, NEW seen,
         Underway(T, from, to, handled, calls, seen),
         from # <<>>, Head(from).kind # "ACK"
  PROVE  Underway(T, Tail(from), to, handled, calls, seen)
<1> DEFINE rest == Tail(from)
<1>1. \A t : On(rest, "ACK", t) <=> On(from, "ACK", t)
  BY OnTail
<1>2. /\ Len(from) \in Nat \ {0}
      /\ DOMAIN from = 1 .. Len(from)
      /\ DOMAIN rest = 1 .. Len(from) - 1
      /\ from[1].kind # "ACK"
      /\ \A k \in 1 .. Len(from) - 1 : rest[k] = from[k + 1]
  BY TailItems
<1> HIDE DEF rest
<1>3. OfPendingCalls(T, rest, to, handled, calls)
  BY <1>1, <1>2 DEF Underway, OfPendingCalls
<1>4. OneUnderway(T, rest, to, calls, seen)
  BY <1>1 DEF Underway, OneUnderway
<1>5. HandledAcked(T, rest, handled, seen)
  BY <1>1 DEF Underway, HandledAcked
<1>6. BehindAck(T, rest, seen)
  <2> SUFFICES ASSUME NEW k \in DOMAIN rest,
                      rest[k].answers \in T, seen[rest[k].answers] = "no"
               PROVE  \E j \in 1 .. k - 1 : /\ rest[j].kind = "ACK"
                                            /\ rest[j].owner = rest[k].answers
    BY DEF BehindAck
  <2>1. k + 1 \in DOMAIN from /\ from[k + 1] = rest[k]
    BY <1>2
  <2>2. PICK j \in 1 .. k : from[j].kind = "ACK" /\ from[j].owner = rest[k].answers
    BY <2>1, <1>2 DEF Underway, BehindAck
  <2>3. j - 1 \in 1 .. k - 1 /\ rest[j - 1] = from[j]
    BY <1>2, <2>2
  <2> QED
    BY <2>2, <2>3
<1> QED
  BY <1>3, <1>4, <1>5, <1>6 DEF Underway, rest

\* The node takes an ACK off the line: from now on the call it is for has seen
\* one, and no call has gone back to sleep.
LEMMA AckTaken ==
  ASSUME NEW T, NEW S, NEW from \in Seq(S), NEW to, NEW handled, NEW calls, NEW seen,
         Underway(T, from, to, handled, calls, seen),
         from # <<>>, Head(from).kind = "ACK",
         NEW calls2, NEW seen2,
         \A t \in T : /\ calls2[t] = "idle" => calls[t] = "idle"
                      /\ calls2[t] = "waiting" => calls[t] = "waiting"
                      /\ seen2[t] = "no" => seen[t] = "no" /\ Head(from).owner # t
  PROVE  Underway(T, Tail(from), to, handled, calls2, seen2)
<1> DEFINE rest == Tail(from)
           o == Head(from).owner
<1>1. \A t : On(from, "ACK", t) <=> On(rest, "ACK", t) \/ o = t
  BY OnTail
<1>2. /\ Len(from) \in Nat \ {0}
      /\ DOMAIN from = 1 .. Len(from)
      /\ DOMAIN rest = 1 .. Len(from) - 1
      /\ from[1].owner = o
      /\ \A k \in 1 .. Len(from) - 1 : rest[k] = from[k + 1]
  BY TailItems
<1> HIDE DEF rest, o
<1>3. OfPendingCalls(T, rest, to, handled, calls2)
  BY <1>1, <1>2 DEF Underway, OfPendingCalls
<1>4. OneUnderway(T, rest, to, calls2, seen2)
  BY <1>1 DEF Underway, OneUnderway, o
<1>5. HandledAcked(T, rest, handled, seen2)
  BY <1>1 DEF Underway, HandledAcked, o
<1>6. BehindAck(T, rest, seen2)
  <2> SUFFICES ASSUME NEW k \in DOMAIN rest,
                      rest[k].answers \in T, seen2[rest[k].answers] = "no"
               PROVE  \E j \in 1 .. k - 1 : /\ rest[j].kind = "ACK"
                                            /\ rest[j].owner = rest[k].answers
    BY DEF BehindAck
  <2>1. k + 1 \in DOMAIN from /\ from[k + 1] = rest[k]
    BY <1>2
  <2>2. seen[rest[k].answers] = "no" /\ o # rest[k].answers
    BY DEF o
  <2>3. PICK j \in 1 .. k : from[j].kind = "ACK" /\ from[j].owner = rest[k].answers
    BY <2>1, <2>2, <1>2 DEF Underway, BehindAck
  <2>4. j # 1
    BY <1>2, <2>2, <2>3
  <2>5. j - 1 \in 1 .. k - 1 /\ rest[j - 1] = from[j]
    BY <1>2, <2>3, <2>4
  <2> QED
    BY <2>3, <2>5
<1> QED
  BY <1>3, <1>4, <1>5, <1>6 DEF Underway, rest

\* The calls get on with their waits.
LEMMA CallsGoOn ==
  ASSUME NEW T, NEW from, NEW to, NEW handled, NEW calls, NEW seen,
         Underway(T, from, to, handled, calls, seen),
         NEW calls2, NEW seen2,
         \A t \in T : /\ calls2[t] = "idle" => calls[t] = "idle"
                      /\ calls2[t] = "waiting" => calls[t] = "waiting"
                      /\ seen2[t] = "no" => seen[t] = "no"
  PROVE  Underway(T, from, to, handled, calls2, seen2)
<1>1. OfPendingCalls(T, from, to, handled, calls2)
  BY DEF Underway, OfPendingCalls
<1>2. OneUnderway(T, from, to, calls2, seen2)
  BY DEF Underway, OneUnderway
<1>3. BehindAck(T, from, seen2)
  BY DEF Underway, BehindAck
<1>4. HandledAcked(T, from, handled, seen2)
  BY DEF Underway, HandledAcked
<1> QED
  BY <1>1, <1>2, <1>3, <1>4 DEF Underway

\* PublishWait of an idle thread is refused.
LEMMA CallRefused ==
  ASSUME NEW T, NEW from, NEW to, NEW handled, NEW calls, NEW seen,
         Underway(T, from, to, handled, calls, seen),
         NEW t \in T, calls[t] = "idle",
         NEW seen2, \A u \in T \ {t} : seen2[u] = seen[u]
  PROVE  Underway(T, from, to, handled, calls, seen2)
<1>1. handled # t /\ \A k \in DOMAIN from : from[k].answers # t
  BY DEF Underway, OfPendingCalls
<1>2. OneUnderway(T, from, to, calls, seen2)
  BY DEF Underway, OneUnderway
<1>3. BehindAck(T, from, seen2)
  BY <1>1 DEF Underway, BehindAck
<1>4. HandledAcked(T, from, handled, seen2)
  BY <1>1 DEF Underway, HandledAcked
<1> QED
  BY <1>2, <1>3, <1>4 DEF Underway

\* The node sends an ACK or a BROADCAST.
LEMMA UnownedSent ==
  ASSUME NEW T, NEW S, NEW from, NEW to \in Seq(S), NEW handled, NEW calls, NEW seen,
         Underway(T, from, to, handled, calls, seen),
         NEW p \in S,
         p.kind = "ACK" \/ (p.kind = "BROADCAST" /\ p.owner = NoThread)
  PROVE  Underway(T, from, Append(to, p), handled, calls, seen)
<1> DEFINE longer == Append(to, p)
<1>1. \A t : On(longer, "PUBLISH", t) <=> On(to, "PUBLISH", t)
  BY OnAppend
<1>2. /\ Len(to) \in Nat
      /\ DOMAIN to = 1 .. Len(to)
      /\ DOMAIN longer = 1 .. Len(to) + 1
      /\ longer[Len(to) + 1] = p
      /\ \A k \in 1 .. Len(to) : longer[k] = to[k]
  BY AppendItems
<1> HIDE DEF longer
<1>3. OfPendingCalls(T, from, longer, handled, calls)
  BY <1>1 DEF Underway, OfPendingCalls
<1>4. OneUnderway(T, from, longer, calls, seen)
  BY <1>1 DEF Underway, OneUnderway
<1>5. OncePerCall(T, longer)
  BY <1>2 DEF Underway, OncePerCall
<1> QED
  BY <1>3, <1>4, <1>5 DEF Underway, longer

\* PublishWait of an idle thread sends its PUBLISH.
LEMMA CallBegins ==
  ASSUME NEW T, NEW S, NEW from, NEW to \in Seq(S), NEW handled, NEW calls, NEW seen,
         Underway(T, from, to, handled, calls, seen),
         NEW t \in T, calls[t] = "idle",
         NEW p \in S, p.kind = "PUBLISH", p.owner = t,
         NEW calls2, calls2[t] # "idle", \A u \in T \ {t} : calls2[u] = calls[u],
         NEW seen2, \A u \in T \ {t} : seen2[u] = seen[u]
  PROVE  Underway(T, from, Append(to, p), handled, calls2, seen2)
<1> DEFINE longer == Append(to, p)
<1>1. \A u : On(longer, "PUBLISH", u) <=> On(to, "PUBLISH", u) \/ u = t
  BY OnAppend
<1>2. /\ Len(to) \in Nat
      /\ DOMAIN to = 1 .. Len(to)
      /\ DOMAIN longer = 1 .. Len(to) + 1
      /\ longer[Len(to) + 1] = p
      /\ \A k \in 1 .. Len(to) : longer[k] = to[k]
  BY AppendItems
<1> HIDE DEF longer
<1>3. /\ handled # t
      /\ ~On(to, "PUBLISH", t)
      /\ ~On(from, "ACK", t)
      /\ \A k \in DOMAIN from : from[k].answers # t
  BY DEF Underway, OfPendingCalls
<1>4. OfPendingCalls(T, from, longer, handled, calls2)
  BY <1>1 DEF Underway, OfPendingCalls
<1>5. OncePerCall(T, longer)
  <2>1. \A k \in DOMAIN to : to[k].kind = "PUBLISH" => to[k].owner # t
    BY <1>3 DEF On
  <2> QED
    BY <1>2, <2>1 DEF Underway, OncePerCall
<1>6. OneUnderway(T, from, longer, calls2, seen2)
  BY <1>1, <1>3 DEF Underway, OneUnderway
<1>7. BehindAck(T, from, seen2)
  BY <1>3 DEF Underway, BehindAck
<1>8. HandledAcked(T, from, handled, seen2)
  BY <1>3 DEF Underway, HandledAcked
<1> QED
  BY <1>4, <1>5, <1>6, <1>7, <1>8 DEF Underway, longer

\* The other node takes an ACK.
LEMMA AckTakenByOther ==
  ASSUME NEW T, NEW S, NEW from, NEW to \in Seq(S), NEW handled, NEW calls, NEW seen,
         Underway(T, from, to, handled, calls, seen),
         to # <<>>, Head(to).kind = "ACK"
  PROVE  Underway(T, from, Tail(to), handled, calls, seen)
<1> DEFINE rest == Tail(to)
<1>1. \A t : On(rest, "PUBLISH", t) <=> On(to, "PUBLISH", t)
  BY OnTail
<1>2. \A k \in DOMAIN rest : k + 1 \in DOMAIN to /\ rest[k] = to[k + 1] /\ k \in Nat
  BY TailItems
<1> HIDE DEF rest
<1>3. OncePerCall(T, rest)
  BY <1>2 DEF Underway, OncePerCall
<1>4. OfPendingCalls(T, from, rest, handled, calls)
  BY <1>1 DEF Underway, OfPendingCalls
<1>5. OneUnderway(T, from, rest, calls, seen)
  BY <1>1 DEF Underway, OneUnderway
<1> QED
  BY <1>3, <1>4, <1>5 DEF Underway, rest

\* The other node takes a message, answers it if it is a PUBLISH, and hands it to
\* the callbacks.
LEMMA MessageTakenByOther ==
  ASSUME NEW T, NEW S, NEW from \in Seq(S), NEW R, NEW to \in Seq(R),
         NEW handled, NEW calls, NEW seen,
         Underway(T, from, to, handled, calls, seen), NoThread \notin T,
         to # <<>>, Head(to).kind \in {"BROADCAST", "PUBLISH"},
         NEW from2,
         IF Head(to).kind = "PUBLISH"
         THEN \E ack \in S : /\ from2 = Append(from, ack)
                             /\ ack.kind = "ACK"
                             /\ ack.owner = Head(to).owner
                             /\ ack.answers = NoThread
         ELSE from2 = from
  PROVE  Underway(T, from2, Tail(to), Head(to).owner, calls, seen)
<1> DEFINE rest == Tail(to)
           m == Head(to)
<1>1. \A t : On(to, "PUBLISH", t) <=> On(rest, "PUBLISH", t)
                                       \/ (m.kind = "PUBLISH" /\ m.owner = t)
  BY OnTail
<1>2. /\ Len(to) \in Nat \ {0}
      /\ DOMAIN to = 1 .. Len(to)
      /\ to[1] = m
      /\ \A k \in DOMAIN rest : k + 1 \in DOMAIN to /\ rest[k] = to[k + 1] /\ k \in 1 .. Len(to) - 1
  BY TailItems
<1> HIDE DEF rest, m
<1>3. OncePerCall(T, rest)
  BY <1>2 DEF Underway, OncePerCall
<1>4. CASE m.kind = "BROADCAST"
  <2>1. m.owner = NoThread
    BY <1>2, <1>4 DEF Underway, OncePerCall
  <2>2. from2 = from
    BY <1>4 DEF m
  <2>3. OfPendingCalls(T, from, rest, m.owner, calls)
    BY <1>1, <2>1 DEF Underway, OfPendingCalls
  <2>4. OneUnderway(T, from, rest, calls, seen)
    BY <1>1, <1>4 DEF Underway, OneUnderway
  <2>5. HandledAcked(T, from, m.owner, seen)
    BY <2>1 DEF HandledAcked
  <2> QED
    BY <1>3, <2>2, <2>3, <2>4, <2>5 DEF Underway, rest, m
<1>5. CASE m.kind = "PUBLISH"
  <2>1. PICK ack \in S : /\ from2 = Append(from, ack)
                         /\ ack.kind = "ACK"
                         /\ ack.owner = m.owner
                         /\ ack.answers = NoThread
    BY <1>5 DEF m
  <2>2. \A t : On(from2, "ACK", t) <=> On(from, "ACK", t) \/ m.owner = t
    BY <2>1, OnAppend
  <2>3. On(to, "PUBLISH", m.owner)
    BY <1>1, <1>5
  <2>4. m.owner \in T => ~On(rest, "PUBLISH", m.owner)
    <3> SUFFICES ASSUME m.owner \in T, NEW k \in DOMAIN rest,
                        rest[k].kind = "PUBLISH", rest[k].owner = m.owner
                 PROVE  FALSE
      BY DEF On
    <3>1. /\ 1 \in DOMAIN to /\ k + 1 \in DOMAIN to
          /\ to[1].kind = "PUBLISH" /\ to[k + 1].kind = "PUBLISH"
          /\ to[1].owner = m.owner /\ to[k + 1].owner = m.owner
          /\ k + 1 # 1
      BY <1>2, <1>5
    <3> QED
      BY <3>1 DEF Underway, OncePerCall
  <2>5. /\ \A k \in DOMAIN from : k \in Nat /\ \A j \in 1 .. k - 1 : j \in DOMAIN from
        /\ \A k \in DOMAIN from : from2[k] = from[k]
        /\ \A k \in DOMAIN from2 : k \in DOMAIN from \/ from2[k] = ack
    <3>1. /\ Len(from) \in Nat
          /\ DOMAIN from = 1 .. Len(from)
          /\ DOMAIN from2 = 1 .. Len(from) + 1
          /\ from2[Len(from) + 1] = ack
          /\ \A k \in 1 .. Len(from) : from2[k] = from[k]
      BY <2>1, AppendItems
    <3> QED
      BY <3>1
  <2>6. OfPendingCalls(T, from2, rest, m.owner, calls)
    <3> SUFFICES ASSUME NEW t \in T, calls[t] = "idle"
                 PROVE  /\ m.owner # t
                        /\ ~On(rest, "PUBLISH", t)
                        /\ ~On(from2, "ACK", t)
                        /\ \A k \in DOMAIN from2 : from2[k].answers # t
      BY DEF OfPendingCalls
    <3>1. /\ ~On(to, "PUBLISH", t)
          /\ ~On(from, "ACK", t)
          /\ \A k \in DOMAIN from : from[k].answers # t
      BY DEF Underway, OfPendingCalls
    <3>2. m.owner # t
      BY <2>3, <3>1
    <3>3. \A k \in DOMAIN from2 : from2[k].answers # t
      BY <2>1, <2>5, <3>1
    <3> QED
      BY <1>1, <2>2, <3>1, <3>2, <3>3
  <2>7. OneUnderway(T, from2, rest, calls, seen)
    BY <1>1, <2>2, <2>4 DEF Underway, OneUnderway
  <2>8. HandledAcked(T, from2, m.owner, seen)
    BY <2>2 DEF HandledAcked
  <2>9. BehindAck(T, from2, seen)
    <3> SUFFICES ASSUME NEW k \in DOMAIN from2,
                        from2[k].answers \in T, seen[from2[k].answers] = "no"
                 PROVE  \E j \in 1 .. k - 1 : /\ from2[j].kind = "ACK"
                                              /\ from2[j].owner = from2[k].answers
      BY DEF BehindAck
    <3>1. k \in DOMAIN from /\ from2[k] = from[k]
      BY <2>1, <2>5
    <3>2. PICK j \in 1 .. k - 1 : from[j].kind = "ACK" /\ from[j].owner = from[k].answers
      BY <3>1 DEF Underway, BehindAck
    <3>3. from2[j] = from[j]
      BY <2>5, <3>1, <3>2
    <3> QED
      BY <3>1, <3>2, <3>3
  <2> QED
    BY <1>3, <2>6, <2>7, <2>8, <2>9 DEF Underway, rest, m
<1> QED
  BY <1>4, <1>5 DEF m

\* The callbacks of the other node return.
LEMMA CallbackOfOtherReturns ==
  ASSUME NEW T, NEW from, NEW to, NEW handled, NEW calls, NEW seen,
         Underway(T, from, to, handled, calls, seen), NoThread \notin T
  PROVE  Underway(T, from, to, NoThread, calls, seen)
BY DEF Underway, OfPendingCalls, HandledAcked

\* A line on which what belongs to t has been disowned.
Disowns(line2, line, t) ==
  /\ DOMAIN line2 = DOMAIN line
  /\ \A k \in DOMAIN line :
       /\ line2[k].kind = line[k].kind
       /\ line2[k].owner = (IF line[k].owner = t THEN NoThread ELSE line[k].owner)
       /\ line2[k].answers = (IF line[k].answers = t THEN NoThread ELSE line[k].answers)

\* PublishWait of a thread, of this node or the other one, returns.
LEMMA CallReturns ==
  ASSUME NEW T, NEW S, NEW from \in Seq(S), NEW to, NEW handled, NEW calls, NEW seen,
         Underway(T, from, to, handled, calls, seen), NoThread \notin T,
         NEW t,
         NEW from2, Disowns(from2, from, t),
         NEW to2, Disowns(to2, to, t),
         NEW handled2, handled2 = (IF handled = t THEN NoThread ELSE handled),
         NEW calls2, \A u \in T \ {t} : calls2[u] = calls[u],
         t \in T => calls2[t] = "idle"
  PROVE  Underway(T, from2, to2, handled2, calls2, seen)
<1>1. /\ DOMAIN from2 = DOMAIN from
      /\ \A k \in DOMAIN from :
           /\ from2[k].kind = from[k].kind
           /\ from2[k].owner = (IF from[k].owner = t THEN NoThread ELSE from[k].owner)
           /\ from2[k].answers = (IF from[k].answers = t THEN NoThread ELSE from[k].answers)
  BY DEF Disowns
<1>2. /\ DOMAIN to2 = DOMAIN to
      /\ \A k \in DOMAIN to :
           /\ to2[k].kind = to[k].kind
           /\ to2[k].owner = (IF to[k].owner = t THEN NoThread ELSE to[k].owner)
  BY DEF Disowns
<1>3. \A u \in T : \A kind : /\ On(from2, kind, u) <=> On(from, kind, u) /\ u # t
                             /\ On(to2, kind, u) <=> On(to, kind, u) /\ u # t
  BY <1>1, <1>2 DEF On
<1>4. OfPendingCalls(T, from2, to2, handled2, calls2)
  BY <1>1, <1>3 DEF Underway, OfPendingCalls
<1>5. OncePerCall(T, to2)
  BY <1>2 DEF Underway, OncePerCall
<1>6. OneUnderway(T, from2, to2, calls2, seen)
  BY <1>3 DEF Underway, OneUnderway
<1>7. BehindAck(T, from2, seen)
  <2> SUFFICES ASSUME NEW k \in DOMAIN from2,
                      from2[k].answers \in T, seen[from2[k].answers] = "no"
               PROVE  \E j \in 1 .. k - 1 : /\ from2[j].kind = "ACK"
                                            /\ from2[j].owner = from2[k].answers
    BY DEF BehindAck
  <2>1. k \in DOMAIN from /\ from2[k].answers = from[k].answers /\ from[k].answers # t
    BY <1>1
  <2>2. PICK j \in 1 .. k - 1 : from[j].kind = "ACK" /\ from[j].owner = from[k].answers
    BY <2>1 DEF Underway, BehindAck
  <2>3. j \in DOMAIN from
    BY <2>1, <2>2
  <2> QED
    BY <1>1, <2>1, <2>2, <2>3
<1>8. HandledAcked(T, from2, handled2, seen)
  BY <1>3 DEF Underway, HandledAcked
<1> QED
  BY <1>4, <1>5, <1>6, <1>7, <1>8 DEF Underway

\* DisownedLine disowns.
LEMMA DisownedLineDisowns ==
  ASSUME NEW From, NEW To, NEW line \in Seq(LinePackets(From, To)), NEW t
  PROVE  Disowns(DisownedLine(line, t), line, t)
BY DisownedPacket DEF Disowns

\* What a step of the node does to what is underway between its calls and the
\* other node, whose RX thread is r.
LEMMA OwnUnderwayKept ==
  ASSUME NEW Peer, Apart(Peer), LinesOk(Peer), TypeOK, NodeNext,
         NEW r \in RxThreads \ {RxThread},
         Underway(Threads, inbox, outbox, handles[r], pc, ackSeen)
  PROVE  Underway(Threads, inbox', outbox', handles'[r], pc', ackSeen')
<1> DEFINE Sendable == LinePackets(Threads, Peer)
           Receivable == LinePackets(Peer, Threads)
           Goal == Underway(Threads, inbox', outbox', handles'[r], pc', ackSeen')
<1>1. /\ outbox \in Seq(Sendable)
      /\ inbox \in Seq(Receivable)
      /\ handles \in [RxThreads -> Threads \cup Peer \cup {NoThread}]
      /\ pc \in [Threads -> Pcs]
      /\ ackSeen \in [Threads -> {"no", "timely", "late"}]
      /\ NoThread \notin Threads
  BY ConstantsAssumption DEF LinesOk, TypeOK, ConstantsAssumption
<1>2. ASSUME NEW t \in Threads, CallPublish(t)
      PROVE  Goal
  <2> DEFINE p == LinePacket("BROADCAST", nextPacketId_, NoThread, t)
  <2>1. p \in Sendable /\ p.kind = "BROADCAST" /\ p.owner = NoThread
    BY LinePacketOk DEF LinePacket
  <2>2. outbox' = Append(outbox, p) /\ UNCHANGED <<inbox, handles, pc, ackSeen>>
    BY <1>2 DEF CallPublish, Publish, callVars
  <2> HIDE DEF p, Sendable
  <2> QED
    BY <1>1, <2>1, <2>2, UnownedSent
<1>3. ASSUME NEW t \in Threads, CallPublishWait(t)
      PROVE  Goal
  <2> DEFINE p == LinePacket("PUBLISH", nextPacketId_, t, t)
  <2>1. p \in Sendable /\ p.kind = "PUBLISH" /\ p.owner = t
    BY LinePacketOk DEF LinePacket
  <2>2. /\ outbox' = Append(outbox, p)
        /\ UNCHANGED <<inbox, handles>>
        /\ pc[t] = "idle"
        /\ pc' = [pc EXCEPT ![t] = "waiting"]
        /\ ackSeen' = [ackSeen EXCEPT ![t] = "no"]
    BY <1>3 DEF CallPublishWait, PublishWaitBegin
  <2>3. /\ pc'[t] # "idle"
        /\ \A u \in Threads \ {t} : pc'[u] = pc[u] /\ ackSeen'[u] = ackSeen[u]
    BY <1>1, <2>2
  <2> HIDE DEF p, Sendable
  <2>4. ASSUME NEW calls2, calls2[t] # "idle",
               \A u \in Threads \ {t} : calls2[u] = pc[u],
               NEW seen2, \A u \in Threads \ {t} : seen2[u] = ackSeen[u]
        PROVE  Underway(Threads, inbox, Append(outbox, p), handles[r], calls2, seen2)
    BY <1>1, <2>1, <2>2, <2>4, CallBegins
  <2> QED
    BY <2>2, <2>3, <2>4
<1>4. ASSUME NEW t \in Threads, CallPublishWaitRefused(t)
      PROVE  Goal
  <2>1. /\ UNCHANGED <<inbox, outbox, handles, pc>>
        /\ pc[t] = "idle"
        /\ \A u \in Threads \ {t} : ackSeen'[u] = ackSeen[u]
    BY <1>1, <1>4 DEF CallPublishWaitRefused, PublishWaitRefused, lineVars
  <2> QED
    BY <2>1, CallRefused
<1>5. ASSUME NEW t \in Threads, AwaitAck(t)
      PROVE  Goal
  <2>1. UNCHANGED <<inbox, outbox, handles>>
    BY <1>5 DEF AwaitAck, lineVars
  <2>2. \A u \in Threads : /\ pc'[u] = "idle" => pc[u] = "idle"
                           /\ pc'[u] = "waiting" => pc[u] = "waiting"
                           /\ ackSeen'[u] = "no" => ackSeen[u] = "no"
    BY <1>1, <1>5 DEF AwaitAck, Wait, TakeSignal, Timeout, EventReset,
                      SpuriousWakeup, DeadlinePasses
  <2> QED
    BY <2>1, <2>2, CallsGoOn
<1>6. ASSUME NEW t \in Threads, ReturnFromPublishWait(t)
      PROVE  Goal
  <2>1. /\ inbox' = DisownedLine(inbox, t)
        /\ outbox' = DisownedLine(outbox, t)
        /\ handles'[r] = IF handles[r] = t THEN NoThread ELSE handles[r]
        /\ pc' = [pc EXCEPT ![t] = "idle"]
        /\ UNCHANGED ackSeen
    BY <1>6 DEF ReturnFromPublishWait, PublishWaitReturn
  <2>2. Disowns(inbox', inbox, t) /\ Disowns(outbox', outbox, t)
    BY <1>1, <2>1, DisownedLineDisowns
  <2>3. pc'[t] = "idle" /\ \A u \in Threads \ {t} : pc'[u] = pc[u]
    BY <1>1, <2>1
  <2> HIDE DEF Receivable
  <2>4. ASSUME NEW from2, Disowns(from2, inbox, t),
               NEW to2, Disowns(to2, outbox, t),
               NEW calls2, calls2[t] = "idle",
               \A u \in Threads \ {t} : calls2[u] = pc[u]
        PROVE  Underway(Threads, from2, to2,
                        IF handles[r] = t THEN NoThread ELSE handles[r], calls2, ackSeen)
    BY <1>1, <2>4, CallReturns
  <2> QED
    BY <2>1, <2>2, <2>3, <2>4
<1>7. CASE GiveRxDataAck
  <2> DEFINE a == [id |-> Head(inbox).id, owner |-> Head(inbox).owner]
  <2>1. /\ inbox # <<>>
        /\ Head(inbox).kind = "ACK"
        /\ inbox' = Tail(inbox)
        /\ UNCHANGED <<outbox, handles>>
        /\ GiveRxAck(a) \/ GiveRxUnexpectedAck(a)
    BY <1>7 DEF GiveRxDataAck, Reads
  <2>2. Witness(Head(inbox).owner)
    BY <2>1 DEF GiveRxAck, GiveRxUnexpectedAck
  <2>3. \A u \in Threads : /\ pc'[u] = "idle" => pc[u] = "idle"
                           /\ pc'[u] = "waiting" => pc[u] = "waiting"
    BY <1>1, <2>1 DEF GiveRxAck, GiveRxUnexpectedAck, NotifyAll, callVars
  <2>4. \A u \in Threads : ackSeen'[u] = "no" => /\ ackSeen[u] = "no"
                                                 /\ Head(inbox).owner # u
    BY <1>1, <2>2 DEF Witness
  <2> HIDE DEF Receivable
  <2> QED
    BY <1>1, <2>1, <2>3, <2>4, AckTaken
<1>8. CASE GiveRxDataMessage
  <2> DEFINE m == Head(inbox)
             ack == [m EXCEPT !.kind = "ACK", !.answers = NoThread]
  <2>1. /\ inbox # <<>>
        /\ m.kind # "ACK"
        /\ inbox' = Tail(inbox)
        /\ outbox' = outbox \o Answer(m)
        /\ handles'[r] = handles[r]
        /\ UNCHANGED <<pc, ackSeen>>
    BY <1>1, <1>8 DEF GiveRxDataMessage, Reads, publishWaitVars, callVars
  <2>2. m \in Receivable
    BY <1>1, <2>1
  <2>3. m.kind = "PUBLISH" => ack \in Sendable /\ ack.kind = "ACK"
    BY <2>2 DEF LinePackets
  <2> HIDE DEF m, ack, Sendable, Receivable
  <2>4. \/ outbox' = outbox
        \/ outbox' = Append(outbox, ack) /\ ack \in Sendable /\ ack.kind = "ACK"
    BY <1>1, <2>1, <2>3 DEF Answer, ack
  <2>5. Underway(Threads, inbox', outbox, handles[r], pc, ackSeen)
    BY <1>1, <2>1, MessageTaken DEF m
  <2>6. ASSUME ack \in Sendable, ack.kind = "ACK"
        PROVE  Underway(Threads, inbox', Append(outbox, ack), handles[r], pc, ackSeen)
    BY <1>1, <2>5, <2>6, UnownedSent
  <2> QED
    BY <2>1, <2>4, <2>5, <2>6
<1>9. CASE CallbackReturns
  BY <1>1, <1>9 DEF CallbackReturns, lineVars, publishWaitVars, callVars
<1> QED
  BY <1>2, <1>3, <1>4, <1>5, <1>6, <1>7, <1>8, <1>9 DEF NodeNext, GiveRxData

\* What a step of the node does to what is underway between the calls of the
\* other node, whose pc and ackSeen are calls and seen, and this one.
LEMMA OthersUnderwayKept ==
  ASSUME NEW Peer, Apart(Peer), LinesOk(Peer), NodeNext, NEW calls, NEW seen,
         Underway(Peer, outbox, inbox, handles[RxThread], calls, seen)
  PROVE  Underway(Peer, outbox', inbox', handles'[RxThread], calls, seen)
<1> DEFINE Sendable == LinePackets(Threads, Peer)
           Receivable == LinePackets(Peer, Threads)
           handled == handles[RxThread]
           Goal == Underway(Peer, outbox', inbox', handles'[RxThread], calls, seen)
<1>1. /\ outbox \in Seq(Sendable)
      /\ inbox \in Seq(Receivable)
      /\ RxThread \in DOMAIN handles
      /\ DOMAIN handles = RxThreads
      /\ NoThread \notin Peer
      /\ Peer \cap Threads = {}
  BY DEF LinesOk, Apart
<1>2. ASSUME NEW t \in Threads, CallPublish(t) \/ CallPublishWait(t)
      PROVE  Goal
  <2>1. PICK kind \in {"BROADCAST", "PUBLISH"}, owner \in Threads \cup {NoThread} :
          outbox' = Append(outbox, LinePacket(kind, nextPacketId_, owner, t))
    BY <1>2 DEF CallPublish, CallPublishWait
  <2> DEFINE p == LinePacket(kind, nextPacketId_, owner, t)
  <2>2. p \in Sendable /\ p.kind # "ACK" /\ p.answers \in {handled, NoThread}
    BY LinePacketOk DEF LinePacket
  <2>3. UNCHANGED <<inbox, handles>>
    BY <1>2 DEF CallPublish, CallPublishWait
  <2> HIDE DEF p, Sendable
  <2>4. Underway(Peer, Append(outbox, p), inbox, handled, calls, seen)
    BY <1>1, <2>2, MessageFrom
  <2> QED
    BY <2>1, <2>3, <2>4 DEF p
<1>3. ASSUME NEW t \in Threads, CallPublishWaitRefused(t) \/ AwaitAck(t)
      PROVE  Goal
  BY <1>3 DEF CallPublishWaitRefused, AwaitAck, lineVars
<1>4. ASSUME NEW t \in Threads, ReturnFromPublishWait(t)
      PROVE  Goal
  <2>1. /\ inbox' = DisownedLine(inbox, t)
        /\ outbox' = DisownedLine(outbox, t)
        /\ handles'[RxThread] = IF handled = t THEN NoThread ELSE handled
    BY <1>1, <1>4 DEF ReturnFromPublishWait
  <2>2. Disowns(inbox', inbox, t) /\ Disowns(outbox', outbox, t)
    BY <1>1, <2>1, DisownedLineDisowns
  <2>3. t \notin Peer
    BY <1>1
  <2> HIDE DEF Sendable
  <2>4. ASSUME NEW from2, Disowns(from2, outbox, t),
               NEW to2, Disowns(to2, inbox, t)
        PROVE  Underway(Peer, from2, to2,
                        IF handled = t THEN NoThread ELSE handled, calls, seen)
    BY <1>1, <2>3, <2>4, CallReturns
  <2> QED
    BY <2>1, <2>2, <2>4
<1>5. CASE GiveRxDataAck
  <2>1. /\ inbox # <<>>
        /\ Head(inbox).kind = "ACK"
        /\ inbox' = Tail(inbox)
        /\ UNCHANGED <<outbox, handles>>
    BY <1>5 DEF GiveRxDataAck, Reads
  <2> HIDE DEF Receivable
  <2> QED
    BY <1>1, <2>1, AckTakenByOther
<1>6. CASE GiveRxDataMessage
  <2> DEFINE m == Head(inbox)
             ack == [m EXCEPT !.kind = "ACK", !.answers = NoThread]
  <2>1. /\ inbox # <<>>
        /\ m.kind # "ACK"
        /\ inbox' = Tail(inbox)
        /\ outbox' = outbox \o Answer(m)
        /\ handles'[RxThread] = m.owner
    BY <1>1, <1>6 DEF GiveRxDataMessage, Reads
  <2>2. m \in Receivable
    BY <1>1, <2>1
  <2>3. m.kind \in {"BROADCAST", "PUBLISH"}
    BY <2>1, <2>2 DEF LinePackets
  <2>4. m.kind = "PUBLISH" => /\ ack \in Sendable
                              /\ ack.kind = "ACK"
                              /\ ack.owner = m.owner
                              /\ ack.answers = NoThread
    BY <2>2 DEF LinePackets
  <2> HIDE DEF m, ack, Sendable, Receivable
  <2>5. IF m.kind = "PUBLISH"
        THEN outbox' = Append(outbox, ack)
        ELSE outbox' = outbox
    BY <1>1, <2>1, <2>4 DEF Answer, ack
  <2>6. ASSUME NEW from2,
               IF m.kind = "PUBLISH"
               THEN \E a \in Sendable : /\ from2 = Append(outbox, a)
                                        /\ a.kind = "ACK"
                                        /\ a.owner = m.owner
                                        /\ a.answers = NoThread
               ELSE from2 = outbox
        PROVE  Underway(Peer, from2, Tail(inbox), m.owner, calls, seen)
    BY <1>1, <2>1, <2>3, <2>6, MessageTakenByOther DEF m
  <2> QED
    BY <2>1, <2>4, <2>5, <2>6
<1>7. CASE CallbackReturns
  <2>1. UNCHANGED <<inbox, outbox>> /\ handles'[RxThread] = NoThread
    BY <1>1, <1>7 DEF CallbackReturns, lineVars
  <2> QED
    BY <1>1, <2>1, CallbackOfOtherReturns
<1> QED
  BY <1>2, <1>3, <1>4, <1>5, <1>6, <1>7 DEF NodeNext, GiveRxData
=============================================================================
