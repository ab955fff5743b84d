------------------------------ MODULE TwoNodes ------------------------------
(***************************************************************************)
(* Two nodes connected to each other, each with an RX thread, as the tests *)
(* in test/integration/TwoNodeAckTests.cpp connect them: what one hands to *)
(* txDataReady_ is queued for the RX thread of the other, in order and     *)
(* without loss.  Both are module Node; each is the environment of the     *)
(* other, and the mutex is the static classMutex_ of both.                 *)
(***************************************************************************)
EXTENDS Naturals, Sequences

CONSTANTS
  Threads1, Threads2,      \* the threads of either node
  rxThread1, rxThread2,    \* the RX threads among them
  NoThread,
  MaxPendingAcks1, MaxPendingAcks2,
  IdMax, Platform, SpuriousWakeups, TxAttached, FreshIds, MaxMessages

ASSUME TwoNodesAssumption ==
  /\ Threads1 \cap Threads2 = {}
  /\ NoThread \notin Threads1 \cup Threads2
  /\ rxThread1 \in Threads1
  /\ rxThread2 \in Threads2
  /\ MaxPendingAcks1 \in Nat \ {0}
  /\ MaxPendingAcks2 \in Nat \ {0}
  /\ IdMax \in Nat \ {0}
  /\ Platform \in {"std", "embos", "freertos"}
  /\ {SpuriousWakeups, TxAttached, FreshIds} \subseteq BOOLEAN
  /\ MaxMessages \in Nat

VARIABLES
  nextPacketId1, events1, ackEvents1, maxAckPacketIndex1, signal1, pc1,
  packetId1, ackEvent1, waitReturn1, response1, ackSeen1, rx1,
  nextPacketId2, events2, ackEvents2, maxAckPacketIndex2, signal2, pc2,
  packetId2, ackEvent2, waitReturn2, response2, ackSeen2, rx2,
  mutex,    \* classMutex_
  line12,   \* what node 1 has sent and node 2 not yet received
  line21,   \* and the other way round
  handles

vars1 == <<nextPacketId1, events1, ackEvents1, maxAckPacketIndex1, signal1, pc1,
           packetId1, ackEvent1, waitReturn1, response1, ackSeen1, rx1>>
vars2 == <<nextPacketId2, events2, ackEvents2, maxAckPacketIndex2, signal2, pc2,
           packetId2, ackEvent2, waitReturn2, response2, ackSeen2, rx2>>
vars == <<vars1, vars2, mutex, line12, line21, handles>>

-----------------------------------------------------------------------------
\* The packets of a kind on a line, as module PublishWait sees them.
Carried(line, kind) ==
  {[id |-> line[k].id, owner |-> line[k].owner] :
     k \in {j \in DOMAIN line : line[j].kind = kind}}

\* NodeProofs is Node and what is proved of it.
Node1 ==
  INSTANCE NodeProofs
    WITH Threads <- Threads1, RxThread <- rxThread1,
         RxThreads <- {rxThread1, rxThread2}, MaxPendingAcks <- MaxPendingAcks1,
         nextPacketId_ <- nextPacketId1, events <- events1,
         ackEvents_ <- ackEvents1, maxAckPacketIndex <- maxAckPacketIndex1,
         signal <- signal1, pc <- pc1, packetId <- packetId1,
         ackEvent <- ackEvent1, waitReturn <- waitReturn1,
         response <- response1, ackSeen <- ackSeen1, rx <- rx1,
         toPeer <- Carried(line12, "PUBLISH"),
         fromPeer <- Carried(line21, "ACK"), outbox <- line12, inbox <- line21

Node2 ==
  INSTANCE NodeProofs
    WITH Threads <- Threads2, RxThread <- rxThread2,
         RxThreads <- {rxThread1, rxThread2}, MaxPendingAcks <- MaxPendingAcks2,
         nextPacketId_ <- nextPacketId2, events <- events2,
         ackEvents_ <- ackEvents2, maxAckPacketIndex <- maxAckPacketIndex2,
         signal <- signal2, pc <- pc2, packetId <- packetId2,
         ackEvent <- ackEvent2, waitReturn <- waitReturn2,
         response <- response2, ackSeen <- ackSeen2, rx <- rx2,
         toPeer <- Carried(line21, "PUBLISH"),
         fromPeer <- Carried(line12, "ACK"), outbox <- line21, inbox <- line12

\* The constructors, and threads that have not begun.
Init ==
  /\ line12 = <<>>
  /\ line21 = <<>>
  /\ handles = [r \in {rxThread1, rxThread2} |-> NoThread]
  /\ Node1!Init
  /\ Node2!Init
  /\ rx1 = "reading"
  /\ rx2 = "reading"

Step1 == Node1!NodeNext /\ UNCHANGED vars2
Step2 == Node2!NodeNext /\ UNCHANGED vars1

Next == Step1 \/ Step2

SafetySpec == Init /\ [][Next]_vars

\* As in PublishWait, and the RX threads go on reading; the callbacks themselves
\* (what they do besides calling the API) come to an end.
Fairness ==
  /\ \A t \in Threads1 : /\ WF_vars(Node1!AwaitAck(t) /\ UNCHANGED vars2)
                         /\ WF_vars(Node1!ReturnFromPublishWait(t) /\ UNCHANGED vars2)
  /\ \A t \in Threads2 : /\ WF_vars(Node2!AwaitAck(t) /\ UNCHANGED vars1)
                         /\ WF_vars(Node2!ReturnFromPublishWait(t) /\ UNCHANGED vars1)
  /\ WF_vars(Node1!GiveRxData /\ UNCHANGED vars2)
  /\ WF_vars(Node2!GiveRxData /\ UNCHANGED vars1)

Spec == SafetySpec /\ Fairness

-----------------------------------------------------------------------------
(* Properties                                                              *)

\* On a line without loss nothing is lost between the nodes either: while a call
\* waits, its PUBLISH is on its way or the ACK is (PublishInternal and
\* GiveRxData of the two nodes).
NothingLost == Node1!PacketOrAckUnderway /\ Node2!PacketOrAckUnderway

\* "We always want the ACK to be the first thing sent back"
\* (EmbeddedSerialFiller_RTOS.cpp:194): whatever the callbacks of a message send,
\* its sender has the ACK before.
AckComesFirst == Node1!AnswerBehindAck /\ Node2!AnswerBehindAck

\* A PublishWait in a callback cannot succeed: the thread that would have to
\* receive its ACK is the one that waits for it (GiveRxData calls the
\* callbacks on its own thread).
NotAckedInCallback == Node1!CallbackNotAcked /\ Node2!CallbackNotAcked

\* ... but it ends: even when both RX threads are in a callback that waits for
\* the other, both go on, and every call of PublishWait returns.
EveryoneGoesOn ==
  /\ rx1 # "reading" ~> rx1 = "reading"
  /\ rx2 # "reading" ~> rx2 = "reading"
  /\ Node1!PublishWaitReturns
  /\ Node2!PublishWaitReturns

\* Each node, with the other one as its peer and the lines between them as its
\* link, behaves as module PublishWait says: what is shown of PublishWait, under
\* every peer and link it allows, holds of the two nodes.
NodesImplementPublishWait == Node1!SafetySpec /\ Node2!SafetySpec
=============================================================================
