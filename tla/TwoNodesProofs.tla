--------------------------- MODULE TwoNodesProofs ---------------------------
(***************************************************************************)
(* Two connected nodes implement PublishWait, each with the other one as   *)
(* its peer, so that what is proved of PublishWait under every peer and    *)
(* link holds of them.  NodeProofs says what a step of a node is to itself *)
(* and to the other one; here both are put together.                       *)
(***************************************************************************)
EXTENDS TwoNodes, TLAPS

\* The inductive invariant: the lines of both nodes.
LinesInv == Node1!LinesOk(Threads2) /\ Node2!LinesOk(Threads1)

\* What the constants of the nodes have to satisfy, they do.
LEMMA NodeConstants == Node1!ConstantsAssumption /\ Node2!ConstantsAssumption
BY TwoNodesAssumption
   DEF TwoNodesAssumption, Node1!ConstantsAssumption, Node1!Platforms,
       Node2!ConstantsAssumption, Node2!Platforms

\* The two nodes are apart from each other.
LEMMA NodesApart ==
  ASSUME Platform # "freertos"
  PROVE  Node1!Apart(Threads2) /\ Node2!Apart(Threads1)
BY TwoNodesAssumption DEF TwoNodesAssumption, Node1!Apart, Node2!Apart

\* The ACKs on a line are those that the node at its end sees.
LEMMA NodesLinked == Node1!Linked /\ Node2!Linked
BY DEF Node1!Linked, Node2!Linked, Carried, Node1!Carried, Node2!Carried

\* Nothing is on the lines at first.
LEMMA InitLinesInv == Init => LinesInv
<1> SUFFICES ASSUME Init PROVE LinesInv
  OBVIOUS
<1>1. /\ line12 = <<>> /\ line21 = <<>>
      /\ handles = [r \in {rxThread1, rxThread2} |-> NoThread]
      /\ nextPacketId1 = 1 /\ nextPacketId2 = 1
      /\ mutex = NoThread
  BY DEF Init, Node1!Init, Node2!Init
<1>2. 1 \in 0 .. IdMax
  BY TwoNodesAssumption DEF TwoNodesAssumption
<1>3. Node1!LinesOk(Threads2)
  BY <1>1, <1>2 DEF Node1!LinesOk, Node1!Ids
<1>4. Node2!LinesOk(Threads1)
  BY <1>1, <1>2 DEF Node2!LinesOk, Node2!Ids
<1> QED
  BY <1>3, <1>4 DEF LinesInv

\* A step of node 1 is a step of PublishWait for either node.
LEMMA Step1Simulation ==
  ASSUME Platform # "freertos", LinesInv, Step1
  PROVE  /\ LinesInv'
         /\ [Node1!Next]_Node1!vars
         /\ [Node2!Next]_Node2!vars
<1>1. /\ Node1!LinesOk(Threads2)
      /\ Node2!LinesOk(Threads1)
      /\ Node1!NodeNext
      /\ UNCHANGED vars2
  BY DEF LinesInv, Step1
<1>2. Node1!LinesOk(Threads2)' /\ Node1!PeerStep
  BY <1>1, NodesApart, NodeConstants, Node1!LinesKept
<1>3. Node2!LinesOk(Threads1)'
  BY <1>1, <1>2 DEF Node1!LinesOk, Node2!LinesOk, Node1!LinePackets,
                    Node2!LinePackets, Node1!Ids, Node2!Ids, vars2
<1>4. [Node1!Next]_Node1!vars
  BY <1>1, NodesLinked, NodeConstants, Node1!OwnStep
<1>5. [Node2!Next]_Node2!vars
  <2> DEFINE toPeer == Carried(line21, "PUBLISH")
             fromPeer == Carried(line12, "ACK")
  <2>1. \/ toPeer' = toPeer /\ fromPeer' = fromPeer
        \/ \E p \in toPeer : /\ fromPeer' = fromPeer \cup {p}
                             /\ toPeer' \in {toPeer, toPeer \ {p}}
    BY <1>2 DEF Node1!PeerStep, Carried, Node1!Carried
  <2>2. UNCHANGED <<Node2!nodeVars, Node2!syncVars, Node2!callVars, ackSeen2>>
    BY <1>1, <1>2 DEF vars2, Node2!nodeVars, Node2!syncVars, Node2!callVars,
                      Node1!LinesOk
  <2> HIDE DEF toPeer, fromPeer
  <2>3. CASE toPeer' = toPeer /\ fromPeer' = fromPeer
    BY <2>2, <2>3 DEF Node2!vars, Node2!linkVars, toPeer, fromPeer
  <2>4. ASSUME NEW p \in toPeer,
               /\ fromPeer' = fromPeer \cup {p}
               /\ toPeer' \in {toPeer, toPeer \ {p}}
        PROVE  Node2!PeerReceives(p)
    BY <2>2, <2>4 DEF Node2!PeerReceives, toPeer, fromPeer
  <2> QED
    BY <2>1, <2>3, <2>4 DEF Node2!Next, toPeer
<1> QED
  BY <1>2, <1>3, <1>4, <1>5 DEF LinesInv

\* So is a step of node 2.
LEMMA Step2Simulation ==
  ASSUME Platform # "freertos", LinesInv, Step2
  PROVE  /\ LinesInv'
         /\ [Node1!Next]_Node1!vars
         /\ [Node2!Next]_Node2!vars
<1>1. /\ Node1!LinesOk(Threads2)
      /\ Node2!LinesOk(Threads1)
      /\ Node2!NodeNext
      /\ UNCHANGED vars1
  BY DEF LinesInv, Step2
<1>2. Node2!LinesOk(Threads1)' /\ Node2!PeerStep
  BY <1>1, NodesApart, NodeConstants, Node2!LinesKept
<1>3. Node1!LinesOk(Threads2)'
  BY <1>1, <1>2 DEF Node1!LinesOk, Node2!LinesOk, Node1!LinePackets,
                    Node2!LinePackets, Node1!Ids, Node2!Ids, vars1
<1>4. [Node2!Next]_Node2!vars
  BY <1>1, NodesLinked, NodeConstants, Node2!OwnStep
<1>5. [Node1!Next]_Node1!vars
  <2> DEFINE toPeer == Carried(line12, "PUBLISH")
             fromPeer == Carried(line21, "ACK")
  <2>1. \/ toPeer' = toPeer /\ fromPeer' = fromPeer
        \/ \E p \in toPeer : /\ fromPeer' = fromPeer \cup {p}
                             /\ toPeer' \in {toPeer, toPeer \ {p}}
    BY <1>2 DEF Node2!PeerStep, Carried, Node2!Carried
  <2>2. UNCHANGED <<Node1!nodeVars, Node1!syncVars, Node1!callVars, ackSeen1>>
    BY <1>1, <1>2 DEF vars1, Node1!nodeVars, Node1!syncVars, Node1!callVars,
                      Node2!LinesOk
  <2> HIDE DEF toPeer, fromPeer
  <2>3. CASE toPeer' = toPeer /\ fromPeer' = fromPeer
    BY <2>2, <2>3 DEF Node1!vars, Node1!linkVars, toPeer, fromPeer
  <2>4. ASSUME NEW p \in toPeer,
               /\ fromPeer' = fromPeer \cup {p}
               /\ toPeer' \in {toPeer, toPeer \ {p}}
        PROVE  Node1!PeerReceives(p)
    BY <2>2, <2>4 DEF Node1!PeerReceives, toPeer, fromPeer
  <2> QED
    BY <2>1, <2>3, <2>4 DEF Node1!Next, toPeer
<1> QED
  BY <1>2, <1>3, <1>4, <1>5 DEF LinesInv

\* Doing nothing changes nothing.
LEMMA StutterSimulation ==
  ASSUME LinesInv, UNCHANGED vars
  PROVE  /\ LinesInv'
         /\ [Node1!Next]_Node1!vars
         /\ [Node2!Next]_Node2!vars
<1>1. UNCHANGED <<Node1!vars, Node2!vars>>
  BY DEF vars, vars1, vars2, Node1!vars, Node1!nodeVars, Node1!syncVars,
         Node1!callVars, Node1!linkVars, Node2!vars, Node2!nodeVars,
         Node2!syncVars, Node2!callVars, Node2!linkVars, Carried
<1>2. LinesInv'
  BY DEF LinesInv, vars, vars1, vars2, Node1!LinesOk, Node2!LinesOk,
         Node1!LinePackets, Node2!LinePackets, Node1!Ids, Node2!Ids
<1> QED
  BY <1>1, <1>2

\* Either node, with the other one as its peer and the lines as its link, behaves
\* as PublishWait says (PublishInternal and GiveRxData of both), on every
\* platform whose wait_for releases the lock.
THEOREM NodesRefinePublishWait ==
  ASSUME Platform # "freertos"
  PROVE  SafetySpec => NodesImplementPublishWait
<1>1. LinesInv /\ [Next]_vars => /\ LinesInv'
                                 /\ [Node1!Next]_Node1!vars
                                 /\ [Node2!Next]_Node2!vars
  BY Step1Simulation, Step2Simulation, StutterSimulation DEF Next
<1>2. Init => Node1!Init /\ Node2!Init
  BY DEF Init
<1> QED
  BY <1>1, <1>2, InitLinesInv, PTL
     DEF SafetySpec, NodesImplementPublishWait, Node1!SafetySpec, Node2!SafetySpec

\* What PublishWait returns to a thread of either node is what became of the
\* message at the other one: SUCCESS exactly if the ACK for it came in time.
THEOREM NodesAnswerTruly ==
  ASSUME Platform = "std", ~SpuriousWakeups, FreshIds
  PROVE  SafetySpec => [](Node1!ResponseMatchesAck /\ Node2!ResponseMatchesAck)
<1>1. Node1!SafetySpec => []Node1!ResponseMatchesAck
  BY NodeConstants, Node1!ResponseIsExact DEF Node1!Trustworthy
<1>2. Node2!SafetySpec => []Node2!ResponseMatchesAck
  BY NodeConstants, Node2!ResponseIsExact DEF Node2!Trustworthy
<1>3. SafetySpec => NodesImplementPublishWait
  BY NodesRefinePublishWait
<1> QED
  BY <1>1, <1>2, <1>3, PTL DEF NodesImplementPublishWait

-----------------------------------------------------------------------------
(* Calls of the API in callbacks                                           *)

CallbacksInv == Node1!CallbackInv /\ Node2!CallbackInv

\* Whichever node takes a step, a call in a callback stays unanswered.
LEMMA NextCallbacksInv ==
  ASSUME Platform = "std", ~SpuriousWakeups
  PROVE  CallbacksInv /\ Node1!TypeOK /\ Node2!TypeOK /\ [Next]_vars => CallbacksInv'
<1> SUFFICES ASSUME CallbacksInv, Node1!TypeOK, Node2!TypeOK, [Next]_vars
             PROVE  CallbacksInv'
  OBVIOUS
<1>1. UNCHANGED vars1 => Node1!CallbackInv'
  BY DEF CallbacksInv, vars1, Node1!CallbackInv, Node1!CallbackNotAcked,
         Node1!TimeoutReturn
<1>2. UNCHANGED vars2 => Node2!CallbackInv'
  BY DEF CallbacksInv, vars2, Node2!CallbackInv, Node2!CallbackNotAcked,
         Node2!TimeoutReturn
<1>3. CASE Step1
  BY <1>2, <1>3, NodeConstants, TwoNodesAssumption, Node1!CallbackInvKept
     DEF CallbacksInv, Step1, TwoNodesAssumption
<1>4. CASE Step2
  BY <1>1, <1>4, NodeConstants, TwoNodesAssumption, Node2!CallbackInvKept
     DEF CallbacksInv, Step2, TwoNodesAssumption
<1>5. CASE UNCHANGED vars
  BY <1>1, <1>2, <1>5 DEF CallbacksInv, vars
<1> QED
  BY <1>3, <1>4, <1>5 DEF Next

\* A PublishWait that a callback makes never returns SUCCESS, however many
\* threads, messages and AckEvents there are: GiveRxData, which would have to
\* take its ACK, is waiting for the callback.
THEOREM CallbacksAreNotAcked ==
  ASSUME Platform = "std", ~SpuriousWakeups
  PROVE  SafetySpec => []NotAckedInCallback
<1>1. Init => CallbacksInv
  BY TwoNodesAssumption
     DEF TwoNodesAssumption, Init, CallbacksInv, Node1!Init, Node2!Init,
         Node1!CallbackInv, Node2!CallbackInv, Node1!CallbackNotAcked,
         Node2!CallbackNotAcked
<1>2. SafetySpec => NodesImplementPublishWait
  BY NodesRefinePublishWait
<1>3. Node1!SafetySpec => []Node1!TypeOK
  BY NodeConstants, Node1!TypeCorrect
<1>4. Node2!SafetySpec => []Node2!TypeOK
  BY NodeConstants, Node2!TypeCorrect
<1>5. CallbacksInv => NotAckedInCallback
  BY DEF CallbacksInv, NotAckedInCallback, Node1!CallbackInv, Node2!CallbackInv
<1> QED
  BY <1>1, <1>2, <1>3, <1>4, <1>5, NextCallbacksInv, PTL
     DEF SafetySpec, NodesImplementPublishWait

-----------------------------------------------------------------------------
(* PUBLISH packets and their ACKs                                          *)

\* What is underway for the calls of either node.
UnderwayInv ==
  /\ Node1!Underway(Threads1, line21, line12, handles[rxThread2], pc1, ackSeen1)
  /\ Node2!Underway(Threads2, line12, line21, handles[rxThread1], pc2, ackSeen2)

\* Both nodes mean the same by it.
LEMMA SameUnderway ==
  ASSUME NEW T, NEW from, NEW to, NEW handled, NEW calls, NEW seen
  PROVE  Node1!Underway(T, from, to, handled, calls, seen)
           <=> Node2!Underway(T, from, to, handled, calls, seen)
<1>1. Node1!OfPendingCalls(T, from, to, handled, calls)
        <=> Node2!OfPendingCalls(T, from, to, handled, calls)
  BY DEF Node1!OfPendingCalls, Node2!OfPendingCalls, Node1!On, Node2!On
<1>2. Node1!OncePerCall(T, to) <=> Node2!OncePerCall(T, to)
  BY DEF Node1!OncePerCall, Node2!OncePerCall
<1>3. Node1!OneUnderway(T, from, to, calls, seen)
        <=> Node2!OneUnderway(T, from, to, calls, seen)
  BY DEF Node1!OneUnderway, Node2!OneUnderway, Node1!On, Node2!On
<1>4. Node1!BehindAck(T, from, seen) <=> Node2!BehindAck(T, from, seen)
  BY DEF Node1!BehindAck, Node2!BehindAck
<1>5. Node1!HandledAcked(T, from, handled, seen)
        <=> Node2!HandledAcked(T, from, handled, seen)
  BY DEF Node1!HandledAcked, Node2!HandledAcked, Node1!On, Node2!On
<1> QED
  BY <1>1, <1>2, <1>3, <1>4, <1>5 DEF Node1!Underway, Node2!Underway

\* The RX threads are those of the nodes.
LEMMA RxThreadsDiffer ==
  /\ rxThread2 \in {rxThread1, rxThread2} \ {rxThread1}
  /\ rxThread1 \in {rxThread1, rxThread2} \ {rxThread2}
BY TwoNodesAssumption DEF TwoNodesAssumption

\* Nothing is underway at first.
LEMMA InitUnderwayInv == Init => UnderwayInv
<1> SUFFICES ASSUME Init PROVE UnderwayInv
  OBVIOUS
<1>1. /\ line12 = <<>> /\ line21 = <<>>
      /\ handles[rxThread1] = NoThread /\ handles[rxThread2] = NoThread
      /\ \A t \in Threads1 : pc1[t] = "idle"
      /\ \A t \in Threads2 : pc2[t] = "idle"
      /\ NoThread \notin Threads1 \cup Threads2
  BY TwoNodesAssumption DEF Init, Node1!Init, Node2!Init, TwoNodesAssumption
<1>2. DOMAIN line12 = {} /\ DOMAIN line21 = {}
  BY <1>1
<1>3. Node1!Underway(Threads1, line21, line12, handles[rxThread2], pc1, ackSeen1)
  BY <1>1, <1>2 DEF Node1!Underway, Node1!OfPendingCalls, Node1!OncePerCall,
                    Node1!OneUnderway, Node1!BehindAck, Node1!HandledAcked, Node1!On
<1>4. Node2!Underway(Threads2, line12, line21, handles[rxThread1], pc2, ackSeen2)
  BY <1>1, <1>2 DEF Node2!Underway, Node2!OfPendingCalls, Node2!OncePerCall,
                    Node2!OneUnderway, Node2!BehindAck, Node2!HandledAcked, Node2!On
<1> QED
  BY <1>3, <1>4 DEF UnderwayInv

\* Every step keeps it.
LEMMA NextUnderwayInv ==
  ASSUME Platform # "freertos"
  PROVE  /\ LinesInv
         /\ Node1!TypeOK
         /\ Node2!TypeOK
         /\ UnderwayInv
         /\ [Next]_vars
         => UnderwayInv'
<1> SUFFICES ASSUME LinesInv, Node1!TypeOK, Node2!TypeOK, UnderwayInv, [Next]_vars
             PROVE  UnderwayInv'
  OBVIOUS
<1>1. /\ Node1!Underway(Threads1, line21, line12, handles[rxThread2], pc1, ackSeen1)
      /\ Node2!Underway(Threads2, line12, line21, handles[rxThread1], pc2, ackSeen2)
  BY DEF UnderwayInv
<1>2. SUFFICES
        /\ Node1!Underway(Threads1, line21', line12', handles'[rxThread2], pc1', ackSeen1')
        /\ Node2!Underway(Threads2, line12', line21', handles'[rxThread1], pc2', ackSeen2')
  BY DEF UnderwayInv, Node1!Underway, Node1!OfPendingCalls, Node1!OncePerCall,
         Node1!OneUnderway, Node1!BehindAck, Node1!HandledAcked, Node1!On,
         Node2!Underway, Node2!OfPendingCalls, Node2!OncePerCall,
         Node2!OneUnderway, Node2!BehindAck, Node2!HandledAcked, Node2!On
<1>3. CASE Step1
  <2>1. Node1!NodeNext /\ pc2' = pc2 /\ ackSeen2' = ackSeen2
    BY <1>3 DEF Step1, vars2
  <2>2. Node1!LinesOk(Threads2) /\ Node1!Apart(Threads2)
    BY NodesApart DEF LinesInv
  <2>3. Node1!Underway(Threads1, line21', line12', handles'[rxThread2], pc1', ackSeen1')
    BY <1>1, <2>1, <2>2, RxThreadsDiffer, NodeConstants, Node1!OwnUnderwayKept
  <2>4. Node1!Underway(Threads2, line12, line21, handles[rxThread1], pc2, ackSeen2)
    BY <1>1, SameUnderway
  <2>5. Node1!Underway(Threads2, line12', line21', handles'[rxThread1], pc2, ackSeen2)
    BY <2>1, <2>2, <2>4, NodeConstants, Node1!OthersUnderwayKept
  <2> QED
    BY <2>1, <2>3, <2>5, SameUnderway
<1>4. CASE Step2
  <2>1. Node2!NodeNext /\ pc1' = pc1 /\ ackSeen1' = ackSeen1
    BY <1>4 DEF Step2, vars1
  <2>2. Node2!LinesOk(Threads1) /\ Node2!Apart(Threads1)
    BY NodesApart DEF LinesInv
  <2>3. Node2!Underway(Threads2, line12', line21', handles'[rxThread1], pc2', ackSeen2')
    BY <1>1, <2>1, <2>2, RxThreadsDiffer, NodeConstants, Node2!OwnUnderwayKept
  <2>4. Node2!Underway(Threads1, line21, line12, handles[rxThread2], pc1, ackSeen1)
    BY <1>1, SameUnderway
  <2>5. Node2!Underway(Threads1, line21', line12', handles'[rxThread2], pc1, ackSeen1)
    BY <2>1, <2>2, <2>4, NodeConstants, Node2!OthersUnderwayKept
  <2> QED
    BY <2>1, <2>3, <2>5, SameUnderway
<1>5. CASE UNCHANGED vars
  BY <1>1, <1>5 DEF vars, vars1, vars2
<1> QED
  BY <1>3, <1>4, <1>5 DEF Next

\* The invariant holds of every behaviour.
LEMMA UnderwayInvAlways ==
  ASSUME Platform # "freertos"
  PROVE  SafetySpec => []UnderwayInv
<1>1. LinesInv /\ [Next]_vars => LinesInv'
  BY Step1Simulation, Step2Simulation, StutterSimulation DEF Next
<1>2. SafetySpec => NodesImplementPublishWait
  BY NodesRefinePublishWait
<1>3. Node1!SafetySpec => []Node1!TypeOK
  BY NodeConstants, Node1!TypeCorrect
<1>4. Node2!SafetySpec => []Node2!TypeOK
  BY NodeConstants, Node2!TypeCorrect
<1> QED
  BY <1>1, <1>2, <1>3, <1>4, InitLinesInv, InitUnderwayInv, NextUnderwayInv, PTL
     DEF SafetySpec, NodesImplementPublishWait

\* While a PublishWait waits, its PUBLISH is on the line to the other node or the
\* ACK is on its way back (PublishInternal, GiveRxData): one of them.
THEOREM NothingIsLost ==
  ASSUME Platform # "freertos"
  PROVE  SafetySpec => []NothingLost
<1>1. UnderwayInv => NothingLost
  BY DEF UnderwayInv, NothingLost, Node1!Underway, Node1!OneUnderway,
         Node1!PacketOrAckUnderway, Node2!Underway, Node2!OneUnderway,
         Node2!PacketOrAckUnderway
<1> QED
  BY <1>1, UnderwayInvAlways, PTL

\* Whatever the callbacks of a PUBLISH send, the ACK is received before it: the
\* order in which GiveRxData sends the ACK and calls the callbacks is enough.
THEOREM AckAlwaysFirst ==
  ASSUME Platform # "freertos"
  PROVE  SafetySpec => []AckComesFirst
<1>1. UnderwayInv => AckComesFirst
  BY DEF UnderwayInv, AckComesFirst, Node1!Underway, Node1!BehindAck,
         Node1!AnswerBehindAck, Node2!Underway, Node2!BehindAck,
         Node2!AnswerBehindAck
<1> QED
  BY <1>1, UnderwayInvAlways, PTL
=============================================================================
