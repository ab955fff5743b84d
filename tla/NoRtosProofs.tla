---------------------------- MODULE NoRtosProofs ----------------------------
(***************************************************************************)
(* Proofs about NoRtos, for any tasks, timeouts and range of packet IDs:   *)
(*                                                                         *)
(*   - type correctness, for any number of nodes and any use (TypeInv);    *)
(*   - if the tasks check TaskPending() and publish on one node: one task  *)
(*     at a time is served, the assertion of PublishWait holds, and the    *)
(*     calls are bounded, with IDs reused at will (TurnInv);               *)
(*   - with fresh IDs, too: the response is exact (AnswerInv), and the     *)
(*     safety part of the refinement to AckedPublish.                      *)
(***************************************************************************)
EXTENDS NoRtos, TLAPS, FiniteSetTheorems

\* The discipline the static variables of PublishWait rely on.
OneAtATime ==
  /\ ChecksTaskPending
  /\ \A t, u \in Tasks : NodeOf[t] = NodeOf[u]

-----------------------------------------------------------------------------
(* Types                                                                   *)

\* The invalid ID 0, which marks an event nobody waits for, is on no packet.
IdsValid ==
  /\ \A n \in Nodes : nextPacketId_[n] # 0
  /\ \A p \in toPeer \cup fromPeer : p.id # 0

TypeInv == TypeOK /\ IdsValid

\* The increment of an ID is an ID again and never the invalid ID 0.
LEMMA IncrementIsId ==
  ASSUME NEW id \in Ids
  PROVE  Increment(id) \in Ids \ {0}
<1> DEFINE next == (id + 1) % (IdMax + 1)
<1>1. next \in 0 .. IdMax
  BY NoRtosAssumption DEF NoRtosAssumption, Ids
<1> QED
  BY <1>1, NoRtosAssumption DEF Increment, Ids, NoRtosAssumption

\* Disowning changes nothing of a packet but its owner.
LEMMA DisownedPackets ==
  ASSUME NEW packets \in SUBSET Packets, NEW t \in Tasks
  PROVE  /\ Disowned(packets, t) \in SUBSET Packets
         /\ \A q \in Disowned(packets, t) : \E p \in packets :
              /\ q.node = p.node
              /\ q.id = p.id
              /\ q.owner = IF p.owner = t THEN NoTask ELSE p.owner
<1> SUFFICES ASSUME NEW p \in packets
             PROVE  LET q == IF p.owner = t THEN [p EXCEPT !.owner = NoTask] ELSE p
                    IN  /\ q \in Packets
                        /\ q.node = p.node
                        /\ q.id = p.id
                        /\ q.owner = IF p.owner = t THEN NoTask ELSE p.owner
  BY DEF Disowned
<1>1. p \in Packets
  OBVIOUS
<1> QED
  BY <1>1 DEF Packets

\* Initially.
LEMMA InitTypeInv == Init => TypeInv
<1> SUFFICES ASSUME Init
             PROVE  TypeInv
  OBVIOUS
<1>1. 0 \in Ids /\ 1 \in Ids /\ 0 \in 0 .. MaxTimeout
  BY NoRtosAssumption DEF NoRtosAssumption, Ids
<1>2. [packetId |-> 0, state |-> "NO_ACK"] \in [packetId : Ids, state : AckStates]
  BY <1>1 DEF AckStates
<1>3. ackEvent \in [Nodes -> [packetId : Ids, state : AckStates]]
  BY <1>2 DEF Init
<1>4. IdsValid
  BY DEF Init, IdsValid
<1> QED
  BY <1>1, <1>3, <1>4 DEF Init, TypeInv, TypeOK, Pcs, Responses, NotAcked

\* The end of a message.
LEMMA FinishTypes ==
  ASSUME TypeInv, NEW t \in Tasks, NEW code \in Responses, Finish(t, code)
  PROVE  /\ ackEvent' \in [Nodes -> [packetId : Ids, state : AckStates]]
         /\ pw_state' \in {"ENTRY_POINT", "CONTINUATION_POINT"}
         /\ pc' \in [Tasks -> Pcs]
         /\ response' \in [Tasks -> Responses]
         /\ toPeer' \in SUBSET Packets
         /\ fromPeer' \in SUBSET Packets
         /\ calls' \in [Tasks -> Nat]
         /\ \A p \in toPeer' \cup fromPeer' : p.id # 0
<1>1. toPeer \in SUBSET Packets /\ fromPeer \in SUBSET Packets
  BY DEF TypeInv, TypeOK
<1>2. /\ toPeer' \in SUBSET Packets
      /\ fromPeer' \in SUBSET Packets
      /\ \A p \in toPeer' \cup fromPeer' : p.id # 0
  BY <1>1, DisownedPackets DEF Finish, TypeInv, IdsValid
<1>3. [packetId |-> 0, state |-> "NO_ACK"] \in [packetId : Ids, state : AckStates]
  BY NoRtosAssumption DEF NoRtosAssumption, Ids, AckStates
<1>4. ackEvent' \in [Nodes -> [packetId : Ids, state : AckStates]]
  BY <1>3 DEF Finish, TypeInv, TypeOK
<1>5. calls' \in [Tasks -> Nat]
  BY DEF Finish, CountCall, TypeInv, TypeOK
<1> QED
  BY <1>2, <1>4, <1>5 DEF Finish, TypeInv, TypeOK, Pcs

\* Every step keeps the types.
LEMMA NextTypeInv == TypeInv /\ [Next]_vars => TypeInv'
<1> SUFFICES ASSUME TypeInv, [Next]_vars
             PROVE  TypeInv'
  OBVIOUS
<1> USE NoRtosAssumption
<1> USE DEF TypeInv, TypeOK, IdsValid, config, staticVars, nodeVars, taskVars,
        linkVars, history
<1>1. ASSUME NEW n \in Nodes, Publish(n)
      PROVE  TypeInv'
  BY <1>1, IncrementIsId DEF Publish
<1>2. ASSUME NEW t \in Tasks, Enter(t)
      PROVE  TypeInv'
  <2> DEFINE n == NodeOf[t]
             id == nextPacketId_[n]
             p == [node |-> n, id |-> id, owner |-> t]
  <2>1. n \in Nodes /\ id \in Ids \ {0}
    BY DEF NoRtosAssumption
  <2>2. p \in Packets /\ p.id # 0
    BY <2>1 DEF Packets
  <2>3. toPeer' \in {toPeer, toPeer \cup {p}}
    BY <1>2 DEF Enter
  <2>4. ackEvent' \in [Nodes -> [packetId : Ids, state : AckStates]]
    BY <1>2, <2>1 DEF Enter, Record
  <2> HIDE DEF n, id, p
  <2> QED
    BY <1>2, <2>2, <2>3, <2>4
       DEF Enter, NoRtosAssumption, Pcs, Responses, NotAcked
<1>3. ASSUME NEW t \in Tasks, PublishInternalReturns(t)
      PROVE  TypeInv'
  <2>1. NodeOf[t] \in Nodes
    BY DEF NoRtosAssumption
  <2>2. Increment(nextPacketId_[NodeOf[t]]) \in Ids \ {0}
    BY <2>1, IncrementIsId
  <2> QED
    BY <1>3, <2>1, <2>2 DEF PublishInternalReturns, Pcs
<1>4. ASSUME NEW t \in Tasks, PollPending(t)
      PROVE  TypeInv'
  <2>1. timeout_count' \in 0 .. MaxTimeout
    BY <1>4 DEF PollPending, InTime, NoRtosAssumption
  <2> QED
    BY <1>4, <2>1 DEF PollPending, CountCall, Pcs, Responses
<1>5. ASSUME NEW t \in Tasks, PollAcked(t)
      PROVE  TypeInv'
  <2>1. timeout_count' \in 0 .. MaxTimeout
    BY <1>5 DEF PollAcked, InTime, NoRtosAssumption
  <2>2. Finish(t, "SUCCESS") /\ "SUCCESS" \in Responses
    BY <1>5 DEF PollAcked, Responses
  <2> QED
    BY <1>5, <2>1, <2>2, FinishTypes DEF PollAcked
<1>6. ASSUME NEW t \in Tasks, PollTimesOut(t)
      PROVE  TypeInv'
  <2>1. Finish(t, "TIMEOUT") /\ "TIMEOUT" \in Responses
    BY <1>6 DEF PollTimesOut, Responses
  <2> QED
    BY <1>6, <2>1, FinishTypes DEF PollTimesOut
<1>7. ASSUME NEW p \in toPeer, PeerReceives(p) \/ LosePublish(p)
      PROVE  TypeInv'
  BY <1>7 DEF PeerReceives, LosePublish
<1>8. ASSUME NEW a \in fromPeer, GiveRxAck(a) \/ GiveRxUnexpectedAck(a)
      PROVE  TypeInv'
  <2>1. ackedAfter' \in [Tasks -> Nat \cup {NotAcked}]
    BY <1>8 DEF GiveRxAck, GiveRxUnexpectedAck, Witness
  <2>2. a.node \in Nodes
    BY DEF Packets
  <2>3. ackEvent' \in [Nodes -> [packetId : Ids, state : AckStates]]
    BY <1>8, <2>2 DEF GiveRxAck, GiveRxUnexpectedAck, AckStates
  <2> QED
    BY <1>8, <2>1, <2>3 DEF GiveRxAck, GiveRxUnexpectedAck
<1>9. ASSUME NEW a \in fromPeer, LoseAck(a)
      PROVE  TypeInv'
  BY <1>9 DEF LoseAck
<1>10. CASE UNCHANGED vars
  BY <1>10 DEF vars
<1> QED
  BY <1>1, <1>2, <1>3, <1>4, <1>5, <1>6, <1>7, <1>8, <1>9, <1>10 DEF Next, Poll

\* Every variable keeps its type, and the invalid ID 0 is never sent.
THEOREM TypeInvAlways == SafetySpec => []TypeInv
<1> QED
  BY InitTypeInv, NextTypeInv, PTL DEF SafetySpec

\* Type correctness, whatever the tasks do and however many nodes there are.
THEOREM TypeCorrect == SafetySpec => []TypeOK
<1>1. TypeInv => TypeOK
  BY DEF TypeInv
<1> QED
  BY <1>1, TypeInvAlways, PTL

-----------------------------------------------------------------------------
(* One task at a time                                                      *)

Busy(t) == pc[t] # "idle"

\* At most one task has a message, and the static variables are about it.
TurnTaken ==
  /\ \A t, u \in Tasks : Busy(t) /\ Busy(u) => t = u
  /\ pw_state = "CONTINUATION_POINT"
       <=> \E t \in Tasks : pc[t] \in {"sent", "polling"}
  /\ \A t \in Tasks : Busy(t) => /\ calls[t] = timeout_count
                                 /\ timeout_count <= timeout[t]
                                 /\ response[t] \in {"UNKNOWN", "PENDING"}

\* The event of a node waits for an ACK exactly while a task of it has a
\* message, and is clean otherwise.
EventInUse ==
  /\ \A t \in Tasks : Busy(t) => TaskPending(NodeOf[t])
  /\ \A n \in Nodes : TaskPending(n) => \E t \in Tasks : Busy(t) /\ NodeOf[t] = n
  /\ \A n \in Nodes : ~TaskPending(n) => ~Acked(n)

\* The second inductive invariant.
TurnInv ==
  /\ TypeInv
  /\ TurnTaken
  /\ EventInUse
  /\ AssertHolds
  /\ CallsBounded

\* Initially no task has a message.
LEMMA InitTurnInv == Init => TurnInv
<1> SUFFICES ASSUME Init
             PROVE  TurnInv
  OBVIOUS
<1>1. TypeInv
  BY InitTypeInv
<1>2. TurnTaken
  BY DEF Init, TurnTaken, Busy
<1>3. EventInUse
  BY DEF Init, EventInUse, Busy, TaskPending, Acked
<1>4. AssertHolds /\ CallsBounded
  BY NoRtosAssumption
     DEF Init, AssertHolds, CallsBounded, NoRtosAssumption
<1> QED
  BY <1>1, <1>2, <1>3, <1>4 DEF TurnInv

\* A message is begun only when no task has one.
LEMMA EnterAlone ==
  ASSUME OneAtATime, TurnInv, NEW t \in Tasks, Enter(t)
  PROVE  /\ \A u \in Tasks : pc[u] = "idle"
         /\ ~TaskPending(NodeOf[t])
<1>1. pc[t] # "polling"
  BY DEF Enter, TurnInv, TurnTaken
<1>2. ~TaskPending(NodeOf[t])
  BY <1>1 DEF Enter, MayCall, OneAtATime
<1>3. \A u \in Tasks : pc[u] = "idle"
  BY <1>2 DEF TurnInv, EventInUse, OneAtATime, Busy
<1> QED
  BY <1>2, <1>3

\* Behind CONTINUATION_POINT a call is about the message of its own task.
LEMMA PollsOwnMessage ==
  ASSUME OneAtATime, TurnInv, NEW t \in Tasks, AtContinuation(t)
  PROVE  /\ pc[t] \in {"sent", "polling"}
         /\ pw_state = "CONTINUATION_POINT"
<1>1. CASE pc[t] = "sent"
  BY <1>1 DEF TurnInv, TurnTaken
<1>2. CASE pw_state = "CONTINUATION_POINT" /\ MayCall(t)
  <2>1. PICK u \in Tasks : pc[u] \in {"sent", "polling"}
    BY <1>2 DEF TurnInv, TurnTaken
  <2>2. TaskPending(NodeOf[t])
    BY <2>1 DEF TurnInv, EventInUse, OneAtATime, Busy
  <2> QED
    BY <1>2, <2>2 DEF MayCall, OneAtATime
<1> QED
  BY <1>1, <1>2 DEF AtContinuation

\* The end of a message ends the turn of its task.
LEMMA FinishTurn ==
  ASSUME OneAtATime, TurnInv, NEW t \in Tasks, NEW code \in Responses,
         AtContinuation(t), Finish(t, code), timeout' = timeout
  PROVE  TurnTaken' /\ EventInUse' /\ CallsBounded'
<1>0. /\ pc[t] \in {"sent", "polling"}
      /\ TypeOK
      /\ NodeOf[t] \in Nodes
  BY PollsOwnMessage, NoRtosAssumption DEF TurnInv, TypeInv, NoRtosAssumption
<1>1. \A u \in Tasks : pc'[u] = "idle"
  BY <1>0 DEF Finish, TurnInv, TurnTaken, Busy, TypeOK
<1>2. TurnTaken'
  BY <1>1 DEF TurnTaken, Busy, Finish
<1>3. \A n \in Nodes : ~TaskPending(n)' /\ ~Acked(n)'
  <2> SUFFICES ASSUME NEW n \in Nodes
               PROVE  ~TaskPending(n)' /\ ~Acked(n)'
    OBVIOUS
  <2>1. CASE n = NodeOf[t]
    BY <1>0, <2>1 DEF Finish, TaskPending, Acked, TypeOK
  <2>2. CASE n # NodeOf[t]
    <3>1. ackEvent'[n] = ackEvent[n]
      BY <1>0, <2>2 DEF Finish, TypeOK
    <3>2. ~TaskPending(n)
      BY <1>0, <2>2 DEF TurnInv, TurnTaken, EventInUse, Busy
    <3> QED
      BY <3>1, <3>2 DEF TurnInv, EventInUse, TaskPending, Acked
  <2> QED
    BY <2>1, <2>2
<1>4. EventInUse'
  BY <1>1, <1>3 DEF EventInUse, Busy
<1>5. CallsBounded'
  <2>1. calls[t] <= timeout[t]
    BY <1>0 DEF TurnInv, TurnTaken, Busy
  <2> QED
    BY <1>0, <2>1 DEF Finish, CountCall, TurnInv, CallsBounded, TypeOK
<1> QED
  BY <1>2, <1>4, <1>5

\* What the second invariant is about is left alone.
LEMMA TurnFrame ==
  ASSUME TurnInv, TypeInv',
         UNCHANGED <<timeout, staticVars, ackEvent, taskVars, calls, assertFailed>>
  PROVE  TurnInv'
  BY DEF TurnInv, TurnTaken, EventInUse, AssertHolds, CallsBounded, Busy,
     TaskPending, Acked, staticVars, taskVars

\* A message is begun.
LEMMA EnterTurn ==
  ASSUME OneAtATime, TurnInv, NEW t \in Tasks, Enter(t)
  PROVE  TurnTaken' /\ EventInUse' /\ AssertHolds' /\ CallsBounded'
<1> DEFINE n == NodeOf[t]
           id == nextPacketId_[n]
<1>0. /\ TypeOK
      /\ n \in Nodes
      /\ id # 0
      /\ \A u \in Tasks : pc[u] = "idle"
      /\ \A m \in Nodes : ~TaskPending(m) /\ ~Acked(m)
      /\ timeout[t] \in Nat
  BY EnterAlone, NoRtosAssumption
     DEF TurnInv, TypeInv, TypeOK, IdsValid, NoRtosAssumption, EventInUse, Busy
<1>1. /\ pc' = [pc EXCEPT ![t] = "sending"]
      /\ response' = [response EXCEPT ![t] = "UNKNOWN"]
      /\ calls' = [calls EXCEPT ![t] = 0]
      /\ ackEvent' = [ackEvent EXCEPT ![n].packetId = id]
      /\ timeout_count' = 0
      /\ timeout' = timeout /\ pw_state' = pw_state
      /\ pw_state = "ENTRY_POINT"
      /\ assertFailed' = (assertFailed \/ TaskPending(n))
  BY DEF Enter, Record, config
<1>2. TurnTaken'
  BY <1>0, <1>1 DEF TurnTaken, Busy, TypeOK
<1>3. /\ ackEvent'[n].packetId = id
      /\ ackEvent'[n].state = ackEvent[n].state
      /\ \A m \in Nodes \ {n} : ackEvent'[m] = ackEvent[m]
  BY <1>0, <1>1 DEF TypeOK
<1>4. EventInUse'
  <2>1. TaskPending(n)' /\ \A m \in Nodes \ {n} : ~TaskPending(m)' /\ ~Acked(m)'
    BY <1>0, <1>3 DEF TaskPending, Acked
  <2>2. Busy(t)' /\ \A u \in Tasks \ {t} : ~Busy(u)'
    BY <1>0, <1>1 DEF Busy, TypeOK
  <2> QED
    BY <1>0, <2>1, <2>2 DEF EventInUse
<1>5. AssertHolds'
  BY <1>0, <1>1 DEF AssertHolds, TurnInv
<1>6. CallsBounded'
  BY <1>0, <1>1 DEF CallsBounded, TurnInv, TypeOK
<1> QED
  BY <1>2, <1>4, <1>5, <1>6

\* An ACK changes no more than the state of an event that waits for one.
LEMMA AckTurn ==
  ASSUME TurnInv, TypeInv', NEW a \in fromPeer, GiveRxAck(a)
  PROVE  TurnInv'
<1>0. /\ TypeOK
      /\ a.node \in Nodes
      /\ a.id # 0
  BY DEF TurnInv, TypeInv, TypeOK, IdsValid, Packets
<1>1. ackEvent' = [ackEvent EXCEPT ![a.node].state = "ACK"]
  BY DEF GiveRxAck
<1>2. \A n \in Nodes : /\ ackEvent'[n].packetId = ackEvent[n].packetId
                       /\ n # a.node => ackEvent'[n] = ackEvent[n]
  BY <1>0, <1>1 DEF TypeOK
<1>3. TaskPending(a.node)
  BY <1>0 DEF GiveRxAck, IsAwaited, TaskPending
<1>4. EventInUse'
  <2>1. \A n \in Nodes : TaskPending(n)' <=> TaskPending(n)
    BY <1>2 DEF TaskPending
  <2>2. \A n \in Nodes : ~TaskPending(n)' => ~Acked(n)'
    BY <1>2, <1>3, <2>1 DEF TurnInv, EventInUse, Acked
  <2>3. \A t \in Tasks : NodeOf[t] \in Nodes /\ (Busy(t)' <=> Busy(t))
    BY NoRtosAssumption DEF NoRtosAssumption, GiveRxAck, taskVars, Busy
  <2> QED
    BY <2>1, <2>2, <2>3 DEF TurnInv, EventInUse
<1> QED
  BY <1>4 DEF TurnInv, TurnTaken, Busy, AssertHolds, CallsBounded, GiveRxAck,
     config, staticVars, taskVars

\* Every step keeps the second invariant.
LEMMA NextTurnInv ==
  ASSUME OneAtATime
  PROVE  TurnInv /\ [Next]_vars => TurnInv'
<1> SUFFICES ASSUME TurnInv, [Next]_vars
             PROVE  TurnInv'
  OBVIOUS
<1> USE DEF config, staticVars, nodeVars, taskVars, linkVars, history
<1>0. TypeInv' /\ TypeOK
  BY NextTypeInv DEF TurnInv, TypeInv
<1>1. ASSUME NEW n \in Nodes, Publish(n)
      PROVE  TurnInv'
  BY <1>0, <1>1, TurnFrame DEF Publish
<1>2. ASSUME NEW t \in Tasks, Enter(t)
      PROVE  TurnInv'
  BY <1>0, <1>2, EnterTurn DEF TurnInv
<1>3. ASSUME NEW t \in Tasks, PublishInternalReturns(t)
      PROVE  TurnInv'
  <2>1. \A u \in Tasks : Busy(u)' <=> Busy(u)
    BY <1>0, <1>3 DEF PublishInternalReturns, Busy, TypeOK
  <2>2. TurnTaken'
    BY <1>0, <1>3, <2>1
       DEF PublishInternalReturns, TurnInv, TurnTaken, TypeOK
  <2>3. EventInUse'
    BY <1>3, <2>1
       DEF PublishInternalReturns, TurnInv, EventInUse, TaskPending, Acked
  <2> QED
    BY <1>0, <1>3, <2>2, <2>3
       DEF PublishInternalReturns, TurnInv, AssertHolds, CallsBounded
<1>4. ASSUME NEW t \in Tasks, PollPending(t)
      PROVE  TurnInv'
  <2>1. pc[t] \in {"sent", "polling"} /\ pw_state = "CONTINUATION_POINT"
    BY <1>4, PollsOwnMessage DEF PollPending
  <2>2. /\ \A u \in Tasks : Busy(u)' <=> Busy(u)
        /\ \A u \in Tasks : Busy(u) => u = t
        /\ Busy(t)
    BY <1>0, <1>4, <2>1 DEF PollPending, Busy, TypeOK, TurnInv, TurnTaken
  <2>3. calls[t] = timeout_count /\ timeout_count < timeout[t]
    BY <1>4, <2>2 DEF TurnInv, TurnTaken, PollPending, InTime
  <2>4. TurnTaken'
    <3>1. pc'[t] = "polling" /\ response'[t] = "PENDING" /\ timeout' = timeout
      BY <1>0, <1>4 DEF PollPending, TypeOK
    <3>2. /\ calls'[t] = timeout_count'
          /\ timeout_count' <= timeout'[t]
      BY <1>0, <1>4, <2>3 DEF PollPending, CountCall, TypeOK
    <3>3. pw_state' = "CONTINUATION_POINT"
      BY <1>4, <2>1 DEF PollPending
    <3> QED
      BY <2>2, <3>1, <3>2, <3>3 DEF TurnTaken
  <2>5. EventInUse'
    BY <1>4, <2>2 DEF PollPending, TurnInv, EventInUse, TaskPending, Acked
  <2>6. CallsBounded'
    BY <1>0, <1>4, <2>3
       DEF PollPending, CountCall, TurnInv, CallsBounded, TypeOK
  <2> QED
    BY <1>0, <1>4, <2>4, <2>5, <2>6 DEF PollPending, TurnInv, AssertHolds
<1>5. ASSUME NEW t \in Tasks, PollAcked(t) \/ PollTimesOut(t)
      PROVE  TurnInv'
  <2>1. PICK code \in Responses :
          Finish(t, code) /\ AtContinuation(t) /\ timeout' = timeout
    BY <1>5 DEF PollAcked, PollTimesOut, Responses
  <2>2. assertFailed' = assertFailed
    BY <1>5 DEF PollAcked, PollTimesOut
  <2> QED
    BY <1>0, <2>1, <2>2, FinishTurn DEF TurnInv, AssertHolds
<1>6. ASSUME NEW p \in toPeer, PeerReceives(p) \/ LosePublish(p)
      PROVE  TurnInv'
  BY <1>0, <1>6, TurnFrame DEF PeerReceives, LosePublish
<1>7. ASSUME NEW a \in fromPeer, GiveRxAck(a)
      PROVE  TurnInv'
  BY <1>0, <1>7, AckTurn
<1>8. ASSUME NEW a \in fromPeer, GiveRxUnexpectedAck(a) \/ LoseAck(a)
      PROVE  TurnInv'
  BY <1>0, <1>8, TurnFrame DEF GiveRxUnexpectedAck, LoseAck
<1>9. CASE UNCHANGED vars
  BY <1>0, <1>9, TurnFrame DEF vars
<1> QED
  BY <1>1, <1>2, <1>3, <1>4, <1>5, <1>6, <1>7, <1>8, <1>9 DEF Next, Poll

\* Tasks that check TaskPending() on one node are served one at a time.
THEOREM TurnInvAlways ==
  ASSUME OneAtATime
  PROVE  SafetySpec => []TurnInv
<1> QED
  BY InitTurnInv, NextTurnInv, PTL DEF SafetySpec

\* The assertion of PublishWait holds, with IDs reused at will.
THEOREM AssertAlwaysHolds ==
  ASSUME OneAtATime
  PROVE  SafetySpec => []AssertHolds
<1>1. TurnInv => AssertHolds
  BY DEF TurnInv
<1> QED
  BY <1>1, TurnInvAlways, PTL

\* TaskPending() tells whether a task has a message, and no two have one.
THEOREM TaskPendingIsExact ==
  ASSUME OneAtATime
  PROVE  SafetySpec => []TaskPendingExact
<1>1. TurnInv => TaskPendingExact
  BY DEF TurnInv, TurnTaken, EventInUse, TaskPendingExact, Busy
<1> QED
  BY <1>1, TurnInvAlways, PTL

\* A message is settled by the call after those allowed, at the latest.
THEOREM CallsAreBounded ==
  ASSUME OneAtATime
  PROVE  SafetySpec => []CallsBounded
<1>1. TurnInv => CallsBounded
  BY DEF TurnInv
<1> QED
  BY <1>1, TurnInvAlways, PTL

-----------------------------------------------------------------------------
(* The response                                                            *)

\* A packet counts as the one of a message exactly if the node of that task
\* waits for its ID.
LinkInv ==
  \A p \in toPeer \cup fromPeer :
    /\ p.owner # NoTask => /\ Busy(p.owner)
                           /\ p.node = NodeOf[p.owner]
                           /\ p.id = ackEvent[p.node].packetId
    /\ \A t \in Tasks :
         Busy(t) /\ p.node = NodeOf[t] /\ p.id = ackEvent[p.node].packetId
           => p.owner = t

\* A message is marked acknowledged exactly if its ACK was received, and the
\* call that follows the ACK settles it.
AckInv ==
  \A t \in Tasks :
    Busy(t) => /\ Acked(NodeOf[t]) <=> ackedAfter[t] # NotAcked
               /\ Acked(NodeOf[t]) => ackedAfter[t] = calls[t]

\* The third inductive invariant.
AnswerInv == TurnInv /\ LinkInv /\ AckInv /\ ResponseExact

\* Initially there are neither packets nor responses.
LEMMA InitAnswerInv == Init => AnswerInv
<1> SUFFICES ASSUME Init
             PROVE  AnswerInv
  OBVIOUS
<1>1. TurnInv
  BY InitTurnInv
<1>2. LinkInv /\ AckInv /\ ResponseExact
  BY DEF Init, LinkInv, AckInv, ResponseExact, Busy
<1> QED
  BY <1>1, <1>2 DEF AnswerInv

\* What the third invariant is about is left alone, the links get no packet
\* that is not on one of them.
LEMMA AnswerFrame ==
  ASSUME AnswerInv, TurnInv',
         UNCHANGED <<timeout, ackEvent, taskVars, calls, ackedAfter>>,
         toPeer' \cup fromPeer' \subseteq toPeer \cup fromPeer
  PROVE  AnswerInv'
  BY DEF AnswerInv, LinkInv, AckInv, ResponseExact, Busy, Acked, taskVars

\* A message is begun with an ID that is on no packet of its node.
LEMMA EnterAnswer ==
  ASSUME OneAtATime, FreshIds, AnswerInv, TurnInv', NEW t \in Tasks, Enter(t)
  PROVE  AnswerInv'
<1> DEFINE n == NodeOf[t]
           id == nextPacketId_[n]
           sent == [node |-> n, id |-> id, owner |-> t]
<1>0. /\ TypeOK
      /\ n \in Nodes
      /\ t # NoTask
      /\ \A u \in Tasks : pc[u] = "idle"
      /\ ~Acked(n)
      /\ \A p \in toPeer \cup fromPeer : p.node = n => p.id # id
  BY EnterAlone, NoRtosAssumption
     DEF AnswerInv, TurnInv, TypeInv, NoRtosAssumption, EventInUse, Enter,
         IdIsFresh
<1>1. /\ pc' = [pc EXCEPT ![t] = "sending"]
      /\ response' = [response EXCEPT ![t] = "UNKNOWN"]
      /\ calls' = [calls EXCEPT ![t] = 0]
      /\ ackedAfter' = [ackedAfter EXCEPT ![t] = NotAcked]
      /\ ackEvent' = [ackEvent EXCEPT ![n].packetId = id]
      /\ toPeer' \in {toPeer, toPeer \cup {sent}}
      /\ fromPeer' = fromPeer /\ timeout' = timeout
  BY DEF Enter, Record, config
<1>2. /\ ackEvent'[n].packetId = id
      /\ ackEvent'[n].state = ackEvent[n].state
  BY <1>0, <1>1 DEF TypeOK
<1>3. Busy(t)' /\ \A u \in Tasks \ {t} : ~Busy(u)'
  BY <1>0, <1>1 DEF Busy, TypeOK
<1>4. LinkInv'
  <2> SUFFICES ASSUME NEW p \in toPeer' \cup fromPeer'
               PROVE  /\ p.owner # NoTask => /\ Busy(p.owner)'
                                             /\ p.node = NodeOf[p.owner]
                                             /\ p.id = ackEvent'[p.node].packetId
                      /\ \A u \in Tasks :
                           Busy(u)' /\ p.node = NodeOf[u]
                             /\ p.id = ackEvent'[p.node].packetId
                             => p.owner = u
    BY DEF LinkInv
  <2>1. CASE p \in toPeer \cup fromPeer
    <3>1. p.owner = NoTask
      <4>1. p.owner \in Tasks \cup {NoTask}
        BY <1>0, <2>1 DEF TypeOK, Packets
      <4> QED
        BY <1>0, <2>1, <4>1 DEF AnswerInv, LinkInv, Busy
    <3> QED
      BY <1>0, <1>2, <1>3, <2>1, <3>1
  <2>2. CASE p \notin toPeer \cup fromPeer
    <3>1. p = sent
      BY <1>1, <2>2
    <3> QED
      BY <1>2, <1>3, <3>1
  <2> QED
    BY <2>1, <2>2
<1>5. AckInv'
  <2>1. ackedAfter'[t] = NotAcked /\ ~Acked(n)'
    BY <1>0, <1>1, <1>2 DEF Acked, TypeOK
  <2> QED
    BY <1>3, <2>1 DEF AckInv
<1>6. ResponseExact'
  BY <1>0, <1>1 DEF ResponseExact, AnswerInv, TypeOK
<1> QED
  BY <1>4, <1>5, <1>6 DEF AnswerInv

\* The response given at the end of a message is the right one.
LEMMA FinishAnswer ==
  ASSUME OneAtATime, AnswerInv, TurnInv', NEW t \in Tasks,
         PollAcked(t) \/ PollTimesOut(t)
  PROVE  AnswerInv'
<1>0. /\ TypeOK
      /\ pc[t] \in {"sent", "polling"}
      /\ Busy(t)
      /\ \A u \in Tasks : Busy(u) => u = t
      /\ calls[t] = timeout_count
      /\ timeout_count <= timeout[t]
  BY PollsOwnMessage
     DEF PollAcked, PollTimesOut, AnswerInv, TurnInv, TypeInv, TurnTaken, Busy
<1>1. PICK code \in Responses : Finish(t, code)
  BY DEF PollAcked, PollTimesOut, Responses
<1>2. \A u \in Tasks : ~Busy(u)'
  BY <1>0, <1>1 DEF Finish, Busy, TypeOK
<1>3. LinkInv'
  <2> SUFFICES ASSUME NEW q \in toPeer' \cup fromPeer'
               PROVE  q.owner = NoTask
    BY <1>2 DEF LinkInv
  <2>1. PICK p \in toPeer \cup fromPeer :
          q.owner = IF p.owner = t THEN NoTask ELSE p.owner
    BY <1>0, <1>1, DisownedPackets DEF Finish, TypeOK
  <2>2. p.owner \in Tasks \cup {NoTask}
    BY <1>0 DEF TypeOK, Packets
  <2> QED
    BY <1>0, <2>1, <2>2 DEF AnswerInv, LinkInv
<1>4. AckInv'
  BY <1>2 DEF AckInv
<1>5. ResponseExact'
  <2>1. /\ \A u \in Tasks \ {t} : pc'[u] = pc[u] /\ response'[u] = response[u]
        /\ response'[t] = code
        /\ ackedAfter' = ackedAfter /\ timeout' = timeout
    BY <1>0, <1>1 DEF Finish, PollAcked, PollTimesOut, TypeOK, config
  <2>2. /\ Acked(NodeOf[t]) <=> ackedAfter[t] # NotAcked
        /\ Acked(NodeOf[t]) => ackedAfter[t] = timeout_count
    BY <1>0 DEF AnswerInv, AckInv
  <2>3. timeout_count \in Nat /\ timeout[t] \in Nat
    BY <1>0, NoRtosAssumption DEF TypeOK, NoRtosAssumption
  <2>4. CASE PollAcked(t)
    <3>1. response'[t] = "SUCCESS"
      BY <1>0, <2>4 DEF PollAcked, Finish, TypeOK
    <3>2. ackedAfter[t] # NotAcked /\ ackedAfter[t] < timeout[t]
      BY <2>2, <2>4 DEF PollAcked, InTime
    <3> QED
      BY <2>1, <3>1, <3>2 DEF ResponseExact, AnswerInv
  <2>5. CASE PollTimesOut(t)
    <3>1. response'[t] = "TIMEOUT"
      BY <1>0, <2>5 DEF PollTimesOut, Finish, TypeOK
    <3>2. ~(ackedAfter[t] # NotAcked /\ ackedAfter[t] < timeout[t])
      BY <2>2, <2>3, <2>5 DEF PollTimesOut, InTime
    <3> QED
      BY <2>1, <3>1, <3>2 DEF ResponseExact, AnswerInv
  <2> QED
    BY <2>4, <2>5
<1> QED
  BY <1>3, <1>4, <1>5 DEF AnswerInv

\* The ACK a node waits for is that of the message of the one task that has one.
LEMMA AwaitedAckIsOwn ==
  ASSUME AnswerInv, NEW a \in fromPeer, IsAwaited(a)
  PROVE  /\ a.owner \in Tasks
         /\ Busy(a.owner)
         /\ a.node = NodeOf[a.owner]
<1>1. a.node \in Nodes /\ TaskPending(a.node)
  BY DEF AnswerInv, TurnInv, TypeInv, TypeOK, IdsValid, Packets, IsAwaited,
     TaskPending
<1>2. PICK t \in Tasks : Busy(t) /\ NodeOf[t] = a.node
  BY <1>1 DEF AnswerInv, TurnInv, EventInUse
<1>3. a.owner = t
  BY <1>2 DEF AnswerInv, LinkInv, IsAwaited
<1> QED
  BY <1>2, <1>3

\* ... and an ACK it does not wait for is of no message that is not settled.
LEMMA UnexpectedAckIsOld ==
  ASSUME AnswerInv, NEW a \in fromPeer, ~IsAwaited(a)
  PROVE  a.owner \notin Tasks
  BY NoRtosAssumption
     DEF AnswerInv, LinkInv, IsAwaited, NoRtosAssumption

\* Every step keeps the third invariant.
LEMMA NextAnswerInv ==
  ASSUME OneAtATime, FreshIds
  PROVE  AnswerInv /\ [Next]_vars => AnswerInv'
<1> SUFFICES ASSUME AnswerInv, [Next]_vars
             PROVE  AnswerInv'
  OBVIOUS
<1> USE DEF config, staticVars, nodeVars, taskVars, linkVars, history
<1>0. TurnInv' /\ TypeOK
  BY NextTurnInv DEF AnswerInv, TurnInv, TypeInv
<1>a. \A p \in toPeer \cup fromPeer : p.owner # NoTask => p.owner \in Tasks
  BY <1>0 DEF TypeOK, Packets
<1>1. ASSUME NEW n \in Nodes, Publish(n)
      PROVE  AnswerInv'
  BY <1>0, <1>1, AnswerFrame DEF Publish
<1>2. ASSUME NEW t \in Tasks, Enter(t)
      PROVE  AnswerInv'
  BY <1>0, <1>2, EnterAnswer
<1>3. ASSUME NEW t \in Tasks, PublishInternalReturns(t)
      PROVE  AnswerInv'
  <2>1. \A u \in Tasks : /\ Busy(u)' <=> Busy(u)
                         /\ pc'[u] = "idle" <=> pc[u] = "idle"
    BY <1>0, <1>3 DEF PublishInternalReturns, Busy, TypeOK
  <2>2. LinkInv' /\ AckInv' /\ ResponseExact'
    BY <1>a, <1>3, <2>1
       DEF PublishInternalReturns, AnswerInv, LinkInv, AckInv, ResponseExact, Acked
  <2> QED
    BY <1>0, <2>2 DEF AnswerInv
<1>4. ASSUME NEW t \in Tasks, PollPending(t)
      PROVE  AnswerInv'
  <2>1. pc[t] \in {"sent", "polling"} /\ ~Acked(NodeOf[t])
    BY <1>4, PollsOwnMessage DEF PollPending, AnswerInv
  <2>2. \A u \in Tasks : Busy(u)' <=> Busy(u)
    BY <1>0, <1>4, <2>1 DEF PollPending, Busy, TypeOK
  <2>3. \A u \in Tasks : Busy(u) => u = t
    BY <2>1 DEF AnswerInv, TurnInv, TurnTaken, Busy
  <2>4. LinkInv'
    BY <1>a, <1>4, <2>2 DEF PollPending, AnswerInv, LinkInv
  <2>5. AckInv'
    BY <1>4, <2>1, <2>2, <2>3 DEF PollPending, AnswerInv, AckInv, Acked
  <2>6. ResponseExact'
    <3>1. \A u \in Tasks \ {t} : pc'[u] = pc[u] /\ response'[u] = response[u]
      BY <1>0, <1>4 DEF PollPending, TypeOK
    <3>2. pc'[t] # "idle"
      BY <1>0, <1>4 DEF PollPending, TypeOK
    <3> QED
      BY <1>4, <3>1, <3>2 DEF PollPending, AnswerInv, ResponseExact
  <2> QED
    BY <1>0, <2>4, <2>5, <2>6 DEF AnswerInv
<1>5. ASSUME NEW t \in Tasks, PollAcked(t) \/ PollTimesOut(t)
      PROVE  AnswerInv'
  BY <1>0, <1>5, FinishAnswer
<1>6. ASSUME NEW p \in toPeer, PeerReceives(p) \/ LosePublish(p)
      PROVE  AnswerInv'
  <2>1. toPeer' \cup fromPeer' \subseteq toPeer \cup fromPeer
    BY <1>6 DEF PeerReceives, LosePublish
  <2> QED
    BY <1>0, <1>6, <2>1, AnswerFrame DEF PeerReceives, LosePublish
<1>7. ASSUME NEW a \in fromPeer, GiveRxAck(a)
      PROVE  AnswerInv'
  <2>1. /\ a.owner \in Tasks /\ Busy(a.owner) /\ a.node = NodeOf[a.owner]
        /\ a.node \in Nodes
        /\ \A u \in Tasks : Busy(u) => u = a.owner
    BY <1>0, <1>7, AwaitedAckIsOwn
       DEF GiveRxAck, AnswerInv, TurnInv, TurnTaken, TypeOK, Packets
  <2>2. ackEvent' = [ackEvent EXCEPT ![a.node].state = "ACK"]
    BY <1>7 DEF GiveRxAck
  <2>3. /\ \A n \in Nodes : ackEvent'[n].packetId = ackEvent[n].packetId
        /\ Acked(a.node)'
    BY <1>0, <2>1, <2>2 DEF TypeOK, Acked
  <2>4. /\ toPeer' \cup fromPeer' \subseteq toPeer \cup fromPeer
        /\ pc' = pc /\ response' = response /\ calls' = calls /\ timeout' = timeout
    BY <1>7 DEF GiveRxAck
  <2>5. \A u \in Tasks :
          ackedAfter'[u] = IF u = a.owner /\ ackedAfter[u] = NotAcked
                           THEN calls[u] ELSE ackedAfter[u]
    BY <1>7 DEF GiveRxAck, Witness
  <2>6. LinkInv'
    <3>1. \A p \in toPeer \cup fromPeer : p.node \in Nodes
      BY <1>0 DEF TypeOK, Packets
    <3> QED
      BY <2>3, <2>4, <3>1 DEF AnswerInv, LinkInv, Busy
  <2>7. AckInv'
    <3>1. calls[a.owner] # NotAcked
      BY <1>0, <2>1 DEF TypeOK, NotAcked
    <3>2. ackedAfter'[a.owner] = calls[a.owner]
      BY <2>1, <2>5 DEF AnswerInv, AckInv
    <3> QED
      BY <2>1, <2>3, <2>4, <3>1, <3>2 DEF AckInv, Busy
  <2>8. ResponseExact'
    BY <2>1, <2>4, <2>5 DEF AnswerInv, ResponseExact, Busy
  <2> QED
    BY <1>0, <2>6, <2>7, <2>8 DEF AnswerInv
<1>8. ASSUME NEW a \in fromPeer, GiveRxUnexpectedAck(a) \/ LoseAck(a)
      PROVE  AnswerInv'
  <2>1. ackedAfter' = ackedAfter
    <3>1. CASE GiveRxUnexpectedAck(a)
      <4>1. a.owner \notin Tasks
        BY <3>1, UnexpectedAckIsOld DEF GiveRxUnexpectedAck
      <4> QED
        BY <1>0, <3>1, <4>1 DEF GiveRxUnexpectedAck, Witness, TypeOK
    <3>2. CASE LoseAck(a)
      BY <3>2 DEF LoseAck
    <3> QED
      BY <1>8, <3>1, <3>2
  <2>2. toPeer' \cup fromPeer' \subseteq toPeer \cup fromPeer
    BY <1>8 DEF GiveRxUnexpectedAck, LoseAck
  <2> QED
    BY <1>0, <1>8, <2>1, <2>2, AnswerFrame DEF GiveRxUnexpectedAck, LoseAck
<1>9. CASE UNCHANGED vars
  BY <1>0, <1>9, AnswerFrame DEF vars
<1> QED
  BY <1>1, <1>2, <1>3, <1>4, <1>5, <1>6, <1>7, <1>8, <1>9 DEF Next, Poll

\* The third inductive invariant holds in every behaviour with fresh IDs.
THEOREM AnswerInvAlways ==
  ASSUME OneAtATime, FreshIds
  PROVE  SafetySpec => []AnswerInv
<1> QED
  BY InitAnswerInv, NextAnswerInv, PTL DEF SafetySpec

\* SUCCESS if and only if the ACK of the message itself came in time.
THEOREM ResponseIsExact ==
  ASSUME OneAtATime, FreshIds
  PROVE  SafetySpec => []ResponseExact
<1>1. AnswerInv => ResponseExact
  BY DEF AnswerInv
<1> QED
  BY <1>1, AnswerInvAlways, PTL

-----------------------------------------------------------------------------
(* The refinement of AckedPublish                                          *)

AbstractResponse(t) == IF response[t] = "PENDING" THEN "UNKNOWN" ELSE response[t]

BusyTasks == {t \in Tasks : pc[t] # "idle"}

\* What a message in each position is to the abstract specification.
LEMMA AbstractCallCases ==
  ASSUME TypeOK, NEW t \in Tasks
  PROVE  /\ pc[t] = "idle" => AbstractCall(t) = "idle"
         /\ pc[t] = "sending" =>
              AbstractCall(t) = IF Acked(NodeOf[t]) THEN "acked" ELSE "waiting"
         /\ pc[t] \in {"sent", "polling"} /\ InTime(t) =>
              AbstractCall(t) = IF Acked(NodeOf[t]) THEN "acked" ELSE "waiting"
         /\ pc[t] \in {"sent", "polling"} /\ ~InTime(t) =>
              AbstractCall(t) = "expired"
  BY DEF AbstractCall, TypeOK, Pcs

\* A step that changes the message of one task shows as a new value of call.
LEMMA OneCallChanges ==
  ASSUME NEW t \in Tasks, NEW v, AbstractCall(t)' = v,
         \A u \in Tasks \ {t} : AbstractCall(u)' = AbstractCall(u)
  PROVE  [u \in Tasks |-> AbstractCall(u)]'
           = [[u \in Tasks |-> AbstractCall(u)] EXCEPT ![t] = v]
OBVIOUS

\* Likewise with the responses.
LEMMA OneResponseChanges ==
  ASSUME NEW t \in Tasks, NEW v, AbstractResponse(t)' = v,
         \A u \in Tasks \ {t} : response'[u] = response[u]
  PROVE  [u \in Tasks |-> AbstractResponse(u)]'
           = [[u \in Tasks |-> AbstractResponse(u)] EXCEPT ![t] = v]
BY DEF AbstractResponse

\* A step that keeps every message where it is to the abstract specification,
\* and the responses, is invisible to it.
LEMMA Invisible ==
  ASSUME BusyTasks' = BusyTasks,
         \A t \in Tasks : AbstractCall(t)' = AbstractCall(t),
         \A t \in Tasks : AbstractResponse(t)' = AbstractResponse(t)
  PROVE  UNCHANGED Abstract!vars
BY DEF Abstract!vars, AbstractResponse, BusyTasks

\* The messages that are not settled are counted.
LEMMA CountBusy ==
  ASSUME NEW t \in Tasks, BusyTasks \subseteq {t}
  PROVE  Cardinality(BusyTasks) = IF Busy(t) THEN 1 ELSE 0
<1>1. CASE Busy(t)
  <2>1. BusyTasks = {t}
    BY <1>1 DEF BusyTasks, Busy
  <2> QED
    BY <1>1, <2>1, FS_Singleton
<1>2. CASE ~Busy(t)
  <2>1. BusyTasks = {}
    BY <1>2 DEF BusyTasks, Busy
  <2> QED
    BY <1>2, <2>1, FS_EmptySet
<1> QED
  BY <1>1, <1>2

\* A step that may end the time allowed for one message.
LEMMA ExpiresOrNot ==
  ASSUME TypeOK, TypeOK', NEW t \in Tasks,
         pc[t] # "idle",
         pc'[t] \in {"sent", "polling"},
         \/ pc[t] = "sending"
         \/ pc[t] \in {"sent", "polling"} /\ InTime(t),
         \A u \in Tasks \ {t} : pc[u] = "idle" /\ pc'[u] = "idle",
         \A u \in Tasks : AbstractResponse(u)' = AbstractResponse(u),
         ackEvent' = ackEvent
  PROVE  Abstract!Expire(t) \/ UNCHANGED Abstract!vars
<1>1. \A u \in Tasks \ {t} : AbstractCall(u)' = AbstractCall(u)
  BY DEF AbstractCall
<1>2. BusyTasks' = BusyTasks
  BY DEF BusyTasks
<1>3. AbstractCall(t) = IF Acked(NodeOf[t]) THEN "acked" ELSE "waiting"
  BY AbstractCallCases
<1>4. CASE InTime(t)'
  <2>1. AbstractCall(t)' = AbstractCall(t)
    BY <1>3, <1>4 DEF AbstractCall, Acked
  <2> QED
    BY <1>1, <1>2, <2>1, Invisible
<1>5. CASE ~InTime(t)'
  <2>1. AbstractCall(t)' = "expired"
    BY <1>5 DEF AbstractCall
  <2>2. [u \in Tasks |-> AbstractCall(u)]'
          = [[u \in Tasks |-> AbstractCall(u)] EXCEPT ![t] = "expired"]
    BY <1>1, <2>1, OneCallChanges
  <2>3. [u \in Tasks |-> AbstractResponse(u)]' = [u \in Tasks |-> AbstractResponse(u)]
    OBVIOUS
  <2> QED
    BY <1>2, <1>3, <2>2, <2>3
       DEF Abstract!Expire, AbstractResponse, BusyTasks
<1> QED
  BY <1>4, <1>5

\* Every step is a step of the abstract specification or invisible to it.
LEMMA StepSimulation ==
  ASSUME OneAtATime, TurnInv, TurnInv', [Next]_vars
  PROVE  [Abstract!Next]_(Abstract!vars)
<1> USE DEF config, staticVars, nodeVars, taskVars, linkVars, history
<1>0. TypeOK /\ TypeOK'
  BY DEF TurnInv, TypeInv
<1>1. ASSUME NEW n \in Nodes, Publish(n)
      PROVE  UNCHANGED Abstract!vars
  BY <1>1, Invisible
     DEF Publish, AbstractCall, AbstractResponse, BusyTasks, InTime, Acked
<1>2. ASSUME NEW t \in Tasks, Enter(t)
      PROVE  Abstract!Begin(t)
  <2>1. /\ \A u \in Tasks : pc[u] = "idle"
        /\ ~TaskPending(NodeOf[t])
        /\ ~Acked(NodeOf[t])
        /\ NodeOf[t] \in Nodes
    BY <1>2, EnterAlone, NoRtosAssumption
       DEF TurnInv, EventInUse, NoRtosAssumption
  <2>2. /\ pc' = [pc EXCEPT ![t] = "sending"]
        /\ response' = [response EXCEPT ![t] = "UNKNOWN"]
        /\ ackEvent' = [ackEvent EXCEPT ![NodeOf[t]].packetId =
                                           nextPacketId_[NodeOf[t]]]
    BY <1>2 DEF Enter, Record
  <2>3. AbstractCall(t) = "idle"
    BY <1>0, <2>1, AbstractCallCases
  <2>4. AbstractCall(t)' = "waiting"
    <3>1. ~Acked(NodeOf[t])' /\ pc'[t] = "sending"
      BY <1>0, <2>1, <2>2 DEF Acked, TypeOK
    <3> QED
      BY <3>1 DEF AbstractCall
  <2>5. \A u \in Tasks \ {t} : AbstractCall(u)' = AbstractCall(u)
    BY <1>0, <2>1, <2>2 DEF AbstractCall, TypeOK
  <2>6. [u \in Tasks |-> AbstractCall(u)]'
          = [[u \in Tasks |-> AbstractCall(u)] EXCEPT ![t] = "waiting"]
    BY <2>4, <2>5, OneCallChanges
  <2>7. [u \in Tasks |-> AbstractResponse(u)]'
          = [[u \in Tasks |-> AbstractResponse(u)] EXCEPT ![t] = "UNKNOWN"]
    <3>1. /\ AbstractResponse(t)' = "UNKNOWN"
          /\ \A u \in Tasks \ {t} : response'[u] = response[u]
      BY <1>0, <2>2 DEF AbstractResponse, TypeOK
    <3> QED
      BY <3>1, OneResponseChanges
  <2>8. Cardinality(BusyTasks) = 0 /\ Cardinality(BusyTasks') = 1
    <3>1. BusyTasks = {} /\ BusyTasks' = {t}
      BY <1>0, <2>1, <2>2 DEF BusyTasks, TypeOK
    <3> QED
      BY <3>1, FS_EmptySet, FS_Singleton
  <2> QED
    BY <2>3, <2>6, <2>7, <2>8
       DEF Abstract!Begin, AbstractResponse, BusyTasks
<1>3. ASSUME NEW t \in Tasks, PublishInternalReturns(t)
      PROVE  Abstract!Expire(t) \/ UNCHANGED Abstract!vars
  <2>1. pc[t] = "sending" /\ pc' = [pc EXCEPT ![t] = "sent"]
    BY <1>3 DEF PublishInternalReturns
  <2>2. \A u \in Tasks \ {t} : pc[u] = "idle" /\ pc'[u] = "idle"
    BY <1>0, <2>1 DEF TurnInv, TurnTaken, Busy, TypeOK
  <2>3. pc'[t] = "sent"
    BY <1>0, <2>1 DEF TypeOK
  <2> QED
    BY <1>0, <1>3, <2>1, <2>2, <2>3, ExpiresOrNot
       DEF PublishInternalReturns, AbstractResponse
<1>4. ASSUME NEW t \in Tasks, PollPending(t)
      PROVE  Abstract!Expire(t) \/ UNCHANGED Abstract!vars
  <2>1. pc[t] \in {"sent", "polling"}
    BY <1>4, PollsOwnMessage DEF PollPending
  <2>2. /\ pc' = [pc EXCEPT ![t] = "polling"]
        /\ response' = [response EXCEPT ![t] = "PENDING"]
        /\ InTime(t)
        /\ ackEvent' = ackEvent
    BY <1>4 DEF PollPending
  <2>3. \A u \in Tasks \ {t} : pc[u] = "idle" /\ pc'[u] = "idle"
    BY <1>0, <2>1, <2>2 DEF TurnInv, TurnTaken, Busy, TypeOK
  <2>4. response[t] \in {"UNKNOWN", "PENDING"}
    BY <2>1 DEF TurnInv, TurnTaken, Busy
  <2>5. \A u \in Tasks : AbstractResponse(u)' = AbstractResponse(u)
    BY <1>0, <2>2, <2>4 DEF AbstractResponse, TypeOK
  <2>6. pc'[t] = "polling"
    BY <1>0, <2>2 DEF TypeOK
  <2> QED
    BY <1>0, <2>1, <2>2, <2>3, <2>5, <2>6, ExpiresOrNot
<1>5. ASSUME NEW t \in Tasks, PollAcked(t) \/ PollTimesOut(t)
      PROVE  Abstract!Finish(t)
  <2>1. pc[t] \in {"sent", "polling"}
    BY <1>5, PollsOwnMessage DEF PollAcked, PollTimesOut
  <2>2. PICK code \in {"SUCCESS", "TIMEOUT"} :
          /\ Finish(t, code)
          /\ code = "SUCCESS" <=> InTime(t)
          /\ InTime(t) => Acked(NodeOf[t])
    BY <1>5 DEF PollAcked, PollTimesOut
  <2>3. AbstractCall(t) = IF InTime(t) THEN "acked" ELSE "expired"
    BY <1>0, <2>1, <2>2, AbstractCallCases
  <2>4. /\ pc' = [pc EXCEPT ![t] = "idle"]
        /\ response' = [response EXCEPT ![t] = code]
    BY <2>2 DEF Finish
  <2>5. \A u \in Tasks : pc'[u] = "idle" /\ (u # t => pc[u] = "idle")
    BY <1>0, <2>1, <2>4 DEF TurnInv, TurnTaken, Busy, TypeOK
  <2>6. [u \in Tasks |-> AbstractCall(u)]'
          = [[u \in Tasks |-> AbstractCall(u)] EXCEPT ![t] = "idle"]
    <3>1. /\ AbstractCall(t)' = "idle"
          /\ \A u \in Tasks \ {t} : AbstractCall(u)' = AbstractCall(u)
      BY <2>5 DEF AbstractCall
    <3> QED
      BY <3>1, OneCallChanges
  <2>7. [u \in Tasks |-> AbstractResponse(u)]'
          = [[u \in Tasks |-> AbstractResponse(u)] EXCEPT ![t] = code]
    <3>1. /\ AbstractResponse(t)' = code
          /\ \A u \in Tasks \ {t} : response'[u] = response[u]
      BY <1>0, <2>4 DEF AbstractResponse, TypeOK
    <3> QED
      BY <3>1, OneResponseChanges
  <2>8. Cardinality(BusyTasks) = 1 /\ Cardinality(BusyTasks') = 0
    <3>1. BusyTasks = {t} /\ BusyTasks' = {}
      BY <2>1, <2>5 DEF BusyTasks
    <3> QED
      BY <3>1, FS_EmptySet, FS_Singleton
  <2>9. /\ AbstractCall(t) \in {"acked", "expired"}
        /\ code = IF AbstractCall(t) = "acked" THEN "SUCCESS" ELSE "TIMEOUT"
    BY <2>2, <2>3
  <2>10. Cardinality(BusyTasks') = Cardinality(BusyTasks) - 1
    BY <2>8
  <2> QED
    BY <2>6, <2>7, <2>9, <2>10
       DEF Abstract!Finish, AbstractResponse, BusyTasks
<1>6. ASSUME NEW p \in toPeer, PeerReceives(p) \/ LosePublish(p)
      PROVE  UNCHANGED Abstract!vars
  BY <1>6, Invisible
     DEF PeerReceives, LosePublish, AbstractCall, AbstractResponse, BusyTasks,
         InTime, Acked
<1>7. ASSUME NEW a \in fromPeer, GiveRxAck(a)
      PROVE  \/ \E t \in Tasks : Abstract!Acknowledge(t)
             \/ UNCHANGED Abstract!vars
  <2>1. a.node \in Nodes /\ TaskPending(a.node)
    BY <1>7 DEF TurnInv, TypeInv, TypeOK, IdsValid, Packets, GiveRxAck,
       IsAwaited, TaskPending
  <2>2. PICK t \in Tasks : Busy(t) /\ NodeOf[t] = a.node
    BY <2>1 DEF TurnInv, EventInUse
  <2>3. \A u \in Tasks \ {t} : pc[u] = "idle"
    BY <2>2 DEF TurnInv, TurnTaken, Busy
  <2>4. /\ pc' = pc /\ response' = response /\ timeout' = timeout
        /\ timeout_count' = timeout_count
        /\ ackEvent' = [ackEvent EXCEPT ![a.node].state = "ACK"]
    BY <1>7 DEF GiveRxAck
  <2>5. Acked(NodeOf[t])'
    BY <1>0, <2>1, <2>2, <2>4 DEF Acked, TypeOK
  <2>6. /\ \A u \in Tasks \ {t} : AbstractCall(u)' = AbstractCall(u)
        /\ BusyTasks' = BusyTasks
        /\ \A u \in Tasks : AbstractResponse(u)' = AbstractResponse(u)
    BY <2>3, <2>4 DEF AbstractCall, AbstractResponse, BusyTasks
  <2>7. CASE AbstractCall(t) = "waiting"
    <3>0. \/ pc[t] = "sending"
          \/ pc[t] \in {"sent", "polling"} /\ InTime(t)
      BY <1>0, <2>2, <2>7, AbstractCallCases DEF Busy, TypeOK, Pcs
    <3>1. AbstractCall(t)' = "acked"
      BY <2>4, <2>5, <3>0 DEF AbstractCall, InTime
    <3>2. [u \in Tasks |-> AbstractCall(u)]'
            = [[u \in Tasks |-> AbstractCall(u)] EXCEPT ![t] = "acked"]
      BY <2>6, <3>1, OneCallChanges
    <3>3. [u \in Tasks |-> AbstractResponse(u)]'
            = [u \in Tasks |-> AbstractResponse(u)]
      BY <2>6
    <3> QED
      BY <2>6, <2>7, <3>2, <3>3
         DEF Abstract!Acknowledge, AbstractResponse, BusyTasks
  <2>8. CASE AbstractCall(t) # "waiting"
    <3>1. AbstractCall(t)' = AbstractCall(t)
      BY <1>0, <2>2, <2>4, <2>5, <2>8, AbstractCallCases
         DEF AbstractCall, InTime, Busy, TypeOK, Pcs
    <3> QED
      BY <2>6, <3>1, Invisible
  <2> QED
    BY <2>7, <2>8
<1>8. ASSUME NEW a \in fromPeer, GiveRxUnexpectedAck(a) \/ LoseAck(a)
      PROVE  UNCHANGED Abstract!vars
  BY <1>8, Invisible
     DEF GiveRxUnexpectedAck, LoseAck, AbstractCall, AbstractResponse, BusyTasks,
         InTime, Acked
<1>9. CASE UNCHANGED vars
  BY <1>9, Invisible
     DEF vars, AbstractCall, AbstractResponse, BusyTasks, InTime, Acked
<1> QED
  BY <1>1, <1>2, <1>3, <1>4, <1>5, <1>6, <1>7, <1>8, <1>9
     DEF Next, Poll, Abstract!Next

\* The build without an RTOS implements acknowledged publishing of one message
\* at a time, as far as safety goes, with IDs reused at will.
THEOREM SafetyRefinement ==
  ASSUME OneAtATime
  PROVE  SafetySpec => ImplementsAckedPublishSafety
<1>1. Init => Abstract!Init
  <2> SUFFICES ASSUME Init
               PROVE  Abstract!Init
    OBVIOUS
  <2>1. BusyTasks = {}
    BY DEF Init, BusyTasks
  <2>2. Cardinality(BusyTasks) = 0
    BY <2>1, FS_EmptySet
  <2> QED
    BY <2>2 DEF Init, Abstract!Init, AbstractCall, BusyTasks
<1>2. TurnInv /\ TurnInv' /\ [Next]_vars => [Abstract!Next]_(Abstract!vars)
  BY StepSimulation
<1> QED
  BY <1>1, <1>2, TurnInvAlways, PTL
     DEF SafetySpec, ImplementsAckedPublishSafety, Abstract!SafetySpec
=============================================================================
