------------------------------- MODULE NoRtos -------------------------------
(***************************************************************************)
(* Acknowledged publishing in the build without an RTOS                    *)
(* (src/EmbeddedSerialFiller_NoRTOS.cpp).  PublishWait does not block: its *)
(* first call publishes and the following ones look for the ACK, until     *)
(* there is one or the number of calls the caller allowed is used up.      *)
(* Where a call goes on is kept in static variables of the function.       *)
(*                                                                         *)
(* One thread runs it all: tasks of an application that is a loop call     *)
(* PublishWait again and again, and GiveRxData between those calls.  Only  *)
(* txDataReady_ is called in the middle of PublishWait, and what it calls  *)
(* may call the API again: it may give the data to the receiving node at   *)
(* once, whose ACK then arrives before PublishInternal has returned.       *)
(*                                                                         *)
(* Link and peer are those of module PublishWait: packets may be lost,     *)
(* delayed, reordered and duplicated.                                      *)
(***************************************************************************)
EXTENDS Integers, FiniteSets

CONSTANTS
  Nodes,              \* the instances of EmbeddedSerialFiller in the program
  Tasks,              \* the tasks that call PublishWait
  NoTask,             \* a value that is no task
  NodeOf,             \* NodeOf[t]: the node task t publishes on
  IdMax,              \* the largest packet ID: 255, IDs are uint8_t
  MaxTimeout,         \* bound: the largest timeout a task passes
  TxOptions,          \* may the application have set txDataReady_, or not
  ChecksTaskPending,  \* does a task publish only while TaskPending() is false
  FreshIds            \* assume that an ID is not reused while a packet on the
                      \* link still carries it (the code cannot tell)

ASSUME NoRtosAssumption ==
  /\ NoTask \notin Tasks
  /\ NodeOf \in [Tasks -> Nodes]
  /\ IdMax \in Nat \ {0}
  /\ MaxTimeout \in Nat
  /\ TxOptions \subseteq BOOLEAN
  /\ ChecksTaskPending \in BOOLEAN
  /\ FreshIds \in BOOLEAN

VARIABLES
  txDataReady_,    \* has the application set it; never changes
  timeout,         \* timeout[t]: what task t passes as timeout; never changes
  pw_state,        \* static variable of PublishWait: where a call goes on
  timeout_count,   \* static variable of PublishWait: the calls counted so far
  nextPacketId_,   \* nextPacketId_[n]: the ID of the next packet node n sends
  ackEvent,        \* ackEvent[n]: the ACK node n waits for, if any
  pc,              \* pc[t]: where task t is with its message
  response,        \* response[t]: what its last call returned
  toPeer,          \* PUBLISH packets on the links
  fromPeer,        \* ACK packets on the links
  calls,           \* history: the calls task t has made for this message
  ackedAfter,      \* history: how many of them had returned when the ACK of
                   \* this message was received, or NotAcked
  assertFailed     \* history: has the assertion of PublishWait failed

config == <<txDataReady_, timeout>>
staticVars == <<pw_state, timeout_count>>
nodeVars == <<nextPacketId_, ackEvent>>
taskVars == <<pc, response>>
linkVars == <<toPeer, fromPeer>>
history == <<calls, ackedAfter, assertFailed>>
vars == <<config, staticVars, nodeVars, taskVars, linkVars, history>>

-----------------------------------------------------------------------------
(* Values                                                                  *)

Ids == 0 .. IdMax   \* uint8_t

\* A packet of a link: its node, its ID and, as history, the task whose
\* message it carries or acknowledges, or NoTask once that is settled.
Packets == [node : Nodes, id : Ids, owner : Tasks \cup {NoTask}]

AckStates == {"NO_ACK", "ACK"}

Pcs == {"idle",     \* has no message
        "sending",  \* in its first call, in PublishInternal
        "sent",     \* in its first call, behind PublishInternal
        "polling"}  \* its calls so far have returned PENDING

Responses == {"UNKNOWN", "SUCCESS", "PENDING", "TIMEOUT"}

NotAcked == -1

TypeOK ==
  /\ txDataReady_ \in TxOptions
  /\ timeout \in [Tasks -> 0 .. MaxTimeout]
  /\ pw_state \in {"ENTRY_POINT", "CONTINUATION_POINT"}
  /\ timeout_count \in 0 .. MaxTimeout
  /\ nextPacketId_ \in [Nodes -> Ids]
  /\ ackEvent \in [Nodes -> [packetId : Ids, state : AckStates]]
  /\ pc \in [Tasks -> Pcs]
  /\ response \in [Tasks -> Responses]
  /\ toPeer \in SUBSET Packets
  /\ fromPeer \in SUBSET Packets
  /\ calls \in [Tasks -> Nat]
  /\ ackedAfter \in [Tasks -> Nat \cup {NotAcked}]
  /\ assertFailed \in BOOLEAN

Init ==
  /\ txDataReady_ \in TxOptions
  /\ timeout \in [Tasks -> 0 .. MaxTimeout]
  /\ pw_state = "ENTRY_POINT"
  /\ timeout_count = 0
  /\ nextPacketId_ = [n \in Nodes |-> 1]
  /\ ackEvent = [n \in Nodes |-> [packetId |-> 0, state |-> "NO_ACK"]]
  /\ pc = [t \in Tasks |-> "idle"]
  /\ response = [t \in Tasks |-> "UNKNOWN"]
  /\ toPeer = {}
  /\ fromPeer = {}
  /\ calls = [t \in Tasks |-> 0]
  /\ ackedAfter = [t \in Tasks |-> NotAcked]
  /\ assertFailed = FALSE

-----------------------------------------------------------------------------
(* PublishInternal and Publish                                             *)

\* Mutant: the counter is wider than a uint8_t.
Increment_NoWrap(id) == id + 1

\* ++packetId on a uint8_t, and once more when that gives the invalid ID 0.
Increment(id) ==
  LET next == (id + 1) % (IdMax + 1)
  IN  IF next = 0 THEN 1 ELSE next

\* PublishWait is past PublishInternal: from there on it calls nobody.
FallingThrough == \E t \in Tasks : pc[t] = "sent"

IdIsFresh(n, id) == \A p \in toPeer \cup fromPeer : p.node = n => p.id # id

\* Publish: a BROADCAST uses up an ID if it was handed to txDataReady_.  Any
\* task may call it at any time, and so may a callback while PublishWait is in
\* txDataReady_: the packet then has the ID of the one being sent.
Publish(n) ==
  /\ txDataReady_
  /\ ~FallingThrough
  /\ nextPacketId_' = [nextPacketId_ EXCEPT ![n] = Increment(@)]
  /\ UNCHANGED <<config, staticVars, ackEvent, taskVars, linkVars, history>>

-----------------------------------------------------------------------------
(* PublishWait, first call                                                 *)

TaskPending(n) == ackEvent[n].packetId # 0

\* The thread is in the first call of PublishWait of some task.
InFirstCall == \E t \in Tasks : pc[t] \in {"sending", "sent"}

\* A task calls PublishWait for a new message, or again for its last one.
MayCall(t) ==
  /\ ~InFirstCall
  /\ \/ pc[t] = "polling"
     \/ pc[t] = "idle" /\ (ChecksTaskPending => ~TaskPending(NodeOf[t]))

\* Mutant: the ID is not recorded.
Record_Missing(n, id) == n \in Nodes /\ id \in Ids /\ UNCHANGED ackEvent

\* The ID of the packet is that of the ACK the node waits for.
Record(n, id) == ackEvent' = [ackEvent EXCEPT ![n].packetId = id]

\* ENTRY_POINT, and PublishInternal up to txDataReady_.  A failed assertion is
\* recorded, and the program goes on as it does with NDEBUG.
Enter(t) ==
  LET n == NodeOf[t]
      id == nextPacketId_[n]
  IN  /\ pw_state = "ENTRY_POINT"
      /\ MayCall(t)
      /\ FreshIds => IdIsFresh(n, id)
      /\ timeout_count' = 0
      /\ assertFailed' = (assertFailed \/ TaskPending(n))
      /\ Record(n, id)
      /\ toPeer' = IF txDataReady_
                   THEN toPeer \cup {[node |-> n, id |-> id, owner |-> t]}
                   ELSE toPeer
      /\ pc' = [pc EXCEPT ![t] = "sending"]
      /\ response' = [response EXCEPT ![t] = "UNKNOWN"]
      /\ calls' = [calls EXCEPT ![t] = 0]
      /\ ackedAfter' = [ackedAfter EXCEPT ![t] = NotAcked]
      /\ UNCHANGED <<config, pw_state, nextPacketId_, fromPeer>>

\* Mutant: the next call starts from the beginning.
PublishInternalReturns_NoState(t) ==
  /\ pc[t] = "sending"
  /\ nextPacketId_' = IF txDataReady_
                      THEN [nextPacketId_ EXCEPT ![NodeOf[t]] = Increment(@)]
                      ELSE nextPacketId_
  /\ pc' = [pc EXCEPT ![t] = "sent"]
  /\ UNCHANGED <<config, staticVars, ackEvent, response, linkVars, history>>

\* PublishInternal returns, the ID used up if txDataReady_ was called; on with
\* CONTINUATION_POINT.
PublishInternalReturns(t) ==
  /\ pc[t] = "sending"
  /\ nextPacketId_' = IF txDataReady_
                      THEN [nextPacketId_ EXCEPT ![NodeOf[t]] = Increment(@)]
                      ELSE nextPacketId_
  /\ pw_state' = "CONTINUATION_POINT"
  /\ pc' = [pc EXCEPT ![t] = "sent"]
  /\ UNCHANGED <<config, timeout_count, ackEvent, response, linkVars, history>>

-----------------------------------------------------------------------------
(* PublishWait, first call from CONTINUATION_POINT on and later calls      *)

\* The first call falls through to CONTINUATION_POINT, later ones begin there.
AtContinuation(t) ==
  \/ pc[t] = "sent"
  \/ pw_state = "CONTINUATION_POINT" /\ MayCall(t)

InTime(t) == timeout_count < timeout[t]

Acked(n) == ackEvent[n].state = "ACK"

CountCall(t) == calls' = [calls EXCEPT ![t] = @ + 1]

\* Mutant: the call is not counted.
PollPending_NotCounted(t) ==
  /\ AtContinuation(t)
  /\ InTime(t) /\ ~Acked(NodeOf[t])
  /\ pc' = [pc EXCEPT ![t] = "polling"]
  /\ response' = [response EXCEPT ![t] = "PENDING"]
  /\ UNCHANGED <<config, staticVars, nodeVars, linkVars, history>>

\* Awaiting the ACK.
PollPending(t) ==
  /\ AtContinuation(t)
  /\ InTime(t) /\ ~Acked(NodeOf[t])
  /\ timeout_count' = timeout_count + 1
  /\ pc' = [pc EXCEPT ![t] = "polling"]
  /\ response' = [response EXCEPT ![t] = "PENDING"]
  /\ CountCall(t)
  /\ UNCHANGED <<config, pw_state, nodeVars, linkVars, ackedAfter, assertFailed>>

\* Packets on the link stop counting as t's once its message is settled.
Disowned(packets, t) ==
  {IF p.owner = t THEN [p EXCEPT !.owner = NoTask] ELSE p : p \in packets}

\* Mutant: the state of the event is left as it is.
Finish_KeepsState(t, code) ==
  /\ ackEvent' = [ackEvent EXCEPT ![NodeOf[t]].packetId = 0]
  /\ pw_state' = "ENTRY_POINT"
  /\ pc' = [pc EXCEPT ![t] = "idle"]
  /\ response' = [response EXCEPT ![t] = code]
  /\ toPeer' = Disowned(toPeer, t)
  /\ fromPeer' = Disowned(fromPeer, t)
  /\ CountCall(t)

\* Reset the event and the state of the function.
Finish(t, code) ==
  /\ ackEvent' = [ackEvent EXCEPT ![NodeOf[t]] = [packetId |-> 0,
                                                  state |-> "NO_ACK"]]
  /\ pw_state' = "ENTRY_POINT"
  /\ pc' = [pc EXCEPT ![t] = "idle"]
  /\ response' = [response EXCEPT ![t] = code]
  /\ toPeer' = Disowned(toPeer, t)
  /\ fromPeer' = Disowned(fromPeer, t)
  /\ CountCall(t)

PollAcked(t) ==
  /\ AtContinuation(t)
  /\ InTime(t) /\ Acked(NodeOf[t])
  /\ timeout_count' = timeout_count + 1
  /\ Finish(t, "SUCCESS")
  /\ UNCHANGED <<config, nextPacketId_, ackedAfter, assertFailed>>

\* The calls are used up: whether there is an ACK is not looked at.
PollTimesOut(t) ==
  /\ AtContinuation(t)
  /\ ~InTime(t)
  /\ Finish(t, "TIMEOUT")
  /\ UNCHANGED <<config, timeout_count, nextPacketId_, ackedAfter, assertFailed>>

-----------------------------------------------------------------------------
(* GiveRxData with an ACK                                                  *)

\* History: the ACK of the message of this task has reached its node.
Witness(owner) ==
  ackedAfter' = [t \in Tasks |-> IF t = owner /\ ackedAfter[t] = NotAcked
                                 THEN calls[t] ELSE ackedAfter[t]]

\* Mutant: whichever ACK comes is taken for the one awaited.
IsAwaited_Any(a) == TaskPending(a.node)

IsAwaited(a) == ackEvent[a.node].packetId = a.id

GiveRxAck(a) ==
  /\ ~FallingThrough
  /\ IsAwaited(a)
  /\ ackEvent' = [ackEvent EXCEPT ![a.node].state = "ACK"]
  /\ Witness(a.owner)
  /\ fromPeer' \in {fromPeer, fromPeer \ {a}}
  /\ UNCHANGED <<config, staticVars, nextPacketId_, taskVars, toPeer, calls,
                 assertFailed>>

\* Returns ERROR_UNEXPECTED_ACK.
GiveRxUnexpectedAck(a) ==
  /\ ~FallingThrough
  /\ ~IsAwaited(a)
  /\ Witness(a.owner)
  /\ fromPeer' \in {fromPeer, fromPeer \ {a}}
  /\ UNCHANGED <<config, staticVars, nodeVars, taskVars, toPeer, calls,
                 assertFailed>>

-----------------------------------------------------------------------------
(* The link and the peer                                                   *)

\* The peer sends the ID back in an ACK.
PeerReceives(p) ==
  /\ fromPeer' = fromPeer \cup {p}
  /\ toPeer' \in {toPeer, toPeer \ {p}}
  /\ UNCHANGED <<config, staticVars, nodeVars, taskVars, history>>

LosePublish(p) ==
  /\ toPeer' = toPeer \ {p}
  /\ UNCHANGED <<config, staticVars, nodeVars, taskVars, fromPeer, history>>

LoseAck(a) ==
  /\ fromPeer' = fromPeer \ {a}
  /\ UNCHANGED <<config, staticVars, nodeVars, taskVars, toPeer, history>>

-----------------------------------------------------------------------------
Poll(t) == PollPending(t) \/ PollAcked(t) \/ PollTimesOut(t)

Next ==
  \/ \E n \in Nodes : Publish(n)
  \/ \E t \in Tasks : Enter(t) \/ PublishInternalReturns(t) \/ Poll(t)
  \/ \E p \in toPeer : PeerReceives(p) \/ LosePublish(p)
  \/ \E a \in fromPeer : GiveRxAck(a) \/ GiveRxUnexpectedAck(a) \/ LoseAck(a)

SafetySpec == Init /\ [][Next]_vars

\* PublishInternal returns, and a task with a message goes on calling PublishWait:
\* "periodic calls to PublishWait drive the 'wait' timeout" (README.md:25).
Fairness ==
  \A t \in Tasks : /\ WF_vars(PublishInternalReturns(t))
                   /\ WF_vars(pc[t] # "idle" /\ Poll(t))

Spec == SafetySpec /\ Fairness

-----------------------------------------------------------------------------
(* Safety                                                                  *)

\* assert( ackEvent.packetId == 0 ) (EmbeddedSerialFiller_NoRTOS.cpp:41): a
\* message is begun only when the node waits for no other ACK.
AssertHolds == ~assertFailed

\* TaskPending() is exact: it tells that one task, and no more than one, has a
\* message that is not settled; an event that waits for nothing is clean, so no
\* message finds the ACK of an earlier one.
TaskPendingExact ==
  \A n \in Nodes :
    LET busy == {t \in Tasks : NodeOf[t] = n /\ pc[t] # "idle"}
    IN  /\ TaskPending(n) <=> busy # {}
        /\ \A t, u \in busy : t = u
        /\ ~TaskPending(n) => ~Acked(n)

\* The response is exact: SUCCESS if and only if the ACK of this very message
\* was received before the last of the calls allowed, "Number of cycles (calls
\* to this method) within which we expect an acknowledgement"
\* (EmbeddedSerialFiller_NoRTOS.h:44), and TIMEOUT otherwise - also when the
\* ACK is there by the time that call is made.
ResponseExact ==
  \A t \in Tasks :
    pc[t] = "idle" /\ response[t] # "UNKNOWN" =>
      IF ackedAfter[t] # NotAcked /\ ackedAfter[t] < timeout[t]
      THEN response[t] = "SUCCESS"
      ELSE response[t] = "TIMEOUT"

\* A message is settled by the call after those allowed, at the latest.
CallsBounded == \A t \in Tasks : calls[t] <= timeout[t] + 1

-----------------------------------------------------------------------------
(* Refinement                                                              *)

\* What the message of t looks like to the abstract specification.
AbstractCall(t) ==
  CASE pc[t] = "idle" -> "idle"
    [] pc[t] \in {"sent", "polling"} /\ ~InTime(t) -> "expired"
    [] pc[t] # "idle" /\ (pc[t] = "sending" \/ InTime(t)) ->
         IF Acked(NodeOf[t]) THEN "acked" ELSE "waiting"

Abstract ==
  INSTANCE AckedPublish
    WITH Threads <- Tasks,
         Capacity <- 1,
         call <- [t \in Tasks |-> AbstractCall(t)],
         response <- [t \in Tasks |-> IF response[t] = "PENDING"
                                      THEN "UNKNOWN" ELSE response[t]],
         numThreadsWaiting <- Cardinality({t \in Tasks : pc[t] # "idle"})

\* On one node this build, too, implements acknowledged publishing, of one
\* message at a time.
ImplementsAckedPublishSafety == Abstract!SafetySpec

\* ... and every message is settled in the end.
ImplementsAckedPublish == Abstract!Spec
=============================================================================
