---------------------------- MODULE PublishWait -----------------------------
(***************************************************************************)
(* Acknowledged publishing in the RTOS build of EmbeddedSerialFiller       *)
(* (src/EmbeddedSerialFiller_RTOS.cpp): the table of pending               *)
(* acknowledgements, the packet IDs, the wait on the condition variable of *)
(* the call and the handling of ACK packets, for one node whose API is     *)
(* called from several threads, and for the three implementations of the   *)
(* lock and condition variable that the repository has.                    *)
(*                                                                         *)
(* Every critical section of classMutex_ is one atomic action.  mutex is   *)
(* the holder of classMutex_ BETWEEN actions: only the FreeRTOS wait_for,  *)
(* which blocks without releasing the lock, ever leaves it taken.          *)
(*                                                                         *)
(* The link to the peer may lose, delay, reorder and duplicate packets:    *)
(* the library is agnostic to its transport.  The peer is another          *)
(* EmbeddedSerialFiller node, which echoes the ID of a PUBLISH in an ACK.  *)
(***************************************************************************)
EXTENDS Integers, Sequences, FiniteSets, SequencesExt

CONSTANTS
  Threads,          \* the application threads that call Publish, PublishWait
  NoThread,         \* a value that is no thread
  MaxPendingAcks,   \* ESF_MAX_PENDING_ACKS
  IdMax,            \* the largest packet ID: 255, IDs are uint8_t
  Platform,         \* whose mutex and condition variable: see Platforms
  SpuriousWakeups,  \* may wait_for return "no timeout" without a notification
  TxAttached,       \* has the application set txDataReady_
  FreshIds          \* assume that an ID is not reused while a call or a packet
                    \* on the link still carries it (the code cannot tell)

Platforms == {"std", "embos", "freertos"}

ASSUME ConstantsAssumption ==
  /\ NoThread \notin Threads
  /\ MaxPendingAcks \in Nat \ {0}
  /\ IdMax \in Nat \ {0}
  /\ Platform \in Platforms
  /\ SpuriousWakeups \in BOOLEAN
  /\ TxAttached \in BOOLEAN
  /\ FreshIds \in BOOLEAN

VARIABLES
  nextPacketId_,      \* the ID of the next packet sent
  events,             \* events[i]: packetId of the AckEvent i, 0 when free
  ackEvents_,         \* the registered AckEvents, as indices into events
  maxAckPacketIndex,  \* the highest index of events ever used
  mutex,              \* the holder of classMutex_, or NoThread
  signal,             \* signal[i]: the latched OS event of AckEvent i
  pc,                 \* pc[t]: where the PublishWait call of t is
  packetId,           \* packetId[t]: local variable packetId of that call
  ackEvent,           \* ackEvent[t]: its local variables eventIndex, ackEvent
  waitReturn,         \* waitReturn[t]: what its wait_for returned
  response,           \* response[t]: what the last PublishWait of t returned
  toPeer,             \* PUBLISH packets on the link
  fromPeer,           \* ACK packets on the link
  ackSeen             \* history: when the ACK of t's own packet was received

nodeVars == <<nextPacketId_, events, ackEvents_, maxAckPacketIndex>>
syncVars == <<mutex, signal>>
callVars == <<pc, packetId, ackEvent, waitReturn, response>>
linkVars == <<toPeer, fromPeer>>
vars == <<nodeVars, syncVars, callVars, linkVars, ackSeen>>

-----------------------------------------------------------------------------
(* Values                                                                  *)

Ids == 0 .. IdMax                  \* uint8_t
Slots == 0 .. MaxPendingAcks - 1   \* the indices of the array events

\* A packet on the link: its ID and, as history, the thread whose pending
\* call sent it, or NoThread once that call has returned.
Packets == [id : Ids, owner : Threads \cup {NoThread}]

Pcs == {"idle",      \* not in PublishWait
        "waiting",   \* blocked in wait_for
        "expired",   \* embOS: timed out, event not reset yet
        "woken"}     \* out of the OS wait, about to have the lock again

Responses == {"UNKNOWN", "SUCCESS", "TIMEOUT"}

ESF_NO_TIMEOUT == 0

\* The result of wait_for: xEventGroupWaitBits returns the event bits, which
\* are 0 on a timeout; OS_EVENT_GetTimed and cv_status are the other way round.
NotifiedReturn == IF Platform = "freertos" THEN 1 ELSE 0
TimeoutReturn == IF Platform = "freertos" THEN 0 ELSE 1

TypeOK ==
  /\ nextPacketId_ \in Ids
  /\ events \in [Slots -> Ids]
  /\ ackEvents_ \in Seq(Slots)
  /\ maxAckPacketIndex \in Slots
  /\ mutex \in Threads \cup {NoThread}
  /\ signal \in [Slots -> BOOLEAN]
  /\ pc \in [Threads -> Pcs]
  /\ packetId \in [Threads -> Ids]
  /\ ackEvent \in [Threads -> Slots]
  /\ waitReturn \in [Threads -> {0, 1}]
  /\ response \in [Threads -> Responses]
  /\ toPeer \in SUBSET Packets
  /\ fromPeer \in SUBSET Packets
  /\ ackSeen \in [Threads -> {"no", "timely", "late"}]

Init ==
  /\ nextPacketId_ = 1
  /\ events = [i \in Slots |-> 0]
  /\ ackEvents_ = <<>>
  /\ maxAckPacketIndex = 0
  /\ mutex = NoThread
  /\ signal = [i \in Slots |-> FALSE]
  /\ pc = [t \in Threads |-> "idle"]
  /\ packetId = [t \in Threads |-> 0]
  /\ ackEvent = [t \in Threads |-> 0]
  /\ waitReturn = [t \in Threads |-> 0]
  /\ response = [t \in Threads |-> "UNKNOWN"]
  /\ toPeer = {}
  /\ fromPeer = {}
  /\ ackSeen = [t \in Threads |-> "no"]

Pending == {t \in Threads : pc[t] # "idle"}

-----------------------------------------------------------------------------
(* PublishInternal                                                         *)

\* Mutant: the wrap to 0 is not skipped.
Increment_NoSkip(id) == (id + 1) % (IdMax + 1)

\* Mutant: the counter is wider than a uint8_t.
Increment_NoWrap(id) == id + 1

\* ++packetId on a uint8_t, and once more when that gives the invalid ID 0.
Increment(id) ==
  LET next == (id + 1) % (IdMax + 1)
  IN  IF next = 0 THEN 1 ELSE next

\* The ID counter moves only when a packet was handed to txDataReady_.
AdvancePacketId ==
  nextPacketId_' = IF TxAttached THEN Increment(nextPacketId_)
                                 ELSE nextPacketId_

IdIsFresh(id) ==
  /\ \A t \in Pending : packetId[t] # id
  /\ \A p \in toPeer \cup fromPeer : p.id # id

-----------------------------------------------------------------------------
(* Publish and PublishWait                                                 *)

\* Publish: a BROADCAST uses up an ID; no peer answers it.
Publish(t) ==
  /\ pc[t] = "idle"
  /\ mutex = NoThread
  /\ TxAttached
  /\ AdvancePacketId
  /\ UNCHANGED <<events, ackEvents_, maxAckPacketIndex, syncVars, callVars,
                 linkVars, ackSeen>>

FreeEvents == {i \in Slots : events[i] = 0}

FirstFree == Min(FreeEvents)

\* Mutant: the list counts as full one entry early.
CanRegister_Early == Len(ackEvents_) + 1 < MaxPendingAcks /\ FreeEvents # {}

CanRegister == Len(ackEvents_) < MaxPendingAcks /\ FreeEvents # {}

\* PublishWait up to the point where the thread blocks in wait_for.
PublishWaitBegin(t) ==
  /\ pc[t] = "idle"
  /\ mutex = NoThread
  /\ CanRegister
  /\ FreshIds => IdIsFresh(nextPacketId_)
  /\ packetId' = [packetId EXCEPT ![t] = nextPacketId_]
  /\ ackEvent' = [ackEvent EXCEPT ![t] = FirstFree]
  /\ maxAckPacketIndex' = IF FirstFree > maxAckPacketIndex
                          THEN FirstFree ELSE maxAckPacketIndex
  /\ events' = [events EXCEPT ![FirstFree] = nextPacketId_]
  /\ ackEvents_' = Append(ackEvents_, FirstFree)
  /\ AdvancePacketId
  /\ toPeer' = IF TxAttached
               THEN toPeer \cup {[id |-> nextPacketId_, owner |-> t]}
               ELSE toPeer
  /\ pc' = [pc EXCEPT ![t] = "waiting"]
  /\ mutex' = IF Platform = "freertos" THEN t ELSE NoThread
  /\ response' = [response EXCEPT ![t] = "UNKNOWN"]
  /\ ackSeen' = [ackSeen EXCEPT ![t] = "no"]
  /\ UNCHANGED <<signal, waitReturn, fromPeer>>

\* PublishWait with no AckEvent to be had: nothing is published.
PublishWaitRefused(t) ==
  /\ pc[t] = "idle"
  /\ mutex = NoThread
  /\ ~CanRegister
  /\ response' = [response EXCEPT ![t] = "TIMEOUT"]
  /\ ackSeen' = [ackSeen EXCEPT ![t] = "no"]
  /\ UNCHANGED <<nodeVars, syncVars, pc, packetId, ackEvent, waitReturn,
                 linkVars>>

-----------------------------------------------------------------------------
(* wait_for                                                                *)

\* The thread finds its OS event set: auto reset and clear-on-exit consume it.
TakeSignal(t) ==
  /\ Platform # "std"
  /\ pc[t] = "waiting"
  /\ signal[ackEvent[t]]
  /\ signal' = [signal EXCEPT ![ackEvent[t]] = FALSE]
  /\ pc' = [pc EXCEPT ![t] = "woken"]
  /\ waitReturn' = [waitReturn EXCEPT ![t] = NotifiedReturn]
  /\ UNCHANGED <<nodeVars, mutex, packetId, ackEvent, response, linkVars,
                 ackSeen>>

\* Mutant: a call whose time is up waits again instead of giving up.
Timeout_Retries(t) == pc[t] = "waiting" /\ UNCHANGED vars

\* The time is up.  embOS goes on to reset the event, without the lock.
Timeout(t) ==
  /\ pc[t] = "waiting"
  /\ ~signal[ackEvent[t]]
  /\ pc' = [pc EXCEPT ![t] = IF Platform = "embos" THEN "expired" ELSE "woken"]
  /\ waitReturn' = [waitReturn EXCEPT ![t] = TimeoutReturn]
  /\ UNCHANGED <<nodeVars, syncVars, packetId, ackEvent, response, linkVars,
                 ackSeen>>

\* OS_EVENT_Reset in Embos_ConditionVariable::wait_for.
EventReset(t) ==
  /\ pc[t] = "expired"
  /\ signal' = [signal EXCEPT ![ackEvent[t]] = FALSE]
  /\ pc' = [pc EXCEPT ![t] = "woken"]
  /\ UNCHANGED <<nodeVars, mutex, packetId, ackEvent, waitReturn, response,
                 linkVars, ackSeen>>

\* std::condition_variable may wake a thread nobody notified.
SpuriousWakeup(t) ==
  /\ Platform = "std"
  /\ SpuriousWakeups
  /\ pc[t] = "waiting"
  /\ pc' = [pc EXCEPT ![t] = "woken"]
  /\ waitReturn' = [waitReturn EXCEPT ![t] = NotifiedReturn]
  /\ UNCHANGED <<nodeVars, syncVars, packetId, ackEvent, response, linkVars,
                 ackSeen>>

\* std wait_for looks at the clock once it has the lock again: a thread that
\* was notified reports a timeout when its time is up by then.
DeadlinePasses(t) ==
  /\ Platform = "std"
  /\ pc[t] = "woken"
  /\ waitReturn[t] = NotifiedReturn
  /\ waitReturn' = [waitReturn EXCEPT ![t] = TimeoutReturn]
  /\ ackSeen' = [ackSeen EXCEPT ![t] = IF @ = "timely" THEN "late" ELSE @]
  /\ UNCHANGED <<nodeVars, syncVars, pc, packetId, ackEvent, response,
                 linkVars>>

-----------------------------------------------------------------------------
(* The end of PublishWait and the handling of ACK packets                  *)

\* Mutant: the IDs are not compared.
Matching_Any(id) == IF id = 0 THEN {} ELSE 1 .. Len(ackEvents_)

\* The positions in ackEvents_ of the events with this packet ID.
Matching(id) == {k \in 1 .. Len(ackEvents_) : events[ackEvents_[k]] = id}

\* Packets on the link stop counting as t's once its call has returned.
Disowned(packets, t) ==
  {IF p.owner = t THEN [p EXCEPT !.owner = NoThread] ELSE p : p \in packets}

\* Mutant: the event is taken off the list but not marked free.
RemoveEvent_NotFreed(id) ==
  IF Matching(id) = {}
  THEN UNCHANGED <<events, ackEvents_>>
  ELSE LET k == Min(Matching(id))
       IN  /\ UNCHANGED events
           /\ ackEvents_' = RemoveAt(ackEvents_, k)

\* Mutant: whichever event is at the front of the list is removed.
RemoveEvent_Front(id) ==
  IF Matching(id) = {}
  THEN UNCHANGED <<events, ackEvents_>>
  ELSE /\ events' = [events EXCEPT ![ackEvents_[1]] = 0]
       /\ ackEvents_' = Tail(ackEvents_)

\* Mutant: the loop goes on after the first match.
RemoveEvent_NoBreak(id) ==
  /\ events' = [i \in Slots |-> IF events[i] = id THEN 0 ELSE events[i]]
  /\ ackEvents_' = SelectSeq(ackEvents_, LAMBDA i : events[i] # id)

\* Remove the first event with this packet ID and allow it to be reused.
RemoveEvent(id) ==
  IF Matching(id) = {}
  THEN UNCHANGED <<events, ackEvents_>>
  ELSE LET k == Min(Matching(id))
       IN  /\ events' = [events EXCEPT ![ackEvents_[k]] = 0]
           /\ ackEvents_' = RemoveAt(ackEvents_, k)

\* PublishWait from the end of wait_for: the thread has the lock again.  The
\* local variables go out of scope (0 here).
PublishWaitReturn(t) ==
  /\ pc[t] = "woken"
  /\ mutex = IF Platform = "freertos" THEN t ELSE NoThread
  /\ RemoveEvent(packetId[t])
  /\ response' = [response EXCEPT ![t] =
                    IF waitReturn[t] = ESF_NO_TIMEOUT THEN "SUCCESS"
                                                      ELSE "TIMEOUT"]
  /\ pc' = [pc EXCEPT ![t] = "idle"]
  /\ mutex' = NoThread
  /\ packetId' = [packetId EXCEPT ![t] = 0]
  /\ ackEvent' = [ackEvent EXCEPT ![t] = 0]
  /\ waitReturn' = [waitReturn EXCEPT ![t] = 0]
  /\ toPeer' = Disowned(toPeer, t)
  /\ fromPeer' = Disowned(fromPeer, t)
  /\ UNCHANGED <<nextPacketId_, maxAckPacketIndex, signal, ackSeen>>

\* Mutant: all calls wait on one condition variable.
Waiters_All(i) == {t \in Threads : pc[t] = "waiting" /\ i \in Slots}

\* The threads blocked in wait_for on AckEvent i.
Waiters(i) == {t \in Threads : pc[t] = "waiting" /\ ackEvent[t] = i}

\* Mutant: the call to notify_all is missing.
NotifyAll_Missing(i) == i \in Slots /\ UNCHANGED <<pc, waitReturn, signal>>

\* cv.notify_all(): wakes the waiting threads; an OS event with none latches.
NotifyAll(i) ==
  /\ pc' = [t \in Threads |-> IF t \in Waiters(i) THEN "woken" ELSE pc[t]]
  /\ waitReturn' = [t \in Threads |-> IF t \in Waiters(i) THEN NotifiedReturn
                                                          ELSE waitReturn[t]]
  /\ signal' = [signal EXCEPT ![i] = @ \/ (Platform # "std" /\ Waiters(i) = {})]

\* History: the ACK of the packet of this call reached the node while the call
\* was blocked, or too late.
Witness(owner) ==
  ackSeen' = [t \in Threads |->
                IF t = owner /\ pc[t] = "waiting" THEN "timely"
                ELSE IF t = owner /\ ackSeen[t] = "no" THEN "late"
                ELSE ackSeen[t]]

\* GiveRxData with an ACK some AckEvent has the ID of.
GiveRxAck(a) ==
  /\ mutex = NoThread
  /\ Matching(a.id) # {}
  /\ NotifyAll(ackEvents_[Min(Matching(a.id))])
  /\ Witness(a.owner)
  /\ fromPeer' \in {fromPeer, fromPeer \ {a}}
  /\ UNCHANGED <<nodeVars, mutex, packetId, ackEvent, response, toPeer>>

\* GiveRxData with an ACK of an unknown ID: returns ERROR_UNEXPECTED_ACK.
GiveRxUnexpectedAck(a) ==
  /\ mutex = NoThread
  /\ Matching(a.id) = {}
  /\ Witness(a.owner)
  /\ fromPeer' \in {fromPeer, fromPeer \ {a}}
  /\ UNCHANGED <<nodeVars, syncVars, callVars, toPeer>>

-----------------------------------------------------------------------------
(* The link and the peer                                                   *)

\* GiveRxData of the peer: it sends the ID back in an ACK.  The link may
\* deliver the PUBLISH once more.
PeerReceives(p) ==
  /\ fromPeer' = fromPeer \cup {p}
  /\ toPeer' \in {toPeer, toPeer \ {p}}
  /\ UNCHANGED <<nodeVars, syncVars, callVars, ackSeen>>

LosePublish(p) ==
  /\ toPeer' = toPeer \ {p}
  /\ UNCHANGED <<nodeVars, syncVars, callVars, fromPeer, ackSeen>>

LoseAck(a) ==
  /\ fromPeer' = fromPeer \ {a}
  /\ UNCHANGED <<nodeVars, syncVars, callVars, toPeer, ackSeen>>

-----------------------------------------------------------------------------
NumThreadsWaiting == Len(ackEvents_)

Call(t) ==
  \/ Publish(t)
  \/ PublishWaitBegin(t)
  \/ PublishWaitRefused(t)
  \/ PublishWaitReturn(t)

Wait(t) ==
  \/ TakeSignal(t)
  \/ Timeout(t)
  \/ EventReset(t)
  \/ SpuriousWakeup(t)
  \/ DeadlinePasses(t)

Next ==
  \/ \E t \in Threads : Call(t) \/ Wait(t)
  \/ \E p \in toPeer : PeerReceives(p) \/ LosePublish(p)
  \/ \E a \in fromPeer : GiveRxAck(a) \/ GiveRxUnexpectedAck(a) \/ LoseAck(a)

SafetySpec == Init /\ [][Next]_vars

\* The OS ends a wait when its time is up and schedules a runnable thread; the
\* lock is never held for ever, so it is not starved of it either.
Fairness ==
  \A t \in Threads : /\ WF_vars(Timeout(t) \/ TakeSignal(t))
                     /\ WF_vars(EventReset(t))
                     /\ WF_vars(PublishWaitReturn(t))

Spec == SafetySpec /\ Fairness

-----------------------------------------------------------------------------
(* Safety                                                                  *)

\* ackEvents_ lists every AckEvent in use exactly once: an event is never
\* leaked, freed twice or handed to two calls, whatever IDs the calls share.
EventTable ==
  /\ \A j, k \in 1 .. Len(ackEvents_) : ackEvents_[j] = ackEvents_[k] => j = k
  /\ {ackEvents_[k] : k \in 1 .. Len(ackEvents_)} =
       {i \in Slots : events[i] # 0}

\* The "Invalid index" branch of PublishWait is dead: while ackEvents_ is not
\* full the search for a free AckEvent finds one.
IndexAlwaysFound == Len(ackEvents_) < MaxPendingAcks => FreeEvents # {}

\* NumThreadsWaiting is the number of calls that have begun to wait and not
\* returned, even when calls share an ID.
NumThreadsWaitingExact == NumThreadsWaiting = Cardinality(Pending)

\* An AckEvent stays with the call that took it until that call returns: nobody
\* frees it or puts another ID in it, and no two calls hold the same one.
EventStaysWithCall ==
  /\ \A t \in Pending : events[ackEvent[t]] = packetId[t]
  /\ \A t, u \in Pending : ackEvent[t] = ackEvent[u] => t = u

\* PublishWait returns SUCCESS only if the ACK of its own packet was received
\* while it was blocked: "True if an acknowledge was received before the
\* timeout occurred, otherwise false" (EmbeddedSerialFiller_RTOS.h:44).
SuccessNeedsAck ==
  \A t \in Threads :
    pc[t] = "idle" /\ response[t] = "SUCCESS" => ackSeen[t] = "timely"

\* ... and the other half: a call whose ACK was received while it was blocked,
\* and whose time was not up by the time it had the lock, returns SUCCESS.
TimelyAckSucceeds ==
  \A t \in Threads :
    pc[t] = "idle" /\ ackSeen[t] = "timely" => response[t] = "SUCCESS"

\* The response is exact.
ResponseMatchesAck == SuccessNeedsAck /\ TimelyAckSucceeds

-----------------------------------------------------------------------------
(* Action properties                                                       *)

\* A blocked thread goes on only because its time is up or because the ACK of
\* its own packet, and no other, is being processed.
WokenByOwnAck ==
  [][\A t \in Threads :
       /\ pc[t] = "waiting"
       /\ pc'[t] = "woken"
       /\ waitReturn'[t] = NotifiedReturn
       => \E a \in fromPeer : a.owner = t /\ a.id = packetId[t]]_vars

-----------------------------------------------------------------------------
(* Liveness and refinement                                                 *)

\* Every call of PublishWait returns, whatever becomes of its packet.
PublishWaitReturns ==
  \A t \in Threads : pc[t] # "idle" ~> pc[t] = "idle"

\* What the call of t looks like to the abstract specification.
AbstractCall(t) ==
  CASE pc[t] = "idle" -> "idle"
    [] pc[t] # "idle" /\ ackSeen[t] = "timely" -> "acked"
    [] pc[t] = "waiting" /\ ackSeen[t] # "timely" -> "waiting"
    [] OTHER -> "expired"

Abstract == INSTANCE AckedPublish
              WITH Capacity <- MaxPendingAcks,
                   call <- [t \in Threads |-> AbstractCall(t)],
                   numThreadsWaiting <- NumThreadsWaiting

\* The node does nothing that acknowledged publishing does not allow: calls are
\* refused only at capacity and return SUCCESS only when acknowledged.
ImplementsAckedPublishSafety == Abstract!SafetySpec

\* The node implements acknowledged publishing: safety and liveness.
ImplementsAckedPublish == Abstract!Spec
=============================================================================
