-------------------------- MODULE PublishWaitProofs --------------------------
(***************************************************************************)
(* Proofs about PublishWait, for any threads, any number of AckEvents and  *)
(* any range of packet IDs:                                                *)
(*                                                                         *)
(*   - type correctness, and the integrity of the table of AckEvents, on   *)
(*     every platform and with IDs reused at will (first inductive         *)
(*     invariant, TableInv);                                               *)
(*   - with fresh IDs, on every platform: an AckEvent stays with the call  *)
(*     that took it, and NumThreadsWaiting is exact (second inductive      *)
(*     invariant, SessionInv);                                             *)
(*   - on the std platform, given that no wakeup is spurious and no ID is  *)
(*     reused while it is in use: the call tells its caller the truth, and *)
(*     the whole node implements the safety part of AckedPublish (third    *)
(*     inductive invariant, ResponseInv, which adds what a blocked or      *)
(*     woken call knows of its ACK).                                       *)
(***************************************************************************)
EXTENDS PublishWait, SequenceLemmas, TLAPS, SequenceTheorems,
        FiniteSetTheorems, FunctionTheorems

-----------------------------------------------------------------------------
(* The helpers of the actions                                              *)

\* The increment of an ID is an ID again and never the invalid ID 0.
LEMMA IncrementIsId ==
  ASSUME ConstantsAssumption, NEW id \in Ids
  PROVE  Increment(id) \in Ids \ {0}
<1> DEFINE next == (id + 1) % (IdMax + 1)
<1>1. next \in 0 .. IdMax
  BY DEF ConstantsAssumption, Ids
<1> QED
  BY <1>1 DEF Increment, Ids, ConstantsAssumption

\* The search for a free AckEvent returns a free one.
LEMMA FirstFreeIsFree ==
  ASSUME FreeEvents # {}
  PROVE  FirstFree \in FreeEvents
<1>1. FreeEvents \in SUBSET Nat
  BY ConstantsAssumption DEF FreeEvents, Slots, ConstantsAssumption
<1> QED
  BY <1>1, MinIsLeast DEF FirstFree

\* The search of ackEvents_ for an ID returns a position that has it.
LEMMA FirstMatchIsMatch ==
  ASSUME TypeOK, NEW id \in Ids, Matching(id) # {}
  PROVE  Min(Matching(id)) \in Matching(id)
<1>1. Len(ackEvents_) \in Nat
  BY LenProperties DEF TypeOK
<1>2. Matching(id) \in SUBSET Nat
  BY <1>1 DEF Matching
<1> QED
  BY <1>2, MinIsLeast

\* RemoveEvent takes one event with the ID off the list and frees that event.
LEMMA RemoveEventEffect ==
  ASSUME TypeOK, NEW id \in Ids, RemoveEvent(id), Matching(id) # {}
  PROVE  \E k \in 1 .. Len(ackEvents_) :
           /\ events[ackEvents_[k]] = id
           /\ events' = [events EXCEPT ![ackEvents_[k]] = 0]
           /\ ackEvents_' \in Seq(Slots)
           /\ Len(ackEvents_') = Len(ackEvents_) - 1
           /\ \A j \in 1 .. Len(ackEvents_) - 1 :
                ackEvents_'[j] = IF j < k THEN ackEvents_[j]
                                          ELSE ackEvents_[j + 1]
<1> DEFINE k == Min(Matching(id))
<1>1. k \in 1 .. Len(ackEvents_) /\ events[ackEvents_[k]] = id
  BY FirstMatchIsMatch DEF Matching
<1>2. /\ events' = [events EXCEPT ![ackEvents_[k]] = 0]
      /\ ackEvents_' = RemoveAt(ackEvents_, k)
  BY DEF RemoveEvent
<1> HIDE DEF k
<1>3. ackEvents_ \in Seq(Slots)
  BY DEF TypeOK
<1> QED
  BY <1>1, <1>2, <1>3, RemoveAtProperties

-----------------------------------------------------------------------------
(* The first inductive invariant: types and the table of AckEvents         *)

\* No ID in use is the invalid ID 0, which marks a free AckEvent.
IdsValid ==
  /\ nextPacketId_ # 0
  /\ \A t \in Pending : packetId[t] # 0

TableInv == TypeOK /\ EventTable /\ IdsValid

\* The table is empty at first.
LEMMA InitTableInv == Init => TableInv
<1> SUFFICES ASSUME Init PROVE TableInv
  OBVIOUS
<1> USE ConstantsAssumption DEF ConstantsAssumption, Init
<1>1. TypeOK
  <2>1. ackEvents_ \in Seq(Slots)
    BY EmptySeq
  <2> QED
    BY <2>1 DEF TypeOK, Ids, Slots, Pcs, Responses, Packets
<1>2. EventTable
  BY DEF EventTable
<1>3. IdsValid
  BY DEF IdsValid, Pending
<1> QED
  BY <1>1, <1>2, <1>3 DEF TableInv

\* A call that begins takes a free AckEvent, appends it to the list and leaves
\* the rest of the table alone.
LEMMA BeginTableInv ==
  ASSUME TableInv, NEW t \in Threads, PublishWaitBegin(t)
  PROVE  TableInv'
<1> USE ConstantsAssumption DEF TableInv
<1>1. FirstFree \in Slots /\ events[FirstFree] = 0
  <2>1. FirstFree \in FreeEvents
    BY FirstFreeIsFree DEF PublishWaitBegin, CanRegister
  <2> QED
    BY <2>1 DEF FreeEvents
<1>2. nextPacketId_' \in Ids \ {0}
  BY IncrementIsId DEF PublishWaitBegin, AdvancePacketId, TypeOK, IdsValid
<1>3. /\ ackEvents_' \in Seq(Slots)
      /\ Len(ackEvents_') = Len(ackEvents_) + 1
      /\ Len(ackEvents_) \in Nat
      /\ \A k \in 1 .. Len(ackEvents_) : ackEvents_'[k] = ackEvents_[k]
      /\ ackEvents_'[Len(ackEvents_) + 1] = FirstFree
  BY <1>1 DEF PublishWaitBegin, TypeOK
<1>4. TypeOK'
  <2>1. toPeer' \in SUBSET Packets
    BY DEF PublishWaitBegin, TypeOK, Packets
  <2>2. mutex' \in Threads \cup {NoThread}
    BY DEF PublishWaitBegin
  <2>3. maxAckPacketIndex' \in Slots
    BY <1>1 DEF PublishWaitBegin, TypeOK
  <2> QED
    BY <1>1, <1>2, <1>3, <2>1, <2>2, <2>3
       DEF PublishWaitBegin, TypeOK, Pcs, Responses
<1>5. EventTable'
  <2>1. events' = [events EXCEPT ![FirstFree] = nextPacketId_]
    BY DEF PublishWaitBegin
  <2>2. \A k \in 1 .. Len(ackEvents_) :
          ackEvents_[k] \in Slots /\ ackEvents_[k] # FirstFree
    BY <1>1 DEF EventTable, TypeOK
  <2>3. \A j, k \in 1 .. Len(ackEvents_') :
          ackEvents_'[j] = ackEvents_'[k] => j = k
    BY <1>3, <2>2 DEF EventTable
  <2>4. {ackEvents_'[k] : k \in 1 .. Len(ackEvents_')}
          = {ackEvents_[k] : k \in 1 .. Len(ackEvents_)} \cup {FirstFree}
    BY <1>3
  <2>5. {i \in Slots : events'[i] # 0}
          = {i \in Slots : events[i] # 0} \cup {FirstFree}
    BY <1>1, <2>1 DEF TypeOK, IdsValid
  <2> QED
    BY <2>3, <2>4, <2>5 DEF EventTable
<1>6. IdsValid'
  BY <1>2 DEF IdsValid, Pending, PublishWaitBegin, TypeOK
<1> QED
  BY <1>4, <1>5, <1>6

\* Disowning a thread's packets changes their owners and nothing else.
LEMMA DisownedPackets ==
  ASSUME NEW packets \in SUBSET Packets, NEW t \in Threads
  PROVE  /\ Disowned(packets, t) \in SUBSET Packets
         /\ \A q \in Disowned(packets, t) :
              \E p \in packets :
                /\ q.id = p.id
                /\ q.owner = IF p.owner = t THEN NoThread ELSE p.owner
<1> SUFFICES ASSUME NEW q \in Disowned(packets, t)
             PROVE  /\ q \in Packets
                    /\ \E p \in packets :
                         /\ q.id = p.id
                         /\ q.owner = IF p.owner = t THEN NoThread ELSE p.owner
  BY DEF Disowned
<1>1. PICK p \in packets :
        q = IF p.owner = t THEN [p EXCEPT !.owner = NoThread] ELSE p
  BY DEF Disowned
<1>2. p \in Packets
  OBVIOUS
<1>3. CASE p.owner = t
  <2>1. q = [id |-> p.id, owner |-> NoThread]
    BY <1>1, <1>2, <1>3 DEF Packets
  <2> QED
    BY <1>2, <1>3, <2>1 DEF Packets
<1>4. CASE p.owner # t
  BY <1>1, <1>2, <1>4
<1> QED
  BY <1>3, <1>4

\* The parts of TypeOK that the return of a call changes besides the table.
LEMMA ReturnTypes ==
  ASSUME TypeOK, NEW t \in Threads, PublishWaitReturn(t)
  PROVE  /\ UNCHANGED <<nextPacketId_, maxAckPacketIndex, signal, ackSeen>>
         /\ mutex' \in Threads \cup {NoThread}
         /\ pc' \in [Threads -> Pcs]
         /\ packetId' \in [Threads -> Ids]
         /\ ackEvent' \in [Threads -> Slots]
         /\ waitReturn' \in [Threads -> {0, 1}]
         /\ response' \in [Threads -> Responses]
         /\ toPeer' \in SUBSET Packets
         /\ fromPeer' \in SUBSET Packets
<1> USE ConstantsAssumption
<1>1. /\ toPeer' \in SUBSET Packets
      /\ fromPeer' \in SUBSET Packets
  BY DisownedPackets DEF PublishWaitReturn, TypeOK
<1>2. 0 \in Ids /\ 0 \in Slots
  BY DEF Ids, Slots, ConstantsAssumption
<1> QED
  BY <1>1, <1>2 DEF PublishWaitReturn, TypeOK, Pcs, Responses

\* Taking the event at position k off the list and freeing it leaves a list of
\* exactly the events in use.
LEMMA RemovalKeepsTable ==
  ASSUME TypeOK, EventTable, NEW k \in 1 .. Len(ackEvents_),
         events' = [events EXCEPT ![ackEvents_[k]] = 0],
         Len(ackEvents_') = Len(ackEvents_) - 1,
         \A j \in 1 .. Len(ackEvents_) - 1 :
           ackEvents_'[j] = IF j < k THEN ackEvents_[j] ELSE ackEvents_[j + 1]
  PROVE  EventTable'
<1>1. Len(ackEvents_) \in Nat /\ ackEvents_[k] \in Slots
  BY DEF TypeOK
<1> DEFINE from(j) == IF j < k THEN j ELSE j + 1
<1>2. \A j \in 1 .. Len(ackEvents_') :
        /\ from(j) \in 1 .. Len(ackEvents_)
        /\ from(j) # k
        /\ ackEvents_'[j] = ackEvents_[from(j)]
  BY <1>1
<1>3. \A i, j \in 1 .. Len(ackEvents_') : from(i) = from(j) => i = j
  BY <1>1
<1>4. \A m \in 1 .. Len(ackEvents_) \ {k} :
        \E j \in 1 .. Len(ackEvents_') : from(j) = m
  <2> TAKE m \in 1 .. Len(ackEvents_) \ {k}
  <2>1. CASE m < k
    <3>1. m \in 1 .. Len(ackEvents_') /\ from(m) = m
      BY <2>1, <1>1
    <3> QED
      BY <3>1
  <2>2. CASE m > k
    <3>1. m - 1 \in 1 .. Len(ackEvents_') /\ from(m - 1) = m
      BY <2>2, <1>1
    <3> QED
      BY <3>1
  <2> QED
    BY <2>1, <2>2, <1>1
<1> HIDE DEF from
<1>5. \A i, j \in 1 .. Len(ackEvents_') : ackEvents_'[i] = ackEvents_'[j] => i = j
  <2> TAKE i, j \in 1 .. Len(ackEvents_')
  <2> HAVE ackEvents_'[i] = ackEvents_'[j]
  <2>1. ackEvents_[from(i)] = ackEvents_[from(j)]
    BY <1>2
  <2>2. from(i) = from(j)
    BY <1>2, <2>1 DEF EventTable
  <2> QED
    BY <1>3, <2>2
<1> DEFINE listed == {ackEvents_[m] : m \in 1 .. Len(ackEvents_)}
           listedNext == {ackEvents_'[j] : j \in 1 .. Len(ackEvents_')}
<1>6. listedNext = listed \ {ackEvents_[k]}
  <2>1. \A e \in listedNext : e \in listed /\ e # ackEvents_[k]
    BY <1>2 DEF EventTable
  <2>2. ASSUME NEW e \in listed, e # ackEvents_[k] PROVE e \in listedNext
    <3>1. PICK m \in 1 .. Len(ackEvents_) \ {k} : e = ackEvents_[m]
      BY <2>2
    <3>2. PICK j \in 1 .. Len(ackEvents_') : from(j) = m
      BY <1>4
    <3> QED
      BY <1>2, <3>1, <3>2
  <2> QED
    BY <2>1, <2>2
<1>7. {i \in Slots : events'[i] # 0}
        = {i \in Slots : events[i] # 0} \ {ackEvents_[k]}
  BY <1>1 DEF TypeOK
<1> QED
  BY <1>5, <1>6, <1>7 DEF EventTable

\* A call that returns takes one AckEvent off the list and marks it free.
LEMMA ReturnTableInv ==
  ASSUME TableInv, NEW t \in Threads, PublishWaitReturn(t)
  PROVE  TableInv'
<1> USE ConstantsAssumption DEF TableInv
<1>1. packetId[t] \in Ids \ {0} /\ RemoveEvent(packetId[t])
  BY DEF PublishWaitReturn, TypeOK, IdsValid, Pending
<1>3. IdsValid'
  BY DEF PublishWaitReturn, IdsValid, Pending, TypeOK
<1>4. CASE Matching(packetId[t]) = {}
  <2>1. events' = events /\ ackEvents_' = ackEvents_
    BY <1>1, <1>4 DEF RemoveEvent
  <2>2. EventTable'
    BY <2>1 DEF EventTable
  <2>3. TypeOK'
    BY <2>1, ReturnTypes DEF TypeOK
  <2> QED
    BY <1>3, <2>2, <2>3
<1>5. CASE Matching(packetId[t]) # {}
  <2>1. PICK k \in 1 .. Len(ackEvents_) :
          /\ events[ackEvents_[k]] = packetId[t]
          /\ events' = [events EXCEPT ![ackEvents_[k]] = 0]
          /\ ackEvents_' \in Seq(Slots)
          /\ Len(ackEvents_') = Len(ackEvents_) - 1
          /\ \A j \in 1 .. Len(ackEvents_) - 1 :
               ackEvents_'[j] = IF j < k THEN ackEvents_[j]
                                         ELSE ackEvents_[j + 1]
    BY <1>1, <1>5, RemoveEventEffect
  <2>2. Len(ackEvents_) \in Nat /\ ackEvents_[k] \in Slots
    BY DEF TypeOK
  <2>3. TypeOK'
    <3>1. events' \in [Slots -> Ids]
      BY <2>1 DEF TypeOK, Ids, ConstantsAssumption
    <3> QED
      BY <2>1, <3>1, ReturnTypes DEF TypeOK
  <2>4. EventTable'
    BY <2>1, <2>2, RemovalKeepsTable
  <2> QED
    BY <1>3, <2>3, <2>4
<1> QED
  BY <1>4, <1>5

\* The steps that leave the table, the IDs and the set of calls alone.
LEMMA TableInvFrame ==
  ASSUME TableInv, TypeOK', UNCHANGED <<nextPacketId_, events, ackEvents_, packetId>>,
         \A t \in Threads : pc'[t] # "idle" => pc[t] # "idle"
  PROVE  TableInv'
<1>1. EventTable'
  BY DEF TableInv, EventTable
<1>2. IdsValid'
  BY DEF TableInv, IdsValid, Pending
<1> QED
  BY <1>1, <1>2 DEF TableInv

\* Processing an ACK wakes threads and leaves the table alone.
LEMMA AckTableInv ==
  ASSUME TableInv, NEW a \in fromPeer, GiveRxAck(a)
  PROVE  TableInv'
<1> USE DEF TableInv
<1>1. \A t \in Threads : pc'[t] # "idle" => pc[t] # "idle"
  BY DEF GiveRxAck, NotifyAll, Waiters
<1>2. pc' \in [Threads -> Pcs] /\ waitReturn' \in [Threads -> {0, 1}]
  BY DEF GiveRxAck, NotifyAll, TypeOK, Pcs, NotifiedReturn
<1>3. signal' \in [Slots -> BOOLEAN]
  BY DEF GiveRxAck, NotifyAll, TypeOK
<1>4. ackSeen' \in [Threads -> {"no", "timely", "late"}]
  BY DEF GiveRxAck, Witness, TypeOK
<1>5. fromPeer' \in SUBSET Packets
  BY DEF GiveRxAck, TypeOK
<1>6. TypeOK'
  BY <1>2, <1>3, <1>4, <1>5 DEF GiveRxAck, TypeOK, nodeVars
<1> QED
  BY <1>1, <1>6, TableInvFrame DEF GiveRxAck, nodeVars

\* Every step keeps the first invariant.
LEMMA NextTableInv == TableInv /\ [Next]_vars => TableInv'
<1> SUFFICES ASSUME TableInv, [Next]_vars
             PROVE  TableInv'
  OBVIOUS
<1> USE ConstantsAssumption
<1> USE DEF nodeVars, syncVars, callVars, linkVars
<1>1. ASSUME NEW t \in Threads, Publish(t)
      PROVE  TableInv'
  <2>1. nextPacketId_' \in Ids \ {0}
    BY <1>1, IncrementIsId DEF Publish, AdvancePacketId, TableInv, TypeOK
  <2>2. TypeOK'
    BY <1>1, <2>1 DEF Publish, TableInv, TypeOK
  <2>3. EventTable'
    BY <1>1 DEF Publish, TableInv, EventTable
  <2>4. IdsValid'
    BY <1>1, <2>1 DEF Publish, TableInv, IdsValid, Pending
  <2> QED
    BY <2>2, <2>3, <2>4 DEF TableInv
<1>2. ASSUME NEW t \in Threads, PublishWaitBegin(t)
      PROVE  TableInv'
  BY <1>2, BeginTableInv
<1>3. ASSUME NEW t \in Threads, PublishWaitRefused(t)
      PROVE  TableInv'
  <2>1. TypeOK'
    BY <1>3 DEF PublishWaitRefused, TableInv, TypeOK, Responses
  <2> QED
    BY <1>3, <2>1, TableInvFrame DEF PublishWaitRefused
<1>4. ASSUME NEW t \in Threads, PublishWaitReturn(t)
      PROVE  TableInv'
  BY <1>4, ReturnTableInv
<1>5. ASSUME NEW t \in Threads, TakeSignal(t)
      PROVE  TableInv'
  <2>1. TypeOK'
    BY <1>5 DEF TakeSignal, TableInv, TypeOK, Pcs, NotifiedReturn
  <2> QED
    BY <1>5, <2>1, TableInvFrame DEF TakeSignal, TableInv, TypeOK
<1>6. ASSUME NEW t \in Threads, Timeout(t)
      PROVE  TableInv'
  <2>1. TypeOK'
    BY <1>6 DEF Timeout, TableInv, TypeOK, Pcs, TimeoutReturn
  <2> QED
    BY <1>6, <2>1, TableInvFrame DEF Timeout, TableInv, TypeOK
<1>7. ASSUME NEW t \in Threads, EventReset(t)
      PROVE  TableInv'
  <2>1. TypeOK'
    BY <1>7 DEF EventReset, TableInv, TypeOK, Pcs
  <2> QED
    BY <1>7, <2>1, TableInvFrame DEF EventReset, TableInv, TypeOK
<1>8. ASSUME NEW t \in Threads, SpuriousWakeup(t)
      PROVE  TableInv'
  <2>1. TypeOK'
    BY <1>8 DEF SpuriousWakeup, TableInv, TypeOK, Pcs, NotifiedReturn
  <2> QED
    BY <1>8, <2>1, TableInvFrame DEF SpuriousWakeup, TableInv, TypeOK
<1>9. ASSUME NEW t \in Threads, DeadlinePasses(t)
      PROVE  TableInv'
  <2>1. TypeOK'
    BY <1>9 DEF DeadlinePasses, TableInv, TypeOK, TimeoutReturn
  <2> QED
    BY <1>9, <2>1, TableInvFrame DEF DeadlinePasses
<1>10. ASSUME NEW p \in toPeer, PeerReceives(p)
       PROVE  TableInv'
  <2>1. TypeOK'
    BY <1>10 DEF PeerReceives, TableInv, TypeOK
  <2> QED
    BY <1>10, <2>1, TableInvFrame DEF PeerReceives
<1>11. ASSUME NEW p \in toPeer, LosePublish(p)
       PROVE  TableInv'
  <2>1. TypeOK'
    BY <1>11 DEF LosePublish, TableInv, TypeOK
  <2> QED
    BY <1>11, <2>1, TableInvFrame DEF LosePublish
<1>12. ASSUME NEW a \in fromPeer, GiveRxAck(a)
       PROVE  TableInv'
  BY <1>12, AckTableInv
<1>13. ASSUME NEW a \in fromPeer, GiveRxUnexpectedAck(a)
       PROVE  TableInv'
  <2>1. ackSeen' \in [Threads -> {"no", "timely", "late"}]
    BY <1>13 DEF GiveRxUnexpectedAck, Witness, TableInv, TypeOK
  <2>2. TypeOK'
    BY <1>13, <2>1 DEF GiveRxUnexpectedAck, TableInv, TypeOK
  <2> QED
    BY <1>13, <2>2, TableInvFrame DEF GiveRxUnexpectedAck
<1>14. ASSUME NEW a \in fromPeer, LoseAck(a)
       PROVE  TableInv'
  <2>1. TypeOK'
    BY <1>14 DEF LoseAck, TableInv, TypeOK
  <2> QED
    BY <1>14, <2>1, TableInvFrame DEF LoseAck
<1>15. CASE UNCHANGED vars
  <2>1. TypeOK'
    BY <1>15 DEF vars, TableInv, TypeOK
  <2> QED
    BY <1>15, <2>1, TableInvFrame DEF vars
<1> QED
  BY <1>1, <1>2, <1>3, <1>4, <1>5, <1>6, <1>7, <1>8, <1>9, <1>10, <1>11,
     <1>12, <1>13, <1>14, <1>15 DEF Next, Call, Wait

-----------------------------------------------------------------------------
(* What holds whatever the platform and however IDs are reused             *)

\* The first inductive invariant holds in every behaviour: the table of
\* AckEvents that PublishWait and GiveRxData work on is sound.
THEOREM TableInvAlways == SafetySpec => []TableInv
<1> QED
  BY InitTableInv, NextTableInv, PTL DEF SafetySpec

\* Type correctness of the node, of every call in progress and of the link.
THEOREM TypeCorrect == SafetySpec => []TypeOK
<1>1. TableInv => TypeOK
  BY DEF TableInv
<1> QED
  BY <1>1, TableInvAlways, PTL

\* However calls begin, time out, share IDs and return, ackEvents_ lists every
\* AckEvent in use exactly once.
THEOREM EventTableIntact == SafetySpec => []EventTable
<1>1. TableInv => EventTable
  BY DEF TableInv
<1> QED
  BY <1>1, TableInvAlways, PTL

\* With room in ackEvents_ there is a free AckEvent: were they all in use, the
\* list would enumerate all MaxPendingAcks of them.
LEMMA RoomMeansFree ==
  ASSUME TableInv
  PROVE  IndexAlwaysFound
<1> SUFFICES ASSUME FreeEvents = {}
             PROVE  ~(Len(ackEvents_) < MaxPendingAcks)
  BY DEF IndexAlwaysFound
<1> USE ConstantsAssumption DEF ConstantsAssumption
<1>1. Len(ackEvents_) \in Nat /\ ackEvents_ \in [1 .. Len(ackEvents_) -> Slots]
  BY LenProperties DEF TableInv, TypeOK
<1>2. \A i \in Slots : \E k \in 1 .. Len(ackEvents_) : ackEvents_[k] = i
  BY DEF TableInv, EventTable, FreeEvents
<1>3. ackEvents_ \in Surjection(1 .. Len(ackEvents_), Slots)
  BY <1>1, <1>2 DEF Surjection
<1>4. Cardinality(Slots) <= Len(ackEvents_)
  BY <1>1, <1>3, FS_SurjCardinalityBound DEF ExistsSurjection
<1>5. Cardinality(Slots) = MaxPendingAcks
  BY FS_Interval DEF Slots
<1> QED
  BY <1>1, <1>4, <1>5

\* The list never holds more entries than there are AckEvents.
LEMMA NeverMoreThanEvents ==
  ASSUME TableInv
  PROVE  Len(ackEvents_) <= MaxPendingAcks
<1> USE ConstantsAssumption DEF ConstantsAssumption
<1>1. Len(ackEvents_) \in Nat /\ ackEvents_ \in [1 .. Len(ackEvents_) -> Slots]
  BY LenProperties DEF TableInv, TypeOK
<1>2. IsFiniteSet(Slots) /\ Cardinality(Slots) = MaxPendingAcks
  BY FS_Interval DEF Slots
<1>3. ackEvents_ \in Injection(1 .. Len(ackEvents_), Slots)
  BY <1>1 DEF TableInv, EventTable, Injection, IsInjective
<1>4. Cardinality(1 .. Len(ackEvents_)) <= MaxPendingAcks
  BY <1>2, <1>3, FS_Injection
<1>5. Cardinality(1 .. Len(ackEvents_)) = Len(ackEvents_)
  BY <1>1, FS_Interval
<1> QED
  BY <1>4, <1>5

\* PublishWait never reaches its "Invalid index" branch.
THEOREM InvalidIndexIsDead == SafetySpec => []IndexAlwaysFound
<1>1. TableInv => IndexAlwaysFound
  BY RoomMeansFree
<1> QED
  BY <1>1, TableInvAlways, PTL

-----------------------------------------------------------------------------
(* The second inductive invariant: who owns what, with fresh IDs           *)

\* Calls in progress have IDs of their own, and the events in use are theirs.
SlotInv ==
  /\ \A t \in Pending : events[ackEvent[t]] = packetId[t]
  /\ \A t, u \in Pending : packetId[t] = packetId[u] => t = u
  /\ \A i \in Slots : events[i] # 0 => \E t \in Pending : ackEvent[t] = i

\* A packet on the link that has the ID of a call in progress is of that call.
LinkInv ==
  \A p \in toPeer \cup fromPeer :
    /\ p.owner # NoThread => p.owner \in Pending /\ p.id = packetId[p.owner]
    /\ \A t \in Pending : p.id = packetId[t] => p.owner = t

SessionInv == TableInv /\ SlotInv /\ LinkInv

\* Nobody waits and the link is empty at first.
LEMMA InitSessionInv == Init => SessionInv
BY InitTableInv DEF SessionInv, SlotInv, LinkInv, Init, Pending

\* The steps that leave the calls, their events and IDs alone and put nothing
\* new on the link.
LEMMA SessionFrame ==
  ASSUME SessionInv, TableInv', UNCHANGED <<events, packetId, ackEvent>>,
         \A t \in Threads : pc'[t] = "idle" <=> pc[t] = "idle",
         toPeer' \cup fromPeer' \subseteq toPeer \cup fromPeer
  PROVE  SessionInv'
<1>1. Pending' = Pending
  BY DEF Pending
<1>2. SlotInv'
  BY <1>1 DEF SessionInv, SlotInv
<1>3. LinkInv'
  BY <1>1 DEF SessionInv, LinkInv
<1> QED
  BY <1>2, <1>3 DEF SessionInv

\* A call in progress finds its event in the list, and no other by its ID.
LEMMA MatchIsOwn ==
  ASSUME SessionInv, NEW t \in Pending
  PROVE  /\ packetId[t] \in Ids \ {0}
         /\ ackEvent[t] \in Slots
         /\ Matching(packetId[t]) # {}
         /\ \A k \in 1 .. Len(ackEvents_) :
              events[ackEvents_[k]] = packetId[t] => ackEvents_[k] = ackEvent[t]
<1>1. packetId[t] \in Ids \ {0} /\ ackEvent[t] \in Slots
  BY DEF SessionInv, TableInv, TypeOK, IdsValid, Pending
<1>2. events[ackEvent[t]] = packetId[t]
  BY DEF SessionInv, SlotInv
<1>3. \E k \in 1 .. Len(ackEvents_) : ackEvents_[k] = ackEvent[t]
  BY <1>1, <1>2 DEF SessionInv, TableInv, EventTable
<1>4. ASSUME NEW k \in 1 .. Len(ackEvents_),
             events[ackEvents_[k]] = packetId[t]
      PROVE  ackEvents_[k] = ackEvent[t]
  <2>1. ackEvents_[k] \in Slots
    BY DEF SessionInv, TableInv, TypeOK
  <2>2. PICK u \in Pending : ackEvent[u] = ackEvents_[k]
    BY <1>1, <1>4, <2>1 DEF SessionInv, SlotInv
  <2>3. packetId[u] = packetId[t]
    BY <1>4, <2>2 DEF SessionInv, SlotInv
  <2> QED
    BY <2>2, <2>3 DEF SessionInv, SlotInv
<1> QED
  BY <1>1, <1>2, <1>3, <1>4 DEF Matching

\* A call that begins with a fresh ID shares nothing with the others.
LEMMA BeginSessionInv ==
  ASSUME SessionInv, FreshIds, NEW t \in Threads, PublishWaitBegin(t)
  PROVE  SessionInv'
<1> USE ConstantsAssumption
<1>1. TableInv'
  BY BeginTableInv DEF SessionInv
<1>2. Pending' = Pending \cup {t} /\ t \notin Pending
  BY DEF PublishWaitBegin, Pending, SessionInv, TableInv, TypeOK
<1>3. FirstFree \in Slots /\ events[FirstFree] = 0
  <2>1. FirstFree \in FreeEvents
    BY FirstFreeIsFree DEF PublishWaitBegin, CanRegister
  <2> QED
    BY <2>1 DEF FreeEvents
<1>4. IdIsFresh(nextPacketId_)
  BY DEF PublishWaitBegin
<1>5. /\ events' = [events EXCEPT ![FirstFree] = nextPacketId_]
      /\ packetId' = [packetId EXCEPT ![t] = nextPacketId_]
      /\ ackEvent' = [ackEvent EXCEPT ![t] = FirstFree]
  BY DEF PublishWaitBegin
<1>6. /\ events'[FirstFree] = nextPacketId_
      /\ packetId'[t] = nextPacketId_
      /\ ackEvent'[t] = FirstFree
      /\ \A u \in Pending : /\ packetId'[u] = packetId[u]
                            /\ ackEvent'[u] = ackEvent[u]
                            /\ ackEvent[u] # FirstFree
                            /\ events'[ackEvent[u]] = events[ackEvent[u]]
  <2>1. \A u \in Pending : events[ackEvent[u]] # 0 /\ ackEvent[u] \in Slots
    BY DEF SessionInv, SlotInv, TableInv, IdsValid, TypeOK, Pending
  <2> QED
    BY <1>2, <1>3, <1>5, <2>1 DEF SessionInv, TableInv, TypeOK, Pending
<1>7. SlotInv'
  <2>1. \A u \in Pending' : events'[ackEvent'[u]] = packetId'[u]
    BY <1>2, <1>6 DEF SessionInv, SlotInv
  <2>2. \A u, v \in Pending' : packetId'[u] = packetId'[v] => u = v
    BY <1>2, <1>4, <1>6 DEF SessionInv, SlotInv, IdIsFresh
  <2>3. \A i \in Slots : events'[i] # 0 => \E u \in Pending' : ackEvent'[u] = i
    <3> SUFFICES ASSUME NEW i \in Slots, events'[i] # 0
                 PROVE  \E u \in Pending' : ackEvent'[u] = i
      OBVIOUS
    <3>1. CASE i = FirstFree
      BY <1>2, <1>6, <3>1
    <3>2. CASE i # FirstFree
      <4>1. PICK u \in Pending : ackEvent[u] = i
        BY <1>3, <1>5, <3>2 DEF SessionInv, SlotInv, TableInv, TypeOK
      <4> QED
        BY <1>2, <1>6, <4>1
    <3> QED
      BY <3>1, <3>2
  <2> QED
    BY <2>1, <2>2, <2>3 DEF SlotInv
<1>8. LinkInv'
  <2> SUFFICES ASSUME NEW p \in toPeer' \cup fromPeer'
               PROVE  /\ p.owner # NoThread => /\ p.owner \in Pending'
                                               /\ p.id = packetId'[p.owner]
                      /\ \A u \in Pending' : p.id = packetId'[u] => p.owner = u
    BY DEF LinkInv
  <2>1. CASE p \in toPeer \cup fromPeer
    BY <1>2, <1>4, <1>6, <2>1 DEF SessionInv, LinkInv, IdIsFresh
  <2>2. CASE p \notin toPeer \cup fromPeer
    <3>1. p = [id |-> nextPacketId_, owner |-> t]
      BY <2>2 DEF PublishWaitBegin
    <3> QED
      BY <1>2, <1>4, <1>6, <3>1 DEF IdIsFresh
  <2> QED
    BY <2>1, <2>2
<1> QED
  BY <1>1, <1>7, <1>8 DEF SessionInv

\* A call that returns frees its own event and disowns its packets.
LEMMA ReturnSessionInv ==
  ASSUME SessionInv, NEW t \in Threads, PublishWaitReturn(t)
  PROVE  SessionInv'
<1> USE ConstantsAssumption
<1>1. TableInv'
  BY ReturnTableInv DEF SessionInv
<1>2. Pending' = Pending \ {t} /\ t \in Pending
  BY DEF PublishWaitReturn, Pending, SessionInv, TableInv, TypeOK
<1>3. events' = [events EXCEPT ![ackEvent[t]] = 0]
  <2>1. PICK k \in 1 .. Len(ackEvents_) :
          /\ events[ackEvents_[k]] = packetId[t]
          /\ events' = [events EXCEPT ![ackEvents_[k]] = 0]
    BY <1>2, MatchIsOwn, RemoveEventEffect
       DEF PublishWaitReturn, SessionInv, TableInv
  <2>2. ackEvents_[k] = ackEvent[t]
    BY <1>2, <2>1, MatchIsOwn
  <2> QED
    BY <2>1, <2>2
<1>4. \A u \in Pending' : /\ packetId'[u] = packetId[u]
                          /\ ackEvent'[u] = ackEvent[u]
                          /\ ackEvent[u] # ackEvent[t]
                          /\ packetId[u] # packetId[t]
  BY <1>2 DEF PublishWaitReturn, SessionInv, SlotInv, TableInv, TypeOK, Pending
<1>5. SlotInv'
  <2>1. \A u \in Pending' : events'[ackEvent'[u]] = packetId'[u]
    BY <1>2, <1>3, <1>4 DEF SessionInv, SlotInv, TableInv, TypeOK, Pending
  <2>2. \A u, v \in Pending' : packetId'[u] = packetId'[v] => u = v
    BY <1>2, <1>4 DEF SessionInv, SlotInv
  <2>3. \A i \in Slots : events'[i] # 0 => \E u \in Pending' : ackEvent'[u] = i
    <3> SUFFICES ASSUME NEW i \in Slots, events'[i] # 0
                 PROVE  \E u \in Pending' : ackEvent'[u] = i
      OBVIOUS
    <3>1. i # ackEvent[t] /\ events[i] # 0
      BY <1>3 DEF SessionInv, TableInv, TypeOK
    <3>2. PICK u \in Pending : ackEvent[u] = i
      BY <3>1 DEF SessionInv, SlotInv
    <3> QED
      BY <1>2, <1>4, <3>1, <3>2
  <2> QED
    BY <2>1, <2>2, <2>3 DEF SlotInv
<1>6. LinkInv'
  <2> SUFFICES ASSUME NEW q \in toPeer' \cup fromPeer'
               PROVE  /\ q.owner # NoThread => /\ q.owner \in Pending'
                                               /\ q.id = packetId'[q.owner]
                      /\ \A u \in Pending' : q.id = packetId'[u] => q.owner = u
    BY DEF LinkInv
  <2>1. PICK p \in toPeer \cup fromPeer :
          /\ q.id = p.id
          /\ q.owner = IF p.owner = t THEN NoThread ELSE p.owner
    BY DisownedPackets DEF PublishWaitReturn, SessionInv, TableInv, TypeOK
  <2> QED
    BY <1>2, <1>4, <2>1 DEF SessionInv, LinkInv
<1> QED
  BY <1>1, <1>5, <1>6 DEF SessionInv

\* Every step keeps the second invariant.
LEMMA NextSessionInv ==
  ASSUME FreshIds
  PROVE  SessionInv /\ [Next]_vars => SessionInv'
<1> SUFFICES ASSUME SessionInv, [Next]_vars
             PROVE  SessionInv'
  OBVIOUS
<1> USE ConstantsAssumption
<1> USE DEF nodeVars, syncVars, callVars, linkVars
<1>0. TableInv' /\ TypeOK
  BY NextTableInv DEF SessionInv, TableInv
<1>1. ASSUME NEW t \in Threads, Publish(t)
      PROVE  SessionInv'
  BY <1>0, <1>1, SessionFrame DEF Publish
<1>2. ASSUME NEW t \in Threads, PublishWaitBegin(t)
      PROVE  SessionInv'
  BY <1>2, BeginSessionInv
<1>3. ASSUME NEW t \in Threads, PublishWaitRefused(t)
      PROVE  SessionInv'
  BY <1>0, <1>3, SessionFrame DEF PublishWaitRefused
<1>4. ASSUME NEW t \in Threads, PublishWaitReturn(t)
      PROVE  SessionInv'
  BY <1>4, ReturnSessionInv
<1>5. ASSUME NEW t \in Threads, TakeSignal(t)
      PROVE  SessionInv'
  BY <1>0, <1>5, SessionFrame DEF TakeSignal, TypeOK
<1>6. ASSUME NEW t \in Threads, Timeout(t)
      PROVE  SessionInv'
  BY <1>0, <1>6, SessionFrame DEF Timeout, TypeOK
<1>7. ASSUME NEW t \in Threads, EventReset(t)
      PROVE  SessionInv'
  BY <1>0, <1>7, SessionFrame DEF EventReset, TypeOK
<1>8. ASSUME NEW t \in Threads, SpuriousWakeup(t)
      PROVE  SessionInv'
  BY <1>0, <1>8, SessionFrame DEF SpuriousWakeup, TypeOK
<1>9. ASSUME NEW t \in Threads, DeadlinePasses(t)
      PROVE  SessionInv'
  BY <1>0, <1>9, SessionFrame DEF DeadlinePasses
<1>10. ASSUME NEW p \in toPeer, PeerReceives(p)
       PROVE  SessionInv'
  BY <1>0, <1>10, SessionFrame DEF PeerReceives
<1>11. ASSUME NEW p \in toPeer, LosePublish(p)
       PROVE  SessionInv'
  BY <1>0, <1>11, SessionFrame DEF LosePublish
<1>12. ASSUME NEW a \in fromPeer, GiveRxAck(a)
       PROVE  SessionInv'
  <2>1. \A t \in Threads : pc'[t] = "idle" <=> pc[t] = "idle"
    BY <1>12 DEF GiveRxAck, NotifyAll, Waiters
  <2> QED
    BY <1>0, <1>12, <2>1, SessionFrame DEF GiveRxAck
<1>13. ASSUME NEW a \in fromPeer, GiveRxUnexpectedAck(a)
       PROVE  SessionInv'
  BY <1>0, <1>13, SessionFrame DEF GiveRxUnexpectedAck
<1>14. ASSUME NEW a \in fromPeer, LoseAck(a)
       PROVE  SessionInv'
  BY <1>0, <1>14, SessionFrame DEF LoseAck
<1>15. CASE UNCHANGED vars
  BY <1>0, <1>15, SessionFrame DEF vars
<1> QED
  BY <1>1, <1>2, <1>3, <1>4, <1>5, <1>6, <1>7, <1>8, <1>9, <1>10, <1>11,
     <1>12, <1>13, <1>14, <1>15 DEF Next, Call, Wait

-----------------------------------------------------------------------------
(* What holds on every platform when IDs are fresh                         *)

\* The second inductive invariant holds in every behaviour with fresh IDs:
\* calls, events, IDs and packets on the link belong together one to one.
THEOREM SessionInvAlways ==
  ASSUME FreshIds
  PROVE  SafetySpec => []SessionInv
<1> QED
  BY InitSessionInv, NextSessionInv, PTL DEF SafetySpec

\* The AckEvent a call took is its own until the call returns.
THEOREM EventStays ==
  ASSUME FreshIds
  PROVE  SafetySpec => []EventStaysWithCall
<1>1. SessionInv => EventStaysWithCall
  BY DEF SessionInv, SlotInv, EventStaysWithCall
<1> QED
  BY <1>1, SessionInvAlways, PTL

\* The list of AckEvents is as long as there are calls in progress: the events
\* of the calls enumerate the list and both enumerate without repetition.
LEMMA AsManyEventsAsCalls ==
  ASSUME SessionInv
  PROVE  /\ IsFiniteSet(Pending)
         /\ Cardinality(Pending) = Len(ackEvents_)
<1> DEFINE n == Len(ackEvents_)
           used == {ackEvents_[k] : k \in 1 .. n}
           taken == [t \in Pending |-> ackEvent[t]]
<1>1. n \in Nat /\ ackEvents_ \in [1 .. n -> Slots]
  BY LenProperties DEF SessionInv, TableInv, TypeOK
<1>2. used = {i \in Slots : events[i] # 0}
  BY DEF SessionInv, TableInv, EventTable
<1>3. ExistsBijection(1 .. n, used)
  <2>1. ackEvents_ \in [1 .. n -> used]
    BY <1>1
  <2>2. \A j, k \in 1 .. n : ackEvents_[j] = ackEvents_[k] => j = k
    BY DEF SessionInv, TableInv, EventTable
  <2>3. ackEvents_ \in Bijection(1 .. n, used)
    BY <2>1, <2>2 DEF Bijection, Injection, Surjection, IsInjective
  <2> QED
    BY <2>3 DEF ExistsBijection
<1>4. ExistsBijection(used, Pending)
  <2>1. \A t \in Pending : ackEvent[t] \in used
    BY <1>2 DEF SessionInv, SlotInv, TableInv, IdsValid, TypeOK, Pending
  <2>2. \A i \in used : \E t \in Pending : ackEvent[t] = i
    BY <1>2 DEF SessionInv, SlotInv
  <2>3. \A t, u \in Pending : ackEvent[t] = ackEvent[u] => t = u
    BY DEF SessionInv, SlotInv
  <2> HIDE DEF used
  <2>4. taken \in Bijection(Pending, used)
    BY <2>1, <2>2, <2>3 DEF Bijection, Injection, Surjection, IsInjective
  <2> QED
    BY <2>4, Fun_ExistsBijSymmetric DEF ExistsBijection
<1> HIDE DEF used, n
<1>5. IsFiniteSet(used) /\ Cardinality(used) = n
  BY <1>1, <1>3, FS_CountingElements, FS_NatBijection
<1> QED
  BY <1>4, <1>5, FS_Bijection DEF n

\* NumThreadsWaiting tells how many calls are in progress.
THEOREM NumThreadsWaitingIsExact ==
  ASSUME FreshIds
  PROVE  SafetySpec => []NumThreadsWaitingExact
<1>1. SessionInv => NumThreadsWaitingExact
  BY AsManyEventsAsCalls DEF NumThreadsWaitingExact, NumThreadsWaiting
<1> QED
  BY <1>1, SessionInvAlways, PTL

-----------------------------------------------------------------------------
(* The response of a call, and the refinement of AckedPublish             *)

\* The assumptions under which the code can keep its promise.
Trustworthy == Platform = "std" /\ ~SpuriousWakeups /\ FreshIds

\* A blocked call has seen no ACK; a woken one reports "no timeout" exactly if
\* its own ACK woke it and its time is not up.
WaitInv ==
  \A t \in Threads :
    /\ pc[t] # "expired"
    /\ pc[t] = "waiting" => ackSeen[t] = "no"
    /\ pc[t] = "woken" => (waitReturn[t] = NotifiedReturn <=> ackSeen[t] = "timely")

ResponseInv == SessionInv /\ WaitInv /\ ResponseMatchesAck

\* Before the first call there is nothing to report.
LEMMA InitResponseInv == Init => ResponseInv
<1> SUFFICES ASSUME Init PROVE WaitInv /\ ResponseMatchesAck
  BY InitSessionInv DEF ResponseInv
<1> QED
  BY DEF WaitInv, ResponseMatchesAck, SuccessNeedsAck, TimelyAckSucceeds, Init

\* On this platform the two results of wait_for differ.
LEMMA ReturnsDiffer ==
  ASSUME Trustworthy
  PROVE  NotifiedReturn = ESF_NO_TIMEOUT /\ TimeoutReturn # ESF_NO_TIMEOUT
BY DEF Trustworthy, NotifiedReturn, TimeoutReturn, ESF_NO_TIMEOUT

\* The ACK that GiveRxData matches is that of a call in progress, the call that
\* holds the matched event, and nobody else waits on that event.
LEMMA AckOfOwner ==
  ASSUME SessionInv, NEW a \in fromPeer, Matching(a.id) # {}
  PROVE  /\ a.owner \in Pending
         /\ a.id = packetId[a.owner]
         /\ ackEvents_[Min(Matching(a.id))] = ackEvent[a.owner]
         /\ Waiters(ackEvents_[Min(Matching(a.id))])
              = {t \in {a.owner} : pc[t] = "waiting"}
<1> DEFINE i == ackEvents_[Min(Matching(a.id))]
<1>1. a.id \in Ids
  BY DEF SessionInv, TableInv, TypeOK, Packets
<1>2. Min(Matching(a.id)) \in Matching(a.id)
  BY <1>1, FirstMatchIsMatch DEF SessionInv, TableInv
<1>3. i \in Slots /\ events[i] = a.id
  BY <1>2 DEF Matching, SessionInv, TableInv, TypeOK
<1>4. events[i] # 0
  BY <1>2, <1>3 DEF Matching, SessionInv, TableInv, EventTable
<1> HIDE DEF i
<1>5. PICK t \in Pending : ackEvent[t] = i
  BY <1>3, <1>4 DEF SessionInv, SlotInv
<1>6. packetId[t] = a.id
  BY <1>3, <1>5 DEF SessionInv, SlotInv
<1>7. a.owner = t
  BY <1>6 DEF SessionInv, LinkInv
<1>8. \A u \in Threads : u \in Waiters(i) <=> u = t /\ pc[u] = "waiting"
  BY <1>5 DEF Waiters, SessionInv, SlotInv, Pending
<1>9. Waiters(i) = {u \in {a.owner} : pc[u] = "waiting"}
  BY <1>7, <1>8 DEF Waiters, Pending
<1> QED
  BY <1>5, <1>6, <1>7, <1>9 DEF i

\* An ACK nobody waits for is of no call in progress.
LEMMA UnexpectedAckHasNoOwner ==
  ASSUME SessionInv, NEW a \in fromPeer, Matching(a.id) = {}
  PROVE  a.owner \notin Threads
<1> SUFFICES ASSUME a.owner \in Threads
             PROVE  FALSE
  OBVIOUS
<1>1. a.owner \in Pending /\ a.id = packetId[a.owner]
  BY ConstantsAssumption DEF ConstantsAssumption, SessionInv, LinkInv
<1> QED
  BY <1>1, MatchIsOwn

\* Every step keeps the invariant.
LEMMA NextResponseInv ==
  ASSUME Trustworthy
  PROVE  ResponseInv /\ [Next]_vars => ResponseInv'
<1> SUFFICES ASSUME ResponseInv, [Next]_vars
             PROVE  WaitInv' /\ ResponseMatchesAck'
  BY NextSessionInv DEF ResponseInv, Trustworthy
<1> USE ConstantsAssumption
<1> USE DEF nodeVars, syncVars, callVars, linkVars, ResponseMatchesAck,
            SuccessNeedsAck, TimelyAckSucceeds
<1>0. TypeOK /\ WaitInv /\ ResponseMatchesAck /\ SessionInv
  BY DEF ResponseInv, SessionInv, TableInv
<1>1. ASSUME NEW t \in Threads, Publish(t)
      PROVE  WaitInv' /\ ResponseMatchesAck'
  BY <1>0, <1>1 DEF Publish, WaitInv
<1>2. ASSUME NEW t \in Threads, PublishWaitBegin(t)
      PROVE  WaitInv' /\ ResponseMatchesAck'
  BY <1>0, <1>2 DEF PublishWaitBegin, WaitInv, TypeOK
<1>3. ASSUME NEW t \in Threads, PublishWaitRefused(t)
      PROVE  WaitInv' /\ ResponseMatchesAck'
  BY <1>0, <1>3 DEF PublishWaitRefused, WaitInv, TypeOK
<1>4. ASSUME NEW t \in Threads, PublishWaitReturn(t)
      PROVE  WaitInv' /\ ResponseMatchesAck'
  <2>1. response' = [response EXCEPT ![t] = IF ackSeen[t] = "timely"
                                            THEN "SUCCESS" ELSE "TIMEOUT"]
    BY <1>0, <1>4, ReturnsDiffer DEF PublishWaitReturn, WaitInv
  <2> QED
    BY <1>0, <1>4, <2>1 DEF PublishWaitReturn, WaitInv, TypeOK
<1>5. ASSUME NEW t \in Threads, TakeSignal(t)
      PROVE  WaitInv' /\ ResponseMatchesAck'
  BY <1>5 DEF TakeSignal, Trustworthy
<1>6. ASSUME NEW t \in Threads, Timeout(t)
      PROVE  WaitInv' /\ ResponseMatchesAck'
  BY <1>0, <1>6, ReturnsDiffer DEF Timeout, WaitInv, TypeOK, Trustworthy
<1>7. ASSUME NEW t \in Threads, EventReset(t)
      PROVE  WaitInv' /\ ResponseMatchesAck'
  BY <1>0, <1>7 DEF EventReset, WaitInv
<1>8. ASSUME NEW t \in Threads, SpuriousWakeup(t)
      PROVE  WaitInv' /\ ResponseMatchesAck'
  BY <1>8 DEF SpuriousWakeup, Trustworthy
<1>9. ASSUME NEW t \in Threads, DeadlinePasses(t)
      PROVE  WaitInv' /\ ResponseMatchesAck'
  BY <1>0, <1>9, ReturnsDiffer DEF DeadlinePasses, WaitInv, TypeOK
<1>10. ASSUME NEW p \in toPeer, PeerReceives(p) \/ LosePublish(p)
       PROVE  WaitInv' /\ ResponseMatchesAck'
  BY <1>0, <1>10 DEF PeerReceives, LosePublish, WaitInv
<1>11. ASSUME NEW a \in fromPeer, GiveRxAck(a)
       PROVE  WaitInv' /\ ResponseMatchesAck'
  <2>1. /\ a.owner \in Pending
        /\ Waiters(ackEvents_[Min(Matching(a.id))])
             = {t \in {a.owner} : pc[t] = "waiting"}
    BY <1>0, <1>11, AckOfOwner DEF GiveRxAck
  <2>2. \A t \in Threads :
          /\ pc'[t] = IF t = a.owner /\ pc[t] = "waiting" THEN "woken" ELSE pc[t]
          /\ waitReturn'[t] = IF t = a.owner /\ pc[t] = "waiting"
                              THEN NotifiedReturn ELSE waitReturn[t]
    BY <1>11, <2>1 DEF GiveRxAck, NotifyAll
  <2>3. \A t \in Threads :
          ackSeen'[t] = IF t = a.owner /\ pc[t] = "waiting" THEN "timely"
                        ELSE IF t = a.owner /\ ackSeen[t] = "no" THEN "late"
                        ELSE ackSeen[t]
    BY <1>11 DEF GiveRxAck, Witness
  <2>4. response' = response /\ pc[a.owner] # "idle"
    BY <1>11, <2>1 DEF GiveRxAck, Pending
  <2> QED
    BY <1>0, <2>2, <2>3, <2>4 DEF WaitInv
<1>12. ASSUME NEW a \in fromPeer, GiveRxUnexpectedAck(a)
       PROVE  WaitInv' /\ ResponseMatchesAck'
  <2>1. a.owner \notin Threads
    BY <1>0, <1>12, UnexpectedAckHasNoOwner DEF GiveRxUnexpectedAck
  <2>2. \A t \in Threads : ackSeen'[t] = ackSeen[t]
    BY <1>12, <2>1 DEF GiveRxUnexpectedAck, Witness
  <2> QED
    BY <1>0, <1>12, <2>2 DEF GiveRxUnexpectedAck, WaitInv
<1>13. ASSUME NEW a \in fromPeer, LoseAck(a)
       PROVE  WaitInv' /\ ResponseMatchesAck'
  BY <1>0, <1>13 DEF LoseAck, WaitInv
<1>14. CASE UNCHANGED vars
  BY <1>0, <1>14 DEF vars, WaitInv
<1> QED
  BY <1>1, <1>2, <1>3, <1>4, <1>5, <1>6, <1>7, <1>8, <1>9, <1>10, <1>11,
     <1>12, <1>13, <1>14 DEF Next, Call, Wait

\* The invariant holds in every behaviour under the assumptions named above.
THEOREM ResponseInvAlways ==
  ASSUME Trustworthy
  PROVE  SafetySpec => []ResponseInv
<1> QED
  BY InitResponseInv, NextResponseInv, PTL DEF SafetySpec

\* PublishWait returns SUCCESS exactly when the ACK of its own packet reached it
\* while it was blocked and in time.
THEOREM ResponseIsExact ==
  ASSUME Trustworthy
  PROVE  SafetySpec => []ResponseMatchesAck
<1>1. ResponseInv => ResponseMatchesAck
  BY DEF ResponseInv
<1> QED
  BY <1>1, ResponseInvAlways, PTL

\* A blocked thread is woken by the ACK of its own packet and by no other.
THEOREM OnlyOwnAckWakes ==
  ASSUME Trustworthy
  PROVE  SafetySpec => WokenByOwnAck
<1> DEFINE Woken(t) == /\ pc[t] = "waiting"
                       /\ pc'[t] = "woken"
                       /\ waitReturn'[t] = NotifiedReturn
           Own(t) == \E a \in fromPeer : a.owner = t /\ a.id = packetId[t]
<1>1. ASSUME ResponseInv, [Next]_vars, NEW t \in Threads, Woken(t)
      PROVE  Own(t)
  <2> USE DEF nodeVars, syncVars, callVars, linkVars
  <2>0. TypeOK /\ SessionInv
    BY <1>1 DEF ResponseInv, SessionInv, TableInv
  <2>1. ASSUME NEW u \in Threads, Call(u)
        PROVE  pc'[t] # "woken" \/ pc[t] = "woken"
    BY <2>0, <2>1 DEF Call, Publish, PublishWaitBegin, PublishWaitRefused,
                      PublishWaitReturn, TypeOK
  <2>2. ASSUME NEW u \in Threads, Wait(u)
        PROVE  waitReturn'[t] # NotifiedReturn \/ pc'[t] # "woken" \/ pc[t] # "waiting"
    BY <2>0, <2>2, ReturnsDiffer
       DEF Wait, TakeSignal, Timeout, EventReset, SpuriousWakeup,
           DeadlinePasses, TypeOK, Trustworthy
  <2>3. ASSUME NEW p \in toPeer, PeerReceives(p) \/ LosePublish(p)
        PROVE  pc' = pc
    BY <2>3 DEF PeerReceives, LosePublish
  <2>4. ASSUME NEW a \in fromPeer, GiveRxAck(a)
        PROVE  Own(t)
    <3>1. t \in Waiters(ackEvents_[Min(Matching(a.id))])
      BY <1>1, <2>4 DEF GiveRxAck, NotifyAll
    <3>2. t = a.owner /\ a.id = packetId[t]
      BY <2>0, <2>4, <3>1, AckOfOwner DEF GiveRxAck
    <3> QED
      BY <3>2
  <2>5. ASSUME NEW a \in fromPeer, GiveRxUnexpectedAck(a) \/ LoseAck(a)
        PROVE  pc' = pc
    BY <2>5 DEF GiveRxUnexpectedAck, LoseAck
  <2>6. CASE UNCHANGED vars
    BY <1>1, <2>6 DEF vars
  <2> QED
    BY <1>1, <2>1, <2>2, <2>3, <2>4, <2>5, <2>6 DEF Next
<1>2. ResponseInv /\ [Next]_vars =>
        [\A t \in Threads : Woken(t) => Own(t)]_vars
  BY <1>1
<1> QED
  BY <1>2, ResponseInvAlways, PTL DEF SafetySpec, WokenByOwnAck

-----------------------------------------------------------------------------
(* Half of the promise, on every platform                                  *)

\* On FreeRTOS wait_for keeps the lock.  So no ACK is handled while a call is
\* blocked, no event group is ever set, and every wait ends with a timeout.
DeafInv ==
  /\ \A t \in Pending : mutex = t
  /\ \A i \in Slots : ~signal[i]
  /\ \A t \in Threads : ackSeen[t] = "no"
  /\ \A t \in Threads : pc[t] # "expired"
  /\ \A t \in Threads : pc[t] = "woken" => waitReturn[t] = TimeoutReturn

\* Every step on FreeRTOS keeps the invariant.
LEMMA NextDeafInv ==
  ASSUME Platform = "freertos", SessionInv, DeafInv, [Next]_vars
  PROVE  DeafInv'
<1> USE ConstantsAssumption DEF ConstantsAssumption
<1> USE DEF nodeVars, syncVars, callVars, linkVars
<1>0. TypeOK
  BY DEF SessionInv, TableInv
<1>1. ASSUME NEW t \in Threads, Publish(t) PROVE DeafInv'
  BY <1>1 DEF Publish, DeafInv, Pending
<1>2. ASSUME NEW t \in Threads, PublishWaitBegin(t) PROVE DeafInv'
  BY <1>0, <1>2 DEF PublishWaitBegin, DeafInv, Pending, TypeOK
<1>3. ASSUME NEW t \in Threads, PublishWaitRefused(t) PROVE DeafInv'
  BY <1>0, <1>3 DEF PublishWaitRefused, DeafInv, Pending, TypeOK
<1>4. ASSUME NEW t \in Threads, PublishWaitReturn(t) PROVE DeafInv'
  BY <1>0, <1>4 DEF PublishWaitReturn, DeafInv, Pending, TypeOK
<1>5. ASSUME NEW t \in Threads, Timeout(t) PROVE DeafInv'
  BY <1>0, <1>5 DEF Timeout, DeafInv, Pending, TypeOK
<1>6. ASSUME NEW t \in Threads, EventReset(t) \/ TakeSignal(t) PROVE FALSE
  BY <1>0, <1>6 DEF EventReset, TakeSignal, DeafInv, TypeOK
<1>7. ASSUME NEW t \in Threads, SpuriousWakeup(t) \/ DeadlinePasses(t)
      PROVE  FALSE
  BY <1>7 DEF SpuriousWakeup, DeadlinePasses
<1>8. ASSUME NEW p \in toPeer, PeerReceives(p) \/ LosePublish(p) PROVE DeafInv'
  BY <1>8 DEF PeerReceives, LosePublish, DeafInv, Pending
<1>9. ASSUME NEW a \in fromPeer, GiveRxAck(a) PROVE FALSE
  <2>1. a.owner \in Pending
    BY <1>9, AckOfOwner DEF GiveRxAck
  <2> QED
    BY <1>9, <2>1 DEF GiveRxAck, DeafInv, Pending
<1>10. ASSUME NEW a \in fromPeer, GiveRxUnexpectedAck(a) PROVE DeafInv'
  <2>1. a.owner \notin Threads
    BY <1>10, UnexpectedAckHasNoOwner DEF GiveRxUnexpectedAck
  <2>2. \A t \in Threads : ackSeen'[t] = ackSeen[t]
    BY <1>10, <2>1 DEF GiveRxUnexpectedAck, Witness
  <2> QED
    BY <1>10, <2>2 DEF GiveRxUnexpectedAck, DeafInv, Pending
<1>11. ASSUME NEW a \in fromPeer, LoseAck(a) PROVE DeafInv'
  BY <1>11 DEF LoseAck, DeafInv, Pending
<1>12. CASE UNCHANGED vars
  BY <1>12 DEF vars, DeafInv, Pending
<1> QED
  BY <1>1, <1>2, <1>3, <1>4, <1>5, <1>6, <1>7, <1>8, <1>9, <1>10, <1>11,
     <1>12 DEF Next, Call, Wait

\* A woken call on FreeRTOS is about to report success, and nobody has heard of
\* its packet.
SuccessUnheard ==
  \A t \in Threads :
    /\ ackSeen[t] = "no"
    /\ pc[t] = "woken" => waitReturn[t] = ESF_NO_TIMEOUT

\* On FreeRTOS every call that gets as far as waiting is reported as acknowledged
\* and none ever is: SuccessNeedsAck is not violated now and then, but always.
THEOREM FreeRtosAlwaysReportsSuccess ==
  ASSUME Platform = "freertos", FreshIds
  PROVE  SafetySpec => []SuccessUnheard
<1>1. Init => DeafInv
  BY DEF Init, DeafInv, Pending
<1>2. SessionInv /\ DeafInv /\ [Next]_vars => DeafInv'
  BY NextDeafInv
<1>3. DeafInv => SuccessUnheard
  BY DEF DeafInv, SuccessUnheard, TimeoutReturn, ESF_NO_TIMEOUT
<1> QED
  BY <1>1, <1>2, <1>3, SessionInvAlways, PTL DEF SafetySpec

\* A call that is not out of the OS wait has not heard its ACK in time; one that
\* is, and has, reports a notification.
HearInv ==
  /\ \A t \in Threads :
       /\ pc[t] \in {"waiting", "expired"} => ackSeen[t] # "timely"
       /\ pc[t] = "woken" /\ ackSeen[t] = "timely" => waitReturn[t] = NotifiedReturn
  /\ TimelyAckSucceeds

\* Every step on the other platforms keeps the invariant.
LEMMA NextHearInv ==
  ASSUME Platform # "freertos", SessionInv, HearInv, [Next]_vars
  PROVE  HearInv'
<1> USE ConstantsAssumption
<1> USE DEF nodeVars, syncVars, callVars, linkVars, HearInv, TimelyAckSucceeds
<1>0. TypeOK
  BY DEF SessionInv, TableInv
<1>a. NotifiedReturn = ESF_NO_TIMEOUT
  BY DEF NotifiedReturn, ESF_NO_TIMEOUT
<1>1. ASSUME NEW t \in Threads, Publish(t) PROVE HearInv'
  BY <1>1 DEF Publish
<1>2. ASSUME NEW t \in Threads, PublishWaitBegin(t) PROVE HearInv'
  BY <1>0, <1>2 DEF PublishWaitBegin, TypeOK
<1>3. ASSUME NEW t \in Threads, PublishWaitRefused(t) PROVE HearInv'
  BY <1>0, <1>3 DEF PublishWaitRefused, TypeOK
<1>4. ASSUME NEW t \in Threads, PublishWaitReturn(t) PROVE HearInv'
  BY <1>0, <1>a, <1>4 DEF PublishWaitReturn, TypeOK
<1>5. ASSUME NEW t \in Threads, TakeSignal(t) PROVE HearInv'
  BY <1>0, <1>5 DEF TakeSignal, TypeOK
<1>6. ASSUME NEW t \in Threads, Timeout(t) PROVE HearInv'
  BY <1>0, <1>6 DEF Timeout, TypeOK
<1>7. ASSUME NEW t \in Threads, EventReset(t) PROVE HearInv'
  BY <1>0, <1>7 DEF EventReset, TypeOK
<1>8. ASSUME NEW t \in Threads, SpuriousWakeup(t) PROVE HearInv'
  BY <1>0, <1>8 DEF SpuriousWakeup, TypeOK
<1>9. ASSUME NEW t \in Threads, DeadlinePasses(t) PROVE HearInv'
  BY <1>0, <1>9 DEF DeadlinePasses, TypeOK
<1>10. ASSUME NEW p \in toPeer, PeerReceives(p) \/ LosePublish(p) PROVE HearInv'
  BY <1>10 DEF PeerReceives, LosePublish
<1>11. ASSUME NEW a \in fromPeer, GiveRxAck(a) PROVE HearInv'
  <2>1. /\ a.owner \in Pending
        /\ Waiters(ackEvents_[Min(Matching(a.id))])
             = {t \in {a.owner} : pc[t] = "waiting"}
    BY <1>11, AckOfOwner DEF GiveRxAck
  <2>2. \A t \in Threads :
          /\ pc'[t] = IF t = a.owner /\ pc[t] = "waiting" THEN "woken" ELSE pc[t]
          /\ waitReturn'[t] = IF t = a.owner /\ pc[t] = "waiting"
                              THEN NotifiedReturn ELSE waitReturn[t]
    BY <1>11, <2>1 DEF GiveRxAck, NotifyAll
  <2>3. \A t \in Threads :
          ackSeen'[t] = IF t = a.owner /\ pc[t] = "waiting" THEN "timely"
                        ELSE IF t = a.owner /\ ackSeen[t] = "no" THEN "late"
                        ELSE ackSeen[t]
    BY <1>11 DEF GiveRxAck, Witness
  <2>4. response' = response /\ pc[a.owner] # "idle"
    BY <1>11, <2>1 DEF GiveRxAck, Pending
  <2> QED
    BY <2>2, <2>3, <2>4
<1>12. ASSUME NEW a \in fromPeer, GiveRxUnexpectedAck(a) PROVE HearInv'
  <2>1. a.owner \notin Threads
    BY <1>12, UnexpectedAckHasNoOwner DEF GiveRxUnexpectedAck
  <2>2. \A t \in Threads : ackSeen'[t] = ackSeen[t]
    BY <1>12, <2>1 DEF GiveRxUnexpectedAck, Witness
  <2> QED
    BY <1>12, <2>2 DEF GiveRxUnexpectedAck
<1>13. ASSUME NEW a \in fromPeer, LoseAck(a) PROVE HearInv'
  BY <1>13 DEF LoseAck
<1>14. CASE UNCHANGED vars
  BY <1>14 DEF vars
<1> QED
  BY <1>1, <1>2, <1>3, <1>4, <1>5, <1>6, <1>7, <1>8, <1>9, <1>10, <1>11,
     <1>12, <1>13, <1>14 DEF Next, Call, Wait

\* A call whose ACK came in time returns SUCCESS, on every platform and with
\* spurious wakeups too; on FreeRTOS because no ACK ever comes in time.
THEOREM TimelyAckReturnsSuccess ==
  ASSUME FreshIds
  PROVE  SafetySpec => []TimelyAckSucceeds
<1>1. CASE Platform = "freertos"
  <2>1. SuccessUnheard => TimelyAckSucceeds
    BY DEF SuccessUnheard, TimelyAckSucceeds
  <2>2. SafetySpec => []SuccessUnheard
    BY <1>1, FreeRtosAlwaysReportsSuccess
  <2> QED
    BY <2>1, <2>2, PTL
<1>2. CASE Platform # "freertos"
  <2>1. Init => HearInv
    BY DEF Init, HearInv, TimelyAckSucceeds
  <2>2. SessionInv /\ HearInv /\ [Next]_vars => HearInv'
    BY <1>2, NextHearInv
  <2>3. HearInv => TimelyAckSucceeds
    BY DEF HearInv
  <2> QED
    BY <2>1, <2>2, <2>3, SessionInvAlways, PTL DEF SafetySpec
<1> QED
  BY <1>1, <1>2

-----------------------------------------------------------------------------
(* The refinement of AckedPublish                                          *)

\* What a call in each position is to the abstract specification.
LEMMA AbstractCallCases ==
  ASSUME WaitInv, TypeOK, NEW t \in Threads
  PROVE  /\ pc[t] = "idle" => AbstractCall(t) = "idle"
         /\ pc[t] = "waiting" => AbstractCall(t) = "waiting"
         /\ pc[t] = "woken" /\ ackSeen[t] = "timely" => AbstractCall(t) = "acked"
         /\ pc[t] = "woken" /\ ackSeen[t] # "timely" => AbstractCall(t) = "expired"
         /\ pc[t] \in {"idle", "waiting", "woken"}
BY DEF WaitInv, AbstractCall, TypeOK, Pcs

\* The verdict on a call depends on its position and on its ACK.
LEMMA SameCall ==
  ASSUME NEW t \in Threads, pc'[t] = pc[t], ackSeen'[t] = ackSeen[t]
  PROVE  AbstractCall(t)' = AbstractCall(t)
BY DEF AbstractCall

\* A step that keeps the position and the verdict of every call, and the
\* responses, is invisible to the abstract specification.
LEMMA Invisible ==
  ASSUME response' = response, ackEvents_' = ackEvents_,
         \A t \in Threads : AbstractCall(t)' = AbstractCall(t)
  PROVE  UNCHANGED Abstract!vars
BY DEF Abstract!vars, NumThreadsWaiting

\* A step that changes the call of one thread shows as a new value of call.
LEMMA OneCallChanges ==
  ASSUME NEW t \in Threads, NEW v, AbstractCall(t)' = v,
         \A u \in Threads \ {t} : AbstractCall(u)' = AbstractCall(u)
  PROVE  [u \in Threads |-> AbstractCall(u)]'
           = [[u \in Threads |-> AbstractCall(u)] EXCEPT ![t] = v]
OBVIOUS

\* Every step of the node is a step of the abstract specification or invisible.
LEMMA StepSimulation ==
  ASSUME Trustworthy, ResponseInv, ResponseInv', [Next]_vars
  PROVE  [Abstract!Next]_(Abstract!vars)
<1> USE ConstantsAssumption
<1> USE DEF nodeVars, syncVars, callVars, linkVars
<1>0. /\ TypeOK /\ WaitInv /\ SessionInv
      /\ TypeOK' /\ WaitInv'
  BY DEF ResponseInv, SessionInv, TableInv
<1>a. /\ \A t \in Threads :
           /\ pc[t] = "idle" => AbstractCall(t) = "idle"
           /\ pc[t] = "waiting" => AbstractCall(t) = "waiting"
           /\ pc[t] = "woken" /\ ackSeen[t] = "timely" => AbstractCall(t) = "acked"
           /\ pc[t] = "woken" /\ ackSeen[t] # "timely" => AbstractCall(t) = "expired"
           /\ pc[t] \in {"idle", "waiting", "woken"}
  BY <1>0, AbstractCallCases
<1>b. /\ \A t \in Threads :
           /\ pc'[t] = "idle" => AbstractCall(t)' = "idle"
           /\ pc'[t] = "waiting" => AbstractCall(t)' = "waiting"
           /\ pc'[t] = "woken" /\ ackSeen'[t] = "timely" => AbstractCall(t)' = "acked"
           /\ pc'[t] = "woken" /\ ackSeen'[t] # "timely" => AbstractCall(t)' = "expired"
           /\ pc'[t] \in {"idle", "waiting", "woken"}
  BY <1>0 DEF WaitInv, AbstractCall, TypeOK, Pcs
<1>1. ASSUME NEW t \in Threads, Publish(t)
      PROVE  UNCHANGED Abstract!vars
  BY <1>1, Invisible DEF Publish, AbstractCall
<1>2. ASSUME NEW t \in Threads, PublishWaitBegin(t)
      PROVE  Abstract!Begin(t)
  <2>1. /\ NumThreadsWaiting < MaxPendingAcks
        /\ NumThreadsWaiting' = NumThreadsWaiting + 1
    BY <1>0, <1>2 DEF PublishWaitBegin, CanRegister, NumThreadsWaiting, TypeOK
  <2>2. /\ pc' = [pc EXCEPT ![t] = "waiting"]
        /\ ackSeen' = [ackSeen EXCEPT ![t] = "no"]
        /\ pc[t] = "idle"
        /\ response' = [response EXCEPT ![t] = "UNKNOWN"]
    BY <1>2 DEF PublishWaitBegin
  <2>3. AbstractCall(t)' = "waiting"
    BY <1>0, <1>b, <2>2 DEF TypeOK
  <2>4. \A u \in Threads \ {t} : AbstractCall(u)' = AbstractCall(u)
    BY <1>0, <2>2, SameCall DEF TypeOK
  <2>5. [u \in Threads |-> AbstractCall(u)]'
          = [[u \in Threads |-> AbstractCall(u)] EXCEPT ![t] = "waiting"]
    BY <2>3, <2>4, OneCallChanges
  <2>6. AbstractCall(t) = "idle"
    BY <1>a, <2>2
  <2> QED
    BY <2>1, <2>2, <2>5, <2>6 DEF Abstract!Begin
<1>3. ASSUME NEW t \in Threads, PublishWaitRefused(t)
      PROVE  Abstract!Refuse(t)
  <2>1. NumThreadsWaiting = MaxPendingAcks
    <3>1. Len(ackEvents_) >= MaxPendingAcks
      BY <1>0, <1>3, RoomMeansFree, LenProperties
         DEF PublishWaitRefused, CanRegister, IndexAlwaysFound, SessionInv,
             TableInv, TypeOK, ConstantsAssumption
    <3>2. Len(ackEvents_) <= MaxPendingAcks
      BY <1>0, NeverMoreThanEvents DEF SessionInv
    <3> QED
      BY <1>0, <3>1, <3>2, LenProperties
         DEF TypeOK, ConstantsAssumption, NumThreadsWaiting
  <2>2. /\ UNCHANGED pc
        /\ ackSeen' = [ackSeen EXCEPT ![t] = "no"]
        /\ pc[t] = "idle"
        /\ response' = [response EXCEPT ![t] = "TIMEOUT"]
        /\ ackEvents_' = ackEvents_
    BY <1>3 DEF PublishWaitRefused
  <2>3. \A u \in Threads : AbstractCall(u)' = AbstractCall(u)
    BY <1>0, <1>a, <1>b, <2>2 DEF TypeOK
  <2> QED
    BY <1>a, <2>1, <2>2, <2>3 DEF Abstract!Refuse, NumThreadsWaiting
<1>4. ASSUME NEW t \in Threads, PublishWaitReturn(t)
      PROVE  Abstract!Finish(t)
  <2>1. /\ pc' = [pc EXCEPT ![t] = "idle"]
        /\ ackSeen' = ackSeen
        /\ pc[t] = "woken"
        /\ response' = [response EXCEPT ![t] =
                          IF waitReturn[t] = ESF_NO_TIMEOUT THEN "SUCCESS"
                                                            ELSE "TIMEOUT"]
    BY <1>4 DEF PublishWaitReturn
  <2>2. AbstractCall(t)' = "idle"
    BY <1>0, <1>b, <2>1 DEF TypeOK
  <2>3. \A u \in Threads \ {t} : AbstractCall(u)' = AbstractCall(u)
    BY <1>0, <2>1, SameCall DEF TypeOK
  <2>4. [u \in Threads |-> AbstractCall(u)]'
          = [[u \in Threads |-> AbstractCall(u)] EXCEPT ![t] = "idle"]
    BY <2>2, <2>3, OneCallChanges
  <2>6. NumThreadsWaiting' = NumThreadsWaiting - 1
    <3>1. t \in Pending
      BY <2>1 DEF Pending
    <3> QED
      BY <1>0, <1>4, <3>1, MatchIsOwn, RemoveEventEffect
         DEF PublishWaitReturn, NumThreadsWaiting
  <2>5. /\ AbstractCall(t) \in {"acked", "expired"}
        /\ AbstractCall(t) = "acked" <=> waitReturn[t] = ESF_NO_TIMEOUT
    BY <1>0, <1>a, <2>1, ReturnsDiffer DEF WaitInv
  <2> QED
    BY <2>1, <2>4, <2>5, <2>6 DEF Abstract!Finish
<1>5. ASSUME NEW t \in Threads, Timeout(t)
      PROVE  Abstract!Expire(t)
  <2>1. /\ pc' = [pc EXCEPT ![t] = "woken"]
        /\ ackSeen' = ackSeen
        /\ pc[t] = "waiting"
        /\ response' = response
        /\ ackEvents_' = ackEvents_
    BY <1>5 DEF Timeout, Trustworthy
  <2>2. AbstractCall(t)' = "expired"
    BY <1>0, <1>b, <2>1 DEF TypeOK, WaitInv
  <2>3. \A u \in Threads \ {t} : AbstractCall(u)' = AbstractCall(u)
    BY <1>0, <2>1, SameCall DEF TypeOK
  <2>4. [u \in Threads |-> AbstractCall(u)]'
          = [[u \in Threads |-> AbstractCall(u)] EXCEPT ![t] = "expired"]
    BY <2>2, <2>3, OneCallChanges
  <2>5. AbstractCall(t) = "waiting"
    BY <1>a, <2>1
  <2> QED
    BY <2>1, <2>4, <2>5 DEF Abstract!Expire, NumThreadsWaiting
<1>6. ASSUME NEW t \in Threads, DeadlinePasses(t)
      PROVE  Abstract!Expire(t) \/ UNCHANGED Abstract!vars
  <2>1. /\ pc' = pc /\ pc[t] = "woken" /\ response' = response
        /\ ackEvents_' = ackEvents_
        /\ ackSeen' = [ackSeen EXCEPT ![t] = IF @ = "timely" THEN "late" ELSE @]
    BY <1>6 DEF DeadlinePasses
  <2>2. ackSeen[t] = "timely"
    BY <1>0, <1>6 DEF DeadlinePasses, WaitInv
  <2>3. AbstractCall(t) = "acked" /\ AbstractCall(t)' = "expired"
    BY <1>0, <1>a, <1>b, <2>1, <2>2 DEF TypeOK
  <2>4. \A u \in Threads \ {t} : AbstractCall(u)' = AbstractCall(u)
    BY <1>0, <2>1, SameCall DEF TypeOK
  <2>5. [u \in Threads |-> AbstractCall(u)]'
          = [[u \in Threads |-> AbstractCall(u)] EXCEPT ![t] = "expired"]
    BY <2>3, <2>4, OneCallChanges
  <2> QED
    BY <2>1, <2>3, <2>5 DEF Abstract!Expire, NumThreadsWaiting
<1>7. ASSUME NEW t \in Threads,
             TakeSignal(t) \/ EventReset(t) \/ SpuriousWakeup(t)
      PROVE  FALSE
  BY <1>0, <1>7
     DEF TakeSignal, EventReset, SpuriousWakeup, Trustworthy, WaitInv
<1>8. ASSUME NEW p \in toPeer, PeerReceives(p) \/ LosePublish(p)
      PROVE  UNCHANGED Abstract!vars
  BY <1>8, Invisible DEF PeerReceives, LosePublish, AbstractCall
<1>9. ASSUME NEW a \in fromPeer, GiveRxAck(a)
      PROVE  Abstract!Acknowledge(a.owner) \/ UNCHANGED Abstract!vars
  <2>1. /\ a.owner \in Threads
        /\ Waiters(ackEvents_[Min(Matching(a.id))])
             = {t \in {a.owner} : pc[t] = "waiting"}
    BY <1>0, <1>9, AckOfOwner DEF GiveRxAck, Pending
  <2>2. \A t \in Threads :
          /\ pc'[t] = IF t = a.owner /\ pc[t] = "waiting" THEN "woken" ELSE pc[t]
          /\ ackSeen'[t] = IF t = a.owner /\ pc[t] = "waiting" THEN "timely"
                           ELSE IF t = a.owner /\ ackSeen[t] = "no" THEN "late"
                           ELSE ackSeen[t]
    BY <1>9, <2>1 DEF GiveRxAck, NotifyAll, Witness
  <2>3. response' = response /\ ackEvents_' = ackEvents_
    BY <1>9 DEF GiveRxAck
  <2>4. \A u \in Threads \ {a.owner} : AbstractCall(u)' = AbstractCall(u)
    BY <1>a, <1>b, <2>2
  <2>5. CASE pc[a.owner] = "waiting"
    <3>1. AbstractCall(a.owner) = "waiting" /\ AbstractCall(a.owner)' = "acked"
      BY <1>a, <1>b, <2>1, <2>2, <2>5
    <3>2. [u \in Threads |-> AbstractCall(u)]'
            = [[u \in Threads |-> AbstractCall(u)] EXCEPT ![a.owner] = "acked"]
      BY <2>1, <2>4, <3>1, OneCallChanges
    <3> QED
      BY <2>1, <2>3, <3>1, <3>2 DEF Abstract!Acknowledge, NumThreadsWaiting
  <2>6. CASE pc[a.owner] # "waiting"
    <3>1. AbstractCall(a.owner)' = AbstractCall(a.owner)
      BY <1>a, <1>b, <2>1, <2>2, <2>6
    <3> QED
      BY <2>3, <2>4, <3>1, Invisible
  <2> QED
    BY <2>5, <2>6
<1>10. ASSUME NEW a \in fromPeer, GiveRxUnexpectedAck(a) \/ LoseAck(a)
       PROVE  UNCHANGED Abstract!vars
  <2>1. ackSeen' = ackSeen
    <3>1. CASE GiveRxUnexpectedAck(a)
      <4>1. a.owner \notin Threads
        BY <1>0, <3>1, UnexpectedAckHasNoOwner DEF GiveRxUnexpectedAck
      <4> QED
        BY <1>0, <3>1, <4>1 DEF GiveRxUnexpectedAck, Witness, TypeOK
    <3>2. CASE LoseAck(a)
      BY <3>2 DEF LoseAck
    <3> QED
      BY <1>10, <3>1, <3>2
  <2> QED
    BY <1>10, <2>1, Invisible DEF GiveRxUnexpectedAck, LoseAck, AbstractCall
<1>11. CASE UNCHANGED vars
  BY <1>11, Invisible DEF vars, AbstractCall
<1>12. ASSUME NEW a \in fromPeer, GiveRxAck(a)
       PROVE  a.owner \in Threads
  BY <1>0, <1>12, AckOfOwner DEF GiveRxAck, Pending
<1> QED
  BY <1>1, <1>2, <1>3, <1>4, <1>5, <1>6, <1>7, <1>8, <1>9, <1>10, <1>11, <1>12
     DEF Next, Call, Wait, Abstract!Next

\* PublishWait implements acknowledged publishing, as far as safety goes.
THEOREM SafetyRefinement ==
  ASSUME Trustworthy
  PROVE  SafetySpec => ImplementsAckedPublishSafety
<1>1. Init => Abstract!Init
  BY DEF Init, Abstract!Init, AbstractCall, NumThreadsWaiting
<1>2. ResponseInv /\ ResponseInv' /\ [Next]_vars => [Abstract!Next]_(Abstract!vars)
  BY StepSimulation
<1> QED
  BY <1>1, <1>2, ResponseInvAlways, PTL
     DEF SafetySpec, ImplementsAckedPublishSafety, Abstract!SafetySpec
=============================================================================
