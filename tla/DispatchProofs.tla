--------------------------- MODULE DispatchProofs ----------------------------
(***************************************************************************)
(* Proofs about Dispatch, for any topics, any capacity of the tables and   *)
(* any number of subscriptions.  One inductive invariant, DispatchInv,     *)
(* carries all of its properties.                                          *)
(***************************************************************************)
EXTENDS Dispatch, SequenceLemmas, TLAPS, SequenceTheorems, FiniteSetTheorems

SubscriberType == [topic : Topics, subscribers : Seq(SubscriberIds)]

\* IDs are given out in order: those in use are below the next one.
IdsGiven ==
  \A k \in Entries : \A i \in DOMAIN SubscribersAt(k) :
    SubscribersAt(k)[i] < nextFreeSubsriberId_

\* TopicsUnique without Cardinality.
TopicsDistinct ==
  \A k, l \in Entries : subscribers_[k].topic = subscribers_[l].topic => k = l

\* Who has been called is not ahead of the iterator, nor can be: new subscribers
\* get new IDs.
NobodyAhead ==
  rx = "calling" =>
    \A i \in DOMAIN called :
      /\ called[i] < nextFreeSubsriberId_
      /\ \A j \in DOMAIN SubscribersAt(it) :
           j > subIter => SubscribersAt(it)[j] # called[i]

\* Who is owed the message is in the entry the loop goes through.
OwedAreListed ==
  /\ rx = "calling" /\ ~disturbed => owed \subseteq ToSet(SubscribersAt(it))
  /\ rx = "noListener" => owed = {}

\* The table.
SubscriptionsInv == TypeOK /\ IdsUnique /\ IdsGiven /\ TopicsDistinct

\* The inductive invariant.
DispatchInv ==
  /\ SubscriptionsInv
  /\ IteratorsHold
  /\ AstrayOnlyIfDisturbed
  /\ NobodyTwice
  /\ NobodyAhead
  /\ OwedAreListed
  /\ EveryoneCalled

-----------------------------------------------------------------------------
(* What the operations do to the table                                     *)

\* Every entry, and the lack of one, is a sequence of IDs.
EntriesWellTyped ==
  /\ Len(subscribers_) \in Nat
  /\ \A k : /\ SubscribersAt(k) \in Seq(SubscriberIds)
            /\ Len(SubscribersAt(k)) \in Nat
            /\ DOMAIN SubscribersAt(k) = 1 .. Len(SubscribersAt(k))
            /\ \A i \in DOMAIN SubscribersAt(k) :
                 SubscribersAt(k)[i] \in SubscriberIds
  /\ \A k \in Entries : /\ subscribers_[k] \in SubscriberType
                       /\ Len(SubscribersAt(k)) <= MaxSubscribers

\* TypeOK says so of the entries there are.
LEMMA EntryTypes == TypeOK => EntriesWellTyped
<1> SUFFICES ASSUME TypeOK PROVE EntriesWellTyped
  OBVIOUS
<1>1. subscribers_ \in Seq(SubscriberType)
  BY DEF TypeOK, SubscriberType
<1>2. \A k \in Entries : subscribers_[k] \in SubscriberType
  BY <1>1, ElementOfSeq DEF Entries
<1>3. \A k : SubscribersAt(k) \in Seq(SubscriberIds)
  BY <1>2, EmptySeq DEF SubscribersAt, SubscriberType
<1>4. \A k : /\ Len(SubscribersAt(k)) \in Nat
            /\ DOMAIN SubscribersAt(k) = 1 .. Len(SubscribersAt(k))
            /\ \A i \in DOMAIN SubscribersAt(k) :
                 SubscribersAt(k)[i] \in SubscriberIds
  <2> TAKE k
  <2> DEFINE s == SubscribersAt(k)
  <2>1. s \in Seq(SubscriberIds)
    BY <1>3
  <2> HIDE DEF s
  <2>2. Len(s) \in Nat /\ DOMAIN s = 1 .. Len(s)
    BY <2>1, LenProperties
  <2>3. \A i \in DOMAIN s : s[i] \in SubscriberIds
    BY <2>1, <2>2, ElementOfSeq
  <2> QED
    BY <2>2, <2>3 DEF s
<1> QED
  BY <1>1, <1>2, <1>3, <1>4, LenProperties DEF TypeOK, EntriesWellTyped

\* And after a step.
LEMMA EntryTypesNext == TypeOK' => EntriesWellTyped'
BY EntryTypes, PTL

USE DEF EntriesWellTyped

\* The first entry of a topic is one of its entries.
LEMMA FirstEntryIsEntry ==
  ASSUME TypeOK, NEW t \in Topics, EntriesOf(t) # {}
  PROVE  Min(EntriesOf(t)) \in EntriesOf(t)
<1>1. EntriesOf(t) \in SUBSET Nat
  BY EntryTypes DEF EntriesOf, Entries
<1> QED
  BY <1>1, MinIsLeast

\* Subscribe adds the next ID behind one entry, which had room for it: that of
\* the topic, or a new one if the topic has none.
LEMMA SubscribeEffect ==
  ASSUME TypeOK, NEW t \in Topics, Subscribe(t)
  PROVE  /\ subscribers_' \in Seq(SubscriberType)
         /\ Len(subscribers_') <= MaxTopics
         /\ Len(subscribers_) <= Len(subscribers_')
         /\ \A l \in Entries : subscribers_'[l].topic = subscribers_[l].topic
         /\ \A l \in Entries' \ Entries :
              /\ l = Len(subscribers_) + 1
              /\ subscribers_'[l].topic = t
              /\ EntriesOf(t) = {}
         /\ \E k \in Entries' :
              /\ Len(SubscribersAt(k)) < MaxSubscribers
              /\ \A l : SubscribersAt(l)' =
                         IF l = k
                         THEN Append(SubscribersAt(k), nextFreeSubsriberId_)
                         ELSE SubscribersAt(l)
<1> DEFINE id == nextFreeSubsriberId_
<1>1. id \in SubscriberIds
  BY DEF Subscribe, SubscriberIds, TypeOK
<1>2. subscribers_ \in Seq(SubscriberType)
  BY DEF TypeOK, SubscriberType
<1>3. subscribers_' = Subscribed(t, id) /\ HasRoom(t)
  BY DEF Subscribe, FreeId
<1>4. CASE EntriesOf(t) = {}
  <2> DEFINE entry == [topic |-> t, subscribers |-> <<id>>]
  <2>1. entry \in SubscriberType
    BY <1>1 DEF SubscriberType
  <2>2. subscribers_' = Append(subscribers_, entry)
    BY <1>3, <1>4 DEF Subscribed
  <2>3. /\ subscribers_' \in Seq(SubscriberType)
        /\ Len(subscribers_') = Len(subscribers_) + 1
        /\ \A l \in Entries : subscribers_'[l] = subscribers_[l]
        /\ subscribers_'[Len(subscribers_) + 1] = entry
    BY <1>2, <2>1, <2>2, AppendProperties DEF Entries
  <2>4. Len(subscribers_) < MaxTopics
    BY <1>3, <1>4 DEF HasRoom
  <2> DEFINE k == Len(subscribers_) + 1
  <2>5. SubscribersAt(k) = <<>> /\ Append(<<>>, id) = <<id>>
    BY EntryTypes, <1>1 DEF SubscribersAt, Entries
  <2>6. \A l : SubscribersAt(l)' = IF l = k THEN <<id>> ELSE SubscribersAt(l)
    <3> TAKE l
    <3>1. l \in Entries' <=> l \in Entries \/ l = k
      BY <2>3, EntryTypes DEF Entries
    <3>2. k \notin Entries
      BY EntryTypes DEF Entries
    <3> QED
      BY <2>3, <3>1, <3>2 DEF SubscribersAt
  <2>7. k \in Entries'
    BY <2>3, EntryTypes DEF Entries
  <2>8. Len(<<>>) < MaxSubscribers
    BY DispatchAssumption DEF DispatchAssumption
  <2>9. \A l \in Entries' \ Entries : l = k
    BY <2>3, EntryTypes DEF Entries
  <2>10. \E m \in Entries' :
          /\ Len(SubscribersAt(m)) < MaxSubscribers
          /\ \A l : SubscribersAt(l)' =
                     IF l = m THEN Append(SubscribersAt(m), id)
                              ELSE SubscribersAt(l)
    <3>1. Len(SubscribersAt(k)) < MaxSubscribers
      BY <2>5, <2>8
    <3>2. \A l : SubscribersAt(l)' = IF l = k THEN Append(SubscribersAt(k), id)
                                             ELSE SubscribersAt(l)
      BY <2>5, <2>6
    <3> HIDE DEF k
    <3> QED
      BY <2>7, <3>1, <3>2
  <2>11. /\ Len(subscribers_') <= MaxTopics
         /\ Len(subscribers_) <= Len(subscribers_')
    BY <2>3, <2>4, EntryTypes, DispatchAssumption DEF DispatchAssumption
  <2>12. /\ \A l \in Entries : subscribers_'[l].topic = subscribers_[l].topic
         /\ \A l \in Entries' \ Entries : subscribers_'[l].topic = t
    BY <2>3, <2>9
  <2> QED
    BY <1>4, <2>3, <2>9, <2>10, <2>11, <2>12
<1>5. CASE EntriesOf(t) # {}
  <2> DEFINE k == Min(EntriesOf(t))
  <2>1. k \in Entries
    BY <1>5, FirstEntryIsEntry DEF EntriesOf
  <2>2. subscribers_' = [subscribers_ EXCEPT ![k].subscribers = Append(@, id)]
        /\ Len(SubscribersAt(k)) < MaxSubscribers
    BY <1>3, <1>5 DEF Subscribed, HasRoom
  <2> HIDE DEF k
  <2> DEFINE entry == [subscribers_[k] EXCEPT !.subscribers = Append(@, id)]
  <2>3. subscribers_' = [subscribers_ EXCEPT ![k] = entry]
    BY <2>2
  <2>4. subscribers_[k] \in SubscriberType
    BY <2>1, EntryTypes
  <2>5. /\ entry \in SubscriberType
        /\ entry.topic = subscribers_[k].topic
        /\ entry.subscribers = Append(subscribers_[k].subscribers, id)
    BY <1>1, <2>4, AppendProperties DEF SubscriberType
  <2> HIDE DEF entry
  <2>6. /\ subscribers_' \in Seq(SubscriberType)
        /\ Len(subscribers_') = Len(subscribers_)
        /\ \A l \in Entries :
             subscribers_'[l] = IF l = k THEN entry ELSE subscribers_[l]
    BY <1>2, <2>1, <2>3, <2>5, ExceptSeq DEF Entries
  <2>7. Entries' = Entries
    BY <2>6 DEF Entries
  <2>8. \A l : SubscribersAt(l)' = IF l = k THEN Append(SubscribersAt(k), id)
                                           ELSE SubscribersAt(l)
    BY <2>1, <2>5, <2>6, <2>7 DEF SubscribersAt
  <2>9. \E m \in Entries' :
          /\ Len(SubscribersAt(m)) < MaxSubscribers
          /\ \A l : SubscribersAt(l)' =
                     IF l = m THEN Append(SubscribersAt(m), id)
                              ELSE SubscribersAt(l)
    BY <2>1, <2>2, <2>7, <2>8
  <2>10. /\ Len(subscribers_') <= MaxTopics
         /\ Len(subscribers_) <= Len(subscribers_')
    BY <2>6, EntryTypes DEF TypeOK
  <2>11. \A l \in Entries : subscribers_'[l].topic = subscribers_[l].topic
    BY <2>5, <2>6
  <2> QED
    BY <2>6, <2>7, <2>9, <2>10, <2>11
<1> QED
  BY <1>4, <1>5

\* Unsubscribe takes the ID out of the entries and leaves these where they are.
LEMMA UnsubscribeEffect ==
  ASSUME TypeOK, NEW id \in SubscriberIds, Unsubscribe(id)
  PROVE  /\ subscribers_' \in Seq(SubscriberType)
         /\ Len(subscribers_') = Len(subscribers_)
         /\ \A l \in Entries : subscribers_'[l].topic = subscribers_[l].topic
         /\ \A l : SubscribersAt(l)' = RemoveFirst(SubscribersAt(l), id)
<1> DEFINE entry(l) ==
             [subscribers_[l] EXCEPT !.subscribers = RemoveFirst(@, id)]
<1>1. subscribers_' = [l \in 1 .. Len(subscribers_) |-> entry(l)]
  BY DEF Unsubscribe, Unsubscribed, Entries
<1>2. \A l \in Entries :
        /\ entry(l) \in SubscriberType
        /\ entry(l).topic = subscribers_[l].topic
        /\ entry(l).subscribers = RemoveFirst(subscribers_[l].subscribers, id)
  <2> TAKE l \in Entries
  <2>1. subscribers_[l] \in SubscriberType
    BY EntryTypes
  <2>2. RemoveFirst(subscribers_[l].subscribers, id) \in Seq(SubscriberIds)
    BY <2>1, RemoveFirstProperties DEF SubscriberType
  <2> QED
    BY <2>1, <2>2 DEF SubscriberType
<1> HIDE DEF entry
<1>3. /\ subscribers_' \in Seq(SubscriberType)
      /\ Len(subscribers_') = Len(subscribers_)
      /\ \A l \in Entries : subscribers_'[l] = entry(l)
  BY <1>1, <1>2, EntryTypes DEF Entries
<1>4. Entries' = Entries
  BY <1>3 DEF Entries
<1>5. RemoveFirst(<<>>, id) = <<>>
  BY DEF RemoveFirst
<1>6. \A l : SubscribersAt(l)' = RemoveFirst(SubscribersAt(l), id)
  BY <1>2, <1>3, <1>4, <1>5 DEF SubscribersAt
<1> QED
  BY <1>2, <1>3, <1>6

-----------------------------------------------------------------------------
(* DispatchInv is inductive                                                *)

\* Nobody is subscribed and nothing has been called at first.
LEMMA InitDispatchInv == Init => DispatchInv
<1> SUFFICES ASSUME Init PROVE DispatchInv
  OBVIOUS
<1> USE DEF Init
<1>1. Entries = {}
  BY DEF Entries
<1>2. TypeOK
  <2>1. subscribers_ \in Seq(SubscriberType) /\ Len(subscribers_) = 0
    BY EmptySeq
  <2>2. called \in Seq(SubscriberIds)
    BY EmptySeq
  <2>3. /\ Len(subscribers_) <= MaxTopics
        /\ nextFreeSubsriberId_ \in 0 .. MaxId + 1
        /\ it \in 1 .. MaxTopics
        /\ subIter \in 1 .. MaxSubscribers
    BY <2>1, DispatchAssumption DEF DispatchAssumption
  <2> QED
    BY <1>1, <2>1, <2>2, <2>3 DEF TypeOK, SubscriberType
<1>3. IdsUnique /\ IdsGiven /\ TopicsDistinct
  BY <1>1 DEF IdsUnique, IdsGiven, TopicsDistinct
<1>4. IteratorsHold /\ AstrayOnlyIfDisturbed /\ NobodyAhead /\ OwedAreListed
  BY DEF IteratorsHold, AstrayOnlyIfDisturbed, NobodyAhead, OwedAreListed
<1>5. NobodyTwice /\ EveryoneCalled
  BY DEF NobodyTwice, EveryoneCalled, IsInjective
<1> QED
  BY <1>2, <1>3, <1>4, <1>5 DEF DispatchInv, SubscriptionsInv

\* A new subscriber comes last, with an ID nobody has had.
LEMMA SubscribeKeeps ==
  ASSUME TypeOK, NEW t \in Topics, Subscribe(t)
  PROVE  \A l :
           /\ \A i \in DOMAIN SubscribersAt(l) :
                /\ i \in DOMAIN SubscribersAt(l)'
                /\ SubscribersAt(l)'[i] = SubscribersAt(l)[i]
           /\ \A i \in DOMAIN SubscribersAt(l)' \ DOMAIN SubscribersAt(l) :
                SubscribersAt(l)'[i] = nextFreeSubsriberId_
<1> DEFINE id == nextFreeSubsriberId_
<1>1. id \in SubscriberIds
  BY DEF Subscribe, SubscriberIds, TypeOK
<1>2. PICK k \in Entries' :
        \A l : SubscribersAt(l)' = IF l = k THEN Append(SubscribersAt(k), id)
                                           ELSE SubscribersAt(l)
  BY SubscribeEffect
<1> TAKE l
<1>3. CASE l # k
  BY <1>2, <1>3
<1>4. CASE l = k
  <2> DEFINE s == SubscribersAt(k)
  <2>1. SubscribersAt(l)' = Append(s, id) /\ SubscribersAt(l) = s
    BY <1>2, <1>4
  <2>2. s \in Seq(SubscriberIds)
    BY EntryTypes
  <2> HIDE DEF s
  <2>3. /\ Append(s, id) \in Seq(SubscriberIds)
        /\ Len(Append(s, id)) = Len(s) + 1
        /\ \A i \in 1 .. Len(s) : Append(s, id)[i] = s[i]
        /\ Append(s, id)[Len(s) + 1] = id
    BY <1>1, <2>2, AppendProperties
  <2>4. /\ DOMAIN s = 1 .. Len(s)
        /\ DOMAIN Append(s, id) = 1 .. Len(s) + 1
        /\ Len(s) \in Nat
    BY <2>2, <2>3, LenProperties
  <2> HIDE DEF id
  <2>5. \A i \in 1 .. Len(s) + 1 : i \in 1 .. Len(s) \/ i = Len(s) + 1
    BY <2>4
  <2>6. \A i \in 1 .. Len(s) : i \in 1 .. Len(s) + 1
    BY <2>4
  <2> QED
    BY <2>1, <2>3, <2>4, <2>5, <2>6 DEF id
<1> QED
  BY <1>3, <1>4

\* Subscribe leaves the state well formed.
LEMMA SubscribeTypes ==
  ASSUME TypeOK, NEW t \in Topics, Subscribe(t)
  PROVE  TypeOK'
<1>1. PICK k \in Entries' :
        /\ Len(SubscribersAt(k)) < MaxSubscribers
        /\ \A l : SubscribersAt(l)' =
                   IF l = k THEN Append(SubscribersAt(k), nextFreeSubsriberId_)
                            ELSE SubscribersAt(l)
  BY SubscribeEffect
<1>2. Len(SubscribersAt(k)') <= MaxSubscribers
  <2> DEFINE s == SubscribersAt(k)
  <2>1. s \in Seq(SubscriberIds) /\ Len(s) \in Nat
    BY EntryTypes, LenProperties
  <2>2. nextFreeSubsriberId_ \in SubscriberIds
    BY DEF Subscribe, SubscriberIds, TypeOK
  <2>3. SubscribersAt(k)' = Append(s, nextFreeSubsriberId_)
    BY <1>1
  <2>4. Len(s) < MaxSubscribers
    BY <1>1
  <2> HIDE DEF s
  <2>5. Len(Append(s, nextFreeSubsriberId_)) = Len(s) + 1
    BY <2>1, <2>2, AppendProperties
  <2> QED
    BY <2>1, <2>3, <2>4, <2>5, DispatchAssumption DEF DispatchAssumption
<1>3. \A l \in Entries' \ {k} : Len(SubscribersAt(l)') <= MaxSubscribers
  <2> TAKE l \in Entries' \ {k}
  <2>1. CASE l \in Entries
    BY <1>1, <2>1, EntryTypes
  <2>2. CASE l \notin Entries
    BY <1>1, <2>2, DispatchAssumption DEF DispatchAssumption, SubscribersAt
  <2> QED
    BY <2>1, <2>2
<1>4. nextFreeSubsriberId_' \in 0 .. MaxId + 1
  BY DispatchAssumption DEF DispatchAssumption, Subscribe, TypeOK
<1>5. subscribers_' \in Seq(SubscriberType) /\ Len(subscribers_') <= MaxTopics
  BY SubscribeEffect
<1> QED
  BY <1>2, <1>3, <1>4, <1>5
     DEF TypeOK, Subscribe, SubscriberType, rxVars, history

\* Subscribe keeps the table sound.
LEMMA SubscribeTable ==
  ASSUME SubscriptionsInv, NEW t \in Topics, Subscribe(t)
  PROVE  SubscriptionsInv'
<1> USE DEF SubscriptionsInv
<1> DEFINE id == nextFreeSubsriberId_
<1>1. PICK k \in Entries' :
        \A l : SubscribersAt(l)' = IF l = k THEN Append(SubscribersAt(k), id)
                                           ELSE SubscribersAt(l)
  BY SubscribeEffect
<1>2. id \in Nat /\ nextFreeSubsriberId_' = id + 1
  BY DEF Subscribe, TypeOK
\* Whoever is in the table was there before, or is the new one.
<1>3. \A l \in Entries' : \A i \in DOMAIN SubscribersAt(l)' :
        \/ /\ l \in Entries
           /\ i \in DOMAIN SubscribersAt(l)
           /\ SubscribersAt(l)'[i] = SubscribersAt(l)[i]
        \/ /\ l = k
           /\ i = Len(SubscribersAt(k)) + 1
           /\ SubscribersAt(l)'[i] = id
  <2> TAKE l \in Entries'
  <2> TAKE i \in DOMAIN SubscribersAt(l)'
  <2>1. CASE i \in DOMAIN SubscribersAt(l)
    <3>1. l \in Entries
      BY <2>1 DEF SubscribersAt
    <3> QED
      BY <2>1, <3>1, SubscribeKeeps
  <2>2. CASE i \notin DOMAIN SubscribersAt(l)
    <3>1. SubscribersAt(l)'[i] = id /\ l = k
      BY <1>1, <2>2, SubscribeKeeps
    <3> DEFINE s == SubscribersAt(k)
    <3>2. s \in Seq(SubscriberIds) /\ id \in SubscriberIds
      BY EntryTypes DEF Subscribe, SubscriberIds, TypeOK
    <3>3. DOMAIN Append(s, id) = 1 .. Len(s) + 1 /\ DOMAIN s = 1 .. Len(s)
      BY <3>2, AppendProperties, LenProperties
    <3>4. i \in DOMAIN Append(s, id) /\ i \notin DOMAIN s
      BY <1>1, <2>2, <3>1
    <3>5. Len(s) \in Nat
      BY <3>2, LenProperties
    <3> HIDE DEF s, id
    <3>6. i = Len(s) + 1
      BY <3>3, <3>4, <3>5
    <3> QED
      BY <3>1, <3>6 DEF s
  <2> QED
    BY <2>1, <2>2
<1>4. IdsUnique'
  BY <1>2, <1>3 DEF IdsUnique, IdsGiven
<1>5. IdsGiven'
  <2> SUFFICES ASSUME NEW l \in Entries', NEW i \in DOMAIN SubscribersAt(l)'
               PROVE  SubscribersAt(l)'[i] < id + 1
    BY <1>2 DEF IdsGiven
  <2>1. CASE SubscribersAt(l)'[i] = id
    BY <1>2, <2>1
  <2>2. CASE l \in Entries /\ i \in DOMAIN SubscribersAt(l)
             /\ SubscribersAt(l)'[i] = SubscribersAt(l)[i]
    <3>1. SubscribersAt(l)[i] < id
      BY <2>2 DEF IdsGiven
    <3>2. SubscribersAt(l)[i] \in Nat
      BY <2>2, EntryTypes DEF SubscriberIds
    <3> QED
      BY <1>2, <2>2, <3>1, <3>2
  <2> QED
    BY <1>3, <2>1, <2>2
<1>6. TopicsDistinct'
  <2>1. \A l \in Entries' \ Entries :
          \A m \in Entries : subscribers_'[m].topic # subscribers_'[l].topic
    BY SubscribeEffect DEF EntriesOf
  <2> QED
    BY <2>1, SubscribeEffect DEF TopicsDistinct
<1> QED
  BY <1>4, <1>5, <1>6, SubscribeTypes

\* Subscribe disturbs no delivery.
LEMMA SubscribeInv ==
  ASSUME DispatchInv, NEW t \in Topics, Subscribe(t)
  PROVE  DispatchInv'
<1>1. TypeOK /\ SubscriptionsInv
  BY DEF DispatchInv, SubscriptionsInv
<1>2. SubscriptionsInv'
  BY <1>1, SubscribeTable
<1>3. UNCHANGED <<rx, topic, it, subIter, called, owed, told, disturbed>>
  BY DEF Subscribe, rxVars, history
<1> DEFINE s == SubscribersAt(it)
<1>4. /\ \A i \in DOMAIN s : i \in DOMAIN s' /\ s'[i] = s[i]
      /\ \A i \in DOMAIN s' \ DOMAIN s : s'[i] = nextFreeSubsriberId_
  BY <1>1, <1>3, SubscribeKeeps
<1>5. /\ s \in Seq(SubscriberIds) /\ Len(s) \in Nat
      /\ s' \in Seq(SubscriberIds) /\ Len(s') \in Nat
      /\ DOMAIN s = 1 .. Len(s) /\ DOMAIN s' = 1 .. Len(s')
  BY <1>1, <1>2, <1>3, EntryTypes, EntryTypesNext DEF SubscriptionsInv
<1>6. /\ nextFreeSubsriberId_ \in Nat
      /\ nextFreeSubsriberId_' = nextFreeSubsriberId_ + 1
  BY <1>1 DEF Subscribe, TypeOK
<1>7. IteratorsHold'
  <2> SUFFICES ASSUME rx = "calling", ~disturbed
               PROVE  /\ it \in EntriesOf(topic)'
                      /\ subIter <= Len(s')
                      /\ called = SubSeq(s', 1, subIter)
    BY <1>3 DEF IteratorsHold
  <2>1. /\ it \in EntriesOf(topic)
        /\ subIter <= Len(s)
        /\ called = SubSeq(s, 1, subIter)
    BY DEF DispatchInv, IteratorsHold
  <2>2. it \in EntriesOf(topic)'
    BY <1>1, <1>3, <2>1, SubscribeEffect, EntryTypes DEF EntriesOf, Entries
  <2>3. subIter \in 1 .. Len(s)
    BY <1>1, <1>5, <2>1, DispatchAssumption DEF TypeOK, DispatchAssumption
  <2> HIDE DEF s
  <2>4. subIter \in 1 .. Len(s') /\ \A i \in 1 .. subIter : s[i] = s'[i]
    BY <1>4, <1>5, <2>3
  <2> QED
    BY <1>5, <2>1, <2>2, <2>3, <2>4, SamePrefix
<1>8. NobodyAhead'
  <2> SUFFICES ASSUME rx = "calling", NEW i \in DOMAIN called
               PROVE  /\ called[i] < nextFreeSubsriberId_'
                      /\ \A j \in DOMAIN s' : j > subIter => s'[j] # called[i]
    BY <1>3 DEF NobodyAhead
  <2>1. /\ called[i] < nextFreeSubsriberId_
        /\ \A j \in DOMAIN s : j > subIter => s[j] # called[i]
    BY DEF DispatchInv, NobodyAhead
  <2>2. called[i] \in Nat
    <3>1. called \in Seq(SubscriberIds)
      BY <1>1 DEF TypeOK
    <3>2. called[i] \in SubscriberIds
      BY <3>1, LenProperties, ElementOfSeq
    <3> QED
      BY <3>2 DEF SubscriberIds
  <2> HIDE DEF s
  <2> QED
    BY <1>4, <1>6, <2>1, <2>2
<1>9. OwedAreListed'
  <2>1. ToSet(s) \subseteq ToSet(s')
    BY <1>4 DEF ToSet
  <2> QED
    BY <1>3, <2>1 DEF DispatchInv, OwedAreListed
<1>10. AstrayOnlyIfDisturbed' /\ NobodyTwice' /\ EveryoneCalled'
  BY <1>3 DEF DispatchInv, AstrayOnlyIfDisturbed, NobodyTwice, EveryoneCalled
<1> QED
  BY <1>2, <1>7, <1>8, <1>9, <1>10 DEF DispatchInv

\* Where Unsubscribe finds the ID in a list, what is behind it moves up by one;
\* the rest stays as it is.
LEMMA UnsubscribeMoves ==
  ASSUME TypeOK, NEW id \in SubscriberIds, Unsubscribe(id), NEW l
  PROVE  \/ /\ \A i \in DOMAIN SubscribersAt(l) : SubscribersAt(l)[i] # id
            /\ SubscribersAt(l)' = SubscribersAt(l)
         \/ \E m \in 1 .. Len(SubscribersAt(l)) :
              /\ SubscribersAt(l)[m] = id
              /\ SubscribersAt(l)' \in Seq(SubscriberIds)
              /\ Len(SubscribersAt(l)') = Len(SubscribersAt(l)) - 1
              /\ DOMAIN SubscribersAt(l)' = 1 .. Len(SubscribersAt(l)) - 1
              /\ \A i \in 1 .. Len(SubscribersAt(l)) - 1 :
                   SubscribersAt(l)'[i] =
                     IF i < m THEN SubscribersAt(l)[i]
                              ELSE SubscribersAt(l)[i + 1]
<1>1. PICK s \in Seq(SubscriberIds) : s = SubscribersAt(l)
  BY EntryTypes
<1>2. SubscribersAt(l)' = RemoveFirst(s, id)
  BY <1>1, UnsubscribeEffect
<1>3. /\ RemoveFirst(s, id) \in Seq(SubscriberIds)
      /\ \/ /\ \A j \in 1 .. Len(s) : s[j] # id
            /\ RemoveFirst(s, id) = s
         \/ \E k \in 1 .. Len(s) :
              /\ s[k] = id
              /\ Len(RemoveFirst(s, id)) = Len(s) - 1
              /\ \A j \in 1 .. Len(s) - 1 :
                   RemoveFirst(s, id)[j] = IF j < k THEN s[j] ELSE s[j + 1]
  BY RemoveFirstProperties
<1>4. /\ DOMAIN RemoveFirst(s, id) = 1 .. Len(RemoveFirst(s, id))
      /\ DOMAIN s = 1 .. Len(s)
  BY <1>3, LenProperties
<1>5. CASE RemoveFirst(s, id) = s /\ \A j \in 1 .. Len(s) : s[j] # id
  <2>1. SubscribersAt(l)' = s
    BY <1>2, <1>5
  <2>2. \A j \in DOMAIN s : s[j] # id
    BY <1>4, <1>5
  <2> QED
    BY <1>1, <2>1, <2>2
<1>6. CASE \E k \in 1 .. Len(s) :
             /\ s[k] = id
             /\ Len(RemoveFirst(s, id)) = Len(s) - 1
             /\ \A j \in 1 .. Len(s) - 1 :
                  RemoveFirst(s, id)[j] = IF j < k THEN s[j] ELSE s[j + 1]
  <2>1. PICK k \in 1 .. Len(s) :
          /\ s[k] = id
          /\ Len(RemoveFirst(s, id)) = Len(s) - 1
          /\ \A j \in 1 .. Len(s) - 1 :
               RemoveFirst(s, id)[j] = IF j < k THEN s[j] ELSE s[j + 1]
    BY <1>6
  <2> DEFINE r == RemoveFirst(s, id)
  <2>2. /\ r \in Seq(SubscriberIds)
        /\ Len(r) = Len(s) - 1
        /\ DOMAIN r = 1 .. Len(s) - 1
        /\ \A j \in 1 .. Len(s) - 1 : r[j] = IF j < k THEN s[j] ELSE s[j + 1]
    BY <1>3, <1>4, <2>1
  <2>3. SubscribersAt(l)' = r
    BY <1>2
  <2> HIDE DEF r
  <2> QED
    BY <1>1, <2>1, <2>2, <2>3
<1> QED
  BY <1>3, <1>5, <1>6

\* So a list grows no longer, keeps its order and loses nobody but that ID.
LEMMA UnsubscribeKeeps ==
  ASSUME TypeOK, NEW id \in SubscriberIds, Unsubscribe(id), NEW l
  PROVE  /\ Len(SubscribersAt(l)') \in Nat
         /\ Len(SubscribersAt(l)') <= Len(SubscribersAt(l))
         /\ DOMAIN SubscribersAt(l)' = 1 .. Len(SubscribersAt(l)')
         /\ \A i \in DOMAIN SubscribersAt(l)' :
              \E j \in DOMAIN SubscribersAt(l) :
                j >= i /\ SubscribersAt(l)'[i] = SubscribersAt(l)[j]
         /\ ToSet(SubscribersAt(l)) \ {id} \subseteq ToSet(SubscribersAt(l)')
<1> DEFINE s == SubscribersAt(l)
<1>1. Len(s) \in Nat /\ DOMAIN s = 1 .. Len(s)
  BY EntryTypes
<1>2. CASE s' = s
  <2> HIDE DEF s
  <2>1. \A i \in DOMAIN s' : i \in DOMAIN s /\ i >= i /\ s'[i] = s[i]
    BY <1>1, <1>2
  <2>2. ToSet(s) \ {id} \subseteq ToSet(s')
    BY <1>2
  <2>3. /\ Len(s') \in Nat
        /\ Len(s') <= Len(s)
        /\ DOMAIN s' = 1 .. Len(s')
    BY <1>1, <1>2
  <2> QED
    BY <2>1, <2>2, <2>3 DEF s
<1>3. CASE \E m \in 1 .. Len(s) :
             /\ s[m] = id
             /\ Len(s') = Len(s) - 1
             /\ DOMAIN s' = 1 .. Len(s) - 1
             /\ \A i \in 1 .. Len(s) - 1 :
                  s'[i] = IF i < m THEN s[i] ELSE s[i + 1]
  <2>1. PICK m \in 1 .. Len(s) :
          /\ s[m] = id
          /\ Len(s') = Len(s) - 1
          /\ DOMAIN s' = 1 .. Len(s) - 1
          /\ \A i \in 1 .. Len(s) - 1 :
               s'[i] = IF i < m THEN s[i] ELSE s[i + 1]
    BY <1>3
  <2> HIDE DEF s
  <2>2. \A i \in DOMAIN s' : \E j \in DOMAIN s : j >= i /\ s'[i] = s[j]
    <3> TAKE i \in DOMAIN s'
    <3>1. i \in 1 .. Len(s) - 1 /\ i \in DOMAIN s /\ i + 1 \in DOMAIN s
      BY <1>1, <2>1
    <3> QED
      BY <1>1, <2>1, <3>1
  <2>3. \A x \in ToSet(s) \ {id} : x \in ToSet(s')
    <3> TAKE x \in ToSet(s) \ {id}
    <3>1. PICK j \in 1 .. Len(s) : s[j] = x
      BY <1>1 DEF ToSet
    <3>2. j # m
      BY <2>1, <3>1
    <3>3. CASE j < m
      <4>1. j \in DOMAIN s' /\ s'[j] = x
        BY <1>1, <2>1, <3>1, <3>3
      <4> QED
        BY <4>1 DEF ToSet
    <3>4. CASE j > m
      <4>1. j - 1 \in DOMAIN s' /\ s'[j - 1] = s[j - 1 + 1]
        BY <1>1, <2>1, <3>1, <3>4
      <4>2. s[j - 1 + 1] = x
        BY <1>1, <3>1
      <4> QED
        BY <4>1, <4>2 DEF ToSet
    <3> QED
      BY <3>2, <3>3, <3>4
  <2> QED
    BY <1>1, <2>1, <2>2, <2>3 DEF s
<1> QED
  BY <1>2, <1>3, UnsubscribeMoves

\* Unsubscribe keeps the table sound.
LEMMA UnsubscribeTable ==
  ASSUME SubscriptionsInv, NEW id \in SubscriberIds, Unsubscribe(id)
  PROVE  SubscriptionsInv'
<1> USE DEF SubscriptionsInv
<1>1. Entries' = Entries
  BY UnsubscribeEffect DEF Entries
<1>2. TypeOK'
  <2>1. \A k \in Entries' : Len(SubscribersAt(k)') <= MaxSubscribers
    <3> TAKE k \in Entries'
    <3>1. /\ Len(SubscribersAt(k)) <= MaxSubscribers
          /\ Len(SubscribersAt(k)) \in Nat
      BY <1>1, EntryTypes
    <3>2. /\ Len(SubscribersAt(k)') <= Len(SubscribersAt(k))
          /\ Len(SubscribersAt(k)') \in Nat
      BY UnsubscribeKeeps
    <3> QED
      BY <3>1, <3>2, DispatchAssumption DEF DispatchAssumption
  <2>2. disturbed' \in BOOLEAN
    BY DEF Unsubscribe, TypeOK
  <2>3. /\ subscribers_' \in Seq(SubscriberType)
        /\ Len(subscribers_') <= MaxTopics
    BY UnsubscribeEffect DEF TypeOK
  <2> QED
    BY <2>1, <2>2, <2>3 DEF TypeOK, Unsubscribe, SubscriberType, rxVars
<1>3. IdsUnique'
  <2> SUFFICES ASSUME NEW k \in Entries, NEW l \in Entries,
                      NEW i \in DOMAIN SubscribersAt(k)',
                      NEW j \in DOMAIN SubscribersAt(l)',
                      SubscribersAt(k)'[i] = SubscribersAt(l)'[j]
               PROVE  k = l /\ i = j
    BY <1>1 DEF IdsUnique
  <2>1. k = l
    BY UnsubscribeKeeps DEF IdsUnique
  <2> DEFINE s == SubscribersAt(k)
  <2>2. /\ i \in DOMAIN s' /\ j \in DOMAIN s' /\ s'[i] = s'[j]
        /\ Len(s) \in Nat /\ DOMAIN s = 1 .. Len(s)
        /\ \A p, q \in DOMAIN s : s[p] = s[q] => p = q
    BY <2>1, EntryTypes DEF IdsUnique
  <2>3. CASE s' = s
    BY <2>1, <2>2, <2>3
  <2>4. CASE \E m \in 1 .. Len(s) :
               /\ DOMAIN s' = 1 .. Len(s) - 1
               /\ \A p \in 1 .. Len(s) - 1 :
                    s'[p] = IF p < m THEN s[p] ELSE s[p + 1]
    <3>1. PICK m \in 1 .. Len(s) :
            /\ DOMAIN s' = 1 .. Len(s) - 1
            /\ \A p \in 1 .. Len(s) - 1 :
                 s'[p] = IF p < m THEN s[p] ELSE s[p + 1]
      BY <2>4
    <3> HIDE DEF s
    <3> DEFINE from(p) == IF p < m THEN p ELSE p + 1
    <3>2. \A p \in DOMAIN s' : from(p) \in DOMAIN s /\ s'[p] = s[from(p)]
      BY <2>2, <3>1
    <3>3. from(i) = from(j)
      BY <2>2, <3>2
    <3>4. i = j
      BY <2>2, <3>1, <3>3
    <3> QED
      BY <2>1, <3>4
  <2> QED
    BY <2>3, <2>4, UnsubscribeMoves
<1>4. IdsGiven'
  BY <1>1, UnsubscribeKeeps DEF IdsGiven, Unsubscribe
<1>5. TopicsDistinct'
  BY <1>1, UnsubscribeEffect DEF TopicsDistinct
<1> QED
  BY <1>2, <1>3, <1>4, <1>5

\* Unsubscribe disturbs a delivery only if it removes one who has been called.
LEMMA UnsubscribeInv ==
  ASSUME DispatchInv, NEW id \in SubscriberIds, Unsubscribe(id)
  PROVE  DispatchInv'
<1>1. TypeOK /\ SubscriptionsInv
  BY DEF DispatchInv, SubscriptionsInv
<1>2. SubscriptionsInv'
  BY <1>1, UnsubscribeTable
<1>3. /\ UNCHANGED <<nextFreeSubsriberId_, rx, topic, it, subIter, called,
                     told>>
      /\ owed' = owed \ {id}
      /\ disturbed' = (disturbed \/ (rx = "calling" /\ Passed(id)))
  BY DEF Unsubscribe, rxVars
<1> DEFINE s == SubscribersAt(it)
<1>4. /\ s \in Seq(SubscriberIds) /\ Len(s) \in Nat
      /\ s' \in Seq(SubscriberIds) /\ Len(s') \in Nat
      /\ DOMAIN s = 1 .. Len(s) /\ DOMAIN s' = 1 .. Len(s')
  BY <1>1, <1>2, <1>3, EntryTypes, EntryTypesNext DEF SubscriptionsInv
<1>5. /\ \A i \in DOMAIN s' : \E j \in DOMAIN s : j >= i /\ s'[i] = s[j]
      /\ ToSet(s) \ {id} \subseteq ToSet(s')
  BY <1>1, <1>3, UnsubscribeKeeps
<1>6. subIter \in Nat \ {0}
  BY <1>1, DispatchAssumption DEF TypeOK, DispatchAssumption
<1>7. IteratorsHold'
  <2> SUFFICES ASSUME rx = "calling", ~disturbed, ~Passed(id)
               PROVE  /\ it \in EntriesOf(topic)'
                      /\ subIter <= Len(s')
                      /\ called = SubSeq(s', 1, subIter)
    BY <1>3 DEF IteratorsHold
  <2>1. /\ it \in EntriesOf(topic)
        /\ subIter <= Len(s)
        /\ called = SubSeq(s, 1, subIter)
    BY DEF DispatchInv, IteratorsHold
  <2>2. it \in EntriesOf(topic)'
    BY <1>1, <1>3, <2>1, UnsubscribeEffect DEF EntriesOf, Entries
  <2>3. \A m \in 1 .. Len(s) : s[m] = id => m > subIter
    BY <1>4, <1>6 DEF Passed
  <2>4. subIter <= Len(s') /\ \A i \in 1 .. subIter : s[i] = s'[i]
    <3>1. CASE s' = s
      BY <2>1, <3>1
    <3>2. CASE \E m \in 1 .. Len(s) :
                 /\ s[m] = id
                 /\ Len(s') = Len(s) - 1
                 /\ \A i \in 1 .. Len(s) - 1 :
                      s'[i] = IF i < m THEN s[i] ELSE s[i + 1]
      <4> HIDE DEF s
      <4> QED
        BY <1>4, <1>6, <2>1, <2>3, <3>2
    <3> QED
      BY <1>1, <1>3, <3>1, <3>2, UnsubscribeMoves
  <2> HIDE DEF s
  <2> QED
    BY <1>4, <1>6, <2>1, <2>2, <2>4, SamePrefix
<1>8. NobodyAhead'
  <2> SUFFICES ASSUME rx = "calling", NEW i \in DOMAIN called
               PROVE  /\ called[i] < nextFreeSubsriberId_
                      /\ \A j \in DOMAIN s' : j > subIter => s'[j] # called[i]
    BY <1>3 DEF NobodyAhead
  <2>1. /\ called[i] < nextFreeSubsriberId_
        /\ \A j \in DOMAIN s : j > subIter => s[j] # called[i]
    BY DEF DispatchInv, NobodyAhead
  <2> HIDE DEF s
  <2> QED
    BY <1>4, <1>5, <1>6, <2>1
<1>9. OwedAreListed'
  BY <1>3, <1>5 DEF DispatchInv, OwedAreListed
<1>10. AstrayOnlyIfDisturbed' /\ NobodyTwice' /\ EveryoneCalled'
  BY <1>3 DEF DispatchInv, AstrayOnlyIfDisturbed, NobodyTwice, EveryoneCalled
<1> QED
  BY <1>2, <1>7, <1>8, <1>9, <1>10 DEF DispatchInv

\* UnsubscribeAll leaves nothing to deliver to.
LEMMA UnsubscribeAllInv ==
  ASSUME DispatchInv, UnsubscribeAll
  PROVE  DispatchInv'
<1> USE DEF UnsubscribeAll, rxVars
<1>1. TypeOK
  BY DEF DispatchInv, SubscriptionsInv
<1>2. Entries' = {}
  BY DEF Entries
<1>3. SubscribersAt(it)' = <<>>
  BY <1>2 DEF SubscribersAt
<1>4. TypeOK'
  <2>1. subscribers_' \in Seq(SubscriberType) /\ Len(subscribers_') <= MaxTopics
    BY EmptySeq, DispatchAssumption DEF DispatchAssumption
  <2>2. disturbed' \in BOOLEAN
    BY <1>1 DEF TypeOK
  <2> QED
    BY <1>1, <1>2, <2>1, <2>2 DEF TypeOK, SubscriberType
<1>5. SubscriptionsInv'
  BY <1>2, <1>4 DEF SubscriptionsInv, IdsUnique, IdsGiven, TopicsDistinct
<1>6. rx = "calling" => disturbed'
  OBVIOUS
<1>7. /\ IteratorsHold'
      /\ AstrayOnlyIfDisturbed'
      /\ NobodyTwice'
      /\ EveryoneCalled'
  BY <1>6 DEF DispatchInv, IteratorsHold, AstrayOnlyIfDisturbed, NobodyTwice,
              EveryoneCalled
<1>8. NobodyAhead' /\ OwedAreListed'
  BY <1>3, <1>6 DEF DispatchInv, NobodyAhead, OwedAreListed
<1> QED
  BY <1>5, <1>7, <1>8 DEF DispatchInv

\* The steps of GiveRxData leave the table alone.
LEMMA TableFrame ==
  ASSUME SubscriptionsInv, UNCHANGED tableVars, TypeOK'
  PROVE  SubscriptionsInv'
BY DEF SubscriptionsInv, tableVars, IdsUnique, IdsGiven, TopicsDistinct,
       Entries, SubscribersAt

\* What is left to show for TypeOK after a step of GiveRxData.
LEMMA RxTypes ==
  ASSUME TypeOK, UNCHANGED tableVars,
         rx' \in {"idle", "calling", "noListener", "astray"},
         topic' \in Topics,
         it' \in 1 .. MaxTopics, subIter' \in 1 .. MaxSubscribers,
         called' \in Seq(SubscriberIds), owed' \in SUBSET SubscriberIds,
         told' \in BOOLEAN, disturbed' \in BOOLEAN
  PROVE  TypeOK'
<1>1. \A k \in Entries' : Len(SubscribersAt(k)') <= MaxSubscribers
  BY DEF TypeOK, tableVars, Entries, SubscribersAt
<1>2. /\ subscribers_' \in Seq(SubscriberType)
      /\ Len(subscribers_') <= MaxTopics
      /\ nextFreeSubsriberId_' \in 0 .. MaxId + 1
  BY DEF TypeOK, tableVars, SubscriberType
<1> QED
  BY <1>1, <1>2 DEF TypeOK, SubscriberType

\* The iterators start at the first subscriber of the one entry of the topic.
LEMMA GiveRxDataInv ==
  ASSUME DispatchInv, NEW t \in Topics, GiveRxData(t)
  PROVE  DispatchInv'
<1>1. TypeOK /\ SubscriptionsInv /\ UNCHANGED tableVars
  BY DEF DispatchInv, SubscriptionsInv, GiveRxData
<1>2. /\ topic' = t /\ owed' = Listeners(t) /\ ~disturbed'
      /\ told' \in BOOLEAN /\ disturbed' \in BOOLEAN
  BY DEF GiveRxData
<1>3. \A k : SubscribersAt(k)' = SubscribersAt(k)
  BY <1>1 DEF SubscribersAt, Entries, tableVars
<1>4. EntriesOf(t)' = EntriesOf(t)
  BY <1>1 DEF EntriesOf, Entries, tableVars
<1>5. Listeners(t) \subseteq SubscriberIds
  BY <1>1, EntryTypes DEF Listeners, ToSet
<1>6. CASE EntriesOf(t) = {}
  <2>1. /\ rx' = "noListener" /\ called' = <<>>
        /\ UNCHANGED <<it, subIter>>
    BY <1>6 DEF GiveRxData
  <2>2. Listeners(t) = {}
    BY <1>6 DEF Listeners
  <2>3. TypeOK'
    <3>1. called' \in Seq(SubscriberIds)
      BY <2>1, EmptySeq
    <3>2. it' \in 1 .. MaxTopics /\ subIter' \in 1 .. MaxSubscribers
      BY <1>1, <2>1 DEF TypeOK
    <3> QED
      BY <1>1, <1>2, <1>5, <2>1, <3>1, <3>2, RxTypes
  <2>4. SubscriptionsInv'
    BY <1>1, <2>3, TableFrame
  <2>5. NobodyTwice'
    BY <2>1 DEF NobodyTwice, IsInjective
  <2> QED
    BY <1>2, <2>1, <2>2, <2>4, <2>5
       DEF DispatchInv, IteratorsHold, AstrayOnlyIfDisturbed, NobodyAhead,
           OwedAreListed, EveryoneCalled
<1>7. CASE EntriesOf(t) # {}
  <2> DEFINE k == Min(EntriesOf(t))
             s == SubscribersAt(k)
  <2>1. /\ it' = k /\ subIter' = 1
        /\ IF s = <<>> THEN rx' = "idle" /\ called' = <<>>
                       ELSE rx' = "calling" /\ called' = <<s[1]>>
    BY <1>7 DEF GiveRxData
  <2>2. k \in EntriesOf(t)
    BY <1>1, <1>7, FirstEntryIsEntry
  <2>3. Listeners(t) = ToSet(s)
    <3>1. EntriesOf(t) = {k}
      BY <1>1, <2>2 DEF SubscriptionsInv, TopicsDistinct, EntriesOf
    <3> HIDE DEF k
    <3> QED
      BY <3>1 DEF Listeners
  <2>4. /\ s \in Seq(SubscriberIds) /\ Len(s) \in Nat /\ DOMAIN s = 1 .. Len(s)
        /\ \A i \in DOMAIN s : s[i] \in SubscriberIds
    BY <1>1, EntryTypes
  <2>5. k \in 1 .. MaxTopics
    BY <1>1, <2>2, EntryTypes, DispatchAssumption
       DEF EntriesOf, Entries, TypeOK, DispatchAssumption
  <2>6. SubscribersAt(it)' = s /\ it' \in EntriesOf(topic)'
    BY <1>2, <1>3, <1>4, <2>1, <2>2
  <2>7. \A i, j \in DOMAIN s : s[i] = s[j] => i = j
    BY <1>1, <2>2 DEF SubscriptionsInv, IdsUnique, EntriesOf
  <2>8. \A i \in DOMAIN s : s[i] < nextFreeSubsriberId_
    BY <1>1, <2>2 DEF SubscriptionsInv, IdsGiven, EntriesOf
  <2> HIDE DEF k, s
  <2>9. CASE s = <<>>
    <3>1. TypeOK'
      <4>1. called' \in Seq(SubscriberIds)
        BY <2>1, <2>9, EmptySeq
      <4>2. it' \in 1 .. MaxTopics /\ subIter' \in 1 .. MaxSubscribers
        BY <2>1, <2>5, DispatchAssumption DEF DispatchAssumption
      <4> QED
        BY <1>1, <1>2, <1>5, <2>1, <2>9, <4>1, <4>2, RxTypes
    <3>2. SubscriptionsInv'
      BY <1>1, <3>1, TableFrame
    <3>3. NobodyTwice' /\ owed' = {}
      BY <1>2, <2>1, <2>3, <2>9 DEF NobodyTwice, IsInjective, ToSet
    <3> QED
      BY <2>1, <2>9, <3>2, <3>3
         DEF DispatchInv, IteratorsHold, AstrayOnlyIfDisturbed, NobodyAhead,
             OwedAreListed, EveryoneCalled
  <2>10. CASE s # <<>>
    <3>1. 1 \in DOMAIN s /\ Len(s) >= 1
      BY <2>4, <2>10, EmptySeq
    <3>2. rx' = "calling" /\ called' = <<s[1]>> /\ subIter' = 1
      BY <2>1, <2>10
    <3>3. called' \in Seq(SubscriberIds)
      BY <2>4, <3>1, <3>2
    <3>4. TypeOK'
      <4>1. it' \in 1 .. MaxTopics /\ subIter' \in 1 .. MaxSubscribers
        BY <2>1, <2>5, DispatchAssumption DEF DispatchAssumption
      <4> QED
        BY <1>1, <1>2, <1>5, <3>2, <3>3, <4>1, RxTypes
    <3>5. SubscriptionsInv'
      BY <1>1, <3>4, TableFrame
    <3>6. called' = SubSeq(s, 1, 1)
      BY <2>4, <3>1, <3>2
    <3>7. NobodyTwice'
      BY <3>2 DEF NobodyTwice, IsInjective
    <3>8. NobodyAhead'
      BY <1>1, <2>4, <2>6, <2>7, <2>8, <3>1, <3>2 DEF NobodyAhead, tableVars
    <3> QED
      BY <1>2, <2>3, <2>6, <3>1, <3>2, <3>5, <3>6, <3>7, <3>8
         DEF DispatchInv, IteratorsHold, AstrayOnlyIfDisturbed, OwedAreListed,
             EveryoneCalled
  <2> QED
    BY <2>9, <2>10
<1> QED
  BY <1>6, <1>7

\* The next callback is that of the next subscriber, or the loop is left.
LEMMA CallbackReturnsInv ==
  ASSUME DispatchInv, CallbackReturns
  PROVE  DispatchInv'
<1> DEFINE s == SubscribersAt(it)
           next == subIter + 1
<1>1. /\ TypeOK /\ SubscriptionsInv
      /\ rx = "calling"
      /\ UNCHANGED <<subscribers_, nextFreeSubsriberId_, topic, it, owed, told,
                     disturbed>>
  BY DEF DispatchInv, SubscriptionsInv, CallbackReturns, tableVars
<1>2. s' = s
  BY <1>1 DEF SubscribersAt, Entries
<1>3. /\ s \in Seq(SubscriberIds) /\ Len(s) \in Nat /\ DOMAIN s = 1 .. Len(s)
      /\ \A i \in DOMAIN s : s[i] \in SubscriberIds
  BY <1>1, EntryTypes
<1>4. /\ subIter \in 1 .. MaxSubscribers
      /\ called \in Seq(SubscriberIds) /\ Len(called) \in Nat
      /\ DOMAIN called = 1 .. Len(called)
  BY <1>1, LenProperties DEF TypeOK
<1>5. subIter \in Nat /\ next \in Nat \ {0} /\ MaxSubscribers \in Nat
  BY <1>4, DispatchAssumption DEF DispatchAssumption
<1>6. ~disturbed => /\ it \in EntriesOf(topic)
                    /\ subIter <= Len(s)
                    /\ called = SubSeq(s, 1, subIter)
                    /\ owed \subseteq ToSet(s)
  BY <1>1 DEF DispatchInv, IteratorsHold, OwedAreListed
<1>7. CASE next <= Len(s) /\ subIter' = next
           /\ called' = Append(called, s[next]) /\ UNCHANGED rx
  <2>1. it \in Entries /\ next \in DOMAIN s
    <3>1. next \in DOMAIN s
      BY <1>3, <1>5, <1>7
    <3> QED
      BY <3>1 DEF SubscribersAt
  <2>2. Len(s) <= MaxSubscribers
    BY <1>1, <2>1, EntryTypes
  <2>3. next \in 1 .. MaxSubscribers
    BY <1>3, <1>5, <1>7, <2>2
  <2>4. s[next] \in SubscriberIds
    BY <1>3, <2>1
  <2> HIDE DEF s, next
  <2>5. /\ called' \in Seq(SubscriberIds)
        /\ DOMAIN called' = 1 .. Len(called) + 1
        /\ \A i \in DOMAIN called : called'[i] = called[i]
        /\ called'[Len(called) + 1] = s[next]
    BY <1>4, <1>7, <2>4, AppendProperties, LenProperties
  <2>6. \A i \in DOMAIN called' : i \in DOMAIN called \/ called'[i] = s[next]
    BY <1>4, <2>5
  <2>7. TypeOK'
    BY <1>1, <1>7, <2>3, <2>5, RxTypes DEF TypeOK, tableVars
  <2>8. SubscriptionsInv'
    BY <1>1, <2>7, TableFrame DEF tableVars
  <2>9. \A i \in DOMAIN called : /\ called[i] < nextFreeSubsriberId_
                               /\ \A j \in DOMAIN s : j > subIter =>
                                                       s[j] # called[i]
    BY <1>1 DEF DispatchInv, NobodyAhead, s
  <2>10. NobodyTwice'
    <3>1. \A i, j \in DOMAIN called : called[i] = called[j] => i = j
      BY DEF DispatchInv, NobodyTwice, IsInjective
    <3>2. \A i \in DOMAIN called : called[i] # s[next]
      BY <1>5, <2>1, <2>9 DEF next
    <3>3. \A i \in DOMAIN called' : i \in DOMAIN called \/ i = Len(called) + 1
      BY <1>4, <2>5
    <3> QED
      BY <2>5, <3>1, <3>2, <3>3 DEF NobodyTwice, IsInjective
  <2>11. NobodyAhead'
    <3>1. \A j \in DOMAIN s : s[j] = s[next] => j = next
      BY <1>1, <2>1 DEF SubscriptionsInv, IdsUnique, s
    <3>2. s[next] < nextFreeSubsriberId_
      BY <1>1, <2>1 DEF SubscriptionsInv, IdsGiven, s
    <3>3. \A j \in DOMAIN s : j > next => j > subIter /\ j # next
      BY <1>3, <1>5 DEF next
    <3>4. SUFFICES ASSUME NEW i \in DOMAIN called'
                   PROVE  /\ called'[i] < nextFreeSubsriberId_
                          /\ \A j \in DOMAIN s : j > next => s[j] # called'[i]
      BY <1>1, <1>2, <1>7 DEF NobodyAhead, s
    <3>5. CASE i \in DOMAIN called
      BY <2>5, <2>9, <3>3, <3>5
    <3>6. CASE called'[i] = s[next]
      BY <3>1, <3>2, <3>3, <3>6
    <3> QED
      BY <2>6, <3>5, <3>6
  <2>12. ~disturbed => called' = SubSeq(s, 1, next)
    <3> HAVE ~disturbed
    <3>1. SubSeq(s, 1, next) = SubSeq(s, 1, next - 1) \o <<s[next]>>
      BY <1>3, <1>5, <1>7, <2>1, SubSeqRecursiveSecond
    <3>2. next - 1 = subIter
      BY <1>5 DEF next
    <3>3. Append(called, s[next]) = called \o <<s[next]>>
      BY <1>4, <2>4, AppendIsConcat
    <3> QED
      BY <1>6, <1>7, <3>1, <3>2, <3>3
  <2>13. IteratorsHold'
    BY <1>1, <1>2, <1>6, <1>7, <2>12
       DEF IteratorsHold, EntriesOf, Entries, s
  <2> QED
    BY <1>1, <1>2, <1>6, <1>7, <2>8, <2>10, <2>11, <2>13
       DEF DispatchInv, AstrayOnlyIfDisturbed, OwedAreListed, EveryoneCalled, s
<1>8. CASE rx' = "idle" /\ next = Len(s) + 1 /\ UNCHANGED <<subIter, called>>
  <2>1. TypeOK'
    BY <1>1, <1>8, RxTypes DEF TypeOK, tableVars
  <2>2. SubscriptionsInv'
    BY <1>1, <2>1, TableFrame DEF tableVars
  <2>3. ~disturbed => owed \subseteq ToSet(called)
    <3>1. SubSeq(s, 1, subIter) = s
      <4>1. subIter = Len(s)
        <5>1. subIter + 1 = Len(s) + 1
          BY <1>8
        <5>2. subIter \in Nat /\ Len(s) \in Nat
          BY <1>3, <1>5
        <5> HIDE DEF s
        <5> QED
          BY <5>1, <5>2
      <4>2. s \in Seq(SubscriberIds)
        BY <1>3
      <4> HIDE DEF s
      <4> QED
        BY <4>1, <4>2, SubSeqFull
    <3> QED
      BY <1>6, <3>1
  <2> QED
    BY <1>1, <1>8, <2>2, <2>3
       DEF DispatchInv, IteratorsHold, AstrayOnlyIfDisturbed, NobodyTwice,
           NobodyAhead, OwedAreListed, EveryoneCalled
<1>9. CASE rx' = "astray" /\ next > Len(s) + 1 /\ UNCHANGED <<subIter, called>>
  <2>1. TypeOK'
    BY <1>1, <1>9, RxTypes DEF TypeOK, tableVars
  <2>2. SubscriptionsInv'
    BY <1>1, <2>1, TableFrame DEF tableVars
  <2>3. disturbed
    BY <1>3, <1>5, <1>6, <1>9
  <2> QED
    BY <1>1, <1>9, <2>2, <2>3
       DEF DispatchInv, IteratorsHold, AstrayOnlyIfDisturbed, NobodyTwice,
           NobodyAhead, OwedAreListed, EveryoneCalled
<1> QED
  BY <1>7, <1>8, <1>9 DEF CallbackReturns

\* So noSubscribersForTopic_ returns, with nobody owed the message.
LEMMA NoListenerReturnsInv ==
  ASSUME DispatchInv, NoListenerReturns
  PROVE  DispatchInv'
<1>1. TypeOK /\ SubscriptionsInv
  BY DEF DispatchInv, SubscriptionsInv
<1>2. TypeOK'
  BY <1>1, RxTypes DEF TypeOK, NoListenerReturns, history
<1>3. SubscriptionsInv'
  BY <1>1, <1>2, TableFrame DEF NoListenerReturns
<1> QED
  BY <1>3 DEF DispatchInv, NoListenerReturns, history, IteratorsHold,
              AstrayOnlyIfDisturbed, NobodyTwice, NobodyAhead, OwedAreListed,
              EveryoneCalled

\* Every step keeps the invariant.
LEMMA NextDispatchInv == DispatchInv /\ [Next]_vars => DispatchInv'
<1> SUFFICES ASSUME DispatchInv, [Next]_vars
             PROVE  DispatchInv'
  OBVIOUS
<1>1. ASSUME NEW t \in Topics, Subscribe(t) PROVE DispatchInv'
  BY <1>1, SubscribeInv
<1>2. ASSUME NEW t \in Topics, GiveRxData(t) PROVE DispatchInv'
  BY <1>2, GiveRxDataInv
<1>3. ASSUME NEW id \in SubscriberIds, Unsubscribe(id) PROVE DispatchInv'
  BY <1>3, UnsubscribeInv
<1>4. CASE UnsubscribeAll
  BY <1>4, UnsubscribeAllInv
<1>5. CASE NoListenerReturns
  BY <1>5, NoListenerReturnsInv
<1>6. CASE CallbackReturns
  BY <1>6, CallbackReturnsInv
<1>7. CASE UNCHANGED vars
  BY <1>7
     DEF vars, tableVars, rxVars, history, DispatchInv, SubscriptionsInv,
         TypeOK, IdsUnique, IdsGiven, TopicsDistinct, IteratorsHold,
         NobodyTwice,
         AstrayOnlyIfDisturbed, NobodyAhead, OwedAreListed, EveryoneCalled,
         Entries, EntriesOf, SubscribersAt
<1> QED
  BY <1>1, <1>2, <1>3, <1>4, <1>5, <1>6, <1>7 DEF Next

-----------------------------------------------------------------------------
(* Theorems                                                                *)

\* The invariant that all of the following is drawn from.
THEOREM DispatchInvAlways == Spec => []DispatchInv
<1> QED
  BY InitDispatchInv, NextDispatchInv, PTL DEF Spec

\* The table, the iterators and what is kept of a message stay well formed.
THEOREM TypeCorrect == Spec => []TypeOK
<1>1. DispatchInv => TypeOK
  BY DEF DispatchInv, SubscriptionsInv
<1> QED
  BY <1>1, DispatchInvAlways, PTL

\* No two subscribers ever share an ID, so Unsubscribe removes the right one.
THEOREM UniqueIds == Spec => []IdsUnique
<1>1. DispatchInv => IdsUnique
  BY DEF DispatchInv, SubscriptionsInv
<1> QED
  BY <1>1, DispatchInvAlways, PTL

\* No topic gets a second entry, which GiveRxData would not find.
THEOREM UniqueTopics == Spec => []TopicsUnique
<1>1. DispatchInv => TopicsUnique
  <2> SUFFICES ASSUME DispatchInv, NEW t \in Topics
               PROVE  Cardinality(EntriesOf(t)) <= 1
    BY DEF TopicsUnique
  <2>1. \A k, l \in EntriesOf(t) : k = l
    BY DEF DispatchInv, SubscriptionsInv, TopicsDistinct, EntriesOf
  <2>2. CASE EntriesOf(t) = {}
    BY <2>2, FS_EmptySet
  <2>3. CASE EntriesOf(t) # {}
    <3>1. PICK k : EntriesOf(t) = {k}
      BY <2>1, <2>3
    <3> QED
      <4>1. Cardinality({k}) = 1
        BY FS_Singleton
      <4> QED
        BY <3>1, <4>1
  <2> QED
    BY <2>2, <2>3
<1> QED
  BY <1>1, DispatchInvAlways, PTL

\* The iterators GiveRxData keeps over the unlock hold, unless one who was
\* called already is removed meanwhile.
THEOREM IteratorsStayValid == Spec => []IteratorsHold
<1>1. DispatchInv => IteratorsHold
  BY DEF DispatchInv
<1> QED
  BY <1>1, DispatchInvAlways, PTL

\* Nothing else sends the loop of GiveRxData past the end of the vector.
THEOREM LoopStaysInside == Spec => []AstrayOnlyIfDisturbed
<1>1. DispatchInv => AstrayOnlyIfDisturbed
  BY DEF DispatchInv
<1> QED
  BY <1>1, DispatchInvAlways, PTL

\* However subscriptions change between the callbacks, nobody is called twice.
THEOREM NobodyCalledTwice == Spec => []NobodyTwice
<1>1. DispatchInv => NobodyTwice
  BY DEF DispatchInv
<1> QED
  BY <1>1, DispatchInvAlways, PTL

\* Whoever was subscribed when a message arrived and still is when GiveRxData is
\* done with it has got it, unless one who was called already was removed.
THEOREM EveryoneIsCalled == Spec => []EveryoneCalled
<1>1. DispatchInv => EveryoneCalled
  BY DEF DispatchInv
<1> QED
  BY <1>1, DispatchInvAlways, PTL
=============================================================================
