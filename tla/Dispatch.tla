------------------------------ MODULE Dispatch -------------------------------
(***************************************************************************)
(* Subscriptions and the delivery of a message to them, in the RTOS build  *)
(* (Subscribe, Unsubscribe, UnsubscribeAll and the part of GiveRxData that *)
(* calls the callbacks, src/EmbeddedSerialFiller_RTOS.cpp).                *)
(*                                                                         *)
(* Every operation is one critical section of classMutex_, but GiveRxData  *)
(* unlocks it around each callback and keeps two iterators across that:    *)
(* one into subscribers_ and one into the subscribers of the topic.        *)
(* Meanwhile another thread, or the callback itself, may change both       *)
(* vectors.  The iterators are addresses, so they are modelled by the      *)
(* positions they point to.                                                *)
(*                                                                         *)
(* One thread calls GiveRxData, and noSubscribersForTopic_ is set.         *)
(***************************************************************************)
EXTENDS Integers, Sequences, FiniteSets, SequencesExt

CONSTANTS
  Topics,
  MaxTopics,        \* capacity of subscribers_: ESF_MAX_SUBSCRIBERS
  MaxSubscribers,   \* capacity of one topic: ESF_MAX_SUBSCRIBERS
  MaxId             \* bound: the last subscriber ID given out

ASSUME DispatchAssumption ==
  /\ MaxTopics \in Nat \ {0}
  /\ MaxSubscribers \in Nat \ {0}
  /\ MaxId \in Nat

VARIABLES
  subscribers_,          \* a sequence of topics, each with its subscriber IDs
  nextFreeSubsriberId_,
  rx,                    \* what GiveRxData is doing
  topic,                 \* the topic of the packet being processed
  it, subIter,           \* GiveRxData: its iterators
  called,                \* history: whom this packet was given to, in order
  owed,                  \* history: who was subscribed when it arrived, and is
  told,                  \* history: was noSubscribersForTopic_ called for it
  disturbed              \* history: was a subscriber at or before the iterator
                         \* removed since

tableVars == <<subscribers_, nextFreeSubsriberId_>>
rxVars == <<rx, topic, it, subIter>>
history == <<called, owed, told, disturbed>>
vars == <<tableVars, rxVars, history>>

SubscriberIds == 0 .. MaxId

Entries == 1 .. Len(subscribers_)

\* The subscribers of entry k, none where there is no entry (any more): an
\* etl::vector that has been destroyed is empty.
SubscribersAt(k) == IF k \in Entries THEN subscribers_[k].subscribers ELSE <<>>

Registered == UNION {ToSet(SubscribersAt(k)) : k \in Entries}

\* The entries of topic t.
EntriesOf(t) == {k \in Entries : subscribers_[k].topic = t}

\* Who is subscribed to topic t.
Listeners(t) == UNION {ToSet(SubscribersAt(k)) : k \in EntriesOf(t)}

TypeOK ==
  /\ subscribers_ \in Seq([topic : Topics, subscribers : Seq(SubscriberIds)])
  /\ Len(subscribers_) <= MaxTopics
  /\ \A k \in Entries : Len(SubscribersAt(k)) <= MaxSubscribers
  /\ nextFreeSubsriberId_ \in 0 .. MaxId + 1
  /\ rx \in {"idle",        \* not in GiveRxData
             "calling",     \* in a subscriber's callback, unlocked
             "noListener",  \* in noSubscribersForTopic_, unlocked
             "astray"}      \* past the end of the vector: undefined behaviour
  /\ topic \in Topics
  /\ it \in 1 .. MaxTopics
  /\ subIter \in 1 .. MaxSubscribers
  /\ called \in Seq(SubscriberIds)
  /\ owed \in SUBSET SubscriberIds
  /\ told \in BOOLEAN
  /\ disturbed \in BOOLEAN

Init ==
  /\ subscribers_ = <<>>
  /\ nextFreeSubsriberId_ = 0
  /\ rx = "idle"
  /\ topic \in Topics
  /\ it = 1
  /\ subIter = 1
  /\ called = <<>>
  /\ owed = {}
  /\ told = TRUE
  /\ disturbed = FALSE

-----------------------------------------------------------------------------
(* The operations of the application: another thread's or the callback's   *)

FreeId == nextFreeSubsriberId_

\* etl::vector does not grow: to subscribe beyond its capacity is undefined.
HasRoom(t) ==
  IF EntriesOf(t) = {} THEN Len(subscribers_) < MaxTopics
  ELSE Len(SubscribersAt(Min(EntriesOf(t)))) < MaxSubscribers

\* Mutant: the topic is not looked up.
Subscribed_NewTopic(t, id) ==
  Append(subscribers_, [topic |-> t, subscribers |-> <<id>>])

\* Mutant: the new subscriber comes first.
Subscribed_Front(t, id) ==
  IF EntriesOf(t) = {}
  THEN Append(subscribers_, [topic |-> t, subscribers |-> <<id>>])
  ELSE [subscribers_ EXCEPT ![Min(EntriesOf(t))].subscribers = <<id>> \o @]

\* subscribers_ with the subscriber id of topic t added.
Subscribed(t, id) ==
  IF EntriesOf(t) = {}
  THEN Append(subscribers_, [topic |-> t, subscribers |-> <<id>>])
  ELSE [subscribers_ EXCEPT ![Min(EntriesOf(t))].subscribers = Append(@, id)]

Subscribe(t) ==
  /\ nextFreeSubsriberId_ <= MaxId
  /\ HasRoom(t)
  /\ subscribers_' = Subscribed(t, FreeId)
  /\ nextFreeSubsriberId_' = nextFreeSubsriberId_ + 1
  /\ UNCHANGED <<rxVars, history>>

\* Mutant: a topic nobody is subscribed to any more is erased.
Unsubscribed_DropsTopic(id) ==
  SelectSeq([k \in Entries |->
               [subscribers_[k] EXCEPT !.subscribers = RemoveFirst(@, id)]],
            LAMBDA e : e.subscribers # <<>>)

\* subscribers_ without subscriber id, the entry of its topic kept.
Unsubscribed(id) ==
  [k \in Entries |->
     [subscribers_[k] EXCEPT !.subscribers = RemoveFirst(@, id)]]

\* The subscriber is one the iterator points to or has passed.
Passed(id) ==
  \E j \in 1 .. Len(SubscribersAt(it)) :
    j <= subIter /\ SubscribersAt(it)[j] = id

\* An ID nobody has changes nothing: ERROR_UNRECOGNISED_SUBSCRIBER.
Unsubscribe(id) ==
  /\ subscribers_' = Unsubscribed(id)
  /\ owed' = owed \ {id}
  /\ disturbed' = (disturbed \/ (rx = "calling" /\ Passed(id)))
  /\ UNCHANGED <<nextFreeSubsriberId_, rxVars, called, told>>

UnsubscribeAll ==
  /\ subscribers_' = <<>>
  /\ owed' = {}
  /\ disturbed' = (disturbed \/ rx = "calling")
  /\ UNCHANGED <<nextFreeSubsriberId_, rxVars, called, told>>

-----------------------------------------------------------------------------
(* GiveRxData: one PUBLISH or BROADCAST                                    *)

\* The lookup of the topic, up to the first unlock or the end.
GiveRxData(t) ==
  LET k == Min(EntriesOf(t))
  IN  /\ rx = "idle"
      /\ topic' = t
      /\ owed' = Listeners(t)
      /\ disturbed' = FALSE
      /\ told' = (EntriesOf(t) = {})
      /\ IF EntriesOf(t) = {}
         THEN /\ rx' = "noListener"
              /\ called' = <<>>
              /\ UNCHANGED <<it, subIter>>
         ELSE /\ it' = k
              /\ subIter' = 1
              /\ IF SubscribersAt(k) = <<>>
                 THEN rx' = "idle" /\ called' = <<>>
                 ELSE rx' = "calling" /\ called' = <<SubscribersAt(k)[1]>>
      /\ UNCHANGED tableVars

NoListenerReturns ==
  /\ rx = "noListener"
  /\ rx' = "idle"
  /\ UNCHANGED <<tableVars, topic, it, subIter, history>>

\* The callback returns; ++subIter; the loop goes on unless that is end().
CallbackReturns ==
  LET subscribers == SubscribersAt(it)
      next == subIter + 1
  IN  /\ rx = "calling"
      /\ \/ /\ next <= Len(subscribers)
            /\ subIter' = next
            /\ called' = Append(called, subscribers[next])
            /\ UNCHANGED rx
         \/ /\ next = Len(subscribers) + 1
            /\ rx' = "idle"
            /\ UNCHANGED <<subIter, called>>
         \/ /\ next > Len(subscribers) + 1
            /\ rx' = "astray"
            /\ UNCHANGED <<subIter, called>>
      /\ UNCHANGED <<tableVars, topic, it, owed, told, disturbed>>

Next ==
  \/ \E t \in Topics : Subscribe(t) \/ GiveRxData(t)
  \/ \E id \in SubscriberIds : Unsubscribe(id)
  \/ UnsubscribeAll
  \/ NoListenerReturns
  \/ CallbackReturns

Spec == Init /\ [][Next]_vars

-----------------------------------------------------------------------------
(* Properties                                                              *)

\* "A unique subscription ID" (EmbeddedSerialFiller_RTOS.h:48): no ID is in two
\* places of the table, whoever has come and gone.
IdsUnique ==
  \A k, l \in Entries :
    \A i \in DOMAIN SubscribersAt(k), j \in DOMAIN SubscribersAt(l) :
      SubscribersAt(k)[i] = SubscribersAt(l)[j] => k = l /\ i = j

\* A topic has at most one entry: GiveRxData serves only the first it finds.
TopicsUnique == \A t \in Topics : Cardinality(EntriesOf(t)) <= 1

\* Between two callbacks the iterators still mean what they meant before the
\* unlock: the entry is that of the topic of the packet, and those called are
\* its subscribers up to the one subIter points to - whatever the application
\* has subscribed and unsubscribed meanwhile, except one who was called already.
IteratorsHold ==
  rx = "calling" /\ ~disturbed =>
    /\ it \in EntriesOf(topic)
    /\ subIter <= Len(SubscribersAt(it))
    /\ called = SubSeq(SubscribersAt(it), 1, subIter)

\* The loop runs past the end of the vector only after such a removal.
AstrayOnlyIfDisturbed == rx = "astray" => disturbed

\* No subscriber gets a message twice, whatever happens between the callbacks.
NobodyTwice == IsInjective(called)

\* Who was subscribed when the message arrived and still is has been called when
\* GiveRxData is done with it, except after such a removal.
EveryoneCalled == rx = "idle" /\ ~disturbed => owed \subseteq ToSet(called)

\* "it will then call all callbacks associated with that topic"
\* (EmbeddedSerialFiller_RTOS.h:61): the same without exception.
AllCallbacksCalled == rx = "idle" => owed \subseteq ToSet(called)
=============================================================================
