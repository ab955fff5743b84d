-------------------------------- MODULE Node --------------------------------
(***************************************************************************)
(* A node with the thread that gives it its received data, as in           *)
(* test/integration/Node.h, on a line that loses nothing: module           *)
(* PublishWait with another node in the place of its peer.                 *)
(*                                                                         *)
(* The RX thread takes one packet after the other off the inbox and calls  *)
(* GiveRxData, which answers a PUBLISH with an ACK and then calls the      *)
(* callbacks with classMutex_ released.  They run on the RX thread, which  *)
(* reads nothing until they return, and may call the API themselves.       *)
(***************************************************************************)
EXTENDS PublishWait

CONSTANTS
  RxThread,    \* the RX thread of this node, one of Threads
  RxThreads,   \* the RX threads of both nodes
  MaxMessages  \* bound: the most messages on a line, ACKs not counted

VARIABLES
  inbox,   \* the line from the other node
  outbox,  \* the line to it
  rx,      \* the RX thread: "reading", in a "callback", or in one that has
           \* "called" the API
  handles  \* history: whose pending call sent the PUBLISH that each RX thread
           \* is handling, or NoThread

lineVars == <<inbox, outbox>>
publishWaitVars == <<nodeVars, syncVars, callVars, linkVars, ackSeen>>

-----------------------------------------------------------------------------
(* Calls of the API, by the application and in callbacks                   *)

\* A packet of a line: in a message, `answers` is history, the thread whose
\* message the callback that sends it was given.
LinePacket(kind, id, owner, t) ==
  [kind |-> kind, id |-> id, owner |-> owner,
   answers |-> IF t = RxThread THEN handles[t] ELSE NoThread]

\* Bound.
Room == Cardinality({k \in DOMAIN outbox : outbox[k].kind # "ACK"}) < MaxMessages

\* Bound: a callback calls the API once.
MayCall(t) == t = RxThread => rx = "callback"

Called(t) == rx' = IF t = RxThread THEN "called" ELSE rx

CallPublish(t) ==
  /\ MayCall(t)
  /\ Room
  /\ outbox' = Append(outbox, LinePacket("BROADCAST", nextPacketId_, NoThread, t))
  /\ Called(t)
  /\ UNCHANGED <<inbox, handles>>
  /\ Publish(t)

CallPublishWait(t) ==
  /\ MayCall(t)
  /\ Room
  /\ outbox' = Append(outbox, LinePacket("PUBLISH", nextPacketId_, t, t))
  /\ Called(t)
  /\ UNCHANGED <<inbox, handles>>
  /\ PublishWaitBegin(t)

CallPublishWaitRefused(t) ==
  /\ MayCall(t)
  /\ Called(t)
  /\ UNCHANGED <<lineVars, handles>>
  /\ PublishWaitRefused(t)

AwaitAck(t) ==
  /\ UNCHANGED <<lineVars, rx, handles>>
  /\ Wait(t)

\* What is on the line stops counting as t's, and as an answer to t.
DisownedLine(line, t) ==
  LET Settled(owner) == IF owner = t THEN NoThread ELSE owner
  IN  [k \in DOMAIN line |-> [line[k] EXCEPT !.owner = Settled(@),
                                             !.answers = Settled(@)]]

ReturnFromPublishWait(t) ==
  /\ inbox' = DisownedLine(inbox, t)
  /\ outbox' = DisownedLine(outbox, t)
  /\ handles' = [r \in RxThreads |-> IF handles[r] = t THEN NoThread ELSE handles[r]]
  /\ UNCHANGED rx
  /\ PublishWaitReturn(t)

-----------------------------------------------------------------------------
(* The RX thread                                                           *)

\* Mutant: another packet is taken up although a callback is running.
Reads_Always == inbox # <<>> /\ rx \in {"reading", "callback", "called"}

Reads == inbox # <<>> /\ rx = "reading"

GiveRxDataAck ==
  /\ Reads
  /\ Head(inbox).kind = "ACK"
  /\ inbox' = Tail(inbox)
  /\ UNCHANGED <<outbox, rx, handles>>
  /\ LET a == [id |-> Head(inbox).id, owner |-> Head(inbox).owner]
     IN  GiveRxAck(a) \/ GiveRxUnexpectedAck(a)

\* Mutant: no packet is answered.
Answer_None(m) == SelectSeq(<<m>>, LAMBDA p : p.kind = "ACK")

\* Mutant: a BROADCAST is answered too.
Answer_Always(m) == <<[m EXCEPT !.kind = "ACK", !.answers = NoThread]>>

\* The ACK of a PUBLISH has its ID.
Answer(m) ==
  IF m.kind = "PUBLISH"
  THEN <<[m EXCEPT !.kind = "ACK", !.answers = NoThread]>>
  ELSE <<>>

\* "Make sure to send ack BEFORE invoking topic callbacks": up to the first
\* callback, where classMutex_ is released.
GiveRxDataMessage ==
  /\ Reads
  /\ Head(inbox).kind # "ACK"
  /\ mutex = NoThread
  /\ inbox' = Tail(inbox)
  /\ outbox' = outbox \o Answer(Head(inbox))
  /\ rx' = "callback"
  /\ handles' = [handles EXCEPT ![RxThread] = Head(inbox).owner]
  /\ UNCHANGED publishWaitVars

\* The callbacks return, and GiveRxData takes the lock again.
CallbackReturns ==
  /\ rx \in {"callback", "called"}
  /\ pc[RxThread] = "idle"
  /\ mutex = NoThread
  /\ rx' = "reading"
  /\ handles' = [handles EXCEPT ![RxThread] = NoThread]
  /\ UNCHANGED <<lineVars, publishWaitVars>>

GiveRxData == GiveRxDataAck \/ GiveRxDataMessage \/ CallbackReturns

-----------------------------------------------------------------------------
NodeNext ==
  \/ \E t \in Threads : \/ CallPublish(t)
                        \/ CallPublishWait(t)
                        \/ CallPublishWaitRefused(t)
                        \/ AwaitAck(t)
                        \/ ReturnFromPublishWait(t)
  \/ GiveRxData

-----------------------------------------------------------------------------
(* Properties of one of two nodes                                          *)

On(line, kind, t) == \E k \in DOMAIN line : line[k].kind = kind /\ line[k].owner = t

\* A PUBLISH that waits for its ACK is on the line, or its ACK is: one of them.
PacketOrAckUnderway ==
  \A t \in Threads :
    pc[t] = "waiting" /\ ackSeen[t] = "no" =>
      (On(outbox, "PUBLISH", t) <=> ~On(inbox, "ACK", t))

\* What the callbacks send in answer to a message comes behind its ACK, or
\* comes when the ACK has been received.
AnswerBehindAck ==
  \A k \in DOMAIN inbox :
    LET t == inbox[k].answers
    IN  t \in Threads /\ ackSeen[t] = "no" =>
          \E j \in 1 .. k - 1 : inbox[j].kind = "ACK" /\ inbox[j].owner = t

\* No PublishWait that a callback made has been acknowledged.
CallbackNotAcked == response[RxThread] # "SUCCESS"
=============================================================================
