# EmbeddedSerialFiller in TLA+

EmbeddedSerialFiller is a C++ library for small systems that publishes messages
on topics over a serial link and, on request, waits for their acknowledgement.
This directory holds TLA+ models of it, the TLC configurations that check them
and the theorems TLAPS proves about them. File names are relative to the
repository; `RTOS.cpp` and `NoRTOS.cpp` are
`src/EmbeddedSerialFiller_RTOS.cpp` and `src/EmbeddedSerialFiller_NoRTOS.cpp`.

    tlc -config PublishWait_std.cfg MCPublishWait.tla     (and likewise the others:
    PROJECT.json names the module of each configuration)
    tlapm PublishWaitProofs.tla ; tlapm DispatchProofs.tla ; tlapm NoRtosProofs.tla
    tlapm NodeProofs.tla ; tlapm TwoNodesProofs.tla ; tlapm RxStreamProofs.tla
    tlapm PacketProofs.tla ; tlapm SequenceLemmas.tla

## 1. The system

| Component | State | Operations | What makes it correct |
|---|---|---|---|
| Acknowledged publishing (`RTOS.cpp`) | `nextPacketId_`, `events[]`, `ackEvents_`, `classMutex_`; per call `packetId`, `ackEvent` | `Publish`, `PublishWait`, ACKs in `GiveRxData`, `NumThreadsWaiting` | the response of a call says what became of its own packet; the table of pending ACKs leaks and mixes up nothing; every call returns |
| Lock and condition variable (`esf_embos_abstraction.*`, `esf_freertos_abstraction.*`, `esf_full_std_support.h`) | an OS event per AckEvent | `lock`, `unlock`, `wait_for`, `notify_all` | `wait_for` releases the lock, reports timeouts and nothing else as timeouts, and remembers nothing of earlier waits |
| Subscriptions and delivery (`RTOS.cpp`) | `subscribers_`, `nextFreeSubsriberId_`; in `GiveRxData` two iterators | `Subscribe`, `Unsubscribe`, `UnsubscribeAll`, the callbacks | everyone subscribed is called once, although the lock is released around callbacks |
| Framing (`Utilities.cpp`, loop of `GiveRxData`) | `rxBuffer_`, the caller's `rxData` | `MoveRxDataInBuffer`, the loop | messages are found wherever chunks begin and end; damage costs no more than the packets it touches |
| COBS (`CobsTranscoder.cpp`) | output arrays and positions | `Encode`, `Decode` (optimised, container) | round trip, unique terminator, no access out of bounds |
| Packet layout (`Utilities.cpp`, `PublishInternal`) | none | `AddCrc`, `VerifyCrc`, `SplitPacket` | what is split is what was put together |
| Build without an RTOS (`NoRTOS.cpp`) | one `ackEvent`, static state of `PublishWait` | polling `PublishWait`, `GiveRxData`, `TaskPending` | one call at a time, driven by polling, gets the ACK of its packet or a timeout |
| Two nodes (`test/integration`) | two queues of bytes, two RX threads, one mutex | all of the above, from the application and from callbacks | each node is to the other what `PublishWait` takes its peer and link for; ACKs come before answers; nobody waits for ever |

How they interact: an application thread calls `PublishWait`, which registers an
AckEvent, encodes a packet and hands it to the delegate `txDataReady_`, all with
`classMutex_` held, and then blocks in `wait_for`, which should release the lock.
The RX thread calls `GiveRxData` with received bytes; `MoveRxDataInBuffer` cuts
packets out of them, `Decode` and `VerifyCrc` check them, and then either an
ACK is matched with an AckEvent by packet ID and `notify_all` wakes the thread,
or a message is acknowledged and given to the callbacks of its topic with the
lock released around each. Callbacks may call the API again.

Hard to test are: the races between deadline, ACK and other calls during the
wait; packet IDs that wrap; the differences between three operating systems;
subscriptions that change during delivery; a receive buffer at its limit;
damaged and lost bytes; output sizes computed from formulas; a static state
machine that several tasks drive by polling; callbacks that call the API on the
thread that would have to receive the answer. `PROJECT.json`
lists them as hazards, each at its line and with the properties that would catch it;
where there is none, a note says why.

## 2. The modules

| Module | Contents |
|---|---|
| `AckedPublish` | abstract specification of what `PublishWait` promises |
| `PublishWait` | acknowledged publishing with threads, lock, condition variables, IDs, a faulty link |
| `MCPublishWait` | its instances for TLC (threads as model values, symmetry) |
| `PublishWaitProofs` | what is proved of the table, of responses and of the platforms, and the refinement |
| `NoRtos`, `MCNoRtos` | acknowledged publishing without an RTOS, driven by polling; its instances |
| `NoRtosProofs` | what is proved of it, and the refinement |
| `Node` | a node with its RX thread and callbacks: `PublishWait` with another node as its peer |
| `NodeProofs` | what a step of a node is to itself and to the node it is connected to |
| `TwoNodes`, `MCTwoNodes` | two nodes connected to each other; their instances |
| `TwoNodesProofs` | what is proved of them, and the refinement |
| `Dispatch` | subscriptions and delivery |
| `DispatchProofs` | what is proved of them |
| `RxStream` | framing: how bytes become packets |
| `RxStreamProofs` | what is proved of it |
| `Cobs` | COBS encoding and decoding, byte by byte |
| `Packet` | a packet from `PublishInternal` over `Cobs` to `SplitPacket` |
| `PacketProofs` | what is proved of both |
| `SequenceLemmas` | what the proofs need to know of `Min`, `RemoveAt`, `RemoveFirst`, prefixes, slices, tuples, and the elements of sequences that are cut and joined |

`AckedPublish` is implemented by `PublishWait` and by `NoRtos`, and `PublishWait`
by each node of `TwoNodes`.

`RxStream`, `Packet`, `Dispatch` and `PublishWait` model four parts of the one
function `GiveRxData`: cutting packets out of the stream, checking and splitting
one, the callbacks, and ACKs. They are kept apart because their states do not
meet: a packet that `RxStream` delivers is decoded by `Packet`, and is then a
message for `Dispatch` or an ACK for `PublishWait`.

### PublishWait

A critical section of `classMutex_` is one action. That is sound because all the
code between `lock` and `unlock` or `wait_for` touches only state that the lock
protects; what one thread does inside is invisible to others. `mutex` records who
holds the lock *between* actions, which happens only with FreeRTOS.

| Code | Model |
|---|---|
| `PublishWait` up to `wait_for` (`RTOS.cpp:29-62`) | `PublishWaitBegin`, or `PublishWaitRefused` when there is no AckEvent to be had |
| the end of `PublishInternal` (`RTOS.cpp:374-395`; the packet it builds is in `Packet`) | `AdvancePacketId`, `Increment`: the ID wraps like a `uint8_t` and skips 0; without `txDataReady_` it stands still |
| the wait | `pc = "waiting"`; `TakeSignal`, `Timeout`, `EventReset`, `SpuriousWakeup`, `DeadlinePasses` |
| `PublishWait` from `wait_for` on (`RTOS.cpp:62-86`) | `PublishWaitReturn` with `RemoveEvent` |
| `GiveRxData` with an ACK (`RTOS.cpp:246-266`) | `GiveRxAck` with `NotifyAll`, `GiveRxUnexpectedAck` |
| the peer (`RTOS.cpp:194-199` there) and the link | `PeerReceives`, `LosePublish`, `LoseAck`; a packet may also stay on the link after it was delivered |

The three platforms differ in `wait_for` and `notify_all`. *std*: the wait
releases the lock and blocks in one step; a notified thread whose deadline passes
before it has the lock again reports a timeout (`DeadlinePasses`); spurious
wakeups are possible (`SpuriousWakeups`). *embOS*: an event that latches when
nobody waits and resets itself when taken; after a timeout it is reset, and the
lock taken again, in two more steps. *FreeRTOS*: the lock is kept while blocked,
and the result is that of `xEventGroupWaitBits`.

`owner` in a packet and `ackSeen` are history: whose call sent a packet, and
whether its ACK reached the node in time. They guard no action. `FreshIds` is an
assumption about the environment: a call begins only when no call and no packet
on the link carries the ID it is about to take. With 255 IDs it is what the
library relies on; the code cannot establish it. Without it (IDs reused after
the counter wraps) the late ACK of an old packet acknowledges a new one;
`PublishWait_reuse` checks what holds even then.

### NoRtos

The first call of `PublishWait` for a message is three steps, because
`txDataReady_`, in the middle of `PublishInternal`, is the one place where other
code runs: it may deliver the packet to another node in the same call, and that
node's ACK may be processed before `PublishInternal` returns.

| Code | Model |
|---|---|
| `ENTRY_POINT` up to `txDataReady_` (`NoRTOS.cpp:37-46`) | `Enter` with `Record`; a failed assertion is recorded in `assertFailed` |
| return of `PublishInternal`, `pw_state = CONTINUATION_POINT` (`NoRTOS.cpp:341-352`, `48`) | `PublishInternalReturns` |
| from `CONTINUATION_POINT` on, in the first call and in later ones (`NoRTOS.cpp:50-78`) | `PollPending`, `PollAcked`, `PollTimesOut` with `Finish` |
| `GiveRxData` with an ACK (`NoRTOS.cpp:210-220`) | `GiveRxAck`, `GiveRxUnexpectedAck` |
| `TaskPending` (`NoRTOS.cpp:258`) | `TaskPending`, which a task asks before it publishes (`ChecksTaskPending`) |

`pw_state` and `timeout_count` are static variables of the function, so they are
one for all nodes and tasks; `ackEvent` and `nextPacketId_` are per node. A task
that has a message in progress calls again (`pc = "polling"`), and nothing but
`TaskPending()` keeps another task from calling in between. `calls` and
`ackedAfter` are history. The peer and the link are those of `PublishWait`. The
timeouts of the tasks and whether `txDataReady_` is set are chosen at the start.
`Subscribe`, `Unsubscribe`, the loop over the callbacks and the loop over the
packets are those of the other build without the locks: what `Dispatch`,
`RxStream` and `Packet` show of them, with callbacks that change the
subscriptions, covers this build too.

### Node and TwoNodes

`Node` extends `PublishWait`: its actions are those of `PublishWait` together
with what happens on the lines, which are sequences of packets. The RX thread
(`test/integration/Node.h:44-64`) is one of the `Threads`: `rx` says whether it
reads, or is in a callback, or in one that has called the API.
`GiveRxDataMessage` is the whole critical section of `GiveRxData` up to the first
callback - the ACK is put on the line in it; `CallbackReturns` is the rest. A message without
subscribers is one whose callback does nothing. A callback may
call `Publish` or `PublishWait` once, and so may the application at any time.

`TwoNodes` has two instances of `Node` (of `NodeProofs`, which is `Node` with
lemmas, so that the proofs can use them of either node). The line from one to the other is the
`outbox` of the first and the `inbox` of the second; `toPeer` and `fromPeer` of
`PublishWait` are the PUBLISH and ACK packets on them, so its actions for the peer
and the link are replaced by the steps of the other node. `mutex` is one
variable: `classMutex_` is a static member. That each node then behaves as
`PublishWait` says (`NodesImplementPublishWait`) is what carries the properties
of `PublishWait`, which are checked and proved for any peer and any link, over to
two real nodes. `answers` in a packet and `handles` are history: whose message the
callback was given that sent it.

### Dispatch

The iterators of `GiveRxData` are addresses inside `etl::vector`s, so they are
modelled as the positions `it` and `subIter`: when a vector changes under them,
they point at whatever is there now. `rx = "astray"` is the state in which the
loop has passed `end()`; the behaviour of the program is undefined from there
on and the model has no further step of `GiveRxData`. `called`, `owed`, `told`
and `disturbed` are history. To subscribe beyond the capacity of an
`etl::vector` is undefined (no checks are configured), so `HasRoom` is a guard.

### RxStream

A byte is known by the packet it belongs to and its place there, a packet is
valid if it has all its bytes and no other. `GiveRxData(n)` begins a call with `n`
new bytes - as many as the caller's `ByteArray` holds - after what the last call
left in `rxData`, or without it: the tests build a new vector for each call, and
what an early return left behind is then thrown away (it counts as `lost`).
`rejects` is the build, with or without `ESF_REJECT_INCOMPLETE_PACKETS`; it is
chosen at the start and never changes. `lost`, `dropped`, `returned` and
`delivered` are history. `Kept` is what the node and the line still hold, in order.

### Cobs

One step is one iteration of the loop of `Encode` or `Decode` (`Decode` copies a
block in one step). Outputs are an array and a size because both functions write
through a pointer: `Contents` is what a container then holds. `BlockMax` stands
for 254. `optimised` is the build: the pointer version of `Decode`
(`ESF_OPTIMISE`) or the container version. A behaviour starts either with a message
to encode or with noise that no encoder wrote, maybe none before its zero: only the
pointer version is protected from so short a packet (`Decodable`), the container
version then looks at a byte behind it (`DecodeLoneZero`). `Cobs` alone is run for long
messages only; all else is checked in `Packet`. The pointer version of `Encode` is modelled; the container version
computes the same bytes and sizes.

### Packet

`Packet` extends `Cobs` with both ends. `PublishInternal` builds the packet with
its CRC, or overflows the `ByteArray` (`PublishInternalOverflows`); `Transcode` is
a step of `Cobs`; then one of the actions of `GiveRxData` says what becomes of the
packet: not decoded, CRC wrong, type unknown, topic too long, an ACK, a message.
A topic that ends behind the data (`GiveRxDataSplitsBehindEnd`) is undefined
behaviour in C++, and the model stops there. The CRC is some checksum of two bytes,
so that there is noise that passes it. Bytes are numbers up to `BlockMax + 1`;
the letters of the packet types are the numbers 1 to 3.

## 3. What is checked

Eight runs must pass, four must fail, each of these by showing one disagreement
between code and documentation (section 5).

| Run | Bounds | Properties |
|---|---|---|
| `PublishWait_std` | std, 3 threads, 2 AckEvents, IDs 1-2, fresh | `TypeOK`, `EventStaysWithCall`, `ResponseMatchesAck`, `WokenByOwnAck`, `PublishWaitReturns`, `ImplementsAckedPublishSafety`, `ImplementsAckedPublish` |
| `PublishWait_reuse` | std, 3 threads, 2 AckEvents, IDs 1-2, reused, spurious wakeups | `EventTable`, `IndexAlwaysFound`, `NumThreadsWaitingExact` |
| `PublishWait_embos` | embOS, 2 threads, 2 AckEvents, IDs 1-2, fresh | `TimelyAckSucceeds`, `PublishWaitReturns` |
| `NoRtos` | 1 node, 2 tasks, timeouts 0-2, IDs 1-3, fresh, with and without `txDataReady_` | `TypeOK`, `AssertHolds`, `TaskPendingExact`, `ResponseExact`, `ImplementsAckedPublishSafety`, `ImplementsAckedPublish` |
| `TwoNodes` | std, an application and an RX thread on node 1, an RX thread on node 2, 1 AckEvent each, IDs 1-2, 1 message and any ACKs on each line | `NothingLost`, `AckComesFirst`, `NotAckedInCallback`, `EveryoneGoesOn`, `NodesImplementPublishWait` |
| `Dispatch` | 2 topics, 3 places each, 4 subscriptions in all | `TypeOK`, `IteratorsHold`, `AstrayOnlyIfDisturbed`, `NobodyTwice`, `EveryoneCalled` |
| `RxStream` | 4 packets of 3, one an unexpected ACK, buffer of 5, 2 bytes lost by the line, both builds | `TypeOK`, `InOrderOnce`, `Recovers`, `NoSilentDrop`, `Drains` |
| `Packet` | topics of up to 2 bytes, data of up to 8, noise of up to 5, blocks of 7, containers of 18, both builds | `PacketTypeOK`, `EncodeInBounds`, `DecodeInBounds`, `DecodesToPrefix`, `UniqueZero`, `MessageArrives`, `PacketDealtWith` |

What they show. *Responses*: on std and without spurious wakeups a call succeeds
exactly when its own ACK came in time, only that ACK wakes it, and the node
implements `AckedPublish` with its liveness; on embOS no timely ACK is missed.
*Without an RTOS*: the same, counted in calls: a message succeeds exactly when its
ACK came before the last call its task allowed, whichever of the steps of
`PublishWait` the ACK falls between - if the tasks ask `TaskPending()` first.
*Two nodes*: each is to the other what `PublishWait` takes for granted, an answer
never overtakes the ACK, and two RX threads that wait for each other in callbacks
cost a timeout but not the program.
*The table*: it stays exact even when IDs are reused and calls take each other's
AckEvents off it. *Delivery*: the iterators survive every change of the
subscriptions but the removal of a subscriber already called (or of all).
*Framing*: order and uniqueness survive every loss; every message whose bytes,
and the zero before it, reached `rxBuffer_` or a packet is delivered once all is received.
*Packets*: a message that fits, encoded, into a `ByteArray` arrives as it was sent -
in the build with `ESF_OPTIMISE` only up to one COBS block: see section 5; noise is never
read or written out of bounds by `Decode`.

Why the bounds are enough. With three threads and two AckEvents a call is
refused, an AckEvent passes from one call to the next and the middle one is
removed; with two IDs the counter wraps many times. Four subscriptions on two
topics leave an entry with three subscribers, one before and one after the
iterator, and entries before and after `it`. Two lost bytes can run three
packets together; two packets that ran together do not fit a buffer of five, so
it overflows, with bytes of the next packet before and after that point.
Packets of up to 14 bytes have two full blocks of seven; the shorter ones none and
one and a rest, and the longest do not fit the container of 18 once encoded.
In `NoRtos` a timeout of 0 (settled by the first call), of 1 and of 2 are all there,
IDs wrap, and an ACK can fall into each step of `PublishWait`. In `TwoNodes` both
RX threads can be in a callback that waits for the other node, the application
and a callback compete for the one AckEvent, and an ACK and a message are on the
same line; a second message on a line changes nothing in the safety properties
(checked up to two messages, and up to two threads on both nodes, outside the
runs: 612,900 and 919,144 states) and makes the liveness check take too long.

Deadlock is checked everywhere but in `Packet` and `Cobs_long_message`: `Encode`,
`Decode` and the handling of one packet end, and the model with them
(`PacketDealtWith` says they do). In `RxStream`
the step `Idle` stands for waiting when all has been received.

Fairness. `PublishWait`: a wait ends when its time is up or its event is set,
because `wait_for` has a deadline (`WF` on `Timeout \/ TakeSignal`); a thread that
can run is scheduled (`WF` on `EventReset` and `PublishWaitReturn`) - the lock is
held for ever by nobody, so a thread that wants it again gets it. Nothing is
assumed of the link, of the peer or of the application. `RxStream`: the RX thread
goes on while bytes are left. `Packet`: a loop of one thread goes on. `NoRtos`:
`txDataReady_` returns, and a task that has a message calls `PublishWait` again, for
"periodic calls to PublishWait drive the 'wait' timeout" (`README.md:25`); nothing is
assumed of when. `TwoNodes`: waits end and calls return as in `PublishWait`, an RX
thread that is not in a callback reads what is on its line, and a callback returns
unless it is in `PublishWait`.

## 4. What is proved

TLAPS checks the following for all values of the constants that satisfy
`ConstantsAssumption`: any number of threads, of AckEvents and of IDs.

| Theorem | Property | Assumes |
|---|---|---|
| `TypeCorrect` | `TypeOK` | - |
| `EventTableIntact` | `EventTable` | - |
| `InvalidIndexIsDead` | `IndexAlwaysFound` | - |
| `EventStays` | `EventStaysWithCall` | `FreshIds` |
| `NumThreadsWaitingIsExact` | `NumThreadsWaitingExact` | `FreshIds` |
| `ResponseIsExact` | `ResponseMatchesAck` | `Trustworthy` |
| `OnlyOwnAckWakes` | `WokenByOwnAck` | `Trustworthy` |
| `TimelyAckReturnsSuccess` | `TimelyAckSucceeds` | `FreshIds` |
| `FreeRtosAlwaysReportsSuccess` | `SuccessUnheard` | FreeRTOS, `FreshIds` |
| `SafetyRefinement` | `ImplementsAckedPublishSafety` | `Trustworthy` |

`Trustworthy` is: std, no spurious wakeups, fresh IDs. The violations of section 5
show that none of the three can be dropped. `TimelyAckSucceeds`, one half of the
promise, needs only fresh IDs, with spurious wakeups and on every platform: on embOS
an ACK that comes before the deadline is found although the event resets itself. On
FreeRTOS it holds for a bad reason, which is `SuccessUnheard`: no ACK is ever
processed while a call waits, and every call that has waited returns SUCCESS.

Of `Dispatch`, for any topics, capacities (`DispatchAssumption`) and number of
subscriptions:

| Theorem | Property |
|---|---|
| `TypeCorrect` | `TypeOK` |
| `UniqueIds`, `UniqueTopics` | `IdsUnique`, `TopicsUnique` |
| `IteratorsStayValid`, `LoopStaysInside` | `IteratorsHold`, `AstrayOnlyIfDisturbed` |
| `NobodyCalledTwice`, `EveryoneIsCalled` | `NobodyTwice`, `EveryoneCalled` |

They follow from one inductive invariant, `DispatchInv`. Beyond the properties
it says that IDs are given out in order (`IdsGiven`: or a new subscriber could
have the ID of another), that two entries never have the same topic
(`TopicsDistinct`: or those owed a message could be in an entry the loop does not
go through), that nobody who was called is ahead of the iterator (`NobodyAhead`:
this holds after any removal, because the list only moves up and new
subscribers have new IDs, and is why nobody is called twice) and that those owed
the message are in the list the loop goes through (`OwedAreListed`). What an
operation does to the lists is stated once, in `SubscribeKeeps` and
`UnsubscribeKeeps`.

Of `NoRtos`, for any tasks, nodes, timeouts and IDs:

| Theorem | Property | Assumes |
|---|---|---|
| `TypeCorrect` | `TypeOK` | - |
| `AssertAlwaysHolds` | `AssertHolds` | `OneAtATime` |
| `TaskPendingIsExact` | `TaskPendingExact` | `OneAtATime` |
| `CallsAreBounded` | `CallsBounded` | `OneAtATime` |
| `ResponseIsExact` | `ResponseExact` | `OneAtATime`, `FreshIds` |
| `SafetyRefinement` | `ImplementsAckedPublishSafety` | `OneAtATime` |

`OneAtATime` is what the application must ensure: all tasks publish on one node
and ask `TaskPending()` first. The invariant behind all of them is `TurnInv`: the static
`pw_state` is `CONTINUATION_POINT` exactly when some task is behind
`PublishInternal`, at most one task has a message (`TurnTaken`), and its node's
event is in use exactly then (`EventInUse`). `TaskPendingExact` alone is not
inductive: without `TurnTaken` a second task could enter between two calls of the
first. `AnswerInv` adds that a packet on the link with the ID that is awaited is
the packet of the task that waits (`LinkInv`, from fresh IDs) and that the ACK flag
says whether its ACK has come (`AckInv`). The refinement needs no fresh IDs:
whose ACK it was `AckedPublish` does not see here, as at most one message is in progress.

Of `TwoNodes`, for any threads on either node, AckEvents, IDs and number of
messages on the lines (`TwoNodesAssumption`):

| Theorem | Property | Assumes |
|---|---|---|
| `NodesRefinePublishWait` | `NodesImplementPublishWait` | not FreeRTOS |
| `NodesAnswerTruly` | `ResponseMatchesAck` of both nodes | `Trustworthy` |
| `NothingIsLost` | `NothingLost` | not FreeRTOS |
| `AckAlwaysFirst` | `AckComesFirst` | not FreeRTOS |
| `CallbacksAreNotAcked` | `NotAckedInCallback` | std, no spurious wakeups |

FreeRTOS is excluded because its `wait_for` keeps `classMutex_`, which is that of
the other node too. The refinement rests on `LinesInv`: which packets may be on which
line, and that the lock is free between actions. A step of a node is a step of
`PublishWait` for itself (`OwnStep`) and, for the other node, a PUBLISH received and
acknowledged or nothing at all (`PeerStep`). Given the refinement, `NodesAnswerTruly`
is `ResponseIsExact` of either node. `NothingLost` and `AckComesFirst` are not
inductive; `Underway` adds that nothing on the lines belongs to a thread that is not
in `PublishWait` (or a new call would inherit it), that a call has one PUBLISH on
the line (or the ACK of one could come while another is still there) and that the
ACK of a message whose callbacks are running is already on its way (or they could send
ahead of it). It is stated of one direction and proved for the steps of either node;
`CallbackInv` says that the RX thread is in `PublishWait` only inside a callback, during
which it takes no ACK.

Of `Cobs` (`SafetySpec`), for blocks of any size, messages and noise of any length
and any bytes (`CobsAssumption`):

| Theorem | Property |
|---|---|
| `CobsTypeCorrect` | `TypeOK` |
| `EncodeStaysInBounds` | `EncodeInBounds` |
| `DecodeStaysInBounds` | `DecodeInBounds` |
| `ZeroIsUnique` | `UniqueZero` |
| `DecodesToTheMessage` | `DecodesToPrefix`, if `MaxRaw < BlockMax * BlockMax` |
| `DecodingRestores` | `RoundTrip`, if `BlockMax # 1` |

That `Encode` has room rests on counting full blocks (`Written`): with `f` of them
closed, `f * BlockMax` bytes have been read for them, and no more than one code byte
each was added to what was read; `DivBound` turns this into the `n / 254` of the
size. `Decode` stays inside because what it is given has its first zero at the end
(`CutBehindZero`, of the search in `MoveRxDataInBuffer`) and it never goes over a
zero (`BlockAhead`). `ZeroIsUnique` follows from `NoZeros`, of all that `Encode` has
written only the open code byte is zero, and from the exact size in `Written`.
`TypeOK` adds that code bytes are bytes and that every packet fits the arrays
(`TypeInv`).

That decoding gives back the message rests on `RoundInv`: there is a function `d` that
says, of each place where a block begins in what `Encode` has written, how much of
the message comes before it (`Blocks`). `Encode` extends `d` with every block it closes
(`CloseBlocks`), and `Decode` is always at a place where `d` is defined, has written
`d` of it, and has written what the message says (`Follows`, `BlockToDecode`). Without
`d` nothing would tell how far `Decode` may be when it meets a code byte. What is
between the two is that the zero the receiver cuts at is the terminator and not one
inside the message (`WholePacketIsCut`). This says what is in the array; how much of it
is in the container is arithmetic: without `ESF_OPTIMISE` all of it, so that
`RoundTrip` holds for every message; with it the size is a formula which is never too
large while the message is shorter than 254 * 254 bytes (`DecodedSizeFits`; a packet,
`ESF_MAX_PACKET_SIZE`, has at most 1024) and right up to one full block
(`DecodedSizeIsExact`): so the assumption of the one and the premise of the other.
Beyond one block `Cobs_long_message` shows it wrong. A block of one element
(`BlockMax = 1`, the code has 254) would make the formula wrong for one byte already.

Of `Packet` (`PacketSpec`), for any container, longest topic, data and noise as well
(`PacketAssumption`), in `PacketProofs`, too:

| Theorem | Property |
|---|---|
| `PacketTypeCorrect` | `PacketTypeOK` |
| `MessageAlwaysArrives` | `MessageArrives` |
| `PacketsStayInBounds` | `EncodeInBounds`, `DecodeInBounds`, `UniqueZero` |
| `PacketsAreDecoded` | `DecodesToPrefix`, if `PacketSize <= BlockMax * BlockMax` |

Its steps in between are steps of `Cobs`, so `PacketInv` takes over the invariants
above. They hold of anything that `Start` allows, a state in which `Encode` has not
begun and any bytes that fit the arrays are to be encoded: that is where both `Init`
and `PublishInternal` lead. `PacketInv` adds what the ends have in common: what is
encoded is what was built of the type, the ID, the topic and the data, which stay as
they are (`Sent`), and a topic is no longer than a `Topic` (`Published`: or the
receiver would cut it). `MessageArrives` then takes three facts. What was built is
decoded to itself (`MessageRestored`, hence its premise about one block). The CRC
behind it is that of the bytes before it (`AddCrcBytes`): of the sum itself only that it
exists, two bytes for any bytes (`SumExists`, `CrcIsTwoBytes`), so this holds of
any checksum of two bytes. And `SplitPacket` finds each part where `Layout` has put it
(`LayoutBytes`, `BuiltIsSplit`), so that of all actions of `GiveRxData` only the right
one can be taken (`OwnMessageArrives`). For noise `PacketTypeOK` says that
whatever passes the CRC is long enough for what is read of it and that nothing but
bytes is delivered (`VerifiedBytes`, `MessageWellFormed`); this needs the size that
`Decode` gives its output to be inside the array for any packet
(`DecodedSizeBounded`).

Of `RxStream`, for any packets of any length, unexpected ACKs, buffer sizes, losses
and chunks, and both builds (`RxStreamAssumption`):

| Theorem | Property |
|---|---|
| `TypeCorrect` | `TypeOK` |
| `DeliveredInOrderOnce` | `InOrderOnce` |
| `ReceptionRecovers` | `Recovers` |
| `NothingDroppedInSilence` | `NoSilentDrop` |
| `PromiseKeptOnSuccess` | `SuccessMeansDelivered` |

The invariant is `StreamInv`. `OrderInv` says that what is delivered, the packet at
hand, `rxBuffer_`, `rxData` and the line follow each other in the order of sending: a
packet is valid if it has all its bytes and no others, and only from the order does it
follow that these are then the packet (`InOrderIsFrame`). `GoneInv`: what is lost or
dropped is nowhere else, and `rxBuffer_` has no zero, or the packet that
`MoveRxDataInBuffer` cuts off could be two. `ReceiveInv` is `Recovers` for the middle of
a reception: a packet that nothing has touched is delivered, at hand, or still to come
as a whole and behind a zero or first of all (`Ahead`); without the zero a rest of an
earlier packet could still be joined to it. `SilentInv` counts the bytes as long as all
calls return SUCCESS. `SuccessMeansDelivered` is the promise of the header that
`RxStream_wedged` refutes, with the condition under which it does hold.

The argument for `PublishWait` has three inductive invariants, each on top of the one before.
`TableInv` is `TypeOK` and `EventTable`, and that a pending call has an ID other
than 0: `EventTable` alone is not inductive, because `RemoveEvent` with the ID 0
would find no event and `PublishWaitBegin` with the ID 0 would list a free one.
It needs nothing of the IDs: removing *some* AckEvent with the right ID keeps the
table sound even if it is another call's. `SessionInv` adds, for fresh IDs, that
calls, AckEvents, IDs and packets on the link correspond one to one; then
`RemoveEvent` finds exactly the caller's own event, and an ACK with the ID of a
call is the ACK of its packet. `ResponseInv` adds what each position of a call
says about its ACK: a waiting call has not seen it, a woken one has exactly if
`waitReturn` says so. From it the responses, the action property and the step
simulation of the refinement follow. For the other platforms two weaker ones stand on
`SessionInv`: `HearInv`, that a call which is not out of its wait has not heard its ACK
in time and one that has is told so, also between the reset of the embOS event and the
lock; and on FreeRTOS `DeafInv`, that a call that waits has the lock, so that no event
is ever set.

Only model-checked: liveness (`PublishWaitReturns`, `ImplementsAckedPublish`,
`EveryoneGoesOn`, `Drains`, `PacketDealtWith`) and the use of fairness, which TLAPS
does not reason about here. Every other property of a run is a theorem.

## 5. Where code and documentation disagree

Each line is a run that TLC must find violated; `PROJECT.json` quotes the sources.

| Run | What happens |
|---|---|
| `PublishWait_freertos_result` | a timeout is reported as SUCCESS, as the results are exchanged (`esf_freertos_abstraction.cpp:51`); an ACK reported as TIMEOUT does not come up, as the wait keeps the lock |
| `Dispatch_unsubscribe` | unsubscribing in one's own callback hides the message from the next subscriber, or sends the loop past the end (`RTOS.cpp:229`) |
| `RxStream_wedged` | a full `rxBuffer_` stays full: the packets behind the damage are lost too (`Utilities.cpp:29`) |
| `Cobs_long_message` | from 255 bytes on a message with zeros loses its last byte (`CobsTranscoder.cpp:136`) |

The models also contain, without a run of their own:

- a spurious wakeup of `std::condition_variable` counts as an acknowledgement, as
  `PublishWait` waits without a predicate (`RTOS.cpp:62`): `SuccessNeedsAck`
  fails in `PublishWait_std` with `SpuriousWakeups = TRUE`;
- on embOS an ACK processed between the reset of the event and the lock leaves the
  event set, and the next call that takes the AckEvent returns SUCCESS at once
  (`esf_embos_abstraction.cpp:60`): `SuccessNeedsAck` fails in `PublishWait_embos`;
- `pw_state` is static (`NoRTOS.cpp:30`): when tasks of two nodes publish, the second
  one's first call goes on where the first one's stopped, and in the end the assertion
  `NoRTOS.cpp:41` fails: `AssertHolds` in `NoRtos` with two nodes (`OnOwnNode`);
- `EXPECT_EQ( dataToSend, savedData2 )` right after SUCCESS
  (`test/integration/TwoNodeAckTests.cpp:87`): the ACK is sent before the callback
  stores the data, so node 1 may get there first (`GiveRxDataMessage` of node 2,
  `GiveRxDataAck` and `ReturnFromPublishWait` of node 1, before `CallbackReturns`);
- `SplitPacket` compares the length of the topic with the bytes behind the ID,
  its own length byte included, and its subtraction wraps for a packet of three bytes
  (`Utilities.cpp:110`): `GiveRxDataSplitsBehindEnd`;
- the assertion in `PublishInternal` (`RTOS.cpp:347`) cannot fail, and does not
  keep a packet from being too large: `PublishInternalOverflows`;
- the comments of the headers name the packet types 0x01, 0x02 and 0x04
  (`EmbeddedSerialFiller_NoRTOS.h:28`), the code uses letters (`Definitions.h:51`);
- the wrap of the ID counter (`RTOS.cpp:387`): with `FreshIds = FALSE`
  `SuccessNeedsAck` fails, an old ACK acknowledges a new packet;
- FreeRTOS `wait_for` keeps `classMutex_` while it blocks, so the ACK it waits for
  cannot be processed (`esf_freertos_abstraction.cpp:49`): `mutex` stays taken;
- packets behind an unexpected ACK are left in the caller's `rxData`
  (`RTOS.cpp:260`): a caller that makes a new vector loses them;
- a topic whose last subscriber has gone keeps its entry, so nobody is told of its
  messages (`RTOS.cpp:210`): `GiveRxData` ends with `told = FALSE`;
- `Encode` may end a packet of a message of 254 bytes or more with two zeros
  (`CobsTranscoder.cpp:17`): why `UniqueZero` stops at `BlockMax`;
- the pointer version of `Decode` leaves data behind when it fails
  (`CobsTranscoder.cpp:199`), although "If the decode fails, decodedData is left
  empty" (`CobsTranscoder.h:26`): `LeaveOutput`; `GiveRxData` does not look at it;
- the container version of `Decode` takes a packet of one zero for a block of -1
  elements and looks at the byte behind the packet (`CobsTranscoder.cpp:164`):
  `DecodeLoneZero`; `VerifyCrc` rejects whatever comes of it;
- the pointer version takes the position in the packet for the position in its output
  when it writes the zero between blocks (`CobsTranscoder.cpp:219`, `ZeroBetweenBlocks`),
  which only an output that was all zeros before hides (`InitDecode`). The zero
  overwrites nothing that is decoded and stays within the capacity of a `ByteArray`
  (`DecodeInBounds`, checked and proved), but it may be behind `size()`.

## 6. Plan, and what is not modelled

Done: `PublishWait` with `AckedPublish`, `Dispatch`, `NoRtos`, `TwoNodes`, `Cobs`,
`Packet` and `RxStream`, each with its proofs. Next, in order of importance:

1. Several platforms in one run (a variable chosen at the start, as `optimised` and
   `rejects` are) would let `PublishWait` be checked on FreeRTOS together with embOS.

Not modelled: the polynomial of the CRC (its strength is a matter of arithmetic,
not of states; `RxStream` takes it to detect all damage, `Packet` does not); texts of status codes; `Container`, a typed view of
bytes; construction of locks and events; `SetThreadSafetyEnabled(false)`, which
gives up the lock and with it every promise about threads; two RX threads of one
node; compiler profiles and build files.
