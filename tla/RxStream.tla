------------------------------ MODULE RxStream -------------------------------
(***************************************************************************)
(* How GiveRxData cuts the received bytes into packets: MoveRxDataInBuffer *)
(* (src/Utilities.cpp) and the loop of GiveRxData around it                *)
(* (src/EmbeddedSerialFiller_RTOS.cpp), for one RX thread.                 *)
(*                                                                         *)
(* The peer has sent NumFrames packets.  Of a byte only matters which      *)
(* packet it belongs to and where: the last one of a packet is the zero,   *)
(* and a packet decodes and passes the CRC exactly if it has all its own   *)
(* bytes and no other (the CRC is taken to catch every damage).  The line  *)
(* may lose bytes, and the driver hands over the rest in chunks of any     *)
(* size that the caller's vector, a ByteArray like rxBuffer_, has room     *)
(* for.                                                                    *)
(***************************************************************************)
EXTENDS Integers, Sequences, FiniteSets, SequencesExt

CONSTANTS
  NumFrames,         \* how many packets the peer sends
  FrameLength,       \* their length, the zero included
  BufferSize,        \* ESF_MAX_PACKET_SIZE, the capacity of every ByteArray
  MaxLost,           \* bound: how many bytes the line may lose
  Unexpected,        \* the packets that are ACKs nobody waits for
  RejectOptions      \* which builds: with ESF_REJECT_INCOMPLETE_PACKETS or not

Frames == 1 .. NumFrames

Bytes == [frame : Frames, pos : 1 .. FrameLength]

ASSUME RxStreamAssumption ==
  /\ NumFrames \in Nat
  /\ FrameLength \in Nat \ {0}
  /\ BufferSize \in Nat \ {0}
  /\ MaxLost \in Nat
  /\ Unexpected \subseteq Frames
  /\ RejectOptions \subseteq BOOLEAN

VARIABLES
  rejects,    \* is ESF_REJECT_INCOMPLETE_PACKETS defined; never changes
  line,       \* the bytes on their way
  lost,       \* history: the bytes the line has lost or the caller thrown away
  dropped,    \* history: the bytes MoveRxDataInBuffer has dropped
  rxData,     \* the caller's vector
  rxBuffer_,  \* the bytes of a packet not complete yet
  packet,     \* GiveRxData: the packet being processed
  inCall,     \* is a call of GiveRxData going on
  returned,   \* history: the status codes the calls have returned
  delivered   \* history: the packets given to the subscribers, in order

vars == <<rejects, line, lost, dropped, rxData, rxBuffer_, packet, inCall,
          returned, delivered>>

IsZero(byte) == byte.pos = FrameLength

\* All that the peer sends.
Sent == [k \in 1 .. NumFrames * FrameLength |->
           [frame |-> (k - 1) \div FrameLength + 1,
            pos |-> ((k - 1) % FrameLength) + 1]]

IsFrame(bytes, f) ==
  bytes = [p \in 1 .. FrameLength |-> [frame |-> f, pos |-> p]]

\* Those of GiveRxData here; ERROR_PACKET for any that Decode, VerifyCrc or
\* SplitPacket return.
StatusCodes == {"SUCCESS", "ERROR_RX_DATA_BUFFER_FULL",
                "ERROR_PACKET_INCOMPLETE", "ERROR_PACKET",
                "ERROR_UNEXPECTED_ACK"}

TypeOK ==
  /\ rejects \in RejectOptions
  /\ line \in Seq(Bytes)
  /\ lost \in SUBSET Bytes
  /\ dropped \in SUBSET Bytes
  /\ rxData \in Seq(Bytes) /\ Len(rxData) <= BufferSize
  /\ rxBuffer_ \in Seq(Bytes) /\ Len(rxBuffer_) <= BufferSize
  /\ packet \in Seq(Bytes)
  /\ inCall \in BOOLEAN
  /\ returned \subseteq StatusCodes
  /\ delivered \in Seq(Frames)

Init ==
  /\ rejects \in RejectOptions
  /\ line = Sent
  /\ lost = {}
  /\ dropped = {}
  /\ rxData = <<>>
  /\ rxBuffer_ = <<>>
  /\ packet = <<>>
  /\ inCall = FALSE
  /\ returned = {}
  /\ delivered = <<>>

-----------------------------------------------------------------------------
(* The line and the caller                                                 *)

Lose ==
  /\ line # <<>>
  /\ Cardinality(lost) < MaxLost
  /\ lost' = lost \cup {Head(line)}
  /\ line' = Tail(line)
  /\ UNCHANGED <<rejects, dropped, rxData, rxBuffer_, packet, inCall,
                 returned, delivered>>

\* The driver gives n new bytes, after what the last call left in rxData or, if
\* the caller makes a new vector for each call, without it.
GiveRxData(n) ==
  /\ ~inCall
  /\ n <= Len(line)
  /\ \/ /\ Len(rxData) + n <= BufferSize
        /\ rxData' = rxData \o SubSeq(line, 1, n)
        /\ UNCHANGED lost
     \/ /\ rxData # <<>>
        /\ rxData' = SubSeq(line, 1, n)
        /\ lost' = lost \cup ToSet(rxData)
  /\ rxData' # <<>>
  /\ line' = SubSeq(line, n + 1, Len(line))
  /\ inCall' = TRUE
  /\ UNCHANGED <<rejects, dropped, rxBuffer_, packet, returned, delivered>>

-----------------------------------------------------------------------------
(* MoveRxDataInBuffer                                                      *)

Room == BufferSize - Len(rxBuffer_)

\* The position of the first zero in rxData, or 0.
ZeroAt == SelectInSeq(rxData, IsZero)

\* Mutant: one byte more is taken than there is room for.
Fits_More(n) == n <= Room + 1

Fits(n) == n <= Room

\* A zero is reached: everything up to it is a packet, the rest stays.
TakePacket ==
  /\ inCall /\ packet = <<>> /\ rxData # <<>>
  /\ ZeroAt # 0 /\ Fits(ZeroAt)
  /\ packet' = rxBuffer_ \o SubSeq(rxData, 1, ZeroAt)
  /\ rxBuffer_' = <<>>
  /\ rxData' = SubSeq(rxData, ZeroAt + 1, Len(rxData))
  /\ UNCHANGED <<rejects, line, lost, dropped, inCall, returned, delivered>>

Return(code) ==
  /\ inCall' = FALSE
  /\ returned' = returned \cup {code}

\* Mutant: a buffer that is full is not reported.
EndWithout_Silent(n, code) ==
  /\ rxBuffer_' = IF rejects THEN <<>> ELSE rxBuffer_ \o SubSeq(rxData, 1, n)
  /\ dropped' = (dropped \cup ToSet(rxBuffer_ \o rxData)) \ ToSet(rxBuffer_')
  /\ rxData' = <<>>
  /\ Return(IF code = "SUCCESS" THEN code ELSE "SUCCESS")

\* rxData ends without a packet: n bytes of it are buffered and the rest is
\* dropped, or all is where partial packets are rejected.
EndWithout(n, code) ==
  /\ rxBuffer_' = IF rejects THEN <<>> ELSE rxBuffer_ \o SubSeq(rxData, 1, n)
  /\ dropped' = (dropped \cup ToSet(rxBuffer_ \o rxData)) \ ToSet(rxBuffer_')
  /\ rxData' = <<>>
  /\ Return(IF rejects THEN "ERROR_PACKET_INCOMPLETE" ELSE code)

\* There is no zero: all of rxData is buffered.
BufferAll ==
  /\ inCall /\ packet = <<>> /\ rxData # <<>>
  /\ ZeroAt = 0 /\ Fits(Len(rxData))
  /\ EndWithout(Len(rxData), "SUCCESS")
  /\ UNCHANGED <<rejects, line, lost, packet, delivered>>

\* The buffer is full before a zero is reached: the rest of rxData is dropped.
BufferFull ==
  /\ inCall /\ packet = <<>> /\ rxData # <<>>
  /\ ~Fits(IF ZeroAt = 0 THEN Len(rxData) ELSE ZeroAt)
  /\ EndWithout(Room, "ERROR_RX_DATA_BUFFER_FULL")
  /\ UNCHANGED <<rejects, line, lost, packet, delivered>>

-----------------------------------------------------------------------------
(* GiveRxData: one packet                                                  *)

\* Mutant: the loop is not left.
RejectPacket_NoBreak ==
  /\ inCall /\ packet # <<>>
  /\ \A f \in Frames : ~IsFrame(packet, f)
  /\ returned' = returned \cup {"ERROR_PACKET"}
  /\ UNCHANGED <<rejects, line, lost, dropped, rxData, rxBuffer_, packet,
                 inCall, delivered>>

\* Mutant: the rest of the data goes with the packet.
RejectPacket_ClearsRest ==
  /\ inCall /\ packet # <<>>
  /\ \A f \in Frames : ~IsFrame(packet, f)
  /\ packet' = <<>>
  /\ rxData' = <<>>
  /\ Return("ERROR_PACKET")
  /\ UNCHANGED <<rejects, line, lost, dropped, rxBuffer_, delivered>>

\* Decode, VerifyCrc or SplitPacket fails: the loop is left, rxData as it is.
RejectPacket ==
  /\ inCall /\ packet # <<>>
  /\ \A f \in Frames : ~IsFrame(packet, f)
  /\ packet' = <<>>
  /\ Return("ERROR_PACKET")
  /\ UNCHANGED <<rejects, line, lost, dropped, rxData, rxBuffer_, delivered>>

\* An ACK nobody waits for: the function returns at once, rxData as it is.
UnexpectedAck(f) ==
  /\ inCall /\ IsFrame(packet, f)
  /\ f \in Unexpected
  /\ packet' = <<>>
  /\ Return("ERROR_UNEXPECTED_ACK")
  /\ UNCHANGED <<rejects, line, lost, dropped, rxData, rxBuffer_, delivered>>

\* Mutant: the packet is not cleared when there is no more data.
Continue_NotCleared ==
  IF rxData = <<>> /\ Len(delivered) < NumFrames
  THEN UNCHANGED <<packet, inCall, returned>>
  ELSE /\ packet' = <<>>
       /\ Return("SUCCESS")

\* On with the rest of rxData, or the call is over.
Continue ==
  /\ packet' = <<>>
  /\ IF rxData # <<>> THEN UNCHANGED <<inCall, returned>> ELSE Return("SUCCESS")

\* A message for the subscribers.
Dispatch(f) ==
  /\ inCall /\ IsFrame(packet, f)
  /\ f \notin Unexpected
  /\ delivered' = Append(delivered, f)
  /\ Continue
  /\ UNCHANGED <<rejects, line, lost, dropped, rxData, rxBuffer_>>

Done == line = <<>> /\ ~inCall /\ rxData = <<>>

\* All is received.
Idle == Done /\ UNCHANGED vars

Next ==
  \/ Lose
  \/ \E n \in 0 .. BufferSize : GiveRxData(n)
  \/ TakePacket
  \/ BufferAll
  \/ BufferFull
  \/ RejectPacket
  \/ \E f \in Frames : UnexpectedAck(f) \/ Dispatch(f)
  \/ Idle

SafetySpec == Init /\ [][Next]_vars

\* The RX thread goes on as long as there is something to receive.
Spec == SafetySpec /\ WF_vars(Next)

-----------------------------------------------------------------------------
(* Properties                                                              *)

\* Packets are given to the subscribers in the order they were sent, none twice,
\* whatever the line loses and however the bytes are cut into chunks.
InOrderOnce ==
  \A j, k \in 1 .. Len(delivered) : j < k => delivered[j] < delivered[k]

\* Packet f has not been touched if its own bytes and the zero before it are not
\* among these.
Spared(f, bytes) ==
  \A b \in bytes : b.frame # f /\ ~(b.frame = f - 1 /\ IsZero(b))

DeliversAllBut(bytes) ==
  Done => \A f \in Frames \ Unexpected :
            Spared(f, bytes) => f \in ToSet(delivered)

\* Whatever was lost or dropped, reception recovers with the next zero: once all
\* is received, every message untouched by that has been delivered, whichever
\* chunks its bytes came in and whatever else was in them.
Recovers == DeliversAllBut(lost \cup dropped)

\* "EmbeddedSerialFiller will add this data to it's internal RX data buffer, and
\* then attempt to find and extract valid packets.  If EmbeddedSerialFiller
\* finds valid packets, it will then call all callbacks associated with that
\* topic" (EmbeddedSerialFiller_RTOS.h:59-61): so every message is delivered
\* that the line and the caller left alone.
UndamagedDelivered == DeliversAllBut(lost)

\* Byte a was sent before byte b.
Before(a, b) ==
  \/ a.frame < b.frame
  \/ a.frame = b.frame /\ a.pos < b.pos

InOrder(bytes) ==
  \A j, k \in 1 .. Len(bytes) : j < k => Before(bytes[j], bytes[k])

DeliveredBytes == {b \in Bytes : b.frame \in ToSet(delivered)}

\* The bytes the node has got and not delivered, and those to come.
Kept == packet \o rxBuffer_ \o rxData \o line

\* No byte that reached the node is dropped in silence: as long as every call of
\* GiveRxData has returned SUCCESS, all of them are in a packet that was
\* delivered or, later ones and in the order sent, in the packet at hand, in
\* rxBuffer_ or in rxData.
NoSilentDrop ==
  returned \subseteq {"SUCCESS"} =>
    /\ DeliveredBytes \cup ToSet(Kept) = Bytes \ lost
    /\ \A a \in DeliveredBytes, b \in ToSet(Kept) : Before(a, b)
    /\ InOrder(Kept)

\* The RX thread gets through everything it is given.
Drains == <>Done
=============================================================================
