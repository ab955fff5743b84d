------------------------------- MODULE Packet -------------------------------
(***************************************************************************)
(* A packet from one node to another: PublishInternal lays it out and adds *)
(* the CRC, module Cobs encodes it, frames it and decodes it, and the loop *)
(* body of GiveRxData verifies the CRC, looks at the type and splits a     *)
(* message into topic and data (src/EmbeddedSerialFiller_RTOS.cpp,         *)
(* src/EmbeddedSerialFiller_NoRTOS.cpp, src/Utilities.cpp).                *)
(*                                                                         *)
(* The line may also carry bytes that no encoder wrote.  Some of them pass *)
(* for a packet, so what GiveRxData does with them is modelled, too, up to *)
(* where C++ leaves it undefined: nothing is said of what follows then.    *)
(***************************************************************************)
EXTENDS Cobs

CONSTANTS
  PacketSize,      \* ESF_MAX_PACKET_SIZE
  MaxTopicLength,  \* ESF_MAX_TOPIC_LENGTH
  MaxData          \* bound: the most bytes of data published

ASSUME PacketAssumption ==
  /\ {1, 2, 3} \subseteq Byte
  /\ PacketSize \in Nat
  /\ MaxTopicLength \in Byte
  /\ MaxData \in 0 .. PacketSize
  /\ PacketSize <= MaxRaw + MaxLine + 4   \* what fits, fits the arrays

VARIABLES
  stage,      \* "build", "code", "done", or "undefined"
  type,       \* PublishInternal: its argument packetType, or "NOISE"
  packetId,   \* PublishInternal: its argument packetId
  topic,      \* PublishInternal: the topic, if any
  data,       \* PublishInternal: the data, if any
  status,     \* GiveRxData: what becomes of the packet
  delivered   \* GiveRxData: what it acts upon

packetVars == <<stage, type, packetId, topic, data, status, delivered>>
allVars == <<vars, packetVars>>

-----------------------------------------------------------------------------
(* Values                                                                  *)

PacketTypes == {"ACK", "BROADCAST", "PUBLISH"}

\* The bytes 0x41, 0x42 and 0x50; a byte is a number up to BlockMax + 1 here.
TypeByte(t) == CASE t = "ACK" -> 1 [] t = "BROADCAST" -> 2 [] t = "PUBLISH" -> 3

\* An ACK has neither topic nor data.
Topics(t) == IF t = "ACK" THEN {<<>>} ELSE BoundedSeq(RawBytes, MaxTopicLength)
Data(t) == IF t = "ACK" THEN {<<>>} ELSE BoundedSeq(RawBytes, MaxData)

Nothing == [type |-> "NONE", id |-> 0, topic |-> <<>>, data |-> <<>>]

StatusCodes == {"SUCCESS", "ERROR_CRC_CHECK_FAILED", "ERROR_NOT_ENOUGH_BYTES",
                "ERROR_UNRECOGNISED_PACKET_TYPE",
                "ERROR_LENGTH_OF_TOPIC_TOO_LONG",
                "ERROR_ZERO_BYTE_NOT_EXPECTED"}

PacketTypeOK ==
  /\ TypeOK
  /\ stage \in {"build", "code", "done", "undefined"}
  /\ type \in PacketTypes \cup {"NOISE"}
  /\ packetId \in Byte
  /\ topic \in Seq(RawBytes)
  /\ data \in Seq(RawBytes)
  /\ status \in StatusCodes
  /\ delivered \in [type : PacketTypes \cup {"NONE"}, id : Byte,
                    topic : Seq(Byte), data : Seq(Byte)]

PublishCalled ==
  /\ stage = "build"
  /\ phase = "encode"
  /\ encodedDataSize = 1
  /\ packet = <<>>
  /\ type \in PacketTypes
  /\ packetId \in RawBytes \ {0}
  /\ topic \in Topics(type)
  /\ data \in Data(type)

LineIsNoisy ==
  /\ stage = "code"
  /\ InitNoise
  /\ type = "NOISE"
  /\ packetId = 0
  /\ topic = <<>>
  /\ data = <<>>

PacketInit ==
  /\ optimised \in Builds
  /\ InitDecode
  /\ rawData = <<>>
  /\ i = 0
  /\ startOfBlock = 0
  /\ elementsInBlock = 0
  /\ encodedData = [k \in 0 .. Capacity - 1 |-> 0]
  /\ PublishCalled \/ LineIsNoisy
  /\ status = "SUCCESS"
  /\ delivered = Nothing

-----------------------------------------------------------------------------
(* PublishInternal                                                         *)

\* Some checksum of two bytes in the place of etl::crc16_ccitt, MSB first: sum[k]
\* is that of the first k bytes.
Crc(bytes) ==
  LET base == BlockMax + 2
      n == Len(bytes)
      sum[k \in 0 .. n] ==
        IF k = 0 THEN 1 ELSE (3 * sum[k - 1] + bytes[k] + 1) % (base * base)
  IN  <<sum[n] \div base, sum[n] % base>>

\* Mutant: the CRC is computed before the data is there.
AddCrc_Early(bytes) == bytes \o Crc(SubSeq(bytes, 1, 2))

AddCrc(bytes) == bytes \o Crc(bytes)

\* Type, ID and, in a message, the length of the topic, the topic, the data.
Layout(t, id, tp, d) ==
  IF t = "ACK" THEN <<TypeByte(t), id>>
               ELSE <<TypeByte(t), id, Len(tp)>> \o tp \o d

\* The caller's part: the encoded packet fits the container.  The assertion
\* "data->size() <= ESF_MAX_PACKET_SIZE" is weaker, and a ByteArray cannot
\* violate it.
FitsPacket(bytes) == EncodedSize(Len(bytes)) <= PacketSize

Built == AddCrc(Layout(type, packetId, topic, data))

PublishInternal ==
  /\ stage = "build"
  /\ FitsPacket(Built)
  /\ rawData' = Built
  /\ stage' = "code"
  /\ UNCHANGED <<optimised, phase, encodeVars, packet, decodeVars, type,
                 packetId, topic, data, status, delivered>>

\* emplace_back on a full vector, or resize beyond its capacity.
PublishInternalOverflows ==
  /\ stage = "build"
  /\ ~FitsPacket(Built)
  /\ stage' = "undefined"
  /\ UNCHANGED <<vars, type, packetId, topic, data, status, delivered>>

-----------------------------------------------------------------------------
(* Encode, the line, Decode                                                *)

Transcode ==
  /\ stage = "code"
  /\ Next
  /\ UNCHANGED packetVars

-----------------------------------------------------------------------------
(* GiveRxData                                                              *)

Received == stage = "code" /\ phase = "done"

\* The packet ends here: this is the status GiveRxData leaves its loop with,
\* unless it goes on to the next packet.
End(code, what) ==
  /\ stage' = "done"
  /\ status' = code
  /\ delivered' = what
  /\ UNCHANGED <<vars, type, packetId, topic, data>>

GiveRxDataNotDecoded ==
  /\ Received
  /\ result # "SUCCESS"
  /\ End(result, Nothing)

VerifyCrc ==
  IF Len(Decoded) < ESF_MIN_BYTES THEN "ERROR_NOT_ENOUGH_BYTES"
  ELSE LET n == Len(Decoded) - 2
       IN  IF Crc(SubSeq(Decoded, 1, n)) = SubSeq(Decoded, n + 1, n + 2)
           THEN "SUCCESS" ELSE "ERROR_CRC_CHECK_FAILED"

GiveRxDataNotVerified ==
  /\ Received
  /\ result = "SUCCESS"
  /\ VerifyCrc # "SUCCESS"
  /\ End(VerifyCrc, Nothing)

Verified == Received /\ result = "SUCCESS" /\ VerifyCrc = "SUCCESS"

IsType(t) == Decoded[1] = TypeByte(t)

GiveRxDataUnrecognised ==
  /\ Verified
  /\ \A t \in PacketTypes : ~IsType(t)
  /\ End("ERROR_UNRECOGNISED_PACKET_TYPE", Nothing)

\* What an ACK brings about is in modules PublishWait and NoRtos.
GiveRxDataAck ==
  /\ Verified
  /\ IsType("ACK")
  /\ End("SUCCESS", [Nothing EXCEPT !.type = "ACK", !.id = Decoded[2]])

\* SplitPacket, called with startAt = 2.
lengthOfTopic == Decoded[3]
topicEnd == 3 + lengthOfTopic
dataEnd == Len(Decoded) - 2

\* availableBytes counts the byte with the length; it is unsigned, and very
\* large for a packet that is too short for that byte.
TopicTooLong ==
  LET availableBytes == Len(Decoded) - 2 - 2
  IN  availableBytes >= 0 /\ lengthOfTopic > availableBytes

GiveRxDataTopicTooLong ==
  /\ Verified
  /\ IsType("BROADCAST") \/ IsType("PUBLISH")
  /\ TopicTooLong
  /\ End("ERROR_LENGTH_OF_TOPIC_TOO_LONG", Nothing)

\* The topic and the data that go to the callbacks; a Topic keeps what it has
\* room for.  A PUBLISH is answered with its ID before.
GiveRxDataMessage ==
  /\ Verified
  /\ ~TopicTooLong
  /\ topicEnd <= dataEnd
  /\ \E t \in {"BROADCAST", "PUBLISH"} :
       /\ IsType(t)
       /\ End("SUCCESS",
              [type |-> t,
               id |-> Decoded[2],
               topic |-> SubSeq(Decoded, 4, Min({topicEnd, 3 + MaxTopicLength})),
               data |-> SubSeq(Decoded, topicEnd + 1, dataEnd)])

\* The topic ends behind the data: insert is called with a range that ends
\* before it begins.
GiveRxDataSplitsBehindEnd ==
  /\ Verified
  /\ IsType("BROADCAST") \/ IsType("PUBLISH")
  /\ ~TopicTooLong
  /\ topicEnd > dataEnd
  /\ stage' = "undefined"
  /\ UNCHANGED <<vars, type, packetId, topic, data, status, delivered>>

-----------------------------------------------------------------------------
GiveRxData ==
  \/ GiveRxDataNotDecoded
  \/ GiveRxDataNotVerified
  \/ GiveRxDataUnrecognised
  \/ GiveRxDataAck
  \/ GiveRxDataTopicTooLong
  \/ GiveRxDataMessage
  \/ GiveRxDataSplitsBehindEnd

PacketNext ==
  \/ PublishInternal
  \/ PublishInternalOverflows
  \/ Transcode
  \/ GiveRxData

\* Loops of one thread at either end.
PacketSpec ==
  PacketInit /\ [][PacketNext]_allVars /\ WF_allVars(PacketNext)

-----------------------------------------------------------------------------
(* Properties                                                              *)

\* What PublishInternal was given is what the other node acts upon, if the
\* encoded packet fits a ByteArray and, in the build with ESF_OPTIMISE, the
\* packet fits one COBS block: type, ID, topic and data, of any bytes and of no
\* bytes at all, and nothing undefined happens on the way.
MessageArrives ==
  /\ stage \in {"done", "undefined"}
  /\ type \in PacketTypes
  /\ EncodedSize(Len(Built)) <= PacketSize
  /\ optimised => Len(Built) <= BlockMax
  => /\ stage = "done"
     /\ status = "SUCCESS"
     /\ delivered = [type |-> type, id |-> packetId, topic |-> topic, data |-> data]

\* Noise or not, the packet is dealt with.
PacketDealtWith == <>(stage \in {"done", "undefined"})
=============================================================================
