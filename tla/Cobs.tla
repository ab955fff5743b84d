-------------------------------- MODULE Cobs ---------------------------------
(***************************************************************************)
(* The COBS framing of src/CobsTranscoder.cpp: Encode, the line, which     *)
(* hands Decode everything up to the first zero (MoveRxDataInBuffer), and   *)
(* Decode.  One step is one iteration of the loop of Encode or of Decode.   *)
(*                                                                         *)
(* The containers are etl::vectors: an array of Capacity bytes and a size.  *)
(* Both functions first resize the output and then write the array through  *)
(* a pointer, so what they write beyond the size is lost without notice.    *)
(*                                                                         *)
(* BlockMax stands for 254, and a byte is a number in 0 .. BlockMax + 1.    *)
(***************************************************************************)
EXTENDS Integers, Sequences, SequencesExt

CONSTANTS
  BlockMax,    \* the most elements a block holds: 254
  RawBytes,    \* the bytes a message may consist of
  MaxRaw,      \* bound: the longest message encoded
  MaxLine,     \* bound: the longest packet that noise leaves on the line, or 0
  Builds       \* which builds: with ESF_OPTIMISE or not

Byte == 0 .. BlockMax + 1

ASSUME CobsAssumption ==
  /\ BlockMax \in Nat \ {0}
  /\ RawBytes \subseteq Byte
  /\ MaxRaw \in Nat
  /\ MaxLine \in Nat
  /\ Builds \subseteq BOOLEAN

VARIABLES
  optimised,        \* is ESF_OPTIMISE defined; never changes
  phase,            \* "encode", "line", "decode", "done"
  rawData,          \* the message, or noise when there is none
  i,                \* Encode: how much of rawData has been read
  startOfBlock,     \* Encode: where the code byte of this block goes
  elementsInBlock,  \* Encode: the elements in this block so far
  encodedDataSize,  \* Encode: how much has been written
  encodedData,      \* Encode: the array written to
  packet,           \* what the receiver hands to Decode
  encodedDataPos,   \* Decode: how much of packet has been read
  decodedDataPos,   \* Decode: how much has been written
  decodedData,      \* Decode: the array written to
  result            \* Decode: its status code

encodeVars == <<i, startOfBlock, elementsInBlock, encodedDataSize, encodedData>>
decodeVars == <<encodedDataPos, decodedDataPos, decodedData, result>>
vars == <<optimised, phase, rawData, encodeVars, packet, decodeVars>>

-----------------------------------------------------------------------------
(* Sizes and arrays                                                        *)

\* Mutant: the overhead of full blocks is forgotten.
EncodedSize_NoOverhead(n) == 2 + n

\* Mutant: the number of full blocks is rounded up.
EncodedSize_Rounded(n) == 2 + n + (n + BlockMax - 1) \div BlockMax

\* The size Encode gives to its output for n bytes.
EncodedSize(n) == 2 + n + n \div BlockMax

ESF_MIN_BYTES == 3

\* Mutant: the code bytes of full blocks are not taken off.
DecodedSize_CodesKept(n) == n - 2

\* The size Decode gives to its output for a packet of n bytes.
DecodedSize(n) == LET m == n - 2 IN m - (m - m \div BlockMax) \div BlockMax

\* Bound: large enough for every message and packet, as ESF_MAX_PACKET_SIZE is
\* for the packets that fit at all.
Capacity == EncodedSize(MaxRaw) + MaxLine + 2

Array == [0 .. Capacity - 1 -> Byte]

\* What a container of this size with this array holds.
Contents(array, size) == [k \in 1 .. size |-> array[k - 1]]

\* The container Decode fills: the optimised one has its size beforehand.
Decoded == Contents(decodedData, IF optimised THEN DecodedSize(Len(packet))
                                              ELSE decodedDataPos)

FromEncoder == phase \in {"decode", "done"} /\ encodedDataSize > 0

TypeOK ==
  /\ optimised \in Builds
  /\ phase \in {"encode", "line", "decode", "done"}
  /\ rawData \in Seq(Byte)
  /\ i \in 0 .. Len(rawData)
  /\ startOfBlock \in 0 .. Capacity - 1
  /\ elementsInBlock \in 0 .. BlockMax - 1
  /\ encodedDataSize \in 0 .. Capacity - 1
  /\ encodedData \in Array
  /\ packet \in Seq(Byte)
  /\ encodedDataPos \in 0 .. Capacity - 1
  /\ decodedDataPos \in 0 .. Capacity - 1
  /\ decodedData \in Array
  /\ result \in {"SUCCESS", "ERROR_NOT_ENOUGH_BYTES",
                 "ERROR_ZERO_BYTE_NOT_EXPECTED"}

-----------------------------------------------------------------------------
(* Initial states                                                          *)

\* The callers pass an empty vector, which resize fills with zeros.
InitDecode ==
  /\ encodedDataPos = 0
  /\ decodedDataPos = 0
  /\ decodedData = [k \in 0 .. Capacity - 1 |-> 0]
  /\ result = "SUCCESS"

\* A message is about to be encoded.  The first code byte is reserved.
InitMessage ==
  /\ phase = "encode"
  /\ rawData \in BoundedSeq(RawBytes, MaxRaw)
  /\ encodedDataSize = 1
  /\ packet = <<>>

\* The receiver has found a zero on a line that no encoder wrote to, maybe with
\* nothing before it.
InitNoise ==
  /\ phase = "decode"
  /\ rawData = <<>>
  /\ encodedDataSize = 0
  /\ \E noise \in BoundedSeq(Byte \ {0}, MaxLine) : packet = Append(noise, 0)

Init ==
  /\ optimised \in Builds
  /\ InitMessage \/ InitNoise
  /\ InitDecode
  /\ i = 0
  /\ startOfBlock = 0
  /\ elementsInBlock = 0
  /\ encodedData = [k \in 0 .. Capacity - 1 |-> 0]

-----------------------------------------------------------------------------
(* Encode                                                                  *)

\* Complete the block that is open and reserve the code byte of the next one;
\* `to` is the array with the elements of the block.
CloseBlock(to, elements, size) ==
  /\ encodedData' = [to EXCEPT ![startOfBlock] = elements + 1, ![size] = 0]
  /\ startOfBlock' = size
  /\ encodedDataSize' = size + 1
  /\ elementsInBlock' = 0

EncodeZero ==
  /\ phase = "encode"
  /\ i < Len(rawData)
  /\ rawData[i + 1] = 0
  /\ CloseBlock(encodedData, elementsInBlock, encodedDataSize)
  /\ i' = i + 1
  /\ UNCHANGED <<optimised, phase, rawData, packet, decodeVars>>

\* Mutant: a block holds one element too many.
BlockIsFull_Late(elements) == elements > BlockMax

BlockIsFull(elements) == elements = BlockMax

EncodeByte ==
  /\ phase = "encode"
  /\ i < Len(rawData)
  /\ rawData[i + 1] # 0
  /\ LET to == [encodedData EXCEPT ![encodedDataSize] = rawData[i + 1]]
         elements == elementsInBlock + 1
     IN  IF BlockIsFull(elements)
         THEN CloseBlock(to, elements, encodedDataSize + 1)
         ELSE /\ encodedData' = to
              /\ elementsInBlock' = elements
              /\ encodedDataSize' = encodedDataSize + 1
              /\ UNCHANGED startOfBlock
  /\ i' = i + 1
  /\ UNCHANGED <<optimised, phase, rawData, packet, decodeVars>>

\* Mutant: the last block is finished only if it has elements.
EncodeEnd_NotEmpty ==
  /\ phase = "encode"
  /\ i = Len(rawData)
  /\ elementsInBlock > 0
  /\ encodedData' = [encodedData EXCEPT ![startOfBlock] = elementsInBlock + 1,
                                        ![encodedDataSize] = 0]
  /\ phase' = "line"
  /\ UNCHANGED <<optimised, rawData, i, startOfBlock, elementsInBlock,
                 encodedDataSize, packet, decodeVars>>

\* Finish the last block and terminate.
EncodeEnd ==
  /\ phase = "encode"
  /\ i = Len(rawData)
  /\ encodedData' = [encodedData EXCEPT ![startOfBlock] = elementsInBlock + 1,
                                        ![encodedDataSize] = 0]
  /\ phase' = "line"
  /\ UNCHANGED <<optimised, rawData, i, startOfBlock, elementsInBlock,
                 encodedDataSize, packet, decodeVars>>

-----------------------------------------------------------------------------
(* The line                                                                *)

\* What txDataReady_ is given.
Encoded == Contents(encodedData, EncodedSize(Len(rawData)))

\* The receiver cuts the packet off behind the first zero.
Frame ==
  /\ phase = "line"
  /\ packet' = SubSeq(Encoded, 1, SelectInSeq(Encoded, LAMBDA b : b = 0))
  /\ phase' = "decode"
  /\ UNCHANGED <<optimised, rawData, encodeVars, decodeVars>>

-----------------------------------------------------------------------------
(* Decode                                                                  *)

\* Only the optimised build looks at the size.
DecodeTooShort ==
  /\ phase = "decode"
  /\ optimised
  /\ Len(packet) < ESF_MIN_BYTES
  /\ result' = "ERROR_NOT_ENOUGH_BYTES"
  /\ phase' = "done"
  /\ UNCHANGED <<optimised, rawData, encodeVars, packet, encodedDataPos,
                 decodedDataPos, decodedData>>

\* A zero with nothing before it: its code says -1 elements, so none is copied,
\* and what is looked at then is a byte behind the packet, whatever that is.
DecodeLoneZero ==
  /\ phase = "decode"
  /\ ~optimised
  /\ Len(packet) = 1
  /\ encodedDataPos' = 1
  /\ decodedDataPos' \in {0, 1}
  /\ phase' = "done"
  /\ UNCHANGED <<optimised, rawData, encodeVars, packet, decodedData, result>>

\* There is a block to look at.
Decodable == Len(packet) >= IF optimised THEN ESF_MIN_BYTES ELSE 2

\* The byte of the packet at this offset.
ByteAt(pos) == packet[pos + 1]

elementsAhead == ByteAt(encodedDataPos) - 1

\* The elements of the block ahead that come before a zero.
Copied == IF encodedDataPos + elementsAhead >= Len(packet) - 1
          THEN Len(packet) - 2 - encodedDataPos
          ELSE elementsAhead

\* decodedData with the elements of the block ahead copied to its end.
WithBlock ==
  [k \in DOMAIN decodedData |->
     IF k \in decodedDataPos .. decodedDataPos + Copied - 1
     THEN ByteAt(encodedDataPos + 1 + k - decodedDataPos)
     ELSE decodedData[k]]

\* Mutant: the position moves on before the byte is looked at.
ZeroPosition_MovesOn == encodedDataPos + 2 + Copied

\* Where the zero inside the block ahead is.
ZeroPosition == encodedDataPos + 1 + Copied

\* What becomes of the output: only the container is cleared.
LeaveOutput ==
  IF optimised
  THEN decodedData' = WithBlock /\ decodedDataPos' = decodedDataPos + Copied
  ELSE decodedDataPos' = 0 /\ UNCHANGED decodedData

\* The block runs into the zero: the packet is not valid.
DecodeZeroByte ==
  /\ phase = "decode"
  /\ Decodable
  /\ Copied < elementsAhead
  /\ LeaveOutput
  /\ encodedDataPos' = ZeroPosition
  /\ result' = "ERROR_ZERO_BYTE_NOT_EXPECTED"
  /\ phase' = "done"
  /\ UNCHANGED <<optimised, rawData, encodeVars, packet>>

\* A full block was closed for its size, any other because of a zero.
StandsForZero(elements) == elements < BlockMax

\* Where the zero between the block ahead and the next one is written: the pointer
\* version takes the position in the packet for the position in its output.
ZeroBetweenBlocks == IF optimised THEN encodedDataPos + 1 + elementsAhead
                                  ELSE decodedDataPos + elementsAhead

\* A block, after which the packet goes on.
DecodeBlock ==
  /\ phase = "decode"
  /\ Decodable
  /\ Copied = elementsAhead
  /\ encodedDataPos' = encodedDataPos + 1 + elementsAhead
  /\ ByteAt(encodedDataPos') # 0
  /\ IF StandsForZero(elementsAhead)
     THEN /\ decodedData' = [WithBlock EXCEPT ![ZeroBetweenBlocks] = 0]
          /\ decodedDataPos' = decodedDataPos + elementsAhead + 1
     ELSE /\ decodedData' = WithBlock
          /\ decodedDataPos' = decodedDataPos + elementsAhead
  /\ UNCHANGED <<optimised, phase, rawData, encodeVars, packet, result>>

\* A block, after which the packet ends.
DecodeLastBlock ==
  /\ phase = "decode"
  /\ Decodable
  /\ Copied = elementsAhead
  /\ encodedDataPos' = encodedDataPos + 1 + elementsAhead
  /\ ByteAt(encodedDataPos') = 0
  /\ decodedData' = WithBlock
  /\ decodedDataPos' = decodedDataPos + elementsAhead
  /\ phase' = "done"
  /\ UNCHANGED <<optimised, rawData, encodeVars, packet, result>>

Next ==
  \/ EncodeZero
  \/ EncodeByte
  \/ EncodeEnd
  \/ Frame
  \/ DecodeTooShort
  \/ DecodeLoneZero
  \/ DecodeZeroByte
  \/ DecodeBlock
  \/ DecodeLastBlock

SafetySpec == Init /\ [][Next]_vars

-----------------------------------------------------------------------------
(* Properties                                                              *)

\* Encode never writes beyond the size it gave its output: there is always room
\* for what is still to be read and for the terminator.
EncodeInBounds ==
  phase = "encode" =>
    encodedDataSize + 1 <= EncodedSize(i) /\ startOfBlock < encodedDataSize

\* Whatever a noisy line delivers, Decode never writes ahead of what it has read,
\* and reads inside the packet unless that is a zero and nothing else.  The zero
\* between two blocks, which the pointer version misplaces, overwrites nothing that
\* is decoded and stays inside an array that has room for the packet, as the array
\* of any ByteArray has - though maybe not below the size of the output.
DecodeInBounds ==
  /\ phase \in {"decode", "done"} =>
       /\ decodedDataPos <= encodedDataPos
       /\ packet # <<0>> => encodedDataPos < Len(packet)
  /\ phase = "decode" /\ Decodable /\ Copied = elementsAhead =>
       ZeroBetweenBlocks \in decodedDataPos + elementsAhead .. Len(packet) - 1

Restored == result = "SUCCESS" /\ Decoded = rawData

\* EXPECT_EQ( rawData, decodedData ) (test/CobsEncodeDecodeTests.cpp:32, and of
\* 254 bytes and more at 105, 133 and 148): decoding restores every message.
LongRoundTrip == phase = "done" /\ FromEncoder /\ rawData # <<>> => Restored

\* What is decoded of a longer message is wrong in nothing but its length.
DecodesToPrefix ==
  phase = "done" /\ FromEncoder /\ rawData # <<>> =>
    result = "SUCCESS" /\ IsPrefix(Decoded, rawData)

\* "This is then COBS encoded, which frames the end-of-packet with a unique 0x00
\* byte" (EmbeddedSerialFiller_RTOS.h:31): so it is for messages of less than
\* BlockMax bytes; longer ones may end with zeros to spare.
UniqueZero ==
  phase = "line" /\ Len(rawData) < BlockMax =>
    \A k \in 1 .. Len(Encoded) : Encoded[k] = 0 <=> k = Len(Encoded)
=============================================================================
