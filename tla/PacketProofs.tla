---------------------------- MODULE PacketProofs -----------------------------
(***************************************************************************)
(* First of module Cobs: Encode and Decode stay inside their containers    *)
(* and a packet is decoded to what it was made of, whatever the length of  *)
(* a block and of a message, and whatever a noisy line delivers.  Then of  *)
(* module Packet, whose steps in between are those of Cobs: what           *)
(* PublishInternal was given is what GiveRxData acts upon.                 *)
(***************************************************************************)
EXTENDS Packet, SequenceLemmas

\* A message of n bytes that has had f full blocks has at most n \div b of them.
LEMMA DivBound ==
  ASSUME NEW b \in Nat \ {0}, NEW n \in Nat, NEW f \in Nat, f * b <= n
  PROVE  n \div b \in Nat /\ f <= n \div b
<1> DEFINE q == n \div b
<1>1. q \in Int /\ n = b * q + (n % b) /\ n % b \in 0 .. b - 1
  OBVIOUS
<1> HIDE DEF q
<1>2. q \in Nat
  <2> SUFFICES ASSUME q < 0 PROVE FALSE
    BY <1>1
  <2>1. q + 1 <= 0 /\ b * (q + 1) = b * q + b
    BY <1>1
  <2>2. b * (q + 1) <= 0
    BY <2>1, <1>1
  <2> QED
    BY <1>1, <2>1, <2>2
<1>3. f <= q
  <2> SUFFICES ASSUME f > q PROVE FALSE
    BY <1>1
  <2>1. PICK d \in Nat : f = q + 1 + d
    <3>1. f - q - 1 \in Nat
      BY <1>1
    <3> QED
      BY <3>1, <1>1
  <2>2. f * b = b * q + b + d * b
    BY <1>1, <2>1
  <2>3. d * b \in Nat
    OBVIOUS
  <2> QED
    BY <1>1, <2>2, <2>3
<1> QED
  BY <1>2, <1>3 DEF q

\* A message of fewer bytes than a block holds has no full block.
LEMMA NoFullBlock ==
  ASSUME NEW b \in Nat \ {0}, NEW n \in Nat, n < b
  PROVE  n \div b = 0
<1> DEFINE q == n \div b
<1>1. q \in Int /\ n = b * q + (n % b) /\ n % b \in 0 .. b - 1
  OBVIOUS
<1>2. q \in Nat
  <2>1. 0 * b <= n
    OBVIOUS
  <2> QED
    BY <2>1, DivBound
<1> HIDE DEF q
<1>3. CASE q >= 1
  <2>1. PICK d \in Nat : q = d + 1
    <3>1. q - 1 \in Nat
      BY <1>2, <1>3
    <3> QED
      BY <1>2, <3>1
  <2>2. b * q = b * d + b /\ b * d \in Nat
    BY <2>1
  <2> QED
    BY <1>1, <2>2
<1>4. CASE q = 0
  BY <1>4 DEF q
<1> QED
  BY <1>2, <1>3, <1>4

\* A longer message is not given less room.
LEMMA EncodedSizeGrows ==
  ASSUME NEW m \in Nat, NEW n \in Nat, m <= n
  PROVE  /\ EncodedSize(m) \in Nat
         /\ EncodedSize(n) \in Nat
         /\ EncodedSize(m) <= EncodedSize(n)
<1> DEFINE q == m \div BlockMax
<1>1. BlockMax \in Nat \ {0}
  BY CobsAssumption DEF CobsAssumption
<1>2. q \in Nat /\ n \div BlockMax \in Nat
  <2>1. 0 * BlockMax <= m /\ 0 * BlockMax <= n
    BY <1>1
  <2> QED
    BY <1>1, <2>1, DivBound
<1>3. q * BlockMax <= m
  <2>1. m = BlockMax * q + (m % BlockMax) /\ m % BlockMax \in 0 .. BlockMax - 1
    BY <1>1
  <2> HIDE DEF q
  <2> QED
    BY <1>1, <1>2, <2>1
<1>4. q <= n \div BlockMax
  <2> HIDE DEF q
  <2>1. q * BlockMax <= n
    BY <1>1, <1>2, <1>3
  <2> QED
    BY <1>1, <1>2, <2>1, DivBound
<1> QED
  BY <1>2, <1>4 DEF EncodedSize

-----------------------------------------------------------------------------
(* The inductive invariant                                                 *)

\* Encode has written one code byte, what has been read and one more code byte for
\* every full block; f of them are closed.
Written ==
  \E f \in Nat : /\ f * BlockMax + elementsInBlock <= i
                 /\ encodedDataSize = 1 + i + f

\* There is a message, and not only noise.
Encodes == encodedDataSize > 0

\* Of what has been written only the open code byte is zero.
NoZeros ==
  \A k \in 0 .. encodedDataSize - 1 :
    encodedData[k] = 0 => phase = "encode" /\ k = startOfBlock

EncoderInv ==
  /\ rawData \in Seq(Nat)
  /\ EncodedSize(Len(rawData)) <= Capacity
  /\ encodedData \in [0 .. Capacity - 1 -> Nat]
  /\ i \in 0 .. Len(rawData)
  /\ startOfBlock \in Nat
  /\ elementsInBlock \in 0 .. BlockMax - 1
  /\ encodedDataSize \in Nat
  /\ phase \in {"encode", "line"} => Encodes
  /\ Encodes => /\ startOfBlock < encodedDataSize
                /\ Written
                /\ NoZeros
                /\ phase # "encode" => /\ i = Len(rawData)
                                       /\ encodedData[encodedDataSize] = 0

\* The packet has one zero, at its end, and Decode is before that zero, unless
\* there is nothing else.
DecoderInv ==
  /\ phase \in {"encode", "line"} => encodedDataPos = 0 /\ decodedDataPos = 0
  /\ phase \in {"decode", "done"} =>
       /\ packet \in Seq(Nat)
       /\ packet # <<>>
       /\ \A k \in 1 .. Len(packet) : packet[k] = 0 <=> k = Len(packet)
       /\ encodedDataPos \in 0 .. Len(packet)
       /\ Len(packet) > 1 => encodedDataPos < Len(packet)
       /\ decodedDataPos \in 0 .. encodedDataPos
  /\ phase = "decode" => /\ encodedDataPos < Len(packet)
                         /\ Len(packet) > 1 => ByteAt(encodedDataPos) # 0

CobsInv ==
  /\ phase \in {"encode", "line", "decode", "done"}
  /\ EncoderInv
  /\ DecoderInv

\* A block is at least one byte, and the arrays hold the longest packet.
LEMMA Constants ==
  /\ BlockMax \in Nat \ {0}
  /\ MaxRaw \in Nat
  /\ MaxLine \in Nat
  /\ EncodedSize(MaxRaw) \in Nat
  /\ Capacity \in Nat
  /\ Capacity >= EncodedSize(MaxRaw)
<1>1. BlockMax \in Nat \ {0} /\ MaxRaw \in Nat /\ MaxLine \in Nat
  BY CobsAssumption DEF CobsAssumption
<1>2. EncodedSize(MaxRaw) \in Nat
  BY <1>1, EncodedSizeGrows
<1> QED
  BY <1>1, <1>2 DEF Capacity

\* A function on 1 .. m is a sequence, of whatever its values are.
LEMMA SequenceOf ==
  ASSUME NEW R, NEW S, S \subseteq R, NEW n \in Nat, NEW m \in 0 .. n,
         NEW s \in [1 .. m -> S]
  PROVE  s \in Seq(R) /\ Len(s) = m /\ m <= n
<1>1. m \in Nat /\ m <= n
  OBVIOUS
<1>2. \A k \in 1 .. m : s[k] \in R
  OBVIOUS
<1>3. s = [k \in 1 .. m |-> s[k]]
  OBVIOUS
<1> QED
  BY <1>1, <1>2, <1>3

\* A bounded sequence is a sequence.
LEMMA BoundedSequence ==
  ASSUME NEW R, NEW S, S \subseteq R, NEW n \in Nat, NEW s \in BoundedSeq(S, n)
  PROVE  s \in Seq(R) /\ Len(s) <= n
<1>1. PICK m \in 0 .. n : s \in [1 .. m -> S]
  BY DEF BoundedSeq, SeqOf
<1> QED
  BY <1>1, SequenceOf

\* So is a sequence of some of the values.
LEMMA SequenceOfMore ==
  ASSUME NEW R, NEW S, S \subseteq R, NEW s \in Seq(S)
  PROVE  s \in Seq(R)
<1>1. PICK n \in Nat : s \in [1 .. n -> S]
  <2>1. Len(s) \in Nat /\ s \in [1 .. Len(s) -> S]
    BY LenProperties
  <2> QED
    BY <2>1
<1>2. n \in 0 .. n
  BY <1>1
<1> QED
  BY <1>1, <1>2, SequenceOf

\* A message is about to be encoded, of any bytes that fit the arrays.
Start ==
  /\ optimised \in Builds
  /\ phase = "encode"
  /\ rawData \in Seq(Byte)
  /\ EncodedSize(Len(rawData)) <= Capacity
  /\ encodedDataSize = 1
  /\ packet = <<>>
  /\ InitDecode
  /\ i = 0
  /\ startOfBlock = 0
  /\ elementsInBlock = 0
  /\ encodedData = [k \in 0 .. Capacity - 1 |-> 0]

\* The bytes there are.
LEMMA Bytes ==
  /\ 0 \in Byte
  /\ \A n \in 0 .. BlockMax : n + 1 \in Byte
  /\ RawBytes \subseteq Byte
  /\ Byte \subseteq Nat
BY Constants, CobsAssumption DEF Byte, CobsAssumption

LEMMA InitMessageIsStart == Init /\ InitMessage => Start
<1> SUFFICES ASSUME Init, InitMessage PROVE Start
  OBVIOUS
<1>1. rawData \in Seq(Byte) /\ Len(rawData) <= MaxRaw /\ Len(rawData) \in Nat
  <2>1. rawData \in Seq(Byte) /\ Len(rawData) <= MaxRaw
    BY Bytes, Constants, BoundedSequence DEF InitMessage
  <2> QED
    BY <2>1
<1>2. EncodedSize(Len(rawData)) <= Capacity
  BY <1>1, Constants, EncodedSizeGrows
<1> QED
  BY <1>1, <1>2 DEF Init, InitMessage, Start

LEMMA StartCobsInv == Start => CobsInv
<1> SUFFICES ASSUME Start PROVE CobsInv
  OBVIOUS
<1>1. /\ i = 0 /\ startOfBlock = 0 /\ elementsInBlock = 0
      /\ phase = "encode" /\ encodedDataSize = 1
      /\ encodedData \in [0 .. Capacity - 1 -> Nat]
      /\ encodedDataPos = 0 /\ decodedDataPos = 0
      /\ EncodedSize(Len(rawData)) <= Capacity
  BY DEF Start, InitDecode
<1>2. rawData \in Seq(Nat)
  BY Bytes, SequenceOfMore DEF Start
<1>3. Written
  <2>1. 0 * BlockMax + elementsInBlock <= i /\ encodedDataSize = 1 + i + 0
    BY <1>1, Constants
  <2> QED
    BY <2>1 DEF Written
<1>4. NoZeros
  BY <1>1 DEF NoZeros
<1> QED
  BY <1>1, <1>2, <1>3, <1>4, Constants
     DEF CobsInv, EncoderInv, DecoderInv, Encodes

\* Where Encode starts, and where noise does.
LEMMA InitCobsInv == Init => CobsInv
<1> SUFFICES ASSUME Init PROVE CobsInv
  OBVIOUS
<1>1. CASE InitMessage
  BY <1>1, InitMessageIsStart, StartCobsInv
<1>2. CASE InitNoise
  <2>1. /\ i = 0 /\ startOfBlock = 0 /\ elementsInBlock = 0
        /\ encodedData \in [0 .. Capacity - 1 -> Nat]
        /\ encodedDataPos = 0 /\ decodedDataPos = 0
    BY DEF Init, InitDecode
  <2>2. phase = "decode" /\ rawData = <<>> /\ encodedDataSize = 0
    BY <1>2 DEF InitNoise
  <2>3. PICK noise \in BoundedSeq(Byte \ {0}, MaxLine) : packet = Append(noise, 0)
    BY <1>2 DEF InitNoise
  <2>4. noise \in Seq(Nat \ {0})
    <3>1. Byte \ {0} \subseteq Nat \ {0}
      BY Bytes
    <3> QED
      BY <3>1, Constants, BoundedSequence
  <2>5. /\ packet \in Seq(Nat)
        /\ Len(packet) = Len(noise) + 1
        /\ Len(noise) \in Nat
        /\ packet[Len(packet)] = 0
        /\ \A k \in 1 .. Len(noise) : packet[k] = noise[k] /\ noise[k] # 0
    BY <2>3, <2>4
  <2>6. DecoderInv
    BY <2>1, <2>2, <2>5 DEF DecoderInv, ByteAt
  <2>7. EncoderInv
    <3>1. EncodedSize(Len(rawData)) <= Capacity
      BY <2>2, Constants, EncodedSizeGrows
    <3> QED
      BY <2>1, <2>2, <3>1, Constants DEF EncoderInv, Encodes
  <2> QED
    BY <2>2, <2>6, <2>7 DEF CobsInv
<1> QED
  BY <1>1, <1>2 DEF Init

-----------------------------------------------------------------------------
(* Encode preserves it                                                     *)

\* Whenever Encode is about to write, there is room in the array.
LEMMA RoomLeft ==
  ASSUME EncoderInv, Written
  PROVE  /\ encodedDataSize + 1 <= EncodedSize(i)
         /\ EncodedSize(i) <= EncodedSize(Len(rawData))
         /\ EncodedSize(Len(rawData)) <= Capacity
         /\ EncodedSize(i) \in Nat
         /\ EncodedSize(Len(rawData)) \in Nat
<1>1. PICK f \in Nat : /\ f * BlockMax + elementsInBlock <= i
                       /\ encodedDataSize = 1 + i + f
  BY DEF Written
<1>2. /\ i \in Nat /\ Len(rawData) \in Nat /\ i <= Len(rawData)
      /\ EncodedSize(Len(rawData)) <= Capacity
      /\ elementsInBlock \in Nat
  BY Constants DEF EncoderInv
<1>3. i \div BlockMax \in Nat /\ f <= i \div BlockMax
  <2>1. f * BlockMax \in Nat
    BY Constants
  <2>2. f * BlockMax <= i
    BY <1>1, <1>2, <2>1
  <2> QED
    BY <1>2, <2>2, Constants, DivBound
<1>4. encodedDataSize + 1 <= EncodedSize(i)
  BY <1>1, <1>2, <1>3 DEF EncodedSize
<1> QED
  BY <1>2, <1>4, EncodedSizeGrows

\* Writing twice to an array leaves an array.
LEMMA TwoWrites ==
  ASSUME NEW D, NEW a \in [D -> Nat], NEW x, NEW y, NEW v \in Nat, NEW w \in Nat
  PROVE  [a EXCEPT ![x] = v, ![y] = w] \in [D -> Nat]
<1> DEFINE b == [a EXCEPT ![x] = v]
<1>1. b \in [D -> Nat]
  OBVIOUS
<1> HIDE DEF b
<1>2. [b EXCEPT ![y] = w] \in [D -> Nat]
  BY <1>1
<1> QED
  BY <1>2 DEF b

\* What is known of Encode between two bytes.
LEMMA EncodeFacts ==
  ASSUME CobsInv, phase = "encode"
  PROVE  /\ DecoderInv /\ Written /\ NoZeros /\ Encodes
         /\ rawData \in Seq(Nat) /\ Len(rawData) \in Nat
         /\ EncodedSize(Len(rawData)) <= Capacity
         /\ i \in Nat /\ i <= Len(rawData)
         /\ elementsInBlock \in Nat /\ elementsInBlock < BlockMax
         /\ startOfBlock \in Nat /\ startOfBlock < encodedDataSize
         /\ encodedDataSize \in Nat
         /\ encodedDataSize + 1 <= Capacity
         /\ encodedData \in [0 .. Capacity - 1 -> Nat]
<1>1. EncoderInv /\ DecoderInv /\ Written /\ NoZeros /\ Encodes
  BY DEF CobsInv, EncoderInv
<1>2. Len(rawData) \in Nat
  BY <1>1 DEF EncoderInv
<1> QED
  BY <1>1, <1>2, RoomLeft, Constants DEF EncoderInv, Encodes

\* A zero closes a block that is not full.
LEMMA EncodeZeroKeeps == CobsInv /\ EncodeZero => CobsInv'
<1> SUFFICES ASSUME CobsInv, EncodeZero PROVE CobsInv'
  OBVIOUS
<1>1. /\ phase = "encode" /\ phase' = "encode"
      /\ rawData' = rawData /\ i' = i + 1 /\ i < Len(rawData)
      /\ encodedData' = [encodedData EXCEPT ![startOfBlock] = elementsInBlock + 1,
                                            ![encodedDataSize] = 0]
      /\ startOfBlock' = encodedDataSize
      /\ encodedDataSize' = encodedDataSize + 1
      /\ elementsInBlock' = 0
      /\ encodedDataPos' = encodedDataPos /\ decodedDataPos' = decodedDataPos
  BY DEF EncodeZero, CloseBlock, decodeVars
<1>2. /\ i \in Nat /\ Len(rawData) \in Nat /\ Capacity \in Nat
      /\ elementsInBlock \in Nat /\ elementsInBlock < BlockMax
      /\ startOfBlock \in Nat /\ startOfBlock < encodedDataSize
      /\ encodedDataSize \in Nat /\ encodedDataSize + 1 <= Capacity
      /\ encodedData \in [0 .. Capacity - 1 -> Nat]
      /\ BlockMax \in Nat \ {0}
  BY <1>1, EncodeFacts, Constants
<1>3. /\ DecoderInv /\ Written /\ NoZeros
      /\ i' \in 0 .. Len(rawData') /\ rawData' \in Seq(Nat)
      /\ EncodedSize(Len(rawData')) <= Capacity
  BY <1>1, EncodeFacts
<1>4. Written'
  <2>1. PICK f \in Nat : /\ f * BlockMax + elementsInBlock <= i
                         /\ encodedDataSize = 1 + i + f
    BY <1>3 DEF Written
  <2>2. f * BlockMax \in Nat
    BY Constants
  <2>3. /\ f * BlockMax + elementsInBlock' <= i'
        /\ encodedDataSize' = 1 + i' + f
    BY <1>1, <1>2, <2>1, <2>2
  <2> QED
    BY <2>3 DEF Written
<1>5. encodedData' \in [0 .. Capacity - 1 -> Nat]
  <2>1. elementsInBlock + 1 \in Nat /\ 0 \in Nat
    BY <1>1, <1>2
  <2> QED
    BY <1>1, <1>2, <2>1, TwoWrites
<1>6. NoZeros'
  <2> SUFFICES ASSUME NEW k \in 0 .. encodedDataSize, k # encodedDataSize
               PROVE  encodedData'[k] # 0
    BY <1>1, <1>2, <1>3 DEF NoZeros
  <2>1. k \in 0 .. encodedDataSize - 1 /\ k \in 0 .. Capacity - 1
    BY <1>1, <1>2
  <2>2. CASE k = startOfBlock
    BY <1>1, <1>2, <2>1, <2>2
  <2>3. CASE k # startOfBlock
    BY <1>1, <1>2, <2>1, <2>3, <1>3 DEF NoZeros
  <2> QED
    BY <2>2, <2>3
<1>7. EncoderInv'
  <2>1. elementsInBlock' \in 0 .. BlockMax - 1
    BY <1>1, <1>2
  <2>2. /\ startOfBlock' \in Nat /\ encodedDataSize' \in Nat
        /\ startOfBlock' < encodedDataSize' /\ encodedDataSize' > 0
    BY <1>1, <1>2
  <2> QED
    BY <1>1, <1>4, <1>5, <1>3, <1>6, <2>1, <2>2 DEF EncoderInv, Encodes
<1>8. DecoderInv'
  BY <1>1, <1>3 DEF DecoderInv
<1> QED
  BY <1>1, <1>7, <1>8 DEF CobsInv

\* A byte fills a block up, and is then followed by a code byte, or it does not.
LEMMA EncodeByteKeeps == CobsInv /\ EncodeByte => CobsInv'
<1> SUFFICES ASSUME CobsInv, EncodeByte PROVE CobsInv'
  OBVIOUS
<1> DEFINE to == [encodedData EXCEPT ![encodedDataSize] = rawData[i + 1]]
           elements == elementsInBlock + 1
<1>1. /\ phase = "encode" /\ phase' = "encode"
      /\ rawData' = rawData /\ i' = i + 1 /\ i < Len(rawData)
      /\ rawData[i + 1] # 0
      /\ encodedDataPos' = encodedDataPos /\ decodedDataPos' = decodedDataPos
  BY DEF EncodeByte, decodeVars
<1>2. /\ i \in Nat /\ Len(rawData) \in Nat /\ Capacity \in Nat
      /\ elementsInBlock \in Nat /\ elementsInBlock < BlockMax
      /\ startOfBlock \in Nat /\ startOfBlock < encodedDataSize
      /\ encodedDataSize \in Nat /\ encodedDataSize + 1 <= Capacity
      /\ encodedData \in [0 .. Capacity - 1 -> Nat]
      /\ BlockMax \in Nat \ {0}
  BY <1>1, EncodeFacts, Constants
<1>3. /\ DecoderInv /\ Written /\ NoZeros
      /\ i' \in 0 .. Len(rawData') /\ rawData' \in Seq(Nat)
      /\ EncodedSize(Len(rawData')) <= Capacity
      /\ rawData[i + 1] \in Nat
  BY <1>1, EncodeFacts
<1>4. /\ to \in [0 .. Capacity - 1 -> Nat]
      /\ \A k \in 0 .. encodedDataSize : to[k] = 0 => k = startOfBlock
  <2>2. to \in [0 .. Capacity - 1 -> Nat]
    BY <1>2, <1>3
  <2>3. ASSUME NEW k \in 0 .. encodedDataSize, to[k] = 0 PROVE k = startOfBlock
    <3>1. k \in 0 .. Capacity - 1
      BY <1>1, <1>2
    <3>2. k # encodedDataSize
      BY <1>1, <1>2, <2>3, <3>1
    <3>3. k \in 0 .. encodedDataSize - 1 /\ encodedData[k] = 0
      BY <1>1, <1>2, <2>3, <3>1, <3>2
    <3> QED
      BY <1>1, <1>2, <3>3, <1>3 DEF NoZeros
  <2> QED
    BY <2>2, <2>3
<1>5. PICK f \in Nat : /\ f * BlockMax + elementsInBlock <= i
                       /\ encodedDataSize = 1 + i + f
  BY <1>3 DEF Written
<1>6. f * BlockMax \in Nat
  BY Constants
<1>7. CASE BlockIsFull(elements)
  <2>1. /\ encodedData' = [to EXCEPT ![startOfBlock] = elements + 1,
                                     ![encodedDataSize + 1] = 0]
        /\ startOfBlock' = encodedDataSize + 1
        /\ encodedDataSize' = encodedDataSize + 2
        /\ elementsInBlock' = 0
    <3>1. CloseBlock(to, elements, encodedDataSize + 1)
      BY <1>7 DEF EncodeByte
    <3> QED
      BY <1>1, <1>2, <3>1 DEF CloseBlock
  <2>2. encodedData' \in [0 .. Capacity - 1 -> Nat]
    <3>1. elements + 1 \in Nat /\ 0 \in Nat
      BY <1>1, <1>2
    <3> HIDE DEF to, elements
    <3> QED
      BY <1>4, <2>1, <3>1, TwoWrites
  <2>3. Written'
    <3>1. elementsInBlock + 1 = BlockMax
      BY <1>7 DEF BlockIsFull
    <3>2. (f + 1) * BlockMax = f * BlockMax + BlockMax
      BY Constants
    <3>3. /\ f + 1 \in Nat
          /\ (f + 1) * BlockMax + elementsInBlock' <= i'
          /\ encodedDataSize' = 1 + i' + (f + 1)
      BY <1>1, <1>2, <1>5, <1>6, <2>1, <3>1, <3>2
    <3> QED
      BY <3>3 DEF Written
  <2>4. NoZeros'
    <3> SUFFICES ASSUME NEW k \in 0 .. encodedDataSize
                 PROVE  encodedData'[k] # 0
      BY <1>1, <1>2, <2>1, <1>3 DEF NoZeros
    <3>1. k \in Nat /\ k # encodedDataSize + 1 /\ elements + 1 # 0
      BY <1>1, <1>2
    <3>2. k \in 0 .. Capacity - 1
      BY <1>1, <1>2
    <3> HIDE DEF to, elements
    <3>3. CASE k = startOfBlock
      BY <1>4, <2>1, <3>1, <3>2, <3>3
    <3>4. CASE k # startOfBlock
      <4>1. encodedData'[k] = to[k]
        BY <1>4, <2>1, <3>1, <3>2, <3>4
      <4> QED
        BY <1>4, <3>4, <4>1
    <3> QED
      BY <3>3, <3>4
  <2>5. EncoderInv'
    <3>1. elementsInBlock' \in 0 .. BlockMax - 1
      BY <2>1, Constants
    <3>2. /\ startOfBlock' \in Nat /\ encodedDataSize' \in Nat
          /\ startOfBlock' < encodedDataSize' /\ encodedDataSize' > 0
      BY <1>1, <1>2, <2>1
    <3> QED
      BY <1>1, <1>3, <2>2, <2>3, <2>4, <3>1, <3>2 DEF EncoderInv, Encodes
  <2>6. DecoderInv'
    BY <1>1, <1>3 DEF DecoderInv
  <2> QED
    BY <1>1, <2>5, <2>6 DEF CobsInv
<1>8. CASE ~BlockIsFull(elements)
  <2>1. /\ encodedData' = to
        /\ startOfBlock' = startOfBlock
        /\ encodedDataSize' = encodedDataSize + 1
        /\ elementsInBlock' = elements
    BY <1>8 DEF EncodeByte
  <2>2. Written'
    <3>1. /\ f * BlockMax + elementsInBlock' <= i'
          /\ encodedDataSize' = 1 + i' + f
      BY <1>1, <1>2, <1>5, <1>6, <2>1
    <3> QED
      BY <3>1 DEF Written
  <2>3. elementsInBlock' \in 0 .. BlockMax - 1
    BY <1>1, <1>2, <1>8, <2>1, Constants DEF BlockIsFull
  <2>4. encodedData' \in [0 .. Capacity - 1 -> Nat]
    BY <1>4, <2>1
  <2> HIDE DEF to
  <2>5. NoZeros'
    <3>1. encodedDataSize' - 1 = encodedDataSize
      BY <1>1, <1>2, <2>1
    <3> QED
      BY <1>1, <1>4, <2>1, <3>1 DEF NoZeros
  <2>6. EncoderInv'
    <3>1. /\ startOfBlock' \in Nat /\ encodedDataSize' \in Nat
          /\ startOfBlock' < encodedDataSize' /\ encodedDataSize' > 0
      BY <1>1, <1>2, <2>1
    <3> QED
      BY <1>1, <1>3, <2>2, <2>3, <2>4, <2>5, <3>1 DEF EncoderInv, Encodes
  <2>7. DecoderInv'
    BY <1>1, <1>3 DEF DecoderInv
  <2> QED
    BY <1>1, <2>6, <2>7 DEF CobsInv
<1> QED
  BY <1>7, <1>8

\* The terminator is inside what the output was given.
LEMMA EncodeEndKeeps == CobsInv /\ EncodeEnd => CobsInv'
<1> SUFFICES ASSUME CobsInv, EncodeEnd PROVE CobsInv'
  OBVIOUS
<1>1. /\ phase = "encode" /\ phase' = "line"
      /\ rawData' = rawData /\ i' = i /\ i = Len(rawData)
      /\ encodedData' = [encodedData EXCEPT ![startOfBlock] = elementsInBlock + 1,
                                            ![encodedDataSize] = 0]
      /\ startOfBlock' = startOfBlock
      /\ encodedDataSize' = encodedDataSize
      /\ elementsInBlock' = elementsInBlock
      /\ encodedDataPos' = encodedDataPos /\ decodedDataPos' = decodedDataPos
  BY DEF EncodeEnd, decodeVars
<1>2. /\ i \in Nat /\ Len(rawData) \in Nat /\ Capacity \in Nat
      /\ elementsInBlock \in Nat /\ elementsInBlock < BlockMax
      /\ startOfBlock \in Nat /\ startOfBlock < encodedDataSize
      /\ encodedDataSize \in Nat /\ encodedDataSize + 1 <= Capacity
      /\ encodedData \in [0 .. Capacity - 1 -> Nat]
      /\ BlockMax \in Nat \ {0}
  BY <1>1, EncodeFacts, Constants
<1>3. /\ CobsInv /\ EncoderInv /\ DecoderInv /\ Written /\ NoZeros /\ Encodes
  BY <1>1, EncodeFacts DEF CobsInv
<1>4. encodedData' \in [0 .. Capacity - 1 -> Nat]
  <2>1. elementsInBlock + 1 \in Nat /\ 0 \in Nat
    BY <1>2
  <2> QED
    BY <1>1, <1>2, <2>1, TwoWrites
<1>5. encodedData'[encodedDataSize] = 0
  BY <1>1, <1>2
<1>6. NoZeros'
  <2> SUFFICES ASSUME NEW k \in 0 .. encodedDataSize - 1
               PROVE  encodedData'[k] # 0
    BY <1>1 DEF NoZeros
  <2>1. k \in 0 .. Capacity - 1 /\ k # encodedDataSize
    BY <1>2
  <2>2. CASE k = startOfBlock
    BY <1>1, <1>2, <2>1, <2>2
  <2>3. CASE k # startOfBlock
    BY <1>1, <1>2, <2>1, <2>3, <1>3 DEF NoZeros
  <2> QED
    BY <2>2, <2>3
<1>7. Written' /\ Encodes'
  BY <1>1, <1>3 DEF Written, Encodes
<1>8. EncoderInv'
  BY <1>1, <1>4, <1>5, <1>6, <1>7, <1>3 DEF EncoderInv
<1>9. DecoderInv'
  BY <1>1, <1>3 DEF DecoderInv
<1> QED
  BY <1>1, <1>8, <1>9 DEF CobsInv

-----------------------------------------------------------------------------
(* The line preserves it                                                   *)

\* A prefix of a sequence has its first m elements.
LEMMA PrefixProperties ==
  ASSUME NEW S, NEW s \in Seq(S), NEW m \in 1 .. Len(s)
  PROVE  /\ SubSeq(s, 1, m) \in Seq(S)
         /\ Len(SubSeq(s, 1, m)) = m
         /\ \A k \in 1 .. m : SubSeq(s, 1, m)[k] = s[k]
<1>1. m \in Nat /\ 1 <= m /\ m <= Len(s)
  BY LenProperties
<1>2. \A k \in 1 .. m : s[k] \in S
  BY <1>1, ElementOfSeq, LenProperties
<1>3. /\ SubSeq(s, 1, m) \in Seq(S)
      /\ Len(SubSeq(s, 1, m)) = IF 1 <= m THEN m - 1 + 1 ELSE 0
      /\ \A k \in 1 .. m - 1 + 1 : SubSeq(s, 1, m)[k] = s[1 + k - 1]
  BY <1>1, <1>2, SubSeqProperties
<1> QED
  BY <1>1, <1>3

\* The search finds the first zero.
LEMMA FirstZero ==
  ASSUME NEW s \in Seq(Nat), \E k \in 1 .. Len(s) : s[k] = 0
  PROVE  \E m \in 1 .. Len(s) : /\ SelectInSeq(s, LAMBDA b : b = 0) = m
                                /\ s[m] = 0
                                /\ \A k \in 1 .. m - 1 : s[k] # 0
<1> DEFINE I == {k \in 1 .. Len(s) : s[k] = 0}
           m == Min(I)
<1>1. I \in SUBSET Nat /\ I # {}
  OBVIOUS
<1>2. m \in I /\ \A k \in I : m <= k
  <2> HIDE DEF I
  <2> QED
    BY <1>1, MinIsLeast
<1>3. SelectInSeq(s, LAMBDA b : b = 0) = m
  BY <1>1 DEF SelectInSeq
<1> HIDE DEF m
<1>4. m \in 1 .. Len(s) /\ s[m] = 0 /\ \A k \in 1 .. m - 1 : s[k] # 0
  BY <1>2
<1> QED
  BY <1>3, <1>4

\* What is cut off behind the first zero has a zero at its end and nowhere else.
LEMMA CutBehindZero ==
  ASSUME NEW s \in Seq(Nat), NEW m \in 1 .. Len(s), s[m] = 0,
         \A k \in 1 .. m - 1 : s[k] # 0, NEW p, p = SubSeq(s, 1, m)
  PROVE  /\ p \in Seq(Nat)
         /\ p # <<>>
         /\ \A k \in 1 .. Len(p) : p[k] = 0 <=> k = Len(p)
<1>1. p \in Seq(Nat) /\ Len(p) = m /\ \A k \in 1 .. m : p[k] = s[k]
  BY PrefixProperties
<1>2. m \in Nat /\ 1 <= m
  BY LenProperties
<1> QED
  BY <1>1, <1>2

\* What is sent fits the array and has a zero.
LEMMA EncodedHasZero ==
  ASSUME CobsInv, phase = "line"
  PROVE  /\ Encoded = [k \in 1 .. EncodedSize(Len(rawData)) |-> encodedData[k - 1]]
         /\ EncodedSize(Len(rawData)) \in Nat
         /\ EncodedSize(Len(rawData)) <= Capacity
         /\ Encoded \in Seq(Nat)
         /\ Len(Encoded) = EncodedSize(Len(rawData))
         /\ \E k \in 1 .. Len(Encoded) : Encoded[k] = 0
<1> DEFINE n == EncodedSize(Len(rawData))
<1>1. /\ encodedDataSize \in Nat /\ encodedData[encodedDataSize] = 0
      /\ encodedData \in [0 .. Capacity - 1 -> Nat]
      /\ EncoderInv /\ Written /\ i = Len(rawData)
  BY DEF CobsInv, EncoderInv
<1>2. n \in Nat /\ n <= Capacity /\ encodedDataSize + 1 <= n
  BY <1>1, RoomLeft
<1>3. Encoded = [k \in 1 .. n |-> encodedData[k - 1]]
  BY DEF Encoded, Contents
<1> HIDE DEF n
<1>4. Encoded \in Seq(Nat) /\ Len(Encoded) = n
  <2>1. \A k \in 1 .. n : encodedData[k - 1] \in Nat
    BY <1>1, <1>2, Constants
  <2> QED
    BY <1>2, <1>3, <2>1
<1>5. \E k \in 1 .. Len(Encoded) : Encoded[k] = 0
  <2>1. encodedDataSize + 1 \in 1 .. n
    BY <1>1, <1>2
  <2>2. Encoded[encodedDataSize + 1] = 0
    BY <1>1, <1>3, <2>1
  <2> QED
    BY <1>4, <2>1, <2>2
<1> QED
  BY <1>2, <1>3, <1>4, <1>5 DEF n

\* Once Encode is done, what it has left is left alone.
LEMMA EncoderLeft ==
  ASSUME EncoderInv, phase # "encode", phase' \in {"decode", "done"},
         rawData' = rawData, UNCHANGED encodeVars
  PROVE  EncoderInv'
<1>1. /\ Written' <=> Written
      /\ Encodes' <=> Encodes
      /\ NoZeros <=> NoZeros'
  BY DEF encodeVars, Written, Encodes, NoZeros
<1> QED
  BY <1>1 DEF EncoderInv, encodeVars

LEMMA FrameKeeps == CobsInv /\ Frame => CobsInv'
<1> SUFFICES ASSUME CobsInv, Frame PROVE CobsInv'
  OBVIOUS
<1>1. /\ phase = "line" /\ phase' = "decode"
      /\ packet' = SubSeq(Encoded, 1, SelectInSeq(Encoded, LAMBDA b : b = 0))
      /\ rawData' = rawData /\ i' = i /\ startOfBlock' = startOfBlock
      /\ elementsInBlock' = elementsInBlock
      /\ encodedDataSize' = encodedDataSize /\ encodedData' = encodedData
      /\ encodedDataPos' = encodedDataPos /\ decodedDataPos' = decodedDataPos
  BY DEF Frame, encodeVars, decodeVars
<1>2. EncoderInv /\ DecoderInv
  BY DEF CobsInv
<1>3. /\ packet' \in Seq(Nat)
      /\ packet' # <<>>
      /\ \A k \in 1 .. Len(packet') : packet'[k] = 0 <=> k = Len(packet')
  <2>1. PICK m \in 1 .. Len(Encoded) :
          /\ SelectInSeq(Encoded, LAMBDA b : b = 0) = m
          /\ Encoded[m] = 0
          /\ \A k \in 1 .. m - 1 : Encoded[k] # 0
    BY <1>1, EncodedHasZero, FirstZero
  <2>2. packet' = SubSeq(Encoded, 1, m)
    BY <1>1, <2>1
  <2> QED
    BY <1>1, <2>1, <2>2, EncodedHasZero, CutBehindZero
<1>4. encodedDataPos' = 0 /\ decodedDataPos' = 0
  BY <1>1, <1>2 DEF DecoderInv
<1>5. DecoderInv'
  <2>1. Len(packet') \in Nat \ {0}
    BY <1>3
  <2>2. Len(packet') > 1 => packet'[1] # 0
    BY <1>3, <2>1
  <2>3. encodedDataPos' \in 0 .. Len(packet') /\ decodedDataPos' \in 0 .. encodedDataPos'
    BY <1>4, <2>1
  <2>4. encodedDataPos' < Len(packet') /\ encodedDataPos' + 1 = 1
    BY <1>4, <2>1
  <2>5. Len(packet') > 1 => packet'[encodedDataPos' + 1] # 0
    BY <2>2, <2>4
  <2> QED
    BY <1>1, <1>3, <2>3, <2>4, <2>5 DEF DecoderInv, ByteAt
<1>6. EncoderInv'
  BY <1>1, <1>2, EncoderLeft DEF encodeVars
<1> QED
  BY <1>1, <1>5, <1>6 DEF CobsInv

-----------------------------------------------------------------------------
(* Decode preserves it                                                     *)

\* The zero that may follow the block ahead is the packet's last byte at most.
LEMMA BlockAhead ==
  ASSUME CobsInv, phase = "decode", Decodable
  PROVE  /\ encodedDataPos \in Nat /\ decodedDataPos \in Nat
         /\ decodedDataPos <= encodedDataPos
         /\ Len(packet) \in Nat /\ Len(packet) > 1
         /\ elementsAhead \in Nat
         /\ Copied \in Nat
         /\ Copied <= elementsAhead
         /\ Copied < elementsAhead => encodedDataPos + 1 + Copied = Len(packet) - 1
         /\ encodedDataPos + 1 + Copied <= Len(packet) - 1
<1>2. packet \in Seq(Nat) /\ Len(packet) \in Nat /\ Len(packet) > 1
  BY DEF CobsInv, DecoderInv, Decodable, ESF_MIN_BYTES
<1>1. /\ \A k \in 1 .. Len(packet) : packet[k] = 0 <=> k = Len(packet)
      /\ encodedDataPos \in 0 .. Len(packet) - 1
      /\ decodedDataPos \in 0 .. encodedDataPos
      /\ packet[encodedDataPos + 1] # 0
  BY <1>2 DEF CobsInv, DecoderInv, ByteAt
<1>3. encodedDataPos + 1 \in 1 .. Len(packet)
  BY <1>1, <1>2
<1>4. encodedDataPos + 1 < Len(packet)
  BY <1>1, <1>2, <1>3
<1>5. packet[encodedDataPos + 1] \in Nat \ {0}
  BY <1>1, <1>2, <1>3, ElementOfSeq
<1>6. elementsAhead \in Nat
  BY <1>5 DEF elementsAhead, ByteAt
<1>7. /\ encodedDataPos \in Nat /\ decodedDataPos \in Nat
      /\ decodedDataPos <= encodedDataPos
  BY <1>1, <1>2
<1>8. CASE encodedDataPos + elementsAhead >= Len(packet) - 1
  <2>1. Copied = Len(packet) - 2 - encodedDataPos
    BY <1>8 DEF Copied
  <2>2. Copied \in Nat /\ Copied < elementsAhead
    BY <1>2, <1>4, <1>6, <1>7, <1>8, <2>1
  <2>3. encodedDataPos + 1 + Copied = Len(packet) - 1
    BY <1>2, <1>7, <2>1
  <2> QED
    BY <1>2, <1>6, <1>7, <2>2, <2>3
<1>9. CASE ~(encodedDataPos + elementsAhead >= Len(packet) - 1)
  <2>1. Copied = elementsAhead
    BY <1>9 DEF Copied
  <2>2. encodedDataPos + 1 + Copied <= Len(packet) - 1
    BY <1>2, <1>6, <1>7, <1>9, <2>1
  <2> QED
    BY <1>2, <1>6, <1>7, <2>1, <2>2
<1> QED
  BY <1>8, <1>9

LEMMA DecodeTooShortKeeps == CobsInv /\ DecodeTooShort => CobsInv'
<1> SUFFICES ASSUME CobsInv, DecodeTooShort PROVE CobsInv'
  OBVIOUS
<1>1. /\ phase = "decode" /\ phase' = "done" /\ rawData' = rawData
      /\ UNCHANGED encodeVars /\ packet' = packet
      /\ encodedDataPos' = encodedDataPos /\ decodedDataPos' = decodedDataPos
  BY DEF DecodeTooShort
<1>2. EncoderInv /\ DecoderInv
  BY DEF CobsInv
<1>3. EncoderInv'
  BY <1>1, <1>2, EncoderLeft
<1>4. DecoderInv'
  BY <1>1, <1>2 DEF DecoderInv
<1> QED
  BY <1>1, <1>3, <1>4 DEF CobsInv

\* A zero with nothing before it ends Decode.
LEMMA DecodeLoneZeroKeeps == CobsInv /\ DecodeLoneZero => CobsInv'
<1> SUFFICES ASSUME CobsInv, DecodeLoneZero PROVE CobsInv'
  OBVIOUS
<1>1. /\ phase = "decode" /\ phase' = "done" /\ rawData' = rawData
      /\ UNCHANGED encodeVars /\ packet' = packet /\ Len(packet) = 1
      /\ encodedDataPos' = 1 /\ decodedDataPos' \in 0 .. 1
  BY DEF DecodeLoneZero
<1>2. EncoderInv /\ DecoderInv
  BY DEF CobsInv
<1>3. EncoderInv'
  BY <1>1, <1>2, EncoderLeft
<1>4. DecoderInv'
  BY <1>1, <1>2 DEF DecoderInv
<1> QED
  BY <1>1, <1>3, <1>4 DEF CobsInv

\* The block runs into the zero, which is the last byte of the packet.
LEMMA DecodeZeroByteKeeps == CobsInv /\ DecodeZeroByte => CobsInv'
<1> SUFFICES ASSUME CobsInv, DecodeZeroByte PROVE CobsInv'
  OBVIOUS
<1>1. /\ phase = "decode" /\ phase' = "done" /\ rawData' = rawData
      /\ UNCHANGED encodeVars /\ packet' = packet
      /\ encodedDataPos' = encodedDataPos + 1 + Copied
      /\ Decodable
  BY DEF DecodeZeroByte, ZeroPosition
<1>2. EncoderInv /\ DecoderInv
  BY DEF CobsInv
<1>3. decodedDataPos' \in {0, decodedDataPos + Copied}
  BY DEF DecodeZeroByte, LeaveOutput
<1>4. EncoderInv'
  BY <1>1, <1>2, EncoderLeft
<1>5. /\ encodedDataPos' \in 0 .. Len(packet) - 1
      /\ decodedDataPos' \in 0 .. encodedDataPos'
  BY <1>1, <1>3, BlockAhead
<1>6. DecoderInv'
  BY <1>1, <1>2, <1>5 DEF DecoderInv
<1> QED
  BY <1>1, <1>4, <1>6 DEF CobsInv

\* What follows the block is not the zero, so there is more of the packet.
LEMMA DecodeBlockKeeps == CobsInv /\ DecodeBlock => CobsInv'
<1> SUFFICES ASSUME CobsInv, DecodeBlock PROVE CobsInv'
  OBVIOUS
<1>1. /\ phase = "decode" /\ phase' = "decode" /\ rawData' = rawData
      /\ UNCHANGED encodeVars /\ packet' = packet
      /\ encodedDataPos' = encodedDataPos + 1 + elementsAhead
      /\ Copied = elementsAhead
      /\ ByteAt(encodedDataPos') # 0
      /\ Decodable
  BY DEF DecodeBlock
<1>2. EncoderInv /\ DecoderInv
  BY DEF CobsInv
<1>3. decodedDataPos' \in {decodedDataPos + elementsAhead,
                           decodedDataPos + elementsAhead + 1}
  BY DEF DecodeBlock
<1>4. EncoderInv'
  BY <1>1, <1>2, EncoderLeft
<1>5. /\ encodedDataPos' \in 0 .. Len(packet) - 1
      /\ decodedDataPos' \in 0 .. encodedDataPos'
  BY <1>1, <1>3, BlockAhead
<1>6. packet'[encodedDataPos' + 1] # 0
  BY <1>1 DEF ByteAt
<1>7. DecoderInv'
  BY <1>1, <1>2, <1>5, <1>6 DEF DecoderInv, ByteAt
<1> QED
  BY <1>1, <1>4, <1>7 DEF CobsInv

LEMMA DecodeLastBlockKeeps == CobsInv /\ DecodeLastBlock => CobsInv'
<1> SUFFICES ASSUME CobsInv, DecodeLastBlock PROVE CobsInv'
  OBVIOUS
<1>1. /\ phase = "decode" /\ phase' = "done" /\ rawData' = rawData
      /\ UNCHANGED encodeVars /\ packet' = packet
      /\ encodedDataPos' = encodedDataPos + 1 + elementsAhead
      /\ decodedDataPos' = decodedDataPos + elementsAhead
      /\ Copied = elementsAhead
      /\ Decodable
  BY DEF DecodeLastBlock
<1>2. EncoderInv /\ DecoderInv
  BY DEF CobsInv
<1>3. EncoderInv'
  BY <1>1, <1>2, EncoderLeft
<1>4. /\ encodedDataPos' \in 0 .. Len(packet) - 1
      /\ decodedDataPos' \in 0 .. encodedDataPos'
  BY <1>1, BlockAhead
<1>5. DecoderInv'
  BY <1>1, <1>2, <1>4 DEF DecoderInv
<1> QED
  BY <1>1, <1>3, <1>5 DEF CobsInv

-----------------------------------------------------------------------------
(* The theorems                                                            *)

LEMMA StepKeepsCobsInv == CobsInv /\ [Next]_vars => CobsInv'
<1> SUFFICES ASSUME CobsInv, [Next]_vars PROVE CobsInv'
  OBVIOUS
<1>1. CASE Next
  BY <1>1, EncodeZeroKeeps, EncodeByteKeeps, EncodeEndKeeps, FrameKeeps,
     DecodeTooShortKeeps, DecodeLoneZeroKeeps, DecodeZeroByteKeeps,
     DecodeBlockKeeps, DecodeLastBlockKeeps DEF Next
<1>2. CASE UNCHANGED vars
  <2>1. EncoderInv'
    BY <1>2 DEF vars, encodeVars, CobsInv, EncoderInv, Written, Encodes, NoZeros
  <2>2. DecoderInv'
    BY <1>2 DEF vars, decodeVars, CobsInv, DecoderInv, ByteAt
  <2> QED
    BY <1>2, <2>1, <2>2 DEF vars, CobsInv
<1> QED
  BY <1>1, <1>2

LEMMA EncodeBounded == CobsInv => EncodeInBounds
<1> SUFFICES ASSUME CobsInv, phase = "encode" PROVE EncodeInBounds
  BY DEF EncodeInBounds
<1>1. EncoderInv /\ Written /\ startOfBlock < encodedDataSize
  BY DEF CobsInv, EncoderInv
<1> QED
  BY <1>1, RoomLeft DEF EncodeInBounds

\* The size that Encode gives its output (2 + size + size / 254) always has room
\* for the bytes still to come and for the terminator, whatever the length of a
\* block, of the message and the bytes in it.
THEOREM EncodeStaysInBounds == SafetySpec => []EncodeInBounds
BY EncodeBounded, InitCobsInv, StepKeepsCobsInv, PTL DEF SafetySpec

\* What ends with a zero is more than that zero or just that.
LEMMA MoreThanZero ==
  ASSUME NEW s \in Seq(Nat), s # <<>>, s[Len(s)] = 0
  PROVE  Len(s) > 1 \/ s = <<0>>
<1> DEFINE n == Len(s)
<1>1. n \in Nat /\ n # 0
  OBVIOUS
<1> HIDE DEF n
<1>2. n = 1 \/ n > 1
  BY <1>1
<1>3. ASSUME n = 1 PROVE s = <<0>>
  BY <1>3 DEF n
<1> QED
  BY <1>2, <1>3 DEF n

LEMMA DecodeBounded == CobsInv => DecodeInBounds
<1> SUFFICES ASSUME CobsInv, phase \in {"decode", "done"} PROVE DecodeInBounds
  BY DEF DecodeInBounds
<1>1. /\ packet \in Seq(Nat) /\ packet # <<>>
      /\ packet[Len(packet)] = 0
      /\ Len(packet) > 1 => encodedDataPos < Len(packet)
      /\ decodedDataPos \in 0 .. encodedDataPos
  BY DEF CobsInv, DecoderInv
<1>2. Len(packet) > 1 \/ packet = <<0>>
  BY <1>1, MoreThanZero
<1>3. ASSUME phase = "decode", Decodable, Copied = elementsAhead
      PROVE  ZeroBetweenBlocks \in decodedDataPos + elementsAhead .. Len(packet) - 1
  <2>1. /\ encodedDataPos \in Nat /\ decodedDataPos \in Nat
        /\ decodedDataPos <= encodedDataPos
        /\ elementsAhead \in Nat /\ Len(packet) \in Nat
        /\ encodedDataPos + 1 + elementsAhead <= Len(packet) - 1
    BY <1>3, BlockAhead
  <2>2. ZeroBetweenBlocks \in {encodedDataPos + 1 + elementsAhead,
                              decodedDataPos + elementsAhead}
    BY DEF ZeroBetweenBlocks
  <2> QED
    BY <2>1, <2>2
<1> QED
  BY <1>1, <1>2, <1>3 DEF DecodeInBounds

\* Decode writes no further than it has read, whatever bytes a noisy line has put
\* before the zero, and reads inside the packet if there are any; its misplaced
\* zero overwrites nothing and goes no further than the packet is long.
THEOREM DecodeStaysInBounds == SafetySpec => []DecodeInBounds
BY DecodeBounded, InitCobsInv, StepKeepsCobsInv, PTL DEF SafetySpec

-----------------------------------------------------------------------------
(* The zero that ends a packet is its only one                             *)

LEMMA ZeroIsLast == CobsInv => UniqueZero
<1> DEFINE n == EncodedSize(Len(rawData))
<1> SUFFICES ASSUME CobsInv, phase = "line", Len(rawData) < BlockMax
             PROVE  \A k \in 1 .. Len(Encoded) :
                      Encoded[k] = 0 <=> k = Len(Encoded)
  BY DEF UniqueZero
<1>1. /\ Len(rawData) \in Nat /\ encodedDataSize \in Nat
      /\ elementsInBlock \in Nat /\ i = Len(rawData)
      /\ Written /\ NoZeros /\ encodedData[encodedDataSize] = 0
  BY DEF CobsInv, EncoderInv
<1>2. encodedDataSize = 1 + Len(rawData)
  <2>1. PICK f \in Nat : /\ f * BlockMax + elementsInBlock <= i
                         /\ encodedDataSize = 1 + i + f
    BY <1>1 DEF Written
  <2>2. f * BlockMax \in Nat /\ f * BlockMax <= Len(rawData)
    BY <1>1, <2>1, Constants
  <2>3. f <= 0
    BY <1>1, <2>2, Constants, DivBound, NoFullBlock
  <2> QED
    BY <1>1, <2>1, <2>3
<1>3. n = encodedDataSize + 1
  <2>1. Len(rawData) \div BlockMax = 0
    BY <1>1, Constants, NoFullBlock
  <2> QED
    BY <1>1, <1>2, <2>1 DEF EncodedSize
<1>4. Encoded = [k \in 1 .. n |-> encodedData[k - 1]] /\ Len(Encoded) = n
  BY EncodedHasZero
<1> HIDE DEF n
<1> SUFFICES ASSUME NEW k \in 1 .. n PROVE Encoded[k] = 0 <=> k = n
  BY <1>4
<1>5. Encoded[k] = encodedData[k - 1]
  BY <1>4
<1>6. CASE k = n
  BY <1>1, <1>3, <1>5, <1>6
<1>7. CASE k # n
  <2>1. k - 1 \in 0 .. encodedDataSize - 1
    BY <1>1, <1>3, <1>7
  <2> QED
    BY <1>1, <1>5, <1>7, <2>1 DEF NoZeros
<1> QED
  BY <1>6, <1>7

\* Every packet made of a message shorter than a block can hold has its zero at
\* the end and no other, which is what the receiver cuts packets at.
THEOREM ZeroIsUnique == SafetySpec => []UniqueZero
BY ZeroIsLast, InitCobsInv, StepKeepsCobsInv, PTL DEF SafetySpec

-----------------------------------------------------------------------------
(* Type correctness                                                        *)

\* Bytes are bytes, and the arrays hold every packet there can be.
TypeInv ==
  /\ TypeOK
  /\ phase \in {"decode", "done"} => Len(packet) <= Capacity

LEMMA StartTypeInv == Start => TypeInv
<1> SUFFICES ASSUME Start PROVE TypeInv
  OBVIOUS
<1>1. encodedData \in Array /\ decodedData \in Array
  BY Bytes DEF Start, InitDecode, Array
<1>2. 0 \in 0 .. Capacity - 1 /\ 1 \in 0 .. Capacity - 1
  BY Constants DEF Capacity
<1>3. 0 \in 0 .. BlockMax - 1
  BY Constants
<1>4. packet \in Seq(Byte) /\ 0 \in 0 .. Len(rawData)
  BY DEF Start
<1> QED
  BY <1>1, <1>2, <1>3, <1>4 DEF Start, InitDecode, TypeInv, TypeOK

LEMMA InitTypeInv == Init => TypeInv
<1> SUFFICES ASSUME Init PROVE TypeInv
  OBVIOUS
<1>1. CASE InitMessage
  BY <1>1, InitMessageIsStart, StartTypeInv
<1>2. CASE InitNoise
  <2>1. encodedData \in Array /\ decodedData \in Array
    BY Bytes DEF Init, InitDecode, Array
  <2>2. 0 \in 0 .. Capacity - 1 /\ 0 \in 0 .. BlockMax - 1
    BY Constants DEF Capacity
  <2>3. phase = "decode" /\ rawData = <<>> /\ encodedDataSize = 0
    BY <1>2 DEF InitNoise
  <2>4. PICK noise \in BoundedSeq(Byte \ {0}, MaxLine) : packet = Append(noise, 0)
    BY <1>2 DEF InitNoise
  <2>5. noise \in Seq(Byte) /\ Len(noise) <= MaxLine
    BY Constants, BoundedSequence
  <2>6. packet \in Seq(Byte) /\ Len(packet) = Len(noise) + 1
    BY <2>4, <2>5, Bytes
  <2>7. Len(packet) <= Capacity
    BY <2>5, <2>6, Constants DEF Capacity
  <2> QED
    BY <2>1, <2>2, <2>3, <2>6, <2>7 DEF Init, InitDecode, TypeInv, TypeOK
<1> QED
  BY <1>1, <1>2 DEF Init

\* Writing to an array leaves an array.
LEMMA Write ==
  ASSUME NEW a \in Array, NEW x, NEW v \in Byte
  PROVE  [a EXCEPT ![x] = v] \in Array
BY DEF Array

\* Encode stays inside the array.
SizesFit ==
  phase = "encode" => /\ encodedDataSize \in 0 .. Capacity - 1
                      /\ startOfBlock \in 0 .. Capacity - 1

LEMMA EncoderSizesFit == CobsInv => SizesFit
<1> SUFFICES ASSUME CobsInv, phase = "encode" PROVE SizesFit
  BY DEF SizesFit
<1>1. /\ EncoderInv /\ Written /\ startOfBlock < encodedDataSize
      /\ startOfBlock \in Nat /\ encodedDataSize \in Nat
  BY DEF CobsInv, EncoderInv
<1> QED
  BY <1>1, RoomLeft, Constants DEF SizesFit

\* A step of Encode writes bytes and stays in phase "encode".
LEMMA EncodeTypes ==
  ASSUME CobsInv', TypeInv, phase = "encode", phase' = "encode",
         optimised' = optimised, rawData' = rawData, packet' = packet,
         UNCHANGED decodeVars, encodedData' \in Array
  PROVE  TypeInv'
<1>1. EncoderInv'
  BY DEF CobsInv
<1>2. encodedDataSize' \in 0 .. Capacity - 1 /\ startOfBlock' \in 0 .. Capacity - 1
  <2>1. SizesFit'
    BY EncoderSizesFit, PTL
  <2> QED
    BY <2>1 DEF SizesFit
<1>3. i' \in 0 .. Len(rawData') /\ elementsInBlock' \in 0 .. BlockMax - 1
  BY <1>1 DEF EncoderInv
<1> QED
  BY <1>2, <1>3 DEF TypeInv, TypeOK, decodeVars

\* The code byte of the block that is open.
LEMMA CodeByte ==
  ASSUME TypeInv PROVE elementsInBlock + 1 \in Byte /\ elementsInBlock + 2 \in Byte
<1>1. elementsInBlock \in 0 .. BlockMax - 1
  BY DEF TypeInv, TypeOK
<1> QED
  BY <1>1, Constants DEF Byte

LEMMA EncodeZeroKeepsTypes == CobsInv /\ TypeInv /\ EncodeZero => TypeInv'
<1> SUFFICES ASSUME CobsInv, TypeInv, EncodeZero PROVE TypeInv'
  OBVIOUS
<1>1. /\ phase = "encode" /\ phase' = "encode" /\ optimised' = optimised
      /\ rawData' = rawData /\ packet' = packet /\ UNCHANGED decodeVars
      /\ encodedData' = [encodedData EXCEPT ![startOfBlock] = elementsInBlock + 1,
                                            ![encodedDataSize] = 0]
  BY DEF EncodeZero, CloseBlock
<1> DEFINE a == [encodedData EXCEPT ![startOfBlock] = elementsInBlock + 1]
<1>2. a \in Array
  BY CodeByte, Write DEF TypeInv, TypeOK
<1>3. encodedData' = [a EXCEPT ![encodedDataSize] = 0]
  BY <1>1
<1> HIDE DEF a
<1>4. encodedData' \in Array
  BY <1>2, <1>3, Bytes, Write
<1> QED
  BY <1>1, <1>4, EncodeZeroKeeps, EncodeTypes

LEMMA EncodeByteKeepsTypes == CobsInv /\ TypeInv /\ EncodeByte => TypeInv'
<1> SUFFICES ASSUME CobsInv, TypeInv, EncodeByte PROVE TypeInv'
  OBVIOUS
<1> DEFINE to == [encodedData EXCEPT ![encodedDataSize] = rawData[i + 1]]
           elements == elementsInBlock + 1
           a == [to EXCEPT ![startOfBlock] = elements + 1]
<1>1. /\ phase = "encode" /\ phase' = "encode" /\ optimised' = optimised
      /\ rawData' = rawData /\ packet' = packet /\ UNCHANGED decodeVars
      /\ i < Len(rawData)
  BY DEF EncodeByte
<1>2. to \in Array
  <2>1. rawData \in Seq(Byte) /\ i \in Nat /\ encodedData \in Array
    BY DEF TypeInv, TypeOK
  <2>2. rawData[i + 1] \in Byte
    BY <1>1, <2>1
  <2> QED
    BY <2>1, <2>2, Write
<1>3. CASE BlockIsFull(elements)
  <2>1. elements + 1 \in Byte
    BY CodeByte DEF TypeInv, TypeOK
  <2>2. encodedData' = [a EXCEPT ![encodedDataSize + 1] = 0]
    <3>1. CloseBlock(to, elements, encodedDataSize + 1)
      BY <1>3 DEF EncodeByte
    <3> QED
      BY <3>1 DEF CloseBlock
  <2> HIDE DEF to, elements
  <2>3. a \in Array
    BY <1>2, <2>1, Write
  <2> HIDE DEF a
  <2>4. encodedData' \in Array
    BY <2>2, <2>3, Bytes, Write
  <2> QED
    BY <1>1, <2>4, EncodeByteKeeps, EncodeTypes
<1>4. CASE ~BlockIsFull(elements)
  <2>1. encodedData' = to
    BY <1>4 DEF EncodeByte
  <2> HIDE DEF to, elements
  <2> QED
    BY <1>1, <1>2, <2>1, EncodeByteKeeps, EncodeTypes
<1> QED
  BY <1>3, <1>4

LEMMA EncodeEndKeepsTypes == CobsInv /\ TypeInv /\ EncodeEnd => TypeInv'
<1> SUFFICES ASSUME CobsInv, TypeInv, EncodeEnd PROVE TypeInv'
  OBVIOUS
<1>1. /\ phase' = "line" /\ optimised' = optimised
      /\ rawData' = rawData /\ i' = i /\ startOfBlock' = startOfBlock
      /\ elementsInBlock' = elementsInBlock
      /\ encodedDataSize' = encodedDataSize
      /\ packet' = packet /\ UNCHANGED decodeVars
      /\ encodedData' = [encodedData EXCEPT ![startOfBlock] = elementsInBlock + 1,
                                            ![encodedDataSize] = 0]
  BY DEF EncodeEnd
<1> DEFINE a == [encodedData EXCEPT ![startOfBlock] = elementsInBlock + 1]
<1>2. a \in Array
  BY CodeByte, Write DEF TypeInv, TypeOK
<1>3. encodedData' = [a EXCEPT ![encodedDataSize] = 0]
  BY <1>1
<1> HIDE DEF a
<1>4. encodedData' \in Array
  BY <1>2, <1>3, Bytes, Write
<1> QED
  BY <1>1, <1>4 DEF TypeInv, TypeOK, decodeVars

LEMMA FrameKeepsTypes == CobsInv /\ TypeInv /\ Frame => TypeInv'
<1> SUFFICES ASSUME CobsInv, TypeInv, Frame PROVE TypeInv'
  OBVIOUS
<1> DEFINE n == EncodedSize(Len(rawData))
<1>1. /\ phase = "line" /\ phase' = "decode"
      /\ packet' = SubSeq(Encoded, 1, SelectInSeq(Encoded, LAMBDA b : b = 0))
      /\ UNCHANGED <<optimised, rawData, encodeVars, decodeVars>>
  BY DEF Frame
<1>2. /\ Encoded = [k \in 1 .. n |-> encodedData[k - 1]]
      /\ n \in Nat /\ n <= Capacity /\ Len(Encoded) = n
      /\ encodedData \in Array
  BY <1>1, EncodedHasZero DEF TypeInv, TypeOK
<1>3. PICK m \in 1 .. Len(Encoded) : SelectInSeq(Encoded, LAMBDA b : b = 0) = m
  BY <1>1, EncodedHasZero, FirstZero
<1>4. packet' = SubSeq(Encoded, 1, m)
  BY <1>1, <1>3
<1> HIDE DEF n
<1>5. Encoded \in Seq(Byte)
  <2>1. ASSUME NEW k \in 1 .. n PROVE encodedData[k - 1] \in Byte
    <3>1. k - 1 \in 0 .. Capacity - 1
      BY <1>2, Constants
    <3> QED
      BY <1>2, <3>1 DEF Array
  <2> QED
    BY <1>2, <2>1
<1>6. packet' \in Seq(Byte) /\ Len(packet') <= Capacity
  <2>1. packet' \in Seq(Byte) /\ Len(packet') = m
    BY <1>4, <1>5, PrefixProperties
  <2> QED
    BY <1>2, <2>1, Constants
<1> QED
  BY <1>1, <1>6 DEF TypeInv, TypeOK, encodeVars, decodeVars

\* What is copied out of the packet are bytes.
LEMMA WithBlockTypes ==
  ASSUME CobsInv, TypeInv, phase = "decode", Decodable
  PROVE  WithBlock \in Array
<1>1. decodedData \in Array /\ packet \in Seq(Byte)
  BY DEF TypeInv, TypeOK
<1>2. /\ encodedDataPos \in Nat /\ decodedDataPos \in Nat
      /\ Copied \in Nat /\ Len(packet) \in Nat
      /\ encodedDataPos + 1 + Copied <= Len(packet) - 1
  BY BlockAhead
<1>3. ASSUME NEW k \in 0 .. Capacity - 1,
             k \in decodedDataPos .. decodedDataPos + Copied - 1
      PROVE  ByteAt(encodedDataPos + 1 + k - decodedDataPos) \in Byte
  <2>1. encodedDataPos + 1 + k - decodedDataPos + 1 \in 1 .. Len(packet)
    BY <1>2, <1>3
  <2> QED
    BY <1>1, <2>1 DEF ByteAt
<1> QED
  BY <1>1, <1>3 DEF WithBlock, Array

\* A step of Decode moves inside the packet, and the packet fits the arrays.
LEMMA DecodeTypes ==
  ASSUME CobsInv', TypeInv, phase = "decode", phase' \in {"decode", "done"},
         optimised' = optimised, rawData' = rawData, UNCHANGED encodeVars,
         packet' = packet, decodedData' \in Array,
         result' \in {"SUCCESS", "ERROR_NOT_ENOUGH_BYTES",
                      "ERROR_ZERO_BYTE_NOT_EXPECTED"}
  PROVE  TypeInv'
<1>1. /\ encodedDataPos' \in 0 .. Len(packet')
      /\ Len(packet') > 1 => encodedDataPos' < Len(packet')
      /\ decodedDataPos' \in 0 .. encodedDataPos'
  BY DEF CobsInv, DecoderInv
<1>2. packet \in Seq(Byte) /\ Len(packet) <= Capacity /\ Len(packet) \in Nat
  BY DEF TypeInv, TypeOK
<1>3. /\ encodedDataPos' \in 0 .. Capacity - 1
      /\ decodedDataPos' \in 0 .. Capacity - 1
  BY <1>1, <1>2, Constants DEF Capacity
<1> QED
  BY <1>2, <1>3 DEF TypeInv, TypeOK, encodeVars

LEMMA DecodeTooShortKeepsTypes == CobsInv /\ TypeInv /\ DecodeTooShort => TypeInv'
<1> SUFFICES ASSUME CobsInv, TypeInv, DecodeTooShort PROVE TypeInv'
  OBVIOUS
<1>1. CobsInv'
  BY DecodeTooShortKeeps
<1> QED
  BY <1>1, DecodeTypes DEF DecodeTooShort, TypeInv, TypeOK

LEMMA DecodeLoneZeroKeepsTypes == CobsInv /\ TypeInv /\ DecodeLoneZero => TypeInv'
<1> SUFFICES ASSUME CobsInv, TypeInv, DecodeLoneZero PROVE TypeInv'
  OBVIOUS
<1>1. CobsInv'
  BY DecodeLoneZeroKeeps
<1> QED
  BY <1>1, DecodeTypes DEF DecodeLoneZero, TypeInv, TypeOK

LEMMA DecodeZeroByteKeepsTypes == CobsInv /\ TypeInv /\ DecodeZeroByte => TypeInv'
<1> SUFFICES ASSUME CobsInv, TypeInv, DecodeZeroByte PROVE TypeInv'
  OBVIOUS
<1>1. CobsInv'
  BY DecodeZeroByteKeeps
<1>2. decodedData' \in {WithBlock, decodedData}
  BY DEF DecodeZeroByte, LeaveOutput
<1>3. decodedData' \in Array
  BY <1>2, WithBlockTypes DEF DecodeZeroByte, TypeInv, TypeOK
<1> QED
  BY <1>1, <1>3, DecodeTypes DEF DecodeZeroByte

LEMMA DecodeBlockKeepsTypes == CobsInv /\ TypeInv /\ DecodeBlock => TypeInv'
<1> SUFFICES ASSUME CobsInv, TypeInv, DecodeBlock PROVE TypeInv'
  OBVIOUS
<1>1. CobsInv'
  BY DecodeBlockKeeps
<1>2. WithBlock \in Array
  BY WithBlockTypes DEF DecodeBlock
<1>3. \/ decodedData' = WithBlock
      \/ \E at \in {encodedDataPos', decodedDataPos + elementsAhead} :
           decodedData' = [WithBlock EXCEPT ![at] = 0]
  BY DEF DecodeBlock, ZeroBetweenBlocks
<1>4. decodedData' \in Array
  <2>1. \A at : [WithBlock EXCEPT ![at] = 0] \in Array
    BY <1>2, Bytes, Write
  <2> QED
    BY <1>2, <1>3, <2>1
<1> QED
  BY <1>1, <1>4, DecodeTypes DEF DecodeBlock, TypeInv, TypeOK

LEMMA DecodeLastBlockKeepsTypes == CobsInv /\ TypeInv /\ DecodeLastBlock => TypeInv'
<1> SUFFICES ASSUME CobsInv, TypeInv, DecodeLastBlock PROVE TypeInv'
  OBVIOUS
<1>1. CobsInv'
  BY DecodeLastBlockKeeps
<1>2. decodedData' \in Array
  BY WithBlockTypes DEF DecodeLastBlock
<1> QED
  BY <1>1, <1>2, DecodeTypes DEF DecodeLastBlock, TypeInv, TypeOK

LEMMA StepKeepsTypeInv == CobsInv /\ TypeInv /\ [Next]_vars => TypeInv'
<1> SUFFICES ASSUME CobsInv, TypeInv, [Next]_vars PROVE TypeInv'
  OBVIOUS
<1>1. CASE UNCHANGED vars
  BY <1>1 DEF vars, encodeVars, decodeVars, TypeInv, TypeOK
<1> QED
  BY <1>1, EncodeZeroKeepsTypes, EncodeByteKeepsTypes, EncodeEndKeepsTypes,
     FrameKeepsTypes, DecodeTooShortKeepsTypes, DecodeLoneZeroKeepsTypes,
     DecodeZeroByteKeepsTypes, DecodeBlockKeepsTypes, DecodeLastBlockKeepsTypes
     DEF Next

\* The arrays are large enough for every packet, and what is written to them and
\* sent is bytes: a code byte never exceeds 255.
THEOREM CobsTypeCorrect == SafetySpec => []TypeOK
<1>1. TypeInv => TypeOK
  BY DEF TypeInv
<1> QED
  BY <1>1, InitCobsInv, StepKeepsCobsInv, InitTypeInv, StepKeepsTypeInv,
     PTL DEF SafetySpec

-----------------------------------------------------------------------------
(* What Encode has made is decoded to what it was made of                  *)

\* The e bytes behind the code byte at p are those of the message behind r.
SameBytes(p, r, e) == \A j \in 1 .. e : encodedData[p + j] = rawData[r + j]

\* The block at p is complete; d says of every block how much of the message
\* comes before it.
ClosedBlock(d, p) ==
  \E e \in 0 .. BlockMax :
    /\ encodedData[p] = e + 1
    /\ p + 1 + e \in DOMAIN d
    /\ SameBytes(p, d[p], e)
    /\ IF StandsForZero(e)
       THEN rawData[d[p] + e + 1] = 0 /\ d[p + 1 + e] = d[p] + e + 1
       ELSE d[p + 1 + e] = d[p] + e

\* The blocks begin where d is defined.  The one at startOfBlock is the last.
Blocks(d) ==
  /\ \A p \in DOMAIN d : p \in 0 .. startOfBlock /\ d[p] \in 0 .. i
  /\ 0 \in DOMAIN d /\ d[0] = 0
  /\ startOfBlock \in DOMAIN d
  /\ encodedDataSize = startOfBlock + 1 + elementsInBlock
  /\ i = d[startOfBlock] + elementsInBlock
  /\ SameBytes(startOfBlock, d[startOfBlock], elementsInBlock)
  /\ phase # "encode" => encodedData[startOfBlock] = elementsInBlock + 1
  /\ \A p \in DOMAIN d \ {startOfBlock} : ClosedBlock(d, p)

\* Up to its position the output is the message, and behind that it is zero.
RestoredSoFar ==
  \A k \in 0 .. Capacity - 1 :
    decodedData[k] = IF k < decodedDataPos THEN rawData[k + 1] ELSE 0

\* The packet is what was encoded, all of it.
WholePacket ==
  /\ Len(packet) = encodedDataSize + 1
  /\ \A k \in 0 .. encodedDataSize : packet[k + 1] = encodedData[k]

\* Decode is at the beginning of a block, and as far in its output as Encode was
\* in the message.
Follows(d) ==
  /\ decodedDataPos \in 0 .. Len(rawData)
  /\ RestoredSoFar
  /\ phase # "done" => result = "SUCCESS"
  /\ phase \in {"decode", "done"} => WholePacket
  /\ phase = "decode" => /\ encodedDataPos \in DOMAIN d
                         /\ decodedDataPos = d[encodedDataPos]
  /\ phase = "done" /\ rawData # <<>> =>
       result = "SUCCESS" /\ decodedDataPos = Len(rawData)

RoundInv == Encodes => \E d : Blocks(d) /\ Follows(d)

LEMMA StartRoundInv == Start => RoundInv
<1> SUFFICES ASSUME Start PROVE \E d : Blocks(d) /\ Follows(d)
  BY DEF RoundInv
<1>1. /\ phase = "encode" /\ encodedDataSize = 1 /\ Len(rawData) \in Nat
      /\ i = 0 /\ startOfBlock = 0 /\ elementsInBlock = 0
      /\ decodedDataPos = 0 /\ result = "SUCCESS"
      /\ decodedData = [k \in 0 .. Capacity - 1 |-> 0]
  BY DEF Start, InitDecode
<1> DEFINE d == [p \in {0} |-> 0]
<1>2. DOMAIN d = {0} /\ d[0] = 0
  OBVIOUS
<1> HIDE DEF d
<1>3. Blocks(d)
  BY <1>1, <1>2 DEF Blocks, SameBytes
<1>4. Follows(d)
  BY <1>1, Constants DEF Follows, RestoredSoFar
<1> QED
  BY <1>3, <1>4

LEMMA InitRoundInv == Init => RoundInv
BY InitMessageIsStart, StartRoundInv DEF Init, InitNoise, RoundInv, Encodes

\* Encode leaves Decode's variables alone, so all of Follows there is stays.
LEMMA EncodeFollows ==
  ASSUME NEW d, NEW d2, Follows(d), phase = "encode", phase' \in {"encode", "line"},
         rawData' = rawData, UNCHANGED decodeVars
  PROVE  Follows(d2)'
BY DEF Follows, RestoredSoFar, decodeVars

\* A complete block stays one as long as it is not written to.
LEMMA ClosedStays ==
  ASSUME NEW d, Blocks(d), startOfBlock \in Nat, BlockMax \in Nat,
         NEW d2, DOMAIN d \subseteq DOMAIN d2, \A p \in DOMAIN d : d2[p] = d[p],
         rawData' = rawData,
         \A k \in 0 .. startOfBlock - 1 : encodedData'[k] = encodedData[k],
         NEW p \in DOMAIN d \ {startOfBlock}
  PROVE  ClosedBlock(d2, p)'
<1>1. p \in 0 .. startOfBlock - 1
  BY DEF Blocks
<1>2. PICK n \in 0 .. BlockMax :
        /\ encodedData[p] = n + 1
        /\ p + 1 + n \in DOMAIN d
        /\ SameBytes(p, d[p], n)
        /\ IF StandsForZero(n)
           THEN rawData[d[p] + n + 1] = 0 /\ d[p + 1 + n] = d[p] + n + 1
           ELSE d[p + 1 + n] = d[p] + n
  BY DEF Blocks, ClosedBlock
<1>3. p + 1 + n \in 0 .. startOfBlock
  BY <1>2 DEF Blocks
<1>4. SameBytes(p, d2[p], n)'
  <2> SUFFICES ASSUME NEW j \in 1 .. n
               PROVE  encodedData'[p + j] = rawData'[d2[p] + j]
    BY DEF SameBytes
  <2>1. p + j \in 0 .. startOfBlock - 1
    BY <1>1, <1>2, <1>3
  <2> QED
    BY <1>2, <2>1 DEF SameBytes
<1>5. encodedData'[p] = n + 1
  BY <1>1, <1>2
<1>6. /\ p + 1 + n \in DOMAIN d2
      /\ d2[p + 1 + n] = d[p + 1 + n] /\ d2[p] = d[p]
  BY <1>2
<1> QED
  BY <1>2, <1>4, <1>5, <1>6 DEF ClosedBlock, StandsForZero

\* A block is closed with e elements and the next one begins: d2 knows of both.
LEMMA CloseBlocks ==
  ASSUME CobsInv, phase = "encode", NEW d, Blocks(d), i < Len(rawData),
         NEW e \in 0 .. BlockMax, NEW size, size = startOfBlock + 1 + e,
         phase' = "encode", rawData' = rawData, i' = i + 1,
         startOfBlock' = size, encodedDataSize' = size + 1, elementsInBlock' = 0,
         encodedData'[startOfBlock] = e + 1,
         \A k \in 0 .. startOfBlock - 1 : encodedData'[k] = encodedData[k],
         \A j \in 1 .. e : encodedData'[startOfBlock + j] = rawData[d[startOfBlock] + j],
         IF StandsForZero(e) THEN rawData[i + 1] = 0 /\ i = d[startOfBlock] + e
                             ELSE i + 1 = d[startOfBlock] + e
  PROVE  \E d2 : Blocks(d2)'
<1>1. /\ i \in Nat /\ startOfBlock \in Nat /\ BlockMax \in Nat
  BY EncodeFacts, Constants
<1>2. e \in Nat /\ size \in Nat /\ size > startOfBlock
  BY <1>1
<1>3. PICK s : s = startOfBlock
  OBVIOUS
<1>4. /\ \A p \in DOMAIN d : p \in 0 .. s /\ d[p] \in 0 .. i
      /\ 0 \in DOMAIN d /\ d[0] = 0
      /\ s \in DOMAIN d
      /\ \A p \in DOMAIN d \ {s} : ClosedBlock(d, p)
  BY <1>3 DEF Blocks
<1>5. PICK d2 : /\ DOMAIN d2 = DOMAIN d \cup {size}
                /\ d2[size] = i + 1
                /\ \A p \in DOMAIN d : p # size /\ d2[p] = d[p]
  <2> DEFINE f == [p \in DOMAIN d \cup {size} |-> IF p = size THEN i + 1 ELSE d[p]]
  <2>1. /\ DOMAIN f = DOMAIN d \cup {size}
        /\ f[size] = i + 1
        /\ \A p \in DOMAIN d : p # size /\ f[p] = d[p]
    BY <1>1, <1>2, <1>3, <1>4
  <2> QED
    BY <2>1
<1>6. ASSUME NEW p \in DOMAIN d2 PROVE p \in 0 .. size /\ d2[p] \in 0 .. i + 1
  BY <1>1, <1>2, <1>3, <1>4, <1>5
<1>7. ClosedBlock(d2, s)'
  <2>1. SameBytes(s, d2[s], e)'
    BY <1>3, <1>4, <1>5 DEF SameBytes
  <2>2. s + 1 + e \in DOMAIN d2 /\ d2[s + 1 + e] = i + 1
    BY <1>3, <1>5
  <2>3. IF StandsForZero(e)
        THEN rawData'[d2[s] + e + 1] = 0 /\ d2[s + 1 + e] = d2[s] + e + 1
        ELSE d2[s + 1 + e] = d2[s] + e
    BY <1>3, <1>4, <1>5, <2>2
  <2> QED
    BY <1>3, <2>1, <2>2, <2>3 DEF ClosedBlock, StandsForZero
<1>8. ASSUME NEW p \in DOMAIN d2 \ {size, s} PROVE ClosedBlock(d2, p)'
  <2>1. p \in DOMAIN d \ {startOfBlock}
    BY <1>3, <1>5
  <2> QED
    BY <1>1, <1>3, <1>5, <2>1, ClosedStays
<1>9. Blocks(d2)'
  <2>1. \A p \in DOMAIN d2 \ {size} : ClosedBlock(d2, p)'
    BY <1>7, <1>8
  <2>2. SameBytes(startOfBlock, d2[startOfBlock], elementsInBlock)'
    BY DEF SameBytes
  <2>3. 0 \in DOMAIN d2 /\ d2[0] = 0 /\ size \in DOMAIN d2
    BY <1>4, <1>5
  <2>4. encodedDataSize' = startOfBlock' + 1 + elementsInBlock'
    BY <1>2
  <2>5. i' = d2[startOfBlock'] + elementsInBlock'
    BY <1>1, <1>5
  <2> QED
    BY <1>6, <2>1, <2>2, <2>3, <2>4, <2>5 DEF Blocks
<1> QED
  BY <1>9

\* What is known of a block that is open.
LEMMA OpenBlock ==
  ASSUME CobsInv, phase = "encode", NEW d, Blocks(d)
  PROVE  /\ startOfBlock \in Nat /\ encodedDataSize \in Nat /\ i \in Nat
         /\ elementsInBlock \in Nat /\ elementsInBlock < BlockMax
         /\ BlockMax \in Nat /\ Capacity \in Nat
         /\ encodedDataSize = startOfBlock + 1 + elementsInBlock
         /\ encodedDataSize + 1 <= Capacity
         /\ encodedData \in [0 .. Capacity - 1 -> Nat]
         /\ d[startOfBlock] \in Nat
         /\ i = d[startOfBlock] + elementsInBlock
         /\ \A j \in 1 .. elementsInBlock :
              encodedData[startOfBlock + j] = rawData[d[startOfBlock] + j]
<1>1. /\ startOfBlock \in Nat /\ encodedDataSize \in Nat /\ i \in Nat
      /\ elementsInBlock \in Nat /\ elementsInBlock < BlockMax
      /\ encodedDataSize + 1 <= Capacity
      /\ encodedData \in [0 .. Capacity - 1 -> Nat]
  BY EncodeFacts
<1>2. BlockMax \in Nat /\ Capacity \in Nat
  BY Constants
<1>3. /\ startOfBlock \in DOMAIN d
      /\ encodedDataSize = startOfBlock + 1 + elementsInBlock
      /\ i = d[startOfBlock] + elementsInBlock
      /\ \A j \in 1 .. elementsInBlock :
           encodedData[startOfBlock + j] = rawData[d[startOfBlock] + j]
  BY DEF Blocks, SameBytes
<1>4. d[startOfBlock] \in 0 .. i
  BY <1>3 DEF Blocks
<1>5. d[startOfBlock] \in Nat
  BY <1>1, <1>4
<1> QED
  BY <1>1, <1>2, <1>3, <1>5

LEMMA EncodeZeroKeepsRound == CobsInv /\ RoundInv /\ EncodeZero => RoundInv'
<1> SUFFICES ASSUME CobsInv, RoundInv, EncodeZero PROVE RoundInv'
  OBVIOUS
<1>1. /\ phase = "encode" /\ phase' = "encode" /\ rawData' = rawData
      /\ i' = i + 1 /\ i < Len(rawData) /\ rawData[i + 1] = 0
      /\ encodedData' = [encodedData EXCEPT ![startOfBlock] = elementsInBlock + 1,
                                            ![encodedDataSize] = 0]
      /\ startOfBlock' = encodedDataSize
      /\ encodedDataSize' = encodedDataSize + 1
      /\ elementsInBlock' = 0
      /\ UNCHANGED decodeVars
  BY DEF EncodeZero, CloseBlock
<1>2. PICK d : Blocks(d) /\ Follows(d)
  BY <1>1, EncodeFacts DEF RoundInv
<1>3. /\ startOfBlock \in Nat /\ encodedDataSize \in Nat
      /\ elementsInBlock \in Nat /\ elementsInBlock < BlockMax
      /\ BlockMax \in Nat /\ Capacity \in Nat
      /\ encodedDataSize = startOfBlock + 1 + elementsInBlock
      /\ encodedDataSize + 1 <= Capacity
      /\ encodedData \in [0 .. Capacity - 1 -> Nat]
      /\ i = d[startOfBlock] + elementsInBlock
      /\ \A j \in 1 .. elementsInBlock :
           encodedData[startOfBlock + j] = rawData[d[startOfBlock] + j]
  BY <1>1, <1>2, OpenBlock
<1>4. ASSUME NEW k \in 0 .. encodedDataSize - 1
      PROVE  encodedData'[k] = IF k = startOfBlock THEN elementsInBlock + 1
                                                   ELSE encodedData[k]
  <2>1. k \in 0 .. Capacity - 1 /\ k # encodedDataSize
    BY <1>3
  <2> QED
    BY <1>1, <1>3, <2>1
<1>5. /\ encodedData'[startOfBlock] = elementsInBlock + 1
      /\ \A k \in 0 .. startOfBlock - 1 : encodedData'[k] = encodedData[k]
      /\ \A j \in 1 .. elementsInBlock :
           encodedData'[startOfBlock + j] = rawData[d[startOfBlock] + j]
  <2>1. startOfBlock \in 0 .. encodedDataSize - 1
    BY <1>3
  <2>2. \A k \in 0 .. startOfBlock - 1 :
          k \in 0 .. encodedDataSize - 1 /\ k # startOfBlock
    BY <1>3
  <2>3. \A j \in 1 .. elementsInBlock :
          /\ startOfBlock + j \in 0 .. encodedDataSize - 1
          /\ startOfBlock + j # startOfBlock
    BY <1>3
  <2> QED
    BY <1>3, <1>4, <2>1, <2>2, <2>3
<1>6. \E d2 : Blocks(d2)'
  <2>1. elementsInBlock \in 0 .. BlockMax /\ StandsForZero(elementsInBlock)
    BY <1>3 DEF StandsForZero
  <2> QED
    BY <1>1, <1>2, <1>3, <1>5, <2>1, CloseBlocks
<1>7. \A d2 : Follows(d2)'
  BY <1>1, <1>2, EncodeFollows
<1> QED
  BY <1>6, <1>7 DEF RoundInv

LEMMA EncodeByteKeepsRound == CobsInv /\ RoundInv /\ EncodeByte => RoundInv'
<1> SUFFICES ASSUME CobsInv, RoundInv, EncodeByte PROVE RoundInv'
  OBVIOUS
<1> DEFINE to == [encodedData EXCEPT ![encodedDataSize] = rawData[i + 1]]
           elements == elementsInBlock + 1
<1>1. /\ phase = "encode" /\ phase' = "encode" /\ rawData' = rawData
      /\ i' = i + 1 /\ i < Len(rawData) /\ UNCHANGED decodeVars
  BY DEF EncodeByte
<1>2. PICK d : Blocks(d) /\ Follows(d)
  BY <1>1, EncodeFacts DEF RoundInv
<1>3. /\ startOfBlock \in Nat /\ encodedDataSize \in Nat /\ i \in Nat
      /\ elementsInBlock \in Nat /\ elementsInBlock < BlockMax
      /\ BlockMax \in Nat /\ Capacity \in Nat
      /\ encodedDataSize = startOfBlock + 1 + elementsInBlock
      /\ encodedDataSize + 1 <= Capacity
      /\ encodedData \in [0 .. Capacity - 1 -> Nat]
      /\ d[startOfBlock] \in Nat
      /\ i = d[startOfBlock] + elementsInBlock
      /\ \A j \in 1 .. elementsInBlock :
           encodedData[startOfBlock + j] = rawData[d[startOfBlock] + j]
  BY <1>1, <1>2, OpenBlock
<1>4. /\ \A k \in 0 .. encodedDataSize - 1 : to[k] = encodedData[k]
      /\ to[encodedDataSize] = rawData[i + 1]
      /\ DOMAIN to = 0 .. Capacity - 1
  <2>1. \A k \in 0 .. encodedDataSize - 1 :
          k \in 0 .. Capacity - 1 /\ k # encodedDataSize
    BY <1>3
  <2>2. encodedDataSize \in 0 .. Capacity - 1
    BY <1>3
  <2> QED
    BY <1>3, <2>1, <2>2
<1>5. ASSUME NEW j \in 1 .. elements
      PROVE  to[startOfBlock + j] = rawData[d[startOfBlock] + j]
  <2>1. CASE j = elements
    BY <1>3, <1>4, <2>1
  <2>2. CASE j # elements
    <3>1. j \in 1 .. elementsInBlock /\ startOfBlock + j \in 0 .. encodedDataSize - 1
      BY <1>3, <2>2
    <3> QED
      BY <1>3, <1>4, <3>1
  <2> QED
    BY <2>1, <2>2
<1>6. \A d2 : Follows(d2)'
  BY <1>1, <1>2, EncodeFollows
<1>7. CASE BlockIsFull(elements)
  <2>1. /\ encodedData' = [to EXCEPT ![startOfBlock] = elements + 1,
                                     ![encodedDataSize + 1] = 0]
        /\ startOfBlock' = encodedDataSize + 1
        /\ encodedDataSize' = encodedDataSize + 1 + 1
        /\ elementsInBlock' = 0
    <3>1. CloseBlock(to, elements, encodedDataSize + 1)
      BY <1>7 DEF EncodeByte
    <3> QED
      BY <3>1 DEF CloseBlock
  <2>2. elements = BlockMax
    BY <1>7 DEF BlockIsFull
  <2> HIDE DEF to
  <2>3. ASSUME NEW k \in 0 .. encodedDataSize
        PROVE  encodedData'[k] = IF k = startOfBlock THEN elements + 1 ELSE to[k]
    <3>1. k \in 0 .. Capacity - 1 /\ k # encodedDataSize + 1
      BY <1>3
    <3> QED
      BY <1>4, <2>1, <3>1
  <2>4. /\ encodedData'[startOfBlock] = elements + 1
        /\ \A k \in 0 .. startOfBlock - 1 : encodedData'[k] = encodedData[k]
        /\ \A j \in 1 .. elements :
             encodedData'[startOfBlock + j] = rawData[d[startOfBlock] + j]
    <3>1. startOfBlock \in 0 .. encodedDataSize
      BY <1>3
    <3>2. \A k \in 0 .. startOfBlock - 1 :
            k \in 0 .. encodedDataSize - 1 /\ k \in 0 .. encodedDataSize /\ k # startOfBlock
      BY <1>3
    <3>3. \A j \in 1 .. elements :
            startOfBlock + j \in 0 .. encodedDataSize /\ startOfBlock + j # startOfBlock
      BY <1>3
    <3> HIDE DEF elements
    <3> QED
      BY <1>4, <1>5, <2>3, <3>1, <3>2, <3>3
  <2>5. \E d2 : Blocks(d2)'
    <3>1. /\ elements \in 0 .. BlockMax /\ ~StandsForZero(elements)
          /\ encodedDataSize + 1 = startOfBlock + 1 + elements
          /\ i + 1 = d[startOfBlock] + elements
      BY <1>3, <2>2 DEF StandsForZero
    <3> HIDE DEF elements
    <3> QED
      BY <1>1, <1>2, <2>1, <2>4, <3>1, CloseBlocks
  <2> QED
    BY <1>6, <2>5 DEF RoundInv
<1>8. CASE ~BlockIsFull(elements)
  <2>1. /\ encodedData' = to
        /\ startOfBlock' = startOfBlock
        /\ encodedDataSize' = encodedDataSize + 1
        /\ elementsInBlock' = elements
    BY <1>8 DEF EncodeByte
  <2> HIDE DEF to
  <2>2. ASSUME NEW p \in DOMAIN d \ {startOfBlock} PROVE ClosedBlock(d, p)'
    <3>1. \A k \in 0 .. startOfBlock - 1 : encodedData'[k] = encodedData[k]
      <4>1. \A k \in 0 .. startOfBlock - 1 : k \in 0 .. encodedDataSize - 1
        BY <1>3
      <4> QED
        BY <1>4, <2>1, <4>1
    <3>2. DOMAIN d \subseteq DOMAIN d /\ \A q \in DOMAIN d : d[q] = d[q]
      OBVIOUS
    <3> QED
      BY <1>1, <1>2, <1>3, <3>1, <3>2, ClosedStays
  <2>3. Blocks(d)'
    <3>1. \A p \in DOMAIN d : p \in 0 .. startOfBlock' /\ d[p] \in 0 .. i'
      BY <1>1, <1>2, <1>3, <2>1 DEF Blocks
    <3>2. SameBytes(startOfBlock, d[startOfBlock], elementsInBlock)'
      BY <1>1, <1>5, <2>1 DEF SameBytes
    <3>3. /\ encodedDataSize' = startOfBlock' + 1 + elementsInBlock'
          /\ i' = d[startOfBlock'] + elementsInBlock'
      BY <1>1, <1>3, <2>1
    <3> QED
      BY <1>1, <1>2, <2>1, <2>2, <3>1, <3>2, <3>3 DEF Blocks
  <2> QED
    BY <1>6, <2>3 DEF RoundInv
<1> QED
  BY <1>7, <1>8

LEMMA EncodeEndKeepsRound == CobsInv /\ RoundInv /\ EncodeEnd => RoundInv'
<1> SUFFICES ASSUME CobsInv, RoundInv, EncodeEnd PROVE RoundInv'
  OBVIOUS
<1>1. /\ phase = "encode" /\ phase' = "line"
      /\ rawData' = rawData /\ i' = i
      /\ encodedData' = [encodedData EXCEPT ![startOfBlock] = elementsInBlock + 1,
                                            ![encodedDataSize] = 0]
      /\ startOfBlock' = startOfBlock
      /\ encodedDataSize' = encodedDataSize
      /\ elementsInBlock' = elementsInBlock
      /\ UNCHANGED decodeVars
  BY DEF EncodeEnd
<1>2. PICK d : Blocks(d) /\ Follows(d)
  BY <1>1, EncodeFacts DEF RoundInv
<1>3. /\ startOfBlock \in Nat /\ encodedDataSize \in Nat /\ i \in Nat
      /\ elementsInBlock \in Nat /\ Capacity \in Nat
      /\ encodedDataSize = startOfBlock + 1 + elementsInBlock
      /\ encodedDataSize + 1 <= Capacity
      /\ encodedData \in [0 .. Capacity - 1 -> Nat]
      /\ \A j \in 1 .. elementsInBlock :
           encodedData[startOfBlock + j] = rawData[d[startOfBlock] + j]
  BY <1>1, <1>2, OpenBlock
<1>4. ASSUME NEW k \in 0 .. encodedDataSize - 1
      PROVE  encodedData'[k] = IF k = startOfBlock THEN elementsInBlock + 1
                                                   ELSE encodedData[k]
  <2>1. k \in 0 .. Capacity - 1 /\ k # encodedDataSize
    BY <1>3
  <2> QED
    BY <1>1, <1>3, <2>1
<1>5. /\ encodedData'[startOfBlock] = elementsInBlock + 1
      /\ \A k \in 0 .. startOfBlock - 1 : encodedData'[k] = encodedData[k]
      /\ \A j \in 1 .. elementsInBlock :
           encodedData'[startOfBlock + j] = rawData[d[startOfBlock] + j]
  <2>1. startOfBlock \in 0 .. encodedDataSize - 1
    BY <1>3
  <2>2. \A k \in 0 .. startOfBlock - 1 :
          k \in 0 .. encodedDataSize - 1 /\ k # startOfBlock
    BY <1>3
  <2>3. \A j \in 1 .. elementsInBlock :
          /\ startOfBlock + j \in 0 .. encodedDataSize - 1
          /\ startOfBlock + j # startOfBlock
    BY <1>3
  <2> QED
    BY <1>3, <1>4, <2>1, <2>2, <2>3
<1>6. Blocks(d)'
  <2>1. ASSUME NEW p \in DOMAIN d \ {startOfBlock} PROVE ClosedBlock(d, p)'
    <3>1. DOMAIN d \subseteq DOMAIN d /\ \A q \in DOMAIN d : d[q] = d[q]
      OBVIOUS
    <3>2. BlockMax \in Nat
      BY Constants
    <3> QED
      BY <1>1, <1>2, <1>3, <1>5, <3>1, <3>2, ClosedStays
  <2>2. SameBytes(startOfBlock, d[startOfBlock], elementsInBlock)'
    BY <1>1, <1>5 DEF SameBytes
  <2> QED
    BY <1>1, <1>2, <1>5, <2>1, <2>2 DEF Blocks
<1>7. Follows(d)'
  BY <1>1, <1>2, EncodeFollows
<1> QED
  BY <1>6, <1>7 DEF RoundInv

\* The receiver cuts off what was encoded: the first zero is the terminator.
LEMMA WholePacketIsCut ==
  ASSUME CobsInv, Frame
  PROVE  WholePacket' /\ encodedDataPos' = 0 /\ decodedDataPos' = 0
<1>1. /\ phase = "line"
      /\ packet' = SubSeq(Encoded, 1, SelectInSeq(Encoded, LAMBDA b : b = 0))
      /\ encodedDataSize' = encodedDataSize /\ encodedData' = encodedData
      /\ encodedDataPos' = encodedDataPos /\ decodedDataPos' = decodedDataPos
  BY DEF Frame, encodeVars, decodeVars
<1>2. /\ EncoderInv /\ encodedDataSize \in Nat /\ Written /\ NoZeros
      /\ i = Len(rawData) /\ encodedData[encodedDataSize] = 0
      /\ encodedDataPos = 0 /\ decodedDataPos = 0
  BY <1>1 DEF CobsInv, EncoderInv, DecoderInv
<1>3. PICK n \in Nat : n = EncodedSize(Len(rawData))
  BY <1>1, EncodedHasZero
<1>4. /\ Encoded = [k \in 1 .. n |-> encodedData[k - 1]]
      /\ Encoded \in Seq(Nat) /\ Len(Encoded) = n
      /\ \E k \in 1 .. Len(Encoded) : Encoded[k] = 0
  BY <1>1, <1>3, EncodedHasZero
<1>5. encodedDataSize + 1 <= n
  BY <1>2, <1>3, RoomLeft
<1>6. PICK m \in 1 .. n : /\ SelectInSeq(Encoded, LAMBDA b : b = 0) = m
                          /\ Encoded[m] = 0
                          /\ \A k \in 1 .. m - 1 : Encoded[k] # 0
  BY <1>4, FirstZero
<1>7. m = encodedDataSize + 1
  <2>1. CASE m > encodedDataSize + 1
    <3>1. encodedDataSize + 1 \in 1 .. m - 1 /\ encodedDataSize + 1 \in 1 .. n
      BY <1>2, <1>5, <2>1
    <3>2. Encoded[encodedDataSize + 1] = encodedData[encodedDataSize]
      BY <1>2, <1>4, <3>1
    <3> QED
      BY <1>2, <1>6, <3>1, <3>2
  <2>2. CASE m < encodedDataSize + 1
    <3>1. m - 1 \in 0 .. encodedDataSize - 1
      BY <1>2, <2>2
    <3>2. encodedData[m - 1] = 0
      BY <1>4, <1>6
    <3> QED
      BY <1>1, <1>2, <3>1, <3>2 DEF NoZeros
  <2> QED
    BY <1>2, <2>1, <2>2
<1>8. /\ Len(packet') = m
      /\ \A k \in 1 .. m : packet'[k] = Encoded[k]
  <2>1. packet' = SubSeq(Encoded, 1, m)
    BY <1>1, <1>6
  <2> QED
    BY <1>4, <2>1, PrefixProperties
<1>9. ASSUME NEW k \in 0 .. encodedDataSize PROVE packet'[k + 1] = encodedData[k]
  <2>1. k + 1 \in 1 .. m /\ k + 1 \in 1 .. n /\ k + 1 - 1 = k
    BY <1>2, <1>5, <1>7
  <2> QED
    BY <1>4, <1>8, <2>1
<1> QED
  BY <1>1, <1>2, <1>7, <1>8, <1>9 DEF WholePacket

\* What Encode has left stays laid out as it is.
LEMMA BlocksStay ==
  ASSUME NEW d, Blocks(d), phase # "encode", rawData' = rawData,
         UNCHANGED encodeVars
  PROVE  Blocks(d)'
<1>1. /\ i' = i /\ startOfBlock' = startOfBlock
      /\ elementsInBlock' = elementsInBlock
      /\ encodedDataSize' = encodedDataSize /\ encodedData' = encodedData
  BY DEF encodeVars
<1> QED
  BY <1>1 DEF Blocks, SameBytes, ClosedBlock

LEMMA FrameKeepsRound == CobsInv /\ RoundInv /\ Frame => RoundInv'
<1> SUFFICES ASSUME CobsInv, RoundInv, Frame PROVE RoundInv'
  OBVIOUS
<1>1. /\ phase = "line" /\ phase' = "decode" /\ rawData' = rawData
      /\ UNCHANGED encodeVars
      /\ decodedData' = decodedData /\ result' = result
      /\ decodedDataPos' = decodedDataPos
  BY DEF Frame, decodeVars
<1>2. PICK d : Blocks(d) /\ Follows(d)
  BY <1>1 DEF RoundInv, CobsInv, EncoderInv
<1>3. WholePacket' /\ encodedDataPos' = 0 /\ decodedDataPos' = 0
  BY WholePacketIsCut
<1>4. Blocks(d)'
  BY <1>1, <1>2, BlocksStay
<1>5. Follows(d)'
  <2>1. RestoredSoFar'
    BY <1>1, <1>2 DEF Follows, RestoredSoFar
  <2>2. 0 \in DOMAIN d /\ d[0] = 0
    BY <1>2 DEF Blocks
  <2>3. decodedDataPos' \in 0 .. Len(rawData') /\ result' = "SUCCESS"
    BY <1>1, <1>2 DEF Follows
  <2> QED
    BY <1>1, <1>3, <2>1, <2>2, <2>3 DEF Follows
<1> QED
  BY <1>4, <1>5 DEF RoundInv

\* The block Decode is about to read, and what it makes of it.
LEMMA BlockToDecode ==
  ASSUME CobsInv, TypeInv, phase = "decode", Decodable, Encodes,
         NEW d, Blocks(d), Follows(d), NEW n, n = elementsAhead
  PROVE  /\ Copied = n /\ n \in Nat /\ decodedDataPos \in Nat
         /\ decodedDataPos <= encodedDataPos
         /\ encodedDataPos \in Nat /\ Len(rawData) \in Nat
         /\ encodedDataPos + 1 + n <= encodedDataSize
         /\ \A k \in 0 .. Capacity - 1 :
              WithBlock[k] = IF k < decodedDataPos + n THEN rawData[k + 1] ELSE 0
         /\ \/ /\ encodedDataPos + 1 + n = encodedDataSize
               /\ decodedDataPos + n = Len(rawData)
            \/ /\ encodedDataPos + 1 + n < encodedDataSize
               /\ encodedDataPos + 1 + n \in DOMAIN d
               /\ d[encodedDataPos + 1 + n] \in 0 .. Len(rawData)
               /\ IF StandsForZero(n)
                  THEN /\ rawData[decodedDataPos + n + 1] = 0
                       /\ d[encodedDataPos + 1 + n] = decodedDataPos + n + 1
                  ELSE d[encodedDataPos + 1 + n] = decodedDataPos + n
<1>1. /\ encodedDataPos \in Nat /\ decodedDataPos \in Nat
      /\ decodedDataPos <= encodedDataPos
      /\ n \in Nat
      /\ Copied = n \/ encodedDataPos + 1 + Copied = Len(packet) - 1
      /\ Copied \in Nat /\ Copied <= n
  BY BlockAhead
<1>2. /\ rawData \in Seq(Nat) /\ i = Len(rawData)
      /\ startOfBlock \in Nat /\ startOfBlock < encodedDataSize
      /\ encodedDataSize \in Nat
  BY DEF CobsInv, EncoderInv
<1>3. Len(rawData) \in Nat
  BY <1>2
<1>4. /\ encodedDataPos \in DOMAIN d /\ decodedDataPos = d[encodedDataPos]
      /\ RestoredSoFar
      /\ Len(packet) = encodedDataSize + 1
      /\ \A k \in 0 .. encodedDataSize : packet[k + 1] = encodedData[k]
  BY DEF Follows, WholePacket
<1>5. /\ encodedDataPos \in 0 .. startOfBlock
      /\ decodedDataPos \in 0 .. Len(rawData)
  BY <1>2, <1>4 DEF Blocks
<1>6. encodedData[encodedDataPos] = n + 1
  <2>1. packet[encodedDataPos + 1] = encodedData[encodedDataPos]
    BY <1>2, <1>4, <1>5
  <2>2. n = packet[encodedDataPos + 1] - 1
    BY DEF elementsAhead, ByteAt
  <2>3. packet[encodedDataPos + 1] \in Nat
    <3>1. packet \in Seq(Nat)
      BY DEF CobsInv, DecoderInv
    <3>2. encodedDataPos + 1 \in 1 .. Len(packet)
      BY <1>2, <1>4, <1>5
    <3> QED
      BY <3>1, <3>2, ElementOfSeq
  <2> QED
    BY <2>1, <2>2, <2>3
<1>7. /\ SameBytes(encodedDataPos, decodedDataPos, n)
      /\ \/ /\ encodedDataPos + 1 + n = encodedDataSize
            /\ decodedDataPos + n = Len(rawData)
         \/ /\ encodedDataPos + 1 + n < encodedDataSize
            /\ encodedDataPos + 1 + n \in DOMAIN d
            /\ d[encodedDataPos + 1 + n] \in 0 .. Len(rawData)
            /\ IF StandsForZero(n)
               THEN /\ rawData[decodedDataPos + n + 1] = 0
                    /\ d[encodedDataPos + 1 + n] = decodedDataPos + n + 1
               ELSE d[encodedDataPos + 1 + n] = decodedDataPos + n
  <2>1. CASE encodedDataPos = startOfBlock
    <3>1. /\ encodedData[startOfBlock] = elementsInBlock + 1
          /\ encodedDataSize = startOfBlock + 1 + elementsInBlock
          /\ i = d[startOfBlock] + elementsInBlock
          /\ SameBytes(startOfBlock, d[startOfBlock], elementsInBlock)
      BY DEF Blocks
    <3>2. elementsInBlock \in Nat
      BY Constants DEF CobsInv, EncoderInv
    <3>3. n = elementsInBlock
      BY <1>1, <1>6, <2>1, <3>1, <3>2
    <3> QED
      BY <1>2, <1>4, <2>1, <3>1, <3>3
  <2>2. CASE encodedDataPos # startOfBlock
    <3>1. ClosedBlock(d, encodedDataPos)
      BY <1>4, <2>2 DEF Blocks
    <3>2. PICK e \in 0 .. BlockMax :
            /\ encodedData[encodedDataPos] = e + 1
            /\ encodedDataPos + 1 + e \in DOMAIN d
            /\ SameBytes(encodedDataPos, d[encodedDataPos], e)
            /\ IF StandsForZero(e)
               THEN /\ rawData[d[encodedDataPos] + e + 1] = 0
                    /\ d[encodedDataPos + 1 + e] = d[encodedDataPos] + e + 1
               ELSE d[encodedDataPos + 1 + e] = d[encodedDataPos] + e
      BY <3>1 DEF ClosedBlock
    <3>3. n = e
      BY <1>1, <1>6, <3>2, Constants
    <3>4. /\ encodedDataPos + 1 + n \in 0 .. startOfBlock
          /\ d[encodedDataPos + 1 + n] \in 0 .. i
      BY <3>2, <3>3 DEF Blocks
    <3> QED
      BY <1>2, <1>4, <3>2, <3>3, <3>4
  <2> QED
    BY <2>1, <2>2
<1>8. encodedDataPos + 1 + n <= encodedDataSize
  BY <1>1, <1>2, <1>7
<1>9. Copied = n
  BY <1>1, <1>2, <1>4, <1>8
<1>10. ASSUME NEW k \in 0 .. Capacity - 1
       PROVE  WithBlock[k] = IF k < decodedDataPos + n THEN rawData[k + 1] ELSE 0
  <2>1. DOMAIN decodedData = 0 .. Capacity - 1
    BY DEF TypeInv, TypeOK, Array
  <2>2. decodedData[k] = IF k < decodedDataPos THEN rawData[k + 1] ELSE 0
    BY <1>4 DEF RestoredSoFar
  <2>3. CASE k \in decodedDataPos .. decodedDataPos + n - 1
    <3>1. WithBlock[k] = packet[encodedDataPos + 1 + k - decodedDataPos + 1]
      BY <1>9, <2>1, <2>3 DEF WithBlock, ByteAt
    <3>2. PICK j \in 1 .. n : j = k - decodedDataPos + 1
      BY <1>1, <2>3
    <3>3. /\ encodedDataPos + j \in 0 .. encodedDataSize
          /\ encodedDataPos + 1 + k - decodedDataPos + 1 = encodedDataPos + j + 1
          /\ decodedDataPos + j = k + 1
          /\ k < decodedDataPos + n
      BY <1>1, <1>2, <1>8, <3>2
    <3>4. packet[encodedDataPos + j + 1] = encodedData[encodedDataPos + j]
      BY <1>4, <3>3
    <3>5. encodedData[encodedDataPos + j] = rawData[decodedDataPos + j]
      BY <1>7, <3>2 DEF SameBytes
    <3> QED
      BY <3>1, <3>3, <3>4, <3>5
  <2>4. CASE k \notin decodedDataPos .. decodedDataPos + n - 1
    <3>1. WithBlock[k] = decodedData[k]
      BY <1>9, <2>1, <2>4 DEF WithBlock
    <3>2. k < decodedDataPos <=> k < decodedDataPos + n
      BY <1>1, <2>4
    <3> QED
      BY <2>2, <3>1, <3>2
  <2> QED
    BY <2>3, <2>4
<1> QED
  BY <1>1, <1>3, <1>7, <1>8, <1>9, <1>10

\* A packet that is too short was made of no message.
LEMMA ShortIsEmpty ==
  ASSUME CobsInv, phase = "decode", Encodes, NEW d, Follows(d)
  PROVE  /\ Len(packet) \in Nat /\ Len(packet) >= 2
         /\ Len(packet) < ESF_MIN_BYTES => rawData = <<>>
<1>1. /\ rawData \in Seq(Nat) /\ i = Len(rawData) /\ i \in Nat
      /\ encodedDataSize \in Nat /\ Written
      /\ elementsInBlock \in Nat
  BY Constants DEF CobsInv, EncoderInv
<1>2. Len(packet) = encodedDataSize + 1
  BY DEF Follows, WholePacket
<1>3. PICK f \in Nat : encodedDataSize = 1 + i + f
  BY <1>1 DEF Written
<1>4. Len(rawData) = 0 => rawData = <<>>
  BY <1>1
<1> QED
  BY <1>1, <1>2, <1>3, <1>4 DEF ESF_MIN_BYTES

LEMMA DecodeTooShortKeepsRound ==
  CobsInv /\ TypeInv /\ RoundInv /\ DecodeTooShort => RoundInv'
<1> SUFFICES ASSUME CobsInv, RoundInv, DecodeTooShort, Encodes'
             PROVE  \E d : (Blocks(d) /\ Follows(d))'
  BY DEF RoundInv
<1>1. /\ phase = "decode" /\ phase' = "done" /\ rawData' = rawData
      /\ UNCHANGED encodeVars /\ packet' = packet
      /\ decodedDataPos' = decodedDataPos /\ decodedData' = decodedData
      /\ Len(packet) < ESF_MIN_BYTES
  BY DEF DecodeTooShort
<1>2. Encodes
  BY <1>1 DEF Encodes, encodeVars
<1>3. PICK d : Blocks(d) /\ Follows(d)
  BY <1>2 DEF RoundInv
<1>4. Blocks(d)'
  BY <1>1, <1>3, BlocksStay
<1>5. Follows(d)'
  <2>1. rawData = <<>>
    BY <1>1, <1>2, <1>3, ShortIsEmpty
  <2> QED
    BY <1>1, <1>3, <2>1 DEF Follows, RestoredSoFar, WholePacket, encodeVars
<1> QED
  BY <1>4, <1>5

\* What was encoded is never a lone zero.
LEMMA DecodeLoneZeroKeepsRound ==
  CobsInv /\ TypeInv /\ RoundInv /\ DecodeLoneZero => RoundInv'
<1> SUFFICES ASSUME CobsInv, RoundInv, DecodeLoneZero, Encodes' PROVE FALSE
  BY DEF RoundInv
<1>1. phase = "decode" /\ Len(packet) = 1 /\ Encodes
  BY DEF DecodeLoneZero, Encodes, encodeVars
<1>2. PICK d : Blocks(d) /\ Follows(d)
  BY <1>1 DEF RoundInv
<1> QED
  BY <1>1, <1>2, ShortIsEmpty

\* No block of what was encoded runs into the terminator.
LEMMA DecodeZeroByteKeepsRound ==
  CobsInv /\ TypeInv /\ RoundInv /\ DecodeZeroByte => RoundInv'
<1> SUFFICES ASSUME CobsInv, TypeInv, RoundInv, DecodeZeroByte, Encodes'
             PROVE  FALSE
  BY DEF RoundInv
<1>1. phase = "decode" /\ Decodable /\ Copied < elementsAhead /\ Encodes
  BY DEF DecodeZeroByte, Encodes, encodeVars
<1>2. PICK d : Blocks(d) /\ Follows(d)
  BY <1>1 DEF RoundInv
<1> QED
  BY <1>1, <1>2, BlockToDecode

LEMMA DecodeBlockKeepsRound ==
  CobsInv /\ TypeInv /\ RoundInv /\ DecodeBlock => RoundInv'
<1> SUFFICES ASSUME CobsInv, TypeInv, RoundInv, DecodeBlock, Encodes'
             PROVE  \E d : (Blocks(d) /\ Follows(d))'
  BY DEF RoundInv
<1>1. PICK n : n = elementsAhead
  OBVIOUS
<1>2. /\ phase = "decode" /\ phase' = "decode" /\ rawData' = rawData
      /\ UNCHANGED encodeVars /\ packet' = packet /\ result' = result
      /\ Decodable
      /\ encodedDataPos' = encodedDataPos + 1 + n
      /\ ByteAt(encodedDataPos') # 0
  BY <1>1 DEF DecodeBlock
<1>3. Encodes
  BY <1>2 DEF Encodes, encodeVars
<1>4. PICK d : Blocks(d) /\ Follows(d)
  BY <1>3 DEF RoundInv
<1>5. /\ n \in Nat /\ decodedDataPos \in Nat
      /\ decodedDataPos <= encodedDataPos
      /\ encodedDataPos \in Nat /\ Len(rawData) \in Nat
      /\ \A k \in 0 .. Capacity - 1 :
           WithBlock[k] = IF k < decodedDataPos + n THEN rawData[k + 1] ELSE 0
  BY <1>1, <1>2, <1>3, <1>4, BlockToDecode
<1>6. WholePacket
  BY <1>2, <1>4 DEF Follows
<1>7. /\ encodedDataPos' \in DOMAIN d
      /\ d[encodedDataPos'] \in 0 .. Len(rawData)
      /\ IF StandsForZero(n)
         THEN /\ rawData[decodedDataPos + n + 1] = 0
              /\ d[encodedDataPos'] = decodedDataPos + n + 1
         ELSE d[encodedDataPos'] = decodedDataPos + n
  <2>1. encodedDataPos' # encodedDataSize
    <3>1. encodedData[encodedDataSize] = 0 /\ encodedDataSize \in Nat
      BY <1>2, <1>3 DEF CobsInv, EncoderInv
    <3>2. packet[encodedDataSize + 1] = 0
      BY <1>6, <3>1 DEF WholePacket
    <3> QED
      BY <1>2, <3>2 DEF ByteAt
  <2> QED
    BY <1>1, <1>2, <1>3, <1>4, <2>1, BlockToDecode
<1>8. decodedDataPos' = d[encodedDataPos']
  BY <1>1, <1>7 DEF DecodeBlock
<1>9. ASSUME NEW k \in 0 .. Capacity - 1
      PROVE  decodedData'[k] = IF k < decodedDataPos' THEN rawData[k + 1] ELSE 0
  <2>1. WithBlock[k] = IF k < decodedDataPos + n THEN rawData[k + 1] ELSE 0
    BY <1>5
  <2>2. CASE StandsForZero(n)
    <3>1. PICK z : /\ decodedData' = [WithBlock EXCEPT ![z] = 0]
                   /\ z = IF optimised THEN encodedDataPos' ELSE decodedDataPos + n
      BY <1>1, <2>2 DEF DecodeBlock, ZeroBetweenBlocks
    <3>2. decodedDataPos' = decodedDataPos + n + 1
      BY <1>7, <1>8, <2>2
    <3>3. z \in Nat /\ (z = decodedDataPos + n \/ z >= decodedDataPos + n + 1)
      BY <1>2, <1>5, <3>1
    <3>4. DOMAIN WithBlock = 0 .. Capacity - 1
      BY DEF WithBlock, TypeInv, TypeOK, Array
    <3>5. decodedData'[k] = IF k = z THEN 0 ELSE WithBlock[k]
      BY <3>1, <3>4
    <3>6. k = decodedDataPos + n => rawData[k + 1] = 0
      BY <1>7, <2>2
    <3> QED
      BY <1>5, <2>1, <3>2, <3>3, <3>5, <3>6
  <2>3. CASE ~StandsForZero(n)
    <3>1. decodedData' = WithBlock
      BY <1>1, <2>3 DEF DecodeBlock
    <3> QED
      BY <1>7, <1>8, <2>1, <2>3, <3>1
  <2> QED
    BY <2>2, <2>3
<1>10. Blocks(d)'
  BY <1>2, <1>4, BlocksStay
<1>11. Follows(d)'
  <2>1. WholePacket'
    BY <1>2, <1>6 DEF WholePacket, encodeVars
  <2>2. RestoredSoFar'
    BY <1>2, <1>9 DEF RestoredSoFar
  <2>3. decodedDataPos' \in 0 .. Len(rawData') /\ result' = "SUCCESS"
    BY <1>2, <1>4, <1>7, <1>8 DEF Follows
  <2> QED
    BY <1>2, <1>7, <1>8, <2>1, <2>2, <2>3 DEF Follows
<1> QED
  BY <1>10, <1>11

LEMMA DecodeLastBlockKeepsRound ==
  CobsInv /\ TypeInv /\ RoundInv /\ DecodeLastBlock => RoundInv'
<1> SUFFICES ASSUME CobsInv, TypeInv, RoundInv, DecodeLastBlock, Encodes'
             PROVE  \E d : (Blocks(d) /\ Follows(d))'
  BY DEF RoundInv
<1>1. PICK n : n = elementsAhead
  OBVIOUS
<1>2. /\ phase = "decode" /\ phase' = "done" /\ rawData' = rawData
      /\ UNCHANGED encodeVars /\ packet' = packet /\ result' = result
      /\ Decodable
      /\ encodedDataPos' = encodedDataPos + 1 + n
      /\ ByteAt(encodedDataPos') = 0
      /\ decodedData' = WithBlock
      /\ decodedDataPos' = decodedDataPos + n
  BY <1>1 DEF DecodeLastBlock
<1>3. Encodes
  BY <1>2 DEF Encodes, encodeVars
<1>4. PICK d : Blocks(d) /\ Follows(d)
  BY <1>3 DEF RoundInv
<1>5. /\ n \in Nat /\ decodedDataPos \in Nat
      /\ encodedDataPos \in Nat /\ Len(rawData) \in Nat
      /\ \A k \in 0 .. Capacity - 1 :
           WithBlock[k] = IF k < decodedDataPos + n THEN rawData[k + 1] ELSE 0
      /\ \/ decodedDataPos + n = Len(rawData)
         \/ encodedDataPos + 1 + n < encodedDataSize
  BY <1>1, <1>2, <1>3, <1>4, BlockToDecode
<1>6. WholePacket
  BY <1>2, <1>4 DEF Follows
<1>7. decodedDataPos' = Len(rawData)
  <2>1. Len(packet) = encodedDataSize + 1 /\ encodedDataSize \in Nat
    BY <1>6 DEF WholePacket, CobsInv, EncoderInv
  <2>2. encodedDataPos' + 1 \in 1 .. Len(packet)
    BY <1>1, <1>2, <1>3, <1>4, <2>1, BlockToDecode
  <2>3. \A k \in 1 .. Len(packet) : packet[k] = 0 <=> k = Len(packet)
    BY <1>2 DEF CobsInv, DecoderInv
  <2>4. encodedDataPos' + 1 = Len(packet)
    BY <1>2, <2>2, <2>3 DEF ByteAt
  <2> QED
    BY <1>2, <1>5, <2>1, <2>4
<1>8. Blocks(d)'
  BY <1>2, <1>4, BlocksStay
<1>9. Follows(d)'
  <2>1. WholePacket'
    BY <1>2, <1>6 DEF WholePacket, encodeVars
  <2>2. RestoredSoFar'
    BY <1>2, <1>5 DEF RestoredSoFar
  <2>3. result' = "SUCCESS"
    BY <1>2, <1>4 DEF Follows
  <2> QED
    BY <1>2, <1>5, <1>7, <2>1, <2>2, <2>3 DEF Follows
<1> QED
  BY <1>8, <1>9

LEMMA StepKeepsRoundInv ==
  CobsInv /\ TypeInv /\ RoundInv /\ [Next]_vars => RoundInv'
<1> SUFFICES ASSUME CobsInv, TypeInv, RoundInv, [Next]_vars PROVE RoundInv'
  OBVIOUS
<1>1. CASE UNCHANGED vars
  <2> SUFFICES ASSUME Encodes' PROVE \E d : (Blocks(d) /\ Follows(d))'
    BY DEF RoundInv
  <2>1. PICK d : Blocks(d) /\ Follows(d)
    BY <1>1 DEF vars, encodeVars, Encodes, RoundInv
  <2>2. Blocks(d)'
    BY <1>1, <2>1 DEF vars, encodeVars, Blocks, SameBytes, ClosedBlock
  <2>3. Follows(d)'
    BY <1>1, <2>1 DEF vars, encodeVars, decodeVars, Follows, RestoredSoFar, WholePacket
  <2> QED
    BY <2>2, <2>3
<1> QED
  BY <1>1, EncodeZeroKeepsRound, EncodeByteKeepsRound, EncodeEndKeepsRound,
     FrameKeepsRound, DecodeTooShortKeepsRound, DecodeLoneZeroKeepsRound,
     DecodeZeroByteKeepsRound, DecodeBlockKeepsRound, DecodeLastBlockKeepsRound
     DEF Next

-----------------------------------------------------------------------------
(* The size Decode gives its output                                        *)

\* n bytes with f full blocks: what the optimised build makes room for is never
\* more than n, as long as n is less than a block of full blocks.
LEMMA DecodedSizeFits ==
  ASSUME NEW n \in Nat, NEW f \in Nat, f * BlockMax <= n, n < BlockMax * BlockMax
  PROVE  DecodedSize(2 + n + f) \in 0 .. n
<1>1. PICK b \in Nat \ {0} : b = BlockMax
  BY Constants
<1>2. f * b <= n /\ n < b * b
  BY <1>1
<1> DEFINE m == n + f
           q == m \div b
           r == (m - q) \div b
<1>3. q \in Nat /\ m = b * q + (m % b) /\ m % b \in 0 .. b - 1 /\ q <= m
  <2>1. 0 * b <= m /\ m \in Nat
    OBVIOUS
  <2>2. q \in Nat
    BY <2>1, DivBound
  <2>3. m = b * q + (m % b) /\ m % b \in 0 .. b - 1
    BY <2>1
  <2> HIDE DEF q, m
  <2>4. PICK rest \in 0 .. b - 1 : m = b * q + rest
    BY <2>3
  <2>5. b * q >= q
    <3>1. PICK c \in Nat : b = c + 1
      <4>1. b - 1 \in Nat
        OBVIOUS
      <4> QED
        BY <4>1
    <3>2. b * q = c * q + q /\ c * q \in Nat
      BY <2>2, <3>1
    <3> QED
      BY <2>2, <3>2
  <2> QED
    BY <2>1, <2>2, <2>3, <2>4, <2>5
<1>4. f < b
  <2> SUFFICES ASSUME f >= b PROVE FALSE
    OBVIOUS
  <2>1. PICK c \in Nat : f = b + c
    <3>1. f - b \in Nat
      OBVIOUS
    <3> QED
      BY <3>1
  <2>2. f * b = b * b + c * b /\ c * b \in Nat
    BY <2>1
  <2> QED
    BY <1>2, <2>2
<1>5. q <= n + f - f * b
  <2>1. PICK s \in Nat : n = f * b + s
    <3>1. f * b \in Nat
      OBVIOUS
    <3>2. n - f * b \in Nat
      BY <1>2, <3>1
    <3> QED
      BY <3>1, <3>2
  <2>2. PICK rest \in 0 .. b - 1 : m = b * q + rest
    BY <1>3
  <2>3. m = f * b + s + f
    BY <2>1
  <2> HIDE DEF q, m
  <2> SUFFICES ASSUME q > s + f PROVE FALSE
    BY <1>3, <2>1
  <2>4. PICK c \in Nat : q = s + f + 1 + c
    <3>1. q - s - f - 1 \in Nat
      BY <1>3
    <3> QED
      BY <1>3, <3>1
  <2>5. b * q = b * s + f * b + b + b * c
    BY <2>4
  <2>6. b * c \in Nat /\ b * s \in Nat /\ f * b \in Nat
    OBVIOUS
  <2>7. b * s >= s
    <3>1. PICK e \in Nat : b = e + 1
      <4>1. b - 1 \in Nat
        OBVIOUS
      <4> QED
        BY <4>1
    <3>2. b * s = e * s + s /\ e * s \in Nat
      BY <3>1
    <3> QED
      BY <3>2
  <2> QED
    BY <1>3, <1>4, <2>2, <2>3, <2>5, <2>6, <2>7
<1>6. r \in Nat /\ f <= r /\ r <= m
  <2>1. m - q \in Nat /\ f * b <= m - q
    <3>1. f * b \in Nat /\ m \in Nat
      OBVIOUS
    <3> HIDE DEF q
    <3> QED
      BY <1>2, <1>3, <1>5, <3>1
  <2>2. PICK k \in Nat : k = m - q
    BY <2>1
  <2>3. k \div b \in Nat /\ f <= k \div b
    BY <2>1, <2>2, DivBound
  <2>4. k \div b <= k
    <3>1. PICK t \in Nat : t = k \div b
      BY <2>3
    <3>2. PICK rest \in 0 .. b - 1 : k = b * t + rest
      <4>1. k = b * (k \div b) + (k % b) /\ k % b \in 0 .. b - 1
        OBVIOUS
      <4> QED
        BY <3>1, <4>1
    <3>3. PICK c \in Nat : b = c + 1
      <4>1. b - 1 \in Nat
        OBVIOUS
      <4> QED
        BY <4>1
    <3>4. b * t = c * t + t /\ c * t \in Nat
      BY <3>3
    <3> QED
      BY <3>1, <3>2, <3>4
  <2>5. k <= m
    BY <1>3, <2>2
  <2>6. r = k \div b
    BY <2>2
  <2> HIDE DEF q, m, r
  <2> QED
    BY <1>3, <2>2, <2>3, <2>4, <2>5, <2>6
<1>7. DecodedSize(2 + n + f) = m - r
  <2>1. 2 + n + f - 2 = m
    OBVIOUS
  <2> QED
    BY <1>1, <2>1 DEF DecodedSize
<1>8. m = n + f
  OBVIOUS
<1> HIDE DEF m, r
<1> QED
  BY <1>6, <1>7, <1>8

\* What is divided into less than two whole parts is divided into one.
LEMMA DivIsOne ==
  ASSUME NEW b \in Nat \ {0}, NEW k \in Nat, b <= k, k < 2 * b
  PROVE  k \div b = 1
<1>1. PICK t : t = k \div b
  OBVIOUS
<1>2. t \in Nat /\ 1 <= t
  <2>1. 1 * b <= k
    OBVIOUS
  <2> QED
    BY <1>1, <2>1, DivBound
<1>3. PICK rest \in 0 .. b - 1 : k = b * t + rest
  <2>1. k = b * (k \div b) + (k % b) /\ k % b \in 0 .. b - 1
    OBVIOUS
  <2> QED
    BY <1>1, <2>1
<1>4. CASE t >= 2
  <2>1. PICK c \in Nat : t = c + 2
    <3>1. t - 2 \in Nat
      BY <1>2, <1>4
    <3> QED
      BY <1>2, <3>1
  <2>2. b * t = b * c + 2 * b /\ b * c \in Nat
    BY <2>1
  <2> QED
    BY <1>3, <2>2
<1> QED
  BY <1>1, <1>2, <1>4

\* For what fills no more than one block it is n.
LEMMA DecodedSizeIsExact ==
  ASSUME NEW n \in Nat, NEW f \in Nat, f * BlockMax <= n, n <= BlockMax,
         BlockMax # 1
  PROVE  DecodedSize(2 + n + f) = n
<1>1. PICK b \in Nat \ {0} : b = BlockMax /\ b >= 2
  BY Constants
<1>2. 2 + n + f - 2 = n + f
  OBVIOUS
<1>3. CASE n < b
  <2>1. f = 0
    <3>1. f <= n \div b
      BY <1>1, DivBound
    <3>2. n \div b = 0
      BY <1>3, NoFullBlock
    <3> QED
      BY <3>1, <3>2
  <2>2. n \div b = 0
    BY <1>3, NoFullBlock
  <2>3. DecodedSize(2 + n + f) = n - (n - n \div b) \div b
    BY <1>1, <1>2, <2>1 DEF DecodedSize
  <2>4. (n - n \div b) \div b = 0
    <3>1. n - n \div b = n
      BY <2>2
    <3> QED
      BY <2>2, <3>1
  <2> QED
    BY <2>3, <2>4
<1>4. CASE n = b
  <2>1. f \in {0, 1}
    <3>1. f <= n \div b
      BY <1>1, DivBound
    <3>2. n \div b = 1
      BY <1>1, <1>4, DivIsOne
    <3> QED
      BY <3>1, <3>2
  <2>2. PICK k \in Nat : k = n + f
    OBVIOUS
  <2>3. k \div b = 1
    BY <1>1, <1>4, <2>1, <2>2, DivIsOne
  <2>4. DecodedSize(2 + n + f) = k - (k - 1) \div b
    BY <1>1, <1>2, <2>2, <2>3 DEF DecodedSize
  <2>5. (k - 1) \div b = f
    <3>1. PICK c \in Nat : c = k - 1
      BY <1>1, <1>4, <2>2
    <3>2. CASE f = 0
      BY <1>1, <1>4, <2>2, <3>1, <3>2, NoFullBlock
    <3>3. CASE f = 1
      BY <1>1, <1>4, <2>2, <3>1, <3>3, DivIsOne
    <3> QED
      BY <2>1, <3>2, <3>3
  <2> QED
    BY <2>2, <2>4, <2>5
<1> QED
  BY <1>1, <1>3, <1>4

-----------------------------------------------------------------------------
(* What a decoded packet holds                                             *)

\* The model's messages are no longer than their bound.
LEMMA MessageIsBounded == SafetySpec => [](Len(rawData) <= MaxRaw)
<1>1. Init => Len(rawData) <= MaxRaw
  <2>1. ASSUME InitMessage PROVE Len(rawData) <= MaxRaw
    <3>1. RawBytes \subseteq RawBytes /\ MaxRaw \in Nat
      BY Constants
    <3> QED
      BY <2>1, <3>1, BoundedSequence DEF InitMessage
  <2>2. ASSUME InitNoise PROVE Len(rawData) <= MaxRaw
    BY <2>2, Constants DEF InitNoise
  <2> QED
    BY <2>1, <2>2 DEF Init
<1>2. Len(rawData) <= MaxRaw /\ [Next]_vars => (Len(rawData) <= MaxRaw)'
  <2>1. ASSUME [Next]_vars PROVE rawData' = rawData
    BY <2>1 DEF Next, vars, EncodeZero, EncodeByte, EncodeEnd, Frame, DecodeTooShort,
       DecodeLoneZero, DecodeZeroByte, DecodeBlock, DecodeLastBlock
  <2> QED
    BY <2>1
<1> QED
  BY <1>1, <1>2, PTL DEF SafetySpec

\* At the end the output is the message, and the packet is as long as it should be.
LEMMA MessageDecoded ==
  ASSUME CobsInv, RoundInv, phase = "done", FromEncoder, rawData # <<>>
  PROVE  /\ result = "SUCCESS" /\ decodedDataPos = Len(rawData)
         /\ rawData \in Seq(Nat) /\ Len(rawData) \in Nat
         /\ Len(rawData) <= Capacity
         /\ \A k \in 1 .. Len(rawData) : decodedData[k - 1] = rawData[k]
         /\ \E f \in Nat : /\ f * BlockMax <= Len(rawData)
                           /\ Len(packet) = 2 + Len(rawData) + f
<1>1. Encodes
  BY DEF FromEncoder, Encodes
<1>2. PICK d : Blocks(d) /\ Follows(d)
  BY <1>1 DEF RoundInv
<1>3. /\ result = "SUCCESS" /\ decodedDataPos = Len(rawData)
      /\ RestoredSoFar /\ Len(packet) = encodedDataSize + 1
  BY <1>2 DEF Follows, WholePacket
<1>4. /\ rawData \in Seq(Nat) /\ EncoderInv /\ Written
      /\ i = Len(rawData) /\ i \in Nat /\ elementsInBlock \in Nat
  BY <1>1, Constants DEF CobsInv, EncoderInv
<1>5. PICK f \in Nat : f * BlockMax + elementsInBlock <= i /\ encodedDataSize = 1 + i + f
  BY <1>4 DEF Written
<1>6. f * BlockMax <= Len(rawData) /\ Len(packet) = 2 + Len(rawData) + f
  <2>1. f * BlockMax \in Nat
    BY Constants
  <2> QED
    BY <1>3, <1>4, <1>5, <2>1
<1>7. Len(rawData) <= Capacity
  <2>1. encodedDataSize + 1 <= Capacity
    <3>1. /\ encodedDataSize + 1 <= EncodedSize(i)
          /\ EncodedSize(i) <= EncodedSize(Len(rawData))
          /\ EncodedSize(Len(rawData)) <= Capacity
          /\ EncodedSize(i) \in Nat /\ EncodedSize(Len(rawData)) \in Nat
      BY <1>4, RoomLeft
    <3>2. encodedDataSize \in Nat /\ Capacity \in Nat
      BY <1>4, <1>5, Constants
    <3> QED
      BY <3>1, <3>2
  <2> QED
    BY <1>4, <1>5, <2>1, Constants
<1>8. ASSUME NEW k \in 1 .. Len(rawData) PROVE decodedData[k - 1] = rawData[k]
  <2>1. k - 1 \in 0 .. Capacity - 1 /\ k - 1 < decodedDataPos /\ k - 1 + 1 = k
    BY <1>3, <1>4, <1>7, Constants
  <2>2. decodedData[k - 1] = rawData[k - 1 + 1]
    BY <1>3, <2>1 DEF RestoredSoFar
  <2> QED
    BY <2>1, <2>2
<1> QED
  BY <1>3, <1>4, <1>6, <1>7, <1>8

\* The first n bytes of the output are the first n of the message.
LEMMA OutputIsPrefix ==
  ASSUME rawData \in Seq(Nat), NEW n \in 0 .. Len(rawData),
         \A k \in 1 .. Len(rawData) : decodedData[k - 1] = rawData[k],
         Decoded = Contents(decodedData, n)
  PROVE  /\ IsPrefix(Decoded, rawData)
         /\ n = Len(rawData) => Decoded = rawData
<1>1. Len(rawData) \in Nat /\ n \in Nat /\ n <= Len(rawData)
  BY LenProperties
<1>2. \A k \in 1 .. n : decodedData[k - 1] = rawData[k] /\ rawData[k] \in Nat
  BY <1>1, ElementOfSeq
<1>3. PICK s : s = [k \in 1 .. n |-> decodedData[k - 1]]
  OBVIOUS
<1>4. s \in Seq(Nat) /\ Len(s) = n /\ \A k \in 1 .. n : s[k] = rawData[k]
  <2>1. \A k \in 1 .. n : s[k] = rawData[k] /\ s[k] \in Nat
    BY <1>2, <1>3
  <2>2. s \in [1 .. n -> Nat]
    <3>1. DOMAIN s = 1 .. n /\ s = [k \in DOMAIN s |-> s[k]]
      BY <1>3
    <3> QED
      BY <2>1, <3>1
  <2>3. Nat \subseteq Nat
    OBVIOUS
  <2>4. n \in 0 .. n
    BY <1>1
  <2> QED
    BY <1>1, <2>1, <2>2, <2>3, <2>4, SequenceOf
<1>5. Decoded = s
  BY <1>3 DEF Contents
<1>6. SubSeq(s, 1, n) = SubSeq(rawData, 1, n)
  BY <1>1, <1>4, SamePrefix
<1>7. IsPrefix(s, rawData)
  BY <1>1, <1>4, <1>6 DEF IsPrefix
<1>8. n = Len(rawData) => s = rawData
  BY <1>1, <1>4
<1> QED
  BY <1>5, <1>7, <1>8

LEMMA PrefixDecoded ==
  CobsInv /\ RoundInv /\ Len(rawData) < BlockMax * BlockMax => DecodesToPrefix
<1> SUFFICES ASSUME CobsInv, RoundInv, Len(rawData) < BlockMax * BlockMax,
                    phase = "done", FromEncoder, rawData # <<>>
             PROVE  result = "SUCCESS" /\ IsPrefix(Decoded, rawData)
  BY DEF DecodesToPrefix
<1>1. /\ result = "SUCCESS" /\ decodedDataPos = Len(rawData)
      /\ rawData \in Seq(Nat) /\ Len(rawData) \in Nat
      /\ \A k \in 1 .. Len(rawData) : decodedData[k - 1] = rawData[k]
  BY MessageDecoded
<1>2. PICK n \in 0 .. Len(rawData) : Decoded = Contents(decodedData, n)
  <2>1. CASE optimised
    <3>1. PICK f \in Nat : /\ f * BlockMax <= Len(rawData)
                           /\ Len(packet) = 2 + Len(rawData) + f
      BY MessageDecoded
    <3>2. DecodedSize(Len(packet)) \in 0 .. Len(rawData)
      BY <1>1, <3>1, DecodedSizeFits
    <3> QED
      BY <2>1, <3>2 DEF Decoded
  <2>2. CASE ~optimised
    BY <1>1, <2>2 DEF Decoded
  <2> QED
    BY <2>1, <2>2
<1> QED
  BY <1>1, <1>2, OutputIsPrefix

\* Every message, of whatever bytes and with however many full blocks, is decoded
\* without an error to what it was, or in the optimised build to less of it, if it
\* is shorter than a block of full blocks (254 * 254 bytes; ESF_MAX_PACKET_SIZE is
\* 1024): nothing in the packet is taken for something else.
THEOREM DecodesToTheMessage ==
  ASSUME MaxRaw < BlockMax * BlockMax
  PROVE  SafetySpec => []DecodesToPrefix
<1>1. CobsInv /\ Len(rawData) <= MaxRaw => Len(rawData) < BlockMax * BlockMax
  <2>1. CobsInv => Len(rawData) \in Nat
    BY DEF CobsInv, EncoderInv
  <2>2. BlockMax * BlockMax \in Nat /\ MaxRaw \in Nat
    BY Constants
  <2> QED
    BY <2>1, <2>2
<1> QED
  BY <1>1, PrefixDecoded, InitCobsInv, StepKeepsCobsInv, InitTypeInv,
     StepKeepsTypeInv, InitRoundInv, StepKeepsRoundInv, MessageIsBounded,
     PTL DEF SafetySpec

\* Decoding restores the message.  In the optimised build that is said only of
\* those that one block holds: of longer ones it may lose the end.
RoundTrip ==
  phase = "done" /\ FromEncoder /\ rawData # <<>>
    /\ (optimised => Len(rawData) <= BlockMax) => Restored

LEMMA MessageRestored ==
  ASSUME BlockMax # 1
  PROVE  CobsInv /\ RoundInv => RoundTrip
<1> SUFFICES ASSUME CobsInv, RoundInv, phase = "done", FromEncoder,
                    rawData # <<>>, optimised => Len(rawData) <= BlockMax
             PROVE  Restored
  BY DEF RoundTrip
<1>1. /\ result = "SUCCESS" /\ decodedDataPos = Len(rawData)
      /\ rawData \in Seq(Nat) /\ Len(rawData) \in Nat
      /\ \A k \in 1 .. Len(rawData) : decodedData[k - 1] = rawData[k]
  BY MessageDecoded
<1>2. Decoded = Contents(decodedData, Len(rawData))
  <2>1. CASE optimised
    <3>1. PICK f \in Nat : /\ f * BlockMax <= Len(rawData)
                           /\ Len(packet) = 2 + Len(rawData) + f
      BY MessageDecoded
    <3>2. DecodedSize(Len(packet)) = Len(rawData)
      BY <1>1, <2>1, <3>1, DecodedSizeIsExact
    <3> QED
      BY <2>1, <3>2 DEF Decoded
  <2>2. CASE ~optimised
    BY <1>1, <2>2 DEF Decoded
  <2> QED
    BY <2>1, <2>2
<1>3. Len(rawData) \in 0 .. Len(rawData)
  BY <1>1
<1> QED
  BY <1>1, <1>2, <1>3, OutputIsPrefix DEF Restored

\* Where the test of the transcoder (CobsEncodeDecodeTests.cpp:32) holds for every
\* message: all of them without ESF_OPTIMISE, up to a full block with it.
THEOREM DecodingRestores ==
  ASSUME BlockMax # 1
  PROVE  SafetySpec => []RoundTrip
<1> QED
  BY MessageRestored, InitCobsInv, StepKeepsCobsInv, InitTypeInv,
     StepKeepsTypeInv, InitRoundInv, StepKeepsRoundInv, PTL DEF SafetySpec

-----------------------------------------------------------------------------
(* The CRC                                                                 *)

\* s is what Crc calls sum, for the first n of these bytes.
IsSum(bytes, n, s) ==
  s = [k \in 0 .. n |->
         IF k = 0 THEN 1
         ELSE (3 * s[k - 1] + bytes[k] + 1) % ((BlockMax + 2) * (BlockMax + 2))]

\* What the sum of k bytes is made of.
NextSum(bytes, k, v) ==
  (3 * v + bytes[k] + 1) % ((BlockMax + 2) * (BlockMax + 2))

LEMMA SumExists ==
  ASSUME NEW bytes, NEW n \in Nat
  PROVE  \E s : IsSum(bytes, n, s)
<1> DEFINE I == {m \in Nat : ~ \E s : IsSum(bytes, m, s)}
<1> SUFFICES ASSUME I # {} PROVE FALSE
  OBVIOUS
<1>1. PICK m \in I : \A x \in I : m <= x
  BY MinIsLeast
<1>2. m \in Nat /\ ~ \E s : IsSum(bytes, m, s)
  OBVIOUS
<1>3. CASE m = 0
  <2> DEFINE s == [k \in 0 .. 0 |-> 1]
  <2>1. s = [k \in 0 .. 0 |-> IF k = 0 THEN 1 ELSE NextSum(bytes, k, s[k - 1])]
    BY DEF NextSum
  <2> HIDE DEF s
  <2>2. IsSum(bytes, m, s)
    BY <1>3, <2>1 DEF IsSum, NextSum
  <2> QED
    BY <1>2, <2>2
<1>4. CASE m > 0
  <2>1. m - 1 \in Nat /\ m - 1 \notin I
    BY <1>1, <1>2, <1>4
  <2>2. PICK s : IsSum(bytes, m - 1, s)
    BY <2>1
  <2>3. s = [k \in 0 .. m - 1 |-> IF k = 0 THEN 1 ELSE NextSum(bytes, k, s[k - 1])]
    BY <2>2 DEF IsSum, NextSum
  <2> DEFINE t == [k \in 0 .. m |-> IF k = m THEN NextSum(bytes, m, s[m - 1]) ELSE s[k]]
  <2>4. \A k \in 0 .. m : t[k] = IF k = 0 THEN 1 ELSE NextSum(bytes, k, t[k - 1])
    <3>1. ASSUME NEW k \in 0 .. m, k = m
          PROVE  t[k] = IF k = 0 THEN 1 ELSE NextSum(bytes, k, t[k - 1])
      <4>1. t[k] = NextSum(bytes, m, s[m - 1])
        BY <3>1
      <4>2. m - 1 \in 0 .. m /\ m - 1 # m
        BY <1>2, <1>4
      <4>3. t[m - 1] = s[m - 1]
        BY <4>2
      <4> QED
        BY <1>4, <3>1, <4>1, <4>3
    <3>2. ASSUME NEW k \in 0 .. m, k # m
          PROVE  t[k] = IF k = 0 THEN 1 ELSE NextSum(bytes, k, t[k - 1])
      <4>1. k \in 0 .. m - 1
        BY <1>2, <3>2
      <4>2. t[k] = s[k]
        BY <3>2
      <4>3. s[k] = IF k = 0 THEN 1 ELSE NextSum(bytes, k, s[k - 1])
        BY <2>3, <4>1
      <4>4. CASE k = 0
        BY <4>2, <4>3, <4>4
      <4>5. CASE k # 0
        <5>1. k - 1 \in 0 .. m /\ k - 1 # m
          BY <1>2, <4>1, <4>5
        <5>2. t[k - 1] = s[k - 1]
          BY <5>1
        <5> QED
          BY <4>2, <4>3, <4>5, <5>2
      <4> QED
        BY <4>4, <4>5
    <3> QED
      BY <3>1, <3>2
  <2>5. t = [k \in 0 .. m |-> IF k = 0 THEN 1 ELSE NextSum(bytes, k, t[k - 1])]
    <3>1. DOMAIN t = 0 .. m /\ t = [k \in DOMAIN t |-> t[k]]
      OBVIOUS
    <3> HIDE DEF t
    <3> QED
      BY <2>4, <3>1
  <2> HIDE DEF t
  <2>6. IsSum(bytes, m, t)
    BY <2>5 DEF IsSum, NextSum
  <2> QED
    BY <1>2, <2>6
<1> QED
  BY <1>2, <1>3, <1>4

\* Both bytes of the CRC are bytes, for any bytes.
LEMMA CrcIsTwoBytes ==
  ASSUME NEW bytes \in Seq(Byte)
  PROVE  \E hi \in Byte, lo \in Byte : Crc(bytes) = <<hi, lo>>
<1> DEFINE base == BlockMax + 2
           n == Len(bytes)
           s == CHOOSE f : f = [k \in 0 .. n |->
                                  IF k = 0 THEN 1
                                  ELSE (3 * f[k - 1] + bytes[k] + 1) % (base * base)]
<1>1. BlockMax \in Nat /\ base \in Nat \ {0} /\ base >= 2 /\ n \in Nat
  BY Constants
<1>2. Crc(bytes) = <<s[n] \div base, s[n] % base>>
  BY DEF Crc
<1>3. s = [k \in 0 .. n |-> IF k = 0 THEN 1 ELSE NextSum(bytes, k, s[k - 1])]
  <2>1. \E f : IsSum(bytes, n, f)
    BY <1>1, SumExists
  <2> QED
    BY <2>1 DEF IsSum, NextSum
<1> HIDE DEF s
<1>4. \A k \in 1 .. n : bytes[k] \in Nat
  BY Constants DEF Byte
<1>5. PICK m \in Nat : m = base * base /\ m >= 2
  <2>1. base * base \in Nat
    BY <1>1
  <2>2. base * base >= 2
    <3>1. PICK c \in Nat : base = c + 2
      BY Constants
    <3>2. base * base = c * c + 4 * c + 4 /\ c * c \in Nat
      BY <3>1
    <3> QED
      BY <3>1, <3>2
  <2> QED
    BY <2>1, <2>2
<1>6. \A k \in 0 .. n : s[k] \in 0 .. m - 1
  <2> DEFINE I == {k \in 0 .. n : s[k] \notin 0 .. m - 1}
  <2> SUFFICES ASSUME I # {} PROVE FALSE
    OBVIOUS
  <2>1. I \in SUBSET Nat
    OBVIOUS
  <2>2. PICK k \in I : \A x \in I : k <= x
    BY <2>1, MinIsLeast
  <2>3. k \in 0 .. n /\ s[k] \notin 0 .. m - 1
    OBVIOUS
  <2>4. CASE k = 0
    <3>1. s[k] = 1
      BY <1>3, <2>3, <2>4
    <3> QED
      BY <1>5, <2>3, <3>1
  <2>5. CASE k # 0
    <3>1. k - 1 \in 0 .. n /\ k - 1 \notin I /\ k \in 1 .. n
      BY <1>1, <2>2, <2>3, <2>5
    <3>2. s[k - 1] \in 0 .. m - 1
      BY <3>1
    <3>3. s[k] = NextSum(bytes, k, s[k - 1])
      BY <1>3, <2>3, <2>5
    <3>4. s[k] = (3 * s[k - 1] + bytes[k] + 1) % m
      BY <1>5, <3>3 DEF NextSum
    <3>5. PICK x \in Nat : x = 3 * s[k - 1] + bytes[k] + 1
      BY <1>4, <1>5, <3>1, <3>2
    <3>6. x % m \in 0 .. m - 1
      BY <1>5
    <3> QED
      BY <2>3, <3>4, <3>5, <3>6
  <2> QED
    BY <2>4, <2>5
<1>7. PICK v \in 0 .. m - 1 : v = s[n]
  BY <1>1, <1>6
<1>8. v % base \in 0 .. base - 1 /\ v = base * (v \div base) + (v % base)
  <2>1. \A x \in Nat, b \in Nat \ {0} : x % b \in 0 .. b - 1 /\ x = b * (x \div b) + (x % b)
    OBVIOUS
  <2>2. v \in Nat
    BY <1>5
  <2> HIDE DEF base
  <2> QED
    BY <1>1, <2>1, <2>2
<1>9. PICK q \in Nat : q = v \div base
  <2>1. 0 * base <= v /\ v \in Nat
    BY <1>1, <1>5, <1>7
  <2> QED
    BY <1>1, <2>1, DivBound
<1>10. q \in 0 .. base - 1
  <2> SUFFICES ASSUME q >= base PROVE FALSE
    BY <1>1
  <2>1. PICK c \in Nat : q = base + c
    <3>1. q - base \in Nat
      BY <1>1
    <3> QED
      BY <1>1, <3>1
  <2>2. PICK rest \in 0 .. base - 1 : v = base * q + rest
    BY <1>8, <1>9
  <2>3. base * q = base * base + base * c
    BY <1>1, <2>1
  <2>4. base * c \in Nat
    BY <1>1
  <2> QED
    BY <1>1, <1>5, <1>7, <2>2, <2>3, <2>4
<1>11. 0 .. base - 1 = Byte
  BY <1>1 DEF Byte
<1> QED
  BY <1>2, <1>7, <1>8, <1>9, <1>10, <1>11

-----------------------------------------------------------------------------
(* What PublishInternal builds                                             *)

\* The numbers that are types, IDs and lengths are bytes.
LEMMA PacketConstants ==
  /\ Byte = 0 .. BlockMax + 1
  /\ RawBytes \subseteq Byte
  /\ {1, 2, 3} \subseteq Byte
  /\ BlockMax \in Nat /\ BlockMax >= 2
  /\ PacketSize \in Nat
  /\ MaxTopicLength \in Byte /\ MaxTopicLength \in Nat
  /\ MaxData \in Nat
  /\ PacketSize <= Capacity
<1>1. /\ {1, 2, 3} \subseteq Byte /\ PacketSize \in Nat
      /\ MaxTopicLength \in Byte /\ MaxData \in 0 .. PacketSize
      /\ PacketSize <= MaxRaw + MaxLine + 4
  BY PacketAssumption DEF PacketAssumption
<1>2. Byte = 0 .. BlockMax + 1 /\ RawBytes \subseteq Byte
  BY CobsAssumption DEF CobsAssumption, Byte
<1>3. /\ BlockMax \in Nat \ {0} /\ MaxRaw \in Nat /\ MaxLine \in Nat
      /\ MaxData \in Nat
  BY <1>1, Constants
<1>4. BlockMax >= 2
  <2>1. 3 <= BlockMax + 1
    BY <1>1, <1>2
  <2> QED
    BY <1>3, <2>1
<1>5. PacketSize <= Capacity
  <2>1. MaxRaw \div BlockMax \in Nat
    <3>1. 0 * BlockMax <= MaxRaw
      BY <1>3
    <3> QED
      BY <1>3, <3>1, DivBound
  <2>2. Capacity = 2 + MaxRaw + MaxRaw \div BlockMax + MaxLine + 2
    BY DEF Capacity, EncodedSize
  <2> QED
    BY <1>1, <1>3, <2>1, <2>2
<1> QED
  BY <1>1, <1>2, <1>3, <1>4, <1>5

\* Where everything is in a packet before the CRC is added.
IsLayout(s, t, id, tp, d) ==
  /\ s \in Seq(Byte)
  /\ s[1] = TypeByte(t) /\ s[2] = id
  /\ IF t = "ACK"
     THEN Len(s) = 2
     ELSE /\ Len(s) = 3 + Len(tp) + Len(d)
          /\ s[3] = Len(tp)
          /\ \A k \in 1 .. Len(tp) : s[3 + k] = tp[k]
          /\ \A k \in 1 .. Len(d) : s[3 + Len(tp) + k] = d[k]

LEMMA LayoutBytes ==
  ASSUME NEW t \in PacketTypes, NEW id \in Byte, NEW tp \in Seq(Byte),
         NEW d \in Seq(Byte), Len(tp) <= MaxTopicLength,
         NEW s, s = Layout(t, id, tp, d)
  PROVE  IsLayout(s, t, id, tp, d)
<1>1. TypeByte(t) \in Byte
  BY PacketConstants DEF PacketTypes, TypeByte
<1>2. Len(tp) \in Nat /\ Len(d) \in Nat /\ Len(tp) \in Byte
  BY PacketConstants, LenProperties
<1>3. CASE t = "ACK"
  <2>1. s = <<TypeByte(t), id>>
    BY <1>3 DEF Layout
  <2>2. /\ <<TypeByte(t), id>> \in Seq(Byte) /\ Len(<<TypeByte(t), id>>) = 2
        /\ <<TypeByte(t), id>>[1] = TypeByte(t) /\ <<TypeByte(t), id>>[2] = id
    BY <1>1, Pair, Zenon
  <2> QED
    BY <1>3, <2>1, <2>2, Zenon DEF IsLayout
<1>4. CASE t # "ACK"
  <2>1. PICK h : h = <<TypeByte(t), id, Len(tp)>>
    OBVIOUS
  <2>2. /\ h \in Seq(Byte) /\ Len(h) = 3
        /\ h[1] = TypeByte(t) /\ h[2] = id /\ h[3] = Len(tp)
    BY <1>1, <1>2, <2>1, Triple
  <2>3. PICK u : u = h \o tp
    OBVIOUS
  <2>4. /\ u \in Seq(Byte) /\ Len(u) = 3 + Len(tp)
        /\ \A k \in 1 .. 3 + Len(tp) : u[k] = IF k <= 3 THEN h[k] ELSE tp[k - 3]
    <3>1. /\ h \o tp \in Seq(Byte) /\ Len(h \o tp) = Len(h) + Len(tp)
          /\ \A k \in 1 .. Len(h) + Len(tp) :
               (h \o tp)[k] = IF k <= Len(h) THEN h[k] ELSE tp[k - Len(h)]
      BY <2>2, ConcatProperties
    <3> QED
      BY <2>2, <2>3, <3>1
  <2>5. s = u \o d
    BY <1>4, <2>1, <2>3 DEF Layout
  <2>6. /\ s \in Seq(Byte) /\ Len(s) = 3 + Len(tp) + Len(d)
        /\ \A k \in 1 .. 3 + Len(tp) + Len(d) :
             s[k] = IF k <= 3 + Len(tp) THEN u[k] ELSE d[k - (3 + Len(tp))]
    <3>1. /\ u \o d \in Seq(Byte) /\ Len(u \o d) = Len(u) + Len(d)
          /\ \A k \in 1 .. Len(u) + Len(d) :
               (u \o d)[k] = IF k <= Len(u) THEN u[k] ELSE d[k - Len(u)]
      BY <2>4, ConcatProperties
    <3> QED
      BY <2>4, <2>5, <3>1
  <2>7. s[1] = TypeByte(t) /\ s[2] = id /\ s[3] = Len(tp)
    <3>1. ASSUME NEW k \in 1 .. 3 PROVE s[k] = h[k]
      <4>1. k \in 1 .. 3 + Len(tp) + Len(d) /\ k \in 1 .. 3 + Len(tp) /\ k <= 3 + Len(tp)
        BY <1>2
      <4> QED
        BY <2>4, <2>6, <4>1
    <3> QED
      BY <2>2, <3>1
  <2>8. ASSUME NEW k \in 1 .. Len(tp) PROVE s[3 + k] = tp[k]
    <3>1. /\ 3 + k \in 1 .. 3 + Len(tp) + Len(d) /\ 3 + k \in 1 .. 3 + Len(tp)
          /\ 3 + k <= 3 + Len(tp) /\ ~(3 + k <= 3) /\ 3 + k - 3 = k
      BY <1>2
    <3> QED
      BY <2>4, <2>6, <3>1
  <2>9. ASSUME NEW k \in 1 .. Len(d) PROVE s[3 + Len(tp) + k] = d[k]
    <3>1. /\ 3 + Len(tp) + k \in 1 .. 3 + Len(tp) + Len(d)
          /\ ~(3 + Len(tp) + k <= 3 + Len(tp))
          /\ 3 + Len(tp) + k - (3 + Len(tp)) = k
      BY <1>2
    <3> QED
      BY <2>6, <3>1
  <2> QED
    BY <1>4, <2>6, <2>7, <2>8, <2>9 DEF IsLayout
<1> QED
  BY <1>3, <1>4

\* The CRC comes behind the bytes it is made of.
LEMMA AddCrcBytes ==
  ASSUME NEW s \in Seq(Byte), NEW b, b = AddCrc(s)
  PROVE  /\ b \in Seq(Byte)
         /\ Len(b) = Len(s) + 2
         /\ \A k \in 1 .. Len(s) : b[k] = s[k]
         /\ SubSeq(b, 1, Len(s)) = s
         /\ SubSeq(b, Len(s) + 1, Len(s) + 2) = Crc(s)
<1>1. PICK c \in Seq(Byte) : c = Crc(s) /\ Len(c) = 2
  <2>1. PICK hi \in Byte, lo \in Byte : Crc(s) = <<hi, lo>>
    BY CrcIsTwoBytes
  <2>2. <<hi, lo>> \in Seq(Byte) /\ Len(<<hi, lo>>) = 2
    BY Pair, Zenon
  <2> QED
    BY <2>1, <2>2
<1>2. Len(s) \in Nat
  BY LenProperties
<1>3. /\ b \in Seq(Byte) /\ Len(b) = Len(s) + 2
      /\ \A k \in 1 .. Len(s) + 2 : b[k] = IF k <= Len(s) THEN s[k] ELSE c[k - Len(s)]
  BY <1>1, ConcatProperties DEF AddCrc
<1>4. \A k \in 1 .. Len(s) : b[k] = s[k] /\ b[0 + k] = s[k]
  BY <1>2, <1>3
<1>5. \A k \in 1 .. 2 : b[Len(s) + k] = c[k]
  BY <1>2, <1>3
<1>6. SubSeq(b, 0 + 1, 0 + Len(s)) = s
  <2>1. 0 + Len(s) <= Len(b) /\ 0 \in Nat
    BY <1>2, <1>3
  <2> QED
    BY <1>3, <1>4, <2>1, Slice
<1>7. SubSeq(b, Len(s) + 1, Len(s) + Len(c)) = c
  BY <1>1, <1>2, <1>3, <1>5, Slice
<1> QED
  BY <1>1, <1>2, <1>3, <1>4, <1>6, <1>7

-----------------------------------------------------------------------------
(* The inductive invariant of a packet's way                               *)

\* What PublishInternal may be called with: a Topic has only room for so much.
Published ==
  type \in PacketTypes =>
    /\ Len(topic) <= MaxTopicLength
    /\ type = "ACK" => topic = <<>> /\ data = <<>>

\* Until it is called, Encode has not begun.
NotBegun == stage = "build" => type \in PacketTypes /\ Start /\ rawData = <<>>

\* Encode is given what it has built, and that fits, or nothing.
Sent ==
  /\ rawData # <<>> => type \in PacketTypes /\ rawData = Built /\ FitsPacket(Built)
  /\ stage \in {"code", "done"} /\ type \in PacketTypes =>
       rawData = Built /\ FitsPacket(Built) /\ Encodes

PacketInv ==
  /\ CobsInv
  /\ TypeInv
  /\ RoundInv
  /\ PacketTypeOK
  /\ Published
  /\ NotBegun
  /\ Sent
  /\ MessageArrives

\* Nothing is delivered yet.
LEMMA NothingDelivered ==
  Nothing \in [type : PacketTypes \cup {"NONE"}, id : Byte,
               topic : Seq(Byte), data : Seq(Byte)]
<1>1. <<>> \in Seq(Byte) /\ 0 \in Byte
  BY Bytes
<1> QED
  BY <1>1 DEF Nothing

LEMMA InitPacketInv == PacketInit => PacketInv
<1> SUFFICES ASSUME PacketInit PROVE PacketInv
  OBVIOUS
<1>1. status \in StatusCodes
  BY DEF PacketInit, StatusCodes
<1>2. /\ delivered \in [type : PacketTypes \cup {"NONE"}, id : Byte,
                        topic : Seq(Byte), data : Seq(Byte)]
  BY NothingDelivered DEF PacketInit
<1>3. CASE PublishCalled
  <2>1. stage = "build" /\ type \in PacketTypes /\ packetId \in Byte
    BY <1>3, Bytes DEF PublishCalled
  <2>2. /\ topic \in Seq(RawBytes) /\ data \in Seq(RawBytes)
        /\ Published
    <3>1. CASE type = "ACK"
      <4>1. topic = <<>> /\ data = <<>>
        BY <1>3, <3>1 DEF PublishCalled, Topics, Data
      <4> QED
        BY <3>1, <4>1, PacketConstants DEF Published
    <3>2. CASE type # "ACK"
      <4>1. topic \in BoundedSeq(RawBytes, MaxTopicLength)
            /\ data \in BoundedSeq(RawBytes, MaxData)
        BY <1>3, <3>2 DEF PublishCalled, Topics, Data
      <4>2. RawBytes \subseteq RawBytes /\ MaxTopicLength \in Nat /\ MaxData \in Nat
        BY PacketConstants
      <4>3. topic \in Seq(RawBytes) /\ Len(topic) <= MaxTopicLength
        BY <4>1, <4>2, BoundedSequence
      <4>4. data \in Seq(RawBytes)
        BY <4>1, <4>2, BoundedSequence
      <4> QED
        BY <3>2, <4>3, <4>4 DEF Published
    <3> QED
      BY <3>1, <3>2
  <2>3. Start /\ rawData = <<>>
    <3>1. rawData = <<>> /\ rawData \in Seq(Byte) /\ Len(rawData) = 0
      BY DEF PacketInit
    <3>2. EncodedSize(0) <= Capacity
      BY Constants, EncodedSizeGrows
    <3> QED
      BY <1>3, <3>1, <3>2 DEF PacketInit, PublishCalled, Start
  <2>4. CobsInv /\ TypeInv /\ RoundInv
    BY <2>3, StartCobsInv, StartTypeInv, StartRoundInv
  <2>5. PacketTypeOK
    BY <1>1, <1>2, <2>1, <2>2, <2>4 DEF PacketTypeOK, TypeInv
  <2>6. NotBegun /\ MessageArrives
    BY <2>1, <2>3 DEF NotBegun, MessageArrives
  <2>7. Sent
    BY <2>1, <2>3, Zenon DEF Sent
  <2> QED
    BY <2>2, <2>4, <2>5, <2>6, <2>7 DEF PacketInv
<1>4. CASE LineIsNoisy
  <2>1. Init
    BY <1>4 DEF LineIsNoisy, PacketInit, Init
  <2>2. CobsInv /\ TypeInv /\ RoundInv
    BY <2>1, InitCobsInv, InitTypeInv, InitRoundInv
  <2>3. /\ stage = "code" /\ type = "NOISE" /\ packetId = 0
        /\ topic = <<>> /\ data = <<>>
    BY <1>4 DEF LineIsNoisy
  <2>4. PacketTypeOK
    BY <1>1, <1>2, <2>2, <2>3, Bytes DEF PacketTypeOK, TypeInv
  <2>5. Published /\ NotBegun /\ MessageArrives
    BY <2>3 DEF Published, NotBegun, MessageArrives, PacketTypes
  <2>6. Sent
    <3>1. rawData = <<>> /\ type \notin PacketTypes
      BY <2>3 DEF PacketInit, PacketTypes
    <3> QED
      BY <3>1, Zenon DEF Sent
  <2> QED
    BY <2>2, <2>4, <2>5, <2>6 DEF PacketInv
<1> QED
  BY <1>3, <1>4 DEF PacketInit

-----------------------------------------------------------------------------
(* PublishInternal and the transcoder preserve it                          *)

\* What PublishInternal builds is never nothing.
LEMMA BuiltBytes ==
  ASSUME PacketTypeOK, Published, type \in PacketTypes
  PROVE  /\ Built \in Seq(Byte)
         /\ Len(Built) \in Nat /\ Len(Built) >= 4
<1>0. PICK s : s = Layout(type, packetId, topic, data)
  OBVIOUS
<1>1. /\ packetId \in Byte /\ topic \in Seq(Byte) /\ data \in Seq(Byte)
      /\ Len(topic) <= MaxTopicLength
  BY Bytes, SequenceOfMore DEF PacketTypeOK, Published
<1>2. /\ s \in Seq(Byte)
      /\ IF type = "ACK" THEN Len(s) = 2 ELSE Len(s) = 3 + Len(topic) + Len(data)
  <2>1. IsLayout(s, type, packetId, topic, data)
    BY <1>0, <1>1, LayoutBytes
  <2> QED
    BY <2>1 DEF IsLayout
<1>3. Len(topic) \in Nat /\ Len(data) \in Nat /\ Len(s) \in Nat
  BY <1>1, <1>2, LenProperties
<1>4. Built = AddCrc(s)
  BY <1>0 DEF Built
<1>5. Built \in Seq(Byte) /\ Len(Built) = Len(s) + 2
  BY <1>2, <1>4, AddCrcBytes
<1>6. Len(s) >= 2
  BY <1>2, <1>3
<1>7. PICK n \in Nat : n = Len(s)
  BY <1>3
<1> QED
  BY <1>5, <1>6, <1>7

\* As long as nothing of what was published changes, what was built does not.
LEMMA SameBuilt ==
  ASSUME UNCHANGED <<type, packetId, topic, data>>
  PROVE  Built' = Built
BY DEF Built

LEMMA PublishInternalKeeps == PacketInv /\ PublishInternal => PacketInv'
<1> SUFFICES ASSUME PacketInv, PublishInternal PROVE PacketInv'
  OBVIOUS
<1>1. /\ stage = "build" /\ FitsPacket(Built) /\ rawData' = Built /\ stage' = "code"
      /\ UNCHANGED <<optimised, phase, encodeVars, packet, decodeVars>>
      /\ UNCHANGED <<type, packetId, topic, data, status, delivered>>
  BY DEF PublishInternal
<1>2. type \in PacketTypes /\ Start
  BY <1>1 DEF PacketInv, NotBegun
<1>3. Built \in Seq(Byte) /\ Len(Built) \in Nat
  BY <1>2, BuiltBytes DEF PacketInv
<1>4. EncodedSize(Len(Built)) <= Capacity
  <2>1. EncodedSize(Len(Built)) \in Nat
    BY <1>3, EncodedSizeGrows
  <2> QED
    BY <1>1, <2>1, PacketConstants, Constants DEF FitsPacket
<1>5. Start'
  BY <1>1, <1>2, <1>3, <1>4 DEF Start, InitDecode, encodeVars, decodeVars
<1>6. CobsInv' /\ TypeInv' /\ RoundInv'
  <2>1. Start' => CobsInv'
    BY StartCobsInv, PTL
  <2>2. Start' => TypeInv'
    BY StartTypeInv, PTL
  <2>3. Start' => RoundInv'
    BY StartRoundInv, PTL
  <2> QED
    BY <1>5, <2>1, <2>2, <2>3
<1>7. PacketTypeOK'
  BY <1>1, <1>6 DEF PacketInv, PacketTypeOK, TypeInv
<1>8. Built' = Built
  BY <1>1, SameBuilt
<1>9. Encodes'
  BY <1>5 DEF Start, Encodes
<1>10. Published' /\ NotBegun' /\ MessageArrives'
  BY <1>1 DEF PacketInv, Published, NotBegun, MessageArrives
<1>11. Sent'
  BY <1>1, <1>2, <1>8, <1>9 DEF Sent, FitsPacket
<1> QED
  BY <1>6, <1>7, <1>10, <1>11 DEF PacketInv

LEMMA PublishInternalOverflowsKeeps ==
  PacketInv /\ PublishInternalOverflows => PacketInv'
<1> SUFFICES ASSUME PacketInv, PublishInternalOverflows PROVE PacketInv'
  OBVIOUS
<1>1. /\ stage = "build" /\ ~FitsPacket(Built) /\ stage' = "undefined"
      /\ UNCHANGED vars
      /\ UNCHANGED <<type, packetId, topic, data, status, delivered>>
  BY DEF PublishInternalOverflows
<1>2. CobsInv' /\ TypeInv' /\ RoundInv'
  BY <1>1, StepKeepsCobsInv, StepKeepsTypeInv, StepKeepsRoundInv DEF PacketInv
<1>3. PacketTypeOK'
  BY <1>1, <1>2 DEF PacketInv, PacketTypeOK, TypeInv
<1>4. Built' = Built
  BY <1>1, SameBuilt
<1>5. MessageArrives'
  BY <1>1, <1>4 DEF MessageArrives, FitsPacket
<1>6. Published' /\ NotBegun' /\ Sent'
  BY <1>1, <1>4 DEF PacketInv, Published, NotBegun, Sent, FitsPacket, vars
<1> QED
  BY <1>2, <1>3, <1>5, <1>6 DEF PacketInv

\* Encode's output does not shrink, and none of this touches the message.
LEMMA StepKeepsMessage ==
  ASSUME CobsInv, Next
  PROVE  rawData' = rawData /\ (Encodes => Encodes')
<1>1. encodedDataSize \in Nat
  BY DEF CobsInv, EncoderInv
<1>2. rawData' = rawData
  BY DEF Next, EncodeZero, EncodeByte, EncodeEnd, Frame, DecodeTooShort,
     DecodeLoneZero, DecodeZeroByte, DecodeBlock, DecodeLastBlock
<1>3. \/ encodedDataSize' = encodedDataSize
      \/ encodedDataSize' = encodedDataSize + 1
      \/ encodedDataSize' = encodedDataSize + 1 + 1
  BY DEF Next, EncodeZero, EncodeByte, CloseBlock, EncodeEnd, Frame, DecodeTooShort,
     DecodeLoneZero, DecodeZeroByte, DecodeBlock, DecodeLastBlock, encodeVars
<1> QED
  BY <1>1, <1>2, <1>3 DEF Encodes

LEMMA TranscodeKeeps == PacketInv /\ Transcode => PacketInv'
<1> SUFFICES ASSUME PacketInv, Transcode PROVE PacketInv'
  OBVIOUS
<1>1. stage = "code" /\ Next /\ UNCHANGED packetVars
  BY DEF Transcode
<1>2. CobsInv' /\ TypeInv' /\ RoundInv'
  BY <1>1, StepKeepsCobsInv, StepKeepsTypeInv, StepKeepsRoundInv DEF PacketInv
<1>3. UNCHANGED <<stage, type, packetId, topic, data, status, delivered>>
  BY <1>1 DEF packetVars
<1>4. PacketTypeOK'
  BY <1>2, <1>3 DEF PacketInv, PacketTypeOK, TypeInv
<1>5. Built' = Built
  BY <1>3, SameBuilt
<1>6. Sent'
  <2>1. rawData' = rawData /\ (Encodes => Encodes')
    BY <1>1, StepKeepsMessage DEF PacketInv
  <2> QED
    BY <1>3, <1>5, <2>1 DEF PacketInv, Sent, FitsPacket
<1>7. Published' /\ NotBegun' /\ MessageArrives'
  BY <1>1, <1>3 DEF PacketInv, Published, NotBegun, MessageArrives
<1> QED
  BY <1>2, <1>4, <1>6, <1>7 DEF PacketInv

-----------------------------------------------------------------------------
(* GiveRxData preserves it                                                 *)

\* Division makes a natural no larger.
LEMMA DivSmaller ==
  ASSUME NEW b \in Nat \ {0}, NEW n \in Nat
  PROVE  n \div b \in 0 .. n
<1>1. PICK q \in Nat : q = n \div b
  <2>1. 0 * b <= n
    OBVIOUS
  <2> QED
    BY <2>1, DivBound
<1>2. n = b * q + (n % b) /\ n % b \in 0 .. b - 1
  BY <1>1
<1>3. PICK c \in Nat : b = c + 1
  <2>1. b - 1 \in Nat
    OBVIOUS
  <2> QED
    BY <2>1
<1>4. b * q = c * q + q /\ c * q \in Nat
  BY <1>3
<1> QED
  BY <1>1, <1>2, <1>4

\* Whatever was received, the output is given no more room than that had.
LEMMA DecodedSizeBounded ==
  ASSUME NEW n \in Nat \ {0}
  PROVE  DecodedSize(n) \in Int /\ DecodedSize(n) <= n
<1>1. PICK b \in Nat \ {0} : b = BlockMax /\ b >= 2
  BY PacketConstants
<1>2. CASE n = 1
  <2>1. PICK q \in Int : q = (-1) \div b
    OBVIOUS
  <2>2. PICK r \in 0 .. b - 1 : -1 = b * q + r
    <3>1. \A x \in Int : x % b \in 0 .. b - 1 /\ x = b * (x \div b) + (x % b)
      OBVIOUS
    <3> QED
      BY <2>1, <3>1
  <2>3. q = -1
    <3>1. b * (q + 1) = b - 1 - r
      BY <2>2
    <3>2. CASE q + 1 >= 1
      <4>1. PICK c \in Nat : q + 1 = 1 + c
        <5>1. q \in Nat
          BY <3>2
        <5> QED
          BY <5>1
      <4>2. b * (q + 1) = b + b * c /\ b * c \in Nat
        BY <4>1
      <4> QED
        BY <3>1, <4>2
    <3>3. CASE q + 1 <= -1
      <4>1. PICK c \in Nat : q = -2 - c
        <5>1. -2 - q \in Nat
          BY <3>3
        <5> QED
          BY <5>1
      <4>2. b * q = -(2 * b) - b * c /\ b * c \in Nat
        BY <4>1
      <4> QED
        BY <2>2, <4>2
    <3> QED
      BY <3>2, <3>3
  <2>4. 0 \div b = 0
    BY NoFullBlock
  <2>5. n - 2 = -1 /\ -1 - q = 0
    BY <1>2, <2>3
  <2>6. DecodedSize(n) = -1
    BY <1>1, <2>1, <2>4, <2>5 DEF DecodedSize
  <2> QED
    BY <1>2, <2>6
<1>3. CASE n # 1
  <2>1. PICK m \in Nat : m = n - 2
    <3>1. n - 2 \in Nat
      BY <1>3
    <3> QED
      BY <3>1
  <2>2. PICK q \in 0 .. m : q = m \div b
    BY DivSmaller
  <2>3. PICK c \in Nat : c = m - q
    BY <2>2
  <2>4. PICK x \in 0 .. c : x = c \div b
    BY DivSmaller
  <2>5. DecodedSize(n) = m - x
    BY <1>1, <2>1, <2>2, <2>3, <2>4 DEF DecodedSize
  <2> QED
    BY <2>1, <2>4, <2>5
<1> QED
  BY <1>2, <1>3

\* The container that Decode has filled is inside the array, and holds bytes.
LEMMA DecodedBytes ==
  ASSUME CobsInv, TypeInv, phase = "done"
  PROVE  Decoded \in Seq(Byte)
<1>1. PICK n \in Int : Decoded = Contents(decodedData, n) /\ n <= Capacity
  <2>1. packet # <<>> /\ packet \in Seq(Nat) /\ Len(packet) <= Capacity
    BY DEF CobsInv, DecoderInv, TypeInv
  <2>2. Len(packet) \in Nat \ {0}
    BY <2>1
  <2>3. CASE optimised
    <3>1. DecodedSize(Len(packet)) \in Int /\ DecodedSize(Len(packet)) <= Len(packet)
      BY <2>2, DecodedSizeBounded
    <3>2. DecodedSize(Len(packet)) <= Capacity
      BY <2>1, <2>2, <3>1, Constants
    <3> QED
      BY <2>3, <3>1, <3>2 DEF Decoded
  <2>4. CASE ~optimised
    <3>1. decodedDataPos \in Int /\ decodedDataPos <= Capacity
      BY Constants DEF TypeInv, TypeOK
    <3> QED
      BY <2>4, <3>1 DEF Decoded
  <2> QED
    BY <2>3, <2>4
<1>2. decodedData \in [0 .. Capacity - 1 -> Byte]
  BY DEF TypeInv, TypeOK, Array
<1>3. PICK m \in Nat : Decoded = [k \in 1 .. m |-> decodedData[k - 1]] /\ m <= Capacity
  <2>1. CASE n >= 0
    BY <1>1, <2>1 DEF Contents
  <2>2. CASE n < 0
    <3>1. 1 .. n = 1 .. 0
      BY <2>2
    <3>2. Decoded = [k \in 1 .. 0 |-> decodedData[k - 1]]
      BY <1>1, <3>1 DEF Contents
    <3> QED
      BY <3>2, Constants
  <2> QED
    BY <2>1, <2>2
<1>4. \A k \in 1 .. m : decodedData[k - 1] \in Byte
  BY <1>2, <1>3, Constants
<1>5. Decoded \in [1 .. m -> Byte]
  BY <1>3, <1>4
<1> QED
  BY <1>5

\* A part of a sequence that is inside it, or is empty.
LEMMA PartOf ==
  ASSUME NEW S, NEW s \in Seq(S), NEW a \in Nat \ {0}, NEW b \in Int, b <= Len(s)
  PROVE  SubSeq(s, a, b) \in Seq(S)
<1>1. Len(s) \in Nat /\ \A k \in 1 .. Len(s) : s[k] \in S
  BY ElementOfSeq
<1>2. \A k \in a .. b : s[k] \in S
  BY <1>1
<1> QED
  BY <1>2, SubSeqProperties

\* A status and what goes with it.
WellFormed(code, what) ==
  /\ code \in StatusCodes
  /\ what \in [type : PacketTypes \cup {"NONE"}, id : Byte,
               topic : Seq(Byte), data : Seq(Byte)]

\* A packet that is verified is long enough for a type and an ID.
LEMMA VerifiedBytes ==
  ASSUME PacketInv, Verified
  PROVE  /\ Decoded \in Seq(Byte)
         /\ Len(Decoded) \in Nat /\ Len(Decoded) >= 3
         /\ Decoded[1] \in Byte /\ Decoded[2] \in Byte /\ Decoded[3] \in Byte
<1>1. Decoded \in Seq(Byte)
  BY DecodedBytes DEF PacketInv, Verified, Received
<1>2. ~(Len(Decoded) < 3)
  BY DEF Verified, VerifyCrc, ESF_MIN_BYTES
<1>3. PICK s \in Seq(Byte) : s = Decoded
  BY <1>1
<1>4. Len(s) \in Nat /\ Len(s) >= 3
  BY <1>2, <1>3
<1>5. s[1] \in Byte /\ s[2] \in Byte /\ s[3] \in Byte
  BY <1>4, ElementOfSeq
<1> QED
  BY <1>3, <1>4, <1>5

LEMMA MessageWellFormed ==
  ASSUME PacketInv, Verified, topicEnd <= dataEnd, NEW t \in {"BROADCAST", "PUBLISH"},
         NEW what,
         what = [type |-> t,
                 id |-> Decoded[2],
                 topic |-> SubSeq(Decoded, 4, Min({topicEnd, 3 + MaxTopicLength})),
                 data |-> SubSeq(Decoded, topicEnd + 1, dataEnd)]
  PROVE  WellFormed("SUCCESS", what)
<1>1. PICK s \in Seq(Byte) : s = Decoded /\ Len(s) \in Nat /\ Len(s) >= 3
                             /\ s[2] \in Byte /\ s[3] \in Nat
  BY VerifiedBytes, Bytes
<1>2. topicEnd = 3 + s[3] /\ dataEnd = Len(s) - 2
  BY <1>1 DEF topicEnd, dataEnd, lengthOfTopic
<1>3. PICK e \in Nat : e = Min({topicEnd, 3 + MaxTopicLength}) /\ e <= topicEnd
  <2> DEFINE S == {topicEnd, 3 + MaxTopicLength}
  <2>1. S \in SUBSET Nat /\ S # {}
    <3>1. topicEnd \in Nat
      BY <1>1, <1>2
    <3>2. 3 + MaxTopicLength \in Nat
      BY PacketConstants
    <3> QED
      BY <3>1, <3>2
  <2>2. Min(S) \in S /\ \A y \in S : Min(S) <= y
    BY <2>1, MinIsLeast
  <2> QED
    BY <2>1, <2>2
<1>4. e <= Len(s) /\ 4 \in Nat \ {0}
  BY <1>1, <1>2, <1>3
<1>5. topicEnd + 1 \in Nat \ {0} /\ dataEnd \in Int /\ dataEnd <= Len(s)
  BY <1>1, <1>2
<1>6. SubSeq(s, 4, e) \in Seq(Byte)
  BY <1>4, PartOf
<1>7. SubSeq(s, topicEnd + 1, dataEnd) \in Seq(Byte)
  BY <1>5, PartOf
<1>8. what \in [type : PacketTypes \cup {"NONE"}, id : Byte,
               topic : Seq(Byte), data : Seq(Byte)]
  BY <1>1, <1>3, <1>6, <1>7 DEF PacketTypes
<1> QED
  BY <1>8 DEF WellFormed, StatusCodes

\* Whatever status the loop is left with, it is one of these.
LEMMA EndWellFormed ==
  ASSUME PacketInv, GiveRxData
  PROVE  \/ stage' = "undefined" /\ UNCHANGED <<vars, type, packetId, topic, data,
                                                status, delivered>>
         \/ \E code, what : WellFormed(code, what) /\ End(code, what)
<1>1. WellFormed("ERROR_UNRECOGNISED_PACKET_TYPE", Nothing)
      /\ WellFormed("ERROR_LENGTH_OF_TOPIC_TOO_LONG", Nothing)
  BY NothingDelivered DEF WellFormed, StatusCodes
<1>2. ASSUME GiveRxDataNotDecoded PROVE WellFormed(result, Nothing)
  BY <1>2, NothingDelivered DEF PacketInv, TypeInv, TypeOK, WellFormed, StatusCodes
<1>3. WellFormed(VerifyCrc, Nothing)
  BY NothingDelivered DEF VerifyCrc, WellFormed, StatusCodes
<1>4. ASSUME GiveRxDataAck
      PROVE  WellFormed("SUCCESS", [Nothing EXCEPT !.type = "ACK", !.id = Decoded[2]])
  <2>1. Decoded[2] \in Byte
    BY <1>4, VerifiedBytes DEF GiveRxDataAck
  <2>2. PICK id \in Byte : id = Decoded[2]
    BY <2>1
  <2>3. [Nothing EXCEPT !.type = "ACK", !.id = id]
          \in [type : PacketTypes \cup {"NONE"}, id : Byte,
              topic : Seq(Byte), data : Seq(Byte)]
    BY NothingDelivered DEF PacketTypes
  <2> QED
    BY <2>2, <2>3 DEF WellFormed, StatusCodes
<1>5. CASE GiveRxDataNotDecoded
  BY <1>2, <1>5 DEF GiveRxDataNotDecoded
<1>6. CASE GiveRxDataNotVerified
  BY <1>3, <1>6 DEF GiveRxDataNotVerified
<1>7. CASE GiveRxDataUnrecognised
  BY <1>1, <1>7 DEF GiveRxDataUnrecognised
<1>8. CASE GiveRxDataAck
  BY <1>4, <1>8 DEF GiveRxDataAck
<1>9. CASE GiveRxDataTopicTooLong
  BY <1>1, <1>9 DEF GiveRxDataTopicTooLong
<1>10. CASE GiveRxDataMessage
  BY <1>10, MessageWellFormed DEF GiveRxDataMessage
<1>11. CASE GiveRxDataSplitsBehindEnd
  BY <1>11 DEF GiveRxDataSplitsBehindEnd
<1> QED
  BY <1>5, <1>6, <1>7, <1>8, <1>9, <1>10, <1>11 DEF GiveRxData

\* What PublishInternal built is decoded, and verified.
LEMMA BuiltIsVerified ==
  ASSUME PacketInv, Received, type \in PacketTypes, optimised => Len(Built) <= BlockMax
  PROVE  result = "SUCCESS" /\ Decoded = Built /\ VerifyCrc = "SUCCESS"
<1>1. /\ rawData = Built /\ Encodes /\ phase = "done"
      /\ Built \in Seq(Byte) /\ Len(Built) \in Nat /\ Len(Built) >= 4
  BY BuiltBytes DEF PacketInv, Sent, Received
<1>2. result = "SUCCESS" /\ Decoded = Built
  <2>1. RoundTrip
    BY MessageRestored, PacketConstants DEF PacketInv
  <2>2. rawData # <<>>
    BY <1>1
  <2>3. FromEncoder
    BY <1>1 DEF FromEncoder, Encodes
  <2> QED
    BY <1>1, <2>1, <2>2, <2>3 DEF RoundTrip, Restored
<1>3. PICK s \in Seq(Byte) : s = Layout(type, packetId, topic, data)
  <2>1. PICK s : s = Layout(type, packetId, topic, data)
    OBVIOUS
  <2>2. IsLayout(s, type, packetId, topic, data)
    BY <2>1, LayoutBytes, Bytes, SequenceOfMore DEF PacketInv, PacketTypeOK, Published
  <2> QED
    BY <2>1, <2>2 DEF IsLayout
<1>4. PICK b : b = AddCrc(s) /\ b = Built
  BY <1>3 DEF Built
<1>5. /\ b \in Seq(Byte) /\ Len(b) = Len(s) + 2
      /\ SubSeq(b, 1, Len(s)) = s
      /\ SubSeq(b, Len(s) + 1, Len(s) + 2) = Crc(s)
  BY <1>4, AddCrcBytes
<1>6. Len(b) - 2 = Len(s) /\ ~(Len(b) < ESF_MIN_BYTES)
  BY <1>1, <1>4, <1>5 DEF ESF_MIN_BYTES
<1>7. VerifyCrc = "SUCCESS"
  BY <1>2, <1>4, <1>5, <1>6 DEF VerifyCrc
<1> QED
  BY <1>2, <1>7

\* No two types have the same byte.
LEMMA TypeBytesDiffer ==
  \A t, u \in PacketTypes : TypeByte(t) = TypeByte(u) => t = u
BY DEF PacketTypes, TypeByte

\* The bytes of what was built say what was published.
LEMMA BuiltIsSplit ==
  ASSUME PacketInv, type \in PacketTypes, Decoded = Built
  PROVE  /\ \A t \in PacketTypes : IsType(t) <=> t = type
         /\ Decoded[2] = packetId
         /\ type # "ACK" =>
              /\ ~TopicTooLong
              /\ ~(topicEnd > dataEnd)
              /\ SubSeq(Decoded, 4, Min({topicEnd, 3 + MaxTopicLength})) = topic
              /\ SubSeq(Decoded, topicEnd + 1, dataEnd) = data
<1>1. /\ packetId \in Byte /\ topic \in Seq(Byte) /\ data \in Seq(Byte)
      /\ Len(topic) <= MaxTopicLength
  BY Bytes, SequenceOfMore DEF PacketInv, PacketTypeOK, Published
<1>2. PICK s : s = Layout(type, packetId, topic, data)
  OBVIOUS
<1>3. /\ s \in Seq(Byte) /\ s[1] = TypeByte(type) /\ s[2] = packetId
      /\ IF type = "ACK"
         THEN Len(s) = 2
         ELSE /\ Len(s) = 3 + Len(topic) + Len(data)
              /\ s[3] = Len(topic)
              /\ \A k \in 1 .. Len(topic) : s[3 + k] = topic[k]
              /\ \A k \in 1 .. Len(data) : s[3 + Len(topic) + k] = data[k]
  <2>1. IsLayout(s, type, packetId, topic, data)
    BY <1>1, <1>2, LayoutBytes
  <2> QED
    BY <2>1 DEF IsLayout
<1>4. PICK b : b = AddCrc(s) /\ b = Decoded
  BY <1>2 DEF Built
<1>5. /\ b \in Seq(Byte) /\ Len(b) = Len(s) + 2
      /\ \A k \in 1 .. Len(s) : b[k] = s[k]
  BY <1>3, <1>4, AddCrcBytes
<1>6. Len(s) \in Nat /\ Len(topic) \in Nat /\ Len(data) \in Nat /\ Len(s) >= 2
  BY <1>1, <1>3, LenProperties
<1>7. b[1] = TypeByte(type) /\ b[2] = packetId
  BY <1>3, <1>5, <1>6
<1>8. ASSUME NEW t \in PacketTypes PROVE IsType(t) <=> t = type
  BY <1>4, <1>7, TypeBytesDiffer DEF IsType
<1>9. ASSUME type # "ACK"
      PROVE  /\ ~TopicTooLong
             /\ ~(topicEnd > dataEnd)
             /\ SubSeq(Decoded, 4, Min({topicEnd, 3 + MaxTopicLength})) = topic
             /\ SubSeq(Decoded, topicEnd + 1, dataEnd) = data
  <2>1. /\ Len(s) = 3 + Len(topic) + Len(data) /\ b[3] = Len(topic)
        /\ \A k \in 1 .. Len(topic) : b[3 + k] = topic[k]
        /\ \A k \in 1 .. Len(data) : b[3 + Len(topic) + k] = data[k]
    <3>1. /\ Len(s) = 3 + Len(topic) + Len(data) /\ s[3] = Len(topic)
          /\ \A k \in 1 .. Len(topic) : s[3 + k] = topic[k]
          /\ \A k \in 1 .. Len(data) : s[3 + Len(topic) + k] = data[k]
      BY <1>3, <1>9
    <3>2. b[3] = s[3]
      BY <1>5, <1>6, <3>1
    <3>3. ASSUME NEW k \in 1 .. Len(topic) PROVE b[3 + k] = topic[k]
      <4>1. 3 + k \in 1 .. Len(s)
        BY <1>6, <3>1
      <4> QED
        BY <1>5, <3>1, <4>1
    <3>4. ASSUME NEW k \in 1 .. Len(data) PROVE b[3 + Len(topic) + k] = data[k]
      <4>1. 3 + Len(topic) + k \in 1 .. Len(s)
        BY <1>6, <3>1
      <4> QED
        BY <1>5, <3>1, <4>1
    <3> QED
      BY <3>1, <3>2, <3>3, <3>4
  <2>2. /\ lengthOfTopic = Len(topic)
        /\ topicEnd = 3 + Len(topic)
        /\ dataEnd = 3 + Len(topic) + Len(data)
        /\ Len(Decoded) = 3 + Len(topic) + Len(data) + 2
    <3>1. Len(b) = 3 + Len(topic) + Len(data) + 2 /\ Len(b) - 2 = 3 + Len(topic) + Len(data)
      BY <1>5, <1>6, <2>1
    <3> QED
      BY <1>4, <2>1, <3>1 DEF lengthOfTopic, topicEnd, dataEnd
  <2>3. ~TopicTooLong
    <3>1. ~(Len(topic) > 3 + Len(topic) + Len(data) + 2 - 2 - 2)
      BY <1>6
    <3> QED
      BY <2>2, <3>1 DEF TopicTooLong
  <2>4. Min({topicEnd, 3 + MaxTopicLength}) = 3 + Len(topic)
    <3>1. PICK x \in Nat : x = 3 + Len(topic)
      BY <1>6
    <3>2. PICK y \in Nat : y = 3 + MaxTopicLength
      BY PacketConstants
    <3>3. x <= y
      BY <1>1, <1>6, <3>1, <3>2, PacketConstants
    <3>4. {x, y} \in SUBSET Nat /\ {x, y} # {}
      OBVIOUS
    <3>5. Min({x, y}) \in {x, y} /\ \A z \in {x, y} : Min({x, y}) <= z
      BY <3>4, MinIsLeast
    <3>6. Min({x, y}) = x
      BY <3>3, <3>5
    <3> QED
      BY <2>2, <3>1, <3>2, <3>6
  <2>5. SubSeq(b, 3 + 1, 3 + Len(topic)) = topic
    <3>1. 3 \in Nat /\ 3 + Len(topic) <= Len(b)
      BY <1>5, <1>6, <2>1
    <3> QED
      BY <1>1, <1>5, <2>1, <3>1, Slice
  <2>6. SubSeq(b, 3 + Len(topic) + 1, 3 + Len(topic) + Len(data)) = data
    <3>1. 3 + Len(topic) \in Nat /\ 3 + Len(topic) + Len(data) <= Len(b)
      BY <1>5, <1>6, <2>1
    <3> QED
      BY <1>1, <1>5, <2>1, <3>1, Slice
  <2>7. ~(topicEnd > dataEnd)
    BY <1>6, <2>2
  <2>8. SubSeq(Decoded, 4, Min({topicEnd, 3 + MaxTopicLength})) = topic
    <3>1. 3 + 1 = 4
      OBVIOUS
    <3> QED
      BY <1>4, <2>4, <2>5, <3>1
  <2>9. SubSeq(Decoded, topicEnd + 1, dataEnd) = data
    BY <1>4, <2>2, <2>6
  <2> QED
    BY <2>3, <2>7, <2>8, <2>9
<1> QED
  BY <1>4, <1>7, <1>8, <1>9

\* A message of ours is delivered as it was published, and in no other way.
LEMMA OwnMessageArrives ==
  ASSUME PacketInv, GiveRxData, type \in PacketTypes, optimised => Len(Built) <= BlockMax
  PROVE  End("SUCCESS", [type |-> type, id |-> packetId, topic |-> topic, data |-> data])
<1>1. Received
  BY DEF GiveRxData, GiveRxDataNotDecoded, GiveRxDataNotVerified,
     GiveRxDataUnrecognised, GiveRxDataAck, GiveRxDataTopicTooLong,
     GiveRxDataMessage, GiveRxDataSplitsBehindEnd, Verified
<1>2. result = "SUCCESS" /\ Decoded = Built /\ VerifyCrc = "SUCCESS"
  BY <1>1, BuiltIsVerified
<1>3. /\ \A t \in PacketTypes : IsType(t) <=> t = type
      /\ Decoded[2] = packetId
      /\ type # "ACK" =>
           /\ ~TopicTooLong
           /\ ~(topicEnd > dataEnd)
           /\ SubSeq(Decoded, 4, Min({topicEnd, 3 + MaxTopicLength})) = topic
           /\ SubSeq(Decoded, topicEnd + 1, dataEnd) = data
  BY <1>2, BuiltIsSplit
<1>4. ~GiveRxDataNotDecoded /\ ~GiveRxDataNotVerified
  BY <1>2 DEF GiveRxDataNotDecoded, GiveRxDataNotVerified
<1>5. ~GiveRxDataUnrecognised
  BY <1>3 DEF GiveRxDataUnrecognised
<1>6. {"ACK", "BROADCAST", "PUBLISH"} = PacketTypes
  BY DEF PacketTypes
<1>7. ~GiveRxDataTopicTooLong /\ ~GiveRxDataSplitsBehindEnd
  <2>1. IsType("BROADCAST") \/ IsType("PUBLISH") => type # "ACK"
    BY <1>3, <1>6
  <2> QED
    BY <1>3, <2>1 DEF GiveRxDataTopicTooLong, GiveRxDataSplitsBehindEnd
<1>8. CASE GiveRxDataAck
  <2>1. type = "ACK"
    BY <1>3, <1>6, <1>8 DEF GiveRxDataAck
  <2>2. topic = <<>> /\ data = <<>>
    BY <2>1 DEF PacketInv, Published
  <2>3. PICK r : r = [Nothing EXCEPT !.type = "ACK", !.id = packetId]
    OBVIOUS
  <2>4. r = [type |-> "ACK", id |-> packetId, topic |-> <<>>, data |-> <<>>]
    BY <2>3 DEF Nothing
  <2> QED
    BY <1>3, <1>8, <2>1, <2>2, <2>3, <2>4 DEF GiveRxDataAck
<1>9. CASE GiveRxDataMessage
  <2>1. PICK t \in {"BROADCAST", "PUBLISH"} :
          /\ IsType(t)
          /\ End("SUCCESS",
                 [type |-> t,
                  id |-> Decoded[2],
                  topic |-> SubSeq(Decoded, 4, Min({topicEnd, 3 + MaxTopicLength})),
                  data |-> SubSeq(Decoded, topicEnd + 1, dataEnd)])
    BY <1>9 DEF GiveRxDataMessage
  <2>2. t = type /\ type # "ACK"
    BY <1>3, <1>6, <2>1
  <2> QED
    BY <1>3, <2>1, <2>2
<1> QED
  BY <1>4, <1>5, <1>7, <1>8, <1>9 DEF GiveRxData

LEMMA GiveRxDataKeeps == PacketInv /\ GiveRxData => PacketInv'
<1> SUFFICES ASSUME PacketInv, GiveRxData PROVE PacketInv'
  OBVIOUS
<1>1. /\ UNCHANGED vars /\ UNCHANGED <<type, packetId, topic, data>>
      /\ stage = "code" /\ stage' \in {"done", "undefined"}
  BY DEF GiveRxData, GiveRxDataNotDecoded, GiveRxDataNotVerified,
     GiveRxDataUnrecognised, GiveRxDataAck, GiveRxDataTopicTooLong,
     GiveRxDataMessage, GiveRxDataSplitsBehindEnd, Verified, Received, End
<1>2. CobsInv' /\ TypeInv' /\ RoundInv'
  BY <1>1, StepKeepsCobsInv, StepKeepsTypeInv, StepKeepsRoundInv DEF PacketInv
<1>3. PacketTypeOK'
  <2>1. /\ status' \in StatusCodes
        /\ delivered' \in [type : PacketTypes \cup {"NONE"}, id : Byte,
                           topic : Seq(Byte), data : Seq(Byte)]
    BY EndWellFormed DEF PacketInv, PacketTypeOK, End, WellFormed
  <2> QED
    BY <1>1, <1>2, <2>1 DEF PacketInv, PacketTypeOK, TypeInv
<1>4. Built' = Built
  BY <1>1, SameBuilt
<1>5. Published' /\ NotBegun'
  BY <1>1 DEF PacketInv, Published, NotBegun
<1>6. Sent'
  BY <1>1, <1>4 DEF PacketInv, Sent, FitsPacket, Encodes, vars, encodeVars
<1>7. MessageArrives'
  <2> SUFFICES ASSUME type \in PacketTypes, optimised => Len(Built) <= BlockMax
               PROVE  /\ stage' = "done" /\ status' = "SUCCESS"
                      /\ delivered' = [type |-> type, id |-> packetId,
                                       topic |-> topic, data |-> data]
    BY <1>1, <1>4 DEF MessageArrives, vars
  <2> QED
    BY OwnMessageArrives DEF End
<1> QED
  BY <1>2, <1>3, <1>5, <1>6, <1>7 DEF PacketInv

-----------------------------------------------------------------------------
(* The theorems about packets                                              *)

LEMMA StepKeepsPacketInv == PacketInv /\ [PacketNext]_allVars => PacketInv'
<1> SUFFICES ASSUME PacketInv, [PacketNext]_allVars PROVE PacketInv'
  OBVIOUS
<1>1. CASE UNCHANGED allVars
  <2>1. UNCHANGED vars /\ UNCHANGED <<stage, type, packetId, topic, data, status, delivered>>
    BY <1>1 DEF allVars, packetVars
  <2>2. CobsInv' /\ TypeInv' /\ RoundInv'
    BY <2>1, StepKeepsCobsInv, StepKeepsTypeInv, StepKeepsRoundInv DEF PacketInv
  <2>3. PacketTypeOK'
    BY <2>1, <2>2 DEF PacketInv, PacketTypeOK, TypeInv
  <2>4. Built' = Built
    BY <2>1, SameBuilt
  <2>5. Published' /\ MessageArrives'
    BY <2>1, <2>4 DEF PacketInv, Published, MessageArrives, vars
  <2>6. Sent'
    BY <2>1, <2>4 DEF PacketInv, Sent, FitsPacket, Encodes, vars, encodeVars
  <2>7. NotBegun'
    BY <2>1 DEF PacketInv, NotBegun, Start, InitDecode, vars, encodeVars, decodeVars
  <2> QED
    BY <2>2, <2>3, <2>5, <2>6, <2>7 DEF PacketInv
<1> QED
  BY <1>1, PublishInternalKeeps, PublishInternalOverflowsKeeps, TranscodeKeeps,
     GiveRxDataKeeps DEF PacketNext

\* The invariant that all of the following is drawn from.
LEMMA PacketInvAlways == PacketSpec => []PacketInv
BY InitPacketInv, StepKeepsPacketInv, PTL DEF PacketSpec

\* What is built, sent and delivered is made of bytes, whatever came in, and
\* the loop of GiveRxData is left with one of its status codes.
THEOREM PacketTypeCorrect == PacketSpec => []PacketTypeOK
<1>1. PacketInv => PacketTypeOK
  BY DEF PacketInv
<1> QED
  BY <1>1, PacketInvAlways, PTL

\* Whatever type, ID, topic and data PublishInternal is given, the other node acts
\* upon just that, provided that the encoded packet fits and, with ESF_OPTIMISE, is
\* made of one block: the CRC is found right, the type recognised, and the topic
\* cut off where it ends.
THEOREM MessageAlwaysArrives == PacketSpec => []MessageArrives
<1>1. PacketInv => MessageArrives
  BY DEF PacketInv
<1> QED
  BY <1>1, PacketInvAlways, PTL

\* On the way of a packet, too, Encode and Decode stay inside their containers,
\* and a packet of less than a block's bytes has one zero, behind its end.
THEOREM PacketsStayInBounds ==
  PacketSpec => [](EncodeInBounds /\ DecodeInBounds /\ UniqueZero)
<1>1. PacketInv => EncodeInBounds /\ DecodeInBounds /\ UniqueZero
  BY EncodeBounded, DecodeBounded, ZeroIsLast DEF PacketInv
<1> QED
  BY <1>1, PacketInvAlways, PTL

\* The bytes of a packet come out of the transcoder as they went in, or in the
\* optimised build with some missing at the end, if ESF_MAX_PACKET_SIZE is no more
\* than a block of full blocks.
THEOREM PacketsAreDecoded ==
  ASSUME PacketSize <= BlockMax * BlockMax
  PROVE  PacketSpec => []DecodesToPrefix
<1>1. PacketInv => DecodesToPrefix
  <2> SUFFICES ASSUME PacketInv, rawData # <<>> PROVE DecodesToPrefix
    BY DEF DecodesToPrefix
  <2>1. type \in PacketTypes /\ rawData = Built /\ FitsPacket(Built)
    BY DEF PacketInv, Sent
  <2>2. PICK n \in Nat : n = Len(rawData)
    BY <2>1, BuiltBytes DEF PacketInv
  <2>3. n \div BlockMax \in Nat
    BY Constants, DivSmaller
  <2>4. n + 2 <= PacketSize
    BY <2>1, <2>2, <2>3, PacketConstants DEF FitsPacket, EncodedSize
  <2>5. BlockMax * BlockMax \in Nat
    BY Constants
  <2>6. n < BlockMax * BlockMax
    BY <2>4, <2>5, PacketConstants
  <2> QED
    BY <2>2, <2>6, PrefixDecoded DEF PacketInv
<1> QED
  BY <1>1, PacketInvAlways, PTL
=============================================================================
