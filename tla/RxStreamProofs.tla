---------------------------- MODULE RxStreamProofs ----------------------------
(***************************************************************************)
(* Proofs about RxStream, for any number of packets of any length, any     *)
(* buffer size, any loss and any way to cut the bytes into chunks: type    *)
(* correctness, packets in order and none twice, recovery with the next    *)
(* zero, and no byte dropped in silence.                                   *)
(*                                                                         *)
(* The inductive invariant, StreamInv, says where the bytes are: those on  *)
(* the line come behind those in rxData, these behind those in rxBuffer_,  *)
(* which has no zero, and so on (OrderInv, GoneInv), and a packet that     *)
(* nothing has touched is delivered, at hand or still ahead (ReceiveInv).  *)
(***************************************************************************)
EXTENDS RxStream, SequenceLemmas, TLAPS, SequenceTheorems, FiniteSetTheorems

-----------------------------------------------------------------------------
(* The order of the bytes                                                  *)

LEMMA Constants ==
  /\ NumFrames \in Nat
  /\ FrameLength \in Nat /\ FrameLength >= 1
  /\ BufferSize \in Nat /\ BufferSize >= 1
  /\ RejectOptions \subseteq BOOLEAN
BY RxStreamAssumption

\* A byte is known by its packet and its place there.
LEMMA ByteFields ==
  /\ \A b \in Bytes : /\ b.frame \in Nat /\ 1 <= b.frame /\ b.frame <= NumFrames
                      /\ b.pos \in Nat /\ 1 <= b.pos /\ b.pos <= FrameLength
  /\ \A a, b \in Bytes : a.frame = b.frame /\ a.pos = b.pos => a = b
  /\ \A f \in Frames, p \in 1 .. FrameLength : [frame |-> f, pos |-> p] \in Bytes
<1>1. \A b \in Bytes : b = [frame |-> b.frame, pos |-> b.pos]
  BY DEF Bytes
<1> QED
  BY <1>1, Constants DEF Bytes, Frames

\* "Sent before" is a strict order.
LEMMA BeforeIsOrder ==
  ASSUME NEW a \in Bytes, NEW b \in Bytes, NEW c \in Bytes
  PROVE  /\ ~Before(a, a)
         /\ Before(a, b) => ~Before(b, a)
         /\ Before(a, b) /\ Before(b, c) => Before(a, c)
         /\ a # b => Before(a, b) \/ Before(b, a)
BY ByteFields DEF Before

\* Both parts of a sequence in order are in order, one before the other.
LEMMA InOrderCut ==
  ASSUME NEW s \in Seq(Bytes), InOrder(s), NEW n \in 0 .. Len(s)
  PROVE  /\ InOrder(SubSeq(s, 1, n))
         /\ InOrder(SubSeq(s, n + 1, Len(s)))
         /\ \A a \in ToSet(SubSeq(s, 1, n)),
               b \in ToSet(SubSeq(s, n + 1, Len(s))) : Before(a, b)
<1> DEFINE x == SubSeq(s, 1, n)
           y == SubSeq(s, n + 1, Len(s))
<1>1. /\ x \in Seq(Bytes) /\ Len(x) = n
      /\ \A k \in 1 .. n : x[k] = s[k]
      /\ y \in Seq(Bytes) /\ Len(y) = Len(s) - n
      /\ \A k \in 1 .. Len(s) - n : y[k] = s[n + k]
      /\ Len(s) \in Nat
  BY CutProperties, LenProperties
<1> HIDE DEF x, y
<1>2. InOrder(x)
  BY <1>1 DEF InOrder
<1>3. InOrder(y)
  <2> SUFFICES ASSUME NEW j \in 1 .. Len(y), NEW k \in 1 .. Len(y), j < k
               PROVE  Before(y[j], y[k])
    BY DEF InOrder
  <2>1. n + j \in 1 .. Len(s) /\ n + k \in 1 .. Len(s) /\ n + j < n + k
    BY <1>1
  <2>2. Before(s[n + j], s[n + k])
    BY <2>1 DEF InOrder
  <2> QED
    BY <1>1, <2>2
<1>4. ASSUME NEW a \in ToSet(x), NEW b \in ToSet(y)
      PROVE  Before(a, b)
  <2>1. PICK j \in 1 .. Len(x) : a = x[j]
    BY <1>1, ToSetIff
  <2>2. PICK k \in 1 .. Len(y) : b = y[k]
    BY <1>1, ToSetIff
  <2>3. j \in 1 .. Len(s) /\ n + k \in 1 .. Len(s) /\ j < n + k
    BY <1>1
  <2>4. Before(s[j], s[n + k])
    BY <2>3 DEF InOrder
  <2> QED
    BY <1>1, <2>1, <2>2, <2>4
<1> QED
  BY <1>2, <1>3, <1>4 DEF x, y

\* Two sequences in order, one before the other, are one in order.
LEMMA InOrderConcat ==
  ASSUME NEW s \in Seq(Bytes), NEW t \in Seq(Bytes), InOrder(s), InOrder(t),
         \A a \in ToSet(s), b \in ToSet(t) : Before(a, b)
  PROVE  InOrder(s \o t)
<1> DEFINE c == s \o t
<1>1. /\ c \in Seq(Bytes) /\ Len(c) = Len(s) + Len(t)
      /\ \A k \in 1 .. Len(s) + Len(t) :
           c[k] = IF k <= Len(s) THEN s[k] ELSE t[k - Len(s)]
      /\ Len(s) \in Nat /\ Len(t) \in Nat
  BY ConcatProperties, LenProperties
<1> HIDE DEF c
<1>2. ASSUME NEW j \in 1 .. Len(c), NEW k \in 1 .. Len(c), j < k
      PROVE  Before(c[j], c[k])
  <2>1. CASE k <= Len(s)
    <3>1. j \in 1 .. Len(s) /\ k \in 1 .. Len(s) /\ c[j] = s[j] /\ c[k] = s[k]
      BY <1>1, <1>2, <2>1
    <3> QED
      BY <1>2, <3>1 DEF InOrder
  <2>2. CASE j > Len(s)
    <3>1. /\ j - Len(s) \in 1 .. Len(t) /\ k - Len(s) \in 1 .. Len(t)
          /\ j - Len(s) < k - Len(s)
      BY <1>1, <1>2, <2>2
    <3>2. c[j] = t[j - Len(s)] /\ c[k] = t[k - Len(s)]
      BY <1>1, <1>2, <2>2
    <3> QED
      BY <3>1, <3>2 DEF InOrder
  <2>3. CASE j <= Len(s) /\ k > Len(s)
    <3>1. j \in 1 .. Len(s) /\ k - Len(s) \in 1 .. Len(t)
      BY <1>1, <1>2, <2>3
    <3>2. c[j] = s[j] /\ c[k] = t[k - Len(s)]
      BY <1>1, <1>2, <2>3
    <3>3. c[j] \in ToSet(s) /\ c[k] \in ToSet(t)
      BY <3>1, <3>2, ToSetIff
    <3> QED
      BY <3>3
  <2> QED
    BY <1>1, <2>1, <2>2, <2>3
<1> QED
  BY <1>2 DEF InOrder, c

\* In order, and with all the bytes of packet f and no others: that is packet f.
LEMMA InOrderIsFrame ==
  ASSUME NEW s \in Seq(Bytes), InOrder(s), NEW f \in Frames,
         ToSet(s) = {b \in Bytes : b.frame = f}
  PROVE  IsFrame(s, f)
<1>1. Len(s) \in Nat
  BY LenProperties
<1>2. \A k \in 1 .. Len(s) : s[k] \in Bytes /\ s[k].frame = f
  BY ToSetIff
<1>3. \A j, k \in 1 .. Len(s) : j < k => s[j].pos < s[k].pos
  BY <1>1, <1>2, ByteFields DEF InOrder, Before
<1>4. ASSUME NEW p \in 1 .. FrameLength
      PROVE  \E k \in 1 .. Len(s) : s[k].pos = p
  <2>1. [frame |-> f, pos |-> p] \in ToSet(s)
    BY ByteFields
  <2> QED
    BY <2>1, ToSetIff
<1>5. \A k \in 1 .. Len(s) : s[k].pos = k
  <2> DEFINE I == {k \in 1 .. Len(s) : s[k].pos # k}
  <2> SUFFICES ASSUME I # {} PROVE FALSE
    OBVIOUS
  <2>1. I \in SUBSET Nat
    OBVIOUS
  <2>2. PICK m \in I : \A y \in I : m <= y
    BY <2>1, MinIsLeast
  <2>3. m \in 1 .. Len(s) /\ s[m].pos # m /\ s[m].pos \in Nat
        /\ s[m].pos >= 1 /\ s[m].pos <= FrameLength /\ m \in Nat
    BY <1>2, ByteFields
  <2>4. \A j \in 1 .. Len(s) : j < m => s[j].pos = j
    BY <1>1, <2>2
  <2>5. s[m].pos > m
    <3>1. CASE m = 1
      BY <2>3, <3>1
    <3>2. CASE m > 1
      <4>1. m - 1 \in 1 .. Len(s) /\ m - 1 < m
        BY <1>1, <2>3, <3>2
      <4>2. s[m - 1].pos = m - 1 /\ s[m - 1].pos < s[m].pos
        BY <1>3, <2>3, <2>4, <4>1
      <4> QED
        BY <2>3, <4>2
    <3> QED
      BY <2>3, <3>1, <3>2
  <2>6. m \in 1 .. FrameLength
    BY <2>3, <2>5, Constants
  <2>7. PICK k \in 1 .. Len(s) : s[k].pos = m
    BY <1>4, <2>6
  <2>8. k >= m
    BY <1>1, <2>3, <2>4, <2>7
  <2>9. k # m
    BY <2>3, <2>7
  <2>10. s[m].pos < s[k].pos
    BY <1>1, <1>3, <2>3, <2>8, <2>9
  <2> QED
    BY <2>5, <2>7, <2>10, <2>3
<1>6. Len(s) = FrameLength
  <2>1. PICK k \in 1 .. Len(s) : s[k].pos = FrameLength
    BY <1>4, Constants
  <2>2. Len(s) \in 1 .. Len(s)
    BY <1>1
  <2>3. s[Len(s)].pos = Len(s) /\ s[Len(s)].pos <= FrameLength
    BY <1>2, <1>5, <2>2, ByteFields
  <2> QED
    BY <1>1, <1>5, <2>1, <2>3, Constants
<1>7. \A k \in 1 .. FrameLength : s[k] = [frame |-> f, pos |-> k]
  <2> TAKE k \in 1 .. FrameLength
  <2>1. s[k] \in Bytes /\ s[k].frame = f /\ s[k].pos = k
    BY <1>2, <1>5, <1>6
  <2> QED
    BY <2>1 DEF Bytes
<1>8. s = [k \in 1 .. Len(s) |-> s[k]]
  BY LenProperties
<1> QED
  BY <1>6, <1>7, <1>8 DEF IsFrame

\* What division and remainder say of the k-th byte sent.
LEMMA DivMod ==
  ASSUME NEW m \in Nat, m >= 1, NEW k \in Nat
  PROVE  /\ k \div m \in Nat /\ k % m \in 0 .. m - 1
         /\ k = m * (k \div m) + (k % m)
OBVIOUS

\* The larger number does not have the smaller quotient, nor, with the same
\* quotient, the smaller remainder.
LEMMA DivModOrder ==
  ASSUME NEW m \in Nat, m >= 1, NEW q \in Nat, NEW r \in 0 .. m - 1,
         NEW u \in Nat, NEW v \in 0 .. m - 1, m * q + r < m * u + v
  PROVE  q < u \/ (q = u /\ r < v)
<1>1. CASE q > u
  <2>1. PICK d \in Nat : q = u + 1 + d
    <3>1. q - u - 1 \in Nat /\ q = u + 1 + (q - u - 1)
      BY <1>1
    <3> QED
      BY <3>1
  <2>2. m * q = m * u + m + m * d /\ m * d \in Nat /\ m * u \in Nat
    BY <2>1
  <2> QED
    BY <2>2
<1> QED
  BY <1>1

\* The peer sends every byte, in order.
LEMMA SentAll ==
  /\ Sent \in Seq(Bytes)
  /\ InOrder(Sent)
  /\ ToSet(Sent) = Bytes
<1> DEFINE m == FrameLength
           n == NumFrames * FrameLength
<1>1. n \in Nat /\ m \in Nat /\ m >= 1
  BY Constants
<1>2. ASSUME NEW k \in 1 .. n
      PROVE  /\ (k - 1) \div m \in Nat /\ (k - 1) % m \in 0 .. m - 1
             /\ k - 1 = m * ((k - 1) \div m) + ((k - 1) % m)
  BY <1>1, DivMod
<1>3. ASSUME NEW k \in 1 .. n
      PROVE  (k - 1) \div m < NumFrames
  <2> DEFINE q == (k - 1) \div m
             r == (k - 1) % m
  <2>1. q \in Nat /\ r \in 0 .. m - 1 /\ k - 1 = m * q + r
    BY <1>2
  <2>2. k - 1 < m * NumFrames + 0
    BY <1>1, Constants
  <2> HIDE DEF q, r
  <2>3. m * q + r < m * NumFrames + 0
    BY <2>1, <2>2
  <2>4. q < NumFrames \/ (q = NumFrames /\ r < 0)
    BY <1>1, <2>1, <2>3, Constants, DivModOrder
  <2>5. q < NumFrames
    BY <2>1, <2>4
  <2> QED
    BY <2>5 DEF q
<1>4. ASSUME NEW k \in 1 .. n
      PROVE  /\ Sent[k] \in Bytes
             /\ Sent[k].frame = (k - 1) \div m + 1
             /\ Sent[k].pos = ((k - 1) % m) + 1
  <2>1. Sent[k] = [frame |-> (k - 1) \div m + 1, pos |-> ((k - 1) % m) + 1]
    BY DEF Sent
  <2>2. (k - 1) \div m + 1 \in Frames
    BY <1>2, <1>3, Constants DEF Frames
  <2>3. ((k - 1) % m) + 1 \in 1 .. FrameLength
    BY <1>1, <1>2
  <2> QED
    BY <2>1, <2>2, <2>3 DEF Bytes
<1>5. Sent \in Seq(Bytes) /\ Len(Sent) = n
  <2>1. Sent \in [1 .. n -> Bytes]
    BY <1>4 DEF Sent
  <2> HIDE DEF n
  <2>2. Sent \in Seq(Bytes)
    BY <1>1, <2>1, IsASeq
  <2>3. DOMAIN Sent = 1 .. n
    BY <2>1
  <2>4. DOMAIN Sent = 1 .. Len(Sent) /\ Len(Sent) \in Nat
    BY <2>2, LenProperties
  <2>5. Len(Sent) = n
    BY <1>1, <2>3, <2>4
  <2> QED
    BY <2>2, <2>5
<1>6. InOrder(Sent)
  <2> SUFFICES ASSUME NEW j \in 1 .. n, NEW k \in 1 .. n, j < k
               PROVE  Before(Sent[j], Sent[k])
    BY <1>5 DEF InOrder
  <2> DEFINE q == (j - 1) \div m
             r == (j - 1) % m
             u == (k - 1) \div m
             v == (k - 1) % m
  <2>1. /\ q \in Nat /\ r \in 0 .. m - 1 /\ j - 1 = m * q + r
        /\ u \in Nat /\ v \in 0 .. m - 1 /\ k - 1 = m * u + v
    BY <1>2
  <2>2. /\ Sent[j].frame = q + 1 /\ Sent[j].pos = r + 1
        /\ Sent[k].frame = u + 1 /\ Sent[k].pos = v + 1
    BY <1>4
  <2>3. j - 1 < k - 1
    BY <1>1
  <2> HIDE DEF q, r, u, v
  <2>4. m * q + r < m * u + v
    BY <2>1, <2>3
  <2>5. q < u \/ (q = u /\ r < v)
    BY <1>1, <2>1, <2>4, DivModOrder
  <2>6. q + 1 < u + 1 \/ (q + 1 = u + 1 /\ r + 1 < v + 1)
    BY <1>1, <2>1, <2>5
  <2> QED
    BY <2>2, <2>6 DEF Before
<1>7. ASSUME NEW b \in Bytes
      PROVE  b \in ToSet(Sent)
  <2> DEFINE f == b.frame - 1
             r == b.pos - 1
             k == m * f + r + 1
  <2>1. f \in Nat /\ f + 1 <= NumFrames /\ r \in 0 .. m - 1
    BY ByteFields, Constants
  <2>2. m * f \in Nat
    BY <1>1, <2>1
  <2>3. k \in 1 .. n
    <3>1. PICK d \in Nat : NumFrames = f + 1 + d
      <4>1. NumFrames - f - 1 \in Nat /\ NumFrames = f + 1 + (NumFrames - f - 1)
        BY <2>1, Constants
      <4> QED
        BY <4>1
    <3> HIDE DEF f, r
    <3>2. n = m * f + m + m * d /\ m * d \in Nat
      BY <1>1, <2>1, <3>1
    <3> QED
      BY <1>1, <2>1, <2>2, <3>2
  <2>4. /\ (k - 1) \div m \in Nat /\ (k - 1) % m \in 0 .. m - 1
        /\ k - 1 = m * ((k - 1) \div m) + ((k - 1) % m)
    BY <1>2, <2>3
  <2>5. (k - 1) \div m = f /\ (k - 1) % m = r
    <3> DEFINE q == (k - 1) \div m
               v == (k - 1) % m
    <3>1. k - 1 = m * f + r
      BY <2>1, <2>2
    <3>2. q \in Nat /\ v \in 0 .. m - 1 /\ m * q + v = m * f + r
      BY <2>4, <3>1
    <3> HIDE DEF q, v, f, r, k
    <3>3. q = f
      <4>1. CASE q < f
        <5>1. PICK d \in Nat : f = q + 1 + d
          <6>1. f - q - 1 \in Nat /\ f = q + 1 + (f - q - 1)
            BY <2>1, <3>2, <4>1
          <6> QED
            BY <6>1
        <5>2. m * f = m * q + m + m * d /\ m * d \in Nat /\ m * q \in Nat
          BY <1>1, <3>2, <5>1
        <5> QED
          BY <1>1, <2>1, <3>2, <5>2
      <4>2. CASE f < q
        <5>1. PICK d \in Nat : q = f + 1 + d
          <6>1. q - f - 1 \in Nat /\ q = f + 1 + (q - f - 1)
            BY <2>1, <3>2, <4>2
          <6> QED
            BY <6>1
        <5>2. m * q = m * f + m + m * d /\ m * d \in Nat
          BY <1>1, <2>1, <5>1
        <5> QED
          BY <1>1, <2>1, <2>2, <3>2, <5>2
      <4> QED
        BY <2>1, <3>2, <4>1, <4>2
    <3>4. v = r
      BY <2>1, <2>2, <3>2, <3>3
    <3> QED
      BY <3>3, <3>4 DEF q, v
  <2>6. /\ Sent[k] \in Bytes
        /\ Sent[k].frame = (k - 1) \div m + 1
        /\ Sent[k].pos = ((k - 1) % m) + 1
    BY <1>4, <2>3
  <2> HIDE DEF k
  <2>7. Sent[k].frame = b.frame /\ Sent[k].pos = b.pos
    BY <2>5, <2>6, ByteFields
  <2>8. Sent[k] = b
    BY <2>6, <2>7, ByteFields
  <2> QED
    BY <1>5, <2>3, <2>8, ToSetIff
<1> QED
  BY <1>5, <1>6, <1>7, ToSetIff

-----------------------------------------------------------------------------
(* The inductive invariant                                                 *)

\* The bytes MoveRxDataInBuffer has still to make packets of.
Coming == ToSet(rxBuffer_) \cup ToSet(rxData) \cup ToSet(line)

Precede(A, B) == \A a \in A, b \in B : Before(a, b)

\* What was delivered comes before the packet at hand, this before rxBuffer_,
\* this before rxData and this before the line.
OrderInv ==
  /\ InOrder(packet) /\ InOrder(rxBuffer_) /\ InOrder(rxData) /\ InOrder(line)
  /\ Precede(ToSet(packet), Coming)
  /\ Precede(ToSet(rxBuffer_), ToSet(rxData) \cup ToSet(line))
  /\ Precede(ToSet(rxData), ToSet(line))
  /\ \A f \in ToSet(delivered), b \in ToSet(packet) \cup Coming : f < b.frame
  /\ InOrderOnce

\* What is lost or dropped is nowhere else, and rxBuffer_ has no zero.
GoneInv ==
  /\ lost \cap (DeliveredBytes \cup ToSet(packet) \cup Coming) = {}
  /\ dropped \cap Coming = {}
  /\ \A b \in ToSet(rxBuffer_) : ~IsZero(b)
  /\ ~inCall => packet = <<>>

\* All of packet f is still to come, and behind a zero or first of all.
Ahead(f) ==
  /\ \A b \in Bytes : b.frame = f => b \in Coming
  /\ \/ \E b \in Coming : b.frame = f - 1 /\ IsZero(b)
     \/ \A b \in Coming : b.frame >= f

\* A packet that nothing has touched is delivered, at hand or ahead.
ReceiveInv ==
  \A f \in Frames \ Unexpected :
    Spared(f, lost \cup dropped) =>
      f \in ToSet(delivered) \/ IsFrame(packet, f) \/ Ahead(f)

\* As long as all calls return SUCCESS, every byte not lost is accounted for.
SilentInv ==
  returned \subseteq {"SUCCESS"} =>
    DeliveredBytes \cup ToSet(packet) \cup Coming = Bytes \ lost

StreamInv == TypeOK /\ OrderInv /\ GoneInv /\ ReceiveInv /\ SilentInv

LEMMA EmptyToSet ==
  ToSet(<<>>) = {} /\ <<>> \in Seq(Bytes) /\ InOrder(<<>>) /\ Len(<<>>) = 0
BY DEF ToSet, InOrder

\* Before the first call everything is on the line.
LEMMA InitStreamInv == Init => StreamInv
<1> SUFFICES ASSUME Init PROVE StreamInv
  OBVIOUS
<1>1. /\ line = Sent /\ lost = {} /\ dropped = {} /\ rxData = <<>>
      /\ rxBuffer_ = <<>> /\ packet = <<>> /\ inCall = FALSE
      /\ returned = {} /\ delivered = <<>> /\ rejects \in RejectOptions
  BY DEF Init
<1>2. Coming = Bytes /\ ToSet(packet) = {} /\ ToSet(rxBuffer_) = {}
      /\ ToSet(rxData) = {} /\ ToSet(line) = Bytes /\ ToSet(delivered) = {}
      /\ DeliveredBytes = {}
  BY <1>1, SentAll, EmptyToSet DEF Coming, DeliveredBytes
<1>3. TypeOK
  <2>1. <<>> \in Seq(Bytes) /\ <<>> \in Seq(Frames) /\ Len(<<>>) <= BufferSize
    BY EmptySeq, Constants
  <2>2. returned \subseteq StatusCodes /\ lost \in SUBSET Bytes
        /\ dropped \in SUBSET Bytes /\ inCall \in BOOLEAN
    BY <1>1
  <2> QED
    BY <1>1, <2>1, <2>2, SentAll DEF TypeOK
<1>4. OrderInv
  BY <1>1, <1>2, SentAll, EmptyToSet DEF OrderInv, Precede, InOrderOnce
<1>5. GoneInv
  BY <1>1, <1>2 DEF GoneInv
<1>6. ReceiveInv
  <2> SUFFICES ASSUME NEW f \in Frames PROVE Ahead(f)
    BY DEF ReceiveInv
  <2>1. CASE f = 1
    BY <1>2, <2>1, ByteFields DEF Ahead
  <2>2. CASE f # 1
    <3>1. f - 1 \in Frames /\ FrameLength \in 1 .. FrameLength
      BY <2>2, Constants DEF Frames
    <3>2. [frame |-> f - 1, pos |-> FrameLength] \in Coming
      BY <1>2, <3>1, ByteFields
    <3> QED
      BY <1>2, <3>2 DEF Ahead, IsZero
  <2> QED
    BY <2>1, <2>2
<1>7. SilentInv
  BY <1>1, <1>2 DEF SilentInv
<1> QED
  BY <1>3, <1>4, <1>5, <1>6, <1>7 DEF StreamInv

\* The bytes that are around, and the frames delivered.
LEMMA BytesAround ==
  ASSUME TypeOK
  PROVE  /\ ToSet(packet) \in SUBSET Bytes /\ ToSet(rxBuffer_) \in SUBSET Bytes
         /\ ToSet(rxData) \in SUBSET Bytes /\ ToSet(line) \in SUBSET Bytes
         /\ Coming \in SUBSET Bytes /\ DeliveredBytes \in SUBSET Bytes
         /\ ToSet(delivered) \in SUBSET Frames
BY ToSetIff DEF TypeOK, Coming, DeliveredBytes

\* The search finds the first zero of rxData.
LEMMA ZeroAtIsFirst ==
  ASSUME TypeOK
  PROVE  /\ ZeroAt \in 0 .. Len(rxData)
         /\ ZeroAt = 0 => \A b \in ToSet(rxData) : ~IsZero(b)
         /\ ZeroAt # 0 => /\ IsZero(rxData[ZeroAt])
                          /\ \A k \in 1 .. ZeroAt - 1 : ~IsZero(rxData[k])
<1> DEFINE I == {i \in 1 .. Len(rxData) : IsZero(rxData[i])}
<1>1. I \in SUBSET Nat /\ rxData \in Seq(Bytes) /\ Len(rxData) \in Nat
  BY LenProperties DEF TypeOK
<1>2. ZeroAt = IF I # {} THEN Min(I) ELSE 0
  BY DEF ZeroAt, SelectInSeq
<1>3. CASE I = {}
  <2>1. \A b \in ToSet(rxData) : ~IsZero(b)
    BY <1>1, <1>3, ToSetIff
  <2> QED
    BY <1>1, <1>2, <1>3, <2>1
<1>4. CASE I # {}
  <2>1. Min(I) \in I /\ \A i \in I : Min(I) <= i
    BY <1>1, <1>4, MinIsLeast
  <2> DEFINE m == Min(I)
  <2> HIDE DEF m
  <2>2. m \in I /\ \A i \in I : m <= i
    BY <2>1 DEF m
  <2>3. m \in 1 .. Len(rxData) /\ IsZero(rxData[m])
        /\ \A k \in 1 .. m - 1 : ~IsZero(rxData[k])
    BY <1>1, <2>2
  <2>4. ZeroAt = m
    BY <1>2, <1>4 DEF m
  <2> QED
    BY <2>3, <2>4, <1>1
<1> QED
  BY <1>3, <1>4

-----------------------------------------------------------------------------
(* The steps                                                               *)

\* Bytes to come that are thrown away count as lost or dropped from then on, and
\* nobody misses them who did not before.
LEMMA Discard ==
  ASSUME StreamInv, TypeOK', Coming' \subseteq Coming,
         packet' = packet, delivered' = delivered,
         \/ lost' = lost \cup (Coming \ Coming') /\ dropped' = dropped
         \/ lost' = lost /\ dropped' = dropped \cup (Coming \ Coming')
  PROVE  /\ ReceiveInv'
         /\ lost' \cap (DeliveredBytes' \cup ToSet(packet') \cup Coming') = {}
         /\ dropped' \cap Coming' = {}
         /\ Precede(ToSet(packet'), Coming')
         /\ \A f \in ToSet(delivered'), b \in ToSet(packet') \cup Coming' : f < b.frame
         /\ InOrderOnce'
         /\ lost' = lost \cup (Coming \ Coming') /\ SilentInv
            /\ returned' = returned => SilentInv'
<1> DEFINE X == Coming \ Coming'
<1>1. /\ ToSet(packet) \in SUBSET Bytes /\ Coming \in SUBSET Bytes
      /\ DeliveredBytes \in SUBSET Bytes /\ ToSet(delivered) \in SUBSET Frames
  BY BytesAround DEF StreamInv
<1>2. /\ Precede(ToSet(packet), Coming)
      /\ \A f \in ToSet(delivered), b \in ToSet(packet) \cup Coming : f < b.frame
      /\ InOrderOnce
      /\ lost \cap (DeliveredBytes \cup ToSet(packet) \cup Coming) = {}
      /\ dropped \cap Coming = {}
      /\ ReceiveInv
  BY DEF StreamInv, OrderInv, GoneInv
<1>3. DeliveredBytes' = DeliveredBytes
  BY DEF DeliveredBytes
<1>4. ASSUME NEW b \in Coming PROVE b \notin ToSet(packet) /\ b \notin DeliveredBytes
  <2>1. b \notin ToSet(packet)
    BY <1>1, <1>2, BeforeIsOrder DEF Precede
  <2>2. b \notin DeliveredBytes
    BY <1>1, <1>2, ByteFields DEF DeliveredBytes
  <2> QED
    BY <2>1, <2>2
<1>5. lost' \cap (DeliveredBytes' \cup ToSet(packet') \cup Coming') = {}
  BY <1>2, <1>3, <1>4
<1>6. dropped' \cap Coming' = {}
  BY <1>2
<1>7. /\ Precede(ToSet(packet'), Coming')
      /\ \A f \in ToSet(delivered'), b \in ToSet(packet') \cup Coming' : f < b.frame
      /\ InOrderOnce'
  BY <1>2 DEF Precede, InOrderOnce
<1>8. ReceiveInv'
  <2> SUFFICES ASSUME NEW f \in Frames \ Unexpected,
                      Spared(f, lost' \cup dropped'),
                      f \notin ToSet(delivered), ~IsFrame(packet, f)
               PROVE  Ahead(f)'
    BY DEF ReceiveInv
  <2>1. Spared(f, lost \cup dropped)
    BY DEF Spared
  <2>2. Ahead(f)
    BY <1>2, <2>1 DEF ReceiveInv
  <2>3. ASSUME NEW b \in Coming, b.frame = f \/ (b.frame = f - 1 /\ IsZero(b))
        PROVE  b \in Coming'
    BY <2>3 DEF Spared
  <2>4. \A b \in Bytes : b.frame = f => b \in Coming'
    BY <2>2, <2>3 DEF Ahead
  <2>5. CASE \E b \in Coming : b.frame = f - 1 /\ IsZero(b)
    BY <2>3, <2>4, <2>5 DEF Ahead
  <2>6. CASE \A b \in Coming : b.frame >= f
    BY <2>4, <2>6 DEF Ahead
  <2> QED
    BY <2>2, <2>5, <2>6 DEF Ahead
<1>9. ASSUME lost' = lost \cup X, SilentInv, returned' = returned
      PROVE  SilentInv'
  <2> SUFFICES ASSUME returned \subseteq {"SUCCESS"}
               PROVE  DeliveredBytes \cup ToSet(packet) \cup Coming' = Bytes \ lost'
    BY <1>3, <1>9 DEF SilentInv
  <2>1. DeliveredBytes \cup ToSet(packet) \cup Coming = Bytes \ lost
    BY <1>9 DEF SilentInv
  <2> QED
    BY <1>4, <1>9, <2>1
<1> QED
  BY <1>5, <1>6, <1>7, <1>8, <1>9

\* The line loses its first byte.
LEMMA LoseStep ==
  ASSUME StreamInv, Lose
  PROVE  StreamInv'
<1> DEFINE x == SubSeq(line, 1, 1)
           y == SubSeq(line, 2, Len(line))
<1>1. /\ line # <<>> /\ lost' = lost \cup {Head(line)} /\ line' = Tail(line)
      /\ UNCHANGED <<rejects, dropped, rxData, rxBuffer_, packet, inCall,
                     returned, delivered>>
  BY DEF Lose
<1>2. TypeOK /\ OrderInv /\ GoneInv /\ line \in Seq(Bytes)
  BY DEF StreamInv, TypeOK
<1>3. Len(line) \in Nat /\ 1 \in 0 .. Len(line)
  BY <1>1, <1>2, EmptySeq, LenProperties
<1>4. /\ x \in Seq(Bytes) /\ Len(x) = 1 /\ x[1] = line[1] /\ y \in Seq(Bytes)
      /\ ToSet(line) = ToSet(x) \cup ToSet(y)
      /\ InOrder(y) /\ Precede(ToSet(x), ToSet(y))
  <2>1. 1 \in 1 .. 1 /\ 1 + 1 = 2
    OBVIOUS
  <2> QED
    BY <1>2, <1>3, <2>1, CutProperties, CutToSet, InOrderCut DEF OrderInv, Precede
<1>5. line' = y
  BY <1>1, <1>2, TailIsSubSeq
<1> HIDE DEF x, y
<1>6. ToSet(x) = {Head(line)}
  <2>1. Head(line) = x[1]
    BY <1>1, <1>2, <1>4, HeadTailProperties
  <2>2. \A e : e \in ToSet(x) <=> \E k \in 1 .. 1 : e = x[k]
    BY <1>4, ToSetIff
  <2> QED
    BY <2>1, <2>2
<1>7. TypeOK'
  <2>1. Head(line) \in Bytes
    BY <1>2, <1>4, <1>6, ToSetIff
  <2> QED
    BY <1>1, <1>2, <1>4, <1>5, <2>1 DEF TypeOK
<1>8. Coming' = ToSet(rxBuffer_) \cup ToSet(rxData) \cup ToSet(y)
  BY <1>1, <1>5 DEF Coming
<1>9. Head(line) \notin Coming'
  <2>1. Precede(ToSet(rxBuffer_), ToSet(line)) /\ Precede(ToSet(rxData), ToSet(line))
    BY <1>2 DEF OrderInv, Precede
  <2>2. Head(line) \in ToSet(line) /\ Head(line) \in Bytes
    BY <1>2, <1>4, <1>6, ToSetIff
  <2>3. ~Before(Head(line), Head(line))
    BY <2>2, BeforeIsOrder
  <2> QED
    BY <1>4, <1>6, <1>8, <2>1, <2>2, <2>3 DEF Precede
<1>10. Coming' \subseteq Coming /\ Coming \ Coming' = {Head(line)}
  BY <1>4, <1>6, <1>8, <1>9 DEF Coming
<1>11. /\ ReceiveInv'
       /\ lost' \cap (DeliveredBytes' \cup ToSet(packet') \cup Coming') = {}
       /\ dropped' \cap Coming' = {}
       /\ Precede(ToSet(packet'), Coming')
       /\ \A f \in ToSet(delivered'), b \in ToSet(packet') \cup Coming' : f < b.frame
       /\ InOrderOnce' /\ SilentInv'
  BY <1>1, <1>7, <1>10, Discard DEF StreamInv
<1>12. OrderInv'
  BY <1>1, <1>2, <1>4, <1>5, <1>11 DEF OrderInv, Precede
<1>13. GoneInv'
  BY <1>1, <1>2, <1>11 DEF GoneInv
<1> QED
  BY <1>7, <1>11, <1>12, <1>13 DEF StreamInv

\* No byte is in two places.
LEMMA Disjoint ==
  ASSUME StreamInv
  PROVE  /\ ToSet(rxData) \cap (ToSet(rxBuffer_) \cup ToSet(line)) = {}
         /\ ToSet(packet) \cap Coming = {}
<1>1. /\ ToSet(packet) \in SUBSET Bytes /\ ToSet(rxBuffer_) \in SUBSET Bytes
      /\ ToSet(rxData) \in SUBSET Bytes /\ ToSet(line) \in SUBSET Bytes
      /\ Coming \in SUBSET Bytes
  BY BytesAround DEF StreamInv
<1>2. /\ Precede(ToSet(packet), Coming)
      /\ Precede(ToSet(rxBuffer_), ToSet(rxData))
      /\ Precede(ToSet(rxData), ToSet(line))
  BY DEF StreamInv, OrderInv, Precede
<1>3. \A b \in Bytes : ~Before(b, b)
  BY BeforeIsOrder
<1> QED
  BY <1>1, <1>2, <1>3 DEF Precede

\* The driver gives n bytes, behind those left in rxData or instead of them.
LEMMA GiveRxDataStep ==
  ASSUME StreamInv, NEW n \in 0 .. BufferSize, GiveRxData(n)
  PROVE  StreamInv'
<1> DEFINE x == SubSeq(line, 1, n)
           y == SubSeq(line, n + 1, Len(line))
<1>1. /\ ~inCall /\ n <= Len(line)
      /\ line' = y /\ inCall' = TRUE
      /\ UNCHANGED <<rejects, dropped, rxBuffer_, packet, returned, delivered>>
      /\ \/ /\ Len(rxData) + n <= BufferSize
            /\ rxData' = rxData \o x
            /\ lost' = lost
         \/ rxData' = x /\ lost' = lost \cup ToSet(rxData)
  BY DEF GiveRxData
<1>2. TypeOK /\ OrderInv /\ GoneInv /\ line \in Seq(Bytes) /\ rxData \in Seq(Bytes)
      /\ Len(line) \in Nat /\ Len(rxData) \in Nat
  BY LenProperties DEF StreamInv, TypeOK
<1>3. n \in 0 .. Len(line)
  BY <1>1, <1>2
<1>4. /\ x \in Seq(Bytes) /\ Len(x) = n /\ y \in Seq(Bytes)
      /\ ToSet(line) = ToSet(x) \cup ToSet(y)
      /\ InOrder(x) /\ InOrder(y) /\ Precede(ToSet(x), ToSet(y))
  BY <1>2, <1>3, CutProperties, CutToSet, InOrderCut DEF OrderInv, Precede
<1> HIDE DEF x, y
<1>5. /\ Precede(ToSet(rxBuffer_), ToSet(rxData) \cup ToSet(x) \cup ToSet(y))
      /\ Precede(ToSet(rxData), ToSet(x) \cup ToSet(y))
  BY <1>2, <1>4 DEF OrderInv, Precede
<1>6. /\ ToSet(rxData) \in SUBSET Bytes
      /\ ToSet(rxData) \cap (ToSet(rxBuffer_) \cup ToSet(x) \cup ToSet(y)) = {}
  BY <1>2, <1>4, ToSetIff, Disjoint
<1>7. /\ rxData' \in Seq(Bytes) /\ Len(rxData') <= BufferSize
      /\ InOrder(rxData') /\ Precede(ToSet(rxBuffer_), ToSet(rxData') \cup ToSet(y))
      /\ Precede(ToSet(rxData'), ToSet(y))
      /\ lost' \in SUBSET Bytes
      /\ Coming' \subseteq Coming /\ lost' = lost \cup (Coming \ Coming')
  <2>1. CASE Len(rxData) + n <= BufferSize /\ rxData' = rxData \o x /\ lost' = lost
    <3>1. /\ rxData' \in Seq(Bytes) /\ Len(rxData') = Len(rxData) + n
          /\ ToSet(rxData') = ToSet(rxData) \cup ToSet(x)
      <4>1. /\ rxData \o x \in Seq(Bytes)
            /\ Len(rxData \o x) = Len(rxData) + Len(x)
            /\ ToSet(rxData \o x) = ToSet(rxData) \cup ToSet(x)
        <5>1. rxData \in Seq(Bytes) /\ x \in Seq(Bytes)
          BY <1>2, <1>4
        <5> QED
          BY <5>1, ConcatToSet
      <4> QED
        BY <1>4, <2>1, <4>1
    <3>2. InOrder(rxData')
      BY <1>2, <1>4, <1>5, <2>1, InOrderConcat DEF OrderInv, Precede
    <3>3. Coming' = Coming
      BY <1>1, <1>4, <3>1 DEF Coming
    <3>4. lost' \in SUBSET Bytes
      BY <1>2, <2>1 DEF TypeOK
    <3> QED
      BY <1>4, <1>5, <2>1, <3>1, <3>2, <3>3, <3>4 DEF Precede
  <2>2. CASE rxData' = x /\ lost' = lost \cup ToSet(rxData)
    <3>1. Coming' = ToSet(rxBuffer_) \cup ToSet(x) \cup ToSet(y)
      BY <1>1, <2>2 DEF Coming
    <3>2. Coming' \subseteq Coming /\ Coming \ Coming' = ToSet(rxData)
      BY <1>4, <1>6, <3>1 DEF Coming
    <3>3. lost' \in SUBSET Bytes
      BY <1>2, <1>6, <2>2 DEF TypeOK
    <3>4. Precede(ToSet(rxBuffer_), ToSet(x) \cup ToSet(y))
      BY <1>5 DEF Precede
    <3>5. Len(x) <= BufferSize
      BY <1>4, Constants
    <3> QED
      BY <1>4, <2>2, <3>2, <3>3, <3>4, <3>5
  <2> QED
    BY <1>1, <2>1, <2>2
<1>8. TypeOK'
  BY <1>1, <1>2, <1>4, <1>7 DEF TypeOK
<1>9. /\ ReceiveInv'
      /\ lost' \cap (DeliveredBytes' \cup ToSet(packet') \cup Coming') = {}
      /\ dropped' \cap Coming' = {}
      /\ Precede(ToSet(packet'), Coming')
      /\ \A f \in ToSet(delivered'), b \in ToSet(packet') \cup Coming' : f < b.frame
      /\ InOrderOnce' /\ SilentInv'
  BY <1>1, <1>7, <1>8, Discard DEF StreamInv
<1>10. OrderInv'
  BY <1>1, <1>2, <1>4, <1>7, <1>9 DEF OrderInv
<1>11. GoneInv'
  BY <1>1, <1>2, <1>9 DEF GoneInv
<1> QED
  BY <1>8, <1>9, <1>10, <1>11 DEF StreamInv

\* rxData ends without a packet: n bytes of it, none of them a zero, are buffered
\* and what is dropped is either nothing or reported.
LEMMA EndWithoutStep ==
  ASSUME StreamInv, NEW n \in 0 .. Len(rxData), NEW code \in StatusCodes,
         packet = <<>>, Len(rxBuffer_) + n <= BufferSize,
         \A k \in 1 .. n : ~IsZero(rxData[k]),
         code = "SUCCESS" => n = Len(rxData),
         EndWithout(n, code), UNCHANGED <<rejects, line, lost, packet, delivered>>
  PROVE  StreamInv'
<1> DEFINE x == SubSeq(rxData, 1, n)
           y == SubSeq(rxData, n + 1, Len(rxData))
<1>1. /\ rxBuffer_' = (IF rejects THEN <<>> ELSE rxBuffer_ \o x)
      /\ dropped' = (dropped \cup ToSet(rxBuffer_ \o rxData)) \ ToSet(rxBuffer_')
      /\ rxData' = <<>> /\ inCall' = FALSE
      /\ returned' = returned \cup {IF rejects THEN "ERROR_PACKET_INCOMPLETE" ELSE code}
      /\ UNCHANGED <<rejects, line, lost, packet, delivered>>
  BY DEF EndWithout, Return
<1>2. /\ TypeOK /\ OrderInv /\ GoneInv
      /\ rxData \in Seq(Bytes) /\ rxBuffer_ \in Seq(Bytes)
      /\ Len(rxData) \in Nat /\ Len(rxBuffer_) \in Nat
  BY LenProperties DEF StreamInv, TypeOK
<1>3. /\ x \in Seq(Bytes) /\ Len(x) = n /\ \A k \in 1 .. n : x[k] = rxData[k]
      /\ y \in Seq(Bytes) /\ Len(y) = Len(rxData) - n
      /\ ToSet(rxData) = ToSet(x) \cup ToSet(y)
      /\ InOrder(x) /\ Precede(ToSet(x), ToSet(y))
  BY <1>2, CutProperties, CutToSet, InOrderCut DEF OrderInv, Precede
<1> HIDE DEF x, y
<1>4. /\ rxBuffer_ \o x \in Seq(Bytes) /\ Len(rxBuffer_ \o x) = Len(rxBuffer_) + n
      /\ ToSet(rxBuffer_ \o x) = ToSet(rxBuffer_) \cup ToSet(x)
      /\ ToSet(rxBuffer_ \o rxData) = ToSet(rxBuffer_) \cup ToSet(rxData)
  <2>1. /\ rxBuffer_ \o x \in Seq(Bytes)
        /\ Len(rxBuffer_ \o x) = Len(rxBuffer_) + Len(x)
        /\ ToSet(rxBuffer_ \o x) = ToSet(rxBuffer_) \cup ToSet(x)
    <3>1. rxBuffer_ \in Seq(Bytes) /\ x \in Seq(Bytes)
      BY <1>2, <1>3
    <3> QED
      BY <3>1, ConcatToSet
  <2>2. ToSet(rxBuffer_ \o rxData) = ToSet(rxBuffer_) \cup ToSet(rxData)
    BY <1>2, ConcatToSet
  <2> QED
    BY <1>3, <2>1, <2>2
<1>5. InOrder(rxBuffer_ \o x)
  BY <1>2, <1>3, InOrderConcat DEF OrderInv, Precede
<1>6. \A b \in ToSet(x) : ~IsZero(b)
  BY <1>3, ToSetIff
<1>7. /\ rxBuffer_' \in Seq(Bytes) /\ Len(rxBuffer_') <= BufferSize
      /\ InOrder(rxBuffer_') /\ Precede(ToSet(rxBuffer_'), ToSet(line))
      /\ \A b \in ToSet(rxBuffer_') : ~IsZero(b)
      /\ ToSet(rxBuffer_') \subseteq ToSet(rxBuffer_) \cup ToSet(rxData)
  <2>1. CASE rejects
    BY <1>1, <2>1, EmptyToSet, Constants DEF Precede
  <2>2. CASE ~rejects
    BY <1>1, <1>2, <1>3, <1>4, <1>5, <1>6, <2>2 DEF OrderInv, GoneInv, Precede
  <2> QED
    BY <2>1, <2>2
<1>8. Coming' = ToSet(rxBuffer_') \cup ToSet(line)
  BY <1>1, EmptyToSet DEF Coming
<1>9. Coming' \subseteq Coming
  BY <1>7, <1>8 DEF Coming
<1>10. dropped' = dropped \cup (Coming \ Coming')
  <2>1. ToSet(line) \cap (ToSet(rxBuffer_) \cup ToSet(rxData)) = {}
    <3>1. ToSet(line) \in SUBSET Bytes
      BY <1>2, BytesAround
    <3>2. Precede(ToSet(rxBuffer_) \cup ToSet(rxData), ToSet(line))
      BY <1>2 DEF OrderInv, Precede
    <3>3. \A b \in Bytes : ~Before(b, b)
      BY BeforeIsOrder
    <3> QED
      BY <3>1, <3>2, <3>3 DEF Precede
  <2>2. dropped \cap ToSet(rxBuffer_') = {}
    BY <1>2, <1>7 DEF GoneInv, Coming
  <2> QED
    BY <1>1, <1>4, <1>7, <1>8, <2>1, <2>2 DEF Coming
<1>11. TypeOK'
  <2>1. dropped' \in SUBSET Bytes
    BY <1>2, <1>10, BytesAround DEF TypeOK
  <2>2. returned' \subseteq StatusCodes
    BY <1>1, <1>2 DEF TypeOK, StatusCodes
  <2>3. <<>> \in Seq(Bytes) /\ Len(<<>>) <= BufferSize
    BY EmptyToSet, Constants
  <2> QED
    BY <1>1, <1>2, <1>7, <2>1, <2>2, <2>3 DEF TypeOK
<1>12. /\ ReceiveInv'
       /\ lost' \cap (DeliveredBytes' \cup ToSet(packet') \cup Coming') = {}
       /\ dropped' \cap Coming' = {}
       /\ Precede(ToSet(packet'), Coming')
       /\ \A f \in ToSet(delivered'), b \in ToSet(packet') \cup Coming' : f < b.frame
       /\ InOrderOnce'
  BY <1>1, <1>9, <1>10, <1>11, Discard
<1>13. OrderInv'
  <2>1. ToSet(rxData') = {} /\ InOrder(rxData')
    BY <1>1, EmptyToSet
  <2> QED
    BY <1>1, <1>2, <1>7, <1>12, <2>1 DEF OrderInv, Precede
<1>14. GoneInv'
  BY <1>1, <1>7, <1>12 DEF GoneInv
<1>15. SilentInv'
  <2> SUFFICES ASSUME returned' \subseteq {"SUCCESS"}
               PROVE  DeliveredBytes' \cup ToSet(packet') \cup Coming' = Bytes \ lost'
    BY DEF SilentInv
  <2>1. ~rejects /\ code = "SUCCESS" /\ returned \subseteq {"SUCCESS"}
    BY <1>1
  <2>2. Len(y) = 0
    BY <1>2, <1>3, <2>1
  <2>3. ToSet(y) = {}
    BY <1>3, <2>2, EmptySeq, ToSetIff
  <2>4. Coming' = Coming
    BY <1>1, <1>3, <1>4, <1>8, <2>1, <2>3 DEF Coming
  <2>5. DeliveredBytes' = DeliveredBytes
    BY <1>1 DEF DeliveredBytes
  <2> QED
    BY <1>1, <2>1, <2>4, <2>5 DEF StreamInv, SilentInv
<1> QED
  BY <1>11, <1>12, <1>13, <1>14, <1>15 DEF StreamInv

\* All of rxData is buffered.
LEMMA BufferAllStep ==
  ASSUME StreamInv, BufferAll
  PROVE  StreamInv'
<1>1. /\ packet = <<>> /\ ZeroAt = 0 /\ Fits(Len(rxData))
      /\ EndWithout(Len(rxData), "SUCCESS")
      /\ UNCHANGED <<rejects, line, lost, packet, delivered>>
  BY DEF BufferAll
<1>2. TypeOK /\ rxData \in Seq(Bytes) /\ Len(rxData) \in Nat /\ Len(rxBuffer_) \in Nat
  BY LenProperties DEF StreamInv, TypeOK
<1>3. \A k \in 1 .. Len(rxData) : ~IsZero(rxData[k])
  BY <1>1, <1>2, ZeroAtIsFirst, ToSetIff
<1>4. Len(rxData) \in 0 .. Len(rxData) /\ Len(rxBuffer_) + Len(rxData) <= BufferSize
  BY <1>1, <1>2, Constants DEF Fits, Room
<1>5. "SUCCESS" \in StatusCodes
  BY DEF StatusCodes
<1> QED
  BY <1>1, <1>3, <1>4, <1>5, EndWithoutStep

\* As much of rxData is buffered as there is room for.
LEMMA BufferFullStep ==
  ASSUME StreamInv, BufferFull
  PROVE  StreamInv'
<1>1. /\ packet = <<>>
      /\ ~Fits(IF ZeroAt = 0 THEN Len(rxData) ELSE ZeroAt)
      /\ EndWithout(Room, "ERROR_RX_DATA_BUFFER_FULL")
      /\ UNCHANGED <<rejects, line, lost, packet, delivered>>
  BY DEF BufferFull
<1>2. /\ TypeOK /\ rxData \in Seq(Bytes) /\ Len(rxData) \in Nat
      /\ Len(rxBuffer_) \in Nat /\ Len(rxBuffer_) <= BufferSize
  BY LenProperties DEF StreamInv, TypeOK
<1>3. /\ ZeroAt \in 0 .. Len(rxData)
      /\ ZeroAt = 0 => \A k \in 1 .. Len(rxData) : ~IsZero(rxData[k])
      /\ ZeroAt # 0 => \A k \in 1 .. ZeroAt - 1 : ~IsZero(rxData[k])
  BY <1>2, ZeroAtIsFirst, ToSetIff
<1>4. /\ Room \in 0 .. Len(rxData) /\ Len(rxBuffer_) + Room <= BufferSize
      /\ ZeroAt # 0 => Room <= ZeroAt - 1
  BY <1>1, <1>2, <1>3, Constants DEF Fits, Room
<1>5. \A k \in 1 .. Room : ~IsZero(rxData[k])
  BY <1>2, <1>3, <1>4
<1>6. /\ "ERROR_RX_DATA_BUFFER_FULL" \in StatusCodes
      /\ "ERROR_RX_DATA_BUFFER_FULL" # "SUCCESS"
  BY DEF StatusCodes
<1> HIDE DEF Room
<1> QED
  BY <1>1, <1>4, <1>5, <1>6, EndWithoutStep

\* Packet f consists of the bytes of packet f, and is not another one.
LEMMA FrameBytes ==
  ASSUME NEW s \in Seq(Bytes), NEW f \in Frames, IsFrame(s, f)
  PROVE  /\ ToSet(s) = {b \in Bytes : b.frame = f}
         /\ \A g \in Frames : IsFrame(s, g) => g = f
<1>1. s = [p \in 1 .. FrameLength |-> [frame |-> f, pos |-> p]]
  BY DEF IsFrame
<1>2. DOMAIN s = 1 .. FrameLength
  BY <1>1
<1>3. ASSUME NEW b \in Bytes, b.frame = f PROVE b \in ToSet(s)
  <2>1. b.pos \in 1 .. FrameLength /\ b = [frame |-> f, pos |-> b.pos]
    BY <1>3 DEF Bytes
  <2>2. s[b.pos] = b
    BY <1>1, <2>1
  <2> QED
    BY <1>2, <2>1, <2>2 DEF ToSet
<1>4. ASSUME NEW b \in ToSet(s) PROVE b \in Bytes /\ b.frame = f
  <2>1. PICK p \in 1 .. FrameLength : b = s[p]
    BY <1>2 DEF ToSet
  <2>2. b = [frame |-> f, pos |-> p]
    BY <1>1, <2>1
  <2> QED
    BY <2>2, ByteFields
<1>5. ASSUME NEW g \in Frames, IsFrame(s, g) PROVE g = f
  <2>1. 1 \in 1 .. FrameLength
    BY Constants
  <2>2. s[1] = [frame |-> f, pos |-> 1]
    BY <1>1, <2>1
  <2>3. s[1] = [frame |-> g, pos |-> 1]
    BY <1>5, <2>1 DEF IsFrame
  <2>4. s[1].frame = f /\ s[1].frame = g
    BY <2>2, <2>3
  <2> QED
    BY <2>4
<1> QED
  BY <1>3, <1>4, <1>5

LEMMA EmptyIsNoFrame == \A f \in Frames : ~IsFrame(<<>>, f)
<1> SUFFICES ASSUME NEW f \in Frames, IsFrame(<<>>, f) PROVE FALSE
  OBVIOUS
<1>1. [frame |-> f, pos |-> 1] \in Bytes
  BY ByteFields, Constants
<1>2. [frame |-> f, pos |-> 1] \in ToSet(<<>>)
  <2>1. ToSet(<<>>) = {b \in Bytes : b.frame = f}
    BY FrameBytes, EmptyToSet
  <2> QED
    BY <1>1, <2>1
<1> QED
  BY <1>2, EmptyToSet

\* The bytes taken are those up to the zero, the first of all that come.
LEMMA TakenBytes ==
  ASSUME StreamInv, TakePacket
  PROVE  /\ packet' \in Seq(Bytes) /\ rxData' \in Seq(Bytes)
         /\ Len(rxData') <= BufferSize
         /\ InOrder(packet') /\ InOrder(rxData')
         /\ Coming = ToSet(packet') \cup Coming'
         /\ Coming' = ToSet(rxData') \cup ToSet(line)
         /\ Precede(ToSet(packet'), Coming')
         /\ Precede(ToSet(rxData'), ToSet(line))
         /\ \E z \in ToSet(packet') :
              /\ IsZero(z)
              /\ \A b \in ToSet(packet') : b = z \/ (Before(b, z) /\ ~IsZero(b))
<1> DEFINE m == ZeroAt
           x == SubSeq(rxData, 1, m)
           y == SubSeq(rxData, m + 1, Len(rxData))
<1>1. /\ packet' = rxBuffer_ \o x /\ rxBuffer_' = <<>> /\ rxData' = y
      /\ UNCHANGED <<rejects, line, lost, dropped, inCall, returned, delivered>>
      /\ m # 0
  BY DEF TakePacket
<1>2. /\ TypeOK /\ OrderInv /\ GoneInv
      /\ rxData \in Seq(Bytes) /\ rxBuffer_ \in Seq(Bytes)
      /\ Len(rxData) \in Nat /\ Len(rxData) <= BufferSize
  BY LenProperties DEF StreamInv, TypeOK
<1>3. /\ m \in 0 .. Len(rxData) /\ IsZero(rxData[m])
      /\ \A k \in 1 .. m - 1 : ~IsZero(rxData[k])
  BY <1>1, <1>2, ZeroAtIsFirst
<1> HIDE DEF m
<1>4. /\ x \in Seq(Bytes) /\ Len(x) = m /\ \A k \in 1 .. m : x[k] = rxData[k]
      /\ y \in Seq(Bytes) /\ Len(y) = Len(rxData) - m
      /\ ToSet(rxData) = ToSet(x) \cup ToSet(y)
      /\ InOrder(x) /\ InOrder(y) /\ Precede(ToSet(x), ToSet(y))
  <2>1. rxData \in Seq(Bytes) /\ InOrder(rxData) /\ m \in 0 .. Len(rxData)
    BY <1>2, <1>3 DEF OrderInv
  <2>2. /\ x \in Seq(Bytes) /\ Len(x) = m /\ \A k \in 1 .. m : x[k] = rxData[k]
        /\ y \in Seq(Bytes) /\ Len(y) = Len(rxData) - m
    BY <2>1, CutProperties
  <2>3. ToSet(rxData) = ToSet(x) \cup ToSet(y)
    BY <2>1, CutToSet
  <2>4. InOrder(x) /\ InOrder(y) /\ Precede(ToSet(x), ToSet(y))
    BY <2>1, InOrderCut DEF Precede
  <2> QED
    BY <2>2, <2>3, <2>4
<1> HIDE DEF x, y
<1>5. packet' \in Seq(Bytes) /\ ToSet(packet') = ToSet(rxBuffer_) \cup ToSet(x)
  <2>1. rxBuffer_ \in Seq(Bytes) /\ x \in Seq(Bytes)
    BY <1>2, <1>4
  <2>2. /\ rxBuffer_ \o x \in Seq(Bytes)
        /\ ToSet(rxBuffer_ \o x) = ToSet(rxBuffer_) \cup ToSet(x)
    BY <2>1, ConcatToSet
  <2> QED
    BY <1>1, <2>2
<1>6. InOrder(packet')
  <2>1. \A a \in ToSet(rxBuffer_), b \in ToSet(x) : Before(a, b)
    BY <1>2, <1>4 DEF OrderInv, Precede
  <2> QED
    BY <1>1, <1>2, <1>4, <2>1, InOrderConcat DEF OrderInv
<1>7. rxData' \in Seq(Bytes) /\ InOrder(rxData') /\ Len(rxData') <= BufferSize
  BY <1>1, <1>2, <1>3, <1>4, Constants
<1>8. /\ Coming' = ToSet(rxData') \cup ToSet(line)
      /\ Coming = ToSet(packet') \cup Coming'
      /\ Precede(ToSet(packet'), Coming')
      /\ Precede(ToSet(rxData'), ToSet(line))
  <2>1. Coming' = ToSet(rxData') \cup ToSet(line)
    BY <1>1, EmptyToSet DEF Coming
  <2>2. Coming = ToSet(packet') \cup Coming'
    BY <1>1, <1>4, <1>5, <2>1 DEF Coming
  <2>3. /\ Precede(ToSet(packet'), Coming')
        /\ Precede(ToSet(rxData'), ToSet(line))
    BY <1>1, <1>2, <1>4, <1>5, <2>1 DEF OrderInv, Precede
  <2> QED
    BY <2>1, <2>2, <2>3
<1>9. m \in 1 .. m /\ m \in 1 .. Len(x)
  BY <1>1, <1>2, <1>3, <1>4
<1>10. x[m] \in ToSet(packet') /\ x[m] \in ToSet(x) /\ IsZero(x[m])
  BY <1>3, <1>4, <1>5, <1>9, ToSetIff
<1>11. ASSUME NEW b \in ToSet(packet')
       PROVE  b = x[m] \/ (Before(b, x[m]) /\ ~IsZero(b))
  <2>1. CASE b \in ToSet(rxBuffer_)
    BY <1>2, <1>4, <1>10, <2>1 DEF OrderInv, GoneInv, Precede
  <2>2. CASE b \in ToSet(x)
    <3>1. PICK k \in 1 .. m : b = x[k]
      BY <1>4, <2>2, ToSetIff
    <3>2. CASE k = m
      BY <3>1, <3>2
    <3>3. CASE k # m
      <4>1. k \in 1 .. m - 1 /\ k < m /\ k \in 1 .. Len(x)
        BY <1>3, <1>4, <3>3
      <4>2. Before(x[k], x[m])
        BY <1>4, <1>9, <4>1 DEF InOrder
      <4>3. ~IsZero(x[k])
        BY <1>3, <1>4, <4>1
      <4> QED
        BY <3>1, <4>2, <4>3
    <3> QED
      BY <3>2, <3>3
  <2> QED
    BY <1>5, <2>1, <2>2
<1> QED
  BY <1>5, <1>6, <1>7, <1>8, <1>10, <1>11

\* A packet that was untouched and ahead is still ahead, or it is the one taken.
LEMMA TakeReceives ==
  ASSUME StreamInv, TakePacket, NEW f \in Frames, Ahead(f)
  PROVE  IsFrame(packet', f) \/ Ahead(f)'
<1> DEFINE T == ToSet(packet')
<1>1. /\ packet' \in Seq(Bytes) /\ InOrder(packet')
      /\ Coming = T \cup Coming' /\ Precede(T, Coming')
  BY TakenBytes
<1>2. PICK z \in T : /\ IsZero(z)
                     /\ \A b \in T : b = z \/ (Before(b, z) /\ ~IsZero(b))
  BY TakenBytes
<1>3. Coming \in SUBSET Bytes
  BY BytesAround DEF StreamInv
<1>4. z \in Bytes /\ z \in Coming /\ z.pos = FrameLength
  BY <1>1, <1>2, <1>3 DEF IsZero
<1>5. ASSUME NEW b \in Coming', b.pos <= FrameLength
      PROVE  b.frame > z.frame
  BY <1>1, <1>3, <1>4, <1>5, ByteFields DEF Precede, Before
<1>6. \A b \in Coming' : b.frame > z.frame
  BY <1>1, <1>3, <1>5, ByteFields
<1>7. \A b \in T : b.frame <= z.frame
  BY <1>1, <1>2, <1>3, ByteFields DEF Before
<1>8. \A b \in T : IsZero(b) => b = z
  BY <1>2
<1>9. f \in Nat /\ z.frame \in Nat
  BY <1>4, ByteFields DEF Frames
<1>10. CASE z.frame > f
  <2>1. [frame |-> f, pos |-> FrameLength] \in Bytes
    BY ByteFields, Constants
  <2>2. [frame |-> f, pos |-> FrameLength] \in Coming
    BY <2>1 DEF Ahead
  <2>3. [frame |-> f, pos |-> FrameLength] \in T
    BY <1>1, <1>6, <1>9, <1>10, <2>2
  <2>4. [frame |-> f, pos |-> FrameLength] = z
    BY <1>8, <2>3 DEF IsZero
  <2>5. z.frame = f
    BY <2>4
  <2> QED
    BY <1>9, <1>10, <2>5
<1>11. CASE z.frame = f
  <2>1. \A b \in Coming : ~(b.frame = f - 1 /\ IsZero(b))
    BY <1>1, <1>6, <1>8, <1>9, <1>11
  <2>2. \A b \in Coming : b.frame >= f
    BY <2>1 DEF Ahead
  <2>3. \A b \in T : b.frame = f
    BY <1>1, <1>3, <1>7, <1>9, <1>11, <2>2, ByteFields
  <2>4. \A b \in Bytes : b.frame = f => b \in T
    BY <1>1, <1>6, <1>9, <1>11 DEF Ahead
  <2>5. T = {b \in Bytes : b.frame = f}
    BY <1>1, <1>3, <2>3, <2>4
  <2> QED
    BY <1>1, <2>5, InOrderIsFrame
<1>12. CASE z.frame < f
  <2>1. \A b \in Bytes : b.frame = f => b \in Coming'
    BY <1>1, <1>3, <1>7, <1>9, <1>12, ByteFields DEF Ahead
  <2>2. PICK c \in Coming : c.frame = f - 1 /\ IsZero(c)
    BY <1>4, <1>9, <1>12 DEF Ahead
  <2>3. CASE c \in Coming'
    BY <2>1, <2>2, <2>3 DEF Ahead
  <2>4. CASE c \in T
    <3>1. c = z
      BY <1>8, <2>2, <2>4
    <3>2. \A b \in Coming' : b.frame \in Nat /\ b.frame > f - 1
      BY <1>1, <1>3, <1>6, <2>2, <3>1, ByteFields
    <3>3. \A b \in Coming' : b.frame >= f
      BY <1>9, <3>2
    <3> QED
      BY <2>1, <3>3 DEF Ahead
  <2> QED
    BY <1>1, <2>3, <2>4
<1> QED
  BY <1>9, <1>10, <1>11, <1>12

\* Everything up to the zero is a packet.
LEMMA TakePacketStep ==
  ASSUME StreamInv, TakePacket
  PROVE  StreamInv'
<1>1. /\ packet = <<>> /\ rxBuffer_' = <<>> /\ inCall
      /\ UNCHANGED <<rejects, line, lost, dropped, inCall, returned, delivered>>
  BY DEF TakePacket
<1>2. TypeOK /\ OrderInv /\ GoneInv /\ ReceiveInv /\ SilentInv
  BY DEF StreamInv
<1>3. /\ packet' \in Seq(Bytes) /\ rxData' \in Seq(Bytes)
      /\ Len(rxData') <= BufferSize
      /\ InOrder(packet') /\ InOrder(rxData')
      /\ Coming = ToSet(packet') \cup Coming'
      /\ Coming' = ToSet(rxData') \cup ToSet(line)
      /\ Precede(ToSet(packet'), Coming')
      /\ Precede(ToSet(rxData'), ToSet(line))
  BY TakenBytes
<1>4. ToSet(packet) = {} /\ ToSet(rxBuffer_') = {} /\ DeliveredBytes' = DeliveredBytes
  BY <1>1, EmptyToSet DEF DeliveredBytes
<1>5. TypeOK'
  BY <1>1, <1>2, <1>3, EmptyToSet, Constants DEF TypeOK
<1>6. OrderInv'
  BY <1>1, <1>2, <1>3, <1>4, EmptyToSet DEF OrderInv, Precede, InOrderOnce
<1>7. GoneInv'
  BY <1>1, <1>2, <1>3, <1>4 DEF GoneInv
<1>8. ReceiveInv'
  <2> SUFFICES ASSUME NEW f \in Frames \ Unexpected,
                      Spared(f, lost \cup dropped), f \notin ToSet(delivered)
               PROVE  IsFrame(packet', f) \/ Ahead(f)'
    BY <1>1 DEF ReceiveInv
  <2>1. Ahead(f)
    BY <1>1, <1>2, EmptyIsNoFrame DEF ReceiveInv
  <2> QED
    BY <2>1, TakeReceives
<1>9. SilentInv'
  BY <1>1, <1>2, <1>3, <1>4 DEF SilentInv
<1> QED
  BY <1>5, <1>6, <1>7, <1>8, <1>9 DEF StreamInv

\* The packet at hand is done with, whatever it was, and an error is returned.
LEMMA PacketErrorStep ==
  ASSUME StreamInv, inCall, packet' = <<>>, inCall' = FALSE,
         \A f \in Frames \ Unexpected : ~IsFrame(packet, f),
         NEW code \in StatusCodes, code # "SUCCESS",
         returned' = returned \cup {code},
         UNCHANGED <<rejects, line, lost, dropped, rxData, rxBuffer_, delivered>>
  PROVE  StreamInv'
<1>1. TypeOK /\ OrderInv /\ GoneInv /\ ReceiveInv
  BY DEF StreamInv
<1>2. ToSet(packet') = {} /\ Coming' = Coming /\ DeliveredBytes' = DeliveredBytes
  BY EmptyToSet DEF Coming, DeliveredBytes
<1>3. TypeOK'
  BY <1>1, EmptyToSet DEF TypeOK
<1>4. OrderInv'
  BY <1>1, <1>2, EmptyToSet DEF OrderInv, Precede, InOrderOnce
<1>5. GoneInv'
  BY <1>1, <1>2 DEF GoneInv
<1>6. ReceiveInv'
  <2> SUFFICES ASSUME NEW f \in Frames \ Unexpected,
                      Spared(f, lost \cup dropped), f \notin ToSet(delivered)
               PROVE  Ahead(f)'
    BY DEF ReceiveInv
  <2>1. Ahead(f)
    BY <1>1 DEF ReceiveInv
  <2> QED
    BY <1>2, <2>1 DEF Ahead
<1>7. SilentInv'
  BY DEF SilentInv
<1> QED
  BY <1>3, <1>4, <1>5, <1>6, <1>7 DEF StreamInv

LEMMA RejectPacketStep ==
  ASSUME StreamInv, RejectPacket
  PROVE  StreamInv'
<1>1. "ERROR_PACKET" \in StatusCodes /\ "ERROR_PACKET" # "SUCCESS"
  BY DEF StatusCodes
<1> QED
  BY <1>1, PacketErrorStep DEF RejectPacket, Return

LEMMA UnexpectedAckStep ==
  ASSUME StreamInv, NEW f \in Frames, UnexpectedAck(f)
  PROVE  StreamInv'
<1>1. "ERROR_UNEXPECTED_ACK" \in StatusCodes /\ "ERROR_UNEXPECTED_ACK" # "SUCCESS"
  BY DEF StatusCodes
<1>2. packet \in Seq(Bytes) /\ IsFrame(packet, f) /\ f \in Unexpected
  BY DEF StreamInv, TypeOK, UnexpectedAck
<1>3. \A g \in Frames \ Unexpected : ~IsFrame(packet, g)
  BY <1>2, FrameBytes
<1> QED
  BY <1>1, <1>3, PacketErrorStep DEF UnexpectedAck, Return

\* A packet is delivered: it is later than those before and earlier than all that
\* is to come.
LEMMA DispatchStep ==
  ASSUME StreamInv, NEW f \in Frames, Dispatch(f)
  PROVE  StreamInv'
<1>1. /\ IsFrame(packet, f) /\ delivered' = Append(delivered, f) /\ packet' = <<>>
      /\ \/ UNCHANGED <<inCall, returned>>
         \/ inCall' = FALSE /\ returned' = returned \cup {"SUCCESS"}
      /\ UNCHANGED <<rejects, line, lost, dropped, rxData, rxBuffer_>>
  BY DEF Dispatch, Continue, Return
<1>2. /\ TypeOK /\ OrderInv /\ GoneInv /\ ReceiveInv /\ SilentInv
      /\ packet \in Seq(Bytes) /\ delivered \in Seq(Frames)
      /\ Len(delivered) \in Nat
  BY LenProperties DEF StreamInv, TypeOK
<1>3. /\ ToSet(packet) = {b \in Bytes : b.frame = f}
      /\ \A g \in Frames : IsFrame(packet, g) => g = f
  BY <1>1, <1>2, FrameBytes
<1>4. ToSet(packet') = {} /\ Coming' = Coming
  BY <1>1, EmptyToSet DEF Coming
<1>5. /\ delivered' \in Seq(Frames) /\ Len(delivered') = Len(delivered) + 1
      /\ \A k \in 1 .. Len(delivered) : delivered'[k] = delivered[k]
      /\ delivered'[Len(delivered) + 1] = f
  BY <1>1, <1>2, AppendProperties
<1>6. ToSet(delivered') = ToSet(delivered) \cup {f}
  <2>1. ASSUME NEW g \in ToSet(delivered') PROVE g \in ToSet(delivered) \cup {f}
    <3>1. PICK k \in 1 .. Len(delivered) + 1 : g = delivered'[k]
      BY <1>5, ToSetIff
    <3>2. CASE k = Len(delivered) + 1
      BY <1>5, <3>1, <3>2
    <3>3. CASE k # Len(delivered) + 1
      <4>1. k \in 1 .. Len(delivered) /\ g = delivered[k]
        BY <1>2, <1>5, <3>1, <3>3
      <4> QED
        BY <1>2, <4>1, ToSetIff
    <3> QED
      BY <3>2, <3>3
  <2>2. ASSUME NEW g \in ToSet(delivered) PROVE g \in ToSet(delivered')
    <3>1. PICK k \in 1 .. Len(delivered) : g = delivered[k]
      BY <1>2, ToSetIff
    <3>2. k \in 1 .. Len(delivered') /\ g = delivered'[k]
      BY <1>2, <1>5, <3>1
    <3> QED
      BY <1>5, <3>2, ToSetIff
  <2>3. f \in ToSet(delivered')
    <3>1. Len(delivered) + 1 \in 1 .. Len(delivered')
      BY <1>2, <1>5
    <3> QED
      BY <1>5, <3>1, ToSetIff
  <2> QED
    BY <2>1, <2>2, <2>3
<1>7. DeliveredBytes' = DeliveredBytes \cup ToSet(packet)
  BY <1>3, <1>6 DEF DeliveredBytes
<1>8. \A b \in Coming : f < b.frame
  <2> SUFFICES ASSUME NEW b \in Coming PROVE f < b.frame
    OBVIOUS
  <2>1. b \in Bytes
    BY <1>2, BytesAround
  <2> DEFINE z == [frame |-> f, pos |-> FrameLength]
  <2>2. z \in Bytes /\ z.frame = f /\ z.pos = FrameLength
    BY ByteFields, Constants
  <2>3. Before(z, b)
    BY <1>2, <1>3, <2>2 DEF OrderInv, Precede
  <2> HIDE DEF z
  <2> QED
    BY <2>1, <2>2, <2>3, ByteFields DEF Before
<1>9. \A g \in ToSet(delivered) : g < f
  <2>1. [frame |-> f, pos |-> 1] \in ToSet(packet)
    BY <1>3, ByteFields, Constants
  <2>2. \A g \in ToSet(delivered) : g < [frame |-> f, pos |-> 1].frame
    BY <1>2, <2>1 DEF OrderInv
  <2> QED
    BY <2>2
<1>10. InOrderOnce'
  <2> SUFFICES ASSUME NEW j \in 1 .. Len(delivered) + 1,
                      NEW k \in 1 .. Len(delivered) + 1, j < k
               PROVE  delivered'[j] < delivered'[k]
    BY <1>5 DEF InOrderOnce
  <2>1. j \in 1 .. Len(delivered) /\ delivered'[j] = delivered[j]
    BY <1>2, <1>5
  <2>2. CASE k = Len(delivered) + 1
    <3>1. delivered[j] \in ToSet(delivered)
      BY <1>2, <2>1, ToSetIff
    <3> QED
      BY <1>5, <1>9, <2>1, <2>2, <3>1
  <2>3. CASE k # Len(delivered) + 1
    <3>1. k \in 1 .. Len(delivered) /\ delivered'[k] = delivered[k]
      BY <1>2, <1>5, <2>3
    <3> QED
      BY <1>2, <2>1, <3>1 DEF OrderInv, InOrderOnce
  <2> QED
    BY <2>2, <2>3
<1>11. TypeOK'
  <2>1. inCall' \in BOOLEAN /\ returned' \subseteq StatusCodes
    BY <1>1, <1>2 DEF TypeOK, StatusCodes
  <2> QED
    BY <1>1, <1>2, <1>5, <2>1, EmptyToSet DEF TypeOK
<1>12. OrderInv'
  <2>1. \A g \in ToSet(delivered'), b \in ToSet(packet') \cup Coming' : g < b.frame
    BY <1>2, <1>4, <1>6, <1>8 DEF OrderInv
  <2> QED
    BY <1>1, <1>2, <1>4, <1>10, <2>1, EmptyToSet DEF OrderInv, Precede
<1>13. GoneInv'
  BY <1>1, <1>2, <1>4, <1>7 DEF GoneInv
<1>14. ReceiveInv'
  <2> SUFFICES ASSUME NEW g \in Frames \ Unexpected,
                      Spared(g, lost \cup dropped), g \notin ToSet(delivered')
               PROVE  Ahead(g)'
    BY <1>1 DEF ReceiveInv
  <2>1. g \notin ToSet(delivered) /\ g # f
    BY <1>6
  <2>2. Ahead(g)
    BY <1>2, <1>3, <2>1 DEF ReceiveInv
  <2> QED
    BY <1>4, <2>2 DEF Ahead
<1>15. SilentInv'
  BY <1>1, <1>2, <1>4, <1>7 DEF SilentInv
<1> QED
  BY <1>11, <1>12, <1>13, <1>14, <1>15 DEF StreamInv

\* No step breaks the invariant.
LEMMA NextStreamInv ==
  ASSUME StreamInv, [Next]_vars
  PROVE  StreamInv'
<1>1. CASE Lose
  BY <1>1, LoseStep
<1>2. CASE \E n \in 0 .. BufferSize : GiveRxData(n)
  BY <1>2, GiveRxDataStep
<1>3. CASE TakePacket
  BY <1>3, TakePacketStep
<1>4. CASE BufferAll
  BY <1>4, BufferAllStep
<1>5. CASE BufferFull
  BY <1>5, BufferFullStep
<1>6. CASE RejectPacket
  BY <1>6, RejectPacketStep
<1>7. CASE \E f \in Frames : UnexpectedAck(f) \/ Dispatch(f)
  BY <1>7, UnexpectedAckStep, DispatchStep
<1>8. CASE UNCHANGED vars
  <2>1. Coming' = Coming /\ DeliveredBytes' = DeliveredBytes
    BY <1>8 DEF vars, Coming, DeliveredBytes
  <2>2. TypeOK' /\ OrderInv' /\ GoneInv'
    BY <1>8, <2>1 DEF vars, StreamInv, TypeOK, OrderInv, GoneInv, InOrderOnce
  <2>3. ReceiveInv'
    BY <1>8, <2>1 DEF vars, StreamInv, ReceiveInv, Ahead
  <2>4. SilentInv'
    BY <1>8, <2>1 DEF vars, StreamInv, SilentInv
  <2> QED
    BY <2>2, <2>3, <2>4 DEF StreamInv
<1> QED
  BY <1>1, <1>2, <1>3, <1>4, <1>5, <1>6, <1>7, <1>8 DEF Next, Idle

LEMMA StreamInvHolds == SafetySpec => []StreamInv
<1>1. StreamInv /\ [Next]_vars => StreamInv'
  BY NextStreamInv
<1> QED
  BY InitStreamInv, <1>1, PTL DEF SafetySpec

-----------------------------------------------------------------------------
(* The theorems                                                            *)

\* Types, and the capacity of the caller's vector and of rxBuffer_.
THEOREM TypeCorrect == SafetySpec => []TypeOK
<1>1. StreamInv => TypeOK
  BY DEF StreamInv
<1> QED
  BY StreamInvHolds, <1>1, PTL

\* Packets are delivered in the order they were sent, none twice.
THEOREM DeliveredInOrderOnce == SafetySpec => []InOrderOnce
<1>1. StreamInv => InOrderOnce
  BY DEF StreamInv, OrderInv
<1> QED
  BY StreamInvHolds, <1>1, PTL

\* Reception recovers with the next zero: once all is received, every message
\* that lost and dropped bytes left alone has been delivered.
THEOREM ReceptionRecovers == SafetySpec => []Recovers
<1>1. StreamInv => Recovers
  <2> SUFFICES ASSUME StreamInv, Done, NEW f \in Frames \ Unexpected,
                      Spared(f, lost \cup dropped), f \notin ToSet(delivered)
               PROVE  FALSE
    BY DEF Recovers, DeliversAllBut
  <2>1. line = <<>> /\ rxData = <<>> /\ packet = <<>>
    BY DEF Done, StreamInv, GoneInv
  <2>2. Ahead(f)
    BY <2>1, EmptyIsNoFrame DEF StreamInv, ReceiveInv
  <2>3. [frame |-> f, pos |-> FrameLength] \in Coming
    BY <2>2, ByteFields, Constants DEF Ahead
  <2>4. [frame |-> f, pos |-> FrameLength] \in ToSet(rxBuffer_)
    BY <2>1, <2>3, EmptyToSet DEF Coming
  <2>5. ~IsZero([frame |-> f, pos |-> FrameLength])
    BY <2>4 DEF StreamInv, GoneInv
  <2> QED
    BY <2>5 DEF IsZero
<1> QED
  BY StreamInvHolds, <1>1, PTL

\* As long as every call returns SUCCESS, no byte that reached the node is gone:
\* it has been delivered or is kept, in order.
THEOREM NothingDroppedInSilence == SafetySpec => []NoSilentDrop
<1>1. StreamInv => NoSilentDrop
  <2> SUFFICES ASSUME StreamInv, returned \subseteq {"SUCCESS"}
               PROVE  /\ DeliveredBytes \cup ToSet(Kept) = Bytes \ lost
                      /\ \A a \in DeliveredBytes, b \in ToSet(Kept) : Before(a, b)
                      /\ InOrder(Kept)
    BY DEF NoSilentDrop
  <2>1. /\ TypeOK /\ OrderInv /\ SilentInv
        /\ packet \in Seq(Bytes) /\ rxBuffer_ \in Seq(Bytes)
        /\ rxData \in Seq(Bytes) /\ line \in Seq(Bytes)
    BY DEF StreamInv, TypeOK
  <2> DEFINE s == packet \o rxBuffer_
             t == s \o rxData
  <2>2. /\ s \in Seq(Bytes) /\ InOrder(s)
        /\ ToSet(s) = ToSet(packet) \cup ToSet(rxBuffer_)
    BY <2>1, ConcatToSet, InOrderConcat DEF OrderInv, Precede, Coming
  <2> HIDE DEF s
  <2>3. /\ t \in Seq(Bytes) /\ InOrder(t)
        /\ ToSet(t) = ToSet(packet) \cup ToSet(rxBuffer_) \cup ToSet(rxData)
    <3>1. \A a \in ToSet(s), b \in ToSet(rxData) : Before(a, b)
      BY <2>1, <2>2 DEF OrderInv, Precede, Coming
    <3>2. s \in Seq(Bytes) /\ rxData \in Seq(Bytes) /\ InOrder(rxData)
      BY <2>1, <2>2 DEF OrderInv
    <3>3. t \in Seq(Bytes) /\ ToSet(t) = ToSet(s) \cup ToSet(rxData)
      BY <3>2, ConcatToSet
    <3>4. InOrder(t)
      BY <2>2, <3>1, <3>2, InOrderConcat
    <3> QED
      BY <2>2, <3>3, <3>4
  <2>4. Kept = t \o line
    BY DEF Kept, s, t
  <2> HIDE DEF t
  <2>5. InOrder(Kept) /\ ToSet(Kept) = ToSet(packet) \cup Coming
    <3>1. \A a \in ToSet(t), b \in ToSet(line) : Before(a, b)
      BY <2>1, <2>3 DEF OrderInv, Precede, Coming
    <3>2. t \in Seq(Bytes) /\ line \in Seq(Bytes) /\ InOrder(line)
      BY <2>1, <2>3 DEF OrderInv
    <3>3. ToSet(t \o line) = ToSet(t) \cup ToSet(line)
      BY <3>2, ConcatToSet
    <3>4. InOrder(t \o line)
      BY <2>3, <3>1, <3>2, InOrderConcat
    <3> QED
      BY <2>3, <2>4, <3>3, <3>4 DEF Coming
  <2>6. \A a \in DeliveredBytes, b \in ToSet(Kept) : Before(a, b)
    BY <2>1, <2>5 DEF OrderInv, DeliveredBytes, Before
  <2> QED
    BY <2>1, <2>5, <2>6 DEF SilentInv
<1> QED
  BY StreamInvHolds, <1>1, PTL

\* What the header promises (EmbeddedSerialFiller_RTOS.h:59-61) is kept as long
\* as every call returns SUCCESS: once all is received, each packet of which the
\* zero has arrived has been delivered.
SuccessMeansDelivered ==
  Done /\ returned \subseteq {"SUCCESS"} =>
    \A b \in Bytes \ lost : IsZero(b) => b.frame \in ToSet(delivered)

\* The promise of the header, which UndamagedDelivered refutes in general, holds
\* if no call has returned an error.
THEOREM PromiseKeptOnSuccess == SafetySpec => []SuccessMeansDelivered
<1>1. StreamInv => SuccessMeansDelivered
  <2> SUFFICES ASSUME StreamInv, Done, returned \subseteq {"SUCCESS"},
                      NEW b \in Bytes \ lost, IsZero(b)
               PROVE  b.frame \in ToSet(delivered)
    BY DEF SuccessMeansDelivered
  <2>1. line = <<>> /\ rxData = <<>> /\ packet = <<>>
    BY DEF Done, StreamInv, GoneInv
  <2>2. b \in DeliveredBytes \cup ToSet(rxBuffer_)
    BY <2>1, EmptyToSet DEF StreamInv, SilentInv, Coming
  <2>3. b \notin ToSet(rxBuffer_)
    BY DEF StreamInv, GoneInv
  <2> QED
    BY <2>2, <2>3 DEF DeliveredBytes
<1> QED
  BY StreamInvHolds, <1>1, PTL
=============================================================================
