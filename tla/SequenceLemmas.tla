--------------------------- MODULE SequenceLemmas ----------------------------
(***************************************************************************)
(* What the proofs need to know of the operators on sets and sequences     *)
(* that the models search and shorten their tables with.                   *)
(***************************************************************************)
EXTENDS Integers, Sequences, SequencesExt, TLAPS, SequenceTheorems,
        WellFoundedInduction

\* A non-empty set of naturals has a least element, and Min is it.
LEMMA MinIsLeast ==
  ASSUME NEW S \in SUBSET Nat, S # {}
  PROVE  Min(S) \in S /\ \A y \in S : Min(S) <= y
<1>1. PICK x \in S : \A y \in S : ~(<<y, x>> \in OpToRel(<, Nat))
  BY WFMin, NatLessThanWellFounded
<1>2. \A y \in S : x <= y
  <2> TAKE y \in S
  <2>1. ~(<<y, x>> \in OpToRel(<, Nat))
    BY <1>1
  <2>2. ~(y < x)
    BY <2>1 DEF OpToRel
  <2> QED
    BY <2>2
<1> QED
  BY <1>2 DEF Min

\* RemoveAt closes the gap left by the element it removes.
LEMMA RemoveAtProperties ==
  ASSUME NEW S, NEW s \in Seq(S), NEW k \in 1 .. Len(s)
  PROVE  /\ RemoveAt(s, k) \in Seq(S)
         /\ Len(RemoveAt(s, k)) = Len(s) - 1
         /\ \A j \in 1 .. Len(s) - 1 :
              RemoveAt(s, k)[j] = IF j < k THEN s[j] ELSE s[j + 1]
<1> DEFINE left == SubSeq(s, 1, k - 1)
           right == SubSeq(s, k + 1, Len(s))
<1>1. \A i \in 1 .. Len(s) : s[i] \in S
  BY ElementOfSeq
<1>2. Len(s) \in Nat
  BY LenProperties
<1>3. /\ left \in Seq(S)
      /\ Len(left) = k - 1
      /\ \A i \in 1 .. k - 1 : left[i] = s[i]
  <2>1. \A i \in 1 .. k - 1 : s[i] \in S
    BY <1>1, <1>2
  <2>2. /\ left \in Seq(S)
        /\ Len(left) = IF 1 <= k - 1 THEN k - 1 - 1 + 1 ELSE 0
        /\ \A i \in 1 .. k - 1 - 1 + 1 : left[i] = s[1 + i - 1]
    BY <2>1, SubSeqProperties
  <2> QED
    BY <2>2
<1>4. /\ right \in Seq(S)
      /\ Len(right) = Len(s) - k
      /\ \A i \in 1 .. Len(s) - k : right[i] = s[k + i]
  <2>1. \A i \in k + 1 .. Len(s) : s[i] \in S
    BY <1>1, <1>2
  <2>2. /\ right \in Seq(S)
        /\ Len(right) = IF k + 1 <= Len(s) THEN Len(s) - (k + 1) + 1 ELSE 0
        /\ \A i \in 1 .. Len(s) - (k + 1) + 1 : right[i] = s[k + 1 + i - 1]
    BY <2>1, <1>2, SubSeqProperties
  <2> QED
    BY <2>2, <1>2
<1>6. RemoveAt(s, k) = left \o right
  BY DEF RemoveAt
<1> HIDE DEF left, right
<1>5. /\ left \o right \in Seq(S)
      /\ Len(left \o right) = Len(left) + Len(right)
      /\ \A i \in 1 .. Len(left) + Len(right) :
           (left \o right)[i] = IF i <= Len(left) THEN left[i]
                                                  ELSE right[i - Len(left)]
  BY <1>3, <1>4, ConcatProperties
<1>7. \A j \in 1 .. Len(s) - 1 :
        (left \o right)[j] = IF j < k THEN s[j] ELSE s[j + 1]
  <2> TAKE j \in 1 .. Len(s) - 1
  <2>1. CASE j < k
    BY <2>1, <1>2, <1>3, <1>4, <1>5
  <2>2. CASE ~(j < k)
    <3>1. (left \o right)[j] = right[j - (k - 1)]
      BY <2>2, <1>2, <1>3, <1>4, <1>5
    <3>2. right[j - (k - 1)] = s[k + (j - (k - 1))]
      BY <2>2, <1>2, <1>4
    <3>3. k + (j - (k - 1)) = j + 1
      BY <1>2
    <3> QED
      BY <3>1, <3>2, <3>3, <2>2
  <2> QED
    BY <2>1, <2>2
<1> QED
  BY <1>2, <1>3, <1>4, <1>5, <1>6, <1>7

\* RemoveFirst takes one occurrence of the element out, if there is one.
LEMMA RemoveFirstProperties ==
  ASSUME NEW S, NEW s \in Seq(S), NEW e
  PROVE  /\ RemoveFirst(s, e) \in Seq(S)
         /\ \/ /\ \A j \in 1 .. Len(s) : s[j] # e
               /\ RemoveFirst(s, e) = s
            \/ \E k \in 1 .. Len(s) :
                 /\ s[k] = e
                 /\ Len(RemoveFirst(s, e)) = Len(s) - 1
                 /\ \A j \in 1 .. Len(s) - 1 :
                      RemoveFirst(s, e)[j] = IF j < k THEN s[j] ELSE s[j + 1]
<1>1. CASE \A j \in 1 .. Len(s) : s[j] # e
  BY <1>1 DEF RemoveFirst
<1>2. CASE \E j \in 1 .. Len(s) : s[j] = e
  <2> DEFINE I == {j \in 1 .. Len(s) : s[j] = e}
  <2>1. I \in SUBSET Nat /\ I # {}
    BY <1>2, LenProperties
  <2>2. Min(I) \in I
    BY <2>1, MinIsLeast
  <2>3. RemoveFirst(s, e) = RemoveAt(s, Min(I))
    BY <1>2, <2>1 DEF RemoveFirst, SelectInSeq
  <2> QED
    BY <2>2, <2>3, RemoveAtProperties
<1> QED
  BY <1>1, <1>2

\* Sequences that agree on their first n elements have the same prefix.
LEMMA SamePrefix ==
  ASSUME NEW S, NEW s \in Seq(S), NEW t \in Seq(S), NEW n \in Nat,
         n <= Len(s), n <= Len(t), \A i \in 1 .. n : s[i] = t[i]
  PROVE  SubSeq(s, 1, n) = SubSeq(t, 1, n)
<1>1. \A i \in 1 .. n : s[i] \in S /\ t[i] \in S
  BY ElementOfSeq, LenProperties
<1>2. /\ SubSeq(s, 1, n) \in Seq(S)
      /\ Len(SubSeq(s, 1, n)) = n
      /\ \A i \in 1 .. n : SubSeq(s, 1, n)[i] = s[i]
  <2>1. /\ SubSeq(s, 1, n) \in Seq(S)
        /\ Len(SubSeq(s, 1, n)) = IF 1 <= n THEN n - 1 + 1 ELSE 0
        /\ \A i \in 1 .. n - 1 + 1 : SubSeq(s, 1, n)[i] = s[1 + i - 1]
    BY <1>1, SubSeqProperties
  <2> QED
    BY <2>1
<1>3. /\ SubSeq(t, 1, n) \in Seq(S)
      /\ Len(SubSeq(t, 1, n)) = n
      /\ \A i \in 1 .. n : SubSeq(t, 1, n)[i] = t[i]
  <2>1. /\ SubSeq(t, 1, n) \in Seq(S)
        /\ Len(SubSeq(t, 1, n)) = IF 1 <= n THEN n - 1 + 1 ELSE 0
        /\ \A i \in 1 .. n - 1 + 1 : SubSeq(t, 1, n)[i] = t[1 + i - 1]
    BY <1>1, SubSeqProperties
  <2> QED
    BY <2>1
<1> QED
  BY <1>2, <1>3, SeqEqual

\* The elements of a sequence.
LEMMA ToSetIff ==
  ASSUME NEW S, NEW s \in Seq(S)
  PROVE  /\ ToSet(s) \in SUBSET S
         /\ \A x : x \in ToSet(s) <=> \E k \in 1 .. Len(s) : x = s[k]
         /\ ToSet(s) = {} <=> s = <<>>
<1>1. DOMAIN s = 1 .. Len(s) /\ Len(s) \in Nat
  BY LenProperties
<1>2. \A k \in 1 .. Len(s) : s[k] \in S
  BY ElementOfSeq
<1>3. \A x : x \in ToSet(s) <=> \E k \in 1 .. Len(s) : x = s[k]
  BY <1>1 DEF ToSet
<1>4. CASE s = <<>>
  BY <1>2, <1>3, <1>4
<1>5. CASE s # <<>>
  <2>1. 1 \in 1 .. Len(s)
    BY <1>1, <1>5, EmptySeq
  <2> QED
    BY <1>2, <1>3, <1>5, <2>1
<1> QED
  BY <1>4, <1>5

\* The two parts of a sequence that is cut behind its n-th element.
LEMMA CutProperties ==
  ASSUME NEW S, NEW s \in Seq(S), NEW n \in 0 .. Len(s)
  PROVE  /\ SubSeq(s, 1, n) \in Seq(S)
         /\ Len(SubSeq(s, 1, n)) = n
         /\ \A k \in 1 .. n : SubSeq(s, 1, n)[k] = s[k]
         /\ SubSeq(s, n + 1, Len(s)) \in Seq(S)
         /\ Len(SubSeq(s, n + 1, Len(s))) = Len(s) - n
         /\ \A k \in 1 .. Len(s) - n : SubSeq(s, n + 1, Len(s))[k] = s[n + k]
<1>1. n \in Nat /\ 0 <= n /\ n <= Len(s) /\ Len(s) \in Nat
  BY LenProperties
<1>2. \A k \in 1 .. Len(s) : s[k] \in S
  BY ElementOfSeq
<1>3. /\ SubSeq(s, 1, n) \in Seq(S)
      /\ Len(SubSeq(s, 1, n)) = IF 1 <= n THEN n - 1 + 1 ELSE 0
      /\ \A k \in 1 .. n - 1 + 1 : SubSeq(s, 1, n)[k] = s[1 + k - 1]
  <2>1. \A k \in 1 .. n : s[k] \in S
    BY <1>1, <1>2
  <2> QED
    BY <1>1, <2>1, SubSeqProperties
<1>4. /\ SubSeq(s, n + 1, Len(s)) \in Seq(S)
      /\ Len(SubSeq(s, n + 1, Len(s)))
           = IF n + 1 <= Len(s) THEN Len(s) - (n + 1) + 1 ELSE 0
      /\ \A k \in 1 .. Len(s) - (n + 1) + 1 :
           SubSeq(s, n + 1, Len(s))[k] = s[n + 1 + k - 1]
  <2>1. \A k \in n + 1 .. Len(s) : s[k] \in S
    BY <1>1, <1>2
  <2> QED
    BY <1>1, <2>1, SubSeqProperties
<1> QED
  BY <1>1, <1>3, <1>4

\* Between them, the two parts have the elements of the sequence.
LEMMA CutToSet ==
  ASSUME NEW S, NEW s \in Seq(S), NEW n \in 0 .. Len(s)
  PROVE  ToSet(s) = ToSet(SubSeq(s, 1, n)) \cup ToSet(SubSeq(s, n + 1, Len(s)))
<1> DEFINE a == SubSeq(s, 1, n)
           b == SubSeq(s, n + 1, Len(s))
<1>1. /\ a \in Seq(S) /\ Len(a) = n
      /\ \A k \in 1 .. n : a[k] = s[k]
      /\ b \in Seq(S) /\ Len(b) = Len(s) - n
      /\ \A k \in 1 .. Len(s) - n : b[k] = s[n + k]
      /\ Len(s) \in Nat
  BY CutProperties, LenProperties
<1> HIDE DEF a, b
<1>2. ASSUME NEW x \in ToSet(s) PROVE x \in ToSet(a) \cup ToSet(b)
  <2>1. PICK k \in 1 .. Len(s) : x = s[k]
    BY ToSetIff
  <2>2. CASE k <= n
    <3>1. k \in 1 .. Len(a) /\ x = a[k]
      BY <1>1, <2>1, <2>2
    <3> QED
      BY <3>1, <1>1, ToSetIff
  <2>3. CASE k > n
    <3>1. k - n \in 1 .. Len(b) /\ x = b[k - n]
      BY <1>1, <2>1, <2>3
    <3> QED
      BY <3>1, <1>1, ToSetIff
  <2> QED
    BY <2>2, <2>3
<1>3. ASSUME NEW x \in ToSet(a) PROVE x \in ToSet(s)
  <2>1. PICK k \in 1 .. Len(a) : x = a[k]
    BY <1>1, ToSetIff
  <2>2. k \in 1 .. Len(s) /\ x = s[k]
    BY <1>1, <2>1
  <2> QED
    BY <2>2, ToSetIff
<1>4. ASSUME NEW x \in ToSet(b) PROVE x \in ToSet(s)
  <2>1. PICK k \in 1 .. Len(b) : x = b[k]
    BY <1>1, ToSetIff
  <2>2. n + k \in 1 .. Len(s) /\ x = s[n + k]
    BY <1>1, <2>1
  <2> QED
    BY <2>2, ToSetIff
<1>5. ToSet(s) = ToSet(a) \cup ToSet(b)
  BY <1>2, <1>3, <1>4
<1> QED
  BY <1>5 DEF a, b

\* The elements of two sequences, one after the other.
LEMMA ConcatToSet ==
  ASSUME NEW S, NEW s \in Seq(S), NEW t \in Seq(S)
  PROVE  /\ s \o t \in Seq(S)
         /\ Len(s \o t) = Len(s) + Len(t)
         /\ ToSet(s \o t) = ToSet(s) \cup ToSet(t)
<1>1. /\ s \o t \in Seq(S)
      /\ Len(s \o t) = Len(s) + Len(t)
      /\ \A k \in 1 .. Len(s) + Len(t) :
           (s \o t)[k] = IF k <= Len(s) THEN s[k] ELSE t[k - Len(s)]
      /\ Len(s) \in Nat /\ Len(t) \in Nat
  BY ConcatProperties, LenProperties
<1> DEFINE c == s \o t
<1> HIDE DEF c
<1>2. /\ c \in Seq(S) /\ Len(c) = Len(s) + Len(t)
      /\ \A k \in 1 .. Len(s) + Len(t) :
           c[k] = IF k <= Len(s) THEN s[k] ELSE t[k - Len(s)]
  BY <1>1 DEF c
<1>3. ASSUME NEW x \in ToSet(c) PROVE x \in ToSet(s) \cup ToSet(t)
  <2>1. PICK k \in 1 .. Len(c) : x = c[k]
    BY <1>2, ToSetIff
  <2>2. k <= Len(s) => k \in 1 .. Len(s) /\ x = s[k]
    BY <1>1, <1>2, <2>1
  <2>3. ~(k <= Len(s)) => k - Len(s) \in 1 .. Len(t) /\ x = t[k - Len(s)]
    BY <1>1, <1>2, <2>1
  <2> QED
    BY <2>2, <2>3, ToSetIff
<1>4. ASSUME NEW x \in ToSet(s) PROVE x \in ToSet(c)
  <2>1. PICK k \in 1 .. Len(s) : x = s[k]
    BY ToSetIff
  <2>2. k \in 1 .. Len(c) /\ x = c[k]
    BY <1>1, <1>2, <2>1
  <2> QED
    BY <1>2, <2>2, ToSetIff
<1>5. ASSUME NEW x \in ToSet(t) PROVE x \in ToSet(c)
  <2>1. PICK k \in 1 .. Len(t) : x = t[k]
    BY ToSetIff
  <2>2. Len(s) + k \in 1 .. Len(c) /\ ~(Len(s) + k <= Len(s)) /\ Len(s) + k - Len(s) = k
    BY <1>1, <1>2
  <2>3. x = c[Len(s) + k]
    BY <1>2, <2>1, <2>2
  <2> QED
    BY <1>2, <2>2, <2>3, ToSetIff
<1>6. ToSet(c) = ToSet(s) \cup ToSet(t)
  BY <1>3, <1>4, <1>5
<1> QED
  BY <1>1, <1>6 DEF c

\* The part of a sequence that has the elements of t is t.
LEMMA Slice ==
  ASSUME NEW S, NEW s \in Seq(S), NEW t \in Seq(S), NEW a \in Nat,
         a + Len(t) <= Len(s), \A k \in 1 .. Len(t) : s[a + k] = t[k]
  PROVE  SubSeq(s, a + 1, a + Len(t)) = t
<1> DEFINE n == Len(t)
           p == SubSeq(s, a + 1, a + n)
<1>1. n \in Nat /\ Len(s) \in Nat
  BY LenProperties
<1>2. \A k \in a + 1 .. a + n : s[k] \in S
  BY <1>1, ElementOfSeq
<1>3. /\ p \in Seq(S)
      /\ Len(p) = IF a + 1 <= a + n THEN a + n - (a + 1) + 1 ELSE 0
      /\ \A k \in 1 .. a + n - (a + 1) + 1 : p[k] = s[a + 1 + k - 1]
  BY <1>1, <1>2, SubSeqProperties
<1> HIDE DEF p
<1>4. Len(p) = n
  BY <1>1, <1>3
<1>5. \A k \in 1 .. n : p[k] = t[k]
  BY <1>1, <1>3
<1>6. p = t
  BY <1>3, <1>4, <1>5, SeqEqual
<1> QED
  BY <1>6 DEF p

\* Tuples of two and of three are sequences.
LEMMA Pair ==
  ASSUME NEW S, NEW a \in S, NEW b \in S
  PROVE  /\ <<a, b>> \in Seq(S) /\ Len(<<a, b>>) = 2
         /\ <<a, b>>[1] = a /\ <<a, b>>[2] = b
OBVIOUS

LEMMA Triple ==
  ASSUME NEW S, NEW a \in S, NEW b \in S, NEW c \in S
  PROVE  /\ <<a, b, c>> \in Seq(S) /\ Len(<<a, b, c>>) = 3
         /\ <<a, b, c>>[1] = a /\ <<a, b, c>>[2] = b /\ <<a, b, c>>[3] = c
OBVIOUS
=============================================================================
