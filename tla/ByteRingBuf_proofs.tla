-------------------------- MODULE ByteRingBuf_proofs --------------------------
(***************************************************************************)
(* For byte rings of every size and blocks of every length: the ring is    *)
(* type-correct, it implements the overwriting queue, and the comparisons  *)
(* made on it are those of the sequence of its bytes.                      *)
(*                                                                         *)
(* The work is in the wrap.  A place in the ring is named by its distance  *)
(* from the tail where it is read and by its distance from the head where  *)
(* it is written; the lemmas on places say which are the same slot.        *)
(***************************************************************************)
EXTENDS MCByteRingBuf, SequencesExt, SequenceTheorems, TLAPS

USE SizeAssumption

-----------------------------------------------------------------------------
(* Sequences compared place by place *)

\* Sequences of the same length with the same elements are equal.
LEMMA SameElements ==
  ASSUME NEW S, NEW s \in Seq(S), NEW t \in Seq(S), Len(s) = Len(t),
         \A i \in 1 .. Len(s) : s[i] = t[i]
  PROVE  s = t
OBVIOUS

\* Every place of s agrees with the same place of t, counted from the front or the back.
SameStart(s, t) == Len(s) <= Len(t) /\ \A i \in 1 .. Len(s) : s[i] = t[i]

SameEnd(s, t) == /\ Len(s) <= Len(t)
                 /\ \A i \in 1 .. Len(s) : s[Len(s) - i + 1] = t[Len(t) - i + 1]

LEMMA PrefixPlaces ==
  ASSUME NEW S, NEW s \in Seq(S), NEW t \in Seq(S)
  PROVE  IsPrefix(s, t) <=> SameStart(s, t)
<1>1. CASE Len(s) <= Len(t)
  <2> DEFINE n == Len(s)
  <2>1. n \in Nat /\ Len(t) \in Nat /\ n <= Len(t)
    BY <1>1
  <2>2. SubSeq(s, 1, n) \in Seq(S) /\ SubSeq(s, 1, n) = s
    OBVIOUS
  <2>3. /\ SubSeq(t, 1, n) \in Seq(S) /\ Len(SubSeq(t, 1, n)) = n
        /\ \A i \in 1 .. n : SubSeq(t, 1, n)[i] = t[i]
    <3> HIDE DEF n
    <3> QED BY <2>1
  <2>4. (\A i \in 1 .. n : s[i] = t[i]) => s = SubSeq(t, 1, n)
    BY <2>3, SameElements
  <2>5. IsPrefix(s, t) <=> s = SubSeq(t, 1, n)
    BY <1>1, <2>2 DEF IsPrefix
  <2> QED BY <1>1, <2>3, <2>4, <2>5 DEF SameStart
<1>2. CASE ~(Len(s) <= Len(t))
  BY <1>2 DEF IsPrefix, SameStart
<1> QED BY <1>1, <1>2

\* The i-th place from the end comes i-th.
LEMMA ReversePlaces ==
  ASSUME NEW S, NEW s \in Seq(S)
  PROVE  /\ Reverse(s) \in Seq(S) /\ Len(Reverse(s)) = Len(s)
         /\ \A i \in 1 .. Len(s) : Reverse(s)[i] = s[Len(s) - i + 1]
<1> DEFINE n == Len(s)
<1>1. n \in Nat
  OBVIOUS
<1> HIDE DEF n
<1>2. \A i \in 1 .. n : n - i + 1 \in 1 .. n
  BY <1>1
<1>3. \A i \in 1 .. n : s[n - i + 1] \in S
  <2> TAKE i \in 1 .. n
  <2> DEFINE j == n - i + 1
  <2>1. j \in 1 .. Len(s)
    BY <1>2 DEF n
  <2> HIDE DEF j
  <2>2. s[j] \in S
    BY <2>1
  <2> QED BY <2>2 DEF j
<1>4. Reverse(s) = [i \in 1 .. n |-> s[n - i + 1]]
  BY DEF Reverse, n
<1>5. Reverse(s) \in Seq(S) /\ Len(Reverse(s)) = n /\ \A i \in 1 .. n : Reverse(s)[i] = s[n - i + 1]
  BY <1>1, <1>3, <1>4
<1> QED BY <1>5 DEF n

\* A suffix agrees in every place counted from the back.
LEMMA SuffixPlaces ==
  ASSUME NEW S, NEW s \in Seq(S), NEW t \in Seq(S)
  PROVE  IsSuffix(s, t) <=> SameEnd(s, t)
<1>1. /\ Reverse(s) \in Seq(S) /\ Len(Reverse(s)) = Len(s)
      /\ \A i \in 1 .. Len(s) : Reverse(s)[i] = s[Len(s) - i + 1]
      /\ Reverse(t) \in Seq(S) /\ Len(Reverse(t)) = Len(t)
      /\ \A i \in 1 .. Len(t) : Reverse(t)[i] = t[Len(t) - i + 1]
  BY ReversePlaces
<1>2. IsSuffix(s, t) <=> SameStart(Reverse(s), Reverse(t))
  BY <1>1, PrefixPlaces DEF IsSuffix
<1>3. SameStart(Reverse(s), Reverse(t)) <=>
        Len(s) <= Len(t) /\ \A i \in 1 .. Len(s) : Reverse(s)[i] = Reverse(t)[i]
  BY <1>1 DEF SameStart
<1>4. ASSUME Len(s) <= Len(t), NEW i \in 1 .. Len(s)
      PROVE  /\ Reverse(s)[i] = s[Len(s) - i + 1]
             /\ Reverse(t)[i] = t[Len(t) - i + 1]
  <2>1. i \in 1 .. Len(t)
    BY <1>4
  <2> QED BY <1>1, <2>1
<1> QED BY <1>2, <1>3, <1>4 DEF SameEnd

-----------------------------------------------------------------------------
(* Places in the ring *)

\* Within two rounds a remainder is a comparison and a subtraction.
LEMMA Wrap ==
  ASSUME NEW a \in Nat, a < Size + Size
  PROVE  a % Size = (IF a < Size THEN a ELSE a - Size) /\ a % Size \in Slot
<1>1. CASE a < Size
  BY <1>1, SMT DEF Slot
<1>2. CASE a >= Size
  BY <1>2, SMT DEF Slot
<1> QED BY <1>1, <1>2

\* Two places are one slot if they are equal or one round apart.
LEMMA SameSlot ==
  ASSUME NEW a \in Nat, NEW b \in Nat, a < Size + Size, b < Size + Size,
         a = b \/ a = b + Size \/ b = a + Size
  PROVE  a % Size = b % Size
<1>1. /\ a % Size = IF a < Size THEN a ELSE a - Size
      /\ b % Size = IF b < Size THEN b ELSE b - Size
  BY Wrap
<1> QED BY <1>1

\* How many bytes there are, how many fit, and where the head is.
LEMMA Used ==
  ASSUME TypeOK
  PROVE  /\ getUsed \in 0 .. Size - 1 /\ getFree = Size - 1 - getUsed
         /\ tail + getUsed \in Nat /\ tail + getUsed < Size + Size
         /\ head = IF tail + getUsed < Size THEN tail + getUsed ELSE tail + getUsed - Size
BY DEF TypeOK, Slot, getUsed, getFree

\* The distance from the tail to the head determines the bytes used.
LEMMA UsedIs ==
  ASSUME NEW t \in Slot, NEW h \in Slot, NEW u \in 0 .. Size - 1,
         h = IF t + u < Size THEN t + u ELSE t + u - Size
  PROVE  (IF t > h THEN Size - t + h ELSE h - t) = u
BY DEF Slot

\* What a reader sees of a ring with contents b, the oldest of n bytes at t.
Ring(b, t, n) == [i \in 1 .. n |-> b[(t + i - 1) % Size]]

LEMMA RingSeq ==
  ASSUME NEW b \in [Slot -> Byte], NEW t \in Slot, NEW n \in 0 .. Size - 1
  PROVE  /\ Ring(b, t, n) \in Seq(Byte) /\ Len(Ring(b, t, n)) = n
         /\ \A i \in 1 .. n : Ring(b, t, n)[i] = b[(t + i - 1) % Size]
<1>1. \A i \in 1 .. n : t + i - 1 \in Nat /\ t + i - 1 < Size + Size
  BY DEF Slot
<1>2. \A i \in 1 .. n : (t + i - 1) % Size \in Slot
  BY <1>1, Wrap
<1>3. \A i \in 1 .. n : b[(t + i - 1) % Size] \in Byte
  BY <1>2
<1> QED BY <1>3 DEF Ring

LEMMA ItemsSeq ==
  ASSUME TypeOK
  PROVE  /\ Items \in Seq(Byte) /\ Len(Items) = getUsed
         /\ \A i \in 1 .. getUsed : Items[i] = buf[(tail + i - 1) % Size]
<1>1. Items = Ring(buf, tail, getUsed)
  BY DEF Items, Ring
<1> QED BY <1>1, Used, RingSeq DEF TypeOK

LEMMA ItemsSeqNext ==
  ASSUME TypeOK', NEW u \in 0 .. Size - 1, getUsed' = u
  PROVE  /\ Items' \in Seq(Byte) /\ Len(Items') = u
         /\ \A i \in 1 .. u : Items'[i] = buf'[(tail' + i - 1) % Size]
<1>1. Items' = Ring(buf', tail', u)
  BY DEF Items, Ring
<1>2. buf' \in [Slot -> Byte] /\ tail' \in Slot
  BY DEF TypeOK
<1> QED BY <1>1, <1>2, RingSeq

\* The same for the bytes used after a step.
LEMMA UsedNext ==
  ASSUME TypeOK', NEW u \in 0 .. Size - 1,
         head' = IF tail' + u < Size THEN tail' + u ELSE tail' + u - Size
  PROVE  getUsed' = u
<1>1. tail' \in Slot /\ head' \in Slot
  BY DEF TypeOK
<1>2. getUsed' = IF tail' > head' THEN Size - tail' + head' ELSE head' - tail'
  BY DEF getUsed
<1> QED BY <1>1, <1>2, UsedIs

LEMMA LeastIs ==
  ASSUME NEW m \in Int, NEW n \in Int
  PROVE  /\ Least(m, n) \in {m, n} /\ Least(m, n) <= m /\ Least(m, n) <= n
         /\ m <= n => Least(m, n) = m
         /\ n <= m => Least(m, n) = n
BY DEF Least

LEMMA BlockSeq ==
  ASSUME NEW source \in Blocks
  PROVE  source \in Seq(Byte) /\ Len(source) \in Nat
<1>1. PICK n \in 0 .. MaxWrite : source \in [1 .. n -> Byte]
  BY DEF Blocks
<1>2. n \in Nat
  OBVIOUS
<1> QED BY <1>1, <1>2

-----------------------------------------------------------------------------
(* write() *)

\* The two pieces of a block: byte m of it goes to the m-th place from the head, and every
\* other place is left alone.
LEMMA Copied ==
  ASSUME TypeOK, NEW source \in Seq(Byte), NEW len \in 0 .. Size - 1, len <= Len(source)
  PROVE  /\ CopyIn(source, len) \in [Slot -> Byte]
         /\ \A m \in 1 .. len : CopyIn(source, len)[(head + m - 1) % Size] = source[m]
         /\ \A d \in len .. Size - 1 :
              CopyIn(source, len)[(head + d) % Size] = buf[(head + d) % Size]
<1> DEFINE first == Least(len, Size - head)
           b == CopyIn(source, len)
<1>1. head \in Slot /\ buf \in [Slot -> Byte] /\ Len(source) \in Nat
  BY DEF TypeOK
<1>2. first = IF len < Size - head THEN len ELSE Size - head
  BY DEF Least
<1>3. first \in 0 .. Size /\ first <= len
  BY <1>1, <1>2 DEF Slot
<1>4. b = [j \in Slot |->
             CASE j \in head .. head + first - 1 -> source[j - head + 1]
               [] j \in 0 .. len - first - 1     -> source[first + j + 1]
               [] OTHER                          -> buf[j]]
  BY DEF CopyIn
<1> HIDE DEF b, first
<1>5. ASSUME NEW j \in Slot, j \in head .. head + first - 1
      PROVE  b[j] = source[j - head + 1] /\ j - head + 1 \in 1 .. Len(source)
  <2>1. ~(j \in 0 .. len - first - 1)
    BY <1>1, <1>2, <1>5 DEF Slot
  <2>2. b[j] = source[j - head + 1]
    BY <1>4, <1>5, <2>1
  <2>3. j - head + 1 \in 1 .. Len(source)
    BY <1>1, <1>3, <1>5 DEF Slot
  <2> QED BY <2>2, <2>3
<1>6. ASSUME NEW j \in Slot, j \in 0 .. len - first - 1
      PROVE  b[j] = source[first + j + 1] /\ first + j + 1 \in 1 .. Len(source)
  <2>1. ~(j \in head .. head + first - 1)
    BY <1>1, <1>2, <1>6 DEF Slot
  <2>2. b[j] = source[first + j + 1]
    BY <1>4, <1>6, <2>1
  <2>3. first + j + 1 \in 1 .. Len(source)
    BY <1>1, <1>3, <1>6 DEF Slot
  <2> QED BY <2>2, <2>3
<1>7. ASSUME NEW j \in Slot, j \notin head .. head + first - 1, j \notin 0 .. len - first - 1
      PROVE  b[j] = buf[j]
  BY <1>4, <1>7
<1>8. b \in [Slot -> Byte]
  <2>1. \A j \in Slot : b[j] \in Byte
    <3> TAKE j \in Slot
    <3>1. CASE j \in head .. head + first - 1
      BY <1>5, <3>1, ElementOfSeq
    <3>2. CASE j \in 0 .. len - first - 1
      BY <1>6, <3>2, ElementOfSeq
    <3>3. CASE j \notin head .. head + first - 1 /\ j \notin 0 .. len - first - 1
      BY <1>1, <1>7, <3>3
    <3> QED BY <3>1, <3>2, <3>3
  <2>2. DOMAIN b = Slot /\ b = [j \in Slot |-> b[j]]
    BY <1>4
  <2> QED BY <2>1, <2>2
<1>9. ASSUME NEW m \in 1 .. len PROVE b[(head + m - 1) % Size] = source[m]
  <2> DEFINE a == head + m - 1
  <2>1. a \in Nat /\ a < Size + Size /\ a = head + m - 1
    BY <1>1 DEF Slot
  <2> HIDE DEF a
  <2> DEFINE j == a % Size
  <2>2. j = (IF a < Size THEN a ELSE a - Size) /\ j \in Slot
    BY <2>1, Wrap
  <2> HIDE DEF j
  <2>3. CASE a < Size
    <3>1. j \in head .. head + first - 1 /\ j - head + 1 = m
      BY <1>1, <1>2, <2>1, <2>2, <2>3 DEF Slot
    <3> QED BY <1>5, <2>1, <2>2, <3>1 DEF j
  <2>4. CASE a >= Size
    <3>1. j \in 0 .. len - first - 1 /\ first + j + 1 = m
      BY <1>1, <1>2, <2>1, <2>2, <2>4 DEF Slot
    <3> QED BY <1>6, <2>1, <2>2, <3>1 DEF j
  <2> QED BY <2>1, <2>3, <2>4
<1>10. ASSUME NEW d \in len .. Size - 1 PROVE b[(head + d) % Size] = buf[(head + d) % Size]
  <2> DEFINE a == head + d
  <2>1. a \in Nat /\ a < Size + Size /\ a = head + d
    BY <1>1 DEF Slot
  <2> HIDE DEF a
  <2> DEFINE j == a % Size
  <2>2. j = (IF a < Size THEN a ELSE a - Size) /\ j \in Slot
    BY <2>1, Wrap
  <2> HIDE DEF j
  <2>3. j \notin head .. head + first - 1 /\ j \notin 0 .. len - first - 1
    BY <1>1, <1>2, <2>1, <2>2 DEF Slot
  <2>4. b[j] = buf[j]
    BY <1>7, <2>2, <2>3
  <2> QED BY <2>1, <2>4 DEF j
<1> QED BY <1>8, <1>9, <1>10 DEF b

\* len bytes of the block are taken: a block longer than the ring is cut.
Taken(source, len) == len = Least(Len(source), Size - 1)

\* Where a write leaves the head and the tail, and so how many bytes it leaves.
LEMMA WriteEnds ==
  ASSUME TypeOK, NEW source \in Seq(Byte), write(source), NEW len, Taken(source, len)
  PROVE  /\ len \in 0 .. Size - 1 /\ len <= Len(source)
         /\ head' = (IF head + len < Size THEN head + len ELSE head + len - Size)
         /\ head' \in Slot /\ tail' \in Slot
         /\ getUsed + len < Size => tail' = tail
         /\ getUsed + len >= Size => tail' = IF head' = Size - 1 THEN 0 ELSE head' + 1
<1>1. head \in Slot /\ tail \in Slot /\ Len(source) \in Nat
  BY DEF TypeOK
<1>2. len \in 0 .. Size - 1 /\ len <= Len(source)
  BY <1>1, LeastIs DEF Taken
<1>3. head + len \in Nat /\ head + len < Size + Size
  BY <1>1, <1>2 DEF Slot
<1>4. head' = (head + len) % Size /\ tail' = IF len > getFree THEN (head' + 1) % Size ELSE tail
  BY DEF write, Taken
<1>5. head' = (IF head + len < Size THEN head + len ELSE head + len - Size) /\ head' \in Slot
  <2> DEFINE a == head + len
  <2> HIDE DEF a
  <2>1. a % Size = (IF a < Size THEN a ELSE a - Size) /\ a % Size \in Slot
    BY <1>3, Wrap DEF a
  <2> QED BY <1>1, <1>2, <1>3, <1>4, <2>1 DEF a, Slot
<1>6. head' + 1 \in Nat /\ head' + 1 < Size + Size
  BY <1>5 DEF Slot
<1>7. (head' + 1) % Size = (IF head' + 1 < Size THEN head' + 1 ELSE head' + 1 - Size)
      /\ (head' + 1) % Size \in Slot
  <2> DEFINE a == head' + 1
  <2>1. a \in Nat /\ a < Size + Size
    BY <1>6
  <2> HIDE DEF a
  <2>2. a % Size = (IF a < Size THEN a ELSE a - Size) /\ a % Size \in Slot
    BY <2>1, Wrap
  <2> QED BY <1>5, <1>6, <2>2 DEF a, Slot
<1>8. getUsed \in 0 .. Size - 1 /\ getFree = Size - 1 - getUsed
  BY Used
<1>9. getUsed + len < Size => tail' = tail
  BY <1>2, <1>4, <1>8
<1>10. getUsed + len >= Size => tail' = (head' + 1) % Size
  BY <1>2, <1>4, <1>8
<1>11. getUsed + len >= Size => tail' = IF head' = Size - 1 THEN 0 ELSE head' + 1
  BY <1>5, <1>7, <1>10 DEF Slot
<1>12. tail' \in Slot
  BY <1>1, <1>4, <1>7
<1> QED BY <1>2, <1>5, <1>9, <1>11, <1>12

LEMMA WriteType ==
  ASSUME TypeOK, NEW source \in Seq(Byte), write(source)
  PROVE  TypeOK'
<1> DEFINE len == Least(Len(source), Size - 1)
<1>0. Taken(source, len)
  BY DEF Taken
<1>1. len \in 0 .. Size - 1 /\ len <= Len(source) /\ head' \in Slot /\ tail' \in Slot
  BY <1>0, WriteEnds
<1>2. buf' = CopyIn(source, len) /\ out' = out
  BY DEF write
<1> HIDE DEF len
<1>3. buf' \in [Slot -> Byte]
  BY <1>1, <1>2, Copied
<1> QED BY <1>1, <1>2, <1>3 DEF TypeOK

\* What a write leaves to be read when the block fits: the bytes already there, and the block.
LEMMA WriteFits ==
  ASSUME TypeOK, NEW source \in Seq(Byte), write(source),
         NEW len, Taken(source, len), getUsed + len < Size
  PROVE  /\ Items' \in Seq(Byte) /\ Len(Items') = getUsed + len
         /\ \A i \in 1 .. getUsed + len :
              Items'[i] = IF i <= getUsed THEN Items[i] ELSE source[i - getUsed]
<1> DEFINE u == getUsed
<1>1. /\ len \in 0 .. Size - 1 /\ len <= Len(source) /\ tail' = tail
      /\ head' = (IF head + len < Size THEN head + len ELSE head + len - Size)
  BY WriteEnds
<1>2. /\ u \in 0 .. Size - 1 /\ tail + u \in Nat /\ head \in Slot /\ tail \in Slot
      /\ head = IF tail + u < Size THEN tail + u ELSE tail + u - Size
  BY Used DEF TypeOK
<1>3. TypeOK' /\ buf' = CopyIn(source, len)
  BY WriteType DEF write, Taken
<1>4. Items \in Seq(Byte) /\ \A i \in 1 .. u : Items[i] = buf[(tail + i - 1) % Size]
  BY ItemsSeq
<1> HIDE DEF u
<1>5. u + len \in 0 .. Size - 1
  BY <1>1, <1>2 DEF u
<1>6. head' = IF tail' + (u + len) < Size THEN tail' + (u + len) ELSE tail' + (u + len) - Size
  BY <1>1, <1>2, <1>5 DEF Slot
<1>7. getUsed' = u + len
  BY <1>3, <1>5, <1>6, UsedNext
<1>8. /\ Items' \in Seq(Byte) /\ Len(Items') = u + len
      /\ \A i \in 1 .. u + len : Items'[i] = buf'[(tail' + i - 1) % Size]
  BY <1>3, <1>5, <1>7, ItemsSeqNext
<1>9. ASSUME NEW i \in 1 .. u PROVE Items'[i] = Items[i]
  <2> DEFINE d == Size - u + i - 1
             a == tail + i - 1
             b == head + d
  <2>1. d \in len .. Size - 1 /\ i \in 1 .. u + len
    BY <1>1, <1>2, <1>5
  <2>2. /\ a \in Nat /\ a < Size + Size /\ b \in Nat /\ b < Size + Size
        /\ a = b \/ a = b + Size \/ b = a + Size
    BY <1>2 DEF Slot
  <2> HIDE DEF a, b, d
  <2>3. a % Size = b % Size
    BY <2>2, SameSlot
  <2>4. buf'[b % Size] = buf[b % Size]
    BY <1>1, <1>3, <2>1, Copied DEF b
  <2>5. Items'[i] = buf'[a % Size] /\ Items[i] = buf[a % Size]
    BY <1>1, <1>4, <1>8, <2>1 DEF a
  <2> QED BY <2>3, <2>4, <2>5
<1>10. ASSUME NEW i \in 1 .. u + len, i > u PROVE Items'[i] = source[i - u]
  <2> DEFINE m == i - u
             a == tail + i - 1
             b == head + m - 1
  <2>1. m \in 1 .. len
    BY <1>1, <1>2, <1>10
  <2>2. /\ a \in Nat /\ a < Size + Size /\ b \in Nat /\ b < Size + Size
        /\ a = b \/ a = b + Size \/ b = a + Size
    BY <1>1, <1>2, <1>5, <1>10 DEF Slot
  <2> HIDE DEF a, b, m
  <2>3. a % Size = b % Size
    BY <2>2, SameSlot
  <2>4. buf'[b % Size] = source[m]
    BY <1>1, <1>3, <2>1, Copied DEF b
  <2>5. Items'[i] = buf'[a % Size]
    BY <1>1, <1>8 DEF a
  <2> QED BY <2>3, <2>4, <2>5 DEF m
<1>11. \A i \in 1 .. u + len : Items'[i] = IF i <= u THEN Items[i] ELSE source[i - u]
  <2> TAKE i \in 1 .. u + len
  <2>1. CASE i <= u
    <3>1. i \in 1 .. u
      BY <1>2, <2>1
    <3> QED BY <1>9, <2>1, <3>1
  <2>2. CASE i > u
    <3>1. ~(i <= u)
      BY <1>2, <2>2
    <3> QED BY <1>10, <2>2, <3>1
  <2> QED BY <1>2, <2>1, <2>2
<1> QED BY <1>8, <1>11 DEF u

\* What it leaves when the block does not fit: Size - 1 bytes, the oldest dropped bytes fewer.
LEMMA WriteDrops ==
  ASSUME TypeOK, NEW source \in Seq(Byte), write(source),
         NEW len \in 0 .. Size - 1, Taken(source, len),
         NEW u \in 0 .. Size - 1, u = getUsed,
         NEW over \in 1 .. Size - 1, over = u + len - (Size - 1)
  PROVE  /\ Items' \in Seq(Byte) /\ Len(Items') = Size - 1
         /\ \A i \in 1 .. Size - 1 :
              Items'[i] = IF i + over <= u THEN Items[i + over] ELSE source[i + over - u]
<1>1. getUsed + len >= Size
  OBVIOUS
<1>2. /\ len <= Len(source) /\ head' \in Slot /\ tail' \in Slot
      /\ head' = (IF head + len < Size THEN head + len ELSE head + len - Size)
      /\ tail' = IF head' = Size - 1 THEN 0 ELSE head' + 1
  BY <1>1, WriteEnds
<1>3. /\ head \in Slot /\ tail \in Slot
      /\ head = tail + u \/ head = tail + u - Size
  BY Used DEF TypeOK
<1>4. TypeOK' /\ buf' = CopyIn(source, len)
  BY WriteType DEF write, Taken
<1>5. Items \in Seq(Byte) /\ \A i \in 1 .. u : Items[i] = buf[(tail + i - 1) % Size]
  BY ItemsSeq
<1>6. tail' = head + len + 1 \/ tail' = head + len + 1 - Size
  BY <1>2, <1>3 DEF Slot
<1>7. head' = IF tail' + (Size - 1) < Size THEN tail' + (Size - 1) ELSE tail' + (Size - 1) - Size
  BY <1>2 DEF Slot
<1>8. getUsed' = Size - 1
  BY <1>4, <1>7, UsedNext
<1>9. /\ Items' \in Seq(Byte) /\ Len(Items') = Size - 1
      /\ \A i \in 1 .. Size - 1 : Items'[i] = buf'[(tail' + i - 1) % Size]
  <2> DEFINE n == Size - 1
  <2>1. n \in 0 .. Size - 1 /\ getUsed' = n
    BY <1>8
  <2> HIDE DEF n
  <2>2. /\ Items' \in Seq(Byte) /\ Len(Items') = n
        /\ \A i \in 1 .. n : Items'[i] = buf'[(tail' + i - 1) % Size]
    BY <1>4, <2>1, ItemsSeqNext
  <2> QED BY <2>2 DEF n
<1>10. ASSUME NEW i \in 1 .. Size - 1, i + over <= u PROVE Items'[i] = Items[i + over]
  <2> DEFINE a == tail' + i - 1
             b == head + (i + len)
             c == tail + (i + over) - 1
  <2>1. i + len \in len .. Size - 1 /\ i + over \in 1 .. u
    BY <1>10
  <2>2. /\ a \in Nat /\ a < Size + Size /\ b \in Nat /\ b < Size + Size
        /\ a = b \/ a = b + Size \/ b = a + Size
    BY <1>2, <1>3, <1>6, <2>1 DEF Slot
  <2>3. /\ c \in Nat /\ c < Size + Size
        /\ c = b \/ c = b + Size \/ b = c + Size
    BY <1>3, <2>1 DEF Slot
  <2>4. Items'[i] = buf'[a % Size] /\ Items[i + over] = buf[c % Size]
    BY <1>5, <1>9, <2>1
  <2>5. buf'[b % Size] = buf[b % Size]
    BY <1>2, <1>4, <2>1, Copied
  <2> HIDE DEF a, b, c
  <2>6. a % Size = b % Size
    BY <2>2, SameSlot
  <2>7. c % Size = b % Size
    BY <2>2, <2>3, SameSlot
  <2> QED BY <2>4, <2>5, <2>6, <2>7
<1>11. ASSUME NEW i \in 1 .. Size - 1, i + over > u PROVE Items'[i] = source[i + over - u]
  <2> DEFINE m == i + over - u
             a == tail' + i - 1
             b == head + m - 1
  <2>1. m \in 1 .. len
    BY <1>11
  <2>2. /\ a \in Nat /\ a < Size + Size /\ b \in Nat /\ b < Size + Size
        /\ a = b \/ a = b + Size \/ b = a + Size
    BY <1>2, <1>3, <1>6, <2>1 DEF Slot
  <2>3. Items'[i] = buf'[a % Size]
    BY <1>9
  <2> HIDE DEF a, m
  <2>4. buf'[b % Size] = source[m]
    BY <1>2, <1>4, <2>1, Copied
  <2> HIDE DEF b
  <2>5. a % Size = b % Size
    BY <2>2, SameSlot
  <2> QED BY <2>3, <2>4, <2>5 DEF m
<1>12. \A i \in 1 .. Size - 1 :
         Items'[i] = IF i + over <= u THEN Items[i + over] ELSE source[i + over - u]
  <2> TAKE i \in 1 .. Size - 1
  <2>1. CASE i + over <= u
    BY <1>10, <2>1
  <2>2. CASE i + over > u
    <3>1. ~(i + over <= u)
      BY <2>2
    <3> QED BY <1>11, <2>2, <3>1
  <2> QED BY <2>1, <2>2
<1> QED BY <1>9, <1>12

-----------------------------------------------------------------------------
(* read(), pop() and consume() *)

\* Moving the tail by no more than is used leaves the bytes behind those passed.
LEMMA Consumed ==
  ASSUME TypeOK, NEW len \in 0 .. Size - 1, len <= getUsed,
         tail' = (tail + len) % Size, head' = head, buf' = buf, out' \in Seq(Byte)
  PROVE  /\ TypeOK'
         /\ Items' = SubSeq(Items, len + 1, Len(Items))
<1> DEFINE u == getUsed
<1>1. /\ u \in 0 .. Size - 1 /\ head \in Slot /\ tail \in Slot /\ buf \in [Slot -> Byte]
      /\ head = IF tail + u < Size THEN tail + u ELSE tail + u - Size
  BY Used DEF TypeOK
<1>2. /\ Items \in Seq(Byte) /\ Len(Items) = u
      /\ \A i \in 1 .. u : Items[i] = buf[(tail + i - 1) % Size]
  BY ItemsSeq
<1>3. len <= u
  OBVIOUS
<1> HIDE DEF u
<1>4. tail' = (IF tail + len < Size THEN tail + len ELSE tail + len - Size) /\ tail' \in Slot
  <2> DEFINE a == tail + len
  <2>1. a \in Nat /\ a < Size + Size
    BY <1>1 DEF Slot
  <2> HIDE DEF a
  <2>2. a % Size = (IF a < Size THEN a ELSE a - Size) /\ a % Size \in Slot
    BY <2>1, Wrap
  <2>3. tail' = a % Size
    BY DEF a
  <2> QED BY <1>1, <2>2, <2>3 DEF a, Slot
<1>5. TypeOK'
  BY <1>1, <1>4 DEF TypeOK
<1> DEFINE n == u - len
<1>6. n \in 0 .. Size - 1 /\ n = u - len
  BY <1>1, <1>3
<1> HIDE DEF n
<1>7. head' = IF tail' + n < Size THEN tail' + n ELSE tail' + n - Size
  BY <1>1, <1>3, <1>4, <1>6 DEF Slot
<1>8. getUsed' = n
  BY <1>5, <1>6, <1>7, UsedNext
<1>9. /\ Items' \in Seq(Byte) /\ Len(Items') = n
      /\ \A i \in 1 .. n : Items'[i] = buf'[(tail' + i - 1) % Size]
  BY <1>5, <1>6, <1>8, ItemsSeqNext
<1>10. ASSUME NEW i \in 1 .. n PROVE Items'[i] = Items[len + i]
  <2> DEFINE a == tail' + i - 1
             b == tail + (len + i) - 1
  <2>1. len + i \in 1 .. u
    BY <1>1, <1>6
  <2>2. a \in Nat /\ a < Size + Size /\ b \in Nat /\ b < Size + Size
    BY <1>1, <1>4, <1>6, <2>1 DEF Slot
  <2>3. a = b \/ b = a + Size
    BY <1>1, <1>4, <1>6 DEF Slot
  <2>4. Items'[i] = buf[a % Size] /\ Items[len + i] = buf[b % Size]
    BY <1>2, <1>9, <2>1
  <2> HIDE DEF a, b
  <2>5. a % Size = b % Size
    BY <2>2, <2>3, SameSlot
  <2> QED BY <2>4, <2>5
<1>11. /\ SubSeq(Items, len + 1, u) \in Seq(Byte)
       /\ Len(SubSeq(Items, len + 1, u)) = n
       /\ \A i \in 1 .. n : SubSeq(Items, len + 1, u)[i] = Items[len + i]
  BY <1>1, <1>2, <1>3, <1>6
<1>12. Items' = SubSeq(Items, len + 1, u)
  BY <1>9, <1>10, <1>11, SameElements
<1> QED BY <1>2, <1>5, <1>12

\* The two pieces read() copies are the oldest bytes in their order.
LEMMA CopiedOut ==
  ASSUME TypeOK, NEW len \in 0 .. Size - 1, len <= getUsed
  PROVE  CopyOut(len) \in Seq(Byte) /\ CopyOut(len) = SubSeq(Items, 1, len)
<1> DEFINE first == Least(len, Size - tail)
           c == CopyOut(len)
           u == getUsed
<1>1. /\ u \in 0 .. Size - 1 /\ tail \in Slot /\ buf \in [Slot -> Byte]
      /\ Items \in Seq(Byte) /\ Len(Items) = u
      /\ \A i \in 1 .. u : Items[i] = buf[(tail + i - 1) % Size]
  BY Used, ItemsSeq DEF TypeOK
<1>2. len <= u
  OBVIOUS
<1>3. first = IF len < Size - tail THEN len ELSE Size - tail
  BY DEF Least
<1>4. c = [i \in 1 .. len |-> IF i <= first THEN buf[tail + i - 1] ELSE buf[i - first - 1]]
  BY DEF CopyOut
<1> HIDE DEF first, c, u
<1>5. ASSUME NEW i \in 1 .. len PROVE c[i] = Items[i] /\ Items[i] \in Byte
  <2> DEFINE a == tail + i - 1
  <2>1. a \in Nat /\ a < Size + Size
    BY <1>1 DEF Slot
  <2>2. i \in 1 .. u
    BY <1>1, <1>2
  <2>3. Items[i] = buf[a % Size] /\ Items[i] \in Byte
    BY <1>1, <2>2
  <2>4. c[i] = IF i <= first THEN buf[a] ELSE buf[i - first - 1]
    BY <1>4
  <2>5. IF i <= first THEN a < Size ELSE a >= Size /\ i - first - 1 = a - Size
    BY <1>1, <1>3 DEF Slot
  <2> HIDE DEF a
  <2>6. a % Size = IF a < Size THEN a ELSE a - Size
    BY <2>1, Wrap
  <2>7. c[i] = buf[IF a < Size THEN a ELSE a - Size]
    <3>1. CASE i <= first
      BY <2>4, <2>5, <3>1
    <3>2. CASE ~(i <= first)
      <4>1. ~(a < Size)
        BY <2>1, <2>5, <3>2
      <4> QED BY <2>4, <2>5, <3>2, <4>1
    <3> QED BY <3>1, <3>2
  <2> QED BY <2>3, <2>6, <2>7
<1>6. c \in Seq(Byte) /\ Len(c) = len
  <2>1. \A i \in 1 .. len : c[i] \in Byte
    BY <1>5
  <2>2. DOMAIN c = 1 .. len /\ c = [i \in 1 .. len |-> c[i]]
    BY <1>4
  <2> QED BY <2>1, <2>2
<1>7. /\ SubSeq(Items, 1, len) \in Seq(Byte) /\ Len(SubSeq(Items, 1, len)) = len
      /\ \A i \in 1 .. len : SubSeq(Items, 1, len)[i] = Items[i]
  BY <1>1, <1>2
<1>8. c = SubSeq(Items, 1, len)
  BY <1>5, <1>6, <1>7, SameElements
<1> QED BY <1>6, <1>8 DEF c

\* consume() and read() pass at most what is used.
LEMMA AtMostUsed ==
  ASSUME TypeOK, NEW n \in 0 .. Size
  PROVE  Least(n, getUsed) \in 0 .. Size - 1 /\ Least(n, getUsed) <= getUsed
<1>1. getUsed \in 0 .. Size - 1
  BY Used
<1> DEFINE u == getUsed
<1> HIDE DEF u
<1>2. u \in 0 .. Size - 1
  BY <1>1 DEF u
<1>3. Least(n, u) \in {n, u} /\ Least(n, u) <= u /\ Least(n, u) <= n
  BY <1>2, LeastIs
<1>4. Least(n, u) \in 0 .. Size - 1
  BY <1>2, <1>3
<1> QED BY <1>3, <1>4 DEF u

LEMMA ReadTakes ==
  ASSUME TypeOK, NEW maxLen \in 0 .. Size, read(maxLen)
  PROVE  TypeOK' /\ Queue!Take(Least(maxLen, getUsed))
<1> DEFINE len == Least(maxLen, getUsed)
<1>1. len \in 0 .. Size - 1 /\ len <= getUsed
  BY AtMostUsed
<1>2. out' = CopyOut(len) /\ tail' = (tail + len) % Size /\ buf' = buf /\ head' = head
  BY DEF read
<1> HIDE DEF len
<1>3. CopyOut(len) \in Seq(Byte) /\ CopyOut(len) = SubSeq(Items, 1, len)
  BY <1>1, CopiedOut
<1>4. TypeOK' /\ Items' = SubSeq(Items, len + 1, Len(Items))
  BY <1>1, <1>2, <1>3, Consumed
<1>5. len \in 0 .. Len(Items)
  <2>1. Len(Items) = getUsed /\ getUsed \in Nat
    BY ItemsSeq, Used
  <2> QED BY <1>1, <2>1
<1>6. Queue!Take(len)
  BY <1>2, <1>3, <1>4, <1>5 DEF Queue!Take
<1> QED BY <1>4, <1>6 DEF len

LEMMA ConsumeDrops ==
  ASSUME TypeOK, NEW n \in 0 .. Size, consume(n)
  PROVE  TypeOK' /\ Queue!Drop(Least(n, getUsed))
<1> DEFINE len == Least(n, getUsed)
<1>1. len \in 0 .. Size - 1 /\ len <= getUsed
  BY AtMostUsed
<1>2. out' = out /\ tail' = (tail + len) % Size /\ buf' = buf /\ head' = head
  BY DEF consume
<1> HIDE DEF len
<1>3. out' \in Seq(Byte)
  BY <1>2 DEF TypeOK
<1>4. TypeOK' /\ Items' = SubSeq(Items, len + 1, Len(Items))
  BY <1>1, <1>2, <1>3, Consumed
<1>5. len \in 0 .. Len(Items)
  <2>1. Len(Items) = getUsed /\ getUsed \in Nat
    BY ItemsSeq, Used
  <2> QED BY <1>1, <2>1
<1>6. Queue!Drop(len)
  BY <1>2, <1>4, <1>5 DEF Queue!Drop
<1> QED BY <1>4, <1>6 DEF len

LEMMA PopTakes ==
  ASSUME TypeOK, pop
  PROVE  TypeOK' /\ (Queue!Take(1) \/ Queue!TakeNothing)
<1>1. /\ getUsed \in 0 .. Size - 1 /\ tail \in Slot /\ buf \in [Slot -> Byte]
      /\ Items \in Seq(Byte) /\ Len(Items) = getUsed
  BY Used, ItemsSeq DEF TypeOK
<1>2. CASE getUsed > 0
  <2> DEFINE len == 1
  <2>1. out' = <<buf[tail]>> /\ tail' = (tail + len) % Size /\ buf' = buf /\ head' = head
    BY <1>2 DEF pop
  <2>2. len \in 0 .. Size - 1 /\ len <= getUsed
    BY <1>1, <1>2
  <2>3. out' \in Seq(Byte)
    BY <1>1, <2>1
  <2> HIDE DEF len
  <2>4. TypeOK' /\ Items' = SubSeq(Items, len + 1, Len(Items))
    BY <2>1, <2>2, <2>3, Consumed
  <2>5. Items[1] = buf[tail]
    <3>1. Items[1] = buf[(tail + 1 - 1) % Size]
      BY <1>1, <1>2, ItemsSeq
    <3>2. tail \in Nat /\ tail < Size /\ tail + 1 - 1 = tail
      BY <1>1 DEF Slot
    <3>3. tail % Size = tail
      BY <3>2, Wrap
    <3> QED BY <3>1, <3>2, <3>3
  <2>6. SubSeq(Items, 1, 1) = <<Items[1]>>
    <3>1. SubSeq(Items, 1, 1) = [i \in 1 .. 1 |-> Items[1 + i - 1]]
      BY <1>1, <1>2
    <3>2. [i \in 1 .. 1 |-> Items[1 + i - 1]] = <<Items[1]>>
      OBVIOUS
    <3> QED BY <3>1, <3>2
  <2>7. 1 \in 0 .. Len(Items)
    BY <1>1, <1>2
  <2>8. Queue!Take(1)
    BY <2>1, <2>4, <2>5, <2>6, <2>7 DEF Queue!Take, len
  <2> QED BY <2>4, <2>8
<1>3. CASE getUsed = 0
  <2>1. ~(getUsed > 0)
    BY <1>3
  <2>2. out' = <<>> /\ tail' = tail /\ buf' = buf /\ head' = head
    BY <2>1 DEF pop
  <2>3. TypeOK'
    BY <2>2 DEF TypeOK
  <2>4. Items' = Items
    BY <2>2 DEF Items, getUsed
  <2>5. Items = <<>>
    BY <1>1, <1>3
  <2> QED BY <2>2, <2>3, <2>4, <2>5 DEF Queue!TakeNothing
<1> QED BY <1>1, <1>2, <1>3

LEMMA ClearDrops == ASSUME TypeOK, clear PROVE TypeOK' /\ Queue!Drop(getUsed)
<1>1. head' = 0 /\ tail' = 0 /\ buf' = buf /\ out' = out
  BY DEF clear
<1>2. TypeOK'
  BY <1>1 DEF TypeOK, Slot
<1>3. getUsed' = 0
  BY <1>1 DEF getUsed
<1>4. Items' = <<>>
  BY <1>3 DEF Items
<1>5. Items \in Seq(Byte) /\ Len(Items) = getUsed /\ getUsed \in Nat
  BY ItemsSeq, Used
<1>6. SubSeq(Items, getUsed + 1, getUsed) = <<>>
  BY <1>5, SubSeqEmpty
<1>7. getUsed \in 0 .. Len(Items)
  BY <1>5
<1> QED BY <1>1, <1>2, <1>4, <1>5, <1>6, <1>7 DEF Queue!Drop

-----------------------------------------------------------------------------
(* The queue *)

\* What the queue accepts of a block is what the ring takes of it.
LEMMA Accepted ==
  ASSUME NEW source \in Seq(Byte), NEW len, Taken(source, len)
  PROVE  LET f == Queue!FirstOf(source, Size - 1)
         IN  f \in Seq(Byte) /\ Len(f) = len /\ \A m \in 1 .. len : f[m] = source[m]
<1>1. CASE Len(source) <= Size - 1
  <2>1. len = Len(source)
    BY <1>1, LeastIs DEF Taken
  <2>2. Queue!FirstOf(source, Size - 1) = source
    BY <1>1 DEF Queue!FirstOf
  <2> QED BY <2>1, <2>2
<1>2. CASE Len(source) > Size - 1
  <2> DEFINE n == Size - 1
  <2>1. n \in Nat /\ n < Len(source) /\ Len(source) \in Nat
    BY <1>2
  <2>2. len = n
    BY <2>1, LeastIs DEF Taken
  <2>3. ~(Len(source) <= n)
    BY <2>1
  <2>4. Queue!FirstOf(source, n) = SubSeq(source, 1, n)
    BY <2>3 DEF Queue!FirstOf
  <2> HIDE DEF n
  <2>5. SubSeq(source, 1, n) \in Seq(Byte) /\ Len(SubSeq(source, 1, n)) = n
        /\ \A m \in 1 .. n : SubSeq(source, 1, n)[m] = source[m]
    BY <2>1
  <2> QED BY <2>2, <2>4, <2>5 DEF n
<1> QED BY <1>1, <1>2

\* A write puts the block behind what was there, whatever position the array is in, at the cost
\* of the oldest bytes alone.
LEMMA WritePuts ==
  ASSUME TypeOK, NEW source \in Seq(Byte), write(source)
  PROVE  Queue!Put(source)
<1> DEFINE len == Least(Len(source), Size - 1)
           u == getUsed
           f == Queue!FirstOf(source, Size - 1)
           c == Items \o f
           n == Size - 1
<1>1. Taken(source, len)
  BY DEF Taken
<1>2. len \in 0 .. Size - 1 /\ u \in 0 .. Size - 1
  BY <1>1, WriteEnds, Used
<1>3. Items \in Seq(Byte) /\ Len(Items) = u
  BY ItemsSeq
<1> HIDE DEF len
<1>4. f \in Seq(Byte) /\ Len(f) = len /\ \A m \in 1 .. len : f[m] = source[m]
  BY <1>1, Accepted
<1> HIDE DEF f
<1>5. /\ c \in Seq(Byte) /\ Len(c) = u + len
      /\ \A i \in 1 .. u + len : c[i] = IF i <= u THEN Items[i] ELSE f[i - u]
  <2> HIDE DEF u
  <2> QED BY <1>3, <1>4, ConcatProperties
<1>6. n \in Nat /\ n = Size - 1
  OBVIOUS
<1>7. ASSUME NEW i \in 1 .. u + len
      PROVE  c[i] = IF i <= u THEN Items[i] ELSE source[i - u]
  <2> HIDE DEF u, c
  <2>1. CASE i <= u
    BY <1>5, <2>1
  <2>2. CASE ~(i <= u)
    <3>1. i - u \in 1 .. len
      BY <1>2, <2>2
    <3> QED BY <1>4, <1>5, <2>2, <3>1
  <2> QED BY <2>1, <2>2
<1> HIDE DEF c
<1>8. Items' = Queue!LastOf(c, Size - 1)
  <2>1. CASE u + len < Size
    <3>1. /\ Items' \in Seq(Byte) /\ Len(Items') = u + len
          /\ \A i \in 1 .. u + len : Items'[i] = IF i <= u THEN Items[i] ELSE source[i - u]
      BY <1>1, <2>1, WriteFits
    <3> HIDE DEF u
    <3>2. Items' = c
      BY <1>5, <1>7, <3>1, SameElements
    <3>3. Len(c) <= Size - 1
      BY <1>2, <1>5, <2>1
    <3> QED BY <3>2, <3>3 DEF Queue!LastOf
  <2>2. CASE u + len >= Size
    <3> DEFINE over == u + len - (Size - 1)
               last == SubSeq(c, over + 1, u + len)
    <3>1. u = getUsed
      OBVIOUS
    <3> HIDE DEF u
    <3>2. over \in 1 .. Size - 1 /\ over = u + len - (Size - 1)
      BY <1>2, <2>2
    <3>3. ~(Len(c) <= Size - 1) /\ Len(c) - (Size - 1) + 1 = over + 1
      BY <1>2, <1>5, <2>2
    <3>4. Queue!LastOf(c, Size - 1) = last
      <4>1. Queue!LastOf(c, Size - 1) = SubSeq(c, Len(c) - (Size - 1) + 1, Len(c))
        BY <3>3 DEF Queue!LastOf
      <4> QED BY <1>5, <3>3, <4>1
    <3> HIDE DEF over, n
    <3>5. /\ Items' \in Seq(Byte) /\ Len(Items') = Size - 1
          /\ \A i \in 1 .. Size - 1 :
               Items'[i] = IF i + over <= u THEN Items[i + over] ELSE source[i + over - u]
      BY <1>1, <1>2, <3>1, <3>2, WriteDrops
    <3>6. /\ last \in Seq(Byte) /\ Len(last) = n
          /\ \A i \in 1 .. n : last[i] = c[over + i]
      BY <1>2, <1>5, <1>6, <3>2
    <3> HIDE DEF last
    <3>7. ASSUME NEW i \in 1 .. n PROVE Items'[i] = last[i]
      <4>1. i + over \in 1 .. u + len /\ over + i = i + over
        BY <1>2, <1>6, <3>2
      <4>2. last[i] = c[i + over]
        BY <3>6, <4>1
      <4>3. c[i + over] = IF i + over <= u THEN Items[i + over] ELSE source[i + over - u]
        <5> DEFINE j == i + over
        <5>1. j \in 1 .. u + len
          BY <4>1
        <5> HIDE DEF j
        <5>2. c[j] = IF j <= u THEN Items[j] ELSE source[j - u]
          BY <1>7, <5>1
        <5> QED BY <1>2, <3>2, <4>1, <5>2 DEF j
      <4>4. Items'[i] = IF i + over <= u THEN Items[i + over] ELSE source[i + over - u]
        BY <1>6, <3>5
      <4> QED BY <4>2, <4>3, <4>4
    <3>8. Items' = last
      BY <1>6, <3>5, <3>6, <3>7, SameElements
    <3> QED BY <3>4, <3>8
  <2> HIDE DEF u
  <2> QED BY <1>2, <2>1, <2>2
<1>9. out' = out
  BY DEF write
<1> QED BY <1>8, <1>9 DEF Queue!Put, c, f

LEMMA InitQueue == Init => TypeOK /\ Queue!Init
<1> SUFFICES ASSUME Init PROVE TypeOK /\ Queue!Init
  OBVIOUS
<1>1. TypeOK
  BY DEF Init, TypeOK, Slot
<1>2. getUsed = 0 /\ out = <<>>
  BY DEF Init, getUsed
<1>3. Items = <<>>
  BY <1>2 DEF Items
<1> QED BY <1>1, <1>2, <1>3 DEF Queue!Init

LEMMA StepQueue == TypeOK /\ [Next]_vars => TypeOK' /\ [Queue!Next]_(Queue!vars)
<1> SUFFICES ASSUME TypeOK, [Next]_vars PROVE TypeOK' /\ [Queue!Next]_(Queue!vars)
  OBVIOUS
<1>1. ASSUME NEW source \in Blocks, write(source) PROVE TypeOK' /\ Queue!Next
  <2>1. source \in Seq(Byte)
    BY BlockSeq
  <2>2. TypeOK' /\ Queue!Put(source)
    BY <1>1, <2>1, WriteType, WritePuts
  <2> QED BY <2>2 DEF Queue!Next
<1>2. ASSUME NEW maxLen \in 0 .. Size, read(maxLen) PROVE TypeOK' /\ Queue!Next
  <2>1. TypeOK' /\ Queue!Take(Least(maxLen, getUsed)) /\ Least(maxLen, getUsed) \in 0 .. Size - 1
    BY <1>2, ReadTakes, AtMostUsed
  <2> QED BY <2>1 DEF Queue!Next
<1>3. CASE pop
  <2>1. 1 \in 0 .. Size - 1
    OBVIOUS
  <2> QED BY <1>3, <2>1, PopTakes DEF Queue!Next
<1>4. ASSUME NEW n \in 0 .. Size, consume(n) PROVE TypeOK' /\ Queue!Next
  <2>1. TypeOK' /\ Queue!Drop(Least(n, getUsed)) /\ Least(n, getUsed) \in 0 .. Size - 1
    BY <1>4, ConsumeDrops, AtMostUsed
  <2> QED BY <2>1 DEF Queue!Next
<1>5. CASE clear
  <2>1. TypeOK' /\ Queue!Drop(getUsed) /\ getUsed \in 0 .. Size - 1
    BY <1>5, ClearDrops, Used
  <2> QED BY <2>1 DEF Queue!Next
<1>6. CASE UNCHANGED vars
  <2>1. buf' = buf /\ head' = head /\ tail' = tail /\ out' = out
    BY <1>6 DEF vars
  <2> QED BY <2>1 DEF TypeOK, Items, getUsed, Queue!vars
<1> QED BY <1>1, <1>2, <1>3, <1>4, <1>5, <1>6 DEF Next

-----------------------------------------------------------------------------
(* endsWith() and compare() *)

LEMMA StringSeq ==
  ASSUME NEW str \in Strings
  PROVE  str \in Seq(Byte) /\ Len(str) \in 1 .. Size
<1>1. PICK n \in 1 .. Size : str \in [1 .. n -> Byte]
  BY DEF Strings
<1>2. n \in Nat
  OBVIOUS
<1> QED BY <1>1, <1>2

LEMMA EndsWith ==
  ASSUME TypeOK, NEW str \in Strings
  PROVE  endsWith(str) <=> IsSuffix(str, Items)
<1> DEFINE u == getUsed
           n == Len(str)
<1>1. /\ u \in 0 .. Size - 1 /\ tail \in Slot
      /\ Items \in Seq(Byte) /\ Len(Items) = u
      /\ \A i \in 1 .. u : Items[i] = buf[(tail + i - 1) % Size]
  BY Used, ItemsSeq DEF TypeOK
<1>2. str \in Seq(Byte) /\ n \in 1 .. Size
  BY StringSeq
<1>3. endsWith(str) <=> /\ n \in 1 .. u
                        /\ \A i \in 0 .. n - 1 : str[n - i] = buf[(tail + u - 1 - i) % Size]
  BY DEF endsWith
<1>4. IsSuffix(str, Items) <=> n <= u /\ \A i \in 1 .. n : str[n - i + 1] = Items[u - i + 1]
  <2>1. str \in Seq(Byte) /\ Items \in Seq(Byte)
    BY <1>1, <1>2
  <2>2. IsSuffix(str, Items) <=> SameEnd(str, Items)
    BY <2>1, SuffixPlaces
  <2>3. SameEnd(str, Items) <=>
          /\ n <= Len(Items)
          /\ \A i \in 1 .. n : str[n - i + 1] = Items[Len(Items) - i + 1]
    BY DEF SameEnd
  <2> HIDE DEF u, n
  <2> QED BY <1>1, <2>2, <2>3
<1> HIDE DEF u, n
<1>5. n <= u <=> n \in 1 .. u
  BY <1>1, <1>2
<1>6. ASSUME n \in 1 .. u, NEW i \in 0 .. n - 1
      PROVE  /\ i + 1 \in 1 .. n
             /\ str[n - (i + 1) + 1] = str[n - i]
             /\ Items[u - (i + 1) + 1] = buf[(tail + u - 1 - i) % Size]
  <2>1. i + 1 \in 1 .. n /\ u - (i + 1) + 1 \in 1 .. u
    BY <1>1, <1>2, <1>6
  <2>2. /\ n - (i + 1) + 1 = n - i
        /\ tail + (u - (i + 1) + 1) - 1 = tail + u - 1 - i
    BY <1>1, <1>2 DEF Slot
  <2>3. Items[u - (i + 1) + 1] = buf[(tail + (u - (i + 1) + 1) - 1) % Size]
    BY <1>1, <2>1
  <2> QED BY <2>1, <2>2, <2>3
<1>7. ASSUME n \in 1 .. u, \A i \in 1 .. n : str[n - i + 1] = Items[u - i + 1]
      PROVE  \A i \in 0 .. n - 1 : str[n - i] = buf[(tail + u - 1 - i) % Size]
  <2> TAKE i \in 0 .. n - 1
  <2> DEFINE j == i + 1
  <2>1. /\ j \in 1 .. n /\ str[n - j + 1] = str[n - i]
        /\ Items[u - j + 1] = buf[(tail + u - 1 - i) % Size]
    BY <1>6, <1>7
  <2> HIDE DEF j
  <2> QED BY <1>7, <2>1
<1>8. ASSUME n \in 1 .. u, \A i \in 0 .. n - 1 : str[n - i] = buf[(tail + u - 1 - i) % Size]
      PROVE  \A i \in 1 .. n : str[n - i + 1] = Items[u - i + 1]
  <2> TAKE i \in 1 .. n
  <2> DEFINE j == i - 1
  <2>1. j \in 0 .. n - 1 /\ j + 1 = i
    BY <1>2
  <2> HIDE DEF j
  <2>2. /\ str[n - (j + 1) + 1] = str[n - j]
        /\ Items[u - (j + 1) + 1] = buf[(tail + u - 1 - j) % Size]
    BY <1>6, <1>8, <2>1
  <2>3. str[n - j] = buf[(tail + u - 1 - j) % Size]
    BY <1>8, <2>1
  <2> QED BY <2>1, <2>2, <2>3
<1> QED BY <1>3, <1>4, <1>5, <1>7, <1>8

LEMMA Compare ==
  ASSUME TypeOK, NEW str \in Strings
  PROVE  compare(str) = CASE IsPrefix(str, Items)                       -> "CMP_ALL_MATCH"
                          [] Items # <<>> /\ IsStrictPrefix(Items, str) -> "CMP_MATCH_PART"
                          [] OTHER                                      -> "CMP_NO_MATCH"
<1> DEFINE u == getUsed
           l == Len(str)
           n == Least(l, u)
           differs == \E i \in 0 .. n - 1 : str[i + 1] # buf[(tail + i) % Size]
<1>1. /\ u \in 0 .. Size - 1 /\ tail \in Slot
      /\ Items \in Seq(Byte) /\ Len(Items) = u
      /\ \A i \in 1 .. u : Items[i] = buf[(tail + i - 1) % Size]
  BY Used, ItemsSeq DEF TypeOK
<1>2. str \in Seq(Byte) /\ l \in 1 .. Size
  BY StringSeq
<1>3. compare(str) = IF n = 0 \/ differs THEN "CMP_NO_MATCH"
                     ELSE IF l # n THEN "CMP_MATCH_PART" ELSE "CMP_ALL_MATCH"
  BY DEF compare
<1>4. /\ IsPrefix(str, Items) <=> l <= u /\ \A i \in 1 .. l : str[i] = Items[i]
      /\ IsPrefix(Items, str) <=> u <= l /\ \A i \in 1 .. u : Items[i] = str[i]
  <2>1. str \in Seq(Byte) /\ Items \in Seq(Byte)
    BY <1>1, <1>2
  <2>2. /\ IsPrefix(str, Items) <=> SameStart(str, Items)
        /\ IsPrefix(Items, str) <=> SameStart(Items, str)
    BY <2>1, PrefixPlaces
  <2>3. SameStart(str, Items) <=> l <= Len(Items) /\ \A i \in 1 .. l : str[i] = Items[i]
    BY DEF SameStart
  <2>4. SameStart(Items, str) <=>
          Len(Items) <= l /\ \A i \in 1 .. Len(Items) : Items[i] = str[i]
    BY DEF SameStart
  <2> HIDE DEF u, l
  <2> QED BY <1>1, <2>2, <2>3, <2>4
<1>5. /\ n = (IF l <= u THEN l ELSE u) /\ n \in 0 .. Size - 1 /\ n <= l /\ n <= u
  <2> HIDE DEF l, u
  <2> QED BY <1>1, <1>2 DEF Least
<1>6. (Items = <<>> <=> u = 0) /\ (Items = str => l = u)
  BY <1>1
<1> HIDE DEF u, l, n
<1>7. ASSUME NEW i \in 0 .. n - 1 PROVE i + 1 \in 1 .. n /\ Items[i + 1] = buf[(tail + i) % Size]
  <2>1. i + 1 \in 1 .. n /\ i + 1 \in 1 .. u /\ tail + (i + 1) - 1 = tail + i
    BY <1>1, <1>5 DEF Slot
  <2>2. Items[i + 1] = buf[(tail + (i + 1) - 1) % Size]
    BY <1>1, <2>1
  <2> QED BY <2>1, <2>2
<1>8. differs <=> \E i \in 1 .. n : str[i] # Items[i]
  <2>1. ASSUME NEW i \in 0 .. n - 1, str[i + 1] # buf[(tail + i) % Size]
        PROVE  \E j \in 1 .. n : str[j] # Items[j]
    BY <1>7, <2>1
  <2>2. ASSUME NEW i \in 1 .. n, str[i] # Items[i]
        PROVE  \E j \in 0 .. n - 1 : str[j + 1] # buf[(tail + j) % Size]
    <3> DEFINE j == i - 1
    <3>1. j \in 0 .. n - 1 /\ j + 1 = i
      BY <1>5
    <3> HIDE DEF j
    <3>2. Items[j + 1] = buf[(tail + j) % Size]
      BY <1>7, <3>1
    <3> QED BY <2>2, <3>1, <3>2
  <2> QED BY <2>1, <2>2
<1> HIDE DEF differs
<1>9. CASE l <= u
  <2>1. n = l /\ n # 0
    BY <1>2, <1>5, <1>9
  <2>2. IsPrefix(str, Items) <=> ~differs
    BY <1>4, <1>8, <1>9, <2>1
  <2>3. CASE differs
    <3>1. ~IsStrictPrefix(Items, str)
      <4> SUFFICES ASSUME IsPrefix(Items, str) PROVE FALSE
        BY DEF IsStrictPrefix
      <4>1. u = l
        BY <1>1, <1>2, <1>4, <1>9
      <4> QED BY <1>4, <1>8, <2>1, <2>3, <4>1
    <3> QED BY <1>3, <2>2, <2>3, <3>1
  <2>4. CASE ~differs
    <3>1. compare(str) = "CMP_ALL_MATCH"
      BY <1>3, <2>1, <2>4
    <3>2. IsPrefix(str, Items)
      BY <2>2, <2>4
    <3>3. ~IsStrictPrefix(Items, str)
      <4> SUFFICES ASSUME IsPrefix(Items, str) PROVE Items = str
        BY DEF IsStrictPrefix
      <4>1. Len(Items) = Len(str) /\ \A i \in 1 .. Len(Items) : Items[i] = str[i]
        BY <1>1, <1>2, <1>4, <1>9 DEF l
      <4> QED BY <1>1, <1>2, <4>1, SameElements
    <3> QED BY <3>1, <3>2, <3>3
  <2> QED BY <2>3, <2>4
<1>10. CASE ~(l <= u)
  <2>1. n = u /\ n # l /\ u <= l /\ ~IsPrefix(str, Items) /\ Items # str
    BY <1>1, <1>2, <1>4, <1>5, <1>6, <1>10
  <2>2. IsStrictPrefix(Items, str) <=> ~differs
    BY <1>4, <1>8, <2>1 DEF IsStrictPrefix
  <2>3. Items # <<>> <=> n # 0
    BY <1>6, <2>1
  <2> QED BY <1>3, <2>1, <2>2, <2>3
<1> QED BY <1>9, <1>10

-----------------------------------------------------------------------------
(* The theorems *)

\* Head and tail stay inside the array, and no reader is given anything but bytes.
THEOREM ByteRingTypeOK == Spec => []TypeOK
BY InitQueue, StepQueue, PTL DEF Spec

\* The receive buffer is an overwriting queue of Size - 1 bytes: readers get the bytes in the
\* order they were written, whatever was dropped for lack of room was older than all of them,
\* and neither depends on where in the array the bytes lie.
THEOREM ByteRingImplementsQueue == Spec => Implements
BY ByteRingTypeOK, InitQueue, StepQueue, PTL DEF Spec, Implements, Queue!Spec

\* Each write() puts its own block at the newest end, in order, on both sides of the wrap.
THEOREM ByteRingWritesPut == Spec => WritesPut
<1>1. ASSUME TypeOK, NEW source \in Blocks, write(source) PROVE Queue!Put(source)
  BY <1>1, BlockSeq, WritePuts
<1>2. TypeOK /\ [Next]_vars => [\A source \in Blocks : write(source) => Queue!Put(source)]_vars
  BY <1>1
<1> QED BY <1>2, ByteRingTypeOK, PTL DEF Spec, WritesPut

\* endsWith() is true exactly of the strings the newest bytes spell.
THEOREM ByteRingEndsWithIsSuffix == Spec => []EndsWithIsSuffix
<1>1. TypeOK => EndsWithIsSuffix
  BY EndsWith DEF EndsWithIsSuffix
<1> QED BY <1>1, ByteRingTypeOK, PTL

\* compare() tells a string the buffer starts with, one the buffer holds only the start of, and
\* any other apart.
THEOREM ByteRingCompareIsPrefix == Spec => []CompareIsPrefix
<1>1. TypeOK => CompareIsPrefix
  BY Compare DEF CompareIsPrefix
<1> QED BY <1>1, ByteRingTypeOK, PTL
=============================================================================
