------------------------ MODULE CircularBuffer_proofs ------------------------
(***************************************************************************)
(* For rings of every size and elements of every type: the ring is         *)
(* type-correct, its two ends agree, it implements the overwriting queue,  *)
(* a loss is reported by the push that causes it, and endsWith() is a      *)
(* comparison with the sequence of its elements.                           *)
(***************************************************************************)
EXTENDS MCCircularBuffer, SequencesExt, SequenceTheorems, TLAPS

USE SizeAssumption

Inv == TypeOK /\ EndsAgree

-----------------------------------------------------------------------------
(* Sequences compared place by place *)

\* Sequences of the same length with the same elements are equal.
LEMMA SameElements ==
  ASSUME NEW S, NEW s \in Seq(S), NEW t \in Seq(S), Len(s) = Len(t),
         \A i \in 1 .. Len(s) : s[i] = t[i]
  PROVE  s = t
OBVIOUS

\* Every place of s agrees with the same place of t, counted from the front or the back.
SameStart(s, t) == Len(s) <= Len(t) /\ \A i \in 1 .. Len(s) : s[i] = t[i]

SameEnd(s, t) == /\ Len(s) <= Len(t)
                 /\ \A i \in 1 .. Len(s) : s[Len(s) - i + 1] = t[Len(t) - i + 1]

LEMMA PrefixPlaces ==
  ASSUME NEW S, NEW s \in Seq(S), NEW t \in Seq(S)
  PROVE  IsPrefix(s, t) <=> SameStart(s, t)
<1>1. CASE Len(s) <= Len(t)
  <2> DEFINE n == Len(s)
  <2>1. n \in Nat /\ Len(t) \in Nat /\ n <= Len(t)
    BY <1>1
  <2>2. SubSeq(s, 1, n) \in Seq(S) /\ SubSeq(s, 1, n) = s
    OBVIOUS
  <2>3. /\ SubSeq(t, 1, n) \in Seq(S) /\ Len(SubSeq(t, 1, n)) = n
        /\ \A i \in 1 .. n : SubSeq(t, 1, n)[i] = t[i]
    <3> HIDE DEF n
    <3> QED BY <2>1
  <2>4. (\A i \in 1 .. n : s[i] = t[i]) => s = SubSeq(t, 1, n)
    BY <2>3, SameElements
  <2>5. IsPrefix(s, t) <=> s = SubSeq(t, 1, n)
    BY <1>1, <2>2 DEF IsPrefix
  <2> QED BY <1>1, <2>3, <2>4, <2>5 DEF SameStart
<1>2. CASE ~(Len(s) <= Len(t))
  BY <1>2 DEF IsPrefix, SameStart
<1> QED BY <1>1, <1>2

\* The i-th place from the end comes i-th.
LEMMA ReversePlaces ==
  ASSUME NEW S, NEW s \in Seq(S)
  PROVE  /\ Reverse(s) \in Seq(S) /\ Len(Reverse(s)) = Len(s)
         /\ \A i \in 1 .. Len(s) : Reverse(s)[i] = s[Len(s) - i + 1]
<1> DEFINE n == Len(s)
<1>1. n \in Nat
  OBVIOUS
<1> HIDE DEF n
<1>2. \A i \in 1 .. n : n - i + 1 \in 1 .. n
  BY <1>1
<1>3. \A i \in 1 .. n : s[n - i + 1] \in S
  <2> TAKE i \in 1 .. n
  <2> DEFINE j == n - i + 1
  <2>1. j \in 1 .. Len(s)
    BY <1>2 DEF n
  <2> HIDE DEF j
  <2>2. s[j] \in S
    BY <2>1
  <2> QED BY <2>2 DEF j
<1>4. Reverse(s) = [i \in 1 .. n |-> s[n - i + 1]]
  BY DEF Reverse, n
<1>5. Reverse(s) \in Seq(S) /\ Len(Reverse(s)) = n /\ \A i \in 1 .. n : Reverse(s)[i] = s[n - i + 1]
  BY <1>1, <1>3, <1>4
<1> QED BY <1>5 DEF n

\* A suffix agrees in every place counted from the back.
LEMMA SuffixPlaces ==
  ASSUME NEW S, NEW s \in Seq(S), NEW t \in Seq(S)
  PROVE  IsSuffix(s, t) <=> SameEnd(s, t)
<1>1. /\ Reverse(s) \in Seq(S) /\ Len(Reverse(s)) = Len(s)
      /\ \A i \in 1 .. Len(s) : Reverse(s)[i] = s[Len(s) - i + 1]
      /\ Reverse(t) \in Seq(S) /\ Len(Reverse(t)) = Len(t)
      /\ \A i \in 1 .. Len(t) : Reverse(t)[i] = t[Len(t) - i + 1]
  BY ReversePlaces
<1>2. IsSuffix(s, t) <=> SameStart(Reverse(s), Reverse(t))
  BY <1>1, PrefixPlaces DEF IsSuffix
<1>3. SameStart(Reverse(s), Reverse(t)) <=>
        Len(s) <= Len(t) /\ \A i \in 1 .. Len(s) : Reverse(s)[i] = Reverse(t)[i]
  BY <1>1 DEF SameStart
<1>4. ASSUME Len(s) <= Len(t), NEW i \in 1 .. Len(s)
      PROVE  /\ Reverse(s)[i] = s[Len(s) - i + 1]
             /\ Reverse(t)[i] = t[Len(t) - i + 1]
  <2>1. i \in 1 .. Len(t)
    BY <1>4
  <2> QED BY <1>1, <2>1
<1> QED BY <1>2, <1>3, <1>4 DEF SameEnd

-----------------------------------------------------------------------------
(* Positions in the ring *)

\* The code wraps a pointer by comparing it with the end of the array, an
\* index by a remainder; within two turns of the ring both are this.
LEMMA Wrap ==
  ASSUME NEW a \in Nat, a < Size + Size
  PROVE  a % Size = IF a < Size THEN a ELSE a - Size
<1>1. CASE a < Size BY <1>1, SMT
<1>2. CASE a >= Size BY <1>2, SMT
<1> QED BY <1>1, <1>2

LEMMA WrapInSlot ==
  ASSUME NEW a \in Nat, a < Size + Size
  PROVE  a % Size \in Slot
BY Wrap DEF Slot

LEMMA AdvanceInSlot ==
  ASSUME NEW p \in Slot
  PROVE  Advance(p) \in Slot
BY DEF Advance, Slot

\* Within a ring, different distances from the head are different slots.
LEMMA Apart ==
  ASSUME NEW h \in Slot, NEW i \in 0 .. Size - 1, NEW j \in 0 .. Size - 1, i # j
  PROVE  (h + i) % Size # (h + j) % Size
<1> DEFINE x == h + i
           y == h + j
<1>1. x \in Nat /\ x < Size + Size /\ y \in Nat /\ y < Size + Size
  BY DEF Slot
<1>2. /\ x < Size /\ y >= Size => x # y - Size
      /\ x >= Size /\ y < Size => x - Size # y
      /\ x # y /\ x - Size # y - Size
  BY DEF Slot
<1> HIDE DEF x, y
<1>3. /\ x % Size = IF x < Size THEN x ELSE x - Size
      /\ y % Size = IF y < Size THEN y ELSE y - Size
  BY <1>1, Wrap
<1>4. x % Size # y % Size
  BY <1>1, <1>2, <1>3
<1> QED BY <1>4 DEF x, y

\* A step of the pointer is a step of the distance.
LEMMA AdvanceShifts ==
  ASSUME NEW h \in Slot, NEW i \in 0 .. Size - 1
  PROVE  (Advance(h) + i) % Size = (h + i + 1) % Size
<1> DEFINE x == Advance(h) + i
           y == h + i + 1
<1>1. x \in Nat /\ x < Size + Size /\ y \in Nat /\ y < Size + Size
  BY DEF Slot, Advance
<1>2. x = y \/ (x < Size /\ y >= Size /\ x = y - Size)
  BY DEF Slot, Advance
<1> HIDE DEF x, y
<1>3. y % Size = IF y < Size THEN y ELSE y - Size
  BY <1>1, Wrap
<1>4. x % Size = IF x < Size THEN x ELSE x - Size
  BY <1>1, Wrap
<1>5. x % Size = y % Size
  BY <1>1, <1>2, <1>3, <1>4
<1> QED BY <1>5 DEF x, y

\* The slot after the one before the head is the head.
LEMMA FullCircle ==
  ASSUME NEW h \in Slot
  PROVE  Advance((h + Size - 1) % Size) = h
<1> DEFINE x == h + Size - 1
<1>1. x \in Nat /\ x < Size + Size
  BY DEF Slot
<1>2. x = h + Size - 1
  OBVIOUS
<1> HIDE DEF x
<1>3. x % Size = IF x < Size THEN x ELSE x - Size
  BY <1>1, Wrap
<1>4. Advance(x % Size) = h
  BY <1>1, <1>2, <1>3 DEF Slot, Advance
<1> QED BY <1>4 DEF x

\* What a reader sees of a ring with contents b, oldest element h and count n.
Ring(b, h, n) == [i \in 1 .. n |-> b[(h + i - 1) % Size]]

LEMMA RingSeq ==
  ASSUME NEW b \in [Slot -> Value], NEW h \in Slot, NEW n \in 0 .. Size
  PROVE  /\ Ring(b, h, n) \in Seq(Value)
         /\ Len(Ring(b, h, n)) = n
         /\ \A i \in 1 .. n : Ring(b, h, n)[i] = b[(h + i - 1) % Size]
<1>1. \A i \in 1 .. n : h + i - 1 \in Nat /\ h + i - 1 < Size + Size
  BY DEF Slot
<1>2. \A i \in 1 .. n : (h + i - 1) % Size \in Slot
  BY <1>1, WrapInSlot
<1>3. \A i \in 1 .. n : b[(h + i - 1) % Size] \in Value
  BY <1>2
<1> QED BY <1>3 DEF Ring

-----------------------------------------------------------------------------
(* The invariant *)

LEMMA InitInv == Init => Inv
BY DEF Init, Inv, TypeOK, EndsAgree, Slot

LEMMA PushInv == ASSUME Inv, NEW v \in Value, push(v) PROVE Inv'
<1> DEFINE t == Advance(tail)
<1>1. t \in Slot
  BY AdvanceInSlot DEF Inv, TypeOK
<1>2. buffer' \in [Slot -> Value]
  BY DEF push, Inv, TypeOK
<1>3. CASE count = Size
  <2>1. head' = Advance(head) /\ tail' = t /\ count' = count
    BY <1>3, SMT DEF push
  <2>2. TypeOK'
    BY <1>1, <1>2, <2>1, AdvanceInSlot DEF push, Inv, TypeOK
  <2>3. tail = (head + count - 1) % Size
    BY <1>3 DEF Inv, EndsAgree
  <2>4. head \in Slot
    BY DEF Inv, TypeOK
  <2>5. head + count - 1 \in Nat /\ head + count - 1 < Size + Size
    BY <1>3, <2>4 DEF Slot
  <2>6. Advance(tail) = head
    BY <1>3, <2>3, <2>4, <2>5, Wrap DEF Advance, Slot
  <2>7. Advance(head) + count - 1 \in Nat /\ Advance(head) + count - 1 < Size + Size
    BY <1>3, <2>4 DEF Advance, Slot
  <2>8. (Advance(head) + count - 1) % Size = head
    BY <1>3, <2>4, <2>7, Wrap DEF Advance, Slot
  <2> QED BY <2>1, <2>2, <2>6, <2>8 DEF Inv, EndsAgree
<1>4. CASE count # Size
  <2>1. count < Size /\ count \in Nat
    BY <1>4 DEF Inv, TypeOK
  <2>2. tail' = t /\ count' = count + 1 /\ head' = IF count = 0 THEN t ELSE head
    BY <1>4, SMT DEF push
  <2>3. TypeOK'
    <3>1. head' \in Slot /\ tail' \in Slot /\ count' \in 0 .. Size
      BY <1>1, <2>1, <2>2 DEF Inv, TypeOK
    <3>2. kept' \in BOOLEAN /\ out' \in Seq(Value)
      BY <1>4 DEF push, Inv, TypeOK
    <3> QED BY <1>2, <3>1, <3>2 DEF TypeOK
  <2>4. CASE count = 0
    <3>1. head' + count' - 1 = t
      BY <1>1, <2>2, <2>4 DEF Slot
    <3> QED BY <1>1, <2>2, <2>3, <3>1, Wrap DEF Inv, EndsAgree, Slot
  <2>5. CASE count > 0
    <3>1. tail = (head + count - 1) % Size /\ head \in Slot
      BY <2>5 DEF Inv, EndsAgree, TypeOK
    <3>2. head + count - 1 \in Nat /\ head + count < Size + Size /\ head + count \in Nat
      BY <2>1, <2>5, <3>1 DEF Slot
    <3>3. Advance(tail) = (head + count) % Size
      BY <2>1, <3>1, <3>2, Wrap DEF Advance, Slot
    <3>4. head' + count' - 1 = head + count
      BY <2>1, <2>2, <2>5, <3>1 DEF Slot
    <3> QED BY <2>2, <2>3, <3>3, <3>4 DEF Inv, EndsAgree
  <2> QED BY <2>1, <2>4, <2>5
<1> QED BY <1>3, <1>4

LEMMA ShiftInv == ASSUME Inv, shift PROVE Inv'
<1>1. head \in Slot /\ count \in 1 .. Size /\ buffer[head] \in Value
  BY DEF shift, Inv, TypeOK
<1>2. TypeOK'
  BY <1>1, AdvanceInSlot DEF shift, Inv, TypeOK
<1>3. ASSUME count' > 0 PROVE tail' = (head' + count' - 1) % Size
  <2>1. tail = (head + count - 1) % Size /\ count > 1 /\ count' = count - 1
    BY <1>1, <1>3 DEF shift, Inv, EndsAgree
  <2>2. head + count - 1 \in Nat /\ head + count - 1 < Size + Size
    BY <1>1 DEF Slot
  <2>3. Advance(head) + count - 2 \in Nat /\ Advance(head) + count - 2 < Size + Size
    BY <1>1, <2>1 DEF Advance, Slot
  <2>4. (Advance(head) + count - 2) % Size = (head + count - 1) % Size
    BY <1>1, <2>1, <2>2, <2>3, Wrap DEF Advance, Slot
  <2>5. head' + count' - 1 = Advance(head) + count - 2
    BY <1>1, <2>1 DEF shift, Advance, Slot
  <2> QED BY <2>1, <2>4, <2>5 DEF shift
<1> QED BY <1>2, <1>3 DEF Inv, EndsAgree

LEMMA NextInv == Inv /\ [Next]_vars => Inv'
<1> SUFFICES ASSUME Inv, [Next]_vars PROVE Inv'
  OBVIOUS
<1>1. ASSUME NEW v \in Value, push(v) PROVE Inv'
  BY <1>1, PushInv
<1>2. CASE shift
  BY <1>2, ShiftInv
<1>3. CASE shiftEmpty
  <2>1. buffer[head] \in Value
    BY DEF Inv, TypeOK
  <2> QED BY <1>3, <2>1 DEF shiftEmpty, Inv, TypeOK, EndsAgree
<1>4. CASE clear
  BY <1>4 DEF clear, Inv, TypeOK, EndsAgree, Slot
<1>5. CASE UNCHANGED vars
  BY <1>5 DEF vars, Inv, TypeOK, EndsAgree
<1> QED BY <1>1, <1>2, <1>3, <1>4, <1>5 DEF Next

\* The ring stays within its array and its count within its size, and the tail
\* is always where head and count say the newest element is.
THEOREM RingInv == Spec => []Inv
BY InitInv, NextInv, PTL DEF Spec

THEOREM RingTypeOK == Spec => []TypeOK
BY RingInv, PTL DEF Inv

THEOREM RingEndsAgree == Spec => []EndsAgree
BY RingInv, PTL DEF Inv

-----------------------------------------------------------------------------
(* The ring implements the queue *)

LEMMA ItemsSeq ==
  ASSUME TypeOK
  PROVE  /\ Items = Ring(buffer, head, count)
         /\ Items \in Seq(Value) /\ Len(Items) = count
         /\ \A i \in 1 .. count : Items[i] = buffer[(head + i - 1) % Size]
<1>1. Items = Ring(buffer, head, count)
  BY DEF Items, Ring
<1> QED BY <1>1, RingSeq DEF TypeOK

LEMMA ItemsSeqNext ==
  ASSUME TypeOK'
  PROVE  /\ Items' = Ring(buffer', head', count')
         /\ Items' \in Seq(Value) /\ Len(Items') = count'
         /\ \A i \in 1 .. count' : Items'[i] = buffer'[(head' + i - 1) % Size]
<1>1. Items' = Ring(buffer', head', count')
  BY DEF Items, Ring
<1>2. /\ buffer' \in [Slot -> Value] /\ head' \in Slot /\ count' \in 0 .. Size
  BY DEF TypeOK
<1> QED BY <1>1, <1>2, RingSeq

\* A push appends while there is room.
LEMMA PushAppends ==
  ASSUME Inv, NEW v \in Value, push(v), count < Size
  PROVE  Items' = Append(Items, v)
<1>1. Inv'
  BY PushInv
<1>2. /\ head \in Slot /\ count \in Nat /\ buffer \in [Slot -> Value]
  BY DEF Inv, TypeOK
<1>3. /\ count' = count + 1 /\ head' = (IF count = 0 THEN Advance(tail) ELSE head)
      /\ tail' = Advance(tail) /\ buffer' = [buffer EXCEPT ![Advance(tail)] = v]
  BY <1>2, SMT DEF push
<1>4. Advance(tail) \in Slot
  BY AdvanceInSlot DEF Inv, TypeOK
<1>5. tail' = (head' + count' - 1) % Size
  BY <1>1, <1>2, <1>3 DEF Inv, EndsAgree
<1>6. Len(Append(Items, v)) = count + 1 /\ Append(Items, v) \in Seq(Value)
  BY ItemsSeq DEF Inv
<1>7. Items' \in Seq(Value) /\ Len(Items') = count + 1
  BY <1>1, <1>3, ItemsSeqNext DEF Inv
<1>8. ASSUME NEW i \in 1 .. count + 1 PROVE Items'[i] = Append(Items, v)[i]
  <2>1. Items'[i] = buffer'[(head' + i - 1) % Size]
    BY <1>1, <1>3, ItemsSeqNext DEF Inv
  <2>2. CASE i = count + 1
    <3>1. head' + i - 1 = head' + count' - 1
      BY <1>3, <2>2
    <3>2. Items'[i] = v
      BY <1>2, <1>3, <1>4, <1>5, <2>1, <3>1
    <3>3. Append(Items, v)[i] = v
      BY <2>2, <1>2, ItemsSeq DEF Inv
    <3> QED BY <3>2, <3>3
  <2>3. CASE i \in 1 .. count
    <3>1. head' = head
      BY <1>2, <1>3, <2>3
    <3>2. Append(Items, v)[i] = buffer[(head + i - 1) % Size]
      BY <2>3, <1>2, ItemsSeq DEF Inv
    <3>3. /\ i - 1 \in 0 .. Size - 1 /\ count \in 0 .. Size - 1 /\ i - 1 # count
          /\ head + (i - 1) = head + i - 1
          /\ head + i - 1 \in Nat /\ head + i - 1 < Size + Size
      BY <1>2, <2>3 DEF Slot
    <3>4. (head + i - 1) % Size \in Slot /\ (head + i - 1) % Size # (head + count) % Size
      <4>1. (head + (i - 1)) % Size # (head + count) % Size
        BY <1>2, <3>3, Apart
      <4>2. (head + i - 1) % Size \in Slot
        BY <3>3, WrapInSlot
      <4> QED BY <3>3, <4>1, <4>2
    <3>5. head' + count' - 1 = head + count
      BY <1>2, <1>3, <3>1 DEF Slot
    <3>6. Advance(tail) = (head + count) % Size
      BY <1>3, <1>5, <3>5
    <3> QED BY <1>2, <1>3, <1>4, <2>1, <3>1, <3>2, <3>4, <3>6
  <2>4. i = count + 1 \/ i \in 1 .. count
    BY <1>2
  <2> QED BY <2>2, <2>3, <2>4
<1> QED BY <1>2, <1>6, <1>7, <1>8, SameElements

\* A push into a full ring drops the oldest element.
LEMMA PushOverwrites ==
  ASSUME Inv, NEW v \in Value, push(v), count = Size
  PROVE  Items' = SubSeq(Append(Items, v), 2, Size + 1) /\ Len(Items') = Size
<1>1. Inv'
  BY PushInv
<1>2. /\ head \in Slot /\ count \in Nat /\ buffer \in [Slot -> Value]
  BY DEF Inv, TypeOK
<1>3. /\ count' = Size /\ head' = Advance(head)
      /\ buffer' = [buffer EXCEPT ![Advance(tail)] = v]
  BY SMT DEF push
<1>4. tail = (head + Size - 1) % Size
  BY DEF Inv, EndsAgree
<1>5. Advance(tail) = head
  BY <1>2, <1>4, FullCircle
<1>6. Len(Append(Items, v)) = Size + 1 /\ Append(Items, v) \in Seq(Value)
  BY ItemsSeq DEF Inv
<1>7. Items' \in Seq(Value) /\ Len(Items') = Size
  BY <1>1, <1>3, ItemsSeqNext DEF Inv
<1>8. /\ SubSeq(Append(Items, v), 2, Size + 1) \in Seq(Value)
      /\ Len(SubSeq(Append(Items, v), 2, Size + 1)) = Size
      /\ \A i \in 1 .. Size :
           SubSeq(Append(Items, v), 2, Size + 1)[i] = Append(Items, v)[i + 1]
  BY <1>6
<1>9. ASSUME NEW i \in 1 .. Size PROVE Items'[i] = Append(Items, v)[i + 1]
  <2>1. Items'[i] = buffer'[(Advance(head) + i - 1) % Size]
    BY <1>1, <1>3, ItemsSeqNext DEF Inv
  <2>2. CASE i = Size
    <3>1. (Advance(head) + i - 1) % Size = head
      <4>1. Advance(head) + i - 1 \in Nat /\ Advance(head) + i - 1 < Size + Size
        BY <1>2, <2>2 DEF Advance, Slot
      <4> QED BY <1>2, <2>2, <4>1, Wrap DEF Advance, Slot
    <3>2. Append(Items, v)[i + 1] = v
      BY <2>2, ItemsSeq DEF Inv
    <3> QED BY <1>2, <1>3, <1>5, <2>1, <3>1, <3>2
  <2>3. CASE i # Size
    <3> i \in 1 .. Size - 1
      BY <2>3
    <3>1. (Advance(head) + i - 1) % Size = (head + i) % Size
      <4>1. (Advance(head) + (i - 1)) % Size = (head + (i - 1) + 1) % Size
        BY <1>2, AdvanceShifts
      <4>2. Advance(head) + (i - 1) = Advance(head) + i - 1 /\ head + (i - 1) + 1 = head + i
        BY <1>2 DEF Advance, Slot
      <4> QED BY <4>1, <4>2
    <3>2. (head + i) % Size \in Slot /\ (head + i) % Size # head
      <4>1. (head + i) % Size # (head + 0) % Size
        BY <1>2, Apart
      <4>2. head + 0 = head /\ head \in Nat /\ head < Size /\ head + i \in Nat
            /\ head + i < Size + Size
        BY <1>2 DEF Slot
      <4>3. head % Size = head
        BY <4>2, Wrap
      <4>4. (head + i) % Size \in Slot
        BY <4>2, WrapInSlot
      <4> QED BY <4>1, <4>2, <4>3, <4>4
    <3>3. Append(Items, v)[i + 1] = buffer[(head + (i + 1) - 1) % Size]
      BY <2>3, ItemsSeq DEF Inv
    <3>4. head + (i + 1) - 1 = head + i
      BY <1>2 DEF Slot
    <3> QED BY <1>2, <1>3, <1>5, <2>1, <3>1, <3>2, <3>3, <3>4
  <2> QED BY <2>2, <2>3
<1> QED BY <1>7, <1>8, <1>9, SameElements

LEMMA InitQueue == Init => Queue!Init
<1> SUFFICES ASSUME Init PROVE Items = <<>> /\ out = <<>>
  BY DEF Queue!Init
<1>1. count = 0 /\ out = <<>>
  BY DEF Init
<1> QED BY <1>1 DEF Items

LEMMA PushPuts == ASSUME Inv, NEW v \in Value, push(v) PROVE Queue!Put(<<v>>)
<1>1. Queue!FirstOf(<<v>>, Size) = <<v>>
  BY DEF Queue!FirstOf
<1>2. Items \in Seq(Value) /\ Len(Items) = count /\ count \in 0 .. Size
  BY ItemsSeq DEF Inv, TypeOK
<1>3. Items \o <<v>> = Append(Items, v) /\ Len(Append(Items, v)) = count + 1
  BY <1>2
<1>4. CASE count < Size
  <2>1. Queue!LastOf(Append(Items, v), Size) = Append(Items, v)
    BY <1>2, <1>3, <1>4 DEF Queue!LastOf
  <2> QED BY <1>1, <1>3, <1>4, <2>1, PushAppends DEF Queue!Put, push
<1>5. CASE count = Size
  <2>1. Queue!LastOf(Append(Items, v), Size) = SubSeq(Append(Items, v), 2, Size + 1)
    BY <1>2, <1>3, <1>5 DEF Queue!LastOf
  <2> QED BY <1>1, <1>3, <1>5, <2>1, PushOverwrites DEF Queue!Put, push
<1> QED BY <1>2, <1>4, <1>5

LEMMA ShiftTakes == ASSUME Inv, shift PROVE Queue!Take(1)
<1>1. Inv'
  BY ShiftInv
<1>2. /\ head \in Slot /\ count \in 1 .. Size
      /\ out' = <<buffer[head]>> /\ head' = Advance(head) /\ count' = count - 1
      /\ buffer' = buffer
  BY DEF shift, Inv, TypeOK
<1>3. Items \in Seq(Value) /\ Len(Items) = count /\ Items[1] = buffer[head]
  <2>1. (head + 1 - 1) % Size = head
    BY <1>2, Wrap DEF Slot
  <2> QED BY <1>2, <2>1, ItemsSeq DEF Inv
<1>4. SubSeq(Items, 1, 1) = <<buffer[head]>>
  <2>1. SubSeq(Items, 1, 1) = [i \in 1 .. 1 |-> Items[1 + i - 1]]
    BY <1>2, <1>3
  <2>2. [i \in 1 .. 1 |-> Items[1 + i - 1]] = <<Items[1]>>
    OBVIOUS
  <2> QED BY <1>3, <2>1, <2>2
<1>5. Items' \in Seq(Value) /\ Len(Items') = count - 1
  BY <1>1, <1>2, ItemsSeqNext DEF Inv
<1>6. /\ SubSeq(Items, 2, count) \in Seq(Value)
      /\ Len(SubSeq(Items, 2, count)) = count - 1
      /\ \A i \in 1 .. count - 1 : SubSeq(Items, 2, count)[i] = Items[i + 1]
  BY <1>2, <1>3
<1>7. ASSUME NEW i \in 1 .. count - 1 PROVE Items'[i] = Items[i + 1]
  <2>1. Items'[i] = buffer[(Advance(head) + i - 1) % Size]
    BY <1>1, <1>2, ItemsSeqNext DEF Inv
  <2>2. (Advance(head) + i - 1) % Size = (head + (i + 1) - 1) % Size
    BY <1>2, Wrap DEF Advance, Slot
  <2>3. Items[i + 1] = buffer[(head + (i + 1) - 1) % Size]
    BY <1>2, ItemsSeq DEF Inv
  <2> QED BY <2>1, <2>2, <2>3
<1>8. Items' = SubSeq(Items, 2, count)
  BY <1>2, <1>5, <1>6, <1>7, SameElements
<1> QED BY <1>2, <1>3, <1>4, <1>8 DEF Queue!Take

LEMMA StepQueue == Inv /\ [Next]_vars => [Queue!Next]_(Queue!vars)
<1> SUFFICES ASSUME Inv, [Next]_vars PROVE [Queue!Next]_(Queue!vars)
  OBVIOUS
<1>1. ASSUME NEW v \in Value, push(v) PROVE Queue!Next
  BY <1>1, PushPuts DEF Queue!Next
<1>2. CASE shift
  <2>1. 1 \in 0 .. Size
    OBVIOUS
  <2> QED BY <1>2, <2>1, ShiftTakes DEF Queue!Next
<1>3. CASE shiftEmpty
  <2>1. Items = <<>> /\ Items' = Items
    BY <1>3 DEF shiftEmpty, Items
  <2>2. out' = <<buffer[head]>> /\ buffer[head] \in Value
    BY <1>3 DEF shiftEmpty, Inv, TypeOK
  <2> QED BY <2>1, <2>2 DEF Queue!Next, Queue!TakeNothing
<1>4. CASE clear
  <2>1. Items' = <<>> /\ out' = out
    BY <1>4 DEF clear, Items
  <2>2. Items \in Seq(Value) /\ Len(Items) = count /\ count \in 0 .. Size
    BY ItemsSeq DEF Inv, TypeOK
  <2>3. SubSeq(Items, count + 1, count) = <<>>
    BY <2>2
  <2>4. Queue!Drop(count)
    BY <2>1, <2>2, <2>3 DEF Queue!Drop
  <2> QED BY <2>2, <2>4 DEF Queue!Next
<1>5. CASE UNCHANGED vars
  BY <1>5 DEF vars, Items, Queue!vars
<1> QED BY <1>1, <1>2, <1>3, <1>4, <1>5 DEF Next

\* The ring is an overwriting queue: what readers get, and in which order, is
\* what a queue of unlimited positions would give them, minus the oldest
\* elements that did not fit.
THEOREM RingImplementsQueue == Spec => Implements
BY RingInv, InitQueue, StepQueue, PTL DEF Spec, Implements, Queue!Spec

\* A push reports a loss exactly when it causes one.
LEMMA PushReports ==
  ASSUME Inv, NEW v \in Value, push(v)
  PROVE  kept' <=> Items' = Append(Items, v)
<1>1. Len(Append(Items, v)) = count + 1 /\ count \in 0 .. Size
  BY ItemsSeq DEF Inv, TypeOK
<1>2. CASE count < Size
  <2>1. kept'
    BY <1>1, <1>2 DEF push
  <2> QED BY <1>2, <2>1, PushAppends
<1>3. CASE count = Size
  <2>1. ~kept'
    BY <1>1, <1>3 DEF push
  <2>2. Len(Items') = Size
    BY <1>3, PushOverwrites
  <2> QED BY <1>1, <1>3, <2>1, <2>2
<1> QED BY <1>1, <1>2, <1>3

\* What push() is given ends up behind all that was pushed before, and what it
\* returns says whether anything was lost for it.
THEOREM RingPushesPut == Spec => PushesPut
<1>1. ASSUME Inv, NEW v \in Value, push(v)
      PROVE  Queue!Put(<<v>>) /\ (kept' <=> Items' = Append(Items, v))
  BY <1>1, PushPuts, PushReports
<1>2. Inv /\ [Next]_vars =>
        [\A v \in Value : push(v) => /\ Queue!Put(<<v>>)
                                     /\ kept' <=> Items' = Append(Items, v)]_vars
  BY <1>1
<1> QED BY <1>2, RingInv, PTL DEF Spec, PushesPut

-----------------------------------------------------------------------------
(* endsWith() *)

LEMMA StringSeq ==
  ASSUME NEW str \in Strings
  PROVE  str \in Seq(Value)
<1>1. PICK n \in 0 .. Size + 1 : str \in [1 .. n -> Value]
  BY DEF Strings
<1>2. n \in Nat
  OBVIOUS
<1> QED BY <1>1, <1>2

LEMMA EndsWithPlaces ==
  ASSUME Inv, NEW str \in Strings
  PROVE  EndsWith(str) <=> IsSuffix(str, Items)
<1> DEFINE n == Len(str)
<1>1. /\ count \in 0 .. Size /\ head \in Slot /\ Items \in Seq(Value) /\ Len(Items) = count
      /\ \A i \in 1 .. count : Items[i] = buffer[(head + i - 1) % Size]
  BY ItemsSeq DEF Inv, TypeOK, Items
<1>2. str \in Seq(Value) /\ n \in Nat
  BY StringSeq
<1>3. EndsWith(str) <=> n <= count /\ \A i \in 1 .. n : At(count - i) = str[n + 1 - i]
  BY DEF EndsWith
<1>4. IsSuffix(str, Items) <=> n <= count /\ \A i \in 1 .. n : str[n - i + 1] = Items[count - i + 1]
  <2>1. str \in Seq(Value) /\ Items \in Seq(Value)
    BY <1>1, <1>2
  <2>2. IsSuffix(str, Items) <=> SameEnd(str, Items)
    BY <2>1, SuffixPlaces
  <2>3. SameEnd(str, Items) <=>
          /\ n <= Len(Items)
          /\ \A i \in 1 .. n : str[n - i + 1] = Items[Len(Items) - i + 1]
    BY DEF SameEnd
  <2> HIDE DEF n
  <2> QED BY <1>1, <2>2, <2>3
<1> HIDE DEF n
<1>5. ASSUME n <= count, NEW i \in 1 .. n
      PROVE  At(count - i) = Items[count - i + 1] /\ str[n + 1 - i] = str[n - i + 1]
  <2>1. count - i + 1 \in 1 .. count /\ ~(count - i >= count)
    BY <1>1, <1>2, <1>5
  <2>2. At(count - i) = buffer[(head + (count - i)) % Size]
    BY <2>1 DEF At
  <2>3. head + (count - i + 1) - 1 = head + (count - i) /\ n + 1 - i = n - i + 1
    BY <1>1, <1>2 DEF Slot
  <2>4. Items[count - i + 1] = buffer[(head + (count - i + 1) - 1) % Size]
    BY <1>1, <2>1
  <2> QED BY <2>2, <2>3, <2>4
<1> QED BY <1>3, <1>4, <1>5

\* However the window has wrapped, endsWith() is true exactly of the strings the last
\* characters spell: what the Arduino port takes for the end of an answer has been received.
THEOREM RingEndsWithIsSuffix == Spec => []EndsWithIsSuffix
<1>1. Inv => EndsWithIsSuffix
  BY EndsWithPlaces DEF EndsWithIsSuffix
<1> QED BY <1>1, RingInv, PTL
==============================================================================
