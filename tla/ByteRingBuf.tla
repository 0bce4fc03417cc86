----------------------------- MODULE ByteRingBuf -----------------------------
(***************************************************************************)
(* utils/byteringbuf.cpp: the receive buffer of the ESP port.  _head is    *)
(* the slot the next byte goes to, _tail the slot of the oldest byte, and  *)
(* equal means empty, so that of the Size slots allocated Size - 1 hold    *)
(* data.  write() copies whole blocks, in two pieces where they wrap.      *)
(***************************************************************************)
EXTENDS Integers, Sequences

CONSTANTS Size,     \* sizeBytes
          Byte,     \* what a byte tells apart
          MaxWrite  \* the longest block a caller writes

ASSUME SizeAssumption == Size \in Nat \ {0, 1} /\ MaxWrite \in Nat

VARIABLES buf, head, tail,
          out       \* what the last read() or pop() returned

vars == <<buf, head, tail, out>>

Slot == 0 .. Size - 1
Blocks == UNION {[1 .. n -> Byte] : n \in 0 .. MaxWrite}

TypeOK == /\ buf \in [Slot -> Byte]
          /\ head \in Slot
          /\ tail \in Slot
          /\ out \in Seq(Byte)

Init == /\ buf \in [Slot -> Byte]
        /\ head = 0 /\ tail = 0
        /\ out = <<>>

getUsed == IF tail > head THEN Size - tail + head ELSE head - tail

getFree == IF tail > head THEN tail - head - 1 ELSE Size - head + tail - 1

Least(m, n) == IF m < n THEN m ELSE n

\* A slip: the second piece of a block that wraps is copied from its start.
CopyIn_SecondPiece(source, len) ==
  LET first == Least(len, Size - head)
  IN  [j \in Slot |->
         CASE j \in head .. head + first - 1 -> source[j - head + 1]
           [] j \in 0 .. len - first - 1     -> source[j + 1]
           [] OTHER                          -> buf[j]]

\* The two memcpy of write(): from head to the end of the array at most, and
\* the rest of the block from the start of the array.
CopyIn(source, len) ==
  LET first == Least(len, Size - head)
  IN  [j \in Slot |->
         CASE j \in head .. head + first - 1 -> source[j - head + 1]
           [] j \in 0 .. len - first - 1     -> source[first + j + 1]
           [] OTHER                          -> buf[j]]

\* A slip: overwriting does not move the tail along.
write_LeavesTail(source) ==
  LET len == Least(Len(source), Size - 1)
  IN  /\ buf' = CopyIn(source, len)
      /\ head' = (head + len) % Size
      /\ UNCHANGED <<tail, out>>

write(source) ==
  LET len == Least(Len(source), Size - 1)
      end == (head + len) % Size
  IN  /\ buf' = CopyIn(source, len)
      /\ head' = end
      /\ tail' = IF len > getFree THEN (end + 1) % Size ELSE tail
      /\ UNCHANGED out

\* The two memcpy of read(), the mirror image.
CopyOut(len) ==
  LET first == Least(len, Size - tail)
  IN  [i \in 1 .. len |-> IF i <= first THEN buf[tail + i - 1] ELSE buf[i - first - 1]]

read(maxLen) ==
  LET len == Least(maxLen, getUsed)
  IN  /\ out' = CopyOut(len)
      /\ tail' = (tail + len) % Size
      /\ UNCHANGED <<buf, head>>

\* A slip: pop() does not wrap.
pop_NoWrap == /\ IF getUsed > 0
                 THEN out' = <<buf[tail]>> /\ tail' = tail + 1
                 ELSE out' = <<>> /\ UNCHANGED tail
              /\ UNCHANGED <<buf, head>>

pop == /\ IF getUsed > 0
          THEN out' = <<buf[tail]>> /\ tail' = (tail + 1) % Size
          ELSE out' = <<>> /\ UNCHANGED tail
       /\ UNCHANGED <<buf, head>>

consume(n) == /\ tail' = (tail + Least(n, getUsed)) % Size
              /\ UNCHANGED <<buf, head, out>>

clear == /\ head' = 0 /\ tail' = 0
         /\ UNCHANGED <<buf, out>>

\* A slip: the comparison starts one byte short of the newest one.
endsWith_OffByOne(str) ==
  /\ Len(str) \in 1 .. getUsed
  /\ \A i \in 0 .. Len(str) - 1 :
       str[Len(str) - i] = buf[(tail + getUsed - i) % Size]

endsWith(str) ==
  /\ Len(str) \in 1 .. getUsed
  /\ \A i \in 0 .. Len(str) - 1 :
       str[Len(str) - i] = buf[(tail + getUsed - 1 - i) % Size]

\* A slip: a string the buffer holds only the start of counts as found.
compare_PartIsAll(str) ==
  LET n == Least(Len(str), getUsed)
  IN  IF n = 0 \/ \E i \in 0 .. n - 1 : str[i + 1] # buf[(tail + i) % Size]
      THEN "CMP_NO_MATCH" ELSE "CMP_ALL_MATCH"

compare(str) ==
  LET n == Least(Len(str), getUsed)
  IN  IF n = 0 \/ \E i \in 0 .. n - 1 : str[i + 1] # buf[(tail + i) % Size]
      THEN "CMP_NO_MATCH"
      ELSE IF Len(str) # n THEN "CMP_MATCH_PART" ELSE "CMP_ALL_MATCH"

Next == \/ \E source \in Blocks : write(source)
        \/ \E maxLen \in 0 .. Size : read(maxLen)
        \/ pop
        \/ \E n \in 0 .. Size : consume(n)
        \/ clear

Spec == Init /\ [][Next]_vars

-----------------------------------------------------------------------------
\* The bytes in the buffer, oldest first.
Items == [i \in 1 .. getUsed |-> buf[(tail + i - 1) % Size]]

Queue == INSTANCE OverwritingQueue
           WITH Capacity <- Size - 1, Value <- Byte, Writes <- Blocks,
                items <- Items

\* The ring implements the overwriting queue of Size - 1 bytes: a block that
\* does not fit drops exactly the oldest bytes, in whatever position the array
\* is, and a block longer than the whole ring keeps its first bytes only.
Implements == Queue!Spec

\* The bytes that end up in the ring are those of the block that was written,
\* in their order, on both sides of the wrap.
WritesPut == [][\A source \in Blocks : write(source) => Queue!Put(source)]_vars
=============================================================================
