--------------------------- MODULE CircularBuffer ---------------------------
(***************************************************************************)
(* utils/CircularBuffer.hpp: a template ring of Size slots addressed by    *)
(* two pointers, to the oldest element (head) and to the newest element    *)
(* (tail), and a count.  A pointer is modelled by its offset in the array. *)
(* The queues of GNSS NMEA and of MQTT messages and the 64-character       *)
(* window in which the Arduino port matches responses are instances.       *)
(***************************************************************************)
EXTENDS Integers, Sequences

CONSTANTS Size,     \* template parameter S
          Value     \* template parameter T

ASSUME SizeAssumption == Size \in Nat \ {0}

VARIABLES buffer,   \* the array; the constructor does not initialise it
          head, tail, count,
          kept,     \* what the last push returned
          out       \* what the last shift returned

vars == <<buffer, head, tail, count, kept, out>>

Slot == 0 .. Size - 1

TypeOK == /\ buffer \in [Slot -> Value]
          /\ head \in Slot
          /\ tail \in Slot
          /\ count \in 0 .. Size
          /\ kept \in BOOLEAN
          /\ out \in Seq(Value)

Init == /\ buffer \in [Slot -> Value]
        /\ head = 0 /\ tail = 0 /\ count = 0
        /\ kept = TRUE
        /\ out = <<>>

\* A slip: the pointer is wrapped one element too late.
Advance_Late(p) == IF p = Size THEN 0 ELSE p + 1

\* ++p, wrapped at the end of the array
Advance(p) == IF p + 1 = Size THEN 0 ELSE p + 1

\* Plausible slips in push: the overwritten element stays at the head; the
\* first element does not set the head; the loss is announced one push early.
push_KeepsHead(v) ==
  LET t == Advance(tail) IN
  /\ tail' = t
  /\ buffer' = [buffer EXCEPT ![t] = v]
  /\ head' = IF count = 0 THEN t ELSE head
  /\ count' = IF count = Size THEN count ELSE count + 1
  /\ kept' = (count # Size)
  /\ UNCHANGED out

push_FirstKeepsHead(v) ==
  LET t == Advance(tail) IN
  /\ tail' = t
  /\ buffer' = [buffer EXCEPT ![t] = v]
  /\ head' = IF count = Size THEN Advance(head) ELSE head
  /\ count' = IF count = Size THEN count ELSE count + 1
  /\ kept' = (count # Size)
  /\ UNCHANGED out

push_ReportsEarly(v) ==
  LET t == Advance(tail) IN
  /\ tail' = t
  /\ buffer' = [buffer EXCEPT ![t] = v]
  /\ head' = CASE count = Size -> Advance(head) [] count = 0 -> t [] OTHER -> head
  /\ count' = IF count = Size THEN count ELSE count + 1
  /\ kept' = (count + 1 < Size)
  /\ UNCHANGED out

push(v) ==
  LET t == Advance(tail) IN
  /\ tail' = t
  /\ buffer' = [buffer EXCEPT ![t] = v]
  /\ \/ /\ count = Size
        /\ head' = Advance(head)
        /\ kept' = FALSE
        /\ UNCHANGED count
     \/ /\ count < Size
        /\ head' = IF count = 0 THEN t ELSE head
        /\ count' = count + 1
        /\ kept' = TRUE
  /\ UNCHANGED out

shiftEmpty == /\ count = 0
              /\ out' = <<buffer[head]>>
              /\ UNCHANGED <<buffer, head, tail, count, kept>>

shift == /\ count > 0
         /\ out' = <<buffer[head]>>
         /\ head' = Advance(head)
         /\ count' = count - 1
         /\ UNCHANGED <<buffer, tail, kept>>

clear == /\ head' = 0 /\ tail' = 0 /\ count' = 0
         /\ UNCHANGED <<buffer, kept, out>>

\* operator[]: an index past the end reads the newest element
At(i) == IF i >= count THEN buffer[tail] ELSE buffer[(head + i) % Size]

\* A slip in endsWith: the guard on the length is dropped, and the comparison
\* stops with the elements of the buffer.
EndsWith_NoLengthGuard(str) ==
  \A i \in 1 .. Len(str) : i <= count => At(count - i) = str[Len(str) + 1 - i]

\* endsWith(buf, str) of modem_serial_arduino.h
EndsWith(str) ==
  /\ Len(str) <= count
  /\ \A i \in 1 .. Len(str) : At(count - i) = str[Len(str) + 1 - i]

Next == \/ \E v \in Value : push(v)
        \/ shift
        \/ shiftEmpty
        \/ clear

Spec == Init /\ [][Next]_vars

-----------------------------------------------------------------------------
\* The elements a reader sees through operator[], oldest first.
Items == [i \in 1 .. count |-> buffer[(head + i - 1) % Size]]

Queue == INSTANCE OverwritingQueue
           WITH Capacity <- Size, Writes <- {<<v>> : v \in Value},
                items <- Items

\* The ring implements the overwriting queue: push() drops the oldest element
\* and no other, shift() returns elements in the order they were pushed, and
\* neither is disturbed by where in the array the elements happen to lie.
Implements == Queue!Spec

\* Implements alone would let push() store any element and report anything: what it
\* stores is what it was given, behind everything it was given before, and ("`false`
\* if the addition caused overwriting to an existing element") it returns false
\* exactly when an element that nobody had shifted out is gone.
PushesPut ==
  [][\A v \in Value : push(v) => /\ Queue!Put(<<v>>)
                                 /\ kept' <=> Items' = Append(Items, v)]_vars

\* Head, tail and count agree: the newest element is where the tail points.
\* push() relies on it, because it moves the tail without looking at the head,
\* and shift() and clear() move the head without looking at the tail.
EndsAgree == count > 0 => tail = (head + count - 1) % Size
=============================================================================
