-------------------------- MODULE OverwritingQueue --------------------------
(***************************************************************************)
(* What the two ring buffers of the library promise: a bounded FIFO queue  *)
(* in which a write never fails, and drops the oldest elements when there  *)
(* is no room.  CircularBuffer (the queue of NMEA and MQTT messages and    *)
(* the Arduino match window) and ByteRingBuf (the ESP receive buffer) are  *)
(* each shown to implement it.                                             *)
(***************************************************************************)
EXTENDS Integers, Sequences

CONSTANTS Capacity,   \* how many elements are kept
          Value,      \* the elements
          Writes      \* the sequences of elements written in one call

VARIABLES items,      \* the elements kept, oldest first
          out         \* what the last read returned

vars == <<items, out>>

FirstOf(s, n) == IF Len(s) <= n THEN s ELSE SubSeq(s, 1, n)
LastOf(s, n) == IF Len(s) <= n THEN s ELSE SubSeq(s, Len(s) - n + 1, Len(s))

TypeOK == /\ items \in Seq(Value)
          /\ Len(items) <= Capacity
          /\ out \in Seq(Value)

Init == items = <<>> /\ out = <<>>

\* Add elements at the newest end, at the cost of the oldest when there is no
\* room.  What exceeds the whole capacity is not accepted in the first place.
Put(s) == /\ items' = LastOf(items \o FirstOf(s, Capacity), Capacity)
          /\ UNCHANGED out

\* Read and remove the oldest n elements.
Take(n) == /\ n \in 0 .. Len(items)
           /\ out' = SubSeq(items, 1, n)
           /\ items' = SubSeq(items, n + 1, Len(items))

\* A read of an empty queue returns nothing, or a value that means nothing.
TakeNothing == /\ items = <<>>
               /\ out' \in {<<>>} \cup {<<v>> : v \in Value}
               /\ UNCHANGED items

\* Remove the oldest n elements unread.
Drop(n) == /\ n \in 0 .. Len(items)
           /\ items' = SubSeq(items, n + 1, Len(items))
           /\ UNCHANGED out

Next == \/ \E s \in Writes : Put(s)
        \/ \E n \in 0 .. Capacity : Take(n)
        \/ TakeNothing
        \/ \E n \in 0 .. Capacity : Drop(n)

Spec == Init /\ [][Next]_vars
=============================================================================
