--------------------------- MODULE SmsClient_proofs ---------------------------
(***************************************************************************)
(* Proofs about messages, for every size of an SMS, every text and every   *)
(* number of calls: how a text is divided, by arithmetic; the loop of      *)
(* send() and sendWithComment() over the parts, and what the network has   *)
(* of it; and, from "Induction" on, the octets: that packing, half-octets  *)
(* and hexadecimal are undone by reading, that a PDU fits where it is      *)
(* built, and that read() finds in it what was sent.                       *)
(***************************************************************************)
EXTENDS SmsClient, SequenceTheorems, FiniteSetTheorems, WellFoundedInduction, TLAPS

Results == {"running", "true", "false"}
Entries == [call : Calls, reference : 0 .. References - 1, result : Results]

\* Sequences of the same length with the same elements are equal.
LEMMA SameElements ==
  ASSUME NEW S, NEW s \in Seq(S), NEW t \in Seq(S), Len(s) = Len(t),
         \A i \in 1 .. Len(s) : s[i] = t[i]
  PROVE  s = t
OBVIOUS

-----------------------------------------------------------------------------
(* Sizes *)

LEMMA Sizes ==
  ASSUME NEW c \in Calls
  PROVE  /\ PartSize(c) \in Nat \ {0} /\ Single(c) \in Nat \ {0} /\ PartSize(c) <= Single(c)
         /\ CommentLen(c) \in Nat /\ Len(c.data) \in Nat /\ Length(c) \in Nat
         /\ Length(c) = CommentLen(c) + Len(c.data)
         /\ MaxBytes(c) \in Nat \ {0}
<1>1. Len(c.comment) \in Nat /\ Len(c.data) \in Nat
  BY CallsAssumption, LenProperties
<1>2. /\ CharsIn(MaxOctets - HeaderLen) \in Nat \ {0} /\ CharsIn(MaxOctets) \in Nat \ {0}
      /\ CharsIn(MaxOctets - HeaderLen) <= CharsIn(MaxOctets)
  BY SizesAssumption DEF CharsIn, HeaderLen
<1>3. PartSize(c) \in Nat \ {0} /\ Single(c) \in Nat \ {0} /\ PartSize(c) <= Single(c)
  BY <1>2, SizesAssumption DEF PartSize, Single, HeaderLen
<1>4. CommentLen(c) \in Nat
  BY <1>1 DEF CommentLen
<1> QED BY <1>1, <1>3, <1>4 DEF Length, MaxBytes

\* At most three segments, of which all but the last are full, and none is empty.
LEMMA Division ==
  ASSUME NEW n \in Nat, NEW p \in Nat \ {0}, n <= 3 * p, n > 0
  PROVE  LET t == (n + p - 1) \div p
         IN /\ t \in 1 .. 3
            /\ t = 1 => n <= p
            /\ t = 2 => n > p /\ n <= 2 * p
            /\ t = 3 => n > 2 * p
<1>1. CASE n <= p
  <2>1. (n + p - 1) \div p = 1
    BY <1>1
  <2> QED BY <1>1, <2>1
<1>2. CASE n > p /\ n <= 2 * p
  <2>1. (n + p - 1) \div p = 2
    BY <1>2
  <2> QED BY <1>2, <2>1
<1>3. CASE n > 2 * p
  <2>1. (n + p - 1) \div p = 3
    BY <1>3
  <2> QED BY <1>3, <2>1
<1> QED BY <1>1, <1>2, <1>3

LEMMA Parts ==
  ASSUME NEW c \in Calls, ~Refused(c)
  PROVE  /\ TotalParts(c) \in 1 .. 3
         /\ TotalParts(c) = 1 => Length(c) <= MaxBytes(c)
         /\ TotalParts(c) = 2 => Length(c) > MaxBytes(c) /\ Length(c) <= 2 * MaxBytes(c)
         /\ TotalParts(c) = 3 => Length(c) > 2 * MaxBytes(c) /\ Length(c) <= 3 * MaxBytes(c)
<1> USE Sizes
<1>1. CASE ~Multipart(c)
  <2>1. TotalParts(c) = 1 /\ MaxBytes(c) = Single(c) /\ Length(c) <= Single(c)
    BY <1>1 DEF TotalParts, MaxBytes, Multipart
  <2> QED BY <2>1
<1>2. CASE Multipart(c)
  <2> DEFINE n == Length(c)
             p == PartSize(c)
  <2>1. n \in Nat /\ p \in Nat \ {0} /\ n <= 3 * p /\ n > 0
    BY <1>2 DEF Multipart, Refused
  <2>2. TotalParts(c) = (n + p - 1) \div p /\ MaxBytes(c) = p
    BY <1>2 DEF TotalParts, MaxBytes
  <2> HIDE DEF n, p
  <2>3. LET t == (n + p - 1) \div p
        IN /\ t \in 1 .. 3
           /\ t = 1 => n <= p
           /\ t = 2 => n > p /\ n <= 2 * p
           /\ t = 3 => n > 2 * p
    BY <2>1, Division
  <2> QED BY <2>1, <2>2, <2>3 DEF n
<1> QED BY <1>1, <1>2

-----------------------------------------------------------------------------
(* The log of calls *)

LogOK == /\ log \in Seq(Entries)
         /\ \A i \in 1 .. Len(log) : log[i].result = "running" => i = Len(log)
         /\ messageReference \in 0 .. References - 1

\* Is k a message of several parts that was not refused?
IsMultipart(k) == Multipart(log[k].call) /\ ~Refused(log[k].call)

LEMMA CurrentCall ==
  ASSUME LogOK, Running
  PROVE  Len(log) \in Nat \ {0} /\ Current \in Calls /\ log[Len(log)] \in Entries
<1>1. Len(log) \in Nat \ {0}
  BY EmptySeq DEF LogOK, Running
<1>2. log[Len(log)] \in Entries
  BY <1>1, ElementOfSeq DEF LogOK
<1> QED BY <1>1, <1>2 DEF Current, Entries

LEMMA Appended ==
  ASSUME LogOK, ~Running, NEW c \in Calls, NEW r \in Results,
         log' = Append(log, Entry(c, r)), messageReference' \in 0 .. References - 1
  PROVE  /\ LogOK' /\ Len(log) \in Nat /\ Len(log') = Len(log) + 1
         /\ \A i \in 1 .. Len(log) : log'[i] = log[i] /\ log[i] \in Entries /\ log[i].result # "running"
         /\ log'[Len(log) + 1] = Entry(c, r)
<1>1. Entry(c, r) \in Entries
  BY DEF Entry, Entries, LogOK
<1>2. Len(log) \in Nat
  BY LenProperties DEF LogOK
<1>3. /\ log' \in Seq(Entries) /\ Len(log') = Len(log) + 1
      /\ \A i \in 1 .. Len(log) : log'[i] = log[i]
      /\ log'[Len(log) + 1] = Entry(c, r)
  BY <1>1, AppendProperties DEF LogOK
<1>4. \A i \in 1 .. Len(log) : log[i] \in Entries
  BY ElementOfSeq DEF LogOK
<1>5. \A i \in 1 .. Len(log) : log[i].result # "running"
  <2> SUFFICES ASSUME NEW i \in 1 .. Len(log), log[i].result = "running" PROVE FALSE
    OBVIOUS
  <2>1. i = Len(log)
    BY DEF LogOK
  <2>2. log # <<>>
    BY <1>2, EmptySeq DEF LogOK
  <2> QED BY <2>1, <2>2 DEF Running
<1>6. \A i \in 1 .. Len(log') : log'[i].result = "running" => i = Len(log')
  BY <1>2, <1>3, <1>5
<1>7. LogOK'
  BY <1>3, <1>6 DEF LogOK
<1> QED BY <1>2, <1>3, <1>4, <1>5, <1>7

LEMMA Returned ==
  ASSUME LogOK, Running, NEW r \in {"true", "false"}, Return(r), UNCHANGED messageReference
  PROVE  /\ LogOK' /\ ~Running' /\ Len(log') = Len(log) /\ Len(log) \in Nat \ {0}
         /\ \A i \in 1 .. Len(log) : log'[i].call = log[i].call /\ log'[i].reference = log[i].reference
         /\ \A i \in 1 .. Len(log) : i # Len(log) => log'[i] = log[i]
         /\ log'[Len(log)].result = r
<1> DEFINE last == log[Len(log)]
           e == [last EXCEPT !.result = r]
<1>1. Len(log) \in Nat \ {0} /\ last \in Entries
  BY CurrentCall
<1>2. e \in Entries /\ e.call = last.call /\ e.reference = last.reference /\ e.result = r
  BY <1>1 DEF Entries, Results
<1>3. log' = [log EXCEPT ![Len(log)] = e]
  BY DEF Return
<1>4. log \in Seq(Entries) /\ Len(log) \in 1 .. Len(log)
  BY <1>1 DEF LogOK
<1> HIDE DEF e
<1>5. /\ log' \in Seq(Entries) /\ Len(log') = Len(log)
      /\ \A j \in 1 .. Len(log) : log'[j] = IF j = Len(log) THEN e ELSE log[j]
  BY <1>2, <1>3, <1>4, ExceptSeq
<1>6. \A i \in 1 .. Len(log) : log'[i].result # "running"
  BY <1>2, <1>5 DEF LogOK
<1>7. LogOK' /\ ~Running'
  BY <1>1, <1>4, <1>5, <1>6 DEF LogOK, Running
<1>8. \A i \in 1 .. Len(log) : log'[i].call = log[i].call /\ log'[i].reference = log[i].reference
  BY <1>2, <1>5
<1>9. \A i \in 1 .. Len(log) : i # Len(log) => log'[i] = log[i]
  BY <1>5
<1>10. log'[Len(log)].result = r
  BY <1>2, <1>4, <1>5
<1> QED BY <1>1, <1>5, <1>7, <1>8, <1>9, <1>10

-----------------------------------------------------------------------------
(* The loop over the parts: before part n, n - 1 full segments have been taken. *)

Cut == Running =>
  /\ ~Refused(Current)
  /\ part \in 1 .. TotalParts(Current)
  /\ commentIdx <= CommentLen(Current) /\ messageIdx <= Len(Current.data)
  /\ part = 1 => commentIdx + messageIdx = 0
  /\ part = 2 => commentIdx + messageIdx = MaxBytes(Current)
  /\ part = 3 => commentIdx + messageIdx = 2 * MaxBytes(Current)

LocalsOK == part \in Nat /\ commentIdx \in Nat /\ messageIdx \in Nat

LEMMA Taken ==
  ASSUME LocalsOK, NEW c \in Calls, commentIdx <= CommentLen(c), messageIdx <= Len(c.data)
  PROVE  /\ FromComment(c) \in Nat /\ FromData(c) \in Nat
         /\ commentIdx + FromComment(c) <= CommentLen(c)
         /\ messageIdx + FromData(c) <= Len(c.data)
         /\ FromComment(c) + FromData(c) = Least(Length(c) - (commentIdx + messageIdx), MaxBytes(c))
<1> DEFINE com == CommentLen(c)
           dat == Len(c.data)
           max == MaxBytes(c)
           fc == FromComment(c)
           fd == FromData(c)
<1>1. com \in Nat /\ dat \in Nat /\ max \in Nat \ {0} /\ Length(c) = com + dat
  BY Sizes
<1>2. commentIdx \in 0 .. com /\ messageIdx \in 0 .. dat
  BY <1>1 DEF LocalsOK
<1>3. /\ fc = IF com - commentIdx < max THEN com - commentIdx ELSE max
      /\ fd = IF dat - messageIdx < max - fc THEN dat - messageIdx ELSE max - fc
  BY DEF FromComment, FromData, Least
<1> HIDE DEF com, dat, max, fc, fd
<1>4. /\ fc \in Nat /\ fd \in Nat /\ commentIdx + fc <= com /\ messageIdx + fd <= dat
      /\ fc + fd = IF com + dat - (commentIdx + messageIdx) < max
                   THEN com + dat - (commentIdx + messageIdx) ELSE max
  BY <1>1, <1>2, <1>3
<1>5. fc + fd = Least(Length(c) - (commentIdx + messageIdx), max)
  BY <1>1, <1>2, <1>4 DEF Least
<1> QED BY <1>4, <1>5 DEF com, dat, max, fc, fd

LEMMA CutCovers ==
  ASSUME LogOK, LocalsOK, Cut
  PROVE  SegmentsCover
<1> SUFFICES ASSUME Running PROVE
       /\ Length(Current) > 0 => commentIdx + messageIdx < Length(Current)
       /\ FromComment(Current) + FromData(Current) <= MaxBytes(Current)
       /\ part = TotalParts(Current) =>
            commentIdx + messageIdx + FromComment(Current) + FromData(Current) = Length(Current)
  BY DEF SegmentsCover
<1> DEFINE c == Current
           n == commentIdx + messageIdx
           k == FromComment(c) + FromData(c)
<1>1. c \in Calls
  BY CurrentCall
<1>2. ~Refused(c) /\ part \in 1 .. TotalParts(c) /\ n \in Nat
  BY DEF Cut, LocalsOK
<1>3. k = Least(Length(c) - n, MaxBytes(c)) /\ k \in Nat
      /\ commentIdx + messageIdx + FromComment(c) + FromData(c) = n + k
  BY <1>1, Taken DEF Cut, LocalsOK
<1>4. /\ part = 1 => n = 0
      /\ part = 2 => n = MaxBytes(c)
      /\ part = 3 => n = 2 * MaxBytes(c)
  BY DEF Cut
<1>5. Length(c) \in Nat /\ MaxBytes(c) \in Nat \ {0}
  BY <1>1, Sizes
<1>6. /\ TotalParts(c) \in 1 .. 3
      /\ TotalParts(c) = 1 => Length(c) <= MaxBytes(c)
      /\ TotalParts(c) = 2 => Length(c) > MaxBytes(c) /\ Length(c) <= 2 * MaxBytes(c)
      /\ TotalParts(c) = 3 => Length(c) > 2 * MaxBytes(c) /\ Length(c) <= 3 * MaxBytes(c)
  BY <1>1, <1>2, Parts
<1> HIDE DEF c, n, k
<1>7. Length(c) > 0 => n < Length(c)
  BY <1>2, <1>4, <1>5, <1>6
<1>8. k <= MaxBytes(c)
  BY <1>2, <1>3, <1>5 DEF Least
<1>9. part = TotalParts(c) => n + k = Length(c)
  BY <1>2, <1>3, <1>4, <1>5, <1>6 DEF Least
<1> QED BY <1>3, <1>7, <1>8, <1>9 DEF c, n, k

\* The loop goes on: all of a segment was taken, and there is more.
LEMMA CutGoesOn ==
  ASSUME LogOK, LocalsOK, Cut, Running, part < TotalParts(Current), UNCHANGED log,
         part' = part + 1,
         commentIdx' = commentIdx + FromComment(Current),
         messageIdx' = messageIdx + FromData(Current)
  PROVE  LocalsOK' /\ Cut'
<1> DEFINE c == Current
           n == commentIdx + messageIdx
           k == FromComment(c) + FromData(c)
<1>1. c \in Calls /\ c' = c
  BY CurrentCall DEF Current
<1>2. ~Refused(c) /\ part \in 1 .. TotalParts(c) /\ n \in Nat
  BY DEF Cut, LocalsOK
<1>3. /\ FromComment(c) \in Nat /\ FromData(c) \in Nat
      /\ commentIdx + FromComment(c) <= CommentLen(c)
      /\ messageIdx + FromData(c) <= Len(c.data)
      /\ k = Least(Length(c) - n, MaxBytes(c))
      /\ commentIdx + FromComment(c) + (messageIdx + FromData(c)) = n + k
  BY <1>1, Taken, SMTT(30) DEF Cut, LocalsOK
<1>4. /\ part = 1 => n = 0
      /\ part = 2 => n = MaxBytes(c)
      /\ part = 3 => n = 2 * MaxBytes(c)
  BY DEF Cut
<1>5. Length(c) \in Nat /\ MaxBytes(c) \in Nat \ {0}
  BY <1>1, Sizes
<1>6. /\ TotalParts(c) \in 1 .. 3
      /\ TotalParts(c) = 2 => Length(c) > MaxBytes(c)
      /\ TotalParts(c) = 3 => Length(c) > 2 * MaxBytes(c)
  BY <1>1, <1>2, Parts
<1>7. LocalsOK'
  <2>1. part \in Nat /\ commentIdx \in Nat /\ messageIdx \in Nat
    BY DEF LocalsOK
  <2>2. commentIdx' \in Nat /\ messageIdx' \in Nat
    <3> DEFINE a == FromComment(c)
               b == FromData(c)
    <3>1. commentIdx' = commentIdx + a /\ messageIdx' = messageIdx + b
      OBVIOUS
    <3>2. a \in Nat /\ b \in Nat
      BY <1>3
    <3> HIDE DEF a, b, c
    <3> QED BY <2>1, <3>1, <3>2
  <2> QED BY <2>1, <2>2 DEF LocalsOK
<1>8. commentIdx' + messageIdx' = n + k
  BY <1>3
<1> DEFINE next == part + 1
<1>9. part' = next /\ next \in 1 .. TotalParts(c)
  BY <1>2, <1>6 DEF LocalsOK
<1>10. /\ next = 1 => n + k = 0
       /\ next = 2 => n + k = MaxBytes(c)
       /\ next = 3 => n + k = 2 * MaxBytes(c)
  <2> HIDE DEF c, n, k
  <2> QED BY <1>2, <1>3, <1>4, <1>5, <1>6, <1>9, SMTT(30) DEF Least
<1> HIDE DEF n, k, next
<1>11. ~Refused(Current') /\ part' \in 1 .. TotalParts(Current')
  BY <1>1, <1>2, <1>9
<1>12. commentIdx' <= CommentLen(Current') /\ messageIdx' <= Len(Current'.data)
  BY <1>1, <1>3
<1>13. /\ part' = 1 => commentIdx' + messageIdx' = 0
       /\ part' = 2 => commentIdx' + messageIdx' = MaxBytes(Current')
       /\ part' = 3 => commentIdx' + messageIdx' = 2 * MaxBytes(Current')
  BY <1>1, <1>8, <1>9, <1>10
<1> QED BY <1>7, <1>11, <1>12, <1>13 DEF Cut

-----------------------------------------------------------------------------
(* What the network has: of every call a beginning, each segment once *)

Sequences(id) == {a.sequence : a \in SentOf(id)}
Distinct(id) == \A a, b \in SentOf(id) : a.sequence = b.sequence => a = b

AirOK ==
  /\ \A a \in air : a.id \in 1 .. Len(log) /\ a.sequence \in Nat \ {0}
  /\ \A id \in 1 .. Len(log) :
       /\ \E n \in Nat : Sequences(id) = 1 .. n
       /\ Distinct(id)
       /\ log[id].result = "running" => Sequences(id) = 1 .. part - 1
       /\ log[id].result = "true" => Sequences(id) = 1 .. TotalParts(log[id].call)

LEMMA Counted ==
  ASSUME NEW id, NEW n \in Nat, Sequences(id) = 1 .. n, Distinct(id)
  PROVE  Cardinality(SentOf(id)) = n
<1> DEFINE S == SentOf(id)
           f == [a \in S |-> a.sequence]
<1>1. \A a \in S : f[a] = a.sequence /\ f[a] \in 1 .. n
  BY DEF Sequences
<1>2. f \in Injection(S, 1 .. n)
  BY <1>1 DEF Injection, IsInjective, Distinct
<1>3. f \in Surjection(S, 1 .. n)
  BY <1>1 DEF Surjection, Sequences
<1>4. IsFiniteSet(1 .. n) /\ Cardinality(1 .. n) = n
  BY FS_Interval
<1> HIDE DEF S, f
<1>5. Cardinality(S) = n
  BY <1>2, <1>3, <1>4, FS_Injection
<1> QED BY <1>5 DEF S

LEMMA AirInOrder == AirOK => SegmentsInOrder
<1> SUFFICES ASSUME AirOK, NEW id \in 1 .. Len(log)
             PROVE  /\ Sequences(id) = 1 .. Cardinality(SentOf(id))
                    /\ log[id].result = "true" => Sequences(id) = 1 .. TotalParts(log[id].call)
  BY DEF SegmentsInOrder, Sequences
<1>1. PICK n \in Nat : Sequences(id) = 1 .. n
  BY DEF AirOK
<1>2. Cardinality(SentOf(id)) = n
  BY <1>1, Counted DEF AirOK
<1> QED BY <1>1, <1>2 DEF AirOK

\* A new call has sent nothing, and the others are over.
LEMMA AirAtCall ==
  ASSUME AirOK, Len(log) \in Nat, Len(log') = Len(log) + 1, UNCHANGED air,
         \A i \in 1 .. Len(log) : log'[i] = log[i] /\ log[i].result # "running",
         \/ log'[Len(log) + 1].result = "false"
         \/ log'[Len(log) + 1].result = "running" /\ part' = 1
  PROVE  AirOK'
<1>1. \A id : SentOf(id)' = SentOf(id) /\ Sequences(id)' = Sequences(id) /\ (Distinct(id)' <=> Distinct(id))
  BY DEF SentOf, Sequences, Distinct
<1>2. \A a \in air' : a.id \in 1 .. Len(log') /\ a.sequence \in Nat \ {0}
  BY DEF AirOK
<1>3. ASSUME NEW id \in 1 .. Len(log)
      PROVE  /\ \E n \in Nat : Sequences(id)' = 1 .. n
             /\ Distinct(id)'
             /\ log'[id].result = "running" => Sequences(id)' = 1 .. part' - 1
             /\ log'[id].result = "true" => Sequences(id)' = 1 .. TotalParts(log'[id].call)
  BY <1>1 DEF AirOK
<1> PICK new \in Nat : new = Len(log) + 1
  OBVIOUS
<1>4. SentOf(new)' = {}
  BY DEF AirOK, SentOf
<1>5. Sequences(new)' = {} /\ Distinct(new)' /\ {} = 1 .. 0
  BY <1>4 DEF Sequences, Distinct
<1>6. log'[new].result = "running" => Sequences(new)' = 1 .. part' - 1
  BY <1>5
<1>7. log'[new].result # "true"
  OBVIOUS
<1>8. \A id \in 1 .. Len(log') : id \in 1 .. Len(log) \/ id = new
  OBVIOUS
<1>9. \E n \in Nat : Sequences(new)' = 1 .. n
  BY <1>5
<1>10. ASSUME NEW id \in 1 .. Len(log')
       PROVE  /\ \E n \in Nat : Sequences(id)' = 1 .. n
              /\ Distinct(id)'
              /\ log'[id].result = "running" => Sequences(id)' = 1 .. part' - 1
              /\ log'[id].result = "true" => Sequences(id)' = 1 .. TotalParts(log'[id].call)
  BY <1>3, <1>5, <1>6, <1>7, <1>8, <1>9
<1> QED BY <1>2, <1>10 DEF AirOK

\* What a segment adds to the network, if anything.
LEMMA AirWithSegment ==
  ASSUME AirOK, LogOK, LocalsOK, Cut, Running, NEW last, last = Len(log),
         NEW a, a.id = last, a.sequence = part, air' \in {air, air \cup {a}}
  PROVE  /\ \A b \in air' : b.id \in 1 .. Len(log) /\ b.sequence \in Nat \ {0}
         /\ \A id \in 1 .. Len(log) : (\E n \in Nat : Sequences(id)' = 1 .. n) /\ Distinct(id)'
         /\ \A id \in 1 .. Len(log) : id # last => Sequences(id)' = Sequences(id)
         /\ air' = air \cup {a} => Sequences(last)' = 1 .. part
<1>1. last \in Nat \ {0} /\ log[last].result = "running"
  BY CurrentCall DEF Running
<1>2. part \in Nat \ {0}
  <2>1. TotalParts(Current) \in 1 .. 3
    BY CurrentCall, Parts DEF Cut
  <2> QED BY <2>1 DEF Cut
<1>3. Sequences(last) = 1 .. part - 1 /\ Distinct(last)
  BY <1>1 DEF AirOK
<1>4. \A b \in air' : b.id \in 1 .. Len(log) /\ b.sequence \in Nat \ {0}
  BY <1>1, <1>2 DEF AirOK
<1>5. ASSUME NEW id \in 1 .. Len(log), id # last
      PROVE  SentOf(id)' = SentOf(id)
  BY <1>5 DEF SentOf
<1>6. CASE air' = air
  <2>1. \A id : SentOf(id)' = SentOf(id)
    BY <1>6 DEF SentOf
  <2>2. air' = air \cup {a} => a \in SentOf(last)
    BY <1>6 DEF SentOf
  <2>3. air' = air \cup {a} => part \in Sequences(last)
    BY <2>2 DEF Sequences
  <2>4. part \notin 1 .. part - 1
    BY <1>2
  <2>5. air' # air \cup {a}
    BY <1>3, <2>3, <2>4
  <2> QED BY <1>4, <2>1, <2>5 DEF AirOK, Sequences, Distinct
<1>7. CASE air' = air \cup {a}
  <2>1. SentOf(last)' = SentOf(last) \cup {a}
    BY <1>7 DEF SentOf
  <2>2. Sequences(last)' = Sequences(last) \cup {part}
    BY <2>1 DEF Sequences
  <2>3. (1 .. part - 1) \cup {part} = 1 .. part
    BY <1>2
  <2>4. Sequences(last)' = 1 .. part
    BY <1>3, <2>2, <2>3
  <2>5. Distinct(last)'
    <3> SUFFICES ASSUME NEW b \in SentOf(last)', NEW d \in SentOf(last)', b.sequence = d.sequence
                 PROVE  b = d
      BY DEF Distinct
    <3>1. \A x \in SentOf(last) : x.sequence \in 1 .. part - 1
      BY <1>3 DEF Sequences
    <3>2. \A x \in SentOf(last) : x.sequence # part
      BY <1>2, <3>1
    <3> QED BY <1>3, <2>1, <3>2 DEF Distinct
  <2>6. \A id \in 1 .. Len(log) : id # last => Sequences(id)' = Sequences(id) /\ (Distinct(id)' <=> Distinct(id))
    BY <1>5 DEF Sequences, Distinct
  <2>7. \A id \in 1 .. Len(log) : (\E n \in Nat : Sequences(id)' = 1 .. n) /\ Distinct(id)'
    <3> SUFFICES ASSUME NEW id \in 1 .. Len(log)
                 PROVE  (\E n \in Nat : Sequences(id)' = 1 .. n) /\ Distinct(id)'
      OBVIOUS
    <3>1. CASE id = last
      BY <1>2, <2>4, <2>5, <3>1
    <3>2. CASE id # last
      BY <2>6, <3>2 DEF AirOK
    <3> QED BY <3>1, <3>2
  <2> QED BY <1>4, <2>4, <2>6, <2>7
<1> QED BY <1>6, <1>7

-----------------------------------------------------------------------------
(* References: how many messages of several parts came before *)

Count(n) == Cardinality(Multiparts(1, n))

LEMMA CountType ==
  ASSUME NEW i \in Nat, NEW j \in Nat
  PROVE  IsFiniteSet(Multiparts(i, j)) /\ Cardinality(Multiparts(i, j)) \in Nat
<1>1. IsFiniteSet(i .. j)
  BY FS_Interval
<1>2. Multiparts(i, j) \in SUBSET (i .. j)
  BY DEF Multiparts
<1>3. IsFiniteSet(Multiparts(i, j))
  BY <1>1, <1>2, FS_Subset
<1> QED BY <1>3, FS_CardinalityType

\* Between i and j, i being one of them.
LEMMA CountBetween ==
  ASSUME NEW i \in Nat \ {0}, NEW j \in Nat, i < j, IsMultipart(i)
  PROVE  /\ Cardinality(Multiparts(i, j - 1)) = Count(j - 1) - Count(i - 1)
         /\ Count(i - 1) \in Nat /\ Count(j - 1) \in Nat /\ Count(i - 1) < Count(j - 1)
<1> DEFINE before == Multiparts(1, i - 1)
           between == Multiparts(i, j - 1)
           all == Multiparts(1, j - 1)
<1>1. /\ IsFiniteSet(before) /\ Cardinality(before) \in Nat
      /\ IsFiniteSet(between) /\ Cardinality(between) \in Nat
  <2>1. i - 1 \in Nat /\ j - 1 \in Nat
    OBVIOUS
  <2> QED BY <2>1, CountType
<1>2. all = before \cup between
  BY DEF Multiparts
<1>3. before \cap between = {}
  BY DEF Multiparts
<1>4. i \in between
  BY DEF Multiparts, IsMultipart
<1>5. Cardinality(between) # 0
  BY <1>1, <1>4, FS_EmptySet
<1>6. Cardinality(before \cap between) = 0
  BY <1>3, FS_EmptySet
<1> HIDE DEF before, between, all
<1>7. Cardinality(before \cup between)
        = Cardinality(before) + Cardinality(between) - Cardinality(before \cap between)
  BY <1>1, FS_Union
<1>8. Cardinality(all) = Cardinality(before) + Cardinality(between)
  BY <1>1, <1>2, <1>6, <1>7
<1> QED BY <1>1, <1>5, <1>8 DEF Count, before, between, all

RefsOK ==
  /\ \E q \in Nat : 123 + Count(Len(log)) = q * References + messageReference
  /\ \A k \in 1 .. Len(log) :
       IsMultipart(k) => \E q \in Nat : 123 + Count(k - 1) = q * References + log[k].reference

\* The next reference, after one more message.
LEMMA NextRest ==
  ASSUME NEW W \in Nat \ {0}, NEW r \in 0 .. W - 1, NEW a \in Nat, NEW q \in Nat, a = q * W + r
  PROVE  \E p \in Nat : a + 1 = p * W + ((r + 1) % W)
<1> DEFINE next == (r + 1) % W
<1>1. CASE r + 1 < W
  <2>1. next = r + 1
    BY <1>1
  <2> HIDE DEF next
  <2>2. a + 1 = q * W + next
    BY <2>1
  <2> QED BY <2>2 DEF next
<1>2. CASE r + 1 = W
  <2>1. next = 0
    BY <1>2
  <2> HIDE DEF next
  <2>2. (q + 1) * W = q * W + W /\ q * W \in Nat /\ q + 1 \in Nat
    OBVIOUS
  <2>3. a + 1 = (q + 1) * W + next
    BY <1>2, <2>1, <2>2
  <2> QED BY <2>2, <2>3 DEF next
<1> QED BY <1>1, <1>2

\* The same rest of a later count means one round at least.
LEMMA OneRound ==
  ASSUME NEW W \in Nat \ {0}, NEW r \in Nat, NEW m \in Nat, NEW n \in Nat, m < n,
         NEW p \in Nat, NEW q \in Nat, m = p * W + r, n = q * W + r
  PROVE  n - m >= W
<1>1. p < q
  <2>1. SUFFICES ASSUME q <= p PROVE FALSE
    OBVIOUS
  <2>2. PICK d \in Nat : p = q + d
    BY <2>1
  <2>3. p * W = q * W + d * W /\ d * W \in Nat /\ q * W \in Nat
    BY <2>2
  <2> QED BY <2>3
<1>2. PICK d \in Nat : q = p + 1 + d
  <2>1. q - p - 1 \in Nat /\ q = p + 1 + (q - p - 1)
    BY <1>1
  <2> QED BY <2>1
<1>3. q * W = p * W + W + d * W /\ d * W \in Nat /\ p * W \in Nat
  BY <1>2
<1> QED BY <1>3

LEMMA RefsApart ==
  ASSUME LogOK, RefsOK
  PROVE  ReferencesApart
<1> SUFFICES ASSUME NEW i \in 1 .. Len(log), NEW j \in 1 .. Len(log), i < j,
                    {i, j} \subseteq Multiparts(1, Len(log)), log[i].reference = log[j].reference
             PROVE  Cardinality(Multiparts(i, j - 1)) >= References
  BY DEF ReferencesApart
<1>1. IsMultipart(i) /\ IsMultipart(j)
  BY DEF Multiparts, IsMultipart
<1>2. log[i] \in Entries /\ References \in Nat \ {0}
  BY ElementOfSeq, SizesAssumption DEF LogOK
<1> DEFINE r == log[i].reference
           m == Count(i - 1)
           n == Count(j - 1)
<1>3. r \in Nat
  BY <1>2 DEF Entries
<1>4. PICK p \in Nat : 123 + m = p * References + r
  BY <1>1 DEF RefsOK
<1>5. PICK q \in Nat : 123 + n = q * References + r
  BY <1>1 DEF RefsOK
<1>6. Cardinality(Multiparts(i, j - 1)) = n - m /\ m \in Nat /\ n \in Nat /\ m < n
  <2>1. i \in Nat \ {0} /\ j \in Nat
    OBVIOUS
  <2> QED BY <1>1, <2>1, CountBetween
<1> HIDE DEF r, m, n
<1>7. 123 + m \in Nat /\ 123 + n \in Nat /\ 123 + m < 123 + n
  BY <1>6
<1>8. (123 + n) - (123 + m) >= References
  BY <1>2, <1>3, <1>4, <1>5, <1>7, OneRound, SMTT(30)
<1> QED BY <1>2, <1>6, <1>8

\* What a call that was not refused does to the counter, and that nothing else does.
LEMMA RefsAtCall ==
  ASSUME LogOK, RefsOK, Len(log) \in Nat, Len(log') = Len(log) + 1,
         \A i \in 1 .. Len(log) : log'[i] = log[i],
         NEW c \in Calls, log'[Len(log) + 1].call = c,
         log'[Len(log) + 1].reference = messageReference,
         messageReference' = IF Multipart(c) /\ ~Refused(c) THEN (messageReference + 1) % References
                                                             ELSE messageReference
  PROVE  RefsOK'
<1> PICK n \in Nat : n = Len(log)
  OBVIOUS
<1>1. \A k \in 1 .. n : IsMultipart(k)' <=> IsMultipart(k)
  BY DEF IsMultipart
<1>2. IsMultipart(n + 1)' <=> Multipart(c) /\ ~Refused(c)
  BY DEF IsMultipart
<1>3. \A k \in 0 .. n : Count(k)' = Count(k)
  <2> SUFFICES ASSUME NEW k \in 0 .. n PROVE Multiparts(1, k)' = Multiparts(1, k)
    BY DEF Count
  <2> QED BY <1>1 DEF Multiparts, IsMultipart
<1>4. Count(n + 1)' = Count(n) + IF IsMultipart(n + 1)' THEN 1 ELSE 0
  <2>1. IsFiniteSet(Multiparts(1, n)) /\ Count(n) \in Nat
    BY CountType DEF Count
  <2>2. \A k \in 1 .. n + 1 : k \in 1 .. n \/ k = n + 1
    OBVIOUS
  <2>3. CASE IsMultipart(n + 1)'
    <3>1. Multiparts(1, n + 1)' = Multiparts(1, n) \cup {n + 1}
      BY <1>1, <2>2, <2>3 DEF Multiparts, IsMultipart
    <3>2. n + 1 \notin Multiparts(1, n)
      BY DEF Multiparts
    <3>3. Cardinality(Multiparts(1, n) \cup {n + 1}) = Cardinality(Multiparts(1, n)) + 1
      BY <2>1, <3>2, FS_AddElement
    <3> QED BY <2>3, <3>1, <3>3 DEF Count
  <2>4. CASE ~IsMultipart(n + 1)'
    <3>1. Multiparts(1, n + 1)' = Multiparts(1, n)
      BY <1>1, <2>2, <2>4 DEF Multiparts, IsMultipart
    <3> QED BY <2>1, <2>4, <3>1 DEF Count
  <2> QED BY <2>3, <2>4
<1>5. Count(n) \in Nat
  BY CountType DEF Count
<1>6. PICK q \in Nat : 123 + Count(n) = q * References + messageReference
  BY DEF RefsOK
<1> DEFINE m == Count(n)
           r == messageReference
           W == References
<1>7. r \in 0 .. W - 1 /\ W \in Nat \ {0} /\ m \in Nat /\ 123 + m = q * W + r
  BY <1>5, <1>6, SizesAssumption DEF LogOK
<1>8. \E p \in Nat : 123 + m + 1 = p * W + ((r + 1) % W)
  <2> HIDE DEF m, r, W
  <2>1. 123 + m \in Nat
    BY <1>7
  <2> QED BY <1>7, <2>1, NextRest, ZenonT(60)
<1>9. Count(n + 1)' = (IF IsMultipart(n + 1)' THEN m + 1 ELSE m)
  BY <1>4, <1>5
<1>10. messageReference' = IF IsMultipart(n + 1)' THEN (r + 1) % W ELSE r
  BY <1>2
<1>11. \E p \in Nat : 123 + Count(n + 1)' = p * W + messageReference'
  <2> HIDE DEF m, r, W
  <2>1. CASE IsMultipart(n + 1)'
    <3>1. PICK p \in Nat : 123 + m + 1 = p * W + ((r + 1) % W)
      BY <1>8
    <3>2. messageReference' = (r + 1) % W /\ Count(n + 1)' = m + 1
      BY <1>9, <1>10, <2>1
    <3>3. 123 + (m + 1) = 123 + m + 1
      BY <1>7
    <3> QED BY <3>1, <3>2, <3>3
  <2>2. CASE ~IsMultipart(n + 1)'
    BY <1>7, <1>9, <1>10, <2>2
  <2> QED BY <2>1, <2>2
<1>12. ASSUME NEW k \in 1 .. n + 1, IsMultipart(k)'
       PROVE  \E p \in Nat : 123 + Count(k - 1)' = p * References + log'[k].reference
  <2>1. Count(k - 1)' = Count(k - 1)
    <3>1. k - 1 \in 0 .. n
      OBVIOUS
    <3> QED BY <1>3, <3>1
  <2>2. CASE k \in 1 .. n
    <3>1. IsMultipart(k) /\ log'[k] = log[k]
      BY <1>1, <1>12, <2>2
    <3> QED BY <2>1, <2>2, <3>1 DEF RefsOK
  <2>3. CASE k = n + 1
    <3>1. k - 1 = n /\ log'[k].reference = messageReference
      BY <2>3
    <3> QED BY <1>6, <2>1, <3>1
  <2> QED BY <2>2, <2>3
<1>13. Len(log') = n + 1
  OBVIOUS
<1> HIDE DEF m, r, W
<1>14. \E p \in Nat : 123 + Count(Len(log))' = p * References + messageReference'
  BY <1>11, <1>13 DEF W
<1> QED BY <1>12, <1>13, <1>14 DEF RefsOK

LEMMA RefsKept ==
  ASSUME LogOK, RefsOK, Len(log') = Len(log), UNCHANGED messageReference,
         \A i \in 1 .. Len(log) : log'[i].call = log[i].call /\ log'[i].reference = log[i].reference
  PROVE  RefsOK'
<1> PICK n \in Nat : n = Len(log)
  BY LenProperties DEF LogOK
<1>1. \A k \in 1 .. n : IsMultipart(k)' <=> IsMultipart(k)
  BY DEF IsMultipart
<1>2. \A k \in 0 .. n : Count(k)' = Count(k)
  <2> SUFFICES ASSUME NEW k \in 0 .. n PROVE Multiparts(1, k)' = Multiparts(1, k)
    BY DEF Count
  <2> QED BY <1>1 DEF Multiparts, IsMultipart
<1>3. Count(Len(log))' = Count(Len(log))
  BY <1>2
<1>4. ASSUME NEW k \in 1 .. n, IsMultipart(k)'
      PROVE  \E p \in Nat : 123 + Count(k - 1)' = p * References + log'[k].reference
  <2>1. k - 1 \in 0 .. n
    OBVIOUS
  <2> QED BY <1>1, <1>2, <1>4, <2>1 DEF RefsOK
<1> QED BY <1>3, <1>4 DEF RefsOK

-----------------------------------------------------------------------------
(* The steps *)

IInv == LogOK /\ LocalsOK /\ Cut /\ AirOK /\ RefsOK

LEMMA InitIInv == Init => IInv
<1> SUFFICES ASSUME Init PROVE IInv
  OBVIOUS
<1>1. log = <<>> /\ Len(log) = 0 /\ log \in Seq(Entries)
  BY EmptySeq DEF Init
<1>2. messageReference = 123 % References /\ References \in Nat \ {0}
  BY SizesAssumption DEF Init
<1>3. messageReference \in 0 .. References - 1
  BY <1>2
<1>4. LogOK /\ LocalsOK
  BY <1>1, <1>3 DEF LogOK, LocalsOK, Init
<1>5. Cut /\ AirOK
  BY <1>1 DEF Cut, Running, AirOK, Init
<1>6. Count(0) = 0
  <2>1. Multiparts(1, 0) = {}
    BY DEF Multiparts
  <2> QED BY <2>1, FS_EmptySet DEF Count
<1>7. 123 = (123 \div References) * References + (123 % References) /\ 123 \div References \in Nat
  BY <1>2
<1>8. 123 + Count(Len(log)) = (123 \div References) * References + messageReference
  BY <1>1, <1>2, <1>6, <1>7
<1>9. RefsOK
  BY <1>1, <1>7, <1>8 DEF RefsOK
<1> QED BY <1>4, <1>5, <1>9 DEF IInv

\* Is messageReference where a call leaves it?
LEMMA CallsReference ==
  ASSUME LogOK, NEW c
  PROVE  /\ messageReference \in 0 .. References - 1
         /\ (IF Multipart(c) THEN (messageReference + 1) % References ELSE messageReference)
              \in 0 .. References - 1
BY SizesAssumption DEF LogOK

LEMMA RefuseIInv ==
  ASSUME IInv, ~Running, NEW c \in Calls, Refused(c), Refuse(c)
  PROVE  IInv'
<1> USE DEF Refuse
<1>1. /\ LogOK' /\ Len(log) \in Nat /\ Len(log') = Len(log) + 1
      /\ \A i \in 1 .. Len(log) : log'[i] = log[i] /\ log[i] \in Entries /\ log[i].result # "running"
      /\ log'[Len(log) + 1] = Entry(c, "false")
  BY CallsReference, Appended DEF IInv, Results
<1>2. /\ log'[Len(log) + 1].call = c /\ log'[Len(log) + 1].reference = messageReference
      /\ log'[Len(log) + 1].result = "false"
  BY <1>1 DEF Entry
<1>3. LocalsOK' /\ Cut'
  BY <1>1, <1>2 DEF IInv, LocalsOK, locals, Cut, Running
<1>4. AirOK'
  BY <1>1, <1>2, AirAtCall DEF IInv, locals
<1>5. RefsOK'
  BY <1>1, <1>2, RefsAtCall DEF IInv
<1> QED BY <1>1, <1>3, <1>4, <1>5 DEF IInv

LEMMA BeginIInv ==
  ASSUME IInv, ~Running, NEW c \in Calls, ~Refused(c), Begin(c)
  PROVE  IInv'
<1> USE DEF Begin
<1>1. /\ LogOK' /\ Len(log) \in Nat /\ Len(log') = Len(log) + 1
      /\ \A i \in 1 .. Len(log) : log'[i] = log[i] /\ log[i] \in Entries /\ log[i].result # "running"
      /\ log'[Len(log) + 1] = Entry(c, "running")
  BY CallsReference, Appended DEF IInv, Results
<1>2. /\ log'[Len(log) + 1].call = c /\ log'[Len(log) + 1].reference = messageReference
      /\ log'[Len(log) + 1].result = "running"
  BY <1>1 DEF Entry
<1>3. LocalsOK'
  BY DEF LocalsOK
<1>4. Cut'
  <2>1. Current' = c
    BY <1>1, <1>2 DEF Current
  <2>2. TotalParts(c) \in 1 .. 3 /\ CommentLen(c) \in Nat /\ Len(c.data) \in Nat
    BY Parts, Sizes
  <2>3. /\ ~Refused(Current') /\ part' \in 1 .. TotalParts(Current')
        /\ commentIdx' <= CommentLen(Current') /\ messageIdx' <= Len(Current'.data)
    BY <2>1, <2>2
  <2> QED BY <2>3 DEF Cut
<1>5. AirOK'
  BY <1>1, <1>2, AirAtCall DEF IInv
<1>6. RefsOK'
  BY <1>1, <1>2, RefsAtCall DEF IInv
<1> QED BY <1>1, <1>3, <1>4, <1>5, <1>6 DEF IInv

LEMMA GiveUpIInv ==
  ASSUME IInv, GiveUp
  PROVE  IInv'
<1> USE DEF GiveUp, NothingLeft
<1>1. /\ LogOK' /\ ~Running' /\ Len(log') = Len(log) /\ Len(log) \in Nat \ {0}
      /\ \A i \in 1 .. Len(log) : log'[i].call = log[i].call /\ log'[i].reference = log[i].reference
      /\ \A i \in 1 .. Len(log) : i # Len(log) => log'[i] = log[i]
      /\ log'[Len(log)].result = "false"
  BY Returned DEF IInv
<1>2. LocalsOK' /\ Cut'
  BY <1>1 DEF IInv, LocalsOK, locals, Cut
<1>3. AirOK'
  <2>1. \A id : Sequences(id)' = Sequences(id) /\ (Distinct(id)' <=> Distinct(id))
    BY DEF SentOf, Sequences, Distinct
  <2> QED BY <1>1, <2>1 DEF IInv, AirOK, locals
<1>4. RefsOK'
  BY <1>1, RefsKept DEF IInv
<1> QED BY <1>1, <1>2, <1>3, <1>4 DEF IInv

LEMMA SendSingleIInv ==
  ASSUME IInv, sendSingle
  PROVE  IInv'
<1> PICK last : last = Len(log)
  OBVIOUS
<1>1. Running /\ UNCHANGED messageReference
  BY DEF sendSingle
<1>2. last \in Nat \ {0} /\ Current \in Calls /\ log[last].result = "running" /\ log[last].call = Current
  BY <1>1, CurrentCall DEF IInv, Running, Current
<1> PICK outcome \in Outcomes : \E a :
        /\ a.id = last /\ a.sequence = part
        /\ air' = IF outcome.sent THEN air \cup {a} ELSE air
        /\ Proceed(Current, outcome.ok)
  <2> DEFINE pdu == FromHex(HexOf(Submit(Current, log[Len(log)].reference, part, Segment(Current))))
             a == [id |-> Len(log), sequence |-> part, pdu |-> pdu]
  <2>1. PICK outcome \in Outcomes :
          air' = (IF outcome.sent THEN air \cup {a} ELSE air) /\ Proceed(Current, outcome.ok)
    BY DEF sendSingle
  <2>2. a.id = last /\ a.sequence = part
    OBVIOUS
  <2> HIDE DEF pdu, a
  <2> QED BY <2>1, <2>2
<1>3. PICK a :
        /\ a.id = last /\ a.sequence = part
        /\ air' = IF outcome.sent THEN air \cup {a} ELSE air
        /\ Proceed(Current, outcome.ok)
  OBVIOUS
<1>4. outcome.ok \in BOOLEAN /\ (outcome.ok => outcome.sent)
  <2>1. CASE outcome = [ok |-> TRUE, sent |-> TRUE]
    BY <2>1, Zenon
  <2>2. CASE outcome = [ok |-> FALSE, sent |-> TRUE]
    BY <2>2, Zenon
  <2>3. CASE outcome = [ok |-> FALSE, sent |-> FALSE]
    BY <2>3, Zenon
  <2> QED BY <2>1, <2>2, <2>3 DEF Outcomes
<1>5. /\ \A b \in air' : b.id \in 1 .. Len(log) /\ b.sequence \in Nat \ {0}
      /\ \A id \in 1 .. Len(log) : (\E n \in Nat : Sequences(id)' = 1 .. n) /\ Distinct(id)'
      /\ \A id \in 1 .. Len(log) : id # last => Sequences(id)' = Sequences(id)
      /\ outcome.ok => Sequences(last)' = 1 .. part
  BY <1>1, <1>3, <1>4, AirWithSegment DEF IInv
<1>6. CASE outcome.ok /\ part < TotalParts(Current)
  <2>1. /\ part' = part + 1 /\ UNCHANGED log
        /\ commentIdx' = commentIdx + FromComment(Current)
        /\ messageIdx' = messageIdx + FromData(Current)
    BY <1>3, <1>6 DEF Proceed
  <2>2. LogOK'
    BY <1>1, <2>1 DEF IInv, LogOK
  <2>3. LocalsOK' /\ Cut'
    BY <1>1, <1>6, <2>1, CutGoesOn DEF IInv
  <2>4. Sequences(last)' = 1 .. part' - 1
    <3>1. part' - 1 = part
      BY <2>1 DEF IInv, LocalsOK
    <3> QED BY <1>5, <1>6, <3>1
  <2>5. ASSUME NEW id \in 1 .. Len(log)
        PROVE  /\ log'[id].result = "running" => Sequences(id)' = 1 .. part' - 1
               /\ log'[id].result = "true" => Sequences(id)' = 1 .. TotalParts(log'[id].call)
    <3>1. CASE id = last
      BY <1>2, <2>1, <2>4, <3>1
    <3>2. CASE id # last
      <4>1. log[id].result # "running"
        BY <3>2 DEF IInv, LogOK
      <4> QED BY <1>5, <2>1, <3>2, <4>1 DEF IInv, AirOK
    <3> QED BY <3>1, <3>2
  <2>6. AirOK'
    BY <1>5, <2>1, <2>5 DEF AirOK
  <2>7. RefsOK'
    BY <1>1, <2>1, RefsKept DEF IInv
  <2> QED BY <2>2, <2>3, <2>6, <2>7 DEF IInv
<1>7. CASE ~(outcome.ok /\ part < TotalParts(Current))
  <2> DEFINE r == IF outcome.ok THEN "true" ELSE "false"
  <2>1. Return(r) /\ UNCHANGED locals
    BY <1>3, <1>7 DEF Proceed
  <2>2. r \in {"true", "false"} /\ (r = "true" <=> outcome.ok)
    OBVIOUS
  <2> HIDE DEF r
  <2>3. /\ LogOK' /\ ~Running' /\ Len(log') = Len(log)
        /\ \A i \in 1 .. Len(log) : log'[i].call = log[i].call /\ log'[i].reference = log[i].reference
        /\ \A i \in 1 .. Len(log) : i # Len(log) => log'[i] = log[i]
        /\ log'[Len(log)].result = r
    BY <1>1, <2>1, <2>2, Returned DEF IInv
  <2>4. LocalsOK' /\ Cut'
    BY <2>1, <2>3 DEF IInv, LocalsOK, locals, Cut
  <2>5. outcome.ok => part = TotalParts(Current)
    <3>1. part \in 1 .. TotalParts(Current) /\ TotalParts(Current) \in 1 .. 3
      BY <1>1, <1>2, Parts DEF IInv, Cut
    <3> QED BY <1>7, <3>1
  <2>6. ASSUME NEW id \in 1 .. Len(log)
        PROVE  /\ log'[id].result = "running" => Sequences(id)' = 1 .. part' - 1
               /\ log'[id].result = "true" => Sequences(id)' = 1 .. TotalParts(log'[id].call)
    <3>1. CASE id = last
      BY <1>2, <1>5, <2>2, <2>3, <2>5, <3>1
    <3>2. CASE id # last
      <4>1. log[id].result # "running"
        BY <3>2 DEF IInv, LogOK
      <4> QED BY <1>5, <2>3, <3>2, <4>1 DEF IInv, AirOK
    <3> QED BY <3>1, <3>2
  <2>7. AirOK'
    BY <1>5, <2>3, <2>6 DEF AirOK
  <2>8. RefsOK'
    BY <1>1, <2>3, RefsKept DEF IInv
  <2> QED BY <2>3, <2>4, <2>7, <2>8 DEF IInv
<1> QED BY <1>6, <1>7

LEMMA KeptIInv ==
  ASSUME IInv, UNCHANGED <<messageReference, log, locals, air>>
  PROVE  IInv'
<1> USE DEF locals
<1>1. LogOK' /\ LocalsOK'
  BY DEF IInv, LogOK, LocalsOK
<1>2. Cut'
  BY DEF IInv, Cut, Running, Current
<1>3. AirOK'
  <2>1. \A id : Sequences(id)' = Sequences(id) /\ (Distinct(id)' <=> Distinct(id))
    BY DEF SentOf, Sequences, Distinct
  <2> QED BY <2>1 DEF IInv, AirOK
<1>4. RefsOK'
  BY RefsKept DEF IInv
<1> QED BY <1>1, <1>2, <1>3, <1>4 DEF IInv

LEMMA NextIInv == IInv /\ [Next]_vars => IInv'
<1> SUFFICES ASSUME IInv, [Next]_vars PROVE IInv'
  OBVIOUS
<1>1. CASE send \/ sendWithComment
  <2>1. PICK c \in Calls : ~Running /\ (IF Refused(c) THEN Refuse(c) ELSE Begin(c))
    BY <1>1 DEF send, sendWithComment, May
  <2> QED BY <2>1, RefuseIInv, BeginIInv
<1>2. CASE GiveUp
  BY <1>2, GiveUpIInv
<1>3. CASE sendSingle
  BY <1>3, SendSingleIInv
<1>4. CASE read
  BY <1>4, KeptIInv DEF read
<1>5. CASE UNCHANGED vars
  BY <1>5, KeptIInv DEF vars
<1> QED BY <1>1, <1>2, <1>3, <1>4, <1>5 DEF Next

-----------------------------------------------------------------------------
(* Theorems *)

\* The variables keep their types, and no PDU is of a call that was not made.
THEOREM SmsTypeOK == Spec => []TypeOK
<1>1. IInv => TypeOK
  BY DEF IInv, LogOK, LocalsOK, AirOK, TypeOK, Entries, Results
<1> QED BY <1>1, InitIInv, NextIInv, PTL DEF Spec

\* send() and sendWithComment() stop at the first segment that fails: of every call the
\* network has the first segments, each once, and all of them when the call returned true.
THEOREM PartsInOrder == Spec => []SegmentsInOrder
<1>1. IInv => SegmentsInOrder
  BY AirInOrder DEF IInv
<1> QED BY <1>1, InitIInv, NextIInv, PTL DEF Spec

\* The loop over the parts uses up the text exactly: no segment is empty or too long, and
\* nothing is left when it ends, for every size of an SMS and of a text.
THEOREM PartsCover == Spec => []SegmentsCover
<1>1. IInv => SegmentsCover
  BY CutCovers DEF IInv
<1> QED BY <1>1, InitIInv, NextIInv, PTL DEF Spec

\* Two messages of several parts have the same reference only when the counter has gone
\* round between them, whatever was refused or failed meanwhile.
THEOREM PartsApart == Spec => []ReferencesApart
<1>1. IInv => ReferencesApart
  BY RefsApart DEF IInv
<1> QED BY <1>1, InitIInv, NextIInv, PTL DEF Spec

-----------------------------------------------------------------------------
(* Induction *)

LEMMA LeastOf ==
  ASSUME NEW T, T \subseteq Nat, T # {}
  PROVE  \E n \in T : \A k \in T : n <= k
<1> DEFINE R == OpToRel(<, Nat)
<1>1. IsWellFoundedOn(R, Nat)
  BY NatLessThanWellFounded
<1>2. PICK n \in T : \A k \in T : <<k, n>> \notin R
  <2> HIDE DEF R
  <2> QED BY <1>1, WFMin
<1>3. ASSUME NEW k \in T PROVE n <= k
  <2>1. k \in Nat /\ n \in Nat
    OBVIOUS
  <2>2. k < n => <<k, n>> \in R
    BY <2>1 DEF OpToRel
  <2>3. ~(k < n)
    <3> HIDE DEF R
    <3> QED BY <1>2, <2>2
  <2> QED BY <2>1, <2>3
<1> QED BY <1>3

LEMMA Induction ==
  ASSUME NEW T, 0 \in T, \A n \in Nat : n \in T => n + 1 \in T
  PROVE  Nat \subseteq T
<1> DEFINE B == Nat \ T
<1>1. CASE B # {}
  <2>1. PICK n \in B : \A k \in B : n <= k
    <3>1. B \subseteq Nat
      OBVIOUS
    <3> HIDE DEF B
    <3> QED BY <1>1, <3>1, LeastOf
  <2>2. n \in Nat /\ n # 0 /\ n - 1 \in Nat /\ n - 1 \notin B /\ (n - 1) + 1 = n
    BY <2>1
  <2> QED BY <2>1, <2>2
<1> QED BY <1>1

-----------------------------------------------------------------------------
(* Packing *)

LEMMA Powers ==
  /\ 2^0 = 1 /\ 2^1 = 2 /\ 2^2 = 4 /\ 2^3 = 8
  /\ 2^4 = 16 /\ 2^5 = 32 /\ 2^6 = 64 /\ 2^7 = 128
OBVIOUS

LEMMA Power ==
  ASSUME NEW u \in 0 .. 7
  PROVE  2^u \in 1 .. 128
<1>1. \/ u = 0 \/ u = 1 \/ u = 2 \/ u = 3 \/ u = 4 \/ u = 5 \/ u = 6 \/ u = 7
  OBVIOUS
<1>2. u = 0 => 2^u = 1
  BY Powers
<1>3. u = 1 => 2^u = 2
  BY Powers
<1>4. u = 2 => 2^u = 4
  BY Powers
<1>5. u = 3 => 2^u = 8
  BY Powers
<1>6. u = 4 => 2^u = 16
  BY Powers
<1>7. u = 5 => 2^u = 32
  BY Powers
<1>8. u = 6 => 2^u = 64
  BY Powers
<1>9. u = 7 => 2^u = 128
  BY Powers
<1> DEFINE p == 2^u
<1> HIDE DEF p
<1>10. p \in {1, 2, 4, 8, 16, 32, 64, 128}
  BY <1>1, <1>2, <1>3, <1>4, <1>5, <1>6, <1>7, <1>8, <1>9 DEF p
<1>11. p \in 1 .. 128
  BY <1>10
<1> QED BY <1>11 DEF p

\* Character i, as far as it is packed; there is none in front and none behind.
Septet(x, i) == IF i \in 1 .. Len(x) THEN x[i] % 128 ELSE 0

LEMMA SeptetType ==
  ASSUME NEW x \in Seq(Nat), NEW i \in Int
  PROVE  Septet(x, i) \in 0 .. 127
<1>1. CASE i \in 1 .. Len(x)
  <2> DEFINE c == x[i]
  <2>1. c \in Nat
    BY <1>1
  <2>2. Septet(x, i) = c % 128
    BY <1>1 DEF Septet
  <2> HIDE DEF c
  <2> QED BY <2>1, <2>2
<1>2. CASE i \notin 1 .. Len(x)
  BY <1>2 DEF Septet
<1> QED BY <1>1, <1>2

\* The place at which octet k begins, counted from 0: bit Within of the character
\* behind the first Before.
Before(f, k) == (8 * k - f + 7) \div 7 - 1
Within(f, k) == (8 * k - f + 7) % 7

PackedOctet(x, f, k) ==
  (Septet(x, Before(f, k) + 1) \div 2^Within(f, k)
     + Septet(x, Before(f, k) + 2) * 2^(7 - Within(f, k))) % 256

PackedLen(n, f) == IF n + f = 0 THEN 1 ELSE (f + 7 * n + 7) \div 8

LEMMA Places ==
  ASSUME NEW f \in 0 .. 6, NEW k \in Nat
  PROVE  /\ Before(f, k) \in Int /\ Within(f, k) \in 0 .. 6
         /\ 8 * k = f + 7 * Before(f, k) + Within(f, k)
         /\ Before(f, k) >= -1
         /\ Within(f, k) = 6 => Before(f, k + 1) = Before(f, k) + 2 /\ Within(f, k + 1) = 0
         /\ Within(f, k) < 6 => Before(f, k + 1) = Before(f, k) + 1 /\ Within(f, k + 1) = Within(f, k) + 1
         /\ k = 0 => IF f = 0 THEN Before(f, k) = 0 /\ Within(f, k) = 0
                              ELSE Before(f, k) = -1 /\ Within(f, k) = 7 - f
BY DEF Before, Within

LEMMA OctetType ==
  ASSUME NEW x \in Seq(Nat), NEW f \in 0 .. 6, NEW k \in Nat
  PROVE  PackedOctet(x, f, k) \in 0 .. 255
<1> DEFINE u == Within(f, k)
           a == Septet(x, Before(f, k) + 1)
           b == Septet(x, Before(f, k) + 2)
           p == 2^u
           q == 2^(7 - u)
<1>0. u \in 0 .. 6
  BY Places
<1>1. a \in Nat /\ b \in Nat /\ u \in 0 .. 7 /\ 7 - u \in 0 .. 7
  <2>1. a \in 0 .. 127 /\ b \in 0 .. 127
    <3> DEFINE m == Before(f, k)
    <3>1. m \in Int
      BY Places
    <3> HIDE DEF m
    <3>2. m + 1 \in Int /\ m + 2 \in Int
      BY <3>1
    <3>3. Septet(x, m + 1) \in 0 .. 127 /\ Septet(x, m + 2) \in 0 .. 127
      BY <3>2, SeptetType
    <3> QED BY <3>3 DEF m
  <2> HIDE DEF a, b, u
  <2> QED BY <1>0, <2>1
<1>2. p \in Nat \ {0} /\ q \in Nat
  <2> HIDE DEF u
  <2>1. p \in 1 .. 128
    BY <1>1, Power
  <2>2. q \in 1 .. 128
    BY <1>1, Power
  <2> HIDE DEF p, q
  <2> QED BY <2>1, <2>2
<1> HIDE DEF a, b, p, q, u
<1> DEFINE t == a \div p + b * q
<1>3. t \in Nat
  <2>1. a \div p \in Nat
    BY <1>1, <1>2
  <2>2. b * q \in Nat
    BY <1>1, <1>2
  <2> QED BY <2>1, <2>2
<1> HIDE DEF t
<1>4. t % 256 \in 0 .. 255
  BY <1>3
<1> QED BY <1>4 DEF PackedOctet, t, a, b, p, q, u

\* What is left of two characters when an octet of them is stored.
LEMMA Shifted ==
  ASSUME NEW u \in 0 .. 6, NEW a \in 0 .. 127, NEW b \in 0 .. 127,
         NEW t, t = (a \div 2^u) + b * 2^(7 - u)
  PROVE  t \in Nat /\ t \div 256 = IF u = 6 THEN 0 ELSE b \div 2^(u + 1)
<1>1. CASE u = 0
  BY <1>1, Powers
<1>2. CASE u = 1
  BY <1>2, Powers
<1>3. CASE u = 2
  BY <1>3, Powers
<1>4. CASE u = 3
  BY <1>4, Powers
<1>5. CASE u = 4
  BY <1>5, Powers
<1>6. CASE u = 5
  BY <1>6, Powers
<1>7. CASE u = 6
  BY <1>7, Powers
<1> QED BY <1>1, <1>2, <1>3, <1>4, <1>5, <1>6, <1>7

-----------------------------------------------------------------------------
(* The rounds of pack7Bit() *)

\* What the loop has when it has stored k octets, or all of them.
PackedOctets(x, f, k) == [i \in 1 .. k |-> PackedOctet(x, f, i - 1)]

PackRound(x, f, k) ==
  LET u == Within(f, k)
      more == k < PackedLen(Len(x), f)
  IN  [buffer |-> IF more /\ u # 0 THEN Septet(x, Before(f, k) + 1) \div 2^u ELSE 0,
       bits   |-> IF more /\ u # 0 THEN 7 - u ELSE 0,
       next   |-> IF ~more THEN Len(x) + 1
                  ELSE IF u = 0 THEN Before(f, k) + 1 ELSE Before(f, k) + 2,
       out    |-> PackedOctets(x, f, Least(k, PackedLen(Len(x), f)))]

\* How many there are, by what is packed before the last.
LEMMA PackLength ==
  ASSUME NEW f \in 0 .. 6, NEW n \in Nat
  PROVE  LET l == PackedLen(n, f) IN
         /\ l \in Nat \ {0} /\ l <= n + 1
         /\ \A k \in Nat :
              k < l => \/ n > Before(f, k)
                       \/ n = 0 /\ f = 0 /\ k = 0
         /\ \A k \in Nat :
              k + 1 < l => \/ n >= Before(f, k) + 3
                           \/ n = Before(f, k) + 2 /\ Within(f, k) # 6
         /\ \A k \in Nat :
              k + 1 = l => \/ n = 0 /\ f = 0 /\ k = 0
                           \/ n = Before(f, k) + 1
                           \/ n = Before(f, k) + 2 /\ Within(f, k) = 6
<1> DEFINE l == PackedLen(n, f)
<1>1. l \in Nat \ {0} /\ l <= n + 1
  BY DEF PackedLen
<1>2. ASSUME NEW k \in Nat PROVE
        /\ k < l => n > Before(f, k) \/ (n = 0 /\ f = 0 /\ k = 0)
        /\ k + 1 < l => \/ n >= Before(f, k) + 3
                        \/ n = Before(f, k) + 2 /\ Within(f, k) # 6
        /\ k + 1 = l => \/ n = 0 /\ f = 0 /\ k = 0
                        \/ n = Before(f, k) + 1
                        \/ n = Before(f, k) + 2 /\ Within(f, k) = 6
  <2> DEFINE m == Before(f, k)
             u == Within(f, k)
  <2>1. m \in Int /\ u \in 0 .. 6 /\ 8 * k = f + 7 * m + u /\ m >= -1
    BY Places
  <2>2. l = IF n + f = 0 THEN 1 ELSE (f + 7 * n + 7) \div 8
    BY DEF PackedLen
  <2> HIDE DEF m, u, l
  <2>3. k < l => n > m \/ (n = 0 /\ f = 0 /\ k = 0)
    BY <2>1, <2>2
  <2>4. k + 1 < l => n >= m + 3 \/ (n = m + 2 /\ u # 6)
    BY <2>1, <2>2
  <2>5. k + 1 = l => (n = 0 /\ f = 0 /\ k = 0) \/ n = m + 1 \/ (n = m + 2 /\ u = 6)
    BY <2>1, <2>2
  <2> QED BY <2>3, <2>4, <2>5 DEF m, u
<1> QED BY <1>1, <1>2

LEMMA OctetBehind ==
  ASSUME NEW x \in Seq(Nat), NEW f \in 0 .. 6, NEW k \in Nat
  PROVE  Append(PackedOctets(x, f, k), PackedOctet(x, f, k)) = PackedOctets(x, f, k + 1)
<1> DEFINE s == PackedOctets(x, f, k)
           t == PackedOctets(x, f, k + 1)
           e == PackedOctet(x, f, k)
<1>1. s \in Seq(0 .. 255) /\ Len(s) = k /\ t \in Seq(0 .. 255) /\ Len(t) = k + 1
  <2>1. ASSUME NEW i \in Nat, i >= 1 PROVE PackedOctet(x, f, i - 1) \in 0 .. 255
    <3>1. i - 1 \in Nat
      BY <2>1
    <3> QED BY <3>1, OctetType
  <2> QED BY <2>1, SMTT(30) DEF PackedOctets
<1>2. \A i \in 1 .. k : s[i] = t[i]
  BY DEF PackedOctets
<1>3. t[k + 1] = e
  BY DEF PackedOctets
<1> HIDE DEF s, t, e
<1>4. e \in 0 .. 255
  BY OctetType DEF e
<1>5. /\ Append(s, e) \in Seq(0 .. 255) /\ Len(Append(s, e)) = k + 1
      /\ \A i \in 1 .. k + 1 : Append(s, e)[i] = t[i]
  BY <1>1, <1>2, <1>3, <1>4
<1>6. Append(s, e) = t
  BY <1>1, <1>5
<1> QED BY <1>6 DEF s, t, e

LEMMA PackBegins ==
  ASSUME NEW x \in Seq(Nat), NEW f \in 0 .. 6
  PROVE  PackRound(x, f, 0) = [buffer |-> 0, bits |-> f, next |-> 1, out |-> <<>>]
<1> DEFINE l == PackedLen(Len(x), f)
<1>1. Len(x) \in Nat /\ 0 < l /\ Least(0, l) = 0
  <2>1. Len(x) \in Nat
    OBVIOUS
  <2>2. l \in Nat \ {0}
    BY <2>1, PackLength
  <2> HIDE DEF l
  <2> QED BY <2>1, <2>2 DEF Least
<1>2. PackedOctets(x, f, 0) = <<>>
  BY DEF PackedOctets
<1>3. IF f = 0 THEN Before(f, 0) = 0 /\ Within(f, 0) = 0
               ELSE Before(f, 0) = -1 /\ Within(f, 0) = 7 - f
  BY Places
<1>4. f # 0 => Septet(x, 0) \div 2^(7 - f) = 0
  <2>1. Septet(x, 0) = 0
    BY DEF Septet
  <2> DEFINE p == 2^(7 - f)
  <2>2. p \in 1 .. 128
    <3>1. 7 - f \in 0 .. 7
      OBVIOUS
    <3> QED BY <3>1, Power
  <2> HIDE DEF p
  <2>3. 0 \div p = 0
    BY <2>2
  <2> QED BY <2>1, <2>3 DEF p
<1> HIDE DEF l
<1>5. CASE f = 0
  BY <1>1, <1>2, <1>3, <1>5 DEF PackRound, l
<1>6. CASE f # 0
  <2>1. -1 + 1 = 0 /\ -1 + 2 = 1 /\ 7 - (7 - f) = f /\ 7 - f # 0
    BY <1>6
  <2> QED BY <1>1, <1>2, <1>3, <1>4, <1>6, <2>1 DEF PackRound, l
<1> QED BY <1>5, <1>6

State(buffer, bits, next, out) ==
  [buffer |-> buffer, bits |-> bits, next |-> next, out |-> out]

LEMMA CharLoaded ==
  ASSUME NEW x \in Seq(Nat), NEW v, NEW b \in Int, NEW i \in Int, NEW o, b < 8, i <= Len(x),
         NEW w, w = v + (x[i] % 128) * 2^b, NEW c, c = b + 7, NEW j, j = i + 1
  PROVE  LoadChar(State(v, b, i, o), x) = State(w, c, j, o)
BY DEF LoadChar, State

LEMMA FirstLoaded ==
  ASSUME NEW x \in Seq(Nat), NEW v, NEW i \in Int, NEW o, i <= Len(x),
         NEW w, w = v + (x[i] % 128) * 1, NEW j, j = i + 1
  PROVE  LoadChar(State(v, 0, i, o), x) = State(w, 7, j, o)
<1>1. \A b \in Int : b < 8 => LoadChar(State(v, b, i, o), x)
                                = State(v + (x[i] % 128) * 2^b, b + 7, i + 1, o)
  BY CharLoaded
<1>2. 0 \in Int /\ 0 < 8 /\ 2^0 = 1 /\ 0 + 7 = 7
  BY Powers
<1>3. LoadChar(State(v, 0, i, o), x) = State(v + (x[i] % 128) * 2^0, 0 + 7, i + 1, o)
  BY <1>1, <1>2, Zenon
<1> QED BY <1>2, <1>3, Zenon

LEMMA SecondLoaded ==
  ASSUME NEW x \in Seq(Nat), NEW v, NEW i \in Int, NEW o, i <= Len(x),
         NEW w, w = v + (x[i] % 128) * 128, NEW j, j = i + 1
  PROVE  LoadChar(State(v, 7, i, o), x) = State(w, 14, j, o)
<1>1. \A b \in Int : b < 8 => LoadChar(State(v, b, i, o), x)
                                = State(v + (x[i] % 128) * 2^b, b + 7, i + 1, o)
  BY CharLoaded
<1>2. 7 \in Int /\ 7 < 8 /\ 2^7 = 128 /\ 7 + 7 = 14
  BY Powers
<1>3. LoadChar(State(v, 7, i, o), x) = State(v + (x[i] % 128) * 2^7, 7 + 7, i + 1, o)
  BY <1>1, <1>2, Zenon
<1> QED BY <1>2, <1>3, Zenon

LEMMA CharNotLoaded ==
  ASSUME NEW x \in Seq(Nat), NEW v, NEW b \in Int, NEW i \in Int, NEW o, ~(b < 8 /\ i <= Len(x))
  PROVE  LoadChar(State(v, b, i, o), x) = State(v, b, i, o)
BY DEF LoadChar, State

LEMMA OctetStored ==
  ASSUME NEW v \in Int, NEW b \in Int, NEW i, NEW o
  PROVE  StoreOctet(State(v, b, i, o))
           = State(v \div 256, IF b < 8 THEN 0 ELSE b - 8, i, Append(o, v % 256))
<1> DEFINE s == State(v, b, i, o)
<1>1. /\ s.out = o /\ s.buffer = v /\ s.bits = b /\ s.next = i
      /\ s = [buffer |-> v, bits |-> b, next |-> i, out |-> o]
  BY DEF State
<1>2. StoreOctet(s) = [s EXCEPT !.out = Append(o, v % 256),
                                !.buffer = v \div 256,
                                !.bits = IF b < 8 THEN 0 ELSE b - 8]
  <2> HIDE DEF s
  <2> QED BY <1>1 DEF StoreOctet
<1> DEFINE p == v \div 256
           q == IF b < 8 THEN 0 ELSE b - 8
           r == Append(o, v % 256)
<1> HIDE DEF p, q, r
<1>3. [s EXCEPT !.out = r, !.buffer = p, !.bits = q] = State(p, q, i, r)
  <2>1. [s EXCEPT !.out = r] = State(v, b, i, r)
    BY DEF State
  <2>2. [State(v, b, i, r) EXCEPT !.buffer = p] = State(p, b, i, r)
    BY DEF State
  <2>3. [State(p, b, i, r) EXCEPT !.bits = q] = State(p, q, i, r)
    BY DEF State
  <2> QED BY <2>1, <2>2, <2>3
<1> QED BY <1>2, <1>3 DEF p, q, r

\* What is in the buffer when octet k is stored.
Loaded(x, f, k) == Septet(x, Before(f, k) + 1) \div 2^Within(f, k)
                     + Septet(x, Before(f, k) + 2) * 2^(7 - Within(f, k))

LEMMA CharsLoaded ==
  ASSUME NEW x \in Seq(Nat), NEW f \in 0 .. 6, NEW k \in Nat, k < PackedLen(Len(x), f)
  PROVE  LET m == Before(f, k)
             u == Within(f, k)
             n == Len(x)
         IN  LoadChar(LoadChar(PackRound(x, f, k), x), x)
               = State(Loaded(x, f, k),
                       (IF n > m THEN 7 - u ELSE 0) + (IF n > m + 1 THEN 7 ELSE 0),
                       IF n > m + 1 THEN m + 3 ELSE n + 1,
                       PackedOctets(x, f, k))
<1> DEFINE m == Before(f, k)
           u == Within(f, k)
           n == Len(x)
           o == PackedOctets(x, f, k)
           a == Septet(x, m + 1)
           b == Septet(x, m + 2)
           v == IF u = 0 THEN 0 ELSE a \div 2^u
           q == 2^(7 - u)
           t == Loaded(x, f, k)
           load(s) == LoadChar(s, x)
           bits == (IF n > m THEN 7 - u ELSE 0) + (IF n > m + 1 THEN 7 ELSE 0)
           next == IF n > m + 1 THEN m + 3 ELSE n + 1
<1> SUFFICES load(load(PackRound(x, f, k))) = State(t, bits, next, o)
  OBVIOUS
<1>1. n \in Nat /\ m \in Int /\ u \in 0 .. 6 /\ m >= -1 /\ (u = 0 => m >= 0)
  <2>1. m \in Int /\ u \in 0 .. 6 /\ m >= -1 /\ 8 * k = f + 7 * m + u
    BY Places
  <2> HIDE DEF m, u
  <2>2. u = 0 => m >= 0
    BY <2>1
  <2> QED BY <2>1, <2>2
<1>2. n > m \/ (n = 0 /\ f = 0 /\ k = 0)
  BY <1>1, PackLength
<1>3. n = 0 /\ f = 0 /\ k = 0 => m = 0 /\ u = 0
  BY Places
<1>4. a \in 0 .. 127 /\ b \in 0 .. 127
  <2> HIDE DEF m, u, n
  <2>1. m + 1 \in Int /\ m + 2 \in Int
    BY <1>1
  <2> QED BY <2>1, SeptetType
<1>5. q \in 1 .. 128 /\ 2^u \in 1 .. 128
  <2> HIDE DEF u
  <2>1. u \in 0 .. 7 /\ 7 - u \in 0 .. 7
    BY <1>1
  <2> QED BY <2>1, Power
<1>6. t = (a \div 2^u) + b * q
  BY DEF Loaded
<1>7. Least(k, PackedLen(n, f)) = k
  BY <1>1, PackLength DEF Least
<1>8. PackRound(x, f, k) = State(v, IF u # 0 THEN 7 - u ELSE 0,
                                 IF u = 0 THEN m + 1 ELSE m + 2, o)
  <2> HIDE DEF a
  <2> QED BY <1>7 DEF PackRound, State, a
<1>9. /\ m + 1 \in 1 .. n => x[m + 1] % 128 = a
      /\ m + 2 \in 1 .. n => x[m + 2] % 128 = b
      /\ m + 1 > n => a = 0
      /\ m + 2 > n => b = 0
  <2> HIDE DEF m, u, n
  <2> QED BY <1>1 DEF Septet, n
<1> HIDE DEF m, u, n, a, b, q, t, o
<1>10. CASE u = 0
  <2>1. 2^0 = 1 /\ 2^7 = 128 /\ 2^u = 1 /\ q = 128
    BY <1>10, Powers DEF q
  <2>2. t = a + b * 128
    BY <1>4, <1>6, <2>1
  <2>3. PackRound(x, f, k) = State(0, 0, m + 1, o)
    BY <1>8, <1>10
  <2>4. CASE n <= m
    <3>1. n = 0 /\ m = 0 /\ a = 0 /\ b = 0 /\ t = 0
      BY <1>1, <1>2, <1>3, <1>9, <2>2, <2>4
    <3>2. load(State(0, 0, m + 1, o)) = State(0, 0, m + 1, o)
      <4>1. ~(m + 1 <= Len(x)) /\ m + 1 \in Int
        BY <1>1, <3>1 DEF n
      <4> QED BY <4>1, CharNotLoaded
    <3>3. bits = 0 /\ next = m + 1
      BY <1>10, <3>1
    <3> HIDE DEF bits, next
    <3> QED BY <2>3, <3>1, <3>2, <3>3
  <2>5. CASE n = m + 1
    <3>1. b = 0 /\ t = a /\ m + 1 \in 1 .. n
      BY <1>1, <1>4, <1>9, <1>10, <2>2, <2>5
    <3>2. load(State(0, 0, m + 1, o)) = State(t, 7, m + 2, o)
      <4>1. m + 1 <= Len(x) /\ m + 1 \in Int
        BY <1>1, <2>5 DEF n
      <4>2. t = 0 + (x[m + 1] % 128) * 1 /\ m + 2 = (m + 1) + 1
        BY <1>1, <1>4, <1>9, <3>1
      <4> QED BY <4>1, <4>2, FirstLoaded
    <3>4. load(State(t, 7, m + 2, o)) = State(t, 7, m + 2, o)
      <4>1. ~(m + 2 <= Len(x)) /\ m + 2 \in Int
        BY <1>1, <2>5 DEF n
      <4> QED BY <4>1, CharNotLoaded
    <3>5. bits = 7 /\ next = m + 2
      BY <1>1, <1>10, <2>5
    <3> HIDE DEF bits, next
    <3> QED BY <2>3, <3>2, <3>4, <3>5
  <2>6. CASE n > m + 1
    <3>1. m + 1 \in 1 .. n /\ m + 2 \in 1 .. n
      BY <1>1, <1>10, <2>6
    <3>2. load(State(0, 0, m + 1, o)) = State(a, 7, m + 2, o)
      <4>1. m + 1 <= Len(x) /\ m + 1 \in Int
        BY <1>1, <2>6 DEF n
      <4>2. a = 0 + (x[m + 1] % 128) * 1 /\ m + 2 = (m + 1) + 1
        BY <1>1, <1>4, <1>9, <3>1
      <4> QED BY <4>1, <4>2, FirstLoaded
    <3>4. load(State(a, 7, m + 2, o)) = State(t, 14, m + 3, o)
      <4>1. m + 2 <= Len(x) /\ m + 2 \in Int
        BY <1>1, <2>6 DEF n
      <4>2. t = a + (x[m + 2] % 128) * 128 /\ m + 3 = (m + 2) + 1
        BY <1>1, <1>9, <2>2, <3>1
      <4> QED BY <4>1, <4>2, SecondLoaded
    <3>6. bits = 14 /\ next = m + 3
      BY <1>1, <1>10, <2>6
    <3> HIDE DEF bits, next
    <3> QED BY <2>3, <3>2, <3>4, <3>6
  <2> QED BY <1>1, <2>4, <2>5, <2>6
<1>11. CASE u # 0
  <2>1. PackRound(x, f, k) = State(a \div 2^u, 7 - u, m + 2, o)
    BY <1>8, <1>11
  <2>2. n > m
    BY <1>2, <1>3, <1>11
  <2>3. CASE n = m + 1
    <3>1. b = 0 /\ t = a \div 2^u
      <4>1. b = 0
        BY <1>1, <1>9, <2>3
      <4> DEFINE d == a \div 2^u
      <4>2. d \in Int
        <5> DEFINE p == 2^u
        <5>1. p \in 1 .. 128
          BY <1>5
        <5> HIDE DEF p
        <5>2. a \div p \in Int
          BY <1>4, <5>1
        <5> QED BY <5>2 DEF p
      <4> HIDE DEF d
      <4>3. 0 * q = 0 /\ d + 0 = d
        BY <1>5, <4>2
      <4> QED BY <1>6, <4>1, <4>3 DEF d
    <3>2. load(State(t, 7 - u, m + 2, o)) = State(t, 7 - u, m + 2, o)
      <4>1. ~(m + 2 <= Len(x)) /\ m + 2 \in Int /\ 7 - u \in Int
        BY <1>1, <2>3 DEF n
      <4> QED BY <4>1, CharNotLoaded
    <3>3. bits = 7 - u /\ next = m + 2
      BY <1>1, <1>11, <2>3
    <3> HIDE DEF bits, next
    <3> QED BY <2>1, <3>1, <3>2, <3>3
  <2>4. CASE n > m + 1
    <3>1. m + 2 \in 1 .. n
      BY <1>1, <2>4
    <3>2. load(State(a \div 2^u, 7 - u, m + 2, o)) = State(t, 14 - u, m + 3, o)
      <4>1. m + 2 <= Len(x) /\ 7 - u < 8 /\ m + 2 \in Int /\ 7 - u \in Int
        BY <1>1, <2>4 DEF n
      <4>2. (a \div 2^u) + (x[m + 2] % 128) * 2^(7 - u) = t
        BY <1>6, <1>9, <3>1 DEF q
      <4>3. 14 - u = (7 - u) + 7 /\ m + 3 = (m + 2) + 1
        BY <1>1
      <4> QED BY <4>1, <4>2, <4>3, CharLoaded
    <3>5. load(State(t, 14 - u, m + 3, o)) = State(t, 14 - u, m + 3, o)
      <4>1. ~(14 - u < 8) /\ m + 3 \in Int /\ 14 - u \in Int
        BY <1>1
      <4> QED BY <4>1, CharNotLoaded
    <3>6. bits = 14 - u /\ next = m + 3
      BY <1>1, <1>11, <2>4
    <3> HIDE DEF bits, next
    <3> QED BY <2>1, <3>2, <3>5, <3>6
  <2> QED BY <1>1, <2>2, <2>3, <2>4
<1> QED BY <1>10, <1>11

LEMMA PackGoesOn ==
  ASSUME NEW x \in Seq(Nat), NEW f \in 0 .. 6, NEW k \in Nat, k < PackedLen(Len(x), f)
  PROVE  StoreOctet(LoadChar(LoadChar(PackRound(x, f, k), x), x)) = PackRound(x, f, k + 1)
<1> DEFINE m == Before(f, k)
           u == Within(f, k)
           n == Len(x)
           l == PackedLen(n, f)
           a == Septet(x, m + 1)
           b == Septet(x, m + 2)
           t == Loaded(x, f, k)
           o == PackedOctets(x, f, k)
           bits == (IF n > m THEN 7 - u ELSE 0) + (IF n > m + 1 THEN 7 ELSE 0)
           next == IF n > m + 1 THEN m + 3 ELSE n + 1
           left == IF bits < 8 THEN 0 ELSE bits - 8
           over == t \div 256
           e == Append(o, t % 256)
           oo == PackedOctets(x, f, Least(k + 1, l))
           m2 == Before(f, k + 1)
           u2 == Within(f, k + 1)
           more == k + 1 < l
           rest == Septet(x, m2 + 1) \div 2^u2
<1>1. n \in Nat /\ m \in Int /\ u \in 0 .. 6 /\ l \in Nat /\ k < l
  <2>1. n \in Nat
    OBVIOUS
  <2>2. l \in Nat
    BY <2>1, PackLength
  <2> QED BY <2>1, <2>2, Places
<1>2. a \in 0 .. 127 /\ b \in 0 .. 127
  <2> HIDE DEF m, u, n
  <2>1. m + 1 \in Int /\ m + 2 \in Int
    BY <1>1
  <2> QED BY <2>1, SeptetType
<1>3. t \in Int /\ t \div 256 = IF u = 6 THEN 0 ELSE b \div 2^(u + 1)
  <2>1. t = (a \div 2^u) + b * 2^(7 - u)
    BY DEF Loaded
  <2> HIDE DEF m, u, a, b, t
  <2>2. t \in Nat /\ t \div 256 = IF u = 6 THEN 0 ELSE b \div 2^(u + 1)
    <3>1. \A i \in 0 .. 6 : \A p \in 0 .. 127 : \A q \in 0 .. 127 : \A s :
            s = (p \div 2^i) + q * 2^(7 - i)
              => s \in Nat /\ s \div 256 = IF i = 6 THEN 0 ELSE q \div 2^(i + 1)
      BY Shifted, ZenonT(60)
    <3>2. u \in 0 .. 6
      BY <1>1
    <3>3. \A p \in 0 .. 127 : \A q \in 0 .. 127 : \A s :
            s = (p \div 2^u) + q * 2^(7 - u)
              => s \in Nat /\ s \div 256 = IF u = 6 THEN 0 ELSE q \div 2^(u + 1)
      BY <3>1, <3>2, Zenon
    <3>4. \A s : s = (a \div 2^u) + b * 2^(7 - u)
              => s \in Nat /\ s \div 256 = IF u = 6 THEN 0 ELSE b \div 2^(u + 1)
      BY <1>2, <3>3, ZenonT(60)
    <3> QED BY <2>1, <3>4, ZenonT(60)
  <2> QED BY <2>2
<1>4. StoreOctet(LoadChar(LoadChar(PackRound(x, f, k), x), x)) = State(over, left, next, e)
  <2>1. LoadChar(LoadChar(PackRound(x, f, k), x), x) = State(t, bits, next, o)
    BY CharsLoaded
  <2>2. bits \in Int /\ next \in Int
    <3> HIDE DEF m, u, n
    <3> QED BY <1>1
  <2> HIDE DEF t, bits, next, o
  <2> QED BY <1>3, <2>1, <2>2, OctetStored
<1>5. PackRound(x, f, k + 1)
        = State(IF more /\ u2 # 0 THEN rest ELSE 0,
                IF more /\ u2 # 0 THEN 7 - u2 ELSE 0,
                IF ~more THEN n + 1 ELSE IF u2 = 0 THEN m2 + 1 ELSE m2 + 2, oo)
  BY DEF PackRound, State
<1>6. e = oo
  <2>1. Least(k + 1, l) = k + 1
    <3> HIDE DEF l
    <3> QED BY <1>1 DEF Least
  <2>2. t % 256 = PackedOctet(x, f, k)
    BY DEF Loaded, PackedOctet
  <2>3. Append(o, PackedOctet(x, f, k)) = PackedOctets(x, f, k + 1)
    BY OctetBehind
  <2> HIDE DEF t, l, o
  <2> QED BY <2>1, <2>2, <2>3
<1>7. /\ u = 6 => m2 = m + 2 /\ u2 = 0
      /\ u < 6 => m2 = m + 1 /\ u2 = u + 1
  BY Places
<1>8. /\ n > m \/ (n = 0 /\ m = 0 /\ u = 0)
      /\ more => n >= m + 3 \/ (n = m + 2 /\ u # 6)
      /\ ~more => (n = 0 /\ m = 0 /\ u = 0) \/ n = m + 1 \/ (n = m + 2 /\ u = 6)
  <2>1. f = 0 /\ k = 0 => m = 0 /\ u = 0
    BY Places
  <2>2. /\ k < l => n > m \/ (n = 0 /\ f = 0 /\ k = 0)
        /\ k + 1 < l => n >= m + 3 \/ (n = m + 2 /\ u # 6)
        /\ k + 1 = l => (n = 0 /\ f = 0 /\ k = 0) \/ n = m + 1 \/ (n = m + 2 /\ u = 6)
    BY <1>1, PackLength
  <2> HIDE DEF m, u, n, l
  <2> QED BY <1>1, <2>1, <2>2
<1>9. b = 0 \/ n >= m + 2
  <2> HIDE DEF m, u, n
  <2> QED BY <1>1 DEF Septet, n
<1>10. u < 6 => rest = b \div 2^(u + 1)
  <2>1. u < 6 => m2 + 1 = m + 2 /\ u2 = u + 1
    <3> HIDE DEF m, u, m2, u2
    <3> QED BY <1>1, <1>7
  <2> HIDE DEF m, u, m2, u2
  <2> QED BY <2>1
<1>11. b = 0 => b \div 2^(u + 1) = 0
  <2> DEFINE p == 2^(u + 1)
  <2>1. p \in 1 .. 128
    <3> HIDE DEF u
    <3>1. u + 1 \in 0 .. 7
      BY <1>1
    <3> QED BY <3>1, Power
  <2> HIDE DEF p, b
  <2>2. 0 \div p = 0
    BY <2>1
  <2> QED BY <2>2 DEF p
<1> DEFINE c == b \div 2^(u + 1)
<1>12. /\ over = IF u = 6 THEN 0 ELSE c
       /\ u < 6 => rest = c
       /\ b = 0 => c = 0
  BY <1>3, <1>10, <1>11
<1> HIDE DEF m, u, n, l, b, e, oo, m2, u2, more, rest, c, over
<1>13. over = IF more /\ u2 # 0 THEN rest ELSE 0
  BY <1>1, <1>7, <1>8, <1>9, <1>12
<1>14. left = IF more /\ u2 # 0 THEN 7 - u2 ELSE 0
  BY <1>1, <1>7, <1>8
<1>15. next = IF ~more THEN n + 1 ELSE IF u2 = 0 THEN m2 + 1 ELSE m2 + 2
  BY <1>1, <1>7, <1>8
<1> HIDE DEF left, next
<1> QED BY <1>4, <1>5, <1>6, <1>13, <1>14, <1>15

LEMMA PackEnds ==
  ASSUME NEW x \in Seq(Nat), NEW f \in 0 .. 6, NEW k \in Nat, k >= PackedLen(Len(x), f)
  PROVE  /\ ~MoreToPack(PackRound(x, f, k), x)
         /\ PackRound(x, f, k + 1) = PackRound(x, f, k)
<1> DEFINE n == Len(x)
           l == PackedLen(n, f)
           done == State(0, 0, n + 1, PackedOctets(x, f, l))
<1>1. n \in Nat /\ l \in Nat /\ k >= l
  <2>1. n \in Nat
    OBVIOUS
  <2> QED BY <2>1, PackLength
<1>2. ASSUME NEW j \in Nat, j >= l PROVE PackRound(x, f, j) = done
  <2>1. ~(j < l) /\ Least(j, l) = l
    <3> HIDE DEF l
    <3> QED BY <1>1, <1>2 DEF Least
  <2> QED BY <2>1 DEF PackRound, State
<1>3. PackRound(x, f, k) = done /\ PackRound(x, f, k + 1) = done
  <2>1. k >= l /\ k + 1 >= l /\ k + 1 \in Nat
    <3> HIDE DEF l
    <3> QED BY <1>1
  <2> HIDE DEF done, l
  <2> QED BY <1>2, <2>1
<1>4. ~MoreToPack(done, x)
  <2>1. done.bits = 0 /\ done.next = n + 1
    BY DEF State
  <2> HIDE DEF done
  <2> QED BY <1>1, <2>1 DEF MoreToPack
<1> HIDE DEF done
<1> QED BY <1>3, <1>4

LEMMA PackHasMore ==
  ASSUME NEW x \in Seq(Nat), NEW f \in 0 .. 6, NEW k \in Nat,
         k < PackedLen(Len(x), f), k # 0
  PROVE  MoreToPack(PackRound(x, f, k), x)
<1> DEFINE m == Before(f, k)
           u == Within(f, k)
           n == Len(x)
           s == PackRound(x, f, k)
<1>1. n \in Nat /\ m \in Int /\ u \in 0 .. 6
  <2>1. n \in Nat
    OBVIOUS
  <2> QED BY <2>1, Places
<1>2. n > m
  BY <1>1, PackLength
<1>3. /\ s.bits = IF u # 0 THEN 7 - u ELSE 0
      /\ s.next = IF u = 0 THEN m + 1 ELSE m + 2
  BY DEF PackRound
<1> HIDE DEF m, u, n, s
<1>4. s.bits > 0 \/ s.next <= n
  BY <1>1, <1>2, <1>3
<1> QED BY <1>4 DEF MoreToPack, s, n

\* The loop of pack7Bit() in closed form.
LEMMA Packing ==
  ASSUME NEW x \in Seq(Nat), NEW f \in 0 .. 6
  PROVE  pack7Bit(x, f) = PackedOctets(x, f, PackedLen(Len(x), f))
<1> DEFINE n == Len(x)
           l == PackedLen(n, f)
           step(s, k) == IF k = 1 \/ MoreToPack(s, x)
                         THEN StoreOctet(LoadChar(LoadChar(s, x), x))
                         ELSE s
           begin == [buffer |-> 0, bits |-> f, next |-> 1, out |-> <<>>]
           rounds(r) == r = [k \in Nat |-> IF k = 0 THEN begin ELSE step(r[k - 1], k)]
           round == CHOOSE r : rounds(r)
           closed == [k \in Nat |-> PackRound(x, f, k)]
<1>1. n \in Nat /\ l \in Nat \ {0} /\ l <= n + 1
  <2>1. n \in Nat
    OBVIOUS
  <2> QED BY <2>1, PackLength
<1>2. ASSUME NEW k \in Nat PROVE step(PackRound(x, f, k), k + 1) = PackRound(x, f, k + 1)
  <2>1. k + 1 = 1 <=> k = 0
    OBVIOUS
  <2>2. CASE k < l
    <3>1. k = 0 \/ MoreToPack(PackRound(x, f, k), x)
      BY <2>2, PackHasMore
    <3> QED BY <2>1, <2>2, <3>1, PackGoesOn
  <2>3. CASE k >= l
    <3>1. k # 0
      <4> HIDE DEF l
      <4> QED BY <1>1, <2>3
    <3> QED BY <2>1, <2>3, <3>1, PackEnds
  <2>4. k < l \/ k >= l
    <3> HIDE DEF l
    <3> QED BY <1>1
  <2> QED BY <2>2, <2>3, <2>4
<1> HIDE DEF step
<1>3. PackRound(x, f, 0) = begin
  BY PackBegins
<1> HIDE DEF begin
<1>4. rounds(closed)
  <2>1. ASSUME NEW k \in Nat
        PROVE  PackRound(x, f, k) = IF k = 0 THEN begin ELSE step(closed[k - 1], k)
    <3>1. CASE k = 0
      BY <1>3, <3>1
    <3>2. CASE k # 0
      <4>1. k - 1 \in Nat /\ (k - 1) + 1 = k
        BY <3>2
      <4>2. step(PackRound(x, f, k - 1), k) = PackRound(x, f, k)
        BY <1>2, <4>1
      <4> QED BY <3>2, <4>1, <4>2
    <3> QED BY <3>1, <3>2
  <2> QED BY <2>1
<1>5. rounds(round)
  <2> HIDE DEF rounds, closed
  <2> QED BY <1>4
<1> HIDE DEF round
<1> DEFINE T == {k \in Nat : round[k] = PackRound(x, f, k)}
<1>6. Nat \subseteq T
  <2>1. 0 \in T
    BY <1>3, <1>5
  <2>2. ASSUME NEW k \in Nat, k \in T PROVE k + 1 \in T
    <3>1. k + 1 \in Nat /\ k + 1 # 0 /\ (k + 1) - 1 = k
      OBVIOUS
    <3>2. round[k + 1] = step(round[k], k + 1)
      BY <1>5, <3>1
    <3> QED BY <1>2, <2>2, <3>1, <3>2
  <2> HIDE DEF T
  <2> QED BY <2>1, <2>2, Induction
<1>7. round[n + 1].out = PackedOctets(x, f, l)
  <2>1. n + 1 \in Nat /\ Least(n + 1, l) = l
    <3> HIDE DEF n, l
    <3> QED BY <1>1 DEF Least
  <2>2. round[n + 1] = PackRound(x, f, n + 1)
    BY <1>6, <2>1
  <2>3. PackRound(x, f, n + 1).out = PackedOctets(x, f, Least(n + 1, l))
    BY DEF PackRound
  <2> QED BY <2>1, <2>2, <2>3
<1> QED BY <1>7 DEF pack7Bit, round, step, begin

-----------------------------------------------------------------------------
(* The rounds of unpack7Bit() *)

\* Where character k begins, counted from 0: at bit Bit of the octet behind the first Whole.
Whole(f, k) == (f + 7 * k) \div 8
Bit(f, k) == (f + 7 * k) % 8

OctetAt(o, j) == IF j \in 1 .. Len(o) THEN o[j] ELSE 0

Unpacked(o, f, k) == ((OctetAt(o, Whole(f, k) + 1) \div 2^Bit(f, k))
                        + OctetAt(o, Whole(f, k) + 2) * 2^(8 - Bit(f, k))) % 128

UnpackedChars(o, f, k) == [i \in 1 .. k |-> Unpacked(o, f, i - 1)]

UnpackRound(o, f, k) ==
  LET r == Bit(f, k) IN
  State(IF r = 0 THEN 0 ELSE OctetAt(o, Whole(f, k) + 1) \div 2^r,
        IF r = 0 THEN 0 ELSE 8 - r,
        IF r = 0 THEN Whole(f, k) + 1 ELSE Whole(f, k) + 2,
        UnpackedChars(o, f, k))

LEMMA UnpackPlaces ==
  ASSUME NEW f \in 0 .. 6, NEW k \in Nat
  PROVE  /\ Whole(f, k) \in Nat /\ Bit(f, k) \in 0 .. 7
         /\ f + 7 * k = 8 * Whole(f, k) + Bit(f, k)
         /\ Bit(f, k) = 0 => Whole(f, k + 1) = Whole(f, k) /\ Bit(f, k + 1) = 7
         /\ Bit(f, k) > 0 => Whole(f, k + 1) = Whole(f, k) + 1 /\ Bit(f, k + 1) = Bit(f, k) - 1
         /\ k = 0 => Whole(f, k) = 0 /\ Bit(f, k) = f
BY DEF Whole, Bit

LEMMA OctetAtType ==
  ASSUME NEW o \in Seq(0 .. 255), NEW j \in Int
  PROVE  OctetAt(o, j) \in 0 .. 255
<1>1. CASE j \in 1 .. Len(o)
  <2>1. o[j] \in 0 .. 255
    BY <1>1, ElementOfSeq
  <2> QED BY <1>1, <2>1 DEF OctetAt
<1>2. CASE j \notin 1 .. Len(o)
  BY <1>2 DEF OctetAt
<1> QED BY <1>1, <1>2

LEMMA CharType ==
  ASSUME NEW o \in Seq(0 .. 255), NEW f \in 0 .. 6, NEW k \in Nat
  PROVE  Unpacked(o, f, k) \in 0 .. 127
<1> DEFINE r == Bit(f, k)
           a == OctetAt(o, Whole(f, k) + 1)
           b == OctetAt(o, Whole(f, k) + 2)
           p == 2^r
           q == 2^(8 - r)
           t == (a \div p) + b * q
<1>1. r \in 0 .. 7 /\ a \in 0 .. 255 /\ b \in 0 .. 255
  <2> DEFINE w == Whole(f, k)
  <2>1. w \in Nat /\ r \in 0 .. 7
    BY UnpackPlaces
  <2> HIDE DEF w
  <2>2. w + 1 \in Int /\ w + 2 \in Int
    BY <2>1
  <2>3. OctetAt(o, w + 1) \in 0 .. 255 /\ OctetAt(o, w + 2) \in 0 .. 255
    BY <2>2, OctetAtType
  <2> QED BY <2>1, <2>3 DEF w
<1>2. p \in Nat \ {0} /\ q \in Nat
  <2> HIDE DEF r
  <2>1. p \in 1 .. 128
    BY <1>1, Power
  <2>2. q \in 1 .. 256
    <3>1. CASE r = 0
      BY <3>1
    <3>2. CASE r # 0
      <4>1. 8 - r \in 0 .. 7
        BY <1>1, <3>2
      <4>2. q \in 1 .. 128
        BY <4>1, Power
      <4> HIDE DEF q
      <4> QED BY <4>2
    <3> QED BY <3>1, <3>2
  <2> HIDE DEF p, q
  <2> QED BY <2>1, <2>2
<1> HIDE DEF r, a, b, p, q
<1>3. t \in Nat
  <2>1. a \div p \in Nat
    BY <1>1, <1>2
  <2>2. b * q \in Nat
    BY <1>1, <1>2
  <2> QED BY <2>1, <2>2
<1> HIDE DEF t
<1>4. t % 128 \in 0 .. 127
  BY <1>3
<1> QED BY <1>4 DEF Unpacked, t, a, b, p, q, r

LEMMA CharBehind ==
  ASSUME NEW o \in Seq(0 .. 255), NEW f \in 0 .. 6, NEW k \in Nat
  PROVE  Append(UnpackedChars(o, f, k), Unpacked(o, f, k)) = UnpackedChars(o, f, k + 1)
<1> DEFINE s == UnpackedChars(o, f, k)
           t == UnpackedChars(o, f, k + 1)
           e == Unpacked(o, f, k)
<1>1. s \in Seq(0 .. 127) /\ Len(s) = k /\ t \in Seq(0 .. 127) /\ Len(t) = k + 1
  <2>1. ASSUME NEW i \in Nat, i >= 1 PROVE Unpacked(o, f, i - 1) \in 0 .. 127
    <3>1. i - 1 \in Nat
      BY <2>1
    <3> QED BY <3>1, CharType
  <2> QED BY <2>1 DEF UnpackedChars
<1>2. \A i \in 1 .. k : s[i] = t[i]
  BY DEF UnpackedChars
<1>3. t[k + 1] = e
  BY DEF UnpackedChars
<1> HIDE DEF s, t, e
<1>4. e \in 0 .. 127
  BY CharType DEF e
<1>5. /\ Append(s, e) \in Seq(0 .. 127) /\ Len(Append(s, e)) = k + 1
      /\ \A i \in 1 .. k + 1 : Append(s, e)[i] = t[i]
  BY <1>1, <1>2, <1>3, <1>4
<1>6. Append(s, e) = t
  BY <1>1, <1>5
<1> QED BY <1>6 DEF s, t, e

LEMMA OctetLoaded ==
  ASSUME NEW o, NEW v, NEW b \in Int, NEW i \in Int, NEW c, b < 7
  PROVE  LoadOctet(State(v, b, i, c), o) = State(v + o[i] * 2^b, b + 8, i + 1, c)
BY DEF LoadOctet, State

LEMMA OctetNotLoaded ==
  ASSUME NEW o, NEW v, NEW b \in Int, NEW i, NEW c, ~(b < 7)
  PROVE  LoadOctet(State(v, b, i, c), o) = State(v, b, i, c)
BY DEF LoadOctet, State

LEMMA CharExtracted ==
  ASSUME NEW v \in Int, NEW b \in Int, NEW i, NEW c
  PROVE  ExtractChar(State(v, b, i, c)) = State(v \div 128, b - 7, i, Append(c, v % 128))
<1> DEFINE s == State(v, b, i, c)
<1>1. /\ s.out = c /\ s.buffer = v /\ s.bits = b /\ s.next = i
      /\ s = [buffer |-> v, bits |-> b, next |-> i, out |-> c]
  BY DEF State
<1>2. ExtractChar(s) = [s EXCEPT !.out = Append(c, v % 128),
                                 !.buffer = v \div 128,
                                 !.bits = b - 7]
  <2> HIDE DEF s
  <2> QED BY <1>1 DEF ExtractChar
<1> DEFINE p == v \div 128
           q == b - 7
           r == Append(c, v % 128)
<1> HIDE DEF p, q, r
<1>3. [s EXCEPT !.out = r, !.buffer = p, !.bits = q] = State(p, q, i, r)
  <2>1. [s EXCEPT !.out = r] = State(v, b, i, r)
    BY DEF State
  <2>2. [State(v, b, i, r) EXCEPT !.buffer = p] = State(p, b, i, r)
    BY DEF State
  <2>3. [State(p, b, i, r) EXCEPT !.bits = q] = State(p, q, i, r)
    BY DEF State
  <2> QED BY <2>1, <2>2, <2>3
<1> QED BY <1>2, <1>3 DEF p, q, r

LEMMA FirstOctetLoaded ==
  ASSUME NEW o, NEW i \in Int, NEW c, NEW w \in Int, o[i] = w, NEW j, j = i + 1
  PROVE  LoadOctet(State(0, 0, i, c), o) = State(w, 8, j, c)
<1>1. \A b \in Int : b < 7 => LoadOctet(State(0, b, i, c), o)
                                = State(0 + o[i] * 2^b, b + 8, i + 1, c)
  BY OctetLoaded
<1>2. 0 \in Int /\ 0 < 7 /\ 2^0 = 1 /\ 0 + 8 = 8 /\ 0 + w * 1 = w
  BY Powers
<1>3. LoadOctet(State(0, 0, i, c), o) = State(0 + o[i] * 2^0, 0 + 8, i + 1, c)
  BY <1>1, <1>2, Zenon
<1> QED BY <1>2, <1>3, Zenon

\* What is left of two octets when a character of them is taken.
LEMMA ShiftedBack ==
  ASSUME NEW r \in 2 .. 7, NEW a \in 0 .. 255, NEW b \in 0 .. 255,
         NEW t, t = (a \div 2^r) + b * 2^(8 - r)
  PROVE  t \in Nat /\ t \div 128 = b \div 2^(r - 1)
<1>1. CASE r = 2
  BY <1>1, Powers
<1>2. CASE r = 3
  BY <1>2, Powers
<1>3. CASE r = 4
  BY <1>3, Powers
<1>4. CASE r = 5
  BY <1>4, Powers
<1>5. CASE r = 6
  BY <1>5, Powers
<1>6. CASE r = 7
  BY <1>6, Powers
<1> QED BY <1>1, <1>2, <1>3, <1>4, <1>5, <1>6

LEMMA UnpackGoesOn ==
  ASSUME NEW o \in Seq(0 .. 255), NEW f \in 0 .. 6, NEW k \in Nat, f + 7 * k + 7 <= 8 * Len(o)
  PROVE  ExtractChar(LoadOctet(UnpackRound(o, f, k), o)) = UnpackRound(o, f, k + 1)
<1> DEFINE q == Whole(f, k)
           r == Bit(f, k)
           n == Len(o)
           c == UnpackedChars(o, f, k)
           cc == UnpackedChars(o, f, k + 1)
           a == OctetAt(o, q + 1)
           b == OctetAt(o, q + 2)
           e == Unpacked(o, f, k)
           q2 == Whole(f, k + 1)
           r2 == Bit(f, k + 1)
           new == UnpackRound(o, f, k + 1)
<1>1. /\ n \in Nat /\ q \in Nat /\ r \in 0 .. 7 /\ f + 7 * k = 8 * q + r
      /\ r = 0 => q2 = q /\ r2 = 7
      /\ r > 0 => q2 = q + 1 /\ r2 = r - 1
  <2>1. n \in Nat
    OBVIOUS
  <2> QED BY <2>1, UnpackPlaces
<1>2. q + 1 \in 1 .. n /\ (r >= 2 => q + 2 \in 1 .. n)
  <2>1. f + 7 * k + 7 <= 8 * n
    OBVIOUS
  <2> HIDE DEF q, r, n
  <2> QED BY <1>1, <2>1
<1>3. a \in 0 .. 255 /\ b \in 0 .. 255
  <2> HIDE DEF q
  <2>1. q + 1 \in Int /\ q + 2 \in Int
    BY <1>1
  <2> QED BY <2>1, OctetAtType
<1>4. o[q + 1] = a /\ (r >= 2 => o[q + 2] = b)
  <2> HIDE DEF q, r
  <2> QED BY <1>2 DEF OctetAt, n
<1>5. Append(c, e) = cc
  BY CharBehind
<1>6. e = ((a \div 2^r) + b * 2^(8 - r)) % 128
  BY DEF Unpacked
<1>7. UnpackRound(o, f, k) = State(IF r = 0 THEN 0 ELSE a \div 2^r, IF r = 0 THEN 0 ELSE 8 - r,
                                   IF r = 0 THEN q + 1 ELSE q + 2, c)
  BY DEF UnpackRound
<1>8. new = State(IF r2 = 0 THEN 0 ELSE OctetAt(o, q2 + 1) \div 2^r2,
                  IF r2 = 0 THEN 0 ELSE 8 - r2,
                  IF r2 = 0 THEN q2 + 1 ELSE q2 + 2, cc)
  BY DEF UnpackRound
<1> SUFFICES ExtractChar(LoadOctet(UnpackRound(o, f, k), o)) = new
  OBVIOUS
<1> HIDE DEF q, r, n, c, cc, a, b, e, q2, r2, new
<1>9. CASE r = 0
  <2>1. UnpackRound(o, f, k) = State(0, 0, q + 1, c)
    BY <1>7, <1>9
  <2>2. LoadOctet(State(0, 0, q + 1, c), o) = State(a, 8, q + 2, c)
    <3>1. q + 1 \in Int /\ a \in Int /\ q + 2 = (q + 1) + 1
      BY <1>1, <1>3
    <3> QED BY <1>4, <3>1, FirstOctetLoaded
  <2>3. ExtractChar(State(a, 8, q + 2, c)) = State(a \div 128, 1, q + 2, Append(c, a % 128))
    <3>1. a \in Int /\ 8 - 7 = 1 /\ 8 \in Int
      BY <1>3
    <3> QED BY <3>1, CharExtracted
  <2>4. a % 128 = e
    <3>1. 2^0 = 1 /\ 2^8 = 256
      OBVIOUS
    <3>2. e = ((a \div 1) + b * 256) % 128
      BY <1>6, <1>9, <3>1
    <3> QED BY <1>3, <3>2
  <2>5. new = State(a \div 128, 1, q + 2, cc)
    <3>1. q2 = q /\ r2 = 7 /\ r2 # 0 /\ 8 - r2 = 1 /\ 2^r2 = 128
      BY <1>1, <1>9, Powers
    <3> QED BY <1>8, <3>1 DEF a
  <2> QED BY <1>5, <2>1, <2>2, <2>3, <2>4, <2>5
<1>10. CASE r = 1
  <2>1. UnpackRound(o, f, k) = State(a \div 2, 7, q + 2, c)
    <3>1. r # 0 /\ 8 - r = 7 /\ 2^r = 2
      BY <1>10, Powers
    <3> QED BY <1>7, <3>1
  <2> DEFINE h == a \div 2
  <2>2. h \in 0 .. 127
    BY <1>3
  <2>3. h % 128 = e
    <3>1. 2^1 = 2 /\ 2^7 = 128 /\ 8 - 1 = 7
      BY Powers
    <3>2. e = ((a \div 2) + b * 128) % 128
      BY <1>6, <1>10, <3>1
    <3> QED BY <1>3, <3>2
  <2> HIDE DEF h
  <2>4. LoadOctet(State(h, 7, q + 2, c), o) = State(h, 7, q + 2, c)
    <3>1. 7 \in Int /\ ~(7 < 7)
      OBVIOUS
    <3> QED BY <3>1, OctetNotLoaded
  <2>5. ExtractChar(State(h, 7, q + 2, c)) = State(0, 0, q + 2, Append(c, h % 128))
    <3>1. h \in Int /\ 7 - 7 = 0 /\ 7 \in Int /\ h \div 128 = 0
      BY <2>2
    <3> QED BY <3>1, CharExtracted
  <2>6. new = State(0, 0, q + 2, cc)
    <3>1. r2 = 0 /\ q2 + 1 = q + 2
      BY <1>1, <1>10
    <3> QED BY <1>8, <3>1
  <2> QED BY <1>5, <2>1, <2>3, <2>4, <2>5, <2>6 DEF h
<1>11. CASE r >= 2
  <2> DEFINE h == a \div 2^r
             t == h + b * 2^(8 - r)
  <2>1. UnpackRound(o, f, k) = State(h, 8 - r, q + 2, c)
    <3>1. r # 0
      BY <1>1, <1>11
    <3> QED BY <1>7, <3>1
  <2>2. t \in Nat /\ t \div 128 = b \div 2^(r - 1)
    <3>1. r \in 2 .. 7
      BY <1>1, <1>11
    <3> HIDE DEF t
    <3>2. \A i \in 2 .. 7 : \A x \in 0 .. 255 : \A y \in 0 .. 255 : \A s :
            s = (x \div 2^i) + y * 2^(8 - i) => s \in Nat /\ s \div 128 = y \div 2^(i - 1)
      BY ShiftedBack, ZenonT(60)
    <3>4. \A s : s = (a \div 2^r) + b * 2^(8 - r) => s \in Nat /\ s \div 128 = b \div 2^(r - 1)
      <4>1. a \in 0 .. 255 /\ b \in 0 .. 255
        BY <1>3
      <4>2. \A x \in 0 .. 255 : \A y \in 0 .. 255 : \A s :
              s = (x \div 2^r) + y * 2^(8 - r) => s \in Nat /\ s \div 128 = y \div 2^(r - 1)
        BY <3>1, <3>2, Zenon
      <4>3. \A y \in 0 .. 255 : \A s :
              s = (a \div 2^r) + y * 2^(8 - r) => s \in Nat /\ s \div 128 = y \div 2^(r - 1)
        BY <4>1, <4>2, Zenon
      <4> QED BY <4>1, <4>3, Zenon
    <3>3. t = (a \div 2^r) + b * 2^(8 - r)
      BY DEF t
    <3> QED BY <3>3, <3>4, Zenon
  <2>3. LoadOctet(State(h, 8 - r, q + 2, c), o) = State(t, 16 - r, q + 3, c)
    <3>1. 8 - r \in Int /\ q + 2 \in Int /\ 8 - r < 7 /\ 16 - r = (8 - r) + 8 /\ q + 3 = (q + 2) + 1
      BY <1>1, <1>11
    <3>2. o[q + 2] = b
      BY <1>4, <1>11
    <3> HIDE DEF h
    <3>3. LoadOctet(State(h, 8 - r, q + 2, c), o)
            = State(h + o[q + 2] * 2^(8 - r), (8 - r) + 8, (q + 2) + 1, c)
      BY <3>1, OctetLoaded
    <3> QED BY <3>1, <3>2, <3>3
  <2>4. t % 128 = e
    BY <1>6
  <2> HIDE DEF h, t
  <2>5. ExtractChar(State(t, 16 - r, q + 3, c)) = State(t \div 128, 9 - r, q + 3, Append(c, t % 128))
    <3>1. t \in Int /\ 16 - r \in Int /\ (16 - r) - 7 = 9 - r
      BY <1>1, <2>2
    <3> QED BY <3>1, CharExtracted
  <2>6. new = State(b \div 2^(r - 1), 9 - r, q + 3, cc)
    <3>1. r2 = r - 1 /\ r2 # 0 /\ q2 + 1 = q + 2 /\ q2 + 2 = q + 3 /\ 8 - r2 = 9 - r
      BY <1>1, <1>11
    <3> QED BY <1>8, <3>1 DEF b
  <2> QED BY <1>5, <2>1, <2>2, <2>3, <2>4, <2>5, <2>6
<1> QED BY <1>1, <1>9, <1>10, <1>11

\* The first n rounds from s.
Begun(g, n, s, o) == /\ g[0] = s
                     /\ \A i \in 1 .. n : g[i] = ExtractChar(LoadOctet(g[i - 1], o))

LEMMA BegunOnce ==
  ASSUME NEW s, NEW o, NEW n \in Nat, NEW m \in Nat, NEW g, NEW h,
         Begun(g, n, s, o), Begun(h, m, s, o)
  PROVE  \A i \in Nat : i <= n /\ i <= m => g[i] = h[i]
<1> DEFINE T == {i \in Nat : i <= n /\ i <= m => g[i] = h[i]}
<1>1. 0 \in T
  BY DEF Begun
<1>2. ASSUME NEW i \in Nat, i \in T PROVE i + 1 \in T
  <2>1. SUFFICES ASSUME i + 1 <= n, i + 1 <= m PROVE g[i + 1] = h[i + 1]
    OBVIOUS
  <2>2. /\ i + 1 \in 1 .. n /\ i + 1 \in 1 .. m /\ (i + 1) - 1 = i
        /\ i <= n /\ i <= m
    BY <2>1
  <2>3. g[i] = h[i]
    BY <1>2, <2>2
  <2> QED BY <2>2, <2>3 DEF Begun
<1>3. Nat \subseteq T
  <2> HIDE DEF T
  <2> QED BY <1>1, <1>2, Induction
<1> QED BY <1>3

LEMMA BegunAll ==
  ASSUME NEW s, NEW o
  PROVE  \A n \in Nat : \E g : Begun(g, n, s, o)
<1> DEFINE T == {n \in Nat : \E g : Begun(g, n, s, o)}
<1>1. 0 \in T
  <2>1. Begun([i \in 0 .. 0 |-> s], 0, s, o)
    BY DEF Begun
  <2> QED BY <2>1
<1>2. ASSUME NEW n \in Nat, n \in T PROVE n + 1 \in T
  <2>1. PICK g : Begun(g, n, s, o)
    BY <1>2
  <2> DEFINE v == ExtractChar(LoadOctet(g[n], o))
             h == [i \in 0 .. n + 1 |-> IF i = n + 1 THEN v ELSE g[i]]
  <2> HIDE DEF v
  <2>2. h[0] = s
    BY <2>1 DEF Begun
  <2>3. ASSUME NEW i \in 1 .. n + 1 PROVE h[i] = ExtractChar(LoadOctet(h[i - 1], o))
    <3>1. CASE i = n + 1
      <4>1. h[i] = v /\ h[i - 1] = g[n]
        BY <3>1
      <4> QED BY <4>1 DEF v
    <3>2. CASE i # n + 1
      <4>1. i \in 1 .. n /\ i \in 0 .. n + 1 /\ i - 1 \in 0 .. n + 1 /\ i - 1 # n + 1
        BY <3>2
      <4>2. h[i] = g[i] /\ h[i - 1] = g[i - 1]
        BY <3>2, <4>1
      <4> QED BY <2>1, <4>1, <4>2 DEF Begun
    <3> QED BY <3>1, <3>2
  <2>4. Begun(h, n + 1, s, o)
    BY <2>2, <2>3 DEF Begun
  <2> QED BY <2>4
<1>3. Nat \subseteq T
  <2> HIDE DEF T
  <2> QED BY <1>1, <1>2, Induction
<1> QED BY <1>3

LEMMA BegunSame ==
  ASSUME NEW s, NEW o, NEW k \in Nat, NEW m \in Nat, m <= k, NEW g, NEW h,
         Begun(g, k, s, o), Begun(h, m, s, o)
  PROVE  g[m] = h[m]
<1>1. \A i \in Nat : i <= k /\ i <= m => g[i] = h[i]
  BY BegunOnce
<1> QED BY <1>1

LEMMA RoundsExist ==
  ASSUME NEW s, NEW o
  PROVE  \E r : r = [k \in Nat |-> IF k = 0 THEN s ELSE ExtractChar(LoadOctet(r[k - 1], o))]
<1> DEFINE G(k) == CHOOSE g : Begun(g, k, s, o)
           r == [k \in Nat |-> G(k)[k]]
<1>1. \A k \in Nat : Begun(G(k), k, s, o)
  BY BegunAll
<1> HIDE DEF G
<1>2. ASSUME NEW k \in Nat
      PROVE  G(k)[k] = IF k = 0 THEN s ELSE ExtractChar(LoadOctet(r[k - 1], o))
  <2>1. CASE k = 0
    BY <1>1, <2>1 DEF Begun
  <2>2. CASE k # 0
    <3> DEFINE m == k - 1
    <3>1. m \in Nat /\ m <= k /\ k \in 1 .. k
      BY <2>2
    <3> HIDE DEF m
    <3>2. G(k)[m] = G(m)[m]
      BY <1>1, <3>1, BegunSame
    <3>3. G(k)[k] = ExtractChar(LoadOctet(G(k)[m], o))
      BY <1>1, <3>1 DEF Begun, m
    <3>4. r[m] = G(m)[m]
      BY <3>1
    <3> QED BY <2>2, <3>2, <3>3, <3>4 DEF m
  <2> QED BY <2>1, <2>2
<1>3. r = [k \in Nat |-> IF k = 0 THEN s ELSE ExtractChar(LoadOctet(r[k - 1], o))]
  BY <1>2
<1> QED BY <1>3

LEMMA UnpackBegins ==
  ASSUME NEW o \in Seq(0 .. 255), NEW f \in 0 .. 6, f <= 8 * Len(o)
  PROVE  UnpackRound(o, f, 0)
           = IF f = 0 THEN [buffer |-> 0, bits |-> 0, next |-> 1, out |-> <<>>]
             ELSE [buffer |-> o[1] \div 2^f, bits |-> 8 - f, next |-> 2, out |-> <<>>]
<1>1. Whole(f, 0) = 0 /\ Bit(f, 0) = f
  BY UnpackPlaces
<1>2. UnpackedChars(o, f, 0) = <<>>
  BY DEF UnpackedChars
<1>3. f # 0 => OctetAt(o, 1) = o[1]
  BY DEF OctetAt
<1>4. 0 + 1 = 1 /\ 0 + 2 = 2
  OBVIOUS
<1> QED BY <1>1, <1>2, <1>3, <1>4 DEF UnpackRound, State

\* The loop of unpack7Bit() in closed form, as long as there are octets.
LEMMA Unpacking ==
  ASSUME NEW o \in Seq(0 .. 255), NEW f \in 0 .. 6, NEW n \in Nat, f + 7 * n <= 8 * Len(o)
  PROVE  unpack7Bit(o, n, f) = UnpackedChars(o, f, n)
<1> DEFINE step(s) == ExtractChar(LoadOctet(s, o))
           begin == IF f = 0 THEN [buffer |-> 0, bits |-> 0, next |-> 1, out |-> <<>>]
                    ELSE [buffer |-> o[1] \div 2^f, bits |-> 8 - f, next |-> 2, out |-> <<>>]
           rounds(r) == r = [k \in Nat |-> IF k = 0 THEN begin ELSE step(r[k - 1])]
           round == CHOOSE r : rounds(r)
<1>1. UnpackRound(o, f, 0) = begin
  <2>1. f <= 8 * Len(o)
    OBVIOUS
  <2> QED BY <2>1, UnpackBegins
<1> HIDE DEF begin
<1>3. \E r : rounds(r)
  <2> DEFINE Exist(s, q) ==
        \E r : r = [k \in Nat |-> IF k = 0 THEN s ELSE ExtractChar(LoadOctet(r[k - 1], q))]
  <2>1. \A s, q : Exist(s, q)
    BY RoundsExist
  <2>2. Exist(begin, o)
    <3> HIDE DEF Exist
    <3> QED BY <2>1
  <2> QED BY <2>2
<1>4. rounds(round)
  <2> HIDE DEF rounds
  <2> QED BY <1>3
<1> HIDE DEF round, step
<1> DEFINE T == {k \in Nat : k <= n => round[k] = UnpackRound(o, f, k)}
<1>5. Nat \subseteq T
  <2>1. 0 \in T
    BY <1>1, <1>4
  <2>2. ASSUME NEW k \in Nat, k \in T PROVE k + 1 \in T
    <3>1. SUFFICES ASSUME k + 1 <= n PROVE round[k + 1] = UnpackRound(o, f, k + 1)
      OBVIOUS
    <3>2. k + 1 \in Nat /\ k + 1 # 0 /\ (k + 1) - 1 = k /\ k <= n
      BY <3>1
    <3>3. round[k + 1] = step(round[k])
      BY <1>4, <3>2
    <3>4. f + 7 * k + 7 <= 8 * Len(o)
      <4>1. Len(o) \in Nat
        OBVIOUS
      <4> QED BY <3>1, <4>1
    <3>5. step(UnpackRound(o, f, k)) = UnpackRound(o, f, k + 1)
      BY <3>4, UnpackGoesOn DEF step
    <3> QED BY <2>2, <3>2, <3>3, <3>5
  <2> HIDE DEF T
  <2> QED BY <2>1, <2>2, Induction
<1>6. round[n].out = UnpackedChars(o, f, n)
  <2>1. round[n] = UnpackRound(o, f, n)
    <3>1. n \in T /\ n <= n
      BY <1>5
    <3> QED BY <3>1
  <2> QED BY <2>1 DEF UnpackRound, State
<1> QED BY <1>6 DEF unpack7Bit, round, step, begin

-----------------------------------------------------------------------------
(* Packed and unpacked again *)

\* The octet in which a character begins has its low bits, and the next one the others.
LEMMA LowBits ==
  ASSUME NEW r \in 2 .. 7, NEW a \in 0 .. 127, NEW s \in 0 .. 127,
         NEW first, first = ((a \div 2^(7 - r)) + s * 2^r) % 256
  PROVE  first \div 2^r = s % 2^(8 - r)
<1>1. CASE r = 2
  BY <1>1, Powers
<1>2. CASE r = 3
  BY <1>2, Powers
<1>3. CASE r = 4
  BY <1>3, Powers
<1>4. CASE r = 5
  BY <1>4, Powers
<1>5. CASE r = 6
  BY <1>5, Powers
<1>6. CASE r = 7
  BY <1>6, Powers
<1> QED BY <1>1, <1>2, <1>3, <1>4, <1>5, <1>6

LEMMA HighBits ==
  ASSUME NEW r \in 2 .. 7, NEW s \in 0 .. 127, NEW b \in 0 .. 127,
         NEW second, second = ((s \div 2^(8 - r)) + b * 2^(r - 1)) % 256
  PROVE  ((s % 2^(8 - r)) + second * 2^(8 - r)) % 128 = s
<1>1. CASE r = 2
  BY <1>1, Powers
<1>2. CASE r = 3
  BY <1>2, Powers
<1>3. CASE r = 4
  BY <1>3, Powers
<1>4. CASE r = 5
  BY <1>4, Powers
<1>5. CASE r = 6
  BY <1>5, Powers
<1>6. CASE r = 7
  BY <1>6, Powers
<1> QED BY <1>1, <1>2, <1>3, <1>4, <1>5, <1>6

\* A character that begins with an octet, or behind its first bit, is all in it.
LEMMA LowestBits ==
  ASSUME NEW s \in 0 .. 127, NEW b \in 0 .. 127, NEW second \in 0 .. 255,
         NEW first, first = ((s \div 1) + b * 128) % 256
  PROVE  ((first \div 1) + second * 256) % 128 = s
OBVIOUS

LEMMA HighestBits ==
  ASSUME NEW s \in 0 .. 127, NEW a \in 0 .. 127, NEW second \in 0 .. 255,
         NEW first, first = ((a \div 64) + s * 2) % 256
  PROVE  ((first \div 2) + second * 128) % 128 = s
OBVIOUS

\* The octets of pack7Bit().
LEMMA PackedType ==
  ASSUME NEW x \in Seq(Nat), NEW f \in 0 .. 6
  PROVE  LET o == pack7Bit(x, f)
         IN  /\ o \in Seq(0 .. 255)
             /\ Len(o) = PackedLen(Len(x), f)
             /\ f + 7 * Len(x) <= 8 * Len(o)
             /\ \A q \in Nat : 8 * q < f + 7 * Len(x) => OctetAt(o, q + 1) = PackedOctet(x, f, q)
<1> DEFINE n == Len(x)
           l == PackedLen(n, f)
           o == pack7Bit(x, f)
<1>1. n \in Nat /\ l \in Nat
  <2>1. n \in Nat
    OBVIOUS
  <2> QED BY <2>1, PackLength
<1>2. f + 7 * n <= 8 * l /\ \A q \in Nat : 8 * q < f + 7 * n => q + 1 \in 1 .. l
  <2> HIDE DEF n
  <2> QED BY <1>1 DEF PackedLen
<1>3. o = [i \in 1 .. l |-> PackedOctet(x, f, i - 1)]
  BY Packing DEF PackedOctets
<1> HIDE DEF n, l, o
<1>4. ASSUME NEW i \in 1 .. l PROVE PackedOctet(x, f, i - 1) \in 0 .. 255
  <2>1. i - 1 \in Nat
    BY <1>1
  <2> QED BY <2>1, OctetType
<1>5. o \in Seq(0 .. 255) /\ Len(o) = l
  BY <1>1, <1>3, <1>4
<1>6. ASSUME NEW q \in Nat, 8 * q < f + 7 * n PROVE OctetAt(o, q + 1) = PackedOctet(x, f, q)
  <2>1. q + 1 \in 1 .. l /\ (q + 1) - 1 = q
    BY <1>2, <1>6
  <2> QED BY <1>3, <1>5, <2>1 DEF OctetAt
<1> QED BY <1>2, <1>5, <1>6 DEF n, l, o

LEMMA CharBack ==
  ASSUME NEW x \in Seq(Nat), NEW f \in 0 .. 6, NEW k \in Nat, k < Len(x)
  PROVE  Unpacked(pack7Bit(x, f), f, k) = Septet(x, k + 1)
<1> DEFINE n == Len(x)
           o == pack7Bit(x, f)
           q == Whole(f, k)
           r == Bit(f, k)
           m == Before(f, q)
           u == Within(f, q)
           first == OctetAt(o, q + 1)
           second == OctetAt(o, q + 2)
           a == Septet(x, k)
           s == Septet(x, k + 1)
           b == Septet(x, k + 2)
<1>1. n \in Nat /\ k < n
  OBVIOUS
<1>2. q \in Nat /\ r \in 0 .. 7 /\ f + 7 * k = 8 * q + r
  BY UnpackPlaces
<1>3. a \in 0 .. 127 /\ s \in 0 .. 127 /\ b \in 0 .. 127
  <2>1. k \in Int /\ k + 1 \in Int /\ k + 2 \in Int
    OBVIOUS
  <2> QED BY <2>1, SeptetType
<1>4. first \in 0 .. 255 /\ second \in 0 .. 255
  <2>1. o \in Seq(0 .. 255)
    BY PackedType
  <2>2. q + 1 \in Int /\ q + 2 \in Int
    <3> HIDE DEF q
    <3> QED BY <1>2
  <2> HIDE DEF o, q
  <2> QED BY <2>1, <2>2, OctetAtType
<1>5. m \in Int /\ u \in 0 .. 6 /\ 8 * q = f + 7 * m + u
  <2> HIDE DEF q
  <2> QED BY <1>2, Places
<1>6. /\ r = 0 => m + 1 = k + 1 /\ m + 2 = k + 2 /\ u = 0
      /\ r > 0 => m + 1 = k /\ m + 2 = k + 1 /\ u = 7 - r
  <2> HIDE DEF q, r, m, u
  <2> QED BY <1>2, <1>5
<1>7. first = ((Septet(x, m + 1) \div 2^u) + Septet(x, m + 2) * 2^(7 - u)) % 256
  <2>1. first = PackedOctet(x, f, q)
    <3>1. \A j \in Nat : 8 * j < f + 7 * n => OctetAt(o, j + 1) = PackedOctet(x, f, j)
      BY PackedType
    <3> HIDE DEF n, o, q, r
    <3>2. 8 * q < f + 7 * n
      BY <1>1, <1>2
    <3> QED BY <1>2, <3>1, <3>2
  <2> QED BY <2>1 DEF PackedOctet
<1>8. Unpacked(o, f, k) = ((first \div 2^r) + second * 2^(8 - r)) % 128
  BY DEF Unpacked
<1> SUFFICES Unpacked(o, f, k) = s
  OBVIOUS
<1>9. CASE r = 0
  <2>1. 2^0 = 1 /\ 2^7 = 128 /\ 2^8 = 256 /\ 7 - 0 = 7 /\ 8 - 0 = 8
    OBVIOUS
  <2>2. first = ((s \div 1) + b * 128) % 256
    <3> HIDE DEF first, m, u, r
    <3> QED BY <1>6, <1>7, <1>9, <2>1
  <2>3. Unpacked(o, f, k) = ((first \div 1) + second * 256) % 128
    <3> HIDE DEF first, second, r
    <3> QED BY <1>8, <1>9, <2>1
  <2> HIDE DEF first, second, s, b
  <2>4. ((first \div 1) + second * 256) % 128 = s
    <3> DEFINE Lowest(c, d, w, v) == v = ((c \div 1) + d * 128) % 256
                                       => ((v \div 1) + w * 256) % 128 = c
    <3>1. \A c \in 0 .. 127 : \A d \in 0 .. 127 : \A w \in 0 .. 255 : \A v : Lowest(c, d, w, v)
      BY LowestBits, ZenonT(60)
    <3>2. Lowest(s, b, second, first)
      <4> HIDE DEF Lowest
      <4> QED BY <1>3, <1>4, <3>1
    <3> QED BY <2>2, <3>2
  <2> QED BY <2>3, <2>4
<1>10. CASE r = 1
  <2>1. 2^1 = 2 /\ 2^6 = 64 /\ 2^7 = 128 /\ 7 - 1 = 6 /\ 8 - 1 = 7 /\ 7 - 6 = 1
    BY Powers
  <2>2. first = ((a \div 64) + s * 2) % 256
    <3>1. u = 6 /\ m + 1 = k /\ m + 2 = k + 1
      <4> HIDE DEF m, u, r
      <4> QED BY <1>6, <1>10
    <3> HIDE DEF first, m, u
    <3> QED BY <1>7, <2>1, <3>1
  <2>3. Unpacked(o, f, k) = ((first \div 2) + second * 128) % 128
    <3> HIDE DEF first, second, r
    <3> QED BY <1>8, <1>10, <2>1
  <2> HIDE DEF first, second, s, a
  <2>4. ((first \div 2) + second * 128) % 128 = s
    <3> DEFINE Highest(c, d, w, v) == v = ((d \div 64) + c * 2) % 256
                                        => ((v \div 2) + w * 128) % 128 = c
    <3>1. \A c \in 0 .. 127 : \A d \in 0 .. 127 : \A w \in 0 .. 255 : \A v : Highest(c, d, w, v)
      BY HighestBits, ZenonT(60)
    <3>2. Highest(s, a, second, first)
      <4> HIDE DEF Highest
      <4> QED BY <1>3, <1>4, <3>1
    <3> QED BY <2>2, <3>2
  <2> QED BY <2>3, <2>4
<1>11. CASE r >= 2
  <2>1. r \in 2 .. 7
    <3> HIDE DEF r
    <3> QED BY <1>2, <1>11
  <2>2. first = ((a \div 2^(7 - r)) + s * 2^r) % 256
    <3>1. u = 7 - r /\ 7 - u = r /\ m + 1 = k /\ m + 2 = k + 1
      <4> HIDE DEF m, u, r
      <4> QED BY <1>2, <1>6, <1>11
    <3> HIDE DEF first, m, u, r
    <3> QED BY <1>7, <3>1
  <2>3. second = ((s \div 2^(8 - r)) + b * 2^(r - 1)) % 256
    <3>1. second = PackedOctet(x, f, q + 1)
      <4>1. \A j \in Nat : 8 * j < f + 7 * n => OctetAt(o, j + 1) = PackedOctet(x, f, j)
        BY PackedType
      <4> HIDE DEF n, o, q, r
      <4>2. 8 * (q + 1) < f + 7 * n /\ q + 1 \in Nat /\ (q + 1) + 1 = q + 2
        BY <1>1, <1>2, <1>11
      <4> QED BY <4>1, <4>2
    <3>2. u < 6 => Before(f, q + 1) = m + 1 /\ Within(f, q + 1) = u + 1
      <4> HIDE DEF q
      <4> QED BY <1>2, Places
    <3>3. Before(f, q + 1) + 1 = k + 1 /\ Before(f, q + 1) + 2 = k + 2 /\ Within(f, q + 1) = 8 - r /\ 7 - (8 - r) = r - 1
      <4> HIDE DEF m, u, r, q
      <4> QED BY <1>2, <1>6, <1>11, <3>2
    <3> HIDE DEF second, q, r
    <3> QED BY <3>1, <3>3 DEF PackedOctet
  <2> HIDE DEF first, second, r, s, a, b
  <2>4. first \div 2^r = s % 2^(8 - r)
    <3> DEFINE Low(i, c, d, v) == v = ((c \div 2^(7 - i)) + d * 2^i) % 256
                                    => v \div 2^i = d % 2^(8 - i)
    <3>1. \A i \in 2 .. 7 : \A c \in 0 .. 127 : \A d \in 0 .. 127 : \A v : Low(i, c, d, v)
      BY LowBits, ZenonT(60)
    <3>2. Low(r, a, s, first)
      <4> HIDE DEF Low
      <4> QED BY <1>3, <2>1, <3>1
    <3> QED BY <2>2, <3>2
  <2>5. ((s % 2^(8 - r)) + second * 2^(8 - r)) % 128 = s
    <3> DEFINE High(i, c, d, v) == v = ((c \div 2^(8 - i)) + d * 2^(i - 1)) % 256
                                     => ((c % 2^(8 - i)) + v * 2^(8 - i)) % 128 = c
    <3>1. \A i \in 2 .. 7 : \A c \in 0 .. 127 : \A d \in 0 .. 127 : \A v : High(i, c, d, v)
      BY HighBits, ZenonT(60)
    <3>2. High(r, s, b, second)
      <4> HIDE DEF High
      <4> QED BY <1>3, <2>1, <3>1
    <3> QED BY <2>3, <3>2
  <2> QED BY <1>8, <2>4, <2>5
<1> HIDE DEF r
<1> QED BY <1>2, <1>9, <1>10, <1>11

\* What is packed is unpacked: characters of seven bits come through.
LEMMA PackedAndBack ==
  ASSUME NEW x \in Seq(0 .. 127), NEW f \in 0 .. 6
  PROVE  unpack7Bit(pack7Bit(x, f), Len(x), f) = x
<1> DEFINE o == pack7Bit(x, f)
           n == Len(x)
<1>1. x \in Seq(Nat) /\ n \in Nat
  <2>1. 0 .. 127 \subseteq Nat
    OBVIOUS
  <2>2. x \in Seq(Nat)
    BY <2>1, SeqMonotonic, Zenon
  <2>3. n \in Nat
    OBVIOUS
  <2> QED BY <2>2, <2>3
<1>2. unpack7Bit(o, n, f) = UnpackedChars(o, f, n)
  <2>1. o \in Seq(0 .. 255) /\ f + 7 * n <= 8 * Len(o)
    BY <1>1, PackedType
  <2> HIDE DEF o, n
  <2> QED BY <1>1, <2>1, Unpacking
<1>3. ASSUME NEW i \in 1 .. n PROVE Unpacked(o, f, i - 1) = x[i]
  <2>1. i - 1 \in Nat /\ i - 1 < n /\ (i - 1) + 1 = i
    OBVIOUS
  <2>2. Unpacked(o, f, i - 1) = Septet(x, (i - 1) + 1)
    BY <1>1, <2>1, CharBack
  <2>3. x[i] \in 0 .. 127
    BY ElementOfSeq
  <2>4. x[i] % 128 = x[i]
    <3> DEFINE c == x[i]
    <3>1. c \in 0 .. 127
      BY <2>3
    <3> HIDE DEF c
    <3>2. c % 128 = c
      BY <3>1
    <3> QED BY <3>2 DEF c
  <2> QED BY <2>1, <2>2, <2>4 DEF Septet
<1>4. UnpackedChars(o, f, n) = [i \in 1 .. n |-> x[i]]
  BY <1>3 DEF UnpackedChars
<1>5. x = [i \in 1 .. n |-> x[i]]
  OBVIOUS
<1> QED BY <1>2, <1>4, <1>5

Octets == 0 .. 255

-----------------------------------------------------------------------------
(* Characters, digits and hexadecimal digits *)

\* Where `char` is unsigned, a character is decoded as what it can be shown as.
LEMMA Characters ==
  ASSUME NEW c, ~CharIsSigned
  PROVE  EncodeChar(c) \in 0 .. 127 /\ DecodeChar(EncodeChar(c)) = Visible(c)
<1>1. CASE c = 36
  BY <1>1 DEF EncodeChar, DecodeChar, Visible, SameInBoth
<1>2. CASE c = 64
  BY <1>2 DEF EncodeChar, DecodeChar, Visible, SameInBoth
<1>3. CASE c = 95
  BY <1>3 DEF EncodeChar, DecodeChar, Visible, SameInBoth
<1>4. CASE c \in SameInBoth
  <2>1. c \notin {0, 2, 17, 36, 64, 95} /\ c \in 0 .. 127
    BY <1>4 DEF SameInBoth
  <2>2. EncodeChar(c) = c
    <3>1. c # 36 /\ c # 64 /\ c # 95
      BY <2>1
    <3> QED BY <1>4, <3>1 DEF EncodeChar
  <2> QED BY <1>4, <2>1, <2>2 DEF DecodeChar, Visible
<1>5. CASE c \notin SameInBoth \cup {36, 64, 95}
  <2>1. EncodeChar(c) = 63
    BY <1>5 DEF EncodeChar
  <2>2. 63 \in SameInBoth
    BY DEF SameInBoth
  <2> QED BY <1>5, <2>1, <2>2 DEF DecodeChar, Visible
<1> QED BY <1>1, <1>2, <1>3, <1>4, <1>5

LEMMA EncodedType ==
  ASSUME NEW c
  PROVE  EncodeChar(c) \in Octets
<1>1. c \in SameInBoth => c \in Octets
  BY DEF SameInBoth, Octets
<1> QED BY <1>1 DEF EncodeChar, Octets

LEMMA ByteHalves ==
  ASSUME NEW b \in 0 .. 255
  PROVE  b \div 16 \in 0 .. 15 /\ b % 16 \in 0 .. 15 /\ (b \div 16) * 16 + (b % 16) = b
OBVIOUS

LEMMA Nibbles ==
  ASSUME NEW n \in 0 .. 15
  PROVE  nibble2hex(n) \in Nat /\ hexToNibble(nibble2hex(n)) = n
BY DEF nibble2hex, hexToNibble

\* The digits of AT+CMGS and AT+CMGR come through.
LEMMA HexAndBack ==
  ASSUME NEW o \in Seq(Octets)
  PROVE  FromHex(HexOf(o)) = o
<1> DEFINE n == Len(o)
           h == HexOf(o)
<1>1. n \in Nat /\ h = [i \in 1 .. 2 * n |-> byteTohexPair(o[(i + 1) \div 2])[2 - (i % 2)]]
  BY DEF HexOf
<1>2. Len(h) \div 2 = n
  <2> HIDE DEF n, h
  <2>1. Len(h) = 2 * n
    BY <1>1
  <2> QED BY <1>1, <2>1
<1>3. ASSUME NEW i \in 1 .. n PROVE hexPairToByte(h[2*i - 1], h[2*i]) = o[i]
  <2> DEFINE b == o[i]
  <2>1. /\ 2*i - 1 \in 1 .. 2 * n /\ 2*i \in 1 .. 2 * n
        /\ (2*i - 1 + 1) \div 2 = i /\ (2*i + 1) \div 2 = i
        /\ 2 - ((2*i - 1) % 2) = 1 /\ 2 - ((2*i) % 2) = 2
    <3> HIDE DEF n
    <3> QED BY <1>1
  <2>2. h[2*i - 1] = byteTohexPair(b)[1] /\ h[2*i] = byteTohexPair(b)[2]
    <3> HIDE DEF n, h
    <3> QED BY <1>1, <2>1
  <2>3. b \in 0 .. 255
    BY ElementOfSeq DEF Octets
  <2> HIDE DEF b
  <2>4. b \div 16 \in 0 .. 15 /\ b % 16 \in 0 .. 15 /\ (b \div 16) * 16 + (b % 16) = b
    BY <2>3, ByteHalves
  <2>5. byteTohexPair(b)[1] = nibble2hex(b \div 16) /\ byteTohexPair(b)[2] = nibble2hex(b % 16)
    BY DEF byteTohexPair
  <2>6. hexToNibble(nibble2hex(b \div 16)) = b \div 16 /\ hexToNibble(nibble2hex(b % 16)) = b % 16
    BY <2>4, Nibbles
  <2>7. hexPairToByte(h[2*i - 1], h[2*i]) = b
    BY <2>2, <2>4, <2>5, <2>6 DEF hexPairToByte
  <2> QED BY <2>7 DEF b
<1>4. FromHex(h) = [i \in 1 .. n |-> o[i]]
  BY <1>2, <1>3 DEF FromHex
<1>5. o = [i \in 1 .. n |-> o[i]]
  OBVIOUS
<1> QED BY <1>4, <1>5

\* The digits of a telephone number come through.
LEMMA DigitsAndBack ==
  ASSUME NEW d \in Seq(0 .. 9), NEW rest \in Seq(Octets)
  PROVE  LET o == storeBcdDigits(d)
         IN  /\ o \in Seq(Octets) /\ Len(o) = (Len(d) + 1) \div 2
             /\ extractBcdDigits(o \o rest, Len(d)) = d
<1> DEFINE n == Len(d)
           k == (n + 1) \div 2
           o == storeBcdDigits(d)
           all == o \o rest
           high(i) == IF 2*i <= n THEN d[2*i] ELSE 15
<1>1. n \in Nat /\ k \in Nat
  <2>1. n \in Nat
    OBVIOUS
  <2> HIDE DEF n
  <2> QED BY <2>1
<1>2. o = [i \in 1 .. k |-> d[2*i - 1] + 16 * high(i)]
  BY DEF storeBcdDigits
<1>3. ASSUME NEW i \in 1 .. k
      PROVE  /\ d[2*i - 1] \in 0 .. 9 /\ high(i) \in 0 .. 15
             /\ d[2*i - 1] + 16 * high(i) \in 0 .. 255
  <2>1. 2*i - 1 \in 1 .. n /\ (2*i <= n => 2*i \in 1 .. n)
    <3> HIDE DEF n
    <3> QED BY <1>1
  <2>2. d[2*i - 1] \in 0 .. 9
    BY <2>1, ElementOfSeq
  <2>3. 2*i <= n => d[2*i] \in 0 .. 9
    BY <2>1, ElementOfSeq
  <2> DEFINE a == d[2*i - 1]
             b == high(i)
  <2>4. b \in 0 .. 15
    BY <2>3
  <2> HIDE DEF a, b
  <2>5. a \in 0 .. 9
    BY <2>2 DEF a
  <2>6. a + 16 * b \in 0 .. 255
    BY <2>4, <2>5
  <2> QED BY <2>4, <2>5, <2>6 DEF a, b
<1> HIDE DEF o, high
<1>4. o \in Seq(Octets) /\ Len(o) = k
  <2> DEFINE v(i) == d[2*i - 1] + 16 * high(i)
  <2>1. o = [i \in 1 .. k |-> v(i)] /\ \A i \in 1 .. k : v(i) \in Octets
    BY <1>2, <1>3 DEF Octets
  <2> HIDE DEF k, v
  <2> QED BY <1>1, <2>1
<1>5. ASSUME NEW i \in 1 .. k PROVE all[i] = d[2*i - 1] + 16 * high(i)
  <2> HIDE DEF k
  <2>1. i \in 1 .. Len(o) + Len(rest) /\ i <= Len(o)
    <3>1. Len(rest) \in Nat
      OBVIOUS
    <3> QED BY <1>1, <1>4, <3>1
  <2>2. all[i] = o[i]
    BY <1>4, <2>1, ConcatProperties
  <2> QED BY <1>2, <2>2
<1>6. ASSUME NEW i \in 1 .. n
      PROVE  (IF i % 2 = 1 THEN all[(i + 1) \div 2] % 16 ELSE all[i \div 2] \div 16) = d[i]
  <2>1. CASE i % 2 = 1
    <3> DEFINE j == (i + 1) \div 2
    <3>1. j \in 1 .. k /\ 2*j - 1 = i
      <4> HIDE DEF n
      <4> QED BY <1>1, <2>1
    <3> HIDE DEF j
    <3> DEFINE a == d[2*j - 1]
               b == high(j)
    <3>2. all[j] = a + 16 * b /\ a \in 0 .. 9 /\ b \in 0 .. 15
      <4> HIDE DEF k
      <4> QED BY <1>3, <1>5, <3>1
    <3> HIDE DEF a, b
    <3>3. (a + 16 * b) % 16 = a
      BY <3>2
    <3> QED BY <2>1, <3>1, <3>2, <3>3 DEF a, j
  <2>2. CASE i % 2 # 1
    <3> DEFINE j == i \div 2
    <3>1. j \in 1 .. k /\ 2*j = i /\ 2*j <= n
      <4> HIDE DEF n
      <4> QED BY <1>1, <2>2
    <3> HIDE DEF j
    <3> DEFINE a == d[2*j - 1]
               b == high(j)
    <3>2. all[j] = a + 16 * b /\ a \in 0 .. 9 /\ b \in 0 .. 15
      <4> HIDE DEF k
      <4> QED BY <1>3, <1>5, <3>1
    <3>3. b = d[i]
      BY <3>1 DEF high
    <3> HIDE DEF a, b
    <3>4. (a + 16 * b) \div 16 = b
      BY <3>2
    <3> QED BY <2>2, <3>2, <3>3, <3>4 DEF j
  <2> QED BY <2>1, <2>2
<1>7. extractBcdDigits(all, n) = [i \in 1 .. n |-> d[i]]
  BY <1>6 DEF extractBcdDigits
<1>8. d = [i \in 1 .. n |-> d[i]]
  OBVIOUS
<1> QED BY <1>4, <1>7, <1>8 DEF o

-----------------------------------------------------------------------------
(* The text of a call, and of each of its segments *)

Encoded(c) == EncodedComment(c, 0, CommentLen(c)) \o c.data

\* Segment n has what is behind n - 1 full ones.
TextBefore(c, n) == (n - 1) * MaxBytes(c)
TextOf(c, n) == SubSeq(Encoded(c), TextBefore(c, n) + 1,
                       TextBefore(c, n) + Least(Length(c) - TextBefore(c, n), MaxBytes(c)))

CommentAt(c, j) == IF c.encoding = "UCS2" THEN IF j % 2 = 1 THEN 0 ELSE c.comment[j \div 2]
                   ELSE EncodeChar(c.comment[j])

\* A part of the comment, encoded when it is sent, is that part of the encoded comment.
LEMMA CommentPart ==
  ASSUME NEW c \in Calls, NEW from \in Nat, NEW n \in Nat, from + n <= CommentLen(c),
         c.encoding = "UCS2" => from % 2 = 0
  PROVE  /\ EncodedComment(c, from, n) \in Seq(Octets) /\ Len(EncodedComment(c, from, n)) = n
         /\ \A i \in 1 .. n : EncodedComment(c, from, n)[i] = CommentAt(c, from + i)
<1> DEFINE s == c.comment
           k == Len(s)
           e == EncodedComment(c, from, n)
<1>1. s \in Seq(Octets) /\ k \in Nat
  BY OctetsAssumption, LenProperties DEF Octets
<1>2. \A j \in 1 .. k : s[j] \in Octets
  BY <1>1, ElementOfSeq
<1>3. CASE c.encoding = "UCS2"
  <2>1. e = [i \in 1 .. n |-> IF i % 2 = 1 THEN 0 ELSE s[(from + i) \div 2]]
    BY <1>3 DEF EncodedComment
  <2>2. from + n <= 2 * k /\ from % 2 = 0
    BY <1>3 DEF CommentLen
  <2> HIDE DEF s, k, e
  <2>3. ASSUME NEW i \in 1 .. n
        PROVE  /\ (i % 2 = 1) <=> ((from + i) % 2 = 1)
               /\ i % 2 # 1 => (from + i) \div 2 \in 1 .. k
    BY <1>1, <2>2
  <2> DEFINE v(i) == IF i % 2 = 1 THEN 0 ELSE s[(from + i) \div 2]
  <2>4. ASSUME NEW i \in 1 .. n PROVE v(i) \in Octets /\ v(i) = CommentAt(c, from + i)
    <3>1. i % 2 # 1 => s[(from + i) \div 2] \in Octets
      BY <1>2, <2>3
    <3>2. 0 \in Octets
      BY DEF Octets
    <3> QED BY <1>3, <2>3, <3>1, <3>2 DEF CommentAt, s
  <2>5. e = [i \in 1 .. n |-> v(i)]
    BY <2>1
  <2> HIDE DEF v
  <2>6. e \in Seq(Octets) /\ Len(e) = n /\ \A i \in 1 .. n : e[i] = v(i)
    BY <2>4, <2>5
  <2> QED BY <2>4, <2>6 DEF e
<1>4. CASE c.encoding # "UCS2"
  <2> DEFINE t == SubSeq(s, from + 1, from + n)
  <2>1. e = encodeGSM(t)
    BY <1>4 DEF EncodedComment
  <2>2. from + n <= k
    BY <1>4 DEF CommentLen
  <2> HIDE DEF s, k, e
  <2>3. \A j \in from + 1 .. from + n : s[j] \in Octets
    BY <1>1, <1>2, <2>2
  <2>4. Len(t) = n /\ \A i \in 1 .. n : t[i] = s[from + i]
    <3>1. /\ Len(t) = IF from + 1 <= from + n THEN (from + n) - (from + 1) + 1 ELSE 0
          /\ \A i \in 1 .. (from + n) - (from + 1) + 1 : t[i] = s[(from + 1) + i - 1]
      <4>1. from + 1 \in Int /\ from + n \in Int
        OBVIOUS
      <4> QED BY <2>3, <4>1, SubSeqProperties
    <3>2. (from + n) - (from + 1) + 1 = n /\ \A i \in 1 .. n : (from + 1) + i - 1 = from + i
      OBVIOUS
    <3> HIDE DEF t
    <3>3. Len(t) = n
      BY <3>1
    <3> QED BY <3>1, <3>2, <3>3
  <2> HIDE DEF t
  <2>5. e = [i \in 1 .. n |-> EncodeChar(t[i])]
    BY <2>1, <2>4 DEF encodeGSM
  <2>6. \A i \in 1 .. n : EncodeChar(t[i]) \in Octets
    BY EncodedType
  <2>7. e \in Seq(Octets) /\ Len(e) = n /\ \A i \in 1 .. n : e[i] = EncodeChar(t[i])
    BY <2>5, <2>6
  <2> QED BY <1>4, <2>4, <2>7 DEF CommentAt, e, s
<1> QED BY <1>3, <1>4

LEMMA EncodedPlaces ==
  ASSUME NEW c \in Calls
  PROVE  /\ Encoded(c) \in Seq(Octets) /\ Len(Encoded(c)) = Length(c)
         /\ \A j \in 1 .. Length(c) :
              Encoded(c)[j] = IF j <= CommentLen(c) THEN CommentAt(c, j) ELSE c.data[j - CommentLen(c)]
<1> DEFINE m == CommentLen(c)
           e == EncodedComment(c, 0, m)
           d == c.data
<1>1. m \in Nat /\ Len(d) \in Nat /\ Length(c) = m + Len(d)
  BY Sizes
<1>2. e \in Seq(Octets) /\ Len(e) = m /\ \A i \in 1 .. m : e[i] = CommentAt(c, i)
  <2>1. 0 + m <= m /\ 0 % 2 = 0
    BY <1>1
  <2>2. e \in Seq(Octets) /\ Len(e) = m /\ \A i \in 1 .. m : e[i] = CommentAt(c, 0 + i)
    BY <1>1, <2>1, CommentPart
  <2>3. \A i \in 1 .. m : 0 + i = i
    BY <1>1
  <2> QED BY <2>2, <2>3
<1>3. d \in Seq(Octets)
  BY OctetsAssumption DEF Octets
<1> HIDE DEF m, e, d
<1>4. /\ e \o d \in Seq(Octets) /\ Len(e \o d) = m + Len(d)
      /\ \A j \in 1 .. m + Len(d) : (e \o d)[j] = IF j <= m THEN e[j] ELSE d[j - m]
  BY <1>2, <1>3, ConcatProperties
<1>5. \A j \in 1 .. m + Len(d) : j <= m => e[j] = CommentAt(c, j)
  BY <1>1, <1>2
<1>6. Encoded(c) = e \o d
  BY DEF Encoded, e, d, m
<1> QED BY <1>1, <1>4, <1>5, <1>6 DEF m, d

\* The comment comes first.
CommentFirst == Running => messageIdx = 0 \/ commentIdx = CommentLen(Current)

LEMMA CommentFirstGoesOn ==
  ASSUME LogOK, LocalsOK, Cut, CommentFirst, Running, UNCHANGED log,
         commentIdx' = commentIdx + FromComment(Current),
         messageIdx' = messageIdx + FromData(Current)
  PROVE  CommentFirst'
<1> DEFINE c == Current
           m == CommentLen(c)
           max == MaxBytes(c)
           fc == FromComment(c)
           fd == FromData(c)
<1>1. c \in Calls /\ c' = c
  BY CurrentCall DEF Current
<1>2. m \in Nat /\ max \in Nat /\ commentIdx \in 0 .. m /\ messageIdx \in Nat
  BY <1>1, Sizes DEF Cut, LocalsOK
<1>3. fc = Least(m - commentIdx, max) /\ fd = Least(Len(c.data) - messageIdx, max - fc)
  BY DEF FromComment, FromData
<1>4. Len(c.data) \in Nat /\ messageIdx <= Len(c.data)
  BY <1>1, Sizes DEF Cut
<1>5. messageIdx = 0 \/ commentIdx = m
  BY DEF CommentFirst
<1> HIDE DEF c, m, max, fc, fd
<1>6. messageIdx + fd = 0 \/ commentIdx + fc = m
  BY <1>2, <1>3, <1>4, <1>5 DEF Least
<1>7. CommentLen(Current') = m
  BY <1>1 DEF m, c
<1> QED BY <1>6, <1>7 DEF CommentFirst, fc, fd, c

LEMMA SegmentIsText ==
  ASSUME LogOK, LocalsOK, Cut, CommentFirst, Running
  PROVE  /\ Segment(Current) = TextOf(Current, part)
         /\ Segment(Current) \in Seq(Octets) /\ Len(Segment(Current)) <= MaxBytes(Current)
<1> DEFINE c == Current
           m == CommentLen(c)
           l == Length(c)
           max == MaxBytes(c)
           ci == commentIdx
           mi == messageIdx
           fc == FromComment(c)
           fd == FromData(c)
           p == TextBefore(c, part)
           k == Least(l - p, max)
           all == Encoded(c)
           com == EncodedComment(c, ci, fc)
           dat == SubSeq(c.data, mi + 1, mi + fd)
<1>1. c \in Calls
  BY CurrentCall
<1>2. /\ m \in Nat /\ max \in Nat \ {0} /\ l \in Nat /\ Len(c.data) \in Nat /\ l = m + Len(c.data)
      /\ ci \in 0 .. m /\ mi \in 0 .. Len(c.data)
  BY <1>1, Sizes DEF Cut, LocalsOK
<1>3. part \in 1 .. 3 /\ p = ci + mi
  <2>1. ~Refused(c) /\ part \in 1 .. TotalParts(c)
    BY DEF Cut
  <2>2. TotalParts(c) \in 1 .. 3
    BY <1>1, <2>1, Parts
  <2>3. /\ part = 1 => ci + mi = 0
        /\ part = 2 => ci + mi = max
        /\ part = 3 => ci + mi = 2 * max
    BY DEF Cut
  <2>4. p = (part - 1) * max
    BY DEF TextBefore
  <2> HIDE DEF c, p, max
  <2>5. part = 1 \/ part = 2 \/ part = 3
    BY <2>1, <2>2
  <2>6. part = 1 => p = 0
    BY <1>2, <2>4
  <2>7. part = 2 => p = max
    BY <1>2, <2>4
  <2>8. part = 3 => p = 2 * max
    BY <1>2, <2>4
  <2> QED BY <2>3, <2>5, <2>6, <2>7, <2>8
<1>4. /\ fc \in Nat /\ fd \in Nat /\ ci + fc <= m /\ mi + fd <= Len(c.data)
      /\ fc + fd = k
  BY <1>1, <1>3, Taken DEF Cut
<1>5. fc = Least(m - ci, max) /\ fd = Least(Len(c.data) - mi, max - fc)
  BY DEF FromComment, FromData
<1>6. mi = 0 \/ ci = m
  BY DEF CommentFirst
<1>7. c.encoding = "UCS2" => ci % 2 = 0
  <2> SUFFICES ASSUME c.encoding = "UCS2" PROVE ci % 2 = 0
    OBVIOUS
  <2>1. max % 2 = 0
    <3>1. max = MaxOctets \/ max = MaxOctets - 6
      BY DEF MaxBytes, PartSize, Single, HeaderLen
    <3> HIDE DEF max
    <3> QED BY <3>1, OctetsAssumption, SizesAssumption
  <2>2. m % 2 = 0
    <3>1. m = 2 * Len(c.comment)
      BY DEF CommentLen
    <3>2. PICK h \in Nat : h = Len(c.comment)
      BY <1>1, CallsAssumption, LenProperties
    <3> HIDE DEF c, m
    <3>3. m = 2 * h
      BY <3>1, <3>2
    <3> QED BY <3>3
  <2>3. mi = 0 => ci = (part - 1) * max
    BY <1>2, <1>3 DEF TextBefore
  <2> HIDE DEF max, m
  <2>4. part = 1 \/ part = 2 \/ part = 3
    BY <1>3
  <2>5. mi = 0 => ci = 0 \/ ci = max \/ ci = 2 * max
    BY <1>2, <2>3, <2>4
  <2> QED BY <1>2, <1>6, <2>1, <2>2, <2>5
<1>8. /\ com \in Seq(Octets) /\ Len(com) = fc
      /\ \A i \in 1 .. fc : com[i] = CommentAt(c, ci + i)
  <2>1. ci + fc <= m /\ ci \in Nat /\ fc \in Nat
    BY <1>2, <1>4
  <2> HIDE DEF c, ci, fc
  <2> QED BY <1>1, <1>7, <2>1, CommentPart DEF m
<1>9. /\ dat \in Seq(Octets) /\ Len(dat) = fd
      /\ \A i \in 1 .. fd : dat[i] = c.data[mi + i]
  <2> DEFINE d == c.data
  <2>1. d \in Seq(Octets)
    BY <1>1, OctetsAssumption DEF Octets
  <2> HIDE DEF c, d, fd
  <2>2. \A j \in mi + 1 .. mi + fd : d[j] \in Octets
    <3>1. \A j \in mi + 1 .. mi + fd : j \in 1 .. Len(d)
      BY <1>2, <1>4 DEF d
    <3> QED BY <2>1, <3>1, ElementOfSeq
  <2>3. mi + 1 \in Int /\ mi + fd \in Int
    BY <1>2, <1>4
  <2>4. /\ dat \in Seq(Octets)
        /\ Len(dat) = IF mi + 1 <= mi + fd THEN (mi + fd) - (mi + 1) + 1 ELSE 0
        /\ \A i \in 1 .. (mi + fd) - (mi + 1) + 1 : dat[i] = d[(mi + 1) + i - 1]
    BY <2>2, <2>3, SubSeqProperties DEF d
  <2>5. (mi + fd) - (mi + 1) + 1 = fd /\ \A i \in 1 .. fd : (mi + 1) + i - 1 = mi + i
    BY <1>2, <1>4
  <2> HIDE DEF dat
  <2>6. Len(dat) = fd
    BY <1>2, <1>4, <2>4, <2>5
  <2> QED BY <2>4, <2>5, <2>6 DEF d
<1>10. /\ all \in Seq(Octets) /\ Len(all) = l
       /\ \A j \in 1 .. l : all[j] = IF j <= m THEN CommentAt(c, j) ELSE c.data[j - m]
  BY <1>1, EncodedPlaces
<1> DEFINE seg == com \o dat
           txt == SubSeq(all, p + 1, p + k)
<1>11. /\ seg \in Seq(Octets) /\ Len(seg) = fc + fd
       /\ \A i \in 1 .. fc + fd : seg[i] = IF i <= fc THEN com[i] ELSE dat[i - fc]
  <2>1. /\ com \in Seq(Octets) /\ Len(com) = fc /\ dat \in Seq(Octets) /\ Len(dat) = fd
        /\ fc \in Nat /\ fd \in Nat
    BY <1>4, <1>8, <1>9
  <2> HIDE DEF com, dat, fc, fd
  <2>2. /\ com \o dat \in Seq(Octets) /\ Len(com \o dat) = Len(com) + Len(dat)
        /\ \A i \in 1 .. Len(com) + Len(dat) :
             (com \o dat)[i] = IF i <= Len(com) THEN com[i] ELSE dat[i - Len(com)]
    BY <2>1, ConcatProperties
  <2> QED BY <2>1, <2>2
<1> HIDE DEF seg, com, dat, ci, mi
<1>12. k \in 0 .. max /\ p \in Nat /\ p + k <= l
  <2> HIDE DEF ci, mi, c, m, l, max, fc, fd, p
  <2>1. p \in Nat /\ p <= l /\ k \in Nat /\ k = IF l - p < max THEN l - p ELSE max
    BY <1>2, <1>3, <1>4 DEF Least, k
  <2> HIDE DEF k
  <2> QED BY <1>2, <2>1
<1> HIDE DEF k
<1>13. /\ txt \in Seq(Octets) /\ Len(txt) = k
       /\ \A i \in 1 .. k : txt[i] = all[p + i]
  <2> HIDE DEF c, m, l, max, p, all
  <2>1. \A j \in p + 1 .. p + k : all[j] \in Octets
    <3>1. \A j \in p + 1 .. p + k : j \in 1 .. Len(all)
      BY <1>10, <1>12
    <3> QED BY <1>10, <3>1, ElementOfSeq
  <2>2. p + 1 \in Int /\ p + k \in Int
    BY <1>12
  <2>3. /\ txt \in Seq(Octets)
        /\ Len(txt) = IF p + 1 <= p + k THEN (p + k) - (p + 1) + 1 ELSE 0
        /\ \A i \in 1 .. (p + k) - (p + 1) + 1 : txt[i] = all[(p + 1) + i - 1]
    BY <2>1, <2>2, SubSeqProperties
  <2>4. (p + k) - (p + 1) + 1 = k /\ \A i \in 1 .. k : (p + 1) + i - 1 = p + i
    BY <1>12
  <2> HIDE DEF txt
  <2>5. Len(txt) = k
    BY <1>12, <2>3, <2>4
  <2> QED BY <2>3, <2>4, <2>5
<1>14. ASSUME NEW i \in 1 .. k PROVE seg[i] = txt[i]
  <2> HIDE DEF c, m, l, max, fc, fd, p, all, txt
  <2> HIDE DEF ci, mi
  <2>1. txt[i] = all[p + i] /\ p + i \in 1 .. l
    <3>1. l \in Nat /\ k \in Nat
      BY <1>2, <1>12
    <3> QED BY <1>12, <1>13, <3>1
  <2>2. CASE i <= fc
    <3>1. p + i = ci + i /\ p + i <= m
      BY <1>2, <1>3, <1>4, <1>5, <1>6, <1>12, <2>2 DEF Least
    <3>2. seg[i] = CommentAt(c, ci + i)
      BY <1>4, <1>8, <1>11, <2>2
    <3> QED BY <1>10, <2>1, <3>1, <3>2
  <2>3. CASE i > fc
    <3>0. fc = IF m - ci < max THEN m - ci ELSE max
      BY <1>5 DEF Least
    <3>1. ci + fc = m
      <4>1. fc < max
        BY <1>2, <1>4, <1>12, <2>3
      <4> QED BY <1>2, <3>0, <4>1
    <3>2. i - fc \in 1 .. fd /\ ~(p + i <= m) /\ p + i - m = mi + (i - fc)
      BY <1>2, <1>3, <1>4, <1>12, <2>3, <3>1
    <3>3. seg[i] = c.data[mi + (i - fc)]
      BY <1>4, <1>9, <1>11, <2>3, <3>2
    <3>4. all[p + i] = c.data[p + i - m]
      <4> PICK j \in 1 .. l : j = p + i
        BY <2>1
      <4>1. ~(j <= m)
        BY <3>2
      <4>2. all[j] = c.data[j - m]
        BY <1>10, <4>1
      <4>3. p + i - m = j - m
        BY <1>2, <1>12
      <4> QED BY <4>2, <4>3
    <3> QED BY <2>1, <3>2, <3>3, <3>4
  <2>4. i <= fc \/ i > fc
    BY <1>4
  <2> QED BY <2>2, <2>3, <2>4
<1>15. seg = txt /\ Len(seg) <= max
  <2> HIDE DEF c, m, l, max, fc, fd, p, all, txt
  <2>1. Len(seg) = k
    BY <1>4, <1>11
  <2>2. seg = txt
    BY <1>11, <1>13, <1>14, <2>1, SameElements
  <2> QED BY <1>2, <1>12, <2>1, <2>2
<1>16. Segment(c) = seg
  BY DEF Segment, seg, com, dat, ci, mi
<1>17. TextOf(c, part) = txt
  BY DEF TextOf, k
<1> HIDE DEF c, txt, max
<1> QED BY <1>11, <1>15, <1>16, <1>17 DEF c, max

-----------------------------------------------------------------------------
(* The PDU of a segment *)

\* What is behind the first part of a sequence is the second part.
LEMMA Behind ==
  ASSUME NEW S, NEW s \in Seq(S), NEW t \in Seq(S), NEW n, n = Len(s) + 1
  PROVE  SubSeq(s \o t, n, Len(s \o t)) = t
<1> DEFINE st == s \o t
           a == Len(s)
           b == Len(t)
           sub == SubSeq(st, n, Len(st))
<1>1. a \in Nat /\ b \in Nat
  OBVIOUS
<1>2. /\ st \in Seq(S) /\ Len(st) = a + b
      /\ \A i \in 1 .. a + b : st[i] = IF i <= a THEN s[i] ELSE t[i - a]
  BY ConcatProperties
<1>3. n = a + 1
  OBVIOUS
<1> HIDE DEF st, a, b
<1>4. \A i \in n .. a + b : st[i] \in S
  <2>1. \A i \in n .. a + b : i \in 1 .. Len(st)
    BY <1>1, <1>2, <1>3
  <2> QED BY <1>2, <2>1, ElementOfSeq
<1>5. /\ sub \in Seq(S) /\ Len(sub) = IF n <= a + b THEN (a + b) - n + 1 ELSE 0
      /\ \A i \in 1 .. (a + b) - n + 1 : sub[i] = st[n + i - 1]
  <2>1. n \in Int /\ a + b \in Int
    BY <1>1, <1>3
  <2>2. sub = SubSeq(st, n, a + b)
    BY <1>2
  <2> HIDE DEF sub
  <2> QED BY <1>4, <2>1, <2>2, SubSeqProperties
<1> HIDE DEF sub
<1>6. Len(sub) = b
  BY <1>1, <1>3, <1>5
<1>7. ASSUME NEW i \in 1 .. b PROVE sub[i] = t[i]
  <2>1. i \in 1 .. (a + b) - n + 1
    BY <1>1, <1>3
  <2>2. sub[i] = st[n + i - 1]
    BY <1>5, <2>1
  <2> DEFINE j == n + i - 1
  <2>3. j \in 1 .. a + b /\ ~(j <= a) /\ j - a = i
    BY <1>1, <1>3
  <2> HIDE DEF j
  <2>4. st[j] = t[j - a]
    BY <1>2, <2>3
  <2> QED BY <2>2, <2>3, <2>4 DEF j
<1> QED BY <1>5, <1>6, <1>7, SameElements DEF sub, st, b

Associative(p, q, r) == (p \o q) \o r = p \o (q \o r)

LEMMA Regrouped ==
  \A S : \A p \in Seq(S) : \A q \in Seq(S) : \A r \in Seq(S) : Associative(p, q, r) /\ p \o q \in Seq(S)
BY ConcatAssociative, ConcatProperties, SMTT(30) DEF Associative

HeaderOf(c, reference, sequence) ==
  IF Multipart(c) THEN UserDataHeader(reference, TotalParts(c), sequence) ELSE <<>>
CodedText(c, text) ==
  IF c.encoding = "GSM" THEN pack7Bit(text, FillBits(Multipart(c))) ELSE text
UserOf(c, reference, sequence, text) == HeaderOf(c, reference, sequence) \o CodedText(c, text)

Dcs(c) == IF c.encoding = "UCS2" THEN 8 ELSE 0

\* The octets of a text fit behind its header.
LEMMA CodedFits ==
  ASSUME NEW c \in Calls, NEW text \in Seq(Octets), Len(text) <= MaxBytes(c)
  PROVE  /\ CodedText(c, text) \in Seq(Octets)
         /\ Len(CodedText(c, text)) <= MaxOctets - (IF Multipart(c) THEN HeaderLen ELSE 0)
<1> DEFINE n == Len(text)
           o == CodedText(c, text)
           f == FillBits(Multipart(c))
<1>1. n \in Nat
  OBVIOUS
<1>2. MaxOctets \in Nat /\ MaxOctets >= 14 /\ (MaxOctets - 6) % 7 # 0
  BY SizesAssumption, OctetsAssumption DEF HeaderLen
<1>3. CASE c.encoding = "GSM"
  <2>1. f \in 0 .. 6 /\ f = IF Multipart(c) THEN 1 ELSE 0
    BY DEF FillBits
  <2>2. o \in Seq(0 .. 255) /\ Len(o) = PackedLen(n, f)
    <3>1. Octets \subseteq Nat
      BY DEF Octets
    <3>2. text \in Seq(Nat)
      BY <3>1, SeqMonotonic, Zenon
    <3>3. o = pack7Bit(text, f)
      BY <1>3 DEF CodedText
    <3> HIDE DEF o, f
    <3> QED BY <2>1, <3>2, <3>3, PackedType
  <2> HIDE DEF o, f, n
  <2>3. CASE Multipart(c)
    <3>1. f = 1 /\ n <= (8 * (MaxOctets - 6)) \div 7
      BY <1>3, <2>1, <2>3 DEF MaxBytes, PartSize, CharsIn, HeaderLen, n
    <3> DEFINE m == MaxOctets - 6
    <3>2. m \in Nat /\ m % 7 # 0 /\ n <= (8 * m) \div 7
      BY <1>2, <3>1
    <3> HIDE DEF m
    <3>3. (1 + 7 * n + 7) \div 8 <= m
      <4>1. 7 * n <= 8 * m /\ 7 * n # 8 * m
        BY <1>1, <3>2
      <4> QED BY <1>1, <3>2, <4>1
    <3>4. Len(o) <= m
      BY <1>1, <2>2, <3>1, <3>3 DEF PackedLen
    <3> QED BY <2>2, <2>3, <3>4 DEF m, HeaderLen, Octets, o
  <2>4. CASE ~Multipart(c)
    <3>1. f = 0 /\ n <= (8 * MaxOctets) \div 7
      BY <1>3, <2>1, <2>4 DEF MaxBytes, Single, CharsIn, n
    <3>2. (7 * n + 7) \div 8 <= MaxOctets
      BY <1>1, <1>2, <3>1
    <3>3. Len(o) <= MaxOctets
      BY <1>1, <1>2, <2>2, <3>1, <3>2 DEF PackedLen
    <3> QED BY <1>2, <2>2, <2>4, <3>3 DEF Octets, o
  <2> QED BY <2>3, <2>4
<1>4. CASE c.encoding # "GSM"
  <2>1. o = text
    BY <1>4 DEF CodedText
  <2>2. MaxBytes(c) = MaxOctets - (IF Multipart(c) THEN HeaderLen ELSE 0)
    BY <1>2, <1>4 DEF MaxBytes, PartSize, Single
  <2> QED BY <2>1, <2>2
<1> QED BY <1>3, <1>4

\* The header of a segment, and the length of its user data in characters, are octets.
LEMMA HeaderFits ==
  ASSUME NEW c \in Calls, ~Refused(c), NEW reference \in 0 .. References - 1,
         NEW sequence \in 1 .. TotalParts(c)
  PROVE  /\ HeaderOf(c, reference, sequence) \in Seq(Octets)
         /\ Len(HeaderOf(c, reference, sequence)) = IF Multipart(c) THEN HeaderLen ELSE 0
<1>1. TotalParts(c) \in 1 .. 3
  BY Parts
<1>2. {5, 0, 3, reference, TotalParts(c), sequence} \subseteq Octets
  BY <1>1, OctetsAssumption, SizesAssumption DEF Octets
<1>3. UserDataHeader(reference, TotalParts(c), sequence) \in Seq(Octets)
  BY <1>2 DEF UserDataHeader
<1>4. Len(UserDataHeader(reference, TotalParts(c), sequence)) = HeaderLen
  BY DEF UserDataHeader, HeaderLen
<1>5. <<>> \in Seq(Octets) /\ Len(<<>>) = 0
  OBVIOUS
<1>6. CASE Multipart(c)
  BY <1>3, <1>4, <1>6 DEF HeaderOf
<1>7. CASE ~Multipart(c)
  BY <1>5, <1>7 DEF HeaderOf
<1> QED BY <1>6, <1>7

LEMMA LengthFits ==
  ASSUME NEW c \in Calls, NEW n \in Nat, n <= MaxBytes(c)
  PROVE  UserDataLength(c, n) \in Octets
<1>1. MaxOctets \in Nat /\ MaxOctets >= 14
  BY SizesAssumption
<1>2. (8 * MaxOctets) \div 7 <= 255 /\ (MaxOctets - 6) % 7 # 0
  BY OctetsAssumption DEF CharsIn, HeaderLen
<1>3. CASE c.encoding = "GSM" /\ Multipart(c)
  <2>1. n <= (8 * (MaxOctets - 6)) \div 7 /\ UserDataLength(c, n) = n + 7
    BY <1>3 DEF MaxBytes, PartSize, CharsIn, HeaderLen, UserDataLength
  <2>2. n + 7 \in 0 .. 255
    BY <1>1, <1>2, <2>1
  <2> QED BY <2>1, <2>2 DEF Octets
<1>4. CASE c.encoding = "GSM" /\ ~Multipart(c)
  <2>1. n <= (8 * MaxOctets) \div 7 /\ UserDataLength(c, n) = n
    BY <1>4 DEF MaxBytes, Single, CharsIn, UserDataLength
  <2> QED BY <1>1, <1>2, <2>1 DEF Octets
<1>5. CASE c.encoding # "GSM"
  <2>1. n <= MaxOctets - (IF Multipart(c) THEN 6 ELSE 0)
    BY <1>1, <1>5 DEF MaxBytes, PartSize, Single, HeaderLen
  <2>2. UserDataLength(c, n) = n + (IF Multipart(c) THEN 6 ELSE 0)
    BY <1>5 DEF UserDataLength, HeaderLen
  <2>3. MaxOctets <= 255
    BY <1>1, <1>2
  <2> QED BY <1>1, <2>1, <2>2, <2>3 DEF Octets
<1> QED BY <1>3, <1>4, <1>5

LEMMA UserFits ==
  ASSUME NEW c \in Calls, ~Refused(c), NEW reference \in 0 .. References - 1,
         NEW sequence \in 1 .. TotalParts(c), NEW text \in Seq(Octets), Len(text) <= MaxBytes(c)
  PROVE  /\ UserOf(c, reference, sequence, text) \in Seq(Octets)
         /\ Len(UserOf(c, reference, sequence, text)) <= MaxOctets
<1> DEFINE u == HeaderOf(c, reference, sequence)
           v == CodedText(c, text)
<1>1. u \in Seq(Octets) /\ Len(u) = IF Multipart(c) THEN HeaderLen ELSE 0
  BY HeaderFits
<1>2. v \in Seq(Octets) /\ Len(v) <= MaxOctets - (IF Multipart(c) THEN HeaderLen ELSE 0)
  BY CodedFits
<1>3. UserOf(c, reference, sequence, text) = u \o v
  BY DEF UserOf
<1> HIDE DEF u, v
<1>4. u \o v \in Seq(Octets) /\ Len(u \o v) = Len(u) + Len(v)
  BY <1>1, <1>2, ConcatProperties
<1>5. Len(u) \in Nat /\ Len(v) \in Nat
  BY <1>1, <1>2, LenProperties
<1> QED BY <1>1, <1>2, <1>3, <1>4, <1>5, SizesAssumption DEF HeaderLen

LEMMA Submitted ==
  ASSUME NEW c \in Calls, ~Refused(c), NEW reference \in 0 .. References - 1,
         NEW sequence \in 1 .. TotalParts(c), NEW text \in Seq(Octets), Len(text) <= MaxBytes(c)
  PROVE  LET p == Submit(c, reference, sequence, text)
             user == UserOf(c, reference, sequence, text)
         IN  /\ p \in Seq(Octets)
             /\ FirstUserOctet(p) = 6 + (Len(c.to.digits) + 1) \div 2
             /\ Len(p) = FirstUserOctet(p) + 2 + Len(user)
             /\ p[2] = IF Multipart(c) THEN 65 ELSE 1
             /\ p[4] = Len(c.to.digits)
             /\ p[FirstUserOctet(p) + 1] = Dcs(c)
             /\ SubSeq(p, FirstUserOctet(p) + 2, Len(p)) = <<UserDataLength(c, Len(text))>> \o user
             /\ extractBcdDigits(SubSeq(p, 6, Len(p)), p[4]) = c.to.digits
<1> DEFINE n == Len(c.to.digits)
           flags == IF Multipart(c) THEN 65 ELSE 1
           type == IF c.to.plus THEN 145 ELSE 129
           udl == UserDataLength(c, Len(text))
           dcs == Dcs(c)
           a == <<0, flags, 0, n, type>>
           b == storeBcdDigits(c.to.digits)
           d == <<0, dcs, udl>>
           u == HeaderOf(c, reference, sequence)
           v == CodedText(c, text)
           user == UserOf(c, reference, sequence, text)
           p == Submit(c, reference, sequence, text)
           h == (n + 1) \div 2
<1>1. c.to.digits \in Seq(0 .. 9) /\ n \in Nat /\ n <= 255
  <2>1. c.to.digits \in Seq(0 .. 9) /\ n <= SenderSize
    BY OctetsAssumption
  <2> QED BY <2>1, OctetsAssumption, SizesAssumption, LenProperties
<1>2. h \in Nat
  <2> HIDE DEF n
  <2> QED BY <1>1
<1>3. udl \in Octets
  <2>1. Len(text) \in Nat
    OBVIOUS
  <2> QED BY <2>1, LengthFits
<1>4. 0 \in Octets /\ dcs \in Octets /\ flags \in Octets /\ type \in Octets /\ n \in Octets
  <2>1. flags = 65 \/ flags = 1
    OBVIOUS
  <2>2. type = 145 \/ type = 129
    OBVIOUS
  <2>3. dcs = 8 \/ dcs = 0
    BY DEF Dcs
  <2> HIDE DEF flags, type, dcs, n
  <2> QED BY <1>1, <2>1, <2>2, <2>3 DEF Octets
<1>5. u \in Seq(Octets)
  BY HeaderFits
<1>6. v \in Seq(Octets)
  BY CodedFits
<1>7. user = u \o v /\ user \in Seq(Octets)
  BY UserFits DEF UserOf
<1>8. \A rest \in Seq(Octets) : b \in Seq(Octets) /\ Len(b) = h /\ extractBcdDigits(b \o rest, n) = c.to.digits
  BY <1>1, DigitsAndBack
<1>9. p = (((a \o b) \o d) \o u) \o v
  BY DEF Submit, HeaderOf, CodedText, Dcs
<1> HIDE DEF n, flags, type, udl, dcs, b, u, v, user, p, h
<1>10. a \in Seq(Octets) /\ Len(a) = 5 /\ a[2] = flags /\ a[4] = n
  BY <1>4
<1>11. d \in Seq(Octets) /\ Len(d) = 3 /\ d[2] = dcs
  BY <1>3, <1>4
<1>12. b \in Seq(Octets) /\ Len(b) = h
  BY <1>6, <1>8
<1> DEFINE x == <<0, dcs>>
           y == <<udl>>
           ab == a \o b
           tail == y \o user
           mid == x \o tail
<1>13. x \in Seq(Octets) /\ y \in Seq(Octets) /\ d = x \o y /\ Len(x) = 2 /\ x[2] = dcs
  BY <1>3, <1>4
<1> HIDE DEF a, d, x, y
<1>14. ab \in Seq(Octets) /\ Len(ab) = 5 + h /\ ab[2] = flags /\ ab[4] = n
  <2>1. /\ ab \in Seq(Octets) /\ Len(ab) = Len(a) + Len(b)
        /\ \A i \in 1 .. Len(a) + Len(b) : ab[i] = IF i <= Len(a) THEN a[i] ELSE b[i - Len(a)]
    BY <1>10, <1>12, ConcatProperties
  <2> HIDE DEF ab
  <2>2. \A i \in 1 .. 5 : ab[i] = a[i]
    BY <1>2, <1>10, <1>12, <2>1
  <2> QED BY <1>10, <1>12, <2>1, <2>2
<1>15. tail \in Seq(Octets) /\ mid \in Seq(Octets)
  BY <1>7, <1>13, Regrouped, Zenon
<1>16. d \o user = mid
  <2>1. Associative(x, y, user)
    BY <1>7, <1>13, Regrouped, Zenon
  <2> QED BY <1>13, <2>1, Zenon DEF Associative
<1> HIDE DEF ab
<1>17. p = ab \o mid
  <2>1. ab \o d \in Seq(Octets) /\ Associative(ab, d, user)
    BY <1>7, <1>11, <1>14, Regrouped, Zenon
  <2>2. Associative(ab \o d, u, v)
    BY <1>5, <1>6, <2>1, Regrouped, Zenon
  <2>3. p = ((ab \o d) \o u) \o v
    BY <1>9 DEF ab
  <2>4. p = (ab \o d) \o (u \o v)
    BY <2>2, <2>3, Zenon DEF Associative
  <2>5. p = (ab \o d) \o user
    BY <1>7, <2>4, Zenon
  <2>6. p = ab \o (d \o user)
    BY <2>1, <2>5, Zenon DEF Associative
  <2> QED BY <1>16, <2>6, Zenon
<1>18. p = a \o (b \o mid)
  <2>1. Associative(a, b, mid)
    BY <1>10, <1>12, <1>15, Regrouped, Zenon
  <2> QED BY <1>17, <2>1, Zenon DEF Associative, ab
<1>19. p = (ab \o x) \o tail
  <2>1. Associative(ab, x, tail)
    BY <1>13, <1>14, <1>15, Regrouped, Zenon
  <2> QED BY <1>17, <2>1, Zenon DEF Associative
<1> HIDE DEF tail, mid
<1> DEFINE abx == ab \o x
<1>20. /\ abx \in Seq(Octets) /\ Len(abx) = 7 + h
       /\ abx[2] = flags /\ abx[4] = n /\ abx[7 + h] = dcs
  <2>1. /\ abx \in Seq(Octets) /\ Len(abx) = Len(ab) + Len(x)
        /\ \A i \in 1 .. Len(ab) + Len(x) : abx[i] = IF i <= Len(ab) THEN ab[i] ELSE x[i - Len(ab)]
    BY <1>13, <1>14, ConcatProperties
  <2> HIDE DEF abx
  <2>2. abx[2] = ab[2] /\ abx[4] = ab[4]
    BY <1>2, <1>13, <1>14, <2>1
  <2>3. 7 + h \in 1 .. Len(ab) + Len(x) /\ ~(7 + h <= Len(ab)) /\ (7 + h) - Len(ab) = 2
    BY <1>2, <1>13, <1>14
  <2>4. abx[7 + h] = x[2]
    BY <2>1, <2>3
  <2> QED BY <1>2, <1>13, <1>14, <2>1, <2>2, <2>4
<1> HIDE DEF abx
<1>21. p = abx \o tail
  BY <1>19 DEF abx
<1>22. Len(tail) = 1 + Len(user) /\ Len(user) \in Nat
  <2>1. Len(y) = 1
    BY DEF y
  <2>2. Len(tail) = Len(y) + Len(user)
    BY <1>7, <1>13, ConcatProperties DEF tail
  <2> QED BY <1>7, <2>1, <2>2
<1>23. /\ p \in Seq(Octets) /\ Len(p) = 8 + h + Len(user)
       /\ p[2] = flags /\ p[4] = n /\ p[7 + h] = dcs
  <2>1. /\ p \in Seq(Octets) /\ Len(p) = Len(abx) + Len(tail)
        /\ \A i \in 1 .. Len(abx) + Len(tail) : p[i] = IF i <= Len(abx) THEN abx[i] ELSE tail[i - Len(abx)]
    BY <1>15, <1>20, <1>21, ConcatProperties
  <2>2. \A i \in 1 .. 7 + h : p[i] = abx[i]
    BY <1>2, <1>20, <1>22, <2>1, SMTT(30)
  <2>3. 2 \in 1 .. 7 + h /\ 4 \in 1 .. 7 + h /\ 7 + h \in 1 .. 7 + h
    BY <1>2
  <2> QED BY <1>2, <1>20, <1>22, <2>1, <2>2, <2>3
<1>24. FirstUserOctet(p) = 6 + h
  BY <1>23 DEF FirstUserOctet, h
<1>25. SubSeq(p, 8 + h, Len(p)) = y \o user
  <2>1. 8 + h = Len(abx) + 1
    BY <1>2, <1>20
  <2>2. SubSeq(abx \o tail, 8 + h, Len(abx \o tail)) = tail
    BY <1>15, <1>20, <2>1, Behind
  <2> QED BY <1>21, <2>2 DEF tail
<1>26. extractBcdDigits(SubSeq(p, 6, Len(p)), n) = c.to.digits
  <2> DEFINE bm == b \o mid
  <2>1. bm \in Seq(Octets)
    BY <1>12, <1>15, ConcatProperties
  <2> HIDE DEF bm
  <2>2. 6 = Len(a) + 1
    BY <1>10
  <2>3. SubSeq(a \o bm, 6, Len(a \o bm)) = bm
    BY <1>10, <2>1, <2>2, Behind
  <2> QED BY <1>8, <1>15, <1>18, <2>3 DEF bm
<1>27. FirstUserOctet(p) + 1 = 7 + h /\ FirstUserOctet(p) + 2 = 8 + h
  BY <1>2, <1>24
<1>28. Len(p) = FirstUserOctet(p) + 2 + Len(user)
  BY <1>2, <1>22, <1>23, <1>24
<1>29. FirstUserOctet(p) = 6 + (Len(c.to.digits) + 1) \div 2
  BY <1>24 DEF h, n
<1> QED BY <1>23, <1>25, <1>26, <1>27, <1>28, <1>29 DEF p, user, y, udl, n, dcs, flags

-----------------------------------------------------------------------------
(* What the network has are the segments of the text *)

LEMMA TextPlaces ==
  ASSUME NEW c \in Calls, ~Refused(c), NEW n \in 1 .. TotalParts(c)
  PROVE  LET before == TextBefore(c, n)
             k == Least(Length(c) - before, MaxBytes(c))
         IN  /\ before \in Nat /\ k \in 0 .. MaxBytes(c) /\ before + k <= Length(c)
             /\ TextOf(c, n) \in Seq(Octets) /\ Len(TextOf(c, n)) = k
             /\ \A i \in 1 .. k : TextOf(c, n)[i] = Encoded(c)[before + i]
<1> DEFINE max == MaxBytes(c)
           l == Length(c)
           p == TextBefore(c, n)
           k == Least(l - p, max)
           all == Encoded(c)
           txt == TextOf(c, n)
<1>1. max \in Nat \ {0} /\ l \in Nat
  BY Sizes
<1>2. p \in Nat /\ p <= l
  <2> DEFINE t == TotalParts(c)
  <2>1. /\ t \in 1 .. 3
        /\ t = 2 => l > max
        /\ t = 3 => l > 2 * max
    BY Parts
  <2>2. p = (n - 1) * max /\ n \in 1 .. t
    BY DEF TextBefore
  <2> HIDE DEF max, l, p, t
  <2>3. n = 1 \/ n = 2 \/ n = 3
    BY <2>1, <2>2
  <2>4. (n = 1 => p = 0) /\ (n = 2 => p = max) /\ (n = 3 => p = 2 * max)
    BY <1>1, <2>2
  <2> QED BY <1>1, <2>1, <2>2, <2>3, <2>4
<1>3. all \in Seq(Octets) /\ Len(all) = l
  BY EncodedPlaces
<1>4. txt = SubSeq(all, p + 1, p + k)
  BY DEF TextOf
<1>5. k = IF l - p < max THEN l - p ELSE max
  BY DEF Least
<1> HIDE DEF max, l, p, k, all, txt
<1>6. k \in 0 .. max /\ p + k <= l
  BY <1>1, <1>2, <1>5
<1>7. /\ txt \in Seq(Octets) /\ Len(txt) = k
      /\ \A i \in 1 .. k : txt[i] = all[p + i]
  <2>1. \A j \in p + 1 .. p + k : all[j] \in Octets
    <3>1. \A j \in p + 1 .. p + k : j \in 1 .. Len(all)
      BY <1>1, <1>2, <1>3, <1>6
    <3> QED BY <1>3, <3>1, ElementOfSeq
  <2>2. p + 1 \in Int /\ p + k \in Int
    BY <1>1, <1>2, <1>6
  <2>3. /\ txt \in Seq(Octets)
        /\ Len(txt) = IF p + 1 <= p + k THEN (p + k) - (p + 1) + 1 ELSE 0
        /\ \A i \in 1 .. (p + k) - (p + 1) + 1 : txt[i] = all[(p + 1) + i - 1]
    BY <1>4, <2>1, <2>2, SubSeqProperties
  <2>4. (p + k) - (p + 1) + 1 = k /\ \A i \in 1 .. k : (p + 1) + i - 1 = p + i
    BY <1>1, <1>2, <1>6
  <2>5. Len(txt) = k
    BY <1>1, <1>2, <1>6, <2>3
  <2> QED BY <2>3, <2>4, <2>5
<1> QED BY <1>2, <1>6, <1>7 DEF max, l, p, k, all, txt

IsSegment(c, reference, a) ==
  /\ ~Refused(c) /\ a.sequence \in 1 .. TotalParts(c)
  /\ a.pdu = Submit(c, reference, a.sequence, TextOf(c, a.sequence))

AirHas == \A a \in air : IsSegment(log[a.id].call, log[a.id].reference, a)

InboxOK == inbox = Nothing \/ inbox.msg = DecodePdu(FromHex(HexOf(inbox.pdu)))

PduInv == CommentFirst /\ AirHas /\ InboxOK

LEMMA InitPduInv == Init => PduInv
BY DEF Init, PduInv, CommentFirst, Running, AirHas, InboxOK

\* A call adds to the log what no PDU belongs to.
LEMMA CallsPduInv ==
  ASSUME IInv, PduInv, ~Running, NEW c \in Calls, IF Refused(c) THEN Refuse(c) ELSE Begin(c)
  PROVE  PduInv'
<1>1. PICK r \in {"running", "false"} :
        /\ log' = Append(log, Entry(c, r)) /\ UNCHANGED air /\ inbox' = Nothing
        /\ r = "running" => messageIdx' = 0
        /\ messageReference' \in 0 .. References - 1
  <2>1. CASE Refused(c)
    BY <2>1, CallsReference DEF Refuse, IInv
  <2>2. CASE ~Refused(c)
    BY <2>2, CallsReference DEF Begin, IInv
  <2> QED BY <2>1, <2>2
<1>2. /\ Len(log) \in Nat /\ Len(log') = Len(log) + 1
      /\ \A i \in 1 .. Len(log) : log'[i] = log[i]
      /\ log'[Len(log) + 1] = Entry(c, r)
  BY <1>1, Appended DEF IInv, Results
<1>3. CommentFirst'
  BY <1>1, <1>2 DEF CommentFirst, Running, Entry
<1>4. AirHas'
  <2>1. \A a \in air : log'[a.id] = log[a.id]
    BY <1>2 DEF IInv, AirOK
  <2> QED BY <1>1, <2>1 DEF PduInv, AirHas, IsSegment
<1> QED BY <1>1, <1>3, <1>4 DEF PduInv, InboxOK

LEMMA GiveUpPduInv ==
  ASSUME IInv, PduInv, GiveUp
  PROVE  PduInv'
<1>1. Running /\ Return("false") /\ UNCHANGED <<messageReference, locals, air, inbox>>
  BY DEF GiveUp, NothingLeft
<1>2. /\ ~Running'
      /\ \A i \in 1 .. Len(log) : log'[i].call = log[i].call /\ log'[i].reference = log[i].reference
  BY <1>1, Returned DEF IInv
<1>3. AirHas'
  BY <1>1, <1>2 DEF PduInv, AirHas, IInv, AirOK
<1>4. InboxOK'
  BY <1>1 DEF PduInv, InboxOK
<1> QED BY <1>2, <1>3, <1>4 DEF PduInv, CommentFirst

\* The PDU of the running call's segment is taken, or not.
LEMMA SendSinglePduInv ==
  ASSUME IInv, PduInv, sendSingle
  PROVE  PduInv'
<1> DEFINE last == Len(log)
           c == Current
           ref == log[last].reference
           pdu == FromHex(HexOf(Submit(c, ref, part, Segment(c))))
           new == [id |-> last, sequence |-> part, pdu |-> pdu]
<1>1. Running /\ UNCHANGED <<messageReference, inbox>>
  BY DEF sendSingle
<1>2. PICK outcome \in Outcomes :
        air' = (IF outcome.sent THEN air \cup {new} ELSE air) /\ Proceed(c, outcome.ok)
  BY DEF sendSingle
<1>3. last \in Nat \ {0} /\ c \in Calls /\ ref \in 0 .. References - 1 /\ log[last].call = c
  BY <1>1, CurrentCall DEF IInv, Entries, Current
<1>4. ~Refused(c) /\ part \in 1 .. TotalParts(c)
  BY <1>1 DEF IInv, Cut
<1>5. pdu = Submit(c, ref, part, TextOf(c, part))
  <2> DEFINE text == Segment(c)
             p == Submit(c, ref, part, text)
  <2>1. text = TextOf(c, part) /\ text \in Seq(Octets) /\ Len(text) <= MaxBytes(c)
    BY <1>1, SegmentIsText DEF IInv, PduInv
  <2>2. p \in Seq(Octets)
    <3> HIDE DEF c, ref, text
    <3> QED BY <1>3, <1>4, <2>1, Submitted
  <2>3. pdu = FromHex(HexOf(p))
    OBVIOUS
  <2> HIDE DEF p
  <2>4. pdu = p
    BY <2>2, <2>3, HexAndBack
  <2> QED BY <2>1, <2>4 DEF p
<1> HIDE DEF pdu
<1>6. IsSegment(log[new.id].call, log[new.id].reference, new)
  BY <1>3, <1>4, <1>5 DEF IsSegment
<1>7. new.id \in 1 .. last
  BY <1>3
<1> HIDE DEF new, last, ref
<1>8. \A a \in air' : a.id \in 1 .. last /\ IsSegment(log[a.id].call, log[a.id].reference, a)
  BY <1>2, <1>6, <1>7 DEF PduInv, AirHas, IInv, AirOK, last
<1>9. InboxOK'
  BY <1>1 DEF PduInv, InboxOK
<1>10. CASE outcome.ok /\ part < TotalParts(c)
  <2>1. /\ UNCHANGED log
        /\ commentIdx' = commentIdx + FromComment(c)
        /\ messageIdx' = messageIdx + FromData(c)
    BY <1>2, <1>10 DEF Proceed
  <2>2. CommentFirst'
    BY <1>1, <2>1, CommentFirstGoesOn DEF IInv, PduInv
  <2>3. AirHas'
    BY <1>8, <2>1 DEF AirHas
  <2> QED BY <1>9, <2>2, <2>3 DEF PduInv
<1>11. CASE ~(outcome.ok /\ part < TotalParts(c))
  <2>1. PICK r \in {"true", "false"} : Return(r)
    BY <1>2, <1>11 DEF Proceed
  <2>2. /\ ~Running'
        /\ \A i \in 1 .. last : log'[i].call = log[i].call /\ log'[i].reference = log[i].reference
    BY <1>1, <2>1, Returned DEF IInv, last
  <2>3. AirHas'
    BY <1>8, <2>2 DEF AirHas
  <2> QED BY <1>9, <2>2, <2>3 DEF PduInv, CommentFirst
<1> QED BY <1>10, <1>11

LEMMA ReadPduInv ==
  ASSUME IInv, PduInv, UNCHANGED <<messageReference, log, locals, air>>,
         InboxOK'
  PROVE  PduInv'
<1>1. CommentFirst'
  BY DEF PduInv, CommentFirst, Running, Current, locals
<1>2. AirHas'
  BY DEF PduInv, AirHas
<1> QED BY <1>1, <1>2 DEF PduInv

LEMMA NextPduInv == IInv /\ PduInv /\ [Next]_vars => PduInv'
<1> SUFFICES ASSUME IInv, PduInv, [Next]_vars PROVE PduInv'
  OBVIOUS
<1>1. CASE send \/ sendWithComment
  <2>1. PICK c \in Calls : ~Running /\ (IF Refused(c) THEN Refuse(c) ELSE Begin(c))
    BY <1>1 DEF send, sendWithComment, May
  <2> QED BY <2>1, CallsPduInv
<1>2. CASE GiveUp
  BY <1>2, GiveUpPduInv
<1>3. CASE sendSingle
  BY <1>3, SendSinglePduInv
<1>4. CASE read
  <2>1. PICK pdu : inbox' = [pdu |-> pdu, msg |-> DecodePdu(FromHex(HexOf(pdu)))]
    BY <1>4 DEF read
  <2>2. InboxOK'
    <3> DEFINE msg == DecodePdu(FromHex(HexOf(pdu)))
    <3>1. inbox' = [pdu |-> pdu, msg |-> msg]
      BY <2>1
    <3> HIDE DEF msg
    <3>2. inbox'.pdu = pdu /\ inbox'.msg = msg
      BY <3>1
    <3> QED BY <3>2 DEF InboxOK, msg
  <2> QED BY <1>4, <2>2, ReadPduInv DEF read
<1>5. CASE UNCHANGED vars
  <2>1. InboxOK'
    BY <1>5 DEF PduInv, InboxOK, vars
  <2> QED BY <1>5, <2>1, ReadPduInv DEF vars
<1> QED BY <1>1, <1>2, <1>3, <1>4, <1>5 DEF Next

\* What is known of a PDU that the network has taken.
LEMMA AirSubmitted ==
  ASSUME IInv, PduInv, NEW a \in air
  PROVE  LET e == log[a.id]
             c == e.call
             text == TextOf(c, a.sequence)
         IN  /\ c \in Calls /\ ~Refused(c) /\ e.reference \in 0 .. References - 1
             /\ a.sequence \in 1 .. TotalParts(c)
             /\ text \in Seq(Octets) /\ Len(text) <= MaxBytes(c)
             /\ a.pdu = Submit(c, e.reference, a.sequence, text)
<1>1. log[a.id] \in Entries
  BY ElementOfSeq DEF IInv, LogOK, AirOK
<1>2. IsSegment(log[a.id].call, log[a.id].reference, a)
  BY DEF PduInv, AirHas
<1> DEFINE c == log[a.id].call
           n == a.sequence
           text == TextOf(c, n)
<1>3. c \in Calls /\ ~Refused(c) /\ n \in 1 .. TotalParts(c)
  BY <1>1, <1>2 DEF Entries, IsSegment
<1>4. text \in Seq(Octets) /\ Len(text) <= MaxBytes(c)
  <2> HIDE DEF c, n
  <2>1. MaxBytes(c) \in Nat
    BY <1>3, Sizes
  <2> QED BY <1>3, <2>1, TextPlaces DEF text
<1> QED BY <1>1, <1>2, <1>3, <1>4 DEF Entries, IsSegment

LEMMA AirFits ==
  ASSUME IInv, PduInv, NEW a \in air
  PROVE  /\ Len(a.pdu) <= PduLen
         /\ Len(a.pdu) - (FirstUserOctet(a.pdu) + 2) <= MaxOctets
         /\ \A i \in 1 .. Len(a.pdu) : a.pdu[i] \in 0 .. 255
<1> DEFINE e == log[a.id]
           c == e.call
           ref == e.reference
           n == a.sequence
           text == TextOf(c, n)
           p == a.pdu
           user == UserOf(c, ref, n, text)
           d == Len(c.to.digits)
<1>1. /\ c \in Calls /\ ~Refused(c) /\ ref \in 0 .. References - 1 /\ n \in 1 .. TotalParts(c)
      /\ text \in Seq(Octets) /\ Len(text) <= MaxBytes(c)
      /\ p = Submit(c, ref, n, text)
  BY AirSubmitted
<1>2. d \in Nat /\ d <= SenderSize
  BY <1>1, OctetsAssumption, LenProperties, SMTT(30)
<1> HIDE DEF e, c, ref, n, text, p, user, d
<1>3. /\ p \in Seq(Octets) /\ FirstUserOctet(p) = 6 + (d + 1) \div 2
      /\ Len(p) = FirstUserOctet(p) + 2 + Len(user)
  BY <1>1, Submitted DEF user, d
<1>4. user \in Seq(Octets) /\ Len(user) <= MaxOctets /\ Len(user) \in Nat
  BY <1>1, UserFits, LenProperties DEF user
<1>5. Len(p) <= PduLen
  BY <1>2, <1>3, <1>4, SizesAssumption DEF PduLen
<1>6. Len(p) - (FirstUserOctet(p) + 2) <= MaxOctets
  BY <1>2, <1>3, <1>4, SizesAssumption
<1>7. \A i \in 1 .. Len(p) : p[i] \in 0 .. 255
  BY <1>3, ElementOfSeq DEF Octets
<1> QED BY <1>5, <1>6, <1>7 DEF p

\* Every PDU fits in pduBuf[SMS_PDU_LEN] of sendSingle() and its user data in one SMS, whatever
\* the size of an SMS and the text: no store of pack7Bit() or storeBcdDigits() is beyond the end.
THEOREM PdusFit == Spec => []PduFits
<1>1. IInv /\ PduInv => PduFits
  BY AirFits DEF PduFits
<1> QED BY <1>1, InitIInv, NextIInv, InitPduInv, NextPduInv, PTL DEF Spec

-----------------------------------------------------------------------------
(* What the network delivers, and what read() makes of it *)

\* Two sequences joined, place by place.
LEMMA Joined ==
  ASSUME NEW S, NEW s \in Seq(S), NEW t \in Seq(S), NEW w \in Seq(S), Len(w) = Len(s) + Len(t),
         \A i \in 1 .. Len(s) : w[i] = s[i],
         \A i \in 1 .. Len(t) : w[Len(s) + i] = t[i]
  PROVE  s \o t = w
<1>1. /\ s \o t \in Seq(S) /\ Len(s \o t) = Len(s) + Len(t)
      /\ \A i \in 1 .. Len(s) + Len(t) : (s \o t)[i] = IF i <= Len(s) THEN s[i] ELSE t[i - Len(s)]
  BY ConcatProperties
<1>2. ASSUME NEW i \in 1 .. Len(w) PROVE w[i] = (s \o t)[i]
  <2>1. CASE i <= Len(s)
    BY <1>1, <2>1
  <2>2. CASE ~(i <= Len(s))
    <3>1. i - Len(s) \in 1 .. Len(t) /\ Len(s) + (i - Len(s)) = i
      BY <2>2
    <3> QED BY <1>1, <2>2, <3>1
  <2> QED BY <2>1, <2>2
<1> QED BY <1>1, <1>2, SeqEqual

\* The octets of an SMS-DELIVER up to the user data.
DeliverHead(flags, dcs, udl) ==
  <<2, 145, 51, flags, 3, 145, 33, 243, 0, dcs, 81, 1, 1, 0, 0, 0, 0, udl>>

LEMMA OwnOctets == OwnAddress = <<3, 145, 33, 243>>
<1> DEFINE b == storeBcdDigits(Own)
<1>1. Len(Own) = 3 /\ Own[1] = 1 /\ Own[2] = 2 /\ Own[3] = 3
  BY DEF Own
<1>2. b = [i \in 1 .. 2 |-> Own[2*i - 1] + 16 * (IF 2*i <= 3 THEN Own[2*i] ELSE 15)]
  BY <1>1 DEF storeBcdDigits
<1>3. b[1] = 33 /\ b[2] = 243
  BY <1>1, <1>2
<1>4. b \in Seq(Int) /\ Len(b) = 2
  <2>1. \A i \in 1 .. 2 : Own[2*i - 1] + 16 * (IF 2*i <= 3 THEN Own[2*i] ELSE 15) \in Int
    BY <1>1
  <2> QED BY <1>2, <2>1
<1>5. b = <<33, 243>>
  <2> HIDE DEF b
  <2> QED BY <1>3, <1>4
<1>6. OwnAddress = <<3, 145>> \o b
  BY DEF OwnAddress
<1>7. <<3, 145>> \o <<33, 243>> = <<3, 145, 33, 243>>
  <2> DEFINE s == <<3, 145>>
             t == <<33, 243>>
             w == <<3, 145, 33, 243>>
  <2>1. s \in Seq(Octets) /\ t \in Seq(Octets) /\ w \in Seq(Octets)
    BY DEF Octets
  <2>2. Len(w) = Len(s) + Len(t)
    OBVIOUS
  <2>3. \A i \in 1 .. Len(s) : w[i] = s[i]
    OBVIOUS
  <2>4. \A i \in 1 .. Len(t) : w[Len(s) + i] = t[i]
    OBVIOUS
  <2> HIDE DEF s, t, w
  <2>5. s \o t = w
    BY <2>1, <2>2, <2>3, <2>4, Joined
  <2> QED BY <2>5 DEF s, t, w
<1> QED BY <1>5, <1>6, <1>7

HeadOf(flags, dcs) ==
  ((((<<2>> \o <<145, 51>>) \o <<flags>>) \o <<3, 145, 33, 243>>) \o <<0, dcs>>)
    \o <<81, 1, 1, 0, 0, 0, 0>>

LEMMA HeadJoined ==
  ASSUME NEW flags \in Octets, NEW dcs \in Octets, NEW udl \in Octets
  PROVE  HeadOf(flags, dcs) \o <<udl>> = DeliverHead(flags, dcs, udl)
<1> DEFINE s1 == <<2>>
           s2 == <<145, 51>>
           s3 == <<flags>>
           s4 == <<3, 145, 33, 243>>
           s5 == <<0, dcs>>
           s6 == <<81, 1, 1, 0, 0, 0, 0>>
           s7 == <<udl>>
           h1 == <<2, 145, 51>>
           h2 == <<2, 145, 51, flags>>
           h3 == <<2, 145, 51, flags, 3, 145, 33, 243>>
           h4 == <<2, 145, 51, flags, 3, 145, 33, 243, 0, dcs>>
           h5 == <<2, 145, 51, flags, 3, 145, 33, 243, 0, dcs, 81, 1, 1, 0, 0, 0, 0>>
           h6 == <<2, 145, 51, flags, 3, 145, 33, 243, 0, dcs, 81, 1, 1, 0, 0, 0, 0, udl>>
<1>1. s1 \o s2 = h1
  <2>0. s1 \in Seq(Octets) /\ s2 \in Seq(Octets) /\ h1 \in Seq(Octets)
    BY DEF Octets
  <2>1. Len(h1) = Len(s1) + Len(s2)
    OBVIOUS
  <2>2. \A i \in 1 .. Len(s1) : h1[i] = s1[i]
    OBVIOUS
  <2>3. \A i \in 1 .. Len(s2) : h1[Len(s1) + i] = s2[i]
    OBVIOUS
  <2> HIDE DEF s1, s2, h1
  <2> QED BY <2>0, <2>1, <2>2, <2>3, Joined
<1>2. h1 \o s3 = h2
  <2>0. h1 \in Seq(Octets) /\ s3 \in Seq(Octets) /\ h2 \in Seq(Octets)
    BY DEF Octets
  <2>1. Len(h2) = Len(h1) + Len(s3)
    OBVIOUS
  <2>2. \A i \in 1 .. Len(h1) : h2[i] = h1[i]
    OBVIOUS
  <2>3. \A i \in 1 .. Len(s3) : h2[Len(h1) + i] = s3[i]
    OBVIOUS
  <2> HIDE DEF h1, s3, h2
  <2> QED BY <2>0, <2>1, <2>2, <2>3, Joined
<1>3. h2 \o s4 = h3
  <2>0. h2 \in Seq(Octets) /\ s4 \in Seq(Octets) /\ h3 \in Seq(Octets)
    BY DEF Octets
  <2>1. Len(h3) = Len(h2) + Len(s4)
    OBVIOUS
  <2>2. \A i \in 1 .. Len(h2) : h3[i] = h2[i]
    OBVIOUS
  <2>3. \A i \in 1 .. Len(s4) : h3[Len(h2) + i] = s4[i]
    OBVIOUS
  <2> HIDE DEF h2, s4, h3
  <2> QED BY <2>0, <2>1, <2>2, <2>3, Joined
<1>4. h3 \o s5 = h4
  <2>0. h3 \in Seq(Octets) /\ s5 \in Seq(Octets) /\ h4 \in Seq(Octets)
    BY DEF Octets
  <2>1. Len(h4) = Len(h3) + Len(s5)
    OBVIOUS
  <2>2. \A i \in 1 .. Len(h3) : h4[i] = h3[i]
    OBVIOUS
  <2>3. \A i \in 1 .. Len(s5) : h4[Len(h3) + i] = s5[i]
    OBVIOUS
  <2> HIDE DEF h3, s5, h4
  <2> QED BY <2>0, <2>1, <2>2, <2>3, Joined
<1>5. h4 \o s6 = h5
  <2>0. h4 \in Seq(Octets) /\ s6 \in Seq(Octets) /\ h5 \in Seq(Octets)
    BY DEF Octets
  <2>1. Len(h5) = Len(h4) + Len(s6)
    OBVIOUS
  <2>2. \A i \in 1 .. Len(h4) : h5[i] = h4[i]
    OBVIOUS
  <2>3. \A i \in 1 .. Len(s6) : h5[Len(h4) + i] = s6[i]
    OBVIOUS
  <2> HIDE DEF h4, s6, h5
  <2> QED BY <2>0, <2>1, <2>2, <2>3, Joined
<1>6. h5 \o s7 = h6
  <2>0. h5 \in Seq(Octets) /\ s7 \in Seq(Octets) /\ h6 \in Seq(Octets)
    BY DEF Octets
  <2>1. Len(h6) = Len(h5) + Len(s7)
    OBVIOUS
  <2>2. \A i \in 1 .. Len(h5) : h6[i] = h5[i]
    OBVIOUS
  <2>3. \A i \in 1 .. Len(s7) : h6[Len(h5) + i] = s7[i]
    OBVIOUS
  <2> HIDE DEF h5, s7, h6
  <2> QED BY <2>0, <2>1, <2>2, <2>3, Joined
<1> HIDE DEF h1, h2, h3, h4, h5, h6
<1>7. (((((s1 \o s2) \o s3) \o s4) \o s5) \o s6) \o s7 = h6
  <2> HIDE DEF s1, s2, s3, s4, s5, s6, s7
  <2> QED BY <1>1, <1>2, <1>3, <1>4, <1>5, <1>6, Zenon
<1> QED BY <1>7 DEF h6, DeliverHead, HeadOf

LEMMA HeadType ==
  ASSUME NEW flags \in Octets, NEW dcs \in Octets
  PROVE  HeadOf(flags, dcs) \in Seq(Octets)
<1>1. /\ <<2>> \in Seq(Octets) /\ <<145, 51>> \in Seq(Octets) /\ <<flags>> \in Seq(Octets)
      /\ <<3, 145, 33, 243>> \in Seq(Octets) /\ <<0, dcs>> \in Seq(Octets)
      /\ <<81, 1, 1, 0, 0, 0, 0>> \in Seq(Octets)
  BY DEF Octets
<1>2. <<2>> \o <<145, 51>> \in Seq(Octets)
  BY <1>1, Regrouped, Zenon
<1>3. (<<2>> \o <<145, 51>>) \o <<flags>> \in Seq(Octets)
  BY <1>1, <1>2, Regrouped, Zenon
<1>4. ((<<2>> \o <<145, 51>>) \o <<flags>>) \o <<3, 145, 33, 243>> \in Seq(Octets)
  BY <1>1, <1>3, Regrouped, ZenonT(60)
<1>5. (((<<2>> \o <<145, 51>>) \o <<flags>>) \o <<3, 145, 33, 243>>) \o <<0, dcs>> \in Seq(Octets)
  BY <1>1, <1>4, Regrouped, ZenonT(60)
<1> DEFINE front == (((<<2>> \o <<145, 51>>) \o <<flags>>) \o <<3, 145, 33, 243>>) \o <<0, dcs>>
           time == <<81, 1, 1, 0, 0, 0, 0>>
<1>6. front \o time \in Seq(Octets)
  <2>1. front \in Seq(Octets) /\ time \in Seq(Octets)
    BY <1>1, <1>5
  <2> HIDE DEF front, time
  <2> QED BY <2>1, ConcatProperties
<1> QED BY <1>6 DEF HeadOf

\* What Deliver() takes from a PDU of sendSingle().
SentAs(p, flags, dcs, udl, user) ==
  /\ flags = IF p[2] >= 64 THEN 64 ELSE 0
  /\ p[FirstUserOctet(p) + 1] = dcs
  /\ SubSeq(p, FirstUserOctet(p) + 2, Len(p)) = <<udl>> \o user

LEMMA Delivered ==
  ASSUME NEW p, NEW flags \in Octets, NEW dcs \in Octets, NEW udl \in Octets,
         NEW user \in Seq(Octets), SentAs(p, flags, dcs, udl, user)
  PROVE  Deliver(p, <<145, 51>>, OwnAddress) = DeliverHead(flags, dcs, udl) \o user
<1> DEFINE q == Deliver(p, <<145, 51>>, OwnAddress)
           y == <<udl>>
           h == HeadOf(flags, dcs)
<1>1. q = h \o (y \o user)
  <2>1. Len(<<145, 51>>) = 2
    OBVIOUS
  <2> QED BY <2>1, OwnOctets, ZenonT(60) DEF Deliver, HeadOf, SentAs
<1> HIDE DEF q
<1>2. h \o y = DeliverHead(flags, dcs, udl)
  BY HeadJoined
<1>3. h \in Seq(Octets) /\ y \in Seq(Octets)
  BY HeadType
<1> HIDE DEF h, y
<1>4. Associative(h, y, user)
  BY <1>3, Regrouped, Zenon
<1>5. q = (h \o y) \o user
  BY <1>1, <1>4, Zenon DEF Associative
<1> QED BY <1>2, <1>5 DEF q

\* The number in front of the user data, and the flags, are where read() looks for them.
Placed(q, flags, dcs, udl, user) ==
  /\ q \in Seq(Octets) /\ Len(q) = 18 + Len(user)
  /\ q[1] = 2 /\ q[4] = flags /\ q[5] = 3 /\ q[6] = 145 /\ q[7] = 33 /\ q[8] = 243
  /\ q[10] = dcs /\ q[18] = udl
  /\ SubSeq(q, 19, Len(q)) = user

LEMMA HeadPlaces ==
  ASSUME NEW flags \in Octets, NEW dcs \in Octets, NEW udl \in Octets, NEW user \in Seq(Octets)
  PROVE  Placed(DeliverHead(flags, dcs, udl) \o user, flags, dcs, udl, user)
<1> DEFINE h == DeliverHead(flags, dcs, udl)
           q == h \o user
<1>1. h \in Seq(Octets) /\ Len(h) = 18
  BY DEF DeliverHead, Octets
<1>2. /\ h[1] = 2 /\ h[4] = flags /\ h[5] = 3 /\ h[6] = 145 /\ h[7] = 33 /\ h[8] = 243
      /\ h[10] = dcs /\ h[18] = udl
  BY DEF DeliverHead
<1> HIDE DEF h
<1>3. /\ q \in Seq(Octets) /\ Len(q) = Len(h) + Len(user)
      /\ \A i \in 1 .. Len(h) + Len(user) : q[i] = IF i <= Len(h) THEN h[i] ELSE user[i - Len(h)]
  BY <1>1, ConcatProperties
<1>4. Len(user) \in Nat
  OBVIOUS
<1>5. SubSeq(q, 19, Len(q)) = user
  <2>1. 19 = Len(h) + 1
    BY <1>1
  <2> QED BY <1>1, <2>1, Behind
<1> HIDE DEF q
<1>6. \A i \in 1 .. 18 : q[i] = h[i]
  BY <1>1, <1>3, <1>4
<1>7. Len(q) = 18 + Len(user)
  BY <1>1, <1>3
<1>8. Placed(q, flags, dcs, udl, user)
  <2>1. /\ q[1] = h[1] /\ q[4] = h[4] /\ q[5] = h[5] /\ q[6] = h[6] /\ q[7] = h[7] /\ q[8] = h[8]
        /\ q[10] = h[10] /\ q[18] = h[18]
    BY <1>6
  <2> QED BY <1>2, <1>3, <1>5, <1>7, <2>1 DEF Placed
<1> QED BY <1>8 DEF q, h

LEMMA SenderDigits ==
  ASSUME NEW q, q[7] = 33, q[8] = 243, NEW octets, octets = SubSeq(q, 7, 8)
  PROVE  SenderText("international", 3, octets) = <<43, 49, 50, 51>>
<1>1. octets[1] = 33 /\ octets[2] = 243
  <2>1. \A i \in 7 .. 8 : q[i] \in Octets
    <3>1. \A i \in 7 .. 8 : i = 7 \/ i = 8
      OBVIOUS
    <3>2. 33 \in Octets /\ 243 \in Octets
      BY DEF Octets
    <3> QED BY <3>1, <3>2
  <2>2. \A i \in 1 .. 8 - 7 + 1 : SubSeq(q, 7, 8)[i] = q[7 + i - 1]
    BY <2>1, SubSeqProperties
  <2> QED BY <2>2
<1> DEFINE digits == extractBcdDigits(octets, 3)
           text == [i \in 1 .. 3 |-> digits[i] + 48]
<1>2. digits[1] = 1 /\ digits[2] = 2 /\ digits[3] = 3
  <2>1. digits = [i \in 1 .. 3 |-> IF i % 2 = 1 THEN octets[(i + 1) \div 2] % 16
                                   ELSE octets[i \div 2] \div 16]
    BY DEF extractBcdDigits
  <2> HIDE DEF digits
  <2>2. digits[1] = octets[1] % 16 /\ digits[2] = octets[1] \div 16 /\ digits[3] = octets[2] % 16
    BY <2>1
  <2> QED BY <1>1, <2>2
<1>3. SenderText("international", 3, octets) = <<43>> \o text
  BY DEF SenderText
<1> HIDE DEF digits
<1>4. text = <<49, 50, 51>>
  <2>1. text = [i \in 1 .. 3 |-> 48 + i]
    <3>1. \A i \in 1 .. 3 : digits[i] + 48 = 48 + i
      BY <1>2
    <3> QED BY <3>1
  <2> HIDE DEF text
  <2> QED BY <2>1
<1>5. <<43>> \o <<49, 50, 51>> = <<43, 49, 50, 51>>
  <2> DEFINE s == <<43>>
             t == <<49, 50, 51>>
             w == <<43, 49, 50, 51>>
  <2>1. s \in Seq(Octets) /\ t \in Seq(Octets) /\ w \in Seq(Octets)
    BY DEF Octets
  <2>2. Len(w) = Len(s) + Len(t)
    OBVIOUS
  <2>3. \A i \in 1 .. Len(s) : w[i] = s[i]
    OBVIOUS
  <2>4. \A i \in 1 .. Len(t) : w[Len(s) + i] = t[i]
    OBVIOUS
  <2> HIDE DEF s, t, w
  <2>5. s \o t = w
    BY <2>1, <2>2, <2>3, <2>4, Joined, SMTT(30)
  <2> QED BY <2>5 DEF s, t, w
<1> QED BY <1>3, <1>4, <1>5

\* data is what decodeGSM7bit() or the copying of UCS2 makes of the user data.
DataOf(data, flags, dcs, udl, user) ==
  data.ok /\ data = UserData(dcs, udl, IF flags = 64 THEN user[1] + 1 ELSE 0, user)

ReadAs(msg, dcs, data) ==
  /\ msg.ok /\ msg.sender = <<43, 49, 50, 51>>
  /\ msg.decoded = IF dcs = 0 THEN decodeGSM(data.raw)
                   ELSE decodeUCS2(data.raw, Len(data.raw) \div 2)

\* read() finds the sender and the user data.
LEMMA Decoded ==
  ASSUME NEW flags \in {0, 64}, NEW dcs \in {0, 8}, NEW udl \in Octets, NEW user \in Seq(Octets),
         Len(user) <= MaxOctets, SenderSize >= 5,
         NEW q, Placed(q, flags, dcs, udl, user),
         NEW data, DataOf(data, flags, dcs, udl, user)
  PROVE  ReadAs(DecodePdu(q), dcs, data)
<1>1. data.ok /\ data = UserData(dcs, udl, IF flags = 64 THEN user[1] + 1 ELSE 0, user)
  BY DEF DataOf
<1>2. /\ q \in Seq(Octets) /\ Len(q) = 18 + Len(user)
      /\ q[1] = 2 /\ q[4] = flags /\ q[5] = 3 /\ q[6] = 145 /\ q[7] = 33 /\ q[8] = 243
      /\ q[10] = dcs /\ q[18] = udl
      /\ SubSeq(q, 19, Len(q)) = user
  BY DEF Placed
<1> DEFINE At(i) == q[i + 1]
           first == 1 + At(0)
           addrLen == At(first + 1)
           type == CASE (At(first + 2) \div 16) % 8 = 5 -> "alphanumeric"
                     [] (At(first + 2) \div 16) % 8 = 1 -> "international"
                     [] OTHER -> "number"
           pid == first + 3 + AddressOctets(addrLen)
           dcs0 == At(pid + 1)
           udl0 == At(pid + 9)
           user0 == SubSeq(q, pid + 11, Len(q))
           headerLen == IF (At(first) \div 64) % 2 = 1 THEN user0[1] + 1 ELSE 0
           data0 == UserData(dcs0, udl0, headerLen, user0)
           bad == Len(q) > PduBuffer \/ At(first) % 4 # 0 \/ ~SenderFits(type, addrLen) \/ ~data0.ok
           sender == SenderText(type, addrLen, SubSeq(q, first + 4, pid))
           text == IF dcs0 = 0 THEN decodeGSM(data0.raw)
                   ELSE decodeUCS2(data0.raw, Len(data0.raw) \div 2)
<1>3. DecodePdu(q) = IF bad THEN Bad
                     ELSE [ok |-> TRUE, sender |-> sender, raw |-> data0.raw, decoded |-> text]
  BY DEF DecodePdu
<1>4. first = 3
  BY <1>2
<1> HIDE DEF first
<1>5. addrLen = 3 /\ type = "international" /\ At(first) = flags
  <2>1. At(first + 1) = q[5] /\ At(first + 2) = q[6] /\ At(first) = q[4]
    BY <1>4
  <2> HIDE DEF At
  <2>2. (145 \div 16) % 8 = 1
    OBVIOUS
  <2> QED BY <1>2, <2>1, <2>2
<1> HIDE DEF addrLen, type
<1>6. pid = 8
  BY <1>4, <1>5 DEF AddressOctets
<1> HIDE DEF pid
<1>7. dcs0 = dcs /\ udl0 = udl /\ user0 = user
  BY <1>2, <1>6
<1>8. sender = <<43, 49, 50, 51>>
  <2>1. SubSeq(q, first + 4, pid) = SubSeq(q, 7, 8)
    BY <1>4, <1>6
  <2> QED BY <1>2, <1>5, <2>1, SenderDigits
<1> HIDE DEF sender, dcs0, udl0, user0
<1>9. headerLen = IF flags = 64 THEN user[1] + 1 ELSE 0
  <2>1. (0 \div 64) % 2 = 0 /\ (64 \div 64) % 2 = 1
    OBVIOUS
  <2> HIDE DEF At
  <2> QED BY <1>5, <1>7, <2>1
<1> HIDE DEF headerLen
<1>10. data0 = data
  BY <1>1, <1>7, <1>9
<1> HIDE DEF data0
<1>11. ~bad
  <2>1. ~(Len(q) > PduBuffer)
    BY <1>2, SizesAssumption, LenProperties DEF PduBuffer
  <2>2. At(first) % 4 = 0
    <3>1. 0 % 4 = 0 /\ 64 % 4 = 0
      OBVIOUS
    <3> HIDE DEF At
    <3> QED BY <1>5, <3>1
  <2>3. SenderFits(type, addrLen)
    BY <1>5, SizesAssumption DEF SenderFits
  <2> QED BY <1>1, <1>10, <2>1, <2>2, <2>3
<1> HIDE DEF bad
<1>12. text = IF dcs = 0 THEN decodeGSM(data.raw) ELSE decodeUCS2(data.raw, Len(data.raw) \div 2)
  BY <1>7, <1>10
<1> HIDE DEF text
<1>13. DecodePdu(q) = [ok |-> TRUE, sender |-> sender, raw |-> data0.raw, decoded |-> text]
  BY <1>3, <1>11
<1> QED BY <1>8, <1>12, <1>13 DEF ReadAs

\* read() of what the network makes of a segment.
LEMMA DeliveredBack ==
  ASSUME NEW p, NEW flags \in {0, 64}, NEW dcs \in {0, 8}, NEW udl \in Octets,
         NEW user \in Seq(Octets), SentAs(p, flags, dcs, udl, user),
         Len(user) <= MaxOctets, SenderSize >= 5,
         NEW data, DataOf(data, flags, dcs, udl, user)
  PROVE  LET q == Deliver(p, <<145, 51>>, OwnAddress)
         IN  q # <<>> /\ ReadAs(DecodePdu(FromHex(HexOf(q))), dcs, data)
<1> DEFINE q == Deliver(p, <<145, 51>>, OwnAddress)
<1>1. flags \in Octets /\ dcs \in Octets
  BY DEF Octets
<1>2. q = DeliverHead(flags, dcs, udl) \o user
  BY <1>1, Delivered, SMTT(30)
<1>3. Placed(DeliverHead(flags, dcs, udl) \o user, flags, dcs, udl, user)
  BY <1>1, HeadPlaces, ZenonT(60)
<1>4. Placed(q, flags, dcs, udl, user)
  BY <1>2, <1>3, Zenon
<1> HIDE DEF q
<1>5. FromHex(HexOf(q)) = q /\ q # <<>>
  <2>1. q \in Seq(Octets) /\ Len(q) = 18 + Len(user) /\ Len(user) \in Nat
    BY <1>4 DEF Placed
  <2>2. FromHex(HexOf(q)) = q
    BY <2>1, HexAndBack
  <2>3. Len(q) # 0
    BY <2>1
  <2> QED BY <2>2, <2>3, EmptySeq
<1>6. ReadAs(DecodePdu(q), dcs, data)
  BY <1>4, Decoded, Zenon
<1> QED BY <1>5, <1>6 DEF q

-----------------------------------------------------------------------------
(* The text that read() gives back *)

IsCut(sub, s, p, k, S) ==
  sub \in Seq(S) /\ Len(sub) = k /\ \A i \in 1 .. k : sub[i] = s[p + i]

LEMMA Cutout ==
  ASSUME NEW S, NEW s, NEW p \in Nat, NEW k \in Nat, \A i \in 1 .. k : s[p + i] \in S
  PROVE  IsCut(SubSeq(s, p + 1, p + k), s, p, k, S)
<1> DEFINE sub == SubSeq(s, p + 1, p + k)
<1>1. \A j \in p + 1 .. p + k : s[j] \in S
  <2> TAKE j \in p + 1 .. p + k
  <2>1. PICK i \in 1 .. k : p + i = j
    <3>1. j - p \in 1 .. k /\ p + (j - p) = j
      OBVIOUS
    <3> QED BY <3>1
  <2>2. s[p + i] \in S
    OBVIOUS
  <2> QED BY <2>1, <2>2, Zenon
<1>2. p + 1 \in Int /\ p + k \in Int
  OBVIOUS
<1>3. /\ sub \in Seq(S)
      /\ Len(sub) = IF p + 1 <= p + k THEN (p + k) - (p + 1) + 1 ELSE 0
      /\ \A i \in 1 .. (p + k) - (p + 1) + 1 : sub[i] = s[(p + 1) + i - 1]
  BY <1>1, <1>2, SubSeqProperties
<1>4. (p + k) - (p + 1) + 1 = k /\ \A i \in 1 .. k : (p + 1) + i - 1 = p + i
  OBVIOUS
<1> HIDE DEF sub
<1>5. Len(sub) = k
  BY <1>3
<1>6. IsCut(sub, s, p, k, S)
  BY <1>3, <1>4, <1>5 DEF IsCut
<1> QED BY <1>6 DEF sub

LEMMA GsmData ==
  ASSUME NEW udl, NEW hl, NEW octets, NEW v, NEW chars,
         v = SubSeq(octets, hl + 1, Len(octets)), chars = CharsBehind(udl, hl),
         chars <= CharsIn(MaxOctets)
  PROVE  UserData(0, udl, hl, octets) =
           [ok |-> TRUE, raw |-> unpack7Bit(v, chars, IF hl = 0 THEN 0 ELSE HeaderFill(hl))]
BY DEF UserData

OctetsBehind(udl, headerLen) == (udl - headerLen) % 256

LEMMA Ucs2Data ==
  ASSUME NEW dcs, dcs = 8, NEW udl, NEW hl, NEW octets, NEW v,
         v = SubSeq(octets, hl + 1, Len(octets)), OctetsBehind(udl, hl) <= CharsIn(MaxOctets)
  PROVE  UserData(dcs, udl, hl, octets) = [ok |-> TRUE, raw |-> SubSeq(v, 1, OctetsBehind(udl, hl))]
BY DEF UserData, OctetsBehind

LEMMA UserBack ==
  ASSUME NEW c \in Calls, ~Refused(c), NEW reference \in 0 .. References - 1,
         NEW sequence \in 1 .. TotalParts(c), NEW text \in Seq(Octets), Len(text) <= MaxBytes(c),
         c.encoding = "GSM" => text \in Seq(0 .. 127)
  PROVE  LET user == UserOf(c, reference, sequence, text)
             data == UserData(Dcs(c), UserDataLength(c, Len(text)),
                              IF Multipart(c) THEN user[1] + 1 ELSE 0, user)
         IN  data.ok /\ data.raw = text
<1> DEFINE user == UserOf(c, reference, sequence, text)
           n == Len(text)
           udl == UserDataLength(c, n)
           hl == IF Multipart(c) THEN user[1] + 1 ELSE 0
           u == HeaderOf(c, reference, sequence)
           v == CodedText(c, text)
           data == UserData(Dcs(c), udl, hl, user)
<1>1. u \in Seq(Octets) /\ Len(u) = IF Multipart(c) THEN 6 ELSE 0
  BY HeaderFits DEF HeaderLen
<1>2. v \in Seq(Octets)
  BY CodedFits
<1>3. user = u \o v
  BY DEF UserOf
<1>4. n \in Nat
  OBVIOUS
<1>5. Multipart(c) => u[1] = 5
  BY DEF HeaderOf, UserDataHeader
<1> HIDE DEF user, u, v, n
<1>6. hl = IF Multipart(c) THEN 6 ELSE 0
  <2>1. CASE Multipart(c)
    <3>1. /\ Len(u \o v) = Len(u) + Len(v)
          /\ \A i \in 1 .. Len(u) + Len(v) : (u \o v)[i] = IF i <= Len(u) THEN u[i] ELSE v[i - Len(u)]
      BY <1>1, <1>2, ConcatProperties
    <3>2. Len(v) \in Nat
      BY <1>2
    <3>3. (u \o v)[1] = u[1]
      BY <1>1, <2>1, <3>1, <3>2
    <3> QED BY <1>3, <1>5, <2>1, <3>3
  <2>2. CASE ~Multipart(c)
    BY <2>2
  <2> QED BY <2>1, <2>2
<1>7. SubSeq(user, hl + 1, Len(user)) = v
  <2>1. hl + 1 = Len(u) + 1
    BY <1>1, <1>6
  <2> HIDE DEF hl
  <2>2. SubSeq(u \o v, hl + 1, Len(u \o v)) = v
    BY <1>1, <1>2, <2>1, Behind
  <2> QED BY <1>3, <2>2
<1> HIDE DEF hl
<1>8. MaxOctets \in Nat /\ MaxOctets >= 14 /\ CharsIn(MaxOctets) <= 255
  BY SizesAssumption, OctetsAssumption
<1>9. n <= MaxBytes(c)
  BY DEF n
<1>10. ASSUME c.encoding = "GSM" PROVE data.ok /\ data.raw = text
  <2> DEFINE f == FillBits(Multipart(c))
             chars == CharsBehind(udl, hl)
             fill == IF hl = 0 THEN 0 ELSE HeaderFill(hl)
  <2>1. n <= CharsIn(MaxOctets) /\ n <= 255
    <3>1. n <= Single(c)
      BY <1>4, <1>9, Sizes DEF MaxBytes
    <3> QED BY <1>4, <1>8, <1>10, <3>1 DEF Single, CharsIn
  <2>2. chars = n /\ fill = f /\ f \in 0 .. 6
    <3>1. CASE Multipart(c)
      <4>1. udl = n + 7 /\ hl = 6 /\ f = 1
        BY <1>6, <1>10, <3>1 DEF UserDataLength, FillBits
      <4>2. HeaderFill(6) = 1
        BY DEF HeaderFill
      <4>3. CharsBehind(n + 7, 6) = n
        BY <1>4, <2>1, <4>2 DEF CharsBehind
      <4> QED BY <4>1, <4>2, <4>3
    <3>2. CASE ~Multipart(c)
      <4>1. udl = n /\ hl = 0 /\ f = 0
        BY <1>6, <3>2 DEF UserDataLength, FillBits
      <4> QED BY <4>1 DEF CharsBehind
    <3> QED BY <3>1, <3>2
  <2>3. Dcs(c) = 0
    BY <1>10 DEF Dcs
  <2> HIDE DEF chars, fill, f
  <2>4. data = [ok |-> TRUE, raw |-> unpack7Bit(v, chars, fill)]
    <3>1. chars <= CharsIn(MaxOctets)
      BY <2>1, <2>2
    <3>2. chars = CharsBehind(udl, hl)
      BY DEF chars
    <3> HIDE DEF udl
    <3>3. UserData(0, udl, hl, user) = [ok |-> TRUE, raw |-> unpack7Bit(v, chars, fill)]
      BY <1>7, <3>1, <3>2, GsmData, ZenonT(60) DEF fill
    <3>4. data = UserData(0, udl, hl, user)
      BY <2>3 DEF data, udl
    <3> HIDE DEF data
    <3> QED BY <3>3, <3>4
  <2>5. v = pack7Bit(text, f)
    BY <1>10 DEF v, CodedText, f
  <2>6. unpack7Bit(v, n, f) = text
    BY <1>10, <2>2, <2>5, PackedAndBack DEF n
  <2> HIDE DEF data
  <2> QED BY <2>2, <2>4, <2>6
<1>11. ASSUME c.encoding = "UCS2" PROVE data.ok /\ data.raw = text
  <2> DEFINE bytes == OctetsBehind(udl, hl)
  <2>1. v = text
    BY <1>11 DEF v, CodedText
  <2>9. Dcs(c) = 8
    BY <1>11 DEF Dcs
  <2>2. n <= MaxOctets
    BY <1>4, <1>8, <1>9, <1>11 DEF MaxBytes, PartSize, Single, HeaderLen
  <2>3. MaxOctets <= CharsIn(MaxOctets)
    BY <1>8 DEF CharsIn
  <2>4. udl - hl = n
    BY <1>4, <1>6, <1>11 DEF UserDataLength, HeaderLen
  <2>5. n <= CharsIn(MaxOctets) /\ n <= 255 /\ CharsIn(MaxOctets) \in Nat
    BY <1>4, <1>8, <2>2, <2>3 DEF CharsIn
  <2> HIDE DEF udl
  <2>6. bytes = n
    BY <1>4, <2>4, <2>5 DEF OctetsBehind
  <2>7. data = [ok |-> TRUE, raw |-> SubSeq(v, 1, bytes)]
    <3>1. bytes <= CharsIn(MaxOctets)
      BY <2>5, <2>6
    <3>2. v = SubSeq(user, hl + 1, Len(user))
      BY <1>7
    <3>3. OctetsBehind(udl, hl) <= CharsIn(MaxOctets)
      BY <3>1
    <3> HIDE DEF bytes
    <3> DEFINE dcs == Dcs(c)
    <3>4. dcs = 8
      BY <2>9
    <3> HIDE DEF dcs
    <3>5. UserData(dcs, udl, hl, user) = [ok |-> TRUE, raw |-> SubSeq(v, 1, OctetsBehind(udl, hl))]
      BY <3>2, <3>3, <3>4, Ucs2Data, ZenonT(60)
    <3> QED BY <3>5 DEF bytes, dcs
  <2> HIDE DEF bytes
  <2>8. SubSeq(text, 1, n) = text
    BY DEF n
  <2> HIDE DEF data
  <2> QED BY <2>1, <2>6, <2>7, <2>8
<1>12. c.encoding = "GSM" \/ c.encoding = "UCS2"
  BY CallsAssumption DEF Refused
<1> HIDE DEF data
<1> QED BY <1>10, <1>11, <1>12 DEF data, hl, udl, user, n

LEMMA Retyped ==
  ASSUME NEW S, NEW T, NEW s \in Seq(S), \A i \in 1 .. Len(s) : s[i] \in T
  PROVE  s \in Seq(T)
OBVIOUS

LEMMA DecodedType ==
  ASSUME NEW x
  PROVE  DecodeChar(x) \in Octets
<1>1. x \in SameInBoth => x \in Octets
  BY DEF SameInBoth, Octets
<1> QED BY <1>1 DEF DecodeChar, Octets

\* The text of a segment of seven-bit characters.
LEMMA GsmText ==
  ASSUME Legible, NEW c \in Calls, ~Refused(c), c.encoding = "GSM", NEW n \in 1 .. TotalParts(c)
  PROVE  TextOf(c, n) \in Seq(0 .. 127) /\ decodeGSM(TextOf(c, n)) = SegmentText(c, n)
<1> DEFINE max == MaxBytes(c)
           l == Length(c)
           m == CommentLen(c)
           p == TextBefore(c, n)
           k == Least(l - p, max)
           all == Encoded(c)
           txt == TextOf(c, n)
           vis == [i \in 1 .. m |-> Visible(c.comment[i])]
           dat == decodeGSM(c.data)
           asc == vis \o dat
<1>1. /\ p \in Nat /\ k \in 0 .. max /\ p + k <= l /\ max \in Nat /\ l \in Nat
      /\ txt \in Seq(Octets) /\ Len(txt) = k
      /\ \A i \in 1 .. k : txt[i] = all[p + i]
  BY TextPlaces, Sizes
<1>2. /\ m \in Nat /\ Len(c.data) \in Nat /\ l = m + Len(c.data) /\ m = Len(c.comment)
  BY Sizes DEF CommentLen
<1>3. \A j \in 1 .. l : all[j] = IF j <= m THEN EncodeChar(c.comment[j]) ELSE c.data[j - m]
  BY EncodedPlaces DEF CommentAt
<1>4. \A j \in 1 .. Len(c.data) : c.data[j] \in 0 .. 127
  <2>1. c.data \in Seq(0 .. 127)
    BY DEF Legible
  <2> QED BY <2>1, ElementOfSeq
<1>5. Ascii(c) = asc
  BY <1>2 DEF Ascii
<1>6. vis \in Seq(Octets) /\ Len(vis) = m /\ \A i \in 1 .. m : vis[i] = DecodeChar(EncodeChar(c.comment[i]))
  <2> DEFINE v(i) == DecodeChar(EncodeChar(c.comment[i]))
  <2>1. \A i \in 1 .. m : Visible(c.comment[i]) = v(i) /\ v(i) \in Octets
    BY Characters, DecodedType DEF Legible
  <2>2. vis = [i \in 1 .. m |-> v(i)]
    BY <2>1
  <2> HIDE DEF vis, v, m
  <2>3. vis \in Seq(Octets) /\ Len(vis) = m /\ \A i \in 1 .. m : vis[i] = v(i)
    BY <1>2, <2>1, <2>2
  <2> QED BY <2>3 DEF v
<1>7. dat \in Seq(Octets) /\ Len(dat) = Len(c.data) /\ \A i \in 1 .. Len(c.data) : dat[i] = DecodeChar(c.data[i])
  <2>1. dat = [i \in 1 .. Len(c.data) |-> DecodeChar(c.data[i])]
    BY DEF decodeGSM
  <2>2. \A i \in 1 .. Len(c.data) : DecodeChar(c.data[i]) \in Octets
    BY DecodedType
  <2> HIDE DEF dat
  <2> QED BY <1>2, <2>1, <2>2
<1> HIDE DEF vis, dat, max, l, m, p, k, all, txt
<1>8. asc \in Seq(Octets) /\ Len(asc) = l /\ \A j \in 1 .. l : asc[j] = IF j <= m THEN vis[j] ELSE dat[j - m]
  <2>1. /\ asc \in Seq(Octets) /\ Len(asc) = Len(vis) + Len(dat)
        /\ \A j \in 1 .. Len(vis) + Len(dat) : asc[j] = IF j <= Len(vis) THEN vis[j] ELSE dat[j - Len(vis)]
    <3>1. vis \in Seq(Octets) /\ dat \in Seq(Octets)
      BY <1>6, <1>7
    <3> QED BY <3>1, ConcatProperties
  <2> HIDE DEF asc
  <2> QED BY <1>2, <1>6, <1>7, <2>1
<1> HIDE DEF asc
<1>9. ASSUME NEW j \in 1 .. l PROVE asc[j] = DecodeChar(all[j]) /\ all[j] \in 0 .. 127
  <2>1. CASE j <= m
    <3>1. j \in 1 .. m
      BY <1>2, <2>1
    <3>2. EncodeChar(c.comment[j]) \in 0 .. 127
      BY Characters DEF Legible
    <3> QED BY <1>3, <1>6, <1>8, <2>1, <3>1, <3>2
  <2>2. CASE ~(j <= m)
    <3>1. j - m \in 1 .. Len(c.data)
      <4> DEFINE q == Len(c.data)
      <4>1. m \in Nat /\ q \in Nat /\ l = m + q
        BY <1>2
      <4> HIDE DEF q
      <4>2. j - m \in 1 .. q
        BY <2>2, <4>1
      <4> QED BY <4>2 DEF q
    <3> DEFINE h == j - m
    <3>2. all[j] = c.data[h] /\ asc[j] = dat[h]
      BY <1>3, <1>8, <2>2
    <3>3. h \in 1 .. Len(c.data)
      BY <3>1
    <3> HIDE DEF h
    <3> QED BY <1>4, <1>7, <3>2, <3>3
  <2> QED BY <2>1, <2>2
<1>10. \A i \in 1 .. k : p + i \in 1 .. l
  BY <1>1
<1>11. txt \in Seq(0 .. 127)
  <2>1. \A i \in 1 .. k : txt[i] \in 0 .. 127
    BY <1>1, <1>9, <1>10
  <2> QED BY <1>1, <2>1, Retyped
<1> DEFINE seg == SubSeq(asc, p + 1, p + k)
           dec == decodeGSM(txt)
<1>12. k \in Nat /\ seg \in Seq(Octets) /\ Len(seg) = k /\ \A i \in 1 .. k : seg[i] = asc[p + i]
  <2>1. k \in Nat
    BY <1>1
  <2>2. \A i \in 1 .. k : asc[p + i] \in Octets
    BY <1>8, <1>10, ElementOfSeq
  <2>3. IsCut(seg, asc, p, k, Octets)
    BY <1>1, <2>1, <2>2, Cutout, Zenon
  <2> HIDE DEF seg
  <2> QED BY <2>1, <2>3 DEF IsCut
<1>13. dec \in Seq(Octets) /\ Len(dec) = k /\ \A i \in 1 .. k : dec[i] = DecodeChar(txt[i])
  <2>1. dec = [i \in 1 .. k |-> DecodeChar(txt[i])]
    BY <1>1 DEF decodeGSM
  <2>2. \A i \in 1 .. k : DecodeChar(txt[i]) \in Octets
    BY DecodedType
  <2> HIDE DEF dec
  <2> QED BY <1>12, <2>1, <2>2
<1> HIDE DEF seg, dec
<1>14. dec = seg
  <2>1. ASSUME NEW i \in 1 .. k PROVE dec[i] = seg[i]
    <3> DEFINE j == p + i
    <3>1. j \in 1 .. l
      BY <1>10
    <3>2. txt[i] = all[j] /\ seg[i] = asc[j]
      BY <1>1, <1>12
    <3> HIDE DEF j
    <3> QED BY <1>9, <1>13, <3>1, <3>2
  <2> QED BY <1>12, <1>13, <2>1, SameElements
<1>15. SegmentText(c, n) = seg
  <2>1. SegmentText(c, n) = SubSeq(asc, (n - 1) * max + 1, Least(n * max, l))
    BY <1>5, <1>8 DEF SegmentText, max
  <2>2. p = (n - 1) * max
    BY DEF p, TextBefore, max
  <2>3. n \in 1 .. 3
    BY Parts
  <2>4. Least(n * max, l) = p + k
    <3>1. n * max = p + max
      <4>1. n = 1 \/ n = 2 \/ n = 3
        BY <2>3
      <4> QED BY <1>1, <2>2, <4>1
    <3>2. k = IF l - p < max THEN l - p ELSE max
      BY DEF k, Least
    <3> QED BY <1>1, <3>1, <3>2 DEF Least
  <2> QED BY <2>1, <2>2, <2>4 DEF seg
<1> QED BY <1>11, <1>14, <1>15 DEF dec, txt

\* One character of two octets, as decodeUCS2() has it.
Wide(high, low) == IF high = 0 /\ low < 128 THEN low ELSE 63

LEMMA WideType ==
  ASSUME NEW high \in Octets, NEW low \in Octets
  PROVE  Wide(high, low) \in Octets
BY DEF Wide, Octets

LEMMA WideDecoded ==
  ASSUME NEW octets \in Seq(Octets), NEW n \in Nat, 2 * n <= Len(octets)
  PROVE  LET t == decodeUCS2(octets, n)
         IN  /\ t \in Seq(Octets) /\ Len(t) = n
             /\ \A i \in 1 .. n : t[i] = Wide(octets[2*i - 1], octets[2*i])
<1> DEFINE t == decodeUCS2(octets, n)
           v(i) == Wide(octets[2*i - 1], octets[2*i])
<1>1. t = [i \in 1 .. n |-> v(i)]
  BY DEF decodeUCS2, Wide
<1>2. ASSUME NEW i \in 1 .. n PROVE v(i) \in Octets
  <2>1. Len(octets) \in Nat
    OBVIOUS
  <2>2. 2*i - 1 \in 1 .. Len(octets) /\ 2*i \in 1 .. Len(octets)
    BY <2>1
  <2>3. octets[2*i - 1] \in Octets /\ octets[2*i] \in Octets
    BY <2>2, ElementOfSeq
  <2> QED BY <2>3, WideType
<1> HIDE DEF t, v
<1>3. t \in Seq(Octets) /\ Len(t) = n /\ \A i \in 1 .. n : t[i] = v(i)
  BY <1>1, <1>2
<1> QED BY <1>3 DEF t, v

Halved(l, p, max) ==
  Least(l - p, max) \div 2 = Least((l \div 2) - (p \div 2), max \div 2)

LEMMA Halves ==
  ASSUME NEW l \in Nat, NEW p \in Nat, p % 2 = 0, NEW max \in Nat, max % 2 = 0, p <= l
  PROVE  Halved(l, p, max)
<1> USE DEF Halved
<1>1. CASE l - p < max
  BY <1>1 DEF Least
<1>2. CASE ~(l - p < max)
  BY <1>2 DEF Least
<1> QED BY <1>1, <1>2

\* Segments of UCS2 have whole characters.
LEMMA EvenParts ==
  ASSUME NEW c \in Calls, ~Refused(c), c.encoding = "UCS2", NEW n \in 1 .. TotalParts(c)
  PROVE  LET size == MaxBytes(c) \div 2
         IN  /\ MaxBytes(c) % 2 = 0 /\ TextBefore(c, n) % 2 = 0
             /\ TextBefore(c, n) \div 2 = (n - 1) * size
             /\ n * size = (n - 1) * size + size
<1> DEFINE max == MaxBytes(c)
           p == TextBefore(c, n)
<1>1. max \in Nat
  BY Sizes
<1>2. max % 2 = 0
  <2>1. max = MaxOctets \/ max = MaxOctets - 6
    BY DEF MaxBytes, PartSize, Single, HeaderLen
  <2> HIDE DEF max
  <2> QED BY <2>1, OctetsAssumption, SizesAssumption
<1>3. p = (n - 1) * max
  BY DEF TextBefore
<1> HIDE DEF max, p
<1>4. n = 1 \/ n = 2 \/ n = 3
  <2>1. n \in 1 .. 3
    BY Parts
  <2> QED BY <2>1
<1>5. PICK half \in Nat : max = 2 * half
  <2>1. max \div 2 \in Nat /\ max = 2 * (max \div 2)
    BY <1>1, <1>2
  <2> QED BY <2>1
<1>6. max \div 2 = half
  BY <1>5
<1>7. p % 2 = 0 /\ p \div 2 = (n - 1) * half /\ n * half = (n - 1) * half + half
  <2>1. CASE n = 1
    BY <1>3, <1>5, <2>1
  <2>2. CASE n = 2
    BY <1>3, <1>5, <2>2
  <2>3. CASE n = 3
    BY <1>3, <1>5, <2>3
  <2> QED BY <1>4, <2>1, <2>2, <2>3
<1> QED BY <1>2, <1>6, <1>7 DEF max, p

\* What the application asked for, two octets at a time.
LEMMA AsciiUcs2 ==
  ASSUME Legible, NEW c \in Calls, c.encoding = "UCS2"
  PROVE  /\ Ascii(c) \in Seq(Octets) /\ Len(Ascii(c)) = Length(c) \div 2
         /\ \A j \in 1 .. Length(c) \div 2 : Ascii(c)[j] = Wide(Encoded(c)[2*j - 1], Encoded(c)[2*j])
<1> DEFINE com == c.comment
           d == c.data
           q == Len(com)
           r == Len(d) \div 2
           dat == decodeUCS2(d, r)
           asc == com \o dat
           all == Encoded(c)
           l == Length(c)
<1>1. com \in Seq(0 .. 127) /\ d \in Seq(Octets)
  BY OctetsAssumption DEF Legible, Octets
<1>2. q \in Nat /\ Len(d) \in Nat /\ r \in Nat /\ 2 * r <= Len(d)
  <2>1. q \in Nat /\ Len(d) \in Nat
    BY <1>1, LenProperties
  <2>2. PICK z \in Nat : z = Len(d)
    BY <2>1
  <2>3. z \div 2 \in Nat /\ 2 * (z \div 2) <= z
    OBVIOUS
  <2> QED BY <2>1, <2>2, <2>3
<1>3. dat \in Seq(Octets) /\ Len(dat) = r /\ \A i \in 1 .. r : dat[i] = Wide(d[2*i - 1], d[2*i])
  <2> HIDE DEF r, d
  <2> QED BY <1>1, <1>2, WideDecoded
<1>4. com \in Seq(Octets) /\ \A j \in 1 .. q : com[j] \in 0 .. 127
  <2>1. \A j \in 1 .. q : com[j] \in 0 .. 127
    BY <1>1, ElementOfSeq
  <2>2. \A j \in 1 .. q : com[j] \in Octets
    <3>1. 0 .. 127 \subseteq Octets
      BY DEF Octets
    <3> HIDE DEF q, com
    <3> QED BY <2>1, <3>1
  <2> QED BY <1>1, <2>1, <2>2, Retyped
<1>5. Ascii(c) = asc
  BY DEF Ascii
<1>6. CommentLen(c) = 2 * q
  BY DEF CommentLen
<1>7. l = 2 * q + Len(d) /\ \A j \in 1 .. l : all[j] = IF j <= 2 * q THEN CommentAt(c, j) ELSE d[j - 2 * q]
  BY <1>6, EncodedPlaces DEF Length
<1> HIDE DEF com, dat, all, q, r, l, d
<1>8. /\ asc \in Seq(Octets) /\ Len(asc) = q + r
      /\ \A j \in 1 .. q + r : asc[j] = IF j <= q THEN com[j] ELSE dat[j - q]
  <2>1. com \in Seq(Octets) /\ dat \in Seq(Octets)
    BY <1>3, <1>4
  <2>2. Len(com) = q
    BY DEF q
  <2>3. /\ asc \in Seq(Octets) /\ Len(asc) = Len(com) + Len(dat)
        /\ \A j \in 1 .. Len(com) + Len(dat) : asc[j] = IF j <= Len(com) THEN com[j] ELSE dat[j - Len(com)]
    BY <2>1, ConcatProperties
  <2> HIDE DEF asc
  <2> QED BY <1>3, <2>2, <2>3
<1> HIDE DEF asc
<1>9. l \div 2 = q + r
  <2> DEFINE z == Len(d)
  <2>1. z \in Nat /\ l = 2 * q + z /\ r = z \div 2
    BY <1>2, <1>7 DEF r
  <2> HIDE DEF z
  <2> QED BY <1>2, <2>1
<1>10. ASSUME NEW j \in 1 .. q + r PROVE asc[j] = Wide(all[2*j - 1], all[2*j])
  <2>0. 2*j - 1 \in 1 .. l /\ 2*j \in 1 .. l
    <3> DEFINE z == Len(d)
    <3>1. z \in Nat /\ l = 2 * q + z /\ 2 * r <= z
      BY <1>2, <1>7
    <3> HIDE DEF z
    <3> QED BY <1>2, <3>1
  <2> PICK a \in 1 .. l, b \in 1 .. l : a = 2*j - 1 /\ b = 2*j
    BY <2>0
  <2>1. CASE j <= q
    <3>1. a <= 2 * q /\ b <= 2 * q /\ a % 2 = 1 /\ b % 2 # 1 /\ b \div 2 = j /\ j \in 1 .. q
      BY <1>2, <2>1
    <3>2. all[a] = CommentAt(c, a) /\ all[b] = CommentAt(c, b)
      BY <1>7, <3>1
    <3>3. CommentAt(c, a) = 0 /\ CommentAt(c, b) = com[j]
      BY <3>1 DEF CommentAt, com
    <3>4. com[j] \in 0 .. 127
      BY <1>4, <3>1
    <3>5. Wide(0, com[j]) = com[j]
      BY <3>4 DEF Wide
    <3>6. asc[j] = com[j]
      BY <1>8, <2>1
    <3> QED BY <3>2, <3>3, <3>5, <3>6
  <2>2. CASE ~(j <= q)
    <3> PICK i \in 1 .. r : i = j - q
      BY <1>2, <2>2
    <3>1. ~(a <= 2 * q) /\ ~(b <= 2 * q) /\ a - 2 * q = 2*i - 1 /\ b - 2 * q = 2*i
      BY <1>2, <2>2
    <3>2. all[a] = d[2*i - 1] /\ all[b] = d[2*i]
      BY <1>7, <3>1
    <3>3. asc[j] = dat[i]
      BY <1>8, <2>2
    <3> QED BY <1>3, <3>2, <3>3
  <2> QED BY <2>1, <2>2
<1> QED BY <1>5, <1>8, <1>9, <1>10 DEF all, l

\* The text of a segment of UCS2.
LEMMA Ucs2Text ==
  ASSUME Legible, NEW c \in Calls, ~Refused(c), c.encoding = "UCS2", NEW n \in 1 .. TotalParts(c)
  PROVE  decodeUCS2(TextOf(c, n), Len(TextOf(c, n)) \div 2) = SegmentText(c, n)
<1> DEFINE max == MaxBytes(c)
           size == max \div 2
           l == Length(c)
           p == TextBefore(c, n)
           k == Least(l - p, max)
           all == Encoded(c)
           asc == Ascii(c)
           txt == TextOf(c, n)
           before == (n - 1) * size
           h == k \div 2
           dec == decodeUCS2(txt, h)
           seg == SubSeq(asc, before + 1, before + h)
<1>1. /\ p \in Nat /\ k \in 0 .. max /\ p + k <= l /\ max \in Nat /\ l \in Nat
      /\ txt \in Seq(Octets) /\ Len(txt) = k
      /\ \A i \in 1 .. k : txt[i] = all[p + i]
  BY TextPlaces, Sizes
<1>2. max % 2 = 0 /\ p % 2 = 0 /\ p \div 2 = before /\ n * size = before + size
  BY EvenParts
<1>3. /\ asc \in Seq(Octets) /\ Len(asc) = l \div 2
      /\ \A j \in 1 .. l \div 2 : asc[j] = Wide(all[2*j - 1], all[2*j])
  BY AsciiUcs2
<1>4. SegmentText(c, n) = SubSeq(asc, before + 1, Least(n * size, Len(asc)))
  BY DEF SegmentText
<1>5. h = Least((l \div 2) - (p \div 2), max \div 2)
  <2> HIDE DEF max, l, p, k
  <2>1. p <= l
    BY <1>1
  <2>2. Halved(l, p, max)
    BY <1>1, <1>2, <2>1, Halves, Zenon
  <2> QED BY <2>2 DEF Halved, k
<1>6. k = Least(l - p, max)
  OBVIOUS
<1> HIDE DEF max, l, p, k, all, asc, txt, before
<1>7. h \in Nat /\ 2 * h <= k /\ before \in Nat /\ before + h <= l \div 2 /\ p = 2 * before
  <2>1. k \in Nat /\ p \in Nat /\ l \in Nat /\ p + k <= l /\ p % 2 = 0 /\ p \div 2 = before
    BY <1>1, <1>2
  <2> QED BY <2>1
<1>8. before + h = Least(n * size, l \div 2)
  <2>1. h = Least((l \div 2) - before, size)
    BY <1>2, <1>5
  <2> DEFINE a == l \div 2
  <2>2. a \in Nat /\ size \in Nat
    BY <1>1
  <2> HIDE DEF size, h, a
  <2>3. h = IF a - before < size THEN a - before ELSE size
    BY <2>1 DEF Least, a
  <2>4. before + h = IF before + size < a THEN before + size ELSE a
    BY <1>7, <2>2, <2>3
  <2> QED BY <1>2, <2>4 DEF Least, a
<1>9. SegmentText(c, n) = seg
  BY <1>3, <1>4, <1>8
<1> HIDE DEF h, size
<1>10. dec \in Seq(Octets) /\ Len(dec) = h /\ \A i \in 1 .. h : dec[i] = Wide(txt[2*i - 1], txt[2*i])
  <2>1. h \in Nat /\ txt \in Seq(Octets) /\ 2 * h <= Len(txt)
    BY <1>1, <1>7
  <2> HIDE DEF dec
  <2>2. dec = decodeUCS2(txt, h)
    BY DEF dec
  <2> QED BY <2>1, <2>2, WideDecoded
<1>11. ASSUME NEW i \in 1 .. h
       PROVE  before + i \in 1 .. Len(asc) /\ asc[before + i] = Wide(txt[2*i - 1], txt[2*i])
  <2> PICK j \in 1 .. l \div 2 : j = before + i
    BY <1>1, <1>7
  <2> PICK a \in 1 .. k, b \in 1 .. k : a = 2*i - 1 /\ b = 2*i
    BY <1>1, <1>7
  <2>1. txt[a] = all[p + a] /\ txt[b] = all[p + b]
    BY <1>1
  <2>2. p + a = 2*j - 1 /\ p + b = 2*j
    BY <1>1, <1>7
  <2>3. asc[j] = Wide(all[2*j - 1], all[2*j])
    BY <1>3
  <2>4. asc[j] = Wide(txt[a], txt[b])
    BY <2>1, <2>2, <2>3
  <2>5. j \in 1 .. Len(asc)
    BY <1>3
  <2> QED BY <2>4, <2>5
<1>12. seg \in Seq(Octets) /\ Len(seg) = h /\ \A i \in 1 .. h : seg[i] = asc[before + i]
  <2>1. \A i \in 1 .. h : asc[before + i] \in Octets
    BY <1>3, <1>11, ElementOfSeq
  <2>2. before \in Nat /\ h \in Nat
    BY <1>7
  <2>3. IsCut(seg, asc, before, h, Octets)
    BY <2>1, <2>2, Cutout, Zenon
  <2> HIDE DEF seg
  <2> QED BY <2>3 DEF IsCut
<1> HIDE DEF seg, dec
<1>13. dec = seg
  <2>1. \A i \in 1 .. h : dec[i] = seg[i]
    BY <1>10, <1>11, <1>12
  <2> QED BY <1>10, <1>12, <2>1, SameElements
<1>14. decodeUCS2(txt, Len(txt) \div 2) = dec
  BY <1>1 DEF dec, h
<1> QED BY <1>9, <1>13, <1>14 DEF txt

\* What read() makes of a segment, on its way from sendSingle() over the network.
LEMMA SegmentComesBack ==
  ASSUME Legible, NEW c \in Calls, ~Refused(c), NEW reference \in 0 .. References - 1,
         NEW n \in 1 .. TotalParts(c)
  PROVE  LET q   == Deliver(Submit(c, reference, n, TextOf(c, n)), <<145, 51>>, OwnAddress)
             msg == DecodePdu(FromHex(HexOf(q)))
         IN  q # <<>> /\ msg.ok /\ msg.sender = <<43, 49, 50, 51>> /\ msg.decoded = SegmentText(c, n)
<1> DEFINE text == TextOf(c, n)
           p == Submit(c, reference, n, text)
           user == UserOf(c, reference, n, text)
           udl == UserDataLength(c, Len(text))
           dcs == Dcs(c)
           flags == IF Multipart(c) THEN 64 ELSE 0
           data == UserData(dcs, udl, IF Multipart(c) THEN user[1] + 1 ELSE 0, user)
           q == Deliver(p, <<145, 51>>, OwnAddress)
           msg == DecodePdu(FromHex(HexOf(q)))
<1>1. text \in Seq(Octets) /\ Len(text) <= MaxBytes(c) /\ Len(text) \in Nat
  <2>1. MaxBytes(c) \in Nat
    BY Sizes
  <2> QED BY <2>1, TextPlaces
<1>2. c.encoding = "GSM" \/ c.encoding = "UCS2"
  BY CallsAssumption DEF Refused
<1>3. c.encoding = "GSM" => text \in Seq(0 .. 127)
  BY GsmText
<1> HIDE DEF text
<1>4. /\ p[2] = IF Multipart(c) THEN 65 ELSE 1
      /\ p[FirstUserOctet(p) + 1] = dcs
      /\ SubSeq(p, FirstUserOctet(p) + 2, Len(p)) = <<udl>> \o user
  BY <1>1, Submitted DEF text
<1> HIDE DEF p
<1>5. user \in Seq(Octets) /\ Len(user) <= MaxOctets
  BY <1>1, UserFits
<1>6. udl \in Octets /\ dcs \in {0, 8} /\ flags \in {0, 64}
  <2>1. udl \in Octets
    BY <1>1, LengthFits
  <2> QED BY <2>1 DEF Dcs
<1>7. data.ok /\ data.raw = text
  BY <1>1, <1>3, UserBack
<1> HIDE DEF user, udl, dcs
<1>8. SentAs(p, flags, dcs, udl, user)
  <2>1. flags = IF p[2] >= 64 THEN 64 ELSE 0
    BY <1>4
  <2> HIDE DEF flags
  <2> QED BY <1>4, <2>1 DEF SentAs
<1>9. DataOf(data, flags, dcs, udl, user)
  BY <1>7 DEF DataOf
<1> HIDE DEF data, flags
<1>10. SenderSize >= 5
  BY DEF Legible
<1>11. q # <<>> /\ ReadAs(msg, dcs, data)
  BY <1>5, <1>6, <1>8, <1>9, <1>10, DeliveredBack
<1> HIDE DEF q, msg
<1>12. msg.decoded = SegmentText(c, n)
  <2>1. CASE c.encoding = "GSM"
    <3>1. dcs = 0
      BY <2>1 DEF dcs, Dcs
    <3>2. decodeGSM(text) = SegmentText(c, n)
      BY <2>1, GsmText DEF text
    <3> QED BY <1>7, <1>11, <3>1, <3>2 DEF ReadAs
  <2>2. CASE c.encoding = "UCS2"
    <3>1. dcs = 8
      BY <2>2 DEF dcs, Dcs
    <3>2. decodeUCS2(text, Len(text) \div 2) = SegmentText(c, n)
      BY <2>2, Ucs2Text DEF text
    <3> QED BY <1>7, <1>11, <3>1, <3>2 DEF ReadAs
  <2> QED BY <1>2, <2>1, <2>2
<1> QED BY <1>11, <1>12 DEF ReadAs, msg, q, p, text

LEMMA AirIsRead ==
  ASSUME Legible, IInv, PduInv
  PROVE  ReadIsSent
<1> SUFFICES ASSUME NEW a \in air
             PROVE  /\ a.pdu[4] = Len(log[a.id].call.to.digits)
                    /\ extractBcdDigits(SubSeq(a.pdu, 6, Len(a.pdu)), a.pdu[4]) = log[a.id].call.to.digits
                    /\ inbox.pdu = Deliver(a.pdu, <<145, 51>>, OwnAddress) =>
                         /\ inbox.msg.ok
                         /\ inbox.msg.sender = <<43, 49, 50, 51>>
                         /\ inbox.msg.decoded = SegmentText(log[a.id].call, a.sequence)
  BY DEF ReadIsSent
<1> DEFINE e == log[a.id]
           c == e.call
           ref == e.reference
           n == a.sequence
           p == a.pdu
           text == TextOf(c, n)
<1>1. /\ c \in Calls /\ ~Refused(c) /\ ref \in 0 .. References - 1 /\ n \in 1 .. TotalParts(c)
      /\ text \in Seq(Octets) /\ Len(text) <= MaxBytes(c)
      /\ p = Submit(c, ref, n, text)
  BY AirSubmitted
<1> HIDE DEF c, ref, n, p
<1>2. /\ p[4] = Len(c.to.digits)
      /\ extractBcdDigits(SubSeq(p, 6, Len(p)), p[4]) = c.to.digits
  <2> HIDE DEF text
  <2> QED BY <1>1, Submitted
<1>3. ASSUME inbox.pdu = Deliver(p, <<145, 51>>, OwnAddress)
      PROVE  /\ inbox.msg.ok /\ inbox.msg.sender = <<43, 49, 50, 51>>
             /\ inbox.msg.decoded = SegmentText(c, n)
  <2> DEFINE q == inbox.pdu
  <2>1. LET msg == DecodePdu(FromHex(HexOf(q)))
        IN  q # <<>> /\ msg.ok /\ msg.sender = <<43, 49, 50, 51>> /\ msg.decoded = SegmentText(c, n)
    BY <1>1, <1>3, SegmentComesBack
  <2>2. inbox.msg = DecodePdu(FromHex(HexOf(q)))
    BY <2>1 DEF PduInv, InboxOK, Nothing
  <2> QED BY <2>1, <2>2
<1> QED BY <1>2, <1>3 DEF c, n, p, e

\* What read() makes of every segment that was sent is the text of that segment and its
\* sender, and the segment went to the number asked for: for every text of seven-bit characters
\* or of UCS2 with an ASCII comment, every size of an SMS and every reference number.
THEOREM SentIsRead ==
  ASSUME Legible
  PROVE  Spec => []ReadIsSent
<1>1. IInv /\ PduInv => ReadIsSent
  BY AirIsRead
<1> QED BY <1>1, InitIInv, NextIInv, InitPduInv, NextPduInv, PTL DEF Spec

-----------------------------------------------------------------------------
(* Messages of other phones *)

Concat(s, t, w) == w = s \o t

LEMMA Ends ==
  ASSUME NEW S, NEW s \in Seq(S), NEW t \in Seq(S), NEW w, Concat(s, t, w)
  PROVE  /\ w \in Seq(S) /\ Len(w) = Len(s) + Len(t)
         /\ \A i \in 1 .. Len(s) : w[i] = s[i]
         /\ \A i \in 1 .. Len(t) : w[Len(s) + i] = t[i]
<1>1. /\ w \in Seq(S) /\ Len(w) = Len(s) + Len(t)
      /\ \A i \in 1 .. Len(s) + Len(t) : w[i] = IF i <= Len(s) THEN s[i] ELSE t[i - Len(s)]
  BY ConcatProperties DEF Concat
<1>2. Len(s) \in Nat /\ Len(t) \in Nat
  OBVIOUS
<1>3. ASSUME NEW i \in 1 .. Len(s) PROVE w[i] = s[i]
  BY <1>1, <1>2
<1>4. ASSUME NEW i \in 1 .. Len(t) PROVE w[Len(s) + i] = t[i]
  <2>1. Len(s) + i \in 1 .. Len(s) + Len(t) /\ ~(Len(s) + i <= Len(s)) /\ (Len(s) + i) - Len(s) = i
    BY <1>2
  <2> QED BY <1>1, <2>1
<1> QED BY <1>1, <1>3, <1>4

\* The number of octets that are no text, fields where read() looks for them.
PhonePlaces(q, a, b, m, address, udl, user) ==
  /\ q \in Seq(Octets) /\ Len(q) = 14 + a + b + Len(user)
  /\ q[1] = a /\ q[a + 2] = m.flags /\ q[a + 3] = m.size /\ q[a + 4] = m.type
  /\ SubSeq(q, a + 5, a + 4 + b) = address
  /\ q[a + b + 6] = m.dcs /\ q[a + b + 14] = udl
  /\ SubSeq(q, a + b + 15, Len(q)) = user

\* FromPhone(), in its pieces.
Pieced(q, x, smsc, y, address, z, header, data) == q = x \o smsc \o y \o address \o z \o header \o data

OctetsOf(t, n) == t \in Seq(Octets) /\ Len(t) = n

LEMMA PhonePlaced ==
  ASSUME NEW m, NEW smsc \in Seq(Octets), NEW address \in Seq(Octets), NEW header \in Seq(Octets),
         NEW data \in Seq(Octets), NEW udl, NEW q, NEW x, NEW y, NEW z,
         Pieced(q, x, smsc, y, address, z, header, data),
         OctetsOf(x, 1), x[1] = Len(smsc),
         OctetsOf(y, 3), y[1] = m.flags, y[2] = m.size, y[3] = m.type,
         OctetsOf(z, 10), z[2] = m.dcs, z[10] = udl
  PROVE  PhonePlaces(q, Len(smsc), Len(address), m, address, udl, header \o data)
<1>1. PICK a, b : a = Len(smsc) /\ b = Len(address)
  OBVIOUS
<1>2. a \in Nat /\ b \in Nat
  BY <1>1
<1>3. x \in Seq(Octets) /\ Len(x) = 1 /\ x[1] = a
  BY <1>1 DEF OctetsOf
<1>4. y \in Seq(Octets) /\ Len(y) = 3
  BY DEF OctetsOf
<1>5. z \in Seq(Octets) /\ Len(z) = 10
  BY DEF OctetsOf
<1>6. PICK s1, s2, s3, s4, user :
        /\ Concat(x, smsc, s1) /\ Concat(s1, y, s2) /\ Concat(s2, address, s3) /\ Concat(s3, z, s4)
        /\ Concat(header, data, user)
  BY DEF Concat
<1>7. q = (s4 \o header) \o data
  BY <1>6, Zenon DEF Concat, Pieced
<1>8. s1 \in Seq(Octets) /\ Len(s1) = 1 + a /\ s1[1] = a
  <2>2. x \in Seq(Octets) /\ smsc \in Seq(Octets) /\ Concat(x, smsc, s1)
    BY <1>3, <1>6
  <2>1. /\ s1 \in Seq(Octets) /\ Len(s1) = Len(x) + Len(smsc)
        /\ \A i \in 1 .. Len(x) : s1[i] = x[i]
    BY ONLY <2>2, Ends
  <2> QED BY <1>1, <1>3, <2>1
<1>9. /\ s2 \in Seq(Octets) /\ Len(s2) = 4 + a /\ s2[1] = a
      /\ s2[a + 2] = m.flags /\ s2[a + 3] = m.size /\ s2[a + 4] = m.type
  <2>5. s1 \in Seq(Octets) /\ y \in Seq(Octets) /\ Concat(s1, y, s2)
    BY <1>4, <1>6, <1>8
  <2>1. /\ s2 \in Seq(Octets) /\ Len(s2) = Len(s1) + Len(y)
        /\ \A i \in 1 .. Len(s1) : s2[i] = s1[i]
        /\ \A i \in 1 .. Len(y) : s2[Len(s1) + i] = y[i]
    BY ONLY <2>5, Ends
  <2>2. 1 \in 1 .. Len(s1) /\ \A i \in 1 .. 3 : s2[1 + a + i] = y[i]
    BY <1>2, <1>4, <1>8, <2>1
  <2>3. 1 + a + 1 = a + 2 /\ 1 + a + 2 = a + 3 /\ 1 + a + 3 = a + 4 /\ 1 + a + 3 = 4 + a
    BY <1>2
  <2>4. s2[a + 2] = y[1] /\ s2[a + 3] = y[2] /\ s2[a + 4] = y[3]
    BY <2>2, <2>3
  <2> QED BY <1>2, <1>4, <1>8, <2>1, <2>2, <2>4
<1>10. /\ s3 \in Seq(Octets) /\ Len(s3) = 4 + a + b
       /\ \A i \in 1 .. 4 + a : s3[i] = s2[i]
       /\ \A i \in 1 .. b : s3[4 + a + i] = address[i]
  <2>2. s2 \in Seq(Octets) /\ address \in Seq(Octets) /\ Concat(s2, address, s3)
    BY <1>6, <1>9
  <2>1. /\ s3 \in Seq(Octets) /\ Len(s3) = Len(s2) + Len(address)
        /\ \A i \in 1 .. Len(s2) : s3[i] = s2[i]
        /\ \A i \in 1 .. Len(address) : s3[Len(s2) + i] = address[i]
    BY ONLY <2>2, Ends
  <2> QED BY <1>1, <1>9, <2>1
<1>11. /\ s4 \in Seq(Octets) /\ Len(s4) = 14 + a + b
       /\ \A i \in 1 .. 4 + a + b : s4[i] = s3[i]
       /\ \A i \in 1 .. 10 : s4[4 + a + b + i] = z[i]
  <2>3. s3 \in Seq(Octets) /\ z \in Seq(Octets) /\ Concat(s3, z, s4)
    BY <1>5, <1>6, <1>10
  <2>1. /\ s4 \in Seq(Octets) /\ Len(s4) = Len(s3) + Len(z)
        /\ \A i \in 1 .. Len(s3) : s4[i] = s3[i]
        /\ \A i \in 1 .. Len(z) : s4[Len(s3) + i] = z[i]
    BY ONLY <2>3, Ends
  <2>2. Len(s3) + Len(z) = 14 + a + b
    BY <1>2, <1>5, <1>10
  <2> QED BY <1>5, <1>10, <2>1, <2>2
<1>12. user \in Seq(Octets)
  BY ONLY <1>6, header \in Seq(Octets), data \in Seq(Octets), Ends
<1>13. q = s4 \o user
  <2>1. Associative(s4, header, data)
    BY <1>11, Regrouped, Zenon
  <2> QED BY <1>6, <1>7, <2>1, Zenon DEF Associative, Concat
<1>14. /\ q \in Seq(Octets) /\ Len(q) = Len(s4) + Len(user)
       /\ \A i \in 1 .. Len(s4) : q[i] = s4[i]
  <2>1. s4 \in Seq(Octets) /\ user \in Seq(Octets) /\ Concat(s4, user, q)
    BY <1>11, <1>12, <1>13 DEF Concat
  <2> QED BY ONLY <2>1, Ends
<1>15. Len(q) = 14 + a + b + Len(user) /\ Len(user) \in Nat
  BY <1>11, <1>12, <1>14
<1>16. \A i \in 1 .. 4 + a : q[i] = s2[i]
  <2>1. \A i \in 1 .. 4 + a : i \in 1 .. 4 + a + b /\ i \in 1 .. 14 + a + b
    BY ONLY <1>2
  <2> QED BY <1>10, <1>11, <1>14, <2>1
<1>17. q[1] = a /\ q[a + 2] = m.flags /\ q[a + 3] = m.size /\ q[a + 4] = m.type
  <2>1. 1 \in 1 .. 4 + a /\ a + 2 \in 1 .. 4 + a /\ a + 3 \in 1 .. 4 + a /\ a + 4 \in 1 .. 4 + a
    BY ONLY <1>2
  <2> QED BY <1>9, <1>16, <2>1
<1>18. q[a + b + 6] = m.dcs /\ q[a + b + 14] = udl
  <2>1. /\ 4 + a + b + 2 = a + b + 6 /\ 4 + a + b + 10 = a + b + 14
        /\ a + b + 6 \in 1 .. 14 + a + b /\ a + b + 14 \in 1 .. 14 + a + b
    BY <1>2
  <2>2. s4[4 + a + b + 2] = z[2] /\ s4[4 + a + b + 10] = z[10]
    BY <1>11
  <2>3. s4[a + b + 6] = m.dcs /\ s4[a + b + 14] = udl
    BY <2>1, <2>2
  <2> QED BY <1>11, <1>14, <2>1, <2>3
<1>19. SubSeq(q, a + 5, a + 4 + b) = address
  <2>1. ASSUME NEW i \in 1 .. b PROVE q[(4 + a) + i] = address[i] /\ q[(4 + a) + i] \in Octets
    <3>1. (4 + a) + i = 4 + a + i /\ 4 + a + i \in 1 .. 4 + a + b /\ 4 + a + i \in 1 .. 14 + a + b
      BY <1>2
    <3>2. q[4 + a + i] = address[i]
      BY <1>10, <1>11, <1>14, <3>1
    <3>3. address[i] \in Octets
      BY <1>1, ElementOfSeq
    <3> QED BY <3>1, <3>2, <3>3
  <2>2. PICK p : p = 4 + a
    OBVIOUS
  <2>3. p \in Nat /\ p + 1 = a + 5 /\ p + b = a + 4 + b
    BY <1>2, <2>2
  <2>4. \A i \in 1 .. b : q[p + i] \in Octets
    BY <2>1, <2>2
  <2>5. IsCut(SubSeq(q, p + 1, p + b), q, p, b, Octets)
    BY <1>2, <2>3, <2>4, Cutout
  <2>6. PICK sub : sub = SubSeq(q, p + 1, p + b)
    OBVIOUS
  <2>7. sub \in Seq(Octets) /\ Len(sub) = b /\ \A i \in 1 .. b : sub[i] = q[p + i]
    BY <2>5, <2>6 DEF IsCut
  <2>8. sub \in Seq(Octets) /\ Len(sub) = Len(address) /\ \A i \in 1 .. Len(sub) : sub[i] = address[i]
    BY <1>1, <2>1, <2>2, <2>7
  <2>9. sub = address
    BY <2>8, SameElements
  <2> QED BY <2>3, <2>6, <2>9
<1>20. SubSeq(q, a + b + 15, Len(q)) = user
  <2>1. a + b + 15 = Len(s4) + 1
    <3>1. Len(s4) = 14 + a + b
      BY <1>11
    <3> QED BY ONLY <1>2, <3>1
  <2> QED BY <1>11, <1>12, <1>13, <2>1, Behind
<1>21. PhonePlaces(q, a, b, m, address, udl, user)
  BY <1>14, <1>15, <1>17, <1>18, <1>19, <1>20 DEF PhonePlaces
<1> QED BY <1>1, <1>6, <1>21 DEF Concat


LEMMA OctetsAt == \A o \in Seq(0 .. 255) : \A j \in Int : OctetAt(o, j) \in 0 .. 255
BY OctetAtType

\* The character in one octet or in two is what unpack7Bit() takes out.
LEMMA CharInOctets ==
  ASSUME NEW o \in Seq(Octets), NEW f \in 0 .. 6, NEW k \in Nat, f + 7 * k + 7 <= 8 * Len(o)
  PROVE  CharIn(o, f, k) = Unpacked(o, f, k)
<1>1. PICK w, r, n : w = Whole(f, k) /\ r = Bit(f, k) /\ n = Len(o)
  OBVIOUS
<1>2. w \in Nat /\ r \in 0 .. 7 /\ f + 7 * k = 8 * w + r /\ n \in Nat
  <2>1. /\ Whole(f, k) \in Nat /\ Bit(f, k) \in 0 .. 7
        /\ f + 7 * k = 8 * Whole(f, k) + Bit(f, k)
    BY UnpackPlaces
  <2>2. Len(o) \in Nat
    OBVIOUS
  <2> QED BY <1>1, <2>1, <2>2
<1>3. w + 1 \in 1 .. n /\ (r > 1 => w + 2 \in 1 .. n)
  <2>1. 8 * w + r + 7 <= 8 * n
    BY <1>1, <1>2
  <2> QED BY ONLY <1>2, <2>1
<1>4. PICK p, q, a, b : p = 2^r /\ q = 2^(8 - r) /\ a = OctetAt(o, w + 1) /\ b = OctetAt(o, w + 2)
  OBVIOUS
<1>5. Unpacked(o, f, k) = (a \div p + b * q) % 128
  BY <1>1, <1>4 DEF Unpacked
<1>6. a = o[w + 1] /\ (r > 1 => b = o[w + 2])
  BY <1>1, <1>3, <1>4 DEF OctetAt
<1>7. CharIn(o, f, k) = (a \div p + (IF r > 1 THEN b * q ELSE 0)) % 128
  <2>1. (w + 1) + 1 = w + 2
    BY <1>2
  <2>2. /\ (f + 7 * k) \div 8 = w /\ (f + 7 * k) % 8 = r
    BY <1>1 DEF Whole, Bit
  <2>3. CharIn(o, f, k) = (o[w + 1] \div 2^r + (IF r > 1 THEN o[(w + 1) + 1] * 2^(8 - r) ELSE 0)) % 128
    BY <2>2 DEF CharIn
  <2>4. CASE r > 1
    BY <1>4, <1>6, <2>1, <2>3, <2>4
  <2>5. CASE ~(r > 1)
    BY <1>4, <1>6, <2>3, <2>5
  <2> QED BY <2>4, <2>5
<1>8. CASE r > 1
  BY <1>5, <1>7, <1>8
<1>9. CASE ~(r > 1)
  <2>1. a \in Nat /\ b \in Nat
    <3>1. PICK i, j : i = w + 1 /\ j = w + 2
      OBVIOUS
    <3>2. o \in Seq(0 .. 255) /\ i \in Int /\ j \in Int
      BY <1>2, <3>1 DEF Octets
    <3>3. OctetAt(o, i) \in 0 .. 255 /\ OctetAt(o, j) \in 0 .. 255
      BY <3>2, OctetsAt, Zenon
    <3>4. a \in 0 .. 255 /\ b \in 0 .. 255
      BY <1>4, <3>1, <3>3, Zenon
    <3> QED BY ONLY <3>4
  <2>2. p \in {1, 2} /\ q \in {128, 256}
    <3>1. CASE r = 0
      BY <1>4, <3>1
    <3>2. CASE r = 1
      BY <1>4, <3>2
    <3> QED BY <1>2, <1>9, <3>1, <3>2
  <2>3. PICK c \in Nat : c = a \div p
    <3>1. CASE p = 1
      BY <2>1, <3>1
    <3>2. CASE p = 2
      BY <2>1, <3>2
    <3> QED BY <2>2, <3>1, <3>2
  <2>4. (c + b * q) % 128 = c % 128
    <3>1. CASE q = 128
      BY <2>1, <3>1
    <3>2. CASE q = 256
      BY <2>1, <3>2
    <3> QED BY <2>2, <3>1, <3>2
  <2>5. c + 0 = c
    OBVIOUS
  <2> QED BY <1>5, <1>7, <1>9, <2>3, <2>4, <2>5
<1> QED BY <1>8, <1>9

LEMMA Spelled ==
  ASSUME NEW o \in Seq(Octets), NEW f \in 0 .. 6, NEW text \in Seq(Nat), Spells(o, f, text)
  PROVE  decodeGSM(unpack7Bit(o, Len(text), f)) = text
<1>1. PICK n : n = Len(text)
  OBVIOUS
<1>2. n \in Nat /\ Len(o) \in Nat /\ f + 7 * n <= 8 * Len(o) /\ o \in Seq(0 .. 255)
  BY <1>1 DEF Spells, Octets
<1>3. unpack7Bit(o, n, f) = UnpackedChars(o, f, n)
  BY ONLY <1>2, Unpacking
<1>4. ASSUME NEW k \in 1 .. n PROVE DecodeChar(Unpacked(o, f, k - 1)) = text[k]
  <2>1. k - 1 \in Nat /\ f + 7 * (k - 1) + 7 <= 8 * Len(o)
    BY <1>2
  <2>2. CharIn(o, f, k - 1) = Unpacked(o, f, k - 1)
    BY <2>1, CharInOctets
  <2> QED BY <1>1, <2>2 DEF Spells
<1>5. PICK u : u = UnpackedChars(o, f, n)
  OBVIOUS
<1>6. u = [k \in 1 .. n |-> Unpacked(o, f, k - 1)]
  BY <1>5 DEF UnpackedChars
<1>7. Len(u) = n
  BY <1>2, <1>6
<1>8. decodeGSM(u) = [k \in 1 .. n |-> DecodeChar(u[k])]
  BY <1>7 DEF decodeGSM
<1>9. decodeGSM(u) = [k \in 1 .. n |-> text[k]]
  BY <1>4, <1>6, <1>8
<1>10. text = [k \in 1 .. n |-> text[k]]
  BY <1>1
<1> QED BY <1>1, <1>3, <1>5, <1>9, <1>10

\* read() finds the fill bits that the standard has.
LEMMA Filled ==
  ASSUME NEW h \in Nat
  PROVE  /\ Fill(h) \in 0 .. 6 /\ (8 * h + Fill(h)) % 7 = 0
         /\ Fill(h) = HeaderFill(h) /\ (h = 0 => Fill(h) = 0)
<1>1. PICK g : g = HeaderFill(h)
  OBVIOUS
<1>2. g \in 0 .. 6 /\ (8 * h + g) % 7 = 0
  BY <1>1 DEF HeaderFill
<1>3. ASSUME NEW f \in 0 .. 6, (8 * h + f) % 7 = 0 PROVE f = g
  BY <1>2, <1>3
<1>4. Fill(h) \in 0 .. 6 /\ (8 * h + Fill(h)) % 7 = 0
  BY <1>2 DEF Fill
<1>5. Fill(h) = g
  BY <1>3, <1>4
<1>6. h = 0 => g = 0
  BY <1>1 DEF HeaderFill
<1> QED BY <1>1, <1>4, <1>5, <1>6


Kind(m) == CASE AddressType(m) = 5 -> "alphanumeric"
             [] AddressType(m) = 1 -> "international"
             [] OTHER -> "number"

HeaderIn(m, user) == IF (m.flags \div 64) % 2 = 1 THEN user[1] + 1 ELSE 0

MadeOf(m, address, data) ==
  IF m.flags % 4 # 0 \/ ~SenderFits(Kind(m), m.size) \/ ~data.ok
  THEN Bad
  ELSE [ok |-> TRUE, sender |-> SenderText(Kind(m), m.size, address), raw |-> data.raw,
        decoded |-> IF m.dcs = 0 THEN decodeGSM(data.raw)
                    ELSE decodeUCS2(data.raw, Len(data.raw) \div 2)]

HalfOf(n) == (n + 1) \div 2

\* What read() does with a message in pieces.
LEMMA PhoneDecoded ==
  ASSUME NEW m, NEW a \in Nat, NEW b \in Nat, NEW address, NEW udl, NEW user, NEW q,
         PhonePlaces(q, a, b, m, address, udl, user), b = HalfOf(m.size),
         14 + a + b + Len(user) <= PduBuffer
  PROVE  DecodePdu(q) = MadeOf(m, address, UserData(m.dcs, udl, HeaderIn(m, user), user))
<1>1. /\ Len(q) = 14 + a + b + Len(user)
      /\ q[1] = a /\ q[a + 2] = m.flags /\ q[a + 3] = m.size /\ q[a + 4] = m.type
      /\ SubSeq(q, a + 5, a + 4 + b) = address
      /\ q[a + b + 6] = m.dcs /\ q[a + b + 14] = udl
      /\ SubSeq(q, a + b + 15, Len(q)) = user
  BY DEF PhonePlaces
<1> DEFINE At(i) == q[i + 1]
           first == 1 + At(0)
           addrLen == At(first + 1)
           type == CASE (At(first + 2) \div 16) % 8 = 5 -> "alphanumeric"
                     [] (At(first + 2) \div 16) % 8 = 1 -> "international"
                     [] OTHER -> "number"
           pid == first + 3 + AddressOctets(addrLen)
           dcs == At(pid + 1)
           udl0 == At(pid + 9)
           user0 == SubSeq(q, pid + 11, Len(q))
           headerLen == IF (At(first) \div 64) % 2 = 1 THEN user0[1] + 1 ELSE 0
           data == UserData(dcs, udl0, headerLen, user0)
           octets == SubSeq(q, first + 4, pid)
<1>2. DecodePdu(q) =
        IF Len(q) > PduBuffer \/ At(first) % 4 # 0 \/ ~SenderFits(type, addrLen) \/ ~data.ok
        THEN Bad
        ELSE [ok |-> TRUE, sender |-> SenderText(type, addrLen, octets), raw |-> data.raw,
              decoded |-> IF dcs = 0 THEN decodeGSM(data.raw)
                          ELSE decodeUCS2(data.raw, Len(data.raw) \div 2)]
  BY DEF DecodePdu
<1>3. first = a + 1
  <2>1. At(0) = a
    BY <1>1
  <2> QED BY <2>1
<1> HIDE DEF first
<1>4. addrLen = m.size /\ At(first) = m.flags /\ At(first + 2) = m.type
  <2>1. first + 1 + 1 = a + 3 /\ first + 1 = a + 2 /\ first + 2 + 1 = a + 4
    BY ONLY <1>3, a \in Nat
  <2> QED BY ONLY <1>1, <2>1
<1>5. type = Kind(m)
  BY <1>4, Zenon DEF Kind, AddressType
<1> HIDE DEF type
<1>6. pid = a + b + 4
  <2>1. AddressOctets(addrLen) = b
    BY <1>4 DEF AddressOctets, HalfOf
  <2> QED BY ONLY <1>3, <2>1, a \in Nat, b \in Nat
<1> HIDE DEF addrLen, pid
<1>7. dcs = m.dcs /\ udl0 = udl /\ user0 = user
  <2>1. pid + 1 + 1 = a + b + 6 /\ pid + 9 + 1 = a + b + 14 /\ pid + 11 = a + b + 15
    BY ONLY <1>6, a \in Nat, b \in Nat
  <2> QED BY ONLY <1>1, <2>1
<1> HIDE DEF dcs, udl0, user0
<1>8. octets = address
  <2>1. first + 4 = a + 5 /\ pid = a + 4 + b
    BY ONLY <1>3, <1>6, a \in Nat, b \in Nat
  <2> QED BY ONLY <1>1, <2>1
<1> HIDE DEF octets
<1>9. headerLen = HeaderIn(m, user)
  BY <1>4, <1>7, Zenon DEF HeaderIn
<1> HIDE DEF headerLen
<1>10. data = UserData(m.dcs, udl, HeaderIn(m, user), user)
  BY <1>7, <1>9, Zenon
<1> HIDE DEF data
<1>11. ~(Len(q) > PduBuffer)
  <2>1. Len(user) \in Nat /\ PduBuffer \in Nat
    <3>1. q \in Seq(Octets)
      BY DEF PhonePlaces
    <3>2. Len(q) \in Nat
      BY ONLY <3>1
    <3>3. Len(user) \in Nat
      <4>1. \A i, j \in Int : Len(SubSeq(q, i, j)) \in Nat
        BY <3>1
      <4>2. a + b + 15 \in Int /\ Len(q) \in Int
        BY ONLY <3>2, a \in Nat, b \in Nat
      <4> QED BY <1>1, <4>1, <4>2, Zenon
    <3> QED BY <3>3, SizesAssumption DEF PduBuffer
  <2>2. Len(q) <= PduBuffer
    BY <1>1
  <2>3. Len(q) \in Nat
    BY ONLY <1>1, <2>1, a \in Nat, b \in Nat
  <2> QED BY ONLY <2>1, <2>2, <2>3
<1> QED BY <1>2, <1>4, <1>5, <1>7, <1>8, <1>10, <1>11, Zenon DEF MadeOf

\* The characters behind a header.
LEMMA CharsRead ==
  ASSUME NEW h \in Nat, NEW n \in Nat, n <= 255, NEW udl, udl = (8 * h + Fill(h)) \div 7 + n
  PROVE  CharsBehind(udl, h) = n
<1>1. PICK f : f = Fill(h)
  OBVIOUS
<1>2. f \in 0 .. 6 /\ f = HeaderFill(h) /\ (h = 0 => f = 0)
  BY <1>1, Filled
<1>3. PICK g \in Nat : g = (8 * h + f) \div 7
  BY <1>2
<1>4. CASE h = 0
  BY <1>1, <1>2, <1>3, <1>4 DEF CharsBehind
<1>5. CASE h # 0
  <2>1. CharsBehind(udl, h) = (udl - g) % 256
    BY <1>2, <1>3, <1>5 DEF CharsBehind
  <2>2. udl - g = n
    BY <1>1, <1>3
  <2>3. n % 256 = n
    OBVIOUS
  <2> QED BY <2>1, <2>2, <2>3
<1> QED BY <1>4, <1>5

\* The user data: how long they are, and the octet that says so.
Fitting(header, data) == Len(header) + Len(data) <= MaxOctets
GsmLength(udl, h, text) == udl = (8 * h + Fill(h)) \div 7 + Len(text)
WideLength(udl, h, data) == udl = h + Len(data)

WideIs(d, text) == d.ok /\ decodeUCS2(d.raw, Len(d.raw) \div 2) = text

LEMMA GsmRead ==
  ASSUME NEW header \in Seq(Octets), NEW data \in Seq(Octets), NEW text \in Seq(Nat),
         NEW h, h = Len(header), Fitting(header, data), Spells(data, Fill(h), text),
         NEW udl, GsmLength(udl, h, text), NEW user, Concat(header, data, user)
  PROVE  LET d == UserData(0, udl, h, user)
         IN  /\ d.ok /\ decodeGSM(d.raw) = text
             /\ udl \in Octets
<1>1. PICK f, n, l, c : f = Fill(h) /\ n = Len(text) /\ l = Len(data) /\ c = CharsIn(MaxOctets)
  OBVIOUS
<1>2. /\ h \in Nat /\ n \in Nat /\ l \in Nat /\ f \in 0 .. 6 /\ (8 * h + f) % 7 = 0
      /\ h + l <= MaxOctets /\ f + 7 * n <= 8 * l
      /\ c = (8 * MaxOctets) \div 7 /\ c <= 255 /\ MaxOctets \in Nat
  <2>1. h \in Nat /\ n \in Nat /\ l \in Nat
    BY <1>1
  <2>2. f \in 0 .. 6 /\ (8 * h + f) % 7 = 0
    BY <1>1, <2>1, Filled
  <2>3. h + l <= MaxOctets
    BY <1>1 DEF Fitting
  <2> QED BY <1>1, <2>1, <2>2, <2>3, SizesAssumption, OctetsAssumption DEF Spells, CharsIn
<1>3. n <= c /\ n <= 255
  <2>1. 7 * n <= 8 * MaxOctets
    BY <1>2
  <2> QED BY <1>2, <2>1
<1>4. udl \in Octets
  <2>1. PICK g \in Nat : 8 * h + f = 7 * g /\ g = (8 * h + f) \div 7
    BY ONLY <1>2
  <2>2. 7 * (g + n) <= 8 * MaxOctets
    BY ONLY <1>2, <2>1
  <2>3. g + n <= 255
    BY ONLY <1>2, <2>1, <2>2
  <2>4. udl = g + n
    BY <1>1, <2>1 DEF GsmLength
  <2> QED BY ONLY <1>2, <2>1, <2>3, <2>4 DEF Octets
<1>5. CharsBehind(udl, h) = n
  <2>1. udl = (8 * h + Fill(h)) \div 7 + n
    BY <1>1 DEF GsmLength
  <2> QED BY <1>2, <1>3, <2>1, CharsRead
<1>6. PICK v : v = SubSeq(user, h + 1, Len(user))
  OBVIOUS
<1>7. v = data
  <2>1. h + 1 = Len(header) + 1
    OBVIOUS
  <2> QED BY <1>6, <2>1, Behind DEF Concat
<1>8. PICK d : d = UserData(0, udl, h, user)
  OBVIOUS
<1>9. d = [ok |-> TRUE, raw |-> unpack7Bit(v, n, IF h = 0 THEN 0 ELSE HeaderFill(h))]
  <2>1. n = CharsBehind(udl, h) /\ n <= CharsIn(MaxOctets)
    BY <1>1, <1>3, <1>5
  <2>2. UserData(0, udl, h, user) =
          [ok |-> TRUE, raw |-> unpack7Bit(v, n, IF h = 0 THEN 0 ELSE HeaderFill(h))]
    BY ONLY <1>6, <2>1 DEF UserData
  <2> QED BY ONLY <1>8, <2>2
<1>10. (IF h = 0 THEN 0 ELSE HeaderFill(h)) = f
  BY <1>1, <1>2, Filled
<1>11. d.ok /\ d.raw = unpack7Bit(data, n, f)
  BY <1>7, <1>9, <1>10
<1>12. decodeGSM(unpack7Bit(data, n, f)) = text
  BY <1>1, <1>2, Spelled
<1> QED BY <1>4, <1>8, <1>11, <1>12

LEMMA WideRead ==
  ASSUME NEW header \in Seq(Octets), NEW data \in Seq(Octets), NEW text \in Seq(Nat),
         NEW h, h = Len(header), Fitting(header, data), SpellsWide(data, text),
         NEW udl, WideLength(udl, h, data), NEW user, Concat(header, data, user)
  PROVE  WideIs(UserData(8, udl, h, user), text)
<1>1. PICK n, l : n = Len(text) /\ l = Len(data)
  OBVIOUS
<1>2. /\ h \in Nat /\ n \in Nat /\ l \in Nat /\ l = 2 * n /\ l <= CharsIn(MaxOctets) /\ l <= 255
  <2>1. h \in Nat /\ n \in Nat /\ l \in Nat /\ l = 2 * n /\ h + l <= MaxOctets
    BY <1>1 DEF SpellsWide, Fitting
  <2>2. MaxOctets \in Nat /\ MaxOctets <= (8 * MaxOctets) \div 7 /\ CharsIn(MaxOctets) <= 255
    BY SizesAssumption, OctetsAssumption DEF CharsIn
  <2> QED BY <2>1, <2>2 DEF CharsIn
<1>3. OctetsBehind(udl, h) = l
  <2>1. udl = h + l
    BY <1>1 DEF WideLength
  <2>3. h \in Nat /\ l \in Nat /\ l <= 255
    BY <1>2
  <2>4. udl - h = l
    BY ONLY <2>1, <2>3
  <2>5. l % 256 = l
    BY ONLY <2>3
  <2>2. udl - h = l /\ l % 256 = l
    BY <2>4, <2>5
  <2> QED BY ONLY <2>2 DEF OctetsBehind
<1>4. PICK v, d, e : v = SubSeq(user, h + 1, Len(user)) /\ d = UserData(e, udl, h, user) /\ e = 8
  OBVIOUS
<1>5. v = data
  <2>1. h + 1 = Len(header) + 1
    OBVIOUS
  <2> QED BY <1>4, <2>1, Behind DEF Concat
<1>6. d = [ok |-> TRUE, raw |-> SubSeq(v, 1, OctetsBehind(udl, h))]
  <2>1. OctetsBehind(udl, h) <= CharsIn(MaxOctets)
    BY <1>2, <1>3
  <2> QED BY ONLY <1>4, <2>1, Ucs2Data
<1>7. SubSeq(data, 1, l) = data
  BY <1>1
<1>8. d.ok /\ d.raw = data
  BY <1>3, <1>5, <1>6, <1>7
<1>9. decodeUCS2(data, n) = text
  <2>1. ASSUME NEW i \in 1 .. n
        PROVE  (IF data[2*i - 1] = 0 /\ data[2*i] < 128 THEN data[2*i] ELSE 63) = text[i]
    <3>1. 2*i - 1 \in 1 .. l /\ 2*i \in 1 .. l
      BY <1>2
    <3>2. PICK x, y : x = data[2*i - 1] /\ y = data[2*i]
      OBVIOUS
    <3>3. x \in 0 .. 255 /\ y \in 0 .. 255
      BY <1>1, <3>1, <3>2, ElementOfSeq DEF Octets
    <3>4. text[i] = IF 256 * x + y < 128 THEN 256 * x + y ELSE 63
      BY <1>1, <3>2 DEF SpellsWide
    <3>5. CASE x = 0
      BY <3>2, <3>3, <3>4, <3>5
    <3>6. CASE x # 0
      <4>1. ~(256 * x + y < 128)
        BY <3>3, <3>6
      <4> QED BY <3>2, <3>4, <3>6, <4>1
    <3> QED BY <3>5, <3>6
  <2>2. decodeUCS2(data, n) = [i \in 1 .. n |-> text[i]]
    BY <2>1 DEF decodeUCS2
  <2>3. text = [i \in 1 .. n |-> text[i]]
    BY <1>1
  <2> QED BY <2>2, <2>3
<1>10. Len(data) \div 2 = n
  BY <1>1, <1>2
<1> QED BY <1>4, <1>8, <1>9, <1>10 DEF WideIs


\* The sender, as its address has it and as it fits.
SenderIs(m) == SenderText(Kind(m), m.size, m.address) = m.sender
               /\ (SenderFits(Kind(m), m.size) <=> Len(m.sender) < SenderSize)

LEMMA NameRead ==
  ASSUME NEW m, m.address \in Seq(Octets), m.sender \in Seq(Nat), m.size \in Nat,
         Len(m.sender) = (m.size * 4) \div 7, Spells(m.address, 0, m.sender), Kind(m) = "alphanumeric"
  PROVE  SenderIs(m)
<1>1. PICK n, o, t, s, f : n = (m.size * 4) \div 7 /\ o = m.address /\ t = m.sender /\ s = m.size /\ f = 0
  OBVIOUS
<1>2. o \in Seq(Octets) /\ t \in Seq(Nat) /\ f \in 0 .. 6 /\ Spells(o, f, t) /\ n = Len(t)
  BY <1>1
<1>3. decodeGSM(unpack7Bit(o, n, f)) = t
  BY ONLY <1>2, Spelled
<1>4. SenderText(Kind(m), s, o) = decodeGSM(unpack7Bit(o, n, f))
  BY <1>1 DEF SenderText
<1>5. SenderFits(Kind(m), s) <=> n <= SenderSize - 1
  BY <1>1 DEF SenderFits
<1>6. n <= SenderSize - 1 <=> n < SenderSize
  <2>1. n \in Nat
    BY ONLY <1>2
  <2> QED BY <2>1, SizesAssumption
<1> QED BY <1>1, <1>2, <1>3, <1>4, <1>5, <1>6 DEF SenderIs

\* t is the digits behind p characters, as codes.
Dialled(t, digits, s, p) ==
  Len(t) = p + s /\ (p = 1 => t[1] = 43) /\ \A i \in 1 .. s : digits[i] + 48 = t[p + i]

LEMMA NumberDigits ==
  ASSUME NEW s \in Nat, NEW p \in {0, 1}, NEW t \in Seq(Nat), NEW o, IsNumber(o, s, p, t)
  PROVE  Dialled(t, extractBcdDigits(o, s), s, p)
<1>1. PICK d : d = [i \in 1 .. s |-> t[p + i] - 48]
  OBVIOUS
<1>2. /\ Len(t) = p + s /\ (p = 1 => t[1] = 43)
      /\ d \in Seq(0 .. 9) /\ o = storeBcdDigits(d)
  BY <1>1 DEF IsNumber
<1>3. Len(d) = s
  BY <1>1
<1>4. PICK rest : rest = <<>>
  OBVIOUS
<1>5. rest \in Seq(Octets)
  BY <1>4
<1>6. /\ storeBcdDigits(d) \in Seq(Octets)
      /\ extractBcdDigits(storeBcdDigits(d) \o rest, Len(d)) = d
  BY ONLY <1>2, <1>5, DigitsAndBack
<1>7. o \o rest = o
  <2>1. o \in Seq(Octets)
    BY <1>2, <1>6
  <2> QED BY ONLY <1>4, <2>1
<1>8. extractBcdDigits(o, s) = d
  BY <1>2, <1>3, <1>6, <1>7
<1>9. ASSUME NEW i \in 1 .. s PROVE d[i] + 48 = t[p + i]
  <2>1. p + i \in 1 .. Len(t)
    BY <1>2
  <2>2. t[p + i] \in Nat
    BY <2>1, ElementOfSeq
  <2> QED BY <1>1, <2>2
<1> QED BY <1>2, <1>8, <1>9 DEF Dialled

LEMMA NumberRead ==
  ASSUME NEW m, m.sender \in Seq(Nat), m.size \in Nat,
         IsNumber(m.address, m.size, 0, m.sender), Kind(m) = "number"
  PROVE  SenderIs(m)
<1>1. PICK o, t, s, p, d : /\ o = m.address /\ t = m.sender /\ s = m.size /\ p = 0
                           /\ d = extractBcdDigits(o, s)
  OBVIOUS
<1>2. t \in Seq(Nat) /\ s \in Nat /\ p \in {0, 1} /\ IsNumber(o, s, p, t)
  BY <1>1
<1>3. Len(t) = p + s /\ \A i \in 1 .. s : d[i] + 48 = t[p + i]
  <2>1. d = extractBcdDigits(o, s)
    BY <1>1
  <2>2. Dialled(t, extractBcdDigits(o, s), s, p)
    BY ONLY <1>2, NumberDigits
  <2> QED BY <2>1, <2>2, Zenon DEF Dialled
<1>4. SenderText(Kind(m), s, o) = [i \in 1 .. s |-> d[i] + 48]
  BY <1>1 DEF SenderText
<1>5. SenderText(Kind(m), s, o) = t
  <2>1. \A i \in 1 .. s : p + i = i
    BY <1>1, <1>2
  <2>2. \A i \in 1 .. s : d[i] + 48 = t[i]
    BY <1>3, <2>1
  <2>3. Len(t) = s
    BY <1>1, <1>2, <1>3
  <2>4. t = [i \in 1 .. s |-> t[i]]
    BY ONLY <1>2, <2>3
  <2> QED BY <1>4, <2>2, <2>4
<1>6. SenderFits(Kind(m), s) <=> Len(t) < SenderSize
  <2>1. Len(t) = s
    BY <1>1, <1>2, <1>3
  <2>2. SenderFits(Kind(m), s) <=> s <= SenderSize - 1
    BY <1>1 DEF SenderFits
  <2>3. s <= SenderSize - 1 <=> s < SenderSize
    BY <1>2, SizesAssumption
  <2> QED BY <2>1, <2>2, <2>3
<1> QED BY <1>1, <1>5, <1>6 DEF SenderIs

LEMMA AbroadRead ==
  ASSUME NEW m, m.sender \in Seq(Nat), m.size \in Nat,
         IsNumber(m.address, m.size, 1, m.sender), Kind(m) = "international"
  PROVE  SenderIs(m)
<1>1. PICK o, t, s, p, d : /\ o = m.address /\ t = m.sender /\ s = m.size /\ p = 1
                           /\ d = extractBcdDigits(o, s)
  OBVIOUS
<1>2. t \in Seq(Nat) /\ s \in Nat /\ p \in {0, 1} /\ IsNumber(o, s, p, t)
  BY <1>1
<1>3. Len(t) = p + s /\ (p = 1 => t[1] = 43) /\ \A i \in 1 .. s : d[i] + 48 = t[p + i]
  <2>1. d = extractBcdDigits(o, s)
    BY <1>1
  <2>2. Dialled(t, extractBcdDigits(o, s), s, p)
    BY ONLY <1>2, NumberDigits
  <2> QED BY <2>1, <2>2, Zenon DEF Dialled
<1>4. PICK r, plus : r = [i \in 1 .. s |-> d[i] + 48] /\ plus = <<43>>
  OBVIOUS
<1>5. SenderText(Kind(m), s, o) = plus \o r
  BY <1>1, <1>4 DEF SenderText
<1>6. r \in Seq(Nat) /\ Len(r) = s /\ \A i \in 1 .. s : r[i] = t[p + i]
  <2>1. \A i \in 1 .. s : p + i \in 1 .. Len(t)
    BY ONLY <1>2, <1>3
  <2>2. \A i \in 1 .. s : t[p + i] \in Nat
    BY ONLY <1>2, <2>1, ElementOfSeq
  <2>3. r = [i \in 1 .. s |-> t[p + i]]
    BY <1>3, <1>4
  <2> QED BY ONLY <1>2, <2>2, <2>3
<1>7. plus \in Seq(Nat) /\ Len(plus) = 1 /\ plus[1] = 43
  BY <1>4
<1>8. PICK w : w = plus \o r
  OBVIOUS
<1>9. /\ w \in Seq(Nat) /\ Len(w) = Len(plus) + Len(r)
      /\ \A i \in 1 .. Len(plus) : w[i] = plus[i]
      /\ \A i \in 1 .. Len(r) : w[Len(plus) + i] = r[i]
  <2>1. plus \in Seq(Nat) /\ r \in Seq(Nat) /\ Concat(plus, r, w)
    BY <1>6, <1>7, <1>8 DEF Concat
  <2> QED BY ONLY <2>1, Ends
<1>10. Len(t) = 1 + s /\ t[1] = 43 /\ \A i \in 1 .. s : r[i] = t[1 + i]
  BY <1>1, <1>3, <1>6
<1>11. w \in Seq(Nat) /\ Len(w) = 1 + s /\ w[1] = 43 /\ \A i \in 1 .. s : w[1 + i] = r[i]
  <2>1. 1 \in 1 .. Len(plus)
    BY <1>7
  <2> QED BY <1>6, <1>7, <1>9, <2>1
<1>12. ASSUME NEW i \in 1 .. Len(w) PROVE w[i] = t[i]
  <2>1. CASE i = 1
    BY <1>10, <1>11, <2>1
  <2>2. CASE i # 1
    <3>1. PICK j : j = i - 1
      OBVIOUS
    <3>2. j \in 1 .. s /\ i = 1 + j
      BY ONLY <1>2, <1>11, <2>2, <3>1, i \in 1 .. Len(w)
    <3> QED BY <1>10, <1>11, <3>2
  <2> QED BY <2>1, <2>2
<1>13. w = t
  <2>1. w \in Seq(Nat) /\ t \in Seq(Nat) /\ Len(w) = Len(t)
    BY <1>2, <1>10, <1>11
  <2> QED BY ONLY <1>12, <2>1, SameElements
<1>14. SenderFits(Kind(m), s) <=> Len(t) < SenderSize
  <2>1. SenderFits(Kind(m), s) <=> s + 1 <= SenderSize - 1
    BY <1>1 DEF SenderFits
  <2>2. s + 1 <= SenderSize - 1 <=> 1 + s < SenderSize
    BY ONLY <1>2, SizesAssumption
  <2> QED BY <1>10, <2>1, <2>2
<1> QED BY <1>1, <1>5, <1>8, <1>13, <1>14 DEF SenderIs


\* What the specification of a message says of its fields.
PhoneFields(m) ==
  /\ m.smsc \in Seq(Octets) /\ m.address \in Seq(Octets) /\ m.header \in Seq(Octets) /\ m.data \in Seq(Octets)
  /\ m.flags \in Octets /\ m.type \in Octets /\ m.dcs \in Octets
  /\ m.size \in 0 .. 20 /\ Len(m.smsc) <= 11 /\ Len(m.address) = HalfOf(m.size)
  /\ Len(m.header) + Len(m.data) <= MaxOctets
  /\ m.sender \in Seq(Nat) /\ m.text \in Seq(Nat)

LEMMA FieldsSpecified ==
  ASSUME NEW m \in Incoming
  PROVE  PhoneFields(m)
<1>1. AsSpecified(m)
  BY IncomingAssumption
<1>2. /\ m.smsc \in Seq(Octets) /\ m.address \in Seq(Octets) /\ m.header \in Seq(Octets)
      /\ m.data \in Seq(Octets) /\ <<m.flags, m.type, m.dcs>> \in Seq(Octets)
  BY <1>1, Zenon DEF AsSpecified, Octets
<1>3. PICK t : t = <<m.flags, m.type, m.dcs>>
  OBVIOUS
<1>4. m.flags \in Octets /\ m.type \in Octets /\ m.dcs \in Octets
  <2>1. Len(t) = 3 /\ t[1] = m.flags /\ t[2] = m.type /\ t[3] = m.dcs
    BY <1>3
  <2>2. t \in Seq(Octets)
    BY <1>2, <1>3
  <2>3. \A i \in 1 .. 3 : t[i] \in Octets
    BY ONLY <2>1, <2>2, ElementOfSeq
  <2> QED BY <2>1, <2>3
<1>5. /\ m.size \in 0 .. 20 /\ Len(m.smsc) <= 11 /\ Len(m.address) = HalfOf(m.size)
      /\ Len(m.header) + Len(m.data) <= MaxOctets
      /\ m.sender \in Seq(Nat) /\ m.text \in Seq(Nat)
  BY <1>1, Zenon DEF AsSpecified, HalfOf
<1> QED BY <1>2, <1>4, <1>5 DEF PhoneFields

LEMMA SenderRead ==
  ASSUME NEW m \in Incoming
  PROVE  SenderIs(m)
<1>1. AsSpecified(m)
  BY IncomingAssumption
<1>2. m.address \in Seq(Octets) /\ m.sender \in Seq(Nat) /\ m.size \in Nat
  <2>1. m.address \in Seq(Octets) /\ m.sender \in Seq(Nat) /\ m.size \in 0 .. 20
    BY FieldsSpecified DEF PhoneFields
  <2>2. m.size \in Nat
    <3>1. PICK n \in 0 .. 20 : n = m.size
      BY <2>1
    <3>2. n \in Nat
      OBVIOUS
    <3> QED BY <3>1, <3>2
  <2> QED BY <2>1, <2>2
<1>3. CASE AddressType(m) = 5
  <2>1. Len(m.sender) = (m.size * 4) \div 7 /\ Spells(m.address, 0, m.sender)
    BY <1>1, <1>3 DEF AsSpecified
  <2>2. Kind(m) = "alphanumeric"
    BY <1>3 DEF Kind
  <2> QED BY <1>2, <2>1, <2>2, NameRead
<1>4. CASE AddressType(m) = 1
  <2>1. IsNumber(m.address, m.size, 1, m.sender)
    BY <1>1, <1>4 DEF AsSpecified
  <2>2. Kind(m) = "international"
    BY <1>4 DEF Kind
  <2> QED BY <1>2, <2>1, <2>2, AbroadRead
<1>5. CASE AddressType(m) # 5 /\ AddressType(m) # 1
  <2>1. IsNumber(m.address, m.size, 0, m.sender)
    BY <1>1, <1>5 DEF AsSpecified
  <2>2. Kind(m) = "number"
    BY <1>5 DEF Kind
  <2> QED BY <1>2, <2>1, <2>2, NumberRead
<1> QED BY <1>3, <1>4, <1>5

LEMMA HeaderFound ==
  ASSUME NEW m \in Incoming, NEW user, Concat(m.header, m.data, user)
  PROVE  HeaderIn(m, user) = Len(m.header)
<1>1. AsSpecified(m)
  BY IncomingAssumption
<1>2. m.header \in Seq(Octets) /\ m.data \in Seq(Octets)
  BY FieldsSpecified DEF PhoneFields
<1>3. CASE (m.flags \div 64) % 2 = 1
  <2>1. m.header # <<>> /\ m.header[1] = Len(m.header) - 1
    BY <1>1, <1>3 DEF AsSpecified
  <2>2. Len(m.header) \in Nat /\ 1 \in 1 .. Len(m.header)
    <3>1. Len(m.header) \in Nat
      BY ONLY <1>2
    <3>2. Len(m.header) # 0
      BY ONLY <1>2, <2>1, EmptySeq
    <3> QED BY ONLY <3>1, <3>2
  <2>3. user[1] = m.header[1]
    <3>1. \A i \in 1 .. Len(m.header) : user[i] = m.header[i]
      BY <1>2, Ends
    <3> QED BY <2>2, <3>1
  <2>4. user[1] + 1 = Len(m.header)
    BY ONLY <2>1, <2>2, <2>3
  <2> QED BY <1>3, <2>4 DEF HeaderIn
<1>4. CASE (m.flags \div 64) % 2 # 1
  <2>1. m.header = <<>>
    BY <1>1, <1>4 DEF AsSpecified
  <2> QED BY <1>4, <2>1 DEF HeaderIn
<1> QED BY <1>3, <1>4

\* The text, or a refusal; and the octet with its length.
TextIs(m, data) ==
  IF m.dcs \in {0, 8}
  THEN data.ok /\ m.text = IF m.dcs = 0 THEN decodeGSM(data.raw)
                           ELSE decodeUCS2(data.raw, Len(data.raw) \div 2)
  ELSE ~data.ok

LEMMA TextRead ==
  ASSUME NEW m \in Incoming, NEW user, Concat(m.header, m.data, user)
  PROVE  /\ UserLength(m) \in Octets
         /\ TextIs(m, UserData(m.dcs, UserLength(m), Len(m.header), user))
<1>1. PICK header, data, text, h, udl :
        /\ header = m.header /\ data = m.data /\ text = m.text
        /\ h = Len(m.header) /\ udl = UserLength(m)
  OBVIOUS
<1>2. header \in Seq(Octets) /\ data \in Seq(Octets) /\ text \in Seq(Nat)
  BY <1>1, FieldsSpecified DEF PhoneFields
<1>3. h = Len(header) /\ Fitting(header, data) /\ Concat(header, data, user)
  BY <1>1, FieldsSpecified DEF PhoneFields, Fitting
<1>4. AsSpecified(m)
  BY IncomingAssumption
<1>5. CASE m.dcs = 0
  <2>1. Spells(data, Fill(h), text)
    BY <1>1, <1>4, <1>5 DEF AsSpecified
  <2>2. GsmLength(udl, h, text)
    BY <1>1, <1>5 DEF UserLength, GsmLength
  <2>3. PICK d : d = UserData(0, udl, h, user)
    OBVIOUS
  <2>4. d.ok /\ decodeGSM(d.raw) = text /\ udl \in Octets
    <3>1. LET e == UserData(0, udl, h, user) IN e.ok /\ decodeGSM(e.raw) = text /\ udl \in Octets
      BY ONLY <1>2, <1>3, <2>1, <2>2, GsmRead
    <3> QED BY <2>3, <3>1
  <2>5. d = UserData(m.dcs, UserLength(m), Len(m.header), user)
    BY <1>1, <1>5, <2>3
  <2>6. TextIs(m, d)
    BY <1>1, <1>5, <2>4 DEF TextIs
  <2> QED BY <1>1, <2>4, <2>5, <2>6
<1>6. ASSUME m.dcs # 0 PROVE udl = h + Len(data) /\ udl \in Octets
  <2>1. udl = h + Len(data)
    BY <1>1, <1>6 DEF UserLength
  <2>2. h \in Nat /\ Len(data) \in Nat /\ h + Len(data) <= MaxOctets
    BY <1>2, <1>3 DEF Fitting
  <2>3. MaxOctets <= 255
    <3>1. MaxOctets <= (8 * MaxOctets) \div 7
      BY SizesAssumption
    <3>2. (8 * MaxOctets) \div 7 <= 255
      BY OctetsAssumption DEF CharsIn
    <3> QED BY <3>1, <3>2, SizesAssumption
  <2>4. MaxOctets \in Nat
    BY SizesAssumption
  <2>6. PICK l \in Nat : l = Len(data)
    BY <2>2
  <2>5. h + l \in 0 .. 255
    <3>1. h \in Nat /\ h + l <= MaxOctets
      BY <2>2, <2>6
    <3> QED BY ONLY <2>3, <2>4, <3>1, l \in Nat
  <2> QED BY <2>1, <2>5, <2>6 DEF Octets
<1>7. CASE m.dcs = 8
  <2>1. SpellsWide(data, text)
    BY <1>1, <1>4, <1>7 DEF AsSpecified
  <2>2. udl = h + Len(data) /\ udl \in Octets
    BY <1>6, <1>7
  <2>7. WideLength(udl, h, data)
    BY <2>2 DEF WideLength
  <2>3. PICK d : d = UserData(8, udl, h, user)
    OBVIOUS
  <2>4. WideIs(d, text)
    <3>1. WideIs(UserData(8, udl, h, user), text)
      BY ONLY <1>2, <1>3, <2>1, <2>7, WideRead
    <3> QED BY <2>3, <3>1
  <2>5. d = UserData(m.dcs, UserLength(m), Len(m.header), user)
    BY <1>1, <1>7, <2>3
  <2>6. TextIs(m, d)
    <3>1. m.dcs \in {0, 8} /\ m.dcs # 0
      BY <1>7
    <3>2. d.ok /\ decodeUCS2(d.raw, Len(d.raw) \div 2) = m.text
      BY <1>1, <2>4 DEF WideIs
    <3> QED BY <3>1, <3>2, Zenon DEF TextIs
  <2> QED BY <1>1, <2>2, <2>5, <2>6
<1>8. CASE m.dcs # 0 /\ m.dcs # 8
  <2>1. UserData(m.dcs, UserLength(m), Len(m.header), user) = Bad
    BY <1>8 DEF UserData
  <2>2. ~Bad.ok
    BY DEF Bad
  <2>3. TextIs(m, Bad)
    BY <1>8, <2>2 DEF TextIs
  <2> QED BY <1>1, <1>6, <1>8, <2>1, <2>3
<1> QED BY <1>5, <1>7, <1>8

\* The octets of a message in one SMS, where read() looks for them.
LEMMA PhoneHere ==
  ASSUME NEW m \in Incoming, NEW user, Concat(m.header, m.data, user)
  PROVE  PhonePlaces(FromPhone(m), Len(m.smsc), Len(m.address), m, m.address, UserLength(m), user)
<1>1. PICK smsc, address, header, data, udl, q, x, y, z :
        /\ smsc = m.smsc /\ address = m.address /\ header = m.header /\ data = m.data
        /\ udl = UserLength(m) /\ q = FromPhone(m)
        /\ x = <<Len(m.smsc)>> /\ y = <<m.flags, m.size, m.type>>
        /\ z = <<0, m.dcs, 81, 1, 1, 0, 0, 0, 0, UserLength(m)>>
  OBVIOUS
<1>2. PhoneFields(m)
  BY FieldsSpecified
<1>3. smsc \in Seq(Octets) /\ address \in Seq(Octets) /\ header \in Seq(Octets) /\ data \in Seq(Octets)
  BY <1>1, <1>2 DEF PhoneFields
<1>4. Pieced(q, x, smsc, y, address, z, header, data)
  BY <1>1, Zenon DEF Pieced, FromPhone
<1>5. OctetsOf(x, 1) /\ x[1] = Len(smsc)
  <2>1. Len(m.smsc) \in Octets
    <3>1. PICK l : l = Len(smsc)
      OBVIOUS
    <3>2. l \in Nat
      BY ONLY <1>3, <3>1
    <3>3. l <= 11
      BY <1>1, <1>2, <3>1 DEF PhoneFields
    <3>4. l \in 0 .. 255
      BY ONLY <3>2, <3>3
    <3> QED BY <1>1, <3>1, <3>4 DEF Octets
  <2> QED BY <1>1, <2>1 DEF OctetsOf
<1>6. OctetsOf(y, 3) /\ y[1] = m.flags /\ y[2] = m.size /\ y[3] = m.type
  <2>1. m.flags \in Octets /\ m.size \in Octets /\ m.type \in Octets
    BY <1>2 DEF PhoneFields, Octets
  <2> QED BY <1>1, <2>1 DEF OctetsOf
<1>7. OctetsOf(z, 10) /\ z[2] = m.dcs /\ z[10] = udl
  <2>1. m.dcs \in Octets /\ UserLength(m) \in Octets
    BY <1>2, TextRead DEF PhoneFields
  <2>2. 0 \in Octets /\ 1 \in Octets /\ 81 \in Octets
    BY DEF Octets
  <2> QED BY <1>1, <2>1, <2>2 DEF OctetsOf
<1>8. PhonePlaces(q, Len(smsc), Len(address), m, address, udl, header \o data)
  BY ONLY <1>3, <1>4, <1>5, <1>6, <1>7, PhonePlaced
<1> QED BY <1>1, <1>8 DEF Concat

LEMMA IncomingDecoded ==
  ASSUME NEW m \in Incoming
  PROVE  LET msg == DecodePdu(FromHex(HexOf(FromPhone(m))))
         IN  /\ FromPhone(m) # <<>>
             /\ IF Readable(m) THEN msg.ok /\ msg.sender = m.sender /\ msg.decoded = m.text
                               ELSE ~msg.ok
<1>1. PICK q, user, a, b, data :
        /\ q = FromPhone(m) /\ Concat(m.header, m.data, user)
        /\ a = Len(m.smsc) /\ b = Len(m.address)
        /\ data = UserData(m.dcs, UserLength(m), Len(m.header), user)
  BY DEF Concat
<1>2. PhonePlaces(q, a, b, m, m.address, UserLength(m), user)
  BY <1>1, PhoneHere
<1>3. PhoneFields(m)
  BY FieldsSpecified
<1>4. a \in Nat /\ b \in Nat /\ a <= 11 /\ b <= 10 /\ b = HalfOf(m.size)
  <2>1. m.smsc \in Seq(Octets) /\ m.address \in Seq(Octets) /\ m.size \in 0 .. 20
    BY <1>3 DEF PhoneFields
  <2>2. a \in Nat /\ b \in Nat
    BY ONLY <1>1, <2>1
  <2>3. HalfOf(m.size) <= 10
    <3>1. PICK n \in 0 .. 20 : n = m.size
      BY <2>1
    <3>2. (n + 1) \div 2 <= 10
      OBVIOUS
    <3> QED BY <3>1, <3>2 DEF HalfOf
  <2> QED BY <1>1, <1>3, <2>2, <2>3 DEF PhoneFields
<1>5. Len(user) \in Nat /\ Len(user) <= MaxOctets
  <2>1. m.header \in Seq(Octets) /\ m.data \in Seq(Octets) /\ Concat(m.header, m.data, user)
    BY <1>1, <1>3 DEF PhoneFields
  <2>2. PICK s, t : s = m.header /\ t = m.data
    OBVIOUS
  <2>3. s \in Seq(Octets) /\ t \in Seq(Octets) /\ Concat(s, t, user)
    BY <2>1, <2>2
  <2>4. user \in Seq(Octets) /\ Len(user) = Len(s) + Len(t)
    BY ONLY <2>3, Ends
  <2>5. Len(user) \in Nat
    BY ONLY <2>4
  <2> QED BY <1>3, <2>2, <2>4, <2>5 DEF PhoneFields
<1>6. 14 + a + b + Len(user) <= PduBuffer
  BY ONLY <1>4, <1>5, SizesAssumption DEF PduBuffer
<1>7. q \in Seq(Octets) /\ Len(q) = 14 + a + b + Len(user)
  BY <1>2 DEF PhonePlaces
<1>8. FromHex(HexOf(q)) = q /\ q # <<>>
  <2>1. Len(q) # 0
    BY ONLY <1>4, <1>5, <1>7
  <2>2. q # <<>>
    BY <2>1
  <2> QED BY <1>7, <2>2, HexAndBack
<1>9. DecodePdu(q) = MadeOf(m, m.address, UserData(m.dcs, UserLength(m), HeaderIn(m, user), user))
  BY ONLY <1>2, <1>4, <1>6, PhoneDecoded
<1>10. HeaderIn(m, user) = Len(m.header)
  BY <1>1, HeaderFound
<1>11. DecodePdu(FromHex(HexOf(FromPhone(m)))) = MadeOf(m, m.address, data)
  BY <1>1, <1>8, <1>9, <1>10, Zenon
<1>12. TextIs(m, data)
  BY <1>1, TextRead
<1>13. SenderIs(m)
  BY SenderRead
<1>14. ~Bad.ok
  BY DEF Bad
<1>15. CASE Readable(m)
  <2>1. /\ m.flags % 4 = 0 /\ SenderFits(Kind(m), m.size) /\ m.dcs \in {0, 8}
        /\ SenderText(Kind(m), m.size, m.address) = m.sender
    BY <1>13, <1>15 DEF Readable, SenderIs
  <2>2. data.ok /\ m.text = IF m.dcs = 0 THEN decodeGSM(data.raw)
                            ELSE decodeUCS2(data.raw, Len(data.raw) \div 2)
    BY <1>12, <2>1 DEF TextIs
  <2>3. PICK decoded : decoded = IF m.dcs = 0 THEN decodeGSM(data.raw)
                                 ELSE decodeUCS2(data.raw, Len(data.raw) \div 2)
    OBVIOUS
  <2>4. MadeOf(m, m.address, data) = [ok |-> TRUE, sender |-> m.sender, raw |-> data.raw, decoded |-> decoded]
    BY <2>1, <2>2, <2>3 DEF MadeOf
  <2>5. PICK msg : msg = DecodePdu(FromHex(HexOf(FromPhone(m))))
    OBVIOUS
  <2>6. msg = [ok |-> TRUE, sender |-> m.sender, raw |-> data.raw, decoded |-> decoded]
    BY <1>11, <2>4, <2>5, Zenon
  <2>7. decoded = m.text
    BY <2>2, <2>3
  <2>8. msg.ok /\ msg.sender = m.sender /\ msg.decoded = m.text
    BY ONLY <2>6, <2>7
  <2>9. FromPhone(m) # <<>>
    BY <1>1, <1>8
  <2> QED BY <1>15, <2>5, <2>8, <2>9
<1>16. CASE ~Readable(m)
  <2>1. m.flags % 4 # 0 \/ ~SenderFits(Kind(m), m.size) \/ m.dcs \notin {0, 8}
    BY <1>13, <1>16 DEF Readable, SenderIs
  <2>2. m.flags % 4 # 0 \/ ~SenderFits(Kind(m), m.size) \/ ~data.ok
    BY <1>12, <2>1 DEF TextIs
  <2>3. MadeOf(m, m.address, data) = Bad
    BY <2>2, Zenon DEF MadeOf
  <2> QED BY <1>1, <1>8, <1>11, <1>14, <1>16, <2>3
<1> QED BY <1>15, <1>16

\* read() understands every message of another phone that is as the standard has it (AsSpecified),
\* gives its sender and its text, and refuses what is no SMS-DELIVER, has octets for characters or
\* a sender that is too long; whatever the sizes of the buffers.  (SMSClient::read)
THEOREM IncomingIsUnderstood == Spec => []IncomingIsRead
<1>1. InboxOK => IncomingIsRead
  <2>1. SUFFICES ASSUME InboxOK, NEW m \in Incoming, inbox.pdu = FromPhone(m)
                 PROVE  IF Readable(m) THEN /\ inbox.msg.ok
                                            /\ inbox.msg.sender = m.sender
                                            /\ inbox.msg.decoded = m.text
                                       ELSE ~inbox.msg.ok
    BY DEF IncomingIsRead
  <2>2. inbox # Nothing
    <3>1. Nothing.pdu = <<>>
      BY DEF Nothing
    <3> QED BY <2>1, <3>1, IncomingDecoded
  <2>3. inbox.msg = DecodePdu(FromHex(HexOf(FromPhone(m))))
    BY <2>1, <2>2 DEF InboxOK
  <2> QED BY <2>3, IncomingDecoded
<1>2. PduInv => InboxOK
  BY DEF PduInv
<1> QED BY <1>1, <1>2, InitIInv, NextIInv, InitPduInv, NextPduInv, PTL DEF Spec
=============================================================================
