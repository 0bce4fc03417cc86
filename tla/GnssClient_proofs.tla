-------------------------- MODULE GnssClient_proofs --------------------------
(***************************************************************************)
(* Proofs about the table of event handlers and the NMEA stream, for every *)
(* list of NMEA handlers, every set of other handlers and every size of    *)
(* the table in which each handler fits once.                              *)
(*                                                                         *)
(* First facts about one registration and one removal in a table t of n    *)
(* entries; then the inductive invariant, action by action.                *)
(***************************************************************************)
EXTENDS GnssClient, FiniteSetTheorems, TLAPS

Table == [Slot -> Handler \cup {Unset}]

\* Handler h is among the first n entries of table t.
Has(t, n, h) == \E k \in 0 .. n - 1 : t[k] = h

\* No two of the first n entries are the same, and all are handlers.
Distinct(t, n) == \A j, k \in 0 .. n - 1 : t[j] = t[k] => j = k
Filled(t, n) == \A k \in 0 .. n - 1 : t[k] \in Handler

\* Entry n written, and entry i taken out by shifting those behind it.
Stored(t, n, h) == [k \in Slot |-> IF k = n THEN h ELSE t[k]]
Shifted(t, n, i) ==
  [k \in Slot |-> IF k \in i .. n - 1 THEN IF k + 1 \in Slot THEN t[k + 1] ELSE Unset
                                      ELSE t[k]]

\* The place an entry had before entry i was taken out.
Origin(i, k) == IF k < i THEN k ELSE k + 1

LEMMA Constants ==
  /\ Capacity \in Nat \ {0} /\ QueueSize \in Nat \ {0} /\ MaxSentences \in Nat
  /\ NmeaHandlers \in Seq(Handler) /\ Len(NmeaHandlers) \in Nat \ {0}
  /\ DOMAIN NmeaHandlers = 1 .. Len(NmeaHandlers)
  /\ \A i \in 1 .. Len(NmeaHandlers) : NmeaHandlers[i] \in Range(NmeaHandlers)
  /\ Range(NmeaHandlers) \subseteq Handler /\ ClientHandlers \subseteq Handler
  /\ \A h \in Range(NmeaHandlers) : \E i \in 1 .. Len(NmeaHandlers) : h = NmeaHandlers[i]
  /\ Unset \notin Handler
BY TableAssumption DEF Handler, Range

LEMMA Sizes == /\ Capacity \in Nat \ {0} /\ QueueSize \in Nat \ {0}
               /\ MaxSentences \in Nat /\ Len(NmeaHandlers) \in Nat \ {0}
BY Constants

\* A table of distinct handlers that lacks one has a free slot: the pigeonhole
\* principle, on the table with the missing handler written behind it.
LEMMA Room ==
  ASSUME NEW t \in Table, NEW n \in Nat, n <= Capacity, Filled(t, n), Distinct(t, n),
         NEW h \in Handler, ~Has(t, n, h)
  PROVE  n < Capacity
<1> DEFINE f == [k \in 0 .. n |-> IF k = n THEN h ELSE t[k]]
<1>1. f \in [0 .. n -> Handler]
  BY DEF Filled
<1>2. \A x, y \in 0 .. n : f[x] = f[y] => x = y
  BY DEF Has, Distinct
<1> HIDE DEF f
<1>3. IsFiniteSet(0 .. n) /\ Cardinality(0 .. n) = n + 1
  BY FS_Interval
<1>4. ~(Cardinality(Handler) < Cardinality(0 .. n))
  BY <1>1, <1>2, <1>3, HandlersAssumption, FS_PigeonHole
<1>5. Cardinality(Handler) \in Nat
  BY HandlersAssumption, FS_CardinalityType
<1> QED BY <1>3, <1>4, <1>5, HandlersAssumption, Constants

LEMMA StoreFacts ==
  ASSUME NEW t \in Table, NEW n \in Nat, n < Capacity, Filled(t, n), NEW h \in Handler
  PROVE  /\ Stored(t, n, h) \in Table
         /\ Filled(Stored(t, n, h), n + 1)
         /\ \A x : Has(Stored(t, n, h), n + 1, x) <=> (Has(t, n, x) \/ x = h)
         /\ \A k \in 0 .. n - 1 : Stored(t, n, h)[k] = t[k]
         /\ Stored(t, n, h)[n] = h
<1> DEFINE u == Stored(t, n, h)
<1>1. u \in Table
  BY DEF Table, Stored
<1>2. (\A k \in 0 .. n - 1 : u[k] = t[k]) /\ u[n] = h
  BY Constants DEF Table, Stored, Slot
<1> HIDE DEF u
<1>3. Filled(u, n + 1)
  BY <1>2 DEF Filled
<1>4. ASSUME NEW x PROVE Has(u, n + 1, x) <=> (Has(t, n, x) \/ x = h)
  BY <1>2 DEF Has
<1> QED BY <1>1, <1>2, <1>3, <1>4 DEF u

LEMMA StoreDistinct ==
  ASSUME NEW t \in Table, NEW n \in Nat, n < Capacity, Filled(t, n), Distinct(t, n),
         NEW h \in Handler, ~Has(t, n, h)
  PROVE  Distinct(Stored(t, n, h), n + 1)
BY StoreFacts DEF Distinct, Has

LEMMA ShiftFacts ==
  ASSUME NEW t \in Table, NEW n \in Nat, n <= Capacity, Filled(t, n), NEW i \in 0 .. n - 1
  PROVE  /\ Shifted(t, n, i) \in Table
         /\ \A k \in 0 .. n - 2 : Shifted(t, n, i)[k] = t[Origin(i, k)]
         /\ Filled(Shifted(t, n, i), n - 1)
         /\ \A x : x # t[i] => (Has(Shifted(t, n, i), n - 1, x) <=> Has(t, n, x))
         /\ Distinct(t, n) => Distinct(Shifted(t, n, i), n - 1)
         /\ Distinct(t, n) => ~Has(Shifted(t, n, i), n - 1, t[i])
<1> DEFINE u == Shifted(t, n, i)
<1>1. u \in Table
  <2>1. ASSUME NEW k \in Slot
        PROVE  (IF k \in i .. n - 1 THEN IF k + 1 \in Slot THEN t[k + 1] ELSE Unset
                                    ELSE t[k]) \in Handler \cup {Unset}
    BY DEF Table
  <2> QED BY <2>1 DEF Table, Shifted
<1>2. ASSUME NEW k \in 0 .. n - 2 PROVE u[k] = t[Origin(i, k)]
  <2>1. k \in Slot /\ k + 1 \in Slot
    BY Constants DEF Slot
  <2> QED BY <2>1 DEF Shifted, Origin
<1> HIDE DEF u
<1>3. Filled(u, n - 1)
  BY <1>2 DEF Filled, Origin
<1>4. ASSUME NEW x, x # t[i] PROVE Has(u, n - 1, x) <=> Has(t, n, x)
  <2>1. ASSUME Has(u, n - 1, x) PROVE Has(t, n, x)
    BY <1>2, <2>1 DEF Has, Origin
  <2>2. ASSUME Has(t, n, x) PROVE Has(u, n - 1, x)
    <3>1. PICK k \in 0 .. n - 1 : t[k] = x
      BY <2>2 DEF Has
    <3>2. k # i
      BY <1>4, <3>1
    <3>3. CASE k < i
      <4>1. k \in 0 .. n - 2 /\ Origin(i, k) = k
        BY <3>3 DEF Origin
      <4> QED BY <1>2, <3>1, <4>1 DEF Has
    <3>4. CASE k > i
      <4>1. k - 1 \in 0 .. n - 2 /\ Origin(i, k - 1) = k
        BY <3>4 DEF Origin
      <4> QED BY <1>2, <3>1, <4>1 DEF Has
    <3> QED BY <3>2, <3>3, <3>4
  <2> QED BY <2>1, <2>2
<1>5. ASSUME Distinct(t, n) PROVE Distinct(u, n - 1) /\ ~Has(u, n - 1, t[i])
  <2>1. \A k \in 0 .. n - 2 : Origin(i, k) \in (0 .. n - 1) \ {i}
    BY DEF Origin
  <2>2. \A j, k \in 0 .. n - 2 : Origin(i, j) = Origin(i, k) => j = k
    BY DEF Origin
  <2> QED BY <1>2, <1>5, <2>1, <2>2 DEF Distinct, Has
<1> QED BY <1>1, <1>2, <1>3, <1>4, <1>5 DEF u

-----------------------------------------------------------------------------
(* The inductive invariant *)

\* While nothing was stored behind the array, its entries are handlers.
TableOK == intact => num <= Capacity /\ Filled(slots, num)

\* The loops start at the first handler and end behind the last; whoever is
\* enabling the stream has not succeeded yet.
Enabling == {"port", "register", "output", "sentence", "rate"}
LoopOK == /\ pc \in {"port", "quiet"} => next = 1
          /\ pc = "register" => next <= Len(NmeaHandlers)
          /\ pc \in Enabling => stream = "failed"

Heard == intact => \A h \in built : Has(slots, num, h)

\* While the stream was enabled only when it was known to be off: the table
\* holds handlers of constructed clients and of the stream, each once, and no
\* process() runs a second time for a sentence.
Tidy ==
  ~again => /\ intact
            /\ Distinct(slots, num)
            /\ \A h \in ClientHandlers \ built : ~Has(slots, num, h)
            /\ reading = <<>>
            /\ \A j \in DOMAIN queue : queue[j].by = queue[j].head

\* How far the loops have got: handler i of the stream is not registered, and
\* it is.  After a failure neither is known.
AbsentAt(i) == \/ pc = "port"
               \/ pc = "register" /\ next <= i
               \/ pc = "deregister" /\ i < next
               \/ pc \in {"idle", "quiet"} /\ stream = "off"
PresentAt(i) == \/ pc = "register" /\ i < next
                \/ pc \in {"output", "sentence", "rate"}
                \/ pc \in {"idle", "quiet"} /\ stream = "on"

Stages ==
  ~again => \A i \in 1 .. Len(NmeaHandlers) :
              /\ AbsentAt(i) => ~Has(slots, num, NmeaHandlers[i])
              /\ PresentAt(i) => Has(slots, num, NmeaHandlers[i])

IInv == TypeOK /\ TableOK /\ LoopOK /\ Heard /\ Tidy /\ Stages

LEMMA InitIInv == Init => IInv
<1> SUFFICES ASSUME Init PROVE IInv
  OBVIOUS
<1> USE DEF Init
<1>1. TypeOK
  <2>1. slots \in [Slot -> Handler \cup {Unset}]
    OBVIOUS
  <2>2. Q!TypeOK
    BY Sizes DEF Q!Init, Q!TypeOK
  <2>3. <<>> \in Seq(Range(NmeaHandlers)) /\ next \in 1 .. Len(NmeaHandlers) + 1
        /\ arrived \in 0 .. MaxSentences
    BY Sizes
  <2> QED BY <2>1, <2>2, <2>3 DEF TypeOK
<1>2. TableOK /\ LoopOK /\ Heard
  BY Sizes DEF TableOK, LoopOK, Enabling, Heard, Filled
<1>3. Tidy
  BY DEF Tidy, Distinct, Has, Q!Init
<1>4. Stages
  BY DEF Stages, AbsentAt, PresentAt, Has
<1> QED BY <1>1, <1>2, <1>3, <1>4 DEF IInv

-----------------------------------------------------------------------------
(* The queue *)

LEMMA PutKeeps ==
  ASSUME Q!TypeOK, NEW m \in Message, Q!Put(<<m>>)
  PROVE  /\ Q!TypeOK'
         /\ (/\ m.by = m.head
             /\ \A j \in DOMAIN queue : queue[j].by = queue[j].head)
              => \A j \in DOMAIN queue' : queue'[j].by = queue'[j].head
<1> DEFINE s == queue \o <<m>>
<1>1. Q!FirstOf(<<m>>, QueueSize) = <<m>>
  BY Constants DEF Q!FirstOf
<1>2. /\ queue \in Seq(Message) /\ s \in Seq(Message)
      /\ Len(s) = Len(queue) + 1 /\ Len(queue) <= QueueSize
      /\ out \in Seq(Message)
  BY DEF Q!TypeOK
<1>3. \A j \in 1 .. Len(s) : s[j] = IF j = Len(s) THEN m ELSE queue[j]
  BY DEF Q!TypeOK
<1>4. queue' = Q!LastOf(s, QueueSize) /\ out' = out
  BY <1>1 DEF Q!Put
<1> HIDE DEF s
<1>5. CASE Len(s) <= QueueSize
  <2>1. queue' = s
    BY <1>4, <1>5 DEF Q!LastOf
  <2> QED BY <1>2, <1>3, <1>4, <1>5, <2>1 DEF Q!TypeOK
<1>6. CASE Len(s) > QueueSize
  <2>1. queue' = SubSeq(s, Len(s) - QueueSize + 1, Len(s))
    BY <1>2, <1>4, <1>6, Constants DEF Q!LastOf
  <2>2. queue' \in Seq(Message) /\ Len(queue') = QueueSize
        /\ \A j \in 1 .. QueueSize : queue'[j] = s[Len(s) - QueueSize + j]
    BY <1>2, <1>6, <2>1, Constants
  <2>3. Q!TypeOK'
    BY <1>2, <1>4, <2>2, Sizes DEF Q!TypeOK
  <2>4. \A j \in DOMAIN queue' : queue'[j] \in {m} \cup {queue[k] : k \in DOMAIN queue}
    <3>1. ASSUME NEW j \in 1 .. QueueSize
          PROVE  \/ queue'[j] = m
                 \/ \E k \in 1 .. Len(queue) : queue'[j] = queue[k]
      <4>1. Len(s) - QueueSize + j \in 1 .. Len(s)
        BY <1>2, <1>6, Sizes
      <4>2. queue'[j] = s[Len(s) - QueueSize + j]
        BY <2>2
      <4>3. CASE j = QueueSize
        BY <1>2, <1>3, <4>1, <4>2, <4>3, Sizes
      <4>4. CASE j < QueueSize
        <5>1. Len(s) - QueueSize + j \in 1 .. Len(queue)
          BY <1>2, <4>1, <4>4, Sizes
        <5> QED BY <1>2, <1>3, <4>1, <4>2, <5>1
      <4> QED BY <4>3, <4>4, Sizes
    <3> QED BY <1>2, <2>2, <3>1
  <2> QED BY <2>3, <2>4
<1> QED BY <1>2, <1>5, <1>6, Constants

LEMMA TakeKeeps ==
  ASSUME Q!TypeOK, NEW n \in 0 .. Len(queue), Q!Take(n) \/ Q!Drop(n)
  PROVE  /\ Q!TypeOK'
         /\ \A j \in DOMAIN queue' : \E k \in DOMAIN queue : queue'[j] = queue[k]
<1>1. queue \in Seq(Message) /\ Len(queue) <= QueueSize /\ out \in Seq(Message)
  BY DEF Q!TypeOK
<1>2. queue' = SubSeq(queue, n + 1, Len(queue)) /\ out' \in {out, SubSeq(queue, 1, n)}
  BY DEF Q!Take, Q!Drop
<1>3. /\ queue' \in Seq(Message) /\ Len(queue') = Len(queue) - n
      /\ \A j \in 1 .. Len(queue) - n : queue'[j] = queue[n + j]
      /\ SubSeq(queue, 1, n) \in Seq(Message)
  BY <1>1, <1>2
<1>4. Q!TypeOK'
  <2>1. Len(queue') <= QueueSize
    BY <1>1, <1>3, Sizes
  <2>2. out' \in Seq(Message)
    BY <1>1, <1>2, <1>3
  <2> QED BY <1>3, <2>1, <2>2 DEF Q!TypeOK
<1>5. ASSUME NEW j \in DOMAIN queue' PROVE \E k \in DOMAIN queue : queue'[j] = queue[k]
  <2>1. j \in 1 .. Len(queue) - n /\ n + j \in DOMAIN queue
    BY <1>1, <1>3
  <2> QED BY <1>3, <2>1
<1> QED BY <1>4, <1>5

-----------------------------------------------------------------------------
(* The table *)

LEMMA Register ==
  ASSUME TypeOK, TableOK, intact, NEW h \in Handler, registerEventHandler(h)
  PROVE  /\ slots' \in Table /\ num' \in Nat /\ intact' \in BOOLEAN
         /\ TableOK'
         /\ intact' => \A x : Has(slots', num', x) <=> (Has(slots, num, x) \/ x = h)
         /\ Distinct(slots, num) /\ ~Has(slots, num, h) =>
              /\ intact' /\ Distinct(slots', num')
              /\ slots' = Stored(slots, num, h) /\ num' = num + 1
<1>1. /\ slots \in Table /\ num \in Nat /\ num <= Capacity /\ Filled(slots, num)
  BY DEF TypeOK, TableOK, Table
<1>2. /\ slots' = Stored(slots, num, h) /\ num' = num + 1
      /\ intact' \in BOOLEAN /\ (intact' <=> num < Capacity)
  BY DEF registerEventHandler, Stored
<1>3. slots' \in Table
  <2>1. \A k \in Slot : slots'[k] \in Handler \cup {Unset}
    BY <1>1, <1>2 DEF Stored, Table
  <2> QED BY <1>2, <2>1 DEF Stored, Table
<1>4. ASSUME num < Capacity
      PROVE  /\ num' <= Capacity /\ Filled(slots', num')
             /\ \A x : Has(slots', num', x) <=> (Has(slots, num, x) \/ x = h)
  BY <1>1, <1>2, <1>4, StoreFacts, Sizes
<1>5. ASSUME Distinct(slots, num), ~Has(slots, num, h)
      PROVE  num < Capacity /\ Distinct(slots', num')
  BY <1>1, <1>2, <1>5, Room, StoreDistinct
<1>6. TableOK' /\ num' \in Nat
  BY <1>1, <1>2, <1>4 DEF TableOK
<1> QED BY <1>2, <1>3, <1>4, <1>5, <1>6

LEMMA Deregister ==
  ASSUME TypeOK, TableOK, intact, NEW h \in Handler, deRegisterEventHandler(h)
  PROVE  /\ slots' \in Table /\ num' \in Nat /\ intact' = intact
         /\ TableOK'
         /\ \A x : x # h => (Has(slots', num', x) <=> Has(slots, num, x))
         /\ Distinct(slots, num) => Distinct(slots', num') /\ ~Has(slots', num', h)
         /\ \/ slots' = slots /\ num' = num
            \/ \E i \in 0 .. num - 1 : slots' = Shifted(slots, num, i) /\ num' = num - 1
<1>1. /\ slots \in Table /\ num \in Nat /\ num <= Capacity /\ Filled(slots, num)
  BY DEF TypeOK, TableOK, Table
<1>2. CASE \A i \in Entries : slots[i] # h
  <2>1. slots' = slots /\ num' = num /\ intact' = intact
    BY <1>2 DEF deRegisterEventHandler, table, Entries
  <2> QED BY <1>1, <1>2, <2>1 DEF TableOK, Has, Entries
<1>3. CASE \E i \in Entries : slots[i] = h
  <2>1. PICK i \in 0 .. num - 1 :
          /\ slots[i] = h /\ slots' = Shifted(slots, num, i)
          /\ num' = num - 1 /\ intact' = intact
    BY <1>3 DEF deRegisterEventHandler, Entries, Behind, Shifted
  <2>2. num' \in Nat /\ num' <= Capacity
    BY <1>1, <2>1, Sizes
  <2> QED BY <1>1, <2>1, <2>2, ShiftFacts DEF TableOK
<1> QED BY <1>2, <1>3

-----------------------------------------------------------------------------
(* The commands of the client, which leave the table alone *)

LEMMA CommandStep ==
  ASSUME IInv, UNCHANGED <<table, built, again, sentences>>, TypeOK', LoopOK',
         \A i \in 1 .. Len(NmeaHandlers) : /\ AbsentAt(i)' => AbsentAt(i)
                                           /\ PresentAt(i)' => PresentAt(i)
  PROVE  IInv'
<1>1. UNCHANGED <<slots, num, intact, built, again, reading, queue>>
  BY DEF table, sentences
<1>2. TableOK' /\ Heard' /\ Tidy'
  BY <1>1 DEF IInv, TableOK, Heard, Tidy
<1>3. Stages'
  BY <1>1 DEF IInv, Stages
<1> QED BY <1>2, <1>3 DEF IInv

\* What a command of the client does to the places in its two functions.
CommandMoves ==
  \/ /\ <<pc, pc'>> \in {<<"port", "register">>, <<"port", "idle">>, <<"output", "sentence">>,
                        <<"output", "idle">>, <<"sentence", "rate">>, <<"sentence", "idle">>,
                        <<"quiet", "deregister">>, <<"quiet", "idle">>}
     /\ next' = next /\ stream' = stream
  \/ pc = "rate" /\ pc' = "idle" /\ next' = next /\ stream' \in {"failed", "on"}
  \/ pc = "idle" /\ pc' = "quiet" /\ next' = 1 /\ stream' = stream

LEMMA CommandsKeep ==
  ASSUME IInv,
         \/ selectOutputPort \/ enableNMEAOutput \/ setNMEASentence \/ setNMEARate
         \/ disableNMEAStream \/ disableNMEAOutput
  PROVE  IInv'
<1>1. UNCHANGED <<table, built, again, sentences>> /\ streaming' \in {streaming, TRUE, FALSE}
  BY DEF selectOutputPort, enableNMEAOutput, setNMEASentence, setNMEARate,
         disableNMEAStream, disableNMEAOutput, Command
<1>2. CommandMoves
  <2>1. CASE selectOutputPort
    BY <2>1 DEF selectOutputPort, Command, CommandMoves
  <2>2. CASE enableNMEAOutput
    BY <2>2 DEF enableNMEAOutput, CommandMoves
  <2>3. CASE setNMEASentence
    BY <2>3 DEF setNMEASentence, Command, CommandMoves
  <2>4. CASE setNMEARate
    BY <2>4 DEF setNMEARate, Command, CommandMoves
  <2>5. CASE disableNMEAStream
    BY <2>5 DEF disableNMEAStream, CommandMoves
  <2>6. CASE disableNMEAOutput
    BY <2>6 DEF disableNMEAOutput, CommandMoves
  <2> QED BY <2>1, <2>2, <2>3, <2>4, <2>5, <2>6
<1>3. TypeOK'
  <2>1. /\ UNCHANGED <<slots, num, intact, built, again, reading, arrived, queue, out>>
        /\ TypeOK
    BY <1>1 DEF table, sentences, IInv
  <2>2. next' \in 1 .. Len(NmeaHandlers) + 1
    <3>1. next' = next \/ next' = 1
      BY <1>2 DEF CommandMoves
    <3> QED BY <2>1, <3>1, Sizes DEF TypeOK
  <2>3. /\ stream' \in {stream, "failed", "on"}
        /\ pc' \in {"idle", "register", "sentence", "rate", "quiet", "deregister"}
    BY <1>2 DEF CommandMoves
  <2>4. Q!TypeOK'
    BY <2>1 DEF TypeOK, Q!TypeOK
  <2> QED BY <1>1, <2>1, <2>2, <2>3, <2>4 DEF TypeOK
<1>4. LoopOK'
  BY <1>2, Sizes DEF CommandMoves, IInv, LoopOK, Enabling
<1>5. ASSUME NEW i \in 1 .. Len(NmeaHandlers)
      PROVE  (AbsentAt(i)' => AbsentAt(i)) /\ (PresentAt(i)' => PresentAt(i))
  BY <1>2, Sizes DEF CommandMoves, IInv, LoopOK, Enabling, AbsentAt, PresentAt
<1> QED BY <1>1, <1>3, <1>4, <1>5, CommandStep

\* A second attempt makes "again" true; a first one finds no handler of the
\* stream in the table.
LEMMA EnableKeeps == ASSUME IInv, enableNMEAStream PROVE IInv'
<1>1. /\ UNCHANGED <<slots, num, intact, built, streaming, reading, arrived, queue, out>>
      /\ pc = "idle" /\ pc' = "port" /\ next' = 1 /\ stream' = "failed"
      /\ again' = (again \/ stream # "off")
  BY DEF enableNMEAStream, table, sentences
<1>2. TypeOK'
  <2>1. TypeOK /\ again' \in BOOLEAN /\ 1 \in 1 .. Len(NmeaHandlers) + 1
    BY <1>1, Sizes DEF IInv
  <2>2. Q!TypeOK'
    BY <1>1, <2>1 DEF TypeOK, Q!TypeOK
  <2> QED BY <1>1, <2>1, <2>2 DEF TypeOK
<1>3. TableOK' /\ LoopOK' /\ Heard'
  BY <1>1 DEF IInv, TableOK, LoopOK, Enabling, Heard
<1>4. Tidy'
  BY <1>1 DEF IInv, Tidy
<1>5. Stages'
  BY <1>1 DEF IInv, Stages, AbsentAt, PresentAt
<1> QED BY <1>2, <1>3, <1>4, <1>5 DEF IInv

-----------------------------------------------------------------------------
(* Registration and removal *)

LEMMA ConstructKeeps == ASSUME IInv, NEW h \in ClientHandlers, construct(h) PROVE IInv'
<1>1. /\ TypeOK /\ TableOK /\ intact /\ h \in Handler /\ h \notin Range(NmeaHandlers)
      /\ registerEventHandler(h) /\ pc = "idle"
      /\ h \notin built /\ built' = built \cup {h}
      /\ UNCHANGED <<pc, next, stream, again, streaming, reading, arrived, queue, out>>
  BY Constants, HandlersAssumption DEF IInv, construct, Free, sentences
<1>2. /\ slots' \in Table /\ num' \in Nat /\ intact' \in BOOLEAN /\ TableOK'
      /\ intact' => \A x : Has(slots', num', x) <=> (Has(slots, num, x) \/ x = h)
      /\ Distinct(slots, num) /\ ~Has(slots, num, h) => intact' /\ Distinct(slots', num')
  BY <1>1, Register
<1>3. TypeOK'
  <2>1. Q!TypeOK'
    BY <1>1 DEF TypeOK, Q!TypeOK
  <2> QED BY <1>1, <1>2, <2>1 DEF TypeOK, Table
<1>4. LoopOK'
  BY <1>1 DEF IInv, LoopOK
<1>5. Heard'
  BY <1>1, <1>2 DEF IInv, Heard
<1>6. ASSUME ~again
      PROVE  /\ ~Has(slots, num, h) /\ Distinct(slots, num)
             /\ intact' /\ Distinct(slots', num')
  BY <1>1, <1>2, <1>6 DEF IInv, Tidy
<1>7. Tidy'
  BY <1>1, <1>2, <1>6 DEF IInv, Tidy
<1>8. Stages'
  <2> SUFFICES ASSUME ~again, NEW i \in 1 .. Len(NmeaHandlers)
               PROVE  /\ AbsentAt(i)' => ~Has(slots', num', NmeaHandlers[i])
                      /\ PresentAt(i)' => Has(slots', num', NmeaHandlers[i])
    BY <1>1 DEF Stages
  <2>1. NmeaHandlers[i] # h
    BY <1>1, Constants
  <2>2. Has(slots', num', NmeaHandlers[i]) <=> Has(slots, num, NmeaHandlers[i])
    BY <1>2, <1>6, <2>1
  <2> QED BY <1>1, <2>2 DEF IInv, Stages, AbsentAt, PresentAt
<1> QED BY <1>2, <1>3, <1>4, <1>5, <1>7, <1>8 DEF IInv

LEMMA RegisterNextKeeps == ASSUME IInv, RegisterNext PROVE IInv'
<1> DEFINE h == NmeaHandlers[next]
<1>1. /\ TypeOK /\ TableOK /\ LoopOK /\ intact /\ registerEventHandler(h)
      /\ pc = "register" /\ next' = next + 1
      /\ pc' = IF next = Len(NmeaHandlers) THEN "output" ELSE "register"
      /\ UNCHANGED <<built, stream, again, streaming, reading, arrived, queue, out>>
  BY DEF IInv, RegisterNext, Free, sentences
<1>2. next \in 1 .. Len(NmeaHandlers)
  BY <1>1, Sizes DEF TypeOK, LoopOK
<1>3. h \in Range(NmeaHandlers) /\ h \in Handler /\ h \notin ClientHandlers
  BY <1>2, Constants, HandlersAssumption
<1>4. \A i \in 1 .. Len(NmeaHandlers) : NmeaHandlers[i] = h => i = next
  BY <1>2, Constants, HandlersAssumption
<1> HIDE DEF h
<1>5. /\ slots' \in Table /\ num' \in Nat /\ intact' \in BOOLEAN /\ TableOK'
      /\ intact' => \A x : Has(slots', num', x) <=> (Has(slots, num, x) \/ x = h)
      /\ Distinct(slots, num) /\ ~Has(slots, num, h) => intact' /\ Distinct(slots', num')
  BY <1>1, <1>3, Register
<1>6. TypeOK'
  <2>1. next' \in 1 .. Len(NmeaHandlers) + 1 /\ pc' \in {"output", "register"}
    BY <1>1, <1>2, Sizes
  <2>2. Q!TypeOK'
    BY <1>1 DEF TypeOK, Q!TypeOK
  <2> QED BY <1>1, <1>5, <2>1, <2>2 DEF TypeOK, Table
<1>7. LoopOK'
  BY <1>1, <1>2, Sizes DEF LoopOK, Enabling
<1>8. Heard'
  BY <1>1, <1>5 DEF IInv, Heard
<1>9. ASSUME ~again
      PROVE  ~Has(slots, num, h) /\ intact' /\ Distinct(slots', num')
  <2>1. ~Has(slots, num, h)
    BY <1>1, <1>2, <1>9 DEF IInv, Stages, AbsentAt, h
  <2> QED BY <1>5, <1>9, <2>1 DEF IInv, Tidy
<1>10. Tidy'
  BY <1>1, <1>3, <1>5, <1>9 DEF IInv, Tidy
<1>11. Stages'
  <2> SUFFICES ASSUME ~again, NEW i \in 1 .. Len(NmeaHandlers)
               PROVE  /\ AbsentAt(i)' => ~Has(slots', num', NmeaHandlers[i])
                      /\ PresentAt(i)' => Has(slots', num', NmeaHandlers[i])
    BY <1>1 DEF Stages
  <2>1. Has(slots', num', NmeaHandlers[i]) <=> (Has(slots, num, NmeaHandlers[i]) \/ i = next)
    BY <1>4, <1>5, <1>9 DEF h
  <2>2. /\ next <= i => ~Has(slots, num, NmeaHandlers[i])
        /\ i < next => Has(slots, num, NmeaHandlers[i])
    BY <1>1 DEF IInv, Stages, AbsentAt, PresentAt
  <2>3. AbsentAt(i)' => next < i
    BY <1>1, <1>2, Sizes DEF AbsentAt
  <2>4. PresentAt(i)' => i <= next
    BY <1>1, <1>2, Sizes DEF PresentAt
  <2> QED BY <1>2, <2>1, <2>2, <2>3, <2>4
<1> QED BY <1>5, <1>6, <1>7, <1>8, <1>10, <1>11 DEF IInv

LEMMA DeRegisterNextKeeps == ASSUME IInv, DeRegisterNext PROVE IInv'
<1> DEFINE h == NmeaHandlers[next]
<1>1. /\ TypeOK /\ TableOK /\ LoopOK /\ intact /\ deRegisterEventHandler(h)
      /\ pc = "deregister" /\ next' = next + 1 /\ next <= Len(NmeaHandlers)
      /\ UNCHANGED <<built, pc, stream, again, streaming, reading, arrived, queue, out>>
  BY DEF IInv, DeRegisterNext, Free, sentences
<1>2. next \in 1 .. Len(NmeaHandlers)
  BY <1>1, Sizes DEF TypeOK
<1>3. h \in Range(NmeaHandlers) /\ h \in Handler /\ h \notin ClientHandlers
  BY <1>2, Constants, HandlersAssumption
<1>4. \A i \in 1 .. Len(NmeaHandlers) : NmeaHandlers[i] = h => i = next
  BY <1>2, Constants, HandlersAssumption
<1> HIDE DEF h
<1>5. /\ slots' \in Table /\ num' \in Nat /\ intact' = intact /\ TableOK'
      /\ \A x : x # h => (Has(slots', num', x) <=> Has(slots, num, x))
      /\ Distinct(slots, num) => Distinct(slots', num') /\ ~Has(slots', num', h)
  BY <1>1, <1>3, Deregister
<1>6. TypeOK'
  <2>1. next' \in 1 .. Len(NmeaHandlers) + 1
    BY <1>1, <1>2, Sizes
  <2>2. Q!TypeOK'
    BY <1>1 DEF TypeOK, Q!TypeOK
  <2> QED BY <1>1, <1>5, <2>1, <2>2 DEF TypeOK, Table
<1>7. LoopOK'
  BY <1>1 DEF LoopOK, Enabling
<1>8. Heard'
  BY <1>1, <1>3, <1>5 DEF IInv, Heard, TypeOK
<1>9. Tidy'
  BY <1>1, <1>3, <1>5 DEF IInv, Tidy
<1>10. Stages'
  <2> SUFFICES ASSUME ~again, NEW i \in 1 .. Len(NmeaHandlers)
               PROVE  /\ AbsentAt(i)' => ~Has(slots', num', NmeaHandlers[i])
                      /\ PresentAt(i)' => Has(slots', num', NmeaHandlers[i])
    BY <1>1 DEF Stages
  <2>1. ~PresentAt(i)' /\ (AbsentAt(i)' => i <= next)
    BY <1>1, <1>2, Sizes DEF AbsentAt, PresentAt
  <2>2. CASE i = next
    BY <1>5, <2>1, <2>2 DEF IInv, Tidy, h
  <2>3. CASE i < next
    <3>1. ~Has(slots, num, NmeaHandlers[i])
      BY <1>1, <2>3 DEF IInv, Stages, AbsentAt
    <3>2. NmeaHandlers[i] # h
      BY <1>4, <2>3
    <3> QED BY <1>5, <2>1, <3>1, <3>2
  <2> QED BY <1>2, <2>1, <2>2, <2>3
<1> QED BY <1>5, <1>6, <1>7, <1>8, <1>9, <1>10 DEF IInv

-----------------------------------------------------------------------------
(* The queue and the sentences *)

LEMMA DisabledKeeps == ASSUME IInv, NEW exhaust \in BOOLEAN, Disabled(exhaust) PROVE IInv'
<1>1. /\ pc = "deregister" /\ next > Len(NmeaHandlers) /\ pc' = "idle" /\ stream' = "off"
      /\ UNCHANGED <<slots, num, intact, built, next, again, streaming, reading, arrived>>
      /\ Q!Drop(Len(queue)) \/ UNCHANGED <<queue, out>>
  BY DEF Disabled, table
<1>2. TypeOK
  BY DEF IInv
<1>3. Q!TypeOK' /\ \A j \in DOMAIN queue' : \E k \in DOMAIN queue : queue'[j] = queue[k]
  <2>1. CASE Q!Drop(Len(queue))
    <3>1. Q!TypeOK /\ Len(queue) \in 0 .. Len(queue)
      BY <1>2 DEF TypeOK, Q!TypeOK
    <3> QED BY <2>1, <3>1, TakeKeeps
  <2>2. CASE UNCHANGED <<queue, out>>
    BY <1>2, <2>2 DEF TypeOK, Q!TypeOK
  <2> QED BY <1>1, <2>1, <2>2
<1>4. TypeOK'
  BY <1>1, <1>2, <1>3 DEF TypeOK
<1>5. TableOK' /\ LoopOK' /\ Heard'
  BY <1>1 DEF IInv, TableOK, LoopOK, Enabling, Heard
<1>6. Tidy'
  BY <1>1, <1>3 DEF IInv, Tidy
<1>7. Stages'
  <2>1. ASSUME NEW i \in 1 .. Len(NmeaHandlers)
        PROVE  AbsentAt(i) /\ ~PresentAt(i)'
    BY <1>1, <1>2, Sizes DEF AbsentAt, PresentAt, TypeOK
  <2> QED BY <1>1, <2>1 DEF IInv, Stages
<1> QED BY <1>4, <1>5, <1>6, <1>7 DEF IInv

LEMMA GetKeeps == ASSUME IInv, getNMEAMessage PROVE IInv'
<1>1. /\ UNCHANGED <<slots, num, intact, built, pc, next, stream, again, streaming,
                     reading, arrived>>
      /\ Q!Take(1) /\ queue # <<>>
  BY DEF getNMEAMessage, table, client
<1>2. TypeOK
  BY DEF IInv
<1>3. Q!TypeOK' /\ \A j \in DOMAIN queue' : \E k \in DOMAIN queue : queue'[j] = queue[k]
  <2>1. Q!TypeOK /\ 1 \in 0 .. Len(queue)
    BY <1>1, <1>2 DEF TypeOK, Q!TypeOK
  <2> QED BY <1>1, <2>1, TakeKeeps
<1>4. TypeOK'
  BY <1>1, <1>2, <1>3 DEF TypeOK
<1>5. TableOK' /\ LoopOK' /\ Heard' /\ Stages'
  BY <1>1 DEF IInv, TableOK, LoopOK, Heard, Stages, AbsentAt, PresentAt
<1>6. Tidy'
  BY <1>1, <1>3 DEF IInv, Tidy
<1> QED BY <1>4, <1>5, <1>6 DEF IInv

\* How often process() runs for one sentence is a number, and it is one when no
\* handler is registered twice.
LEMMA RunsOnce ==
  ASSUME TypeOK, NEW h, Runs(h) # {}
  PROVE  /\ Cardinality(Runs(h)) \in Nat \ {0}
         /\ Distinct(slots, num) => Cardinality(Runs(h)) = 1
<1>1. num \in Nat /\ Copies(h) \in SUBSET (0 .. num - 1)
  BY DEF TypeOK, Copies, Entries
<1>2. IsFiniteSet(0 .. num - 1)
  BY <1>1, FS_Interval
<1>3. IsFiniteSet(Copies(h))
  BY <1>1, <1>2, FS_Subset
<1>4. CASE Runs(h) = {0}
  <2>1. Cardinality({0}) = 1
    BY FS_Singleton
  <2> QED BY <1>4, <2>1
<1>5. CASE Runs(h) = Copies(h)
  <2>1. Cardinality(Copies(h)) \in Nat /\ Cardinality(Copies(h)) # 0
    BY <1>3, <1>5, FS_CardinalityType, FS_EmptySet
  <2>2. ASSUME Distinct(slots, num) PROVE \E k : Copies(h) = {k}
    <3>1. PICK k : k \in Copies(h)
      BY <1>5
    <3>2. \A j \in Copies(h) : j = k
      BY <2>2, <3>1 DEF Distinct, Copies, Entries
    <3> QED BY <3>1, <3>2
  <2>3. ASSUME Distinct(slots, num) PROVE Cardinality(Copies(h)) = 1
    BY <1>3, <2>2, <2>3, FS_Singleton
  <2> QED BY <1>5, <2>1, <2>3
<1> QED BY <1>4, <1>5 DEF Runs

LEMMA ArriveKeeps == ASSUME IInv, NEW h \in Range(NmeaHandlers), Arrive(h) PROVE IInv'
<1>1. /\ UNCHANGED <<slots, num, intact, built, pc, next, stream, again, streaming>>
      /\ arrived < MaxSentences /\ arrived' = arrived + 1
  BY DEF Arrive, table, client
<1>2. TypeOK /\ arrived' \in 1 .. MaxSentences
  BY <1>1, Sizes DEF IInv, TypeOK
<1>3. TableOK' /\ LoopOK' /\ Heard' /\ Stages'
  BY <1>1 DEF IInv, TableOK, LoopOK, Heard, Stages, AbsentAt, PresentAt
<1>4. CASE Runs(h) = {}
  <2>1. UNCHANGED <<queue, out, reading>>
    BY <1>4 DEF Arrive
  <2>2. TypeOK'
    BY <1>1, <1>2, <2>1, Sizes DEF TypeOK, Q!TypeOK
  <2>3. Tidy'
    BY <1>1, <2>1 DEF IInv, Tidy
  <2> QED BY <1>3, <2>2, <2>3 DEF IInv
<1>5. CASE Runs(h) # {}
  <2>1. /\ Q!Put(<<Sentence(h)>>)
        /\ reading' = [k \in 1 .. Cardinality(Runs(h)) - 1 |-> h]
    BY <1>5 DEF Arrive
  <2>2. Sentence(h) \in Message /\ Sentence(h).by = Sentence(h).head
    BY <1>1, <1>2 DEF Sentence, Message
  <2>3. Q!TypeOK
    BY <1>2 DEF TypeOK
  <2>4. /\ Q!TypeOK'
        /\ (\A j \in DOMAIN queue : queue[j].by = queue[j].head)
              => \A j \in DOMAIN queue' : queue'[j].by = queue'[j].head
    BY <2>1, <2>2, <2>3, PutKeeps
  <2>5. reading' \in Seq(Range(NmeaHandlers))
    <3>1. Cardinality(Runs(h)) - 1 \in Nat
      BY <1>2, <1>5, RunsOnce
    <3> QED BY <2>1, <3>1
  <2>6. TypeOK'
    BY <1>1, <1>2, <2>4, <2>5 DEF TypeOK
  <2>7. ASSUME ~again PROVE reading' = <<>>
    <3>1. Cardinality(Runs(h)) = 1
      BY <1>2, <1>5, <2>7, RunsOnce DEF IInv, Tidy
    <3> QED BY <2>1, <3>1
  <2>8. Tidy'
    BY <1>1, <2>4, <2>7 DEF IInv, Tidy
  <2> QED BY <1>3, <2>6, <2>8 DEF IInv
<1> QED BY <1>4, <1>5

LEMMA ReadNextKeeps == ASSUME IInv, NEW h \in Range(NmeaHandlers), ReadNext(h) PROVE IInv'
<1>1. /\ UNCHANGED <<slots, num, intact, built, pc, next, stream, again, streaming>>
      /\ arrived < MaxSentences /\ arrived' = arrived + 1
      /\ reading # <<>> /\ reading' = Tail(reading)
      /\ Q!Put(<<[Sentence(h) EXCEPT !.by = Head(reading)]>>)
  BY DEF ReadNext, table, client
<1>2. TypeOK /\ arrived' \in 1 .. MaxSentences
  BY <1>1, Sizes DEF IInv, TypeOK
<1>3. Head(reading) \in Range(NmeaHandlers) /\ reading' \in Seq(Range(NmeaHandlers))
  BY <1>1, <1>2 DEF TypeOK
<1>4. [Sentence(h) EXCEPT !.by = Head(reading)] \in Message
  BY <1>1, <1>2, <1>3 DEF Sentence, Message
<1>5. Q!TypeOK'
  BY <1>1, <1>2, <1>4, PutKeeps DEF TypeOK
<1>6. TypeOK'
  BY <1>1, <1>2, <1>3, <1>5 DEF TypeOK
<1>7. TableOK' /\ LoopOK' /\ Heard' /\ Stages'
  BY <1>1 DEF IInv, TableOK, LoopOK, Heard, Stages, AbsentAt, PresentAt
<1>8. Tidy'
  BY <1>1 DEF IInv, Tidy
<1> QED BY <1>6, <1>7, <1>8 DEF IInv

LEMMA NextIInv == IInv /\ [Next]_vars => IInv'
<1> SUFFICES ASSUME IInv, [Next]_vars PROVE IInv'
  OBVIOUS
<1>1. ASSUME NEW h \in ClientHandlers, construct(h) PROVE IInv'
  BY <1>1, ConstructKeeps
<1>2. CASE enableNMEAStream
  BY <1>2, EnableKeeps
<1>3. CASE \/ selectOutputPort \/ enableNMEAOutput \/ setNMEASentence \/ setNMEARate
           \/ disableNMEAStream \/ disableNMEAOutput
  BY <1>3, CommandsKeep
<1>4. CASE RegisterNext
  BY <1>4, RegisterNextKeeps
<1>5. CASE DeRegisterNext
  BY <1>5, DeRegisterNextKeeps
<1>6. ASSUME NEW exhaust \in BOOLEAN, Disabled(exhaust) PROVE IInv'
  BY <1>6, DisabledKeeps
<1>7. CASE getNMEAMessage
  BY <1>7, GetKeeps
<1>8. ASSUME NEW h \in Range(NmeaHandlers), Arrive(h) \/ ReadNext(h) PROVE IInv'
  BY <1>8, ArriveKeeps, ReadNextKeeps
<1>9. CASE UNCHANGED vars
  <2>1. UNCHANGED <<slots, num, intact, built, pc, next, stream, again, streaming,
                    reading, arrived, queue, out>>
    BY <1>9 DEF vars, table, client, sentences
  <2>2. TypeOK'
    BY <2>1 DEF IInv, TypeOK, Q!TypeOK
  <2>3. TableOK' /\ LoopOK' /\ Heard' /\ Tidy' /\ Stages'
    BY <2>1 DEF IInv, TableOK, LoopOK, Heard, Tidy, Stages, AbsentAt, PresentAt
  <2> QED BY <2>2, <2>3 DEF IInv
<1> QED BY <1>1, <1>2, <1>3, <1>4, <1>5, <1>6, <1>7, <1>8, <1>9
        DEF Next, Application, Client

\* The inductive invariant holds throughout: each of the theorems below follows
\* from it alone, or from it and one step.
THEOREM Invariance == Spec => []IInv
BY InitIInv, NextIInv, PTL DEF Spec

\* Every variable keeps its type.
THEOREM GnssTypeOK == Spec => []TypeOK
<1>1. IInv => TypeOK
  BY DEF IInv
<1> QED BY <1>1, Invariance, PTL

\* However often the stream is enabled, and wherever enabling or disabling it
\* fails, the handlers of other clients stay in the table.
THEOREM ClientsStayHeard == Spec => []ClientsHeard
<1>1. IInv => ClientsHeard
  BY DEF IInv, Heard, ClientsHeard, Has, Entries
<1> QED BY <1>1, Invariance, PTL

\* An application that enables the stream only when disabling it succeeded
\* never has a handler in the table twice, nor one behind the array.
THEOREM HandlersOnce == Spec => []OnceInTable
<1>1. IInv => OnceInTable
  BY DEF IInv, Tidy, OnceInTable, Distinct, Entries
<1> QED BY <1>1, Invariance, PTL

\* For such an application, what it believes of the stream is what the table
\* holds.
THEOREM StreamAgrees == Spec => []StreamMatchesTable
<1>1. ASSUME IInv PROVE StreamMatchesTable
  <2> SUFFICES ASSUME ~again, pc = "idle", NEW h \in Range(NmeaHandlers)
               PROVE  /\ stream = "on" => Copies(h) # {}
                      /\ stream = "off" => Copies(h) = {}
    BY DEF StreamMatchesTable
  <2>1. PICK i \in 1 .. Len(NmeaHandlers) : h = NmeaHandlers[i]
    BY Constants
  <2>2. Copies(h) # {} <=> Has(slots, num, h)
    BY DEF Copies, Has, Entries
  <2> QED BY <1>1, <2>1, <2>2 DEF IInv, Stages, AbsentAt, PresentAt
<1> QED BY <1>1, Invariance, PTL

\* For such an application, no message starts with the match string of another
\* sentence.
THEOREM SentencesWhole == Spec => []WholeSentences
<1>1. IInv => WholeSentences
  BY DEF IInv, Tidy, WholeSentences
<1> QED BY <1>1, Invariance, PTL

\* For such an application, registering and removing keep the order of the
\* handlers that stay: a removal moves entries up, and a registered handler was
\* not in the table before.
THEOREM OrderStays == Spec => OrderKept
<1> DEFINE Ordered(t, n) ==
             \A j, k \in 0 .. num - 1 : \A l, m \in 0 .. n - 1 :
               j < k /\ slots[j] = t[l] /\ slots[k] = t[m] => l < m
<1>1. ASSUME IInv, ~again PROVE Ordered(slots, num)
  BY <1>1 DEF IInv, Tidy, Distinct
<1>2. ASSUME IInv, ~again, NEW h \in Handler, ~Has(slots, num, h), registerEventHandler(h)
      PROVE  Ordered(slots', num')
  <2>1. /\ slots \in Table /\ num \in Nat /\ Distinct(slots, num) /\ Filled(slots, num)
        /\ num <= Capacity
    BY <1>2 DEF IInv, Tidy, TypeOK, TableOK, Table
  <2>2. slots' = Stored(slots, num, h) /\ num' = num + 1 /\ num < Capacity
    BY <1>2, <2>1, Register, Room DEF IInv, Tidy
  <2>3. (\A k \in 0 .. num - 1 : slots'[k] = slots[k]) /\ slots'[num] = h
    BY <2>1, <2>2, StoreFacts
  <2>4. \A k \in 0 .. num - 1 : slots[k] # h
    BY <1>2 DEF Has
  <2>5. ASSUME NEW j \in 0 .. num - 1, NEW l \in 0 .. num' - 1, slots[j] = slots'[l]
        PROVE  l = j
    <3>1. CASE l = num
      BY <2>3, <2>4, <2>5, <3>1
    <3>2. CASE l \in 0 .. num - 1
      BY <2>1, <2>3, <2>5, <3>2 DEF Distinct
    <3> QED BY <2>1, <2>2, <3>1, <3>2
  <2> QED BY <2>5
<1>3. ASSUME IInv, ~again, NEW h \in Handler, deRegisterEventHandler(h)
      PROVE  Ordered(slots', num')
  <2>1. /\ slots \in Table /\ num \in Nat /\ Distinct(slots, num) /\ Filled(slots, num)
        /\ num <= Capacity /\ intact
    BY <1>3 DEF IInv, Tidy, TypeOK, TableOK, Table
  <2>2. \/ slots' = slots /\ num' = num
        \/ \E i \in 0 .. num - 1 : slots' = Shifted(slots, num, i) /\ num' = num - 1
    BY <1>3, <2>1, Deregister DEF IInv
  <2>3. CASE slots' = slots /\ num' = num
    BY <1>1, <1>3, <2>3
  <2>4. ASSUME NEW i \in 0 .. num - 1, slots' = Shifted(slots, num, i), num' = num - 1
        PROVE  Ordered(slots', num')
    <3>1. \A k \in 0 .. num - 2 : slots'[k] = slots[Origin(i, k)]
      BY <2>1, <2>4, ShiftFacts
    <3>2. ASSUME NEW j \in 0 .. num - 1, NEW l \in 0 .. num - 2, slots[j] = slots'[l]
          PROVE  j = Origin(i, l)
      <4>1. Origin(i, l) \in 0 .. num - 1
        BY <2>1 DEF Origin
      <4> QED BY <2>1, <3>1, <3>2, <4>1 DEF Distinct
    <3>3. \A l, m \in 0 .. num - 2 : Origin(i, l) < Origin(i, m) => l < m
      BY DEF Origin
    <3>4. num' - 1 = num - 2
      BY <2>1, <2>4
    <3> QED BY <3>2, <3>3, <3>4
  <2> QED BY <2>2, <2>3, <2>4
<1>4. ASSUME IInv, ~again, [Next]_vars PROVE Ordered(slots', num')
  <2>1. ASSUME NEW h \in ClientHandlers, construct(h) PROVE Ordered(slots', num')
    <3>1. registerEventHandler(h) /\ h \notin built /\ h \in Handler
      BY <2>1, Constants DEF construct
    <3>2. ~Has(slots, num, h)
      BY <1>4, <3>1 DEF IInv, Tidy
    <3> QED BY <1>2, <1>4, <3>1, <3>2
  <2>2. CASE RegisterNext
    <3>1. pc = "register" /\ registerEventHandler(NmeaHandlers[next])
      BY <2>2 DEF RegisterNext
    <3>2. next \in 1 .. Len(NmeaHandlers)
      BY <1>4, <3>1, Sizes DEF IInv, TypeOK, LoopOK
    <3>3. ~Has(slots, num, NmeaHandlers[next]) /\ NmeaHandlers[next] \in Handler
      BY <1>4, <3>1, <3>2, Constants DEF IInv, Stages, AbsentAt
    <3> QED BY <1>2, <1>4, <3>1, <3>3
  <2>3. CASE DeRegisterNext
    <3>1. deRegisterEventHandler(NmeaHandlers[next]) /\ next <= Len(NmeaHandlers)
      BY <2>3 DEF DeRegisterNext
    <3>2. next \in 1 .. Len(NmeaHandlers)
      BY <1>4, <3>1, Sizes DEF IInv, TypeOK
    <3>3. NmeaHandlers[next] \in Handler
      BY <3>2, Constants
    <3> QED BY <1>3, <1>4, <3>1, <3>3
  <2>4. CASE UNCHANGED table
    BY <1>1, <1>4, <2>4 DEF table
  <2> HIDE DEF Ordered
  <2> QED BY <1>4, <2>1, <2>2, <2>3, <2>4
           DEF Next, Application, Client, vars, enableNMEAStream, disableNMEAStream,
               getNMEAMessage, selectOutputPort, enableNMEAOutput, setNMEASentence,
               setNMEARate, disableNMEAOutput, Disabled, Command, Arrive, ReadNext
<1>5. IInv /\ [Next]_vars =>
        [~again => \A j, k \in Entries : \A l, m \in Entries' :
           /\ j < k /\ slots[j] = slots'[l] /\ slots[k] = slots'[m]
           => l < m]_vars
  BY <1>4 DEF Entries
<1> QED BY <1>5, Invariance, PTL DEF Spec, OrderKept
=============================================================================
