------------------------- MODULE ModemSerial_proofs -------------------------
(***************************************************************************)
(* Proofs about the serial driver, for every set of scripts, answers,      *)
(* events and handlers, every table of handlers and either port: types,    *)
(* where event handlers run, and that no event is counted twice or not at  *)
(* all.                                                                    *)
(*                                                                         *)
(* First the stack of functions and the heads of events in a sequence of   *)
(* lexemes, as facts about constants; then the inductive invariants,       *)
(* action by action.                                                       *)
(***************************************************************************)
EXTENDS ModemSerial, FiniteSetTheorems, SequenceTheorems, TLAPS

Waits == {"wait", "clear", "listen"}

LEMMA Labels ==
  ASSUME NEW t \in DOMAIN Script
  PROVE  "go" \in Label(t) /\ "return" \in Label(t) /\ Code \subseteq Label(t)
BY ScriptAssumption DEF Label

LEMMA Instructions ==
  ASSUME NEW t \in DOMAIN Script, NEW l \in DOMAIN Script[t]
  PROVE  LET i == Script[t][l]
         IN  /\ i.op \in Op /\ i.arg \in Seq(STRING)
             /\ \A r \in Response : i.goto[r] \in Label(t)
             /\ i.op = "call" => i.arg[1] \in DOMAIN Script \ HandlerTasks
             /\ i.op \in {"send", "put"} => i.arg[1] \in DOMAIN Replies
             /\ i.op = "line" => MatchString[t] \in STRING
BY ScriptAssumption

LEMMA HandlerFacts ==
  /\ HandlerTasks \subseteq DOMAIN Script
  /\ \A k \in DOMAIN Handlers : Handlers[k] \in HandlerTasks
  /\ \A h \in HandlerTasks : MatchString[h] \in STRING
  /\ DOMAIN Handlers \subseteq Nat
BY ScriptAssumption DEF HandlerTasks

LEMMA NewFrame ==
  ASSUME NEW t \in DOMAIN Script, NEW k \in Nat
  PROVE  /\ Frame(t, k) \in Frames /\ Frame(t, k).task = t
         /\ Frame(t, k).pc \in Label(t)
<1>1. "SUCCEEDED" \in Code /\ "go" \in Label(t)
  BY Labels DEF Code
<1>2. /\ Frame(t, k).task = t /\ Frame(t, k).place = k /\ Frame(t, k).pc = "go"
      /\ Frame(t, k).nums = <<>> /\ Frame(t, k).got = <<>>
      /\ Frame(t, k).ret = "SUCCEEDED"
  BY DEF Frame
<1>3. Frame(t, k) \in Frames
  BY <1>1, Labels DEF Frame, Frames
<1> QED BY <1>1, <1>2, <1>3

-----------------------------------------------------------------------------
(* The stack *)

\* Handlers run in waits, other functions in calls, and the application calls
\* no handler.
StackIn(s) ==
  /\ s \in Seq(Frames)
  /\ \A i \in DOMAIN s : s[i].pc \in Label(s[i].task)
  /\ \A i \in DOMAIN s \ {1} :
       IF s[i].task \in HandlerTasks THEN IsAt(s[i - 1], Waits) ELSE IsAt(s[i - 1], {"call"})
  /\ s # <<>> => s[1].task \notin HandlerTasks

InHandlers(s) == {i \in DOMAIN s : s[i].task \in HandlerTasks}
Running(s) == Cardinality(InHandlers(s))

LEMMA RunningType ==
  ASSUME NEW s, StackIn(s)
  PROVE  IsFiniteSet(InHandlers(s)) /\ Running(s) \in Nat
<1>1. InHandlers(s) \in SUBSET (1 .. Len(s)) /\ Len(s) \in Nat
  BY DEF StackIn, InHandlers
<1>2. IsFiniteSet(1 .. Len(s))
  BY <1>1, FS_Interval
<1>3. IsFiniteSet(InHandlers(s))
  BY <1>1, <1>2, FS_Subset
<1> QED BY <1>3, FS_CardinalityType DEF Running

LEMMA Push ==
  ASSUME NEW s, StackIn(s), NEW f \in Frames, f.pc \in Label(f.task), s # <<>>,
         IsAt(s[Len(s)], IF f.task \in HandlerTasks THEN Waits ELSE {"call"})
  PROVE  /\ StackIn(Append(s, f))
         /\ Running(Append(s, f)) = Running(s) + (IF f.task \in HandlerTasks THEN 1 ELSE 0)
<1> DEFINE u == Append(s, f)
<1>1. /\ u \in Seq(Frames) /\ s \in Seq(Frames) /\ Len(s) \in Nat \ {0}
      /\ DOMAIN u = 1 .. Len(s) + 1 /\ DOMAIN s = 1 .. Len(s)
      /\ u[Len(s) + 1] = f /\ \A i \in 1 .. Len(s) : u[i] = s[i]
  BY DEF StackIn
<1>2. StackIn(u)
  <2>1. \A i \in DOMAIN u : u[i].pc \in Label(u[i].task)
    BY <1>1 DEF StackIn
  <2>2. ASSUME NEW i \in DOMAIN u \ {1}
        PROVE  IF u[i].task \in HandlerTasks THEN IsAt(u[i - 1], Waits)
                                             ELSE IsAt(u[i - 1], {"call"})
    <3>1. CASE i = Len(s) + 1
      <4>1. i - 1 = Len(s) /\ Len(s) \in 1 .. Len(s)
        BY <1>1, <3>1
      <4>2. u[i] = f /\ u[i - 1] = s[Len(s)]
        BY <1>1, <3>1, <4>1
      <4> QED BY <4>2
    <3>2. CASE i # Len(s) + 1
      <4>1. i \in DOMAIN s \ {1} /\ u[i] = s[i] /\ u[i - 1] = s[i - 1]
        BY <1>1, <3>2
      <4> QED BY <4>1 DEF StackIn
    <3> QED BY <3>1, <3>2
  <2>3. u[1].task \notin HandlerTasks
    BY <1>1 DEF StackIn
  <2> HIDE DEF u
  <2> QED BY <1>1, <2>1, <2>2, <2>3 DEF StackIn
<1>3. InHandlers(u) = IF f.task \in HandlerTasks THEN InHandlers(s) \cup {Len(s) + 1}
                                                 ELSE InHandlers(s)
  BY <1>1 DEF InHandlers
<1>4. Len(s) + 1 \notin InHandlers(s)
  BY <1>1 DEF InHandlers
<1>5. IsFiniteSet(InHandlers(s)) /\ Running(s) \in Nat
  BY RunningType
<1> HIDE DEF u
<1>6. Running(u) = Running(s) + (IF f.task \in HandlerTasks THEN 1 ELSE 0)
  <2>1. CASE f.task \in HandlerTasks
    BY <1>3, <1>4, <1>5, <2>1, FS_AddElement DEF Running
  <2>2. CASE f.task \notin HandlerTasks
    BY <1>3, <1>5, <2>2 DEF Running
  <2> QED BY <2>1, <2>2
<1> QED BY <1>2, <1>6 DEF u

LEMMA Pop ==
  ASSUME NEW s, StackIn(s), s # <<>>
  PROVE  LET u == SubSeq(s, 1, Len(s) - 1)
         IN  /\ StackIn(u) /\ Len(u) = Len(s) - 1
             /\ \A i \in 1 .. Len(s) - 1 : u[i] = s[i]
             /\ Running(s) = Running(u) + (IF s[Len(s)].task \in HandlerTasks THEN 1 ELSE 0)
<1> DEFINE u == SubSeq(s, 1, Len(s) - 1)
<1>0. s \in Seq(Frames) /\ Len(s) \in Nat \ {0} /\ DOMAIN s = 1 .. Len(s)
  BY DEF StackIn
<1>1. /\ u \in Seq(Frames) /\ Len(u) = Len(s) - 1
      /\ DOMAIN u = 1 .. Len(s) - 1
      /\ \A i \in 1 .. Len(s) - 1 : u[i] = s[i]
  BY <1>0
<1>2. StackIn(u)
  <2>1. \A i \in DOMAIN u : u[i].pc \in Label(u[i].task)
    BY <1>0, <1>1 DEF StackIn
  <2>2. ASSUME NEW i \in DOMAIN u \ {1}
        PROVE  IF u[i].task \in HandlerTasks THEN IsAt(u[i - 1], Waits)
                                             ELSE IsAt(u[i - 1], {"call"})
    <3>1. i \in DOMAIN s \ {1} /\ u[i] = s[i] /\ u[i - 1] = s[i - 1]
      BY <1>0, <1>1
    <3> QED BY <3>1 DEF StackIn
  <2>3. u # <<>> => u[1].task \notin HandlerTasks
    BY <1>0, <1>1 DEF StackIn
  <2> HIDE DEF u
  <2> QED BY <1>1, <2>1, <2>2, <2>3 DEF StackIn
<1>3. InHandlers(s) = IF s[Len(s)].task \in HandlerTasks THEN InHandlers(u) \cup {Len(s)}
                                                         ELSE InHandlers(u)
  BY <1>0, <1>1 DEF InHandlers
<1>4. Len(s) \notin InHandlers(u)
  BY <1>0, <1>1 DEF InHandlers
<1>5. IsFiniteSet(InHandlers(u)) /\ Running(u) \in Nat
  BY <1>2, RunningType
<1> HIDE DEF u
<1>6. Running(s) = Running(u) + (IF s[Len(s)].task \in HandlerTasks THEN 1 ELSE 0)
  <2>1. CASE s[Len(s)].task \in HandlerTasks
    BY <1>3, <1>4, <1>5, <2>1, FS_AddElement DEF Running
  <2>2. CASE s[Len(s)].task \notin HandlerTasks
    BY <1>3, <1>5, <2>2 DEF Running
  <2> QED BY <2>1, <2>2
<1> QED BY <1>1, <1>2, <1>6 DEF u

LEMMA SetTop ==
  ASSUME NEW s, StackIn(s), s # <<>>, NEW f \in Frames, f.pc \in Label(f.task),
         f.task = s[Len(s)].task
  PROVE  /\ StackIn([s EXCEPT ![Len(s)] = f])
         /\ Running([s EXCEPT ![Len(s)] = f]) = Running(s)
<1> DEFINE u == [s EXCEPT ![Len(s)] = f]
<1>1. /\ u \in Seq(Frames) /\ s \in Seq(Frames) /\ Len(s) \in Nat \ {0}
      /\ DOMAIN u = 1 .. Len(s) /\ DOMAIN s = 1 .. Len(s)
      /\ u[Len(s)] = f /\ \A i \in 1 .. Len(s) - 1 : u[i] = s[i]
  BY DEF StackIn
<1>2. \A i \in 1 .. Len(s) : u[i].task = s[i].task
  BY <1>1
<1>3. InHandlers(u) = InHandlers(s)
  BY <1>1, <1>2 DEF InHandlers
<1>4. \A i \in DOMAIN u : u[i].pc \in Label(u[i].task)
  BY <1>1 DEF StackIn
<1>5. ASSUME NEW i \in DOMAIN u \ {1}
      PROVE  IF u[i].task \in HandlerTasks THEN IsAt(u[i - 1], Waits)
                                           ELSE IsAt(u[i - 1], {"call"})
  <2>1. i \in DOMAIN s \ {1} /\ u[i].task = s[i].task /\ u[i - 1] = s[i - 1]
    BY <1>1, <1>2
  <2> QED BY <2>1 DEF StackIn
<1>6. u[1].task \notin HandlerTasks
  <2>1. 1 \in 1 .. Len(s)
    BY <1>1
  <2>2. s[1].task \notin HandlerTasks
    BY DEF StackIn
  <2> QED BY <1>2, <2>1, <2>2
<1> HIDE DEF u
<1>7. StackIn(u)
  BY <1>1, <1>4, <1>5, <1>6 DEF StackIn
<1> QED BY <1>3, <1>7 DEF u, Running

-----------------------------------------------------------------------------
(* The heads of events in a sequence of lexemes *)

HeadsAt(s) == {i \in DOMAIN s : s[i].s \in EventHeads}

LEMMA HeadsType ==
  ASSUME NEW S, NEW s \in Seq(S)
  PROVE  IsFiniteSet(HeadsAt(s)) /\ Heads(s) \in Nat
<1>1. HeadsAt(s) \in SUBSET (1 .. Len(s)) /\ Len(s) \in Nat
  BY DEF HeadsAt
<1>2. IsFiniteSet(1 .. Len(s))
  BY <1>1, FS_Interval
<1>3. IsFiniteSet(HeadsAt(s))
  BY <1>1, <1>2, FS_Subset
<1>4. Cardinality(HeadsAt(s)) \in Nat
  BY <1>3, FS_CardinalityType
<1> QED BY <1>3, <1>4 DEF Heads, HeadsAt

LEMMA NoHeads ==
  ASSUME NEW s, Lacks(s, EventHeads)
  PROVE  Heads(s) = 0
<1>1. {i \in DOMAIN s : s[i].s \in EventHeads} = {}
  BY DEF Lacks
<1> QED BY <1>1, FS_EmptySet DEF Heads

LEMMA OneHead ==
  ASSUME NEW S, NEW s \in Seq(S), NEW j \in DOMAIN s, s[j].s \in EventHeads,
         \A i \in DOMAIN s : s[i].s \in EventHeads => i = j
  PROVE  Heads(s) = 1
<1>1. {i \in DOMAIN s : s[i].s \in EventHeads} = {j}
  OBVIOUS
<1> QED BY <1>1, FS_Singleton DEF Heads

\* Only the strings count.
LEMMA SameHeads ==
  ASSUME NEW s, NEW t, DOMAIN s = DOMAIN t, \A i \in DOMAIN s : s[i].s = t[i].s
  PROVE  Heads(s) = Heads(t)
<1>1. {i \in DOMAIN s : s[i].s \in EventHeads} = {i \in DOMAIN t : t[i].s \in EventHeads}
  OBVIOUS
<1> QED BY <1>1 DEF Heads

LEMMA HeadsConcat ==
  ASSUME NEW S, NEW s \in Seq(S), NEW t \in Seq(S)
  PROVE  Heads(s \o t) = Heads(s) + Heads(t)
<1> DEFINE behind == {Len(s) + i : i \in HeadsAt(t)}
           f == [i \in HeadsAt(t) |-> Len(s) + i]
<1>1. /\ Len(s) \in Nat /\ Len(t) \in Nat /\ DOMAIN s = 1 .. Len(s) /\ DOMAIN t = 1 .. Len(t)
      /\ DOMAIN (s \o t) = 1 .. Len(s) + Len(t)
      /\ \A i \in 1 .. Len(s) + Len(t) :
           (s \o t)[i] = IF i <= Len(s) THEN s[i] ELSE t[i - Len(s)]
  OBVIOUS
<1>2. HeadsAt(t) \subseteq Nat /\ HeadsAt(s) \subseteq 1 .. Len(s)
  BY <1>1 DEF HeadsAt
<1>3. f \in Bijection(HeadsAt(t), behind)
  <2>1. \A i, j \in HeadsAt(t) : f[i] = f[j] => i = j
    BY <1>1, <1>2
  <2>2. f \in [HeadsAt(t) -> behind] /\ \A k \in behind : \E i \in HeadsAt(t) : f[i] = k
    OBVIOUS
  <2> QED BY <2>1, <2>2 DEF Bijection, Injection, Surjection, IsInjective
<1>4. IsFiniteSet(behind) /\ Cardinality(behind) = Cardinality(HeadsAt(t))
  <2>1. ExistsBijection(HeadsAt(t), behind)
    BY <1>3 DEF ExistsBijection
  <2> QED BY <2>1, HeadsType, FS_Bijection
<1>5. HeadsAt(s \o t) = HeadsAt(s) \cup behind
  <2>1. ASSUME NEW i \in HeadsAt(s \o t) PROVE i \in HeadsAt(s) \cup behind
    <3>1. CASE i <= Len(s)
      BY <1>1, <2>1, <3>1 DEF HeadsAt
    <3>2. CASE i > Len(s)
      <4>1. i - Len(s) \in HeadsAt(t) /\ i = Len(s) + (i - Len(s))
        BY <1>1, <2>1, <3>2 DEF HeadsAt
      <4> QED BY <4>1
    <3> QED BY <1>1, <2>1, <3>1, <3>2 DEF HeadsAt
  <2>2. HeadsAt(s) \subseteq HeadsAt(s \o t)
    BY <1>1 DEF HeadsAt
  <2>3. ASSUME NEW i \in HeadsAt(t) PROVE Len(s) + i \in HeadsAt(s \o t)
    <3>1. /\ Len(s) + i \in 1 .. Len(s) + Len(t) /\ ~(Len(s) + i <= Len(s))
          /\ Len(s) + i - Len(s) = i /\ t[i].s \in EventHeads
      BY <1>1 DEF HeadsAt
    <3>2. (s \o t)[Len(s) + i] = t[i]
      BY <1>1, <1>2, <3>1
    <3> QED BY <1>1, <3>1, <3>2 DEF HeadsAt
  <2> QED BY <2>1, <2>2, <2>3
<1>6. HeadsAt(s) \cap behind = {}
  BY <1>1, <1>2 DEF HeadsAt
<1> HIDE DEF behind
<1>7. Cardinality(HeadsAt(s) \cup behind)
        = Cardinality(HeadsAt(s)) + Cardinality(behind) - Cardinality(HeadsAt(s) \cap behind)
  BY <1>4, HeadsType, FS_Union
<1>8. /\ Heads(s) = Cardinality(HeadsAt(s)) /\ Heads(t) = Cardinality(HeadsAt(t))
      /\ Heads(s \o t) = Cardinality(HeadsAt(s \o t))
  BY DEF Heads, HeadsAt
<1>9. Cardinality({}) = 0 /\ Heads(s) \in Nat /\ Heads(t) \in Nat
  BY HeadsType, FS_EmptySet
<1>10. Cardinality(HeadsAt(s) \cap behind) = 0
  BY <1>6, <1>9
<1>11. Cardinality(HeadsAt(s) \cup behind) = Heads(s) + Heads(t)
  BY <1>4, <1>7, <1>8, <1>9, <1>10
<1> QED BY <1>5, <1>8, <1>11

LEMMA HeadsSplit ==
  ASSUME NEW S, NEW s \in Seq(S), NEW j \in 0 .. Len(s)
  PROVE  /\ From(s, j + 1) \in Seq(S) /\ Len(From(s, j + 1)) = Len(s) - j
         /\ SubSeq(s, 1, j) \in Seq(S) /\ Len(SubSeq(s, 1, j)) = j
         /\ Heads(s) = Heads(SubSeq(s, 1, j)) + Heads(From(s, j + 1))
<1> DEFINE a == SubSeq(s, 1, j)
           b == SubSeq(s, j + 1, Len(s))
<1>1. Len(s) \in Nat /\ j \in Nat /\ 1 .. j \subseteq 1 .. Len(s)
  OBVIOUS
<1>2. a \in Seq(S) /\ Len(a) = j
  BY <1>1
<1>3. b \in Seq(S) /\ Len(b) = Len(s) - j
  BY <1>1
<1>4. a \o b = SubSeq(s, 1, Len(s))
  <2>1. /\ 1 \in 1 .. Len(s) + 1 /\ j \in 1 - 1 .. Len(s) /\ Len(s) \in j .. Len(s)
    BY <1>1
  <2> QED BY <2>1, ConcatAdjacentSubSeq
<1>5. SubSeq(s, 1, Len(s)) = s
  BY SubSeqFull
<1> HIDE DEF a, b
<1>6. Heads(s) = Heads(a) + Heads(b)
  BY <1>2, <1>3, <1>4, <1>5, HeadsConcat
<1> QED BY <1>2, <1>3, <1>6 DEF a, b, From

-----------------------------------------------------------------------------
(* Lexemes sent and read *)

LexemeUpTo(m) == [s : STRING, n : Nat, of : 0 .. m]

LEMMA MoreSent ==
  ASSUME NEW m \in Nat
  PROVE  /\ Seq(LexemeUpTo(m)) \subseteq Seq(LexemeUpTo(m + 1))
         /\ Seq(Seq(LexemeUpTo(m))) \subseteq Seq(Seq(LexemeUpTo(m + 1)))
<1>1. LexemeUpTo(m) \subseteq LexemeUpTo(m + 1)
  BY DEF LexemeUpTo
<1> QED BY <1>1, SeqMonotonic

LEMMA Tagged ==
  ASSUME NEW b \in Seq(Block), NEW m \in Nat, NEW c \in 0 .. m
  PROVE  /\ TagAll(b, c) \in Seq(Seq(LexemeUpTo(m)))
         /\ Len(TagAll(b, c)) = Len(b)
         /\ \A i \in 1 .. Len(b) : Heads(TagAll(b, c)[i]) = Heads(b[i])
<1>1. ASSUME NEW i \in 1 .. Len(b)
      PROVE  /\ Tag(b[i], c) \in Seq(LexemeUpTo(m))
             /\ Heads(Tag(b[i], c)) = Heads(b[i])
  <2>1. b[i] \in Seq([s : STRING, n : Nat])
    BY DEF Block
  <2>2. DOMAIN Tag(b[i], c) = DOMAIN b[i]
    BY DEF Tag
  <2>3. ASSUME NEW k \in DOMAIN b[i] PROVE Tag(b[i], c)[k] \in LexemeUpTo(m)
    <3>1. b[i][k].s \in STRING /\ b[i][k].n \in Nat
      <4>1. k \in 1 .. Len(b[i])
        BY <2>1
      <4>2. b[i][k] \in [s : STRING, n : Nat]
        BY <2>1, <4>1, ElementOfSeq
      <4> QED BY <4>2
    <3>2. Tag(b[i], c)[k] = [s |-> b[i][k].s, n |-> b[i][k].n, of |-> c]
      BY DEF Tag
    <3> QED BY <3>1, <3>2 DEF LexemeUpTo
  <2>4. \A k \in DOMAIN b[i] : Tag(b[i], c)[k].s = b[i][k].s
    BY DEF Tag
  <2>5. Tag(b[i], c) \in Seq(LexemeUpTo(m))
    <3>1. Len(b[i]) \in Nat /\ DOMAIN b[i] = 1 .. Len(b[i])
      BY <2>1
    <3>2. Tag(b[i], c) \in [1 .. Len(b[i]) -> LexemeUpTo(m)]
      <4>1. Tag(b[i], c) = [k \in 1 .. Len(b[i]) |-> Tag(b[i], c)[k]]
        BY <3>1 DEF Tag
      <4> HIDE DEF Tag
      <4> QED BY <2>3, <3>1, <4>1
    <3> QED BY <3>1, <3>2, SeqDef
  <2>6. Heads(Tag(b[i], c)) = Heads(b[i])
    BY <2>2, <2>4, SameHeads
  <2> QED BY <2>5, <2>6
<1>2. /\ Len(b) \in Nat /\ DOMAIN b = 1 .. Len(b)
      /\ TagAll(b, c) = [i \in 1 .. Len(b) |-> Tag(b[i], c)]
  BY DEF TagAll
<1>3. TagAll(b, c) \in Seq(Seq(LexemeUpTo(m))) /\ Len(TagAll(b, c)) = Len(b)
  BY <1>1, <1>2, IsASeq
<1> QED BY <1>1, <1>2, <1>3

\* A reader that takes the first j lexemes of the UART takes the heads in them.
LEMMA ReadUart ==
  ASSUME NEW S, uart \in Seq(S), lost \in Nat, NEW j \in 0 .. Len(uart), ReadAway(j)
  PROVE  /\ uart' \in Seq(S) /\ lost' \in Nat
         /\ Heads(uart') + lost' = Heads(uart) + lost
<1> DEFINE a == SubSeq(uart, 1, j)
           b == From(uart, j + 1)
<1>1. uart' = b /\ lost' = lost + Heads(a)
  BY DEF ReadAway
<1>2. /\ b \in Seq(S) /\ a \in Seq(S)
      /\ Heads(uart) = Heads(a) + Heads(b)
  BY HeadsSplit
<1> HIDE DEF a, b
<1>3. Heads(a) \in Nat /\ Heads(b) \in Nat
  BY <1>2, HeadsType
<1> QED BY <1>1, <1>2, <1>3

LEMMA ReadStream ==
  ASSUME NEW S, uart \in Seq(S), ring \in Seq(S), lost \in Nat,
         NEW j \in 0 .. Len(Stream), Consume(j)
  PROVE  /\ uart' \in Seq(S) /\ ring' \in Seq(S) /\ lost' \in Nat
         /\ Heads(uart') + lost' = Heads(uart) + lost
<1> DEFINE k == IF j <= Len(ring) THEN 0 ELSE j - Len(ring)
<1>1. Len(Stream) = Len(ring) + Len(uart) /\ Len(ring) \in Nat /\ Len(uart) \in Nat
  BY DEF Stream
<1>2. k \in 0 .. Len(uart) /\ ReadAway(k)
  BY <1>1 DEF Consume
<1>3. ring' \in Seq(S)
  <2>1. ring' = SubSeq(ring, j + 1, Len(ring))
    BY DEF Consume, From
  <2>2. CASE j <= Len(ring)
    BY <1>1, <2>1, <2>2
  <2>3. CASE j > Len(ring)
    <3>1. SubSeq(ring, j + 1, Len(ring)) = <<>>
      BY <1>1, <2>3, SubSeqEmpty
    <3> QED BY <2>1, <3>1
  <2> QED BY <1>1, <2>2, <2>3
<1> HIDE DEF k
<1> QED BY <1>2, <1>3, ReadUart

-----------------------------------------------------------------------------
(* The inductive invariant: types, and where functions run *)

IInv == TypeOK /\ StackIn(stack)

LEMMA Typed ==
  ASSUME IInv
  PROVE  /\ uart \in Seq(LexemeUpTo(sent)) /\ ring \in Seq(LexemeUpTo(sent))
         /\ owed \in Seq(Seq(LexemeUpTo(sent))) /\ pending \in Seq(Seq(LexemeUpTo(sent)))
         /\ sent \in Nat /\ lost \in Nat /\ handled \in Nat
         /\ done \in BOOLEAN /\ prompted \in BOOLEAN
         /\ calls \in 0 .. MaxCalls /\ events \in 0 .. MaxEvents
         /\ early \in 0 .. MaxEarly /\ cuts \in 0 .. MaxCuts
         /\ StackIn(stack)
BY DEF IInv, TypeOK, Lexeme, LexemeUpTo

LEMMA Retyped ==
  ASSUME uart' \in Seq(LexemeUpTo(sent')), ring' \in Seq(LexemeUpTo(sent')),
         owed' \in Seq(Seq(LexemeUpTo(sent'))), pending' \in Seq(Seq(LexemeUpTo(sent'))),
         sent' \in Nat, lost' \in Nat, handled' \in Nat,
         done' \in BOOLEAN, prompted' \in BOOLEAN,
         calls' \in 0 .. MaxCalls, events' \in 0 .. MaxEvents,
         early' \in 0 .. MaxEarly, cuts' \in 0 .. MaxCuts,
         StackIn(stack')
  PROVE  IInv'
<1>1. stack' \in Seq(Frames) /\ \A i \in DOMAIN stack' : stack'[i].pc \in Label(stack'[i].task)
  BY DEF StackIn
<1>2. Lexeme' = LexemeUpTo(sent')
  BY DEF Lexeme, LexemeUpTo
<1>3. TypeOK'
  BY <1>1, <1>2 DEF TypeOK
<1> QED BY <1>3 DEF IInv

LEMMA AtWork ==
  ASSUME IInv, NEW ops, Runs(ops)
  PROVE  /\ stack # <<>> /\ Len(stack) \in Nat \ {0} /\ stack \in Seq(Frames)
         /\ top = stack[Len(stack)] /\ top \in Frames
         /\ top.task \in DOMAIN Script /\ top.pc \in DOMAIN Script[top.task]
         /\ instr = Script[top.task][top.pc]
         /\ instr.op \in ops /\ IsAt(stack[Len(stack)], ops)
<1>1. stack # <<>> /\ stack \in Seq(Frames)
  BY DEF Runs, IInv, StackIn
<1>2. Len(stack) \in Nat \ {0} /\ top \in Frames
  BY <1>1 DEF top
<1>3. top.task \in DOMAIN Script
  BY <1>2 DEF Frames
<1> QED BY <1>1, <1>2, <1>3 DEF Runs, IsAt, top, instr

LEMMA Resumed ==
  ASSUME IInv, NEW ops, Runs(ops), NEW f \in Frames, f.task = top.task,
         NEW r \in Response, Resume(f, r)
  PROVE  StackIn(stack') /\ Running(stack') = Running(stack)
<1>1. /\ stack # <<>> /\ top = stack[Len(stack)]
      /\ top.task \in DOMAIN Script /\ top.pc \in DOMAIN Script[top.task]
      /\ instr = Script[top.task][top.pc]
  BY AtWork
<1> DEFINE g == [f EXCEPT !.pc = instr.goto[r]]
<1>2. instr.goto[r] \in Label(top.task)
  BY <1>1, Instructions
<1>3. g \in Frames /\ g.task = top.task /\ g.pc \in Label(g.task)
  BY <1>1, <1>2 DEF Frames
<1>4. stack' = [stack EXCEPT ![Len(stack)] = g]
  BY DEF Resume
<1> HIDE DEF g
<1> QED BY <1>1, <1>3, <1>4, SetTop DEF IInv

\* What most actions do to the account of events: nothing, or a head that is
\* read away is counted as lost.
Calm == /\ UNCHANGED <<owed, pending, handled, events>>
        /\ Running(stack') = Running(stack)
        /\ Heads(uart') + lost' = Heads(uart) + lost

-----------------------------------------------------------------------------
(* The application and the commands *)

LEMMA CallKeeps == ASSUME IInv, NEW task \in Tasks, Call(task) PROVE IInv' /\ Calm
<1>1. /\ stack = <<>> /\ stack' = <<Frame(task, 0)>> /\ calls' = calls + 1 /\ calls < MaxCalls
      /\ done' = TRUE
      /\ UNCHANGED <<uart, ring, owed, pending, events, sent, prompted, lost, handled, early, cuts>>
  BY DEF Call, wire, modem, command
<1>2. task \in DOMAIN Script \ HandlerTasks
  BY ScriptAssumption
<1>3. Frame(task, 0) \in Frames /\ Frame(task, 0).task = task /\ Frame(task, 0).pc \in Label(task)
  BY <1>2, NewFrame
<1>4. StackIn(stack') /\ Running(stack') = 0 /\ Running(stack) = 0
  <2> DEFINE f == Frame(task, 0)
             u == <<f>>
  <2>1. u \in Seq(Frames) /\ DOMAIN u = {1} /\ u[1] = f
    BY <1>3
  <2>2. StackIn(u)
    <3> HIDE DEF u, f
    <3> QED BY <1>2, <1>3, <2>1 DEF StackIn, f
  <2>3. InHandlers(u) = {} /\ InHandlers(<<>>) = {}
    <3>1. u[1].task \notin HandlerTasks
      BY <1>2, <1>3, <2>1
    <3> HIDE DEF u, f
    <3> QED BY <2>1, <3>1 DEF InHandlers
  <2> HIDE DEF u
  <2>4. Running(u) = 0 /\ Running(<<>>) = 0
    BY <2>3, FS_EmptySet DEF Running
  <2> QED BY <1>1, <2>2, <2>4 DEF u
<1>5. calls' \in 0 .. MaxCalls
  BY <1>1, Typed, BoundsAssumption
<1>6. IInv'
  BY <1>1, <1>4, <1>5, Typed, Retyped
<1> QED BY <1>1, <1>4, <1>6 DEF Calm

LEMMA SendKeeps ==
  ASSUME IInv, SendCommand
  PROVE  /\ IInv'
         /\ \E c \in DOMAIN Replies : \E r \in Replies[c] :
              owed' = owed \o TagAll(r.blocks, sent + 1)
         /\ Running(stack') = Running(stack)
         /\ UNCHANGED <<uart, pending, lost, handled, events>>
<1>1. Runs({"send"}) /\ Resume(top, "OK")
  BY DEF SendCommand
<1>2. /\ sent' = sent + 1
      /\ UNCHANGED <<uart, ring, pending, events, lost, handled, calls, early, cuts>>
  BY DEF SendCommand, wire, spent
<1>3. PICK r \in Replies[instr.arg[1]] :
        /\ owed' = owed \o TagAll(r.blocks, sent + 1)
        /\ prompted' = r.done
        /\ done' = (done /\ r.done)
  BY DEF SendCommand
<1>4. top \in Frames /\ instr.arg[1] \in DOMAIN Replies
  BY <1>1, AtWork, Instructions
<1>5. r.blocks \in Seq(Block) /\ r.done \in BOOLEAN
  BY <1>4, BlocksAssumption
<1>6. StackIn(stack') /\ Running(stack') = Running(stack)
  BY <1>1, <1>4, Resumed DEF Response
<1>7. sent + 1 \in 0 .. sent + 1 /\ sent + 1 \in Nat /\ sent \in Nat
  BY Typed
<1>8. owed' \in Seq(Seq(LexemeUpTo(sent + 1)))
  <2>1. owed \in Seq(Seq(LexemeUpTo(sent + 1)))
    BY <1>7, MoreSent, Typed
  <2>2. TagAll(r.blocks, sent + 1) \in Seq(Seq(LexemeUpTo(sent + 1)))
    BY <1>5, <1>7, Tagged
  <2> QED BY <1>3, <2>1, <2>2
<1>9. /\ uart' \in Seq(LexemeUpTo(sent + 1)) /\ ring' \in Seq(LexemeUpTo(sent + 1))
      /\ pending' \in Seq(Seq(LexemeUpTo(sent + 1)))
  BY <1>2, <1>7, MoreSent, Typed
<1>10. done' \in BOOLEAN /\ prompted' \in BOOLEAN
  BY <1>3, <1>5, Typed
<1>11. IInv'
  BY <1>2, <1>6, <1>7, <1>8, <1>9, <1>10, Typed, Retyped
<1> QED BY <1>2, <1>3, <1>4, <1>6, <1>11

LEMMA WriteKeeps ==
  ASSUME IInv, WriteData
  PROVE  /\ IInv'
         /\ \/ \E c \in DOMAIN Replies : \E r \in Replies[c] :
                 owed' = owed \o TagAll(r.blocks, sent)
            \/ owed' = owed
         /\ Running(stack') = Running(stack)
         /\ UNCHANGED <<uart, pending, lost, handled, events>>
<1>1. Runs({"put"}) /\ Resume(top, "OK")
  BY DEF WriteData
<1>2. UNCHANGED <<uart, ring, pending, events, sent, prompted, lost, handled, calls, early, cuts>>
  BY DEF WriteData, wire, spent, command
<1>3. PICK r \in IF prompted THEN Replies[instr.arg[1]] ELSE {Mute} :
        /\ owed' = owed \o TagAll(r.blocks, sent)
        /\ done' = (done /\ r.done)
  BY DEF WriteData
<1>4. top \in Frames /\ instr.arg[1] \in DOMAIN Replies
  BY <1>1, AtWork, Instructions
<1>5. r.blocks \in Seq(Block) /\ r.done \in BOOLEAN
  <2>1. Mute.blocks = <<>> /\ Mute.done = FALSE
    BY DEF Mute, Refused
  <2>2. CASE prompted
    BY <1>4, <2>2, BlocksAssumption
  <2>3. CASE ~prompted
    <3>1. r = Mute /\ <<>> \in Seq(Block)
      BY <2>3
    <3> QED BY <2>1, <3>1
  <2> QED BY <2>2, <2>3
<1>6. StackIn(stack') /\ Running(stack') = Running(stack)
  BY <1>1, <1>4, Resumed DEF Response
<1>7. sent \in Nat /\ sent \in 0 .. sent
  BY Typed
<1>8. owed' \in Seq(Seq(LexemeUpTo(sent)))
  <2>1. TagAll(r.blocks, sent) \in Seq(Seq(LexemeUpTo(sent)))
    BY <1>5, <1>7, Tagged
  <2> QED BY <1>3, <2>1, Typed
<1>9. done' \in BOOLEAN
  BY <1>3, <1>5, Typed
<1>10. IInv'
  BY <1>2, <1>6, <1>8, <1>9, Typed, Retyped
<1>11. CASE prompted
  BY <1>2, <1>3, <1>4, <1>6, <1>10, <1>11
<1>12. CASE ~prompted
  <2>1. TagAll(r.blocks, sent) = <<>>
    <3>1. r.blocks = <<>>
      BY <1>3, <1>12 DEF Mute, Refused
    <3> QED BY <3>1 DEF TagAll
  <2>2. owed' = owed
    BY <1>3, <2>1, Typed
  <2> QED BY <1>2, <1>6, <1>10, <2>2
<1> QED BY <1>11, <1>12

-----------------------------------------------------------------------------
(* The modem *)

LEMMA AnswerKeeps ==
  ASSUME IInv, SendAnswer
  PROVE  /\ IInv'
         /\ owed # <<>> /\ uart' = uart \o Head(owed) /\ owed' = Tail(owed)
         /\ UNCHANGED <<stack, pending, lost, handled, events>>
<1>1. /\ owed # <<>> /\ uart' = uart \o Head(owed) /\ owed' = Tail(owed)
      /\ UNCHANGED <<ring, stack, pending, events, sent, prompted, done, lost, handled,
                     calls, early, cuts>>
  BY DEF SendAnswer, command, ghost, spent
<1>2. owed' \in Seq(Seq(LexemeUpTo(sent))) /\ uart' \in Seq(LexemeUpTo(sent))
  BY <1>1, Typed
<1> QED BY <1>1, <1>2, Typed, Retyped

LEMMA EventKeeps ==
  ASSUME IInv, NEW e \in DOMAIN Events, Event(e)
  PROVE  /\ IInv'
         /\ pending = <<>> /\ pending' = TagAll(Events[e], 0) /\ events' = events + 1
         /\ UNCHANGED <<uart, stack, owed, lost, handled>>
<1>1. /\ pending = <<>> /\ pending' = TagAll(Events[e], 0)
      /\ events' = events + 1 /\ events < MaxEvents
      /\ UNCHANGED <<uart, ring, stack, owed, sent, prompted, done, lost, handled,
                     calls, early, cuts>>
  BY DEF Event, wire, command, ghost, spent
<1>2. Events[e] \in Seq(Block) /\ 0 \in 0 .. sent /\ sent \in Nat
  BY Typed, BlocksAssumption
<1>3. pending' \in Seq(Seq(LexemeUpTo(sent)))
  BY <1>1, <1>2, Tagged
<1>4. events' \in 0 .. MaxEvents
  BY <1>1, Typed, BoundsAssumption
<1> QED BY <1>1, <1>3, <1>4, Typed, Retyped

LEMMA SendEventKeeps ==
  ASSUME IInv, SendEvent
  PROVE  /\ IInv'
         /\ pending # <<>> /\ uart' = uart \o Head(pending) /\ pending' = Tail(pending)
         /\ UNCHANGED <<stack, owed, lost, handled, events>>
<1>1. /\ pending # <<>> /\ uart' = uart \o Head(pending) /\ pending' = Tail(pending)
      /\ UNCHANGED <<ring, stack, owed, events, sent, prompted, done, lost, handled,
                     calls, early, cuts>>
  BY DEF SendEvent, command, ghost, spent
<1>2. pending' \in Seq(Seq(LexemeUpTo(sent))) /\ uart' \in Seq(LexemeUpTo(sent))
  BY <1>1, Typed
<1> QED BY <1>1, <1>2, Typed, Retyped

-----------------------------------------------------------------------------
(* waitResponse *)

LEMMA WaitStops == EventHeads \subseteq Stops
BY DEF Stops

\* What is skipped up to a response holds no head.
LEMMA RespondKeeps == ASSUME IInv, Respond PROVE IInv' /\ Calm
<1>1. PICK j \in First(uart, Stops) :
        /\ uart[j].s \notin EventHeads
        /\ \E r \in Response : Responds(uart[j].s, r) /\ Resume(top, r)
        /\ uart' = From(uart, j + 1)
  BY DEF Respond
<1>2. /\ ring' = <<>>
      /\ UNCHANGED <<owed, pending, events, sent, prompted, done, lost, handled,
                     calls, early, cuts>>
  BY DEF Respond, modem, command, spent
<1>3. Runs(Waits)
  BY DEF Respond, Waiting, Waits
<1>4. StackIn(stack') /\ Running(stack') = Running(stack)
  BY <1>1, <1>3, AtWork, Resumed
<1>5. j \in 1 .. Len(uart) /\ uart \in Seq(LexemeUpTo(sent))
  BY Typed DEF First
<1> DEFINE a == SubSeq(uart, 1, j)
           b == From(uart, j + 1)
<1>6. /\ a \in Seq(LexemeUpTo(sent)) /\ b \in Seq(LexemeUpTo(sent)) /\ Len(a) = j
      /\ Heads(uart) = Heads(a) + Heads(b)
  BY <1>5, HeadsSplit
<1>7. Heads(a) = 0
  <2>1. \A i \in 1 .. j : a[i] = uart[i]
    BY <1>5
  <2>2. \A i \in 1 .. j : uart[i].s \notin EventHeads
    BY <1>1, <1>5, WaitStops DEF First
  <2>3. DOMAIN a = 1 .. j
    BY <1>5, <1>6
  <2> HIDE DEF a
  <2>4. Lacks(a, EventHeads)
    BY <2>1, <2>2, <2>3 DEF Lacks
  <2> QED BY <2>4, NoHeads
<1> HIDE DEF a, b
<1>8. uart' \in Seq(LexemeUpTo(sent)) /\ Heads(uart') = Heads(uart)
  <2>1. Heads(b) \in Nat
    BY <1>6, HeadsType
  <2> QED BY <1>1, <1>6, <1>7, <2>1 DEF b
<1>9. <<>> \in Seq(LexemeUpTo(sent))
  OBVIOUS
<1>10. IInv'
  BY <1>2, <1>4, <1>8, <1>9, Typed, Retyped
<1> QED BY <1>2, <1>4, <1>8, <1>10 DEF Calm

\* A handler starts in a wait and takes one head from the UART.
LEMMA DispatchKeeps ==
  ASSUME IInv, Dispatch
  PROVE  /\ IInv'
         /\ Running(stack') = Running(stack) + 1
         /\ Heads(uart) = Heads(uart') + 1
         /\ UNCHANGED <<owed, pending, lost, handled, events>>
<1>1. PICK j \in First(uart, Stops) :
        /\ uart[j].s \in EventHeads
        /\ \E k \in NextFor(uart[j].s, 0) : stack' = Append(stack, Frame(Handlers[k], k))
        /\ uart' = From(uart, j + 1)
        /\ ring' = IF Port = "ESP" THEN ring \o SubSeq(uart, 1, j) ELSE <<>>
  BY DEF Dispatch
<1>2. UNCHANGED <<owed, pending, events, sent, prompted, done, lost, handled,
                  calls, early, cuts>>
  BY DEF Dispatch, modem, command, ghost, spent
<1>3. Runs(Waits)
  BY DEF Dispatch, Waiting, Waits
<1>4. StackIn(stack') /\ Running(stack') = Running(stack) + 1
  <2>1. PICK k \in NextFor(uart[j].s, 0) : stack' = Append(stack, Frame(Handlers[k], k))
    BY <1>1
  <2>2. k \in DOMAIN Handlers
    BY DEF NextFor
  <2>3. Handlers[k] \in HandlerTasks /\ Handlers[k] \in DOMAIN Script /\ k \in Nat
    BY <2>2, HandlerFacts
  <2> DEFINE f == Frame(Handlers[k], k)
  <2>4. f \in Frames /\ f.task = Handlers[k] /\ f.pc \in Label(f.task)
    BY <2>3, NewFrame
  <2>5. stack # <<>> /\ IsAt(stack[Len(stack)], Waits) /\ StackIn(stack)
    BY <1>3, AtWork, Typed
  <2> HIDE DEF f
  <2> QED BY <2>1, <2>3, <2>4, <2>5, Push DEF f
<1>5. j \in 1 .. Len(uart) /\ uart \in Seq(LexemeUpTo(sent)) /\ ring \in Seq(LexemeUpTo(sent))
  BY Typed DEF First
<1> DEFINE a == SubSeq(uart, 1, j)
           b == From(uart, j + 1)
<1>6. /\ a \in Seq(LexemeUpTo(sent)) /\ b \in Seq(LexemeUpTo(sent)) /\ Len(a) = j
      /\ Heads(uart) = Heads(a) + Heads(b)
  BY <1>5, HeadsSplit
<1>7. Heads(a) = 1
  <2>1. \A i \in 1 .. j : a[i] = uart[i]
    BY <1>5
  <2>2. \A i \in 1 .. j : uart[i].s \in EventHeads => i = j
    BY <1>1, <1>5, WaitStops DEF First
  <2>3. DOMAIN a = 1 .. j
    BY <1>5, <1>6
  <2> HIDE DEF a
  <2>4. j \in 1 .. j
    BY <1>5
  <2>5. j \in DOMAIN a /\ a[j].s \in EventHeads
    BY <1>1, <2>1, <2>3, <2>4
  <2>6. \A i \in DOMAIN a : a[i].s \in EventHeads => i = j
    BY <2>1, <2>2, <2>3
  <2> QED BY <1>6, <2>5, <2>6, OneHead
<1> HIDE DEF a, b
<1>8. uart' \in Seq(LexemeUpTo(sent)) /\ Heads(uart) = Heads(uart') + 1
  <2>1. Heads(b) \in Nat
    BY <1>6, HeadsType
  <2> QED BY <1>1, <1>6, <1>7, <2>1 DEF b
<1>9. ring' \in Seq(LexemeUpTo(sent))
  BY <1>1, <1>5, <1>6 DEF a
<1>10. IInv'
  BY <1>2, <1>4, <1>8, <1>9, Typed, Retyped
<1> QED BY <1>2, <1>4, <1>8, <1>10

-----------------------------------------------------------------------------
(* The other reads *)

\* A read leaves these as they are.
ReadsOnly == UNCHANGED <<owed, pending, events, sent, prompted, done, handled, calls, cuts>>

LEMMA ReadKeeps ==
  ASSUME IInv, ReadsOnly, early' \in 0 .. MaxEarly,
         NEW ops, Runs(ops), NEW f \in Frames, f.task = top.task,
         NEW r \in Response, Resume(f, r),
         uart' \in Seq(LexemeUpTo(sent)), ring' \in Seq(LexemeUpTo(sent)), lost' \in Nat,
         Heads(uart') + lost' = Heads(uart) + lost
  PROVE  IInv' /\ Calm
<1>1. StackIn(stack') /\ Running(stack') = Running(stack)
  BY Resumed
<1>2. IInv'
  BY <1>1, Typed, Retyped DEF ReadsOnly
<1> QED BY <1>1, <1>2 DEF Calm, ReadsOnly

LEMMA FindKeeps == ASSUME IInv, findChar PROVE IInv' /\ Calm
<1>1. /\ Runs({"find"}) /\ Resume(top, "OK") /\ ReadsOnly /\ early' = early
      /\ \E j \in First(Stream, Having(instr.arg[1])) : Consume(j)
  BY DEF findChar, ReadsOnly, modem, command, spent
<1>2. PICK j \in DOMAIN Stream : Consume(j)
  BY <1>1 DEF First
<1>3. j \in 0 .. Len(Stream) /\ "OK" \in Response
  BY Typed DEF Stream, Response
<1>4. /\ uart' \in Seq(LexemeUpTo(sent)) /\ ring' \in Seq(LexemeUpTo(sent)) /\ lost' \in Nat
      /\ Heads(uart') + lost' = Heads(uart) + lost
  BY <1>2, <1>3, Typed, ReadStream
<1> QED BY <1>1, <1>3, <1>4, Typed, AtWork, ReadKeeps

LEMMA IntKeeps == ASSUME IInv, parseInt PROVE IInv' /\ Calm
<1>1. Runs({"int"}) /\ ReadsOnly /\ early' = early
  BY DEF parseInt, ReadsOnly, modem, command, spent
<1> DEFINE next(j) == IF Port = "ESP" THEN SubSeq(uart, j + 1, j + 1) ELSE <<>>
           f(j) == [top EXCEPT !.nums = Append(@, uart[j].n), !.ret = Retcode(uart[j].n)]
<1>2. PICK j \in First(uart, {"int"}) :
        /\ j + 1 <= Len(uart) /\ ring' = next(j) /\ ReadAway(j + Len(next(j)))
        /\ Resume(f(j), "OK")
  BY DEF parseInt
<1>3. j \in 1 .. Len(uart) /\ uart \in Seq(LexemeUpTo(sent)) /\ Len(uart) \in Nat
  BY Typed DEF First
<1>4. next(j) \in Seq(LexemeUpTo(sent)) /\ Len(next(j)) \in {0, 1}
  <2> DEFINE t == SubSeq(uart, j + 1, j + 1)
  <2>0. j + 1 <= Len(uart)
    BY <1>2
  <2>1. j + 1 \in 1 .. Len(uart) /\ j + 1 \in Int
    BY <1>3, <2>0
  <2>2. t \in Seq(LexemeUpTo(sent)) /\ Len(t) = 1
    <3>1. \A i \in j + 1 .. j + 1 : uart[i] \in LexemeUpTo(sent)
      BY <1>3, <2>1, ElementOfSeq
    <3> QED BY <2>1, <3>1, SubSeqProperties
  <2> QED BY <2>2
<1>5. uart[j].n \in Nat
  <2>1. uart[j] \in LexemeUpTo(sent)
    BY <1>3, ElementOfSeq
  <2> QED BY <2>1 DEF LexemeUpTo
<1>6. f(j) \in Frames /\ f(j).task = top.task
  <2>1. top \in Frames
    BY <1>1, AtWork
  <2>2. Retcode(uart[j].n) \in Code
    BY DEF Retcode, Code
  <2>3. Append(top.nums, uart[j].n) \in Seq(Nat)
    BY <1>5, <2>1 DEF Frames
  <2> QED BY <2>1, <2>2, <2>3 DEF Frames
<1>7. j + Len(next(j)) \in 0 .. Len(uart)
  <2>1. j + 1 <= Len(uart)
    BY <1>2
  <2>2. \A x \in {0, 1} : j + x \in 0 .. Len(uart)
    BY <1>3, <2>1
  <2> HIDE DEF next
  <2> QED BY <1>4, <2>2
<1> HIDE DEF next, f
<1>8. /\ uart' \in Seq(LexemeUpTo(sent)) /\ lost' \in Nat
      /\ Heads(uart') + lost' = Heads(uart) + lost
  BY <1>2, <1>3, <1>7, Typed, ReadUart
<1>9. "OK" \in Response
  BY DEF Response
<1> QED BY <1>1, <1>2, <1>4, <1>6, <1>8, <1>9, Typed, ReadKeeps

LEMMA TextsType ==
  ASSUME NEW m, NEW s \in Seq(LexemeUpTo(m))
  PROVE  Texts(s) \in Seq(STRING)
<1>1. Len(s) \in Nat /\ DOMAIN s = 1 .. Len(s)
  OBVIOUS
<1>2. ASSUME NEW i \in DOMAIN s PROVE s[i].s \in STRING
  <2>1. s[i] \in LexemeUpTo(m)
    BY <1>1, ElementOfSeq
  <2> QED BY <2>1 DEF LexemeUpTo
<1>3. Texts(s) \in [1 .. Len(s) -> STRING]
  BY <1>1, <1>2 DEF Texts
<1> QED BY <1>1, <1>3, SeqDef

\* Text that a function has got is added to what it has.
LEMMA GotKeeps ==
  ASSUME IInv, NEW ops, Runs(ops), NEW t \in Seq(STRING)
  PROVE  LET f == [top EXCEPT !.got = @ \o t]
         IN  f \in Frames /\ f.task = top.task
<1>1. top \in Frames
  BY AtWork
<1>2. top.got \o t \in Seq(STRING)
  BY <1>1 DEF Frames
<1> QED BY <1>1, <1>2 DEF Frames

LEMMA BytesKeeps == ASSUME IInv, readBytes PROVE IInv' /\ Calm
<1> DEFINE n == Amount
           t == Texts(SubSeq(Stream, 1, n))
           f == [top EXCEPT !.got = @ \o t]
<1>1. /\ Runs({"bytes"}) /\ ReadsOnly /\ early' = early
      /\ n \in 0 .. Len(Stream) /\ Consume(n) /\ Resume(f, "OK")
  BY DEF readBytes, ReadsOnly, modem, command, spent
<1>2. Stream \in Seq(LexemeUpTo(sent)) /\ Len(Stream) \in Nat
  BY Typed DEF Stream
<1>3. SubSeq(Stream, 1, n) \in Seq(LexemeUpTo(sent))
  BY <1>1, <1>2, HeadsSplit
<1>4. t \in Seq(STRING)
  BY <1>3, TextsType
<1> HIDE DEF n, t
<1>5. f \in Frames /\ f.task = top.task
  BY <1>1, <1>4, GotKeeps
<1>6. /\ uart' \in Seq(LexemeUpTo(sent)) /\ ring' \in Seq(LexemeUpTo(sent)) /\ lost' \in Nat
      /\ Heads(uart') + lost' = Heads(uart) + lost
  BY <1>1, Typed, ReadStream
<1>7. "OK" \in Response
  BY DEF Response
<1> HIDE DEF f
<1> QED BY <1>1, <1>5, <1>6, <1>7, Typed, ReadKeeps

LEMMA LineKeeps == ASSUME IInv, readLine PROVE IInv' /\ Calm
<1> DEFINE head == IF instr.op = "line" THEN <<MatchString[top.task]>> ELSE <<>>
           upto(j) == IF Stream[j].s = "NL" THEN j - 1 ELSE j
           text(j) == Texts(SubSeq(Stream, 1, upto(j)))
           f(j) == [top EXCEPT !.got = @ \o head \o text(j)]
           r(j) == IF text(j) = <<>> THEN "TIMEOUT" ELSE "OK"
<1>1. Runs({"until", "line"}) /\ ReadsOnly /\ early' = early
  BY DEF readLine, ReadsOnly, modem, command, spent
<1>2. PICK j \in First(Stream, Having("NL")) : Consume(j) /\ Resume(f(j), r(j))
  BY DEF readLine
<1>3. Stream \in Seq(LexemeUpTo(sent)) /\ Len(Stream) \in Nat
  BY Typed DEF Stream
<1>4. j \in 1 .. Len(Stream)
  BY <1>3 DEF First
<1>5. SubSeq(Stream, 1, upto(j)) \in Seq(LexemeUpTo(sent))
  <2>1. upto(j) \in 0 .. Len(Stream)
    BY <1>3, <1>4
  <2> QED BY <1>3, <2>1, HeadsSplit
<1>6. text(j) \in Seq(STRING)
  BY <1>5, TextsType
<1>7. head \in Seq(STRING)
  <2>1. instr.op = "line" => MatchString[top.task] \in STRING
    <3>1. /\ top.task \in DOMAIN Script /\ top.pc \in DOMAIN Script[top.task]
          /\ instr = Script[top.task][top.pc]
      BY <1>1, AtWork
    <3> QED BY <3>1, Instructions
  <2>2. CASE instr.op = "line"
    <3>1. head = <<MatchString[top.task]>>
      BY <2>2
    <3> QED BY <2>1, <2>2, <3>1
  <2>3. CASE instr.op # "line"
    <3>1. head = <<>> /\ <<>> \in Seq(STRING)
      BY <2>3
    <3> HIDE DEF head
    <3> QED BY <3>1
  <2> QED BY <2>2, <2>3
<1>8. f(j) \in Frames /\ f(j).task = top.task
  <2>1. top \in Frames
    BY <1>1, AtWork
  <2> HIDE DEF head, text
  <2>2. (top.got \o head) \o text(j) \in Seq(STRING)
    BY <1>6, <1>7, <2>1 DEF Frames
  <2> QED BY <2>1, <2>2 DEF Frames
<1>9. r(j) \in Response
  BY DEF Response
<1> HIDE DEF head, text, f, r
<1>10. /\ uart' \in Seq(LexemeUpTo(sent)) /\ ring' \in Seq(LexemeUpTo(sent)) /\ lost' \in Nat
       /\ Heads(uart') + lost' = Heads(uart) + lost
  BY <1>2, <1>4, Typed, ReadStream
<1> QED BY <1>1, <1>2, <1>8, <1>9, <1>10, Typed, ReadKeeps

-----------------------------------------------------------------------------
(* Calls and returns *)

LEMMA CallFunctionKeeps == ASSUME IInv, CallFunction PROVE IInv' /\ Calm
<1> DEFINE t == instr.arg[1]
           f == Frame(t, 0)
<1>1. /\ Runs({"call"}) /\ stack' = Append(stack, f)
      /\ UNCHANGED <<uart, ring, owed, pending, events, sent, prompted, done, lost, handled,
                     calls, early, cuts>>
  BY DEF CallFunction, wire, modem, command, ghost, spent
<1>2. t \in DOMAIN Script \ HandlerTasks
  <2>1. /\ top.task \in DOMAIN Script /\ top.pc \in DOMAIN Script[top.task]
        /\ instr = Script[top.task][top.pc] /\ instr.op = "call"
    BY <1>1, AtWork
  <2> QED BY <2>1, Instructions
<1>3. f \in Frames /\ f.task = t /\ f.pc \in Label(f.task)
  BY <1>2, NewFrame
<1>4. stack # <<>> /\ IsAt(stack[Len(stack)], {"call"}) /\ StackIn(stack)
  BY <1>1, AtWork, Typed
<1>5. Running(stack) \in Nat
  BY Typed, RunningType
<1> HIDE DEF t, f
<1>6. StackIn(stack') /\ Running(stack') = Running(stack)
  BY <1>1, <1>2, <1>3, <1>4, <1>5, Push
<1>7. IInv'
  BY <1>1, <1>6, Typed, Retyped
<1> QED BY <1>1, <1>6, <1>7 DEF Calm

LEMMA ToApplicationKeeps == ASSUME IInv, ReturnToApplication PROVE IInv' /\ Calm
<1>1. /\ stack # <<>> /\ Len(stack) = 1 /\ stack' = <<>>
      /\ UNCHANGED <<uart, ring, owed, pending, events, sent, prompted, done, lost, handled,
                     calls, early, cuts>>
  BY DEF ReturnToApplication, Returns, wire, modem, command, spent
<1>2. StackIn(stack) /\ stack[1].task \notin HandlerTasks
  BY <1>1, Typed DEF StackIn
<1>3. InHandlers(stack) = {} /\ InHandlers(<<>>) = {}
  <2>1. DOMAIN stack = {1}
    BY <1>1, <1>2 DEF StackIn
  <2> QED BY <1>2, <2>1 DEF InHandlers
<1>4. StackIn(<<>>)
  BY DEF StackIn
<1>5. StackIn(stack') /\ Running(stack') = Running(stack)
  BY <1>1, <1>3, <1>4 DEF Running
<1>6. IInv'
  BY <1>1, <1>5, Typed, Retyped
<1> QED BY <1>1, <1>5, <1>6 DEF Calm

\* A function returns to the one below, which goes on as frame g.
LEMMA ReplaceLast ==
  ASSUME NEW s \in Seq(Frames), Len(s) > 1, NEW g \in Frames
  PROVE  Append(SubSeq(s, 1, Len(s) - 2), g) = [SubSeq(s, 1, Len(s) - 1) EXCEPT ![Len(s) - 1] = g]
<1> DEFINE n == Len(s)
           u == SubSeq(s, 1, n - 1)
           v == SubSeq(s, 1, n - 2)
           w == Append(v, g)
<1>1. n \in Nat /\ n > 1
  BY LenProperties
<1>2. /\ u \in Seq(Frames) /\ Len(u) = n - 1 /\ DOMAIN u = 1 .. n - 1
      /\ \A i \in 1 .. n - 1 : u[i] = s[i]
  <2>1. \A i \in 1 .. n - 1 : i \in 1 .. Len(s) /\ 1 + i - 1 = i
    BY <1>1
  <2> QED BY <1>1, <2>1
<1>3. v \in Seq(Frames) /\ Len(v) = n - 2 /\ \A i \in 1 .. n - 2 : v[i] = s[i]
  <2>1. n - 2 \in Nat /\ \A i \in 1 .. n - 2 : i \in 1 .. Len(s) /\ 1 + i - 1 = i
    BY <1>1
  <2>2. \A i \in 1 .. n - 2 : s[i] \in Frames
    BY <2>1, ElementOfSeq
  <2>3. /\ v \in Seq(Frames) /\ Len(v) = IF 1 <= n - 2 THEN (n - 2) - 1 + 1 ELSE 0
        /\ \A i \in 1 .. (n - 2) - 1 + 1 : v[i] = s[1 + i - 1]
    BY <2>1, <2>2, SubSeqProperties
  <2> HIDE DEF v
  <2> HIDE DEF n
  <2>4. (n - 2) - 1 + 1 = n - 2
    BY <1>1
  <2>5. Len(v) = n - 2
    BY <1>1, <2>1, <2>3, <2>4
  <2> QED BY <2>1, <2>3, <2>4, <2>5
<1> HIDE DEF u, v, n
<1>4. w \in Seq(Frames) /\ Len(w) = n - 1 /\ \A i \in 1 .. n - 1 : w[i] = IF i = n - 1 THEN g ELSE s[i]
  <2>1. /\ w \in Seq(Frames) /\ Len(w) = Len(v) + 1 /\ w[Len(v) + 1] = g
        /\ \A i \in 1 .. Len(v) : w[i] = v[i]
    BY <1>3, AppendProperties
  <2>2. Len(v) + 1 = n - 1 /\ \A i \in 1 .. n - 1 : i = n - 1 \/ i \in 1 .. n - 2
    BY <1>1, <1>3
  <2> HIDE DEF w
  <2>3. w[n - 1] = g /\ \A i \in 1 .. n - 2 : w[i] = s[i]
    BY <1>3, <2>1, <2>2
  <2>4. n - 1 \notin 1 .. n - 2
    BY <1>1
  <2> QED BY <2>1, <2>2, <2>3, <2>4
<1> HIDE DEF w
<1> DEFINE x == [u EXCEPT ![n - 1] = g]
<1>5. x \in Seq(Frames) /\ Len(x) = n - 1 /\ \A i \in 1 .. n - 1 : x[i] = IF i = n - 1 THEN g ELSE s[i]
  <2>1. n - 1 \in Nat /\ x \in [1 .. n - 1 -> Frames]
    <3>1. u \in [1 .. n - 1 -> Frames]
      BY <1>2
    <3> QED BY <1>1, <3>1
  <2>2. \A i \in 1 .. n - 1 : x[i] = IF i = n - 1 THEN g ELSE s[i]
    BY <1>2
  <2>3. x \in Seq(Frames) /\ Len(x) = n - 1
    <3> DEFINE k == n - 1
    <3>1. k \in Nat /\ x \in [1 .. k -> Frames]
      BY <2>1
    <3> HIDE DEF x, k
    <3>2. x \in Seq(Frames) /\ DOMAIN x = 1 .. k
      BY <3>1, SeqDef
    <3> QED BY <3>1, <3>2, LenProperties DEF k
  <2> QED BY <2>2, <2>3
<1> HIDE DEF x
<1>6. w = x
  BY <1>4, <1>5, SeqEqual
<1> QED BY <1>6 DEF w, x, u, v, n

\* The function below is in a call, and goes on behind it.
LEMMA ToCallerKeeps == ASSUME IInv, ReturnToCaller PROVE IInv' /\ Calm
<1> DEFINE n == Len(stack)
           u == SubSeq(stack, 1, n - 1)
           f == stack[n - 1]
           c == Script[f.task][f.pc]
           r == IF Returned \in {"SUCCEEDED", "TRUE"} THEN "OK" ELSE "ERROR"
           g == [f EXCEPT !.ret = Returned, !.pc = c.goto[r]]
<1>1. /\ stack # <<>> /\ top.pc \notin DOMAIN Script[top.task] /\ n > 1
      /\ top.task \notin HandlerTasks
      /\ stack' = Append(SubSeq(stack, 1, n - 2), g)
      /\ UNCHANGED <<uart, ring, owed, pending, events, sent, prompted, done, lost, handled,
                     calls, early, cuts>>
  BY DEF ReturnToCaller, Returns, InHandler, wire, modem, command, ghost, spent
<1>2. stack \in Seq(Frames) /\ StackIn(stack) /\ n \in Nat
  BY Typed DEF StackIn
<1>3. /\ n \in DOMAIN stack \ {1} /\ n - 1 \in DOMAIN stack
      /\ top = stack[n] /\ top \in Frames /\ f \in Frames
  BY <1>1, <1>2 DEF top
<1>4. Returned \in Code
  <2>1. top.pc \in Label(top.task) /\ top.ret \in Code
    BY <1>2, <1>3 DEF StackIn, Frames
  <2> QED BY <1>1, <2>1 DEF Returned, Label
<1>5. IsAt(f, {"call"})
  BY <1>1, <1>2, <1>3 DEF StackIn
<1>6. f.task \in DOMAIN Script /\ f.pc \in DOMAIN Script[f.task] /\ r \in Response
  BY <1>3, <1>5 DEF IsAt, Frames, Response
<1>7. c.goto[r] \in Label(f.task)
  BY <1>6, Instructions
<1>8. g \in Frames /\ g.task = f.task /\ g.pc \in Label(g.task)
  <2> HIDE DEF f, c, r
  <2> QED BY <1>3, <1>4, <1>6, <1>7 DEF Frames
<1>9. /\ StackIn(u) /\ Len(u) = n - 1 /\ u[n - 1] = f
      /\ Running(stack) = Running(u)
  <2>1. Running(u) \in Nat
    BY <1>1, <1>2, Pop, RunningType
  <2>2. /\ StackIn(u) /\ Len(u) = n - 1 /\ u[n - 1] = f
        /\ Running(stack) = Running(u) + (IF stack[n].task \in HandlerTasks THEN 1 ELSE 0)
    BY <1>1, <1>2, Pop
  <2> QED BY <1>1, <1>3, <2>1, <2>2
<1>10. stack' = [u EXCEPT ![n - 1] = g]
  <2> HIDE DEF g
  <2> QED BY <1>1, <1>2, <1>8, ReplaceLast
<1>11. u # <<>>
  BY <1>1, <1>2, <1>9
<1> HIDE DEF u, g, f, n
<1>12. StackIn(stack') /\ Running(stack') = Running(stack)
  BY <1>8, <1>9, <1>10, <1>11, SetTop
<1>13. IInv'
  BY <1>1, <1>12, Typed, Retyped
<1> QED BY <1>1, <1>12, <1>13 DEF Calm

\* A process() that returns takes its event off the stack, and counts it as
\* handled, unless another handler for the same string comes in its place.
LEMMA FromHandlerKeeps ==
  ASSUME IInv, ReturnFromHandler
  PROVE  /\ IInv'
         /\ Running(stack') + handled' = Running(stack) + handled
         /\ UNCHANGED <<uart, owed, pending, lost, events>>
<1> DEFINE n == Len(stack)
           u == SubSeq(stack, 1, n - 1)
           more == IF Port = "Arduino" THEN NextFor(MatchString[top.task], top.place) ELSE {}
           k == CHOOSE k \in more : TRUE
           f == Frame(Handlers[k], k)
<1>1. /\ stack # <<>> /\ n > 1 /\ top.task \in HandlerTasks
      /\ handled' = IF more = {} THEN handled + 1 ELSE handled
      /\ stack' = IF more = {} THEN u ELSE Append(u, f)
      /\ ring' = <<>>
      /\ UNCHANGED <<uart, owed, pending, events, sent, prompted, done, lost,
                     calls, early, cuts>>
  BY DEF ReturnFromHandler, Returns, InHandler, modem, command, spent
<1>2. stack \in Seq(Frames) /\ StackIn(stack) /\ n \in Nat
  BY Typed DEF StackIn
<1>3. n \in DOMAIN stack \ {1} /\ top = stack[n]
  BY <1>1, <1>2 DEF top
<1>4. IsAt(stack[n - 1], Waits)
  BY <1>1, <1>2, <1>3 DEF StackIn
<1>5. /\ StackIn(u) /\ Len(u) = n - 1 /\ u[n - 1] = stack[n - 1] /\ u # <<>>
      /\ Running(u) \in Nat /\ Running(stack) = Running(u) + 1
  <2>1. /\ StackIn(u) /\ Len(u) = n - 1 /\ u[n - 1] = stack[n - 1]
        /\ Running(stack) = Running(u) + (IF stack[n].task \in HandlerTasks THEN 1 ELSE 0)
    BY <1>1, <1>2, Pop
  <2>2. Running(u) \in Nat
    BY <2>1, RunningType
  <2>3. u # <<>>
    <3> HIDE DEF u
    <3> QED BY <1>1, <1>2, <2>1
  <2> HIDE DEF u
  <2> QED BY <1>1, <1>3, <2>1, <2>2, <2>3
<1>6. handled \in Nat
  BY Typed
<1>7. /\ StackIn(stack') /\ handled' \in Nat
      /\ Running(stack') + handled' = Running(stack) + handled
  <2>1. CASE more = {}
    <3> HIDE DEF more, u, f
    <3> QED BY <1>1, <1>5, <1>6, <2>1
  <2>2. CASE more # {}
    <3>1. k \in DOMAIN Handlers
      BY <2>2 DEF NextFor
    <3>2. Handlers[k] \in HandlerTasks /\ Handlers[k] \in DOMAIN Script /\ k \in Nat
      BY <3>1, HandlerFacts
    <3> HIDE DEF k, more
    <3>3. f \in Frames /\ f.task \in HandlerTasks /\ f.pc \in Label(f.task)
      BY <3>2, NewFrame
    <3> HIDE DEF f, u
    <3>4. StackIn(Append(u, f)) /\ Running(Append(u, f)) = Running(u) + 1
      BY <1>4, <1>5, <3>3, Push
    <3> QED BY <1>1, <1>5, <1>6, <2>2, <3>4
  <2> QED BY <2>1, <2>2
<1>8. IInv'
  BY <1>1, <1>7, Typed, Retyped
<1> QED BY <1>1, <1>7, <1>8

-----------------------------------------------------------------------------
(* Timeouts *)

LEMMA EarlyType == ASSUME IInv, TimeIsUp PROVE early' \in 0 .. MaxEarly
<1>1. early' = early \/ (early' = early + 1 /\ early < MaxEarly)
  BY DEF TimeIsUp
<1> QED BY <1>1, Typed, BoundsAssumption

\* A wait that times out has seen no head of an event.
LEMMA WaitExpires ==
  ASSUME IInv, Runs(Waits), Starved
  PROVE  Lacks(uart, EventHeads) /\ Heads(uart) = 0
<1>1. instr.op \in Waits
  BY AtWork
<1>2. Lacks(uart, Stops)
  BY <1>1 DEF Starved, Waits
<1>3. Lacks(uart, EventHeads)
  BY <1>2, WaitStops DEF Lacks
<1> QED BY <1>3, NoHeads

LEMMA NothingLeft ==
  /\ Heads(<<>>) = 0
  /\ \A m : <<>> \in Seq(LexemeUpTo(m))
<1>1. Lacks(<<>>, EventHeads)
  BY DEF Lacks
<1> QED BY <1>1, NoHeads

LEMMA WaitTimesOutKeeps == ASSUME IInv, WaitTimesOut PROVE IInv' /\ Calm
<1>1. /\ Runs(Waits) /\ TimeIsUp /\ Starved /\ uart' = <<>> /\ ring' = <<>>
      /\ Resume(top, "TIMEOUT") /\ ReadsOnly /\ lost' = lost
  BY DEF WaitTimesOut, Waiting, Waits, TimeIsUp, ReadsOnly, modem, command, ghost
<1>2. /\ uart' \in Seq(LexemeUpTo(sent)) /\ ring' \in Seq(LexemeUpTo(sent))
      /\ Heads(uart') = Heads(uart)
  BY <1>1, WaitExpires, NothingLeft
<1>3. top \in Frames /\ "TIMEOUT" \in Response /\ early' \in 0 .. MaxEarly
  BY <1>1, AtWork, EarlyType DEF Response
<1> QED BY <1>1, <1>2, <1>3, Typed, ReadKeeps

\* The head that is cut in two is counted as lost, and what is left is none.
LEMMA CutKeeps ==
  ASSUME IInv, NEW e \in DOMAIN Events, WaitTimesOutInEvent(e)
  PROVE  /\ IInv'
         /\ pending = <<>> /\ pending' # <<>> /\ Len(pending') = Len(Events[e])
         /\ Heads(Head(pending')) = 0
         /\ \A i \in 2 .. Len(Events[e]) : Heads(pending'[i]) = Heads(Events[e][i])
         /\ lost' = lost + Heads(Events[e][1])
         /\ events' = events + 1
         /\ Heads(uart) = 0 /\ Heads(uart') = 0
         /\ Running(stack') = Running(stack)
         /\ UNCHANGED <<owed, handled>>
<1> DEFINE b == TagAll(Events[e], 0)
           cut == [i \in DOMAIN b[1] |-> IF b[1][i].s \in EventHeads
                                        THEN [b[1][i] EXCEPT !.s = Rest] ELSE b[1][i]]
<1>1. /\ Runs(Waits) /\ Starved /\ Resume(top, "TIMEOUT")
      /\ uart' = <<>> /\ ring' = <<>> /\ pending = <<>>
      /\ events < MaxEvents /\ events' = events + 1
      /\ cuts < MaxCuts /\ cuts' = cuts + 1
      /\ lost' = lost + Heads(b[1])
      /\ pending' = [b EXCEPT ![1] = cut]
      /\ UNCHANGED <<owed, sent, prompted, done, handled, calls, early>>
  BY DEF WaitTimesOutInEvent, Waiting, Waits, command
<1>2. Events[e] \in Seq(Block) \ {<<>>} /\ 0 \in 0 .. sent /\ sent \in Nat
  BY Typed, BlocksAssumption
<1>3. /\ b \in Seq(Seq(LexemeUpTo(sent))) /\ Len(b) = Len(Events[e])
      /\ \A i \in 1 .. Len(Events[e]) : Heads(b[i]) = Heads(Events[e][i])
  BY <1>2, Tagged
<1> HIDE DEF b
<1>4. Len(Events[e]) \in Nat \ {0} /\ DOMAIN b = 1 .. Len(Events[e]) /\ 1 \in DOMAIN b
  BY <1>2, <1>3
<1>5. b[1] \in Seq(LexemeUpTo(sent)) /\ Len(b[1]) \in Nat /\ DOMAIN b[1] = 1 .. Len(b[1])
  BY <1>3, <1>4
<1>6. cut \in Seq(LexemeUpTo(sent)) /\ Lacks(cut, EventHeads)
  <2>1. ASSUME NEW i \in DOMAIN b[1]
        PROVE  cut[i] \in LexemeUpTo(sent) /\ cut[i].s \notin EventHeads
    <3>1. b[1][i] \in LexemeUpTo(sent)
      BY <1>5, ElementOfSeq
    <3>2. CASE b[1][i].s \in EventHeads
      <4>1. cut[i] = [b[1][i] EXCEPT !.s = Rest]
        BY <3>2
      <4>2. cut[i] \in LexemeUpTo(sent) /\ cut[i].s = Rest
        BY <3>1, <4>1, RestAssumption DEF LexemeUpTo
      <4> QED BY <4>2, RestAssumption
    <3>3. CASE b[1][i].s \notin EventHeads
      BY <3>1, <3>3
    <3> QED BY <3>2, <3>3
  <2>2. cut = [i \in 1 .. Len(b[1]) |-> cut[i]] /\ DOMAIN cut = 1 .. Len(b[1])
    BY <1>5
  <2> HIDE DEF cut
  <2>3. cut \in [1 .. Len(b[1]) -> LexemeUpTo(sent)]
    BY <1>5, <2>1, <2>2
  <2>4. cut \in Seq(LexemeUpTo(sent))
    BY <1>5, <2>3, SeqDef
  <2> QED BY <1>5, <2>1, <2>2, <2>4 DEF Lacks
<1> HIDE DEF cut
<1>7. /\ pending' \in Seq(Seq(LexemeUpTo(sent))) /\ Len(pending') = Len(Events[e])
      /\ pending' # <<>> /\ Head(pending') = cut
      /\ \A i \in 2 .. Len(Events[e]) : pending'[i] = b[i]
  BY <1>1, <1>3, <1>4, <1>6
<1>8. Heads(Head(pending')) = 0
  BY <1>6, <1>7, NoHeads
<1>9. \A i \in 2 .. Len(Events[e]) : Heads(pending'[i]) = Heads(Events[e][i])
  BY <1>3, <1>4, <1>7
<1>10. Heads(b[1]) = Heads(Events[e][1]) /\ Heads(b[1]) \in Nat
  BY <1>3, <1>4, <1>5, HeadsType
<1>11. StackIn(stack') /\ Running(stack') = Running(stack)
  BY <1>1, AtWork, Resumed DEF Response
<1>12. /\ uart' \in Seq(LexemeUpTo(sent)) /\ ring' \in Seq(LexemeUpTo(sent))
       /\ Heads(uart) = 0 /\ Heads(uart') = 0
  BY <1>1, WaitExpires, NothingLeft
<1>13. events' \in 0 .. MaxEvents /\ cuts' \in 0 .. MaxCuts /\ lost' \in Nat
  <2>1. events \in Nat /\ cuts \in Nat /\ lost \in Nat
    BY Typed, BoundsAssumption
  <2>2. lost' \in Nat
    BY <1>1, <1>10, <2>1
  <2>3. events' \in 0 .. MaxEvents
    BY <1>1, <2>1, BoundsAssumption
  <2>4. cuts' \in 0 .. MaxCuts
    BY <1>1, <2>1, BoundsAssumption
  <2> QED BY <2>2, <2>3, <2>4
<1>14. IInv'
  BY <1>1, <1>7, <1>11, <1>12, <1>13, Typed, Retyped
<1> QED BY <1>1, <1>7, <1>8, <1>9, <1>10, <1>11, <1>12, <1>14

LEMMA ReadTimesOutKeeps == ASSUME IInv, ReadTimesOut PROVE IInv' /\ Calm
<1> DEFINE t == Texts(Kept)
           int == [top EXCEPT !.nums = Append(@, 0), !.ret = "SUCCEEDED"]
           got == [top EXCEPT !.got = @ \o t]
           f == CASE instr.op = "int"  -> int
                  [] instr.op = "find" -> top
                  [] OTHER             -> got
           r == IF instr.op = "until" /\ Kept # <<>> THEN "OK" ELSE "TIMEOUT"
<1>1. /\ Runs({"find", "int", "bytes", "until"}) /\ TimeIsUp
      /\ ReadAway(Len(uart)) /\ ring' = <<>> /\ Resume(f, r) /\ ReadsOnly
  BY DEF ReadTimesOut, ReadsOnly, modem, command
<1>2. top \in Frames
  BY <1>1, AtWork
<1>3. Stream \in Seq(LexemeUpTo(sent)) /\ Len(uart) \in 0 .. Len(uart)
  BY Typed DEF Stream
<1>4. Kept \in Seq(LexemeUpTo(sent))
  BY <1>3, NothingLeft DEF Kept
<1>5. t \in Seq(STRING)
  BY <1>4, TextsType
<1>6. int \in Frames /\ int.task = top.task
  <2>1. Append(top.nums, 0) \in Seq(Nat) /\ "SUCCEEDED" \in Code
    BY <1>2 DEF Frames, Code
  <2> QED BY <1>2, <2>1 DEF Frames
<1> HIDE DEF t, int
<1>7. got \in Frames /\ got.task = top.task
  BY <1>1, <1>5, GotKeeps
<1> HIDE DEF got
<1>8. f \in Frames /\ f.task = top.task
  BY <1>2, <1>6, <1>7
<1>9. r \in Response
  BY DEF Response
<1>10. early' \in 0 .. MaxEarly
  BY <1>1, EarlyType
<1>11. /\ uart' \in Seq(LexemeUpTo(sent)) /\ lost' \in Nat
       /\ Heads(uart') + lost' = Heads(uart) + lost
  BY <1>1, <1>3, Typed, ReadUart
<1>12. ring' \in Seq(LexemeUpTo(sent))
  BY <1>1, NothingLeft
<1> HIDE DEF f, r
<1> QED BY <1>1, <1>8, <1>9, <1>10, <1>11, <1>12, ReadKeeps

-----------------------------------------------------------------------------
(* Types, and where handlers run *)

LEMMA InitIInv == Init => IInv
<1> SUFFICES ASSUME Init PROVE IInv
  OBVIOUS
<1>1. /\ uart = <<>> /\ ring = <<>> /\ stack = <<>> /\ owed = <<>> /\ pending = <<>>
      /\ sent = 0 /\ prompted = FALSE /\ done = TRUE /\ lost = 0 /\ handled = 0
      /\ calls = 0 /\ events = 0 /\ early = 0 /\ cuts = 0
  BY DEF Init
<1>2. TypeOK
  <2>1. 0 \in 0 .. MaxCalls /\ 0 \in 0 .. MaxEvents /\ 0 \in 0 .. MaxEarly /\ 0 \in 0 .. MaxCuts
    BY BoundsAssumption
  <2>2. /\ uart \in Seq(Lexeme) /\ ring \in Seq(Lexeme)
        /\ owed \in Seq(Seq(Lexeme)) /\ pending \in Seq(Seq(Lexeme)) /\ stack \in Seq(Frames)
    BY <1>1
  <2>3. \A i \in DOMAIN stack : stack[i].pc \in Label(stack[i].task)
    BY <1>1
  <2> QED BY <1>1, <2>1, <2>2, <2>3 DEF TypeOK
<1>3. StackIn(stack)
  BY <1>1 DEF StackIn
<1> QED BY <1>2, <1>3 DEF IInv

LEMMA StutterKeeps == ASSUME IInv, UNCHANGED vars PROVE IInv' /\ Calm
<1>1. UNCHANGED <<uart, ring, stack, owed, pending, events, sent, prompted, done, lost,
                  handled, calls, early, cuts>>
  BY DEF vars, wire, modem, command, ghost, spent
<1>2. IInv'
  BY <1>1, Typed, Retyped
<1> QED BY <1>1, <1>2 DEF Calm

\* The steps that leave the balance of events alone.
Calmly == \/ \E task \in Tasks : Call(task)
          \/ Respond \/ findChar \/ parseInt \/ readBytes \/ readLine
          \/ CallFunction \/ ReturnToApplication \/ ReturnToCaller
          \/ WaitTimesOut \/ ReadTimesOut
          \/ UNCHANGED vars

LEMMA CalmlyKeeps == ASSUME IInv, Calmly PROVE IInv' /\ Calm
<1>1. CASE \E task \in Tasks : Call(task)
  BY <1>1, CallKeeps
<1>2. CASE Respond
  BY <1>2, RespondKeeps
<1>3. CASE findChar
  BY <1>3, FindKeeps
<1>4. CASE parseInt
  BY <1>4, IntKeeps
<1>5. CASE readBytes
  BY <1>5, BytesKeeps
<1>6. CASE readLine
  BY <1>6, LineKeeps
<1>7. CASE CallFunction
  BY <1>7, CallFunctionKeeps
<1>8. CASE ReturnToApplication
  BY <1>8, ToApplicationKeeps
<1>9. CASE ReturnToCaller
  BY <1>9, ToCallerKeeps
<1>10. CASE WaitTimesOut
  BY <1>10, WaitTimesOutKeeps
<1>11. CASE ReadTimesOut
  BY <1>11, ReadTimesOutKeeps
<1>12. CASE UNCHANGED vars
  BY <1>12, StutterKeeps
<1> QED BY <1>1, <1>2, <1>3, <1>4, <1>5, <1>6, <1>7, <1>8, <1>9, <1>10, <1>11, <1>12 DEF Calmly

LEMMA Steps ==
  ASSUME [Next]_vars
  PROVE  \/ Calmly
         \/ SendCommand \/ WriteData \/ SendAnswer
         \/ \E e \in DOMAIN Events : Event(e)
         \/ SendEvent \/ Dispatch \/ ReturnFromHandler
         \/ \E e \in DOMAIN Events : WaitTimesOutInEvent(e)
BY DEF Next, Read, Control, Expire, Quiet, Calmly

LEMMA NextIInv == IInv /\ [Next]_vars => IInv'
<1> SUFFICES ASSUME IInv, [Next]_vars PROVE IInv'
  OBVIOUS
<1>1. CASE Calmly
  BY <1>1, CalmlyKeeps
<1>2. CASE SendCommand
  BY <1>2, SendKeeps
<1>3. CASE WriteData
  BY <1>3, WriteKeeps
<1>4. CASE SendAnswer
  BY <1>4, AnswerKeeps
<1>5. CASE \E e \in DOMAIN Events : Event(e)
  BY <1>5, EventKeeps
<1>6. CASE SendEvent
  BY <1>6, SendEventKeeps
<1>7. CASE Dispatch
  BY <1>7, DispatchKeeps
<1>8. CASE ReturnFromHandler
  BY <1>8, FromHandlerKeeps
<1>9. CASE \E e \in DOMAIN Events : WaitTimesOutInEvent(e)
  BY <1>9, CutKeeps
<1> QED BY <1>1, <1>2, <1>3, <1>4, <1>5, <1>6, <1>7, <1>8, <1>9, Steps

LEMMA Invariance == Spec => []IInv
BY InitIInv, NextIInv, PTL DEF Spec

\* However answers, events, calls and timeouts interleave, every function is at
\* a label of its own script with results of the right type, and no lexeme in
\* the UART is tagged with a command that was not sent.
THEOREM SerialTypeOK == Spec => []TypeOK
<1>1. IInv => TypeOK
  BY DEF IInv
<1> QED BY <1>1, Invariance, PTL

\* process() of a handler runs only where waitResponse() or listen() is being
\* executed below it, whatever is nested in whatever: findChar, parseInt and the
\* reads into a caller's memory are never interrupted half way.
THEOREM HandlersInWaits == Spec => []HandlersRunInWaits
<1>1. IInv => HandlersRunInWaits
  BY DEF IInv, StackIn, HandlersRunInWaits, Waits
<1> QED BY <1>1, Invariance, PTL

-----------------------------------------------------------------------------
(* No event is miscounted *)

\* The heads in what comes next of an event.
Coming == IF pending = <<>> THEN 0 ELSE Heads(Head(pending))

Quietly(blocks) == \A i \in 1 .. Len(blocks) : Heads(blocks[i]) = 0

\* Answers on their way hold no head, an event none behind what comes next, and
\* the heads that were sent are all somewhere.
AInv ==
  /\ IInv
  /\ Quietly(owed)
  /\ pending # <<>> => Quietly(Tail(pending))
  /\ Heads(uart) + Running(stack) + Coming + handled + lost = events

LEMMA Counts ==
  ASSUME IInv
  PROVE  /\ Heads(uart) \in Nat /\ Running(stack) \in Nat /\ Coming \in Nat
         /\ handled \in Nat /\ lost \in Nat /\ events \in Nat
<1>1. Heads(uart) \in Nat /\ Running(stack) \in Nat
  BY Typed, HeadsType, RunningType
<1>2. Coming \in Nat
  <2>1. CASE pending = <<>>
    BY <2>1 DEF Coming
  <2>2. CASE pending # <<>>
    <3>1. Head(pending) \in Seq(LexemeUpTo(sent))
      BY <2>2, Typed
    <3>2. Heads(Head(pending)) \in Nat
      BY <3>1, HeadsType
    <3> QED BY <2>2, <3>2 DEF Coming
  <2> QED BY <2>1, <2>2
<1> QED BY <1>1, <1>2, Typed

LEMMA Quieter ==
  ASSUME NEW S, NEW b \in Seq(S), b # <<>>, Quietly(b)
  PROVE  Heads(Head(b)) = 0 /\ Quietly(Tail(b))
<1>1. /\ Len(b) \in Nat \ {0} /\ Head(b) = b[1] /\ Len(Tail(b)) = Len(b) - 1
      /\ \A i \in 1 .. Len(b) - 1 : Tail(b)[i] = b[i + 1]
  OBVIOUS
<1>2. \A i \in 1 .. Len(b) - 1 : i + 1 \in 1 .. Len(b)
  BY <1>1
<1> QED BY <1>1, <1>2 DEF Quietly

LEMMA QuietTogether ==
  ASSUME NEW S, NEW a \in Seq(S), NEW b \in Seq(S), Quietly(a), Quietly(b)
  PROVE  Quietly(a \o b)
<1>1. /\ Len(a) \in Nat /\ Len(b) \in Nat /\ Len(a \o b) = Len(a) + Len(b)
      /\ \A i \in 1 .. Len(a) : (a \o b)[i] = a[i]
      /\ \A i \in Len(a) + 1 .. Len(a) + Len(b) : (a \o b)[i] = b[i - Len(a)]
  OBVIOUS
<1>2. ASSUME NEW i \in 1 .. Len(a) + Len(b) PROVE Heads((a \o b)[i]) = 0
  <2>1. CASE i <= Len(a)
    BY <1>1, <2>1 DEF Quietly
  <2>2. CASE i > Len(a)
    <3>1. i - Len(a) \in 1 .. Len(b) /\ i \in Len(a) + 1 .. Len(a) + Len(b)
      BY <1>1, <2>2
    <3> QED BY <1>1, <3>1 DEF Quietly
  <2> QED BY <1>1, <2>1, <2>2
<1> QED BY <1>1, <1>2 DEF Quietly

LEMMA QuietAnswer ==
  ASSUME AnnouncedOnce, NEW c \in DOMAIN Replies, NEW r \in Replies[c], NEW m \in Nat,
         NEW k \in 0 .. m
  PROVE  /\ TagAll(r.blocks, k) \in Seq(Seq(LexemeUpTo(m)))
         /\ Quietly(TagAll(r.blocks, k))
<1>1. r.blocks \in Seq(Block)
  BY BlocksAssumption
<1>2. \A i \in 1 .. Len(r.blocks) : Heads(r.blocks[i]) = 0
  BY DEF AnnouncedOnce
<1> QED BY <1>1, <1>2, Tagged DEF Quietly

LEMMA InitAInv == Init => AInv
<1> SUFFICES ASSUME Init PROVE AInv
  OBVIOUS
<1>1. /\ uart = <<>> /\ stack = <<>> /\ owed = <<>> /\ pending = <<>>
      /\ handled = 0 /\ lost = 0 /\ events = 0
  BY DEF Init
<1>2. InHandlers(stack) = {} /\ Quietly(owed)
  BY <1>1 DEF InHandlers, Quietly
<1>3. Running(stack) = 0 /\ Heads(uart) = 0 /\ Coming = 0
  BY <1>1, <1>2, NothingLeft, FS_EmptySet DEF Running, Coming
<1> QED BY <1>1, <1>2, <1>3, InitIInv DEF AInv

LEMMA CountsNext ==
  ASSUME IInv'
  PROVE  /\ Heads(uart') \in Nat /\ Running(stack') \in Nat
         /\ handled' \in Nat /\ lost' \in Nat /\ events' \in Nat
<1>1. uart' \in Seq(Lexeme') /\ StackIn(stack') /\ handled' \in Nat /\ lost' \in Nat
      /\ events' \in 0 .. MaxEvents
  BY DEF IInv, TypeOK
<1> QED BY <1>1, HeadsType, RunningType

\* The ways a step moves heads on.
Moved ==
  LET u == Heads(uart)    u1 == Heads(uart')
      r == Running(stack) r1 == Running(stack')
      c == Coming         c1 == Coming'
      h == handled        h1 == handled'
      l == lost           l1 == lost'
      e == events         e1 == events'
  IN  \/ e1 = e /\ c1 = c /\ h1 = h /\ r1 = r /\ u1 + l1 = u + l       \* read away
      \/ e1 = e /\ c1 = c /\ h1 = h /\ l1 = l /\ r1 = r + 1 /\ u = u1 + 1 \* found
      \/ e1 = e /\ c1 = c /\ u1 = u /\ l1 = l /\ r1 + h1 = r + h       \* handled
      \/ e1 = e /\ r1 = r /\ h1 = h /\ l1 = l /\ u1 = u + c /\ c1 = 0   \* sent
      \/ e1 = e + 1 /\ u1 = u /\ r1 = r /\ h1 = h /\ l1 = l /\ c1 = c + 1 \* announced
      \/ e1 = e + 1 /\ u1 = u /\ r1 = r /\ h1 = h /\ c1 = c /\ l1 = l + 1 \* cut

LEMMA Accounted ==
  ASSUME AInv, IInv', Coming' \in Nat, Moved,
         Quietly(owed'), pending' # <<>> => Quietly(Tail(pending'))
  PROVE  AInv'
<1> DEFINE u == Heads(uart)    u1 == Heads(uart')
           r == Running(stack) r1 == Running(stack')
           c == Coming         c1 == Coming'
           h == handled        h1 == handled'
           l == lost           l1 == lost'
           e == events         e1 == events'
<1>1. /\ u \in Nat /\ r \in Nat /\ c \in Nat /\ h \in Nat /\ l \in Nat /\ e \in Nat
      /\ u1 \in Nat /\ r1 \in Nat /\ c1 \in Nat /\ h1 \in Nat /\ l1 \in Nat /\ e1 \in Nat
  BY Counts, CountsNext DEF AInv
<1>2. u + r + c + h + l = e
  BY DEF AInv
<1>3. \/ e1 = e /\ c1 = c /\ h1 = h /\ r1 = r /\ u1 + l1 = u + l
      \/ e1 = e /\ c1 = c /\ h1 = h /\ l1 = l /\ r1 = r + 1 /\ u = u1 + 1
      \/ e1 = e /\ c1 = c /\ u1 = u /\ l1 = l /\ r1 + h1 = r + h
      \/ e1 = e /\ r1 = r /\ h1 = h /\ l1 = l /\ u1 = u + c /\ c1 = 0
      \/ e1 = e + 1 /\ u1 = u /\ r1 = r /\ h1 = h /\ l1 = l /\ c1 = c + 1
      \/ e1 = e + 1 /\ u1 = u /\ r1 = r /\ h1 = h /\ c1 = c /\ l1 = l + 1
  BY DEF Moved
<1>4. u1 + r1 + c1 + h1 + l1 = e1
  <2> HIDE DEF u, u1, r, r1, c, c1, h, h1, l, l1, e, e1
  <2> QED BY <1>1, <1>2, <1>3
<1> QED BY <1>4 DEF AInv, Quietly

LEMMA SamePending ==
  ASSUME IInv, pending' = pending
  PROVE  Coming' = Coming /\ Coming' \in Nat
BY Counts DEF Coming

LEMMA CalmlyCounts == ASSUME AInv, IInv', Calm PROVE AInv'
<1>1. /\ Quietly(owed') /\ (pending' # <<>> => Quietly(Tail(pending')))
      /\ Coming' = Coming /\ Coming' \in Nat
  BY SamePending DEF Calm, AInv
<1>2. Moved
  BY <1>1 DEF Calm, Moved
<1> QED BY <1>1, <1>2, Accounted

LEMMA AsksCounts ==
  ASSUME AInv, AnnouncedOnce, SendCommand \/ WriteData
  PROVE  AInv'
<1>1. /\ IInv' /\ Running(stack') = Running(stack)
      /\ UNCHANGED <<uart, pending, lost, handled, events>>
  BY SendKeeps, WriteKeeps DEF AInv
<1>2. owed \in Seq(Seq(LexemeUpTo(sent + 1))) /\ owed \in Seq(Seq(LexemeUpTo(sent)))
      /\ Quietly(owed) /\ sent \in Nat
  BY Typed, MoreSent DEF AInv
<1>3. Quietly(owed')
  <2>1. CASE SendCommand
    <3>1. PICK c \in DOMAIN Replies :
                \E r \in Replies[c] : owed' = owed \o TagAll(r.blocks, sent + 1)
      BY <2>1, SendKeeps DEF AInv
    <3>2. PICK r \in Replies[c] : owed' = owed \o TagAll(r.blocks, sent + 1)
      BY <3>1
    <3>3. sent + 1 \in Nat /\ sent + 1 \in 0 .. sent + 1
      BY <1>2
    <3>4. /\ TagAll(r.blocks, sent + 1) \in Seq(Seq(LexemeUpTo(sent + 1)))
          /\ Quietly(TagAll(r.blocks, sent + 1))
      BY <3>3, QuietAnswer
    <3> QED BY <1>2, <3>2, <3>4, QuietTogether
  <2>2. CASE WriteData
    <3>1. CASE owed' = owed
      BY <1>2, <3>1 DEF Quietly
    <3>2. CASE owed' # owed
      <4>1. PICK c \in DOMAIN Replies : \E r \in Replies[c] : owed' = owed \o TagAll(r.blocks, sent)
        BY <2>2, <3>2, WriteKeeps DEF AInv
      <4>2. PICK r \in Replies[c] : owed' = owed \o TagAll(r.blocks, sent)
        BY <4>1
      <4>3. sent \in 0 .. sent
        BY <1>2
      <4>4. /\ TagAll(r.blocks, sent) \in Seq(Seq(LexemeUpTo(sent)))
            /\ Quietly(TagAll(r.blocks, sent))
        BY <1>2, <4>3, QuietAnswer
      <4> QED BY <1>2, <4>2, <4>4, QuietTogether
    <3> QED BY <3>1, <3>2
  <2> QED BY <2>1, <2>2
<1>4. /\ (pending' # <<>> => Quietly(Tail(pending'))) /\ Coming' = Coming /\ Coming' \in Nat
  BY <1>1, SamePending DEF AInv
<1>5. Heads(uart') + lost' = Heads(uart) + lost
  BY <1>1
<1>6. Moved
  BY <1>1, <1>4, <1>5 DEF Moved
<1> QED BY <1>1, <1>3, <1>4, <1>6, Accounted

LEMMA AnswerCounts == ASSUME AInv, SendAnswer PROVE AInv'
<1>1. /\ IInv' /\ owed # <<>> /\ uart' = uart \o Head(owed) /\ owed' = Tail(owed)
      /\ UNCHANGED <<stack, pending, lost, handled, events>>
  BY AnswerKeeps DEF AInv
<1>2. /\ uart \in Seq(LexemeUpTo(sent)) /\ owed \in Seq(Seq(LexemeUpTo(sent)))
      /\ Head(owed) \in Seq(LexemeUpTo(sent))
  BY <1>1, Typed DEF AInv
<1>3. Heads(Head(owed)) = 0 /\ Quietly(Tail(owed))
  BY <1>1, <1>2, Quieter DEF AInv
<1>4. Heads(uart') = Heads(uart) + Heads(Head(owed)) /\ Heads(uart) \in Nat
  BY <1>1, <1>2, HeadsConcat, HeadsType
<1>5. /\ (pending' # <<>> => Quietly(Tail(pending'))) /\ Coming' = Coming /\ Coming' \in Nat
  BY <1>1, SamePending DEF AInv
<1>6. Heads(uart') = Heads(uart)
  BY <1>3, <1>4
<1>7. Moved
  BY <1>1, <1>5, <1>6 DEF Moved
<1> QED BY <1>1, <1>3, <1>5, <1>7, Accounted

LEMMA EventCounts ==
  ASSUME AInv, AnnouncedOnce, NEW e \in DOMAIN Events, Event(e)
  PROVE  AInv'
<1>1. /\ IInv' /\ pending = <<>> /\ pending' = TagAll(Events[e], 0) /\ events' = events + 1
      /\ UNCHANGED <<uart, stack, owed, lost, handled>>
  BY EventKeeps DEF AInv
<1>2. Events[e] \in Seq(Block) /\ Len(Events[e]) \in Nat \ {0} /\ sent \in Nat /\ 0 \in 0 .. sent
  BY Typed, BlocksAssumption DEF AInv
<1>3. /\ pending' \in Seq(Seq(LexemeUpTo(sent))) /\ Len(pending') = Len(Events[e])
      /\ \A i \in 1 .. Len(Events[e]) : Heads(pending'[i]) = Heads(Events[e][i])
  BY <1>1, <1>2, Tagged
<1>4. /\ pending' # <<>> /\ Head(pending') = pending'[1] /\ 1 \in 1 .. Len(Events[e])
      /\ Len(Tail(pending')) = Len(Events[e]) - 1
      /\ \A i \in 1 .. Len(Events[e]) - 1 : /\ Tail(pending')[i] = pending'[i + 1]
                                            /\ i + 1 \in 2 .. Len(Events[e])
                                            /\ i + 1 \in 1 .. Len(Events[e])
  BY <1>2, <1>3
<1>5. Coming' = 1 /\ Coming = 0
  BY <1>1, <1>3, <1>4 DEF Coming, AnnouncedOnce
<1>6. Quietly(Tail(pending')) /\ Quietly(owed')
  BY <1>1, <1>3, <1>4 DEF Quietly, AnnouncedOnce, AInv
<1>7. Moved
  BY <1>1, <1>5 DEF Moved
<1> QED BY <1>1, <1>5, <1>6, <1>7, Accounted

LEMMA SendEventCounts == ASSUME AInv, SendEvent PROVE AInv'
<1>1. /\ IInv' /\ pending # <<>> /\ uart' = uart \o Head(pending) /\ pending' = Tail(pending)
      /\ UNCHANGED <<stack, owed, lost, handled, events>>
  BY SendEventKeeps DEF AInv
<1>2. /\ uart \in Seq(LexemeUpTo(sent)) /\ pending \in Seq(Seq(LexemeUpTo(sent)))
      /\ Head(pending) \in Seq(LexemeUpTo(sent))
      /\ Tail(pending) \in Seq(Seq(LexemeUpTo(sent))) /\ Quietly(Tail(pending))
  BY <1>1, Typed DEF AInv
<1>3. Heads(uart') = Heads(uart) + Coming
  BY <1>1, <1>2, HeadsConcat DEF Coming
<1>4. Coming' = 0 /\ (pending' # <<>> => Quietly(Tail(pending')))
  BY <1>1, <1>2, Quieter DEF Coming
<1>5. Quietly(owed')
  BY <1>1 DEF AInv
<1>6. Moved
  BY <1>1, <1>3, <1>4 DEF Moved
<1> QED BY <1>1, <1>4, <1>5, <1>6, Accounted

LEMMA HandlingCounts == ASSUME AInv, Dispatch \/ ReturnFromHandler PROVE AInv'
<1>1. /\ IInv' /\ UNCHANGED <<owed, pending, lost, events>>
      /\ \/ /\ Running(stack') = Running(stack) + 1 /\ Heads(uart) = Heads(uart') + 1
            /\ handled' = handled
         \/ /\ Running(stack') + handled' = Running(stack) + handled /\ uart' = uart
  BY DispatchKeeps, FromHandlerKeeps DEF AInv
<1>2. /\ Quietly(owed') /\ (pending' # <<>> => Quietly(Tail(pending')))
      /\ Coming' = Coming /\ Coming' \in Nat
  BY <1>1, SamePending DEF AInv
<1>3. Moved
  BY <1>1, <1>2 DEF Moved
<1> QED BY <1>1, <1>2, <1>3, Accounted

LEMMA CutCounts ==
  ASSUME AInv, AnnouncedOnce, NEW e \in DOMAIN Events, WaitTimesOutInEvent(e)
  PROVE  AInv'
<1>1. /\ IInv' /\ pending = <<>> /\ pending' # <<>> /\ Len(pending') = Len(Events[e])
      /\ Heads(Head(pending')) = 0
      /\ \A i \in 2 .. Len(Events[e]) : Heads(pending'[i]) = Heads(Events[e][i])
      /\ lost' = lost + Heads(Events[e][1]) /\ events' = events + 1
      /\ Heads(uart) = 0 /\ Heads(uart') = 0 /\ Running(stack') = Running(stack)
      /\ UNCHANGED <<owed, handled>>
  BY CutKeeps DEF AInv
<1>2. pending' \in Seq(Seq(Lexeme')) /\ Events[e] \in Seq(Block) \ {<<>>}
  BY <1>1, BlocksAssumption DEF IInv, TypeOK
<1>3. /\ Len(Events[e]) \in Nat \ {0} /\ Len(Tail(pending')) = Len(Events[e]) - 1
      /\ \A i \in 1 .. Len(Events[e]) - 1 : /\ Tail(pending')[i] = pending'[i + 1]
                                            /\ i + 1 \in 2 .. Len(Events[e])
  BY <1>1, <1>2
<1>4. Quietly(Tail(pending')) /\ Quietly(owed')
  BY <1>1, <1>3 DEF Quietly, AnnouncedOnce, AInv
<1>5. Coming = 0 /\ Coming' = 0 /\ lost' = lost + 1
  BY <1>1 DEF Coming, AnnouncedOnce
<1>6. Moved
  BY <1>1, <1>5 DEF Moved
<1> QED BY <1>1, <1>4, <1>5, <1>6, Accounted

LEMMA NextAInv == AnnouncedOnce /\ AInv /\ [Next]_vars => AInv'
<1> SUFFICES ASSUME AnnouncedOnce, AInv, [Next]_vars PROVE AInv'
  OBVIOUS
<1>1. IInv
  BY DEF AInv
<1>2. CASE Calmly
  BY <1>1, <1>2, CalmlyKeeps, CalmlyCounts
<1>3. CASE SendCommand \/ WriteData
  BY <1>3, AsksCounts
<1>4. CASE SendAnswer
  BY <1>4, AnswerCounts
<1>5. CASE \E e \in DOMAIN Events : Event(e)
  BY <1>5, EventCounts
<1>6. CASE SendEvent
  BY <1>6, SendEventCounts
<1>7. CASE Dispatch \/ ReturnFromHandler
  BY <1>7, HandlingCounts
<1>8. CASE \E e \in DOMAIN Events : WaitTimesOutInEvent(e)
  BY <1>8, CutCounts
<1> QED BY <1>2, <1>3, <1>4, <1>5, <1>6, <1>7, <1>8, Steps

\* Every event that announces itself once is in one place: on its way, in the
\* UART, being handled, handled, or lost to a reader that skipped it or to a
\* timeout that cut it in two.  waitResponse() runs no handler twice for one
\* announcement, and drops none unseen.
THEOREM EventsNeverMiscounted == AnnouncedOnce => (Spec => []EventsAccounted)
<1> SUFFICES ASSUME AnnouncedOnce PROVE Spec => []EventsAccounted
  OBVIOUS
<1>1. AInv => EventsAccounted
  BY DEF AInv, EventsAccounted, Coming, Running, InHandlers
<1>2. AInv /\ [Next]_vars => AInv'
  BY NextAInv
<1> QED BY <1>1, <1>2, InitAInv, PTL DEF Spec
=============================================================================
