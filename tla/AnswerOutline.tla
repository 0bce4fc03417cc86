---------------------------- MODULE AnswerOutline ----------------------------
(***************************************************************************)
(* What is to be checked of a function of src/commands, alone and with     *)
(* every answer complete in front of it, so that it goes right in the      *)
(* serial driver: with answers that arrive in pieces, events in between    *)
(* and any calls before and after.                                         *)
(*                                                                         *)
(* A proof outline attaches to every label of a script the points at which *)
(* the function may be there: how far it has read the answer to its last   *)
(* command line, and what it has got from it.  The outline is a constant   *)
(* because nothing in it depends on time.  It is assumed that it starts    *)
(* where functions start, that every instruction leads from its points to  *)
(* points of the next, and that nothing awaited is left where they return. *)
(***************************************************************************)
EXTENDS ModemSerial

CONSTANTS Text(_),      \* the lexemes of a sequence of blocks, one after the other
          Ends(_),      \* block -> the place in the text where it ends
          Outlined,     \* the functions that have an outline
          Points(_, _)  \* function, label -> the points at which it may be there

\* Nothing that runs has the name of nothing.
ASSUME NothingAssumption == "none" \notin HandlerTasks

EventBlocks == {Events[e] : e \in DOMAIN Events}
AnswerBlocks == {<<>>} \cup UNION {{r.blocks : r \in Replies[c]} : c \in DOMAIN Replies}

\* The text is that of the blocks, none of which is empty.
ASSUME SpellingAssumption ==
  \A bs \in AnswerBlocks \cup EventBlocks :
    /\ Text(bs) \in Block
    /\ Ends(bs) \in [0 .. Len(bs) -> 0 .. Len(Text(bs))]
    /\ Ends(bs)[0] = 0 /\ Ends(bs)[Len(bs)] = Len(Text(bs))
    /\ \A b, d \in 0 .. Len(bs) : b < d => Ends(bs)[b] < Ends(bs)[d]
    /\ \A b \in 1 .. Len(bs) : bs[b] = SubSeq(Text(bs), Ends(bs)[b - 1] + 1, Ends(bs)[b])

\* An event announces itself once, in its first block, and has a handler of
\* its own; no answer announces one.
ASSUME HeadsAssumption ==
  /\ \A bs \in EventBlocks : \E h \in 1 .. Ends(bs)[1] :
       \A k \in 1 .. Len(Text(bs)) : Text(bs)[k].s \in EventHeads <=> k = h
  /\ \A bs \in AnswerBlocks : \A k \in 1 .. Len(Text(bs)) : Text(bs)[k].s \notin EventHeads
  /\ \A i, j \in DOMAIN Handlers : MatchString[Handlers[i]] = MatchString[Handlers[j]] => i = j

-----------------------------------------------------------------------------
(* Places in a text *)

\* The first lexeme after place at that is one of these strings.
FirstAfter(bs, at, strings) ==
  {q \in at + 1 .. Len(Text(bs)) : /\ Text(bs)[q].s \in strings
                                   /\ \A k \in at + 1 .. q - 1 : Text(bs)[k].s \notin strings}

\* Place q is in the block of which at has already been read.
InBlock(bs, at, q) ==
  \E b \in 1 .. Len(bs) : Ends(bs)[b - 1] < at /\ at <= q /\ q <= Ends(bs)[b]

\* A block ends here: what comes next may come late, and an event before it.
Cut(bs, q) == \E b \in 0 .. Len(bs) : q = Ends(bs)[b]

Between(bs, at, q) == Texts(SubSeq(Text(bs), at + 1, q))

-----------------------------------------------------------------------------
(* Points *)

Point == [blocks : AnswerBlocks \cup EventBlocks, at : Nat, nums : Seq(Nat), got : Seq(STRING),
          ret : Code, done : BOOLEAN, prompted : BOOLEAN]

Whole(p) == Len(Text(p.blocks))

\* The last block of the answer has come, and nothing is left of it that a
\* function would wait for.
Spent(p) == /\ \A b \in 0 .. Len(p.blocks) - 1 : Ends(p.blocks)[b] < p.at
            /\ \A k \in p.at + 1 .. Whole(p) : Text(p.blocks)[k].s \notin Awaited

\* Where a function starts, and a handler: behind its match string.
Start(prompt) == [blocks |-> <<>>, at |-> 0, nums |-> <<>>, got |-> <<>>,
                  ret |-> "SUCCEEDED", done |-> TRUE, prompted |-> prompt]
Heard(bs, h) == [Start(FALSE) EXCEPT !.blocks = bs, !.at = h]

\* Answer r is on its way, to a command line and to data.
Told(p, r) == [p EXCEPT !.blocks = r.blocks, !.at = 0, !.done = @ /\ r.done, !.prompted = r.done]
Fed(p, r)  == [p EXCEPT !.blocks = r.blocks, !.at = 0, !.done = @ /\ r.done]

\* Read as far as place q: thrown away, as a number, as text.
ReadTo(p, q) == [p EXCEPT !.at = q]
Number(p, q) == LET n == Text(p.blocks)[q].n
                IN  [p EXCEPT !.at = q, !.nums = Append(@, n), !.ret = Retcode(n)]
Took(p, q, s) == [p EXCEPT !.at = q, !.got = @ \o s]

\* The function called has returned code c at point x.
Back(p, x, c) == [p EXCEPT !.blocks = <<>>, !.at = 0, !.ret = c,
                           !.done = @ /\ x.done, !.prompted = x.prompted]

Exits == Code \cup {"return"}
CodeAt(l, p) == IF l = "return" THEN p.ret ELSE l

-----------------------------------------------------------------------------
(* Each instruction leads from its points to points of the next *)

StopStrings(i) ==
  EventHeads \cup {i.arg[k] : k \in DOMAIN i.arg}
    \cup (IF i.ok THEN {"OK"} ELSE {}) \cup (IF i.err THEN {"ERROR"} ELSE {})

RespondsTo(i, s, r) ==
  \/ \E k \in DOMAIN i.arg :
        s = i.arg[k] /\ r = <<"MATCH_1ST", "MATCH_2ND", "MATCH_3RD">>[k]
  \/ i.ok /\ s = "OK" /\ r = "OK"
  \/ i.err /\ s = "ERROR" /\ r = "ERROR"

\* A wait goes on behind the first string it stops at; a function whose answer
\* has none runs out of time.  It may have thrown away whole blocks when it is
\* interrupted, by an event that has nothing in front of its head to stop at.
WaitLeads(t, l, p, i) ==
  LET found == FirstAfter(p.blocks, p.at, StopStrings(i))
      text  == Text(p.blocks)
  IN  /\ \A q \in found :
           /\ text[q].s \notin EventHeads
           /\ \A r \in Response :
                RespondsTo(i, text[q].s, r) => ReadTo(p, q) \in Points(t, i.goto[r])
      /\ found = {} => t \notin HandlerTasks
      /\ t \notin HandlerTasks =>
           /\ found = {} => ReadTo(p, Whole(p)) \in Points(t, i.goto["TIMEOUT"])
           /\ \A q \in p.at .. Whole(p) :
                Cut(p.blocks, q) /\ (\A k \in p.at + 1 .. q : text[k].s \notin StopStrings(i))
                  => ReadTo(p, q) \in Points(t, l)
           /\ \A bs \in EventBlocks : \A k \in 1 .. Len(Text(bs)) :
                (\A n \in 1 .. k : Text(bs)[n].s \notin EventHeads)
                  => Text(bs)[k].s \notin StopStrings(i)

\* listen() may end at any time, so there must be nothing to wait for; what a
\* wait stops at is Awaited, and clear() stops at OK and ERROR.
PollLeads(p, i) ==
  /\ i.op = "listen" => Spent(p)
  /\ StopStrings(i) \subseteq EventHeads \cup Awaited

SendLeads(t, p, i) ==
  /\ t \notin HandlerTasks /\ Spent(p)
  /\ i.op = "send" => \A r \in Replies[i.arg[1]] : Told(p, r) \in Points(t, i.goto["OK"])
  /\ i.op = "put" => \A r \in IF p.prompted THEN Replies[i.arg[1]] ELSE {Mute} :
                        Fed(p, r) \in Points(t, i.goto["OK"])

\* The other reads do not wait for more than the block they are in.
Nearest(p, strings) == {q \in FirstAfter(p.blocks, p.at, strings) : InBlock(p.blocks, p.at, q)}

FindLeads(t, p, i) == \E q \in Nearest(p, Having(i.arg[1])) :
                        ReadTo(p, q) \in Points(t, i.goto["OK"])

IntLeads(t, p, i) == \E q \in Nearest(p, {"int"}) : Number(p, q) \in Points(t, i.goto["OK"])

BytesLeads(t, p, i) ==
  /\ i.k # 0 => i.k \in DOMAIN p.nums
  /\ LET q == p.at + (IF i.k = 0 THEN 1 ELSE p.nums[i.k])
     IN  /\ InBlock(p.blocks, p.at, q)
         /\ Took(p, q, Between(p.blocks, p.at, q)) \in Points(t, i.goto["OK"])

LineLeads(t, p, i) ==
  \E q \in Nearest(p, Having("NL")) :
    LET head == IF i.op = "line" THEN <<MatchString[t]>> ELSE <<>>
        text == Between(p.blocks, p.at, IF Text(p.blocks)[q].s = "NL" THEN q - 1 ELSE q)
    IN  Took(p, q, head \o text) \in Points(t, i.goto[IF text = <<>> THEN "TIMEOUT" ELSE "OK"])

\* The function called has an outline, and every way it ends has a next point.
CallLeads(t, p, i) ==
  LET f == i.arg[1]
  IN  /\ t \notin HandlerTasks /\ Spent(p)
      /\ f \in Outlined
      /\ \A l \in Exits : \A x \in Points(f, l) :
           LET c == CodeAt(l, x)
               r == IF c \in {"SUCCEEDED", "TRUE"} THEN "OK" ELSE "ERROR"
           IN  Back(p, x, c) \in Points(t, i.goto[r])

Leads(t, l, p) ==
  LET i == Script[t][l]
  IN  /\ i.op \in {"wait", "clear", "listen"} => WaitLeads(t, l, p, i) /\ PollLeads(p, i)
      /\ i.op \in {"send", "put"} => SendLeads(t, p, i)
      /\ i.op = "find"  => FindLeads(t, p, i)
      /\ i.op = "int"   => IntLeads(t, p, i)
      /\ i.op = "bytes" => BytesLeads(t, p, i)
      /\ i.op \in {"until", "line"} => LineLeads(t, p, i)
      /\ i.op = "call"  => CallLeads(t, p, i)

\* A function starts with no answer in front of it, a handler behind the head
\* of each event it is for.
Starts(t) ==
  IF t \in HandlerTasks
  THEN \A bs \in EventBlocks : \A h \in 1 .. Len(Text(bs)) :
         Text(bs)[h].s = MatchString[t] => Heard(bs, h) \in Points(t, "go")
  ELSE \A prompt \in BOOLEAN : Start(prompt) \in Points(t, "go")

\* A handler has read its event to the end and makes of it what it says; a
\* function has read its answer, and its code says what the modem did.
Finishes(t, l, p) ==
  IF t \in HandlerTasks
  THEN p.at = Whole(p) /\ Intact[t] = [nums |-> p.nums, got |-> p.got]
  ELSE /\ Spent(p)
       /\ CodeAt(l, p) \in {"SUCCEEDED", "TRUE"} => p.done
       /\ p.done => CodeAt(l, p) \in {"SUCCEEDED", "TRUE", "OUT_OF_MEMORY", "ABSENT", "COUNT"}

\* The points of a function are in answers, those of a handler in events, of
\* which the head has been read.
Belongs(t, p) ==
  IF t \in HandlerTasks
  THEN /\ p.blocks \in EventBlocks /\ p.done
       /\ p.at >= 1
       /\ \A k \in p.at + 1 .. Whole(p) : Text(p.blocks)[k].s \notin EventHeads
  ELSE p.blocks \in AnswerBlocks

\* Every outline is closed.
ASSUME OutlineAssumption ==
  \A t \in Outlined :
    /\ t \in DOMAIN Script
    /\ Starts(t)
    /\ \A l \in Label(t) : \A p \in Points(t, l) :
         p \in Point /\ p.at <= Whole(p) /\ Belongs(t, p)
    /\ \A l \in DOMAIN Script[t] : \A p \in Points(t, l) : Leads(t, l, p)
    /\ \A l \in Exits : \A p \in Points(t, l) : Finishes(t, l, p)
=============================================================================
