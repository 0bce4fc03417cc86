------------------------------ MODULE MCOutline ------------------------------
(***************************************************************************)
(* The outline of the library: the points its functions come to, found by  *)
(* letting each read every answer to the end, and its handlers every event. *)
(***************************************************************************)
EXTENDS MCSerial, AnswerOutline

RECURSIVE Joined(_)
Joined(bs) == IF bs = <<>> THEN <<>> ELSE Head(bs) \o Joined(Tail(bs))

LibraryEnds(bs) == [b \in 0 .. Len(bs) |-> Len(Joined(SubSeq(bs, 1, b)))]

\* Blocks that a wait may throw away before it is interrupted.
Skipped(p, i) ==
  {ReadTo(p, q) : q \in {q \in p.at .. Whole(p) :
     /\ Cut(p.blocks, q)
     /\ \A k \in p.at + 1 .. q : Text(p.blocks)[k].s \notin StopStrings(i)}}

Found(p, i) ==
  UNION {{<<i.goto[r], ReadTo(p, q)>> :
            r \in {r \in Response : RespondsTo(i, Text(p.blocks)[q].s, r)}} :
         q \in FirstAfter(p.blocks, p.at, StopStrings(i))}

LineFrom(t, p, i, q) ==
  LET head == IF i.op = "line" THEN <<MatchString[t]>> ELSE <<>>
      text == Between(p.blocks, p.at, IF Text(p.blocks)[q].s = "NL" THEN q - 1 ELSE q)
  IN  <<i.goto[IF text = <<>> THEN "TIMEOUT" ELSE "OK"], Took(p, q, head \o text)>>

RECURSIVE Reached(_, _, _)

StartPoints(t) ==
  {<<"go", x>> : x \in IF t \in HandlerTasks
     THEN UNION {{Heard(bs, h) : h \in {h \in 1 .. Len(Text(bs)) :
                                          Text(bs)[h].s = MatchString[t]}} : bs \in EventBlocks}
     ELSE {Start(prompt) : prompt \in BOOLEAN}}

PointsOf(t) == Reached(t, {}, StartPoints(t))

\* Label and point pairs that instruction i of t leads to from label l, point p.
NextPoints(t, l, p, i) ==
  CASE i.op \in {"wait", "clear", "listen"} ->
         Found(p, i)
           \cup (IF t \in HandlerTasks THEN {} ELSE {<<l, x>> : x \in Skipped(p, i)})
           \cup (IF t \in HandlerTasks \/ Found(p, i) # {} THEN {}
                 ELSE {<<i.goto["TIMEOUT"], ReadTo(p, Whole(p))>>})
    [] i.op = "send" -> {<<i.goto["OK"], Told(p, r)>> : r \in Replies[i.arg[1]]}
    [] i.op = "put"  -> {<<i.goto["OK"], Fed(p, r)>> :
                           r \in IF p.prompted THEN Replies[i.arg[1]] ELSE {Mute}}
    [] i.op = "find" -> {<<i.goto["OK"], ReadTo(p, q)>> : q \in Nearest(p, Having(i.arg[1]))}
    [] i.op = "int"  -> {<<i.goto["OK"], Number(p, q)>> : q \in Nearest(p, {"int"})}
    [] i.op = "bytes" ->
         LET q == p.at + (IF i.k = 0 THEN 1 ELSE p.nums[i.k])
         IN  IF ~InBlock(p.blocks, p.at, q) THEN {}
             ELSE {<<i.goto["OK"], Took(p, q, Between(p.blocks, p.at, q))>>}
    [] i.op \in {"until", "line"} -> {LineFrom(t, p, i, q) : q \in Nearest(p, Having("NL"))}
    [] i.op = "call" ->
         {LET c == CodeAt(x[1], x[2])
          IN  <<i.goto[IF c \in {"SUCCEEDED", "TRUE"} THEN "OK" ELSE "ERROR"], Back(p, x[2], c)>> :
            x \in {y \in PointsOf(i.arg[1]) : y[1] \in Exits}}

\* What is reached from the new points, when those in known have been followed.
Reached(t, known, new) ==
  IF new = {} THEN known
  ELSE LET next == UNION {NextPoints(t, x[1], x[2], Script[t][x[1]]) :
                            x \in {y \in new : y[1] \in DOMAIN Script[t]}}
       IN  Reached(t, known \cup new, next \ (known \cup new))

PointTable(t) ==
  LET points == PointsOf(t)
      At(l) == {x[2] : x \in {y \in points : y[1] = l}}
  IN  [l \in DOMAIN Script[t] |-> At(l)] @@ [l \in Exits |-> At(l)]

\* The functions that go right, and all handlers.
LibraryOutlined == CarefulTasks \cup HandlerTasks

PointTables == [t \in CarefulTasks |-> PointTable(t)] @@ [t \in HandlerTasks |-> PointTable(t)]

LibraryPoints(t, l) == PointTables[t][l]
=============================================================================
