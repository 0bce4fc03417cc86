----------------------------- MODULE ModemSerial -----------------------------
(***************************************************************************)
(* The serial driver every client of the library shares: modem_serial.h    *)
(* with its two ports, modem_serial_arduino.h and modem_serial_esp.h.      *)
(*                                                                         *)
(* One thread runs.  It is inside a function of src/commands, whose script *)
(* it executes, and inside waitResponse() it may find the match string of  *)
(* an event handler: the handler's process() then runs at once, reading    *)
(* from the same stream and calling waitResponse() in turn.  The functions *)
(* being executed are a stack of frames.  The modem answers in its own     *)
(* time and reports events whenever they happen; what it has sent waits in *)
(* the UART.                                                               *)
(***************************************************************************)
EXTENDS AtScript, FiniteSets

CONSTANTS Port,         \* "Arduino" or "ESP": which of the two ports is built
          Script,       \* task -> script: the command functions and handlers
          Replies,      \* command -> the answers the modem may give
          Events,       \* event -> the blocks the modem sends for it
          Tasks,        \* the functions the application calls
          Intact,       \* handler -> what it reads from an undisturbed event
          Handlers,     \* _event_handlers, in the order registered
          MatchString,  \* handler -> the string it is registered for
          Interleaved,  \* may an answer come between two blocks of an event
          MaxCalls,     \* bound: functions the application calls
          MaxEvents,    \* bound: events
          MaxEarly,     \* bound: timeouts before an answer that still comes
          MaxCuts       \* bound: timeouts inside the header of an event

ASSUME PortAssumption == Port \in {"Arduino", "ESP"}
ASSUME BoundsAssumption == /\ MaxCalls \in Nat /\ MaxEvents \in Nat
                           /\ MaxEarly \in Nat /\ MaxCuts \in Nat
                           /\ Interleaved \in BOOLEAN

HandlerTasks == {Handlers[i] : i \in DOMAIN Handlers}
EventHeads == {MatchString[h] : h \in HandlerTasks}

\* What is left of a head of which the first half was thrown away: it is none.
Rest == "rest"
ASSUME RestAssumption == Rest \in STRING \ EventHeads

\* The labels of a script, at which its function goes on or returns.
Label(task) == DOMAIN Script[task] \cup Code \cup {"return"}

\* Scripts are closed: what they go on with, call and send exists.  Handlers
\* are called by the driver alone.
ASSUME ScriptAssumption ==
  /\ Tasks \subseteq DOMAIN Script \ HandlerTasks
  /\ Handlers \in Seq(DOMAIN Script)
  /\ \A i \in DOMAIN Handlers : MatchString[Handlers[i]] \in STRING
  /\ \A t \in DOMAIN Script :
       /\ DOMAIN Script[t] \cap (Code \cup {"return"}) = {}
       /\ "go" \in DOMAIN Script[t]
       /\ \A l \in DOMAIN Script[t] :
            /\ Script[t][l].op \in Op
            /\ Script[t][l].arg \in Seq(STRING)
            /\ Script[t][l].goto \in [Response -> Label(t)]
            /\ Script[t][l].op = "call" =>
                 Script[t][l].arg[1] \in DOMAIN Script \ HandlerTasks
            /\ Script[t][l].op \in {"send", "put"} => Script[t][l].arg[1] \in DOMAIN Replies
            /\ Script[t][l].op = "line" => MatchString[t] \in STRING

Block == Seq([s : STRING, n : Nat])

ASSUME BlocksAssumption ==
  /\ \A c \in DOMAIN Replies : \A r \in Replies[c] : r.blocks \in Seq(Block) /\ r.done \in BOOLEAN
  /\ \A e \in DOMAIN Events : Events[e] \in Seq(Block) \ {<<>>}

VARIABLES uart,       \* what the modem sent and nobody has read
          ring,       \* _buf of the ESP port: read from the UART, still readable
          stack,      \* the functions being executed, innermost last
          owed,       \* blocks of answers the modem has still to send
          pending,    \* blocks of an event the modem has begun to send
          sent,       \* command lines sent; an answer carries the number of its own
          prompted,   \* it did what the last one asks: prompt for data, too
          done,       \* the modem did all that the current call asked for
          result,     \* how the last call of the application ended
          answer,     \* the last lexeme a response or number was taken from
          delivered,  \* what the last event handler read
          lost,       \* events whose handler never saw them
          handled,    \* events whose handlers have returned
          calls, events, early, cuts  \* counted against the bounds

wire == <<uart, ring>>
modem == <<owed, pending, events>>
command == <<sent, prompted>>
ghost == <<done, result, answer, delivered, lost, handled>>
spent == <<calls, early, cuts>>
vars == <<wire, stack, modem, command, ghost, spent>>

\* A function that starts, and its place in _event_handlers if it is a handler.
Frame(task, place) == [task |-> task, place |-> place, pc |-> "go",
                       nums |-> <<>>, got |-> <<>>, ret |-> "SUCCEEDED"]

None == [task |-> "none", code |-> "SUCCEEDED", done |-> TRUE]

Init == /\ uart = <<>> /\ ring = <<>> /\ stack = <<>>
        /\ owed = <<>> /\ pending = <<>>
        /\ sent = 0 /\ prompted = FALSE
        /\ done = TRUE
        /\ result = None
        /\ answer = [by |-> "none", of |-> 0, cmd |-> 0]
        /\ delivered = [task |-> "none", nums |-> <<>>, got |-> <<>>]
        /\ lost = 0 /\ handled = 0
        /\ calls = 0 /\ events = 0 /\ early = 0 /\ cuts = 0

-----------------------------------------------------------------------------
\* Lexemes of the answer to command number c, or of an event (number 0).
Tag(block, c) == [i \in DOMAIN block |-> [s |-> block[i].s, n |-> block[i].n, of |-> c]]
TagAll(blocks, c) == [i \in DOMAIN blocks |-> Tag(blocks[i], c)]

top == stack[Len(stack)]
instr == Script[top.task][top.pc]

\* The innermost function is about to execute an instruction of these kinds.
Runs(ops) == /\ stack # <<>>
             /\ top.pc \in DOMAIN Script[top.task]
             /\ instr.op \in ops

InHandler == top.task \in HandlerTasks

\* The innermost function goes on as frame f, which has had response r.
Resume(f, r) == stack' = [stack EXCEPT ![Len(stack)] = [f EXCEPT !.pc = instr.goto[r]]]

\* What a reader skips is not looked at for the heads of events.
Heads(s) == Cardinality({i \in DOMAIN s : s[i].s \in EventHeads})
From(s, j) == SubSeq(s, j, Len(s))
ReadAway(j) == /\ uart' = From(uart, j + 1)
               /\ lost' = lost + Heads(SubSeq(uart, 1, j))

\* Reads other than waitResponse() take the ring first, then the UART.
Stream == ring \o uart
Consume(j) == /\ ring' = From(ring, j + 1)
              /\ ReadAway(IF j <= Len(ring) THEN 0 ELSE j - Len(ring))

\* The first lexeme of s that is one of these strings, if there is one.
First(s, strings) == {j \in DOMAIN s : /\ s[j].s \in strings
                                       /\ \A i \in 1 .. j - 1 : s[i].s \notin strings}

-----------------------------------------------------------------------------
(* The application *)

Call(task) == /\ stack = <<>>
              /\ calls < MaxCalls
              /\ calls' = calls + 1
              /\ stack' = <<Frame(task, 0)>>
              /\ done' = TRUE
              /\ UNCHANGED <<wire, modem, command, result, answer, delivered, lost,
                             handled, early, cuts>>

\* A slip: the answer is awaited before the command is counted.
SendCommand_NotCounted ==
  /\ Runs({"send"})
  /\ \E r \in Replies[instr.arg[1]] :
       /\ owed' = owed \o TagAll(r.blocks, sent + 1)
       /\ prompted' = r.done
       /\ done' = (done /\ r.done)
  /\ Resume(top, "OK")
  /\ UNCHANGED <<wire, pending, events, sent, result, answer, delivered,
                 lost, handled, spent>>

\* sendCMD() and write(): the modem will answer, in its own time.  Nothing
\* the UART still holds is read away first.
SendCommand == /\ Runs({"send"})
               /\ \E r \in Replies[instr.arg[1]] :
                    /\ owed' = owed \o TagAll(r.blocks, sent + 1)
                    /\ prompted' = r.done
                    /\ done' = (done /\ r.done)
               /\ sent' = sent + 1
               /\ Resume(top, "OK")
               /\ UNCHANGED <<wire, pending, events, result, answer, delivered,
                              lost, handled, spent>>

\* A modem that did not prompt for data takes none.
WriteData == /\ Runs({"put"})
             /\ \E r \in IF prompted THEN Replies[instr.arg[1]] ELSE {Mute} :
                  /\ owed' = owed \o TagAll(r.blocks, sent)
                  /\ done' = (done /\ r.done)
             /\ Resume(top, "OK")
             /\ UNCHANGED <<wire, pending, events, command, result, answer,
                            delivered, lost, handled, spent>>

-----------------------------------------------------------------------------
(* The modem *)

SendAnswer == /\ owed # <<>>
              /\ Interleaved \/ pending = <<>>
              /\ uart' = uart \o Head(owed)
              /\ owed' = Tail(owed)
              /\ UNCHANGED <<ring, stack, pending, events, command, ghost, spent>>

Event(e) == /\ pending = <<>>
            /\ events < MaxEvents
            /\ events' = events + 1
            /\ pending' = TagAll(Events[e], 0)
            /\ UNCHANGED <<wire, stack, owed, command, ghost, spent>>

SendEvent == /\ pending # <<>>
             /\ uart' = uart \o Head(pending)
             /\ pending' = Tail(pending)
             /\ UNCHANGED <<ring, stack, owed, events, command, ghost, spent>>

-----------------------------------------------------------------------------
(* waitResponse *)

\* The response a string makes waitResponse() return.
Responds(s, r) ==
  \/ \E k \in DOMAIN instr.arg :
        s = instr.arg[k] /\ r = <<"MATCH_1ST", "MATCH_2ND", "MATCH_3RD">>[k]
  \/ instr.ok /\ s = "OK" /\ r = "OK"
  \/ instr.err /\ s = "ERROR" /\ r = "ERROR"

\* The strings at which waitResponse() stops reading.
Stops == EventHeads \cup {instr.arg[k] : k \in DOMAIN instr.arg}
           \cup (IF instr.ok THEN {"OK"} ELSE {}) \cup (IF instr.err THEN {"ERROR"} ELSE {})

\* A slip: find() looks for events as well.
Waiting_AlsoFinds == Runs({"wait", "clear", "listen", "find"})

Waiting == Runs({"wait", "clear", "listen"})

\* A response: everything before it has been read and thrown away.
Respond ==
  /\ Waiting
  /\ \E j \in First(uart, Stops) :
       /\ uart[j].s \notin EventHeads
       /\ \E r \in Response : Responds(uart[j].s, r) /\ Resume(top, r)
       /\ uart' = From(uart, j + 1)
       /\ answer' = IF instr.op = "wait"
                    THEN [by |-> top.task, of |-> uart[j].of, cmd |-> sent] ELSE answer
  /\ ring' = <<>>
  /\ UNCHANGED <<modem, command, done, result, delivered, lost, handled, spent>>

\* The first handler for a string in _event_handlers after place i.
NextFor(s, i) == {k \in DOMAIN Handlers : /\ k > i /\ MatchString[Handlers[k]] = s
                                          /\ \A m \in i + 1 .. k - 1 : MatchString[Handlers[m]] # s}

\* A slip: the match is not removed from the window when it has been found.
Dispatch_KeepsMatch ==
  /\ Waiting
  /\ \E j \in First(uart, Stops) :
       /\ uart[j].s \in EventHeads
       /\ \E k \in NextFor(uart[j].s, 0) : stack' = Append(stack, Frame(Handlers[k], k))
       /\ uart' = From(uart, j)
       /\ ring' = IF Port = "ESP" THEN ring \o SubSeq(uart, 1, j) ELSE <<>>
  /\ UNCHANGED <<modem, command, ghost, spent>>

\* An event: process() starts while what led to it is still in the ring.
Dispatch ==
  /\ Waiting
  /\ \E j \in First(uart, Stops) :
       /\ uart[j].s \in EventHeads
       /\ \E k \in NextFor(uart[j].s, 0) : stack' = Append(stack, Frame(Handlers[k], k))
       /\ uart' = From(uart, j + 1)
       /\ ring' = IF Port = "ESP" THEN ring \o SubSeq(uart, 1, j) ELSE <<>>
  /\ UNCHANGED <<modem, command, ghost, spent>>

-----------------------------------------------------------------------------
(* The other reads *)

\* The strings a character is in: "OK" and "ERROR" stand for strings that end
\* in a line break.
Having(c) == IF c = "NL" THEN {"NL", "OK", "ERROR"} ELSE {c}

findChar ==
  /\ Runs({"find"})
  /\ \E j \in First(Stream, Having(instr.arg[1])) :
       Consume(j)
  /\ Resume(top, "OK")
  /\ UNCHANGED <<modem, command, done, result, answer, delivered, handled, spent>>

Retcode(n) == IF n = 0 THEN "SUCCEEDED" ELSE "NONZERO"

\* The ESP port starts by emptying the ring, and leaves in it the character
\* after the number; the Arduino port leaves that one in the UART.
parseInt ==
  /\ Runs({"int"})
  /\ \E j \in First(uart, {"int"}) :
       LET next == IF Port = "ESP" THEN SubSeq(uart, j + 1, j + 1) ELSE <<>>
       IN  /\ j + 1 <= Len(uart)
           /\ ring' = next
           /\ ReadAway(j + Len(next))
           /\ answer' = [by |-> top.task, of |-> uart[j].of, cmd |-> sent]
           /\ Resume([top EXCEPT !.nums = Append(@, uart[j].n),
                                 !.ret = Retcode(uart[j].n)], "OK")
  /\ UNCHANGED <<modem, command, done, result, delivered, handled, spent>>

Texts(s) == [i \in DOMAIN s |-> s[i].s]

Amount == IF instr.k = 0 THEN 1 ELSE top.nums[instr.k]

readBytes ==
  /\ Runs({"bytes"})
  /\ LET n == Amount
     IN  /\ n \in 0 .. Len(Stream)
         /\ Consume(n)
         /\ Resume([top EXCEPT !.got = @ \o Texts(SubSeq(Stream, 1, n))], "OK")
  /\ UNCHANGED <<modem, command, done, result, answer, delivered, handled, spent>>

\* readBytesUntil('\r'), and the loop of GNSSOnNMEAMessage::process, which puts
\* the match string in front and has no timeout.  A sentence is shorter than
\* NMEA_MESSAGE_SIZE, and its LF there with its CR.
readLine ==
  /\ Runs({"until", "line"})
  /\ \E j \in First(Stream, Having("NL")) :
       LET head == IF instr.op = "line" THEN <<MatchString[top.task]>> ELSE <<>>
           text == Texts(SubSeq(Stream, 1, IF Stream[j].s = "NL" THEN j - 1 ELSE j))
       IN  /\ Consume(j)
           /\ Resume([top EXCEPT !.got = @ \o head \o text],
                     IF text = <<>> THEN "TIMEOUT" ELSE "OK")
  /\ UNCHANGED <<modem, command, done, result, answer, delivered, handled, spent>>

-----------------------------------------------------------------------------
(* Control *)

CallFunction == /\ Runs({"call"})
                /\ stack' = Append(stack, Frame(instr.arg[1], 0))
                /\ UNCHANGED <<wire, modem, command, ghost, spent>>

Returns == stack # <<>> /\ top.pc \notin DOMAIN Script[top.task]
Returned == IF top.pc = "return" THEN top.ret ELSE top.pc

ReturnToApplication ==
  /\ Returns
  /\ Len(stack) = 1
  /\ result' = [task |-> top.task, code |-> Returned, done |-> done]
  /\ stack' = <<>>
  /\ UNCHANGED <<wire, modem, command, done, answer, delivered, lost, handled, spent>>

ReturnToCaller ==
  /\ Returns
  /\ Len(stack) > 1
  /\ ~InHandler
  /\ LET f == stack[Len(stack) - 1]
         call == Script[f.task][f.pc]
         r == IF Returned \in {"SUCCEEDED", "TRUE"} THEN "OK" ELSE "ERROR"
     IN  stack' = Append(SubSeq(stack, 1, Len(stack) - 2),
                         [f EXCEPT !.ret = Returned, !.pc = call.goto[r]])
  /\ UNCHANGED <<wire, modem, command, ghost, spent>>

\* process() returns into the loop over _event_handlers of the waitResponse()
\* that found the event.  The Arduino port goes on to the next handler for the
\* same string; the ESP port empties the ring and ends the loop.
ReturnFromHandler ==
  /\ Returns
  /\ Len(stack) > 1
  /\ InHandler
  /\ delivered' = [task |-> top.task, nums |-> top.nums, got |-> top.got]
  /\ LET more == IF Port = "Arduino" THEN NextFor(MatchString[top.task], top.place) ELSE {}
         below == SubSeq(stack, 1, Len(stack) - 1)
     IN  /\ handled' = IF more = {} THEN handled + 1 ELSE handled
         /\ stack' = IF more = {} THEN below
                     ELSE LET k == CHOOSE k \in more : TRUE
                          IN  Append(below, Frame(Handlers[k], k))
  /\ ring' = <<>>
  /\ UNCHANGED <<uart, modem, command, done, result, answer, lost, spent>>

-----------------------------------------------------------------------------
(* Timeouts *)

Lacks(s, strings) == \A j \in DOMAIN s : s[j].s \notin strings

\* The instruction cannot complete with what has arrived.
Starved ==
  CASE instr.op \in {"wait", "clear", "listen"} -> Lacks(uart, Stops)
    [] instr.op = "find"  -> Lacks(Stream, Having(instr.arg[1]))
    [] instr.op = "int"   -> Lacks(uart, {"int"})
    [] instr.op = "bytes" -> Len(Stream) < Amount
    [] instr.op = "until" -> Lacks(Stream, Having("NL"))
    [] OTHER -> FALSE

\* Either nothing more is coming, or the time is up before the modem is: then
\* the budget pays.  listen() is a poll, whose time is up at any moment.
TimeIsUp == /\ Starved
            /\ \/ instr.op = "listen" /\ UNCHANGED early
               \/ owed = <<>> /\ pending = <<>> /\ UNCHANGED early
               \/ early < MaxEarly /\ owed # <<>> /\ early' = early + 1

\* waitResponse() drops what it has read of a line, the ESP port its ring.
WaitTimesOut == /\ Waiting
                /\ TimeIsUp
                /\ uart' = <<>> /\ ring' = <<>>
                /\ Resume(top, "TIMEOUT")
                /\ UNCHANGED <<modem, command, ghost, calls, cuts>>

\* ... and when the head of an event is just arriving, half of it: what is
\* left of the head matches nothing.
WaitTimesOutInEvent(e) ==
  /\ Waiting
  /\ cuts < MaxCuts /\ events < MaxEvents /\ pending = <<>>
  /\ Starved /\ (owed = <<>> \/ instr.op = "listen")
  /\ uart' = <<>> /\ ring' = <<>>
  /\ events' = events + 1
  /\ cuts' = cuts + 1
  /\ pending' = [TagAll(Events[e], 0) EXCEPT ![1] =
                   [i \in DOMAIN @ |-> IF @[i].s \in EventHeads
                                       THEN [@[i] EXCEPT !.s = Rest] ELSE @[i]]]
  /\ lost' = lost + Heads(TagAll(Events[e], 0)[1])
  /\ Resume(top, "TIMEOUT")
  /\ UNCHANGED <<owed, command, done, result, answer, delivered, handled, calls, early>>

\* What a read that ran out of time hands on: readBytesUntil() of the ESP port
\* throws away what it got, and every other one returns it.
Kept == IF instr.op = "until" /\ Port = "ESP" THEN <<>> ELSE Stream

\* A slip: find() waits as long as it takes.
ReadTimesOut_FindWaits ==
  /\ Runs({"int", "bytes", "until"})
  /\ TimeIsUp
  /\ ReadAway(Len(uart)) /\ ring' = <<>>
  /\ Resume(CASE instr.op = "int"  -> [top EXCEPT !.nums = Append(@, 0), !.ret = "SUCCEEDED"]
              [] instr.op = "find" -> top
              [] OTHER             -> [top EXCEPT !.got = @ \o Texts(Kept)],
            IF instr.op = "until" /\ Kept # <<>> THEN "OK" ELSE "TIMEOUT")
  /\ UNCHANGED <<modem, command, done, result, answer, delivered, handled, calls, cuts>>

\* The other reads have consumed what there was; a number not found is 0.
ReadTimesOut ==
  /\ Runs({"find", "int", "bytes", "until"})
  /\ TimeIsUp
  /\ ReadAway(Len(uart)) /\ ring' = <<>>
  /\ Resume(CASE instr.op = "int"  -> [top EXCEPT !.nums = Append(@, 0), !.ret = "SUCCEEDED"]
              [] instr.op = "find" -> top
              [] OTHER             -> [top EXCEPT !.got = @ \o Texts(Kept)],
            IF instr.op = "until" /\ Kept # <<>> THEN "OK" ELSE "TIMEOUT")
  /\ UNCHANGED <<modem, command, done, result, answer, delivered, handled, calls, cuts>>

-----------------------------------------------------------------------------
Read == Respond \/ Dispatch \/ findChar \/ parseInt \/ readBytes \/ readLine

Control == \/ SendCommand \/ WriteData
           \/ CallFunction
           \/ ReturnToApplication \/ ReturnToCaller \/ ReturnFromHandler

Expire == \/ WaitTimesOut \/ ReadTimesOut
          \/ \E e \in DOMAIN Events : WaitTimesOutInEvent(e)

\* The application has made its last call and the modem has said everything.
Quiet == /\ stack = <<>> /\ calls = MaxCalls
         /\ owed = <<>> /\ pending = <<>>
         /\ UNCHANGED vars

Next == \/ \E task \in Tasks : Call(task)
        \/ \E e \in DOMAIN Events : Event(e)
        \/ SendAnswer \/ SendEvent
        \/ Read \/ Control \/ Expire
        \/ Quiet

Spec == Init /\ [][Next]_vars

\* The thread runs whenever it can, time passes, and the modem finishes what
\* it has begun to send.  Nothing makes the application call, or an event
\* happen.
FairSpec == /\ Spec
            /\ WF_vars(Read \/ Control \/ Expire)
            /\ WF_vars(SendAnswer) /\ WF_vars(SendEvent)

-----------------------------------------------------------------------------
Lexeme == [s : STRING, n : Nat, of : 0 .. sent]
Frames == [task : DOMAIN Script, place : Nat, pc : UNION {Label(t) : t \in DOMAIN Script},
           nums : Seq(Nat), got : Seq(STRING), ret : Code]

\* An answer or an event is never tagged with a command not sent yet, and a
\* function is always at a label of its own script.
TypeOK == /\ uart \in Seq(Lexeme) /\ ring \in Seq(Lexeme)
          /\ owed \in Seq(Seq(Lexeme)) /\ pending \in Seq(Seq(Lexeme))
          /\ stack \in Seq(Frames)
          /\ \A i \in DOMAIN stack : stack[i].pc \in Label(stack[i].task)
          /\ sent \in Nat /\ lost \in Nat /\ handled \in Nat
          /\ done \in BOOLEAN /\ prompted \in BOOLEAN
          /\ calls \in 0 .. MaxCalls /\ events \in 0 .. MaxEvents
          /\ early \in 0 .. MaxEarly /\ cuts \in 0 .. MaxCuts

\* Whether frame f is at an instruction of one of these kinds.
IsAt(f, ops) == f.pc \in DOMAIN Script[f.task] /\ Script[f.task][f.pc].op \in ops

\* An event handler runs inside a waitResponse() and nowhere else: no other
\* read is interrupted with its result half taken.  Every other function runs
\* inside the call of the one below.
HandlersRunInWaits ==
  \A i \in DOMAIN stack \ {1} :
    IF stack[i].task \in HandlerTasks
    THEN IsAt(stack[i - 1], {"wait", "clear", "listen"})
    ELSE IsAt(stack[i - 1], {"call"})

\* Every response and number a command function goes by was sent for the
\* command line it sent last, not for an earlier one and not for an event.
\* sendCMD() does not empty the UART, so this depends on each function having
\* read its answer to the end.
NoStaleAnswer == answer.by \notin HandlerTasks => answer.of = answer.cmd

\* The strings that a wait of any function takes for a response.
Awaited == {"OK", "ERROR"} \cup
  UNION {{i.arg[k] : k \in DOMAIN i.arg} :
           i \in {j \in UNION {{Script[t][l] : l \in DOMAIN Script[t]} : t \in DOMAIN Script} :
                    j.op = "wait"}}

\* A function returns only when it has read its answer to the end: the modem has
\* nothing of it still to send, and the UART holds nothing of it that a wait of
\* another function would take for its own response.
AnswerReadOut ==
  stack = <<>> => /\ owed = <<>>
                  /\ \A i \in DOMAIN uart : uart[i].of # 0 => uart[i].s \notin Awaited

\* Every response and number an event handler goes by belongs to the event.
\* Its waitResponse() calls look for OK and ERROR as well, which belong to
\* the function that was interrupted.
HandlersReadEvents == answer.by \in HandlerTasks => answer.of = 0

\* Success is reported only when the modem did all it was asked to.
SuccessIsReal == result.code \in {"SUCCEEDED", "TRUE"} => result.done

\* ... and what the modem did is reported as success, unless the caller's
\* memory is too small for the answer, or something is looked for and absent.
DoneIsReported ==
  result.done => result.code \in {"SUCCEEDED", "TRUE", "OUT_OF_MEMORY", "ABSENT", "COUNT"}

\* "need to be captured as they occur, to avoid them being lost in the output
\* of other AT commands": no function reads the head of an event away.
NoEventLost == lost = 0

\* Every event announces itself once, at its beginning, and an answer announces
\* none.
AnnouncedOnce ==
  /\ \A e \in DOMAIN Events :
       /\ Heads(Events[e][1]) = 1
       /\ \A i \in 2 .. Len(Events[e]) : Heads(Events[e][i]) = 0
  /\ \A c \in DOMAIN Replies : \A r \in Replies[c] :
       \A i \in 1 .. Len(r.blocks) : Heads(r.blocks[i]) = 0

\* Every event of which the head was sent is, once: waiting in the UART, or
\* being handled, or handled, or lost.
EventsAccounted ==
  Heads(uart) + Cardinality({i \in DOMAIN stack : stack[i].task \in HandlerTasks})
    + (IF pending = <<>> THEN 0 ELSE Heads(Head(pending)))
    + handled + lost = events

\* A handler delivers exactly what its event said, whatever was in the stream
\* before it and whichever function it interrupted.
DeliveredIntact ==
  delivered.task \in HandlerTasks =>
    Intact[delivered.task] = [nums |-> delivered.nums, got |-> delivered.got]

\* Every call of the application returns: no wait is without a timeout, and no
\* two of them wait for each other.
CallsReturn == stack # <<>> ~> stack = <<>>
=============================================================================
