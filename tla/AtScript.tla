------------------------------ MODULE AtScript ------------------------------
(***************************************************************************)
(* The vocabulary in which the functions of src/commands are written down. *)
(*                                                                         *)
(* What the modem sends is a stream of LEXEMES: the strings the library    *)
(* looks for (heads such as "+CMTI: ", the prompt, "OK" and "ERROR", which *)
(* end in a line break), numbers, commas, line breaks and data.  [s, n]    *)
(* is a lexeme and the value it has as a number.                           *)
(*                                                                         *)
(* A function is a SCRIPT: a function from labels to instructions, entered *)
(* at "go".  An instruction names what it reads or sends and, for every    *)
(* way it can end (a Response), the label to go on with.  A return code is *)
(* a label as well, and "return" returns the register ret, the value of    *)
(* the last parseInt() or the code of the last function called.            *)
(***************************************************************************)
EXTENDS Integers, Sequences

Response == {"OK", "MATCH_1ST", "MATCH_2ND", "MATCH_3RD", "ERROR", "TIMEOUT"}

\* The return codes of A76XX.h, and a positive code the modem reported.  With
\* them what functions of another type return: true and false, that something
\* is not there, and a count.
Code == {"SUCCEEDED", "TIMEDOUT", "GENERIC_ERROR", "OUT_OF_MEMORY",
         "ALREADY_STARTED", "ALREADY_STOPPED", "NONZERO",
         "TRUE", "FALSE", "ABSENT", "COUNT"}

Op == {"send", "put", "wait", "clear", "listen", "find", "int", "bytes",
       "until", "line", "call"}

\* Where a switch over the response goes: A76XX_GENERIC_ERROR by default.
Switch(f) == [r \in Response |-> IF r \in DOMAIN f THEN f[r] ELSE "GENERIC_ERROR"]

Always(next) == [r \in Response |-> next]

Instr(op, arg, ok, err, goto) ==
  [op |-> op, arg |-> arg, ok |-> ok, err |-> err, k |-> 0, goto |-> goto]

\* sendCMD: the modem gets a command line; write(): it gets data.
Send(cmd, next) == Instr("send", <<cmd>>, FALSE, FALSE, Always(next))
Put(cmd, next)  == Instr("put", <<cmd>>, FALSE, FALSE, Always(next))

\* waitResponse(match..., match_OK, match_ERROR) and what follows each response
Wait(match, ok, err, goto) == Instr("wait", match, ok, err, goto)

\* clear(): a waitResponse() whose response is not looked at
Clear(next) == Instr("clear", <<>>, TRUE, TRUE, Always(next))

\* listen(): waitResponse() with nothing to match, a poll for events
Listen(next) == Instr("listen", <<>>, FALSE, FALSE, Always(next))

Find(c, next)  == Instr("find", <<c>>, FALSE, FALSE, Always(next))
ParseInt(next) == Instr("int", <<>>, FALSE, FALSE, Always(next))

\* readBytes() of as many as the k-th number parsed, or of a text of fixed
\* length (k = 0, one lexeme): all of them arrived, or the time ran out
Bytes(k, full, short) ==
  [Instr("bytes", <<>>, FALSE, FALSE, [Always(full) EXCEPT !["TIMEOUT"] = short]) EXCEPT !.k = k]
\* GNSSOnNMEAMessage::process: character by character up to the line's end
ReadLine(next) == Instr("line", <<>>, FALSE, FALSE, Always(next))

\* readBytesUntil('\r')
Until(got, none) == Instr("until", <<>>, FALSE, FALSE,
                          [Always(got) EXCEPT !["TIMEOUT"] = none])

\* A call of another function, whose code ends up in the register ret: "OK"
\* when it succeeded or returned true.
CallTo(task, then, else) ==
  Instr("call", <<task>>, FALSE, FALSE, [Always(else) EXCEPT !["OK"] = then])

\* The calls of a client function: each but the first only if the one before
\* succeeded (A76XX_CLIENT_RETCODE_ASSERT_BOOL).
StepLabel == <<"go", "2nd", "3rd", "4th", "5th", "6th">>

InTurn(tasks) ==
  [l \in {StepLabel[i] : i \in DOMAIN tasks} |->
     LET i == CHOOSE i \in DOMAIN tasks : StepLabel[i] = l
     IN  CallTo(tasks[i], IF i = Len(tasks) THEN "TRUE" ELSE StepLabel[i + 1], "FALSE")]

\* A76XX_RESPONSE_PROCESS
RESPONSE_PROCESS == Switch([OK |-> "SUCCEEDED", TIMEOUT |-> "TIMEDOUT"])

\* A command answered by OK or ERROR alone.
Plain(cmd) == [go   |-> Send(cmd, "wait"),
               wait |-> Wait(<<>>, TRUE, TRUE, RESPONSE_PROCESS)]

-----------------------------------------------------------------------------
(* What the modem answers: blocks of lexemes, each sent in one piece, and   *)
(* whether it then has done what the command asks.                          *)

Lex(s) == [s |-> s, n |-> 0]
Num(n) == [s |-> "int", n |-> n]
NL     == Lex("NL")

\* A line of the modem begins and ends with a line break.
Line(ls) == <<NL>> \o ls \o <<NL>>
OK    == <<NL, Lex("OK")>>
ERROR == <<NL, Lex("ERROR")>>

Done(blocks)    == [blocks |-> blocks, done |-> TRUE]
Refused(blocks) == [blocks |-> blocks, done |-> FALSE]

\* No answer at all: the module is off, asleep or busy.
Mute == Refused(<<>>)

PlainReplies == {Done(<<OK>>), Refused(<<ERROR>>), Mute}
=============================================================================
