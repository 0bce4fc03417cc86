----------------------------- MODULE SmsCommands -----------------------------
(***************************************************************************)
(* commands/sms.h as scripts, and the modem's answers.  A comparison with  *)
(* an argument of the caller makes several scripts of one function.        *)
(***************************************************************************)
EXTENDS AtScript, TLC

setStorage ==
  [go   |-> Send("AT+CPMS", "wait"),
   wait |-> Wait(<<"+CPMS: ">>, FALSE, TRUE,
                 Switch([MATCH_1ST |-> "line", TIMEOUT |-> "TIMEDOUT"])),
   line |-> Find("NL", "end"),
   end  |-> Wait(<<>>, TRUE, TRUE, RESPONSE_PROCESS)]

setMessageFormat == Plain("AT+CMGF")
setNotification  == Plain("AT+CNMI")

\* "+CMS ERROR: " ends in the default of A76XX_RESPONSE_PROCESS.
OrCmsError(cmd) ==
  [go   |-> Send(cmd, "wait"),
   wait |-> Wait(<<"+CMS ERROR: ">>, TRUE, TRUE, RESPONSE_PROCESS)]

setTextModeParam == OrCmsError("AT+CSMP")
remove           == OrCmsError("AT+CMGD")

\* One entry of the list, after its head.
ListEntry(next) ==
  [index  |-> ParseInt("comma1"),
   comma1 |-> Find(",", "status"),
   status |-> ParseInt("comma2"),
   comma2 |-> Find(",", "comma3"),
   comma3 |-> Find(",", "length"),
   length |-> ParseInt("line"),
   line   |-> Find("NL", "pdu"),
   pdu    |-> Find("NL", next)]

\* positionsLen is never reached: entries are read until OK.
list == [go   |-> CallTo("setMessageFormat", "list", "COUNT"),
         list |-> Send("AT+CMGL", "wait"),
         wait |-> Wait(<<"+CMGL: ">>, TRUE, TRUE, [Always("COUNT") EXCEPT !["MATCH_1ST"] = "index"])]
        @@ ListEntry("wait")

\* positionsLen is 1: what is left of the list is waited for, and dropped.
listFull == [go   |-> CallTo("setMessageFormat", "list", "COUNT"),
             list |-> Send("AT+CMGL", "wait"),
             wait |-> Wait(<<"+CMGL: ">>, TRUE, TRUE, [Always("COUNT") EXCEPT !["MATCH_1ST"] = "index"]),
             rest |-> Clear("COUNT")]
            @@ ListEntry("rest")

\* The answer to AT+CMGR up to the line of the PDU.
ReadHead(first, next) ==
  [go     |-> CallTo("setMessageFormat", "read", "GENERIC_ERROR"),
   read   |-> Send("AT+CMGR", "wait"),
   wait   |-> Wait(<<"+CMGR: ", "+CMS ERROR: ">>, TRUE, TRUE, Switch([MATCH_1ST |-> first])),
   status |-> ParseInt("comma1"),
   comma1 |-> Find(",", "comma2"),
   comma2 |-> Find(",", "length"),
   length |-> ParseInt("line"),
   line   |-> Find("NL", next)]

\* How many digits came is not looked at: one that did not is the one before again.
Pdu(length, short) == [pdu |-> Bytes(length, "end", short),
                       end |-> Wait(<<>>, TRUE, TRUE, RESPONSE_PROCESS)]

read == ReadHead("status", "pdu") @@ Pdu(2, "end")

\* No digit came at all, and what the two variables held was none.
readNoDigit == ReadHead("status", "pdu") @@ Pdu(2, "GENERIC_ERROR")

\* msgStatus is NULL.
readNoStatus == ReadHead("comma1", "pdu") @@ Pdu(1, "end")

\* *msgLen > bufLen: of the PDU the first byte has been read, and its OK not.
readTooLong ==
  ReadHead("status", "first") @@ [first |-> Bytes(0, "OUT_OF_MEMORY", "GENERIC_ERROR")]

\* Whether find('>') found the prompt is not looked at.
send ==
  [go     |-> CallTo("setMessageFormat", "send", "return"),
   send   |-> Send("AT+CMGS", "prompt"),
   prompt |-> Find(">", "write"),
   write  |-> Put("pdu", "wait"),
   wait   |-> Wait(<<"+CMGS: ", "+CMS ERROR: ">>, TRUE, TRUE,
                   [RESPONSE_PROCESS EXCEPT !["MATCH_1ST"] = "end"]),
   end    |-> Wait(<<>>, TRUE, TRUE, RESPONSE_PROCESS)]

SmsScripts ==
  [setStorage |-> setStorage, setMessageFormat |-> setMessageFormat,
   setNotification |-> setNotification, setTextModeParam |-> setTextModeParam,
   remove |-> remove, list |-> list, listFull |-> listFull, read |-> read,
   readNoDigit |-> readNoDigit, readNoStatus |-> readNoStatus, readTooLong |-> readTooLong,
   send |-> send]

-----------------------------------------------------------------------------
CmsError == Line(<<Lex("+CMS ERROR: "), Num(1)>>)

\* index, status, no alpha, length, and the PDU on a line of its own
ListLine == <<NL, Lex("+CMGL: "), Num(1), Lex(","), Num(1), Lex(","), Lex(","), Num(2), NL,
              Lex("d"), Lex("d"), NL>>

SmsReplies(cmd) ==
  CASE cmd = "AT+CPMS" ->
         {Done(<<Line(<<Lex("+CPMS: "), Num(0), Lex(","), Num(1)>>), OK>>),
          Refused(<<ERROR>>), Mute}
    [] cmd = "AT+CMGL" -> {Done(<<OK>>), Done(<<ListLine, OK>>), Done(<<ListLine, ListLine, OK>>),
                           Refused(<<ERROR>>), Mute}
    [] cmd = "AT+CMGR" ->
         {Done(<< <<NL, Lex("+CMGR: "), Num(1), Lex(","), Lex(","), Num(2), NL,
                    Lex("d"), Lex("d"), NL>>, OK>>),
          Refused(<<CmsError>>), Mute}
    [] cmd \in {"AT+CSMP", "AT+CMGD"} -> PlainReplies \cup {Refused(<<CmsError>>)}
    [] cmd = "AT+CMGS" -> {Done(<< <<NL, Lex(">")>> >>), Refused(<<CmsError>>),
                           Refused(<<ERROR>>), Mute}
    [] cmd = "pdu" -> {Done(<<Line(<<Lex("+CMGS: "), Num(1)>>), OK>>),
                       Refused(<<CmsError>>), Refused(<<ERROR>>), Mute}
    [] OTHER -> PlainReplies

SmsCommandNames == {"AT+CPMS", "AT+CMGF", "AT+CNMI", "AT+CSMP", "AT+CMGD", "AT+CMGL",
                    "AT+CMGR", "AT+CMGS", "pdu"}
=============================================================================
