---------------------------- MODULE MqttCommands ----------------------------
(***************************************************************************)
(* commands/mqtt.h: the AT+CMQTT* commands as scripts, and the answers the *)
(* modem gives them.  The handler of a message is in EventHandlers.    *)
(***************************************************************************)
EXTENDS AtScript, TLC

\* The line a service reports a code in: "+CMQTTSTART: <err>".
Report(head, err) == Line(<<Lex(head), Num(err)>>)

\* ... and for a client: "+CMQTTACCQ: <client_index>,<err>".
ClientReport(head, err) == Line(<<Lex(head), Num(0), Lex(","), Num(err)>>)

\* A slip: the OK or ERROR after the code is left unread.
ReadClientCode_NoClear ==
  [comma |-> Find(",", "code"), code |-> ParseInt("return")]

\* find(',') and parseIntClear(): the code is the second number of the line.
ReadClientCode ==
  [comma |-> Find(",", "code"), code |-> ParseInt("rest"), rest |-> Clear("return")]

-----------------------------------------------------------------------------
\* Only an ERROR is told apart: a timeout goes on to read the code.
start == [go   |-> Send("AT+CMQTTSTART", "wait"),
          wait |-> Wait(<<"+CMQTTSTART: ">>, FALSE, TRUE,
                        [Always("code") EXCEPT !["ERROR"] = "ALREADY_STARTED"]),
          code |-> ParseInt("rest"),
          rest |-> Clear("return")]

stop == [go   |-> Send("AT+CMQTTSTOP", "wait"),
         wait |-> Wait(<<"+CMQTTSTOP: ">>, FALSE, TRUE,
                       [Always("code") EXCEPT !["ERROR"] = "ALREADY_STOPPED"]),
   code |-> ParseInt("rest"),
   rest |-> Clear("return")]

\* A slip: the OK that can come without a report is an error.
acquireClient_NeedsReport ==
  [go   |-> Send("AT+CMQTTACCQ", "wait"),
   wait |-> Wait(<<"+CMQTTACCQ: ">>, TRUE, TRUE,
                 Switch([MATCH_1ST |-> "comma", TIMEOUT |-> "TIMEDOUT"]))]
  @@ ReadClientCode

acquireClient ==
  [go   |-> Send("AT+CMQTTACCQ", "wait"),
   wait |-> Wait(<<"+CMQTTACCQ: ">>, TRUE, TRUE,
                       Switch([MATCH_1ST |-> "comma", OK |-> "SUCCEEDED", TIMEOUT |-> "TIMEDOUT"]))]
  @@ ReadClientCode

releaseClient ==
  [go   |-> Send("AT+CMQTTREL", "wait"),
   wait |-> Wait(<<"+CMQTTREL: ">>, TRUE, TRUE,
                       Switch([MATCH_1ST |-> "comma", OK |-> "SUCCEEDED"]))]
  @@ ReadClientCode

\* Hands the Response_t on as if it were a return code: a timeout and an error
\* are positive codes.
setSSLContext ==
  [go   |-> Send("AT+CMQTTSSLCFG", "wait"),
   wait |-> Wait(<<>>, TRUE, TRUE, [Always("NONZERO") EXCEPT !["OK"] = "SUCCEEDED"])]

\* A slip: the prompt is looked for with find('>').
Prompted_FindsPrompt(cmd, head, data) ==
  [go    |-> Send(cmd, "find"),
   find  |-> Find(">", "write"),
   write |-> Put(data, "wrote"),
   wrote |-> Wait(<<>>, TRUE, TRUE, Switch([OK |-> "SUCCEEDED"]))]

\* A slip: what the modem says of the text is not waited for.
Prompted_DoesNotWait(cmd, head, data) ==
  [go    |-> Send(cmd, "wait"),
   wait  |-> Wait(<<">", head>>, TRUE, TRUE,
                        Switch([MATCH_1ST |-> "write", MATCH_2ND |-> "comma", TIMEOUT |-> "TIMEDOUT"])),
   write |-> Put(data, "SUCCEEDED")]
  @@ ReadClientCode

\* Announce some text, wait for the prompt, write it, and wait for OK.
Prompted(cmd, head, data) ==
  [go    |-> Send(cmd, "wait"),
   wait  |-> Wait(<<">", head>>, TRUE, TRUE,
                        Switch([MATCH_1ST |-> "write", MATCH_2ND |-> "comma", TIMEOUT |-> "TIMEDOUT"])),
   write |-> Put(data, "wrote"),
   wrote |-> Wait(<<>>, TRUE, TRUE, Switch([OK |-> "SUCCEEDED"]))]
  @@ ReadClientCode

setWillTopic   == Prompted("AT+CMQTTWILLTOPIC", "+CMQTTWILLTOPIC: ", "text")
setWillMessage == Prompted("AT+CMQTTWILLMSG", "+CMQTTWILLMSG: ", "text")
setTopic       == Prompted("AT+CMQTTTOPIC", "+CMQTTTOPIC: ", "text")

\* The code waits for a report spelled with one T too many.
setPayload     == Prompted("AT+CMQTTPAYLOAD", "+CMQTTTPAYLOAD: ", "text")

\* A command whose report follows OK, which is passed over.
Reported(cmd, head, err) ==
  [go   |-> Send(cmd, "wait"),
   wait |-> Wait(<<head>>, FALSE, err,
                       Switch([MATCH_1ST |-> "comma", TIMEOUT |-> "TIMEDOUT"]))]
  @@ ReadClientCode

\* ERROR is not looked for, because it also follows a report.
connect    == Reported("AT+CMQTTCONNECT", "+CMQTTCONNECT: ", FALSE)
disconnect == Reported("AT+CMQTTDISC", "+CMQTTDISC: ", TRUE)
publish    == Reported("AT+CMQTTPUB", "+CMQTTPUB: ", TRUE)

isConnected ==
  [go   |-> Send("AT+CMQTTDISC?", "wait"),
   wait |-> Wait(<<"+CMQTTDISC: 0,">>, FALSE, TRUE, Switch([MATCH_1ST |-> "code"])),
   code |-> ParseInt("rest"),
   rest |-> Clear("return")]

subscribe ==
  [go    |-> Send("AT+CMQTTSUB", "wait"),
   wait  |-> Wait(<<">", "+CMQTTSUB: ">>, FALSE, TRUE,
                        Switch([MATCH_1ST |-> "write", MATCH_2ND |-> "comma", TIMEOUT |-> "TIMEDOUT"])),
   write |-> Put("subscription", "wrote"),
   wrote |-> Wait(<<"+CMQTTSUB: ">>, FALSE, TRUE, Switch([MATCH_1ST |-> "comma"]))]
  @@ ReadClientCode

MqttScripts ==
  [start |-> start, stop |-> stop, acquireClient |-> acquireClient,
   releaseClient |-> releaseClient, setSSLContext |-> setSSLContext,
   setWillTopic |-> setWillTopic, setWillMessage |-> setWillMessage,
   setTopic |-> setTopic, setPayload |-> setPayload, connect |-> connect,
   disconnect |-> disconnect, publish |-> publish,
   isConnected |-> isConnected, subscribe |-> subscribe]

-----------------------------------------------------------------------------
(* What the modem answers, as far as these functions tell it apart.         *)

ServiceReplies(head) == {Done(<<OK, Report(head, 0)>>),
                         Refused(<<Report(head, 1), ERROR>>),
                         Refused(<<ERROR>>), Mute}

ClientReplies(head) == {Done(<<OK>>), Refused(<<ClientReport(head, 1), ERROR>>),
                        Refused(<<ERROR>>), Mute}

PromptReplies(head) == {Done(<< <<NL, Lex(">")>> >>),
                        Refused(<<ClientReport(head, 1), ERROR>>),
                        Refused(<<ERROR>>), Mute}

ReportReplies(head) == {Done(<<OK, ClientReport(head, 0)>>),
                        Refused(<<OK, ClientReport(head, 1)>>),
                        Refused(<<ClientReport(head, 1), ERROR>>),
                        Refused(<<ERROR>>), Mute}

ConnectedLine(n) == <<NL, Lex("+CMQTTDISC: 0,"), Num(n), NL>>

MqttReplies(cmd) ==
  CASE cmd = "AT+CMQTTSTART"     -> ServiceReplies("+CMQTTSTART: ")
    [] cmd = "AT+CMQTTSTOP"      -> ServiceReplies("+CMQTTSTOP: ")
    [] cmd = "AT+CMQTTACCQ"      -> ClientReplies("+CMQTTACCQ: ")
    [] cmd = "AT+CMQTTREL"       -> ClientReplies("+CMQTTREL: ")
    [] cmd = "AT+CMQTTSSLCFG"    -> PlainReplies
    [] cmd = "AT+CMQTTWILLTOPIC" -> PromptReplies("+CMQTTWILLTOPIC: ")
    [] cmd = "AT+CMQTTWILLMSG"   -> PromptReplies("+CMQTTWILLMSG: ")
    [] cmd = "AT+CMQTTTOPIC"     -> PromptReplies("+CMQTTTOPIC: ")
    [] cmd = "AT+CMQTTPAYLOAD"   -> PromptReplies("+CMQTTPAYLOAD: ")
    [] cmd = "AT+CMQTTSUB"       -> PromptReplies("+CMQTTSUB: ")
    [] cmd = "AT+CMQTTCONNECT"   -> ReportReplies("+CMQTTCONNECT: ")
    [] cmd = "AT+CMQTTDISC"      -> ReportReplies("+CMQTTDISC: ")
    [] cmd = "AT+CMQTTPUB"       -> ReportReplies("+CMQTTPUB: ")
    [] cmd = "AT+CMQTTDISC?"     -> {Done(<<ConnectedLine(0), OK>>),
                                     Refused(<<ConnectedLine(1), OK>>),
                                     Refused(<<ERROR>>), Mute}
    [] cmd = "text"              -> {Done(<<OK>>), Refused(<<ERROR>>), Mute}
    [] cmd = "subscription"      -> ReportReplies("+CMQTTSUB: ")

MqttCommandNames ==
  {"AT+CMQTTSTART", "AT+CMQTTSTOP", "AT+CMQTTACCQ", "AT+CMQTTREL",
   "AT+CMQTTSSLCFG", "AT+CMQTTWILLTOPIC", "AT+CMQTTWILLMSG", "AT+CMQTTTOPIC",
   "AT+CMQTTPAYLOAD", "AT+CMQTTSUB", "AT+CMQTTCONNECT", "AT+CMQTTDISC",
   "AT+CMQTTPUB", "AT+CMQTTDISC?", "text", "subscription"}
=============================================================================
