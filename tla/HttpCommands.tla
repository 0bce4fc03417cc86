---------------------------- MODULE HttpCommands ----------------------------
(***************************************************************************)
(* commands/http.h and commands/ssl.h as scripts, and the modem's answers. *)
(* A comparison with an argument of the caller makes two scripts of one    *)
(* function: one for a buffer that is large enough, one for a small one.   *)
(***************************************************************************)
EXTENDS AtScript, TLC

httpInit   == Plain("AT+HTTPINIT")
httpTerm   == Plain("AT+HTTPTERM")
configHttp == Plain("AT+HTTPPARA")

\* method, status code and length; the end of the line is left unread.
action ==
  [go     |-> Send("AT+HTTPACTION", "wait"),
   wait   |-> Wait(<<"+HTTPACTION: ">>, FALSE, TRUE,
                   Switch([MATCH_1ST |-> "method", TIMEOUT |-> "TIMEDOUT"])),
   method |-> ParseInt("comma1"),
   comma1 |-> Find(",", "status"),
   status |-> ParseInt("comma2"),
   comma2 |-> Find(",", "length"),
   length |-> ParseInt("SUCCEEDED")]

\* What both scripts of a function that reads text start with.
Announced(cmd, head, next) ==
  [go     |-> Send(cmd, "wait"),
   wait   |-> Wait(<<head>>, FALSE, TRUE,
                   Switch([MATCH_1ST |-> "length", TIMEOUT |-> "TIMEDOUT"])),
   length |-> ParseInt(next)]

readHeader ==
  Announced("AT+HTTPHEAD", "+HTTPHEAD: ", "line")
  @@ [line  |-> Find("NL", "text"),
      text  |-> Bytes(1, "full", "short"),
      full  |-> Wait(<<>>, TRUE, TRUE, Switch([OK |-> "SUCCEEDED"])),
      short |-> Wait(<<>>, TRUE, TRUE, Switch([OK |-> "GENERIC_ERROR"]))]

\* max_len - 1 < header_length: the header and its OK are not read.
readHeaderTooLong == Announced("AT+HTTPHEAD", "+HTTPHEAD: ", "OUT_OF_MEMORY")

getContentLength ==
  Announced("AT+HTTPREAD?", "+HTTPREAD: LEN,", "rest") @@ [rest |-> Clear("SUCCEEDED")]

\* "+HTTPREAD: 0" ends the body.
readResponseBody ==
  Announced("AT+HTTPREAD", "+HTTPREAD: ", "line")
  @@ [line  |-> Find("NL", "text"),
      text  |-> Bytes(1, "full", "short"),
      full  |-> Wait(<<"+HTTPREAD: 0">>, TRUE, TRUE, Switch([MATCH_1ST |-> "SUCCEEDED"])),
      short |-> Wait(<<"+HTTPREAD: 0">>, TRUE, TRUE, Switch([MATCH_1ST |-> "GENERIC_ERROR"]))]

\* The modem has less of the body than was asked for: it is left unread.
readResponseBodyCut == Announced("AT+HTTPREAD", "+HTTPREAD: ", "GENERIC_ERROR")

inputData ==
  [go    |-> Send("AT+HTTPDATA", "wait"),
   wait  |-> Wait(<<"DOWNLOAD">>, FALSE, TRUE,
                  Switch([MATCH_1ST |-> "write", TIMEOUT |-> "TIMEDOUT"])),
   write |-> Put("download", "wrote"),
   wrote |-> Wait(<<>>, TRUE, TRUE, RESPONSE_PROCESS)]

HttpScripts ==
  [httpInit |-> httpInit, httpTerm |-> httpTerm, configHttp |-> configHttp,
   action |-> action, readHeader |-> readHeader,
   readHeaderTooLong |-> readHeaderTooLong,
   getContentLength |-> getContentLength,
   readResponseBody |-> readResponseBody,
   readResponseBodyCut |-> readResponseBodyCut, inputData |-> inputData]

-----------------------------------------------------------------------------
configSSL  == Plain("AT+CSSLCFG")
certDelete == Plain("AT+CCERTDELE")
sslContext == Plain("AT+CCHSSLCFG")

certDownload ==
  [go    |-> Send("AT+CCERTDOWN", "wait"),
   wait  |-> Wait(<<">">>, TRUE, TRUE,
                  Switch([MATCH_1ST |-> "write", TIMEOUT |-> "TIMEDOUT"])),
   write |-> Put("download", "wrote"),
   wrote |-> Wait(<<>>, TRUE, TRUE, Switch([OK |-> "SUCCEEDED"]))]

\* Anything but the name, a timeout included, is a certificate not there.
certExists ==
  [go   |-> Send("AT+CCERTLIST", "wait"),
   wait |-> Wait(<<"cert">>, TRUE, TRUE, [Always("ABSENT") EXCEPT !["MATCH_1ST"] = "rest"]),
   rest |-> Clear("TRUE")]

certOverwrite ==
  [go       |-> CallTo("certExists", "delete", "download"),
   delete   |-> CallTo("certDelete", "download", "return"),
   download |-> CallTo("certDownload", "return", "return")]

SslScripts ==
  [configSSL |-> configSSL, certDelete |-> certDelete, sslContext |-> sslContext,
   certDownload |-> certDownload, certExists |-> certExists,
   certOverwrite |-> certOverwrite]

-----------------------------------------------------------------------------
TextReplies(head) ==
  {Done(<< <<NL, Lex(head), Num(2), NL, Lex("h"), Lex("h"), NL>>, OK>>),
   Refused(<<ERROR>>), Mute}

HttpReplies(cmd) ==
  CASE cmd = "AT+HTTPHEAD" -> TextReplies("+HTTPHEAD: ")
    [] cmd = "AT+HTTPREAD" ->
         {Done(<<OK, <<NL, Lex("+HTTPREAD: "), Num(2), NL, Lex("b"), Lex("b"), NL,
                       Lex("+HTTPREAD: 0"), NL>> >>),
          Refused(<<ERROR>>), Mute}
    [] cmd = "AT+HTTPREAD?" ->
         {Done(<<Line(<<Lex("+HTTPREAD: LEN,"), Num(2)>>), OK>>), Refused(<<ERROR>>), Mute}
    [] cmd = "AT+HTTPACTION" ->
         {Done(<<OK, Line(<<Lex("+HTTPACTION: "), Num(0), Lex(","), Num(1), Lex(","), Num(2)>>)>>),
          Refused(<<ERROR>>), Mute}
    [] cmd = "AT+HTTPDATA"  -> {Done(<<Line(<<Lex("DOWNLOAD")>>)>>), Refused(<<ERROR>>), Mute}
    [] cmd = "AT+CCERTDOWN" -> {Done(<< <<NL, Lex(">")>> >>), Refused(<<ERROR>>), Mute}
    \* the list names the certificate, or does not, or does not come
    [] cmd = "AT+CCERTLIST" ->
         {Done(<<Line(<<Lex("+CCERTLIST: "), Lex("cert")>>), OK>>), Done(<<OK>>), Done(<<>>)}
    [] OTHER -> PlainReplies

HttpCommandNames ==
  {"AT+HTTPINIT", "AT+HTTPTERM", "AT+HTTPPARA", "AT+HTTPHEAD", "AT+HTTPREAD",
   "AT+HTTPREAD?", "AT+HTTPACTION", "AT+HTTPDATA", "AT+CSSLCFG", "AT+CCERTDELE",
   "AT+CCHSSLCFG", "AT+CCERTDOWN", "AT+CCERTLIST", "download"}
=============================================================================
