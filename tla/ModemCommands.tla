---------------------------- MODULE ModemCommands ----------------------------
(***************************************************************************)
(* The commands class A76XX and the GNSS client are built from, as scripts *)
(* (commands/v25ter.h, sim.h, network.h, packet_domain.h,                  *)
(* status_control.h, internet_service.h, serial_interface.h, gnss.h), and  *)
(* the modem's answers.  The fields of a position fix are left out.        *)
(***************************************************************************)
EXTENDS AtScript, TLC

\* Commands answered by OK or ERROR alone.
commandEcho            == Plain("ATE")
characterSet           == Plain("AT+CSCS")
enterPIN               == Plain("AT+CPIN")
setTimeZone            == Plain("AT+CTZU")
pdpContext             == Plain("AT+CGACT")
pdpParameters          == Plain("AT+CGDCONT")
setPhoneFunctionality  == Plain("AT+CFUN")
powerOffOrReset        == Plain("AT+CPOF")
setErrorResultCodes    == Plain("AT+CMEE")
setNTPParams           == Plain("AT+CNTP=")
serialInterface        == Plain("AT+CSCLK")
gnssConfig             == Plain("AT+CGNSS")
gnssOutput             == Plain("AT+CGNSSTST")

\* The switch of a query: the answer at M1, an error or nothing.
Query(cmd, head, ok, next) ==
  [go   |-> Send(cmd, "wait"),
   wait |-> Wait(<<head>>, ok, TRUE, Switch([MATCH_1ST |-> next, TIMEOUT |-> "TIMEDOUT"]))]

\* Clear first, and then no waitResponse: the first line that comes is taken.
modelIdentification ==
  [go    |-> Clear("send"),
   send  |-> Send("AT+CGMM", "skip"),
   skip  |-> Find("NL", "text"),
   text  |-> Until("full", "empty"),
   full  |-> Clear("SUCCEEDED"),
   empty |-> Clear("TIMEDOUT")]

revisionIdentification ==
  [go    |-> Send("AT+CGMR", "wait"),
   wait  |-> Wait(<<"+CGMR: ">>, FALSE, FALSE,
                  Switch([MATCH_1ST |-> "text", TIMEOUT |-> "TIMEDOUT"])),
   text  |-> Until("full", "empty"),
   full  |-> Clear("SUCCEEDED"),
   empty |-> Clear("TIMEDOUT")]

\* The text fills the buffer of the caller.
modelIdentificationNoRoom    == [modelIdentification EXCEPT !.full = Clear("OUT_OF_MEMORY")]
revisionIdentificationNoRoom == [revisionIdentification EXCEPT !.full = Clear("OUT_OF_MEMORY")]

getPINStatus ==
  Query("AT+CPIN?", "+CPIN: ", FALSE, "text")
  @@ [text |-> Until("rest", "rest"), rest |-> Clear("SUCCEEDED")]

\* The second number of the line, and what follows it dropped.
SecondNumber == [comma  |-> Find(",", "number"),
                 number |-> ParseInt("rest"),
                 rest   |-> Clear("SUCCEEDED")]

getNetworkRegistrationStatus ==
  Query("AT+CREG?", "+CREG: ", FALSE, "comma") @@ SecondNumber
getNetworkSystemMode ==
  Query("AT+CNSMOD?", "+CNSMOD: ", TRUE, "comma") @@ SecondNumber
getXXXNetworkRegistrationStatus ==
  Query("AT+CGREG?", "+CGREG: ", FALSE, "comma") @@ SecondNumber

\* A context that is not in the list is one that is not active.
getPDPContextActiveStatus ==
  [go   |-> Send("AT+CGACT?", "wait"),
   wait |-> Wait(<<"+CGACT: 1,">>, TRUE, TRUE,
                 Switch([MATCH_1ST |-> "number", OK |-> "SUCCEEDED", TIMEOUT |-> "TIMEDOUT"])),
   number |-> ParseInt("rest"),
   rest   |-> Clear("SUCCEEDED")]

getDateTime ==
  Query("AT+CCLK?", "+CCLK: \"", FALSE, "text")
  @@ [text  |-> Bytes(0, "full", "short"),
      full  |-> Clear("SUCCEEDED"),
      short |-> Clear("GENERIC_ERROR")]

updateSystemTime ==
  Query("AT+CNTP", "+CNTP: ", FALSE, "code")
  @@ [code |-> ParseInt("rest"), rest |-> Clear("return")]

\* Enabling waits for the receiver, disabling for OK.
powerControlOn  == Query("AT+CGNSSPWR=1", "+CGNSSPWR: READY!", FALSE, "SUCCEEDED")
powerControlOff ==
  [go   |-> Send("AT+CGNSSPWR=0", "wait"),
   wait |-> Wait(<<"+CGNSSPWR: READY!">>, TRUE, TRUE,
                 [RESPONSE_PROCESS EXCEPT !["MATCH_1ST"] = "SUCCEEDED"])]

getGPSProductInfo ==
  Query("AT+CGNSSPROD", "PRODUCT: ", FALSE, "text")
  @@ [text |-> Until("rest", "rest"), rest |-> Clear("SUCCEEDED")]

ModemScripts ==
  [commandEcho |-> commandEcho, characterSet |-> characterSet,
   modelIdentification |-> modelIdentification,
   modelIdentificationNoRoom |-> modelIdentificationNoRoom,
   revisionIdentification |-> revisionIdentification,
   revisionIdentificationNoRoom |-> revisionIdentificationNoRoom,
   enterPIN |-> enterPIN, getPINStatus |-> getPINStatus,
   setTimeZone |-> setTimeZone,
   getNetworkRegistrationStatus |-> getNetworkRegistrationStatus,
   getNetworkSystemMode |-> getNetworkSystemMode,
   getXXXNetworkRegistrationStatus |-> getXXXNetworkRegistrationStatus,
   pdpContext |-> pdpContext, pdpParameters |-> pdpParameters,
   getPDPContextActiveStatus |-> getPDPContextActiveStatus,
   setPhoneFunctionality |-> setPhoneFunctionality,
   powerOffOrReset |-> powerOffOrReset, getDateTime |-> getDateTime,
   setErrorResultCodes |-> setErrorResultCodes, setNTPParams |-> setNTPParams,
   updateSystemTime |-> updateSystemTime, serialInterface |-> serialInterface,
   gnssConfig |-> gnssConfig, gnssOutput |-> gnssOutput,
   powerControlOn |-> powerControlOn, powerControlOff |-> powerControlOff,
   getGPSProductInfo |-> getGPSProductInfo]

-----------------------------------------------------------------------------
Answered(ls) == {Done(<<Line(ls), OK>>), Refused(<<ERROR>>), Mute}
Two(head) == Answered(<<Lex(head), Num(0), Lex(","), Num(1)>>)

ModemReplies(cmd) ==
  CASE cmd = "AT+CGMM"    -> Answered(<<Lex("text")>>)
    [] cmd = "AT+CGMR"    -> Answered(<<Lex("+CGMR: "), Lex("text")>>)
    [] cmd = "AT+CPIN?"   -> Answered(<<Lex("+CPIN: "), Lex("text")>>)
    [] cmd = "AT+CREG?"   -> Two("+CREG: ")
    [] cmd = "AT+CNSMOD?" -> Two("+CNSMOD: ")
    [] cmd = "AT+CGREG?"  -> Two("+CGREG: ")
    [] cmd = "AT+CGACT?"  -> Answered(<<Lex("+CGACT: 1,"), Num(1)>>) \cup {Done(<<OK>>)}
    [] cmd = "AT+CCLK?"   -> Answered(<<Lex("+CCLK: \""), Lex("text"), Lex("quote")>>)
    [] cmd = "AT+CNTP"    -> {Done(<<OK, Line(<<Lex("+CNTP: "), Num(0)>>)>>),
                              Refused(<<OK, Line(<<Lex("+CNTP: "), Num(1)>>)>>),
                              Refused(<<ERROR>>), Mute}
    [] cmd = "AT+CGNSSPWR=1" -> {Done(<<OK, Line(<<Lex("+CGNSSPWR: READY!")>>)>>),
                                 Refused(<<OK>>), Refused(<<ERROR>>), Mute}
    [] cmd = "AT+CGNSSPROD"  -> Answered(<<Lex("PRODUCT: "), Lex("text")>>)
    [] OTHER -> PlainReplies

ModemCommandNames ==
  {"ATE", "AT+CSCS", "AT+CPIN", "AT+CTZU", "AT+CGACT", "AT+CGDCONT", "AT+CFUN",
   "AT+CPOF", "AT+CMEE", "AT+CNTP=", "AT+CSCLK", "AT+CGNSS", "AT+CGNSSTST",
   "AT+CGMM", "AT+CGMR", "AT+CPIN?", "AT+CREG?", "AT+CNSMOD?", "AT+CGREG?",
   "AT+CGACT?", "AT+CCLK?", "AT+CNTP", "AT+CGNSSPWR=1", "AT+CGNSSPWR=0",
   "AT+CGNSSPROD"}
=============================================================================
