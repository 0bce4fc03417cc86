---------------------------- MODULE EventHandlers ----------------------------
(***************************************************************************)
(* The process() functions of the event handlers the library comes with,   *)
(* as scripts, and the events they are for.                                *)
(***************************************************************************)
EXTENDS AtScript

\* A slip: the second number of the first line is read without looking for
\* the comma in front of the first.
mqttRx_SkipsNoIndex ==
  [go       |-> ParseInt("comma"),
   comma    |-> Find(",", "length"),
   length   |-> ParseInt("topic"),
   topic    |-> Wait(<<"+CMQTTRXTOPIC: ">>, TRUE, TRUE, Always("topicEnd")),
   topicEnd |-> Find("NL", "readTopic"),
   readTopic |-> Bytes(1, "payload", "payload"),
   payload  |-> Wait(<<"+CMQTTRXPAYLOAD: ">>, TRUE, TRUE, Always("payloadEnd")),
   payloadEnd |-> Find("NL", "readPayload"),
   readPayload |-> Bytes(2, "end", "end"),
   end      |-> Wait(<<"+CMQTTRXEND: ">>, TRUE, TRUE, Always("endEnd")),
   endEnd   |-> Find("NL", "SUCCEEDED")]

\* MQTTOnMessageRx::process: the two lengths, then each part after its head.
\* The responses are not looked at, and OK and ERROR are responses too.
mqttRx ==
  [go       |-> Find(",", "length1"),
   length1  |-> ParseInt("comma"),
   comma    |-> Find(",", "length2"),
   length2  |-> ParseInt("topic"),
   topic    |-> Wait(<<"+CMQTTRXTOPIC: ">>, TRUE, TRUE, Always("topicEnd")),
   topicEnd |-> Find("NL", "readTopic"),
   readTopic |-> Bytes(1, "payload", "payload"),
   payload  |-> Wait(<<"+CMQTTRXPAYLOAD: ">>, TRUE, TRUE, Always("payloadEnd")),
   payloadEnd |-> Find("NL", "readPayload"),
   readPayload |-> Bytes(2, "end", "end"),
   end      |-> Wait(<<"+CMQTTRXEND: ">>, TRUE, TRUE, Always("endEnd")),
   endEnd   |-> Find("NL", "SUCCEEDED")]

\* A slip: what follows the index is waited for as a response.
smsRx_WaitsForOk == [go    |-> Find(",", "index"),
                     index |-> ParseInt("end"),
                     end   |-> Wait(<<>>, TRUE, TRUE, Always("SUCCEEDED"))]

\* SMSOnMessageRx::process
smsRx == [go    |-> Find(",", "index"),
          index |-> ParseInt("end"),
          end   |-> Find("NL", "SUCCEEDED")]

\* GNSSOnNMEAMessage::process
nmeaRx == [go |-> ReadLine("SUCCEEDED")]

HandlerScripts == [mqttRx |-> mqttRx, smsRx |-> smsRx, nmeaRx |-> nmeaRx]

HandlerStrings ==
  [mqttRx |-> "+CMQTTRXSTART: ", smsRx |-> "+CMTI: ", nmeaRx |-> "$GP"]

-----------------------------------------------------------------------------
\* A message of a topic of one character and a payload of two, sent in four
\* parts; a message stored at index 7; and one NMEA sentence.
HandledEvents ==
  [mqtt |-> << <<NL, Lex("+CMQTTRXSTART: "), Num(0), Lex(","), Num(1), Lex(","), Num(2), NL>>,
               <<Lex("+CMQTTRXTOPIC: "), Num(0), Lex(","), Num(1), NL, Lex("t"), NL>>,
               <<Lex("+CMQTTRXPAYLOAD: "), Num(0), Lex(","), Num(2), NL, Lex("p"), Lex("p"), NL>>,
               <<Lex("+CMQTTRXEND: "), Num(0), NL>> >>,
   sms  |-> << <<NL, Lex("+CMTI: "), Lex("SM"), Lex(","), Num(7), NL>> >>,
   nmea |-> << <<Lex("$GP"), Lex("fix"), NL>> >>]

\* An event of the MQTT service that no handler is for, and a sentence that
\* breaks off because the module is reset or loses power.
OtherEvents ==
  [connlost |-> << <<NL, Lex("+CMQTTCONNLOST: "), Num(0), Lex(","), Num(1), NL>> >>,
   nmeaCut  |-> << <<Lex("$GP"), Lex("fix")>> >>]

\* What each handler is to make of its event: the numbers and the text read.
IntactDelivery ==
  [mqttRx |-> [nums |-> <<1, 2>>, got |-> <<"t", "p", "p">>],
   smsRx  |-> [nums |-> <<7>>, got |-> <<>>],
   nmeaRx |-> [nums |-> <<>>, got |-> <<"$GP", "fix">>]]
=============================================================================
