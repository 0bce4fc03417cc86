------------------------------ MODULE MCSerial ------------------------------
(***************************************************************************)
(* The serial driver with every command of the library, a poll for events, *)
(* and the three kinds of events it has handlers for.  Configurations pick *)
(* the functions called and the events.                                    *)
(***************************************************************************)
EXTENDS ModemSerial, MqttCommands, HttpCommands, SmsCommands, ModemCommands, ClientCalls,
        EventHandlers

AllScripts == MqttScripts @@ HttpScripts @@ SslScripts @@ SmsScripts @@ ModemScripts
                @@ ClientScripts @@ HandlerScripts @@ [listen |-> [go |-> Listen("SUCCEEDED")]]

AllReplies == [c \in MqttCommandNames |-> MqttReplies(c)]
                @@ [c \in HttpCommandNames |-> HttpReplies(c)]
                @@ [c \in SmsCommandNames |-> SmsReplies(c)]
                @@ [c \in ModemCommandNames |-> ModemReplies(c)]

\* No two functions are given the same name by two of the modules.
ASSUME NamesAssumption ==
  LET parts == <<MqttScripts, HttpScripts, SslScripts, SmsScripts, ModemScripts,
                 ClientScripts, HandlerScripts>>
  IN  \A i, j \in DOMAIN parts : i # j => DOMAIN parts[i] \cap DOMAIN parts[j] = {}

-----------------------------------------------------------------------------
(* Events and handlers *)

MessageEvents   == [e \in {"mqtt", "sms"} |-> HandledEvents[e]]
UncutEvents     == HandledEvents @@ [e \in {"connlost"} |-> OtherEvents[e]]
CutEvents       == [e \in {"nmeaCut"} |-> OtherEvents[e]]
MessageHandlers == <<"mqttRx", "smsRx">>
AllHandlers     == <<"mqttRx", "smsRx", "nmeaRx">>

\* Events that all have handlers announce themselves, each once.
ASSUME AnnouncedOnceAssumption ==
  Events = HandledEvents /\ Handlers = AllHandlers => AnnouncedOnce

-----------------------------------------------------------------------------
(* Functions called *)

\* They report a service that never answered as started, and as stopped.
Unanswered == {"start", "stop"}

\* They return with text they have no room or no use for still unread.
Truncating == {"readHeaderTooLong", "readTooLong", "readResponseBodyCut"}

\* They look for a line or a prompt without waitResponse, and read away
\* whatever comes first.
Greedy == {"send", "modelIdentification", "modelIdentificationNoRoom"}

\* Client functions built on those: mqttBegin and mqttEnd on start and stop,
\* getResponseHeaderNoRoom on a function that leaves text unread; and
\* requestAgent, which drops the result of addHeader.
Built == {"mqttBegin", "mqttBeginSecure", "mqttEnd",
          "getResponseHeaderNoRoom", "requestAgent"}

\* Handlers are called by the driver, never by the application.
CarefulTasks ==
  DOMAIN AllScripts \ (Unanswered \cup Truncating \cup Greedy \cup Built
                         \cup DOMAIN HandlerScripts)

\* One function, or two, for each way of reading an answer.
MixedTasks == {"listen", "modelIdentification", "getDateTime", "list", "send",
               "readHeader", "certOverwrite", "mqttEnd"}

\* A poll for events alone, in which an event goes wrong.
PollTasks == {"listen"}
=============================================================================
