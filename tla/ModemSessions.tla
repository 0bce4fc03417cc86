---------------------------- MODULE ModemSessions ----------------------------
(***************************************************************************)
(* What the module keeps from one call to the next for the MQTT, HTTP and  *)
(* secure clients (clients/mqtt.cpp, http.cpp, secure.cpp), and what the   *)
(* clients keep of it, while class A76XX restarts the module under them.   *)
(* A call of a client is a sequence of commands, each of which the module  *)
(* carries out or not, and answers or not.                                 *)
(***************************************************************************)
EXTENDS ModemPower

CONSTANTS Lengths,       \* lengths of responses
          Left,          \* bound: what an earlier run of the program may have left in the module
          SessionCalls   \* what the application calls: [fn, option, room]

VARIABLES
  session,      \* of the module: [service, client, http, body]; body is the last response
  file,         \* of the module: the certificate, which outlives a restart: "none", "old", "new"
  lastStatus,   \* _last_status_code: the number of the response it is of
  lastLength,   \* _last_body_length
  copied,       \* the response that getResponseBody() copied, and how much of it
  orphaned      \* was the service without a client when the call began?

sessions == <<session, file, lastStatus, lastLength, copied, orphaned>>
vars == <<power, sessions>>

NoResponse == [number |-> 0, length |-> 0]

NoSession == [service |-> "stopped", client |-> "free", http |-> "closed", body |-> NoResponse]

SessionTypes == [service : {"stopped", "started"}, client : {"free", "acquired", "connected"},
                 http : {"closed", "open"}, body : [number : Nat, length : Nat]]

\* A client belongs to a service.
Owned(s) == s.client # "free" => s.service = "started"

ClientFunctions == {"mqttBegin", "mqttConnect", "mqttDisconnect", "mqttEnd", "httpBegin",
                    "httpEnd", "request", "getResponseBody", "writeCaCert"}

ASSUME SessionAssumption ==
  /\ \A c \in SessionCalls : c.fn \in ClientFunctions
  /\ \A c \in SessionCalls : c.fn = "getResponseBody" => c.room \in Nat \ {0}
  /\ Lengths \subseteq Nat
  /\ \A s \in Left : s \in SessionTypes /\ Owned(s) /\ s.body = NoResponse

-----------------------------------------------------------------------------
(* Calls *)

Session(c) == [op |-> "session", arg |-> c, timeout |-> 0]
Ignored(c) == [op |-> "ignored", arg |-> c, timeout |-> 0]   \* its result is dropped
File(op) == [op |-> op, arg |-> "file", timeout |-> 0]

Optional(c, s) == IF c.option THEN s ELSE <<>>

mqttEnd == <<Session("AT+CMQTTREL"), Session("AT+CMQTTSTOP")>>

ClientStages(c) ==
  CASE c.fn = "mqttBegin"   -> <<Session("AT+CMQTTSTART"), Session("AT+CMQTTACCQ")>>
                                 \o Optional(c, <<Session("AT+CMQTTSSLCFG")>>)
    [] c.fn = "mqttConnect" -> Optional(c, <<Session("AT+CMQTTWILLTOPIC"), Session("AT+CMQTTWILLMSG")>>)
                                 \o <<Session("AT+CMQTTCONNECT")>>
    [] c.fn = "mqttDisconnect" -> <<Session("AT+CMQTTDISC")>>
    [] c.fn = "mqttEnd"     -> mqttEnd
    [] c.fn = "httpBegin"   -> <<Session("AT+HTTPINIT")>>
    [] c.fn = "httpEnd"     -> <<Session("AT+HTTPTERM")>>
    [] c.fn = "request"     -> <<Session("AT+HTTPPARA")>>
                                 \o Optional(c, <<Ignored("AT+HTTPPARA"), Session("AT+HTTPPARA"),
                                                  Session("AT+HTTPPARA"), Session("AT+HTTPDATA")>>)
                                 \o <<[Session("AT+HTTPACTION") EXCEPT !.op = "action"]>>
    [] c.fn = "getResponseBody" -> <<[Session("AT+HTTPREAD") EXCEPT !.op = "read"]>>
    [] c.fn = "writeCaCert" -> <<File("exists"), File("download"),
                                 Session("AT+CSSLCFG"), Session("AT+CSSLCFG")>>

\* getResponseBody() returns before any command: max_len - 1 < _last_body_length.
NoRoom(c) == c.fn = "getResponseBody" /\ c.room - 1 < lastLength

Orphan == session.service = "started" /\ session.client = "free"

CallClient == \E c \in SessionCalls :
  /\ owed = 0   \* bound: a late OK meets the commands of class A76XX only
  /\ IF NoRoom(c)
     THEN /\ ~Running /\ calls < MaxCalls
          /\ call' = c /\ calls' = calls + 1 /\ result' = "false"
          /\ timer' = NoTimer /\ since' = {}
          /\ UNCHANGED <<millis, module, settings, sim, todo, owed, late>>
     ELSE Call(c, ClientStages(c))
  /\ orphaned' = Orphan
  /\ copied' = NoResponse
  /\ UNCHANGED <<session, file, lastStatus, lastLength>>

Same == UNCHANGED <<millis, module, settings, sim, call, calls, timer, owed, late>>

-----------------------------------------------------------------------------
(* Commands of the services: when the module carries them out, and to what end *)

Allowed(c) ==
  CASE c = "AT+CMQTTSTART" -> session.service = "stopped"
    [] c = "AT+CMQTTACCQ"  -> session.service = "started" /\ session.client = "free"
    [] c \in {"AT+CMQTTSSLCFG", "AT+CMQTTWILLTOPIC", "AT+CMQTTWILLMSG",
              "AT+CMQTTCONNECT", "AT+CMQTTREL"} -> session.client = "acquired"
    [] c = "AT+CMQTTDISC"  -> session.client = "connected"
    [] c = "AT+CMQTTSTOP"  -> session.service = "started" /\ session.client = "free"
    [] c = "AT+HTTPINIT"   -> session.http = "closed"
    [] c \in {"AT+HTTPTERM", "AT+HTTPPARA", "AT+HTTPDATA"} -> session.http = "open"
    [] c = "AT+CSSLCFG"    -> TRUE

After(c) ==
  CASE c = "AT+CMQTTSTART"   -> [session EXCEPT !.service = "started"]
    [] c = "AT+CMQTTACCQ"    -> [session EXCEPT !.client = "acquired"]
    [] c = "AT+CMQTTCONNECT" -> [session EXCEPT !.client = "connected"]
    [] c = "AT+CMQTTDISC"    -> [session EXCEPT !.client = "acquired"]
    [] c = "AT+CMQTTREL"     -> [session EXCEPT !.client = "free"]
    [] c = "AT+CMQTTSTOP"    -> [session EXCEPT !.service = "stopped"]
    [] c = "AT+HTTPINIT"     -> [session EXCEPT !.http = "open"]
    [] c = "AT+HTTPTERM"     -> [session EXCEPT !.http = "closed", !.body = NoResponse]
    [] OTHER -> session

AtSession == Running /\ Stage.op \in {"session", "ignored"}

\* What comes of a command that failed: nothing where its result is dropped.
FailUnlessIgnored == IF Stage.op = "ignored" THEN Succeed ELSE Fail

SessionDone == /\ AtSession /\ Hears /\ Allowed(Stage.arg)
               /\ session' = After(Stage.arg)
               /\ Succeed
               /\ Same /\ UNCHANGED <<since, file, lastStatus, lastLength, copied, orphaned>>

SessionRefused == /\ AtSession /\ Hears
                  /\ FailUnlessIgnored
                  /\ Same /\ UNCHANGED <<since, sessions>>

\* start() and stop() read the code of an answer that has not come, which is 0.
SessionUnanswered ==
  /\ AtSession
  /\ session' \in {session} \cup (IF Hears /\ Allowed(Stage.arg) THEN {After(Stage.arg)} ELSE {})
  /\ IF Stage.arg \in {"AT+CMQTTSTART", "AT+CMQTTSTOP"} THEN Succeed ELSE FailUnlessIgnored
  /\ since' = since \cup {"unanswered"}
  /\ Same /\ UNCHANGED <<file, lastStatus, lastLength, copied, orphaned>>

ConnectionLost == /\ session.client = "connected"
                  /\ session' = [session EXCEPT !.client = "acquired"]
                  /\ UNCHANGED <<power, file, lastStatus, lastLength, copied, orphaned>>

-----------------------------------------------------------------------------
(* Requests and their responses *)

AtOp(op) == Running /\ Stage.op = op

\* A response is known by the call it came in.
Response(length) == [number |-> calls, length |-> length]

ActionDone ==
  /\ AtOp("action") /\ Hears /\ session.http = "open"
  /\ \E length \in Lengths :
       /\ session' = [session EXCEPT !.body = Response(length)]
       /\ lastStatus' = Response(length).number
       /\ lastLength' = length
  /\ Succeed
  /\ Same /\ UNCHANGED <<since, file, copied, orphaned>>

\* ERROR, or no +HTTPACTION in 120 s, though there may have been a request and a response.
ActionFailed ==
  /\ AtOp("action")
  /\ \/ UNCHANGED session
     \/ /\ Hears /\ session.http = "open"
        /\ \E length \in Lengths : session' = [session EXCEPT !.body = Response(length)]
  /\ Fail
  /\ Same /\ UNCHANGED <<since, file, lastStatus, lastLength, copied, orphaned>>

\* A slip: what the module sends is read, whatever was asked for.
CopyLength_Sent == session.body.length

\* AT+HTTPREAD=0,length: the module sends at most that, and less is an error.
CopyLength == lastLength

BodyRead == /\ AtOp("read") /\ Hears /\ session.http = "open"
            /\ session.body.length >= lastLength
            /\ copied' = [number |-> session.body.number, length |-> CopyLength]
            /\ Succeed
            /\ Same /\ UNCHANGED <<since, session, file, lastStatus, lastLength, orphaned>>

BodyNotRead == /\ AtOp("read")
               /\ Fail
               /\ Same /\ UNCHANGED <<since, sessions>>

-----------------------------------------------------------------------------
(* certOverwrite(): delete the certificate if it is in the list, then download *)

\* certExists() looks for the name anywhere in the list, in the names of other files as
\* well; anything else, a timeout included, is a certificate not there.
Exists == /\ AtOp("exists")
          /\ \/ Hears /\ todo' = <<File("delete")>> \o Tail(todo) /\ UNCHANGED since
             \/ /\ todo' = Tail(todo)
                /\ since' = IF file # "none" THEN since \cup {"unanswered"} ELSE since
          /\ UNCHANGED result
          /\ Same /\ UNCHANGED sessions

DeleteDone == /\ AtOp("delete") /\ Hears /\ file # "none"
              /\ file' = "none"
              /\ Succeed
              /\ Same /\ UNCHANGED <<since, session, lastStatus, lastLength, copied, orphaned>>

\* What the module makes of a name that is taken is its own affair.
DownloadDone == /\ AtOp("download") /\ Hears
                /\ file' = "new"
                /\ Succeed
                /\ Same /\ UNCHANGED <<since, session, lastStatus, lastLength, copied, orphaned>>

FileFailed == /\ Running /\ Stage.op \in {"delete", "download"}
              /\ \/ UNCHANGED file
                 \/ Hears /\ file' = IF Stage.op = "delete" THEN "none" ELSE "new"
              /\ Fail
              /\ Same /\ UNCHANGED <<since, session, lastStatus, lastLength, copied, orphaned>>

-----------------------------------------------------------------------------
(* The clients on the module *)

\* The program starts on a module that may be up already.
Start == /\ Init
         /\ session \in IF module = "up" THEN Left ELSE {NoSession}
         /\ file \in {"none", "old"}
         /\ lastStatus = 0 /\ lastLength = 0
         /\ copied = NoResponse
         /\ orphaned = FALSE

\* A module that goes down forgets its sessions; the clients are not told.
PowerStep == /\ PowerNext
             /\ session' = IF Hears /\ module' \in {"down", "off"} THEN NoSession ELSE session
             /\ UNCHANGED <<file, lastStatus, lastLength, copied, orphaned>>

ClientStep == \/ CallClient
              \/ SessionDone \/ SessionRefused \/ SessionUnanswered \/ ConnectionLost
              \/ ActionDone \/ ActionFailed \/ BodyRead \/ BodyNotRead
              \/ Exists \/ DeleteDone \/ DownloadDone \/ FileFailed

Next == PowerStep \/ ClientStep

Spec == Start /\ [][Next]_vars

-----------------------------------------------------------------------------
(* Type invariant *)

SessionStage ==
  [op : {"session", "ignored", "action", "read"}, timeout : {0},
   arg : {"AT+CMQTTSTART", "AT+CMQTTACCQ", "AT+CMQTTSSLCFG", "AT+CMQTTWILLTOPIC", "AT+CMQTTWILLMSG",
          "AT+CMQTTCONNECT", "AT+CMQTTDISC", "AT+CMQTTREL", "AT+CMQTTSTOP", "AT+HTTPINIT",
          "AT+HTTPTERM", "AT+HTTPPARA", "AT+HTTPDATA", "AT+HTTPACTION", "AT+HTTPREAD", "AT+CSSLCFG"}]
  \cup [op : {"exists", "delete", "download"}, arg : {"file"}, timeout : {0}]

TypeOK ==
  /\ PowerTypeOK
  /\ todo \in Seq(PowerStage \cup SessionStage)
  /\ session \in SessionTypes /\ Owned(session) /\ session.body.number <= calls
  /\ file \in {"none", "old", "new"}
  /\ lastStatus \in 0 .. calls /\ lastLength \in Nat
  /\ orphaned \in BOOLEAN

(***************************************************************************)
(* What the clients are told holds in the module, whatever failed or       *)
(* restarted before:                                                       *)
(*  - a begin() that returned true has service and client, an end()        *)
(*    neither, a request its response, writeCaCert() the file;             *)
(*  - after reset() or restart() there is no session left to be in the way *)
(*    of begin();                                                          *)
(*  - a service without a client, as a begin() or end() that failed        *)
(*    halfway leaves it, yields to nothing but that or a lost answer;      *)
(*  - getResponseBody() stays within the caller's memory and copies no     *)
(*    response older than the status, even if the module has a newer one.  *)
(* (mqtt.cpp: begin, end; http.cpp: request, getResponseBody; certOverwrite)*)
(***************************************************************************)
Told ==
  result = "true" /\ "down" \notin since =>
    /\ call.fn = "mqttBegin" => session.service = "started" /\ session.client # "free"
    /\ call.fn = "mqttEnd" => session.client = "free" /\ (Orphan => "unanswered" \in since)
    /\ call.fn = "request" => lastStatus = calls /\ session.body = [number |-> calls, length |-> lastLength]
    /\ call.fn = "writeCaCert" => file = "new"

Cleared == result = "true" /\ call.fn \in {"reset", "restart"} /\ "late" \notin since =>
             session = NoSession

OrphanStays ==
  result = "true" /\ call.fn \in {"mqttBegin", "mqttEnd"} /\ orphaned =>
    {"down", "unanswered"} \cap since # {}

BodyFits == call.fn = "getResponseBody" /\ copied.length > 0 =>
              copied.length < call.room /\ copied.number >= lastStatus

SessionsAgree == Told /\ Cleared /\ OrphanStays /\ BodyFits
=============================================================================
