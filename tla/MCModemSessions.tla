--------------------------- MODULE MCModemSessions ---------------------------
(***************************************************************************)
(* A clock of six ticks that goes round during the loops, loops of two,    *)
(* one and no ticks, answers awaited for one or two, and responses of one  *)
(* or two characters for callers with room for one or two.                 *)
(***************************************************************************)
EXTENDS ModemSessions

PollWait  == [k \in Kinds |-> IF k = "registered" THEN 2 ELSE 1]
PollPause == [k \in Kinds |-> 1]

Power(fn, timeout, pin) == [fn |-> fn, timeout |-> timeout, pin |-> pin]

SomePowerCalls ==
  {Power("init", 2, pin) : pin \in {"none", "right", "wrong"}}
    \cup {Power(fn, 2, "none") : fn \in {"reset", "restart", "powerOff", "waitForRegistration"}}
    \cup {Power(fn, 0, "none") : fn \in {"powerOff", "sleep", "wakeUp", "setPhoneFunctionality"}}

Client(fn, option) == [fn |-> fn, option |-> option, room |-> 0]

SomeSessionCalls ==
  {Client(fn, option) : fn \in {"mqttBegin", "mqttConnect", "request"}, option \in BOOLEAN}
    \cup {Client(fn, FALSE) : fn \in {"mqttDisconnect", "mqttEnd", "httpBegin", "httpEnd",
                                          "writeCaCert"}}
    \cup {[Client("getResponseBody", FALSE) EXCEPT !.room = r] : r \in {2, 3}}

SomeLeft == {NoSession, [NoSession EXCEPT !.service = "started", !.http = "open"]}
=============================================================================
