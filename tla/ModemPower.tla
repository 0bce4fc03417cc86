------------------------------ MODULE ModemPower ------------------------------
(***************************************************************************)
(* modem.cpp: the functions of class A76XX that start, stop and wait for   *)
(* the module.  A function is a sequence of STAGES, left with false at the *)
(* first one that fails: a command, or a loop that polls until TimeoutCalc *)
(* says that the time is up.  Between the polls the module goes down and   *)
(* boots as it likes, and it may answer after the wait for its answer.     *)
(***************************************************************************)
EXTENDS Integers, Sequences

CONSTANTS ClockSize,    \* millis() counts modulo this; 2^32
          Wait,         \* for each kind of poll: how long one answer is waited for
          Pause,        \* ... and the delay() between two polls
          PowerCalls,   \* what the application calls: [fn, timeout, pin]
          InitTimeout,  \* of init() when it is called without one; 30000
          Sims,         \* after power on: "pin" when it asks for one, "open" when not
          Starts,       \* bound: values of the clock when the program starts
          MaxCalls,     \* bound: calls of the application
          MaxLate       \* bound: answers that come after their wait

Functions == {"init", "reset", "restart", "powerOff", "waitForRegistration",
              "setPhoneFunctionality", "sleep", "wakeUp"}

Kinds == {"TIMEOUT", "OK", "registered"}

Timeouts == {c.timeout : c \in PowerCalls} \cup {InitTimeout}

ASSUME ClockAssumption ==
  /\ ClockSize \in Nat \ {0} /\ Starts \subseteq 0 .. ClockSize - 1
  /\ Wait \in [Kinds -> Nat \ {0}] /\ Pause \in [Kinds -> Nat]
  /\ (\A c \in PowerCalls : c.fn \in Functions) /\ Timeouts \subseteq Nat
  /\ \A t \in Timeouts, k \in Kinds : t + Wait[k] + Pause[k] < ClockSize
  /\ Sims \subseteq {"open", "pin"} /\ MaxCalls \in Nat /\ MaxLate \in Nat

VARIABLES
  millis,     \* the clock
  module,     \* "up", "asleep", "restarting" and "stopping" (still answering), "down", "off"
  settings,   \* what init() has set and the module has not forgotten
  sim,        \* "open", "pin", "ready" (the PIN was given), "puk" (it was wrong)
  call,       \* the last function called
  calls,      \* how many there have been
  todo,       \* its stages still to come
  result,     \* "running", "true", "false"
  timer,      \* the last loop: its TimeoutCalc, and how long it really has lasted
  owed,       \* OKs on their way to a wait that is over
  late,       \* how many there have been
  since       \* what has happened since the call began

power == <<millis, module, settings, sim, call, calls, todo, result, timer, owed, late, since>>

-----------------------------------------------------------------------------
(* Stages *)

Command(c) == [op |-> "command", arg |-> c, timeout |-> 0]
Poll(kind, timeout) == [op |-> "poll", arg |-> kind, timeout |-> timeout]

Settings == {"ATE0", "AT+CMEE=0", "AT+CTZR=0", "AT+CTZU=1"}

init(timeout) == <<Poll("OK", timeout), Command("ATE0"), Command("AT+CMEE=0"),
                   Command("AT+CTZR=0"), Command("AT+CTZU=1"), Command("AT+CPIN?")>>

\* A slip: reset() does not wait for the module to go down.
reset_WaitsOnce(timeout) == <<Command("AT+CRESET"), Poll("OK", timeout)>>

reset(timeout) == <<Command("AT+CRESET"), Poll("TIMEOUT", timeout), Poll("OK", timeout)>>

powerOff(timeout) == <<Command("AT+CPOF")>>
                       \o (IF timeout > 0 THEN <<Poll("TIMEOUT", timeout)>> ELSE <<>>)

\* restart() gives init() neither a PIN nor a timeout.
Stages(c) ==
  CASE c.fn = "init"                -> init(c.timeout)
    [] c.fn = "reset"               -> reset(c.timeout)
    [] c.fn = "restart"             -> reset(c.timeout) \o init(InitTimeout)
    [] c.fn = "powerOff"            -> powerOff(c.timeout)
    [] c.fn = "waitForRegistration" -> <<Poll("registered", c.timeout)>>
    [] c.fn = "setPhoneFunctionality" -> <<Command("AT+CFUN=1,1")>>
    [] c.fn = "sleep"               -> <<Command("AT+CSCLK=2")>>
    [] c.fn = "wakeUp"              -> <<Command("AT")>>

Pin(c) == IF c.fn = "init" THEN c.pin ELSE "none"

Running == result = "running"
Stage == Head(todo)

Succeed == IF Len(todo) = 1 THEN todo' = <<>> /\ result' = "true"
                            ELSE todo' = Tail(todo) /\ UNCHANGED result
\* A slip: the failure is kept, and the function goes on.
Fail_GoesOn == todo' = Tail(todo) /\ result' = "false"

\* A76XX_CLIENT_RETCODE_ASSERT_BOOL: the first stage that fails is the last.
Fail == todo' = <<>> /\ result' = "false"

-----------------------------------------------------------------------------
(* The module *)

Hears == module \in {"up", "restarting", "stopping"}

\* What a command it carries out does to it.
Effect(c) ==
  /\ module' = CASE c \in {"AT+CRESET", "AT+CFUN=1,1"} -> "restarting"
                 [] c = "AT+CPOF"    -> "stopping"
                 [] c = "AT+CSCLK=2" -> "asleep"
                 [] OTHER -> module
  /\ settings' = IF c \in Settings THEN settings \cup {c} ELSE settings
  /\ sim' = IF c = "AT+CPIN=" THEN "ready" ELSE sim

NoEffect == UNCHANGED <<module, settings, sim>>

\* Can it do that now?
Accepts(c) == Hears /\ (c = "AT+CPIN=" => sim = "pin" /\ Pin(call) = "right")

Fresh(s) == IF s = "ready" THEN "pin" ELSE s

Unlocked == sim \in {"open", "ready"}

GoDown == /\ module \in {"restarting", "stopping"}
          /\ module' = IF module = "restarting" THEN "down" ELSE "off"
          /\ settings' = {}
          /\ sim' = Fresh(sim)
          /\ since' = since \cup {"down"}
          /\ UNCHANGED <<millis, call, calls, todo, result, timer, owed, late>>

Boot == /\ module = "down" \/ (module = "off" /\ ~Running)
        /\ module' = "up"
        /\ since' = since \cup {"booted"}
        /\ UNCHANGED <<millis, settings, sim, call, calls, todo, result, timer, owed, late>>

\* The first characters of a command wake it, before it hears them or too late.
Wake == /\ module = "asleep" /\ Running
        /\ module' = "up"
        /\ UNCHANGED <<millis, settings, sim, call, calls, todo, result, timer, owed, late, since>>

-----------------------------------------------------------------------------
(* A call and its commands *)

NoTimer == [start |-> 0, real |-> 0, kind |-> "OK", timeout |-> 0, state |-> "off"]

Init == /\ millis \in Starts
        /\ module \in {"up", "down", "off"}
        /\ settings = {}
        /\ sim \in Sims
        /\ call = [fn |-> "none", timeout |-> 0, pin |-> "none"]
        /\ calls = 0 /\ todo = <<>> /\ result = "false"
        /\ timer = NoTimer
        /\ owed = 0 /\ late = 0
        /\ since = {}

Call(c, stages) ==
  /\ ~Running /\ calls < MaxCalls
  /\ call' = c /\ calls' = calls + 1
  /\ todo' = stages /\ result' = "running"
  /\ timer' = NoTimer
  /\ since' = {}
  /\ UNCHANGED <<millis, module, settings, sim, owed, late>>

CallPower == \E c \in PowerCalls : Call(c, Stages(c))

\* init(): what the status of the SIM leads to.
Unlock == CASE Unlocked -> Succeed
            [] ~Unlocked /\ Pin(call) = "none" -> Fail
            [] OTHER -> todo' = <<Command("AT+CPIN=")>> /\ UNCHANGED result

Done == /\ Running /\ Stage.op = "command" /\ Accepts(Stage.arg)
        /\ Effect(Stage.arg)
        /\ IF Stage.arg = "AT+CPIN?" THEN Unlock ELSE Succeed
        /\ UNCHANGED <<millis, call, calls, timer, owed, late, since>>

\* ERROR, or an answer that cannot be read.  A PIN that is wrong may be the last.
Refused == /\ Running /\ Stage.op = "command" /\ Hears
           /\ sim' \in IF Stage.arg = "AT+CPIN=" /\ ~Accepts(Stage.arg) THEN {sim, "puk"} ELSE {sim}
           /\ UNCHANGED <<module, settings>>
           /\ Fail
           /\ UNCHANGED <<millis, call, calls, timer, owed, late, since>>

\* An answer that is late, or lost, or never given.
Unanswered == /\ Running /\ Stage.op = "command"
              /\ \/ NoEffect
                 \/ Accepts(Stage.arg) /\ Effect(Stage.arg)
              /\ Fail
              /\ \/ Hears /\ late < MaxLate /\ owed' = owed + 1 /\ late' = late + 1
                 \/ UNCHANGED <<owed, late>>
              /\ UNCHANGED <<millis, call, calls, timer, since>>

\* A late OK is taken for the answer to this command, which gets its own later or never.
TakesLate == /\ Running /\ Stage.op = "command" /\ Stage.arg # "AT+CPIN?" /\ owed > 0
             /\ \/ NoEffect
                \/ Accepts(Stage.arg) /\ Effect(Stage.arg)
             /\ owed' \in {owed - 1} \cup (IF Hears THEN {owed} ELSE {})
             /\ Succeed
             /\ since' = since \cup {"late"}
             /\ UNCHANGED <<millis, call, calls, timer, late>>

-----------------------------------------------------------------------------
(* The loops *)

Enter == /\ Running /\ Stage.op = "poll" /\ timer.state # "on"
         /\ timer' = [start |-> millis, real |-> 0, kind |-> Stage.arg,
                      timeout |-> Stage.timeout, state |-> "on"]
         /\ UNCHANGED <<millis, module, settings, sim, call, calls, todo, result, owed, late, since>>

\* A slip: the end of the time is computed, which wraps, and compared with the clock.
expired_Deadline == millis >= (timer.start + timer.timeout) % ClockSize

expired == (millis - timer.start) % ClockSize >= timer.timeout

Polling == Running /\ Stage.op = "poll" /\ timer.state = "on"

Pass(d) == millis' = (millis + d) % ClockSize

Leave(state, d) == /\ Pass(d)
                   /\ timer' = [timer EXCEPT !.state = state, !.real = @ + d]

GiveUp == /\ Polling /\ expired
          /\ Leave("expired", 0)
          /\ Fail
          /\ UNCHANGED <<module, settings, sim, call, calls, owed, late, since>>

\* The answer a poll gets, and after how long: the module's, a late one, or none.
\* A status is another answer than OK.
Answers == {"OK", "TIMEOUT", "registered", "other"}

Answer(a, d) ==
  /\ IF a = "TIMEOUT" THEN d = Wait[timer.kind] ELSE d \in 0 .. Wait[timer.kind] - 1
  /\ \/ /\ Hears /\ a \in IF timer.kind = "registered" THEN {"registered", "other"} ELSE {"OK"}
        /\ NoEffect
        /\ UNCHANGED <<owed, late, since>>
     \/ /\ a = "TIMEOUT"
        /\ \/ ~Hears /\ NoEffect /\ UNCHANGED <<owed, late, since>>
           \/ Hears /\ NoEffect /\ late < MaxLate
                /\ owed' = owed + 1 /\ late' = late + 1 /\ since' = since \cup {"late"}
     \/ /\ a = "OK" /\ timer.kind # "registered" /\ owed > 0
        /\ NoEffect
        /\ owed' \in {owed - 1} \cup (IF Hears THEN {owed} ELSE {})
        /\ since' = since \cup {"late"}
        /\ UNCHANGED late

\* while (!tc.expired()) { ...; delay(...) }
PollOnce ==
  /\ Polling /\ ~expired
  /\ \E a \in Answers, d \in 0 .. Wait[timer.kind] :
       /\ Answer(a, d)
       /\ IF a = timer.kind
          THEN Leave("met", d) /\ Succeed
          ELSE Leave("on", d + Pause[timer.kind]) /\ UNCHANGED <<todo, result>>
  /\ UNCHANGED <<call, calls>>

PowerNext == \/ CallPower \/ Done \/ Refused \/ Unanswered \/ TakesLate
             \/ Enter \/ GiveUp \/ PollOnce \/ GoDown \/ Boot \/ Wake

PowerSpec == Init /\ [][PowerNext]_power

-----------------------------------------------------------------------------
(* Type invariant: of the module, the clocks and the stages. *)

PowerCommands == Settings \cup {"AT", "AT+CPIN?", "AT+CPIN=", "AT+CRESET", "AT+CPOF",
                                "AT+CSCLK=2", "AT+CFUN=1,1"}

PowerStage == [op : {"command"}, arg : PowerCommands, timeout : {0}]
                \cup [op : {"poll"}, arg : Kinds, timeout : Timeouts]

PowerTypeOK ==
  /\ millis \in 0 .. ClockSize - 1
  /\ module \in {"up", "asleep", "restarting", "stopping", "down", "off"}
  /\ settings \subseteq Settings
  /\ sim \in {"open", "pin", "ready", "puk"}
  /\ calls \in 0 .. MaxCalls /\ late \in 0 .. MaxLate /\ owed \in 0 .. late
  /\ result \in {"running", "true", "false"}
  /\ Running <=> todo # <<>>
  /\ Running /\ Stage.op \in {"command", "poll"} => Stage \in PowerStage
  /\ timer \in [start : 0 .. ClockSize - 1, real : Nat, kind : Kinds, timeout : Nat,
                 state : {"off", "on", "met", "expired"}]
  /\ Polling => timer.kind = Stage.arg /\ timer.timeout = Stage.timeout

(***************************************************************************)
(* A loop gives up when its time is up, not before, and at most one answer *)
(* and one pause later; and it succeeds only on an answer to a poll sent   *)
(* in time.  Also when the clock goes round meanwhile.                     *)
(* (TimeoutCalc, and the loops of modem.cpp.)                              *)
(***************************************************************************)
Overrun == Wait[timer.kind] + Pause[timer.kind]

PollsEndInTime ==
  /\ timer.state = "on" => timer.real < timer.timeout + Overrun
  /\ timer.state = "expired" => timer.real \in timer.timeout .. timer.timeout + Overrun
  /\ timer.state = "met" => timer.real < timer.timeout + Wait[timer.kind]

(***************************************************************************)
(* What true says of the module, for as long as it does not go down again  *)
(* and when no late OK was taken for another: reset() and restart() have   *)
(* restarted it, powerOff() with a timeout has seen it gone, init() and    *)
(* restart() have set what they set and the SIM is ready.                  *)
(* (reset, powerOff, restart, init; the waits in them.)                    *)
(***************************************************************************)
Restarted == {"down", "booted"} \subseteq since

TrueMeansDone ==
  result = "true" /\ "late" \notin since =>
    /\ call.fn \in {"reset", "restart"} => Restarted
    /\ call.fn = "powerOff" /\ call.timeout > 0 => "down" \in since
    /\ call.fn = "init" /\ "down" \notin since => settings = Settings /\ Unlocked
    /\ call.fn = "restart" /\ module = "up" => settings = Settings /\ Unlocked
=============================================================================
