------------------------ MODULE ModemSessions_proofs ------------------------
(***************************************************************************)
(* Proofs about the calls of class A76XX and of the clients, for every     *)
(* clock, every duration of waits and pauses, every set of calls and every *)
(* way the module goes down under them.                                    *)
(*                                                                         *)
(* First the stages of the functions and the arithmetic of a clock that    *)
(* goes round, as facts about constants; then the inductive invariant of   *)
(* the types and the timeouts, action by action; and then that of what a   *)
(* call that returned true has done.                                       *)
(***************************************************************************)
EXTENDS ModemSessions, SequenceTheorems, TLAPS

AllStages == PowerStage \cup SessionStage

-----------------------------------------------------------------------------
(* Stages *)

LEMMA Joined ==
  ASSUME NEW S, NEW s \in Seq(S), NEW t \in Seq(S), s # <<>> \/ t # <<>>
  PROVE  s \o t \in Seq(S) /\ s \o t # <<>>
<1>1. s \o t \in Seq(S) /\ Len(s \o t) = Len(s) + Len(t)
  BY ConcatProperties
<1>2. Len(s) \in Nat /\ Len(t) \in Nat /\ (Len(s) > 0 \/ Len(t) > 0)
  BY EmptySeq, LenProperties
<1> QED BY <1>1, <1>2

LEMMA Single ==
  ASSUME NEW S, NEW x \in S
  PROVE  <<x>> \in Seq(S) /\ <<x>> # <<>>
OBVIOUS

LEMMA Rest ==
  ASSUME NEW S, NEW s \in Seq(S), s # <<>>
  PROVE  /\ Head(s) \in S /\ Tail(s) \in Seq(S) /\ (Tail(s) = <<>> <=> Len(s) = 1)
         /\ Tail(s) # <<>> => Tail(s)[Len(Tail(s))] = s[Len(s)]
<1>1. Head(s) \in S /\ Tail(s) \in Seq(S) /\ Len(Tail(s)) = Len(s) - 1 /\ Len(s) \in Nat
  BY HeadTailProperties, LenProperties
<1>2. Tail(s) = <<>> <=> Len(Tail(s)) = 0
  BY <1>1, EmptySeq
<1>3. \A i \in 1 .. Len(Tail(s)) : Tail(s)[i] = s[i + 1]
  BY HeadTailProperties
<1>4. Tail(s) # <<>> => Len(Tail(s)) \in 1 .. Len(Tail(s)) /\ Len(Tail(s)) + 1 = Len(s)
  BY <1>1, <1>2
<1>5. Tail(s) # <<>> => Tail(s)[Len(Tail(s))] = s[Len(s)]
  BY <1>3, <1>4
<1> QED BY <1>1, <1>2, <1>5

\* certExists() is never the last stage.
EndsWell(s) == s # <<>> => s[Len(s)].op # "exists"

LEMMA NoExists ==
  ASSUME NEW S, NEW s \in Seq(S), \A x \in S : x.op # "exists"
  PROVE  EndsWell(s)
<1> SUFFICES ASSUME s # <<>> PROVE s[Len(s)].op # "exists"
  BY DEF EndsWell
<1>1. Len(s) \in Nat \ {0}
  BY EmptySeq, LenProperties
<1>2. s[Len(s)] \in S
  BY <1>1, ElementOfSeq
<1> QED BY <1>2

LEMMA Commands == \A c \in PowerCommands : Command(c) \in PowerStage
BY DEF Command, PowerStage

LEMMA TimeoutGiven == \A c \in PowerCalls : c.timeout \in Timeouts
BY DEF Timeouts

LEMMA Polls == \A k \in Kinds, t \in Timeouts : Poll(k, t) \in PowerStage
BY DEF Poll, PowerStage

LEMMA InitStages ==
  ASSUME NEW t \in Timeouts
  PROVE  init(t) \in Seq(PowerStage) /\ init(t) # <<>>
<1>1. /\ Poll("OK", t) \in PowerStage
      /\ \A x \in {"ATE0", "AT+CMEE=0", "AT+CTZR=0", "AT+CTZU=1", "AT+CPIN?"} : Command(x) \in PowerStage
  BY Commands, Polls DEF Kinds, PowerCommands, Settings
<1>2. Len(init(t)) = 6
  BY DEF init
<1> QED BY <1>1, <1>2 DEF init

LEMMA ResetStages ==
  ASSUME NEW t \in Timeouts
  PROVE  reset(t) \in Seq(PowerStage) /\ reset(t) # <<>>
<1>1. /\ Poll("OK", t) \in PowerStage /\ Poll("TIMEOUT", t) \in PowerStage
      /\ Command("AT+CRESET") \in PowerStage
  BY Commands, Polls DEF Kinds, PowerCommands
<1>2. Len(reset(t)) = 3
  BY DEF reset
<1> QED BY <1>1, <1>2 DEF reset

LEMMA PowerOffStages ==
  ASSUME NEW t \in Timeouts
  PROVE  powerOff(t) \in Seq(PowerStage) /\ powerOff(t) # <<>>
<1>1. Poll("TIMEOUT", t) \in PowerStage /\ Command("AT+CPOF") \in PowerStage
  BY Commands, Polls DEF Kinds, PowerCommands
<1>2. /\ <<Command("AT+CPOF")>> \in Seq(PowerStage) /\ <<Command("AT+CPOF")>> # <<>>
      /\ <<Poll("TIMEOUT", t)>> \in Seq(PowerStage) /\ <<>> \in Seq(PowerStage)
  BY <1>1
<1> QED BY <1>2, Joined DEF powerOff

LEMMA PowerStages ==
  ASSUME NEW c \in PowerCalls
  PROVE  Stages(c) \in Seq(PowerStage) /\ Stages(c) # <<>>
<1>1. c.fn \in Functions
  BY ClockAssumption
<1> USE TimeoutGiven
<1>2. /\ <<Command("AT+CFUN=1,1")>> \in Seq(PowerStage) /\ <<Command("AT+CFUN=1,1")>> # <<>>
      /\ <<Command("AT+CSCLK=2")>> \in Seq(PowerStage) /\ <<Command("AT+CSCLK=2")>> # <<>>
      /\ <<Command("AT")>> \in Seq(PowerStage) /\ <<Command("AT")>> # <<>>
  <2>1. /\ Command("AT+CFUN=1,1") \in PowerStage /\ Command("AT+CSCLK=2") \in PowerStage
        /\ Command("AT") \in PowerStage
    BY Commands DEF PowerCommands
  <2> QED BY <2>1, Single
<1>3. <<Poll("registered", c.timeout)>> \in Seq(PowerStage) /\ <<Poll("registered", c.timeout)>> # <<>>
  BY Polls DEF Kinds
<1>4. reset(c.timeout) \o init(InitTimeout) \in Seq(PowerStage) /\ reset(c.timeout) \o init(InitTimeout) # <<>>
  <2>1. InitTimeout \in Timeouts
    BY DEF Timeouts
  <2> QED BY <2>1, InitStages, ResetStages, Joined
<1> QED BY <1>1, <1>2, <1>3, <1>4, InitStages, ResetStages, PowerOffStages DEF Stages, Functions

LEMMA SessionStages ==
  ASSUME NEW c \in SessionCalls
  PROVE  ClientStages(c) \in Seq(SessionStage) /\ ClientStages(c) # <<>> /\ EndsWell(ClientStages(c))
<1> DEFINE S == {s \in SessionStage : s.op # "exists"}
<1>1. c.fn \in ClientFunctions
  BY SessionAssumption
<1>2. \A x \in {"AT+CMQTTSTART", "AT+CMQTTACCQ", "AT+CMQTTSSLCFG", "AT+CMQTTWILLTOPIC", "AT+CMQTTWILLMSG",
          "AT+CMQTTCONNECT", "AT+CMQTTDISC", "AT+CMQTTREL", "AT+CMQTTSTOP", "AT+HTTPINIT",
          "AT+HTTPTERM", "AT+HTTPPARA", "AT+HTTPDATA", "AT+CSSLCFG"} : Session(x) \in S
  BY DEF Session, SessionStage
<1>3. Ignored("AT+HTTPPARA") \in S
  BY DEF Ignored, SessionStage
<1>4. /\ [Session("AT+HTTPACTION") EXCEPT !.op = "action"] \in S
      /\ [Session("AT+HTTPREAD") EXCEPT !.op = "read"] \in S
  BY DEF Session, SessionStage
<1>5. /\ S \subseteq SessionStage /\ \A x \in S : x.op # "exists"
      /\ File("exists") \in SessionStage /\ File("download") \in SessionStage
      /\ File("download").op # "exists"
  BY DEF File, SessionStage
<1> DEFINE Fine == ClientStages(c) \in Seq(S) /\ ClientStages(c) # <<>>
<1> HIDE DEF S
<1>6. \A s \in Seq(S) : Optional(c, s) \in Seq(S)
  BY DEF Optional
<1>7. ASSUME c.fn = "mqttBegin" PROVE Fine
  <2>1. <<Session("AT+CMQTTSTART"), Session("AT+CMQTTACCQ")>> \in Seq(S)
        /\ <<Session("AT+CMQTTSTART"), Session("AT+CMQTTACCQ")>> # <<>>
    BY <1>2
  <2>2. Optional(c, <<Session("AT+CMQTTSSLCFG")>>) \in Seq(S)
    <3>1. <<Session("AT+CMQTTSSLCFG")>> \in Seq(S)
      BY <1>2
    <3> QED BY <3>1, <1>6
  <2> QED BY <1>7, <2>1, <2>2, Joined DEF ClientStages
<1>8. ASSUME c.fn = "mqttConnect" PROVE Fine
  <2>1. <<Session("AT+CMQTTCONNECT")>> \in Seq(S) /\ <<Session("AT+CMQTTCONNECT")>> # <<>>
    BY <1>2
  <2>2. <<Session("AT+CMQTTWILLTOPIC"), Session("AT+CMQTTWILLMSG")>> \in Seq(S)
    BY <1>2
  <2>3. Optional(c, <<Session("AT+CMQTTWILLTOPIC"), Session("AT+CMQTTWILLMSG")>>) \in Seq(S)
    BY <2>2, <1>6
  <2> QED BY <1>8, <2>1, <2>3, Joined DEF ClientStages
<1>9. ASSUME c.fn = "request" PROVE Fine
  <2> DEFINE parts == <<Ignored("AT+HTTPPARA"), Session("AT+HTTPPARA"), Session("AT+HTTPPARA"),
                        Session("AT+HTTPDATA")>>
             action == <<[Session("AT+HTTPACTION") EXCEPT !.op = "action"]>>
  <2>1. <<Session("AT+HTTPPARA")>> \in Seq(S) /\ <<Session("AT+HTTPPARA")>> # <<>>
    BY <1>2
  <2>2. parts \in Seq(S)
    BY <1>2, <1>3
  <2>3. Optional(c, parts) \in Seq(S)
    BY <2>2, <1>6
  <2>4. action \in Seq(S)
    BY <1>4
  <2>5. ClientStages(c) = <<Session("AT+HTTPPARA")>> \o Optional(c, parts) \o action
    BY <1>9 DEF ClientStages
  <2> HIDE DEF parts, action
  <2>6. <<Session("AT+HTTPPARA")>> \o Optional(c, parts) \in Seq(S)
        /\ <<Session("AT+HTTPPARA")>> \o Optional(c, parts) # <<>>
    BY <2>1, <2>3, Joined
  <2> QED BY <2>4, <2>5, <2>6, Joined
<1>10. ASSUME c.fn = "mqttEnd" PROVE Fine
  <2>1. Len(mqttEnd) = 2 /\ mqttEnd \in Seq(S)
    BY <1>2 DEF mqttEnd
  <2> QED BY <1>10, <2>1 DEF ClientStages
<1>11. CASE c.fn = "writeCaCert"
  <2>1. Session("AT+CSSLCFG") \in SessionStage /\ Session("AT+CSSLCFG").op # "exists"
    BY <1>2, <1>5
  <2>2. Len(ClientStages(c)) = 4 /\ ClientStages(c) \in Seq(SessionStage)
        /\ ClientStages(c)[4] = Session("AT+CSSLCFG")
    BY <1>5, <1>11, <2>1 DEF ClientStages
  <2> QED BY <2>1, <2>2 DEF EndsWell
<1>12. ASSUME c.fn \in {"mqttDisconnect", "httpBegin", "httpEnd", "getResponseBody"} PROVE Fine
  <2>1. PICK stage \in S : ClientStages(c) = <<stage>>
    BY <1>2, <1>4, <1>12 DEF ClientStages
  <2> QED BY <2>1, Single
<1>13. CASE Fine
  BY <1>5, <1>13, NoExists
<1> HIDE DEF Fine
<1> QED BY <1>1, <1>7, <1>8, <1>9, <1>10, <1>11, <1>12, <1>13 DEF ClientFunctions

-----------------------------------------------------------------------------
(* The clock *)

\* The time since the start is what really passed, as long as that is less than one
\* round of the clock.
LEMMA Elapsed ==
  ASSUME NEW W \in Nat \ {0}, NEW now \in 0 .. W - 1, NEW start \in 0 .. W - 1,
         NEW r \in Nat, NEW d \in Nat, (now - start) % W = r, r + d < W
  PROVE  /\ (now + d) % W \in 0 .. W - 1
         /\ (((now + d) % W) - start) % W = r + d
<1> DEFINE later == (now + d) % W
<1>1. later = IF now + d < W THEN now + d ELSE now + d - W
  <2>1. CASE now + d < W
    BY <2>1
  <2>2. CASE now + d >= W
    <3>1. d < W
      OBVIOUS
    <3> QED BY <2>2, <3>1
  <2> QED BY <2>1, <2>2
<1>2. r = IF now >= start THEN now - start ELSE now - start + W
  <2>1. CASE now >= start
    BY <2>1
  <2>2. CASE now < start
    BY <2>2
  <2> QED BY <2>1, <2>2
<1>3. later \in 0 .. W - 1
  BY <1>1, <1>2
<1>4. (later - start) % W = IF later >= start THEN later - start ELSE later - start + W
  <2> HIDE DEF later
  <2>1. CASE later >= start
    BY <1>3, <2>1
  <2>2. CASE later < start
    BY <1>3, <2>2
  <2> QED BY <1>3, <2>1, <2>2
<1> HIDE DEF later
<1>5. (later - start) % W = r + d
  BY <1>1, <1>2, <1>3, <1>4
<1> QED BY <1>3, <1>5 DEF later

-----------------------------------------------------------------------------
(* The parts of the type invariant, and of what the loops need besides: that the    *)
(* timer is of the stage it was started in, and knows how long that has lasted.     *)

Shape == /\ result \in {"running", "true", "false"}
         /\ Running <=> todo # <<>>
         /\ todo \in Seq(AllStages) /\ EndsWell(todo)

ModuleOK == /\ module \in {"up", "asleep", "restarting", "stopping", "down", "off"}
            /\ settings \subseteq Settings
            /\ sim \in {"open", "pin", "ready", "puk"}

CountsOK == calls \in 0 .. MaxCalls /\ late \in 0 .. MaxLate /\ owed \in 0 .. late

Timers == [start : 0 .. ClockSize - 1, real : Nat, kind : Kinds, timeout : Nat,
           state : {"off", "on", "met", "expired"}]

ClockRight == timer.state = "on" =>
  /\ Polling /\ timer.kind = Stage.arg /\ timer.timeout = Stage.timeout
  /\ timer.timeout + Wait[timer.kind] + Pause[timer.kind] < ClockSize
  /\ (millis - timer.start) % ClockSize = timer.real

TimerOK == /\ millis \in 0 .. ClockSize - 1 /\ timer \in Timers
           /\ ClockRight
           /\ PollsEndInTime

SessionOK == /\ session \in SessionTypes /\ Owned(session) /\ session.body.number <= calls
             /\ file \in {"none", "old", "new"}
             /\ lastStatus \in 0 .. calls /\ lastLength \in Nat
             /\ orphaned \in BOOLEAN

IInv == Shape /\ ModuleOK /\ CountsOK /\ TimerOK /\ SessionOK

LEMMA StageOf ==
  ASSUME Shape, Running
  PROVE  /\ todo # <<>> /\ Stage \in AllStages
         /\ Stage.op \in {"command", "poll"} => Stage \in PowerStage
         /\ Stage.op \in {"session", "ignored"} => Stage \in SessionStage
<1>1. todo # <<>> /\ Stage \in AllStages
  BY Rest DEF Shape, Stage
<1> QED BY <1>1 DEF AllStages, PowerStage, SessionStage

LEMMA TypesFromIInv == IInv => TypeOK /\ PollsEndInTime
<1> SUFFICES ASSUME IInv PROVE TypeOK /\ PollsEndInTime
  OBVIOUS
<1>1. PowerTypeOK
  <2>1. Polling => timer.kind = Stage.arg /\ timer.timeout = Stage.timeout
    BY DEF IInv, TimerOK, ClockRight, Polling
  <2>2. Running /\ Stage.op \in {"command", "poll"} => Stage \in PowerStage
    BY StageOf DEF IInv
  <2> QED BY <2>1, <2>2 DEF IInv, Shape, ModuleOK, CountsOK, TimerOK, Timers, PowerTypeOK
<1> QED BY <1>1 DEF IInv, Shape, TimerOK, SessionOK, TypeOK, AllStages

LEMMA Succeeds ==
  ASSUME Shape, Running, Succeed
  PROVE  Shape' /\ todo' = Tail(todo)
<1>1. todo # <<>> /\ todo \in Seq(AllStages)
  BY DEF Shape
<1>2. Tail(todo) \in Seq(AllStages) /\ (Tail(todo) = <<>> <=> Len(todo) = 1)
  BY <1>1, Rest
<1>3. EndsWell(Tail(todo))
  BY <1>1, Rest DEF Shape, EndsWell
<1>4. todo' = Tail(todo) /\ (result' = IF Len(todo) = 1 THEN "true" ELSE result)
  BY <1>2 DEF Succeed
<1> QED BY <1>2, <1>3, <1>4 DEF Shape, Running

LEMMA Fails ==
  ASSUME Fail
  PROVE  Shape'
BY EmptySeq DEF Fail, Shape, Running, EndsWell

LEMMA TimerIdle ==
  ASSUME IInv, timer.state # "on", UNCHANGED <<millis, timer>>
  PROVE  TimerOK'
BY DEF IInv, TimerOK, ClockRight, PollsEndInTime, Overrun

LEMMA TimerKept ==
  ASSUME IInv, UNCHANGED <<millis, timer, todo, result>>
  PROVE  TimerOK'
BY DEF IInv, TimerOK, ClockRight, PollsEndInTime, Overrun, Polling, Running, Stage

\* Outside the loops the timer is not running.
LEMMA NotInLoop ==
  ASSUME IInv, ~Running \/ Stage.op # "poll"
  PROVE  timer.state # "on"
BY DEF IInv, TimerOK, ClockRight, Polling

LEMMA Effects ==
  ASSUME IInv, NEW c, Effect(c)
  PROVE  ModuleOK'
BY DEF IInv, ModuleOK, Effect

LEMMA NoEffects ==
  ASSUME IInv, NoEffect
  PROVE  ModuleOK'
BY DEF IInv, ModuleOK, NoEffect

-----------------------------------------------------------------------------
(* The steps of class A76XX *)

LEMMA StartIInv == Start => IInv
<1> SUFFICES ASSUME Start PROVE IInv
  OBVIOUS
<1> USE DEF Start, Init
<1>1. Shape
  BY EmptySeq DEF Shape, Running, EndsWell
<1>2. ModuleOK
  BY ClockAssumption DEF ModuleOK
<1>3. CountsOK
  BY ClockAssumption DEF CountsOK
<1>4. TimerOK
  <2>1. NoTimer \in Timers
    BY ClockAssumption DEF NoTimer, Timers, Kinds
  <2> QED BY <2>1, ClockAssumption DEF TimerOK, ClockRight, PollsEndInTime, NoTimer
<1>5. SessionOK
  <2>1. NoSession \in SessionTypes /\ Owned(NoSession) /\ NoSession.body = NoResponse
    BY DEF NoSession, NoResponse, SessionTypes, Owned
  <2>2. session \in SessionTypes /\ Owned(session) /\ session.body = NoResponse
    BY <2>1, SessionAssumption
  <2>3. session.body.number = 0
    BY <2>2 DEF NoResponse
  <2>4. calls = 0 /\ lastStatus = 0 /\ lastLength = 0 /\ orphaned = FALSE /\ file \in {"none", "old"}
    OBVIOUS
  <2>5. session.body.number <= calls /\ lastStatus \in 0 .. calls /\ lastLength \in Nat
    BY <2>3, <2>4
  <2>6. file \in {"none", "old", "new"} /\ orphaned \in BOOLEAN
    BY <2>4
  <2> QED BY <2>2, <2>5, <2>6 DEF SessionOK
<1> QED BY <1>1, <1>2, <1>3, <1>4, <1>5 DEF IInv

\* What a step of class A76XX does to the services.
LEMMA Services ==
  ASSUME IInv, calls' \in {calls, calls + 1},
         session' = (IF Hears /\ module' \in {"down", "off"} THEN NoSession ELSE session),
         UNCHANGED <<file, lastStatus, lastLength, copied, orphaned>>
  PROVE  SessionOK'
<1>1. NoSession \in SessionTypes /\ Owned(NoSession) /\ NoSession.body.number = 0
  BY DEF NoSession, NoResponse, SessionTypes, Owned
<1>2. calls \in Nat /\ calls <= calls' /\ calls' \in Nat
  BY DEF IInv, CountsOK
<1>3. session' \in SessionTypes /\ Owned(session')
  BY <1>1 DEF IInv, SessionOK
<1>4. session.body.number \in Nat /\ session'.body.number \in Nat
  BY <1>3 DEF IInv, SessionOK, SessionTypes
<1>5. session'.body.number <= calls'
  BY <1>1, <1>2, <1>4 DEF IInv, SessionOK
<1>6. lastStatus' \in 0 .. calls'
  BY <1>2 DEF IInv, SessionOK
<1> QED BY <1>3, <1>5, <1>6 DEF IInv, SessionOK

LEMMA CallKeeps ==
  ASSUME IInv, NEW c, NEW s \in Seq(AllStages), s # <<>>, EndsWell(s), Call(c, s)
  PROVE  Shape' /\ ModuleOK' /\ CountsOK' /\ TimerOK' /\ calls' = calls + 1
<1> USE DEF Call
<1>1. Shape'
  BY DEF Shape, Running
<1>2. ModuleOK'
  BY DEF IInv, ModuleOK
<1>3. CountsOK' /\ calls' = calls + 1
  BY ClockAssumption DEF IInv, CountsOK
<1>4. TimerOK'
  <2>1. NoTimer \in Timers
    BY ClockAssumption DEF NoTimer, Timers, Kinds
  <2> QED BY <2>1 DEF IInv, TimerOK, ClockRight, PollsEndInTime, NoTimer
<1> QED BY <1>1, <1>2, <1>3, <1>4

LEMMA CallPowerStep ==
  ASSUME IInv, CallPower
  PROVE  Shape' /\ ModuleOK' /\ CountsOK' /\ TimerOK' /\ calls' \in {calls, calls + 1}
<1>1. PICK c \in PowerCalls : Call(c, Stages(c))
  BY DEF CallPower
<1>2. Stages(c) \in Seq(AllStages) /\ Stages(c) # <<>>
  BY PowerStages DEF AllStages
<1>3. EndsWell(Stages(c))
  <2>1. \A x \in PowerStage : x.op # "exists"
    BY DEF PowerStage
  <2> QED BY <2>1, PowerStages, NoExists
<1> QED BY <1>1, <1>2, <1>3, CallKeeps

LEMMA DoneStep ==
  ASSUME IInv, Done
  PROVE  Shape' /\ ModuleOK' /\ CountsOK' /\ TimerOK' /\ calls' \in {calls, calls + 1}
<1> USE DEF Done
<1>1. Running /\ Stage.op = "command" /\ Shape
  BY DEF IInv
<1>2. Shape'
  <2>1. CASE Succeed
    BY <1>1, <2>1, Succeeds
  <2>2. CASE Fail
    BY <2>2, Fails
  <2>3. CASE todo' = <<Command("AT+CPIN=")>> /\ UNCHANGED result
    <3>1. Command("AT+CPIN=") \in AllStages
      BY Commands DEF PowerCommands, AllStages
    <3>2. EndsWell(<<Command("AT+CPIN=")>>)
      BY DEF EndsWell, Command
    <3> QED BY <1>1, <2>3, <3>1, <3>2, Single DEF Shape, Running
  <2> QED BY <2>1, <2>2, <2>3 DEF Unlock
<1>3. ModuleOK'
  BY Effects
<1>4. CountsOK'
  BY DEF IInv, CountsOK
<1>5. TimerOK'
  BY <1>1, NotInLoop, TimerIdle
<1> QED BY <1>2, <1>3, <1>4, <1>5

LEMMA RefusedStep ==
  ASSUME IInv, Refused
  PROVE  Shape' /\ ModuleOK' /\ CountsOK' /\ TimerOK' /\ calls' \in {calls, calls + 1}
<1> USE DEF Refused
<1>1. Shape'
  BY Fails
<1>2. ModuleOK'
  BY DEF IInv, ModuleOK
<1>3. CountsOK'
  BY DEF IInv, CountsOK
<1>4. TimerOK'
  BY NotInLoop, TimerIdle
<1> QED BY <1>1, <1>2, <1>3, <1>4

LEMMA UnansweredStep ==
  ASSUME IInv, Unanswered
  PROVE  Shape' /\ ModuleOK' /\ CountsOK' /\ TimerOK' /\ calls' \in {calls, calls + 1}
<1> USE DEF Unanswered
<1>1. Shape'
  BY Fails
<1>2. ModuleOK'
  BY Effects, NoEffects
<1>3. CountsOK'
  BY ClockAssumption DEF IInv, CountsOK
<1>4. TimerOK'
  BY NotInLoop, TimerIdle
<1> QED BY <1>1, <1>2, <1>3, <1>4

LEMMA TakesLateStep ==
  ASSUME IInv, TakesLate
  PROVE  Shape' /\ ModuleOK' /\ CountsOK' /\ TimerOK' /\ calls' \in {calls, calls + 1}
<1> USE DEF TakesLate
<1>1. Shape'
  BY Succeeds DEF IInv
<1>2. ModuleOK'
  BY Effects, NoEffects
<1>3. CountsOK'
  <2>1. owed' \in {owed, owed - 1} /\ owed > 0
    OBVIOUS
  <2> QED BY <2>1 DEF IInv, CountsOK
<1>4. TimerOK'
  BY NotInLoop, TimerIdle
<1> QED BY <1>1, <1>2, <1>3, <1>4

LEMMA EnterStep ==
  ASSUME IInv, Enter
  PROVE  Shape' /\ ModuleOK' /\ CountsOK' /\ TimerOK' /\ calls' \in {calls, calls + 1}
<1> USE DEF Enter
<1>1. Running /\ Stage.op = "poll" /\ Shape
  BY DEF IInv
<1>2. Stage \in PowerStage
  BY <1>1, StageOf
<1>3. Stage.arg \in Kinds /\ Stage.timeout \in Timeouts
  BY <1>1, <1>2 DEF PowerStage
<1>4. /\ Stage.timeout \in Nat /\ Stage.timeout + Wait[Stage.arg] + Pause[Stage.arg] < ClockSize
      /\ Wait[Stage.arg] \in Nat \ {0} /\ Pause[Stage.arg] \in Nat /\ ClockSize \in Nat \ {0}
  BY <1>3, ClockAssumption
<1>5. millis \in 0 .. ClockSize - 1 /\ (millis - millis) % ClockSize = 0
  BY <1>4 DEF IInv, TimerOK
<1>6. Shape'
  BY <1>1 DEF Shape, Running
<1>7. ModuleOK' /\ CountsOK'
  BY DEF IInv, ModuleOK, CountsOK
<1>8. timer' \in Timers
  BY <1>3, <1>4, <1>5 DEF Timers
<1>9. ClockRight'
  BY <1>1, <1>3, <1>4, <1>5 DEF ClockRight, Polling, Running, Stage
<1>10. PollsEndInTime'
  <2>1. timer'.state = "on" /\ timer'.real = 0 /\ timer'.kind = Stage.arg /\ timer'.timeout = Stage.timeout
    OBVIOUS
  <2>2. 0 < Stage.timeout + (Wait[Stage.arg] + Pause[Stage.arg])
    BY <1>3, <1>4
  <2> QED BY <2>1, <2>2 DEF PollsEndInTime, Overrun
<1> QED BY <1>5, <1>6, <1>7, <1>8, <1>9, <1>10 DEF TimerOK

-----------------------------------------------------------------------------
(* The loops *)

\* What is known of the timer while a loop runs.
LEMMA InLoop ==
  ASSUME IInv, Polling
  PROVE  /\ ClockSize \in Nat \ {0}
         /\ timer.kind \in Kinds /\ timer.timeout \in Nat /\ timer.real \in Nat
         /\ timer.start \in 0 .. ClockSize - 1 /\ millis \in 0 .. ClockSize - 1
         /\ Wait[timer.kind] \in Nat \ {0} /\ Pause[timer.kind] \in Nat
         /\ timer.timeout + Wait[timer.kind] + Pause[timer.kind] < ClockSize
         /\ (millis - timer.start) % ClockSize = timer.real
         /\ timer.real < timer.timeout + Wait[timer.kind] + Pause[timer.kind]
         /\ timer.kind = Stage.arg /\ timer.timeout = Stage.timeout
         /\ expired <=> timer.real >= timer.timeout
BY ClockAssumption DEF IInv, TimerOK, Timers, ClockRight, PollsEndInTime, Overrun, Polling, expired

\* d ticks later, where d is no more than one wait and one pause.
LEMMA Later ==
  ASSUME IInv, Polling, NEW d \in Nat, timer.real + d < ClockSize, NEW state \in {"on", "met", "expired"},
         Leave(state, d)
  PROVE  /\ millis' \in 0 .. ClockSize - 1 /\ timer' \in Timers
         /\ (millis' - timer'.start) % ClockSize = timer.real + d
         /\ timer'.real = timer.real + d /\ timer'.state = state
         /\ timer'.kind = timer.kind /\ timer'.timeout = timer.timeout
<1>1. timer \in Timers
  BY DEF IInv, TimerOK
<1>2. timer' = [timer EXCEPT !.state = state, !.real = timer.real + d]
  BY DEF Leave
<1>3. timer.real + d \in Nat
  BY InLoop
<1>4. /\ timer' \in Timers /\ timer'.real = timer.real + d /\ timer'.state = state
      /\ timer'.kind = timer.kind /\ timer'.timeout = timer.timeout /\ timer'.start = timer.start
  BY <1>1, <1>2, <1>3 DEF Timers
<1>5. millis' = (millis + d) % ClockSize
  BY DEF Leave, Pass
<1>6. /\ (millis + d) % ClockSize \in 0 .. ClockSize - 1
      /\ (((millis + d) % ClockSize) - timer.start) % ClockSize = timer.real + d
  <2> DEFINE now == millis
             start == timer.start
             r == timer.real
  <2>1. /\ ClockSize \in Nat \ {0} /\ now \in 0 .. ClockSize - 1 /\ start \in 0 .. ClockSize - 1
        /\ r \in Nat /\ r + d < ClockSize /\ (now - start) % ClockSize = r
    BY InLoop
  <2> HIDE DEF now, start, r
  <2>2. d \in Nat
    OBVIOUS
  <2>3. \A W \in Nat \ {0} : now \in 0 .. W - 1 /\ start \in 0 .. W - 1 /\ r + d < W /\ (now - start) % W = r
          => (now + d) % W \in 0 .. W - 1 /\ (((now + d) % W) - start) % W = r + d
    <3> TAKE W \in Nat \ {0}
    <3> HAVE now \in 0 .. W - 1 /\ start \in 0 .. W - 1 /\ r + d < W /\ (now - start) % W = r
    <3>1. r \in Nat
      BY <2>1
    <3> QED BY <2>2, <3>1, Elapsed
  <2>4. (now + d) % ClockSize \in 0 .. ClockSize - 1 /\ (((now + d) % ClockSize) - start) % ClockSize = r + d
    BY <2>1, <2>3
  <2> QED BY <2>4 DEF now, start, r
<1> QED BY <1>4, <1>5, <1>6

LEMMA GiveUpStep ==
  ASSUME IInv, GiveUp
  PROVE  Shape' /\ ModuleOK' /\ CountsOK' /\ TimerOK' /\ calls' \in {calls, calls + 1}
<1> USE DEF GiveUp
<1>1. Shape'
  BY Fails
<1>2. ModuleOK' /\ CountsOK'
  BY DEF IInv, ModuleOK, CountsOK
<1>3. timer.real + 0 < ClockSize
  BY InLoop
<1>4. /\ millis' \in 0 .. ClockSize - 1 /\ timer' \in Timers
      /\ timer'.real = timer.real + 0 /\ timer'.state = "expired"
      /\ timer'.kind = timer.kind /\ timer'.timeout = timer.timeout
  BY <1>3, Later
<1>5. PollsEndInTime'
  BY <1>4, InLoop DEF PollsEndInTime, Overrun
<1> QED BY <1>1, <1>2, <1>4, <1>5 DEF TimerOK, ClockRight

LEMMA PollStep ==
  ASSUME IInv, PollOnce
  PROVE  Shape' /\ ModuleOK' /\ CountsOK' /\ TimerOK' /\ calls' \in {calls, calls + 1}
<1>1. Polling /\ Running /\ Shape /\ ~expired /\ UNCHANGED <<call, calls>>
  BY DEF PollOnce, Polling, IInv
<1>2. PICK a \in Answers, d \in 0 .. Wait[timer.kind] :
        /\ Answer(a, d)
        /\ IF a = timer.kind
           THEN Leave("met", d) /\ Succeed
           ELSE Leave("on", d + Pause[timer.kind]) /\ UNCHANGED <<todo, result>>
  BY DEF PollOnce
<1>3. /\ d \in Nat /\ d <= Wait[timer.kind]
      /\ timer.real < timer.timeout
      /\ timer.real + d < ClockSize
      /\ d + Pause[timer.kind] \in Nat
      /\ timer.real + (d + Pause[timer.kind]) < ClockSize
  BY <1>1, InLoop
<1>4. NoEffect
  BY <1>2 DEF Answer
<1>5. ModuleOK'
  BY <1>4, NoEffects
<1>6. CountsOK'
  <2>1. \/ UNCHANGED <<owed, late>>
        \/ late < MaxLate /\ owed' = owed + 1 /\ late' = late + 1
        \/ owed > 0 /\ owed' \in {owed - 1, owed} /\ late' = late
    BY <1>2 DEF Answer
  <2> QED BY <1>1, <2>1, ClockAssumption DEF IInv, CountsOK
<1>7. CASE a = timer.kind
  <2>1. Leave("met", d) /\ Succeed
    BY <1>2, <1>7
  <2>2. /\ millis' \in 0 .. ClockSize - 1 /\ timer' \in Timers
        /\ timer'.real = timer.real + d /\ timer'.state = "met"
        /\ timer'.kind = timer.kind /\ timer'.timeout = timer.timeout
    BY <1>1, <1>3, <2>1, Later
  <2>3. PollsEndInTime'
    BY <1>1, <1>3, <2>2, InLoop DEF PollsEndInTime, Overrun
  <2>4. TimerOK'
    BY <2>2, <2>3 DEF TimerOK, ClockRight
  <2>5. Shape'
    BY <1>1, <2>1, Succeeds
  <2> QED BY <1>1, <1>5, <1>6, <2>4, <2>5
<1>8. CASE a # timer.kind
  <2>1. Leave("on", d + Pause[timer.kind]) /\ UNCHANGED <<todo, result>>
    BY <1>2, <1>8
  <2>2. /\ millis' \in 0 .. ClockSize - 1 /\ timer' \in Timers
        /\ (millis' - timer'.start) % ClockSize = timer.real + (d + Pause[timer.kind])
        /\ timer'.real = timer.real + (d + Pause[timer.kind]) /\ timer'.state = "on"
        /\ timer'.kind = timer.kind /\ timer'.timeout = timer.timeout
    BY <1>1, <1>3, <2>1, Later
  <2>3. PollsEndInTime'
    BY <1>1, <1>3, <2>2, InLoop DEF PollsEndInTime, Overrun
  <2>4. Polling'
    BY <1>1, <2>1, <2>2 DEF Polling, Running, Stage
  <2>5. ClockRight'
    BY <1>1, <2>1, <2>2, <2>4, InLoop DEF ClockRight, Stage
  <2>6. Shape'
    BY <1>1, <2>1 DEF Shape, Running
  <2> QED BY <1>1, <1>5, <1>6, <2>2, <2>3, <2>5, <2>6 DEF TimerOK
<1> QED BY <1>7, <1>8

LEMMA ModuleStep ==
  ASSUME IInv, GoDown \/ Boot \/ Wake
  PROVE  Shape' /\ ModuleOK' /\ CountsOK' /\ TimerOK' /\ calls' \in {calls, calls + 1}
<1>1. UNCHANGED <<millis, call, calls, todo, result, timer, owed, late>>
  BY DEF GoDown, Boot, Wake
<1>2. Shape'
  BY <1>1 DEF IInv, Shape, Running
<1>3. ModuleOK'
  BY DEF IInv, ModuleOK, GoDown, Boot, Wake, Fresh
<1>4. CountsOK'
  BY <1>1 DEF IInv, CountsOK
<1>5. TimerOK'
  BY <1>1, TimerKept
<1> QED BY <1>1, <1>2, <1>3, <1>4, <1>5

LEMMA PowerIInv ==
  ASSUME IInv, PowerStep
  PROVE  IInv'
<1>1. Shape' /\ ModuleOK' /\ CountsOK' /\ TimerOK' /\ calls' \in {calls, calls + 1}
  BY CallPowerStep, DoneStep, RefusedStep, UnansweredStep, TakesLateStep, EnterStep, GiveUpStep,
     PollStep, ModuleStep
  DEF PowerStep, PowerNext
<1>2. SessionOK'
  BY <1>1, Services DEF PowerStep
<1> QED BY <1>1, <1>2 DEF IInv

-----------------------------------------------------------------------------
(* The steps of the clients *)

LEMMA AfterOK ==
  ASSUME IInv, NEW c, Allowed(c)
  PROVE  After(c) \in SessionTypes /\ Owned(After(c)) /\ After(c).body.number <= calls
<1>1. /\ session \in SessionTypes /\ Owned(session) /\ session.body.number <= calls
      /\ calls \in Nat /\ NoResponse \in [number : Nat, length : Nat] /\ NoResponse.number <= calls
  BY DEF IInv, SessionOK, CountsOK, NoResponse
<1>2. CASE c = "AT+CMQTTSTART"
  BY <1>1, <1>2 DEF After, SessionTypes, Owned
<1>3. CASE c \in {"AT+CMQTTACCQ", "AT+CMQTTCONNECT", "AT+CMQTTDISC"}
  <2>1. session.service = "started"
    BY <1>1, <1>3 DEF Allowed, Owned
  <2> QED BY <1>1, <1>3, <2>1 DEF After, SessionTypes, Owned
<1>4. CASE c = "AT+CMQTTREL"
  BY <1>1, <1>4 DEF After, SessionTypes, Owned
<1>5. CASE c = "AT+CMQTTSTOP"
  BY <1>1, <1>5 DEF After, SessionTypes, Owned, Allowed
<1>6. CASE c \in {"AT+HTTPINIT", "AT+HTTPTERM"}
  BY <1>1, <1>6 DEF After, SessionTypes, Owned
<1>7. CASE c \notin {"AT+CMQTTSTART", "AT+CMQTTACCQ", "AT+CMQTTCONNECT", "AT+CMQTTDISC",
                     "AT+CMQTTREL", "AT+CMQTTSTOP", "AT+HTTPINIT", "AT+HTTPTERM"}
  <2>1. After(c) = session
    BY <1>7 DEF After
  <2> QED BY <1>1, <2>1
<1> QED BY <1>2, <1>3, <1>4, <1>5, <1>6, <1>7

\* A command that is no poll ends its stage, or the call.
LEMMA StageEnds ==
  ASSUME IInv, Same, Running, Stage.op # "poll", Succeed \/ Fail
  PROVE  Shape' /\ ModuleOK' /\ CountsOK' /\ TimerOK' /\ calls' = calls
<1> USE DEF Same
<1>1. Shape'
  BY Succeeds, Fails DEF IInv
<1>2. ModuleOK' /\ CountsOK'
  BY DEF IInv, ModuleOK, CountsOK
<1>3. TimerOK'
  BY NotInLoop, TimerIdle
<1> QED BY <1>1, <1>2, <1>3

LEMMA CallClientIInv ==
  ASSUME IInv, CallClient
  PROVE  IInv'
<1>1. PICK c \in SessionCalls :
        IF NoRoom(c)
        THEN /\ ~Running /\ calls < MaxCalls
             /\ call' = c /\ calls' = calls + 1 /\ result' = "false"
             /\ timer' = NoTimer /\ since' = {}
             /\ UNCHANGED <<millis, module, settings, sim, todo, owed, late>>
        ELSE Call(c, ClientStages(c))
  BY DEF CallClient
<1>2. Shape' /\ ModuleOK' /\ CountsOK' /\ TimerOK' /\ calls' = calls + 1
  <2>1. CASE NoRoom(c)
    <3>1. Shape' /\ ModuleOK'
      BY <1>1, <2>1 DEF IInv, Shape, ModuleOK, Running
    <3>2. CountsOK' /\ calls' = calls + 1
      BY <1>1, <2>1, ClockAssumption DEF IInv, CountsOK
    <3>3. NoTimer \in Timers
      BY ClockAssumption DEF NoTimer, Timers, Kinds
    <3>4. TimerOK'
      BY <1>1, <2>1, <3>3 DEF IInv, TimerOK, ClockRight, PollsEndInTime, NoTimer
    <3> QED BY <3>1, <3>2, <3>4
  <2>2. CASE ~NoRoom(c)
    <3>1. ClientStages(c) \in Seq(AllStages) /\ ClientStages(c) # <<>> /\ EndsWell(ClientStages(c))
      BY SessionStages DEF AllStages
    <3> QED BY <1>1, <2>2, <3>1, CallKeeps
  <2> QED BY <2>1, <2>2
<1>3. SessionOK'
  <2>1. calls \in Nat /\ calls' \in Nat /\ calls <= calls'
    BY <1>2 DEF IInv, CountsOK
  <2>2. session.body.number \in Nat
    BY DEF IInv, SessionOK, SessionTypes
  <2>3. session'.body.number <= calls' /\ lastStatus' \in 0 .. calls'
    BY <2>1, <2>2 DEF IInv, SessionOK, CallClient
  <2>4. orphaned' \in BOOLEAN
    BY DEF CallClient, Orphan
  <2> QED BY <2>3, <2>4 DEF IInv, SessionOK, CallClient
<1> QED BY <1>2, <1>3 DEF IInv

LEMMA SessionCommandIInv ==
  ASSUME IInv, SessionDone \/ SessionRefused \/ SessionUnanswered
  PROVE  IInv'
<1>1. AtSession /\ Same /\ (Succeed \/ Fail)
  BY DEF SessionDone, SessionRefused, SessionUnanswered, FailUnlessIgnored
<1>2. Shape' /\ ModuleOK' /\ CountsOK' /\ TimerOK' /\ calls' = calls
  BY <1>1, StageEnds DEF AtSession
<1>3. session' = session \/ (Allowed(Stage.arg) /\ session' = After(Stage.arg))
  BY DEF SessionDone, SessionRefused, SessionUnanswered, sessions
<1>4. session' \in SessionTypes /\ Owned(session') /\ session'.body.number <= calls'
  <2>1. CASE session' = session
    BY <1>2, <2>1 DEF IInv, SessionOK
  <2>2. CASE Allowed(Stage.arg) /\ session' = After(Stage.arg)
    BY <1>2, <2>2, AfterOK
  <2> QED BY <1>3, <2>1, <2>2
<1>5. UNCHANGED <<file, lastStatus, lastLength, orphaned>>
  BY DEF SessionDone, SessionRefused, SessionUnanswered, sessions
<1>6. SessionOK'
  BY <1>2, <1>4, <1>5 DEF IInv, SessionOK
<1> QED BY <1>2, <1>6 DEF IInv

LEMMA ConnectionLostIInv ==
  ASSUME IInv, ConnectionLost
  PROVE  IInv'
<1> USE DEF ConnectionLost, power
<1>1. Shape' /\ ModuleOK' /\ CountsOK'
  BY DEF IInv, Shape, Running, ModuleOK, CountsOK
<1>2. TimerOK'
  BY TimerKept
<1>3. SessionOK'
  BY DEF IInv, SessionOK, SessionTypes, Owned
<1> QED BY <1>1, <1>2, <1>3 DEF IInv

LEMMA ActionIInv ==
  ASSUME IInv, ActionDone \/ ActionFailed
  PROVE  IInv'
<1>1. Running /\ Stage.op = "action" /\ Same /\ (Succeed \/ Fail)
  BY DEF ActionDone, ActionFailed, AtOp
<1>2. Shape' /\ ModuleOK' /\ CountsOK' /\ TimerOK' /\ calls' = calls /\ calls \in Nat
  BY <1>1, StageEnds DEF IInv, CountsOK
<1>3. \A length \in Lengths : Response(length) \in [number : Nat, length : Nat]
                              /\ Response(length).number = calls
  BY <1>2, SessionAssumption DEF Response
<1>4. session' = session \/ \E length \in Lengths : session' = [session EXCEPT !.body = Response(length)]
  BY DEF ActionDone, ActionFailed
<1>5. session' \in SessionTypes /\ Owned(session') /\ session'.body.number <= calls'
  BY <1>2, <1>3, <1>4 DEF IInv, SessionOK, SessionTypes, Owned
<1>6. lastStatus' \in 0 .. calls' /\ lastLength' \in Nat /\ UNCHANGED <<file, orphaned>>
  <2>1. CASE ActionFailed
    BY <1>2, <2>1 DEF IInv, SessionOK, ActionFailed
  <2>2. CASE ActionDone
    <3>1. PICK length \in Lengths : lastStatus' = Response(length).number /\ lastLength' = length
      BY <2>2 DEF ActionDone
    <3> QED BY <1>2, <1>3, <2>2, <3>1, SessionAssumption DEF ActionDone
  <2> QED BY <2>1, <2>2
<1> QED BY <1>2, <1>5, <1>6 DEF IInv, SessionOK

LEMMA BodyIInv ==
  ASSUME IInv, BodyRead \/ BodyNotRead
  PROVE  IInv'
<1>1. Running /\ Stage.op = "read" /\ Same /\ (Succeed \/ Fail)
  BY DEF BodyRead, BodyNotRead, AtOp
<1>2. Shape' /\ ModuleOK' /\ CountsOK' /\ TimerOK' /\ calls' = calls
  BY <1>1, StageEnds
<1>3. UNCHANGED <<session, file, lastStatus, lastLength, orphaned>>
  BY DEF BodyRead, BodyNotRead, sessions
<1> QED BY <1>2, <1>3 DEF IInv, SessionOK

LEMMA ExistsIInv ==
  ASSUME IInv, Exists
  PROVE  IInv'
<1>1. Running /\ Stage.op = "exists" /\ Same /\ UNCHANGED <<sessions, result>> /\ Shape
  BY DEF Exists, AtOp, IInv
<1> DEFINE rest == Tail(todo)
<1>2. rest \in Seq(AllStages) /\ EndsWell(rest) /\ (rest = <<>> <=> Len(todo) = 1)
  BY <1>1, Rest DEF Shape, EndsWell
<1>3. rest # <<>>
  <2>1. SUFFICES ASSUME Len(todo) = 1 PROVE FALSE
    BY <1>2
  <2>2. todo[1] = Head(todo) /\ todo # <<>>
    BY <1>1 DEF Shape
  <2> QED BY <1>1, <2>1, <2>2 DEF Shape, EndsWell, Stage
<1> HIDE DEF rest
<1>4. todo' \in Seq(AllStages) /\ todo' # <<>> /\ EndsWell(todo')
  <2>1. CASE todo' = rest
    BY <1>2, <1>3, <2>1
  <2>2. CASE todo' = <<File("delete")>> \o rest
    <3>1. File("delete") \in AllStages
      BY DEF File, AllStages, SessionStage
    <3>2. <<File("delete")>> \in Seq(AllStages) /\ <<File("delete")>> # <<>> /\ Len(<<File("delete")>>) = 1
      BY <3>1, Single
    <3>3. Len(rest) \in Nat \ {0}
      BY <1>2, <1>3, EmptySeq, LenProperties
    <3>4. /\ Len(<<File("delete")>> \o rest) = 1 + Len(rest)
          /\ (<<File("delete")>> \o rest)[1 + Len(rest)] = rest[Len(rest)]
      BY <1>2, <3>2, <3>3, ConcatProperties
    <3> QED BY <1>2, <1>3, <2>2, <3>2, <3>4, Joined DEF EndsWell
  <2> QED BY <2>1, <2>2 DEF Exists, rest
<1>5. Shape'
  BY <1>1, <1>4 DEF Shape, Running
<1>6. ModuleOK' /\ CountsOK'
  BY <1>1 DEF IInv, ModuleOK, CountsOK, Same
<1>7. TimerOK'
  BY <1>1, NotInLoop, TimerIdle DEF Same
<1>8. SessionOK'
  BY <1>1 DEF IInv, SessionOK, Same, sessions
<1> QED BY <1>5, <1>6, <1>7, <1>8 DEF IInv

LEMMA FileIInv ==
  ASSUME IInv, DeleteDone \/ DownloadDone \/ FileFailed
  PROVE  IInv'
<1>1. Running /\ Stage.op \in {"delete", "download"} /\ Same /\ (Succeed \/ Fail)
  BY DEF DeleteDone, DownloadDone, FileFailed, AtOp
<1>2. Shape' /\ ModuleOK' /\ CountsOK' /\ TimerOK' /\ calls' = calls
  BY <1>1, StageEnds
<1>3. UNCHANGED <<session, lastStatus, lastLength, orphaned>> /\ file' \in {file, "none", "new"}
  BY DEF DeleteDone, DownloadDone, FileFailed
<1> QED BY <1>2, <1>3 DEF IInv, SessionOK

LEMMA StutterIInv ==
  ASSUME IInv, UNCHANGED vars
  PROVE  IInv'
<1> USE DEF vars, power, sessions
<1>1. Shape' /\ ModuleOK' /\ CountsOK' /\ SessionOK'
  BY DEF IInv, Shape, Running, ModuleOK, CountsOK, SessionOK
<1>2. TimerOK'
  BY TimerKept
<1> QED BY <1>1, <1>2 DEF IInv

LEMMA NextIInv == IInv /\ [Next]_vars => IInv'
BY PowerIInv, CallClientIInv, SessionCommandIInv, ConnectionLostIInv, ActionIInv, BodyIInv,
   ExistsIInv, FileIInv, StutterIInv
DEF Next, ClientStep

-----------------------------------------------------------------------------
(* Theorems *)

\* The variables keep their types: the module its state, the calls their stages, the
\* clients what they remember, and there is no client without a service.
THEOREM SessionsTypeOK == Spec => []TypeOK
<1>1. IInv => TypeOK
  BY TypesFromIInv
<1> QED BY <1>1, StartIInv, NextIInv, PTL DEF Spec

\* A loop of class A76XX gives up when its time is up and at most one answer and one pause
\* later, for every timeout that the clock can tell from none, also when millis() wraps.
THEOREM LoopsEndInTime == Spec => []PollsEndInTime
<1>1. IInv => PollsEndInTime
  BY TypesFromIInv
<1> QED BY <1>1, StartIInv, NextIInv, PTL DEF Spec

-----------------------------------------------------------------------------
(* What a call that returned true has done                                 *)
(*                                                                         *)
(* A call has a plan, and what is still to come of it says how far it is.  *)
(* The invariant states, for each function and each place of its plan,     *)
(* what the stages before it have done.                                    *)

Plan(c) == IF c.fn \in Functions THEN Stages(c) ELSE ClientStages(c)

Planned == Len(Plan(call))

\* The place of the stage to come; behind the last when the call returned true; 0 when
\* it returned false.
Pos == IF result = "false" THEN 0 ELSE Planned - Len(todo) + 1

\* The PIN takes the place of the question for it, the deletion that of the search.
Replaces(s, planned) == \/ s = Command("AT+CPIN=") /\ planned = Command("AT+CPIN?")
                        \/ s = File("delete") /\ planned = File("exists")

OnPlan == Running =>
  /\ Len(todo) <= Planned
  /\ Stage = Plan(call)[Pos] \/ Replaces(Stage, Plan(call)[Pos])
  /\ \A i \in 2 .. Len(todo) : todo[i] = Plan(call)[Planned - Len(todo) + i]

CallOK == call \in PowerCalls \cup SessionCalls \/ (call.fn = "none" /\ result = "false")

PlanOK == CallOK /\ OnPlan

-----------------------------------------------------------------------------
(* Plans *)

LEMMA Kind ==
  /\ \A c \in PowerCalls : c.fn \in Functions /\ Plan(c) = Stages(c)
  /\ \A c \in SessionCalls : c.fn \in ClientFunctions /\ c.fn \notin Functions /\ Plan(c) = ClientStages(c)
BY ClockAssumption, SessionAssumption DEF Plan, Functions, ClientFunctions

LEMMA Names ==
  /\ \A x : Command(x).op = "command" /\ Command(x).arg = x
  /\ \A k, t : Poll(k, t).op = "poll" /\ Poll(k, t).arg = k
  /\ \A x : Session(x).op = "session" /\ Session(x).arg = x
  /\ \A x : Ignored(x).op = "ignored" /\ Ignored(x).arg = x
  /\ \A x : File(x).op = x /\ File(x).arg = "file"
BY DEF Command, Poll, Session, Ignored, File

LEMMA PlanTypes ==
  ASSUME NEW c \in PowerCalls \cup SessionCalls
  PROVE  /\ Plan(c) \in Seq(AllStages) /\ Len(Plan(c)) \in Nat \ {0}
         /\ c \in PowerCalls => \A i \in 1 .. Len(Plan(c)) : Plan(c)[i] \in PowerStage
         /\ c \in SessionCalls => \A i \in 1 .. Len(Plan(c)) : Plan(c)[i] \in SessionStage
<1>1. \/ c \in PowerCalls /\ Plan(c) \in Seq(PowerStage) /\ Plan(c) # <<>>
      \/ c \in SessionCalls /\ Plan(c) \in Seq(SessionStage) /\ Plan(c) # <<>>
  BY Kind, PowerStages, SessionStages
<1>2. c \in PowerCalls => c \notin SessionCalls
  BY Kind
<1>3. Plan(c) \in Seq(AllStages)
  BY <1>1 DEF AllStages
<1>4. Len(Plan(c)) \in Nat \ {0}
  BY <1>1, <1>3, EmptySeq, LenProperties
<1>5. c \in PowerCalls => \A i \in 1 .. Len(Plan(c)) : Plan(c)[i] \in PowerStage
  BY <1>1, <1>2, ElementOfSeq
<1>6. c \in SessionCalls => \A i \in 1 .. Len(Plan(c)) : Plan(c)[i] \in SessionStage
  BY <1>1, <1>2, ElementOfSeq
<1> QED BY <1>3, <1>4, <1>5, <1>6

LEMMA InitPlan ==
  ASSUME NEW t
  PROVE  /\ Len(init(t)) = 6
         /\ init(t)[1] = Poll("OK", t) /\ init(t)[2] = Command("ATE0")
         /\ init(t)[3] = Command("AT+CMEE=0") /\ init(t)[4] = Command("AT+CTZR=0")
         /\ init(t)[5] = Command("AT+CTZU=1") /\ init(t)[6] = Command("AT+CPIN?")
BY DEF init

LEMMA ResetPlan ==
  ASSUME NEW t
  PROVE  /\ Len(reset(t)) = 3 /\ reset(t)[1] = Command("AT+CRESET")
         /\ reset(t)[2] = Poll("TIMEOUT", t) /\ reset(t)[3] = Poll("OK", t)
BY DEF reset

\* Where init() begins in a plan, and its timeout.
Base(c) == IF c.fn = "restart" THEN 3 ELSE 0
Within(c) == IF c.fn = "restart" THEN InitTimeout ELSE c.timeout

LEMMA RestartPlan ==
  ASSUME NEW c \in PowerCalls, c.fn = "restart"
  PROVE  /\ Len(Plan(c)) = 9
         /\ \A i \in 1 .. 3 : Plan(c)[i] = reset(c.timeout)[i]
         /\ \A i \in 1 .. 6 : Plan(c)[i + 3] = init(InitTimeout)[i]
<1> DEFINE r == reset(c.timeout)
           n == init(InitTimeout)
<1>1. Plan(c) = r \o n
  BY Kind DEF Stages
<1>2. r \in Seq(PowerStage) /\ n \in Seq(PowerStage) /\ Len(r) = 3 /\ Len(n) = 6
  <2>1. c.timeout \in Timeouts /\ InitTimeout \in Timeouts
    BY DEF Timeouts
  <2> QED BY <2>1, ResetStages, InitStages, ResetPlan, InitPlan
<1> HIDE DEF r, n
<1>3. /\ Len(r \o n) = 9
      /\ \A i \in 1 .. 9 : (r \o n)[i] = IF i <= 3 THEN r[i] ELSE n[i - 3]
  <2>1. /\ Len(r \o n) = Len(r) + Len(n)
        /\ \A i \in 1 .. Len(r) + Len(n) : (r \o n)[i] = IF i <= Len(r) THEN r[i] ELSE n[i - Len(r)]
    BY <1>2, ConcatProperties
  <2>2. Len(r \o n) = 9
    BY <1>2, <2>1
  <2>3. ASSUME NEW i \in 1 .. 9
        PROVE  (r \o n)[i] = IF i <= 3 THEN r[i] ELSE n[i - 3]
    <3>1. i \in 1 .. Len(r) + Len(n)
      BY <1>2
    <3>2. (r \o n)[i] = IF i <= Len(r) THEN r[i] ELSE n[i - Len(r)]
      BY <2>1, <3>1
    <3> QED BY <1>2, <3>2
  <2> QED BY <2>2, <2>3
<1>4. \A i \in 1 .. 6 : (r \o n)[i + 3] = n[i]
  <2> TAKE i \in 1 .. 6
  <2>1. i + 3 \in 1 .. 9 /\ ~(i + 3 <= 3) /\ (i + 3) - 3 = i
    OBVIOUS
  <2> QED BY <1>3, <2>1
<1>5. \A i \in 1 .. 3 : (r \o n)[i] = r[i]
  <2> TAKE i \in 1 .. 3
  <2>1. i \in 1 .. 9 /\ i <= 3
    OBVIOUS
  <2> QED BY <1>3, <2>1
<1> QED BY <1>1, <1>3, <1>4, <1>5 DEF r, n

LEMMA ResetAt ==
  ASSUME NEW c \in PowerCalls, c.fn \in {"reset", "restart"}
  PROVE  /\ Len(Plan(c)) >= 3 /\ Plan(c)[1] = Command("AT+CRESET")
         /\ Plan(c)[2] = Poll("TIMEOUT", c.timeout) /\ Plan(c)[3] = Poll("OK", c.timeout)
<1>1. CASE c.fn = "reset"
  <2>1. Plan(c) = reset(c.timeout)
    BY <1>1, Kind DEF Stages
  <2> QED BY <2>1, ResetPlan
<1>2. CASE c.fn = "restart"
  BY <1>2, RestartPlan, ResetPlan
<1> QED BY <1>1, <1>2

LEMMA InitAt ==
  ASSUME NEW c \in PowerCalls, c.fn \in {"init", "restart"}
  PROVE  /\ Len(Plan(c)) = Base(c) + 6
         /\ Plan(c)[Base(c) + 1] = Poll("OK", Within(c)) /\ Plan(c)[Base(c) + 2] = Command("ATE0")
         /\ Plan(c)[Base(c) + 3] = Command("AT+CMEE=0") /\ Plan(c)[Base(c) + 4] = Command("AT+CTZR=0")
         /\ Plan(c)[Base(c) + 5] = Command("AT+CTZU=1") /\ Plan(c)[Base(c) + 6] = Command("AT+CPIN?")
<1>1. CASE c.fn = "init"
  <2>1. Plan(c) = init(c.timeout) /\ Base(c) = 0 /\ Within(c) = c.timeout
    BY <1>1, Kind DEF Stages, Base, Within
  <2> QED BY <2>1, InitPlan
<1>2. CASE c.fn = "restart"
  <2>1. Len(Plan(c)) = 9 /\ \A i \in 1 .. 6 : Plan(c)[i + 3] = init(InitTimeout)[i]
    BY <1>2, RestartPlan
  <2>2. Base(c) = 3 /\ Within(c) = InitTimeout
    BY <1>2 DEF Base, Within
  <2>3. /\ Plan(c)[4] = init(InitTimeout)[1] /\ Plan(c)[5] = init(InitTimeout)[2]
        /\ Plan(c)[6] = init(InitTimeout)[3] /\ Plan(c)[7] = init(InitTimeout)[4]
        /\ Plan(c)[8] = init(InitTimeout)[5] /\ Plan(c)[9] = init(InitTimeout)[6]
    BY <2>1
  <2> QED BY <2>1, <2>2, <2>3, InitPlan
<1> QED BY <1>1, <1>2

LEMMA OffAt ==
  ASSUME NEW c \in PowerCalls, c.fn = "powerOff"
  PROVE  /\ Plan(c)[1] = Command("AT+CPOF")
         /\ c.timeout > 0 => Len(Plan(c)) = 2 /\ Plan(c)[2] = Poll("TIMEOUT", c.timeout)
         /\ ~(c.timeout > 0) => Len(Plan(c)) = 1
<1> DEFINE x == Command("AT+CPOF")
           y == Poll("TIMEOUT", c.timeout)
<1>1. Plan(c) = <<x>> \o (IF c.timeout > 0 THEN <<y>> ELSE <<>>)
  BY Kind DEF Stages, powerOff
<1>2. x \in PowerStage /\ y \in PowerStage
  BY Commands, Polls, TimeoutGiven DEF PowerCommands, Kinds
<1> HIDE DEF x, y
<1>3. /\ <<x>> \in Seq(PowerStage) /\ Len(<<x>>) = 1 /\ <<x>>[1] = x
      /\ <<y>> \in Seq(PowerStage) /\ Len(<<y>>) = 1 /\ <<y>>[1] = y
      /\ <<>> \in Seq(PowerStage) /\ Len(<<>>) = 0
  BY <1>2
<1>4. CASE c.timeout > 0
  <2>1. Len(<<x>> \o <<y>>) = 2 /\ (<<x>> \o <<y>>)[1] = x /\ (<<x>> \o <<y>>)[2] = y
    BY <1>3, ConcatProperties
  <2> QED BY <1>1, <1>4, <2>1 DEF x, y
<1>5. CASE ~(c.timeout > 0)
  <2>1. Len(<<x>> \o <<>>) = 1 /\ (<<x>> \o <<>>)[1] = x
    BY <1>3, ConcatProperties
  <2> QED BY <1>1, <1>5, <2>1 DEF x, y
<1> QED BY <1>4, <1>5

\* Nobody but init() asks for the status of the SIM, and last of all.
LEMMA AsksLast ==
  ASSUME NEW c \in PowerCalls, NEW i \in 1 .. Len(Plan(c)), Plan(c)[i].arg = "AT+CPIN?"
  PROVE  c.fn \in {"init", "restart"} /\ i = Len(Plan(c)) /\ i = Base(c) + 6
<1>1. c.fn \in Functions
  BY Kind
<1>2. CASE c.fn = "init"
  <2>1. Len(Plan(c)) = 6 /\ Base(c) = 0 /\ i \in 1 .. 6
    BY <1>2, InitAt DEF Base
  <2>2. i = 6
    BY <1>2, <2>1, InitAt, Names
  <2> QED BY <1>2, <2>1, <2>2
<1>3. CASE c.fn = "restart"
  <2>1. Len(Plan(c)) = 9 /\ Base(c) = 3 /\ i \in 1 .. 9
    BY <1>3, InitAt DEF Base
  <2>2. /\ Plan(c)[1].arg = "AT+CRESET" /\ Plan(c)[2].arg = "TIMEOUT" /\ Plan(c)[3].arg = "OK"
        /\ Plan(c)[4].arg = "OK" /\ Plan(c)[5].arg = "ATE0" /\ Plan(c)[6].arg = "AT+CMEE=0"
        /\ Plan(c)[7].arg = "AT+CTZR=0" /\ Plan(c)[8].arg = "AT+CTZU=1"
    <3>1. /\ Plan(c)[1].arg = "AT+CRESET" /\ Plan(c)[2].arg = "TIMEOUT" /\ Plan(c)[3].arg = "OK"
      BY <1>3, ResetAt, Names
    <3>2. /\ Plan(c)[4].arg = "OK" /\ Plan(c)[5].arg = "ATE0" /\ Plan(c)[6].arg = "AT+CMEE=0"
          /\ Plan(c)[7].arg = "AT+CTZR=0" /\ Plan(c)[8].arg = "AT+CTZU=1"
      <4>1. /\ Plan(c)[3 + 1] = Poll("OK", Within(c)) /\ Plan(c)[3 + 2] = Command("ATE0")
            /\ Plan(c)[3 + 3] = Command("AT+CMEE=0") /\ Plan(c)[3 + 4] = Command("AT+CTZR=0")
            /\ Plan(c)[3 + 5] = Command("AT+CTZU=1")
        BY <1>3, <2>1, InitAt
      <4> QED BY <4>1, Names
    <3> QED BY <3>1, <3>2
  <2>3. i = 9
    BY <2>1, <2>2
  <2> QED BY <1>3, <2>1, <2>3
<1>4. CASE c.fn = "reset"
  <2>1. Len(Plan(c)) = 3
    BY <1>4, Kind, ResetPlan DEF Stages
  <2>2. i \in {1, 2, 3}
    BY <2>1
  <2> QED BY <1>4, <2>2, ResetAt, Names
<1>5. CASE c.fn = "powerOff"
  <2>1. i \in {1, 2} /\ (i = 2 => c.timeout > 0)
    BY <1>5, OffAt
  <2> QED BY <1>5, <2>1, OffAt, Names
<1>6. CASE c.fn \in {"waitForRegistration", "setPhoneFunctionality", "sleep", "wakeUp"}
  <2> DEFINE S == {Poll("registered", c.timeout), Command("AT+CFUN=1,1"),
                   Command("AT+CSCLK=2"), Command("AT")}
  <2>1. \E s \in S : Plan(c) = <<s>>
    BY <1>6, Kind DEF Stages
  <2>2. \A s \in S : s.arg # "AT+CPIN?"
    <3>1. /\ Poll("registered", c.timeout).arg # "AT+CPIN?" /\ Command("AT+CFUN=1,1").arg # "AT+CPIN?"
          /\ Command("AT+CSCLK=2").arg # "AT+CPIN?" /\ Command("AT").arg # "AT+CPIN?"
      BY DEF Command, Poll
    <3> QED BY <3>1
  <2>3. PICK s : Plan(c) = <<s>> /\ s.arg # "AT+CPIN?"
    BY <2>1, <2>2
  <2> QED BY <2>3
<1> QED BY <1>1, <1>2, <1>3, <1>4, <1>5, <1>6 DEF Functions

-----------------------------------------------------------------------------
(* Plans of the clients *)

LEMMA BeginAt ==
  ASSUME NEW c \in SessionCalls, c.fn = "mqttBegin"
  PROVE  /\ Len(Plan(c)) \in {2, 3}
         /\ Plan(c)[1] = Session("AT+CMQTTSTART") /\ Plan(c)[2] = Session("AT+CMQTTACCQ")
         /\ Len(Plan(c)) = 3 => Plan(c)[3] = Session("AT+CMQTTSSLCFG")
<1> DEFINE x == Session("AT+CMQTTSTART")
           y == Session("AT+CMQTTACCQ")
           z == Session("AT+CMQTTSSLCFG")
<1>1. Plan(c) = <<x, y>> \o (IF c.option THEN <<z>> ELSE <<>>)
  BY Kind DEF ClientStages, Optional
<1> HIDE DEF x, y, z
<1>2. /\ <<x, y>> \in Seq({x, y, z}) /\ Len(<<x, y>>) = 2 /\ <<x, y>>[1] = x /\ <<x, y>>[2] = y
      /\ <<z>> \in Seq({x, y, z}) /\ Len(<<z>>) = 1 /\ <<z>>[1] = z
      /\ <<>> \in Seq({x, y, z}) /\ Len(<<>>) = 0
  OBVIOUS
<1>3. CASE c.option
  <2>1. /\ Len(<<x, y>> \o <<z>>) = 3 /\ (<<x, y>> \o <<z>>)[1] = x
        /\ (<<x, y>> \o <<z>>)[2] = y /\ (<<x, y>> \o <<z>>)[3] = z
    BY <1>2, ConcatProperties
  <2> QED BY <1>1, <1>3, <2>1 DEF x, y, z
<1>4. CASE ~c.option
  <2>1. Len(<<x, y>> \o <<>>) = 2 /\ (<<x, y>> \o <<>>)[1] = x /\ (<<x, y>> \o <<>>)[2] = y
    BY <1>2, ConcatProperties
  <2> QED BY <1>1, <1>4, <2>1 DEF x, y, z
<1> QED BY <1>3, <1>4

LEMMA EndAt ==
  ASSUME NEW c \in SessionCalls, c.fn = "mqttEnd"
  PROVE  /\ Len(Plan(c)) = 2
         /\ Plan(c)[1] = Session("AT+CMQTTREL") /\ Plan(c)[2] = Session("AT+CMQTTSTOP")
BY Kind DEF ClientStages, mqttEnd

LEMMA CertAt ==
  ASSUME NEW c \in SessionCalls, c.fn = "writeCaCert"
  PROVE  /\ Len(Plan(c)) = 4 /\ Plan(c)[1] = File("exists") /\ Plan(c)[2] = File("download")
         /\ Plan(c)[3] = Session("AT+CSSLCFG") /\ Plan(c)[4] = Session("AT+CSSLCFG")
BY Kind DEF ClientStages

LEMMA BodyAt ==
  ASSUME NEW c \in SessionCalls, c.fn = "getResponseBody"
  PROVE  Len(Plan(c)) = 1 /\ Plan(c)[1].op = "read"
<1> DEFINE a == [Session("AT+HTTPREAD") EXCEPT !.op = "read"]
<1>1. Plan(c) = <<a>>
  BY Kind DEF ClientStages
<1>2. a.op = "read"
  BY DEF Session
<1> HIDE DEF a
<1>3. Len(<<a>>) = 1 /\ <<a>>[1] = a
  OBVIOUS
<1> QED BY <1>1, <1>2, <1>3

LEMMA RequestAt ==
  ASSUME NEW c \in SessionCalls, c.fn = "request"
  PROVE  Plan(c)[Len(Plan(c))].op = "action"
<1> DEFINE a == [Session("AT+HTTPACTION") EXCEPT !.op = "action"]
           b == <<Session("AT+HTTPPARA")>>
                  \o Optional(c, <<Ignored("AT+HTTPPARA"), Session("AT+HTTPPARA"),
                                   Session("AT+HTTPPARA"), Session("AT+HTTPDATA")>>)
<1>1. Plan(c) = b \o <<a>>
  BY Kind DEF ClientStages
<1>2. a.op = "action" /\ a \in SessionStage
  BY DEF Session, SessionStage
<1>3. b \in Seq(SessionStage)
  <2>1. /\ Session("AT+HTTPPARA") \in SessionStage /\ Ignored("AT+HTTPPARA") \in SessionStage
        /\ Session("AT+HTTPDATA") \in SessionStage
    BY DEF Session, Ignored, SessionStage
  <2>2. <<Session("AT+HTTPPARA")>> \in Seq(SessionStage) /\ <<Session("AT+HTTPPARA")>> # <<>>
    BY <2>1, Single
  <2>3. <<Ignored("AT+HTTPPARA"), Session("AT+HTTPPARA"), Session("AT+HTTPPARA"),
          Session("AT+HTTPDATA")>> \in Seq(SessionStage)
    BY <2>1
  <2>4. Optional(c, <<Ignored("AT+HTTPPARA"), Session("AT+HTTPPARA"), Session("AT+HTTPPARA"),
                      Session("AT+HTTPDATA")>>) \in Seq(SessionStage)
    BY <2>3 DEF Optional
  <2> QED BY <2>2, <2>4, Joined
<1> HIDE DEF a, b
<1>4. <<a>> \in Seq(SessionStage) /\ Len(<<a>>) = 1 /\ <<a>>[1] = a
  BY <1>2
<1>5. Len(b) \in Nat
  BY <1>3, LenProperties
<1>6. Len(b \o <<a>>) = Len(b) + 1 /\ (b \o <<a>>)[Len(b) + 1] = a
  BY <1>3, <1>4, <1>5, ConcatProperties
<1> QED BY <1>1, <1>2, <1>6

-----------------------------------------------------------------------------
(* How far a call is *)

LEMMA CallKind ==
  ASSUME CallOK, result # "false"
  PROVE  /\ call \in PowerCalls \cup SessionCalls /\ Planned \in Nat \ {0}
         /\ call.fn \in Functions => call \in PowerCalls
         /\ call.fn \in ClientFunctions => call \in SessionCalls
<1>1. call \in PowerCalls \cup SessionCalls
  BY DEF CallOK
<1>2. Planned \in Nat \ {0}
  BY <1>1, PlanTypes DEF Planned
<1> QED BY <1>1, <1>2, Kind DEF Functions, ClientFunctions

LEMMA Where ==
  ASSUME IInv, PlanOK
  PROVE  /\ result = "false" => Pos = 0
         /\ result = "true" => Pos = Planned + 1 /\ Planned \in Nat \ {0}
         /\ Running => Pos \in 1 .. Planned /\ Planned \in Nat \ {0} /\ Len(todo) \in Nat \ {0}
                       /\ Pos = Planned - Len(todo) + 1
<1>1. result \in {"running", "true", "false"} /\ (Running <=> todo # <<>>) /\ todo \in Seq(AllStages)
  BY DEF IInv, Shape
<1>2. result # "false" => Planned \in Nat \ {0}
  BY CallKind DEF PlanOK
<1>3. result = "true" => Len(todo) = 0
  BY <1>1, EmptySeq DEF Running
<1>4. Running => Len(todo) \in Nat \ {0} /\ result # "false"
  BY <1>1, EmptySeq, LenProperties DEF Running
<1>5. Running => Len(todo) <= Planned
  BY DEF PlanOK, OnPlan
<1> QED BY <1>2, <1>3, <1>4, <1>5 DEF Pos

\* The stage is of the sort of its function.
LEMMA Sort ==
  ASSUME IInv, PlanOK, Running
  PROVE  /\ Stage.op \in {"command", "poll"} => call.fn \in Functions /\ call \in PowerCalls
         /\ Stage.op \notin {"command", "poll"} => call.fn \in ClientFunctions /\ call \in SessionCalls
         /\ Stage.op = "poll" => Stage = Plan(call)[Pos]
         /\ Stage.op \notin {"command", "delete"} => Stage = Plan(call)[Pos]
<1>1. /\ Pos \in 1 .. Len(Plan(call)) /\ call \in PowerCalls \cup SessionCalls
  BY Where, CallKind DEF PlanOK, Running, Planned
<1> DEFINE p == Plan(call)[Pos]
<1>2. Stage = p \/ Replaces(Stage, p)
  BY DEF PlanOK, OnPlan
<1>3. call \in PowerCalls => p \in PowerStage /\ call.fn \in Functions
  BY <1>1, PlanTypes, Kind
<1>4. call \in SessionCalls => p \in SessionStage /\ call.fn \in ClientFunctions
  BY <1>1, PlanTypes, Kind
<1> HIDE DEF p
<1>5. p \in PowerStage => p.op \in {"command", "poll"}
  BY DEF PowerStage
<1>6. p \in SessionStage => p.op \notin {"command", "poll"}
  BY DEF SessionStage
<1>7. Replaces(Stage, p) => \/ Stage.op = "command" /\ p.op = "command"
                            \/ Stage.op = "delete" /\ p.op = "exists"
  BY Names DEF Replaces
<1>8. call \in PowerCalls => Stage.op \in {"command", "poll"}
  BY <1>2, <1>3, <1>5, <1>7
<1>9. call \in SessionCalls => Stage.op \notin {"command", "poll"}
  BY <1>2, <1>4, <1>6, <1>7
<1>10. Stage.op \notin {"command", "delete"} => Stage = p
  BY <1>2, <1>7
<1> QED BY <1>1, <1>3, <1>4, <1>8, <1>9, <1>10 DEF p

LEMMA Advance ==
  ASSUME IInv, PlanOK, Running, Succeed, UNCHANGED call
  PROVE  PlanOK' /\ Pos' = Pos + 1 /\ Planned' = Planned
<1>1. /\ Pos = Planned - Len(todo) + 1 /\ Planned \in Nat /\ Len(todo) \in Nat \ {0}
      /\ Len(todo) <= Planned /\ Planned' = Planned /\ Plan(call)' = Plan(call)
  BY Where DEF PlanOK, OnPlan, Planned, Plan
<1>2. todo \in Seq(AllStages) /\ todo # <<>>
  BY DEF IInv, Shape
<1>3. /\ Tail(todo) \in Seq(AllStages) /\ Len(Tail(todo)) = Len(todo) - 1
      /\ \A i \in 1 .. Len(Tail(todo)) : Tail(todo)[i] = todo[i + 1]
  BY <1>2, HeadTailProperties
<1>4. CallOK'
  BY DEF PlanOK, CallOK, Running
<1>5. CASE Len(todo) = 1
  <2>1. todo' = <<>> /\ result' = "true"
    BY <1>5 DEF Succeed
  <2>2. Pos' = Pos + 1
    BY <1>1, <1>5, <2>1 DEF Pos
  <2>3. OnPlan'
    BY <2>1 DEF OnPlan, Running
  <2> QED BY <1>1, <1>4, <2>2, <2>3 DEF PlanOK
<1>6. CASE Len(todo) # 1
  <2>1. todo' = Tail(todo) /\ result' = result
    BY <1>6 DEF Succeed
  <2>2. Pos' = Pos + 1
    BY <1>1, <1>3, <2>1 DEF Pos, Running
  <2>3. \A i \in 1 .. Len(todo') : todo'[i] = Plan(call)'[Planned' - Len(todo') + i]
    <3> TAKE i \in 1 .. Len(todo')
    <3>1. i + 1 \in 2 .. Len(todo) /\ todo'[i] = todo[i + 1]
      BY <1>1, <1>3, <2>1
    <3>2. todo[i + 1] = Plan(call)[Planned - Len(todo) + (i + 1)]
      BY <3>1 DEF PlanOK, OnPlan
    <3>3. Planned - Len(todo) + (i + 1) = Planned' - Len(todo') + i
      BY <1>1, <1>3, <2>1
    <3> QED BY <1>1, <3>1, <3>2, <3>3
  <2>4. Stage' = todo'[1] /\ Len(todo') \in Nat \ {0}
    BY <1>1, <1>3, <1>6, <2>1 DEF Stage
  <2>5. Stage' = Plan(call)'[Pos']
    <3>1. 1 \in 1 .. Len(todo') /\ Pos' = Planned' - Len(todo') + 1
      BY <1>1, <1>3, <2>1, <2>2, <2>4
    <3> QED BY <2>3, <2>4, <3>1
  <2>6. \A i \in 2 .. Len(todo') : i \in 1 .. Len(todo')
    BY <2>4
  <2>7. Len(todo') <= Planned'
    BY <1>1, <1>3, <2>1
  <2>8. OnPlan'
    BY <2>3, <2>5, <2>6, <2>7 DEF OnPlan
  <2> QED BY <1>1, <1>4, <2>2, <2>8 DEF PlanOK
<1> QED BY <1>5, <1>6

LEMMA Dropped ==
  ASSUME PlanOK, Running, Fail, UNCHANGED call
  PROVE  PlanOK' /\ Pos' = 0
BY DEF Fail, PlanOK, CallOK, OnPlan, Running, Pos

LEMMA Stays ==
  ASSUME PlanOK, UNCHANGED <<call, todo, result>>
  PROVE  PlanOK' /\ Pos' = Pos /\ Planned' = Planned
BY DEF PlanOK, CallOK, OnPlan, Running, Stage, Pos, Planned, Plan, Replaces

\* Another stage in the place of this one.
LEMMA Replaced ==
  ASSUME IInv, PlanOK, Running, Shape', UNCHANGED <<call, result>>,
         Len(todo') = Len(todo), Head(todo') = todo'[1],
         Replaces(todo'[1], Plan(call)[Pos]),
         \A i \in 2 .. Len(todo) : todo'[i] = todo[i]
  PROVE  PlanOK' /\ Pos' = Pos /\ Planned' = Planned
<1>1. Plan(call)' = Plan(call) /\ Planned' = Planned /\ Pos' = Pos
  BY DEF Plan, Planned, Pos
<1>2. CallOK'
  BY DEF PlanOK, CallOK
<1>3. OnPlan'
  BY <1>1 DEF PlanOK, OnPlan, Stage
<1> QED BY <1>1, <1>2, <1>3 DEF PlanOK

LEMMA Begun ==
  ASSUME NEW c \in PowerCalls \cup SessionCalls, Call(c, Plan(c))
  PROVE  PlanOK' /\ Pos' = 1 /\ call' = c /\ since' = {}
<1>1. call' = c /\ todo' = Plan(c) /\ result' = "running" /\ since' = {}
  BY DEF Call
<1>2. Plan(c) \in Seq(AllStages) /\ Len(Plan(c)) \in Nat \ {0}
  BY PlanTypes
<1>3. Planned' = Len(Plan(c)) /\ Plan(call)' = Plan(c)
  BY <1>1 DEF Planned, Plan
<1>4. Pos' = 1
  BY <1>1, <1>2, <1>3 DEF Pos
<1>5. Stage' = Plan(c)[1]
  BY <1>1, <1>2 DEF Stage
<1>6. OnPlan'
  BY <1>1, <1>2, <1>3, <1>4, <1>5 DEF OnPlan
<1> QED BY <1>1, <1>4, <1>6 DEF PlanOK, CallOK

-----------------------------------------------------------------------------
(* What the stages so far have done, for class A76XX *)

\* Back up again after a restart; on its way there; or on its way down first.
BackUp == module = "up" /\ Restarted /\ session = NoSession
WentDown == (module = "down" /\ "down" \in since /\ session = NoSession) \/ BackUp
GoesDown == module = "restarting" \/ WentDown

ResetFacts == call.fn \in {"reset", "restart"} /\ "late" \notin since =>
  /\ Pos = 2 => GoesDown
  /\ Pos = 3 => WentDown
  /\ Pos >= 4 => BackUp

OffFacts == call.fn = "powerOff" /\ call.timeout > 0 /\ "late" \notin since =>
  /\ Pos = 2 => module = "stopping" \/ "down" \in since
  /\ Pos >= 3 => "down" \in since

InitFacts ==
  call.fn \in {"init", "restart"} /\ "late" \notin since /\ (call.fn = "init" => "down" \notin since) =>
    /\ Pos >= Base(call) + 3 => "ATE0" \in settings
    /\ Pos >= Base(call) + 4 => "AT+CMEE=0" \in settings
    /\ Pos >= Base(call) + 5 => "AT+CTZR=0" \in settings
    /\ Pos >= Base(call) + 6 => "AT+CTZU=1" \in settings
    /\ Pos >= Base(call) + 7 => Unlocked

PowerFacts == ResetFacts /\ OffFacts /\ InitFacts

(* ... and for the clients *)

Flagged == "down" \in since \/ "unanswered" \in since

\* What an orphaned service allows: nothing, before the first stage is over.
OrphanFacts == orphaned => Flagged \/ Pos = 0 \/ (Pos = 1 /\ Orphan)

BeginFacts == call.fn = "mqttBegin" =>
  /\ OrphanFacts
  /\ Pos >= 3 /\ "down" \notin since => session.service = "started" /\ session.client # "free"

EndFacts == call.fn = "mqttEnd" =>
  /\ OrphanFacts
  /\ Pos >= 2 /\ "down" \notin since => session.client = "free"
  /\ Pos >= 3 /\ "down" \notin since => session.service = "stopped" \/ "unanswered" \in since

RequestFacts == call.fn = "request" /\ "down" \notin since /\ Pos > Planned =>
  lastStatus = calls /\ session.body = [number |-> calls, length |-> lastLength]

CertFacts == call.fn = "writeCaCert" /\ Pos >= 3 => file = "new"

\* The response the module has is never older than the status the client has.
BodyNew == session.body = NoResponse \/ session.body.number >= lastStatus

CopyFacts == call.fn = "getResponseBody" =>
  /\ Running => lastLength < call.room
  /\ copied.length > 0 => copied.length < call.room /\ copied.number >= lastStatus

ClientFacts == BeginFacts /\ EndFacts /\ RequestFacts /\ CertFacts /\ BodyNew /\ CopyFacts

KInv == IInv /\ PlanOK /\ PowerFacts /\ ClientFacts

\* A function of the one sort says nothing of the other.
LEMMA NoPowerFacts ==
  ASSUME call'.fn \in ClientFunctions
  PROVE  PowerFacts'
BY DEF ClientFunctions, PowerFacts, ResetFacts, OffFacts, InitFacts

LEMMA NoClientFacts ==
  ASSUME call'.fn \in Functions, BodyNew'
  PROVE  ClientFacts'
BY DEF Functions, ClientFacts, BeginFacts, EndFacts, RequestFacts, CertFacts, CopyFacts

\* A call that failed says nothing.
LEMMA FailedPower ==
  ASSUME Pos' = 0
  PROVE  PowerFacts'
<1>1. \A c : Base(c) \in {0, 3}
  BY DEF Base
<1> QED BY <1>1 DEF PowerFacts, ResetFacts, OffFacts, InitFacts

LEMMA FailedClient ==
  ASSUME Pos' = 0, Planned' \in Nat, BodyNew', CopyFacts'
  PROVE  ClientFacts'
BY DEF ClientFacts, BeginFacts, EndFacts, OrphanFacts, RequestFacts, CertFacts

-----------------------------------------------------------------------------
(* The stages of class A76XX *)

LEMMA ResetStage ==
  ASSUME IInv, PlanOK, Running, call.fn \in {"reset", "restart"}
  PROVE  /\ Pos \in Nat \ {0}
         /\ Pos = 1 => Stage.op = "command" /\ Stage.arg = "AT+CRESET"
         /\ Pos = 2 => Stage.op = "poll" /\ Stage.arg = "TIMEOUT"
         /\ Pos = 3 => Stage.op = "poll" /\ Stage.arg = "OK"
         /\ Pos > 3 => call.fn = "restart"
<1>1. call \in PowerCalls /\ Pos \in 1 .. Planned /\ Planned \in Nat
  BY CallKind, Where DEF PlanOK, Running, Functions
<1>2. Stage = Plan(call)[Pos] \/ Replaces(Stage, Plan(call)[Pos])
  BY DEF PlanOK, OnPlan
<1>3. /\ Plan(call)[1] = Command("AT+CRESET") /\ Plan(call)[2] = Poll("TIMEOUT", call.timeout)
      /\ Plan(call)[3] = Poll("OK", call.timeout)
  BY <1>1, ResetAt
<1>4. call.fn = "reset" => Planned = 3
  BY <1>1, Kind, ResetPlan DEF Stages, Planned
<1>5. Pos \in {1, 2, 3} => Stage = Plan(call)[Pos]
  BY <1>2, <1>3 DEF Replaces, Command, Poll, File
<1> QED BY <1>1, <1>3, <1>4, <1>5, Names

LEMMA OffStage ==
  ASSUME IInv, PlanOK, Running, call.fn = "powerOff", call.timeout > 0
  PROVE  /\ Pos \in {1, 2}
         /\ Pos = 1 => Stage.op = "command" /\ Stage.arg = "AT+CPOF"
         /\ Pos = 2 => Stage.op = "poll" /\ Stage.arg = "TIMEOUT"
<1>1. call \in PowerCalls /\ Pos \in 1 .. Planned /\ Planned \in Nat
  BY CallKind, Where DEF PlanOK, Running, Functions
<1>2. Stage = Plan(call)[Pos] \/ Replaces(Stage, Plan(call)[Pos])
  BY DEF PlanOK, OnPlan
<1>3. /\ Planned = 2 /\ Plan(call)[1] = Command("AT+CPOF")
      /\ Plan(call)[2] = Poll("TIMEOUT", call.timeout)
  BY <1>1, OffAt DEF Planned
<1>4. Stage = Plan(call)[Pos]
  BY <1>1, <1>2, <1>3 DEF Replaces, Command, Poll, File
<1> QED BY <1>1, <1>3, <1>4, Names

LEMMA InitStage ==
  ASSUME IInv, PlanOK, Running, call.fn \in {"init", "restart"}
  PROVE  /\ Pos \in 1 .. Base(call) + 6 /\ Base(call) \in {0, 3}
         /\ Pos = Base(call) + 1 => Stage.op = "poll"
         /\ Pos = Base(call) + 2 => Stage.op = "command" /\ Stage.arg = "ATE0"
         /\ Pos = Base(call) + 3 => Stage.op = "command" /\ Stage.arg = "AT+CMEE=0"
         /\ Pos = Base(call) + 4 => Stage.op = "command" /\ Stage.arg = "AT+CTZR=0"
         /\ Pos = Base(call) + 5 => Stage.op = "command" /\ Stage.arg = "AT+CTZU=1"
         /\ Pos = Base(call) + 6 => Stage.op = "command" /\ Stage.arg \in {"AT+CPIN?", "AT+CPIN="}
<1>1. call \in PowerCalls /\ Pos \in 1 .. Planned /\ Planned \in Nat
  BY CallKind, Where DEF PlanOK, Running, Functions
<1>2. Stage = Plan(call)[Pos] \/ Replaces(Stage, Plan(call)[Pos])
  BY DEF PlanOK, OnPlan
<1>3. Base(call) \in {0, 3}
  BY DEF Base
<1> DEFINE b == Base(call)
<1>4. /\ Planned = b + 6
      /\ Plan(call)[b + 1] = Poll("OK", Within(call)) /\ Plan(call)[b + 2] = Command("ATE0")
      /\ Plan(call)[b + 3] = Command("AT+CMEE=0") /\ Plan(call)[b + 4] = Command("AT+CTZR=0")
      /\ Plan(call)[b + 5] = Command("AT+CTZU=1") /\ Plan(call)[b + 6] = Command("AT+CPIN?")
  BY <1>1, InitAt DEF Planned
<1> HIDE DEF b
<1>5. Pos \in {b + 1, b + 2, b + 3, b + 4, b + 5} => Stage = Plan(call)[Pos]
  BY <1>2, <1>4 DEF Replaces, Command, Poll, File
<1>6. Pos = b + 6 => Stage = Command("AT+CPIN?") \/ Stage = Command("AT+CPIN=")
  BY <1>2, <1>4 DEF Replaces, Command, File
<1> QED BY <1>1, <1>3, <1>4, <1>5, <1>6, Names DEF b

-----------------------------------------------------------------------------
(* The steps of class A76XX *)

\* What a step of class A76XX does to the services when the module does not go down.
LEMMA ServicesKept ==
  ASSUME PowerStep, ~(Hears /\ module' \in {"down", "off"})
  PROVE  session' = session
BY DEF PowerStep

LEMMA DonePos ==
  ASSUME IInv, PlanOK, Done
  PROVE  /\ PlanOK' /\ call' = call /\ since' = since /\ call \in PowerCalls /\ call.fn \in Functions
         /\ \/ Pos' = 0
            \/ Pos' = Pos + 1 /\ (Stage.arg = "AT+CPIN?" => Unlocked)
            \/ Pos' = Pos /\ Stage.arg = "AT+CPIN?" /\ Pos = Base(call) + 6
                  /\ call.fn \in {"init", "restart"}
<1>1. Running /\ Stage.op = "command" /\ call' = call /\ since' = since
  BY DEF Done
<1>2. call \in PowerCalls /\ call.fn \in Functions
  BY <1>1, Sort
<1>3. CASE Succeed /\ (Stage.arg = "AT+CPIN?" => Unlocked)
  BY <1>1, <1>2, <1>3, Advance
<1>4. CASE Fail
  BY <1>1, <1>2, <1>4, Dropped
<1>5. CASE Stage.arg = "AT+CPIN?" /\ todo' = <<Command("AT+CPIN=")>> /\ UNCHANGED result
  <2>1. /\ Pos \in 1 .. Planned /\ Planned \in Nat /\ Len(todo) \in Nat
        /\ Pos = Planned - Len(todo) + 1
    BY <1>1, Where
  <2>2. Plan(call)[Pos] = Command("AT+CPIN?") /\ Plan(call)[Pos].arg = "AT+CPIN?"
    <3>1. Stage = Plan(call)[Pos] \/ Replaces(Stage, Plan(call)[Pos])
      BY <1>1 DEF PlanOK, OnPlan
    <3>2. Stage = Plan(call)[Pos]
      BY <1>5, <3>1, Names DEF Replaces
    <3>3. Plan(call)[Pos] \in PowerStage
      BY <1>2, <2>1, PlanTypes DEF Planned
    <3> QED BY <1>1, <1>5, <3>2, <3>3 DEF PowerStage, Command
  <2>3. Pos = Planned /\ Pos = Base(call) + 6 /\ call.fn \in {"init", "restart"}
    BY <1>2, <2>1, <2>2, AsksLast DEF Planned
  <2>4. Len(todo) = 1
    <3>1. \A m, n \in Nat : m = m - n + 1 => n = 1
      OBVIOUS
    <3>2. Planned = Planned - Len(todo) + 1
      BY <2>1, <2>3
    <3> QED BY <2>1, <3>1, <3>2
  <2> DEFINE pin == Command("AT+CPIN=")
  <2>5. Replaces(pin, Plan(call)[Pos])
    BY <2>2 DEF Replaces
  <2> HIDE DEF pin
  <2>6. todo' = <<pin>>
    BY <1>5 DEF pin
  <2>7. Len(todo') = 1 /\ Head(todo') = todo'[1] /\ todo'[1] = pin
    BY <2>6
  <2>8. Shape'
    BY DoneStep
  <2>9. \A i \in 2 .. Len(todo) : todo'[i] = todo[i]
    BY <2>4
  <2>10. PlanOK' /\ Pos' = Pos
    BY <1>1, <1>5, <2>4, <2>5, <2>7, <2>8, <2>9, Replaced
  <2> QED BY <1>1, <1>2, <1>5, <2>3, <2>10
<1> QED BY <1>1, <1>3, <1>4, <1>5 DEF Done, Unlock

LEMMA DoneFacts ==
  ASSUME KInv, PowerStep, Done
  PROVE  PlanOK' /\ PowerFacts' /\ call' = call /\ call.fn \in Functions
<1>1. /\ PlanOK' /\ call' = call /\ since' = since /\ call \in PowerCalls /\ call.fn \in Functions
      /\ \/ Pos' = 0
         \/ Pos' = Pos + 1 /\ (Stage.arg = "AT+CPIN?" => Unlocked)
         \/ Pos' = Pos /\ Stage.arg = "AT+CPIN?" /\ Pos = Base(call) + 6
               /\ call.fn \in {"init", "restart"}
  BY DonePos DEF KInv
<1>2. Running /\ Stage.op = "command" /\ Hears /\ Effect(Stage.arg) /\ IInv /\ PlanOK
  BY DEF Done, Accepts, KInv
<1>3. Pos \in Nat \ {0}
  BY <1>2, Where
<1>4. CASE Pos' = 0
  BY <1>1, <1>4, FailedPower
<1>5. CASE Pos' # 0
  <2>1. Pos' \in {Pos, Pos + 1} /\ (Pos' = Pos => call.fn \in {"init", "restart"} /\ Pos = Base(call) + 6)
    BY <1>1, <1>3, <1>5
  <2>2. ResetFacts'
    <3> SUFFICES ASSUME call.fn \in {"reset", "restart"}, "late" \notin since
                 PROVE  /\ Pos' = 2 => GoesDown'
                        /\ Pos' = 3 => WentDown'
                        /\ Pos' >= 4 => BackUp'
      BY <1>1 DEF ResetFacts
    <3>1. Pos # 2 /\ Pos # 3 /\ (Pos = 1 => Stage.arg = "AT+CRESET") /\ (Pos > 3 => call.fn = "restart")
      BY <1>2, ResetStage
    <3>2. CASE Pos = 1
      <4>1. module' = "restarting"
        BY <1>2, <3>1, <3>2 DEF Effect
      <4>2. Pos' = 2
        <5>1. call.fn \in {"init", "restart"} => Base(call) \in {0, 3}
          BY DEF Base
        <5> QED BY <2>1, <3>2, <5>1
      <4> QED BY <4>1, <4>2 DEF GoesDown
    <3>3. CASE Pos > 3
      <4>1. BackUp
        BY <1>3, <3>3 DEF KInv, PowerFacts, ResetFacts
      <4>2. Stage.arg \in {"ATE0", "AT+CMEE=0", "AT+CTZR=0", "AT+CTZU=1", "AT+CPIN?", "AT+CPIN="}
        <5>1. Base(call) = 3 /\ call.fn = "restart" /\ Pos \in 4 .. 9
          BY <1>2, <1>3, <3>1, <3>3, InitStage DEF Base
        <5> QED BY <1>2, <5>1, InitStage
      <4>3. module' = module
        BY <1>2, <4>2 DEF Effect
      <4>4. session' = session
        BY <4>1, <4>3, ServicesKept DEF BackUp
      <4>5. BackUp'
        BY <1>1, <4>1, <4>3, <4>4 DEF BackUp, Restarted
      <4> QED BY <1>3, <2>1, <3>3, <4>5
    <3> QED BY <1>3, <3>1, <3>2, <3>3
  <2>3. OffFacts'
    <3> SUFFICES ASSUME call.fn = "powerOff", call.timeout > 0
                 PROVE  Pos' = 2 /\ module' = "stopping"
      BY <1>1 DEF OffFacts
    <3>1. Pos = 1 /\ Stage.arg = "AT+CPOF"
      BY <1>2, OffStage
    <3>2. module' = "stopping"
      BY <1>2, <3>1 DEF Effect
    <3> QED BY <2>1, <3>1, <3>2
  <2>4. InitFacts'
    <3> SUFFICES ASSUME call.fn \in {"init", "restart"}, "late" \notin since,
                        call.fn = "init" => "down" \notin since
                 PROVE  /\ Pos' >= Base(call) + 3 => "ATE0" \in settings'
                        /\ Pos' >= Base(call) + 4 => "AT+CMEE=0" \in settings'
                        /\ Pos' >= Base(call) + 5 => "AT+CTZR=0" \in settings'
                        /\ Pos' >= Base(call) + 6 => "AT+CTZU=1" \in settings'
                        /\ Pos' >= Base(call) + 7 => Unlocked'
      BY <1>1 DEF InitFacts, Base
    <3> DEFINE b == Base(call)
    <3>1. b \in {0, 3} /\ Pos \in 1 .. b + 6 /\ Pos # b + 1
      BY <1>2, InitStage
    <3>2. /\ Pos = b + 2 => Stage.arg = "ATE0"
          /\ Pos = b + 3 => Stage.arg = "AT+CMEE=0"
          /\ Pos = b + 4 => Stage.arg = "AT+CTZR=0"
          /\ Pos = b + 5 => Stage.arg = "AT+CTZU=1"
          /\ Pos = b + 6 => Stage.arg \in {"AT+CPIN?", "AT+CPIN="}
      BY <1>2, InitStage
    <3>3. /\ Pos >= b + 3 => "ATE0" \in settings
          /\ Pos >= b + 4 => "AT+CMEE=0" \in settings
          /\ Pos >= b + 5 => "AT+CTZR=0" \in settings
          /\ Pos >= b + 6 => "AT+CTZU=1" \in settings
      BY DEF KInv, PowerFacts, InitFacts
    <3>4. /\ settings \subseteq settings' /\ (Stage.arg \in Settings => Stage.arg \in settings')
          /\ (Stage.arg = "AT+CPIN=" => Unlocked') /\ (Stage.arg # "AT+CPIN=" => (Unlocked => Unlocked'))
      BY <1>2 DEF Effect, Unlocked
    <3>5. /\ Pos = b + 2 => "ATE0" \in settings'
          /\ Pos = b + 3 => "AT+CMEE=0" \in settings'
          /\ Pos = b + 4 => "AT+CTZR=0" \in settings'
          /\ Pos = b + 5 => "AT+CTZU=1" \in settings'
      BY <3>2, <3>4 DEF Settings
    <3>6. Pos' = b + 7 => Unlocked'
      <4>1. SUFFICES ASSUME Pos' = b + 7 PROVE Unlocked'
        OBVIOUS
      <4>2. Pos = b + 6 /\ (Stage.arg = "AT+CPIN?" => Unlocked)
        BY <1>1, <1>5, <2>1, <3>1, <4>1
      <4> QED BY <3>2, <3>4, <4>2
    <3> HIDE DEF b
    <3>7. Pos' <= b + 7
      BY <2>1, <3>1
    <3> QED BY <2>1, <3>1, <3>3, <3>4, <3>5, <3>6, <3>7 DEF b
  <2> QED BY <1>1, <2>2, <2>3, <2>4 DEF PowerFacts
<1> QED BY <1>1, <1>4, <1>5

\* The other steps inside a call: failure, a late answer, no progress, or the end of a loop.
LEMMA OtherPos ==
  ASSUME IInv, PlanOK, Refused \/ Unanswered \/ TakesLate \/ Enter \/ GiveUp \/ PollOnce
  PROVE  /\ PlanOK' /\ call' = call /\ call \in PowerCalls /\ call.fn \in Functions
         /\ \/ Pos' = 0
            \/ "late" \in since'
            \/ Pos' = Pos /\ UNCHANGED <<module, settings, sim, since>>
            \/ /\ Pos' = Pos + 1 /\ UNCHANGED <<module, settings, sim, since>>
               /\ Stage.op = "poll"
               /\ Stage.arg = "TIMEOUT" => ~Hears
               /\ Stage.arg = "OK" => Hears
<1>1. Running /\ Stage.op \in {"command", "poll"} /\ call' = call
  BY DEF Refused, Unanswered, TakesLate, Enter, GiveUp, PollOnce, Polling
<1>2. call \in PowerCalls /\ call.fn \in Functions
  BY <1>1, Sort
<1>3. CASE Refused \/ Unanswered \/ GiveUp
  <2>1. Fail
    BY <1>3 DEF Refused, Unanswered, GiveUp
  <2> QED BY <1>1, <1>2, <2>1, Dropped
<1>4. CASE TakesLate
  <2>1. Succeed /\ "late" \in since'
    BY <1>4 DEF TakesLate
  <2> QED BY <1>1, <1>2, <2>1, Advance
<1>5. CASE Enter
  <2>1. UNCHANGED <<call, todo, result, module, settings, sim, since>>
    BY <1>5 DEF Enter
  <2> QED BY <1>2, <2>1, Stays
<1>6. CASE PollOnce
  <2>1. Polling /\ Stage.op = "poll"
    BY <1>6 DEF PollOnce, Polling
  <2>2. PICK a \in Answers, d \in 0 .. Wait[timer.kind] :
          /\ Answer(a, d)
          /\ IF a = timer.kind
             THEN Leave("met", d) /\ Succeed
             ELSE Leave("on", d + Pause[timer.kind]) /\ UNCHANGED <<todo, result>>
    BY <1>6 DEF PollOnce
  <2>3. timer.kind = Stage.arg
    BY <2>1, InLoop
  <2>4. UNCHANGED <<module, settings, sim>>
    BY <2>2 DEF Answer, NoEffect
  <2>5. \/ "late" \in since'
        \/ /\ since' = since
           /\ a = "TIMEOUT" => ~Hears
           /\ a = "OK" => Hears
    BY <2>2 DEF Answer
  <2>6. CASE a = timer.kind
    <3>1. PlanOK' /\ Pos' = Pos + 1
      BY <1>1, <2>2, <2>6, Advance
    <3> QED BY <1>1, <1>2, <2>1, <2>3, <2>4, <2>5, <2>6, <3>1
  <2>7. CASE a # timer.kind
    <3>1. PlanOK' /\ Pos' = Pos
      BY <1>1, <2>2, <2>7, Stays
    <3> QED BY <1>1, <1>2, <2>4, <2>5, <3>1
  <2> QED BY <2>6, <2>7
<1> QED BY <1>3, <1>4, <1>5, <1>6

LEMMA OtherFacts ==
  ASSUME KInv, PowerStep, Refused \/ Unanswered \/ TakesLate \/ Enter \/ GiveUp \/ PollOnce
  PROVE  PlanOK' /\ PowerFacts' /\ call' = call /\ call.fn \in Functions
<1>1. /\ PlanOK' /\ call' = call /\ call \in PowerCalls /\ call.fn \in Functions
      /\ \/ Pos' = 0
         \/ "late" \in since'
         \/ Pos' = Pos /\ UNCHANGED <<module, settings, sim, since>>
         \/ /\ Pos' = Pos + 1 /\ UNCHANGED <<module, settings, sim, since>>
            /\ Stage.op = "poll"
            /\ Stage.arg = "TIMEOUT" => ~Hears
            /\ Stage.arg = "OK" => Hears
  BY OtherPos DEF KInv
<1>2. Running /\ IInv /\ PlanOK
  BY DEF KInv, Refused, Unanswered, TakesLate, Enter, GiveUp, PollOnce, Polling
<1>3. Pos \in Nat \ {0}
  BY <1>2, Where
<1>4. CASE Pos' = 0
  BY <1>1, <1>4, FailedPower
<1>5. CASE "late" \in since'
  BY <1>1, <1>5 DEF PowerFacts, ResetFacts, OffFacts, InitFacts
<1>6. ASSUME UNCHANGED <<module, settings, sim, since>> PROVE session' = session
  BY <1>6, ServicesKept DEF Hears
<1>7. CASE Pos' = Pos /\ UNCHANGED <<module, settings, sim, since>>
  <2>1. session' = session
    BY <1>6, <1>7
  <2>2. ResetFacts'
    BY <1>1, <1>7, <2>1 DEF KInv, PowerFacts, ResetFacts, GoesDown, WentDown, BackUp, Restarted
  <2>3. OffFacts'
    BY <1>1, <1>7, <2>1 DEF KInv, PowerFacts, OffFacts
  <2>4. InitFacts'
    BY <1>1, <1>7, <2>1 DEF KInv, PowerFacts, InitFacts, Base, Unlocked
  <2> QED BY <1>1, <2>2, <2>3, <2>4 DEF PowerFacts
<1>8. CASE /\ Pos' = Pos + 1 /\ UNCHANGED <<module, settings, sim, since>>
           /\ Stage.op = "poll"
           /\ Stage.arg = "TIMEOUT" => ~Hears
           /\ Stage.arg = "OK" => Hears
  <2>1. session' = session
    BY <1>6, <1>8
  <2>2. ResetFacts'
    <3> SUFFICES ASSUME call.fn \in {"reset", "restart"}, "late" \notin since
                 PROVE  /\ Pos' = 2 => GoesDown'
                        /\ Pos' = 3 => WentDown'
                        /\ Pos' >= 4 => BackUp'
      BY <1>1, <1>8 DEF ResetFacts
    <3>1. Pos # 1 /\ (Pos = 2 => ~Hears) /\ (Pos = 3 => Hears)
      BY <1>2, <1>8, ResetStage
    <3>2. /\ Pos = 2 => GoesDown
          /\ Pos = 3 => WentDown
          /\ Pos >= 4 => BackUp
      BY DEF KInv, PowerFacts, ResetFacts
    <3>3. /\ GoesDown /\ ~Hears => WentDown
          /\ WentDown /\ Hears => BackUp
      BY DEF GoesDown, WentDown, Hears
    <3>4. (WentDown => WentDown') /\ (BackUp => BackUp')
      BY <1>8, <2>1 DEF WentDown, BackUp, Restarted
    <3>5. (Pos = 2 => WentDown') /\ (Pos >= 3 => BackUp')
      BY <1>3, <3>1, <3>2, <3>3, <3>4
    <3> QED BY <1>3, <1>8, <3>1, <3>5
  <2>3. OffFacts'
    <3> SUFFICES ASSUME call.fn = "powerOff", call.timeout > 0, "late" \notin since
                 PROVE  Pos' = 3 /\ "down" \in since'
      BY <1>1, <1>8 DEF OffFacts
    <3>1. Pos = 2 /\ ~Hears
      BY <1>2, <1>8, OffStage
    <3>2. module = "stopping" \/ "down" \in since
      BY <3>1 DEF KInv, PowerFacts, OffFacts
    <3> QED BY <1>8, <3>1, <3>2 DEF Hears
  <2>4. InitFacts'
    <3> SUFFICES ASSUME call.fn \in {"init", "restart"}
                 PROVE  Pos' < Base(call) + 3 /\ Base(call) \in {0, 3} /\ Pos' \in Nat
      <4>1. Base(call)' = Base(call)
        BY <1>1 DEF Base
      <4> QED BY <1>1, <4>1 DEF InitFacts
    <3>1. /\ Pos \in 1 .. Base(call) + 6 /\ Base(call) \in {0, 3}
          /\ Pos \notin {Base(call) + 2, Base(call) + 3, Base(call) + 4, Base(call) + 5, Base(call) + 6}
      BY <1>2, <1>8, InitStage
    <3> QED BY <1>8, <3>1
  <2> QED BY <1>1, <2>2, <2>3, <2>4 DEF PowerFacts
<1> QED BY <1>1, <1>4, <1>5, <1>7, <1>8

LEMMA CallPowerFacts ==
  ASSUME KInv, PowerStep, CallPower
  PROVE  PlanOK' /\ PowerFacts' /\ call'.fn \in Functions
<1>1. PICK c \in PowerCalls : Call(c, Stages(c))
  BY DEF CallPower
<1>2. Call(c, Plan(c)) /\ c.fn \in Functions
  BY <1>1, Kind
<1>3. PlanOK' /\ Pos' = 1 /\ call' = c
  BY <1>2, Begun
<1>4. \A x : Base(x) \in {0, 3}
  BY DEF Base
<1>5. PowerFacts'
  BY <1>3, <1>4 DEF PowerFacts, ResetFacts, OffFacts, InitFacts
<1> QED BY <1>2, <1>3, <1>5

\* Between the steps of a call, or after it, the module goes down, boots and wakes.
LEMMA ModuleFacts ==
  ASSUME KInv, PowerStep, GoDown \/ Boot \/ Wake
  PROVE  PlanOK' /\ PowerFacts' /\ ClientFacts'
<1>1. /\ UNCHANGED <<call, calls, todo, result>> /\ since \subseteq since'
      /\ UNCHANGED <<file, lastStatus, lastLength, copied, orphaned>>
      /\ "late" \in since' => "late" \in since
      /\ "unanswered" \in since' => "unanswered" \in since
  BY DEF GoDown, Boot, Wake, PowerStep
<1>2. PlanOK' /\ Pos' = Pos /\ Planned' = Planned
  BY <1>1, Stays DEF KInv
<1>3. \/ /\ module \in {"restarting", "stopping"} /\ module' \in {"down", "off"}
         /\ module = "restarting" => module' = "down"
         /\ "down" \in since' /\ session' = NoSession
      \/ /\ module = "down" /\ module' = "up" /\ "booted" \in since' /\ session' = session
         /\ UNCHANGED <<settings, sim>>
      \/ /\ module \in {"off", "asleep"} /\ module' = "up" /\ session' = session
         /\ UNCHANGED <<settings, sim>>
  BY DEF GoDown, Boot, Wake, PowerStep, Hears
<1>4. ResetFacts'
  <2>1. (GoesDown => GoesDown') /\ (WentDown => WentDown') /\ (BackUp => BackUp')
    BY <1>1, <1>3 DEF GoesDown, WentDown, BackUp, Restarted
  <2> QED BY <1>1, <1>2, <2>1 DEF KInv, PowerFacts, ResetFacts
<1>5. OffFacts'
  <2>1. module = "stopping" => module' = "stopping" \/ "down" \in since'
    BY <1>3
  <2> QED BY <1>1, <1>2, <1>3, <2>1 DEF KInv, PowerFacts, OffFacts
<1>6. InitFacts'
  <2>1. CASE UNCHANGED <<settings, sim>>
    BY <1>1, <1>2, <2>1 DEF KInv, PowerFacts, InitFacts, Base, Unlocked
  <2>2. CASE "down" \in since' /\ module \in {"restarting", "stopping"}
    <3>1. CASE call.fn # "restart"
      BY <1>1, <2>2, <3>1 DEF InitFacts
    <3>2. CASE call.fn = "restart" /\ "late" \notin since
      <4>1. ~(Pos >= 4)
        BY <2>2, <3>2 DEF KInv, PowerFacts, ResetFacts, BackUp
      <4>2. Pos \in Nat
        <5>1. IInv /\ PlanOK /\ result \in {"running", "true", "false"}
          BY DEF KInv, IInv, Shape
        <5> QED BY <5>1, Where DEF Running
      <4>3. Pos' < 4 /\ Pos' \in Nat /\ Base(call)' = 3
        BY <1>1, <1>2, <3>2, <4>1, <4>2 DEF Base
      <4> QED BY <4>3 DEF InitFacts
    <3>3. CASE "late" \in since
      BY <1>1, <3>3 DEF InitFacts
    <3> QED BY <3>1, <3>2, <3>3
  <2> QED BY <1>3, <2>1, <2>2
<1>7. CASE "down" \in since' /\ session' = NoSession
  <2>1. BodyNew'
    BY <1>7 DEF BodyNew, NoSession
  <2>2. CopyFacts'
    BY <1>1 DEF KInv, ClientFacts, CopyFacts, Running
  <2>3. BeginFacts' /\ EndFacts' /\ RequestFacts'
    BY <1>7 DEF BeginFacts, EndFacts, RequestFacts, OrphanFacts, Flagged
  <2>4. CertFacts'
    BY <1>1, <1>2 DEF KInv, ClientFacts, CertFacts
  <2> QED BY <1>2, <1>4, <1>5, <1>6, <2>1, <2>2, <2>3, <2>4 DEF PowerFacts, ClientFacts
<1>8. CASE session' = session
  <2>1. BodyNew' /\ CopyFacts'
    BY <1>1, <1>8 DEF KInv, ClientFacts, BodyNew, CopyFacts, Running
  <2>2. OrphanFacts => OrphanFacts'
    BY <1>1, <1>2, <1>8 DEF OrphanFacts, Flagged, Orphan
  <2>3. BeginFacts' /\ EndFacts'
    BY <1>1, <1>2, <1>8, <2>2 DEF KInv, ClientFacts, BeginFacts, EndFacts
  <2>4. RequestFacts' /\ CertFacts'
    BY <1>1, <1>2, <1>8 DEF KInv, ClientFacts, RequestFacts, CertFacts
  <2> QED BY <1>2, <1>4, <1>5, <1>6, <2>1, <2>3, <2>4 DEF PowerFacts, ClientFacts
<1> QED BY <1>3, <1>7, <1>8

LEMMA PowerKInv ==
  ASSUME KInv, PowerStep
  PROVE  KInv'
<1>1. IInv'
  BY PowerIInv DEF KInv
<1>2. CASE GoDown \/ Boot \/ Wake
  BY <1>1, <1>2, ModuleFacts DEF KInv
<1>3. CASE ~(GoDown \/ Boot \/ Wake)
  <2>1. PlanOK' /\ PowerFacts' /\ call'.fn \in Functions
    BY <1>3, CallPowerFacts, DoneFacts, OtherFacts DEF PowerStep, PowerNext
  <2>2. BodyNew'
    BY DEF PowerStep, KInv, ClientFacts, BodyNew, NoSession
  <2>3. ClientFacts'
    BY <2>1, <2>2, NoClientFacts
  <2> QED BY <1>1, <2>1, <2>3 DEF KInv
<1> QED BY <1>2, <1>3

-----------------------------------------------------------------------------
(* The stages of the clients *)

LEMMA ClientStage ==
  ASSUME IInv, PlanOK, Running
  PROVE  /\ Pos \in 1 .. Planned /\ Planned \in Nat
         /\ call.fn = "mqttBegin" =>
              /\ Pos \in {1, 2, 3} /\ Stage.op = "session"
              /\ Pos = 1 => Stage.arg = "AT+CMQTTSTART"
              /\ Pos = 2 => Stage.arg = "AT+CMQTTACCQ"
              /\ Pos = 3 => Stage.arg = "AT+CMQTTSSLCFG"
         /\ call.fn = "mqttEnd" =>
              /\ Pos \in {1, 2} /\ Stage.op = "session"
              /\ Pos = 1 => Stage.arg = "AT+CMQTTREL"
              /\ Pos = 2 => Stage.arg = "AT+CMQTTSTOP"
         /\ call.fn = "writeCaCert" =>
              /\ Pos \in {1, 2, 3, 4} /\ Planned = 4
              /\ Pos = 1 => Stage.op \in {"exists", "delete"}
              /\ Pos = 2 => Stage.op = "download"
              /\ Pos \in {3, 4} => Stage.op = "session"
         /\ call.fn = "getResponseBody" => Stage.op = "read"
         /\ call.fn = "request" /\ Pos = Planned => Stage.op = "action"
<1>1. Pos \in 1 .. Planned /\ Planned \in Nat
  BY Where
<1>2. call.fn \in ClientFunctions => call \in SessionCalls
  BY CallKind DEF PlanOK, Running
<1>3. Stage = Plan(call)[Pos] \/ Replaces(Stage, Plan(call)[Pos])
  BY DEF PlanOK, OnPlan
<1>4. \A p : p.op \notin {"command", "exists"} /\ (Stage = p \/ Replaces(Stage, p)) => Stage = p
  BY Names DEF Replaces
<1>5. ASSUME call.fn = "mqttBegin"
      PROVE  /\ Pos \in {1, 2, 3} /\ Stage.op = "session"
             /\ Pos = 1 => Stage.arg = "AT+CMQTTSTART"
             /\ Pos = 2 => Stage.arg = "AT+CMQTTACCQ"
             /\ Pos = 3 => Stage.arg = "AT+CMQTTSSLCFG"
  <2>1. /\ Planned \in {2, 3}
        /\ Plan(call)[1] = Session("AT+CMQTTSTART") /\ Plan(call)[2] = Session("AT+CMQTTACCQ")
        /\ Planned = 3 => Plan(call)[3] = Session("AT+CMQTTSSLCFG")
    BY <1>2, <1>5, BeginAt DEF ClientFunctions, Planned
  <2>2. Pos \in {1, 2, 3} /\ (Pos = 3 => Planned = 3)
    BY <1>1, <2>1
  <2>3. Plan(call)[Pos].op = "session"
    BY <2>1, <2>2, Names
  <2>4. Stage = Plan(call)[Pos]
    BY <1>3, <1>4, <2>3
  <2> QED BY <2>1, <2>2, <2>3, <2>4, Names
<1>6. ASSUME call.fn = "mqttEnd"
      PROVE  /\ Pos \in {1, 2} /\ Stage.op = "session"
             /\ Pos = 1 => Stage.arg = "AT+CMQTTREL"
             /\ Pos = 2 => Stage.arg = "AT+CMQTTSTOP"
  <2>1. /\ Planned = 2
        /\ Plan(call)[1] = Session("AT+CMQTTREL") /\ Plan(call)[2] = Session("AT+CMQTTSTOP")
    BY <1>2, <1>6, EndAt DEF ClientFunctions, Planned
  <2>2. Pos \in {1, 2}
    BY <1>1, <2>1
  <2>3. Plan(call)[Pos].op = "session"
    BY <2>1, <2>2, Names
  <2>4. Stage = Plan(call)[Pos]
    BY <1>3, <1>4, <2>3
  <2> QED BY <2>1, <2>2, <2>3, <2>4, Names
<1>7. ASSUME call.fn = "writeCaCert"
      PROVE  /\ Pos \in {1, 2, 3, 4} /\ Planned = 4
             /\ Pos = 1 => Stage.op \in {"exists", "delete"}
             /\ Pos = 2 => Stage.op = "download"
             /\ Pos \in {3, 4} => Stage.op = "session"
  <2>1. /\ Planned = 4 /\ Plan(call)[1] = File("exists") /\ Plan(call)[2] = File("download")
        /\ Plan(call)[3] = Session("AT+CSSLCFG") /\ Plan(call)[4] = Session("AT+CSSLCFG")
    BY <1>2, <1>7, CertAt DEF ClientFunctions, Planned
  <2>2. Pos \in {1, 2, 3, 4}
    BY <1>1, <2>1
  <2>3. /\ Pos = 1 => Plan(call)[Pos].op = "exists"
        /\ Pos = 2 => Plan(call)[Pos].op = "download"
        /\ Pos \in {3, 4} => Plan(call)[Pos].op = "session"
    BY <2>1, Names
  <2>4. Pos \in {2, 3, 4} => Stage = Plan(call)[Pos]
    BY <1>3, <1>4, <2>3
  <2>5. Pos = 1 => Stage = File("exists") \/ Stage = File("delete")
    BY <1>3, <2>1, Names DEF Replaces
  <2> QED BY <2>1, <2>2, <2>3, <2>4, <2>5, Names
<1>8. ASSUME call.fn = "getResponseBody" PROVE Stage.op = "read"
  <2>1. Planned = 1 /\ Plan(call)[1].op = "read"
    BY <1>2, <1>8, BodyAt DEF ClientFunctions, Planned
  <2>2. Pos = 1
    BY <1>1, <2>1
  <2> QED BY <1>3, <1>4, <2>1, <2>2
<1>9. ASSUME call.fn = "request", Pos = Planned PROVE Stage.op = "action"
  <2>1. Plan(call)[Pos].op = "action"
    BY <1>2, <1>9, RequestAt DEF ClientFunctions, Planned
  <2> QED BY <1>3, <1>4, <2>1
<1> QED BY <1>1, <1>5, <1>6, <1>7, <1>8, <1>9

-----------------------------------------------------------------------------
(* The steps of the clients *)

\* What holds of every step of a client inside a call.
LEMMA ClientPos ==
  ASSUME KInv, Running, Stage.op \notin {"command", "poll"}, UNCHANGED <<call, calls>>,
         Succeed \/ Fail
  PROVE  /\ PlanOK' /\ PowerFacts' /\ Pos' \in {0, Pos + 1} /\ (Fail => Pos' = 0)
         /\ Planned' = Planned /\ Planned \in Nat /\ Pos \in 1 .. Planned
<1>1. IInv /\ PlanOK
  BY DEF KInv
<1>2. call.fn \in ClientFunctions
  BY <1>1, Sort
<1>3. PlanOK' /\ Pos' \in {0, Pos + 1} /\ (Fail => Pos' = 0)
  BY <1>1, Advance, Dropped
<1>4. Planned' = Planned /\ Planned \in Nat /\ Pos \in 1 .. Planned
  BY <1>1, ClientStage DEF Planned, Plan
<1> QED BY <1>2, <1>3, <1>4, NoPowerFacts

LEMMA CallClientFacts ==
  ASSUME KInv, CallClient
  PROVE  PlanOK' /\ PowerFacts' /\ ClientFacts'
<1>1. PICK c \in SessionCalls :
        IF NoRoom(c)
        THEN /\ ~Running /\ calls < MaxCalls
             /\ call' = c /\ calls' = calls + 1 /\ result' = "false"
             /\ timer' = NoTimer /\ since' = {}
             /\ UNCHANGED <<millis, module, settings, sim, todo, owed, late>>
        ELSE Call(c, Plan(c))
  BY Kind DEF CallClient
<1>2. /\ UNCHANGED <<session, file, lastStatus, lastLength>>
      /\ orphaned' = Orphan /\ copied' = NoResponse
  BY DEF CallClient
<1>3. PlanOK' /\ call' = c /\ Pos' \in {0, 1} /\ (NoRoom(c) => ~Running')
  <2>1. CASE NoRoom(c)
    <3>1. call' = c /\ result' = "false"
      BY <1>1, <2>1
    <3> QED BY <3>1 DEF PlanOK, CallOK, OnPlan, Running, Pos
  <2>2. CASE ~NoRoom(c)
    BY <1>1, <2>2, Begun
  <2> QED BY <2>1, <2>2
<1>4. Planned' \in Nat \ {0}
  BY <1>3, PlanTypes DEF Planned, Plan
<1>5. PowerFacts'
  BY <1>3, Kind, NoPowerFacts
<1>6. OrphanFacts'
  BY <1>2, <1>3 DEF OrphanFacts, Orphan
<1>7. BeginFacts' /\ EndFacts' /\ RequestFacts' /\ CertFacts'
  BY <1>3, <1>4, <1>6 DEF BeginFacts, EndFacts, RequestFacts, CertFacts
<1>8. BodyNew'
  BY <1>2 DEF KInv, ClientFacts, BodyNew
<1>9. CopyFacts'
  <2> SUFFICES ASSUME c.fn = "getResponseBody"
               PROVE  (Running' => lastLength < c.room) /\ ~(copied'.length > 0)
    BY <1>2, <1>3 DEF CopyFacts
  <2>1. ~(copied'.length > 0)
    BY <1>2 DEF NoResponse
  <2>2. ~NoRoom(c) => lastLength < c.room
    <3>1. c.room \in Nat /\ lastLength \in Nat
      BY SessionAssumption DEF KInv, IInv, SessionOK
    <3> QED BY <3>1 DEF NoRoom
  <2> QED BY <1>3, <2>1, <2>2
<1> QED BY <1>3, <1>5, <1>7, <1>8, <1>9 DEF ClientFacts

LEMMA SessionFacts ==
  ASSUME KInv, SessionDone \/ SessionRefused \/ SessionUnanswered
  PROVE  PlanOK' /\ PowerFacts' /\ ClientFacts'
<1>1. /\ Running /\ Stage.op \in {"session", "ignored"} /\ UNCHANGED <<call, calls>>
      /\ Succeed \/ Fail
      /\ UNCHANGED <<file, lastStatus, lastLength, copied, orphaned>>
      /\ since' \in {since, since \cup {"unanswered"}}
      /\ session' = session \/ session' = After(Stage.arg)
  BY DEF SessionDone, SessionRefused, SessionUnanswered, AtSession, Same, FailUnlessIgnored, sessions
<1>2. /\ PlanOK' /\ PowerFacts' /\ Pos' \in {0, Pos + 1}
      /\ Planned' = Planned /\ Planned \in Nat /\ Pos \in 1 .. Planned
  BY <1>1, ClientPos
<1>3. \/ Pos' = 0
      \/ SessionDone
      \/ "unanswered" \in since' /\ Stage.arg \in {"AT+CMQTTSTART", "AT+CMQTTSTOP"}
      \/ Stage.op = "ignored"
  BY <1>1, ClientPos DEF SessionDone, SessionRefused, SessionUnanswered, FailUnlessIgnored
<1>4. IInv /\ PlanOK
  BY DEF KInv
<1>5. BodyNew'
  <2>1. After(Stage.arg).body \in {session.body, NoResponse}
    BY DEF After
  <2> QED BY <1>1, <2>1 DEF KInv, ClientFacts, BodyNew
<1>6. CopyFacts'
  BY <1>1, <1>4, ClientStage DEF CopyFacts
<1>7. CertFacts'
  <2> SUFFICES ASSUME call.fn = "writeCaCert" PROVE file = "new"
    BY <1>1 DEF CertFacts
  <2>1. Pos \in {3, 4}
    BY <1>1, <1>4, ClientStage
  <2> QED BY <2>1 DEF KInv, ClientFacts, CertFacts
<1>8. RequestFacts'
  <2> SUFFICES ASSUME call.fn = "request" PROVE ~(Pos' > Planned')
    BY <1>1 DEF RequestFacts
  <2>1. Pos # Planned
    BY <1>1, <1>4, ClientStage
  <2> QED BY <1>2, <2>1
<1>9. CASE Pos' = 0
  BY <1>2, <1>5, <1>6, <1>9, FailedClient
<1>10. ASSUME Pos' # 0 PROVE BeginFacts'
  <2> SUFFICES ASSUME call.fn = "mqttBegin"
               PROVE  /\ OrphanFacts'
                      /\ Pos' >= 3 /\ "down" \notin since' =>
                           session'.service = "started" /\ session'.client # "free"
    BY <1>1 DEF BeginFacts
  <2>1. /\ Pos \in {1, 2, 3} /\ Stage.op = "session"
        /\ Pos = 1 => Stage.arg = "AT+CMQTTSTART"
        /\ Pos = 2 => Stage.arg = "AT+CMQTTACCQ"
        /\ Pos = 3 => Stage.arg = "AT+CMQTTSSLCFG"
    BY <1>1, <1>4, ClientStage
  <2>2. Pos' = Pos + 1
    BY <1>2, <1>10
  <2>3. SessionDone \/ ("unanswered" \in since' /\ Pos = 1)
    BY <1>3, <1>10, <2>1
  <2>4. OrphanFacts'
    <3>1. CASE "unanswered" \in since'
      BY <3>1 DEF OrphanFacts, Flagged
    <3>2. CASE SessionDone
      <4>1. Allowed(Stage.arg)
        BY <3>2 DEF SessionDone
      <4>2. Pos = 1 => ~Orphan
        BY <2>1, <4>1 DEF Allowed, Orphan
      <4>3. OrphanFacts
        BY DEF KInv, ClientFacts, BeginFacts
      <4> QED BY <1>1, <2>1, <4>2, <4>3 DEF OrphanFacts, Flagged
    <3> QED BY <2>3, <3>1, <3>2
  <2>5. ASSUME Pos' >= 3, "down" \notin since'
        PROVE  session'.service = "started" /\ session'.client # "free"
    <3>1. Pos \in {2, 3} /\ SessionDone
      BY <2>1, <2>2, <2>3, <2>5
    <3>2. session' = After(Stage.arg) /\ Allowed(Stage.arg)
      BY <3>1 DEF SessionDone
    <3>3. CASE Pos = 2
      <4>1. session.service = "started" /\ session' = [session EXCEPT !.client = "acquired"]
        BY <2>1, <3>2, <3>3 DEF Allowed, After
      <4>2. session \in SessionTypes
        BY <1>4 DEF IInv, SessionOK
      <4> QED BY <4>1, <4>2 DEF SessionTypes
    <3>4. CASE Pos = 3
      <4>1. session' = session
        BY <2>1, <3>2, <3>4 DEF After
      <4> QED BY <1>1, <2>5, <3>4, <4>1 DEF KInv, ClientFacts, BeginFacts
    <3> QED BY <3>1, <3>3, <3>4
  <2> QED BY <2>4, <2>5
<1>11. ASSUME Pos' # 0 PROVE EndFacts'
  <2> SUFFICES ASSUME call.fn = "mqttEnd"
               PROVE  /\ OrphanFacts'
                      /\ Pos' >= 2 /\ "down" \notin since' => session'.client = "free"
                      /\ Pos' >= 3 /\ "down" \notin since' =>
                           session'.service = "stopped" \/ "unanswered" \in since'
    BY <1>1 DEF EndFacts
  <2>1. /\ Pos \in {1, 2} /\ Stage.op = "session"
        /\ Pos = 1 => Stage.arg = "AT+CMQTTREL"
        /\ Pos = 2 => Stage.arg = "AT+CMQTTSTOP"
    BY <1>1, <1>4, ClientStage
  <2>2. Pos' = Pos + 1
    BY <1>2, <1>11
  <2>3. SessionDone \/ ("unanswered" \in since' /\ Pos = 2)
    BY <1>3, <1>11, <2>1
  <2>4. session \in SessionTypes
    BY <1>4 DEF IInv, SessionOK
  <2>5. CASE Pos = 1
    <3>1. session' = After(Stage.arg) /\ Allowed(Stage.arg) /\ since' = since
      BY <2>3, <2>5 DEF SessionDone
    <3>2. session.client = "acquired" /\ session' = [session EXCEPT !.client = "free"]
      BY <2>1, <2>5, <3>1 DEF Allowed, After
    <3>3. session'.client = "free"
      BY <2>4, <3>2 DEF SessionTypes
    <3>4. OrphanFacts
      BY DEF KInv, ClientFacts, EndFacts
    <3>5. OrphanFacts'
      BY <1>1, <2>5, <3>1, <3>2, <3>4 DEF OrphanFacts, Flagged, Orphan
    <3> QED BY <2>2, <2>5, <3>3, <3>5
  <2>6. CASE Pos = 2
    <3>1. OrphanFacts'
      <4>1. OrphanFacts
        BY DEF KInv, ClientFacts, EndFacts
      <4> QED BY <1>1, <2>6, <4>1 DEF OrphanFacts, Flagged
    <3>2. "down" \notin since' => session.client = "free"
      BY <1>1, <2>6 DEF KInv, ClientFacts, EndFacts
    <3>3. After(Stage.arg) = [session EXCEPT !.service = "stopped"]
      BY <2>1, <2>6 DEF After
    <3>4. session'.client = session.client
      BY <1>1, <2>4, <3>3 DEF SessionTypes
    <3>5. SessionDone => session'.service = "stopped"
      BY <2>4, <3>3 DEF SessionDone, SessionTypes
    <3> QED BY <2>3, <3>1, <3>2, <3>4, <3>5
  <2> QED BY <2>1, <2>5, <2>6
<1> QED BY <1>2, <1>5, <1>6, <1>7, <1>8, <1>9, <1>10, <1>11 DEF ClientFacts

LEMMA ConnectionLostFacts ==
  ASSUME KInv, ConnectionLost
  PROVE  PlanOK' /\ PowerFacts' /\ ClientFacts'
<1>1. /\ UNCHANGED <<call, calls, todo, result, since, module, settings, sim>>
      /\ UNCHANGED <<file, lastStatus, lastLength, copied, orphaned>>
      /\ session.client = "connected" /\ session' = [session EXCEPT !.client = "acquired"]
      /\ session \in SessionTypes
  BY DEF ConnectionLost, power, KInv, IInv, SessionOK
<1>2. /\ session'.client = "acquired" /\ session'.service = session.service
      /\ session'.body = session.body /\ session # NoSession
  BY <1>1 DEF SessionTypes, NoSession
<1>3. PlanOK' /\ Pos' = Pos /\ Planned' = Planned
  BY <1>1, Stays DEF KInv
<1>4. ResetFacts'
  BY <1>1, <1>2, <1>3 DEF KInv, PowerFacts, ResetFacts, GoesDown, WentDown, BackUp
<1>5. OffFacts' /\ InitFacts'
  BY <1>1, <1>3 DEF KInv, PowerFacts, OffFacts, InitFacts, Base, Unlocked
<1>6. OrphanFacts => OrphanFacts'
  BY <1>1, <1>2, <1>3 DEF OrphanFacts, Flagged, Orphan
<1>7. BeginFacts' /\ EndFacts'
  BY <1>1, <1>2, <1>3, <1>6 DEF KInv, ClientFacts, BeginFacts, EndFacts
<1>8. RequestFacts' /\ CertFacts' /\ BodyNew' /\ CopyFacts'
  BY <1>1, <1>2, <1>3 DEF KInv, ClientFacts, RequestFacts, CertFacts, BodyNew, CopyFacts, Running
<1> QED BY <1>3, <1>4, <1>5, <1>7, <1>8 DEF PowerFacts, ClientFacts

LEMMA ActionFacts ==
  ASSUME KInv, ActionDone \/ ActionFailed
  PROVE  PlanOK' /\ PowerFacts' /\ ClientFacts'
<1>1. /\ Running /\ Stage.op = "action" /\ UNCHANGED <<call, calls, since>>
      /\ Succeed \/ Fail
      /\ UNCHANGED <<file, copied, orphaned>>
  BY DEF ActionDone, ActionFailed, AtOp, Same
<1>2. /\ PlanOK' /\ PowerFacts' /\ Pos' \in {0, Pos + 1} /\ (Fail => Pos' = 0)
      /\ Planned' = Planned /\ Planned \in Nat /\ Pos \in 1 .. Planned
  BY <1>1, ClientPos
<1>3. call.fn \notin {"mqttBegin", "mqttEnd", "getResponseBody"}
  BY <1>1, ClientStage DEF KInv
<1>4. call.fn # "writeCaCert"
  BY <1>1, ClientStage DEF KInv
<1>5. calls \in Nat /\ lastStatus \in 0 .. calls /\ session \in SessionTypes
  BY DEF KInv, IInv, SessionOK, CountsOK
<1>6. BeginFacts' /\ EndFacts' /\ CertFacts' /\ CopyFacts'
  BY <1>1, <1>3, <1>4 DEF BeginFacts, EndFacts, CertFacts, CopyFacts
<1>7. CASE ActionDone
  <2>1. PICK length \in Lengths :
          /\ session' = [session EXCEPT !.body = Response(length)]
          /\ lastStatus' = Response(length).number
          /\ lastLength' = length
    BY <1>7 DEF ActionDone
  <2>2. session'.body = [number |-> calls, length |-> length] /\ lastStatus' = calls
    BY <1>5, <2>1 DEF Response, SessionTypes
  <2>3. BodyNew' /\ RequestFacts'
    BY <1>1, <1>5, <2>1, <2>2 DEF BodyNew, RequestFacts
  <2> QED BY <1>2, <1>6, <2>3 DEF ClientFacts
<1>8. CASE ActionFailed
  <2>1. Pos' = 0 /\ UNCHANGED <<lastStatus, lastLength>>
    BY <1>2, <1>8 DEF ActionFailed
  <2>2. \/ session' = session
        \/ \E length \in Lengths : session' = [session EXCEPT !.body = Response(length)]
    BY <1>8 DEF ActionFailed
  <2>3. session' = session \/ session'.body.number = calls
    BY <1>5, <2>2 DEF Response, SessionTypes
  <2>4. BodyNew'
    BY <1>5, <2>1, <2>3 DEF KInv, ClientFacts, BodyNew
  <2> QED BY <1>2, <1>6, <2>1, <2>4, FailedClient
<1> QED BY <1>7, <1>8

LEMMA BodyFacts ==
  ASSUME KInv, BodyRead \/ BodyNotRead
  PROVE  PlanOK' /\ PowerFacts' /\ ClientFacts'
<1>1. /\ Running /\ Stage.op = "read" /\ UNCHANGED <<call, calls, since>>
      /\ Succeed \/ Fail
      /\ UNCHANGED <<session, file, lastStatus, lastLength, orphaned>>
  BY DEF BodyRead, BodyNotRead, AtOp, Same, sessions
<1>2. PlanOK' /\ PowerFacts' /\ Pos' \in {0, Pos + 1} /\ Planned' = Planned
      /\ Planned \in Nat /\ Pos \in 1 .. Planned
  BY <1>1, ClientPos
<1>3. call.fn \notin {"mqttBegin", "mqttEnd", "writeCaCert"}
  BY <1>1, ClientStage DEF KInv
<1>4. BeginFacts' /\ EndFacts' /\ CertFacts'
  BY <1>1, <1>3 DEF BeginFacts, EndFacts, CertFacts
<1>5. RequestFacts'
  <2> SUFFICES ASSUME call.fn = "request" PROVE ~(Pos' > Planned')
    BY <1>1 DEF RequestFacts
  <2>1. Pos # Planned
    BY <1>1, ClientStage DEF KInv
  <2> QED BY <1>2, <2>1
<1>6. BodyNew'
  BY <1>1 DEF KInv, ClientFacts, BodyNew
<1>7. CopyFacts'
  <2> SUFFICES ASSUME call.fn = "getResponseBody"
               PROVE  /\ lastLength < call.room
                      /\ copied'.length > 0 => copied'.length < call.room /\ copied'.number >= lastStatus
    BY <1>1 DEF CopyFacts
  <2>1. lastLength < call.room
    BY <1>1 DEF KInv, ClientFacts, CopyFacts
  <2>2. CASE copied' = copied
    BY <2>1, <2>2 DEF KInv, ClientFacts, CopyFacts
  <2>3. CASE BodyRead
    <3>1. copied'.length = lastLength /\ copied'.number = session.body.number
          /\ session.body.length >= lastLength
      BY <2>3 DEF BodyRead, CopyLength
    <3>2. lastLength \in Nat /\ (lastLength > 0 => session.body # NoResponse)
      BY <3>1 DEF KInv, IInv, SessionOK, NoResponse
    <3> QED BY <2>1, <3>1, <3>2 DEF KInv, ClientFacts, BodyNew
  <2> QED BY <2>2, <2>3 DEF BodyNotRead, sessions
<1> QED BY <1>2, <1>4, <1>5, <1>6, <1>7 DEF ClientFacts

LEMMA ExistsFacts ==
  ASSUME KInv, Exists
  PROVE  PlanOK' /\ PowerFacts' /\ ClientFacts'
<1>1. /\ Running /\ Stage.op = "exists" /\ UNCHANGED <<call, calls, result>>
      /\ UNCHANGED <<session, file, lastStatus, lastLength, copied, orphaned>>
      /\ since' \in {since, since \cup {"unanswered"}}
  BY DEF Exists, AtOp, Same, sessions
<1>2. IInv /\ PlanOK /\ todo \in Seq(AllStages) /\ todo # <<>>
  BY <1>1 DEF KInv, IInv, Shape
<1>3. call.fn \in ClientFunctions /\ call \in SessionCalls
  BY <1>1, <1>2, Sort
<1>4. Pos \in 1 .. Planned /\ Planned \in Nat /\ Pos = Planned - Len(todo) + 1
      /\ Len(todo) \in Nat \ {0}
  BY <1>1, <1>2, Where
<1>5. PlanOK' /\ Pos' \in {Pos, Pos + 1} /\ (Pos' = Pos + 1 => Pos # Planned) /\ Planned' = Planned
  <2>1. CASE todo' = Tail(todo)
    <3>1. Len(todo) # 1
      <4>1. SUFFICES ASSUME Len(todo) = 1 PROVE FALSE
        OBVIOUS
      <4>2. todo' = <<>>
        BY <1>2, <2>1, <4>1, Rest
      <4>3. IInv'
        BY ExistsIInv DEF KInv
      <4> QED BY <1>1, <4>2, <4>3 DEF IInv, Shape, Running
    <3>2. Succeed
      BY <1>1, <2>1, <3>1 DEF Succeed
    <3>3. PlanOK' /\ Pos' = Pos + 1 /\ Planned' = Planned
      BY <1>1, <1>2, <3>2, Advance
    <3>4. \A m, n \in Nat : m = m - n + 1 => n = 1
      OBVIOUS
    <3>5. Pos # Planned
      BY <1>4, <3>1, <3>4
    <3> QED BY <3>3, <3>5
  <2>2. CASE todo' = <<File("delete")>> \o Tail(todo)
    <3> DEFINE del == File("delete")
               rest == Tail(todo)
    <3>1. rest \in Seq(AllStages) /\ Len(rest) = Len(todo) - 1
          /\ \A i \in 1 .. Len(rest) : rest[i] = todo[i + 1]
      BY <1>2, HeadTailProperties
    <3>2. del \in AllStages
      BY DEF File, AllStages, SessionStage
    <3>3. todo' = <<del>> \o rest
      BY <2>2
    <3>4. Stage = Plan(call)[Pos]
      BY <1>1, <1>2, Sort
    <3>5. Plan(call)[Pos] = File("exists")
      <4>1. Plan(call)[Pos] \in SessionStage
        BY <1>3, <1>4, PlanTypes DEF Planned
      <4> QED BY <1>1, <3>4, <4>1 DEF SessionStage, File
    <3>6. Replaces(del, Plan(call)[Pos])
      BY <3>5 DEF Replaces
    <3> HIDE DEF del, rest
    <3>7. <<del>> \in Seq(AllStages) /\ Len(<<del>>) = 1 /\ <<del>>[1] = del
      BY <3>2
    <3>8. /\ todo' \in Seq(AllStages) /\ Len(todo') = Len(todo)
          /\ \A i \in 1 .. Len(todo) : todo'[i] = IF i <= 1 THEN <<del>>[i] ELSE rest[i - 1]
      <4>1. /\ todo' \in Seq(AllStages) /\ Len(todo') = 1 + Len(rest)
            /\ \A i \in 1 .. 1 + Len(rest) : todo'[i] = IF i <= 1 THEN <<del>>[i] ELSE rest[i - 1]
        BY <3>1, <3>3, <3>7, ConcatProperties
      <4>2. 1 + Len(rest) = Len(todo)
        BY <1>4, <3>1
      <4> QED BY <4>1, <4>2
    <3>9. todo'[1] = del
      BY <1>4, <3>7, <3>8
    <3>10. \A i \in 2 .. Len(todo) : todo'[i] = todo[i]
      <4> TAKE i \in 2 .. Len(todo)
      <4>1. i \in 1 .. Len(todo) /\ ~(i <= 1) /\ i - 1 \in 1 .. Len(rest) /\ (i - 1) + 1 = i
        BY <1>4, <3>1
      <4>2. todo'[i] = rest[i - 1] /\ rest[i - 1] = todo[(i - 1) + 1]
        BY <3>1, <3>8, <4>1
      <4> QED BY <4>1, <4>2
    <3>11. Head(todo') = todo'[1]
      BY <1>4, <3>8
    <3>12. Shape'
      BY ExistsIInv DEF KInv, IInv
    <3>13. PlanOK' /\ Pos' = Pos /\ Planned' = Planned
      BY <1>1, <1>2, <3>6, <3>8, <3>9, <3>10, <3>11, <3>12, Replaced
    <3> QED BY <1>4, <3>13
  <2> QED BY <2>1, <2>2 DEF Exists
<1>6. PowerFacts'
  BY <1>1, <1>3, NoPowerFacts
<1>7. call.fn \notin {"mqttBegin", "mqttEnd"}
  BY <1>1, <1>2, ClientStage
<1>8. BeginFacts' /\ EndFacts'
  BY <1>1, <1>7 DEF BeginFacts, EndFacts
<1>9. RequestFacts'
  BY <1>4, <1>5 DEF RequestFacts
<1>10. CertFacts'
  <2>1. call.fn = "writeCaCert" => Pos = 1
    BY <1>1, <1>2, ClientStage
  <2> QED BY <1>1, <1>5, <2>1 DEF CertFacts
<1>11. BodyNew' /\ CopyFacts'
  BY <1>1 DEF KInv, ClientFacts, BodyNew, CopyFacts, Running
<1> QED BY <1>5, <1>6, <1>8, <1>9, <1>10, <1>11 DEF ClientFacts

LEMMA FileFacts ==
  ASSUME KInv, DeleteDone \/ DownloadDone \/ FileFailed
  PROVE  PlanOK' /\ PowerFacts' /\ ClientFacts'
<1>1. /\ Running /\ Stage.op \in {"delete", "download"} /\ UNCHANGED <<call, calls, since>>
      /\ Succeed \/ Fail
      /\ UNCHANGED <<session, lastStatus, lastLength, orphaned>>
  BY DEF DeleteDone, DownloadDone, FileFailed, AtOp, Same
<1>2. /\ PlanOK' /\ PowerFacts' /\ Pos' \in {0, Pos + 1} /\ (Fail => Pos' = 0)
      /\ Planned' = Planned /\ Planned \in Nat /\ Pos \in 1 .. Planned
  BY <1>1, ClientPos
<1>3. call.fn \notin {"mqttBegin", "mqttEnd", "getResponseBody"}
  BY <1>1, ClientStage DEF KInv
<1>4. BeginFacts' /\ EndFacts' /\ CopyFacts'
  BY <1>1, <1>3 DEF BeginFacts, EndFacts, CopyFacts
<1>5. RequestFacts'
  <2> SUFFICES ASSUME call.fn = "request" PROVE ~(Pos' > Planned')
    BY <1>1 DEF RequestFacts
  <2>1. Pos # Planned
    BY <1>1, ClientStage DEF KInv
  <2> QED BY <1>2, <2>1
<1>6. BodyNew'
  BY <1>1 DEF KInv, ClientFacts, BodyNew
<1>7. CertFacts'
  <2> SUFFICES ASSUME call.fn = "writeCaCert", Pos' >= 3 PROVE file' = "new"
    BY <1>1 DEF CertFacts
  <2>1. Pos = 2 /\ Stage.op = "download"
    BY <1>1, <1>2, ClientStage DEF KInv
  <2>2. ~FileFailed
    BY <1>2 DEF FileFailed
  <2> QED BY <2>1, <2>2 DEF DownloadDone, DeleteDone, AtOp
<1> QED BY <1>2, <1>4, <1>5, <1>6, <1>7 DEF ClientFacts

LEMMA StutterFacts ==
  ASSUME KInv, UNCHANGED vars
  PROVE  PlanOK' /\ PowerFacts' /\ ClientFacts'
<1>1. /\ UNCHANGED <<call, calls, todo, result, since, module, settings, sim>>
      /\ UNCHANGED <<session, file, lastStatus, lastLength, copied, orphaned>>
  BY DEF vars, power, sessions
<1>2. PlanOK' /\ Pos' = Pos /\ Planned' = Planned
  BY <1>1, Stays DEF KInv
<1>3. PowerFacts'
  BY <1>1, <1>2 DEF KInv, PowerFacts, ResetFacts, OffFacts, InitFacts, GoesDown, WentDown, BackUp,
     Restarted, Base, Unlocked
<1>4. OrphanFacts => OrphanFacts'
  BY <1>1, <1>2 DEF OrphanFacts, Flagged, Orphan
<1>5. ClientFacts'
  BY <1>1, <1>2, <1>4 DEF KInv, ClientFacts, BeginFacts, EndFacts, RequestFacts, CertFacts, BodyNew,
     CopyFacts, Running
<1> QED BY <1>2, <1>3, <1>5

-----------------------------------------------------------------------------
(* Theorems *)

LEMMA StartKInv == Start => KInv
<1> SUFFICES ASSUME Start PROVE KInv
  OBVIOUS
<1>1. IInv
  BY StartIInv
<1>2. result = "false" /\ call.fn = "none" /\ copied = NoResponse
  BY DEF Start, Init
<1>3. session.body = NoResponse
  BY SessionAssumption DEF Start, NoSession
<1>4. PlanOK
  BY <1>2 DEF PlanOK, CallOK, OnPlan, Running
<1>5. PowerFacts
  BY <1>2 DEF PowerFacts, ResetFacts, OffFacts, InitFacts
<1>6. ClientFacts
  BY <1>2, <1>3 DEF ClientFacts, BeginFacts, EndFacts, RequestFacts, CertFacts, BodyNew, CopyFacts
<1> QED BY <1>1, <1>4, <1>5, <1>6 DEF KInv

LEMMA NextKInv == KInv /\ [Next]_vars => KInv'
<1> SUFFICES ASSUME KInv, [Next]_vars PROVE KInv'
  OBVIOUS
<1>1. CASE PowerStep
  BY <1>1, PowerKInv
<1>2. CASE ~PowerStep
  <2>1. IInv'
    BY NextIInv DEF KInv
  <2>2. PlanOK' /\ PowerFacts' /\ ClientFacts'
    BY <1>2, CallClientFacts, SessionFacts, ConnectionLostFacts, ActionFacts, BodyFacts, ExistsFacts,
       FileFacts, StutterFacts
    DEF Next, ClientStep
  <2> QED BY <2>1, <2>2 DEF KInv
<1> QED BY <1>1, <1>2

LEMMA FactsAtEnd ==
  ASSUME KInv
  PROVE  TrueMeansDone /\ SessionsAgree
<1>1. IInv /\ PlanOK /\ PowerFacts /\ ClientFacts
  BY DEF KInv
<1>2. ASSUME result = "true"
      PROVE  /\ Pos = Planned + 1 /\ Planned \in Nat
             /\ call.fn \in {"reset", "restart"} => Pos >= 4
             /\ call.fn = "powerOff" /\ call.timeout > 0 => Pos >= 3
             /\ call.fn \in {"init", "restart"} => Pos >= Base(call) + 7 /\ Base(call) \in {0, 3}
             /\ call.fn \in {"mqttBegin", "mqttEnd", "writeCaCert"} => Pos >= 3
             /\ call.fn \in {"init", "reset", "restart"} => Pos \in Nat
  <2>1. Pos = Planned + 1 /\ Planned \in Nat
    BY <1>1, <1>2, Where
  <2>2. /\ call.fn \in Functions => call \in PowerCalls
        /\ call.fn \in ClientFunctions => call \in SessionCalls
    BY <1>1, <1>2, CallKind DEF PlanOK
  <2>3. call.fn \in {"reset", "restart"} => Planned >= 3
    BY <2>2, ResetAt DEF Functions, Planned
  <2>4. call.fn = "powerOff" /\ call.timeout > 0 => Planned = 2
    BY <2>2, OffAt DEF Functions, Planned
  <2>5. call.fn \in {"init", "restart"} => Planned = Base(call) + 6 /\ Base(call) \in {0, 3}
    BY <2>2, InitAt DEF Functions, Planned, Base
  <2>6. call.fn \in {"mqttBegin", "mqttEnd", "writeCaCert"} => Planned \in {2, 3, 4}
    BY <2>2, BeginAt, EndAt, CertAt DEF ClientFunctions, Planned
  <2>7. call.fn \in {"init", "restart"} => Pos >= Base(call) + 7
    BY <2>1, <2>5
  <2> QED BY <2>1, <2>3, <2>4, <2>5, <2>6, <2>7
<1>3. TrueMeansDone
  <2> SUFFICES ASSUME result = "true", "late" \notin since
               PROVE  /\ call.fn \in {"reset", "restart"} => Restarted
                      /\ call.fn = "powerOff" /\ call.timeout > 0 => "down" \in since
                      /\ call.fn = "init" /\ "down" \notin since => settings = Settings /\ Unlocked
                      /\ call.fn = "restart" /\ module = "up" => settings = Settings /\ Unlocked
    BY DEF TrueMeansDone
  <2>1. call.fn \in {"reset", "restart"} => Restarted
    BY <1>1, <1>2 DEF PowerFacts, ResetFacts, BackUp
  <2>2. call.fn = "powerOff" /\ call.timeout > 0 => "down" \in since
    BY <1>1, <1>2 DEF PowerFacts, OffFacts
  <2>3. ASSUME call.fn \in {"init", "restart"}, call.fn = "init" => "down" \notin since
        PROVE  settings = Settings /\ Unlocked
    <3>1. Pos >= Base(call) + 7 /\ Base(call) \in {0, 3} /\ Pos \in Nat
      BY <1>2, <2>3
    <3>2. /\ Pos >= Base(call) + 3 /\ Pos >= Base(call) + 4 /\ Pos >= Base(call) + 5
          /\ Pos >= Base(call) + 6
      BY <3>1
    <3>3. /\ "ATE0" \in settings /\ "AT+CMEE=0" \in settings /\ "AT+CTZR=0" \in settings
          /\ "AT+CTZU=1" \in settings /\ Unlocked
      BY <1>1, <2>3, <3>1, <3>2 DEF PowerFacts, InitFacts
    <3>4. settings \subseteq Settings
      BY <1>1 DEF IInv, ModuleOK
    <3> QED BY <3>3, <3>4 DEF Settings
  <2> QED BY <2>1, <2>2, <2>3
<1>4. Told
  BY <1>1, <1>2 DEF Told, ClientFacts, BeginFacts, EndFacts, RequestFacts, CertFacts, Orphan
<1>5. Cleared
  BY <1>1, <1>2 DEF Cleared, PowerFacts, ResetFacts, BackUp
<1>6. OrphanStays
  <2> SUFFICES ASSUME result = "true", call.fn \in {"mqttBegin", "mqttEnd"}, orphaned
               PROVE  Flagged
    BY DEF OrphanStays, Flagged
  <2>1. Pos = Planned + 1 /\ Planned \in Nat /\ Pos >= 3
    BY <1>2
  <2>2. OrphanFacts
    BY <1>1 DEF ClientFacts, BeginFacts, EndFacts
  <2> QED BY <2>1, <2>2 DEF OrphanFacts
<1>7. BodyFits
  BY <1>1 DEF BodyFits, ClientFacts, CopyFacts
<1> QED BY <1>3, <1>4, <1>5, <1>6, <1>7 DEF SessionsAgree

\* When a function of class A76XX returns true, and no late OK was taken for another, the
\* module has done it: reset() and restart() have restarted it, powerOff() has seen it
\* gone, init() and restart() have set what they set and unlocked the SIM.
THEOREM TrueIsDone == Spec => []TrueMeansDone
<1>1. KInv => TrueMeansDone
  BY FactsAtEnd
<1> QED BY <1>1, StartKInv, NextKInv, PTL DEF Spec

\* What begin(), end(), request(), writeCaCert(), reset() and restart() returned true for
\* holds in the module; a service without a client stays in the way of begin() and end();
\* and getResponseBody() copies no more than there is room for, of no older response.
THEOREM SessionsStayAgreed == Spec => []SessionsAgree
<1>1. KInv => SessionsAgree
  BY FactsAtEnd
<1> QED BY <1>1, StartKInv, NextKInv, PTL DEF Spec
=============================================================================
