CONSTANTS
  ClockSize = 6
  Wait <- PollWait
  Pause <- PollPause
  PowerCalls <- SomePowerCalls
  InitTimeout = 1
  Sims = {"open", "pin"}
  Starts = {0}
  MaxCalls = 3
  MaxLate = 1
  Lengths = {1, 2}
  Left <- SomeLeft
  SessionCalls <- SomeSessionCalls
SPECIFICATION Spec
INVARIANTS TypeOK PollsEndInTime TrueMeansDone SessionsAgree
CHECK_DEADLOCK FALSE
