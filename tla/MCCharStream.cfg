CONSTANTS
  NumberLen = 6
  TopicLen = 3
  PayloadLen = 6
  Inputs <- SomeInputs
SPECIFICATION Spec
INVARIANTS PositionIsRead MessageKept
CHECK_DEADLOCK FALSE
