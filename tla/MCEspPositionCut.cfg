CONSTANTS
  NumberLen = 6
  TopicLen = 3
  PayloadLen = 6
  Inputs <- FixesOnEsp
SPECIFICATION Spec
INVARIANTS PositionIsRead
CHECK_DEADLOCK FALSE
