CONSTANTS
  CharIsSigned = FALSE
  MaxOctets = 14
  SenderSize = 20
  References = 2
  MaxCalls = 3
  Calls <- SomeCalls
  Again <- FewCalls
  Incoming <- SomeIncoming
SPECIFICATION Spec
INVARIANTS TypeOK SegmentsInOrder SegmentsCover ReferencesApart PduFits ReadIsSent IncomingIsRead
CHECK_DEADLOCK FALSE
