CONSTANTS
  Port = "Arduino"
  Script <- AllScripts
  Replies <- AllReplies
  Events <- MessageEvents
  Intact <- IntactDelivery
  Tasks <- CarefulTasks
  Handlers <- MessageHandlers
  MatchString <- HandlerStrings
  Interleaved = FALSE
  MaxCalls = 1
  MaxEvents = 1
  MaxEarly = 0
  MaxCuts = 0
SPECIFICATION Spec
INVARIANTS NoStaleAnswer AnswerReadOut HandlersReadEvents SuccessIsReal DoneIsReported NoEventLost DeliveredIntact
