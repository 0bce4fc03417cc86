CONSTANTS
  Port = "ESP"
  Script <- AllScripts
  Replies <- AllReplies
  Events <- UncutEvents
  Intact <- IntactDelivery
  Tasks <- PollTasks
  Handlers <- MessageHandlers
  MatchString <- HandlerStrings
  Interleaved = FALSE
  MaxCalls = 1
  MaxEvents = 2
  MaxEarly = 0
  MaxCuts = 0
SPECIFICATION Spec
INVARIANTS DeliveredIntact
