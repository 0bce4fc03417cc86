CONSTANTS
  Port = "Arduino"
  Script <- AllScripts
  Replies <- AllReplies
  Events <- CutEvents
  Intact <- IntactDelivery
  Tasks <- PollTasks
  Handlers <- AllHandlers
  MatchString <- HandlerStrings
  Interleaved = FALSE
  MaxCalls = 1
  MaxEvents = 1
  MaxEarly = 0
  MaxCuts = 0
SPECIFICATION FairSpec
PROPERTIES CallsReturn
CHECK_DEADLOCK FALSE
