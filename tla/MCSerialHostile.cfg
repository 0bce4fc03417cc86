CONSTANTS
  Port = "ESP"
  Script <- AllScripts
  Replies <- AllReplies
  Events <- HandledEvents
  Intact <- IntactDelivery
  Tasks <- MixedTasks
  Handlers <- AllHandlers
  MatchString <- HandlerStrings
  Interleaved = TRUE
  MaxCalls = 1
  MaxEvents = 1
  MaxEarly = 1
  MaxCuts = 1
  Text <- Joined
  Ends <- LibraryEnds
  Outlined <- LibraryOutlined
  Points <- LibraryPoints
SPECIFICATION FairSpec
INVARIANTS TypeOK HandlersRunInWaits EventsAccounted
PROPERTIES CallsReturn
