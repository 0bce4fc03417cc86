CONSTANTS
  Port = "Arduino"
  NmeaHandlers <- TwoTalkers
  ClientHandlers <- OtherClients
  Unset = "unset"
  Capacity = 6
  QueueSize = 2
  MaxSentences = 2
SPECIFICATION Spec
INVARIANTS TypeOK OnceInTable ClientsHeard StreamMatchesTable WholeSentences
PROPERTIES OrderKept
CHECK_DEADLOCK FALSE
