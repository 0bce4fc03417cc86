CONSTANTS
  Port = "Arduino"
  NmeaHandlers <- Talkers
  ClientHandlers <- OtherClients
  Unset = "unset"
  Capacity = 10
  QueueSize = 2
  MaxSentences = 2
SPECIFICATION Spec
INVARIANTS WithinTable
CHECK_DEADLOCK FALSE
