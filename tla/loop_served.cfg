SPECIFICATION FairHttpSpec
CONSTANTS
  c1 = c1
  c2 = c2
  Client <- Clients
  Kinds <- Unchained
  CustomServer <- NoServer
  CommCapacity = 2
  WakerCapacity = 1
  PollingEnabled = TRUE
  Disconnects = FALSE
  SaveFails = FALSE
PROPERTIES
  CommandsEnd
