SPECIFICATION FairSpec
CONSTANTS
  c1 = c1
  Client <- OneClient
  Kinds <- AllKinds
  CustomServer <- NoServer
  CommCapacity = 2
  WakerCapacity = 1
  PollingEnabled = TRUE
  Disconnects = FALSE
  SaveFails = FALSE
PROPERTIES
  ClientsServed
CHECK_DEADLOCK FALSE
