SPECIFICATION FairHttpSpec
CONSTANTS
  c1 = c1
  c2 = c2
  Client <- Clients
  Kinds <- AllKinds
  CustomServer <- Custom
  CommCapacity = 2
  WakerCapacity = 1
  PollingEnabled = FALSE
  Disconnects = TRUE
  SaveFails = TRUE
INVARIANTS
  NoLostWake
  LoopInv
  FullWait
  Correlated
PROPERTIES
  ServesAtOnce
  AcceptedInstallRuns
  SuccessMeansDone
  NothingDoneUnlessMisread
CHECK_DEADLOCK FALSE
