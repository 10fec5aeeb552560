SPECIFICATION FairSpec
CONSTANTS
  p1 = p1
  p2 = p2
  Package <- MCPackage
  Faults = {"powerLoss", "installFails", "swapFails", "rollbackFails"}
  Persistent = TRUE
  PollingEnabled = FALSE
  FromV1 = TRUE
INVARIANTS
  NextBootIsWhole
  InstalledSetIsNext
PROPERTIES
  ForcedProbeHappens
