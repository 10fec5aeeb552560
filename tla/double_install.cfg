SPECIFICATION Spec
CONSTANTS
  p1 = p1
  p2 = p2
  Package <- MCPackage
  Faults = {"rebootRefused"}
  Persistent = TRUE
  PollingEnabled = TRUE
  FromV1 = FALSE
INVARIANTS
  InstalledSetIsNext
