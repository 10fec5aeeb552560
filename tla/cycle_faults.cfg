SPECIFICATION FairSpec
CONSTANTS
  p1 = p1
  p2 = p2
  Package <- MCPackage
  Faults = {"powerLoss", "agentRestart", "saveFails", "installFails", "swapFails",
            "rebootRefused", "slowReboot", "rollbackFails"}
  Persistent = TRUE
  PollingEnabled = TRUE
  FromV1 = TRUE
INVARIANTS
  TrialIsRemembered
  IndInv
PROPERTIES
  KnownGoodUntouched
  Promise
  TrialIsSettled
