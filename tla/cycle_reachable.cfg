SPECIFICATION FairSpec
CONSTANTS
  p1 = p1
  p2 = p2
  Package <- MCPackage
  Faults = {"powerLoss", "agentRestart", "saveFails", "tornWrite", "installFails",
            "swapFails", "rebootRefused", "slowReboot", "startupHookFails",
            "rollbackFails"}
  Persistent = TRUE
  PollingEnabled = TRUE
  FromV1 = TRUE
PROPERTIES
  ConfirmedHasBooted
  AlwaysReachable
