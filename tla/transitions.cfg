SPECIFICATION FairSpec
CONSTANTS
  Files <- MCFiles
  Stored <- MCStored
  Pauses <- MCPauses
  Never = 100000
  Ages <- MCAges
  ExtraPolls <- MCExtraPolls
  Callbacks <- MCCallbacks
  Faults = {"restart", "saveFails", "clockSet", "noConsent"}
INVARIANTS
  TypeOK
  NoSpin
  ProbesInTime
  CancelHeeded
  UpdatesAreLogged
  InstalledIsTrue
PROPERTIES
  KeepsProbing
  CustomServerPasses
\* An agent that does not accept its settings ends.
CHECK_DEADLOCK FALSE
