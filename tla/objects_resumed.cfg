SPECIFICATION FairSpec
CONSTANTS
  x = x
  y = y
  z = z
  p = p
  q = q
  r = r
  Object <- MCObject
  Size <- MCSize
  Package <- ThreePackages
  List <- Lists
  PendingUpgrade = TRUE
  Ranges = {TRUE, FALSE}
INVARIANTS
  DirInv
  WholeObjectsInstalled
PROPERTIES
  ReadyKept
  EventuallyInstalls
