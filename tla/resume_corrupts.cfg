SPECIFICATION Spec
CONSTANTS
  x = x
  y = y
  z = z
  p = p
  q = q
  r = r
  Object <- MCObject
  Size <- MCSize
  Package <- OnePackage
  List <- Lists
  PendingUpgrade = FALSE
  Ranges = {TRUE}
PROPERTIES
  CompletedIsReady
