SPECIFICATION Spec
CONSTANTS
  short = short
  long = long
  huge = huge
  Message <- MCMessage
  Size <- MCSize
  Bound = 4
  MaxInserted = 5
  MaxCount = 2
INVARIANTS
  TypeOK
  BoundKept
  PrintedInOrder
  NoneSkipped
PROPERTIES
  IndexMonotonic
