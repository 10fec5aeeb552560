SPECIFICATION FairSpec
CONSTANTS
  os = os
  app = app
  boot = boot
  zip = zip
  disk = disk
  part = part
  data = data
  crypt = crypt
  ubi = ubi
  nand = nand
  root = root
  file = file
  image = image
  conf = conf
  kernel = kernel
  spl = spl
  first = first
  second = second
  third = third
  fourth = fourth
  Content <- MCContent
  Size <- MCSize
  Version <- MCVersion
  Inflated <- MCInflated
  Device <- MCDevice
  Storage <- MCStorage
  Blocks <- MCBlocks
  Capacity <- MCCapacity
  Place <- MCPlace
  On <- MCOn
  Room <- MCRoom
  Package <- MCPackage
  List <- MCList
INVARIANTS
  AllInPlace
  InstallInv
PROPERTIES
  MountsSpared
  EventuallyInstalls
