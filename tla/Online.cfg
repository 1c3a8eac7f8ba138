SPECIFICATION FairSpec
CONSTANTS
  GoesOnWith = "ok"
  WholeTopic = TRUE
  Bodies <- MCBodies
  Zeros <- MCZeros
  QueueLen = 1
  HeapBlobs = 1
  Versions <- MCVersions
  Odd <- MCOdd
  Tailed <- MCTailed
  Latest = "v2"
  Sent <- MCSent
INVARIANTS
  TypeOK
  RegisteredIsOfThisLink
PROPERTIES
  GoodAssetStays
  AssetArrives
