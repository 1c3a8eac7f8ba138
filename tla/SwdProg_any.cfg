SPECIFICATION Spec
CONSTANTS
  RamAddr = 4
  RamLen = 12
  NumPages = 2
  SectorLen = 1
  HeaderLen = 1
  AlgoLen = 3
  StackUse = 1
  StackSize = 6
  PageLen = 1
  DataSectionAddr = 6
  FwPages = 2
  MaxRetry = 3
  Assets <- MCAssets
INVARIANTS
  TypeOK
  ExecReady
  UninitedIsClean
  CleanNeedsSecondLayout
  SectorsErased
PROPERTIES
  FlashOnlyInSession
