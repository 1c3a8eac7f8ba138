SPECIFICATION FairSpec
CONSTANTS
  Byte = {"a", "b"}
  MaxLen = 4
  Block = 2
INVARIANTS
  TypeOK
  EvenFilesAreJudged
PROPERTIES
  CheckReturns
