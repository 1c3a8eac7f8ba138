SPECIFICATION FairSpec
CONSTANTS
  Paths <- MCPaths
  Bytes <- MCBytes
  MaxLen = 2
  MaxChunk = 2
  MaxOpen = 2
  MaxShort = 1
INVARIANTS
  TypeOK
  PromiseKept
  ChunkHasFile
  OffsetIsFileEnd
PROPERTIES
  TransferIsAlone
  TransferImplemented
  TransferEnds
