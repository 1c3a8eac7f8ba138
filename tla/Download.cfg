SPECIFICATION Spec
CONSTANTS
  Chunks = {1, 2}
  MaxBody = 3
  MaxHops = 2
  max_len = 4
INVARIANTS
  TypeOK
  OkIsOnDisk
  NothingUnflushed
  GoodIsClosedOnce
  WithinMax
  RedirectIsNotStored
