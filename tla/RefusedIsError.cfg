SPECIFICATION Spec
CONSTANTS
  Chunks = {1, 2}
  MaxBody = 3
  MaxHops = 2
  max_len = 4
INVARIANT
  RefusedIsError
