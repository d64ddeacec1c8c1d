SPECIFICATION Spec
CONSTANTS
  ChunkSizes <- OneChunk
  Cancellers = {c1}
  MaxOrders = 2
  Faults = {}
INVARIANT NoOverfill
CHECK_DEADLOCK FALSE
