SPECIFICATION Spec
CONSTANTS
  ChunkSizes <- TwoChunks
  Cancellers = {c1}
  MaxOrders = 3
  Faults = {"lostCancel", "lostAnswer", "lostId", "interrupt", "queued"}
INVARIANTS NeverOverreports FilledMeansFilled
PROPERTY FinishedStaysFinished
CHECK_DEADLOCK FALSE
