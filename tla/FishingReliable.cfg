SPECIFICATION FairSpec
CONSTANTS
  ChunkSizes <- TwoChunks
  Cancellers = {c1}
  MaxOrders = 3
  Faults = {"expiry", "interrupt", "queued"}
INVARIANTS TypeOK OneOpenOrderPerChunk EndAccountsForOrders
PROPERTIES CampaignEnds CancelReturns
CHECK_DEADLOCK FALSE
