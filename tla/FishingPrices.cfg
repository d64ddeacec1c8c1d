SPECIFICATION FairSpec
CONSTANTS
  Requests <- MCRequests
  ShortDoubles <- MCShortDoubles
  MaxFeint = 300
INVARIANTS ChunksCoverQuantity OfferHolds
PROPERTIES WalkArrives
CHECK_DEADLOCK FALSE
