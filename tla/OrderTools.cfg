SPECIFICATION Spec
CONSTANTS
  Calls <- MCCalls
  AssetType <- MCAssetType
  Books <- MCBooks
  ShortDoubles <- MCShortDoubles
INVARIANTS Vetted NothingDropped ExitsExclusive ListingSound
CHECK_DEADLOCK FALSE
