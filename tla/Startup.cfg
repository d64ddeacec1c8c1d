SPECIFICATION FairSpec
CONSTANTS
  Procs = {p1, p2}
  Options <- MCOptions
  MaxAge = 1
  MaxNow = 2
  Nobody = nobody
  Orphan = orphan
INVARIANTS WritesReviewed ListenerReaped
PROPERTIES OnlyYoungTokensServe CommandEnds
