SPECIFICATION FairSpec
CONSTANTS
  Requests = {r1, r2}
  Approvers = {ann}
  Strangers = {eve}
  MaxReactions = 2
INVARIANTS TypeOK RegisteredWhileWaiting DisplayAgrees
PROPERTIES DeskSpec PostedCallEnds
