SPECIFICATION FairSpec
CONSTANTS
  Requests = {r1, r2}
  Approvers = {ann}
  Strangers = {eve}
  Stamps = {1, 2}
  SharedStamps = FALSE
  MaxReplies = 1
  NoRequest = NoRequest
INVARIANTS TypeOK ApprovedByOwnReply WaitingIsRegistered
PROPERTIES DeskSpec EveryCallEnds
