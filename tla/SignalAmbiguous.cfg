SPECIFICATION Spec
CONSTANTS
  Requests = {r1, r2}
  Approvers = {ann}
  Strangers = {}
  Stamps = {1}
  SharedStamps = TRUE
  MaxReplies = 1
  NoRequest = NoRequest
INVARIANT ApprovedByOwnReply
