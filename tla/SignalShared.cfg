SPECIFICATION Spec
CONSTANTS
  Requests = {r1, r2, r3}
  Approvers = {ann}
  Strangers = {eve}
  Stamps = {1, 2}
  SharedStamps = TRUE
  MaxReplies = 2
  NoRequest = NoRequest
SYMMETRY Symmetry
CONSTRAINT FewStrays
INVARIANTS NoStaleRegistration ApprovedUnderItsStamp
PROPERTY VerdictSticks
