SPECIFICATION Spec
CONSTANTS
  Accounts = {a1, a2}
  Orders = {o1}
  Specs = {s1}
  PreviewIds = {i1, i2}
  Previews = {p1, p2}
  Writes = {w1, w2}
  TTL = 1
  MaxTime = 2
  None = None
SYMMETRY Symmetry
INVARIANTS TypeOK WrittenOnlyIfApproved SingleUse WrittenAsPreviewed
PROPERTIES HandedOverLive GateSpec
