SPECIFICATION Spec
CONSTANTS
  o1 = o1
  o2 = o2
  o3 = o3
  c1 = c1
  c2 = c2
  b1 = b1
  b2 = b2
  None = None
  Orders = {o1, o3}
  Branches = {b1}
  Checkouts = {c1, c2}
  Lines <- SingleLines
  Branch <- SingleBranches
  Units <- SingleUnits
  Online = {c1}
  Grouped = {}
  Requested <- SinglePoints
  CapPercent = 100
  MinPoints = 0
  EarnPer = 1
  Opening <- SingleShelf
  OpeningPoints = 1
  Workers = {w1, w2}
  Codes = {"2"}
  Handlers = {}
  MaxCrashes = 0
CHECK_DEADLOCK FALSE
SYMMETRY Identical
INVARIANTS
  DuplicateNotifyIsNoOp
