SPECIFICATION FairSpec
CONSTANTS
  o1 = o1
  o2 = o2
  o3 = o3
  c1 = c1
  c2 = c2
  b1 = b1
  b2 = b2
  None = None
  Orders = {o1, o2, o3}
  Branches = {b1, b2}
  Checkouts = {c1, c2}
  Lines <- BothLines
  Branch <- BothBranches
  Units <- BothUnits
  Online = {c1}
  Grouped = {c1}
  Requested <- BothPoints
  CapPercent = 100
  MinPoints = 0
  EarnPer = 1
  Opening <- BothShelves
  OpeningPoints = 2
  Workers = {w1}
  Codes = {"2", "-2"}
  Handlers = {"fulfill", "cancelByUser", "markNotCollected", "findByCode"}
  MaxCrashes = 1
CHECK_DEADLOCK FALSE
INVARIANTS
  OneSalePerOrder
  SettledEqualsCaptured
PROPERTIES
  ImplementsPickup
  EndedGivesBack
  CapturedIsSettled
