SPECIFICATION Spec
CONSTANTS
  p1 = p1
  o1 = o1
  None = None
  Products = {p1}
  Opening <- NoUnit
  Orders = {o1}
  Grns = {g1, g2}
  Buyers = {b1, b2}
  Deliveries <- OneDelivery
  Amounts = {1}
  Adjustments = {a1}
  Reviewers = {r1, r2}
  Counted = {1}
  Threshold = 0
SYMMETRY Identical
CHECK_DEADLOCK FALSE
INVARIANTS
  PaidMatchesDocuments
  BillsAddUp
  AdjustmentsCancelOut
PROPERTIES
  ImplementsJournal
