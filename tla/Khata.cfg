SPECIFICATION Spec
CONSTANTS
  None = None
  Accounts = {a1}
  Sales = {s1, s2}
  Workers = {w1, w2}
  Limits = {1}
  Terms = {0, 1}
  Bills <- PartCredit
  Repayments = {3}
  Caps = {1}
  MaxRepaid = 3
  Handlers = {"approve", "reject", "suspend", "close", "update"}
SYMMETRY Identical
CHECK_DEADLOCK FALSE
INVARIANTS
  RowsExplainBalance
  VoidedOwesNothing
PROPERTIES
  ClosedUnlessClobbered
  OldestFirst
