SPECIFICATION LockedSpec
CONSTANTS
  p1 = p1
  p2 = p2
  c1 = c1
  k1 = k1
  u1 = u1
  None = None
  Products = {p1, p2}
  Sales = {s1, s2}
  Cashiers = {c1}
  Keys = {k1}
  Customers = {u1}
  Workers = {w1, w2}
  Opening <- TwoOfEach
  Forms <- AllForms
  Repayments = {1}
  Limits = {1, 2}
  MaxRepaid = 2
  Handlers <- AllHandlers
SYMMETRY Identical
INVARIANTS
  ReturnsClamped
  BalanceMatchesRows
  LedgerMatchesSales
PROPERTIES
  ChargesWithinLimit
