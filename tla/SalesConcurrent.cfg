SPECIFICATION Spec
CONSTANTS
  p1 = p1
  p2 = p2
  c1 = c1
  k1 = k1
  u1 = u1
  None = None
  Products = {p1, p2}
  Sales = {s1, s2}
  Cashiers = {c1}
  Keys = {k1}
  Customers = {u1}
  Workers = {w1, w2}
  Opening <- OneOfEach
  Forms <- MixedForms
  Repayments = {1}
  Limits = {}
  MaxRepaid = 1
  Handlers <- TillHandlers
SYMMETRY Identical
INVARIANTS
  TypeOK
  ShelfConservation
  InvoicesSequential
PROPERTIES
  RecordedKeysAreClosed
