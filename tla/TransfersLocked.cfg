SPECIFICATION LockedSpec
CONSTANTS
  b1 = b1
  b2 = b2
  None = None
  DecimalText = FALSE
  Products = {p1}
  Branches = {b1, b2}
  Lines = {l1, l2}
  Shipments = {s1}
  Workers = {w1, w2}
  Quantities = {1, 2}
  Opening <- StockedSource
  Handlers <- AllHandlers
SYMMETRY Identical
CHECK_DEADLOCK FALSE
INVARIANTS
  Conservation
  ParcelCoherent
PROPERTIES
  TerminalShipments
  FinalLines
