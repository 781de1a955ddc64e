SPECIFICATION Spec
CONSTANTS
  b1 = b1
  b2 = b2
  None = None
  DecimalText = TRUE
  Products = {p1}
  Branches = {b1, b2}
  Lines = {l1}
  Shipments = {s1}
  Workers = {w1}
  Quantities = {1}
  Opening <- StockedBoth
  Handlers <- AllHandlers
CHECK_DEADLOCK FALSE
PROPERTIES
  ReceiptCredits
