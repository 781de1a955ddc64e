-------------------------- MODULE MCStockTransfers --------------------------
(***************************************************************************)
(* Small instances of StockTransfers and LockedTransfers for TLC.          *)
(***************************************************************************)
EXTENDS LockedTransfers

CONSTANTS b1, b2

\* b1 holds three units of every product; b2 has never stocked any.
StockedSource ==
  [k \in Products \X Branches |-> IF k[2] = b1 THEN 3 * Scale ELSE NoRow]

\* Both branches have a row: every credit goes to an existing row.
StockedBoth ==
  [k \in Products \X Branches |-> IF k[2] = b1 THEN 6 * Scale ELSE Scale]

Identical == Permutations(Lines) \cup Permutations(Shipments) \cup Permutations(Workers)
=============================================================================
