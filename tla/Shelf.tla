-------------------------------- MODULE Shelf --------------------------------
(***************************************************************************)
(* The shelf of one branch, which the purchase ledger and the stock count  *)
(* share with the tills.  Quantities are whole units.                      *)
(***************************************************************************)
EXTENDS Integers

CONSTANTS
  Products,    \* stocked at the branch
  Opening      \* the inventory at the start

ASSUME ShelfAssumption == Opening \in [Products -> Nat]

VARIABLES
  stock,   \* inventory.quantity of each product
  moved    \* sum of qty_in - qty_out over its stock_movements rows

shelf == <<stock, moved>>

ShelfInit ==
  /\ stock = Opening
  /\ moved = [p \in Products |-> 0]

\* A checkout of one unit, with its inventory row locked.
Sell(p) ==
  /\ stock[p] >= 1
  /\ stock' = [stock EXCEPT ![p] = @ - 1]
  /\ moved' = [moved EXCEPT ![p] = @ - 1]

ShelfTypeOK ==
  /\ stock \in [Products -> Int]
  /\ moved \in [Products -> Int]
=============================================================================
