----------------------------- MODULE StockJournal -----------------------------
(***************************************************************************)
(* What every module that moves stock promises: the quantity of a row      *)
(* changes only together with a stock_movements row of the same amount.    *)
(***************************************************************************)
EXTENDS Integers

CONSTANTS Products, Opening

VARIABLES
  stock,   \* inventory.quantity of each product
  moved    \* sum of qty_in - qty_out over its stock_movements rows

journal == <<stock, moved>>

JournalInit ==
  /\ stock = Opening
  /\ moved = [p \in Products |-> 0]

Move(p) ==
  /\ stock' = [stock EXCEPT ![p] = @ + moved'[p] - moved[p]]
  /\ moved' = [moved EXCEPT ![p] = moved'[p]]

JournalNext == \E p \in Products : Move(p)

JournalSpec == JournalInit /\ [][JournalNext]_journal
=============================================================================
