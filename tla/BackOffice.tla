------------------------------ MODULE BackOffice ------------------------------
(***************************************************************************)
(* Purchases, stock counts and the tills at work on one shelf.             *)
(***************************************************************************)
EXTENDS Purchases, StockAdjustments

vars == <<shelf, purchases, adjustments>>

Init == ShelfInit /\ PurchasesInit /\ AdjustInit

Next ==
  \/ (\E p \in Products : Sell(p)) /\ UNCHANGED <<purchases, adjustments>>
  \/ PurchasesNext /\ UNCHANGED adjustments
  \/ AdjustNext /\ UNCHANGED purchases

Spec == Init /\ [][Next]_vars

TypeOK == ShelfTypeOK /\ PurchasesTypeOK /\ AdjustTypeOK

\* Receipts, voids, debit notes, counts, reversals and sales, two requests of
\* each office overlapping, keep the shelf and its journal together.
Journal == INSTANCE StockJournal
ImplementsJournal == Journal!JournalSpec
=============================================================================
