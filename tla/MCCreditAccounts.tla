--------------------------- MODULE MCCreditAccounts ---------------------------
(***************************************************************************)
(* Small instances of CreditAccounts for TLC.                              *)
(***************************************************************************)
EXTENDS CreditAccounts, TLC

\* A bill of three: 1 on credit, 2 due.
PartCredit == {[credit |-> 1, due |-> 2]}

Identical == Permutations(Workers) \cup Permutations(Sales)
=============================================================================
