----------------------------- MODULE MCBackOffice -----------------------------
(***************************************************************************)
(* Small instances of BackOffice for TLC.                                  *)
(***************************************************************************)
EXTENDS BackOffice, TLC

CONSTANTS p1, o1

NoUnit == p1 :> 0

\* Two units for an order, one of them free.
OneDelivery == {[product |-> p1, qty |-> 2, total |-> 1, order |-> o1]}

Identical == Permutations(Buyers) \cup Permutations(Reviewers) \cup Permutations(Grns)
=============================================================================
