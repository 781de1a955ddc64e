------------------------------- MODULE MCOffice -------------------------------
(***************************************************************************)
(* Small instances of Office for TLC.                                      *)
(*                                                                         *)
(* The services share the identifiers of requests in flight (Officers) and *)
(* those of rows (StructureIds), so that two permutations serve them all.  *)
(***************************************************************************)
EXTENDS Office, TLC

\* A day off, with nothing on the clock.
DayOff == {[status |-> "Leave", in |-> FALSE, out |-> FALSE]}

OneSale == {1, -1}
PayOut == {-2}
ServerSkews == {0, 2}

OnePoint == [s \in Receipts |-> 1]
TwoPoints == [s \in Receipts |-> 2]
Deduction == {-1}

Identical == Permutations(Officers) \cup Permutations(StructureIds)
=============================================================================
