-------------------------------- MODULE Office --------------------------------
(***************************************************************************)
(* Six services of a branch that share no state: leaves, payroll,          *)
(* accounting, the cashier's drawer, loyalty wallets and product reviews.  *)
(* One of them is at work at a time, since the steps of the others could   *)
(* change nothing it sees.                                                 *)
(***************************************************************************)
EXTENDS Leaves, Payroll, Accounting, CashierShifts, Loyalty, Reviews

VARIABLE desk   \* the service at work

vars == <<leaves, payroll, accounting, drawer, loyalty, reviews, desk>>

Init ==
  /\ LeavesInit /\ PayrollInit /\ AccountingInit /\ ShiftsInit
  /\ LoyaltyInit /\ ReviewsInit
  /\ desk \in {"leaves", "payroll", "accounting", "drawer", "loyalty", "reviews"}

Next ==
  \/ /\ desk = "leaves" /\ LeavesNext
     /\ UNCHANGED <<payroll, accounting, drawer, loyalty, reviews, desk>>
  \/ /\ desk = "payroll" /\ PayrollNext
     /\ UNCHANGED <<leaves, accounting, drawer, loyalty, reviews, desk>>
  \/ /\ desk = "accounting" /\ AccountingNext
     /\ UNCHANGED <<leaves, payroll, drawer, loyalty, reviews, desk>>
  \/ /\ desk = "drawer" /\ ShiftsNext
     /\ UNCHANGED <<leaves, payroll, accounting, loyalty, reviews, desk>>
  \/ /\ desk = "loyalty" /\ LoyaltyNext
     /\ UNCHANGED <<leaves, payroll, accounting, drawer, reviews, desk>>
  \/ /\ desk = "reviews" /\ ReviewsNext
     /\ UNCHANGED <<leaves, payroll, accounting, drawer, loyalty, desk>>

Spec == Init /\ [][Next]_vars

\* Each service's state has its type.
TypeOK ==
  /\ LeavesTypeOK /\ PayrollTypeOK /\ AccountingTypeOK /\ ShiftsTypeOK
  /\ LoyaltyTypeOK /\ ReviewsTypeOK
=============================================================================
