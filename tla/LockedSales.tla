---------------------------- MODULE LockedSales ----------------------------
(***************************************************************************)
(* PosSales as if every row a request decides on were locked from its read *)
(* to the end.  Checkouts may still overtake one another: the invoice      *)
(* counter has to serialise them.                                          *)
(***************************************************************************)
EXTENDS PosSales

RowsReadAreKept ==
  \A w \in Workers : req'[w] = req[w] =>
    /\ (req[w].op = "saleLocked" /\ OnCredit(req[w].form)) =>
         UNCHANGED <<balance, limit>> \/ counter' # counter
    /\ req[w].op \in {"void", "voidLocked", "return"} =>
         UNCHANGED <<sale[req[w].id], returned[req[w].id]>>
    /\ req[w].op = "voidLocked" => UNCHANGED balance

LockedSpec == Init /\ [][Next /\ RowsReadAreKept]_vars
=============================================================================
