----------------------------- MODULE MCPosSales -----------------------------
(***************************************************************************)
(* Small instances of PosSales and LockedSales for TLC, with few of each.  *)
(***************************************************************************)
EXTENDS LockedSales, TLC

CONSTANTS p1, p2, c1, k1, u1

TwoOfEach == [p \in Products |-> 2]
OneOfEach == [p \in Products |-> 1]

Form(cashier, key, customer, n, cash, credit, keep) ==
  [cashier |-> cashier, key |-> key, customer |-> customer,
   cart |-> [p \in Products |-> IF p = p1 THEN n ELSE 0],
   tender |-> [cash |-> cash, credit |-> credit, keep |-> keep]]

\* Paid in cash under a key; one unit on credit; credit and an overpayment
\* kept; two units of which one stays due.
Keyed == Form(c1, k1, None, 1, 1, 0, FALSE)
OnAccount == Form(c1, None, u1, 1, 0, 1, FALSE)
Overpaid == Form(c1, None, u1, 1, 2, 1, TRUE)
PartlyPaid == Form(c1, None, u1, 2, 1, 0, FALSE)

\* The same sale of the other product.
OfOther(form) == [form EXCEPT !.cart = [p \in Products |-> IF p = p2 THEN 1 ELSE 0]]

AllForms == {Keyed, OfOther(OnAccount), Overpaid, PartlyPaid}
\* Sales that share no product.
MixedForms == {Keyed, OfOther(OnAccount)}
KeyedForms == {Keyed}

AllHandlers ==
  {"createSale", "voidSale", "createReturn", "receivePayment", "setCreditLimit"}
Checkouts == {"createSale"}
TillHandlers == {"createSale", "voidSale", "createReturn", "receivePayment", "crash"}

Identical == Permutations(Sales) \cup Permutations(Workers)
=============================================================================
