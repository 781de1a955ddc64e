--------------------------- MODULE MCCustomerOrders ---------------------------
(***************************************************************************)
(* Small instances of CustomerOrders for TLC.                              *)
(***************************************************************************)
EXTENDS CustomerOrders, TLC

CONSTANTS o1, o2, o3, c1, c2, b1, b2

\* c1 is one checkout over two branches, c2 a single order; the points pay
\* for the first of c1's orders and half of the second.
BothLines == c1 :> <<o1, o2>> @@ c2 :> <<o3>>
BothBranches == o1 :> b1 @@ o2 :> b2 @@ o3 :> b1
BothUnits == o1 :> 1 @@ o2 :> 2 @@ o3 :> 1
BothPoints == c1 :> 2 @@ c2 :> 0
BothShelves == b1 :> 2 @@ b2 :> 4

\* One order each, from one shelf; the wallet covers the points of one.
SingleLines == c1 :> <<o1>> @@ c2 :> <<o3>>
SingleBranches == o1 :> b1 @@ o3 :> b1
SingleUnits == o1 :> 2 @@ o3 :> 1
SinglePoints == c1 :> 1 @@ c2 :> 1
SingleShelf == b1 :> 4

\* Two orders paid at once and one paid at the counter, on a shelf with the
\* goods for two of them; the wallet covers the points of one checkout.
MixedLines == c1 :> <<o1, o2>> @@ c2 :> <<o3>>
MixedBranches == o1 :> b1 @@ o2 :> b1 @@ o3 :> b1
MixedUnits == o1 :> 1 @@ o2 :> 1 @@ o3 :> 1
MixedPoints == c1 :> 1 @@ c2 :> 1
MixedShelf == b1 :> 2

Identical == Permutations(Workers)
=============================================================================
