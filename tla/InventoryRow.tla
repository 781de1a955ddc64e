---------------------------- MODULE InventoryRow ----------------------------
(***************************************************************************)
(* The quantity column of one inventory row: decimal(12,3), kept here as a *)
(* whole number of thousandths.  Transfers move whole units (the DTOs ask  *)
(* for integers of at least 1), so a move of q units is Scale * q.         *)
(*                                                                         *)
(* The column has no transformer and the data source registers no type     *)
(* parser, so the driver hydrates the value as text ("5.000") although the *)
(* entity declares it `number'.  A comparison or a subtraction coerces the *)
(* text to a number; `+=' concatenates.  DecimalText = TRUE is the driver  *)
(* as deployed; DecimalText = FALSE is what the declared type and the unit *)
(* tests' numeric mocks assume.                                            *)
(***************************************************************************)
EXTENDS Integers

CONSTANT DecimalText

ASSUME DecimalTextAssumption == DecimalText \in BOOLEAN

Scale == 1000

NoRow == -1         \* the (product, branch) pair has no inventory row
Refused == -2       \* the statement threw: the transaction rolls back

MaxQuantity == 999999999    \* decimal(12,3): nine digits before the point

\* The power of ten with one digit more than q, for q in 1 .. MaxQuantity.
PowersOfTen ==
  { 10, 100, 1000, 10000, 100000, 1000000, 10000000, 100000000, 1000000000 }
PowerAbove(q) == CHOOSE t \in PowersOfTen : q < t /\ t <= 10 * q

\* The text of v with the digits of q appended, as decimal(12,3) stores it:
\* the digits land behind the three decimals and are rounded away.
Concatenated(v, q) ==
  (v * PowerAbove(q) + q + PowerAbove(q) \div 2) \div PowerAbove(q)

\* JavaScript `quantity += q' on a hydrated row.
Plus(v, q) == IF DecimalText THEN Concatenated(v, q) ELSE v + Scale * q

\* A row holds at least q units: the guard before every debit.
Covers(v, q) == v # NoRow /\ v >= Scale * q

\* A credit of q units: the first receipt creates the row.
Credited(v, q) == IF v = NoRow THEN Scale * q ELSE Plus(v, q)

\* ShipmentsService.moveStock on one row.  Its debit also goes through `+=':
\* on hydrated text that writes "5.000-3", which the database rejects.
MoveStock(v, delta) ==
  CASE v = Refused \/ delta = 0 -> v
    [] delta < 0 /\ v # Refused ->
         IF Covers(v, -delta) /\ ~DecimalText THEN v + Scale * delta ELSE Refused
    [] delta > 0 /\ v # Refused -> Credited(v, delta)
=============================================================================
