------------------------- MODULE InventoryRowProofs -------------------------
(***************************************************************************)
(* What a credit does to an inventory row, for every quantity.             *)
(***************************************************************************)
EXTENDS InventoryRow, TLAPS

\* Every quantity the column can hold has a next power of ten.
LEMMA PowerAboveBounds ==
  ASSUME NEW q \in Nat, 1 <= q, q <= MaxQuantity
  PROVE  /\ PowerAbove(q) \in PowersOfTen
         /\ q < PowerAbove(q)
<1> DEFINE Next(t) == q < t /\ t <= 10 * q
<1>1. q < 1000000000
  BY SMT DEF MaxQuantity
<1>2. \/ Next(10) \/ Next(100) \/ Next(1000) \/ Next(10000) \/ Next(100000)
      \/ Next(1000000) \/ Next(10000000) \/ Next(100000000) \/ Next(1000000000)
  BY <1>1, SMT
<1>3. \E t \in PowersOfTen : Next(t)
  BY <1>2, SMT DEF PowersOfTen
<1>4. QED
  BY <1>3, SMT DEF PowerAbove

\* Concatenation leaves a row as it was, or a thousandth above it.
LEMMA ConcatenatedBounds ==
  ASSUME NEW v \in Nat, NEW q \in Nat, 1 <= q, q <= MaxQuantity
  PROVE  Concatenated(v, q) \in {v, v + 1}
<1>1. PICK t \in PowersOfTen : t = PowerAbove(q) /\ q < t
  BY PowerAboveBounds
<1>2. (v * t + q + t \div 2) \div t \in {v, v + 1}
  BY <1>1, SMTT(30) DEF PowersOfTen, MaxQuantity
<1>3. QED
  BY <1>1, <1>2, SMT DEF Concatenated

\* On the deployed driver a receipt into an existing row is lost: whatever the
\* quantity, the row gains at most one thousandth of a unit (the `+=' in
\* receive and moveStock).
THEOREM TextCreditIsLost ==
  ASSUME DecimalText, NEW v \in Nat, NEW q \in Nat, 1 <= q, q <= MaxQuantity
  PROVE  Credited(v, q) \in {v, v + 1}
BY ConcatenatedBounds, SMT DEF Credited, Plus, NoRow

\* A credit never takes a row below zero, on either driver.
LEMMA CreditedIsNat ==
  ASSUME NEW v \in Nat \cup {NoRow}, NEW q \in Nat, 1 <= q, q <= MaxQuantity
  PROVE  Credited(v, q) \in Nat
<1>1. CASE v = NoRow
  BY <1>1, SMT DEF Credited, Scale, MaxQuantity
<1>2. CASE v # NoRow /\ DecimalText
  BY <1>2, ConcatenatedBounds, SMT DEF Credited, Plus
<1>3. CASE v # NoRow /\ ~DecimalText
  BY <1>3, SMT DEF Credited, Plus, Scale, MaxQuantity
<1>4. QED
  BY <1>1, <1>2, <1>3

-----------------------------------------------------------------------------
\* What a row contributes to the inventory.
Worth(v) == IF v = NoRow THEN 0 ELSE v

\* With quantities that are numbers, moving q units changes the worth of a row
\* by exactly that, or is refused, and a refusal lasts.
LEMMA NumericMove ==
  ASSUME ~DecimalText, NEW v \in Nat \cup {NoRow, Refused}, NEW q \in Nat, 1 <= q,
         NEW sign \in {-1, 1}
  PROVE  /\ MoveStock(v, sign * q) \in Nat \cup {NoRow, Refused}
         /\ v = Refused => MoveStock(v, sign * q) = Refused
         /\ MoveStock(v, sign * q) # Refused =>
              Worth(MoveStock(v, sign * q)) = Worth(v) + sign * (Scale * q)
<1>1. CASE v = Refused
  BY <1>1 DEF MoveStock
<1>2. CASE v # Refused /\ sign = 1
  <2>1. sign * q = q /\ sign * (Scale * q) = Scale * q /\ Scale * q \in Nat
    BY <1>2, SMT DEF Scale
  <2>2. MoveStock(v, q) = Credited(v, q)
    BY <1>2, SMT DEF MoveStock
  <2>3. Credited(v, q) = Worth(v) + Scale * q /\ Credited(v, q) \in Nat
    BY <1>2, <2>1, SMT DEF Credited, Plus, Worth, NoRow, Refused
  <2>4. MoveStock(v, sign * q) = Credited(v, q)
    BY <2>1, <2>2, Zenon
  <2>5. Worth(Credited(v, q)) = Credited(v, q)
    BY <2>3, SMT DEF Worth, NoRow
  <2>6. QED
    BY <1>2, <2>1, <2>3, <2>4, <2>5
<1>3. CASE v # Refused /\ sign = -1
  <2>1. /\ sign * q = -q /\ -(-q) = q /\ sign * (Scale * q) = -(Scale * q)
        /\ Scale * (-q) = -(Scale * q) /\ Scale * q \in Nat
    BY <1>3, SMT DEF Scale
  <2>2. MoveStock(v, -q) = IF Covers(v, q) THEN v - Scale * q ELSE Refused
    <3>1. MoveStock(v, -q) = IF Covers(v, -(-q)) /\ ~DecimalText
                               THEN v + Scale * (-q) ELSE Refused
      BY <1>3, <2>1, SMT DEF MoveStock
    <3>2. MoveStock(v, -q) = IF Covers(v, q) THEN v + Scale * (-q) ELSE Refused
      BY <2>1, <3>1, Zenon
    <3>3. v + Scale * (-q) = v - Scale * q
      BY <2>1, SMT DEF NoRow, Refused, Scale
    <3>4. QED
      BY <3>2, <3>3, Zenon
  <2>3. Covers(v, q) => v # NoRow /\ v - Scale * q \in Nat
    BY <1>3, <2>1, SMT DEF Covers, NoRow, Refused
  <2>4. QED
    BY <1>3, <2>1, <2>2, <2>3, SMT DEF Worth, NoRow, Refused
<1>4. QED
  BY <1>1, <1>2, <1>3
=============================================================================
