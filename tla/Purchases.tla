------------------------------ MODULE Purchases ------------------------------
(***************************************************************************)
(* Purchase orders, goods received notes (the supplier's bills), debit     *)
(* notes and supplier payments of one branch and one supplier.             *)
(*                                                                         *)
(* A handler checks what it read before its transaction, and the           *)
(* transaction locks the rows it writes without checking again; only a     *)
(* supplier payment checks under the lock.  A request is therefore a check *)
(* and a commit.  Every unit costs 1; a bill may carry a discount.         *)
(***************************************************************************)
EXTENDS Shelf

CONSTANTS
  Orders, Grns,        \* identifiers of purchase orders and of GRNs
  Buyers,              \* requests in flight at the same time
  Deliveries,          \* the goods that arrive and what the bill asks for them
  Amounts,             \* what a payment or a debit note is made out for
  None                 \* SQL NULL

ASSUME DeliveriesAssumption ==
  Deliveries \subseteq [product : Products, qty : Nat \ {0}, total : Nat,
                        order : Orders \cup {None}]
ASSUME PaymentsAssumption == Amounts \subseteq Nat \ {0} /\ None \notin Orders

VARIABLES
  order,      \* purchase_orders.status
  bill,       \* the grns table
  paid,       \* grns.paid_amount
  allocated,  \* sum of the bill's supplier_payment_allocations
  returned,   \* sum of its purchase_return_items
  posted,     \* its ledger entries and its debit notes', debits less credits
  buyer,      \* what each request in flight has read
  raced       \* history: bills and orders written on a check out of date

bills == <<bill, paid, allocated, returned, posted>>
purchases == <<order, bills, buyer, raced>>

Statuses == {"none", "Draft", "Sent", "Received", "Cancelled"}
Bill == [status : {"Received", "Voided"}, product : Products, qty : Nat,
         total : Nat, order : Orders \cup {None}]
NoBill == [status |-> "none"]
Free == [op |-> "free"]

BuyerRequests ==
  {Free}
    \cup [op : {"order"}, order : Orders, seen : Statuses,
          to : {"Sent", "Cancelled"}]
    \cup [op : {"receive"}, goods : Deliveries]
    \cup [op : {"voidGrn"}, id : Grns]
    \cup [op : {"return"}, id : Grns, qty : Amounts, paid : Nat, returned : Nat]

PurchasesInit ==
  /\ order = [o \in Orders |-> "none"]
  /\ bill = [g \in Grns |-> NoBill]
  /\ paid = [g \in Grns |-> 0]
  /\ allocated = [g \in Grns |-> 0]
  /\ returned = [g \in Grns |-> 0]
  /\ posted = [g \in Grns |-> 0]
  /\ buyer = [w \in Buyers |-> Free]
  /\ raced = {}

Check(w, r) ==
  /\ buyer[w] = Free
  /\ buyer' = [buyer EXCEPT ![w] = r]

Answer(w) == buyer' = [buyer EXCEPT ![w] = Free]

\* A write of document d: does what its check read still hold?
Judge(d, holds) == raced' = IF holds THEN raced ELSE raced \cup {d}

-----------------------------------------------------------------------------
(***************************************************************************)
(* Purchase orders: the status is written whatever it has become.          *)
(***************************************************************************)
CreateOrder(o) ==
  /\ order[o] = "none"
  /\ order' = [order EXCEPT ![o] = "Draft"]
  /\ UNCHANGED <<bills, buyer, raced>>

SendOrder(w, o) ==
  /\ order[o] = "Draft"
  /\ Check(w, [op |-> "order", order |-> o, seen |-> order[o], to |-> "Sent"])
  /\ UNCHANGED <<order, bills, raced>>

CancelOrder(w, o) ==
  /\ order[o] \in {"Draft", "Sent"}
  /\ Check(w, [op |-> "order", order |-> o, seen |-> order[o],
               to |-> "Cancelled"])
  /\ UNCHANGED <<order, bills, raced>>

UpdateStatus(w) ==
  /\ buyer[w].op = "order"
  /\ order' = [order EXCEPT ![buyer[w].order] = buyer[w].to]
  /\ Judge(buyer[w].order, order[buyer[w].order] = buyer[w].seen)
  /\ Answer(w)
  /\ UNCHANGED <<bills>>

-----------------------------------------------------------------------------
(***************************************************************************)
(* Goods received: GrnsService.create and void.                            *)
(***************************************************************************)
Open(o) == o # None => order[o] \in {"Draft", "Sent"}

Receive(w, goods) ==
  /\ Open(goods.order)
  /\ Check(w, [op |-> "receive", goods |-> goods])
  /\ UNCHANGED <<order, bills, raced>>

\* Mutant: the order stays open.
OrderStaysOpen(o) == order

OrderReceived(o) ==
  IF o = None THEN order ELSE [order EXCEPT ![o] = "Received"]

ReceiveCommit(w, g) ==
  /\ buyer[w].op = "receive"
  /\ bill[g] = NoBill
  /\ LET goods == buyer[w].goods
     IN /\ bill' = [bill EXCEPT ![g] =
             [status |-> "Received", product |-> goods.product, qty |-> goods.qty,
              total |-> goods.total, order |-> goods.order]]
        /\ stock' = [stock EXCEPT ![goods.product] = @ + goods.qty]
        /\ moved' = [moved EXCEPT ![goods.product] = @ + goods.qty]
        /\ posted' = [posted EXCEPT ![g] = goods.total]
        /\ order' = OrderReceived(goods.order)
        /\ Judge(g, Open(goods.order))
  /\ Answer(w)
  /\ UNCHANGED <<paid, allocated, returned>>

VoidGrn(w, g) ==
  /\ bill[g].status = "Received"
  /\ paid[g] = 0
  /\ Check(w, [op |-> "voidGrn", id |-> g])
  /\ UNCHANGED <<order, bills, raced>>

VoidGrnCommit(w) ==
  /\ buyer[w].op = "voidGrn"
  /\ LET g == buyer[w].id
         p == bill[g].product
     IN /\ stock[p] >= bill[g].qty
        /\ stock' = [stock EXCEPT ![p] = @ - bill[g].qty]
        /\ moved' = [moved EXCEPT ![p] = @ - bill[g].qty]
        /\ posted' = [posted EXCEPT ![g] = @ - bill[g].total]
        /\ bill' = [bill EXCEPT ![g].status = "Voided"]
        /\ Judge(g, bill[g].status = "Received" /\ paid[g] = 0)
  /\ Answer(w)
  /\ UNCHANGED <<order, paid, allocated, returned>>

\* The transaction throws: the goods have been sold.
Abort(w) ==
  /\ buyer[w].op \in {"voidGrn", "return"}
  /\ LET g == buyer[w].id
     IN stock[bill[g].product] <
          IF buyer[w].op = "voidGrn" THEN bill[g].qty ELSE buyer[w].qty
  /\ Answer(w)
  /\ UNCHANGED <<order, bills, shelf, raced>>

-----------------------------------------------------------------------------
(***************************************************************************)
(* Debit notes: PurchaseReturnsService.create.                             *)
(***************************************************************************)
Return(w, g, qty) ==
  /\ bill[g].status = "Received"
  /\ qty <= bill[g].qty - returned[g]
  /\ qty <= bill[g].total - paid[g]
  /\ Check(w, [op |-> "return", id |-> g, qty |-> qty,
               paid |-> paid[g], returned |-> returned[g]])
  /\ UNCHANGED <<order, bills, raced>>

\* Mutant: the bill is reduced from what was paid when the note was checked.
PaidOffStale(w) == buyer[w].paid + buyer[w].qty

\* A debit note counts as payment of its bill: paid_amount + total, in SQL.
PaidOff(w) == paid[buyer[w].id] + buyer[w].qty

ReturnCommit(w) ==
  /\ buyer[w].op = "return"
  /\ LET g == buyer[w].id
         p == bill[g].product
         qty == buyer[w].qty
     IN /\ stock[p] >= qty
        /\ stock' = [stock EXCEPT ![p] = @ - qty]
        /\ moved' = [moved EXCEPT ![p] = @ - qty]
        /\ returned' = [returned EXCEPT ![g] = @ + qty]
        /\ paid' = [paid EXCEPT ![g] = PaidOff(w)]
        /\ posted' = [posted EXCEPT ![g] = @ - qty]
        /\ Judge(g, /\ bill[g].status = "Received"
                    /\ paid[g] = buyer[w].paid
                    /\ returned[g] = buyer[w].returned)
  /\ Answer(w)
  /\ UNCHANGED <<order, bill, allocated>>

-----------------------------------------------------------------------------
(***************************************************************************)
(* Supplier payments: SupplierPaymentsService.create, one allocation each. *)
(***************************************************************************)

\* The bill is locked from the check to the commit.
PayBill(g, amount) ==
  /\ bill[g].status = "Received"
  /\ amount <= bill[g].total - paid[g]
  /\ paid' = [paid EXCEPT ![g] = @ + amount]
  /\ allocated' = [allocated EXCEPT ![g] = @ + amount]
  /\ UNCHANGED <<order, bill, returned, posted, buyer, raced>>

-----------------------------------------------------------------------------
\* The requests that leave the shelf alone.
Office ==
  \/ \E o \in Orders : CreateOrder(o)
  \/ \E w \in Buyers, o \in Orders : SendOrder(w, o) \/ CancelOrder(w, o)
  \/ \E w \in Buyers : UpdateStatus(w)
  \/ \E w \in Buyers, goods \in Deliveries : Receive(w, goods)
  \/ \E w \in Buyers, g \in Grns : VoidGrn(w, g)
  \/ \E w \in Buyers, g \in Grns, qty \in Amounts : Return(w, g, qty)
  \/ \E g \in Grns, amount \in Amounts : PayBill(g, amount)

PurchasesNext ==
  \/ Office /\ UNCHANGED shelf
  \/ \E w \in Buyers, g \in Grns : ReceiveCommit(w, g)
  \/ \E w \in Buyers : VoidGrnCommit(w) \/ ReturnCommit(w) \/ Abort(w)

-----------------------------------------------------------------------------
PurchasesTypeOK ==
  /\ order \in [Orders -> Statuses]
  /\ bill \in [Grns -> Bill \cup {NoBill}]
  /\ paid \in [Grns -> Nat]
  /\ allocated \in [Grns -> Nat]
  /\ returned \in [Grns -> Nat]
  /\ posted \in [Grns -> Int]
  /\ buyer \in [Buyers -> BuyerRequests]
  /\ raced \subseteq Grns \cup Orders

\* paid_amount is what was paid plus what was sent back, although payments and
\* debit notes write it in transactions that overlap.
PaidMatchesDocuments ==
  \A g \in Grns : paid[g] = allocated[g] + returned[g]

\* The documents of a bill that no check out of date wrote add up: it is not
\* settled beyond its total, no more goes back than came, a voided bill has
\* neither payment nor debit note, and an order that no stale write reopened
\* has one bill.
BillsAddUp ==
  \A g \in Grns \ raced :
    bill[g] # NoBill =>
      /\ paid[g] <= bill[g].total
      /\ returned[g] <= bill[g].qty
      /\ bill[g].status = "Voided" => paid[g] = 0 /\ posted[g] = 0
      /\ bill[g].status = "Received" => posted[g] = bill[g].total - returned[g]
      /\ \A h \in Grns \ (raced \cup {g}) :
           bill[h] # NoBill /\ bill[g].order \notin raced \cup {None}
             => bill[h].order # bill[g].order
=============================================================================
