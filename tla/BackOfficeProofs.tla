--------------------------- MODULE BackOfficeProofs ---------------------------
(***************************************************************************)
(* Theorems about BackOffice, for any numbers of products, orders, bills,  *)
(* adjustments and requests in flight, any deliveries and any counts.      *)
(***************************************************************************)
EXTENDS BackOffice, TLAPS

-----------------------------------------------------------------------------
(***************************************************************************)
(* The inductive invariant of the purchase ledger.                         *)
(***************************************************************************)

\* What a request in flight read still names a bill, whose quantity and total
\* never change, and was enough for the debit note.
BuyerOK(r) ==
  /\ r.op = "order" => r.seen \in {"Draft", "Sent"}
  /\ r.op \in {"voidGrn", "return"} => bill[r.id] # NoBill
  /\ r.op = "return" => /\ r.paid + r.qty <= bill[r.id].total
                        /\ r.returned + r.qty <= bill[r.id].qty

BuyersOK == \A w \in Buyers : BuyerOK(buyer[w])

\* A bill that is not there has no documents.
DocumentsOK ==
  \A g \in Grns :
    bill[g] = NoBill => paid[g] = 0 /\ returned[g] = 0 /\ posted[g] = 0

\* An order with a bill is closed, unless a stale write reopened it.
OrdersOK ==
  \A g \in Grns :
    bill[g] # NoBill /\ bill[g].order \notin raced \cup {None} =>
      order[bill[g].order] = "Received"

LedgerInv ==
  /\ PurchasesTypeOK
  /\ BuyersOK
  /\ DocumentsOK
  /\ OrdersOK
  /\ PaidMatchesDocuments
  /\ BillsAddUp

LEMMA BillFields ==
  ASSUME PurchasesTypeOK, NEW g \in Grns
  PROVE  /\ bill[g] # NoBill => /\ bill[g] \in Bill
                                /\ bill[g].status \in {"Received", "Voided"}
                                /\ bill[g].product \in Products
                                /\ bill[g].qty \in Nat
                                /\ bill[g].total \in Nat
                                /\ bill[g].order \in Orders \cup {None}
         /\ bill[g] = NoBill => bill[g].status = "none"
         /\ bill[g].status = "Received" => bill[g] # NoBill
BY DEF PurchasesTypeOK, Bill, NoBill

LEMMA GoodsFields ==
  ASSUME NEW goods \in Deliveries
  PROVE  /\ goods.product \in Products
         /\ goods.qty \in Nat \ {0}
         /\ goods.total \in Nat
         /\ goods.order \in Orders \cup {None}
BY DeliveriesAssumption

LEMMA BuyerFields ==
  ASSUME PurchasesTypeOK, NEW w \in Buyers
  PROVE  /\ buyer[w].op = "order" => /\ buyer[w].order \in Orders
                                     /\ buyer[w].seen \in Statuses
                                     /\ buyer[w].to \in {"Sent", "Cancelled"}
         /\ buyer[w].op = "receive" => buyer[w].goods \in Deliveries
         /\ buyer[w].op \in {"voidGrn", "return"} => buyer[w].id \in Grns
         /\ buyer[w].op = "return" => /\ buyer[w].qty \in Amounts
                                      /\ buyer[w].qty \in Nat \ {0}
                                      /\ buyer[w].paid \in Nat
                                      /\ buyer[w].returned \in Nat
<1>1. buyer[w] \in BuyerRequests
  BY DEF PurchasesTypeOK
<1>2. /\ buyer[w].op = "order" => /\ buyer[w].order \in Orders
                                 /\ buyer[w].seen \in Statuses
                                 /\ buyer[w].to \in {"Sent", "Cancelled"}
      /\ buyer[w].op = "receive" => buyer[w].goods \in Deliveries
      /\ buyer[w].op \in {"voidGrn", "return"} => buyer[w].id \in Grns
  BY <1>1 DEF BuyerRequests, Free
<1>3. buyer[w].op = "return" => /\ buyer[w].qty \in Amounts
                                /\ buyer[w].paid \in Nat
                                /\ buyer[w].returned \in Nat
  BY <1>1 DEF BuyerRequests, Free
<1>4. QED
  BY <1>2, <1>3, PaymentsAssumption

-----------------------------------------------------------------------------
(***************************************************************************)
(* The steps of the purchase ledger.                                       *)
(***************************************************************************)
LEMMA LedgerInit ==
  ASSUME PurchasesInit PROVE LedgerInv
BY DEF PurchasesInit, LedgerInv, PurchasesTypeOK, BuyersOK, BuyerOK, DocumentsOK, OrdersOK,
       PaidMatchesDocuments, BillsAddUp, Statuses, BuyerRequests, NoBill, Free

LEMMA LedgerStutter ==
  ASSUME LedgerInv, UNCHANGED purchases PROVE LedgerInv'
BY DEF LedgerInv, purchases, bills, PurchasesTypeOK, BuyersOK, BuyerOK, DocumentsOK, OrdersOK,
       PaidMatchesDocuments, BillsAddUp

\* A step that writes nothing but its own request.
LEMMA BuyerStep ==
  ASSUME LedgerInv, UNCHANGED <<order, bills, raced>>,
         NEW w \in Buyers, NEW r \in BuyerRequests, BuyerOK(r),
         buyer' = [buyer EXCEPT ![w] = r]
  PROVE  LedgerInv'
<1>1. UNCHANGED <<order, bill, paid, allocated, returned, posted, raced>>
  BY DEF bills
<1>2. PurchasesTypeOK'
  BY <1>1 DEF LedgerInv, PurchasesTypeOK
<1>3. BuyersOK'
  BY <1>1 DEF LedgerInv, PurchasesTypeOK, BuyersOK, BuyerOK
<1>4. DocumentsOK' /\ OrdersOK' /\ PaidMatchesDocuments' /\ BillsAddUp'
  BY <1>1 DEF LedgerInv, DocumentsOK, OrdersOK, PaidMatchesDocuments, BillsAddUp
<1>5. QED
  BY <1>2, <1>3, <1>4 DEF LedgerInv

LEMMA FreeIsRequest == Free \in BuyerRequests /\ BuyerOK(Free)
BY DEF BuyerRequests, Free, BuyerOK

LEMMA CreateOrderStep ==
  ASSUME LedgerInv, NEW o \in Orders, CreateOrder(o)
  PROVE  LedgerInv'
<1>1. /\ UNCHANGED <<bill, paid, allocated, returned, posted, buyer, raced>>
      /\ order[o] = "none"
      /\ order' = [order EXCEPT ![o] = "Draft"]
  BY DEF CreateOrder, bills
<1>2. PurchasesTypeOK'
  BY <1>1 DEF LedgerInv, PurchasesTypeOK, Statuses
<1>3. OrdersOK'
  BY <1>1, BillFields DEF LedgerInv, PurchasesTypeOK, OrdersOK
<1>4. BuyersOK' /\ DocumentsOK' /\ PaidMatchesDocuments' /\ BillsAddUp'
  BY <1>1 DEF LedgerInv, BuyersOK, BuyerOK, DocumentsOK, PaidMatchesDocuments, BillsAddUp
<1>5. QED
  BY <1>2, <1>3, <1>4 DEF LedgerInv

LEMMA CheckOrderStep ==
  ASSUME LedgerInv, NEW w \in Buyers, NEW o \in Orders,
         SendOrder(w, o) \/ CancelOrder(w, o)
  PROVE  LedgerInv'
<1>1. PICK to \in {"Sent", "Cancelled"} :
        buyer' = [buyer EXCEPT ![w] =
                    [op |-> "order", order |-> o, seen |-> order[o], to |-> to]]
  BY DEF SendOrder, CancelOrder, Check
<1> DEFINE r == [op |-> "order", order |-> o, seen |-> order[o], to |-> to]
<1>2. order[o] \in {"Draft", "Sent"} /\ UNCHANGED <<order, bills, raced>>
  BY DEF SendOrder, CancelOrder
<1>3. r \in BuyerRequests /\ BuyerOK(r)
  BY <1>2 DEF BuyerRequests, BuyerOK, Statuses
<1>4. QED
  <2> HIDE DEF r
  <2>1. QED
    BY <1>1, <1>2, <1>3, BuyerStep DEF r

LEMMA UpdateStatusStep ==
  ASSUME LedgerInv, NEW w \in Buyers, UpdateStatus(w)
  PROVE  LedgerInv'
<1> DEFINE o == buyer[w].order
<1>1. /\ UNCHANGED <<bill, paid, allocated, returned, posted>>
      /\ order' = [order EXCEPT ![o] = buyer[w].to]
      /\ raced' = IF order[o] = buyer[w].seen THEN raced ELSE raced \cup {o}
      /\ buyer' = [buyer EXCEPT ![w] = Free]
  BY DEF UpdateStatus, bills, Judge, Answer
<1>2. o \in Orders /\ buyer[w].seen \in {"Draft", "Sent"}
      /\ buyer[w].to \in {"Sent", "Cancelled"}
  BY BuyerFields DEF UpdateStatus, LedgerInv, BuyersOK, BuyerOK
<1>3. raced \subseteq raced'
  BY <1>1
<1>4. PurchasesTypeOK'
  BY <1>1, <1>2, FreeIsRequest DEF LedgerInv, PurchasesTypeOK, Statuses
<1>5. BuyersOK'
  BY <1>1, FreeIsRequest DEF LedgerInv, PurchasesTypeOK, BuyersOK, BuyerOK
<1>6. OrdersOK'
  BY <1>1, <1>2, BillFields DEF LedgerInv, PurchasesTypeOK, OrdersOK
<1>7. DocumentsOK' /\ PaidMatchesDocuments'
  BY <1>1 DEF LedgerInv, DocumentsOK, PaidMatchesDocuments
<1>8. BillsAddUp'
  BY <1>1, <1>3 DEF LedgerInv, BillsAddUp
<1>9. QED
  BY <1>4, <1>5, <1>6, <1>7, <1>8 DEF LedgerInv

LEMMA CheckBillStep ==
  ASSUME LedgerInv, NEW w \in Buyers,
         \/ \E goods \in Deliveries : Receive(w, goods)
         \/ \E g \in Grns : VoidGrn(w, g)
         \/ \E g \in Grns, qty \in Amounts : Return(w, g, qty)
  PROVE  LedgerInv'
<1>1. CASE \E goods \in Deliveries : Receive(w, goods)
  <2>1. PICK goods \in Deliveries : Receive(w, goods)
    BY <1>1
  <2>2. [op |-> "receive", goods |-> goods] \in BuyerRequests
    BY DEF BuyerRequests
  <2>3. BuyerOK([op |-> "receive", goods |-> goods])
    BY DEF BuyerOK
  <2>4. QED
    BY <2>1, <2>2, <2>3, BuyerStep DEF Receive, Check
<1>2. CASE \E g \in Grns : VoidGrn(w, g)
  <2>1. PICK g \in Grns : VoidGrn(w, g)
    BY <1>2
  <2>2. [op |-> "voidGrn", id |-> g] \in BuyerRequests
    BY DEF BuyerRequests
  <2>3. BuyerOK([op |-> "voidGrn", id |-> g])
    BY <2>1, BillFields DEF BuyerOK, VoidGrn, LedgerInv
  <2>4. QED
    BY <2>1, <2>2, <2>3, BuyerStep DEF VoidGrn, Check
<1>3. CASE \E g \in Grns, qty \in Amounts : Return(w, g, qty)
  <2>1. PICK g \in Grns, qty \in Amounts : Return(w, g, qty)
    BY <1>3
  <2> DEFINE r == [op |-> "return", id |-> g, qty |-> qty,
                   paid |-> paid[g], returned |-> returned[g]]
  <2>2. r \in BuyerRequests
    BY DEF BuyerRequests, LedgerInv, PurchasesTypeOK
  <2>3. BuyerOK(r)
    <3>1. /\ qty \in Nat /\ paid[g] \in Nat /\ returned[g] \in Nat
          /\ bill[g] # NoBill /\ bill[g].qty \in Nat /\ bill[g].total \in Nat
      BY <2>1, BillFields, PaymentsAssumption DEF Return, LedgerInv, PurchasesTypeOK
    <3>2. paid[g] + qty <= bill[g].total /\ returned[g] + qty <= bill[g].qty
      BY <2>1, <3>1 DEF Return
    <3>3. QED
      BY <3>1, <3>2 DEF BuyerOK
  <2>4. QED
    <3> HIDE DEF r
    <3>1. QED
      BY <2>1, <2>2, <2>3, BuyerStep DEF Return, Check, r
<1>4. QED
  BY <1>1, <1>2, <1>3

LEMMA AbortStep ==
  ASSUME LedgerInv, NEW w \in Buyers, Abort(w)
  PROVE  LedgerInv'
BY FreeIsRequest, BuyerStep DEF Abort, Answer

LEMMA ReceiveCommitStep ==
  ASSUME LedgerInv, NEW w \in Buyers, NEW g \in Grns, ReceiveCommit(w, g)
  PROVE  LedgerInv'
<1> DEFINE goods == buyer[w].goods
           new == [status |-> "Received", product |-> goods.product, qty |-> goods.qty,
                   total |-> goods.total, order |-> goods.order]
<1>1. /\ bill[g] = NoBill
      /\ bill' = [bill EXCEPT ![g] = new]
      /\ posted' = [posted EXCEPT ![g] = goods.total]
      /\ order' = OrderReceived(goods.order)
      /\ raced' = IF Open(goods.order) THEN raced ELSE raced \cup {g}
      /\ buyer' = [buyer EXCEPT ![w] = Free]
      /\ UNCHANGED <<paid, allocated, returned>>
  BY DEF ReceiveCommit, Judge, Answer
<1>2. /\ goods.product \in Products /\ goods.qty \in Nat /\ goods.total \in Nat
      /\ goods.order \in Orders \cup {None}
  BY BuyerFields, GoodsFields DEF ReceiveCommit, LedgerInv
<1>3. new \in Bill /\ new # NoBill
  BY <1>2 DEF Bill, NoBill
<1>4. raced \subseteq raced' /\ raced' \subseteq raced \cup {g}
  BY <1>1
<1>5. order' \in [Orders -> Statuses]
      /\ \A o \in Orders : order'[o] = IF o = goods.order THEN "Received" ELSE order[o]
  BY <1>1, <1>2, PaymentsAssumption DEF OrderReceived, LedgerInv, PurchasesTypeOK, Statuses
<1>6. PurchasesTypeOK'
  <2> HIDE DEF new, goods
  <2>1. posted' \in [Grns -> Int]
    BY <1>1, <1>2 DEF LedgerInv, PurchasesTypeOK
  <2>2. bill' \in [Grns -> Bill \cup {NoBill}]
    BY <1>1, <1>3 DEF LedgerInv, PurchasesTypeOK
  <2>3. QED
    BY <2>1, <2>2, <1>1, <1>5, FreeIsRequest DEF LedgerInv, PurchasesTypeOK
<1>7. BuyersOK'
  <2> HIDE DEF new, goods
  <2>1. \A h \in Grns : bill[h] # NoBill => bill'[h] = bill[h]
    BY <1>1 DEF LedgerInv, PurchasesTypeOK
  <2>2. QED
    BY <2>1, <1>1, FreeIsRequest, BuyerFields DEF LedgerInv, PurchasesTypeOK, BuyersOK, BuyerOK
<1>8. DocumentsOK' /\ PaidMatchesDocuments'
  <2> HIDE DEF new, goods
  <2>1. QED
    BY <1>1, <1>3 DEF LedgerInv, PurchasesTypeOK, DocumentsOK, PaidMatchesDocuments
<1>9. OrdersOK'
  <2> SUFFICES ASSUME NEW h \in Grns, bill'[h] # NoBill,
                      bill'[h].order \notin raced' \cup {None}
               PROVE  order'[bill'[h].order] = "Received"
    BY DEF OrdersOK
  <2>1. CASE h = g
    BY <2>1, <1>1, <1>2, <1>5 DEF LedgerInv, PurchasesTypeOK
  <2>2. CASE h # g
    <3>1. bill'[h] = bill[h]
      BY <2>2, <1>1 DEF LedgerInv, PurchasesTypeOK
    <3>2. bill[h].order \in Orders /\ order[bill[h].order] = "Received"
      BY <3>1, <1>4, BillFields DEF LedgerInv, OrdersOK
    <3>3. QED
      BY <3>1, <3>2, <1>5
  <2>3. QED
    BY <2>1, <2>2
<1>10. BillsAddUp'
  <2>1. /\ \A h \in Grns : h # g => bill'[h] = bill[h] /\ posted'[h] = posted[h]
        /\ bill'[g] = new /\ posted'[g] = goods.total
        /\ paid[g] = 0 /\ returned[g] = 0
    BY <1>1 DEF LedgerInv, PurchasesTypeOK, DocumentsOK
  <2>2. ASSUME NEW h \in Grns, h \notin raced', h # g, g \notin raced', bill[h] # NoBill,
               new.order \notin raced' \cup {None}
        PROVE  bill[h].order # new.order
    <3>1. Open(goods.order) /\ goods.order \in Orders
      BY <2>2, <1>1, <1>2
    <3>2. order[goods.order] \in {"Draft", "Sent"}
      BY <3>1, PaymentsAssumption DEF Open
    <3>3. QED
      BY <2>2, <3>1, <3>2, <1>4 DEF LedgerInv, OrdersOK
  <2>3. ASSUME NEW h \in Grns, h \notin raced', bill'[h] # NoBill
        PROVE  /\ paid'[h] <= bill'[h].total
               /\ returned'[h] <= bill'[h].qty
               /\ bill'[h].status = "Voided" => paid'[h] = 0 /\ posted'[h] = 0
               /\ bill'[h].status = "Received" => posted'[h] = bill'[h].total - returned'[h]
    <3>1. CASE h = g
      BY <3>1, <2>1, <1>1, <1>2
    <3>2. CASE h # g
      BY <3>2, <2>3, <2>1, <1>1, <1>4 DEF LedgerInv, BillsAddUp
    <3>3. QED
      BY <3>1, <3>2
  <2>4. ASSUME NEW h \in Grns, h \notin raced', bill'[h] # NoBill,
               NEW k \in Grns, k \notin raced', k # h, bill'[k] # NoBill,
               bill'[h].order \notin raced' \cup {None}
        PROVE  bill'[k].order # bill'[h].order
    <3>1. CASE h = g
      BY <3>1, <2>4, <2>1, <2>2
    <3>2. CASE k = g /\ h # g
      BY <3>2, <2>4, <2>1, <2>2
    <3>3. CASE h # g /\ k # g
      BY <3>3, <2>4, <2>1, <1>4 DEF LedgerInv, BillsAddUp
    <3>4. QED
      BY <3>1, <3>2, <3>3
  <2>5. QED
    <3> HIDE DEF new, goods
    <3>1. QED
      BY <2>3, <2>4 DEF BillsAddUp
<1>11. QED
  BY <1>6, <1>7, <1>8, <1>9, <1>10 DEF LedgerInv

\* The three steps that write a bill's documents: what follows from the bill
\* keeping its goods, its total and its order.
LEMMA DocumentStep ==
  ASSUME LedgerInv, NEW g \in Grns, bill[g] # NoBill, order' = order,
         NEW b \in Bill, bill' = [bill EXCEPT ![g] = b],
         b.qty = bill[g].qty, b.total = bill[g].total, b.order = bill[g].order,
         raced \subseteq raced', raced' \subseteq raced \cup {g},
         \A h \in Grns : h # g => /\ paid'[h] = paid[h] /\ returned'[h] = returned[h]
                                  /\ posted'[h] = posted[h],
         PurchasesTypeOK', BuyersOK', PaidMatchesDocuments',
         g \notin raced' =>
           /\ paid'[g] <= b.total
           /\ returned'[g] <= b.qty
           /\ b.status = "Voided" => paid'[g] = 0 /\ posted'[g] = 0
           /\ b.status = "Received" => posted'[g] = b.total - returned'[g]
  PROVE  LedgerInv'
<1>1. /\ bill'[g] = b /\ b # NoBill
      /\ \A h \in Grns : h # g => bill'[h] = bill[h]
      /\ \A h \in Grns : bill'[h] # NoBill => bill[h] # NoBill /\ bill'[h].order = bill[h].order
  BY DEF LedgerInv, PurchasesTypeOK, Bill, NoBill
<1>2. DocumentsOK'
  BY <1>1 DEF LedgerInv, DocumentsOK
<1>3. OrdersOK'
  BY <1>1 DEF LedgerInv, OrdersOK
<1>4. BillsAddUp'
  <2>1. ASSUME NEW h \in Grns, h \notin raced', bill'[h] # NoBill
        PROVE  /\ paid'[h] <= bill'[h].total
               /\ returned'[h] <= bill'[h].qty
               /\ bill'[h].status = "Voided" => paid'[h] = 0 /\ posted'[h] = 0
               /\ bill'[h].status = "Received" => posted'[h] = bill'[h].total - returned'[h]
    <3>1. CASE h = g
      BY <3>1, <2>1, <1>1
    <3>2. CASE h # g
      BY <3>2, <2>1, <1>1 DEF LedgerInv, BillsAddUp
    <3>3. QED
      BY <3>1, <3>2
  <2>2. ASSUME NEW h \in Grns, h \notin raced', bill'[h] # NoBill,
               NEW k \in Grns, k \notin raced', k # h, bill'[k] # NoBill,
               bill'[h].order \notin raced' \cup {None}
        PROVE  bill'[k].order # bill'[h].order
    BY <2>2, <1>1 DEF LedgerInv, BillsAddUp
  <2>3. QED
    BY <2>1, <2>2 DEF BillsAddUp
<1>5. QED
  BY <1>2, <1>3, <1>4 DEF LedgerInv

LEMMA BillFacts ==
  ASSUME LedgerInv, NEW g \in Grns, bill[g] # NoBill
  PROVE  /\ bill[g] \in Bill /\ bill[g].status \in {"Received", "Voided"}
         /\ bill[g].qty \in Nat /\ bill[g].total \in Nat
         /\ paid[g] \in Nat /\ allocated[g] \in Nat /\ returned[g] \in Nat
         /\ posted[g] \in Int
         /\ paid[g] = allocated[g] + returned[g]
         /\ g \notin raced =>
              /\ paid[g] <= bill[g].total
              /\ returned[g] <= bill[g].qty
              /\ bill[g].status = "Voided" => paid[g] = 0 /\ posted[g] = 0
              /\ bill[g].status = "Received" => posted[g] = bill[g].total - returned[g]
<1>1. bill[g] \in Bill /\ bill[g].status \in {"Received", "Voided"}
      /\ bill[g].qty \in Nat /\ bill[g].total \in Nat
  BY BillFields DEF LedgerInv
<1>2. /\ paid[g] \in Nat /\ allocated[g] \in Nat /\ returned[g] \in Nat
      /\ posted[g] \in Int
      /\ paid[g] = allocated[g] + returned[g]
  BY DEF LedgerInv, PurchasesTypeOK, PaidMatchesDocuments
<1>3. g \notin raced =>
        /\ paid[g] <= bill[g].total
        /\ returned[g] <= bill[g].qty
        /\ bill[g].status = "Voided" => paid[g] = 0 /\ posted[g] = 0
        /\ bill[g].status = "Received" => posted[g] = bill[g].total - returned[g]
  BY DEF LedgerInv, BillsAddUp
<1>4. QED
  BY <1>1, <1>2, <1>3

LEMMA PayBillStep ==
  ASSUME LedgerInv, NEW g \in Grns, NEW amount \in Amounts, PayBill(g, amount)
  PROVE  LedgerInv'
<1>1. /\ bill[g].status = "Received"
      /\ amount <= bill[g].total - paid[g]
      /\ paid' = [paid EXCEPT ![g] = @ + amount]
      /\ allocated' = [allocated EXCEPT ![g] = @ + amount]
      /\ UNCHANGED <<order, bill, returned, posted, buyer, raced>>
  BY DEF PayBill
<1>2. bill[g] # NoBill /\ amount \in Nat
  BY <1>1, BillFields, PaymentsAssumption DEF LedgerInv
<1>3. /\ paid'[g] = paid[g] + amount /\ allocated'[g] = allocated[g] + amount
      /\ \A h \in Grns : h # g => paid'[h] = paid[h] /\ allocated'[h] = allocated[h]
      /\ paid' \in [Grns -> Nat] /\ allocated' \in [Grns -> Nat]
  BY <1>1, <1>2 DEF LedgerInv, PurchasesTypeOK
<1>4. PurchasesTypeOK' /\ BuyersOK'
  BY <1>1, <1>3 DEF LedgerInv, PurchasesTypeOK, BuyersOK, BuyerOK
<1>5. PaidMatchesDocuments'
  <2> SUFFICES ASSUME NEW h \in Grns PROVE (paid[h] = allocated[h] + returned[h])'
    BY DEF PaidMatchesDocuments
  <2>1. CASE h = g
    BY <2>1, <1>1, <1>2, <1>3, BillFacts
  <2>2. CASE h # g
    BY <2>2, <1>1, <1>3 DEF LedgerInv, PaidMatchesDocuments
  <2>3. QED
    BY <2>1, <2>2
<1>6. bill' = [bill EXCEPT ![g] = bill[g]] /\ bill[g] \in Bill
  BY <1>1, <1>2, BillFields DEF LedgerInv, PurchasesTypeOK
<1>7. g \notin raced' =>
        /\ paid'[g] <= bill[g].total
        /\ returned'[g] <= bill[g].qty
        /\ bill[g].status = "Voided" => paid'[g] = 0 /\ posted'[g] = 0
        /\ bill[g].status = "Received" => posted'[g] = bill[g].total - returned'[g]
  BY <1>1, <1>2, <1>3, BillFacts
<1>8. QED
  BY <1>1, <1>2, <1>3, <1>4, <1>5, <1>6, <1>7, DocumentStep

LEMMA VoidGrnCommitStep ==
  ASSUME LedgerInv, NEW w \in Buyers, VoidGrnCommit(w)
  PROVE  LedgerInv'
<1> DEFINE g == buyer[w].id
           b == [bill[g] EXCEPT !.status = "Voided"]
<1>1. /\ posted' = [posted EXCEPT ![g] = @ - bill[g].total]
      /\ bill' = [bill EXCEPT ![g].status = "Voided"]
      /\ raced' = IF bill[g].status = "Received" /\ paid[g] = 0 THEN raced ELSE raced \cup {g}
      /\ buyer' = [buyer EXCEPT ![w] = Free]
      /\ UNCHANGED <<order, paid, allocated, returned>>
  BY DEF VoidGrnCommit, Judge, Answer
<1>2. g \in Grns /\ bill[g] # NoBill
  BY BuyerFields DEF VoidGrnCommit, LedgerInv, BuyersOK, BuyerOK
<1>3. b \in Bill /\ b.status = "Voided"
      /\ b.qty = bill[g].qty /\ b.total = bill[g].total /\ b.order = bill[g].order
  BY <1>2, BillFields DEF LedgerInv, Bill
<1>4. bill' = [bill EXCEPT ![g] = b]
  BY <1>1
<1>5. /\ posted'[g] = posted[g] - bill[g].total
      /\ \A h \in Grns : h # g => posted'[h] = posted[h]
      /\ posted' \in [Grns -> Int]
  BY <1>1, <1>2, BillFacts DEF LedgerInv, PurchasesTypeOK
<1> HIDE DEF b, g
<1>6. PurchasesTypeOK'
  BY <1>1, <1>2, <1>3, <1>4, <1>5, FreeIsRequest DEF LedgerInv, PurchasesTypeOK
<1>7. BuyersOK'
  <2>1. \A h \in Grns : bill[h] # NoBill =>
          bill'[h] # NoBill /\ bill'[h].qty = bill[h].qty /\ bill'[h].total = bill[h].total
    BY <1>2, <1>3, <1>4 DEF LedgerInv, PurchasesTypeOK, Bill, NoBill
  <2>2. QED
    BY <2>1, <1>1, FreeIsRequest, BuyerFields DEF LedgerInv, PurchasesTypeOK, BuyersOK, BuyerOK
<1>8. PaidMatchesDocuments'
  BY <1>1 DEF LedgerInv, PaidMatchesDocuments
<1>9. g \notin raced' =>
        /\ paid'[g] <= b.total
        /\ returned'[g] <= b.qty
        /\ b.status = "Voided" => paid'[g] = 0 /\ posted'[g] = 0
        /\ b.status = "Received" => posted'[g] = b.total - returned'[g]
  <2> SUFFICES ASSUME g \notin raced'
               PROVE  /\ paid[g] <= bill[g].total /\ returned[g] <= bill[g].qty
                      /\ paid[g] = 0 /\ posted'[g] = 0
    BY <1>1, <1>3
  <2>1. g \notin raced /\ bill[g].status = "Received" /\ paid[g] = 0
    BY <1>1
  <2>2. returned[g] = 0
    BY <2>1, <1>2, BillFacts
  <2>3. QED
    BY <2>1, <2>2, <1>2, <1>5, BillFacts
<1>10. QED
  BY <1>1, <1>2, <1>3, <1>4, <1>5, <1>6, <1>7, <1>8, <1>9, DocumentStep

LEMMA ReturnCommitStep ==
  ASSUME LedgerInv, NEW w \in Buyers, ReturnCommit(w)
  PROVE  LedgerInv'
<1> DEFINE g == buyer[w].id
           qty == buyer[w].qty
<1>1. /\ returned' = [returned EXCEPT ![g] = @ + qty]
      /\ paid' = [paid EXCEPT ![g] = paid[g] + qty]
      /\ posted' = [posted EXCEPT ![g] = @ - qty]
      /\ raced' = IF /\ bill[g].status = "Received" /\ paid[g] = buyer[w].paid
                     /\ returned[g] = buyer[w].returned
                    THEN raced ELSE raced \cup {g}
      /\ buyer' = [buyer EXCEPT ![w] = Free]
      /\ UNCHANGED <<order, bill, allocated>>
  BY DEF ReturnCommit, PaidOff, Judge, Answer
<1>2. /\ g \in Grns /\ qty \in Nat /\ bill[g] # NoBill
      /\ buyer[w].paid + qty <= bill[g].total
      /\ buyer[w].returned + qty <= bill[g].qty
  BY BuyerFields DEF ReturnCommit, LedgerInv, BuyersOK, BuyerOK
<1> HIDE DEF g, qty
<1>3. /\ returned'[g] = returned[g] + qty /\ paid'[g] = paid[g] + qty
      /\ posted'[g] = posted[g] - qty
      /\ \A h \in Grns : h # g => /\ paid'[h] = paid[h] /\ returned'[h] = returned[h]
                                  /\ posted'[h] = posted[h]
      /\ returned' \in [Grns -> Nat] /\ paid' \in [Grns -> Nat] /\ posted' \in [Grns -> Int]
  BY <1>1, <1>2 DEF LedgerInv, PurchasesTypeOK
<1>4. PurchasesTypeOK' /\ BuyersOK'
  BY <1>1, <1>2, <1>3, FreeIsRequest DEF LedgerInv, PurchasesTypeOK, BuyersOK, BuyerOK
<1>5. PaidMatchesDocuments'
  <2> SUFFICES ASSUME NEW h \in Grns PROVE (paid[h] = allocated[h] + returned[h])'
    BY DEF PaidMatchesDocuments
  <2>1. CASE h = g
    BY <2>1, <1>1, <1>2, <1>3, BillFacts
  <2>2. CASE h # g
    BY <2>2, <1>1, <1>3 DEF LedgerInv, PaidMatchesDocuments
  <2>3. QED
    BY <2>1, <2>2
<1>6. bill' = [bill EXCEPT ![g] = bill[g]] /\ bill[g] \in Bill
  BY <1>1, <1>2, BillFields DEF LedgerInv, PurchasesTypeOK
<1>7. g \notin raced' =>
        /\ paid'[g] <= bill[g].total
        /\ returned'[g] <= bill[g].qty
        /\ bill[g].status = "Voided" => paid'[g] = 0 /\ posted'[g] = 0
        /\ bill[g].status = "Received" => posted'[g] = bill[g].total - returned'[g]
  <2> SUFFICES ASSUME g \notin raced'
               PROVE  /\ paid'[g] <= bill[g].total /\ returned'[g] <= bill[g].qty
                      /\ bill[g].status = "Received"
                      /\ posted'[g] = bill[g].total - returned'[g]
    OBVIOUS
  <2>1. g \notin raced /\ bill[g].status = "Received" /\ paid[g] = buyer[w].paid
        /\ returned[g] = buyer[w].returned
    BY <1>1
  <2>2. QED
    BY <2>1, <1>2, <1>3, BillFacts
<1>8. QED
  BY <1>1, <1>2, <1>3, <1>4, <1>5, <1>6, <1>7, DocumentStep

LEMMA LedgerStep ==
  ASSUME LedgerInv, PurchasesNext
  PROVE  LedgerInv'
<1>1. CASE Office
  BY <1>1, CreateOrderStep, CheckOrderStep, UpdateStatusStep, CheckBillStep, PayBillStep
  DEF Office
<1>2. CASE \E w \in Buyers, g \in Grns : ReceiveCommit(w, g)
  BY <1>2, ReceiveCommitStep
<1>3. CASE \E w \in Buyers : VoidGrnCommit(w) \/ ReturnCommit(w) \/ Abort(w)
  BY <1>3, VoidGrnCommitStep, ReturnCommitStep, AbortStep
<1>4. QED
  BY <1>1, <1>2, <1>3 DEF PurchasesNext

-----------------------------------------------------------------------------
(***************************************************************************)
(* Stock counts.                                                           *)
(***************************************************************************)

\* Who is to reverse an adjustment read the difference that it still records,
\* unless somebody else has decided it since.
ReviewerOK(r) ==
  r.op = "reverse" =>
    /\ adjustment[r.id] # NoAdjustment
    /\ r.id \notin overtaken =>
         /\ adjustment[r.id].status \in {"APPROVED", "REVERSED"}
         /\ adjustment[r.id].difference = r.difference

CountInv ==
  /\ AdjustTypeOK
  /\ \A w \in Reviewers : ReviewerOK(reviewer[w])
  /\ AdjustmentsCancelOut

LEMMA AdjustmentFields ==
  ASSUME AdjustTypeOK, NEW a \in Adjustments
  PROVE  /\ adjustment[a] # NoAdjustment =>
              /\ adjustment[a] \in Adjustment
              /\ adjustment[a].status \in {"PENDING", "APPROVED", "REVERSED"}
              /\ adjustment[a].product \in Products
              /\ adjustment[a].physical \in Counted
              /\ adjustment[a].difference \in Int
         /\ adjustment[a].status \in {"PENDING", "APPROVED"} =>
              adjustment[a] # NoAdjustment
         /\ adjustment[a] = NoAdjustment => adjustment[a].status = "none"
BY DEF AdjustTypeOK, Adjustment, NoAdjustment

LEMMA ReviewerFields ==
  ASSUME AdjustTypeOK, NEW w \in Reviewers
  PROVE  /\ reviewer[w].op = "apply" => /\ reviewer[w].id \in Adjustments
                                        /\ reviewer[w].product \in Products
                                        /\ reviewer[w].physical \in Counted
                                        /\ reviewer[w].seen \in {"none", "PENDING"}
         /\ reviewer[w].op = "reverse" => /\ reviewer[w].id \in Adjustments
                                          /\ reviewer[w].product \in Products
                                          /\ reviewer[w].difference \in Int
<1>1. reviewer[w] \in ReviewRequests
  BY DEF AdjustTypeOK
<1>2. QED
  BY <1>1 DEF ReviewRequests, Waiting

LEMMA CountInit ==
  ASSUME AdjustInit PROVE CountInv
BY DEF AdjustInit, CountInv, AdjustTypeOK, ReviewerOK, AdjustmentsCancelOut, ReviewRequests,
       Waiting, NoAdjustment

LEMMA CountStutter ==
  ASSUME CountInv, UNCHANGED adjustments PROVE CountInv'
BY DEF CountInv, adjustments, AdjustTypeOK, ReviewerOK, AdjustmentsCancelOut

LEMMA ReviewerStep ==
  ASSUME CountInv, UNCHANGED <<adjustment, effect, overtaken>>,
         NEW w \in Reviewers, NEW r \in ReviewRequests, ReviewerOK(r),
         reviewer' = [reviewer EXCEPT ![w] = r]
  PROVE  CountInv'
<1>1. AdjustTypeOK'
  BY DEF CountInv, AdjustTypeOK
<1>2. \A v \in Reviewers : ReviewerOK(reviewer[v])'
  BY DEF CountInv, AdjustTypeOK, ReviewerOK
<1>3. AdjustmentsCancelOut'
  BY DEF CountInv, AdjustmentsCancelOut
<1>4. QED
  BY <1>1, <1>2, <1>3 DEF CountInv

LEMMA SubmitStep ==
  ASSUME ShelfTypeOK, CountInv, NEW a \in Adjustments, NEW p \in Products,
         NEW counted \in Counted, Submit(a, p, counted)
  PROVE  CountInv'
<1> DEFINE new == [status |-> "PENDING", product |-> p, physical |-> counted,
                   difference |-> counted - stock[p]]
<1>1. /\ adjustment[a] = NoAdjustment
      /\ adjustment' = [adjustment EXCEPT ![a] = new]
      /\ UNCHANGED <<effect, reviewer, overtaken>>
  BY DEF Submit
<1>2. new \in Adjustment /\ new # NoAdjustment
  BY CountsAssumption DEF Adjustment, NoAdjustment, ShelfTypeOK
<1>3. AdjustTypeOK'
  <2> HIDE DEF new
  <2>1. QED
    BY <1>1, <1>2 DEF CountInv, AdjustTypeOK
<1>4. \A v \in Reviewers : ReviewerOK(reviewer[v])'
  <2> HIDE DEF new
  <2>1. QED
    BY <1>1, ReviewerFields DEF CountInv, AdjustTypeOK, ReviewerOK
<1>5. AdjustmentsCancelOut'
  BY <1>1 DEF CountInv, AdjustTypeOK, AdjustmentsCancelOut, NoAdjustment
<1>6. QED
  BY <1>3, <1>4, <1>5 DEF CountInv

LEMMA TakeStep ==
  ASSUME CountInv, NEW w \in Reviewers, NEW a \in Adjustments,
         \/ Approve(w, a)
         \/ Reverse(w, a)
         \/ \E p \in Products, counted \in Counted, admin \in BOOLEAN :
              Count(w, a, p, counted, admin)
  PROVE  CountInv'
<1>1. CASE Approve(w, a)
  <2> DEFINE r == [op |-> "apply", id |-> a, product |-> adjustment[a].product,
                   physical |-> adjustment[a].physical, seen |-> "PENDING"]
  <2>1. r \in ReviewRequests /\ ReviewerOK(r)
    BY <1>1, AdjustmentFields DEF Approve, CountInv, ReviewRequests, ReviewerOK
  <2>2. reviewer' = [reviewer EXCEPT ![w] = r] /\ UNCHANGED <<adjustment, effect, overtaken>>
    BY <1>1 DEF Approve, Take
  <2> HIDE DEF r
  <2>3. QED
    BY <2>1, <2>2, ReviewerStep
<1>2. CASE Reverse(w, a)
  <2> DEFINE r == [op |-> "reverse", id |-> a, product |-> adjustment[a].product,
                   difference |-> adjustment[a].difference]
  <2>1. r \in ReviewRequests /\ ReviewerOK(r)
    BY <1>2, AdjustmentFields DEF Reverse, CountInv, ReviewRequests, ReviewerOK
  <2>2. reviewer' = [reviewer EXCEPT ![w] = r] /\ UNCHANGED <<adjustment, effect, overtaken>>
    BY <1>2 DEF Reverse, Take
  <2> HIDE DEF r
  <2>3. QED
    BY <2>1, <2>2, ReviewerStep
<1>3. CASE \E p \in Products, counted \in Counted, admin \in BOOLEAN :
             Count(w, a, p, counted, admin)
  <2>1. PICK p \in Products, counted \in Counted :
          /\ reviewer' = [reviewer EXCEPT ![w] =
               [op |-> "apply", id |-> a, product |-> p, physical |-> counted,
                seen |-> "none"]]
          /\ UNCHANGED <<adjustment, effect, overtaken>>
    BY <1>3 DEF Count, Take
  <2> DEFINE r == [op |-> "apply", id |-> a, product |-> p, physical |-> counted,
                   seen |-> "none"]
  <2>2. r \in ReviewRequests /\ ReviewerOK(r)
    BY DEF ReviewRequests, ReviewerOK
  <2> HIDE DEF r
  <2>3. QED
    BY <2>1, <2>2, ReviewerStep DEF r
<1>4. QED
  BY <1>1, <1>2, <1>3

\* The two steps that write an adjustment and the shelf.
LEMMA DecideStep ==
  ASSUME CountInv, NEW w \in Reviewers, NEW a \in Adjustments, NEW n \in Adjustment,
         NEW d \in Int, NEW seen \in {"none", "PENDING", "APPROVED"},
         Decide(a, seen), Respond(w),
         adjustment' = [adjustment EXCEPT ![a] = n],
         effect' = [effect EXCEPT ![a] = @ + d],
         \* the decision is sound when the status is still the one read
         a \notin overtaken' =>
           /\ effect[a] + d = IF n.status = "APPROVED" THEN n.difference ELSE 0
           /\ seen = "APPROVED" => n.status = "REVERSED" /\ n.difference = adjustment[a].difference
  PROVE  CountInv'
<1>1. /\ reviewer' = [reviewer EXCEPT ![w] = Waiting]
      /\ overtaken' = IF adjustment[a].status = seen THEN overtaken ELSE overtaken \cup {a}
      /\ Waiting \in ReviewRequests /\ Waiting.op # "reverse"
      /\ n # NoAdjustment /\ effect[a] \in Int
  BY DEF Decide, Respond, ReviewRequests, Waiting, Adjustment, NoAdjustment, CountInv, AdjustTypeOK
<1>2. /\ adjustment'[a] = n /\ effect'[a] = effect[a] + d
      /\ \A b \in Adjustments : b # a => adjustment'[b] = adjustment[b] /\ effect'[b] = effect[b]
  BY DEF CountInv, AdjustTypeOK
<1>3. AdjustTypeOK'
  BY <1>1 DEF CountInv, AdjustTypeOK
<1>4. ASSUME NEW v \in Reviewers PROVE ReviewerOK(reviewer[v])'
  <2>1. CASE v = w
    BY <2>1, <1>1 DEF CountInv, AdjustTypeOK, ReviewerOK
  <2>2. CASE v # w
    <3>1. reviewer'[v] = reviewer[v] /\ ReviewerOK(reviewer[v])
      BY <2>2, <1>1 DEF CountInv, AdjustTypeOK
    <3>2. CASE reviewer[v].op = "reverse" /\ reviewer[v].id = a
      <4>1. a \notin overtaken' =>
              /\ adjustment[a].status \in {"APPROVED", "REVERSED"}
              /\ adjustment[a].status = seen
              /\ adjustment[a].difference = reviewer[v].difference
        BY <3>1, <3>2, <1>1 DEF ReviewerOK
      <4>2. QED
        BY <3>1, <3>2, <4>1, <1>1, <1>2 DEF ReviewerOK
    <3>3. CASE reviewer[v].op = "reverse" /\ reviewer[v].id # a
      <4>1. reviewer[v].id \in Adjustments
        BY <3>3, ReviewerFields DEF CountInv
      <4>2. QED
        BY <3>1, <3>3, <4>1, <1>1, <1>2 DEF ReviewerOK
    <3>4. CASE reviewer[v].op # "reverse"
      BY <3>1, <3>4 DEF ReviewerOK
    <3>5. QED
      BY <3>2, <3>3, <3>4
  <2>3. QED
    BY <2>1, <2>2
<1>5. AdjustmentsCancelOut'
  BY <1>1, <1>2 DEF CountInv, AdjustmentsCancelOut
<1>6. QED
  BY <1>3, <1>4, <1>5 DEF CountInv

LEMMA ApplyStep ==
  ASSUME ShelfTypeOK, CountInv, NEW w \in Reviewers, ApplyToInventory(w)
  PROVE  CountInv'
<1> DEFINE a == reviewer[w].id
           p == reviewer[w].product
           physical == reviewer[w].physical
           d == physical - stock[p]
           n == [status |-> "APPROVED", product |-> p, physical |-> physical, difference |-> d]
           seen == reviewer[w].seen
<1>1. /\ adjustment' = [adjustment EXCEPT ![a] = n]
      /\ effect' = [effect EXCEPT ![a] = @ + d]
      /\ Decide(a, seen) /\ Respond(w)
  BY DEF ApplyToInventory, Difference
<1>2. a \in Adjustments /\ p \in Products /\ physical \in Counted /\ seen \in {"none", "PENDING"}
  BY ReviewerFields DEF ApplyToInventory, CountInv
<1>3. d \in Int
  <2> HIDE DEF n, seen, a
  <2>1. Counted \subseteq Int
    BY CountsAssumption
  <2>2. physical \in Int
    BY <1>2, <2>1
  <2>3. stock[p] \in Int
    BY <1>2 DEF ShelfTypeOK
  <2>4. QED
    BY <2>2, <2>3
<1>4. n \in Adjustment
  BY <1>2, <1>3 DEF Adjustment
<1>5. a \notin overtaken' => effect[a] + d = IF n.status = "APPROVED" THEN n.difference ELSE 0
  <2>1. a \notin overtaken' => a \notin overtaken /\ adjustment[a].status = seen
    BY <1>1 DEF Decide
  <2>2. a \notin overtaken' => effect[a] = 0
    BY <2>1, <1>2 DEF CountInv, AdjustmentsCancelOut
  <2>3. QED
    BY <2>2, <1>3
<1>6. QED
  <2> HIDE DEF a, d, n, seen
  <2>1. QED
    BY <1>1, <1>2, <1>3, <1>4, <1>5, DecideStep

LEMMA ReverseCommitStep ==
  ASSUME ShelfTypeOK, CountInv, NEW w \in Reviewers, ReverseCommit(w)
  PROVE  CountInv'
<1> DEFINE a == reviewer[w].id
           d == -reviewer[w].difference
           n == [adjustment[a] EXCEPT !.status = "REVERSED"]
<1>1. a \in Adjustments /\ reviewer[w].difference \in Int /\ adjustment[a] # NoAdjustment
  BY ReviewerFields DEF ReverseCommit, CountInv, ReviewerOK
<1>2. /\ adjustment' = [adjustment EXCEPT ![a] = n]
      /\ effect' = [effect EXCEPT ![a] = @ + d]
      /\ Decide(a, "APPROVED") /\ Respond(w)
  BY <1>1 DEF ReverseCommit, TakenBack, CountInv, AdjustTypeOK
<1>3. n \in Adjustment /\ n.status = "REVERSED" /\ n.difference = adjustment[a].difference
  BY <1>1, AdjustmentFields DEF CountInv, Adjustment
<1>4. a \notin overtaken' => effect[a] + d = 0
  <2>1. a \notin overtaken' => a \notin overtaken /\ adjustment[a].status = "APPROVED"
    BY <1>2 DEF Decide
  <2>2. a \notin overtaken' =>
          effect[a] = adjustment[a].difference /\ adjustment[a].difference = reviewer[w].difference
    BY <2>1, <1>1 DEF CountInv, AdjustmentsCancelOut, ReverseCommit, ReviewerOK
  <2>3. QED
    BY <2>2, <1>1
<1>5. QED
  <2> HIDE DEF a, d, n
  <2>1. d \in Int
    BY <1>1 DEF d
  <2>2. QED
    BY <2>1, <1>1, <1>2, <1>3, <1>4, DecideStep

LEMMA CountStep ==
  ASSUME ShelfTypeOK, CountInv, AdjustNext
  PROVE  CountInv'
<1>1. CASE Paperwork
  BY <1>1, SubmitStep, TakeStep DEF Paperwork
<1>2. CASE \E w \in Reviewers : ApplyToInventory(w) \/ ReverseCommit(w)
  BY <1>2, ApplyStep, ReverseCommitStep
<1>3. QED
  BY <1>1, <1>2 DEF AdjustNext

-----------------------------------------------------------------------------
(***************************************************************************)
(* The shelf: every step moves one product's stock and journal alike, or   *)
(* neither of them.                                                        *)
(***************************************************************************)
Moves(p, n) ==
  /\ stock' = [stock EXCEPT ![p] = @ + n]
  /\ moved' = [moved EXCEPT ![p] = @ + n]

LEMMA ReceiptsMove ==
  ASSUME LedgerInv, PurchasesNext
  PROVE  (\E p \in Products, n \in Int : Moves(p, n)) \/ UNCHANGED shelf
<1>1. CASE \E w \in Buyers, g \in Grns : ReceiveCommit(w, g)
  <2>1. PICK w \in Buyers, g \in Grns : ReceiveCommit(w, g)
    BY <1>1
  <2>2. Moves(buyer[w].goods.product, buyer[w].goods.qty)
    BY <2>1 DEF ReceiveCommit, Moves
  <2>3. buyer[w].goods.product \in Products /\ buyer[w].goods.qty \in Int
    BY <2>1, BuyerFields, GoodsFields DEF ReceiveCommit, LedgerInv
  <2>4. QED
    BY <2>2, <2>3
<1>2. ASSUME NEW w \in Buyers, VoidGrnCommit(w)
      PROVE  \E p \in Products, n \in Int : Moves(p, n)
  <2>1. buyer[w].id \in Grns /\ bill[buyer[w].id] # NoBill
    BY <1>2, BuyerFields DEF VoidGrnCommit, LedgerInv, BuyersOK, BuyerOK
  <2>2. bill[buyer[w].id].product \in Products /\ bill[buyer[w].id].qty \in Nat
    BY <2>1, BillFields DEF LedgerInv
  <2> DEFINE p == bill[buyer[w].id].product
             n == -bill[buyer[w].id].qty
  <2>3. n \in Int /\ p \in Products
    BY <2>2
  <2>4. stock' = [stock EXCEPT ![p] = @ - bill[buyer[w].id].qty]
        /\ moved' = [moved EXCEPT ![p] = @ - bill[buyer[w].id].qty]
    BY <1>2 DEF VoidGrnCommit
  <2>5. Moves(p, n)
    BY <2>2, <2>4 DEF Moves
  <2>6. QED
    BY <2>3, <2>5
<1>3. ASSUME NEW w \in Buyers, ReturnCommit(w)
      PROVE  \E p \in Products, n \in Int : Moves(p, n)
  <2>1. /\ buyer[w].id \in Grns /\ bill[buyer[w].id] # NoBill
        /\ buyer[w].qty \in Nat
    BY <1>3, BuyerFields DEF ReturnCommit, LedgerInv, BuyersOK, BuyerOK
  <2> DEFINE p == bill[buyer[w].id].product
             n == -buyer[w].qty
  <2>2. n \in Int /\ p \in Products
    BY <2>1, BillFields DEF LedgerInv
  <2>3. stock' = [stock EXCEPT ![p] = @ - buyer[w].qty]
        /\ moved' = [moved EXCEPT ![p] = @ - buyer[w].qty]
    BY <1>3 DEF ReturnCommit
  <2>4. Moves(p, n)
    BY <2>1, <2>3 DEF Moves
  <2>5. QED
    BY <2>2, <2>4
<1>4. ASSUME NEW w \in Buyers, Abort(w) PROVE UNCHANGED shelf
  BY <1>4 DEF Abort
<1>5. QED
  BY <1>1, <1>2, <1>3, <1>4 DEF PurchasesNext

LEMMA CountsMove ==
  ASSUME ShelfTypeOK, CountInv, AdjustNext
  PROVE  (\E p \in Products, n \in Int : Moves(p, n)) \/ UNCHANGED shelf
<1>1. ASSUME NEW w \in Reviewers, ApplyToInventory(w)
      PROVE  \E p \in Products, n \in Int : Moves(p, n)
  <2> DEFINE p == reviewer[w].product
             n == reviewer[w].physical - stock[p]
  <2>1. p \in Products /\ reviewer[w].physical \in Nat
    BY <1>1, ReviewerFields, CountsAssumption DEF ApplyToInventory, CountInv
  <2>2. n \in Int /\ stock[p] + n = reviewer[w].physical
    BY <2>1 DEF ShelfTypeOK
  <2>3. stock' = [stock EXCEPT ![p] = reviewer[w].physical]
        /\ moved' = [moved EXCEPT ![p] = @ + n]
    BY <1>1 DEF ApplyToInventory, Difference
  <2>4. Moves(p, n)
    BY <2>2, <2>3 DEF Moves
  <2>5. QED
    BY <2>1, <2>2, <2>4
<1>2. ASSUME NEW w \in Reviewers, ReverseCommit(w)
      PROVE  \E p \in Products, n \in Int : Moves(p, n)
  <2> DEFINE p == reviewer[w].product
             n == -reviewer[w].difference
  <2>1. p \in Products /\ reviewer[w].difference \in Int
    BY <1>2, ReviewerFields DEF ReverseCommit, CountInv
  <2>2. stock' = [stock EXCEPT ![p] = @ - reviewer[w].difference]
        /\ moved' = [moved EXCEPT ![p] = @ - reviewer[w].difference]
    BY <1>2 DEF ReverseCommit, TakenBack
  <2>3. n \in Int /\ stock[p] \in Int /\ moved[p] \in Int
    BY <2>1 DEF ShelfTypeOK
  <2>4. /\ stock[p] - reviewer[w].difference = stock[p] + n
        /\ moved[p] - reviewer[w].difference = moved[p] + n
    BY <2>1, <2>3
  <2>5. Moves(p, n)
    BY <2>2, <2>4 DEF Moves
  <2>6. QED
    BY <2>1, <2>3, <2>5
<1>3. QED
  BY <1>1, <1>2 DEF AdjustNext

LEMMA SaleMoves ==
  ASSUME NEW p \in Products, ShelfTypeOK, Sell(p)
  PROVE  Moves(p, -1)
BY DEF Sell, Moves, ShelfTypeOK

LEMMA MoveKeepsType ==
  ASSUME ShelfTypeOK, NEW p \in Products, NEW n \in Int, Moves(p, n)
  PROVE  ShelfTypeOK'
BY DEF ShelfTypeOK, Moves

LEMMA MoveIsJournalled ==
  ASSUME ShelfTypeOK, NEW p \in Products, NEW n \in Int, Moves(p, n)
  PROVE  Journal!JournalNext
<1>1. moved[p] \in Int /\ stock[p] \in Int /\ moved'[p] = moved[p] + n
  BY DEF ShelfTypeOK, Moves
<1>2. stock[p] + moved'[p] - moved[p] = stock[p] + n
  BY <1>1
<1>3. stock' = [stock EXCEPT ![p] = @ + moved'[p] - moved[p]]
  BY <1>2 DEF Moves
<1>4. moved' = [moved EXCEPT ![p] = moved'[p]]
  BY <1>1 DEF Moves
<1>5. QED
  BY <1>3, <1>4 DEF Journal!JournalNext, Journal!Move

-----------------------------------------------------------------------------
(***************************************************************************)
(* The theorems.                                                           *)
(***************************************************************************)
IInv == ShelfTypeOK /\ LedgerInv /\ CountInv

LEMMA InitIInv == Init => IInv
<1>1. Init => ShelfTypeOK
  BY ShelfAssumption DEF Init, ShelfInit, ShelfTypeOK
<1>2. QED
  BY <1>1, LedgerInit, CountInit DEF Init, IInv

LEMMA StepMoves ==
  ASSUME IInv, [Next]_vars
  PROVE  (\E p \in Products, n \in Int : Moves(p, n)) \/ UNCHANGED shelf
<1>1. CASE \E p \in Products : Sell(p)
  BY <1>1, SaleMoves DEF IInv
<1>2. CASE PurchasesNext
  BY <1>2, ReceiptsMove DEF IInv
<1>3. CASE AdjustNext
  BY <1>3, CountsMove DEF IInv
<1>4. CASE UNCHANGED vars
  BY <1>4 DEF vars
<1>5. QED
  BY <1>1, <1>2, <1>3, <1>4 DEF Next

LEMMA NextIInv == IInv /\ [Next]_vars => IInv'
<1> SUFFICES ASSUME IInv, [Next]_vars PROVE IInv'
  OBVIOUS
<1>1. ShelfTypeOK'
  <2>1. CASE UNCHANGED shelf
    BY <2>1 DEF IInv, ShelfTypeOK, shelf
  <2>2. CASE \E p \in Products, n \in Int : Moves(p, n)
    BY <2>2, MoveKeepsType DEF IInv
  <2>3. QED
    BY <2>1, <2>2, StepMoves
<1>2. LedgerInv'
  <2>1. CASE PurchasesNext
    BY <2>1, LedgerStep DEF IInv
  <2>2. CASE UNCHANGED purchases
    BY <2>2, LedgerStutter DEF IInv
  <2>3. QED
    BY <2>1, <2>2 DEF Next, vars
<1>3. CountInv'
  <2>1. CASE AdjustNext
    BY <2>1, CountStep DEF IInv
  <2>2. CASE UNCHANGED adjustments
    BY <2>2, CountStutter DEF IInv
  <2>3. QED
    BY <2>1, <2>2 DEF Next, vars
<1>4. QED
  BY <1>1, <1>2, <1>3 DEF IInv

LEMMA Invariant == Spec => []IInv
BY InitIInv, NextIInv, PTL DEF Spec

\* Every row of the purchase ledger, the counts and the shelf has its type,
\* and every request in flight names rows that exist.
THEOREM TypeCorrect == Spec => []TypeOK
<1>1. IInv => TypeOK
  BY DEF IInv, LedgerInv, CountInv, TypeOK
<1>2. QED
  BY <1>1, Invariant, PTL

\* paid_amount is payments plus debit notes (grns.paid_amount, written by two
\* services in SQL).
THEOREM PaidIsDocumented == Spec => []PaidMatchesDocuments
<1>1. IInv => PaidMatchesDocuments
  BY DEF IInv, LedgerInv
<1>2. QED
  BY <1>1, Invariant, PTL

\* A bill that no check out of date wrote is never settled beyond its total nor
\* returned beyond its quantity, is voided clean, and is its order's only one.
THEOREM BillsAlwaysAddUp == Spec => []BillsAddUp
<1>1. IInv => BillsAddUp
  BY DEF IInv, LedgerInv
<1>2. QED
  BY <1>1, Invariant, PTL

\* An adjustment moves the shelf by the difference it records, and by nothing
\* once it is reversed, whatever moves the shelf meanwhile.
THEOREM AdjustmentsAlwaysCancel == Spec => []AdjustmentsCancelOut
<1>1. IInv => AdjustmentsCancelOut
  BY DEF IInv, CountInv
<1>2. QED
  BY <1>1, Invariant, PTL

\* Purchases, counts and tills together implement the abstract journal: no
\* step changes a shelf without the stock movement that explains it.
THEOREM JournalIsImplemented == Spec => ImplementsJournal
<1>1. Init => Journal!JournalInit
  BY DEF Init, ShelfInit, Journal!JournalInit
<1>2. IInv /\ [Next]_vars => [Journal!JournalNext]_(Journal!journal)
  <2> SUFFICES ASSUME IInv, [Next]_vars
               PROVE  [Journal!JournalNext]_(Journal!journal)
    OBVIOUS
  <2>1. CASE UNCHANGED shelf
    BY <2>1 DEF shelf, Journal!journal
  <2>2. CASE \E p \in Products, n \in Int : Moves(p, n)
    BY <2>2, MoveIsJournalled DEF IInv
  <2>3. QED
    BY <2>1, <2>2, StepMoves
<1>3. QED
  BY <1>1, <1>2, Invariant, PTL DEF Spec, ImplementsJournal, Journal!JournalSpec
=============================================================================
