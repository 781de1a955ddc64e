---------------------------- MODULE CustomerOrders ----------------------------
(***************************************************************************)
(* Click-and-collect orders: checkout, PayHere's notices, pickup, and the  *)
(* customer's loyalty wallet.                                              *)
(*                                                                         *)
(* Nothing here runs in a transaction (except the stock decrement, which   *)
(* is one step): every handler is a row of statements that commit one by   *)
(* one, and works on the rows it read first.  req[w] is what one request   *)
(* has read and what it has left to do: `rest' are the orders it is at or  *)
(* has not come to.                                                        *)
(*                                                                         *)
(* Money is whole: a unit costs 1 and a point is worth 1.  One customer    *)
(* owns every order.  The legacy status `accepted', which nothing sets, is *)
(* left out, and so are pickup-time edits of the items.                    *)
(***************************************************************************)
EXTENDS Integers, Sequences, FiniteSets, Functions, FiniteSetsExt

CONSTANTS
  Orders, Branches, Checkouts,
  Lines,           \* the orders of each checkout, in the order it saves them
  Branch, Units,   \* where each order is collected and how much it takes
  Online,          \* the checkouts paid through PayHere
  Grouped,         \* those made by createCheckout, under a group code
  Requested,       \* the loyalty points each checkout redeems
  CapPercent, MinPoints, EarnPer,  \* loyalty settings
  Opening, OpeningPoints,          \* the stock and the wallet at the start
  Workers,         \* requests in flight at the same time
  Codes,           \* the PayHere status codes that occur
  Handlers,        \* the endpoints on existing orders that are in use
  MaxCrashes,
  None             \* SQL NULL

ASSUME LinesAssumption ==
  /\ Lines \in [Checkouts -> Seq(Orders) \ {<<>>}]
  /\ \A c \in Checkouts : \A i, j \in DOMAIN Lines[c] :
       Lines[c][i] = Lines[c][j] => i = j
  /\ \A c, d \in Checkouts : Range(Lines[c]) \cap Range(Lines[d]) # {} => c = d
  /\ \A o \in Orders : \E c \in Checkouts : o \in Range(Lines[c])
  /\ Online \subseteq Checkouts /\ Grouped \subseteq Checkouts
  /\ IsFiniteSet(Orders) /\ IsFiniteSet(Workers)
ASSUME AmountsAssumption ==
  /\ Branch \in [Orders -> Branches]
  /\ Units \in [Orders -> Nat \ {0}]
  /\ Requested \in [Checkouts -> Nat]
  /\ Opening \in [Branches -> Nat]
  /\ CapPercent \in 0 .. 100 /\ EarnPer \in Nat \ {0}
  /\ {MinPoints, OpeningPoints, MaxCrashes} \subseteq Nat
ASSUME CodesAssumption ==
  Codes \subseteq {"2", "0", "-1", "-2", "-3", "invalid"} /\ "2" \in Codes

VARIABLES
  order,     \* customer_orders
  attempt,   \* payhere_payment_attempts, one per checkout
  stock,     \* inventory.quantity
  sales,     \* how many sales rows name the order
  posted,    \* their ledger entries
  points,    \* loyalty_accounts.points_balance
  redeemed, restored, earned,  \* points of the order's REDEEMED, REVERSED and EARNED rows
  captured,  \* the checkouts PayHere holds the money of
  notices,   \* PayHere's notices not acknowledged yet, or sent again
  aged,      \* seven days have passed
  crashes,
  orphaned,  \* history: points credited to an order whose row was refused
  contested, \* history: the orders that two requests were at work on at once
  req

wallet == <<points, redeemed, restored, earned, orphaned>>
books == <<stock, sales, posted>>
payhere == <<captured, notices>>
world == <<aged, crashes, contested>>
vars == <<order, attempt, books, wallet, payhere, world, req>>

OrdersOf(c) == Range(Lines[c])
Checkout(o) == CHOOSE c \in Checkouts : o \in OrdersOf(c)

Ended == {"cancelled", "not_collected", "expired"}
Payments == {"unpaid", "pending", "paid", "failed", "cancelled"}
Row == [status : {"pending", "completed"} \cup Ended, pay : Payments,
        discount : Int, points : Nat]
NoOrder == [status |-> "none"]
Placed(o) == order[o] # NoOrder
Paid(o) == Placed(o) /\ order[o].pay = "paid"

Attempts == [status : {"pending", "paid", "failed", "cancelled"}, amount : Nat]
NoAttempt == [status |-> "none"]
Notice == [c : Online, code : Codes]
ASSUME NullAssumption == None \notin Notice

Idle == [op |-> "idle"]
CheckoutSteps == {"place", "redeem", "debit", "redeemRow", "financials", "attempt"}
Checkingout == [op : CheckoutSteps, c : Checkouts, i : Nat]
Snapshots == [Orders -> Row \cup {NoOrder}]
Working == [op : {"stock", "sale", "entry", "markPaid", "settled", "award", "awardRow",
                  "complete", "end", "restore", "restoreRow"},
            rest : SUBSET Orders, rows : Snapshots, notice : Notice \cup {None},
            to : [status : Ended, pay : Payments \cup {"kept"}] \cup {None}]

Init ==
  /\ order = [o \in Orders |-> NoOrder]
  /\ attempt = [c \in Online |-> NoAttempt]
  /\ stock = Opening
  /\ sales = [o \in Orders |-> 0]
  /\ posted = [o \in Orders |-> 0]
  /\ points = OpeningPoints
  /\ redeemed = [o \in Orders |-> 0]
  /\ restored = [o \in Orders |-> 0]
  /\ earned = [o \in Orders |-> 0]
  /\ orphaned = [o \in Orders |-> 0]
  /\ contested = {}
  /\ captured = {} /\ notices = {}
  /\ aged = FALSE /\ crashes = 0
  /\ req = [w \in Workers |-> Idle]

\* The orders a request is at work on.
AtWork(r) ==
  CASE r.op = "idle" -> {}
    [] r.op \in CheckoutSteps -> OrdersOf(r.c)
    [] OTHER -> r.rest

Begin(w, r) ==
  /\ req[w] = Idle
  /\ req' = [req EXCEPT ![w] = r]
  /\ contested' = contested \cup (AtWork(r) \cap UNION {AtWork(req[v]) : v \in Workers})
Continue(w, r) == req' = [req EXCEPT ![w] = r]
Goto(w, op) == req' = [req EXCEPT ![w].op = op]

-----------------------------------------------------------------------------
(***************************************************************************)
(* create and createCheckout: the orders one by one, the points once, on   *)
(* the first order, then the discount of every order, then the attempt.    *)
(* An error on the way leaves what is saved.                               *)
(***************************************************************************)
Primary(c) == Lines[c][1]
Subtotal(c) == SumFunctionOnSet(Units, OrdersOf(c))

\* Math.round of the proportional share; the last order takes what is left.
Share(c, i) ==
  LET d == Requested[c]
      last == Len(Lines[c])
      rounded == [j \in 1 .. last |->
        (2 * d * Units[Lines[c][j]] + Subtotal(c)) \div (2 * Subtotal(c))]
  IN  IF i < last THEN rounded[i]
      ELSE d - SumFunctionOnSet(rounded, 1 .. last - 1)

Total(row, o) == IF Units[o] > row.discount THEN Units[o] - row.discount ELSE 0

StartCheckout(w, c) ==
  /\ \A o \in OrdersOf(c) : ~Placed(o)
  /\ \A v \in Workers : req[v].op = "place" => req[v].c # c
  /\ Begin(w, [op |-> "place", c |-> c, i |-> 1])
  /\ UNCHANGED <<order, attempt, books, wallet, payhere, aged, crashes>>

PlaceOrder(w) ==
  LET r == req[w]
  IN  /\ r.op = "place"
      /\ order' = [order EXCEPT ![Lines[r.c][r.i]] =
                     [status |-> "pending", discount |-> 0, points |-> 0,
                      pay |-> IF r.c \in Online THEN "pending" ELSE "unpaid"]]
      /\ Continue(w, IF r.i < Len(Lines[r.c]) THEN [r EXCEPT !.i = @ + 1]
                     ELSE [r EXCEPT !.op = "redeem", !.i = 1])
      /\ UNCHANGED <<attempt, books, wallet, payhere, world>>

\* A grouped checkout that the points pay for in full has no attempt.
Charged(c) == c \in Online /\ (c \in Grouped => Subtotal(c) > Requested[c])
AfterPoints(c) ==
  IF Charged(c) THEN [op |-> "attempt", c |-> c, i |-> 1] ELSE Idle

MaxRedeemable(c) ==
  Max({0, Min({points - MinPoints, (Subtotal(c) * CapPercent) \div 100})})

\* redeemForOrder: the balance is read, the size is checked ...
RedeemForOrder(w) ==
  LET r == req[w]
  IN  /\ r.op = "redeem"
      /\ Continue(w, IF Requested[r.c] = 0 THEN AfterPoints(r.c)
                     ELSE IF Requested[r.c] > MaxRedeemable(r.c) THEN Idle
                     ELSE [r EXCEPT !.op = "debit"])
      /\ UNCHANGED <<order, attempt, books, wallet, payhere, world>>

\* Mutant: the balance read is trusted.
EnoughPointsRead(c) == TRUE

EnoughPoints(c) == points >= Requested[c]

\* Mutant: the update is refused and nobody looks.
ApplyRedeemIgnored(w) ==
  LET r == req[w]
  IN  /\ r.op = "debit"
      /\ points' = IF EnoughPoints(r.c) THEN points - Requested[r.c] ELSE points
      /\ Goto(w, "redeemRow")
      /\ UNCHANGED <<order, attempt, books, redeemed, restored, earned, orphaned, payhere, world>>

\* ... and the balance is debited only if it is still there.
ApplyRedeem(w) ==
  LET r == req[w]
      enough == EnoughPoints(r.c)
  IN  /\ r.op = "debit"
      /\ points' = IF enough THEN points - Requested[r.c] ELSE points
      /\ Continue(w, IF enough THEN [r EXCEPT !.op = "redeemRow"] ELSE Idle)
      /\ UNCHANGED <<order, attempt, books, redeemed, restored, earned, orphaned, payhere, world>>

RedeemRow(w) ==
  LET r == req[w]
  IN  /\ r.op = "redeemRow"
      /\ redeemed' = [redeemed EXCEPT ![Primary(r.c)] = @ + Requested[r.c]]
      /\ Goto(w, "financials")
      /\ UNCHANGED <<order, attempt, books, points, restored, earned, orphaned, payhere, world>>

UpdateFinancials(w) ==
  LET r == req[w]
  IN  /\ r.op = "financials"
      /\ order' = [order EXCEPT ![Lines[r.c][r.i]] =
                     [@ EXCEPT !.discount = Share(r.c, r.i),
                               !.points = IF r.i = 1 THEN Requested[r.c] ELSE 0]]
      /\ Continue(w, IF r.i < Len(Lines[r.c]) THEN [r EXCEPT !.i = @ + 1]
                     ELSE AfterPoints(r.c))
      /\ UNCHANGED <<attempt, books, wallet, payhere, world>>

CreatePaymentAttempt(w) ==
  LET r == req[w]
  IN  /\ r.op = "attempt"
      /\ attempt' = [attempt EXCEPT ![r.c] =
                       [status |-> "pending", amount |-> Subtotal(r.c) - redeemed[Primary(r.c)]]]
      /\ Continue(w, Idle)
      /\ UNCHANGED <<order, books, wallet, payhere, world>>

-----------------------------------------------------------------------------
(***************************************************************************)
(* PayHere.  A card is declined or a payment abandoned any number of times *)
(* before it is captured, once; the notices may come late and again.       *)
(***************************************************************************)
Send(c, code) == notices' = notices \cup {[c |-> c, code |-> code]}

Capture(c) ==
  /\ attempt[c] # NoAttempt /\ attempt[c].amount > 0 /\ c \notin captured
  /\ captured' = captured \cup {c}
  /\ Send(c, "2")
  /\ UNCHANGED <<order, attempt, books, wallet, world, req>>

Report(c, code) ==
  /\ attempt[c] # NoAttempt
  /\ (c \in captured) = (code = "-3")
  /\ [c |-> c, code |-> code] \notin notices
  /\ Send(c, code)
  /\ UNCHANGED <<order, attempt, books, wallet, captured, world, req>>

\* The handler's answer; PayHere may not see it and send the notice again.
Acknowledge(n) == notices' = notices \ {n} \/ UNCHANGED notices

-----------------------------------------------------------------------------
\* Mutant: paid orders are not skipped.
EveryOrder(c) == OrdersOf(c)

\* Mutant: orders that have ended are skipped, too.
UnsettledOpen(c) ==
  {o \in OrdersOf(c) : order[o].pay # "paid" /\ order[o].status = "pending"}

\* The orders a notice is about that were not paid when the handler read them.
Unsettled(c) == {o \in OrdersOf(c) : order[o].pay # "paid"}

Seen(S) == [o \in Orders |-> IF o \in S THEN order[o] ELSE NoOrder]

Job(op, rest, notice, to) ==
  [op |-> op, rest |-> rest, rows |-> Seen(rest), notice |-> notice, to |-> to]

\* The order a handler is at: the first in the group by createdAt.
Position ==
  [o \in Orders |-> CHOOSE i \in DOMAIN Lines[Checkout(o)] : Lines[Checkout(o)][i] = o]

OrderOf(w) ==
  CHOOSE o \in req[w].rest : \A p \in req[w].rest : Position[o] <= Position[p]
RowOf(w) == req[w].rows[OrderOf(w)]

\* handlePaidNotify: the group is read once, paid orders are skipped.
NotifyPaid(w, n) ==
  /\ n.code = "2"
  /\ Begin(w, Job(IF Unsettled(n.c) = {} THEN "settled" ELSE "stock",
                  Unsettled(n.c), n, None))
  /\ UNCHANGED <<order, attempt, books, wallet, payhere, aged, crashes>>

\* -1, -2, -3: the attempt is closed, the orders still unpaid are cancelled.
NotifyRefused(w, n) ==
  LET closed == IF n.code = "-1" THEN "cancelled" ELSE "failed"
      rest == Unsettled(n.c)
  IN  /\ n.code \in {"-1", "-2", "-3"}
      /\ attempt' = [attempt EXCEPT ![n.c].status = closed]
      /\ IF rest = {}
           THEN Begin(w, Idle) /\ Acknowledge(n)
           ELSE /\ Begin(w, Job("end", rest, n, [status |-> "cancelled", pay |-> closed]))
                /\ UNCHANGED notices
      /\ UNCHANGED <<order, books, wallet, captured, aged, crashes>>

\* Any other code reopens the attempt; a notice that does not verify fails it.
NotifyOther(w, n) ==
  /\ n.code \in {"0", "invalid"}
  /\ attempt' = [attempt EXCEPT ![n.c].status =
                   IF n.code = "0" THEN "pending" ELSE "failed"]
  /\ Begin(w, Idle)
  /\ Acknowledge(n)
  /\ UNCHANGED <<order, books, wallet, captured, aged, crashes>>

-----------------------------------------------------------------------------
(***************************************************************************)
(* createPaidTransactionForOrder, for a notice or for a pickup paid at the *)
(* counter: stock, sale, ledger entry.  A shortage fails the handler, and  *)
(* with it the orders of the group it had not come to.                     *)
(***************************************************************************)
\* Mutant: the sale is saved although the stock is short.
TakeStockUnchecked(w) ==
  LET o == OrderOf(w)
  IN  /\ req[w].op = "stock"
      /\ stock' = [stock EXCEPT ![Branch[o]] = Max({0, @ - Units[o]})]
      /\ Goto(w, "sale")
      /\ UNCHANGED <<order, attempt, sales, posted, wallet, payhere, world>>

TakeStock(w) ==
  LET o == OrderOf(w)
      b == Branch[o]
      enough == stock[b] >= Units[o]
  IN  /\ req[w].op = "stock"
      /\ stock' = IF enough THEN [stock EXCEPT ![b] = @ - Units[o]] ELSE stock
      /\ Continue(w, IF enough THEN [req[w] EXCEPT !.op = "sale"] ELSE Idle)
      /\ UNCHANGED <<order, attempt, sales, posted, wallet, payhere, world>>

AfterSale(r) == IF r.notice = None THEN "award" ELSE "markPaid"

CreateSale(w) ==
  LET o == OrderOf(w)
  IN  /\ req[w].op = "sale"
      /\ sales' = [sales EXCEPT ![o] = @ + 1]
      /\ Goto(w, IF Total(RowOf(w), o) > 0 THEN "entry" ELSE AfterSale(req[w]))
      /\ UNCHANGED <<order, attempt, stock, posted, wallet, payhere, world>>

\* Mutant: the entry is posted without the discount.
PostingGross(w) == Units[OrderOf(w)]

Posting(w) == Total(RowOf(w), OrderOf(w))

PostEntry(w) ==
  /\ req[w].op = "entry"
  /\ posted' = [posted EXCEPT ![OrderOf(w)] = @ + Posting(w)]
  /\ Goto(w, AfterSale(req[w]))
  /\ UNCHANGED <<order, attempt, stock, sales, wallet, payhere, world>>

\* Mutant: the attempt is settled with the first of its orders.
MarkPaidFirst(w) ==
  /\ req[w].op = "markPaid"
  /\ order' = [order EXCEPT ![OrderOf(w)].pay = "paid"]
  /\ Continue(w, [req[w] EXCEPT !.rest = {}, !.op = "settled"])
  /\ UNCHANGED <<attempt, books, wallet, payhere, world>>

\* updateStatus(o.id, o.status, PAID): the status is written back as read.
MarkPaid(w) ==
  LET r == req[w]
      rest == r.rest \ {OrderOf(w)}
  IN  /\ r.op = "markPaid"
      /\ order' = [order EXCEPT ![OrderOf(w)] =
                     [@ EXCEPT !.status = RowOf(w).status, !.pay = "paid"]]
      /\ Continue(w, [r EXCEPT !.rest = rest,
                               !.op = IF rest = {} THEN "settled" ELSE "stock"])
      /\ UNCHANGED <<attempt, books, wallet, payhere, world>>

AttemptPaid(w) ==
  LET n == req[w].notice
  IN  /\ req[w].op = "settled"
      /\ attempt' = [attempt EXCEPT ![n.c].status = "paid"]
      /\ Continue(w, Idle)
      /\ Acknowledge(n)
      /\ UNCHANGED <<order, books, wallet, captured, world>>

-----------------------------------------------------------------------------
(***************************************************************************)
(* fulfill: a paid online order is handed over, any other is paid for at   *)
(* the counter; points are awarded, and the order is completed.            *)
(***************************************************************************)
PrePaid(o) == Checkout(o) \in Online

Fulfill(w, o) ==
  /\ Placed(o) /\ order[o].status = "pending" /\ ~aged
  /\ PrePaid(o) => order[o].pay = "paid"
  /\ Begin(w, Job(IF PrePaid(o) THEN "award" ELSE "stock", {o}, None, None))
  /\ UNCHANGED <<order, attempt, books, wallet, payhere, aged, crashes>>

Earned(w) == Total(RowOf(w), OrderOf(w)) \div EarnPer

\* awardForOrder
Award(w) ==
  LET awarded == Earned(w) > 0 /\ earned[OrderOf(w)] = 0
  IN  /\ req[w].op = "award"
      /\ points' = IF awarded THEN points + Earned(w) ELSE points
      /\ Goto(w, IF awarded THEN "awardRow" ELSE "complete")
      /\ UNCHANGED <<order, attempt, books, redeemed, restored, earned, orphaned, payhere, world>>

\* The row of an order is unique: a second one is refused, and the request
\* fails with the wallet already credited.
Refused(w, credited) ==
  /\ orphaned' = [orphaned EXCEPT ![OrderOf(w)] = @ + credited]
  /\ Continue(w, Idle)

AwardRow(w) ==
  LET o == OrderOf(w)
  IN  /\ req[w].op = "awardRow"
      /\ IF earned[o] = 0
           THEN /\ earned' = [earned EXCEPT ![o] = Earned(w)]
                /\ Goto(w, "complete") /\ UNCHANGED orphaned
           ELSE Refused(w, Earned(w)) /\ UNCHANGED earned
      /\ UNCHANGED <<order, attempt, books, points, redeemed, restored, payhere, world>>

Complete(w) ==
  LET o == OrderOf(w)
  IN  /\ req[w].op = "complete"
      /\ order' = [order EXCEPT ![o] =
                     [@ EXCEPT !.status = "completed",
                               !.pay = IF PrePaid(o) THEN order[o].pay ELSE "paid"]]
      /\ Continue(w, Idle)
      /\ UNCHANGED <<attempt, books, wallet, payhere, world>>

-----------------------------------------------------------------------------
(***************************************************************************)
(* The ways an order ends uncollected: its customer cancels it, staff mark *)
(* it not collected, a lookup finds it older than seven days, a notice     *)
(* refuses its payment.  Each writes the status, then returns the points.  *)
(***************************************************************************)
EndJob(o, status, pay) == Job("end", {o}, None, [status |-> status, pay |-> pay])

CancelByUser(w, o) ==
  /\ Placed(o) /\ order[o].status = "pending" /\ order[o].pay # "paid"
  /\ Begin(w, EndJob(o, "cancelled", "cancelled"))
  /\ UNCHANGED <<order, attempt, books, wallet, payhere, aged, crashes>>

\* Mutant: the payment is cancelled with the order.
MarkNotCollectedUnpaid(w, o) ==
  /\ Placed(o) /\ order[o].status = "pending"
  /\ Begin(w, EndJob(o, "not_collected", "cancelled"))
  /\ UNCHANGED <<order, attempt, books, wallet, payhere, aged, crashes>>

\* A paid order keeps its payment: the column is not written.
MarkNotCollected(w, o) ==
  /\ Placed(o) /\ order[o].status = "pending"
  /\ Begin(w, EndJob(o, "not_collected",
                     IF order[o].pay = "paid" THEN "kept" ELSE "cancelled"))
  /\ UNCHANGED <<order, attempt, books, wallet, payhere, aged, crashes>>

\* findByCode, by anyone; a fulfilment that finds the order so ends it too.
Expire(w, o) ==
  /\ Placed(o) /\ order[o].status = "pending" /\ aged
  /\ Begin(w, EndJob(o, "expired",
                     IF order[o].pay = "paid" THEN "paid" ELSE "cancelled"))
  /\ UNCHANGED <<order, attempt, books, wallet, payhere, aged, crashes>>

EndOrder(w) ==
  LET o == OrderOf(w)
      to == req[w].to
  IN  /\ req[w].op = "end"
      /\ order' = [order EXCEPT ![o] =
                     [@ EXCEPT !.status = to.status,
                               !.pay = IF to.pay = "kept" THEN order[o].pay ELSE to.pay]]
      /\ Goto(w, "restore")
      /\ UNCHANGED <<attempt, books, wallet, payhere, world>>

\* On to the next order of the notice, or done.
Proceed(w) ==
  LET r == req[w]
      rest == r.rest \ {OrderOf(w)}
  IN  IF rest # {}
        THEN Continue(w, [r EXCEPT !.rest = rest, !.op = "end"]) /\ UNCHANGED notices
        ELSE /\ Continue(w, Idle)
             /\ IF r.notice = None THEN UNCHANGED notices ELSE Acknowledge(r.notice)

\* Mutant: the REVERSED row is not looked up.
DueAgain(w) == RowOf(w).points > 0 /\ redeemed[OrderOf(w)] > 0

\* Mutant: the orders of a refused payment keep the points.
DueUnlessRefused(w) ==
  /\ RowOf(w).points > 0 /\ redeemed[OrderOf(w)] > 0 /\ restored[OrderOf(w)] = 0
  /\ req[w].notice = None

Due(w) ==
  RowOf(w).points > 0 /\ redeemed[OrderOf(w)] > 0 /\ restored[OrderOf(w)] = 0

\* reverseRedemption, when the row read has points: nothing if there is a
\* REVERSED row already.  A second reversal can pass before the row is in.
Restore(w) ==
  /\ req[w].op = "restore"
  /\ points' = IF Due(w) THEN points + redeemed[OrderOf(w)] ELSE points
  /\ IF Due(w) THEN Goto(w, "restoreRow") /\ UNCHANGED notices ELSE Proceed(w)
  /\ UNCHANGED <<order, attempt, books, redeemed, restored, earned, orphaned, captured, world>>

RestoreRow(w) ==
  LET o == OrderOf(w)
  IN  /\ req[w].op = "restoreRow"
      /\ IF restored[o] = 0
           THEN /\ restored' = [restored EXCEPT ![o] = redeemed[o]]
                /\ Proceed(w) /\ UNCHANGED orphaned
           ELSE Refused(w, redeemed[o]) /\ UNCHANGED <<restored, notices>>
      /\ UNCHANGED <<order, attempt, books, points, redeemed, earned, captured, world>>

-----------------------------------------------------------------------------
\* The process dies, or a statement fails: what is committed stays.
Crash(w) ==
  /\ req[w] # Idle /\ crashes < MaxCrashes
  /\ crashes' = crashes + 1
  /\ Continue(w, Idle)
  /\ UNCHANGED <<order, attempt, books, wallet, payhere, aged, contested>>

Age ==
  /\ "findByCode" \in Handlers
  /\ ~aged /\ aged' = TRUE
  /\ UNCHANGED <<order, attempt, books, wallet, payhere, crashes, contested, req>>

PayHere ==
  \E c \in Online : Capture(c) \/ \E code \in Codes \ {"2"} : Report(c, code)

Request(w) ==
  \/ \E c \in Checkouts : StartCheckout(w, c)
  \/ \E n \in notices : NotifyPaid(w, n) \/ NotifyRefused(w, n) \/ NotifyOther(w, n)
  \/ \E o \in Orders :
       \/ "fulfill" \in Handlers /\ Fulfill(w, o)
       \/ "cancelByUser" \in Handlers /\ CancelByUser(w, o)
       \/ "markNotCollected" \in Handlers /\ MarkNotCollected(w, o)
       \/ Expire(w, o)

Statement(w) ==
  \/ PlaceOrder(w) \/ RedeemForOrder(w) \/ ApplyRedeem(w) \/ RedeemRow(w)
  \/ UpdateFinancials(w) \/ CreatePaymentAttempt(w)
  \/ TakeStock(w) \/ CreateSale(w) \/ PostEntry(w) \/ MarkPaid(w) \/ AttemptPaid(w)
  \/ Award(w) \/ AwardRow(w) \/ Complete(w)
  \/ EndOrder(w) \/ Restore(w) \/ RestoreRow(w)

Next ==
  \/ PayHere
  \/ Age
  \/ \E w \in Workers : Request(w) \/ Statement(w) \/ Crash(w)

Spec == Init /\ [][Next]_vars

(***************************************************************************)
(* A handler that has begun goes on, and PayHere sends the notice of a     *)
(* captured payment until a handler takes it.  Customers and staff need    *)
(* never act, time need not pass and nothing need crash.                   *)
(***************************************************************************)
Delivery(c) == \E w \in Workers : \E n \in notices : n.c = c /\ NotifyPaid(w, n)

FairSpec ==
  /\ Spec
  /\ \A w \in Workers : WF_vars(Statement(w))
  /\ \A c \in Online : SF_vars(Delivery(c))

-----------------------------------------------------------------------------
(***************************************************************************)
(* Properties.                                                             *)
(***************************************************************************)

\* Every row has its columns' types, and neither the shelf nor the wallet is
\* ever negative, although balances are checked some statements before they
\* are debited.
TypeOK ==
  /\ order \in [Orders -> Row \cup {NoOrder}]
  /\ attempt \in [Online -> Attempts \cup {NoAttempt}]
  /\ stock \in [Branches -> Nat]
  /\ sales \in [Orders -> Nat]
  /\ posted \in [Orders -> Int]
  /\ points \in Nat
  /\ redeemed \in [Orders -> Nat]
  /\ restored \in [Orders -> Nat]
  /\ earned \in [Orders -> Nat]
  /\ captured \subseteq Online
  /\ notices \subseteq Notice
  /\ aged \in BOOLEAN
  /\ orphaned \in [Orders -> Nat]
  /\ crashes \in Nat
  /\ contested \subseteq Orders
  /\ req \in [Workers -> {Idle} \cup Checkingout \cup Working]

\* No sale without the goods: whatever handlers overlap, fail or die, the
\* units of a branch's order sales have left its shelf.
SalesAreBacked ==
  \A b \in Branches :
    SumFunctionOnSet([o \in Orders |-> sales[o] * Units[o]], {o \in Orders : Branch[o] = b})
      <= Opening[b] - stock[b]

\* An attempt says PAID only when every order of its checkout has its sale,
\* however many handlers settled parts of the group.
PaidAttemptIsSettled ==
  \A c \in Online :
    attempt[c].status = "paid" => \A o \in OrdersOf(c) : sales[o] > 0

\* What a request has done to the wallet without its row.
Unrecorded(w) ==
  CASE req[w].op = "redeemRow" -> -Requested[req[w].c]
    [] req[w].op = "restoreRow" -> redeemed[OrderOf(w)]
    [] req[w].op = "awardRow" -> Earned(w)
    [] OTHER -> 0

\* The wallet is what its ledger rows say, but for the rows whose statement
\* is still to come or was refused: overlapping handlers lose no update of
\* each other's.
WalletMatchesLedger ==
  crashes = 0 =>
    points = OpeningPoints
             + SumFunctionOnSet([o \in Orders |->
                 restored[o] + earned[o] + orphaned[o] - redeemed[o]], Orders)
             + SumFunctionOnSet([w \in Workers |-> Unrecorded(w)], Workers)

\* The comment's "a duplicate notify is a no-op (idempotent)": an order is
\* sold once, however many notices arrive for it.
DuplicateNotifyIsNoOp == \A o \in Orders : crashes = 0 => sales[o] <= 1

\* That is so of an order no two requests were at work on at once, whatever
\* its notices, its pickups and the requests on other orders do.
OneSalePerOrder == \A o \in Orders \ contested : crashes = 0 => sales[o] <= 1

\* The wallet is credited once for such an order's pickup and once for its end,
\* whether its customer, the staff, its age or refused payments end it: no
\* credit is made whose row the index then refuses.
PointsBackOnce == \A o \in Orders \ contested : orphaned[o] = 0

\* What the discounts of a checkout exceed its orders by: the last order takes
\* what rounding left, which may be more than the order costs.
Excess(c) ==
  SumFunctionOnSet([o \in Orders |-> Max({0, order[o].discount - Units[o]})], OrdersOf(c))

\* What the ledger gained for a settled checkout is what PayHere took, with
\* the points' discount split over the orders and rounded on the way; but for
\* a discount that exceeds its order, and orders two requests were at work on
\* at once.
SettledEqualsCaptured ==
  \A c \in Online :
    attempt[c].status = "paid" /\ crashes = 0 /\ OrdersOf(c) \cap contested = {} =>
      /\ c \in captured
      /\ SumFunctionOnSet(posted, OrdersOf(c)) = attempt[c].amount + Excess(c)

\* An order that ends uncollected gives the points it used back, in time.
EndedGivesBack ==
  \A o \in Orders :
    (Placed(o) /\ order[o].status \in Ended /\ order[o].points > 0)
      ~> (restored[o] = redeemed[o] \/ crashes > 0)

\* Money that PayHere took is settled in time, whatever notices came before
\* it and wherever a handler died, unless the goods have run out.
CapturedIsSettled ==
  \A c \in Online :
    c \in captured ~>
      \/ \A o \in OrdersOf(c) : Paid(o)
      \/ \E o \in OrdersOf(c) : stock[Branch[o]] < Units[o]

\* The order as its customer sees it.
Phase(o) ==
  IF order[o].status \in Ended THEN "ended"
  ELSE IF order[o].status = "completed" THEN "collected"
  ELSE IF order[o].status = "pending" THEN "open" ELSE "none"

Pickup ==
  INSTANCE PickupOrders WITH
    phase <- [o \in Orders |-> Phase(o)],
    paid <- {o \in Orders : Paid(o)},
    disputed <- contested

\* No handler, failure or late notice undoes a payment, a pickup or an end of
\* an order that no two requests were at work on at once.
ImplementsPickup == Pickup!Spec
=============================================================================
