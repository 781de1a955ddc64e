------------------------------ MODULE PosSales ------------------------------
(***************************************************************************)
(* Checkout, void, return and repayment at the tills of one branch.        *)
(*                                                                         *)
(* A checkout is one database transaction between two statements outside   *)
(* it: the lookup of its idempotency key and, after the commit, the key's  *)
(* insertion.  Inside, it holds row locks on the inventory it sells and on *)
(* the year's invoice counter, and reads the customer without a lock.  A   *)
(* request is therefore several actions, and req[w] holds what it has read *)
(* and locked; a row lock held across steps is a guard.                    *)
(*                                                                         *)
(* Money and quantities are whole numbers and every unit costs 1: rounding *)
(* and pricing are not modelled.                                           *)
(***************************************************************************)
EXTENDS Integers, FiniteSets, Functions, FiniteSetsExt

CONSTANTS
  Products,            \* stocked at the branch
  Sales,               \* identifiers of sales
  Cashiers, Keys,      \* X-Idempotency-Key values the clients send
  Customers,           \* registered customers buying on store credit
  Workers,             \* requests in flight at the same time
  Opening,             \* the inventory at the start
  Forms,               \* the checkouts the tills send
  Repayments, Limits,  \* amounts a customer repays, limits an admin may set
  MaxRepaid,           \* bound on what one customer repays
  Handlers,            \* the endpoints in use; "crash" is a fault
  None                 \* SQL NULL

Carts == [Products -> Nat]
Tenders == [cash : Nat, credit : Nat, keep : BOOLEAN]

ASSUME OpeningAssumption == Opening \in Carts
ASSUME TablesAssumption == IsFiniteSet(Products) /\ IsFiniteSet(Sales)
ASSUME FormsAssumption ==
  Forms \subseteq [cashier : Cashiers, key : Keys \cup {None},
                   customer : Customers \cup {None}, cart : Carts, tender : Tenders]
ASSUME MoneyAssumption ==
  Repayments \subseteq Nat \ {0} /\ Limits \subseteq Nat /\ MaxRepaid \in Nat
ASSUME NoneAssumption == None \notin Keys \cup Customers \cup Limits

VARIABLES
  stock,      \* inventory.quantity of each product
  moved,      \* sum of qty_in - qty_out over its stock_movements rows
  sale,       \* the sales table
  due,        \* sales.balance_due
  returned,   \* sum of the sale's sales_return_items
  posted,     \* the sale's ledger entries, credits less debits
  onAccount,  \* the sale's credit_transactions rows, taken less paid
  counter,    \* invoice_counters.last_seq of the year; 0 when there is no row
  keys,       \* the pos_idempotency_keys table
  balance,    \* users.current_balance
  limit,      \* users.credit_limit
  repaid,     \* sum of the customer's credit_transactions without a sale
  req         \* what each request in flight has read and locked

shelf == <<stock, moved>>
books == <<due, returned, posted, onAccount>>
money == <<balance, limit, repaid>>
tables == <<shelf, sale, books, counter, keys, money>>
vars == <<tables, req>>

Size(cart) == SumFunctionOnSet(cart, Products)
Cart0 == [p \in Products |-> 0]
Items(cart) == {p \in Products : cart[p] > 0}

SaleRow == [status : {"Active", "Voided"}, form : Forms, invoice : Nat \ {0}]
NoSale == [status |-> "none"]
Idle == [op |-> "idle"]

Requests ==
  {Idle}
    \cup [op : {"sale"}, form : Forms]
    \cup [op : {"saleLocked"}, form : Forms, invoice : Nat \ {0},
          left : Carts, balance : Int]
    \cup [op : {"insertKey"}, id : Sales, form : Forms]
    \cup [op : {"void"}, id : Sales]
    \cup [op : {"voidLocked"}, id : Sales, left : Carts,
          balance : Int, net : Int]
    \cup [op : {"return"}, id : Sales, good : Carts, bad : Carts]

Made(s) == sale[s] # NoSale

Init ==
  /\ stock = Opening
  /\ moved = Cart0
  /\ sale = [s \in Sales |-> NoSale]
  /\ due = [s \in Sales |-> 0]
  /\ returned = [s \in Sales |-> Cart0]
  /\ posted = [s \in Sales |-> 0]
  /\ onAccount = [s \in Sales |-> 0]
  /\ counter = 0
  /\ keys = {}
  /\ balance = [c \in Customers |-> 0]
  /\ limit \in [Customers -> Limits \cup {None}]
  /\ repaid = [c \in Customers |-> 0]
  /\ req = [w \in Workers |-> Idle]

-----------------------------------------------------------------------------
(***************************************************************************)
(* Locks held across steps.  SELECT ... FOR UPDATE on the counter locks    *)
(* nothing while the year has no row, so the year's first checkouts hold   *)
(* no lock: they are the ones that were given invoice 1.                   *)
(***************************************************************************)
CartOf(r) == IF r.op = "saleLocked" THEN r.form.cart ELSE sale[r.id].form.cart

Holds(w, p) ==
  /\ req[w].op \in {"saleLocked", "voidLocked"}
  /\ p \in Items(CartOf(req[w]))

\* Mutant: two transactions can read an inventory row before either writes it.
StockNeverLocked(p) == FALSE

StockLocked(p) == \E w \in Workers : Holds(w, p)

CounterLocked ==
  \E w \in Workers : req[w].op = "saleLocked" /\ req[w].invoice > 1

Begin(w, r) ==
  /\ req[w] = Idle
  /\ req' = [req EXCEPT ![w] = r]

Advance(w, r) == req' = [req EXCEPT ![w] = r]
Accepting == \E w \in Workers : req[w] = Idle

-----------------------------------------------------------------------------
(***************************************************************************)
(* The tender (MultiTenderCalculatorService.calculate).  Credit settles    *)
(* the invoice like money, so a sale fully on credit has nothing due.      *)
(***************************************************************************)
Settled(form) == form.tender.cash + form.tender.credit

TenderAccepted(form) ==
  Settled(form) > Size(form.cart) => form.tender.keep \/ form.tender.credit > 0

Due(form) ==
  IF Settled(form) < Size(form.cart) THEN Size(form.cart) - Settled(form) ELSE 0

Kept(form) ==
  IF form.tender.keep /\ Settled(form) > Size(form.cart)
    THEN Settled(form) - Size(form.cart) ELSE 0

\* The sale writes credit_transactions rows and the customer's balance.
OnCredit(form) ==
  form.customer # None /\ (form.tender.credit > 0 \/ Kept(form) > 0)

\* Mutant: the credit taken is compared without what is owed already.
WithinLimitOfBill(form) ==
  (limit[form.customer] # None /\ form.tender.credit > 0) =>
    form.tender.credit <= limit[form.customer]

\* assertWithinCreditLimit: no limit, or no credit taken, is no check.
WithinLimit(form) ==
  LET c == form.customer
  IN  (limit[c] # None /\ form.tender.credit > 0) =>
        balance[c] + form.tender.credit <= limit[c]

-----------------------------------------------------------------------------
\* Mutant: the key is not looked up.
CreateSaleUnkeyed(w, form) ==
  /\ TenderAccepted(form)
  /\ Begin(w, [op |-> "sale", form |-> form])

(***************************************************************************)
(* PosWriteService.createSale.  A key this cashier used before is answered *)
(* with its sale and changes nothing; otherwise the checkout goes on, and  *)
(* nothing in the database says that it has.                               *)
(***************************************************************************)
CreateSale(w, form) ==
  /\ form.key # None => ~\E k \in keys : k.cashier = form.cashier /\ k.key = form.key
  /\ TenderAccepted(form)
  /\ Begin(w, [op |-> "sale", form |-> form])

BalanceOf(c) == IF c = None THEN 0 ELSE balance[c]

\* Mutant: the quantity available is not compared.
SaleLocksUnchecked(w) ==
  LET form == req[w].form
  IN  /\ req[w].op = "sale"
      /\ \A p \in Items(form.cart) : ~StockLocked(p)
      /\ ~CounterLocked
      /\ OnCredit(form) => WithinLimit(form)
      /\ Advance(w, [op |-> "saleLocked", form |-> form, invoice |-> counter + 1,
                     left |-> [p \in Products |-> stock[p] - form.cart[p]],
                     balance |-> BalanceOf(form.customer)])
      /\ UNCHANGED tables

\* The transaction up to its last read: the inventory rows and the counter
\* are locked, the customer's balance is read without a lock.
SaleLocks(w) ==
  LET form == req[w].form
  IN  /\ req[w].op = "sale"
      /\ \A p \in Items(form.cart) : ~StockLocked(p) /\ stock[p] >= form.cart[p]
      /\ ~CounterLocked
      /\ OnCredit(form) => WithinLimit(form)
      /\ Advance(w, [op |-> "saleLocked", form |-> form, invoice |-> counter + 1,
                     left |-> [p \in Products |-> stock[p] - form.cart[p]],
                     balance |-> BalanceOf(form.customer)])
      /\ UNCHANGED tables

Written(w, s) ==
  LET r == req[w]
      taken == IF OnCredit(r.form) THEN r.form.tender.credit - Kept(r.form) ELSE 0
  IN  /\ stock' = [p \in Products |-> IF Holds(w, p) THEN r.left[p] ELSE stock[p]]
      /\ moved' = [p \in Products |-> moved[p] - r.form.cart[p]]
      /\ sale' = [sale EXCEPT ![s] =
                    [status |-> "Active", form |-> r.form, invoice |-> r.invoice]]
      /\ due' = [due EXCEPT ![s] = Due(r.form)]
      /\ posted' = [posted EXCEPT ![s] = Size(r.form.cart)]
      /\ onAccount' = [onAccount EXCEPT ![s] = taken]
      /\ counter' = r.invoice
      /\ balance' = IF OnCredit(r.form)
                    THEN [balance EXCEPT ![r.form.customer] = r.balance + taken]
                    ELSE balance
      /\ Advance(w, IF r.form.key = None THEN Idle
                    ELSE [op |-> "insertKey", id |-> s, form |-> r.form])
      /\ UNCHANGED <<returned, keys, limit, repaid>>

\* Mutant: invoice numbers are not unique.
SaleCommitReissued(w, s) ==
  /\ req[w].op = "saleLocked" /\ ~Made(s)
  /\ Written(w, s)

\* The commit.  The primary key of the counter and the unique index on
\* invoice_number fail the second of two checkouts given the same number.
SaleCommit(w, s) ==
  /\ req[w].op = "saleLocked" /\ ~Made(s)
  /\ counter = req[w].invoice - 1
  /\ Written(w, s)

\* The key is written after the commit.  The table's primary key is `key'
\* alone: a second row with the key is refused, whoever the cashier is, and
\* the sale stays.
InsertKey(w) ==
  LET r == req[w]
      row == [key |-> r.form.key, cashier |-> r.form.cashier, id |-> r.id]
  IN  /\ r.op = "insertKey"
      /\ keys' = IF \E k \in keys : k.key = row.key THEN keys ELSE keys \cup {row}
      /\ Advance(w, Idle)
      /\ UNCHANGED <<shelf, sale, books, counter, money>>

\* The process dies between the commit and the insertion of the key.
Crash(w) ==
  /\ req[w].op = "insertKey"
  /\ Advance(w, Idle)
  /\ UNCHANGED tables

-----------------------------------------------------------------------------
\* Mutant: the status is not checked.
VoidSaleAgain(w, s) ==
  /\ Made(s)
  /\ Begin(w, [op |-> "void", id |-> s])

(***************************************************************************)
(* PosVoidService.voidSale.  The status is checked before the transaction  *)
(* and not again: the transaction re-reads neither the status nor the      *)
(* returns.                                                                *)
(***************************************************************************)
VoidSale(w, s) ==
  /\ Made(s) /\ sale[s].status = "Active"
  /\ Begin(w, [op |-> "void", id |-> s])

VoidLocks(w) ==
  LET row == sale[req[w].id]
  IN  /\ req[w].op = "void"
      /\ \A p \in Items(row.form.cart) : ~StockLocked(p)
      /\ Advance(w, [op |-> "voidLocked", id |-> req[w].id,
                     left |-> [p \in Products |-> stock[p] + row.form.cart[p]],
                     balance |-> BalanceOf(row.form.customer), net |-> onAccount[req[w].id]])
      /\ UNCHANGED tables

\* The row's reversal: every unit back on the shelf, a DEBIT of the whole
\* total, the sale's credit rows reversed.
Reversed(w) ==
  LET r == req[w]
      row == sale[r.id]
  IN  /\ stock' = [p \in Products |-> IF Holds(w, p) THEN r.left[p] ELSE stock[p]]
      /\ moved' = [p \in Products |-> moved[p] + row.form.cart[p]]
      /\ sale' = [sale EXCEPT ![r.id].status = "Voided"]
      /\ posted' = [posted EXCEPT ![r.id] = @ - Size(row.form.cart)]
      /\ onAccount' = [onAccount EXCEPT ![r.id] = @ - r.net]
      /\ Advance(w, Idle)
      /\ UNCHANGED <<due, returned, counter, keys, limit, repaid>>

\* Mutant: the rows are reversed, the balance is forgotten.
VoidKeepsBalance(w) ==
  /\ req[w].op = "voidLocked"
  /\ Reversed(w)
  /\ UNCHANGED balance

VoidCommit(w) ==
  LET r == req[w]
      form == sale[r.id].form
  IN  /\ r.op = "voidLocked"
      /\ Reversed(w)
      /\ balance' = IF OnCredit(form)
                    THEN [balance EXCEPT ![form.customer] = r.balance - r.net]
                    ELSE balance

-----------------------------------------------------------------------------
(***************************************************************************)
(* ReturnsService.createReturn.  What may still come back is computed      *)
(* before the transaction, which locks the inventory and nothing else.     *)
(* `good' is restocked, `bad' is scrapped; both are refunded.              *)
(***************************************************************************)
Returnable(s, p) == sale[s].form.cart[p] - returned[s][p]

\* Mutant: earlier returns are not subtracted.
CreateReturnUnclamped(w, s, good, bad) ==
  /\ Made(s) /\ sale[s].status # "Voided"
  /\ Items(good) \cup Items(bad) # {}
  /\ \A p \in Products : good[p] + bad[p] <= sale[s].form.cart[p]
  /\ Begin(w, [op |-> "return", id |-> s, good |-> good, bad |-> bad])

CreateReturn(w, s, good, bad) ==
  /\ Made(s) /\ sale[s].status # "Voided"
  /\ Items(good) \cup Items(bad) # {}
  /\ \A p \in Products : good[p] + bad[p] <= Returnable(s, p)
  /\ Begin(w, [op |-> "return", id |-> s, good |-> good, bad |-> bad])

ReturnTransaction(w) ==
  LET r == req[w]
      back == [p \in Products |-> r.good[p] + r.bad[p]]
  IN  /\ r.op = "return"
      /\ \A p \in Items(r.good) : ~StockLocked(p)
      /\ stock' = [p \in Products |-> stock[p] + r.good[p]]
      /\ moved' = [p \in Products |-> moved[p] + r.good[p]]
      /\ returned' = [returned EXCEPT ![r.id] = [p \in Products |-> @[p] + back[p]]]
      /\ posted' = [posted EXCEPT ![r.id] = @ - Size(back)]
      /\ Advance(w, Idle)
      /\ UNCHANGED <<sale, due, onAccount, counter, keys, money>>

-----------------------------------------------------------------------------
(***************************************************************************)
(* ReceivablesService.  The customer's row and the unpaid sales are locked *)
(* and changed in one transaction, which settles the oldest sales first.   *)
(***************************************************************************)
Unpaid(c) ==
  {s \in Sales : Made(s) /\ sale[s].status = "Active" /\ sale[s].form.customer = c}

Dues(S) == SumFunctionOnSet(due, S)
Older(c, s) == {t \in Unpaid(c) : sale[t].invoice < sale[s].invoice}

\* What is left of the due of s once `amount' has settled the older sales.
DueAfter(c, s, amount) ==
  Max({0, due[s] - Max({0, amount - Dues(Older(c, s))})})

ReceivePayment(c, amount) ==
  /\ repaid[c] + amount <= MaxRepaid
  /\ balance' = [balance EXCEPT ![c] = @ - amount]
  /\ repaid' = [repaid EXCEPT ![c] = @ + amount]
  /\ due' = [s \in Sales |->
               IF s \in Unpaid(c) THEN DueAfter(c, s, amount) ELSE due[s]]
  /\ UNCHANGED <<shelf, sale, returned, posted, onAccount, counter, keys, limit, req>>

SetCreditLimit(c, l) ==
  /\ limit' = [limit EXCEPT ![c] = l]
  /\ UNCHANGED <<shelf, sale, books, counter, keys, balance, repaid, req>>

-----------------------------------------------------------------------------
\* An error, a deadlock victim or a lost connection: the transaction rolls
\* back and the request ends.
Abort(w) ==
  /\ req[w].op \in {"sale", "saleLocked", "void", "voidLocked", "return"}
  /\ Advance(w, Idle)
  /\ UNCHANGED tables

Fragments(s) == {f \in [Products -> 0 .. 1] : \A p \in Products : f[p] <= sale[s].form.cart[p]}

Request(w) ==
  /\ \/ /\ "createSale" \in Handlers
        /\ \E form \in Forms : CreateSale(w, form)
     \/ /\ "voidSale" \in Handlers
        /\ \E s \in Sales : VoidSale(w, s)
     \/ /\ "createReturn" \in Handlers
        /\ \E s \in {t \in Sales : Made(t)} :
             \E good, bad \in Fragments(s) : CreateReturn(w, s, good, bad)
  /\ UNCHANGED tables

Office ==
  /\ Accepting
  /\ \E c \in Customers :
       \/ /\ "receivePayment" \in Handlers
          /\ \E amount \in Repayments : ReceivePayment(c, amount)
       \/ /\ "setCreditLimit" \in Handlers
          /\ \E l \in Limits \cup {None} : SetCreditLimit(c, l)

Transaction(w) ==
  \/ SaleLocks(w)
  \/ \E s \in Sales : SaleCommit(w, s)
  \/ InsertKey(w)
  \/ "crash" \in Handlers /\ Crash(w)
  \/ VoidLocks(w)
  \/ VoidCommit(w)
  \/ ReturnTransaction(w)
  \/ Abort(w)

Next == Office \/ \E w \in Workers : Request(w) \/ Transaction(w)

Spec == Init /\ [][Next]_vars

-----------------------------------------------------------------------------
(***************************************************************************)
(* Properties.                                                             *)
(***************************************************************************)

\* Every row has its columns' types; above all no inventory row is ever
\* negative, although the quantity written was computed some steps earlier.
TypeOK ==
  /\ stock \in Carts
  /\ moved \in [Products -> Int]
  /\ sale \in [Sales -> SaleRow \cup {NoSale}]
  /\ due \in [Sales -> Nat]
  /\ returned \in [Sales -> Carts]
  /\ posted \in [Sales -> Int]
  /\ onAccount \in [Sales -> Int]
  /\ counter \in Nat
  /\ keys \subseteq [key : Keys, cashier : Cashiers, id : Sales]
  /\ balance \in [Customers -> Int]
  /\ limit \in [Customers -> Limits \cup {None}]
  /\ repaid \in [Customers -> Nat]
  /\ req \in [Workers -> Requests]

\* The stock journal explains the shelf: sales, voids and returns that write
\* a quantity read earlier never lose one another's update.
ShelfConservation == \A p \in Products : stock[p] = Opening[p] + moved[p]

\* Invoice numbers are the numbers 1, 2, ... of the year without a gap or a
\* repetition, whatever checkouts overlap, abort or open the year together.
InvoicesSequential ==
  /\ \A s \in Sales : Made(s) => sale[s].invoice \in 1 .. counter
  /\ \A s, t \in Sales :
       Made(s) /\ Made(t) /\ sale[s].invoice = sale[t].invoice => s = t
  /\ \A n \in 1 .. counter : \E s \in Sales : Made(s) /\ sale[s].invoice = n

\* A cashier's key makes one sale, however often the checkout is sent.
OneSalePerKey ==
  \A s, t \in Sales :
    /\ Made(s) /\ Made(t)
    /\ sale[s].form.key # None
    /\ sale[s].form.key = sale[t].form.key
    /\ sale[s].form.cashier = sale[t].form.cashier
    => s = t

\* The checkouts in flight with a key row's key and cashier, and their sales.
Trying(k) ==
  {w \in Workers : /\ req[w].op \in {"sale", "saleLocked"}
                   /\ req[w].form.key = k.key /\ req[w].form.cashier = k.cashier}

SoldWith(k) ==
  {s \in Sales : /\ Made(s)
                 /\ sale[s].form.key = k.key /\ sale[s].form.cashier = k.cashier}

\* A key on record lets no further checkout of its cashier in, whoever retries:
\* only those that had looked it up before can still sell, each of them once.
RecordedKeysAreClosed ==
  [][\A k \in keys :
       /\ k \in keys' /\ Trying(k)' \subseteq Trying(k)
       /\ \/ SoldWith(k)' = SoldWith(k)
          \/ \E w \in Trying(k) \ Trying(k)', s \in Sales :
               SoldWith(k)' = SoldWith(k) \cup {s}]_vars

\* No more comes back of a sale than was sold.
ReturnsClamped ==
  \A s \in Sales, p \in Products :
    Made(s) => returned[s][p] <= sale[s].form.cart[p]

\* users.current_balance is the sum of the customer's credit_transactions.
BalanceMatchesRows ==
  \A c \in Customers :
    balance[c] =
      SumFunctionOnSet(onAccount, {s \in Sales : Made(s) /\ sale[s].form.customer = c})
        - repaid[c]

\* A charge never leaves the customer above the limit they had when it
\* committed, however many checkouts of theirs were in flight.
ChargesWithinLimit ==
  [][\A s \in Sales :
       (/\ ~Made(s) /\ Made(s)'
        /\ sale'[s].form.customer # None
        /\ sale'[s].form.tender.credit > 0
        /\ limit[sale'[s].form.customer] # None)
       => balance'[sale'[s].form.customer] <= limit[sale'[s].form.customer]]_vars

\* The ledger entries of a sale are those its row and its returns call for:
\* the total while it is active, its reversal once when it is voided, and
\* a refund of every unit that came back.
LedgerMatchesSales ==
  \A s \in Sales :
    posted[s] = (IF Made(s) /\ sale[s].status = "Active"
                   THEN Size(sale[s].form.cart) ELSE 0) - Size(returned[s])
=============================================================================
