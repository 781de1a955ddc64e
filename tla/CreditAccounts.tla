---------------------------- MODULE CreditAccounts ----------------------------
(***************************************************************************)
(* The khata: store credit of a branch's walk-in customers.                *)
(*                                                                         *)
(* An account is named by its customer, because the unique index on        *)
(* (branch_id, phone) lets a customer have one.  A manager's handlers read *)
(* the account, check it, change the entity and save all of it, with no    *)
(* lock: two statements, hence two actions.  Tills and the repayment desk  *)
(* lock the account row from the check to the commit, so a charge and a    *)
(* repayment are one action each.                                          *)
(*                                                                         *)
(* Money is whole numbers, and every sale is made on one day, so that a    *)
(* bill's due date is the account's term.                                  *)
(***************************************************************************)
EXTENDS Integers, FiniteSets, Functions

CONSTANTS
  Accounts,            \* the branch's customers, by phone
  Sales,               \* identifiers of sales
  Workers,             \* requests in flight at the same time
  Limits, Terms,       \* credit limits and terms (days) a manager may set
  Bills,               \* the sales the tills send: part on credit, part unpaid
  Repayments,          \* amounts a customer repays
  Caps,                \* over-limit amounts a manager may authorise
  MaxRepaid,           \* bound on what one customer repays
  Handlers,            \* the manager's endpoints in use
  None                 \* SQL NULL

ASSUME AmountsAssumption ==
  /\ Limits \subseteq Nat /\ Terms \subseteq Nat /\ Caps \subseteq Nat
  /\ Repayments \subseteq Nat \ {0} /\ MaxRepaid \in Nat
ASSUME BillsAssumption == Bills \subseteq [credit : Nat \ {0}, due : Nat]
ASSUME SalesAssumption == IsFiniteSet(Sales)
ASSUME NoneAssumption == None \notin Limits \cup Terms

VARIABLES
  account,    \* the credit_accounts table
  rows,       \* sum of the account's credit_account_transactions, taken less paid
  repaid,     \* sum of those that a repayment wrote
  tokens,     \* override tokens signed and not expired
  sale,       \* the sales charged to an account
  due,        \* sales.balance_due
  onAccount,  \* the sale's own transactions, taken less paid
  req,        \* what each request in flight has read
  clobbered   \* history: the accounts saved over a newer row

books == <<rows, repaid, onAccount>>
vars == <<account, books, tokens, sale, due, req, clobbered>>

Statuses == {"PENDING", "ACTIVE", "SUSPENDED", "REJECTED", "CLOSED"}
Account == [status : Statuses, limit : Limits \cup {None},
            term : Terms \cup {None}, balance : Int]
NoAccount == [status |-> "none"]
Sale == [status : {"Active", "Voided"}, account : Accounts, credit : Nat,
         dueOn : Terms, nth : Nat]
NoSale == [status |-> "none"]
Token == [account : Accounts, cap : Caps]
Idle == [op |-> "idle"]

Requests ==
  {Idle}
    \cup [op : {"request"}, account : Accounts]
    \cup [op : {"save"}, account : Accounts, seen : Account, row : Account]
    \cup [op : {"void"}, id : Sales]
    \cup [op : {"voidLocked"}, id : Sales, net : Int]

Init ==
  /\ account = [a \in Accounts |-> NoAccount]
  /\ rows = [a \in Accounts |-> 0]
  /\ repaid = [a \in Accounts |-> 0]
  /\ tokens = {}
  /\ sale = [s \in Sales |-> NoSale]
  /\ due = [s \in Sales |-> 0]
  /\ onAccount = [s \in Sales |-> 0]
  /\ req = [w \in Workers |-> Idle]
  /\ clobbered = {}

Begin(w, r) ==
  /\ req[w] = Idle
  /\ req' = [req EXCEPT ![w] = r]

Finish(w) == req' = [req EXCEPT ![w] = Idle]

Accepting == \E w \in Workers : req[w] = Idle

-----------------------------------------------------------------------------
(***************************************************************************)
(* Enrolment and review: the handlers of the manager's screen.             *)
(***************************************************************************)

\* request: there is no account for the phone yet.
Request(w, a) ==
  /\ account[a] = NoAccount
  /\ Begin(w, [op |-> "request", account |-> a])
  /\ UNCHANGED <<account, books, tokens, sale, due, clobbered>>

\* The insert; the unique index refuses the second of two.
Enrol(w) ==
  /\ req[w].op = "request"
  /\ account' =
       IF account[req[w].account] = NoAccount
         THEN [account EXCEPT ![req[w].account] =
                [status |-> "PENDING", limit |-> None, term |-> None, balance |-> 0]]
         ELSE account
  /\ Finish(w)
  /\ UNCHANGED <<books, tokens, sale, due, clobbered>>

\* A handler that read the account in one of these statuses will save it as row.
Change(w, a, statuses, row) ==
  /\ account[a].status \in statuses
  /\ Begin(w, [op |-> "save", account |-> a, seen |-> account[a], row |-> row])
  /\ UNCHANGED <<account, books, tokens, sale, due, clobbered>>

\* Mutant: a closed account can be approved again.
ApproveClosed(w, a, limit, term) ==
  /\ "approve" \in Handlers
  /\ Change(w, a, {"PENDING", "SUSPENDED", "CLOSED"},
            [account[a] EXCEPT !.status = "ACTIVE", !.limit = limit, !.term = term])

Approve(w, a, limit, term) ==
  /\ "approve" \in Handlers
  /\ Change(w, a, {"PENDING", "SUSPENDED"},
            [account[a] EXCEPT !.status = "ACTIVE", !.limit = limit, !.term = term])

Reject(w, a) ==
  /\ "reject" \in Handlers
  /\ Change(w, a, {"PENDING"}, [account[a] EXCEPT !.status = "REJECTED"])

Suspend(w, a) ==
  /\ "suspend" \in Handlers
  /\ Change(w, a, {"ACTIVE"}, [account[a] EXCEPT !.status = "SUSPENDED"])

Close(w, a) ==
  /\ "close" \in Handlers
  /\ Change(w, a, {"ACTIVE", "SUSPENDED", "REJECTED"},
            [account[a] EXCEPT !.status = "CLOSED"])

\* update: either field may be left as it is.
Update(w, a, limit, term) ==
  /\ "update" \in Handlers
  /\ Change(w, a, {"ACTIVE", "SUSPENDED"},
            [account[a] EXCEPT !.limit = limit, !.term = term])

\* repository.save: every column the entity changes, and every one that has
\* changed in the table since it was read, becomes the entity's.
Save(w) ==
  /\ req[w].op = "save"
  /\ account' = [account EXCEPT ![req[w].account] = req[w].row]
  /\ clobbered' =
       IF account[req[w].account] = req[w].seen
         THEN clobbered ELSE clobbered \cup {req[w].account}
  /\ Finish(w)
  /\ UNCHANGED <<books, tokens, sale, due>>

-----------------------------------------------------------------------------
(***************************************************************************)
(* The till: prepareCharge, the sale and commitChargeWithManager.          *)
(***************************************************************************)

\* authorizeOverride signs a token; whatever the account's status is.
Authorise(a, cap) ==
  /\ Accepting
  /\ account[a] # NoAccount
  /\ tokens' = tokens \cup {[account |-> a, cap |-> cap]}
  /\ UNCHANGED <<account, books, sale, due, req, clobbered>>

Expire(t) ==
  /\ tokens' = tokens \ {t}
  /\ UNCHANGED <<account, books, sale, due, req, clobbered>>

WithinLimit(a, amount) ==
  account[a].limit # None => account[a].balance + amount <= account[a].limit

\* A token is good for any number of charges until it expires.
Overridden(a, amount) ==
  \E t \in tokens : t.account = a /\ t.cap >= amount

Charge(s, a, bill) ==
  /\ Accepting
  /\ sale[s] = NoSale
  /\ account[a].status = "ACTIVE"
  /\ WithinLimit(a, bill.credit) \/ Overridden(a, bill.credit)
  /\ sale' = [sale EXCEPT ![s] =
       [status |-> "Active", account |-> a, credit |-> bill.credit,
        dueOn |-> account[a].term,
        nth |-> Cardinality({t \in Sales : sale[t] # NoSale})]]
  /\ due' = [due EXCEPT ![s] = bill.due]
  /\ onAccount' = [onAccount EXCEPT ![s] = bill.credit]
  /\ rows' = [rows EXCEPT ![a] = @ + bill.credit]
  /\ account' = [account EXCEPT ![a].balance = @ + bill.credit]
  /\ UNCHANGED <<repaid, tokens, req, clobbered>>

-----------------------------------------------------------------------------
(***************************************************************************)
(* The repayment desk.  receivePayment credits the whole amount to the     *)
(* account and settles the account's bills with it, the first due first.   *)
(***************************************************************************)

\* Mutant: the bills are settled in the order they were made.
MadeBefore(s, t) == sale[s].nth < sale[t].nth

\* ORDER BY due_date, created_at
Before(s, t) ==
  \/ sale[s].dueOn < sale[t].dueOn
  \/ sale[s].dueOn = sale[t].dueOn /\ sale[s].nth < sale[t].nth

Unpaid(a) ==
  {s \in Sales : sale[s].status = "Active" /\ sale[s].account = a /\ due[s] > 0}

\* allocateFifo: the bill is paid from what the ones before it leave.
Owed(a, amount, s) ==
  LET left == amount - SumFunctionOnSet(due, {t \in Unpaid(a) : Before(t, s)})
  IN CASE left <= 0      -> due[s]
       [] left >= due[s] -> 0
       [] OTHER          -> due[s] - left

\* Mutant: a repayment pays the account down to zero and no further.
ReceivePaymentFloored(a, amount) ==
  /\ Accepting
  /\ account[a].status \in {"ACTIVE", "SUSPENDED", "CLOSED"}
  /\ repaid[a] + amount <= MaxRepaid
  /\ repaid' = [repaid EXCEPT ![a] = @ + amount]
  /\ rows' = [rows EXCEPT ![a] = @ - amount]
  /\ account' = [account EXCEPT ![a].balance = IF @ < amount THEN 0 ELSE @ - amount]
  /\ due' = [s \in Sales |-> IF s \in Unpaid(a) THEN Owed(a, amount, s) ELSE due[s]]
  /\ UNCHANGED <<onAccount, tokens, sale, req, clobbered>>

ReceivePayment(a, amount) ==
  /\ Accepting
  /\ account[a].status \in {"ACTIVE", "SUSPENDED", "CLOSED"}
  /\ repaid[a] + amount <= MaxRepaid
  /\ repaid' = [repaid EXCEPT ![a] = @ + amount]
  /\ rows' = [rows EXCEPT ![a] = @ - amount]
  /\ account' = [account EXCEPT ![a].balance = @ - amount]
  /\ due' = [s \in Sales |-> IF s \in Unpaid(a) THEN Owed(a, amount, s) ELSE due[s]]
  /\ UNCHANGED <<onAccount, tokens, sale, req, clobbered>>

-----------------------------------------------------------------------------
(***************************************************************************)
(* Void.  The sale's status is read before the transaction, and its rows   *)
(* on another connection, after the transaction has locked the inventory   *)
(* of its items: two voids of a sale meet at that lock.                    *)
(***************************************************************************)

\* Mutant: nothing keeps two voids of a sale apart.
NeverLocked(s) == FALSE

Locked(s) == \E w \in Workers : req[w].op = "voidLocked" /\ req[w].id = s

Void(w, s) ==
  /\ sale[s].status = "Active"
  /\ Begin(w, [op |-> "void", id |-> s])
  /\ UNCHANGED <<account, books, tokens, sale, due, clobbered>>

\* restockInventory, then findBySaleId
VoidLock(w) ==
  /\ req[w].op = "void"
  /\ ~Locked(req[w].id)
  /\ req' = [req EXCEPT ![w] =
       [op |-> "voidLocked", id |-> req[w].id, net |-> onAccount[req[w].id]]]
  /\ UNCHANGED <<account, books, tokens, sale, due, clobbered>>

\* Each row read is reversed, the account's row locked meanwhile.
VoidCommit(w) ==
  /\ req[w].op = "voidLocked"
  /\ LET s == req[w].id
         a == sale[s].account
     IN /\ account' = [account EXCEPT ![a].balance = @ - req[w].net]
        /\ rows' = [rows EXCEPT ![a] = @ - req[w].net]
        /\ onAccount' = [onAccount EXCEPT ![s] = @ - req[w].net]
        /\ sale' = [sale EXCEPT ![s].status = "Voided"]
  /\ Finish(w)
  /\ UNCHANGED <<repaid, tokens, due, clobbered>>

-----------------------------------------------------------------------------
Review(w, a) ==
  \/ Request(w, a)
  \/ \E limit \in Limits, term \in Terms : Approve(w, a, limit, term)
  \/ Reject(w, a)
  \/ Suspend(w, a)
  \/ Close(w, a)
  \/ \E limit \in Limits, term \in Terms : Update(w, a, limit, term)

Next ==
  \/ \E w \in Workers, a \in Accounts : Review(w, a)
  \/ \E w \in Workers : Enrol(w) \/ Save(w) \/ VoidLock(w) \/ VoidCommit(w)
  \/ \E w \in Workers, s \in Sales : Void(w, s)
  \/ \E a \in Accounts, cap \in Caps : Authorise(a, cap)
  \/ \E t \in tokens : Expire(t)
  \/ \E s \in Sales, a \in Accounts, bill \in Bills : Charge(s, a, bill)
  \/ \E a \in Accounts, amount \in Repayments : ReceivePayment(a, amount)

Spec == Init /\ [][Next]_vars

-----------------------------------------------------------------------------
TypeOK ==
  /\ account \in [Accounts -> Account \cup {NoAccount}]
  /\ rows \in [Accounts -> Int]
  /\ repaid \in [Accounts -> 0 .. MaxRepaid]
  /\ tokens \subseteq Token
  /\ sale \in [Sales -> Sale \cup {NoSale}]
  /\ due \in [Sales -> Nat]
  /\ onAccount \in [Sales -> Int]
  /\ req \in [Workers -> Requests]
  /\ clobbered \subseteq Accounts

\* What an account owes is what its transactions say, through charges over
\* the limit, repayments beyond the balance and voids that overlap both; only
\* a manager's save over a newer row breaks it.
RowsExplainBalance ==
  \A a \in Accounts \ clobbered :
    account[a] # NoAccount => account[a].balance = rows[a]

\* A voided sale's charge is taken back once: two managers voiding it at the
\* same time do not pay the customer.
VoidedOwesNothing ==
  \A s \in Sales :
    sale[s] # NoSale =>
      onAccount[s] = IF sale[s].status = "Voided" THEN 0 ELSE sale[s].credit

\* CLOSED is the end of an account, whatever handlers overlap, unless one of
\* them saves the row it read before the closing.
ClosedUnlessClobbered ==
  [][\A a \in Accounts :
       account[a].status = "CLOSED" /\ a \notin clobbered' =>
         account'[a].status = "CLOSED"]_vars

\* A repayment leaves no older debt behind: while a bill has something due, no
\* bill of the account that falls due after it is paid.
OldestFirst ==
  [][\A a \in Accounts : \A s, t \in Unpaid(a) :
       /\ sale[s].dueOn <= sale[t].dueOn
       /\ sale[s].dueOn = sale[t].dueOn => sale[s].nth < sale[t].nth
       /\ due'[s] > 0
       => due'[t] = due[t]]_vars
=============================================================================
