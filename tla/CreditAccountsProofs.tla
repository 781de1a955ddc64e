------------------------ MODULE CreditAccountsProofs ------------------------
(***************************************************************************)
(* Theorems about CreditAccounts, for any numbers of customers, sales and  *)
(* requests in flight, and any limits, terms, bills and repayments.        *)
(***************************************************************************)
EXTENDS CreditAccounts, SumTheorems

-----------------------------------------------------------------------------
(***************************************************************************)
(* The inductive invariant.                                                *)
(***************************************************************************)

\* An account that was approved has a limit and a term.
Approved(row) ==
  row.status \in {"ACTIVE", "SUSPENDED"} => row.limit # None /\ row.term # None

\* What a request will write.  A save keeps the balance that it read, and is
\* never of a closed account; a void that holds its lock has read what the
\* sale owes now.
ReqOK(r) ==
  /\ r.op = "save" => /\ r.row.balance = r.seen.balance
                      /\ r.seen.status # "CLOSED"
                      /\ Approved(r.row)
  /\ r.op \in {"void", "voidLocked"} => sale[r.id] # NoSale
  /\ r.op = "voidLocked" => r.net = onAccount[r.id]

ReqsOK == \A w \in Workers : ReqOK(req[w])

\* Two voids of a sale never both hold its lock.
OneVoid ==
  \A v, w \in Workers :
    /\ req[v].op = "voidLocked" /\ req[w].op = "voidLocked"
    /\ req[v].id = req[w].id
    => v = w

\* An account that is not there has no transactions and no sales.
AccountsOK ==
  /\ \A a \in Accounts : Approved(account[a]) /\ (account[a] = NoAccount => rows[a] = 0)
  /\ \A s \in Sales : sale[s] # NoSale => account[sale[s].account] # NoAccount

IInv ==
  /\ TypeOK
  /\ ReqsOK
  /\ OneVoid
  /\ AccountsOK
  /\ RowsExplainBalance
  /\ VoidedOwesNothing

-----------------------------------------------------------------------------
(***************************************************************************)
(* The rows of the tables.                                                 *)
(***************************************************************************)
LEMMA AccountFields ==
  ASSUME NEW r, r \in Account \cup {NoAccount}
  PROVE  /\ r # NoAccount => /\ r \in Account
                             /\ r.status \in Statuses
                             /\ r.limit \in Limits \cup {None}
                             /\ r.term \in Terms \cup {None}
                             /\ r.balance \in Int
         /\ r.status \in Statuses => r # NoAccount
BY DEF Account, NoAccount, Statuses

LEMMA SaleFields ==
  ASSUME NEW r, r \in Sale \cup {NoSale}
  PROVE  /\ r # NoSale => /\ r \in Sale
                          /\ r.status \in {"Active", "Voided"}
                          /\ r.account \in Accounts
                          /\ r.credit \in Nat
                          /\ r.dueOn \in Nat
                          /\ r.nth \in Nat
         /\ r.status \in {"Active", "Voided"} => r # NoSale
<1>1. Terms \subseteq Nat
  BY AmountsAssumption
<1>2. r.status \in {"Active", "Voided"} => r # NoSale
  BY DEF NoSale
<1>3. r \in Sale => /\ r.status \in {"Active", "Voided"}
                    /\ r.account \in Accounts
                    /\ r.credit \in Nat
                    /\ r.dueOn \in Terms
                    /\ r.nth \in Nat
  BY DEF Sale
<1>4. QED
  BY <1>1, <1>2, <1>3

LEMMA ReqFields ==
  ASSUME NEW r \in Requests
  PROVE  /\ r.op \in {"request", "save"} => r.account \in Accounts
         /\ r.op = "save" => r.seen \in Account /\ r.row \in Account
         /\ r.op \in {"void", "voidLocked"} => r.id \in Sales
         /\ r.op = "voidLocked" => r.net \in Int
BY DEF Requests, Idle

LEMMA IdleOK == Idle \in Requests /\ ReqOK(Idle) /\ Idle.op = "idle"
BY DEF Idle, Requests, ReqOK

LEMMA NoAccountFields == NoAccount.status = "none" /\ Approved(NoAccount)
BY DEF NoAccount, Approved

-----------------------------------------------------------------------------
(***************************************************************************)
(* The steps.                                                              *)
(***************************************************************************)
LEMMA InitIInv == Init => IInv
<1> SUFFICES ASSUME Init PROVE IInv
  OBVIOUS
<1>1. TypeOK
  BY AmountsAssumption DEF Init, TypeOK, Requests, Idle
<1>2. ReqsOK /\ OneVoid
  BY IdleOK DEF Init, ReqsOK, OneVoid
<1>3. AccountsOK /\ RowsExplainBalance /\ VoidedOwesNothing
  BY NoAccountFields, SMT DEF Init, AccountsOK, RowsExplainBalance, VoidedOwesNothing
<1>4. QED
  BY <1>1, <1>2, <1>3 DEF IInv

\* A step that writes nothing but its own request, and takes no lock.
LEMMA RequestStep ==
  ASSUME IInv, UNCHANGED <<account, books, sale, due, clobbered>>, tokens' \subseteq Token,
         NEW w \in Workers, NEW r \in Requests, ReqOK(r), r.op # "voidLocked",
         req' = [req EXCEPT ![w] = r]
  PROVE  IInv'
<1>1. UNCHANGED <<account, rows, repaid, onAccount, sale, due, clobbered>>
  BY DEF books
<1>2. TypeOK'
  BY <1>1 DEF IInv, TypeOK
<1>3. ReqsOK'
  BY <1>1 DEF IInv, TypeOK, ReqsOK, ReqOK
<1>4. OneVoid'
  BY DEF IInv, TypeOK, OneVoid
<1>5. AccountsOK' /\ RowsExplainBalance' /\ VoidedOwesNothing'
  BY <1>1 DEF IInv, AccountsOK, RowsExplainBalance, VoidedOwesNothing
<1>6. QED
  BY <1>2, <1>3, <1>4, <1>5 DEF IInv

LEMMA TokensStep ==
  ASSUME IInv, UNCHANGED <<account, books, sale, due, req, clobbered>>, tokens' \subseteq Token
  PROVE  IInv'
<1>1. UNCHANGED <<account, rows, repaid, onAccount, sale, due, req, clobbered>>
  BY DEF books
<1>2. TypeOK'
  BY <1>1 DEF IInv, TypeOK
<1>3. ReqsOK' /\ OneVoid'
  BY <1>1 DEF IInv, ReqsOK, ReqOK, OneVoid
<1>4. AccountsOK' /\ RowsExplainBalance' /\ VoidedOwesNothing'
  BY <1>1 DEF IInv, AccountsOK, RowsExplainBalance, VoidedOwesNothing
<1>5. QED
  BY <1>2, <1>3, <1>4 DEF IInv

\* A handler's row differs from the one it read in its status and its terms.
LEMMA ChangeStep ==
  ASSUME IInv, NEW w \in Workers, NEW a \in Accounts, NEW statuses, NEW row \in Account,
         Change(w, a, statuses, row), statuses \subseteq Statuses \ {"CLOSED"},
         row.balance = account[a].balance, Approved(row)
  PROVE  IInv'
<1> DEFINE r == [op |-> "save", account |-> a, seen |-> account[a], row |-> row]
<1>1. account[a].status \in statuses /\ account[a] \in Account \cup {NoAccount}
  BY DEF Change, IInv, TypeOK
<1>2. account[a] \in Account
  BY <1>1, AccountFields
<1>3. r \in Requests /\ ReqOK(r) /\ r.op # "voidLocked"
  BY <1>1, <1>2 DEF Requests, ReqOK
<1>4. /\ req' = [req EXCEPT ![w] = r]
      /\ UNCHANGED <<account, books, tokens, sale, due, clobbered>>
  BY DEF Change, Begin
<1>5. tokens' \subseteq Token
  BY <1>4 DEF IInv, TypeOK
<1> HIDE DEF r
<1>6. QED
  BY <1>3, <1>4, <1>5, RequestStep

LEMMA ReviewStep ==
  ASSUME IInv, NEW w \in Workers, NEW a \in Accounts, Review(w, a)
  PROVE  IInv'
<1>1. account[a] \in Account \cup {NoAccount} /\ Approved(account[a])
  BY DEF IInv, TypeOK, AccountsOK
<1>2. account[a].status \in Statuses => account[a] \in Account
  BY <1>1, AccountFields
<1>3. CASE Request(w, a)
  <2> DEFINE r == [op |-> "request", account |-> a]
  <2>1. r \in Requests /\ ReqOK(r) /\ r.op # "voidLocked"
    BY DEF Requests, ReqOK
  <2>2. tokens' \subseteq Token
    BY <1>3 DEF Request, IInv, TypeOK
  <2>3. QED
    BY <1>3, <2>1, <2>2, RequestStep DEF Request, Begin
<1>4. ASSUME NEW statuses, NEW status \in Statuses,
             statuses \subseteq Statuses \ {"CLOSED"},
             status = "SUSPENDED" => statuses = {"ACTIVE"},
             status # "ACTIVE",
             Change(w, a, statuses, [account[a] EXCEPT !.status = status])
      PROVE  IInv'
  <2> DEFINE row == [account[a] EXCEPT !.status = status]
  <2>1. account[a] \in Account /\ account[a].status \in statuses
    BY <1>2, <1>4 DEF Change
  <2>2. row \in Account /\ row.balance = account[a].balance /\ Approved(row)
    BY <1>1, <1>4, <2>1 DEF Account, Approved
  <2> HIDE DEF row
  <2>3. QED
    BY <1>4, <2>2, ChangeStep DEF row
<1>5. CASE \E limit \in Limits, term \in Terms : Approve(w, a, limit, term)
  <2>1. PICK limit \in Limits, term \in Terms : Approve(w, a, limit, term)
    BY <1>5
  <2> DEFINE row == [account[a] EXCEPT !.status = "ACTIVE", !.limit = limit, !.term = term]
  <2>2. Change(w, a, {"PENDING", "SUSPENDED"}, row)
    BY <2>1 DEF Approve
  <2>3. account[a] \in Account
    BY <1>2, <2>2 DEF Change, Statuses
  <2>4. row \in Account /\ row.balance = account[a].balance /\ Approved(row)
    BY <2>3, NoneAssumption DEF Account, Approved, Statuses
  <2> HIDE DEF row
  <2>5. QED
    BY <2>2, <2>4, ChangeStep DEF Statuses
<1>6. CASE \E limit \in Limits, term \in Terms : Update(w, a, limit, term)
  <2>1. PICK limit \in Limits, term \in Terms : Update(w, a, limit, term)
    BY <1>6
  <2> DEFINE row == [account[a] EXCEPT !.limit = limit, !.term = term]
  <2>2. Change(w, a, {"ACTIVE", "SUSPENDED"}, row)
    BY <2>1 DEF Update
  <2>3. account[a] \in Account
    BY <1>2, <2>2 DEF Change, Statuses
  <2>4. row \in Account /\ row.balance = account[a].balance /\ Approved(row)
    BY <2>3, NoneAssumption DEF Account, Approved
  <2> HIDE DEF row
  <2>5. QED
    BY <2>2, <2>4, ChangeStep DEF Statuses
<1>7. CASE Reject(w, a)
  BY <1>7, <1>4 DEF Reject, Statuses
<1>8. CASE Suspend(w, a)
  BY <1>8, <1>4 DEF Suspend, Statuses
<1>9. CASE Close(w, a)
  BY <1>9, <1>4 DEF Close, Statuses
<1>10. QED
  BY <1>3, <1>5, <1>6, <1>7, <1>8, <1>9 DEF Review

LEMMA EnrolStep ==
  ASSUME IInv, NEW w \in Workers, Enrol(w)
  PROVE  IInv'
<1> DEFINE a == req[w].account
           new == [status |-> "PENDING", limit |-> None, term |-> None, balance |-> 0]
<1>1. /\ req' = [req EXCEPT ![w] = Idle]
      /\ UNCHANGED <<rows, repaid, onAccount, tokens, sale, due, clobbered>>
      /\ account' = IF account[a] = NoAccount THEN [account EXCEPT ![a] = new] ELSE account
  BY DEF Enrol, Finish, books
<1>2. a \in Accounts
  BY ReqFields DEF Enrol, IInv, TypeOK
<1>3. new \in Account /\ new # NoAccount /\ Approved(new) /\ new.balance = 0
  BY DEF Account, NoAccount, Statuses, Approved
<1> HIDE DEF new, a
<1>4. /\ account' \in [Accounts -> Account \cup {NoAccount}]
      /\ \A b \in Accounts : \/ account'[b] = account[b]
                             \/ b = a /\ account[b] = NoAccount /\ account'[b] = new
  BY <1>1, <1>2, <1>3 DEF IInv, TypeOK
<1>5. TypeOK'
  BY <1>1, <1>4, IdleOK DEF IInv, TypeOK
<1>6. ReqsOK' /\ OneVoid'
  BY <1>1, IdleOK DEF IInv, TypeOK, ReqsOK, ReqOK, OneVoid
<1>7. AccountsOK'
  <2>1. \A b \in Accounts : Approved(account'[b]) /\ (account'[b] = NoAccount => rows'[b] = 0)
    BY <1>1, <1>3, <1>4 DEF IInv, AccountsOK
  <2>2. \A s \in Sales : sale'[s] # NoSale => account'[sale'[s].account] # NoAccount
    BY <1>1, <1>3, <1>4, SaleFields DEF IInv, AccountsOK, TypeOK
  <2>3. QED
    BY <2>1, <2>2 DEF AccountsOK, Approved
<1>8. RowsExplainBalance'
  BY <1>1, <1>3, <1>4 DEF IInv, AccountsOK, RowsExplainBalance
<1>9. VoidedOwesNothing'
  BY <1>1 DEF IInv, VoidedOwesNothing
<1>10. QED
  BY <1>5, <1>6, <1>7, <1>8, <1>9 DEF IInv

\* The save of the row that a handler read, over whatever the row is now.
LEMMA SaveStep ==
  ASSUME IInv, NEW w \in Workers, Save(w)
  PROVE  IInv'
<1> DEFINE a == req[w].account
           row == req[w].row
           seen == req[w].seen
<1>1. /\ req' = [req EXCEPT ![w] = Idle]
      /\ UNCHANGED <<rows, repaid, onAccount, tokens, sale, due>>
      /\ account' = [account EXCEPT ![a] = row]
      /\ clobbered' = IF account[a] = seen THEN clobbered ELSE clobbered \cup {a}
  BY DEF Save, Finish, books
<1>2. /\ a \in Accounts /\ row \in Account /\ seen \in Account
      /\ row.balance = seen.balance /\ Approved(row)
  BY ReqFields DEF Save, IInv, TypeOK, ReqsOK, ReqOK
<1>3. row # NoAccount /\ seen # NoAccount
  BY <1>2, AccountFields DEF Account, NoAccount, Statuses
<1> HIDE DEF a, row, seen
<1>4. /\ account' \in [Accounts -> Account \cup {NoAccount}]
      /\ account'[a] = row
      /\ \A b \in Accounts : b # a => account'[b] = account[b]
  BY <1>1, <1>2 DEF IInv, TypeOK
<1>5. TypeOK'
  BY <1>1, <1>2, <1>4, IdleOK DEF IInv, TypeOK
<1>6. ReqsOK' /\ OneVoid'
  BY <1>1, IdleOK DEF IInv, TypeOK, ReqsOK, ReqOK, OneVoid
<1>7. AccountsOK'
  <2>1. \A b \in Accounts : Approved(account'[b]) /\ (account'[b] = NoAccount => rows'[b] = 0)
    BY <1>1, <1>2, <1>3, <1>4 DEF IInv, AccountsOK
  <2>2. \A s \in Sales : sale'[s] # NoSale => account'[sale'[s].account] # NoAccount
    BY <1>1, <1>3, <1>4, SaleFields DEF IInv, AccountsOK, TypeOK
  <2>3. QED
    BY <2>1, <2>2 DEF AccountsOK, Approved
<1>8. RowsExplainBalance'
  <2> SUFFICES ASSUME NEW b \in Accounts, b \notin clobbered', account'[b] # NoAccount
               PROVE  account'[b].balance = rows'[b]
    BY DEF RowsExplainBalance
  <2>1. b \notin clobbered
    BY <1>1
  <2>2. CASE b = a
    <3>1. account[a] = seen
      BY <1>1, <2>2
    <3>2. QED
      BY <1>1, <1>2, <1>3, <1>4, <2>1, <2>2, <3>1 DEF IInv, RowsExplainBalance
  <2>3. CASE b # a
    BY <1>1, <1>4, <2>1, <2>3 DEF IInv, RowsExplainBalance
  <2>4. QED
    BY <2>2, <2>3
<1>9. VoidedOwesNothing'
  BY <1>1 DEF IInv, VoidedOwesNothing
<1>10. QED
  BY <1>5, <1>6, <1>7, <1>8, <1>9 DEF IInv

\* A transaction of n on the account, with the account's row locked.
Posts(a, n) ==
  /\ account' = [account EXCEPT ![a].balance = @ + n]
  /\ rows' = [rows EXCEPT ![a] = @ + n]

LEMMA PostingStep ==
  ASSUME IInv, NEW a \in Accounts, account[a] # NoAccount, NEW n \in Int,
         Posts(a, n), clobbered' = clobbered
  PROVE  /\ account' \in [Accounts -> Account \cup {NoAccount}]
         /\ rows' \in [Accounts -> Int]
         /\ \A b \in Accounts :
              /\ account'[b] = NoAccount <=> account[b] = NoAccount
              /\ account'[b].status = account[b].status
              /\ Approved(account'[b])
              /\ account'[b] = NoAccount => rows'[b] = 0
         /\ RowsExplainBalance'
<1> DEFINE new == [account[a] EXCEPT !.balance = @ + n]
<1>1. account[a] \in Account /\ account[a].balance \in Int /\ rows[a] \in Int
      /\ Approved(account[a])
  BY AccountFields DEF IInv, TypeOK, AccountsOK
<1>2. /\ new \in Account /\ new.balance = account[a].balance + n
      /\ new.status = account[a].status /\ new.limit = account[a].limit
      /\ new.term = account[a].term
  BY <1>1 DEF Account
<1>3. account' = [account EXCEPT ![a] = new] /\ rows' = [rows EXCEPT ![a] = @ + n]
  BY DEF Posts
<1>4. new # NoAccount /\ Approved(new)
  BY <1>1, <1>2, AccountFields DEF Approved, NoAccount, Account, Statuses
<1> HIDE DEF new
<1>5. /\ account' \in [Accounts -> Account \cup {NoAccount}]
      /\ rows' \in [Accounts -> Int]
      /\ account'[a] = new /\ rows'[a] = rows[a] + n
      /\ \A b \in Accounts : b # a => account'[b] = account[b] /\ rows'[b] = rows[b]
  BY <1>2, <1>3 DEF IInv, TypeOK
<1>6. \A b \in Accounts :
         /\ account'[b] = NoAccount <=> account[b] = NoAccount
         /\ account'[b].status = account[b].status
         /\ Approved(account'[b])
         /\ account'[b] = NoAccount => rows'[b] = 0
  BY <1>2, <1>4, <1>5 DEF IInv, AccountsOK
<1>7. RowsExplainBalance'
  <2> SUFFICES ASSUME NEW b \in Accounts, b \notin clobbered, account'[b] # NoAccount
               PROVE  account'[b].balance = rows'[b]
    BY DEF RowsExplainBalance
  <2>1. CASE b = a
    BY <2>1, <1>1, <1>2, <1>5 DEF IInv, RowsExplainBalance
  <2>2. CASE b # a
    BY <2>2, <1>5 DEF IInv, RowsExplainBalance
  <2>3. QED
    BY <2>1, <2>2
<1>8. QED
  BY <1>5, <1>6, <1>7

\* A void that takes no lock reads the sale's status; one that takes it, its
\* transactions.
LEMMA VoidStep ==
  ASSUME IInv, NEW w \in Workers, NEW s \in Sales, Void(w, s)
  PROVE  IInv'
<1> DEFINE r == [op |-> "void", id |-> s]
<1>1. sale[s] # NoSale
  BY SaleFields DEF Void, IInv, TypeOK
<1>2. r \in Requests /\ ReqOK(r) /\ r.op # "voidLocked"
  BY <1>1 DEF Requests, ReqOK
<1>3. /\ req' = [req EXCEPT ![w] = r] /\ tokens' \subseteq Token
      /\ UNCHANGED <<account, books, sale, due, clobbered>>
  BY DEF Void, Begin, IInv, TypeOK
<1> HIDE DEF r
<1>4. QED
  BY <1>2, <1>3, RequestStep

LEMMA VoidLockStep ==
  ASSUME IInv, NEW w \in Workers, VoidLock(w)
  PROVE  IInv'
<1> DEFINE s == req[w].id
           r == [op |-> "voidLocked", id |-> s, net |-> onAccount[s]]
<1>1. /\ req' = [req EXCEPT ![w] = r]
      /\ UNCHANGED <<account, rows, repaid, onAccount, tokens, sale, due, clobbered>>
      /\ \A v \in Workers : req[v].op = "voidLocked" => req[v].id # s
  BY DEF VoidLock, books, Locked
<1>2. s \in Sales /\ sale[s] # NoSale
  BY ReqFields DEF VoidLock, IInv, TypeOK, ReqsOK, ReqOK
<1>3. r \in Requests /\ ReqOK(r) /\ r.op = "voidLocked" /\ r.id = s
  BY <1>2 DEF Requests, ReqOK, IInv, TypeOK
<1> HIDE DEF r, s
<1>4. TypeOK'
  BY <1>1, <1>3 DEF IInv, TypeOK
<1>5. ReqsOK'
  BY <1>1, <1>3 DEF IInv, TypeOK, ReqsOK, ReqOK
<1>6. OneVoid'
  BY <1>1, <1>3 DEF IInv, TypeOK, OneVoid
<1>7. AccountsOK' /\ RowsExplainBalance' /\ VoidedOwesNothing'
  BY <1>1 DEF IInv, AccountsOK, RowsExplainBalance, VoidedOwesNothing
<1>8. QED
  BY <1>4, <1>5, <1>6, <1>7 DEF IInv

LEMMA VoidCommitStep ==
  ASSUME IInv, NEW w \in Workers, VoidCommit(w)
  PROVE  IInv'
<1> DEFINE s == req[w].id
           a == sale[s].account
           net == req[w].net
           new == [sale[s] EXCEPT !.status = "Voided"]
<1>1. /\ req' = [req EXCEPT ![w] = Idle]
      /\ account' = [account EXCEPT ![a].balance = @ - net]
      /\ rows' = [rows EXCEPT ![a] = @ - net]
      /\ onAccount' = [onAccount EXCEPT ![s] = @ - net]
      /\ sale' = [sale EXCEPT ![s].status = "Voided"]
      /\ UNCHANGED <<repaid, tokens, due, clobbered>>
      /\ req[w].op = "voidLocked"
  BY DEF VoidCommit, Finish
<1>2. s \in Sales /\ sale[s] # NoSale /\ net = onAccount[s] /\ net \in Int
  BY <1>1, ReqFields DEF IInv, TypeOK, ReqsOK, ReqOK
<1>3. a \in Accounts /\ account[a] # NoAccount /\ sale[s] \in Sale
  BY <1>2, SaleFields DEF IInv, TypeOK, AccountsOK
<1>4. new \in Sale /\ new.status = "Voided" /\ new.account = a /\ new # NoSale
  BY <1>3 DEF Sale, NoSale
<1>5. sale' = [sale EXCEPT ![s] = new]
  BY <1>1
<1>6. Posts(a, -net)
  <2>1. account[a].balance - net = account[a].balance + (-net) /\ rows[a] - net = rows[a] + (-net)
    BY <1>2, <1>3, AccountFields DEF IInv, TypeOK
  <2>2. QED
    BY <1>1, <2>1 DEF Posts
<1>7. onAccount' \in [Sales -> Int] /\ onAccount'[s] = 0
      /\ \A t \in Sales : t # s => onAccount'[t] = onAccount[t]
  BY <1>1, <1>2 DEF IInv, TypeOK
<1>8. /\ sale' \in [Sales -> Sale \cup {NoSale}]
      /\ sale'[s] = new
      /\ \A t \in Sales : t # s => sale'[t] = sale[t]
  BY <1>2, <1>4, <1>5 DEF IInv, TypeOK
<1> HIDE DEF new, net, a, s
<1>9. /\ account' \in [Accounts -> Account \cup {NoAccount}]
      /\ rows' \in [Accounts -> Int]
      /\ \A b \in Accounts : /\ account'[b] = NoAccount <=> account[b] = NoAccount
                             /\ Approved(account'[b])
                             /\ account'[b] = NoAccount => rows'[b] = 0
      /\ RowsExplainBalance'
  <2>1. -net \in Int
    BY <1>2
  <2>2. QED
    BY <1>1, <1>3, <1>6, <2>1, PostingStep
<1>10. TypeOK'
  BY <1>1, <1>7, <1>8, <1>9, IdleOK DEF IInv, TypeOK
<1>11. ASSUME NEW v \in Workers PROVE ReqOK(req[v])'
  <2>1. CASE v = w
    BY <2>1, <1>1, IdleOK DEF IInv, TypeOK, ReqOK
  <2>2. CASE v # w
    <3>1. req'[v] = req[v] /\ ReqOK(req[v])
      BY <1>1, <2>2 DEF IInv, TypeOK, ReqsOK
    <3>2. req[v].op = "voidLocked" => req[v].id # s
      BY <1>1, <2>2 DEF IInv, OneVoid, s
    <3>3. req[v].op \in {"void", "voidLocked"} => req[v].id \in Sales
      BY ReqFields DEF IInv, TypeOK
    <3>4. QED
      BY <3>1, <3>2, <3>3, <1>4, <1>7, <1>8 DEF ReqOK
  <2>3. QED
    BY <2>1, <2>2
<1>12. OneVoid'
  BY <1>1, IdleOK DEF IInv, TypeOK, OneVoid
<1>13. AccountsOK'
  <2>1. \A t \in Sales : sale'[t] # NoSale => account'[sale'[t].account] # NoAccount
    BY <1>2, <1>3, <1>4, <1>8, <1>9, SaleFields DEF IInv, AccountsOK, TypeOK
  <2>2. QED
    BY <2>1, <1>9 DEF AccountsOK, Approved
<1>14. VoidedOwesNothing'
  BY <1>4, <1>7, <1>8 DEF IInv, VoidedOwesNothing
<1>15. QED
  BY <1>9, <1>10, <1>11, <1>12, <1>13, <1>14 DEF IInv, ReqsOK

LEMMA ChargeStep ==
  ASSUME IInv, NEW s \in Sales, NEW a \in Accounts, NEW bill \in Bills, Charge(s, a, bill)
  PROVE  IInv'
<1> DEFINE n == Cardinality({t \in Sales : sale[t] # NoSale})
           new == [status |-> "Active", account |-> a, credit |-> bill.credit,
                   dueOn |-> account[a].term, nth |-> n]
<1>1. /\ sale[s] = NoSale
      /\ account[a].status = "ACTIVE"
      /\ sale' = [sale EXCEPT ![s] = new]
      /\ due' = [due EXCEPT ![s] = bill.due]
      /\ onAccount' = [onAccount EXCEPT ![s] = bill.credit]
      /\ Posts(a, bill.credit)
      /\ UNCHANGED <<repaid, tokens, req, clobbered>>
  BY DEF Charge, Posts
<1>2. bill.credit \in Nat /\ bill.due \in Nat
  BY BillsAssumption
<1>3. account[a] # NoAccount /\ account[a].term \in Terms
  BY <1>1, AccountFields, NoAccountFields DEF IInv, TypeOK, AccountsOK, Approved
<1>4. n \in Nat
  <2>1. IsFiniteSet({t \in Sales : sale[t] # NoSale})
    BY SalesAssumption, FS_Subset
  <2>2. QED
    BY <2>1, FS_CardinalityType
<1>5. /\ new \in Sale /\ new # NoSale /\ new.status = "Active"
      /\ new.account = a /\ new.credit = bill.credit
  <2> HIDE DEF n
  <2>1. QED
    BY <1>2, <1>3, <1>4 DEF Sale, NoSale
<1> HIDE DEF new, n
<1>6. /\ account' \in [Accounts -> Account \cup {NoAccount}]
      /\ rows' \in [Accounts -> Int]
      /\ \A b \in Accounts : /\ account'[b] = NoAccount <=> account[b] = NoAccount
                             /\ Approved(account'[b])
                             /\ account'[b] = NoAccount => rows'[b] = 0
      /\ RowsExplainBalance'
  <2>1. bill.credit \in Int
    BY <1>2
  <2>2. QED
    BY <1>1, <1>3, <2>1, PostingStep
<1>7. /\ sale' \in [Sales -> Sale \cup {NoSale}]
      /\ sale'[s] = new /\ onAccount'[s] = bill.credit
      /\ \A t \in Sales : t # s => sale'[t] = sale[t] /\ onAccount'[t] = onAccount[t]
  BY <1>1, <1>5 DEF IInv, TypeOK
<1>8. TypeOK'
  BY <1>1, <1>2, <1>6, <1>7 DEF IInv, TypeOK
<1>9. ASSUME NEW v \in Workers PROVE ReqOK(req[v])'
  <2>1. req[v].op \in {"void", "voidLocked"} => req[v].id \in Sales /\ req[v].id # s
    BY <1>1, ReqFields DEF IInv, TypeOK, ReqsOK, ReqOK
  <2>2. QED
    BY <1>1, <1>7, <2>1 DEF IInv, ReqsOK, ReqOK
<1>10. OneVoid'
  BY <1>1 DEF IInv, OneVoid
<1>11. AccountsOK'
  <2>1. \A t \in Sales : sale'[t] # NoSale => account'[sale'[t].account] # NoAccount
    BY <1>3, <1>5, <1>6, <1>7, SaleFields DEF IInv, AccountsOK, TypeOK
  <2>2. QED
    BY <2>1, <1>6 DEF AccountsOK, Approved
<1>12. VoidedOwesNothing'
  BY <1>5, <1>7 DEF IInv, VoidedOwesNothing
<1>13. QED
  BY <1>6, <1>8, <1>9, <1>10, <1>11, <1>12 DEF IInv, ReqsOK

\* What a repayment leaves due of a bill.
LEMMA OwedBounds ==
  ASSUME TypeOK, NEW a \in Accounts, NEW amount \in Nat, NEW s \in Sales
  PROVE  Owed(a, amount, s) \in 0 .. due[s]
<1> DEFINE first == {t \in Unpaid(a) : Before(t, s)}
           left == amount - SumFunctionOnSet(due, first)
<1>1. first \subseteq Sales /\ IsFiniteSet(first)
  BY SalesAssumption, FS_Subset DEF Unpaid
<1>2. \A t \in first : due[t] \in Int
  BY <1>1 DEF TypeOK
<1>3. left \in Int /\ due[s] \in Nat
  <2>1. SumFunctionOnSet(due, first) \in Int
    <3> HIDE DEF first
    <3>1. QED
      BY <1>1, <1>2, SumInt
  <2>2. QED
    BY <2>1 DEF TypeOK
<1>4. Owed(a, amount, s) = CASE left <= 0      -> due[s]
                             [] left >= due[s] -> 0
                             [] OTHER          -> due[s] - left
  BY DEF Owed
<1> HIDE DEF left
<1>5. QED
  BY <1>3, <1>4

\* What a repayment has left for a bill is less by all of an older one: a bill
\* that it leaves anything due of takes the rest.
LEMMA OlderFirst ==
  ASSUME TypeOK, NEW a \in Accounts, NEW amount \in Nat,
         NEW s \in Unpaid(a), NEW t \in Unpaid(a), Before(s, t), Owed(a, amount, s) > 0
  PROVE  Owed(a, amount, t) = due[t]
<1> DEFINE P == {u \in Unpaid(a) : Before(u, s)}
           Q == {u \in Unpaid(a) : Before(u, t)}
           L == amount - SumFunctionOnSet(due, P)
           M == amount - SumFunctionOnSet(due, Q)
<1>1. ASSUME NEW u \in Unpaid(a)
      PROVE  u \in Sales /\ due[u] \in Nat /\ sale[u].dueOn \in Nat /\ sale[u].nth \in Nat
  BY SaleFields DEF Unpaid, TypeOK
<1>2. P \cup {s} \subseteq Q
  <2>1. ASSUME NEW u \in Unpaid(a), Before(u, s) PROVE Before(u, t)
    BY <2>1, <1>1 DEF Before
  <2>2. QED
    BY <2>1
<1>3. s \notin P
  BY <1>1 DEF Before
<1>4. IsFiniteSet(Q) /\ IsFiniteSet(P) /\ \A u \in Q : due[u] \in Nat
  <2>1. P \subseteq Sales /\ Q \subseteq Sales
    BY <1>1
  <2>2. IsFiniteSet(P) /\ IsFiniteSet(Q)
    <3> HIDE DEF P, Q
    <3>1. QED
      BY <2>1, SalesAssumption, FS_Subset
  <2>3. QED
    BY <1>1, <2>2
<1>5. SumFunctionOnSet(due, P) \in Nat /\ SumFunctionOnSet(due, Q) \in Nat
      /\ SumFunctionOnSet(due, P) + due[s] <= SumFunctionOnSet(due, Q)
  <2> HIDE DEF P, Q
  <2>1. P \subseteq Q /\ s \in Q /\ P \cup {s} \in SUBSET Q
    BY <1>2
  <2>2. \A u \in P : due[u] \in Nat
    BY <1>4, <2>1
  <2>3. SumFunctionOnSet(due, P \cup {s}) = due[s] + SumFunctionOnSet(due, P)
    <3>1. \A u \in P \cup {s} : due[u] \in Int
      BY <1>4, <2>1
    <3>2. QED
      BY <1>3, <1>4, <3>1, SumAdd
  <2>4. SumFunctionOnSet(due, P \cup {s}) <= SumFunctionOnSet(due, Q)
    BY <1>4, <2>1, SumPart
  <2>5. SumFunctionOnSet(due, P) \in Nat /\ SumFunctionOnSet(due, Q) \in Nat
    BY <1>4, <2>2, SumNat
  <2>6. QED
    BY <2>3, <2>4, <2>5, <1>1
<1>6. /\ Owed(a, amount, s) = CASE L <= 0      -> due[s]
                                [] L >= due[s] -> 0
                                [] OTHER       -> due[s] - L
      /\ Owed(a, amount, t) = CASE M <= 0      -> due[t]
                                [] M >= due[t] -> 0
                                [] OTHER       -> due[t] - M
  BY DEF Owed
<1> DEFINE p == SumFunctionOnSet(due, P)
           q == SumFunctionOnSet(due, Q)
<1>7. L < due[s] /\ M < 0 /\ M \in Int
  <2>1. L = amount - p /\ M = amount - q /\ p + due[s] <= q
        /\ p \in Nat /\ q \in Nat /\ due[s] \in Nat /\ due[s] > 0
    BY <1>1, <1>5 DEF Unpaid
  <2>2. L < due[s]
    <3>1. L \in Int
      BY <2>1
    <3> HIDE DEF L
    <3>2. QED
      BY <3>1, <1>6, <2>1
  <2>3. M \in Int
    BY <2>1
  <2>4. QED
    <3> HIDE DEF L, M, p, q
    <3>1. QED
      BY <2>1, <2>2, <2>3
<1> HIDE DEF L, M
<1>8. QED
  <2>1. M <= 0 /\ ~(M >= due[t])
    BY <1>1, <1>7 DEF Unpaid
  <2>2. QED
    BY <1>6, <2>1

LEMMA ReceivePaymentStep ==
  ASSUME IInv, NEW a \in Accounts, NEW amount \in Repayments, ReceivePayment(a, amount)
  PROVE  IInv'
<1>1. amount \in Nat /\ -amount \in Int /\ MaxRepaid \in Nat
  BY AmountsAssumption
<1>2. /\ account[a].status \in {"ACTIVE", "SUSPENDED", "CLOSED"}
      /\ repaid[a] + amount <= MaxRepaid
      /\ repaid' = [repaid EXCEPT ![a] = @ + amount]
      /\ rows' = [rows EXCEPT ![a] = @ - amount]
      /\ account' = [account EXCEPT ![a].balance = @ - amount]
      /\ due' = [s \in Sales |-> IF s \in Unpaid(a) THEN Owed(a, amount, s) ELSE due[s]]
      /\ UNCHANGED <<onAccount, tokens, sale, req, clobbered>>
  BY DEF ReceivePayment
<1>3. account[a] # NoAccount
  BY <1>2, AccountFields DEF IInv, TypeOK, Statuses
<1>4. Posts(a, -amount)
  <2>1. account[a].balance - amount = account[a].balance + (-amount)
        /\ rows[a] - amount = rows[a] + (-amount)
    BY <1>1, <1>3, AccountFields DEF IInv, TypeOK
  <2>2. QED
    BY <1>2, <2>1 DEF Posts
<1>5. /\ account' \in [Accounts -> Account \cup {NoAccount}]
      /\ rows' \in [Accounts -> Int]
      /\ \A b \in Accounts : /\ account'[b] = NoAccount <=> account[b] = NoAccount
                             /\ Approved(account'[b])
                             /\ account'[b] = NoAccount => rows'[b] = 0
      /\ RowsExplainBalance'
  BY <1>1, <1>2, <1>3, <1>4, PostingStep
<1>6. repaid' \in [Accounts -> 0 .. MaxRepaid]
  BY <1>1, <1>2 DEF IInv, TypeOK
<1>7. due' \in [Sales -> Nat]
  <2>1. \A s \in Sales : Owed(a, amount, s) \in Nat /\ due[s] \in Nat
    BY <1>1, OwedBounds DEF IInv, TypeOK
  <2>2. QED
    BY <1>2, <2>1
<1>8. TypeOK'
  BY <1>2, <1>5, <1>6, <1>7 DEF IInv, TypeOK
<1>9. ReqsOK' /\ OneVoid'
  BY <1>2 DEF IInv, ReqsOK, ReqOK, OneVoid
<1>10. AccountsOK'
  BY <1>2, <1>5, SaleFields DEF IInv, TypeOK, AccountsOK
<1>11. VoidedOwesNothing'
  BY <1>2 DEF IInv, VoidedOwesNothing
<1>12. QED
  BY <1>5, <1>8, <1>9, <1>10, <1>11 DEF IInv

LEMMA NextIInv == IInv /\ [Next]_vars => IInv'
<1> SUFFICES ASSUME IInv, [Next]_vars PROVE IInv'
  OBVIOUS
<1>1. ASSUME NEW w \in Workers, NEW a \in Accounts, Review(w, a) PROVE IInv'
  BY <1>1, ReviewStep
<1>2. ASSUME NEW w \in Workers, Enrol(w) \/ Save(w) \/ VoidLock(w) \/ VoidCommit(w)
      PROVE  IInv'
  BY <1>2, EnrolStep, SaveStep, VoidLockStep, VoidCommitStep
<1>3. ASSUME NEW w \in Workers, NEW s \in Sales, Void(w, s) PROVE IInv'
  BY <1>3, VoidStep
<1>4. ASSUME NEW a \in Accounts, NEW cap \in Caps, Authorise(a, cap) PROVE IInv'
  <2>1. [account |-> a, cap |-> cap] \in Token
    BY DEF Token
  <2>2. QED
    BY <1>4, <2>1, TokensStep DEF Authorise, IInv, TypeOK
<1>5. ASSUME NEW t \in tokens, Expire(t) PROVE IInv'
  BY <1>5, TokensStep DEF Expire, IInv, TypeOK
<1>6. ASSUME NEW s \in Sales, NEW a \in Accounts, NEW bill \in Bills, Charge(s, a, bill)
      PROVE  IInv'
  BY <1>6, ChargeStep
<1>7. ASSUME NEW a \in Accounts, NEW amount \in Repayments, ReceivePayment(a, amount)
      PROVE  IInv'
  BY <1>7, ReceivePaymentStep
<1>8. CASE UNCHANGED vars
  <2>1. tokens' \subseteq Token
    BY <1>8 DEF vars, IInv, TypeOK
  <2>2. QED
    BY <1>8, <2>1, TokensStep DEF vars
<1>9. QED
  BY <1>1, <1>2, <1>3, <1>4, <1>5, <1>6, <1>7, <1>8 DEF Next

LEMMA Invariant == Spec => []IInv
BY InitIInv, NextIInv, PTL DEF Spec

-----------------------------------------------------------------------------
(***************************************************************************)
(* The theorems.                                                           *)
(***************************************************************************)

\* Every row, token and request in flight has its type: no sale is charged to
\* an account without a term, no bill is due less than nothing and nobody
\* repays more than MaxRepaid (CreditAccount and CreditAccountTransaction).
THEOREM TypeCorrect == Spec => []TypeOK
<1>1. IInv => TypeOK
  BY DEF IInv
<1>2. QED
  BY <1>1, Invariant, PTL

\* The balance of every account that no manager's save has written over a newer
\* row is the sum of its transactions (chargeWithManager, receivePayment and
\* voidChargesForSale write the two together).
THEOREM RowsAlwaysExplainBalance == Spec => []RowsExplainBalance
<1>1. IInv => RowsExplainBalance
  BY DEF IInv
<1>2. QED
  BY <1>1, Invariant, PTL

\* However many managers void a sale at once, its charge is taken back once.
THEOREM VoidedAlwaysOwesNothing == Spec => []VoidedOwesNothing
<1>1. IInv => VoidedOwesNothing
  BY DEF IInv
<1>2. QED
  BY <1>1, Invariant, PTL

\* No handler reopens a closed account, unless it saves a row it read earlier.
THEOREM ClosedStaysClosed == Spec => ClosedUnlessClobbered
<1> DEFINE A == \A a \in Accounts :
                  account[a].status = "CLOSED" /\ a \notin clobbered' =>
                    account'[a].status = "CLOSED"
<1>1. IInv /\ [Next]_vars => [A]_vars
  <2> SUFFICES ASSUME IInv, Next, NEW a \in Accounts, account[a].status = "CLOSED",
                      a \notin clobbered'
               PROVE  account'[a].status = "CLOSED"
    OBVIOUS
  <2>1. ASSUME NEW w \in Workers, Enrol(w) PROVE account'[a].status = "CLOSED"
    BY <2>1, ReqFields, NoAccountFields DEF Enrol, IInv, TypeOK
  <2>2. ASSUME NEW w \in Workers, Save(w) PROVE account'[a].status = "CLOSED"
    <3>1. req[w].account \in Accounts /\ req[w].seen.status # "CLOSED"
      BY <2>2, ReqFields DEF Save, IInv, TypeOK, ReqsOK, ReqOK
    <3>2. req[w].account # a
      BY <2>2, <3>1 DEF Save
    <3>3. QED
      BY <2>2, <3>1, <3>2 DEF Save, IInv, TypeOK
  <2>3. ASSUME NEW w \in Workers, VoidCommit(w) PROVE account'[a].status = "CLOSED"
    <3> DEFINE b == sale[req[w].id].account
    <3>1. b \in Accounts /\ account[b] # NoAccount
      BY <2>3, ReqFields, SaleFields
         DEF VoidCommit, IInv, TypeOK, ReqsOK, ReqOK, AccountsOK
    <3>2. account' = [account EXCEPT ![b].balance = @ - req[w].net]
      BY <2>3 DEF VoidCommit
    <3>3. account[b] \in Account
      BY <3>1, AccountFields DEF IInv, TypeOK
    <3> HIDE DEF b
    <3>4. QED
      BY <3>1, <3>2, <3>3 DEF IInv, TypeOK, Account
  <2>4. ASSUME NEW s \in Sales, NEW b \in Accounts, NEW bill \in Bills, Charge(s, b, bill)
        PROVE  account'[a].status = "CLOSED"
    BY <2>4 DEF Charge, IInv, TypeOK
  <2>5. ASSUME NEW b \in Accounts, NEW amount \in Repayments, ReceivePayment(b, amount)
        PROVE  account'[a].status = "CLOSED"
    <3>1. account[b] \in Account
      BY <2>5, AccountFields DEF ReceivePayment, IInv, TypeOK, Statuses
    <3>2. account' = [account EXCEPT ![b].balance = @ - amount]
      BY <2>5 DEF ReceivePayment
    <3>3. QED
      BY <3>1, <3>2 DEF IInv, TypeOK, Account
  <2>6. CASE UNCHANGED account
    BY <2>6
  <2>7. QED
    BY <2>1, <2>2, <2>3, <2>4, <2>5, <2>6
       DEF Next, Review, Request, Approve, Reject, Suspend, Close, Update, Change,
           VoidLock, Void, Authorise, Expire
<1>2. QED
  BY <1>1, Invariant, PTL DEF Spec, ClosedUnlessClobbered

\* A repayment settles no bill while one that is due before it has something
\* left (allocateFifo over ORDER BY due_date, created_at).
THEOREM OldestIsPaidFirst == Spec => OldestFirst
<1> DEFINE A == \A a \in Accounts : \A s, t \in Unpaid(a) :
                  /\ sale[s].dueOn <= sale[t].dueOn
                  /\ sale[s].dueOn = sale[t].dueOn => sale[s].nth < sale[t].nth
                  /\ due'[s] > 0
                  => due'[t] = due[t]
<1>1. IInv /\ [Next]_vars => [A]_vars
  <2> SUFFICES ASSUME IInv, Next, NEW a \in Accounts, NEW s \in Unpaid(a), NEW t \in Unpaid(a),
                      sale[s].dueOn <= sale[t].dueOn,
                      sale[s].dueOn = sale[t].dueOn => sale[s].nth < sale[t].nth,
                      due'[s] > 0
               PROVE  due'[t] = due[t]
    OBVIOUS
  <2>1. /\ s \in Sales /\ t \in Sales
        /\ sale[s].status = "Active" /\ sale[t].status = "Active"
        /\ sale[s].account = a /\ sale[t].account = a
    BY DEF Unpaid
  <2>2. Before(s, t)
    <3>1. sale[s].dueOn \in Nat /\ sale[t].dueOn \in Nat
      BY <2>1, SaleFields DEF IInv, TypeOK
    <3>2. QED
      BY <3>1 DEF Before
  <2>3. ASSUME NEW r \in Sales, NEW b \in Accounts, NEW bill \in Bills, Charge(r, b, bill)
        PROVE  due'[t] = due[t]
    <3>1. r # t
      BY <2>1, <2>3, SaleFields DEF Charge, IInv, TypeOK
    <3>2. QED
      BY <2>3, <3>1 DEF Charge, IInv, TypeOK
  <2>4. ASSUME NEW b \in Accounts, NEW amount \in Repayments, ReceivePayment(b, amount)
        PROVE  due'[t] = due[t]
    <3>1. due' = [u \in Sales |-> IF u \in Unpaid(b) THEN Owed(b, amount, u) ELSE due[u]]
      BY <2>4 DEF ReceivePayment
    <3>2. CASE b # a
      <4>1. t \notin Unpaid(b)
        BY <2>1, <3>2 DEF Unpaid
      <4>2. QED
        BY <2>1, <3>1, <4>1
    <3>3. CASE b = a
      <4>1. Owed(a, amount, s) > 0
        BY <2>1, <3>1, <3>3
      <4>2. amount \in Nat
        BY AmountsAssumption
      <4>3. Owed(a, amount, t) = due[t]
        BY <2>2, <4>1, <4>2, OlderFirst DEF IInv
      <4>4. QED
        BY <2>1, <3>1, <3>3, <4>3
    <3>4. QED
      BY <3>2, <3>3
  <2>5. CASE UNCHANGED due
    BY <2>5
  <2>6. QED
    BY <2>3, <2>4, <2>5
       DEF Next, Review, Request, Approve, Reject, Suspend, Close, Update, Change, Enrol, Save,
           VoidLock, VoidCommit, Void, Authorise, Expire
<1>2. QED
  BY <1>1, Invariant, PTL DEF Spec, OldestFirst
=============================================================================
