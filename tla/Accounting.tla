------------------------------ MODULE Accounting ------------------------------
(***************************************************************************)
(* Fiscal period locks, journal vouchers and expenses, on one server.      *)
(*                                                                         *)
(* Every posting asks assertOpen whether its month is closed, and          *)
(* assertOpen looks at a cache of fiscal_period_locks kept for 15 seconds: *)
(* a load that is awaited while a lock is answered brings back what it     *)
(* read before.  A handler here is several statements, one action each; a  *)
(* voucher is a transaction.                                               *)
(***************************************************************************)
EXTENDS Integers, FiniteSets

CONSTANTS
  Months,      \* of the calendar
  ThisMonth,   \* the month expenses are posted in
  Expenses,    \* identifiers of expenses
  Accountants, \* requests in flight at the same time
  MaxVouchers  \* bound on the vouchers posted

ASSUME MonthsAssumption == ThisMonth \in Months /\ MaxVouchers \in Nat

VARIABLES
  locks,       \* the fiscal_period_locks table
  lockedSet,   \* FiscalPeriodsService.lockedSet
  fresh,       \* Date.now() - cacheLoadedAt < CACHE_TTL_MS
  expense,     \* the expenses table: each one's status
  debits,      \* the ledger entries of each expense
  vouchers,    \* the vouchers posted, of two lines each
  clerk,       \* what each request in flight does next
  answered,    \* history: months whose lock is answered and not undone
  overtaken    \* history: what the cache holds was read before the last answer

calendar == <<locks, lockedSet, fresh, answered, overtaken>>
ledger == <<expense, debits, vouchers>>
accounting == <<calendar, ledger, clerk>>

ExpenseStatuses == {"none", "pending", "approved", "rejected", "deleted"}
Away == [op |-> "away"]
Tasks == [kind : {"expense"}, id : Expenses] \cup [kind : {"voucher"}, line : 1 .. 2]

ClerkRequests ==
  {Away}
    \cup [op : {"lock", "lockBust", "unlockBust"}, month : Months]
    \cup [op : {"assert", "post"}, month : Months, task : Tasks]
    \cup [op : {"load"}, month : Months, task : Tasks, rows : SUBSET Months,
          old : BOOLEAN]
    \cup [op : {"deleteEntry", "deleteExpense"}, id : Expenses]
    \cup [op : {"review"}, id : Expenses, to : {"approved", "rejected"}]

AccountingInit ==
  /\ locks = {} /\ lockedSet = {} /\ fresh = FALSE
  /\ expense = [x \in Expenses |-> "none"]
  /\ debits = [x \in Expenses |-> 0]
  /\ vouchers = 0
  /\ clerk = [c \in Accountants |-> Away]
  /\ answered = {} /\ overtaken = FALSE

Then(c, r) == clerk' = [clerk EXCEPT ![c] = r]

Called(c, r) == clerk[c] = Away /\ Then(c, r)

-----------------------------------------------------------------------------
(***************************************************************************)
(* FiscalPeriodsService.                                                   *)
(***************************************************************************)
LockPeriod(c, m) ==
  /\ m \notin locks
  /\ Called(c, [op |-> "lock", month |-> m])
  /\ UNCHANGED <<calendar, ledger>>

\* Of two locks of a month, the second may find the first's row or clash with it.
InsertLock(c) ==
  /\ clerk[c].op = "lock"
  /\ locks' = locks \cup {clerk[c].month}
  /\ \/ Then(c, [op |-> "lockBust", month |-> clerk[c].month])
     \/ clerk[c].month \in locks /\ Then(c, Away)
  /\ UNCHANGED <<lockedSet, fresh, answered, overtaken, ledger>>

UnlockPeriod(c, m) ==
  /\ Called(c, [op |-> "unlockBust", month |-> m])
  /\ locks' = locks \ {m}
  /\ answered' = answered \ {m}
  /\ UNCHANGED <<lockedSet, fresh, overtaken, ledger>>

\* The loads in flight, which read the table before.
Overtake(requests) ==
  [c \in Accountants |-> IF requests[c].op = "load"
                           THEN [requests[c] EXCEPT !.old = TRUE] ELSE requests[c]]

\* Mutant: only unlocking busts the cache.
BustedByUnlock(op) == op = "unlockBust"

Busted(op) == op \in {"lockBust", "unlockBust"}

\* bustCache, and the answer.
BustCache(c) ==
  /\ clerk[c].op \in {"lockBust", "unlockBust"}
  /\ fresh' = (fresh /\ ~Busted(clerk[c].op))
  /\ answered' = IF clerk[c].op = "lockBust" THEN answered \cup ({clerk[c].month} \cap locks)
                 ELSE answered
  /\ clerk' = Overtake([clerk EXCEPT ![c] = Away])
  /\ UNCHANGED <<locks, lockedSet, overtaken, ledger>>

\* Fifteen seconds pass.
ExpireCache ==
  /\ fresh /\ fresh' = FALSE
  /\ UNCHANGED <<locks, lockedSet, answered, overtaken, ledger, clerk>>

\* assertOpen with a cache out of date: find() reads, and is awaited.
LoadLocks(c) ==
  /\ clerk[c].op = "assert" /\ ~fresh
  /\ Then(c, [op |-> "load", month |-> clerk[c].month, task |-> clerk[c].task,
              rows |-> locks, old |-> FALSE])
  /\ UNCHANGED <<calendar, ledger>>

\* assertOpen's answer for the posting: it goes on, or is refused.
Judged(c, months) ==
  Then(c, IF clerk[c].month \in months THEN Away
          ELSE [op |-> "post", month |-> clerk[c].month, task |-> clerk[c].task])

AssertOpen(c) ==
  /\ clerk[c].op = "assert" /\ fresh
  /\ Judged(c, lockedSet)
  /\ UNCHANGED <<calendar, ledger>>

AssertLoaded(c) ==
  /\ clerk[c].op = "load"
  /\ lockedSet' = clerk[c].rows
  /\ fresh' = TRUE
  /\ overtaken' = clerk[c].old
  /\ Judged(c, clerk[c].rows)
  /\ UNCHANGED <<locks, answered, ledger>>

-----------------------------------------------------------------------------
(***************************************************************************)
(* Journal vouchers: a debit and a credit, checked and saved one by one in *)
(* a transaction that commits with the second.                             *)
(***************************************************************************)
VoucherLine(m, line) ==
  [op |-> "assert", month |-> m, task |-> [kind |-> "voucher", line |-> line]]

CreateVoucher(c, m) ==
  /\ vouchers < MaxVouchers
  /\ Called(c, VoucherLine(m, 1))
  /\ UNCHANGED <<calendar, ledger>>

PostVoucherLine(c) ==
  /\ clerk[c].op = "post" /\ clerk[c].task.kind = "voucher"
  /\ IF clerk[c].task.line = 1
       THEN Then(c, VoucherLine(clerk[c].month, 2)) /\ UNCHANGED vouchers
       ELSE Then(c, Away) /\ vouchers' = vouchers + 1
  /\ UNCHANGED <<calendar, expense, debits>>

-----------------------------------------------------------------------------
(***************************************************************************)
(* Expenses: the row and its ledger entry are separate statements.         *)
(***************************************************************************)

\* The expense stays when its entry is refused.
CreateExpense(c, x) ==
  /\ expense[x] = "none"
  /\ expense' = [expense EXCEPT ![x] = "pending"]
  /\ Called(c, [op |-> "assert", month |-> ThisMonth,
                task |-> [kind |-> "expense", id |-> x]])
  /\ UNCHANGED <<calendar, debits, vouchers>>

PostExpense(c) ==
  /\ clerk[c].op = "post" /\ clerk[c].task.kind = "expense"
  /\ debits' = [debits EXCEPT ![clerk[c].task.id] = @ + 1]
  /\ Then(c, Away)
  /\ UNCHANGED <<calendar, expense, vouchers>>

\* An administrator may delete an expense in any status, a manager a pending one.
DeleteExpense(c, x) ==
  /\ expense[x] \notin {"none", "deleted"}
  /\ Called(c, [op |-> "deleteEntry", id |-> x])
  /\ UNCHANGED <<calendar, ledger>>

\* deleteLedgerByReference asks for no open month.
DeleteEntry(c) ==
  /\ clerk[c].op = "deleteEntry"
  /\ debits' = [debits EXCEPT ![clerk[c].id] = 0]
  /\ Then(c, [clerk[c] EXCEPT !.op = "deleteExpense"])
  /\ UNCHANGED <<calendar, expense, vouchers>>

DeleteRow(c) ==
  /\ clerk[c].op = "deleteExpense"
  /\ expense' = [expense EXCEPT ![clerk[c].id] = "deleted"]
  /\ Then(c, Away)
  /\ UNCHANGED <<calendar, debits, vouchers>>

ReviewExpense(c, x, to) ==
  /\ expense[x] = "pending"
  /\ Called(c, [op |-> "review", id |-> x, to |-> to])
  /\ UNCHANGED <<calendar, ledger>>

\* saveExpense: inserts the row again if it has been deleted meanwhile.
SaveReview(c) ==
  /\ clerk[c].op = "review"
  /\ expense' = [expense EXCEPT ![clerk[c].id] = clerk[c].to]
  /\ Then(c, Away)
  /\ UNCHANGED <<calendar, debits, vouchers>>

-----------------------------------------------------------------------------
AccountingNext ==
  \/ \E c \in Accountants, m \in Months :
       LockPeriod(c, m) \/ UnlockPeriod(c, m) \/ CreateVoucher(c, m)
  \/ \E c \in Accountants : InsertLock(c) \/ BustCache(c)
  \/ ExpireCache
  \/ \E c \in Accountants : LoadLocks(c) \/ AssertOpen(c) \/ AssertLoaded(c)
  \/ \E c \in Accountants : PostVoucherLine(c) \/ PostExpense(c)
  \/ \E c \in Accountants, x \in Expenses :
       \/ CreateExpense(c, x) \/ DeleteExpense(c, x)
       \/ \E to \in {"approved", "rejected"} : ReviewExpense(c, x, to)
  \/ \E c \in Accountants : DeleteEntry(c) \/ DeleteRow(c) \/ SaveReview(c)

AccountingTypeOK ==
  /\ locks \subseteq Months /\ lockedSet \subseteq Months /\ fresh \in BOOLEAN
  /\ expense \in [Expenses -> ExpenseStatuses]
  /\ debits \in [Expenses -> Nat]
  /\ vouchers \in Nat
  /\ clerk \in [Accountants -> ClerkRequests]
  /\ answered \subseteq Months /\ overtaken \in BOOLEAN

\* A posting that asks after the lock of its month was answered is refused,
\* although the answer comes from a cache; except while the cache holds what
\* a load read before that answer and brought in after it.
ClosedMonthsRefuse ==
  [][\A c \in Accountants :
       /\ clerk[c].op \in {"assert", "load"} /\ clerk'[c].op = "post"
       /\ clerk[c].month \in answered
       => overtaken']_accounting
=============================================================================
