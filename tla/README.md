# LedgerPro: a TLA+ verification of its stock, money and records

LedgerPro is a multi-branch point of sale: a NestJS server over PostgreSQL
(TypeORM) with a React client. Its stock, its money and its records change only in
the server's services, and every one of them is a few database statements on behalf
of an HTTP request. Requests overlap freely. Some statements share a transaction,
some rows are locked with `SELECT ... FOR UPDATE`, and some are read without a lock
and written back later. Whether the numbers stay right depends on which is which.
These modules state what should stay right and check it.

Contents: 1 inventory, 2 modules, 3 how the code becomes actions, 4 runs, 5 fairness
and refinements, 6 proofs, 7 what the checks show, 8 not modelled, 9 plan.

## 1. Inventory of the system

Paths are relative to `src/backend/src/modules/`.

| Component | State | Operations | What is hard | What makes it correct |
|---|---|---|---|---|
| Stock transfers (`stock-transfers/stock-transfers.service.ts`) | `stock_transfer_requests`, `inventory` | create, manager batch, admin direct, approve, reject, cancel, ship, receive | approve, reject and cancel read without a lock and save the whole entity; ship and receive re-check the status under a row lock | stock is conserved in transit; a finished line stays finished; no branch goes below zero; what ships was reviewed |
| Shipments (`stock-transfers/shipments.service.ts`) | `shipments`, their lines, `inventory` | bundle lines, assign courier, dispatch, scan, deliver, return, cancel | four handlers lock the shipment, two do not; dispatch reads its lines without a lock | a parcel and its lines agree; a terminal shipment stays terminal; conservation |
| Inventory row (`inventory/entities/inventory.entity.ts`) | `inventory.quantity`, `decimal(12,3)` | +=, -=, comparison on a value the driver returns as text | JavaScript's + concatenates text | a credit arrives, a debit can commit |
| POS checkout (`pos/pos-write.service.ts`) | `inventory`, `stock_movements`, `sales`, `invoice_counters`, `pos_idempotency_keys`, `users.current_balance`, `credit_transactions`, ledger | createSale | an idempotency key looked up before and inserted after the transaction; a customer read without a lock; a counter with no row on 1 January | one sale per key; no oversell; gapless invoices; balance = sum of its rows |
| POS void (`pos/pos-void.service.ts`) | the same, the khata, the points | voidSale | status and owner are read before the transaction only | a sale is voided once; every ledger nets to zero |
| Sales returns (`inventory/returns.service.ts`) | `sales_returns`, `inventory`, ledger | createReturn | the remainder is computed before the transaction | never more back than sold |
| Receivables (`pos/receivables.service.ts`) | `users`, `sales.balance_due` | receivePayment, setCreditLimit | locks the customer, which checkout does not | balance = rows; dues explain the balance |
| Customer orders (`customer-orders/`) | orders, PayHere attempts, stock, ledger | create, checkout, notify, fulfil, cancel, not collected, lazy expiry | no transaction; duplicate and late notices; expiry on read; groups settled order by order | one sale per order; captured money is settled; points come back once |
| Khata accounts (`credit-accounts/`) | `credit_accounts`, their transactions | request, approve, reject, suspend, close, update, charge, repay, override, reverse | life-cycle handlers save the whole entity, balance included, over locked charges; reusable override tokens | balance = rows; CLOSED is final; oldest bills first |
| Loyalty (`loyalty/`) | accounts, points ledger, `sales` owner | redeem, award, reverse, adjust, merge | unlocked "already done" reads; a merge moves rows that voids have read | wallet = ledger, before and after a merge |
| Purchases (`purchases/`) | orders, GRNs, returns, payments, stock, ledger | order, send, cancel, receive, void, return, pay | PO status, GRN payments and returnable quantities read before the transaction | an order is received once; a bill is not overpaid; stock agrees with GRNs |
| Stock adjustments (`inventory/stock-adjustments.service.ts`) | `stock_adjustments`, `inventory` | count, approve, reverse | approval writes the counted quantity whatever was sold since | an adjustment takes effect once; the journal explains the shelf |
| Shifts (`pos/shifts.service.ts`) | `pos_shifts`, cash movements | open, pay in, pay out, close | check then insert without a lock; sales in flight at the closing | a sale's cash is in one report |
| Leaves (`hr/employee-leaves.service.ts`) | leaves, annual-leave wallet | apply, approve, reject, cancel | decisions on an unlocked read | wallet = entitlement less approved days |
| Payroll (`hr/`) | attendance, salary structures, payroll rows | check in/out, manager grid, structures, generate, approve, pay, cancel, terminate | a run checks rows it does not lock | a paid row stays; a manager's mark stands |
| Accounting (`accounting/`) | fiscal locks and their cache, vouchers, expenses, ledger | lock, unlock, post, review, delete | a cache kept over awaits | a closed month refuses postings |
| Reviews (`reviews/`) | reviews, `products.review_count`, `avg_rating` | create, update, delete, hide | two writers recompute one row; a product edit saves it whole | the columns are those of the visible reviews |
| Customer groups, auth and users, catalogue, held sales, notifications, chat, email, analytics, audit, seeds, web client | own tables | CRUD, reports, sends | little that spans requests | see section 8 |

**Interactions.** All services run in one process over one database and share the
`inventory`, `sales`, `users` and ledger rows. Shipments and transfers both move the
lines of `stock_transfer_requests`. Voids, returns and repayments work on the sales
checkout made. A void reaches into the khata and the loyalty wallet. Customer orders
use the wallet outside any transaction, where a checkout uses it inside one.
Purchases, counts and tills move one shelf. A user's confirmed phone number merges
wallets. Notifications leave after a commit and change nothing here.

## 2. Modules

| Module | What it is |
|---|---|
| `InventoryRow` | the `decimal(12,3)` quantity in thousandths, and JavaScript's arithmetic on it: as numbers (`DecimalText = FALSE`), or on the text the driver returns (`TRUE`) |
| `StockTransfers` | transfer lines, shipments, their handlers and a till selling the same stock |
| `LockedTransfers` | the transfers as if every row read to be written back were locked until then (`LockedSpec`) |
| `PosSales` | checkout, void, return, repayment and credit limit at one branch |
| `LockedSales` | the sales as if every row a request decides on were locked (`LockedSpec`) |
| `PickupOrders` | abstract: what a pickup order promises its customer |
| `CustomerOrders` | checkouts, PayHere's notices, pickup, the ways an order ends, and the customer's wallet, statement by statement; implements `PickupOrders` |
| `CreditAccounts` | the khata: life cycle, charges, override tokens, repayments, voids |
| `StockJournal` | abstract: a shelf changes only together with its journal |
| `Shelf` | the shelf and journal that the next two extend, and a till |
| `Purchases` | purchase orders, receipts, debit notes and supplier payments |
| `StockAdjustments` | counts, approvals and reversals |
| `BackOffice` | `Purchases`, `StockAdjustments` and the tills composed on one shelf; implements `StockJournal` |
| `Leaves`, `Payroll`, `Accounting`, `CashierShifts`, `Loyalty`, `Reviews` | one service each, with its own tables |
| `Office` | those six in one specification |
| `MCStockTransfers`, `MCPosSales`, `MCCustomerOrders`, `MCCreditAccounts`, `MCBackOffice`, `MCOffice` | small instances |
| `SumTheorems` | lemmas about sums over finite sets, which the next ones use |
| `InventoryRowProofs`, `StockTransfersProofs`, `PosSalesProofs`, `CreditAccountsProofs`, `BackOfficeProofs`, `OfficeProofs`, `CustomerOrdersProofs` | theorems and proofs |

`Office` exists so that six independent services share one run. They have no row in
common (where they touch another's, it is modelled: `Loyalty` has the sales it
needs, `Payroll` the employees), so a step of one changes nothing another sees, and
the variable `desk`, chosen in `Init`, says which of them a behaviour is about.
Checking the product of the six would repeat every state of each a million times
and reach no new one. The desks' identifiers are shared in the instance (requests
in flight are `o1, o2` everywhere, rows are `s1, s2`), so that one symmetry serves
them all.

## 3. How the code becomes actions

- A request in flight (`req[w]`, `buyer[w]`, `clerk[c]`, `tab[t]`, ...) holds what
  its handler has read and will still use. A handler that reads in one statement
  and writes in another is two actions, and any other request may commit in between.
- A transaction that reads only rows it has locked takes effect in one step, at its
  commit. A row lock held over several actions is a guard (`Locked`, `StockLocked`,
  `CounterLocked`, `ProductFree`, `WalletLocked`). Where there is no transaction, as
  in `CustomerOrders`, every statement is an action and a `Crash` may fall between
  any two.
- `Abort` (`Rollback`, `Abandon`) is a rolled-back transaction: an exception, a lost
  connection or the victim PostgreSQL picks in a deadlock.
- TypeORM's `save(entity)` compares the entity with the stored row and writes every
  column that differs, so a stale entity overwrites the row. `SaveLine`,
  `SaveShipment`, `CreditAccounts!Save`, `SaveReview` and `SaveProduct` write the
  whole row as read. `update(id, {...})` writes the named columns only (`EndOrder`,
  `UpdatePay`, `UpdateStatus`). The instant between `save`'s comparison and its
  UPDATE is not a step of its own.
- Append-only tables (movements, ledger, allocations, points) are the *sums* of
  their rows, since the code only adds rows and the properties only sum them.
- `Begin`, `Finish`, `Continue`, `Click`, `Then` and the like are the life of a
  request and have no line of code.
- Variables marked *history* in a module are never read by an action's guard.

### Transfers (`StockTransfers`)

| Action | Code |
|---|---|
| `Create`, `CreateManagerBatch`, `CreateAdminDirect` | the three ways a line is filed; carts are already merged, one line per product |
| `Approve`, `Reject`, `Cancel`, then `SaveLine` | unlocked read and check, then the save |
| `Ship`/`ShipTransaction`, `Receive`/`ReceiveTransaction` | the unlocked validation, then the transaction that re-reads the *status* under a lock and moves the *stale* quantity |
| `CreateFromLines`/`LinkTransaction` | validation, then a conditional UPDATE that must claim every line |
| `AssignCourier`, `MarkOutForDelivery`, then `SaveShipment` | unlocked read and whole-entity save |
| `Dispatch`/`DispatchTransaction`, `Deliver`/`DeliverTransaction`, `ReturnShipment`/`ReturnTransaction` | the shipment locked and its lines read, then the moves and the commit |
| `CancelShipment` | one transaction on locked rows |
| `Sale` | a checkout of one unit that competes for the stock |

`NoRow` is an inventory row that does not exist; receiving creates it. Left out,
because they change no modelled row: `addCheckpoint`, timeline events,
notifications, who may call what, who the courier is.

### Sales (`PosSales`)

A checkout is `CreateSale` (the key lookup, the tender), `SaleLocks` (inventory and
counter locked, customer read), `SaleCommit` (all writes) and `InsertKey`, or
`Crash` before the last. A void is `VoidSale` (status check), `VoidLocks`,
`VoidCommit`. A return is `CreateReturn` (remainder computed), `ReturnTransaction`.
`ReceivePayment` and `SetCreditLimit` are one transaction each.

Abstractions: every unit costs 1 and money is whole, so pricing, discounts, tax
and rounding are not modelled; one branch; unpaid sales are settled in invoice order
where the code uses `created_at`. A key that is known answers with its sale and
changes nothing, so it is no action. A void reads the sale's credit rows over
another connection, which sees committed rows: so does `VoidLocks`. In an empty year
`SELECT ... FOR UPDATE` locks no counter row, so the year's first checkouts overlap;
the counter's primary key and the unique invoice number let one commit (guard of
`SaleCommit`).

### Pickup orders (`CustomerOrders`)

| Action | Code in `customer-orders.service.ts` (and the loyalty services it calls) |
|---|---|
| `StartCheckout`, `PlaceOrder` | `create`, `createCheckout`: the orders saved one by one |
| `RedeemForOrder`, `ApplyRedeem`, `RedeemRow` | `redeemForOrder`: the limit on a read, the conditional UPDATE, the ledger row |
| `UpdateFinancials` | the discount of each order; `Share` rounds, and the last order takes the rest |
| `CreatePaymentAttempt` | the PayHere attempt for what is left to pay |
| `Capture`, `Report`, `Acknowledge` | PayHere (external): a payment is captured at most once; a notice stays until its answer is seen, so it may come again, late, or before another |
| `NotifyPaid`, then `TakeStock`, `CreateSale`, `PostEntry`, `MarkPaid` per order, then `AttemptPaid` | `handlePaidNotify` |
| `NotifyRefused`, then `EndOrder`, `Restore`, `RestoreRow` per order | status codes -1, -2, -3; `NotifyOther` is any other code, and a bad signature |
| `Fulfill`, then `TakeStock` ... (counter) or `Award` (online), `AwardRow`, `Complete` | `fulfill` |
| `CancelByUser`, `MarkNotCollected`, `Expire`, then `EndOrder`, `Restore`, `RestoreRow` | the other ways an order ends; `Age` is the passing of `ORDER_TTL` |

Money is whole, a unit costs 1 and a point is worth 1; one customer owns every
order. `TakeStock` is one step because the stock decrement is the one transaction
in the flow. A refused ledger row is the unique index of the migration
`LoyaltyPhoneUniqueAndBranch`. Codes "-3" and "-2" take one branch, so the instance
uses "-2". The orders a request is `AtWork` on are those of its checkout, or those of
its notice or its endpoint that it has not passed; `contested` collects the orders that
a request began on while another was at work on them.

### Khata (`CreditAccounts`)

`Approve`, `Reject`, `Suspend`, `Close`, `Update` each read and check, and `Save`
writes the whole row. `Charge` (with `WithinLimit` or an unexpired token,
`Overridden`), `ReceivePayment` and `Enrol` are single steps, since they lock the
row from check to commit. A void is `Void` (status), `VoidLock` and `VoidCommit`.
`Before` is the order in which a repayment settles bills. All sales are made on one
day, so a bill falls due by the account's term. Reminders and reads are left out.

### Back office (`Purchases`, `StockAdjustments`)

A receipt, void or debit note is a check (`Receive`, `VoidGrn`, `Return`) and a
commit; a payment checks under its lock and is one action. `SendOrder` and
`CancelOrder` read a status that `UpdateStatus` writes over. `raced` collects the
bills and orders that were written on a check out of date. A count is `Count` (with
the threshold), an approval `Approve` then `ApplyToInventory`, which takes the
difference again under the lock, a reversal `Reverse` then `ReverseCommit`.
Left out: payments of a supplier's opening balance (a running total no bill
depends on), cost prices, and document numbers (the protocol of the invoice counter).

### Office

| Module | A request is | Abstractions |
|---|---|---|
| `Leaves` | a check and a write | only annual leave has a wallet; days are whole |
| `Payroll` | `CheckInSelf`/`UpsertCheckIn`, `CreateStructure`/`InsertStructure`, `Generate`, `GenerateRow`, `SaveRow` per employee, `GenerateCommit`, ... | a period is one date; attendance of one day; a payslip is rate times that day |
| `Accounting` | statements, one action each; a voucher is two lines in a transaction | a month is an identifier; one server, hence one cache |
| `CashierShifts` | an opening is check, `opened_at`, insert; a closing is read, `closedAt`, sums, write; a movement is read, check, insert | `Stamp` is the database's clock, which gives no two events one time; the server's own, of `closedAt`, is ahead of it by one of `Skews`; the four sums of a report are one step |
| `Loyalty` | read, then a transaction; a merge is three steps because it locks first | one user, one walk-in customer |
| `Reviews` | read, then write, lock, recompute, commit | the average is kept as the sum it comes from |

## 4. Runs

| Run | Instance and specification | Shows |
|---|---|---|
| `TransfersLocked` | `LockedSpec`, 2 workers, 2 lines, 1 shipment, quantities 1 and 2 | `Conservation` (stock + in transit + sold is constant), `ParcelCoherent`, `TerminalShipments`, `FinalLines` |
| `TransfersConcurrent` | `Spec`, 2 workers, 1 line | `TypeOK`, `NoOversell` survive every overlap, the broken ones included; `OnlySavesReopen`: what a scan or a courier saved as read does to an ended shipment, no other request does |
| `TransfersReceiptText` | `Spec`, `DecimalText` | violated: a receipt credits nothing |
| `SalesLocked` | `LockedSpec`, 2 workers, 2 sales, 2 products, 4 forms of checkout, all endpoints | `ReturnsClamped`, `BalanceMatchesRows`, `LedgerMatchesSales`, `ChargesWithinLimit` |
| `SalesConcurrent` | `Spec`, 2 workers, 2 sales, one each of 2 products, crashes | `TypeOK` (no negative shelf), `ShelfConservation`, `InvoicesSequential`, `RecordedKeysAreClosed` (a recorded key is never tried anew) |
| `SalesRetry` | `Spec`, 2 workers | violated: a retry in flight makes a second sale |
| `OrdersSerial` | `FairSpec`, 1 worker, a grouped online checkout of two orders at two branches and a counter order, points for the first order and half the second, codes 2 and -2, 1 crash | `OneSalePerOrder`, `SettledEqualsCaptured`, `ImplementsPickup`, `EndedGivesBack`, `CapturedIsSettled` |
| `OrdersConcurrent` | `Spec`, 2 workers, a grouped online checkout of two orders and a counter order on one shelf with goods for two and one wallet with points for one checkout, codes 2, -1 and a forged one, pickup | `TypeOK` (no negative shelf or wallet), `SalesAreBacked`, `WalletMatchesLedger`; `PaidAttemptIsSettled` however the group was settled in parts; `PointsBackOnce` for the orders that are not contested |
| `OrdersDuplicateNotify` | `Spec`, 2 workers, code 2 only | violated: two deliveries of one notice sell the order twice |
| `Khata` | `Spec`, 2 workers, 1 account, 2 sales, limit 1, terms 0 and 1, a repayment of 3, authorised overrun 1 | `RowsExplainBalance`, `VoidedOwesNothing`, `ClosedUnlessClobbered`, `OldestFirst` |
| `BackOffice` | `Spec`, 2 buyers and 2 reviewers, 1 product, 1 order, 2 GRNs, 1 adjustment, threshold 0 | `PaidMatchesDocuments`, `BillsAddUp`, `AdjustmentsCancelOut`, `ImplementsJournal` |
| `Office` | `Spec`, 2 requests and 2 rows at each desk; in the drawer 1 document, the clock to 7 and the server's ahead by 0 or 2 | `WalletMatchesLeaves`, `WalletsMatchSales`, `AggregatesConverge`, `CountedOnce`, `ManagersMarkStands`, `PaidIsKept`, `ClosedMonthsRefuse` |

**Two readings of a race.** For transfers and sales, `LockedSpec` is `Spec` except
that a row a request has read and is going to write back, or decide on, is not
changed by another request in between (`RowsReadAreKept`). That is
the code with the row locks it lacks, and nothing else changed. What holds under
`LockedSpec` and fails under `Spec` is the work of a missing lock. In the modules
after them the same is said within `Spec`: a history variable
(`clobbered`, `raced`, `overtaken`, `contested`, `stale`, `missed`, `overlaid`) collects the rows that were written on a read out of date, and the
property speaks of the others. Every other step may overlap with anything, and an
error in a guard, a lock the code does take, an atomic increment or an order of
statements shows (the mutants are of that kind). `OrdersSerial` uses one worker, and
PayHere, crashes, ages and requests interleave there between any two handlers;
`OrdersConcurrent` checks with two workers what survives their overlap, on two orders
that share a payment and a third that shares their shelf and their wallet. There a
notice that settles both orders overlaps a pickup, a refused notice or another
delivery of itself, and runs short half way when the third order was sold first.

**Why the bounds are enough.** Each race found is between one request that has read
and another that commits: two requests. Two branches give a source and a
destination; two lines let a shipment hold one and an outsider the other. The forms
of checkout cover a keyed cash sale, a sale on credit, credit with an overpayment
kept, and a sale partly paid; some sell only one product and some only the other,
since only checkouts with no inventory row in common are kept apart by the invoice
counter alone. In `OrdersSerial` the group's second order is larger than its first,
so that the points pay one in full and the rounding has a rest; a decline, a capture
and a late decline of the same checkout all occur. The khata's limit is below one
bill, so that the second charge needs a token, and its terms differ, so that due
dates and ages disagree. A repayment of 3 pays more than one bill. A leave of one
or two days against a wallet of 2 lets approvals exhaust it. Two
shifts opened and closed and a document take five times of the clock, so
`MaxTime = 7` has two to spare for second closings; a skew of 2 puts
`closedAt` after the next shift's opening and a sale in it. `Float = 1` with a pay-out
of 2 needs the sale's cash first. In `OrdersConcurrent` the shelf is one short of the
three orders, so that the group can be settled in part. One expense, one voucher and two months
give a closed and an open month to postings of both kinds.

`MaxCrashes`, `MaxRepaid`, `MaxTime`, `MaxVouchers` and `Fragments` are bounds, in
guards, each named where it is declared. Symmetry is used on interchangeable
identifiers only, and not in the run with liveness. Deadlock is checked in the
sales runs; in the others the system may really stop, when every identifier
is used and every row finished, and `CHECK_DEADLOCK FALSE` says so.

## 5. Fairness and refinements

`CustomerOrders!FairSpec` assumes two things, both of code or of PayHere:

- `WF_vars(Statement(w))`: a handler that has begun goes on to its next statement.
  Node runs every awaited continuation; only a crash, which is an action, ends it.
- `SF_vars(Delivery(c))`: PayHere sends the notice of a captured payment until a
  handler takes it. It repeats a notice that is not answered; strong fairness is
  needed because the worker may be busy again and again.

Customers, staff, time and crashes need never act. Under it `CapturedIsSettled`
(money that was taken is settled, or the goods have run out) and `EndedGivesBack`
(an order that ends gives its points back, or the server died) hold.

`PickupOrders` is the order as the customer sees it: open, then collected or ended,
paid at most once and never unpaid, nothing unpaid collected. `ImplementsPickup` is
`Pickup!Spec` under `phase <- Phase(o)`, `paid <- {o : Paid(o)}`,
`disputed <- contested`: the statements between the customer's events are stutters.
An order that two requests came to be at work on at once is disputed from then on, and
`GoAstray` lets it do what it likes: of the others every promise is kept, whatever
overlaps elsewhere, in the same group or on the same wallet. `StockJournal` is what
every module that moves stock promises, and `ImplementsJournal` is
`Journal!JournalSpec` with the two variables of `Shelf` themselves; it holds under
every overlap of the three offices.

## 6. Proofs

For every value of the constants, under the named ASSUMEs of the modules:

| Theorem | Statement |
|---|---|
| `InventoryRowProofs!TextCreditIsLost` | a credit of whole units on the text of a stored quantity adds at most a thousandth |
| `StockTransfersProofs!TypeCorrect` | `Spec => []TypeOK` |
| `StockTransfersProofs!NeverOversells` | `Spec => []NoOversell` |
| `StockTransfersProofs!LinesAreReviewed` | `Spec => []ReviewedLines` |
| `StockTransfersProofs!TerminalShipmentsReopenOnlyBySave` | `Spec => OnlySavesReopen` |
| `StockTransfersProofs!LinesFollowTheirShipment` | `LockedSpec => []ParcelCoherent` |
| `StockTransfersProofs!HistoryIsFinal` | `LockedSpec => FinalLines` |
| `StockTransfersProofs!ShipmentsAreFinal` | `LockedSpec => TerminalShipments` |
| `StockTransfersProofs!GoodsAreConserved` | with quantities that are numbers, `LockedSpec => []Conservation` |
| `PosSalesProofs!JournalExplainsShelf` | `Spec => []ShelfConservation` |
| `PosSalesProofs!InvoicesHaveNoGap` | `Spec => []InvoicesSequential` |
| `PosSalesProofs!TypeCorrect` | `Spec => []TypeOK` |
| `PosSalesProofs!ReturnsStayClamped` | `LockedSpec => []ReturnsClamped` |
| `PosSalesProofs!LedgerAlwaysMatchesSales` | `LockedSpec => []LedgerMatchesSales` |
| `PosSalesProofs!BalanceAlwaysMatchesRows` | `LockedSpec => []BalanceMatchesRows` |
| `PosSalesProofs!ChargesStayWithinLimit` | `LockedSpec => ChargesWithinLimit` |
| `PosSalesProofs!RecordedKeysStayClosed` | `Spec => RecordedKeysAreClosed` |
| `CreditAccountsProofs!TypeCorrect` | `Spec => []TypeOK` |
| `CreditAccountsProofs!RowsAlwaysExplainBalance` | `Spec => []RowsExplainBalance` |
| `CreditAccountsProofs!VoidedAlwaysOwesNothing` | `Spec => []VoidedOwesNothing` |
| `CreditAccountsProofs!ClosedStaysClosed` | `Spec => ClosedUnlessClobbered` |
| `CreditAccountsProofs!OldestIsPaidFirst` | `Spec => OldestFirst` |
| `BackOfficeProofs!TypeCorrect` | `Spec => []TypeOK` |
| `BackOfficeProofs!PaidIsDocumented` | `Spec => []PaidMatchesDocuments` |
| `BackOfficeProofs!BillsAlwaysAddUp` | `Spec => []BillsAddUp` |
| `BackOfficeProofs!AdjustmentsAlwaysCancel` | `Spec => []AdjustmentsCancelOut` |
| `BackOfficeProofs!JournalIsImplemented` | `Spec => ImplementsJournal`, the refinement of `StockJournal` |
| `OfficeProofs!TypeCorrect` | `Spec => []TypeOK` |
| `OfficeProofs!WalletAlwaysMatchesLeaves` | `Spec => []WalletMatchesLeaves` |
| `OfficeProofs!AlwaysCountedOnce` | `Spec => []CountedOnce` |
| `OfficeProofs!WalletsAlwaysMatchSales` | `Spec => []WalletsMatchSales` |
| `OfficeProofs!AggregatesAlwaysConverge` | `Spec => []AggregatesConverge` |
| `OfficeProofs!MarksOnlyByManagers` | `Spec => ManagersMarkStands` |
| `OfficeProofs!PaidRowsAreKept` | `Spec => PaidIsKept` |
| `OfficeProofs!ClosedMonthsAlwaysRefuse` | `Spec => ClosedMonthsRefuse` |
| `CustomerOrdersProofs!TypeCorrect` | `Spec => []TypeOK` |
| `CustomerOrdersProofs!SalesAlwaysBacked` | `Spec => []SalesAreBacked` |
| `CustomerOrdersProofs!PaidAttemptsAreSettled` | `Spec => []PaidAttemptIsSettled` |
| `CustomerOrdersProofs!WalletAlwaysMatchesLedger` | `Spec => []WalletMatchesLedger` |
| `CustomerOrdersProofs!OneSaleUnlessContested` | `Spec => []OneSalePerOrder` |
| `CustomerOrdersProofs!PointsBackOnceUnlessContested` | `Spec => []PointsBackOnce` |
| `CustomerOrdersProofs!PickupIsImplemented` | `Spec => ImplementsPickup`, the refinement of `PickupOrders` |

None of these invariants is inductive alone, because a request acts on what it read
earlier. Each proof's `IInv` adds what a request in flight still knows.

**Transfers.** `IInv` is `TablesOK` (the rows and requests have their
types), `LockInv` (two requests never hold one shipment, and what a holder read is
still there), `ReviewedInv` (every row *in flight* is as well reviewed as the stored
ones) and `StockInv`. A stale save then writes a reviewed row whatever happened in
between, and a ship moves a positive reviewed quantity that the locked row covers.

Under `LockedSpec` the invariant is `LockedInv`. `ParcelInv` is `ParcelCoherent` with
one more fact, that a line in a shipment has been reviewed, so that no approval still
to be saved is of a line in a parcel. `AsRead` says of each request what its writing
relies on: an entity to be saved is the row as it is but for the change meant
(`SaveOf`, `ShipmentSaveOf`), the lines of a link keep their branches, and the holder
of a shipment has read all its lines as they are. A conditional UPDATE and a status
checked again under a lock need nothing of the kind. `OthersAsRead` is the one place
where the locks count; the writes are then compared with the other table.

Conservation needs one thing more of the requests: that the line a ship or a receive
has read still has the product, the quantity and the branches it had, for it is
these that move while only the status is checked again. Each step's change of
`OnHand` is then the change of `InTransit` (`ConservedStep`). A shipment moves its
lines by a fold, one debit or credit after another on rows that may be the same one;
`MoveInTable` turns the fold into a function on the sets of positions,
`MovesOnHand` follows it by induction on these sets, where one refusal refuses the
whole, and `SumReindex` shows that the order chosen does not matter. The premise
`~DecimalText` is that of the run `TransfersLocked`: on the deployed driver the
property is false (`TextCreditIsLost`, and the run `TransfersReceiptText`).

**Sales.** `IInv` adds to the two properties `OneHolder` (two requests never hold
one inventory row) and `LeftIsCurrent` (what a holder will write is the current
row less, or plus, its cart). The second is what a lock is for, and gives
conservation although the written number is old. For invoices no such fact is
needed: `SaleCommit`'s uniqueness makes the number the successor of the counter.
`TypeCorrect` needs `IInv` as well, since only the locked row covers a debit.

Under `LockedSpec`, `LockedInv` adds what each request has read (`AsRead`): a return
still fits what may come back, a void still finds its sale active and, once it holds
the rows, its balance and its net charge current. A checkout that holds its rows keeps
the balance and the limit it read only until another checkout commits, and then its
invoice number is taken and it fails: that is all that keeps two charges apart.
`RecordedKeysAreClosed` needs no more than the types: it is about steps. A row of the
key table is never removed or changed, and a checkout that begins has looked its key
up; so of a recorded key the sales made and the checkouts trying it (`SoldWith`,
`Trying`) only ever become fewer. That a key sells *once* is false as the code is
(`SalesRetry`).

**Khata.** `IInv` is `TypeOK`, `ReqsOK` (a save writes the balance it read, and never
a closed account; a void that holds its lock has read what the sale owes now),
`OneVoid` (two voids never hold one sale), `AccountsOK` (an account not there has no
rows and no sales, an approved one has its terms) and the two invariants. A save whose
balance is out of date marks its account clobbered; every other change of a balance
comes with its row. `OldestFirst` is about one repayment's step, and follows from
the types and a lemma on what a repayment leaves of each bill.

**Back office.** `LedgerInv` has what a buyer read still name a bill and suffice for
the debit note (`BuyerOK`), no documents without a bill (`DocumentsOK`), and an order
with a bill closed unless a stale write reopened it (`OrdersOK`); `CountInv` has who
is to reverse an adjustment hold the difference it records, unless it was decided
since. The refinement needs no more than the types, since every write to a shelf
is one step with its movement.

**Office.** `IInv` has one invariant for each service, kept by its own steps and
untouched by the others' (`StepOfOne`):
- leaves: the days a decision will move are those of the status it read less those
  of the status it gives;
- payroll: the rows a run will write are undecided while it holds them, or stale;
- accounting: an answered month is in the table, in what every load has read that no
  answer overtook, and in the cache while it is fresh and holds such a load;
- shifts: a report counts only what was begun since its shift was opened (`Since`). A
  shift that no two requests raced to open or to close is closed by one request, and
  open until then (`ClosingOK`); what an opening has seen is closed, and all it counted
  was begun before the new shift (`TabOK`). So of two such shifts one is over, and has
  counted everything it will, when the other opens (`SuccessionOK`), whatever time its
  closing is stamped with;
- loyalty: a ledger has one entry of a kind for a sale and reverses only what is
  there (`LedgerOK`); a void in flight holds exactly what is left to reverse of its
  sale, or is of a walk-in since merged away (`ServerOK`); a merge in flight knows
  the walk-in's balance, since it locked it. A sale's worth is then what is left to
  reverse (`WorthLeft`), a merge changes no sale's worth (`WorthSame`), and each
  step's change of a balance is the change of the sum (`TotalChange`,
  `TotalsMerged`);
- reviews: one writer holds the product, and what it is about to commit is the
  aggregate of the table as it will be.

**Pickup orders.** The handlers act on rows loaded statements ago, so `IInv` keeps what
they know in sets that only grow: the orders placed, those with a sale, those with
redeemed points, the attempts made.
- a checkout has placed the orders it is past, and its first order has no redeemed
  points before it writes their row: no other checkout in flight is of these orders
  (`CheckoutOK`, `OneCheckout`);
- a handler works on orders that are there, and every order of a settled group that it
  skips or has passed has its sale (`HandlerOK`). The order in which it works is that
  of the group (`Position`), so that "passed" means the same to every handler;
- a paid order has its sale, an attempt's orders are placed (`TablesOK`);
- what a request took off the shelf for a sale not made yet is counted (`ShelfOK`).

The wallet's invariant needs no more than these: each step's change of the balance is
the change of one row, or of one request's row to come.

What is promised of an order needs more, as every guard is read without a lock. A second
invariant, `Known`, is about the orders outside the history `contested`:
- the orders of two requests overlap only in `contested`, to which a request adds, as it
  begins, what another is at work on;
- what a request knows of the others holds (`KnowsOK`): an order to be placed is not
  there, one being sold is unpaid and has the status that was read, one being handed
  over is open, one being ended is uncollected, and a ledger row to be written is not
  there yet;
- nothing is collected unpaid (`RowOK`), and a sold order is paid for or about to be,
  by the one request that sold it (`SoldOnce`).

`OthersKnow` is where the writes of one request are compared with what another knows:
each writes only the orders it is at work on. So no restriction on how many requests are
in flight is needed, and a handler that dies leaves what it did. For the refinement each
write of an order is one of the steps of its row that `Moves` allows, which `OrderProgress`
maps to a step of `PickupOrders`; a beginning that contests orders is `Dispute`, and a
write of a contested order `GoAstray`.

**Sums.** Balances, wallets and aggregates are sums over sets, defined by
recursion. `SumTheorems` proves the facts about them the other proofs need (the sum
of an update, of a part, of a union) by first-order induction on the subsets of a
finite set, the property being a set of subsets (`SubsetInduction`). To this end the
sets summed over are assumed finite (`LeaveIds`, `Docs`, `Posts`, `Receipts`,
`Employees`, `Products`, `Branches`, `Lines`, `Sales`, `Orders`, `Workers`), which a
table always is.

**Only model-checked:** the liveness properties (`EndedGivesBack`,
`CapturedIsSettled`), which are out of the provers' reach as is whatever needs ENABLED;
and of pickup orders `SettledEqualsCaptured`. Every other property of a passing run is a
theorem. The theorems about `LockedSpec` are false for `Spec`, as
section 7 lists; all the others are about the code as it is.

## 7. What the checks show

Where a row lock is taken before the row is read, the code is right. Where a value
is incremented in SQL (`adjustAnnualLeaveBalance`, the wallet's updates) or taken
again under the lock (`paid_amount`, a count's difference), it is right without one.

Three runs contradict a sentence of the repository, quoted in `PROJECT.json`
under `findings`: a receipt added to text, a retry with a key that is still in
flight, and two deliveries of one PayHere notice.

Other disagreements met while modelling have the same causes. Each can be
seen by checking the named property under `Spec`, or without its history variable:

| Where | What |
|---|---|
| `shipments.service.ts:593` | dispatch adds a negative number to text, which makes no number: no dispatch of stocked goods commits (`InventoryRow!Refused`) |
| `shipments.service.ts:242`, `:353` | a scan or a courier saved as read reopens a delivered shipment (`TerminalShipments`) |
| `idempotency-key.entity.ts:27` | the key alone is primary: a key used by two cashiers (`OneSalePerKey`, two `Cashiers`) |
| `returns.service.ts:101`, `pos-void.service.ts:86` | two returns, or two voids, pass the check made before the transaction (`ReturnsClamped`, `LedgerMatchesSales`) |
| `pos-write.service.ts:706` | a repayment between a checkout's read and write of the balance is lost (`BalanceMatchesRows`) |
| `customer-orders.service.ts:626`, `:568` | two fulfilments, or a cancellation over one (`OneSalePerOrder`, `ImplementsPickup` without `contested`) |
| `customer-orders.service.ts:343` | the last order takes what is left of the points' discount, which can be more than the order when what it leaves to pay is below the rounding of the others, half a cent each; the sale caps the discount (`:907`), and the ledger gains more than was captured (`SettledEqualsCaptured` without `Excess`) |
| `credit-accounts.service.ts:195` | a manager's save puts an old balance back (`RowsExplainBalance` without `clobbered`) |
| `credit-accounts.service.ts:258` | a REJECTED account can be closed, although the comment says ACTIVE or SUSPENDED |
| `grns.service.ts:147`, `purchase-returns.service.ts:84` | an order received twice, a bill settled beyond its total (`BillsAddUp` without `raced`) |
| `employee-leaves.service.ts:148` | two approvals debit the wallet twice (`WalletMatchesLeaves` without `contested`); approvals of different leaves drive it below zero, which the comment at `:141-143` rules out |
| `payroll.service.ts:145` | a run puts a row paid meanwhile back to Pending (`PaidIsKept` without `stale`), which `payroll.entity.ts:19-21` leaves to the service to reject |
| `salary-structures.service.ts:74` | two structures of one employee are created at once, neither sees the other to close it, and both are Active on the same dates: there is no row yet on which the two would "still serialise on the row update" (`:27-32`). A structure with an end date is not closed by one created inside it either, since `create` looks for open-ended ones only (`:75`) |
| `fiscal-periods.service.ts:71` | a load overtaken by a lock reopens the month for 15 seconds (`ClosedMonthsRefuse` without `overtaken`) |
| `pos-void.service.ts:239` | a void over a merge reverses no points (`WalletsMatchSales` without `missed`) |
| `products.service.ts:224` | an edit of a product puts its old review columns back (`AggregatesConverge` without `overlaid`) |
| `shifts.service.ts:116`, `:125` | a closing that read its shift before another request closed it writes the report again, with a later `closedAt` that may reach into the next shift: what is sold there is in both reports (`CountedOnce` without `raced`) |
| `shifts.service.ts:52` | two openings overlap and both insert a shift, although "One open shift per cashier" (`:39`, `pos-shift.entity.ts:17`) |
| `shifts.service.ts:91` | two pay-outs, each covered alone, overdraw one drawer |
| `multi-tender-calculator.service.ts:103` | a sale on store credit has no balance due, so a repayment has no sale to settle, although `receivables.service.ts:179` expects some |

## 8. Not modelled

| Part | Why |
|---|---|
| POS legacy transactions | `createTransaction` repeats `createSale`'s protocol with fewer effects |
| Customer groups | a shared cart is rows that members edit; its checkout is the grouped one of `CustomerOrders`, then the cart is cleared |
| Held sales, discount schemes, catalogue | single-row CRUD without a protocol between requests |
| Authentication and users | no stock or money; the one effect on a wallet, the merge, is in `Loyalty` |
| Pricing, tax, rounding, payslip formulas | arithmetic on one request's input, which unit tests reach; no interleaving |
| Product batches, expiry, analytics, audit, admin portal | reports and append-only logs |
| Notifications, chat, email, realtime | sends after a commit; a send that throws fails a request that took effect, whose retry the status refuses |
| Seeds, migrations, web client, `docs/sample-project` | run once on an idle system, views, or another program |

The map covers the protocol-bearing services nearly whole and about one line in
seventeen of the repository: most of the rest is the client, DTOs, controllers of
reads, seeds, tests' fixtures and the sample project kept under `docs/`.

## 9. Plan

What is left, in order of importance:

1. `SettledEqualsCaptured` as a theorem. `Known` gives that the orders of an uncontested
   checkout are written by one request at a time; what is left is the arithmetic of the
   shares, which add up to the amount captured however they were rounded.
2. The hazards that no property covers yet (`hazards` in `PROJECT.json`), first of them
   a checkout that dies between the debit of the points and the orders' discounts.
