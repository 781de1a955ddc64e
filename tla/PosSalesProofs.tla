--------------------------- MODULE PosSalesProofs ---------------------------
(***************************************************************************)
(* Theorems about PosSales, for any numbers of products, sales, keys and   *)
(* requests in flight, any checkouts and any subset of the endpoints.      *)
(***************************************************************************)
EXTENDS LockedSales, SumTheorems, TLAPS

-----------------------------------------------------------------------------
(***************************************************************************)
(* The inductive invariant: the rows' types as far as the theorems need    *)
(* them; what a request in flight holds; that a row lock has one holder;   *)
(* and that what a holder will write is the row as it still is, plus or    *)
(* minus its own cart.                                                     *)
(***************************************************************************)
Locked == {"saleLocked", "voidLocked"}

RowsOK ==
  /\ stock \in [Products -> Int]
  /\ moved \in [Products -> Int]
  /\ sale \in [Sales -> SaleRow \cup {NoSale}]
  /\ counter \in Nat

RequestOK(r) ==
  /\ r.op \in {"sale", "saleLocked"} => r.form \in Forms
  /\ r.op = "saleLocked" => r.invoice \in Nat \ {0}
  /\ r.op \in {"void", "voidLocked", "return"} => r.id \in Sales /\ Made(r.id)
  /\ r.op = "return" => r.good \in Carts
  /\ r.op \in Locked => r.left \in [Products -> Int]

RequestsOK ==
  /\ req = [w \in Workers |-> req[w]]
  /\ \A w \in Workers : RequestOK(req[w])

OneHolder ==
  \A v, w \in Workers, p \in Products : Holds(v, p) /\ Holds(w, p) => v = w

Change(r, p) ==
  IF r.op = "saleLocked" THEN -CartOf(r)[p] ELSE CartOf(r)[p]

LeftIsCurrent ==
  \A w \in Workers, p \in Products :
    Holds(w, p) => req[w].left[p] = stock[p] + Change(req[w], p)

IInv ==
  RowsOK /\ RequestsOK /\ OneHolder /\ LeftIsCurrent
    /\ ShelfConservation /\ InvoicesSequential

-----------------------------------------------------------------------------
(***************************************************************************)
(* Rows and carts.                                                         *)
(***************************************************************************)
LEMMA FormHasCart ==
  ASSUME NEW f \in Forms PROVE f.cart \in [Products -> Nat]
BY FormsAssumption DEF Carts

LEMMA MadeRow ==
  ASSUME RowsOK, NEW s \in Sales
  PROVE  /\ Made(s) => sale[s] \in SaleRow /\ sale[s].form \in Forms
         /\ sale[s].status \in {"Active", "Voided"} => Made(s)
BY DEF RowsOK, Made, SaleRow, NoSale

LEMMA RowIsMade ==
  ASSUME NEW r \in SaleRow PROVE r # NoSale
BY DEF SaleRow, NoSale

LEMMA HolderCart ==
  ASSUME RowsOK, RequestsOK, NEW w \in Workers, req[w].op \in Locked
  PROVE  CartOf(req[w]) \in [Products -> Nat]
<1>1. CASE req[w].op = "saleLocked"
  BY <1>1, FormHasCart DEF RequestsOK, RequestOK, CartOf
<1>2. CASE req[w].op = "voidLocked"
  <2>1. req[w].id \in Sales /\ sale[req[w].id].form \in Forms
    BY <1>2, MadeRow DEF RequestsOK, RequestOK
  <2>2. QED
    BY <1>2, <2>1, FormHasCart DEF CartOf
<1>3. QED
  BY <1>1, <1>2 DEF Locked

-----------------------------------------------------------------------------
(***************************************************************************)
(* What a step does to the requests that do not take it.                   *)
(***************************************************************************)
\* Sales made keep their form and their number.
SalesKept ==
  \A s \in Sales :
    Made(s) => /\ Made(s)'
               /\ sale'[s].form = sale[s].form
               /\ sale'[s].invoice = sale[s].invoice

Moves(w, r) ==
  /\ w \in Workers
  /\ req' = [req EXCEPT ![w] = r]

LEMMA MovesOne ==
  ASSUME RequestsOK, NEW w, NEW r, Moves(w, r)
  PROVE  /\ w \in Workers
         /\ req'[w] = r
         /\ \A v \in Workers : v # w => req'[v] = req[v]
         /\ req' = [v \in Workers |-> req'[v]]
BY DEF RequestsOK, Moves

LEMMA RequestKept ==
  ASSUME RequestsOK, SalesKept, NEW v \in Workers
  PROVE  RequestOK(req[v])'  \/ req'[v] # req[v]
BY DEF RequestsOK, SalesKept, RequestOK, Made

LEMMA HoldsKept ==
  ASSUME RowsOK, RequestsOK, SalesKept, NEW v \in Workers, req'[v] = req[v]
  PROVE  /\ CartOf(req[v])' = CartOf(req[v]) \/ req[v].op \notin Locked
         /\ \A p \in Products : Holds(v, p)' <=> Holds(v, p)
         /\ \A p \in Products : Holds(v, p) => Change(req[v], p)' = Change(req[v], p)
<1>1. CASE req[v].op = "saleLocked"
  BY <1>1 DEF CartOf, Holds, Items, Change
<1>2. CASE req[v].op = "voidLocked"
  <2>1. sale'[req[v].id].form = sale[req[v].id].form
    BY <1>2 DEF SalesKept, RequestsOK, RequestOK
  <2>2. QED
    BY <1>2, <2>1 DEF CartOf, Holds, Items, Change
<1>3. CASE req[v].op \notin Locked
  BY <1>3 DEF Holds, Locked
<1>4. QED
  BY <1>1, <1>2, <1>3 DEF Locked

-----------------------------------------------------------------------------
(***************************************************************************)
(* Steps are of two kinds.  After the first the request that moved holds   *)
(* no lock: it began, ended, or wrote what it had locked.                  *)
(***************************************************************************)
LEMMA UnlockedStep ==
  ASSUME IInv, RowsOK', SalesKept,
         NEW w \in Workers, NEW r, Moves(w, r), r.op \notin Locked, RequestOK(r)',
         \A p \in Products : stock'[p] - moved'[p] = stock[p] - moved[p],
         \A p \in Products, v \in Workers :
           v # w /\ Holds(v, p) => stock'[p] = stock[p]
  PROVE  RequestsOK' /\ OneHolder' /\ LeftIsCurrent' /\ ShelfConservation'
<1>1. /\ req'[w] = r
      /\ \A v \in Workers : v # w => req'[v] = req[v]
      /\ req' = [v \in Workers |-> req'[v]]
  BY MovesOne DEF IInv
<1>2. \A v \in Workers : RequestOK(req[v])' \/ v = w
  BY <1>1, RequestKept DEF IInv
<1>3. RequestOK(req[w])'
  BY <1>1 DEF RequestOK, Made
<1>4. RequestsOK'
  BY <1>1, <1>2, <1>3 DEF RequestsOK
<1>5. \A p \in Products : ~Holds(w, p)'
  BY <1>1 DEF Holds, Locked
<1>6. \A v \in Workers, p \in Products :
        Holds(v, p)' => /\ v # w /\ Holds(v, p)
                        /\ Change(req[v], p)' = Change(req[v], p)
  BY <1>1, <1>5, HoldsKept DEF IInv
<1>7. OneHolder'
  BY <1>6 DEF IInv, OneHolder
<1>8. LeftIsCurrent'
  BY <1>1, <1>6 DEF IInv, LeftIsCurrent
<1>9. ShelfConservation'
  BY OpeningAssumption DEF IInv, ShelfConservation, RowsOK, Carts
<1>10. QED
  BY <1>4, <1>7, <1>8, <1>9

\* After the second it holds locks nobody held, and changed nothing yet.
LEMMA LockStep ==
  ASSUME IInv, UNCHANGED tables,
         NEW w \in Workers, NEW r, Moves(w, r), r.op \in Locked, RequestOK(r),
         \A p \in Products : p \in Items(CartOf(r)) =>
           ~StockLocked(p) /\ r.left[p] = stock[p] + Change(r, p)
  PROVE  RequestsOK' /\ OneHolder' /\ LeftIsCurrent'
<1>1. /\ req'[w] = r
      /\ \A v \in Workers : v # w => req'[v] = req[v]
      /\ req' = [v \in Workers |-> req'[v]]
  BY MovesOne DEF IInv
<1>2. RowsOK /\ RequestsOK /\ SalesKept /\ stock' = stock /\ sale' = sale
  BY DEF IInv, SalesKept, Made, tables, shelf
<1>3. \A v \in Workers : RequestOK(req[v])' \/ v = w
  BY <1>1, <1>2, RequestKept
<1>4. RequestOK(req[w])'
  BY <1>1, <1>2 DEF RequestOK, Made
<1>5. RequestsOK'
  BY <1>1, <1>3, <1>4 DEF RequestsOK
<1>6. \A v \in Workers, p \in Products :
        Holds(v, p)' /\ v # w => /\ Holds(v, p)
                                 /\ Change(req[v], p)' = Change(req[v], p)
  BY <1>1, <1>2, HoldsKept
<1>7. \A p \in Products : Holds(w, p)' => p \in Items(CartOf(r))
  BY <1>1, <1>2 DEF Holds, CartOf, Items
<1>8. \A p \in Products : Change(req[w], p)' = Change(r, p)
  BY <1>1, <1>2 DEF Change, CartOf
<1>9. OneHolder'
  BY <1>6, <1>7 DEF IInv, OneHolder, StockLocked
<1>10. LeftIsCurrent'
  <2>1. ASSUME NEW v \in Workers, NEW p \in Products, Holds(v, p)'
        PROVE  (req[v].left[p] = stock[p] + Change(req[v], p))'
    <3>1. CASE v = w
      BY <2>1, <3>1, <1>1, <1>2, <1>7, <1>8
    <3>2. CASE v # w
      BY <2>1, <3>2, <1>1, <1>2, <1>6 DEF IInv, LeftIsCurrent
    <3>3. QED
      BY <3>1, <3>2
  <2>2. QED
    BY <2>1 DEF LeftIsCurrent
<1>11. QED
  BY <1>5, <1>9, <1>10

LEMMA InvoicesKept ==
  ASSUME RowsOK, InvoicesSequential, SalesKept, counter' = counter,
         \A s \in Sales : Made(s)' => Made(s)
  PROVE  InvoicesSequential'
BY DEF InvoicesSequential, SalesKept, RowsOK

-----------------------------------------------------------------------------
(***************************************************************************)
(* Every step of Next preserves the invariant.                             *)
(***************************************************************************)
\* A step that leaves the tables alone and ends without a lock.
LEMMA QuietStep ==
  ASSUME IInv, UNCHANGED <<shelf, sale, counter>>,
         NEW w \in Workers, NEW r, Moves(w, r), r.op \notin Locked, RequestOK(r)
  PROVE  IInv'
<1>1. stock' = stock /\ moved' = moved /\ sale' = sale /\ counter' = counter
  BY DEF shelf
<1>2. RowsOK' /\ SalesKept /\ RequestOK(r)' /\ \A s \in Sales : Made(s)' => Made(s)
  BY <1>1 DEF IInv, RowsOK, SalesKept, Made, RequestOK
<1>3. RequestsOK' /\ OneHolder' /\ LeftIsCurrent' /\ ShelfConservation'
  BY <1>1, <1>2, UnlockedStep
<1>4. InvoicesSequential'
  BY <1>1, <1>2, InvoicesKept DEF IInv
<1>5. QED
  BY <1>2, <1>3, <1>4 DEF IInv

LEMMA RequestStep ==
  ASSUME IInv, NEW w \in Workers, Request(w)
  PROVE  IInv'
<1>1. UNCHANGED <<shelf, sale, counter>>
  BY DEF Request, tables
<1>2. ASSUME NEW form \in Forms, CreateSale(w, form)
      PROVE  IInv'
  <2>1. Moves(w, [op |-> "sale", form |-> form])
    BY <1>2 DEF CreateSale, Begin, Moves
  <2>2. QED
    BY <1>1, <2>1, QuietStep DEF RequestOK, Locked
<1>3. ASSUME NEW s \in Sales, VoidSale(w, s)
      PROVE  IInv'
  <2>1. Moves(w, [op |-> "void", id |-> s])
    BY <1>3 DEF VoidSale, Begin, Moves
  <2>2. QED
    BY <1>1, <1>3, <2>1, QuietStep DEF VoidSale, RequestOK, Locked
<1>4. ASSUME NEW s \in Sales, NEW good \in Fragments(s), NEW bad \in Fragments(s),
             CreateReturn(w, s, good, bad)
      PROVE  IInv'
  <2>1. Moves(w, [op |-> "return", id |-> s, good |-> good, bad |-> bad])
    BY <1>4 DEF CreateReturn, Begin, Moves
  <2>2. good \in Carts
    BY DEF Fragments, Carts
  <2>3. QED
    BY <1>1, <1>4, <2>1, <2>2, QuietStep DEF CreateReturn, RequestOK, Locked
<1>5. QED
  BY <1>2, <1>3, <1>4 DEF Request

LEMMA LockingStep ==
  ASSUME IInv, UNCHANGED tables, RequestsOK', OneHolder', LeftIsCurrent'
  PROVE  IInv'
<1>1. stock' = stock /\ moved' = moved /\ sale' = sale /\ counter' = counter
  BY DEF tables, shelf
<1>2. RowsOK' /\ ShelfConservation'
  BY <1>1 DEF IInv, RowsOK, ShelfConservation
<1>3. InvoicesSequential'
  BY <1>1 DEF IInv, InvoicesSequential, Made
<1>4. QED
  BY <1>2, <1>3 DEF IInv

LEMMA SaleLocksStep ==
  ASSUME IInv, NEW w \in Workers, SaleLocks(w)
  PROVE  IInv'
<1> DEFINE form == req[w].form
           r == [op |-> "saleLocked", form |-> form, invoice |-> counter + 1,
                 left |-> [p \in Products |-> stock[p] - form.cart[p]],
                 balance |-> BalanceOf(form.customer)]
<1>1. form \in Forms /\ form.cart \in [Products -> Nat]
  BY FormHasCart DEF IInv, RequestsOK, RequestOK, SaleLocks
<1>2. Moves(w, r) /\ UNCHANGED tables
  BY DEF SaleLocks, Advance, Moves
<1>3. r.op \in Locked /\ CartOf(r) = form.cart
  BY DEF Locked, CartOf
<1>4. RequestOK(r)
  BY <1>1 DEF RequestOK, IInv, RowsOK
<1>5. \A p \in Products : r.left[p] = stock[p] + Change(r, p)
  BY <1>1, <1>3 DEF Change, IInv, RowsOK
<1>6. \A p \in Items(CartOf(r)) : ~StockLocked(p)
  BY <1>3 DEF SaleLocks
<1>7. RequestsOK' /\ OneHolder' /\ LeftIsCurrent'
  <2> HIDE DEF r
  <2> QED
    BY <1>2, <1>3, <1>4, <1>5, <1>6, LockStep
<1>8. QED
  BY <1>2, <1>7, LockingStep

LEMMA VoidLocksStep ==
  ASSUME IInv, NEW w \in Workers, VoidLocks(w)
  PROVE  IInv'
<1> DEFINE row == sale[req[w].id]
           r == [op |-> "voidLocked", id |-> req[w].id,
                 left |-> [p \in Products |-> stock[p] + row.form.cart[p]],
                 balance |-> BalanceOf(row.form.customer),
                 net |-> onAccount[req[w].id]]
<1>1. req[w].id \in Sales /\ Made(req[w].id) /\ row.form.cart \in [Products -> Nat]
  BY FormHasCart, MadeRow DEF IInv, RequestsOK, RequestOK, VoidLocks
<1>2. Moves(w, r) /\ UNCHANGED tables
  BY DEF VoidLocks, Advance, Moves
<1>3. r.op \in Locked /\ CartOf(r) = row.form.cart
  BY DEF Locked, CartOf
<1>4. RequestOK(r)
  BY <1>1 DEF RequestOK, IInv, RowsOK
<1>5. \A p \in Products : r.left[p] = stock[p] + Change(r, p)
  BY <1>1, <1>3 DEF Change, IInv, RowsOK
<1>6. \A p \in Items(CartOf(r)) : ~StockLocked(p)
  BY <1>3 DEF VoidLocks
<1>7. RequestsOK' /\ OneHolder' /\ LeftIsCurrent'
  <2> HIDE DEF r
  <2> QED
    BY <1>2, <1>3, <1>4, <1>5, <1>6, LockStep
<1>8. QED
  BY <1>2, <1>7, LockingStep

LEMMA SaleCommitStep ==
  ASSUME IInv, NEW w \in Workers, NEW s \in Sales, SaleCommit(w, s)
  PROVE  IInv'
<1> DEFINE form == req[w].form
           after == IF form.key = None THEN Idle
                    ELSE [op |-> "insertKey", id |-> s, form |-> form]
           row == [status |-> "Active", form |-> form, invoice |-> req[w].invoice]
<1>1. /\ req[w].op = "saleLocked" /\ ~Made(s)
      /\ counter = req[w].invoice - 1 /\ counter' = req[w].invoice
      /\ sale' = [sale EXCEPT ![s] = row]
      /\ stock' = [p \in Products |-> IF Holds(w, p) THEN req[w].left[p] ELSE stock[p]]
      /\ moved' = [p \in Products |-> moved[p] - form.cart[p]]
      /\ Moves(w, after)
  BY DEF SaleCommit, Written, Advance, Moves
<1>2. /\ form \in Forms /\ form.cart \in [Products -> Nat]
      /\ req[w].invoice \in Nat \ {0} /\ req[w].left \in [Products -> Int]
  BY <1>1, FormHasCart DEF IInv, RequestsOK, RequestOK, Locked
<1>3. row \in SaleRow /\ row # NoSale
  BY <1>2, RowIsMade DEF SaleRow
<1>4. RowsOK'
  BY <1>1, <1>2, <1>3 DEF IInv, RowsOK
<1>5. /\ Made(s)' /\ sale'[s] = row
      /\ \A t \in Sales : t # s => sale'[t] = sale[t]
  BY <1>1, <1>3 DEF IInv, RowsOK, Made
<1>6. SalesKept
  BY <1>1, <1>5 DEF SalesKept, Made
<1>7. PICK r : Moves(w, r) /\ r = after
  BY <1>1
<1>8. \A p \in Products : stock'[p] - moved'[p] = stock[p] - moved[p]
  <2>1. ASSUME NEW p \in Products, Holds(w, p)
        PROVE  stock'[p] = stock[p] - form.cart[p]
    BY <1>1, <1>2, <2>1 DEF IInv, LeftIsCurrent, Change, CartOf, RowsOK
  <2>2. ASSUME NEW p \in Products, ~Holds(w, p)
        PROVE  stock'[p] = stock[p] /\ form.cart[p] = 0
    BY <1>1, <1>2, <2>2 DEF Holds, CartOf, Items
  <2>3. QED
    BY <1>1, <1>2, <2>1, <2>2 DEF IInv, RowsOK
<1>9. \A p \in Products, v \in Workers : v # w /\ Holds(v, p) => stock'[p] = stock[p]
  BY <1>1 DEF IInv, OneHolder
<1>10. RequestsOK' /\ OneHolder' /\ LeftIsCurrent' /\ ShelfConservation'
  <2>1. r.op \notin Locked /\ RequestOK(r)'
    BY <1>7 DEF RequestOK, Idle, Locked
  <2>2. QED
    BY <1>4, <1>6, <1>7, <1>8, <1>9, <2>1, UnlockedStep
<1>11. InvoicesSequential'
  <2>1. counter \in Nat /\ counter' = counter + 1 /\ sale'[s].invoice = counter + 1
    BY <1>1, <1>2, <1>5 DEF IInv, RowsOK
  <2>2. \A t \in Sales : t # s => (Made(t)' <=> Made(t)) /\ sale'[t] = sale[t]
    BY <1>5 DEF Made
  <2>3. QED
    BY <1>1, <1>5, <2>1, <2>2 DEF IInv, InvoicesSequential
<1>12. QED
  BY <1>4, <1>10, <1>11 DEF IInv

LEMMA VoidCommitStep ==
  ASSUME IInv, NEW w \in Workers, VoidCommit(w)
  PROVE  IInv'
<1> DEFINE s == req[w].id
           cart == sale[s].form.cart
<1>1. /\ req[w].op = "voidLocked" /\ counter' = counter
      /\ sale' = [sale EXCEPT ![s].status = "Voided"]
      /\ stock' = [p \in Products |-> IF Holds(w, p) THEN req[w].left[p] ELSE stock[p]]
      /\ moved' = [p \in Products |-> moved[p] + cart[p]]
      /\ Moves(w, Idle)
  BY DEF VoidCommit, Reversed, Advance, Moves
<1>2. /\ s \in Sales /\ Made(s) /\ sale[s] \in SaleRow
      /\ cart \in [Products -> Nat] /\ req[w].left \in [Products -> Int]
  BY <1>1, FormHasCart, MadeRow DEF IInv, RequestsOK, RequestOK, Locked
<1>3. /\ sale'[s] \in SaleRow /\ sale'[s].form = sale[s].form
      /\ sale'[s].invoice = sale[s].invoice
      /\ \A t \in Sales : t # s => sale'[t] = sale[t]
  BY <1>1, <1>2 DEF IInv, RowsOK, SaleRow
<1>4. RowsOK'
  BY <1>1, <1>2, <1>3 DEF IInv, RowsOK
<1>5. SalesKept /\ \A t \in Sales : Made(t)' => Made(t)
  BY <1>2, <1>3, RowIsMade DEF SalesKept, Made
<1>6. Idle.op \notin Locked /\ RequestOK(Idle)'
  BY DEF RequestOK, Idle, Locked
<1>7. \A p \in Products : stock'[p] - moved'[p] = stock[p] - moved[p]
  <2>1. ASSUME NEW p \in Products, Holds(w, p)
        PROVE  stock'[p] = stock[p] + cart[p]
    BY <1>1, <1>2, <2>1 DEF IInv, LeftIsCurrent, Change, CartOf, RowsOK
  <2>2. ASSUME NEW p \in Products, ~Holds(w, p)
        PROVE  stock'[p] = stock[p] /\ cart[p] = 0
    BY <1>1, <1>2, <2>2 DEF Holds, CartOf, Items
  <2>3. QED
    BY <1>1, <1>2, <2>1, <2>2 DEF IInv, RowsOK
<1>8. \A p \in Products, v \in Workers : v # w /\ Holds(v, p) => stock'[p] = stock[p]
  BY <1>1 DEF IInv, OneHolder
<1>9. RequestsOK' /\ OneHolder' /\ LeftIsCurrent' /\ ShelfConservation'
  BY <1>1, <1>4, <1>5, <1>6, <1>7, <1>8, UnlockedStep
<1>10. InvoicesSequential'
  BY <1>1, <1>5, InvoicesKept DEF IInv
<1>11. QED
  BY <1>4, <1>9, <1>10 DEF IInv

LEMMA ReturnStep ==
  ASSUME IInv, NEW w \in Workers, ReturnTransaction(w)
  PROVE  IInv'
<1> DEFINE good == req[w].good
<1>1. /\ req[w].op = "return" /\ sale' = sale /\ counter' = counter
      /\ \A p \in Items(good) : ~StockLocked(p)
      /\ stock' = [p \in Products |-> stock[p] + good[p]]
      /\ moved' = [p \in Products |-> moved[p] + good[p]]
      /\ Moves(w, Idle)
  BY DEF ReturnTransaction, Advance, Moves
<1>2. good \in [Products -> Nat]
  BY <1>1 DEF IInv, RequestsOK, RequestOK, Carts
<1>3. RowsOK' /\ SalesKept /\ \A s \in Sales : Made(s)' => Made(s)
  BY <1>1, <1>2 DEF IInv, RowsOK, SalesKept, Made
<1>4. Idle.op \notin Locked /\ RequestOK(Idle)'
  BY DEF RequestOK, Idle, Locked
<1>5. \A p \in Products : stock'[p] - moved'[p] = stock[p] - moved[p]
  BY <1>1, <1>2 DEF IInv, RowsOK
<1>6. \A p \in Products, v \in Workers : v # w /\ Holds(v, p) => stock'[p] = stock[p]
  BY <1>1, <1>2 DEF StockLocked, Items, IInv, RowsOK
<1>7. RequestsOK' /\ OneHolder' /\ LeftIsCurrent' /\ ShelfConservation'
  BY <1>1, <1>3, <1>4, <1>5, <1>6, UnlockedStep
<1>8. InvoicesSequential'
  BY <1>1, <1>3, InvoicesKept DEF IInv
<1>9. QED
  BY <1>3, <1>7, <1>8 DEF IInv

LEMMA EndStep ==
  ASSUME IInv, NEW w \in Workers, InsertKey(w) \/ Crash(w) \/ Abort(w)
  PROVE  IInv'
<1>1. Moves(w, Idle) /\ UNCHANGED <<shelf, sale, counter>>
  BY DEF InsertKey, Crash, Abort, Advance, Moves, tables
<1>2. QED
  BY <1>1, QuietStep DEF RequestOK, Idle, Locked

LEMMA NextKeepsIInv == IInv /\ [Next]_vars => IInv'
<1> SUFFICES ASSUME IInv, [Next]_vars
             PROVE  IInv'
  OBVIOUS
<1>1. CASE UNCHANGED <<shelf, sale, counter, req>>
  <2>1. /\ stock' = stock /\ moved' = moved /\ sale' = sale
        /\ counter' = counter /\ req' = req
    BY <1>1 DEF shelf
  <2>2. RowsOK' /\ RequestsOK' /\ ShelfConservation'
    BY <2>1 DEF IInv, RowsOK, RequestsOK, RequestOK, Made, ShelfConservation
  <2>3. OneHolder' /\ LeftIsCurrent'
    BY <2>1 DEF IInv, OneHolder, LeftIsCurrent, Holds, CartOf, Change, Items
  <2>4. InvoicesSequential'
    BY <2>1 DEF IInv, InvoicesSequential, Made
  <2>5. QED
    BY <2>2, <2>3, <2>4 DEF IInv
<1>2. CASE Office
  <2>1. UNCHANGED <<shelf, sale, counter, req>>
    BY <1>2 DEF Office, ReceivePayment, SetCreditLimit
  <2>2. QED
    BY <1>1, <2>1
<1>3. ASSUME NEW w \in Workers, Request(w) \/ Transaction(w)
      PROVE  IInv'
  BY <1>3, RequestStep, SaleLocksStep, SaleCommitStep, VoidLocksStep,
     VoidCommitStep, ReturnStep, EndStep DEF Transaction
<1>4. QED
  BY <1>1, <1>2, <1>3 DEF Next, vars, tables

LEMMA InitHasIInv == Init => IInv
<1> SUFFICES ASSUME Init
             PROVE  IInv
  OBVIOUS
<1>1. RowsOK /\ ShelfConservation
  BY OpeningAssumption DEF Init, RowsOK, ShelfConservation, Carts, Cart0
<1>2. RequestsOK
  BY DEF Init, RequestsOK, RequestOK, Idle, Locked
<1>3. OneHolder /\ LeftIsCurrent
  BY DEF Init, OneHolder, LeftIsCurrent, Holds, Idle
<1>4. InvoicesSequential
  BY DEF Init, InvoicesSequential, Made
<1>5. QED
  BY <1>1, <1>2, <1>3, <1>4 DEF IInv

LEMMA Invariance == Spec => []IInv
BY InitHasIInv, NextKeepsIInv, PTL DEF Spec

-----------------------------------------------------------------------------
\* The inventory and its movement journal never part: no sale, void or return
\* loses the update of another, although each writes what it read earlier.
THEOREM JournalExplainsShelf == Spec => []ShelfConservation
<1>1. IInv => ShelfConservation
  BY DEF IInv
<1>2. QED
  BY <1>1, Invariance, PTL

\* Invoice numbers have no gap and no repetition, whatever checkouts overlap,
\* roll back or open the year together.
THEOREM InvoicesHaveNoGap == Spec => []InvoicesSequential
<1>1. IInv => InvoicesSequential
  BY DEF IInv
<1>2. QED
  BY <1>1, Invariance, PTL

-----------------------------------------------------------------------------
(***************************************************************************)
(* The types of the tables and of the requests.  A void or a return is of  *)
(* a sale there is, and a request that is to write its key has one.        *)
(***************************************************************************)
KeysNamed ==
  \A w \in Workers : req[w].op = "insertKey" => req[w].form.key # None

TypeInv == IInv /\ TypeOK /\ KeysNamed

LEMMA MaxOfZero ==
  ASSUME NEW a \in Int
  PROVE  Max({0, a}) = IF a > 0 THEN a ELSE 0
<1> DEFINE m == IF a > 0 THEN a ELSE 0
<1>1. m \in {0, a} /\ \A y \in {0, a} : m >= y
  OBVIOUS
<1>2. \A x \in {0, a} : (\A y \in {0, a} : x >= y) => x = m
  OBVIOUS
<1>3. QED
  BY <1>1, <1>2 DEF Max

LEMMA SizeIsNat ==
  ASSUME NEW cart \in [Products -> Nat]
  PROVE  Size(cart) \in Nat
<1>1. IsFiniteSet(Products)
  BY TablesAssumption
<1>2. QED
  BY <1>1, SumNat DEF Size

\* A checkout's customer, amounts and key.
LEMMA FormTypes ==
  ASSUME NEW f \in Forms
  PROVE  /\ f.cart \in Carts /\ f.cart \in [Products -> Nat]
         /\ f.customer \in Customers \cup {None} /\ f.key \in Keys \cup {None}
         /\ f.cashier \in Cashiers
         /\ f.tender.cash \in Nat /\ f.tender.credit \in Nat
         /\ f.tender.keep \in BOOLEAN
         /\ Size(f.cart) \in Nat
         /\ Due(f) \in Nat /\ Kept(f) \in Nat
         /\ OnCredit(f) => f.customer \in Customers
<1>1. /\ f \in [cashier : Cashiers, key : Keys \cup {None},
                customer : Customers \cup {None}, cart : Carts, tender : Tenders]
      /\ f.cart \in [Products -> Nat]
  BY FormsAssumption DEF Carts
<1>2. f.tender \in [cash : Nat, credit : Nat, keep : BOOLEAN]
  BY <1>1 DEF Tenders
<1>3. Size(f.cart) \in Nat
  BY <1>1, SizeIsNat
<1>4. Settled(f) \in Nat
  BY <1>2 DEF Settled
<1>5. Due(f) \in Nat /\ Kept(f) \in Nat
  <2> DEFINE z == Size(f.cart)
             t == Settled(f)
  <2>1. /\ Due(f) = IF t < z THEN z - t ELSE 0
        /\ Kept(f) \in {t - z, 0} /\ (t > z \/ Kept(f) = 0)
    BY DEF Due, Kept
  <2>2. t \in Nat /\ z \in Nat
    BY <1>3, <1>4
  <2> HIDE DEF z, t
  <2>3. QED
    BY <2>1, <2>2
<1>6. QED
  BY <1>1, <1>2, <1>3, <1>5 DEF OnCredit

\* One balance of a customer changes.
LEMMA BalanceType ==
  ASSUME TypeOK, NEW b \in Int, NEW c \in Customers, balance' = [balance EXCEPT ![c] = b]
  PROVE  balance' \in [Customers -> Int]
BY DEF TypeOK

LEMMA RequestsType ==
  ASSUME TypeOK, NEW w \in Workers, NEW r \in Requests, Moves(w, r)
  PROVE  req' \in [Workers -> Requests]
BY DEF TypeOK, Moves

\* A step that changes only its own request.
LEMMA QuietTypes ==
  ASSUME TypeInv, UNCHANGED tables, NEW w \in Workers, NEW r \in Requests,
         Moves(w, r), r.op # "insertKey"
  PROVE  TypeOK' /\ KeysNamed'
<1>1. req' \in [Workers -> Requests]
  BY RequestsType DEF TypeInv
<1>2. TypeOK'
  BY <1>1 DEF TypeInv, TypeOK, tables, shelf, books, money
<1>3. \A v \in Workers : req'[v] = IF v = w THEN r ELSE req[v]
  BY DEF TypeInv, TypeOK, Moves
<1>4. QED
  BY <1>2, <1>3 DEF TypeInv, KeysNamed

LEMMA RequestTypes ==
  ASSUME TypeInv, NEW w \in Workers, Request(w)
  PROVE  TypeOK' /\ KeysNamed'
<1>1. UNCHANGED tables
  BY DEF Request
<1>2. ASSUME NEW form \in Forms, CreateSale(w, form)
      PROVE  TypeOK' /\ KeysNamed'
  <2> DEFINE r == [op |-> "sale", form |-> form]
  <2>1. Moves(w, r) /\ r \in Requests /\ r.op # "insertKey"
    BY <1>2 DEF CreateSale, Begin, Moves, Requests
  <2>2. QED
    BY <1>1, <2>1, QuietTypes
<1>3. ASSUME NEW s \in Sales, VoidSale(w, s)
      PROVE  TypeOK' /\ KeysNamed'
  <2> DEFINE r == [op |-> "void", id |-> s]
  <2>1. Moves(w, r) /\ r \in Requests /\ r.op # "insertKey"
    BY <1>3 DEF VoidSale, Begin, Moves, Requests
  <2>2. QED
    BY <1>1, <2>1, QuietTypes
<1>4. ASSUME NEW s \in Sales, NEW good \in Fragments(s), NEW bad \in Fragments(s),
             CreateReturn(w, s, good, bad)
      PROVE  TypeOK' /\ KeysNamed'
  <2> DEFINE r == [op |-> "return", id |-> s, good |-> good, bad |-> bad]
  <2>1. good \in Carts /\ bad \in Carts
    BY DEF Fragments, Carts
  <2>2. Moves(w, r) /\ r \in Requests /\ r.op # "insertKey"
    BY <1>4, <2>1 DEF CreateReturn, Begin, Moves, Requests
  <2>3. QED
    BY <1>1, <2>2, QuietTypes
<1>5. QED
  BY <1>2, <1>3, <1>4 DEF Request

LEMMA SaleLocksTypes ==
  ASSUME TypeInv, NEW w \in Workers, SaleLocks(w)
  PROVE  TypeOK' /\ KeysNamed'
<1> DEFINE form == req[w].form
           left == [p \in Products |-> stock[p] - form.cart[p]]
           r == [op |-> "saleLocked", form |-> form, invoice |-> counter + 1,
                 left |-> left, balance |-> BalanceOf(form.customer)]
<1>1. form \in Forms
  BY DEF TypeInv, IInv, RequestsOK, RequestOK, SaleLocks
<1>2. form.cart \in [Products -> Nat] /\ form.customer \in Customers \cup {None}
  BY <1>1, FormTypes
<1>3. left \in Carts
  <2>1. \A p \in Products : stock[p] \in Nat
    BY DEF TypeInv, TypeOK, Carts
  <2>2. \A p \in Products : stock[p] - form.cart[p] \in Nat
    BY <1>2, <2>1 DEF SaleLocks, Items
  <2>3. QED
    BY <2>2 DEF Carts
<1>4. BalanceOf(form.customer) \in Int /\ counter + 1 \in Nat \ {0}
  BY <1>2 DEF BalanceOf, TypeInv, TypeOK
<1>5. Moves(w, r) /\ UNCHANGED tables
  BY DEF SaleLocks, Advance, Moves
<1>6. r \in Requests /\ r.op # "insertKey"
  <2> HIDE DEF form, left
  <2>1. QED
    BY <1>1, <1>3, <1>4 DEF Requests
<1>7. QED
  <2> HIDE DEF r
  <2>1. QED
    BY <1>5, <1>6, QuietTypes

LEMMA VoidLocksTypes ==
  ASSUME TypeInv, NEW w \in Workers, VoidLocks(w)
  PROVE  TypeOK' /\ KeysNamed'
<1> DEFINE s == req[w].id
           form == sale[s].form
           left == [p \in Products |-> stock[p] + form.cart[p]]
           r == [op |-> "voidLocked", id |-> s, left |-> left,
                 balance |-> BalanceOf(form.customer), net |-> onAccount[s]]
<1>1. s \in Sales /\ form \in Forms
  BY MadeRow DEF TypeInv, IInv, RequestsOK, RequestOK, VoidLocks
<1>2. form.cart \in [Products -> Nat] /\ form.customer \in Customers \cup {None}
  BY <1>1, FormTypes
<1>3. left \in Carts
  <2>1. \A p \in Products : stock[p] + form.cart[p] \in Nat
    BY <1>2 DEF TypeInv, TypeOK, Carts
  <2>2. QED
    BY <2>1 DEF Carts
<1>4. BalanceOf(form.customer) \in Int /\ onAccount[s] \in Int
  BY <1>1, <1>2 DEF BalanceOf, TypeInv, TypeOK
<1>5. Moves(w, r) /\ UNCHANGED tables
  BY DEF VoidLocks, Advance, Moves
<1>6. r \in Requests /\ r.op # "insertKey"
  <2> HIDE DEF form, left, s
  <2>1. QED
    BY <1>1, <1>3, <1>4 DEF Requests
<1>7. QED
  <2> HIDE DEF r
  <2>1. QED
    BY <1>5, <1>6, QuietTypes

LEMMA SaleCommitTypes ==
  ASSUME TypeInv, NEW w \in Workers, NEW s \in Sales, SaleCommit(w, s)
  PROVE  TypeOK' /\ KeysNamed'
<1> DEFINE form == req[w].form
           taken == IF OnCredit(form) THEN form.tender.credit - Kept(form) ELSE 0
           row == [status |-> "Active", form |-> form, invoice |-> req[w].invoice]
           after == IF form.key = None THEN Idle
                    ELSE [op |-> "insertKey", id |-> s, form |-> form]
<1>1. /\ form \in Forms /\ req[w].invoice \in Nat \ {0}
      /\ req[w].left \in Carts /\ req[w].balance \in Int
  <2>1. req[w].op = "saleLocked" /\ req[w] \in Requests
    BY DEF SaleCommit, TypeInv, TypeOK
  <2>2. QED
    BY <2>1 DEF Requests, Idle
<1>2. /\ form.cart \in [Products -> Nat] /\ form.tender.credit \in Nat
      /\ Size(form.cart) \in Nat /\ Due(form) \in Nat /\ Kept(form) \in Nat
      /\ OnCredit(form) => form.customer \in Customers
  BY <1>1, FormTypes
<1>3. taken \in Int
  <2>1. \A a \in Nat, b \in Nat : a - b \in Int
    OBVIOUS
  <2>2. QED
    BY <1>2, <2>1
<1>4. row \in SaleRow
  BY <1>1 DEF SaleRow
<1>5. after \in Requests /\ (after.op = "insertKey" => after.form.key # None)
  BY <1>1 DEF Requests, Idle
<1>6. /\ stock' = [p \in Products |-> IF Holds(w, p) THEN req[w].left[p] ELSE stock[p]]
      /\ moved' = [p \in Products |-> moved[p] - form.cart[p]]
      /\ sale' = [sale EXCEPT ![s] = row]
      /\ due' = [due EXCEPT ![s] = Due(form)]
      /\ posted' = [posted EXCEPT ![s] = Size(form.cart)]
      /\ onAccount' = [onAccount EXCEPT ![s] = taken]
      /\ counter' = req[w].invoice
      /\ balance' = IF OnCredit(form)
                    THEN [balance EXCEPT ![form.customer] = req[w].balance + taken]
                    ELSE balance
      /\ Moves(w, after)
      /\ UNCHANGED <<returned, keys, limit, repaid>>
  BY DEF SaleCommit, Written, Advance, Moves
<1>7. PICK r \in Requests : Moves(w, r) /\ (r.op = "insertKey" => r.form.key # None)
  BY <1>5, <1>6
<1>8. PICK t \in Int : t = taken
  BY <1>3
<1> HIDE DEF form, taken, row, after
<1>9. stock' \in Carts
  BY <1>1, <1>6 DEF TypeInv, TypeOK, Carts
<1>10. moved' \in [Products -> Int]
  BY <1>2, <1>6 DEF TypeInv, TypeOK
<1>11. sale' \in [Sales -> SaleRow \cup {NoSale}] /\ due' \in [Sales -> Nat]
  BY <1>2, <1>4, <1>6 DEF TypeInv, TypeOK
<1>12. posted' \in [Sales -> Int] /\ onAccount' \in [Sales -> Int]
  BY <1>2, <1>6, <1>8 DEF TypeInv, TypeOK
<1>13. balance' \in [Customers -> Int]
  BY <1>1, <1>2, <1>6, <1>8 DEF TypeInv, TypeOK
<1>14. req' \in [Workers -> Requests]
  BY <1>7, RequestsType DEF TypeInv
<1>15. counter' \in Nat
  BY <1>1, <1>6
<1>16. TypeOK'
  BY <1>6, <1>9, <1>10, <1>11, <1>12, <1>13, <1>14, <1>15 DEF TypeInv, TypeOK
<1>17. \A v \in Workers : req'[v] = IF v = w THEN r ELSE req[v]
  BY <1>7 DEF TypeInv, TypeOK, Moves
<1>18. QED
  BY <1>7, <1>16, <1>17 DEF TypeInv, KeysNamed

LEMMA VoidCommitTypes ==
  ASSUME TypeInv, NEW w \in Workers, VoidCommit(w)
  PROVE  TypeOK' /\ KeysNamed'
<1> DEFINE s == req[w].id
           form == sale[s].form
<1>1. /\ s \in Sales /\ Made(s) /\ req[w].left \in Carts
      /\ req[w].balance \in Int /\ req[w].net \in Int
  <2>1. req[w].op = "voidLocked" /\ req[w] \in Requests
    BY DEF VoidCommit, TypeInv, TypeOK
  <2>2. QED
    BY <2>1 DEF Requests, Idle, TypeInv, IInv, RequestsOK, RequestOK
<1>2. sale[s] \in SaleRow /\ form \in Forms
  BY <1>1, MadeRow DEF TypeInv, IInv
<1>3. /\ form.cart \in [Products -> Nat] /\ Size(form.cart) \in Nat
      /\ OnCredit(form) => form.customer \in Customers
  BY <1>2, FormTypes
<1>4. /\ stock' = [p \in Products |-> IF Holds(w, p) THEN req[w].left[p] ELSE stock[p]]
      /\ moved' = [p \in Products |-> moved[p] + form.cart[p]]
      /\ sale' = [sale EXCEPT ![s].status = "Voided"]
      /\ posted' = [posted EXCEPT ![s] = posted[s] - Size(form.cart)]
      /\ onAccount' = [onAccount EXCEPT ![s] = onAccount[s] - req[w].net]
      /\ balance' = IF OnCredit(form)
                    THEN [balance EXCEPT ![form.customer] = req[w].balance - req[w].net]
                    ELSE balance
      /\ Moves(w, Idle)
      /\ UNCHANGED <<due, returned, counter, keys, limit, repaid>>
  BY DEF VoidCommit, Reversed, Advance, Moves
<1>5. Idle \in Requests /\ Idle.op # "insertKey"
  BY DEF Requests, Idle
<1>6. sale' \in [Sales -> SaleRow \cup {NoSale}]
  BY <1>1, <1>2, <1>4 DEF TypeInv, TypeOK, SaleRow
<1> HIDE DEF s, form
<1>7. stock' \in Carts
  BY <1>1, <1>4 DEF TypeInv, TypeOK, Carts
<1>8. moved' \in [Products -> Int]
  BY <1>3, <1>4 DEF TypeInv, TypeOK
<1>9. posted' \in [Sales -> Int] /\ onAccount' \in [Sales -> Int]
  BY <1>1, <1>3, <1>4 DEF TypeInv, TypeOK
<1>10. balance' \in [Customers -> Int]
  BY <1>1, <1>3, <1>4 DEF TypeInv, TypeOK
<1>11. req' \in [Workers -> Requests]
  BY <1>4, <1>5, RequestsType DEF TypeInv
<1>12. TypeOK'
  BY <1>4, <1>6, <1>7, <1>8, <1>9, <1>10, <1>11 DEF TypeInv, TypeOK
<1>13. \A v \in Workers : req'[v] = IF v = w THEN Idle ELSE req[v]
  BY <1>4 DEF TypeInv, TypeOK, Moves
<1>14. QED
  BY <1>5, <1>12, <1>13 DEF TypeInv, KeysNamed

LEMMA ReturnTypes ==
  ASSUME TypeInv, NEW w \in Workers, ReturnTransaction(w)
  PROVE  TypeOK' /\ KeysNamed'
<1> DEFINE s == req[w].id
           good == req[w].good
           back == [p \in Products |-> req[w].good[p] + req[w].bad[p]]
<1>1. s \in Sales /\ good \in Carts /\ req[w].bad \in Carts
  <2>1. req[w].op = "return" /\ req[w] \in Requests
    BY DEF ReturnTransaction, TypeInv, TypeOK
  <2>2. QED
    BY <2>1 DEF Requests, Idle
<1>2. back \in [Products -> Nat] /\ Size(back) \in Nat
  <2>1. back \in [Products -> Nat]
    BY <1>1 DEF Carts
  <2>2. QED
    BY <2>1, SizeIsNat
<1>3. /\ stock' = [p \in Products |-> stock[p] + good[p]]
      /\ moved' = [p \in Products |-> moved[p] + good[p]]
      /\ returned' = [returned EXCEPT ![s] = [p \in Products |-> returned[s][p] + back[p]]]
      /\ posted' = [posted EXCEPT ![s] = posted[s] - Size(back)]
      /\ Moves(w, Idle)
      /\ UNCHANGED <<sale, due, onAccount, counter, keys, balance, limit, repaid>>
  BY DEF ReturnTransaction, Advance, Moves, money
<1>4. Idle \in Requests /\ Idle.op # "insertKey"
  BY DEF Requests, Idle
<1> HIDE DEF s, good, back
<1>5. stock' \in Carts /\ moved' \in [Products -> Int]
  BY <1>1, <1>3 DEF TypeInv, TypeOK, Carts
<1>6. returned' \in [Sales -> Carts]
  <2>1. [p \in Products |-> returned[s][p] + back[p]] \in Carts
    BY <1>1, <1>2 DEF TypeInv, TypeOK, Carts
  <2>2. QED
    BY <1>3, <2>1 DEF TypeInv, TypeOK
<1>7. posted' \in [Sales -> Int]
  BY <1>1, <1>2, <1>3 DEF TypeInv, TypeOK
<1>8. req' \in [Workers -> Requests]
  BY <1>3, <1>4, RequestsType DEF TypeInv
<1>9. TypeOK'
  BY <1>3, <1>5, <1>6, <1>7, <1>8 DEF TypeInv, TypeOK
<1>10. \A v \in Workers : req'[v] = IF v = w THEN Idle ELSE req[v]
  BY <1>3 DEF TypeInv, TypeOK, Moves
<1>11. QED
  BY <1>4, <1>9, <1>10 DEF TypeInv, KeysNamed

LEMMA EndTypes ==
  ASSUME TypeInv, NEW w \in Workers, InsertKey(w) \/ Crash(w) \/ Abort(w)
  PROVE  TypeOK' /\ KeysNamed'
<1>1. Idle \in Requests /\ Idle.op # "insertKey"
  BY DEF Requests, Idle
<1>2. Moves(w, Idle)
  BY DEF InsertKey, Crash, Abort, Advance, Moves
<1>3. CASE UNCHANGED tables
  BY <1>1, <1>2, <1>3, QuietTypes
<1>4. CASE InsertKey(w)
  <2> DEFINE row == [key |-> req[w].form.key, cashier |-> req[w].form.cashier,
                     id |-> req[w].id]
  <2>1. req[w].form \in Forms /\ req[w].id \in Sales /\ req[w].form.key # None
    <3>1. req[w].op = "insertKey" /\ req[w] \in Requests
      BY <1>4 DEF InsertKey, TypeInv, TypeOK
    <3>2. QED
      BY <3>1 DEF Requests, Idle, TypeInv, KeysNamed
  <2>2. row \in [key : Keys, cashier : Cashiers, id : Sales]
    BY <2>1, FormTypes
  <2>3. keys' \subseteq keys \cup {row}
    BY <1>4 DEF InsertKey
  <2>4. req' \in [Workers -> Requests]
    BY <1>1, <1>2, RequestsType DEF TypeInv
  <2>5. TypeOK'
    BY <1>4, <2>2, <2>3, <2>4 DEF InsertKey, TypeInv, TypeOK, shelf, books, money
  <2>6. \A v \in Workers : req'[v] = IF v = w THEN Idle ELSE req[v]
    BY <1>2 DEF TypeInv, TypeOK, Moves
  <2>7. QED
    BY <1>1, <2>5, <2>6 DEF TypeInv, KeysNamed
<1>5. QED
  BY <1>3, <1>4 DEF Crash, Abort

\* No repayment makes a sale's due negative.
LEMMA DueAfterIsNat ==
  ASSUME TypeOK, NEW c, NEW s \in Sales, NEW amount \in Int
  PROVE  DueAfter(c, s, amount) \in Nat
<1>1. IsFiniteSet(Sales)
  BY TablesAssumption
<1>2. Older(c, s) \subseteq Sales
  BY DEF Older, Unpaid
<1>3. IsFiniteSet(Older(c, s)) /\ \A t \in Older(c, s) : due[t] \in Nat
  BY <1>1, <1>2, FS_Subset DEF TypeOK
<1>4. Dues(Older(c, s)) \in Nat
  BY <1>3, SumNat DEF Dues
<1>5. amount - Dues(Older(c, s)) \in Int
  BY <1>4
<1>6. Max({0, amount - Dues(Older(c, s))}) \in Int
  BY <1>5, MaxOfZero
<1>7. due[s] - Max({0, amount - Dues(Older(c, s))}) \in Int
  BY <1>6 DEF TypeOK
<1>8. QED
  BY <1>7, MaxOfZero DEF DueAfter

LEMMA OfficeTypes ==
  ASSUME TypeInv, Office
  PROVE  TypeOK' /\ KeysNamed'
<1>1. ASSUME NEW c \in Customers, NEW amount \in Repayments, ReceivePayment(c, amount)
      PROVE  TypeOK' /\ KeysNamed'
  <2>1. amount \in Nat
    BY MoneyAssumption
  <2>2. /\ balance' = [balance EXCEPT ![c] = balance[c] - amount]
        /\ repaid' = [repaid EXCEPT ![c] = repaid[c] + amount]
        /\ due' = [s \in Sales |->
                     IF s \in Unpaid(c) THEN DueAfter(c, s, amount) ELSE due[s]]
        /\ UNCHANGED <<stock, moved, sale, returned, posted, onAccount,
                       counter, keys, limit, req>>
    BY <1>1 DEF ReceivePayment, shelf
  <2>3. due' \in [Sales -> Nat]
    BY <2>1, <2>2, DueAfterIsNat DEF TypeInv, TypeOK
  <2>4. balance' \in [Customers -> Int] /\ repaid' \in [Customers -> Nat]
    BY <2>1, <2>2 DEF TypeInv, TypeOK
  <2>5. QED
    BY <2>2, <2>3, <2>4 DEF TypeInv, TypeOK, KeysNamed
<1>2. ASSUME NEW c \in Customers, NEW l \in Limits \cup {None}, SetCreditLimit(c, l)
      PROVE  TypeOK' /\ KeysNamed'
  <2>1. limit' \in [Customers -> Limits \cup {None}]
    BY <1>2 DEF SetCreditLimit, TypeInv, TypeOK
  <2>2. UNCHANGED <<stock, moved, sale, due, returned, posted, onAccount,
                    counter, keys, balance, repaid, req>>
    BY <1>2 DEF SetCreditLimit, shelf, books
  <2>3. QED
    BY <2>1, <2>2 DEF TypeInv, TypeOK, KeysNamed
<1>3. QED
  BY <1>1, <1>2 DEF Office

LEMMA NextKeepsTypes == TypeInv /\ [Next]_vars => TypeInv'
<1> SUFFICES ASSUME TypeInv, [Next]_vars
             PROVE  TypeInv'
  OBVIOUS
<1>1. ASSUME UNCHANGED vars PROVE TypeOK' /\ KeysNamed'
  BY <1>1 DEF TypeInv, TypeOK, KeysNamed, vars, tables, shelf, books, money
<1>2. IInv'
  BY NextKeepsIInv DEF TypeInv
<1>3. ASSUME TypeOK' /\ KeysNamed' PROVE TypeInv'
  BY <1>2, <1>3 DEF TypeInv
<1>4. ASSUME NEW w \in Workers, Request(w) \/ Transaction(w)
      PROVE  TypeOK' /\ KeysNamed'
  BY <1>4, RequestTypes, SaleLocksTypes, SaleCommitTypes, VoidLocksTypes,
     VoidCommitTypes, ReturnTypes, EndTypes DEF Transaction
<1>5. QED
  BY <1>2, <1>1, <1>3, <1>4, OfficeTypes DEF Next

LEMMA InitHasTypes == Init => TypeInv
<1> SUFFICES ASSUME Init
             PROVE  TypeInv
  OBVIOUS
<1>1. IInv
  BY InitHasIInv
<1>2. TypeOK
  BY OpeningAssumption DEF Init, TypeOK, Cart0, Carts, Requests
<1>3. KeysNamed
  BY DEF Init, KeysNamed, Idle
<1>4. QED
  BY <1>1, <1>2, <1>3 DEF TypeInv

LEMMA TypesInvariance == Spec => []TypeInv
BY InitHasTypes, NextKeepsTypes, PTL DEF Spec

\* Rows and requests have their types, and no inventory row is ever negative,
\* although the quantity a checkout writes was computed some statements earlier
\* (decrementInventoryWithLock).
THEOREM TypeCorrect == Spec => []TypeOK
<1>1. TypeInv => TypeOK
  BY DEF TypeInv
<1>2. QED
  BY <1>1, TypesInvariance, PTL

-----------------------------------------------------------------------------
(***************************************************************************)
(* LockedSales: with the rows that a request decides on kept, what it read *)
(* is still so when it commits.  A charge's balance and limit are kept     *)
(* until another checkout commits, after which the charge cannot.          *)
(***************************************************************************)
AsRead(r) ==
  /\ r.op = "return" =>
       \A p \in Products : r.good[p] + r.bad[p] <= Returnable(r.id, p)
  /\ r.op \in {"void", "voidLocked"} => sale[r.id].status = "Active"
  /\ r.op = "voidLocked" =>
       /\ r.net = onAccount[r.id]
       /\ OnCredit(sale[r.id].form) => r.balance = balance[sale[r.id].form.customer]
  /\ r.op = "saleLocked" =>
       /\ r.invoice <= counter + 1
       /\ (r.invoice = counter + 1 /\ OnCredit(r.form)) =>
            r.balance = balance[r.form.customer] /\ WithinLimit(r.form)

\* Nothing comes back of a sale not made, and one without credit has no rows.
BooksOK ==
  \A s \in Sales :
    /\ ~Made(s) => returned[s] = Cart0
    /\ Made(s) /\ ~OnCredit(sale[s].form) => onAccount[s] = 0

LockedInv ==
  /\ TypeInv /\ \A w \in Workers : AsRead(req[w])
  /\ BooksOK /\ ReturnsClamped /\ LedgerMatchesSales /\ BalanceMatchesRows

LEMMA InFlightSale ==
  ASSUME TypeInv, NEW w \in Workers
  PROVE  /\ req[w].op \in {"void", "voidLocked", "return"} =>
              /\ req[w].id \in Sales /\ Made(req[w].id)
              /\ sale[req[w].id] \in SaleRow /\ sale[req[w].id].form \in Forms
         /\ req[w].op \in {"sale", "saleLocked"} => req[w].form \in Forms
         /\ req[w].op = "saleLocked" =>
              req[w].invoice \in Nat \ {0} /\ req[w].balance \in Int
         /\ req[w].op = "voidLocked" => req[w].balance \in Int /\ req[w].net \in Int
         /\ req[w].op = "return" => req[w].good \in Carts /\ req[w].bad \in Carts
<1>1. req[w] \in Requests
  BY DEF TypeInv, TypeOK
<1>2. QED
  BY <1>1, MadeRow DEF Requests, Idle, TypeInv, IInv, RequestsOK, RequestOK

\* What another request has read stays so.
LEMMA OthersAsRead ==
  ASSUME LockedInv, RowsReadAreKept, counter' \in {counter, counter + 1},
         \A s \in Sales : sale'[s] = sale[s] => onAccount'[s] = onAccount[s],
         NEW v \in Workers, req'[v] = req[v]
  PROVE  AsRead(req[v])'
<1> DEFINE r == req[v]
<1>0. counter \in Nat /\ counter' \in Nat /\ AsRead(r)
  BY DEF LockedInv, TypeInv, TypeOK
<1>1. CASE r.op = "return"
  <2>1. sale'[r.id] = sale[r.id] /\ returned'[r.id] = returned[r.id]
    BY <1>1 DEF RowsReadAreKept
  <2>2. QED
    BY <1>0, <1>1, <2>1 DEF AsRead, Returnable
<1>2. CASE r.op = "void"
  <2>1. sale'[r.id] = sale[r.id]
    BY <1>2 DEF RowsReadAreKept
  <2>2. QED
    BY <1>0, <1>2, <2>1 DEF AsRead
<1>3. CASE r.op = "voidLocked"
  <2>1. sale'[r.id] = sale[r.id] /\ balance' = balance /\ r.id \in Sales
    BY <1>3, InFlightSale DEF RowsReadAreKept, LockedInv
  <2>2. onAccount'[r.id] = onAccount[r.id]
    BY <2>1
  <2>3. QED
    BY <1>0, <1>3, <2>1, <2>2 DEF AsRead, OnCredit, Kept, Settled, Size
<1>4. CASE r.op = "saleLocked"
  <2>1. r.invoice \in Nat /\ r.invoice <= counter + 1
    BY <1>0, <1>4, InFlightSale DEF LockedInv, AsRead
  <2>2. CASE counter' = counter
    <3>1. OnCredit(r.form) => balance' = balance /\ limit' = limit
      BY <1>4, <2>2 DEF RowsReadAreKept
    <3>2. OnCredit(r.form)' <=> OnCredit(r.form)
      BY DEF OnCredit, Kept, Settled, Size
    <3>3. QED
      BY <1>0, <1>4, <2>1, <2>2, <3>1, <3>2 DEF AsRead, WithinLimit
  <2>3. CASE counter' = counter + 1
    BY <1>0, <1>4, <2>1, <2>3 DEF AsRead
  <2>4. QED
    BY <2>2, <2>3
<1>5. CASE r.op \notin {"return", "void", "voidLocked", "saleLocked"}
  BY <1>5 DEF AsRead
<1>6. QED
  BY <1>1, <1>2, <1>3, <1>4, <1>5

\* A step of one request, which leaves it with what it has read.
LEMMA AllAsRead ==
  ASSUME LockedInv, RowsReadAreKept, counter' \in {counter, counter + 1},
         \A s \in Sales : sale'[s] = sale[s] => onAccount'[s] = onAccount[s],
         NEW w \in Workers, NEW r, Moves(w, r), AsRead(r)'
  PROVE  \A v \in Workers : AsRead(req[v])'
<1>1. req'[w] = r /\ \A v \in Workers : v # w => req'[v] = req[v]
  BY DEF LockedInv, TypeInv, TypeOK, Moves
<1>2. AsRead(req[w])'
  BY <1>1 DEF AsRead, WithinLimit
<1>3. QED
  BY <1>1, <1>2, OthersAsRead

\* The books, when no table moves.
LEMMA BooksKept ==
  ASSUME LockedInv, UNCHANGED tables
  PROVE  /\ BooksOK' /\ ReturnsClamped' /\ LedgerMatchesSales' /\ BalanceMatchesRows'
<1>1. UNCHANGED <<sale, returned, posted, onAccount, balance, repaid>>
  BY DEF tables, books, money
<1>2. \A s \in Sales : Made(s)' <=> Made(s)
  BY <1>1 DEF Made
<1>3. BooksOK'
  BY <1>1, <1>2 DEF LockedInv, BooksOK, OnCredit, Kept, Settled, Size
<1>4. ReturnsClamped'
  BY <1>1, <1>2 DEF LockedInv, ReturnsClamped
<1>5. LedgerMatchesSales'
  BY <1>1, <1>2 DEF LockedInv, LedgerMatchesSales, Size
<1>6. BalanceMatchesRows'
  BY <1>1, <1>2 DEF LockedInv, BalanceMatchesRows
<1>7. QED
  BY <1>3, <1>4, <1>5, <1>6

\* A step that only reads.
LEMMA ReadingStep ==
  ASSUME LockedInv, TypeInv', RowsReadAreKept, UNCHANGED tables,
         NEW w \in Workers, NEW r, Moves(w, r), AsRead(r)
  PROVE  LockedInv'
<1>1. UNCHANGED <<stock, moved, sale, returned, onAccount, counter, balance, limit>>
  BY DEF tables, shelf, books, money
<1>2. AsRead(r)'
  BY <1>1 DEF AsRead, Returnable, OnCredit, Kept, Settled, Size, WithinLimit
<1>3. \A v \in Workers : AsRead(req[v])'
  BY <1>1, <1>2, AllAsRead
<1>4. QED
  BY <1>3, BooksKept DEF LockedInv

LEMMA RequestReads ==
  ASSUME LockedInv, TypeInv', RowsReadAreKept, NEW w \in Workers, Request(w)
  PROVE  LockedInv'
<1>1. UNCHANGED tables
  BY DEF Request
<1>2. ASSUME NEW form \in Forms, CreateSale(w, form)
      PROVE  LockedInv'
  <2>1. Moves(w, [op |-> "sale", form |-> form])
    BY <1>2 DEF CreateSale, Begin, Moves
  <2>2. AsRead([op |-> "sale", form |-> form])
    BY DEF AsRead
  <2>3. QED
    BY <1>1, <2>1, <2>2, ReadingStep
<1>3. ASSUME NEW s \in Sales, VoidSale(w, s)
      PROVE  LockedInv'
  <2>1. Moves(w, [op |-> "void", id |-> s])
    BY <1>3 DEF VoidSale, Begin, Moves
  <2>2. AsRead([op |-> "void", id |-> s])
    BY <1>3 DEF VoidSale, AsRead
  <2>3. QED
    BY <1>1, <2>1, <2>2, ReadingStep
<1>4. ASSUME NEW s \in Sales, NEW good \in Fragments(s), NEW bad \in Fragments(s),
             CreateReturn(w, s, good, bad)
      PROVE  LockedInv'
  <2>1. Moves(w, [op |-> "return", id |-> s, good |-> good, bad |-> bad])
    BY <1>4 DEF CreateReturn, Begin, Moves
  <2>2. AsRead([op |-> "return", id |-> s, good |-> good, bad |-> bad])
    BY <1>4 DEF CreateReturn, AsRead
  <2>3. QED
    BY <1>1, <2>1, <2>2, ReadingStep
<1>5. QED
  BY <1>2, <1>3, <1>4 DEF Request

LEMMA LocksRead ==
  ASSUME LockedInv, TypeInv', RowsReadAreKept, NEW w \in Workers,
         SaleLocks(w) \/ VoidLocks(w)
  PROVE  LockedInv'
<1>1. CASE SaleLocks(w)
  <2> DEFINE form == req[w].form
             r == [op |-> "saleLocked", form |-> form, invoice |-> counter + 1,
                   left |-> [p \in Products |-> stock[p] - form.cart[p]],
                   balance |-> BalanceOf(form.customer)]
  <2>1. Moves(w, r) /\ UNCHANGED tables
    BY <1>1 DEF SaleLocks, Advance, Moves
  <2>2. AsRead(r)
    <3>1. OnCredit(form) => WithinLimit(form) /\ BalanceOf(form.customer) = balance[form.customer]
      BY <1>1 DEF SaleLocks, OnCredit, BalanceOf
    <3>2. r.op = "saleLocked" /\ r.invoice = counter + 1 /\ r.form = form
          /\ r.balance = BalanceOf(form.customer) /\ counter + 1 <= counter + 1
      BY DEF LockedInv, TypeInv, TypeOK
    <3> HIDE DEF r, form
    <3>3. QED
      BY <3>1, <3>2 DEF AsRead
  <2> HIDE DEF r
  <2>3. QED
    BY <2>1, <2>2, ReadingStep
<1>2. CASE VoidLocks(w)
  <2> DEFINE s == req[w].id
             form == sale[s].form
             r == [op |-> "voidLocked", id |-> s,
                   left |-> [p \in Products |-> stock[p] + form.cart[p]],
                   balance |-> BalanceOf(form.customer), net |-> onAccount[s]]
  <2>1. Moves(w, r) /\ UNCHANGED tables
    BY <1>2 DEF VoidLocks, Advance, Moves
  <2>2. sale[s].status = "Active"
    BY <1>2 DEF VoidLocks, LockedInv, AsRead
  <2>3. OnCredit(form) => BalanceOf(form.customer) = balance[form.customer]
    BY DEF OnCredit, BalanceOf
  <2>4. AsRead(r)
    <3>1. r.op = "voidLocked" /\ r.id = s /\ r.balance = BalanceOf(form.customer)
          /\ r.net = onAccount[s]
      OBVIOUS
    <3> HIDE DEF r
    <3>2. QED
      BY <2>2, <2>3, <3>1 DEF AsRead
  <2> HIDE DEF r
  <2>5. QED
    BY <2>1, <2>4, ReadingStep
<1>3. QED
  BY <1>1, <1>2

LEMMA EndReads ==
  ASSUME LockedInv, TypeInv', RowsReadAreKept, NEW w \in Workers,
         InsertKey(w) \/ Crash(w) \/ Abort(w)
  PROVE  LockedInv'
<1>1. Moves(w, Idle) /\ UNCHANGED <<shelf, sale, books, counter, money>>
  BY DEF InsertKey, Crash, Abort, Advance, Moves, tables
<1>2. UNCHANGED <<sale, returned, posted, onAccount, counter, balance, repaid>>
  BY <1>1 DEF books, money
<1>3. AsRead(Idle)'
  BY DEF AsRead, Idle
<1>4. \A v \in Workers : AsRead(req[v])'
  BY <1>1, <1>2, <1>3, AllAsRead
<1>5. BooksOK' /\ ReturnsClamped'
  BY <1>2 DEF LockedInv, BooksOK, ReturnsClamped, Made, OnCredit, Kept, Settled, Size
<1>6. LedgerMatchesSales' /\ BalanceMatchesRows'
  BY <1>2 DEF LockedInv, LedgerMatchesSales, BalanceMatchesRows, Made, Size
<1>7. QED
  BY <1>4, <1>5, <1>6 DEF LockedInv

SalesOf(c) == {s \in Sales : Made(s) /\ sale[s].form.customer = c}

\* A step that writes the credit rows of one sale moves its customer's balance.
LEMMA BalanceOfOne ==
  ASSUME TypeOK, TypeOK', BalanceMatchesRows, NEW s \in Sales, repaid' = repaid,
         \A t \in Sales : t # s => sale'[t] = sale[t] /\ onAccount'[t] = onAccount[t],
         Made(s)', Made(s) => sale'[s].form = sale[s].form,
         \A c \in Customers :
           balance'[c] = balance[c]
             + (IF sale'[s].form.customer = c
                  THEN onAccount'[s] - (IF Made(s) THEN onAccount[s] ELSE 0) ELSE 0)
  PROVE  BalanceMatchesRows'
<1> SUFFICES ASSUME NEW c \in Customers
             PROVE  balance'[c] = SumFunctionOnSet(onAccount', SalesOf(c)') - repaid'[c]
  BY DEF BalanceMatchesRows, SalesOf
<1> DEFINE P == SalesOf(c)
           Q == SalesOf(c)'
<1>1. IsFiniteSet(Sales)
  BY TablesAssumption
<1>2. P \in SUBSET Sales /\ Q \in SUBSET Sales
  BY DEF SalesOf
<1>3. /\ \A t \in P : onAccount[t] \in Int
      /\ \A t \in Q : onAccount'[t] \in Int
  BY <1>2 DEF TypeOK
<1>4. \A t \in Sales : t # s => (t \in P <=> t \in Q) /\ (t \in P => onAccount'[t] = onAccount[t])
  BY DEF SalesOf, Made
<1>5. SumFunctionOnSet(onAccount', Q) = SumFunctionOnSet(onAccount, P)
        + (IF s \in Q THEN onAccount'[s] ELSE 0) - (IF s \in P THEN onAccount[s] ELSE 0)
  <2> HIDE DEF P, Q
  <2>1. QED
    BY <1>1, <1>2, <1>3, <1>4, SumChange
<1>6. SumFunctionOnSet(onAccount, P) \in Int /\ IsFiniteSet(P)
  BY <1>1, <1>2, <1>3, FS_Subset, SumInt
<1>7. balance[c] = SumFunctionOnSet(onAccount, P) - repaid[c]
  BY DEF BalanceMatchesRows, SalesOf
<1>8. /\ s \in Q <=> sale'[s].form.customer = c
      /\ s \in P <=> Made(s) /\ sale'[s].form.customer = c
  BY DEF SalesOf
<1>9. /\ onAccount[s] \in Int /\ onAccount'[s] \in Int
      /\ repaid[c] \in Int
  BY DEF TypeOK
<1>10. balance'[c] = SumFunctionOnSet(onAccount', Q) - repaid'[c]
  <2> HIDE DEF P, Q
  <2>1. QED
    BY <1>5, <1>6, <1>7, <1>8, <1>9
<1>11. QED
  BY <1>10

LEMMA CartZero ==
  Cart0 \in [Products -> Nat] /\ Size(Cart0) = 0
<1>1. IsFiniteSet(Products) /\ \A p \in Products : Cart0[p] = 0
  BY TablesAssumption DEF Cart0
<1>2. QED
  BY <1>1, SumZero DEF Size, Cart0

LEMMA SaleCommitReads ==
  ASSUME LockedInv, TypeInv', RowsReadAreKept, NEW w \in Workers, NEW s \in Sales,
         SaleCommit(w, s)
  PROVE  /\ LockedInv'
         /\ \A t \in Sales : t # s => sale'[t] = sale[t]
         /\ (/\ sale'[s].form.customer # None /\ sale'[s].form.tender.credit > 0
             /\ limit[sale'[s].form.customer] # None)
            => balance'[sale'[s].form.customer] <= limit[sale'[s].form.customer]
<1> DEFINE form == req[w].form
           taken == IF OnCredit(form) THEN form.tender.credit - Kept(form) ELSE 0
           row == [status |-> "Active", form |-> form, invoice |-> req[w].invoice]
           after == IF form.key = None THEN Idle
                    ELSE [op |-> "insertKey", id |-> s, form |-> form]
<1>1. /\ req[w].op = "saleLocked" /\ ~Made(s) /\ counter = req[w].invoice - 1
      /\ sale' = [sale EXCEPT ![s] = row]
      /\ posted' = [posted EXCEPT ![s] = Size(form.cart)]
      /\ onAccount' = [onAccount EXCEPT ![s] = taken]
      /\ counter' = req[w].invoice
      /\ balance' = IF OnCredit(form)
                    THEN [balance EXCEPT ![form.customer] = req[w].balance + taken]
                    ELSE balance
      /\ Moves(w, after)
      /\ returned' = returned /\ repaid' = repaid
  BY DEF SaleCommit, Written, Advance, Moves
<1>2. form \in Forms /\ req[w].invoice \in Nat \ {0} /\ req[w].balance \in Int
  BY <1>1, InFlightSale DEF LockedInv
<1>3. /\ form.cart \in [Products -> Nat] /\ form.tender.credit \in Nat
      /\ Size(form.cart) \in Nat /\ Kept(form) \in Nat
      /\ form.customer \in Customers \cup {None}
      /\ OnCredit(form) => form.customer \in Customers
  BY <1>2, FormTypes
<1>4. row \in SaleRow /\ row # NoSale
  BY <1>2, RowIsMade DEF SaleRow
<1>5. /\ TypeOK /\ TypeOK' /\ BooksOK /\ ReturnsClamped /\ LedgerMatchesSales
      /\ BalanceMatchesRows /\ AsRead(req[w])
  BY DEF LockedInv, TypeInv
<1>6. /\ sale'[s] = row /\ Made(s)' /\ onAccount'[s] = taken /\ posted'[s] = Size(form.cart)
      /\ \A t \in Sales : t # s =>
           /\ sale'[t] = sale[t] /\ onAccount'[t] = onAccount[t] /\ posted'[t] = posted[t]
           /\ Made(t)' <=> Made(t)
  BY <1>1, <1>4, <1>5 DEF TypeOK, Made
<1>7. counter \in Nat /\ req[w].invoice = counter + 1 /\ counter' = counter + 1
  BY <1>1, <1>2, <1>5 DEF TypeOK
<1>8. OnCredit(form) => req[w].balance = balance[form.customer] /\ WithinLimit(form)
  BY <1>1, <1>5, <1>7 DEF AsRead
<1>9. taken \in Int /\ (OnCredit(form) => taken <= form.tender.credit)
  <2> HIDE DEF form
  <2>1. QED
    BY <1>3
<1>10. returned[s] = Cart0
  BY <1>1, <1>5 DEF BooksOK
<1>11. PICK r : Moves(w, r) /\ r = after
  BY <1>1
<1>12. AsRead(r)'
  BY <1>11 DEF AsRead, Idle
<1>13. \A v \in Workers : AsRead(req[v])'
  <2>1. \A t \in Sales : sale'[t] = sale[t] => onAccount'[t] = onAccount[t]
    <3>1. sale'[s] # sale[s]
      BY <1>1, <1>4, <1>6 DEF Made
    <3>2. QED
      BY <1>6, <3>1
  <2> HIDE DEF after
  <2>2. QED
    BY <1>7, <1>11, <1>12, <2>1, AllAsRead
<1>15. sale'[s].form = form /\ sale'[s].status = "Active"
  BY <1>6
<1> HIDE DEF row, after
<1>16. BooksOK'
  <2>1. \A f : OnCredit(f)' <=> OnCredit(f)
    BY DEF OnCredit, Kept, Settled, Size
  <2>2. ASSUME NEW t \in Sales
        PROVE  (~Made(t) => returned[t] = Cart0)'
    BY <1>1, <1>5, <1>6 DEF BooksOK, Cart0
  <2>3. ASSUME NEW t \in Sales
        PROVE  (Made(t) /\ ~OnCredit(sale[t].form) => onAccount[t] = 0)'
    <3>1. CASE t = s
      BY <1>6, <1>15, <2>1, <3>1
    <3>2. CASE t # s
      BY <1>5, <1>6, <2>1, <3>2 DEF BooksOK
    <3>3. QED
      BY <3>1, <3>2
  <2>4. QED
    BY <2>2, <2>3 DEF BooksOK
<1>17. ReturnsClamped'
  <2>1. ASSUME NEW t \in Sales, NEW p \in Products, Made(t)'
        PROVE  returned'[t][p] <= sale'[t].form.cart[p]
    <3>1. CASE t = s
      BY <1>1, <1>3, <1>10, <1>15, <3>1 DEF Cart0
    <3>2. CASE t # s
      BY <1>1, <1>5, <1>6, <2>1, <3>2 DEF ReturnsClamped
    <3>3. QED
      BY <3>1, <3>2
  <2>2. QED
    BY <2>1 DEF ReturnsClamped
<1>18. LedgerMatchesSales'
  <2>1. ASSUME NEW t \in Sales
        PROVE  posted'[t] = (IF Made(t)' /\ sale'[t].status = "Active"
                             THEN Size(sale'[t].form.cart) ELSE 0) - Size(returned'[t])
    <3>1. CASE t = s
      BY <1>1, <1>3, <1>6, <1>10, <1>15, <3>1, CartZero
    <3>2. CASE t # s
      BY <1>1, <1>5, <1>6, <3>2 DEF LedgerMatchesSales
    <3>3. QED
      BY <3>1, <3>2
  <2>2. \A cart : Size(cart)' = Size(cart')
    BY DEF Size
  <2>3. QED
    BY <2>1, <2>2 DEF LedgerMatchesSales, Size
<1>19. ASSUME NEW c \in Customers
       PROVE  balance'[c] = balance[c] + (IF form.customer = c THEN taken ELSE 0)
  <2>0. balance \in [Customers -> Int]
    BY <1>5 DEF TypeOK
  <2>1. CASE OnCredit(form)
    BY <1>1, <1>3, <1>8, <1>9, <2>0, <2>1
  <2>2. CASE ~OnCredit(form)
    BY <1>1, <2>0, <2>2
  <2>3. QED
    BY <2>1, <2>2
<1>20. BalanceMatchesRows'
  <2>1. \A c \in Customers :
          balance'[c] = balance[c]
             + (IF sale'[s].form.customer = c
                  THEN onAccount'[s] - (IF Made(s) THEN onAccount[s] ELSE 0) ELSE 0)
    BY <1>1, <1>6, <1>9, <1>15, <1>19
  <2>2. QED
    BY <1>1, <1>5, <1>6, <2>1, BalanceOfOne
<1>21. LockedInv'
  BY <1>13, <1>16, <1>17, <1>18, <1>20 DEF LockedInv
<1>22. ASSUME form.customer # None, form.tender.credit > 0, limit[form.customer] # None
       PROVE  balance'[form.customer] <= limit[form.customer]
  <2>1. OnCredit(form) /\ form.customer \in Customers
    BY <1>3, <1>22 DEF OnCredit
  <2>2. balance[form.customer] + form.tender.credit <= limit[form.customer]
    BY <1>8, <1>22, <2>1 DEF WithinLimit
  <2>3. balance[form.customer] \in Int /\ limit[form.customer] \in Nat
    BY <1>5, <1>22, <2>1, MoneyAssumption DEF TypeOK
  <2>4. balance'[form.customer] = balance[form.customer] + taken
    BY <1>19, <2>1
  <2> HIDE DEF form, taken
  <2>5. QED
    BY <1>3, <1>9, <2>1, <2>2, <2>3, <2>4
<1>23. QED
  BY <1>6, <1>15, <1>21, <1>22

LEMMA VoidCommitReads ==
  ASSUME LockedInv, TypeInv', RowsReadAreKept, NEW w \in Workers, VoidCommit(w)
  PROVE  LockedInv' /\ \A t \in Sales : Made(t)' => Made(t)
<1>0. PICK s \in Sales : s = req[w].id
  BY InFlightSale DEF VoidCommit, LockedInv
<1> DEFINE form == sale[s].form
<1>1. /\ req[w].op = "voidLocked"
      /\ sale' = [sale EXCEPT ![s].status = "Voided"]
      /\ posted' = [posted EXCEPT ![s] = posted[s] - Size(form.cart)]
      /\ onAccount' = [onAccount EXCEPT ![s] = onAccount[s] - req[w].net]
      /\ balance' = IF OnCredit(form)
                    THEN [balance EXCEPT ![form.customer] = req[w].balance - req[w].net]
                    ELSE balance
      /\ Moves(w, Idle)
      /\ returned' = returned /\ counter' = counter /\ repaid' = repaid
  BY <1>0 DEF VoidCommit, Reversed, Advance, Moves
<1>2. /\ s \in Sales /\ Made(s) /\ sale[s] \in SaleRow /\ form \in Forms
  BY <1>0, <1>1, InFlightSale DEF LockedInv
<1>3. /\ form.cart \in [Products -> Nat] /\ Size(form.cart) \in Nat
      /\ OnCredit(form) => form.customer \in Customers
  BY <1>2, FormTypes
<1>4. /\ TypeOK /\ TypeOK' /\ BooksOK /\ ReturnsClamped /\ LedgerMatchesSales
      /\ BalanceMatchesRows /\ AsRead(req[w])
  BY DEF LockedInv, TypeInv
<1>5. /\ sale[s].status = "Active" /\ req[w].net = onAccount[s]
      /\ OnCredit(form) => req[w].balance = balance[form.customer]
  BY <1>0, <1>1, <1>4 DEF AsRead
<1>6. /\ sale'[s].status = "Voided" /\ sale'[s].form = form /\ sale'[s] \in SaleRow
      /\ onAccount'[s] = 0 /\ posted'[s] = posted[s] - Size(form.cart)
      /\ \A t \in Sales : t # s =>
           /\ sale'[t] = sale[t] /\ onAccount'[t] = onAccount[t] /\ posted'[t] = posted[t]
  <2>1. onAccount[s] - onAccount[s] = 0
    BY <1>2, <1>4 DEF TypeOK
  <2>2. QED
    BY <1>1, <1>2, <1>4, <1>5, <2>1 DEF TypeOK, SaleRow
<1>7. Made(s)' /\ \A t \in Sales : Made(t)' <=> Made(t)
  BY <1>2, <1>6, RowIsMade DEF Made
<1>8. AsRead(Idle)'
  BY DEF AsRead, Idle
<1>9. \A v \in Workers : AsRead(req[v])'
  <2>1. \A t \in Sales : sale'[t] = sale[t] => onAccount'[t] = onAccount[t]
    BY <1>5, <1>6
  <2>2. QED
    BY <1>1, <1>8, <2>1, AllAsRead
<1>10. BooksOK'
  <2>1. \A f : OnCredit(f)' <=> OnCredit(f)
    BY DEF OnCredit, Kept, Settled, Size
  <2>2. \A t \in Sales : (~Made(t) => returned[t] = Cart0)'
    BY <1>1, <1>4, <1>7 DEF BooksOK, Cart0
  <2>3. ASSUME NEW t \in Sales
        PROVE  (Made(t) /\ ~OnCredit(sale[t].form) => onAccount[t] = 0)'
    BY <1>4, <1>6, <1>7, <2>1 DEF BooksOK
  <2>4. QED
    BY <2>2, <2>3 DEF BooksOK
<1>11. ReturnsClamped'
  BY <1>1, <1>4, <1>6, <1>7 DEF ReturnsClamped
<1>12. LedgerMatchesSales'
  <2>1. ASSUME NEW t \in Sales
        PROVE  posted'[t] = (IF Made(t)' /\ sale'[t].status = "Active"
                             THEN Size(sale'[t].form.cart) ELSE 0) - Size(returned'[t])
    <3>1. CASE t = s
      <4>1. posted[s] = Size(form.cart) - Size(returned[s])
        BY <1>2, <1>4, <1>5 DEF LedgerMatchesSales
      <4>2. returned[s] \in [Products -> Nat]
        BY <1>2, <1>4 DEF TypeOK, Carts
      <4>3. Size(returned[s]) \in Nat
        BY <4>2, SizeIsNat
      <4>4. posted'[s] = 0 - Size(returned[s])
        BY <1>3, <1>6, <4>1, <4>3
      <4>5. QED
        BY <1>1, <1>6, <3>1, <4>4
    <3>2. CASE t # s
      BY <1>1, <1>4, <1>6, <1>7, <3>2 DEF LedgerMatchesSales
    <3>3. QED
      BY <3>1, <3>2
  <2>2. QED
    BY <2>1 DEF LedgerMatchesSales, Size
<1>13. BalanceMatchesRows'
  <2>0. balance \in [Customers -> Int] /\ onAccount[s] \in Int
    BY <1>2, <1>4 DEF TypeOK
  <2>1. ~OnCredit(form) => onAccount[s] = 0
    BY <1>2, <1>4 DEF BooksOK
  <2> HIDE DEF form
  <2>2. \A c \in Customers :
          balance'[c] = balance[c]
             + (IF form.customer = c THEN 0 - onAccount[s] ELSE 0)
    <3>1. CASE OnCredit(form)
      BY <1>1, <1>3, <1>5, <2>0, <3>1
    <3>2. CASE ~OnCredit(form)
      BY <1>1, <2>0, <2>1, <3>2
    <3>3. QED
      BY <3>1, <3>2
  <2>3. sale'[s].form = sale[s].form
    BY <1>6 DEF form
  <2>4. \A c \in Customers :
          balance'[c] = balance[c]
             + (IF sale'[s].form.customer = c
                  THEN onAccount'[s] - (IF Made(s) THEN onAccount[s] ELSE 0) ELSE 0)
    BY <1>2, <1>6, <2>2
  <2>5. QED
    BY <1>1, <1>2, <1>4, <1>6, <1>7, <2>3, <2>4, BalanceOfOne
<1>14. QED
  BY <1>7, <1>9, <1>10, <1>11, <1>12, <1>13 DEF LockedInv

LEMMA ReturnReads ==
  ASSUME LockedInv, TypeInv', RowsReadAreKept, NEW w \in Workers, ReturnTransaction(w)
  PROVE  LockedInv'
<1> DEFINE s == req[w].id
           cart == sale[s].form.cart
           back == [p \in Products |-> req[w].good[p] + req[w].bad[p]]
           sum == [p \in Products |-> returned[s][p] + back[p]]
<1>1. /\ req[w].op = "return"
      /\ returned' = [returned EXCEPT ![s] = sum]
      /\ posted' = [posted EXCEPT ![s] = posted[s] - Size(back)]
      /\ Moves(w, Idle)
      /\ UNCHANGED <<sale, onAccount, counter, balance, repaid>>
  BY DEF ReturnTransaction, Advance, Moves, money
<1>2. /\ s \in Sales /\ Made(s) /\ sale[s].form \in Forms
      /\ req[w].good \in [Products -> Nat] /\ req[w].bad \in [Products -> Nat]
  BY <1>1, InFlightSale DEF LockedInv, Carts
<1>3. cart \in [Products -> Nat]
  BY <1>2, FormTypes
<1>4. /\ TypeOK /\ BooksOK /\ ReturnsClamped /\ LedgerMatchesSales
      /\ BalanceMatchesRows /\ AsRead(req[w])
  BY DEF LockedInv, TypeInv
<1>5. returned[s] \in [Products -> Nat] /\ posted[s] \in Int
  BY <1>2, <1>4 DEF TypeOK, Carts
<1>6. /\ back \in [Products -> Nat] /\ sum \in [Products -> Nat]
      /\ \A p \in Products : sum[p] = returned[s][p] + back[p]
  BY <1>2, <1>5
<1>7. \A p \in Products : sum[p] <= cart[p]
  <2>1. \A p \in Products : back[p] <= cart[p] - returned[s][p]
    BY <1>1, <1>4 DEF AsRead, Returnable
  <2> HIDE DEF back, sum, cart
  <2>2. QED
    BY <1>3, <1>5, <1>6, <2>1
<1>8. Size(sum) = Size(returned[s]) + Size(back)
  <2>1. IsFiniteSet(Products)
    BY TablesAssumption
  <2> HIDE DEF back, sum
  <2>2. \A p \in Products : /\ returned[s][p] \in Int /\ back[p] \in Int
                            /\ sum[p] = returned[s][p] + back[p]
    BY <1>5, <1>6
  <2>3. QED
    BY <2>1, <2>2, SumPlus DEF Size
<1>9. /\ returned'[s] = sum /\ posted'[s] = posted[s] - Size(back)
      /\ \A t \in Sales : t # s => returned'[t] = returned[t] /\ posted'[t] = posted[t]
      /\ \A t \in Sales : Made(t)' <=> Made(t)
  BY <1>1, <1>2, <1>4 DEF TypeOK, Made
<1>10. AsRead(Idle)'
  BY DEF AsRead, Idle
<1>11. \A v \in Workers : AsRead(req[v])'
  BY <1>1, <1>10, AllAsRead
<1> HIDE DEF s, sum
<1>12. BooksOK'
  <2>1. \A f : OnCredit(f)' <=> OnCredit(f)
    BY DEF OnCredit, Kept, Settled, Size
  <2>2. QED
    BY <1>1, <1>2, <1>4, <1>9, <2>1 DEF BooksOK, Cart0
<1>13. ReturnsClamped'
  BY <1>1, <1>4, <1>7, <1>9 DEF ReturnsClamped
<1>14. LedgerMatchesSales'
  <2>1. ASSUME NEW t \in Sales
        PROVE  posted'[t] = (IF Made(t)' /\ sale'[t].status = "Active"
                             THEN Size(sale'[t].form.cart) ELSE 0) - Size(returned'[t])
    <3>1. CASE t = s
      <4>1. /\ Size(returned[s]) \in Nat /\ Size(back) \in Nat /\ Size(cart) \in Nat
        BY <1>3, <1>5, <1>6, SizeIsNat
      <4>2. posted[s] = (IF sale[s].status = "Active" THEN Size(cart) ELSE 0)
                          - Size(returned[s])
        BY <1>2, <1>4 DEF LedgerMatchesSales
      <4> HIDE DEF back, cart
      <4>3. posted'[s] = (IF sale[s].status = "Active" THEN Size(cart) ELSE 0) - Size(sum)
        BY <1>8, <1>9, <4>1, <4>2
      <4>4. QED
        BY <1>1, <1>2, <1>9, <3>1, <4>3 DEF cart
    <3>2. CASE t # s
      BY <1>1, <1>4, <1>9, <3>2 DEF LedgerMatchesSales
    <3>3. QED
      BY <3>1, <3>2
  <2>2. QED
    BY <2>1 DEF LedgerMatchesSales, Size
<1>15. BalanceMatchesRows'
  BY <1>1, <1>4 DEF BalanceMatchesRows, Made
<1>16. QED
  BY <1>11, <1>12, <1>13, <1>14, <1>15 DEF LockedInv

LEMMA OfficeReads ==
  ASSUME LockedInv, TypeInv', RowsReadAreKept, Office
  PROVE  LockedInv' /\ UNCHANGED sale
<1>1. UNCHANGED <<sale, returned, posted, onAccount, counter, req>>
  BY DEF Office, ReceivePayment, SetCreditLimit, books
<1>2. \A v \in Workers : AsRead(req[v])'
  BY <1>1, OthersAsRead
<1>3. BooksOK' /\ ReturnsClamped' /\ LedgerMatchesSales'
  <2>1. BooksOK'
    BY <1>1 DEF LockedInv, BooksOK, Made, OnCredit, Kept, Settled, Size
  <2>2. ReturnsClamped'
    BY <1>1 DEF LockedInv, ReturnsClamped, Made
  <2>3. LedgerMatchesSales'
    BY <1>1 DEF LockedInv, LedgerMatchesSales, Made, Size
  <2>4. QED
    BY <2>1, <2>2, <2>3
<1>4. BalanceMatchesRows'
  <2>1. ASSUME NEW c \in Customers, NEW amount \in Repayments, ReceivePayment(c, amount)
        PROVE  BalanceMatchesRows'
    <3>1. /\ balance' = [balance EXCEPT ![c] = balance[c] - amount]
          /\ repaid' = [repaid EXCEPT ![c] = repaid[c] + amount] /\ amount \in Nat
      BY <2>1, MoneyAssumption DEF ReceivePayment
    <3>2. ASSUME NEW d \in Customers
          PROVE  balance'[d] = SumFunctionOnSet(onAccount, SalesOf(d)) - repaid'[d]
      <4>1. balance[d] = SumFunctionOnSet(onAccount, SalesOf(d)) - repaid[d]
        BY DEF LockedInv, BalanceMatchesRows, SalesOf
      <4>2. SumFunctionOnSet(onAccount, SalesOf(d)) \in Int
        <5>1. IsFiniteSet(Sales) /\ SalesOf(d) \subseteq Sales
          BY TablesAssumption DEF SalesOf
        <5>2. IsFiniteSet(SalesOf(d)) /\ \A t \in SalesOf(d) : onAccount[t] \in Int
          BY <5>1, FS_Subset DEF LockedInv, TypeInv, TypeOK
        <5>3. QED
          BY <5>2, SumInt
      <4>3. balance \in [Customers -> Int] /\ repaid \in [Customers -> Nat]
        BY DEF LockedInv, TypeInv, TypeOK
      <4>4. QED
        BY <3>1, <4>1, <4>2, <4>3
    <3>3. \A d : SalesOf(d)' = SalesOf(d)
      BY <1>1 DEF SalesOf, Made
    <3>4. QED
      BY <1>1, <3>2, <3>3 DEF BalanceMatchesRows, SalesOf
  <2>2. ASSUME NEW c \in Customers, NEW l \in Limits \cup {None}, SetCreditLimit(c, l)
        PROVE  BalanceMatchesRows'
    BY <1>1, <2>2 DEF SetCreditLimit, LockedInv, BalanceMatchesRows, Made
  <2>3. QED
    BY <2>1, <2>2 DEF Office
<1>5. QED
  BY <1>1, <1>2, <1>3, <1>4 DEF LockedInv

LEMMA StutterReads ==
  ASSUME LockedInv, TypeInv', UNCHANGED vars
  PROVE  LockedInv'
<1>1. UNCHANGED tables /\ UNCHANGED <<sale, returned, onAccount, counter, balance, limit, req>>
  BY DEF vars, tables, books, money
<1>2. \A f : OnCredit(f)' <=> OnCredit(f)
  BY DEF OnCredit, Kept, Settled, Size
<1>3. \A v \in Workers : AsRead(req[v])'
  BY <1>1, <1>2 DEF LockedInv, AsRead, Returnable, WithinLimit
<1>4. QED
  BY <1>1, <1>3, BooksKept DEF LockedInv

\* What a new sale may leave on its customer's balance.
LimitHolds ==
  \A s \in Sales :
    (/\ ~Made(s) /\ Made(s)'
     /\ sale'[s].form.customer # None
     /\ sale'[s].form.tender.credit > 0
     /\ limit[sale'[s].form.customer] # None)
    => balance'[sale'[s].form.customer] <= limit[sale'[s].form.customer]

LEMMA NextReads ==
  ASSUME LockedInv, TypeInv', Next, RowsReadAreKept
  PROVE  LockedInv' /\ LimitHolds
<1>1. ASSUME sale' = sale PROVE LimitHolds
  BY <1>1 DEF LimitHolds, Made
<1>2. CASE Office
  BY <1>1, <1>2, OfficeReads
<1>3. ASSUME NEW w \in Workers, Request(w)
      PROVE  LockedInv' /\ LimitHolds
  BY <1>1, <1>3, RequestReads DEF Request, tables
<1>4. ASSUME NEW w \in Workers, Transaction(w)
      PROVE  LockedInv' /\ LimitHolds
  <2>1. CASE SaleLocks(w) \/ VoidLocks(w)
    BY <1>1, <2>1, LocksRead DEF SaleLocks, VoidLocks, tables
  <2>2. ASSUME NEW s \in Sales, SaleCommit(w, s)
        PROVE  LockedInv' /\ LimitHolds
    BY <2>2, SaleCommitReads DEF LimitHolds, Made
  <2>3. CASE InsertKey(w) \/ Crash(w) \/ Abort(w)
    BY <1>1, <2>3, EndReads DEF InsertKey, Crash, Abort, tables
  <2>4. CASE VoidCommit(w)
    BY <2>4, VoidCommitReads DEF LimitHolds
  <2>5. CASE ReturnTransaction(w)
    BY <1>1, <2>5, ReturnReads DEF ReturnTransaction
  <2>6. QED
    BY <1>4, <2>1, <2>2, <2>3, <2>4, <2>5 DEF Transaction
<1>5. QED
  BY <1>2, <1>3, <1>4 DEF Next

LEMMA InitReads == Init => LockedInv
<1> SUFFICES ASSUME Init
             PROVE  LockedInv
  OBVIOUS
<1>1. TypeInv
  BY InitHasTypes
<1>2. /\ \A s \in Sales : ~Made(s) /\ returned[s] = Cart0 /\ posted[s] = 0
      /\ \A w \in Workers : req[w] = Idle
      /\ \A c \in Customers : balance[c] = 0 /\ repaid[c] = 0
  BY DEF Init, Made
<1>3. (\A w \in Workers : AsRead(req[w])) /\ BooksOK /\ ReturnsClamped
  BY <1>2 DEF AsRead, Idle, BooksOK, ReturnsClamped
<1>4. LedgerMatchesSales
  BY <1>2, CartZero DEF LedgerMatchesSales
<1>5. BalanceMatchesRows
  <2>1. ASSUME NEW c \in Customers
        PROVE  balance[c] = SumFunctionOnSet(onAccount, SalesOf(c)) - repaid[c]
    <3>1. SalesOf(c) = {}
      BY <1>2 DEF SalesOf
    <3>2. QED
      BY <1>2, <3>1, SumEmpty
  <2>2. QED
    BY <2>1 DEF BalanceMatchesRows, SalesOf
<1>6. QED
  BY <1>1, <1>3, <1>4, <1>5 DEF LockedInv

LEMMA LockedStep ==
  LockedInv /\ [Next /\ RowsReadAreKept]_vars
    => LockedInv' /\ [LimitHolds]_vars
<1> SUFFICES ASSUME LockedInv, [Next /\ RowsReadAreKept]_vars
             PROVE  LockedInv' /\ [LimitHolds]_vars
  OBVIOUS
<1>1. TypeInv'
  BY NextKeepsTypes DEF LockedInv
<1>2. QED
  BY <1>1, StutterReads, NextReads

LEMMA LockedInvariance == LockedSpec => []LockedInv
BY InitReads, LockedStep, PTL DEF LockedSpec

\* With the rows read kept, no more of a sale comes back than was sold: what may
\* still come back is computed before the transaction (returnedQtyBySale).
THEOREM ReturnsStayClamped == LockedSpec => []ReturnsClamped
<1>1. LockedInv => ReturnsClamped
  BY DEF LockedInv
<1>2. QED
  BY <1>1, LockedInvariance, PTL

\* With the rows read kept, a sale's ledger entries are what its status and its
\* returns call for: the status, too, is checked before the void's transaction.
THEOREM LedgerAlwaysMatchesSales == LockedSpec => []LedgerMatchesSales
<1>1. LockedInv => LedgerMatchesSales
  BY DEF LockedInv
<1>2. QED
  BY <1>1, LockedInvariance, PTL

\* With the rows read kept, users.current_balance is the sum of the customer's
\* credit rows; charges of one customer that overlap are told apart by the
\* invoice counter alone (applyCreditChanges).
THEOREM BalanceAlwaysMatchesRows == LockedSpec => []BalanceMatchesRows
<1>1. LockedInv => BalanceMatchesRows
  BY DEF LockedInv
<1>2. QED
  BY <1>1, LockedInvariance, PTL

\* With the rows read kept, a charge never leaves the customer above the limit
\* they have when it commits (assertWithinCreditLimit).
THEOREM ChargesStayWithinLimit == LockedSpec => ChargesWithinLimit
BY InitReads, LockedStep, PTL DEF LockedSpec, ChargesWithinLimit, LimitHolds

-----------------------------------------------------------------------------
(***************************************************************************)
(* Keys.  Once a cashier's key is on record, a step moves one request, and *)
(* that request starts no checkout with the key.                           *)
(***************************************************************************)
ClosedStep(k) ==
  /\ k \in keys' /\ Trying(k)' \subseteq Trying(k)
  /\ \/ SoldWith(k)' = SoldWith(k)
     \/ \E w \in Trying(k) \ Trying(k)', s \in Sales :
          SoldWith(k)' = SoldWith(k) \cup {s}

\* A request that stays with its checkout, or has none any more, and leaves
\* the sales as they are.
LEMMA QuietKeys ==
  ASSUME TypeInv, NEW k \in keys, keys \subseteq keys', NEW w \in Workers, NEW r,
         Moves(w, r),
         r.op \in {"sale", "saleLocked"} => req[w].op = "sale" /\ r.form = req[w].form,
         \A s \in Sales : (Made(s)' <=> Made(s)) /\ (Made(s) => sale'[s].form = sale[s].form)
  PROVE  ClosedStep(k)
<1>1. /\ req'[w] = r
      /\ \A v \in Workers : v # w => req'[v] = req[v]
  BY MovesOne DEF TypeInv, IInv
<1>2. Trying(k)' \subseteq Trying(k)
  BY <1>1 DEF Trying
<1>3. SoldWith(k)' = SoldWith(k)
  BY DEF SoldWith
<1>4. QED
  BY <1>2, <1>3 DEF ClosedStep

LEMMA CreateSaleClosed ==
  ASSUME TypeInv, NEW k \in keys, UNCHANGED tables,
         NEW w \in Workers, NEW form \in Forms, CreateSale(w, form)
  PROVE  ClosedStep(k)
<1> DEFINE r == [op |-> "sale", form |-> form]
<1>1. keys' = keys /\ sale' = sale
  BY DEF tables
<1>2. Moves(w, r)
  BY DEF CreateSale, Begin, Moves
<1>3. k.key # None
  BY NoneAssumption DEF TypeInv, TypeOK
<1>4. ~(form.key = k.key /\ form.cashier = k.cashier)
  BY <1>3 DEF CreateSale
<1>5. /\ req'[w] = r
      /\ \A v \in Workers : v # w => req'[v] = req[v]
  BY <1>2, MovesOne DEF TypeInv, IInv
<1>6. Trying(k)' \subseteq Trying(k)
  BY <1>4, <1>5 DEF Trying
<1>7. SoldWith(k)' = SoldWith(k)
  BY <1>1 DEF SoldWith, Made
<1>8. QED
  BY <1>1, <1>6, <1>7 DEF ClosedStep

\* The one step that sells with the key ends the checkout that does.
LEMMA SaleCommitClosed ==
  ASSUME TypeInv, NEW k \in keys, NEW w \in Workers, NEW s \in Sales, SaleCommit(w, s)
  PROVE  ClosedStep(k)
<1> DEFINE form == req[w].form
           row == [status |-> "Active", form |-> form, invoice |-> req[w].invoice]
           after == IF form.key = None THEN Idle
                    ELSE [op |-> "insertKey", id |-> s, form |-> form]
<1>1. /\ req[w].op = "saleLocked" /\ ~Made(s) /\ keys' = keys
      /\ sale' = [sale EXCEPT ![s] = row]
      /\ Moves(w, after)
  BY DEF SaleCommit, Written, Advance, Moves
<1>2. after.op \in {"idle", "insertKey"}
  BY DEF Idle
<1>3. row # NoSale /\ row.form = form
  BY DEF NoSale
<1>4. /\ Made(s)' /\ sale'[s].form = form
      /\ \A t \in Sales : t # s => sale'[t] = sale[t] /\ (Made(t)' <=> Made(t))
  BY <1>1, <1>3 DEF TypeInv, TypeOK, Made
<1> HIDE DEF after, row
<1>5. /\ req'[w] = after
      /\ \A v \in Workers : v # w => req'[v] = req[v]
  BY <1>1, MovesOne DEF TypeInv, IInv
<1>6. Trying(k)' = Trying(k) \ {w}
  BY <1>2, <1>5 DEF Trying
<1>7. CASE w \in Trying(k)
  <2>1. SoldWith(k)' = SoldWith(k) \cup {s}
    BY <1>1, <1>4, <1>7 DEF Trying, SoldWith
  <2>2. QED
    BY <1>1, <1>6, <1>7, <2>1 DEF ClosedStep
<1>8. CASE w \notin Trying(k)
  <2>1. ~(form.key = k.key /\ form.cashier = k.cashier)
    BY <1>1, <1>8 DEF Trying
  <2>2. SoldWith(k)' = SoldWith(k)
    BY <1>1, <1>4, <2>1 DEF SoldWith
  <2>3. QED
    BY <1>1, <1>6, <2>2 DEF ClosedStep
<1>9. QED
  BY <1>7, <1>8

LEMMA InsertKeyClosed ==
  ASSUME TypeInv, NEW k \in keys, NEW w \in Workers, InsertKey(w)
  PROVE  ClosedStep(k)
<1>1. Moves(w, Idle) /\ Idle.op = "idle" /\ keys \subseteq keys' /\ sale' = sale
  BY DEF InsertKey, Advance, Moves, Idle
<1>2. QED
  BY <1>1, QuietKeys DEF Made

LEMMA OtherClosed ==
  ASSUME TypeInv, NEW k \in keys, NEW w \in Workers,
         \/ SaleLocks(w) \/ VoidLocks(w) \/ VoidCommit(w) \/ ReturnTransaction(w)
         \/ Abort(w) \/ Crash(w)
  PROVE  ClosedStep(k)
<1>1. CASE SaleLocks(w)
  <2> DEFINE form == req[w].form
             r == [op |-> "saleLocked", form |-> form, invoice |-> counter + 1,
                   left |-> [p \in Products |-> stock[p] - form.cart[p]],
                   balance |-> BalanceOf(form.customer)]
  <2>1. /\ Moves(w, r) /\ req[w].op = "sale" /\ r.form = form
        /\ keys' = keys /\ sale' = sale
    BY <1>1 DEF SaleLocks, Advance, Moves, tables
  <2> HIDE DEF r
  <2>2. QED
    BY <2>1, QuietKeys DEF Made
<1>2. CASE VoidLocks(w)
  <2> DEFINE s == req[w].id
             form == sale[s].form
             r == [op |-> "voidLocked", id |-> s,
                   left |-> [p \in Products |-> stock[p] + form.cart[p]],
                   balance |-> BalanceOf(form.customer), net |-> onAccount[s]]
  <2>1. /\ Moves(w, r) /\ r.op = "voidLocked" /\ keys' = keys /\ sale' = sale
    BY <1>2 DEF VoidLocks, Advance, Moves, tables
  <2> HIDE DEF r
  <2>2. QED
    BY <2>1, QuietKeys DEF Made
<1>3. CASE VoidCommit(w)
  <2>1. /\ Moves(w, Idle) /\ req[w].op = "voidLocked" /\ Idle.op = "idle"
        /\ keys' = keys /\ sale' = [sale EXCEPT ![req[w].id].status = "Voided"]
    BY <1>3 DEF VoidCommit, Reversed, Advance, Moves, Idle
  <2>2. req[w].id \in Sales /\ Made(req[w].id) /\ sale[req[w].id] \in SaleRow
    BY <2>1, InFlightSale
  <2>3. /\ sale'[req[w].id] \in SaleRow
        /\ sale'[req[w].id].form = sale[req[w].id].form
        /\ \A s \in Sales : s # req[w].id => sale'[s] = sale[s]
    BY <2>1, <2>2 DEF TypeInv, TypeOK, SaleRow
  <2>4. \A s \in Sales : (Made(s)' <=> Made(s)) /\ (Made(s) => sale'[s].form = sale[s].form)
    BY <2>2, <2>3, RowIsMade DEF Made
  <2>5. QED
    BY <2>1, <2>4, QuietKeys
<1>4. CASE ReturnTransaction(w) \/ Abort(w) \/ Crash(w)
  <2>1. Moves(w, Idle) /\ Idle.op = "idle" /\ keys' = keys /\ sale' = sale
    BY <1>4 DEF ReturnTransaction, Abort, Crash, Advance, Moves, Idle, tables
  <2>2. QED
    BY <2>1, QuietKeys DEF Made
<1>5. QED
  BY <1>1, <1>2, <1>3, <1>4

LEMMA RequestClosed ==
  ASSUME TypeInv, NEW k \in keys, NEW w \in Workers, Request(w)
  PROVE  ClosedStep(k)
<1>1. UNCHANGED tables /\ keys' = keys /\ sale' = sale
  BY DEF Request, tables
<1>2. ASSUME NEW s \in Sales, VoidSale(w, s)
      PROVE  ClosedStep(k)
  <2>1. Moves(w, [op |-> "void", id |-> s])
    BY <1>2 DEF VoidSale, Begin, Moves
  <2>2. QED
    BY <1>1, <2>1, QuietKeys DEF Made
<1>3. ASSUME NEW s \in Sales, NEW good, NEW bad, CreateReturn(w, s, good, bad)
      PROVE  ClosedStep(k)
  <2>1. Moves(w, [op |-> "return", id |-> s, good |-> good, bad |-> bad])
    BY <1>3 DEF CreateReturn, Begin, Moves
  <2>2. QED
    BY <1>1, <2>1, QuietKeys DEF Made
<1>4. QED
  BY <1>1, <1>2, <1>3, CreateSaleClosed DEF Request

LEMMA KeysClosedStep ==
  ASSUME TypeInv, [Next]_vars, NEW k \in keys
  PROVE  ClosedStep(k)
<1>1. CASE UNCHANGED <<sale, keys, req>>
  <2>1. SoldWith(k)' = SoldWith(k) /\ Trying(k)' = Trying(k) /\ k \in keys'
    BY <1>1 DEF SoldWith, Trying, Made
  <2>2. QED
    BY <2>1 DEF ClosedStep
<1>2. CASE Office
  BY <1>1, <1>2 DEF Office, ReceivePayment, SetCreditLimit
<1>3. ASSUME NEW w \in Workers, Request(w) \/ Transaction(w)
      PROVE  ClosedStep(k)
  BY <1>3, RequestClosed, SaleCommitClosed, InsertKeyClosed, OtherClosed DEF Transaction
<1>4. QED
  BY <1>1, <1>2, <1>3 DEF Next, vars, tables

\* However checkouts, retries and restarts overlap, a key on record lets no
\* further checkout of its cashier in: a second sale with it can only be made by
\* a checkout that was in flight before the row was (PosWriteService.createSale).
THEOREM RecordedKeysStayClosed == Spec => RecordedKeysAreClosed
<1>1. TypeInv /\ [Next]_vars => [\A k \in keys : ClosedStep(k)]_vars
  BY KeysClosedStep
<1>2. QED
  BY <1>1, TypesInvariance, PTL DEF Spec, RecordedKeysAreClosed, ClosedStep
=============================================================================
