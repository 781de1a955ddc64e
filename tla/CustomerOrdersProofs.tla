------------------------- MODULE CustomerOrdersProofs -------------------------
(***************************************************************************)
(* Theorems about CustomerOrders, for any orders, checkouts, branches,     *)
(* prices, points, notices and requests in flight, and any crashes.        *)
(***************************************************************************)
EXTENDS CustomerOrders, SumTheorems

-----------------------------------------------------------------------------
(***************************************************************************)
(* The inductive invariant.  What requests know of the tables is kept in   *)
(* sets of orders and checkouts that only grow.  A checkout knows besides  *)
(* that its first order is not in Used, to which only it can add it.       *)
(***************************************************************************)
Present == {o \in Orders : Placed(o)}
Settled == {o \in Orders : Paid(o)}
Sold == {o \in Orders : sales[o] > 0}
Used == {o \in Orders : redeemed[o] > 0}
Tried == {c \in Online : attempt[c] # NoAttempt}

Steps == {"place", "redeem", "debit", "redeemRow", "financials", "attempt"}
Early == {"place", "redeem", "debit", "redeemRow"}
Settling == {"stock", "sale", "entry", "markPaid", "settled"}
Selling == {"entry", "markPaid", "award", "awardRow", "complete"}
Ending == {"end", "restore", "restoreRow"}
Handling == Settling \cup Selling \cup Ending
Ends == [status : Ended, pay : Payments \cup {"kept"}]

\* The order that a request is at.
At(r) == CHOOSE o \in r.rest : \A p \in r.rest : Position[o] <= Position[p]

\* A checkout has placed the orders it is past, and takes points once.
CheckoutOK(r, present, used) ==
  r.op \in Steps =>
    /\ r.i \in 1 .. Len(Lines[r.c])
    /\ r.op = "place" => \A j \in 1 .. r.i - 1 : Lines[r.c][j] \in present
    /\ r.op # "place" => OrdersOf(r.c) \subseteq present
    /\ r.op \in Early => Primary(r.c) \notin used
    /\ r.op \in {"debit", "redeemRow"} => Requested[r.c] <= Subtotal(r.c)
    /\ r.op = "attempt" => r.c \in Online

\* A handler works on orders that are there.  The orders of a settled payment
\* that it does not come to, or has passed, have their sale.
HandlerOK(r, present, sold, used, tried) ==
  r.op \in Handling =>
    /\ r.op = "settled" <=> r.rest = {}
    /\ \A o \in r.rest : o \in present /\ r.rows[o] \in Row
    /\ r.op \in {"markPaid", "settled"} => r.notice # None
    /\ r.notice # None =>
         /\ r.notice.c \in tried
         /\ r.rest \subseteq OrdersOf(r.notice.c)
         /\ r.op \in Settling => OrdersOf(r.notice.c) \subseteq r.rest \cup sold
    /\ r.op \in Selling => At(r) \in sold
    /\ r.op \in Ending => r.to \in Ends /\ (r.to.pay = "paid" => r.rest \subseteq sold)
    /\ r.op = "restoreRow" => At(r) \in used

RequestsOK ==
  \A w \in Workers : /\ CheckoutOK(req[w], Present, Used)
                     /\ HandlerOK(req[w], Present, Sold, Used, Tried)

OneCheckout ==
  \A v, w \in Workers :
    v # w /\ req[v].op \in Steps /\ req[w].op \in Steps => req[v].c # req[w].c

\* What the tables say of each other.
TablesOK ==
  /\ Used \subseteq Present
  /\ Settled \subseteq Sold
  /\ \A c \in Checkouts : redeemed[Primary(c)] <= Subtotal(c)
  /\ \A c \in Tried : OrdersOf(c) \subseteq Present
  /\ \A n \in notices : n.c \in Tried
  /\ \A c \in Online : attempt[c].status = "paid" => OrdersOf(c) \subseteq Sold

\* The goods that a request has taken for a sale it has not made yet.
Taken(b, r) == IF r.op = "sale" /\ Branch[At(r)] = b THEN Units[At(r)] ELSE 0

SoldFrom(b) ==
  SumFunctionOnSet([o \in Orders |-> sales[o] * Units[o]], {o \in Orders : Branch[o] = b})
TakenFrom(b) == SumFunctionOnSet([w \in Workers |-> Taken(b, req[w])], Workers)

ShelfOK == \A b \in Branches : SoldFrom(b) + TakenFrom(b) <= Opening[b] - stock[b]

IInv == TypeOK /\ RequestsOK /\ OneCheckout /\ TablesOK /\ ShelfOK /\ WalletMatchesLedger

-----------------------------------------------------------------------------
(***************************************************************************)
(* Checkouts, their orders and amounts.                                    *)
(***************************************************************************)
LEMMA LinesFacts ==
  ASSUME NEW c \in Checkouts
  PROVE  /\ Lines[c] \in Seq(Orders) /\ Len(Lines[c]) \in Nat \ {0}
         /\ \A i \in 1 .. Len(Lines[c]) : Lines[c][i] \in OrdersOf(c)
         /\ \A o \in OrdersOf(c) : \E i \in 1 .. Len(Lines[c]) : Lines[c][i] = o
         /\ OrdersOf(c) \subseteq Orders /\ IsFiniteSet(OrdersOf(c))
         /\ Primary(c) \in OrdersOf(c)
<1>1. Lines[c] \in Seq(Orders) /\ Lines[c] # <<>>
  BY LinesAssumption
<1>2. Len(Lines[c]) \in Nat \ {0} /\ DOMAIN Lines[c] = 1 .. Len(Lines[c])
  BY <1>1
<1>3. \A i \in 1 .. Len(Lines[c]) : Lines[c][i] \in OrdersOf(c)
  BY <1>2 DEF OrdersOf, Range
<1>4. \A o \in OrdersOf(c) : \E i \in 1 .. Len(Lines[c]) : Lines[c][i] = o
  BY <1>2 DEF OrdersOf, Range
<1>5. OrdersOf(c) \subseteq Orders
  BY <1>1, <1>2, <1>4
<1>6. IsFiniteSet(OrdersOf(c))
  BY <1>5, LinesAssumption, FS_Subset
<1>7. Primary(c) \in OrdersOf(c)
  BY <1>2, <1>3 DEF Primary
<1>8. QED
  BY <1>1, <1>2, <1>3, <1>4, <1>5, <1>6, <1>7

LEMMA OrdersApart ==
  ASSUME NEW c \in Checkouts, NEW d \in Checkouts, c # d
  PROVE  OrdersOf(c) \cap OrdersOf(d) = {}
BY LinesAssumption DEF OrdersOf

LEMMA OnlineCheckouts == Online \subseteq Checkouts
BY LinesAssumption

LEMMA SubtotalPositive ==
  ASSUME NEW c \in Checkouts
  PROVE  Subtotal(c) \in Nat \ {0}
<1> DEFINE S == OrdersOf(c)
           T == S \ {Primary(c)}
<1>1. IsFiniteSet(S) /\ IsFiniteSet(T) /\ Primary(c) \in S
  BY LinesFacts, FS_Subset
<1>2. \A o \in S : Units[o] \in Nat \ {0}
  BY LinesFacts, AmountsAssumption
<1>3. \A o \in T : Units[o] \in Nat
  BY <1>2
<1>4. Units[Primary(c)] \in Nat \ {0}
  BY <1>1, <1>2
<1>5. \A o \in S : Units[o] \in Int
  BY <1>2
<1> HIDE DEF T, S
<1>6. SumFunctionOnSet(Units, S) = Units[Primary(c)] + SumFunctionOnSet(Units, S \ {Primary(c)})
  BY <1>1, <1>5, SumRemove
<1>7. SumFunctionOnSet(Units, T) \in Nat
  BY <1>1, <1>3, SumNat
<1>8. SumFunctionOnSet(Units, S) \in Nat \ {0}
  BY <1>4, <1>6, <1>7 DEF T
<1>9. QED
  BY <1>8 DEF S, Subtotal

LEMMA ShareInt ==
  ASSUME NEW c \in Checkouts, NEW i \in 1 .. Len(Lines[c])
  PROVE  Share(c, i) \in Int
<1> DEFINE d == Requested[c]
           last == Len(Lines[c])
           part(j) == (2 * d * Units[Lines[c][j]] + Subtotal(c)) \div (2 * Subtotal(c))
           rounded == [j \in 1 .. last |-> part(j)]
<1>1. d \in Nat /\ last \in Nat \ {0} /\ Subtotal(c) \in Nat \ {0}
  BY AmountsAssumption, LinesFacts, SubtotalPositive
<1>2. ASSUME NEW j \in 1 .. last PROVE part(j) \in Int
  <2>1. Units[Lines[c][j]] \in Nat
    BY LinesFacts, AmountsAssumption
  <2> DEFINE u == Units[Lines[c][j]]
             t == Subtotal(c)
  <2>2. d \in Nat /\ u \in Nat /\ t \in Nat \ {0}
    BY <1>1, <2>1
  <2> HIDE DEF d, u, t
  <2>3. (2 * d * u + t) \in Int /\ 2 * t \in Nat \ {0}
    BY <2>2
  <2>4. (2 * d * u + t) \div (2 * t) \in Int
    BY <2>3
  <2>5. QED
    BY <2>4 DEF u, t, d
<1>3. \A j \in 1 .. last : rounded[j] \in Int
  BY <1>2
<1>4. IsFiniteSet(1 .. last - 1)
  BY <1>1, FS_Interval
<1>5. \A j \in 1 .. last - 1 : rounded[j] \in Int
  <2> HIDE DEF rounded, last
  <2>1. QED
    BY <1>1, <1>3
<1>6. SumFunctionOnSet(rounded, 1 .. last - 1) \in Int
  <2> HIDE DEF rounded, last
  <2>1. QED
    BY <1>4, <1>5, SumInt
<1>7. Share(c, i) = IF i < last THEN rounded[i]
                    ELSE d - SumFunctionOnSet(rounded, 1 .. last - 1)
  BY DEF Share
<1>8. rounded[i] \in Int
  BY <1>3
<1> HIDE DEF d, rounded
<1>9. QED
  BY <1>1, <1>6, <1>7, <1>8

LEMMA TotalNat ==
  ASSUME NEW o \in Orders, NEW row \in Row
  PROVE  Total(row, o) \in Nat
<1>1. Units[o] \in Nat /\ row.discount \in Int
  BY AmountsAssumption DEF Row
<1>2. QED
  BY <1>1 DEF Total

\* No more points are redeemed than the checkout costs.
LEMMA MaxRedeemableBound ==
  ASSUME NEW c \in Checkouts, points \in Nat
  PROVE  /\ MaxRedeemable(c) \in Int
         /\ MaxRedeemable(c) <= Subtotal(c)
<1> DEFINE a == points - MinPoints
           s == Subtotal(c)
           b == (s * CapPercent) \div 100
           m == Min({a, b})
<1>1. s \in Nat /\ CapPercent \in 0 .. 100 /\ a \in Int
  BY SubtotalPositive, AmountsAssumption
<1>2. b \in Int /\ b <= s
  <2> HIDE DEF s
  <2>1. s * CapPercent \in Nat /\ s * CapPercent <= s * 100
    BY <1>1, Z3
  <2> DEFINE p == s * CapPercent
  <2> HIDE DEF p
  <2>2. p \in Nat /\ p <= s * 100
    BY <2>1 DEF p
  <2>3. p \div 100 \in Int /\ p \div 100 <= s
    BY <1>1, <2>2
  <2>4. QED
    BY <2>3 DEF p
<1> HIDE DEF a, b
<1>3. m \in {a, b} /\ m <= b
  <2>1. \E x \in {a, b} : \A y \in {a, b} : x <= y
    BY <1>1, <1>2
  <2>2. m \in {a, b} /\ \A y \in {a, b} : m <= y
    BY <2>1 DEF Min
  <2>3. QED
    BY <2>2
<1> HIDE DEF m
<1>4. m \in Int /\ m <= s
  BY <1>1, <1>2, <1>3
<1>5. MaxRedeemable(c) \in {0, m}
  <2>1. \E x \in {0, m} : \A y \in {0, m} : x >= y
    BY <1>4
  <2>2. Max({0, m}) \in {0, m}
    BY <2>1 DEF Max
  <2>3. QED
    BY <2>2 DEF MaxRedeemable, m, a, b, s
<1>6. MaxRedeemable(c) \in Int /\ MaxRedeemable(c) <= s
  <2> HIDE DEF s
  <2>1. QED
    BY <1>1, <1>4, <1>5
<1>7. QED
  BY <1>6 DEF s

\* A handler with orders left is at one of them.
LEMMA AtOneOf ==
  ASSUME NEW r, r.rest \subseteq Orders, r.rest # {}
  PROVE  At(r) \in r.rest
<1>1. \A o \in Orders : Position[o] \in Nat
  <2> TAKE o \in Orders
  <2>1. Checkout(o) \in Checkouts /\ o \in OrdersOf(Checkout(o))
    BY LinesAssumption DEF Checkout, OrdersOf
  <2>2. \E i \in DOMAIN Lines[Checkout(o)] : Lines[Checkout(o)][i] = o
    BY <2>1 DEF OrdersOf, Range
  <2>3. Position[o] \in DOMAIN Lines[Checkout(o)]
    BY <2>2 DEF Position
  <2>4. Lines[Checkout(o)] \in Seq(Orders)
    BY <2>1, LinesAssumption
  <2>5. QED
    BY <2>3, <2>4
<1> DEFINE G == {T \in SUBSET r.rest :
                   T # {} => \E o \in T : \A p \in T : Position[o] <= Position[p]}
<1>2. ASSUME NEW T \in SUBSET r.rest, \A U \in SUBSET T : U # T => U \in G
      PROVE  T \in G
  <2>1. SUFFICES ASSUME T # {}
                 PROVE  \E o \in T : \A p \in T : Position[o] <= Position[p]
    OBVIOUS
  <2>2. PICK e \in T : TRUE
    BY <2>1
  <2>3. T \ {e} \in G
    BY <1>2, <2>2
  <2>4. \A o \in T : Position[o] \in Nat
    BY <1>1
  <2>5. CASE T \ {e} = {}
    BY <2>2, <2>4, <2>5
  <2>6. CASE T \ {e} # {}
    <3>1. PICK o \in T \ {e} : \A p \in T \ {e} : Position[o] <= Position[p]
      BY <2>3, <2>6
    <3>2. Position[o] \in Nat /\ Position[e] \in Nat
      BY <2>2, <2>4
    <3>3. CASE Position[o] <= Position[e]
      BY <3>1, <3>3
    <3>4. CASE Position[e] <= Position[o]
      <4>1. \A p \in T : Position[e] <= Position[p]
        BY <2>2, <2>4, <3>1, <3>2, <3>4
      <4>2. QED
        BY <2>2, <4>1
    <3>5. QED
      BY <3>2, <3>3, <3>4
  <2>7. QED
    BY <2>5, <2>6
<1>3. IsFiniteSet(r.rest)
  BY LinesAssumption, FS_Subset
<1>4. \A T \in SUBSET r.rest : T \in G
  <2> HIDE DEF G
  <2>1. QED
    BY <1>2, <1>3, SubsetInduction
<1>5. r.rest \in G
  BY <1>4
<1>6. QED
  BY <1>5 DEF At

-----------------------------------------------------------------------------
(***************************************************************************)
(* Requests.                                                               *)
(***************************************************************************)
Requests == {Idle} \cup Checkingout \cup Working

LEMMA OrderOfIsAt == \A w : OrderOf(w) = At(req[w])
BY DEF OrderOf, At

LEMMA CheckingoutFields ==
  ASSUME NEW r \in Checkingout
  PROVE  r.op \in Steps /\ r.c \in Checkouts /\ r.i \in Nat /\ r.op # "idle" /\ r.op \notin Handling
BY DEF Checkingout, CheckoutSteps, Steps, Handling, Settling, Selling, Ending

LEMMA WorkingFields ==
  ASSUME NEW r \in Working
  PROVE  /\ r.op \in Handling /\ r.op # "idle" /\ r.op \notin Steps
         /\ r.rest \in SUBSET Orders /\ r.rows \in Snapshots
         /\ r.notice \in Notice \cup {None} /\ r.to \in Ends \cup {None}
BY DEF Working, Steps, Handling, Settling, Selling, Ending, Ends

LEMMA Kinds ==
  ASSUME NEW r \in Requests
  PROVE  /\ r.op \in Steps => r \in Checkingout
         /\ r.op \in Handling => r \in Working
         /\ r.op = "idle" => r = Idle
         /\ r = Idle => r.op = "idle" /\ r.op \notin Steps /\ r.op \notin Handling
<1>1. Idle.op = "idle"
  BY DEF Idle
<1>2. "idle" \notin Steps /\ "idle" \notin Handling
  BY DEF Steps, Handling, Settling, Selling, Ending
<1>3. QED
  BY <1>1, <1>2, CheckingoutFields, WorkingFields DEF Requests

LEMMA CheckingoutNew ==
  ASSUME NEW op \in Steps, NEW c \in Checkouts, NEW i \in Nat
  PROVE  [op |-> op, c |-> c, i |-> i] \in Checkingout
BY DEF Checkingout, CheckoutSteps, Steps

LEMMA CheckingoutGoto ==
  ASSUME NEW r \in Checkingout, NEW op \in Steps, NEW q, q = [r EXCEPT !.op = op]
  PROVE  q \in Checkingout /\ q.op = op /\ q.c = r.c /\ q.i = r.i
BY DEF Checkingout, CheckoutSteps, Steps

LEMMA CheckingoutAt ==
  ASSUME NEW r \in Checkingout, NEW i \in Nat, NEW q, q = [r EXCEPT !.i = i]
  PROVE  q \in Checkingout /\ q.op = r.op /\ q.c = r.c /\ q.i = i
BY DEF Checkingout, CheckoutSteps, Steps

LEMMA WorkingGoto ==
  ASSUME NEW r \in Working, NEW op \in Handling, NEW q, q = [r EXCEPT !.op = op]
  PROVE  /\ q \in Working /\ q.op = op /\ q.rest = r.rest /\ q.rows = r.rows
         /\ q.notice = r.notice /\ q.to = r.to /\ At(q) = At(r)
<1>1. q \in Working /\ q.op = op /\ q.rest = r.rest /\ q.rows = r.rows
      /\ q.notice = r.notice /\ q.to = r.to
  BY DEF Working, Handling, Settling, Selling, Ending
<1>2. At(q) = At(r)
  BY <1>1 DEF At
<1>3. QED
  BY <1>1, <1>2

\* The rows that a handler starts from.
LEMMA JobFields ==
  ASSUME TypeOK, NEW op \in Handling, NEW rest \in SUBSET Orders,
         NEW notice \in Notice \cup {None}, NEW to \in Ends \cup {None}
  PROVE  LET q == Job(op, rest, notice, to)
         IN  /\ q \in Working /\ q.op = op /\ q.rest = rest
             /\ q.notice = notice /\ q.to = to
             /\ \A o \in rest \cap Present : q.rows[o] \in Row /\ q.rows[o] = order[o]
<1> DEFINE rows == Seen(rest)
<1>1. rows \in Snapshots /\ \A o \in rest : rows[o] = order[o]
  BY DEF Seen, Snapshots, TypeOK
<1>2. \A o \in rest \cap Present : rows[o] \in Row
  BY <1>1 DEF Present, Placed, TypeOK
<1> HIDE DEF rows
<1>3. [op |-> op, rest |-> rest, rows |-> rows, notice |-> notice, to |-> to] \in Working
  BY <1>1 DEF Working, Handling, Settling, Selling, Ending, Ends
<1>4. QED
  BY <1>1, <1>2, <1>3 DEF Job, rows

LEMMA GotoContinues ==
  ASSUME TypeOK, NEW w \in Workers, NEW op, Goto(w, op)
  PROVE  Continue(w, [req[w] EXCEPT !.op = op])
BY DEF TypeOK, Goto, Continue

\* The request of a worker, and what the invariant says of it.
LEMMA RequestFacts ==
  ASSUME IInv, NEW w \in Workers
  PROVE  /\ req[w] \in Requests /\ req \in [Workers -> Requests]
         /\ CheckoutOK(req[w], Present, Used)
         /\ HandlerOK(req[w], Present, Sold, Used, Tried)
         /\ req[w].op \in Steps => req[w] \in Checkingout
         /\ req[w].op \in Handling => req[w] \in Working
<1>1. req[w] \in Requests /\ req \in [Workers -> Requests]
  BY DEF IInv, TypeOK, Requests
<1>2. QED
  BY <1>1, Kinds DEF IInv, RequestsOK

-----------------------------------------------------------------------------
(***************************************************************************)
(* What a step of one request leaves of the invariant.                     *)
(***************************************************************************)
LEMMA RequestsStep ==
  ASSUME IInv, NEW w \in Workers, NEW q \in Requests, Continue(w, q),
         Present \subseteq Present', Sold \subseteq Sold', Used \subseteq Used',
         Tried \subseteq Tried',
         CheckoutOK(q, Present', Used'), HandlerOK(q, Present', Sold', Used', Tried'),
         \A v \in Workers \ {w} : req[v].op \in Steps =>
           /\ Primary(req[v].c) \notin Used' \ Used
           /\ q.op \in Steps => req[v].c # q.c
  PROVE  RequestsOK' /\ OneCheckout'
<1>1. req \in [Workers -> Requests]
  BY DEF IInv, TypeOK, Requests
<1>2. req'[w] = q /\ \A v \in Workers \ {w} : req'[v] = req[v]
  BY <1>1 DEF Continue
<1>3. ASSUME NEW v \in Workers
      PROVE  /\ CheckoutOK(req'[v], Present', Used')
             /\ HandlerOK(req'[v], Present', Sold', Used', Tried')
  <2>1. CASE v = w
    BY <1>2, <2>1
  <2>2. CASE v # w
    <3>1. PICK r : r = req[v] /\ r = req'[v]
      BY <1>2, <2>2
    <3>2. CheckoutOK(r, Present, Used) /\ HandlerOK(r, Present, Sold, Used, Tried)
      BY <3>1 DEF IInv, RequestsOK
    <3>3. r.op \in Steps => Primary(r.c) \notin Used' \ Used
      BY <2>2, <3>1
    <3>4. CheckoutOK(r, Present', Used')
      BY <3>2, <3>3 DEF CheckoutOK, Early, Steps
    <3>5. HandlerOK(r, Present', Sold', Used', Tried')
      BY <3>2 DEF HandlerOK
    <3>6. QED
      BY <3>1, <3>4, <3>5
  <2>3. QED
    BY <2>1, <2>2
<1>4. RequestsOK'
  BY <1>3 DEF RequestsOK
<1>5. OneCheckout'
  BY <1>2 DEF IInv, OneCheckout
<1>6. QED
  BY <1>4, <1>5

\* The same, for a request that makes no first redemption and begins no checkout.
LEMMA RequestsContinue ==
  ASSUME IInv, NEW w \in Workers, NEW q \in Requests, Continue(w, q),
         Present \subseteq Present', Sold \subseteq Sold', Used' = Used,
         Tried \subseteq Tried',
         CheckoutOK(q, Present', Used'), HandlerOK(q, Present', Sold', Used', Tried'),
         q.op \in Steps => req[w].op \in Steps /\ q.c = req[w].c
  PROVE  RequestsOK' /\ OneCheckout'
<1>1. \A v \in Workers \ {w} : req[v].op \in Steps =>
        /\ Primary(req[v].c) \notin Used' \ Used
        /\ q.op \in Steps => req[v].c # q.c
  BY DEF IInv, OneCheckout
<1>2. QED
  BY <1>1, RequestsStep

LEMMA IdleOK ==
  \A P, S, U, T : Idle \in Requests /\ CheckoutOK(Idle, P, U) /\ HandlerOK(Idle, P, S, U, T)
BY DEF Idle, Requests, CheckoutOK, HandlerOK, Steps, Handling, Settling, Selling, Ending

\* A handler that sells or reverses is at one of its orders.
LEMMA AtOrder ==
  ASSUME NEW r \in Working, NEW P, NEW S, NEW U, NEW T, HandlerOK(r, P, S, U, T),
         r.op # "settled"
  PROVE  /\ At(r) \in r.rest /\ At(r) \in Orders /\ At(r) \in P
         /\ r.rows[At(r)] \in Row /\ Units[At(r)] \in Nat \ {0}
<1>1. r.rest \subseteq Orders /\ r.rest # {}
  BY WorkingFields DEF HandlerOK
<1>2. At(r) \in r.rest
  BY <1>1, AtOneOf
<1>3. At(r) \in P /\ r.rows[At(r)] \in Row
  BY <1>2, WorkingFields DEF HandlerOK
<1>4. QED
  BY <1>1, <1>2, <1>3, AmountsAssumption

LEMMA TakenNat ==
  ASSUME NEW r \in Requests, NEW P, NEW S, NEW U, NEW T, HandlerOK(r, P, S, U, T), NEW b
  PROVE  Taken(b, r) \in Nat
<1>1. CASE r.op = "sale"
  <2>1. r \in Working
    BY <1>1, Kinds DEF Handling, Settling
  <2>2. Units[At(r)] \in Nat
    BY <1>1, <2>1, AtOrder
  <2>3. QED
    BY <2>2 DEF Taken
<1>2. CASE r.op # "sale"
  BY <1>2 DEF Taken
<1>3. QED
  BY <1>1, <1>2

LEMMA TakenChanges ==
  ASSUME IInv, NEW w \in Workers, NEW q \in Requests, Continue(w, q),
         NEW P, NEW S, NEW U, NEW T, HandlerOK(q, P, S, U, T), NEW b
  PROVE  /\ TakenFrom(b)' = TakenFrom(b) + Taken(b, q) - Taken(b, req[w])
         /\ TakenFrom(b) \in Nat /\ Taken(b, q) \in Nat /\ Taken(b, req[w]) \in Nat
<1> DEFINE f == [v \in Workers |-> Taken(b, req[v])]
           g == [v \in Workers |-> Taken(b, req'[v])]
<1>1. req \in [Workers -> Requests]
  BY DEF IInv, TypeOK, Requests
<1>2. req'[w] = q /\ \A v \in Workers \ {w} : req'[v] = req[v]
  BY <1>1 DEF Continue
<1>3. \A v \in Workers : Taken(b, req[v]) \in Nat
  BY <1>1, TakenNat DEF IInv, RequestsOK
<1>4. Taken(b, q) \in Nat
  BY TakenNat
<1>5. \A v \in Workers : f[v] \in Nat /\ f[v] \in Int /\ g[v] \in Int
  BY <1>2, <1>3, <1>4
<1>6. \A v \in Workers : v # w => g[v] = f[v]
  BY <1>2
<1>7. g[w] = Taken(b, q) /\ f[w] = Taken(b, req[w])
  BY <1>2
<1>8. TakenFrom(b) = SumFunctionOnSet(f, Workers) /\ TakenFrom(b)' = SumFunctionOnSet(g, Workers)
  BY DEF TakenFrom
<1>9. IsFiniteSet(Workers)
  BY LinesAssumption
<1> HIDE DEF f, g
<1>10. SumFunctionOnSet(g, Workers) = SumFunctionOnSet(f, Workers) + g[w] - f[w]
  BY <1>5, <1>6, <1>9, SumUpdate
<1>11. SumFunctionOnSet(f, Workers) \in Nat
  BY <1>5, <1>9, SumNat
<1>12. QED
  BY <1>3, <1>4, <1>7, <1>8, <1>10, <1>11

\* A step that neither takes goods nor sells.
LEMMA ShelfStep ==
  ASSUME IInv, NEW w \in Workers, NEW q \in Requests, Continue(w, q),
         NEW P, NEW S, NEW U, NEW T, HandlerOK(q, P, S, U, T), q.op # "sale",
         UNCHANGED <<stock, sales>>
  PROVE  ShelfOK'
<1> SUFFICES ASSUME NEW b \in Branches
             PROVE  SoldFrom(b)' + TakenFrom(b)' <= Opening[b] - stock'[b]
  BY DEF ShelfOK
<1>1. SoldFrom(b)' = SoldFrom(b)
  BY DEF SoldFrom
<1>2. SoldFrom(b) + TakenFrom(b) <= Opening[b] - stock[b]
  BY DEF IInv, ShelfOK
<1>3. /\ TakenFrom(b)' = TakenFrom(b) + Taken(b, q) - Taken(b, req[w])
      /\ TakenFrom(b) \in Nat /\ Taken(b, req[w]) \in Nat
  BY TakenChanges
<1>4. Taken(b, q) = 0
  BY DEF Taken
<1>5. SoldFrom(b) \in Int
  <2> DEFINE f == [o \in Orders |-> sales[o] * Units[o]]
             A == {o \in Orders : Branch[o] = b}
  <2>1. IsFiniteSet(A)
    BY LinesAssumption, FS_Subset
  <2>2. \A o \in A : f[o] \in Int
    BY AmountsAssumption DEF IInv, TypeOK
  <2>3. SoldFrom(b) = SumFunctionOnSet(f, A)
    BY DEF SoldFrom
  <2> HIDE DEF f, A
  <2>4. QED
    BY <2>1, <2>2, <2>3, SumInt
<1>6. Opening[b] \in Nat /\ stock[b] \in Nat
  BY AmountsAssumption DEF IInv, TypeOK
<1>7. QED
  BY <1>1, <1>2, <1>3, <1>4, <1>5, <1>6

-----------------------------------------------------------------------------
(***************************************************************************)
(* The wallet and its ledger rows.                                         *)
(***************************************************************************)
AwardOf(r) == Total(r.rows[At(r)], At(r)) \div EarnPer

\* What a request has done to the wallet without its row.
Unsaved(r, taken) ==
  CASE r.op = "redeemRow" -> -Requested[r.c]
    [] r.op = "restoreRow" -> taken[At(r)]
    [] r.op = "awardRow" -> AwardOf(r)
    [] OTHER -> 0

RowsOf == [o \in Orders |-> restored[o] + earned[o] + orphaned[o] - redeemed[o]]
InRows == SumFunctionOnSet(RowsOf, Orders)
InFlight == SumFunctionOnSet([w \in Workers |-> Unsaved(req[w], redeemed)], Workers)

LEMMA UnrecordedIsUnsaved ==
  [w \in Workers |-> Unrecorded(w)] = [w \in Workers |-> Unsaved(req[w], redeemed)]
<1>1. ASSUME NEW w \in Workers
      PROVE  Unrecorded(w) = Unsaved(req[w], redeemed)
  <2>1. OrderOf(w) = At(req[w])
    BY OrderOfIsAt
  <2>2. Earned(w) = AwardOf(req[w])
    BY <2>1 DEF Earned, RowOf, AwardOf
  <2>3. QED
    BY <2>1, <2>2 DEF Unrecorded, Unsaved
<1>2. QED
  BY <1>1

WalletSums == crashes = 0 => points = OpeningPoints + InRows + InFlight

LEMMA WalletIsSums == WalletMatchesLedger <=> WalletSums
BY UnrecordedIsUnsaved DEF WalletMatchesLedger, WalletSums, InRows, InFlight, RowsOf

LEMMA WalletIsSumsNext == WalletMatchesLedger' <=> WalletSums'
BY WalletIsSums, PTL

LEMMA AwardNat ==
  ASSUME NEW r \in Working, NEW P, NEW S, NEW U, NEW T, HandlerOK(r, P, S, U, T),
         r.op # "settled"
  PROVE  AwardOf(r) \in Nat
<1> DEFINE t == Total(r.rows[At(r)], At(r))
<1>1. t \in Nat
  BY AtOrder, TotalNat
<1>2. EarnPer \in Nat \ {0}
  BY AmountsAssumption
<1> HIDE DEF t
<1>3. t \div EarnPer \in Nat
  BY <1>1, <1>2
<1>4. QED
  BY <1>3 DEF t, AwardOf

LEMMA UnsavedInt ==
  ASSUME NEW r \in Requests, NEW P, NEW S, NEW U, NEW T, HandlerOK(r, P, S, U, T),
         NEW taken \in [Orders -> Nat]
  PROVE  Unsaved(r, taken) \in Int
<1>1. CASE r.op = "redeemRow"
  <2>1. r.c \in Checkouts
    BY <1>1, Kinds, CheckingoutFields DEF Steps
  <2>2. Requested[r.c] \in Nat
    BY <2>1, AmountsAssumption
  <2>3. QED
    BY <1>1, <2>2 DEF Unsaved
<1>2. CASE r.op \in {"restoreRow", "awardRow"}
  <2>1. r \in Working /\ r.op # "settled"
    BY <1>2, Kinds DEF Handling, Selling, Ending
  <2>2. At(r) \in Orders /\ AwardOf(r) \in Nat
    BY <2>1, AtOrder, AwardNat
  <2>3. QED
    BY <1>2, <2>2 DEF Unsaved
<1>3. CASE r.op \notin {"redeemRow", "restoreRow", "awardRow"}
  BY <1>3 DEF Unsaved
<1>4. QED
  BY <1>1, <1>2, <1>3

LEMMA InFlightChanges ==
  ASSUME IInv, redeemed' \in [Orders -> Nat],
         NEW w \in Workers, NEW q \in Requests, Continue(w, q),
         NEW P, NEW S, NEW U, NEW T, HandlerOK(q, P, S, U, T),
         \A v \in Workers \ {w} : Unsaved(req[v], redeemed') = Unsaved(req[v], redeemed)
  PROVE  /\ InFlight' = InFlight + Unsaved(q, redeemed') - Unsaved(req[w], redeemed)
         /\ InFlight \in Int /\ Unsaved(q, redeemed') \in Int
         /\ Unsaved(req[w], redeemed) \in Int
<1> DEFINE f == [v \in Workers |-> Unsaved(req[v], redeemed)]
           g == [v \in Workers |-> Unsaved(req'[v], redeemed')]
<1>1. req \in [Workers -> Requests] /\ redeemed \in [Orders -> Nat]
  BY DEF IInv, TypeOK, Requests
<1>2. req'[w] = q /\ \A v \in Workers \ {w} : req'[v] = req[v]
  BY <1>1 DEF Continue
<1>3. \A v \in Workers : Unsaved(req[v], redeemed) \in Int
  BY <1>1, UnsavedInt DEF IInv, RequestsOK
<1>4. Unsaved(q, redeemed') \in Int
  BY UnsavedInt
<1>5. \A v \in Workers : g[v] = IF v = w THEN Unsaved(q, redeemed') ELSE f[v]
  <2> TAKE v \in Workers
  <2>1. CASE v = w
    BY <1>2, <2>1
  <2>2. CASE v # w
    <3>1. g[v] = Unsaved(req[v], redeemed')
      BY <1>2, <2>2
    <3>2. QED
      BY <2>2, <3>1
  <2>3. QED
    BY <2>1, <2>2
<1>6. f[w] = Unsaved(req[w], redeemed) /\ \A v \in Workers : f[v] \in Int
  BY <1>3
<1>7. InFlight = SumFunctionOnSet(f, Workers) /\ InFlight' = SumFunctionOnSet(g, Workers)
  BY DEF InFlight
<1>8. IsFiniteSet(Workers)
  BY LinesAssumption
<1> HIDE DEF f, g
<1>9. SumFunctionOnSet(g, Workers) = SumFunctionOnSet(f, Workers) + g[w] - f[w]
  BY <1>4, <1>5, <1>6, <1>8, SumUpdate
<1>10. SumFunctionOnSet(f, Workers) \in Int
  BY <1>6, <1>8, SumInt
<1>11. QED
  BY <1>4, <1>5, <1>6, <1>7, <1>9, <1>10

LEMMA InRowsInt ==
  ASSUME TypeOK
  PROVE  InRows \in Int
<1> DEFINE f == RowsOf
<1>1. \A o \in Orders : f[o] \in Int
  BY DEF TypeOK, RowsOf
<1> HIDE DEF f
<1>2. SumFunctionOnSet(f, Orders) \in Int
  BY <1>1, LinesAssumption, SumInt
<1>3. QED
  BY <1>2 DEF InRows, f

LEMMA InRowsChanges ==
  ASSUME TypeOK, TypeOK', NEW e \in Orders,
         \A o \in Orders \ {e} :
           /\ restored'[o] = restored[o] /\ earned'[o] = earned[o]
           /\ orphaned'[o] = orphaned[o] /\ redeemed'[o] = redeemed[o]
  PROVE  InRows' = InRows + (restored'[e] + earned'[e] + orphaned'[e] - redeemed'[e])
                          - (restored[e] + earned[e] + orphaned[e] - redeemed[e])
<1>0. PICK f, g : f = RowsOf /\ g = RowsOf'
  OBVIOUS
<1>1. \A o \in Orders : f[o] \in Int /\ g[o] \in Int
  BY <1>0 DEF TypeOK, RowsOf
<1>2. \A o \in Orders : o # e => g[o] = f[o]
  BY <1>0 DEF RowsOf
<1>3. /\ f[e] = restored[e] + earned[e] + orphaned[e] - redeemed[e]
      /\ g[e] = restored'[e] + earned'[e] + orphaned'[e] - redeemed'[e]
  BY <1>0 DEF RowsOf
<1>4. SumFunctionOnSet(g, Orders) = SumFunctionOnSet(f, Orders) + g[e] - f[e]
  <2>1. IsFiniteSet(Orders)
    BY LinesAssumption
  <2>2. QED
    BY <1>1, <1>2, <2>1, SumUpdate
<1>5. SumFunctionOnSet(f, Orders) = InRows /\ SumFunctionOnSet(g, Orders) = InRows'
  BY <1>0 DEF InRows
<1>6. SumFunctionOnSet(f, Orders) \in Int
  BY <1>1, LinesAssumption, SumInt
<1>7. restored[e] \in Int /\ earned[e] \in Int /\ orphaned[e] \in Int /\ redeemed[e] \in Int
      /\ restored'[e] \in Int /\ earned'[e] \in Int /\ orphaned'[e] \in Int
      /\ redeemed'[e] \in Int
  BY DEF TypeOK
<1>8. QED
  BY <1>3, <1>4, <1>5, <1>6, <1>7

\* A step that touches no row of the ledger.
LEMMA WalletStep ==
  ASSUME IInv, points' \in Int, NEW w \in Workers, NEW q \in Requests, Continue(w, q),
         NEW P, NEW S, NEW U, NEW T, HandlerOK(q, P, S, U, T),
         UNCHANGED <<crashes, orphaned, redeemed, restored, earned>>,
         points' = points + Unsaved(q, redeemed) - Unsaved(req[w], redeemed)
  PROVE  WalletMatchesLedger'
<1>1. redeemed' = redeemed /\ redeemed \in [Orders -> Nat]
  BY DEF IInv, TypeOK
<1>2. \A v \in Workers \ {w} : Unsaved(req[v], redeemed') = Unsaved(req[v], redeemed)
  BY <1>1
<1>3. /\ InFlight' = InFlight + Unsaved(q, redeemed) - Unsaved(req[w], redeemed)
      /\ InFlight \in Int /\ Unsaved(q, redeemed) \in Int
      /\ Unsaved(req[w], redeemed) \in Int
  BY <1>1, <1>2, InFlightChanges
<1>4. InRows' = InRows /\ InRows \in Int
  BY InRowsInt DEF IInv, InRows, RowsOf
<1>5. crashes = 0 => points = OpeningPoints + InRows + InFlight
  BY WalletIsSums DEF IInv, WalletSums
<1>6. points \in Int /\ OpeningPoints \in Int
  BY AmountsAssumption DEF IInv, TypeOK
<1>7. crashes' = 0 => points' = OpeningPoints + InRows' + InFlight'
  BY <1>3, <1>4, <1>5, <1>6
<1>8. QED
  BY <1>7, WalletIsSumsNext DEF WalletSums

\* A step that writes a row: of one order.
LEMMA WalletRowStep ==
  ASSUME IInv, TypeOK', NEW w \in Workers, NEW q \in Requests, Continue(w, q),
         NEW P, NEW S, NEW U, NEW T, HandlerOK(q, P, S, U, T),
         UNCHANGED <<crashes, points>>, NEW e \in Orders,
         \A o \in Orders \ {e} :
           /\ restored'[o] = restored[o] /\ earned'[o] = earned[o]
           /\ orphaned'[o] = orphaned[o] /\ redeemed'[o] = redeemed[o],
         \A v \in Workers \ {w} : Unsaved(req[v], redeemed') = Unsaved(req[v], redeemed),
         (restored'[e] + earned'[e] + orphaned'[e] - redeemed'[e])
             - (restored[e] + earned[e] + orphaned[e] - redeemed[e]) + Unsaved(q, redeemed')
           = Unsaved(req[w], redeemed)
  PROVE  WalletMatchesLedger'
<1>1. redeemed' \in [Orders -> Nat]
  BY DEF TypeOK
<1>2. /\ InFlight' = InFlight + Unsaved(q, redeemed') - Unsaved(req[w], redeemed)
      /\ InFlight \in Int /\ Unsaved(q, redeemed') \in Int
      /\ Unsaved(req[w], redeemed) \in Int
  BY <1>1, InFlightChanges
<1>3. TypeOK
  BY DEF IInv
<1>4. InRows' = InRows + (restored'[e] + earned'[e] + orphaned'[e] - redeemed'[e])
                       - (restored[e] + earned[e] + orphaned[e] - redeemed[e])
  BY <1>3, InRowsChanges
<1>5. InRows \in Int
  BY <1>3, InRowsInt
<1>6. crashes = 0 => points = OpeningPoints + InRows + InFlight
  BY WalletIsSums DEF IInv, WalletSums
<1>7. points \in Int /\ OpeningPoints \in Int
  BY <1>3, AmountsAssumption DEF TypeOK
<1>8. restored[e] \in Int /\ earned[e] \in Int /\ orphaned[e] \in Int /\ redeemed[e] \in Int
      /\ restored'[e] \in Int /\ earned'[e] \in Int /\ orphaned'[e] \in Int
      /\ redeemed'[e] \in Int
  BY <1>3 DEF TypeOK
<1> DEFINE d == (restored'[e] + earned'[e] + orphaned'[e] - redeemed'[e])
                  - (restored[e] + earned[e] + orphaned[e] - redeemed[e])
           u == Unsaved(q, redeemed')
           t == Unsaved(req[w], redeemed)
<1>9. d \in Int /\ u \in Int /\ t \in Int /\ InRows' = InRows + d
      /\ InFlight' = InFlight + u - t /\ d + u = t
  BY <1>2, <1>4, <1>5, <1>7, <1>8
<1> HIDE DEF d, u, t
<1>10. crashes' = 0 => points' = OpeningPoints + InRows' + InFlight'
  BY <1>2, <1>5, <1>6, <1>7, <1>9
<1>11. QED
  BY <1>10, WalletIsSumsNext DEF WalletSums

-----------------------------------------------------------------------------
(***************************************************************************)
(* Steps that write nothing but their own request.                         *)
(***************************************************************************)
LEMMA RequestTyped ==
  ASSUME TypeOK, NEW w \in Workers, NEW q \in Requests, Continue(w, q)
  PROVE  req' \in [Workers -> {Idle} \cup Checkingout \cup Working]
BY DEF TypeOK, Continue, Requests

LEMMA SetsKept ==
  /\ UNCHANGED order => Present' = Present /\ Settled' = Settled
  /\ UNCHANGED sales => Sold' = Sold
  /\ UNCHANGED redeemed => Used' = Used
  /\ UNCHANGED attempt => Tried' = Tried
BY DEF Present, Placed, Settled, Paid, Sold, Used, Tried

\* A step that writes nothing but its own request, and takes and gives nothing.
LEMMA OwnStep ==
  ASSUME IInv, NEW w \in Workers, NEW q \in Requests, Continue(w, q),
         UNCHANGED <<order, attempt, books, wallet, payhere, aged, crashes>>,
         contested' \subseteq Orders,
         CheckoutOK(q, Present, Used), HandlerOK(q, Present, Sold, Used, Tried),
         q.op # "sale", Unsaved(q, redeemed) = Unsaved(req[w], redeemed),
         \A v \in Workers \ {w} :
           req[v].op \in Steps /\ q.op \in Steps => req[v].c # q.c
  PROVE  IInv'
<1>0. UNCHANGED <<order, attempt, stock, sales, posted, points, redeemed, restored, earned,
                  orphaned, captured, notices, aged, crashes>>
  BY DEF books, wallet, payhere
<1>1. TypeOK'
  BY <1>0, RequestTyped DEF IInv, TypeOK
<1>2. Present' = Present /\ Settled' = Settled /\ Sold' = Sold /\ Used' = Used /\ Tried' = Tried
  BY <1>0, SetsKept
<1>3. RequestsOK' /\ OneCheckout'
  BY <1>2, RequestsStep
<1>4. TablesOK'
  BY <1>0, <1>2 DEF IInv, TablesOK
<1>5. ShelfOK'
  BY <1>0, ShelfStep
<1>6. WalletMatchesLedger'
  <2>1. Unsaved(q, redeemed) \in Int
    BY UnsavedInt DEF IInv, TypeOK
  <2>2. points \in Int
    BY DEF IInv, TypeOK
  <2>3. points' = points + Unsaved(q, redeemed) - Unsaved(req[w], redeemed)
    BY <1>0, <2>1, <2>2
  <2>4. QED
    BY <1>0, <2>2, <2>3, WalletStep
<1>7. QED
  BY <1>1, <1>3, <1>4, <1>5, <1>6 DEF IInv

LEMMA AtWorkOrders ==
  ASSUME NEW r \in Requests
  PROVE  AtWork(r) \subseteq Orders
<1>1. CASE r = Idle
  <2>1. r.op = "idle"
    BY <1>1 DEF Idle
  <2>2. r.op \notin CheckoutSteps
    BY <2>1 DEF CheckoutSteps
  <2>3. AtWork(r) = {}
    BY <2>1, <2>2 DEF AtWork
  <2>4. QED
    BY <2>3
<1>2. CASE r \in Checkingout
  <2>1. r.op \in CheckoutSteps /\ r.op # "idle" /\ r.c \in Checkouts
    BY <1>2 DEF Checkingout, CheckoutSteps
  <2>2. OrdersOf(r.c) \subseteq Orders
    BY <2>1, LinesFacts
  <2>3. QED
    BY <2>1, <2>2 DEF AtWork
<1>3. CASE r \in Working
  <2>1. r.op # "idle" /\ r.op \notin CheckoutSteps /\ r.rest \in SUBSET Orders
    BY <1>3, WorkingFields DEF Steps, CheckoutSteps
  <2>2. QED
    BY <2>1 DEF AtWork
<1>4. QED
  BY <1>1, <1>2, <1>3 DEF Requests

LEMMA BeginIsContinue ==
  ASSUME TypeOK, NEW w, NEW q \in Requests, Begin(w, q)
  PROVE  req[w] = Idle /\ Continue(w, q) /\ contested' \subseteq Orders
BY AtWorkOrders DEF Begin, Continue, TypeOK

LEMMA NothingUnsaved ==
  ASSUME NEW r, r.op \notin {"redeemRow", "restoreRow", "awardRow"}, NEW taken
  PROVE  Unsaved(r, taken) = 0
BY DEF Unsaved

LEMMA IdleUnsaved == \A taken : Unsaved(Idle, taken) = 0
BY DEF Unsaved, Idle

LEMMA StartCheckoutStep ==
  ASSUME IInv, NEW w \in Workers, NEW c \in Checkouts, StartCheckout(w, c)
  PROVE  IInv'
<1> DEFINE q == [op |-> "place", c |-> c, i |-> 1]
<1>1. q \in Checkingout /\ q \in Requests
  BY CheckingoutNew DEF Steps, Requests
<1>2. q.op = "place" /\ q.c = c /\ q.i = 1
  OBVIOUS
<1>3. /\ \A o \in OrdersOf(c) : ~Placed(o)
      /\ \A v \in Workers : req[v].op = "place" => req[v].c # c
      /\ Begin(w, q) /\ UNCHANGED <<order, attempt, books, wallet, payhere, aged, crashes>>
  BY DEF StartCheckout
<1> HIDE DEF q
<1>4. req[w] = Idle /\ Continue(w, q) /\ contested' \subseteq Orders
  BY <1>1, <1>3, BeginIsContinue DEF IInv
<1>5. Primary(c) \in OrdersOf(c) /\ Len(Lines[c]) \in Nat \ {0}
  BY LinesFacts
<1>6. Primary(c) \notin Present
  BY <1>3, <1>5 DEF Present
<1>7. Primary(c) \notin Used
  BY <1>6 DEF IInv, TablesOK
<1>8. CheckoutOK(q, Present, Used)
  <2>1. q.i \in 1 .. Len(Lines[c]) /\ \A j \in 1 .. q.i - 1 : Lines[c][j] \in Present
    BY <1>2, <1>5
  <2>2. QED
    BY <1>2, <1>7, <2>1 DEF CheckoutOK
<1>9. HandlerOK(q, Present, Sold, Used, Tried)
  BY <1>1, CheckingoutFields DEF HandlerOK
<1>10. ASSUME NEW v \in Workers \ {w}, req[v].op \in Steps
       PROVE  req[v].c # q.c
  <2>1. CASE req[v].op = "place"
    BY <1>2, <1>3, <2>1
  <2>2. CASE req[v].op # "place"
    <3>1. OrdersOf(req[v].c) \subseteq Present
      BY <1>10, <2>2, RequestFacts DEF CheckoutOK
    <3>2. QED
      BY <1>2, <1>5, <1>6, <3>1
  <2>3. QED
    BY <2>1, <2>2
<1>11. Unsaved(q, redeemed) = Unsaved(req[w], redeemed)
  BY <1>2, <1>4, NothingUnsaved, IdleUnsaved
<1>12. QED
  BY <1>1, <1>2, <1>3, <1>4, <1>8, <1>9, <1>10, <1>11, OwnStep

\* A handler that begins.
LEMMA BeginStep ==
  ASSUME IInv, NEW w \in Workers, NEW q \in Working, Begin(w, q),
         UNCHANGED <<order, attempt, books, wallet, payhere, aged, crashes>>,
         HandlerOK(q, Present, Sold, Used, Tried),
         q.op \notin {"sale", "restoreRow", "awardRow"}
  PROVE  IInv'
<1>2. q \in Requests /\ q.op \notin Steps /\ q.op \in Handling
  BY WorkingFields DEF Requests
<1>1. req[w] = Idle /\ Continue(w, q) /\ contested' \subseteq Orders
  BY <1>2, BeginIsContinue DEF IInv
<1>3. CheckoutOK(q, Present, Used)
  BY <1>2 DEF CheckoutOK
<1>4. Unsaved(q, redeemed) = Unsaved(req[w], redeemed)
  BY <1>1, <1>2, NothingUnsaved, IdleUnsaved DEF Steps
<1>5. QED
  BY <1>1, <1>2, <1>3, <1>4, OwnStep

LEMMA PlacedRow ==
  ASSUME TypeOK, NEW o \in Orders, Placed(o)
  PROVE  order[o] \in Row /\ o \in Present
BY DEF TypeOK, Placed, Present

LEMMA NotifyPaidStep ==
  ASSUME IInv, NEW w \in Workers, NEW n \in notices, NotifyPaid(w, n)
  PROVE  IInv'
<1> DEFINE rest == Unsettled(n.c)
           op == IF rest = {} THEN "settled" ELSE "stock"
           q == Job(op, rest, n, None)
<1>1. n \in Notice /\ n.c \in Online /\ n.c \in Checkouts /\ n.c \in Tried /\ n # None
  BY OnlineCheckouts, NullAssumption DEF IInv, TypeOK, TablesOK, Notice
<1>2. OrdersOf(n.c) \subseteq Present /\ OrdersOf(n.c) \subseteq Orders
  BY <1>1, LinesFacts DEF IInv, TablesOK
<1>3. rest \subseteq OrdersOf(n.c) /\ rest \in SUBSET Orders
  BY <1>2 DEF Unsettled
<1>4. OrdersOf(n.c) \subseteq rest \cup Sold
  <2> SUFFICES ASSUME NEW o \in OrdersOf(n.c), o \notin rest PROVE o \in Sold
    OBVIOUS
  <2>1. order[o].pay = "paid" /\ o \in Present /\ o \in Orders
    BY <1>2 DEF Unsettled
  <2>2. o \in Settled
    BY <2>1 DEF Settled, Paid, Present
  <2>3. QED
    BY <2>2 DEF IInv, TablesOK
<1>5. Begin(w, q) /\ UNCHANGED <<order, attempt, books, wallet, payhere, aged, crashes>>
  BY DEF NotifyPaid
<1>6. op \in Handling /\ op \in {"settled", "stock"} /\ (op = "settled" <=> rest = {})
  BY DEF Handling, Settling
<1> HIDE DEF op, rest
<1>7. /\ q \in Working /\ q.op = op /\ q.rest = rest /\ q.notice = n
      /\ \A o \in rest \cap Present : q.rows[o] \in Row
  BY <1>1, <1>3, <1>6, JobFields DEF IInv
<1> HIDE DEF q
<1>8. HandlerOK(q, Present, Sold, Used, Tried)
  BY <1>1, <1>2, <1>3, <1>4, <1>6, <1>7 DEF HandlerOK, Selling, Ending
<1>9. QED
  BY <1>5, <1>6, <1>7, <1>8, BeginStep

\* A handler for one order, at its counter or its end.
LEMMA OneOrderStep ==
  ASSUME IInv, NEW w \in Workers, NEW o \in Orders, Placed(o),
         NEW op \in {"award", "stock", "end"}, NEW to \in Ends \cup {None},
         Begin(w, Job(op, {o}, None, to)),
         UNCHANGED <<order, attempt, books, wallet, payhere, aged, crashes>>,
         op = "award" => o \in Sold,
         op = "end" => to \in Ends /\ (to.pay = "paid" => o \in Sold)
  PROVE  IInv'
<1> DEFINE q == Job(op, {o}, None, to)
<1>1. op \in Handling /\ {o} \in SUBSET Orders /\ o \in Present
  BY PlacedRow DEF IInv, Handling, Settling, Selling, Ending
<1>2. /\ q \in Working /\ q.op = op /\ q.rest = {o} /\ q.notice = None /\ q.to = to
      /\ \A p \in {o} \cap Present : q.rows[p] \in Row
  BY <1>1, JobFields DEF IInv
<1> HIDE DEF q
<1>3. At(q) = o
  BY <1>1, <1>2, AtOneOf
<1>4. HandlerOK(q, Present, Sold, Used, Tried)
  BY <1>1, <1>2, <1>3 DEF HandlerOK, Selling, Ending, Settling
<1>5. QED
  BY <1>2, <1>4, BeginStep DEF q

LEMMA PaidIsSold ==
  ASSUME IInv, NEW o \in Orders, Placed(o), order[o].pay = "paid"
  PROVE  o \in Sold
BY DEF IInv, TablesOK, Settled, Paid

LEMMA OneOrderHandlersStep ==
  ASSUME IInv, NEW w \in Workers, NEW o \in Orders,
         Fulfill(w, o) \/ CancelByUser(w, o) \/ MarkNotCollected(w, o) \/ Expire(w, o)
  PROVE  IInv'
<1>1. CASE Fulfill(w, o)
  <2> DEFINE op == IF PrePaid(o) THEN "award" ELSE "stock"
  <2>1. op \in {"award", "stock", "end"} /\ Placed(o) /\ Begin(w, Job(op, {o}, None, None))
        /\ UNCHANGED <<order, attempt, books, wallet, payhere, aged, crashes>>
    BY <1>1 DEF Fulfill
  <2>2. op = "award" => o \in Sold
    BY <1>1, PaidIsSold DEF Fulfill
  <2>3. op # "end" /\ None \in Ends \cup {None}
    OBVIOUS
  <2> HIDE DEF op
  <2>4. QED
    BY <2>1, <2>2, <2>3, OneOrderStep
<1>2. ASSUME NEW status \in Ended, NEW pay \in Payments \cup {"kept"}, Placed(o),
             pay = "paid" => order[o].pay = "paid",
             Begin(w, EndJob(o, status, pay)),
             UNCHANGED <<order, attempt, books, wallet, payhere, aged, crashes>>
      PROVE  IInv'
  <2> DEFINE to == [status |-> status, pay |-> pay]
  <2>1. to \in Ends /\ to.pay = pay
    BY DEF Ends
  <2>2. Begin(w, Job("end", {o}, None, to))
    BY <1>2 DEF EndJob
  <2>3. to.pay = "paid" => o \in Sold
    BY <1>2, <2>1, PaidIsSold
  <2> HIDE DEF to
  <2>4. QED
    BY <1>2, <2>1, <2>2, <2>3, OneOrderStep
<1>3. {"cancelled", "not_collected", "expired"} \subseteq Ended
      /\ {"cancelled", "paid", "kept"} \subseteq Payments \cup {"kept"}
  BY DEF Ended, Payments
<1>4. CASE CancelByUser(w, o)
  BY <1>2, <1>3, <1>4 DEF CancelByUser
<1>5. CASE MarkNotCollected(w, o)
  <2> DEFINE pay == IF order[o].pay = "paid" THEN "kept" ELSE "cancelled"
  <2>1. pay \in Payments \cup {"kept"} /\ pay # "paid"
    BY <1>3
  <2>2. Placed(o) /\ Begin(w, EndJob(o, "not_collected", pay))
        /\ UNCHANGED <<order, attempt, books, wallet, payhere, aged, crashes>>
    BY <1>5 DEF MarkNotCollected
  <2> HIDE DEF pay
  <2>3. QED
    BY <1>2, <1>3, <2>1, <2>2
<1>6. CASE Expire(w, o)
  <2> DEFINE pay == IF order[o].pay = "paid" THEN "paid" ELSE "cancelled"
  <2>1. pay \in Payments \cup {"kept"} /\ (pay = "paid" => order[o].pay = "paid")
    BY <1>3
  <2>2. Placed(o) /\ Begin(w, EndJob(o, "expired", pay))
        /\ UNCHANGED <<order, attempt, books, wallet, payhere, aged, crashes>>
    BY <1>6 DEF Expire
  <2> HIDE DEF pay
  <2>3. QED
    BY <1>2, <1>3, <2>1, <2>2
<1>7. QED
  BY <1>1, <1>4, <1>5, <1>6

-----------------------------------------------------------------------------
(***************************************************************************)
(* Notices.                                                                *)
(***************************************************************************)

\* A notice never opens an attempt, and only a settled group closes one paid.
LEMMA AttemptClosed ==
  ASSUME IInv, NEW n \in notices, NEW status \in {"pending", "failed", "cancelled"},
         attempt' = [attempt EXCEPT ![n.c].status = status],
         UNCHANGED <<order, sales, redeemed>>, notices' \subseteq notices
  PROVE  /\ attempt' \in [Online -> Attempts \cup {NoAttempt}]
         /\ Present' = Present /\ Sold' = Sold /\ Used' = Used /\ Tried' = Tried
         /\ TablesOK'
<1>1. n.c \in Online /\ attempt[n.c] # NoAttempt
  BY DEF IInv, TypeOK, TablesOK, Notice, Tried
<1>2. attempt \in [Online -> Attempts \cup {NoAttempt}] /\ attempt[n.c] \in Attempts
  BY <1>1 DEF IInv, TypeOK
<1>3. [attempt[n.c] EXCEPT !.status = status] \in Attempts
      /\ [attempt[n.c] EXCEPT !.status = status].status = status
  BY <1>2 DEF Attempts
<1>4. attempt' = [attempt EXCEPT ![n.c] = [attempt[n.c] EXCEPT !.status = status]]
  BY <1>2
<1>5. attempt' \in [Online -> Attempts \cup {NoAttempt}]
  BY <1>2, <1>3, <1>4
<1>6. /\ attempt'[n.c] \in Attempts /\ attempt'[n.c].status = status
      /\ \A c \in Online : c # n.c => attempt'[c] = attempt[c]
  BY <1>1, <1>2, <1>3, <1>4
<1>7. \A r \in Attempts : r # NoAttempt
  BY DEF Attempts, NoAttempt
<1>8. Tried' = Tried
  BY <1>1, <1>6, <1>7 DEF Tried
<1>9. Present' = Present /\ Settled' = Settled /\ Sold' = Sold /\ Used' = Used
  BY SetsKept
<1>10. \A c \in Online : attempt'[c].status = "paid" => attempt[c].status = "paid"
  BY <1>6
<1>11. TablesOK'
  BY <1>8, <1>9, <1>10 DEF IInv, TablesOK
<1>12. QED
  BY <1>5, <1>8, <1>9, <1>11

\* The steps of a notice that closes the attempt.
LEMMA NoticeStep ==
  ASSUME IInv, NEW w \in Workers, NEW n \in notices,
         NEW status \in {"pending", "failed", "cancelled"},
         attempt' = [attempt EXCEPT ![n.c].status = status],
         NEW q \in {Idle} \cup Working, Begin(w, q), notices' \subseteq notices,
         UNCHANGED <<order, books, wallet, captured, aged, crashes>>,
         HandlerOK(q, Present, Sold, Used, Tried),
         q.op \notin {"sale", "restoreRow", "awardRow"}
  PROVE  IInv'
<1>0. UNCHANGED <<order, stock, sales, posted, points, redeemed, restored, earned,
                  orphaned, captured, aged, crashes>>
  BY DEF books, wallet
<1>1. /\ attempt' \in [Online -> Attempts \cup {NoAttempt}]
      /\ Present' = Present /\ Sold' = Sold /\ Used' = Used /\ Tried' = Tried
      /\ TablesOK'
  BY <1>0, AttemptClosed
<1>2. req[w] = Idle /\ Continue(w, q) /\ q \in Requests /\ contested' \subseteq Orders
  BY BeginIsContinue DEF Requests, IInv
<1>3. TypeOK'
  BY <1>0, <1>1, <1>2, RequestTyped DEF IInv, TypeOK
<1>4. q.op \notin Steps
  BY WorkingFields, Kinds DEF Requests
<1>5. CheckoutOK(q, Present', Used')
  BY <1>4 DEF CheckoutOK
<1>6. RequestsOK' /\ OneCheckout'
  BY <1>1, <1>2, <1>4, <1>5, RequestsContinue
<1>7. ShelfOK'
  BY <1>0, <1>2, ShelfStep
<1>8. Unsaved(q, redeemed) = 0 /\ Unsaved(req[w], redeemed) = 0
  BY <1>2, <1>4, NothingUnsaved, IdleUnsaved DEF Steps
<1>9. WalletMatchesLedger'
  <2>1. points \in Int /\ points' = points + Unsaved(q, redeemed) - Unsaved(req[w], redeemed)
    BY <1>0, <1>8 DEF IInv, TypeOK
  <2>2. QED
    BY <1>0, <1>2, <2>1, WalletStep
<1>10. QED
  BY <1>1, <1>3, <1>6, <1>7, <1>9 DEF IInv

LEMMA AcknowledgeShrinks ==
  ASSUME NEW n, Acknowledge(n) PROVE notices' \subseteq notices
BY DEF Acknowledge

LEMMA NotifyOtherStep ==
  ASSUME IInv, NEW w \in Workers, NEW n \in notices, NotifyOther(w, n)
  PROVE  IInv'
<1>1. PICK status \in {"pending", "failed", "cancelled"} :
        attempt' = [attempt EXCEPT ![n.c].status = status]
  BY DEF NotifyOther
<1>2. Begin(w, Idle) /\ notices' \subseteq notices
      /\ UNCHANGED <<order, books, wallet, captured, aged, crashes>>
  BY AcknowledgeShrinks DEF NotifyOther
<1>3. Idle.op \notin {"sale", "restoreRow", "awardRow"}
  BY DEF Idle
<1>4. QED
  BY <1>1, <1>2, <1>3, IdleOK, NoticeStep

LEMMA NotifyRefusedStep ==
  ASSUME IInv, NEW w \in Workers, NEW n \in notices, NotifyRefused(w, n)
  PROVE  IInv'
<1> DEFINE closed == IF n.code = "-1" THEN "cancelled" ELSE "failed"
           rest == Unsettled(n.c)
           to == [status |-> "cancelled", pay |-> closed]
           q == Job("end", rest, n, to)
<1>1. closed \in {"pending", "failed", "cancelled"}
      /\ attempt' = [attempt EXCEPT ![n.c].status = closed]
      /\ UNCHANGED <<order, books, wallet, captured, aged, crashes>>
  BY DEF NotifyRefused
<1>2. CASE rest = {}
  <2>1. Begin(w, Idle) /\ notices' \subseteq notices
    BY <1>2, AcknowledgeShrinks DEF NotifyRefused
  <2>2. Idle.op \notin {"sale", "restoreRow", "awardRow"}
    BY DEF Idle
  <2> HIDE DEF closed
  <2>3. QED
    BY <1>1, <2>1, <2>2, IdleOK, NoticeStep
<1>3. CASE rest # {}
  <2>1. Begin(w, q) /\ notices' \subseteq notices
    BY <1>3 DEF NotifyRefused
  <2>2. n \in Notice /\ n.c \in Checkouts /\ n.c \in Tried /\ n # None
    BY OnlineCheckouts, NullAssumption DEF IInv, TypeOK, TablesOK, Notice
  <2>3. OrdersOf(n.c) \subseteq Present /\ OrdersOf(n.c) \subseteq Orders
    BY <2>2, LinesFacts DEF IInv, TablesOK, Tried
  <2>4. rest \subseteq OrdersOf(n.c) /\ rest \in SUBSET Orders
    BY <2>3 DEF Unsettled
  <2>5. to \in Ends /\ to.pay # "paid"
    BY DEF Ends, Ended, Payments
  <2>6. "end" \in Handling
    BY DEF Handling, Ending
  <2> HIDE DEF to, rest, closed
  <2>7. /\ q \in Working /\ q.op = "end" /\ q.rest = rest /\ q.notice = n /\ q.to = to
        /\ \A o \in rest \cap Present : q.rows[o] \in Row
    BY <2>2, <2>4, <2>5, <2>6, JobFields DEF IInv
  <2> HIDE DEF q
  <2>8. HandlerOK(q, Present, Sold, Used, Tried)
    BY <1>3, <2>2, <2>3, <2>4, <2>5, <2>7 DEF HandlerOK, Settling, Selling
  <2>9. QED
    BY <1>1, <2>1, <2>7, <2>8, NoticeStep
<1>4. QED
  BY <1>2, <1>3

-----------------------------------------------------------------------------
(***************************************************************************)
(* Steps of nobody's request.                                              *)
(***************************************************************************)
LEMMA OutsideStep ==
  ASSUME IInv, UNCHANGED <<order, attempt, books, wallet, crashes, contested, req>>,
         captured' \subseteq Online, aged' \in BOOLEAN,
         notices' \subseteq Notice, \A n \in notices' : n.c \in Tried
  PROVE  IInv'
<1>0. UNCHANGED <<order, attempt, stock, sales, posted, points, redeemed, restored, earned,
                  orphaned, crashes, contested, req>>
  BY DEF books, wallet
<1>1. TypeOK'
  BY <1>0 DEF IInv, TypeOK
<1>2. Present' = Present /\ Settled' = Settled /\ Sold' = Sold /\ Used' = Used /\ Tried' = Tried
  BY <1>0, SetsKept
<1>3. RequestsOK' /\ OneCheckout'
  BY <1>0, <1>2 DEF IInv, RequestsOK, OneCheckout
<1>4. TablesOK'
  BY <1>0, <1>2 DEF IInv, TablesOK
<1>5. ShelfOK'
  BY <1>0 DEF IInv, ShelfOK, SoldFrom, TakenFrom
<1>6. InRows' = InRows /\ InFlight' = InFlight
  BY <1>0 DEF InRows, RowsOf, InFlight
<1>7. WalletSums'
  BY <1>0, <1>6, WalletIsSums DEF IInv, WalletSums
<1>8. QED
  BY <1>1, <1>3, <1>4, <1>5, <1>7, WalletIsSumsNext DEF IInv

LEMMA SentNotice ==
  ASSUME IInv, NEW c \in Online, attempt[c] # NoAttempt, NEW code \in Codes, Send(c, code)
  PROVE  notices' \subseteq Notice /\ \A n \in notices' : n.c \in Tried
<1>1. [c |-> c, code |-> code] \in Notice /\ [c |-> c, code |-> code].c = c /\ c \in Tried
  BY DEF Notice, Tried
<1>2. notices \subseteq Notice /\ \A n \in notices : n.c \in Tried
  BY DEF IInv, TypeOK, TablesOK
<1>3. QED
  BY <1>1, <1>2 DEF Send

LEMMA PayHereStep ==
  ASSUME IInv, PayHere
  PROVE  IInv'
<1>0. captured \subseteq Online /\ notices \subseteq Notice /\ aged \in BOOLEAN
      /\ \A n \in notices : n.c \in Tried
  BY DEF IInv, TypeOK, TablesOK
<1>1. PICK c \in Online : Capture(c) \/ \E code \in Codes \ {"2"} : Report(c, code)
  BY DEF PayHere
<1>2. CASE Capture(c)
  <2>1. /\ attempt[c] # NoAttempt /\ Send(c, "2") /\ captured' = captured \cup {c}
        /\ UNCHANGED <<order, attempt, books, wallet, world, req>>
    BY <1>2 DEF Capture
  <2>2. notices' \subseteq Notice /\ \A n \in notices' : n.c \in Tried
    BY <2>1, CodesAssumption, SentNotice
  <2>3. QED
    BY <1>0, <2>1, <2>2, OutsideStep DEF world
<1>3. ASSUME NEW code \in Codes, Report(c, code)
      PROVE  IInv'
  <2>1. /\ attempt[c] # NoAttempt /\ Send(c, code)
        /\ UNCHANGED <<order, attempt, books, wallet, captured, world, req>>
    BY <1>3 DEF Report
  <2>2. notices' \subseteq Notice /\ \A n \in notices' : n.c \in Tried
    BY <2>1, SentNotice
  <2>3. QED
    BY <1>0, <2>1, <2>2, OutsideStep DEF world
<1>4. QED
  BY <1>1, <1>2, <1>3

LEMMA AgeStep ==
  ASSUME IInv, Age
  PROVE  IInv'
<1>1. captured' \subseteq Online /\ notices' \subseteq Notice /\ \A n \in notices' : n.c \in Tried
  BY DEF IInv, TypeOK, TablesOK, Age, payhere
<1>2. aged' \in BOOLEAN /\ UNCHANGED <<order, attempt, books, wallet, crashes, contested, req>>
  BY DEF Age
<1>3. QED
  BY <1>1, <1>2, OutsideStep

LEMMA CrashStep ==
  ASSUME IInv, NEW w \in Workers, Crash(w)
  PROVE  IInv'
<1>0. UNCHANGED <<order, attempt, stock, sales, posted, points, redeemed, restored, earned,
                  orphaned, captured, notices, aged, contested>>
      /\ crashes' = crashes + 1 /\ Continue(w, Idle)
  BY DEF Crash, books, wallet, payhere
<1>1. TypeOK'
  BY <1>0, IdleOK, RequestTyped DEF IInv, TypeOK
<1>2. Present' = Present /\ Settled' = Settled /\ Sold' = Sold /\ Used' = Used /\ Tried' = Tried
  BY <1>0, SetsKept
<1>3. RequestsOK' /\ OneCheckout'
  <2>1. Idle.op \notin Steps
    BY IdleOK, Kinds
  <2>2. QED
    BY <1>0, <1>2, <2>1, IdleOK, RequestsContinue
<1>4. TablesOK'
  BY <1>0, <1>2 DEF IInv, TablesOK
<1>5. ShelfOK'
  <2>1. Idle.op # "sale"
    BY DEF Idle
  <2>2. QED
    BY <1>0, <2>1, IdleOK, ShelfStep
<1>6. WalletMatchesLedger'
  <2>1. crashes' # 0
    BY <1>0 DEF IInv, TypeOK
  <2>2. QED
    BY <2>1 DEF WalletMatchesLedger
<1>7. QED
  BY <1>1, <1>3, <1>4, <1>5, <1>6 DEF IInv

-----------------------------------------------------------------------------
(***************************************************************************)
(* Steps that write one order.                                             *)
(***************************************************************************)
LEMMA OrderWritten ==
  ASSUME TypeOK, NEW o \in Orders, NEW row \in Row, order' = [order EXCEPT ![o] = row]
  PROVE  /\ order' \in [Orders -> Row \cup {NoOrder}]
         /\ Present' = Present \cup {o}
         /\ Settled' \subseteq Settled \cup {o}
         /\ row.pay # "paid" => Settled' \subseteq Settled
<1>1. order \in [Orders -> Row \cup {NoOrder}]
  BY DEF TypeOK
<1>2. order'[o] = row /\ \A p \in Orders \ {o} : order'[p] = order[p]
  BY <1>1
<1>3. row # NoOrder
  BY DEF Row, NoOrder, Ended
<1>4. Present' = {p \in Orders : order'[p] # NoOrder}
      /\ Settled' = {p \in Orders : order'[p] # NoOrder /\ order'[p].pay = "paid"}
  BY DEF Present, Placed, Settled, Paid
<1>5. QED
  BY <1>1, <1>2, <1>3, <1>4 DEF Present, Placed, Settled, Paid

LEMMA OrderStep ==
  ASSUME IInv, NEW w \in Workers, NEW q \in Requests, Continue(w, q),
         NEW o \in Orders, NEW row \in Row, order' = [order EXCEPT ![o] = row],
         row.pay = "paid" => o \in Sold,
         UNCHANGED <<attempt, books, wallet, payhere, world>>,
         CheckoutOK(q, Present \cup {o}, Used),
         HandlerOK(q, Present \cup {o}, Sold, Used, Tried),
         q.op \in Steps => req[w].op \in Steps /\ q.c = req[w].c,
         q.op # "sale", Unsaved(q, redeemed) = Unsaved(req[w], redeemed)
  PROVE  IInv'
<1>0. UNCHANGED <<attempt, stock, sales, posted, points, redeemed, restored, earned,
                  orphaned, captured, notices, aged, crashes, contested>>
  BY DEF books, wallet, payhere, world
<1>1. /\ order' \in [Orders -> Row \cup {NoOrder}]
      /\ Present' = Present \cup {o}
      /\ Settled' \subseteq Settled \cup {o}
      /\ row.pay # "paid" => Settled' \subseteq Settled
  BY OrderWritten DEF IInv
<1>2. TypeOK'
  BY <1>0, <1>1, RequestTyped DEF IInv, TypeOK
<1>3. Sold' = Sold /\ Used' = Used /\ Tried' = Tried
  BY <1>0, SetsKept
<1>4. RequestsOK' /\ OneCheckout'
  BY <1>1, <1>3, RequestsContinue
<1>5. TablesOK'
  BY <1>0, <1>1, <1>3 DEF IInv, TablesOK
<1>6. ShelfOK'
  BY <1>0, ShelfStep
<1>7. WalletMatchesLedger'
  <2>1. Unsaved(q, redeemed) \in Int
    BY UnsavedInt DEF IInv, TypeOK
  <2>2. points \in Int
    BY DEF IInv, TypeOK
  <2>3. points' = points + Unsaved(q, redeemed) - Unsaved(req[w], redeemed)
    BY <1>0, <2>1, <2>2
  <2>4. QED
    BY <1>0, <2>2, <2>3, WalletStep
<1>8. QED
  BY <1>2, <1>4, <1>5, <1>6, <1>7 DEF IInv

LEMMA PlaceOrderStep ==
  ASSUME IInv, NEW w \in Workers, PlaceOrder(w)
  PROVE  IInv'
<1> DEFINE r == req[w]
           o == Lines[r.c][r.i]
           row == [status |-> "pending", discount |-> 0, points |-> 0,
                   pay |-> IF r.c \in Online THEN "pending" ELSE "unpaid"]
           q == IF r.i < Len(Lines[r.c]) THEN [r EXCEPT !.i = @ + 1]
                ELSE [r EXCEPT !.op = "redeem", !.i = 1]
<1>1. /\ r.op = "place" /\ order' = [order EXCEPT ![o] = row] /\ Continue(w, q)
      /\ UNCHANGED <<attempt, books, wallet, payhere, world>>
  BY DEF PlaceOrder
<1>2. row \in Row /\ row.pay # "paid"
  BY DEF Row, Payments
<1>3. r \in Checkingout /\ CheckoutOK(r, Present, Used) /\ r.op \in Steps
  BY <1>1, RequestFacts DEF Steps
<1>4. r.c \in Checkouts /\ r.i \in Nat
  BY <1>3, CheckingoutFields
<1>5. /\ r.i \in 1 .. Len(Lines[r.c])
      /\ \A j \in 1 .. r.i - 1 : Lines[r.c][j] \in Present
      /\ Primary(r.c) \notin Used
  BY <1>1, <1>3 DEF CheckoutOK, Early
<1>6. o \in Orders /\ Len(Lines[r.c]) \in Nat \ {0}
  BY <1>4, <1>5, LinesFacts
<1>7. /\ q \in Checkingout /\ q.c = r.c
      /\ r.i < Len(Lines[r.c]) => q.op = "place" /\ q.i = r.i + 1
      /\ ~(r.i < Len(Lines[r.c])) => q.op = "redeem" /\ q.i = 1
  <2>1. CASE r.i < Len(Lines[r.c])
    <3>1. q = [r EXCEPT !.i = r.i + 1] /\ r.i + 1 \in Nat
      BY <1>3, <1>4, <2>1 DEF Checkingout, CheckoutSteps
    <3>2. QED
      BY <1>1, <1>3, <2>1, <3>1, CheckingoutAt
  <2>2. CASE ~(r.i < Len(Lines[r.c]))
    <3>1. q = [r EXCEPT !.op = "redeem", !.i = 1] /\ "redeem" \in Steps /\ 1 \in Nat
      BY <2>2 DEF Steps
    <3> HIDE DEF q, r
    <3>2. q \in Checkingout /\ q.op = "redeem" /\ q.c = r.c /\ q.i = 1
      BY <1>3, <3>1 DEF Checkingout, CheckoutSteps
    <3>3. QED
      BY <2>2, <3>2
  <2>3. QED
    BY <2>1, <2>2
<1>8. CheckoutOK(q, Present \cup {o}, Used)
  <2>1. CASE r.i < Len(Lines[r.c])
    <3>1. \A j \in 1 .. r.i : Lines[r.c][j] \in Present \cup {o}
      BY <1>4, <1>5
    <3> HIDE DEF r, o, q
    <3>2. q.i \in 1 .. Len(Lines[q.c]) /\ q.i - 1 = r.i
      BY <1>4, <1>5, <1>6, <1>7, <2>1
    <3>3. QED
      BY <1>5, <1>7, <2>1, <3>1, <3>2 DEF CheckoutOK
  <2>2. CASE ~(r.i < Len(Lines[r.c]))
    <3>1. r.i = Len(Lines[r.c])
      BY <1>5, <1>6, <2>2
    <3>2. \A j \in 1 .. Len(Lines[r.c]) : Lines[r.c][j] \in Present \cup {o}
      BY <1>4, <1>5, <3>1
    <3>3. OrdersOf(r.c) \subseteq Present \cup {o}
      BY <1>4, <3>2, LinesFacts
    <3>4. q.i \in 1 .. Len(Lines[q.c])
      BY <1>6, <1>7, <2>2
    <3> HIDE DEF r, o, q
    <3>5. QED
      BY <1>5, <1>7, <2>2, <3>3, <3>4 DEF CheckoutOK
  <2>3. QED
    BY <2>1, <2>2
<1>9. q \in Requests /\ HandlerOK(q, Present \cup {o}, Sold, Used, Tried)
  BY <1>7, CheckingoutFields DEF HandlerOK, Requests
<1>10. q.op # "sale" /\ Unsaved(q, redeemed) = Unsaved(r, redeemed)
  <2>1. q.op \in {"place", "redeem"} /\ r.op = "place"
    BY <1>1, <1>7
  <2> HIDE DEF q, r
  <2>2. QED
    BY <2>1, NothingUnsaved
<1> HIDE DEF o, row, q
<1>11. QED
  BY <1>1, <1>2, <1>3, <1>6, <1>7, <1>8, <1>9, <1>10, OrderStep

\* The request after the points: the attempt, or nothing.
LEMMA AfterPointsOK ==
  ASSUME NEW c \in Checkouts, NEW P, OrdersOf(c) \subseteq P, NEW S, NEW U, NEW T
  PROVE  /\ AfterPoints(c) \in Requests
         /\ CheckoutOK(AfterPoints(c), P, U) /\ HandlerOK(AfterPoints(c), P, S, U, T)
         /\ AfterPoints(c).op \in Steps => AfterPoints(c).c = c
         /\ AfterPoints(c).op # "sale" /\ \A taken : Unsaved(AfterPoints(c), taken) = 0
<1> DEFINE q == [op |-> "attempt", c |-> c, i |-> 1]
<1>1. CASE Charged(c)
  <2>1. AfterPoints(c) = q /\ c \in Online
    BY <1>1 DEF AfterPoints, Charged
  <2>2. q \in Checkingout /\ q.op = "attempt" /\ q.c = c /\ q.i = 1
    BY CheckingoutNew DEF Steps
  <2>3. 1 \in 1 .. Len(Lines[c])
    BY LinesFacts
  <2> HIDE DEF q
  <2>4. CheckoutOK(q, P, U)
    BY <2>1, <2>2, <2>3 DEF CheckoutOK, Early
  <2>5. HandlerOK(q, P, S, U, T) /\ q \in Requests
    BY <2>2, CheckingoutFields DEF HandlerOK, Requests
  <2>6. QED
    BY <2>1, <2>2, <2>4, <2>5, NothingUnsaved
<1>2. CASE ~Charged(c)
  <2>1. AfterPoints(c) = Idle
    BY <1>2 DEF AfterPoints
  <2>2. QED
    BY <2>1, IdleOK, IdleUnsaved, Kinds DEF Idle
<1>3. QED
  BY <1>1, <1>2

LEMMA UpdateFinancialsStep ==
  ASSUME IInv, NEW w \in Workers, UpdateFinancials(w)
  PROVE  IInv'
<1> DEFINE r == req[w]
           o == Lines[r.c][r.i]
           row == [order[o] EXCEPT !.discount = Share(r.c, r.i),
                                   !.points = IF r.i = 1 THEN Requested[r.c] ELSE 0]
           q == IF r.i < Len(Lines[r.c]) THEN [r EXCEPT !.i = @ + 1] ELSE AfterPoints(r.c)
<1>1. /\ r.op = "financials" /\ Continue(w, q)
      /\ UNCHANGED <<attempt, books, wallet, payhere, world>>
  BY DEF UpdateFinancials
<1>2. r \in Checkingout /\ CheckoutOK(r, Present, Used) /\ r.op \in Steps
  BY <1>1, RequestFacts DEF Steps
<1>3. r.c \in Checkouts /\ r.i \in Nat
  BY <1>2, CheckingoutFields
<1>4. r.i \in 1 .. Len(Lines[r.c]) /\ OrdersOf(r.c) \subseteq Present
  BY <1>1, <1>2 DEF CheckoutOK
<1>5. o \in OrdersOf(r.c) /\ o \in Orders /\ Len(Lines[r.c]) \in Nat \ {0}
  BY <1>3, <1>4, LinesFacts
<1>6. Placed(o) /\ order[o] \in Row
  BY <1>4, <1>5, PlacedRow DEF IInv, Present
<1>7. Share(r.c, r.i) \in Int /\ Requested[r.c] \in Nat
  BY <1>3, <1>4, ShareInt, AmountsAssumption
<1>8. row \in Row /\ row.pay = order[o].pay
  <2> HIDE DEF o, r
  <2>1. QED
    BY <1>6, <1>7 DEF Row
<1>9. order' = [order EXCEPT ![o] = row]
  BY <1>5 DEF UpdateFinancials, IInv, TypeOK
<1>10. row.pay = "paid" => o \in Sold
  BY <1>5, <1>6, <1>8, PaidIsSold
<1>11. Present \cup {o} = Present
  BY <1>4, <1>5
<1>12. /\ q \in Requests /\ CheckoutOK(q, Present, Used)
       /\ HandlerOK(q, Present, Sold, Used, Tried)
       /\ q.op \in Steps => q.c = r.c
       /\ q.op # "sale" /\ Unsaved(q, redeemed) = 0
  <2>1. CASE r.i < Len(Lines[r.c])
    <3>1. q = [r EXCEPT !.i = r.i + 1] /\ r.i + 1 \in Nat
      BY <1>2, <1>3, <2>1 DEF Checkingout, CheckoutSteps
    <3>2. q \in Checkingout /\ q.op = "financials" /\ q.c = r.c /\ q.i = r.i + 1
      BY <1>1, <1>2, <3>1, CheckingoutAt
    <3>3. r.i + 1 \in 1 .. Len(Lines[r.c])
      BY <1>3, <1>4, <1>5, <2>1
    <3> HIDE DEF r, q
    <3>4. CheckoutOK(q, Present, Used)
      BY <1>4, <3>2, <3>3 DEF CheckoutOK, Early
    <3>5. HandlerOK(q, Present, Sold, Used, Tried) /\ q \in Requests
      BY <3>2, CheckingoutFields DEF HandlerOK, Requests
    <3>6. QED
      BY <3>2, <3>4, <3>5, NothingUnsaved
  <2>2. CASE ~(r.i < Len(Lines[r.c]))
    <3>1. q = AfterPoints(r.c)
      BY <2>2
    <3> HIDE DEF r, q
    <3>2. QED
      BY <1>3, <1>4, <3>1, AfterPointsOK
  <2>3. QED
    BY <2>1, <2>2
<1>13. Unsaved(r, redeemed) = 0
  BY <1>1, NothingUnsaved
<1> HIDE DEF o, row, q
<1>14. QED
  BY <1>1, <1>2, <1>5, <1>8, <1>9, <1>10, <1>11, <1>12, <1>13, OrderStep

\* The handler that a statement of one continues.
LEMMA HandlerFacts ==
  ASSUME IInv, NEW w \in Workers, req[w].op \in Handling \ {"settled"}
  PROVE  /\ req[w] \in Working /\ HandlerOK(req[w], Present, Sold, Used, Tried)
         /\ OrderOf(w) = At(req[w]) /\ At(req[w]) \in req[w].rest
         /\ At(req[w]) \in Orders /\ At(req[w]) \in Present
         /\ RowOf(w) = req[w].rows[At(req[w])] /\ RowOf(w) \in Row
         /\ order[At(req[w])] \in Row
         /\ req[w].rest \in SUBSET Orders /\ req[w].rest \subseteq Present
         /\ req[w].notice \in Notice \cup {None}
<1>1. req[w] \in Working /\ HandlerOK(req[w], Present, Sold, Used, Tried)
  BY RequestFacts
<1>2. /\ At(req[w]) \in req[w].rest /\ At(req[w]) \in Orders /\ At(req[w]) \in Present
      /\ req[w].rows[At(req[w])] \in Row
  BY <1>1, AtOrder
<1>3. order[At(req[w])] \in Row
  BY <1>2, PlacedRow DEF IInv, Present
<1>4. req[w].rest \subseteq Present
  BY <1>1 DEF HandlerOK
<1>5. OrderOf(w) = At(req[w])
  BY OrderOfIsAt
<1>6. QED
  BY <1>1, <1>2, <1>3, <1>4, <1>5, WorkingFields DEF RowOf

\* A handler that goes on has no checkout's duties.
LEMMA HandlerRequest ==
  ASSUME NEW q \in Working, NEW P, NEW U
  PROVE  q \in Requests /\ q.op \notin Steps /\ CheckoutOK(q, P, U)
BY WorkingFields DEF Requests, CheckoutOK

LEMMA MarkPaidStep ==
  ASSUME IInv, NEW w \in Workers, MarkPaid(w)
  PROVE  IInv'
<1> DEFINE r == req[w]
           o == At(r)
           rest == r.rest \ {o}
           row == [order[o] EXCEPT !.status = RowOf(w).status, !.pay = "paid"]
           op == IF rest = {} THEN "settled" ELSE "stock"
           q == [r EXCEPT !.rest = rest, !.op = op]
<1>1. r.op = "markPaid" /\ UNCHANGED <<attempt, books, wallet, payhere, world>>
  BY DEF MarkPaid
<1>2. r.op \in Handling \ {"settled"}
  BY <1>1 DEF Handling, Settling
<1>3. /\ r \in Working /\ HandlerOK(r, Present, Sold, Used, Tried)
      /\ OrderOf(w) = o /\ o \in r.rest /\ o \in Orders /\ o \in Present
      /\ RowOf(w) \in Row /\ order[o] \in Row
      /\ r.rest \in SUBSET Orders /\ r.notice \in Notice \cup {None}
  BY <1>2, HandlerFacts
<1>4. Continue(w, q)
  BY <1>3 DEF MarkPaid
<1>5. order' = [order EXCEPT ![o] = row]
  BY <1>3 DEF MarkPaid, IInv, TypeOK
<1>6. row \in Row
  <2> HIDE DEF o
  <2>1. "paid" \in Payments
    BY DEF Payments
  <2>2. QED
    BY <1>3, <2>1 DEF Row
<1>7. /\ r.notice # None /\ r.notice.c \in Tried /\ r.rest \subseteq OrdersOf(r.notice.c)
      /\ OrdersOf(r.notice.c) \subseteq r.rest \cup Sold
      /\ o \in Sold /\ \A p \in r.rest : p \in Present /\ r.rows[p] \in Row
  <2>1. r.op \in Handling /\ r.op \in Settling /\ r.op \in Selling /\ r.op \in {"markPaid", "settled"}
    BY <1>1, <1>2 DEF Settling, Selling
  <2> HIDE DEF r
  <2>2. QED
    BY <1>3, <2>1 DEF HandlerOK, o
<1>8. op \in Handling /\ op \in {"settled", "stock"} /\ (op = "settled" <=> rest = {})
  BY DEF Handling, Settling
<1>9. rest \in SUBSET Orders /\ rest \subseteq r.rest /\ OrdersOf(r.notice.c) \subseteq rest \cup Sold
  BY <1>3, <1>7
<1>10. Present \cup {o} = Present
  BY <1>3
<1> HIDE DEF rest, op
<1>11. /\ q \in Working /\ q.op = op /\ q.rest = rest /\ q.rows = r.rows
       /\ q.notice = r.notice /\ q.to = r.to
  BY <1>3, <1>8, <1>9 DEF Working
<1> HIDE DEF q, o, row, r
<1>12. HandlerOK(q, Present, Sold, Used, Tried)
  BY <1>7, <1>8, <1>9, <1>11 DEF HandlerOK, Selling, Ending
<1>13. q \in Requests /\ q.op \notin Steps /\ CheckoutOK(q, Present, Used)
  BY <1>11, HandlerRequest
<1>14. Unsaved(q, redeemed) = Unsaved(r, redeemed) /\ q.op # "sale"
  BY <1>1, <1>8, <1>11, NothingUnsaved
<1>15. row.pay = "paid" => o \in Sold
  BY <1>7
<1>16. QED
  BY <1>1, <1>3, <1>4, <1>5, <1>6, <1>10, <1>12, <1>13, <1>14, <1>15, OrderStep DEF r

\* A handler goes on to the next statement for the order it is at.
LEMMA HandlerGoto ==
  ASSUME NEW r \in Working, NEW P, NEW S, NEW U, NEW T, HandlerOK(r, P, S, U, T),
         r.op # "settled", NEW op \in Handling \ {"settled"}, NEW q, q = [r EXCEPT !.op = op],
         NEW S2, S \subseteq S2,
         op \in Settling => r.op \in Settling,
         op \in Ending => r.op \in Ending,
         op \in Selling => At(r) \in S2,
         op = "markPaid" => r.notice # None,
         op = "restoreRow" => At(r) \in U
  PROVE  /\ q \in Working /\ q \in Requests /\ q.op = op /\ q.op \notin Steps
         /\ At(q) = At(r) /\ q.rows = r.rows
         /\ HandlerOK(q, P, S2, U, T) /\ \A V : CheckoutOK(q, P, V)
<1>1. /\ q \in Working /\ q.op = op /\ q.rest = r.rest /\ q.rows = r.rows
      /\ q.notice = r.notice /\ q.to = r.to /\ At(q) = At(r)
  BY WorkingGoto
<1>2. r.op \in Handling
  BY WorkingFields
<1>3. HandlerOK(q, P, S2, U, T)
  BY <1>1, <1>2 DEF HandlerOK
<1>4. QED
  BY <1>1, <1>3, HandlerRequest

LEMMA EndsWithIdle ==
  \A P, S, U, T : /\ Idle.op \notin Steps /\ Idle.op # "sale" /\ Idle \in Requests
                  /\ CheckoutOK(Idle, P, U) /\ HandlerOK(Idle, P, S, U, T)
BY IdleOK, Kinds DEF Idle

LEMMA CompleteStep ==
  ASSUME IInv, NEW w \in Workers, Complete(w)
  PROVE  IInv'
<1> DEFINE r == req[w]
           o == At(r)
           row == [order[o] EXCEPT !.status = "completed",
                                   !.pay = IF PrePaid(o) THEN order[o].pay ELSE "paid"]
<1>1. r.op = "complete" /\ UNCHANGED <<attempt, books, wallet, payhere, world>>
      /\ Continue(w, Idle)
  BY DEF Complete
<1>2. r.op \in Handling \ {"settled"} /\ r.op \in Selling
  BY <1>1 DEF Handling, Selling
<1>3. /\ HandlerOK(r, Present, Sold, Used, Tried)
      /\ OrderOf(w) = o /\ o \in Orders /\ o \in Present /\ order[o] \in Row
  BY <1>2, HandlerFacts
<1>4. order' = [order EXCEPT ![o] = row]
  BY <1>3 DEF Complete, IInv, TypeOK
<1>5. row \in Row
  <2> HIDE DEF o
  <2>1. "paid" \in Payments /\ order[o].pay \in Payments
    BY <1>3 DEF Payments, Row
  <2>2. QED
    BY <1>3, <2>1 DEF Row
<1>6. o \in Sold
  BY <1>2, <1>3 DEF HandlerOK
<1>7. Present \cup {o} = Present
  BY <1>3
<1>8. Unsaved(Idle, redeemed) = Unsaved(r, redeemed)
  BY <1>1, NothingUnsaved, IdleUnsaved
<1> HIDE DEF row, o, r
<1>9. QED
  BY <1>1, <1>3, <1>4, <1>5, <1>6, <1>7, <1>8, EndsWithIdle, OrderStep DEF r

LEMMA EndOrderStep ==
  ASSUME IInv, NEW w \in Workers, EndOrder(w)
  PROVE  IInv'
<1> DEFINE r == req[w]
           o == At(r)
           to == r.to
           row == [order[o] EXCEPT !.status = to.status,
                                   !.pay = IF to.pay = "kept" THEN order[o].pay ELSE to.pay]
           q == [r EXCEPT !.op = "restore"]
<1>1. r.op = "end" /\ UNCHANGED <<attempt, books, wallet, payhere, world>>
      /\ Goto(w, "restore")
  BY DEF EndOrder
<1>2. r.op \in Handling \ {"settled"} /\ r.op \in Ending
  BY <1>1 DEF Handling, Ending
<1>3. /\ r \in Working /\ HandlerOK(r, Present, Sold, Used, Tried)
      /\ OrderOf(w) = o /\ o \in r.rest /\ o \in Orders /\ o \in Present /\ order[o] \in Row
  BY <1>2, HandlerFacts
<1>4. Continue(w, q)
  BY <1>1, GotoContinues DEF IInv
<1>5. to \in Ends /\ (to.pay = "paid" => o \in Sold)
  <2>1. r.to \in Ends /\ (r.to.pay = "paid" => r.rest \subseteq Sold)
    BY <1>2, <1>3 DEF HandlerOK
  <2>2. QED
    BY <1>3, <2>1
<1>6. order' = [order EXCEPT ![o] = row]
  BY <1>3 DEF EndOrder, IInv, TypeOK
<1>7. to.status \in Ended /\ to.pay \in Payments \cup {"kept"}
  BY <1>5 DEF Ends
<1>8. row \in Row /\ row.pay = IF to.pay = "kept" THEN order[o].pay ELSE to.pay
  <2> HIDE DEF o, to
  <2>1. order[o].pay \in Payments
    BY <1>3 DEF Row
  <2>2. QED
    BY <1>3, <1>7, <2>1 DEF Row
<1>9. row.pay = "paid" => o \in Sold
  <2>1. Placed(o)
    BY <1>3 DEF Present
  <2>2. CASE to.pay = "kept"
    BY <1>3, <1>8, <2>1, <2>2, PaidIsSold
  <2>3. CASE to.pay # "kept"
    BY <1>5, <1>8, <2>3
  <2>4. QED
    BY <2>2, <2>3
<1>10. Present \cup {o} = Present
  BY <1>3
<1>11. "restore" \in Handling \ {"settled"} /\ "restore" \notin Settling /\ "restore" \notin Selling
  BY DEF Handling, Settling, Selling, Ending
<1>12. /\ q \in Requests /\ q.op = "restore" /\ q.op \notin Steps
       /\ HandlerOK(q, Present, Sold, Used, Tried) /\ CheckoutOK(q, Present, Used)
  <2> HIDE DEF r
  <2>1. QED
    BY <1>1, <1>2, <1>3, <1>11, HandlerGoto
<1>13. Unsaved(q, redeemed) = Unsaved(r, redeemed) /\ q.op # "sale"
  BY <1>1, <1>12, NothingUnsaved
<1> HIDE DEF row, o, r, q, to
<1>14. QED
  BY <1>1, <1>3, <1>4, <1>6, <1>8, <1>9, <1>10, <1>12, <1>13, OrderStep DEF r

-----------------------------------------------------------------------------
(***************************************************************************)
(* Steps that move points, and the rows that follow them.                  *)
(***************************************************************************)
LEMMA PointsStep ==
  ASSUME IInv, NEW w \in Workers, NEW q \in Requests, Continue(w, q),
         points' \in Nat, notices' \subseteq notices,
         UNCHANGED <<order, attempt, books, redeemed, restored, earned, orphaned, captured, world>>,
         CheckoutOK(q, Present, Used), HandlerOK(q, Present, Sold, Used, Tried),
         q.op \in Steps => req[w].op \in Steps /\ q.c = req[w].c,
         q.op # "sale",
         points' = points + Unsaved(q, redeemed) - Unsaved(req[w], redeemed)
  PROVE  IInv'
<1>0. UNCHANGED <<order, attempt, stock, sales, posted, redeemed, restored, earned,
                  orphaned, captured, aged, crashes, contested>>
  BY DEF books, world
<1>1. TypeOK'
  BY <1>0, RequestTyped DEF IInv, TypeOK
<1>2. Present' = Present /\ Settled' = Settled /\ Sold' = Sold /\ Used' = Used /\ Tried' = Tried
  BY <1>0, SetsKept
<1>3. RequestsOK' /\ OneCheckout'
  BY <1>2, RequestsContinue
<1>4. TablesOK'
  BY <1>0, <1>2 DEF IInv, TablesOK
<1>5. ShelfOK'
  BY <1>0, ShelfStep
<1>6. WalletMatchesLedger'
  BY <1>0, WalletStep
<1>7. QED
  BY <1>1, <1>3, <1>4, <1>5, <1>6 DEF IInv

LEMMA RedeemForOrderStep ==
  ASSUME IInv, NEW w \in Workers, RedeemForOrder(w)
  PROVE  IInv'
<1> DEFINE r == req[w]
           c == r.c
           q == IF Requested[c] = 0 THEN AfterPoints(c)
                ELSE IF Requested[c] > MaxRedeemable(c) THEN Idle
                ELSE [r EXCEPT !.op = "debit"]
<1>1. /\ r.op = "redeem" /\ Continue(w, q)
      /\ UNCHANGED <<order, attempt, books, wallet, payhere, world>>
  BY DEF RedeemForOrder
<1>2. r \in Checkingout /\ CheckoutOK(r, Present, Used) /\ r.op \in Steps
  BY <1>1, RequestFacts DEF Steps
<1>3. c \in Checkouts /\ OrdersOf(c) \subseteq Present
  BY <1>1, <1>2, CheckingoutFields DEF CheckoutOK
<1>4. /\ q \in Requests /\ CheckoutOK(q, Present, Used)
      /\ HandlerOK(q, Present, Sold, Used, Tried)
      /\ q.op \in Steps => q.c = c
      /\ q.op # "sale" /\ Unsaved(q, redeemed) = 0
  <2>1. CASE Requested[c] = 0
    <3>1. q = AfterPoints(c)
      BY <2>1
    <3> HIDE DEF c, q
    <3>2. QED
      BY <1>3, <3>1, AfterPointsOK
  <2>2. CASE Requested[c] # 0 /\ Requested[c] > MaxRedeemable(c)
    <3>1. q = Idle
      BY <2>2
    <3> HIDE DEF c, q
    <3>2. QED
      BY <3>1, EndsWithIdle, IdleUnsaved
  <2>3. CASE Requested[c] # 0 /\ ~(Requested[c] > MaxRedeemable(c))
    <3>1. q = [r EXCEPT !.op = "debit"] /\ "debit" \in Steps
      BY <2>3 DEF Steps
    <3> HIDE DEF r, q
    <3>2. q \in Checkingout /\ q.op = "debit" /\ q.c = c /\ q.i = r.i
      BY <1>2, <3>1, CheckingoutGoto
    <3>3. Requested[c] <= Subtotal(c)
      <4>1. points \in Nat /\ Requested[c] \in Int /\ Subtotal(c) \in Int
        BY <1>3, AmountsAssumption, SubtotalPositive DEF IInv, TypeOK
      <4>2. MaxRedeemable(c) \in Int /\ MaxRedeemable(c) <= Subtotal(c)
        BY <1>3, <4>1, MaxRedeemableBound
      <4> HIDE DEF c
      <4>3. QED
        BY <2>3, <4>1, <4>2
    <3>4. CheckoutOK(q, Present, Used)
      <4> HIDE DEF c
      <4>1. r.i \in 1 .. Len(Lines[c]) /\ Primary(c) \notin Used
        BY <1>1, <1>2 DEF CheckoutOK, Steps, Early, c
      <4>2. QED
        BY <1>3, <3>2, <3>3, <4>1 DEF CheckoutOK
    <3>5. HandlerOK(q, Present, Sold, Used, Tried) /\ q \in Requests
      BY <3>2, CheckingoutFields DEF HandlerOK, Requests
    <3>6. QED
      BY <3>2, <3>4, <3>5, NothingUnsaved
  <2>4. QED
    BY <2>1, <2>2, <2>3
<1>5. Unsaved(r, redeemed) = 0
  BY <1>1, NothingUnsaved
<1>6. \A v \in Workers \ {w} : req[v].op \in Steps /\ q.op \in Steps => req[v].c # q.c
  <2> HIDE DEF q
  <2>1. QED
    BY <1>2, <1>4 DEF IInv, OneCheckout
<1> HIDE DEF q
<1>7. /\ UNCHANGED <<order, attempt, books, wallet, payhere, aged, crashes>>
      /\ contested' \subseteq Orders
  BY <1>1 DEF world, IInv, TypeOK
<1>8. QED
  BY <1>1, <1>4, <1>5, <1>6, <1>7, OwnStep

LEMMA ApplyRedeemStep ==
  ASSUME IInv, NEW w \in Workers, ApplyRedeem(w)
  PROVE  IInv'
<1> DEFINE r == req[w]
           c == r.c
           enough == EnoughPoints(c)
           q == IF enough THEN [r EXCEPT !.op = "redeemRow"] ELSE Idle
<1>1. /\ r.op = "debit" /\ Continue(w, q)
      /\ points' = IF enough THEN points - Requested[c] ELSE points
      /\ UNCHANGED <<order, attempt, books, redeemed, restored, earned, orphaned, payhere, world>>
  BY DEF ApplyRedeem
<1>2. r \in Checkingout /\ CheckoutOK(r, Present, Used) /\ r.op \in Steps
  BY <1>1, RequestFacts DEF Steps
<1>3. c \in Checkouts /\ points \in Nat /\ Requested[c] \in Nat
  BY <1>2, CheckingoutFields, AmountsAssumption DEF IInv, TypeOK
<1>4. Unsaved(r, redeemed) = 0
  BY <1>1, NothingUnsaved
<1>5. notices' \subseteq notices /\ captured' = captured
  BY <1>1 DEF payhere
<1>6. CASE enough
  <2>1. q = [r EXCEPT !.op = "redeemRow"] /\ "redeemRow" \in Steps
    BY <1>6 DEF Steps
  <2>2. points' = points - Requested[c] /\ points' \in Nat
    BY <1>1, <1>3, <1>6 DEF EnoughPoints
  <2> HIDE DEF r, q
  <2>3. q \in Checkingout /\ q.op = "redeemRow" /\ q.c = c /\ q.i = r.i
    BY <1>2, <2>1, CheckingoutGoto
  <2>4. CheckoutOK(q, Present, Used)
    <3> HIDE DEF c
    <3>1. /\ r.i \in 1 .. Len(Lines[c]) /\ OrdersOf(c) \subseteq Present
          /\ Primary(c) \notin Used /\ Requested[c] <= Subtotal(c)
      BY <1>1, <1>2 DEF CheckoutOK, Steps, Early, c
    <3>2. QED
      BY <2>3, <3>1 DEF CheckoutOK
  <2>5. HandlerOK(q, Present, Sold, Used, Tried) /\ q \in Requests
    BY <2>3, CheckingoutFields DEF HandlerOK, Requests
  <2>6. Unsaved(q, redeemed) = -Requested[c]
    BY <2>3 DEF Unsaved
  <2>7. points' = points + Unsaved(q, redeemed) - Unsaved(r, redeemed)
    BY <1>3, <1>4, <2>2, <2>6
  <2> HIDE DEF c
  <2>8. QED
    BY <1>1, <1>2, <1>5, <2>2, <2>3, <2>4, <2>5, <2>7, PointsStep DEF r, c
<1>7. CASE ~enough
  <2>1. q = Idle /\ points' = points
    BY <1>1, <1>7
  <2>2. points' = points + Unsaved(Idle, redeemed) - Unsaved(r, redeemed) /\ points' \in Nat
    BY <1>3, <1>4, <2>1, IdleUnsaved
  <2> HIDE DEF q, enough, c
  <2>3. Continue(w, Idle)
    BY <1>1, <2>1
  <2>4. QED
    BY <1>1, <1>5, <2>2, <2>3, EndsWithIdle, PointsStep
<1>8. QED
  BY <1>6, <1>7

LEMMA RedeemRowStep ==
  ASSUME IInv, NEW w \in Workers, RedeemRow(w)
  PROVE  IInv'
<1> DEFINE r == req[w]
           c == r.c
           p == Primary(c)
           q == [r EXCEPT !.op = "financials"]
<1>1. /\ r.op = "redeemRow" /\ Goto(w, "financials")
      /\ redeemed' = [redeemed EXCEPT ![p] = @ + Requested[c]]
      /\ UNCHANGED <<order, attempt, books, points, restored, earned, orphaned, payhere, world>>
  BY DEF RedeemRow
<1>0. UNCHANGED <<order, attempt, stock, sales, posted, points, restored, earned,
                  orphaned, captured, notices, aged, crashes, contested>>
  BY <1>1 DEF books, payhere, world
<1>2. r \in Checkingout /\ CheckoutOK(r, Present, Used) /\ r.op \in Steps
  BY <1>1, RequestFacts DEF Steps
<1>3. c \in Checkouts /\ Requested[c] \in Nat
  BY <1>2, CheckingoutFields, AmountsAssumption
<1>4. /\ r.i \in 1 .. Len(Lines[c]) /\ OrdersOf(c) \subseteq Present
      /\ p \notin Used /\ Requested[c] <= Subtotal(c)
  BY <1>1, <1>2 DEF CheckoutOK, Early
<1>5. p \in OrdersOf(c) /\ p \in Orders /\ p \in Present
  BY <1>3, <1>4, LinesFacts
<1>6. redeemed \in [Orders -> Nat] /\ redeemed[p] = 0
  BY <1>4, <1>5 DEF IInv, TypeOK, Used
<1>7. /\ redeemed' \in [Orders -> Nat] /\ redeemed'[p] = Requested[c]
      /\ \A o \in Orders \ {p} : redeemed'[o] = redeemed[o]
  BY <1>1, <1>3, <1>5, <1>6
<1>8. Continue(w, q)
  BY <1>1, GotoContinues DEF IInv
<1>9. "financials" \in Steps
  BY DEF Steps
<1> HIDE DEF p, c, r
<1>10. q \in Checkingout /\ q.op = "financials" /\ q.c = c /\ q.i = r.i
  BY <1>2, <1>9, CheckingoutGoto DEF c
<1> HIDE DEF q
<1>11. q \in Requests /\ \A P, S, U, T : HandlerOK(q, P, S, U, T)
  BY <1>10, CheckingoutFields DEF HandlerOK, Requests
<1>12. TypeOK'
  <2>1. Continue(w, q) /\ q \in Requests /\ TypeOK
    BY <1>8, <1>11 DEF IInv
  <2>2. req' \in [Workers -> {Idle} \cup Checkingout \cup Working]
    BY <2>1, RequestTyped
  <2>3. QED
    BY <1>0, <1>7, <2>1, <2>2 DEF TypeOK
<1>13. Present' = Present /\ Settled' = Settled /\ Sold' = Sold /\ Tried' = Tried
  BY <1>0, SetsKept
<1>14. Used \subseteq Used' /\ Used' \subseteq Used \cup {p}
  BY <1>4, <1>7 DEF Used
<1>15. \A U : CheckoutOK(q, Present, U)
  BY <1>4, <1>10 DEF CheckoutOK, Early
<1>16. \A v \in Workers \ {w} : req[v].op \in Steps => req[v].c \in Checkouts /\ req[v].c # c
  BY <1>2, RequestFacts, CheckingoutFields DEF IInv, OneCheckout, r, c
<1>17. \A v \in Workers \ {w} : req[v].op \in Steps =>
         /\ Primary(req[v].c) \notin Used' \ Used
         /\ q.op \in Steps => req[v].c # q.c
  <2> TAKE v \in Workers \ {w}
  <2> HAVE req[v].op \in Steps
  <2>1. req[v].c \in Checkouts /\ req[v].c # c
    BY <1>16
  <2>2. OrdersOf(req[v].c) \cap OrdersOf(c) = {} /\ Primary(req[v].c) \in OrdersOf(req[v].c)
    BY <1>3, <2>1, OrdersApart, LinesFacts
  <2>3. Primary(req[v].c) # p
    BY <1>5, <2>2
  <2>4. QED
    BY <1>10, <1>14, <2>1, <2>3
<1>18. RequestsOK' /\ OneCheckout'
  BY <1>8, <1>11, <1>13, <1>14, <1>15, <1>17, RequestsStep
<1>19. TablesOK'
  <2>1. Used' \subseteq Present'
    BY <1>5, <1>13, <1>14 DEF IInv, TablesOK
  <2>2. \A d \in Checkouts : redeemed'[Primary(d)] <= Subtotal(d)
    <3> TAKE d \in Checkouts
    <3>1. CASE d = c
      BY <1>4, <1>7, <3>1 DEF p
    <3>2. CASE d # c
      <4>1. Primary(d) \in Orders /\ Primary(d) # p
        BY <1>3, <1>5, <3>2, OrdersApart, LinesFacts
      <4>2. QED
        BY <1>7, <4>1 DEF IInv, TablesOK
    <3>3. QED
      BY <3>1, <3>2
  <2>3. QED
    BY <1>0, <1>13, <2>1, <2>2 DEF IInv, TablesOK
<1>20. ShelfOK'
  BY <1>0, <1>8, <1>10, <1>11, ShelfStep
<1>21. Unsaved(r, redeemed) = -Requested[c] /\ Unsaved(q, redeemed') = 0
  BY <1>1, <1>10, NothingUnsaved DEF Unsaved, r, c
<1>22. \A v \in Workers \ {w} : Unsaved(req[v], redeemed') = Unsaved(req[v], redeemed)
  <2> TAKE v \in Workers \ {w}
  <2>1. CASE req[v].op = "restoreRow"
    <3>1. req[v].op \in Handling \ {"settled"}
      BY <2>1 DEF Handling, Ending
    <3>2. HandlerOK(req[v], Present, Sold, Used, Tried) /\ At(req[v]) \in Orders
      BY <3>1, HandlerFacts
    <3>3. At(req[v]) \in Used
      BY <2>1, <3>1, <3>2 DEF HandlerOK
    <3>4. redeemed'[At(req[v])] = redeemed[At(req[v])]
      BY <1>4, <1>7, <3>2, <3>3
    <3>5. QED
      BY <2>1, <3>4 DEF Unsaved
  <2>2. CASE req[v].op # "restoreRow"
    BY <2>2 DEF Unsaved
  <2>3. QED
    BY <2>1, <2>2
<1>23. WalletMatchesLedger'
  <2>1. restored[p] \in Nat /\ earned[p] \in Nat /\ orphaned[p] \in Nat
    BY <1>5 DEF IInv, TypeOK
  <2>2. (restored'[p] + earned'[p] + orphaned'[p] - redeemed'[p])
          - (restored[p] + earned[p] + orphaned[p] - redeemed[p]) + Unsaved(q, redeemed')
        = Unsaved(r, redeemed)
    BY <1>0, <1>3, <1>6, <1>7, <1>21, <2>1
  <2>3. \A o \in Orders \ {p} :
          /\ restored'[o] = restored[o] /\ earned'[o] = earned[o]
          /\ orphaned'[o] = orphaned[o] /\ redeemed'[o] = redeemed[o]
    BY <1>0, <1>7
  <2>4. QED
    BY <1>0, <1>5, <1>8, <1>11, <1>12, <1>22, <2>2, <2>3, WalletRowStep DEF r
<1>24. QED
  BY <1>12, <1>18, <1>19, <1>20, <1>23 DEF IInv

LEMMA CreatePaymentAttemptStep ==
  ASSUME IInv, NEW w \in Workers, CreatePaymentAttempt(w)
  PROVE  IInv'
<1> DEFINE r == req[w]
           c == r.c
           a == [status |-> "pending", amount |-> Subtotal(c) - redeemed[Primary(c)]]
<1>1. /\ r.op = "attempt" /\ Continue(w, Idle)
      /\ attempt' = [attempt EXCEPT ![c] = a]
      /\ UNCHANGED <<order, books, wallet, payhere, world>>
  BY DEF CreatePaymentAttempt
<1>0. UNCHANGED <<order, stock, sales, posted, points, redeemed, restored, earned,
                  orphaned, captured, notices, aged, crashes, contested>>
  BY <1>1 DEF books, wallet, payhere, world
<1>2. r \in Checkingout /\ CheckoutOK(r, Present, Used) /\ r.op \in Steps
  BY <1>1, RequestFacts DEF Steps
<1>3. c \in Checkouts /\ c \in Online /\ OrdersOf(c) \subseteq Present
  BY <1>1, <1>2, CheckingoutFields DEF CheckoutOK
<1>4. a \in Attempts /\ a.status = "pending"
  <2>1. redeemed[Primary(c)] \in Nat /\ Subtotal(c) \in Nat
        /\ redeemed[Primary(c)] <= Subtotal(c)
    BY <1>3, LinesFacts, SubtotalPositive DEF IInv, TypeOK, TablesOK
  <2>2. PICK m \in Nat : m = Subtotal(c) - redeemed[Primary(c)]
    BY <2>1
  <2>3. a = [status |-> "pending", amount |-> m]
    BY <2>2
  <2>4. QED
    BY <2>3 DEF Attempts
<1> HIDE DEF a
<1>5. /\ attempt' \in [Online -> Attempts \cup {NoAttempt}] /\ attempt'[c] = a
      /\ \A d \in Online \ {c} : attempt'[d] = attempt[d]
  BY <1>1, <1>3, <1>4 DEF IInv, TypeOK
<1>6. a # NoAttempt
  BY <1>4 DEF Attempts, NoAttempt
<1>7. TypeOK'
  BY <1>0, <1>1, <1>5, IdleOK, RequestTyped DEF IInv, TypeOK
<1>8. Present' = Present /\ Settled' = Settled /\ Sold' = Sold /\ Used' = Used
  BY <1>0, SetsKept
<1>9. Tried \subseteq Tried' /\ Tried' \subseteq Tried \cup {c}
  BY <1>3, <1>5, <1>6 DEF Tried
<1>10. RequestsOK' /\ OneCheckout'
  BY <1>1, <1>8, <1>9, EndsWithIdle, RequestsContinue
<1>11. TablesOK'
  <2>1. \A d \in Online : attempt'[d].status = "paid" => OrdersOf(d) \subseteq Sold
    BY <1>4, <1>5 DEF IInv, TablesOK
  <2>2. QED
    BY <1>0, <1>3, <1>8, <1>9, <2>1 DEF IInv, TablesOK
<1>12. ShelfOK'
  BY <1>0, <1>1, EndsWithIdle, ShelfStep
<1>13. WalletMatchesLedger'
  <2>1. Unsaved(Idle, redeemed) = 0 /\ Unsaved(req[w], redeemed) = 0
    BY <1>1, IdleUnsaved, NothingUnsaved
  <2>2. points \in Int /\ points' = points + Unsaved(Idle, redeemed) - Unsaved(req[w], redeemed)
    BY <1>0, <2>1 DEF IInv, TypeOK
  <2>3. QED
    BY <1>0, <1>1, <2>2, EndsWithIdle, WalletStep
<1>14. QED
  BY <1>7, <1>10, <1>11, <1>12, <1>13 DEF IInv

-----------------------------------------------------------------------------
(***************************************************************************)
(* Stock, sale and entry.                                                  *)
(***************************************************************************)
LEMMA SoldInt ==
  ASSUME TypeOK, NEW b
  PROVE  SoldFrom(b) \in Int
<1> DEFINE f == [o \in Orders |-> sales[o] * Units[o]]
           A == {o \in Orders : Branch[o] = b}
<1>1. IsFiniteSet(A)
  BY LinesAssumption, FS_Subset
<1>2. \A o \in A : f[o] \in Int
  BY AmountsAssumption DEF TypeOK
<1>3. SoldFrom(b) = SumFunctionOnSet(f, A)
  BY DEF SoldFrom
<1> HIDE DEF f, A
<1>4. QED
  BY <1>1, <1>2, <1>3, SumInt

LEMMA TakeStockStep ==
  ASSUME IInv, NEW w \in Workers, TakeStock(w)
  PROVE  IInv'
<1> DEFINE r == req[w]
           o == At(r)
           b == Branch[o]
           q == IF stock[b] >= Units[o] THEN [r EXCEPT !.op = "sale"] ELSE Idle
<1>1. r.op = "stock" /\ UNCHANGED <<order, attempt, sales, posted, wallet, payhere, world>>
  BY DEF TakeStock
<1>0. UNCHANGED <<order, attempt, sales, posted, points, redeemed, restored, earned,
                  orphaned, captured, notices, aged, crashes, contested>>
  BY <1>1 DEF wallet, payhere, world
<1>2. r.op \in Handling \ {"settled"} /\ r.op \in Settling
  BY <1>1 DEF Handling, Settling
<1>3. /\ r \in Working /\ HandlerOK(r, Present, Sold, Used, Tried)
      /\ OrderOf(w) = o /\ o \in Orders
  BY <1>2, HandlerFacts
<1>4. Units[o] \in Nat \ {0} /\ b \in Branches /\ stock \in [Branches -> Nat]
      /\ Opening \in [Branches -> Nat]
  BY <1>3, AmountsAssumption DEF IInv, TypeOK
<1>5. /\ stock' = IF stock[b] >= Units[o] THEN [stock EXCEPT ![b] = @ - Units[o]] ELSE stock
      /\ Continue(w, q)
  BY <1>3 DEF TakeStock
<1>6. "sale" \in Handling \ {"settled"} /\ "sale" \in Settling /\ "sale" \notin Selling
      /\ "sale" \notin Ending
  BY DEF Handling, Settling, Selling, Ending
<1>7. /\ q \in Requests /\ q.op \notin Steps /\ CheckoutOK(q, Present, Used)
      /\ HandlerOK(q, Present, Sold, Used, Tried)
      /\ stock[b] >= Units[o] => q.op = "sale" /\ At(q) = o
      /\ ~(stock[b] >= Units[o]) => q.op = "idle"
      /\ Unsaved(q, redeemed) = 0
  <2>1. CASE stock[b] >= Units[o]
    <3>1. q = [r EXCEPT !.op = "sale"]
      BY <2>1
    <3> HIDE DEF q, r
    <3>2. /\ q \in Requests /\ q.op = "sale" /\ q.op \notin Steps /\ At(q) = At(r)
          /\ HandlerOK(q, Present, Sold, Used, Tried) /\ CheckoutOK(q, Present, Used)
      BY <1>1, <1>2, <1>3, <1>6, <3>1, HandlerGoto
    <3>3. QED
      BY <2>1, <3>2, NothingUnsaved
  <2>2. CASE ~(stock[b] >= Units[o])
    <3>1. q = Idle
      BY <2>2
    <3>2. Idle.op = "idle"
      BY DEF Idle
    <3> HIDE DEF q, b, o
    <3>3. QED
      BY <2>2, <3>1, <3>2, EndsWithIdle, IdleUnsaved
  <2>3. QED
    BY <2>1, <2>2
<1> HIDE DEF q
<1>8. TypeOK'
  <2>1. stock' \in [Branches -> Nat]
    <3> HIDE DEF b, o
    <3>1. QED
      BY <1>4, <1>5
  <2>2. req' \in [Workers -> {Idle} \cup Checkingout \cup Working]
    BY <1>5, <1>7, RequestTyped DEF IInv
  <2>3. QED
    BY <1>0, <2>1, <2>2 DEF IInv, TypeOK
<1>9. Present' = Present /\ Settled' = Settled /\ Sold' = Sold /\ Used' = Used /\ Tried' = Tried
  BY <1>0, SetsKept
<1>10. RequestsOK' /\ OneCheckout'
  BY <1>5, <1>7, <1>9, RequestsContinue
<1>11. TablesOK'
  BY <1>0, <1>9 DEF IInv, TablesOK
<1>12. ShelfOK'
  <2> SUFFICES ASSUME NEW d \in Branches
               PROVE  SoldFrom(d)' + TakenFrom(d)' <= Opening[d] - stock'[d]
    BY DEF ShelfOK
  <2>1. SoldFrom(d)' = SoldFrom(d) /\ SoldFrom(d) \in Int
    BY <1>0, SoldInt DEF SoldFrom, IInv
  <2>2. SoldFrom(d) + TakenFrom(d) <= Opening[d] - stock[d]
    BY DEF IInv, ShelfOK
  <2>3. /\ TakenFrom(d)' = TakenFrom(d) + Taken(d, q) - Taken(d, r)
        /\ TakenFrom(d) \in Nat
    BY <1>5, <1>7, TakenChanges
  <2>4. Taken(d, r) = 0
    BY <1>1 DEF Taken
  <2>5. Taken(d, q) = stock[d] - stock'[d]
    <3> HIDE DEF o, r
    <3>1. CASE stock[b] >= Units[o] /\ b = d
      BY <1>4, <1>5, <1>7, <3>1 DEF Taken
    <3>2. CASE stock[b] >= Units[o] /\ b # d
      BY <1>4, <1>5, <1>7, <3>2 DEF Taken
    <3>3. CASE ~(stock[b] >= Units[o])
      BY <1>4, <1>5, <1>7, <3>3 DEF Taken
    <3>4. QED
      BY <3>1, <3>2, <3>3
  <2>6. stock[d] \in Nat /\ stock'[d] \in Nat /\ Opening[d] \in Nat
    BY <1>4, <1>8 DEF TypeOK
  <2>7. QED
    BY <2>1, <2>2, <2>3, <2>4, <2>5, <2>6
<1>13. WalletMatchesLedger'
  <2>1. Unsaved(r, redeemed) = 0
    BY <1>1, NothingUnsaved
  <2>2. points \in Int /\ points' = points + Unsaved(q, redeemed) - Unsaved(r, redeemed)
    BY <1>0, <1>7, <2>1 DEF IInv, TypeOK
  <2>3. QED
    BY <1>0, <1>5, <1>7, <2>2, WalletStep
<1>14. QED
  BY <1>8, <1>10, <1>11, <1>12, <1>13 DEF IInv

LEMMA CreateSaleStep ==
  ASSUME IInv, NEW w \in Workers, CreateSale(w)
  PROVE  IInv'
<1> DEFINE r == req[w]
           o == At(r)
           op == IF Total(RowOf(w), o) > 0 THEN "entry" ELSE AfterSale(r)
           q == [r EXCEPT !.op = op]
<1>1. r.op = "sale" /\ UNCHANGED <<order, attempt, stock, posted, wallet, payhere, world>>
  BY DEF CreateSale
<1>0. UNCHANGED <<order, attempt, stock, posted, points, redeemed, restored, earned,
                  orphaned, captured, notices, aged, crashes, contested>>
  BY <1>1 DEF wallet, payhere, world
<1>2. r.op \in Handling \ {"settled"} /\ r.op \in Settling
  BY <1>1 DEF Handling, Settling
<1>3. /\ r \in Working /\ HandlerOK(r, Present, Sold, Used, Tried)
      /\ OrderOf(w) = o /\ o \in Orders
  BY <1>2, HandlerFacts
<1>4. sales' = [sales EXCEPT ![o] = @ + 1] /\ Goto(w, op)
  BY <1>3 DEF CreateSale
<1>5. Continue(w, q)
  BY <1>4, GotoContinues DEF IInv
<1>6. sales \in [Orders -> Nat] /\ Units[o] \in Nat \ {0}
  BY <1>3, AmountsAssumption DEF IInv, TypeOK
<1>7. /\ sales' \in [Orders -> Nat] /\ sales'[o] = sales[o] + 1
      /\ \A p \in Orders \ {o} : sales'[p] = sales[p]
  BY <1>3, <1>4, <1>6
<1>8. Sold \subseteq Sold' /\ o \in Sold'
  BY <1>3, <1>6, <1>7 DEF Sold
<1>9. /\ op \in {"entry", "markPaid", "award"}
      /\ op = "markPaid" => r.notice # None
  BY DEF AfterSale
<1>10. op \in Handling \ {"settled"} /\ op \notin Ending
  BY <1>9 DEF Handling, Settling, Selling, Ending
<1> HIDE DEF op, r
<1>11. /\ q \in Requests /\ q.op = op /\ q.op \notin Steps
       /\ HandlerOK(q, Present, Sold', Used, Tried) /\ CheckoutOK(q, Present, Used)
  BY <1>1, <1>2, <1>3, <1>8, <1>9, <1>10, HandlerGoto
<1> HIDE DEF q, o
<1>12. TypeOK'
  <2>1. req' \in [Workers -> {Idle} \cup Checkingout \cup Working]
    BY <1>5, <1>11, RequestTyped DEF IInv
  <2>2. QED
    BY <1>0, <1>7, <2>1 DEF IInv, TypeOK
<1>13. Present' = Present /\ Settled' = Settled /\ Used' = Used /\ Tried' = Tried
  BY <1>0, SetsKept
<1>14. RequestsOK' /\ OneCheckout'
  BY <1>5, <1>8, <1>11, <1>13, RequestsContinue
<1>15. TablesOK'
  BY <1>0, <1>8, <1>13 DEF IInv, TablesOK
<1>16. ShelfOK'
  <2> SUFFICES ASSUME NEW d \in Branches
               PROVE  SoldFrom(d)' + TakenFrom(d)' <= Opening[d] - stock'[d]
    BY DEF ShelfOK
  <2> DEFINE f == [p \in Orders |-> sales[p] * Units[p]]
             g == [p \in Orders |-> sales'[p] * Units[p]]
             A == {p \in Orders : Branch[p] = d}
  <2>1. IsFiniteSet(A)
    BY LinesAssumption, FS_Subset
  <2>2. /\ \A p \in A : f[p] \in Int /\ g[p] \in Int
        /\ \A p \in A : p # o => g[p] = f[p]
    <3>1. Units \in [Orders -> Nat \ {0}]
      BY AmountsAssumption
    <3>2. QED
      BY <1>6, <1>7, <3>1
  <2>3. g[o] - f[o] = Units[o]
    <3>1. g[o] = (sales[o] + 1) * Units[o] /\ f[o] = sales[o] * Units[o]
      BY <1>3, <1>7
    <3>2. PICK s, u : s = sales[o] /\ u = Units[o] /\ s \in Int /\ u \in Int
      BY <1>3, <1>6
    <3>3. (s + 1) * u - s * u = u
      BY <3>2
    <3>4. QED
      BY <3>1, <3>2, <3>3
  <2>4. SoldFrom(d) = SumFunctionOnSet(f, A) /\ SoldFrom(d)' = SumFunctionOnSet(g, A)
    BY DEF SoldFrom
  <2>5. o \in A <=> Branch[o] = d
    BY <1>3
  <2> HIDE DEF f, g, A
  <2>6. SoldFrom(d)' = SoldFrom(d) + Taken(d, r)
    <3>1. CASE o \in A
      <4>1. SumFunctionOnSet(g, A) = SumFunctionOnSet(f, A) + g[o] - f[o]
        BY <2>1, <2>2, <3>1, SumUpdate
      <4>2. Taken(d, r) = Units[o]
        BY <1>1, <2>5, <3>1 DEF Taken, o
      <4>3. f[o] \in Int /\ g[o] \in Int /\ SumFunctionOnSet(f, A) \in Int
        BY <2>1, <2>2, <3>1, SumInt
      <4>4. QED
        BY <1>6, <2>3, <2>4, <4>1, <4>2, <4>3
    <3>2. CASE o \notin A
      <4>1. SumFunctionOnSet(f, A) = SumFunctionOnSet(g, A)
        <5>1. \A p \in A : f[p] = g[p]
          BY <2>2, <3>2
        <5>2. QED
          BY <2>1, <5>1, SumSame
      <4>2. Taken(d, r) = 0
        BY <2>5, <3>2 DEF Taken, o
      <4>3. SumFunctionOnSet(f, A) \in Int
        BY <2>1, <2>2, SumInt
      <4>4. QED
        BY <2>4, <4>1, <4>2, <4>3
    <3>3. QED
      BY <3>1, <3>2
  <2>7. SoldFrom(d) + TakenFrom(d) <= Opening[d] - stock[d] /\ SoldFrom(d) \in Int
    BY SoldInt DEF IInv, ShelfOK
  <2>8. /\ TakenFrom(d)' = TakenFrom(d) + Taken(d, q) - Taken(d, r)
        /\ TakenFrom(d) \in Nat /\ Taken(d, r) \in Nat
    BY <1>5, <1>11, TakenChanges DEF r
  <2>9. Taken(d, q) = 0
    BY <1>9, <1>11 DEF Taken
  <2>10. stock'[d] = stock[d] /\ stock[d] \in Nat /\ Opening[d] \in Nat
    BY <1>0, AmountsAssumption DEF IInv, TypeOK
  <2>11. QED
    BY <2>6, <2>7, <2>8, <2>9, <2>10
<1>17. WalletMatchesLedger'
  <2>1. Unsaved(r, redeemed) = 0 /\ Unsaved(q, redeemed) = 0
    BY <1>1, <1>9, <1>11, NothingUnsaved
  <2>2. points \in Int /\ points' = points + Unsaved(q, redeemed) - Unsaved(r, redeemed)
    BY <1>0, <2>1 DEF IInv, TypeOK
  <2>3. QED
    BY <1>0, <1>5, <1>11, <2>2, WalletStep DEF r
<1>18. QED
  BY <1>12, <1>14, <1>15, <1>16, <1>17 DEF IInv

LEMMA PostEntryStep ==
  ASSUME IInv, NEW w \in Workers, PostEntry(w)
  PROVE  IInv'
<1> DEFINE r == req[w]
           o == At(r)
           op == AfterSale(r)
           q == [r EXCEPT !.op = op]
<1>1. /\ r.op = "entry" /\ Goto(w, op)
      /\ UNCHANGED <<order, attempt, stock, sales, wallet, payhere, world>>
  BY DEF PostEntry
<1>0. UNCHANGED <<order, attempt, stock, sales, points, redeemed, restored, earned,
                  orphaned, captured, notices, aged, crashes, contested>>
  BY <1>1 DEF wallet, payhere, world
<1>2. r.op \in Handling \ {"settled"} /\ r.op \in Settling /\ r.op \in Selling
  BY <1>1 DEF Handling, Settling, Selling
<1>3. /\ r \in Working /\ HandlerOK(r, Present, Sold, Used, Tried)
      /\ OrderOf(w) = o /\ o \in Orders /\ RowOf(w) \in Row
  BY <1>2, HandlerFacts
<1>4. posted' = [posted EXCEPT ![o] = @ + Posting(w)]
  BY <1>3 DEF PostEntry
<1>5. Posting(w) \in Nat
  BY <1>3, TotalNat DEF Posting
<1>6. posted' \in [Orders -> Int]
  BY <1>3, <1>4, <1>5 DEF IInv, TypeOK
<1>7. Continue(w, q)
  BY <1>1, GotoContinues DEF IInv
<1>8. /\ op \in {"markPaid", "award"}
      /\ op = "markPaid" => r.notice # None
  BY DEF AfterSale
<1>9. op \in Handling \ {"settled"} /\ op \notin Ending
  BY <1>8 DEF Handling, Settling, Selling, Ending
<1>10. o \in Sold
  BY <1>2, <1>3 DEF HandlerOK
<1> HIDE DEF op, r
<1>11. /\ q \in Requests /\ q.op = op /\ q.op \notin Steps
       /\ HandlerOK(q, Present, Sold, Used, Tried) /\ CheckoutOK(q, Present, Used)
  BY <1>1, <1>2, <1>3, <1>8, <1>9, <1>10, HandlerGoto
<1> HIDE DEF q, o
<1>12. TypeOK'
  <2>1. req' \in [Workers -> {Idle} \cup Checkingout \cup Working]
    BY <1>7, <1>11, RequestTyped DEF IInv
  <2>2. QED
    BY <1>0, <1>6, <2>1 DEF IInv, TypeOK
<1>13. Present' = Present /\ Settled' = Settled /\ Sold' = Sold /\ Used' = Used /\ Tried' = Tried
  BY <1>0, SetsKept
<1>14. RequestsOK' /\ OneCheckout'
  BY <1>7, <1>11, <1>13, RequestsContinue
<1>15. TablesOK'
  BY <1>0, <1>13 DEF IInv, TablesOK
<1>16. ShelfOK'
  BY <1>0, <1>7, <1>8, <1>11, ShelfStep
<1>17. WalletMatchesLedger'
  <2>1. Unsaved(r, redeemed) = 0 /\ Unsaved(q, redeemed) = 0
    BY <1>1, <1>8, <1>11, NothingUnsaved
  <2>2. points \in Int /\ points' = points + Unsaved(q, redeemed) - Unsaved(r, redeemed)
    BY <1>0, <2>1 DEF IInv, TypeOK
  <2>3. QED
    BY <1>0, <1>7, <1>11, <2>2, WalletStep DEF r
<1>18. QED
  BY <1>12, <1>14, <1>15, <1>16, <1>17 DEF IInv

LEMMA AttemptPaidStep ==
  ASSUME IInv, NEW w \in Workers, AttemptPaid(w)
  PROVE  IInv'
<1> DEFINE r == req[w]
           n == r.notice
           c == n.c
<1>1. /\ r.op = "settled" /\ Continue(w, Idle) /\ Acknowledge(n)
      /\ attempt' = [attempt EXCEPT ![c].status = "paid"]
      /\ UNCHANGED <<order, books, wallet, captured, world>>
  BY DEF AttemptPaid
<1>0. UNCHANGED <<order, stock, sales, posted, points, redeemed, restored, earned,
                  orphaned, captured, aged, crashes, contested>>
  BY <1>1 DEF books, wallet, world
<1>2. r.op \in Handling /\ r.op \in Settling
  BY <1>1 DEF Handling, Settling
<1>3. r \in Working /\ HandlerOK(r, Present, Sold, Used, Tried)
  BY <1>2, RequestFacts
<1>4. c \in Tried /\ OrdersOf(c) \subseteq Sold
  BY <1>1, <1>2, <1>3 DEF HandlerOK
<1>5. c \in Online /\ attempt \in [Online -> Attempts \cup {NoAttempt}] /\ attempt[c] \in Attempts
  BY <1>4 DEF Tried, IInv, TypeOK
<1> HIDE DEF c, n, r
<1>6. PICK a : a = [attempt[c] EXCEPT !.status = "paid"]
  OBVIOUS
<1>7. a \in Attempts
  BY <1>5, <1>6 DEF Attempts
<1>8. attempt' = [attempt EXCEPT ![c] = a]
  BY <1>1, <1>5, <1>6
<1>9. /\ attempt' \in [Online -> Attempts \cup {NoAttempt}] /\ attempt'[c] = a
      /\ \A d \in Online \ {c} : attempt'[d] = attempt[d]
  BY <1>5, <1>7, <1>8
<1>10. a # NoAttempt
  BY <1>7 DEF Attempts, NoAttempt
<1>11. notices' \subseteq notices
  BY <1>1, AcknowledgeShrinks
<1>12. TypeOK'
  <2>1. req' \in [Workers -> {Idle} \cup Checkingout \cup Working]
    BY <1>1, IdleOK, RequestTyped DEF IInv
  <2>2. QED
    BY <1>0, <1>9, <1>11, <2>1 DEF IInv, TypeOK
<1>13. Present' = Present /\ Settled' = Settled /\ Sold' = Sold /\ Used' = Used
  BY <1>0, SetsKept
<1>14. Tried' = Tried
  BY <1>4, <1>9, <1>10 DEF Tried
<1>15. RequestsOK' /\ OneCheckout'
  BY <1>1, <1>13, <1>14, EndsWithIdle, RequestsContinue
<1>16. TablesOK'
  <2>1. \A d \in Online : attempt'[d].status = "paid" => OrdersOf(d) \subseteq Sold
    BY <1>4, <1>9 DEF IInv, TablesOK
  <2>2. QED
    BY <1>0, <1>11, <1>13, <1>14, <2>1 DEF IInv, TablesOK
<1>17. ShelfOK'
  BY <1>0, <1>1, EndsWithIdle, ShelfStep
<1>18. WalletMatchesLedger'
  <2>1. Unsaved(Idle, redeemed) = 0 /\ Unsaved(req[w], redeemed) = 0
    BY <1>1, IdleUnsaved, NothingUnsaved DEF r
  <2>2. points \in Int /\ points' = points + Unsaved(Idle, redeemed) - Unsaved(req[w], redeemed)
    BY <1>0, <2>1 DEF IInv, TypeOK
  <2>3. QED
    BY <1>0, <1>1, <2>2, EndsWithIdle, WalletStep
<1>19. QED
  BY <1>12, <1>15, <1>16, <1>17, <1>18 DEF IInv

-----------------------------------------------------------------------------
(***************************************************************************)
(* Points for a pickup, and back for an end.                               *)
(***************************************************************************)
LEMMA AwardStep ==
  ASSUME IInv, NEW w \in Workers, Award(w)
  PROVE  IInv'
<1> DEFINE r == req[w]
           awarded == Earned(w) > 0 /\ earned[OrderOf(w)] = 0
           op == IF awarded THEN "awardRow" ELSE "complete"
           q == [r EXCEPT !.op = op]
<1>1. /\ r.op = "award" /\ Goto(w, op)
      /\ points' = IF awarded THEN points + Earned(w) ELSE points
      /\ UNCHANGED <<order, attempt, books, redeemed, restored, earned, orphaned, payhere, world>>
  BY DEF Award
<1>2. r.op \in Handling \ {"settled"} /\ r.op \in Selling /\ r.op # "settled"
  BY <1>1 DEF Handling, Selling
<1>3. r \in Working /\ HandlerOK(r, Present, Sold, Used, Tried)
      /\ OrderOf(w) = At(r) /\ RowOf(w) = r.rows[At(r)]
  BY <1>2, HandlerFacts
<1>4. Earned(w) = AwardOf(r) /\ AwardOf(r) \in Nat
  BY <1>2, <1>3, AwardNat DEF Earned, AwardOf
<1>5. Continue(w, q)
  BY <1>1, GotoContinues DEF IInv
<1>6. op \in {"awardRow", "complete"} /\ (awarded <=> op = "awardRow")
  OBVIOUS
<1>7. op \in Handling \ {"settled"} /\ op \notin Ending /\ op \notin Settling
  BY <1>6 DEF Handling, Settling, Selling, Ending
<1>8. At(r) \in Sold
  BY <1>2, <1>3 DEF HandlerOK
<1> HIDE DEF op, r
<1>9. /\ q \in Requests /\ q.op = op /\ q.op \notin Steps /\ At(q) = At(r) /\ q.rows = r.rows
      /\ HandlerOK(q, Present, Sold, Used, Tried) /\ CheckoutOK(q, Present, Used)
  BY <1>2, <1>3, <1>6, <1>7, <1>8, HandlerGoto
<1> HIDE DEF q, awarded
<1>10. Unsaved(r, redeemed) = 0
  BY <1>1, NothingUnsaved
<1>11. Unsaved(q, redeemed) = IF awarded THEN Earned(w) ELSE 0
  BY <1>4, <1>6, <1>9 DEF Unsaved, AwardOf
<1>12. points \in Nat /\ points' \in Nat
       /\ points' = points + Unsaved(q, redeemed) - Unsaved(r, redeemed)
  BY <1>1, <1>4, <1>10, <1>11 DEF IInv, TypeOK
<1>13. notices' \subseteq notices /\ captured' = captured
  BY <1>1 DEF payhere
<1>14. q.op # "sale"
  BY <1>6, <1>9
<1>15. QED
  BY <1>1, <1>5, <1>9, <1>12, <1>13, <1>14, PointsStep DEF r

\* A step that writes a row of points for an order, or is refused.
LEMMA PointsRowStep ==
  ASSUME IInv, NEW w \in Workers, NEW q \in Requests, Continue(w, q),
         notices' \subseteq notices,
         UNCHANGED <<order, attempt, books, points, redeemed, captured, world>>,
         restored' \in [Orders -> Nat], earned' \in [Orders -> Nat],
         orphaned' \in [Orders -> Nat],
         NEW o \in Orders,
         \A p \in Orders \ {o} :
           restored'[p] = restored[p] /\ earned'[p] = earned[p] /\ orphaned'[p] = orphaned[p],
         CheckoutOK(q, Present, Used), HandlerOK(q, Present, Sold, Used, Tried),
         q.op \notin Steps, q.op # "sale",
         (orphaned'[o] - orphaned[o]) + (restored'[o] - restored[o]) + (earned'[o] - earned[o])
           + Unsaved(q, redeemed) = Unsaved(req[w], redeemed)
  PROVE  IInv'
<1>0. UNCHANGED <<order, attempt, stock, sales, posted, points, redeemed, captured, aged, crashes, contested>>
  BY DEF books, world
<1>1. TypeOK'
  <2>1. req' \in [Workers -> {Idle} \cup Checkingout \cup Working]
    BY RequestTyped DEF IInv
  <2>2. QED
    BY <1>0, <2>1 DEF IInv, TypeOK
<1>2. Present' = Present /\ Settled' = Settled /\ Sold' = Sold /\ Used' = Used /\ Tried' = Tried
  BY <1>0, SetsKept
<1>3. RequestsOK' /\ OneCheckout'
  BY <1>2, RequestsContinue
<1>4. TablesOK'
  BY <1>0, <1>2 DEF IInv, TablesOK
<1>5. ShelfOK'
  BY <1>0, ShelfStep
<1>6. WalletMatchesLedger'
  <2>1. \A v \in Workers \ {w} : Unsaved(req[v], redeemed') = Unsaved(req[v], redeemed)
    BY <1>0
  <2>2. \A p \in Orders \ {o} :
          /\ restored'[p] = restored[p] /\ earned'[p] = earned[p]
          /\ orphaned'[p] = orphaned[p] /\ redeemed'[p] = redeemed[p]
    BY <1>0
  <2>3. /\ restored[o] \in Nat /\ earned[o] \in Nat /\ redeemed[o] \in Nat /\ orphaned[o] \in Nat
        /\ orphaned'[o] \in Nat /\ restored'[o] \in Nat /\ earned'[o] \in Nat /\ redeemed'[o] = redeemed[o]
        /\ Unsaved(q, redeemed) \in Int /\ redeemed' = redeemed
    BY <1>0, UnsavedInt DEF IInv, TypeOK
  <2>4. (restored'[o] + earned'[o] + orphaned'[o] - redeemed'[o])
          - (restored[o] + earned[o] + orphaned[o] - redeemed[o]) + Unsaved(q, redeemed')
        = Unsaved(req[w], redeemed)
    <3>1. PICK u, t : u = Unsaved(q, redeemed) /\ t = Unsaved(req[w], redeemed)
      OBVIOUS
    <3>2. Unsaved(q, redeemed') = u
      BY <2>3, <3>1
    <3>3. QED
      BY <2>3, <3>1, <3>2
  <2>5. QED
    BY <1>0, <1>1, <2>1, <2>2, <2>4, WalletRowStep
<1>7. QED
  BY <1>1, <1>3, <1>4, <1>5, <1>6 DEF IInv

LEMMA AwardRowStep ==
  ASSUME IInv, NEW w \in Workers, AwardRow(w)
  PROVE  IInv'
<1> DEFINE r == req[w]
           o == At(r)
           q == [r EXCEPT !.op = "complete"]
<1>1. r.op = "awardRow"
      /\ UNCHANGED <<order, attempt, books, points, redeemed, restored, payhere, world>>
  BY DEF AwardRow
<1>2. r.op \in Handling \ {"settled"} /\ r.op \in Selling /\ r.op # "settled"
  BY <1>1 DEF Handling, Selling
<1>3. r \in Working /\ HandlerOK(r, Present, Sold, Used, Tried) /\ o \in Orders
      /\ OrderOf(w) = o /\ RowOf(w) = r.rows[o]
  BY <1>2, HandlerFacts
<1>4. Earned(w) = AwardOf(r) /\ AwardOf(r) \in Nat
  BY <1>2, <1>3, AwardNat DEF Earned, AwardOf
<1>5. Unsaved(r, redeemed) = AwardOf(r)
  BY <1>1 DEF Unsaved
<1>6. notices' \subseteq notices /\ captured' = captured
  BY <1>1 DEF payhere
<1>7. earned \in [Orders -> Nat] /\ restored \in [Orders -> Nat] /\ orphaned \in [Orders -> Nat]
  BY DEF IInv, TypeOK
<1>8. CASE earned[o] = 0
  <2>1. /\ earned' = [earned EXCEPT ![o] = AwardOf(r)] /\ Goto(w, "complete")
        /\ orphaned' = orphaned
    BY <1>3, <1>4, <1>8 DEF AwardRow
  <2>2. Continue(w, q)
    BY <2>1, GotoContinues DEF IInv
  <2>3. "complete" \in Handling \ {"settled"} /\ "complete" \notin Ending
        /\ "complete" \notin Settling
    BY DEF Handling, Settling, Selling, Ending
  <2>4. o \in Sold
    BY <1>2, <1>3 DEF HandlerOK
  <2> HIDE DEF r
  <2>5. /\ q \in Requests /\ q.op = "complete" /\ q.op \notin Steps
        /\ HandlerOK(q, Present, Sold, Used, Tried) /\ CheckoutOK(q, Present, Used)
    BY <1>2, <1>3, <2>3, <2>4, HandlerGoto
  <2> HIDE DEF q, o
  <2>6. Unsaved(q, redeemed) = 0
    BY <2>5, NothingUnsaved
  <2>7. /\ earned' \in [Orders -> Nat] /\ earned'[o] = AwardOf(r)
        /\ \A p \in Orders \ {o} : earned'[p] = earned[p]
    BY <1>3, <1>4, <1>7, <2>1
  <2>8. (orphaned'[o] - orphaned[o]) + (restored'[o] - restored[o]) + (earned'[o] - earned[o])
          + Unsaved(q, redeemed) = Unsaved(r, redeemed)
    BY <1>1, <1>3, <1>4, <1>5, <1>7, <1>8, <2>1, <2>6, <2>7
  <2>9. \A p \in Orders \ {o} :
          restored'[p] = restored[p] /\ earned'[p] = earned[p] /\ orphaned'[p] = orphaned[p]
    BY <1>1, <2>1, <2>7
  <2>10. restored' \in [Orders -> Nat] /\ orphaned' \in [Orders -> Nat] /\ q.op # "sale"
    BY <1>1, <1>7, <2>1, <2>5
  <2>11. QED
    BY <1>1, <1>3, <1>6, <2>2, <2>5, <2>7, <2>8, <2>9, <2>10, PointsRowStep DEF r
<1>9. CASE earned[o] # 0
  <2>1. /\ earned' = earned /\ orphaned' = [orphaned EXCEPT ![o] = @ + AwardOf(r)]
        /\ Continue(w, Idle)
    BY <1>3, <1>4, <1>9 DEF AwardRow, Refused
  <2>2. (orphaned'[o] - orphaned[o]) + (restored'[o] - restored[o]) + (earned'[o] - earned[o])
          + Unsaved(Idle, redeemed) = Unsaved(r, redeemed)
    <3> HIDE DEF r, o
    <3>1. QED
      BY <1>1, <1>3, <1>4, <1>5, <1>7, <2>1, IdleUnsaved
  <2>3. \A p \in Orders \ {o} :
          restored'[p] = restored[p] /\ earned'[p] = earned[p] /\ orphaned'[p] = orphaned[p]
    BY <1>1, <2>1
  <2> HIDE DEF r, o
  <2>4. restored' \in [Orders -> Nat] /\ earned' \in [Orders -> Nat] /\ orphaned' \in [Orders -> Nat]
    <3>1. restored' = restored /\ earned' = earned
      BY <1>1, <2>1
    <3>2. orphaned' \in [Orders -> Nat]
      <4>1. orphaned[o] + AwardOf(r) \in Nat
        BY <1>3, <1>4, <1>7
      <4>2. QED
        BY <1>3, <1>7, <2>1, <4>1
    <3>3. QED
      BY <1>7, <3>1, <3>2
  <2>5. QED
    BY <1>1, <1>3, <1>6, <2>1, <2>2, <2>3, <2>4, EndsWithIdle, PointsRowStep DEF r
<1>10. QED
  BY <1>8, <1>9

\* On to the next order of the notice, or done.
LEMMA ProceedOK ==
  ASSUME IInv, NEW w \in Workers, req[w].op \in {"restore", "restoreRow"}, Proceed(w)
  PROVE  /\ notices' \subseteq notices
         /\ \E q \in Requests :
              /\ Continue(w, q) /\ q.op \notin Steps /\ q.op # "sale"
              /\ CheckoutOK(q, Present, Used) /\ HandlerOK(q, Present, Sold, Used, Tried)
              /\ Unsaved(q, redeemed) = 0
<1> DEFINE r == req[w]
           o == At(r)
           rest == r.rest \ {o}
           q == [r EXCEPT !.rest = rest, !.op = "end"]
<1>1. r.op \in Handling \ {"settled"} /\ r.op \in Ending
  BY DEF Handling, Ending
<1>2. /\ r \in Working /\ HandlerOK(r, Present, Sold, Used, Tried) /\ OrderOf(w) = o
      /\ r.rest \in SUBSET Orders
  BY <1>1, HandlerFacts
<1>3. CASE rest # {}
  <2>1. Continue(w, q) /\ notices' = notices
    BY <1>2, <1>3 DEF Proceed
  <2>2. rest \in SUBSET Orders /\ rest \subseteq r.rest
    BY <1>2
  <2> HIDE DEF rest
  <2>3. q \in Working /\ q.op = "end" /\ q.rest = rest /\ q.rows = r.rows
        /\ q.notice = r.notice /\ q.to = r.to
    BY <1>2, <2>2 DEF Working
  <2> HIDE DEF q, o, r
  <2>4. HandlerOK(q, Present, Sold, Used, Tried)
    BY <1>1, <1>2, <1>3, <2>2, <2>3 DEF HandlerOK, Settling, Selling
  <2>5. q \in Requests /\ q.op \notin Steps /\ CheckoutOK(q, Present, Used)
    BY <2>3, HandlerRequest
  <2>6. Unsaved(q, redeemed) = 0 /\ q.op # "sale"
    BY <2>3, NothingUnsaved
  <2>7. QED
    BY <2>1, <2>4, <2>5, <2>6
<1>4. CASE rest = {}
  <2>1. Continue(w, Idle) /\ notices' \subseteq notices
    BY <1>2, <1>4, AcknowledgeShrinks DEF Proceed
  <2>2. QED
    BY <2>1, EndsWithIdle, IdleUnsaved
<1>5. QED
  BY <1>3, <1>4

LEMMA RestoreStep ==
  ASSUME IInv, NEW w \in Workers, Restore(w)
  PROVE  IInv'
<1> DEFINE r == req[w]
           o == At(r)
           q == [r EXCEPT !.op = "restoreRow"]
<1>1. r.op = "restore"
      /\ UNCHANGED <<order, attempt, books, redeemed, restored, earned, orphaned, captured, world>>
  BY DEF Restore
<1>2. r.op \in Handling \ {"settled"} /\ r.op \in Ending /\ r.op # "settled"
  BY <1>1 DEF Handling, Ending
<1>3. r \in Working /\ HandlerOK(r, Present, Sold, Used, Tried) /\ o \in Orders /\ OrderOf(w) = o
  BY <1>2, HandlerFacts
<1>4. points \in Nat /\ redeemed[o] \in Nat
  BY <1>3 DEF IInv, TypeOK
<1>5. Unsaved(r, redeemed) = 0
  BY <1>1, NothingUnsaved
<1>6. CASE Due(w)
  <2>1. points' = points + redeemed[o] /\ Goto(w, "restoreRow") /\ notices' = notices
        /\ redeemed[o] > 0
    BY <1>3, <1>6 DEF Restore, Due
  <2>2. Continue(w, q)
    BY <2>1, GotoContinues DEF IInv
  <2>3. "restoreRow" \in Handling \ {"settled"} /\ "restoreRow" \notin Selling
        /\ "restoreRow" \notin Settling
    BY DEF Handling, Settling, Selling, Ending
  <2>4. o \in Used
    BY <1>3, <2>1 DEF Used
  <2> HIDE DEF r
  <2>5. /\ q \in Requests /\ q.op = "restoreRow" /\ q.op \notin Steps /\ At(q) = At(r)
        /\ HandlerOK(q, Present, Sold, Used, Tried) /\ CheckoutOK(q, Present, Used)
    BY <1>2, <1>3, <2>3, <2>4, HandlerGoto
  <2> HIDE DEF q
  <2>6. Unsaved(q, redeemed) = redeemed[o]
    BY <2>5 DEF Unsaved
  <2>7. points' \in Nat /\ points' = points + Unsaved(q, redeemed) - Unsaved(r, redeemed)
    BY <1>4, <1>5, <2>1, <2>6
  <2>8. notices' \subseteq notices /\ q.op # "sale"
    BY <2>1, <2>5
  <2> HIDE DEF o
  <2>9. QED
    BY <1>1, <2>2, <2>5, <2>7, <2>8, PointsStep DEF r
<1>7. CASE ~Due(w)
  <2>1. points' = points /\ Proceed(w)
    BY <1>7 DEF Restore
  <2>2. r.op \in {"restore", "restoreRow"}
    BY <1>1
  <2>3. notices' \subseteq notices
    BY <2>1, <2>2, ProceedOK
  <2>4. PICK p \in Requests :
          /\ Continue(w, p) /\ p.op \notin Steps /\ p.op # "sale"
          /\ CheckoutOK(p, Present, Used) /\ HandlerOK(p, Present, Sold, Used, Tried)
          /\ Unsaved(p, redeemed) = 0
    BY <2>1, <2>2, ProceedOK
  <2>5. points' \in Nat /\ points' = points + Unsaved(p, redeemed) - Unsaved(r, redeemed)
    BY <1>4, <1>5, <2>1, <2>4
  <2>6. QED
    BY <1>1, <2>3, <2>4, <2>5, PointsStep
<1>8. QED
  BY <1>6, <1>7

LEMMA RestoreRowStep ==
  ASSUME IInv, NEW w \in Workers, RestoreRow(w)
  PROVE  IInv'
<1> DEFINE r == req[w]
           o == At(r)
<1>1. r.op = "restoreRow"
      /\ UNCHANGED <<order, attempt, books, points, redeemed, earned, captured, world>>
  BY DEF RestoreRow
<1>2. r.op \in Handling \ {"settled"}
  BY <1>1 DEF Handling, Ending
<1>3. o \in Orders /\ OrderOf(w) = o
  BY <1>2, HandlerFacts
<1>4. redeemed[o] \in Nat /\ restored \in [Orders -> Nat] /\ earned \in [Orders -> Nat]
      /\ orphaned \in [Orders -> Nat]
  BY <1>3 DEF IInv, TypeOK
<1>5. Unsaved(r, redeemed) = redeemed[o]
  BY <1>1 DEF Unsaved
<1>6. CASE restored[o] = 0
  <2>1. restored' = [restored EXCEPT ![o] = redeemed[o]] /\ Proceed(w) /\ orphaned' = orphaned
    BY <1>3, <1>6 DEF RestoreRow
  <2>2. r.op \in {"restore", "restoreRow"}
    BY <1>1
  <2>3. notices' \subseteq notices
    BY <2>1, <2>2, ProceedOK
  <2>4. PICK p \in Requests :
          /\ Continue(w, p) /\ p.op \notin Steps /\ p.op # "sale"
          /\ CheckoutOK(p, Present, Used) /\ HandlerOK(p, Present, Sold, Used, Tried)
          /\ Unsaved(p, redeemed) = 0
    BY <2>1, <2>2, ProceedOK
  <2> HIDE DEF r, o
  <2>5. /\ restored' \in [Orders -> Nat] /\ restored'[o] = redeemed[o]
        /\ \A s \in Orders \ {o} : restored'[s] = restored[s]
    BY <1>3, <1>4, <2>1
  <2>6. (orphaned'[o] - orphaned[o]) + (restored'[o] - restored[o]) + (earned'[o] - earned[o])
          + Unsaved(p, redeemed) = Unsaved(r, redeemed)
    <3>1. earned'[o] = earned[o] /\ earned[o] \in Nat
      BY <1>1, <1>3, <1>4
    <3>2. QED
      BY <1>4, <1>5, <1>6, <2>1, <2>4, <2>5, <3>1
  <2>7. \A s \in Orders \ {o} :
          restored'[s] = restored[s] /\ earned'[s] = earned[s] /\ orphaned'[s] = orphaned[s]
    BY <1>1, <2>1, <2>5
  <2>8. earned' \in [Orders -> Nat] /\ orphaned' \in [Orders -> Nat]
    BY <1>1, <1>4, <2>1
  <2>9. QED
    BY <1>1, <1>3, <2>3, <2>4, <2>5, <2>6, <2>7, <2>8, PointsRowStep DEF r
<1>7. CASE restored[o] # 0
  <2>1. restored' = restored /\ notices' = notices /\ orphaned' = [orphaned EXCEPT ![o] = @ + redeemed[o]]
        /\ Continue(w, Idle)
    BY <1>3, <1>7 DEF RestoreRow, Refused
  <2> HIDE DEF r, o
  <2>2. (orphaned'[o] - orphaned[o]) + (restored'[o] - restored[o]) + (earned'[o] - earned[o])
          + Unsaved(Idle, redeemed) = Unsaved(r, redeemed)
    <3>1. /\ earned'[o] = earned[o] /\ earned[o] \in Nat
          /\ restored'[o] = restored[o] /\ restored[o] \in Nat
      BY <1>1, <1>3, <1>4, <2>1
    <3>2. orphaned'[o] = orphaned[o] + redeemed[o] /\ orphaned[o] \in Nat
      BY <1>3, <1>4, <2>1
    <3>3. Unsaved(Idle, redeemed) = 0
      BY IdleUnsaved
    <3>4. QED
      BY <1>4, <1>5, <3>1, <3>2, <3>3
  <2>3. \A s \in Orders \ {o} :
          restored'[s] = restored[s] /\ earned'[s] = earned[s] /\ orphaned'[s] = orphaned[s]
    BY <1>1, <2>1
  <2>4. restored' \in [Orders -> Nat] /\ earned' \in [Orders -> Nat] /\ orphaned' \in [Orders -> Nat]
        /\ notices' \subseteq notices
    <3>1. restored' = restored /\ earned' = earned /\ notices' \subseteq notices
      BY <1>1, <2>1
    <3>2. orphaned[o] + redeemed[o] \in Nat
      BY <1>3, <1>4
    <3>3. orphaned' \in [Orders -> Nat]
      BY <1>3, <1>4, <2>1, <3>2
    <3>4. QED
      BY <1>4, <3>1, <3>3
  <2>5. QED
    BY <1>1, <1>3, <2>1, <2>2, <2>3, <2>4, EndsWithIdle, PointsRowStep DEF r
<1>8. QED
  BY <1>6, <1>7

-----------------------------------------------------------------------------
(***************************************************************************)
(* The invariant, and what it says.                                        *)
(***************************************************************************)
LEMMA InitInv == Init => IInv
<1> SUFFICES ASSUME Init PROVE IInv
  OBVIOUS
<1>1. TypeOK
  <2>1. OpeningPoints \in Nat /\ Opening \in [Branches -> Nat]
    BY AmountsAssumption
  <2>2. /\ order \in [Orders -> Row \cup {NoOrder}]
        /\ attempt \in [Online -> Attempts \cup {NoAttempt}]
        /\ req \in [Workers -> {Idle} \cup Checkingout \cup Working]
    BY DEF Init
  <2>3. /\ stock \in [Branches -> Nat] /\ sales \in [Orders -> Nat]
        /\ posted \in [Orders -> Int] /\ points \in Nat /\ redeemed \in [Orders -> Nat]
        /\ restored \in [Orders -> Nat] /\ earned \in [Orders -> Nat]
        /\ orphaned \in [Orders -> Nat] /\ crashes \in Nat /\ contested \subseteq Orders
    BY <2>1 DEF Init
  <2>4. captured \subseteq Online /\ notices \subseteq Notice /\ aged \in BOOLEAN
    BY DEF Init
  <2>5. QED
    BY <2>2, <2>3, <2>4 DEF TypeOK
<1>2. Present = {} /\ Settled = {} /\ Sold = {} /\ Used = {} /\ Tried = {}
  BY DEF Init, Present, Placed, Settled, Paid, Sold, Used, Tried
<1>3. RequestsOK /\ OneCheckout
  <2>1. \A w \in Workers : req[w] = Idle
    BY DEF Init
  <2>2. QED
    BY <2>1, EndsWithIdle DEF RequestsOK, OneCheckout
<1>4. TablesOK
  <2>1. \A c \in Checkouts : redeemed[Primary(c)] <= Subtotal(c)
    BY LinesFacts, SubtotalPositive DEF Init
  <2>2. notices = {} /\ \A c \in Online : attempt[c].status # "paid"
    BY DEF Init, NoAttempt
  <2>3. QED
    BY <1>2, <2>1, <2>2 DEF TablesOK
<1>5. ShelfOK
  <2> SUFFICES ASSUME NEW b \in Branches
               PROVE  SoldFrom(b) + TakenFrom(b) <= Opening[b] - stock[b]
    BY DEF ShelfOK
  <2>1. SoldFrom(b) = 0
    <3> DEFINE f == [o \in Orders |-> sales[o] * Units[o]]
               A == {o \in Orders : Branch[o] = b}
    <3>1. \A o \in A : f[o] = 0
      BY AmountsAssumption DEF Init
    <3>2. IsFiniteSet(A)
      BY LinesAssumption, FS_Subset
    <3>3. SoldFrom(b) = SumFunctionOnSet(f, A)
      BY DEF SoldFrom
    <3> HIDE DEF f, A
    <3>4. QED
      BY <3>1, <3>2, <3>3, SumZero
  <2>2. TakenFrom(b) = 0
    <3> DEFINE f == [w \in Workers |-> Taken(b, req[w])]
    <3>1. \A w \in Workers : f[w] = 0
      BY DEF Init, Idle, Taken
    <3>2. IsFiniteSet(Workers) /\ TakenFrom(b) = SumFunctionOnSet(f, Workers)
      BY LinesAssumption DEF TakenFrom
    <3> HIDE DEF f
    <3>3. QED
      BY <3>1, <3>2, SumZero
  <2>3. stock[b] = Opening[b] /\ Opening[b] \in Nat
    BY AmountsAssumption DEF Init
  <2>4. QED
    BY <2>1, <2>2, <2>3
<1>6. WalletMatchesLedger
  <2>1. InRows = 0
    <3>1. PICK f : f = RowsOf
      OBVIOUS
    <3>2. \A o \in Orders : f[o] = 0
      BY <3>1 DEF Init, RowsOf
    <3>3. IsFiniteSet(Orders)
      BY LinesAssumption
    <3>4. QED
      BY <3>1, <3>2, <3>3, SumZero DEF InRows
  <2>2. InFlight = 0
    <3> DEFINE f == [w \in Workers |-> Unsaved(req[w], redeemed)]
    <3>1. \A w \in Workers : f[w] = 0
      BY IdleUnsaved DEF Init
    <3>2. IsFiniteSet(Workers) /\ InFlight = SumFunctionOnSet(f, Workers)
      BY LinesAssumption DEF InFlight
    <3> HIDE DEF f
    <3>3. QED
      BY <3>1, <3>2, SumZero
  <2>3. points = OpeningPoints /\ OpeningPoints \in Nat
    BY AmountsAssumption DEF Init
  <2>4. WalletSums
    BY <2>1, <2>2, <2>3 DEF WalletSums
  <2>5. QED
    BY <2>4, WalletIsSums
<1>7. QED
  BY <1>1, <1>3, <1>4, <1>5, <1>6 DEF IInv

LEMMA RequestStep ==
  ASSUME IInv, NEW w \in Workers, Request(w)
  PROVE  IInv'
<1>1. CASE \E c \in Checkouts : StartCheckout(w, c)
  BY <1>1, StartCheckoutStep
<1>2. CASE \E n \in notices : NotifyPaid(w, n) \/ NotifyRefused(w, n) \/ NotifyOther(w, n)
  BY <1>2, NotifyPaidStep, NotifyRefusedStep, NotifyOtherStep
<1>3. CASE \E o \in Orders :
             \/ Fulfill(w, o) \/ CancelByUser(w, o)
             \/ MarkNotCollected(w, o) \/ Expire(w, o)
  BY <1>3, OneOrderHandlersStep
<1>4. QED
  BY <1>1, <1>2, <1>3 DEF Request

LEMMA StatementStep ==
  ASSUME IInv, NEW w \in Workers, Statement(w)
  PROVE  IInv'
BY PlaceOrderStep, RedeemForOrderStep, ApplyRedeemStep, RedeemRowStep, UpdateFinancialsStep,
   CreatePaymentAttemptStep, TakeStockStep, CreateSaleStep, PostEntryStep, MarkPaidStep,
   AttemptPaidStep, AwardStep, AwardRowStep, CompleteStep, EndOrderStep, RestoreStep,
   RestoreRowStep
   DEF Statement

LEMMA Stutter == IInv /\ UNCHANGED vars => IInv'
<1> SUFFICES ASSUME IInv, UNCHANGED vars PROVE IInv'
  OBVIOUS
<1>1. UNCHANGED <<order, attempt, books, wallet, payhere, world, req>>
  BY DEF vars
<1>2. UNCHANGED <<captured, notices, aged, crashes, contested>>
  BY <1>1 DEF payhere, world
<1>3. captured' \subseteq Online /\ aged' \in BOOLEAN /\ notices' \subseteq Notice
      /\ \A n \in notices' : n.c \in Tried
  BY <1>2 DEF IInv, TypeOK, TablesOK
<1>4. QED
  BY <1>1, <1>2, <1>3, OutsideStep

LEMMA NextInv == IInv /\ [Next]_vars => IInv'
<1> SUFFICES ASSUME IInv, [Next]_vars PROVE IInv'
  OBVIOUS
<1>1. CASE PayHere
  BY <1>1, PayHereStep
<1>2. CASE Age
  BY <1>2, AgeStep
<1>3. CASE \E w \in Workers : Request(w) \/ Statement(w) \/ Crash(w)
  BY <1>3, RequestStep, StatementStep, CrashStep
<1>4. CASE UNCHANGED vars
  BY <1>4, Stutter
<1>5. QED
  BY <1>1, <1>2, <1>3, <1>4 DEF Next

LEMMA Invariance == Spec => []IInv
BY InitInv, NextInv, PTL DEF Spec

\* Whatever requests overlap, fail or die, rows have their types, and neither
\* a shelf nor the wallet is ever negative, although a balance is checked some
\* statements before it is debited (loyalty.service.ts, stock decrement of
\* createPaidTransactionForOrder).
THEOREM TypeCorrect == Spec => []TypeOK
<1>1. IInv => TypeOK
  BY DEF IInv
<1>2. QED
  BY <1>1, Invariance, PTL

\* The units of a branch's order sales have left its shelf, whatever handlers
\* overlap, find it short, or die between the decrement and the sale.
THEOREM SalesAlwaysBacked == Spec => []SalesAreBacked
<1>1. IInv => SalesAreBacked
  <2> SUFFICES ASSUME IInv, NEW b \in Branches
               PROVE  SoldFrom(b) <= Opening[b] - stock[b]
    BY DEF SalesAreBacked, SoldFrom
  <2>1. SoldFrom(b) + TakenFrom(b) <= Opening[b] - stock[b]
    BY DEF IInv, ShelfOK
  <2>2. TakenFrom(b) \in Nat
    <3> DEFINE f == [w \in Workers |-> Taken(b, req[w])]
    <3>1. \A w \in Workers : f[w] \in Nat
      BY RequestFacts, TakenNat
    <3>2. IsFiniteSet(Workers) /\ TakenFrom(b) = SumFunctionOnSet(f, Workers)
      BY LinesAssumption DEF TakenFrom
    <3> HIDE DEF f
    <3>3. QED
      BY <3>1, <3>2, SumNat
  <2>3. SoldFrom(b) \in Int /\ Opening[b] \in Nat /\ stock[b] \in Nat
    BY SoldInt, AmountsAssumption DEF IInv, TypeOK
  <2>4. QED
    BY <2>1, <2>2, <2>3
<1>2. QED
  BY <1>1, Invariance, PTL

\* A payment attempt is PAID only when every order of its checkout has its
\* sale, also when the handlers of several notices settle parts of the group
\* and some fail half way (handlePaidNotify).
THEOREM PaidAttemptsAreSettled == Spec => []PaidAttemptIsSettled
<1>1. IInv => PaidAttemptIsSettled
  <2> SUFFICES ASSUME IInv, NEW c \in Online, attempt[c].status = "paid",
                      NEW o \in OrdersOf(c)
               PROVE  sales[o] > 0
    BY DEF PaidAttemptIsSettled
  <2>1. QED
    BY DEF IInv, TablesOK, Sold
<1>2. QED
  BY <1>1, Invariance, PTL

\* While no request dies, the wallet is what its ledger rows say, but for the
\* rows still to come or refused: overlapping redemptions, awards and reversals
\* lose no update of each other's.
THEOREM WalletAlwaysMatchesLedger == Spec => []WalletMatchesLedger
<1>1. IInv => WalletMatchesLedger
  BY DEF IInv
<1>2. QED
  BY <1>1, Invariance, PTL

-----------------------------------------------------------------------------
(***************************************************************************)
(* What a request knows of an order that only it is at work on: the row it *)
(* has read is still that of the table, and what it has not come to is as  *)
(* it found it.  Of the contested orders nothing is said.                  *)
(***************************************************************************)
Unpaid == {"stock", "sale", "entry", "markPaid"}
HandingOver == {"award", "awardRow", "complete"}

\* The orders a checkout has still to place are not there.  An order being sold
\* is unpaid and has the status that was read, an order being handed over is
\* open, and an order being ended is not yet collected and keeps its payment.
KnowsOK(r, now, awarded, returned, spoilt) ==
  /\ r.op = "place" =>
       \A i \in r.i .. Len(Lines[r.c]) : Lines[r.c][i] \in spoilt \/ now[Lines[r.c][i]] = NoOrder
  /\ r.op \in Unpaid =>
       \A o \in r.rest \ spoilt :
         /\ now[o].pay # "paid" /\ now[o].status = r.rows[o].status
         /\ PrePaid(o) <=> r.notice # None
         /\ r.notice = None => now[o].status = "pending"
  /\ r.op \in HandingOver =>
       \A o \in r.rest \ spoilt :
         now[o].status = "pending" /\ (PrePaid(o) <=> now[o].pay = "paid")
  /\ r.op \in Ending =>
       \A o \in r.rest \ spoilt : o # At(r) \/ r.op = "end" =>
         /\ now[o].status # "completed"
         /\ r.to.pay = "kept" \/ (r.to.pay = "paid" <=> now[o].pay = "paid")
  /\ r.op = "awardRow" => At(r) \in spoilt \/ awarded[At(r)] = 0
  /\ r.op = "restoreRow" => At(r) \in spoilt \/ returned[At(r)] = 0

\* What is collected is paid; what its customer pays at the counter is paid
\* only as it is collected.
RowOK(o, row) ==
  /\ row.status = "completed" => row.pay = "paid"
  /\ row.status = "pending" /\ row.pay = "paid" => PrePaid(o)

SoldBy(o, r) == r.op \in Selling /\ At(r) = o

\* An order is sold once, and is then paid for or about to be.
SoldOnce(o) ==
  sales[o] <= 1 /\ (sales[o] > 0 => Paid(o) \/ \E w \in Workers : SoldBy(o, req[w]))

Known ==
  /\ \A v, w \in Workers : v # w => AtWork(req[v]) \cap AtWork(req[w]) \subseteq contested
  /\ \A w \in Workers : KnowsOK(req[w], order, earned, restored, contested)
  /\ \A o \in Present \ contested : RowOK(o, order[o])
  /\ \A o \in Orders \ contested : orphaned[o] = 0
  /\ crashes = 0 => \A o \in Orders \ contested : SoldOnce(o)

LEMMA PrePaidOrders ==
  ASSUME NEW c \in Checkouts, NEW o \in OrdersOf(c)
  PROVE  Checkout(o) = c /\ (PrePaid(o) <=> c \in Online)
<1>1. \E d \in Checkouts : o \in OrdersOf(d)
  OBVIOUS
<1>2. Checkout(o) \in Checkouts /\ o \in OrdersOf(Checkout(o))
  BY <1>1 DEF Checkout
<1>3. Checkout(o) = c
  BY <1>2, OrdersApart
<1>4. QED
  BY <1>3 DEF PrePaid

LEMMA IdleKnows ==
  \A now, awarded, returned, spoilt : KnowsOK(Idle, now, awarded, returned, spoilt)
BY DEF KnowsOK, Idle, Unpaid, HandingOver, Ending

LEMMA IdleSells == \A o : ~SoldBy(o, Idle)
BY DEF SoldBy, Idle, Selling

LEMMA AtWorkIs ==
  ASSUME NEW r
  PROVE  /\ r.op \in Steps => AtWork(r) = OrdersOf(r.c)
         /\ r.op \in Handling => AtWork(r) = r.rest
         /\ r = Idle => AtWork(r) = {}
<1>1. CASE r.op \in Steps
  <2>1. r.op # "idle" /\ r.op \in CheckoutSteps /\ r.op \notin Handling
    BY <1>1 DEF Steps, CheckoutSteps, Handling, Settling, Selling, Ending
  <2>2. r # Idle
    BY <2>1 DEF Idle
  <2>3. QED
    BY <2>1, <2>2 DEF AtWork
<1>2. CASE r.op \in Handling
  <2>1. r.op # "idle" /\ r.op \notin CheckoutSteps /\ r.op \notin Steps
    BY <1>2 DEF Steps, CheckoutSteps, Handling, Settling, Selling, Ending
  <2>2. r # Idle
    BY <2>1 DEF Idle
  <2>3. QED
    BY <2>1, <2>2 DEF AtWork
<1>3. CASE r.op \notin Steps /\ r.op \notin Handling
  <2>1. r = Idle => r.op = "idle" /\ r.op \notin CheckoutSteps
    BY DEF Idle, CheckoutSteps
  <2>2. r = Idle => AtWork(r) = {}
    BY <2>1 DEF AtWork
  <2>3. QED
    BY <1>3, <2>2
<1>4. QED
  BY <1>1, <1>2, <1>3

\* The order that a handler sells is one it is at work on.
LEMMA SellsItsOwn ==
  ASSUME IInv, NEW w \in Workers, NEW o, SoldBy(o, req[w])
  PROVE  o \in AtWork(req[w])
<1>1. req[w].op \in Handling \ {"settled"} /\ At(req[w]) = o
  BY DEF SoldBy, Selling, Handling
<1>2. QED
  BY <1>1, HandlerFacts, AtWorkIs

\* What a request knows stays so while the others write their own orders.
LEMMA OthersKnow ==
  ASSUME IInv, NEW v \in Workers, KnowsOK(req[v], order, earned, restored, contested),
         NEW theirs, AtWork(req[v]) \cap theirs \subseteq contested,
         NEW now1, NEW awarded1, NEW returned1,
         \A o \in Orders \ theirs :
           now1[o] = order[o] /\ awarded1[o] = earned[o] /\ returned1[o] = restored[o]
  PROVE  KnowsOK(req[v], now1, awarded1, returned1, contested)
<1> DEFINE r == req[v]
<1>1. ASSUME r.op = "place", NEW i \in r.i .. Len(Lines[r.c])
      PROVE  Lines[r.c][i] \in contested \/ now1[Lines[r.c][i]] = NoOrder
  <2>1. r.op \in Steps
    BY <1>1 DEF Steps
  <2>2. r \in Checkingout /\ r.c \in Checkouts /\ r.i \in 1 .. Len(Lines[r.c])
    BY <2>1, RequestFacts, CheckingoutFields DEF CheckoutOK
  <2>3. i \in 1 .. Len(Lines[r.c])
    BY <1>1, <2>2, LinesFacts
  <2>4. Lines[r.c][i] \in OrdersOf(r.c) /\ Lines[r.c][i] \in Orders
    BY <2>2, <2>3, LinesFacts
  <2>5. Lines[r.c][i] \in AtWork(r)
    BY <2>1, <2>4, AtWorkIs
  <2>6. Lines[r.c][i] \in contested \/ order[Lines[r.c][i]] = NoOrder
    BY <1>1 DEF KnowsOK
  <2>7. QED
    BY <2>4, <2>5, <2>6
<1>2. ASSUME r.op \in Handling \ {"settled"}
      PROVE  /\ At(r) \in r.rest /\ r.rest \subseteq Orders
             /\ \A o \in r.rest \ contested :
                  now1[o] = order[o] /\ awarded1[o] = earned[o] /\ returned1[o] = restored[o]
  <2>1. At(r) \in r.rest /\ r.rest \subseteq Orders /\ AtWork(r) = r.rest
    BY <1>2, HandlerFacts, AtWorkIs
  <2>2. QED
    BY <2>1
<1>3. Unpaid \cup HandingOver \cup Ending \subseteq Handling \ {"settled"}
      /\ {"awardRow", "restoreRow"} \subseteq Handling \ {"settled"}
  BY DEF Unpaid, HandingOver, Ending, Handling, Settling, Selling
<1> HIDE DEF r
<1>4. KnowsOK(r, order, earned, restored, contested)
  BY DEF r
<1>5. r.op \in Unpaid =>
       \A o \in r.rest \ contested :
         /\ now1[o].pay # "paid" /\ now1[o].status = r.rows[o].status
         /\ PrePaid(o) <=> r.notice # None
         /\ r.notice = None => now1[o].status = "pending"
  BY <1>2, <1>3, <1>4 DEF KnowsOK
<1>6. r.op \in HandingOver =>
       \A o \in r.rest \ contested :
         now1[o].status = "pending" /\ (PrePaid(o) <=> now1[o].pay = "paid")
  BY <1>2, <1>3, <1>4 DEF KnowsOK
<1>7. r.op \in Ending =>
       \A o \in r.rest \ contested : o # At(r) \/ r.op = "end" =>
         /\ now1[o].status # "completed"
         /\ r.to.pay = "kept" \/ (r.to.pay = "paid" <=> now1[o].pay = "paid")
  BY <1>2, <1>3, <1>4 DEF KnowsOK
<1>8. r.op = "awardRow" => At(r) \in contested \/ awarded1[At(r)] = 0
  BY <1>2, <1>3, <1>4 DEF KnowsOK
<1>9. r.op = "restoreRow" => At(r) \in contested \/ returned1[At(r)] = 0
  BY <1>2, <1>3, <1>4 DEF KnowsOK
<1>10. KnowsOK(r, now1, awarded1, returned1, contested)
  BY <1>1, <1>5, <1>6, <1>7, <1>8, <1>9 DEF KnowsOK
<1>11. QED
  BY <1>10 DEF r

LEMMA KnowsLess ==
  ASSUME NEW r, NEW now, NEW awarded, NEW returned, NEW spoilt,
         KnowsOK(r, now, awarded, returned, spoilt), NEW more, spoilt \subseteq more
  PROVE  KnowsOK(r, now, awarded, returned, more)
BY DEF KnowsOK

\* The customer's view of an order does not change.
SameView == UNCHANGED <<[o \in Orders |-> Phase(o)], {o \in Orders : Paid(o)}>>

LEMMA ViewKept ==
  ASSUME UNCHANGED order
  PROVE  /\ SameView /\ Present' = Present
         /\ \A o \in Orders : Paid(o)' = Paid(o)
BY DEF SameView, Phase, Paid, Placed, Present

\* A step of a request writes its own orders and begins none.
LEMMA KnownMoves ==
  ASSUME IInv, Known, NEW w \in Workers, NEW q, Continue(w, q), UNCHANGED contested,
         AtWork(q) \subseteq AtWork(req[w]),
         KnowsOK(q, order', earned', restored', contested),
         \A o \in Orders \ AtWork(req[w]) :
           /\ order'[o] = order[o] /\ sales'[o] = sales[o]
           /\ earned'[o] = earned[o] /\ restored'[o] = restored[o],
         \A o \in Present' \ contested : RowOK(o, order'[o]),
         \A o \in Orders \ contested : orphaned'[o] = 0,
         crashes' = 0 => crashes = 0,
         crashes' = 0 => \A o \in AtWork(req[w]) \ contested :
           /\ sales'[o] <= 1
           /\ sales'[o] > 0 => Paid(o)' \/ SoldBy(o, q)
  PROVE  Known'
<1>1. req'[w] = q /\ \A v \in Workers \ {w} : req'[v] = req[v]
  BY DEF IInv, TypeOK, Continue
<1>2. ASSUME NEW u \in Workers, NEW v \in Workers, u # v
      PROVE  AtWork(req'[u]) \cap AtWork(req'[v]) \subseteq contested
  <2>1. AtWork(req'[u]) \subseteq AtWork(req[u]) /\ AtWork(req'[v]) \subseteq AtWork(req[v])
    BY <1>1
  <2>2. AtWork(req[u]) \cap AtWork(req[v]) \subseteq contested
    BY <1>2 DEF Known
  <2>3. QED
    BY <2>1, <2>2
<1>3. ASSUME NEW v \in Workers
      PROVE  KnowsOK(req'[v], order', earned', restored', contested)
  <2>1. CASE v = w
    BY <1>1, <2>1
  <2>2. CASE v # w
    <3>1. KnowsOK(req[v], order, earned, restored, contested)
          /\ AtWork(req[v]) \cap AtWork(req[w]) \subseteq contested
      BY <2>2 DEF Known
    <3> DEFINE theirs == AtWork(req[w])
    <3>2. /\ AtWork(req[v]) \cap theirs \subseteq contested
          /\ \A o \in Orders \ theirs :
               order'[o] = order[o] /\ earned'[o] = earned[o] /\ restored'[o] = restored[o]
      BY <3>1
    <3> HIDE DEF theirs
    <3>4. ASSUME NEW now1, NEW awarded1, NEW returned1,
                 \A o \in Orders \ theirs :
                   now1[o] = order[o] /\ awarded1[o] = earned[o] /\ returned1[o] = restored[o]
          PROVE  KnowsOK(req[v], now1, awarded1, returned1, contested)
      BY <3>1, <3>2, <3>4, OthersKnow
    <3>5. \A now1, awarded1, returned1 :
            (\A o \in Orders \ theirs :
               now1[o] = order[o] /\ awarded1[o] = earned[o] /\ returned1[o] = restored[o])
            => KnowsOK(req[v], now1, awarded1, returned1, contested)
      BY <3>4
    <3>6. KnowsOK(req[v], order', earned', restored', contested)
      BY <3>2, <3>5
    <3>7. QED
      BY <1>1, <2>2, <3>6
  <2>3. QED
    BY <2>1, <2>2
<1>4. ASSUME crashes' = 0, NEW o \in Orders \ contested
      PROVE  SoldOnce(o)'
  <2>1. CASE o \in AtWork(req[w])
    BY <1>1, <1>4, <2>1 DEF SoldOnce
  <2>2. CASE o \notin AtWork(req[w])
    <3>1. SoldOnce(o) /\ sales'[o] = sales[o] /\ order'[o] = order[o]
      BY <1>4, <2>2 DEF Known
    <3>2. Paid(o)' = Paid(o)
      BY <3>1 DEF Paid, Placed
    <3>3. \A v \in Workers : SoldBy(o, req[v]) => v # w
      BY <2>2, SellsItsOwn
    <3>4. \A v \in Workers : SoldBy(o, req[v]) => SoldBy(o, req'[v])
      BY <1>1, <3>3
    <3>5. QED
      BY <3>1, <3>2, <3>4 DEF SoldOnce
  <2>3. QED
    BY <2>1, <2>2
<1>5. \A u, v \in Workers : u # v => AtWork(req'[u]) \cap AtWork(req'[v]) \subseteq contested'
  BY <1>2
<1>6. \A v \in Workers : KnowsOK(req'[v], order', earned', restored', contested')
  BY <1>3
<1>7. crashes' = 0 => \A o \in Orders \ contested' : SoldOnce(o)'
  BY <1>4
<1>8. QED
  BY <1>5, <1>6, <1>7 DEF Known

\* A step that writes no order.
LEMMA KnownStep ==
  ASSUME IInv, Known, NEW w \in Workers, NEW q, Continue(w, q),
         UNCHANGED <<order, contested>>, AtWork(q) \subseteq AtWork(req[w]),
         KnowsOK(q, order, earned', restored', contested),
         \A o \in Orders \ AtWork(req[w]) :
           sales'[o] = sales[o] /\ earned'[o] = earned[o] /\ restored'[o] = restored[o],
         \A o \in Orders \ contested : orphaned'[o] = orphaned[o],
         crashes' = 0 => crashes = 0,
         crashes' = 0 => \A o \in AtWork(req[w]) \ contested :
           /\ sales'[o] <= 1
           /\ sales'[o] > 0 => Paid(o) \/ SoldBy(o, q)
  PROVE  Known'
<1>1. AtWork(req[w]) \subseteq Orders
  BY RequestFacts, AtWorkOrders
<1>2. \A o \in Present' \ contested : RowOK(o, order'[o])
  BY ViewKept DEF Known
<1>3. \A o \in Orders \ contested : orphaned'[o] = 0
  BY DEF Known
<1>4. crashes' = 0 => \A o \in AtWork(req[w]) \ contested :
        /\ sales'[o] <= 1
        /\ sales'[o] > 0 => Paid(o)' \/ SoldBy(o, q)
  BY <1>1, ViewKept
<1>5. /\ KnowsOK(q, order', earned', restored', contested) /\ contested' = contested
      /\ \A o \in Orders \ AtWork(req[w]) :
           /\ order'[o] = order[o] /\ sales'[o] = sales[o]
           /\ earned'[o] = earned[o] /\ restored'[o] = restored[o]
  OBVIOUS
<1>6. QED
  BY <1>2, <1>3, <1>4, <1>5, KnownMoves

\* An order that only one request is at work on is sold by no other.
LEMMA NoOtherSells ==
  ASSUME IInv, Known, NEW w \in Workers, NEW o \in AtWork(req[w]) \ contested,
         NEW v \in Workers, SoldBy(o, req[v])
  PROVE  v = w
<1>1. o \in AtWork(req[v])
  BY SellsItsOwn
<1>2. QED
  BY <1>1 DEF Known

\* One that makes no sale and leaves off none.
LEMMA KnownKeeps ==
  ASSUME IInv, Known, NEW w \in Workers, NEW q, Continue(w, q),
         UNCHANGED <<order, sales, contested>>, AtWork(q) \subseteq AtWork(req[w]),
         KnowsOK(q, order, earned', restored', contested),
         \A o \in Orders \ AtWork(req[w]) : earned'[o] = earned[o] /\ restored'[o] = restored[o],
         \A o \in Orders \ contested : orphaned'[o] = orphaned[o],
         crashes' = 0 => crashes = 0,
         req[w].op \in Selling =>
           \/ crashes' # 0 \/ At(req[w]) \in contested
           \/ q.op \in Selling /\ At(q) = At(req[w])
  PROVE  Known'
<1>1. ASSUME crashes' = 0, NEW o \in AtWork(req[w]) \ contested
      PROVE  sales'[o] <= 1 /\ (sales'[o] > 0 => Paid(o) \/ SoldBy(o, q))
  <2>1. o \in Orders
    BY RequestFacts, AtWorkOrders
  <2>2. SoldOnce(o)
    BY <1>1, <2>1 DEF Known
  <2>3. \A v \in Workers : SoldBy(o, req[v]) => SoldBy(o, req[w])
    BY NoOtherSells
  <2>4. SoldBy(o, req[w]) => SoldBy(o, q)
    BY <1>1 DEF SoldBy
  <2>5. QED
    BY <2>2, <2>3, <2>4 DEF SoldOnce
<1>2. /\ UNCHANGED <<order, contested>>
      /\ \A o \in Orders \ AtWork(req[w]) :
           sales'[o] = sales[o] /\ earned'[o] = earned[o] /\ restored'[o] = restored[o]
  OBVIOUS
<1>3. crashes' = 0 => \A o \in AtWork(req[w]) \ contested :
        /\ sales'[o] <= 1
        /\ sales'[o] > 0 => Paid(o) \/ SoldBy(o, q)
  BY <1>1
<1>4. QED
  BY <1>2, <1>3, KnownStep

\* What a request may make of an order, to its customer's eyes: nothing, or
\* place it, pay for it, hand it over or end it.
Progress(old, row) ==
  \/ /\ row.pay = "paid" <=> old.pay = "paid"
     /\ row.status = old.status \/ {row.status, old.status} \subseteq Ended
  \/ old.pay # "paid" /\ row.pay = "paid" /\ row.status = old.status
  \/ old.status = "pending" /\ row.status = "completed" /\ row.pay = "paid"
  \/ old.status = "pending" /\ row.status \in Ended /\ (row.pay = "paid" <=> old.pay = "paid")

Opens(old, row) == old = NoOrder /\ row.status = "pending" /\ row.pay # "paid"

Moves(o, old, row) ==
  Opens(old, row) \/ (old # NoOrder /\ Progress(old, row)) \/ o \in contested

PhaseOf(row) ==
  IF row.status \in Ended THEN "ended"
  ELSE IF row.status = "completed" THEN "collected"
  ELSE IF row.status = "pending" THEN "open" ELSE "none"

PickupStep == [Pickup!Next]_(Pickup!vars)

LEMMA OrderProgress ==
  ASSUME TypeOK, NEW o \in Orders, NEW row \in Row, order' = [order EXCEPT ![o] = row],
         Moves(o, order[o], row), UNCHANGED contested
  PROVE  PickupStep
<1> DEFINE phase == [p \in Orders |-> Phase(p)]
           paid == {p \in Orders : Paid(p)}
           next == [p \in Orders |-> PhaseOf(order'[p])]
           after == {p \in Orders : order'[p] # NoOrder /\ order'[p].pay = "paid"}
<1>1. order'[o] = row /\ \A p \in Orders \ {o} : order'[p] = order[p]
  BY DEF TypeOK
<1>2. \A p \in Orders : phase[p] = PhaseOf(order[p])
  BY DEF Phase, PhaseOf
<1>3. next = [phase EXCEPT ![o] = PhaseOf(row)]
  <2>1. \A p \in Orders : PhaseOf(order'[p]) = IF p = o THEN PhaseOf(row) ELSE phase[p]
    BY <1>1, <1>2
  <2> HIDE DEF phase
  <2>2. DOMAIN phase = Orders
    BY DEF phase
  <2>3. next = [p \in Orders |-> IF p = o THEN PhaseOf(row) ELSE phase[p]]
    BY <2>1
  <2>4. QED
    BY <2>2, <2>3
<1>4. row # NoOrder
  BY DEF Row, NoOrder, Ended
<1>5. after = IF row.pay = "paid" THEN paid \cup {o} ELSE paid \ {o}
  BY <1>1, <1>4 DEF Paid, Placed
<1>6. [p \in Orders |-> Phase(p)]' = next /\ {p \in Orders : Paid(p)}' = after
  BY DEF Phase, PhaseOf, Paid, Placed
<1>7. phase \in [Orders -> {"none", "open", "collected", "ended"}] /\ phase[o] = PhaseOf(order[o])
      /\ (o \in paid <=> order[o] # NoOrder /\ order[o].pay = "paid")
  BY <1>2 DEF Phase, PhaseOf, Paid, Placed
<1>8. "completed" \notin Ended /\ "pending" \notin Ended /\ "none" \notin Ended
      /\ NoOrder.status = "none"
  BY DEF Ended, NoOrder
<1>9. paid \subseteq Orders
  OBVIOUS
<1>10. \/ \E p \in Orders :
            \/ phase[p] = "none" /\ next = [phase EXCEPT ![p] = "open"] /\ after = paid
            \/ phase[p] # "none" /\ p \notin paid /\ after = paid \cup {p} /\ next = phase
            \/ /\ phase[p] = "open" /\ next = [phase EXCEPT ![p] = "collected"]
               /\ p \in paid /\ after = paid
            \/ /\ phase[p] = "open" /\ next = [phase EXCEPT ![p] = "collected"]
               /\ p \notin paid /\ after = paid \cup {p}
            \/ phase[p] = "open" /\ next = [phase EXCEPT ![p] = "ended"] /\ after = paid
       => Pickup!Next
  BY <1>6 DEF Pickup!Next, Pickup!Place, Pickup!Pay, Pickup!Collect, Pickup!PayAndCollect,
              Pickup!End, Pickup!Move
<1>11. next = phase /\ after = paid => PickupStep
  BY <1>6 DEF PickupStep, Pickup!vars
<1> HIDE DEF phase, paid, next, after
<1>12. CASE Opens(order[o], row)
  BY <1>3, <1>5, <1>7, <1>8, <1>9, <1>10, <1>12 DEF Opens, PhaseOf, PickupStep
<1>13. CASE order[o] # NoOrder /\ Progress(order[o], row)
  <2>1. order[o] \in Row /\ order[o] # NoOrder
    BY <1>13 DEF TypeOK
  <2>2. PhaseOf(order[o]) # "none"
    BY <2>1 DEF PhaseOf, Row
  <2>3. CASE /\ row.pay = "paid" <=> order[o].pay = "paid"
             /\ row.status = order[o].status \/ {row.status, order[o].status} \subseteq Ended
    <3>1. PhaseOf(row) = PhaseOf(order[o])
      BY <2>3 DEF PhaseOf
    <3>2. next = phase /\ after = paid
      BY <1>3, <1>5, <1>7, <1>9, <2>1, <2>3, <3>1
    <3>3. QED
      BY <1>11, <3>2
  <2>4. CASE order[o].pay # "paid" /\ row.pay = "paid" /\ row.status = order[o].status
    <3>1. PhaseOf(row) = PhaseOf(order[o])
      BY <2>4 DEF PhaseOf
    <3>2. next = phase /\ after = paid \cup {o} /\ o \notin paid
      BY <1>3, <1>5, <1>7, <2>4, <3>1
    <3>3. QED
      BY <1>7, <1>10, <2>2, <3>2 DEF PickupStep
  <2>5. CASE order[o].status = "pending" /\ row.status = "completed" /\ row.pay = "paid"
    <3>1. phase[o] = "open" /\ PhaseOf(row) = "collected" /\ after = paid \cup {o}
      BY <1>5, <1>7, <1>8, <2>5 DEF PhaseOf
    <3>2. o \in paid \/ o \notin paid
      OBVIOUS
    <3>3. o \in paid => after = paid
      BY <3>1
    <3>4. QED
      BY <1>3, <1>10, <3>1, <3>2, <3>3 DEF PickupStep
  <2>6. CASE /\ order[o].status = "pending" /\ row.status \in Ended
             /\ row.pay = "paid" <=> order[o].pay = "paid"
    <3>1. phase[o] = "open" /\ PhaseOf(row) = "ended" /\ after = paid
      BY <1>5, <1>7, <1>8, <1>9, <2>1, <2>6 DEF PhaseOf
    <3>2. QED
      BY <1>3, <1>10, <3>1 DEF PickupStep
  <2>7. QED
    BY <1>13, <2>3, <2>4, <2>5, <2>6 DEF Progress
<1>14. CASE o \in contested
  <2>1. PhaseOf(row) \in {"none", "open", "collected", "ended"}
    BY DEF PhaseOf
  <2>2. after \ {o} = paid \ {o}
    BY <1>5
  <2>3. Pickup!GoAstray(o)
    BY <1>3, <1>6, <1>14, <2>1, <2>2 DEF Pickup!GoAstray, Pickup!Phases, phase, paid
  <2>4. QED
    BY <2>3 DEF PickupStep, Pickup!Next
<1>15. QED
  BY <1>12, <1>13, <1>14 DEF Moves

LEMMA ViewStutters == SameView /\ UNCHANGED contested => PickupStep
BY DEF SameView, PickupStep, Pickup!vars

\* A step that writes one order.
LEMMA KnownWrites ==
  ASSUME IInv, Known, NEW w \in Workers, NEW q, Continue(w, q),
         UNCHANGED contested, AtWork(q) \subseteq AtWork(req[w]),
         NEW o \in AtWork(req[w]), NEW row \in Row, order' = [order EXCEPT ![o] = row],
         Moves(o, order[o], row), o \notin contested => RowOK(o, row),
         UNCHANGED <<sales, earned, restored, orphaned, crashes>>,
         KnowsOK(q, order', earned', restored', contested),
         req[w].op \in Selling => At(req[w]) = o /\ (o \in contested \/ row.pay = "paid")
  PROVE  Known' /\ PickupStep
<1>1. AtWork(req[w]) \subseteq Orders /\ o \in Orders
  BY RequestFacts, AtWorkOrders
<1>2. order'[o] = row /\ \A p \in Orders \ {o} : order'[p] = order[p]
  BY <1>1 DEF IInv, TypeOK
<1>3. \A p \in Present' \ contested : RowOK(p, order'[p])
  BY <1>2 DEF Known, Present, Placed
<1>4. row # NoOrder
  BY DEF Row, NoOrder, Ended
<1>5. \A p \in Orders \ contested : Paid(p) => Paid(p)'
  <2>1. o \notin contested /\ Paid(o) => row.pay = "paid"
    BY DEF Paid, Placed, Moves, Progress, Opens
  <2>2. QED
    BY <1>2, <1>4, <2>1 DEF Paid, Placed
<1>6. ASSUME crashes' = 0, NEW p \in AtWork(req[w]) \ contested
      PROVE  sales'[p] <= 1 /\ (sales'[p] > 0 => Paid(p)' \/ SoldBy(p, q))
  <2>1. SoldOnce(p) /\ p \in Orders
    BY <1>1, <1>6 DEF Known
  <2>2. \A v \in Workers : SoldBy(p, req[v]) => SoldBy(p, req[w])
    BY NoOtherSells
  <2>3. SoldBy(p, req[w]) => Paid(p)'
    BY <1>1, <1>2, <1>4, <1>6 DEF SoldBy, Paid, Placed
  <2>4. QED
    BY <1>5, <2>1, <2>2, <2>3 DEF SoldOnce
<1>7. /\ \A p \in Orders \ AtWork(req[w]) :
           /\ order'[p] = order[p] /\ sales'[p] = sales[p]
           /\ earned'[p] = earned[p] /\ restored'[p] = restored[p]
      /\ \A p \in Orders \ contested : orphaned'[p] = 0
      /\ contested' = contested
  BY <1>2 DEF Known
<1>8. crashes' = 0 => \A p \in AtWork(req[w]) \ contested :
        /\ sales'[p] <= 1
        /\ sales'[p] > 0 => Paid(p)' \/ SoldBy(p, q)
  BY <1>6
<1>9. Known'
  BY <1>3, <1>7, <1>8, KnownMoves
<1>10. QED
  BY <1>1, <1>9, OrderProgress DEF IInv

-----------------------------------------------------------------------------
(***************************************************************************)
(* Requests that begin.                                                    *)
(***************************************************************************)
LEMMA KnownBegins ==
  ASSUME IInv, Known, NEW w \in Workers, NEW q \in Requests, Begin(w, q),
         UNCHANGED <<order, sales, earned, restored, orphaned, crashes>>,
         KnowsOK(q, order, earned, restored, contested)
  PROVE  Known' /\ PickupStep
<1>1. /\ req[w] = Idle /\ req'[w] = q /\ \A v \in Workers \ {w} : req'[v] = req[v]
      /\ contested' \subseteq Orders
  BY BeginIsContinue DEF IInv, TypeOK, Continue
<1> DEFINE others == UNION {AtWork(req[v]) : v \in Workers}
<1>2. contested' = contested \cup (AtWork(q) \cap others)
  BY DEF Begin
<1>3. \A v \in Workers : AtWork(req[v]) \subseteq others
  OBVIOUS
<1> HIDE DEF others
<1>4. contested \subseteq contested'
  BY <1>2
<1>5. ASSUME NEW u \in Workers, NEW v \in Workers, u # v
      PROVE  AtWork(req'[u]) \cap AtWork(req'[v]) \subseteq contested'
  <2>1. CASE u = w
    BY <1>1, <1>2, <1>3, <1>5, <2>1
  <2>2. CASE v = w
    BY <1>1, <1>2, <1>3, <1>5, <2>2
  <2>3. CASE u # w /\ v # w
    <3>1. AtWork(req[u]) \cap AtWork(req[v]) \subseteq contested
      BY <1>5 DEF Known
    <3>2. QED
      BY <1>1, <1>4, <2>3, <3>1
  <2>4. QED
    BY <2>1, <2>2, <2>3
<1>6. ASSUME NEW v \in Workers
      PROVE  KnowsOK(req'[v], order', earned', restored', contested')
  <2>1. KnowsOK(req'[v], order, earned, restored, contested)
    BY <1>1 DEF Known
  <2>2. \A more : contested \subseteq more => KnowsOK(req'[v], order, earned, restored, more)
    BY <2>1, KnowsLess
  <2>3. KnowsOK(req'[v], order, earned, restored, contested')
    BY <1>4, <2>2
  <2>4. QED
    BY <2>3
<1>7. \A o \in Present' \ contested' : RowOK(o, order'[o])
  BY <1>4, ViewKept DEF Known
<1>8. \A o \in Orders \ contested' : orphaned'[o] = 0
  BY <1>4 DEF Known
<1>9. ASSUME crashes' = 0, NEW o \in Orders \ contested'
      PROVE  SoldOnce(o)'
  <2>1. SoldOnce(o)
    BY <1>4, <1>9 DEF Known
  <2>2. \A v \in Workers : SoldBy(o, req[v]) => SoldBy(o, req'[v])
    BY <1>1, IdleSells
  <2>3. QED
    BY <2>1, <2>2, ViewKept DEF SoldOnce
<1>10. Known'
  BY <1>5, <1>6, <1>7, <1>8, <1>9 DEF Known
<1>11. \E S \in SUBSET Orders : contested' = contested \cup S
  <2>1. contested' \in SUBSET Orders /\ contested' = contested \cup contested'
    BY <1>1, <1>4
  <2>2. QED
    BY <2>1
<1>12. SameView
  BY ViewKept
<1>13. \E S \in SUBSET Orders : Pickup!Dispute(S)
  BY <1>11, <1>12 DEF SameView, Pickup!Dispute
<1>14. PickupStep
  BY <1>13 DEF PickupStep, Pickup!Next
<1>15. QED
  BY <1>10, <1>14

LEMMA StartCheckoutKnown ==
  ASSUME IInv, Known, NEW w \in Workers, NEW c \in Checkouts, StartCheckout(w, c)
  PROVE  Known' /\ PickupStep
<1> DEFINE q == [op |-> "place", c |-> c, i |-> 1]
<1>1. \A i \in 1 .. Len(Lines[c]) : order[Lines[c][i]] = NoOrder
  BY LinesFacts DEF StartCheckout, Placed
<1>2. q.op = "place" /\ q.c = c /\ q.i = 1 /\ q \in Requests
  BY DEF Requests, Checkingout, CheckoutSteps
<1>3. Begin(w, q) /\ UNCHANGED <<order, sales, earned, restored, orphaned, crashes>>
  BY DEF StartCheckout, books, wallet, world
<1> HIDE DEF q
<1>4. KnowsOK(q, order, earned, restored, contested)
  BY <1>1, <1>2 DEF KnowsOK, Unpaid, HandingOver, Ending
<1>5. QED
  BY <1>2, <1>3, <1>4, KnownBegins

LEMMA NotifyPaidKnown ==
  ASSUME IInv, Known, NEW w \in Workers, NEW n \in notices, NotifyPaid(w, n)
  PROVE  Known' /\ PickupStep
<1> DEFINE rest == Unsettled(n.c)
           op == IF rest = {} THEN "settled" ELSE "stock"
           q == Job(op, rest, n, None)
<1>1. n \in Notice /\ n.c \in Online /\ n.c \in Checkouts /\ n.c \in Tried /\ n # None
  BY OnlineCheckouts, NullAssumption DEF IInv, TypeOK, TablesOK, Notice
<1>2. OrdersOf(n.c) \subseteq Present /\ OrdersOf(n.c) \subseteq Orders
  BY <1>1, LinesFacts DEF IInv, TablesOK
<1>3. rest \in SUBSET Orders
      /\ \A o \in rest : o \in Present /\ order[o].pay # "paid" /\ PrePaid(o)
  BY <1>1, <1>2, PrePaidOrders DEF Unsettled
<1>4. Begin(w, q) /\ UNCHANGED <<order, sales, earned, restored, orphaned, crashes>>
  BY DEF NotifyPaid, books, wallet, world
<1>5. op \in Handling /\ op \in {"settled", "stock"}
  BY DEF Handling, Settling
<1> HIDE DEF op, rest
<1>6. /\ q \in Working /\ q.op = op /\ q.rest = rest /\ q.notice = n
      /\ \A o \in rest \cap Present : q.rows[o] = order[o]
  BY <1>1, <1>3, <1>5, JobFields DEF IInv
<1> HIDE DEF q
<1>7. KnowsOK(q, order, earned, restored, contested)
  BY <1>1, <1>3, <1>5, <1>6 DEF KnowsOK, Unpaid, HandingOver, Ending
<1>8. QED
  BY <1>4, <1>6, <1>7, KnownBegins DEF Requests

LEMMA IdleRequest == Idle \in Requests
BY DEF Requests

LEMMA NotifyRefusedKnown ==
  ASSUME IInv, Known, NEW w \in Workers, NEW n \in notices, NotifyRefused(w, n)
  PROVE  Known' /\ PickupStep
<1> DEFINE closed == IF n.code = "-1" THEN "cancelled" ELSE "failed"
           rest == Unsettled(n.c)
           to == [status |-> "cancelled", pay |-> closed]
           q == Job("end", rest, n, to)
<1>1. n \in Notice /\ n.c \in Online /\ n.c \in Checkouts /\ n.c \in Tried
  BY OnlineCheckouts DEF IInv, TypeOK, TablesOK, Notice
<1>2. OrdersOf(n.c) \subseteq Present /\ OrdersOf(n.c) \subseteq Orders
  BY <1>1, LinesFacts DEF IInv, TablesOK
<1>3. rest \in SUBSET Orders /\ \A o \in rest : o \in Present /\ order[o].pay # "paid"
  BY <1>2 DEF Unsettled
<1>4. UNCHANGED <<order, sales, earned, restored, orphaned, crashes>>
      /\ (Begin(w, Idle) \/ Begin(w, q))
  BY DEF NotifyRefused, books, wallet, world
<1>5. to \in Ends /\ to.pay # "paid" /\ "end" \in Handling
  BY DEF Ends, Ended, Payments, Handling, Ending
<1> HIDE DEF rest, to
<1>6. q \in Working /\ q.op = "end" /\ q.rest = rest /\ q.to = to
  BY <1>1, <1>3, <1>5, JobFields DEF IInv
<1>7. \A o \in rest \ contested : order[o].status # "completed"
  BY <1>3 DEF Known, RowOK
<1> HIDE DEF q
<1>8. KnowsOK(q, order, earned, restored, contested)
  BY <1>3, <1>5, <1>6, <1>7 DEF KnowsOK, Unpaid, HandingOver
<1>9. q \in Requests
  BY <1>6 DEF Requests
<1>10. QED
  BY <1>4, <1>8, <1>9, IdleRequest, IdleKnows, KnownBegins

LEMMA NotifyOtherKnown ==
  ASSUME IInv, Known, NEW w \in Workers, NEW n \in notices, NotifyOther(w, n)
  PROVE  Known' /\ PickupStep
<1>1. Begin(w, Idle) /\ UNCHANGED <<order, sales, earned, restored, orphaned, crashes>>
  BY DEF NotifyOther, books, wallet, world
<1>2. QED
  BY <1>1, IdleRequest, IdleKnows, KnownBegins

LEMMA OneOrderKnown ==
  ASSUME IInv, Known, NEW w \in Workers, NEW o \in Orders, Placed(o),
         order[o].status = "pending",
         NEW op \in {"award", "stock", "end"}, NEW to \in Ends \cup {None},
         Begin(w, Job(op, {o}, None, to)),
         UNCHANGED <<order, attempt, books, wallet, payhere, aged, crashes>>,
         op = "award" => PrePaid(o) /\ order[o].pay = "paid",
         op = "stock" => ~PrePaid(o),
         op = "end" => to.pay = "kept" \/ (to.pay = "paid" <=> order[o].pay = "paid")
  PROVE  Known' /\ PickupStep
<1> DEFINE rest == {o}
           q == Job(op, rest, None, to)
<1>1. op \in Handling /\ rest \in SUBSET Orders /\ o \in Present
  BY PlacedRow DEF IInv, Handling, Settling, Selling, Ending
<1>2. /\ q \in Working /\ q.op = op /\ q.rest = rest /\ q.notice = None /\ q.to = to
      /\ \A p \in rest \cap Present : q.rows[p] = order[p]
  <2> HIDE DEF rest
  <2>1. QED
    BY <1>1, JobFields DEF IInv
<1>3. op = "stock" /\ o \notin contested => order[o].pay # "paid"
  BY <1>1 DEF Known, RowOK
<1>4. Begin(w, q) /\ UNCHANGED <<order, sales, earned, restored, orphaned, crashes>>
  BY DEF books, wallet
<1> HIDE DEF q
<1>5. KnowsOK(q, order, earned, restored, contested)
  <2>1. q.rows[o] = order[o]
    BY <1>1, <1>2
  <2>2. CASE op = "stock"
    BY <1>2, <1>3, <2>1, <2>2 DEF KnowsOK, Unpaid, HandingOver, Ending
  <2>3. CASE op = "award"
    BY <1>2, <2>3 DEF KnowsOK, Unpaid, HandingOver, Ending
  <2>4. CASE op = "end"
    BY <1>2, <2>4 DEF KnowsOK, Unpaid, HandingOver, Ending
  <2>5. QED
    BY <2>2, <2>3, <2>4
<1>6. QED
  BY <1>2, <1>4, <1>5, KnownBegins DEF Requests

LEMMA OneOrderHandlersKnown ==
  ASSUME IInv, Known, NEW w \in Workers, NEW o \in Orders,
         Fulfill(w, o) \/ CancelByUser(w, o) \/ MarkNotCollected(w, o) \/ Expire(w, o)
  PROVE  Known' /\ PickupStep
<1>1. CASE Fulfill(w, o)
  <2> DEFINE op == IF PrePaid(o) THEN "award" ELSE "stock"
  <2>1. /\ op \in {"award", "stock", "end"} /\ Placed(o) /\ order[o].status = "pending"
        /\ Begin(w, Job(op, {o}, None, None))
        /\ UNCHANGED <<order, attempt, books, wallet, payhere, aged, crashes>>
    BY <1>1 DEF Fulfill
  <2>2. (op = "award" => PrePaid(o) /\ order[o].pay = "paid") /\ (op = "stock" => ~PrePaid(o))
    BY <1>1 DEF Fulfill
  <2>3. op # "end" /\ None \in Ends \cup {None}
    OBVIOUS
  <2> HIDE DEF op
  <2>4. QED
    BY <2>1, <2>2, <2>3, OneOrderKnown
<1>2. ASSUME NEW status \in Ended, NEW pay \in Payments \cup {"kept"}, Placed(o),
             order[o].status = "pending",
             pay = "kept" \/ (pay = "paid" <=> order[o].pay = "paid"),
             Begin(w, EndJob(o, status, pay)),
             UNCHANGED <<order, attempt, books, wallet, payhere, aged, crashes>>
      PROVE  Known' /\ PickupStep
  <2> DEFINE to == [status |-> status, pay |-> pay]
  <2>1. to \in Ends /\ to.pay = pay
    BY DEF Ends
  <2>2. Begin(w, Job("end", {o}, None, to))
    BY <1>2 DEF EndJob
  <2>3. to.pay = "kept" \/ (to.pay = "paid" <=> order[o].pay = "paid")
    BY <1>2, <2>1
  <2> HIDE DEF to
  <2>4. QED
    BY <1>2, <2>1, <2>2, <2>3, OneOrderKnown
<1>3. {"cancelled", "not_collected", "expired"} \subseteq Ended
      /\ {"cancelled", "paid", "kept"} \subseteq Payments \cup {"kept"}
  BY DEF Ended, Payments
<1>4. CASE CancelByUser(w, o)
  BY <1>2, <1>3, <1>4 DEF CancelByUser
<1>5. CASE MarkNotCollected(w, o)
  <2> DEFINE pay == IF order[o].pay = "paid" THEN "kept" ELSE "cancelled"
  <2>1. /\ pay \in Payments \cup {"kept"}
        /\ pay = "kept" \/ (pay = "paid" <=> order[o].pay = "paid")
    BY <1>3
  <2>2. Placed(o) /\ order[o].status = "pending" /\ Begin(w, EndJob(o, "not_collected", pay))
        /\ UNCHANGED <<order, attempt, books, wallet, payhere, aged, crashes>>
    BY <1>5 DEF MarkNotCollected
  <2> HIDE DEF pay
  <2>3. QED
    BY <1>2, <1>3, <2>1, <2>2
<1>6. CASE Expire(w, o)
  <2> DEFINE pay == IF order[o].pay = "paid" THEN "paid" ELSE "cancelled"
  <2>1. /\ pay \in Payments \cup {"kept"}
        /\ pay = "kept" \/ (pay = "paid" <=> order[o].pay = "paid")
    BY <1>3
  <2>2. Placed(o) /\ order[o].status = "pending" /\ Begin(w, EndJob(o, "expired", pay))
        /\ UNCHANGED <<order, attempt, books, wallet, payhere, aged, crashes>>
    BY <1>6 DEF Expire
  <2> HIDE DEF pay
  <2>3. QED
    BY <1>2, <1>3, <2>1, <2>2
<1>7. QED
  BY <1>1, <1>4, <1>5, <1>6

-----------------------------------------------------------------------------
(***************************************************************************)
(* The statements of a checkout.                                           *)
(***************************************************************************)
LEMMA Unconcerned ==
  ASSUME NEW q, q.op \in (Steps \ {"place"}) \cup {"idle", "settled"}
  PROVE  \A now, awarded, returned, spoilt : KnowsOK(q, now, awarded, returned, spoilt)
BY DEF KnowsOK, Steps, Unpaid, HandingOver, Ending

\* What a checkout goes on with is over, or a later statement for its orders.
Onward(c, q) == q = Idle \/ (q.op \in Steps \ {"place"} /\ q.c = c)

LEMMA AfterPointsOnward == \A c : Onward(c, AfterPoints(c))
BY DEF AfterPoints, Onward, Steps

LEMMA OnwardFacts ==
  ASSUME NEW r, r.op \in Steps, NEW q, Onward(r.c, q)
  PROVE  /\ AtWork(q) \subseteq AtWork(r)
         /\ \A now, awarded, returned, spoilt : KnowsOK(q, now, awarded, returned, spoilt)
<1>1. q.op \in (Steps \ {"place"}) \cup {"idle"}
  BY DEF Onward, Idle
<1>2. AtWork(q) \subseteq AtWork(r)
  BY AtWorkIs DEF Onward
<1>3. QED
  BY <1>1, <1>2, Unconcerned

LEMMA CheckoutKnown ==
  ASSUME IInv, Known, NEW w \in Workers, req[w].op \in Steps,
         NEW q, Continue(w, q), Onward(req[w].c, q),
         UNCHANGED <<order, sales, earned, restored, orphaned, crashes, contested>>
  PROVE  Known' /\ PickupStep
<1>1. KnowsOK(q, order, earned', restored', contested) /\ AtWork(q) \subseteq AtWork(req[w])
  BY OnwardFacts
<1>2. req[w].op \notin Selling
  BY DEF Steps, Selling
<1>3. Known'
  BY <1>1, <1>2, KnownKeeps
<1>4. QED
  BY <1>3, ViewKept, ViewStutters

LEMMA PointsOfCheckoutKnown ==
  ASSUME IInv, Known, NEW w \in Workers,
         \/ RedeemForOrder(w) \/ ApplyRedeem(w) \/ RedeemRow(w) \/ CreatePaymentAttempt(w)
  PROVE  Known' /\ PickupStep
<1> DEFINE r == req[w]
<1>1. r.op \in {"redeem", "debit", "redeemRow", "attempt"}
      /\ UNCHANGED <<order, sales, earned, restored, orphaned, crashes, contested>>
  BY DEF RedeemForOrder, ApplyRedeem, RedeemRow, CreatePaymentAttempt, books, wallet, world
<1>2. r.op \in Steps /\ r \in Checkingout
  BY <1>1, RequestFacts DEF Steps
<1>3. {"debit", "redeemRow", "financials"} \subseteq Steps \ {"place"}
  BY DEF Steps
<1>4. \E q : Continue(w, q) /\ Onward(r.c, q)
  <2>1. \A op \in Steps : [r EXCEPT !.op = op].op = op /\ [r EXCEPT !.op = op].c = r.c
    BY <1>2, CheckingoutGoto DEF Checkingout
  <2>2. Onward(r.c, Idle) /\ Onward(r.c, AfterPoints(r.c))
        /\ \A op \in Steps \ {"place"} : Onward(r.c, [r EXCEPT !.op = op])
    <3>1. \A op \in Steps \ {"place"} : Onward(r.c, [r EXCEPT !.op = op])
      BY <2>1 DEF Onward
    <3>2. QED
      BY <3>1, AfterPointsOnward DEF Onward
  <2>3. CASE RedeemForOrder(w)
    <3>1. \/ Continue(w, AfterPoints(r.c)) \/ Continue(w, Idle)
          \/ Continue(w, [r EXCEPT !.op = "debit"])
      BY <2>3 DEF RedeemForOrder
    <3>2. QED
      BY <1>3, <2>2, <3>1
  <2>4. CASE ApplyRedeem(w)
    <3>1. Continue(w, Idle) \/ Continue(w, [r EXCEPT !.op = "redeemRow"])
      BY <2>4 DEF ApplyRedeem
    <3>2. QED
      BY <1>3, <2>2, <3>1
  <2>5. CASE RedeemRow(w)
    <3>1. Continue(w, [r EXCEPT !.op = "financials"])
      BY <2>5, GotoContinues DEF RedeemRow, IInv
    <3>2. QED
      BY <1>3, <2>2, <3>1
  <2>6. CASE CreatePaymentAttempt(w)
    BY <2>2, <2>6 DEF CreatePaymentAttempt
  <2>7. QED
    BY <2>3, <2>4, <2>5, <2>6
<1>5. QED
  BY <1>1, <1>2, <1>4, CheckoutKnown

LEMMA LaterLines ==
  ASSUME NEW c \in Checkouts, NEW i \in 1 .. Len(Lines[c]), NEW j \in i + 1 .. Len(Lines[c])
  PROVE  Lines[c][j] \in Orders \ {Lines[c][i]}
<1>1. Lines[c] \in Seq(Orders) /\ Len(Lines[c]) \in Nat /\ DOMAIN Lines[c] = 1 .. Len(Lines[c])
  BY LinesFacts
<1>2. j \in 1 .. Len(Lines[c]) /\ j # i
  BY <1>1
<1>3. Lines[c][j] # Lines[c][i]
  BY <1>1, <1>2, LinesAssumption
<1>4. QED
  BY <1>1, <1>2, <1>3

\* Before the next order is placed, it is not there.
LEMMA PlaceOrderKnown ==
  ASSUME IInv, Known, NEW w \in Workers, PlaceOrder(w)
  PROVE  Known' /\ PickupStep
<1> DEFINE r == req[w]
           o == Lines[r.c][r.i]
           last == Len(Lines[r.c])
           row == [status |-> "pending", discount |-> 0, points |-> 0,
                   pay |-> IF r.c \in Online THEN "pending" ELSE "unpaid"]
           q == IF r.i < last THEN [r EXCEPT !.i = @ + 1]
                ELSE [r EXCEPT !.op = "redeem", !.i = 1]
<1>1. /\ r.op = "place" /\ order' = [order EXCEPT ![o] = row] /\ Continue(w, q)
      /\ UNCHANGED <<sales, earned, restored, orphaned, crashes, contested>>
  BY DEF PlaceOrder, books, wallet, world
<1>2. /\ r \in Checkingout /\ r.c \in Checkouts /\ r.i \in Nat
      /\ r.i \in 1 .. last
  BY <1>1, RequestFacts, CheckingoutFields DEF CheckoutOK, Steps
<1>3. last \in Nat \ {0} /\ \A i \in 1 .. last : Lines[r.c][i] \in Orders
  BY <1>2, LinesFacts
<1>4. o \in Orders /\ o \in AtWork(r) /\ AtWork(r) = OrdersOf(r.c)
  BY <1>1, <1>2, <1>3, LinesFacts, AtWorkIs DEF Steps
<1>5. row \in Row /\ row.status = "pending" /\ row.pay # "paid"
  BY DEF Row, Payments
<1>6. \A i \in r.i .. last :
        Lines[r.c][i] \in contested \/ order[Lines[r.c][i]] = NoOrder
  BY <1>1 DEF Known, KnowsOK
<1>7. o \in contested \/ order[o] = NoOrder
  BY <1>2, <1>3, <1>6
<1>8. RowOK(o, row) /\ Moves(o, order[o], row)
  BY <1>5, <1>7 DEF RowOK, Opens, Moves
<1>9. KnowsOK(q, order', earned', restored', contested) /\ AtWork(q) \subseteq AtWork(r)
  <2>1. CASE r.i < last
    <3>1. q.op = "place" /\ q.c = r.c /\ q.i = r.i + 1
      BY <1>1, <1>2, <2>1 DEF Checkingout
    <3>2. \A i \in r.i + 1 .. last : Lines[r.c][i] \in Orders \ {o}
      BY <1>2, LaterLines
    <3>3. \A p \in Orders \ {o} : order'[p] = order[p]
      BY <1>1 DEF IInv, TypeOK
    <3>4. \A i \in r.i + 1 .. last :
            Lines[r.c][i] \in contested \/ order'[Lines[r.c][i]] = NoOrder
      <4>1. \A i \in r.i + 1 .. last : i \in r.i .. last
        BY <1>2, <1>3
      <4> HIDE DEF r, o, last
      <4>2. QED
        BY <1>6, <3>2, <3>3, <4>1
    <3>5. "place" \in Steps
      BY DEF Steps
    <3> HIDE DEF q, r, o, last, row
    <3>6. KnowsOK(q, order', earned', restored', contested)
      BY <3>1, <3>4 DEF KnowsOK, Unpaid, HandingOver, Ending, last
    <3>7. QED
      BY <1>4, <3>1, <3>5, <3>6, AtWorkIs
  <2>2. CASE ~ (r.i < last)
    <3>1. q.op = "redeem" /\ q.c = r.c
      BY <1>2, <2>2 DEF Checkingout
    <3>2. Onward(r.c, q) /\ r.op \in Steps
      BY <1>1, <3>1 DEF Onward, Steps
    <3> HIDE DEF q, r
    <3>3. QED
      BY <3>2, OnwardFacts
  <2>3. QED
    BY <2>1, <2>2
<1>10. r.op \notin Selling
  BY <1>1 DEF Selling
<1> HIDE DEF q, row, o, last
<1>11. QED
  BY <1>1, <1>4, <1>5, <1>8, <1>9, <1>10, KnownWrites

LEMMA UpdateFinancialsKnown ==
  ASSUME IInv, Known, NEW w \in Workers, UpdateFinancials(w)
  PROVE  Known' /\ PickupStep
<1> DEFINE r == req[w]
           o == Lines[r.c][r.i]
           last == Len(Lines[r.c])
           points1 == IF r.i = 1 THEN Requested[r.c] ELSE 0
           share == Share(r.c, r.i)
           row == [order[o] EXCEPT !.discount = share, !.points = points1]
           q == IF r.i < last THEN [r EXCEPT !.i = @ + 1] ELSE AfterPoints(r.c)
<1>1. /\ r.op = "financials" /\ Continue(w, q)
      /\ UNCHANGED <<sales, earned, restored, orphaned, crashes, contested>>
  BY DEF UpdateFinancials, books, wallet, world
<1>2. /\ r \in Checkingout /\ r.c \in Checkouts /\ r.i \in Nat
      /\ r.i \in 1 .. last /\ OrdersOf(r.c) \subseteq Present
  BY <1>1, RequestFacts, CheckingoutFields DEF CheckoutOK, Steps
<1>3. o \in OrdersOf(r.c) /\ o \in Orders /\ o \in AtWork(r)
  BY <1>1, <1>2, LinesFacts, AtWorkIs DEF Steps
<1>4. Placed(o) /\ o \in Present /\ order[o] \in Row
  BY <1>2, <1>3, PlacedRow DEF Present, IInv
<1>5. order' = [order EXCEPT ![o] = row]
  BY <1>3 DEF UpdateFinancials, IInv, TypeOK
<1>6. share \in Int /\ points1 \in Nat
  BY <1>2, ShareInt, AmountsAssumption
<1>7. row \in Row /\ row.status = order[o].status /\ row.pay = order[o].pay
  <2> HIDE DEF o, share, points1
  <2>1. QED
    BY <1>4, <1>6 DEF Row
<1>8. (o \notin contested => RowOK(o, row)) /\ Moves(o, order[o], row)
  BY <1>4, <1>7 DEF Known, RowOK, Progress, Moves, Placed
<1>9. Onward(r.c, q)
  <2>1. [r EXCEPT !.i = @ + 1].op = r.op /\ [r EXCEPT !.i = @ + 1].c = r.c
    BY <1>2 DEF Checkingout
  <2>2. QED
    BY <1>1, <2>1, AfterPointsOnward DEF Onward, Steps
<1> HIDE DEF q
<1>10. KnowsOK(q, order', earned', restored', contested) /\ AtWork(q) \subseteq AtWork(r)
  <2>1. r.op \in Steps
    BY <1>1 DEF Steps
  <2> HIDE DEF r
  <2>2. QED
    BY <1>9, <2>1, OnwardFacts
<1>11. r.op \notin Selling
  BY <1>1 DEF Selling
<1> HIDE DEF q, row, o, last
<1>12. QED
  BY <1>1, <1>3, <1>4, <1>5, <1>7, <1>8, <1>10, <1>11, KnownWrites

-----------------------------------------------------------------------------
(***************************************************************************)
(* The statements of a sale and of its pickup.                             *)
(***************************************************************************)
LEMMA AfterSaleOp ==
  \A r : AfterSale(r) \in {"award", "markPaid"} /\ (AfterSale(r) = "award" <=> r.notice = None)
BY DEF AfterSale

LEMMA SellingKnown ==
  ASSUME NEW r \in Working, r.op \in Unpaid, NEW now, NEW awarded, NEW returned, NEW spoilt,
         KnowsOK(r, now, awarded, returned, spoilt),
         NEW op \in Unpaid \cup {"award"}, op = "award" => r.notice = None,
         NEW q, q = [r EXCEPT !.op = op]
  PROVE  /\ q.op = op /\ q.rest = r.rest /\ At(q) = At(r) /\ AtWork(q) = r.rest
         /\ \A a, b : KnowsOK(q, now, a, b, spoilt)
<1>1. op \in Handling
  BY DEF Unpaid, Handling, Settling, Selling
<1>2. q.op = op /\ q.rest = r.rest /\ q.rows = r.rows /\ q.notice = r.notice /\ At(q) = At(r)
      /\ AtWork(q) = r.rest
  BY <1>1, WorkingGoto, AtWorkIs
<1>3. \A o \in r.rest \ spoilt :
        /\ now[o].pay # "paid" /\ now[o].status = r.rows[o].status
        /\ PrePaid(o) <=> r.notice # None
        /\ r.notice = None => now[o].status = "pending"
  BY DEF KnowsOK
<1>4. CASE op \in Unpaid
  BY <1>2, <1>3, <1>4 DEF KnowsOK, Unpaid, HandingOver, Ending
<1>5. CASE op = "award"
  BY <1>2, <1>3, <1>5 DEF KnowsOK, Unpaid, HandingOver, Ending
<1>6. QED
  BY <1>2, <1>4, <1>5

\* What the invariant says of a statement's handler.
LEMMA KnownFacts ==
  ASSUME IInv, Known, NEW w \in Workers, NEW ops, req[w].op \in ops,
         ops \subseteq Handling \ {"settled"}
  PROVE  /\ req[w] \in Working /\ OrderOf(w) = At(req[w]) /\ At(req[w]) \in req[w].rest
         /\ At(req[w]) \in Orders /\ Placed(At(req[w])) /\ order[At(req[w])] \in Row
         /\ AtWork(req[w]) = req[w].rest /\ RowOf(w) \in Row
         /\ KnowsOK(req[w], order, earned, restored, contested)
<1>1. req[w].op \in Handling \ {"settled"}
  OBVIOUS
<1>2. QED
  BY <1>1, HandlerFacts, AtWorkIs DEF Known, Present

LEMMA TakeStockKnown ==
  ASSUME IInv, Known, NEW w \in Workers, TakeStock(w)
  PROVE  Known' /\ PickupStep
<1> DEFINE r == req[w]
           q == [r EXCEPT !.op = "sale"]
<1>1. /\ r.op = "stock" /\ (Continue(w, q) \/ Continue(w, Idle))
      /\ UNCHANGED <<order, sales, earned, restored, orphaned, crashes, contested>>
  BY DEF TakeStock, wallet, world
<1>2. r.op \in Unpaid /\ Unpaid \subseteq Handling \ {"settled"} /\ "sale" \in Unpaid
      /\ r.op \notin Selling
  BY <1>1 DEF Unpaid, Handling, Settling, Selling
<1>3. r \in Working /\ AtWork(r) = r.rest /\ KnowsOK(r, order, earned, restored, contested)
  BY <1>2, KnownFacts
<1> HIDE DEF q
<1>4. AtWork(q) = r.rest /\ \A a, b : KnowsOK(q, order, a, b, contested)
  BY <1>2, <1>3, SellingKnown DEF q
<1>5. AtWork(Idle) = {}
  BY AtWorkIs
<1>6. Known'
  BY <1>1, <1>2, <1>3, <1>4, <1>5, IdleKnows, KnownKeeps
<1>7. QED
  BY <1>1, <1>6, ViewKept, ViewStutters

\* The sale of an unpaid order that no request is selling is its first.
LEMMA CreateSaleKnown ==
  ASSUME IInv, Known, NEW w \in Workers, CreateSale(w)
  PROVE  Known' /\ PickupStep
<1> DEFINE r == req[w]
           o == At(r)
           op == IF Total(RowOf(w), OrderOf(w)) > 0 THEN "entry" ELSE AfterSale(r)
           q == [r EXCEPT !.op = op]
<1>1. /\ r.op = "sale" /\ Goto(w, op) /\ sales' = [sales EXCEPT ![OrderOf(w)] = @ + 1]
      /\ UNCHANGED <<order, earned, restored, orphaned, crashes, contested>>
  BY DEF CreateSale, wallet, world
<1>2. r.op \in Unpaid /\ Unpaid \subseteq Handling \ {"settled"} /\ r.op \notin Selling
  BY <1>1 DEF Unpaid, Handling, Settling, Selling
<1>3. /\ r \in Working /\ KnowsOK(r, order, earned, restored, contested) /\ OrderOf(w) = o
      /\ o \in Orders /\ o \in r.rest /\ AtWork(r) = r.rest /\ Placed(o)
  BY <1>2, KnownFacts
<1>4. op \in Unpaid \cup {"award"} /\ (op = "award" => r.notice = None) /\ op \in Selling
  BY AfterSaleOp DEF Unpaid, Selling
<1>5. Continue(w, q)
  BY <1>1, GotoContinues DEF IInv
<1>6. o \in contested \/ ~Paid(o)
  BY <1>2, <1>3 DEF KnowsOK, Paid
<1> HIDE DEF op
<1>7. q.op = op /\ At(q) = o /\ AtWork(q) = r.rest /\ \A a, b : KnowsOK(q, order, a, b, contested)
  <2> HIDE DEF q
  <2>1. QED
    BY <1>2, <1>3, <1>4, SellingKnown DEF q
<1>8. sales \in [Orders -> Nat] /\ r.rest \subseteq Orders
  BY <1>3, RequestFacts, AtWorkOrders DEF IInv, TypeOK
<1> HIDE DEF q, o
<1>9. ASSUME crashes' = 0, NEW p \in AtWork(r) \ contested
      PROVE  sales'[p] <= 1 /\ (sales'[p] > 0 => Paid(p) \/ SoldBy(p, q))
  <2>1. SoldOnce(p) /\ p \in Orders
    BY <1>1, <1>3, <1>8, <1>9 DEF Known
  <2>2. \A v \in Workers : ~SoldBy(p, req[v])
    BY <1>2, <1>9, NoOtherSells DEF SoldBy
  <2>3. sales[p] <= 1 /\ (sales[p] > 0 => Paid(p))
    BY <2>1, <2>2 DEF SoldOnce
  <2>4. CASE p = o
    <3>1. sales[p] = 0
      BY <1>6, <1>8, <1>9, <2>1, <2>4, <2>3
    <3>2. sales'[p] = 1
      BY <1>1, <1>3, <1>8, <2>4, <3>1
    <3>3. SoldBy(p, q)
      BY <1>4, <1>7, <2>4 DEF SoldBy
    <3>4. QED
      BY <3>2, <3>3
  <2>5. CASE p # o
    BY <1>1, <1>3, <1>8, <2>1, <2>5, <2>3
  <2>6. QED
    BY <2>4, <2>5
<1>10. \A p \in Orders \ AtWork(r) : sales'[p] = sales[p]
  BY <1>1, <1>3, <1>8
<1>11. /\ KnowsOK(q, order, earned', restored', contested) /\ AtWork(q) \subseteq AtWork(r)
       /\ crashes' = 0 => \A p \in AtWork(r) \ contested :
            sales'[p] <= 1 /\ (sales'[p] > 0 => Paid(p) \/ SoldBy(p, q))
  BY <1>3, <1>7, <1>9
<1>12. Known'
  BY <1>1, <1>5, <1>10, <1>11, KnownStep
<1>13. QED
  BY <1>1, <1>12, ViewKept, ViewStutters

LEMMA PostEntryKnown ==
  ASSUME IInv, Known, NEW w \in Workers, PostEntry(w)
  PROVE  Known' /\ PickupStep
<1> DEFINE r == req[w]
           op == AfterSale(r)
           q == [r EXCEPT !.op = op]
<1>1. /\ r.op = "entry" /\ Goto(w, op)
      /\ UNCHANGED <<order, sales, earned, restored, orphaned, crashes, contested>>
  BY DEF PostEntry, wallet, world
<1>2. r.op \in Unpaid /\ Unpaid \subseteq Handling \ {"settled"}
  BY <1>1 DEF Unpaid, Handling, Settling, Selling
<1>3. r \in Working /\ AtWork(r) = r.rest /\ KnowsOK(r, order, earned, restored, contested)
  BY <1>2, KnownFacts
<1>4. op \in Unpaid \cup {"award"} /\ (op = "award" => r.notice = None) /\ op \in Selling
  BY AfterSaleOp DEF Unpaid, Selling
<1>5. Continue(w, q)
  BY <1>1, GotoContinues DEF IInv
<1> HIDE DEF op
<1>6. /\ q.op = op /\ At(q) = At(r) /\ AtWork(q) = r.rest
      /\ \A a, b : KnowsOK(q, order, a, b, contested)
  <2> HIDE DEF q, r
  <2>1. QED
    BY <1>2, <1>3, <1>4, SellingKnown DEF q
<1> HIDE DEF q
<1>7. Known'
  BY <1>1, <1>3, <1>4, <1>5, <1>6, KnownKeeps
<1>8. QED
  BY <1>1, <1>7, ViewKept, ViewStutters

LEMMA AttemptPaidKnown ==
  ASSUME IInv, Known, NEW w \in Workers, AttemptPaid(w)
  PROVE  Known' /\ PickupStep
<1>1. req[w].op = "settled" /\ Continue(w, Idle)
      /\ UNCHANGED <<order, sales, earned, restored, orphaned, crashes, contested>>
  BY DEF AttemptPaid, books, wallet, world
<1>2. req[w].op \notin Selling /\ AtWork(Idle) = {}
  BY <1>1, AtWorkIs DEF Selling
<1>3. Known'
  BY <1>1, <1>2, IdleKnows, KnownKeeps
<1>4. QED
  BY <1>1, <1>3, ViewKept, ViewStutters

\* The status written back is the order's own.
LEMMA MarkPaidKnown ==
  ASSUME IInv, Known, NEW w \in Workers, MarkPaid(w)
  PROVE  Known' /\ PickupStep
<1> DEFINE r == req[w]
           o == At(r)
           rest == r.rest \ {o}
           row == [order[o] EXCEPT !.status = RowOf(w).status, !.pay = "paid"]
           op == IF rest = {} THEN "settled" ELSE "stock"
           q == [r EXCEPT !.rest = rest, !.op = op]
<1>1. r.op = "markPaid" /\ UNCHANGED <<sales, earned, restored, orphaned, crashes, contested>>
  BY DEF MarkPaid, books, wallet, world
<1>2. r.op \in Unpaid /\ Unpaid \subseteq Handling \ {"settled"}
  BY <1>1 DEF Unpaid, Handling, Settling, Selling
<1>3. /\ r \in Working /\ KnowsOK(r, order, earned, restored, contested) /\ OrderOf(w) = o
      /\ o \in Orders /\ o \in r.rest /\ Placed(o) /\ order[o] \in Row
      /\ AtWork(r) = r.rest /\ RowOf(w) \in Row
  BY <1>2, KnownFacts
<1>4. HandlerOK(r, Present, Sold, Used, Tried) /\ r.rest \in SUBSET Orders
  BY <1>2, HandlerFacts
<1>5. r.notice # None
  BY <1>1, <1>2, <1>4 DEF HandlerOK
<1>6. Continue(w, q)
  BY <1>3 DEF MarkPaid
<1>7. \A p \in r.rest \ contested :
        order[p].pay # "paid" /\ order[p].status = r.rows[p].status /\ PrePaid(p)
  BY <1>2, <1>3, <1>5 DEF KnowsOK
<1>8. o \in contested \/ RowOf(w).status = order[o].status
  BY <1>3, <1>7 DEF RowOf
<1>9. order' = [order EXCEPT ![o] = row]
  BY <1>3 DEF MarkPaid, IInv, TypeOK
<1>10. /\ row \in Row /\ row.pay = "paid"
       /\ o \in contested \/ row.status = order[o].status
  <2> HIDE DEF o
  <2>1. "paid" \in Payments
    BY DEF Payments
  <2>2. QED
    BY <1>3, <1>8, <2>1 DEF Row
<1>11. (o \notin contested => RowOK(o, row)) /\ Moves(o, order[o], row)
  BY <1>3, <1>7, <1>10 DEF RowOK, Progress, Moves, Placed
<1>12. op \in Handling /\ op \in {"settled", "stock"} /\ rest \in SUBSET Orders
  BY <1>4 DEF Handling, Settling
<1>13. \A p \in rest : p \in r.rest /\ order'[p] = order[p]
  BY <1>4, <1>9 DEF IInv, TypeOK
<1> HIDE DEF rest, op
<1>14. q.op = op /\ q.rest = rest /\ q.rows = r.rows /\ q.notice = r.notice
  BY <1>3, <1>12 DEF Working
<1> HIDE DEF q, r
<1>15. AtWork(q) = rest /\ rest \subseteq AtWork(r)
  BY <1>3, <1>12, <1>13, <1>14, AtWorkIs
<1>16. KnowsOK(q, order', earned', restored', contested)
  BY <1>5, <1>7, <1>12, <1>13, <1>14 DEF KnowsOK, Unpaid, HandingOver, Ending
<1> HIDE DEF row, o
<1>17. QED
  BY <1>1, <1>3, <1>6, <1>9, <1>10, <1>11, <1>15, <1>16, KnownWrites DEF r, o

LEMMA HandingOverKnown ==
  ASSUME NEW r \in Working, r.op \in HandingOver, NEW now, NEW awarded, NEW returned, NEW spoilt,
         KnowsOK(r, now, awarded, returned, spoilt),
         NEW op \in HandingOver, NEW q, q = [r EXCEPT !.op = op]
  PROVE  /\ q.op = op /\ At(q) = At(r) /\ AtWork(q) = r.rest
         /\ \A a, b : (op = "awardRow" => At(r) \in spoilt \/ a[At(r)] = 0)
              => KnowsOK(q, now, a, b, spoilt)
<1>1. op \in Handling /\ r.op \notin Ending
  BY DEF HandingOver, Handling, Selling, Ending
<1>2. q.op = op /\ q.rest = r.rest /\ At(q) = At(r) /\ AtWork(q) = r.rest
  BY <1>1, WorkingGoto, AtWorkIs
<1>3. \A o \in r.rest \ spoilt : now[o].status = "pending" /\ (PrePaid(o) <=> now[o].pay = "paid")
  BY DEF KnowsOK
<1>4. QED
  BY <1>2, <1>3 DEF KnowsOK, Unpaid, HandingOver, Ending

LEMMA AwardKnown ==
  ASSUME IInv, Known, NEW w \in Workers, Award(w)
  PROVE  Known' /\ PickupStep
<1> DEFINE r == req[w]
           awarded == Earned(w) > 0 /\ earned[OrderOf(w)] = 0
           op == IF awarded THEN "awardRow" ELSE "complete"
           q == [r EXCEPT !.op = op]
<1>1. /\ r.op = "award" /\ Goto(w, op)
      /\ UNCHANGED <<order, sales, earned, restored, orphaned, crashes, contested>>
  BY DEF Award, books, world
<1>2. r.op \in HandingOver /\ HandingOver \subseteq Handling \ {"settled"}
      /\ HandingOver \subseteq Selling
  BY <1>1 DEF HandingOver, Handling, Selling
<1>3. r \in Working /\ KnowsOK(r, order, earned, restored, contested) /\ OrderOf(w) = At(r)
      /\ AtWork(r) = r.rest
  BY <1>2, KnownFacts
<1>4. op \in HandingOver /\ (op = "awardRow" => earned[At(r)] = 0)
  BY <1>3 DEF HandingOver
<1>5. Continue(w, q)
  BY <1>1, GotoContinues DEF IInv
<1> HIDE DEF op
<1>6. /\ q.op = op /\ At(q) = At(r) /\ AtWork(q) = r.rest
      /\ \A b : KnowsOK(q, order, earned, b, contested)
  <2> HIDE DEF q, r
  <2>1. QED
    BY <1>2, <1>3, <1>4, HandingOverKnown DEF q
<1> HIDE DEF q
<1>7. KnowsOK(q, order, earned', restored', contested) /\ q.op \in Selling
  BY <1>1, <1>2, <1>4, <1>6
<1>8. Known'
  BY <1>1, <1>3, <1>5, <1>6, <1>7, KnownKeeps
<1>9. QED
  BY <1>1, <1>8, ViewKept, ViewStutters

\* The row of the points awarded is refused of a contested order only.
LEMMA AwardRowKnown ==
  ASSUME IInv, Known, NEW w \in Workers, AwardRow(w)
  PROVE  Known' /\ PickupStep
<1> DEFINE r == req[w]
           q == [r EXCEPT !.op = "complete"]
<1>1. r.op = "awardRow" /\ UNCHANGED <<order, sales, restored, crashes, contested>>
  BY DEF AwardRow, books, world
<1>2. r.op \in HandingOver /\ HandingOver \subseteq Handling \ {"settled"}
      /\ HandingOver \subseteq Selling /\ "complete" \in HandingOver
  BY <1>1 DEF HandingOver, Handling, Selling
<1>3. /\ r \in Working /\ KnowsOK(r, order, earned, restored, contested)
      /\ OrderOf(w) = At(r) /\ At(r) \in r.rest /\ AtWork(r) = r.rest
  BY <1>2, KnownFacts
<1>4. At(r) \in contested \/ earned[At(r)] = 0
  BY <1>1, <1>3 DEF KnowsOK
<1>5. CASE earned[At(r)] = 0
  <2>1. Goto(w, "complete") /\ orphaned' = orphaned
        /\ earned' = [earned EXCEPT ![At(r)] = Earned(w)]
    BY <1>3, <1>5 DEF AwardRow
  <2>2. Continue(w, q)
    BY <2>1, GotoContinues DEF IInv
  <2>3. /\ q.op = "complete" /\ At(q) = At(r) /\ AtWork(q) = r.rest
        /\ \A a, b : KnowsOK(q, order, a, b, contested)
    <3> HIDE DEF q, r
    <3>1. QED
      BY <1>2, <1>3, HandingOverKnown DEF q
  <2>4. \A o \in Orders \ AtWork(r) : earned'[o] = earned[o]
    BY <1>3, <2>1 DEF IInv, TypeOK
  <2> HIDE DEF q
  <2>5. KnowsOK(q, order, earned', restored', contested) /\ q.op \in Selling
    BY <1>2, <2>3
  <2>6. Known'
    BY <1>1, <1>3, <2>1, <2>2, <2>3, <2>4, <2>5, KnownKeeps
  <2>7. QED
    BY <1>1, <2>6, ViewKept, ViewStutters
<1>6. CASE earned[At(r)] # 0
  <2>1. Continue(w, Idle) /\ earned' = earned
        /\ orphaned' = [orphaned EXCEPT ![At(r)] = @ + Earned(w)]
    BY <1>3, <1>6 DEF AwardRow, Refused
  <2>2. At(r) \in contested /\ AtWork(Idle) = {}
    BY <1>4, <1>6, AtWorkIs
  <2>3. \A o \in Orders \ contested : orphaned'[o] = orphaned[o]
    BY <2>1, <2>2 DEF IInv, TypeOK
  <2>4. Known'
    BY <1>1, <2>1, <2>2, <2>3, IdleKnows, KnownKeeps
  <2>5. QED
    BY <1>1, <2>4, ViewKept, ViewStutters
<1>7. QED
  BY <1>5, <1>6

LEMMA CompleteKnown ==
  ASSUME IInv, Known, NEW w \in Workers, Complete(w)
  PROVE  Known' /\ PickupStep
<1> DEFINE r == req[w]
           o == At(r)
           row == [order[o] EXCEPT !.status = "completed",
                                   !.pay = IF PrePaid(o) THEN order[o].pay ELSE "paid"]
<1>1. /\ r.op = "complete" /\ Continue(w, Idle)
      /\ UNCHANGED <<sales, earned, restored, orphaned, crashes, contested>>
  BY DEF Complete, books, wallet, world
<1>2. r.op \in HandingOver /\ HandingOver \subseteq Handling \ {"settled"}
  BY <1>1 DEF HandingOver, Handling, Selling
<1>3. /\ KnowsOK(r, order, earned, restored, contested) /\ OrderOf(w) = o
      /\ o \in r.rest /\ o \in Orders /\ Placed(o) /\ order[o] \in Row
      /\ AtWork(r) = r.rest
  BY <1>2, KnownFacts
<1>4. order' = [order EXCEPT ![o] = row]
  BY <1>3 DEF Complete, IInv, TypeOK
<1>5. o \notin contested =>
        order[o].status = "pending" /\ (PrePaid(o) <=> order[o].pay = "paid")
  BY <1>2, <1>3 DEF KnowsOK
<1>6. row \in Row /\ row.status = "completed" /\ (o \notin contested => row.pay = "paid")
  <2> HIDE DEF o
  <2>1. "paid" \in Payments /\ (o \notin contested /\ PrePaid(o) => order[o].pay = "paid")
    BY <1>5 DEF Payments
  <2>2. QED
    BY <1>3, <2>1 DEF Row
<1>7. /\ o \notin contested => RowOK(o, row)
      /\ Moves(o, order[o], row) /\ AtWork(Idle) = {}
  BY <1>3, <1>5, <1>6, AtWorkIs DEF RowOK, Progress, Moves, Placed
<1> HIDE DEF row
<1>8. QED
  BY <1>1, <1>3, <1>4, <1>6, <1>7, IdleKnows, KnownWrites

-----------------------------------------------------------------------------
(***************************************************************************)
(* The statements of an order's end.                                       *)
(***************************************************************************)
LEMMA EndOrderKnown ==
  ASSUME IInv, Known, NEW w \in Workers, EndOrder(w)
  PROVE  Known' /\ PickupStep
<1> DEFINE r == req[w]
           o == At(r)
           to == r.to
           row == [order[o] EXCEPT !.status = to.status,
                                   !.pay = IF to.pay = "kept" THEN order[o].pay ELSE to.pay]
           q == [r EXCEPT !.op = "restore"]
<1>1. /\ r.op = "end" /\ Goto(w, "restore")
      /\ UNCHANGED <<sales, earned, restored, orphaned, crashes, contested>>
  BY DEF EndOrder, books, wallet, world
<1>2. r.op \in Ending /\ Ending \subseteq Handling \ {"settled"} /\ r.op \notin Selling
      /\ "restore" \in Handling
  BY <1>1 DEF Ending, Handling, Settling, Selling
<1>3. /\ r \in Working /\ KnowsOK(r, order, earned, restored, contested) /\ OrderOf(w) = o
      /\ o \in r.rest /\ o \in Orders /\ Placed(o) /\ order[o] \in Row
      /\ AtWork(r) = r.rest
  BY <1>2, KnownFacts
<1>4. Continue(w, q)
  BY <1>1, GotoContinues DEF IInv
<1>5. to.status \in Ended /\ to.pay \in Payments \cup {"kept"} /\ r.rest \subseteq Orders
  BY <1>2, <1>3, HandlerFacts DEF HandlerOK, Ends
<1>6. order' = [order EXCEPT ![o] = row]
  BY <1>3 DEF EndOrder, IInv, TypeOK
<1>7. \A p \in r.rest \ contested :
        /\ order[p].status # "completed"
        /\ to.pay = "kept" \/ (to.pay = "paid" <=> order[p].pay = "paid")
  BY <1>1, <1>2, <1>3 DEF KnowsOK
<1>8. /\ row \in Row /\ row.status = to.status
      /\ o \notin contested => (row.pay = "paid" <=> order[o].pay = "paid")
  <2>1. /\ order[o].pay \in Payments
        /\ o \in contested \/ (to.pay = "kept" \/ (to.pay = "paid" <=> order[o].pay = "paid"))
    BY <1>3, <1>7 DEF Row
  <2> HIDE DEF o, to
  <2>2. QED
    BY <1>3, <1>5, <2>1 DEF Row
<1>9. /\ "completed" \notin Ended /\ "pending" \notin Ended
      /\ o \in contested \/ order[o].status \in {"pending"} \cup Ended
  BY <1>3, <1>7 DEF Ended, Row
<1> HIDE DEF to, row
<1>10. (o \notin contested => RowOK(o, row)) /\ Moves(o, order[o], row)
  <2>1. o \notin contested => RowOK(o, row)
    BY <1>5, <1>8, <1>9 DEF RowOK
  <2>2. o \notin contested => Progress(order[o], row)
    BY <1>5, <1>8, <1>9 DEF Progress
  <2>3. order[o] # NoOrder
    BY <1>3 DEF Placed
  <2>4. QED
    BY <2>1, <2>2, <2>3 DEF Moves
<1>11. /\ AtWork(q) = r.rest /\ q.op = "restore" /\ q.rest = r.rest /\ At(q) = o /\ q.to = to
  BY <1>2, <1>3, WorkingGoto, AtWorkIs DEF to
<1>12. \A p \in r.rest : p # o => order'[p] = order[p]
  BY <1>5, <1>6 DEF IInv, TypeOK
<1> HIDE DEF q, o, r
<1>13. KnowsOK(q, order', earned', restored', contested)
  BY <1>7, <1>11, <1>12 DEF KnowsOK, Unpaid, HandingOver
<1>14. QED
  BY <1>1, <1>2, <1>3, <1>4, <1>6, <1>8, <1>10, <1>11, <1>13, KnownWrites DEF r, o

LEMMA ProceedKnown ==
  ASSUME IInv, Known, NEW w \in Workers, req[w].op \in {"restore", "restoreRow"}, Proceed(w)
  PROVE  \E q : /\ Continue(w, q) /\ AtWork(q) \subseteq AtWork(req[w])
               /\ \A a, b : KnowsOK(q, order, a, b, contested)
<1> DEFINE r == req[w]
           o == At(r)
           rest == r.rest \ {o}
           q == [r EXCEPT !.rest = rest, !.op = "end"]
<1>1. r.op \in Ending /\ Ending \subseteq Handling \ {"settled"} /\ r.op # "end"
  BY DEF Ending, Handling, Settling, Selling
<1>2. /\ r \in Working /\ KnowsOK(r, order, earned, restored, contested) /\ OrderOf(w) = o
      /\ AtWork(r) = r.rest
  BY <1>1, KnownFacts
<1>3. CASE rest # {}
  <2>1. Continue(w, q)
    BY <1>2, <1>3 DEF Proceed
  <2>2. \A p \in rest \ contested :
          /\ order[p].status # "completed"
          /\ r.to.pay = "kept" \/ (r.to.pay = "paid" <=> order[p].pay = "paid")
    BY <1>1, <1>2 DEF KnowsOK
  <2>3. rest \subseteq r.rest
    OBVIOUS
  <2> HIDE DEF rest
  <2>4. q.op = "end" /\ q.rest = rest /\ q.to = r.to
    BY <1>2, <2>3 DEF Working
  <2>5. AtWork(q) = rest
    BY <1>1, <2>4, AtWorkIs DEF Ending
  <2> HIDE DEF q, r
  <2>6. \A a, b : KnowsOK(q, order, a, b, contested)
    BY <2>2, <2>4 DEF KnowsOK, Unpaid, HandingOver
  <2>7. AtWork(q) \subseteq AtWork(req[w])
    BY <1>2, <2>3, <2>5 DEF r
  <2>8. QED
    BY <2>1, <2>6, <2>7
<1>4. CASE rest = {}
  <2>1. Continue(w, Idle)
    BY <1>2, <1>4 DEF Proceed
  <2>2. QED
    BY <2>1, IdleKnows, AtWorkIs
<1>5. QED
  BY <1>3, <1>4

LEMMA EndingKeeps ==
  ASSUME IInv, Known, NEW w \in Workers, req[w].op \in Ending,
         NEW q, Continue(w, q), KnowsOK(q, order, earned', restored', contested),
         UNCHANGED <<order, sales, crashes, contested>>,
         AtWork(q) \subseteq AtWork(req[w]),
         \A o \in Orders \ AtWork(req[w]) : earned'[o] = earned[o] /\ restored'[o] = restored[o],
         \A o \in Orders \ contested : orphaned'[o] = orphaned[o]
  PROVE  Known' /\ PickupStep
<1>1. req[w].op \notin Selling
  BY DEF Ending, Selling
<1>2. Known'
  BY <1>1, KnownKeeps
<1>3. QED
  BY <1>2, ViewKept, ViewStutters

LEMMA RestoreKnown ==
  ASSUME IInv, Known, NEW w \in Workers, Restore(w)
  PROVE  Known' /\ PickupStep
<1> DEFINE r == req[w]
           q == [r EXCEPT !.op = "restoreRow"]
<1>1. r.op = "restore" /\ UNCHANGED <<order, sales, earned, restored, orphaned, crashes, contested>>
  BY DEF Restore, books, world
<1>2. r.op \in Ending /\ Ending \subseteq Handling \ {"settled"} /\ "restoreRow" \in Ending
  BY <1>1 DEF Ending, Handling, Settling, Selling
<1>3. /\ r \in Working /\ KnowsOK(r, order, earned, restored, contested) /\ OrderOf(w) = At(r)
      /\ AtWork(r) = r.rest
  BY <1>2, KnownFacts
<1>4. CASE Due(w)
  <2>1. Continue(w, q)
    BY <1>4, GotoContinues DEF Restore, IInv
  <2>2. restored[At(r)] = 0
    BY <1>3, <1>4 DEF Due
  <2>3. \A p \in r.rest \ contested : p # At(r) =>
          /\ order[p].status # "completed"
          /\ r.to.pay = "kept" \/ (r.to.pay = "paid" <=> order[p].pay = "paid")
    BY <1>2, <1>3 DEF KnowsOK
  <2>4. q.op = "restoreRow" /\ q.rest = r.rest /\ q.to = r.to /\ At(q) = At(r)
        /\ AtWork(q) = r.rest
    BY <1>2, <1>3, WorkingGoto, AtWorkIs
  <2> HIDE DEF q
  <2>5. KnowsOK(q, order, earned', restored', contested)
    <3> HIDE DEF r
    <3>1. QED
      BY <1>1, <2>2, <2>3, <2>4 DEF KnowsOK, Unpaid, HandingOver
  <2>6. QED
    BY <1>1, <1>2, <1>3, <2>1, <2>4, <2>5, EndingKeeps
<1>5. CASE ~Due(w)
  <2>1. \E p : /\ Continue(w, p) /\ AtWork(p) \subseteq AtWork(r)
               /\ \A a, b : KnowsOK(p, order, a, b, contested)
    BY <1>1, <1>5, ProceedKnown DEF Restore
  <2>2. QED
    BY <1>1, <1>2, <2>1, EndingKeeps
<1>6. QED
  BY <1>4, <1>5

\* The row of the points returned is refused of a contested order only.
LEMMA RestoreRowKnown ==
  ASSUME IInv, Known, NEW w \in Workers, RestoreRow(w)
  PROVE  Known' /\ PickupStep
<1> DEFINE r == req[w]
           o == At(r)
<1>1. r.op = "restoreRow" /\ UNCHANGED <<order, sales, earned, crashes, contested>>
  BY DEF RestoreRow, books, world
<1>2. r.op \in Ending /\ Ending \subseteq Handling \ {"settled"}
  BY <1>1 DEF Ending, Handling, Settling, Selling
<1>3. /\ KnowsOK(r, order, earned, restored, contested)
      /\ OrderOf(w) = o /\ o \in r.rest /\ AtWork(r) = r.rest
  BY <1>2, KnownFacts
<1>4. o \in contested \/ restored[o] = 0
  BY <1>1, <1>3 DEF KnowsOK
<1>5. CASE restored[o] = 0
  <2>1. Proceed(w) /\ orphaned' = orphaned
        /\ restored' = [restored EXCEPT ![o] = redeemed[o]]
    BY <1>3, <1>5 DEF RestoreRow
  <2>2. \E p : /\ Continue(w, p) /\ AtWork(p) \subseteq AtWork(r)
               /\ \A a, b : KnowsOK(p, order, a, b, contested)
    BY <1>1, <2>1, ProceedKnown
  <2>3. \A p \in Orders \ AtWork(r) : restored'[p] = restored[p]
    BY <1>3, <2>1 DEF IInv, TypeOK
  <2> HIDE DEF o
  <2>4. QED
    BY <1>1, <1>2, <2>1, <2>2, <2>3, EndingKeeps
<1>6. CASE restored[o] # 0
  <2>1. Continue(w, Idle) /\ restored' = restored
        /\ orphaned' = [orphaned EXCEPT ![o] = @ + redeemed[o]]
    BY <1>3, <1>6 DEF RestoreRow, Refused
  <2>2. o \in contested /\ AtWork(Idle) = {}
    BY <1>4, <1>6, AtWorkIs
  <2>3. \A p \in Orders \ contested : orphaned'[p] = orphaned[p]
    BY <2>1, <2>2 DEF IInv, TypeOK
  <2> HIDE DEF o
  <2>4. QED
    BY <1>1, <1>2, <2>1, <2>2, <2>3, IdleKnows, EndingKeeps
<1>7. QED
  BY <1>5, <1>6

LEMMA CrashKnown ==
  ASSUME IInv, Known, NEW w \in Workers, Crash(w)
  PROVE  Known' /\ PickupStep
<1>1. /\ crashes' = crashes + 1 /\ crashes \in Nat /\ Continue(w, Idle)
      /\ UNCHANGED <<order, sales, earned, restored, orphaned, contested>>
  BY DEF Crash, IInv, TypeOK, books, wallet
<1>2. crashes' # 0 /\ AtWork(Idle) = {}
  BY <1>1, AtWorkIs
<1>3. Known'
  BY <1>1, <1>2, IdleKnows, KnownKeeps
<1>4. QED
  BY <1>1, <1>3, ViewKept, ViewStutters

-----------------------------------------------------------------------------
(***************************************************************************)
(* All steps.                                                              *)
(***************************************************************************)
LEMMA RequestKnown ==
  ASSUME IInv, Known, NEW w \in Workers, Request(w)
  PROVE  Known' /\ PickupStep
<1>1. CASE \E c \in Checkouts : StartCheckout(w, c)
  BY <1>1, StartCheckoutKnown
<1>2. CASE \E n \in notices : NotifyPaid(w, n) \/ NotifyRefused(w, n) \/ NotifyOther(w, n)
  BY <1>2, NotifyPaidKnown, NotifyRefusedKnown, NotifyOtherKnown
<1>3. CASE \E o \in Orders :
             \/ Fulfill(w, o) \/ CancelByUser(w, o)
             \/ MarkNotCollected(w, o) \/ Expire(w, o)
  BY <1>3, OneOrderHandlersKnown
<1>4. QED
  BY <1>1, <1>2, <1>3 DEF Request

LEMMA StatementKnown ==
  ASSUME IInv, Known, NEW w \in Workers, Statement(w)
  PROVE  Known' /\ PickupStep
BY PlaceOrderKnown, PointsOfCheckoutKnown, UpdateFinancialsKnown, TakeStockKnown,
   CreateSaleKnown, PostEntryKnown, MarkPaidKnown, AttemptPaidKnown, AwardKnown,
   AwardRowKnown, CompleteKnown, EndOrderKnown, RestoreKnown, RestoreRowKnown
   DEF Statement

LEMMA ElsewhereKnown ==
  ASSUME Known,
         UNCHANGED <<order, sales, earned, restored, orphaned, crashes, contested, req>>
  PROVE  Known' /\ PickupStep
<1>1. \A w \in Workers : KnowsOK(req'[w], order', earned', restored', contested')
  BY DEF Known
<1>2. \A o \in Present' \ contested' : RowOK(o, order'[o])
  BY ViewKept DEF Known
<1>3. crashes' = 0 => \A o \in Orders \ contested' : SoldOnce(o)'
  BY ViewKept DEF Known, SoldOnce
<1>4. \A o \in Orders \ contested' : orphaned'[o] = 0
  BY DEF Known
<1>5. \A v, w \in Workers : v # w => AtWork(req'[v]) \cap AtWork(req'[w]) \subseteq contested'
  BY DEF Known
<1>6. Known'
  BY <1>1, <1>2, <1>3, <1>4, <1>5 DEF Known
<1>7. QED
  BY <1>6, ViewKept, ViewStutters

LEMMA NextKnown == IInv /\ Known /\ [Next]_vars => Known' /\ PickupStep
<1> SUFFICES ASSUME IInv, Known, [Next]_vars PROVE Known' /\ PickupStep
  OBVIOUS
<1>1. CASE PayHere
  BY <1>1, ElsewhereKnown DEF PayHere, Capture, Report, books, wallet, world
<1>2. CASE Age
  BY <1>2, ElsewhereKnown DEF Age, books, wallet
<1>3. CASE \E w \in Workers : Request(w) \/ Statement(w) \/ Crash(w)
  BY <1>3, RequestKnown, StatementKnown, CrashKnown
<1>4. CASE UNCHANGED vars
  BY <1>4, ElsewhereKnown DEF vars, books, wallet, world
<1>5. QED
  BY <1>1, <1>2, <1>3, <1>4 DEF Next

LEMMA InitKnown == Init => Known /\ Pickup!Init
<1> SUFFICES ASSUME Init PROVE Known /\ Pickup!Init
  OBVIOUS
<1>1. \A w \in Workers : req[w] = Idle
  BY DEF Init
<1>2. \A o \in Orders :
        /\ order[o] = NoOrder /\ ~Placed(o) /\ ~Paid(o)
        /\ sales[o] = 0 /\ orphaned[o] = 0
  BY DEF Init, Placed, Paid
<1>3. \A o \in Orders : SoldOnce(o)
  BY <1>2 DEF SoldOnce
<1>4. Present = {} /\ \A w \in Workers : AtWork(req[w]) = {}
  BY <1>1, <1>2, AtWorkIs DEF Present
<1>5. Known
  BY <1>1, <1>2, <1>3, <1>4, IdleKnows DEF Known
<1>6. \A o \in Orders : Phase(o) = "none"
  BY <1>2 DEF Phase, NoOrder, Ended
<1>7. Pickup!Init
  BY <1>2, <1>6 DEF Pickup!Init, Init
<1>8. QED
  BY <1>5, <1>7

LEMMA KnownInvariance == Spec => []Known
<1>1. Init => Known
  BY InitKnown
<1>2. IInv /\ Known /\ [Next]_vars => Known'
  BY NextKnown
<1>3. QED
  BY <1>1, <1>2, Invariance, PTL DEF Spec

\* Whatever requests overlap, an order that no two of them were at work on at
\* once is sold once, however many notices arrive for it, late, again or after
\* its end, and however often its pickup is tried (handlePaidNotify skips the
\* paid orders, fulfill the collected).
THEOREM OneSaleUnlessContested == Spec => []OneSalePerOrder
<1>1. Known => OneSalePerOrder
  BY DEF Known, SoldOnce, OneSalePerOrder
<1>2. QED
  BY <1>1, KnownInvariance, PTL

\* Of such an order the wallet is credited once for its pickup and once for its
\* end, whichever way, and however often, it is ended (awardForOrder and
\* reverseRedemption of loyalty.service.ts).
THEOREM PointsBackOnceUnlessContested == Spec => []PointsBackOnce
<1>1. Known => PointsBackOnce
  BY DEF Known, PointsBackOnce
<1>2. QED
  BY <1>1, KnownInvariance, PTL

\* All handlers together implement what an order promises its customer, also
\* when they die half way: an order no two of them were at work on at once is
\* paid for once and never unpaid again, collected only if paid, and neither
\* its pickup nor its end is undone, whatever becomes of the contested orders
\* beside it (customer-orders.service.ts).
THEOREM PickupIsImplemented == Spec => ImplementsPickup
<1>1. Init => Pickup!Init
  BY InitKnown
<1>2. IInv /\ Known /\ [Next]_vars => [Pickup!Next]_(Pickup!vars)
  BY NextKnown DEF PickupStep
<1>3. Spec => [][Pickup!Next]_(Pickup!vars)
  BY <1>2, Invariance, KnownInvariance, PTL DEF Spec
<1>4. QED
  BY <1>1, <1>3, PTL DEF Spec, ImplementsPickup, Pickup!Spec

=============================================================================
