------------------------ MODULE StockTransfersProofs ------------------------
(***************************************************************************)
(* Theorems about StockTransfers, for any numbers of products, branches,   *)
(* lines, shipments and concurrent requests and for either driver.         *)
(***************************************************************************)
EXTENDS LockedTransfers, InventoryRowProofs, SumTheorems

-----------------------------------------------------------------------------
(***************************************************************************)
(* Four invariants, each inductive with the help of the ones before it.   *)
(***************************************************************************)
\* TypeOK but for the inventory, which needs the quantities to be positive.
TablesOK ==
  /\ line \in [Lines -> LineRow \cup {NoLine}]
  /\ shipment \in [Shipments -> ShipmentRow \cup {NoShipment}]
  /\ req \in [Workers -> Requests]
  /\ sold \in Nat

\* What a request in flight will write has been reviewed like the rows of the
\* table: a stale row was once a row of the table.
ReviewedRequest(r) ==
  /\ r.op \in {"saveLine", "ship", "receive"} => Reviewed(r.row)
  /\ r.op = "ship" => r.row.status = "APPROVED"
  /\ r.op = "receive" => r.row.status = "IN_TRANSIT"
  /\ r.op \in {"dispatch", "deliver", "return"} =>
       \A l \in DOMAIN r.lines : Reviewed(r.lines[l])

ReviewedInv == ReviewedLines /\ \A w \in Workers : ReviewedRequest(req[w])

\* A request that has locked a shipment finds it open, and is the only one.
LockOps == {"dispatch", "deliver", "return"}
LockInv ==
  \A w \in Workers : req[w].op \in LockOps =>
    /\ shipment[req[w].id].status
         \in {"READY_TO_SHIP", "DISPATCHED", "OUT_FOR_DELIVERY"}
    /\ \A v \in Workers :
         (req[v].op \in LockOps /\ req[v].id = req[w].id) => v = w

\* The inventory holds only missing rows and quantities that are not negative.
StockInv == stock \in Inventories

-----------------------------------------------------------------------------
(***************************************************************************)
(* Rows keep their shape under the changes the handlers make to them.      *)
(***************************************************************************)
LEMMA LineIsRow ==
  ASSUME TablesOK, NEW l \in Lines, line[l] # NoLine
  PROVE  line[l] \in LineRow
BY DEF TablesOK

LEMMA ShipmentIsRow ==
  ASSUME TablesOK, NEW s \in Shipments, shipment[s] # NoShipment
  PROVE  shipment[s] \in ShipmentRow
BY DEF TablesOK

LEMMA KnownLineStatus ==
  ASSUME NEW l \in Lines, line[l].status \in LineStatuses
  PROVE  line[l] # NoLine
BY DEF NoLine, LineStatuses

LEMMA KnownShipmentStatus ==
  ASSUME NEW s \in Shipments, shipment[s].status \in ShipmentStatuses
  PROVE  shipment[s] # NoShipment
BY DEF NoShipment, ShipmentStatuses

LEMMA RequestedIsRow ==
  ASSUME NEW p \in Products, NEW dst \in Branches, NEW q \in Quantities
  PROVE  Requested(p, dst, q) \in LineRow
BY DEF Requested, LineRow, LineStatuses

LEMMA PreApprovedIsRow ==
  ASSUME NEW p \in Products, NEW src \in Branches, NEW dst \in Branches,
         NEW q \in Quantities
  PROVE  PreApproved(p, src, dst, q) \in LineRow
BY DEF PreApproved, Requested, LineRow, LineStatuses

LEMMA RowUpdates ==
  ASSUME NEW row \in LineRow, NEW status \in LineStatuses,
         NEW src \in Branches, NEW q \in Quantities,
         NEW s \in Shipments \cup {None}
  PROVE  /\ [row EXCEPT !.status = status] \in LineRow
         /\ [row EXCEPT !.shipment = s] \in LineRow
         /\ [row EXCEPT !.status = status, !.source = src, !.approved = q]
              \in LineRow
         /\ [row EXCEPT !.status = status, !.shipment = s] \in LineRow
BY DEF LineRow

-----------------------------------------------------------------------------
LEMMA InitTablesOK == Init => TablesOK
BY DEF Init, Requests, TablesOK

LEMMA BeginType ==
  ASSUME TablesOK, NEW w \in Workers, NEW r \in Requests, Begin(w, r)
  PROVE  req' \in [Workers -> Requests]
BY DEF TablesOK, Begin

LEMMA FinishType ==
  ASSUME TablesOK, NEW w \in Workers, Finish(w)
  PROVE  req' \in [Workers -> Requests]
BY DEF TablesOK, Finish, Requests

LEMMA CreateType ==
  ASSUME TablesOK, Create \/ CreateManagerBatch \/ CreateAdminDirect
  PROVE  TablesOK'
<1>1. CASE Create
  BY <1>1, RequestedIsRow DEF Create, FreshLines, TablesOK
<1>2. CASE CreateManagerBatch
  <2>0. PICK cart \in Carts, dst \in Branches :
          \E qty \in [DOMAIN cart -> Quantities] :
            line' = [l \in Lines |->
                       IF l \in DOMAIN cart THEN Requested(cart[l], dst, qty[l])
                                            ELSE line[l]]
    BY <1>2 DEF CreateManagerBatch
  <2>1. PICK qty \in [DOMAIN cart -> Quantities] :
          line' = [l \in Lines |->
                     IF l \in DOMAIN cart THEN Requested(cart[l], dst, qty[l])
                                          ELSE line[l]]
    BY <2>0
  <2>2. \A l \in DOMAIN cart : cart[l] \in Products
    BY <2>1 DEF Carts
  <2>3. line' \in [Lines -> LineRow \cup {NoLine}]
    BY <2>1, <2>2, RequestedIsRow DEF TablesOK
  <2>4. QED
    BY <1>2, <2>3 DEF CreateManagerBatch, TablesOK
<1>3. CASE CreateAdminDirect
  <2>0. PICK cart \in Carts, src \in Branches, dst \in Branches :
          \E qty \in [DOMAIN cart -> Quantities] :
            line' = [l \in Lines |->
                       IF l \in DOMAIN cart
                         THEN PreApproved(cart[l], src, dst, qty[l])
                         ELSE line[l]]
    BY <1>3 DEF CreateAdminDirect
  <2>1. PICK qty \in [DOMAIN cart -> Quantities] :
          line' = [l \in Lines |->
                     IF l \in DOMAIN cart
                       THEN PreApproved(cart[l], src, dst, qty[l])
                       ELSE line[l]]
    BY <2>0
  <2>2. \A l \in DOMAIN cart : cart[l] \in Products
    BY <2>1 DEF Carts
  <2>3. line' \in [Lines -> LineRow \cup {NoLine}]
    BY <2>1, <2>2, PreApprovedIsRow DEF TablesOK
  <2>4. QED
    BY <1>3, <2>3 DEF CreateAdminDirect, TablesOK
<1>4. QED
  BY <1>1, <1>2, <1>3

LEMMA LineRequestType ==
  ASSUME TablesOK, NEW w \in Workers, NEW l \in Lines, LineRequest(w, l)
  PROVE  TablesOK'
<1>1. line[l] \in LineRow
  BY LineIsRow, KnownLineStatus
     DEF LineRequest, Approve, Reject, Cancel, Ship, Receive, LineStatuses
<1>2. ASSUME NEW row \in LineRow, ReadForSave(w, l, row)
      PROVE  TablesOK'
  <2>1. [op |-> "saveLine", id |-> l, row |-> row] \in Requests
    BY DEF Requests
  <2>2. QED
    BY <1>2, <2>1, BeginType DEF ReadForSave, TablesOK
<1>3. CASE \E src \in Branches, q \in Quantities : Approve(w, l, src, q)
  BY <1>1, <1>2, <1>3, RowUpdates DEF Approve, LineStatuses
<1>4. CASE Reject(w, l) \/ Cancel(w, l)
  <2>1. ASSUME NEW status \in LineStatuses
        PROVE  [line[l] EXCEPT !.status = status] \in LineRow
    BY <1>1 DEF LineRow
  <2>2. QED
    BY <1>2, <1>4, <2>1 DEF Reject, Cancel, LineStatuses
<1>5. CASE Ship(w, l) \/ Receive(w, l)
  <2>1. /\ [op |-> "ship", id |-> l, row |-> line[l]] \in Requests
        /\ [op |-> "receive", id |-> l, row |-> line[l]] \in Requests
    BY <1>1 DEF Requests
  <2>2. QED
    BY <1>5, <2>1, BeginType DEF Ship, Receive, TablesOK
<1>6. QED
  BY <1>3, <1>4, <1>5 DEF LineRequest

LEMMA CreateFromLinesType ==
  ASSUME TablesOK, NEW w \in Workers, NEW ids \in SUBSET Lines \ {{}},
         NEW src \in Branches, NEW dst \in Branches, NEW courier \in BOOLEAN,
         CreateFromLines(w, ids, src, dst, courier)
  PROVE  TablesOK'
<1>1. [op |-> "link", ids |-> ids, source |-> src, dest |-> dst,
       courier |-> courier] \in Requests
  BY DEF Requests
<1>2. QED
  BY <1>1, BeginType DEF CreateFromLines, TablesOK

LEMMA LinkRequest ==
  ASSUME TablesOK, NEW w \in Workers, req[w].op = "link"
  PROVE  /\ req[w].ids \subseteq Lines
         /\ req[w].source \in Branches
         /\ req[w].dest \in Branches
         /\ req[w].courier \in BOOLEAN
BY DEF TablesOK, Requests, Idle

LEMMA LinkTransactionType ==
  ASSUME TablesOK, NEW w \in Workers, NEW s \in Shipments, LinkTransaction(w, s)
  PROVE  TablesOK'
<1>1. req[w].op = "link"
  BY DEF LinkTransaction
<1>2. \A l \in req[w].ids : [line[l] EXCEPT !.shipment = s] \in LineRow
  BY <1>1, LinkRequest, LineIsRow, KnownLineStatus
     DEF LinkTransaction, LineStatuses, LineRow
<1>3. line' \in [Lines -> LineRow \cup {NoLine}]
  BY <1>2 DEF LinkTransaction, TablesOK
<1>4. [status |-> IF req[w].courier THEN "READY_TO_SHIP" ELSE "PENDING",
       source |-> req[w].source, dest |-> req[w].dest,
       courier |-> req[w].courier] \in ShipmentRow
  BY <1>1, LinkRequest DEF ShipmentRow, ShipmentStatuses
<1>5. shipment' \in [Shipments -> ShipmentRow \cup {NoShipment}]
  BY <1>4 DEF LinkTransaction, TablesOK
<1>6. QED
  BY <1>3, <1>5, FinishType DEF LinkTransaction, TablesOK

LEMMA LockShipmentType ==
  ASSUME TablesOK, NEW w \in Workers, NEW s \in Shipments,
         NEW op \in {"dispatch", "deliver", "return"}, NEW statuses,
         LockShipment(w, s, op, statuses)
  PROVE  TablesOK'
<1> DEFINE r == [op |-> op, id |-> s, lines |-> [l \in Linked(s) |-> line[l]]]
<1>1. Linked(s) \subseteq Lines
  BY DEF Linked
<1>2. \A l \in Linked(s) : line[l] \in LineRow
  BY LineIsRow DEF Linked
<1>3. [l \in Linked(s) |-> line[l]] \in [Linked(s) -> LineRow]
  BY <1>2
<1>4. r \in Requests
  BY <1>1, <1>3 DEF Requests
<1>5. QED
  BY <1>4, BeginType DEF LockShipment, TablesOK

LEMMA ShipmentRequestType ==
  ASSUME TablesOK, NEW w \in Workers, NEW s \in Shipments, ShipmentRequest(w, s)
  PROVE  TablesOK'
<1>1. ASSUME NEW row \in ShipmentRow, ReadShipmentForSave(w, s, row)
      PROVE  TablesOK'
  <2>1. [op |-> "saveShipment", id |-> s, row |-> row] \in Requests
    BY DEF Requests
  <2>2. QED
    BY <1>1, <2>1, BeginType DEF ReadShipmentForSave, TablesOK
<1>2. CASE AssignCourier(w, s)
  <2>1. shipment[s] \in ShipmentRow
    BY <1>2, ShipmentIsRow DEF AssignCourier
  <2>2. [shipment[s] EXCEPT !.courier = TRUE,
           !.status = IF @ = "PENDING" THEN "READY_TO_SHIP" ELSE @] \in ShipmentRow
    BY <2>1 DEF ShipmentRow, ShipmentStatuses
  <2>3. QED
    BY <1>1, <1>2, <2>2 DEF AssignCourier
<1>3. CASE MarkOutForDelivery(w, s)
  <2>1. shipment[s] \in ShipmentRow
    BY <1>3, ShipmentIsRow, KnownShipmentStatus
       DEF MarkOutForDelivery, ShipmentStatuses
  <2>2. [shipment[s] EXCEPT !.status = "OUT_FOR_DELIVERY"] \in ShipmentRow
    BY <2>1 DEF ShipmentRow, ShipmentStatuses
  <2>3. QED
    BY <1>1, <1>3, <2>2 DEF MarkOutForDelivery
<1>4. CASE Dispatch(w, s) \/ Deliver(w, s) \/ ReturnShipment(w, s)
  BY <1>4, LockShipmentType DEF Dispatch, Deliver, ReturnShipment
<1>5. QED
  BY <1>2, <1>3, <1>4 DEF ShipmentRequest

-----------------------------------------------------------------------------
(***************************************************************************)
(* The commits.                                                            *)
(***************************************************************************)
LEMMA LineRequestFields ==
  ASSUME TablesOK, NEW w \in Workers, req[w].op \in {"saveLine", "ship", "receive"}
  PROVE  req[w].id \in Lines /\ req[w].row \in LineRow
BY DEF TablesOK, Requests, Idle

LEMMA ShipmentSaveFields ==
  ASSUME TablesOK, NEW w \in Workers, req[w].op = "saveShipment"
  PROVE  req[w].id \in Shipments /\ req[w].row \in ShipmentRow
BY DEF TablesOK, Requests, Idle

LEMMA LockFields ==
  ASSUME TablesOK, NEW w \in Workers, req[w].op \in {"dispatch", "deliver", "return"}
  PROVE  /\ req[w].id \in Shipments
         /\ DOMAIN req[w].lines \subseteq Lines
         /\ \A l \in DOMAIN req[w].lines : req[w].lines[l] \in LineRow
<1>1. /\ req[w].id \in Shipments
      /\ req[w].lines \in UNION {[ids -> LineRow] : ids \in SUBSET Lines}
  BY DEF TablesOK, Requests, Idle
<1>2. PICK ids \in SUBSET Lines : req[w].lines \in [ids -> LineRow]
  BY <1>1
<1>3. QED
  BY <1>1, <1>2

LEMMA LineCommitType ==
  ASSUME TablesOK, NEW w \in Workers,
         SaveLine(w) \/ ShipTransaction(w) \/ ReceiveTransaction(w)
  PROVE  TablesOK'
<1>1. CASE SaveLine(w)
  BY <1>1, LineRequestFields, FinishType DEF SaveLine, TablesOK
<1>2. ASSUME NEW l \in Lines, NEW status \in LineStatuses,
             line[l].status \in LineStatuses,
             line' = [line EXCEPT ![l].status = status]
      PROVE  line' \in [Lines -> LineRow \cup {NoLine}]
  <2>1. line[l] \in LineRow
    BY <1>2, LineIsRow, KnownLineStatus
  <2>2. [line[l] EXCEPT !.status = status] \in LineRow
    BY <2>1 DEF LineRow
  <2>3. QED
    BY <1>2, <2>2 DEF TablesOK
<1>3. CASE ShipTransaction(w) \/ ReceiveTransaction(w)
  <2>1. req[w].id \in Lines
    BY <1>3, LineRequestFields DEF ShipTransaction, ReceiveTransaction
  <2>2. line' \in [Lines -> LineRow \cup {NoLine}]
    BY <1>2, <1>3, <2>1 DEF ShipTransaction, ReceiveTransaction, LineStatuses
  <2>3. QED
    BY <1>3, <2>2, FinishType DEF ShipTransaction, ReceiveTransaction, TablesOK
<1>4. QED
  BY <1>1, <1>3

LEMMA ShipmentUpdateType ==
  ASSUME TablesOK, NEW s \in Shipments, NEW status \in ShipmentStatuses,
         shipment[s] # NoShipment,
         shipment' = [shipment EXCEPT ![s].status = status]
  PROVE  shipment' \in [Shipments -> ShipmentRow \cup {NoShipment}]
<1>1. [shipment[s] EXCEPT !.status = status] \in ShipmentRow
  BY ShipmentIsRow DEF ShipmentRow
<1>2. QED
  BY <1>1 DEF TablesOK

LEMMA ShipmentCommitType ==
  ASSUME TablesOK, LockInv, NEW w \in Workers,
         DispatchTransaction(w) \/ DeliverTransaction(w) \/ ReturnTransaction(w)
  PROVE  TablesOK'
<1>1. /\ req[w].id \in Shipments
      /\ DOMAIN req[w].lines \subseteq Lines
      /\ \A l \in DOMAIN req[w].lines : req[w].lines[l] \in LineRow
  BY LockFields DEF DispatchTransaction, DeliverTransaction, ReturnTransaction
<1>2. shipment[req[w].id] # NoShipment
  BY <1>1, KnownShipmentStatus
     DEF LockInv, LockOps, DispatchTransaction, DeliverTransaction, ReturnTransaction,
         ShipmentStatuses
<1>3. \A row \in LineRow :
        /\ [row EXCEPT !.status = "IN_TRANSIT"] \in LineRow
        /\ [row EXCEPT !.status = "COMPLETED"] \in LineRow
        /\ [row EXCEPT !.status = "APPROVED", !.shipment = None] \in LineRow
  BY DEF LineRow, LineStatuses
<1>4. CASE DispatchTransaction(w)
  <2>1. shipment' \in [Shipments -> ShipmentRow \cup {NoShipment}]
    BY <1>1, <1>2, <1>4, ShipmentUpdateType
       DEF DispatchTransaction, CommitShipment, ShipmentStatuses
  <2>2. line' \in [Lines -> LineRow \cup {NoLine}]
    BY <1>1, <1>3, <1>4 DEF DispatchTransaction, CommitShipment, TablesOK
  <2>3. QED
    BY <1>4, <2>1, <2>2, FinishType
       DEF DispatchTransaction, CommitShipment, TablesOK
<1>5. CASE DeliverTransaction(w)
  <2>1. shipment' \in [Shipments -> ShipmentRow \cup {NoShipment}]
    BY <1>1, <1>2, <1>5, ShipmentUpdateType
       DEF DeliverTransaction, CommitShipment, ShipmentStatuses
  <2>2. line' \in [Lines -> LineRow \cup {NoLine}]
    BY <1>1, <1>3, <1>5 DEF DeliverTransaction, CommitShipment, TablesOK
  <2>3. QED
    BY <1>5, <2>1, <2>2, FinishType
       DEF DeliverTransaction, CommitShipment, TablesOK
<1>6. CASE ReturnTransaction(w)
  <2>1. shipment' \in [Shipments -> ShipmentRow \cup {NoShipment}]
    BY <1>1, <1>2, <1>6, ShipmentUpdateType
       DEF ReturnTransaction, CommitShipment, ShipmentStatuses
  <2>2. line' \in [Lines -> LineRow \cup {NoLine}]
    BY <1>1, <1>3, <1>6 DEF ReturnTransaction, CommitShipment, TablesOK
  <2>3. QED
    BY <1>6, <2>1, <2>2, FinishType
       DEF ReturnTransaction, CommitShipment, TablesOK
<1>7. QED
  BY <1>4, <1>5, <1>6

LEMMA OtherStepsType ==
  ASSUME TablesOK,
         \/ \E w \in Workers : SaveShipment(w) \/ Abort(w)
         \/ \E s \in Shipments : CancelShipment(s)
         \/ \E p \in Products, b \in Branches, q \in Quantities : Sale(p, b, q)
         \/ UNCHANGED vars
  PROVE  TablesOK'
<1>1. CASE \E w \in Workers : SaveShipment(w)
  <2>1. PICK w \in Workers : SaveShipment(w)
    BY <1>1
  <2>2. req[w].id \in Shipments /\ req[w].row \in ShipmentRow
    BY <2>1, ShipmentSaveFields DEF SaveShipment
  <2>3. QED
    BY <2>1, <2>2, FinishType DEF SaveShipment, TablesOK
<1>2. CASE \E w \in Workers : Abort(w)
  BY <1>2, FinishType DEF Abort, TablesOK
<1>3. CASE \E s \in Shipments : CancelShipment(s)
  <2>1. PICK s \in Shipments : CancelShipment(s)
    BY <1>3
  <2>2. shipment' \in [Shipments -> ShipmentRow \cup {NoShipment}]
    BY <2>1, KnownShipmentStatus, ShipmentUpdateType
       DEF CancelShipment, ShipmentStatuses
  <2>3. \A l \in Linked(s) : [line[l] EXCEPT !.shipment = None] \in LineRow
    BY LineIsRow DEF Linked, LineRow
  <2>4. line' \in [Lines -> LineRow \cup {NoLine}]
    BY <2>1, <2>3 DEF CancelShipment, TablesOK
  <2>5. QED
    BY <2>1, <2>2, <2>4 DEF CancelShipment, TablesOK
<1>4. CASE \E p \in Products, b \in Branches, q \in Quantities : Sale(p, b, q)
  BY <1>4, QuantitiesAssumption, SMT DEF Sale, TablesOK, Scale
<1>5. CASE UNCHANGED vars
  BY <1>5 DEF vars, TablesOK
<1>6. QED
  BY <1>1, <1>2, <1>3, <1>4, <1>5

LEMMA TablesStep ==
  ASSUME TablesOK, LockInv, [Next]_vars
  PROVE  TablesOK'
BY CreateType, LineRequestType, CreateFromLinesType, LinkTransactionType,
   ShipmentRequestType, LineCommitType, ShipmentCommitType, OtherStepsType
   DEF Next, Commit

-----------------------------------------------------------------------------
(***************************************************************************)
(* The shipment row's lock.                                                *)
(***************************************************************************)
\* A request that starts or ends without holding a lock disturbs no lock, and
\* neither does a write to a shipment that nobody has locked.
LEMMA LockFrame ==
  ASSUME TablesOK, LockInv,
         req' = req \/ \E w \in Workers : \E r :
                         /\ r.op \notin LockOps
                         /\ req' = [req EXCEPT ![w] = r],
         \A w \in Workers :
           (req[w].op \in LockOps /\ req'[w] = req[w]) =>
             shipment'[req[w].id] = shipment[req[w].id]
  PROVE  LockInv'
<1>1. \A w \in Workers : req'[w].op \in LockOps => req'[w] = req[w]
  BY DEF TablesOK
<1>2. QED
  BY <1>1 DEF LockInv

LEMMA LockTaken ==
  ASSUME TablesOK, LockInv, NEW w \in Workers, NEW s \in Shipments,
         NEW op \in LockOps,
         NEW statuses \in SUBSET {"READY_TO_SHIP", "DISPATCHED", "OUT_FOR_DELIVERY"},
         LockShipment(w, s, op, statuses)
  PROVE  LockInv'
<1>1. /\ req'[w].op = op /\ req'[w].id = s
      /\ \A v \in Workers \ {w} : req'[v] = req[v]
      /\ req[w] = Idle /\ shipment' = shipment
  BY DEF LockShipment, Begin, TablesOK
<1>2. \A v \in Workers : req[v].op \in LockOps => req[v].id # s
  BY DEF LockShipment, Locked, LockOps
<1>3. shipment[s].status \in {"READY_TO_SHIP", "DISPATCHED", "OUT_FOR_DELIVERY"}
  BY DEF LockShipment
<1>4. QED
  BY <1>1, <1>2, <1>3 DEF LockInv

LEMMA FinishIsUnlock ==
  ASSUME NEW w \in Workers, Finish(w)
  PROVE  \E v \in Workers : \E r : r.op \notin LockOps /\ req' = [req EXCEPT ![v] = r]
BY DEF Finish, Idle, LockOps

LEMMA LockStep ==
  ASSUME TablesOK, LockInv, [Next]_vars
  PROVE  LockInv'
<1>1. CASE Create \/ CreateManagerBatch \/ CreateAdminDirect
  BY <1>1, LockFrame DEF Create, CreateManagerBatch, CreateAdminDirect
<1>2. ASSUME NEW w \in Workers, NEW l \in Lines, LineRequest(w, l)
      PROVE  LockInv'
  <2>1. shipment' = shipment /\ \E r : r.op \notin LockOps /\ req' = [req EXCEPT ![w] = r]
    BY <1>2 DEF LineRequest, Approve, Reject, Cancel, Ship, Receive,
                ReadForSave, Begin, LockOps
  <2>2. QED
    BY <2>1, LockFrame
<1>3. ASSUME NEW w \in Workers, NEW ids \in SUBSET Lines \ {{}},
             NEW src \in Branches, NEW dst \in Branches, NEW courier \in BOOLEAN,
             CreateFromLines(w, ids, src, dst, courier)
      PROVE  LockInv'
  <2>1. shipment' = shipment /\ \E r : r.op \notin LockOps /\ req' = [req EXCEPT ![w] = r]
    BY <1>3 DEF CreateFromLines, Begin, LockOps
  <2>2. QED
    BY <2>1, LockFrame
<1>4. ASSUME NEW w \in Workers, NEW s \in Shipments, LinkTransaction(w, s)
      PROVE  LockInv'
  <2>1. shipment[s].status = "none"
    BY <1>4 DEF LinkTransaction, NoShipment
  <2>2. \A v \in Workers : req[v].op \in LockOps => req[v].id # s
    BY <2>1 DEF LockInv
  <2>3. \A v \in Workers : req[v].op \in LockOps =>
          shipment'[req[v].id] = shipment[req[v].id]
    BY <1>4, <2>2, LockFields DEF LinkTransaction, TablesOK, LockOps
  <2>4. QED
    BY <1>4, <2>3, FinishIsUnlock, LockFrame DEF LinkTransaction
<1>5. ASSUME NEW w \in Workers, NEW s \in Shipments, ShipmentRequest(w, s)
      PROVE  LockInv'
  <2>1. CASE AssignCourier(w, s) \/ MarkOutForDelivery(w, s)
    <3>1. shipment' = shipment /\ \E r : r.op \notin LockOps /\ req' = [req EXCEPT ![w] = r]
      BY <2>1 DEF AssignCourier, MarkOutForDelivery, ReadShipmentForSave, Begin, LockOps
    <3>2. QED
      BY <3>1, LockFrame
  <2>2. CASE Dispatch(w, s) \/ Deliver(w, s) \/ ReturnShipment(w, s)
    BY <2>2, LockTaken DEF Dispatch, Deliver, ReturnShipment, LockOps
  <2>3. QED
    BY <1>5, <2>1, <2>2 DEF ShipmentRequest
<1>6. ASSUME NEW w \in Workers, SaveLine(w) \/ ShipTransaction(w)
                                  \/ ReceiveTransaction(w) \/ Abort(w)
      PROVE  LockInv'
  BY <1>6, FinishIsUnlock, LockFrame
     DEF SaveLine, ShipTransaction, ReceiveTransaction, Abort
<1>7. ASSUME NEW w \in Workers, SaveShipment(w)
      PROVE  LockInv'
  <2>1. \A v \in Workers : req[v].op \in LockOps => req[v].id # req[w].id
    BY <1>7 DEF SaveShipment, Locked, LockOps
  <2>2. \A v \in Workers : req[v].op \in LockOps =>
          shipment'[req[v].id] = shipment[req[v].id]
    BY <1>7, <2>1, LockFields DEF SaveShipment, TablesOK, LockOps
  <2>3. QED
    BY <1>7, <2>2, FinishIsUnlock, LockFrame DEF SaveShipment
<1>8. ASSUME NEW w \in Workers,
             DispatchTransaction(w) \/ DeliverTransaction(w) \/ ReturnTransaction(w)
      PROVE  LockInv'
  <2>1. /\ req[w].op \in LockOps
        /\ Finish(w)
        /\ \E status : shipment' = [shipment EXCEPT ![req[w].id].status = status]
    BY <1>8 DEF DispatchTransaction, DeliverTransaction, ReturnTransaction,
                CommitShipment, LockOps
  <2>2. \A v \in Workers : (req[v].op \in LockOps /\ v # w) => req[v].id # req[w].id
    BY <2>1 DEF LockInv
  <2>3. req'[w] # req[w]
    BY <2>1 DEF Finish, Idle, LockOps, TablesOK
  <2>4. \A v \in Workers : (req[v].op \in LockOps /\ v # w) =>
          shipment'[req[v].id] = shipment[req[v].id]
    BY <2>1, <2>2, LockFields DEF TablesOK, LockOps
  <2>5. QED
    BY <2>1, <2>3, <2>4, FinishIsUnlock, LockFrame
<1>9. ASSUME NEW s \in Shipments, CancelShipment(s)
      PROVE  LockInv'
  <2>1. \A v \in Workers : req[v].op \in LockOps => req[v].id # s
    BY <1>9 DEF CancelShipment, Locked, LockOps
  <2>2. \A v \in Workers : req[v].op \in LockOps =>
          shipment'[req[v].id] = shipment[req[v].id]
    BY <1>9, <2>1, LockFields DEF CancelShipment, TablesOK, LockOps
  <2>3. QED
    BY <1>9, <2>2, LockFrame DEF CancelShipment
<1>10. CASE \E p \in Products, b \in Branches, q \in Quantities : Sale(p, b, q)
  BY <1>10, LockFrame DEF Sale
<1>11. CASE UNCHANGED vars
  BY <1>11, LockFrame DEF vars
<1>12. QED
  BY <1>1, <1>2, <1>3, <1>4, <1>5, <1>6, <1>7, <1>8, <1>9, <1>10, <1>11
     DEF Next, Commit

-----------------------------------------------------------------------------
(***************************************************************************)
(* Reviewed lines.                                                         *)
(***************************************************************************)
\* The changes the handlers make to a reviewed row leave it reviewed.
LEMMA ReviewedUpdates ==
  ASSUME NEW row \in LineRow, Reviewed(row)
  PROVE  /\ \A s : Reviewed([row EXCEPT !.shipment = s])
         /\ \A status \in {"REJECTED", "CANCELLED"} :
              Reviewed([row EXCEPT !.status = status])
         /\ row.status \in {"APPROVED", "IN_TRANSIT"} =>
              /\ Reviewed([row EXCEPT !.status = "IN_TRANSIT"])
              /\ Reviewed([row EXCEPT !.status = "COMPLETED"])
              /\ \A s : Reviewed([row EXCEPT !.status = "APPROVED",
                                             !.shipment = s])
BY DEF Reviewed, LineRow

\* A step that starts or ends one request and does not touch the lines.
LEMMA ReviewedFrame ==
  ASSUME TablesOK, ReviewedInv, line' = line,
         req' = req \/ \E w \in Workers : \E r :
                         ReviewedRequest(r) /\ req' = [req EXCEPT ![w] = r]
  PROVE  ReviewedInv'
<1>1. \A w \in Workers : ReviewedRequest(req'[w])
  BY DEF ReviewedInv, TablesOK
<1>2. ReviewedLines'
  BY DEF ReviewedInv, ReviewedLines
<1>3. QED
  BY <1>1, <1>2 DEF ReviewedInv, ReviewedRequest

LEMMA IdleIsReviewed == ReviewedRequest(Idle)
BY DEF ReviewedRequest, Idle

LEMMA FinishReviewed ==
  ASSUME TablesOK, ReviewedInv, NEW w \in Workers, Finish(w)
  PROVE  \A v \in Workers : ReviewedRequest(req'[v])
BY IdleIsReviewed DEF Finish, ReviewedInv, TablesOK

LEMMA ReviewedLineRequest ==
  ASSUME TablesOK, ReviewedInv, NEW w \in Workers, NEW l \in Lines,
         LineRequest(w, l)
  PROVE  ReviewedInv'
<1>1. line[l] \in LineRow
  BY LineIsRow, KnownLineStatus
     DEF LineRequest, Approve, Reject, Cancel, Ship, Receive, LineStatuses
<1>2. Reviewed(line[l])
  BY <1>1 DEF ReviewedInv, ReviewedLines, LineRow, NoLine, LineStatuses
<1>3. ASSUME NEW row, Reviewed(row), ReadForSave(w, l, row)
      PROVE  ReviewedInv'
  <2>1. ReviewedRequest([op |-> "saveLine", id |-> l, row |-> row])
    BY <1>3 DEF ReviewedRequest
  <2>2. QED
    BY <1>3, <2>1, ReviewedFrame DEF ReadForSave, Begin
<1>4. CASE \E src \in Branches, q \in Quantities : Approve(w, l, src, q)
  <2>1. PICK src \in Branches, q \in Quantities : Approve(w, l, src, q)
    BY <1>4
  <2>2. q \in Nat /\ 1 <= q /\ q <= line[l].requested /\ line[l].requested \in Nat
    BY <1>1, <2>1, QuantitiesAssumption DEF Approve, LineRow
  <2>3. src # line[l].dest
    BY <2>1 DEF Approve
  <2>4. Reviewed([line[l] EXCEPT !.status = "APPROVED", !.source = src,
                                 !.approved = q])
    BY <1>1, <2>2, <2>3 DEF Reviewed, LineRow
  <2>5. QED
    BY <1>3, <2>1, <2>4 DEF Approve
<1>5. CASE Reject(w, l) \/ Cancel(w, l)
  BY <1>1, <1>2, <1>3, <1>5, ReviewedUpdates DEF Reject, Cancel
<1>6. CASE Ship(w, l) \/ Receive(w, l)
  <2>1. line[l].status = "APPROVED" =>
          ReviewedRequest([op |-> "ship", id |-> l, row |-> line[l]])
    BY <1>2 DEF ReviewedRequest
  <2>2. line[l].status = "IN_TRANSIT" =>
          ReviewedRequest([op |-> "receive", id |-> l, row |-> line[l]])
    BY <1>2 DEF ReviewedRequest
  <2>3. QED
    BY <1>6, <2>1, <2>2, ReviewedFrame DEF Ship, Receive, Begin
<1>7. QED
  BY <1>4, <1>5, <1>6 DEF LineRequest

LEMMA ReviewedLock ==
  ASSUME TablesOK, ReviewedInv, NEW w \in Workers, NEW s \in Shipments,
         NEW op \in LockOps, NEW statuses, LockShipment(w, s, op, statuses)
  PROVE  ReviewedInv'
<1>1. \A l \in Linked(s) : Reviewed(line[l])
  BY DEF ReviewedInv, ReviewedLines, Linked
<1>2. ReviewedRequest([op |-> op, id |-> s,
                       lines |-> [l \in Linked(s) |-> line[l]]])
  BY <1>1 DEF ReviewedRequest, LockOps
<1>3. QED
  BY <1>2, ReviewedFrame DEF LockShipment, Begin

LEMMA ReviewedRequests ==
  ASSUME TablesOK, ReviewedInv, NEW w \in Workers
  PROVE  /\ \A s \in Shipments : ShipmentRequest(w, s) => ReviewedInv'
         /\ \A ids \in SUBSET Lines \ {{}}, src \in Branches, dst \in Branches,
               courier \in BOOLEAN :
              CreateFromLines(w, ids, src, dst, courier) => ReviewedInv'
<1>1. ASSUME NEW s \in Shipments, ShipmentRequest(w, s)
      PROVE  ReviewedInv'
  <2>1. CASE AssignCourier(w, s) \/ MarkOutForDelivery(w, s)
    <3>1. \A row : ReviewedRequest([op |-> "saveShipment", id |-> s, row |-> row])
      BY DEF ReviewedRequest
    <3>2. QED
      BY <2>1, <3>1, ReviewedFrame
         DEF AssignCourier, MarkOutForDelivery, ReadShipmentForSave, Begin
  <2>2. CASE Dispatch(w, s) \/ Deliver(w, s) \/ ReturnShipment(w, s)
    BY <2>2, ReviewedLock DEF Dispatch, Deliver, ReturnShipment, LockOps
  <2>3. QED
    BY <1>1, <2>1, <2>2 DEF ShipmentRequest
<1>2. ASSUME NEW ids \in SUBSET Lines \ {{}}, NEW src \in Branches,
             NEW dst \in Branches, NEW courier \in BOOLEAN,
             CreateFromLines(w, ids, src, dst, courier)
      PROVE  ReviewedInv'
  <2>1. ReviewedRequest([op |-> "link", ids |-> ids, source |-> src,
                         dest |-> dst, courier |-> courier])
    BY DEF ReviewedRequest
  <2>2. QED
    BY <1>2, <2>1, ReviewedFrame DEF CreateFromLines, Begin
<1>3. QED
  BY <1>1, <1>2

\* A step that ends request w (or none) and leaves every line reviewed.
LEMMA ReviewedCommit ==
  ASSUME TablesOK, ReviewedInv,
         req' = req \/ \E w \in Workers : Finish(w),
         \A l \in Lines : line'[l] # NoLine => Reviewed(line'[l])
  PROVE  ReviewedInv'
<1>1. \A v \in Workers : ReviewedRequest(req'[v])
  BY FinishReviewed DEF ReviewedInv
<1>2. QED
  BY <1>1 DEF ReviewedInv, ReviewedLines, ReviewedRequest, Reviewed

LEMMA ReviewedCreate ==
  ASSUME TablesOK, ReviewedInv, Create \/ CreateManagerBatch \/ CreateAdminDirect
  PROVE  ReviewedInv'
<1>1. \A p, dst, q : Reviewed(Requested(p, dst, q))
  BY DEF Reviewed, Requested
<1>2. ASSUME NEW p, NEW src \in Branches, NEW dst \in Branches \ {src},
             NEW q \in Quantities
      PROVE  Reviewed(PreApproved(p, src, dst, q))
  BY QuantitiesAssumption DEF Reviewed, PreApproved, Requested
<1>3. \A l \in Lines : line[l] # NoLine => Reviewed(line[l])
  BY DEF ReviewedInv, ReviewedLines
<1>4. CASE Create
  <2>1. \A l \in Lines : line'[l] # NoLine => Reviewed(line'[l])
    BY <1>1, <1>3, <1>4 DEF Create, FreshLines, TablesOK
  <2>2. QED
    BY <1>4, <2>1, ReviewedCommit DEF Create
<1>5. CASE CreateManagerBatch
  <2>1. \A l \in Lines : line'[l] # NoLine => Reviewed(line'[l])
    BY <1>1, <1>3, <1>5 DEF CreateManagerBatch
  <2>2. QED
    BY <1>5, <2>1, ReviewedCommit DEF CreateManagerBatch
<1>6. CASE CreateAdminDirect
  <2>1. PICK cart \in Carts, src \in Branches, dst \in Branches :
          \E qty \in [DOMAIN cart -> Quantities] :
            /\ src # dst
            /\ line' = [l \in Lines |->
                          IF l \in DOMAIN cart
                            THEN PreApproved(cart[l], src, dst, qty[l])
                            ELSE line[l]]
    BY <1>6 DEF CreateAdminDirect
  <2>2. \A l \in Lines : line'[l] # NoLine => Reviewed(line'[l])
    BY <1>2, <1>3, <2>1
  <2>3. QED
    BY <1>6, <2>2, ReviewedCommit DEF CreateAdminDirect
<1>7. QED
  BY <1>4, <1>5, <1>6

LEMMA ReviewedLineCommit ==
  ASSUME TablesOK, ReviewedInv, NEW w \in Workers,
         SaveLine(w) \/ ShipTransaction(w) \/ ReceiveTransaction(w)
  PROVE  ReviewedInv'
<1>1. \A l \in Lines : line[l] # NoLine => Reviewed(line[l])
  BY DEF ReviewedInv, ReviewedLines
<1>2. CASE SaveLine(w)
  <2>1. Reviewed(req[w].row)
    BY <1>2 DEF SaveLine, ReviewedInv, ReviewedRequest
  <2>2. \A l \in Lines : line'[l] # NoLine => Reviewed(line'[l])
    BY <1>1, <1>2, <2>1 DEF SaveLine, TablesOK
  <2>3. QED
    BY <1>2, <2>2, ReviewedCommit DEF SaveLine
<1>3. CASE ShipTransaction(w) \/ ReceiveTransaction(w)
  <2> DEFINE r == line[req[w].id]
  <2>1. req[w].id \in Lines
    BY <1>3, LineRequestFields DEF ShipTransaction, ReceiveTransaction
  <2>2. r \in LineRow /\ r.status \in {"APPROVED", "IN_TRANSIT"}
    BY <1>3, <2>1, LineIsRow, KnownLineStatus
       DEF ShipTransaction, ReceiveTransaction, LineStatuses
  <2>3. Reviewed(r)
    BY <1>1, <2>1, <2>2 DEF NoLine
  <2>4. line' = [line EXCEPT ![req[w].id] = [r EXCEPT !.status = "IN_TRANSIT"]]
        \/ line' = [line EXCEPT ![req[w].id] = [r EXCEPT !.status = "COMPLETED"]]
    BY <1>3 DEF ShipTransaction, ReceiveTransaction
  <2>5. \A l \in Lines : line'[l] # NoLine => Reviewed(line'[l])
    BY <1>1, <2>1, <2>2, <2>3, <2>4, ReviewedUpdates DEF TablesOK
  <2>6. QED
    BY <1>3, <2>5, ReviewedCommit DEF ShipTransaction, ReceiveTransaction
<1>4. QED
  BY <1>2, <1>3

LEMMA ReviewedShipmentCommit ==
  ASSUME TablesOK, ReviewedInv, NEW w \in Workers,
         DispatchTransaction(w) \/ DeliverTransaction(w) \/ ReturnTransaction(w)
  PROVE  ReviewedInv'
<1>1. \A l \in Lines : line[l] # NoLine => Reviewed(line[l])
  BY DEF ReviewedInv, ReviewedLines
<1>2. \A l \in DOMAIN req[w].lines :
        req[w].lines[l] \in LineRow /\ Reviewed(req[w].lines[l])
  BY LockFields DEF DispatchTransaction, DeliverTransaction, ReturnTransaction,
                    ReviewedInv, ReviewedRequest
<1>3. CASE DispatchTransaction(w)
  <2>1. \A l \in Lines : line'[l] # NoLine => Reviewed(line'[l])
    BY <1>1, <1>2, <1>3, ReviewedUpdates DEF DispatchTransaction, CommitShipment
  <2>2. QED
    BY <1>3, <2>1, ReviewedCommit DEF DispatchTransaction, CommitShipment
<1>4. CASE DeliverTransaction(w)
  <2>1. \A l \in Lines : line'[l] # NoLine => Reviewed(line'[l])
    BY <1>1, <1>2, <1>4, ReviewedUpdates DEF DeliverTransaction, CommitShipment
  <2>2. QED
    BY <1>4, <2>1, ReviewedCommit DEF DeliverTransaction, CommitShipment
<1>5. CASE ReturnTransaction(w)
  <2>1. \A l \in Lines : line'[l] # NoLine => Reviewed(line'[l])
    BY <1>1, <1>2, <1>5, ReviewedUpdates DEF ReturnTransaction, CommitShipment
  <2>2. QED
    BY <1>5, <2>1, ReviewedCommit DEF ReturnTransaction, CommitShipment
<1>6. QED
  BY <1>3, <1>4, <1>5

LEMMA ReviewedStep ==
  ASSUME TablesOK, ReviewedInv, [Next]_vars
  PROVE  ReviewedInv'
<1>1. \A l \in Lines : line[l] # NoLine => line[l] \in LineRow /\ Reviewed(line[l])
  BY LineIsRow DEF ReviewedInv, ReviewedLines
<1>2. ASSUME NEW w \in Workers, NEW s \in Shipments, LinkTransaction(w, s)
      PROVE  ReviewedInv'
  <2>1. \A l \in req[w].ids : line[l] # NoLine
    BY <1>2 DEF LinkTransaction, NoLine
  <2>2. \A l \in Lines : line'[l] # NoLine => Reviewed(line'[l])
    BY <1>1, <1>2, <2>1, ReviewedUpdates DEF LinkTransaction
  <2>3. QED
    BY <1>2, <2>2, ReviewedCommit DEF LinkTransaction
<1>3. ASSUME NEW s \in Shipments, CancelShipment(s)
      PROVE  ReviewedInv'
  <2>1. \A l \in Lines : line'[l] # NoLine => Reviewed(line'[l])
    BY <1>1, <1>3, ReviewedUpdates DEF CancelShipment, Linked
  <2>2. QED
    BY <1>3, <2>1, ReviewedCommit DEF CancelShipment
<1>4. ASSUME \/ \E w \in Workers : SaveShipment(w) \/ Abort(w)
             \/ \E p \in Products, b \in Branches, q \in Quantities : Sale(p, b, q)
             \/ UNCHANGED vars
      PROVE  ReviewedInv'
  BY <1>1, <1>4, ReviewedCommit DEF SaveShipment, Abort, Sale, vars
<1>5. QED
  BY <1>2, <1>3, <1>4, ReviewedCreate, ReviewedLineRequest, ReviewedRequests,
     ReviewedLineCommit, ReviewedShipmentCommit DEF Next, Commit

-----------------------------------------------------------------------------
(***************************************************************************)
(* The inventory.                                                          *)
(***************************************************************************)
LEMMA CoveredDebit ==
  ASSUME NEW v \in Nat \cup {NoRow}, NEW q \in Nat, Covers(v, q)
  PROVE  v - Scale * q \in Nat
BY SMT DEF Covers, NoRow, Scale

LEMMA StockStep ==
  ASSUME TablesOK, ReviewedInv, StockInv, [Next]_vars
  PROVE  StockInv'
<1>1. ASSUME NEW w \in Workers, ShipTransaction(w)
      PROVE  StockInv'
  <2> DEFINE q == req[w].row.approved
             key == <<req[w].row.product, req[w].row.source>>
  <2>1. req[w].row \in LineRow
    BY <1>1, LineRequestFields DEF ShipTransaction
  <2>2. Reviewed(req[w].row) /\ req[w].row.status = "APPROVED"
    BY <1>1 DEF ShipTransaction, ReviewedInv, ReviewedRequest
  <2>3. key \in Products \X Branches
    BY <2>1, <2>2 DEF LineRow, Reviewed
  <2>4. q \in Nat
    BY <2>1, QuantitiesAssumption DEF LineRow
  <2>5. stock[key] - Scale * q \in Nat
    BY <1>1, <2>3, <2>4, CoveredDebit DEF ShipTransaction, StockInv, Inventories
  <2>6. QED
    BY <1>1, <2>3, <2>5 DEF ShipTransaction, StockInv, Inventories
<1>2. ASSUME NEW w \in Workers, ReceiveTransaction(w)
      PROVE  StockInv'
  <2> DEFINE q == req[w].row.approved
             key == <<req[w].row.product, req[w].row.dest>>
  <2>1. req[w].row \in LineRow
    BY <1>2, LineRequestFields DEF ReceiveTransaction
  <2>2. Reviewed(req[w].row) /\ req[w].row.status = "IN_TRANSIT"
    BY <1>2 DEF ReceiveTransaction, ReviewedInv, ReviewedRequest
  <2>3. key \in Products \X Branches
    BY <2>1 DEF LineRow
  <2>4. req[w].row.requested \in Int
    BY <2>1, QuantitiesAssumption DEF LineRow
  <2>5. q \in 1 .. req[w].row.requested
    BY <2>2 DEF Reviewed
  <2>6. q # 0 /\ q \in Quantities \cup {0}
    BY <2>1, <2>4, <2>5 DEF LineRow
  <2>7. q \in Nat /\ 1 <= q /\ q <= MaxQuantity
    BY <2>6, QuantitiesAssumption
  <2>8. \A v \in Nat \cup {NoRow} : Credited(v, q) \in Nat
    BY <2>7, CreditedIsNat
  <2>9. QED
    BY <1>2, <2>3, <2>8 DEF ReceiveTransaction, StockInv, Inventories
<1>3. ASSUME NEW w \in Workers,
             DispatchTransaction(w) \/ DeliverTransaction(w) \/ ReturnTransaction(w)
      PROVE  StockInv'
  BY <1>3 DEF DispatchTransaction, DeliverTransaction, ReturnTransaction,
              CommitShipment, StockInv, Inventories
<1>4. ASSUME NEW p \in Products, NEW b \in Branches, NEW q \in Quantities,
             Sale(p, b, q)
      PROVE  StockInv'
  <2>1. stock[<<p, b>>] - Scale * q \in Nat
    BY <1>4, CoveredDebit, QuantitiesAssumption DEF Sale, StockInv, Inventories
  <2>2. QED
    BY <1>4, <2>1 DEF Sale, StockInv, Inventories
<1>5. ASSUME stock' = stock
      PROVE  StockInv'
  BY <1>5 DEF StockInv, Inventories
<1>6. ASSUME NEW w \in Workers, NEW l \in Lines, LineRequest(w, l)
      PROVE  stock' = stock
  BY <1>6 DEF LineRequest, Approve, Reject, Cancel, Ship, Receive, ReadForSave
<1>7. ASSUME NEW w \in Workers, NEW s \in Shipments, ShipmentRequest(w, s)
      PROVE  stock' = stock
  BY <1>7 DEF ShipmentRequest, AssignCourier, MarkOutForDelivery,
              ReadShipmentForSave, Dispatch, Deliver, ReturnShipment, LockShipment
<1>8. CASE Create \/ CreateManagerBatch \/ CreateAdminDirect
  BY <1>5, <1>8 DEF Create, CreateManagerBatch, CreateAdminDirect
<1>9. QED
  BY <1>1, <1>2, <1>3, <1>4, <1>5, <1>6, <1>7, <1>8
     DEF Next, Commit, CreateFromLines, LinkTransaction, SaveLine, SaveShipment,
         CancelShipment, Abort, vars

-----------------------------------------------------------------------------
(***************************************************************************)
(* The theorems.                                                           *)
(***************************************************************************)
IInv == TablesOK /\ LockInv /\ ReviewedInv /\ StockInv

LEMMA InitIInv == Init => IInv
<1>1. Init => LockInv
  BY DEF Init, LockInv, LockOps, Idle
<1>2. Init => ReviewedInv
  BY IdleIsReviewed DEF Init, ReviewedInv, ReviewedLines
<1>3. Init => StockInv
  BY OpeningAssumption DEF Init, StockInv
<1>4. QED
  BY <1>1, <1>2, <1>3, InitTablesOK DEF IInv

LEMMA Invariance == Spec => []IInv
<1>1. Init => IInv
  BY InitIInv
<1>2. IInv /\ [Next]_vars => IInv'
  BY TablesStep, LockStep, ReviewedStep, StockStep DEF IInv
<1>3. QED
  BY <1>1, <1>2, PTL DEF Spec

\* Type correctness: whatever requests interleave, the tables hold rows and
\* the requests hold what their handler reads.
THEOREM TypeCorrect == Spec => []TypeOK
<1>1. IInv => TypeOK
  BY DEF IInv, TablesOK, StockInv, Inventories, NoRow, TypeOK
<1>2. QED
  BY <1>1, Invariance, PTL

\* No branch ever oversells: ship, dispatch and the tills check and debit a
\* locked inventory row, with any number of them at work.
THEOREM NeverOversells == Spec => []NoOversell
<1>1. IInv => NoOversell
  BY DEF IInv, StockInv, Inventories, NoOversell
<1>2. QED
  BY <1>1, Invariance, PTL

\* The stale saves of approve, reject, cancel and of the shipment handlers
\* never let a line past review without a source and a quantity in range.
THEOREM LinesAreReviewed == Spec => []ReviewedLines
<1>1. IInv => ReviewedLines
  BY DEF IInv, ReviewedInv
<1>2. QED
  BY <1>1, Invariance, PTL

-----------------------------------------------------------------------------
(***************************************************************************)
(* Shipments in a terminal status.  What an unlocked save will write has   *)
(* the shipment's route and was not terminal when it was read.             *)
(***************************************************************************)
SaveOK(row, old) ==
  /\ old # NoShipment /\ row.status \notin TerminalStatuses
  /\ row.source = old.source /\ row.dest = old.dest

SavesOK ==
  \A w \in Workers : req[w].op = "saveShipment" => SaveOK(req[w].row, shipment[req[w].id])

Reopened(s) ==
  \E w \in Workers :
    /\ req[w].op = "saveShipment" /\ req[w].id = s
    /\ shipment'[s] = req[w].row
    /\ shipment'[s].status \notin TerminalStatuses

RouteStep(s) ==
  shipment[s] # NoShipment =>
    /\ shipment'[s] # NoShipment
    /\ shipment'[s].source = shipment[s].source /\ shipment'[s].dest = shipment[s].dest
    /\ (shipment[s].status \in TerminalStatuses /\ shipment'[s] # shipment[s]) => Reopened(s)

LEMMA SavesFrame ==
  ASSUME TablesOK, SavesOK, \A s \in Shipments : RouteStep(s),
         \/ req' = req
         \/ \E w \in Workers : \E r :
              /\ r.op = "saveShipment" => SaveOK(r.row, shipment'[r.id])
              /\ req' = [req EXCEPT ![w] = r]
  PROVE  SavesOK'
<1>1. ASSUME NEW v \in Workers, req'[v].op = "saveShipment", req'[v] = req[v]
      PROVE  SaveOK(req'[v].row, shipment'[req'[v].id])
  BY <1>1, ShipmentSaveFields DEF SavesOK, SaveOK, RouteStep
<1>2. CASE req' = req
  BY <1>1, <1>2 DEF SavesOK
<1>3. ASSUME NEW w \in Workers, NEW r, req' = [req EXCEPT ![w] = r],
             r.op = "saveShipment" => SaveOK(r.row, shipment'[r.id])
      PROVE  SavesOK'
  <2>1. \A v \in Workers : req'[v] = IF v = w THEN r ELSE req[v]
    BY <1>3 DEF TablesOK
  <2>2. QED
    BY <1>1, <1>3, <2>1 DEF SavesOK
<1>4. QED
  BY <1>2, <1>3

LEMMA SameShipments ==
  ASSUME shipment' = shipment
  PROVE  \A s \in Shipments : RouteStep(s)
BY DEF RouteStep

LEMMA ShipmentReadSaves ==
  ASSUME TablesOK, SavesOK, NEW w \in Workers, NEW s \in Shipments, ShipmentRequest(w, s)
  PROVE  SavesOK' /\ \A t \in Shipments : RouteStep(t)
<1>1. shipment' = shipment
  BY DEF ShipmentRequest, AssignCourier, MarkOutForDelivery, ReadShipmentForSave,
         Dispatch, Deliver, ReturnShipment, LockShipment
<1>2. CASE Dispatch(w, s) \/ Deliver(w, s) \/ ReturnShipment(w, s)
  <2>1. \E r : r.op # "saveShipment" /\ req' = [req EXCEPT ![w] = r]
    BY <1>2 DEF Dispatch, Deliver, ReturnShipment, LockShipment, Begin
  <2>2. QED
    BY <1>1, <2>1, SavesFrame, SameShipments
<1>3. ASSUME NEW row, SaveOK(row, shipment[s]), ReadShipmentForSave(w, s, row)
      PROVE  SavesOK'
  <2>1. \E r : /\ r.op = "saveShipment" => SaveOK(r.row, shipment'[r.id])
               /\ req' = [req EXCEPT ![w] = r]
    BY <1>1, <1>3 DEF ReadShipmentForSave, Begin
  <2>2. QED
    BY <1>1, <2>1, SavesFrame, SameShipments
<1>4. CASE AssignCourier(w, s)
  <2>1. shipment[s] \in ShipmentRow /\ shipment[s].status \notin TerminalStatuses
    BY <1>4, ShipmentIsRow DEF AssignCourier
  <2> DEFINE row == [shipment[s] EXCEPT !.courier = TRUE,
                       !.status = IF @ = "PENDING" THEN "READY_TO_SHIP" ELSE @]
  <2>2. SaveOK(row, shipment[s])
    BY <1>4, <2>1 DEF SaveOK, ShipmentRow, TerminalStatuses, AssignCourier
  <2>3. QED
    BY <1>1, <1>3, <1>4, <2>2, SameShipments DEF AssignCourier
<1>5. CASE MarkOutForDelivery(w, s)
  <2>1. shipment[s] # NoShipment /\ shipment[s] \in ShipmentRow
    BY <1>5, ShipmentIsRow, KnownShipmentStatus DEF MarkOutForDelivery, ShipmentStatuses
  <2> DEFINE row == [shipment[s] EXCEPT !.status = "OUT_FOR_DELIVERY"]
  <2>2. SaveOK(row, shipment[s])
    BY <2>1 DEF SaveOK, ShipmentRow, TerminalStatuses
  <2>3. QED
    BY <1>1, <1>3, <1>5, <2>2, SameShipments DEF MarkOutForDelivery
<1>6. QED
  BY <1>1, <1>2, <1>4, <1>5, SameShipments DEF ShipmentRequest

\* The endpoints that hold the lock find the row open.
LEMMA ShipmentWritesSaves ==
  ASSUME TablesOK, LockInv, SavesOK, NEW w \in Workers,
         \/ \E s \in Shipments : LinkTransaction(w, s)
         \/ DispatchTransaction(w) \/ DeliverTransaction(w) \/ ReturnTransaction(w)
         \/ SaveShipment(w)
  PROVE  SavesOK' /\ \A s \in Shipments : RouteStep(s)
<1>1. req' = [req EXCEPT ![w] = Idle] /\ Idle.op # "saveShipment"
  BY DEF LinkTransaction, DispatchTransaction, DeliverTransaction, ReturnTransaction,
         CommitShipment, SaveShipment, Finish, Idle
<1>2. ASSUME \A s \in Shipments : RouteStep(s)
      PROVE  SavesOK'
  BY <1>1, <1>2, SavesFrame
<1>3. ASSUME NEW s \in Shipments, LinkTransaction(w, s)
      PROVE  \A t \in Shipments : RouteStep(t)
  <2>1. shipment[s] = NoShipment /\ \A t \in Shipments : t # s => shipment'[t] = shipment[t]
    BY <1>3 DEF LinkTransaction, TablesOK
  <2>2. QED
    BY <2>1 DEF RouteStep
<1>4. CASE DispatchTransaction(w) \/ DeliverTransaction(w) \/ ReturnTransaction(w)
  <2>1. /\ req[w].op \in LockOps
        /\ \E status : shipment' = [shipment EXCEPT ![req[w].id].status = status]
    BY <1>4 DEF DispatchTransaction, DeliverTransaction, ReturnTransaction,
                CommitShipment, LockOps
  <2>2. PICK status : shipment' = [shipment EXCEPT ![req[w].id].status = status]
    BY <2>1
  <2>3. PICK s \in Shipments : s = req[w].id
    BY <2>1, LockFields DEF LockOps
  <2>4. shipment[s].status \notin TerminalStatuses /\ shipment[s] \in ShipmentRow
    BY <2>1, <2>3, ShipmentIsRow, KnownShipmentStatus
       DEF LockInv, TerminalStatuses, ShipmentStatuses
  <2>5. /\ \A t \in Shipments : t # s => shipment'[t] = shipment[t]
        /\ shipment'[s] = [shipment[s] EXCEPT !.status = status]
    BY <2>2, <2>3 DEF TablesOK
  <2>6. /\ shipment'[s] # NoShipment
        /\ shipment'[s].source = shipment[s].source /\ shipment'[s].dest = shipment[s].dest
    BY <2>4, <2>5 DEF ShipmentRow, NoShipment
  <2>7. QED
    BY <1>2, <2>4, <2>5, <2>6 DEF RouteStep
<1>5. CASE SaveShipment(w)
  <2>1. PICK s \in Shipments, row \in ShipmentRow :
          s = req[w].id /\ row = req[w].row /\ req[w].op = "saveShipment"
    BY <1>5, ShipmentSaveFields DEF SaveShipment
  <2>2. SaveOK(row, shipment[s]) /\ row # NoShipment
    BY <2>1, ShipmentSaveFields DEF SavesOK, ShipmentRow, ShipmentStatuses, NoShipment
  <2>3. /\ shipment'[s] = row
        /\ \A t \in Shipments : t # s => shipment'[t] = shipment[t]
    BY <1>5, <2>1 DEF SaveShipment, TablesOK
  <2>4. RouteStep(s)
    BY <2>1, <2>2, <2>3 DEF RouteStep, SaveOK, Reopened
  <2>5. QED
    BY <1>2, <2>3, <2>4 DEF RouteStep
<1>6. QED
  BY <1>2, <1>3, <1>4, <1>5

LEMMA SavesStep ==
  ASSUME IInv, SavesOK, [Next]_vars
  PROVE  SavesOK' /\ \A s \in Shipments : RouteStep(s)
<1>1. ASSUME shipment' = shipment, req' = req
      PROVE  SavesOK' /\ \A s \in Shipments : RouteStep(s)
  BY <1>1, SavesFrame, SameShipments DEF IInv
<1>2. ASSUME NEW w \in Workers, shipment' = shipment,
             \E r : r.op # "saveShipment" /\ req' = [req EXCEPT ![w] = r]
      PROVE  SavesOK' /\ \A s \in Shipments : RouteStep(s)
  BY <1>2, SavesFrame, SameShipments DEF IInv
<1>3. ASSUME NEW w \in Workers, NEW l \in Lines, LineRequest(w, l)
      PROVE  SavesOK' /\ \A s \in Shipments : RouteStep(s)
  <2>1. /\ shipment' = shipment
        /\ \E r : r.op # "saveShipment" /\ req' = [req EXCEPT ![w] = r]
    BY <1>3 DEF LineRequest, Approve, Reject, Cancel, Ship, Receive,
                ReadForSave, Begin
  <2>2. QED
    BY <1>2, <2>1
<1>4. ASSUME NEW w \in Workers, NEW ids \in SUBSET Lines \ {{}},
             NEW src \in Branches, NEW dst \in Branches, NEW courier \in BOOLEAN,
             CreateFromLines(w, ids, src, dst, courier)
      PROVE  SavesOK' /\ \A s \in Shipments : RouteStep(s)
  <2>1. /\ shipment' = shipment
        /\ \E r : r.op # "saveShipment" /\ req' = [req EXCEPT ![w] = r]
    BY <1>4 DEF CreateFromLines, Begin
  <2>2. QED
    BY <1>2, <2>1
<1>5. ASSUME NEW w \in Workers,
             SaveLine(w) \/ ShipTransaction(w) \/ ReceiveTransaction(w) \/ Abort(w)
      PROVE  SavesOK' /\ \A s \in Shipments : RouteStep(s)
  <2>1. /\ shipment' = shipment
        /\ req' = [req EXCEPT ![w] = Idle] /\ Idle.op # "saveShipment"
    BY <1>5 DEF SaveLine, ShipTransaction, ReceiveTransaction, Abort, Finish, Idle
  <2>2. QED
    BY <1>2, <2>1
<1>6. ASSUME NEW s \in Shipments, CancelShipment(s)
      PROVE  SavesOK' /\ \A t \in Shipments : RouteStep(t)
  <2>1. /\ req' = req /\ shipment[s].status \notin TerminalStatuses
        /\ shipment[s] \in ShipmentRow
        /\ \A t \in Shipments : t # s => shipment'[t] = shipment[t]
        /\ shipment'[s] = [shipment[s] EXCEPT !.status = "CANCELLED"]
    BY <1>6, ShipmentIsRow, KnownShipmentStatus
       DEF CancelShipment, TerminalStatuses, ShipmentStatuses, IInv, TablesOK
  <2>2. /\ shipment'[s] # NoShipment
        /\ shipment'[s].source = shipment[s].source /\ shipment'[s].dest = shipment[s].dest
    BY <2>1 DEF ShipmentRow, NoShipment
  <2>3. \A t \in Shipments : RouteStep(t)
    BY <2>1, <2>2 DEF RouteStep
  <2>4. QED
    BY <2>1, <2>3, SavesFrame DEF IInv
<1>7. CASE \/ Create \/ CreateManagerBatch \/ CreateAdminDirect \/ UNCHANGED vars
           \/ \E p \in Products, b \in Branches, q \in Quantities : Sale(p, b, q)
  BY <1>1, <1>7 DEF Create, CreateManagerBatch, CreateAdminDirect, Sale, vars
<1>8. QED
  BY <1>3, <1>4, <1>5, <1>6, <1>7, ShipmentReadSaves, ShipmentWritesSaves
     DEF Next, Commit, IInv

\* However many requests race, none that locks a shipment's row ever moves it out
\* of a delivered, returned or cancelled status: only the save of a courier or of
\* an arrival scan that was read earlier does (couriers' and shipments' services).
THEOREM TerminalShipmentsReopenOnlyBySave == Spec => OnlySavesReopen
<1>1. Init => SavesOK
  BY DEF Init, SavesOK, Idle
<1>2. IInv /\ SavesOK /\ [Next]_vars => SavesOK'
  BY SavesStep
<1>3. IInv /\ SavesOK /\ [Next]_vars =>
        [\A s \in Shipments :
           shipment[s] # NoShipment =>
             /\ shipment'[s].source = shipment[s].source
             /\ shipment'[s].dest = shipment[s].dest
             /\ (shipment[s].status \in TerminalStatuses /\ shipment'[s] # shipment[s]) =>
                  \E w \in Workers :
                    /\ req[w].op = "saveShipment" /\ req[w].id = s
                    /\ shipment'[s] = req[w].row
                    /\ shipment'[s].status \notin TerminalStatuses]_vars
  BY SavesStep DEF RouteStep, Reopened
<1>4. QED
  BY <1>1, <1>2, <1>3, Invariance, PTL DEF Spec, OnlySavesReopen

-----------------------------------------------------------------------------
(***************************************************************************)
(* LockedTransfers: with the rows that a request writes back kept, what it *)
(* writes is the change it means to make of the row as it is.  The lines   *)
(* of a link are not kept: a line past review keeps its branches anyway.   *)
(***************************************************************************)
SameGoods(new, old) ==
  /\ new.product = old.product /\ new.approved = old.approved
  /\ new.source = old.source /\ new.dest = old.dest

SaveOf(row, old) ==
  /\ old \in LineRow /\ old.status \in {"PENDING", "APPROVED"}
  /\ row.status \in {"APPROVED", "REJECTED", "CANCELLED"}
  /\ row.status = "APPROVED" => old.status = "PENDING"
  /\ row.shipment = old.shipment /\ row.dest = old.dest
  /\ old.status = "PENDING" \/ SameGoods(row, old)

ShipmentSaveOf(row, old) ==
  /\ old # NoShipment /\ old.status \notin TerminalStatuses
  /\ row.source = old.source /\ row.dest = old.dest
  /\ \/ row.status = old.status
     \/ old.status = "PENDING" /\ row.status = "READY_TO_SHIP"
     \/ old.status = "DISPATCHED" /\ row.status = "OUT_FOR_DELIVERY"

AsRead(r) ==
  /\ r.op = "saveLine" => SaveOf(r.row, line[r.id])
  /\ r.op \in {"ship", "receive"} =>
       /\ line[r.id] # NoLine /\ line[r.id].status # "PENDING"
       /\ SameGoods(line[r.id], r.row)
  /\ r.op = "saveShipment" => ShipmentSaveOf(r.row, shipment[r.id])
  /\ r.op = "link" =>
       \A l \in r.ids : /\ line[l] # NoLine /\ line[l].status # "PENDING"
                        /\ line[l].source = r.source /\ line[l].dest = r.dest
  /\ r.op \in LockOps =>
       /\ DOMAIN r.lines = Linked(r.id)
       /\ \A l \in Linked(r.id) : r.lines[l] = line[l]
  /\ r.op \in {"deliver", "return"} =>
       shipment[r.id].status \in {"DISPATCHED", "OUT_FOR_DELIVERY"}

\* A line in a shipment agrees with it, and has been reviewed.
Fits(row, s) ==
  /\ row.status # "PENDING"
  /\ s # NoShipment /\ s.source = row.source /\ s.dest = row.dest
  /\ s.status \in {"DISPATCHED", "OUT_FOR_DELIVERY"} => row.status # "APPROVED"
  /\ s.status \in {"DELIVERED", "RETURNED"} => row.status \notin {"APPROVED", "IN_TRANSIT"}
  /\ s.status # "CANCELLED"

ParcelInv ==
  \A l \in Lines : line[l] # NoLine /\ line[l].shipment # None =>
    Fits(line[l], shipment[line[l].shipment])

LockedInv == IInv /\ ParcelInv /\ \A w \in Workers : AsRead(req[w])

LEMMA AsReadFields ==
  ASSUME IInv, NEW w \in Workers
  PROVE  /\ req[w].op \in {"saveLine", "ship", "receive"} =>
              req[w].id \in Lines /\ req[w].row \in LineRow
         /\ req[w].op = "saveShipment" =>
              req[w].id \in Shipments /\ req[w].row \in ShipmentRow
         /\ req[w].op = "link" => req[w].ids \subseteq Lines
         /\ req[w].op \in LockOps =>
              /\ req[w].id \in Shipments
              /\ shipment[req[w].id] # NoShipment
              /\ shipment[req[w].id].status
                   \in {"READY_TO_SHIP", "DISPATCHED", "OUT_FOR_DELIVERY"}
<1>1. TablesOK /\ LockInv
  BY DEF IInv
<1>2. ASSUME req[w].op \in LockOps
      PROVE  /\ req[w].id \in Shipments
             /\ shipment[req[w].id].status
                   \in {"READY_TO_SHIP", "DISPATCHED", "OUT_FOR_DELIVERY"}
             /\ shipment[req[w].id] # NoShipment
  BY <1>1, <1>2, LockFields, KnownShipmentStatus DEF LockInv, LockOps, ShipmentStatuses
<1>3. QED
  BY <1>1, <1>2, LineRequestFields, ShipmentSaveFields, LinkRequest

\* What any step leaves of the lines: none disappears, one past review keeps its
\* goods and its branches, and new lines join new shipments only.
LinesGoOn ==
  \A l \in Lines :
    /\ line[l] # NoLine =>
         /\ line'[l] # NoLine
         /\ line[l].status # "PENDING" =>
              /\ line'[l].status # "PENDING" /\ SameGoods(line'[l], line[l])
    /\ (line'[l] # NoLine /\ line'[l].shipment # None) =>
         \/ line[l] # NoLine /\ line[l].shipment = line'[l].shipment
         \/ shipment[line'[l].shipment] = NoShipment

\* What another request has read stays so.
LEMMA OthersAsRead ==
  ASSUME LockedInv, RowsReadAreKept, LinesGoOn, NEW v \in Workers, req'[v] = req[v],
         req[v].op \in LockOps => shipment'[req[v].id] = shipment[req[v].id]
  PROVE  AsRead(req[v])'
<1> DEFINE r == req[v]
<1>1. AsRead(r) /\ IInv
  BY DEF LockedInv
<1>2. CASE r.op = "saveLine"
  <2>1. line'[r.id] = line[r.id]
    BY <1>2 DEF RowsReadAreKept
  <2>2. QED
    BY <1>1, <1>2, <2>1 DEF AsRead, SaveOf, LockOps
<1>3. CASE r.op = "saveShipment"
  <2>1. shipment'[r.id] = shipment[r.id]
    BY <1>3 DEF RowsReadAreKept
  <2>2. QED
    BY <1>1, <1>3, <2>1 DEF AsRead, ShipmentSaveOf, LockOps
<1>4. CASE r.op = "link"
  BY <1>1, <1>4, AsReadFields DEF AsRead, LinesGoOn, SameGoods, LockOps
<1>8. CASE r.op \in {"ship", "receive"}
  <2>1. /\ r.id \in Lines /\ line[r.id] # NoLine /\ line[r.id].status # "PENDING"
        /\ SameGoods(line[r.id], r.row)
    BY <1>1, <1>8, AsReadFields DEF AsRead
  <2>2. /\ line'[r.id] # NoLine /\ line'[r.id].status # "PENDING"
        /\ SameGoods(line'[r.id], r.row)
    BY <2>1 DEF LinesGoOn, SameGoods
  <2>3. QED
    BY <1>8, <2>2 DEF AsRead, LockOps
<1>5. CASE r.op \in LockOps
  <2>1. /\ r.id \in Shipments /\ shipment[r.id] # NoShipment
        /\ DOMAIN r.lines = Linked(r.id)
        /\ \A l \in Linked(r.id) : r.lines[l] = line[l]
    BY <1>1, <1>5, AsReadFields DEF AsRead
  <2>2. \A l \in Linked(r.id) : line'[l] = line[l]
    BY <1>5, <2>1 DEF RowsReadAreKept, Carrying, LockOps
  <2>3. ASSUME NEW l \in Lines, line'[l] # NoLine, line'[l].shipment = r.id
        PROVE  l \in Linked(r.id)
    BY <2>1, <2>3, NoneAssumption DEF LinesGoOn, Linked
  <2>4. Linked(r.id)' = Linked(r.id)
    BY <2>2, <2>3 DEF Linked
  <2>5. QED
    BY <1>1, <1>5, <2>1, <2>2, <2>4 DEF AsRead, LockOps
<1>6. CASE r.op \notin {"saveLine", "ship", "receive", "saveShipment", "link"} \cup LockOps
  BY <1>6 DEF AsRead, LockOps
<1>7. QED
  BY <1>2, <1>3, <1>4, <1>5, <1>6, <1>8

\* A step of one request, or of none.
LEMMA StepOfOne ==
  ASSUME LockedInv, IInv', ParcelInv', RowsReadAreKept, LinesGoOn,
         NEW w \in Workers, NEW r, req' = [req EXCEPT ![w] = r], AsRead(r)',
         \A v \in Workers : v # w /\ req[v].op \in LockOps =>
           shipment'[req[v].id] = shipment[req[v].id]
  PROVE  LockedInv'
<1>1. req'[w] = r /\ \A v \in Workers : v # w => req'[v] = req[v]
  BY DEF LockedInv, IInv, TablesOK
<1>2. AsRead(req[w])'
  BY <1>1 DEF AsRead
<1>3. \A v \in Workers : AsRead(req[v])'
  BY <1>1, <1>2, OthersAsRead
<1>4. QED
  BY <1>3 DEF LockedInv

LEMMA StepOfNone ==
  ASSUME LockedInv, IInv', ParcelInv', RowsReadAreKept, LinesGoOn, req' = req,
         \A v \in Workers : req[v].op \in LockOps =>
           shipment'[req[v].id] = shipment[req[v].id]
  PROVE  LockedInv'
BY OthersAsRead DEF LockedInv

LEMMA UnchangedLines ==
  ASSUME line' = line
  PROVE  LinesGoOn
BY DEF LinesGoOn, SameGoods

\* A step that only reads.
LEMMA ReadingStep ==
  ASSUME LockedInv, IInv', RowsReadAreKept, UNCHANGED <<line, shipment>>,
         NEW w \in Workers, NEW r, req' = [req EXCEPT ![w] = r], AsRead(r)
  PROVE  LockedInv'
<1>1. ParcelInv'
  BY DEF LockedInv, ParcelInv
<1>2. AsRead(r)'
  BY DEF AsRead, Linked
<1>3. QED
  BY <1>1, <1>2, UnchangedLines, StepOfOne

LEMMA IdleAsRead == AsRead(Idle) /\ AsRead(Idle)'
BY DEF AsRead, Idle, LockOps

LEMMA LineReads ==
  ASSUME LockedInv, IInv', RowsReadAreKept, NEW w \in Workers, NEW l \in Lines,
         LineRequest(w, l)
  PROVE  LockedInv' /\ UNCHANGED <<line, shipment>>
<1>1. line[l] \in LineRow
  BY LineIsRow, KnownLineStatus
     DEF LockedInv, IInv, LineRequest, Approve, Reject, Cancel, Ship, Receive, LineStatuses
<1>2. ASSUME NEW row, ReadForSave(w, l, row), SaveOf(row, line[l])
      PROVE  LockedInv' /\ UNCHANGED <<line, shipment>>
  <2>1. AsRead([op |-> "saveLine", id |-> l, row |-> row])
    BY <1>2 DEF AsRead, LockOps
  <2>2. QED
    BY <1>2, <2>1, ReadingStep DEF ReadForSave, Begin
<1>3. ASSUME NEW src \in Branches, NEW q \in Quantities, Approve(w, l, src, q)
      PROVE  LockedInv' /\ UNCHANGED <<line, shipment>>
  <2> DEFINE row == [line[l] EXCEPT !.status = "APPROVED", !.source = src, !.approved = q]
  <2>1. SaveOf(row, line[l]) /\ ReadForSave(w, l, row)
    BY <1>1, <1>3 DEF Approve, SaveOf, SameGoods, LineRow
  <2>2. QED
    BY <1>2, <2>1
<1>4. ASSUME Reject(w, l) \/ Cancel(w, l)
      PROVE  LockedInv' /\ UNCHANGED <<line, shipment>>
  <2>1. PICK status \in {"REJECTED", "CANCELLED"} :
          /\ ReadForSave(w, l, [line[l] EXCEPT !.status = status])
          /\ line[l].status \in {"PENDING", "APPROVED"}
    BY <1>4 DEF Reject, Cancel
  <2>2. SaveOf([line[l] EXCEPT !.status = status], line[l])
    BY <1>1, <2>1 DEF SaveOf, SameGoods, LineRow
  <2>3. QED
    BY <1>2, <2>1, <2>2
<1>5. ASSUME Ship(w, l) \/ Receive(w, l)
      PROVE  LockedInv' /\ UNCHANGED <<line, shipment>>
  <2>1. PICK op \in {"ship", "receive"} :
          /\ req' = [req EXCEPT ![w] = [op |-> op, id |-> l, row |-> line[l]]]
          /\ UNCHANGED <<line, shipment>>
    BY <1>5 DEF Ship, Receive, Begin
  <2>2. line[l] # NoLine /\ line[l].status # "PENDING"
    BY <1>5, KnownLineStatus DEF Ship, Receive, LineStatuses
  <2>3. AsRead([op |-> op, id |-> l, row |-> line[l]])
    BY <2>2 DEF AsRead, SameGoods, LockOps
  <2>4. QED
    BY <2>1, <2>3, ReadingStep
<1>6. QED
  BY <1>3, <1>4, <1>5 DEF LineRequest

LEMMA ShipmentReads ==
  ASSUME LockedInv, IInv', RowsReadAreKept, NEW w \in Workers, NEW s \in Shipments,
         ShipmentRequest(w, s)
  PROVE  LockedInv' /\ UNCHANGED <<line, shipment>>
<1>1. shipment[s] \in ShipmentRow
  BY ShipmentIsRow, KnownShipmentStatus
     DEF LockedInv, IInv, ShipmentRequest, AssignCourier, MarkOutForDelivery, Dispatch,
         Deliver, ReturnShipment, LockShipment, ShipmentStatuses
<1>2. shipment[s] # NoShipment
  BY <1>1 DEF ShipmentRow, ShipmentStatuses, NoShipment
<1>3. ASSUME NEW row, ReadShipmentForSave(w, s, row), ShipmentSaveOf(row, shipment[s])
      PROVE  LockedInv' /\ UNCHANGED <<line, shipment>>
  <2>1. AsRead([op |-> "saveShipment", id |-> s, row |-> row])
    BY <1>3 DEF AsRead, LockOps
  <2>2. QED
    BY <1>3, <2>1, ReadingStep DEF ReadShipmentForSave, Begin
<1>4. CASE AssignCourier(w, s)
  <2> DEFINE row == [shipment[s] EXCEPT !.courier = TRUE,
                       !.status = IF @ = "PENDING" THEN "READY_TO_SHIP" ELSE @]
  <2>1. ReadShipmentForSave(w, s, row)
    BY <1>4 DEF AssignCourier
  <2>2. ShipmentSaveOf(row, shipment[s])
    BY <1>1, <1>2, <1>4 DEF AssignCourier, ShipmentSaveOf, ShipmentRow
  <2>3. QED
    BY <1>3, <2>1, <2>2
<1>5. CASE MarkOutForDelivery(w, s)
  <2> DEFINE row == [shipment[s] EXCEPT !.status = "OUT_FOR_DELIVERY"]
  <2>1. ReadShipmentForSave(w, s, row)
    BY <1>5 DEF MarkOutForDelivery
  <2>2. ShipmentSaveOf(row, shipment[s])
    BY <1>1, <1>2, <1>5
       DEF MarkOutForDelivery, ShipmentSaveOf, ShipmentRow, TerminalStatuses
  <2>3. QED
    BY <1>3, <2>1, <2>2
<1>6. ASSUME NEW op \in LockOps, NEW statuses, LockShipment(w, s, op, statuses),
             op # "dispatch" => statuses = {"DISPATCHED", "OUT_FOR_DELIVERY"}
      PROVE  LockedInv' /\ UNCHANGED <<line, shipment>>
  <2> DEFINE r == [op |-> op, id |-> s, lines |-> [l \in Linked(s) |-> line[l]]]
  <2>1. req' = [req EXCEPT ![w] = r] /\ UNCHANGED <<line, shipment>>
    BY <1>6 DEF LockShipment, Begin
  <2>2. AsRead(r)
    BY <1>6 DEF LockShipment, AsRead, LockOps
  <2> HIDE DEF r
  <2>3. QED
    BY <2>1, <2>2, ReadingStep
<1>7. QED
  BY <1>4, <1>5, <1>6 DEF ShipmentRequest, Dispatch, Deliver, ReturnShipment, LockOps

LEMMA LinkReads ==
  ASSUME LockedInv, IInv', RowsReadAreKept, NEW w \in Workers,
         NEW ids \in SUBSET Lines \ {{}}, NEW src \in Branches, NEW dst \in Branches,
         NEW courier \in BOOLEAN, CreateFromLines(w, ids, src, dst, courier)
  PROVE  LockedInv' /\ UNCHANGED <<line, shipment>>
<1> DEFINE r == [op |-> "link", ids |-> ids, source |-> src, dest |-> dst,
                 courier |-> courier]
<1>1. req' = [req EXCEPT ![w] = r] /\ UNCHANGED <<line, shipment>>
  BY DEF CreateFromLines, Begin
<1>2. AsRead(r)
  BY KnownLineStatus DEF CreateFromLines, AsRead, LockOps, LineStatuses
<1> HIDE DEF r
<1>3. QED
  BY <1>1, <1>2, ReadingStep

\* A step keeps LockedInv, and leaves final lines and final shipments alone.
GoodStep ==
  /\ LockedInv'
  /\ \A l \in Lines : line[l].status \in {"REJECTED", "CANCELLED", "COMPLETED"} =>
       line'[l].status = line[l].status
  /\ \A s \in Shipments : shipment[s].status \in TerminalStatuses =>
       shipment'[s] = shipment[s]

LEMMA QuietStep ==
  ASSUME LockedInv', UNCHANGED <<line, shipment>>
  PROVE  GoodStep
BY DEF GoodStep

LEMMA FreshLinesStep ==
  ASSUME LockedInv, IInv', RowsReadAreKept, UNCHANGED <<shipment, req>>,
         \A l \in Lines : \/ line'[l] = line[l]
                          \/ /\ line[l] = NoLine
                             /\ line'[l] \in LineRow /\ line'[l].shipment = None
  PROVE  GoodStep
<1>1. \A row \in LineRow : row # NoLine
  BY DEF LineRow, LineStatuses, NoLine
<1>2. ParcelInv'
  BY DEF LockedInv, ParcelInv
<1>3. LinesGoOn
  BY <1>1 DEF LinesGoOn, SameGoods
<1>4. LockedInv'
  BY <1>2, <1>3, StepOfNone
<1>5. QED
  BY <1>4 DEF GoodStep, NoLine

\* New lines are pending, or approved at once, and travel in no shipment yet.
LEMMA CreatedLines ==
  ASSUME TablesOK, Create \/ CreateManagerBatch \/ CreateAdminDirect
  PROVE  \A l \in Lines : \/ line'[l] = line[l]
                          \/ /\ line[l] = NoLine
                             /\ line'[l] \in LineRow /\ line'[l].shipment = None
                             /\ line'[l].status \in {"PENDING", "APPROVED"}
<1> DEFINE NewRow(row) == row.shipment = None /\ row.status \in {"PENDING", "APPROVED"}
<1>2. CASE Create
  <2>1. PICK m \in FreshLines, p \in Products, dst \in Branches, q \in Quantities :
          line' = [line EXCEPT ![m] = Requested(p, dst, q)]
    BY <1>2 DEF Create
  <2>2. Requested(p, dst, q) \in LineRow /\ NewRow(Requested(p, dst, q))
    BY RequestedIsRow DEF Requested
  <2>3. \A l \in Lines : \/ line'[l] = line[l]
                         \/ /\ line[l] = NoLine
                            /\ line'[l] \in LineRow /\ NewRow(line'[l])
    BY <2>1, <2>2 DEF FreshLines, TablesOK
  <2>4. QED
    BY <2>3
<1>3. CASE CreateManagerBatch
  <2>1. PICK cart \in Carts, dst \in Branches :
          \E qty \in [DOMAIN cart -> Quantities] :
            line' = [l \in Lines |->
                       IF l \in DOMAIN cart THEN Requested(cart[l], dst, qty[l])
                                            ELSE line[l]]
    BY <1>3 DEF CreateManagerBatch
  <2>2. PICK qty \in [DOMAIN cart -> Quantities] :
          line' = [l \in Lines |->
                     IF l \in DOMAIN cart THEN Requested(cart[l], dst, qty[l])
                                          ELSE line[l]]
    BY <2>1
  <2>3. \A l \in DOMAIN cart : cart[l] \in Products /\ l \in FreshLines
    BY DEF Carts
  <2>4. \A l \in DOMAIN cart : /\ Requested(cart[l], dst, qty[l]) \in LineRow
                               /\ NewRow(Requested(cart[l], dst, qty[l]))
    BY <2>3, RequestedIsRow DEF Requested
  <2>5. \A l \in Lines : \/ line'[l] = line[l]
                         \/ /\ line[l] = NoLine
                            /\ line'[l] \in LineRow /\ NewRow(line'[l])
    BY <2>2, <2>3, <2>4 DEF FreshLines
  <2>6. QED
    BY <2>5
<1>4. CASE CreateAdminDirect
  <2>1. PICK cart \in Carts, src \in Branches, dst \in Branches :
          \E qty \in [DOMAIN cart -> Quantities] :
            line' = [l \in Lines |->
                       IF l \in DOMAIN cart
                         THEN PreApproved(cart[l], src, dst, qty[l])
                         ELSE line[l]]
    BY <1>4 DEF CreateAdminDirect
  <2>2. PICK qty \in [DOMAIN cart -> Quantities] :
          line' = [l \in Lines |->
                     IF l \in DOMAIN cart
                       THEN PreApproved(cart[l], src, dst, qty[l])
                       ELSE line[l]]
    BY <2>1
  <2>3. \A l \in DOMAIN cart : cart[l] \in Products /\ l \in FreshLines
    BY DEF Carts
  <2>4. \A l \in DOMAIN cart :
          /\ PreApproved(cart[l], src, dst, qty[l]) \in LineRow
          /\ NewRow(PreApproved(cart[l], src, dst, qty[l]))
    BY <2>3, PreApprovedIsRow DEF PreApproved, Requested
  <2>5. \A l \in Lines : \/ line'[l] = line[l]
                         \/ /\ line[l] = NoLine
                            /\ line'[l] \in LineRow /\ NewRow(line'[l])
    BY <2>2, <2>3, <2>4 DEF FreshLines
  <2>6. QED
    BY <2>5
<1>5. QED
  BY <1>2, <1>3, <1>4

LEMMA CreateSteps ==
  ASSUME LockedInv, IInv', RowsReadAreKept,
         Create \/ CreateManagerBatch \/ CreateAdminDirect
  PROVE  GoodStep
<1>1. UNCHANGED <<shipment, req>>
  BY DEF Create, CreateManagerBatch, CreateAdminDirect
<1>2. TablesOK
  BY DEF LockedInv, IInv
<1>3. \A l \in Lines : \/ line'[l] = line[l]
                       \/ /\ line[l] = NoLine
                          /\ line'[l] \in LineRow /\ line'[l].shipment = None
  BY <1>2, CreatedLines
<1>4. QED
  BY <1>1, <1>3, FreshLinesStep

\* The write of one line that is not final yet.
LEMMA LineWriteStep ==
  ASSUME LockedInv, IInv', RowsReadAreKept, NEW w \in Workers, Finish(w),
         NEW l \in Lines, NEW row \in LineRow, shipment' = shipment,
         line' = [line EXCEPT ![l] = row], line[l] # NoLine,
         line[l].status \in {"PENDING", "APPROVED", "IN_TRANSIT"},
         row.status # "PENDING", row.shipment = line[l].shipment,
         row.dest = line[l].dest,
         line[l].status = "PENDING" \/ SameGoods(row, line[l]),
         \A s \in ShipmentRow \cup {NoShipment} : Fits(line[l], s) => Fits(row, s)
  PROVE  GoodStep
<1>1. /\ line'[l] = row /\ \A m \in Lines : m # l => line'[m] = line[m]
      /\ shipment \in [Shipments -> ShipmentRow \cup {NoShipment}]
      /\ row # NoLine
  BY DEF LockedInv, IInv, TablesOK, LineRow, LineStatuses, NoLine
<1>2. ASSUME row.shipment # None
      PROVE  Fits(row, shipment[row.shipment])
  <2>1. row.shipment \in Shipments
    BY <1>2 DEF LineRow
  <2>2. Fits(line[l], shipment[row.shipment])
    BY <1>2 DEF LockedInv, ParcelInv
  <2>3. QED
    BY <1>1, <2>1, <2>2
<1>3. ParcelInv'
  BY <1>1, <1>2 DEF LockedInv, ParcelInv
<1>4. LinesGoOn
  BY <1>1 DEF LinesGoOn, SameGoods
<1>5. req' = [req EXCEPT ![w] = Idle] /\ AsRead(Idle)'
  BY IdleAsRead DEF Finish
<1>6. LockedInv'
  BY <1>3, <1>4, <1>5, StepOfOne
<1>7. QED
  BY <1>1, <1>6 DEF GoodStep

LEMMA LineCommits ==
  ASSUME LockedInv, IInv', RowsReadAreKept, NEW w \in Workers,
         SaveLine(w) \/ ShipTransaction(w) \/ ReceiveTransaction(w)
  PROVE  GoodStep
<1>1. TablesOK /\ AsRead(req[w])
  BY DEF LockedInv, IInv
<1>2. CASE SaveLine(w)
  <2> DEFINE l == req[w].id
             row == req[w].row
  <2>1. /\ l \in Lines /\ row \in LineRow /\ SaveOf(row, line[l])
        /\ line' = [line EXCEPT ![l] = row] /\ shipment' = shipment /\ Finish(w)
    BY <1>1, <1>2, LineRequestFields DEF SaveLine, AsRead
  <2> HIDE DEF l, row
  <2>2. /\ line[l] # NoLine
        /\ line[l].status \in {"PENDING", "APPROVED", "IN_TRANSIT"}
        /\ row.status # "PENDING" /\ row.shipment = line[l].shipment
        /\ row.dest = line[l].dest
        /\ line[l].status = "PENDING" \/ SameGoods(row, line[l])
    BY <2>1 DEF SaveOf, NoLine
  <2>3. \A s \in ShipmentRow \cup {NoShipment} : Fits(line[l], s) => Fits(row, s)
    BY <2>1 DEF SaveOf, SameGoods, Fits
  <2>4. QED
    BY <2>1, <2>2, <2>3, LineWriteStep
<1>3. ASSUME NEW l \in Lines, NEW status \in {"IN_TRANSIT", "COMPLETED"},
             line[l].status = IF status = "IN_TRANSIT" THEN "APPROVED" ELSE "IN_TRANSIT",
             line' = [line EXCEPT ![l].status = status],
             shipment' = shipment, Finish(w)
      PROVE  GoodStep
  <2> DEFINE row == [line[l] EXCEPT !.status = status]
  <2>1. line[l] # NoLine /\ line[l] \in LineRow
    BY <1>1, <1>3, KnownLineStatus, LineIsRow DEF LineStatuses
  <2>2. /\ row \in LineRow /\ row.status = status /\ SameGoods(row, line[l])
        /\ row.dest = line[l].dest /\ row.shipment = line[l].shipment
    BY <2>1 DEF LineRow, LineStatuses, SameGoods
  <2>3. line' = [line EXCEPT ![l] = row]
    BY <1>3
  <2> HIDE DEF row
  <2>4. \A s \in ShipmentRow \cup {NoShipment} : Fits(line[l], s) => Fits(row, s)
    BY <1>3, <2>2 DEF SameGoods, Fits
  <2>5. QED
    BY <1>3, <2>1, <2>2, <2>3, <2>4, LineWriteStep
<1>4. CASE ShipTransaction(w) \/ ReceiveTransaction(w)
  <2>1. req[w].id \in Lines
    BY <1>1, <1>4, LineRequestFields DEF ShipTransaction, ReceiveTransaction
  <2>2. QED
    BY <1>3, <1>4, <2>1 DEF ShipTransaction, ReceiveTransaction
<1>5. QED
  BY <1>2, <1>4

LEMMA SaveShipmentStep ==
  ASSUME LockedInv, IInv', RowsReadAreKept, NEW w \in Workers, SaveShipment(w)
  PROVE  GoodStep
<1>1. PICK s \in Shipments : s = req[w].id
  BY ShipmentSaveFields DEF LockedInv, IInv, SaveShipment
<1>2. PICK row \in ShipmentRow : row = req[w].row
  BY ShipmentSaveFields DEF LockedInv, IInv, SaveShipment
<1>3. /\ ShipmentSaveOf(row, shipment[s]) /\ row # NoShipment
      /\ shipment \in [Shipments -> ShipmentRow \cup {NoShipment}]
  BY <1>1, <1>2 DEF LockedInv, IInv, TablesOK, AsRead, SaveShipment, ShipmentRow,
                    ShipmentStatuses, NoShipment
<1>4. /\ shipment'[s] = row /\ line' = line
      /\ \A t \in Shipments : t # s => shipment'[t] = shipment[t]
  BY <1>1, <1>2, <1>3 DEF SaveShipment
<1>5. ASSUME NEW r, Fits(r, shipment[s])
      PROVE  Fits(r, row)
  BY <1>3, <1>5 DEF Fits, ShipmentSaveOf
<1>6. ASSUME NEW l \in Lines, line[l] # NoLine, line[l].shipment # None
      PROVE  Fits(line[l], shipment'[line[l].shipment])
  <2>1. line[l].shipment \in Shipments
    BY <1>6, LineIsRow DEF LockedInv, IInv, LineRow
  <2>2. QED
    BY <1>4, <1>5, <1>6, <2>1 DEF LockedInv, ParcelInv
<1>7. ParcelInv'
  BY <1>4, <1>6 DEF ParcelInv
<1>8. req' = [req EXCEPT ![w] = Idle] /\ AsRead(Idle)'
  BY IdleAsRead DEF SaveShipment, Finish
<1>9. ASSUME NEW v \in Workers, req[v].op \in LockOps
      PROVE  shipment'[req[v].id] = shipment[req[v].id]
  BY <1>1, <1>4, <1>9, AsReadFields DEF LockedInv, SaveShipment, Locked, LockOps
<1>10. LockedInv'
  BY <1>4, <1>7, <1>8, <1>9, UnchangedLines, StepOfOne
<1>11. QED
  BY <1>3, <1>4, <1>10 DEF GoodStep, ShipmentSaveOf

LEMMA LinkStep ==
  ASSUME LockedInv, IInv', RowsReadAreKept, NEW w \in Workers, NEW s \in Shipments,
         LinkTransaction(w, s)
  PROVE  GoodStep
<1> DEFINE new == [status |-> IF req[w].courier THEN "READY_TO_SHIP" ELSE "PENDING",
                   source |-> req[w].source, dest |-> req[w].dest,
                   courier |-> req[w].courier]
<1>1. TablesOK /\ AsRead(req[w]) /\ req[w].op = "link"
  BY DEF LockedInv, IInv, LinkTransaction
<1>2. /\ shipment'[s] = new /\ shipment[s] = NoShipment
      /\ \A t \in Shipments : t # s => shipment'[t] = shipment[t]
  BY <1>1 DEF LinkTransaction, TablesOK
<1>3. ASSUME NEW l \in req[w].ids
      PROVE  /\ l \in Lines /\ line[l] \in LineRow /\ line[l].status = "APPROVED"
             /\ line[l].shipment = None
             /\ line'[l] = [line[l] EXCEPT !.shipment = s]
             /\ line[l].source = req[w].source /\ line[l].dest = req[w].dest
  BY <1>1, LinkRequest, LineIsRow, KnownLineStatus
     DEF LinkTransaction, AsRead, LineStatuses
<1>4. ASSUME NEW l \in req[w].ids
      PROVE  /\ line'[l].status = "APPROVED" /\ line'[l].shipment = s
             /\ SameGoods(line'[l], line[l]) /\ line'[l] # NoLine
  BY <1>3 DEF LineRow, SameGoods, NoLine
<1>5. \A l \in Lines : l \notin req[w].ids => line'[l] = line[l]
  BY DEF LinkTransaction
<1>6. ASSUME NEW l \in req[w].ids
      PROVE  Fits(line'[l], new)
  <2>1. /\ new.source = req[w].source /\ new.dest = req[w].dest
        /\ new.status \in {"PENDING", "READY_TO_SHIP"} /\ new # NoShipment
    BY DEF NoShipment
  <2> HIDE DEF new
  <2>2. QED
    BY <1>3, <1>4, <2>1 DEF SameGoods, Fits
<1> HIDE DEF new
<1>7. ASSUME NEW l \in Lines, line'[l] # NoLine, line'[l].shipment # None
      PROVE  Fits(line'[l], shipment'[line'[l].shipment])
  <2>1. CASE l \in req[w].ids
    BY <1>2, <1>4, <1>6, <2>1
  <2>2. CASE l \notin req[w].ids
    <3>1. /\ line'[l] = line[l] /\ line[l].shipment \in Shipments
          /\ Fits(line[l], shipment[line[l].shipment])
      BY <1>1, <1>5, <1>7, <2>2, LineIsRow DEF LockedInv, ParcelInv, LineRow
    <3>2. line[l].shipment # s
      BY <1>2, <3>1 DEF Fits
    <3>3. QED
      BY <1>2, <3>1, <3>2
  <2>3. QED
    BY <2>1, <2>2
<1>8. ParcelInv'
  BY <1>7 DEF ParcelInv
<1>9. LinesGoOn
  BY <1>2, <1>3, <1>4, <1>5 DEF LinesGoOn, SameGoods
<1>10. req' = [req EXCEPT ![w] = Idle] /\ AsRead(Idle)'
  BY IdleAsRead DEF LinkTransaction, Finish
<1>11. ASSUME NEW v \in Workers, req[v].op \in LockOps
       PROVE  shipment'[req[v].id] = shipment[req[v].id]
  BY <1>2, <1>11, AsReadFields DEF LockedInv
<1>12. LockedInv'
  BY <1>8, <1>9, <1>10, <1>11, StepOfOne
<1>13. \A l \in Lines : line[l].status \in {"REJECTED", "CANCELLED", "COMPLETED"} =>
          line'[l].status = line[l].status
  BY <1>3, <1>5
<1>14. \A t \in Shipments : shipment[t].status \in TerminalStatuses =>
          shipment'[t] = shipment[t]
  BY <1>2 DEF TerminalStatuses, NoShipment
<1>15. QED
  BY <1>12, <1>13, <1>14 DEF GoodStep

\* A shipment that is open moves on, or is cancelled, together with its lines.
LEMMA ParcelMove ==
  ASSUME LockedInv, IInv', RowsReadAreKept, NEW s \in Shipments,
         shipment[s] # NoShipment, shipment[s].status \notin TerminalStatuses,
         NEW status, shipment' = [shipment EXCEPT ![s].status = status],
         \A l \in Lines :
           \/ line'[l] = line[l]
           \/ /\ l \in Linked(s) /\ line'[l] # NoLine
              /\ line'[l].status = line[l].status
                   \/ line[l].status \in {"APPROVED", "IN_TRANSIT"}
              /\ line'[l].status # "PENDING"
              /\ SameGoods(line'[l], line[l]) /\ line'[l].shipment \in {s, None},
         \A l \in Linked(s) : line'[l].shipment = s => Fits(line'[l], shipment'[s]),
         \/ req' = req /\ ~Locked(s)
         \/ \E w \in Workers : /\ Finish(w)
                               /\ req[w].op \in LockOps /\ req[w].id = s
  PROVE  GoodStep
<1>1. /\ TablesOK
      /\ \A t \in Shipments : t # s => shipment'[t] = shipment[t]
  BY DEF LockedInv, IInv, TablesOK
<1>2. ASSUME NEW l \in Lines, line'[l] # NoLine, line'[l].shipment # None
      PROVE  Fits(line'[l], shipment'[line'[l].shipment])
  <2>1. CASE l \in Linked(s) /\ line'[l].shipment = s
    BY <2>1
  <2>2. CASE ~(l \in Linked(s) /\ line'[l].shipment = s)
    <3>1. line'[l] = line[l]
      BY <1>2, <2>2
    <3>2. line[l].shipment \in Shipments \ {s}
      BY <1>1, <1>2, <2>2, <3>1, LineIsRow DEF LineRow, Linked
    <3>3. QED
      BY <1>1, <1>2, <3>1, <3>2 DEF LockedInv, ParcelInv
  <2>3. QED
    BY <2>1, <2>2
<1>3. ParcelInv'
  BY <1>2 DEF ParcelInv
<1>4. LinesGoOn
  BY NoneAssumption DEF LinesGoOn, SameGoods, Linked
<1>5. CASE req' = req /\ ~Locked(s)
  <2>1. \A v \in Workers : req[v].op \in LockOps =>
          shipment'[req[v].id] = shipment[req[v].id]
    BY <1>1, <1>5, AsReadFields DEF LockedInv, Locked, LockOps
  <2>2. QED
    BY <1>1, <1>3, <1>4, <1>5, <2>1, StepOfNone DEF GoodStep
<1>6. ASSUME NEW w \in Workers, Finish(w), req[w].op \in LockOps, req[w].id = s
      PROVE  GoodStep
  <2>1. \A v \in Workers : v # w /\ req[v].op \in LockOps =>
          shipment'[req[v].id] = shipment[req[v].id]
    BY <1>1, <1>6, AsReadFields DEF LockedInv, IInv, LockInv
  <2>2. req' = [req EXCEPT ![w] = Idle] /\ AsRead(Idle)'
    BY <1>6, IdleAsRead DEF Finish
  <2>3. LockedInv'
    BY <1>3, <1>4, <2>1, <2>2, StepOfOne
  <2>4. QED
    BY <1>1, <2>3 DEF GoodStep
<1>7. QED
  BY <1>5, <1>6

\* What a shipment's transaction makes of a line that it moves.
Became(new, row, status, parcel) ==
  /\ new # NoLine /\ new.status = status /\ new.shipment = parcel
  /\ SameGoods(new, row)

LEMMA MovedLines ==
  \A row \in LineRow :
    /\ Became([row EXCEPT !.status = "IN_TRANSIT"], row, "IN_TRANSIT", row.shipment)
    /\ Became([row EXCEPT !.status = "COMPLETED"], row, "COMPLETED", row.shipment)
    /\ Became([row EXCEPT !.status = "APPROVED", !.shipment = None], row, "APPROVED", None)
BY DEF LineRow, NoLine, Became, SameGoods

LEMMA ParcelCommits ==
  ASSUME LockedInv, IInv', RowsReadAreKept, NEW w \in Workers,
         DispatchTransaction(w) \/ DeliverTransaction(w) \/ ReturnTransaction(w)
  PROVE  GoodStep
<1>1. TablesOK /\ AsRead(req[w]) /\ req[w].op \in LockOps
  BY DEF LockedInv, IInv, DispatchTransaction, DeliverTransaction, ReturnTransaction,
         LockOps
<1>2. PICK s \in Shipments : s = req[w].id
  BY <1>1, AsReadFields DEF LockedInv
<1>3. /\ shipment[s] # NoShipment /\ shipment[s] \in ShipmentRow
      /\ shipment[s].status \in {"READY_TO_SHIP", "DISPATCHED", "OUT_FOR_DELIVERY"}
  BY <1>1, <1>2, AsReadFields, ShipmentIsRow DEF LockedInv
<1>4. /\ DOMAIN req[w].lines = Linked(s)
      /\ \A l \in Linked(s) : req[w].lines[l] = line[l]
  BY <1>1, <1>2 DEF AsRead
<1>5. \A l \in Linked(s) :
        /\ l \in Lines /\ line[l] # NoLine /\ line[l] \in LineRow
        /\ line[l].shipment = s /\ Fits(line[l], shipment[s])
  BY <1>1, NoneAssumption, LineIsRow DEF Linked, LockedInv, ParcelInv
<1>6. ASSUME NEW status, shipment' = [shipment EXCEPT ![s].status = status]
      PROVE  /\ shipment'[s] # NoShipment /\ shipment'[s].status = status
             /\ shipment'[s].source = shipment[s].source
             /\ shipment'[s].dest = shipment[s].dest
  <2>1. shipment'[s] = [shipment[s] EXCEPT !.status = status]
    BY <1>1, <1>6 DEF TablesOK
  <2>2. /\ shipment'[s].status = status /\ shipment'[s].source = shipment[s].source
        /\ shipment'[s].dest = shipment[s].dest
    BY <1>3, <2>1 DEF ShipmentRow
  <2>3. "source" \in DOMAIN shipment'[s] /\ "source" \notin DOMAIN NoShipment
    BY <1>3, <2>1 DEF ShipmentRow, NoShipment
  <2>4. QED
    BY <2>2, <2>3
<1>7. CASE DispatchTransaction(w)
  <2>1. /\ \A l \in Linked(s) : /\ line[l].status = "APPROVED" =>
                                    Became(line'[l], line[l], "IN_TRANSIT", s)
                                /\ line[l].status # "APPROVED" => line'[l] = line[l]
        /\ \A l \in Lines \ Linked(s) : line'[l] = line[l]
        /\ shipment' = [shipment EXCEPT ![s].status = "DISPATCHED"] /\ Finish(w)
    BY <1>2, <1>4, <1>5, <1>7, MovedLines DEF DispatchTransaction, CommitShipment
  <2>3. \A l \in Linked(s) : line[l].status = "APPROVED" =>
          /\ line'[l].status = "IN_TRANSIT" /\ line'[l] # NoLine
          /\ SameGoods(line'[l], line[l]) /\ line'[l].shipment = s
    BY <2>1 DEF Became
  <2>4. ASSUME NEW l \in Linked(s), line'[l].shipment = s
        PROVE  Fits(line'[l], shipment'[s])
    <3>1. /\ line'[l].source = line[l].source /\ line'[l].dest = line[l].dest
          /\ line'[l].status \notin {"PENDING", "APPROVED"}
      BY <1>5, <2>1, <2>3, <2>4 DEF SameGoods, Fits
    <3>2. /\ shipment[s].source = line[l].source /\ shipment[s].dest = line[l].dest
      BY <1>5 DEF Fits
    <3>3. QED
      BY <1>6, <2>1, <3>1, <3>2 DEF Fits
  <2>5. ASSUME NEW l \in Lines
        PROVE  \/ line'[l] = line[l]
               \/ /\ l \in Linked(s) /\ line'[l] # NoLine
                  /\ line'[l].status = line[l].status
                       \/ line[l].status \in {"APPROVED", "IN_TRANSIT"}
                  /\ line'[l].status # "PENDING"
                  /\ SameGoods(line'[l], line[l]) /\ line'[l].shipment \in {s, None}
    BY <2>1, <2>3
  <2>6. shipment[s].status \notin TerminalStatuses
    BY <1>3 DEF TerminalStatuses
  <2>7. \E v \in Workers : Finish(v) /\ req[v].op \in LockOps /\ req[v].id = s
    BY <1>1, <1>2, <2>1
  <2>8. QED
    BY <1>3, <2>1, <2>4, <2>5, <2>6, <2>7, ParcelMove
<1>8. CASE DeliverTransaction(w)
  <2>1. /\ \A l \in Linked(s) : /\ line[l].status = "IN_TRANSIT" =>
                                    Became(line'[l], line[l], "COMPLETED", s)
                                /\ line[l].status # "IN_TRANSIT" => line'[l] = line[l]
        /\ \A l \in Lines \ Linked(s) : line'[l] = line[l]
        /\ shipment' = [shipment EXCEPT ![s].status = "DELIVERED"] /\ Finish(w)
    BY <1>2, <1>4, <1>5, <1>8, MovedLines DEF DeliverTransaction, CommitShipment
  <2>2. shipment[s].status \in {"DISPATCHED", "OUT_FOR_DELIVERY"}
    BY <1>1, <1>2, <1>8 DEF DeliverTransaction, AsRead
  <2>3. \A l \in Linked(s) : line[l].status = "IN_TRANSIT" =>
          /\ line'[l].status = "COMPLETED" /\ line'[l] # NoLine
          /\ SameGoods(line'[l], line[l]) /\ line'[l].shipment = s
    BY <2>1 DEF Became
  <2>4. ASSUME NEW l \in Linked(s), line'[l].shipment = s
        PROVE  Fits(line'[l], shipment'[s])
    <3>1. /\ line'[l].source = line[l].source /\ line'[l].dest = line[l].dest
          /\ line'[l].status \notin {"PENDING", "APPROVED", "IN_TRANSIT"}
      <4>1. line[l].status \notin {"PENDING", "APPROVED"}
        BY <1>5, <2>2 DEF Fits
      <4>2. QED
        BY <2>1, <2>3, <2>4, <4>1 DEF SameGoods
    <3>2. /\ shipment[s].source = line[l].source /\ shipment[s].dest = line[l].dest
      BY <1>5 DEF Fits
    <3>3. QED
      BY <1>6, <2>1, <3>1, <3>2 DEF Fits
  <2>5. ASSUME NEW l \in Lines
        PROVE  \/ line'[l] = line[l]
               \/ /\ l \in Linked(s) /\ line'[l] # NoLine
                  /\ line'[l].status = line[l].status
                       \/ line[l].status \in {"APPROVED", "IN_TRANSIT"}
                  /\ line'[l].status # "PENDING"
                  /\ SameGoods(line'[l], line[l]) /\ line'[l].shipment \in {s, None}
    BY <2>1, <2>3
  <2>6. shipment[s].status \notin TerminalStatuses
    BY <1>3 DEF TerminalStatuses
  <2>7. \E v \in Workers : Finish(v) /\ req[v].op \in LockOps /\ req[v].id = s
    BY <1>1, <1>2, <2>1
  <2>8. QED
    BY <1>3, <2>1, <2>4, <2>5, <2>6, <2>7, ParcelMove
<1>9. CASE ReturnTransaction(w)
  <2>1. /\ \A l \in Linked(s) : /\ line[l].status = "IN_TRANSIT" =>
                                    Became(line'[l], line[l], "APPROVED", None)
                                /\ line[l].status # "IN_TRANSIT" => line'[l] = line[l]
        /\ \A l \in Lines \ Linked(s) : line'[l] = line[l]
        /\ shipment' = [shipment EXCEPT ![s].status = "RETURNED"] /\ Finish(w)
    BY <1>2, <1>4, <1>5, <1>9, MovedLines DEF ReturnTransaction, CommitShipment
  <2>2. shipment[s].status \in {"DISPATCHED", "OUT_FOR_DELIVERY"}
    BY <1>1, <1>2, <1>9 DEF ReturnTransaction, AsRead
  <2>3. \A l \in Linked(s) : line[l].status = "IN_TRANSIT" =>
          /\ line'[l].status = "APPROVED" /\ line'[l] # NoLine
          /\ SameGoods(line'[l], line[l]) /\ line'[l].shipment = None
    BY <2>1 DEF Became
  <2>4. ASSUME NEW l \in Linked(s), line'[l].shipment = s
        PROVE  Fits(line'[l], shipment'[s])
    <3>1. /\ line'[l].source = line[l].source /\ line'[l].dest = line[l].dest
          /\ line'[l].status \notin {"PENDING", "APPROVED", "IN_TRANSIT"}
      <4>1. line[l].status \notin {"PENDING", "APPROVED"}
        BY <1>5, <2>2 DEF Fits
      <4>2. QED
        BY <2>1, <2>3, <2>4, <4>1, NoneAssumption DEF SameGoods
    <3>2. /\ shipment[s].source = line[l].source /\ shipment[s].dest = line[l].dest
      BY <1>5 DEF Fits
    <3>3. QED
      BY <1>6, <2>1, <3>1, <3>2 DEF Fits
  <2>5. ASSUME NEW l \in Lines
        PROVE  \/ line'[l] = line[l]
               \/ /\ l \in Linked(s) /\ line'[l] # NoLine
                  /\ line'[l].status = line[l].status
                       \/ line[l].status \in {"APPROVED", "IN_TRANSIT"}
                  /\ line'[l].status # "PENDING"
                  /\ SameGoods(line'[l], line[l]) /\ line'[l].shipment \in {s, None}
    BY <2>1, <2>3
  <2>6. shipment[s].status \notin TerminalStatuses
    BY <1>3 DEF TerminalStatuses
  <2>7. \E v \in Workers : Finish(v) /\ req[v].op \in LockOps /\ req[v].id = s
    BY <1>1, <1>2, <2>1
  <2>8. QED
    BY <1>3, <2>1, <2>4, <2>5, <2>6, <2>7, ParcelMove
<1>10. QED
  BY <1>7, <1>8, <1>9

LEMMA CancelShipmentStep ==
  ASSUME LockedInv, IInv', RowsReadAreKept, NEW s \in Shipments, CancelShipment(s)
  PROVE  GoodStep
<1>1. TablesOK
  BY DEF LockedInv, IInv
<1>2. shipment[s] # NoShipment /\ shipment[s].status \notin TerminalStatuses
  BY DEF CancelShipment, NoShipment, TerminalStatuses
<1>3. \A l \in Linked(s) :
        /\ l \in Lines /\ line[l] # NoLine /\ line[l] \in LineRow
        /\ line[l].status # "PENDING"
  BY <1>1, NoneAssumption, LineIsRow DEF Linked, LockedInv, ParcelInv, Fits
<1>4. /\ \A l \in Linked(s) : line'[l] = [line[l] EXCEPT !.shipment = None]
      /\ \A l \in Lines \ Linked(s) : line'[l] = line[l]
      /\ shipment' = [shipment EXCEPT ![s].status = "CANCELLED"]
      /\ req' = req /\ ~Locked(s)
  BY <1>3 DEF CancelShipment
<1>5. \A l \in Linked(s) :
        /\ line'[l] # NoLine /\ line'[l].status = line[l].status
        /\ line'[l].shipment = None
        /\ SameGoods(line'[l], line[l])
  BY <1>3, <1>4 DEF LineRow, SameGoods, NoLine
<1>6. ASSUME NEW l \in Lines
      PROVE  \/ line'[l] = line[l]
             \/ /\ l \in Linked(s) /\ line'[l] # NoLine
                /\ line'[l].status = line[l].status
                     \/ line[l].status \in {"APPROVED", "IN_TRANSIT"}
                /\ line'[l].status # "PENDING"
                /\ SameGoods(line'[l], line[l]) /\ line'[l].shipment \in {s, None}
  BY <1>3, <1>4, <1>5
<1>7. \A l \in Linked(s) : line'[l].shipment # s
  BY <1>5, NoneAssumption
<1>8. QED
  BY <1>2, <1>4, <1>6, <1>7, ParcelMove

LEMMA LockedStep ==
  ASSUME LockedInv, [Next /\ RowsReadAreKept]_vars
  PROVE  GoodStep
<1>1. IInv'
  BY TablesStep, LockStep, ReviewedStep, StockStep DEF LockedInv, IInv
<1>2. CASE UNCHANGED vars
  <2>1. LockedInv'
    BY <1>1, <1>2 DEF LockedInv, ParcelInv, AsRead, Linked, vars
  <2>2. QED
    BY <1>2, <2>1, QuietStep DEF vars
<1>3. CASE Next /\ RowsReadAreKept
  <2>1. CASE Create \/ CreateManagerBatch \/ CreateAdminDirect
    BY <1>1, <1>3, <2>1, CreateSteps
  <2>2. CASE \E w \in Workers, l \in Lines : LineRequest(w, l)
    BY <1>1, <1>3, <2>2, LineReads, QuietStep
  <2>3. CASE \E w \in Workers, ids \in SUBSET Lines \ {{}}, src \in Branches,
                dst \in Branches, courier \in BOOLEAN :
               CreateFromLines(w, ids, src, dst, courier)
    BY <1>1, <1>3, <2>3, LinkReads, QuietStep
  <2>4. CASE \E w \in Workers, s \in Shipments : LinkTransaction(w, s)
    BY <1>1, <1>3, <2>4, LinkStep
  <2>5. CASE \E w \in Workers, s \in Shipments : ShipmentRequest(w, s)
    BY <1>1, <1>3, <2>5, ShipmentReads, QuietStep
  <2>6. CASE \E w \in Workers : Commit(w)
    BY <1>1, <1>3, <2>6, LineCommits, SaveShipmentStep, ParcelCommits DEF Commit
  <2>7. CASE \E s \in Shipments : CancelShipment(s)
    BY <1>1, <1>3, <2>7, CancelShipmentStep
  <2>8. CASE \E p \in Products, b \in Branches, q \in Quantities : Sale(p, b, q)
    BY <1>1, <1>3, <2>8, FreshLinesStep DEF Sale
  <2>9. ASSUME NEW w \in Workers, Abort(w)
        PROVE  GoodStep
    BY <1>1, <1>3, <2>9, IdleAsRead, ReadingStep, QuietStep DEF Abort, Finish
  <2>10. QED
    BY <1>3, <2>1, <2>2, <2>3, <2>4, <2>5, <2>6, <2>7, <2>8, <2>9 DEF Next
<1>4. QED
  BY <1>2, <1>3

LEMMA LockedInvariance == LockedSpec => []LockedInv
<1>1. Init => LockedInv
  <2>1. Init => IInv
    BY InitIInv
  <2>2. Init => ParcelInv /\ \A w \in Workers : AsRead(req[w])
    BY IdleAsRead DEF Init, ParcelInv
  <2>3. QED
    BY <2>1, <2>2 DEF LockedInv
<1>2. LockedInv /\ [Next /\ RowsReadAreKept]_vars => LockedInv'
  BY LockedStep DEF GoodStep
<1>3. QED
  BY <1>1, <1>2, PTL DEF LockedSpec

\* With the rows that requests write back kept, a line and its shipment never
\* contradict each other: what link, dispatch, deliver, return and cancel do
\* to the two tables agrees with what ship, receive and the reviews do to one.
THEOREM LinesFollowTheirShipment == LockedSpec => []ParcelCoherent
<1>1. LockedInv => ParcelCoherent
  BY DEF LockedInv, ParcelInv, Fits, ParcelCoherent
<1>2. QED
  BY <1>1, LockedInvariance, PTL

\* With the rows kept, no request moves a rejected, cancelled or completed
\* line: every handler checks the status of the row it goes on to write.
THEOREM HistoryIsFinal == LockedSpec => FinalLines
<1>1. LockedInv /\ [Next /\ RowsReadAreKept]_vars =>
        [\A l \in Lines :
           line[l].status \in {"REJECTED", "CANCELLED", "COMPLETED"} =>
             line'[l].status = line[l].status]_vars
  BY LockedStep DEF GoodStep
<1>2. QED
  BY <1>1, LockedInvariance, PTL DEF LockedSpec, FinalLines

\* With the rows kept, a delivered, returned or cancelled shipment is final
\* for all the handlers, those that save an unlocked read included.
THEOREM ShipmentsAreFinal == LockedSpec => TerminalShipments
<1>1. LockedInv /\ [Next /\ RowsReadAreKept]_vars =>
        [\A s \in Shipments :
           shipment[s].status \in TerminalStatuses => shipment'[s] = shipment[s]]_vars
  BY LockedStep DEF GoodStep
<1>2. QED
  BY <1>1, LockedInvariance, PTL DEF LockedSpec, TerminalShipments

-----------------------------------------------------------------------------
(***************************************************************************)
(* Conservation, with quantities that are numbers.  A shipment moves its   *)
(* lines by a fold over a sequence: the table of the fold on all sets of   *)
(* positions is what the induction is about.                               *)
(***************************************************************************)
MoveOf(inv, row, branch, sign) ==
  [inv EXCEPT ![<<row.product, branch>>] = MoveStock(@, sign * row.approved)]

MoveTable(g, lines, order, branch, sign, S) ==
  g = [T \in SUBSET S |->
         IF T = {} THEN stock
         ELSE MoveOf(g[T \ {Max(T)}], lines[order[Max(T)]], branch, sign)]

LEMMA MaxIn ==
  ASSUME NEW S, IsFiniteSet(S), S \subseteq Int, S # {}
  PROVE  Max(S) \in S
BY GreatestExists DEF Max

LEMMA MovesExist ==
  ASSUME NEW S, IsFiniteSet(S), S \subseteq Int, NEW lines, NEW order, NEW branch,
         NEW sign
  PROVE  \E g : MoveTable(g, lines, order, branch, sign, S)
<1> DEFINE Solves(g, T) == MoveTable(g, lines, order, branch, sign, T)
           G == {T \in SUBSET S : \E g : Solves(g, T)}
<1>0. ASSUME NEW U \in SUBSET S, NEW W \in SUBSET U, NEW g, NEW k, Solves(g, U), Solves(k, W)
      PROVE  g[W] = k[W]
  <2> DEFINE H == {T \in SUBSET W : g[T] = k[T]}
  <2>1. ASSUME NEW T \in SUBSET W, \A X \in SUBSET T : X # T => X \in H
        PROVE  T \in H
    <3>1. CASE T = {}
      BY <1>0, <3>1 DEF MoveTable
    <3>2. CASE T # {}
      <4>1. IsFiniteSet(T) /\ T \subseteq Int
        BY FS_Subset
      <4>2. Max(T) \in T
        BY <3>2, <4>1, MaxIn
      <4>3. g[T \ {Max(T)}] = k[T \ {Max(T)}]
        BY <2>1, <4>2
      <4>4. /\ g[T] = MoveOf(g[T \ {Max(T)}], lines[order[Max(T)]], branch, sign)
            /\ k[T] = MoveOf(k[T \ {Max(T)}], lines[order[Max(T)]], branch, sign)
        BY <1>0, <3>2 DEF MoveTable
      <4>5. QED
        BY <4>3, <4>4
    <3>3. QED
      BY <3>1, <3>2
  <2>2. \A T \in SUBSET W : T \in H
    <3>1. IsFiniteSet(W)
      BY FS_Subset
    <3> HIDE DEF H
    <3>2. QED
      BY <2>1, <3>1, SubsetInduction
  <2>3. QED
    BY <2>2
<1>1. ASSUME NEW T \in SUBSET S, \A U \in SUBSET T : U # T => U \in G
      PROVE  T \in G
  <2> DEFINE V(U) == (CHOOSE g : Solves(g, U))[U]
             M(inv, U) == MoveOf(inv, lines[order[Max(U)]], branch, sign)
             h == [U \in SUBSET T |-> IF U = {} THEN stock ELSE M(V(U \ {Max(U)}), U)]
  <2>0. ASSUME NEW U \in SUBSET T, U # {}
        PROVE  /\ Max(U) \in U /\ IsFiniteSet(U \ {Max(U)}) /\ U \ {Max(U)} \subseteq Int
               /\ U \ {Max(U)} \in SUBSET T /\ U \ {Max(U)} # T
    <3>1. IsFiniteSet(U) /\ IsFiniteSet(U \ {Max(U)}) /\ U \subseteq Int
      BY FS_Subset
    <3>2. Max(U) \in U
      BY <2>0, <3>1, MaxIn
    <3>3. QED
      BY <3>1, <3>2
  <2>1. ASSUME NEW U \in SUBSET T, U # T
        PROVE  h[U] = V(U)
    <3>1. PICK g : Solves(g, U) /\ g[U] = V(U)
      BY <1>1, <2>1
    <3>2. CASE U = {}
      BY <3>1, <3>2 DEF MoveTable
    <3>3. CASE U # {}
      <4> DEFINE W == U \ {Max(U)}
      <4>1. /\ IsFiniteSet(W) /\ W \subseteq Int /\ W \in SUBSET T /\ W # T
            /\ W \subseteq U
        BY <2>0, <3>3
      <4>2. PICK k : Solves(k, W) /\ k[W] = V(W)
        BY <1>1, <4>1
      <4>3. g[W] = k[W]
        <5>1. U \in SUBSET S /\ W \in SUBSET U /\ Solves(g, U) /\ Solves(k, W)
          BY <3>1, <4>1, <4>2
        <5> HIDE DEF W, V, M, G, h, Solves
        <5>2. QED
          BY <1>0, <5>1
      <4>4. g[U] = M(g[W], U)
        BY <3>1, <3>3 DEF MoveTable
      <4>5. h[U] = M(V(W), U)
        BY <3>3
      <4> HIDE DEF h, V, M, W
      <4>6. QED
        BY <3>1, <4>2, <4>3, <4>4, <4>5
    <3>4. QED
      BY <3>2, <3>3
  <2>2. ASSUME NEW U \in SUBSET T, U # {}
        PROVE  h[U \ {Max(U)}] = V(U \ {Max(U)})
    <3>1. U \ {Max(U)} \in SUBSET T /\ U \ {Max(U)} # T
      BY <2>0, <2>2
    <3> HIDE DEF h, V
    <3>2. QED
      BY <2>1, <3>1
  <2>3. h = [U \in SUBSET T |-> IF U = {} THEN stock ELSE M(h[U \ {Max(U)}], U)]
    <3> HIDE DEF V, M
    <3>1. QED
      BY <2>2
  <2>4. Solves(h, T)
    <3> HIDE DEF V, h
    <3>1. QED
      BY <2>3 DEF MoveTable
  <2>5. QED
    BY <2>4
<1>2. \A T \in SUBSET S : T \in G
  <2> HIDE DEF G
  <2>1. QED
    BY <1>1, SubsetInduction
<1>3. QED
  BY <1>2

LEMMA MoveInTable ==
  ASSUME NEW lines, NEW order, NEW branch, NEW sign, IsFiniteSet(DOMAIN order),
         DOMAIN order \subseteq Int
  PROVE  \E g : /\ MoveTable(g, lines, order, branch, sign, DOMAIN order)
                /\ MoveLines(lines, order, branch, sign) = g[DOMAIN order]
<1> DEFINE g == CHOOSE g : MoveTable(g, lines, order, branch, sign, DOMAIN order)
<1>1. MoveTable(g, lines, order, branch, sign, DOMAIN order)
  BY MovesExist
<1>2. MoveLines(lines, order, branch, sign) = g[DOMAIN order]
  BY DEF MoveLines, FoldLeft, MapThenFoldSet, MoveTable, MoveOf
<1>3. QED
  BY <1>1, <1>2

Cells == Products \X Branches
Worths(inv) == [k \in Cells |-> IF inv[k] = NoRow THEN 0 ELSE inv[k]]

LEMMA OnHandOfWorths == \A inv : OnHand(inv) = SumFunctionOnSet(Worths(inv), Cells)
BY DEF OnHand, Worths, Cells

LEMMA CellsFinite == IsFiniteSet(Cells)
BY TablesAssumption, FS_Product DEF Cells

LEMMA OnHandInt ==
  ASSUME NEW inv, \A k \in Cells : inv[k] \in Nat \cup {NoRow}
  PROVE  OnHand(inv) \in Int
<1>1. \A k \in Cells : Worths(inv)[k] \in Int
  BY DEF Worths, NoRow
<1>2. QED
  BY <1>1, CellsFinite, SumInt, OnHandOfWorths

\* One row of the inventory changes.
LEMMA OneCell ==
  ASSUME NEW inv, NEW after, NEW e \in Cells, NEW change \in Int,
         \A k \in Cells : inv[k] \in Nat \cup {NoRow} /\ after[k] \in Nat \cup {NoRow},
         \A k \in Cells : k # e => after[k] = inv[k],
         Worth(after[e]) = Worth(inv[e]) + change
  PROVE  OnHand(after) = OnHand(inv) + change
<1>1. /\ \A k \in Cells : Worths(inv)[k] = Worth(inv[k])
      /\ \A k \in Cells : Worths(after)[k] = Worth(after[k])
  BY DEF Worths, Worth
<1>2. \A v \in Nat \cup {NoRow} : Worth(v) \in Nat
  BY DEF Worth
<1>3. ASSUME NEW k \in Cells
      PROVE  Worths(inv)[k] \in Int /\ Worths(after)[k] \in Int
  <2>1. Worth(inv[k]) \in Nat /\ Worth(after[k]) \in Nat
    BY <1>2
  <2>2. Worths(inv)[k] = Worth(inv[k]) /\ Worths(after)[k] = Worth(after[k])
    BY <1>1
  <2>3. QED
    BY <2>1, <2>2
<1>4. \A k \in Cells : k # e => Worths(after)[k] = Worths(inv)[k]
  BY <1>1
<1>5. SumFunctionOnSet(Worths(after), Cells)
        = SumFunctionOnSet(Worths(inv), Cells) + Worths(after)[e] - Worths(inv)[e]
  BY <1>3, <1>4, CellsFinite, SumUpdate
<1>6. Worths(after)[e] = Worths(inv)[e] + change
  BY <1>1
<1>7. SumFunctionOnSet(Worths(inv), Cells) \in Int /\ Worths(inv)[e] \in Int
  BY <1>3, CellsFinite, SumInt
<1>8. QED
  BY <1>5, <1>6, <1>7, OnHandOfWorths

\* One line moves: one row of the inventory changes, or the move is refused.
LEMMA OneMove ==
  ASSUME ~DecimalText, NEW inv \in [Cells -> Nat \cup {NoRow, Refused}], NEW row,
         row.product \in Products, row.approved \in Nat, 1 <= row.approved,
         NEW branch \in Branches, NEW sign \in {-1, 1}
  PROVE  LET after == MoveOf(inv, row, branch, sign)
         IN  /\ after \in [Cells -> Nat \cup {NoRow, Refused}]
             /\ \A k \in Cells : inv[k] = Refused => after[k] = Refused
             /\ (\A k \in Cells : after[k] # Refused) =>
                  OnHand(after) = OnHand(inv) + sign * (Scale * row.approved)
<1> DEFINE e == <<row.product, branch>>
           new == MoveStock(inv[e], sign * row.approved)
           after == MoveOf(inv, row, branch, sign)
<1>1. e \in Cells
  BY DEF Cells
<1>2. /\ after \in [Cells -> {new} \cup (Nat \cup {NoRow, Refused})]
      /\ after[e] = new
      /\ \A k \in Cells : k # e => after[k] = inv[k]
  BY <1>1 DEF MoveOf
<1>3. /\ new \in Nat \cup {NoRow, Refused}
      /\ inv[e] = Refused => new = Refused
      /\ new # Refused => Worth(new) = Worth(inv[e]) + sign * (Scale * row.approved)
  <2> DEFINE v == inv[e]
             q == row.approved
  <2>1. v \in Nat \cup {NoRow, Refused} /\ q \in Nat /\ 1 <= q
    BY <1>1
  <2> HIDE DEF v, q, e
  <2>2. /\ MoveStock(v, sign * q) \in Nat \cup {NoRow, Refused}
        /\ v = Refused => MoveStock(v, sign * q) = Refused
        /\ MoveStock(v, sign * q) # Refused =>
              Worth(MoveStock(v, sign * q)) = Worth(v) + sign * (Scale * q)
    BY <2>1, NumericMove
  <2>3. QED
    BY <2>2 DEF v, q
<1> HIDE DEF e, new, after
<1>4. after \in [Cells -> Nat \cup {NoRow, Refused}]
  BY <1>2, <1>3
<1>5. \A k \in Cells : inv[k] = Refused => after[k] = Refused
  BY <1>2, <1>3
<1>6. ASSUME \A k \in Cells : after[k] # Refused
      PROVE  OnHand(after) = OnHand(inv) + sign * (Scale * row.approved)
  <2>1. \A k \in Cells : inv[k] \in Nat \cup {NoRow} /\ after[k] \in Nat \cup {NoRow}
    BY <1>4, <1>5, <1>6
  <2>2. sign * (Scale * row.approved) \in Int
    BY DEF Scale
  <2>3. Worth(after[e]) = Worth(inv[e]) + sign * (Scale * row.approved)
    BY <1>1, <1>2, <1>3, <1>6
  <2>4. QED
    BY <1>1, <1>2, <2>1, <2>2, <2>3, OneCell
<1>7. QED
  BY <1>4, <1>5, <1>6 DEF after

\* The lines of a shipment move: the shelves gain, or lose, what they carry.
LEMMA MovesOnHand ==
  ASSUME ~DecimalText, StockInv, NEW lines, NEW order,
         IsFiniteSet(DOMAIN order), DOMAIN order \subseteq Int,
         NEW branch \in Branches, NEW sign \in {-1, 1},
         \A i \in DOMAIN order :
           /\ lines[order[i]].product \in Products
           /\ lines[order[i]].approved \in Nat /\ 1 <= lines[order[i]].approved,
         MoveLines(lines, order, branch, sign) \in Inventories,
         NEW share, \A i \in DOMAIN order :
                      share[i] = sign * (Scale * lines[order[i]].approved)
  PROVE  OnHand(MoveLines(lines, order, branch, sign))
           = OnHand(stock) + SumFunctionOnSet(share, DOMAIN order)
<1> DEFINE D == DOMAIN order
<1>1. PICK g : /\ MoveTable(g, lines, order, branch, sign, D)
               /\ MoveLines(lines, order, branch, sign) = g[D]
  BY MoveInTable
<1>2. \A i \in D : share[i] \in Int
  BY DEF Scale
<1>3. OnHand(stock) \in Int
  BY OnHandInt DEF StockInv, Inventories, Cells
<1> DEFINE Moved(T) == /\ g[T] \in [Cells -> Nat \cup {NoRow, Refused}]
                       /\ (\A k \in Cells : g[T][k] # Refused) =>
                            OnHand(g[T]) = OnHand(stock) + SumFunctionOnSet(share, T)
           G == {T \in SUBSET D : Moved(T)}
<1>4. ASSUME NEW T \in SUBSET D, \A U \in SUBSET T : U # T => U \in G
      PROVE  T \in G
  <2>1. CASE T = {}
    <3>1. g[T] = stock
      BY <1>1, <2>1 DEF MoveTable
    <3>2. stock \in [Cells -> Nat \cup {NoRow, Refused}]
      BY DEF StockInv, Inventories, Cells
    <3>3. SumFunctionOnSet(share, T) = 0
      BY <2>1, SumEmpty
    <3>4. QED
      BY <1>3, <3>1, <3>2, <3>3
  <2>2. CASE T # {}
    <3> DEFINE e == Max(T)
               U == T \ {e}
               row == lines[order[e]]
    <3>1. IsFiniteSet(T) /\ IsFiniteSet(U) /\ T \subseteq Int
      BY FS_Subset
    <3>2. e \in T
      BY <2>2, <3>1, MaxIn
    <3>3. g[T] = MoveOf(g[U], row, branch, sign)
      BY <1>1, <2>2 DEF MoveTable
    <3>4. Moved(U)
      BY <1>4, <3>2
    <3>5. /\ row.product \in Products /\ row.approved \in Nat /\ 1 <= row.approved
          /\ share[e] = sign * (Scale * row.approved) /\ share[e] \in Int
      BY <1>2, <3>2
    <3>6. T = U \cup {e} /\ e \notin U /\ \A x \in U \cup {e} : share[x] \in Int
      BY <1>2, <3>2
    <3> HIDE DEF e, U, row, D
    <3>7. SumFunctionOnSet(share, T) = share[e] + SumFunctionOnSet(share, U)
      BY <3>1, <3>6, SumAdd
    <3>8. SumFunctionOnSet(share, U) \in Int
      BY <3>1, <3>6, SumInt
    <3>9. /\ g[T] \in [Cells -> Nat \cup {NoRow, Refused}]
          /\ \A k \in Cells : g[U][k] = Refused => g[T][k] = Refused
          /\ (\A k \in Cells : g[T][k] # Refused) =>
               OnHand(g[T]) = OnHand(g[U]) + share[e]
      <4> DEFINE inv == g[U]
      <4>1. inv \in [Cells -> Nat \cup {NoRow, Refused}]
        BY <3>4
      <4> HIDE DEF inv, Moved, G
      <4>2. QED
        BY <3>3, <3>5, <4>1, OneMove DEF inv
    <3>10. (\A k \in Cells : g[T][k] # Refused) =>
             OnHand(g[T]) = OnHand(stock) + SumFunctionOnSet(share, T)
      BY <1>3, <3>4, <3>5, <3>7, <3>8, <3>9
    <3>11. QED
      BY <3>9, <3>10
  <2>3. QED
    BY <2>1, <2>2
<1>5. \A T \in SUBSET D : T \in G
  <2> HIDE DEF G
  <2>1. QED
    BY <1>4, SubsetInduction
<1>6. Moved(D)
  BY <1>5
<1>7. \A k \in Cells : g[D][k] # Refused
  BY <1>1 DEF Inventories, Cells, NoRow, Refused
<1>8. QED
  BY <1>1, <1>6, <1>7

LEMMA OrderIsOnto ==
  ASSUME NEW S, IsFiniteSet(S), NEW order \in SetToSeqs(S)
  PROVE  /\ IsFiniteSet(DOMAIN order) /\ DOMAIN order \subseteq Int
         /\ {order[i] : i \in DOMAIN order} = S
         /\ \A i, j \in DOMAIN order : i # j => order[i] # order[j]
<1> DEFINE D == 1 .. Cardinality(S)
<1>1. /\ DOMAIN order = D /\ order \in [D -> S]
      /\ \A i, j \in D : i # j => order[i] # order[j]
  BY DEF SetToSeqs
<1>2. Cardinality(S) \in Nat
  BY FS_CardinalityType
<1>3. IsFiniteSet(D) /\ Cardinality(D) = Cardinality(S)
  BY <1>2, FS_Interval
<1>4. order \in Injection(D, S)
  BY <1>1 DEF Injection, IsInjective
<1>5. order \in Surjection(D, S)
  <2> HIDE DEF D
  <2>1. QED
    BY <1>3, <1>4, FS_Injection
<1>6. {order[i] : i \in D} = S
  BY <1>1, <1>5 DEF Surjection
<1>7. QED
  BY <1>1, <1>2, <1>3, <1>6

\* Whatever the order in which the lines move.
LEMMA ShipmentOnHand ==
  ASSUME ~DecimalText, StockInv, NEW lines, NEW moving, IsFiniteSet(moving),
         NEW order \in SetToSeqs(moving), NEW branch \in Branches, NEW sign \in {-1, 1},
         \A l \in moving : /\ lines[l].product \in Products
                           /\ lines[l].approved \in Nat /\ 1 <= lines[l].approved,
         MoveLines(lines, order, branch, sign) \in Inventories,
         NEW share, \A l \in moving : share[l] = sign * (Scale * lines[l].approved)
  PROVE  OnHand(MoveLines(lines, order, branch, sign))
           = OnHand(stock) + SumFunctionOnSet(share, moving)
<1> DEFINE f == [i \in DOMAIN order |-> share[order[i]]]
<1>1. /\ IsFiniteSet(DOMAIN order) /\ DOMAIN order \subseteq Int
      /\ {order[i] : i \in DOMAIN order} = moving
      /\ \A i, j \in DOMAIN order : i # j => order[i] # order[j]
  BY OrderIsOnto
<1>2. \A i \in DOMAIN order : order[i] \in moving
  BY <1>1
<1>3. \A i \in DOMAIN order :
        /\ f[i] = share[order[i]]
        /\ f[i] = sign * (Scale * lines[order[i]].approved)
        /\ lines[order[i]].product \in Products
        /\ lines[order[i]].approved \in Nat /\ 1 <= lines[order[i]].approved
  BY <1>2
<1> HIDE DEF f
<1>4. \A i \in DOMAIN order : f[i] \in Int
  BY <1>3 DEF Scale
<1>5. OnHand(MoveLines(lines, order, branch, sign))
        = OnHand(stock) + SumFunctionOnSet(f, DOMAIN order)
  <2>1. \A i \in DOMAIN order :
          /\ lines[order[i]].product \in Products
          /\ lines[order[i]].approved \in Nat /\ 1 <= lines[order[i]].approved
    BY <1>3
  <2>2. \A i \in DOMAIN order : f[i] = sign * (Scale * lines[order[i]].approved)
    BY <1>3
  <2>3. IsFiniteSet(DOMAIN order) /\ DOMAIN order \subseteq Int
    BY <1>1
  <2>4. QED
    BY <2>1, <2>2, <2>3, MovesOnHand
<1>6. SumFunctionOnSet(f, DOMAIN order) = SumFunctionOnSet(share, moving)
  <2>1. SumFunctionOnSet(f, DOMAIN order)
          = SumFunctionOnSet(share, {order[i] : i \in DOMAIN order})
    BY <1>1, <1>3, <1>4, SumReindex
  <2>2. QED
    BY <1>1, <2>1, Zenon
<1>7. QED
  BY <1>5, <1>6

-----------------------------------------------------------------------------
\* What a line carries on the road.
RoadShare(row) == IF row.status = "IN_TRANSIT" THEN Scale * row.approved ELSE 0
Road(table) == SumFunctionOnSet([l \in Lines |-> RoadShare(table[l])], Lines)

LEMMA LineQuantity ==
  ASSUME NEW row \in LineRow
  PROVE  /\ row.approved \in Nat
         /\ Reviewed(row) /\ row.status \in {"APPROVED", "IN_TRANSIT", "COMPLETED"} =>
              1 <= row.approved /\ row.source \in Branches
<1>1. row.approved \in Nat /\ row.requested \in Int
  BY QuantitiesAssumption DEF LineRow
<1>2. QED
  BY <1>1 DEF Reviewed

LEMMA RoadIsInTransit ==
  ASSUME NEW table \in [Lines -> LineRow \cup {NoLine}],
         NEW P, P = {l \in Lines : table[l].status = "IN_TRANSIT"}
  PROVE  /\ SumFunctionOnSet([l \in P |-> Scale * table[l].approved], P) = Road(table)
         /\ \A l \in Lines : RoadShare(table[l]) \in Int
         /\ Road(table) \in Int
<1> DEFINE f == [l \in Lines |-> RoadShare(table[l])]
           g == [l \in P |-> Scale * table[l].approved]
<1>1. ASSUME NEW l \in Lines
      PROVE  RoadShare(table[l]) \in Int
  <2>1. CASE table[l] = NoLine
    BY <2>1 DEF RoadShare, NoLine
  <2>2. CASE table[l] \in LineRow
    BY <2>2, LineQuantity DEF RoadShare, Scale
  <2>3. QED
    BY <2>1, <2>2
<1>2. /\ IsFiniteSet(Lines) /\ P \in SUBSET Lines /\ IsFiniteSet(P)
      /\ \A l \in Lines : f[l] \in Int
      /\ \A l \in Lines \ P : f[l] = 0
      /\ \A l \in P : g[l] = f[l]
  BY <1>1, TablesAssumption, FS_Subset DEF RoadShare
<1> HIDE DEF f, g
<1>3. SumFunctionOnSet(f, P) = SumFunctionOnSet(f, Lines)
  BY <1>2, SumSupport
<1>4. SumFunctionOnSet(g, P) = SumFunctionOnSet(f, P)
  BY <1>2, SumSame
<1>5. SumFunctionOnSet(f, Lines) \in Int
  BY <1>2, SumInt
<1>6. QED
  BY <1>1, <1>3, <1>4, <1>5 DEF Road, f, g

\* What the shelves and the tills gain is what the lines on the road lose.
LEMMA ConservedStep ==
  ASSUME LockedInv, LockedInv', Conservation, NEW share,
         \A l \in Lines : /\ share[l] \in Int
                          /\ RoadShare(line[l]) = RoadShare(line'[l]) + share[l],
         OnHand(stock') + sold' = OnHand(stock) + sold + SumFunctionOnSet(share, Lines)
  PROVE  Conservation'
<1>1. /\ line \in [Lines -> LineRow \cup {NoLine}] /\ stock \in Inventories
      /\ line' \in [Lines -> LineRow \cup {NoLine}] /\ stock' \in Inventories
      /\ sold \in Nat /\ sold' \in Nat
  BY DEF LockedInv, IInv, TablesOK, StockInv
<1>2. /\ InTransit = Road(line) /\ Road(line) \in Int
      /\ \A l \in Lines : RoadShare(line[l]) \in Int
  BY <1>1, RoadIsInTransit DEF InTransit, OnTheRoad
<1>3. /\ InTransit' = Road(line') /\ Road(line') \in Int
      /\ \A l \in Lines : RoadShare(line'[l]) \in Int
  BY <1>1, RoadIsInTransit DEF InTransit, OnTheRoad
<1>4. Road(line) = Road(line') + SumFunctionOnSet(share, Lines)
  <2> DEFINE h == [l \in Lines |-> RoadShare(line[l])]
             f == [l \in Lines |-> RoadShare(line'[l])]
  <2>1. \A l \in Lines : f[l] \in Int /\ share[l] \in Int /\ h[l] = f[l] + share[l]
    BY <1>2, <1>3
  <2> HIDE DEF h, f
  <2>2. SumFunctionOnSet(h, Lines)
          = SumFunctionOnSet(f, Lines) + SumFunctionOnSet(share, Lines)
    BY <2>1, TablesAssumption, SumPlus
  <2>3. QED
    BY <2>2 DEF Road, h, f
<1>5. OnHand(stock) \in Int /\ OnHand(stock') \in Int
  BY <1>1, OnHandInt DEF Inventories, Cells
<1>6. SumFunctionOnSet(share, Lines) \in Int
  BY TablesAssumption, SumInt
<1>7. OnHand(stock') + InTransit' + sold' = OnHand(stock) + InTransit + sold
  <2>1. InTransit = Road(line) /\ InTransit' = Road(line')
    BY <1>2, <1>3
  <2>2. Road(line) \in Int /\ Road(line') \in Int /\ sold \in Int /\ sold' \in Int
    BY <1>1, <1>2, <1>3
  <2>3. OnHand(stock') + Road(line') + sold' = OnHand(stock) + Road(line) + sold
    BY <1>4, <1>5, <1>6, <2>2
  <2>4. QED
    BY <2>1, <2>3
<1>8. QED
  BY <1>7 DEF Conservation

-----------------------------------------------------------------------------
(***************************************************************************)
(* The steps.                                                              *)
(***************************************************************************)
LEMMA RoadKept ==
  ASSUME LockedInv, LockedInv', Conservation,
         \A l \in Lines : RoadShare(line'[l]) = RoadShare(line[l]),
         OnHand(stock') + sold' = OnHand(stock) + sold
  PROVE  Conservation'
<1> DEFINE share == [l \in Lines |-> 0]
<1>1. \A l \in Lines : share[l] = 0
  OBVIOUS
<1>2. \A l \in Lines : RoadShare(line[l]) \in Int
  BY RoadIsInTransit DEF LockedInv, IInv, TablesOK
<1>3. OnHand(stock) \in Int /\ sold \in Int
  BY OnHandInt DEF LockedInv, IInv, StockInv, TablesOK, Inventories, Cells
<1> HIDE DEF share
<1>4. SumFunctionOnSet(share, Lines) = 0
  BY <1>1, TablesAssumption, SumZero
<1>5. \A l \in Lines : /\ share[l] \in Int
                       /\ RoadShare(line[l]) = RoadShare(line'[l]) + share[l]
  BY <1>1, <1>2
<1>6. OnHand(stock') + sold' = OnHand(stock) + sold + SumFunctionOnSet(share, Lines)
  BY <1>3, <1>4
<1>7. QED
  BY <1>5, <1>6, ConservedStep

LEMMA QuietRoad ==
  ASSUME LockedInv, LockedInv', Conservation, UNCHANGED <<stock, sold>>,
         \A l \in Lines : RoadShare(line'[l]) = RoadShare(line[l])
  PROVE  Conservation'
<1>1. OnHand(stock') + sold' = OnHand(stock) + sold
  OBVIOUS
<1>2. QED
  BY <1>1, RoadKept

LEMMA OneLineMoves ==
  ASSUME LockedInv, LockedInv', Conservation, NEW l \in Lines, NEW x \in Int,
         RoadShare(line[l]) = RoadShare(line'[l]) + x,
         \A m \in Lines : m # l => line'[m] = line[m],
         OnHand(stock') = OnHand(stock) + x, sold' = sold
  PROVE  Conservation'
<1> DEFINE share == [m \in Lines |-> IF m = l THEN x ELSE 0]
<1>1. /\ \A m \in Lines : share[m] \in Int
      /\ \A m \in Lines \ {l} : share[m] = 0
      /\ share[l] = x
  OBVIOUS
<1>2. \A m \in Lines : RoadShare(line[m]) \in Int
  BY RoadIsInTransit DEF LockedInv, IInv, TablesOK
<1>3. OnHand(stock) \in Int /\ sold \in Int
  BY OnHandInt DEF LockedInv, IInv, StockInv, TablesOK, Inventories, Cells
<1> HIDE DEF share
<1>4. SumFunctionOnSet(share, Lines) = x
  <2>1. SumFunctionOnSet(share, {l}) = SumFunctionOnSet(share, Lines)
    BY <1>1, TablesAssumption, SumSupport
  <2>2. SumFunctionOnSet(share, {l}) = x
    BY <1>1, SumOne
  <2>3. QED
    BY <2>1, <2>2
<1>5. \A m \in Lines : /\ share[m] \in Int
                       /\ RoadShare(line[m]) = RoadShare(line'[m]) + share[m]
  BY <1>1, <1>2
<1>6. OnHand(stock') + sold' = OnHand(stock) + sold + SumFunctionOnSet(share, Lines)
  BY <1>3, <1>4
<1>7. QED
  BY <1>5, <1>6, ConservedStep

\* A row gains or loses q units.
LEMMA RowCredited ==
  ASSUME StockInv, NEW k \in Cells, NEW new \in Nat \cup {NoRow},
         NEW change \in Int, Worth(new) = Worth(stock[k]) + change,
         stock' = [stock EXCEPT ![k] = new]
  PROVE  OnHand(stock') = OnHand(stock) + change
<1> DEFINE after == stock'
<1>1. \A e \in Cells : stock[e] \in Nat \cup {NoRow} /\ after[e] \in Nat \cup {NoRow}
  BY DEF StockInv, Inventories, Cells
<1>2. \A e \in Cells : e # k => after[e] = stock[e]
  BY DEF StockInv, Inventories, Cells
<1>3. Worth(after[k]) = Worth(stock[k]) + change
  BY DEF StockInv, Inventories, Cells
<1>4. OnHand(after) = OnHand(stock) + change
  <2> HIDE DEF after
  <2>1. QED
    BY <1>1, <1>2, <1>3, OneCell
<1>5. QED
  BY <1>4

LEMMA ShipConserves ==
  ASSUME LockedInv, LockedInv', Conservation, NEW w \in Workers, ShipTransaction(w)
  PROVE  Conservation'
<1> DEFINE row == req[w].row
           l == req[w].id
           q == row.approved
           key == <<row.product, row.source>>
<1>1. /\ l \in Lines /\ row \in LineRow /\ Reviewed(row) /\ row.status = "APPROVED"
      /\ SameGoods(line[l], row) /\ line[l] # NoLine
  BY LineRequestFields
     DEF ShipTransaction, LockedInv, IInv, ReviewedInv, ReviewedRequest, AsRead
<1>2. q \in Nat /\ 1 <= q /\ row.source \in Branches
  BY <1>1, LineQuantity
<1>3. key \in Cells
  BY <1>1, <1>2 DEF Cells, LineRow
<1>4. /\ line[l].status = "APPROVED" /\ Covers(stock[key], q)
      /\ stock' = [stock EXCEPT ![key] = stock[key] - Scale * q]
      /\ line' = [line EXCEPT ![l].status = "IN_TRANSIT"] /\ sold' = sold
  BY DEF ShipTransaction
<1>5. stock[key] \in Nat \cup {NoRow} /\ StockInv
  BY <1>3 DEF LockedInv, IInv, StockInv, Inventories, Cells
<1>6. line[l] \in LineRow /\ line \in [Lines -> LineRow \cup {NoLine}]
  BY <1>1, LineIsRow DEF LockedInv, IInv, TablesOK
<1>7. /\ line'[l].status = "IN_TRANSIT" /\ line'[l].approved = q
      /\ \A m \in Lines : m # l => line'[m] = line[m]
  BY <1>1, <1>4, <1>6 DEF LineRow, SameGoods
<1> HIDE DEF row, l, q, key
<1>8. OnHand(stock') = OnHand(stock) + -(Scale * q)
  <2>1. /\ stock[key] - Scale * q \in Nat /\ stock[key] \in Nat
        /\ -(Scale * q) \in Int
    BY <1>2, <1>4, <1>5 DEF Covers, NoRow, Scale
  <2>2. Worth(stock[key] - Scale * q) = Worth(stock[key]) + -(Scale * q)
    BY <1>2, <2>1 DEF Worth, NoRow, Scale
  <2>3. QED
    BY <1>2, <1>3, <1>4, <1>5, <2>1, <2>2, RowCredited
<1>9. RoadShare(line[l]) = RoadShare(line'[l]) + -(Scale * q) /\ -(Scale * q) \in Int
  BY <1>2, <1>4, <1>7 DEF RoadShare, Scale
<1>10. QED
  BY <1>1, <1>4, <1>7, <1>8, <1>9, OneLineMoves

LEMMA ReceiveConserves ==
  ASSUME ~DecimalText, LockedInv, LockedInv', Conservation, NEW w \in Workers,
         ReceiveTransaction(w)
  PROVE  Conservation'
<1> DEFINE row == req[w].row
           l == req[w].id
           q == row.approved
           key == <<row.product, row.dest>>
<1>1. /\ l \in Lines /\ row \in LineRow /\ Reviewed(row) /\ row.status = "IN_TRANSIT"
      /\ SameGoods(line[l], row) /\ line[l] # NoLine
  BY LineRequestFields
     DEF ReceiveTransaction, LockedInv, IInv, ReviewedInv, ReviewedRequest, AsRead
<1>2. q \in Nat /\ 1 <= q
  BY <1>1, LineQuantity
<1>3. key \in Cells
  BY <1>1 DEF Cells, LineRow
<1>4. /\ line[l].status = "IN_TRANSIT"
      /\ stock' = [stock EXCEPT ![key] = Credited(stock[key], q)]
      /\ line' = [line EXCEPT ![l].status = "COMPLETED"] /\ sold' = sold
  BY DEF ReceiveTransaction
<1>5. stock[key] \in Nat \cup {NoRow} /\ StockInv
  BY <1>3 DEF LockedInv, IInv, StockInv, Inventories, Cells
<1>6. line[l] \in LineRow /\ line \in [Lines -> LineRow \cup {NoLine}]
  BY <1>1, LineIsRow DEF LockedInv, IInv, TablesOK
<1>7. /\ line'[l].status = "COMPLETED" /\ line[l].approved = q
      /\ \A m \in Lines : m # l => line'[m] = line[m]
  BY <1>1, <1>4, <1>6 DEF LineRow, SameGoods
<1> HIDE DEF row, l, q, key
<1>8. OnHand(stock') = OnHand(stock) + Scale * q
  <2>1. Scale * q \in Int /\ Credited(stock[key], q) \in Nat
    BY <1>2, <1>5 DEF Credited, Plus, NoRow, Scale
  <2>2. Worth(Credited(stock[key], q)) = Worth(stock[key]) + Scale * q
    BY <1>2, <1>5, <2>1 DEF Credited, Plus, Worth, NoRow, Scale
  <2>3. QED
    BY <1>2, <1>3, <1>4, <1>5, <2>1, <2>2, RowCredited
<1>9. RoadShare(line[l]) = RoadShare(line'[l]) + Scale * q /\ Scale * q \in Int
  BY <1>2, <1>4, <1>7 DEF RoadShare, Scale
<1>10. QED
  BY <1>1, <1>4, <1>7, <1>8, <1>9, OneLineMoves

LEMMA SaleConserves ==
  ASSUME LockedInv, LockedInv', Conservation, NEW p \in Products, NEW b \in Branches,
         NEW q \in Quantities, Sale(p, b, q)
  PROVE  Conservation'
<1> DEFINE key == <<p, b>>
<1>1. q \in Nat /\ key \in Cells
  BY QuantitiesAssumption DEF Cells
<1>2. stock[key] \in Nat \cup {NoRow} /\ StockInv /\ sold \in Nat
  BY <1>1 DEF LockedInv, IInv, TablesOK, StockInv, Inventories, Cells
<1>3. /\ Covers(stock[key], q) /\ line' = line /\ sold' = sold + Scale * q
      /\ stock' = [stock EXCEPT ![key] = stock[key] - Scale * q]
  BY DEF Sale
<1> HIDE DEF key
<1>4. OnHand(stock') = OnHand(stock) + -(Scale * q)
  <2>1. /\ stock[key] - Scale * q \in Nat /\ stock[key] \in Nat
        /\ -(Scale * q) \in Int
    BY <1>1, <1>2, <1>3 DEF Covers, NoRow, Scale
  <2>2. Worth(stock[key] - Scale * q) = Worth(stock[key]) + -(Scale * q)
    BY <1>1, <2>1 DEF Worth, NoRow, Scale
  <2>3. QED
    BY <1>1, <1>2, <1>3, <2>1, <2>2, RowCredited
<1>5. OnHand(stock) \in Int
  BY OnHandInt DEF LockedInv, IInv, StockInv, Inventories, Cells
<1>6. OnHand(stock') + sold' = OnHand(stock) + sold
  BY <1>1, <1>2, <1>3, <1>4, <1>5 DEF Scale
<1>7. QED
  BY <1>3, <1>6, RoadKept

\* The move of a shipment's lines, from the shelf to the road or back to a shelf.
ParcelMoves(lines, moving, order, branch, sign, from, to) ==
  /\ moving \in SUBSET Lines /\ order \in SetToSeqs(moving)
  /\ branch \in Branches /\ sign \in {-1, 1}
  /\ \/ sign = -1 /\ from = "APPROVED" /\ to = "IN_TRANSIT"
     \/ sign = 1 /\ from = "IN_TRANSIT" /\ to # "IN_TRANSIT"
  /\ \A l \in moving : /\ lines[l] = line[l] /\ line[l].status = from
                       /\ line'[l].status = to
                       /\ line'[l].approved = line[l].approved
  /\ \A l \in Lines : l \notin moving => line'[l] = line[l]
  /\ stock' = MoveLines(lines, order, branch, sign)
  /\ stock' \in Inventories /\ sold' = sold

\* What the shelf loses the road gains, and the other way round.
LEMMA ParcelConserves ==
  ASSUME ~DecimalText, LockedInv, LockedInv', Conservation, NEW lines, NEW moving,
         NEW order, NEW branch, NEW sign, NEW from, NEW to,
         ParcelMoves(lines, moving, order, branch, sign, from, to)
  PROVE  Conservation'
<1>0. /\ moving \in SUBSET Lines /\ order \in SetToSeqs(moving)
      /\ branch \in Branches /\ sign \in {-1, 1}
      /\ \/ sign = -1 /\ from = "APPROVED" /\ to = "IN_TRANSIT"
         \/ sign = 1 /\ from = "IN_TRANSIT" /\ to # "IN_TRANSIT"
      /\ \A l \in moving : /\ lines[l] = line[l] /\ line[l].status = from
                           /\ line'[l].status = to
                           /\ line'[l].approved = line[l].approved
      /\ \A l \in Lines : l \notin moving => line'[l] = line[l]
      /\ stock' = MoveLines(lines, order, branch, sign)
      /\ stock' \in Inventories /\ sold' = sold
  BY DEF ParcelMoves
<1> DEFINE share == [l \in Lines |-> IF l \in moving THEN sign * (Scale * line[l].approved)
                                                     ELSE 0]
<1>1. StockInv /\ TablesOK /\ ReviewedLines /\ IsFiniteSet(moving)
  BY <1>0, TablesAssumption, FS_Subset DEF LockedInv, IInv, ReviewedInv
<1>2. ASSUME NEW l \in moving
      PROVE  /\ line[l].product \in Products
             /\ line[l].approved \in Nat /\ 1 <= line[l].approved
  <2>1. line[l].status \in {"APPROVED", "IN_TRANSIT"}
    BY <1>0
  <2>2. l \in Lines /\ line[l] # NoLine
    BY <1>0, <2>1, KnownLineStatus DEF LineStatuses
  <2>3. line[l] \in LineRow /\ Reviewed(line[l])
    BY <1>1, <2>2, LineIsRow DEF ReviewedLines
  <2>4. QED
    BY <2>1, <2>3, LineQuantity DEF LineRow
<1>3. /\ \A l \in moving : share[l] = sign * (Scale * line[l].approved)
      /\ \A l \in Lines \ moving : share[l] = 0
  BY <1>0
<1>4. \A l \in Lines : RoadShare(line[l]) \in Int
  BY <1>1, RoadIsInTransit DEF TablesOK
<1> HIDE DEF share
<1>5. ASSUME NEW l \in Lines
      PROVE  share[l] \in Int /\ RoadShare(line[l]) = RoadShare(line'[l]) + share[l]
  <2>1. CASE l \in moving
    <3>1. Scale * line[l].approved \in Int
      BY <1>2, <2>1 DEF Scale
    <3>2. CASE sign = -1 /\ from = "APPROVED" /\ to = "IN_TRANSIT"
      <4>1. share[l] = -(Scale * line[l].approved)
        BY <1>3, <2>1, <3>1, <3>2
      <4>2. RoadShare(line[l]) = 0 /\ RoadShare(line'[l]) = Scale * line[l].approved
        BY <1>0, <2>1, <3>2 DEF RoadShare
      <4>3. QED
        BY <3>1, <4>1, <4>2
    <3>3. CASE sign = 1 /\ from = "IN_TRANSIT" /\ to # "IN_TRANSIT"
      <4>1. share[l] = Scale * line[l].approved
        BY <1>3, <2>1, <3>1, <3>3
      <4>2. RoadShare(line[l]) = Scale * line[l].approved /\ RoadShare(line'[l]) = 0
        BY <1>0, <2>1, <3>3 DEF RoadShare
      <4>3. QED
        BY <3>1, <4>1, <4>2
    <3>4. QED
      BY <1>0, <3>2, <3>3
  <2>2. CASE l \notin moving
    BY <1>0, <1>3, <1>4, <2>2
  <2>3. QED
    BY <2>1, <2>2
<1>6. OnHand(stock') = OnHand(stock) + SumFunctionOnSet(share, moving)
  <2>1. \A l \in moving : /\ lines[l].product \in Products
                          /\ lines[l].approved \in Nat /\ 1 <= lines[l].approved
    BY <1>0, <1>2
  <2>2. \A l \in moving : share[l] = sign * (Scale * lines[l].approved)
    BY <1>0, <1>3
  <2>3. MoveLines(lines, order, branch, sign) \in Inventories
    BY <1>0
  <2>4. OnHand(MoveLines(lines, order, branch, sign))
          = OnHand(stock) + SumFunctionOnSet(share, moving)
    BY <1>0, <1>1, <2>1, <2>2, <2>3, ShipmentOnHand
  <2>5. QED
    BY <1>0, <2>4
<1>7. SumFunctionOnSet(share, moving) = SumFunctionOnSet(share, Lines)
  BY <1>0, <1>3, <1>5, TablesAssumption, SumSupport
<1>8. OnHand(stock) \in Int /\ sold \in Int /\ SumFunctionOnSet(share, Lines) \in Int
  <2>1. SumFunctionOnSet(share, Lines) \in Int
    BY <1>5, TablesAssumption, SumInt
  <2>2. QED
    BY <1>1, <2>1, OnHandInt DEF StockInv, TablesOK, Inventories, Cells
<1>9. OnHand(stock') + sold' = OnHand(stock) + sold + SumFunctionOnSet(share, Lines)
  BY <1>0, <1>6, <1>7, <1>8
<1>10. QED
  BY <1>5, <1>9, ConservedStep

LEMMA ParcelCommitsConserve ==
  ASSUME ~DecimalText, LockedInv, LockedInv', Conservation, NEW w \in Workers,
         DispatchTransaction(w) \/ DeliverTransaction(w) \/ ReturnTransaction(w)
  PROVE  Conservation'
<1>1. TablesOK /\ AsRead(req[w]) /\ req[w].op \in LockOps
  BY DEF LockedInv, IInv, DispatchTransaction, DeliverTransaction, ReturnTransaction,
         LockOps
<1>2. PICK s \in Shipments : s = req[w].id
  BY <1>1, AsReadFields DEF LockedInv
<1>3. shipment[s].source \in Branches /\ shipment[s].dest \in Branches
  BY <1>1, <1>2, AsReadFields, ShipmentIsRow DEF LockedInv, ShipmentRow
<1> DEFINE lines == req[w].lines
<1>4. DOMAIN lines = Linked(s) /\ \A l \in Linked(s) : lines[l] = line[l]
  BY <1>1, <1>2 DEF AsRead
<1>5. Linked(s) \subseteq Lines /\ \A l \in Linked(s) : line[l] \in LineRow
  BY <1>1, LineIsRow DEF Linked
<1>6. \A row, new, status, parcel : Became(new, row, status, parcel) =>
        new.status = status /\ new.approved = row.approved
  BY DEF Became, SameGoods
<1>7. CASE DispatchTransaction(w)
  <2> DEFINE moving == {l \in DOMAIN lines : lines[l].status = "APPROVED"}
  <2>1. /\ \E order \in SetToSeqs(moving) :
             /\ MoveLines(lines, order, shipment[s].source, -1) \in Inventories
             /\ stock' = MoveLines(lines, order, shipment[s].source, -1)
        /\ line' = [l \in Lines |-> IF l \in moving
                      THEN [lines[l] EXCEPT !.status = "IN_TRANSIT"] ELSE line[l]]
        /\ sold' = sold
    BY <1>2, <1>7 DEF DispatchTransaction, CommitShipment
  <2>2. PICK order \in SetToSeqs(moving) :
             stock' = MoveLines(lines, order, shipment[s].source, -1)
             /\ stock' \in Inventories
    BY <2>1
  <2>3. moving \in SUBSET Lines
    BY <1>4, <1>5
  <2>4. \A l \in moving : lines[l] = line[l] /\ line[l].status = "APPROVED"
                          /\ line[l] \in LineRow
    BY <1>4, <1>5
  <2>5. \A l \in Lines : l \notin moving => line'[l] = line[l]
    BY <2>1
  <2>6. \A l \in moving :
          Became(line'[l], line[l], "IN_TRANSIT", line[l].shipment)
    BY <2>1, <2>3, <2>4, MovedLines
  <2> HIDE DEF moving, lines
  <2>7. \A l \in moving : /\ lines[l] = line[l] /\ line[l].status = "APPROVED"
                          /\ line'[l].status = "IN_TRANSIT"
                          /\ line'[l].approved = line[l].approved
    BY <1>6, <2>4, <2>6
  <2>8. ParcelMoves(lines, moving, order, shipment[s].source, -1, "APPROVED", "IN_TRANSIT")
    BY <1>3, <2>1, <2>2, <2>3, <2>5, <2>7 DEF ParcelMoves
  <2>9. QED
    BY <2>8, ParcelConserves
<1>8. CASE DeliverTransaction(w)
  <2> DEFINE moving == {l \in DOMAIN lines : lines[l].status = "IN_TRANSIT"}
  <2>1. /\ \E order \in SetToSeqs(moving) :
             /\ MoveLines(lines, order, shipment[s].dest, 1) \in Inventories
             /\ stock' = MoveLines(lines, order, shipment[s].dest, 1)
        /\ line' = [l \in Lines |-> IF l \in moving
                      THEN [lines[l] EXCEPT !.status = "COMPLETED"] ELSE line[l]]
        /\ sold' = sold
    BY <1>2, <1>8 DEF DeliverTransaction, CommitShipment
  <2>2. PICK order \in SetToSeqs(moving) :
             stock' = MoveLines(lines, order, shipment[s].dest, 1)
             /\ stock' \in Inventories
    BY <2>1
  <2>3. moving \in SUBSET Lines
    BY <1>4, <1>5
  <2>4. \A l \in moving : lines[l] = line[l] /\ line[l].status = "IN_TRANSIT"
                          /\ line[l] \in LineRow
    BY <1>4, <1>5
  <2>5. \A l \in Lines : l \notin moving => line'[l] = line[l]
    BY <2>1
  <2>6. \A l \in moving : Became(line'[l], line[l], "COMPLETED", line[l].shipment)
    BY <2>1, <2>3, <2>4, MovedLines
  <2> HIDE DEF moving, lines
  <2>7. \A l \in moving : /\ lines[l] = line[l] /\ line[l].status = "IN_TRANSIT"
                          /\ line'[l].status = "COMPLETED"
                          /\ line'[l].approved = line[l].approved
    BY <1>6, <2>4, <2>6
  <2>8. ParcelMoves(lines, moving, order, shipment[s].dest, 1, "IN_TRANSIT", "COMPLETED")
    BY <1>3, <2>1, <2>2, <2>3, <2>5, <2>7 DEF ParcelMoves
  <2>9. QED
    BY <2>8, ParcelConserves
<1>9. CASE ReturnTransaction(w)
  <2> DEFINE moving == {l \in DOMAIN lines : lines[l].status = "IN_TRANSIT"}
  <2>1. /\ \E order \in SetToSeqs(moving) :
             /\ MoveLines(lines, order, shipment[s].source, 1) \in Inventories
             /\ stock' = MoveLines(lines, order, shipment[s].source, 1)
        /\ line' = [l \in Lines |-> IF l \in moving
                      THEN [lines[l] EXCEPT !.status = "APPROVED", !.shipment = None]
                      ELSE line[l]]
        /\ sold' = sold
    BY <1>2, <1>9 DEF ReturnTransaction, CommitShipment
  <2>2. PICK order \in SetToSeqs(moving) :
             stock' = MoveLines(lines, order, shipment[s].source, 1)
             /\ stock' \in Inventories
    BY <2>1
  <2>3. moving \in SUBSET Lines
    BY <1>4, <1>5
  <2>4. \A l \in moving : lines[l] = line[l] /\ line[l].status = "IN_TRANSIT"
                          /\ line[l] \in LineRow
    BY <1>4, <1>5
  <2>5. \A l \in Lines : l \notin moving => line'[l] = line[l]
    BY <2>1
  <2>6. \A l \in moving : Became(line'[l], line[l], "APPROVED", None)
    BY <2>1, <2>3, <2>4, MovedLines
  <2> HIDE DEF moving, lines
  <2>7. \A l \in moving : /\ lines[l] = line[l] /\ line[l].status = "IN_TRANSIT"
                          /\ line'[l].status = "APPROVED"
                          /\ line'[l].approved = line[l].approved
    BY <1>6, <2>4, <2>6
  <2>8. ParcelMoves(lines, moving, order, shipment[s].source, 1, "IN_TRANSIT", "APPROVED")
    BY <1>3, <2>1, <2>2, <2>3, <2>5, <2>7 DEF ParcelMoves
  <2>9. QED
    BY <2>8, ParcelConserves
<1>10. QED
  BY <1>7, <1>8, <1>9

\* Reviews, links, unlinks and new lines put nothing on the road.
LEMMA TableWritesConserve ==
  ASSUME LockedInv, LockedInv', Conservation,
         \/ Create \/ CreateManagerBatch \/ CreateAdminDirect
         \/ \E w \in Workers : SaveLine(w)
         \/ \E w \in Workers, s \in Shipments : LinkTransaction(w, s)
         \/ \E s \in Shipments : CancelShipment(s)
  PROVE  Conservation'
<1>1. /\ line \in [Lines -> LineRow \cup {NoLine}]
      /\ req \in [Workers -> Requests] /\ TablesOK
  BY DEF LockedInv, IInv, TablesOK
<1>2. CASE Create \/ CreateManagerBatch \/ CreateAdminDirect
  <2>1. /\ UNCHANGED <<stock, sold>>
        /\ \A l \in Lines : \/ line'[l] = line[l]
                            \/ /\ line[l] = NoLine
                               /\ line'[l].status \in {"PENDING", "APPROVED"}
    BY <1>1, <1>2, CreatedLines DEF Create, CreateManagerBatch, CreateAdminDirect
  <2>2. \A l \in Lines : RoadShare(line'[l]) = RoadShare(line[l])
    BY <2>1 DEF RoadShare, NoLine
  <2>3. QED
    BY <2>1, <2>2, QuietRoad
<1>3. ASSUME NEW w \in Workers, SaveLine(w)
      PROVE  Conservation'
  <2>1. /\ req[w].id \in Lines /\ SaveOf(req[w].row, line[req[w].id])
        /\ line' = [line EXCEPT ![req[w].id] = req[w].row]
        /\ UNCHANGED <<stock, sold>>
    BY <1>1, <1>3, LineRequestFields DEF SaveLine, LockedInv, AsRead
  <2>2. \A l \in Lines : RoadShare(line'[l]) = RoadShare(line[l])
    BY <1>1, <2>1 DEF RoadShare, SaveOf
  <2>3. QED
    BY <2>1, <2>2, QuietRoad
<1>4. ASSUME NEW table, NEW s, UNCHANGED <<stock, sold>>,
             line' = [l \in Lines |-> IF l \in table
                        THEN [line[l] EXCEPT !.shipment = s] ELSE line[l]],
             \A l \in table : line[l] \in LineRow
      PROVE  Conservation'
  <2>1. \A row \in LineRow : RoadShare([row EXCEPT !.shipment = s]) = RoadShare(row)
    BY DEF RoadShare, LineRow
  <2>2. \A l \in Lines : RoadShare(line'[l]) = RoadShare(line[l])
    BY <1>4, <2>1
  <2>3. QED
    BY <1>4, <2>2, QuietRoad
<1>5. ASSUME NEW w \in Workers, NEW s \in Shipments, LinkTransaction(w, s)
      PROVE  Conservation'
  <2>1. \A l \in req[w].ids : line[l] \in LineRow
    BY <1>1, <1>5, LinkRequest, KnownLineStatus, LineIsRow
       DEF LinkTransaction, LineStatuses
  <2>2. QED
    BY <1>4, <1>5, <2>1 DEF LinkTransaction
<1>6. ASSUME NEW s \in Shipments, CancelShipment(s)
      PROVE  Conservation'
  <2>1. \A l \in Linked(s) : line[l] \in LineRow
    BY <1>1, LineIsRow DEF Linked
  <2>2. QED
    BY <1>4, <1>6, <2>1 DEF CancelShipment
<1>7. QED
  BY <1>2, <1>3, <1>5, <1>6

LEMMA ConservationStep ==
  ASSUME ~DecimalText, LockedInv, LockedInv', Conservation, [Next]_vars
  PROVE  Conservation'
<1>1. ASSUME UNCHANGED <<stock, line, sold>>
      PROVE  Conservation'
  BY <1>1, QuietRoad
<1>2. CASE UNCHANGED vars
  BY <1>1, <1>2 DEF vars
<1>3. ASSUME NEW w \in Workers, NEW l \in Lines, LineRequest(w, l)
      PROVE  Conservation'
  BY <1>1, <1>3 DEF LineRequest, Approve, Reject, Cancel, Ship, Receive, ReadForSave
<1>4. ASSUME NEW w \in Workers, NEW s \in Shipments, ShipmentRequest(w, s)
      PROVE  Conservation'
  BY <1>1, <1>4 DEF ShipmentRequest, AssignCourier, MarkOutForDelivery,
              ReadShipmentForSave, Dispatch, Deliver, ReturnShipment, LockShipment
<1>5. ASSUME NEW w \in Workers, SaveShipment(w) \/ Abort(w)
      PROVE  Conservation'
  BY <1>1, <1>5 DEF SaveShipment, Abort
<1>6. ASSUME NEW w \in Workers, NEW ids \in SUBSET Lines \ {{}}, NEW src \in Branches,
             NEW dst \in Branches, NEW courier \in BOOLEAN,
             CreateFromLines(w, ids, src, dst, courier)
      PROVE  Conservation'
  BY <1>1, <1>6 DEF CreateFromLines
<1>7. QED
  BY <1>2, <1>3, <1>4, <1>5, <1>6, ShipConserves, ReceiveConserves, SaleConserves,
     ParcelCommitsConserve, TableWritesConserve DEF Next, Commit

LEMMA InitConservation == Init => Conservation
<1> SUFFICES ASSUME Init PROVE Conservation
  OBVIOUS
<1>1. /\ line \in [Lines -> LineRow \cup {NoLine}]
      /\ \A l \in Lines : RoadShare(line[l]) = 0
  BY DEF Init, RoadShare, NoLine
<1>2. InTransit = Road(line)
  BY <1>1, RoadIsInTransit DEF InTransit, OnTheRoad
<1>3. Road(line) = 0
  <2> DEFINE f == [l \in Lines |-> RoadShare(line[l])]
  <2>1. \A l \in Lines : f[l] = 0
    BY <1>1
  <2> HIDE DEF f
  <2>2. SumFunctionOnSet(f, Lines) = 0
    BY <2>1, TablesAssumption, SumZero
  <2>3. QED
    BY <2>2 DEF Road, f
<1>4. stock = Opening /\ sold = 0 /\ OnHand(Opening) \in Int
  BY OpeningAssumption, OnHandInt DEF Init, Inventories, Cells
<1>5. QED
  BY <1>2, <1>3, <1>4 DEF Conservation

\* With the rows kept and quantities that are numbers, goods are conserved:
\* what was on the shelves at the start is on a shelf, on the road or sold,
\* whatever transfers, shipments and tills overlap and in whatever order a
\* shipment moves its lines.
THEOREM GoodsAreConserved ==
  ASSUME ~DecimalText
  PROVE  LockedSpec => []Conservation
<1>1. LockedInv /\ LockedInv' /\ Conservation /\ [Next /\ RowsReadAreKept]_vars
        => Conservation'
  BY ConservationStep
<1>2. QED
  BY <1>1, InitConservation, LockedInvariance, PTL DEF LockedSpec
=============================================================================
