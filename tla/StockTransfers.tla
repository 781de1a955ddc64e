--------------------------- MODULE StockTransfers ---------------------------
(***************************************************************************)
(* Inter-branch stock transfers and the courier shipments that carry them. *)
(*                                                                         *)
(* A transfer line is requested, approved, shipped out of the source       *)
(* branch's inventory and received into the destination's; approved lines  *)
(* may instead travel together in a shipment.  Many HTTP requests run at   *)
(* once against one database, so every handler that reads a row and writes *)
(* it in a later statement is two actions here: what the request has read  *)
(* waits in req[w] while other requests commit.  A database transaction    *)
(* takes effect in one step; a row lock that spans steps is a guard.       *)
(***************************************************************************)
EXTENDS InventoryRow, FiniteSets, SequencesExt

CONSTANTS
  Products, Branches,  \* what is moved, and the active branches
  Lines, Shipments,    \* identifiers of transfer lines and of shipments
  Workers,             \* requests in flight at the same time
  Quantities,          \* the quantities a request may name
  Opening,             \* the inventory at the start
  Handlers,            \* the endpoints the clients use
  None                 \* SQL NULL

AllHandlers ==
  { "create", "createManagerBatch", "createAdminDirect", "approve", "reject",
    "cancel", "ship", "receive", "createFromLines", "assignCourier",
    "dispatch", "markOutForDelivery", "deliver", "returnShipment",
    "cancelShipment", "sale" }

Inventories == [Products \X Branches -> Nat \cup {NoRow}]

ASSUME QuantitiesAssumption ==
  \A q \in Quantities : q \in Nat /\ 1 <= q /\ q <= MaxQuantity
ASSUME OpeningAssumption == Opening \in Inventories
ASSUME HandlersAssumption == Handlers \subseteq AllHandlers
ASSUME TablesAssumption ==
  IsFiniteSet(Products) /\ IsFiniteSet(Branches) /\ IsFiniteSet(Lines)
ASSUME NoneAssumption == None \notin Branches \cup Shipments

VARIABLES
  stock,      \* inventory.quantity of each (product, branch)
  line,       \* the stock_transfer_requests table
  shipment,   \* the shipments table
  req,        \* what each request in flight has read and will write
  sold        \* thousandths that left through the tills

vars == <<stock, line, shipment, req, sold>>

(***************************************************************************)
(* The rows.  approved = 0 is a NULL approvedQuantity: the code reads it   *)
(* with `?? 0' and never stores a zero.                                    *)
(***************************************************************************)
LineStatuses ==
  {"PENDING", "APPROVED", "REJECTED", "CANCELLED", "IN_TRANSIT", "COMPLETED"}

ShipmentStatuses ==
  { "PENDING", "READY_TO_SHIP", "DISPATCHED", "OUT_FOR_DELIVERY", "DELIVERED",
    "CANCELLED", "RETURNED" }

TerminalStatuses == {"DELIVERED", "CANCELLED", "RETURNED"}

LineRow ==
  [status : LineStatuses, product : Products, dest : Branches,
   source : Branches \cup {None}, requested : Quantities,
   approved : Quantities \cup {0}, shipment : Shipments \cup {None}]

ShipmentRow ==
  [status : ShipmentStatuses, source : Branches, dest : Branches,
   courier : BOOLEAN]

NoLine == [status |-> "none"]
NoShipment == [status |-> "none"]
Idle == [op |-> "idle"]

\* What a request in flight holds: the entity it is about to save, the stale
\* line it read before its transaction, the lines it will bundle, or (with the
\* shipment row locked) the lines its transaction read without a lock.
Requests ==
  {Idle}
    \cup [op : {"saveLine", "ship", "receive"}, id : Lines, row : LineRow]
    \cup [op : {"saveShipment"}, id : Shipments, row : ShipmentRow]
    \cup [op : {"link"}, ids : SUBSET Lines, source : Branches,
          dest : Branches, courier : BOOLEAN]
    \cup [op : {"dispatch", "deliver", "return"}, id : Shipments,
          lines : UNION {[ids -> LineRow] : ids \in SUBSET Lines}]

Init ==
  /\ stock = Opening
  /\ line = [l \in Lines |-> NoLine]
  /\ shipment = [s \in Shipments |-> NoShipment]
  /\ req = [w \in Workers |-> Idle]
  /\ sold = 0

FreshLines == {l \in Lines : line[l] = NoLine}
Linked(s) == {l \in Lines : line[l] # NoLine /\ line[l].shipment = s}

\* lockShipment: a transaction holds the shipment row until it commits.
Locked(s) ==
  \E w \in Workers :
    req[w].op \in {"dispatch", "deliver", "return"} /\ req[w].id = s

Begin(w, r) ==
  /\ req[w] = Idle
  /\ req' = [req EXCEPT ![w] = r]

\* A handler that is a single transaction needs a free request, and only that.
Accepting == \E w \in Workers : req[w] = Idle

Finish(w) == req' = [req EXCEPT ![w] = Idle]

-----------------------------------------------------------------------------
(***************************************************************************)
(* Filing requests.                                                        *)
(***************************************************************************)
Requested(p, dst, q) ==
  [status |-> "PENDING", product |-> p, dest |-> dst, source |-> None,
   requested |-> q, approved |-> 0, shipment |-> None]

PreApproved(p, src, dst, q) ==
  [Requested(p, dst, q) EXCEPT !.status = "APPROVED", !.source = src,
                               !.approved = q]

\* A merged cart: new line ids, one product each, no product twice.
Carts ==
  UNION {{c \in [ids -> Products] : IsInjective(c)} :
           ids \in SUBSET FreshLines \ {{}}}

Create ==
  /\ "create" \in Handlers /\ Accepting
  /\ \E l \in FreshLines, p \in Products, dst \in Branches, q \in Quantities :
       line' = [line EXCEPT ![l] = Requested(p, dst, q)]
  /\ UNCHANGED <<stock, shipment, req, sold>>

CreateManagerBatch ==
  /\ "createManagerBatch" \in Handlers /\ Accepting
  /\ \E cart \in Carts, dst \in Branches :
       \E qty \in [DOMAIN cart -> Quantities] :
         line' = [l \in Lines |->
                    IF l \in DOMAIN cart THEN Requested(cart[l], dst, qty[l])
                                         ELSE line[l]]
  /\ UNCHANGED <<stock, shipment, req, sold>>

CreateAdminDirect ==
  /\ "createAdminDirect" \in Handlers /\ Accepting
  /\ \E cart \in Carts, src \in Branches, dst \in Branches :
       \E qty \in [DOMAIN cart -> Quantities] :
         /\ src # dst
         /\ \A l \in DOMAIN cart : Covers(stock[<<cart[l], src>>], qty[l])
         /\ line' = [l \in Lines |->
                       IF l \in DOMAIN cart
                         THEN PreApproved(cart[l], src, dst, qty[l])
                         ELSE line[l]]
  /\ UNCHANGED <<stock, shipment, req, sold>>

-----------------------------------------------------------------------------
(***************************************************************************)
(* Review.  The entity is read without a lock, changed in memory and saved *)
(* whole: SaveLine writes back every column as it was read, whatever has   *)
(* been committed in between.                                              *)
(***************************************************************************)
ReadForSave(w, l, row) ==
  /\ Begin(w, [op |-> "saveLine", id |-> l, row |-> row])
  /\ UNCHANGED <<stock, line, shipment, sold>>

\* The stock check is advisory; the binding one is at ship time.
Approve(w, l, src, q) ==
  /\ "approve" \in Handlers
  /\ line[l].status = "PENDING"
  /\ src # line[l].dest
  /\ q <= line[l].requested
  /\ Covers(stock[<<line[l].product, src>>], q)
  /\ ReadForSave(w, l, [line[l] EXCEPT !.status = "APPROVED", !.source = src,
                                       !.approved = q])

\* Mutant: any existing line can be rejected.
RejectAny(w, l) ==
  /\ "reject" \in Handlers
  /\ line[l] # NoLine
  /\ ReadForSave(w, l, [line[l] EXCEPT !.status = "REJECTED"])

Reject(w, l) ==
  /\ "reject" \in Handlers
  /\ line[l].status = "PENDING"
  /\ ReadForSave(w, l, [line[l] EXCEPT !.status = "REJECTED"])

\* Mutant: a missing line is not noticed.
CancelMissing(w, l) ==
  /\ "cancel" \in Handlers
  /\ line[l].status \in {"none", "PENDING", "APPROVED"}
  /\ ReadForSave(w, l, [line[l] EXCEPT !.status = "CANCELLED"])

Cancel(w, l) ==
  /\ "cancel" \in Handlers
  /\ line[l].status \in {"PENDING", "APPROVED"}
  /\ ReadForSave(w, l, [line[l] EXCEPT !.status = "CANCELLED"])

SaveLine(w) ==
  /\ req[w].op = "saveLine"
  /\ line' = [line EXCEPT ![req[w].id] = req[w].row]
  /\ Finish(w)
  /\ UNCHANGED <<stock, shipment, sold>>

-----------------------------------------------------------------------------
(***************************************************************************)
(* Moving one line.  The status is checked again on the locked row; the    *)
(* quantity and the branches are those of the earlier unlocked read.       *)
(***************************************************************************)
Ship(w, l) ==
  /\ "ship" \in Handlers
  /\ line[l].status = "APPROVED"
  /\ line[l].source # None /\ line[l].approved # 0
  /\ Begin(w, [op |-> "ship", id |-> l, row |-> line[l]])
  /\ UNCHANGED <<stock, line, shipment, sold>>

\* Mutants: the status is not checked again under the lock; the stock is not.
ShipUnchecked(w) ==
  /\ req[w].op = "ship"
  /\ LET key == <<req[w].row.product, req[w].row.source>>
     IN  /\ Covers(stock[key], req[w].row.approved)
         /\ stock' = [stock EXCEPT ![key] = @ - Scale * req[w].row.approved]
         /\ line' = [line EXCEPT ![req[w].id].status = "IN_TRANSIT"]
  /\ Finish(w)
  /\ UNCHANGED <<shipment, sold>>

ShipUncovered(w) ==
  /\ req[w].op = "ship"
  /\ LET key == <<req[w].row.product, req[w].row.source>>
     IN  /\ line[req[w].id].status = "APPROVED"
         /\ stock' = [stock EXCEPT ![key] = @ - Scale * req[w].row.approved]
         /\ line' = [line EXCEPT ![req[w].id].status = "IN_TRANSIT"]
  /\ Finish(w)
  /\ UNCHANGED <<shipment, sold>>

ShipTransaction(w) ==
  /\ req[w].op = "ship"
  /\ LET l == req[w].id
         key == <<req[w].row.product, req[w].row.source>>
         q == req[w].row.approved
     IN  /\ line[l].status = "APPROVED"
         /\ Covers(stock[key], q)
         /\ stock' = [stock EXCEPT ![key] = @ - Scale * q]
         /\ line' = [line EXCEPT ![l].status = "IN_TRANSIT"]
  /\ Finish(w)
  /\ UNCHANGED <<shipment, sold>>

Receive(w, l) ==
  /\ "receive" \in Handlers
  /\ line[l].status = "IN_TRANSIT"
  /\ line[l].approved # 0
  /\ Begin(w, [op |-> "receive", id |-> l, row |-> line[l]])
  /\ UNCHANGED <<stock, line, shipment, sold>>

ReceiveTransaction(w) ==
  /\ req[w].op = "receive"
  /\ LET l == req[w].id
         key == <<req[w].row.product, req[w].row.dest>>
     IN  /\ line[l].status = "IN_TRANSIT"
         /\ stock' = [stock EXCEPT ![key] = Credited(@, req[w].row.approved)]
         /\ line' = [line EXCEPT ![l].status = "COMPLETED"]
  /\ Finish(w)
  /\ UNCHANGED <<shipment, sold>>

-----------------------------------------------------------------------------
(***************************************************************************)
(* Forming a shipment: validation on an unlocked read, then a conditional  *)
(* update that must claim every line.                                      *)
(***************************************************************************)
CreateFromLines(w, ids, src, dst, courier) ==
  /\ "createFromLines" \in Handlers
  /\ \A l \in ids : /\ line[l].status = "APPROVED"
                    /\ line[l].shipment = None
                    /\ line[l].approved # 0
                    /\ line[l].source = src
                    /\ line[l].dest = dst
  /\ Begin(w, [op |-> "link", ids |-> ids, source |-> src, dest |-> dst,
               courier |-> courier])
  /\ UNCHANGED <<stock, line, shipment, sold>>

LinkTransaction(w, s) ==
  /\ req[w].op = "link"
  /\ shipment[s] = NoShipment
  /\ \A l \in req[w].ids : line[l].status = "APPROVED" /\ line[l].shipment = None
  /\ shipment' = [shipment EXCEPT ![s] =
       [status |-> IF req[w].courier THEN "READY_TO_SHIP" ELSE "PENDING",
        source |-> req[w].source, dest |-> req[w].dest,
        courier |-> req[w].courier]]
  /\ line' = [l \in Lines |->
                IF l \in req[w].ids THEN [line[l] EXCEPT !.shipment = s]
                                    ELSE line[l]]
  /\ Finish(w)
  /\ UNCHANGED <<stock, sold>>

(***************************************************************************)
(* Courier assignment and the arrival scan: again an unlocked read and a   *)
(* whole-entity save, which only waits for a lock on the row.              *)
(***************************************************************************)
ReadShipmentForSave(w, s, row) ==
  /\ Begin(w, [op |-> "saveShipment", id |-> s, row |-> row])
  /\ UNCHANGED <<stock, line, shipment, sold>>

AssignCourier(w, s) ==
  /\ "assignCourier" \in Handlers
  /\ shipment[s] # NoShipment
  /\ shipment[s].status \notin TerminalStatuses
  /\ ReadShipmentForSave(w, s,
       [shipment[s] EXCEPT !.courier = TRUE,
          !.status = IF @ = "PENDING" THEN "READY_TO_SHIP" ELSE @])

MarkOutForDelivery(w, s) ==
  /\ "markOutForDelivery" \in Handlers
  /\ shipment[s].status = "DISPATCHED"
  /\ ReadShipmentForSave(w, s, [shipment[s] EXCEPT !.status = "OUT_FOR_DELIVERY"])

SaveShipment(w) ==
  /\ req[w].op = "saveShipment"
  /\ ~Locked(req[w].id)
  /\ shipment' = [shipment EXCEPT ![req[w].id] = req[w].row]
  /\ Finish(w)
  /\ UNCHANGED <<stock, line, sold>>

-----------------------------------------------------------------------------
(***************************************************************************)
(* Moving a shipment.  The transaction locks the shipment, checks its      *)
(* status and reads its lines without locking them; then it moves stock    *)
(* line by line, saves the lines and the shipment and commits.             *)
(***************************************************************************)
\* Mutant: the locked row's status is not checked.
LockShipmentUnchecked(w, s, op, statuses) ==
  /\ shipment[s] # NoShipment
  /\ ~Locked(s)
  /\ Begin(w, [op |-> op, id |-> s, lines |-> [l \in Linked(s) |-> line[l]]])
  /\ UNCHANGED <<stock, line, shipment, sold>>

LockShipment(w, s, op, statuses) ==
  /\ shipment[s].status \in statuses
  /\ ~Locked(s)
  /\ Begin(w, [op |-> op, id |-> s, lines |-> [l \in Linked(s) |-> line[l]]])
  /\ UNCHANGED <<stock, line, shipment, sold>>

\* The inventory after moveStock for the lines in that order.
MoveLines(lines, order, branch, sign) ==
  FoldLeft(LAMBDA inv, l :
             [inv EXCEPT ![<<lines[l].product, branch>>] =
                MoveStock(@, sign * lines[l].approved)],
           stock, order)

\* The lines still in status `from' move; the others are skipped.
CommitShipment(w, from, branch, sign, Moved(_), status) ==
  LET lines == req[w].lines
      moving == {l \in DOMAIN lines : lines[l].status = from}
  IN  /\ \E order \in SetToSeqs(moving) :
           LET after == MoveLines(lines, order, branch, sign)
           IN  after \in Inventories /\ stock' = after
      /\ line' = [l \in Lines |->
                    IF l \in moving THEN Moved(lines[l]) ELSE line[l]]
      /\ shipment' = [shipment EXCEPT ![req[w].id].status = status]
      /\ Finish(w)
      /\ UNCHANGED sold

\* The courier is checked on the earlier read; once set it is never cleared.
Dispatch(w, s) ==
  /\ "dispatch" \in Handlers
  /\ shipment[s] # NoShipment /\ shipment[s].courier
  /\ LockShipment(w, s, "dispatch", {"READY_TO_SHIP"})

DispatchTransaction(w) ==
  /\ req[w].op = "dispatch"
  /\ CommitShipment(w, "APPROVED", shipment[req[w].id].source, -1,
                    LAMBDA row : [row EXCEPT !.status = "IN_TRANSIT"],
                    "DISPATCHED")

Deliver(w, s) ==
  /\ "deliver" \in Handlers
  /\ LockShipment(w, s, "deliver", {"DISPATCHED", "OUT_FOR_DELIVERY"})

DeliverTransaction(w) ==
  /\ req[w].op = "deliver"
  /\ CommitShipment(w, "IN_TRANSIT", shipment[req[w].id].dest, 1,
                    LAMBDA row : [row EXCEPT !.status = "COMPLETED"],
                    "DELIVERED")

ReturnShipment(w, s) ==
  /\ "returnShipment" \in Handlers
  /\ LockShipment(w, s, "return", {"DISPATCHED", "OUT_FOR_DELIVERY"})

\* Mutant: a returned line stays linked to the shipment that brought it back.
ReturnStillLinked(w) ==
  /\ req[w].op = "return"
  /\ CommitShipment(w, "IN_TRANSIT", shipment[req[w].id].source, 1,
                    LAMBDA row : [row EXCEPT !.status = "APPROVED"],
                    "RETURNED")

ReturnTransaction(w) ==
  /\ req[w].op = "return"
  /\ CommitShipment(w, "IN_TRANSIT", shipment[req[w].id].source, 1,
                    LAMBDA row : [row EXCEPT !.status = "APPROVED",
                                             !.shipment = None],
                    "RETURNED")

CancelShipment(s) ==
  /\ "cancelShipment" \in Handlers /\ Accepting
  /\ shipment[s].status \in {"PENDING", "READY_TO_SHIP"}
  /\ ~Locked(s)
  /\ line' = [l \in Lines |->
                IF l \in Linked(s) THEN [line[l] EXCEPT !.shipment = None]
                                   ELSE line[l]]
  /\ shipment' = [shipment EXCEPT ![s].status = "CANCELLED"]
  /\ UNCHANGED <<stock, req, sold>>

-----------------------------------------------------------------------------
\* A till sells q units of p at branch b (decrementInventoryWithLock).
Sale(p, b, q) ==
  /\ "sale" \in Handlers /\ Accepting
  /\ Covers(stock[<<p, b>>], q)
  /\ stock' = [stock EXCEPT ![<<p, b>>] = @ - Scale * q]
  /\ sold' = sold + Scale * q
  /\ UNCHANGED <<line, shipment, req>>

\* The request ends without writing: a check inside the transaction threw,
\* it was a deadlock's victim, or its connection was lost.
Abort(w) ==
  /\ req[w] # Idle
  /\ Finish(w)
  /\ UNCHANGED <<stock, line, shipment, sold>>

LineRequest(w, l) ==
  \/ \E src \in Branches, q \in Quantities : Approve(w, l, src, q)
  \/ Reject(w, l)
  \/ Cancel(w, l)
  \/ Ship(w, l)
  \/ Receive(w, l)

ShipmentRequest(w, s) ==
  \/ AssignCourier(w, s)
  \/ MarkOutForDelivery(w, s)
  \/ Dispatch(w, s)
  \/ Deliver(w, s)
  \/ ReturnShipment(w, s)

Commit(w) ==
  \/ SaveLine(w)
  \/ ShipTransaction(w)
  \/ ReceiveTransaction(w)
  \/ SaveShipment(w)
  \/ DispatchTransaction(w)
  \/ DeliverTransaction(w)
  \/ ReturnTransaction(w)

Next ==
  \/ Create
  \/ CreateManagerBatch
  \/ CreateAdminDirect
  \/ \E w \in Workers, l \in Lines : LineRequest(w, l)
  \/ \E w \in Workers, ids \in SUBSET Lines \ {{}}, src \in Branches,
        dst \in Branches, courier \in BOOLEAN :
       CreateFromLines(w, ids, src, dst, courier)
  \/ \E w \in Workers, s \in Shipments : LinkTransaction(w, s)
  \/ \E w \in Workers, s \in Shipments : ShipmentRequest(w, s)
  \/ \E w \in Workers : Commit(w)
  \/ \E s \in Shipments : CancelShipment(s)
  \/ \E p \in Products, b \in Branches, q \in Quantities : Sale(p, b, q)
  \/ \E w \in Workers : Abort(w)

Spec == Init /\ [][Next]_vars

-----------------------------------------------------------------------------
(***************************************************************************)
(* Properties.                                                             *)
(***************************************************************************)
\* The tables and the requests in flight hold rows of the right shape.
TypeOK ==
  /\ stock \in [Products \X Branches -> Int]
  /\ line \in [Lines -> LineRow \cup {NoLine}]
  /\ shipment \in [Shipments -> ShipmentRow \cup {NoShipment}]
  /\ req \in [Workers -> Requests]
  /\ sold \in Nat

\* No branch ever owes stock: whatever transfers, shipments and tills do at
\* the same time, no debit takes an inventory row below zero.
NoOversell == \A k \in Products \X Branches : stock[k] = NoRow \/ stock[k] >= 0

\* A line past review names a source other than its destination and a
\* quantity of at least one and at most what was requested, even though the
\* review, the link and the shipment handlers save what they read earlier.
Reviewed(row) ==
  row.status \in {"APPROVED", "IN_TRANSIT", "COMPLETED"} =>
    /\ row.source \in Branches \ {row.dest}
    /\ row.approved \in 1 .. row.requested

ReviewedLines == \A l \in Lines : line[l] # NoLine => Reviewed(line[l])

\* Thousandths on the shelves of an inventory, and on the road.
OnHand(inv) ==
  SumFunctionOnSet([k \in Products \X Branches |-> IF inv[k] = NoRow THEN 0 ELSE inv[k]],
                   Products \X Branches)

OnTheRoad == {l \in Lines : line[l].status = "IN_TRANSIT"}
InTransit ==
  SumFunctionOnSet([l \in OnTheRoad |-> Scale * line[l].approved], OnTheRoad)

\* Every unit that entered is on a shelf, in a line in transit or sold: a
\* line is debited once when it leaves and credited once when it arrives or
\* comes back.
Conservation == OnHand(stock) + InTransit + sold = OnHand(Opening)

\* A line in a shipment shares its branches; once the shipment has left no
\* line of it waits at the source, once it has arrived or come back none is
\* on the road, and a cancelled shipment has let go of all its lines.
ParcelCoherent ==
  \A l \in Lines :
    (line[l] # NoLine /\ line[l].shipment # None) =>
      LET s == shipment[line[l].shipment]
      IN  /\ s # NoShipment
          /\ s.source = line[l].source /\ s.dest = line[l].dest
          /\ s.status \in {"DISPATCHED", "OUT_FOR_DELIVERY"} =>
               line[l].status \notin {"PENDING", "APPROVED"}
          /\ s.status \in {"DELIVERED", "RETURNED"} =>
               line[l].status \notin {"PENDING", "APPROVED", "IN_TRANSIT"}
          /\ s.status # "CANCELLED"

\* SHIPMENT_TERMINAL_STATUSES: no further transition is allowed.
TerminalShipments ==
  [][\A s \in Shipments :
       shipment[s].status \in TerminalStatuses => shipment'[s] = shipment[s]]_vars

\* A shipment keeps its route, and once it is in such a status only the save of
\* a courier or of an arrival scan that was read before can move it again: no
\* endpoint that locks its row does.
OnlySavesReopen ==
  [][\A s \in Shipments :
       shipment[s] # NoShipment =>
         /\ shipment'[s].source = shipment[s].source
         /\ shipment'[s].dest = shipment[s].dest
         /\ (shipment[s].status \in TerminalStatuses /\ shipment'[s] # shipment[s]) =>
              \E w \in Workers :
                /\ req[w].op = "saveShipment" /\ req[w].id = s
                /\ shipment'[s] = req[w].row
                /\ shipment'[s].status \notin TerminalStatuses]_vars

\* HISTORY_TERMINAL_STATUSES: a rejected, cancelled or completed line stays so.
FinalLines ==
  [][\A l \in Lines :
       line[l].status \in {"REJECTED", "CANCELLED", "COMPLETED"} =>
         line'[l].status = line[l].status]_vars

(***************************************************************************)
(* What the documents say and the code does not keep (a violation run).    *)
(***************************************************************************)
\* "Stock decrements at ship and increments at receive": a line that is
\* completed has put its approved quantity on the destination's shelf.
ReceiptCredits ==
  [][\A l \in Lines :
       (line[l].status = "IN_TRANSIT" /\ line'[l].status = "COMPLETED") =>
         stock'[<<line[l].product, line[l].dest>>]
           >= stock[<<line[l].product, line[l].dest>>] + Scale * line[l].approved]_vars
=============================================================================
