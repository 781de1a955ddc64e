-------------------------- MODULE LockedTransfers --------------------------
(***************************************************************************)
(* StockTransfers as if every row a request reads in order to write it     *)
(* back were locked from the read to the write: what is left of the        *)
(* overlaps is what the code does lock, or checks again.                   *)
(***************************************************************************)
EXTENDS StockTransfers

Carrying(w) == req[w].op \in {"dispatch", "deliver", "return"}

RowsReadAreKept ==
  \A w \in Workers : req'[w] = req[w] =>
    /\ req[w].op = "saveLine" => line'[req[w].id] = line[req[w].id]
    /\ req[w].op = "saveShipment" => shipment'[req[w].id] = shipment[req[w].id]
    /\ Carrying(w) => \A l \in DOMAIN req[w].lines : line'[l] = line[l]

LockedSpec == Init /\ [][Next /\ RowsReadAreKept]_vars
=============================================================================
