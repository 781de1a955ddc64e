----------------------------- MODULE PickupOrders -----------------------------
(***************************************************************************)
(* What a pickup order promises its customer, whatever the services behind *)
(* it do: it is open until it is collected or ended, it is paid for at     *)
(* most once and never unpaid again, and nothing unpaid is collected.      *)
(* Of an order that two requests came to be at work on at once nothing is  *)
(* promised any more.                                                      *)
(***************************************************************************)
CONSTANT Orders

VARIABLES
  phase,   \* where each order is
  paid,    \* the orders their customers have paid for
  disputed \* the orders nothing is promised of

vars == <<phase, paid, disputed>>

Phases == {"none", "open", "collected", "ended"}

Init ==
  /\ phase = [o \in Orders |-> "none"]
  /\ paid = {}
  /\ disputed = {}

Move(o, from, to) ==
  /\ phase[o] = from
  /\ phase' = [phase EXCEPT ![o] = to]

Place(o) == Move(o, "none", "open") /\ UNCHANGED <<paid, disputed>>

\* A payment may arrive after the order has ended: the money is taken anyway.
Pay(o) ==
  /\ phase[o] # "none" /\ o \notin paid
  /\ paid' = paid \cup {o}
  /\ UNCHANGED <<phase, disputed>>

Collect(o) == Move(o, "open", "collected") /\ o \in paid /\ UNCHANGED <<paid, disputed>>

PayAndCollect(o) ==
  /\ Move(o, "open", "collected")
  /\ o \notin paid /\ paid' = paid \cup {o}
  /\ UNCHANGED disputed

End(o) == Move(o, "open", "ended") /\ UNCHANGED <<paid, disputed>>

Dispute(S) == disputed' = disputed \cup S /\ UNCHANGED <<phase, paid>>

GoAstray(o) ==
  /\ o \in disputed
  /\ \E p \in Phases : phase' = [phase EXCEPT ![o] = p]
  /\ paid' \ {o} = paid \ {o}
  /\ UNCHANGED disputed

Next ==
  \/ \E o \in Orders :
       Place(o) \/ Pay(o) \/ Collect(o) \/ PayAndCollect(o) \/ End(o) \/ GoAstray(o)
  \/ \E S \in SUBSET Orders : Dispute(S)

Spec == Init /\ [][Next]_vars
=============================================================================
