----------------------------- MODULE CashierShifts -----------------------------
(***************************************************************************)
(* The drawer of one cashier: shifts, cash movements and the report made   *)
(* at closing.                                                             *)
(*                                                                         *)
(* A report counts the cashier's documents by the time their transactions  *)
(* began, but sees only those committed; shifts.service.ts locks nothing.  *)
(* The clock is the database's and moves on with every event it stamps, so *)
(* that no two events have the same time; closedAt and the end of a window *)
(* are read from the server's clock, which is off by one of Skews.         *)
(***************************************************************************)
EXTENDS Integers, FiniteSets, Functions

CONSTANTS
  Shifts,      \* identifiers of shifts
  Docs,        \* identifiers of sales and refunds
  Tabs,        \* requests in flight at the same time
  Takings,     \* the cash of a sale, or of a refund (negative)
  Movements,   \* cash paid in, or out (negative)
  Float,       \* pos_shifts.opening_float
  Skews,       \* how far the server's clock may be ahead of the database's
  MaxTime      \* bound on the clock

ASSUME DrawerAssumption ==
  /\ Takings \subseteq Int /\ Movements \subseteq Int /\ Float \in Nat /\ MaxTime \in Nat
  /\ Skews \subseteq Int
  /\ IsFiniteSet(Docs)

VARIABLES
  now,        \* the clock
  shift,      \* the pos_shifts table
  doc,        \* sales and sales_returns of the cashier
  cash,       \* sum of the pos_cash_movements of each shift
  tab,        \* what each request in flight has read
  reported,   \* history: the documents each closed shift counted
  raced       \* history: the shifts two openings, or two closings, raced for

drawer == <<now, shift, doc, cash, tab, reported, raced>>

Shift == [status : {"Open", "Closed"}, opened : 0 .. MaxTime, expected : Int]
NoShift == [status |-> "none"]
Doc == [status : {"uncommitted", "Active", "Voided"}, created : 0 .. MaxTime,
        amount : Takings]
NoDoc == [status |-> "none"]
Quiet == [op |-> "quiet"]

TabRequests ==
  {Quiet}
    \cup [op : {"open"}, seen : SUBSET Shifts]
    \cup [op : {"insert"}, seen : SUBSET Shifts, at : 0 .. MaxTime]
    \cup [op : {"movement", "move"}, shift : Shifts, amount : Movements]
    \cup [op : {"closing"}, shift : Shifts]
    \cup [op : {"close"}, shift : Shifts, at : Int]
    \cup [op : {"report"}, shift : Shifts, docs : SUBSET Docs, expected : Int]

ShiftsInit ==
  /\ now = 0
  /\ shift = [s \in Shifts |-> NoShift]
  /\ doc = [d \in Docs |-> NoDoc]
  /\ cash = [s \in Shifts |-> 0]
  /\ tab = [t \in Tabs |-> Quiet]
  /\ reported = [s \in Shifts |-> {}]
  /\ raced = {}

Stamp == now < MaxTime /\ now' = now + 1

Click(t, r) == tab[t] = Quiet /\ tab' = [tab EXCEPT ![t] = r]

\* new Date(), next to the database's now().
ServerClock == {now + skew : skew \in Skews}

Existing == {s \in Shifts : shift[s] # NoShift}
Open == {s \in Shifts : shift[s].status = "Open"}

\* The requests in flight that found shift s open and will close it.
Closing(s) == {t \in Tabs : tab[t].op \in {"closing", "close", "report"} /\ tab[t].shift = s}

-----------------------------------------------------------------------------
(***************************************************************************)
(* The tills and the returns desk, as the report sees them.                *)
(***************************************************************************)
BeginDoc(d, amount) ==
  /\ doc[d] = NoDoc
  /\ Stamp
  /\ doc' = [doc EXCEPT ![d] =
       [status |-> "uncommitted", created |-> now, amount |-> amount]]
  /\ UNCHANGED <<shift, cash, tab, reported, raced>>

CommitDoc(d) ==
  /\ doc[d].status = "uncommitted"
  /\ doc' = [doc EXCEPT ![d].status = "Active"]
  /\ UNCHANGED <<now, shift, cash, tab, reported, raced>>

\* Refunds are not voided.
VoidDoc(d) ==
  /\ doc[d].status = "Active" /\ doc[d].amount > 0
  /\ doc' = [doc EXCEPT ![d].status = "Voided"]
  /\ UNCHANGED <<now, shift, cash, tab, reported, raced>>

-----------------------------------------------------------------------------
(***************************************************************************)
(* ShiftsService.                                                          *)
(***************************************************************************)

OpenShift(t) ==
  /\ Open = {}
  /\ Click(t, [op |-> "open", seen |-> Existing])
  /\ UNCHANGED <<now, shift, doc, cash, reported, raced>>

\* opened_at is the time the transaction of the insert begins.
StampShift(t) ==
  /\ tab[t].op = "open"
  /\ Stamp
  /\ tab' = [tab EXCEPT ![t] = [op |-> "insert", seen |-> tab[t].seen, at |-> now]]
  /\ UNCHANGED <<shift, doc, cash, reported, raced>>

\* It races with every shift inserted since its check.
InsertShift(t, s) ==
  /\ tab[t].op = "insert"
  /\ shift[s] = NoShift
  /\ shift' = [shift EXCEPT ![s] =
       [status |-> "Open", opened |-> tab[t].at, expected |-> 0]]
  /\ tab' = [tab EXCEPT ![t] = Quiet]
  /\ LET rivals == Existing \ tab[t].seen
     IN raced' = IF rivals = {} THEN raced ELSE raced \cup rivals \cup {s}
  /\ UNCHANGED <<now, doc, cash, reported>>

\* Mutant: the window has no beginning.
WindowUnbounded(s, end) ==
  {d \in Docs : doc[d].status = "Active" /\ doc[d].created <= end}

Window(s, end) ==
  {d \in Docs : /\ doc[d].status = "Active"
                /\ doc[d].created >= shift[s].opened /\ doc[d].created <= end}

\* computeWindow: the cash that should be in the drawer.
ExpectedCash(s, end) ==
  Float + cash[s] + SumFunctionOnSet([d \in Docs |-> doc[d].amount], Window(s, end))

RecordMovement(t, s, amount) ==
  /\ s \in Open
  /\ Click(t, [op |-> "movement", shift |-> s, amount |-> amount])
  /\ UNCHANGED <<now, shift, doc, cash, reported, raced>>

\* A pay-out beyond the drawer's cash is refused.
CheckMovement(t) ==
  /\ tab[t].op = "movement"
  /\ \E end \in ServerClock :
       tab' = [tab EXCEPT ![t] =
         IF tab[t].amount < 0 /\ -tab[t].amount > ExpectedCash(tab[t].shift, end)
         THEN Quiet ELSE [@ EXCEPT !.op = "move"]]
  /\ UNCHANGED <<now, shift, doc, cash, reported, raced>>

InsertMovement(t) ==
  /\ tab[t].op = "move"
  /\ cash' = [cash EXCEPT ![tab[t].shift] = @ + tab[t].amount]
  /\ tab' = [tab EXCEPT ![t] = Quiet]
  /\ UNCHANGED <<now, shift, doc, reported, raced>>

CloseShift(t, s) ==
  /\ s \in Open
  /\ Click(t, [op |-> "closing", shift |-> s])
  /\ raced' = IF Closing(s) = {} THEN raced ELSE raced \cup {s}
  /\ UNCHANGED <<now, shift, doc, cash, reported>>

\* closedAt, whatever has become of the shift since it was read.
StampClose(t) ==
  /\ tab[t].op = "closing"
  /\ Stamp
  /\ \E at \in ServerClock :
       tab' = [tab EXCEPT ![t] = [op |-> "close", shift |-> tab[t].shift, at |-> at]]
  /\ UNCHANGED <<shift, doc, cash, reported, raced>>

\* The four sums of a report are one step.
ComputeWindow(t) ==
  /\ tab[t].op = "close"
  /\ LET s == tab[t].shift
     IN tab' = [tab EXCEPT ![t] =
          [op |-> "report", shift |-> s, docs |-> Window(s, tab[t].at),
           expected |-> ExpectedCash(s, tab[t].at)]]
  /\ UNCHANGED <<now, shift, doc, cash, reported, raced>>

WriteReport(t) ==
  /\ tab[t].op = "report"
  /\ LET s == tab[t].shift
     IN /\ shift' = [shift EXCEPT ![s].status = "Closed",
                                  ![s].expected = tab[t].expected]
        /\ reported' = [reported EXCEPT ![s] = tab[t].docs]
  /\ tab' = [tab EXCEPT ![t] = Quiet]
  /\ UNCHANGED <<now, doc, cash, raced>>

ShiftsNext ==
  \/ \E d \in Docs :
       (\E amount \in Takings : BeginDoc(d, amount)) \/ CommitDoc(d) \/ VoidDoc(d)
  \/ \E t \in Tabs :
       \/ OpenShift(t) \/ StampShift(t) \/ CheckMovement(t) \/ InsertMovement(t)
       \/ StampClose(t) \/ ComputeWindow(t) \/ WriteReport(t)
  \/ \E t \in Tabs, s \in Shifts :
       \/ InsertShift(t, s) \/ CloseShift(t, s)
       \/ \E amount \in Movements : RecordMovement(t, s, amount)

-----------------------------------------------------------------------------
ShiftsTypeOK ==
  /\ now \in 0 .. MaxTime
  /\ shift \in [Shifts -> Shift \cup {NoShift}]
  /\ doc \in [Docs -> Doc \cup {NoDoc}]
  /\ cash \in [Shifts -> Int]
  /\ tab \in [Tabs -> TabRequests]
  /\ reported \in [Shifts -> SUBSET Docs]
  /\ raced \in SUBSET Shifts

\* A sale or refund is in at most one shift's report, however closings overlap
\* with openings, other shifts' closings and transactions in flight, and however
\* far apart the two clocks are; two requests that raced to open a drawer, or to
\* close the same one, are aside.
CountedOnce ==
  \A s, u \in Shifts \ raced : s # u => reported[s] \cap reported[u] = {}
=============================================================================
