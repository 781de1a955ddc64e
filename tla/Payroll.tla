-------------------------------- MODULE Payroll --------------------------------
(***************************************************************************)
(* Employees, the attendance of a day, salary structures and the monthly   *)
(* payroll that is made from them.                                         *)
(*                                                                         *)
(* Dates are as coarse as pay periods: a period is one date (its           *)
(* midpoint), and the day attendance is taken for lies in Today.  A        *)
(* handler reads, checks and then writes without a lock; only a payroll    *)
(* run and a new structure are transactions, and those check rows they do  *)
(* not lock either.                                                        *)
(***************************************************************************)
EXTENDS Integers, FiniteSets, FiniteSetsExt

CONSTANTS
  Employees,    \* numbered in the order a run takes them
  StructureIds, \* identifiers of salary structures
  Periods,      \* the months of the calendar
  Today,        \* the period we are in
  Rates,        \* what structures pay for a day's work
  Grid,         \* the rows managers mark
  Officers,     \* requests in flight at the same time
  Desks,        \* the endpoints in use
  Never         \* SQL NULL, of effective_to_date

ASSUME PeriodsAssumption ==
  /\ Employees \subseteq Int /\ IsFiniteSet(Employees)
  /\ Periods \subseteq Int /\ Today \in Periods
ASSUME RatesAssumption == Rates \subseteq Nat /\ Never \notin Int
ASSUME GridAssumption ==
  Grid \subseteq
    [status : {"Present", "Absent", "Leave", "Half_Day", "Holiday", "Weekend"},
     in : BOOLEAN, out : BOOLEAN]

VARIABLES
  active,     \* employees whose status is Active
  mark,       \* the attendance row of each for the day
  structure,  \* the salary_structures table
  pay,        \* the payroll table, by employee and period
  officer,    \* what each request in flight has read
  stale       \* history: payroll rows written on a check out of date

payroll == <<active, mark, structure, pay, officer, stale>>

Mark == [status : {"Present"} \cup {row.status : row \in Grid},
         in : BOOLEAN, out : BOOLEAN, by : {"Manager", "Cashier_Self"}]
NoMark == [status |-> "none", in |-> FALSE, out |-> FALSE]
Structure == [employee : Employees, active : BOOLEAN, from : Periods,
              to : Int \cup {Never}, rate : Rates]
NoStructure == [active |-> FALSE]
PayStatuses == {"Pending", "Approved", "Paid", "Cancelled"}
Pay == [status : PayStatuses, net : Nat]
NoPay == [status |-> "none"]
Draft == [employee : Employees, new : BOOLEAN, net : Nat]
Resting == [op |-> "resting"]

OfficerRequests ==
  {Resting}
    \cup [op : {"checkIn", "checkOut"}, employee : Employees]
    \cup [op : {"create"}, open : SUBSET StructureIds, row : Structure]
    \cup [op : {"update"}, id : StructureIds, from : Periods, to : Int \cup {Never}]
    \cup [op : {"deactivate"}, id : StructureIds]
    \cup [op : {"generate"}, period : Periods, left : SUBSET Employees,
          drafts : SUBSET Draft]
    \cup [op : {"save"}, period : Periods, left : SUBSET Employees,
          drafts : SUBSET Draft, next : Draft, seen : Pay \cup {NoPay}]
    \cup [op : {"decide"}, employee : Employees, period : Periods,
          to : PayStatuses, seen : Pay]

PayrollInit ==
  /\ active = Employees
  /\ mark = [e \in Employees |-> NoMark]
  /\ structure = [s \in StructureIds |-> NoStructure]
  /\ pay = [e \in Employees |-> [p \in Periods |-> NoPay]]
  /\ officer = [o \in Officers |-> Resting]
  /\ stale = {}

Ask(o, r) ==
  /\ officer[o] = Resting
  /\ officer' = [officer EXCEPT ![o] = r]

Go(o, r) == officer' = [officer EXCEPT ![o] = r]

Done(o) == Go(o, Resting)

Terminate(e) ==
  /\ "terminate" \in Desks
  /\ e \in active
  /\ active' = active \ {e}
  /\ UNCHANGED <<mark, structure, pay, officer, stale>>

-----------------------------------------------------------------------------
(***************************************************************************)
(* Attendance: the manager's grid, and the cashier's own clock.            *)
(***************************************************************************)

\* bulkUpsert overwrites whatever is there.
MarkGrid(e, row) ==
  /\ "grid" \in Desks
  /\ mark' = [mark EXCEPT ![e] =
       [status |-> row.status, in |-> row.in, out |-> row.out, by |-> "Manager"]]
  /\ UNCHANGED <<active, structure, pay, officer, stale>>

CheckInSelf(o, e) ==
  /\ "clock" \in Desks
  /\ e \in active
  /\ mark[e].status \notin {"Leave", "Holiday", "Weekend"} /\ ~mark[e].in
  /\ Ask(o, [op |-> "checkIn", employee |-> e])
  /\ UNCHANGED <<active, mark, structure, pay, stale>>

\* Mutant: the upsert writes every column of the row it inserts.
CheckedInAnew(e) ==
  [status |-> "Present", in |-> TRUE, out |-> FALSE, by |-> "Cashier_Self"]

\* On conflict, only the check-in and who made it.
CheckedIn(e) ==
  IF mark[e] = NoMark
    THEN [status |-> "Present", in |-> TRUE, out |-> FALSE, by |-> "Cashier_Self"]
    ELSE [mark[e] EXCEPT !.in = TRUE, !.by = "Cashier_Self"]

UpsertCheckIn(o) ==
  /\ officer[o].op = "checkIn"
  /\ mark' = [mark EXCEPT ![officer[o].employee] = CheckedIn(officer[o].employee)]
  /\ Done(o)
  /\ UNCHANGED <<active, structure, pay, stale>>

CheckOutSelf(o, e) ==
  /\ "clock" \in Desks
  /\ e \in active
  /\ mark[e].in /\ ~mark[e].out
  /\ Ask(o, [op |-> "checkOut", employee |-> e])
  /\ UNCHANGED <<active, mark, structure, pay, stale>>

ApplyCheckOut(o) ==
  /\ officer[o].op = "checkOut"
  /\ mark' = [mark EXCEPT ![officer[o].employee].out = TRUE]
  /\ Done(o)
  /\ UNCHANGED <<active, structure, pay, stale>>

-----------------------------------------------------------------------------
(***************************************************************************)
(* Salary structures.                                                      *)
(***************************************************************************)
StructuresOf(e) ==
  {s \in StructureIds : structure[s] # NoStructure /\ structure[s].employee = e}

Latest(S) == {s \in S : \A t \in S : structure[t].from <= structure[s].from}

\* The latest structure that is still open is read outside the transaction.
CreateStructure(o, e, from, to, rate) ==
  /\ "create" \in Desks
  /\ Ask(o, [op |-> "create",
             open |-> Latest({s \in StructuresOf(e) :
                                structure[s].active /\ structure[s].to = Never}),
             row |-> [employee |-> e, active |-> TRUE, from |-> from, to |-> to,
                      rate |-> rate]])
  /\ UNCHANGED <<active, mark, structure, pay, stale>>

\* The open structure is closed, the day before the new one starts.
InsertStructure(o, s) ==
  /\ officer[o].op = "create"
  /\ structure[s] = NoStructure
  /\ LET r == officer[o]
         opened == [structure EXCEPT ![s] = r.row]
     IN \/ r.open = {} /\ structure' = opened
        \/ \E t \in r.open :
             structure' = [opened EXCEPT ![t].active = FALSE,
                                         ![t].to = r.row.from - 1]
  /\ Done(o)
  /\ UNCHANGED <<active, mark, pay, stale>>

Covers(s, from, to) ==
  /\ to = Never \/ structure[s].from <= to
  /\ structure[s].to = Never \/ from <= structure[s].to

UpdateStructure(o, s, from, to) ==
  /\ "update" \in Desks
  /\ structure[s] # NoStructure
  /\ \A t \in StructuresOf(structure[s].employee) \ {s} :
       structure[t].active => ~Covers(t, from, to)
  /\ Ask(o, [op |-> "update", id |-> s, from |-> from, to |-> to])
  /\ UNCHANGED <<active, mark, structure, pay, stale>>

WriteStructure(o) ==
  /\ officer[o].op = "update"
  /\ structure' = [structure EXCEPT ![officer[o].id].from = officer[o].from,
                                    ![officer[o].id].to = officer[o].to]
  /\ Done(o)
  /\ UNCHANGED <<active, mark, pay, stale>>

DeactivateStructure(o, s) ==
  /\ "deactivate" \in Desks
  /\ structure[s].active
  /\ Ask(o, [op |-> "deactivate", id |-> s])
  /\ UNCHANGED <<active, mark, structure, pay, stale>>

CloseStructure(o) ==
  /\ officer[o].op = "deactivate"
  /\ structure' = [structure EXCEPT ![officer[o].id].active = FALSE,
                                    ![officer[o].id].to = Today]
  /\ Done(o)
  /\ UNCHANGED <<active, mark, pay, stale>>

\* findActiveOn: the latest of the Active structures that cover the date.
InEffect(e, p) ==
  Latest({s \in StructuresOf(e) : structure[s].active /\ Covers(s, p, p)})

-----------------------------------------------------------------------------
(***************************************************************************)
(* The payroll run: one transaction over the active employees, in order.   *)
(***************************************************************************)

\* buildPayrollRow, of a structure that pays by the day; half days count half.
Net(e, p, s) ==
  structure[s].rate *
    IF p # Today THEN 0
    ELSE CASE mark[e].status = "Present" -> 2
           [] mark[e].status = "Half_Day" -> 1
           [] OTHER -> 0

Generate(o, p) ==
  /\ "generate" \in Desks
  /\ Ask(o, [op |-> "generate", period |-> p, left |-> active, drafts |-> {}])
  /\ UNCHANGED <<active, mark, structure, pay, stale>>

\* Mutant: a row that is there is made again, whatever its status.
MayRegenerateAny(row) == TRUE

MayRegenerate(row) == row.status \in {"none", "Pending"}

\* The next employee: skipped without a structure; a row that may not be made
\* again ends the run, and its drafts go.
GenerateRow(o) ==
  /\ officer[o].op = "generate" /\ officer[o].left # {}
  /\ LET r == officer[o]
         e == Min(r.left)
         row == pay[e][r.period]
         left == r.left \ {e}
     IN \/ InEffect(e, r.period) = {} /\ Go(o, [r EXCEPT !.left = left])
        \/ /\ InEffect(e, r.period) # {}
           /\ IF MayRegenerate(row)
                THEN \E s \in InEffect(e, r.period) :
                       Go(o, [op |-> "save", period |-> r.period, left |-> left,
                              drafts |-> r.drafts, seen |-> row,
                              next |-> [employee |-> e, new |-> row = NoPay,
                                        net |-> Net(e, r.period, s)]])
                ELSE Done(o)
  /\ UNCHANGED <<active, mark, structure, pay, stale>>

\* The rows a run has saved are locked until it commits.
Locked(e, p) ==
  \E o \in Officers : /\ officer[o].op \in {"generate", "save"}
                      /\ officer[o].period = p
                      /\ \E d \in officer[o].drafts : d.employee = e

\* A second row for the period breaks the unique index, and the run.
SaveRow(o) ==
  /\ officer[o].op = "save"
  /\ LET r == officer[o]
         e == r.next.employee
     IN /\ ~Locked(e, r.period)
        /\ IF r.next.new /\ pay[e][r.period] # NoPay
             THEN Done(o) /\ UNCHANGED stale
             ELSE /\ Go(o, [op |-> "generate", period |-> r.period, left |-> r.left,
                            drafts |-> r.drafts \cup {r.next}])
                  /\ stale' = IF pay[e][r.period] = r.seen
                                THEN stale ELSE stale \cup {<<e, r.period>>}
  /\ UNCHANGED <<active, mark, structure, pay>>

GenerateCommit(o) ==
  /\ officer[o].op = "generate" /\ officer[o].left = {}
  /\ LET r == officer[o]
     IN pay' = [e \in Employees |-> [p \in Periods |->
          IF p = r.period /\ \E d \in r.drafts : d.employee = e
            THEN [status |-> "Pending",
                  net |-> (CHOOSE d \in r.drafts : d.employee = e).net]
            ELSE pay[e][p]]]
  /\ Done(o)
  /\ UNCHANGED <<active, mark, structure, stale>>

\* approve, markPaid and cancel: the status is read, and written whatever it
\* has become.
Decide(o, e, p, statuses, to) ==
  /\ pay[e][p].status \in statuses
  /\ Ask(o, [op |-> "decide", employee |-> e, period |-> p, to |-> to,
             seen |-> pay[e][p]])
  /\ UNCHANGED <<active, mark, structure, pay, stale>>

ApprovePay(o, e, p) == Decide(o, e, p, {"Pending"}, "Approved")
MarkPaid(o, e, p) == Decide(o, e, p, {"Approved"}, "Paid")
CancelPay(o, e, p) == Decide(o, e, p, {"Pending", "Approved"}, "Cancelled")

UpdatePay(o) ==
  /\ officer[o].op = "decide"
  /\ LET r == officer[o]
     IN /\ ~Locked(r.employee, r.period)
        /\ pay' = [pay EXCEPT ![r.employee][r.period].status = r.to]
        /\ stale' = IF pay[r.employee][r.period] = r.seen
                      THEN stale ELSE stale \cup {<<r.employee, r.period>>}
  /\ Done(o)
  /\ UNCHANGED <<active, mark, structure>>

-----------------------------------------------------------------------------
PayrollNext ==
  \/ \E e \in Employees :
       \/ Terminate(e)
       \/ \E row \in Grid : MarkGrid(e, row)
  \/ \E o \in Officers, e \in Employees : CheckInSelf(o, e) \/ CheckOutSelf(o, e)
  \/ \E o \in Officers : UpsertCheckIn(o) \/ ApplyCheckOut(o)
  \/ \E o \in Officers, e \in Employees, from \in Periods, rate \in Rates :
       \E to \in Periods \cup {Never} : CreateStructure(o, e, from, to, rate)
  \/ \E o \in Officers, s \in StructureIds :
       \/ InsertStructure(o, s) \/ DeactivateStructure(o, s)
       \/ \E from \in Periods, to \in Periods \cup {Never} : UpdateStructure(o, s, from, to)
  \/ \E o \in Officers : WriteStructure(o) \/ CloseStructure(o)
  \/ \E o \in Officers, p \in Periods : Generate(o, p)
  \/ \E o \in Officers : GenerateRow(o) \/ SaveRow(o) \/ GenerateCommit(o)
  \/ \E o \in Officers, e \in Employees, p \in Periods :
       ApprovePay(o, e, p) \/ MarkPaid(o, e, p) \/ CancelPay(o, e, p)
  \/ \E o \in Officers : UpdatePay(o)

PayrollTypeOK ==
  /\ active \subseteq Employees
  /\ mark \in [Employees -> Mark \cup {NoMark}]
  /\ structure \in [StructureIds -> Structure \cup {NoStructure}]
  /\ pay \in [Employees -> [Periods -> Pay \cup {NoPay}]]
  /\ officer \in [Officers -> OfficerRequests]
  /\ stale \subseteq Employees \X Periods

\* What a manager marked stands against the cashier's own clock: "a manual
\* override isn't silently overwritten", whichever of the two read first.
ManagersMarkStands ==
  [][\A e \in Employees :
       mark[e] # NoMark /\ mark'[e].status # mark[e].status
         => mark'[e].by = "Manager"]_mark

\* A paid row is paid for good: neither a later run nor a cancellation nor a
\* second approval changes it, unless one of them read it before.
PaidIsKept ==
  [][\A e \in Employees, p \in Periods :
       pay[e][p].status = "Paid" /\ <<e, p>> \notin stale' =>
         pay'[e][p] = pay[e][p]]_pay
=============================================================================
