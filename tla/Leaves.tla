-------------------------------- MODULE Leaves --------------------------------
(***************************************************************************)
(* Leave requests and the annual-leave wallet of a branch's employees.     *)
(*                                                                         *)
(* A handler reads the leave, checks it and then writes, with no lock: a   *)
(* request is a check and a write.  The status and the wallet are written  *)
(* in one transaction, the wallet by an SQL increment.                     *)
(***************************************************************************)
EXTENDS Integers, FiniteSets, Functions

CONSTANTS
  Applicants,   \* employees
  LeaveIds,     \* identifiers of leaves
  Moderators,   \* requests in flight at the same time
  Days,         \* of the calendar
  Entitlement   \* employees.annual_leave_balance at the start

ASSUME EntitlementAssumption ==
  Entitlement \in Nat /\ Days \subseteq Int /\ IsFiniteSet(LeaveIds)

VARIABLES
  leave,       \* the employee_leaves table
  wallet,      \* employees.annual_leave_balance
  moderator,   \* what each request in flight has read
  contested    \* history: leaves whose status was written on a stale read

leaves == <<leave, wallet, moderator, contested>>

LeaveStatuses == {"Pending", "Approved", "Rejected", "Cancelled"}
Leave == [status : LeaveStatuses, employee : Applicants, annual : BOOLEAN,
          from : Days, to : Days]
NoLeave == [status |-> "none"]
Free == [op |-> "free"]

ModeratorRequests ==
  {Free}
    \cup [op : {"apply"}, row : Leave]
    \cup [op : {"decide"}, id : LeaveIds, to : LeaveStatuses, days : Int,
          seen : {"Pending", "Approved"}]

LeavesInit ==
  /\ leave = [l \in LeaveIds |-> NoLeave]
  /\ wallet = [e \in Applicants |-> Entitlement]
  /\ moderator = [m \in Moderators |-> Free]
  /\ contested = {}

StartRequest(m, r) ==
  /\ moderator[m] = Free
  /\ moderator' = [moderator EXCEPT ![m] = r]
  /\ UNCHANGED <<leave, wallet, contested>>

EndRequest(m) == moderator' = [moderator EXCEPT ![m] = Free]

\* The client counts the days of a leave; here it counts them right.
Length(from, to) == to - from + 1

Overlapping(e, from, to) ==
  {l \in LeaveIds : /\ leave[l].status \in {"Pending", "Approved"}
                    /\ leave[l].employee = e
                    /\ leave[l].from <= to /\ leave[l].to >= from}

\* The leave is checked against the wallet, not against what is pending.
Apply(m, e, annual, from, to) ==
  /\ from <= to
  /\ Overlapping(e, from, to) = {}
  /\ annual => wallet[e] >= Length(from, to)
  /\ StartRequest(m, [op |-> "apply",
                      row |-> [status |-> "Pending", employee |-> e,
                               annual |-> annual, from |-> from, to |-> to]])

InsertLeave(m, l) ==
  /\ moderator[m].op = "apply"
  /\ leave[l] = NoLeave
  /\ leave' = [leave EXCEPT ![l] = moderator[m].row]
  /\ EndRequest(m)
  /\ UNCHANGED <<wallet, contested>>

\* What an annual leave takes from the wallet.
Cost(l) == IF leave[l].annual THEN Length(leave[l].from, leave[l].to) ELSE 0

ApproveLeave(m, l) ==
  /\ leave[l].status = "Pending"
  /\ StartRequest(m, [op |-> "decide", id |-> l, to |-> "Approved",
                      days |-> -Cost(l), seen |-> "Pending"])

RejectLeave(m, l) ==
  /\ leave[l].status = "Pending"
  /\ StartRequest(m, [op |-> "decide", id |-> l, to |-> "Rejected",
                      days |-> 0, seen |-> "Pending"])

\* Mutant: every annual leave that is cancelled gives its days back.
GivenBackAlways(l) == Cost(l)

GivenBack(l) == IF leave[l].status = "Approved" THEN Cost(l) ELSE 0

\* The applicant may withdraw a pending leave, a manager an approved one too.
CancelLeave(m, l) ==
  /\ leave[l].status \in {"Pending", "Approved"}
  /\ StartRequest(m, [op |-> "decide", id |-> l, to |-> "Cancelled",
                      days |-> GivenBack(l), seen |-> leave[l].status])

\* The transaction: whatever the leave has become.
WriteDecision(m) ==
  /\ moderator[m].op = "decide"
  /\ LET l == moderator[m].id
     IN /\ leave' = [leave EXCEPT ![l].status = moderator[m].to]
        /\ wallet' = [wallet EXCEPT ![leave[l].employee] = @ + moderator[m].days]
        /\ contested' = IF leave[l].status = moderator[m].seen
                          THEN contested ELSE contested \cup {l}
  /\ EndRequest(m)

LeavesNext ==
  \/ \E m \in Moderators, e \in Applicants, annual \in BOOLEAN, from, to \in Days :
       Apply(m, e, annual, from, to)
  \/ \E m \in Moderators, l \in LeaveIds :
       InsertLeave(m, l) \/ ApproveLeave(m, l) \/ RejectLeave(m, l) \/ CancelLeave(m, l)
  \/ \E m \in Moderators : WriteDecision(m)

-----------------------------------------------------------------------------
LeavesTypeOK ==
  /\ leave \in [LeaveIds -> Leave \cup {NoLeave}]
  /\ wallet \in [Applicants -> Int]
  /\ moderator \in [Moderators -> ModeratorRequests]
  /\ contested \subseteq LeaveIds

\* The wallet lacks the days of the approved annual leaves and no others,
\* through approvals and cancellations that overlap, for an employee none of
\* whose leaves was decided on a status that had changed.
WalletMatchesLeaves ==
  \A e \in Applicants :
    (\A l \in contested : leave[l].employee # e) =>
      wallet[e] = Entitlement
        - SumFunctionOnSet([l \in LeaveIds |-> Cost(l)],
                           {l \in LeaveIds : /\ leave[l].status = "Approved"
                                             /\ leave[l].employee = e})
=============================================================================
