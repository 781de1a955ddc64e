----------------------------- MODULE OfficeProofs -----------------------------
(***************************************************************************)
(* Theorems about Office, for any numbers of employees, customers, rows    *)
(* and requests in flight, and any calendar, rates, prices and points.     *)
(*                                                                         *)
(* The six services share no state: each has an inductive invariant of its *)
(* own, kept by its steps and untouched by those of the others.            *)
(***************************************************************************)
EXTENDS Office, SumTheorems

-----------------------------------------------------------------------------
(***************************************************************************)
(* Leaves.                                                                 *)
(***************************************************************************)

\* A decision moves the wallet by what the leave costs in the status it is
\* given less what it costs in the status that was read.
CostIn(status, l) == IF status = "Approved" THEN Cost(l) ELSE 0

ModeratorOK(r) ==
  /\ r.op = "apply" => r.row.status = "Pending"
  /\ r.op = "decide" => /\ leave[r.id] # NoLeave
                        /\ r.days = CostIn(r.seen, r.id) - CostIn(r.to, r.id)

LeavesInv ==
  /\ LeavesTypeOK
  /\ \A m \in Moderators : ModeratorOK(moderator[m])
  /\ \A l \in contested : leave[l] # NoLeave
  /\ WalletMatchesLeaves

LEMMA LeaveFields ==
  ASSUME LeavesTypeOK, NEW l \in LeaveIds
  PROVE  /\ leave[l] # NoLeave => /\ leave[l] \in Leave
                                  /\ leave[l].status \in LeaveStatuses
                                  /\ leave[l].employee \in Applicants
                                  /\ leave[l].annual \in BOOLEAN
                                  /\ leave[l].from \in Int
                                  /\ leave[l].to \in Int
         /\ leave[l].status \in LeaveStatuses => leave[l] # NoLeave
         /\ leave[l] # NoLeave => Cost(l) \in Int
<1>1. leave[l] \in Leave \cup {NoLeave}
  BY DEF LeavesTypeOK
<1>2. leave[l].status \in LeaveStatuses => leave[l] # NoLeave
  BY DEF NoLeave, LeaveStatuses
<1>3. leave[l] \in Leave => /\ leave[l].status \in LeaveStatuses
                            /\ leave[l].employee \in Applicants
                            /\ leave[l].annual \in BOOLEAN
                            /\ leave[l].from \in Days
                            /\ leave[l].to \in Days
  BY DEF Leave
<1>4. leave[l] \in Leave => leave[l].from \in Int /\ leave[l].to \in Int
  BY <1>3, EntitlementAssumption
<1>5. leave[l] \in Leave => Cost(l) \in Int
  BY <1>4 DEF Cost, Length
<1>6. QED
  BY <1>1, <1>2, <1>3, <1>4, <1>5

LEMMA ModeratorFields ==
  ASSUME LeavesTypeOK, NEW m \in Moderators
  PROVE  /\ moderator[m].op = "apply" => moderator[m].row \in Leave
         /\ moderator[m].op = "decide" => /\ moderator[m].id \in LeaveIds
                                          /\ moderator[m].to \in LeaveStatuses
                                          /\ moderator[m].days \in Int
                                          /\ moderator[m].seen \in {"Pending", "Approved"}
<1>1. moderator[m] \in ModeratorRequests
  BY DEF LeavesTypeOK
<1>2. QED
  BY <1>1 DEF ModeratorRequests, Free

LEMMA LeavesInitInv == LeavesInit => LeavesInv
<1> SUFFICES ASSUME LeavesInit PROVE LeavesInv
  OBVIOUS
<1>1. LeavesTypeOK
  BY EntitlementAssumption DEF LeavesInit, LeavesTypeOK, ModeratorRequests
<1>2. \A m \in Moderators : ModeratorOK(moderator[m])
  BY DEF LeavesInit, ModeratorOK, Free
<1>3. WalletMatchesLeaves
  <2> SUFFICES ASSUME NEW e \in Applicants
               PROVE  wallet[e] = Entitlement
                        - SumFunctionOnSet([l \in LeaveIds |-> Cost(l)],
                                           {l \in LeaveIds : /\ leave[l].status = "Approved"
                                                             /\ leave[l].employee = e})
    BY DEF WalletMatchesLeaves
  <2>1. {l \in LeaveIds : leave[l].status = "Approved" /\ leave[l].employee = e} = {}
    BY DEF LeavesInit, NoLeave
  <2>2. wallet[e] = Entitlement - 0
    BY EntitlementAssumption DEF LeavesInit
  <2>3. QED
    BY <2>1, <2>2, SumEmpty
<1>4. QED
  BY <1>1, <1>2, <1>3 DEF LeavesInit, LeavesInv

LEMMA LeavesStutter == LeavesInv /\ UNCHANGED leaves => LeavesInv'
BY DEF LeavesInv, leaves, LeavesTypeOK, ModeratorOK, CostIn, Cost, WalletMatchesLeaves

\* A step that writes nothing but its own request.
LEMMA ModeratorStep ==
  ASSUME LeavesInv, NEW m \in Moderators, NEW r \in ModeratorRequests, ModeratorOK(r),
         moderator' = [moderator EXCEPT ![m] = r], UNCHANGED <<leave, wallet, contested>>
  PROVE  LeavesInv'
<1>1. LeavesTypeOK'
  BY DEF LeavesInv, LeavesTypeOK
<1>2. \A n \in Moderators : ModeratorOK(moderator[n])'
  BY DEF LeavesInv, LeavesTypeOK, ModeratorOK, CostIn, Cost
<1>3. WalletMatchesLeaves'
  BY DEF LeavesInv, WalletMatchesLeaves, Cost
<1>4. QED
  BY <1>1, <1>2, <1>3 DEF LeavesInv

LEMMA LeavesCheckStep ==
  ASSUME LeavesInv, NEW m \in Moderators,
         \/ \E e \in Applicants, annual \in BOOLEAN, from, to \in Days :
              Apply(m, e, annual, from, to)
         \/ \E l \in LeaveIds : ApproveLeave(m, l) \/ RejectLeave(m, l) \/ CancelLeave(m, l)
  PROVE  LeavesInv'
<1>1. CASE \E e \in Applicants, annual \in BOOLEAN, from, to \in Days :
             Apply(m, e, annual, from, to)
  <2>1. PICK e \in Applicants, annual \in BOOLEAN, from \in Days, to \in Days :
          Apply(m, e, annual, from, to)
    BY <1>1
  <2> DEFINE row == [status |-> "Pending", employee |-> e, annual |-> annual,
                     from |-> from, to |-> to]
             r == [op |-> "apply", row |-> row]
  <2>2. row \in Leave /\ row.status = "Pending"
    BY DEF Leave, LeaveStatuses
  <2>3. r \in ModeratorRequests /\ ModeratorOK(r)
    <3> HIDE DEF row
    <3>1. QED
      BY <2>2 DEF ModeratorRequests, ModeratorOK
  <2>4. moderator' = [moderator EXCEPT ![m] = r] /\ UNCHANGED <<leave, wallet, contested>>
    BY <2>1 DEF Apply, StartRequest
  <2> HIDE DEF r
  <2>5. QED
    BY <2>3, <2>4, ModeratorStep
<1>2. ASSUME NEW l \in LeaveIds, NEW to \in LeaveStatuses, NEW days,
             NEW seen \in {"Pending", "Approved"}, leave[l].status \in LeaveStatuses,
             days = CostIn(seen, l) - CostIn(to, l),
             StartRequest(m, [op |-> "decide", id |-> l, to |-> to, days |-> days, seen |-> seen])
      PROVE  LeavesInv'
  <2> DEFINE r == [op |-> "decide", id |-> l, to |-> to, days |-> days, seen |-> seen]
  <2>1. leave[l] # NoLeave /\ Cost(l) \in Int
    BY <1>2, LeaveFields DEF LeavesInv
  <2>2. days \in Int
    BY <1>2, <2>1 DEF CostIn
  <2>3. r \in ModeratorRequests /\ ModeratorOK(r)
    BY <1>2, <2>1, <2>2 DEF ModeratorRequests, ModeratorOK
  <2>4. moderator' = [moderator EXCEPT ![m] = r] /\ UNCHANGED <<leave, wallet, contested>>
    BY <1>2 DEF StartRequest
  <2> HIDE DEF r
  <2>5. QED
    BY <2>3, <2>4, ModeratorStep
<1>3. ASSUME NEW l \in LeaveIds, ApproveLeave(m, l) PROVE LeavesInv'
  <2>1. leave[l].status = "Pending" /\ Cost(l) \in Int
    BY <1>3, LeaveFields DEF ApproveLeave, LeavesInv, LeaveStatuses
  <2>2. -Cost(l) = CostIn("Pending", l) - CostIn("Approved", l)
    BY <2>1 DEF CostIn
  <2>3. QED
    BY <1>2, <1>3, <2>1, <2>2 DEF ApproveLeave, LeaveStatuses
<1>4. ASSUME NEW l \in LeaveIds, RejectLeave(m, l) PROVE LeavesInv'
  <2>1. 0 = CostIn("Pending", l) - CostIn("Rejected", l)
    BY DEF CostIn
  <2>2. QED
    BY <1>2, <1>4, <2>1 DEF RejectLeave, LeaveStatuses
<1>5. ASSUME NEW l \in LeaveIds, CancelLeave(m, l) PROVE LeavesInv'
  <2>1. leave[l].status \in {"Pending", "Approved"} /\ Cost(l) \in Int
    BY <1>5, LeaveFields DEF CancelLeave, LeavesInv, LeaveStatuses
  <2>2. GivenBack(l) = CostIn(leave[l].status, l) - CostIn("Cancelled", l)
    BY <2>1 DEF CostIn, GivenBack
  <2>3. QED
    BY <1>2, <1>5, <2>1, <2>2 DEF CancelLeave, LeaveStatuses
<1>6. QED
  BY <1>1, <1>3, <1>4, <1>5

LEMMA FreeOK == Free \in ModeratorRequests /\ ModeratorOK(Free)
BY DEF Free, ModeratorRequests, ModeratorOK

\* The approved leaves of an employee.
Granted(e) == {l \in LeaveIds : leave[l].status = "Approved" /\ leave[l].employee = e}

LEMMA GrantedInt ==
  ASSUME LeavesInv, NEW e \in Applicants
  PROVE  SumFunctionOnSet([l \in LeaveIds |-> Cost(l)], Granted(e)) \in Int
<1> DEFINE f == [l \in LeaveIds |-> Cost(l)]
<1>1. \A l \in Granted(e) : f[l] \in Int
  BY LeaveFields DEF Granted, LeavesInv, LeaveStatuses
<1>2. IsFiniteSet(Granted(e))
  BY EntitlementAssumption, FS_Subset DEF Granted
<1> HIDE DEF f
<1>3. QED
  BY <1>1, <1>2, SumInt DEF f

\* One leave is written; the rest keep their costs.
LEMMA LeaveWritten ==
  ASSUME LeavesInv, LeavesTypeOK', NEW k \in LeaveIds, leave'[k] # NoLeave,
         \A l \in LeaveIds : l # k => leave'[l] = leave[l], NEW e \in Applicants
  PROVE  SumFunctionOnSet([l \in LeaveIds |-> Cost(l)'], Granted(e)')
           = SumFunctionOnSet([l \in LeaveIds |-> Cost(l)], Granted(e))
             + (IF k \in Granted(e)' THEN Cost(k)' ELSE 0)
             - (IF k \in Granted(e) THEN Cost(k) ELSE 0)
<1> DEFINE f == [l \in LeaveIds |-> Cost(l)]
           g == [l \in LeaveIds |-> Cost(l)']
           P == Granted(e)
           Q == Granted(e)'
<1>1. P \in SUBSET LeaveIds /\ Q \in SUBSET LeaveIds
  BY DEF Granted
<1>2. \A l \in P : f[l] \in Int
  BY LeaveFields DEF Granted, LeavesInv, LeaveStatuses
<1>3. \A l \in LeaveIds : l # k => (l \in P <=> l \in Q) /\ g[l] = f[l]
  BY DEF Granted, Cost
<1>4. g[k] \in Int
  <2>1. leave'[k] \in Leave
    BY DEF LeavesTypeOK
  <2>2. leave'[k].from \in Int /\ leave'[k].to \in Int
    BY <2>1, EntitlementAssumption DEF Leave
  <2>3. QED
    BY <2>2 DEF Cost, Length
<1>5. \A l \in Q : g[l] \in Int
  BY <1>1, <1>2, <1>3, <1>4
<1>6. f[k] = Cost(k) /\ g[k] = Cost(k)'
  OBVIOUS
<1> HIDE DEF f, g, P, Q
<1>7. SumFunctionOnSet(g, Q) = SumFunctionOnSet(f, P)
        + (IF k \in Q THEN g[k] ELSE 0) - (IF k \in P THEN f[k] ELSE 0)
  BY <1>1, <1>2, <1>3, <1>5, EntitlementAssumption, SumChange
<1>8. QED
  BY <1>6, <1>7 DEF f, g, P, Q

LEMMA InsertLeaveStep ==
  ASSUME LeavesInv, NEW m \in Moderators, NEW l \in LeaveIds, InsertLeave(m, l)
  PROVE  LeavesInv'
<1> DEFINE row == moderator[m].row
<1>1. /\ leave[l] = NoLeave
      /\ leave' = [leave EXCEPT ![l] = row]
      /\ moderator' = [moderator EXCEPT ![m] = Free]
      /\ UNCHANGED <<wallet, contested>>
      /\ moderator[m].op = "apply"
  BY DEF InsertLeave, EndRequest
<1>2. row \in Leave /\ row # NoLeave
  BY <1>1, ModeratorFields DEF LeavesInv, Leave, NoLeave, LeaveStatuses
<1> HIDE DEF row
<1>3. leave'[l] = row /\ \A k \in LeaveIds : k # l => leave'[k] = leave[k]
  BY <1>1 DEF LeavesInv, LeavesTypeOK
<1>4. LeavesTypeOK'
  BY <1>1, <1>2, FreeOK DEF LeavesInv, LeavesTypeOK
<1>5. ASSUME NEW n \in Moderators PROVE ModeratorOK(moderator[n])'
  <2>1. CASE n = m
    BY <2>1, <1>1 DEF LeavesInv, LeavesTypeOK, ModeratorOK, Free
  <2>2. CASE n # m
    <3>1. moderator'[n] = moderator[n] /\ ModeratorOK(moderator[n])
      BY <2>2, <1>1 DEF LeavesInv, LeavesTypeOK
    <3>2. moderator[n].op = "decide" => moderator[n].id \in LeaveIds /\ moderator[n].id # l
      BY <3>1, <1>1, ModeratorFields DEF LeavesInv, ModeratorOK
    <3>3. QED
      BY <3>1, <3>2, <1>3 DEF ModeratorOK, CostIn, Cost
  <2>3. QED
    BY <2>1, <2>2
<1>6. \A k \in contested' : leave'[k] # NoLeave
  BY <1>1, <1>2, <1>3 DEF LeavesInv, LeavesTypeOK
<1>7. WalletMatchesLeaves'
  <2> SUFFICES ASSUME NEW e \in Applicants, \A k \in contested' : leave'[k].employee # e
               PROVE  wallet'[e] = Entitlement
                        - SumFunctionOnSet([k \in LeaveIds |-> Cost(k)'], Granted(e)')
    BY DEF WalletMatchesLeaves, Granted
  <2>1. \A k \in contested : leave[k].employee # e
    BY <1>1, <1>3 DEF LeavesInv, LeavesTypeOK
  <2>2. wallet[e] = Entitlement - SumFunctionOnSet([k \in LeaveIds |-> Cost(k)], Granted(e))
    BY <2>1 DEF LeavesInv, WalletMatchesLeaves, Granted
  <2>3. row.status = "Pending"
    BY <1>1 DEF LeavesInv, ModeratorOK, row
  <2>4. l \notin Granted(e) /\ l \notin Granted(e)'
    BY <1>1, <1>3, <2>3 DEF Granted, NoLeave
  <2>5. SumFunctionOnSet([k \in LeaveIds |-> Cost(k)'], Granted(e)')
          = SumFunctionOnSet([k \in LeaveIds |-> Cost(k)], Granted(e))
    BY <2>4, <1>2, <1>3, <1>4, LeaveWritten, GrantedInt
  <2>6. QED
    BY <1>1, <2>2, <2>5
<1>8. QED
  BY <1>4, <1>5, <1>6, <1>7 DEF LeavesInv

LEMMA WriteDecisionStep ==
  ASSUME LeavesInv, NEW m \in Moderators, WriteDecision(m), NEW l, l = moderator[m].id
  PROVE  LeavesInv'
<1> DEFINE to == moderator[m].to
           days == moderator[m].days
           seen == moderator[m].seen
           who == leave[l].employee
           row == [leave[l] EXCEPT !.status = to]
<1>1. /\ leave' = [leave EXCEPT ![l] = row]
      /\ wallet' = [wallet EXCEPT ![who] = @ + days]
      /\ contested' = IF leave[l].status = seen THEN contested ELSE contested \cup {l}
      /\ moderator' = [moderator EXCEPT ![m] = Free]
      /\ moderator[m].op = "decide"
  BY DEF WriteDecision, EndRequest
<1>2. /\ l \in LeaveIds /\ leave[l] \in Leave /\ who \in Applicants /\ Cost(l) \in Int
      /\ days \in Int /\ days = CostIn(seen, l) - CostIn(to, l) /\ to \in LeaveStatuses
  BY <1>1, ModeratorFields, LeaveFields DEF LeavesInv, ModeratorOK
<1>3. /\ row \in Leave /\ row.status = to /\ row # NoLeave /\ row.employee = who
      /\ row.annual = leave[l].annual /\ row.from = leave[l].from /\ row.to = leave[l].to
  BY <1>2 DEF Leave, NoLeave, LeaveStatuses
<1> HIDE DEF row, to, days, seen, who
<1>4. leave'[l] = row /\ \A k \in LeaveIds : k # l => leave'[k] = leave[k]
  BY <1>1, <1>2 DEF LeavesInv, LeavesTypeOK
<1>5. \A k \in LeaveIds : /\ Cost(k)' = Cost(k)
                          /\ leave'[k].employee = leave[k].employee
                          /\ leave[k] # NoLeave => leave'[k] # NoLeave
  BY <1>3, <1>4 DEF Cost, who
<1>6. wallet' \in [Applicants -> Int]
  BY <1>1, <1>2 DEF LeavesInv, LeavesTypeOK
<1>7. LeavesTypeOK'
  BY <1>1, <1>2, <1>3, <1>6, FreeOK DEF LeavesInv, LeavesTypeOK
<1>8. ASSUME NEW n \in Moderators PROVE ModeratorOK(moderator[n])'
  <2>1. CASE n = m
    BY <2>1, <1>1 DEF LeavesInv, LeavesTypeOK, ModeratorOK, Free
  <2>2. CASE n # m
    <3>1. moderator'[n] = moderator[n] /\ ModeratorOK(moderator[n])
      BY <2>2, <1>1 DEF LeavesInv, LeavesTypeOK
    <3>2. moderator[n].op = "decide" => moderator[n].id \in LeaveIds
      BY ModeratorFields DEF LeavesInv
    <3>3. QED
      BY <3>1, <3>2, <1>5 DEF ModeratorOK, CostIn
  <2>3. QED
    BY <2>1, <2>2
<1>9. \A k \in contested' : leave'[k] # NoLeave
  BY <1>1, <1>3, <1>4, <1>5 DEF LeavesInv, LeavesTypeOK
<1>10. WalletMatchesLeaves'
  <2> SUFFICES ASSUME NEW e \in Applicants, \A k \in contested' : leave'[k].employee # e
               PROVE  wallet'[e] = Entitlement
                        - SumFunctionOnSet([k \in LeaveIds |-> Cost(k)'], Granted(e)')
    BY DEF WalletMatchesLeaves, Granted
  <2> DEFINE total == SumFunctionOnSet([k \in LeaveIds |-> Cost(k)], Granted(e))
             after == SumFunctionOnSet([k \in LeaveIds |-> Cost(k)'], Granted(e)')
  <2>1. \A k \in contested : leave[k].employee # e
    BY <1>1, <1>5 DEF LeavesInv, LeavesTypeOK
  <2>2. wallet[e] = Entitlement - total
    BY <2>1 DEF LeavesInv, WalletMatchesLeaves, Granted
  <2>3. after = total + (IF l \in Granted(e)' THEN Cost(l)' ELSE 0)
                      - (IF l \in Granted(e) THEN Cost(l) ELSE 0)
    BY <1>2, <1>3, <1>4, <1>7, LeaveWritten
  <2>4. total \in Int /\ wallet[e] \in Int /\ Entitlement \in Int
    BY GrantedInt, EntitlementAssumption DEF LeavesInv, LeavesTypeOK
  <2> HIDE DEF total, after
  <2>5. CASE e # who
    <3>1. l \notin Granted(e) /\ l \notin Granted(e)'
      BY <2>5, <1>3, <1>4 DEF Granted, who
    <3>2. wallet'[e] = wallet[e]
      BY <2>5, <1>1 DEF LeavesInv, LeavesTypeOK
    <3>3. QED
      BY <2>2, <2>3, <2>4, <3>1, <3>2 DEF after
  <2>6. CASE e = who
    <3>1. leave[l].status = seen
      BY <2>6, <1>1, <1>2, <1>3, <1>4
    <3>2. /\ (IF l \in Granted(e)' THEN Cost(l)' ELSE 0) = CostIn(to, l)
          /\ (IF l \in Granted(e) THEN Cost(l) ELSE 0) = CostIn(seen, l)
      BY <2>6, <3>1, <1>2, <1>3, <1>4, <1>5 DEF Granted, CostIn, who
    <3>3. wallet'[e] = wallet[e] + days
      BY <2>6, <1>1, <1>2 DEF LeavesInv, LeavesTypeOK
    <3>4. CostIn(to, l) \in Int /\ CostIn(seen, l) \in Int
      BY <1>2 DEF CostIn
    <3>5. QED
      BY <2>2, <2>3, <2>4, <3>2, <3>3, <3>4, <1>2 DEF after
  <2>7. QED
    BY <2>5, <2>6
<1>11. QED
  BY <1>7, <1>8, <1>9, <1>10 DEF LeavesInv

LEMMA LeavesStep == LeavesInv /\ LeavesNext => LeavesInv'
<1> SUFFICES ASSUME LeavesInv, LeavesNext PROVE LeavesInv'
  OBVIOUS
<1>1. ASSUME NEW m \in Moderators, NEW e \in Applicants, NEW annual \in BOOLEAN,
             NEW from \in Days, NEW to \in Days, Apply(m, e, annual, from, to)
      PROVE  LeavesInv'
  BY <1>1, LeavesCheckStep
<1>2. ASSUME NEW m \in Moderators, NEW l \in LeaveIds,
             InsertLeave(m, l) \/ ApproveLeave(m, l) \/ RejectLeave(m, l) \/ CancelLeave(m, l)
      PROVE  LeavesInv'
  BY <1>2, LeavesCheckStep, InsertLeaveStep
<1>3. ASSUME NEW m \in Moderators, WriteDecision(m) PROVE LeavesInv'
  BY <1>3, WriteDecisionStep
<1>4. QED
  BY <1>1, <1>2, <1>3 DEF LeavesNext

-----------------------------------------------------------------------------
(***************************************************************************)
(* Payroll.                                                                *)
(***************************************************************************)

\* A row that a run may write: not yet decided, or read before it was.
Undecided(e, p) == pay[e][p].status \in {"none", "Pending"} \/ <<e, p>> \in stale

\* What a request in flight read is still there, and the rows that a run will
\* write are undecided while it holds them.
OfficerOK(r) ==
  /\ r.op = "checkOut" => mark[r.employee] \in Mark
  /\ r.op = "create" => \A s \in r.open : structure[s] \in Structure
  /\ r.op \in {"update", "deactivate"} => structure[r.id] \in Structure
  /\ r.op = "decide" => pay[r.employee][r.period] \in Pay /\ r.seen.status # "Paid"
  /\ r.op = "save" => r.seen.status \in {"none", "Pending"}
  /\ r.op \in {"generate", "save"} => \A d \in r.drafts : Undecided(d.employee, r.period)

PayrollInv ==
  /\ PayrollTypeOK
  /\ \A o \in Officers : OfficerOK(officer[o])

LEMMA OfficerFields ==
  ASSUME PayrollTypeOK, NEW o \in Officers
  PROVE  /\ officer[o].op \in {"checkIn", "checkOut"} => officer[o].employee \in Employees
         /\ officer[o].op = "create" => /\ officer[o].open \subseteq StructureIds
                                        /\ officer[o].row \in Structure
         /\ officer[o].op = "update" => /\ officer[o].id \in StructureIds
                                        /\ officer[o].from \in Periods
                                        /\ officer[o].to \in Int \cup {Never}
         /\ officer[o].op = "deactivate" => officer[o].id \in StructureIds
         /\ officer[o].op \in {"generate", "save"} => /\ officer[o].period \in Periods
                                                      /\ officer[o].left \subseteq Employees
                                                      /\ officer[o].drafts \subseteq Draft
         /\ officer[o].op = "save" => /\ officer[o].next \in Draft
                                      /\ officer[o].seen \in Pay \cup {NoPay}
         /\ officer[o].op = "decide" => /\ officer[o].employee \in Employees
                                        /\ officer[o].period \in Periods
                                        /\ officer[o].to \in PayStatuses
                                        /\ officer[o].seen \in Pay
<1>1. officer[o] \in OfficerRequests
  BY DEF PayrollTypeOK
<1>2. QED
  BY <1>1 DEF OfficerRequests, Resting

LEMMA PayFields ==
  ASSUME PayrollTypeOK, NEW e \in Employees, NEW p \in Periods
  PROVE  /\ pay[e][p] \in Pay \cup {NoPay}
         /\ pay[e][p].status \in PayStatuses => pay[e][p] \in Pay
BY DEF PayrollTypeOK, PayStatuses, NoPay

LEMMA StructureFields ==
  ASSUME PayrollTypeOK, NEW s \in StructureIds
  PROVE  /\ structure[s] # NoStructure => structure[s] \in Structure
         /\ structure[s].active => structure[s] \in Structure
BY DEF PayrollTypeOK, NoStructure

LEMMA RestingOK == Resting \in OfficerRequests /\ OfficerOK(Resting)
BY DEF Resting, OfficerRequests, OfficerOK

LEMMA PayrollInitInv == PayrollInit => PayrollInv
BY RestingOK DEF PayrollInit, PayrollInv, PayrollTypeOK

LEMMA PayrollStutter == PayrollInv /\ UNCHANGED payroll => PayrollInv'
BY DEF PayrollInv, payroll, PayrollTypeOK, OfficerOK, Undecided

\* A step that writes nothing but its own request.
LEMMA OfficerStep ==
  ASSUME PayrollInv, NEW o \in Officers, NEW r \in OfficerRequests, OfficerOK(r),
         officer' = [officer EXCEPT ![o] = r], active' \subseteq Employees,
         UNCHANGED <<mark, structure, pay, stale>>
  PROVE  PayrollInv'
<1>1. PayrollTypeOK'
  BY DEF PayrollInv, PayrollTypeOK
<1>2. \A n \in Officers : OfficerOK(officer[n])'
  BY DEF PayrollInv, PayrollTypeOK, OfficerOK, Undecided
<1>3. QED
  BY <1>1, <1>2 DEF PayrollInv

\* No request but those in flight, of which some may end.
Released == \A o \in Officers : officer'[o] \in {officer[o], Resting}

LEMMA MarkWritten ==
  ASSUME PayrollInv, NEW e \in Employees, NEW new \in Mark,
         mark' = [mark EXCEPT ![e] = new], Released, officer' \in [Officers -> OfficerRequests],
         UNCHANGED <<active, structure, pay, stale>>
  PROVE  PayrollInv'
<1>1. PayrollTypeOK'
  BY DEF PayrollInv, PayrollTypeOK
<1>2. ASSUME NEW n \in Officers PROVE OfficerOK(officer[n])'
  <2>1. CASE officer'[n] = Resting
    BY <2>1 DEF Resting, OfficerOK
  <2>2. CASE officer'[n] = officer[n]
    BY <2>2, OfficerFields DEF PayrollInv, PayrollTypeOK, OfficerOK, Undecided
  <2>3. QED
    BY <2>1, <2>2 DEF Released
<1>3. QED
  BY <1>1, <1>2 DEF PayrollInv

LEMMA StructureWritten ==
  ASSUME PayrollInv, structure' \in [StructureIds -> Structure \cup {NoStructure}],
         \A s \in StructureIds : structure[s] \in Structure => structure'[s] \in Structure,
         Released, officer' \in [Officers -> OfficerRequests],
         UNCHANGED <<active, mark, pay, stale>>
  PROVE  PayrollInv'
<1>1. PayrollTypeOK'
  BY DEF PayrollInv, PayrollTypeOK
<1>2. ASSUME NEW n \in Officers PROVE OfficerOK(officer[n])'
  <2>1. CASE officer'[n] = Resting
    BY <2>1 DEF Resting, OfficerOK
  <2>2. CASE officer'[n] = officer[n]
    BY <2>2, OfficerFields DEF PayrollInv, OfficerOK, Undecided
  <2>3. QED
    BY <2>1, <2>2 DEF Released
<1>3. QED
  BY <1>1, <1>2 DEF PayrollInv

LEMMA DoneReleases ==
  ASSUME PayrollInv, NEW o \in Officers, Done(o)
  PROVE  /\ Released
         /\ officer' \in [Officers -> OfficerRequests]
         /\ \A n \in Officers : n # o => officer'[n] = officer[n]
         /\ officer'[o] = Resting
BY RestingOK DEF PayrollInv, PayrollTypeOK, Released, Done, Go

LEMMA SimplePayrollSteps ==
  ASSUME PayrollInv, NEW e \in Employees,
         \/ Terminate(e)
         \/ \E row \in Grid : MarkGrid(e, row)
         \/ \E o \in Officers : CheckInSelf(o, e) \/ CheckOutSelf(o, e)
  PROVE  PayrollInv'
<1>1. CASE Terminate(e)
  <2>1. active' \subseteq Employees /\ UNCHANGED <<mark, structure, pay, officer, stale>>
    BY <1>1 DEF Terminate, PayrollInv, PayrollTypeOK
  <2>2. QED
    BY <2>1 DEF PayrollInv, PayrollTypeOK, OfficerOK, Undecided
<1>2. ASSUME NEW row \in Grid, MarkGrid(e, row) PROVE PayrollInv'
  <2> DEFINE new == [status |-> row.status, in |-> row.in, out |-> row.out, by |-> "Manager"]
  <2>1. new \in Mark
    BY GridAssumption DEF Mark
  <2>2. Released /\ officer' \in [Officers -> OfficerRequests]
    BY <1>2 DEF MarkGrid, Released, PayrollInv, PayrollTypeOK
  <2>3. mark' = [mark EXCEPT ![e] = new] /\ UNCHANGED <<active, structure, pay, stale>>
    BY <1>2 DEF MarkGrid
  <2> HIDE DEF new
  <2>4. QED
    BY <2>1, <2>2, <2>3, MarkWritten
<1>3. ASSUME NEW o \in Officers, CheckInSelf(o, e) PROVE PayrollInv'
  <2> DEFINE r == [op |-> "checkIn", employee |-> e]
  <2>1. r \in OfficerRequests /\ OfficerOK(r)
    BY DEF OfficerRequests, OfficerOK
  <2>2. active' \subseteq Employees
    BY <1>3 DEF CheckInSelf, PayrollInv, PayrollTypeOK
  <2>3. QED
    BY <1>3, <2>1, <2>2, OfficerStep DEF CheckInSelf, Ask
<1>4. ASSUME NEW o \in Officers, CheckOutSelf(o, e) PROVE PayrollInv'
  <2> DEFINE r == [op |-> "checkOut", employee |-> e]
  <2>1. mark[e] \in Mark
    BY <1>4 DEF CheckOutSelf, PayrollInv, PayrollTypeOK, NoMark
  <2>2. r \in OfficerRequests /\ OfficerOK(r)
    BY <2>1 DEF OfficerRequests, OfficerOK
  <2>3. active' \subseteq Employees
    BY <1>4 DEF CheckOutSelf, PayrollInv, PayrollTypeOK
  <2>4. QED
    BY <1>4, <2>2, <2>3, OfficerStep DEF CheckOutSelf, Ask
<1>5. QED
  BY <1>1, <1>2, <1>3, <1>4

LEMMA ClockSteps ==
  ASSUME PayrollInv, NEW o \in Officers, UpsertCheckIn(o) \/ ApplyCheckOut(o)
  PROVE  PayrollInv'
<1> DEFINE e == officer[o].employee
<1>1. CASE UpsertCheckIn(o)
  <2>1. e \in Employees
    BY <1>1, OfficerFields DEF UpsertCheckIn, PayrollInv
  <2>2. CheckedIn(e) \in Mark
    BY <2>1 DEF CheckedIn, PayrollInv, PayrollTypeOK, Mark
  <2>3. /\ mark' = [mark EXCEPT ![e] = CheckedIn(e)] /\ Done(o)
        /\ UNCHANGED <<active, structure, pay, stale>>
    BY <1>1 DEF UpsertCheckIn
  <2> HIDE DEF e
  <2>4. QED
    BY <2>1, <2>2, <2>3, DoneReleases, MarkWritten
<1>2. CASE ApplyCheckOut(o)
  <2> DEFINE new == [mark[e] EXCEPT !.out = TRUE]
  <2>1. e \in Employees /\ mark[e] \in Mark
    BY <1>2, OfficerFields DEF ApplyCheckOut, PayrollInv, OfficerOK
  <2>2. new \in Mark
    BY <2>1 DEF Mark
  <2>3. /\ mark' = [mark EXCEPT ![e] = new] /\ Done(o)
        /\ UNCHANGED <<active, structure, pay, stale>>
    BY <1>2 DEF ApplyCheckOut
  <2> HIDE DEF e, new
  <2>4. QED
    BY <2>1, <2>2, <2>3, DoneReleases, MarkWritten
<1>3. QED
  BY <1>1, <1>2

LEMMA StructureCheckSteps ==
  ASSUME PayrollInv, NEW o \in Officers,
         \/ \E e \in Employees, from \in Periods, rate \in Rates :
              \E to \in Periods \cup {Never} : CreateStructure(o, e, from, to, rate)
         \/ \E s \in StructureIds :
              \/ DeactivateStructure(o, s)
              \/ \E from \in Periods, to \in Periods \cup {Never} :
                   UpdateStructure(o, s, from, to)
  PROVE  PayrollInv'
<1>1. Periods \cup {Never} \subseteq Int \cup {Never}
  BY PeriodsAssumption
<1>2. ASSUME NEW e \in Employees, NEW from \in Periods, NEW rate \in Rates,
             NEW to \in Periods \cup {Never}, CreateStructure(o, e, from, to, rate)
      PROVE  PayrollInv'
  <2> DEFINE open == Latest({s \in StructuresOf(e) :
                               structure[s].active /\ structure[s].to = Never})
             row == [employee |-> e, active |-> TRUE, from |-> from, to |-> to, rate |-> rate]
             r == [op |-> "create", open |-> open, row |-> row]
  <2>1. row \in Structure
    BY <1>1 DEF Structure
  <2>2. open \subseteq StructureIds /\ \A s \in open : structure[s] \in Structure
    BY StructureFields DEF Latest, StructuresOf, PayrollInv
  <2>3. r \in OfficerRequests /\ OfficerOK(r)
    <3> HIDE DEF row, open
    <3>1. QED
      BY <2>1, <2>2 DEF OfficerRequests, OfficerOK
  <2>4. /\ officer' = [officer EXCEPT ![o] = r] /\ active' \subseteq Employees
        /\ UNCHANGED <<mark, structure, pay, stale>>
    BY <1>2 DEF CreateStructure, Ask, PayrollInv, PayrollTypeOK
  <2> HIDE DEF r
  <2>5. QED
    BY <2>3, <2>4, OfficerStep
<1>3. ASSUME NEW s \in StructureIds, DeactivateStructure(o, s) PROVE PayrollInv'
  <2> DEFINE r == [op |-> "deactivate", id |-> s]
  <2>1. structure[s] \in Structure
    BY <1>3, StructureFields DEF DeactivateStructure, PayrollInv
  <2>2. r \in OfficerRequests /\ OfficerOK(r)
    BY <2>1 DEF OfficerRequests, OfficerOK
  <2>3. active' \subseteq Employees
    BY <1>3 DEF DeactivateStructure, PayrollInv, PayrollTypeOK
  <2>4. QED
    BY <1>3, <2>2, <2>3, OfficerStep DEF DeactivateStructure, Ask
<1>4. ASSUME NEW s \in StructureIds, NEW from \in Periods, NEW to \in Periods \cup {Never},
             UpdateStructure(o, s, from, to)
      PROVE  PayrollInv'
  <2> DEFINE r == [op |-> "update", id |-> s, from |-> from, to |-> to]
  <2>1. structure[s] \in Structure
    BY <1>4, StructureFields DEF UpdateStructure, PayrollInv
  <2>2. r \in OfficerRequests /\ OfficerOK(r)
    BY <1>1, <2>1 DEF OfficerRequests, OfficerOK
  <2>3. active' \subseteq Employees
    BY <1>4 DEF UpdateStructure, PayrollInv, PayrollTypeOK
  <2>4. QED
    BY <1>4, <2>2, <2>3, OfficerStep DEF UpdateStructure, Ask
<1>5. QED
  BY <1>2, <1>3, <1>4

LEMMA InsertStructureStep ==
  ASSUME PayrollInv, NEW o \in Officers, NEW s \in StructureIds, InsertStructure(o, s)
  PROVE  PayrollInv'
<1> DEFINE r == officer[o]
           opened == [structure EXCEPT ![s] = r.row]
<1>1. /\ Done(o) /\ UNCHANGED <<active, mark, pay, stale>>
      /\ \/ r.open = {} /\ structure' = opened
         \/ \E t \in r.open :
              structure' = [opened EXCEPT ![t].active = FALSE, ![t].to = r.row.from - 1]
  BY DEF InsertStructure
<1>2. r.open \subseteq StructureIds /\ r.row \in Structure
      /\ \A t \in r.open : structure[t] \in Structure
  BY OfficerFields DEF InsertStructure, PayrollInv, OfficerOK
<1>3. r.row.from - 1 \in Int
  <2>1. r.row.from \in Periods
    BY <1>2 DEF Structure
  <2>2. Periods \subseteq Int
    BY PeriodsAssumption
  <2>3. PICK from \in Int : from = r.row.from
    BY <2>1, <2>2
  <2>4. from - 1 \in Int
    OBVIOUS
  <2>5. QED
    BY <2>3, <2>4
<1>4. /\ opened \in [StructureIds -> Structure \cup {NoStructure}]
      /\ \A t \in StructureIds : structure[t] \in Structure => opened[t] \in Structure
  BY <1>2 DEF PayrollInv, PayrollTypeOK
<1> HIDE DEF opened
<1>5. CASE structure' = opened
  BY <1>1, <1>4, <1>5, DoneReleases, StructureWritten
<1>6. ASSUME NEW t \in r.open,
             structure' = [opened EXCEPT ![t].active = FALSE, ![t].to = r.row.from - 1]
      PROVE  PayrollInv'
  <2> DEFINE new == [opened[t] EXCEPT !.active = FALSE, !.to = r.row.from - 1]
  <2>1. opened[t] \in Structure /\ t \in StructureIds
    BY <1>2, <1>4
  <2>2. new \in Structure
    BY <2>1, <1>3 DEF Structure
  <2>3. structure' = [opened EXCEPT ![t] = new]
    BY <1>6, <2>1, <1>4
  <2> HIDE DEF new
  <2>4. /\ structure' \in [StructureIds -> Structure \cup {NoStructure}]
        /\ \A u \in StructureIds : structure[u] \in Structure => structure'[u] \in Structure
    BY <2>1, <2>2, <2>3, <1>4
  <2>5. QED
    BY <1>1, <2>4, DoneReleases, StructureWritten
<1>7. QED
  BY <1>1, <1>5, <1>6

LEMMA StructureWriteSteps ==
  ASSUME PayrollInv, NEW o \in Officers, WriteStructure(o) \/ CloseStructure(o)
  PROVE  PayrollInv'
<1> DEFINE s == officer[o].id
<1>1. ASSUME NEW new \in Structure, s \in StructureIds, structure' = [structure EXCEPT ![s] = new],
             Done(o), UNCHANGED <<active, mark, pay, stale>>
      PROVE  PayrollInv'
  <2> HIDE DEF s
  <2>1. /\ structure' \in [StructureIds -> Structure \cup {NoStructure}]
        /\ \A u \in StructureIds : structure[u] \in Structure => structure'[u] \in Structure
    BY <1>1 DEF PayrollInv, PayrollTypeOK
  <2>2. QED
    BY <1>1, <2>1, DoneReleases, StructureWritten
<1>2. CASE WriteStructure(o)
  <2> DEFINE new == [structure[s] EXCEPT !.from = officer[o].from, !.to = officer[o].to]
  <2>1. /\ s \in StructureIds /\ structure[s] \in Structure
        /\ officer[o].from \in Periods /\ officer[o].to \in Int \cup {Never}
    BY <1>2, OfficerFields DEF WriteStructure, PayrollInv, OfficerOK
  <2>2. new \in Structure
    BY <2>1 DEF Structure
  <2>3. structure' = [structure EXCEPT ![s] = new]
    BY <1>2, <2>1 DEF WriteStructure, PayrollInv, PayrollTypeOK
  <2>4. Done(o) /\ UNCHANGED <<active, mark, pay, stale>>
    BY <1>2 DEF WriteStructure
  <2> HIDE DEF new
  <2>5. QED
    BY <1>1, <2>1, <2>2, <2>3, <2>4
<1>3. CASE CloseStructure(o)
  <2> DEFINE new == [structure[s] EXCEPT !.active = FALSE, !.to = Today]
  <2>1. s \in StructureIds /\ structure[s] \in Structure /\ Today \in Int
    BY <1>3, OfficerFields, PeriodsAssumption DEF CloseStructure, PayrollInv, OfficerOK
  <2>2. new \in Structure
    BY <2>1 DEF Structure
  <2>3. structure' = [structure EXCEPT ![s] = new]
    BY <1>3, <2>1 DEF CloseStructure, PayrollInv, PayrollTypeOK
  <2>4. Done(o) /\ UNCHANGED <<active, mark, pay, stale>>
    BY <1>3 DEF CloseStructure
  <2> HIDE DEF new
  <2>5. QED
    BY <1>1, <2>1, <2>2, <2>3, <2>4
<1>4. QED
  BY <1>2, <1>3

-----------------------------------------------------------------------------
\* A run takes the employees in order: there is always a next one.
LEMMA MinIn ==
  ASSUME NEW S, IsFiniteSet(S), S \subseteq Int, S # {}
  PROVE  Min(S) \in S
<1> DEFINE G == {T \in SUBSET S : T = {} \/ \E x \in T : \A y \in T : x <= y}
<1>1. ASSUME NEW T \in SUBSET S, \A U \in SUBSET T : U # T => U \in G
      PROVE  T \in G
  <2>1. CASE T = {}
    BY <2>1
  <2>2. CASE T # {}
    <3>1. PICK e \in T : TRUE
      BY <2>2
    <3>2. T \ {e} \in G
      BY <1>1, <3>1
    <3>3. CASE T \ {e} = {}
      BY <3>1, <3>3
    <3>4. CASE T \ {e} # {}
      <4>1. PICK x \in T \ {e} : \A y \in T \ {e} : x <= y
        BY <3>2, <3>4
      <4>2. CASE x <= e
        BY <4>1, <4>2
      <4>3. CASE ~(x <= e)
        <5>1. \A y \in T : e <= y
          BY <4>1, <4>3, <3>1
        <5>2. QED
          BY <3>1, <5>1
      <4>4. QED
        BY <4>2, <4>3
    <3>5. QED
      BY <3>3, <3>4
  <2>3. QED
    BY <2>1, <2>2
<1>2. \A T \in SUBSET S : T \in G
  <2> HIDE DEF G
  <2>1. QED
    BY <1>1, SubsetInduction
<1>3. \E x \in S : \A y \in S : x <= y
  BY <1>2
<1>4. QED
  BY <1>3 DEF Min

LEMMA NetIsNat ==
  ASSUME PayrollInv, NEW e \in Employees, NEW p \in Periods, NEW s \in InEffect(e, p)
  PROVE  Net(e, p, s) \in Nat
<1>1. structure[s].rate \in Nat
  <2>1. structure[s] \in Structure
    BY StructureFields DEF InEffect, Latest, StructuresOf, PayrollInv
  <2>2. QED
    BY <2>1, RatesAssumption DEF Structure
<1> DEFINE n == IF p # Today THEN 0
                ELSE CASE mark[e].status = "Present" -> 2
                       [] mark[e].status = "Half_Day" -> 1
                       [] OTHER -> 0
<1>2. n \in {0, 1, 2}
  OBVIOUS
<1>3. Net(e, p, s) = structure[s].rate * n
  BY DEF Net
<1> HIDE DEF n
<1>4. QED
  BY <1>1, <1>2, <1>3

LEMMA GenerateStep ==
  ASSUME PayrollInv, NEW o \in Officers, NEW p \in Periods, Generate(o, p)
  PROVE  PayrollInv'
<1> DEFINE r == [op |-> "generate", period |-> p, left |-> active, drafts |-> {}]
<1>1. r \in OfficerRequests /\ OfficerOK(r)
  BY DEF OfficerRequests, OfficerOK, PayrollInv, PayrollTypeOK
<1>2. active' \subseteq Employees
  BY DEF Generate, PayrollInv, PayrollTypeOK
<1>3. QED
  BY <1>1, <1>2, OfficerStep DEF Generate, Ask

LEMMA GenerateRowStep ==
  ASSUME PayrollInv, NEW o \in Officers, GenerateRow(o)
  PROVE  PayrollInv'
<1> DEFINE r == officer[o]
           e == Min(r.left)
           row == pay[e][r.period]
           left == r.left \ {e}
<1>1. r.op = "generate" /\ r.left # {} /\ UNCHANGED <<active, mark, structure, pay, stale>>
  BY DEF GenerateRow
<1>2. /\ r.period \in Periods /\ r.left \subseteq Employees /\ r.drafts \subseteq Draft
      /\ \A d \in r.drafts : Undecided(d.employee, r.period)
      /\ r \in OfficerRequests
  BY <1>1, OfficerFields DEF PayrollInv, PayrollTypeOK, OfficerOK
<1>3. e \in r.left /\ e \in Employees
  <2>1. IsFiniteSet(r.left) /\ r.left \subseteq Int
    BY <1>2, PeriodsAssumption, FS_Subset
  <2>2. QED
    BY <1>1, <1>2, <2>1, MinIn
<1>4. active' \subseteq Employees
  BY <1>1 DEF PayrollInv, PayrollTypeOK
<1>5. row \in Pay \cup {NoPay}
  BY <1>2, <1>3, PayFields DEF PayrollInv
<1>6. \/ Go(o, [r EXCEPT !.left = left])
      \/ /\ MayRegenerate(row)
         /\ \E s \in InEffect(e, r.period) :
              Go(o, [op |-> "save", period |-> r.period, left |-> left,
                     drafts |-> r.drafts, seen |-> row,
                     next |-> [employee |-> e, new |-> row = NoPay,
                               net |-> Net(e, r.period, s)]])
      \/ Go(o, Resting)
  BY DEF GenerateRow, Done
<1>7. CASE Go(o, [r EXCEPT !.left = left])
  <2> DEFINE q == [op |-> "generate", period |-> r.period, left |-> left, drafts |-> r.drafts]
  <2>1. [r EXCEPT !.left = left] = q
    <3>1. r \in [op : {"generate"}, period : Periods, left : SUBSET Employees,
                 drafts : SUBSET Draft]
      BY <1>1, <1>2 DEF OfficerRequests, Resting
    <3> HIDE DEF left, r
    <3>2. QED
      BY <3>1
  <2>2. q \in OfficerRequests /\ OfficerOK(q)
    BY <1>2 DEF OfficerRequests, OfficerOK
  <2> HIDE DEF q
  <2>3. QED
    BY <1>1, <1>4, <1>7, <2>1, <2>2, OfficerStep DEF Go
<1>8. ASSUME MayRegenerate(row), NEW s \in InEffect(e, r.period),
             Go(o, [op |-> "save", period |-> r.period, left |-> left,
                    drafts |-> r.drafts, seen |-> row,
                    next |-> [employee |-> e, new |-> row = NoPay,
                              net |-> Net(e, r.period, s)]])
      PROVE  PayrollInv'
  <2> DEFINE next == [employee |-> e, new |-> row = NoPay, net |-> Net(e, r.period, s)]
             q == [op |-> "save", period |-> r.period, left |-> left,
                   drafts |-> r.drafts, seen |-> row, next |-> next]
  <2>1. next \in Draft
    <3>1. Net(e, r.period, s) \in Nat
      <4> HIDE DEF e, r
      <4>1. QED
        BY <1>2, <1>3, <1>8, NetIsNat
    <3> HIDE DEF e, r, row
    <3>2. QED
      BY <1>3, <3>1 DEF Draft
  <2>2. q \in OfficerRequests /\ OfficerOK(q)
    <3> HIDE DEF next, e, r, row
    <3>1. left \subseteq Employees
      BY <1>2
    <3> HIDE DEF left
    <3>2. QED
      BY <1>2, <1>5, <1>8, <2>1, <3>1 DEF OfficerRequests, OfficerOK, MayRegenerate
  <2>3. officer' = [officer EXCEPT ![o] = q]
    BY <1>8 DEF Go
  <2> HIDE DEF q
  <2>4. QED
    BY <1>1, <1>4, <2>2, <2>3, OfficerStep
<1>9. CASE Go(o, Resting)
  BY <1>1, <1>4, <1>9, RestingOK, OfficerStep DEF Go
<1>10. QED
  BY <1>6, <1>7, <1>8, <1>9

LEMMA SaveRowStep ==
  ASSUME PayrollInv, NEW o \in Officers, SaveRow(o), NEW r, r = officer[o]
  PROVE  PayrollInv'
<1> DEFINE e == r.next.employee
           p == r.period
           q == [op |-> "generate", period |-> p, left |-> r.left,
                 drafts |-> r.drafts \cup {r.next}]
<1>1. r.op = "save" /\ UNCHANGED <<active, mark, structure, pay>>
  BY DEF SaveRow
<1>2. /\ p \in Periods /\ r.left \subseteq Employees /\ r.drafts \subseteq Draft
      /\ r.next \in Draft /\ e \in Employees /\ r.seen.status \in {"none", "Pending"}
      /\ \A d \in r.drafts : Undecided(d.employee, p)
  BY <1>1, OfficerFields DEF PayrollInv, OfficerOK, Draft
<1>3. CASE Done(o) /\ UNCHANGED stale
  BY <1>1, <1>3, RestingOK, OfficerStep DEF Done, Go, PayrollInv, PayrollTypeOK
<1>4. CASE /\ Go(o, q)
           /\ stale' = IF pay[e][p] = r.seen THEN stale ELSE stale \cup {<<e, p>>}
  <2> DEFINE seen == r.seen
             next == r.next
  <2>1. q \in OfficerRequests
    BY <1>2 DEF OfficerRequests
  <2>2. /\ officer' = [officer EXCEPT ![o] = q] /\ stale \subseteq stale'
        /\ stale' \subseteq Employees \X Periods
    BY <1>2, <1>4 DEF Go, PayrollInv, PayrollTypeOK
  <2>3. Undecided(e, p)'
    BY <1>1, <1>2, <1>4 DEF Undecided
  <2>4. \A f \in Employees, t \in Periods : Undecided(f, t) => Undecided(f, t)'
    BY <1>1, <2>2 DEF Undecided
  <2>5. OfficerOK(q)'
    <3>1. \A d \in q.drafts : Undecided(d.employee, q.period)'
      BY <1>2, <2>3, <2>4 DEF Draft
    <3>2. q.op = "generate"
      OBVIOUS
    <3> HIDE DEF q
    <3>3. QED
      BY <3>1, <3>2 DEF OfficerOK
  <2> HIDE DEF q
  <2>6. PayrollTypeOK'
    BY <1>1, <2>1, <2>2 DEF PayrollInv, PayrollTypeOK
  <2>7. ASSUME NEW n \in Officers PROVE OfficerOK(officer[n])'
    <3>1. CASE n = o
      <4>1. officer'[n] = q
        BY <3>1, <2>2 DEF PayrollInv, PayrollTypeOK
      <4>2. QED
        BY <4>1, <2>5 DEF OfficerOK
    <3>2. CASE n # o
      <4>1. officer'[n] = officer[n] /\ OfficerOK(officer[n])
        BY <3>2, <2>2 DEF PayrollInv, PayrollTypeOK
      <4>2. QED
        BY <4>1, <1>1, <2>2 DEF OfficerOK, Undecided
    <3>3. QED
      BY <3>1, <3>2
  <2>8. QED
    BY <2>6, <2>7 DEF PayrollInv
<1>5. QED
  BY <1>3, <1>4 DEF SaveRow

LEMMA GenerateCommitStep ==
  ASSUME PayrollInv, NEW o \in Officers, GenerateCommit(o), NEW r, r = officer[o]
  PROVE  /\ PayrollInv'
         /\ \A e \in Employees, p \in Periods :
              pay[e][p].status = "Paid" /\ <<e, p>> \notin stale' => pay'[e][p] = pay[e][p]
<1> DEFINE taken(e, p) == p = r.period /\ \E d \in r.drafts : d.employee = e
           row(e) == [status |-> "Pending", net |-> (CHOOSE d \in r.drafts : d.employee = e).net]
<1>1. /\ pay' = [e \in Employees |-> [p \in Periods |->
                   IF taken(e, p) THEN row(e) ELSE pay[e][p]]]
      /\ Done(o) /\ UNCHANGED <<active, mark, structure, stale>>
      /\ r.op = "generate"
  BY DEF GenerateCommit
<1>2. r.drafts \subseteq Draft /\ \A d \in r.drafts : Undecided(d.employee, r.period)
  BY <1>1, OfficerFields DEF PayrollInv, OfficerOK
<1>3. \A e \in Employees, p \in Periods : taken(e, p) => row(e) \in Pay
  BY <1>2 DEF Draft, Pay, PayStatuses
<1>4. \A e \in Employees, p \in Periods : taken(e, p) => Undecided(e, p)
  BY <1>2
<1>5. \A e \in Employees, p \in Periods : row(e).status = "Pending"
  OBVIOUS
<1> HIDE DEF taken, row
<1>6. \A e \in Employees, p \in Periods :
        pay'[e][p] = IF taken(e, p) THEN row(e) ELSE pay[e][p]
  BY <1>1
<1>7. pay' \in [Employees -> [Periods -> Pay \cup {NoPay}]]
  BY <1>1, <1>3, PayFields DEF PayrollInv
<1>8. PayrollTypeOK'
  BY <1>1, <1>7, DoneReleases DEF PayrollInv, PayrollTypeOK
<1>9. \A e \in Employees, p \in Periods :
        /\ pay[e][p] \in Pay => pay'[e][p] \in Pay
        /\ Undecided(e, p) => Undecided(e, p)'
  BY <1>1, <1>3, <1>5, <1>6 DEF Undecided
<1>10. ASSUME NEW n \in Officers PROVE OfficerOK(officer[n])'
  <2>1. CASE officer'[n] = Resting
    BY <2>1 DEF Resting, OfficerOK
  <2>2. CASE officer'[n] = officer[n]
    <3>1. OfficerOK(officer[n])
      BY DEF PayrollInv
    <3>2. PICK q : q = officer[n]
      OBVIOUS
    <3>3. q.op \in {"generate", "save"} =>
            \A d \in q.drafts : Undecided(d.employee, q.period)'
      BY <3>1, <3>2, <1>9, OfficerFields DEF PayrollInv, OfficerOK, Draft
    <3>4. q.op = "decide" => pay'[q.employee][q.period] \in Pay
      BY <3>1, <3>2, <1>9, OfficerFields DEF PayrollInv, OfficerOK
    <3>5. QED
      BY <2>2, <3>1, <3>2, <3>3, <3>4, <1>1 DEF OfficerOK
  <2>3. QED
    BY <2>1, <2>2, <1>1, DoneReleases DEF Released
<1>11. ASSUME NEW e \in Employees, NEW p \in Periods,
              pay[e][p].status = "Paid", <<e, p>> \notin stale'
       PROVE  pay'[e][p] = pay[e][p]
  <2>1. ~taken(e, p)
    BY <1>1, <1>4, <1>11 DEF Undecided
  <2>2. QED
    BY <1>6, <2>1
<1>12. QED
  BY <1>8, <1>10, <1>11 DEF PayrollInv

LEMMA DecideSteps ==
  ASSUME PayrollInv, NEW o \in Officers, NEW e \in Employees, NEW p \in Periods,
         ApprovePay(o, e, p) \/ MarkPaid(o, e, p) \/ CancelPay(o, e, p)
  PROVE  PayrollInv'
<1>1. PICK statuses \in SUBSET {"Pending", "Approved"}, to \in PayStatuses :
        Decide(o, e, p, statuses, to)
  BY DEF ApprovePay, MarkPaid, CancelPay, PayStatuses
<1> DEFINE r == [op |-> "decide", employee |-> e, period |-> p, to |-> to, seen |-> pay[e][p]]
<1>2. pay[e][p].status \in {"Pending", "Approved"} /\ pay[e][p] \in Pay
  BY <1>1, PayFields DEF Decide, PayrollInv, PayStatuses
<1>3. r \in OfficerRequests /\ OfficerOK(r)
  BY <1>2 DEF OfficerRequests, OfficerOK
<1>4. /\ officer' = [officer EXCEPT ![o] = r] /\ active' \subseteq Employees
      /\ UNCHANGED <<mark, structure, pay, stale>>
  BY <1>1 DEF Decide, Ask, PayrollInv, PayrollTypeOK
<1> HIDE DEF r
<1>5. QED
  BY <1>3, <1>4, OfficerStep

LEMMA UpdatePayStep ==
  ASSUME PayrollInv, NEW o \in Officers, UpdatePay(o)
  PROVE  /\ PayrollInv'
         /\ \A e \in Employees, p \in Periods :
              pay[e][p].status = "Paid" /\ <<e, p>> \notin stale' => pay'[e][p] = pay[e][p]
<1> DEFINE r == officer[o]
           k == r.employee
           t == r.period
           row == [pay[k][t] EXCEPT !.status = r.to]
<1>1. /\ r.op = "decide" /\ ~Locked(k, t) /\ Done(o)
      /\ pay' = [pay EXCEPT ![k][t].status = r.to]
      /\ stale' = IF pay[k][t] = r.seen THEN stale ELSE stale \cup {<<k, t>>}
      /\ UNCHANGED <<active, mark, structure>>
  BY DEF UpdatePay
<1>2. /\ k \in Employees /\ t \in Periods /\ r.to \in PayStatuses /\ r.seen \in Pay
      /\ pay[k][t] \in Pay /\ r.seen.status # "Paid"
  BY <1>1, OfficerFields DEF PayrollInv, OfficerOK
<1>3. row \in Pay
  BY <1>2 DEF Pay
<1>4. pay \in [Employees -> [Periods -> Pay \cup {NoPay}]]
  BY DEF PayrollInv, PayrollTypeOK
<1>5. pay' = [pay EXCEPT ![k] = [pay[k] EXCEPT ![t] = row]]
  BY <1>1, <1>2, <1>4
<1>6. stale \subseteq stale' /\ stale' \subseteq Employees \X Periods
  BY <1>1, <1>2 DEF PayrollInv, PayrollTypeOK
<1>7. pay[k][t].status = "Paid" => <<k, t>> \in stale'
  BY <1>1, <1>2
<1> HIDE DEF row, r
<1>8. /\ pay' \in [Employees -> [Periods -> Pay \cup {NoPay}]]
      /\ \A e \in Employees, p \in Periods :
           pay'[e][p] = IF e = k /\ p = t THEN row ELSE pay[e][p]
  BY <1>2, <1>3, <1>4, <1>5
<1>9. PayrollTypeOK'
  BY <1>1, <1>6, <1>8, DoneReleases DEF PayrollInv, PayrollTypeOK
<1>10. ASSUME NEW n \in Officers PROVE OfficerOK(officer[n])'
  <2>1. CASE officer'[n] = Resting
    BY <2>1 DEF Resting, OfficerOK
  <2>2. CASE officer'[n] = officer[n]
    <3>1. OfficerOK(officer[n])
      BY DEF PayrollInv
    <3>2. officer[n].op \in {"generate", "save"} =>
            \A d \in officer[n].drafts : Undecided(d.employee, officer[n].period)'
      <4> SUFFICES ASSUME officer[n].op \in {"generate", "save"}, NEW d \in officer[n].drafts
                   PROVE  Undecided(d.employee, officer[n].period)'
        OBVIOUS
      <4>1. d.employee \in Employees /\ officer[n].period \in Periods
        BY OfficerFields DEF PayrollInv, Draft
      <4>2. Undecided(d.employee, officer[n].period)
        BY <3>1 DEF OfficerOK
      <4>3. ~(d.employee = k /\ officer[n].period = t)
        BY <1>1 DEF Locked
      <4>4. pay'[d.employee][officer[n].period] = pay[d.employee][officer[n].period]
        BY <1>8, <4>1, <4>3
      <4>5. QED
        BY <2>2, <4>2, <4>4, <1>6 DEF Undecided
    <3>3. officer[n].op = "decide" => pay'[officer[n].employee][officer[n].period] \in Pay
      BY <3>1, <1>3, <1>8, OfficerFields DEF PayrollInv, OfficerOK
    <3>4. QED
      BY <2>2, <3>1, <3>2, <3>3, <1>1 DEF OfficerOK, Undecided
  <2>3. QED
    BY <2>1, <2>2, <1>1, DoneReleases DEF Released
<1>11. QED
  BY <1>7, <1>8, <1>9, <1>10 DEF PayrollInv

LEMMA PayrollStep == PayrollInv /\ PayrollNext => PayrollInv'
<1> SUFFICES ASSUME PayrollInv, PayrollNext PROVE PayrollInv'
  OBVIOUS
<1>1. ASSUME NEW e \in Employees, Terminate(e) \/ \E row \in Grid : MarkGrid(e, row)
      PROVE  PayrollInv'
  BY <1>1, SimplePayrollSteps
<1>2. ASSUME NEW o \in Officers, NEW e \in Employees, CheckInSelf(o, e) \/ CheckOutSelf(o, e)
      PROVE  PayrollInv'
  BY <1>2, SimplePayrollSteps
<1>3. ASSUME NEW o \in Officers, NEW e \in Employees, NEW from \in Periods, NEW rate \in Rates,
             NEW to \in Periods \cup {Never}, CreateStructure(o, e, from, to, rate)
      PROVE  PayrollInv'
  BY <1>3, StructureCheckSteps
<1>4. ASSUME NEW o \in Officers, NEW s \in StructureIds,
             \/ InsertStructure(o, s) \/ DeactivateStructure(o, s)
             \/ \E from \in Periods, to \in Periods \cup {Never} : UpdateStructure(o, s, from, to)
      PROVE  PayrollInv'
  BY <1>4, StructureCheckSteps, InsertStructureStep
<1>5. ASSUME NEW o \in Officers,
             \/ UpsertCheckIn(o) \/ ApplyCheckOut(o) \/ WriteStructure(o) \/ CloseStructure(o)
             \/ GenerateRow(o) \/ SaveRow(o) \/ GenerateCommit(o) \/ UpdatePay(o)
      PROVE  PayrollInv'
  BY <1>5, ClockSteps, StructureWriteSteps, GenerateRowStep, SaveRowStep, GenerateCommitStep,
     UpdatePayStep
<1>6. ASSUME NEW o \in Officers, NEW p \in Periods, Generate(o, p)
      PROVE  PayrollInv'
  BY <1>6, GenerateStep
<1>7. ASSUME NEW o \in Officers, NEW e \in Employees, NEW p \in Periods,
             ApprovePay(o, e, p) \/ MarkPaid(o, e, p) \/ CancelPay(o, e, p)
      PROVE  PayrollInv'
  BY <1>7, DecideSteps
<1>8. QED
  BY <1>1, <1>2, <1>3, <1>4, <1>5, <1>6, <1>7 DEF PayrollNext

\* A paid row changes only at the hands of one who read it before.
LEMMA PaidStep ==
  ASSUME PayrollInv, PayrollNext
  PROVE  \A e \in Employees, p \in Periods :
           pay[e][p].status = "Paid" /\ <<e, p>> \notin stale' => pay'[e][p] = pay[e][p]
<1>1. ASSUME NEW o \in Officers, GenerateCommit(o) \/ UpdatePay(o)
      PROVE  \A e \in Employees, p \in Periods :
               pay[e][p].status = "Paid" /\ <<e, p>> \notin stale' => pay'[e][p] = pay[e][p]
  BY <1>1, GenerateCommitStep, UpdatePayStep
<1>2. PayrollNext => UNCHANGED pay \/ \E o \in Officers : GenerateCommit(o) \/ UpdatePay(o)
  BY DEF PayrollNext, Terminate, MarkGrid, CheckInSelf, CheckOutSelf, UpsertCheckIn,
         ApplyCheckOut, CreateStructure, InsertStructure, DeactivateStructure, UpdateStructure,
         WriteStructure, CloseStructure, Generate, GenerateRow, SaveRow, ApprovePay, MarkPaid,
         CancelPay, Decide
<1>3. QED
  BY <1>1, <1>2

\* A mark is given another status by managers only.
LEMMA MarkStep ==
  ASSUME PayrollInv, PayrollNext
  PROVE  \A e \in Employees :
           mark[e] # NoMark /\ mark'[e].status # mark[e].status => mark'[e].by = "Manager"
<1>1. ASSUME NEW f \in Employees, NEW row \in Grid, MarkGrid(f, row), NEW e \in Employees
      PROVE  mark'[e].status # mark[e].status => mark'[e].by = "Manager"
  <2>1. mark' = [mark EXCEPT ![f] =
          [status |-> row.status, in |-> row.in, out |-> row.out, by |-> "Manager"]]
    BY <1>1 DEF MarkGrid
  <2>2. QED
    BY <2>1 DEF PayrollInv, PayrollTypeOK
<1>2. ASSUME NEW o \in Officers, UpsertCheckIn(o) \/ ApplyCheckOut(o), NEW e \in Employees,
             mark[e] # NoMark
      PROVE  mark'[e].status = mark[e].status
  <2> DEFINE k == officer[o].employee
  <2>1. k \in Employees
    BY <1>2, OfficerFields DEF UpsertCheckIn, ApplyCheckOut, PayrollInv
  <2>2. mark[e] \in Mark
    BY <1>2 DEF PayrollInv, PayrollTypeOK
  <2>3. CASE UpsertCheckIn(o)
    <3>1. mark' = [mark EXCEPT ![k] = CheckedIn(k)]
      BY <2>3 DEF UpsertCheckIn
    <3>2. CheckedIn(e).status = mark[e].status
      BY <1>2, <2>2 DEF CheckedIn, Mark
    <3> HIDE DEF k
    <3>3. QED
      BY <2>1, <3>1, <3>2 DEF PayrollInv, PayrollTypeOK
  <2>4. CASE ApplyCheckOut(o)
    <3>1. mark' = [mark EXCEPT ![k] = [mark[k] EXCEPT !.out = TRUE]]
      BY <2>4 DEF ApplyCheckOut
    <3>2. [mark[e] EXCEPT !.out = TRUE].status = mark[e].status
      BY <2>2 DEF Mark
    <3> HIDE DEF k
    <3>3. QED
      BY <2>1, <3>1, <3>2 DEF PayrollInv, PayrollTypeOK
  <2>5. QED
    BY <1>2, <2>3, <2>4
<1>3. PayrollNext =>
        \/ UNCHANGED mark
        \/ \E f \in Employees, row \in Grid : MarkGrid(f, row)
        \/ \E o \in Officers : UpsertCheckIn(o) \/ ApplyCheckOut(o)
  BY DEF PayrollNext, Terminate, CheckInSelf, CheckOutSelf, CreateStructure, InsertStructure,
         DeactivateStructure, UpdateStructure, WriteStructure, CloseStructure, Generate,
         GenerateRow, SaveRow, GenerateCommit, ApprovePay, MarkPaid, CancelPay, Decide, UpdatePay
<1>4. QED
  BY <1>1, <1>2, <1>3

-----------------------------------------------------------------------------
(***************************************************************************)
(* Accounting.                                                             *)
(***************************************************************************)

\* A month that is answered is in the table, in what every load read that no
\* answer has overtaken, and in the cache as long as it is fresh and holds
\* what such a load read.
AccountingInv ==
  /\ AccountingTypeOK
  /\ answered \subseteq locks
  /\ \A c \in Accountants :
       clerk[c].op = "load" /\ ~clerk[c].old => answered \subseteq clerk[c].rows
  /\ fresh /\ ~overtaken => answered \subseteq lockedSet

LEMMA AwayOK == Away \in ClerkRequests /\ Away.op = "away"
BY DEF Away, ClerkRequests

LEMMA ClerkFields ==
  ASSUME AccountingTypeOK, NEW c \in Accountants
  PROVE  /\ clerk[c].op \in {"lock", "lockBust", "unlockBust"} => clerk[c].month \in Months
         /\ clerk[c].op \in {"assert", "post", "load"} => /\ clerk[c].month \in Months
                                                          /\ clerk[c].task \in Tasks
         /\ clerk[c].op = "load" => /\ clerk[c].rows \in SUBSET Months
                                    /\ clerk[c].old \in BOOLEAN
         /\ clerk[c].op \in {"deleteEntry", "deleteExpense"} => clerk[c].id \in Expenses
         /\ clerk[c].op = "review" => /\ clerk[c].id \in Expenses
                                      /\ clerk[c].to \in {"approved", "rejected"}
<1>1. clerk[c] \in ClerkRequests
  BY DEF AccountingTypeOK
<1>2. QED
  BY <1>1 DEF ClerkRequests, Away

LEMMA AccountingInitInv == AccountingInit => AccountingInv
<1> SUFFICES ASSUME AccountingInit PROVE AccountingInv
  OBVIOUS
<1>1. expense \in [Expenses -> ExpenseStatuses] /\ debits \in [Expenses -> Nat]
  BY DEF AccountingInit, ExpenseStatuses
<1>2. clerk \in [Accountants -> ClerkRequests] /\ \A c \in Accountants : clerk[c].op = "away"
  BY AwayOK DEF AccountingInit
<1>3. AccountingTypeOK
  BY <1>1, <1>2 DEF AccountingInit, AccountingTypeOK
<1>4. QED
  BY <1>2, <1>3 DEF AccountingInit, AccountingInv

LEMMA AccountingStutter == AccountingInv /\ UNCHANGED accounting => AccountingInv'
BY DEF AccountingInv, accounting, calendar, ledger, AccountingTypeOK

\* A step that changes the books and one request, which is no load.
LEMMA ClerkStep ==
  ASSUME AccountingInv, NEW c \in Accountants, NEW r \in ClerkRequests, r.op # "load", Then(c, r),
         expense' \in [Expenses -> ExpenseStatuses], debits' \in [Expenses -> Nat],
         vouchers' \in Nat, UNCHANGED calendar
  PROVE  AccountingInv'
BY DEF AccountingInv, AccountingTypeOK, Then, calendar

LEMMA LockSteps ==
  ASSUME AccountingInv, NEW c \in Accountants,
         \/ InsertLock(c) \/ BustCache(c)
         \/ \E m \in Months : LockPeriod(c, m) \/ UnlockPeriod(c, m)
  PROVE  AccountingInv'
<1>1. ASSUME NEW m \in Months, LockPeriod(c, m) PROVE AccountingInv'
  <2> DEFINE r == [op |-> "lock", month |-> m]
  <2>1. r \in ClerkRequests /\ r.op # "load"
    BY DEF ClerkRequests
  <2>2. Then(c, r) /\ UNCHANGED <<calendar, ledger>>
    BY <1>1 DEF LockPeriod, Called
  <2> HIDE DEF r
  <2>3. QED
    BY <2>1, <2>2, ClerkStep DEF ledger, AccountingInv, AccountingTypeOK
<1>2. CASE InsertLock(c)
  <2> DEFINE m == clerk[c].month
  <2>1. PICK r \in {Away, [op |-> "lockBust", month |-> m]} : Then(c, r)
    BY <1>2 DEF InsertLock
  <2>2. m \in Months /\ locks' = locks \cup {m}
        /\ UNCHANGED <<lockedSet, fresh, answered, overtaken, ledger>>
    BY <1>2, ClerkFields DEF InsertLock, AccountingInv
  <2>3. r \in ClerkRequests /\ r.op # "load"
    BY <2>1, <2>2, AwayOK DEF ClerkRequests
  <2> HIDE DEF m
  <2>4. QED
    BY <2>1, <2>2, <2>3 DEF AccountingInv, AccountingTypeOK, Then, ledger
<1>3. ASSUME NEW m \in Months, UnlockPeriod(c, m) PROVE AccountingInv'
  <2> DEFINE r == [op |-> "unlockBust", month |-> m]
  <2>1. r \in ClerkRequests /\ r.op # "load"
    BY DEF ClerkRequests
  <2>2. /\ Then(c, r) /\ locks' = locks \ {m} /\ answered' = answered \ {m}
        /\ UNCHANGED <<lockedSet, fresh, overtaken, ledger>>
    BY <1>3 DEF UnlockPeriod, Called
  <2> HIDE DEF r
  <2>3. QED
    BY <2>1, <2>2 DEF AccountingInv, AccountingTypeOK, Then, ledger
<1>4. CASE BustCache(c)
  <2>1. /\ clerk[c].op \in {"lockBust", "unlockBust"} /\ fresh' = FALSE
        /\ answered' \subseteq answered \cup ({clerk[c].month} \cap locks)
        /\ clerk' = Overtake([clerk EXCEPT ![c] = Away])
        /\ UNCHANGED <<locks, lockedSet, overtaken, ledger>>
    BY <1>4 DEF BustCache, Busted
  <2>2. answered' \subseteq locks /\ answered' \subseteq Months
    BY <2>1 DEF AccountingInv, AccountingTypeOK
  <2>3. ASSUME NEW n \in Accountants
        PROVE  clerk'[n] \in ClerkRequests /\ (clerk'[n].op = "load" => clerk'[n].old = TRUE)
    <3> DEFINE q == [clerk EXCEPT ![c] = Away][n]
    <3>1. q \in ClerkRequests
      BY AwayOK DEF AccountingInv, AccountingTypeOK
    <3>2. clerk'[n] = IF q.op = "load" THEN [q EXCEPT !.old = TRUE] ELSE q
      BY <2>1 DEF Overtake
    <3> HIDE DEF q
    <3>3. CASE q.op = "load"
      <4>1. q \in [op : {"load"}, month : Months, task : Tasks, rows : SUBSET Months,
                   old : BOOLEAN]
        BY <3>1, <3>3 DEF ClerkRequests, Away
      <4>2. [q EXCEPT !.old = TRUE] \in [op : {"load"}, month : Months, task : Tasks,
                                          rows : SUBSET Months, old : BOOLEAN]
            /\ [q EXCEPT !.old = TRUE].old = TRUE
        BY <4>1
      <4>3. QED
        BY <3>2, <3>3, <4>2 DEF ClerkRequests
    <3>4. CASE q.op # "load"
      BY <3>1, <3>2, <3>4
    <3>5. QED
      BY <3>3, <3>4
  <2>4. clerk' \in [Accountants -> ClerkRequests]
    BY <2>1, <2>3 DEF Overtake
  <2>5. QED
    BY <2>1, <2>2, <2>3, <2>4 DEF AccountingInv, AccountingTypeOK, ledger
<1>5. QED
  BY <1>1, <1>2, <1>3, <1>4

LEMMA CacheSteps ==
  ASSUME AccountingInv,
         ExpireCache \/ \E c \in Accountants : LoadLocks(c) \/ AssertOpen(c) \/ AssertLoaded(c)
  PROVE  AccountingInv'
<1>1. CASE ExpireCache
  BY <1>1 DEF ExpireCache, AccountingInv, AccountingTypeOK, ledger
<1>2. ASSUME NEW c \in Accountants, LoadLocks(c) PROVE AccountingInv'
  <2> DEFINE r == [op |-> "load", month |-> clerk[c].month, task |-> clerk[c].task,
                   rows |-> locks, old |-> FALSE]
  <2>1. r \in ClerkRequests /\ r.rows = locks
    BY <1>2, ClerkFields DEF LoadLocks, AccountingInv, AccountingTypeOK, ClerkRequests
  <2>2. clerk' = [clerk EXCEPT ![c] = r] /\ UNCHANGED <<calendar, ledger>>
    BY <1>2 DEF LoadLocks, Then
  <2> HIDE DEF r
  <2>3. QED
    BY <2>1, <2>2 DEF AccountingInv, AccountingTypeOK, calendar, ledger
<1>3. ASSUME NEW c \in Accountants, NEW months, Judged(c, months),
             clerk[c].op \in {"assert", "load"}
      PROVE  \E r \in ClerkRequests : r.op # "load" /\ Then(c, r)
  <2> DEFINE r == [op |-> "post", month |-> clerk[c].month, task |-> clerk[c].task]
  <2>1. r \in ClerkRequests /\ r.op # "load"
    BY <1>3, ClerkFields DEF AccountingInv, ClerkRequests
  <2>2. Then(c, Away) \/ Then(c, r)
    BY <1>3 DEF Judged
  <2> HIDE DEF r
  <2>3. QED
    BY <2>1, <2>2, AwayOK
<1>4. ASSUME NEW c \in Accountants, AssertOpen(c) PROVE AccountingInv'
  <2>1. PICK r \in ClerkRequests : r.op # "load" /\ Then(c, r)
    BY <1>3, <1>4 DEF AssertOpen
  <2>2. QED
    BY <1>4, <2>1, ClerkStep DEF AssertOpen, ledger, AccountingInv, AccountingTypeOK
<1>5. ASSUME NEW c \in Accountants, AssertLoaded(c) PROVE AccountingInv'
  <2>1. PICK r \in ClerkRequests : r.op # "load" /\ Then(c, r)
    BY <1>3, <1>5 DEF AssertLoaded
  <2>2. /\ clerk[c].op = "load" /\ lockedSet' = clerk[c].rows /\ overtaken' = clerk[c].old
        /\ fresh' = TRUE /\ UNCHANGED <<locks, answered, ledger>>
    BY <1>5 DEF AssertLoaded
  <2>3. clerk[c].rows \in SUBSET Months /\ clerk[c].old \in BOOLEAN
    BY <2>2, ClerkFields DEF AccountingInv
  <2>4. QED
    BY <2>1, <2>2, <2>3 DEF AccountingInv, AccountingTypeOK, Then, ledger
<1>6. QED
  BY <1>1, <1>2, <1>4, <1>5

LEMMA BookSteps ==
  ASSUME AccountingInv, NEW c \in Accountants,
         \/ PostVoucherLine(c) \/ PostExpense(c)
         \/ DeleteEntry(c) \/ DeleteRow(c) \/ SaveReview(c)
         \/ \E m \in Months : CreateVoucher(c, m)
         \/ \E x \in Expenses :
              \/ CreateExpense(c, x) \/ DeleteExpense(c, x)
              \/ \E to \in {"approved", "rejected"} : ReviewExpense(c, x, to)
  PROVE  AccountingInv'
<1>1. /\ expense \in [Expenses -> ExpenseStatuses] /\ debits \in [Expenses -> Nat]
      /\ vouchers \in Nat
  BY DEF AccountingInv, AccountingTypeOK
<1>2. \A m \in Months, line \in 1 .. 2 :
        VoucherLine(m, line) \in ClerkRequests /\ VoucherLine(m, line).op # "load"
  BY DEF VoucherLine, ClerkRequests, Tasks
<1>3. ASSUME NEW m \in Months, CreateVoucher(c, m) PROVE AccountingInv'
  <2>1. Then(c, VoucherLine(m, 1)) /\ UNCHANGED <<calendar, ledger>>
    BY <1>3 DEF CreateVoucher, Called
  <2>2. QED
    BY <1>1, <1>2, <2>1, ClerkStep DEF ledger
<1>4. CASE PostVoucherLine(c)
  <2>1. clerk[c].month \in Months
    BY <1>4, ClerkFields DEF PostVoucherLine, AccountingInv
  <2>2. PICK r \in {Away, VoucherLine(clerk[c].month, 2)} : Then(c, r)
    BY <1>4 DEF PostVoucherLine
  <2>3. r \in ClerkRequests /\ r.op # "load"
    BY <1>2, <2>1, <2>2, AwayOK
  <2>4. vouchers' \in Nat /\ UNCHANGED <<calendar, expense, debits>>
    BY <1>1, <1>4 DEF PostVoucherLine
  <2>5. QED
    BY <1>1, <2>2, <2>3, <2>4, ClerkStep
<1>5. ASSUME NEW x \in Expenses, CreateExpense(c, x) PROVE AccountingInv'
  <2> DEFINE r == [op |-> "assert", month |-> ThisMonth,
                   task |-> [kind |-> "expense", id |-> x]]
  <2>1. r \in ClerkRequests /\ r.op # "load"
    BY MonthsAssumption DEF ClerkRequests, Tasks
  <2>2. Then(c, r) /\ UNCHANGED <<calendar, debits, vouchers>>
        /\ expense' = [expense EXCEPT ![x] = "pending"]
    BY <1>5 DEF CreateExpense, Called
  <2>3. expense' \in [Expenses -> ExpenseStatuses]
    BY <1>1, <2>2 DEF ExpenseStatuses
  <2> HIDE DEF r
  <2>4. QED
    BY <1>1, <2>1, <2>2, <2>3, ClerkStep
<1>6. CASE PostExpense(c)
  <2> DEFINE x == clerk[c].task.id
  <2>1. debits' = [debits EXCEPT ![x] = @ + 1] /\ Then(c, Away)
        /\ UNCHANGED <<calendar, expense, vouchers>>
    BY <1>6 DEF PostExpense
  <2>2. x \in Expenses
    BY <1>6, ClerkFields DEF PostExpense, AccountingInv, Tasks
  <2> HIDE DEF x
  <2>3. debits' \in [Expenses -> Nat]
    BY <1>1, <2>1, <2>2
  <2>4. QED
    BY <1>1, <2>1, <2>3, AwayOK, ClerkStep
<1>7. ASSUME NEW x \in Expenses, DeleteExpense(c, x) PROVE AccountingInv'
  <2> DEFINE r == [op |-> "deleteEntry", id |-> x]
  <2>1. r \in ClerkRequests /\ r.op # "load"
    BY DEF ClerkRequests
  <2>2. Then(c, r) /\ UNCHANGED <<calendar, ledger>>
    BY <1>7 DEF DeleteExpense, Called
  <2> HIDE DEF r
  <2>3. QED
    BY <1>1, <2>1, <2>2, ClerkStep DEF ledger
<1>8. CASE DeleteEntry(c)
  <2> DEFINE x == clerk[c].id
             r == [op |-> "deleteExpense", id |-> x]
  <2>1. x \in Expenses
    BY <1>8, ClerkFields DEF DeleteEntry, AccountingInv
  <2>2. [clerk[c] EXCEPT !.op = "deleteExpense"] = r
    <3>1. clerk[c] \in [op : {"deleteEntry", "deleteExpense"}, id : Expenses]
      BY <1>8 DEF DeleteEntry, AccountingInv, AccountingTypeOK, ClerkRequests, Away
    <3>2. QED
      BY <3>1
  <2>3. r \in ClerkRequests /\ r.op # "load"
    BY <2>1 DEF ClerkRequests
  <2>4. debits' = [debits EXCEPT ![x] = 0] /\ Then(c, r)
        /\ UNCHANGED <<calendar, expense, vouchers>>
    BY <1>8, <2>2 DEF DeleteEntry
  <2> HIDE DEF x, r
  <2>5. debits' \in [Expenses -> Nat]
    BY <1>1, <2>4
  <2>6. QED
    BY <1>1, <2>3, <2>4, <2>5, ClerkStep
<1>9. ASSUME NEW x \in Expenses, NEW to \in {"approved", "rejected"}, ReviewExpense(c, x, to)
      PROVE  AccountingInv'
  <2> DEFINE r == [op |-> "review", id |-> x, to |-> to]
  <2>1. r \in ClerkRequests /\ r.op # "load"
    BY DEF ClerkRequests
  <2>2. Then(c, r) /\ UNCHANGED <<calendar, ledger>>
    BY <1>9 DEF ReviewExpense, Called
  <2> HIDE DEF r
  <2>3. QED
    BY <1>1, <2>1, <2>2, ClerkStep DEF ledger
<1>10. ASSUME DeleteRow(c) \/ SaveReview(c) PROVE AccountingInv'
  <2>1. PICK status \in {"deleted", "approved", "rejected"} :
          expense' = [expense EXCEPT ![clerk[c].id] = status]
    BY <1>10, ClerkFields DEF DeleteRow, SaveReview, AccountingInv
  <2>2. expense' \in [Expenses -> ExpenseStatuses]
    BY <1>1, <2>1 DEF ExpenseStatuses
  <2>3. Then(c, Away) /\ UNCHANGED <<calendar, debits, vouchers>>
    BY <1>10 DEF DeleteRow, SaveReview
  <2>4. QED
    BY <1>1, <2>2, <2>3, AwayOK, ClerkStep
<1>11. QED
  BY <1>3, <1>4, <1>5, <1>6, <1>7, <1>8, <1>9, <1>10

LEMMA AccountingStep == AccountingInv /\ AccountingNext => AccountingInv'
<1> SUFFICES ASSUME AccountingInv, AccountingNext PROVE AccountingInv'
  OBVIOUS
<1>1. ASSUME NEW c \in Accountants, NEW m \in Months,
             LockPeriod(c, m) \/ UnlockPeriod(c, m) \/ CreateVoucher(c, m)
      PROVE  AccountingInv'
  BY <1>1, LockSteps, BookSteps
<1>2. ASSUME NEW c \in Accountants,
             \/ InsertLock(c) \/ BustCache(c)
             \/ LoadLocks(c) \/ AssertOpen(c) \/ AssertLoaded(c)
             \/ PostVoucherLine(c) \/ PostExpense(c)
             \/ DeleteEntry(c) \/ DeleteRow(c) \/ SaveReview(c)
      PROVE  AccountingInv'
  BY <1>2, LockSteps, CacheSteps, BookSteps
<1>3. ASSUME NEW c \in Accountants, NEW x \in Expenses,
             \/ CreateExpense(c, x) \/ DeleteExpense(c, x)
             \/ \E to \in {"approved", "rejected"} : ReviewExpense(c, x, to)
      PROVE  AccountingInv'
  BY <1>3, BookSteps
<1>4. CASE ExpireCache
  BY <1>4, CacheSteps
<1>5. QED
  BY <1>1, <1>2, <1>3, <1>4 DEF AccountingNext

\* A posting goes on only where the cache, or the load, does not have its month.
LEMMA RefusalStep ==
  ASSUME AccountingInv, AccountingNext, NEW c \in Accountants,
         clerk[c].op \in {"assert", "load"}, clerk'[c].op = "post", clerk[c].month \in answered
  PROVE  overtaken'
<1>1. CASE AssertOpen(c)
  <2>1. fresh /\ UNCHANGED overtaken /\ clerk[c].month \notin lockedSet
    BY <1>1, AwayOK DEF AssertOpen, Judged, Then, calendar, AccountingInv, AccountingTypeOK
  <2>2. QED
    BY <2>1 DEF AccountingInv, AccountingTypeOK
<1>2. CASE AssertLoaded(c)
  <2>1. clerk[c].op = "load" /\ overtaken' = clerk[c].old /\ clerk[c].month \notin clerk[c].rows
    BY <1>2, AwayOK DEF AssertLoaded, Judged, Then, AccountingInv, AccountingTypeOK
  <2>2. clerk[c].old \in BOOLEAN
    BY <2>1, ClerkFields DEF AccountingInv
  <2>3. QED
    BY <2>1, <2>2 DEF AccountingInv
<1>3. ASSUME NEW d \in Accountants, d # c, NEW r, Then(d, r)
      PROVE  FALSE
  BY <1>3 DEF Then, AccountingInv, AccountingTypeOK
<1>4. ASSUME NEW r, Called(c, r)
      PROVE  FALSE
  BY <1>4, AwayOK DEF Called
<1>5. CASE ExpireCache
  BY <1>5 DEF ExpireCache
<1>6. CASE LoadLocks(c)
  BY <1>6 DEF LoadLocks, Then, AccountingInv, AccountingTypeOK
<1>7. ASSUME NEW d \in Accountants, BustCache(d)
      PROVE  FALSE
  BY <1>7, AwayOK DEF BustCache, Overtake, AccountingInv, AccountingTypeOK
<1>8. ASSUME NEW d \in Accountants,
             \/ InsertLock(d) \/ PostVoucherLine(d) \/ PostExpense(d)
             \/ DeleteEntry(d) \/ DeleteRow(d) \/ SaveReview(d)
      PROVE  FALSE
  <2>1. d # c
    BY <1>8 DEF InsertLock, PostVoucherLine, PostExpense, DeleteEntry, DeleteRow, SaveReview
  <2>2. \E r : Then(d, r)
    BY <1>8 DEF InsertLock, PostVoucherLine, PostExpense, DeleteEntry, DeleteRow, SaveReview
  <2>3. QED
    BY <1>3, <2>1, <2>2
<1>9. ASSUME NEW d \in Accountants,
             \/ \E m \in Months : LockPeriod(d, m) \/ UnlockPeriod(d, m) \/ CreateVoucher(d, m)
             \/ \E x \in Expenses :
                  \/ CreateExpense(d, x) \/ DeleteExpense(d, x)
                  \/ \E to \in {"approved", "rejected"} : ReviewExpense(d, x, to)
      PROVE  FALSE
  <2>1. \E r : Called(d, r)
    BY <1>9 DEF LockPeriod, UnlockPeriod, CreateVoucher, CreateExpense, DeleteExpense,
                ReviewExpense
  <2>2. \E r : Then(d, r)
    BY <2>1 DEF Called
  <2>3. QED
    BY <1>3, <1>4, <2>1, <2>2
<1>10. ASSUME NEW d \in Accountants, LoadLocks(d) \/ AssertOpen(d) \/ AssertLoaded(d), d # c
       PROVE  FALSE
  <2>1. \E r : Then(d, r)
    BY <1>10 DEF LoadLocks, AssertOpen, AssertLoaded, Judged
  <2>2. QED
    BY <1>3, <1>10, <2>1
<1>11. QED
  BY <1>1, <1>2, <1>5, <1>6, <1>7, <1>8, <1>9, <1>10 DEF AccountingNext

-----------------------------------------------------------------------------
(***************************************************************************)
(* Reviews.                                                                *)
(***************************************************************************)
Table == [Posts -> Review \cup {NoReview, Deleted}]

HoldsProduct(w) == writer[w].op \in {"locked", "commit"}

\* One transaction at a time holds the product, and what it has recomputed is
\* what the table will be once it commits.
ReviewsInv ==
  /\ ReviewsTypeOK
  /\ \A v, w \in Writers : HoldsProduct(v) /\ HoldsProduct(w) => v = w
  /\ \A w \in Writers : writer[w].op = "commit" => writer[w].seen = Aggregate(Written(w))
  /\ AggregatesConverge

LEMMA NobodyOK == Nobody \in WriterRequests /\ Nobody.op = "away"
BY DEF Nobody, WriterRequests

LEMMA WriterFields ==
  ASSUME ReviewsTypeOK, NEW w \in Writers
  PROVE  /\ writer[w].op = "save" => /\ writer[w].id \in Posts
                                     /\ writer[w].author \in Authors
                                     /\ writer[w].row \in Review \cup {Deleted}
         /\ writer[w].op \in {"recompute", "locked", "commit"} =>
              /\ writer[w].id \in Posts
              /\ writer[w].author \in Authors
              /\ writer[w].row \in Review \cup {NoReview, Deleted}
         /\ writer[w].op \in {"commit", "edit"} => writer[w].seen \in Sums
<1>1. writer[w] \in WriterRequests
  BY DEF ReviewsTypeOK
<1>2. QED
  BY <1>1 DEF WriterRequests, Nobody

LEMMA AggregateIsSums ==
  ASSUME NEW table \in Table
  PROVE  Aggregate(table) \in Sums
<1> DEFINE visible == {p \in Posts : table[p].status = "visible"}
           f == [p \in Posts |-> table[p].rating]
<1>1. IsFiniteSet(visible)
  BY RatingsAssumption, FS_Subset
<1>2. Cardinality(visible) \in Nat
  BY <1>1, FS_CardinalityType
<1>3. \A p \in visible : f[p] \in Nat
  <2> SUFFICES ASSUME NEW p \in visible PROVE f[p] \in Nat
    OBVIOUS
  <2>1. table[p] \in Review
    BY DEF Table, NoReview, Deleted
  <2>2. table[p].rating \in Ratings
    BY <2>1 DEF Review
  <2>3. Ratings \subseteq Nat
    BY RatingsAssumption
  <2>4. table[p].rating \in Nat
    BY <2>2, <2>3, Zenon
  <2>5. QED
    BY <2>4
<1>4. Aggregate(table) = [count |-> Cardinality(visible), sum |-> SumFunctionOnSet(f, visible)]
  BY DEF Aggregate
<1> HIDE DEF visible, f
<1>5. SumFunctionOnSet(f, visible) \in Nat
  BY <1>1, <1>3, SumNat
<1>6. QED
  BY <1>2, <1>4, <1>5 DEF Sums

LEMMA WrittenIsTable ==
  ASSUME ReviewsTypeOK, NEW w \in Writers, writer[w].op \in {"locked", "commit"}
  PROVE  Written(w) \in Table
BY WriterFields DEF Written, ReviewsTypeOK, Table

LEMMA ReviewsInitInv == ReviewsInit => ReviewsInv
<1> SUFFICES ASSUME ReviewsInit PROVE ReviewsInv
  OBVIOUS
<1>1. review \in Table
  BY DEF ReviewsInit, Table
<1>2. ReviewsTypeOK
  BY <1>1, AggregateIsSums, NobodyOK DEF ReviewsInit, ReviewsTypeOK, Table
<1>3. \A w \in Writers : writer[w].op = "away"
  BY NobodyOK DEF ReviewsInit
<1>4. QED
  BY <1>2, <1>3 DEF ReviewsInit, ReviewsInv, HoldsProduct, AggregatesConverge

LEMMA ReviewsStutter == ReviewsInv /\ UNCHANGED reviews => ReviewsInv'
BY DEF ReviewsInv, reviews, ReviewsTypeOK, HoldsProduct, Written, AggregatesConverge

\* A step that writes nothing but its own request, and takes no lock.
LEMMA WriterStep ==
  ASSUME ReviewsInv, NEW w \in Writers, NEW r \in WriterRequests,
         r.op \notin {"locked", "commit"}, Turn(w, r), UNCHANGED <<review, aggregate, overlaid>>
  PROVE  ReviewsInv'
<1>1. \A v \in Writers : writer'[v] = IF v = w THEN r ELSE writer[v]
  BY DEF Turn, ReviewsInv, ReviewsTypeOK
<1>2. ReviewsTypeOK'
  BY DEF Turn, ReviewsInv, ReviewsTypeOK
<1>3. ASSUME NEW v \in Writers, writer'[v].op = "commit"
      PROVE  writer'[v].seen = Aggregate(Written(v))'
  <2>1. v # w /\ writer'[v] = writer[v]
    BY <1>1, <1>3
  <2>2. Written(v)' = Written(v)
    BY <2>1 DEF Written
  <2>3. Aggregate(Written(v))' = Aggregate(Written(v))
    BY <2>2 DEF Aggregate
  <2>4. QED
    BY <1>3, <2>1, <2>3 DEF ReviewsInv
<1>4. QED
  BY <1>1, <1>2, <1>3 DEF ReviewsInv, HoldsProduct, AggregatesConverge

LEMMA ReadSteps ==
  ASSUME ReviewsInv, NEW w \in Writers,
         \/ \E p \in Posts :
              \/ RemoveReview(w, p)
              \/ \E rating \in Ratings :
                   UpdateReview(w, p, rating) \/ \E a \in Authors : CreateReview(w, p, a, rating)
              \/ \E status \in {"visible", "hidden"} : Moderate(w, p, status)
         \/ EditProduct(w) \/ Rollback(w)
  PROVE  ReviewsInv'
<1>1. ASSUME NEW p \in Posts, NEW a \in Authors, NEW row \in Review \cup {Deleted},
             Save(w, p, a, row)
      PROVE  ReviewsInv'
  <2> DEFINE r == [op |-> "save", id |-> p, author |-> a, row |-> row]
  <2>1. r \in WriterRequests /\ r.op \notin {"locked", "commit"}
    BY <1>1 DEF WriterRequests
  <2>2. Turn(w, r) /\ UNCHANGED <<review, aggregate, overlaid>>
    BY <1>1 DEF Save, Pick, Turn
  <2> HIDE DEF r
  <2>3. QED
    BY <2>1, <2>2, WriterStep
<1>2. \A p \in Posts : Published(p) => review[p] \in Review /\ review[p].author \in Authors
  BY DEF Published, ReviewsInv, ReviewsTypeOK, NoReview, Deleted, Review
<1>3. ASSUME NEW p \in Posts, RemoveReview(w, p) PROVE ReviewsInv'
  BY <1>1, <1>2, <1>3 DEF RemoveReview
<1>4. ASSUME NEW p \in Posts, NEW rating \in Ratings, UpdateReview(w, p, rating)
      PROVE  ReviewsInv'
  <2>1. [review[p] EXCEPT !.rating = rating] \in Review
    BY <1>2, <1>4 DEF UpdateReview, Review
  <2>2. QED
    BY <1>1, <1>2, <1>4, <2>1 DEF UpdateReview
<1>5. ASSUME NEW p \in Posts, NEW rating \in Ratings, NEW a \in Authors,
             CreateReview(w, p, a, rating)
      PROVE  ReviewsInv'
  <2>1. [author |-> a, rating |-> rating, status |-> "visible"] \in Review
    BY DEF Review
  <2>2. QED
    BY <1>1, <1>5, <2>1 DEF CreateReview
<1>6. ASSUME NEW p \in Posts, NEW status \in {"visible", "hidden"}, Moderate(w, p, status)
      PROVE  ReviewsInv'
  <2>1. [review[p] EXCEPT !.status = status] \in Review
    BY <1>2, <1>6 DEF Moderate, Review
  <2>2. QED
    BY <1>1, <1>2, <1>6, <2>1 DEF Moderate
<1>7. CASE EditProduct(w)
  <2> DEFINE r == [op |-> "edit", seen |-> aggregate]
  <2>1. r \in WriterRequests /\ r.op \notin {"locked", "commit"}
    BY DEF WriterRequests, ReviewsInv, ReviewsTypeOK
  <2>2. Turn(w, r) /\ UNCHANGED <<review, aggregate, overlaid>>
    BY <1>7 DEF EditProduct, Pick, Turn
  <2> HIDE DEF r
  <2>3. QED
    BY <2>1, <2>2, WriterStep
<1>8. CASE Rollback(w)
  BY <1>8, NobodyOK, WriterStep DEF Rollback
<1>9. QED
  BY <1>3, <1>4, <1>5, <1>6, <1>7, <1>8

LEMMA WriteReviewStep ==
  ASSUME ReviewsInv, NEW w \in Writers, WriteReview(w)
  PROVE  ReviewsInv'
<1> DEFINE r == writer[w]
           inserts == r.row # Deleted /\ ~Published(r.id)
           goes(row) == [op |-> "recompute", id |-> r.id, author |-> r.author,
                         row |-> row, inserted |-> inserts]
<1>1. /\ r.op = "save" /\ UNCHANGED <<review, aggregate, overlaid>>
      /\ Turn(w, Nobody) \/ Turn(w, goes(review[r.id])) \/ Turn(w, goes(r.row))
  BY DEF WriteReview
<1>2. /\ r.id \in Posts /\ r.author \in Authors
      /\ r.row \in Review \cup {Deleted} /\ review[r.id] \in Review \cup {NoReview, Deleted}
      /\ inserts \in BOOLEAN
  BY <1>1, WriterFields DEF ReviewsInv, ReviewsTypeOK
<1> HIDE DEF inserts
<1>3. ASSUME NEW row \in Review \cup {NoReview, Deleted}
      PROVE  goes(row) \in WriterRequests /\ goes(row).op \notin {"locked", "commit"}
  BY <1>2, <1>3 DEF WriterRequests
<1> HIDE DEF goes
<1>4. QED
  BY <1>1, <1>2, <1>3, NobodyOK, WriterStep

LEMMA LockProductStep ==
  ASSUME ReviewsInv, NEW w \in Writers, LockProduct(w)
  PROVE  ReviewsInv'
<1> DEFINE r == [writer[w] EXCEPT !.op = "locked"]
<1>1. /\ writer' = [writer EXCEPT ![w] = r] /\ UNCHANGED <<review, aggregate, overlaid>>
      /\ writer[w].op = "recompute" /\ \A v \in Writers : ~HoldsProduct(v)
  BY DEF LockProduct, Turn, ProductFree, ProductLocked, HoldsProduct
<1>2. r \in WriterRequests /\ r.op = "locked"
  <2> DEFINE Fields == [op : {"recompute", "locked"}, id : Posts, author : Authors,
                        row : Review \cup {NoReview, Deleted}, inserted : BOOLEAN]
  <2>1. writer[w] \in Fields
    BY <1>1 DEF ReviewsInv, ReviewsTypeOK, WriterRequests, Nobody
  <2>2. r \in Fields /\ r.op = "locked"
    BY <2>1
  <2>3. QED
    BY <2>2 DEF WriterRequests
<1> HIDE DEF r
<1>3. \A v \in Writers : writer'[v] = IF v = w THEN r ELSE writer[v]
  BY <1>1 DEF ReviewsInv, ReviewsTypeOK
<1>4. ReviewsTypeOK'
  BY <1>1, <1>2 DEF ReviewsInv, ReviewsTypeOK
<1>5. \A v \in Writers : writer'[v].op = "commit" => writer'[v].seen = Aggregate(Written(v))'
  BY <1>1, <1>2, <1>3 DEF HoldsProduct
<1>6. QED
  BY <1>1, <1>2, <1>3, <1>4, <1>5 DEF ReviewsInv, HoldsProduct, AggregatesConverge

LEMMA RecomputeStep ==
  ASSUME ReviewsInv, NEW w \in Writers, RecomputeAggregates(w)
  PROVE  ReviewsInv'
<1> DEFINE sums == Aggregate(Written(w))
           r == [op |-> "commit", id |-> writer[w].id, author |-> writer[w].author,
                 row |-> writer[w].row, seen |-> sums]
<1>1. /\ writer' = [writer EXCEPT ![w] = r] /\ UNCHANGED <<review, aggregate, overlaid>>
      /\ writer[w].op = "locked"
  BY DEF RecomputeAggregates, Turn
<1>2. sums \in Sums
  BY <1>1, WrittenIsTable, AggregateIsSums DEF ReviewsInv
<1>3. /\ r \in WriterRequests /\ r.op = "commit" /\ r.seen = sums
      /\ r.id = writer[w].id /\ r.row = writer[w].row
  <2> HIDE DEF sums
  <2>1. QED
    BY <1>1, <1>2, WriterFields DEF ReviewsInv, WriterRequests
<1> HIDE DEF r
<1>4. \A v \in Writers : writer'[v] = IF v = w THEN r ELSE writer[v]
  BY <1>1 DEF ReviewsInv, ReviewsTypeOK
<1>5. ReviewsTypeOK'
  BY <1>1, <1>3 DEF ReviewsInv, ReviewsTypeOK
<1>6. ASSUME NEW v \in Writers, writer'[v].op = "commit"
      PROVE  writer'[v].seen = Aggregate(Written(v))'
  <2>1. v = w
    BY <1>1, <1>4, <1>6 DEF ReviewsInv, HoldsProduct
  <2>2. Written(w)' = Written(w)
    BY <1>1, <1>3, <1>4 DEF Written
  <2>3. Aggregate(Written(w))' = sums
    BY <2>2 DEF Aggregate
  <2>4. QED
    BY <2>1, <2>3, <1>3, <1>4
<1>7. QED
  BY <1>1, <1>3, <1>4, <1>5, <1>6 DEF ReviewsInv, HoldsProduct, AggregatesConverge

LEMMA CommitReviewStep ==
  ASSUME ReviewsInv, NEW w \in Writers, CommitReview(w)
  PROVE  ReviewsInv'
<1>1. /\ writer[w].op = "commit" /\ review' = Written(w) /\ aggregate' = writer[w].seen
      /\ overlaid' = FALSE /\ writer' = [writer EXCEPT ![w] = Nobody]
  BY DEF CommitReview, Turn
<1>2. \A v \in Writers : writer'[v] = IF v = w THEN Nobody ELSE writer[v]
  BY <1>1 DEF ReviewsInv, ReviewsTypeOK
<1>3. \A v \in Writers : writer'[v].op \notin {"locked", "commit"}
  BY <1>1, <1>2, NobodyOK DEF ReviewsInv, HoldsProduct
<1>4. aggregate' = Aggregate(review')
  BY <1>1 DEF ReviewsInv
<1>5. ReviewsTypeOK'
  <2>1. review' \in Table /\ aggregate' \in Sums
    BY <1>1, WrittenIsTable, WriterFields DEF ReviewsInv
  <2>2. QED
    BY <1>1, <2>1, NobodyOK DEF ReviewsInv, ReviewsTypeOK, Table
<1>6. AggregatesConverge'
  BY <1>4 DEF AggregatesConverge, Aggregate
<1>7. QED
  BY <1>3, <1>5, <1>6 DEF ReviewsInv, HoldsProduct

LEMMA SaveProductStep ==
  ASSUME ReviewsInv, NEW w \in Writers, SaveProduct(w)
  PROVE  ReviewsInv'
<1>1. /\ writer[w].op = "edit" /\ aggregate' = writer[w].seen
      /\ overlaid' = (overlaid \/ aggregate # writer[w].seen)
      /\ writer' = [writer EXCEPT ![w] = Nobody] /\ UNCHANGED review
  BY DEF SaveProduct, Turn
<1>2. \A v \in Writers : writer'[v] = IF v = w THEN Nobody ELSE writer[v]
  BY <1>1 DEF ReviewsInv, ReviewsTypeOK
<1>3. aggregate' \in Sums /\ overlaid' \in BOOLEAN
  BY <1>1, WriterFields DEF ReviewsInv
<1>4. ReviewsTypeOK'
  BY <1>1, <1>3, NobodyOK DEF ReviewsInv, ReviewsTypeOK
<1>5. \A v \in Writers : writer'[v].op = "commit" => writer'[v].seen = Aggregate(Written(v))'
  BY <1>1, <1>2, NobodyOK DEF ReviewsInv, Written, Aggregate
<1>6. AggregatesConverge'
  BY <1>1 DEF ReviewsInv, AggregatesConverge, Aggregate
<1>7. QED
  BY <1>2, <1>4, <1>5, <1>6, NobodyOK DEF ReviewsInv, HoldsProduct

LEMMA ReviewsStep == ReviewsInv /\ ReviewsNext => ReviewsInv'
BY ReadSteps, WriteReviewStep, LockProductStep, RecomputeStep, CommitReviewStep, SaveProductStep
   DEF ReviewsNext

-----------------------------------------------------------------------------
(***************************************************************************)
(* The drawer.                                                             *)
(***************************************************************************)

\* Documents that belong to a shift or to a later one, and those of before.
Since(D, s) == \A d \in D : doc[d] \in Doc /\ doc[d].created >= shift[s].opened
Before(D, at) == \A d \in D : doc[d] \in Doc /\ doc[d].created < at

Closes(r, s) == r.op \in {"closing", "close", "report"} /\ r.shift = s

\* A closing is of a shift that is there. What an opening has seen is closed,
\* and all it counted was begun before the new shift.
TabOK(r) ==
  /\ r.op \in {"closing", "close", "report"} => shift[r.shift] \in Shift
  /\ r.op = "report" => Since(r.docs, r.shift)
  /\ r.op \in {"open", "insert"} =>
       \A s \in r.seen \ raced : shift[s] \in Shift /\ shift[s].status = "Closed"
  /\ r.op = "insert" => r.at < now /\ \A s \in r.seen \ raced : Before(reported[s], r.at)

StampsOK ==
  /\ \A d \in Docs : doc[d] \in Doc => doc[d].created < now
  /\ \A s \in Shifts : shift[s] \in Shift => shift[s].opened < now

ReportsOK ==
  \A s \in Shifts : /\ Since(reported[s], s)
                    /\ shift[s] \notin Shift => reported[s] = {}

\* A shift is being closed by one request at most, and is open until then.
ClosingOK ==
  \A s \in Shifts \ raced, t \in Tabs : Closes(tab[t], s) =>
    /\ shift[s].status = "Open"
    /\ \A n \in Tabs : Closes(tab[n], s) => n = t

Precedes(s, u) == shift[s].status = "Closed" /\ Before(reported[s], shift[u].opened)

\* Of two shifts one is over when the other opens, and has counted nothing since.
SuccessionOK ==
  \A s, u \in Shifts \ raced :
    s # u /\ shift[s] \in Shift /\ shift[u] \in Shift => Precedes(s, u) \/ Precedes(u, s)

ShiftsInv ==
  /\ ShiftsTypeOK /\ StampsOK /\ ReportsOK /\ ClosingOK /\ SuccessionOK
  /\ \A t \in Tabs : TabOK(tab[t])

LEMMA ShiftsCounted == ShiftsInv => CountedOnce
<1> SUFFICES ASSUME ShiftsInv, NEW s \in Shifts \ raced, NEW u \in Shifts \ raced, s # u,
                    NEW d \in reported[s] \cap reported[u]
             PROVE  FALSE
  BY DEF CountedOnce
<1>1. /\ shift[s] \in Shift /\ shift[u] \in Shift /\ doc[d] \in Doc
      /\ doc[d].created >= shift[s].opened /\ doc[d].created >= shift[u].opened
  BY DEF ShiftsInv, ReportsOK, Since
<1>2. shift[s].opened \in Int /\ shift[u].opened \in Int /\ doc[d].created \in Int
  BY <1>1, DrawerAssumption DEF Shift, Doc
<1>3. Precedes(s, u) \/ Precedes(u, s)
  BY <1>1 DEF ShiftsInv, SuccessionOK
<1>4. doc[d].created < shift[u].opened \/ doc[d].created < shift[s].opened
  BY <1>3 DEF Precedes, Before
<1>5. QED
  BY <1>1, <1>2, <1>4

LEMMA TabFields ==
  ASSUME ShiftsTypeOK, NEW t \in Tabs
  PROVE  /\ tab[t].op \in {"movement", "move", "closing", "close", "report"}
              => tab[t].shift \in Shifts
         /\ tab[t].op \in {"movement", "move"} => tab[t].amount \in Movements
         /\ tab[t].op \in {"open", "insert"} => tab[t].seen \in SUBSET Shifts
         /\ tab[t].op = "insert" => tab[t].at \in 0 .. MaxTime
         /\ tab[t].op = "close" => tab[t].at \in Int
         /\ tab[t].op = "report" => /\ tab[t].docs \in SUBSET Docs
                                    /\ tab[t].expected \in Int
<1>1. tab[t] \in TabRequests
  BY DEF ShiftsTypeOK
<1>2. QED
  BY <1>1 DEF TabRequests, Quiet

LEMMA StatusFields ==
  ASSUME ShiftsTypeOK
  PROVE  /\ \A s \in Shifts : shift[s].status \in {"Open", "Closed"} <=> shift[s] \in Shift
         /\ \A s \in Shifts : shift[s] \in Shift <=> shift[s] # NoShift
         /\ \A d \in Docs : /\ doc[d] # NoDoc => doc[d] \in Doc
                            /\ doc[d].status \in {"uncommitted", "Active", "Voided"}
                                 => doc[d] \in Doc
         /\ NoShift \notin Shift /\ NoDoc \notin Doc
BY DEF ShiftsTypeOK, Shift, NoShift, Doc, NoDoc

LEMMA QuietOK == Quiet \in TabRequests /\ Quiet.op = "quiet"
BY DEF Quiet, TabRequests

LEMMA ShiftsInitInv == ShiftsInit => ShiftsInv
<1> SUFFICES ASSUME ShiftsInit PROVE ShiftsInv
  OBVIOUS
<1>1. NoShift \notin Shift /\ NoDoc \notin Doc
  BY DEF Shift, NoShift, Doc, NoDoc
<1>2. 0 \in 0 .. MaxTime
  BY DrawerAssumption
<1>3. ShiftsTypeOK
  <2>1. now \in 0 .. MaxTime
    BY <1>2 DEF ShiftsInit
  <2>2. cash \in [Shifts -> Int]
    BY DEF ShiftsInit
  <2>3. tab \in [Tabs -> TabRequests]
    BY QuietOK DEF ShiftsInit
  <2>4. QED
    BY <2>1, <2>2, <2>3 DEF ShiftsInit, ShiftsTypeOK
<1>4. \A t \in Tabs : tab[t].op = "quiet"
  BY QuietOK DEF ShiftsInit
<1>5. /\ \A t \in Tabs : TabOK(tab[t])
      /\ ClosingOK
  BY <1>4 DEF TabOK, ClosingOK, Closes
<1>6. QED
  BY <1>1, <1>3, <1>5 DEF ShiftsInit, ShiftsInv, StampsOK, ReportsOK, Since, SuccessionOK

LEMMA ShiftsStutter == ShiftsInv /\ UNCHANGED drawer => ShiftsInv'
BY DEF ShiftsInv, drawer, ShiftsTypeOK, StampsOK, ReportsOK, Since, SuccessionOK, Before,
       Precedes, ClosingOK, Closes, TabOK

\* What every step keeps of the rows.
RowsKept ==
  /\ now <= now' /\ raced \subseteq raced'
  /\ \A d \in Docs : doc[d] \in Doc => doc'[d] \in Doc /\ doc'[d].created = doc[d].created
  /\ \A s \in Shifts : shift[s] \in Shift =>
       /\ shift'[s] \in Shift /\ shift'[s].opened = shift[s].opened
       /\ shift[s].status = "Closed" => shift'[s].status = "Closed"
  /\ \A s \in Shifts \ raced' : shift[s].status = "Closed" => reported'[s] = reported[s]

LEMMA SpansKept ==
  ASSUME ShiftsInv, RowsKept
  PROVE  /\ \A s \in Shifts, D \in SUBSET Docs :
              shift[s] \in Shift /\ Since(D, s) => Since(D, s)'
         /\ \A D \in SUBSET Docs : \A at : Before(D, at) => Before(D, at)'
         /\ \A s, u \in Shifts \ raced' :
              shift[s] \in Shift /\ shift[u] \in Shift /\ Precedes(s, u) => Precedes(s, u)'
<1>1. ASSUME NEW s \in Shifts, NEW D \in SUBSET Docs, shift[s] \in Shift, Since(D, s)
      PROVE  Since(D, s)'
  BY <1>1 DEF RowsKept, Since
<1>2. ASSUME NEW D \in SUBSET Docs, NEW at, Before(D, at)
      PROVE  Before(D, at)'
  BY <1>2 DEF RowsKept, Before
<1>3. ASSUME NEW s \in Shifts \ raced', NEW u \in Shifts \ raced', shift[s] \in Shift,
             shift[u] \in Shift, Precedes(s, u)
      PROVE  Precedes(s, u)'
  <2>1. /\ shift[s].status = "Closed" /\ shift'[s].status = "Closed"
        /\ reported'[s] = reported[s] /\ shift'[u].opened = shift[u].opened
    BY <1>3 DEF RowsKept, Precedes
  <2>2. reported[s] \in SUBSET Docs /\ Before(reported[s], shift[u].opened)
    BY <1>3 DEF ShiftsInv, ShiftsTypeOK, Precedes
  <2>3. \A d \in reported[s] : doc'[d] \in Doc /\ doc'[d].created < shift[u].opened
    BY <2>2 DEF RowsKept, Before
  <2>4. QED
    BY <2>1, <2>3 DEF Precedes, Before
<1>4. QED
  BY <1>1, <1>2, <1>3

LEMMA TabsKept ==
  ASSUME ShiftsInv, ShiftsTypeOK', RowsKept, NEW t \in Tabs, NEW r, r = tab[t]
  PROVE  TabOK(r)'
<1>1. TabOK(r)
  BY DEF ShiftsInv
<1>2. /\ r.op \in {"closing", "close", "report"} => r.shift \in Shifts
      /\ r.op = "report" => r.docs \in SUBSET Docs
      /\ r.op \in {"open", "insert"} => r.seen \in SUBSET Shifts
      /\ r.op = "insert" => r.at \in 0 .. MaxTime
  BY TabFields DEF ShiftsInv
<1>3. r.op \in {"closing", "close", "report"} => shift'[r.shift] \in Shift
  BY <1>1, <1>2 DEF RowsKept, TabOK
<1>4. r.op = "report" => Since(r.docs, r.shift)'
  BY <1>1, <1>2, SpansKept DEF TabOK
<1>5. r.op \in {"open", "insert"} =>
        \A s \in r.seen \ raced' : shift'[s] \in Shift /\ shift'[s].status = "Closed"
  BY <1>1, <1>2 DEF RowsKept, TabOK
<1>6. r.op = "insert" => r.at < now'
  <2>1. now \in Int /\ now' \in Int /\ (r.op = "insert" => r.at \in Int)
    BY <1>2, DrawerAssumption DEF ShiftsInv, ShiftsTypeOK
  <2>2. QED
    BY <1>1, <2>1 DEF RowsKept, TabOK
<1>7. ASSUME r.op = "insert", NEW s \in r.seen \ raced'
      PROVE  Before(reported[s], r.at)'
  <2>1. s \in Shifts \ raced /\ reported'[s] = reported[s] /\ Before(reported[s], r.at)
    BY <1>1, <1>2, <1>7 DEF RowsKept, TabOK
  <2>2. reported[s] \in SUBSET Docs
    BY <2>1 DEF ShiftsInv, ShiftsTypeOK
  <2>3. QED
    BY <2>1, <2>2 DEF RowsKept, Before
<1>8. QED
  BY <1>3, <1>4, <1>5, <1>6, <1>7 DEF TabOK

\* Reports that stay as they are, of rows that are kept.
LEMMA ReportsKept ==
  ASSUME ShiftsInv, RowsKept, NEW s \in Shifts, reported'[s] = reported[s], shift[s] \in Shift
  PROVE  Since(reported[s], s)' /\ (shift'[s] \notin Shift => reported'[s] = {})
<1>1. shift'[s] \in Shift /\ Since(reported[s], s) /\ reported[s] \in SUBSET Docs
  BY DEF RowsKept, ShiftsInv, ReportsOK, ShiftsTypeOK
<1>2. QED
  BY <1>1 DEF RowsKept, Since

LEMMA ExpectedCashInt ==
  ASSUME ShiftsInv, NEW s \in Shifts, NEW end
  PROVE  ExpectedCash(s, end) \in Int /\ Window(s, end) \in SUBSET Docs
<1> DEFINE f == [d \in Docs |-> doc[d].amount]
           W == Window(s, end)
<1>1. W \in SUBSET Docs
  BY DEF Window
<1>2. IsFiniteSet(W)
  BY <1>1, DrawerAssumption, FS_Subset
<1>3. \A d \in W : f[d] \in Int
  <2> SUFFICES ASSUME NEW d \in W PROVE doc[d].amount \in Int
    BY <1>1
  <2>1. doc[d] \in Doc
    BY StatusFields DEF Window, ShiftsInv
  <2>2. doc[d].amount \in Takings /\ Takings \subseteq Int
    BY <2>1, DrawerAssumption DEF Doc
  <2>3. QED
    BY <2>2, Zenon
<1>4. Float \in Int /\ cash[s] \in Int
  BY DrawerAssumption DEF ShiftsInv, ShiftsTypeOK
<1>5. ExpectedCash(s, end) = Float + cash[s] + SumFunctionOnSet(f, W)
  BY DEF ExpectedCash
<1> HIDE DEF f, W
<1>6. SumFunctionOnSet(f, W) \in Int
  BY <1>2, <1>3, SumInt
<1>7. ExpectedCash(s, end) \in Int
  BY <1>4, <1>5, <1>6
<1>8. QED
  BY <1>1, <1>7 DEF W

LEMMA DocSteps ==
  ASSUME ShiftsInv, NEW d \in Docs,
         (\E amount \in Takings : BeginDoc(d, amount)) \/ CommitDoc(d) \/ VoidDoc(d)
  PROVE  ShiftsInv'
<1>1. now \in 0 .. MaxTime /\ now \in Int /\ MaxTime \in Int
  BY DrawerAssumption DEF ShiftsInv, ShiftsTypeOK
<1>2. ASSUME NEW row \in Doc, doc' = [doc EXCEPT ![d] = row], row.created < now',
             doc[d] \in Doc => row.created = doc[d].created, now <= now', now' \in 0 .. MaxTime,
             UNCHANGED <<shift, cash, tab, reported, raced>>
      PROVE  ShiftsInv'
  <2>1. \A e \in Docs : doc'[e] = IF e = d THEN row ELSE doc[e]
    BY <1>2 DEF ShiftsInv, ShiftsTypeOK
  <2>2. ShiftsTypeOK'
    BY <1>2 DEF ShiftsInv, ShiftsTypeOK
  <2>3. RowsKept
    BY <1>2, <2>1 DEF RowsKept
  <2>4. /\ \A e \in Docs : doc[e] \in Doc => doc[e].created \in Int
        /\ \A s \in Shifts : shift[s] \in Shift => shift[s].opened \in Int
    BY DrawerAssumption DEF Doc, Shift
  <2>5. StampsOK'
    <3>1. now' \in Int
      BY <1>2, DrawerAssumption
    <3>2. \A e \in Docs : doc'[e] \in Doc => doc'[e].created < now'
      BY <1>1, <1>2, <2>1, <2>4, <3>1 DEF ShiftsInv, StampsOK
    <3>3. \A s \in Shifts : shift'[s] \in Shift => shift'[s].opened < now'
      BY <1>1, <1>2, <2>4, <3>1 DEF ShiftsInv, StampsOK
    <3>4. QED
      BY <3>2, <3>3 DEF StampsOK
  <2>6. ReportsOK'
    <3> SUFFICES ASSUME NEW s \in Shifts
                 PROVE  Since(reported[s], s)' /\ (shift'[s] \notin Shift => reported'[s] = {})
      BY DEF ReportsOK
    <3>1. CASE shift[s] \in Shift
      BY <3>1, <1>2, <2>3, ReportsKept
    <3>2. CASE shift[s] \notin Shift
      BY <3>2, <1>2 DEF ShiftsInv, ReportsOK, Since
    <3>3. QED
      BY <3>1, <3>2
  <2>7. ClosingOK'
    BY <1>2 DEF ShiftsInv, ClosingOK, Closes
  <2>8. SuccessionOK'
    <3> SUFFICES ASSUME NEW s \in Shifts \ raced', NEW u \in Shifts \ raced', s # u,
                        shift[s] \in Shift, shift[u] \in Shift
                 PROVE  Precedes(s, u)' \/ Precedes(u, s)'
      BY <1>2 DEF SuccessionOK
    <3>1. Precedes(s, u) \/ Precedes(u, s)
      BY <1>2 DEF ShiftsInv, SuccessionOK
    <3>2. QED
      BY <3>1, <2>3, SpansKept
  <2>9. ASSUME NEW t \in Tabs PROVE TabOK(tab[t])'
    <3>1. PICK r : r = tab[t]
      OBVIOUS
    <3>2. TabOK(r)'
      BY <3>1, <2>2, <2>3, TabsKept
    <3>3. QED
      BY <1>2, <3>1, <3>2 DEF TabOK
  <2>10. QED
    BY <2>2, <2>5, <2>6, <2>7, <2>8, <2>9 DEF ShiftsInv
<1>3. ASSUME NEW amount \in Takings, BeginDoc(d, amount) PROVE ShiftsInv'
  <2> DEFINE row == [status |-> "uncommitted", created |-> now, amount |-> amount]
  <2>1. row \in Doc /\ row.created = now
    BY <1>1 DEF Doc
  <2>2. /\ doc' = [doc EXCEPT ![d] = row] /\ now' = now + 1 /\ now < MaxTime /\ doc[d] \notin Doc
        /\ UNCHANGED <<shift, cash, tab, reported, raced>>
    BY <1>3 DEF BeginDoc, Stamp, Doc, NoDoc
  <2> HIDE DEF row
  <2>3. now < now' /\ now <= now' /\ now' \in 0 .. MaxTime
    BY <1>1, <2>2
  <2>4. QED
    BY <1>2, <2>1, <2>2, <2>3
<1>4. ASSUME NEW status \in {"Active", "Voided"}, doc[d].status \in {"uncommitted", "Active"},
             doc' = [doc EXCEPT ![d].status = status],
             UNCHANGED <<now, shift, cash, tab, reported, raced>>
      PROVE  ShiftsInv'
  <2> DEFINE row == [doc[d] EXCEPT !.status = status]
  <2>1. doc[d] \in Doc
    BY <1>4, StatusFields DEF ShiftsInv
  <2>2. row \in Doc /\ row.created = doc[d].created
    BY <2>1 DEF Doc
  <2>3. doc' = [doc EXCEPT ![d] = row]
    BY <1>4
  <2> HIDE DEF row
  <2>4. row.created < now' /\ now <= now' /\ now' \in 0 .. MaxTime
    BY <1>1, <1>4, <2>1, <2>2 DEF ShiftsInv, StampsOK
  <2>5. QED
    BY <1>2, <1>4, <2>2, <2>3, <2>4
<1>5. QED
  BY <1>3, <1>4 DEF CommitDoc, VoidDoc

\* A step that writes a request, and may stamp, and leaves rows and reports.
LEMMA TabWritten ==
  ASSUME ShiftsInv, NEW t \in Tabs, NEW r \in TabRequests, tab' = [tab EXCEPT ![t] = r],
         TabOK(r)', cash' \in [Shifts -> Int], now <= now', now' \in 0 .. MaxTime,
         raced \subseteq raced', raced' \in SUBSET Shifts, UNCHANGED <<shift, doc, reported>>,
         \A s \in Shifts \ raced' : Closes(r, s) =>
           /\ shift[s].status = "Open"
           /\ \A n \in Tabs \ {t} : ~Closes(tab[n], s)
  PROVE  ShiftsInv'
<1>1. \A n \in Tabs : tab'[n] = IF n = t THEN r ELSE tab[n]
  BY DEF ShiftsInv, ShiftsTypeOK
<1>2. ShiftsTypeOK'
  BY DEF ShiftsInv, ShiftsTypeOK
<1>3. RowsKept
  BY DEF RowsKept
<1>4. StampsOK'
  <2>1. /\ now \in Int /\ now' \in Int
        /\ \A d \in Docs : doc[d] \in Doc => doc[d].created \in Int
        /\ \A s \in Shifts : shift[s] \in Shift => shift[s].opened \in Int
    BY DrawerAssumption DEF ShiftsInv, ShiftsTypeOK, Doc, Shift
  <2>2. QED
    BY <2>1 DEF ShiftsInv, StampsOK
<1>5. ReportsOK'
  <2> SUFFICES ASSUME NEW s \in Shifts
               PROVE  Since(reported[s], s)' /\ (shift'[s] \notin Shift => reported'[s] = {})
    BY DEF ReportsOK
  <2>1. CASE shift[s] \in Shift
    BY <2>1, <1>3, ReportsKept
  <2>2. CASE shift[s] \notin Shift
    BY <2>2 DEF ShiftsInv, ReportsOK, Since
  <2>3. QED
    BY <2>1, <2>2
<1>6. ClosingOK'
  <2> SUFFICES ASSUME NEW s \in Shifts \ raced', NEW n \in Tabs, Closes(tab'[n], s)
               PROVE  /\ shift'[s].status = "Open"
                      /\ \A m \in Tabs : Closes(tab'[m], s) => m = n
    BY DEF ClosingOK, Closes
  <2>1. s \in Shifts \ raced
    OBVIOUS
  <2>2. CASE Closes(r, s)
    BY <2>2, <1>1
  <2>3. CASE ~Closes(r, s)
    <3>1. n # t /\ Closes(tab[n], s) /\ \A m \in Tabs : Closes(tab'[m], s) => Closes(tab[m], s)
      BY <2>3, <1>1
    <3>2. QED
      BY <2>1, <3>1 DEF ShiftsInv, ClosingOK
  <2>4. QED
    BY <2>2, <2>3
<1>7. SuccessionOK'
  <2> SUFFICES ASSUME NEW s \in Shifts \ raced', NEW u \in Shifts \ raced', s # u,
                      shift[s] \in Shift, shift[u] \in Shift
               PROVE  Precedes(s, u)' \/ Precedes(u, s)'
    BY DEF SuccessionOK
  <2>1. Precedes(s, u) \/ Precedes(u, s)
    BY DEF ShiftsInv, SuccessionOK
  <2>2. QED
    BY <2>1, <1>3, SpansKept
<1>8. ASSUME NEW n \in Tabs PROVE TabOK(tab[n])'
  <2>1. CASE n = t
    BY <2>1, <1>1 DEF TabOK
  <2>2. CASE n # t
    <3>1. PICK q : q = tab[n]
      OBVIOUS
    <3>2. TabOK(q)'
      BY <3>1, <1>2, <1>3, TabsKept
    <3>3. QED
      BY <2>2, <3>1, <3>2, <1>1 DEF TabOK
  <2>3. QED
    BY <2>1, <2>2
<1>9. QED
  BY <1>2, <1>4, <1>5, <1>6, <1>7, <1>8 DEF ShiftsInv

\* A request that closes no shift and opens none.
LEMMA PlainTabWritten ==
  ASSUME ShiftsInv, NEW t \in Tabs, NEW r \in TabRequests, tab' = [tab EXCEPT ![t] = r],
         r.op \in {"quiet", "movement", "move"}, cash' \in [Shifts -> Int],
         UNCHANGED <<now, shift, doc, reported, raced>>
  PROVE  ShiftsInv'
<1>1. TabOK(r)' /\ \A s \in Shifts : ~Closes(r, s)
  BY DEF TabOK, Closes
<1>2. /\ now <= now' /\ now' \in 0 .. MaxTime
      /\ raced \subseteq raced' /\ raced' \in SUBSET Shifts
  BY DrawerAssumption DEF ShiftsInv, ShiftsTypeOK
<1>3. QED
  BY <1>1, <1>2, TabWritten

LEMMA OpeningSteps ==
  ASSUME ShiftsInv, NEW t \in Tabs, OpenShift(t) \/ StampShift(t)
  PROVE  ShiftsInv'
<1>1. /\ now \in 0 .. MaxTime /\ now \in Int /\ MaxTime \in Int
      /\ cash \in [Shifts -> Int] /\ raced \in SUBSET Shifts
  BY DrawerAssumption DEF ShiftsInv, ShiftsTypeOK
<1>2. CASE OpenShift(t)
  <2>1. PICK seen \in SUBSET Shifts : seen = Existing
    BY DEF Existing
  <2> DEFINE r == [op |-> "open", seen |-> seen]
  <2>2. r \in TabRequests /\ r.op = "open" /\ r.seen = seen
    BY DEF TabRequests
  <2>3. /\ tab' = [tab EXCEPT ![t] = r] /\ Open = {}
        /\ UNCHANGED <<now, shift, doc, cash, reported, raced>>
    BY <1>2, <2>1 DEF OpenShift, Click
  <2> HIDE DEF r
  <2>4. \A s \in seen : shift[s] \in Shift /\ shift[s].status = "Closed"
    BY <2>1, <2>3, StatusFields DEF Existing, Open, ShiftsInv
  <2>5. TabOK(r)' /\ \A s \in Shifts : ~Closes(r, s)
    BY <2>2, <2>3, <2>4 DEF TabOK, Closes
  <2>6. now <= now' /\ now' \in 0 .. MaxTime /\ cash' \in [Shifts -> Int]
        /\ raced \subseteq raced' /\ raced' \in SUBSET Shifts
    BY <1>1, <2>3
  <2>7. QED
    BY <2>2, <2>3, <2>5, <2>6, TabWritten
<1>3. CASE StampShift(t)
  <2>1. PICK seen \in SUBSET Shifts, at \in 0 .. MaxTime : seen = tab[t].seen /\ at = now
    BY <1>1, <1>3, TabFields DEF StampShift, ShiftsInv
  <2> DEFINE r == [op |-> "insert", seen |-> seen, at |-> at]
  <2>2. r \in TabRequests /\ r.op = "insert" /\ r.seen = seen /\ r.at = now
    BY <2>1 DEF TabRequests
  <2>3. /\ tab' = [tab EXCEPT ![t] = r] /\ tab[t].op = "open" /\ now' = now + 1 /\ now < MaxTime
        /\ UNCHANGED <<shift, doc, cash, reported, raced>>
    BY <1>3, <2>1 DEF StampShift, Stamp
  <2> HIDE DEF r
  <2>4. \A s \in seen \ raced : shift[s] \in Shift /\ shift[s].status = "Closed"
    BY <2>1, <2>3 DEF ShiftsInv, TabOK
  <2>5. \A s \in seen : Before(reported[s], now)
    <3>1. \A s \in seen : reported[s] \in SUBSET Docs /\ Since(reported[s], s)
      BY DEF ShiftsInv, ShiftsTypeOK, ReportsOK
    <3>2. QED
      BY <3>1 DEF ShiftsInv, StampsOK, Since, Before
  <2>6. now <= now' /\ now < now' /\ now' \in 0 .. MaxTime /\ cash' \in [Shifts -> Int]
        /\ raced \subseteq raced' /\ raced' \in SUBSET Shifts
    BY <1>1, <2>3
  <2>7. \A s \in seen : Before(reported[s], r.at)'
    BY <2>2, <2>3, <2>5 DEF Before
  <2>8. TabOK(r)' /\ \A s \in Shifts : ~Closes(r, s)
    BY <2>2, <2>3, <2>4, <2>6, <2>7 DEF TabOK, Closes
  <2>9. QED
    BY <2>2, <2>3, <2>6, <2>8, TabWritten
<1>4. QED
  BY <1>2, <1>3

LEMMA MovementSteps ==
  ASSUME ShiftsInv, NEW t \in Tabs,
         \/ CheckMovement(t) \/ InsertMovement(t)
         \/ \E s \in Shifts, amount \in Movements : RecordMovement(t, s, amount)
  PROVE  ShiftsInv'
<1>1. cash \in [Shifts -> Int]
  BY DEF ShiftsInv, ShiftsTypeOK
<1>2. ASSUME NEW s \in Shifts, NEW amount \in Movements, RecordMovement(t, s, amount)
      PROVE  ShiftsInv'
  <2> DEFINE r == [op |-> "movement", shift |-> s, amount |-> amount]
  <2>1. r \in TabRequests /\ r.op = "movement"
    BY DEF TabRequests
  <2>2. tab' = [tab EXCEPT ![t] = r] /\ UNCHANGED <<now, shift, doc, cash, reported, raced>>
    BY <1>2 DEF RecordMovement, Click
  <2> HIDE DEF r
  <2>3. QED
    BY <1>1, <2>1, <2>2, PlainTabWritten
<1>3. CASE CheckMovement(t)
  <2>1. PICK s \in Shifts, amount \in Movements :
          s = tab[t].shift /\ amount = tab[t].amount
    BY <1>3, TabFields DEF CheckMovement, ShiftsInv
  <2> DEFINE r == [tab[t] EXCEPT !.op = "move"]
  <2>2. tab[t] \in TabRequests /\ tab[t].op = "movement"
    BY <1>3 DEF CheckMovement, ShiftsInv, ShiftsTypeOK
  <2>3. r \in TabRequests /\ r.op = "move"
    BY <2>2 DEF TabRequests, Quiet
  <2>4. /\ tab' = [tab EXCEPT ![t] = Quiet] \/ tab' = [tab EXCEPT ![t] = r]
        /\ UNCHANGED <<now, shift, doc, cash, reported, raced>>
    BY <1>3 DEF CheckMovement, ShiftsInv, ShiftsTypeOK
  <2> HIDE DEF r
  <2>5. QED
    BY <1>1, <2>3, <2>4, QuietOK, PlainTabWritten
<1>4. CASE InsertMovement(t)
  <2> DEFINE s == tab[t].shift
             amount == tab[t].amount
  <2>1. s \in Shifts /\ amount \in Movements /\ Movements \subseteq Int
    BY <1>4, TabFields, DrawerAssumption DEF InsertMovement, ShiftsInv
  <2>2. amount \in Int
    BY <2>1, Zenon
  <2>3. /\ cash' = [cash EXCEPT ![s] = @ + amount] /\ tab' = [tab EXCEPT ![t] = Quiet]
        /\ UNCHANGED <<now, shift, doc, reported, raced>>
    BY <1>4 DEF InsertMovement
  <2> HIDE DEF s, amount
  <2>4. cash' \in [Shifts -> Int]
    BY <1>1, <2>1, <2>2, <2>3
  <2>5. QED
    BY <2>3, <2>4, QuietOK, PlainTabWritten
<1>5. QED
  BY <1>2, <1>3, <1>4

LEMMA ClosingSteps ==
  ASSUME ShiftsInv, NEW t \in Tabs,
         StampClose(t) \/ ComputeWindow(t) \/ \E s \in Shifts : CloseShift(t, s)
  PROVE  ShiftsInv'
<1>1. /\ now \in 0 .. MaxTime /\ now \in Int /\ MaxTime \in Int
      /\ cash \in [Shifts -> Int] /\ raced \in SUBSET Shifts
  BY DrawerAssumption DEF ShiftsInv, ShiftsTypeOK
<1>2. ASSUME NEW s \in Shifts, CloseShift(t, s) PROVE ShiftsInv'
  <2> DEFINE r == [op |-> "closing", shift |-> s]
  <2>1. r \in TabRequests /\ r.op = "closing" /\ r.shift = s
    BY DEF TabRequests
  <2>2. /\ tab' = [tab EXCEPT ![t] = r] /\ shift[s].status = "Open" /\ shift[s] \in Shift
        /\ raced' = IF Closing(s) = {} THEN raced ELSE raced \cup {s}
        /\ UNCHANGED <<now, shift, doc, cash, reported>>
    BY <1>2, StatusFields DEF CloseShift, Click, Open, ShiftsInv
  <2> HIDE DEF r
  <2>3. now <= now' /\ now' \in 0 .. MaxTime /\ cash' \in [Shifts -> Int]
        /\ raced \subseteq raced' /\ raced' \in SUBSET Shifts
    BY <1>1, <2>2
  <2>4. TabOK(r)'
    BY <2>1, <2>2 DEF TabOK
  <2>5. ASSUME NEW u \in Shifts \ raced', Closes(r, u)
        PROVE  shift[u].status = "Open" /\ \A n \in Tabs \ {t} : ~Closes(tab[n], u)
    <3>1. u = s /\ Closing(s) = {}
      BY <2>1, <2>2, <2>5 DEF Closes
    <3>2. QED
      BY <2>2, <3>1 DEF Closing, Closes
  <2>6. QED
    BY <2>1, <2>2, <2>3, <2>4, <2>5, TabWritten
<1>3. ASSUME NEW r \in TabRequests, NEW s \in Shifts, tab' = [tab EXCEPT ![t] = r],
             tab[t].op \in {"closing", "close"}, s = tab[t].shift,
             r.op \in {"close", "report"}, r.shift = s, r.op = "report" => Since(r.docs, s)',
             now <= now', now' \in 0 .. MaxTime, UNCHANGED <<shift, doc, cash, reported, raced>>
      PROVE  ShiftsInv'
  <2>1. shift[s] \in Shift /\ Closes(tab[t], s)
    BY <1>3 DEF ShiftsInv, TabOK, Closes
  <2>2. TabOK(r)'
    BY <1>3, <2>1 DEF TabOK
  <2>3. ASSUME NEW u \in Shifts \ raced', Closes(r, u)
        PROVE  shift[u].status = "Open" /\ \A n \in Tabs \ {t} : ~Closes(tab[n], u)
    <3>1. u = s
      BY <1>3, <2>3 DEF Closes
    <3>2. QED
      BY <1>3, <2>1, <3>1 DEF ShiftsInv, ClosingOK
  <2>4. cash' \in [Shifts -> Int] /\ raced \subseteq raced' /\ raced' \in SUBSET Shifts
    BY <1>1, <1>3
  <2>5. QED
    BY <1>3, <2>2, <2>3, <2>4, TabWritten
<1>4. CASE StampClose(t)
  <2>1. PICK s \in Shifts : s = tab[t].shift
    BY <1>4, TabFields DEF StampClose, ShiftsInv
  <2>2. PICK at \in ServerClock : tab' = [tab EXCEPT ![t] = [op |-> "close", shift |-> s, at |-> at]]
    BY <1>4, <2>1 DEF StampClose
  <2>3. at \in Int
    <3>1. PICK skew \in Skews : at = now + skew
      BY DEF ServerClock
    <3>2. skew \in Int
      BY DrawerAssumption, Zenon
    <3>3. QED
      BY <1>1, <3>1, <3>2
  <2> DEFINE r == [op |-> "close", shift |-> s, at |-> at]
  <2>4. r \in TabRequests /\ r.op = "close" /\ r.shift = s
    BY <2>3 DEF TabRequests
  <2>5. /\ tab' = [tab EXCEPT ![t] = r] /\ tab[t].op = "closing" /\ now' = now + 1 /\ now < MaxTime
        /\ UNCHANGED <<shift, doc, cash, reported, raced>>
    BY <1>4, <2>2 DEF StampClose, Stamp
  <2> HIDE DEF r
  <2>6. now <= now' /\ now' \in 0 .. MaxTime
    BY <1>1, <2>5
  <2>7. QED
    BY <1>3, <2>1, <2>4, <2>5, <2>6
<1>5. CASE ComputeWindow(t)
  <2>1. PICK s \in Shifts, at \in Int : s = tab[t].shift /\ at = tab[t].at
    BY <1>5, TabFields DEF ComputeWindow, ShiftsInv
  <2>2. PICK docs \in SUBSET Docs : docs = Window(s, at)
    BY ExpectedCashInt
  <2>3. PICK expected \in Int : expected = ExpectedCash(s, at)
    BY ExpectedCashInt
  <2> DEFINE r == [op |-> "report", shift |-> s, docs |-> docs, expected |-> expected]
  <2>4. r \in TabRequests /\ r.op = "report" /\ r.shift = s /\ r.docs = docs
    BY DEF TabRequests
  <2>5. /\ tab' = [tab EXCEPT ![t] = r] /\ tab[t].op = "close"
        /\ UNCHANGED <<now, shift, doc, cash, reported, raced>>
    BY <1>5, <2>1, <2>2, <2>3 DEF ComputeWindow
  <2> HIDE DEF r
  <2>6. \A d \in docs : doc[d] \in Doc /\ doc[d].created >= shift[s].opened
    BY <2>2, StatusFields DEF Window, ShiftsInv
  <2>7. Since(r.docs, s)'
    BY <2>4, <2>5, <2>6 DEF Since
  <2>8. now <= now' /\ now' \in 0 .. MaxTime
    BY <1>1, <2>5
  <2>9. QED
    BY <1>3, <2>1, <2>4, <2>5, <2>7, <2>8
<1>6. QED
  BY <1>2, <1>4, <1>5

LEMMA InsertShiftStep ==
  ASSUME ShiftsInv, NEW t \in Tabs, NEW s \in Shifts, InsertShift(t, s), NEW r, r = tab[t]
  PROVE  ShiftsInv'
<1> DEFINE row == [status |-> "Open", opened |-> r.at, expected |-> 0]
           rivals == Existing \ r.seen
<1>1. /\ now \in 0 .. MaxTime /\ now \in Int /\ r.op = "insert"
      /\ r.at \in 0 .. MaxTime /\ r.seen \in SUBSET Shifts /\ TabOK(r)
  BY DrawerAssumption, TabFields DEF ShiftsInv, ShiftsTypeOK, InsertShift
<1>2. row \in Shift /\ row.opened = r.at /\ row.status = "Open"
  BY <1>1 DEF Shift
<1>3. /\ shift' = [shift EXCEPT ![s] = row] /\ shift[s] \notin Shift
      /\ tab' = [tab EXCEPT ![t] = Quiet]
      /\ raced' = IF rivals = {} THEN raced ELSE raced \cup rivals \cup {s}
      /\ UNCHANGED <<now, doc, cash, reported>>
  BY DEF InsertShift, Shift, NoShift
<1>4. raced \subseteq raced' /\ raced' \in SUBSET Shifts
  BY <1>3 DEF ShiftsInv, ShiftsTypeOK, Existing
<1>5. s \notin raced' => \A u \in Shifts : shift[u] \in Shift => u \in r.seen
  BY <1>3, StatusFields DEF Existing, ShiftsInv
<1> HIDE DEF row, rivals
<1>6. /\ \A u \in Shifts : shift'[u] = IF u = s THEN row ELSE shift[u]
      /\ \A n \in Tabs : tab'[n] = IF n = t THEN Quiet ELSE tab[n]
  BY <1>3 DEF ShiftsInv, ShiftsTypeOK
<1>7. ShiftsTypeOK'
  BY <1>2, <1>3, <1>4, QuietOK DEF ShiftsInv, ShiftsTypeOK
<1>8. RowsKept
  BY <1>1, <1>3, <1>4, <1>6 DEF RowsKept
<1>9. StampsOK'
  <2>1. r.at < now
    BY <1>1 DEF TabOK
  <2>2. QED
    BY <2>1, <1>2, <1>3, <1>6 DEF ShiftsInv, StampsOK
<1>10. ReportsOK'
  <2> SUFFICES ASSUME NEW u \in Shifts
               PROVE  Since(reported[u], u)' /\ (shift'[u] \notin Shift => reported'[u] = {})
    BY DEF ReportsOK
  <2>1. CASE shift[u] \in Shift
    BY <2>1, <1>3, <1>8, ReportsKept
  <2>2. CASE shift[u] \notin Shift
    BY <2>2, <1>3 DEF ShiftsInv, ReportsOK, Since
  <2>3. QED
    BY <2>1, <2>2
<1>11. ClosingOK'
  <2> SUFFICES ASSUME NEW u \in Shifts \ raced', NEW n \in Tabs, Closes(tab'[n], u)
               PROVE  /\ shift'[u].status = "Open"
                      /\ \A m \in Tabs : Closes(tab'[m], u) => m = n
    BY DEF ClosingOK, Closes
  <2>1. \A m \in Tabs : Closes(tab'[m], u) => Closes(tab[m], u)
    BY <1>6, QuietOK DEF Closes
  <2>2. Closes(tab[n], u) /\ u \in Shifts \ raced
    BY <1>4, <2>1
  <2>3. shift[u].status = "Open" /\ \A m \in Tabs : Closes(tab[m], u) => m = n
    BY <2>2 DEF ShiftsInv, ClosingOK
  <2>4. u # s
    BY <1>3, <2>2 DEF ShiftsInv, TabOK, Closes
  <2>5. QED
    BY <1>6, <2>1, <2>3, <2>4
<1>12. SuccessionOK'
  <2>1. ASSUME NEW u \in Shifts \ raced', u # s, shift[u] \in Shift, s \notin raced'
        PROVE  Precedes(u, s)'
    <3>1. u \in r.seen \ raced
      BY <1>4, <1>5, <2>1
    <3>2. shift[u].status = "Closed" /\ Before(reported[u], r.at)
      BY <1>1, <3>1 DEF TabOK
    <3>3. shift'[u].status = "Closed" /\ shift'[s].opened = r.at
      BY <1>2, <1>6, <2>1, <3>2
    <3>4. QED
      BY <1>3, <3>2, <3>3 DEF Precedes, Before
  <2>2. ASSUME NEW u \in Shifts \ raced', NEW v \in Shifts \ raced', u # v, u # s, v # s,
               shift[u] \in Shift, shift[v] \in Shift
        PROVE  Precedes(u, v)' \/ Precedes(v, u)'
    <3>1. Precedes(u, v) \/ Precedes(v, u)
      BY <1>4, <2>2 DEF ShiftsInv, SuccessionOK
    <3>2. QED
      BY <3>1, <2>2, <1>8, SpansKept
  <2>3. \A u \in Shifts : u # s /\ shift'[u] \in Shift => shift[u] \in Shift
    BY <1>6
  <2>4. QED
    BY <2>1, <2>2, <2>3 DEF SuccessionOK
<1>13. ASSUME NEW n \in Tabs PROVE TabOK(tab[n])'
  <2>1. CASE n = t
    BY <2>1, <1>6, QuietOK DEF TabOK
  <2>2. CASE n # t
    <3>1. PICK q : q = tab[n]
      OBVIOUS
    <3>2. TabOK(q)'
      BY <3>1, <1>7, <1>8, TabsKept
    <3>3. QED
      BY <2>2, <3>1, <3>2, <1>6 DEF TabOK
  <2>3. QED
    BY <2>1, <2>2
<1>14. QED
  BY <1>7, <1>9, <1>10, <1>11, <1>12, <1>13 DEF ShiftsInv

LEMMA WriteReportStep ==
  ASSUME ShiftsInv, NEW t \in Tabs, WriteReport(t), NEW r, r = tab[t]
  PROVE  ShiftsInv'
<1> DEFINE s == r.shift
           docs == r.docs
           row == [shift[s] EXCEPT !.status = "Closed", !.expected = r.expected]
<1>1. /\ r.op = "report"
      /\ shift' = [shift EXCEPT ![s].status = "Closed", ![s].expected = r.expected]
      /\ reported' = [reported EXCEPT ![s] = docs]
      /\ tab' = [tab EXCEPT ![t] = Quiet] /\ UNCHANGED <<now, doc, cash, raced>>
  BY DEF WriteReport
<1>2. /\ s \in Shifts /\ docs \in SUBSET Docs /\ r.expected \in Int
      /\ shift[s] \in Shift /\ Since(docs, s) /\ Closes(r, s)
  BY <1>1, TabFields DEF ShiftsInv, TabOK, Closes
<1>3. row \in Shift /\ row.status = "Closed" /\ row.opened = shift[s].opened
  BY <1>2 DEF Shift
<1>4. shift' = [shift EXCEPT ![s] = row]
  BY <1>1, <1>2 DEF ShiftsInv, ShiftsTypeOK
<1>5. s \notin raced => /\ shift[s].status = "Open"
                        /\ \A n \in Tabs : Closes(tab[n], s) => n = t
  BY <1>2 DEF ShiftsInv, ClosingOK
<1> HIDE DEF row, s, docs
<1>6. /\ \A u \in Shifts : shift'[u] = IF u = s THEN row ELSE shift[u]
      /\ \A n \in Tabs : tab'[n] = IF n = t THEN Quiet ELSE tab[n]
      /\ \A u \in Shifts : reported'[u] = IF u = s THEN docs ELSE reported[u]
  BY <1>1, <1>4 DEF ShiftsInv, ShiftsTypeOK
<1>7. ShiftsTypeOK'
  BY <1>1, <1>2, <1>3, <1>4, QuietOK DEF ShiftsInv, ShiftsTypeOK
<1>8. RowsKept
  <2>1. \A u \in Shifts : shift[u] \in Shift =>
          /\ shift'[u] \in Shift /\ shift'[u].opened = shift[u].opened
          /\ shift[u].status = "Closed" => shift'[u].status = "Closed"
    BY <1>3, <1>6
  <2>2. \A u \in Shifts \ raced' : shift[u].status = "Closed" => reported'[u] = reported[u]
    BY <1>1, <1>5, <1>6
  <2>3. now <= now'
    BY <1>1, DrawerAssumption DEF ShiftsInv, ShiftsTypeOK
  <2>4. QED
    BY <1>1, <2>1, <2>2, <2>3 DEF RowsKept
<1>9. \A u \in Shifts : shift'[u] \in Shift => shift[u] \in Shift
  BY <1>2, <1>6
<1>10. StampsOK'
  BY <1>1, <1>8, <1>9 DEF ShiftsInv, StampsOK, RowsKept
<1>11. ReportsOK'
  <2> SUFFICES ASSUME NEW u \in Shifts
               PROVE  Since(reported[u], u)' /\ (shift'[u] \notin Shift => reported'[u] = {})
    BY DEF ReportsOK
  <2>1. CASE u = s
    <3>1. shift'[s] \in Shift /\ Since(docs, s)'
      BY <1>2, <1>8, SpansKept DEF RowsKept
    <3>2. QED
      BY <2>1, <3>1, <1>2, <1>6 DEF Since
  <2>2. CASE u # s /\ shift[u] \in Shift
    BY <2>2, <1>6, <1>8, ReportsKept
  <2>3. CASE u # s /\ shift[u] \notin Shift
    BY <2>3, <1>6 DEF ShiftsInv, ReportsOK, Since
  <2>4. QED
    BY <2>1, <2>2, <2>3
<1>12. ClosingOK'
  <2> SUFFICES ASSUME NEW u \in Shifts \ raced', NEW n \in Tabs, Closes(tab'[n], u)
               PROVE  /\ shift'[u].status = "Open"
                      /\ \A m \in Tabs : Closes(tab'[m], u) => m = n
    BY DEF ClosingOK, Closes
  <2>1. /\ \A m \in Tabs : Closes(tab'[m], u) => m # t /\ Closes(tab[m], u)
        /\ u \in Shifts \ raced
    BY <1>1, <1>6, QuietOK DEF Closes
  <2>2. u # s
    BY <1>5, <2>1
  <2>3. QED
    BY <1>6, <2>1, <2>2 DEF ShiftsInv, ClosingOK
<1>13. SuccessionOK'
  <2> SUFFICES ASSUME NEW v \in Shifts \ raced', NEW u \in Shifts \ raced', v # u,
                      shift'[v] \in Shift, shift'[u] \in Shift
               PROVE  Precedes(v, u)' \/ Precedes(u, v)'
    BY DEF SuccessionOK
  <2>1. shift[v] \in Shift /\ shift[u] \in Shift
    BY <1>9
  <2>2. Precedes(v, u) \/ Precedes(u, v)
    BY <1>1, <2>1 DEF ShiftsInv, SuccessionOK
  <2>3. QED
    BY <2>1, <2>2, <1>8, SpansKept
<1>14. ASSUME NEW n \in Tabs PROVE TabOK(tab[n])'
  <2>1. CASE n = t
    BY <2>1, <1>6, QuietOK DEF TabOK
  <2>2. CASE n # t
    <3>1. PICK q : q = tab[n]
      OBVIOUS
    <3>2. TabOK(q)'
      BY <3>1, <1>7, <1>8, TabsKept
    <3>3. QED
      BY <2>2, <3>1, <3>2, <1>6 DEF TabOK
  <2>3. QED
    BY <2>1, <2>2
<1>15. QED
  BY <1>7, <1>10, <1>11, <1>12, <1>13, <1>14 DEF ShiftsInv

LEMMA ShiftsStep == ShiftsInv /\ ShiftsNext => ShiftsInv'
<1> SUFFICES ASSUME ShiftsInv, ShiftsNext PROVE ShiftsInv'
  OBVIOUS
<1>1. ASSUME NEW d \in Docs,
             (\E amount \in Takings : BeginDoc(d, amount)) \/ CommitDoc(d) \/ VoidDoc(d)
      PROVE  ShiftsInv'
  BY <1>1, DocSteps
<1>2. ASSUME NEW t \in Tabs,
             \/ OpenShift(t) \/ StampShift(t) \/ CheckMovement(t) \/ InsertMovement(t)
             \/ StampClose(t) \/ ComputeWindow(t) \/ WriteReport(t)
      PROVE  ShiftsInv'
  BY <1>2, OpeningSteps, MovementSteps, ClosingSteps, WriteReportStep
<1>3. ASSUME NEW t \in Tabs, NEW s \in Shifts,
             \/ InsertShift(t, s) \/ CloseShift(t, s)
             \/ \E amount \in Movements : RecordMovement(t, s, amount)
      PROVE  ShiftsInv'
  BY <1>3, InsertShiftStep, ClosingSteps, MovementSteps
<1>4. QED
  BY <1>1, <1>2, <1>3 DEF ShiftsNext

-----------------------------------------------------------------------------
(***************************************************************************)
(* Loyalty.                                                                *)
(***************************************************************************)
Forward == {"earned", "redeemed"}

\* At most one entry of a kind for a sale; a reversal is of an entry that is
\* there, and of its points.
LedgerOK(E) ==
  /\ E \subseteq Entry
  /\ \A e, f \in E : e.sale = f.sale /\ e.kind = f.kind => e = f
  /\ \A e \in E : e.kind \notin Forward =>
       \E f \in E : /\ f.sale = e.sale /\ f.kind \in Forward
                    /\ Reversed(f.kind) = e.kind /\ f.points = e.points

\* Entry e is reversed in the ledger E.
IsReversed(E, e) == \E f \in E : f.sale = e.sale /\ f.kind = Reversed(e.kind)

\* Nothing of sale s is left to reverse but the rows.
AllBut(E, s, rows) ==
  \A e \in E \ rows : e.sale = s /\ e.kind \in Forward => IsReversed(E, e)

\* A sale's owner has a wallet; its entries are that owner's; and a voided
\* sale has all its entries reversed, unless it was missed.
SalesOK ==
  /\ \A s \in Receipts : receipt[s] # NoReceipt =>
       /\ receipt[s].owner \in Owners /\ Known(receipt[s].owner)
       /\ receipt[s].status = "Voided" /\ s \notin missed => AllBut(entries, s, {})
  /\ \A e \in entries : receipt[e.sale] # NoReceipt /\ receipt[e.sale].owner = e.owner

\* The walk-in has a wallet for as long as the walk-in is there.
WalkInOK == /\ Known("walkIn") <=> enrolled
            /\ ~enrolled => Known("user")

\* A void acts for the sale's owner, or for the walk-in merged away since it
\* read the sale; its rows are what is left to reverse or reversed meanwhile.
\* A merge holds the walk-in's points as they are.
ServerOK(r) ==
  /\ r.op = "sell" => receipt[r.sale] = NoReceipt
  /\ r.op \in {"void", "reverse"} =>
       /\ receipt[r.sale] # NoReceipt /\ r.owner \in Owners
       /\ r.owner = receipt[r.sale].owner \/ (r.owner = "walkIn" /\ ~enrolled)
  /\ r.op = "reverse" =>
       /\ \A e \in r.rows : e.owner = r.owner /\ e.sale = r.sale /\ e.kind \in Forward
       /\ \/ r.owner = "walkIn" /\ ~enrolled
          \/ r.rows \subseteq entries /\ AllBut(entries, r.sale, r.rows)
  /\ r.op \in {"move", "delete"} => /\ r.points = wallets["walkIn"]
                                    /\ r.points # Missing \/ r.known

Apart(r, q) ==
  /\ ~(r.op \in {"move", "delete"} /\ q.op \in {"move", "delete"})
  /\ r.op = "sell" /\ q.op = "sell" => r.sale # q.sale

LoyaltyInv ==
  /\ LoyaltyTypeOK /\ LedgerOK(entries) /\ SalesOK /\ WalkInOK
  /\ \A v \in Servers : ServerOK(server[v])
  /\ \A u, v \in Servers : u # v => Apart(server[u], server[v])
  /\ WalletsMatchSales

Points(E, s, kind) == PointsOf({e \in E : e.sale = s}, kind)

WorthIn(E, s) ==
  Points(E, s, "earned") - Points(E, s, "redeemed")
    - Points(E, s, "earnReversed") + Points(E, s, "redeemReversed")

LEMMA WorthIsWorthIn ==
  \A s \in Receipts : Worth(s) = WorthIn(entries, s) /\ Worth(s)' = WorthIn(entries', s)
BY DEF Worth, WorthIn, Points

\* The points of a kind are those of the one row of that kind, if any.
LEMMA PointsOfOne ==
  ASSUME NEW rows, NEW kind
  PROVE  /\ \A e \in rows : /\ e.kind = kind /\ e.points \in Nat
                            /\ \A f \in rows : f.kind = kind => f = e
                            => PointsOf(rows, kind) = e.points
         /\ (\A e \in rows : e.kind # kind) => PointsOf(rows, kind) = 0
<1> DEFINE p == [e \in rows |-> e.points]
<1>1. ASSUME NEW e \in rows, e.kind = kind, e.points \in Nat,
             \A f \in rows : f.kind = kind => f = e
      PROVE  PointsOf(rows, kind) = e.points
  <2>1. {f \in rows : f.kind = kind} = {e}
    BY <1>1
  <2>2. PointsOf(rows, kind) = SumFunctionOnSet(p, {e})
    BY <2>1 DEF PointsOf
  <2>3. p[e] = e.points /\ p[e] \in Int
    BY <1>1
  <2> HIDE DEF p
  <2>4. SumFunctionOnSet(p, {e}) = p[e]
    BY <2>3, SumOne
  <2>5. QED
    BY <2>2, <2>3, <2>4
<1>2. ASSUME \A e \in rows : e.kind # kind PROVE PointsOf(rows, kind) = 0
  <2>1. {f \in rows : f.kind = kind} = {}
    BY <1>2
  <2>2. PointsOf(rows, kind) = SumFunctionOnSet(p, {})
    BY <2>1 DEF PointsOf
  <2>3. QED
    BY <2>2, SumEmpty
<1>3. QED
  BY <1>1, <1>2

LEMMA PointsAre ==
  ASSUME NEW E, LedgerOK(E), NEW s, NEW kind
  PROVE  /\ \A e \in E : e.sale = s /\ e.kind = kind => Points(E, s, kind) = e.points
         /\ (\A e \in E : ~(e.sale = s /\ e.kind = kind)) => Points(E, s, kind) = 0
         /\ Points(E, s, kind) \in Nat
<1> DEFINE rows == {e \in E : e.sale = s}
<1>1. \A e \in E : e.points \in Nat
  BY DEF LedgerOK, Entry
<1>2. ASSUME NEW e \in E, e.sale = s, e.kind = kind
      PROVE  Points(E, s, kind) = e.points
  <2>1. e \in rows /\ \A f \in rows : f.kind = kind => f = e
    BY <1>2 DEF LedgerOK
  <2> HIDE DEF rows
  <2>2. PointsOf(rows, kind) = e.points
    BY <1>1, <1>2, <2>1, PointsOfOne
  <2>3. QED
    BY <2>2 DEF Points, rows
<1>3. ASSUME \A e \in E : ~(e.sale = s /\ e.kind = kind)
      PROVE  Points(E, s, kind) = 0
  <2>1. \A e \in rows : e.kind # kind
    BY <1>3
  <2> HIDE DEF rows
  <2>2. PointsOf(rows, kind) = 0
    BY <2>1, PointsOfOne
  <2>3. QED
    BY <2>2 DEF Points, rows
<1>4. QED
  BY <1>1, <1>2, <1>3

LEMMA WorthIsInt ==
  ASSUME NEW E, LedgerOK(E), NEW s
  PROVE  WorthIn(E, s) \in Int
<1>1. /\ Points(E, s, "earned") \in Nat /\ Points(E, s, "redeemed") \in Nat
      /\ Points(E, s, "earnReversed") \in Nat /\ Points(E, s, "redeemReversed") \in Nat
  BY PointsAre
<1>2. QED
  BY <1>1 DEF WorthIn

\* Whose entries they are makes no difference.
LEMMA WorthSame ==
  ASSUME NEW E, LedgerOK(E), NEW F, LedgerOK(F), NEW s,
         \A e \in E : e.sale = s =>
           \E f \in F : f.sale = s /\ f.kind = e.kind /\ f.points = e.points,
         \A f \in F : f.sale = s => \E e \in E : e.sale = s /\ e.kind = f.kind
  PROVE  WorthIn(F, s) = WorthIn(E, s)
<1>1. ASSUME NEW kind PROVE Points(F, s, kind) = Points(E, s, kind)
  <2>1. CASE \E e \in E : e.sale = s /\ e.kind = kind
    <3>1. PICK e \in E : e.sale = s /\ e.kind = kind
      BY <2>1
    <3>2. PICK f \in F : f.sale = s /\ f.kind = kind /\ f.points = e.points
      BY <3>1
    <3>3. Points(E, s, kind) = e.points
      BY <3>1, PointsAre
    <3>4. Points(F, s, kind) = f.points
      BY <3>2, PointsAre
    <3>5. QED
      BY <3>2, <3>3, <3>4
  <2>2. CASE ~\E e \in E : e.sale = s /\ e.kind = kind
    <3>1. Points(E, s, kind) = 0
      BY <2>2, PointsAre
    <3>2. \A f \in F : ~(f.sale = s /\ f.kind = kind)
      BY <2>2
    <3>3. Points(F, s, kind) = 0
      BY <3>2, PointsAre
    <3>4. QED
      BY <3>1, <3>3
  <2>3. QED
    BY <2>1, <2>2
<1>2. QED
  BY <1>1 DEF WorthIn

\* A sale is worth what is left to reverse of it.
LEMMA WorthLeft ==
  ASSUME NEW E, LedgerOK(E), NEW s, NEW rows \in SUBSET E, AllBut(E, s, rows),
         \A e \in rows : e.sale = s /\ e.kind \in Forward /\ ~IsReversed(E, e)
  PROVE  /\ PointsOf(rows, "earned") \in Nat /\ PointsOf(rows, "redeemed") \in Nat
         /\ WorthIn(E, s) = PointsOf(rows, "earned") - PointsOf(rows, "redeemed")
<1>1. \A e, f \in E : e.kind \in Forward /\ f.sale = e.sale /\ f.kind = Reversed(e.kind)
                        => f.points = e.points
  <2> SUFFICES ASSUME NEW e \in E, NEW f \in E, e.kind \in Forward, f.sale = e.sale,
                      f.kind = Reversed(e.kind)
               PROVE  f.points = e.points
    OBVIOUS
  <2>1. f.kind \notin Forward
    BY DEF Reversed, Forward
  <2>2. PICK g \in E : /\ g.sale = f.sale /\ g.kind \in Forward
                       /\ Reversed(g.kind) = f.kind /\ g.points = f.points
    BY <2>1 DEF LedgerOK
  <2>3. g.kind = e.kind
    BY <2>2 DEF Reversed, Forward
  <2>4. QED
    BY <2>2, <2>3 DEF LedgerOK
<1>2. ASSUME NEW kind \in Forward
      PROVE  /\ PointsOf(rows, kind) \in Nat
             /\ Points(E, s, kind) \in Nat /\ Points(E, s, Reversed(kind)) \in Nat
             /\ Points(E, s, kind) - Points(E, s, Reversed(kind)) = PointsOf(rows, kind)
  <2>1. Points(E, s, kind) \in Nat /\ Points(E, s, Reversed(kind)) \in Nat
    BY PointsAre
  <2>2. CASE \E e \in rows : e.kind = kind
    <3>1. PICK e \in rows : e.kind = kind
      BY <2>2
    <3>2. e \in E /\ e.sale = s /\ e.points \in Nat /\ ~IsReversed(E, e)
      BY <3>1 DEF LedgerOK, Entry
    <3>3. \A f \in rows : f.kind = kind => f = e
      BY <3>1, <3>2 DEF LedgerOK
    <3>4. PointsOf(rows, kind) = e.points
      BY <3>1, <3>2, <3>3, PointsOfOne
    <3>5. Points(E, s, kind) = e.points
      BY <3>1, <3>2, PointsAre
    <3>6. \A f \in E : ~(f.sale = s /\ f.kind = Reversed(kind))
      BY <3>1, <3>2 DEF IsReversed
    <3>7. Points(E, s, Reversed(kind)) = 0
      BY <3>6, PointsAre
    <3>8. QED
      BY <2>1, <3>2, <3>4, <3>5, <3>7
  <2>3. CASE ~\E e \in rows : e.kind = kind
    <3>1. PointsOf(rows, kind) = 0
      BY <2>3, PointsOfOne
    <3>2. CASE \E e \in E : e.sale = s /\ e.kind = kind
      <4>1. PICK e \in E : e.sale = s /\ e.kind = kind
        BY <3>2
      <4>2. IsReversed(E, e)
        BY <2>3, <4>1 DEF AllBut
      <4>3. PICK f \in E : f.sale = s /\ f.kind = Reversed(kind)
        BY <4>1, <4>2 DEF IsReversed
      <4>4. f.points = e.points
        BY <1>1, <4>1, <4>3
      <4>5. Points(E, s, kind) = e.points
        BY <4>1, PointsAre
      <4>6. Points(E, s, Reversed(kind)) = f.points
        BY <4>3, PointsAre
      <4>7. QED
        BY <2>1, <3>1, <4>4, <4>5, <4>6
    <3>3. CASE ~\E e \in E : e.sale = s /\ e.kind = kind
      <4>1. Points(E, s, kind) = 0
        BY <3>3, PointsAre
      <4>2. \A f \in E : ~(f.sale = s /\ f.kind = Reversed(kind))
        <5> SUFFICES ASSUME NEW f \in E, f.sale = s, f.kind = Reversed(kind) PROVE FALSE
          OBVIOUS
        <5>1. f.kind \notin Forward
          BY DEF Reversed, Forward
        <5>2. PICK g \in E : g.sale = s /\ g.kind \in Forward /\ Reversed(g.kind) = f.kind
          BY <5>1 DEF LedgerOK
        <5>3. g.kind = kind
          BY <5>2 DEF Reversed, Forward
        <5>4. QED
          BY <3>3, <5>2, <5>3
      <4>3. Points(E, s, Reversed(kind)) = 0
        BY <4>2, PointsAre
      <4>4. QED
        BY <2>1, <3>1, <4>1, <4>3
    <3>4. QED
      BY <3>2, <3>3
  <2>4. QED
    BY <2>2, <2>3
<1>3. /\ PointsOf(rows, "earned") \in Nat
      /\ Points(E, s, "earned") \in Nat /\ Points(E, s, "earnReversed") \in Nat
      /\ Points(E, s, "earned") - Points(E, s, "earnReversed") = PointsOf(rows, "earned")
  BY <1>2 DEF Forward, Reversed
<1>4. /\ PointsOf(rows, "redeemed") \in Nat
      /\ Points(E, s, "redeemed") \in Nat /\ Points(E, s, "redeemReversed") \in Nat
      /\ Points(E, s, "redeemed") - Points(E, s, "redeemReversed") = PointsOf(rows, "redeemed")
  BY <1>2 DEF Forward, Reversed
<1>5. QED
  BY <1>3, <1>4 DEF WorthIn

LEMMA WorthSettled ==
  ASSUME NEW E, LedgerOK(E), NEW s, AllBut(E, s, {})
  PROVE  WorthIn(E, s) = 0
<1>1. PointsOf({}, "earned") = 0 /\ PointsOf({}, "redeemed") = 0
  BY PointsOfOne
<1>2. WorthIn(E, s) = PointsOf({}, "earned") - PointsOf({}, "redeemed")
  BY WorthLeft
<1>3. QED
  BY <1>1, <1>2

LEMMA ServerFields ==
  ASSUME LoyaltyTypeOK, NEW v \in Servers
  PROVE  /\ server[v].op = "sell" => /\ server[v].sale \in Receipts
                                     /\ server[v].owner \in Owners
                                     /\ server[v].redeem \in Nat
         /\ server[v].op \in {"void", "reverse"} => server[v].sale \in Receipts
         /\ server[v].op = "reverse" => server[v].rows \in SUBSET Entry
         /\ server[v].op \in {"move", "delete"} => /\ server[v].points \in Nat \cup {Missing}
                                                   /\ server[v].known \in BOOLEAN
         /\ server[v].op = "delete" => server[v].rows \in Int
         /\ server[v].op \in {"adjust", "note"} => /\ server[v].owner \in Owners
                                                   /\ server[v].points \in Int
<1>1. server[v] \in ServerRequests
  BY DEF LoyaltyTypeOK
<1>2. QED
  BY <1>1 DEF ServerRequests, Waiting

LEMMA WaitingOK ==
  /\ Waiting \in ServerRequests /\ Waiting.op = "waiting"
  /\ ServerOK(Waiting) /\ ServerOK(Waiting)'
  /\ \A q : Apart(Waiting, q) /\ Apart(q, Waiting)
BY DEF Waiting, ServerRequests, ServerOK, Apart

LEMMA ClampIs ==
  ASSUME NEW n \in Int
  PROVE  Clamp(n) = (IF n >= 0 THEN n ELSE 0) /\ Clamp(n) \in Nat
<1>1. CASE n >= 0
  <2>1. n \in {0, n} /\ \A y \in {0, n} : n >= y
    BY <1>1
  <2>2. \A x \in {0, n} : (\A y \in {0, n} : x >= y) => x = n
    BY <1>1
  <2>3. Max({0, n}) = n
    BY <2>1, <2>2 DEF Max
  <2>4. QED
    BY <1>1, <2>3 DEF Clamp
<1>2. CASE ~(n >= 0)
  <2>1. 0 \in {0, n} /\ \A y \in {0, n} : 0 >= y
    BY <1>2
  <2>2. \A x \in {0, n} : (\A y \in {0, n} : x >= y) => x = 0
    BY <1>2
  <2>3. Max({0, n}) = 0
    BY <2>1, <2>2 DEF Max
  <2>4. QED
    BY <1>2, <2>3 DEF Clamp
<1>3. QED
  BY <1>1, <1>2

LEMMA RowFields ==
  ASSUME LoyaltyTypeOK
  PROVE  /\ \A o \in Owners : /\ Known(o) <=> wallets[o] \in Nat
                              /\ ~Known(o) <=> wallets[o] = Missing
         /\ Missing \notin Nat
         /\ \A s \in Receipts :
              /\ receipt[s] # NoReceipt <=> receipt[s].status \in {"Active", "Voided"}
              /\ receipt[s] # NoReceipt =>
                   receipt[s] \in [status : {"Active", "Voided"}, owner : Owners \cup {"nobody"}]
BY PointsAssumption DEF LoyaltyTypeOK, Known, NoReceipt

Account(o) == IF Known(o) THEN wallets[o] ELSE 0

\* The sales that count for an owner, and what they come to.
Standing(o) == {s \in Receipts : /\ receipt[s] # NoReceipt
                                 /\ receipt[s].owner = o
                                 /\ receipt[s].status = "Active" \/ s \in missed}

Total(o) == SumFunctionOnSet([s \in Receipts |-> Worth(s)], Standing(o))

LEMMA Matches ==
  /\ WalletsMatchSales <=> \A o \in Owners : Account(o) = adjusted[o] + slack[o] + Total(o)
  /\ WalletsMatchSales'
       <=> \A o \in Owners : Account(o)' = adjusted'[o] + slack'[o] + Total(o)'
BY DEF WalletsMatchSales, Account, Total, Standing, Known

LEMMA TotalInt ==
  ASSUME LoyaltyInv, NEW o \in Owners
  PROVE  Total(o) \in Int /\ Account(o) \in Nat /\ adjusted[o] \in Int /\ slack[o] \in Int
<1> DEFINE f == [s \in Receipts |-> Worth(s)]
<1>1. \A s \in Standing(o) : f[s] \in Int
  BY WorthIsWorthIn, WorthIsInt DEF Standing, LoyaltyInv
<1>2. IsFiniteSet(Standing(o))
  BY PointsAssumption, FS_Subset DEF Standing
<1> HIDE DEF f
<1>3. SumFunctionOnSet(f, Standing(o)) \in Int
  BY <1>1, <1>2, SumInt
<1>4. Account(o) \in Nat
  BY RowFields DEF Account, LoyaltyInv
<1>5. QED
  BY <1>3, <1>4 DEF Total, f, LoyaltyInv, LoyaltyTypeOK

LEMMA TotalSame ==
  ASSUME UNCHANGED <<receipt, entries, missed>>, NEW o \in Owners
  PROVE  Total(o)' = Total(o)
BY DEF Total, Standing, Worth

\* One sale is written.
LEMMA TotalChange ==
  ASSUME LoyaltyInv, LedgerOK(entries'), NEW k \in Receipts, NEW o \in Owners,
         \A s \in Receipts : s # k => /\ s \in Standing(o) <=> s \in Standing(o)'
                                      /\ WorthIn(entries', s) = WorthIn(entries, s)
  PROVE  Total(o)' = Total(o) + (IF k \in Standing(o)' THEN WorthIn(entries', k) ELSE 0)
                              - (IF k \in Standing(o) THEN WorthIn(entries, k) ELSE 0)
<1> DEFINE f == [s \in Receipts |-> Worth(s)]
           g == [s \in Receipts |-> Worth(s)']
           P == Standing(o)
           Q == Standing(o)'
<1>1. P \in SUBSET Receipts /\ Q \in SUBSET Receipts
  BY DEF Standing
<1>2. \A s \in Receipts : /\ f[s] = WorthIn(entries, s) /\ g[s] = WorthIn(entries', s)
                          /\ f[s] \in Int /\ g[s] \in Int
  BY WorthIsWorthIn, WorthIsInt DEF LoyaltyInv
<1>3. \A s \in Receipts : s # k => (s \in P <=> s \in Q) /\ g[s] = f[s]
  BY <1>2
<1>4. Total(o) = SumFunctionOnSet(f, P) /\ Total(o)' = SumFunctionOnSet(g, Q)
  BY DEF Total
<1> HIDE DEF f, g, P, Q
<1>5. SumFunctionOnSet(g, Q) = SumFunctionOnSet(f, P)
        + (IF k \in Q THEN g[k] ELSE 0) - (IF k \in P THEN f[k] ELSE 0)
  BY <1>1, <1>2, <1>3, PointsAssumption, SumChange
<1>6. QED
  BY <1>2, <1>4, <1>5 DEF P, Q

\* What a request in flight asks of the tables still holds.
LEMMA ServerKept ==
  ASSUME LoyaltyInv, NEW u \in Servers, NEW q, q = server[u], enrolled' = enrolled,
         \A s \in Receipts : receipt[s] # NoReceipt =>
           receipt'[s] # NoReceipt /\ receipt'[s].owner = receipt[s].owner,
         q.op = "sell" => receipt'[q.sale] = receipt[q.sale],
         entries \subseteq entries',
         \A e \in entries' \ entries : e.kind \in Forward => receipt[e.sale] = NoReceipt,
         q.op \in {"move", "delete"} => wallets'["walkIn"] = wallets["walkIn"]
  PROVE  ServerOK(q)'
<1>1. ServerOK(q)
  BY DEF LoyaltyInv
<1>2. q.op \in {"sell", "void", "reverse"} => q.sale \in Receipts
  BY ServerFields DEF LoyaltyInv
<1>3. q.op = "sell" => receipt'[q.sale] = NoReceipt
  BY <1>1 DEF ServerOK
<1>4. q.op \in {"void", "reverse"} =>
        /\ receipt'[q.sale] # NoReceipt /\ q.owner \in Owners
        /\ q.owner = receipt'[q.sale].owner \/ (q.owner = "walkIn" /\ ~enrolled')
  BY <1>1, <1>2 DEF ServerOK
<1>5. q.op = "reverse" =>
        /\ \A e \in q.rows : e.owner = q.owner /\ e.sale = q.sale /\ e.kind \in Forward
        /\ \/ q.owner = "walkIn" /\ ~enrolled'
           \/ q.rows \subseteq entries' /\ AllBut(entries', q.sale, q.rows)
  <2> SUFFICES ASSUME q.op = "reverse", q.rows \subseteq entries, AllBut(entries, q.sale, q.rows)
               PROVE  AllBut(entries', q.sale, q.rows)
    BY <1>1 DEF ServerOK
  <2> SUFFICES ASSUME NEW e \in entries' \ q.rows, e.sale = q.sale, e.kind \in Forward
               PROVE  IsReversed(entries', e)
    BY DEF AllBut
  <2>1. e \in entries
    BY <1>1 DEF ServerOK
  <2>2. IsReversed(entries, e)
    BY <2>1 DEF AllBut
  <2>3. QED
    BY <2>2 DEF IsReversed
<1>6. q.op \in {"move", "delete"} => q.points = wallets'["walkIn"] /\ (q.points # Missing \/ q.known)
  BY <1>1 DEF ServerOK
<1>7. QED
  BY <1>3, <1>4, <1>5, <1>6 DEF ServerOK

\* The parts of a step, put together.
LEMMA Together ==
  ASSUME LoyaltyInv, NEW v \in Servers, NEW r \in ServerRequests,
         server' = [server EXCEPT ![v] = r], ServerOK(r)',
         \A u \in Servers : u # v => Apart(r, server[u]) /\ Apart(server[u], r),
         \A u \in Servers : u # v => \A q : q = server[u] => ServerOK(q)',
         wallets' \in [Owners -> Nat \cup {Missing}], enrolled' \in BOOLEAN,
         receipt' \in [Receipts -> {NoReceipt}
           \cup [status : {"Active", "Voided"}, owner : Owners \cup {"nobody"}]],
         adjusted' \in [Owners -> Int], slack' \in [Owners -> Int], missed' \subseteq Receipts,
         LedgerOK(entries'), SalesOK', WalkInOK',
         \A o \in Owners : Account(o)' = adjusted'[o] + slack'[o] + Total(o)'
  PROVE  LoyaltyInv'
<1>1. server' \in [Servers -> ServerRequests]
  BY DEF LoyaltyInv, LoyaltyTypeOK
<1>2. \A u \in Servers : server'[u] = IF u = v THEN r ELSE server[u]
  BY DEF LoyaltyInv, LoyaltyTypeOK
<1>3. LoyaltyTypeOK'
  BY <1>1 DEF LoyaltyTypeOK, LedgerOK
<1>4. \A u \in Servers : ServerOK(server[u])'
  <2> SUFFICES ASSUME NEW u \in Servers PROVE ServerOK(server[u])'
    OBVIOUS
  <2>1. PICK q : q = server'[u]
    OBVIOUS
  <2>2. ServerOK(q)'
    BY <2>1, <1>2
  <2>3. QED
    BY <2>1, <2>2 DEF ServerOK
<1>5. \A u, w \in Servers : u # w => Apart(server'[u], server'[w])
  BY <1>2 DEF LoyaltyInv
<1>6. WalletsMatchSales'
  BY Matches
<1>7. QED
  BY <1>3, <1>4, <1>5, <1>6 DEF LoyaltyInv, LedgerOK, Apart

LEMMA LoyaltyStutter == LoyaltyInv /\ UNCHANGED loyalty => LoyaltyInv'
<1> SUFFICES ASSUME LoyaltyInv, UNCHANGED loyalty PROVE LoyaltyInv'
  OBVIOUS
<1>1. UNCHANGED <<wallets, enrolled, receipt, entries, adjusted, server, slack, missed>>
  BY DEF loyalty
<1>2. LoyaltyTypeOK' /\ LedgerOK(entries)'
  BY <1>1 DEF LoyaltyInv, LoyaltyTypeOK, LedgerOK
<1>3. SalesOK' /\ WalkInOK' /\ WalletsMatchSales'
  BY <1>1 DEF LoyaltyInv, SalesOK, AllBut, IsReversed, Known, WalkInOK, WalletsMatchSales, Worth
<1>4. \A v \in Servers : ServerOK(server[v])'
  BY <1>1 DEF LoyaltyInv, ServerOK, AllBut, IsReversed
<1>5. QED
  BY <1>1, <1>2, <1>3, <1>4 DEF LoyaltyInv, Apart

\* A step that writes nothing but its own request, and perhaps opens a wallet
\* of the user with nothing in it.
LEMMA ServerStep ==
  ASSUME LoyaltyInv, NEW v \in Servers, NEW r \in ServerRequests,
         server' = [server EXCEPT ![v] = r], ServerOK(r),
         \A u \in Servers : u # v => Apart(r, server[u]) /\ Apart(server[u], r),
         \/ UNCHANGED wallets
         \/ ~Known("user") /\ wallets' = [wallets EXCEPT !["user"] = 0],
         UNCHANGED <<enrolled, receipt, entries, adjusted, slack, missed>>
  PROVE  LoyaltyInv'
<1>1. /\ LoyaltyTypeOK /\ LedgerOK(entries) /\ SalesOK /\ WalkInOK /\ WalletsMatchSales
      /\ Owners = {"user", "walkIn"}
  BY DEF LoyaltyInv, Owners
<1>2. /\ wallets' \in [Owners -> Nat \cup {Missing}] /\ wallets'["walkIn"] = wallets["walkIn"]
      /\ \A o \in Owners : Account(o)' = Account(o) /\ (Known(o) => Known(o)')
      /\ Known("walkIn") <=> Known("walkIn")'
  <2>1. CASE UNCHANGED wallets
    BY <1>1, <2>1 DEF LoyaltyTypeOK, Account, Known
  <2>2. CASE ~Known("user") /\ wallets' = [wallets EXCEPT !["user"] = 0]
    <3>1. 0 # Missing
      BY PointsAssumption
    <3>2. /\ wallets' \in [Owners -> Nat \cup {Missing}]
          /\ wallets'["user"] = 0 /\ wallets'["walkIn"] = wallets["walkIn"]
      BY <1>1, <2>2 DEF LoyaltyTypeOK
    <3>3. QED
      BY <1>1, <2>2, <3>1, <3>2 DEF Account, Known
  <2>3. QED
    BY <2>1, <2>2
<1>3. ServerOK(r)'
  BY <1>2 DEF ServerOK, AllBut, IsReversed
<1>4. ASSUME NEW u \in Servers, NEW q, q = server[u] PROVE ServerOK(q)'
  BY <1>2, <1>4, ServerKept
<1>5. SalesOK'
  BY <1>1, <1>2 DEF SalesOK, AllBut, IsReversed
<1>6. WalkInOK'
  BY <1>1, <1>2 DEF WalkInOK, Owners
<1>7. \A o \in Owners : Account(o)' = adjusted'[o] + slack'[o] + Total(o)'
  BY <1>1, <1>2, Matches, TotalSame
<1>8. LedgerOK(entries') /\ missed' \subseteq Receipts /\ enrolled' \in BOOLEAN
  BY <1>1 DEF LoyaltyTypeOK
<1>9. QED
  BY <1>1, <1>2, <1>3, <1>4, <1>5, <1>6, <1>7, <1>8, Together DEF LoyaltyTypeOK

LEMMA LoyaltyInitInv == LoyaltyInit => LoyaltyInv
<1> SUFFICES ASSUME LoyaltyInit PROVE LoyaltyInv
  OBVIOUS
<1>1. Balance \in Nat /\ Missing \notin Nat
  BY PointsAssumption
<1>2. /\ wallets \in [Owners -> Nat \cup {Missing}] /\ wallets["user"] = Missing
      /\ wallets["walkIn"] = Balance
      /\ adjusted \in [Owners -> Int] /\ adjusted["user"] = 0 /\ adjusted["walkIn"] = Balance
      /\ slack \in [Owners -> Int] /\ slack["user"] = 0 /\ slack["walkIn"] = 0
  BY <1>1 DEF LoyaltyInit, Owners
<1>3. \A v \in Servers : server[v] = Waiting
  BY DEF LoyaltyInit
<1>4. server \in [Servers -> ServerRequests]
  BY WaitingOK DEF LoyaltyInit
<1>5. LoyaltyTypeOK
  BY <1>2, <1>4 DEF LoyaltyInit, LoyaltyTypeOK
<1>6. LedgerOK(entries) /\ SalesOK
  BY DEF LoyaltyInit, LedgerOK, SalesOK
<1>7. WalkInOK
  BY <1>1, <1>2 DEF LoyaltyInit, WalkInOK, Known
<1>8. \A o \in Owners : Account(o) = adjusted[o] + slack[o] + Total(o)
  <2> SUFFICES ASSUME NEW o \in Owners
               PROVE  Account(o) = adjusted[o] + slack[o] + Total(o)
    OBVIOUS
  <2>1. Standing(o) = {}
    BY DEF LoyaltyInit, Standing
  <2>2. Total(o) = 0
    BY <2>1, SumEmpty DEF Total
  <2>3. Account(o) = adjusted[o]
    BY <1>1, <1>2 DEF Account, Known, Owners
  <2>4. slack[o] = 0 /\ adjusted[o] \in Int
    BY <1>1, <1>2 DEF Owners
  <2>5. QED
    BY <2>2, <2>3, <2>4
<1>9. /\ \A v \in Servers : ServerOK(server[v])
      /\ \A u, v \in Servers : Apart(server[u], server[v])
  BY <1>3, WaitingOK
<1>10. QED
  BY <1>5, <1>6, <1>7, <1>8, <1>9, Matches DEF LoyaltyInv

LEMMA MinOfTwo ==
  ASSUME NEW a \in Nat, NEW b \in Nat
  PROVE  Min({a, b}) \in Nat
<1>1. {a, b} # {} /\ {a, b} \subseteq Int /\ IsFiniteSet({a, b})
  <2>1. IsFiniteSet({a} \cup {b})
    BY FS_Singleton, FS_AddElement
  <2>2. {a} \cup {b} = {a, b}
    OBVIOUS
  <2>3. QED
    BY <2>1, <2>2
<1>2. Min({a, b}) \in {a, b}
  BY <1>1, MinIn
<1>3. QED
  BY <1>2

LEMMA PreviewRedeemStep ==
  ASSUME LoyaltyInv, NEW v \in Servers, NEW s \in Receipts, NEW o \in Owners,
         PreviewRedeem(v, s, o)
  PROVE  LoyaltyInv'
<1>1. Account(o) \in Nat
  BY TotalInt
<1>2. PICK redeem : redeem = Min({Asked[s], Redeemable(Account(o))})
  OBVIOUS
<1> DEFINE r == [op |-> "sell", sale |-> s, owner |-> o, redeem |-> redeem]
<1>3. redeem \in Nat
  <2>1. Redeemable(Account(o)) \in Nat
    <3>1. Account(o) - MinPoints \in Int
      BY <1>1, PointsAssumption
    <3>2. QED
      BY <3>1, ClampIs DEF Redeemable
  <2>2. Asked[s] \in Nat
    BY PointsAssumption
  <2>3. QED
    BY <1>2, <2>1, <2>2, MinOfTwo
<1>4. /\ receipt[s] = NoReceipt /\ (o = "walkIn" => enrolled)
      /\ \A u \in Servers : server[u].op = "sell" => server[u].sale # s
      /\ wallets' = [wallets EXCEPT ![o] = Account(o)]
      /\ server' = [server EXCEPT ![v] = r]
      /\ UNCHANGED <<enrolled, receipt, entries, adjusted, slack, missed>>
  BY <1>2 DEF PreviewRedeem, Serve, Account
<1>5. /\ r \in ServerRequests /\ ServerOK(r)
      /\ \A u \in Servers : Apart(r, server[u]) /\ Apart(server[u], r)
  BY <1>3, <1>4 DEF ServerRequests, ServerOK, Apart
<1>6. \/ UNCHANGED wallets
      \/ ~Known("user") /\ wallets' = [wallets EXCEPT !["user"] = 0]
  <2>1. CASE Known(o)
    BY <1>4, <2>1 DEF Account, LoyaltyInv, LoyaltyTypeOK
  <2>2. CASE ~Known(o)
    <3>1. o = "user"
      BY <1>4, <2>2 DEF LoyaltyInv, WalkInOK, Owners
    <3>2. QED
      BY <1>4, <2>2, <3>1 DEF Account
  <2>3. QED
    BY <2>1, <2>2
<1> HIDE DEF r
<1>7. QED
  BY <1>4, <1>5, <1>6, ServerStep

LEMMA LoyaltyReadSteps ==
  ASSUME LoyaltyInv, NEW v \in Servers,
         \/ \E s \in Receipts : ReadForVoid(v, s)
         \/ FindEntries(v) \/ StartMerge(v) \/ LockWallets(v) \/ HandOverEntries(v)
         \/ \E o \in Owners, n \in Corrections : AdjustPoints(v, o, n)
         \/ Abandon(v)
  PROVE  LoyaltyInv'
<1>1. ASSUME NEW s \in Receipts, ReadForVoid(v, s) PROVE LoyaltyInv'
  <2>1. PICK o : o = receipt[s].owner
    OBVIOUS
  <2> DEFINE r == [op |-> "void", sale |-> s, owner |-> o]
  <2>2. receipt[s] # NoReceipt /\ o \in Owners
    BY <1>1, <2>1, RowFields DEF ReadForVoid, LoyaltyInv, SalesOK
  <2>3. r \in ServerRequests /\ ServerOK(r) /\ \A q : Apart(r, q) /\ Apart(q, r)
    BY <2>1, <2>2 DEF ServerRequests, ServerOK, Apart
  <2>4. /\ server' = [server EXCEPT ![v] = r]
        /\ UNCHANGED <<wallets, enrolled, receipt, entries, adjusted, slack, missed>>
    BY <1>1, <2>1 DEF ReadForVoid, Serve
  <2> HIDE DEF r
  <2>5. QED
    BY <2>3, <2>4, ServerStep
<1>2. CASE FindEntries(v)
  <2>1. PICK q : q = server[v]
    OBVIOUS
  <2>2. q.op = "void" /\ ServerOK(q) /\ q.sale \in Receipts
    BY <1>2, <2>1, ServerFields DEF FindEntries, LoyaltyInv
  <2>3. PICK rows : rows = {e \in entries : /\ e.owner = q.owner /\ e.sale = q.sale
                                            /\ e.kind \in {"earned", "redeemed"}
                                            /\ ~Has(q.owner, q.sale, Reversed(e.kind))}
    OBVIOUS
  <2> DEFINE r == [op |-> "reverse", sale |-> q.sale, owner |-> q.owner, rows |-> rows]
  <2>4. q.owner \in Owners /\ rows \subseteq entries /\ rows \in SUBSET Entry
    BY <2>2, <2>3 DEF ServerOK, LoyaltyInv, LoyaltyTypeOK
  <2>5. r \in ServerRequests
    BY <2>2, <2>4 DEF ServerRequests
  <2>6. q.owner = receipt[q.sale].owner => AllBut(entries, q.sale, rows)
    <3> SUFFICES ASSUME q.owner = receipt[q.sale].owner, NEW e \in entries \ rows,
                        e.sale = q.sale, e.kind \in Forward
                 PROVE  IsReversed(entries, e)
      BY DEF AllBut
    <3>1. e.owner = q.owner
      BY DEF LoyaltyInv, SalesOK
    <3>2. Has(q.owner, q.sale, Reversed(e.kind))
      BY <2>3, <3>1 DEF Forward
    <3>3. QED
      BY <3>2 DEF Has, IsReversed
  <2>7. \A e \in rows : e.owner = q.owner /\ e.sale = q.sale /\ e.kind \in Forward
    BY <2>3 DEF Forward
  <2>8. ServerOK(r)
    BY <2>2, <2>4, <2>6, <2>7 DEF ServerOK
  <2>9. \A p : Apart(r, p) /\ Apart(p, r)
    BY DEF Apart
  <2>10. /\ server' = [server EXCEPT ![v] = r]
         /\ UNCHANGED <<wallets, enrolled, receipt, entries, adjusted, slack, missed>>
    BY <1>2, <2>1, <2>3 DEF FindEntries, Resume
  <2> HIDE DEF r
  <2>11. QED
    BY <2>5, <2>8, <2>9, <2>10, ServerStep
<1>3. CASE StartMerge(v)
  <2> DEFINE r == [op |-> "merge"]
  <2>1. r \in ServerRequests /\ ServerOK(r) /\ \A q : Apart(r, q) /\ Apart(q, r)
    BY DEF ServerRequests, ServerOK, Apart
  <2>2. /\ server' = [server EXCEPT ![v] = r]
        /\ UNCHANGED <<wallets, enrolled, receipt, entries, adjusted, slack, missed>>
    BY <1>3 DEF StartMerge, Serve
  <2> HIDE DEF r
  <2>3. QED
    BY <2>1, <2>2, ServerStep
<1>4. CASE LockWallets(v)
  <2>1. PICK known \in BOOLEAN : known = Known("user")
    BY DEF Known
  <2> DEFINE points == wallets["walkIn"]
  <2> DEFINE r == [op |-> "move", points |-> points, known |-> known]
  <2>2. points \in Nat \cup {Missing} /\ (points # Missing \/ known)
    BY <2>1 DEF LoyaltyInv, LoyaltyTypeOK, WalkInOK, Known, Owners
  <2>3. r \in ServerRequests /\ ServerOK(r)
    BY <2>1, <2>2 DEF ServerRequests, ServerOK
  <2>4. \A u \in Servers : server[u].op \notin {"move", "delete"}
    <3> SUFFICES ASSUME NEW u \in Servers, server[u].op \in {"move", "delete"} PROVE FALSE
      OBVIOUS
    <3>1. server[u].points # Missing \/ server[u].known
      BY DEF LoyaltyInv, ServerOK
    <3>2. WalletLocked("user") \/ WalletLocked("walkIn")
      BY <3>1 DEF WalletLocked
    <3>3. QED
      BY <1>4, <3>2 DEF LockWallets, Owners
  <2>5. \A u \in Servers : Apart(r, server[u]) /\ Apart(server[u], r)
    BY <2>4 DEF Apart
  <2>6. /\ server' = [server EXCEPT ![v] = r]
        /\ UNCHANGED <<wallets, enrolled, receipt, entries, adjusted, slack, missed>>
    BY <1>4, <2>1 DEF LockWallets, Resume
  <2> HIDE DEF r
  <2>7. QED
    BY <2>3, <2>5, <2>6, ServerStep
<1>5. CASE HandOverEntries(v)
  <2>1. PICK q, rows : q = server[v] /\ rows = adjusted["walkIn"]
    OBVIOUS
  <2> DEFINE r == [op |-> "delete", points |-> q.points, known |-> q.known, rows |-> rows]
  <2>2. /\ q.op = "move" /\ ServerOK(q)
        /\ q.points \in Nat \cup {Missing} /\ q.known \in BOOLEAN
    BY <1>5, <2>1, ServerFields DEF HandOverEntries, LoyaltyInv
  <2>3. rows \in Int
    BY <2>1 DEF LoyaltyInv, LoyaltyTypeOK, Owners
  <2>4. r \in ServerRequests /\ ServerOK(r)
    BY <2>2, <2>3 DEF ServerRequests, ServerOK
  <2>5. \A u \in Servers : u # v => Apart(r, server[u]) /\ Apart(server[u], r)
    BY <2>1, <2>2 DEF LoyaltyInv, Apart
  <2>6. /\ server' = [server EXCEPT ![v] = r]
        /\ UNCHANGED <<wallets, enrolled, receipt, entries, adjusted, slack, missed>>
    BY <1>5, <2>1 DEF HandOverEntries, Resume
  <2> HIDE DEF r
  <2>7. QED
    BY <2>4, <2>5, <2>6, ServerStep
<1>6. ASSUME NEW o \in Owners, NEW n \in Corrections, AdjustPoints(v, o, n) PROVE LoyaltyInv'
  <2> DEFINE r == [op |-> "adjust", owner |-> o, points |-> n]
  <2>1. Corrections \subseteq Int
    BY PointsAssumption
  <2>2. n \in Int
    BY <2>1, Zenon
  <2>3. r \in ServerRequests /\ ServerOK(r) /\ \A q : Apart(r, q) /\ Apart(q, r)
    BY <2>2 DEF ServerRequests, ServerOK, Apart
  <2>4. /\ server' = [server EXCEPT ![v] = r]
        /\ UNCHANGED <<wallets, enrolled, receipt, entries, adjusted, slack, missed>>
    BY <1>6 DEF AdjustPoints, Serve
  <2> HIDE DEF r
  <2>5. QED
    BY <2>3, <2>4, ServerStep
<1>7. CASE Abandon(v)
  BY <1>7, WaitingOK, ServerStep DEF Abandon, Served, Resume
<1>8. QED
  BY <1>1, <1>2, <1>3, <1>4, <1>5, <1>6, <1>7

\* A merge that holds the walk-in's wallet keeps the others from it.
LEMMA LockHolds ==
  ASSUME LoyaltyInv, NEW o \in Owners, Known(o), ~WalletLocked(o), NEW n,
         wallets' = [wallets EXCEPT ![o] = n]
  PROVE  \A u \in Servers : server[u].op \in {"move", "delete"} =>
           wallets'["walkIn"] = wallets["walkIn"]
<1> SUFFICES ASSUME NEW u \in Servers, server[u].op \in {"move", "delete"}
             PROVE  wallets'["walkIn"] = wallets["walkIn"]
  OBVIOUS
<1>1. CASE o = "walkIn"
  <2>1. server[u].points = wallets["walkIn"]
    BY DEF LoyaltyInv, ServerOK
  <2>2. WalletLocked("walkIn")
    BY <1>1, <2>1 DEF WalletLocked, Known
  <2>3. QED
    BY <1>1, <2>2
<1>2. CASE o # "walkIn"
  BY <1>2 DEF LoyaltyInv, LoyaltyTypeOK, Owners
<1>3. QED
  BY <1>1, <1>2

\* A step that moves points and notes them, and touches no sale.
LEMMA BalanceStep ==
  ASSUME LoyaltyInv, NEW v \in Servers, NEW r \in ServerRequests,
         r.op \notin {"sell", "void", "reverse", "move", "delete"},
         server' = [server EXCEPT ![v] = r],
         wallets' \in [Owners -> Nat \cup {Missing}], adjusted' \in [Owners -> Int],
         slack' \in [Owners -> Int], UNCHANGED <<enrolled, receipt, entries, missed>>,
         \A o \in Owners : Known(o)' <=> Known(o),
         \A u \in Servers : server[u].op \in {"move", "delete"} =>
           wallets'["walkIn"] = wallets["walkIn"],
         \A o \in Owners : Account(o)' - adjusted'[o] - slack'[o]
                             = Account(o) - adjusted[o] - slack[o]
  PROVE  LoyaltyInv'
<1>1. /\ LoyaltyTypeOK /\ LedgerOK(entries) /\ SalesOK /\ WalkInOK /\ WalletsMatchSales
      /\ Owners = {"user", "walkIn"}
  BY DEF LoyaltyInv, Owners
<1>2. ServerOK(r)' /\ \A q : Apart(r, q) /\ Apart(q, r)
  BY DEF ServerOK, Apart
<1>3. ASSUME NEW u \in Servers, NEW q, q = server[u] PROVE ServerOK(q)'
  BY <1>3, ServerKept
<1>4. SalesOK' /\ WalkInOK'
  BY <1>1 DEF SalesOK, WalkInOK, AllBut, IsReversed
<1>5. ASSUME NEW o \in Owners PROVE Account(o)' = adjusted'[o] + slack'[o] + Total(o)'
  <2>1. Account(o)' \in Nat
    BY PointsAssumption DEF Account, Known
  <2>2. /\ Total(o) \in Int /\ Account(o) \in Nat /\ adjusted[o] \in Int /\ slack[o] \in Int
        /\ adjusted'[o] \in Int /\ slack'[o] \in Int
    BY TotalInt
  <2>3. Total(o)' = Total(o) /\ Account(o) = adjusted[o] + slack[o] + Total(o)
    BY <1>1, Matches, TotalSame
  <2>4. Account(o)' - adjusted'[o] - slack'[o] = Account(o) - adjusted[o] - slack[o]
    OBVIOUS
  <2>5. QED
    BY <2>1, <2>2, <2>3, <2>4
<1>6. LedgerOK(entries') /\ missed' \subseteq Receipts /\ enrolled' \in BOOLEAN
      /\ receipt' \in [Receipts -> {NoReceipt}
           \cup [status : {"Active", "Voided"}, owner : Owners \cup {"nobody"}]]
  BY <1>1 DEF LoyaltyTypeOK
<1>7. QED
  BY <1>2, <1>3, <1>4, <1>5, <1>6, Together

LEMMA AdjustSteps ==
  ASSUME LoyaltyInv, NEW v \in Servers, AdjustWallet(v) \/ NoteAdjustment(v), NEW q, q = server[v]
  PROVE  LoyaltyInv'
<1> DEFINE o == q.owner
           n == q.points
<1>1. q.op \in {"adjust", "note"} /\ o \in Owners /\ n \in Int
  BY ServerFields DEF AdjustWallet, NoteAdjustment, LoyaltyInv
<1>2. LoyaltyTypeOK
  BY DEF LoyaltyInv
<1>3. CASE AdjustWallet(v)
  <2> DEFINE r == [op |-> "note", owner |-> o, points |-> n]
             after == Clamp(wallets[o] + n)
  <2>1. [q EXCEPT !.op = "note"] = r
    <3>1. q \in [op : {"adjust", "note"}, owner : Owners, points : Int]
      BY <1>1, <1>2 DEF LoyaltyTypeOK, ServerRequests, Waiting
    <3>2. QED
      BY <3>1
  <2>2. r \in ServerRequests /\ r.op = "note"
    BY <1>1 DEF ServerRequests
  <2>3. /\ ~WalletLocked(o) /\ server' = [server EXCEPT ![v] = r]
        /\ UNCHANGED <<enrolled, receipt, entries, adjusted, missed>>
    BY <1>3, <2>1 DEF AdjustWallet, Resume
  <2>4. \/ ~Known(o) /\ UNCHANGED <<wallets, slack>>
        \/ /\ Known(o) /\ wallets' = [wallets EXCEPT ![o] = after]
           /\ slack' = [slack EXCEPT ![o] = @ + after - wallets[o]]
    BY <1>3 DEF AdjustWallet
  <2> HIDE DEF r, o, n, after
  <2>5. CASE UNCHANGED <<wallets, slack>>
    BY <1>2, <2>2, <2>3, <2>5, BalanceStep DEF LoyaltyTypeOK, Known, Account
  <2>6. CASE /\ Known(o) /\ wallets' = [wallets EXCEPT ![o] = after]
             /\ slack' = [slack EXCEPT ![o] = @ + after - wallets[o]]
    <3>1. wallets[o] \in Nat /\ Missing \notin Nat
      BY <1>1, <1>2, <2>6, RowFields
    <3>2. after \in Nat
      <4>1. wallets[o] + n \in Int
        BY <1>1, <3>1
      <4>2. QED
        BY <4>1, ClampIs DEF after
    <3>3. /\ wallets' \in [Owners -> Nat \cup {Missing}] /\ slack' \in [Owners -> Int]
          /\ wallets'[o] = after /\ slack'[o] = slack[o] + after - wallets[o]
          /\ \A p \in Owners : p # o => wallets'[p] = wallets[p] /\ slack'[p] = slack[p]
      BY <1>1, <1>2, <2>6, <3>1, <3>2 DEF LoyaltyTypeOK
    <3>4. \A p \in Owners : Known(p)' <=> Known(p)
      BY <2>6, <3>1, <3>2, <3>3 DEF Known
    <3>5. \A u \in Servers : server[u].op \in {"move", "delete"} =>
            wallets'["walkIn"] = wallets["walkIn"]
      BY <1>1, <2>3, <2>6, LockHolds
    <3>6. \A p \in Owners : Account(p)' - adjusted'[p] - slack'[p]
                              = Account(p) - adjusted[p] - slack[p]
      <4>1. ASSUME NEW p \in Owners, p # o
            PROVE  Account(p)' - adjusted'[p] - slack'[p] = Account(p) - adjusted[p] - slack[p]
        BY <4>1, <3>3, <2>3 DEF Account, Known
      <4>2. Account(o)' = after /\ Account(o) = wallets[o]
        BY <1>1, <2>6, <3>3, <3>4 DEF Account
      <4>3. adjusted'[o] = adjusted[o] /\ adjusted[o] \in Int /\ slack[o] \in Int
        BY <1>1, <1>2, <2>3 DEF LoyaltyTypeOK
      <4>4. Account(o)' - adjusted'[o] - slack'[o] = Account(o) - adjusted[o] - slack[o]
        BY <4>2, <4>3, <3>1, <3>2, <3>3
      <4>5. QED
        BY <4>1, <4>4
    <3>7. adjusted' \in [Owners -> Int]
      BY <1>2, <2>3 DEF LoyaltyTypeOK
    <3>8. QED
      BY <2>2, <2>3, <3>3, <3>4, <3>5, <3>6, <3>7, BalanceStep
  <2>7. QED
    BY <2>4, <2>5, <2>6
<1>4. CASE NoteAdjustment(v)
  <2>1. server' = [server EXCEPT ![v] = Waiting]
        /\ UNCHANGED <<wallets, enrolled, receipt, entries, missed>>
    BY <1>4 DEF NoteAdjustment, Served, Resume
  <2>2. \/ UNCHANGED <<adjusted, slack>>
        \/ /\ adjusted' = [adjusted EXCEPT ![o] = @ + n]
           /\ slack' = [slack EXCEPT ![o] = @ - n]
    BY <1>4 DEF NoteAdjustment
  <2> HIDE DEF o, n
  <2>3. \A p \in Owners : (Known(p)' <=> Known(p)) /\ Account(p)' = Account(p)
    BY <2>1 DEF Known, Account
  <2>4. wallets' \in [Owners -> Nat \cup {Missing}]
    BY <1>2, <2>1 DEF LoyaltyTypeOK
  <2>5. CASE UNCHANGED <<adjusted, slack>>
    BY <1>2, <2>1, <2>3, <2>4, <2>5, WaitingOK, BalanceStep DEF LoyaltyTypeOK
  <2>6. CASE /\ adjusted' = [adjusted EXCEPT ![o] = @ + n]
             /\ slack' = [slack EXCEPT ![o] = @ - n]
    <3>1. adjusted' \in [Owners -> Int] /\ slack' \in [Owners -> Int]
      BY <1>1, <1>2, <2>6 DEF LoyaltyTypeOK
    <3>2. ASSUME NEW p \in Owners
          PROVE  Account(p) - adjusted'[p] - slack'[p] = Account(p) - adjusted[p] - slack[p]
      <4>1. adjusted[p] \in Int /\ slack[p] \in Int /\ Account(p) \in Int
        BY TotalInt
      <4>2. CASE p = o
        <5>1. adjusted'[p] = adjusted[p] + n /\ slack'[p] = slack[p] - n
          BY <1>2, <2>6, <4>2 DEF LoyaltyTypeOK
        <5>2. QED
          BY <1>1, <4>1, <5>1
      <4>3. CASE p # o
        BY <1>2, <2>6, <4>3 DEF LoyaltyTypeOK
      <4>4. QED
        BY <4>2, <4>3
    <3>3. QED
      BY <2>1, <2>3, <2>4, <3>1, <3>2, WaitingOK, BalanceStep
  <2>7. QED
    BY <2>2, <2>5, <2>6
<1>5. QED
  BY <1>3, <1>4

\* A new sale's entries, and what they are worth.
LEMMA SaleEntered ==
  ASSUME NEW E, LedgerOK(E), NEW k \in Receipts, NEW o \in Owners, NEW redeem \in Nat,
         \A e \in E : e.sale # k, NEW F, F = E \cup SaleEntries(k, o, redeem)
  PROVE  /\ LedgerOK(F)
         /\ WorthIn(F, k) = Gained[k] - redeem
         /\ \A s \in Receipts : s # k => WorthIn(F, s) = WorthIn(E, s)
         /\ \A e \in F \ E : e.sale = k /\ e.owner = o /\ e.kind \in Forward
<1> DEFINE new == SaleEntries(k, o, redeem)
<1>1. Gained[k] \in Nat
  BY PointsAssumption
<1>2. /\ \A e \in new : /\ e \in Entry /\ e.sale = k /\ e.owner = o
                        /\ \/ e.kind = "redeemed" /\ e.points = redeem
                           \/ e.kind = "earned" /\ e.points = Gained[k]
      /\ redeem > 0 => \E e \in new : e.kind = "redeemed" /\ e.points = redeem
      /\ Gained[k] > 0 => \E e \in new : e.kind = "earned" /\ e.points = Gained[k]
      /\ \A e, f \in new : e.kind = f.kind => e = f
  <2> DEFINE a == [owner |-> o, sale |-> k, kind |-> "redeemed", points |-> redeem]
             b == [owner |-> o, sale |-> k, kind |-> "earned", points |-> Gained[k]]
  <2>1. new = {e \in {a, b} : e.points > 0}
    BY DEF SaleEntries
  <2>2. /\ a \in Entry /\ a.sale = k /\ a.owner = o /\ a.kind = "redeemed" /\ a.points = redeem
        /\ b \in Entry /\ b.sale = k /\ b.owner = o /\ b.kind = "earned" /\ b.points = Gained[k]
    BY <1>1 DEF Entry, Kinds
  <2> HIDE DEF a, b, new
  <2>3. \A e \in new : e = a \/ e = b
    BY <2>1
  <2>4. (redeem > 0 => a \in new) /\ (Gained[k] > 0 => b \in new)
    BY <2>1, <2>2
  <2>5. a.kind # b.kind
    BY <2>2
  <2>6. \A e \in new : /\ e \in Entry /\ e.sale = k /\ e.owner = o
                       /\ \/ e.kind = "redeemed" /\ e.points = redeem
                          \/ e.kind = "earned" /\ e.points = Gained[k]
    BY <2>2, <2>3
  <2>7. \A e, f \in new : e.kind = f.kind => e = f
    BY <2>3, <2>5
  <2>8. QED
    BY <2>2, <2>4, <2>6, <2>7
<1> HIDE DEF new
<1>3. F = E \cup new
  BY DEF new
<1>4. LedgerOK(F)
  <2>1. F \subseteq Entry
    BY <1>2, <1>3 DEF LedgerOK
  <2>2. \A e, f \in F : e.sale = f.sale /\ e.kind = f.kind => e = f
    BY <1>2, <1>3 DEF LedgerOK
  <2>3. \A e \in new : e.kind \in Forward
    BY <1>2 DEF Forward
  <2>4. \A e \in F : e.kind \notin Forward =>
          \E f \in F : /\ f.sale = e.sale /\ f.kind \in Forward
                       /\ Reversed(f.kind) = e.kind /\ f.points = e.points
    BY <2>3, <1>3 DEF LedgerOK
  <2>5. QED
    BY <2>1, <2>2, <2>4 DEF LedgerOK
<1>5. \A s \in Receipts : s # k => WorthIn(F, s) = WorthIn(E, s)
  <2> SUFFICES ASSUME NEW s \in Receipts, s # k PROVE WorthIn(F, s) = WorthIn(E, s)
    OBVIOUS
  <2>1. \A e \in E : e.sale = s =>
          \E f \in F : f.sale = s /\ f.kind = e.kind /\ f.points = e.points
    BY <1>3
  <2>2. \A f \in F : f.sale = s => \E e \in E : e.sale = s /\ e.kind = f.kind
    BY <1>2, <1>3
  <2>3. QED
    BY <1>4, <2>1, <2>2, WorthSame
<1>6. Points(F, k, "redeemed") = redeem
  <2>1. CASE redeem > 0
    <3>1. PICK e \in new : e.kind = "redeemed" /\ e.points = redeem
      BY <1>2, <2>1
    <3>2. e \in F /\ e.sale = k
      BY <1>2, <1>3
    <3>3. QED
      BY <1>4, <3>1, <3>2, PointsAre
  <2>2. CASE redeem = 0
    <3>1. Points(F, k, "redeemed") = 0
      <4>1. CASE \E e \in F : e.sale = k /\ e.kind = "redeemed"
        <5>1. PICK e \in F : e.sale = k /\ e.kind = "redeemed"
          BY <4>1
        <5>2. e.points = 0
          BY <5>1, <2>2, <1>2, <1>3
        <5>3. QED
          BY <1>4, <5>1, <5>2, PointsAre
      <4>2. CASE ~\E e \in F : e.sale = k /\ e.kind = "redeemed"
        BY <1>4, <4>2, PointsAre
      <4>3. QED
        BY <4>1, <4>2
    <3>2. QED
      BY <2>2, <3>1
  <2>3. QED
    BY <2>1, <2>2
<1>7. Points(F, k, "earned") = Gained[k]
  <2>1. CASE Gained[k] > 0
    <3>1. PICK e \in new : e.kind = "earned" /\ e.points = Gained[k]
      BY <1>2, <2>1
    <3>2. e \in F /\ e.sale = k
      BY <1>2, <1>3
    <3>3. QED
      BY <1>4, <3>1, <3>2, PointsAre
  <2>2. CASE Gained[k] = 0
    <3>1. Points(F, k, "earned") = 0
      <4>1. CASE \E e \in F : e.sale = k /\ e.kind = "earned"
        <5>1. PICK e \in F : e.sale = k /\ e.kind = "earned"
          BY <4>1
        <5>2. e.points = 0
          BY <5>1, <2>2, <1>2, <1>3
        <5>3. QED
          BY <1>4, <5>1, <5>2, PointsAre
      <4>2. CASE ~\E e \in F : e.sale = k /\ e.kind = "earned"
        BY <1>4, <4>2, PointsAre
      <4>3. QED
        BY <4>1, <4>2
    <3>2. QED
      BY <2>2, <3>1
  <2>3. QED
    BY <1>1, <2>1, <2>2
<1>8. Points(F, k, "earnReversed") = 0 /\ Points(F, k, "redeemReversed") = 0
  <2>1. \A e \in F : ~(e.sale = k /\ e.kind \in {"earnReversed", "redeemReversed"})
    BY <1>2, <1>3
  <2>2. QED
    BY <1>4, <2>1, PointsAre
<1>9. WorthIn(F, k) = Gained[k] - redeem
  BY <1>1, <1>6, <1>7, <1>8 DEF WorthIn
<1>10. \A e \in F \ E : e.sale = k /\ e.owner = o /\ e.kind \in Forward
  BY <1>2, <1>3 DEF Forward
<1>11. QED
  BY <1>4, <1>5, <1>9, <1>10

LEMMA SaleTransactionStep ==
  ASSUME LoyaltyInv, NEW v \in Servers, SaleTransaction(v), NEW q, q = server[v]
  PROVE  LoyaltyInv'
<1> DEFINE o == q.owner
           k == q.sale
           redeem == q.redeem
           row == [status |-> "Active", owner |-> o]
<1>1. /\ q.op = "sell" /\ ~WalletLocked(o) /\ server' = [server EXCEPT ![v] = Waiting]
      /\ UNCHANGED <<enrolled, adjusted, slack, missed>>
      /\ \/ UNCHANGED <<wallets, receipt, entries>>
         \/ /\ Known(o) /\ redeem <= Redeemable(wallets[o])
            /\ wallets' = [wallets EXCEPT ![o] = @ - redeem + Gained[k]]
            /\ receipt' = [receipt EXCEPT ![k] = row]
            /\ entries' = entries \cup SaleEntries(k, o, redeem)
  BY DEF SaleTransaction, Served, Resume
<1>2. /\ k \in Receipts /\ o \in Owners /\ redeem \in Nat /\ receipt[k] = NoReceipt
      /\ LoyaltyTypeOK /\ LedgerOK(entries) /\ SalesOK /\ WalkInOK
  BY <1>1, ServerFields DEF LoyaltyInv, ServerOK
<1>3. row # NoReceipt /\ row.status = "Active" /\ row.owner = o
      /\ row \in [status : {"Active", "Voided"}, owner : Owners \cup {"nobody"}]
  BY <1>2 DEF NoReceipt
<1> HIDE DEF row, o, k, redeem
<1>4. CASE UNCHANGED <<wallets, receipt, entries>>
  BY <1>1, <1>4, WaitingOK, ServerStep
<1>5. CASE /\ Known(o) /\ redeem <= Redeemable(wallets[o])
           /\ wallets' = [wallets EXCEPT ![o] = @ - redeem + Gained[k]]
           /\ receipt' = [receipt EXCEPT ![k] = row]
           /\ entries' = entries \cup SaleEntries(k, o, redeem)
  <2>1. wallets[o] \in Nat /\ Missing \notin Nat /\ Gained[k] \in Nat
    BY <1>2, <1>5, RowFields, PointsAssumption
  <2>2. redeem <= wallets[o]
    <3>1. MinPoints \in Nat /\ wallets[o] - MinPoints \in Int
      BY <2>1, PointsAssumption
    <3>2. Redeemable(wallets[o])
            = IF wallets[o] - MinPoints >= 0 THEN wallets[o] - MinPoints ELSE 0
      BY <3>1, ClampIs DEF Redeemable
    <3>3. QED
      BY <1>2, <1>5, <2>1, <3>1, <3>2
  <2>3. PICK after \in Nat : after = wallets[o] - redeem + Gained[k]
    BY <1>2, <2>1, <2>2
  <2>4. /\ wallets' \in [Owners -> Nat \cup {Missing}] /\ wallets'[o] = after
        /\ \A p \in Owners : p # o => wallets'[p] = wallets[p]
        /\ wallets' = [wallets EXCEPT ![o] = after]
    BY <1>2, <1>5, <2>3 DEF LoyaltyTypeOK
  <2>5. \A p \in Owners : Known(p)' <=> Known(p)
    BY <1>5, <2>1, <2>4 DEF Known
  <2>6. \A s \in Receipts : receipt'[s] = IF s = k THEN row ELSE receipt[s]
    BY <1>2, <1>5 DEF LoyaltyTypeOK
  <2>7. \A e \in entries : e.sale # k /\ e.sale \in Receipts
    BY <1>2 DEF SalesOK, LedgerOK, Entry
  <2>8. /\ LedgerOK(entries') /\ WorthIn(entries', k) = Gained[k] - redeem
        /\ \A s \in Receipts : s # k => WorthIn(entries', s) = WorthIn(entries, s)
        /\ \A e \in entries' \ entries : e.sale = k /\ e.owner = o /\ e.kind \in Forward
        /\ entries \subseteq entries'
    <3>1. PICK F : F = entries'
      OBVIOUS
    <3>2. F = entries \cup SaleEntries(k, o, redeem)
      BY <1>5, <3>1
    <3>3. /\ LedgerOK(F) /\ WorthIn(F, k) = Gained[k] - redeem
          /\ \A s \in Receipts : s # k => WorthIn(F, s) = WorthIn(entries, s)
          /\ \A e \in F \ entries : e.sale = k /\ e.owner = o /\ e.kind \in Forward
      BY <1>2, <2>7, <3>2, SaleEntered
    <3>4. QED
      BY <3>1, <3>2, <3>3
  <2>9. ASSUME NEW u \in Servers, u # v, NEW r, r = server[u] PROVE ServerOK(r)'
    <3>1. r.op = "sell" => receipt'[r.sale] = receipt[r.sale]
      <4>1. r.op = "sell" => r.sale \in Receipts /\ r.sale # k
        BY <1>1, <1>2, <2>9, ServerFields DEF LoyaltyInv, Apart, k
      <4>2. QED
        BY <2>6, <4>1
    <3>2. r.op \in {"move", "delete"} => wallets'["walkIn"] = wallets["walkIn"]
      BY <1>1, <1>2, <1>5, <2>4, <2>9, LockHolds
    <3>3. \A s \in Receipts : receipt[s] # NoReceipt =>
            receipt'[s] # NoReceipt /\ receipt'[s].owner = receipt[s].owner
      BY <1>2, <2>6
    <3>4. \A e \in entries' \ entries : e.kind \in Forward => receipt[e.sale] = NoReceipt
      BY <1>2, <2>8
    <3>5. QED
      BY <1>1, <2>8, <2>9, <3>1, <3>2, <3>3, <3>4, ServerKept
  <2>10. SalesOK'
    <3>1. ASSUME NEW s \in Receipts, receipt'[s] # NoReceipt
          PROVE  /\ receipt'[s].owner \in Owners /\ Known(receipt[s].owner)'
                 /\ receipt'[s].status = "Voided" /\ s \notin missed' => AllBut(entries', s, {})
      <4>1. CASE s = k
        <5>1. receipt'[s] = row
          BY <2>6, <4>1
        <5>2. Known(o)'
          BY <1>2, <1>5, <2>5
        <5>3. Known(receipt[s].owner)'
          BY <5>1, <5>2, <1>3 DEF Known
        <5>4. QED
          BY <5>1, <5>3, <1>2, <1>3
      <4>2. CASE s # k
        <5>1. receipt'[s] = receipt[s] /\ receipt[s] # NoReceipt
          BY <2>6, <3>1, <4>2
        <5>2. receipt[s].owner \in Owners /\ Known(receipt[s].owner)
          BY <5>1, <1>2 DEF SalesOK
        <5>3. Known(receipt[s].owner)'
          BY <5>1, <5>2, <2>5 DEF Known
        <5>4. receipt[s].status = "Voided" /\ s \notin missed => AllBut(entries', s, {})
          <6>1. receipt[s].status = "Voided" /\ s \notin missed => AllBut(entries, s, {})
            BY <5>1, <1>2 DEF SalesOK
          <6>2. AllBut(entries, s, {}) => AllBut(entries', s, {})
            BY <2>8, <4>2 DEF AllBut, IsReversed
          <6>3. QED
            BY <6>1, <6>2
        <5>5. QED
          BY <5>1, <5>2, <5>3, <5>4, <1>1
      <4>3. QED
        BY <4>1, <4>2
    <3>2. \A e \in entries' : receipt'[e.sale] # NoReceipt /\ receipt'[e.sale].owner = e.owner
      <4> SUFFICES ASSUME NEW e \in entries'
                   PROVE  receipt'[e.sale] # NoReceipt /\ receipt'[e.sale].owner = e.owner
        OBVIOUS
      <4>1. CASE e \in entries
        BY <4>1, <1>2, <2>6, <2>7 DEF SalesOK
      <4>2. CASE e \notin entries
        <5>1. e.sale = k /\ e.owner = o
          BY <2>8, <4>2
        <5>2. QED
          BY <5>1, <1>2, <1>3, <2>6
      <4>3. QED
        BY <4>1, <4>2
    <3>3. QED
      BY <3>1, <3>2 DEF SalesOK
  <2>11. WalkInOK'
    BY <1>1, <1>2, <2>5 DEF WalkInOK, Owners
  <2>12. ASSUME NEW p \in Owners PROVE Account(p)' = adjusted'[p] + slack'[p] + Total(p)'
    <3>1. /\ Total(p) \in Int /\ adjusted[p] \in Int /\ slack[p] \in Int
          /\ Account(p) = adjusted[p] + slack[p] + Total(p)
      BY TotalInt, Matches DEF LoyaltyInv
    <3>2. \A s \in Receipts : s # k => (s \in Standing(p) <=> s \in Standing(p)')
      BY <1>1, <2>6 DEF Standing
    <3>3. Total(p)' = Total(p) + (IF k \in Standing(p)' THEN WorthIn(entries', k) ELSE 0)
                               - (IF k \in Standing(p) THEN WorthIn(entries, k) ELSE 0)
      BY <1>2, <2>8, <3>2, TotalChange
    <3>4. k \notin Standing(p) /\ (k \in Standing(p)' <=> p = o)
      <4>1. receipt'[k] = row
        BY <1>2, <2>6
      <4>2. QED
        BY <4>1, <1>2, <1>3 DEF Standing
    <3>5. CASE p = o
      <4>1. Account(p) = wallets[o] /\ Account(p)' = after
        BY <1>5, <2>4, <2>5, <3>5 DEF Account
      <4>2. Total(p)' = Total(p) + (Gained[k] - redeem)
        BY <1>2, <2>1, <2>8, <3>1, <3>3, <3>4, <3>5
      <4>3. QED
        BY <1>1, <1>2, <2>1, <2>3, <3>1, <4>1, <4>2
    <3>6. CASE p # o
      <4>1. Account(p)' = Account(p)
        BY <2>4, <3>6 DEF Account, Known
      <4>2. Total(p)' = Total(p)
        BY <3>1, <3>3, <3>4, <3>6
      <4>3. QED
        BY <1>1, <3>1, <4>1, <4>2
    <3>7. QED
      BY <3>5, <3>6
  <2>13. /\ receipt' \in [Receipts -> {NoReceipt}
              \cup [status : {"Active", "Voided"}, owner : Owners \cup {"nobody"}]]
         /\ adjusted' \in [Owners -> Int] /\ slack' \in [Owners -> Int]
         /\ missed' \subseteq Receipts /\ enrolled' \in BOOLEAN
    BY <1>1, <1>2, <1>3, <1>5 DEF LoyaltyTypeOK
  <2>14. QED
    BY <1>1, <2>4, <2>8, <2>9, <2>10, <2>11, <2>12, <2>13, WaitingOK, Together
<1>6. QED
  BY <1>1, <1>4, <1>5

WithReversals(E, rows) == E \cup {[e EXCEPT !.kind = Reversed(e.kind)] : e \in rows}

\* What is left of a sale is reversed.
LEMMA RowsReversed ==
  ASSUME NEW E, LedgerOK(E), NEW k \in Receipts, NEW rows \in SUBSET E, AllBut(E, k, rows),
         \A e \in rows : e.sale = k /\ e.kind \in Forward /\ ~IsReversed(E, e),
         NEW F, F = WithReversals(E, rows)
  PROVE  /\ LedgerOK(F) /\ AllBut(F, k, {}) /\ E \subseteq F
         /\ \A s \in Receipts : s # k => WorthIn(F, s) = WorthIn(E, s)
         /\ \A f \in F \ E : /\ f.sale = k /\ f.kind \notin Forward
                             /\ \E e \in rows : f.owner = e.owner
<1> DEFINE back(e) == [e EXCEPT !.kind = Reversed(e.kind)]
           new == {back(e) : e \in rows}
<1>1. \A e \in rows : /\ back(e) \in Entry /\ back(e).sale = k /\ back(e).owner = e.owner
                      /\ back(e).kind = Reversed(e.kind) /\ back(e).points = e.points
                      /\ back(e).kind \notin Forward
  <2> SUFFICES ASSUME NEW e \in rows
               PROVE  /\ back(e) \in Entry /\ back(e).sale = k /\ back(e).owner = e.owner
                      /\ back(e).kind = Reversed(e.kind) /\ back(e).points = e.points
                      /\ back(e).kind \notin Forward
    OBVIOUS
  <2>1. e \in [owner : Owners, sale : Receipts, kind : Kinds, points : Nat]
    BY DEF LedgerOK, Entry
  <2>2. Reversed(e.kind) \in Kinds /\ Reversed(e.kind) \notin Forward
    BY DEF Reversed, Kinds, Forward
  <2>3. QED
    BY <2>1, <2>2 DEF Entry
<1>2. F = E \cup new
  BY DEF WithReversals
<1>3. \A f \in new : \E e \in rows : /\ f.sale = k /\ f.owner = e.owner /\ f \in Entry
                                     /\ f.kind = Reversed(e.kind) /\ f.points = e.points
                                     /\ f.kind \notin Forward
  BY <1>1
<1>4. \A e \in rows : \E f \in new : f.sale = k /\ f.kind = Reversed(e.kind)
  BY <1>1
<1> HIDE DEF new
<1>5. \A e, f \in rows : Reversed(e.kind) = Reversed(f.kind) => e = f
  <2> SUFFICES ASSUME NEW e \in rows, NEW f \in rows, Reversed(e.kind) = Reversed(f.kind)
               PROVE  e = f
    OBVIOUS
  <2>1. e.kind = f.kind
    BY DEF Reversed, Forward
  <2>2. QED
    BY <2>1 DEF LedgerOK
<1>6. \A f \in new : \A g \in E : ~(g.sale = f.sale /\ g.kind = f.kind)
  BY <1>3 DEF IsReversed
<1>7. \A f, g \in new : f.kind = g.kind => f = g
  <2> SUFFICES ASSUME NEW f \in new, NEW g \in new, f.kind = g.kind PROVE f = g
    OBVIOUS
  <2>1. PICK d \in rows : f = back(d)
    BY DEF new
  <2>2. PICK e \in rows : g = back(e)
    BY DEF new
  <2>3. d = e
    BY <1>1, <1>5, <2>1, <2>2
  <2>4. QED
    BY <2>1, <2>2, <2>3
<1>8. LedgerOK(F)
  <2>1. F \subseteq Entry
    BY <1>2, <1>3 DEF LedgerOK
  <2>2. \A e, f \in F : e.sale = f.sale /\ e.kind = f.kind => e = f
    <3> SUFFICES ASSUME NEW e \in F, NEW f \in F, e.sale = f.sale, e.kind = f.kind PROVE e = f
      OBVIOUS
    <3>1. CASE e \in E /\ f \in E
      BY <3>1 DEF LedgerOK
    <3>2. CASE e \in new /\ f \in new
      BY <1>7, <3>2
    <3>3. QED
      BY <1>2, <1>6, <3>1, <3>2
  <2>3. \A e \in F : e.kind \notin Forward =>
          \E f \in F : /\ f.sale = e.sale /\ f.kind \in Forward
                       /\ Reversed(f.kind) = e.kind /\ f.points = e.points
    <3> SUFFICES ASSUME NEW e \in F, e.kind \notin Forward
                 PROVE  \E f \in F : /\ f.sale = e.sale /\ f.kind \in Forward
                                     /\ Reversed(f.kind) = e.kind /\ f.points = e.points
      OBVIOUS
    <3>1. CASE e \in E
      BY <1>2, <3>1 DEF LedgerOK
    <3>2. CASE e \in new
      <4>1. PICK d \in rows : e.sale = k /\ e.kind = Reversed(d.kind) /\ e.points = d.points
        BY <1>3, <3>2
      <4>2. d \in F /\ d.sale = k /\ d.kind \in Forward
        BY <1>2
      <4>3. QED
        BY <4>1, <4>2
    <3>3. QED
      BY <1>2, <3>1, <3>2
  <2>4. QED
    BY <2>1, <2>2, <2>3 DEF LedgerOK
<1>9. AllBut(F, k, {})
  <2> SUFFICES ASSUME NEW e \in F, e.sale = k, e.kind \in Forward PROVE IsReversed(F, e)
    BY DEF AllBut
  <2>1. e \in E
    BY <1>2, <1>3
  <2>2. CASE e \in rows
    BY <1>2, <1>4, <2>2 DEF IsReversed
  <2>3. CASE e \notin rows
    <3>1. IsReversed(E, e)
      BY <2>1, <2>3 DEF AllBut
    <3>2. QED
      BY <1>2, <3>1 DEF IsReversed
  <2>4. QED
    BY <2>2, <2>3
<1>10. ASSUME NEW s \in Receipts, s # k PROVE WorthIn(F, s) = WorthIn(E, s)
  <2>1. \A e \in E : e.sale = s =>
          \E f \in F : f.sale = s /\ f.kind = e.kind /\ f.points = e.points
    BY <1>2
  <2>2. \A f \in F : f.sale = s => \E e \in E : e.sale = s /\ e.kind = f.kind
    BY <1>2, <1>3, <1>10
  <2>3. QED
    BY <1>8, <2>1, <2>2, WorthSame
<1>11. QED
  BY <1>2, <1>3, <1>8, <1>9, <1>10

\* A sale is voided: its status, and the entries and points that go with it.
LEMMA SaleVoided ==
  ASSUME LoyaltyInv, NEW v \in Servers, server' = [server EXCEPT ![v] = Waiting],
         NEW k \in Receipts, receipt[k] # NoReceipt,
         receipt' = [receipt EXCEPT ![k].status = "Voided"],
         LedgerOK(entries'), entries \subseteq entries',
         \A e \in entries' \ entries : /\ e.sale = k /\ e.kind \notin Forward
                                       /\ e.owner = receipt[k].owner,
         k \notin missed' => AllBut(entries', k, {}),
         missed \subseteq missed', missed' \subseteq missed \cup {k},
         wallets' \in [Owners -> Nat \cup {Missing}], slack' \in [Owners -> Int],
         \A o \in Owners : Known(o)' <=> Known(o),
         \A u \in Servers : server[u].op \in {"move", "delete"} =>
           wallets'["walkIn"] = wallets["walkIn"],
         UNCHANGED <<enrolled, adjusted>>,
         \A o \in Owners : Account(o)' = adjusted'[o] + slack'[o] + Total(o)'
  PROVE  LoyaltyInv'
<1>1. LoyaltyTypeOK /\ LedgerOK(entries) /\ SalesOK /\ WalkInOK
  BY DEF LoyaltyInv
<1> DEFINE row == [receipt[k] EXCEPT !.status = "Voided"]
<1>2. /\ row \in [status : {"Active", "Voided"}, owner : Owners \cup {"nobody"}]
      /\ row.owner = receipt[k].owner /\ row.status = "Voided" /\ row # NoReceipt
  <2>1. receipt[k] \in [status : {"Active", "Voided"}, owner : Owners \cup {"nobody"}]
    BY <1>1, RowFields
  <2>2. /\ row \in [status : {"Active", "Voided"}, owner : Owners \cup {"nobody"}]
        /\ row.owner = receipt[k].owner /\ row.status = "Voided"
    BY <2>1
  <2> HIDE DEF row
  <2>3. row # NoReceipt
    BY <2>2 DEF NoReceipt
  <2>4. QED
    BY <2>2, <2>3
<1>3. receipt' = [receipt EXCEPT ![k] = row]
  BY <1>1 DEF LoyaltyTypeOK
<1> HIDE DEF row
<1>4. \A s \in Receipts : receipt'[s] = IF s = k THEN row ELSE receipt[s]
  BY <1>1, <1>3 DEF LoyaltyTypeOK
<1>5. \A s \in Receipts : /\ receipt'[s] # NoReceipt <=> receipt[s] # NoReceipt
                          /\ receipt'[s].owner = receipt[s].owner
  BY <1>2, <1>4
<1>6. ASSUME NEW u \in Servers, NEW q, q = server[u] PROVE ServerOK(q)'
  <2>1. q.op = "sell" => q.sale \in Receipts /\ receipt[q.sale] = NoReceipt
    BY <1>6, ServerFields DEF LoyaltyInv, ServerOK
  <2>2. q.op = "sell" => receipt'[q.sale] = receipt[q.sale]
    BY <1>4, <2>1
  <2>3. \A e \in entries' \ entries : e.kind \in Forward => receipt[e.sale] = NoReceipt
    OBVIOUS
  <2>4. QED
    BY <1>5, <1>6, <2>2, <2>3, ServerKept
<1>7. SalesOK'
  <2>1. ASSUME NEW s \in Receipts, receipt'[s] # NoReceipt
        PROVE  /\ receipt'[s].owner \in Owners /\ Known(receipt[s].owner)'
               /\ receipt'[s].status = "Voided" /\ s \notin missed' => AllBut(entries', s, {})
    <3>1. PICK p : p = receipt'[s].owner
      OBVIOUS
    <3>2. p \in Owners /\ Known(p)
      BY <1>1, <1>5, <2>1, <3>1 DEF SalesOK
    <3>3. Known(p)'
      BY <3>2
    <3>4. Known(receipt[s].owner)'
      BY <3>1, <3>3 DEF Known
    <3>5. CASE s = k
      BY <3>1, <3>2, <3>4, <3>5
    <3>6. CASE s # k
      <4>1. receipt'[s].status = "Voided" /\ s \notin missed' => AllBut(entries, s, {})
        BY <1>1, <1>4, <2>1, <3>6 DEF SalesOK
      <4>2. AllBut(entries, s, {}) => AllBut(entries', s, {})
        BY <3>6 DEF AllBut, IsReversed
      <4>3. QED
        BY <3>1, <3>2, <3>4, <4>1, <4>2
    <3>7. QED
      BY <3>5, <3>6
  <2>2. \A e \in entries' : receipt'[e.sale] # NoReceipt /\ receipt'[e.sale].owner = e.owner
    <3> SUFFICES ASSUME NEW e \in entries'
                 PROVE  receipt'[e.sale] # NoReceipt /\ receipt'[e.sale].owner = e.owner
      OBVIOUS
    <3>1. e.sale \in Receipts
      BY DEF LedgerOK, Entry
    <3>2. CASE e \in entries
      BY <1>1, <1>5, <3>1, <3>2 DEF SalesOK
    <3>3. CASE e \notin entries
      BY <1>5, <3>1, <3>3
    <3>4. QED
      BY <3>2, <3>3
  <2>3. QED
    BY <2>1, <2>2 DEF SalesOK
<1>8. WalkInOK'
  BY <1>1 DEF WalkInOK, Owners
<1>9. /\ receipt' \in [Receipts -> {NoReceipt}
            \cup [status : {"Active", "Voided"}, owner : Owners \cup {"nobody"}]]
      /\ adjusted' \in [Owners -> Int] /\ missed' \subseteq Receipts /\ enrolled' \in BOOLEAN
  BY <1>1, <1>2, <1>3 DEF LoyaltyTypeOK
<1>10. QED
  BY <1>6, <1>7, <1>8, <1>9, WaitingOK, Together

LEMMA VoidTransactionStep ==
  ASSUME LoyaltyInv, NEW v \in Servers, VoidTransaction(v), NEW q, q = server[v]
  PROVE  LoyaltyInv'
<1> DEFINE o == q.owner
           k == q.sale
           rows == q.rows
           earned == PointsOf(rows, "earned")
           redeemed == PointsOf(rows, "redeemed")
           left == Clamp(wallets[o] - earned)
<1>1. /\ q.op = "reverse" /\ (rows # {} => ~WalletLocked(o))
      /\ server' = [server EXCEPT ![v] = Waiting] /\ UNCHANGED <<enrolled, adjusted>>
      /\ \/ RowsRefused(rows) /\ UNCHANGED <<wallets, receipt, entries, slack, missed>>
         \/ /\ ~RowsRefused(rows)
            /\ receipt' = [receipt EXCEPT ![k].status = "Voided"]
            /\ entries' = entries \cup {[e EXCEPT !.kind = Reversed(e.kind)] : e \in rows}
            /\ missed' = IF o = receipt[k].owner THEN missed ELSE missed \cup {k}
            /\ IF rows = {} THEN UNCHANGED <<wallets, slack>>
               ELSE /\ wallets' = [wallets EXCEPT ![o] = left + redeemed]
                    /\ slack' = [slack EXCEPT ![o] = @ + left - (wallets[o] - earned)]
  BY DEF VoidTransaction, Served, Resume
<1>2. /\ LoyaltyTypeOK /\ LedgerOK(entries) /\ SalesOK /\ WalkInOK
      /\ k \in Receipts /\ rows \in SUBSET Entry
  BY <1>1, ServerFields DEF LoyaltyInv
<1>3. /\ receipt[k] # NoReceipt /\ o \in Owners
      /\ o = receipt[k].owner \/ (o = "walkIn" /\ ~enrolled)
      /\ \A e \in rows : e.owner = o /\ e.sale = k /\ e.kind \in Forward
      /\ \/ o = "walkIn" /\ ~enrolled
         \/ rows \subseteq entries /\ AllBut(entries, k, rows)
  BY <1>1 DEF LoyaltyInv, ServerOK
<1> HIDE DEF o, k, rows, earned, redeemed, left
<1>4. CASE RowsRefused(rows) /\ UNCHANGED <<wallets, receipt, entries, slack, missed>>
  BY <1>1, <1>4, WaitingOK, ServerStep
<1>5. CASE /\ ~RowsRefused(rows)
           /\ receipt' = [receipt EXCEPT ![k].status = "Voided"]
           /\ entries' = entries \cup {[e EXCEPT !.kind = Reversed(e.kind)] : e \in rows}
           /\ missed' = IF o = receipt[k].owner THEN missed ELSE missed \cup {k}
           /\ IF rows = {} THEN UNCHANGED <<wallets, slack>>
              ELSE /\ wallets' = [wallets EXCEPT ![o] = left + redeemed]
                   /\ slack' = [slack EXCEPT ![o] = @ + left - (wallets[o] - earned)]
  <2>1. /\ k \in Receipts /\ receipt'[k].owner = receipt[k].owner
        /\ receipt'[k].status = "Voided" /\ receipt'[k] # NoReceipt
        /\ \A s \in Receipts : s # k => receipt'[s] = receipt[s]
    <3>1. receipt[k] \in [status : {"Active", "Voided"}, owner : Owners \cup {"nobody"}]
      BY <1>2, <1>3, RowFields
    <3>2. /\ receipt'[k].owner = receipt[k].owner /\ receipt'[k].status = "Voided"
          /\ \A s \in Receipts : s # k => receipt'[s] = receipt[s]
      BY <1>2, <1>5, <3>1 DEF LoyaltyTypeOK
    <3>3. receipt'[k] # NoReceipt
      BY <3>2 DEF NoReceipt
    <3>4. QED
      BY <1>2, <3>2, <3>3
  <2>2. missed \subseteq missed' /\ missed' \subseteq missed \cup {k}
    BY <1>5
  <2>3. \A p \in Owners : \A s \in Receipts :
          s # k => (s \in Standing(p) <=> s \in Standing(p)')
    BY <2>1, <2>2 DEF Standing
  <2>4. /\ \A p \in Owners : k \in Standing(p)' <=> (receipt[k].owner = p /\ k \in missed')
        /\ \A p \in Owners : k \in Standing(p) <=>
             (receipt[k].owner = p /\ (receipt[k].status = "Active" \/ k \in missed))
    BY <1>3, <2>1 DEF Standing
  <2>5. receipt[k].status = "Active" \/ k \in missed \/ AllBut(entries, k, {})
    BY <1>2, <1>3, RowFields DEF SalesOK
  <2>6. CASE rows = {}
    <3>1. entries' = entries /\ UNCHANGED <<wallets, slack>>
      BY <1>5, <2>6
    <3>2. \A p \in Owners : /\ Known(p)' <=> Known(p)
                            /\ Account(p)' = Account(p) /\ slack'[p] = slack[p]
                            /\ adjusted'[p] = adjusted[p]
      BY <1>1, <3>1 DEF Known, Account
    <3>3. k \notin missed' => AllBut(entries, k, {})
      <4>1. SUFFICES ASSUME k \notin missed' PROVE AllBut(entries, k, {})
        OBVIOUS
      <4>2. o = receipt[k].owner
        BY <1>5, <4>1
      <4>3. Known(o)
        BY <1>2, <1>3, <4>2 DEF SalesOK
      <4>4. ~(o = "walkIn" /\ ~enrolled)
        BY <1>2, <4>3 DEF WalkInOK
      <4>5. QED
        BY <1>3, <2>6, <4>4
    <3>4. AllBut(entries, k, {}) => WorthIn(entries, k) = 0
      BY <1>2, WorthSettled
    <3>5. WorthIn(entries, k) \in Int
      BY <1>2, WorthIsInt
    <3>6. ASSUME NEW p \in Owners PROVE Account(p)' = adjusted'[p] + slack'[p] + Total(p)'
      <4>1. /\ Total(p) \in Int /\ adjusted[p] \in Int /\ slack[p] \in Int
            /\ Account(p) = adjusted[p] + slack[p] + Total(p)
        BY TotalInt, Matches DEF LoyaltyInv
      <4>2. Total(p)' = Total(p) + (IF k \in Standing(p)' THEN WorthIn(entries', k) ELSE 0)
                                 - (IF k \in Standing(p) THEN WorthIn(entries, k) ELSE 0)
        BY <1>2, <2>3, <3>1, TotalChange
      <4>3. (k \in Standing(p)' <=> k \in Standing(p)) \/ WorthIn(entries, k) = 0
        BY <2>2, <2>4, <2>5, <3>3, <3>4
      <4>4. Total(p)' = Total(p)
        BY <3>1, <3>5, <4>1, <4>2, <4>3
      <4>5. QED
        BY <3>2, <4>1, <4>4
    <3>7. /\ wallets' \in [Owners -> Nat \cup {Missing}] /\ slack' \in [Owners -> Int]
          /\ wallets'["walkIn"] = wallets["walkIn"]
      BY <1>2, <3>1 DEF LoyaltyTypeOK
    <3>8. QED
      BY <1>1, <1>2, <1>3, <1>5, <2>2, <3>1, <3>2, <3>3, <3>6, <3>7, SaleVoided
  <2>7. CASE rows # {}
    <3>1. PICK d \in rows : TRUE
      BY <2>7
    <3>2. ~(o = "walkIn" /\ ~enrolled)
      BY <1>3, <1>5, <3>1 DEF RowsRefused
    <3>3. rows \in SUBSET entries /\ AllBut(entries, k, rows) /\ o = receipt[k].owner
      BY <1>3, <3>2
    <3>4. Known(o) /\ missed' = missed
      BY <1>2, <1>3, <1>5, <3>3 DEF SalesOK
    <3>5. \A e \in rows : e.sale = k /\ e.kind \in Forward /\ ~IsReversed(entries, e)
      <4> SUFFICES ASSUME NEW e \in rows, NEW f \in entries,
                          f.sale = k, f.kind = Reversed(e.kind)
                   PROVE  FALSE
        BY <1>3 DEF IsReversed
      <4>1. f.owner = e.owner
        BY <1>2, <1>3, <3>3 DEF SalesOK
      <4>2. Has(e.owner, e.sale, Reversed(e.kind))
        BY <1>3, <4>1 DEF Has
      <4>3. QED
        BY <1>5, <4>2 DEF RowsRefused
    <3>6. ~AllBut(entries, k, {})
      BY <3>1, <3>3, <3>5 DEF AllBut
    <3>7. k \in Standing(o)
      BY <1>3, <2>4, <2>5, <3>3, <3>6
    <3>8. /\ earned \in Nat /\ redeemed \in Nat /\ WorthIn(entries, k) = earned - redeemed
      BY <1>2, <3>3, <3>5, WorthLeft DEF earned, redeemed
    <3>9. PICK F : F = entries'
      OBVIOUS
    <3>10. F = WithReversals(entries, rows)
      BY <1>5, <3>9 DEF WithReversals
    <3>11. /\ LedgerOK(F) /\ AllBut(F, k, {}) /\ entries \subseteq F
           /\ \A s \in Receipts : s # k => WorthIn(F, s) = WorthIn(entries, s)
           /\ \A f \in F \ entries : /\ f.sale = k /\ f.kind \notin Forward
                                     /\ \E e \in rows : f.owner = e.owner
      BY <1>2, <3>3, <3>5, <3>10, RowsReversed
    <3>12. WorthIn(F, k) = 0
      BY <3>11, WorthSettled
    <3>13. wallets[o] \in Nat /\ Missing \notin Nat
      BY <1>2, <1>3, <3>4, RowFields
    <3>14. left \in Nat
      <4>1. wallets[o] - earned \in Int
        BY <3>8, <3>13
      <4>2. QED
        BY <4>1, ClampIs DEF left
    <3>15. /\ wallets' = [wallets EXCEPT ![o] = left + redeemed]
           /\ slack' = [slack EXCEPT ![o] = @ + left - (wallets[o] - earned)]
           /\ ~WalletLocked(o)
      BY <1>1, <1>5, <2>7
    <3>16. /\ wallets' \in [Owners -> Nat \cup {Missing}] /\ slack' \in [Owners -> Int]
           /\ wallets'[o] = left + redeemed /\ wallets'[o] \in Nat
           /\ slack'[o] = slack[o] + left - (wallets[o] - earned)
           /\ \A p \in Owners : p # o => wallets'[p] = wallets[p] /\ slack'[p] = slack[p]
      BY <1>2, <1>3, <3>8, <3>13, <3>14, <3>15 DEF LoyaltyTypeOK
    <3>17. \A p \in Owners : Known(p)' <=> Known(p)
      BY <3>4, <3>13, <3>16 DEF Known
    <3>18. \A u \in Servers : server[u].op \in {"move", "delete"} =>
             wallets'["walkIn"] = wallets["walkIn"]
      BY <1>3, <3>4, <3>15, LockHolds
    <3>19. ASSUME NEW p \in Owners PROVE Account(p)' = adjusted'[p] + slack'[p] + Total(p)'
      <4>1. /\ Total(p) \in Int /\ adjusted[p] \in Int /\ slack[p] \in Int
            /\ Account(p) = adjusted[p] + slack[p] + Total(p)
        BY TotalInt, Matches DEF LoyaltyInv
      <4>2. Total(p)' = Total(p) + (IF k \in Standing(p)' THEN WorthIn(entries', k) ELSE 0)
                                 - (IF k \in Standing(p) THEN WorthIn(entries, k) ELSE 0)
        BY <1>2, <2>3, <3>9, <3>11, TotalChange
      <4>3. Total(p)' = Total(p) - (IF k \in Standing(p) THEN earned - redeemed ELSE 0)
        BY <3>8, <3>9, <3>12, <4>1, <4>2
      <4>4. CASE p = o
        <5>1. Account(p) = wallets[o] /\ Account(p)' = left + redeemed
          BY <3>4, <3>16, <3>17, <4>4 DEF Account
        <5>2. Total(p)' = Total(p) - (earned - redeemed)
          BY <3>7, <4>3, <4>4
        <5>3. slack'[p] = slack[p] + left - (wallets[o] - earned) /\ adjusted'[p] = adjusted[p]
          BY <1>1, <3>16, <4>4
        <5>4. QED
          BY <3>8, <3>13, <3>14, <4>1, <5>1, <5>2, <5>3
      <4>5. CASE p # o
        <5>1. Account(p)' = Account(p) /\ slack'[p] = slack[p] /\ adjusted'[p] = adjusted[p]
          BY <1>1, <3>16, <4>5 DEF Account, Known
        <5>2. k \notin Standing(p)
          BY <2>4, <3>3, <4>5
        <5>3. Total(p)' = Total(p)
          BY <4>1, <4>3, <5>2
        <5>4. QED
          BY <4>1, <5>1, <5>3
      <4>6. QED
        BY <4>4, <4>5
    <3>20. \A e \in entries' \ entries : /\ e.sale = k /\ e.kind \notin Forward
                                         /\ e.owner = receipt[k].owner
      BY <1>3, <3>3, <3>9, <3>11
    <3>21. LedgerOK(entries') /\ entries \subseteq entries' /\ AllBut(entries', k, {})
      BY <3>9, <3>11
    <3>22. QED
      BY <1>1, <1>2, <1>3, <1>5, <2>2, <3>16, <3>17, <3>18, <3>19, <3>20, <3>21, SaleVoided
  <2>8. QED
    BY <2>6, <2>7
<1>6. QED
  BY <1>1, <1>4, <1>5

\* What a merge makes of the entries, and of the sales.
LEMMA EntriesMerged ==
  ASSUME NEW E, LedgerOK(E), NEW F, F = {ToUser(e) : e \in E}
  PROVE  /\ \A e \in E : /\ ToUser(e) \in F /\ ToUser(e).owner = "user"
                         /\ ToUser(e).sale = e.sale /\ ToUser(e).kind = e.kind
                         /\ ToUser(e).points = e.points
                         /\ e.owner = "user" => ToUser(e) = e
         /\ LedgerOK(F)
         /\ \A s \in Receipts : WorthIn(F, s) = WorthIn(E, s)
<1>1. \A e \in E : /\ ToUser(e) \in Entry /\ ToUser(e).owner = "user"
                   /\ ToUser(e).sale = e.sale /\ ToUser(e).kind = e.kind
                   /\ ToUser(e).points = e.points
                   /\ e.owner = "user" => ToUser(e) = e
  <2> SUFFICES ASSUME NEW e \in E
               PROVE  /\ ToUser(e) \in Entry /\ ToUser(e).owner = "user"
                      /\ ToUser(e).sale = e.sale /\ ToUser(e).kind = e.kind
                      /\ ToUser(e).points = e.points
                      /\ e.owner = "user" => ToUser(e) = e
    OBVIOUS
  <2>1. e \in Entry /\ e \in [owner : Owners, sale : Receipts, kind : Kinds, points : Nat]
    BY DEF LedgerOK, Entry
  <2>2. CASE e.owner = "walkIn"
    <3> DEFINE d == [e EXCEPT !.owner = "user"]
    <3>1. /\ d \in [owner : Owners, sale : Receipts, kind : Kinds, points : Nat]
          /\ d.owner = "user" /\ d.sale = e.sale /\ d.kind = e.kind /\ d.points = e.points
      BY <2>1 DEF Owners
    <3>2. ToUser(e) = d
      BY <2>2 DEF ToUser
    <3> HIDE DEF d
    <3>3. QED
      BY <2>2, <3>1, <3>2 DEF Entry
  <2>3. CASE e.owner # "walkIn"
    <3>1. ToUser(e) = e
      BY <2>3 DEF ToUser
    <3>2. e.owner = "user"
      BY <2>1, <2>3 DEF Owners
    <3>3. QED
      BY <2>1, <3>1, <3>2
  <2>4. QED
    BY <2>2, <2>3
<1>2. LedgerOK(F)
  <2>1. F \subseteq Entry
    BY <1>1
  <2>2. \A e, f \in F : e.sale = f.sale /\ e.kind = f.kind => e = f
    <3> SUFFICES ASSUME NEW e \in F, NEW f \in F, e.sale = f.sale, e.kind = f.kind PROVE e = f
      OBVIOUS
    <3>1. PICK c \in E : e = ToUser(c)
      OBVIOUS
    <3>2. PICK d \in E : f = ToUser(d)
      OBVIOUS
    <3>3. c = d
      BY <1>1, <3>1, <3>2 DEF LedgerOK
    <3>4. QED
      BY <3>1, <3>2, <3>3
  <2>3. \A e \in F : e.kind \notin Forward =>
          \E f \in F : /\ f.sale = e.sale /\ f.kind \in Forward
                       /\ Reversed(f.kind) = e.kind /\ f.points = e.points
    <3> SUFFICES ASSUME NEW e \in F, e.kind \notin Forward
                 PROVE  \E f \in F : /\ f.sale = e.sale /\ f.kind \in Forward
                                     /\ Reversed(f.kind) = e.kind /\ f.points = e.points
      OBVIOUS
    <3>1. PICK c \in E : e = ToUser(c)
      OBVIOUS
    <3>2. c.kind = e.kind /\ c.sale = e.sale /\ c.points = e.points
      BY <1>1, <3>1
    <3>3. PICK d \in E : /\ d.sale = c.sale /\ d.kind \in Forward
                         /\ Reversed(d.kind) = c.kind /\ d.points = c.points
      BY <3>2 DEF LedgerOK
    <3>4. PICK f \in F : f = ToUser(d)
      OBVIOUS
    <3>5. f.sale = d.sale /\ f.kind = d.kind /\ f.points = d.points
      BY <1>1, <3>4
    <3>6. QED
      BY <3>2, <3>3, <3>5
  <2>4. QED
    BY <2>1, <2>2, <2>3 DEF LedgerOK
<1>3. ASSUME NEW s \in Receipts PROVE WorthIn(F, s) = WorthIn(E, s)
  <2>1. \A e \in E : e.sale = s =>
          \E f \in F : f.sale = s /\ f.kind = e.kind /\ f.points = e.points
    BY <1>1
  <2>2. \A f \in F : f.sale = s => \E e \in E : e.sale = s /\ e.kind = f.kind
    BY <1>1
  <2>3. QED
    BY <1>2, <2>1, <2>2, WorthSame
<1>4. \A e \in E : ToUser(e) \in F
  OBVIOUS
<1>5. QED
  BY <1>1, <1>2, <1>3, <1>4

LEMMA SaleMerged ==
  ASSUME LoyaltyTypeOK, SalesOK, NEW s \in Receipts
  PROVE  /\ MergedSale(receipt[s]) # NoReceipt <=> receipt[s] # NoReceipt
         /\ receipt[s] = NoReceipt => MergedSale(receipt[s]) = NoReceipt
         /\ receipt[s] # NoReceipt =>
              /\ MergedSale(receipt[s]) \in [status : {"Active", "Voided"},
                                             owner : Owners \cup {"nobody"}]
              /\ MergedSale(receipt[s]).owner = "user"
              /\ MergedSale(receipt[s]).status = receipt[s].status
              /\ receipt[s].owner \in {"user", "walkIn"}
<1>1. CASE receipt[s] = NoReceipt
  BY <1>1 DEF MergedSale
<1>2. CASE receipt[s] # NoReceipt
  <2>1. /\ receipt[s] \in [status : {"Active", "Voided"}, owner : Owners \cup {"nobody"}]
        /\ receipt[s].owner \in {"user", "walkIn"}
    BY <1>2, RowFields DEF SalesOK, Owners
  <2>2. MergedSale(receipt[s]) = ToUser(receipt[s])
    BY <1>2 DEF MergedSale
  <2>3. /\ ToUser(receipt[s]) \in [status : {"Active", "Voided"}, owner : Owners \cup {"nobody"}]
        /\ ToUser(receipt[s]).owner = "user" /\ ToUser(receipt[s]).status = receipt[s].status
    <3>1. CASE receipt[s].owner = "walkIn"
      <4> DEFINE d == [receipt[s] EXCEPT !.owner = "user"]
      <4>1. /\ d \in [status : {"Active", "Voided"}, owner : Owners \cup {"nobody"}]
            /\ d.owner = "user" /\ d.status = receipt[s].status
        BY <2>1 DEF Owners
      <4>2. ToUser(receipt[s]) = d
        BY <3>1 DEF ToUser
      <4> HIDE DEF d
      <4>3. QED
        BY <4>1, <4>2
    <3>2. CASE receipt[s].owner # "walkIn"
      <4>1. ToUser(receipt[s]) = receipt[s]
        BY <3>2 DEF ToUser
      <4>2. QED
        BY <2>1, <3>2, <4>1
    <3>3. QED
      BY <3>1, <3>2
  <2>4. MergedSale(receipt[s]) # NoReceipt
    <3>1. MergedSale(receipt[s]).status # "none"
      BY <2>1, <2>2, <2>3
    <3>2. QED
      BY <3>1 DEF NoReceipt
  <2>5. QED
    BY <1>2, <2>1, <2>2, <2>3, <2>4
<1>3. QED
  BY <1>1, <1>2

\* What a request in flight asks of the tables still holds after a merge.
LEMMA ServerMerged ==
  ASSUME LoyaltyInv, NEW u \in Servers, NEW q, q = server[u], q.op \notin {"move", "delete"},
         receipt' = [s \in Receipts |-> MergedSale(receipt[s])],
         entries' = {ToUser(e) : e \in entries}, enrolled' = FALSE
  PROVE  ServerOK(q)'
<1>1. ServerOK(q) /\ LoyaltyTypeOK /\ SalesOK /\ LedgerOK(entries)
  BY DEF LoyaltyInv
<1>2. q.op \in {"sell", "void", "reverse"} => q.sale \in Receipts
  BY <1>1, ServerFields
<1>3. \A s \in Receipts : receipt'[s] = MergedSale(receipt[s])
  OBVIOUS
<1>4. q.op = "sell" => receipt'[q.sale] = NoReceipt
  BY <1>1, <1>2, <1>3, SaleMerged DEF ServerOK
<1>5. q.op \in {"void", "reverse"} =>
        /\ receipt'[q.sale] # NoReceipt /\ q.owner \in Owners
        /\ q.owner = receipt'[q.sale].owner \/ (q.owner = "walkIn" /\ ~enrolled')
  <2> SUFFICES ASSUME q.op \in {"void", "reverse"}
               PROVE  /\ receipt'[q.sale] # NoReceipt /\ q.owner \in Owners
                      /\ q.owner = receipt'[q.sale].owner \/ q.owner = "walkIn"
    OBVIOUS
  <2>1. receipt[q.sale] # NoReceipt /\ q.owner \in Owners /\ q.sale \in Receipts
    BY <1>1, <1>2 DEF ServerOK
  <2>2. receipt'[q.sale] # NoReceipt /\ receipt'[q.sale].owner = "user"
    BY <1>1, <1>3, <2>1, SaleMerged
  <2>3. QED
    BY <2>1, <2>2 DEF Owners
<1>6. q.op = "reverse" =>
        /\ \A e \in q.rows : e.owner = q.owner /\ e.sale = q.sale /\ e.kind \in Forward
        /\ \/ q.owner = "walkIn" /\ ~enrolled'
           \/ q.rows \subseteq entries' /\ AllBut(entries', q.sale, q.rows)
  <2> SUFFICES ASSUME q.op = "reverse", q.owner # "walkIn"
               PROVE  /\ \A e \in q.rows : e.owner = q.owner /\ e.sale = q.sale /\ e.kind \in Forward
                      /\ q.rows \subseteq entries' /\ AllBut(entries', q.sale, q.rows)
    BY <1>1 DEF ServerOK
  <2>1. /\ \A e \in q.rows : e.owner = q.owner /\ e.sale = q.sale /\ e.kind \in Forward
        /\ q.rows \subseteq entries /\ AllBut(entries, q.sale, q.rows) /\ q.owner = "user"
    BY <1>1 DEF ServerOK, Owners
  <2>2. PICK F : F = entries'
    OBVIOUS
  <2>3. /\ \A e \in entries : /\ ToUser(e) \in F
                              /\ ToUser(e).sale = e.sale /\ ToUser(e).kind = e.kind
                              /\ e.owner = "user" => ToUser(e) = e
        /\ \A e \in F : \E d \in entries : e = ToUser(d)
    BY <1>1, <2>2, EntriesMerged
  <2>4. q.rows \subseteq F
    BY <2>1, <2>3
  <2>5. ASSUME NEW e \in F \ q.rows, e.sale = q.sale, e.kind \in Forward
        PROVE  IsReversed(F, e)
    <3>1. PICK d \in entries : e = ToUser(d)
      BY <2>3
    <3>2. d \notin q.rows
      BY <2>1, <2>3, <2>5, <3>1
    <3>3. IsReversed(entries, d)
      BY <2>1, <2>3, <2>5, <3>1, <3>2 DEF AllBut
    <3>4. QED
      BY <2>3, <3>1, <3>3 DEF IsReversed
  <2>6. AllBut(F, q.sale, q.rows)
    BY <2>5 DEF AllBut
  <2>7. QED
    BY <2>1, <2>2, <2>4, <2>6
<1>7. QED
  BY <1>4, <1>5, <1>6 DEF ServerOK

\* The user's sales come to what both owners' came to.
LEMMA TotalsMerged ==
  ASSUME LoyaltyInv, receipt' = [s \in Receipts |-> MergedSale(receipt[s])],
         entries' = {ToUser(e) : e \in entries}, missed' = missed
  PROVE  Total("walkIn")' = 0 /\ Total("user")' = Total("user") + Total("walkIn")
<1> DEFINE f == [s \in Receipts |-> Worth(s)]
           g == [s \in Receipts |-> Worth(s)']
           P == Standing("user")
           Q == Standing("walkIn")
           R == Standing("user")'
           N == Standing("walkIn")'
<1>1. LoyaltyTypeOK /\ SalesOK /\ LedgerOK(entries)
  BY DEF LoyaltyInv
<1>2. \A s \in Receipts : /\ receipt'[s] # NoReceipt <=> receipt[s] # NoReceipt
                          /\ receipt[s] # NoReceipt =>
                               /\ receipt'[s].owner = "user"
                               /\ receipt'[s].status = receipt[s].status
                               /\ receipt[s].owner \in {"user", "walkIn"}
  BY <1>1, SaleMerged
<1>3. N = {} /\ R = P \cup Q /\ P \cap Q = {}
  BY <1>2 DEF Standing
<1>4. \A s \in Receipts : f[s] = g[s] /\ f[s] \in Int
  <2>1. PICK F : F = entries'
    OBVIOUS
  <2>2. \A s \in Receipts : WorthIn(F, s) = WorthIn(entries, s)
    BY <1>1, <2>1, EntriesMerged
  <2>3. QED
    BY <1>1, <2>1, <2>2, WorthIsWorthIn, WorthIsInt
<1>5. P \in SUBSET Receipts /\ Q \in SUBSET Receipts
  BY DEF Standing
<1>6. /\ Total("user") = SumFunctionOnSet(f, P) /\ Total("walkIn") = SumFunctionOnSet(f, Q)
      /\ Total("user")' = SumFunctionOnSet(g, R) /\ Total("walkIn")' = SumFunctionOnSet(g, N)
  BY DEF Total
<1> HIDE DEF f, g, P, Q, R, N
<1>7. IsFiniteSet(P) /\ IsFiniteSet(Q) /\ IsFiniteSet(P \cup Q)
  BY <1>5, PointsAssumption, FS_Subset, FS_Union
<1>8. SumFunctionOnSet(f, P \cup Q) = SumFunctionOnSet(f, P) + SumFunctionOnSet(f, Q)
  BY <1>3, <1>4, <1>5, <1>7, SumUnion
<1>9. SumFunctionOnSet(f, P \cup Q) = SumFunctionOnSet(g, P \cup Q)
  BY <1>4, <1>5, <1>7, SumSame
<1>10. SumFunctionOnSet(g, {}) = 0
  BY SumEmpty
<1>11. QED
  BY <1>3, <1>6, <1>8, <1>9, <1>10

LEMMA MergeCommitStep ==
  ASSUME LoyaltyInv, NEW v \in Servers, MergeCommit(v), NEW q, q = server[v]
  PROVE  LoyaltyInv'
<1> DEFINE mine == Account("user")
           theirs == Account("walkIn")
           late == adjusted["walkIn"] - q.rows
<1>1. /\ LoyaltyTypeOK /\ LedgerOK(entries) /\ SalesOK /\ WalkInOK
      /\ Owners = {"user", "walkIn"}
  BY DEF LoyaltyInv, Owners
<1>2. /\ q.op = "delete" /\ q.rows \in Int /\ q.points = wallets["walkIn"]
      /\ server' = [server EXCEPT ![v] = Waiting] /\ UNCHANGED missed
  BY <1>1, ServerFields DEF LoyaltyInv, MergeCommit, Served, Resume, ServerOK
<1>3. CASE UNCHANGED <<wallets, enrolled, receipt, entries, adjusted, slack>>
  BY <1>2, <1>3, WaitingOK, ServerStep
<1>4. CASE ~UNCHANGED <<wallets, enrolled, receipt, entries, adjusted, slack>>
  <2>1. /\ wallets' = [o \in Owners |-> IF o = "walkIn" THEN Missing
                         ELSE mine + IF q.points = Missing THEN 0 ELSE q.points]
        /\ enrolled' = FALSE
        /\ receipt' = [s \in Receipts |-> MergedSale(receipt[s])]
        /\ entries' = {ToUser(e) : e \in entries}
        /\ adjusted' = [o \in Owners |-> IF o = "walkIn" THEN 0 ELSE adjusted["user"] + q.rows]
        /\ slack' = [o \in Owners |-> IF o = "walkIn" THEN 0
                                      ELSE slack["user"] + slack["walkIn"] + late]
    BY <1>4 DEF MergeCommit, Account
  <2>2. /\ mine \in Nat /\ theirs \in Nat
        /\ Total("user") \in Int /\ Total("walkIn") \in Int
        /\ mine = adjusted["user"] + slack["user"] + Total("user")
        /\ theirs = adjusted["walkIn"] + slack["walkIn"] + Total("walkIn")
    BY <1>1, TotalInt, Matches DEF LoyaltyInv
  <2>3. /\ adjusted["user"] \in Int /\ adjusted["walkIn"] \in Int
        /\ slack["user"] \in Int /\ slack["walkIn"] \in Int
        /\ late \in Int
    BY <1>1, <1>2 DEF LoyaltyTypeOK
  <2>4. (IF q.points = Missing THEN 0 ELSE q.points) = theirs
    BY <1>2 DEF Account, Known
  <2> HIDE DEF mine, theirs
  <2>5. wallets'["walkIn"] = Missing /\ wallets'["user"] = mine + theirs
    BY <1>1, <2>1, <2>4
  <2>6. /\ Missing \notin Nat /\ mine + theirs \in Nat
        /\ wallets' \in [Owners -> Nat \cup {Missing}]
    BY <1>1, <2>1, <2>2, <2>4, PointsAssumption
  <2>7. /\ ~Known("walkIn")' /\ Known("user")'
        /\ Account("walkIn")' = 0 /\ Account("user")' = mine + theirs
    BY <2>5, <2>6 DEF Known, Account
  <2>8. /\ adjusted'["walkIn"] = 0 /\ adjusted'["user"] = adjusted["user"] + q.rows
        /\ slack'["walkIn"] = 0 /\ slack'["user"] = slack["user"] + slack["walkIn"] + late
        /\ adjusted' \in [Owners -> Int] /\ slack' \in [Owners -> Int]
    BY <1>1, <1>2, <2>1, <2>3
  <2>9. Total("walkIn")' = 0 /\ Total("user")' = Total("user") + Total("walkIn")
    BY <1>2, <2>1, TotalsMerged
  <2>10. \A o \in Owners : Account(o)' = adjusted'[o] + slack'[o] + Total(o)'
    <3>1. Account("walkIn")' = adjusted'["walkIn"] + slack'["walkIn"] + Total("walkIn")'
      BY <2>7, <2>8, <2>9
    <3>2. Account("user")' = adjusted'["user"] + slack'["user"] + Total("user")'
      BY <1>2, <2>2, <2>3, <2>7, <2>8, <2>9
    <3>3. QED
      BY <1>1, <3>1, <3>2
  <2>11. ASSUME NEW u \in Servers, u # v, NEW r, r = server[u] PROVE ServerOK(r)'
    <3>1. r.op \notin {"move", "delete"}
      BY <1>2, <2>11 DEF LoyaltyInv, Apart
    <3>2. QED
      BY <2>1, <2>11, <3>1, ServerMerged
  <2>12. PICK F : F = entries'
    OBVIOUS
  <2>13. /\ \A e \in entries : /\ ToUser(e) \in F /\ ToUser(e).owner = "user"
                               /\ ToUser(e).sale = e.sale /\ ToUser(e).kind = e.kind
         /\ LedgerOK(F) /\ \A e \in F : \E d \in entries : e = ToUser(d)
    BY <1>1, <2>1, <2>12, EntriesMerged
  <2>14. \A s \in Receipts : /\ receipt'[s] # NoReceipt <=> receipt[s] # NoReceipt
                             /\ receipt[s] # NoReceipt =>
                                  /\ receipt'[s].owner = "user"
                                  /\ receipt'[s].status = receipt[s].status
    BY <1>1, <2>1, SaleMerged
  <2>15. receipt' \in [Receipts -> {NoReceipt}
            \cup [status : {"Active", "Voided"}, owner : Owners \cup {"nobody"}]]
    <3>1. \A s \in Receipts : MergedSale(receipt[s]) \in {NoReceipt}
            \cup [status : {"Active", "Voided"}, owner : Owners \cup {"nobody"}]
      BY <1>1, SaleMerged
    <3>2. QED
      BY <2>1, <3>1
  <2>16. SalesOK'
    <3>1. ASSUME NEW s \in Receipts, receipt'[s] # NoReceipt
          PROVE  /\ receipt'[s].owner \in Owners /\ Known(receipt[s].owner)'
                 /\ receipt'[s].status = "Voided" /\ s \notin missed' => AllBut(F, s, {})
      <4>1. receipt'[s].owner = "user" /\ receipt'[s].status = receipt[s].status
        BY <2>14, <3>1
      <4>2. Known(receipt[s].owner)'
        BY <2>7, <4>1 DEF Known
      <4>3. ASSUME receipt[s].status = "Voided", s \notin missed PROVE AllBut(F, s, {})
        <5>1. AllBut(entries, s, {})
          BY <1>1, <2>14, <3>1, <4>3 DEF SalesOK
        <5>2. ASSUME NEW e \in F, e.sale = s, e.kind \in Forward PROVE IsReversed(F, e)
          <6>1. PICK d \in entries : e = ToUser(d)
            BY <2>13
          <6>2. IsReversed(entries, d)
            BY <2>13, <5>1, <5>2, <6>1 DEF AllBut
          <6>3. QED
            BY <2>13, <6>1, <6>2 DEF IsReversed
        <5>3. QED
          BY <5>2 DEF AllBut
      <4>4. QED
        BY <1>1, <1>2, <4>1, <4>2, <4>3
    <3>2. \A e \in F : receipt'[e.sale] # NoReceipt /\ receipt'[e.sale].owner = e.owner
      <4> SUFFICES ASSUME NEW e \in F
                   PROVE  receipt'[e.sale] # NoReceipt /\ receipt'[e.sale].owner = e.owner
        OBVIOUS
      <4>1. PICK d \in entries : e = ToUser(d)
        BY <2>13
      <4>2. d.sale \in Receipts /\ receipt[d.sale] # NoReceipt
        BY <1>1 DEF SalesOK, LedgerOK, Entry
      <4>3. QED
        BY <2>13, <2>14, <4>1, <4>2
    <3>3. QED
      BY <2>12, <3>1, <3>2 DEF SalesOK
  <2>17. WalkInOK'
    BY <2>1, <2>7 DEF WalkInOK
  <2>18. LedgerOK(entries') /\ missed' \subseteq Receipts /\ enrolled' \in BOOLEAN
    BY <1>1, <1>2, <2>1, <2>12, <2>13 DEF LoyaltyTypeOK
  <2>19. QED
    BY <1>2, <2>6, <2>8, <2>10, <2>11, <2>15, <2>16, <2>17, <2>18, WaitingOK, Together
<1>5. QED
  BY <1>3, <1>4

LEMMA LoyaltyStep == LoyaltyInv /\ LoyaltyNext => LoyaltyInv'
<1> SUFFICES ASSUME LoyaltyInv, LoyaltyNext PROVE LoyaltyInv'
  OBVIOUS
<1>1. ASSUME NEW v \in Servers, NEW s \in Receipts, NEW o \in Owners, PreviewRedeem(v, s, o)
      PROVE  LoyaltyInv'
  BY <1>1, PreviewRedeemStep
<1>2. ASSUME NEW v \in Servers,
             \/ \E s \in Receipts : ReadForVoid(v, s)
             \/ FindEntries(v) \/ StartMerge(v) \/ LockWallets(v) \/ HandOverEntries(v)
             \/ \E o \in Owners, n \in Corrections : AdjustPoints(v, o, n)
             \/ Abandon(v)
      PROVE  LoyaltyInv'
  BY <1>2, LoyaltyReadSteps
<1>3. ASSUME NEW v \in Servers,
             SaleTransaction(v) \/ VoidTransaction(v) \/ MergeCommit(v)
      PROVE  LoyaltyInv'
  BY <1>3, SaleTransactionStep, VoidTransactionStep, MergeCommitStep
<1>4. ASSUME NEW v \in Servers, AdjustWallet(v) \/ NoteAdjustment(v) PROVE LoyaltyInv'
  BY <1>4, AdjustSteps
<1>5. QED
  BY <1>1, <1>2, <1>3, <1>4 DEF LoyaltyNext

-----------------------------------------------------------------------------
(***************************************************************************)
(* The office: what each service's state keeps, whoever is at work.        *)
(***************************************************************************)
IInv == /\ LeavesInv /\ PayrollInv /\ AccountingInv
        /\ ShiftsInv /\ LoyaltyInv /\ ReviewsInv

LEMMA InitIInv == Init => IInv
BY LeavesInitInv, PayrollInitInv, AccountingInitInv, ShiftsInitInv, LoyaltyInitInv,
   ReviewsInitInv DEF Init, IInv

LEMMA StepOfOne ==
  ASSUME [Next]_vars
  PROVE  /\ LeavesNext \/ UNCHANGED leaves
         /\ PayrollNext \/ UNCHANGED payroll
         /\ AccountingNext \/ UNCHANGED accounting
         /\ ShiftsNext \/ UNCHANGED drawer
         /\ LoyaltyNext \/ UNCHANGED loyalty
         /\ ReviewsNext \/ UNCHANGED reviews
<1>1. CASE Next
  BY <1>1, Zenon DEF Next
<1>2. CASE UNCHANGED vars
  BY <1>2 DEF vars
<1>3. QED
  BY <1>1, <1>2

LEMMA NextIInv == IInv /\ [Next]_vars => IInv'
<1> SUFFICES ASSUME IInv, [Next]_vars PROVE IInv'
  OBVIOUS
<1>1. LeavesInv'
  BY StepOfOne, LeavesStep, LeavesStutter DEF IInv
<1>2. PayrollInv'
  BY StepOfOne, PayrollStep, PayrollStutter DEF IInv
<1>3. AccountingInv'
  BY StepOfOne, AccountingStep, AccountingStutter DEF IInv
<1>4. ShiftsInv'
  BY StepOfOne, ShiftsStep, ShiftsStutter DEF IInv
<1>5. LoyaltyInv'
  BY StepOfOne, LoyaltyStep, LoyaltyStutter DEF IInv
<1>6. ReviewsInv'
  BY StepOfOne, ReviewsStep, ReviewsStutter DEF IInv
<1>7. QED
  BY <1>1, <1>2, <1>3, <1>4, <1>5, <1>6 DEF IInv

LEMMA Invariant == Spec => []IInv
BY InitIInv, NextIInv, PTL DEF Spec

\* Every row has its type, and every request in flight names rows there are.
THEOREM TypeCorrect == Spec => []TypeOK
<1>1. IInv => TypeOK
  BY DEF IInv, TypeOK, LeavesInv, PayrollInv, AccountingInv, ShiftsInv, LoyaltyInv, ReviewsInv
<1>2. QED
  BY <1>1, Invariant, PTL

\* A leave wallet lacks the days of the approved leaves and no others, for an
\* employee none of whose leaves was decided on a status that had changed
\* (employee-leaves.service.ts reads the leave, then writes).
THEOREM WalletAlwaysMatchesLeaves == Spec => []WalletMatchesLeaves
<1>1. IInv => WalletMatchesLeaves
  BY DEF IInv, LeavesInv
<1>2. QED
  BY <1>1, Invariant, PTL

\* No sale or refund is in two shifts' reports, however closings and openings
\* overlap and the clocks differ, unless two requests raced to open a drawer or to
\* close the same one (shifts.service.ts).
THEOREM AlwaysCountedOnce == Spec => []CountedOnce
<1>1. IInv => CountedOnce
  BY ShiftsCounted DEF IInv
<1>2. QED
  BY <1>1, Invariant, PTL

\* A loyalty wallet holds what its owner's standing sales and adjustments say,
\* through redemptions, voids, adjustments and a merge that overlap
\* (loyalty.service.ts, loyalty-wallet.service.ts).
THEOREM WalletsAlwaysMatchSales == Spec => []WalletsMatchSales
<1>1. IInv => WalletsMatchSales
  BY DEF IInv, LoyaltyInv
<1>2. QED
  BY <1>1, Invariant, PTL

\* A product's rating columns are those of its visible reviews, until an edit of
\* the product puts back what it read (reviews.service.ts).
THEOREM AggregatesAlwaysConverge == Spec => []AggregatesConverge
<1>1. IInv => AggregatesConverge
  BY DEF IInv, ReviewsInv
<1>2. QED
  BY <1>1, Invariant, PTL

\* The cashier's own clock changes no status a day has been given
\* (attendance.service.ts).
THEOREM MarksOnlyByManagers == Spec => ManagersMarkStands
<1>1. IInv /\ [Next]_vars =>
        [\A e \in Employees :
           mark[e] # NoMark /\ mark'[e].status # mark[e].status
             => mark'[e].by = "Manager"]_mark
  <2> SUFFICES ASSUME IInv, [Next]_vars
               PROVE  [\A e \in Employees :
                         mark[e] # NoMark /\ mark'[e].status # mark[e].status
                           => mark'[e].by = "Manager"]_mark
    OBVIOUS
  <2>1. CASE UNCHANGED payroll
    BY <2>1 DEF payroll
  <2>2. CASE PayrollNext
    BY <2>2, MarkStep DEF IInv
  <2>3. QED
    BY <2>1, <2>2, StepOfOne
<1>2. QED
  BY <1>1, Invariant, PTL DEF Spec, ManagersMarkStands

\* A paid payroll row is never written again, but by a request that read it
\* before it was paid (payroll.service.ts).
THEOREM PaidRowsAreKept == Spec => PaidIsKept
<1>1. IInv /\ [Next]_vars =>
        [\A e \in Employees, p \in Periods :
           pay[e][p].status = "Paid" /\ <<e, p>> \notin stale' =>
             pay'[e][p] = pay[e][p]]_pay
  <2> SUFFICES ASSUME IInv, [Next]_vars
               PROVE  [\A e \in Employees, p \in Periods :
                         pay[e][p].status = "Paid" /\ <<e, p>> \notin stale' =>
                           pay'[e][p] = pay[e][p]]_pay
    OBVIOUS
  <2>1. CASE UNCHANGED payroll
    BY <2>1 DEF payroll
  <2>2. CASE PayrollNext
    BY <2>2, PaidStep DEF IInv
  <2>3. QED
    BY <2>1, <2>2, StepOfOne
<1>2. QED
  BY <1>1, Invariant, PTL DEF Spec, PaidIsKept

\* A posting that asks after the lock of its month was answered is refused,
\* unless the cache holds what a load read before that answer.
THEOREM ClosedMonthsAlwaysRefuse == Spec => ClosedMonthsRefuse
<1>1. IInv /\ [Next]_vars =>
        [\A c \in Accountants :
           /\ clerk[c].op \in {"assert", "load"} /\ clerk'[c].op = "post"
           /\ clerk[c].month \in answered
           => overtaken']_accounting
  <2> SUFFICES ASSUME IInv, [Next]_vars
               PROVE  [\A c \in Accountants :
                         /\ clerk[c].op \in {"assert", "load"} /\ clerk'[c].op = "post"
                         /\ clerk[c].month \in answered
                         => overtaken']_accounting
    OBVIOUS
  <2>1. CASE UNCHANGED accounting
    BY <2>1
  <2>2. CASE AccountingNext
    BY <2>2, RefusalStep DEF IInv
  <2>3. QED
    BY <2>1, <2>2, StepOfOne
<1>2. QED
  BY <1>1, Invariant, PTL DEF Spec, ClosedMonthsRefuse
=============================================================================
