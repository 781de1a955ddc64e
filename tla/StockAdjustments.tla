--------------------------- MODULE StockAdjustments ---------------------------
(***************************************************************************)
(* Stock counts.  A small difference, and any that an administrator        *)
(* reports, is applied at once; a manager's larger one waits for approval. *)
(* Applying sets the row to the counted quantity under its lock and works  *)
(* the difference out again; the status was checked before, on no lock.    *)
(***************************************************************************)
EXTENDS Shelf

CONSTANTS
  Adjustments,   \* identifiers of adjustments
  Reviewers,     \* requests in flight at the same time
  Counted,       \* the quantities people count
  Threshold      \* ADJUSTMENT_APPROVAL_THRESHOLD

ASSUME CountsAssumption == Counted \subseteq Nat /\ Threshold \in Nat

VARIABLES
  adjustment,   \* the stock_adjustments table
  effect,       \* sum of the stock movements of each
  reviewer,     \* what each request in flight has read
  overtaken     \* history: adjustments another request had decided meanwhile

adjustments == <<adjustment, effect, reviewer, overtaken>>

Adjustment == [status : {"PENDING", "APPROVED", "REVERSED"}, product : Products,
               physical : Counted, difference : Int]
NoAdjustment == [status |-> "none"]
Waiting == [op |-> "waiting"]

ReviewRequests ==
  {Waiting}
    \cup [op : {"apply"}, id : Adjustments, product : Products, physical : Counted,
          seen : {"none", "PENDING"}]
    \cup [op : {"reverse"}, id : Adjustments, product : Products, difference : Int]

AdjustInit ==
  /\ adjustment = [a \in Adjustments |-> NoAdjustment]
  /\ effect = [a \in Adjustments |-> 0]
  /\ reviewer = [w \in Reviewers |-> Waiting]
  /\ overtaken = {}

Take(w, r) ==
  /\ reviewer[w] = Waiting
  /\ reviewer' = [reviewer EXCEPT ![w] = r]

Respond(w) == reviewer' = [reviewer EXCEPT ![w] = Waiting]

\* The request decides adjustment a, which had this status when it was read.
Decide(a, seen) ==
  overtaken' = IF adjustment[a].status = seen THEN overtaken ELSE overtaken \cup {a}

Abs(n) == IF n < 0 THEN -n ELSE n

-----------------------------------------------------------------------------
\* A manager's count that differs by more than the threshold.
Submit(a, p, counted) ==
  /\ adjustment[a] = NoAdjustment
  /\ \E w \in Reviewers : reviewer[w] = Waiting
  /\ Abs(counted - stock[p]) > Threshold
  /\ adjustment' = [adjustment EXCEPT ![a] =
       [status |-> "PENDING", product |-> p, physical |-> counted,
        difference |-> counted - stock[p]]]
  /\ UNCHANGED <<effect, reviewer, overtaken>>

\* Any other count: the threshold was met by what the shelf held when read.
Count(w, a, p, counted, admin) ==
  /\ adjustment[a] = NoAdjustment
  /\ \A v \in Reviewers : reviewer[v] # Waiting => reviewer[v].id # a
  /\ admin \/ Abs(counted - stock[p]) <= Threshold
  /\ Take(w, [op |-> "apply", id |-> a, product |-> p, physical |-> counted,
              seen |-> "none"])
  /\ UNCHANGED <<adjustment, effect, overtaken>>

Approve(w, a) ==
  /\ adjustment[a].status = "PENDING"
  /\ Take(w, [op |-> "apply", id |-> a, product |-> adjustment[a].product,
              physical |-> adjustment[a].physical, seen |-> "PENDING"])
  /\ UNCHANGED <<adjustment, effect, overtaken>>

\* Mutant: the journal gets the difference of the count, not of the shelf.
DifferenceCounted(a, p, physical) ==
  IF adjustment[a] = NoAdjustment THEN physical - stock[p]
  ELSE adjustment[a].difference

\* Worked out again from the row under its lock.
Difference(a, p, physical) == physical - stock[p]

ApplyToInventory(w) ==
  /\ reviewer[w].op = "apply"
  /\ LET a == reviewer[w].id
         p == reviewer[w].product
         physical == reviewer[w].physical
         difference == Difference(a, p, physical)
     IN /\ stock' = [stock EXCEPT ![p] = physical]
        /\ moved' = [moved EXCEPT ![p] = @ + difference]
        /\ effect' = [effect EXCEPT ![a] = @ + difference]
        /\ adjustment' = [adjustment EXCEPT ![a] =
             [status |-> "APPROVED", product |-> p, physical |-> physical,
              difference |-> difference]]
        /\ Decide(a, reviewer[w].seen)
  /\ Respond(w)

Reverse(w, a) ==
  /\ adjustment[a].status = "APPROVED"
  /\ Take(w, [op |-> "reverse", id |-> a, product |-> adjustment[a].product,
              difference |-> adjustment[a].difference])
  /\ UNCHANGED <<adjustment, effect, overtaken>>

\* Mutant: the shelf goes back to what it held before the count.
TakenBackToCount(w) ==
  stock[reviewer[w].product] + reviewer[w].difference
    - adjustment[reviewer[w].id].physical

TakenBack(w) == reviewer[w].difference

\* The difference is taken off whatever the shelf holds now, below zero too.
ReverseCommit(w) ==
  /\ reviewer[w].op = "reverse"
  /\ LET a == reviewer[w].id
         p == reviewer[w].product
         difference == TakenBack(w)
     IN /\ stock' = [stock EXCEPT ![p] = @ - difference]
        /\ moved' = [moved EXCEPT ![p] = @ - difference]
        /\ effect' = [effect EXCEPT ![a] = @ - difference]
        /\ adjustment' = [adjustment EXCEPT ![a].status = "REVERSED"]
        /\ Decide(a, "APPROVED")
  /\ Respond(w)

-----------------------------------------------------------------------------
\* The requests that leave the shelf alone.
Paperwork ==
  \/ \E a \in Adjustments, p \in Products, counted \in Counted : Submit(a, p, counted)
  \/ \E w \in Reviewers, a \in Adjustments : Approve(w, a) \/ Reverse(w, a)
  \/ \E w \in Reviewers, a \in Adjustments, p \in Products, counted \in Counted :
       \E admin \in BOOLEAN : Count(w, a, p, counted, admin)

AdjustNext ==
  \/ Paperwork /\ UNCHANGED shelf
  \/ \E w \in Reviewers : ApplyToInventory(w) \/ ReverseCommit(w)

AdjustTypeOK ==
  /\ adjustment \in [Adjustments -> Adjustment \cup {NoAdjustment}]
  /\ effect \in [Adjustments -> Int]
  /\ reviewer \in [Reviewers -> ReviewRequests]
  /\ overtaken \subseteq Adjustments

\* An adjustment that nobody else decided meanwhile moved the shelf by the
\* difference it records, and once reversed by nothing, whatever was sold,
\* bought or counted before, between and since.
AdjustmentsCancelOut ==
  \A a \in Adjustments \ overtaken :
    effect[a] = IF adjustment[a].status = "APPROVED"
                  THEN adjustment[a].difference ELSE 0
=============================================================================
