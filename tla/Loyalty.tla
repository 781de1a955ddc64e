-------------------------------- MODULE Loyalty --------------------------------
(***************************************************************************)
(* The loyalty wallets of one person, who is a walk-in customer with a     *)
(* phone number and a registered user: points spent and earned at the      *)
(* tills, taken back when a sale is voided, adjusted by staff, and merged  *)
(* when the user confirms the phone number.                                *)
(*                                                                         *)
(* Sales, voids and merges are transactions; what they read before is not  *)
(* locked.  A transaction's writes are made by the step that commits it,   *)
(* and only a merge, which locks the wallets first, is cut further.  An    *)
(* adjustment is two statements outside any transaction.                   *)
(***************************************************************************)
EXTENDS Integers, FiniteSets, Functions, FiniteSetsExt

CONSTANTS
  Receipts,    \* identifiers of sales
  Asked,       \* points each sale redeems at most, after the cap by its amount
  Gained,      \* points each sale earns
  Corrections, \* what staff adjust by
  MinPoints,   \* loyalty_settings.min_redeemable_points
  Balance,     \* the walk-in's points at the start
  Servers,     \* requests in flight at the same time
  Missing      \* no such row

ASSUME PointsAssumption ==
  /\ Asked \in [Receipts -> Nat] /\ Gained \in [Receipts -> Nat]
  /\ Corrections \subseteq Int /\ MinPoints \in Nat /\ Balance \in Nat
  /\ Missing \notin Int /\ IsFiniteSet(Receipts)

VARIABLES
  wallets,   \* loyalty_accounts.points_balance, by owner
  enrolled,  \* the walk-in's row of loyalty_customers is there
  receipt,   \* the sales table: status and loyalty owner
  entries,   \* loyalty_ledger_entries of the sales
  adjusted,  \* sum of each owner's other entries
  server,    \* what each request in flight has read
  slack,     \* history: points forgiven, and adjusted without their entry
  missed     \* history: sales voided under an owner merged away since

loyalty == <<wallets, enrolled, receipt, entries, adjusted, server, slack, missed>>

Owners == {"user", "walkIn"}
Kinds == {"redeemed", "earned", "redeemReversed", "earnReversed"}
Entry == [owner : Owners, sale : Receipts, kind : Kinds, points : Nat]
NoReceipt == [status |-> "none"]
Waiting == [op |-> "waiting"]

ServerRequests ==
  {Waiting}
    \cup [op : {"sell"}, sale : Receipts, owner : Owners, redeem : Nat]
    \cup [op : {"void"}, sale : Receipts, owner : Owners \cup {"nobody"}]
    \cup [op : {"reverse"}, sale : Receipts, owner : Owners \cup {"nobody"},
          rows : SUBSET Entry]
    \cup [op : {"merge"}]
    \cup [op : {"move"}, points : Nat \cup {Missing}, known : BOOLEAN]
    \cup [op : {"delete"}, points : Nat \cup {Missing}, known : BOOLEAN, rows : Int]
    \cup [op : {"adjust", "note"}, owner : Owners, points : Int]

LoyaltyInit ==
  /\ wallets = [o \in Owners |-> IF o = "user" THEN Missing ELSE Balance]
  /\ enrolled = TRUE
  /\ receipt = [s \in Receipts |-> NoReceipt]
  /\ entries = {}
  /\ adjusted = [o \in Owners |-> IF o = "user" THEN 0 ELSE Balance]
  /\ server = [v \in Servers |-> Waiting]
  /\ slack = [o \in Owners |-> 0]
  /\ missed = {}

Serve(v, r) == server[v] = Waiting /\ server' = [server EXCEPT ![v] = r]
Resume(v, r) == server' = [server EXCEPT ![v] = r]
Served(v) == Resume(v, Waiting)

Known(o) == wallets[o] # Missing

\* A merge under way holds the rows of both wallets it found.
WalletLocked(o) ==
  \E v \in Servers :
    /\ server[v].op \in {"move", "delete"}
    /\ IF o = "user" THEN server[v].known ELSE server[v].points # Missing

Clamp(n) == Max({0, n})

-----------------------------------------------------------------------------
(***************************************************************************)
(* createSale: previewRedeemValue before the transaction, redeemForOrder   *)
(* and awardForOrder in it.                                                *)
(***************************************************************************)
Redeemable(balance) == Clamp(balance - MinPoints)

\* getOrCreateAccount opens a wallet that is not there.
PreviewRedeem(v, s, o) ==
  LET balance == IF Known(o) THEN wallets[o] ELSE 0
  IN  /\ receipt[s] = NoReceipt /\ (o = "walkIn" => enrolled)
      /\ \A u \in Servers : server[u].op = "sell" => server[u].sale # s
      /\ wallets' = [wallets EXCEPT ![o] = balance]
      /\ Serve(v, [op |-> "sell", sale |-> s, owner |-> o,
                   redeem |-> Min({Asked[s], Redeemable(balance)})])
      /\ UNCHANGED <<enrolled, receipt, entries, adjusted, slack, missed>>

SaleEntries(s, o, redeem) ==
  {e \in {[owner |-> o, sale |-> s, kind |-> "redeemed", points |-> redeem],
          [owner |-> o, sale |-> s, kind |-> "earned", points |-> Gained[s]]} :
     e.points > 0}

\* A walk-in merged away meanwhile fails the foreign key, fewer points fail
\* the checkout.
SaleTransaction(v) ==
  LET r == server[v]
      o == r.owner
      sound == Known(o) /\ r.redeem <= Redeemable(wallets[o])
  IN  /\ r.op = "sell" /\ ~WalletLocked(o)
      /\ IF sound
           THEN /\ wallets' = [wallets EXCEPT ![o] = @ - r.redeem + Gained[r.sale]]
                /\ receipt' = [receipt EXCEPT ![r.sale] = [status |-> "Active", owner |-> o]]
                /\ entries' = entries \cup SaleEntries(r.sale, o, r.redeem)
           ELSE UNCHANGED <<wallets, receipt, entries>>
      /\ Served(v)
      /\ UNCHANGED <<enrolled, adjusted, slack, missed>>

-----------------------------------------------------------------------------
(***************************************************************************)
(* voidSale: the sale is read before the transaction, owner and all.       *)
(***************************************************************************)
ReadForVoid(v, s) ==
  /\ receipt[s].status = "Active"
  /\ Serve(v, [op |-> "void", sale |-> s, owner |-> receipt[s].owner])
  /\ UNCHANGED <<wallets, enrolled, receipt, entries, adjusted, slack, missed>>

Reversed(kind) == IF kind = "earned" THEN "earnReversed" ELSE "redeemReversed"

Has(o, s, kind) == \E e \in entries : e.owner = o /\ e.sale = s /\ e.kind = kind

\* The entries of the owner as read that are not reversed yet.
FindEntries(v) ==
  LET r == server[v]
  IN  /\ r.op = "void"
      /\ Resume(v, [op |-> "reverse", sale |-> r.sale, owner |-> r.owner,
                    rows |-> {e \in entries : /\ e.owner = r.owner /\ e.sale = r.sale
                                              /\ e.kind \in {"earned", "redeemed"}
                                              /\ ~Has(r.owner, r.sale, Reversed(e.kind))}])
      /\ UNCHANGED <<wallets, enrolled, receipt, entries, adjusted, slack, missed>>

PointsOf(rows, kind) ==
  SumFunctionOnSet([e \in rows |-> e.points], {e \in rows : e.kind = kind})

\* The unique index on owner, order and kind; the walk-in's foreign key.
RowsRefused(rows) ==
  \E e \in rows : Has(e.owner, e.sale, Reversed(e.kind))
                  \/ (e.owner = "walkIn" /\ ~enrolled)

\* Earned points already spent are forgiven.  A sale merged since it was read
\* finds no entries: it is voided and its points stay as they are.
VoidTransaction(v) ==
  LET r == server[v]
      o == r.owner
      earned == PointsOf(r.rows, "earned")
      left == Clamp(wallets[o] - earned)
  IN  /\ r.op = "reverse"
      /\ r.rows # {} => ~WalletLocked(o)
      /\ IF RowsRefused(r.rows)
           THEN UNCHANGED <<wallets, receipt, entries, slack, missed>>
           ELSE /\ receipt' = [receipt EXCEPT ![r.sale].status = "Voided"]
                /\ entries' = entries \cup
                     {[e EXCEPT !.kind = Reversed(e.kind)] : e \in r.rows}
                /\ missed' = IF o = receipt[r.sale].owner THEN missed
                             ELSE missed \cup {r.sale}
                /\ IF r.rows = {} THEN UNCHANGED <<wallets, slack>>
                   ELSE /\ wallets' = [wallets EXCEPT ![o] =
                             left + PointsOf(r.rows, "redeemed")]
                        /\ slack' = [slack EXCEPT ![o] = @ + left - (wallets[o] - earned)]
      /\ Served(v)
      /\ UNCHANGED <<enrolled, adjusted>>

-----------------------------------------------------------------------------
(***************************************************************************)
(* mergeWalkInIntoUser, in three steps: the wallets are locked and read,   *)
(* the entries are handed over, the walk-in is deleted and all is          *)
(* committed.                                                              *)
(***************************************************************************)
StartMerge(v) ==
  /\ enrolled
  /\ Serve(v, [op |-> "merge"])
  /\ UNCHANGED <<wallets, enrolled, receipt, entries, adjusted, slack, missed>>

LockWallets(v) ==
  /\ server[v].op = "merge"
  /\ \A o \in Owners : ~WalletLocked(o)
  /\ Resume(v, [op |-> "move", points |-> wallets["walkIn"], known |-> Known("user")])
  /\ UNCHANGED <<wallets, enrolled, receipt, entries, adjusted, slack, missed>>

HandOverEntries(v) ==
  LET r == server[v]
  IN  /\ r.op = "move"
      /\ Resume(v, [op |-> "delete", points |-> r.points, known |-> r.known,
                    rows |-> adjusted["walkIn"]])
      /\ UNCHANGED <<wallets, enrolled, receipt, entries, adjusted, slack, missed>>

ToUser(row) == IF row.owner = "walkIn" THEN [row EXCEPT !.owner = "user"] ELSE row

\* Mutant: the sales are left to the foreign key, which sets their owner null.
MergedSaleUnowned(row) ==
  IF row # NoReceipt /\ row.owner = "walkIn" THEN [row EXCEPT !.owner = "nobody"] ELSE row

MergedSale(row) == IF row = NoReceipt THEN row ELSE ToUser(row)

\* Without a wallet of the user the walk-in's changes hands, which fails if
\* one has been opened since.  Entries noted after the hand-over are deleted
\* with the walk-in.
MergeCommit(v) ==
  LET r == server[v]
      mine == IF Known("user") THEN wallets["user"] ELSE 0
      late == adjusted["walkIn"] - r.rows
  IN  /\ r.op = "delete"
      /\ IF r.points # Missing /\ ~r.known /\ Known("user")
           THEN UNCHANGED <<wallets, enrolled, receipt, entries, adjusted, slack>>
           ELSE /\ wallets' = [o \in Owners |->
                     IF o = "walkIn" THEN Missing
                     ELSE mine + IF r.points = Missing THEN 0 ELSE r.points]
                /\ enrolled' = FALSE
                /\ receipt' = [s \in Receipts |-> MergedSale(receipt[s])]
                /\ entries' = {ToUser(e) : e \in entries}
                /\ adjusted' = [o \in Owners |->
                     IF o = "walkIn" THEN 0 ELSE adjusted["user"] + r.rows]
                /\ slack' = [o \in Owners |->
                     IF o = "walkIn" THEN 0 ELSE slack["user"] + slack["walkIn"] + late]
      /\ Served(v)
      /\ UNCHANGED missed

-----------------------------------------------------------------------------
(***************************************************************************)
(* adjustPoints: the balance is checked, the wallet is adjusted, the entry *)
(* is noted.                                                               *)
(***************************************************************************)
AdjustPoints(v, o, n) ==
  /\ Known(o) /\ wallets[o] + n >= 0
  /\ Serve(v, [op |-> "adjust", owner |-> o, points |-> n])
  /\ UNCHANGED <<wallets, enrolled, receipt, entries, adjusted, slack, missed>>

\* A wallet merged away takes no adjustment.
AdjustWallet(v) ==
  LET r == server[v]
      o == r.owner
      after == Clamp(wallets[o] + r.points)
  IN  /\ r.op = "adjust" /\ ~WalletLocked(o)
      /\ IF Known(o)
           THEN /\ wallets' = [wallets EXCEPT ![o] = after]
                /\ slack' = [slack EXCEPT ![o] = @ + after - wallets[o]]
           ELSE UNCHANGED <<wallets, slack>>
      /\ Resume(v, [r EXCEPT !.op = "note"])
      /\ UNCHANGED <<enrolled, receipt, entries, adjusted, missed>>

NoteAdjustment(v) ==
  LET r == server[v]
      o == r.owner
  IN  /\ r.op = "note"
      /\ IF o = "walkIn" /\ ~enrolled
           THEN UNCHANGED <<adjusted, slack>>
           ELSE /\ adjusted' = [adjusted EXCEPT ![o] = @ + r.points]
                /\ slack' = [slack EXCEPT ![o] = @ - r.points]
      /\ Served(v)
      /\ UNCHANGED <<wallets, enrolled, receipt, entries, missed>>

\* A transaction is the victim of a deadlock, or its process dies.
Abandon(v) ==
  /\ server[v] # Waiting
  /\ Served(v)
  /\ UNCHANGED <<wallets, enrolled, receipt, entries, adjusted, slack, missed>>

LoyaltyNext ==
  \/ \E v \in Servers, s \in Receipts :
       ReadForVoid(v, s) \/ \E o \in Owners : PreviewRedeem(v, s, o)
  \/ \E v \in Servers : SaleTransaction(v) \/ FindEntries(v) \/ VoidTransaction(v)
  \/ \E v \in Servers :
       StartMerge(v) \/ LockWallets(v) \/ HandOverEntries(v) \/ MergeCommit(v)
  \/ \E v \in Servers, o \in Owners, n \in Corrections : AdjustPoints(v, o, n)
  \/ \E v \in Servers : AdjustWallet(v) \/ NoteAdjustment(v) \/ Abandon(v)

-----------------------------------------------------------------------------
LoyaltyTypeOK ==
  /\ wallets \in [Owners -> Nat \cup {Missing}]
  /\ enrolled \in BOOLEAN
  /\ receipt \in [Receipts -> {NoReceipt}
       \cup [status : {"Active", "Voided"}, owner : Owners \cup {"nobody"}]]
  /\ entries \subseteq Entry
  /\ adjusted \in [Owners -> Int]
  /\ server \in [Servers -> ServerRequests]
  /\ slack \in [Owners -> Int]
  /\ missed \subseteq Receipts

\* What a sale has done to its owner's wallet.
Worth(s) ==
  LET of(kind) == PointsOf({e \in entries : e.sale = s}, kind)
  IN  of("earned") - of("redeemed") - of("earnReversed") + of("redeemReversed")

\* A wallet holds what the adjustments and the sales of its owner that stand
\* say, through voids, adjustments and a merge that overlap; but for points
\* forgiven, adjustments without their entry, and sales voided under an owner
\* that a merge had replaced since they were read.
WalletsMatchSales ==
  \A o \in Owners :
    (IF Known(o) THEN wallets[o] ELSE 0)
      = adjusted[o] + slack[o]
        + SumFunctionOnSet([s \in Receipts |-> Worth(s)],
                           {s \in Receipts : /\ receipt[s] # NoReceipt
                                             /\ receipt[s].owner = o
                                             /\ receipt[s].status = "Active" \/ s \in missed})
=============================================================================
