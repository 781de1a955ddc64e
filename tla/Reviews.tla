-------------------------------- MODULE Reviews --------------------------------
(***************************************************************************)
(* The reviews of one product and the count and rating kept on its row.    *)
(*                                                                         *)
(* A handler reads a review and saves it whole in a transaction, which     *)
(* then locks the product and recomputes its columns from the reviews it   *)
(* sees: those committed, and its own.  Editing the product saves its row  *)
(* as read, the two columns with it.                                       *)
(***************************************************************************)
EXTENDS Integers, FiniteSets, Functions

CONSTANTS
  Posts,     \* identifiers of reviews
  Authors,   \* customers; a product has one review of each at most
  Ratings,
  Writers    \* requests in flight at the same time

ASSUME RatingsAssumption == Ratings \subseteq 1 .. 5 /\ IsFiniteSet(Posts)

VARIABLES
  review,     \* the product_reviews table, as committed
  aggregate,  \* products.review_count and avg_rating
  writer,     \* what each request in flight has read and written
  overlaid    \* history: the columns come from an edit of the product

reviews == <<review, aggregate, writer, overlaid>>

Review == [author : Authors, rating : Ratings, status : {"visible", "hidden"}]
NoReview == [status |-> "none"]
Deleted == [status |-> "deleted"]
Nobody == [op |-> "away"]

\* The average is kept as the sum it comes from.
Aggregate(table) ==
  LET visible == {p \in Posts : table[p].status = "visible"}
  IN  [count |-> Cardinality(visible),
       sum |-> SumFunctionOnSet([p \in Posts |-> table[p].rating], visible)]

Sums == [count : Nat, sum : Nat]
WriterRequests ==
  {Nobody}
    \cup [op : {"save"}, id : Posts, author : Authors, row : Review \cup {Deleted}]
    \cup [op : {"recompute", "locked"}, id : Posts, author : Authors,
          row : Review \cup {NoReview, Deleted}, inserted : BOOLEAN]
    \cup [op : {"commit"}, id : Posts, author : Authors,
          row : Review \cup {NoReview, Deleted}, seen : Sums]
    \cup [op : {"edit"}, seen : Sums]

ReviewsInit ==
  /\ review = [p \in Posts |-> NoReview]
  /\ aggregate = Aggregate(review)
  /\ writer = [w \in Writers |-> Nobody]
  /\ overlaid = FALSE

Pick(w, r) == writer[w] = Nobody /\ writer' = [writer EXCEPT ![w] = r]
Turn(w, r) == writer' = [writer EXCEPT ![w] = r]

Published(p) == review[p].status \in {"visible", "hidden"}
Reviewed(a) == \E p \in Posts : Published(p) /\ review[p].author = a

\* What a handler is to save: a new row, or the one it read, changed.
Save(w, p, a, row) ==
  /\ Pick(w, [op |-> "save", id |-> p, author |-> a, row |-> row])
  /\ UNCHANGED <<review, aggregate, overlaid>>

CreateReview(w, p, a, rating) ==
  /\ review[p] = NoReview /\ ~Reviewed(a)
  /\ \A v \in Writers : writer[v].op \notin {"away", "edit"} => writer[v].id # p
  /\ Save(w, p, a, [author |-> a, rating |-> rating, status |-> "visible"])

UpdateReview(w, p, rating) ==
  /\ Published(p)
  /\ Save(w, p, review[p].author, [review[p] EXCEPT !.rating = rating])

Moderate(w, p, status) ==
  /\ Published(p)
  /\ Save(w, p, review[p].author, [review[p] EXCEPT !.status = status])

\* remove and moderateDelete
RemoveReview(w, p) ==
  /\ Published(p)
  /\ Save(w, p, review[p].author, Deleted)

-----------------------------------------------------------------------------
InTransaction(v) == writer[v].op \in {"recompute", "locked", "commit"}

\* An inserted row shares the product's key until its transaction ends, and
\* FOR UPDATE keeps out, and waits for, those who do.
Sharing(v) == writer[v].op = "recompute" /\ writer[v].inserted
ProductLocked == \E v \in Writers : writer[v].op \in {"locked", "commit"}

\* The row is written, and locked; save inserts what is not there, be it new
\* or deleted since it was read.  A second review of one author breaks the
\* unique index.
WriteReview(w) ==
  LET r == writer[w]
      inserts == r.row # Deleted /\ ~Published(r.id)
      goes(row) == Turn(w, [op |-> "recompute", id |-> r.id, author |-> r.author,
                            row |-> row, inserted |-> inserts])
  IN  /\ r.op = "save"
      /\ \A v \in Writers : InTransaction(v) =>
           writer[v].id # r.id /\ writer[v].author # r.author
      /\ inserts => ~ProductLocked
      /\ IF inserts /\ Reviewed(r.author) THEN Turn(w, Nobody)
         ELSE IF r.row = Deleted /\ ~Published(r.id) THEN goes(review[r.id])
         ELSE goes(r.row)
      /\ UNCHANGED <<review, aggregate, overlaid>>

\* Mutant: the product is not locked first.
ProductNeverLocked(w) == TRUE

ProductFree(w) == ~ProductLocked /\ \A v \in Writers \ {w} : ~Sharing(v)

LockProduct(w) ==
  /\ writer[w].op = "recompute" /\ ProductFree(w)
  /\ Turn(w, [writer[w] EXCEPT !.op = "locked"])
  /\ UNCHANGED <<review, aggregate, overlaid>>

Written(w) == [review EXCEPT ![writer[w].id] = writer[w].row]

RecomputeAggregates(w) ==
  LET r == writer[w]
  IN  /\ r.op = "locked"
      /\ Turn(w, [op |-> "commit", id |-> r.id, author |-> r.author, row |-> r.row,
                  seen |-> Aggregate(Written(w))])
      /\ UNCHANGED <<review, aggregate, overlaid>>

CommitReview(w) ==
  /\ writer[w].op = "commit"
  /\ review' = Written(w)
  /\ aggregate' = writer[w].seen
  /\ overlaid' = FALSE
  /\ Turn(w, Nobody)

\* ProductsService.update
EditProduct(w) ==
  /\ Pick(w, [op |-> "edit", seen |-> aggregate])
  /\ UNCHANGED <<review, aggregate, overlaid>>

SaveProduct(w) ==
  /\ writer[w].op = "edit" /\ ~ProductLocked
  /\ aggregate' = writer[w].seen
  /\ overlaid' = (overlaid \/ aggregate # writer[w].seen)
  /\ Turn(w, Nobody)
  /\ UNCHANGED review

\* An error, or the victim of the deadlock of two that share the product.
Rollback(w) ==
  /\ writer[w] # Nobody
  /\ Turn(w, Nobody)
  /\ UNCHANGED <<review, aggregate, overlaid>>

ReviewsNext ==
  \E w \in Writers :
    \/ \E p \in Posts :
         \/ RemoveReview(w, p)
         \/ \E rating \in Ratings :
              UpdateReview(w, p, rating) \/ \E a \in Authors : CreateReview(w, p, a, rating)
         \/ \E status \in {"visible", "hidden"} : Moderate(w, p, status)
    \/ WriteReview(w) \/ LockProduct(w) \/ RecomputeAggregates(w) \/ CommitReview(w)
    \/ EditProduct(w) \/ SaveProduct(w) \/ Rollback(w)

-----------------------------------------------------------------------------
ReviewsTypeOK ==
  /\ review \in [Posts -> Review \cup {NoReview, Deleted}]
  /\ aggregate \in Sums
  /\ writer \in [Writers -> WriterRequests]
  /\ overlaid \in BOOLEAN

\* "concurrent review writes serialize and converge": the product's columns
\* are those of its visible reviews after every transaction, stale saves,
\* deletions and roll-backs included, until an edit of the product puts back
\* what it read.
AggregatesConverge == ~overlaid => aggregate = Aggregate(review)
=============================================================================
