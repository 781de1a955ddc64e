---------------------------- MODULE SumTheorems ----------------------------
(***************************************************************************)
(* Sums of a function over a finite set of indices.                        *)
(*                                                                         *)
(* The sum is defined by recursion over subsets.  The induction theorems   *)
(* of the library take the property to prove as an operator; here it is a  *)
(* set of subsets (SubsetInduction), a consequence of the theorem that a   *)
(* well-founded relation has minimal elements.                             *)
(***************************************************************************)
EXTENDS Integers, Functions, FiniteSets, FiniteSetTheorems, WellFoundedInduction, TLAPS

\* A collection of subsets of a finite set that holds a subset as soon as it
\* holds its proper subsets has all of them.
LEMMA SubsetInduction ==
  ASSUME NEW S, IsFiniteSet(S), NEW G,
         \A T \in SUBSET S : (\A U \in SUBSET T : U # T => U \in G) => T \in G
  PROVE  \A T \in SUBSET S : T \in G
<1> DEFINE B == {T \in SUBSET S : T \notin G}
<1>1. SUFFICES ASSUME B # {} PROVE FALSE
  OBVIOUS
<1>2. IsWellFoundedOn(StrictSubsetOrdering(S), SUBSET S)
  BY FS_StrictSubsetOrderingWellFounded, FS_FiniteSubsetsOfFinite
<1>3. PICK T \in B : \A U \in B : <<U, T>> \notin StrictSubsetOrdering(S)
  <2> HIDE DEF B
  <2>1. B \subseteq SUBSET S
    BY DEF B
  <2>2. QED
    BY <1>1, <1>2, <2>1, WFMin
<1>4. \A U \in SUBSET T : U # T => U \in G
  BY <1>3 DEF StrictSubsetOrdering
<1>5. QED
  BY <1>3, <1>4

-----------------------------------------------------------------------------
(***************************************************************************)
(* The recursion has a solution.                                           *)
(***************************************************************************)
First(S) == CHOOSE x \in S : TRUE

\* g is the function that SumFunctionOnSet(f, S) defines and applies to S.
SumTable(g, f, S) ==
  g = [T \in SUBSET S |->
         IF T = {} THEN 0 ELSE f[First(T)] + g[T \ {First(T)}]]

LEMMA FirstIn ==
  ASSUME NEW S, S # {}
  PROVE  First(S) \in S
BY DEF First

LEMMA SumsAgree ==
  ASSUME NEW S, IsFiniteSet(S), NEW f, NEW g, NEW h, NEW A, NEW B,
         SumTable(g, f, A), SumTable(h, f, B), S \subseteq A, S \subseteq B
  PROVE  g[S] = h[S]
<1> DEFINE G == {T \in SUBSET S : g[T] = h[T]}
<1>1. ASSUME NEW T \in SUBSET S, \A U \in SUBSET T : U # T => U \in G
      PROVE  T \in G
  <2>1. CASE T = {}
    BY <2>1 DEF SumTable
  <2>2. CASE T # {}
    <3>1. First(T) \in T
      BY <2>2, FirstIn
    <3>2. T \ {First(T)} \in G
      BY <1>1, <3>1
    <3>3. g[T] = f[First(T)] + g[T \ {First(T)}]
      BY <2>2 DEF SumTable
    <3>4. h[T] = f[First(T)] + h[T \ {First(T)}]
      BY <2>2 DEF SumTable
    <3>5. QED
      BY <3>2, <3>3, <3>4
  <2>3. QED
    BY <2>1, <2>2
<1>2. \A T \in SUBSET S : T \in G
  <2> HIDE DEF G
  <2>1. QED
    BY <1>1, SubsetInduction
<1>3. QED
  BY <1>2

LEMMA SumsExist ==
  ASSUME NEW S, IsFiniteSet(S), NEW f
  PROVE  \E g : SumTable(g, f, S)
<1> DEFINE G == {T \in SUBSET S : \E g : SumTable(g, f, T)}
<1>1. ASSUME NEW T \in SUBSET S, \A U \in SUBSET T : U # T => U \in G
      PROVE  T \in G
  <2> DEFINE V(U) == (CHOOSE g : SumTable(g, f, U))[U]
             h == [U \in SUBSET T |->
                     IF U = {} THEN 0 ELSE f[First(U)] + V(U \ {First(U)})]
  <2>1. ASSUME NEW U \in SUBSET T, U # T
        PROVE  h[U] = V(U)
    <3>1. PICK g : SumTable(g, f, U) /\ g[U] = V(U)
      BY <1>1, <2>1
    <3>2. CASE U = {}
      BY <3>1, <3>2 DEF SumTable
    <3>3. CASE U # {}
      <4> DEFINE W == U \ {First(U)}
      <4>1. First(U) \in U
        BY <3>3, FirstIn
      <4>2. W \in SUBSET T /\ W # T /\ W \subseteq U /\ IsFiniteSet(W)
        BY <4>1, FS_Subset
      <4>3. PICK k : SumTable(k, f, W) /\ k[W] = V(W)
        BY <1>1, <4>2
      <4>4. g[W] = k[W]
        <5> HIDE DEF W, V
        <5>1. QED
          BY <3>1, <4>2, <4>3, SumsAgree
      <4>5. g[U] = f[First(U)] + g[W]
        BY <3>1, <3>3 DEF SumTable
      <4>6. h[U] = f[First(U)] + V(W)
        BY <3>3
      <4>7. QED
        BY <3>1, <4>3, <4>4, <4>5, <4>6
    <3>4. QED
      BY <3>2, <3>3
  <2>2. ASSUME NEW U \in SUBSET T, U # {}
        PROVE  h[U \ {First(U)}] = V(U \ {First(U)})
    BY <2>1, <2>2, FirstIn
  <2>3. SumTable(h, f, T)
    <3>1. h = [U \in SUBSET T |->
                 IF U = {} THEN 0 ELSE f[First(U)] + h[U \ {First(U)}]]
      <4> HIDE DEF V
      <4>1. QED
        BY <2>2
    <3>2. QED
      BY <3>1 DEF SumTable
  <2>4. QED
    BY <2>3
<1>2. \A T \in SUBSET S : T \in G
  <2> HIDE DEF G
  <2>1. QED
    BY <1>1, SubsetInduction
<1>3. QED
  BY <1>2

LEMMA SumInTable ==
  ASSUME NEW S, IsFiniteSet(S), NEW f
  PROVE  \E g : SumTable(g, f, S) /\ SumFunctionOnSet(f, S) = g[S]
<1> DEFINE g == CHOOSE g : SumTable(g, f, S)
<1>1. SumTable(g, f, S)
  BY SumsExist
<1>2. SumFunctionOnSet(f, S) = g[S]
  BY DEF SumFunctionOnSet, FoldFunctionOnSet, MapThenFoldSet, SumTable, First
<1>3. QED
  BY <1>1, <1>2

-----------------------------------------------------------------------------
(***************************************************************************)
(* What a sum is.                                                          *)
(***************************************************************************)
LEMMA SumEmpty ==
  ASSUME NEW f PROVE SumFunctionOnSet(f, {}) = 0
<1>1. IsFiniteSet({})
  BY FS_EmptySet
<1>2. PICK g : SumTable(g, f, {}) /\ SumFunctionOnSet(f, {}) = g[{}]
  BY <1>1, SumInTable
<1>3. QED
  BY <1>2 DEF SumTable

LEMMA SumStep ==
  ASSUME NEW S, IsFiniteSet(S), NEW f, S # {}
  PROVE  SumFunctionOnSet(f, S) = f[First(S)] + SumFunctionOnSet(f, S \ {First(S)})
<1> DEFINE T == S \ {First(S)}
<1>1. PICK g : SumTable(g, f, S) /\ SumFunctionOnSet(f, S) = g[S]
  BY SumInTable
<1>2. IsFiniteSet(T)
  BY FS_Subset
<1>3. PICK h : SumTable(h, f, T) /\ SumFunctionOnSet(f, T) = h[T]
  BY <1>2, SumInTable
<1>4. g[T] = h[T]
  <2> HIDE DEF T
  <2>1. T \subseteq S
    BY DEF T
  <2>2. QED
    BY <1>1, <1>2, <1>3, <2>1, SumsAgree
<1>5. g[S] = f[First(S)] + g[T]
  BY <1>1 DEF SumTable
<1>6. QED
  BY <1>1, <1>3, <1>4, <1>5

LEMMA SumInt ==
  ASSUME NEW S, IsFiniteSet(S), NEW f, \A x \in S : f[x] \in Int
  PROVE  SumFunctionOnSet(f, S) \in Int
<1> DEFINE G == {T \in SUBSET S : SumFunctionOnSet(f, T) \in Int}
<1>1. ASSUME NEW T \in SUBSET S, \A U \in SUBSET T : U # T => U \in G
      PROVE  T \in G
  <2>1. CASE T = {}
    BY <2>1, SumEmpty
  <2>2. CASE T # {}
    <3>1. First(T) \in T
      BY <2>2, FirstIn
    <3>2. T \ {First(T)} \in G
      BY <1>1, <3>1
    <3>3. IsFiniteSet(T)
      BY FS_Subset
    <3>4. SumFunctionOnSet(f, T) = f[First(T)] + SumFunctionOnSet(f, T \ {First(T)})
      BY <2>2, <3>3, SumStep
    <3>5. f[First(T)] \in Int /\ SumFunctionOnSet(f, T \ {First(T)}) \in Int
      BY <3>1, <3>2
    <3>6. QED
      BY <3>4, <3>5
  <2>3. QED
    BY <2>1, <2>2
<1>2. \A T \in SUBSET S : T \in G
  <2> HIDE DEF G
  <2>1. QED
    BY <1>1, SubsetInduction
<1>3. QED
  BY <1>2

\* Any summand may be taken out first.
LEMMA SumRemove ==
  ASSUME NEW S, IsFiniteSet(S), NEW f, \A x \in S : f[x] \in Int, NEW e \in S
  PROVE  SumFunctionOnSet(f, S) = f[e] + SumFunctionOnSet(f, S \ {e})
<1> DEFINE G == {T \in SUBSET S : \A x \in T :
                   SumFunctionOnSet(f, T) = f[x] + SumFunctionOnSet(f, T \ {x})}
<1>1. ASSUME NEW T \in SUBSET S, \A U \in SUBSET T : U # T => U \in G
      PROVE  T \in G
  <2>1. SUFFICES ASSUME NEW x \in T
                 PROVE  SumFunctionOnSet(f, T) = f[x] + SumFunctionOnSet(f, T \ {x})
    OBVIOUS
  <2> DEFINE y == First(T)
             A == T \ {y}
             B == T \ {x}
             C == T \ {x, y}
  <2>2. y \in T
    BY FirstIn
  <2>3. IsFiniteSet(T) /\ IsFiniteSet(B) /\ IsFiniteSet(C)
    BY FS_Subset
  <2>4. SumFunctionOnSet(f, T) = f[y] + SumFunctionOnSet(f, A)
    BY <2>3, SumStep
  <2>5. CASE x = y
    BY <2>4, <2>5
  <2>6. CASE x # y
    <3>1. A \in G /\ B \in G
      BY <1>1, <2>1, <2>2
    <3>2. x \in A /\ y \in B /\ A \ {x} = C /\ B \ {y} = C
      BY <2>1, <2>2, <2>6
    <3>3. SumFunctionOnSet(f, A) = f[x] + SumFunctionOnSet(f, C)
      BY <3>1, <3>2
    <3>4. SumFunctionOnSet(f, B) = f[y] + SumFunctionOnSet(f, C)
      BY <3>1, <3>2
    <3>5. SumFunctionOnSet(f, C) \in Int /\ f[x] \in Int /\ f[y] \in Int
      BY <2>1, <2>2, <2>3, SumInt
    <3>6. QED
      BY <2>4, <3>3, <3>4, <3>5
  <2>7. QED
    BY <2>5, <2>6
<1>2. \A T \in SUBSET S : T \in G
  <2> HIDE DEF G
  <2>1. QED
    BY <1>1, SubsetInduction
<1>3. S \in G
  BY <1>2
<1>4. QED
  BY <1>3

\* A sum depends on its summands only.
LEMMA SumSame ==
  ASSUME NEW S, IsFiniteSet(S), NEW f, NEW g, \A x \in S : f[x] = g[x]
  PROVE  SumFunctionOnSet(f, S) = SumFunctionOnSet(g, S)
<1> DEFINE G == {T \in SUBSET S : SumFunctionOnSet(f, T) = SumFunctionOnSet(g, T)}
<1>1. ASSUME NEW T \in SUBSET S, \A U \in SUBSET T : U # T => U \in G
      PROVE  T \in G
  <2>1. CASE T = {}
    BY <2>1, SumEmpty
  <2>2. CASE T # {}
    <3>1. First(T) \in T
      BY <2>2, FirstIn
    <3>2. T \ {First(T)} \in G
      BY <1>1, <3>1
    <3>3. IsFiniteSet(T)
      BY FS_Subset
    <3>4. QED
      BY <2>2, <3>1, <3>2, <3>3, SumStep
  <2>3. QED
    BY <2>1, <2>2
<1>2. \A T \in SUBSET S : T \in G
  <2> HIDE DEF G
  <2>1. QED
    BY <1>1, SubsetInduction
<1>3. QED
  BY <1>2

-----------------------------------------------------------------------------
(***************************************************************************)
(* What steps do to a sum.                                                 *)
(***************************************************************************)
LEMMA SumAdd ==
  ASSUME NEW S, IsFiniteSet(S), NEW e, e \notin S,
         NEW f, \A x \in S \cup {e} : f[x] \in Int
  PROVE  SumFunctionOnSet(f, S \cup {e}) = f[e] + SumFunctionOnSet(f, S)
<1>1. IsFiniteSet(S \cup {e})
  BY FS_AddElement
<1>2. (S \cup {e}) \ {e} = S
  OBVIOUS
<1>3. QED
  <2> DEFINE T == S \cup {e}
  <2>1. IsFiniteSet(T) /\ e \in T /\ (\A x \in T : f[x] \in Int) /\ T \ {e} = S
    BY <1>1, <1>2
  <2> HIDE DEF T
  <2>2. SumFunctionOnSet(f, T) = f[e] + SumFunctionOnSet(f, T \ {e})
    BY <2>1, SumRemove
  <2>3. QED
    BY <2>1, <2>2 DEF T

\* One summand changes.
LEMMA SumUpdate ==
  ASSUME NEW S, IsFiniteSet(S), NEW e \in S, NEW f, NEW g,
         \A x \in S : f[x] \in Int /\ g[x] \in Int,
         \A x \in S : x # e => g[x] = f[x]
  PROVE  SumFunctionOnSet(g, S) = SumFunctionOnSet(f, S) + g[e] - f[e]
<1>1. SumFunctionOnSet(f, S) = f[e] + SumFunctionOnSet(f, S \ {e})
  BY SumRemove
<1>2. SumFunctionOnSet(g, S) = g[e] + SumFunctionOnSet(g, S \ {e})
  BY SumRemove
<1>3. IsFiniteSet(S \ {e})
  BY FS_Subset
<1>4. SumFunctionOnSet(f, S \ {e}) = SumFunctionOnSet(g, S \ {e})
  BY <1>3, SumSame
<1>5. SumFunctionOnSet(f, S \ {e}) \in Int
  BY <1>3, SumInt
<1>6. QED
  BY <1>1, <1>2, <1>4, <1>5

\* A sum of natural numbers is one, and no less than any part of it.
LEMMA SumNat ==
  ASSUME NEW S, IsFiniteSet(S), NEW f, \A x \in S : f[x] \in Nat
  PROVE  SumFunctionOnSet(f, S) \in Nat
<1> DEFINE G == {T \in SUBSET S : SumFunctionOnSet(f, T) \in Nat}
<1>1. ASSUME NEW T \in SUBSET S, \A U \in SUBSET T : U # T => U \in G
      PROVE  T \in G
  <2>1. CASE T = {}
    BY <2>1, SumEmpty
  <2>2. CASE T # {}
    <3>1. First(T) \in T
      BY <2>2, FirstIn
    <3>2. T \ {First(T)} \in G
      BY <1>1, <3>1
    <3>3. IsFiniteSet(T)
      BY FS_Subset
    <3>4. QED
      BY <2>2, <3>1, <3>2, <3>3, SumStep
  <2>3. QED
    BY <2>1, <2>2
<1>2. \A T \in SUBSET S : T \in G
  <2> HIDE DEF G
  <2>1. QED
    BY <1>1, SubsetInduction
<1>3. QED
  BY <1>2

LEMMA SumPart ==
  ASSUME NEW S, IsFiniteSet(S), NEW f, \A x \in S : f[x] \in Nat, NEW P \in SUBSET S
  PROVE  SumFunctionOnSet(f, P) <= SumFunctionOnSet(f, S)
<1> DEFINE G == {T \in SUBSET S : \A Q \in SUBSET T :
                   SumFunctionOnSet(f, Q) <= SumFunctionOnSet(f, T)}
<1>1. ASSUME NEW T \in SUBSET S, \A U \in SUBSET T : U # T => U \in G
      PROVE  T \in G
  <2>1. SUFFICES ASSUME NEW Q \in SUBSET T
                 PROVE  SumFunctionOnSet(f, Q) <= SumFunctionOnSet(f, T)
    OBVIOUS
  <2>2. IsFiniteSet(T) /\ IsFiniteSet(Q)
    BY FS_Subset
  <2>3. SumFunctionOnSet(f, T) \in Nat /\ SumFunctionOnSet(f, Q) \in Nat
    BY <2>2, SumNat
  <2>4. CASE Q = T
    BY <2>3, <2>4
  <2>5. CASE Q # T
    <3>1. PICK e \in T : e \notin Q
      BY <2>5
    <3>2. T \ {e} \in G /\ Q \in SUBSET (T \ {e})
      BY <1>1, <3>1
    <3>3. SumFunctionOnSet(f, Q) <= SumFunctionOnSet(f, T \ {e})
      BY <3>2
    <3>4. SumFunctionOnSet(f, T) = f[e] + SumFunctionOnSet(f, T \ {e})
      BY <2>2, SumRemove
    <3>5. SumFunctionOnSet(f, T \ {e}) \in Nat /\ f[e] \in Nat
      BY <2>2, FS_Subset, SumNat
    <3>6. QED
      BY <2>3, <3>3, <3>4, <3>5
  <2>6. QED
    BY <2>4, <2>5
<1>2. \A T \in SUBSET S : T \in G
  <2> HIDE DEF G
  <2>1. QED
    BY <1>1, SubsetInduction
<1>3. S \in G
  BY <1>2
<1>4. QED
  BY <1>3

LEMMA SumOne ==
  ASSUME NEW f, NEW e, f[e] \in Int
  PROVE  SumFunctionOnSet(f, {e}) = f[e]
<1>1. IsFiniteSet({e}) /\ {e} \ {e} = {}
  BY FS_Singleton
<1>2. SumFunctionOnSet(f, {e}) = f[e] + SumFunctionOnSet(f, {e} \ {e})
  BY <1>1, SumRemove
<1>3. QED
  BY <1>1, <1>2, SumEmpty

LEMMA SumZero ==
  ASSUME NEW S, IsFiniteSet(S), NEW f, \A x \in S : f[x] = 0
  PROVE  SumFunctionOnSet(f, S) = 0
<1> DEFINE G == {T \in SUBSET S : SumFunctionOnSet(f, T) = 0}
<1>1. ASSUME NEW T \in SUBSET S, \A U \in SUBSET T : U # T => U \in G
      PROVE  T \in G
  <2>1. CASE T = {}
    BY <2>1, SumEmpty
  <2>2. CASE T # {}
    <3>1. First(T) \in T
      BY <2>2, FirstIn
    <3>2. T \ {First(T)} \in G
      BY <1>1, <3>1
    <3>3. IsFiniteSet(T)
      BY FS_Subset
    <3>4. QED
      BY <2>2, <3>1, <3>2, <3>3, SumStep
  <2>3. QED
    BY <2>1, <2>2
<1>2. \A T \in SUBSET S : T \in G
  <2> HIDE DEF G
  <2>1. QED
    BY <1>1, SubsetInduction
<1>3. QED
  BY <1>2

LEMMA SumUnion ==
  ASSUME NEW P, IsFiniteSet(P), NEW S, IsFiniteSet(S), P \cap S = {},
         NEW f, \A x \in P \cup S : f[x] \in Int
  PROVE  SumFunctionOnSet(f, P \cup S) = SumFunctionOnSet(f, P) + SumFunctionOnSet(f, S)
<1> DEFINE G == {T \in SUBSET S : SumFunctionOnSet(f, P \cup T)
                                   = SumFunctionOnSet(f, P) + SumFunctionOnSet(f, T)}
<1>1. ASSUME NEW T \in SUBSET S, \A U \in SUBSET T : U # T => U \in G
      PROVE  T \in G
  <2>1. CASE T = {}
    <3>1. P \cup T = P /\ SumFunctionOnSet(f, P) \in Int
      BY <2>1, SumInt
    <3>2. QED
      BY <2>1, <3>1, SumEmpty
  <2>2. CASE T # {}
    <3> DEFINE e == First(T)
               U == T \ {e}
    <3>1. e \in T /\ e \notin P
      BY <2>2, FirstIn
    <3>2. IsFiniteSet(T) /\ IsFiniteSet(U) /\ IsFiniteSet(P \cup U)
      BY FS_Subset, FS_Union
    <3>3. SumFunctionOnSet(f, P \cup U) = SumFunctionOnSet(f, P) + SumFunctionOnSet(f, U)
      BY <1>1, <3>1
    <3>4. SumFunctionOnSet(f, T) = f[e] + SumFunctionOnSet(f, U)
      BY <2>2, <3>2, SumStep
    <3>5. SumFunctionOnSet(f, (P \cup U) \cup {e}) = f[e] + SumFunctionOnSet(f, P \cup U)
      <4> DEFINE V == P \cup U
      <4>1. e \notin V /\ (\A x \in V \cup {e} : f[x] \in Int) /\ IsFiniteSet(V)
        BY <3>1, <3>2
      <4> HIDE DEF V, e
      <4>2. QED
        BY <4>1, SumAdd DEF V
    <3>6. (P \cup U) \cup {e} = P \cup T
      BY <3>1
    <3>7. SumFunctionOnSet(f, P) \in Int /\ SumFunctionOnSet(f, U) \in Int /\ f[e] \in Int
      <4>1. \A x \in U : f[x] \in Int
        OBVIOUS
      <4>2. \A x \in P : f[x] \in Int
        OBVIOUS
      <4>3. SumFunctionOnSet(f, U) \in Int
        <5> HIDE DEF U
        <5>1. QED
          BY <4>1, <3>2, SumInt
      <4>4. QED
        BY <3>1, <4>2, <4>3, SumInt
    <3> HIDE DEF U, e
    <3>8. SumFunctionOnSet(f, P \cup T) = f[e] + SumFunctionOnSet(f, P \cup U)
      BY <3>5, <3>6, Zenon
    <3>9. SumFunctionOnSet(f, P \cup T) = SumFunctionOnSet(f, P) + SumFunctionOnSet(f, T)
      BY <3>3, <3>4, <3>7, <3>8
    <3>10. QED
      BY <3>9
  <2>3. QED
    BY <2>1, <2>2
<1>2. \A T \in SUBSET S : T \in G
  <2> HIDE DEF G
  <2>1. QED
    BY <1>1, SubsetInduction
<1>3. S \in G
  BY <1>2
<1>4. QED
  BY <1>3

\* One index joins or leaves the set, or its summand changes.
LEMMA SumChange ==
  ASSUME NEW S, IsFiniteSet(S), NEW P \in SUBSET S, NEW Q \in SUBSET S, NEW e \in S,
         NEW f, NEW g, \A x \in P : f[x] \in Int, \A x \in Q : g[x] \in Int,
         \A x \in S : x # e => (x \in P <=> x \in Q) /\ (x \in P => g[x] = f[x])
  PROVE  SumFunctionOnSet(g, Q) = SumFunctionOnSet(f, P)
           + (IF e \in Q THEN g[e] ELSE 0) - (IF e \in P THEN f[e] ELSE 0)
<1> DEFINE R == P \ {e}
<1>1. IsFiniteSet(P) /\ IsFiniteSet(Q) /\ IsFiniteSet(R)
  BY FS_Subset
<1>2. R = Q \ {e} /\ \A x \in R : f[x] = g[x] /\ f[x] \in Int
  OBVIOUS
<1>3. SumFunctionOnSet(f, R) = SumFunctionOnSet(g, R) /\ SumFunctionOnSet(f, R) \in Int
  <2> HIDE DEF R
  <2>1. QED
    BY <1>1, <1>2, SumSame, SumInt
<1>4. SumFunctionOnSet(f, P) = SumFunctionOnSet(f, R) + IF e \in P THEN f[e] ELSE 0
  <2>1. CASE e \in P
    <3>1. SumFunctionOnSet(f, P) = f[e] + SumFunctionOnSet(f, R)
      BY <1>1, <2>1, SumRemove
    <3>2. QED
      BY <1>3, <2>1, <3>1
  <2>2. CASE e \notin P
    <3>1. R = P
      BY <2>2
    <3>2. SumFunctionOnSet(f, P) = SumFunctionOnSet(f, R)
      BY <3>1, Zenon
    <3>3. QED
      <4> HIDE DEF R
      <4>1. QED
        BY <1>3, <2>2, <3>2
  <2>3. QED
    BY <2>1, <2>2
<1>5. SumFunctionOnSet(g, Q) = SumFunctionOnSet(g, R) + IF e \in Q THEN g[e] ELSE 0
  <2>1. CASE e \in Q
    <3>1. SumFunctionOnSet(g, Q) = g[e] + SumFunctionOnSet(g, R)
      BY <1>1, <1>2, <2>1, SumRemove
    <3>2. QED
      BY <1>3, <2>1, <3>1
  <2>2. CASE e \notin Q
    <3>1. R = Q
      BY <1>2, <2>2
    <3>2. SumFunctionOnSet(g, Q) = SumFunctionOnSet(g, R)
      BY <3>1, Zenon
    <3>3. QED
      <4> HIDE DEF R
      <4>1. QED
        BY <1>3, <2>2, <3>2
  <2>3. QED
    BY <2>1, <2>2
<1>6. (e \in P => f[e] \in Int) /\ (e \in Q => g[e] \in Int)
  OBVIOUS
<1> HIDE DEF R
<1>7. QED
  BY <1>3, <1>4, <1>5, <1>6

\* Indices whose summand is nothing may be left out.
LEMMA SumSupport ==
  ASSUME NEW S, IsFiniteSet(S), NEW f, \A x \in S : f[x] \in Int,
         NEW P \in SUBSET S, \A x \in S \ P : f[x] = 0
  PROVE  SumFunctionOnSet(f, P) = SumFunctionOnSet(f, S)
<1> DEFINE R == S \ P
<1>1. IsFiniteSet(P) /\ IsFiniteSet(R)
  BY FS_Subset
<1>2. SumFunctionOnSet(f, R) = 0 /\ SumFunctionOnSet(f, P) \in Int
  BY <1>1, SumZero, SumInt
<1>3. P \cap R = {} /\ P \cup R = S /\ \A x \in P \cup R : f[x] \in Int
  OBVIOUS
<1>4. SumFunctionOnSet(f, P \cup R) = SumFunctionOnSet(f, P) + SumFunctionOnSet(f, R)
  <2> HIDE DEF R
  <2>1. QED
    BY <1>1, <1>3, SumUnion
<1>5. SumFunctionOnSet(f, P \cup R) = SumFunctionOnSet(f, S)
  BY <1>3, Zenon
<1> HIDE DEF R
<1>6. QED
  BY <1>2, <1>4, <1>5

\* The sum of the sums of two functions.
LEMMA SumPlus ==
  ASSUME NEW S, IsFiniteSet(S), NEW f, NEW g, NEW h,
         \A x \in S : f[x] \in Int /\ g[x] \in Int /\ h[x] = f[x] + g[x]
  PROVE  SumFunctionOnSet(h, S) = SumFunctionOnSet(f, S) + SumFunctionOnSet(g, S)
<1> DEFINE G == {T \in SUBSET S : SumFunctionOnSet(h, T)
                                   = SumFunctionOnSet(f, T) + SumFunctionOnSet(g, T)}
<1>1. ASSUME NEW T \in SUBSET S, \A U \in SUBSET T : U # T => U \in G
      PROVE  T \in G
  <2>1. CASE T = {}
    <3>1. SumFunctionOnSet(h, {}) = 0 /\ SumFunctionOnSet(f, {}) = 0
          /\ SumFunctionOnSet(g, {}) = 0
      BY SumEmpty
    <3>2. QED
      BY <2>1, <3>1
  <2>2. ASSUME T # {} PROVE T \in G
    <3>1. PICK e \in T : TRUE
      BY <2>2
    <3> DEFINE U == T \ {e}
    <3>2. U \in G /\ IsFiniteSet(T) /\ IsFiniteSet(U)
      BY <1>1, <3>1, FS_Subset
    <3>3. /\ SumFunctionOnSet(h, T) = h[e] + SumFunctionOnSet(h, U)
          /\ SumFunctionOnSet(f, T) = f[e] + SumFunctionOnSet(f, U)
          /\ SumFunctionOnSet(g, T) = g[e] + SumFunctionOnSet(g, U)
      <4>1. \A x \in T : f[x] \in Int /\ g[x] \in Int /\ h[x] \in Int
        OBVIOUS
      <4>2. QED
        BY <3>2, <4>1, SumRemove
    <3>4. SumFunctionOnSet(f, U) \in Int /\ SumFunctionOnSet(g, U) \in Int
      <4>1. \A x \in U : f[x] \in Int /\ g[x] \in Int
        OBVIOUS
      <4>2. QED
        BY <3>2, <4>1, SumInt
    <3>5. /\ SumFunctionOnSet(h, U) = SumFunctionOnSet(f, U) + SumFunctionOnSet(g, U)
          /\ f[e] \in Int /\ g[e] \in Int /\ h[e] = f[e] + g[e]
      BY <3>1, <3>2
    <3> HIDE DEF U
    <3>6. QED
      BY <3>3, <3>4, <3>5
  <2>3. QED
    BY <2>1, <2>2
<1> HIDE DEF G
<1>2. \A T \in SUBSET S : T \in G
  BY <1>1, SubsetInduction
<1>3. QED
  BY <1>2 DEF G

\* A sum may be taken in another order, and under other names.
LEMMA SumReindex ==
  ASSUME NEW S, IsFiniteSet(S), NEW f, NEW g, NEW h,
         \A x \in S : f[x] = g[h[x]] /\ f[x] \in Int,
         \A x, y \in S : x # y => h[x] # h[y]
  PROVE  SumFunctionOnSet(f, S) = SumFunctionOnSet(g, {h[x] : x \in S})
<1> DEFINE Img(T) == {h[x] : x \in T}
           G == {T \in SUBSET S : /\ IsFiniteSet(Img(T))
                                  /\ SumFunctionOnSet(f, T) = SumFunctionOnSet(g, Img(T))}
<1>1. ASSUME NEW T \in SUBSET S, \A U \in SUBSET T : U # T => U \in G
      PROVE  T \in G
  <2>1. CASE T = {}
    <3>1. Img(T) = {}
      BY <2>1
    <3>2. SumFunctionOnSet(f, T) = 0 /\ SumFunctionOnSet(g, Img(T)) = 0
      BY <2>1, <3>1, SumEmpty
    <3>3. IsFiniteSet(Img(T))
      BY <3>1, FS_EmptySet
    <3> HIDE DEF Img
    <3>4. QED
      BY <3>2, <3>3
  <2>2. CASE T # {}
    <3>1. PICK e \in T : TRUE
      BY <2>2
    <3> DEFINE U == T \ {e}
    <3>2. U \in G /\ IsFiniteSet(T) /\ IsFiniteSet(U)
      BY <1>1, <3>1, FS_Subset
    <3>3. SumFunctionOnSet(f, T) = f[e] + SumFunctionOnSet(f, U)
      BY <3>1, <3>2, SumRemove
    <3>4. Img(T) = Img(U) \cup {h[e]} /\ h[e] \notin Img(U)
      BY <3>1
    <3>5. \A z \in Img(U) \cup {h[e]} : g[z] \in Int
      BY <3>1
    <3>6. IsFiniteSet(Img(U)) /\ SumFunctionOnSet(f, U) = SumFunctionOnSet(g, Img(U))
      BY <3>2
    <3>7. f[e] = g[h[e]]
      BY <3>1
    <3> HIDE DEF Img, U
    <3>8. SumFunctionOnSet(g, Img(U) \cup {h[e]}) = g[h[e]] + SumFunctionOnSet(g, Img(U))
      BY <3>4, <3>5, <3>6, SumAdd
    <3>9. IsFiniteSet(Img(T))
      BY <3>4, <3>6, FS_AddElement
    <3>10. SumFunctionOnSet(f, T) = SumFunctionOnSet(g, Img(T))
      BY <3>3, <3>4, <3>6, <3>7, <3>8
    <3>11. QED
      BY <3>9, <3>10
  <2>3. QED
    BY <2>1, <2>2
<1>2. \A T \in SUBSET S : T \in G
  <2> HIDE DEF G
  <2>1. QED
    BY <1>1, SubsetInduction
<1>3. S \in G
  BY <1>2
<1>4. QED
  BY <1>3

\* A set of integers that is finite and not empty has a greatest element.
LEMMA GreatestExists ==
  ASSUME NEW S, IsFiniteSet(S), S \subseteq Int, S # {}
  PROVE  \E x \in S : \A y \in S : x >= y
<1> DEFINE G == {T \in SUBSET S : T = {} \/ \E x \in T : \A y \in T : x >= y}
<1>1. ASSUME NEW T \in SUBSET S, \A U \in SUBSET T : U # T => U \in G
      PROVE  T \in G
  <2>1. CASE T = {}
    BY <2>1
  <2>2. CASE T # {}
    <3>1. PICK e \in T : TRUE
      BY <2>2
    <3>2. T \ {e} \in G
      BY <1>1, <3>1
    <3>3. CASE T \ {e} = {}
      BY <3>1, <3>3
    <3>4. CASE T \ {e} # {}
      <4>1. PICK x \in T \ {e} : \A y \in T \ {e} : x >= y
        BY <3>2, <3>4
      <4>2. CASE x >= e
        BY <4>1, <4>2
      <4>3. CASE ~(x >= e)
        <5>1. \A y \in T : e >= y
          BY <4>1, <4>3
        <5>2. QED
          BY <3>1, <5>1
      <4>4. QED
        BY <4>2, <4>3
    <3>5. QED
      BY <3>3, <3>4
  <2>3. QED
    BY <2>1, <2>2
<1>2. \A T \in SUBSET S : T \in G
  <2> HIDE DEF G
  <2>1. QED
    BY <1>1, SubsetInduction
<1>3. QED
  BY <1>2
=============================================================================
