-------------------------------- MODULE Sums --------------------------------
(***************************************************************************)
(* Sums over finite sets, as the modules write them (MapThenSumSet), with  *)
(* the facts that proofs about them need.  Induction over a finite set is  *)
(* by a minimal counterexample: strict inclusion is well founded on its    *)
(* subsets.                                                                *)
(***************************************************************************)
EXTENDS Integers, FiniteSets, FiniteSetsExt, FiniteSetTheorems, TLAPS

\* The sum of f[x] over the elements x of S.
Sum(f, S) == MapThenSumSet(LAMBDA x : f[x], S)

\* The element with which the fold starts, and the recursion it unfolds.
First(s) == CHOOSE x \in s : TRUE
Unfolded(g, f, S) ==
  g = [s \in SUBSET S |-> IF s = {} THEN 0 ELSE f[First(s)] + g[s \ {First(s)}]]

\* What holds of a subset when it holds of all that are smaller holds of all.
LEMMA SetInduction ==
  ASSUME NEW S, IsFiniteSet(S), NEW G,
         \A T \in SUBSET S : (\A U \in SUBSET T : U # T => U \in G) => T \in G
  PROVE  \A T \in SUBSET S : T \in G
<1> DEFINE R == StrictSubsetOrdering(S)
           D == FiniteSubsetsOf(S)
           B == D \ G
<1>1. D = SUBSET S
  BY FS_FiniteSubsetsOfFinite
<1>2. IsWellFoundedOn(R, D)
  BY FS_StrictSubsetOrderingWellFounded
<1>3. R = {ss \in D \X D : ss[1] \subseteq ss[2] /\ ss[1] # ss[2]}
  BY <1>1 DEF StrictSubsetOrdering
<1>4. B \subseteq D
  OBVIOUS
<1> HIDE DEF R, D, B
<1>5. ASSUME B # {}
      PROVE  FALSE
  <2>1. \E T \in B : \A U \in B : ~ (<<U, T>> \in R)
    BY <1>2, <1>4, <1>5, WFMin
  <2>2. PICK T \in B : \A U \in B : ~ (<<U, T>> \in R)
    BY <2>1
  <2>3. ASSUME NEW U \in SUBSET T, U # T PROVE U \in G
    BY <2>2, <2>3, <1>1, <1>3 DEF B
  <2> QED
    BY <2>2, <2>3, <1>1 DEF B
<1> QED
  BY <1>1, <1>5 DEF B

LEMMA FirstIsIn == \A s : s # {} => First(s) \in s
BY DEF First

\* Two unfoldings agree on the finite sets that both know.
LEMMA UnfoldedAgree ==
  ASSUME NEW S, NEW T, NEW f, NEW g, NEW h, Unfolded(g, f, S), Unfolded(h, f, T),
         NEW U, U \subseteq S, U \subseteq T, IsFiniteSet(U)
  PROVE  g[U] = h[U]
<1> DEFINE G == {V \in SUBSET U : g[V] = h[V]}
<1>1. ASSUME NEW V \in SUBSET U, \A W \in SUBSET V : W # V => W \in G
      PROVE  V \in G
  <2>1. V \in SUBSET S /\ V \in SUBSET T
    OBVIOUS
  <2>2. CASE V = {}
    BY <2>1, <2>2 DEF Unfolded
  <2>3. CASE V # {}
    <3> DEFINE W == V \ {First(V)}
    <3>1. W \in SUBSET V /\ W # V
      BY <2>3, FirstIsIn
    <3>2. g[W] = h[W]
      BY <3>1, <1>1
    <3>3. g[V] = f[First(V)] + g[W] /\ h[V] = f[First(V)] + h[W]
      BY <2>1, <2>3 DEF Unfolded
    <3> QED
      BY <3>2, <3>3
  <2> QED
    BY <2>2, <2>3
<1>2. \A V \in SUBSET U : V \in G
  <2> HIDE DEF G
  <2> QED
    BY <1>1, SetInduction
<1> QED
  BY <1>2

LEMMA UnfoldedExists ==
  ASSUME NEW S, IsFiniteSet(S), NEW f
  PROVE  \E g : Unfolded(g, f, S)
<1> DEFINE G == {T \in SUBSET S : \E g : Unfolded(g, f, T)}
           Best(U) == CHOOSE g : Unfolded(g, f, U)
<1>1. ASSUME NEW T \in SUBSET S, \A U \in SUBSET T : U # T => U \in G
      PROVE  T \in G
  <2> DEFINE h == [s \in SUBSET T |->
                     IF s = {} THEN 0
                     ELSE f[First(s)] + Best(s \ {First(s)})[s \ {First(s)}]]
  <2>1. ASSUME NEW U \in SUBSET T, U # T
        PROVE  Unfolded(Best(U), f, U)
    BY <2>1, <1>1
  <2>2. \A U \in SUBSET T : IsFiniteSet(U)
    BY FS_Subset
  <2> HIDE DEF Best
  <2>3. ASSUME NEW U \in SUBSET T, U # T
        PROVE  h[U] = Best(U)[U]
    <3>1. CASE U = {}
      BY <3>1, <2>1, <2>3 DEF Unfolded
    <3>2. CASE U # {}
      <4> DEFINE W == U \ {First(U)}
      <4>1. W \in SUBSET T /\ W \subseteq U /\ W # T
        BY <2>3
      <4>2. Unfolded(Best(U), f, U) /\ Unfolded(Best(W), f, W) /\ IsFiniteSet(W)
        BY <4>1, <2>1, <2>2, <2>3
      <4>3. Best(U)[W] = Best(W)[W]
        <5> HIDE DEF W
        <5> QED
          BY <4>1, <4>2, UnfoldedAgree
      <4>4. Best(U)[U] = f[First(U)] + Best(U)[W]
        BY <3>2, <4>2, U \in SUBSET U DEF Unfolded
      <4> QED
        BY <3>2, <4>3, <4>4
    <3> QED
      BY <3>1, <3>2
  <2>4. ASSUME NEW s \in SUBSET T, s # {}
        PROVE  h[s] = f[First(s)] + h[s \ {First(s)}]
    <3>1. s \ {First(s)} \in SUBSET T /\ s \ {First(s)} # T
      BY <2>4, FirstIsIn
    <3>2. h[s \ {First(s)}] = Best(s \ {First(s)})[s \ {First(s)}]
      BY <3>1, <2>3
    <3> QED
      BY <2>4, <3>2
  <2>5. h[{}] = 0
    OBVIOUS
  <2>6. h = [s \in SUBSET T |-> h[s]]
    OBVIOUS
  <2> HIDE DEF h
  <2>7. h = [s \in SUBSET T |-> IF s = {} THEN 0 ELSE f[First(s)] + h[s \ {First(s)}]]
    <3>1. \A s \in SUBSET T : h[s] = IF s = {} THEN 0 ELSE f[First(s)] + h[s \ {First(s)}]
      BY <2>4, <2>5
    <3> QED
      BY <3>1, <2>6
  <2> QED
    BY <2>7 DEF Unfolded
<1>2. \A T \in SUBSET S : T \in G
  <2> HIDE DEF G
  <2> QED
    BY <1>1, SetInduction
<1> QED
  BY <1>2

LEMMA SumIsChosen ==
  ASSUME NEW f, NEW S
  PROVE  Sum(f, S) = (CHOOSE g : Unfolded(g, f, S))[S]
BY DEF Sum, MapThenSumSet, MapThenFoldSet, Unfolded, First

LEMMA SumIsUnfolded ==
  ASSUME NEW S, IsFiniteSet(S), NEW f, NEW g, Unfolded(g, f, S)
  PROVE  \A T \in SUBSET S : Sum(f, T) = g[T]
<1> SUFFICES ASSUME NEW T \in SUBSET S PROVE Sum(f, T) = g[T]
  OBVIOUS
<1>1. IsFiniteSet(T)
  BY FS_Subset
<1> DEFINE h == CHOOSE h : Unfolded(h, f, T)
<1>2. Unfolded(h, f, T)
  BY <1>1, UnfoldedExists
<1>3. Sum(f, T) = h[T]
  BY SumIsChosen
<1> HIDE DEF h
<1> QED
  BY <1>1, <1>2, <1>3, UnfoldedAgree
-----------------------------------------------------------------------------
(* What the sum of natural numbers, or of integers, does *)

LEMMA SumEmpty == \A f : Sum(f, {}) = 0
<1> SUFFICES ASSUME NEW f PROVE Sum(f, {}) = 0
  OBVIOUS
<1>1. IsFiniteSet({})
  BY FS_EmptySet
<1>2. PICK g : Unfolded(g, f, {})
  BY <1>1, UnfoldedExists
<1>3. g[{}] = 0
  BY <1>2, {} \in SUBSET {} DEF Unfolded
<1>4. Sum(f, {}) = g[{}]
  BY <1>1, <1>2, SumIsUnfolded, {} \in SUBSET {}
<1> QED
  BY <1>3, <1>4

LEMMA SumFirst ==
  ASSUME NEW S, IsFiniteSet(S), S # {}, NEW f
  PROVE  Sum(f, S) = f[First(S)] + Sum(f, S \ {First(S)})
<1>1. PICK g : Unfolded(g, f, S)
  BY UnfoldedExists
<1>2. g[S] = f[First(S)] + g[S \ {First(S)}]
  BY <1>1, S \in SUBSET S DEF Unfolded
<1> QED
  BY <1>1, <1>2, SumIsUnfolded, S \in SUBSET S, S \ {First(S)} \in SUBSET S

LEMMA SumInt ==
  ASSUME NEW S, IsFiniteSet(S), NEW f, \A x \in S : f[x] \in Int
  PROVE  Sum(f, S) \in Int
<1> DEFINE G == {T \in SUBSET S : Sum(f, T) \in Int}
<1>1. ASSUME NEW T \in SUBSET S, \A U \in SUBSET T : U # T => U \in G
      PROVE  T \in G
  <2>1. CASE T = {}
    BY <2>1, SumEmpty
  <2>2. CASE T # {}
    <3>1. First(T) \in T /\ IsFiniteSet(T)
      BY <2>2, FirstIsIn, FS_Subset
    <3>2. Sum(f, T \ {First(T)}) \in Int
      BY <1>1, <3>1
    <3>3. Sum(f, T) = f[First(T)] + Sum(f, T \ {First(T)})
      BY <2>2, <3>1, SumFirst
    <3>4. f[First(T)] \in Int
      BY <3>1
    <3>5. Sum(f, T) \in Int
      BY <3>2, <3>3, <3>4
    <3> QED
      BY <3>5
  <2> QED
    BY <2>1, <2>2
<1>2. \A T \in SUBSET S : T \in G
  <2> HIDE DEF G
  <2> QED
    BY <1>1, SetInduction
<1> QED
  BY <1>2

\* Any element may be taken out first: the order of the fold does not matter.
LEMMA SumSplit ==
  ASSUME NEW S, IsFiniteSet(S), NEW f, \A x \in S : f[x] \in Int, NEW k \in S
  PROVE  Sum(f, S) = f[k] + Sum(f, S \ {k})
<1> DEFINE G == {T \in SUBSET S : \A x \in T : Sum(f, T) = f[x] + Sum(f, T \ {x})}
<1>1. ASSUME NEW T \in SUBSET S, \A U \in SUBSET T : U # T => U \in G
      PROVE  T \in G
  <2> SUFFICES ASSUME NEW x \in T
               PROVE  Sum(f, T) = f[x] + Sum(f, T \ {x})
    OBVIOUS
  <2> DEFINE y == First(T)
  <2>1. y \in T /\ IsFiniteSet(T) /\ T # {}
    BY FirstIsIn, FS_Subset
  <2>2. Sum(f, T) = f[y] + Sum(f, T \ {y})
    BY <2>1, SumFirst
  <2> HIDE DEF G
  <2>3. CASE x = y
    BY <2>2, <2>3
  <2>4. CASE x # y
    <3> HIDE DEF y
    <3>1. T \ {y} \in SUBSET T /\ T \ {y} # T /\ T \ {x} \in SUBSET T /\ T \ {x} # T
      BY <2>1
    <3>2. Sum(f, T \ {y}) = f[x] + Sum(f, (T \ {y}) \ {x})
      BY <1>1, <3>1, <2>4 DEF G
    <3>3. Sum(f, T \ {x}) = f[y] + Sum(f, (T \ {x}) \ {y})
      BY <1>1, <3>1, <2>1, <2>4 DEF G
    <3>4. (T \ {y}) \ {x} = (T \ {x}) \ {y}
      OBVIOUS
    <3>5. Sum(f, (T \ {x}) \ {y}) \in Int
      BY <2>1, SumInt, FS_Subset, (T \ {x}) \ {y} \subseteq T
    <3>6. f[x] \in Int /\ f[y] \in Int
      BY <2>1
    <3> DEFINE r == Sum(f, (T \ {x}) \ {y})
    <3>7. Sum(f, T) = f[y] + (f[x] + r) /\ Sum(f, T \ {x}) = f[y] + r
      BY <2>2, <3>2, <3>3, <3>4
    <3> HIDE DEF r
    <3>8. r \in Int
      BY <3>5 DEF r
    <3>9. f[y] + (f[x] + r) = f[x] + (f[y] + r)
      BY <3>6, <3>8
    <3> QED
      BY <3>7, <3>9
  <2> QED
    BY <2>3, <2>4
<1>2. \A T \in SUBSET S : T \in G
  <2> HIDE DEF G
  <2> QED
    BY <1>1, SetInduction
<1> QED
  BY <1>2, S \in SUBSET S

LEMMA SumNat ==
  ASSUME NEW S, IsFiniteSet(S), NEW f, \A x \in S : f[x] \in Nat
  PROVE  Sum(f, S) \in Nat
<1> DEFINE G == {T \in SUBSET S : Sum(f, T) \in Nat}
<1>1. ASSUME NEW T \in SUBSET S, \A U \in SUBSET T : U # T => U \in G
      PROVE  T \in G
  <2>1. CASE T = {}
    BY <2>1, SumEmpty
  <2>2. CASE T # {}
    <3>1. First(T) \in T /\ IsFiniteSet(T)
      BY <2>2, FirstIsIn, FS_Subset
    <3>2. Sum(f, T \ {First(T)}) \in Nat
      BY <1>1, <3>1
    <3>3. Sum(f, T) = f[First(T)] + Sum(f, T \ {First(T)})
      BY <2>2, <3>1, SumFirst
    <3>4. f[First(T)] \in Nat
      BY <3>1
    <3>5. Sum(f, T) \in Nat
      BY <3>2, <3>3, <3>4
    <3> QED
      BY <3>5
  <2> QED
    BY <2>1, <2>2
<1>2. \A T \in SUBSET S : T \in G
  <2> HIDE DEF G
  <2> QED
    BY <1>1, SetInduction
<1> QED
  BY <1>2

\* Only the summands over the set matter.
LEMMA SumSame ==
  ASSUME NEW S, IsFiniteSet(S), NEW f, NEW g, \A x \in S : f[x] = g[x]
  PROVE  Sum(f, S) = Sum(g, S)
<1> DEFINE G == {T \in SUBSET S : Sum(f, T) = Sum(g, T)}
<1>1. ASSUME NEW T \in SUBSET S, \A U \in SUBSET T : U # T => U \in G
      PROVE  T \in G
  <2>1. CASE T = {}
    BY <2>1, SumEmpty
  <2>2. CASE T # {}
    <3>1. First(T) \in T /\ IsFiniteSet(T)
      BY <2>2, FirstIsIn, FS_Subset
    <3>2. Sum(f, T \ {First(T)}) = Sum(g, T \ {First(T)})
      BY <1>1, <3>1
    <3> QED
      BY <2>2, <3>1, <3>2, SumFirst
  <2> QED
    BY <2>1, <2>2
<1>2. \A T \in SUBSET S : T \in G
  <2> HIDE DEF G
  <2> QED
    BY <1>1, SetInduction
<1> QED
  BY <1>2

\* One summand changes: the sum changes by as much.
LEMMA SumChange ==
  ASSUME NEW S, IsFiniteSet(S), NEW k \in S, NEW f, NEW g,
         \A x \in S : f[x] \in Int, g[k] \in Int, \A x \in S \ {k} : g[x] = f[x]
  PROVE  Sum(g, S) = Sum(f, S) + g[k] - f[k]
<1>1. IsFiniteSet(S \ {k})
  BY FS_Subset
<1>2. Sum(f, S) = f[k] + Sum(f, S \ {k})
  BY SumSplit
<1>3. \A x \in S : g[x] \in Int
  OBVIOUS
<1>4. Sum(g, S) = g[k] + Sum(g, S \ {k})
  BY <1>3, SumSplit
<1>5. Sum(f, S \ {k}) = Sum(g, S \ {k})
  BY <1>1, SumSame
<1>6. Sum(f, S \ {k}) \in Int
  BY <1>1, SumInt
<1> QED
  BY <1>2, <1>4, <1>5, <1>6

\* An element joins, or leaves, the set.
LEMMA SumJoin ==
  ASSUME NEW S, IsFiniteSet(S), NEW k, k \notin S, NEW f,
         \A x \in S : f[x] \in Int, f[k] \in Int
  PROVE  Sum(f, S \cup {k}) = Sum(f, S) + f[k]
<1>1. IsFiniteSet(S \cup {k})
  BY FS_AddElement
<1>2. (S \cup {k}) \ {k} = S /\ k \in S \cup {k} /\ \A x \in S \cup {k} : f[x] \in Int
  OBVIOUS
<1>3. Sum(f, S \cup {k}) = f[k] + Sum(f, (S \cup {k}) \ {k})
  BY <1>1, <1>2, SumSplit
<1>4. Sum(f, S \cup {k}) = f[k] + Sum(f, S)
  BY <1>2, <1>3
<1>5. Sum(f, S) \in Int
  BY SumInt
<1> QED
  BY <1>4, <1>5

LEMMA SumLeave ==
  ASSUME NEW S, IsFiniteSet(S), NEW k \in S, NEW f, \A x \in S : f[x] \in Int
  PROVE  Sum(f, S \ {k}) = Sum(f, S) - f[k]
<1>1. Sum(f, S) = f[k] + Sum(f, S \ {k})
  BY SumSplit
<1>2. Sum(f, S \ {k}) \in Int /\ f[k] \in Int
  BY SumInt, FS_Subset, S \ {k} \subseteq S
<1> QED
  BY <1>1, <1>2

LEMMA SumIsZero ==
  ASSUME NEW S, IsFiniteSet(S), NEW f, \A x \in S : f[x] = 0
  PROVE  Sum(f, S) = 0
<1> DEFINE G == {T \in SUBSET S : Sum(f, T) = 0}
<1>1. ASSUME NEW T \in SUBSET S, \A U \in SUBSET T : U # T => U \in G
      PROVE  T \in G
  <2>1. CASE T = {}
    BY <2>1, SumEmpty
  <2>2. CASE T # {}
    <3>1. First(T) \in T /\ IsFiniteSet(T)
      BY <2>2, FirstIsIn, FS_Subset
    <3>2. Sum(f, T \ {First(T)}) = 0
      BY <1>1, <3>1
    <3> QED
      BY <2>2, <3>1, <3>2, SumFirst
  <2> QED
    BY <2>1, <2>2
<1>2. \A T \in SUBSET S : T \in G
  <2> HIDE DEF G
  <2> QED
    BY <1>1, SetInduction
<1> QED
  BY <1>2

\* A sum of natural numbers is at least each of them.
LEMMA SumCovers ==
  ASSUME NEW S, IsFiniteSet(S), NEW f, \A x \in S : f[x] \in Nat, NEW k \in S
  PROVE  Sum(f, S) >= f[k]
<1>1. Sum(f, S) = f[k] + Sum(f, S \ {k})
  BY SumSplit
<1>2. Sum(f, S \ {k}) \in Nat /\ f[k] \in Nat
  BY SumNat, FS_Subset, S \ {k} \subseteq S
<1> QED
  BY <1>1, <1>2

\* Where the summands are 0 the sum does not look.
LEMMA SumOfPart ==
  ASSUME NEW S, IsFiniteSet(S), NEW T \in SUBSET S, NEW f,
         \A x \in S : f[x] \in Int, \A x \in S \ T : f[x] = 0
  PROVE  Sum(f, T) = Sum(f, S)
<1> DEFINE G == {U \in SUBSET S : Sum(f, U) = Sum(f, U \cap T)}
<1>1. ASSUME NEW U \in SUBSET S, \A V \in SUBSET U : V # U => V \in G
      PROVE  U \in G
  <2>1. IsFiniteSet(U) /\ IsFiniteSet(U \cap T)
    BY FS_Subset
  <2>2. CASE U \subseteq T
    <3>1. U \cap T = U
      BY <2>2
    <3> QED
      BY <3>1
  <2>3. ASSUME NEW x \in U, x \notin T
        PROVE  U \in G
    <3>1. Sum(f, U) = f[x] + Sum(f, U \ {x})
      BY <2>1, SumSplit
    <3>2. Sum(f, U \ {x}) = Sum(f, (U \ {x}) \cap T)
      BY <1>1, U \ {x} \in SUBSET U, U \ {x} # U
    <3>3. (U \ {x}) \cap T = U \cap T /\ f[x] = 0
      BY <2>3
    <3>4. Sum(f, U \cap T) \in Int
      BY <2>1, SumInt
    <3>5. Sum(f, U) = 0 + Sum(f, U \cap T)
      BY <3>1, <3>2, <3>3
    <3>6. Sum(f, U) = Sum(f, U \cap T)
      BY <3>4, <3>5
    <3> QED
      BY <3>6
  <2> QED
    BY <2>2, <2>3
<1>2. \A U \in SUBSET S : U \in G
  <2> HIDE DEF G
  <2> QED
    BY <1>1, SetInduction
<1>3. S \cap T = T
  OBVIOUS
<1> QED
  BY <1>2, <1>3, S \in SUBSET S

\* The least of a finite set of integers, which CHOOSE finds, is in the set.
LEMMA MinIsIn ==
  ASSUME NEW S, IsFiniteSet(S), S # {}, S \subseteq Int
  PROVE  Min(S) \in S /\ \A x \in S : Min(S) <= x
<1> DEFINE G == {T \in SUBSET S : T # {} => \E m \in T : \A x \in T : m <= x}
<1>1. ASSUME NEW T \in SUBSET S, \A U \in SUBSET T : U # T => U \in G
      PROVE  T \in G
  <2>1. CASE T = {}
    BY <2>1
  <2>2. CASE T # {}
    <3>1. PICK y \in T : TRUE
      BY <2>2
    <3> DEFINE U == T \ {y}
    <3>2. U \in SUBSET T /\ U # T
      BY <3>1
    <3>3. U \in G
      BY <1>1, <3>2
    <3>4. CASE U = {}
      BY <3>1, <3>4
    <3>5. CASE U # {}
      <4>1. PICK m \in U : \A x \in U : m <= x
        BY <3>3, <3>5
      <4>2. m \in Int /\ y \in Int /\ T \subseteq Int
        BY <3>1
      <4> QED
        BY <4>1, <4>2, <3>1, m <= y \/ y <= m
    <3> QED
      BY <3>4, <3>5
  <2> QED
    BY <2>1, <2>2
<1>2. S \in G
  <2> HIDE DEF G
  <2> QED
    BY <1>1, SetInduction
<1> QED
  BY <1>2 DEF Min

=============================================================================
