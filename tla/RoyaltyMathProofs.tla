------------------------- MODULE RoyaltyMathProofs -------------------------
(***************************************************************************)
(* The laws of sums and of division, and the amounts of a sale, for every  *)
(* denominator, scale and integer width that satisfy MathAssumption, and   *)
(* every number of recipients.                                             *)
(*                                                                         *)
(* A sum is a fold over a finite set.  That the recursion behind a fold    *)
(* has a solution, and what it computes, is proved by induction on the     *)
(* subsets of its domain; the induction hypothesis is a set, since no      *)
(* prover here can instantiate an operator.                                *)
(***************************************************************************)
EXTENDS RoyaltyMath, FiniteSetTheorems, WellFoundedInduction, TLAPS

-----------------------------------------------------------------------------
(* Induction, with the induction hypothesis as a set *)

LEMMA UpTo ==
    ASSUME NEW n \in Nat, NEW K, 0 \in K,
           \A k \in 0 .. n : k < n /\ k \in K => k + 1 \in K
    PROVE  0 .. n \subseteq K
<1> DEFINE bad == (0 .. n) \ K
           R == OpToRel(<, Nat)
<1>1. SUFFICES ASSUME bad # {} PROVE FALSE
  OBVIOUS
<1>2. bad \subseteq Nat
  OBVIOUS
<1>3. PICK k \in bad : \A j \in bad : ~(j < k)
  <2>1. IsWellFoundedOn(R, Nat)
    BY NatLessThanWellFounded
  <2>2. PICK k \in bad : \A j \in bad : ~(<<j, k>> \in R)
    <3> HIDE DEF bad, R
    <3>1. QED
      BY <1>1, <1>2, <2>1, WFMin
  <2>3. QED
    BY <1>2, <2>2 DEF OpToRel
<1>4. k \in 0 .. n /\ k # 0
  OBVIOUS
<1>5. k - 1 \in 0 .. n /\ k - 1 < k /\ k - 1 < n /\ (k - 1) + 1 = k
  BY <1>4
<1>6. k - 1 \notin bad
  BY <1>3, <1>5
<1>7. k - 1 \in K
  BY <1>5, <1>6
<1>8. QED
  BY <1>5, <1>7

LEMMA UpToWhole ==
    ASSUME NEW D, IsFiniteSet(D), NEW F,
           \A S \in SUBSET D :
               (\A T \in SUBSET D : T \subseteq S /\ T # S => T \in F) => S \in F
    PROVE  \A S \in SUBSET D : S \in F
<1> DEFINE bad == {S \in SUBSET D : S \notin F}
           R == StrictSubsetOrdering(D)
<1>1. SUFFICES ASSUME bad # {} PROVE FALSE
  OBVIOUS
<1>2. PICK S \in bad : \A T \in bad : ~(<<T, S>> \in R)
  <2>1. bad \subseteq SUBSET D /\ IsWellFoundedOn(R, SUBSET D)
    BY FS_StrictSubsetOrderingWellFounded, FS_FiniteSubsetsOfFinite
  <2> HIDE DEF bad, R
  <2>2. QED
    BY <1>1, <2>1, WFMin
<1>3. ASSUME NEW T \in SUBSET D, T \subseteq S, T # S PROVE T \in F
  <2>1. <<T, S>> \in R
    BY <1>3 DEF StrictSubsetOrdering
  <2>2. QED
    BY <1>2, <2>1
<1>4. QED
  BY <1>3

-----------------------------------------------------------------------------
(* Folds *)

\* g is the fold of F over each subset of D, whose elements are taken in the
\* order that pick says.
Folds(g, D, base, F, pick) ==
    g = [S \in SUBSET D |-> IF S = {} THEN base ELSE F[pick[S]][g[S \ {pick[S]}]]]

LEMMA FoldsAgree ==
    ASSUME NEW D, IsFiniteSet(D), NEW base, NEW F, NEW pick,
           \A S \in SUBSET D : S # {} => pick[S] \in S,
           NEW g, Folds(g, D, base, F, pick), NEW C \in SUBSET D,
           NEW h, Folds(h, C, base, F, pick)
    PROVE  \A S \in SUBSET C : g[S] = h[S]
<1> DEFINE same == {S \in SUBSET C : g[S] = h[S]}
<1>1. ASSUME NEW S \in SUBSET C, \A T \in SUBSET C : T \subseteq S /\ T # S => T \in same
      PROVE  S \in same
  <2>1. CASE S = {}
    BY <2>1 DEF Folds
  <2>2. CASE S # {}
    <3> DEFINE T == S \ {pick[S]}
    <3>1. T \in SUBSET C /\ T \subseteq S /\ T # S
      BY <2>2
    <3>2. g[T] = h[T]
      BY <1>1, <3>1
    <3>3. g[S] = F[pick[S]][g[T]] /\ h[S] = F[pick[S]][h[T]]
      <4>1. \A X \in SUBSET D : X # {} => g[X] = F[pick[X]][g[X \ {pick[X]}]]
        BY DEF Folds
      <4>2. \A X \in SUBSET C : X # {} => h[X] = F[pick[X]][h[X \ {pick[X]}]]
        BY DEF Folds
      <4>3. QED
        BY <2>2, <4>1, <4>2
    <3>4. QED
      BY <3>2, <3>3
  <2>3. QED
    BY <2>1, <2>2
<1>2. IsFiniteSet(C)
  BY FS_Subset
<1> HIDE DEF same
<1>3. \A S \in SUBSET C : S \in same
  BY <1>1, <1>2, UpToWhole
<1>4. QED
  BY <1>3 DEF same

LEMMA FoldExists ==
    ASSUME NEW D, IsFiniteSet(D), NEW base, NEW F, NEW pick,
           \A S \in SUBSET D : S # {} => pick[S] \in S
    PROVE  \E g : Folds(g, D, base, F, pick)
<1> DEFINE Some(S) == CHOOSE g : Folds(g, S, base, F, pick)
           folded == {S \in SUBSET D : Folds(Some(S), S, base, F, pick)}
<1>1. ASSUME NEW S \in SUBSET D, \A T \in SUBSET D : T \subseteq S /\ T # S => T \in folded
      PROVE  S \in folded
  <2> DEFINE G == [T \in SUBSET S |-> IF T = {} THEN base
                                      ELSE F[pick[T]][Some(T \ {pick[T]})[T \ {pick[T]}]]]
  <2>1. ASSUME NEW T \in SUBSET S, T # S PROVE Some(T)[T] = G[T]
    <3>1. Folds(Some(T), T, base, F, pick)
      BY <1>1, <2>1
    <3>2. CASE T = {}
      BY <3>1, <3>2 DEF Folds
    <3>3. CASE T # {}
      <4> DEFINE U == T \ {pick[T]}
      <4>1. U \in SUBSET T /\ U # S /\ U \in SUBSET D /\ U \subseteq S
        BY <3>3
      <4>2. Folds(Some(U), U, base, F, pick)
        BY <1>1, <4>1
      <4>3. IsFiniteSet(T) /\ \A X \in SUBSET T : X # {} => pick[X] \in X
        BY FS_Subset
      <4>4. Some(T)[U] = Some(U)[U]
        <5> HIDE DEF Some, U
        <5>1. PICK g, h : g = Some(T) /\ h = Some(U)
          OBVIOUS
        <5>2. Folds(g, T, base, F, pick) /\ Folds(h, U, base, F, pick)
          BY <3>1, <4>2, <5>1
        <5>3. g[U] = h[U]
          BY <4>1, <4>3, <5>2, FoldsAgree
        <5>4. QED
          BY <5>1, <5>3
      <4>5. Some(T)[T] = F[pick[T]][Some(T)[U]]
        <5> HIDE DEF Some
        <5>1. QED
          BY <3>1, <3>3 DEF Folds
      <4>6. G[T] = F[pick[T]][Some(U)[U]]
        <5> HIDE DEF Some
        <5>1. QED
          BY <3>3
      <4> HIDE DEF G, Some, U
      <4>7. QED
        BY <4>4, <4>5, <4>6
    <3>4. QED
      BY <3>2, <3>3
  <2>2. Folds(G, S, base, F, pick)
    <3>1. ASSUME NEW T \in SUBSET S, T # {}
          PROVE  T \ {pick[T]} \in SUBSET S /\ T \ {pick[T]} # S
      BY <3>1
    <3>2. \A T \in SUBSET S : T # {} =>
              Some(T \ {pick[T]})[T \ {pick[T]}] = G[T \ {pick[T]}]
      <4> HIDE DEF G, Some
      <4>1. QED
        BY <2>1, <3>1
    <3>3. G = [T \in SUBSET S |-> IF T = {} THEN base ELSE F[pick[T]][G[T \ {pick[T]}]]]
      <4> HIDE DEF Some
      <4>1. PICK H : H = G
        OBVIOUS
      <4>2. H = [T \in SUBSET S |-> IF T = {} THEN base
                                   ELSE F[pick[T]][Some(T \ {pick[T]})[T \ {pick[T]}]]]
        BY <4>1
      <4> HIDE DEF G
      <4>3. \A T \in SUBSET S : T # {} =>
                Some(T \ {pick[T]})[T \ {pick[T]}] = H[T \ {pick[T]}]
        BY <3>2, <4>1
      <4>4. H = [T \in SUBSET S |-> IF T = {} THEN base ELSE F[pick[T]][H[T \ {pick[T]}]]]
        BY <4>2, <4>3
      <4>5. QED
        BY <4>1, <4>4
    <3>4. QED
      <4> HIDE DEF G
      <4>1. QED
        BY <3>3 DEF Folds
  <2>3. Folds(Some(S), S, base, F, pick)
    <3> HIDE DEF G
    <3>1. QED
      BY <2>2
  <2>4. QED
    BY <2>3
<1> HIDE DEF folded
<1>2. \A S \in SUBSET D : S \in folded
  BY <1>1, UpToWhole
<1>3. QED
  BY <1>2 DEF folded

-----------------------------------------------------------------------------
(* Sums *)

\* The order in which the folds of module Functions take the elements of a set.
Pick(S) == CHOOSE x \in S : TRUE

\* g is the sum of w over each subset of its domain.
SumsOf(w, g) ==
    g = [S \in SUBSET DOMAIN w |-> IF S = {} THEN 0 ELSE w[Pick(S)] + g[S \ {Pick(S)}]]

LEMMA SumIsChosen ==
    ASSUME NEW w
    PROVE  SumOf(w) = (CHOOSE g : SumsOf(w, g))[DOMAIN w]
BY DEF SumOf, FoldFunction, FoldFunctionOnSet, MapThenFoldSet, SumsOf, Pick

Adding(w) == [x \in DOMAIN w |-> [v \in Int |-> w[x] + v]]
Picks(D) == [S \in SUBSET D |-> Pick(S)]

LEMMA SumsFold ==
    ASSUME NEW D, IsFiniteSet(D), NEW w \in [D -> Int], NEW C \in SUBSET D, NEW g
    PROVE  /\ SumsOf(Restrict(w, C), g) <=> Folds(g, C, 0, Adding(w), Picks(D))
           /\ SumsOf(Restrict(w, C), g) => \A S \in SUBSET C : g[S] \in Int
<1> DEFINE u == Restrict(w, C)
<1>1. DOMAIN u = C /\ \A x \in C : u[x] = w[x] /\ w[x] \in Int
  BY DEF Restrict
<1>2. \A S \in SUBSET C : S # {} => Pick(S) \in S /\ Pick(S) \in C /\ Pick(S) \in D
                                   /\ Picks(D)[S] = Pick(S)
  BY DEF Pick, Picks
<1>3. \A x \in C, v \in Int : Adding(w)[x][v] = w[x] + v
  BY DEF Adding
<1> HIDE DEF u
<1>4. ASSUME SumsOf(u, g) \/ Folds(g, C, 0, Adding(w), Picks(D))
      PROVE  \A S \in SUBSET C : g[S] \in Int
  <2> DEFINE typed == {S \in SUBSET C : g[S] \in Int}
  <2>1. ASSUME NEW S \in SUBSET C, \A T \in SUBSET C : T \subseteq S /\ T # S => T \in typed
        PROVE  S \in typed
    <3>1. CASE S = {}
      <4>1. g[S] = 0
        BY <1>1, <1>4, <3>1 DEF SumsOf, Folds
      <4>2. QED
        BY <4>1
    <3>2. CASE S # {}
      <4>1. PICK x : x = Pick(S)
        OBVIOUS
      <4>2. x \in C /\ S \ {x} \in typed
        BY <1>2, <2>1, <3>2, <4>1
      <4>3. g[S] = w[x] + g[S \ {x}]
        <5>1. CASE SumsOf(u, g)
          BY <1>1, <3>2, <4>1, <4>2, <5>1 DEF SumsOf
        <5>2. CASE Folds(g, C, 0, Adding(w), Picks(D))
          <6>1. g[S] = Adding(w)[x][g[S \ {x}]]
            BY <1>2, <3>2, <4>1, <5>2 DEF Folds
          <6>2. QED
            BY <1>3, <4>2, <6>1
        <5>3. QED
          BY <1>4, <5>1, <5>2
      <4>4. QED
        BY <1>1, <4>2, <4>3
    <3>3. QED
      BY <3>1, <3>2
  <2>2. IsFiniteSet(C)
    BY FS_Subset
  <2> HIDE DEF typed
  <2>3. \A S \in SUBSET C : S \in typed
    BY <2>1, <2>2, UpToWhole
  <2>4. QED
    BY <2>3 DEF typed
<1>5. ASSUME \A S \in SUBSET C : g[S] \in Int
      PROVE  SumsOf(u, g) <=> Folds(g, C, 0, Adding(w), Picks(D))
  <2>1. ASSUME NEW S \in SUBSET C, S # {}
        PROVE  u[Pick(S)] + g[S \ {Pick(S)}] = Adding(w)[Picks(D)[S]][g[S \ {Picks(D)[S]}]]
    <3>1. Pick(S) \in C /\ Picks(D)[S] = Pick(S) /\ S \ {Pick(S)} \in SUBSET C
      BY <1>2, <2>1
    <3>2. QED
      BY <1>1, <1>3, <1>5, <3>1
  <2>2. [S \in SUBSET C |-> IF S = {} THEN 0 ELSE u[Pick(S)] + g[S \ {Pick(S)}]] =
        [S \in SUBSET C |-> IF S = {} THEN 0
                            ELSE Adding(w)[Picks(D)[S]][g[S \ {Picks(D)[S]}]]]
    BY <2>1
  <2>3. QED
    BY <1>1, <2>2 DEF SumsOf, Folds
<1>6. QED
  BY <1>4, <1>5 DEF u

\* The sums over the subsets of a finite set, taken in any order.
LEMMA SumsOverSubsets ==
    ASSUME NEW D, IsFiniteSet(D), NEW w \in [D -> Int]
    PROVE  /\ \A S \in SUBSET D : SumOf(Restrict(w, S)) \in Int
           /\ SumOf(Restrict(w, {})) = 0
           /\ \A S \in SUBSET D : \A x \in S :
                  SumOf(Restrict(w, S)) = w[x] + SumOf(Restrict(w, S \ {x}))
<1> DEFINE F == Adding(w)
           pick == Picks(D)
           g == CHOOSE h : Folds(h, D, 0, F, pick)
<1>1. \A S \in SUBSET D : S # {} => pick[S] \in S /\ pick[S] = Pick(S)
  BY DEF Picks, Pick
<1>2. Folds(g, D, 0, F, pick)
  <2> HIDE DEF F, pick
  <2>1. QED
    BY <1>1, FoldExists
<1>3. ASSUME NEW C \in SUBSET D PROVE SumOf(Restrict(w, C)) = g[C]
  <2>1. PICK u : u = Restrict(w, C)
    OBVIOUS
  <2>2. DOMAIN u = C
    BY <2>1 DEF Restrict
  <2>3. IsFiniteSet(C) /\ \A S \in SUBSET C : S # {} => pick[S] \in S
    BY <1>1, FS_Subset
  <2>4. \E h : Folds(h, C, 0, F, pick)
    <3> HIDE DEF F, pick
    <3>1. QED
      BY <2>3, FoldExists
  <2>5. \E h : SumsOf(u, h)
    BY <2>1, <2>4, SumsFold
  <2>6. PICK h : h = (CHOOSE x : SumsOf(u, x)) /\ SumsOf(u, h)
    BY <2>5
  <2>7. Folds(h, C, 0, F, pick)
    BY <2>1, <2>6, SumsFold
  <2>8. g[C] = h[C]
    <3> HIDE DEF F, pick, g
    <3>1. QED
      BY <1>1, <1>2, <2>7, FoldsAgree
  <2>9. SumOf(u) = h[C]
    BY <2>2, <2>6, SumIsChosen
  <2>10. QED
    BY <2>1, <2>8, <2>9
<1>4. SumsOf(Restrict(w, D), g) /\ Restrict(w, D) = w
  BY <1>2, SumsFold DEF Restrict
<1>5. \A S \in SUBSET D : g[S] \in Int
  BY <1>4, SumsFold
<1> HIDE DEF g
<1>6. /\ g[{}] = 0
      /\ \A S \in SUBSET D : S # {} => g[S] = w[Pick(S)] + g[S \ {Pick(S)}]
  <2>1. g = [S \in SUBSET D |-> IF S = {} THEN 0 ELSE w[Pick(S)] + g[S \ {Pick(S)}]]
    BY <1>4 DEF SumsOf
  <2>2. QED
    BY <2>1
<1> DEFINE anyOrder == {S \in SUBSET D : \A x \in S : g[S] = w[x] + g[S \ {x}]}
<1>7. ASSUME NEW S \in SUBSET D, \A T \in SUBSET D : T \subseteq S /\ T # S => T \in anyOrder
      PROVE  S \in anyOrder
  <2>1. SUFFICES ASSUME NEW x \in S PROVE g[S] = w[x] + g[S \ {x}]
    OBVIOUS
  <2>2. PICK p \in S : g[S] = w[p] + g[S \ {p}]
    <3>1. S # {} /\ Pick(S) \in S
      BY <1>1
    <3>2. g[S] = w[Pick(S)] + g[S \ {Pick(S)}]
      BY <1>6, <3>1
    <3>3. QED
      BY <3>1, <3>2
  <2>3. CASE p = x
    BY <2>2, <2>3
  <2>4. CASE p # x
    <3>1. S \ {p} \in anyOrder /\ S \ {x} \in anyOrder
      BY <1>7, <2>2
    <3>2. /\ g[S \ {p}] = w[x] + g[(S \ {p}) \ {x}]
          /\ g[S \ {x}] = w[p] + g[(S \ {x}) \ {p}]
      BY <2>4, <3>1
    <3>3. (S \ {p}) \ {x} = (S \ {x}) \ {p} /\ (S \ {p}) \ {x} \in SUBSET D
      OBVIOUS
    <3>4. PICK v \in Int : v = g[(S \ {p}) \ {x}]
      BY <1>5, <3>3
    <3>5. g[S] = w[p] + (w[x] + v)
      BY <2>2, <3>2, <3>4
    <3>6. g[S \ {x}] = w[p] + v
      BY <3>2, <3>3, <3>4
    <3>7. w[x] \in Int /\ w[p] \in Int
      OBVIOUS
    <3>8. w[p] + (w[x] + v) = w[x] + (w[p] + v)
      BY <3>4, <3>7
    <3>9. QED
      BY <3>5, <3>6, <3>8
  <2>5. QED
    BY <2>3, <2>4
<1>8. \A S \in SUBSET D : S \in anyOrder
  <2> HIDE DEF anyOrder
  <2>1. QED
    BY <1>7, UpToWhole
<1>9. QED
  BY <1>3, <1>5, <1>6, <1>8

\* The laws of a finite sum that everything else is proved from.
LEMMA SumLaws ==
    ASSUME NEW D, IsFiniteSet(D), NEW w \in [D -> Int]
    PROVE  /\ SumOf(w) \in Int
           /\ D = {} => SumOf(w) = 0
           /\ \A x \in D : SumOf(w) = w[x] + SumOf(Restrict(w, D \ {x}))
<1>1. Restrict(w, D) = w
  BY DEF Restrict
<1>2. QED
  BY <1>1, SumsOverSubsets

\* Sums keep an inequality that holds of every pair of elements.
LEMMA SumsCompare ==
    ASSUME NEW D, IsFiniteSet(D), NEW v \in [D -> Int], NEW w \in [D -> Int],
           NEW a \in Int, NEW b \in Int, NEW c \in Int,
           \A x \in D : a * v[x] <= b * w[x] + c
    PROVE  a * SumOf(v) <= b * SumOf(w) + c * Cardinality(D)
<1> DEFINE V(S) == SumOf(Restrict(v, S))
           W(S) == SumOf(Restrict(w, S))
           below == {S \in SUBSET D : a * V(S) <= b * W(S) + c * Cardinality(S)}
<1>1. /\ \A S \in SUBSET D : V(S) \in Int /\ W(S) \in Int
      /\ V({}) = 0 /\ W({}) = 0
      /\ \A S \in SUBSET D : \A x \in S : V(S) = v[x] + V(S \ {x}) /\ W(S) = w[x] + W(S \ {x})
  BY SumsOverSubsets
<1> HIDE DEF V, W
<1>2. ASSUME NEW S \in SUBSET D, \A T \in SUBSET D : T \subseteq S /\ T # S => T \in below
      PROVE  S \in below
  <2>1. CASE S = {}
    BY <1>1, <2>1, FS_EmptySet
  <2>2. CASE S # {}
    <3>1. PICK x : x \in S
      BY <2>2
    <3>2. PICK T \in SUBSET D : T = S \ {x}
      OBVIOUS
    <3>3. T \in below
      BY <1>2, <3>1, <3>2
    <3>4. PICK i, j, k : i = V(T) /\ j = W(T) /\ k = Cardinality(T)
      OBVIOUS
    <3>5. i \in Int /\ j \in Int /\ k \in Nat /\ Cardinality(S) = k + 1
      <4>1. IsFiniteSet(S) /\ IsFiniteSet(T)
        BY FS_Subset
      <4>2. k \in Nat /\ Cardinality(S) \in Nat
        BY <3>4, <4>1, FS_CardinalityType
      <4>3. k = Cardinality(S) - 1
        BY <3>1, <3>2, <3>4, <4>1, FS_RemoveElement
      <4>4. QED
        BY <1>1, <3>2, <3>4, <4>2, <4>3
    <3>6. PICK p, q : p = v[x] /\ q = w[x] /\ p \in Int /\ q \in Int /\ a * p <= b * q + c
      BY <3>1
    <3>7. V(S) = p + i /\ W(S) = q + j
      BY <1>1, <3>1, <3>2, <3>4, <3>6
    <3>8. a * i <= b * j + c * k
      BY <3>3, <3>4
    <3>9. a * (p + i) <= b * (q + j) + c * (k + 1)
      <4>1. a * (p + i) = a * p + a * i /\ b * (q + j) = b * q + b * j /\ c * (k + 1) = c * k + c
        BY <3>5, <3>6
      <4>2. /\ a * p \in Int /\ a * i \in Int /\ b * q \in Int /\ b * j \in Int
            /\ c * k \in Int
        BY <3>5, <3>6
      <4>3. QED
        BY <3>6, <3>8, <4>1, <4>2
    <3>10. QED
      BY <3>5, <3>7, <3>9
  <2>3. QED
    BY <2>1, <2>2
<1>3. D \in below
  <2> HIDE DEF below
  <2>1. QED
    BY <1>2, UpToWhole
<1>4. V(D) = SumOf(v) /\ W(D) = SumOf(w)
  BY DEF V, W, Restrict
<1>5. QED
  BY <1>3, <1>4

LEMMA SumOfNats ==
    ASSUME NEW D, IsFiniteSet(D), NEW w \in [D -> Nat]
    PROVE  SumOf(w) \in Nat
<1> DEFINE zero == [x \in D |-> 0]
<1>1. zero \in [D -> Int] /\ w \in [D -> Int]
  OBVIOUS
<1>2. SumOf(w) \in Int /\ Cardinality(D) \in Nat /\ SumOf(zero) \in Int
  BY <1>1, SumLaws, FS_CardinalityType
<1> DEFINE a == 0
           b == 1
<1>3. a \in Int /\ b \in Int /\ \A x \in D : a * zero[x] <= b * w[x] + a
  OBVIOUS
<1> HIDE DEF zero, a, b
<1>4. a * SumOf(zero) <= b * SumOf(w) + a * Cardinality(D)
  BY <1>1, <1>3, SumsCompare
<1> USE DEF a, b
<1>5. QED
  BY <1>2, <1>4

LEMMA SumChanges ==
    ASSUME NEW D, IsFiniteSet(D), NEW w \in [D -> Int], NEW x \in D, NEW v \in Int
    PROVE  SumOf([w EXCEPT ![x] = v]) = SumOf(w) - w[x] + v
<1> DEFINE u == [w EXCEPT ![x] = v]
<1>1. u \in [D -> Int] /\ u[x] = v /\ Restrict(u, D \ {x}) = Restrict(w, D \ {x})
  BY DEF Restrict
<1> HIDE DEF u
<1>2. SumOf(Restrict(w, D \ {x})) \in Int
  BY SumsOverSubsets
<1>3. SumOf(u) = v + SumOf(Restrict(w, D \ {x}))
  BY <1>1, SumLaws
<1>4. SumOf(w) = w[x] + SumOf(Restrict(w, D \ {x}))
  BY SumLaws
<1>5. w[x] \in Int
  OBVIOUS
<1>6. QED
  BY <1>2, <1>3, <1>4, <1>5 DEF u

\* The sum of a sequence, one element at a time, and of two in a row.
LEMMA SumAppends ==
    ASSUME NEW n \in Nat, NEW w, \A i \in 1 .. n + 1 : w[i] \in Int
    PROVE  /\ SumOf([i \in 1 .. n |-> w[i]]) \in Int
           /\ SumOf([i \in 1 .. n + 1 |-> w[i]]) = SumOf([i \in 1 .. n |-> w[i]]) + w[n + 1]
<1> DEFINE u == [i \in 1 .. n + 1 |-> w[i]]
           D == 1 .. n + 1
<1>0. IsFiniteSet(D)
  BY FS_Interval
<1>1. /\ u \in [D -> Int] /\ n + 1 \in D /\ u[n + 1] = w[n + 1]
      /\ D \ {n + 1} = 1 .. n
  OBVIOUS
<1>2. Restrict(u, D \ {n + 1}) = [i \in 1 .. n |-> w[i]]
  BY <1>1 DEF Restrict
<1> HIDE DEF u, D
<1>3. SumOf(u) = u[n + 1] + SumOf(Restrict(u, D \ {n + 1}))
  BY <1>0, <1>1, SumLaws
<1>4. SumOf(Restrict(u, D \ {n + 1})) \in Int /\ w[n + 1] \in Int
  BY <1>0, <1>1, SumsOverSubsets
<1>5. QED
  BY <1>1, <1>2, <1>3, <1>4 DEF u, D

LEMMA SumSplits ==
    ASSUME NEW m \in Nat, NEW n \in Nat, NEW w, \A i \in 1 .. m + n : w[i] \in Int
    PROVE  SumOf([i \in 1 .. m + n |-> w[i]]) =
               SumOf([i \in 1 .. m |-> w[i]]) + SumOf([i \in 1 .. n |-> w[m + i]])
<1> DEFINE All(k) == SumOf([i \in 1 .. k |-> w[i]])
           Rest(k) == SumOf([i \in 1 .. k |-> w[m + i]])
           u == [i \in 1 .. n |-> w[m + i]]
           split == {k \in 0 .. n : All(m + k) = All(m) + Rest(k)}
<1>1. All(m) \in Int
  <2>1. [i \in 1 .. m |-> w[i]] \in [1 .. m -> Int] /\ IsFiniteSet(1 .. m)
    BY FS_Interval
  <2>2. QED
    BY <2>1, SumLaws
<1>2. 0 \in split
  <2>1. [i \in 1 .. 0 |-> w[m + i]] \in [1 .. 0 -> Int] /\ IsFiniteSet(1 .. 0) /\ 1 .. 0 = {}
    BY FS_EmptySet
  <2>2. Rest(0) = 0
    BY <2>1, SumLaws
  <2> HIDE DEF All, Rest
  <2>3. QED
    BY <1>1, <2>2
<1>3. ASSUME NEW k \in 0 .. n, k < n, k \in split PROVE k + 1 \in split
  <2>1. /\ All(m + (k + 1)) = All(m + k) + w[m + (k + 1)]
    <3>1. m + k \in Nat /\ m + (k + 1) = (m + k) + 1
          /\ \A i \in 1 .. (m + k) + 1 : w[i] \in Int
      BY <1>3
    <3>2. PICK j \in Nat : j = m + k
      BY <3>1
    <3>3. SumOf([i \in 1 .. j + 1 |-> w[i]]) = SumOf([i \in 1 .. j |-> w[i]]) + w[j + 1]
      BY <3>1, <3>2, SumAppends
    <3>4. QED
      BY <3>1, <3>2, <3>3
  <2>2. Rest(k) \in Int /\ Rest(k + 1) = Rest(k) + w[m + (k + 1)]
    <3>1. \A i \in 1 .. k + 1 : u[i] = w[m + i] /\ w[m + i] \in Int
      BY <1>3
    <3>2. /\ [i \in 1 .. k |-> u[i]] = [i \in 1 .. k |-> w[m + i]]
          /\ [i \in 1 .. k + 1 |-> u[i]] = [i \in 1 .. k + 1 |-> w[m + i]]
          /\ k + 1 \in 1 .. k + 1
      BY <3>1
    <3>0. k \in Nat /\ \A i \in 1 .. k + 1 : u[i] \in Int
      BY <1>3, <3>1
    <3> HIDE DEF u, All, Rest, split
    <3>3. /\ SumOf([i \in 1 .. k |-> u[i]]) \in Int
          /\ SumOf([i \in 1 .. k + 1 |-> u[i]]) = SumOf([i \in 1 .. k |-> u[i]]) + u[k + 1]
      BY <3>0, SumAppends
    <3>4. QED
      BY <3>1, <3>2, <3>3 DEF Rest
  <2>3. w[m + (k + 1)] \in Int /\ k + 1 \in 0 .. n
    BY <1>3
  <2> HIDE DEF All, Rest
  <2>4. QED
    BY <1>1, <1>3, <2>1, <2>2, <2>3
<1>4. n \in split
  <2> HIDE DEF split
  <2>1. 0 .. n \subseteq split
    BY <1>2, <1>3, UpTo
  <2>2. QED
    BY <2>1
<1>5. QED
  BY <1>4

\* A sum over a field of records is the sum of that field.
LEMMA SumOfShares ==
    ASSUME NEW D, IsFiniteSet(D), NEW r, DOMAIN r = D, \A x \in D : r[x].bps \in Int
    PROVE  FoldFunction(LAMBDA p, sum : p.bps + sum, 0, r) = SumOf([x \in D |-> r[x].bps])
<1> DEFINE u == [x \in D |-> r[x].bps]
           Sums(g) == g = [S \in SUBSET D |-> IF S = {} THEN 0
                                              ELSE r[Pick(S)].bps + g[S \ {Pick(S)}]]
<1>1. FoldFunction(LAMBDA p, sum : p.bps + sum, 0, r) = (CHOOSE g : Sums(g))[D]
  BY DEF FoldFunction, FoldFunctionOnSet, MapThenFoldSet, Pick
<1>2. ASSUME NEW g PROVE Sums(g) <=> SumsOf(u, g)
  <2>1. \A S \in SUBSET D : S # {} => u[Pick(S)] = r[Pick(S)].bps
    BY DEF Pick
  <2>2. [S \in SUBSET D |-> IF S = {} THEN 0 ELSE r[Pick(S)].bps + g[S \ {Pick(S)}]] =
        [S \in SUBSET D |-> IF S = {} THEN 0 ELSE u[Pick(S)] + g[S \ {Pick(S)}]]
    <3> HIDE DEF u
    <3>1. QED
      BY <2>1
  <2>3. DOMAIN u = D
    OBVIOUS
  <2> HIDE DEF u
  <2>4. QED
    BY <2>2, <2>3 DEF SumsOf
<1>3. (CHOOSE g : Sums(g)) = (CHOOSE g : SumsOf(u, g))
  <2> HIDE DEF Sums, u
  <2>1. \A g : Sums(g) <=> SumsOf(u, g)
    BY <1>2
  <2>2. QED
    BY <2>1
<1>4. DOMAIN u = D
  OBVIOUS
<1> HIDE DEF Sums, u
<1>5. QED
  BY <1>1, <1>3, <1>4, SumIsChosen DEF u

-----------------------------------------------------------------------------
(* Division *)

\* Multiplication by a natural number keeps an order.
LEMMA TimesKeepsOrder ==
    ASSUME NEW a \in Int, NEW b \in Int, NEW k \in Nat, a <= b
    PROVE  a * k <= b * k
<1>1. (b - a) * k >= 0
    OBVIOUS
<1>2. (b - a) * k = b * k - a * k
    OBVIOUS
<1>3. a * k \in Int /\ b * k \in Int
    OBVIOUS
<1>4. QED
    BY <1>1, <1>2, <1>3

\* The quotient is the multiple of d that lies just below.
LEMMA QuotientIs ==
    ASSUME NEW n \in Int, NEW d \in Nat \ {0}, NEW q \in Int,
           q * d <= n, n < q * d + d
    PROVE  n \div d = q
<1> DEFINE m == n \div d
<1>1. m \in Int /\ m * d <= n /\ n < m * d + d
    OBVIOUS
<1>2. m * d \in Int /\ q * d \in Int
    BY <1>1
<1>3. ~ m + 1 <= q
  <2> SUFFICES ASSUME m + 1 <= q PROVE FALSE
      OBVIOUS
  <2>1. (m + 1) * d <= q * d
      BY <1>1, TimesKeepsOrder
  <2>2. (m + 1) * d = m * d + d
      BY <1>1
  <2>3. QED
      BY <1>1, <1>2, <2>1, <2>2
<1>4. ~ q + 1 <= m
  <2> SUFFICES ASSUME q + 1 <= m PROVE FALSE
      OBVIOUS
  <2>1. (q + 1) * d <= m * d
      BY <1>1, TimesKeepsOrder
  <2>2. (q + 1) * d = q * d + d
      OBVIOUS
  <2>3. QED
      BY <1>1, <1>2, <2>1, <2>2
<1>5. QED
    BY <1>1, <1>3, <1>4

-----------------------------------------------------------------------------
(* Single amounts *)

\* A rounding offset below one unit of the scale disappears in the division.
LEMMA OffsetVanishes ==
    ASSUME NEW n \in Nat, NEW d \in Nat \ {0}, NEW s \in Nat, s > d \div 2
    PROVE  ((n * s + d \div 2) \div d) \div s = n \div d
<1> DEFINE h == d \div 2
           q == n \div d
           m == (n * s + h) \div d
<1>1. h \in Nat /\ h < s /\ s \in Nat \ {0}
    OBVIOUS
<1>2. q \in Int /\ q * d \in Int /\ q * d <= n /\ n + 1 <= q * d + d
    OBVIOUS
<1>3. n * s + h \in Int /\ m \in Int /\ m * d \in Int
      /\ m * d <= n * s + h /\ n * s + h < m * d + d
    BY <1>1
<1>4. q * s <= m
  <2> SUFFICES ASSUME m + 1 <= q * s PROVE FALSE
      BY <1>1, <1>2, <1>3
  <2>1. (m + 1) * d <= (q * s) * d
      BY <1>1, <1>2, <1>3, TimesKeepsOrder
  <2>2. (q * d) * s <= n * s
      BY <1>2, TimesKeepsOrder
  <2>3. (m + 1) * d = m * d + d /\ (q * s) * d = (q * d) * s
      BY <1>2, <1>3
  <2>4. (q * d) * s \in Int /\ n * s \in Int
      BY <1>2
  <2>5. QED
      BY <1>1, <1>3, <2>1, <2>2, <2>3, <2>4
<1>5. m < q * s + s
  <2> SUFFICES ASSUME (q + 1) * s <= m PROVE FALSE
    <3>1. (q + 1) * s = q * s + s
        BY <1>2
    <3>2. QED
        BY <1>1, <1>2, <1>3, <3>1
  <2>1. ((q + 1) * s) * d <= m * d
      BY <1>1, <1>2, <1>3, TimesKeepsOrder
  <2>2. (n + 1) * s <= ((q + 1) * d) * s
    <3>1. (q + 1) * d = q * d + d /\ (q + 1) * d \in Int
        BY <1>2
    <3>2. QED
        BY <1>2, <3>1, TimesKeepsOrder
  <2>3. (n + 1) * s = n * s + s /\ ((q + 1) * s) * d = ((q + 1) * d) * s
      BY <1>2
  <2>4. n * s \in Int /\ ((q + 1) * s) * d \in Int
      BY <1>2
  <2>5. QED
      BY <1>1, <1>3, <2>1, <2>2, <2>3, <2>4
<1>6. q * s \in Int
    BY <1>2
<1>7. m \div s = q
    BY <1>1, <1>2, <1>3, <1>4, <1>5, <1>6, QuotientIs
<1>8. QED
    BY <1>7

\* Up to the largest safe price, at most the whole of it, nothing overflows.
LEMMA NothingOverflows ==
    ASSUME NEW p \in Nat, NEW b \in Nat, p <= MAX_SAFE_SALE_PRICE, b <= Denominator
    PROVE  p * b * AssetScale + Denominator \div 2 <= MaxInt
<1> DEFINE unit == Denominator * AssetScale
           top  == MaxInt \div unit
<1> USE MathAssumption
<1>1. AssetScale \in Nat \ {0} /\ Denominator \in Nat \ {0} /\ MaxInt \in Nat
      /\ Denominator \div 2 \in Nat
    OBVIOUS
<1>2. unit \in Nat \ {0}
    BY <1>1
<1>3. top \in Int /\ MaxInt = top * unit + (MaxInt % unit) /\ MaxInt % unit \in Int
      /\ top * unit \in Int
    BY <1>1, <1>2
<1>4. p * b <= p * Denominator
  <2>1. b * p <= Denominator * p
      BY <1>1, TimesKeepsOrder
  <2>2. QED
      BY <1>1, <2>1
<1>5. (p * b) * AssetScale <= (p * Denominator) * AssetScale
  <2>1. p * b \in Int /\ p * Denominator \in Int
      BY <1>1
  <2>2. QED
      BY <1>1, <1>4, <2>1, TimesKeepsOrder
<1>6. p * unit <= top * unit
    BY <1>2, <1>3, TimesKeepsOrder DEF MAX_SAFE_SALE_PRICE
<1>7. (p * Denominator) * AssetScale = p * unit
    BY <1>1
<1>8. (p * b) * AssetScale \in Int /\ p * unit \in Int
    BY <1>1, <1>2
<1>9. QED
    BY <1>1, <1>3, <1>5, <1>6, <1>7, <1>8

\* safe_royalty_amount truncates, whatever its rounding offset suggests.
THEOREM AmountTruncates ==
    ASSUME NEW p \in Nat, NEW b \in Nat, p <= MAX_SAFE_SALE_PRICE, b <= Denominator
    PROVE  safe_royalty_amount(p, b) = (p * b) \div Denominator
<1>1. p * b * AssetScale + Denominator \div 2 <= MaxInt
    BY NothingOverflows
<1>2. p * b \in Nat
    OBVIOUS
<1>3. ((p * b * AssetScale + Denominator \div 2) \div Denominator) \div AssetScale
          = (p * b) \div Denominator
    BY <1>2, MathAssumption, OffsetVanishes
<1>4. MAX_SAFE_SALE_PRICE \in Int /\ p * b * AssetScale + Denominator \div 2 \in Int
      /\ MaxInt \in Int
  <2>1. Denominator * AssetScale \in Nat \ {0} /\ MaxInt \in Nat
      BY MathAssumption
  <2>2. MAX_SAFE_SALE_PRICE \in Int
      BY <2>1 DEF MAX_SAFE_SALE_PRICE
  <2>3. QED
      BY <1>2, <2>2, MathAssumption
<1>5. QED
    BY <1>1, <1>3, <1>4 DEF safe_royalty_amount

\* A larger dividend has no smaller quotient.
LEMMA QuotientKeepsOrder ==
    ASSUME NEW m \in Int, NEW n \in Int, NEW d \in Nat \ {0}, m <= n
    PROVE  m \div d <= n \div d
<1> DEFINE q == m \div d
           r == n \div d
<1>1. q \in Int /\ r \in Int /\ q * d <= m /\ n < r * d + d
    OBVIOUS
<1>2. SUFFICES ASSUME r + 1 <= q PROVE FALSE
    BY <1>1
<1>3. (r + 1) * d <= q * d
    BY <1>1, <1>2, TimesKeepsOrder
<1>4. (r + 1) * d = r * d + d /\ q * d \in Int /\ r * d \in Int
    BY <1>1
<1>5. QED
    BY <1>1, <1>3, <1>4

\* A royalty and a fee that pass validate_total_deduction_bps leave the seller
\* nothing less than nothing, to the last unit of every safe price.
THEOREM TwoDeductionsFit ==
    ASSUME NEW p \in Nat, NEW b \in Nat, NEW f \in Nat,
           p <= MAX_SAFE_SALE_PRICE, validate_total_deduction_bps(b, f)
    PROVE  safe_royalty_amount(p, b) + safe_royalty_amount(p, f) <= p
<1> DEFINE x == (p * b) \div Denominator
           y == (p * f) \div Denominator
<1> USE MathAssumption
<1>1. Denominator \in Nat \ {0} /\ b + f <= Denominator
    BY DEF validate_total_deduction_bps
<1>2. safe_royalty_amount(p, b) = x /\ safe_royalty_amount(p, f) = y
    BY <1>1, AmountTruncates
<1>3. p * b \in Int /\ p * f \in Int /\ p * Denominator \in Int
    BY <1>1
<1>4. x \in Int /\ y \in Int /\ x * Denominator <= p * b /\ y * Denominator <= p * f
    BY <1>1, <1>3
<1>5. p * b + p * f <= p * Denominator
  <2>1. (b + f) * p <= Denominator * p
      BY <1>1, TimesKeepsOrder
  <2>2. QED
      BY <1>1, <2>1
<1>6. SUFFICES ASSUME p + 1 <= x + y PROVE FALSE
    BY <1>2, <1>4
<1>7. (p + 1) * Denominator <= (x + y) * Denominator
    BY <1>1, <1>4, <1>6, TimesKeepsOrder
<1>8. (p + 1) * Denominator = p * Denominator + Denominator
      /\ (x + y) * Denominator = x * Denominator + y * Denominator
    BY <1>1, <1>4
<1>9. x * Denominator \in Int /\ y * Denominator \in Int
    BY <1>1, <1>4
<1>10. QED
    BY <1>1, <1>3, <1>4, <1>5, <1>7, <1>8, <1>9

LEMMA LimitsAreNumbers == Denominator \in Nat \ {0} /\ MAX_SAFE_SALE_PRICE \in Nat \ {0}
<1> DEFINE unit == Denominator * AssetScale
<1>1. unit \in Nat \ {0} /\ MaxInt \in Nat /\ 1 * unit <= MaxInt
    BY MathAssumption
<1>2. 1 <= MaxInt \div unit
  <2>1. (1 * unit) \div unit <= MaxInt \div unit
      BY <1>1, QuotientKeepsOrder
  <2>2. (1 * unit) \div unit = 1
      BY <1>1, QuotientIs
  <2>3. QED
      BY <2>1, <2>2
<1>3. MaxInt \div unit \in Int
    BY <1>1
<1>4. QED
    BY <1>2, <1>3, MathAssumption DEF MAX_SAFE_SALE_PRICE

-----------------------------------------------------------------------------
(* Sales with any number of recipients *)

LEMMA PartOfSum ==
    ASSUME NEW D, IsFiniteSet(D), NEW w \in [D -> Nat], NEW x \in D
    PROVE  w[x] <= SumOf(w)
<1>1. w \in [D -> Int]
  OBVIOUS
<1>2. SumOf(w) = w[x] + SumOf(Restrict(w, D \ {x}))
  BY <1>1, SumLaws
<1>3. Restrict(w, D \ {x}) \in [D \ {x} -> Nat] /\ IsFiniteSet(D \ {x})
  BY FS_RemoveElement DEF Restrict
<1>4. SumOf(Restrict(w, D \ {x})) \in Nat
  BY <1>3, SumOfNats
<1>5. QED
  BY <1>2, <1>4

\* Every payment of a sale that passes validate_total_deduction_bps is within one
\* unit of the exact amount, and so the total within one unit per recipient.
LEMMA TotalRoyaltyIs ==
    ASSUME NEW p \in Nat, p <= MAX_SAFE_SALE_PRICE, NEW D, IsFiniteSet(D),
           NEW shares \in [D -> Nat], NEW f \in Nat,
           validate_total_deduction_bps(SumOf(shares), f)
    PROVE  /\ SumOf(shares) \in Nat /\ SumOf(shares) <= Denominator /\ f <= Denominator
           /\ Amounts(p, shares) \in [D -> Nat] /\ total_royalty(p, shares) \in Nat
           /\ Denominator * total_royalty(p, shares) <= p * SumOf(shares)
           /\ p * SumOf(shares) <= Denominator * total_royalty(p, shares)
                                   + (Denominator - 1) * Cardinality(D)
<1> DEFINE paid == Amounts(p, shares)
<1>1. Denominator \in Nat \ {0}
  BY LimitsAreNumbers
<1>2. SumOf(shares) \in Nat /\ SumOf(shares) + f <= Denominator
  BY SumOfNats DEF validate_total_deduction_bps
<1>3. SumOf(shares) <= Denominator /\ f <= Denominator
  BY <1>1, <1>2
<1>4. ASSUME NEW i \in D
      PROVE  /\ shares[i] \in Nat /\ paid[i] \in Nat
             /\ Denominator * paid[i] <= p * shares[i]
             /\ p * shares[i] <= Denominator * paid[i] + (Denominator - 1)
  <2>1. shares[i] \in Nat /\ shares[i] <= Denominator
    BY <1>1, <1>2, <1>3, PartOfSum
  <2>2. paid[i] = (p * shares[i]) \div Denominator
    BY <2>1, AmountTruncates DEF Amounts
  <2>3. PICK n \in Nat : n = p * shares[i]
    BY <2>1
  <2>4. /\ n \div Denominator \in Nat
        /\ Denominator * (n \div Denominator) <= n
        /\ n < Denominator * (n \div Denominator) + Denominator
    BY <1>1, <2>3
  <2>5. QED
    BY <1>1, <2>1, <2>2, <2>3, <2>4
<1>5. paid \in [D -> Nat]
  BY <1>4 DEF Amounts
<1> HIDE DEF paid
<1>6. SumOf(paid) \in Nat
  BY <1>5, SumOfNats
<1>7. shares \in [D -> Int] /\ paid \in [D -> Int] /\ p \in Int /\ Denominator \in Int
      /\ 0 \in Int /\ Denominator - 1 \in Int /\ Cardinality(D) \in Nat
  BY <1>1, <1>5, FS_CardinalityType
<1>8. Denominator * SumOf(paid) <= p * SumOf(shares)
  <2> DEFINE z == 0
  <2>1. z \in Int /\ \A i \in D : Denominator * paid[i] <= p * shares[i] + z
    BY <1>1, <1>4, <1>5
  <2> HIDE DEF z
  <2>2. Denominator * SumOf(paid) <= p * SumOf(shares) + z * Cardinality(D)
    BY <1>7, <2>1, SumsCompare
  <2>3. p * SumOf(shares) \in Int
    BY <1>2
  <2>4. QED
    BY <1>7, <2>2, <2>3 DEF z
<1>9. p * SumOf(shares) <= Denominator * SumOf(paid) + (Denominator - 1) * Cardinality(D)
  <2>1. PICK c \in Int : c = Denominator - 1
    BY <1>7
  <2>2. \A i \in D : p * shares[i] <= Denominator * paid[i] + c
    BY <1>4, <2>1
  <2>3. p * SumOf(shares) <= Denominator * SumOf(paid) + c * Cardinality(D)
    BY <1>7, <2>2, SumsCompare
  <2>4. QED
    BY <2>1, <2>3
<1>10. QED
  BY <1>2, <1>3, <1>5, <1>6, <1>8, <1>9 DEF paid, total_royalty

\* A positive factor can be cancelled.
LEMMA CancelFactor ==
    ASSUME NEW a \in Int, NEW b \in Int, NEW d \in Nat \ {0}, d * a < d * b + d
    PROVE  a <= b
<1>1. SUFFICES ASSUME b + 1 <= a PROVE FALSE
  OBVIOUS
<1>2. (b + 1) * d <= a * d
  BY <1>1, TimesKeepsOrder
<1>3. (b + 1) * d = d * b + d /\ a * d = d * a /\ d * a \in Int /\ d * b \in Int
  OBVIOUS
<1>4. QED
  BY <1>2, <1>3

\* However many recipients share it, the royalty and the fee leave the seller
\* nothing less than nothing.
THEOREM DeductionsFit ==
    ASSUME NEW p \in Nat, p <= MAX_SAFE_SALE_PRICE, NEW D, IsFiniteSet(D),
           NEW shares \in [D -> Nat], NEW f \in Nat,
           validate_total_deduction_bps(SumOf(shares), f)
    PROVE  /\ safe_royalty_amount(p, f) \in Nat
           /\ total_royalty(p, shares) + safe_royalty_amount(p, f) <= p
<1> DEFINE paid == total_royalty(p, shares)
           fee == safe_royalty_amount(p, f)
           bps == SumOf(shares)
<1>1. /\ Denominator \in Nat \ {0} /\ bps \in Nat /\ bps + f <= Denominator
      /\ paid \in Nat /\ Denominator * paid <= p * bps /\ f <= Denominator
  BY TotalRoyaltyIs, LimitsAreNumbers DEF validate_total_deduction_bps
<1>2. fee \in Nat /\ Denominator * fee <= p * f
  <2>1. fee = (p * f) \div Denominator
    BY <1>1, AmountTruncates
  <2>2. PICK n \in Nat : n = p * f
    OBVIOUS
  <2>3. n \div Denominator \in Nat /\ Denominator * (n \div Denominator) <= n
    BY <1>1
  <2>4. QED
    BY <2>1, <2>2, <2>3
<1> HIDE DEF paid, fee, bps
<1>3. p * bps + p * f <= Denominator * p
  <2>1. (bps + f) * p <= Denominator * p
    BY <1>1, TimesKeepsOrder
  <2>2. (bps + f) * p = p * bps + p * f
    BY <1>1
  <2>3. QED
    BY <2>1, <2>2
<1>4. Denominator * (paid + fee) <= Denominator * p
  <2>1. Denominator * (paid + fee) = Denominator * paid + Denominator * fee
    BY <1>1, <1>2
  <2>2. /\ Denominator * paid \in Int /\ Denominator * fee \in Int
        /\ p * bps \in Int /\ p * f \in Int /\ Denominator * p \in Int
    BY <1>1, <1>2
  <2>3. QED
    BY <1>1, <1>2, <1>3, <2>1, <2>2
<1>5. paid + fee <= p
  <2>1. Denominator * p \in Int /\ Denominator * (paid + fee) \in Int
    BY <1>1, <1>2
  <2>2. Denominator * (paid + fee) < Denominator * p + Denominator
    BY <1>1, <1>4, <2>1
  <2>3. QED
    BY <1>1, <1>2, <2>2, CancelFactor
<1>6. QED
  BY <1>2, <1>5 DEF paid, fee

\* royalty_info previews at least what is paid, and less than one unit more for
\* each recipient.
THEOREM PreviewCovers ==
    ASSUME NEW p \in Nat, p <= MAX_SAFE_SALE_PRICE, NEW D, IsFiniteSet(D), D # {},
           NEW shares \in [D -> Nat], NEW f \in Nat,
           validate_total_deduction_bps(SumOf(shares), f)
    PROVE  /\ royalty_info(p, shares) \in Nat
           /\ total_royalty(p, shares) <= royalty_info(p, shares)
           /\ royalty_info(p, shares) < total_royalty(p, shares) + Cardinality(D)
<1> DEFINE paid == total_royalty(p, shares)
           shown == royalty_info(p, shares)
           bps == SumOf(shares)
           n == Cardinality(D)
<1>1. /\ Denominator \in Nat \ {0} /\ bps \in Nat /\ bps <= Denominator
      /\ paid \in Nat /\ Denominator * paid <= p * bps
      /\ p * bps <= Denominator * paid + (Denominator - 1) * n
  BY TotalRoyaltyIs, LimitsAreNumbers
<1>2. n \in Nat \ {0}
  BY FS_CardinalityType, FS_EmptySet
<1>3. shown \in Nat /\ Denominator * shown <= p * bps
      /\ p * bps < Denominator * shown + Denominator
  <2>1. shown = (p * bps) \div Denominator
    BY <1>1, AmountTruncates DEF royalty_info
  <2>2. PICK k \in Nat : k = p * bps
    BY <1>1
  <2>3. /\ k \div Denominator \in Nat /\ Denominator * (k \div Denominator) <= k
        /\ k < Denominator * (k \div Denominator) + Denominator
    BY <1>1
  <2> HIDE DEF bps, shown
  <2>4. QED
    BY <2>1, <2>2, <2>3
<1> HIDE DEF paid, shown, bps, n
<1>4. /\ p * bps \in Int /\ Denominator * paid \in Int /\ Denominator * shown \in Int
      /\ Denominator * n \in Int /\ (Denominator - 1) * n = Denominator * n - n
  BY <1>1, <1>2, <1>3
<1>5. paid <= shown
  <2>1. Denominator * paid < Denominator * shown + Denominator
    BY <1>1, <1>3, <1>4
  <2>2. QED
    BY <1>1, <1>3, <2>1, CancelFactor
<1>6. shown <= paid + n - 1
  <2>1. Denominator * (paid + n - 1) = Denominator * paid + Denominator * n - Denominator
    BY <1>1, <1>2
  <2>2. Denominator * shown < Denominator * (paid + n - 1) + Denominator
    BY <1>1, <1>2, <1>3, <1>4, <2>1
  <2>3. QED
    BY <1>1, <1>2, <1>3, <2>2, CancelFactor
<1>7. QED
  BY <1>1, <1>2, <1>3, <1>5, <1>6 DEF paid, shown, n
=============================================================================
