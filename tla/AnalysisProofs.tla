--------------------------- MODULE AnalysisProofs ---------------------------
(***************************************************************************)
(* What is proved of the figures that the warehouse computes, for any      *)
(* samples, texts, books, windows and thresholds:                          *)
(*   - a price is read back as it was displayed, and alike by both parsers;*)
(*   - the depth of a book agrees with its port and with its spread;       *)
(*   - a verdict on a row is final, since it rests only on rows that come  *)
(*     before it in its own group, and a jump beyond the range of its      *)
(*     window is found;                                                    *)
(*   - rates under a date hold on it, and a price is compared with the     *)
(*     dollar price of its own pass.                                       *)
(* The facts about folds and sums that these rest on come first.           *)
(***************************************************************************)
EXTENDS Anomaly, FxRates, FxPoll, Money, Depth, FiniteSetTheorems, TLAPS

-----------------------------------------------------------------------------
(* What the proofs below rest on: induction over numbers and over finite   *)
(* sets, by the least element that fails, and what it gives of folds and   *)
(* sums. The operators that a fold chooses with are functions here, and    *)
(* what a lemma asks of its functions has a name, for the lemma to be      *)
(* cited by.                                                               *)

LEMMA LeastNatural ==
  ASSUME NEW T, T \subseteq Nat, T # {}
  PROVE  \E x \in T : \A y \in T : x <= y
<1> DEFINE less == OpToRel(<, Nat)
<1>1. IsWellFoundedOn(less, Nat)
  BY NatLessThanWellFounded
<1>2. \E x \in T : \A y \in T : ~(<<y, x>> \in less)
  <2> HIDE DEF less
  <2> QED BY <1>1, WFMin
<1>3. \A x, y \in Nat : y < x => <<y, x>> \in less
  BY DEF OpToRel
<1> HIDE DEF less
<1>4. PICK x \in T : \A y \in T : ~(<<y, x>> \in less)
  BY <1>2
<1>5. \A y \in T : x <= y
  <2> TAKE y \in T
  <2>1. x \in Nat /\ y \in Nat OBVIOUS
  <2>2. ~(y < x) BY <1>3, <1>4, <2>1
  <2> QED BY <2>1, <2>2
<1> QED
  BY <1>5

LEMMA ByCounting ==
  ASSUME NEW n \in Nat, NEW Good, 0 \in Good,
         \A k \in 0..n - 1 : k \in Good => k + 1 \in Good
  PROVE  \A k \in 0..n : k \in Good
<1> DEFINE Bad == (0..n) \ Good
<1> SUFFICES ASSUME Bad # {} PROVE FALSE
  OBVIOUS
<1>1. PICK k \in Bad : \A j \in Bad : k <= j
  <2>1. Bad \subseteq Nat
    OBVIOUS
  <2> HIDE DEF Bad
  <2> QED BY <2>1, LeastNatural
<1>2. k \in 0..n /\ k \notin Good /\ k # 0
  OBVIOUS
<1>3. k - 1 \in 0..n - 1 /\ k - 1 \notin Bad
  BY <1>1, <1>2
<1>4. (k - 1) + 1 \in Good
  BY <1>3
<1> QED
  BY <1>2, <1>4

LEMMA Greatest ==
  ASSUME NEW S, IsFiniteSet(S), S # {}, NEW f, \A x \in S : f[x] \in Int
  PROVE  \E x \in S : \A y \in S : f[y] <= f[x]
<1>0. PICK n \in Nat : ExistsSurjection(1..n, S)
  BY FS_NatSurjection
<1>1. PICK e : e \in Surjection(1..n, S)
  BY <1>0 DEF ExistsSurjection
<1>2. (\A i \in 1..n : e[i] \in S) /\ (\A x \in S : \E i \in 1..n : e[i] = x)
  BY <1>1 DEF Surjection
<1> DEFINE Peak(k) == \E i \in 1..k : \A j \in 1..k : f[e[j]] <= f[e[i]]
<1>3. n > 0 /\ Peak(1)
  <2>1. n > 0
    BY <1>2
  <2>2. f[e[1]] \in Int
    BY <1>2, <2>1
  <2>3. \A j \in 1..1 : f[e[j]] <= f[e[1]]
    BY <2>2
  <2> QED BY <2>1, <2>3
<1>4. ASSUME NEW k \in 1..n - 1, Peak(k)
      PROVE  Peak(k + 1)
  <2>1. PICK i \in 1..k : \A j \in 1..k : f[e[j]] <= f[e[i]]
    BY <1>4
  <2>2. \A j \in 1..k + 1 : f[e[j]] \in Int
    BY <1>2
  <2>3. CASE f[e[k + 1]] <= f[e[i]]
    <3>1. \A j \in 1..k + 1 : f[e[j]] <= f[e[i]]
      BY <2>1, <2>3
    <3> QED BY <3>1
  <2>4. CASE f[e[i]] < f[e[k + 1]]
    <3>1. \A j \in 1..k + 1 : f[e[j]] <= f[e[k + 1]]
      <4> TAKE j \in 1..k + 1
      <4>1. f[e[j]] \in Int /\ f[e[i]] \in Int /\ f[e[k + 1]] \in Int
        BY <2>2
      <4>2. j = k + 1 \/ j \in 1..k
        OBVIOUS
      <4> QED BY <2>1, <2>4, <4>1, <4>2
    <3> QED BY <3>1
  <2>5. f[e[i]] \in Int /\ f[e[k + 1]] \in Int
    BY <2>2
  <2> QED BY <2>3, <2>4, <2>5
<1> DEFINE flat == {k \in 1..n : ~Peak(k)}
<1> HIDE DEF Peak
<1>5. flat = {}
  <2> SUFFICES ASSUME flat # {} PROVE FALSE
    OBVIOUS
  <2>1. PICK k \in flat : \A j \in flat : k <= j
    <3>1. flat \subseteq Nat OBVIOUS
    <3> HIDE DEF flat
    <3> QED BY <3>1, LeastNatural
  <2>2. k # 1
    BY <1>3
  <2>3. k - 1 \in 1..n - 1 /\ ~(k - 1 \in flat)
    BY <2>1, <2>2
  <2>4. Peak(k - 1)
    BY <2>3
  <2>5. Peak((k - 1) + 1)
    BY <1>4, <2>3, <2>4
  <2>6. (k - 1) + 1 = k
    OBVIOUS
  <2> QED BY <2>5, <2>6
<1>6. Peak(n)
  BY <1>3, <1>5
<1> QED BY <1>2, <1>6 DEF Peak

LEMMA Least ==
  ASSUME NEW S, IsFiniteSet(S), S # {}, NEW f, \A x \in S : f[x] \in Int
  PROVE  \E x \in S : \A y \in S : f[x] <= f[y]
<1> DEFINE g == [x \in S |-> - f[x]]
<1>1. \A x \in S : g[x] \in Int
  OBVIOUS
<1>2. PICK x \in S : \A y \in S : g[y] <= g[x]
  <2> HIDE DEF g
  <2> QED BY <1>1, Greatest
<1>3. ASSUME NEW y \in S PROVE f[x] <= f[y]
  <2>1. - f[y] <= - f[x]
    BY <1>2
  <2>2. f[x] \in Int /\ f[y] \in Int
    OBVIOUS
  <2> QED BY <2>1, <2>2
<1> QED BY <1>3

(* c picks an element of every subset of S.                                *)
Chooses(c, S) == \A s \in SUBSET S : s # {} => c[s] \in s

LEMMA ByRemoving ==
  ASSUME NEW S, IsFiniteSet(S), NEW c, Chooses(c, S), NEW Good, {} \in Good,
         \A s \in SUBSET S : s # {} /\ s \ {c[s]} \in Good => s \in Good
  PROVE  \A s \in SUBSET S : s \in Good
<1> DEFINE sizes == {k \in Nat : \A s \in SUBSET S : Cardinality(s) = k => s \in Good}
<1>1. \A s \in SUBSET S : IsFiniteSet(s) /\ Cardinality(s) \in 0..Cardinality(S)
  BY FS_Subset, FS_CardinalityType
<1>2. 0 \in sizes
  BY <1>1, FS_EmptySet
<1>3. ASSUME NEW k \in Nat, k \in sizes
      PROVE  k + 1 \in sizes
  <2> SUFFICES ASSUME NEW s \in SUBSET S, Cardinality(s) = k + 1
               PROVE  s \in Good
    OBVIOUS
  <2>1. IsFiniteSet(s) /\ s # {}
    BY <1>1, FS_EmptySet
  <2>2. c[s] \in s
    BY <2>1 DEF Chooses
  <2>3. Cardinality(s \ {c[s]}) = Cardinality(s) - 1
    BY <2>1, <2>2, FS_RemoveElement
  <2>4. s \ {c[s]} \in Good
    BY <1>3, <2>3
  <2> QED
    BY <2>1, <2>4
<1> HIDE DEF sizes
<1>4. Cardinality(S) \in Nat
  BY FS_CardinalityType
<1>5. \A k \in 0..Cardinality(S) : k \in sizes
  BY <1>2, <1>3, <1>4, ByCounting
<1> QED
  BY <1>1, <1>5 DEF sizes

(* g folds step over the subsets of S, in the order in which c picks.      *)
IsFold(g, step, base, c, S) ==
  \A s \in SUBSET S : g[s] = IF s = {} THEN base ELSE step[<<c[s], g[s \ {c[s]}]>>]

LEMMA FoldExists ==
  ASSUME NEW S, IsFiniteSet(S), NEW c, Chooses(c, S),
         NEW V, NEW base \in V, NEW step \in [S \X V -> V]
  PROVE  \E g \in [SUBSET S -> V] : IsFold(g, step, base, c, S)
<1> DEFINE Small(k) == {s \in SUBSET S : Cardinality(s) <= k}
           Folds(g, k) == /\ g \in [Small(k) -> V]
                          /\ \A s \in Small(k) :
                               g[s] = IF s = {} THEN base ELSE step[<<c[s], g[s \ {c[s]}]>>]
           sizes == {k \in Nat : \E g : Folds(g, k)}
<1>1. /\ \A s \in SUBSET S : IsFiniteSet(s) /\ Cardinality(s) \in Nat
                             /\ Cardinality(s) <= Cardinality(S)
      /\ Cardinality(S) \in Nat
  BY FS_Subset, FS_CardinalityType
<1>2. 0 \in sizes
  <2> DEFINE g0 == [s \in Small(0) |-> base]
  <2>1. \A s \in Small(0) : s = {}
    BY <1>1, FS_EmptySet
  <2>2. Folds(g0, 0)
    BY <2>1
  <2> QED
    BY <2>2
<1>3. ASSUME NEW k \in Nat, k \in sizes
      PROVE  k + 1 \in sizes
  <2>1. PICK g : Folds(g, k)
    BY <1>3
  <2> DEFINE h == [s \in Small(k + 1) |-> IF s = {} THEN base ELSE step[<<c[s], g[s \ {c[s]}]>>]]
  <2>2. \A s \in Small(k + 1) : s # {} => c[s] \in S /\ s \ {c[s]} \in Small(k)
    <3> TAKE s \in Small(k + 1)
    <3> HAVE s # {}
    <3>1. c[s] \in s
      BY DEF Chooses
    <3>2. Cardinality(s \ {c[s]}) = Cardinality(s) - 1
      BY <1>1, <3>1, FS_RemoveElement
    <3> QED
      BY <1>1, <3>1, <3>2
  <2>3. \A s \in Small(k) : s \in Small(k + 1) /\ h[s] = g[s]
    <3>1. Small(k) \subseteq Small(k + 1)
      BY <1>1
    <3> HIDE DEF Small
    <3> QED
      BY <2>1, <3>1
  <2>4. \A s \in Small(k + 1) : g[s \ {c[s]}] \in V \/ s = {}
    <3> HIDE DEF Small
    <3> QED
      BY <2>1, <2>2
  <2>5. h \in [Small(k + 1) -> V]
    <3> HIDE DEF Small
    <3>1. \A s \in Small(k + 1) : s # {} => step[<<c[s], g[s \ {c[s]}]>>] \in V
      BY <2>2, <2>4
    <3> QED
      BY <3>1
  <2>6. \A s \in Small(k + 1) : s # {} => h[s \ {c[s]}] = g[s \ {c[s]}]
    <3> HIDE DEF Small, h
    <3> QED
      BY <2>2, <2>3
  <2>7. Folds(h, k + 1)
    <3> HIDE DEF Small
    <3> QED
      BY <2>5, <2>6
  <2> HIDE DEF Folds
  <2> QED
    BY <2>7
<1>4. Cardinality(S) \in sizes
  <2> HIDE DEF sizes
  <2> QED
    BY <1>1, <1>2, <1>3, ByCounting
<1>5. PICK g : Folds(g, Cardinality(S))
  BY <1>4
<1>6. Small(Cardinality(S)) = SUBSET S
  BY <1>1
<1> HIDE DEF Small
<1> QED
  BY <1>5, <1>6 DEF IsFold

(* What a sum is made of: on a set, one element more than on the set       *)
(* without it.                                                             *)
Choice(S) == [s \in SUBSET S |-> CHOOSE x \in s : TRUE]

SumsOf(G, f, S) ==
  /\ G[S] = SumFunctionOnSet(f, S) /\ G[{}] = 0
  /\ \A s \in SUBSET S : G[s] \in Int
  /\ \A s \in SUBSET S : s # {} => G[s] = f[Choice(S)[s]] + G[s \ {Choice(S)[s]}]

LEMMA ChoiceChooses == \A S : Chooses(Choice(S), S)
BY DEF Chooses, Choice

LEMMA SumUnfolds ==
  ASSUME NEW S, IsFiniteSet(S), NEW f, \A x \in S : f[x] \in Int
  PROVE  \E G : SumsOf(G, f, S)
<1> DEFINE Sums(g) == g = [s \in SUBSET S |-> IF s = {} THEN 0 ELSE LET x == CHOOSE x \in s : TRUE IN f[x] + g[s \ {x}]]
           G == CHOOSE g : Sums(g)
           c == Choice(S)
<1>1. SumFunctionOnSet(f, S) = G[S]
  BY DEF SumFunctionOnSet, FoldFunctionOnSet, MapThenFoldSet
<1>2. Chooses(c, S) /\ \A s \in SUBSET S : s # {} => c[s] \in s
  BY ChoiceChooses DEF Chooses
<1>3. \E g : Sums(g)
  <2> DEFINE step == [p \in S \X Int |-> f[p[1]] + p[2]]
  <2>1. step \in [S \X Int -> Int]
    OBVIOUS
  <2>2. PICK g \in [SUBSET S -> Int] : IsFold(g, step, 0, c, S)
    <3>1. PICK Z : Z = Int
      OBVIOUS
    <3>2. 0 \in Z /\ step \in [S \X Z -> Z]
      BY <2>1, <3>1
    <3> HIDE DEF step, c
    <3>3. \E g \in [SUBSET S -> Z] : IsFold(g, step, 0, c, S)
      BY <1>2, <3>2, FoldExists
    <3> QED
      BY <3>1, <3>3
  <2>3. ASSUME NEW s \in SUBSET S, s # {}
        PROVE  g[s] = f[c[s]] + g[s \ {c[s]}]
    <3>1. c[s] \in S /\ g[s \ {c[s]}] \in Int
      BY <1>2, <2>2, <2>3
    <3> HIDE DEF c
    <3> QED
      BY <2>2, <2>3, <3>1 DEF IsFold
  <2>4. Sums(g)
    BY <2>2, <2>3 DEF IsFold, Choice
  <2> QED
    BY <2>4
<1>4. Sums(G)
  <2> HIDE DEF Sums
  <2> QED
    BY <1>3
<1> HIDE DEF G
<1>5. G[{}] = 0 /\ \A s \in SUBSET S : s # {} => G[s] = f[c[s]] + G[s \ {c[s]}]
  BY <1>4 DEF Choice
<1> DEFINE Good == {s \in SUBSET S : G[s] \in Int}
<1>6. \A s \in SUBSET S : s \in Good
  <2>1. {} \in Good
    BY <1>5
  <2>2. ASSUME NEW s \in SUBSET S, s # {}, s \ {c[s]} \in Good
        PROVE  s \in Good
    <3>1. f[c[s]] \in Int
      BY <1>2, <2>2
    <3> HIDE DEF c
    <3>2. G[s \ {c[s]}] \in Int
      BY <2>2
    <3>3. G[s] = f[c[s]] + G[s \ {c[s]}]
      BY <1>5, <2>2
    <3> QED
      BY <3>1, <3>2, <3>3
  <2> HIDE DEF Good, c
  <2> QED
    BY <1>2, <2>1, <2>2, ByRemoving
<1> QED
  BY <1>1, <1>5, <1>6 DEF SumsOf

(* A sum is linear.                                                        *)
Combines(h, a, f, b, g, d, S) ==
  \A x \in S : f[x] \in Int /\ g[x] \in Int /\ h[x] = a * f[x] + b * g[x] + d

LEMMA SumIsLinear ==
  ASSUME NEW S, IsFiniteSet(S), NEW f, NEW g, NEW h,
         NEW a \in Int, NEW b \in Int, NEW d \in Int, Combines(h, a, f, b, g, d, S)
  PROVE  SumFunctionOnSet(h, S)
           = a * SumFunctionOnSet(f, S) + b * SumFunctionOnSet(g, S) + d * Cardinality(S)
<1>1. \A x \in S : f[x] \in Int /\ g[x] \in Int /\ h[x] \in Int
  BY DEF Combines
<1>2. PICK F : SumsOf(F, f, S)
  BY <1>1, SumUnfolds
<1>3. PICK G : SumsOf(G, g, S)
  BY <1>1, SumUnfolds
<1>4. PICK H : SumsOf(H, h, S)
  BY <1>1, SumUnfolds
<1> DEFINE c == Choice(S)
<1>5. Chooses(c, S)
  BY ChoiceChooses
<1> HIDE DEF c
<1> DEFINE Good == {s \in SUBSET S : H[s] = a * F[s] + b * G[s] + d * Cardinality(s)}
<1>6. {} \in Good
  BY <1>2, <1>3, <1>4, FS_EmptySet DEF SumsOf
<1>7. ASSUME NEW s \in SUBSET S, s # {}, s \ {c[s]} \in Good
      PROVE  s \in Good
  <2> DEFINE t == s \ {c[s]}
             k == Cardinality(t)
             x == c[s]
  <2>1. x \in s /\ x \in S
    BY <1>5, <1>7 DEF Chooses
  <2>2. IsFiniteSet(s) /\ Cardinality(s) \in Nat /\ k \in Nat /\ Cardinality(s) = k + 1
    <3>1. IsFiniteSet(s)
      BY FS_Subset
    <3>2. Cardinality(s) \in Nat /\ IsFiniteSet(t)
      BY <3>1, FS_CardinalityType, FS_RemoveElement
    <3>3. Cardinality(t) = Cardinality(s) - 1 /\ Cardinality(t) \in Nat
      BY <2>1, <3>1, <3>2, FS_RemoveElement, FS_CardinalityType
    <3> QED BY <3>1, <3>2, <3>3
  <2>3. /\ F[s] = f[x] + F[t] /\ F[t] \in Int
        /\ G[s] = g[x] + G[t] /\ G[t] \in Int
        /\ H[s] = h[x] + H[t] /\ H[t] \in Int
    <3>1. F[s] = f[x] + F[t] /\ F[t] \in Int
      BY <1>2, <1>7 DEF SumsOf, c
    <3>2. G[s] = g[x] + G[t] /\ G[t] \in Int
      BY <1>3, <1>7 DEF SumsOf, c
    <3>3. H[s] = h[x] + H[t] /\ H[t] \in Int
      BY <1>4, <1>7 DEF SumsOf, c
    <3> QED
      BY <3>1, <3>2, <3>3
  <2>4. H[t] = a * F[t] + b * G[t] + d * k
    BY <1>7
  <2>5. f[x] \in Int /\ g[x] \in Int /\ h[x] = a * f[x] + b * g[x] + d
    BY <2>1 DEF Combines
  <2> HIDE DEF t, k, x
  <2>6. /\ a * F[s] = a * f[x] + a * F[t] /\ b * G[s] = b * g[x] + b * G[t]
        /\ d * (k + 1) = d * k + d
    BY <2>2, <2>3, <2>5
  <2>7. H[s] = a * F[s] + b * G[s] + d * (k + 1)
    <3> DEFINE u == a * f[x]
               v == a * F[t]
               w == b * g[x]
               y == b * G[t]
               z == d * k
    <3>1. u \in Int /\ v \in Int /\ w \in Int /\ y \in Int /\ z \in Int
      BY <2>2, <2>3, <2>5
    <3>2. H[s] = (u + w + d) + (v + y + z)
      BY <2>3, <2>4, <2>5
    <3>3. a * F[s] = u + v /\ b * G[s] = w + y /\ d * (k + 1) = z + d
      BY <2>6
    <3> HIDE DEF u, v, w, y, z
    <3> QED
      BY <3>1, <3>2, <3>3
  <2> QED
    BY <2>2, <2>7
<1>8. \A s \in SUBSET S : s \in Good
  <2> HIDE DEF Good
  <2> QED
    BY <1>5, <1>6, <1>7, ByRemoving
<1>9. H[S] = a * F[S] + b * G[S] + d * Cardinality(S)
  BY <1>8
<1> QED
  BY <1>2, <1>3, <1>4, <1>9 DEF SumsOf

(* A sum of natural numbers is not below any of them.                      *)
LEMMA SumDominates ==
  ASSUME NEW S, IsFiniteSet(S), NEW f, \A x \in S : f[x] \in Nat
  PROVE  /\ SumFunctionOnSet(f, S) \in Nat
         /\ \A x \in S : f[x] <= SumFunctionOnSet(f, S)
<1>1. PICK F : SumsOf(F, f, S)
  BY SumUnfolds
<1> DEFINE c == Choice(S)
<1>2. Chooses(c, S)
  BY ChoiceChooses
<1> HIDE DEF c
<1> DEFINE Good == {s \in SUBSET S : F[s] \in Nat /\ \A x \in s : f[x] <= F[s]}
<1>3. {} \in Good
  BY <1>1 DEF SumsOf
<1>4. ASSUME NEW s \in SUBSET S, s # {}, s \ {c[s]} \in Good
      PROVE  s \in Good
  <2> DEFINE t == s \ {c[s]}
             x == c[s]
  <2>1. x \in s /\ f[x] \in Nat
    BY <1>2, <1>4 DEF Chooses
  <2>2. F[s] = f[x] + F[t]
    BY <1>1, <1>4 DEF SumsOf, c
  <2>3. F[t] \in Nat /\ \A y \in t : f[y] <= F[t]
    BY <1>4
  <2>4. \A y \in s : y = x \/ y \in t
    OBVIOUS
  <2> HIDE DEF t, x
  <2>5. ASSUME NEW y \in s PROVE f[y] <= F[s]
    <3>1. f[y] \in Nat
      OBVIOUS
    <3> QED
      BY <2>1, <2>2, <2>3, <2>4, <3>1
  <2> QED
    BY <2>1, <2>2, <2>3, <2>5
<1>5. \A s \in SUBSET S : s \in Good
  <2> HIDE DEF Good
  <2> QED
    BY <1>2, <1>3, <1>4, ByRemoving
<1> QED
  BY <1>1, <1>5 DEF SumsOf

LEMMA SumOfNone ==
  ASSUME NEW f, DOMAIN f = {}
  PROVE  SumFunction(f) = 0
<1> DEFINE Sums(g) == g = [s \in SUBSET {} |-> IF s = {} THEN 0 ELSE LET x == CHOOSE x \in s : TRUE IN f[x] + g[s \ {x}]]
<1> DEFINE iter == CHOOSE g : Sums(g)
<1>1. SumFunction(f) = iter[{}]
  BY DEF SumFunction, SumFunctionOnSet, FoldFunctionOnSet, MapThenFoldSet
<1>2. \E g : Sums(g)
  <2> DEFINE g0 == [s \in SUBSET {} |-> 0]
  <2>1. \A s \in SUBSET {} : s = {}
    OBVIOUS
  <2>2. Sums(g0)
    BY <2>1
  <2> QED BY <2>2
<1>3. Sums(iter)
  <2> HIDE DEF Sums
  <2> QED BY <1>2
<1>4. iter[{}] = 0
  <2> HIDE DEF iter
  <2> QED BY <1>3
<1> QED BY <1>1, <1>4

-----------------------------------------------------------------------------
(* Prices and volumes. A text is read from left to right: what has been    *)
(* kept of it, and the number that its digits stand for, after each        *)
(* character.                                                              *)

LEMMA Characters ==
  /\ Comma # Point /\ Comma # Space /\ Comma # Sign /\ Comma # None
  /\ Point # Space /\ Point # Sign /\ Point # None
  /\ Space # Sign /\ Space # None /\ Sign # None
  /\ Comma \notin Digits /\ Point \notin Digits /\ Space \notin Digits
  /\ Sign \notin Digits /\ None \notin Digits
<1> DEFINE c == <<Comma, Point, Space, Sign, None>>
<1>1. IsInjective(c) /\ \A i \in 1..5 : i \in DOMAIN c
  BY MoneyAssumption
<1>2. \A i, j \in 1..5 : c[i] = c[j] => i = j
  <2> HIDE DEF c
  <2> QED BY <1>1 DEF IsInjective
<1>3. c[1] = Comma /\ c[2] = Point /\ c[3] = Space /\ c[4] = Sign /\ c[5] = None
  OBVIOUS
<1>4. \A x \in {Comma, Point, Space, Sign, None} : x \notin Digits
  BY MoneyAssumption
<1> HIDE DEF c
<1> QED BY <1>2, <1>3, <1>4

LEMMA TextDigitsAre == TextDigits \subseteq Digits /\ Amounts \subseteq Nat
BY MoneyAssumption

(* Folds over a sequence take the last position out first.                 *)
Highest(n) == [s \in SUBSET (1..n) |-> Max(s)]

LEMMA HighestChooses ==
  ASSUME NEW n \in Nat
  PROVE  Chooses(Highest(n), 1..n) /\ \A k \in 1..n : Highest(n)[1..k] = k
<1>1. ASSUME NEW s \in SUBSET (1..n), s # {}
      PROVE  Max(s) \in s
  <2> DEFINE f == [x \in s |-> x]
  <2>1. IsFiniteSet(s)
    <3>1. IsFiniteSet(1..n)
      BY FS_Interval
    <3> QED BY <3>1, FS_Subset
  <2>2. \A x \in s : f[x] = x /\ f[x] \in Int
    OBVIOUS
  <2> HIDE DEF f
  <2>3. PICK x \in s : \A y \in s : f[y] <= f[x]
    BY <1>1, <2>1, <2>2, Greatest
  <2>4. \A y \in s : x >= y
    BY <2>2, <2>3
  <2> QED
    BY <2>4 DEF Max
<1>2. ASSUME NEW k \in 1..n
      PROVE  Max(1..k) = k
  <2>1. \A x \in 1..k : (\A y \in 1..k : x >= y) => x = k
    OBVIOUS
  <2>2. k \in 1..k /\ \A y \in 1..k : k >= y
    OBVIOUS
  <2> QED
    BY <2>1, <2>2 DEF Max
<1>3. \A k \in 1..n : 1..k \in SUBSET (1..n)
  OBVIOUS
<1> QED
  BY <1>1, <1>2, <1>3 DEF Highest, Chooses

(* K holds what is kept of the first k characters of a text.               *)
KeepsUpTo(K, text, A) ==
  /\ K[0] = <<>> /\ K[Len(text)] = Keep(text, A)
  /\ \A k \in 1..Len(text) :
       K[k] = IF text[k] \in A THEN Append(K[k - 1], text[k]) ELSE K[k - 1]

LEMMA KeepUnfolds ==
  ASSUME NEW T, NEW text \in Seq(T), NEW A
  PROVE  \E K : KeepsUpTo(K, text, A)
<1> DEFINE n == Len(text)
           S == 1..n
           Folds(g) == g = [s \in SUBSET S |->
                              IF s = {} THEN <<>>
                              ELSE LET x == Max(s) IN
                                   IF text[x] \in A THEN Append(g[s \ {x}], text[x]) ELSE g[s \ {x}]]
           G == CHOOSE g : Folds(g)
           c == Highest(n)
           K == [k \in 0..n |-> G[1..k]]
<1>1. n \in Nat /\ DOMAIN text = S /\ IsFiniteSet(S)
  BY FS_Interval
<1>2. Keep(text, A) = G[S]
  BY <1>1 DEF Keep, FoldLeft, MapThenFoldSet
<1>3. Chooses(c, S) /\ (\A k \in 1..n : c[1..k] = k) /\ \A s \in SUBSET S : c[s] = Max(s)
  BY <1>1, HighestChooses DEF Highest
<1>4. \E g : Folds(g)
  <2> DEFINE step == [p \in S \X Seq(T) |->
                        IF text[p[1]] \in A THEN Append(p[2], text[p[1]]) ELSE p[2]]
  <2>1. step \in [S \X Seq(T) -> Seq(T)]
    <3>1. \A i \in S : text[i] \in T
      BY <1>1
    <3>2. \A i \in S, u \in Seq(T) : Append(u, text[i]) \in Seq(T)
      BY <3>1
    <3> QED
      BY <3>2
  <2>2. <<>> \in Seq(T)
    OBVIOUS
  <2>3. PICK g \in [SUBSET S -> Seq(T)] : IsFold(g, step, <<>>, c, S)
    <3> HIDE DEF step, c, S
    <3> QED
      BY <1>1, <1>3, <2>1, <2>2, FoldExists
  <2>4. ASSUME NEW s \in SUBSET S, s # {}
        PROVE  g[s] = IF text[c[s]] \in A THEN Append(g[s \ {c[s]}], text[c[s]]) ELSE g[s \ {c[s]}]
    <3>1. c[s] \in S /\ g[s \ {c[s]}] \in Seq(T)
      BY <1>3, <2>3, <2>4 DEF Chooses
    <3> HIDE DEF c
    <3> QED
      BY <2>3, <2>4, <3>1 DEF IsFold
  <2>5. g[{}] = <<>>
    BY <2>3 DEF IsFold
  <2>6. Folds(g)
    <3> HIDE DEF c, S, step
    <3> QED
      BY <1>3, <2>3, <2>4, <2>5
  <2> QED
    BY <2>6
<1>5. Folds(G)
  <2> HIDE DEF Folds
  <2> QED
    BY <1>4
<1> HIDE DEF G
<1>6. G[{}] = <<>>
  BY <1>5
<1>7. ASSUME NEW k \in 1..n
      PROVE  G[1..k] = IF text[k] \in A THEN Append(G[1..k - 1], text[k]) ELSE G[1..k - 1]
  <2>1. 1..k \in SUBSET S /\ 1..k # {} /\ (1..k) \ {k} = 1..k - 1
    <3>1. k \in Nat /\ k >= 1 /\ k <= n
      BY <1>1
    <3>2. \A i \in 1..k : i \in S
      BY <1>1, <3>1
    <3>3. (1..k) \ {k} = 1..k - 1
      BY <3>1
    <3>4. k \in 1..k
      BY <3>1
    <3> HIDE DEF S
    <3> QED
      BY <3>2, <3>3, <3>4
  <2>2. Max(1..k) = k
    BY <1>3, <2>1
  <2>3. G[1..k] = IF text[k] \in A THEN Append(G[(1..k) \ {k}], text[k]) ELSE G[(1..k) \ {k}]
    BY <1>5, <2>1, <2>2
  <2> QED
    BY <2>1, <2>3
<1>8. K[0] = <<>> /\ K[n] = Keep(text, A)
  <2>1. 1..0 = {}
    OBVIOUS
  <2> QED
    BY <1>1, <1>2, <1>6, <2>1
<1>9. \A k \in 1..n : K[k] = G[1..k] /\ K[k - 1] = G[1..k - 1]
  BY <1>1
<1> HIDE DEF K
<1>10. KeepsUpTo(K, text, A)
  BY <1>7, <1>8, <1>9 DEF KeepsUpTo
<1> QED
  BY <1>10

LEMMA KeptAre ==
  ASSUME NEW T, NEW text \in Seq(T), NEW A, NEW B, T \cap A \subseteq B
  PROVE  Keep(text, A) \in Seq(B)
<1> DEFINE n == Len(text)
<1>0. n \in Nat /\ \A k \in 1..n : text[k] \in T
  OBVIOUS
<1>1. PICK K : KeepsUpTo(K, text, A)
  BY KeepUnfolds
<1> DEFINE Good == {k \in 0..n : K[k] \in Seq(B)}
<1>2. 0 \in Good
  <2>1. 0 \in 0..n /\ K[0] = <<>>
    BY <1>0, <1>1 DEF KeepsUpTo
  <2>2. <<>> \in Seq(B)
    OBVIOUS
  <2> HIDE DEF n
  <2> QED
    BY <2>1, <2>2
<1>3. ASSUME NEW k \in 0..n - 1, k \in Good
      PROVE  k + 1 \in Good
  <2>1. k + 1 \in 1..n /\ (k + 1) - 1 = k /\ K[k] \in Seq(B)
    BY <1>3
  <2>2. K[k + 1] = IF text[k + 1] \in A THEN Append(K[k], text[k + 1]) ELSE K[k]
    BY <1>1, <2>1 DEF KeepsUpTo
  <2>3. text[k + 1] \in T
    BY <1>0, <2>1
  <2>4. text[k + 1] \in A => Append(K[k], text[k + 1]) \in Seq(B)
    BY <2>1, <2>3
  <2>5. K[k + 1] \in Seq(B) /\ k + 1 \in 0..n
    BY <1>0, <2>1, <2>2, <2>4
  <2> HIDE DEF n
  <2> QED
    BY <2>5
<1> HIDE DEF Good, n
<1>5. n \in Good
  <2>1. \A k \in 0..n : k \in Good
    BY <1>0, <1>2, <1>3, ByCounting
  <2> QED
    BY <1>0, <2>1
<1> QED
  BY <1>1, <1>5 DEF KeepsUpTo, Good, n

LEMMA KeptAlike ==
  ASSUME NEW T, NEW text \in Seq(T), NEW A, NEW B, \A x \in T : x \in A <=> x \in B
  PROVE  Keep(text, A) = Keep(text, B)
<1> DEFINE n == Len(text)
<1>0. n \in Nat /\ \A k \in 1..n : text[k] \in T
  OBVIOUS
<1>1. PICK K : KeepsUpTo(K, text, A)
  BY KeepUnfolds
<1>2. PICK L : KeepsUpTo(L, text, B)
  BY KeepUnfolds
<1> DEFINE Good == {k \in 0..n : K[k] = L[k]}
<1>3. 0 \in Good
  BY <1>1, <1>2 DEF KeepsUpTo
<1>4. ASSUME NEW k \in 0..n - 1, k \in Good
      PROVE  k + 1 \in Good
  <2>1. k + 1 \in 1..n /\ (k + 1) - 1 = k /\ K[k] = L[k]
    BY <1>4
  <2>2. K[k + 1] = IF text[k + 1] \in A THEN Append(K[k], text[k + 1]) ELSE K[k]
    BY <1>1, <2>1 DEF KeepsUpTo
  <2>3. L[k + 1] = IF text[k + 1] \in B THEN Append(L[k], text[k + 1]) ELSE L[k]
    BY <1>2, <2>1 DEF KeepsUpTo
  <2>4. text[k + 1] \in T
    BY <2>1
  <2> QED
    BY <2>1, <2>2, <2>3, <2>4
<1> HIDE DEF Good, n
<1>6. n \in Good
  <2>1. \A k \in 0..n : k \in Good
    BY <1>0, <1>3, <1>4, ByCounting
  <2> QED
    BY <1>0, <2>1
<1> QED
  BY <1>1, <1>2, <1>6 DEF KeepsUpTo, Good, n

LEMMA KeptWhole ==
  ASSUME NEW T, NEW text \in Seq(T), NEW A, \A i \in DOMAIN text : text[i] \in A
  PROVE  Keep(text, A) = text
<1> DEFINE n == Len(text)
<1>0. n \in Nat /\ \A k \in 1..n : text[k] \in T /\ text[k] \in A
  OBVIOUS
<1>1. PICK K : KeepsUpTo(K, text, A)
  BY KeepUnfolds
<1> DEFINE Good == {k \in 0..n : K[k] = SubSeq(text, 1, k)}
<1>2. 0 \in Good
  <2>1. 0 \in 0..n /\ K[0] = <<>>
    BY <1>0, <1>1 DEF KeepsUpTo
  <2>2. SubSeq(text, 1, 0) = <<>>
    OBVIOUS
  <2> HIDE DEF n
  <2> QED
    BY <2>1, <2>2
<1>3. ASSUME NEW k \in 0..n - 1, k \in Good
      PROVE  k + 1 \in Good
  <2>1. k + 1 \in 1..n /\ (k + 1) - 1 = k /\ K[k] = SubSeq(text, 1, k)
    BY <1>3
  <2>2. K[k + 1] = Append(K[k], text[k + 1])
    BY <1>0, <1>1, <2>1 DEF KeepsUpTo
  <2>3. Append(SubSeq(text, 1, k), text[k + 1]) = SubSeq(text, 1, k + 1)
    BY <2>1
  <2>4. k + 1 \in 0..n
    BY <1>0, <2>1
  <2> HIDE DEF n
  <2> QED
    BY <2>1, <2>2, <2>3, <2>4
<1> HIDE DEF Good, n
<1>5. n \in Good
  <2>1. \A k \in 0..n : k \in Good
    BY <1>0, <1>2, <1>3, ByCounting
  <2> QED
    BY <1>0, <2>1
<1>6. SubSeq(text, 1, Len(text)) = text
  OBVIOUS
<1> QED
  BY <1>1, <1>5, <1>6 DEF KeepsUpTo, Good, n

LEMMA DeletedAre ==
  ASSUME NEW T, NEW text \in Seq(T), NEW x
  PROVE  Delete(text, x) \in Seq(T \ {x})
<1>1. T \cap (Range(text) \ {x}) \subseteq T \ {x}
  OBVIOUS
<1> QED
  BY <1>1, KeptAre DEF Delete

LEMMA NothingToDelete ==
  ASSUME NEW T, NEW text \in Seq(T), NEW x, x \notin T
  PROVE  Delete(text, x) = text
<1>1. \A i \in DOMAIN text : text[i] \in Range(text) \ {x}
  BY DEF Range
<1> QED
  BY <1>1, KeptWhole DEF Delete

LEMMA NothingToReplace ==
  ASSUME NEW T, NEW text \in Seq(T), NEW x, NEW y, x \notin T
  PROVE  Replace(text, x, y) = text
BY DEF Replace

LEMMA NoText == \A A, x, y : Keep(<<>>, A) = <<>> /\ Delete(<<>>, x) = <<>> /\ Replace(<<>>, x, y) = <<>>
<1>1. \A A : Keep(<<>>, A) = <<>>
  <2> TAKE A
  <2>1. <<>> \in Seq({})
    OBVIOUS
  <2>2. PICK K : KeepsUpTo(K, <<>>, A)
    BY <2>1, KeepUnfolds
  <2>3. Len(<<>>) = 0
    OBVIOUS
  <2> QED
    BY <2>2, <2>3 DEF KeepsUpTo
<1>2. \A x, y : Replace(<<>>, x, y) = <<>>
  BY DEF Replace
<1> QED
  BY <1>1, <1>2 DEF Delete

LEMMA WholeAmount ==
  ASSUME NEW text \in Seq(Digits)
  PROVE  Hundredths(text) = IF text = <<>> THEN None ELSE Integral(text) * 100
<1>1. Point \notin Digits
  BY Characters
<1>2. Delete(text, Point) = text
  BY <1>1, NothingToDelete
<1> DEFINE points == {i \in DOMAIN text : text[i] = Point}
<1>3. points = {}
  BY <1>1
<1>4. 10 ^ (2 - 0) = 100
  OBVIOUS
<1>5. ~(Cardinality(points) > 1)
  <2>1. Cardinality({}) = 0
    BY FS_EmptySet
  <2> HIDE DEF points
  <2>2. Cardinality(points) = 0
    BY <1>3, <2>1
  <2> QED
    BY <2>2
<1>6. Hundredths(text) =
        LET digits == Delete(text, Point)
            decimals == IF points = {} THEN 0 ELSE Len(text) - CHOOSE i \in points : TRUE
        IN IF digits = <<>> \/ Cardinality(points) > 1 THEN None
           ELSE Integral(digits) * 10 ^ (2 - decimals)
  BY DEF Hundredths
<1> HIDE DEF points
<1> QED
  BY <1>2, <1>3, <1>4, <1>5, <1>6

(* The characters of an answer, of any digits.                             *)
Printed == Digits \cup {Comma, Point, Space, Sign}

LEMMA FormatFacts ==
  ASSUME NEW code \in Currencies
  PROVE  /\ Formats[code].thousands \in {Comma, Point, Space}
         /\ Formats[code].decimal \in {Comma, Point, None}
         /\ Formats[code].thousands # Formats[code].decimal
         /\ Formats[code].thousands \notin Digits /\ Formats[code].decimal \notin Digits
BY Characters DEF Formats, Currencies, DecimalPoint, DecimalComma, WholeUnits

LEMMA SameReading ==
  ASSUME NEW code \in Currencies, NEW text \in Seq(Printed)
  PROVE  ParsePrice(text, code) = ParsePriceSql(text, code)
<1> DEFINE f == Formats[code]
<1>1. f.decimal = None => f.thousands \in {Comma, Space}
  BY Characters DEF Formats, Currencies, DecimalPoint, DecimalComma, WholeUnits
<1> HIDE DEF f
<1>2. CASE f.decimal # None /\ text # <<>>
  BY <1>2 DEF ParsePrice, ParsePriceSql, f
<1>3. CASE f.decimal # None /\ text = <<>>
  <2>1. Hundredths(<<>>) = None
    <3>1. <<>> \in Seq(Digits)
      OBVIOUS
    <3> QED
      BY <3>1, WholeAmount
  <2> QED
    BY <1>3, <2>1, NoText DEF ParsePrice, ParsePriceSql, f
<1>4. CASE f.decimal = None
  <2> DEFINE kept == Keep(text, Digits \cup {f.thousands})
             digits == Delete(kept, f.thousands)
  <2>1. Keep(text, Digits \cup {f.thousands, f.decimal}) = kept
    <3>1. \A x \in Printed : x \in Digits \cup {f.thousands, f.decimal}
                            <=> x \in Digits \cup {f.thousands}
      BY <1>4, Characters DEF Printed
    <3> QED
      BY <3>1, KeptAlike
  <2>2. digits \in Seq(Digits)
    <3>1. kept \in Seq(Digits \cup {f.thousands})
      BY KeptAre
    <3>2. (Digits \cup {f.thousands}) \ {f.thousands} = Digits
      BY <1>1, <1>4, Characters
    <3> HIDE DEF kept
    <3> QED
      BY <3>1, <3>2, DeletedAre
  <2>3. Replace(digits, f.decimal, Point) = digits
    <3>1. f.decimal \notin Digits
      BY <1>4, Characters
    <3> HIDE DEF digits
    <3> QED
      BY <2>2, <3>1, NothingToReplace
  <2>4. Hundredths(digits) = IF digits = <<>> THEN None ELSE Integral(digits) * 100
    <3> HIDE DEF digits
    <3> QED
      BY <2>2, WholeAmount
  <2>5. ParsePriceSql(text, code) = Hundredths(digits)
    BY <1>4, <2>4 DEF ParsePriceSql, f
  <2>6. text # <<>> => ParsePrice(text, code) = Hundredths(digits)
    BY <2>1, <2>3 DEF ParsePrice, f
  <2>7. text = <<>> => digits = <<>> /\ ParsePrice(text, code) = None
    BY NoText DEF ParsePrice
  <2> HIDE DEF digits
  <2> QED
    BY <2>4, <2>5, <2>6, <2>7
<1> QED
  BY <1>2, <1>3, <1>4

(* "Kept in sync deliberately" (parse_price.sql): the stream and the       *)
(* warehouse read the same price, or both none, whatever the length and    *)
(* the characters of the text.                                             *)
THEOREM ParsersAlwaysAgree == MoneySpec => []ParsersAgree
<1>1. Texts \subseteq Seq(Printed)
  BY TextDigitsAre DEF Texts, Printed
<1>2. ParsersAgree
  BY <1>1, SameReading DEF ParsersAgree
<1> QED
  BY <1>2, PTL

-----------------------------------------------------------------------------
(* Prices are read back as they were displayed. Keep goes through a text   *)
(* piece by piece.                                                         *)

LEMMA KeepJoin ==
  ASSUME NEW T, NEW u \in Seq(T), NEW v \in Seq(T), NEW A
  PROVE  Keep(u \o v, A) = Keep(u, A) \o Keep(v, A)
<1> DEFINE m == Len(u)
           n == Len(v)
           w == u \o v
<1>0. /\ m \in Nat /\ n \in Nat /\ w \in Seq(T) /\ Len(w) = m + n
      /\ \A k \in 1..m : w[k] = u[k]
      /\ \A k \in 1..n : w[m + k] = v[k] /\ v[k] \in T
  OBVIOUS
<1>1. PICK K : KeepsUpTo(K, u, A)
  BY KeepUnfolds
<1>2. PICK L : KeepsUpTo(L, v, A)
  BY KeepUnfolds
<1>3. PICK J : KeepsUpTo(J, w, A)
  BY <1>0, KeepUnfolds
<1>4. Keep(u, A) \in Seq(T) /\ \A k \in 0..n : L[k] \in Seq(T)
  <2>1. Keep(u, A) \in Seq(T)
    BY KeptAre
  <2> DEFINE Good == {k \in 0..n : L[k] \in Seq(T)}
  <2>2. 0 \in Good
    <3>1. L[0] = <<>> /\ 0 \in 0..n
      BY <1>0, <1>2 DEF KeepsUpTo
    <3>2. <<>> \in Seq(T)
      OBVIOUS
    <3> HIDE DEF n
    <3> QED
      BY <3>1, <3>2
  <2>3. ASSUME NEW k \in 0..n - 1, k \in Good
        PROVE  k + 1 \in Good
    <3>1. k + 1 \in 1..n /\ (k + 1) - 1 = k /\ L[k] \in Seq(T) /\ k + 1 \in 0..n
      BY <1>0, <2>3
    <3>2. L[k + 1] = IF v[k + 1] \in A THEN Append(L[k], v[k + 1]) ELSE L[k]
      BY <1>2, <3>1 DEF KeepsUpTo
    <3>3. v[k + 1] \in T
      BY <1>0, <3>1
    <3>4. L[k + 1] \in Seq(T)
      BY <3>1, <3>2, <3>3
    <3> HIDE DEF n
    <3> QED
      BY <3>1, <3>4
  <2> HIDE DEF Good, n
  <2>4. \A k \in 0..n : k \in Good
    BY <1>0, <2>2, <2>3, ByCounting
  <2> QED
    BY <2>1, <2>4 DEF Good
<1> HIDE DEF m, n, w
<1>5. J[m] = K[m]
  <2> DEFINE Good == {k \in 0..m : J[k] = K[k]}
  <2>1. 0 \in Good
    BY <1>0, <1>1, <1>3 DEF KeepsUpTo
  <2>2. ASSUME NEW k \in 0..m - 1, k \in Good
        PROVE  k + 1 \in Good
    <3>1. /\ k + 1 \in 1..m /\ (k + 1) - 1 = k /\ J[k] = K[k] /\ k + 1 \in 0..m
          /\ k + 1 \in 1..m + n
      BY <1>0, <2>2
    <3>2. K[k + 1] = IF u[k + 1] \in A THEN Append(K[k], u[k + 1]) ELSE K[k]
      BY <1>1, <3>1 DEF KeepsUpTo, m
    <3>3. J[k + 1] = IF w[k + 1] \in A THEN Append(J[k], w[k + 1]) ELSE J[k]
      BY <1>0, <1>3, <3>1 DEF KeepsUpTo
    <3> QED
      BY <1>0, <3>1, <3>2, <3>3
  <2> HIDE DEF Good
  <2>3. \A k \in 0..m : k \in Good
    BY <1>0, <2>1, <2>2, ByCounting
  <2> QED
    BY <1>0, <2>3 DEF Good
<1>6. J[m] = Keep(u, A)
  BY <1>1, <1>5 DEF KeepsUpTo, m
<1>7. J[m + n] = Keep(u, A) \o L[n]
  <2> DEFINE Good == {k \in 0..n : J[m + k] = Keep(u, A) \o L[k]}
  <2>1. 0 \in Good
    <3>1. L[0] = <<>> /\ m + 0 = m /\ 0 \in 0..n
      BY <1>0, <1>2 DEF KeepsUpTo
    <3>2. Keep(u, A) \o <<>> = Keep(u, A)
      BY <1>4
    <3> QED
      BY <1>6, <3>1, <3>2
  <2>2. ASSUME NEW k \in 0..n - 1, k \in Good
        PROVE  k + 1 \in Good
    <3>0. J[m + k] = Keep(u, A) \o L[k]
      BY <2>2
    <3>1. /\ k + 1 \in 1..n /\ (k + 1) - 1 = k /\ k \in 0..n /\ k + 1 \in 0..n
          /\ m + (k + 1) \in 1..m + n /\ (m + (k + 1)) - 1 = m + k
      <4> HIDE DEF Good
      <4> QED
        BY <1>0
    <3>2. L[k + 1] = IF v[k + 1] \in A THEN Append(L[k], v[k + 1]) ELSE L[k]
      BY <1>2, <3>1 DEF KeepsUpTo, n
    <3>3. J[m + (k + 1)] = IF w[m + (k + 1)] \in A THEN Append(J[m + k], w[m + (k + 1)])
                           ELSE J[m + k]
      BY <1>0, <1>3, <3>1 DEF KeepsUpTo
    <3>4. w[m + (k + 1)] = v[k + 1] /\ v[k + 1] \in T
      BY <1>0, <3>1
    <3>5. L[k] \in Seq(T) /\ Keep(u, A) \in Seq(T)
      BY <1>4, <3>1
    <3>6. Keep(u, A) \o Append(L[k], v[k + 1]) = Append(Keep(u, A) \o L[k], v[k + 1])
      BY <3>4, <3>5
    <3> QED
      BY <3>0, <3>1, <3>2, <3>3, <3>4, <3>6
  <2> HIDE DEF Good
  <2>3. \A k \in 0..n : k \in Good
    BY <1>0, <2>1, <2>2, ByCounting
  <2> QED
    BY <1>0, <2>3 DEF Good
<1>8. L[n] = Keep(v, A) /\ J[m + n] = Keep(w, A)
  BY <1>0, <1>2, <1>3 DEF KeepsUpTo, n
<1> QED
  BY <1>7, <1>8 DEF w

LEMMA NothingKept ==
  ASSUME NEW T, NEW text \in Seq(T), NEW A, T \cap A = {}
  PROVE  Keep(text, A) = <<>>
<1>1. Keep(text, A) \in Seq({})
  BY KeptAre
<1> QED
  BY <1>1

LEMMA AppendJoins ==
  ASSUME NEW T, NEW u \in Seq(T), NEW x \in T
  PROVE  Append(u, x) \in Seq(T) /\ <<x>> \in Seq(T) /\ Append(u, x) = u \o <<x>>
OBVIOUS

LEMMA KeepAppend ==
  ASSUME NEW T, NEW u \in Seq(T), NEW x \in T, NEW A
  PROVE  Keep(Append(u, x), A) = IF x \in A THEN Append(Keep(u, A), x) ELSE Keep(u, A)
<1>1. Append(u, x) = u \o <<x>> /\ <<x>> \in Seq(T)
  BY AppendJoins
<1>2. Keep(u, A) \in Seq(T)
  BY KeptAre
<1>3. Keep(u \o <<x>>, A) = Keep(u, A) \o Keep(<<x>>, A)
  <2>1. PICK y : y = <<x>>
    OBVIOUS
  <2>2. y \in Seq(T)
    BY <1>1, <2>1
  <2>3. Keep(u \o y, A) = Keep(u, A) \o Keep(y, A)
    BY <2>2, KeepJoin
  <2> QED
    BY <2>1, <2>3
<1>4. CASE x \in A
  <2>1. \A i \in DOMAIN <<x>> : <<x>>[i] \in A
    BY <1>4
  <2>2. Keep(<<x>>, A) = <<x>>
    BY <1>1, <2>1, KeptWhole
  <2>3. Keep(u, A) \o <<x>> = Append(Keep(u, A), x)
    BY <1>2, AppendJoins
  <2> QED
    BY <1>1, <1>3, <1>4, <2>2, <2>3
<1>5. CASE x \notin A
  <2>1. <<x>> \in Seq({x}) /\ {x} \cap A = {}
    BY <1>5
  <2>2. Keep(<<x>>, A) = <<>>
    BY <2>1, NothingKept
  <2>3. Keep(u, A) \o <<>> = Keep(u, A)
    BY <1>2
  <2> QED
    BY <1>1, <1>3, <1>5, <2>2, <2>3
<1> QED
  BY <1>4, <1>5

(* What is kept of what is kept.                                           *)
LEMMA KeepTwice ==
  ASSUME NEW T, NEW text \in Seq(T), NEW A, NEW B
  PROVE  Keep(Keep(text, A), B) = Keep(text, A \cap B)
<1> DEFINE n == Len(text)
<1>0. n \in Nat /\ \A k \in 1..n : text[k] \in T
  OBVIOUS
<1>1. PICK K : KeepsUpTo(K, text, A)
  BY KeepUnfolds
<1>2. PICK L : KeepsUpTo(L, text, A \cap B)
  BY KeepUnfolds
<1> DEFINE Good == {k \in 0..n : K[k] \in Seq(T) /\ Keep(K[k], B) = L[k]}
<1>3. 0 \in Good
  <2>1. K[0] = <<>> /\ L[0] = <<>> /\ 0 \in 0..n
    BY <1>0, <1>1, <1>2 DEF KeepsUpTo
  <2>2. <<>> \in Seq(T) /\ Keep(<<>>, B) = <<>>
    BY NoText
  <2> HIDE DEF n
  <2> QED
    BY <2>1, <2>2
<1>4. ASSUME NEW k \in 0..n - 1, k \in Good
      PROVE  k + 1 \in Good
  <2> DEFINE x == text[k + 1]
  <2>1. /\ k + 1 \in 1..n /\ (k + 1) - 1 = k /\ k + 1 \in 0..n
        /\ K[k] \in Seq(T) /\ Keep(K[k], B) = L[k]
    BY <1>0, <1>4
  <2>2. K[k + 1] = IF x \in A THEN Append(K[k], x) ELSE K[k]
    BY <1>1, <2>1 DEF KeepsUpTo
  <2>3. L[k + 1] = IF x \in A \cap B THEN Append(L[k], x) ELSE L[k]
    BY <1>2, <2>1 DEF KeepsUpTo
  <2>4. x \in T
    BY <1>0, <2>1
  <2> HIDE DEF x, n
  <2>5. Append(K[k], x) \in Seq(T)
    BY <2>1, <2>4, AppendJoins
  <2>6. Keep(Append(K[k], x), B) = IF x \in B THEN Append(L[k], x) ELSE L[k]
    BY <2>1, <2>4, KeepAppend
  <2>7. K[k + 1] \in Seq(T) /\ Keep(K[k + 1], B) = L[k + 1]
    BY <2>1, <2>2, <2>3, <2>5, <2>6
  <2> QED
    BY <2>1, <2>7
<1> HIDE DEF Good, n
<1>5. \A k \in 0..n : k \in Good
  BY <1>0, <1>3, <1>4, ByCounting
<1>6. n \in Good
  BY <1>0, <1>5
<1> QED
  BY <1>1, <1>2, <1>6 DEF KeepsUpTo, Good, n

LEMMA JoinFacts ==
  ASSUME NEW T, NEW u \in Seq(T), NEW v \in Seq(T)
  PROVE  /\ Len(u) \in Nat /\ u \o v \in Seq(T) /\ Len(u \o v) = Len(u) + Len(v)
         /\ \A i \in 1..Len(u) + Len(v) :
              (u \o v)[i] = IF i <= Len(u) THEN u[i] ELSE v[i - Len(u)]
OBVIOUS

LEMMA OneOrTwo ==
  ASSUME NEW T, NEW x \in T, NEW y \in T
  PROVE  /\ <<x>> \in Seq(T) /\ <<y>> \in Seq(T) /\ <<x, y>> \in Seq(T)
         /\ <<x, y>> = <<x>> \o <<y>>
<1>1. PICK u : u = <<x>>
  OBVIOUS
<1>2. PICK v : v = <<y>>
  OBVIOUS
<1>3. u \in Seq(T) /\ v \in Seq(T) /\ Len(u) = 1 /\ Len(v) = 1 /\ u[1] = x /\ v[1] = y
  BY <1>1, <1>2
<1>4. <<x, y>> = u \o v
  BY <1>3
<1> QED
  BY <1>1, <1>2, <1>3, <1>4

LEMMA OneAndTwo ==
  ASSUME NEW T, NEW x \in T, NEW y \in T, NEW z \in T
  PROVE  <<x>> \o <<y, z>> = <<x, y, z>>
<1>1. PICK u : u = <<x>>
  OBVIOUS
<1>2. PICK v : v = <<y, z>>
  OBVIOUS
<1>3. /\ u \in Seq(T) /\ v \in Seq(T) /\ Len(u) = 1 /\ Len(v) = 2
      /\ u[1] = x /\ v[1] = y /\ v[2] = z
  BY <1>1, <1>2
<1>4. PICK w : w = <<x, y, z>>
  OBVIOUS
<1>5. w \in Seq(T) /\ Len(w) = 3 /\ w[1] = x /\ w[2] = y /\ w[3] = z
  BY <1>4
<1>6. PICK s : s = u \o v
  OBVIOUS
<1>a. /\ u \o v \in Seq(T) /\ Len(u \o v) = Len(u) + Len(v)
      /\ \A i \in 1..Len(u) + Len(v) :
           (u \o v)[i] = IF i <= Len(u) THEN u[i] ELSE v[i - Len(u)]
  BY <1>3, JoinFacts
<1>7. s \in Seq(T) /\ Len(s) = 3
  BY <1>3, <1>6, <1>a
<1>b. \A i \in 1..3 : s[i] = IF i <= 1 THEN u[i] ELSE v[i - 1]
  BY <1>3, <1>6, <1>a
<1>8. s[1] = x /\ s[2] = y /\ s[3] = z
  BY <1>3, <1>b
<1>9. \A i \in 1..3 : s[i] = w[i]
  BY <1>5, <1>8
<1>10. s = w
  BY <1>5, <1>7, <1>9
<1> QED
  BY <1>1, <1>2, <1>4, <1>6, <1>10

LEMMA KeepOne ==
  ASSUME NEW x, NEW A
  PROVE  Keep(<<x>>, A) = IF x \in A THEN <<x>> ELSE <<>>
<1>1. PICK u : u = <<x>>
  OBVIOUS
<1>2. u \in Seq({x}) /\ \A i \in DOMAIN u : u[i] = x
  BY <1>1
<1>3. CASE x \in A
  <2>1. \A i \in DOMAIN u : u[i] \in A
    BY <1>2, <1>3
  <2>2. Keep(u, A) = u
    BY <1>2, <2>1, KeptWhole
  <2> QED
    BY <1>1, <1>3, <2>2
<1>4. CASE x \notin A
  <2>1. {x} \cap A = {}
    BY <1>4
  <2>2. Keep(u, A) = <<>>
    BY <1>2, <2>1, NothingKept
  <2> QED
    BY <1>1, <1>4, <2>2
<1> QED
  BY <1>3, <1>4

(* I holds the number that the first k digits stand for.                   *)
CountsUpTo(I, digits) ==
  /\ I[0] = 0 /\ I[Len(digits)] = Integral(digits)
  /\ \A k \in 1..Len(digits) : I[k] = 10 * I[k - 1] + digits[k]

LEMMA IntegralUnfolds ==
  ASSUME NEW digits \in Seq(Digits)
  PROVE  \E I : CountsUpTo(I, digits)
<1> DEFINE n == Len(digits)
           S == 1..n
           Sums(g) == g = [s \in SUBSET S |->
                             IF s = {} THEN 0
                             ELSE LET x == Max(s) IN 10 * g[s \ {x}] + digits[x]]
           G == CHOOSE g : Sums(g)
           c == Highest(n)
           I == [k \in 0..n |-> G[1..k]]
<1>1. n \in Nat /\ DOMAIN digits = S /\ IsFiniteSet(S)
  BY FS_Interval
<1>2. Integral(digits) = G[S]
  BY <1>1 DEF Integral, FoldLeft, MapThenFoldSet
<1>3. Chooses(c, S) /\ (\A k \in 1..n : c[1..k] = k) /\ \A s \in SUBSET S : c[s] = Max(s)
  BY <1>1, HighestChooses DEF Highest
<1>4. \E g : Sums(g)
  <2>0. PICK Z : Z = Int
    OBVIOUS
  <2> DEFINE step == [p \in S \X Z |-> 10 * p[2] + digits[p[1]]]
  <2>1. step \in [S \X Z -> Z] /\ 0 \in Z
    <3>1. \A i \in S : digits[i] \in Int
      BY <1>1 DEF Digits
    <3>2. \A i \in S, u \in Int : 10 * u + digits[i] \in Int
      BY <3>1
    <3> QED
      BY <2>0, <3>2
  <2>2. PICK g \in [SUBSET S -> Z] : IsFold(g, step, 0, c, S)
    <3> HIDE DEF step, c, S
    <3> QED
      BY <1>1, <1>3, <2>1, FoldExists
  <2>3. ASSUME NEW s \in SUBSET S, s # {}
        PROVE  g[s] = 10 * g[s \ {c[s]}] + digits[c[s]]
    <3>1. c[s] \in S /\ g[s \ {c[s]}] \in Z
      BY <1>3, <2>2, <2>3 DEF Chooses
    <3> HIDE DEF c
    <3> QED
      BY <2>2, <2>3, <3>1 DEF IsFold
  <2>4. g[{}] = 0
    BY <2>2 DEF IsFold
  <2>5. Sums(g)
    <3> HIDE DEF c, S, step
    <3> QED
      BY <1>3, <2>2, <2>3, <2>4
  <2> QED
    BY <2>5
<1>5. Sums(G)
  <2> HIDE DEF Sums
  <2> QED
    BY <1>4
<1> HIDE DEF G
<1>6. G[{}] = 0
  BY <1>5
<1>7. ASSUME NEW k \in 1..n
      PROVE  G[1..k] = 10 * G[1..k - 1] + digits[k]
  <2>1. 1..k \in SUBSET S /\ 1..k # {} /\ (1..k) \ {k} = 1..k - 1
    <3>1. k \in Nat /\ k >= 1 /\ k <= n
      BY <1>1
    <3>2. \A i \in 1..k : i \in S
      BY <1>1, <3>1
    <3>3. (1..k) \ {k} = 1..k - 1
      BY <3>1
    <3>4. k \in 1..k
      BY <3>1
    <3> HIDE DEF S
    <3> QED
      BY <3>2, <3>3, <3>4
  <2>2. Max(1..k) = k
    BY <1>3, <2>1
  <2>3. G[1..k] = 10 * G[(1..k) \ {k}] + digits[k]
    BY <1>5, <2>1, <2>2
  <2> QED
    BY <2>1, <2>3
<1>8. I[0] = 0 /\ I[n] = Integral(digits)
  <2>1. 1..0 = {}
    OBVIOUS
  <2> QED
    BY <1>1, <1>2, <1>6, <2>1
<1>9. \A k \in 1..n : I[k] = G[1..k] /\ I[k - 1] = G[1..k - 1]
  BY <1>1
<1> HIDE DEF I
<1>10. CountsUpTo(I, digits)
  BY <1>7, <1>8, <1>9 DEF CountsUpTo
<1> QED
  BY <1>10

LEMMA CountsAreNatural ==
  ASSUME NEW digits \in Seq(Digits), NEW I, CountsUpTo(I, digits)
  PROVE  \A k \in 0..Len(digits) : I[k] \in Nat
<1> DEFINE n == Len(digits)
           Good == {k \in 0..n : I[k] \in Nat}
<1>0. n \in Nat /\ \A k \in 1..n : digits[k] \in Nat
  BY DEF Digits
<1>1. 0 \in Good
  BY <1>0 DEF CountsUpTo
<1>2. ASSUME NEW k \in 0..n - 1, k \in Good
      PROVE  k + 1 \in Good
  <2>1. k + 1 \in 1..n /\ (k + 1) - 1 = k /\ k + 1 \in 0..n /\ I[k] \in Nat
    BY <1>0, <1>2
  <2>2. I[k + 1] = 10 * I[k] + digits[k + 1]
    BY <2>1 DEF CountsUpTo
  <2>3. I[k + 1] \in Nat
    BY <1>0, <2>1, <2>2
  <2> HIDE DEF n
  <2> QED
    BY <2>1, <2>3
<1> HIDE DEF Good, n
<1>3. \A k \in 0..n : k \in Good
  BY <1>0, <1>1, <1>2, ByCounting
<1> QED
  BY <1>3 DEF Good, n

LEMMA IntegralAppend ==
  ASSUME NEW u \in Seq(Digits), NEW x \in Digits
  PROVE  Integral(u) \in Nat /\ Integral(Append(u, x)) = 10 * Integral(u) + x
<1> DEFINE n == Len(u)
           w == Append(u, x)
<1>0. /\ n \in Nat /\ w \in Seq(Digits) /\ Len(w) = n + 1 /\ w[n + 1] = x
      /\ \A k \in 1..n : w[k] = u[k]
  OBVIOUS
<1>1. PICK I : CountsUpTo(I, u)
  BY IntegralUnfolds
<1>2. PICK J : CountsUpTo(J, w)
  BY <1>0, IntegralUnfolds
<1>3. \A k \in 0..n : I[k] \in Nat
  BY <1>1, CountsAreNatural
<1> DEFINE Good == {k \in 0..n : J[k] = I[k]}
<1> HIDE DEF w
<1>4. 0 \in Good
  BY <1>0, <1>1, <1>2 DEF CountsUpTo
<1>5. ASSUME NEW k \in 0..n - 1, k \in Good
      PROVE  k + 1 \in Good
  <2>1. /\ k + 1 \in 1..n /\ (k + 1) - 1 = k /\ k + 1 \in 0..n /\ J[k] = I[k]
        /\ k + 1 \in 1..n + 1
    BY <1>0, <1>5
  <2>2. I[k + 1] = 10 * I[k] + u[k + 1]
    BY <1>1, <2>1 DEF CountsUpTo
  <2>3. J[k + 1] = 10 * J[k] + w[k + 1]
    BY <1>0, <1>2, <2>1 DEF CountsUpTo
  <2>4. w[k + 1] = u[k + 1]
    BY <1>0, <2>1
  <2> HIDE DEF n
  <2> QED
    BY <2>1, <2>2, <2>3, <2>4
<1> HIDE DEF Good, n
<1>6. \A k \in 0..n : k \in Good
  BY <1>0, <1>4, <1>5, ByCounting
<1>7. J[n] = I[n] /\ I[n] \in Nat
  BY <1>0, <1>3, <1>6 DEF Good
<1>8. n + 1 \in 1..n + 1 /\ (n + 1) - 1 = n
  BY <1>0
<1>9. J[n + 1] = 10 * J[n] + x
  BY <1>0, <1>2, <1>8 DEF CountsUpTo
<1>10. I[n] = Integral(u) /\ J[n + 1] = Integral(w)
  BY <1>0, <1>1, <1>2 DEF CountsUpTo, n
<1> QED
  BY <1>7, <1>9, <1>10 DEF w

LEMMA IntegralOfNone == Integral(<<>>) = 0
<1>1. <<>> \in Seq(Digits) /\ Len(<<>>) = 0
  OBVIOUS
<1>2. PICK I : CountsUpTo(I, <<>>)
  BY <1>1, IntegralUnfolds
<1> QED
  BY <1>1, <1>2 DEF CountsUpTo

(* The digits of a number, from those of its tenth.                        *)
Split(D, m) == IF m < 10 THEN <<m>> ELSE Append(D[m \div 10], m % 10)

LEMMA DigitsUnfold ==
  ASSUME NEW n \in Nat
  PROVE  \E D : /\ D[n] = DigitsOf(n)
                /\ \A m \in 0..n : D[m] = Split(D, m)
<1> DEFINE Splits(g, k) ==
             g = [m \in 0..k |-> Split(g, m)]
           Good == {k \in Nat : \E g : Splits(g, k)}
           D == CHOOSE g : Splits(g, n)
<1>1. 0 \in Good
  <2> DEFINE g == [m \in 0..0 |-> <<m>>]
  <2>1. \A m \in 0..0 : Split(g, m) = <<m>>
    BY DEF Split
  <2>2. Splits(g, 0)
    BY <2>1
  <2> QED
    BY <2>2
<1>2. ASSUME NEW k \in 0..n - 1, k \in Good
      PROVE  k + 1 \in Good
  <2>1. PICK g : Splits(g, k)
    BY <1>2
  <2> DEFINE h == [m \in 0..k + 1 |-> Split(g, m)]
  <2>2. \A m \in 0..k : h[m] = g[m]
    <3>1. \A m \in 0..k : m \in 0..k + 1
      OBVIOUS
    <3> QED
      BY <2>1, <3>1
  <2>3. \A m \in 0..k + 1 : m >= 10 => m \div 10 \in 0..k
    OBVIOUS
  <2>4. \A m \in 0..k + 1 : m >= 10 => h[m \div 10] = g[m \div 10]
    <3> HIDE DEF h
    <3> QED
      BY <2>2, <2>3
  <2>5. \A m \in 0..k + 1 : Split(h, m) = Split(g, m)
    <3> HIDE DEF h
    <3>1. \A m \in 0..k + 1 : m < 10 \/ m >= 10
      OBVIOUS
    <3> QED
      BY <2>4, <3>1 DEF Split
  <2>6. Splits(h, k + 1)
    BY <2>5
  <2> HIDE DEF Splits
  <2> QED
    BY <2>6
<1>3. n \in Good
  <2> HIDE DEF Good
  <2>1. \A k \in 0..n : k \in Good
    BY <1>1, <1>2, ByCounting
  <2> QED
    BY <2>1
<1>4. Splits(D, n)
  <2> HIDE DEF Splits
  <2> QED
    BY <1>3
<1>5. D[n] = DigitsOf(n)
  BY DEF DigitsOf, Split
<1> HIDE DEF D
<1>6. \A m \in 0..n : D[m] = Split(D, m)
  BY <1>4
<1> QED
  BY <1>5, <1>6

LEMMA DigitsAreOf ==
  ASSUME NEW n \in Nat
  PROVE  /\ DigitsOf(n) \in Seq(Digits) /\ DigitsOf(n) # <<>>
         /\ Integral(DigitsOf(n)) = n
<1>1. PICK D : /\ D[n] = DigitsOf(n)
               /\ \A m \in 0..n : D[m] = Split(D, m)
  BY DigitsUnfold
<1> DEFINE Right(m) == D[m] \in Seq(Digits) /\ D[m] # <<>> /\ Integral(D[m]) = m
           Good == {k \in 0..n : \A m \in 0..k : Right(m)}
<1>2. ASSUME NEW m \in 0..n, \A j \in 0..m - 1 : Right(j)
      PROVE  Right(m)
  <2>1. CASE m < 10
    <3>1. D[m] = <<m>> /\ m \in Digits
      <4>1. D[m] = Split(D, m)
        BY <1>1
      <4>2. Split(D, m) = <<m>>
        BY <2>1 DEF Split
      <4>3. m \in Digits
        BY <2>1 DEF Digits
      <4> QED
        BY <4>1, <4>2, <4>3
    <3>2. <<m>> = Append(<<>>, m) /\ <<m>> \in Seq(Digits) /\ <<m>> # <<>> /\ <<>> \in Seq(Digits)
      BY <3>1
    <3>3. Integral(Append(<<>>, m)) = 10 * Integral(<<>>) + m
      BY <3>1, <3>2, IntegralAppend
    <3>4. Integral(Append(<<>>, m)) = m
      BY <3>3, IntegralOfNone
    <3> QED
      BY <3>1, <3>2, <3>4
  <2>2. CASE m >= 10
    <3> DEFINE q == m \div 10
               r == m % 10
    <3>1. q \in 0..m - 1 /\ r \in Digits /\ 10 * q + r = m
      BY <2>2 DEF Digits
    <3>2. D[m] = Append(D[q], r)
      <4>1. D[m] = Split(D, m)
        BY <1>1
      <4>2. ~(m < 10)
        BY <2>2
      <4>3. Split(D, m) = Append(D[q], r)
        BY <4>2 DEF Split
      <4> QED
        BY <4>1, <4>3
    <3>3. Right(q)
      BY <1>2, <3>1
    <3> HIDE DEF q, r
    <3>4. Append(D[q], r) \in Seq(Digits) /\ Append(D[q], r) # <<>>
      <4>1. ASSUME NEW u \in Seq(Digits), NEW x \in Digits
            PROVE  Append(u, x) \in Seq(Digits) /\ Append(u, x) # <<>>
        <5>1. Len(Append(u, x)) = Len(u) + 1 /\ Len(u) \in Nat
          OBVIOUS
        <5>2. PICK w : w = Append(u, x)
          OBVIOUS
        <5>3. w \in Seq(Digits) /\ Len(w) # 0
          BY <5>1, <5>2
        <5>4. w # <<>>
          BY <5>3
        <5> QED
          BY <5>2, <5>3, <5>4
      <4> QED
        BY <3>1, <3>3, <4>1
    <3>5. Integral(Append(D[q], r)) = 10 * q + r
      BY <3>1, <3>3, IntegralAppend
    <3> QED
      BY <3>1, <3>2, <3>4, <3>5
  <2> QED
    BY <2>1, <2>2
<1> HIDE DEF Right
<1>3. 0 \in Good
  <2>1. Right(0)
    BY <1>2
  <2>2. \A m \in 0..0 : Right(m)
    BY <2>1
  <2> QED
    BY <2>2
<1>4. ASSUME NEW k \in 0..n - 1, k \in Good
      PROVE  k + 1 \in Good
  <2>1. \A m \in 0..(k + 1) - 1 : Right(m)
    BY <1>4
  <2>2. Right(k + 1)
    BY <1>2, <2>1
  <2>3. \A m \in 0..k + 1 : m = k + 1 \/ m \in 0..k
    OBVIOUS
  <2> QED
    BY <1>4, <2>2, <2>3
<1>5. n \in Good
  <2> HIDE DEF Good
  <2>1. \A k \in 0..n : k \in Good
    BY <1>3, <1>4, ByCounting
  <2> QED
    BY <2>1
<1>6. Right(n)
  BY <1>5
<1> QED
  BY <1>1, <1>6 DEF Right

LEMMA FlattenUnfolds ==
  ASSUME NEW seqs, NEW n \in Nat, n >= 1, Len(seqs) = n
  PROVE  \E F : F[1] = seqs[1] /\ F[n] = FlattenSeq(seqs)
                /\ \A i \in 2..n : F[i] = F[i - 1] \o seqs[i]
<1> DEFINE Joins(g, k) == g = [i \in 1..k |-> IF i = 1 THEN seqs[i] ELSE g[i - 1] \o seqs[i]]
           Good == {k \in Nat : \E g : Joins(g, k)}
           F == CHOOSE g : Joins(g, n)
<1>1. 0 \in Good
  <2> DEFINE g == [i \in 1..0 |-> 0]
  <2>1. Joins(g, 0)
    <3>1. 1..0 = {}
      OBVIOUS
    <3> QED
      BY <3>1
  <2> QED
    BY <2>1
<1>2. ASSUME NEW k \in 0..n - 1, k \in Good
      PROVE  k + 1 \in Good
  <2>1. PICK g : Joins(g, k)
    BY <1>2
  <2> DEFINE h == [i \in 1..k + 1 |-> IF i = 1 THEN seqs[i] ELSE g[i - 1] \o seqs[i]]
  <2>2. \A i \in 1..k : h[i] = g[i]
    <3>1. \A i \in 1..k : i \in 1..k + 1
      OBVIOUS
    <3> QED
      BY <2>1, <3>1
  <2>3. \A i \in 1..k + 1 : i # 1 => h[i - 1] = g[i - 1]
    <3>1. \A i \in 1..k + 1 : i # 1 => i - 1 \in 1..k
      OBVIOUS
    <3> HIDE DEF h
    <3> QED
      BY <2>2, <3>1
  <2>4. Joins(h, k + 1)
    BY <2>3
  <2> HIDE DEF Joins
  <2> QED
    BY <2>4
<1>3. n \in Good
  <2> HIDE DEF Good
  <2>1. \A k \in 0..n : k \in Good
    BY <1>1, <1>2, ByCounting
  <2> QED
    BY <2>1
<1>4. Joins(F, n)
  <2> HIDE DEF Joins
  <2> QED
    BY <1>3
<1>5. F[n] = FlattenSeq(seqs)
  BY DEF FlattenSeq
<1> HIDE DEF F
<1>6. F[1] = seqs[1] /\ \A i \in 2..n : F[i] = F[i - 1] \o seqs[i]
  <2>1. \A i \in 1..n : F[i] = IF i = 1 THEN seqs[i] ELSE F[i - 1] \o seqs[i]
    BY <1>4
  <2>2. 1 \in 1..n /\ \A i \in 2..n : i \in 1..n /\ i # 1
    OBVIOUS
  <2> QED
    BY <2>1, <2>2
<1> QED
  BY <1>5, <1>6

(* Without the separators, the groups of digits are the digits.            *)
LEMMA GroupsAreDigits ==
  ASSUME NEW digits \in Seq(Digits), digits # <<>>, NEW separator, NEW A,
         Digits \subseteq A, separator \notin A
  PROVE  /\ InGroups(digits, separator) \in Seq(Digits \cup {separator})
         /\ Keep(InGroups(digits, separator), A) = digits
<1> DEFINE n == Len(digits)
           T == Digits \cup {separator}
           seqs == [i \in DOMAIN digits |->
                      IF i < Len(digits) /\ (Len(digits) - i) % 3 = 0
                      THEN <<digits[i], separator>> ELSE <<digits[i]>>]
<1>0. n \in Nat /\ n >= 1 /\ DOMAIN digits = 1..n /\ \A i \in 1..n : digits[i] \in Digits
  OBVIOUS
<1>1. \A i \in 1..n : seqs[i] = <<digits[i], separator>> \/ seqs[i] = <<digits[i]>>
  BY <1>0
<1>2. InGroups(digits, separator) = FlattenSeq(seqs)
  BY DEF InGroups
<1>3. DOMAIN seqs = 1..n
  BY <1>0
<1> HIDE DEF seqs
<1>4. ASSUME NEW i \in 1..n
      PROVE  seqs[i] \in Seq(T) /\ Keep(seqs[i], A) = <<digits[i]>>
  <2>1. PICK x : x = digits[i]
    OBVIOUS
  <2>2. x \in Digits /\ x \in A /\ x \in T /\ separator \in T
    BY <1>0, <2>1
  <2>3. <<x>> \in Seq(T) /\ <<x, separator>> \in Seq(T) /\ <<separator>> \in Seq(T)
        /\ <<x, separator>> = <<x>> \o <<separator>>
    BY <2>2, OneOrTwo
  <2>4. Keep(<<x>>, A) = <<x>> /\ Keep(<<separator>>, A) = <<>>
    BY <2>2, KeepOne
  <2>5. PICK u : u = <<x>>
    OBVIOUS
  <2>6. PICK v : v = <<separator>>
    OBVIOUS
  <2>7. Keep(u \o v, A) = Keep(u, A) \o Keep(v, A)
    <3>1. u \in Seq(T) /\ v \in Seq(T)
      BY <2>3, <2>5, <2>6
    <3> HIDE DEF T
    <3> QED
      BY <3>1, KeepJoin
  <2>8. u \o <<>> = u
    BY <2>3, <2>5
  <2>9. Keep(<<x, separator>>, A) = <<x>>
    BY <2>3, <2>4, <2>5, <2>6, <2>7, <2>8
  <2> HIDE DEF T
  <2> QED
    BY <1>1, <2>1, <2>3, <2>4, <2>9
<1>5. Len(seqs) = n
  BY <1>0, <1>3
<1>6. PICK F : F[1] = seqs[1] /\ F[n] = FlattenSeq(seqs)
               /\ \A i \in 2..n : F[i] = F[i - 1] \o seqs[i]
  <2> HIDE DEF n
  <2> QED
    BY <1>0, <1>5, FlattenUnfolds
<1> DEFINE Good == {k \in 0..n : k = 0 \/ (F[k] \in Seq(T) /\ Keep(F[k], A) = SubSeq(digits, 1, k))}
<1>7. 0 \in Good
  BY <1>0
<1>8. ASSUME NEW k \in 0..n - 1, k \in Good
      PROVE  k + 1 \in Good
  <2>1. PICK x : x = digits[k + 1]
    OBVIOUS
  <2>2. k + 1 \in 1..n /\ k + 1 \in 0..n
    BY <1>0
  <2>3. seqs[k + 1] \in Seq(T) /\ Keep(seqs[k + 1], A) = <<x>>
    BY <1>4, <2>1, <2>2
  <2>4. CASE k = 0
    <3>1. F[1] \in Seq(T) /\ Keep(F[1], A) = <<x>>
      BY <1>6, <2>3, <2>4
    <3>2. SubSeq(digits, 1, 1) = <<digits[1]>>
      <4>1. PICK u : u = SubSeq(digits, 1, 1)
        OBVIOUS
      <4>2. PICK v : v = <<digits[1]>>
        OBVIOUS
      <4>3. u \in Seq(Digits) /\ Len(u) = 1 /\ u[1] = digits[1]
        BY <1>0, <4>1
      <4>4. v \in Seq(Digits) /\ Len(v) = 1 /\ v[1] = digits[1]
        BY <1>0, <4>2
      <4>5. u = v
        BY <4>3, <4>4
      <4> QED
        BY <4>1, <4>2, <4>5
    <3> HIDE DEF T, n
    <3> QED
      BY <2>1, <2>2, <2>4, <3>1, <3>2
  <2>5. CASE k # 0
    <3>1. F[k] \in Seq(T) /\ Keep(F[k], A) = SubSeq(digits, 1, k)
      BY <1>8, <2>5
    <3>2. k + 1 \in 2..n /\ (k + 1) - 1 = k
      BY <2>2, <2>5
    <3>3. F[k + 1] = F[k] \o seqs[k + 1]
      BY <1>6, <3>2
    <3>4. F[k + 1] \in Seq(T)
      <4> HIDE DEF T
      <4> QED
        BY <2>3, <3>1, <3>3
    <3>5. Keep(F[k + 1], A) = SubSeq(digits, 1, k) \o <<x>>
      <4>1. Keep(F[k] \o seqs[k + 1], A) = Keep(F[k], A) \o Keep(seqs[k + 1], A)
        <5>1. PICK u : u = F[k]
          OBVIOUS
        <5>2. PICK v : v = seqs[k + 1]
          OBVIOUS
        <5> HIDE DEF T
        <5>3. u \in Seq(T) /\ v \in Seq(T)
          BY <2>3, <3>1, <5>1, <5>2
        <5>4. Keep(u \o v, A) = Keep(u, A) \o Keep(v, A)
          BY <5>3, KeepJoin
        <5> QED
          BY <5>1, <5>2, <5>4
      <4> QED
        BY <2>3, <3>1, <3>3, <4>1
    <3>6. SubSeq(digits, 1, k) \o <<x>> = SubSeq(digits, 1, k + 1)
      BY <1>0, <2>1, <2>2
    <3> HIDE DEF T, n
    <3> QED
      BY <2>2, <3>4, <3>5, <3>6
  <2> QED
    BY <2>4, <2>5
<1> HIDE DEF Good, n
<1>9. \A k \in 0..n : k \in Good
  BY <1>0, <1>7, <1>8, ByCounting
<1>10. F[n] \in Seq(T) /\ Keep(F[n], A) = SubSeq(digits, 1, n)
  <2> HIDE DEF T
  <2>1. n \in 0..n /\ n # 0
    BY <1>0
  <2> QED
    BY <1>9, <2>1 DEF Good
<1>11. SubSeq(digits, 1, n) = digits
  BY DEF n
<1> QED
  BY <1>2, <1>6, <1>10, <1>11

LEMMA WithoutOne ==
  ASSUME NEW T, NEW text \in Seq(T), NEW x, NEW B, x \notin B, T \subseteq B \cup {x}
  PROVE  Delete(text, x) = Keep(text, B)
<1> DEFINE R == Range(text)
<1>1. text \in Seq(R) /\ R \subseteq T
  BY DEF Range
<1>2. \A y \in R : y \in R \ {x} <=> y \in B
  BY <1>1
<1> HIDE DEF R
<1>3. Keep(text, R \ {x}) = Keep(text, B)
  BY <1>1, <1>2, KeptAlike
<1> QED
  BY <1>3 DEF Delete, R

(* Deleting the thousands of what is kept leaves the digits and the        *)
(* decimal.                                                                *)
LEMMA ThousandsGo ==
  ASSUME NEW T, NEW text \in Seq(T), NEW thousands, NEW decimal,
         thousands \notin Digits, thousands # decimal
  PROVE  Delete(Keep(text, Digits \cup {thousands, decimal}), thousands)
           = Keep(text, Digits \cup {decimal})
<1> DEFINE A == Digits \cup {thousands, decimal}
           B == Digits \cup {decimal}
           kept == Keep(text, A)
<1>1. kept \in Seq(A)
  <2>1. T \cap A \subseteq A
    OBVIOUS
  <2> HIDE DEF A
  <2> QED
    BY <2>1, KeptAre
<1>2. thousands \notin B /\ A \subseteq B \cup {thousands} /\ A \cap B = B
  OBVIOUS
<1> HIDE DEF A, B
<1>3. Keep(kept, B) = Keep(text, B)
  BY <1>2, KeepTwice
<1>4. Delete(kept, thousands) = Keep(kept, B)
  <2> HIDE DEF kept
  <2> QED
    BY <1>1, <1>2, WithoutOne
<1> QED
  BY <1>3, <1>4 DEF A, B

(* s is u and the three elements of v.                                     *)
ThreeMore(s, u, v, n, T) ==
  /\ n \in Nat /\ s \in Seq(T) /\ Len(s) = n + 3 /\ DOMAIN s = 1..n + 3
  /\ \A i \in 1..n : s[i] = u[i]
  /\ s[n + 1] = v[1] /\ s[n + 2] = v[2] /\ s[n + 3] = v[3]

LEMMA ThreeJoined ==
  ASSUME NEW T, NEW u \in Seq(T), NEW v \in Seq(T), Len(v) = 3
  PROVE  ThreeMore(u \o v, u, v, Len(u), T)
<1> DEFINE s == u \o v
           n == Len(u)
<1>0. /\ Len(u) \in Nat /\ u \o v \in Seq(T) /\ Len(u \o v) = Len(u) + Len(v)
      /\ \A i \in 1..Len(u) + Len(v) :
           (u \o v)[i] = IF i <= Len(u) THEN u[i] ELSE v[i - Len(u)]
  BY JoinFacts
<1>1. n \in Nat /\ s \in Seq(T) /\ Len(s) = n + 3
  BY <1>0
<1>3. \A i \in 1..n + 3 : s[i] = IF i <= n THEN u[i] ELSE v[i - n]
  BY <1>0
<1> HIDE DEF s, n
<1>2. DOMAIN s = 1..n + 3
  BY <1>1
<1>4. n + 1 \in 1..n + 3 /\ ~(n + 1 <= n) /\ (n + 1) - n = 1
  BY <1>1
<1>5. n + 2 \in 1..n + 3 /\ ~(n + 2 <= n) /\ (n + 2) - n = 2
  BY <1>1
<1>6. n + 3 \in 1..n + 3 /\ ~(n + 3 <= n) /\ (n + 3) - n = 3
  BY <1>1
<1>7. s[n + 1] = v[1]
  BY <1>3, <1>4
<1>8. s[n + 2] = v[2]
  BY <1>3, <1>5
<1>9. s[n + 3] = v[3]
  BY <1>3, <1>6
<1>10. \A i \in 1..n : i \in 1..n + 3 /\ i <= n
  BY <1>1
<1>11. \A i \in 1..n : s[i] = u[i]
  BY <1>3, <1>10
<1> QED
  BY <1>1, <1>2, <1>7, <1>8, <1>9, <1>11 DEF ThreeMore, s, n

LEMMA ThreeAppended ==
  ASSUME NEW T, NEW u \in Seq(T), NEW x \in T, NEW y \in T, NEW z \in T
  PROVE  /\ u \o <<x, y, z>> = Append(Append(Append(u, x), y), z)
         /\ Append(u, x) \in Seq(T) /\ Append(Append(u, x), y) \in Seq(T)
         /\ Append(Append(Append(u, x), y), z) \in Seq(T)
<1>1. PICK v : v = <<x, y, z>>
  OBVIOUS
<1>2. PICK a : a = Append(u, x)
  OBVIOUS
<1>3. a \in Seq(T) /\ Len(a) = Len(u) + 1 /\ a[Len(u) + 1] = x /\ \A i \in 1..Len(u) : a[i] = u[i]
  BY <1>2
<1>4. PICK b : b = Append(a, y)
  OBVIOUS
<1>5. b \in Seq(T) /\ Len(b) = Len(u) + 2 /\ b[Len(u) + 2] = y /\ b[Len(u) + 1] = x
      /\ \A i \in 1..Len(u) : b[i] = u[i]
  BY <1>3, <1>4
<1>6. PICK c : c = Append(b, z)
  OBVIOUS
<1>7. c \in Seq(T) /\ Len(c) = Len(u) + 3 /\ c[Len(u) + 3] = z /\ c[Len(u) + 2] = y
      /\ c[Len(u) + 1] = x /\ \A i \in 1..Len(u) : c[i] = u[i]
  BY <1>5, <1>6
<1>8. v \in Seq(T) /\ Len(v) = 3 /\ v[1] = x /\ v[2] = y /\ v[3] = z
  BY <1>1
<1>9. u \o v = c
  <2>1. PICK s : s = u \o v
    OBVIOUS
  <2>2. PICK n : n = Len(u)
    OBVIOUS
  <2>3. /\ n \in Nat /\ s \in Seq(T) /\ Len(s) = n + 3 /\ DOMAIN s = 1..n + 3
        /\ \A i \in 1..n : s[i] = u[i]
        /\ s[n + 1] = v[1] /\ s[n + 2] = v[2] /\ s[n + 3] = v[3]
    <3>1. ThreeMore(u \o v, u, v, Len(u), T)
      BY <1>8, ThreeJoined
    <3> QED
      BY <2>1, <2>2, <3>1 DEF ThreeMore
  <2>4. \A i \in 1..n + 3 : i \in 1..n \/ i = n + 1 \/ i = n + 2 \/ i = n + 3
    BY <2>3
  <2>5. \A i \in 1..n + 3 : s[i] = c[i]
    BY <1>7, <1>8, <2>2, <2>3, <2>4
  <2>6. s = c
    BY <1>7, <2>2, <2>3, <2>5
  <2> QED
    BY <2>1, <2>6
<1> QED
  BY <1>1, <1>2, <1>3, <1>4, <1>5, <1>6, <1>7, <1>9

(* A price with two decimals.                                              *)
LEMMA DecimalAmount ==
  ASSUME NEW whole \in Seq(Digits), NEW x \in Digits, NEW y \in Digits
  PROVE  Hundredths(whole \o <<Point, x, y>>) = 100 * Integral(whole) + 10 * x + y
<1> DEFINE T == Digits \cup {Point}
           n == Len(whole)
           a == Append(whole, Point)
           b == Append(a, x)
           kept == Append(b, y)
           d == Append(whole, x)
           e == Append(d, y)
           points == {i \in DOMAIN kept : kept[i] = Point}
<1>0. Point \notin Digits /\ x \in T /\ y \in T /\ Point \in T
  BY Characters
<1>1. whole \in Seq(T) /\ n \in Nat
  OBVIOUS
<1>2. /\ whole \o <<Point, x, y>> = kept
      /\ a \in Seq(T) /\ b \in Seq(T) /\ kept \in Seq(T)
  <2> HIDE DEF T
  <2> QED
    BY <1>0, <1>1, ThreeAppended
<1>3. Delete(kept, Point) = e
  <2>1. Delete(kept, Point) = Keep(kept, Digits)
    <3>1. T \subseteq Digits \cup {Point}
      OBVIOUS
    <3> HIDE DEF T, kept
    <3> QED
      BY <1>0, <1>2, <3>1, WithoutOne
  <2>2. Keep(whole, Digits) = whole
    <3>1. \A i \in DOMAIN whole : whole[i] \in Digits
      OBVIOUS
    <3> QED
      BY <3>1, KeptWhole
  <2>3. Keep(a, Digits) = whole
    <3> HIDE DEF T
    <3> QED
      BY <1>0, <1>1, <2>2, KeepAppend
  <2>4. Keep(b, Digits) = d
    <3> HIDE DEF T, a
    <3> QED
      BY <1>0, <1>2, <2>3, KeepAppend
  <2>5. Keep(kept, Digits) = e
    <3> HIDE DEF T, a, b, d
    <3> QED
      BY <1>0, <1>2, <2>4, KeepAppend
  <2> QED
    BY <2>1, <2>5
<1>4. d \in Seq(Digits) /\ Integral(whole) \in Nat /\ Integral(d) = 10 * Integral(whole) + x
  BY IntegralAppend, AppendJoins
<1>5. e \in Seq(Digits) /\ e # <<>> /\ Integral(e) = 10 * Integral(d) + y
  <2> HIDE DEF d
  <2>1. e \in Seq(Digits) /\ Integral(e) = 10 * Integral(d) + y
    BY <1>4, IntegralAppend, AppendJoins
  <2>2. Len(e) = Len(d) + 1 /\ Len(d) \in Nat
    BY <1>4
  <2>3. Len(e) # 0
    BY <2>2
  <2> HIDE DEF e
  <2>4. e # <<>>
    BY <2>1, <2>3
  <2> QED
    BY <2>1, <2>4
<1>6. Len(kept) = n + 3 /\ points = {n + 1}
  <2>1. Len(a) = n + 1 /\ a[n + 1] = Point /\ \A i \in 1..n : a[i] = whole[i]
    BY <1>1
  <2> HIDE DEF a
  <2>2. Len(b) = n + 2 /\ b[n + 2] = x /\ \A i \in 1..n + 1 : b[i] = a[i]
    BY <1>1, <1>2, <2>1
  <2> HIDE DEF b
  <2>3. /\ Len(kept) = n + 3 /\ kept[n + 3] = y /\ DOMAIN kept = 1..n + 3
        /\ \A i \in 1..n + 2 : kept[i] = b[i]
    BY <1>1, <1>2, <2>2
  <2> HIDE DEF kept
  <2>4. \A i \in 1..n : whole[i] # Point
    BY <1>0
  <2>5. \A i \in 1..n + 3 : kept[i] = Point <=> i = n + 1
    <3> TAKE i \in 1..n + 3
    <3>1. i \in 1..n \/ i = n + 1 \/ i = n + 2 \/ i = n + 3
      BY <1>1
    <3>2. x # Point /\ y # Point
      BY <1>0
    <3>3. CASE i \in 1..n
      BY <1>1, <2>1, <2>2, <2>3, <2>4, <3>3
    <3>4. CASE i = n + 1
      BY <1>1, <2>1, <2>2, <2>3, <3>4
    <3>5. CASE i = n + 2
      BY <1>1, <2>2, <2>3, <3>2, <3>5
    <3>6. CASE i = n + 3
      BY <1>1, <2>3, <3>2, <3>6
    <3> QED
      BY <3>1, <3>3, <3>4, <3>5, <3>6
  <2> QED
    BY <1>1, <2>3, <2>5
<1>7. Hundredths(kept) =
        IF e = <<>> \/ Cardinality(points) > 1 THEN None
        ELSE Integral(e) * 10 ^ (2 - (IF points = {} THEN 0
                                      ELSE Len(kept) - CHOOSE i \in points : TRUE))
  BY <1>3 DEF Hundredths
<1> HIDE DEF kept, points
<1>8. ~(Cardinality(points) > 1)
  <2>1. Cardinality(points) = 1
    BY <1>6, FS_Singleton
  <2> QED
    BY <2>1
<1>9. points # {} /\ (CHOOSE i \in points : TRUE) = n + 1
  BY <1>6
<1>10. Len(kept) - (n + 1) = 2
  BY <1>1, <1>6
<1>11. 10 ^ (2 - 2) = 1
  OBVIOUS
<1> HIDE DEF e, d, n
<1>12. Hundredths(kept) = Integral(e) * 10 ^ (2 - 2)
  BY <1>5, <1>7, <1>8, <1>9, <1>10
<1>13. Integral(e) = 100 * Integral(whole) + 10 * x + y /\ Integral(e) \in Int
  BY <1>4, <1>5 DEF Digits
<1>14. Hundredths(kept) = Integral(e)
  BY <1>11, <1>12, <1>13
<1> QED
  BY <1>2, <1>13, <1>14

(* One whose decimals are taken for digits of the whole part.              *)
LEMMA DecimalsJoined ==
  ASSUME NEW whole \in Seq(Digits), NEW x \in Digits, NEW y \in Digits
  PROVE  /\ whole \o <<x, y>> \in Seq(Digits) /\ whole \o <<x, y>> # <<>>
         /\ Integral(whole \o <<x, y>>) = 100 * Integral(whole) + 10 * x + y
<1> DEFINE T == Digits
<1>1. PICK d : d = Append(whole, x)
  OBVIOUS
<1>2. PICK e : e = Append(d, y)
  OBVIOUS
<1>3. d \in Seq(Digits) /\ Integral(whole) \in Nat /\ Integral(d) = 10 * Integral(whole) + x
  BY <1>1, IntegralAppend, AppendJoins
<1>4. e \in Seq(Digits) /\ Integral(e) = 10 * Integral(d) + y /\ Len(e) = Len(d) + 1
  BY <1>2, <1>3, IntegralAppend, AppendJoins
<1>5. PICK v : v = <<x, y>>
  OBVIOUS
<1>6. v \in Seq(Digits) /\ Len(v) = 2 /\ v[1] = x /\ v[2] = y
  BY <1>5
<1>7. whole \o v = e
  <2>1. PICK n : n = Len(whole)
    OBVIOUS
  <2>2. n \in Nat /\ Len(d) = n + 1 /\ d[n + 1] = x /\ \A i \in 1..n : d[i] = whole[i]
    BY <1>1, <2>1
  <2>3. Len(e) = n + 2 /\ e[n + 2] = y /\ \A i \in 1..n + 1 : e[i] = d[i]
    BY <1>2, <1>3, <2>2
  <2>4. PICK s : s = whole \o v
    OBVIOUS
  <2>5. /\ s \in Seq(Digits) /\ Len(s) = n + 2
        /\ \A i \in 1..n + 2 : s[i] = IF i <= n THEN whole[i] ELSE v[i - n]
    <3>1. /\ whole \o v \in Seq(Digits) /\ Len(whole \o v) = Len(whole) + Len(v)
          /\ \A i \in 1..Len(whole) + Len(v) :
               (whole \o v)[i] = IF i <= Len(whole) THEN whole[i] ELSE v[i - Len(whole)]
      BY <1>6, JoinFacts
    <3> QED
      BY <1>6, <2>1, <2>4, <3>1
  <2>6. \A i \in 1..n + 2 : i \in 1..n \/ i = n + 1 \/ i = n + 2
    BY <2>2
  <2>7. n + 1 \in 1..n + 2 /\ n + 2 \in 1..n + 2 /\ (n + 1) - n = 1 /\ (n + 2) - n = 2
    BY <2>2
  <2>8. s[n + 1] = x /\ s[n + 2] = y
    BY <1>6, <2>2, <2>5, <2>7
  <2>9. \A i \in 1..n + 2 : s[i] = e[i]
    BY <2>2, <2>3, <2>5, <2>6, <2>8
  <2>10. s = e
    BY <1>4, <2>3, <2>5, <2>9
  <2> QED
    BY <2>4, <2>10
<1>8. Integral(e) = 100 * Integral(whole) + 10 * x + y
  BY <1>3, <1>4 DEF Digits
<1>9. Len(e) # 0
  BY <1>3, <1>4
<1>10. e # <<>>
  BY <1>4, <1>9
<1> QED
  BY <1>4, <1>5, <1>7, <1>8, <1>10

LEMMA ReplacedDecimal ==
  ASSUME NEW whole \in Seq(Digits), NEW x \in Digits, NEW y \in Digits, NEW decimal,
         decimal \notin Digits
  PROVE  Replace(whole \o <<decimal, x, y>>, decimal, Point) = whole \o <<Point, x, y>>
<1>1. PICK v : v = <<decimal, x, y>>
  OBVIOUS
<1>2. PICK w : w = <<Point, x, y>>
  OBVIOUS
<1> DEFINE n == Len(whole)
           T == Digits \cup {decimal, Point}
<1>3. v \in Seq(T) /\ Len(v) = 3 /\ v[1] = decimal /\ v[2] = x /\ v[3] = y
  BY <1>1
<1>4. w \in Seq(T) /\ Len(w) = 3 /\ w[1] = Point /\ w[2] = x /\ w[3] = y
  BY <1>2
<1>5. n \in Nat /\ whole \in Seq(T) /\ \A i \in 1..n : whole[i] # decimal
  OBVIOUS
<1>6. PICK s : s = whole \o v
  OBVIOUS
<1>7. PICK t : t = whole \o w
  OBVIOUS
<1> HIDE DEF T
<1>8. s \in Seq(T) /\ DOMAIN s = 1..n + 3 /\ Len(s) = n + 3
      /\ (\A i \in 1..n : s[i] = whole[i]) /\ s[n + 1] = decimal /\ s[n + 2] = x /\ s[n + 3] = y
  <2>1. ThreeMore(whole \o v, whole, v, n, T)
    BY <1>3, <1>5, ThreeJoined
  <2> QED
    BY <1>3, <1>6, <2>1 DEF ThreeMore
<1>9. t \in Seq(T) /\ DOMAIN t = 1..n + 3 /\ Len(t) = n + 3
      /\ (\A i \in 1..n : t[i] = whole[i]) /\ t[n + 1] = Point /\ t[n + 2] = x /\ t[n + 3] = y
  <2>1. ThreeMore(whole \o w, whole, w, n, T)
    BY <1>4, <1>5, ThreeJoined
  <2> QED
    BY <1>4, <1>7, <2>1 DEF ThreeMore
<1> DEFINE r == [i \in DOMAIN s |-> IF s[i] = decimal THEN Point ELSE s[i]]
<1>10. \A i \in 1..n + 3 : r[i] = t[i]
  <2> TAKE i \in 1..n + 3
  <2>1. i \in 1..n \/ i = n + 1 \/ i = n + 2 \/ i = n + 3
    BY <1>5
  <2>2. r[i] = IF s[i] = decimal THEN Point ELSE s[i]
    BY <1>8
  <2>3. x # decimal /\ y # decimal
    OBVIOUS
  <2> HIDE DEF r
  <2> QED
    BY <1>5, <1>8, <1>9, <2>1, <2>2, <2>3
<1>11. r = t
  <2>1. DOMAIN r = 1..n + 3 /\ r = [i \in 1..n + 3 |-> r[i]]
    BY <1>8
  <2>2. t = [i \in 1..n + 3 |-> t[i]]
    BY <1>9
  <2> HIDE DEF r
  <2> QED
    BY <1>10, <2>1, <2>2
<1>12. Replace(s, decimal, Point) = r
  BY DEF Replace
<1> QED
  BY <1>1, <1>2, <1>6, <1>7, <1>11, <1>12

LEMMA KeepJoins ==
  \A T, A, x, y : x \in Seq(T) /\ y \in Seq(T) => Keep(x \o y, A) = Keep(x, A) \o Keep(y, A)
<1> TAKE T, A, x, y
<1> HAVE x \in Seq(T) /\ y \in Seq(T)
<1> QED
  BY KeepJoin

LEMMA KeepAll ==
  ASSUME NEW T, NEW A, NEW t, NEW u, NEW v, NEW w,
         t \in Seq(T) /\ u \in Seq(T) /\ v \in Seq(T) /\ w \in Seq(T)
  PROVE  /\ t \o u \o v \o w \in Seq(T)
         /\ Keep(t \o u \o v \o w, A) = Keep(t, A) \o Keep(u, A) \o Keep(v, A) \o Keep(w, A)
<1> DEFINE S == Seq(T)
           Join(x, y) == x \o y
           Kept(x) == Keep(x, A)
<1>1. \A x, y : x \in S /\ y \in S => Join(x, y) \in S /\ Kept(Join(x, y)) = Join(Kept(x), Kept(y))
  <2> SUFFICES ASSUME NEW x, NEW y, x \in Seq(T) /\ y \in Seq(T)
               PROVE  x \o y \in Seq(T) /\ Keep(x \o y, A) = Keep(x, A) \o Keep(y, A)
    OBVIOUS
  <2>1. x \o y \in Seq(T)
    OBVIOUS
  <2>2. Keep(x \o y, A) = Keep(x, A) \o Keep(y, A)
    BY KeepJoins
  <2> QED
    BY <2>1, <2>2
<1>2. t \in S /\ u \in S /\ v \in S /\ w \in S
  OBVIOUS
<1>3. /\ Join(Join(Join(t, u), v), w) = t \o u \o v \o w
      /\ Join(Join(Join(Kept(t), Kept(u)), Kept(v)), Kept(w))
           = Keep(t, A) \o Keep(u, A) \o Keep(v, A) \o Keep(w, A)
      /\ \A x : Kept(x) = Keep(x, A)
  OBVIOUS
<1>4. t \o u \o v \o w \in S <=> t \o u \o v \o w \in Seq(T)
  OBVIOUS
<1> HIDE DEF S, Join, Kept
<1>5. Join(t, u) \in S /\ Kept(Join(t, u)) = Join(Kept(t), Kept(u))
  BY <1>1, <1>2
<1>6. /\ Join(Join(t, u), v) \in S
      /\ Kept(Join(Join(t, u), v)) = Join(Join(Kept(t), Kept(u)), Kept(v))
  BY <1>1, <1>2, <1>5
<1>7. /\ Join(Join(Join(t, u), v), w) \in S
      /\ Kept(Join(Join(Join(t, u), v), w)) = Join(Join(Join(Kept(t), Kept(u)), Kept(v)), Kept(w))
  BY <1>1, <1>2, <1>6
<1> QED
  BY <1>3, <1>4, <1>7

LEMMA EmptyEnds ==
  ASSUME NEW T, NEW u \in Seq(T), NEW v \in Seq(T)
  PROVE  <<>> \o u \o v \o <<>> = u \o v
<1>1. <<>> \o u = u
  OBVIOUS
<1>2. PICK w : w = u \o v
  OBVIOUS
<1>3. w \in Seq(T)
  BY <1>2
<1>4. w \o <<>> = w
  BY <1>3
<1> QED
  BY <1>1, <1>2, <1>4

LEMMA SignsAreLost ==
  ASSUME NEW A, Sign \notin A, Space \notin A
  PROVE  Keep(<<Sign, Space>>, A) = <<>> /\ Keep(<<Sign>>, A) = <<>>
<1>1. <<Sign, Space>> \in Seq({Sign, Space}) /\ {Sign, Space} \cap A = {}
  OBVIOUS
<1>2. Keep(<<Sign, Space>>, A) = <<>>
  BY <1>1, NothingKept
<1> QED
  BY <1>2, KeepOne

LEMMA AmountSplit ==
  ASSUME NEW a \in Nat
  PROVE  /\ a \div 100 \in Nat /\ (a % 100) \div 10 \in Digits /\ a % 10 \in Digits
         /\ a = 100 * (a \div 100) + 10 * ((a % 100) \div 10) + (a % 10)
         /\ (a % 100 = 0 => a = 100 * (a \div 100))
BY DEF Digits

(* What is left of a displayed price once the separators of the thousands  *)
(* and the currency's sign are gone.                                       *)
LEMMA DisplayKept ==
  ASSUME NEW code \in Currencies, NEW a \in Nat, NEW text \in Displays(a, code)
  PROVE  LET f == Formats[code]
             whole == DigitsOf(a \div 100)
             shown == IF a % 100 = 0 THEN <<>>
                      ELSE IF f.decimal = None THEN <<(a % 100) \div 10, a % 10>>
                      ELSE <<f.decimal, (a % 100) \div 10, a % 10>>
         IN /\ text \in Seq(Printed) /\ text # <<>>
            /\ Keep(text, Digits \cup {f.decimal}) = whole \o shown
<1> DEFINE f == Formats[code]
           whole == DigitsOf(a \div 100)
           groups == InGroups(whole, f.thousands)
           x == (a % 100) \div 10
           y == a % 10
           printed == IF a % 100 = 0 THEN <<>> ELSE <<DecimalSign(code), x, y>>
           shown == IF a % 100 = 0 THEN <<>>
                    ELSE IF f.decimal = None THEN <<x, y>> ELSE <<f.decimal, x, y>>
           B == Digits \cup {f.decimal}
<1>1. /\ f.thousands \in {Comma, Point, Space} /\ f.decimal \in {Comma, Point, None}
      /\ f.thousands # f.decimal /\ f.thousands \notin Digits
  BY FormatFacts
<1>2. PICK w \in {whole, groups} : text = <<Sign, Space>> \o w \o printed \o <<Sign>>
  BY DEF Displays
<1>3. /\ DecimalSign(code) \in {Comma, Point}
      /\ f.decimal # None => DecimalSign(code) = f.decimal
  BY Characters
     DEF DecimalSign, Formats, Currencies, DecimalPoint, DecimalComma, WholeUnits
<1>4. a \div 100 \in Nat /\ x \in Digits /\ y \in Digits
  BY AmountSplit
<1>5. whole \in Seq(Digits) /\ whole # <<>>
  BY <1>4, DigitsAreOf
<1> HIDE DEF f, x, y, whole
<1>6. Digits \subseteq B /\ f.thousands \notin B /\ Sign \notin B /\ Space \notin B
  BY <1>1, Characters
<1>7. w \in Seq(Printed) /\ Keep(w, B) = whole
  <2>1. \A i \in DOMAIN whole : whole[i] \in B
    BY <1>5, <1>6
  <2> HIDE DEF B
  <2>2. groups \in Seq(Digits \cup {f.thousands}) /\ Keep(groups, B) = whole
    BY <1>5, <1>6, GroupsAreDigits
  <2>3. Keep(whole, B) = whole
    BY <1>5, <2>1, KeptWhole
  <2>4. Digits \subseteq Printed /\ Digits \cup {f.thousands} \subseteq Printed
    BY <1>1 DEF Printed
  <2>5. whole \in Seq(Printed) /\ groups \in Seq(Printed)
    <3> HIDE DEF groups
    <3> QED
      BY <1>5, <2>2, <2>4
  <2> QED
    BY <2>2, <2>3, <2>5
<1>8. printed \in Seq(Printed) /\ shown \in Seq(Printed) /\ Keep(printed, B) = shown
  <2>1. CASE a % 100 = 0
    BY <2>1, NoText
  <2>2. CASE a % 100 # 0
    <3>1. PICK sign : sign = DecimalSign(code)
      OBVIOUS
    <3>2. PICK v : v = <<sign, x, y>>
      OBVIOUS
    <3>3. sign \in Printed /\ x \in Printed /\ y \in Printed /\ v \in Seq(Printed)
      BY <1>3, <1>4, <3>1, <3>2 DEF Printed
    <3>4. PICK u : u = <<x, y>>
      OBVIOUS
    <3>5. u \in Seq(Digits) /\ u \in Seq(Printed) /\ \A i \in DOMAIN u : u[i] \in B
      BY <1>4, <3>3, <3>4
    <3>6. CASE f.decimal # None
      <4>1. sign = f.decimal /\ v \in Seq(B) /\ \A i \in DOMAIN v : v[i] \in B
        BY <1>3, <1>4, <3>1, <3>2, <3>6
      <4> HIDE DEF B
      <4>2. Keep(v, B) = v
        BY <4>1, KeptWhole
      <4> QED
        BY <2>2, <3>1, <3>2, <3>3, <3>6, <4>1, <4>2
    <3>7. CASE f.decimal = None
      <4>1. sign \notin B
        BY <1>3, <3>1, <3>7, Characters
      <4> HIDE DEF B
      <4>2. PICK t : t = <<sign>>
        OBVIOUS
      <4>3. t \in Seq(Printed) /\ u \in Seq(Printed)
        BY <3>3, <3>5, <4>2
      <4>8. t \o u = v
        BY <3>2, <3>3, <3>4, <4>2, OneAndTwo
      <4>4. Keep(t, B) = <<>> /\ Keep(u, B) = u
        BY <3>5, <4>1, <4>2, KeepOne, KeptWhole
      <4>5. Keep(t \o u, B) = Keep(t, B) \o Keep(u, B)
        BY <4>3, KeepJoins
      <4>6. <<>> \o u = u
        BY <3>5
      <4>7. Keep(v, B) = u
        BY <4>4, <4>5, <4>6, <4>8
      <4> QED
        BY <2>2, <3>1, <3>2, <3>3, <3>4, <3>5, <3>7, <4>7
    <3> QED
      BY <3>6, <3>7
  <2> QED
    BY <2>1, <2>2
<1> HIDE DEF shown, printed, B, groups
<1>9. Keep(<<Sign, Space>>, B) = <<>> /\ Keep(<<Sign>>, B) = <<>>
  BY <1>6, SignsAreLost
<1>10. Sign \in Printed /\ Space \in Printed
  BY DEF Printed
<1>11. PICK before : before = <<Sign, Space>>
  OBVIOUS
<1>12. PICK after : after = <<Sign>>
  OBVIOUS
<1>13. before \in Seq(Printed) /\ after \in Seq(Printed)
  BY <1>10, <1>11, <1>12
<1>14. before \o w \o printed \o after \in Seq(Printed)
  BY <1>7, <1>8, <1>13, KeepAll
<1>15. Keep(before \o w \o printed \o after, B) = whole \o shown
  <2>1. Keep(before \o w \o printed \o after, B)
          = Keep(before, B) \o Keep(w, B) \o Keep(printed, B) \o Keep(after, B)
    <3>1. /\ before \in Seq(Printed) /\ w \in Seq(Printed) /\ printed \in Seq(Printed)
          /\ after \in Seq(Printed)
      BY <1>7, <1>8, <1>13
    <3> QED
      BY <3>1, KeepAll
  <2>2. Keep(before, B) = <<>> /\ Keep(after, B) = <<>>
    BY <1>9, <1>11, <1>12
  <2>3. whole \in Seq(Printed)
    <3>1. Digits \subseteq Printed
      BY DEF Printed
    <3> QED
      BY <1>5, <3>1
  <2>4. <<>> \o whole \o shown \o <<>> = whole \o shown
    BY <1>8, <2>3, EmptyEnds
  <2> QED
    BY <1>7, <1>8, <2>1, <2>2, <2>4
<1>16. text \in Seq(Printed) /\ Keep(text, B) = whole \o shown
  BY <1>2, <1>11, <1>12, <1>14, <1>15
<1>17. text # <<>>
  <2> SUFFICES ASSUME text = <<>> PROVE FALSE
    OBVIOUS
  <2>1. PICK front : front = before \o w \o printed
    OBVIOUS
  <2>2. front \in Seq(Printed)
    <3>1. PICK u : u = before \o w
      OBVIOUS
    <3>2. u \in Seq(Printed)
      BY <1>7, <1>13, <3>1, JoinFacts
    <3> QED
      BY <1>8, <2>1, <3>1, <3>2, JoinFacts
  <2>3. Len(front \o after) = Len(front) + Len(after) /\ Len(front) \in Nat
    BY <1>13, <2>2, JoinFacts
  <2>4. Len(after) = 1 /\ Len(<<>>) = 0
    BY <1>12
  <2>5. front \o after = <<>>
    BY <1>2, <1>11, <1>12, <2>1
  <2> QED
    BY <2>3, <2>4, <2>5
<1> QED
  BY <1>16, <1>17 DEF f, whole, shown, B, x, y

(* What both parsers find in the text that displays an amount, with its    *)
(* thousands in groups or not: the amount, in every currency on record and *)
(* for every amount, but for decimals in the currencies that are on record *)
(* without any: those make it a hundred times what it is.                  *)
THEOREM PricesAlwaysReadBack == MoneySpec => []PricesReadBack
<1>1. ASSUME NEW code \in Currencies, NEW a \in Amounts, NEW text \in Displays(a, code)
      PROVE  LET read == IF code \in WholeUnits /\ a % 100 # 0 THEN 100 * a ELSE a
             IN  ParsePrice(text, code) = read /\ ParsePriceSql(text, code) = read
  <2> DEFINE f == Formats[code]
             whole == DigitsOf(a \div 100)
             x == (a % 100) \div 10
             y == a % 10
             shown == IF a % 100 = 0 THEN <<>>
                      ELSE IF f.decimal = None THEN <<x, y>> ELSE <<f.decimal, x, y>>
  <2>1. a \in Nat
    BY TextDigitsAre
  <2>2. /\ text \in Seq(Printed) /\ text # <<>>
        /\ Keep(text, Digits \cup {f.decimal}) = whole \o shown
    BY <1>1, <2>1, DisplayKept
  <2>3. /\ f.thousands \notin Digits /\ f.thousands # f.decimal /\ f.decimal \notin Digits
        /\ f.decimal = None <=> code \in WholeUnits
    BY FormatFacts, Characters
       DEF Formats, Currencies, DecimalPoint, DecimalComma, WholeUnits
  <2>4. /\ a \div 100 \in Nat /\ x \in Digits /\ y \in Digits
        /\ a = 100 * (a \div 100) + 10 * x + y
        /\ (a % 100 = 0 => a = 100 * (a \div 100))
    BY <2>1, AmountSplit
  <2>5. whole \in Seq(Digits) /\ whole # <<>> /\ Integral(whole) = a \div 100
    BY <2>4, DigitsAreOf
  <2> HIDE DEF f, x, y, whole
  <2>6. Delete(Keep(text, Digits \cup {f.thousands, f.decimal}), f.thousands) = whole \o shown
    <3> HIDE DEF shown
    <3> QED
      BY <2>2, <2>3, ThousandsGo
  <2>7. ParsePrice(text, code) = Hundredths(Replace(whole \o shown, f.decimal, Point))
    <3> HIDE DEF shown
    <3> QED
      BY <2>2, <2>6 DEF ParsePrice, f
  <2>8. CASE a % 100 = 0
    <3>1. whole \o shown = whole
      BY <2>5, <2>8
    <3>2. Replace(whole, f.decimal, Point) = whole
      BY <2>3, <2>5, NothingToReplace
    <3>3. Hundredths(whole) = Integral(whole) * 100
      BY <2>5, WholeAmount
    <3> HIDE DEF shown
    <3> QED
      BY <2>2, <2>4, <2>5, <2>7, <2>8, <3>1, <3>2, <3>3, SameReading
  <2>9. CASE a % 100 # 0 /\ f.decimal # None
    <3>1. shown = <<f.decimal, x, y>>
      BY <2>9
    <3>2. Replace(whole \o <<f.decimal, x, y>>, f.decimal, Point) = whole \o <<Point, x, y>>
      BY <2>3, <2>4, <2>5, ReplacedDecimal
    <3>3. Hundredths(whole \o <<Point, x, y>>) = 100 * Integral(whole) + 10 * x + y
      BY <2>4, <2>5, DecimalAmount
    <3> HIDE DEF shown
    <3>4. Hundredths(Replace(whole \o shown, f.decimal, Point)) = a
      BY <2>4, <2>5, <3>1, <3>2, <3>3
    <3> QED
      BY <2>2, <2>3, <2>7, <2>9, <3>4, SameReading
  <2>10. CASE a % 100 # 0 /\ f.decimal = None
    <3>1. shown = <<x, y>>
      BY <2>10
    <3>2. PICK digits : digits = whole \o <<x, y>>
      OBVIOUS
    <3>3. /\ digits \in Seq(Digits) /\ digits # <<>>
          /\ Integral(digits) = 100 * Integral(whole) + 10 * x + y
      BY <2>4, <2>5, <3>2, DecimalsJoined
    <3>4. Replace(digits, f.decimal, Point) = digits
      BY <2>3, <3>3, NothingToReplace
    <3>5. Hundredths(digits) = Integral(digits) * 100
      BY <3>3, WholeAmount
    <3>6. Integral(digits) = a
      BY <2>4, <2>5, <3>3
    <3> HIDE DEF shown
    <3>8. ParsePrice(text, code) = Hundredths(digits)
      BY <2>7, <3>1, <3>2, <3>4
    <3>7. ParsePrice(text, code) = 100 * a
      BY <2>1, <3>5, <3>6, <3>8, <3>3
    <3> QED
      BY <2>2, <2>3, <2>10, <3>7, SameReading
  <2> QED
    BY <2>8, <2>9, <2>10
<1>2. PricesReadBack
  BY <1>1 DEF PricesReadBack
<1> QED
  BY <1>2, PTL

-----------------------------------------------------------------------------
(* The depth of an order book.                                             *)

USE DepthAssumption

(* An answer holds whole levels.                                           *)
OrdersInv == orders = <<>> \/ orders \in Compact

LEMMA OrdersStep == OrdersInv /\ [DepthNext]_orders => OrdersInv'
BY DEF OrdersInv, DepthNext

LEMMA LevelFacts ==
  ASSUME OrdersInv, orders # <<>>
  PROVE  /\ Levels # {} /\ Levels \subseteq Nat
         /\ IsFiniteSet(Levels)
         /\ \A i \in Levels : orders[i] \in BookPrices /\ orders[i] \in Nat
         /\ \A i \in Levels : orders[i + 1] \in Quantities /\ orders[i + 1] \in Nat
<1>1. PICK n \in 0..MaxLevels :
        orders \in {o \in [1..2 * n -> BookPrices \cup Quantities] :
                     \A i \in 1..n : o[2 * i - 1] \in BookPrices /\ o[2 * i] \in Quantities}
  BY DEF OrdersInv, Compact
<1>2. n \in Nat /\ n # 0
  <2>1. n \in Nat OBVIOUS
  <2>2. ASSUME n = 0 PROVE FALSE
    <3>1. 1..2 * n = {} BY <2>2
    <3> QED BY <1>1, <3>1
  <2> QED BY <2>1, <2>2
<1>3. DOMAIN orders = 1..2 * n
  BY <1>1
<1>4. Levels = {i \in 1..2 * n : i % 2 = 1 /\ i + 1 <= 2 * n}
  BY <1>2, <1>3 DEF Levels
<1>5. 1 \in Levels
  BY <1>2, <1>4
<1>6. ASSUME NEW i \in Levels
      PROVE  orders[i] \in BookPrices /\ orders[i + 1] \in Quantities
  <2>1. i \in Nat /\ i % 2 = 1 /\ i + 1 <= 2 * n
    BY <1>2, <1>4
  <2>2. PICK k \in 1..n : 2 * k = i + 1
    <3>1. (i + 1) \div 2 \in 1..n /\ 2 * ((i + 1) \div 2) = i + 1
      BY <1>2, <2>1
    <3> QED BY <3>1
  <2>3. orders[2 * k - 1] \in BookPrices /\ orders[2 * k] \in Quantities
    BY <1>1
  <2>4. 2 * k - 1 = i
    BY <1>2, <2>1, <2>2
  <2> QED BY <2>2, <2>3, <2>4
<1>7. IsFiniteSet(Levels)
  <2>1. Levels \in SUBSET (1..2 * n) /\ IsFiniteSet(1..2 * n)
    BY <1>2, <1>4, FS_Interval
  <2> QED BY <2>1, FS_Subset
<1>8. Levels \subseteq Nat
  BY <1>2, <1>4
<1> QED
  BY <1>5, <1>6, <1>7, <1>8

(* The SQL port of depth_within_pct gives what the job gives, for any      *)
(* book, mid and band, but for a band without an order, which one calls    *)
(* missing and the other empty.                                            *)
THEOREM PortAlwaysAgrees == DepthSpec => []PortAgrees
<1>1. DepthInit => OrdersInv
  BY DEF DepthInit, OrdersInv
<1>2. OrdersInv => PortAgrees
  <2> SUFFICES ASSUME OrdersInv, orders # <<>>,
                      NEW mid2 \in Mids \ {0}, NEW pct \in Bands, NEW side \in Sides
               PROVE  \/ DepthSql(mid2, pct, side) = DepthWithinPct(mid2, pct, side)
                      \/ /\ LevelsWithin(mid2, pct, side) = {}
                         /\ DepthWithinPct(mid2, pct, side) = 0
                         /\ DepthSql(mid2, pct, side) = Missing
    BY DEF PortAgrees
  <2>1. Levels # {}
    BY LevelFacts
  <2>2. mid2 = Missing \/ (mid2 \in Nat /\ mid2 > 0)
    BY DEF Mids, Mid2
  <2>3. CASE mid2 = Missing
    BY <2>3 DEF DepthSql, DepthWithinPct
  <2>4. CASE mid2 # Missing /\ LevelsWithin(mid2, pct, side) # {}
    BY <2>1, <2>2, <2>4 DEF DepthSql, DepthWithinPct
  <2>5. CASE mid2 # Missing /\ LevelsWithin(mid2, pct, side) = {}
    <3>1. Resting({}) = 0
      BY SumOfNone DEF Resting
    <3> QED
      BY <2>1, <2>2, <2>5, <3>1 DEF DepthSql, DepthWithinPct
  <2> QED
    BY <2>3, <2>4, <2>5
<1> QED
  BY <1>1, <1>2, OrdersStep, PTL DEF DepthSpec

LEMMA BestPrices ==
  ASSUME OrdersInv, orders # <<>>
  PROVE  /\ HighestBuy \in Prices /\ \A q \in Prices : q <= HighestBuy
         /\ LowestSell \in Prices /\ \A q \in Prices : LowestSell <= q
         /\ Prices \subseteq Nat /\ Prices \subseteq BookPrices
<1>1. IsFiniteSet(Levels) /\ Levels # {} /\ \A i \in Levels : orders[i] \in Int
  BY LevelFacts
<1>2. Prices \subseteq Nat /\ Prices \subseteq BookPrices
  BY LevelFacts DEF Prices
<1>3. \E p \in Prices : \A q \in Prices : q <= p
  BY <1>1, Greatest DEF Prices
<1>4. \E p \in Prices : \A q \in Prices : p <= q
  BY <1>1, Least DEF Prices
<1> QED
  BY <1>2, <1>3, <1>4 DEF HighestBuy, LowestSell

(* There is depth within a band exactly when the spread is within twice    *)
(* its width, on either side and for any book: the two figures of a book   *)
(* cannot contradict one another.                                          *)
THEOREM DepthAlwaysFollowsSpread == DepthSpec => []DepthFollowsSpread
<1>1. DepthInit => OrdersInv
  BY DEF DepthInit, OrdersInv
<1>2. OrdersInv => DepthFollowsSpread
  <2> SUFFICES ASSUME OrdersInv, orders # <<>>,
                      NEW other \in BookPrices \ {0}, NEW pct \in Bands
               PROVE  /\ SpreadIsWithin(200 * pct, other, HighestBuy)
                           <=> LevelsWithin(Mid2(other, HighestBuy), pct, "buy") # {}
                      /\ SpreadIsWithin(200 * pct, LowestSell, other)
                           <=> LevelsWithin(Mid2(LowestSell, other), pct, "sell") # {}
    BY DEF DepthFollowsSpread
  <2>1. \A i \in Levels : orders[i] \in Prices
    BY DEF Prices
  <2>2. \A p \in Prices : \E i \in Levels : p = orders[i]
    BY DEF Prices
  <2>3. other \in Nat /\ other > 0 /\ pct \in 1..10
    BY DEF Bands
  <2>4. SpreadIsWithin(200 * pct, other, HighestBuy)
          <=> LevelsWithin(Mid2(other, HighestBuy), pct, "buy") # {}
    <3> DEFINE buy == HighestBuy
    <3>1. buy \in Nat /\ buy \in Prices /\ \A q \in Prices : q <= buy
      BY BestPrices
    <3> HIDE DEF buy
    <3>2. Mid2(other, buy) = other + buy /\ other + buy > 0 /\ other + buy # Missing
          /\ Spread(other, buy) = other - buy
      BY <2>3, <3>1 DEF Mid2, Spread
    <3>3. SpreadIsWithin(200 * pct, other, buy)
            <=> 20000 * (other - buy) <= (200 * pct) * (other + buy)
      BY <3>2 DEF SpreadIsWithin
    <3>4. @ <=> 200 * buy >= (other + buy) * (100 - pct)
      BY <2>3, <3>1
    <3>5. LevelsWithin(other + buy, pct, "buy")
            = {i \in Levels : 200 * orders[i] >= (other + buy) * (100 - pct)}
      BY DEF LevelsWithin, InBand
    <3>6. 200 * buy >= (other + buy) * (100 - pct)
            <=> LevelsWithin(other + buy, pct, "buy") # {}
      <4>1. ASSUME 200 * buy >= (other + buy) * (100 - pct)
            PROVE  LevelsWithin(other + buy, pct, "buy") # {}
        BY <2>2, <3>1, <3>5, <4>1
      <4>2. ASSUME NEW i \in Levels, 200 * orders[i] >= (other + buy) * (100 - pct)
            PROVE  200 * buy >= (other + buy) * (100 - pct)
        <5>1. orders[i] \in Nat /\ orders[i] <= buy
          BY <2>1, <3>1, BestPrices
        <5>2. (other + buy) * (100 - pct) \in Int
          BY <2>3, <3>1
        <5> QED BY <3>1, <4>2, <5>1, <5>2
      <4> QED BY <3>5, <4>1, <4>2
    <3> QED BY <3>2, <3>3, <3>4, <3>6 DEF buy
  <2>5. SpreadIsWithin(200 * pct, LowestSell, other)
          <=> LevelsWithin(Mid2(LowestSell, other), pct, "sell") # {}
    <3> DEFINE sell == LowestSell
    <3>1. sell \in Nat /\ sell \in Prices /\ \A q \in Prices : sell <= q
      BY BestPrices
    <3> HIDE DEF sell
    <3>2. Mid2(sell, other) = sell + other /\ sell + other > 0 /\ sell + other # Missing
          /\ Spread(sell, other) = sell - other
      BY <2>3, <3>1 DEF Mid2, Spread
    <3>3. SpreadIsWithin(200 * pct, sell, other)
            <=> 20000 * (sell - other) <= (200 * pct) * (sell + other)
      BY <3>2 DEF SpreadIsWithin
    <3>4. @ <=> 200 * sell <= (sell + other) * (100 + pct)
      BY <2>3, <3>1
    <3>5. LevelsWithin(sell + other, pct, "sell")
            = {i \in Levels : 200 * orders[i] <= (sell + other) * (100 + pct)}
      BY DEF LevelsWithin, InBand
    <3>6. 200 * sell <= (sell + other) * (100 + pct)
            <=> LevelsWithin(sell + other, pct, "sell") # {}
      <4>1. ASSUME 200 * sell <= (sell + other) * (100 + pct)
            PROVE  LevelsWithin(sell + other, pct, "sell") # {}
        BY <2>2, <3>1, <3>5, <4>1
      <4>2. ASSUME NEW i \in Levels, 200 * orders[i] <= (sell + other) * (100 + pct)
            PROVE  200 * sell <= (sell + other) * (100 + pct)
        <5>1. orders[i] \in Nat /\ sell <= orders[i]
          BY <2>1, <3>1, BestPrices
        <5>2. (sell + other) * (100 + pct) \in Int
          BY <2>3, <3>1
        <5> QED BY <3>1, <4>2, <5>1, <5>2
      <4> QED BY <3>5, <4>1, <4>2
    <3> QED BY <3>2, <3>3, <3>4, <3>6 DEF sell
  <2> QED BY <2>4, <2>5
<1> QED
  BY <1>1, <1>2, OrdersStep, PTL DEF DepthSpec

-----------------------------------------------------------------------------
(* Verdicts.                                                               *)

USE AnomalyAssumption

-----------------------------------------------------------------------------
(* The type invariant.                                                     *)

LEMMA NewRow ==
  ASSUME NEW on \in Nat, NEW d \in MoneyDomains, NEW s \in Samples
  PROVE  LET r == [date |-> on, domain |-> d, close |-> s.close, volume |-> s.volume]
         IN  r \in DailyRows /\ r.date = on /\ r.domain = d
BY DEF DailyRows

LEMMA TypeInductive == TypeOK /\ [Next]_marts => TypeOK'
<1> SUFFICES ASSUME TypeOK, [Next]_marts
             PROVE  TypeOK'
  OBVIOUS
<1>1. ASSUME NEW on \in 1..MaxDays, NEW d \in MoneyDomains, NEW s \in Samples,
             Observe(on, d, s)
      PROVE  TypeOK'
  <2> DEFINE r == [date |-> on, domain |-> d, close |-> s.close, volume |-> s.volume]
             others == {q \in daily : ~(q.date = on /\ q.domain = d)}
  <2>1. r \in DailyRows /\ r.date = on /\ r.domain = d
    BY NewRow
  <2>2. daily' = others \cup {r} /\ book' = book
    BY <1>1 DEF Observe
  <2>3. /\ others \subseteq DailyRows
        /\ \A q \in others : ~(q.date = on /\ q.domain = d)
        /\ \A p, q \in others : p.date = q.date /\ p.domain = q.domain => p = q
    BY DEF TypeOK
  <2> HIDE DEF r, others
  <2>4. \A p, q \in daily' : p.date = q.date /\ p.domain = q.domain => p = q
    BY <2>1, <2>2, <2>3
  <2>5. daily' \in SUBSET DailyRows
    BY <2>1, <2>2, <2>3
  <2> QED
    BY <2>2, <2>4, <2>5 DEF TypeOK
<1>2. ASSUME NEW on \in 1..MaxSnapshots, NEW spread \in Spreads, Snapshot(on, spread)
      PROVE  TypeOK'
  BY <1>2 DEF Snapshot, TypeOK, BookRows
<1>3. CASE UNCHANGED marts
  BY <1>3 DEF marts, TypeOK
<1> QED
  BY <1>1, <1>2, <1>3 DEF Next

LEMMA InitTypeOK == Init => TypeOK
BY DEF Init, TypeOK

(* Every variable keeps its type, and mart_item_daily its grain: a row per *)
(* day and domain, however often a day is rebuilt.                         *)
THEOREM TypeCorrect == Spec => []TypeOK
<1> QED
  BY InitTypeOK, TypeInductive, PTL DEF Spec

-----------------------------------------------------------------------------
(* Two sets of rows that say the same of r's past.                         *)
SamePast(rows, other, r) == Prior(rows, r) = Prior(other, r)

LEMMA PastOfPast ==
  ASSUME NEW rows, NEW other, NEW r, NEW p \in Prior(rows, r),
         r.date \in Nat, \A q \in rows \cup other : q.date \in Nat,
         SamePast(rows, other, r)
  PROVE  SamePast(rows, other, p)
<1>1. /\ p \in rows /\ p.domain = r.domain /\ p.date < r.date
  BY DEF Prior, Group
<1>2. Prior(rows, p) = {q \in Prior(rows, r) : q.date < p.date}
  BY <1>1 DEF Prior, Group
<1>3. Prior(other, p) = {q \in Prior(other, r) : q.date < p.date}
  BY <1>1 DEF Prior, Group
<1> QED
  BY <1>2, <1>3 DEF SamePast

(* The same past gives the same baselines and the same return.             *)
LEMMA SameBaselines ==
  ASSUME NEW rows, NEW other, NEW r,
         r.date \in Nat, \A q \in rows \cup other : q.date \in Nat,
         SamePast(rows, other, r)
  PROVE  /\ LogReturn(rows, r) = LogReturn(other, r)
         /\ Trailing(rows, r) = Trailing(other, r)
         /\ Returns(rows, r) = Returns(other, r)
         /\ SameWeekday(rows, r) = SameWeekday(other, r)
         /\ Volumes(rows, r) = Volumes(other, r)
<1>1. \A p \in Prior(rows, r) : Prior(rows, p) = Prior(other, p)
  BY PastOfPast DEF SamePast
<1>2. Prior(rows, r) = Prior(other, r)
  BY DEF SamePast
<1>3. Trailing(rows, r) = Trailing(other, r)
  <2>1. \A p \in Prior(rows, r) :
          (Prior(rows, p) # {} /\ Cardinality(After(Prior(rows, r), p)) < Window)
            <=> (Prior(other, p) # {} /\ Cardinality(After(Prior(other, r), p)) < Window)
    BY <1>1, <1>2
  <2> QED
    BY <1>2, <2>1 DEF Trailing
<1>4. \A p \in Trailing(rows, r) : LogReturn(rows, p) = LogReturn(other, p)
  <2>1. Trailing(rows, r) \subseteq Prior(rows, r)
    BY DEF Trailing
  <2> QED
    BY <1>1, <2>1 DEF LogReturn
<1>5. Returns(rows, r) = Returns(other, r)
  BY <1>3, <1>4 DEF Returns
<1>6. LogReturn(rows, r) = LogReturn(other, r)
  BY <1>2 DEF LogReturn
<1>7. SameWeekday(rows, r) = SameWeekday(other, r)
  BY <1>2 DEF SameWeekday
<1>8. Volumes(rows, r) = Volumes(other, r)
  BY <1>7 DEF Volumes
<1> QED
  BY <1>3, <1>5, <1>6, <1>7, <1>8

(* And therefore the same verdicts, on a row that both have.               *)
LEMMA SameVerdicts ==
  ASSUME NEW rows, NEW other, NEW r \in rows \cap other,
         \A q \in rows \cup other : q.date \in Nat,
         SamePast(rows, other, r)
  PROVE  /\ r \in PriceZscore(rows) <=> r \in PriceZscore(other)
         /\ r \in VolumeSpike(rows) <=> r \in VolumeSpike(other)
<1>1. /\ LogReturn(rows, r) = LogReturn(other, r)
      /\ Trailing(rows, r) = Trailing(other, r)
      /\ Returns(rows, r) = Returns(other, r)
      /\ SameWeekday(rows, r) = SameWeekday(other, r)
      /\ Volumes(rows, r) = Volumes(other, r)
  BY SameBaselines
<1> QED
  BY <1>1 DEF PriceZscore, VolumeSpike

-----------------------------------------------------------------------------
(* A row that two histories share, which differ in no earlier row of its   *)
(* domain, has the same past in both, and so the same verdicts.            *)
LEMMA VerdictStep ==
  ASSUME TypeOK, TypeOK'
  PROVE  LET changed == (daily \ daily') \cup (daily' \ daily)
             kept == {r \in daily \cap daily' :
                        \A p \in changed : p.domain = r.domain => p.date >= r.date}
         IN /\ PriceZscore(daily') \cap kept = PriceZscore(daily) \cap kept
            /\ VolumeSpike(daily') \cap kept = VolumeSpike(daily) \cap kept
<1> DEFINE changed == (daily \ daily') \cup (daily' \ daily)
           kept == {r \in daily \cap daily' :
                      \A p \in changed : p.domain = r.domain => p.date >= r.date}
<1>1. \A q \in daily \cup daily' : q.date \in Nat
  BY DEF TypeOK, DailyRows
<1>2. ASSUME NEW r \in kept
      PROVE  /\ r \in PriceZscore(daily') <=> r \in PriceZscore(daily)
             /\ r \in VolumeSpike(daily') <=> r \in VolumeSpike(daily)
  <2>1. r \in daily \cap daily' /\ r.date \in Nat
    BY <1>1
  <2>2. \A p \in changed : p.domain = r.domain => p.date >= r.date
    OBVIOUS
  <2>3. \A p : p \in Prior(daily, r) <=> p \in Prior(daily', r)
    BY <1>1, <2>1, <2>2 DEF Prior, Group
  <2>4. Prior(daily, r) = Prior(daily', r)
    <3>1. Prior(daily, r) \subseteq Prior(daily', r) /\ Prior(daily', r) \subseteq Prior(daily, r)
      BY <2>3
    <3> QED
      BY <3>1
  <2> QED
    BY <1>1, <2>1, <2>4, SameVerdicts DEF SamePast
<1> HIDE DEF kept
<1>3. /\ PriceZscore(daily') \cap kept = PriceZscore(daily) \cap kept
      /\ VolumeSpike(daily') \cap kept = VolumeSpike(daily) \cap kept
  BY <1>2
<1> QED
  BY <1>3 DEF kept

LEMMA SnapshotStep ==
  ASSUME TypeOK, TypeOK'
  PROVE  LET settled == {r \in book \cap book' :
                           \A p \in (book \ book') \cup (book' \ book) : p.date >= r.date}
         IN /\ SpreadWidening(book') \cap settled = SpreadWidening(book) \cap settled
            /\ CrossedBook(book') \cap settled = CrossedBook(book) \cap settled
<1> DEFINE settled == {r \in book \cap book' :
                         \A p \in (book \ book') \cup (book' \ book) : p.date >= r.date}
<1>1. \A q \in book \cup book' : q.date \in Nat
  BY DEF TypeOK, BookRows
<1>2. ASSUME NEW r \in settled
      PROVE  /\ r \in SpreadWidening(book') <=> r \in SpreadWidening(book)
             /\ r \in CrossedBook(book') <=> r \in CrossedBook(book)
  <2>1. r \in book \cap book' /\ r.date \in Nat
    BY <1>1
  <2>2. \A p \in (book \ book') \cup (book' \ book) : p.date >= r.date
    OBVIOUS
  <2>3. \A p : p \in Before(book, r) <=> p \in Before(book', r)
    BY <1>1, <2>1, <2>2 DEF Before
  <2>4. Before(book, r) = Before(book', r)
    <3>1. Before(book, r) \subseteq Before(book', r) /\ Before(book', r) \subseteq Before(book, r)
      BY <2>3
    <3> QED
      BY <3>1
  <2>5. SpreadsBefore(book, r) = SpreadsBefore(book', r)
    BY <2>4 DEF SpreadsBefore
  <2> QED
    BY <2>1, <2>4, <2>5 DEF SpreadWidening, CrossedBook
<1> HIDE DEF settled
<1>3. /\ SpreadWidening(book') \cap settled = SpreadWidening(book) \cap settled
      /\ CrossedBook(book') \cap settled = CrossedBook(book) \cap settled
  BY <1>2
<1> QED
  BY <1>3 DEF settled

(* What mart_anomaly says of a day, or of a snapshot, it says again after  *)
(* every rebuild that changes no earlier row of its series, whatever else  *)
(* has landed: for any samples, windows and thresholds.                    *)
THEOREM VerdictsAlwaysLookBack == Spec => VerdictsLookBack
<1>1. TypeOK /\ TypeOK' /\ [Next]_marts =>
        [LET changed == (daily \ daily') \cup (daily' \ daily)
             kept == {r \in daily \cap daily' :
                        \A p \in changed : p.domain = r.domain => p.date >= r.date}
             settled == {r \in book \cap book' :
                           \A p \in (book \ book') \cup (book' \ book) : p.date >= r.date}
         IN /\ PriceZscore(daily') \cap kept = PriceZscore(daily) \cap kept
            /\ VolumeSpike(daily') \cap kept = VolumeSpike(daily) \cap kept
            /\ SpreadWidening(book') \cap settled = SpreadWidening(book) \cap settled
            /\ CrossedBook(book') \cap settled = CrossedBook(book) \cap settled]_marts
  BY VerdictStep, SnapshotStep
<1> QED
  BY <1>1, TypeCorrect, PTL DEF Spec, VerdictsLookBack

-----------------------------------------------------------------------------
LEMMA DailyDates ==
  ASSUME TypeOK, NEW r \in daily
  PROVE  r.date \in Nat
BY DEF TypeOK, DailyRows

(* A verdict on a price rests on its domain alone, one on a volume on its  *)
(* domain and weekday.                                                     *)
THEOREM GroupsAlwaysStandAlone == Spec => []GroupsStandAlone
<1>1. TypeOK => GroupsStandAlone
  <2> SUFFICES ASSUME TypeOK, NEW d \in MoneyDomains
               PROVE  LET own == {r \in daily : r.domain = d} IN
                      /\ PriceZscore(own) = PriceZscore(daily) \cap own
                      /\ \A w \in 0..Week - 1 :
                           LET weekday == {r \in own : r.date % Week = w} IN
                           VolumeSpike(weekday) = VolumeSpike(daily) \cap weekday
    BY DEF GroupsStandAlone
  <2> DEFINE own == {r \in daily : r.domain = d}
  <2>1. \A r \in own : Prior(own, r) = Prior(daily, r)
    BY DEF Prior, Group
  <2>2. \A q \in own \cup daily : q.date \in Nat
    BY DailyDates
  <2>3. \A r \in own : r \in PriceZscore(own) <=> r \in PriceZscore(daily)
    BY <2>1, <2>2, SameVerdicts DEF SamePast
  <2>4. PriceZscore(own) \subseteq own
    BY DEF PriceZscore
  <2>5. PriceZscore(own) = PriceZscore(daily) \cap own
    BY <2>3, <2>4
  <2>6. ASSUME NEW w \in 0..Week - 1
        PROVE  LET weekday == {r \in own : r.date % Week = w} IN
               VolumeSpike(weekday) = VolumeSpike(daily) \cap weekday
    <3> DEFINE weekday == {r \in own : r.date % Week = w}
    <3>1. \A r \in weekday : SameWeekday(weekday, r) = SameWeekday(daily, r)
      BY DEF SameWeekday, Prior, Group
    <3>2. \A r \in weekday : Volumes(weekday, r) = Volumes(daily, r)
      BY <3>1 DEF Volumes
    <3>3. weekday \subseteq daily
      OBVIOUS
    <3> HIDE DEF weekday
    <3>4. \A r \in weekday : r \in VolumeSpike(weekday) <=> r \in VolumeSpike(daily)
      BY <3>1, <3>2, <3>3 DEF VolumeSpike
    <3>5. VolumeSpike(weekday) \subseteq weekday
      BY DEF VolumeSpike
    <3>6. VolumeSpike(weekday) = VolumeSpike(daily) \cap weekday
      BY <3>4, <3>5
    <3> QED
      BY <3>6 DEF weekday
  <2> QED
    BY <2>5, <2>6
<1> QED
  BY <1>1, TypeCorrect, PTL

-----------------------------------------------------------------------------
(* A jump beyond the range of its window is found. On a sample between lo  *)
(* and hi that is not constant, n * q - s * s is positive, and at most (n  *)
(* * hi - s) * (s - n * lo): the variance of a sample is bounded by the    *)
(* distances of its mean from its ends.                                    *)

LEMMA TimesMonotone ==
  ASSUME NEW a \in Int, NEW b \in Int, NEW k \in Int, a <= b, 0 <= k
  PROVE  a * k <= b * k
<1>1. (b - a) * k >= 0
  OBVIOUS
<1>2. (b - a) * k = b * k - a * k
  OBVIOUS
<1> QED
  BY <1>1, <1>2

LEMMA Squares ==
  ASSUME NEW a \in Int
  PROVE  a * a \in Nat /\ (a # 0 => a * a > 0)
OBVIOUS

LEMMA NoZeroDivisors ==
  ASSUME NEW a \in Int, NEW b \in Int, a # 0, b # 0
  PROVE  a * b # 0
OBVIOUS

LEMMA ProductBelowSquare ==
  ASSUME NEW n \in Nat, n >= 2, NEW a \in Nat, NEW b \in Nat
  PROVE  n * (a * b) <= (n - 1) * ((a + b) * (a + b))
<1>1. (a - b) * (a - b) >= 0
  BY Squares
<1>2. (a - b) * (a - b) = (a + b) * (a + b) - 4 * (a * b)
  OBVIOUS
<1>3. a * b \in Nat /\ (a + b) * (a + b) \in Int
  OBVIOUS
<1>4. (a + b) * (a + b) >= 4 * (a * b)
  BY <1>1, <1>2, <1>3
<1>5. (n - 1) * (4 * (a * b)) <= (n - 1) * ((a + b) * (a + b))
  BY <1>3, <1>4, TimesMonotone
<1>6. n * (a * b) <= (4 * (n - 1)) * (a * b)
  BY <1>3, TimesMonotone
<1>7. (4 * (n - 1)) * (a * b) = (n - 1) * (4 * (a * b))
  OBVIOUS
<1> QED
  BY <1>3, <1>5, <1>6, <1>7

LEMMA FarBeyond ==
  ASSUME NEW n \in Nat, n >= 2, NEW T \in Nat, NEW a \in Nat, NEW b \in Nat,
         NEW d \in Int, d >= a + T * (a + b), NEW v \in Int, v <= a * b
  PROVE  T * T * n * n * v <= d * d * (n * n - n)
<1> DEFINE s == a + b
           u == T * s
<1>1. s \in Nat /\ u \in Nat /\ u <= d /\ 0 <= d
  OBVIOUS
<1>2. u * u <= d * d
  <2>1. u * u <= d * u
    BY <1>1, TimesMonotone
  <2>2. u * d <= d * d
    BY <1>1, TimesMonotone
  <2>3. d * u = u * d /\ u * u \in Int /\ d * u \in Int /\ d * d \in Int
    BY <1>1
  <2> HIDE DEF u
  <2> QED
    BY <2>1, <2>2, <2>3
<1>3. n * v <= (n - 1) * (s * s)
  <2>1. n * v <= n * (a * b)
    <3>1. a * b \in Int
      OBVIOUS
    <3>2. v * n <= (a * b) * n
      BY <3>1, TimesMonotone
    <3> QED
      BY <3>1, <3>2
  <2>2. n * (a * b) <= (n - 1) * (s * s)
    BY ProductBelowSquare
  <2>3. n * v \in Int /\ n * (a * b) \in Int /\ (n - 1) * (s * s) \in Int
    OBVIOUS
  <2> QED
    BY <2>1, <2>2, <2>3
<1> DEFINE m == T * T * n
<1>4. m \in Nat
  OBVIOUS
<1>5. m * (n * v) <= m * ((n - 1) * (s * s))
  <2> DEFINE y == n * v
             z == (n - 1) * (s * s)
  <2>1. y \in Int /\ z \in Int /\ y <= z
    BY <1>1, <1>3
  <2> HIDE DEF y, z, m
  <2>2. y * m <= z * m
    BY <1>4, <2>1, TimesMonotone
  <2> QED
    BY <1>4, <2>1, <2>2 DEF y, z
<1>6. m * ((n - 1) * (s * s)) = (n * (n - 1)) * (u * u)
  <2>1. u * u = T * T * (s * s)
    BY <1>1
  <2> HIDE DEF s
  <2> QED
    BY <1>1, <2>1
<1>7. (n * (n - 1)) * (u * u) <= (n * (n - 1)) * (d * d)
  <2> DEFINE y == u * u
             z == d * d
             k == n * (n - 1)
  <2>1. y \in Int /\ z \in Int /\ y <= z /\ k \in Nat
    BY <1>1, <1>2
  <2> HIDE DEF y, z, k, u
  <2>2. y * k <= z * k
    BY <2>1, TimesMonotone
  <2> QED
    BY <2>1, <2>2 DEF y, z, k
<1>8. m * (n * v) = T * T * n * n * v /\ (n * (n - 1)) * (d * d) = d * d * (n * n - n)
  OBVIOUS
<1>9. m * (n * v) \in Int /\ m * ((n - 1) * (s * s)) \in Int /\ (n * (n - 1)) * (d * d) \in Int
  OBVIOUS
<1> HIDE DEF m, s, u
<1> QED
  BY <1>5, <1>6, <1>7, <1>8, <1>9

LEMMA AtLeastTwo ==
  ASSUME NEW W, IsFiniteSet(W), NEW i \in W, NEW j \in W, i # j
  PROVE  Cardinality(W) \in Nat /\ Cardinality(W) >= 2
<1>1. Cardinality(W) \in Nat
  BY FS_CardinalityType
<1>2. Cardinality(W) # 0
  BY FS_EmptySet
<1>3. Cardinality(W) # 1
  <2> SUFFICES ASSUME Cardinality(W) = 1 PROVE FALSE
    OBVIOUS
  <2>1. PICK p : W = {p}
    BY FS_Singleton
  <2> QED BY <2>1
<1> QED BY <1>1, <1>2, <1>3

Within(f, lo, hi, W) == \A p \in W : f[p] \in Int /\ lo <= f[p] /\ f[p] <= hi

(* The size, the sum and the sum of squares of a sample.                   *)
SumsAre(n, s, q, f, W) ==
  /\ n = Cardinality(W) /\ s = SumFunctionOnSet(f, W)
  /\ q = SumFunctionOnSet([p \in W |-> f[p] * f[p]], W)

LEMMA Spreading ==
  ASSUME NEW W, IsFiniteSet(W), NEW f, NEW lo \in Int, NEW hi \in Int, Within(f, lo, hi, W),
         NEW i \in W, NEW j \in W, f[i] # f[j], NEW n, NEW s, NEW q, SumsAre(n, s, q, f, W)
  PROVE  /\ n \in Nat /\ n >= 2 /\ s \in Int /\ q \in Int
         /\ n * q - s * s > 0
         /\ n * hi - s \in Nat /\ s - n * lo \in Nat
         /\ n * q - s * s <= (n * hi - s) * (s - n * lo)
<1>0. \A p \in W : f[p] \in Int /\ lo <= f[p] /\ f[p] <= hi
  BY DEF Within
<1> DEFINE sq == [p \in W |-> f[p] * f[p]]
<1>1. n \in Nat /\ n >= 2
  BY AtLeastTwo DEF SumsAre
<1>2. s \in Int
  <2>1. PICK F : SumsOf(F, f, W)
    BY <1>0, SumUnfolds
  <2> QED BY <2>1 DEF SumsOf, SumsAre
<1>3. q \in Int
  <2>1. \A p \in W : sq[p] \in Int
    BY <1>0
  <2>2. PICK F : SumsOf(F, sq, W)
    BY <2>1, SumUnfolds
  <2> QED BY <2>2 DEF SumsOf, SumsAre
<1>4. \A p \in W : sq[p] = f[p] * f[p] /\ sq[p] \in Int
  BY <1>0
<1>5. n = Cardinality(W) /\ s = SumFunctionOnSet(f, W) /\ q = SumFunctionOnSet(sq, W)
  BY DEF SumsAre
<1> HIDE DEF sq
<1>6. n * hi - s \in Nat
  <2> DEFINE h == [p \in W |-> hi - f[p]]
  <2>1. \A p \in W : h[p] \in Nat
    BY <1>0
  <2>2. Combines(h, -1, f, 0, f, hi, W)
    BY <1>0 DEF Combines
  <2> HIDE DEF h
  <2>3. SumFunctionOnSet(h, W) \in Nat
    BY <2>1, SumDominates
  <2>4. SumFunctionOnSet(h, W) = (-1) * s + 0 * s + hi * n
    BY <1>5, <2>2, SumIsLinear
  <2> QED BY <1>1, <1>2, <2>3, <2>4
<1>7. s - n * lo \in Nat
  <2> DEFINE h == [p \in W |-> f[p] - lo]
  <2>1. \A p \in W : h[p] \in Nat
    BY <1>0
  <2>2. Combines(h, 1, f, 0, f, - lo, W)
    BY <1>0 DEF Combines
  <2> HIDE DEF h
  <2>3. SumFunctionOnSet(h, W) \in Nat
    BY <2>1, SumDominates
  <2>4. SumFunctionOnSet(h, W) = 1 * s + 0 * s + (- lo) * n
    BY <1>5, <2>2, SumIsLinear
  <2> QED BY <1>1, <1>2, <2>3, <2>4
<1>8. n * q - s * s <= (n * hi - s) * (s - n * lo)
  <2> DEFINE h == [p \in W |-> (hi - f[p]) * (f[p] - lo)]
  <2>1. \A p \in W : h[p] \in Nat
    <3> TAKE p \in W
    <3>1. hi - f[p] \in Nat /\ f[p] - lo \in Nat
      BY <1>0
    <3> QED BY <3>1
  <2>2. Combines(h, -1, sq, lo + hi, f, - (lo * hi), W)
    <3>1. ASSUME NEW p \in W
          PROVE  h[p] = (-1) * sq[p] + (lo + hi) * f[p] + (- (lo * hi))
      <4>1. f[p] \in Int
        BY <1>0
      <4> QED BY <1>4, <4>1
    <3> HIDE DEF h
    <3> QED BY <1>4, <1>0, <3>1 DEF Combines
  <2> HIDE DEF h
  <2>3. SumFunctionOnSet(h, W) \in Nat
    BY <2>1, SumDominates
  <2>4. SumFunctionOnSet(h, W) = (-1) * q + (lo + hi) * s + (- (lo * hi)) * n
    BY <1>5, <2>2, SumIsLinear
  <2> DEFINE k == (-1) * q + (lo + hi) * s + (- (lo * hi)) * n
  <2>5. k \in Nat
    BY <2>3, <2>4
  <2>6. (n * hi - s) * (s - n * lo) = (n * q - s * s) + n * k
    BY <1>1, <1>2, <1>3
  <2> HIDE DEF k
  <2>7. n * k \in Nat /\ n * q - s * s \in Int
    BY <1>1, <1>2, <1>3, <2>5
  <2> QED BY <2>6, <2>7
<1>9. n * q - s * s > 0
  <2> DEFINE h == [p \in W |-> (n * f[p] - s) * (n * f[p] - s)]
  <2>1. \A p \in W : h[p] \in Nat /\ (n * f[p] # s => h[p] > 0)
    <3> TAKE p \in W
    <3> DEFINE e == n * f[p] - s
    <3>1. e \in Int /\ (n * f[p] # s => e # 0)
      BY <1>1, <1>2, <1>0
    <3>2. h[p] = e * e
      OBVIOUS
    <3> HIDE DEF e, h
    <3> QED BY <3>1, <3>2, Squares
  <2>2. Combines(h, n * n, sq, -2 * n * s, f, s * s, W)
    <3>1. ASSUME NEW p \in W
          PROVE  h[p] = (n * n) * sq[p] + (-2 * n * s) * f[p] + s * s
      <4>1. f[p] \in Int
        BY <1>0
      <4> QED BY <1>1, <1>2, <1>4, <4>1
    <3> HIDE DEF h
    <3> QED BY <1>4, <1>0, <3>1 DEF Combines
  <2>3. n * f[i] # s \/ n * f[j] # s
    <3>1. n * (f[i] - f[j]) # 0
      <4>1. n \in Int /\ n # 0 /\ f[i] - f[j] \in Int /\ f[i] - f[j] # 0
        BY <1>1, <1>0
      <4> QED BY <4>1, NoZeroDivisors
    <3>2. n * (f[i] - f[j]) = n * f[i] - n * f[j]
      BY <1>1, <1>0
    <3> QED BY <1>1, <1>2, <1>0, <3>1, <3>2
  <2> HIDE DEF h
  <2>4. SumFunctionOnSet(h, W) \in Nat /\ SumFunctionOnSet(h, W) > 0
    <3>1. SumFunctionOnSet(h, W) \in Nat /\ \A p \in W : h[p] <= SumFunctionOnSet(h, W)
      BY <2>1, SumDominates
    <3> QED BY <2>1, <2>3, <3>1
  <2>5. SumFunctionOnSet(h, W) = (n * n) * q + (-2 * n * s) * s + (s * s) * n
    <3>1. n * n \in Int /\ -2 * n * s \in Int /\ s * s \in Int
      BY <1>1, <1>2
    <3> QED BY <1>5, <2>2, <3>1, SumIsLinear
  <2>6. (n * n) * q + (-2 * n * s) * s + (s * s) * n = n * (n * q - s * s)
    BY <1>1, <1>2, <1>3
  <2>7. n * (n * q - s * s) > 0 /\ n * q - s * s \in Int
    BY <1>1, <1>2, <1>3, <2>4, <2>5, <2>6
  <2> DEFINE k == n * q - s * s
  <2> HIDE DEF k
  <2>8. ASSUME k \in Int, n * k > 0 PROVE k > 0
    BY <1>1, <2>8
  <2> QED BY <2>7, <2>8 DEF k
<1> QED
  BY <1>1, <1>2, <1>3, <1>6, <1>7, <1>8, <1>9

(* A value that is farther from a sample than Threshold times its range    *)
(* is an outlier of it.                                                    *)
LEMMA BeyondTheRange ==
  ASSUME NEW W, IsFiniteSet(W), NEW f \in [W -> Int],
         NEW lo \in Int, NEW hi \in Int, Within(f, lo, hi, W),
         NEW i \in W, NEW j \in W, f[i] # f[j],
         NEW x \in Int, x >= hi + Threshold * (hi - lo), Threshold \in Nat
  PROVE  IsOutlier(x, f, Alike(f))
<1> DEFINE n == Cardinality(W)
           s == SumFunctionOnSet(f, W)
           sq == [p \in W |-> f[p] * f[p]]
           q == SumFunctionOnSet(sq, W)
           one == Alike(f)
           v == n * q - s * s
           d == n * x - s
<1>1. one = [p \in W |-> 1] /\ DOMAIN f = W
  BY DEF Alike
<1>2. /\ n \in Nat /\ n >= 2 /\ s \in Int /\ q \in Int
      /\ v > 0 /\ n * hi - s \in Nat /\ s - n * lo \in Nat
      /\ v <= (n * hi - s) * (s - n * lo)
  <2>1. SumsAre(n, s, q, f, W)
    BY DEF SumsAre
  <2> HIDE DEF n, s, q
  <2> QED BY <2>1, Spreading
<1>3. Mass(one) = n
  <2>1. Combines(one, 0, f, 0, f, 1, W)
    BY <1>1 DEF Combines
  <2>2. n \in Nat /\ s \in Int
    BY <1>2
  <2>3. SumFunctionOnSet(one, W) = 0 * s + 0 * s + 1 * n
    <3> HIDE DEF one
    <3> QED BY <2>1, SumIsLinear
  <2>4. Mass(one) = SumFunctionOnSet(one, W)
    BY <1>1 DEF Mass, SumFunction
  <2> HIDE DEF n, s
  <2> QED BY <2>2, <2>3, <2>4
<1>4. \A g \in [W -> Int] : Total(g, one) = SumFunctionOnSet(g, W)
  <2> TAKE g \in [W -> Int]
  <2>1. [p \in DOMAIN g |-> one[p] * g[p]] = g
    <3>1. \A p \in W : one[p] * g[p] = g[p]
      BY <1>1
    <3> QED BY <3>1
  <2> HIDE DEF one
  <2> QED BY <2>1 DEF Total, SumFunction
<1>5. one \in [W -> Int] /\ sq \in [W -> Int]
  BY <1>1
<1>6. Total(f, one) = s /\ Total(sq, one) = q /\ Total(one, one) = n
  <2>1. Total(one, one) = SumFunctionOnSet(one, W)
    <3> HIDE DEF one
    <3> QED BY <1>4, <1>5
  <2>2. SumFunctionOnSet(one, W) = Mass(one)
    BY <1>1 DEF Mass, SumFunction
  <2> HIDE DEF one, sq
  <2> QED BY <1>3, <1>4, <1>5, <2>1, <2>2
<1>7. [p \in DOMAIN f |-> f[p] * f[p]] = sq
  OBVIOUS
<1>8. Dispersion(f, one) = v /\ Distance(x, f, one) = d
  BY <1>3, <1>6, <1>7 DEF Dispersion, Distance
<1>9. d >= (n * hi - s) + Threshold * ((n * hi - s) + (s - n * lo))
  <2>1. n * x >= n * (hi + Threshold * (hi - lo))
    <3>1. hi + Threshold * (hi - lo) \in Int
      OBVIOUS
    <3> HIDE DEF n
    <3>2. (hi + Threshold * (hi - lo)) * n <= x * n
      BY <1>2, <3>1, TimesMonotone
    <3> QED BY <1>2, <3>1, <3>2
  <2> HIDE DEF n, s
  <2>2. (n * hi - s) + (s - n * lo) = n * (hi - lo)
    BY <1>2
  <2>3. n * (hi + Threshold * (hi - lo)) = n * hi + Threshold * (n * (hi - lo))
    BY <1>2
  <2>4. n * x \in Int /\ n * hi \in Int /\ Threshold * (n * (hi - lo)) \in Int
    BY <1>2
  <2> QED BY <1>2, <2>1, <2>2, <2>3, <2>4
<1>10. Threshold * Threshold * n * n * v <= d * d * (n * n - n)
  <2>1. d \in Int /\ v \in Int
    BY <1>2
  <2> HIDE DEF n, d, v
  <2>2. (n * hi - s) \in Nat /\ (s - n * lo) \in Nat
    BY <1>2
  <2> DEFINE a == n * hi - s
             b == s - n * lo
  <2> HIDE DEF a, b, s
  <2> QED BY <1>2, <1>9, <2>1, <2>2, FarBeyond DEF a, b
<1>11. Dispersion(f, one) > 0
  BY <1>2, <1>8
<1> HIDE DEF n, s, q, v, d, one
<1>12. IsOutlier(x, f, one)
  BY <1>3, <1>6, <1>8, <1>10, <1>11 DEF IsOutlier
<1> QED
  BY <1>12 DEF one

LEMMA PriorIsFinite ==
  ASSUME TypeOK, NEW r \in daily
  PROVE  IsFiniteSet(Prior(daily, r))
<1> DEFINE P == Prior(daily, r)
           dateOf == [p \in P |-> p.date]
<1>1. /\ r.date \in Nat
      /\ \A p \in P : p \in daily /\ p.domain = r.domain /\ p.date \in 0..r.date
  BY DEF TypeOK, DailyRows, Prior, Group
<1>2. \A p, q \in P : p.date = q.date => p = q
  BY <1>1 DEF TypeOK
<1>3. dateOf \in Injection(P, 0..r.date)
  <2> HIDE DEF P
  <2> QED
    BY <1>1, <1>2 DEF Injection, IsInjective
<1>4. IsFiniteSet(0..r.date)
  BY <1>1, FS_Interval
<1> HIDE DEF dateOf
<1> QED
  BY <1>3, <1>4, FS_Injection

LEMMA ReturnIsNumber ==
  ASSUME TypeOK, NEW r \in daily, Prior(daily, r) # {}
  PROVE  LogReturn(daily, r) \in Int
<1> DEFINE P == Prior(daily, r)
           dateOf == [p \in P |-> p.date]
<1>1. \A p \in P : p \in daily
  BY DEF Prior, Group
<1>2. \A p \in P : p.close \in Int /\ p.date \in Int
  BY <1>1 DEF TypeOK, DailyRows
<1>3. IsFiniteSet(P)
  BY PriorIsFinite
<1>4. \E p \in P : \A q \in P : q.date <= p.date
  <2> HIDE DEF P
  <2>1. P # {}
    BY DEF P
  <2>2. \A p \in P : dateOf[p] = p.date /\ dateOf[p] \in Int
    BY <1>2
  <2> HIDE DEF dateOf
  <2>3. \E p \in P : \A q \in P : dateOf[q] <= dateOf[p]
    BY <1>3, <2>1, <2>2, Greatest
  <2> QED
    BY <2>2, <2>3
<1>5. Latest(P) \in P
  BY <1>4 DEF Latest
<1>6. r.close \in Int
  BY DEF TypeOK, DailyRows
<1> QED
  BY <1>2, <1>5, <1>6 DEF LogReturn

(* The returns of a window, if there are two that differ.                  *)
LEMMA JumpFound ==
  ASSUME TypeOK, NEW r \in daily
  PROVE  LET before == {LogReturn(daily, p) : p \in Trailing(daily, r)}
             lo == CHOOSE x \in before : \A y \in before : x <= y
             hi == CHOOSE x \in before : \A y \in before : y <= x
         IN (/\ Cardinality(Trailing(daily, r)) >= MinPeriods
             /\ Cardinality(before) > 1
             /\ LogReturn(daily, r) >= hi + Threshold * (hi - lo))
              => r \in PriceZscore(daily)
<1> DEFINE W == Trailing(daily, r)
           f == Returns(daily, r)
           before == {LogReturn(daily, p) : p \in W}
           lo == CHOOSE x \in before : \A y \in before : x <= y
           hi == CHOOSE x \in before : \A y \in before : y <= x
<1> SUFFICES ASSUME Cardinality(W) >= MinPeriods, Cardinality(before) > 1,
                    LogReturn(daily, r) >= hi + Threshold * (hi - lo)
             PROVE  r \in PriceZscore(daily)
  OBVIOUS
<1>1. \A p \in W : p \in daily /\ Prior(daily, p) # {} /\ p \in Prior(daily, r)
  BY DEF Trailing, Prior, Group
<1>2. IsFiniteSet(W)
  BY <1>1, PriorIsFinite, FS_Subset
<1>3. f \in [W -> Int] /\ \A p \in W : f[p] = LogReturn(daily, p)
  BY <1>1, ReturnIsNumber DEF Returns
<1> HIDE DEF W, f
<1>4. before = {f[p] : p \in W}
  BY <1>3
<1>5. W # {}
  <2> SUFFICES ASSUME W = {} PROVE FALSE
    OBVIOUS
  <2>1. before = {}
    BY <1>4
  <2> HIDE DEF before
  <2> QED
    BY <2>1, FS_EmptySet
<1>6. \E i, j \in W : f[i] # f[j]
  <2> SUFFICES ASSUME \A i, j \in W : f[i] = f[j] PROVE FALSE
    OBVIOUS
  <2>1. PICK p \in W : TRUE
    BY <1>5
  <2>2. before = {f[p]}
    BY <1>4
  <2>3. Cardinality(before) = 1
    <3> HIDE DEF before
    <3> QED BY <2>2, FS_Singleton
  <2> HIDE DEF before
  <2> QED
    BY <2>3
<1>7. \A p \in W : f[p] \in Int
  BY <1>3
<1>8. lo \in before /\ \A y \in before : lo <= y
  <2> HIDE DEF before
  <2>1. PICK p \in W : \A q \in W : f[p] <= f[q]
    BY <1>2, <1>5, <1>7, Least
  <2>2. f[p] \in before /\ \A y \in before : f[p] <= y
    BY <1>4, <2>1
  <2> QED
    BY <2>2
<1>9. hi \in before /\ \A y \in before : y <= hi
  <2> HIDE DEF before
  <2>1. PICK p \in W : \A q \in W : f[q] <= f[p]
    BY <1>2, <1>5, <1>7, Greatest
  <2>2. f[p] \in before /\ \A y \in before : y <= f[p]
    BY <1>4, <2>1
  <2> QED
    BY <2>2
<1>10. \A p \in W : f[p] \in before
  BY <1>4
<1>11. \A y \in before : y \in Int
  BY <1>4, <1>7
<1> HIDE DEF before, lo, hi
<1>12. lo \in Int /\ hi \in Int /\ Within(f, lo, hi, W)
  BY <1>7, <1>8, <1>9, <1>10, <1>11 DEF Within
<1>13. LogReturn(daily, r) \in Int
  <2>1. Prior(daily, r) # {}
    BY <1>1, <1>5
  <2> QED
    BY <2>1, ReturnIsNumber
<1>14. IsOutlier(LogReturn(daily, r), f, Alike(f))
  <2>1. PICK i \in W, j \in W : f[i] # f[j]
    BY <1>6
  <2>2. Threshold \in Nat
    OBVIOUS
  <2> QED
    BY <1>2, <1>3, <1>12, <1>13, <2>1, <2>2, BeyondTheRange
<1> QED
  BY <1>5, <1>14 DEF PriceZscore, W, f

LEMMA TrailingIs ==
  ASSUME TypeOK, NEW r \in daily
  PROVE  {p \in daily : /\ p.domain = r.domain /\ p.date < r.date
                        /\ Prior(daily, p) # {}
                        /\ Cardinality({q \in Prior(daily, r) : q.date > p.date}) < Window}
         = Trailing(daily, r)
BY DEF Trailing, Prior, Group, After

(* A rise above the highest return of its window by Threshold times their  *)
(* range is flagged, whatever else the window holds: the jump that the     *)
(* alert is for cannot hide in its own baseline (mart_anomalies.sql).      *)
THEOREM JumpsAlwaysFound == Spec => []JumpsAreFound
<1>1. TypeOK => JumpsAreFound
  <2> SUFFICES ASSUME TypeOK PROVE JumpsAreFound
    OBVIOUS
  <2> QED
    BY TrailingIs, JumpFound DEF JumpsAreFound
<1> QED
  BY <1>1, TypeCorrect, PTL

-----------------------------------------------------------------------------
(* Exchange rates.  Every date so far has an answer; what is filed under a *)
(* date, in memory and in the file, is its answer and stays so, because    *)
(* the only date whose rates may still come is the current one.            *)

RatesTypes == date \in Nat /\ published \subseteq 0..date /\ early \subseteq 0..date

IsAnswer(p, d) == p \in published /\ p <= d /\ \A q \in published : q <= d => q <= p

HasAnswers == \A d \in 0..date : \E p : IsAnswer(p, d)

Holds(f) ==
  \A d \in DOMAIN f :
    /\ d \in 0..date
    /\ d \in early \/ (f[d] = Answer(d) /\ (d = date => d \in published))

RatesInv == RatesTypes /\ HasAnswers /\ Holds(rates) /\ Holds(ratesFile)

LEMMA AnswerIs ==
  ASSUME RatesTypes, HasAnswers, NEW d \in 0..date
  PROVE  IsAnswer(Answer(d), d) /\ \A p : IsAnswer(p, d) => p = Answer(d)
<1>1. PICK p : IsAnswer(p, d)
  BY DEF HasAnswers
<1>2. IsAnswer(Answer(d), d)
  BY <1>1 DEF IsAnswer, Answer
<1>3. ASSUME NEW q, IsAnswer(q, d)
      PROVE  q = Answer(d)
  <2>1. q \in published /\ Answer(d) \in published /\ q <= d /\ Answer(d) <= d
    BY <1>2, <1>3 DEF IsAnswer
  <2>2. q <= Answer(d) /\ Answer(d) <= q
    BY <1>2, <1>3, <2>1 DEF IsAnswer
  <2>3. q \in Nat /\ Answer(d) \in Nat
    <3>1. published \subseteq Nat
      BY DEF RatesTypes
    <3>2. QED
      BY <2>1, <3>1
  <2>4. QED
    BY <2>2, <2>3
<1>4. QED
  BY <1>2, <1>3

(* A rate that is filed again under its own date is right there, too.      *)
LEMMA FetchHolds ==
  ASSUME RatesInv, NEW d \in Dates, FetchRates(d)
  PROVE  RatesInv'
<1> DEFINE a == Answer(d)
<1>1. /\ d \in 0..date /\ UNCHANGED <<date, published>>
      /\ rates' = [x \in DOMAIN rates \cup {d, a} |-> IF x \in {d, a} THEN a ELSE rates[x]]
      /\ ratesFile' = rates'
      /\ early' = IF d = date /\ a # d THEN early \cup {d} ELSE early
  BY DEF FetchRates, Asked
<1>2. IsAnswer(a, d) /\ a \in 0..date
  BY <1>1, AnswerIs DEF RatesInv, RatesTypes, IsAnswer
<1>3. Answer(a) = a
  BY <1>2, AnswerIs DEF RatesInv, RatesTypes, IsAnswer
<1>4. RatesTypes' /\ HasAnswers'
  BY <1>1 DEF RatesInv, RatesTypes, HasAnswers, IsAnswer
<1>5. \A x : Answer(x)' = Answer(x)
  BY <1>1 DEF Answer
<1>6. d \in early' \/ (d = date => d \in published)
  BY <1>1, <1>2 DEF IsAnswer
<1>7. a \in published
  BY <1>2 DEF IsAnswer
<1> HIDE DEF a
<1>8. ASSUME NEW x \in DOMAIN rates'
      PROVE  /\ x \in 0..date
             /\ x \in early' \/ (rates'[x] = Answer(x) /\ (x = date => x \in published))
  <2>1. CASE x = d
    BY <1>1, <1>6, <2>1 DEF a
  <2>2. CASE x = a
    BY <1>1, <1>2, <1>3, <1>7, <2>2
  <2>3. CASE x \in DOMAIN rates /\ x # d /\ x # a
    BY <1>1, <2>3 DEF RatesInv, Holds
  <2>4. QED
    BY <1>1, <2>1, <2>2, <2>3
<1>9. Holds(rates)' /\ Holds(ratesFile)'
  BY <1>1, <1>5, <1>8 DEF Holds
<1>10. QED
  BY <1>4, <1>9 DEF RatesInv

LEMMA PublicationHolds ==
  ASSUME RatesInv, EcbPublishes
  PROVE  RatesInv'
<1>1. /\ date \notin published /\ published' = published \cup {date}
      /\ UNCHANGED <<date, rates, ratesFile, early>>
      /\ date \in Nat /\ published \subseteq 0..date
  BY DEF EcbPublishes, RatesInv, RatesTypes
<1>2. RatesTypes'
  BY <1>1 DEF RatesInv, RatesTypes
<1>3. ASSUME NEW d \in 0..date, NEW p, IsAnswer(p, d), d # date
      PROVE  IsAnswer(p, d)'
  BY <1>1, <1>3 DEF IsAnswer
<1>4. IsAnswer(date, date)'
  BY <1>1 DEF IsAnswer
<1>5. HasAnswers'
  BY <1>1, <1>3, <1>4 DEF RatesInv, HasAnswers
<1>6. ASSUME NEW d \in 0..date, d # date
      PROVE  Answer(d)' = Answer(d)
  <2>1. PICK a : a = Answer(d)
    OBVIOUS
  <2>2. IsAnswer(a, d)'
    BY <1>3, <1>6, <2>1, AnswerIs DEF RatesInv
  <2>3. IsAnswer(Answer(d), d)'
    BY <2>2 DEF IsAnswer, Answer
  <2>4. a \in Nat /\ Answer(d)' \in Nat
    <3>1. published' \subseteq Nat
      BY <1>1
    <3>2. QED
      BY <2>2, <2>3, <3>1 DEF IsAnswer
  <2>5. a <= Answer(d)' /\ Answer(d)' <= a
    BY <2>2, <2>3 DEF IsAnswer
  <2>6. QED
    BY <2>1, <2>4, <2>5
<1>7. Holds(rates)' /\ Holds(ratesFile)'
  BY <1>1, <1>6 DEF RatesInv, Holds
<1>8. QED
  BY <1>2, <1>5, <1>7 DEF RatesInv

LEMMA NextDateHolds ==
  ASSUME RatesInv, NextDate
  PROVE  RatesInv'
<1>1. /\ date' = date + 1 /\ date \in Nat /\ published \subseteq 0..date
      /\ UNCHANGED <<published, rates, ratesFile, early>>
  BY DEF NextDate, RatesInv, RatesTypes
<1>2. \A d : Answer(d)' = Answer(d)
  BY <1>1 DEF Answer
<1>3. RatesTypes' /\ Holds(rates)' /\ Holds(ratesFile)'
  BY <1>1, <1>2 DEF RatesInv, RatesTypes, Holds
<1>4. ASSUME NEW p, IsAnswer(p, date)
      PROVE  IsAnswer(p, date + 1)
  BY <1>1, <1>4 DEF IsAnswer
<1>5. HasAnswers'
  <2>1. ASSUME NEW d \in 0..date'
        PROVE  \E p : IsAnswer(p, d)
    <3>1. CASE d \in 0..date
      BY <3>1 DEF RatesInv, HasAnswers
    <3>2. CASE d = date + 1
      BY <1>1, <1>4, <3>2 DEF RatesInv, HasAnswers
    <3>3. QED
      BY <1>1, <3>1, <3>2
  <2>2. QED
    BY <1>1, <2>1 DEF HasAnswers, IsAnswer
<1>6. QED
  BY <1>3, <1>5 DEF RatesInv

LEMMA RatesStep == RatesInv /\ [RatesNext]_ratesVars => RatesInv'
<1> SUFFICES ASSUME RatesInv, [RatesNext]_ratesVars PROVE RatesInv'
  OBVIOUS
<1>1. ASSUME UNCHANGED <<date, published, early>>,
             rates' = rates \/ rates' = ratesFile \/ rates' = <<>>,
             ratesFile' = ratesFile \/ ratesFile' = <<>>
      PROVE  RatesInv'
  <2>1. \A x : Answer(x)' = Answer(x)
    BY <1>1 DEF Answer
  <2>2. DOMAIN << >> = {}
    OBVIOUS
  <2>3. QED
    BY <1>1, <2>1, <2>2 DEF RatesInv, RatesTypes, HasAnswers, IsAnswer, Holds
<1>2. ASSUME NEW d \in Dates, KilledInFetch(d)
      PROVE  RatesInv'
  BY <1>1, <1>2 DEF KilledInFetch
<1>3. CASE LoadRates \/ RemoveTornFile \/ UNCHANGED ratesVars
  BY <1>1, <1>3 DEF LoadRates, RemoveTornFile, ratesVars
<1>4. QED
  BY <1>2, <1>3, FetchHolds, PublicationHolds, NextDateHolds DEF RatesNext

(* Whatever is asked for when, published late and killed: a rate under a   *)
(* date is the one that holds on it, unless the date was asked for before  *)
(* its rates were there.                                                   *)
THEOREM RatesAlwaysHold == RatesSpec => []RatesHoldOnTheirDate
<1>1. RatesInit => RatesInv
  <2>1. DOMAIN << >> = {}
    OBVIOUS
  <2>2. QED
    BY <2>1 DEF RatesInit, RatesInv, RatesTypes, HasAnswers, IsAnswer, Holds
<1>2. RatesInv => RatesHoldOnTheirDate
  BY DEF RatesInv, Holds, RatesHoldOnTheirDate
<1>3. QED
  BY <1>1, <1>2, RatesStep, PTL DEF RatesSpec

-----------------------------------------------------------------------------
(* The poll in four currencies.  The topic is in the order of the script:  *)
(* by item, then by start, and dollars only come first.                    *)

Envelopes ==
  [item : Nat, currency : {"USD", "EUR", "SGD", "IDR"}, start : Nat, day : Nat,
   priced : BOOLEAN]

ScriptTypes ==
  /\ doing \in {"fetch", "publish", "done", "ended"}
  /\ item \in Nat /\ turn \in 1..4 /\ start \in Nat /\ day \in Nat
  /\ polls \in Seq(Envelopes)

(* The envelope at hand is of the item, the currency and the start.        *)
AtHand ==
  doing = "publish" =>
    /\ answer \in Envelopes
    /\ answer.item = item /\ answer.start = start /\ answer.currency = CURRENCIES[turn]

InOrder ==
  \A i, j \in 1..Len(polls) : i < j =>
    /\ polls[i].item <= polls[j].item
    /\ polls[i].item = polls[j].item =>
         /\ polls[i].start <= polls[j].start
         /\ polls[i].start = polls[j].start => polls[j].currency # "USD"

(* The script is past what is in the topic, and past dollars for an item   *)
(* that it has begun.                                                      *)
Ahead ==
  \A i \in 1..Len(polls) :
    /\ polls[i].item <= item /\ polls[i].start <= start
    /\ polls[i].item = item /\ polls[i].start = start /\ doing \in {"fetch", "publish"} =>
         turn # 1

PollInv == ScriptTypes /\ AtHand /\ InOrder /\ Ahead

LEMMA PollTypes ==
  ASSUME polls \in Seq(Envelopes)
  PROVE  \A i \in 1..Len(polls) : polls[i].item \in Nat /\ polls[i].start \in Nat
<1>1. \A i \in 1..Len(polls) : polls[i] \in Envelopes
  OBVIOUS
<1>2. \A e \in Envelopes : e.item \in Nat /\ e.start \in Nat
  BY DEF Envelopes
<1>3. QED
  BY <1>1, <1>2

(* The envelope at hand goes to the end of the topic.                      *)
LEMMA StoredInOrder ==
  ASSUME PollInv, doing = "publish", polls' = Append(polls, answer)
  PROVE  /\ polls' \in Seq(Envelopes) /\ InOrder'
         /\ \A i \in 1..Len(polls') : polls'[i].item <= item /\ polls'[i].start <= start
<1>1. answer \in Envelopes /\ answer.item = item /\ answer.start = start
      /\ answer.currency = CURRENCIES[turn]
  BY DEF PollInv, AtHand
<1>2. polls \in Seq(Envelopes) /\ Len(polls) \in Nat /\ item \in Nat /\ start \in Nat
      /\ turn \in 1..4
  BY DEF PollInv, ScriptTypes
<1>3. /\ polls' \in Seq(Envelopes) /\ Len(polls') = Len(polls) + 1
      /\ \A i \in 1..Len(polls) : polls'[i] = polls[i]
      /\ polls'[Len(polls) + 1] = answer
  BY <1>1, <1>2
<1>4. \A i \in 1..Len(polls') : i \in 1..Len(polls) \/ i = Len(polls) + 1
  BY <1>2, <1>3
<1>5. turn # 1 => answer.currency # "USD"
  BY <1>1, <1>2 DEF CURRENCIES
<1>6. ASSUME NEW i \in 1..Len(polls)
      PROVE  /\ polls[i].item <= item /\ polls[i].start <= start
             /\ polls[i].item = item /\ polls[i].start = start => answer.currency # "USD"
  BY <1>5 DEF PollInv, Ahead
<1>7. ASSUME NEW i \in 1..Len(polls'), NEW j \in 1..Len(polls'), i < j
      PROVE  /\ polls'[i].item <= polls'[j].item
             /\ polls'[i].item = polls'[j].item =>
                  /\ polls'[i].start <= polls'[j].start
                  /\ polls'[i].start = polls'[j].start => polls'[j].currency # "USD"
  <2>1. i \in 1..Len(polls)
    BY <1>2, <1>4, <1>7
  <2>2. CASE j \in 1..Len(polls)
    BY <1>3, <1>7, <2>1, <2>2 DEF PollInv, InOrder
  <2>3. CASE j = Len(polls) + 1
    BY <1>1, <1>3, <1>6, <2>1, <2>3
  <2>4. QED
    BY <1>4, <2>2, <2>3
<1>8. \A i \in 1..Len(polls') : polls'[i].item <= item /\ polls'[i].start <= start
  BY <1>1, <1>2, <1>3, <1>4, <1>6
<1>9. QED
  BY <1>3, <1>7, <1>8 DEF InOrder

LEMMA PollStep == PollInv /\ [PollNext]_pollVars => PollInv'
<1> SUFFICES ASSUME PollInv, [PollNext]_pollVars PROVE PollInv'
  OBVIOUS
<1>0. /\ doing \in {"fetch", "publish", "done", "ended"}
      /\ item \in Nat /\ turn \in 1..4 /\ start \in Nat /\ day \in Nat
      /\ polls \in Seq(Envelopes)
  BY DEF PollInv, ScriptTypes
<1>1. ASSUME NEW priced \in BOOLEAN, Fetch(priced)
      PROVE  PollInv'
  <2>1. /\ doing = "fetch" /\ doing' = "publish" /\ UNCHANGED <<item, turn, start, day, polls>>
        /\ answer' = [item |-> item, currency |-> CURRENCIES[turn], start |-> start,
                      day |-> day, priced |-> priced]
    BY <1>1 DEF Fetch
  <2>2. CURRENCIES[turn] \in {"USD", "EUR", "SGD", "IDR"}
    <3>1. turn = 1 \/ turn = 2 \/ turn = 3 \/ turn = 4
      BY <1>0
    <3>2. QED
      BY <3>1 DEF CURRENCIES
  <2>3. AtHand'
    BY <1>0, <2>1, <2>2 DEF AtHand, Envelopes
  <2>4. QED
    BY <2>1, <2>3 DEF PollInv, ScriptTypes, InOrder, Ahead
<1>2. CASE Publish
  <2>1. doing = "publish" /\ polls' = Append(polls, answer) /\ Advance
        /\ UNCHANGED <<start, day>>
    BY <1>2 DEF Publish
  <2>2. /\ polls' \in Seq(Envelopes) /\ InOrder'
        /\ \A i \in 1..Len(polls') : polls'[i].item <= item /\ polls'[i].start <= start
        /\ \A i \in 1..Len(polls') : polls'[i].item \in Nat
    <3>1. polls' \in Seq(Envelopes) => \A i \in 1..Len(polls') : polls'[i].item \in Nat
      <4>1. ASSUME polls' \in Seq(Envelopes), NEW i \in 1..Len(polls')
            PROVE  polls'[i] \in Envelopes
        BY <4>1
      <4>2. \A e \in Envelopes : e.item \in Nat
        BY DEF Envelopes
      <4>3. QED
        BY <4>1, <4>2
    <3>2. QED
      BY <2>1, <3>1, StoredInOrder
  <2>3. Len(CURRENCIES) = 4
    BY DEF CURRENCIES
  <2>4. \/ turn' = turn + 1 /\ doing' = "fetch" /\ item' = item /\ turn < 4
        \/ turn' = 1 /\ doing' = "fetch" /\ item' = item + 1
        \/ turn' = turn /\ doing' = "done" /\ item' = item
    BY <2>1, <2>3 DEF Advance
  <2>5. ScriptTypes' /\ AtHand'
    BY <1>0, <2>1, <2>2, <2>4 DEF ScriptTypes, AtHand
  <2>6. Ahead'
    BY <1>0, <2>1, <2>2, <2>4 DEF Ahead
  <2>7. QED
    BY <2>2, <2>5, <2>6 DEF PollInv
<1>3. ASSUME NEW stored \in BOOLEAN, ScriptEnds(stored)
      PROVE  PollInv'
  <2>1. /\ stored => doing = "publish"
        /\ polls' = IF stored THEN Append(polls, answer) ELSE polls
        /\ doing' = "ended" /\ UNCHANGED <<item, turn, start, day>>
    BY <1>3 DEF ScriptEnds
  <2>2. CASE stored
    <3>1. /\ polls' \in Seq(Envelopes) /\ InOrder'
          /\ \A i \in 1..Len(polls') : polls'[i].item <= item /\ polls'[i].start <= start
      BY <2>1, <2>2, StoredInOrder
    <3>2. QED
      BY <1>0, <2>1, <3>1 DEF PollInv, ScriptTypes, AtHand, Ahead
  <2>3. CASE ~stored
    BY <2>1, <2>3 DEF PollInv, ScriptTypes, AtHand, InOrder, Ahead
  <2>4. QED
    BY <2>2, <2>3
<1>4. CASE StartAgain
  <2>1. /\ doing = "ended" /\ doing' = "fetch" /\ start' = start + 1 /\ turn' = 1
        /\ UNCHANGED <<item, day, answer, polls>>
    BY <1>4 DEF StartAgain
  <2>2. Ahead'
    <3>1. \A i \in 1..Len(polls) : polls[i].start \in Nat
      BY <1>0, PollTypes
    <3>2. QED
      BY <1>0, <2>1, <3>1 DEF PollInv, Ahead
  <2>3. QED
    BY <1>0, <2>1, <2>2 DEF PollInv, ScriptTypes, AtHand, InOrder
<1>5. CASE Midnight
  BY <1>0, <1>5 DEF Midnight, PollInv, ScriptTypes, AtHand, InOrder, Ahead
<1>6. CASE UNCHANGED pollVars
  BY <1>6 DEF pollVars, PollInv, ScriptTypes, AtHand, InOrder, Ahead
<1>7. QED
  BY <1>1, <1>2, <1>3, <1>4, <1>5, <1>6 DEF PollNext

(* A price is compared with the dollar price of its own pass, for any      *)
(* watchlist, refusals, resumes, midnights and days without a rate.        *)
THEOREM BaselineIsOwn == PollSpec => []OwnBaseline
<1>1. PollInit => PollInv
  BY DEF PollInit, PollInv, ScriptTypes, AtHand, InOrder, Ahead
<1>2. ASSUME PollInv, NEW n \in Converted, NEW m \in Converted,
             polls[n].currency # "USD", polls[m].currency = "USD",
             polls[n].item = polls[m].item, polls[n].start = polls[m].start
      PROVE  Baseline(n) = {m}
  <2>1. \A i \in Converted : i \in 1..Len(polls)
    BY <1>2 DEF Converted, PollInv, ScriptTypes
  <2>2. \A i \in 1..Len(polls) : i \in Nat /\ polls[i].start \in Nat
    BY <1>2, PollTypes DEF PollInv, ScriptTypes
  <2>3. m < n
    BY <1>2, <2>1, <2>2 DEF PollInv, InOrder
  <2>4. m \in UsdPolls(n)
    BY <1>2 DEF UsdPolls
  <2>5. ASSUME NEW k \in UsdPolls(n), k <= n, m < k
        PROVE  FALSE
    <3>1. /\ k \in 1..Len(polls) /\ polls[k].currency = "USD"
          /\ polls[k].item = polls[n].item
      BY <2>1 DEF UsdPolls
    <3>2. k < n
      BY <1>2, <2>1, <2>2, <2>5, <3>1
    <3>3. polls[m].start <= polls[k].start /\ polls[k].start <= polls[n].start
      BY <1>2, <2>1, <2>5, <3>1, <3>2 DEF PollInv, InOrder
    <3>4. polls[m].start = polls[k].start
      BY <1>2, <2>1, <2>2, <3>1, <3>3
    <3>5. QED
      BY <1>2, <2>1, <2>5, <3>1, <3>4 DEF PollInv, InOrder
  <2>6. \A k \in UsdPolls(n) : k \in Nat /\ (k <= n => k <= m)
    BY <2>1, <2>2, <2>5 DEF UsdPolls
  <2>7. QED
    BY <2>1, <2>2, <2>3, <2>4, <2>6 DEF Baseline
<1>3. PollInv => OwnBaseline
  BY <1>2 DEF OwnBaseline
<1>4. QED
  BY <1>1, <1>3, PollStep, PTL DEF PollSpec
=============================================================================
