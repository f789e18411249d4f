----------------------------- MODULE VerdictProofs -----------------------------
(***************************************************************************)
(* What the rules of scoring.py keep true of the table of verdicts, for    *)
(* any composites, thresholds, margin, windows and faults.  Every property *)
(* speaks of the newest rows, so that the row a step writes, and where it  *)
(* puts the rows it has read, are all there is to know.                    *)
(***************************************************************************)
EXTENDS Verdicts, FiniteSetTheorems, SequenceTheorems, WellFoundedInduction, TLAPS

Rated(v) == "no_data" \in v.flags <=> v.comp = NoData

-----------------------------------------------------------------------------
(* Numbers *)

Below == {p \in Nat \X Nat : p[1] < p[2]}

\* A set of naturals has a least element: what takes the place of induction here.
LEMMA Least ==
  ASSUME NEW T, T \subseteq Nat, T # {}
  PROVE  \E x \in T : \A y \in T : x <= y
<1>1. IsWellFoundedOn(Below, Nat)
  <2>1. OpToRel(<, Nat) = Below
    BY DEF OpToRel, Below
  <2> QED
    BY <2>1, NatLessThanWellFounded
<1>2. PICK x \in T : \A y \in T : ~(<<y, x>> \in Below)
  BY <1>1, WFMin
<1>3. ASSUME NEW y \in T PROVE x <= y
  <2> DEFINE p == <<y, x>>
  <2>1. p \in Nat \X Nat /\ p[1] = y /\ p[2] = x
    OBVIOUS
  <2> HIDE DEF p
  <2>2. ~(y < x)
    <3>1. p \notin Below
      BY <1>2 DEF p
    <3> QED
      BY <2>1, <3>1 DEF Below
  <2>3. x \in Nat /\ y \in Nat
    OBVIOUS
  <2> QED
    BY <2>2, <2>3
<1> QED
  BY <1>3

\* and, when it is bounded, a greatest one.
LEMMA Greatest ==
  ASSUME NEW n \in Nat, NEW T, T \subseteq 0..n, T # {}
  PROVE  \E x \in T : \A y \in T : y <= x
<1> DEFINE U == {u \in 0..n : n - u \in T}
<1>1. U \subseteq Nat /\ U # {}
  <2>1. PICK t \in T : TRUE
    OBVIOUS
  <2>2. n - t \in 0..n /\ n - (n - t) = t
    OBVIOUS
  <2>3. n - t \in U
    BY <2>2
  <2> QED
    BY <2>3
<1>2. PICK u \in U : \A w \in U : u <= w
  BY <1>1, Least
<1>3. ASSUME NEW y \in T PROVE y <= n - u
  <2>1. n - y \in 0..n /\ n - (n - y) = y
    OBVIOUS
  <2>2. n - y \in U
    BY <2>1
  <2>3. u <= n - y
    BY <1>2, <2>2
  <2> QED
    BY <2>3
<1>4. n - u \in T
  OBVIOUS
<1> QED
  BY <1>3, <1>4

-----------------------------------------------------------------------------
(* Sums *)

\* A set of naturals that has 0, and with each number the next, has them all.
LEMMA Climb ==
  ASSUME NEW T, 0 \in T, \A n \in Nat : n \in T => n + 1 \in T
  PROVE  \A n \in Nat : n \in T
<1> SUFFICES ASSUME {n \in Nat : n \notin T} # {} PROVE FALSE
  OBVIOUS
<1>1. PICK m \in {n \in Nat : n \notin T} : \A k \in {n \in Nat : n \notin T} : m <= k
  BY Least
<1>2. m \in Nat /\ m # 0 /\ m \notin T
  BY <1>1
<1>3. m - 1 \in Nat /\ (m - 1) + 1 = m
  BY <1>2
<1>4. m - 1 \in T
  <2>1. ~(m <= m - 1)
    BY <1>2
  <2> QED
    BY <1>1, <1>3, <2>1
<1> QED
  BY <1>2, <1>3, <1>4

\* The choice that a fold makes of an element of s.
Pick(s) == CHOOSE x \in s : TRUE

\* One step of the fold of +, on the subset s.
StepOf(f, g, s) == IF s = {} THEN 0 ELSE f[Pick(s)] + g[s \ {Pick(s)}]

\* The recursion of the fold has a solution on the subsets of a finite set.
LEMMA FoldExists ==
  ASSUME NEW D, IsFiniteSet(D), NEW f
  PROVE  \E g : g = [s \in SUBSET D |-> StepOf(f, g, s)]
<1> DEFINE Upto(n) == {s \in SUBSET D : Cardinality(s) <= n}
           T == {n \in Nat : \E g : g = [s \in Upto(n) |-> StepOf(f, g, s)]}
<1>0. \A s \in SUBSET D :
        IsFiniteSet(s) /\ Cardinality(s) \in Nat /\ Cardinality(s) <= Cardinality(D)
  BY FS_Subset, FS_CardinalityType
<1>1. 0 \in T
  <2> DEFINE g == [s \in Upto(0) |-> 0]
  <2>1. \A s \in Upto(0) : s = {}
    <3>1. \A s \in Upto(0) : Cardinality(s) = 0
      BY <1>0
    <3> QED
      BY <1>0, <3>1, FS_EmptySet
  <2>2. \A s \in Upto(0) : StepOf(f, g, s) = 0
    BY <2>1 DEF StepOf
  <2>3. g = [s \in Upto(0) |-> StepOf(f, g, s)]
    BY <2>2
  <2> QED
    BY <2>3
<1>2. ASSUME NEW n \in Nat, n \in T PROVE n + 1 \in T
  <2>1. PICK g : g = [s \in Upto(n) |-> StepOf(f, g, s)]
    BY <1>2
  <2> DEFINE h == [s \in Upto(n + 1) |-> StepOf(f, g, s)]
  <2>2. \A t \in Upto(n) : h[t] = g[t]
    <3>1. \A t \in Upto(n) : t \in Upto(n + 1)
      BY <1>0
    <3>2. \A t \in Upto(n) : g[t] = StepOf(f, g, t)
      BY <2>1
    <3> HIDE DEF Upto
    <3> QED
      BY <3>1, <3>2
  <2>3. ASSUME NEW s \in Upto(n + 1), s # {} PROVE s \ {Pick(s)} \in Upto(n)
    <3>1. Pick(s) \in s
      BY <2>3 DEF Pick
    <3>2. Cardinality(s \ {Pick(s)}) = Cardinality(s) - 1
      BY <1>0, <3>1, FS_RemoveElement
    <3> QED
      BY <1>0, <3>2
  <2>4. \A s \in Upto(n + 1) : StepOf(f, g, s) = StepOf(f, h, s)
    <3> HIDE DEF Upto, h
    <3> QED
      BY <2>2, <2>3 DEF StepOf
  <2>5. h = [s \in Upto(n + 1) |-> StepOf(f, h, s)]
    <3> HIDE DEF Upto
    <3> QED
      BY <2>4
  <2>6. \E k : k = [s \in Upto(n + 1) |-> StepOf(f, k, s)]
    BY <2>5
  <2> QED
    BY <2>6
<1>3. Cardinality(D) \in T
  <2> HIDE DEF T
  <2> QED
    BY <1>1, <1>2, Climb, FS_CardinalityType
<1>4. Upto(Cardinality(D)) = SUBSET D
  BY <1>0
<1> QED
  <2>1. PICK g : g = [s \in Upto(Cardinality(D)) |-> StepOf(f, g, s)]
    BY <1>3
  <2> HIDE DEF Upto
  <2> QED
    BY <1>4, <2>1

\* The folds of +, as the table of the sums over all subsets of the domain.
LEMMA FoldUnfolds ==
  ASSUME NEW D, IsFiniteSet(D), NEW f, DOMAIN f = D
  PROVE  \E g : /\ g = [s \in SUBSET D |-> StepOf(f, g, s)]
                /\ FoldFunction(+, 0, f) = g[D]
<1> DEFINE Fold == CHOOSE g : g = [s \in SUBSET D |-> StepOf(f, g, s)]
<1>1. Fold = [s \in SUBSET D |-> StepOf(f, Fold, s)]
  BY FoldExists
<1>2. FoldFunction(+, 0, f) = Fold[D]
  BY DEF FoldFunction, FoldFunctionOnSet, MapThenFoldSet, StepOf, Pick
<1> HIDE DEF Fold
<1> QED
  BY <1>1, <1>2

\* A table of the sums of f over the subsets of its domain.
IsSums(g, f) ==
  /\ g \in [SUBSET DOMAIN f -> Int] /\ g[{}] = 0
  /\ \A s \in SUBSET DOMAIN f : \A x \in s : g[s] = f[x] + g[s \ {x}]

\* A fold of + over a finite domain is a sum: it has such a table, whatever it chooses.
LEMMA FoldIsSum ==
  ASSUME NEW D, IsFiniteSet(D), NEW f \in [D -> Int]
  PROVE  \E g : IsSums(g, f) /\ FoldFunction(+, 0, f) = g[D]
<1>1. PICK g : g = [s \in SUBSET D |-> StepOf(f, g, s)] /\ FoldFunction(+, 0, f) = g[D]
  BY FoldUnfolds
<1>2. g[{}] = 0
  BY <1>1 DEF StepOf
<1>3. \A s \in SUBSET D : s # {} => Pick(s) \in s /\ g[s] = f[Pick(s)] + g[s \ {Pick(s)}]
  BY <1>1 DEF StepOf, Pick
<1>4. \A s \in SUBSET D : IsFiniteSet(s) /\ Cardinality(s) \in Nat
  BY FS_Subset, FS_CardinalityType
<1>5. \A s \in SUBSET D : \A x \in s :
        Cardinality(s \ {x}) = Cardinality(s) - 1 /\ s \ {x} \in SUBSET D
  BY <1>4, FS_RemoveElement
<1>6. \A s \in SUBSET D : g[s] \in Int
  <2> DEFINE T == {n \in Nat : \A s \in SUBSET D : Cardinality(s) = n => g[s] \in Int}
  <2>1. 0 \in T
    BY <1>2, <1>4, FS_EmptySet
  <2>2. ASSUME NEW n \in Nat, n \in T PROVE n + 1 \in T
    <3>0. \A t \in SUBSET D : Cardinality(t) = n => g[t] \in Int
      BY <2>2
    <3> HIDE DEF T
    <3>1. ASSUME NEW s \in SUBSET D, Cardinality(s) = n + 1 PROVE g[s] \in Int
      <4>1. s # {}
        BY <3>1, FS_EmptySet
      <4>2. Cardinality(s \ {Pick(s)}) = n /\ s \ {Pick(s)} \in SUBSET D
        BY <1>3, <1>5, <3>1, <4>1
      <4>3. g[s \ {Pick(s)}] \in Int /\ f[Pick(s)] \in Int
        BY <1>3, <3>0, <4>1, <4>2
      <4> DEFINE a == f[Pick(s)]
                 b == g[s \ {Pick(s)}]
      <4>4. g[s] = a + b /\ a \in Int /\ b \in Int
        BY <1>3, <4>1, <4>3
      <4> HIDE DEF a, b
      <4> QED
        BY <4>4
    <3> QED
      BY <3>1 DEF T
  <2> HIDE DEF T
  <2>3. \A n \in Nat : n \in T
    BY <2>1, <2>2, Climb
  <2> QED
    BY <1>4, <2>3 DEF T
<1>7. \A s \in SUBSET D : \A x \in s : g[s] = f[x] + g[s \ {x}]
  <2> DEFINE T == {n \in Nat : \A s \in SUBSET D : Cardinality(s) = n =>
                                 \A x \in s : g[s] = f[x] + g[s \ {x}]}
  <2>1. 0 \in T
    BY <1>4, FS_EmptySet
  <2>2. ASSUME NEW n \in Nat, n \in T PROVE n + 1 \in T
    <3>0. \A t \in SUBSET D : Cardinality(t) = n => \A x \in t : g[t] = f[x] + g[t \ {x}]
      BY <2>2
    <3> HIDE DEF T
    <3>1. ASSUME NEW s \in SUBSET D, Cardinality(s) = n + 1, NEW x \in s
          PROVE  g[s] = f[x] + g[s \ {x}]
      <4> DEFINE y == Pick(s)
      <4>1. y \in s /\ g[s] = f[y] + g[s \ {y}]
        BY <1>3
      <4> HIDE DEF y
      <4>2. CASE x = y
        BY <4>1, <4>2
      <4>3. CASE x # y
        <5>1. s \ {x} \in SUBSET D /\ Cardinality(s \ {x}) = n /\ y \in s \ {x}
          BY <1>5, <3>1, <4>1, <4>3
        <5>2. s \ {y} \in SUBSET D /\ Cardinality(s \ {y}) = n /\ x \in s \ {y}
          BY <1>5, <3>1, <4>1, <4>3
        <5>3. g[s \ {x}] = f[y] + g[(s \ {x}) \ {y}]
          BY <3>0, <5>1
        <5>4. g[s \ {y}] = f[x] + g[(s \ {y}) \ {x}]
          BY <3>0, <5>2
        <5>5. (s \ {x}) \ {y} = (s \ {y}) \ {x} /\ (s \ {x}) \ {y} \in SUBSET D
          OBVIOUS
        <5>6. g[(s \ {x}) \ {y}] \in Int /\ f[x] \in Int /\ f[y] \in Int
          BY <1>6, <4>1, <5>5
        <5> DEFINE a == f[x]
                   b == f[y]
                   c == g[(s \ {x}) \ {y}]
        <5>7. g[s] = b + g[s \ {y}] /\ g[s \ {x}] = b + c /\ g[s \ {y}] = a + c
          BY <4>1, <5>3, <5>4, <5>5
        <5>8. a \in Int /\ b \in Int /\ c \in Int
          BY <5>6
        <5> HIDE DEF a, b, c
        <5>9. g[s] = a + g[s \ {x}]
          BY <5>7, <5>8
        <5> QED
          BY <5>9 DEF a
      <4> QED
        BY <4>2, <4>3
    <3> QED
      BY <3>1 DEF T
  <2> HIDE DEF T
  <2>3. \A n \in Nat : n \in T
    BY <2>1, <2>2, Climb
  <2> QED
    BY <1>4, <2>3 DEF T
<1>8. IsSums(g, f)
  BY <1>1, <1>2, <1>6, <1>7 DEF IsSums
<1> QED
  BY <1>1, <1>8

LEMMA FoldIsInt ==
  ASSUME NEW D, IsFiniteSet(D), NEW f \in [D -> Int]
  PROVE  FoldFunction(+, 0, f) \in Int
<1>1. PICK g : IsSums(g, f) /\ FoldFunction(+, 0, f) = g[D]
  BY FoldIsSum
<1>2. g \in [SUBSET D -> Int]
  BY <1>1 DEF IsSums
<1> QED
  BY <1>1, <1>2

\* The sums over the first elements of a sequence.
Accumulate(n, f, g) ==
  /\ g[1..0] = 0
  /\ \A k \in 0..n : g[1..k] \in Int
  /\ \A k \in 0..(n - 1) : g[1..(k + 1)] = g[1..k] + f[k + 1]

LEMMA Prefixes ==
  ASSUME NEW n \in Nat, NEW f \in [1..n -> Int], NEW g, IsSums(g, f)
  PROVE  Accumulate(n, f, g)
<1>1. g[1..0] = 0
  <2>1. 1..0 = {}
    OBVIOUS
  <2> QED
    BY <2>1 DEF IsSums
<1>2. DOMAIN f = 1..n
  OBVIOUS
<1>3. \A k \in 0..n : g[1..k] \in Int
  <2>1. \A k \in 0..n : 1..k \in SUBSET (1..n)
    OBVIOUS
  <2> QED
    BY <1>2, <2>1 DEF IsSums
<1>4. ASSUME NEW k \in 0..(n - 1) PROVE g[1..(k + 1)] = g[1..k] + f[k + 1]
  <2>1. 1..(k + 1) \in SUBSET (1..n) /\ k + 1 \in 1..(k + 1) /\ k + 1 \in 1..n
    OBVIOUS
  <2>2. (1..(k + 1)) \ {k + 1} = 1..k
    OBVIOUS
  <2>3. g[1..(k + 1)] = f[k + 1] + g[(1..(k + 1)) \ {k + 1}]
    BY <1>2, <2>1 DEF IsSums
  <2>4. g[1..k] \in Int /\ f[k + 1] \in Int
    BY <1>3, <2>1
  <2> DEFINE a == f[k + 1]
             b == g[1..k]
  <2>5. g[1..(k + 1)] = a + b /\ a \in Int /\ b \in Int
    BY <2>2, <2>3, <2>4
  <2> HIDE DEF a, b
  <2>6. g[1..(k + 1)] = b + a
    BY <2>5
  <2> QED
    BY <2>6 DEF a, b
<1> QED
  BY <1>1, <1>3, <1>4 DEF Accumulate

\* The numerator of a least-squares slope is the sum over all pairs of their rise times
\* their distance: a, b and c are the sums of i * v[i], of i and of v[i] over the first i,
\* t[k] that over the pairs of the first k, q[k][j] that and the pairs of k + 1 and the first j.
RowSums(n, v, a, b, c) ==
  /\ a[0] = 0 /\ b[0] = 0 /\ c[0] = 0
  /\ \A k \in 0..(n - 1) : /\ a[k + 1] = a[k] + (k + 1) * v[k + 1]
                           /\ b[k + 1] = b[k] + (k + 1)
                           /\ c[k + 1] = c[k] + v[k + 1]

PairSums(n, v, t, q) ==
  /\ t[0] = 0
  /\ \A k \in 0..(n - 1) : /\ q[k][0] = t[k] /\ q[k][k] = t[k + 1]
                           /\ \A j \in 0..(k - 1) :
                                q[k][j + 1] = q[k][j] + (k - j) * (v[k + 1] - v[j + 1])

\* The result, in a form in which it can be cited.
IsSlope(n, x, y, z, w) == x = n * y - z * w

LEMMA SlopeOfPairs ==
  ASSUME NEW n \in Nat, NEW v \in [1..n -> Int],
         NEW a \in [0..n -> Int], NEW b \in [0..n -> Int], NEW c \in [0..n -> Int],
         NEW t \in [0..n -> Int], NEW q \in [0..n -> [0..n -> Int]],
         RowSums(n, v, a, b, c), PairSums(n, v, t, q)
  PROVE  IsSlope(n, t[n], a[n], b[n], c[n])
<1>0. /\ a[0] = 0 /\ b[0] = 0 /\ c[0] = 0 /\ t[0] = 0
      /\ \A k \in 0..(n - 1) : /\ a[k + 1] = a[k] + (k + 1) * v[k + 1]
                               /\ b[k + 1] = b[k] + (k + 1)
                               /\ c[k + 1] = c[k] + v[k + 1]
      /\ \A k \in 0..(n - 1) : /\ q[k][0] = t[k] /\ q[k][k] = t[k + 1]
                               /\ \A j \in 0..(k - 1) :
                                    q[k][j + 1] = q[k][j] + (k - j) * (v[k + 1] - v[j + 1])
  BY DEF RowSums, PairSums
<1>1. ASSUME NEW k \in 0..(n - 1)
      PROVE  t[k + 1] = t[k] + (k + 1) * k * v[k + 1] - v[k + 1] * b[k] - (k + 1) * c[k] + a[k]
  <2> DEFINE w == v[k + 1]
             Partial(j) == t[k] + (k + 1) * j * w - w * b[j] - (k + 1) * c[j] + a[j]
             T == {j \in Nat : j <= k => q[k][j] = Partial(j)}
  <2>0. k \in Nat /\ w \in Int /\ t[k] \in Int /\ k + 1 \in 1..n
    OBVIOUS
  <2>1. 0 \in T
    BY <1>0, <2>0
  <2>2. ASSUME NEW j \in Nat, j \in T PROVE j + 1 \in T
    <3> SUFFICES ASSUME j + 1 <= k PROVE q[k][j + 1] = Partial(j + 1)
      OBVIOUS
    <3>1. j \in 0..(k - 1) /\ j \in 0..(n - 1) /\ j + 1 \in 1..n /\ q[k][j] = Partial(j)
      BY <2>0, <2>2
    <3> DEFINE x == v[j + 1]
               aj == a[j]
               bj == b[j]
               cj == c[j]
               tk == t[k]
    <3>2. x \in Int /\ aj \in Int /\ bj \in Int /\ cj \in Int /\ tk \in Int
      BY <2>0, <3>1
    <3>3. q[k][j + 1] = (tk + (k + 1) * j * w - w * bj - (k + 1) * cj + aj) + (k - j) * (w - x)
      BY <1>0, <3>1
    <3>4. a[j + 1] = aj + (j + 1) * x /\ b[j + 1] = bj + (j + 1) /\ c[j + 1] = cj + x
      BY <1>0, <3>1
    <3> HIDE DEF w, x, aj, bj, cj, tk
    <3>5. (tk + (k + 1) * j * w - w * bj - (k + 1) * cj + aj) + (k - j) * (w - x)
            = tk + (k + 1) * (j + 1) * w - w * (bj + (j + 1)) - (k + 1) * (cj + x)
                + (aj + (j + 1) * x)
      BY <2>0, <3>2
    <3> QED
      BY <3>3, <3>4, <3>5 DEF tk
  <2> HIDE DEF T
  <2>3. k \in T
    BY <2>0, <2>1, <2>2, Climb
  <2>4. q[k][k] = Partial(k)
    BY <2>0, <2>3 DEF T
  <2> QED
    BY <1>0, <2>4
<1> DEFINE S == {k \in Nat : k <= n => t[k] = k * a[k] - b[k] * c[k]}
<1>2. 0 \in S
  BY <1>0
<1>3. ASSUME NEW k \in Nat, k \in S PROVE k + 1 \in S
  <2> SUFFICES ASSUME k + 1 <= n PROVE t[k + 1] = (k + 1) * a[k + 1] - b[k + 1] * c[k + 1]
    OBVIOUS
  <2>1. k \in 0..(n - 1) /\ k + 1 \in 1..n /\ t[k] = k * a[k] - b[k] * c[k]
    BY <1>3
  <2> DEFINE w == v[k + 1]
             ak == a[k]
             bk == b[k]
             ck == c[k]
  <2>2. w \in Int /\ ak \in Int /\ bk \in Int /\ ck \in Int
    BY <2>1
  <2>3. t[k + 1] = (k * ak - bk * ck) + (k + 1) * k * w - w * bk - (k + 1) * ck + ak
    BY <1>1, <2>1
  <2>4. a[k + 1] = ak + (k + 1) * w /\ b[k + 1] = bk + (k + 1) /\ c[k + 1] = ck + w
    BY <1>0, <2>1
  <2> HIDE DEF w, ak, bk, ck
  <2>5. (k * ak - bk * ck) + (k + 1) * k * w - w * bk - (k + 1) * ck + ak
          = (k + 1) * (ak + (k + 1) * w) - (bk + (k + 1)) * (ck + w)
    BY <2>2
  <2> QED
    BY <2>3, <2>4, <2>5
<1> HIDE DEF S
<1>4. n \in S
  BY <1>2, <1>3, Climb
<1> QED
  BY <1>4 DEF S, IsSlope

\* The pairs of the newest n rows, of a table of at most m.
PairsOf(m, n) == {p \in (1..m) \X (1..m) : p[1] < p[2] /\ p[2] <= n}

\* Of these, the pairs of the k oldest; and of the next row with the j oldest; and both.
OldPairs(m, n, k) == {p \in PairsOf(m, n) : n + 1 - k <= p[1]}
NextPairs(m, n, k, j) == {p \in PairsOf(m, n) : p[1] = n - k /\ n + 1 - j <= p[2]}

Seen(m, n, k, j) == OldPairs(m, n, k) \cup NextPairs(m, n, k, j)

Gains(s, e, t) == e \in t /\ t \ {e} = s

LEMMA PairsGrow ==
  ASSUME NEW m \in Nat, NEW n \in 0..m
  PROVE  /\ OldPairs(m, n, 0) = {} /\ OldPairs(m, n, n) = PairsOf(m, n)
         /\ \A k \in 0..(n - 1) :
              /\ Seen(m, n, k, 0) = OldPairs(m, n, k)
              /\ Seen(m, n, k, k) = OldPairs(m, n, k + 1)
         /\ \A k \in 0..(n - 1) : \A j \in 0..(k - 1) :
              Gains(Seen(m, n, k, j), <<n - k, n - j>>, Seen(m, n, k, j + 1))
<1>0. \A p \in PairsOf(m, n) :
        /\ p[1] \in 1..n /\ p[2] \in 1..n /\ p[1] < p[2]
        /\ p = <<p[1], p[2]>>
  BY DEF PairsOf
<1>1. OldPairs(m, n, 0) = {} /\ OldPairs(m, n, n) = PairsOf(m, n)
  BY <1>0 DEF OldPairs
<1>2. ASSUME NEW k \in 0..(n - 1)
      PROVE  /\ Seen(m, n, k, 0) = OldPairs(m, n, k)
             /\ Seen(m, n, k, k) = OldPairs(m, n, k + 1)
  BY <1>0 DEF Seen, OldPairs, NextPairs
<1>3. ASSUME NEW k \in 0..(n - 1), NEW j \in 0..(k - 1)
      PROVE  Gains(Seen(m, n, k, j), <<n - k, n - j>>, Seen(m, n, k, j + 1))
  <2> DEFINE e == <<n - k, n - j>>
  <2>1. e \in PairsOf(m, n) /\ e[1] = n - k /\ e[2] = n - j
    BY DEF PairsOf
  <2>2. \A p \in PairsOf(m, n) : p = e <=> p[1] = n - k /\ p[2] = n - j
    BY <1>0
  <2> HIDE DEF e
  <2>3. /\ e \in NextPairs(m, n, k, j + 1)
        /\ e \notin OldPairs(m, n, k) /\ e \notin NextPairs(m, n, k, j)
    BY <2>1 DEF NextPairs, OldPairs
  <2>4. \A p \in PairsOf(m, n) :
          (p \in NextPairs(m, n, k, j + 1) /\ p # e) <=> p \in NextPairs(m, n, k, j)
    <3> SUFFICES ASSUME NEW p \in PairsOf(m, n)
                 PROVE  (p[1] = n - k /\ n + 1 - (j + 1) <= p[2] /\ p # e)
                          <=> (p[1] = n - k /\ n + 1 - j <= p[2])
      BY DEF NextPairs
    <3> QED
      BY <1>0, <2>2
  <2>5. NextPairs(m, n, k, j + 1) \ {e} = NextPairs(m, n, k, j)
    BY <2>4 DEF NextPairs
  <2> QED
    BY <2>3, <2>5 DEF Gains, Seen, e
<1> QED
  BY <1>1, <1>2, <1>3

LEMMA PairsFinite ==
  ASSUME NEW m \in Nat, NEW n
  PROVE  IsFiniteSet(PairsOf(m, n))
<1>1. IsFiniteSet(1..m)
  BY FS_Interval
<1>2. IsFiniteSet((1..m) \X (1..m))
  BY <1>1, FS_Product
<1>3. PairsOf(m, n) \subseteq (1..m) \X (1..m)
  BY DEF PairsOf
<1> QED
  BY <1>2, <1>3, FS_Subset

\* scoring.py:157, the sign of the slope: the numerator is the sum over all pairs of days of
\* the fall between them times their distance, negated; v is the series, oldest first.
LEMMA SlopeIsFall ==
  ASSUME NEW m \in Nat, NEW n \in 0..m, NEW v \in Seq(Int), Len(v) = n,
         NEW f \in [PairsOf(m, n) -> Int],
         \A p \in PairsOf(m, n) : f[p] = (p[2] - p[1]) * (v[n + 1 - p[1]] - v[n + 1 - p[2]])
  PROVE  SlopeSign(v) = FoldFunction(+, 0, f)
<1> DEFINE A == [i \in 1..n |-> i * v[i]]
           B == [i \in 1..n |-> i]
           P == PairsOf(m, n)
           Old(k) == OldPairs(m, n, k)
           Up(k, j) == Seen(m, n, k, j)
<1>1. /\ n \in Nat /\ f \in [P -> Int]
      /\ v \in [1..n -> Int] /\ A \in [1..n -> Int] /\ B \in [1..n -> Int]
  OBVIOUS
<1>2. IsFiniteSet(1..n) /\ IsFiniteSet(P)
  BY <1>1, FS_Interval, PairsFinite
<1>3. SlopeSign(v) = n * FoldFunction(+, 0, A) - FoldFunction(+, 0, B) * FoldFunction(+, 0, v)
  BY DEF SlopeSign
<1>4. \A k \in 1..n : A[k] = k * v[k] /\ B[k] = k
  OBVIOUS
<1>5. DOMAIN f = P /\ \A p \in P : f[p] = (p[2] - p[1]) * (v[n + 1 - p[1]] - v[n + 1 - p[2]])
  OBVIOUS
<1>6. /\ Old(0) = {} /\ Old(n) = P
      /\ \A k \in 0..(n - 1) : Up(k, 0) = Old(k) /\ Up(k, k) = Old(k + 1)
      /\ \A k \in 0..(n - 1) : \A j \in 0..(k - 1) :
           Gains(Up(k, j), <<n - k, n - j>>, Up(k, j + 1))
  BY PairsGrow
<1>7. \A k, j : Old(k) \in SUBSET P /\ Up(k, j) \in SUBSET P
  BY DEF Seen, OldPairs, NextPairs
<1> HIDE DEF A, B, P, Old, Up
<1>8. PICK ga : IsSums(ga, A) /\ FoldFunction(+, 0, A) = ga[1..n]
  BY <1>1, <1>2, FoldIsSum
<1>9. PICK gb : IsSums(gb, B) /\ FoldFunction(+, 0, B) = gb[1..n]
  BY <1>1, <1>2, FoldIsSum
<1>10. PICK gc : IsSums(gc, v) /\ FoldFunction(+, 0, v) = gc[1..n]
  BY <1>1, <1>2, FoldIsSum
<1>11. PICK gt : IsSums(gt, f) /\ FoldFunction(+, 0, f) = gt[P]
  BY <1>1, <1>2, FoldIsSum
<1>12. IsSums(ga, A) /\ IsSums(gb, B) /\ IsSums(gc, v) /\ IsSums(gt, f)
  BY <1>8, <1>9, <1>10, <1>11
<1>13. Accumulate(n, A, ga) /\ Accumulate(n, B, gb) /\ Accumulate(n, v, gc)
  BY <1>1, <1>12, Prefixes
<1>14. /\ ga[1..0] = 0 /\ gb[1..0] = 0 /\ gc[1..0] = 0
      /\ \A k \in 0..n : ga[1..k] \in Int /\ gb[1..k] \in Int /\ gc[1..k] \in Int
  BY <1>13 DEF Accumulate
<1>15. \A k \in 0..(n - 1) : /\ ga[1..(k + 1)] = ga[1..k] + A[k + 1]
                            /\ gb[1..(k + 1)] = gb[1..k] + B[k + 1]
                            /\ gc[1..(k + 1)] = gc[1..k] + v[k + 1]
  BY <1>13 DEF Accumulate
<1>16. /\ gt[{}] = 0 /\ \A s \in SUBSET P : gt[s] \in Int
      /\ \A s \in SUBSET P : \A x \in s : gt[s] = f[x] + gt[s \ {x}]
  BY <1>5, <1>12 DEF IsSums
<1> DEFINE a == [k \in 0..n |-> ga[1..k]]
           b == [k \in 0..n |-> gb[1..k]]
           c == [k \in 0..n |-> gc[1..k]]
           t == [k \in 0..n |-> gt[Old(k)]]
           q == [k \in 0..n |-> [j \in 0..n |-> gt[Up(k, j)]]]
<1>17. a \in [0..n -> Int] /\ b \in [0..n -> Int] /\ c \in [0..n -> Int]
  BY <1>14
<1>18. t \in [0..n -> Int] /\ q \in [0..n -> [0..n -> Int]]
  <2>1. \A k, j : gt[Old(k)] \in Int /\ gt[Up(k, j)] \in Int
    BY <1>7, <1>16
  <2> QED
    BY <2>1
<1>19. \A k \in 0..n : /\ a[k] = ga[1..k] /\ b[k] = gb[1..k] /\ c[k] = gc[1..k]
                       /\ t[k] = gt[Old(k)] /\ \A j \in 0..n : q[k][j] = gt[Up(k, j)]
  OBVIOUS
<1> HIDE DEF a, b, c, t, q
<1>20. 0 \in 0..n /\ n \in 0..n
  BY <1>1
<1>21. a[0] = 0 /\ b[0] = 0 /\ c[0] = 0
  BY <1>14, <1>19, <1>20
<1>22. t[0] = 0
  <2>1. t[0] = gt[Old(0)]
    BY <1>19, <1>20
  <2>2. Old(0) = {} /\ gt[{}] = 0
    BY <1>16, <1>6
  <2> QED
    BY <2>1, <2>2
<1>23. \A k \in 0..(n - 1) : k \in 0..n /\ k + 1 \in 0..n /\ k + 1 \in 1..n
  BY <1>1
<1>24. \A k \in 0..(n - 1) : /\ a[k + 1] = a[k] + (k + 1) * v[k + 1]
                             /\ b[k + 1] = b[k] + (k + 1)
                             /\ c[k + 1] = c[k] + v[k + 1]
  <2> TAKE k \in 0..(n - 1)
  <2>1. A[k + 1] = (k + 1) * v[k + 1] /\ B[k + 1] = k + 1
    BY <1>4, <1>23
  <2>2. /\ a[k + 1] = ga[1..k] + A[k + 1]
        /\ b[k + 1] = gb[1..k] + B[k + 1]
        /\ c[k + 1] = gc[1..k] + v[k + 1]
    BY <1>15, <1>19, <1>23
  <2>3. a[k] = ga[1..k] /\ b[k] = gb[1..k] /\ c[k] = gc[1..k]
    BY <1>19, <1>23
  <2> QED
    BY <2>1, <2>2, <2>3
<1>25. ASSUME NEW k \in 0..(n - 1)
       PROVE  /\ q[k][0] = t[k] /\ q[k][k] = t[k + 1]
              /\ \A j \in 0..(k - 1) : q[k][j + 1] = q[k][j] + (k - j) * (v[k + 1] - v[j + 1])
  <2>1. q[k][0] = t[k] /\ q[k][k] = t[k + 1]
    <3>1. q[k][0] = gt[Up(k, 0)] /\ q[k][k] = gt[Up(k, k)]
      BY <1>19, <1>20, <1>23
    <3>2. Up(k, 0) = Old(k) /\ Up(k, k) = Old(k + 1)
      BY <1>6
    <3>3. t[k] = gt[Old(k)] /\ t[k + 1] = gt[Old(k + 1)]
      BY <1>19, <1>23
    <3> QED
      BY <3>1, <3>2, <3>3
  <2>2. ASSUME NEW j \in 0..(k - 1)
        PROVE  q[k][j + 1] = q[k][j] + (k - j) * (v[k + 1] - v[j + 1])
    <3> DEFINE e == <<n - k, n - j>>
    <3>0. k \in Int /\ j \in Int /\ j \in 0..n /\ j + 1 \in 0..n /\ j + 1 \in 1..n
      BY <1>1
    <3>1. e[1] = n - k /\ e[2] = n - j
      OBVIOUS
    <3>2. e \in Up(k, j + 1) /\ Up(k, j + 1) \ {e} = Up(k, j) /\ Up(k, j + 1) \in SUBSET P
      <4>1. Gains(Up(k, j), e, Up(k, j + 1))
        BY <1>6
      <4> QED
        BY <1>7, <4>1 DEF Gains
    <3> HIDE DEF e
    <3>3. n + 1 - e[1] = k + 1 /\ n + 1 - e[2] = j + 1 /\ e[2] - e[1] = k - j
      BY <1>1, <3>0, <3>1
    <3>4. e \in P
      BY <3>2
    <3>5. f[e] = (k - j) * (v[k + 1] - v[j + 1])
      <4>1. f[e] = (e[2] - e[1]) * (v[n + 1 - e[1]] - v[n + 1 - e[2]])
        BY <1>5, <3>4
      <4> QED
        BY <3>3, <4>1
    <3>6. gt[Up(k, j + 1)] = f[e] + gt[Up(k, j)] /\ gt[Up(k, j)] \in Int
      BY <1>16, <1>7, <3>2
    <3>7. q[k][j + 1] = gt[Up(k, j + 1)] /\ q[k][j] = gt[Up(k, j)]
      BY <1>19, <1>23, <3>0
    <3>8. f[e] \in Int
      BY <1>1, <3>4
    <3> DEFINE x == f[e]
               y == gt[Up(k, j)]
    <3>9. q[k][j + 1] = x + y /\ x \in Int /\ y \in Int
      BY <3>6, <3>7, <3>8
    <3> HIDE DEF x, y
    <3>10. q[k][j + 1] = y + x
      BY <3>9
    <3> QED
      BY <3>5, <3>7, <3>10 DEF x, y
  <2> QED
    BY <2>1, <2>2
<1>26. RowSums(n, v, a, b, c)
  BY <1>21, <1>24 DEF RowSums
<1>27. PairSums(n, v, t, q)
  BY <1>25, <1>22 DEF PairSums
<1>28. IsSlope(n, t[n], a[n], b[n], c[n])
  BY <1>1, <1>17, <1>18, <1>26, <1>27, SlopeOfPairs
<1>29. t[n] = gt[P] /\ a[n] = ga[1..n] /\ b[n] = gb[1..n] /\ c[n] = gc[1..n]
  BY <1>6, <1>19, <1>20
<1>30. gt[P] = n * ga[1..n] - gb[1..n] * gc[1..n]
  BY <1>28, <1>29 DEF IsSlope
<1> QED
  BY <1>3, <1>8, <1>9, <1>10, <1>11, <1>30

-----------------------------------------------------------------------------
(* What decide and apply_vetoes return *)

\* The label before the trend guard.
Next2(c, h) == IF Held(c, h) THEN Label(h) ELSE Band(c)

LEMMA ScoredShape ==
  ASSUME NEW c \in Composites, NEW h \in Seq(Row)
  PROVE  /\ Scored(c, h) \in Row /\ Scored(c, h).comp = c /\ c # NoData
         /\ Scored(c, h).flags \subseteq {"hysteresis_hold", "sell_suppressed_trend"}
         /\ Pure(Scored(c, h)) => Scored(c, h).label = Next2(c, h)
         /\ Scored(c, h).label = "SELL" =>
              Next2(c, h) = "SELL" /\ (Deep(c) \/ ~(SlopeSign(Series(c, h)) >= 0))
<1> DEFINE curb == Next2(c, h) = "SELL" /\ ~Deep(c) /\ SlopeSign(Series(c, h)) >= 0
           fl == {f \in {"hysteresis_hold"} : Held(c, h)}
                   \cup {f \in {"sell_suppressed_trend"} : curb}
<1>1. Scored(c, h) = [label |-> IF curb THEN "HOLD" ELSE Next2(c, h), comp |-> c, flags |-> fl]
  BY DEF Scored, Next2
<1>2. c # NoData
  BY VerdictAssumption DEF VerdictAssumption
<1>3. Next2(c, h) \in Labels
  <2>1. Held(c, h) => h[1] \in Row
    BY DEF Held
  <2> QED
    BY <2>1 DEF Next2, Label, Row, Band, Labels
<1>4. fl \subseteq {"hysteresis_hold", "sell_suppressed_trend"}
  OBVIOUS
<1>5. fl \subseteq {"hysteresis_hold"} => ~curb
  OBVIOUS
<1> HIDE DEF fl
<1>6. Scored(c, h) \in Row
  BY <1>1, <1>3, <1>4 DEF Row, Labels, Flags
<1>7. Scored(c, h).flags = fl /\ Scored(c, h).comp = c
      /\ Scored(c, h).label = (IF curb THEN "HOLD" ELSE Next2(c, h))
  BY <1>1
<1> HIDE DEF curb
<1>8. Scored(c, h).label = "SELL" => ~curb /\ Next2(c, h) = "SELL"
  BY <1>7
<1> QED
  BY <1>2, <1>4, <1>5, <1>6, <1>7, <1>8 DEF Pure, curb

\* What every verdict on the rows h says, whether it is frozen or not.
Sound(v, h) ==
  /\ v \in Row /\ Rated(v)
  /\ Pure(v) => v.comp # NoData /\ v.label = Next2(v.comp, h)
  /\ "earnings_freeze" \in v.flags /\ h # <<>> => v.label = Label(h)
  /\ v.label = "SELL" /\ "earnings_freeze" \notin v.flags =>
       /\ v.comp \in Composites /\ Next2(v.comp, h) = "SELL"
       /\ Deep(v.comp) \/ ~(SlopeSign(Series(v.comp, h)) >= 0)

LEMMA DecideSound ==
  ASSUME NEW c \in Composites \cup {NoData}, NEW h \in Seq(Row)
  PROVE  Sound(Decide(c, h), h) /\ "earnings_freeze" \notin Decide(c, h).flags
<1>1. CASE c = NoData
  <2>1. Decide(c, h) = [label |-> "HOLD", comp |-> c, flags |-> {"no_data"}]
    BY <1>1 DEF Decide
  <2> QED
    BY <1>1, <2>1 DEF Sound, Rated, Row, Labels, Flags, Pure
<1>2. CASE c # NoData
  <2>1. Decide(c, h) = Scored(c, h) /\ c \in Composites
    BY <1>2 DEF Decide
  <2> QED
    BY <2>1, ScoredShape DEF Sound, Rated
<1> QED
  BY <1>1, <1>2

LEMMA FreezeSound ==
  ASSUME NEW h \in Seq(Row), NEW v, Sound(v, h)
  PROVE  Sound(Freeze(v, h), h)
<1>1. h # <<>> => h[1] \in Row
  OBVIOUS
<1>2. v.label \in Labels /\ v.flags \subseteq Flags /\ v.comp \in Composites \cup {NoData}
      /\ v = [label |-> v.label, comp |-> v.comp, flags |-> v.flags]
  BY DEF Sound, Row
<1> DEFINE lab == IF h # <<>> THEN Label(h) ELSE v.label
           fl == v.flags \cup {"earnings_freeze"}
<1>3. Freeze(v, h) = [label |-> lab, comp |-> v.comp, flags |-> fl]
  <2>1. Freeze(v, h) = [v EXCEPT !.label = lab, !.flags = fl]
    BY DEF Freeze
  <2> HIDE DEF lab, fl
  <2> QED
    BY <1>2, <2>1
<1>4. Freeze(v, h) \in Row
  BY <1>1, <1>2, <1>3 DEF Row, Label, Flags
<1> HIDE DEF lab, fl
<1>5. Freeze(v, h).label = lab /\ Freeze(v, h).comp = v.comp /\ Freeze(v, h).flags = fl
  BY <1>3
<1> USE DEF lab, fl
<1>6. Rated(Freeze(v, h))
  BY <1>5 DEF Sound, Rated
<1>7. ~Pure(Freeze(v, h))
  BY <1>5 DEF Pure
<1> QED
  BY <1>4, <1>5, <1>6, <1>7 DEF Sound

-----------------------------------------------------------------------------
(* What upsert_verdict does to the table *)

\* The row written is the newest; on a day without a row the others move down by one.
LEMMA UpsertTable ==
  ASSUME TypeOK, NEW v \in Row, Upsert(v)
  PROVE  /\ rows' \in Seq(Row) /\ Len(rows') \in 1..Kept /\ rows'[1] = v
         /\ replaced' = ranToday /\ ranToday' = TRUE
         /\ ~ranToday =>
              /\ Len(rows') = IF Len(rows) + 1 < Kept THEN Len(rows) + 1 ELSE Kept
              /\ \A i \in 2..Len(rows') : rows'[i] = rows[i - 1]
         /\ \A i \in 2..Len(rows') : \E j \in 1..Len(rows) : rows'[i] = rows[j]
<1> DEFINE older == IF ranToday THEN Tail(rows) ELSE rows
           table == <<v>> \o older
           n == IF Len(table) < Kept THEN Len(table) ELSE Kept
<1>1. rows \in Seq(Row) /\ Len(rows) \in Nat /\ (ranToday => rows # <<>>)
  BY DEF TypeOK
<1>2. Kept \in Nat \ {0}
  BY VerdictAssumption DEF VerdictAssumption
<1>3. /\ older \in Seq(Row) /\ Len(older) \in Nat
      /\ Len(older) = (IF ranToday THEN Len(rows) - 1 ELSE Len(rows))
      /\ \A i \in 1..Len(older) : older[i] = rows[IF ranToday THEN i + 1 ELSE i]
  BY <1>1, HeadTailProperties
<1> HIDE DEF older
<1>4. <<v>> \in Seq(Row) /\ Len(<<v>>) = 1
  OBVIOUS
<1>5. /\ table \in Seq(Row) /\ Len(table) = 1 + Len(older)
      /\ table[1] = v /\ \A i \in 2..Len(table) : table[i] = older[i - 1]
  BY <1>3, <1>4, ConcatProperties
<1> HIDE DEF table
<1>6. n \in 1..Kept /\ n <= Len(table)
  BY <1>2, <1>3, <1>5
<1>7. rows' = SubSeq(table, 1, n) /\ replaced' = ranToday /\ ranToday' = TRUE
  BY DEF Upsert, table, older
<1> HIDE DEF n
<1>8. \A i \in 1..n : table[i] \in Row
  BY <1>5, <1>6, ElementOfSeq
<1>9. rows' \in Seq(Row) /\ Len(rows') = n /\ \A i \in 1..n : rows'[i] = table[i]
  BY <1>6, <1>7, <1>8, SubSeqProperties
<1>10. \A i \in 2..n : rows'[i] = older[i - 1] /\ i - 1 \in 1..Len(older)
  BY <1>3, <1>5, <1>6, <1>9
<1>11. \A i \in 2..n : \E j \in 1..Len(rows) : rows'[i] = rows[j]
  <2> SUFFICES ASSUME NEW i \in 2..n PROVE \E j \in 1..Len(rows) : rows'[i] = rows[j]
    OBVIOUS
  <2> DEFINE j == IF ranToday THEN i ELSE i - 1
  <2>1. j \in 1..Len(rows) /\ rows'[i] = rows[j]
    BY <1>1, <1>3, <1>6, <1>10
  <2> QED
    BY <2>1
<1>12. ~ranToday => \A i \in 2..n : rows'[i] = rows[i - 1]
  BY <1>3, <1>10
<1> QED
  BY <1>3, <1>5, <1>6, <1>7, <1>9, <1>11, <1>12 DEF n

\* A step of the daily run, or of an analysis that is saved, writes a sound row.
LEMMA WrittenSound ==
  ASSUME TypeOK, Runs \/ AdhocNoData
  PROVE  \E v \in Row : Upsert(v) /\ Sound(v, rows)
<1>1. rows \in Seq(Row)
  BY DEF TypeOK
<1>2. CASE Runs
  <2>1. PICK c \in Composites \cup {NoData}, frozen \in BOOLEAN : Evaluate(c, frozen)
    BY <1>2 DEF Runs
  <2> DEFINE v == Decide(c, rows)
             w == IF frozen THEN Freeze(v, rows) ELSE v
  <2>2. Sound(v, rows)
    BY <1>1, DecideSound
  <2>3. Sound(w, rows)
    BY <1>1, <2>2, FreezeSound
  <2>4. Upsert(w)
    BY <2>1 DEF Evaluate
  <2> HIDE DEF w
  <2> QED
    BY <2>3, <2>4 DEF Sound
<1>3. CASE AdhocNoData
  <2> DEFINE v == [label |-> "HOLD", comp |-> NoData, flags |-> {"no_data"}]
  <2>1. Upsert(v)
    BY <1>3 DEF AdhocNoData
  <2>2. Sound(v, rows)
    BY DEF Sound, Rated, Row, Labels, Flags, Pure
  <2> HIDE DEF v
  <2> QED
    BY <2>1, <2>2 DEF Sound
<1> QED
  BY <1>2, <1>3

-----------------------------------------------------------------------------
(* Types *)

LEMMA InitType == Init => TypeOK
<1> SUFFICES ASSUME Init PROVE TypeOK
  OBVIOUS
<1>1. rows \in Seq(Row) /\ Len(rows) = 0
  BY EmptySeq DEF Init
<1>2. Kept \in Nat
  BY VerdictAssumption DEF VerdictAssumption
<1>3. \A i \in 1..Len(rows) : Rated(rows[i])
  BY <1>1
<1>4. /\ ranToday \in BOOLEAN /\ replaced \in BOOLEAN /\ ~ranToday
  BY DEF Init
<1>5. Len(rows) <= Kept
  BY <1>1, <1>2
<1> QED
  BY <1>1, <1>3, <1>4, <1>5, Zenon DEF TypeOK, Rated

LEMMA StepType == TypeOK /\ [Next]_vars => TypeOK'
<1> SUFFICES ASSUME TypeOK, [Next]_vars PROVE TypeOK'
  OBVIOUS
<1>1. CASE Runs \/ AdhocNoData
  <2>1. PICK v \in Row : Upsert(v) /\ Sound(v, rows)
    BY <1>1, WrittenSound
  <2>2. \A i \in 1..Len(rows') : Rated(rows'[i])
    <3>1. \A j \in 1..Len(rows) : Rated(rows[j])
      BY DEF TypeOK, Rated
    <3>2. Rated(rows'[1])
      BY <2>1, UpsertTable DEF Sound
    <3>3. \A i \in 2..Len(rows') : Rated(rows'[i])
      BY <2>1, <3>1, UpsertTable
    <3>4. \A i \in 1..Len(rows') : i = 1 \/ i \in 2..Len(rows')
      BY <2>1, UpsertTable
    <3> QED
      BY <3>2, <3>3, <3>4
  <2>3. rows' \in Seq(Row) /\ Len(rows') \in 1..Kept /\ Kept \in Nat
    BY <2>1, UpsertTable, VerdictAssumption DEF VerdictAssumption
  <2>4. ranToday' = TRUE /\ replaced' = ranToday /\ ranToday \in BOOLEAN
    BY <2>1, UpsertTable DEF TypeOK
  <2> QED
    BY <2>2, <2>3, <2>4 DEF TypeOK, Rated
<1>2. CASE NextDay
  BY <1>2 DEF NextDay, TypeOK
<1>3. CASE UNCHANGED vars
  BY <1>3 DEF vars, TypeOK
<1> QED
  BY <1>1, <1>2, <1>3 DEF Next

\* The table keeps its shape, and exactly the rows without a composite say no_data.
THEOREM VerdictTypes == Spec => []TypeOK
  BY InitType, StepType, PTL DEF Spec

-----------------------------------------------------------------------------
(* What the newest rows say *)

\* The rows that the verdict was made from, as the table shows them after it: all that
\* the bound does not cut off, and at least the windows that decide looks through.
LEMMA PriorRows ==
  ASSUME TypeOK, NEW v \in Row, Upsert(v), ~ranToday
  PROVE  /\ Len(rows) \in Nat /\ Len(rows') \in Nat
         /\ \A n \in 1..Len(rows) : n < Kept => rows'[n + 1] = rows[n] /\ n + 1 <= Len(rows')
         /\ Len(rows') >= 2 => rows # <<>> /\ rows'[2] = rows[1]
<1>1. Len(rows) \in Nat /\ Kept \in Nat /\ rows \in Seq(Row)
  BY VerdictAssumption DEF TypeOK, VerdictAssumption
<1>2. /\ Len(rows') = IF Len(rows) + 1 < Kept THEN Len(rows) + 1 ELSE Kept
      /\ \A i \in 2..Len(rows') : rows'[i] = rows[i - 1]
  BY UpsertTable
<1>3. ASSUME NEW n \in 1..Len(rows), n < Kept
      PROVE  rows'[n + 1] = rows[n] /\ n + 1 <= Len(rows')
  <2>1. n + 1 \in 2..Len(rows') /\ (n + 1) - 1 = n
    BY <1>1, <1>2, <1>3
  <2> QED
    BY <1>2, <2>1
<1>4. Len(rows') >= 2 => rows # <<>> /\ rows'[2] = rows[1]
  <2>1. Len(rows') >= 2 => Len(rows) >= 1 /\ 2 \in 2..Len(rows') /\ 2 - 1 = 1
    BY <1>1, <1>2
  <2> QED
    BY <1>1, <1>2, <2>1, EmptySeq
<1> QED
  BY <1>1, <1>2, <1>3, <1>4

\* A change of label that nothing else explains has crossed or lasted.
LEMMA EarnedStep ==
  ASSUME TypeOK, NEW v \in Row, Upsert(v), Sound(v, rows), ~ranToday
  PROVE  EarnedByDays'
<1> SUFFICES ASSUME Len(rows') >= 2, Pure(v), v.label # rows'[2].label
             PROVE  /\ v.label = Band(v.comp)
                    /\ \/ Crossed(v.comp, v.label, rows'[2].label)
                       \/ InBand(rows', Days, v.label)
  <2>1. rows'[1] = v
    BY UpsertTable
  <2> QED
    BY <2>1 DEF EarnedByDays, NewBandLasts, Changed, Pure, Crossed, InBand, Band
<1>1. rows # <<>> /\ rows'[2] = rows[1] /\ Len(rows) \in Nat /\ Len(rows') \in Nat
  BY PriorRows
<1>2. v.comp # NoData /\ v.label = Next2(v.comp, rows)
  BY DEF Sound
<1>3. ~Held(v.comp, rows) /\ v.label = Band(v.comp)
  BY <1>1, <1>2 DEF Next2, Label
<1>4. \/ Crossed(v.comp, v.label, rows'[2].label)
      \/ ~(Days > 1)
      \/ InBand(rows, Days - 1, v.label)
  BY <1>1, <1>3 DEF Held, Label
<1>5. Days \in Nat /\ Kept \in Nat /\ Days < Kept /\ rows'[1] = v
  BY UpsertTable, VerdictAssumption DEF VerdictAssumption
<1>6. CASE ~(Days > 1)
  <2>1. \A i \in 1..Days : i = 1
    BY <1>5, <1>6
  <2> QED
    BY <1>1, <1>2, <1>3, <1>5, <1>6, <2>1 DEF InBand
<1>7. CASE Days > 1 /\ InBand(rows, Days - 1, v.label)
  <2>1. Len(rows) >= Days - 1
    BY <1>7 DEF InBand
  <2>2. \A n \in 1..(Days - 1) : /\ rows'[n + 1] = rows[n] /\ n + 1 <= Len(rows')
                                 /\ rows[n].comp # NoData /\ Band(rows[n].comp) = v.label
    <3>1. \A n \in 1..(Days - 1) : n \in 1..Len(rows) /\ n < Kept
      BY <1>1, <1>5, <2>1
    <3> QED
      BY <1>7, <3>1, PriorRows DEF InBand
  <2>3. Len(rows') >= Days
    <3>1. Days - 1 \in 1..(Days - 1) /\ (Days - 1) + 1 = Days
      BY <1>5, <1>7
    <3> QED
      BY <1>1, <1>5, <2>2, <3>1
  <2>4. ASSUME NEW i \in 1..Days PROVE rows'[i].comp # NoData /\ Band(rows'[i].comp) = v.label
    <3>1. CASE i = 1
      BY <1>2, <1>3, <1>5, <3>1
    <3>2. CASE i # 1
      <4>1. i - 1 \in 1..(Days - 1) /\ (i - 1) + 1 = i
        BY <1>5, <3>2
      <4> QED
        BY <2>2, <4>1
    <3> QED
      BY <3>1, <3>2
  <2> QED
    BY <1>3, <2>3, <2>4 DEF InBand
<1> QED
  BY <1>3, <1>4, <1>6, <1>7

LEMMA FrozenStep ==
  ASSUME TypeOK, NEW v \in Row, Upsert(v), Sound(v, rows)
  PROVE  FrozenLabelStands'
<1>1. rows'[1] = v /\ replaced' = ranToday
  BY UpsertTable
<1>2. ~ranToday /\ Len(rows') >= 2 => rows # <<>> /\ rows'[2] = rows[1]
  BY PriorRows
<1> QED
  BY <1>1, <1>2 DEF Sound, FrozenLabelStands, Label

\* The rows of the table after the newest one.
Before(t) == [i \in 1..(Len(t) - 1) |-> t[i + 1]]

\* scoring.py:188, the trend guard as decide computes it: the slope is that of the newest
\* composite and of the rows below it.
SellsGuarded ==
  /\ ~replaced /\ rows # <<>>
  /\ rows[1].label = "SELL" /\ "earnings_freeze" \notin rows[1].flags
  =>
    /\ rows[1].comp # NoData
    /\ Deep(rows[1].comp) \/ ~(SlopeSign(Series(rows[1].comp, Before(rows))) >= 0)
    /\ Band(rows[1].comp) = "SELL" \/ (Len(rows) >= 2 /\ rows[2].label = "SELL")

\* The slope looks at no row that the bound on the table has cut off.
LEMMA SameSeries ==
  ASSUME TypeOK, NEW v \in Row, Upsert(v), ~ranToday, NEW c
  PROVE  Series(c, Before(rows')) = Series(c, rows)
<1> DEFINE h == Before(rows')
           Top(t) == IF Len(t) < Window THEN Len(t) ELSE Window
           Known(t) == {k \in 0..Top(t) : \A i \in 1..k : t[i].comp # NoData}
<1>1. Window \in Nat /\ Kept \in Nat /\ Window < Kept /\ Len(rows) \in Nat
  BY VerdictAssumption DEF TypeOK, VerdictAssumption
<1>2. Len(rows') = (IF Len(rows) + 1 < Kept THEN Len(rows) + 1 ELSE Kept)
  BY UpsertTable
<1>3. Len(h) = Len(rows') - 1 /\ Len(h) \in Nat
  <2>1. Len(rows') - 1 \in Nat
    BY <1>1, <1>2
  <2> QED
    BY <2>1 DEF Before
<1>4. Top(h) = Top(rows) /\ Top(rows) \in Nat /\ Top(rows) <= Len(rows) /\ Top(rows) < Kept
  BY <1>1, <1>2, <1>3
<1>5. \A i \in 1..Top(rows) : h[i] = rows[i]
  <2>1. \A i \in 1..Top(rows) : i \in 1..Len(rows) /\ i < Kept /\ i \in 1..(Len(rows') - 1)
    BY <1>1, <1>2, <1>4
  <2>2. \A i \in 1..Top(rows) : rows'[i + 1] = rows[i]
    BY <2>1, PriorRows
  <2>3. \A i \in 1..Top(rows) : h[i] = rows'[i + 1]
    BY <2>1 DEF Before
  <2> QED
    BY <2>2, <2>3
<1> HIDE DEF h, Top
<1>6. Known(h) = Known(rows)
  <2>1. \A k \in 0..Top(rows) : \A i \in 1..k : i \in 1..Top(rows)
    BY <1>4
  <2> QED
    BY <1>4, <1>5, <2>1
<1>7. Priors(h) = Priors(rows)
  <2>1. Priors(h) = (CHOOSE k \in Known(h) : \A j \in Known(h) : j <= k)
    BY DEF Priors, Top
  <2>2. Priors(rows) = (CHOOSE k \in Known(rows) : \A j \in Known(rows) : j <= k)
    BY DEF Priors, Top
  <2> QED
    BY <1>6, <2>1, <2>2
<1>8. Priors(rows) \in 0..Top(rows)
  <2> DEFINE K == Known(rows)
  <2>1. 0 \in K
    BY <1>4
  <2>2. K \subseteq 0..Top(rows)
    OBVIOUS
  <2>3. \E k \in K : \A j \in K : j <= k
    BY <1>4, <2>1, <2>2, Greatest
  <2> QED
    BY <2>2, <2>3 DEF Priors, Top
<1>9. \A i \in 1..Priors(rows) : Priors(rows) + 1 - i \in 1..Top(rows)
  BY <1>4, <1>8
<1>10. [i \in 1..Priors(h) |-> h[Priors(h) + 1 - i].comp]
         = [i \in 1..Priors(rows) |-> rows[Priors(rows) + 1 - i].comp]
  BY <1>5, <1>7, <1>9
<1> QED
  BY <1>10 DEF Series, h

\* The composites of the newest rows, as the trend guard takes them for its slope: the rows
\* whose pairs Falling weighs, oldest first.
LEMMA GuardSeries ==
  ASSUME TypeOK, rows # <<>>, rows[1].comp # NoData
  PROVE  \E n \in 1..Kept :
           /\ \A k \in 1..Kept :
                (/\ k <= Len(rows) /\ k <= Window + 1
                 /\ \A i \in 1..k : rows[i].comp # NoData) <=> k <= n
           /\ Series(rows[1].comp, Before(rows)) \in Seq(Int)
           /\ Len(Series(rows[1].comp, Before(rows))) = n
           /\ \A i \in 1..n : /\ rows[i].comp \in Int
                              /\ Series(rows[1].comp, Before(rows))[n + 1 - i] = rows[i].comp
<1> DEFINE h == Before(rows)
           top == IF Len(h) < Window THEN Len(h) ELSE Window
           K == {k \in 0..top : \A i \in 1..k : h[i].comp # NoData}
           p == Priors(h)
           n == p + 1
           v == Series(rows[1].comp, h)
<1>1. Window \in Nat /\ Kept \in Nat /\ Window < Kept /\ Composites \subseteq Int
  BY VerdictAssumption DEF VerdictAssumption
<1>2. rows \in Seq(Row) /\ Len(rows) \in Nat \ {0} /\ \A i \in 1..Len(rows) : rows[i] \in Row
  <2>1. rows \in Seq(Row)
    BY DEF TypeOK
  <2> QED
    BY <2>1, EmptySeq
<1>3. Len(h) = Len(rows) - 1 /\ \A i \in 1..(Len(rows) - 1) : h[i] = rows[i + 1]
  BY <1>2 DEF Before
<1>4. top \in Nat /\ top <= Len(rows) - 1 /\ top <= Window
      /\ \A k \in Nat : k <= Len(rows) - 1 /\ k <= Window => k <= top
  BY <1>1, <1>2, <1>3
<1>5. p \in K /\ \A j \in K : j <= p
  <2>1. p = CHOOSE k \in K : \A j \in K : j <= k
    BY DEF Priors
  <2> HIDE DEF top
  <2>2. 0 \in K /\ K \subseteq 0..top
    BY <1>4
  <2> HIDE DEF K, p
  <2>3. \E k \in K : \A j \in K : j <= k
    BY <1>4, <2>2, Greatest
  <2> QED
    BY <2>1, <2>3
<1> HIDE DEF h, top, p
<1>6. p \in Nat /\ p <= top /\ \A i \in 1..p : h[i].comp # NoData
  BY <1>4, <1>5
<1>7. \A k \in 0..top : (\A i \in 1..k : h[i].comp # NoData) => k <= p
  BY <1>5
<1> HIDE DEF K
<1>8. n \in 1..Kept /\ n \in Nat /\ n <= Len(rows) /\ n <= Window + 1
  BY <1>1, <1>2, <1>4, <1>6
<1>9. \A i \in 1..n : rows[i].comp # NoData /\ rows[i].comp \in Int
  <2> TAKE i \in 1..n
  <2>1. rows[i].comp # NoData
    <3>1. CASE i = 1
      BY <3>1
    <3>2. CASE i # 1
      <4>1. i - 1 \in 1..p /\ i - 1 \in 1..(Len(rows) - 1) /\ (i - 1) + 1 = i
        BY <1>2, <1>4, <1>6, <3>2
      <4> QED
        BY <1>3, <1>6, <4>1
    <3> QED
      BY <3>1, <3>2
  <2>2. rows[i] \in Row
    BY <1>2, <1>8
  <2> QED
    BY <1>1, <2>1, <2>2 DEF Row
<1>10. ASSUME NEW k \in 1..Kept
       PROVE  (/\ k <= Len(rows) /\ k <= Window + 1
               /\ \A i \in 1..k : rows[i].comp # NoData) <=> k <= n
  <2>1. ASSUME k <= Len(rows), k <= Window + 1, \A i \in 1..k : rows[i].comp # NoData
        PROVE  k <= n
    <3>1. k - 1 \in 0..top
      BY <1>1, <1>2, <1>4, <2>1
    <3>2. \A i \in 1..(k - 1) : i + 1 \in 1..k /\ i \in 1..(Len(rows) - 1)
      BY <1>2, <2>1
    <3>3. \A i \in 1..(k - 1) : h[i].comp # NoData
      BY <1>3, <2>1, <3>2
    <3>4. k - 1 <= p
      BY <1>7, <3>1, <3>3
    <3> QED
      BY <1>6, <3>4
  <2>2. ASSUME k <= n
        PROVE  k <= Len(rows) /\ k <= Window + 1 /\ \A i \in 1..k : rows[i].comp # NoData
    BY <1>1, <1>2, <1>8, <1>9, <2>2
  <2> QED
    BY <2>1, <2>2
<1>11. /\ v \in Seq(Int) /\ Len(v) = n
       /\ \A i \in 1..n : v[n + 1 - i] = rows[i].comp
  <2> DEFINE u == [i \in 1..p |-> h[p + 1 - i].comp]
  <2>1. v = u \o <<rows[1].comp>>
    BY DEF Series, p
  <2>2. \A i \in 1..p : u[i] = rows[n + 1 - i].comp /\ n + 1 - i \in 1..n
    <3> TAKE i \in 1..p
    <3>1. p + 1 - i \in 1..(Len(rows) - 1) /\ (p + 1 - i) + 1 = n + 1 - i /\ n + 1 - i \in 1..n
      BY <1>2, <1>4, <1>6
    <3> QED
      BY <1>3, <3>1
  <2>3. u \in Seq(Int) /\ Len(u) = p
    BY <1>6, <1>9, <2>2
  <2>4. rows[1].comp \in Int
    BY <1>8, <1>9
  <2> HIDE DEF u
  <2>5. v \in Seq(Int) /\ Len(v) = n /\ v[n] = rows[1].comp /\ \A i \in 1..p : v[i] = u[i]
    BY <1>6, <2>1, <2>3, <2>4
  <2>6. \A i \in 1..n : v[n + 1 - i] = rows[i].comp
    <3> TAKE i \in 1..n
    <3>1. CASE i = 1
      <4>1. n + 1 - i = n
        BY <1>8, <3>1
      <4> QED
        BY <2>5, <3>1, <4>1
    <3>2. CASE i # 1
      <4>1. n + 1 - i \in 1..p /\ n + 1 - (n + 1 - i) = i
        BY <1>6, <1>8, <3>2
      <4> QED
        BY <2>2, <2>5, <4>1
    <3> QED
      BY <3>1, <3>2
  <2> QED
    BY <2>5, <2>6
<1> QED
  BY <1>8, <1>9, <1>10, <1>11 DEF h

\* When the newest row has a composite, the code's slope is negative exactly when the rows fall.
LEMMA GuardIsFalling ==
  ASSUME TypeOK, rows # <<>>, rows[1].comp # NoData
  PROVE  Falling <=> ~(SlopeSign(Series(rows[1].comp, Before(rows))) >= 0)
<1> DEFINE v == Series(rows[1].comp, Before(rows))
           Known(k) == /\ k <= Len(rows) /\ k <= Window + 1
                       /\ \A i \in 1..k : rows[i].comp # NoData
           Pairs == {p \in (1..Kept) \X (1..Kept) : p[1] < p[2] /\ Known(p[2])}
           f == [p \in Pairs |-> (p[2] - p[1]) * (rows[p[1]].comp - rows[p[2]].comp)]
<1>1. PICK n \in 1..Kept : /\ \A k \in 1..Kept : Known(k) <=> k <= n
                           /\ v \in Seq(Int) /\ Len(v) = n
                           /\ \A i \in 1..n : rows[i].comp \in Int /\ v[n + 1 - i] = rows[i].comp
  BY GuardSeries
<1>2. Falling = (FoldFunction(+, 0, f) < 0)
  BY DEF Falling
<1> HIDE DEF v, Known
<1>3. Kept \in Nat /\ n \in 0..Kept
  BY VerdictAssumption DEF VerdictAssumption
<1>4. Pairs = PairsOf(Kept, n)
  BY <1>1 DEF PairsOf
<1>5. \A p \in Pairs : p[1] \in 1..n /\ p[2] \in 1..n
  BY <1>3, <1>4 DEF PairsOf
<1>6. \A p \in Pairs : f[p] = (p[2] - p[1]) * (rows[p[1]].comp - rows[p[2]].comp)
  OBVIOUS
<1>7. f \in [Pairs -> Int]
  <2>1. ASSUME NEW p \in Pairs
        PROVE  (p[2] - p[1]) * (rows[p[1]].comp - rows[p[2]].comp) \in Int
    <3> DEFINE x == rows[p[1]].comp
               y == rows[p[2]].comp
               i == p[1]
               j == p[2]
    <3>1. i \in Int /\ j \in Int /\ x \in Int /\ y \in Int
      BY <1>1, <1>5
    <3> HIDE DEF x, y, i, j
    <3>2. (j - i) * (x - y) \in Int
      BY <3>1
    <3> QED
      BY <3>2 DEF x, y, i, j
  <2> QED
    BY <2>1
<1> HIDE DEF Pairs, f
<1>8. \A p \in Pairs : f[p] = (p[2] - p[1]) * (v[n + 1 - p[1]] - v[n + 1 - p[2]])
  BY <1>1, <1>5, <1>6
<1>9. SlopeSign(v) = FoldFunction(+, 0, f)
  BY <1>1, <1>3, <1>4, <1>7, <1>8, SlopeIsFall
<1>10. FoldFunction(+, 0, f) \in Int
  BY <1>3, <1>4, <1>7, PairsFinite, FoldIsInt
<1> DEFINE s == FoldFunction(+, 0, f)
<1>11. s \in Int /\ SlopeSign(v) = s /\ (Falling <=> s < 0)
  BY <1>2, <1>9, <1>10
<1> HIDE DEF s
<1>12. s < 0 <=> ~(s >= 0)
  BY <1>11
<1> QED
  BY <1>11, <1>12 DEF v

LEMMA GuardedStep ==
  ASSUME TypeOK, NEW v \in Row, Upsert(v), Sound(v, rows)
  PROVE  SellsGuarded'
<1> SUFFICES ASSUME ~ranToday, v.label = "SELL", "earnings_freeze" \notin v.flags
             PROVE  /\ v.comp # NoData
                    /\ Deep(v.comp) \/ ~(SlopeSign(Series(v.comp, Before(rows'))) >= 0)
                    /\ Band(v.comp) = "SELL" \/ (Len(rows') >= 2 /\ rows'[2].label = "SELL")
  <2>1. rows'[1] = v /\ replaced' = ranToday
    BY UpsertTable
  <2> QED
    BY <2>1 DEF SellsGuarded
<1>1. /\ v.comp # NoData /\ Next2(v.comp, rows) = "SELL"
      /\ Deep(v.comp) \/ ~(SlopeSign(Series(v.comp, rows)) >= 0)
  <2>1. /\ v.comp \in Composites /\ Next2(v.comp, rows) = "SELL"
        /\ Deep(v.comp) \/ ~(SlopeSign(Series(v.comp, rows)) >= 0)
    BY DEF Sound
  <2> QED
    BY <2>1, VerdictAssumption DEF VerdictAssumption
<1>2. Series(v.comp, Before(rows')) = Series(v.comp, rows)
  BY SameSeries
<1>3. CASE Held(v.comp, rows)
  <2>1. rows # <<>> /\ rows[1].label = "SELL"
    BY <1>1, <1>3 DEF Next2, Label, Held
  <2>2. Len(rows) \in Nat \ {0}
    BY <2>1, EmptySeq DEF TypeOK
  <2>3. Kept > 1
    <3>1. Days > 1 /\ Days \in Nat /\ Kept \in Nat /\ Kept > Days
      BY <1>3, VerdictAssumption DEF Held, VerdictAssumption
    <3> QED
      BY <3>1
  <2>4. rows'[2] = rows[1] /\ 2 <= Len(rows')
    <3>1. 1 \in 1..Len(rows) /\ 1 < Kept /\ 1 + 1 = 2
      BY <2>2, <2>3
    <3> QED
      BY <3>1, PriorRows
  <2>5. Len(rows') \in Nat
    BY PriorRows
  <2> QED
    BY <1>1, <1>2, <2>1, <2>4, <2>5
<1>4. CASE ~Held(v.comp, rows)
  BY <1>1, <1>2, <1>4 DEF Next2
<1> QED
  BY <1>3, <1>4

\* What is true of every newest row stays true on a step that writes none.
LEMMA SaysStep ==
  ASSUME TypeOK, [Next]_vars, ChangesAreEarned, FrozenLabelStands, SellsGuarded
  PROVE  ChangesAreEarned' /\ FrozenLabelStands' /\ SellsGuarded'
<1>1. CASE Runs \/ AdhocNoData
  <2>1. PICK v \in Row : Upsert(v) /\ Sound(v, rows)
    BY <1>1, WrittenSound
  <2>2. replaced' = ranToday
    BY <2>1, UpsertTable
  <2>3. ChangesAreEarned'
    BY <2>1, <2>2, EarnedStep DEF ChangesAreEarned
  <2> QED
    BY <2>1, <2>3, FrozenStep, GuardedStep
<1>2. CASE NextDay \/ UNCHANGED vars
  <2>1. rows' = rows /\ replaced' = replaced
    BY <1>2 DEF NextDay, vars
  <2>2. ChangesAreEarned' /\ FrozenLabelStands'
    BY <2>1 DEF ChangesAreEarned, EarnedByDays, NewBandLasts, Changed, FrozenLabelStands, InBand, Crossed, Band, Pure
  <2>3. SellsGuarded'
    BY <2>1 DEF SellsGuarded
  <2> QED
    BY <2>2, <2>3
<1> QED
  BY <1>1, <1>2 DEF Next

LEMMA SaysInit == Init => ChangesAreEarned /\ FrozenLabelStands /\ SellsGuarded
<1> SUFFICES ASSUME Init PROVE ChangesAreEarned /\ FrozenLabelStands /\ SellsGuarded
  OBVIOUS
<1>1. rows = <<>> /\ ~(Len(rows) >= 2)
  BY EmptySeq DEF Init
<1> QED
  BY <1>1 DEF ChangesAreEarned, EarnedByDays, NewBandLasts, Changed, FrozenLabelStands, SellsGuarded

LEMMA NewestRowsSay ==
  Spec => [](ChangesAreEarned /\ FrozenLabelStands /\ SellsGuarded)
<1>1. TypeOK /\ ChangesAreEarned /\ FrozenLabelStands /\ SellsGuarded /\ [Next]_vars
        => ChangesAreEarned' /\ FrozenLabelStands' /\ SellsGuarded'
  BY SaysStep
<1> QED
  BY VerdictTypes, SaysInit, <1>1, PTL DEF Spec

\* scoring.py:183: a label changes from one day to the next only into the band of the
\* day's composite, by the margin or after Days days in that band.
THEOREM ChangesEarned == Spec => []ChangesAreEarned
  BY NewestRowsSay, PTL

\* scoring.py:295: on a frozen day the label of the day before stands.
THEOREM FreezeHolds == Spec => []FrozenLabelStands
  BY NewestRowsSay, PTL

\* scoring.py:188: a SELL that no freeze explains is deep below the band, or the composites
\* of the days in the window fall; and it is in the band, or follows a SELL.
THEOREM SellsAreFalling == Spec => []SellsFall
<1>1. TypeOK /\ SellsGuarded => SellsFall
  BY GuardIsFalling DEF SellsGuarded, SellsFall
<1> QED
  BY <1>1, VerdictTypes, NewestRowsSay, PTL

\* Plan Docs/LONGTERM_PLAN_REVIEW.md:121, scoring.py:186: where no day is evaluated again,
\* every change of label is earned, and the days of the hysteresis are days of the table.
THEOREM EarnedWithoutReruns ==
  ASSUME "rerun" \notin Faults
  PROVE  Spec => [](EarnedByDays /\ NewBandLasts)
<1>1. Init => ~replaced
  BY DEF Init
<1>2. ~replaced /\ [Next]_vars => ~replaced'
  BY DEF Next, Runs, Evaluate, AdhocNoData, Upsert, NextDay, vars
<1>3. ~replaced /\ ChangesAreEarned => EarnedByDays /\ NewBandLasts
  BY DEF ChangesAreEarned, EarnedByDays
<1> QED
  BY <1>1, <1>2, <1>3, ChangesEarned, PTL DEF Spec
=============================================================================
