---------------------------- MODULE SignalsProofs ----------------------------
(***************************************************************************)
(* What Scoring and Signals promise, for every take, resume, mark, weight  *)
(* and length of session, where TLC tries a few.                           *)
(*                                                                         *)
(* The arithmetic comes first: scores stay on the scale and a composite is *)
(* a mean of its signals. Then finite sums, which the library leaves as a  *)
(* fold: they do not depend on the order and grow with their summands.     *)
(* Then sorting by rank, the pauses of a take, the means of a session, the *)
(* sections of a resume; and last the invariant, one step per action.      *)
(***************************************************************************)
EXTENDS Signals, FiniteSetTheorems, SequenceTheorems, TLAPS


\* Dividing a multiple by its factor, up to rounding.
LEMMA DivBetween ==
    ASSUME NEW a \in Int, NEW b \in Nat, b > 0, NEW lo \in Int, NEW hi \in Int,
           b * lo <= a, a <= b * hi
    PROVE  lo <= a \div b /\ a \div b <= hi
<1> DEFINE q == a \div b
<1>1. q \in Int /\ b * q <= a /\ a < b * q + b
  BY Z3
<1>2. lo <= q
  BY <1>1, Z3
<1>3. q <= hi
  BY <1>1, Z3
<1> QED  BY <1>2, <1>3

LEMMA DivMonotone ==
    ASSUME NEW a \in Int, NEW c \in Int, NEW b \in Nat, b > 0, a <= c
    PROVE  a \div b <= c \div b
  BY Z3

-----------------------------------------------------------------------------
\* Words per minute score between 0 and 100 points, whatever they are.
LEMMA RateOnScale == \A rate \in Nat : RateScore(rate) \in 0 .. Full
  BY DEF RateScore, Lower, Full

\* The ramps of pause ratio and filler rate: on the scale, and falling.
LEMMA PauseOnScale == \A v \in Nat : Falling(v, 400, 850) \in 0 .. Full
  BY DEF Falling, Lower, Positive, Full

LEMMA FillerOnScale == \A v \in Nat : Falling(v, 50, 200) \in 0 .. Full
  BY DEF Falling, Lower, Positive, Full

LEMMA PauseFalls ==
    ASSUME NEW v \in Nat, NEW w \in Nat, v <= w
    PROVE  Falling(w, 400, 850) <= Falling(v, 400, 850)
<1> DEFINE top(x) == 1000 * Lower(Positive(850 - x), 450)
<1>1. top(w) \in Int /\ top(v) \in Int /\ top(w) <= top(v)
  BY DEF Lower, Positive
<1>2. Falling(w, 400, 850) = top(w) \div 450 /\ Falling(v, 400, 850) = top(v) \div 450
  BY DEF Falling, Full
<1> HIDE DEF top
<1>3. top(w) \div 450 <= top(v) \div 450
  BY <1>1, DivMonotone
<1> QED  BY <1>2, <1>3

LEMMA FillerFalls ==
    ASSUME NEW v \in Nat, NEW w \in Nat, v <= w
    PROVE  Falling(w, 50, 200) <= Falling(v, 50, 200)
<1> DEFINE top(x) == 1000 * Lower(Positive(200 - x), 150)
<1>1. top(w) \in Int /\ top(v) \in Int /\ top(w) <= top(v)
  BY DEF Lower, Positive
<1>2. Falling(w, 50, 200) = top(w) \div 150 /\ Falling(v, 50, 200) = top(v) \div 150
  BY DEF Falling, Full
<1> HIDE DEF top
<1>3. top(w) \div 150 <= top(v) \div 150
  BY <1>1, DivMonotone
<1> QED  BY <1>2, <1>3

\* A third of a sum of three: on the scale, and larger when a summand is.
LEMMA ThirdOnScale ==
    ASSUME NEW a \in Int, 3 * 0 <= a, a <= 3 * 1000
    PROVE  a \div 3 \in 0 .. 1000
<1>1. a \div 3 \in Int /\ 0 <= a \div 3 /\ a \div 3 <= 1000  BY Z3
<1> QED  BY <1>1

LEMMA ThirdMonotone ==
    ASSUME NEW x \in Int, NEW y \in Int, NEW z \in Int, NEW v \in Int, NEW w \in Int,
           v <= y, w <= z
    PROVE  (x + v + w) \div 3 <= (x + y + z) \div 3
<1> DEFINE a == x + v + w
           c == x + y + z
<1>1. a \in Int /\ c \in Int /\ a <= c  OBVIOUS
<1> HIDE DEF a, c
<1>2. a \div 3 <= c \div 3  BY <1>1, Z3
<1> QED  BY <1>2 DEF a, c

Arm == [rate : Nat, pause : Nat, filler : Nat]

\* Every arm that compute_fluency can return scores between 0 and 100 points:
\* also one with pauses longer than its recording, or more fillers than words.
THEOREM ArmsAreOnScale == \A arm \in Arm : ArmScore(arm) \in 0 .. Full
<1> SUFFICES ASSUME NEW arm \in Arm PROVE ArmScore(arm) \in 0 .. Full  OBVIOUS
<1> DEFINE r == RateScore(arm.rate)
           p == Falling(arm.pause, 400, 850)
           f == Falling(arm.filler, 50, 200)
<1>1. arm.rate \in Nat /\ arm.pause \in Nat /\ arm.filler \in Nat  BY DEF Arm
<1>2. r \in 0 .. 1000  BY <1>1, RateOnScale DEF Full
<1>3. p \in 0 .. 1000  BY <1>1, PauseOnScale DEF Full
<1>4. f \in 0 .. 1000  BY <1>1, FillerOnScale DEF Full
<1>5. ArmScore(arm) = (r + p + f) \div 3  BY DEF ArmScore
<1> HIDE DEF r, p, f
<1>6. (r + p + f) \div 3 \in 0 .. 1000
  <2> DEFINE a == r + p + f
  <2>1. a \in Int /\ 3 * 0 <= a /\ a <= 3 * 1000  BY <1>2, <1>3, <1>4
  <2> HIDE DEF a
  <2>2. a \div 3 \in 0 .. 1000  BY <2>1, ThirdOnScale
  <2> QED  BY <2>2 DEF a
<1> QED  BY <1>5, <1>6 DEF Full

\* At one speech rate, more pausing and more fillers never score more.
THEOREM WorseFluencyNeverScoresMore ==
    ASSUME NEW a \in Arm, NEW b \in Arm,
           a.rate = b.rate, a.pause <= b.pause, a.filler <= b.filler
    PROVE  ArmScore(b) <= ArmScore(a)
<1> DEFINE r == RateScore(a.rate)
           pa == Falling(a.pause, 400, 850)
           pb == Falling(b.pause, 400, 850)
           fa == Falling(a.filler, 50, 200)
           fb == Falling(b.filler, 50, 200)
<1>1. /\ a.rate \in Nat /\ a.pause \in Nat /\ a.filler \in Nat
      /\ b.pause \in Nat /\ b.filler \in Nat
  BY DEF Arm
<1>2. pb <= pa  BY <1>1, PauseFalls
<1>3. fb <= fa  BY <1>1, FillerFalls
<1>4. r \in 0 .. 1000  BY <1>1, RateOnScale DEF Full
<1>5. pa \in 0 .. 1000 /\ pb \in 0 .. 1000
  <2>1. pa \in 0 .. 1000  BY <1>1, PauseOnScale DEF Full
  <2>2. pb \in 0 .. 1000  BY <1>1, PauseOnScale DEF Full
  <2> QED  BY <2>1, <2>2
<1>6. fa \in 0 .. 1000 /\ fb \in 0 .. 1000
  <2>1. fa \in 0 .. 1000  BY <1>1, FillerOnScale DEF Full
  <2>2. fb \in 0 .. 1000  BY <1>1, FillerOnScale DEF Full
  <2> QED  BY <2>1, <2>2
<1>7. ArmScore(a) = (r + pa + fa) \div 3 /\ ArmScore(b) = (r + pb + fb) \div 3
  BY DEF ArmScore
<1> HIDE DEF r, pa, pb, fa, fb
<1>8. r \in Int /\ pa \in Int /\ pb \in Int /\ fa \in Int /\ fb \in Int
  BY <1>4, <1>5, <1>6
<1>9. (r + pb + fb) \div 3 <= (r + pa + fa) \div 3
  BY <1>2, <1>3, <1>8, ThirdMonotone
<1> QED  BY <1>7, <1>9

-----------------------------------------------------------------------------
\* The sum of the weights divides.
LEMMA WeightsAdd == Total(Weights) \in Nat /\ Total(Weights) > 0
  BY WeightsAssumption DEF Total, Names

\* A product with a natural factor keeps the order.
LEMMA ProductKeepsOrder ==
    \A w \in Nat, x, y \in Int : x <= y => w * x <= w * y /\ w * x \in Int /\ w * y \in Int
  BY Z3

LEMMA Weighed ==
    ASSUME NEW s \in [Names -> Int], NEW t \in [Names -> Int], \A n \in Names : s[n] <= t[n]
    PROVE  /\ Total([n \in Names |-> Weights[n] * s[n]]) \in Int
           /\ Total([n \in Names |-> Weights[n] * t[n]]) \in Int
           /\ Total([n \in Names |-> Weights[n] * s[n]]) <= Total([n \in Names |-> Weights[n] * t[n]])
<1> DEFINE f == [n \in Names |-> Weights[n] * s[n]]
           g == [n \in Names |-> Weights[n] * t[n]]
<1>1. \A n \in Names : f[n] \in Int /\ g[n] \in Int /\ f[n] <= g[n]
  <2> SUFFICES ASSUME NEW n \in Names PROVE f[n] \in Int /\ g[n] \in Int /\ f[n] <= g[n]
    OBVIOUS
  <2>1. Weights[n] \in Nat /\ s[n] \in Int /\ t[n] \in Int /\ s[n] <= t[n]
    BY WeightsAssumption
  <2>2. Weights[n] * s[n] <= Weights[n] * t[n] /\ Weights[n] * s[n] \in Int
          /\ Weights[n] * t[n] \in Int
    BY <2>1, ProductKeepsOrder
  <2> QED  BY <2>2
<1> HIDE DEF f, g
<1>2. Total(f) \in Int /\ Total(g) \in Int /\ Total(f) <= Total(g)
  BY <1>1 DEF Total, Names
<1> QED  BY <1>2 DEF f, g

\* A composite in which no signal got worse is no lower.
THEOREM CompositeIsMonotone ==
    ASSUME NEW s \in [Names -> Int], NEW t \in [Names -> Int], \A n \in Names : s[n] <= t[n]
    PROVE  Composite(s) <= Composite(t)
<1> DEFINE a == Total([n \in Names |-> Weights[n] * s[n]])
           c == Total([n \in Names |-> Weights[n] * t[n]])
           b == Total(Weights)
<1>1. a \in Int /\ c \in Int /\ a <= c  BY Weighed
<1>2. b \in Nat /\ b > 0  BY WeightsAdd
<1>3. Composite(s) = a \div b /\ Composite(t) = c \div b  BY DEF Composite
<1> HIDE DEF a, b, c
<1>4. a \div b <= c \div b  BY <1>1, <1>2, DivMonotone
<1> QED  BY <1>3, <1>4

\* If every signal is v, so is the total of the weighted signals v times.
LEMMA Flat ==
    ASSUME NEW v \in Int
    PROVE  Total([n \in Names |-> Weights[n] * [m \in Names |-> v][n]]) = Total(Weights) * v
<1>1. \A w, x, y, z \in Nat : w * v + x * v + y * v + z * v = (w + x + y + z) * v
  BY Z3
<1>2. \A n \in Names : Weights[n] \in Nat /\ [m \in Names |-> v][n] = v
  BY WeightsAssumption
<1> QED  BY <1>1, <1>2 DEF Total, Names

\* A composite is a mean: between any two bounds of the four signals, for every
\* choice of weights that is not refused.
THEOREM CompositeIsAMean ==
    ASSUME NEW s \in [Names -> Int], NEW lo \in Int, NEW hi \in Int,
           \A n \in Names : lo <= s[n] /\ s[n] <= hi
    PROVE  lo <= Composite(s) /\ Composite(s) <= hi
<1> DEFINE a == Total([n \in Names |-> Weights[n] * s[n]])
           b == Total(Weights)
           low == [m \in Names |-> lo]
           high == [m \in Names |-> hi]
<1>1. low \in [Names -> Int] /\ high \in [Names -> Int]  OBVIOUS
<1>2. (\A n \in Names : low[n] <= s[n]) /\ (\A n \in Names : s[n] <= high[n])  OBVIOUS
<1>3. Total([n \in Names |-> Weights[n] * low[n]]) = b * lo  BY Flat
<1>4. Total([n \in Names |-> Weights[n] * high[n]]) = b * hi  BY Flat
<1> HIDE DEF low, high
<1>5. a \in Int /\ Total([n \in Names |-> Weights[n] * low[n]]) <= a
  BY <1>1, <1>2, Weighed
<1>6. a <= Total([n \in Names |-> Weights[n] * high[n]])
  BY <1>1, <1>2, Weighed
<1>7. b \in Nat /\ b > 0  BY WeightsAdd
<1>8. Composite(s) = a \div b  BY DEF Composite
<1> HIDE DEF a, b
<1>9. b * lo <= a /\ a <= b * hi  BY <1>3, <1>4, <1>5, <1>6
<1>10. lo <= a \div b /\ a \div b <= hi  BY <1>5, <1>7, <1>9, DivBetween
<1> QED  BY <1>8, <1>10

-----------------------------------------------------------------------------
\* Induction over the naturals, for a set in place of a predicate.
LEMMA NaturalsByStep ==
    ASSUME NEW S, 0 \in S, \A n \in Nat : n \in S => n + 1 \in S
    PROVE  \A n \in Nat : n \in S
<1> SUFFICES ASSUME {n \in Nat : n \notin S} # {} PROVE FALSE
  OBVIOUS
<1> DEFINE Out == {n \in Nat : n \notin S}
<1>1. PICK m \in Out : \A k \in Out : ~ <<k, m>> \in OpToRel(<, Nat)
  BY WFMin, NatLessThanWellFounded
<1>2. \A k \in Nat : k < m => k \in S
  BY <1>1 DEF OpToRel
<1>3. m # 0 /\ m - 1 \in Nat /\ m - 1 < m
  OBVIOUS
<1> QED  BY <1>2, <1>3
-----------------------------------------------------------------------------
\* A sum over a finite set, as SumFunctionOnSet takes it.

Pick(s) == CHOOSE x \in s : TRUE

\* sum is the sum of f over each part of S, one member at a time.
Adds(sum, f, S) ==
    sum = [s \in SUBSET S |-> IF s = {} THEN 0 ELSE f[Pick(s)] + sum[s \ {Pick(s)}]]

UpTo(S, n) == {s \in SUBSET S : Cardinality(s) <= n}

AddsUpTo(sum, f, S, n) ==
    sum = [s \in UpTo(S, n) |-> IF s = {} THEN 0 ELSE f[Pick(s)] + sum[s \ {Pick(s)}]]

LEMMA PickIsIn == \A s : s # {} => Pick(s) \in s
  BY DEF Pick

LEMMA Parts ==
    ASSUME NEW S, IsFiniteSet(S)
    PROVE  \A s \in SUBSET S : /\ IsFiniteSet(s) /\ Cardinality(s) \in Nat
                               /\ (s = {} <=> Cardinality(s) = 0)
                               /\ \A x \in s : Cardinality(s \ {x}) = Cardinality(s) - 1
<1> TAKE s \in SUBSET S
<1>1. IsFiniteSet(s)  BY FS_Subset
<1>2. Cardinality(s) \in Nat  BY <1>1, FS_CardinalityType
<1>3. s = {} <=> Cardinality(s) = 0  BY <1>1, FS_EmptySet
<1>4. \A x \in s : Cardinality(s \ {x}) = Cardinality(s) - 1  BY <1>1, FS_RemoveElement
<1> QED  BY <1>1, <1>2, <1>3, <1>4

\* The function that the fold chooses exists, whatever the set; no two such
\* functions differ where both are defined.
LEMMA AddsExists ==
    ASSUME NEW f, NEW S, IsFiniteSet(S)
    PROVE  \E sum : Adds(sum, f, S)
<1> DEFINE Good == {n \in Nat : \E sum : AddsUpTo(sum, f, S, n)}
<1>1. 0 \in Good
  <2> DEFINE sum == [s \in UpTo(S, 0) |-> 0]
  <2>1. UpTo(S, 0) = {{}}
    BY Parts, FS_EmptySet DEF UpTo
  <2>2. AddsUpTo(sum, f, S, 0)
    BY <2>1 DEF AddsUpTo
  <2> QED  BY <2>2
<1>2. ASSUME NEW n \in Nat, n \in Good PROVE n + 1 \in Good
  <2>1. PICK g : AddsUpTo(g, f, S, n)  BY <1>2
  <2> DEFINE h == [s \in UpTo(S, n + 1) |-> IF s = {} THEN 0 ELSE f[Pick(s)] + g[s \ {Pick(s)}]]
  <2>2. \A s \in UpTo(S, n + 1) : s # {} => s \ {Pick(s)} \in UpTo(S, n)
    BY Parts, PickIsIn DEF UpTo
  <2>3. \A s \in UpTo(S, n) : s \in UpTo(S, n + 1)
    BY Parts DEF UpTo
  <2>4. \A s \in UpTo(S, n) : h[s] = g[s]
    <3> TAKE s \in UpTo(S, n)
    <3>1. h[s] = IF s = {} THEN 0 ELSE f[Pick(s)] + g[s \ {Pick(s)}]  BY <2>3
    <3>2. g[s] = IF s = {} THEN 0 ELSE f[Pick(s)] + g[s \ {Pick(s)}]  BY <2>1 DEF AddsUpTo
    <3> QED  BY <3>1, <3>2
  <2>5. \A s \in UpTo(S, n + 1) : s # {} => h[s \ {Pick(s)}] = g[s \ {Pick(s)}]
    BY <2>2, <2>4
  <2>6. h = [s \in UpTo(S, n + 1) |-> IF s = {} THEN 0 ELSE f[Pick(s)] + h[s \ {Pick(s)}]]
    <3> HIDE DEF h
    <3>1. h = [s \in UpTo(S, n + 1) |-> IF s = {} THEN 0 ELSE f[Pick(s)] + g[s \ {Pick(s)}]]
      BY DEF h
    <3> QED  BY <2>5, <3>1
  <2>7. AddsUpTo(h, f, S, n + 1)  BY <2>6 DEF AddsUpTo
  <2> QED  BY <2>7
<1>3. \A n \in Nat : n \in Good
  <2> HIDE DEF Good
  <2> QED  BY <1>1, <1>2, NaturalsByStep
<1>4. Cardinality(S) \in Nat /\ UpTo(S, Cardinality(S)) = SUBSET S
  <2>1. \A s \in SUBSET S : Cardinality(s) <= Cardinality(S)  BY FS_Subset
  <2> QED  BY <2>1, FS_CardinalityType DEF UpTo
<1>5. PICK sum : AddsUpTo(sum, f, S, Cardinality(S))  BY <1>3, <1>4
<1>6. Adds(sum, f, S)  BY <1>4, <1>5 DEF Adds, AddsUpTo
<1> QED  BY <1>6

LEMMA AddsAgree ==
    ASSUME NEW f, NEW S, NEW T, IsFiniteSet(S), T \subseteq S,
           NEW g, Adds(g, f, S), NEW h, Adds(h, f, T)
    PROVE  \A s \in SUBSET T : g[s] = h[s]
<1> DEFINE Good == {n \in Nat : \A s \in SUBSET T : Cardinality(s) = n => g[s] = h[s]}
<1>0. \A s \in SUBSET T :
          /\ g[s] = IF s = {} THEN 0 ELSE f[Pick(s)] + g[s \ {Pick(s)}]
          /\ h[s] = IF s = {} THEN 0 ELSE f[Pick(s)] + h[s \ {Pick(s)}]
  BY DEF Adds
<1>1. 0 \in Good
  BY <1>0, Parts
<1>2. ASSUME NEW n \in Nat, n \in Good PROVE n + 1 \in Good
  <2> SUFFICES ASSUME NEW s \in SUBSET T, Cardinality(s) = n + 1 PROVE g[s] = h[s]
    OBVIOUS
  <2>1. s # {}  BY Parts
  <2>2. Pick(s) \in s  BY <2>1, PickIsIn
  <2>3. Cardinality(s \ {Pick(s)}) = n  BY <2>2, Parts
  <2>4. g[s \ {Pick(s)}] = h[s \ {Pick(s)}]  BY <1>2, <2>3
  <2> QED  BY <1>0, <2>1, <2>4
<1>3. \A n \in Nat : n \in Good
  <2> HIDE DEF Good
  <2> QED  BY <1>1, <1>2, NaturalsByStep
<1> QED  BY <1>3, Parts

LEMMA SumIsFold ==
    ASSUME NEW f, NEW S
    PROVE  SumFunctionOnSet(f, S) = (CHOOSE sum : Adds(sum, f, S))[S]
  BY DEF SumFunctionOnSet, FoldFunctionOnSet, MapThenFoldSet, Adds, Pick

LEMMA SumAdds ==
    ASSUME NEW f, NEW S, NEW T, IsFiniteSet(S), T \subseteq S,
           NEW g, Adds(g, f, S)
    PROVE  SumFunctionOnSet(f, T) = g[T]
<1>1. IsFiniteSet(T)  BY FS_Subset
<1>2. \E h : Adds(h, f, T)  BY <1>1, AddsExists
<1>3. Adds(CHOOSE h : Adds(h, f, T), f, T)  BY <1>2
<1>4. g[T] = (CHOOSE h : Adds(h, f, T))[T]  BY <1>3, AddsAgree
<1> QED  BY <1>4, SumIsFold

\* The two equations that define a sum.
LEMMA SumOfNone == ASSUME NEW f PROVE SumFunctionOnSet(f, {}) = 0
<1>1. PICK g : Adds(g, f, {})  BY FS_EmptySet, AddsExists
<1>2. SumFunctionOnSet(f, {}) = g[{}]  BY <1>1, FS_EmptySet, SumAdds
<1> QED  BY <1>1, <1>2 DEF Adds

LEMMA SumOfPick ==
    ASSUME NEW f, NEW S, IsFiniteSet(S), S # {}
    PROVE  SumFunctionOnSet(f, S) = f[Pick(S)] + SumFunctionOnSet(f, S \ {Pick(S)})
<1>1. PICK g : Adds(g, f, S)  BY AddsExists
<1>2. SumFunctionOnSet(f, S) = g[S]  BY <1>1, SumAdds
<1>3. SumFunctionOnSet(f, S \ {Pick(S)}) = g[S \ {Pick(S)}]  BY <1>1, SumAdds
<1>4. g[S] = f[Pick(S)] + g[S \ {Pick(S)}]  BY <1>1 DEF Adds
<1> QED  BY <1>2, <1>3, <1>4

IntValued(f, S) == \A x \in S : f[x] \in Int

\* Induction over the parts of a finite set, by their size.
LEMMA BySize ==
    ASSUME NEW S, IsFiniteSet(S), NEW Good,
           {} \in Good,
           \A s \in SUBSET S : s # {} /\ (\A x \in s : s \ {x} \in Good) => s \in Good
    PROVE  SUBSET S \subseteq Good
<1> DEFINE Sizes == {n \in Nat : \A s \in SUBSET S : Cardinality(s) = n => s \in Good}
<1>1. 0 \in Sizes
  BY Parts
<1>2. ASSUME NEW n \in Nat, n \in Sizes PROVE n + 1 \in Sizes
  <2> SUFFICES ASSUME NEW s \in SUBSET S, Cardinality(s) = n + 1 PROVE s \in Good
    OBVIOUS
  <2>1. s # {}  BY Parts
  <2>2. \A x \in s : s \ {x} \in SUBSET S /\ Cardinality(s \ {x}) = n  BY Parts
  <2>3. \A x \in s : s \ {x} \in Good  BY <1>2, <2>2
  <2> QED  BY <2>1, <2>3
<1>3. \A n \in Nat : n \in Sizes
  <2> HIDE DEF Sizes
  <2> QED  BY <1>1, <1>2, NaturalsByStep
<1> QED  BY <1>3, Parts

LEMMA SumInt ==
    ASSUME NEW S, IsFiniteSet(S), NEW f, IntValued(f, S)
    PROVE  SumFunctionOnSet(f, S) \in Int
<1> DEFINE Good == {s \in SUBSET S : SumFunctionOnSet(f, s) \in Int}
<1>1. {} \in Good  BY SumOfNone
<1>2. ASSUME NEW s \in SUBSET S, s # {}, \A x \in s : s \ {x} \in Good PROVE s \in Good
  <2>1. Pick(s) \in s /\ f[Pick(s)] \in Int  BY <1>2, PickIsIn DEF IntValued
  <2>2. SumFunctionOnSet(f, s) = f[Pick(s)] + SumFunctionOnSet(f, s \ {Pick(s)})
    BY <1>2, Parts, SumOfPick
  <2> QED  BY <1>2, <2>1, <2>2
<1> HIDE DEF Good
<1>3. SUBSET S \subseteq Good  BY <1>1, <1>2, BySize
<1> QED  BY <1>3 DEF Good

\* Any member may be added last.
LEMMA SumRemove ==
    ASSUME NEW S, IsFiniteSet(S), NEW f, IntValued(f, S), NEW x \in S
    PROVE  SumFunctionOnSet(f, S) = f[x] + SumFunctionOnSet(f, S \ {x})
<1> DEFINE Sum(s) == SumFunctionOnSet(f, s)
           Good == {s \in SUBSET S : \A y \in s : Sum(s) = f[y] + Sum(s \ {y})}
<1>0. \A s \in SUBSET S : Sum(s) \in Int
  BY Parts, SumInt DEF IntValued
<1>1. {} \in Good  OBVIOUS
<1>2. ASSUME NEW s \in SUBSET S, s # {}, \A y \in s : s \ {y} \in Good PROVE s \in Good
  <2> DEFINE p == Pick(s)
  <2>1. p \in s  BY <1>2, PickIsIn
  <2>2. Sum(s) = f[p] + Sum(s \ {p})  BY <1>2, Parts, SumOfPick
  <2> SUFFICES ASSUME NEW y \in s PROVE Sum(s) = f[y] + Sum(s \ {y})
    OBVIOUS
  <2> HIDE DEF Sum, p
  <2>3. CASE y = p  BY <2>2, <2>3
  <2>4. CASE y # p
    <3>1. Sum(s \ {p}) = f[y] + Sum((s \ {p}) \ {y})  BY <1>2, <2>1, <2>4
    <3>2. Sum(s \ {y}) = f[p] + Sum((s \ {y}) \ {p})  BY <1>2, <2>1, <2>4
    <3>3. (s \ {p}) \ {y} = (s \ {y}) \ {p}  OBVIOUS
    <3>4. f[p] \in Int /\ f[y] \in Int  BY <2>1 DEF IntValued
    <3> DEFINE rest == Sum((s \ {p}) \ {y})
    <3>5. rest \in Int  BY <1>0
    <3>6. Sum(s \ {y}) = f[p] + rest  BY <3>2, <3>3
    <3>7. Sum(s) = f[p] + (f[y] + rest)  BY <2>2, <3>1
    <3> HIDE DEF rest
    <3> QED  BY <3>4, <3>5, <3>6, <3>7
  <2> QED  BY <2>3, <2>4
<1> HIDE DEF Good
<1>3. SUBSET S \subseteq Good  BY <1>1, <1>2, BySize
<1> QED  BY <1>3 DEF Good

LEMMA SumAdd ==
    ASSUME NEW S, IsFiniteSet(S), NEW x, x \notin S, NEW f, IntValued(f, S \cup {x})
    PROVE  SumFunctionOnSet(f, S \cup {x}) = f[x] + SumFunctionOnSet(f, S)
<1>1. IsFiniteSet(S \cup {x})  BY FS_AddElement
<1>2. (S \cup {x}) \ {x} = S  OBVIOUS
<1> QED  BY <1>1, <1>2, SumRemove

\* A sum grows with its summands.
LEMMA SumMonotone ==
    ASSUME NEW S, IsFiniteSet(S), NEW f, NEW g, IntValued(f, S), IntValued(g, S),
           \A x \in S : f[x] <= g[x]
    PROVE  SumFunctionOnSet(f, S) <= SumFunctionOnSet(g, S)
<1> DEFINE Good == {s \in SUBSET S : SumFunctionOnSet(f, s) <= SumFunctionOnSet(g, s)}
<1>1. {} \in Good  BY SumOfNone
<1>2. ASSUME NEW s \in SUBSET S, s # {}, \A x \in s : s \ {x} \in Good PROVE s \in Good
  <2> DEFINE p == Pick(s)
  <2>1. p \in s /\ f[p] \in Int /\ g[p] \in Int /\ f[p] <= g[p]
    BY <1>2, PickIsIn DEF IntValued
  <2>2. SumFunctionOnSet(f, s) = f[p] + SumFunctionOnSet(f, s \ {p})
    BY <1>2, Parts, SumOfPick
  <2>3. SumFunctionOnSet(g, s) = g[p] + SumFunctionOnSet(g, s \ {p})
    BY <1>2, Parts, SumOfPick
  <2> HIDE DEF p
  <2>4. IsFiniteSet(s \ {p}) /\ IntValued(f, s \ {p}) /\ IntValued(g, s \ {p})
    BY Parts DEF IntValued
  <2>5. SumFunctionOnSet(f, s \ {p}) \in Int /\ SumFunctionOnSet(g, s \ {p}) \in Int
    BY <2>4, SumInt
  <2>6. SumFunctionOnSet(f, s \ {p}) <= SumFunctionOnSet(g, s \ {p})  BY <1>2, <2>1
  <2> QED  BY <2>1, <2>2, <2>3, <2>5, <2>6
<1> HIDE DEF Good
<1>3. SUBSET S \subseteq Good  BY <1>1, <1>2, BySize
<1> QED  BY <1>3 DEF Good

\* A sum of naturals is natural and at most as many of their bound.
LEMMA SumBetween ==
    ASSUME NEW S, IsFiniteSet(S), NEW f, NEW top \in Nat, \A x \in S : f[x] \in 0 .. top
    PROVE  /\ SumFunctionOnSet(f, S) \in Nat
           /\ SumFunctionOnSet(f, S) <= Cardinality(S) * top
<1> DEFINE Good == {s \in SUBSET S : /\ SumFunctionOnSet(f, s) \in Nat
                                     /\ SumFunctionOnSet(f, s) <= Cardinality(s) * top}
<1>1. {} \in Good
  <2>1. 0 * top = 0  BY Z3
  <2> QED  BY <2>1, SumOfNone, FS_EmptySet
<1>2. ASSUME NEW s \in SUBSET S, s # {}, \A x \in s : s \ {x} \in Good PROVE s \in Good
  <2> DEFINE p == Pick(s)
             n == Cardinality(s)
             rest == SumFunctionOnSet(f, s \ {p})
  <2>1. p \in s /\ f[p] \in 0 .. top
    BY <1>2, PickIsIn
  <2>2. SumFunctionOnSet(f, s) = f[p] + rest
    BY <1>2, Parts, SumOfPick
  <2>3. n \in Nat /\ n > 0 /\ Cardinality(s \ {p}) = n - 1
    BY <1>2, <2>1, Parts
  <2>4. rest \in Nat /\ rest <= (n - 1) * top
    BY <1>2, <2>1, <2>3
  <2> HIDE DEF p, n, rest
  <2>5. (n - 1) * top + top = n * top /\ (n - 1) * top \in Int /\ n * top \in Int
    BY <2>3, Z3
  <2>6. f[p] + rest \in Nat /\ f[p] + rest <= n * top
    BY <2>1, <2>4, <2>5
  <2> QED  BY <2>2, <2>6 DEF n
<1> HIDE DEF Good
<1>3. SUBSET S \subseteq Good  BY <1>1, <1>2, BySize
<1> QED  BY <1>3 DEF Good

-----------------------------------------------------------------------------
\* A list of takes, words or islands: what has a start and an end.
Timed(spans, kept) == \A i \in kept : spans[i].start \in Nat /\ spans[i].end \in Nat

\* Before is a strict total order of indices, so ranks differ and none is left out.
LEMMA BeforeOrders ==
    ASSUME NEW spans, NEW kept, kept \subseteq Nat, Timed(spans, kept),
           NEW h \in kept, NEW i \in kept, NEW j \in kept
    PROVE  /\ ~ Before(spans, i, i)
           /\ i # j => Before(spans, i, j) \/ Before(spans, j, i)
           /\ Before(spans, h, i) /\ Before(spans, i, j) => Before(spans, h, j)
<1>1. h \in Nat /\ i \in Nat /\ j \in Nat  OBVIOUS
<1>2. spans[h].start \in Nat /\ spans[i].start \in Nat /\ spans[j].start \in Nat
  BY DEF Timed
<1> QED  BY <1>1, <1>2 DEF Before

LEMMA RankGrows ==
    ASSUME NEW spans, NEW kept, kept \subseteq Nat, IsFiniteSet(kept), Timed(spans, kept),
           NEW i \in kept, NEW j \in kept, Before(spans, i, j)
    PROVE  /\ Rank(spans, kept, i) \in Nat /\ Rank(spans, kept, j) \in Nat
           /\ Rank(spans, kept, i) < Rank(spans, kept, j)
<1> DEFINE S == {h \in kept : Before(spans, h, i)}
           T == {h \in kept : Before(spans, h, j)}
<1>1. S \subseteq T  BY BeforeOrders
<1>2. i \in T /\ i \notin S  BY BeforeOrders
<1>3. IsFiniteSet(T) /\ IsFiniteSet(S)  BY FS_Subset
<1>4. Cardinality(S) \in Nat /\ Cardinality(T) \in Nat  BY <1>3, FS_CardinalityType
<1>5. Cardinality(S) <= Cardinality(T) /\ (Cardinality(S) = Cardinality(T) => S = T)
  <2> HIDE DEF S, T
  <2> QED  BY <1>1, <1>3, FS_Subset
<1>6. Rank(spans, kept, i) = Cardinality(S) /\ Rank(spans, kept, j) = Cardinality(T)
  BY DEF Rank
<1> HIDE DEF S, T
<1> QED  BY <1>2, <1>4, <1>5, <1>6

LEMMA RanksAreTaken ==
    ASSUME NEW spans, NEW kept, kept \subseteq Nat, IsFiniteSet(kept), Timed(spans, kept)
    PROVE  \A k \in 1 .. Cardinality(kept) : \E i \in kept : Rank(spans, kept, i) = k - 1
<1> DEFINE n == Cardinality(kept)
           rank == [i \in kept |-> Rank(spans, kept, i)]
<1>1. n \in Nat  BY FS_CardinalityType
<1>2. \A i \in kept : rank[i] \in 0 .. n - 1
  <2> TAKE i \in kept
  <2> DEFINE S == {h \in kept : Before(spans, h, i)}
  <2>1. S \in SUBSET (kept \ {i})
    <3>1. ~ Before(spans, i, i)  BY BeforeOrders
    <3> QED  BY <3>1
  <2>2. IsFiniteSet(kept \ {i}) /\ Cardinality(kept \ {i}) = n - 1  BY FS_RemoveElement
  <2>3. IsFiniteSet(S) /\ Cardinality(S) <= n - 1
    <3> DEFINE R == kept \ {i}
    <3>1. S \in SUBSET R /\ IsFiniteSet(R) /\ Cardinality(R) = n - 1  BY <2>1, <2>2
    <3> HIDE DEF S, n, R
    <3>2. IsFiniteSet(S) /\ Cardinality(S) <= Cardinality(R)  BY <3>1, FS_Subset
    <3> QED  BY <3>1, <3>2
  <2>4. Cardinality(S) \in Nat  BY <2>3, FS_CardinalityType
  <2>5. rank[i] = Cardinality(S)  BY DEF Rank
  <2> HIDE DEF S, n, rank
  <2> QED  BY <1>1, <2>3, <2>4, <2>5
<1>3. \A i, j \in kept : i # j => rank[i] # rank[j]
  <2> SUFFICES ASSUME NEW i \in kept, NEW j \in kept, i # j PROVE rank[i] # rank[j]
    OBVIOUS
  <2>1. Before(spans, i, j) \/ Before(spans, j, i)  BY BeforeOrders
  <2>2. CASE Before(spans, i, j)
    <3> DEFINE a == Rank(spans, kept, i)
               b == Rank(spans, kept, j)
    <3>1. a \in Nat /\ b \in Nat /\ a < b  BY <2>2, RankGrows
    <3> HIDE DEF a, b
    <3>2. a # b  BY <3>1
    <3> QED  BY <3>2 DEF a, b
  <2>3. CASE Before(spans, j, i)
    <3> DEFINE a == Rank(spans, kept, i)
               b == Rank(spans, kept, j)
    <3>1. a \in Nat /\ b \in Nat /\ b < a  BY <2>3, RankGrows
    <3> HIDE DEF a, b
    <3>2. a # b  BY <3>1
    <3> QED  BY <3>2 DEF a, b
  <2> QED  BY <2>1, <2>2, <2>3
<1>4. DOMAIN rank = kept /\ rank \in [kept -> 0 .. n - 1]
  <2>1. DOMAIN rank = kept  OBVIOUS
  <2>2. rank = [i \in kept |-> rank[i]]  OBVIOUS
  <2> HIDE DEF rank, n
  <2> QED  BY <1>2, <2>1, <2>2
<1>5. IsFiniteSet(0 .. n - 1) /\ Cardinality(0 .. n - 1) = n
  <2> HIDE DEF n
  <2>1. 0 \in Int /\ n - 1 \in Int  BY <1>1
  <2>2. Cardinality(0 .. n - 1) = IF 0 > n - 1 THEN 0 ELSE (n - 1) - 0 + 1
    BY <2>1, FS_Interval
  <2>3. IsFiniteSet(0 .. n - 1)  BY <2>1, FS_Interval
  <2> QED  BY <1>1, <2>2, <2>3
<1>6. rank \in Surjection(kept, 0 .. n - 1)
  <2>1. rank \in Injection(kept, 0 .. n - 1)
    <3> HIDE DEF rank, n
    <3> QED  BY <1>3, <1>4 DEF Injection, IsInjective
  <2>2. Cardinality(kept) = Cardinality(0 .. n - 1)  BY <1>5
  <2> HIDE DEF rank, n
  <2> QED  BY <1>5, <2>1, <2>2, FS_Injection
<1>7. \A k \in 0 .. n - 1 : \E i \in kept : rank[i] = k
  <2> HIDE DEF rank, n
  <2> QED  BY <1>6 DEF Surjection
<1> SUFFICES ASSUME NEW k \in 1 .. n PROVE \E i \in kept : Rank(spans, kept, i) = k - 1
  OBVIOUS
<1>8. k - 1 \in 0 .. n - 1  BY <1>1
<1>9. PICK i \in kept : rank[i] = k - 1  BY <1>7, <1>8
<1> QED  BY <1>9

\* A list of kept spans in the order of their starts.
Sorts(ordered, spans, kept) ==
    LET n == Cardinality(kept)
    IN  /\ n \in Nat /\ Len(ordered) = n
        /\ \A k \in 1 .. n : \E i \in kept : ordered[k] = spans[i]
        /\ \A k \in 1 .. n - 1 : ordered[k].start <= ordered[k + 1].start

\* ByStart lists every kept span in the order of starts.
LEMMA ByStartSorts ==
    ASSUME NEW spans, NEW kept, kept \subseteq Nat, IsFiniteSet(kept), Timed(spans, kept)
    PROVE  Sorts(ByStart(spans, kept), spans, kept)
<1> DEFINE ordered == ByStart(spans, kept)
           n == Cardinality(kept)
           at(k) == CHOOSE i \in kept : Rank(spans, kept, i) = k - 1
<1>1. n \in Nat  BY FS_CardinalityType
<1>2. \A k \in 1 .. n : at(k) \in kept /\ Rank(spans, kept, at(k)) = k - 1
  BY RanksAreTaken
<1>3. ordered = [k \in 1 .. n |-> spans[at(k)]]  BY DEF ByStart
<1> HIDE DEF at
<1>4. Len(ordered) = n
  <2> HIDE DEF n
  <2>1. DOMAIN [k \in 1 .. n |-> spans[at(k)]] = 1 .. n  OBVIOUS
  <2>2. Len([k \in 1 .. n |-> spans[at(k)]]) = n  BY <1>1, <2>1
  <2> QED  BY <1>3, <2>2
<1>5. \A k \in 1 .. n : ordered[k] = spans[at(k)]  BY <1>3
<1>6. ASSUME NEW k \in 1 .. n - 1 PROVE ordered[k].start <= ordered[k + 1].start
  <2> HIDE DEF n, ordered
  <2> DEFINE i == at(k)
             j == at(k + 1)
  <2>1. k \in 1 .. n /\ k + 1 \in 1 .. n  BY <1>1
  <2>2. i \in kept /\ j \in kept /\ Rank(spans, kept, i) = k - 1 /\ Rank(spans, kept, j) = k
    BY <1>2, <2>1
  <2> HIDE DEF i, j
  <2>3. ~ Before(spans, j, i)
    <3> SUFFICES ASSUME Before(spans, j, i) PROVE FALSE
      OBVIOUS
    <3>1. Rank(spans, kept, j) < Rank(spans, kept, i)  BY <2>2, RankGrows
    <3>2. k \in Int  BY <1>1
    <3> QED  BY <2>2, <3>1, <3>2
  <2>4. spans[i].start <= spans[j].start  BY <2>2, <2>3 DEF Before, Timed
  <2> QED  BY <1>5, <2>1, <2>4 DEF i, j
<1> HIDE DEF n, ordered
<1>7. \A k \in 1 .. n : \E i \in kept : ordered[k] = spans[i]  BY <1>2, <1>5
<1>8. Sorts(ordered, spans, kept)  BY <1>1, <1>4, <1>6, <1>7 DEF Sorts, n
<1> QED  BY <1>8 DEF ordered

\* Sorted spans with a length, none of which ends before it starts.
Heard(spans, n) ==
    /\ n \in Nat /\ Len(spans) = n
    /\ \A k \in 1 .. n : /\ spans[k].start \in Nat /\ spans[k].end \in Nat
                         /\ spans[k].start <= spans[k].end
    /\ \A k \in 1 .. n - 1 : spans[k].start <= spans[k + 1].start

\* What ByStart makes of words and of voiced islands.
LEMMA ByStartHears ==
    ASSUME NEW spans, NEW kept, kept \subseteq Nat, IsFiniteSet(kept), Timed(spans, kept),
           \A i \in kept : spans[i].start <= spans[i].end
    PROVE  Heard(ByStart(spans, kept), Cardinality(kept))
<1> DEFINE ordered == ByStart(spans, kept)
           n == Cardinality(kept)
<1>0. Sorts(ordered, spans, kept)
  BY ByStartSorts
<1>1. /\ n \in Nat /\ Len(ordered) = n
      /\ \A k \in 1 .. n : \E i \in kept : ordered[k] = spans[i]
      /\ \A k \in 1 .. n - 1 : ordered[k].start <= ordered[k + 1].start
  <2> HIDE DEF ordered
  <2> QED  BY <1>0 DEF Sorts
<1> HIDE DEF ordered, n
<1>2. \A k \in 1 .. n : /\ ordered[k].start \in Nat /\ ordered[k].end \in Nat
                        /\ ordered[k].start <= ordered[k].end
  BY <1>1 DEF Timed
<1>3. Heard(ordered, n)  BY <1>1, <1>2 DEF Heard
<1> QED  BY <1>3 DEF ordered, n

\* Pauses are disjoint parts of the time from the first start to the last: their
\* sum telescopes.
LEMMA PausesFit ==
    ASSUME NEW spans, NEW n, Heard(spans, n), n > 0
    PROVE  PauseTicks(spans) \in Nat /\ PauseTicks(spans) <= spans[n].start - spans[1].start
<1> DEFINE gap == [i \in 1 .. n - 1 |-> GapAfter(spans, i)]
           P(m) == {i \in 1 .. m : i < n /\ gap[i] >= MinPause}
           Sum(m) == SumFunctionOnSet(gap, P(m))
           Good == {m \in Nat : m < n => /\ Sum(m) \in Nat
                                         /\ Sum(m) <= spans[m + 1].start - spans[1].start}
<1>0. n \in Nat /\ n - 1 \in Nat /\ Len(spans) = n
  BY DEF Heard
<1>1. \A i \in 1 .. n - 1 : /\ gap[i] = spans[i + 1].start - spans[i].end
                            /\ gap[i] \in Int
                            /\ gap[i] <= spans[i + 1].start - spans[i].start
  <2> TAKE i \in 1 .. n - 1
  <2>1. i \in 1 .. n /\ i + 1 \in 1 .. n  BY <1>0
  <2>2. /\ spans[i].start \in Nat /\ spans[i].end \in Nat /\ spans[i + 1].start \in Nat
        /\ spans[i].start <= spans[i].end
    BY <2>1 DEF Heard
  <2>3. gap[i] = spans[i + 1].start - spans[i].end  BY DEF GapAfter
  <2> QED  BY <2>2, <2>3
<1> HIDE DEF gap
<1>2. \A m \in Nat : IsFiniteSet(P(m)) /\ IntValued(gap, P(m))
  <2> TAKE m \in Nat
  <2>1. IsFiniteSet(1 .. m) /\ P(m) \in SUBSET (1 .. m)  BY FS_Interval
  <2>2. IsFiniteSet(P(m))
    <3> HIDE DEF P
    <3> QED  BY <2>1, FS_Subset
  <2>3. \A i \in P(m) : i \in 1 .. n - 1  BY <1>0
  <2> QED  BY <1>1, <2>2, <2>3 DEF IntValued
<1>3. 0 \in Good
  <2>1. P(0) = {}  OBVIOUS
  <2>2. Sum(0) = 0  BY <2>1, SumOfNone
  <2>3. 1 \in 1 .. n  BY <1>0
  <2>4. spans[1].start \in Nat  BY <2>3 DEF Heard
  <2> HIDE DEF Sum
  <2> QED  BY <2>2, <2>4
<1>4. ASSUME NEW m \in Nat, m \in Good PROVE m + 1 \in Good
  <2> SUFFICES ASSUME m + 1 < n
               PROVE  /\ Sum(m + 1) \in Nat
                      /\ Sum(m + 1) <= spans[m + 2].start - spans[1].start
    OBVIOUS
  <2>1. Sum(m) \in Nat /\ Sum(m) <= spans[m + 1].start - spans[1].start
    BY <1>0, <1>4
  <2>2. m + 1 \in 1 .. n - 1 /\ m + 1 \in 1 .. n /\ m + 2 \in 1 .. n /\ 1 \in 1 .. n
        /\ m + 1 + 1 = m + 2
    BY <1>0
  <2>3. spans[1].start \in Nat /\ spans[m + 1].start \in Nat /\ spans[m + 2].start \in Nat
    BY <2>2 DEF Heard
  <2>4. spans[m + 1].start <= spans[m + 2].start
    BY <2>2 DEF Heard
  <2>5. gap[m + 1] \in Int /\ gap[m + 1] <= spans[m + 2].start - spans[m + 1].start
    BY <1>1, <2>2
  <2>6. CASE gap[m + 1] >= MinPause
    <3>1. P(m + 1) = P(m) \cup {m + 1} /\ m + 1 \notin P(m)
      BY <2>2, <2>6
    <3>2. Sum(m + 1) = gap[m + 1] + Sum(m)
      <4>1. IsFiniteSet(P(m)) /\ IntValued(gap, P(m) \cup {m + 1})
        BY <1>2, <3>1
      <4> HIDE DEF P
      <4>2. SumFunctionOnSet(gap, P(m) \cup {m + 1}) = gap[m + 1] + SumFunctionOnSet(gap, P(m))
        BY <3>1, <4>1, SumAdd
      <4> QED  BY <3>1, <4>2
    <3> HIDE DEF Sum
    <3> QED  BY <2>1, <2>3, <2>5, <2>6, <3>2 DEF MinPause
  <2>7. CASE ~(gap[m + 1] >= MinPause)
    <3>1. P(m + 1) = P(m)
      BY <2>2, <2>7
    <3>2. Sum(m + 1) = Sum(m)  BY <3>1
    <3> HIDE DEF Sum
    <3> QED  BY <2>1, <2>3, <2>4, <3>2
  <2> QED  BY <2>6, <2>7
<1>5. \A m \in Nat : m \in Good
  <2> HIDE DEF Good
  <2> QED  BY <1>3, <1>4, NaturalsByStep
<1>6. Sum(n - 1) \in Nat /\ Sum(n - 1) <= spans[n].start - spans[1].start
  <2>1. n - 1 \in Good /\ n - 1 < n /\ n - 1 + 1 = n  BY <1>0, <1>5
  <2> HIDE DEF Sum
  <2> QED  BY <2>1
<1>7. PauseTicks(spans) = Sum(n - 1)
  <2>1. Pauses(spans) = P(n - 1)
    <3>1. \A i \in 1 .. n - 1 : gap[i] = GapAfter(spans, i)  BY DEF gap
    <3> QED  BY <1>0, <3>1 DEF Pauses
  <2>2. PauseTicks(spans) = SumFunctionOnSet(gap, Pauses(spans))
    BY <1>0 DEF PauseTicks, gap
  <2> QED  BY <2>1, <2>2
<1> HIDE DEF Sum
<1> QED  BY <1>6, <1>7

-----------------------------------------------------------------------------
LEMMA NoPauses == \A spans : Heard(spans, 0) => PauseTicks(spans) = 0
<1> SUFFICES ASSUME NEW spans, Heard(spans, 0) PROVE PauseTicks(spans) = 0
  OBVIOUS
<1>1. Pauses(spans) = {}  BY DEF Pauses, Heard
<1> QED  BY <1>1, SumOfNone DEF PauseTicks

LEMMA PausesAreNatural ==
    ASSUME NEW spans, NEW n, Heard(spans, n)
    PROVE  PauseTicks(spans) \in Nat
<1>1. n \in Nat  BY DEF Heard
<1>2. CASE n = 0  BY <1>2, NoPauses
<1>3. CASE n > 0  BY <1>3, PausesFit
<1> QED  BY <1>1, <1>2, <1>3

LEMMA NoneIsSorted ==
    ASSUME NEW spans, NEW kept, Cardinality(kept) = 0
    PROVE  ByStart(spans, kept) = <<>>
  BY DEF ByStart

LEMMA TakesAreTyped ==
    ASSUME NEW take \in Takes
    PROVE  /\ take.words \in Seq(Word) /\ take.islands \in Seq(Span) /\ take.length \in Nat
           /\ IsFiniteSet(DOMAIN take.words) /\ DOMAIN take.words \subseteq Nat
           /\ Cardinality(DOMAIN take.words) = Len(take.words)
           /\ IsFiniteSet(Voiced(take)) /\ Voiced(take) \subseteq Nat
<1>1. take.words \in Seq(Word) /\ take.islands \in Seq(Span) /\ take.length \in Nat
  BY SignalsAssumption DEF Take
<1>2. Len(take.words) \in Nat /\ DOMAIN take.words = 1 .. Len(take.words)
  BY <1>1, LenProperties
<1>3. Len(take.islands) \in Nat /\ DOMAIN take.islands = 1 .. Len(take.islands)
  BY <1>1, LenProperties
<1>4. IsFiniteSet(DOMAIN take.words) /\ Cardinality(DOMAIN take.words) = Len(take.words)
  <2> DEFINE n == Len(take.words)
  <2> HIDE DEF n
  <2>1. n \in Nat  BY <1>2 DEF n
  <2>2. IsFiniteSet(1 .. n) /\ Cardinality(1 .. n) = IF 1 > n THEN 0 ELSE n - 1 + 1
    BY <2>1, FS_Interval
  <2>3. IsFiniteSet(1 .. n) /\ Cardinality(1 .. n) = n  BY <2>1, <2>2
  <2> QED  BY <1>2, <2>3 DEF n
<1>5. IsFiniteSet(Voiced(take))
  <2>1. IsFiniteSet(DOMAIN take.islands)  BY <1>3, FS_Interval
  <2>2. Voiced(take) \in SUBSET DOMAIN take.islands  BY DEF Voiced
  <2> QED  BY <2>1, <2>2, FS_Subset
<1>6. Voiced(take) \subseteq Nat  BY <1>3 DEF Voiced
<1> QED  BY <1>1, <1>2, <1>4, <1>5, <1>6

LEMMA WordsAreHeard ==
    ASSUME NEW take \in Takes
    PROVE  Heard(ByStart(take.words, DOMAIN take.words), Len(take.words))
<1>1. \A i \in DOMAIN take.words : take.words[i] \in Word
  BY TakesAreTyped, LenProperties, ElementOfSeq
<1>2. \A i \in DOMAIN take.words : /\ take.words[i].start \in Nat /\ take.words[i].end \in Nat
                                   /\ take.words[i].start <= take.words[i].end
  BY <1>1 DEF Word
<1>3. Timed(take.words, DOMAIN take.words)  BY <1>2 DEF Timed
<1> QED  BY <1>2, <1>3, TakesAreTyped, ByStartHears

LEMMA IslandsAreHeard ==
    ASSUME NEW take \in Takes
    PROVE  Heard(ByStart(take.islands, Voiced(take)), Cardinality(Voiced(take)))
<1>1. \A i \in DOMAIN take.islands : take.islands[i] \in Span
  BY TakesAreTyped, LenProperties, ElementOfSeq
<1>2. \A i \in Voiced(take) : /\ take.islands[i].start \in Nat /\ take.islands[i].end \in Nat
                              /\ take.islands[i].start <= take.islands[i].end
  BY <1>1 DEF Span, Voiced
<1>3. Timed(take.islands, Voiced(take))  BY <1>2 DEF Timed
<1> QED  BY <1>2, <1>3, TakesAreTyped, ByStartHears

\* Both arms of every take, with the pauses that are shown of it.
LEMMA TakesPause == \A take \in Takes : PausesOf(take)
<1> TAKE take \in Takes
<1> DEFINE words == ByStart(take.words, DOMAIN take.words)
           islands == ByStart(take.islands, Voiced(take))
           Fits(spans) == spans # <<>> =>
                            PauseTicks(spans) <= spans[Len(spans)].start - spans[1].start
<1>1. Fits(words)
  <2>1. Heard(words, Len(take.words))  BY WordsAreHeard
  <2>2. words # <<>> => Len(take.words) > 0
    <3>1. Len(take.words) \in Nat  BY <2>1 DEF Heard
    <3>2. Cardinality(DOMAIN take.words) = 0 => words = <<>>  BY NoneIsSorted
    <3> QED  BY <3>1, <3>2, TakesAreTyped
  <2>3. Len(words) = Len(take.words)  BY <2>1 DEF Heard
  <2> HIDE DEF words
  <2> QED  BY <2>1, <2>2, <2>3, PausesFit
<1>2. Fits(islands)
  <2> DEFINE n == Cardinality(Voiced(take))
  <2>1. Heard(islands, n)  BY IslandsAreHeard
  <2>2. islands # <<>> => n > 0
    <3>1. n \in Nat  BY <2>1 DEF Heard
    <3>2. n = 0 => islands = <<>>  BY NoneIsSorted
    <3> QED  BY <3>1, <3>2
  <2>3. Len(islands) = n  BY <2>1 DEF Heard
  <2> HIDE DEF islands, n
  <2> QED  BY <2>1, <2>2, <2>3, PausesFit
<1>3. VadPauses(take) = {[start |-> islands[i].end, end |-> islands[i + 1].start] : i \in Pauses(islands)}
  BY DEF VadPauses, Pauses
<1> HIDE DEF words, islands
<1>4. \A spans \in {words, islands} : Fits(spans)  BY <1>1, <1>2
<1> QED  BY <1>3, <1>4 DEF PausesOf, words, islands

-----------------------------------------------------------------------------
\* Quotients of measures are measures.
LEMMA Quotient == \A a \in Nat, b \in Nat : b > 0 => a \div b \in Nat
<1> SUFFICES ASSUME NEW a \in Nat, NEW b \in Nat, b > 0 PROVE a \div b \in Nat
  OBVIOUS
<1>1. b * 0 <= a /\ a <= b * a  BY Z3
<1>2. 0 <= a \div b  BY <1>1, DivBetween
<1>3. a \div b \in Int  OBVIOUS
<1> QED  BY <1>2, <1>3

LEMMA FluencyIsAnArm ==
    \A words, total, pauses, fillers \in Nat : Fluency(words, total, pauses, fillers) \in Arm
<1> TAKE words, total, pauses, fillers \in Nat
<1>1. 600 * words \in Nat /\ 1000 * pauses \in Nat /\ 1000 * fillers \in Nat  OBVIOUS
<1>2. total > 0 => (600 * words) \div total \in Nat /\ (1000 * pauses) \div total \in Nat
  BY <1>1, Quotient
<1>3. words > 0 => (1000 * fillers) \div words \in Nat  BY <1>1, Quotient
<1> QED  BY <1>2, <1>3 DEF Fluency, Arm

\* The score of a take is on the scale, whatever was heard.
LEMMA TakesScore == \A take \in Takes : TakeScore[take] \in 0 .. Full
<1> TAKE take \in Takes
<1>1. Fillers(ByStart(take.words, DOMAIN take.words)) \in Nat
  <2> DEFINE words == ByStart(take.words, DOMAIN take.words)
             n == Cardinality(DOMAIN take.words)
  <2>1. DOMAIN words = 1 .. n /\ n \in Nat
    BY TakesAreTyped, LenProperties DEF ByStart
  <2> HIDE DEF words, n
  <2>2. IsFiniteSet(DOMAIN words)  BY <2>1, FS_Interval
  <2>3. \A S \in SUBSET DOMAIN words : Cardinality(S) \in Nat
    BY <2>2, FS_Subset, FS_CardinalityType
  <2>4. Fillers(words) \in Nat  BY <2>3 DEF Fillers
  <2> QED  BY <2>4 DEF words
<1>2. Bursts(take) \in Nat
  <2>1. \A S \in SUBSET Voiced(take) : Cardinality(S) \in Nat
    BY TakesAreTyped, FS_Subset, FS_CardinalityType
  <2> QED  BY <2>1 DEF Bursts
<1>3. TranscriptArm(take) \in Arm
  <2> DEFINE words == ByStart(take.words, DOMAIN take.words)
  <2>1. Len(words) \in Nat /\ PauseTicks(words) \in Nat
    BY WordsAreHeard, PausesAreNatural DEF Heard
  <2>2. take.length \in Nat  BY TakesAreTyped
  <2>3. Fillers(words) \in Nat  BY <1>1
  <2>4. TranscriptArm(take) = Fluency(Len(words), take.length, PauseTicks(words), Fillers(words))
    BY DEF TranscriptArm
  <2> HIDE DEF words
  <2> QED  BY <2>1, <2>2, <2>3, <2>4, FluencyIsAnArm
<1>4. AcousticArm(take) \in Arm
  <2> DEFINE islands == ByStart(take.islands, Voiced(take))
  <2>1. PauseTicks(islands) \in Nat  BY IslandsAreHeard, PausesAreNatural
  <2>2. take.length \in Nat  BY TakesAreTyped
  <2>3. Len(take.words) \in Nat  BY TakesAreTyped, LenProperties
  <2>4. AcousticArm(take) = Fluency(Len(take.words), take.length, PauseTicks(islands), Bursts(take))
    BY DEF AcousticArm
  <2> HIDE DEF islands
  <2> QED  BY <1>2, <2>1, <2>2, <2>3, <2>4, FluencyIsAnArm
<1> DEFINE a == ArmScore(TranscriptArm(take))
           b == ArmScore(AcousticArm(take))
<1>5. a \in 0 .. Full /\ b \in 0 .. Full  BY <1>3, <1>4, ArmsAreOnScale
<1>6. TakeScore[take] = (a + b) \div 2  BY DEF TakeScore
<1> HIDE DEF a, b
<1> QED  BY <1>5, <1>6 DEF Full

-----------------------------------------------------------------------------
\* A row of a session, with any mark that a judge may give.
Answer == [kind : Kinds, followUp : BOOLEAN, take : Takes \cup {None}, mark : 0 .. 5 \cup {None}]

Judged(answers, kind) == {i \in DOMAIN answers : answers[i].kind = kind /\ answers[i].mark # None}
MarksOf(answers, kind) == [i \in Judged(answers, kind) |-> answers[i].mark]

LEMMA AnswersAreTyped ==
    ASSUME NEW answers \in Seq(Answer)
    PROVE  /\ IsFiniteSet(DOMAIN answers)
           /\ \A i \in DOMAIN answers : answers[i] \in Answer
<1>1. Len(answers) \in Nat /\ DOMAIN answers = 1 .. Len(answers)  BY LenProperties
<1>2. IsFiniteSet(DOMAIN answers)  BY <1>1, FS_Interval
<1> QED  BY <1>1, <1>2, ElementOfSeq

LEMMA MarksAreTyped ==
    ASSUME NEW answers \in Seq(Answer), NEW kind
    PROVE  LET J == Judged(answers, kind)
               f == MarksOf(answers, kind)
           IN  /\ IsFiniteSet(J) /\ \A i \in J : f[i] \in 0 .. 5
               /\ Cardinality(J) \in Nat /\ (J # {} => Cardinality(J) > 0)
               /\ SumFunctionOnSet(f, J) \in Nat /\ SumFunctionOnSet(f, J) <= Cardinality(J) * 5
<1> DEFINE J == Judged(answers, kind)
           f == MarksOf(answers, kind)
<1>1. IsFiniteSet(J)  BY AnswersAreTyped, FS_Subset DEF Judged
<1>2. \A i \in J : f[i] \in 0 .. 5  BY AnswersAreTyped DEF Judged, MarksOf, Answer
<1>3. Cardinality(J) \in Nat /\ (J # {} => Cardinality(J) > 0)
  BY <1>1, FS_CardinalityType, FS_EmptySet
<1> HIDE DEF J, f
<1>4. SumFunctionOnSet(f, J) \in Nat /\ SumFunctionOnSet(f, J) <= Cardinality(J) * 5
  BY <1>1, <1>2, SumBetween
<1> QED  BY <1>1, <1>2, <1>3, <1>4 DEF J, f

LEMMA KindMeanIs ==
    ASSUME NEW answers, NEW kind
    PROVE  KindMean(answers, kind) =
             IF Judged(answers, kind) = {} THEN None
             ELSE (Full * SumFunctionOnSet(MarksOf(answers, kind), Judged(answers, kind)))
                    \div (5 * Cardinality(Judged(answers, kind)))
  BY DEF KindMean, Judged, MarksOf

\* A quotient of at most 1000 is on the scale.
LEMMA QuotientOnScale ==
    ASSUME NEW a \in Int, NEW b \in Nat, b > 0, 0 <= a, a <= b * 1000
    PROVE  a \div b \in 0 .. Full
<1> DEFINE q == a \div b
<1>1. q \in Int  OBVIOUS
<1>2. b * 0 <= a  BY Z3
<1>3. 0 <= q /\ q <= 1000  BY <1>2, DivBetween
<1> HIDE DEF q
<1>4. q \in 0 .. Full  BY <1>1, <1>3 DEF Full
<1> QED  BY <1>4 DEF q

\* A kind has no mean if none of its questions is judged, else one on the scale;
\* so has speech.
LEMMA KindsMeasure ==
    ASSUME NEW answers \in Seq(Answer), NEW kind
    PROVE  IF Judged(answers, kind) = {} THEN KindMean(answers, kind) = None
           ELSE KindMean(answers, kind) \in 0 .. Full
<1> DEFINE J == Judged(answers, kind)
           f == MarksOf(answers, kind)
           n == Cardinality(J)
           sum == SumFunctionOnSet(f, J)
<1>1. KindMean(answers, kind) = IF J = {} THEN None ELSE (Full * sum) \div (5 * n)
  BY KindMeanIs
<1>2. n \in Nat /\ (J # {} => n > 0) /\ sum \in Nat /\ sum <= n * 5
  BY MarksAreTyped
<1> HIDE DEF J, f, n, sum
<1> DEFINE a == 1000 * sum
           b == 5 * n
<1>3. ASSUME J # {} PROVE (Full * sum) \div (5 * n) \in 0 .. Full
  <2>1. a \in Int /\ b \in Nat /\ b > 0 /\ 0 <= a /\ a <= b * 1000
    BY <1>2, <1>3
  <2> HIDE DEF a, b
  <2>2. a \div b \in 0 .. Full  BY <2>1, QuotientOnScale
  <2>3. a \div b = (Full * sum) \div (5 * n)  BY DEF a, b, Full
  <2> QED  BY <2>2, <2>3
<1> QED  BY <1>1, <1>3 DEF J

LEMMA SpeechMeasures ==
    ASSUME NEW answers \in Seq(Answer)
    PROVE  IF \E i \in DOMAIN answers : answers[i].take # None
           THEN Communication(answers) \in 0 .. Full
           ELSE Communication(answers) = None
<1> DEFINE J == {i \in DOMAIN answers : answers[i].take # None}
           f == [i \in J |-> TakeScore[answers[i].take]]
           n == Cardinality(J)
           sum == SumFunctionOnSet(f, J)
<1>1. Communication(answers) = IF J = {} THEN None ELSE sum \div n
  BY DEF Communication
<1>2. IsFiniteSet(J)  BY AnswersAreTyped, FS_Subset
<1>3. \A i \in J : f[i] \in 0 .. Full
  <2> TAKE i \in J
  <2>1. answers[i].take \in Takes  BY AnswersAreTyped DEF Answer
  <2> QED  BY <2>1, TakesScore
<1>4. n \in Nat /\ (J # {} => n > 0)
  <2> HIDE DEF J
  <2>1. n \in Nat  BY <1>2, FS_CardinalityType
  <2>2. n = 0 <=> J = {}  BY <1>2, FS_EmptySet
  <2> QED  BY <2>1, <2>2
<1>5. sum \in Nat /\ sum <= n * 1000
  <2>1. Full \in Nat /\ Full = 1000  BY DEF Full
  <2> HIDE DEF f, J
  <2>2. SumFunctionOnSet(f, J) \in Nat /\ SumFunctionOnSet(f, J) <= Cardinality(J) * Full
    <3>1. \A i \in J : f[i] \in 0 .. Full  BY <1>3
    <3>2. IsFiniteSet(J)  BY <1>2
    <3>3. Full \in Nat  BY <2>1
    <3> QED  BY <3>1, <3>2, <3>3, SumBetween
  <2> QED  BY <2>1, <2>2
<1>6. J # {} => sum \div n \in 0 .. Full
  <2> HIDE DEF J, n, sum
  <2> SUFFICES ASSUME J # {} PROVE sum \div n \in 0 .. Full
    OBVIOUS
  <2> QED  BY <1>4, <1>5, QuotientOnScale
<1>7. J = {} <=> ~\E i \in DOMAIN answers : answers[i].take # None  OBVIOUS
<1> HIDE DEF J, n, sum
<1> QED  BY <1>1, <1>6, <1>7

\* The answers are the same but for one mark, which is one better.
Raises(better, answers, i) ==
    /\ DOMAIN better = DOMAIN answers
    /\ better[i].mark = answers[i].mark + 1
    /\ \A j \in DOMAIN answers : /\ better[j].kind = answers[j].kind
                                 /\ better[j].take = answers[j].take
                                 /\ j # i => better[j].mark = answers[j].mark

\* A better mark lowers no mean, and makes none appear or vanish.
LEMMA KindMeanRises ==
    ASSUME NEW answers \in Seq(Answer), NEW better \in Seq(Answer), NEW kind,
           NEW i \in DOMAIN answers, answers[i].mark \in Nat, Raises(better, answers, i)
    PROVE  /\ KindMean(answers, kind) = None <=> KindMean(better, kind) = None
           /\ KindMean(answers, kind) # None => KindMean(answers, kind) <= KindMean(better, kind)
<1> DEFINE J == Judged(answers, kind)
           f == MarksOf(answers, kind)
           g == MarksOf(better, kind)
           n == Cardinality(J)
           v == SumFunctionOnSet(f, J)
           w == SumFunctionOnSet(g, J)
<1>1. better[i].mark \in Nat /\ better[i].mark # None /\ answers[i].mark # None
  BY NoneAssumption DEF Raises
<1>2. Judged(better, kind) = J
  BY <1>1 DEF Judged, Raises
<1>3. \A j \in J : f[j] \in Int /\ g[j] \in Int /\ f[j] <= g[j]
  <2> TAKE j \in J
  <2>1. f[j] = answers[j].mark /\ g[j] = better[j].mark  BY <1>2 DEF MarksOf
  <2>2. f[j] \in 0 .. 5  BY MarksAreTyped
  <2>3. CASE j = i  BY <2>1, <2>2, <2>3 DEF Raises
  <2>4. CASE j # i
    <3>1. better[j].mark = answers[j].mark  BY <2>4 DEF Raises, Judged
    <3> QED  BY <2>1, <2>2, <3>1
  <2> QED  BY <2>3, <2>4
<1>4. IsFiniteSet(J) /\ n \in Nat /\ (J # {} => n > 0)
  BY MarksAreTyped
<1>5. v \in Int /\ w \in Int /\ v <= w
  <2> HIDE DEF J, f, g
  <2> QED  BY <1>3, <1>4, SumInt, SumMonotone DEF IntValued
<1>6. /\ KindMean(answers, kind) = IF J = {} THEN None ELSE (Full * v) \div (5 * n)
      /\ KindMean(better, kind) = IF J = {} THEN None ELSE (Full * w) \div (5 * n)
  BY <1>2, KindMeanIs
<1>7. J # {} => (Full * v) \div (5 * n) <= (Full * w) \div (5 * n)
  <2> HIDE DEF J, n, v, w
  <2> SUFFICES ASSUME J # {} PROVE (1000 * v) \div (5 * n) <= (1000 * w) \div (5 * n)
    BY DEF Full
  <2> DEFINE a == 1000 * v
             c == 1000 * w
             b == 5 * n
  <2>1. a \in Int /\ c \in Int /\ b \in Nat /\ b > 0 /\ a <= c  BY <1>4, <1>5
  <2> HIDE DEF a, b, c
  <2>2. a \div b <= c \div b  BY <2>1, DivMonotone
  <2> QED  BY <2>2 DEF a, b, c
<1>8. (KindMean(answers, kind) = None <=> J = {}) /\ (KindMean(better, kind) = None <=> J = {})
  <2>1. None \notin 0 .. Full
    <3>1. \A p \in 0 .. Full : p \in Nat  BY DEF Full
    <3> QED  BY <3>1, NoneAssumption
  <2>2. IF J = {} THEN KindMean(answers, kind) = None ELSE KindMean(answers, kind) \in 0 .. Full
    BY KindsMeasure
  <2>3. IF J = {} THEN KindMean(better, kind) = None ELSE KindMean(better, kind) \in 0 .. Full
    BY <1>2, KindsMeasure
  <2> HIDE DEF J
  <2> QED  BY <2>1, <2>2, <2>3
<1> HIDE DEF J, n, v, w
<1> QED  BY <1>6, <1>7, <1>8

LEMMA SpeechStays ==
    ASSUME NEW answers \in Seq(Answer), NEW better \in Seq(Answer), NEW i, Raises(better, answers, i)
    PROVE  Communication(better) = Communication(answers)
<1> DEFINE J == {j \in DOMAIN answers : answers[j].take # None}
<1>1. {j \in DOMAIN better : better[j].take # None} = J  BY DEF Raises
<1>2. [j \in J |-> TakeScore[better[j].take]] = [j \in J |-> TakeScore[answers[j].take]]
  BY DEF Raises
<1> QED  BY <1>1, <1>2 DEF Communication

LEMMA SectionsAreFinite == IsFiniteSet(DOMAIN SectionPoints)
<1>1. DOMAIN SectionPoints = {"experience", "education", "skills", "summary", "projects"}
  BY DEF SectionPoints
<1>2. IsFiniteSet({"experience"})  BY FS_Singleton
<1>3. IsFiniteSet({"experience"} \cup {"education"})  BY <1>2, FS_AddElement
<1>4. IsFiniteSet(({"experience"} \cup {"education"}) \cup {"skills"})  BY <1>3, FS_AddElement
<1>5. IsFiniteSet((({"experience"} \cup {"education"}) \cup {"skills"}) \cup {"summary"})
  BY <1>4, FS_AddElement
<1>6. IsFiniteSet(((({"experience"} \cup {"education"}) \cup {"skills"}) \cup {"summary"}) \cup {"projects"})
  BY <1>5, FS_AddElement
<1>7. DOMAIN SectionPoints =
        ((({"experience"} \cup {"education"}) \cup {"skills"}) \cup {"summary"}) \cup {"projects"}
  BY <1>1
<1> QED  BY <1>6, <1>7

\* ATS scores are on the scale, whatever a resume holds.
LEMMA AtsOnScale ==
    ASSUME NEW found, NEW skills \in Nat, NEW email \in BOOLEAN, NEW phone \in BOOLEAN,
           NEW words \in Nat
    PROVE  Ats(found, skills, email, phone, words) \in 0 .. Full
<1> DEFINE S == found \cap DOMAIN SectionPoints
<1>1. SectionTotal(found) \in Nat
  <2>1. \A s \in S : SectionPoints[s] \in 0 .. 200  BY DEF SectionPoints
  <2>2. IsFiniteSet(S)  BY SectionsAreFinite, FS_Subset
  <2> HIDE DEF S
  <2>3. 200 \in Nat  OBVIOUS
  <2>4. SumFunctionOnSet(SectionPoints, S) \in Nat  BY <2>1, <2>2, <2>3, SumBetween
  <2> QED  BY <2>4 DEF SectionTotal, S
<1>2. ContactPoints(email, phone) \in Nat  BY DEF ContactPoints
<1>3. SkillPoints(skills) \in Nat
  BY Quotient DEF SkillPoints, Lower
<1>4. LengthPoints(words) \in Nat
  BY DEF LengthPoints, Lower, Positive
<1> DEFINE a == SectionTotal(found)
           b == ContactPoints(email, phone)
           c == SkillPoints(skills)
           d == LengthPoints(words)
<1>5. Ats(found, skills, email, phone, words) = Lower(Full, a + b + c + d)
  BY DEF Ats
<1>6. a \in Nat /\ b \in Nat /\ c \in Nat /\ d \in Nat  BY <1>1, <1>2, <1>3, <1>4
<1> HIDE DEF a, b, c, d
<1> QED  BY <1>5, <1>6 DEF Lower, Full

-----------------------------------------------------------------------------
\* A set of some of the first naturals has a greatest member.
LEMMA Greatest ==
    \A m \in Nat : \A S \in SUBSET (1 .. m) : S # {} => \E h \in S : \A g \in S : g <= h
<1> DEFINE Good == {m \in Nat : \A S \in SUBSET (1 .. m) :
                                 S # {} => \E h \in S : \A g \in S : g <= h}
<1>1. 0 \in Good
  <2>1. \A S \in SUBSET (1 .. 0) : S = {}  OBVIOUS
  <2> QED  BY <2>1
<1>2. ASSUME NEW m \in Nat, m \in Good PROVE m + 1 \in Good
  <2> SUFFICES ASSUME NEW S \in SUBSET (1 .. m + 1), S # {}
               PROVE  \E h \in S : \A g \in S : g <= h
    OBVIOUS
  <2>1. CASE m + 1 \in S
    <3>1. \A g \in S : g <= m + 1  OBVIOUS
    <3> QED  BY <2>1, <3>1
  <2>2. CASE m + 1 \notin S
    <3>1. S \in SUBSET (1 .. m)  BY <2>2
    <3> QED  BY <1>2, <3>1
  <2> QED  BY <2>1, <2>2
<1>3. \A m \in Nat : m \in Good
  <2> HIDE DEF Good
  <2> QED  BY <1>1, <1>2, NaturalsByStep
<1> QED  BY <1>3

\* Lines read so far keep their sections; the next one has that of the line read.
LEMMA SectionsStay ==
    ASSUME NEW lines \in Seq(Lines), NEW line \in Lines, NEW more, more = Append(lines, line)
    PROVE  /\ \A i \in 1 .. Len(lines) + 1 : SectionOf(more, i) = SectionOf(lines, i)
           /\ SectionOf(more, Len(lines) + 2) =
                IF line \in Sections THEN line ELSE SectionOf(lines, Len(lines) + 1)
<1> DEFINE n == Len(lines)
           H(i) == {h \in 1 .. i - 1 : lines[h] \in Sections}
           G(i) == {h \in 1 .. i - 1 : more[h] \in Sections}
           last(S) == CHOOSE h \in S : \A g \in S : g <= h
<1>1. n \in Nat /\ \A h \in 1 .. n : more[h] = lines[h]
  BY AppendProperties
<1>2. more[n + 1] = line  BY AppendProperties
<1>3. \A i : /\ SectionOf(lines, i) = IF H(i) = {} THEN "header" ELSE lines[last(H(i))]
             /\ SectionOf(more, i) = IF G(i) = {} THEN "header" ELSE more[last(G(i))]
  BY DEF SectionOf
<1>4. \A i \in 1 .. n + 1 : G(i) = H(i) /\ \A h \in H(i) : more[h] = lines[h]
  BY <1>1
<1>5. \A i \in Nat : H(i) # {} => last(H(i)) \in H(i)
  <2> TAKE i \in Nat
  <2> DEFINE S == H(i)
  <2>1. S \in SUBSET (1 .. i)  OBVIOUS
  <2> HIDE DEF S
  <2>2. S # {} => \E h \in S : \A g \in S : g <= h  BY <2>1, Greatest
  <2>3. S # {} => last(S) \in S  BY <2>2
  <2> QED  BY <2>3 DEF S
<1>6. \A i \in 1 .. n + 1 : SectionOf(more, i) = SectionOf(lines, i)
  <2> TAKE i \in 1 .. n + 1
  <2>1. G(i) = H(i) /\ \A h \in H(i) : more[h] = lines[h]  BY <1>4
  <2>2. i \in Nat  BY <1>1
  <2>3. H(i) # {} => last(H(i)) \in H(i)  BY <1>5, <2>2
  <2>4. H(i) # {} => more[last(G(i))] = lines[last(H(i))]
    <3>1. last(G(i)) = last(H(i))  BY <2>1
    <3> HIDE DEF H, G, last
    <3> QED  BY <2>1, <2>3, <3>1
  <2> HIDE DEF H, G, last
  <2> QED  BY <1>3, <2>1, <2>4
<1>7. n + 2 \in Nat /\ n + 1 \in Nat /\ n + 1 \in 1 .. n + 1 /\ n + 2 - 1 = n + 1 /\ n + 1 - 1 = n
  BY <1>1
<1>8. CASE line \in Sections
  <2>1. n + 1 \in G(n + 2) /\ \A g \in G(n + 2) : g <= n + 1
    BY <1>2, <1>7, <1>8
  <2>2. last(G(n + 2)) = n + 1
    <3> DEFINE S == G(n + 2)
    <3>1. S \subseteq Nat  BY <1>7
    <3> HIDE DEF S
    <3>2. n + 1 \in S /\ \A g \in S : g <= n + 1  BY <2>1 DEF S
    <3>3. last(S) \in S /\ \A g \in S : g <= last(S)  BY <3>2
    <3>4. last(S) \in Nat /\ last(S) <= n + 1 /\ n + 1 <= last(S)  BY <3>1, <3>2, <3>3
    <3>5. last(S) = n + 1  BY <1>7, <3>4
    <3> QED  BY <3>5 DEF S
  <2>3. SectionOf(more, n + 2) = line
    <3>1. G(n + 2) # {}  BY <2>1
    <3> HIDE DEF G, H, last
    <3> QED  BY <1>2, <1>3, <2>2, <3>1
  <2> QED  BY <1>6, <1>8, <2>3
<1>9. CASE line \notin Sections
  <2>1. G(n + 2) = G(n + 1)
    BY <1>1, <1>2, <1>7, <1>9
  <2>2. SectionOf(more, n + 2) = SectionOf(more, n + 1)
    <3> HIDE DEF G, H, last
    <3> QED  BY <1>3, <2>1
  <2>3. SectionOf(more, n + 1) = SectionOf(lines, n + 1)
    BY <1>6, <1>7
  <2> QED  BY <1>6, <1>9, <2>2, <2>3
<1> QED  BY <1>8, <1>9

-----------------------------------------------------------------------------
AllAnswered(answers) == answers # <<>> /\ \A i \in DOMAIN answers : FullyAnswered(answers[i])

KindsOf(answers) == {r.kind : r \in Range(answers)}

LEMMA AnsweredInRange ==
    \A answers : (\A r \in Range(answers) : FullyAnswered(r))
                   <=> \A i \in DOMAIN answers : FullyAnswered(answers[i])
  BY DEF Range

LEMMA RowsAreAnswers == \A answers \in Seq(Row) : answers \in Seq(Answer)
<1>1. Row \subseteq Answer  BY SignalsAssumption DEF Row, Answer
<1> QED  BY <1>1, SeqMonotonic

LEMMA NoneIsOffScale == None \notin 0 .. Full
<1>1. \A v \in 0 .. Full : v \in Nat  BY DEF Full
<1> QED  BY <1>1, NoneAssumption

\* A session whose rows are all answered and judged lacks no measure but those of
\* kinds that no row has.
LEMMA OnlyKindsAreUnmeasured ==
    ASSUME NEW answers \in Seq(Answer), AllAnswered(answers), ats \in 0 .. Full
    PROVE  /\ Unmeasured(Measured(answers)) = Kinds \ KindsOf(answers)
           /\ \A n \in Names : Measured(answers)[n] \in 0 .. Full \cup {None}
           /\ Unmeasured(Measured(answers)) = {} =>
                Measured(answers) \in [Names -> 0 .. Full]
<1> DEFINE s == Measured(answers)
<1>1. 1 \in DOMAIN answers
  <2>1. Len(answers) \in Nat \ {0}  BY EmptySeq DEF AllAnswered
  <2>2. DOMAIN answers = 1 .. Len(answers)  BY LenProperties
  <2> QED  BY <2>1, <2>2
<1>2. /\ DOMAIN s = Names /\ s = [n \in Names |-> s[n]]
      /\ s["resume"] = ats /\ s["communication"] = Communication(answers)
      /\ s["technical"] = KindMean(answers, "technical")
      /\ s["behavioral"] = KindMean(answers, "behavioral")
  BY DEF Measured, Names
<1>3. s["communication"] \in 0 .. Full
  <2>1. \E i \in DOMAIN answers : answers[i].take # None
    BY <1>1 DEF AllAnswered, FullyAnswered
  <2> QED  BY <1>2, <2>1, SpeechMeasures
<1>4. \A kind \in Kinds : IF kind \in KindsOf(answers) THEN s[kind] \in 0 .. Full
                          ELSE s[kind] = None
  <2> TAKE kind \in Kinds
  <2>1. s[kind] = KindMean(answers, kind)  BY <1>2 DEF Kinds
  <2>2. Judged(answers, kind) = {} <=> kind \notin KindsOf(answers)
    BY DEF Judged, KindsOf, Range, AllAnswered, FullyAnswered
  <2>3. IF Judged(answers, kind) = {} THEN KindMean(answers, kind) = None
        ELSE KindMean(answers, kind) \in 0 .. Full
    BY KindsMeasure
  <2> QED  BY <2>1, <2>2, <2>3
<1>5. Names = {"resume", "communication"} \cup Kinds  BY DEF Names, Kinds
<1> HIDE DEF s
<1>6. Unmeasured(s) = Kinds \ KindsOf(answers)
  <2>1. \A n \in Names : s[n] = None <=> n \in Kinds \ KindsOf(answers)
    <3> TAKE n \in Names
    <3>1. CASE n = "resume"
      <4>1. n \notin Kinds  BY <3>1 DEF Kinds
      <4> QED  BY <1>2, <3>1, <4>1, NoneIsOffScale
    <3>2. CASE n = "communication"
      <4>1. n \notin Kinds  BY <3>2 DEF Kinds
      <4> QED  BY <1>3, <3>2, <4>1, NoneIsOffScale
    <3>3. CASE n \in Kinds
      BY <1>4, <3>3, NoneIsOffScale
    <3> QED  BY <1>5, <3>1, <3>2, <3>3
  <2> QED  BY <1>5, <2>1 DEF Unmeasured
<1>7. \A n \in Names : s[n] \in 0 .. Full \cup {None}
  BY <1>2, <1>3, <1>4, <1>5
<1>8. Unmeasured(s) = {} => s \in [Names -> 0 .. Full]
  <2> SUFFICES ASSUME Unmeasured(s) = {} PROVE s \in [Names -> 0 .. Full]
    OBVIOUS
  <2>1. \A n \in Names : s[n] \in 0 .. Full  BY <1>7 DEF Unmeasured
  <2> QED  BY <1>2, <2>1
<1> QED  BY <1>6, <1>7, <1>8 DEF s

LEMMA CompositeOnScale == \A s \in [Names -> 0 .. Full] : Composite(s) \in 0 .. Full
<1> TAKE s \in [Names -> 0 .. Full]
<1>1. s \in [Names -> Int] /\ \A n \in Names : 0 <= s[n] /\ s[n] <= 1000
  BY DEF Full
<1>2. 0 <= Composite(s) /\ Composite(s) <= 1000
  BY <1>1, CompositeIsAMean
<1>3. Composite(s) \in Int
  <2> DEFINE a == Total([n \in Names |-> Weights[n] * s[n]])
             b == Total(Weights)
  <2>1. a \in Int
    <3>1. \A n \in Names : s[n] <= s[n]  BY <1>1
    <3> QED  BY <1>1, <3>1, Weighed
  <2>2. b \in Nat /\ b > 0  BY WeightsAdd
  <2>3. Composite(s) = a \div b  BY DEF Composite
  <2> HIDE DEF a, b
  <2> QED  BY <2>1, <2>2, <2>3
<1> HIDE DEF Composite
<1> QED  BY <1>2, <1>3 DEF Full

-----------------------------------------------------------------------------
\* A row may be replaced by another.
LEMMA RowsStayRows ==
    ASSUME NEW answers \in Seq(Row), NEW i \in DOMAIN answers, NEW row \in Row
    PROVE  /\ [answers EXCEPT ![i] = row] \in Seq(Row)
           /\ DOMAIN [answers EXCEPT ![i] = row] = DOMAIN answers
           /\ [answers EXCEPT ![i] = row] # <<>>
           /\ [answers EXCEPT ![i] = row][i] = row
<1>1. i \in 1 .. Len(answers) /\ DOMAIN answers = 1 .. Len(answers) /\ Len(answers) \in Nat
  BY LenProperties
<1> DEFINE more == [answers EXCEPT ![i] = row]
<1>2. more \in Seq(Row) /\ Len(more) = Len(answers)  BY <1>1, ExceptSeq
<1>3. Len(more) # 0  BY <1>1, <1>2
<1>4. more # <<>>  BY <1>3, EmptySeq
<1> QED  BY <1>2, <1>4

LEMMA SignalsStart == Init => SignalsInv /\ SectionsHoldTheirLines /\ RefusedForKindsOnly
<1> SUFFICES ASSUME Init PROVE SignalsInv /\ SectionsHoldTheirLines /\ RefusedForKindsOnly
  OBVIOUS
<1>1. read = <<>> /\ rows = <<>> /\ ats = None /\ composite = None /\ missing = {}
      /\ current = "header" /\ bodies = [s \in Sections \cup {"header"} |-> 0]
  BY DEF Init
<1>2. Len(read) = 0 /\ DOMAIN read = {}  BY <1>1
<1>3. current = SectionOf(read, Len(read) + 1)  BY <1>1, <1>2 DEF SectionOf
<1>4. read \in Seq(Lines) /\ rows \in Seq(Row)  BY <1>1
<1>5. SignalsInv  BY <1>1, <1>3, <1>4 DEF SignalsInv
<1>6. SectionsHoldTheirLines
  <2> SUFFICES ASSUME NEW s \in DOMAIN bodies PROVE bodies[s] = Cardinality(Filed(read, s))
    BY DEF SectionsHoldTheirLines
  <2>1. Filed(read, s) = {}  BY <1>2 DEF Filed
  <2> QED  BY <1>1, <2>1, FS_EmptySet
<1>7. RefusedForKindsOnly  BY <1>1 DEF RefusedForKindsOnly
<1> QED  BY <1>5, <1>6, <1>7

LEMMA ReadLineStep ==
    ASSUME SignalsInv, SectionsHoldTheirLines, NEW line \in Lines, ReadLine(line)
    PROVE  /\ read' \in Seq(Lines) /\ current' = SectionOf(read', Len(read') + 1)
           /\ DOMAIN bodies' = DOMAIN bodies /\ SectionsHoldTheirLines'
<1> DEFINE n == Len(read)
<1>1. /\ read \in Seq(Lines) /\ read' = Append(read, line)
      /\ current = SectionOf(read, n + 1)
  BY DEF SignalsInv, ReadLine
<1>2. /\ n \in Nat /\ DOMAIN read = 1 .. n /\ read' \in Seq(Lines) /\ Len(read') = n + 1
      /\ DOMAIN read' = 1 .. n + 1 /\ \A i \in 1 .. n : read'[i] = read[i]
      /\ read'[n + 1] = line
  BY <1>1, LenProperties, AppendProperties
<1>3. \A i \in 1 .. n + 1 : SectionOf(read', i) = SectionOf(read, i)
  BY <1>1, SectionsStay
<1>4. SectionOf(read', n + 2) = IF line \in Sections THEN line ELSE current
  BY <1>1, SectionsStay
<1>5. current' = SectionOf(read', Len(read') + 1)
  <2>1. "text" \notin Sections /\ "blank" \notin Sections  BY DEF Sections, SectionPoints
  <2>2. Len(read') + 1 = n + 2  BY <1>2
  <2>3. current' = IF line \in Sections THEN line ELSE current
    BY <2>1 DEF ReadLine
  <2> QED  BY <1>4, <2>2, <2>3
<1>6. DOMAIN bodies' = DOMAIN bodies  BY DEF ReadLine
<1>7. ASSUME NEW s \in DOMAIN bodies PROVE bodies'[s] = Cardinality(Filed(read', s))
  <2>1. bodies[s] = Cardinality(Filed(read, s))  BY DEF SectionsHoldTheirLines
  <2>2. n + 1 \in 1 .. n + 1 /\ n + 1 \notin 1 .. n /\ 1 .. n + 1 = 1 .. n \cup {n + 1}
    BY <1>2
  <2>3. \A i \in 1 .. n : i \in Filed(read', s) <=> i \in Filed(read, s)
    BY <1>2, <1>3 DEF Filed
  <2>4. n + 1 \in Filed(read', s) <=> line = "text" /\ current = s
    BY <1>1, <1>2, <1>3, <2>2 DEF Filed
  <2>5. Filed(read, s) \subseteq 1 .. n /\ Filed(read', s) \subseteq 1 .. n + 1
    BY <1>2 DEF Filed
  <2>6. IsFiniteSet(Filed(read, s))
    <3>1. IsFiniteSet(1 .. n)  BY <1>2, FS_Interval
    <3> HIDE DEF n
    <3> QED  BY <2>5, <3>1, FS_Subset
  <2>7. CASE line = "text" /\ current = s
    <3>1. Filed(read', s) = Filed(read, s) \cup {n + 1} /\ n + 1 \notin Filed(read, s)
      BY <2>2, <2>3, <2>4, <2>5, <2>7
    <3>2. Cardinality(Filed(read', s)) = Cardinality(Filed(read, s)) + 1
      BY <2>6, <3>1, FS_AddElement
    <3>3. "text" \notin Sections  BY DEF Sections, SectionPoints
    <3>4. bodies'[s] = bodies[s] + 1  BY <2>7, <3>3 DEF ReadLine
    <3> QED  BY <2>1, <3>2, <3>4
  <2>8. CASE ~(line = "text" /\ current = s)
    <3>1. Filed(read', s) = Filed(read, s)
      BY <2>2, <2>3, <2>4, <2>5, <2>8
    <3>2. bodies'[s] = bodies[s]  BY <2>8 DEF ReadLine
    <3> QED  BY <2>1, <3>1, <3>2
  <2> QED  BY <2>7, <2>8
<1>8. SectionsHoldTheirLines'
  BY <1>6, <1>7 DEF SectionsHoldTheirLines
<1> QED  BY <1>2, <1>5, <1>6, <1>8

LEMMA ScoreResumeStep ==
    ASSUME SignalsInv, ScoreResume
    PROVE  /\ read' \in Seq(Lines) /\ current' = SectionOf(read', Len(read') + 1)
           /\ DOMAIN bodies' = DOMAIN bodies /\ SectionsHoldTheirLines'
           /\ ats' \in 0 .. Full
<1>1. read' = <<>> /\ current' = "header" /\ bodies' = [s \in DOMAIN bodies |-> 0]
  BY DEF ScoreResume
<1>2. Len(read') = 0 /\ DOMAIN read' = {}  BY <1>1
<1>3. current' = SectionOf(read', Len(read') + 1)  BY <1>1, <1>2 DEF SectionOf
<1>4. SectionsHoldTheirLines'
  <2> SUFFICES ASSUME NEW s \in DOMAIN bodies' PROVE bodies'[s] = Cardinality(Filed(read', s))
    BY DEF SectionsHoldTheirLines
  <2>1. Filed(read', s) = {}  BY <1>2 DEF Filed
  <2> QED  BY <1>1, <2>1, FS_EmptySet
<1>5. ats' \in 0 .. Full
  <2>1. PICK skills \in Skills, email \in BOOLEAN, phone \in BOOLEAN, words \in WordCounts :
          ats' = Ats({s \in Sections : bodies[s] > 0}, skills, email, phone, words)
    BY DEF ScoreResume
  <2>2. skills \in Nat /\ words \in Nat  BY SignalsAssumption
  <2> QED  BY <2>1, <2>2, AtsOnScale
<1> QED  BY <1>1, <1>3, <1>4, <1>5

\* The composite and the refusal, which only the last judgement of a session sets.
Scored ==
    /\ composite # None =>
         /\ AllAnswered(rows)
         /\ Unmeasured(Measured(rows)) = {}
         /\ composite = Composite(Measured(rows))
    /\ RefusedForKindsOnly

\* The same, by the rows' indices.
Refused ==
    missing = IF composite # None \/ ~AllAnswered(rows) THEN {} ELSE Kinds \ KindsOf(rows)

LEMMA RefusedIs == RefusedForKindsOnly <=> Refused
<1>1. (\A r \in Range(rows) : FullyAnswered(r)) <=> \A i \in DOMAIN rows : FullyAnswered(rows[i])
  BY AnsweredInRange
<1> QED  BY <1>1 DEF RefusedForKindsOnly, Refused, AllAnswered, KindsOf

LEMMA ScoredIs ==
    SignalsInv /\ RefusedForKindsOnly <=>
      /\ read \in Seq(Lines) /\ current = SectionOf(read, Len(read) + 1)
      /\ DOMAIN bodies = Sections \cup {"header"}
      /\ ats \in 0 .. Full \cup {None}
      /\ rows \in Seq(Row) /\ (rows # <<>> => ats # None)
      /\ Scored
<1>1. (\A r \in Range(rows) : FullyAnswered(r)) <=> \A i \in DOMAIN rows : FullyAnswered(rows[i])
  BY AnsweredInRange
<1> QED  BY <1>1 DEF SignalsInv, Scored, AllAnswered

\* A session that has not been answered throughout has neither.
LEMMA NotYetScored ==
    ASSUME SignalsInv, RefusedForKindsOnly, ~AllAnswered(rows)
    PROVE  composite = None /\ missing = {}
<1>1. Scored  BY ScoredIs
<1>2. composite = None  BY <1>1 DEF Scored
<1> QED  BY <1>2, RefusedIs DEF Refused

LEMMA StillNotScored ==
    ASSUME SignalsInv, RefusedForKindsOnly, ~AllAnswered(rows), ~AllAnswered(rows)',
           missing' = missing, composite' = composite
    PROVE  Scored'
<1>1. composite' = None /\ missing' = {}  BY NotYetScored
<1>2. RefusedForKindsOnly'
  <2>1. RefusedForKindsOnly' <=> Refused'  BY RefusedIs, PTL
  <2> QED  BY <1>1, <2>1 DEF Refused
<1> QED  BY <1>1, <1>2 DEF Scored

LEMMA NothingAnswered == \A answers : answers = <<>> => ~AllAnswered(answers)
  BY DEF AllAnswered

LEMMA StartStep ==
    ASSUME SignalsInv, RefusedForKindsOnly, NEW plan \in Plans, Start(plan)
    PROVE  rows' \in Seq(Row) /\ ats' # None /\ Scored'
<1>1. plan \in Seq(Kinds) /\ plan # <<>>  BY SignalsAssumption
<1>2. /\ rows = <<>> /\ ats \in StartScores
      /\ rows' = [i \in DOMAIN plan |-> NewRow(plan[i], FALSE)]
      /\ ats' = ats /\ missing' = missing /\ composite' = composite
  BY DEF Start
<1>3. Len(plan) \in Nat /\ Len(plan) # 0 /\ DOMAIN plan = 1 .. Len(plan)
  BY <1>1, LenProperties, EmptySeq
<1>4. \A i \in 1 .. Len(plan) : NewRow(plan[i], FALSE) \in Row
  BY <1>1, ElementOfSeq DEF NewRow, Row
<1>5. rows' \in [1 .. Len(plan) -> Row]
  BY <1>2, <1>3, <1>4
<1>6. rows' \in Seq(Row)
  <2>1. Seq(Row) = UNION {[1 .. n -> Row] : n \in Nat}  BY SeqDef
  <2> QED  BY <1>3, <1>5, <2>1
<1>7. ~AllAnswered(rows')
  <2>1. 1 \in DOMAIN rows' /\ rows'[1].take = None  BY <1>2, <1>3 DEF NewRow
  <2> QED  BY <2>1 DEF AllAnswered, FullyAnswered
<1>8. Scored'  BY <1>2, <1>7, NothingAnswered, StillNotScored
<1>9. ats # None
  <2>1. ats \in Nat  BY <1>2, SignalsAssumption DEF Full
  <2> QED  BY <2>1, NoneAssumption
<1> QED  BY <1>2, <1>6, <1>8, <1>9

LEMMA SpeakStep ==
    ASSUME SignalsInv, RefusedForKindsOnly, NEW i \in DOMAIN rows, NEW take \in Takes,
           Speak(i, take)
    PROVE  rows' \in Seq(Row) /\ Scored'
<1> DEFINE row == [rows[i] EXCEPT !.take = take]
<1>1. rows \in Seq(Row)  BY DEF SignalsInv
<1>2. rows[i] \in Row /\ rows[i].mark = None  BY <1>1, LenProperties, ElementOfSeq DEF Speak
<1>3. row \in Row /\ row.mark = None  BY <1>2 DEF Row
<1>4. rows' = [rows EXCEPT ![i] = row] /\ missing' = missing /\ composite' = composite
  BY DEF Speak
<1> HIDE DEF row
<1>5. rows' \in Seq(Row) /\ DOMAIN rows' = DOMAIN rows /\ rows'[i] = row
  BY <1>1, <1>3, <1>4, RowsStayRows
<1>6. ~AllAnswered(rows)  BY <1>2 DEF AllAnswered, FullyAnswered
<1>7. ~AllAnswered(rows')  BY <1>3, <1>5 DEF AllAnswered, FullyAnswered
<1> QED  BY <1>4, <1>5, <1>6, <1>7, StillNotScored

LEMMA JudgeStep ==
    ASSUME SignalsInv, RefusedForKindsOnly, NEW i \in DOMAIN rows, NEW mark \in Marks,
           Judge(i, mark)
    PROVE  rows' \in Seq(Row) /\ Scored'
<1> DEFINE row == [rows[i] EXCEPT !.mark = mark]
           judged == [rows EXCEPT ![i] = row]
<1>1. rows \in Seq(Row)  BY DEF SignalsInv
<1>2. rows[i] \in Row /\ rows[i].mark = None  BY <1>1, LenProperties, ElementOfSeq DEF Judge
<1>3. row \in Row  BY <1>2 DEF Row
<1>4. judged = [rows EXCEPT ![i].mark = mark]  OBVIOUS
<1>5. judged \in Seq(Row) /\ DOMAIN judged = DOMAIN rows /\ judged # <<>>
  BY <1>1, <1>3, RowsStayRows
<1>6. ~AllAnswered(rows)  BY <1>2 DEF AllAnswered, FullyAnswered
<1>7. ats' = ats  BY DEF Judge
<1>8. CASE mark <= 2 /\ ~rows[i].followUp
  <2>1. missing' = missing /\ composite' = composite  BY <1>8 DEF Judge
  <2>2. PICK kind \in Kinds : rows' = Append(judged, NewRow(kind, TRUE))
    BY <1>4, <1>8 DEF Judge
  <2> DEFINE new == NewRow(kind, TRUE)
  <2>3. new \in Row /\ new.take = None  BY DEF NewRow, Row
  <2> HIDE DEF judged, new
  <2>4. rows' \in Seq(Row) /\ Len(rows') = Len(judged) + 1 /\ rows'[Len(judged) + 1] = new
    BY <1>5, <2>2, <2>3, AppendProperties DEF new
  <2>5. Len(judged) + 1 \in DOMAIN rows'
    BY <1>5, <2>4, LenProperties
  <2>6. ~AllAnswered(rows')  BY <2>3, <2>4, <2>5 DEF AllAnswered, FullyAnswered
  <2> QED  BY <1>6, <2>1, <2>4, <2>6, StillNotScored
<1>9. CASE ~(mark <= 2 /\ ~rows[i].followUp)
  <2>1. /\ rows' = judged
        /\ IF \A r \in Range(judged) : FullyAnswered(r)
           THEN Aggregate(judged) ELSE UNCHANGED <<missing, composite>>
    BY <1>4, <1>9 DEF Judge
  <2> HIDE DEF judged
  <2>2. (\A r \in Range(judged) : FullyAnswered(r)) <=> AllAnswered(judged)
    BY <1>5, AnsweredInRange DEF AllAnswered
  <2>3. CASE ~AllAnswered(judged)
    <3>1. missing' = missing /\ composite' = composite  BY <2>1, <2>2, <2>3
    <3>2. ~AllAnswered(rows')  BY <2>1, <2>3
    <3> QED  BY <1>5, <1>6, <2>1, <3>1, <3>2, StillNotScored
  <2>4. CASE AllAnswered(judged)
    <3>1. Aggregate(judged)  BY <2>1, <2>2, <2>4
    <3>2. ats \in 0 .. Full
      <4>1. rows # <<>>
        <5>1. DOMAIN rows # {}  OBVIOUS
        <5> QED  BY <5>1
      <4> QED  BY <4>1 DEF SignalsInv
    <3>3. judged \in Seq(Answer)  BY <1>5, RowsAreAnswers
    <3>4. /\ Unmeasured(Measured(judged)) = Kinds \ KindsOf(judged)
          /\ Unmeasured(Measured(judged)) = {} => Measured(judged) \in [Names -> 0 .. Full]
      BY <2>4, <3>2, <3>3, OnlyKindsAreUnmeasured
    <3>5. composite = None  BY <1>6, NotYetScored
    <3>6. Measured(rows)' = Measured(judged)  BY <1>7, <2>1 DEF Measured
    <3>7. RefusedForKindsOnly' <=> Refused'  BY RefusedIs, PTL
    <3>8. AllAnswered(rows') /\ KindsOf(rows') = KindsOf(judged)  BY <2>1, <2>4
    <3>9. CASE Unmeasured(Measured(judged)) = {}
      <4>1. composite' = Composite(Measured(judged)) /\ missing' = {}
        BY <3>1, <3>9 DEF Aggregate
      <4>2. Composite(Measured(judged)) \in 0 .. Full  BY <3>4, <3>9, CompositeOnScale
      <4>3. composite' # None  BY <4>1, <4>2, NoneIsOffScale
      <4>4. RefusedForKindsOnly'  BY <3>7, <4>1, <4>3 DEF Refused
      <4>5. Unmeasured(Measured(rows))' = {} /\ Composite(Measured(rows))' = Composite(Measured(judged))
        BY <3>6, <3>9 DEF Unmeasured, Composite
      <4> QED  BY <1>5, <2>1, <3>8, <4>1, <4>4, <4>5 DEF Scored
    <3>10. CASE Unmeasured(Measured(judged)) # {}
      <4>1. missing' = Unmeasured(Measured(judged)) /\ composite' = None
        BY <3>1, <3>5, <3>10 DEF Aggregate
      <4>2. RefusedForKindsOnly'
        <5>1. missing' = Kinds \ KindsOf(rows')  BY <3>4, <3>8, <4>1
        <5> QED  BY <3>7, <3>8, <4>1, <5>1 DEF Refused
      <4> QED  BY <1>5, <2>1, <4>1, <4>2 DEF Scored
    <3> QED  BY <3>9, <3>10
  <2> QED  BY <2>3, <2>4
<1> QED  BY <1>8, <1>9

-----------------------------------------------------------------------------
\* The inductive invariant: SignalsInv with the two properties that every step
\* has to keep; the other three follow from it in each state.
SignalsKept == SignalsInv /\ SectionsHoldTheirLines /\ RefusedForKindsOnly

\* Its parts, by the steps that disturb them: reading a resume, and the rows.
Parsed ==
    /\ read \in Seq(Lines) /\ current = SectionOf(read, Len(read) + 1)
    /\ DOMAIN bodies = Sections \cup {"header"}

Sat ==
    /\ ats \in 0 .. Full \cup {None}
    /\ rows \in Seq(Row) /\ (rows # <<>> => ats # None)

LEMMA KeptIs ==
    SignalsKept <=> Parsed /\ Sat /\ Scored /\ SectionsHoldTheirLines
  BY ScoredIs DEF SignalsKept, Parsed, Sat

LEMMA ParsedStays ==
    ASSUME Parsed, SectionsHoldTheirLines, UNCHANGED <<read, current, bodies>>
    PROVE  Parsed' /\ SectionsHoldTheirLines'
<1>1. Parsed'  BY DEF Parsed
<1>2. SectionsHoldTheirLines'  BY DEF SectionsHoldTheirLines
<1> QED  BY <1>1, <1>2

\* While a resume is read there are no rows.
LEMMA NoRowsYet ==
    ASSUME SignalsKept, ats = None, UNCHANGED <<rows, missing, composite>>, ats' \in 0 .. Full \cup {None}
    PROVE  Sat' /\ Scored'
<1>1. rows = <<>> /\ rows' = <<>>  BY DEF SignalsKept, SignalsInv
<1>2. Sat'  BY <1>1 DEF Sat
<1>3. Scored'  BY <1>1, NothingAnswered, StillNotScored DEF SignalsKept
<1> QED  BY <1>2, <1>3

LEMMA ScoredStays ==
    ASSUME Scored, UNCHANGED vars
    PROVE  Scored'
<1>1. Measured(rows)' = Measured(rows)  BY DEF vars, Measured
<1>2. RefusedForKindsOnly'  BY DEF Scored, RefusedForKindsOnly, vars
<1>3. composite' = composite /\ rows' = rows  BY DEF vars
<1>4. Unmeasured(Measured(rows))' = Unmeasured(Measured(rows))  BY <1>1 DEF Unmeasured
<1>5. Composite(Measured(rows))' = Composite(Measured(rows))  BY <1>1 DEF Composite
<1> QED  BY <1>2, <1>3, <1>4, <1>5 DEF Scored

LEMMA SignalsStep == SignalsKept /\ [Next]_vars => SignalsKept'
<1> SUFFICES ASSUME SignalsKept, [Next]_vars PROVE SignalsKept'
  OBVIOUS
<1> DEFINE Goal == Parsed' /\ Sat' /\ Scored' /\ SectionsHoldTheirLines'
<1>0. /\ Parsed /\ Sat /\ Scored /\ SectionsHoldTheirLines
      /\ SignalsInv /\ RefusedForKindsOnly
  BY KeptIs DEF SignalsKept
<1>1. ASSUME NEW line \in Lines, ReadLine(line) PROVE Goal
  <2>1. Parsed' /\ SectionsHoldTheirLines'
    <3>1. /\ read' \in Seq(Lines) /\ current' = SectionOf(read', Len(read') + 1)
          /\ DOMAIN bodies' = DOMAIN bodies /\ SectionsHoldTheirLines'
      BY <1>0, <1>1, ReadLineStep
    <3> QED  BY <1>0, <3>1 DEF Parsed
  <2>2. Sat' /\ Scored'
    <3>1. ats = None /\ UNCHANGED <<ats, rows, missing, composite>>  BY <1>1 DEF ReadLine
    <3> QED  BY <3>1, NoRowsYet
  <2> QED  BY <2>1, <2>2
<1>2. ASSUME ScoreResume PROVE Goal
  <2>1. /\ read' \in Seq(Lines) /\ current' = SectionOf(read', Len(read') + 1)
        /\ DOMAIN bodies' = DOMAIN bodies /\ SectionsHoldTheirLines'
        /\ ats' \in 0 .. Full
    BY <1>0, <1>2, ScoreResumeStep
  <2>2. Parsed'  BY <1>0, <2>1 DEF Parsed
  <2>3. ats = None /\ UNCHANGED <<rows, missing, composite>>  BY <1>2 DEF ScoreResume
  <2>4. Sat' /\ Scored'  BY <2>1, <2>3, NoRowsYet
  <2> QED  BY <2>1, <2>2, <2>4
<1>3. ASSUME NEW plan \in Plans, Start(plan) PROVE Goal
  <2>1. UNCHANGED <<read, current, bodies, ats>>  BY <1>3 DEF Start
  <2>2. Parsed' /\ SectionsHoldTheirLines'  BY <1>0, <2>1, ParsedStays
  <2>3. rows' \in Seq(Row) /\ ats' # None /\ Scored'  BY <1>0, <1>3, StartStep
  <2> QED  BY <1>0, <2>1, <2>2, <2>3 DEF Sat
<1>4. ASSUME NEW i \in DOMAIN rows, NEW take \in Takes, Speak(i, take) PROVE Goal
  <2>1. UNCHANGED <<read, current, bodies, ats>>  BY <1>4 DEF Speak
  <2>2. Parsed' /\ SectionsHoldTheirLines'  BY <1>0, <2>1, ParsedStays
  <2>3. rows' \in Seq(Row) /\ Scored'  BY <1>0, <1>4, SpeakStep
  <2>4. rows # <<>>
    <3>1. DOMAIN rows # {}  OBVIOUS
    <3> QED  BY <3>1
  <2> QED  BY <1>0, <2>1, <2>2, <2>3, <2>4 DEF Sat
<1>5. ASSUME NEW i \in DOMAIN rows, NEW mark \in Marks, Judge(i, mark) PROVE Goal
  <2>1. UNCHANGED <<read, current, bodies, ats>>  BY <1>5 DEF Judge
  <2>2. Parsed' /\ SectionsHoldTheirLines'  BY <1>0, <2>1, ParsedStays
  <2>3. rows' \in Seq(Row) /\ Scored'  BY <1>0, <1>5, JudgeStep
  <2>4. rows # <<>>
    <3>1. DOMAIN rows # {}  OBVIOUS
    <3> QED  BY <3>1
  <2> QED  BY <1>0, <2>1, <2>2, <2>3, <2>4 DEF Sat
<1>6. ASSUME UNCHANGED vars PROVE Goal
  <2>1. Parsed' /\ SectionsHoldTheirLines'  BY <1>0, <1>6, ParsedStays DEF vars
  <2>2. Sat'  BY <1>0, <1>6 DEF Sat, vars
  <2>3. Scored'  BY <1>0, <1>6, ScoredStays
  <2> QED  BY <2>1, <2>2, <2>3
<1>7. Goal
  <2> HIDE DEF Goal
  <2> QED  BY <1>1, <1>2, <1>3, <1>4, <1>5, <1>6 DEF Next
<1> QED  BY <1>7, KeptIs, PTL

\* Whatever is read, said and judged, in any order, the invariant holds.
THEOREM SignalsInvariance == Spec => []SignalsKept
<1>1. Init => SignalsKept  BY SignalsStart DEF SignalsKept
<1> QED  BY <1>1, SignalsStep, PTL DEF Spec

\* split_into_sections loses no line and files none twice (ml/resume/parse.py:109).
THEOREM SectionsKeepTheirLines == Spec => []SectionsHoldTheirLines
<1>1. SignalsKept => SectionsHoldTheirLines  BY DEF SignalsKept
<1> QED  BY <1>1, SignalsInvariance, PTL

\* _upsert_completed_score refuses a session whose rows are all answered only for a
\* kind that none of its questions has.
THEOREM RefusedForKindsAlone == Spec => []RefusedForKindsOnly
<1>1. SignalsKept => RefusedForKindsOnly  BY DEF SignalsKept
<1> QED  BY <1>1, SignalsInvariance, PTL

\* pauses_between_segments and fluency_from_vad agree on every take, and no arm
\* pauses for longer than its span.
THEOREM PausesAgreed == Spec => []PausesAgree
<1>1. SignalsKept => PausesAgree
  <2> SUFFICES ASSUME SignalsKept, NEW r \in Range(rows), r.take # None PROVE PausesOf(r.take)
    BY DEF PausesAgree
  <2>1. rows \in Seq(Row)  BY DEF SignalsKept, SignalsInv
  <2>2. r \in Row  BY <2>1, LenProperties, ElementOfSeq DEF Range
  <2>3. r.take \in Takes  BY <2>2 DEF Row
  <2> QED  BY <2>3, TakesPause
<1> QED  BY <1>1, SignalsInvariance, PTL

\* What a composite is of.
LEMMA CompositeIsOfMeasures ==
    ASSUME SignalsKept, composite # None
    PROVE  /\ rows \in Seq(Answer) /\ AllAnswered(rows) /\ ats \in 0 .. Full
           /\ Measured(rows) \in [Names -> 0 .. Full]
           /\ composite = Composite(Measured(rows)) /\ composite \in 0 .. Full
<1>1. /\ AllAnswered(rows) /\ Unmeasured(Measured(rows)) = {}
      /\ composite = Composite(Measured(rows))
  BY KeptIs DEF Scored
<1>2. rows \in Seq(Row) /\ ats \in 0 .. Full
  BY <1>1, KeptIs DEF Sat, AllAnswered
<1>3. rows \in Seq(Answer)  BY <1>2, RowsAreAnswers
<1>4. Measured(rows) \in [Names -> 0 .. Full]  BY <1>1, <1>2, <1>3, OnlyKindsAreUnmeasured
<1> QED  BY <1>1, <1>2, <1>3, <1>4, CompositeOnScale

\* aggregate_session lets no composite leave the range of its four signals.
THEOREM CompositesAreBetween == Spec => []CompositeIsBetween
<1>1. SignalsKept => CompositeIsBetween
  <2> SUFFICES ASSUME SignalsKept, composite # None
               PROVE  /\ Range(Measured(rows)) \subseteq 0 .. Full
                      /\ \E v \in Range(Measured(rows)) : v <= composite
                      /\ \E v \in Range(Measured(rows)) : v >= composite
    BY DEF CompositeIsBetween
  <2> DEFINE s == Measured(rows)
  <2>1. s \in [Names -> 0 .. Full] /\ composite = Composite(s) /\ composite \in 0 .. Full
    BY CompositeIsOfMeasures
  <2> HIDE DEF s
  <2>2. \A n \in Names : s[n] \in Range(s) /\ s[n] \in Int  BY <2>1 DEF Range, Full
  <2>3. composite \in Int  BY <2>1 DEF Full
  <2>4. Range(s) \subseteq 0 .. Full  BY <2>1 DEF Range
  <2>5. s \in [Names -> Int]  BY <2>1 DEF Full
  <2>6. ASSUME \A n \in Names : ~(s[n] <= composite) PROVE FALSE
    <3>1. \A n \in Names : composite + 1 <= s[n] /\ s[n] <= 1000
      BY <2>1, <2>2, <2>3, <2>6 DEF Full
    <3>2. composite + 1 \in Int  BY <2>3
    <3>3. composite + 1 <= Composite(s)  BY <2>5, <3>1, <3>2, CompositeIsAMean
    <3> HIDE DEF Composite
    <3> QED  BY <2>1, <2>3, <3>3
  <2>7. ASSUME \A n \in Names : ~(s[n] >= composite) PROVE FALSE
    <3>1. \A n \in Names : 0 <= s[n] /\ s[n] <= composite - 1
      BY <2>1, <2>2, <2>3, <2>7 DEF Full
    <3>2. composite - 1 \in Int  BY <2>3
    <3>3. Composite(s) <= composite - 1  BY <2>5, <3>1, <3>2, CompositeIsAMean
    <3> HIDE DEF Composite
    <3> QED  BY <2>1, <2>3, <3>3
  <2> QED  BY <2>2, <2>4, <2>6, <2>7 DEF s
<1> QED  BY <1>1, SignalsInvariance, PTL

\* A better mark on any one answer never lowers a composite.
THEOREM BetterIsNeverLower == Spec => []BetterNeverLower
<1>1. SignalsKept => BetterNeverLower
  <2> SUFFICES ASSUME SignalsKept, composite # None, NEW i \in DOMAIN rows, rows[i].mark < 5
               PROVE  Composite(Measured([rows EXCEPT ![i].mark = @ + 1])) >= composite
    BY DEF BetterNeverLower
  <2> DEFINE row == [rows[i] EXCEPT !.mark = rows[i].mark + 1]
             better == [rows EXCEPT ![i] = row]
             s == Measured(rows)
             t == Measured(better)
  <2>1. /\ rows \in Seq(Answer) /\ AllAnswered(rows) /\ ats \in 0 .. Full
        /\ s \in [Names -> 0 .. Full] /\ composite = Composite(s) /\ composite \in 0 .. Full
    BY CompositeIsOfMeasures
  <2>2. better = [rows EXCEPT ![i].mark = @ + 1]  OBVIOUS
  <2>3. rows[i] \in Answer /\ rows[i].mark \in 0 .. 5
    BY <2>1, AnswersAreTyped DEF AllAnswered, FullyAnswered, Answer
  <2>4. row \in Answer /\ row.mark = rows[i].mark + 1 /\ row.kind = rows[i].kind
        /\ row.take = rows[i].take
    BY <2>3 DEF Answer
  <2>5. better \in Seq(Answer)
    <3>1. i \in 1 .. Len(rows)  BY <2>1, LenProperties
    <3> HIDE DEF row
    <3> QED  BY <2>1, <2>4, <3>1, ExceptSeq
  <2>6. Raises(better, rows, i)
    <3> HIDE DEF row
    <3> QED  BY <2>4 DEF Raises
  <2>7. rows[i].mark \in Nat  BY <2>3
  <2> HIDE DEF row, better
  <2>8. \A kind : /\ KindMean(rows, kind) = None <=> KindMean(better, kind) = None
                  /\ KindMean(rows, kind) # None => KindMean(rows, kind) <= KindMean(better, kind)
    BY <2>1, <2>5, <2>6, <2>7, KindMeanRises
  <2>9. Communication(better) = Communication(rows)
    BY <2>1, <2>5, <2>6, SpeechStays
  <2>10. /\ s["resume"] = ats /\ s["communication"] = Communication(rows)
         /\ s["technical"] = KindMean(rows, "technical")
         /\ s["behavioral"] = KindMean(rows, "behavioral")
         /\ t["resume"] = ats /\ t["communication"] = Communication(better)
         /\ t["technical"] = KindMean(better, "technical")
         /\ t["behavioral"] = KindMean(better, "behavioral")
         /\ t = [n \in Names |-> t[n]]
    BY DEF Measured, Names
  <2> HIDE DEF s, t
  <2>11. \A n \in Names : s[n] \in 0 .. Full /\ s[n] # None  BY <2>1, NoneIsOffScale
  <2>12. \A n \in Names : t[n] \in Int /\ s[n] <= t[n]
    <3>1. \A kind : KindMean(better, kind) \in 0 .. Full \/ KindMean(better, kind) = None
      BY <2>5, KindsMeasure
    <3>2. \A n \in Names : s[n] \in Int  BY <2>11 DEF Full
    <3>3. t["resume"] = s["resume"] /\ t["communication"] = s["communication"]
      BY <2>9, <2>10
    <3>4. \A n \in {"technical", "behavioral"} : t[n] \in 0 .. Full /\ s[n] <= t[n]
      <4> TAKE n \in {"technical", "behavioral"}
      <4>1. s[n] = KindMean(rows, n) /\ t[n] = KindMean(better, n) /\ n \in Names
        BY <2>10 DEF Names
      <4> QED  BY <2>8, <2>11, <3>1, <4>1
    <3>5. \A v \in 0 .. Full : v \in Int  BY DEF Full
    <3>6. \A n \in Names : n \in {"resume", "communication"} \/ n \in {"technical", "behavioral"}
      BY DEF Names
    <3> QED  BY <3>2, <3>3, <3>4, <3>5, <3>6
  <2>13. s \in [Names -> Int] /\ t \in [Names -> Int]
    <3>1. s \in [Names -> Int]
      <4>1. s \in [Names -> 0 .. Full]  BY <2>1
      <4>2. \A v \in 0 .. Full : v \in Int  BY DEF Full
      <4> QED  BY <4>1, <4>2
    <3> QED  BY <2>10, <2>12, <3>1
  <2>14. Composite(s) <= Composite(t)  BY <2>12, <2>13, CompositeIsMonotone
  <2>15. Composite(t) \in Int
    <3> DEFINE a == Total([n \in Names |-> Weights[n] * t[n]])
               b == Total(Weights)
    <3>0. \A n \in Names : t[n] <= t[n]  BY <2>12
    <3>1. a \in Int  BY <2>13, <3>0, Weighed
    <3>2. b \in Nat /\ b > 0  BY WeightsAdd
    <3>3. Composite(t) = a \div b  BY DEF Composite
    <3> HIDE DEF a, b
    <3> QED  BY <3>1, <3>2, <3>3
  <2>16. Composite(s) \in Int  BY <2>1 DEF Full
  <2>17. Composite(t) >= composite
    <3> HIDE DEF Composite
    <3> QED  BY <2>1, <2>14, <2>15, <2>16
  <2> QED  BY <2>2, <2>17 DEF t
<1> QED  BY <1>1, SignalsInvariance, PTL
=============================================================================
