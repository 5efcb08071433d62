---------------------------- MODULE SeriesProofs ----------------------------
(***************************************************************************)
(* Proofs about Series, for any instants, values, window and chart.        *)
(*                                                                         *)
(*   TypeCorrect       the values are naturals, the series has no hole,    *)
(*                     and its lines are exact;                            *)
(*   GapsCorrect       an hour lies between the samples around it;         *)
(*   HintsCorrect      request, limit and memory's limit are in order, and *)
(*                     memory's limit covers every measured hour;          *)
(*   MoreCorrect       neither more samples nor greater ones are held      *)
(*                     against the workload;                               *)
(*   ChartsFit         a chart has the first point of its series and at    *)
(*                     most MaxPoints, and no coarser stride would do;     *)
(*   CoverageCorrect   a collection never lowers the coverage.             *)
(*                                                                         *)
(* All follow from one invariant, Measured: the series is that of the      *)
(* samples.  The work is in the lemmas about what prepare_series, the      *)
(* percentiles and the rounding compute: the order of the samples is kept  *)
(* through a sum, a division rounded down, a straight line, a place in the *)
(* sorted series, a weighted mean of two places, and a rounding to even.   *)
(***************************************************************************)
EXTENDS Series, FiniteSetTheorems, TLAPS

-----------------------------------------------------------------------------
(***************************************************************************)
(* The thinned chart.                                                      *)
(***************************************************************************)

LEMMA DivIsFloor ==
  ASSUME NEW n \in Nat, NEW d \in Nat \ {0}
  PROVE  /\ n \div d \in Nat /\ n % d \in 0 .. d - 1
         /\ n = d * (n \div d) + (n % d)
  OBVIOUS

(* As many strides as points allowed reach past the end, one step less does*)
(* not.                                                                    *)
LEMMA StrideIsEnough ==
  ASSUME NEW n \in Nat \ {0}
  PROVE  /\ Stride(n) \in Nat \ {0}
         /\ n <= Stride(n) * MaxPoints
         /\ (Stride(n) - 1) * MaxPoints < n
<1> DEFINE up == (n + MaxPoints - 1) \div MaxPoints
           rest == (n + MaxPoints - 1) % MaxPoints
<1>1. MaxPoints \in Nat \ {0} /\ n + MaxPoints - 1 \in Nat
  BY SeriesAssumption
<1>2. /\ up \in Nat /\ rest \in 0 .. MaxPoints - 1
      /\ n + MaxPoints - 1 = MaxPoints * up + rest
  BY <1>1, DivIsFloor
<1>3. Stride(n) = IF up < 1 THEN 1 ELSE up
  BY DEF Stride
<1> HIDE DEF up, rest
<1>4. up # 0
  BY <1>1, <1>2
<1>5. Stride(n) = up
  BY <1>2, <1>3, <1>4
<1>6. MaxPoints * up = up * MaxPoints /\ (up - 1) * MaxPoints = up * MaxPoints - MaxPoints
  BY <1>1, <1>2
<1>7. up * MaxPoints \in Nat
  BY <1>1, <1>2
<1> QED BY <1>1, <1>2, <1>4, <1>5, <1>6, <1>7

(* However many points a series has, its chart has the first of them and   *)
(* no more than MaxPoints (downsample, why/series.py:13-23).               *)
LEMMA ChartOf ==
  ASSUME NEW n \in Nat \ {0}
  PROVE  0 \in Chart(n) /\ Cardinality(Chart(n)) <= MaxPoints
<1> DEFINE S == Stride(n)
           place == [i \in Chart(n) |-> i \div S]
<1>1. S \in Nat \ {0} /\ n <= S * MaxPoints /\ MaxPoints \in Nat \ {0}
  BY StrideIsEnough, SeriesAssumption
<1> HIDE DEF S
<1>2. ASSUME NEW i \in Chart(n)
      PROVE  /\ i \in 0 .. n - 1 /\ i \div S \in 0 .. MaxPoints - 1
             /\ i = S * (i \div S)
  <2>1. i \in 0 .. n - 1 /\ i % S = 0
    BY <1>2 DEF Chart, S
  <2>2. i \div S \in Nat /\ i = S * (i \div S)
    BY <1>1, <2>1, DivIsFloor
  <2>3. ASSUME i \div S >= MaxPoints PROVE FALSE
    <3>1. \A a, b, k \in Nat : a >= b => k * a >= k * b
      OBVIOUS
    <3>2. S * (i \div S) >= S * MaxPoints
      BY <1>1, <2>2, <2>3, <3>1
    <3>3. S * MaxPoints \in Nat
      BY <1>1
    <3> QED BY <1>1, <2>1, <2>2, <3>2, <3>3
  <2> QED BY <1>1, <2>1, <2>2, <2>3
<1>3. place \in Injection(Chart(n), 0 .. MaxPoints - 1)
  BY <1>2 DEF Injection, IsInjective
<1>4. IsFiniteSet(0 .. MaxPoints - 1) /\ Cardinality(0 .. MaxPoints - 1) = MaxPoints
  BY <1>1, FS_Interval
<1>5. Cardinality(Chart(n)) <= MaxPoints
  BY <1>3, <1>4, FS_Injection
<1>6. 0 \in Chart(n)
  BY <1>1 DEF Chart, S
<1> QED BY <1>5, <1>6

-----------------------------------------------------------------------------
(***************************************************************************)
(* The extent of the series.                                               *)
(***************************************************************************)

(* A finite set of naturals has a least and a greatest member.  Count how  *)
(* many members are smaller: no two members have the same count, so every  *)
(* count from 0 to the size less one occurs.                               *)
LEMMA EndsExist ==
  ASSUME NEW S \in SUBSET Nat, IsFiniteSet(S), S # {}
  PROVE  /\ \E x \in S : \A y \in S : x <= y
         /\ \E x \in S : \A y \in S : x >= y
<1> DEFINE n == Cardinality(S)
           Smaller(x) == {y \in S : y < x}
           place == [x \in S |-> Cardinality(Smaller(x))]
<1>1. n \in Nat \ {0}
  BY FS_CardinalityType, FS_EmptySet
<1>2. ASSUME NEW x \in S
      PROVE  /\ IsFiniteSet(Smaller(x)) /\ Cardinality(Smaller(x)) \in 0 .. n - 1
             /\ Cardinality(Smaller(x)) = 0 => Smaller(x) = {}
             /\ Cardinality(Smaller(x)) = n - 1 => Smaller(x) \union {x} = S
  <2>1. Smaller(x) \subseteq S /\ x \notin Smaller(x)
    OBVIOUS
  <2>2. IsFiniteSet(Smaller(x)) /\ Cardinality(Smaller(x)) \in Nat
    BY <2>1, FS_Subset, FS_CardinalityType
  <2>3. Cardinality(Smaller(x) \union {x}) = Cardinality(Smaller(x)) + 1
    BY <2>1, <2>2, FS_AddElement
  <2>4. /\ Cardinality(Smaller(x) \union {x}) <= n
        /\ Cardinality(S) = Cardinality(Smaller(x) \union {x}) => S = Smaller(x) \union {x}
    BY <1>2, <2>1, FS_Subset
  <2> HIDE DEF Smaller
  <2> QED BY <1>1, <2>2, <2>3, <2>4, FS_EmptySet
<1>3. ASSUME NEW x \in S, NEW y \in S, x < y
      PROVE  Cardinality(Smaller(x)) < Cardinality(Smaller(y))
  <2>1. Smaller(x) \union {x} \subseteq Smaller(y) /\ x \notin Smaller(x)
    <3>1. x \in Nat /\ y \in Nat /\ \A z \in S : z \in Nat
      BY <1>3
    <3>2. \A z \in S : z < x => z < y
      BY <1>3, <3>1
    <3>3. x \in Smaller(y)
      BY <1>3
    <3>4. Smaller(x) \subseteq Smaller(y)
      BY <3>2
    <3>5. x \notin Smaller(x)
      BY <3>1
    <3> HIDE DEF Smaller
    <3> QED BY <3>3, <3>4, <3>5
  <2>2. /\ IsFiniteSet(Smaller(x)) /\ IsFiniteSet(Smaller(y))
        /\ Cardinality(Smaller(x)) \in Nat /\ Cardinality(Smaller(y)) \in Nat
    BY <1>2
  <2>3. Cardinality(Smaller(x) \union {x}) = Cardinality(Smaller(x)) + 1
    BY <2>1, <2>2, FS_AddElement
  <2>4. Cardinality(Smaller(x) \union {x}) <= Cardinality(Smaller(y))
    BY <2>1, <2>2, FS_Subset
  <2> HIDE DEF Smaller
  <2> QED BY <2>2, <2>3, <2>4
<1>4. place \in Injection(S, 0 .. n - 1)
  <2>1. ASSUME NEW x \in S, NEW y \in S, place[x] = place[y] PROVE x = y
    <3>1. ~ (x < y) /\ ~ (y < x)
      BY <1>2, <1>3, <2>1
    <3> QED BY <3>1
  <2>2. place \in [S -> 0 .. n - 1]
    BY <1>2
  <2> HIDE DEF place
  <2> QED BY <2>1, <2>2 DEF Injection, IsInjective
<1>5. IsFiniteSet(0 .. n - 1) /\ Cardinality(0 .. n - 1) = n
  BY <1>1, FS_Interval
<1>6. place \in Surjection(S, 0 .. n - 1)
  BY <1>4, <1>5, FS_Injection
<1>7. \A i \in 0 .. n - 1 : \E x \in S : place[x] = i
  BY <1>6 DEF Surjection
<1>8. PICK a \in S : place[a] = 0
  BY <1>1, <1>7
<1>9. PICK b \in S : place[b] = n - 1
  BY <1>1, <1>7
<1>10. \A y \in S : a <= y
  <2>1. Cardinality(Smaller(a)) = 0
    BY <1>8
  <2>2. Smaller(a) = {}
    BY <1>2, <2>1
  <2>3. \A y \in S : ~ (y < a)
    BY <2>2
  <2>4. a \in Nat /\ \A y \in S : y \in Nat
    OBVIOUS
  <2> QED BY <2>3, <2>4
<1>11. \A y \in S : b >= y
  <2>1. Smaller(b) \union {b} = S
    BY <1>2, <1>9
  <2> QED BY <2>1
<1> QED BY <1>10, <1>11

LEMMA Ends ==
  ASSUME NEW S \in SUBSET Nat, IsFiniteSet(S), S # {}
  PROVE  /\ Least(S) \in S /\ Greatest(S) \in S
         /\ \A y \in S : Least(S) <= y /\ y <= Greatest(S)
BY EndsExist DEF Least, Greatest

(* The hours that were measured are finitely many. *)
LEMMA HoursOfType ==
  ASSUME NEW s, DOMAIN s \subseteq Instants
  PROVE  HoursOf(s) \in SUBSET Nat /\ IsFiniteSet(HoursOf(s))
<1>1. DOMAIN s \subseteq Nat /\ IsFiniteSet(DOMAIN s)
  BY SeriesAssumption, FS_Subset
<1>2. \A i \in DOMAIN s : HourOf(i) \in Nat
  BY <1>1, SeriesAssumption, DivIsFloor DEF HourOf
<1>3. IsFiniteSet({HourOf(i) : i \in DOMAIN s})
  <2> DEFINE f == [i \in DOMAIN s |-> HourOf(i)]
  <2>1. f \in Surjection(DOMAIN s, {HourOf(i) : i \in DOMAIN s})
    BY DEF Surjection
  <2> QED BY <1>1, <2>1, FS_Surjection
<1> QED BY <1>2, <1>3 DEF HoursOf

(* A series reaches from the first measured hour to the last. *)
LEMMA SeriesExtent ==
  ASSUME NEW s, DOMAIN s \subseteq Instants
  PROVE  LET hours == HoursOf(s)
             extent == DOMAIN PrepareSeries(s) IN
         /\ hours = {} => extent = {}
         /\ hours # {} => /\ extent = Least(hours) .. Greatest(hours)
                          /\ Least(hours) \in hours /\ Greatest(hours) \in hours
                          /\ \A h \in hours : Least(hours) <= h /\ h <= Greatest(hours)
         /\ hours \in SUBSET Nat /\ extent \in SUBSET Nat
         /\ IsFiniteSet(extent) /\ Cardinality(extent) \in Nat
<1> DEFINE hours == HoursOf(s)
           extent == DOMAIN PrepareSeries(s)
<1>1. hours \in SUBSET Nat /\ IsFiniteSet(hours)
  BY HoursOfType
<1>2. CASE hours = {}
  <2>1. extent = {}
    BY <1>2 DEF PrepareSeries
  <2> QED BY <1>1, <1>2, <2>1, FS_EmptySet
<1>3. CASE hours # {}
  <2>1. extent = Least(hours) .. Greatest(hours)
    BY <1>3 DEF PrepareSeries
  <2> HIDE DEF hours, extent
  <2>2. /\ Least(hours) \in hours /\ Greatest(hours) \in hours
        /\ \A h \in hours : Least(hours) <= h /\ h <= Greatest(hours)
    BY <1>1, <1>3, Ends
  <2>3. IsFiniteSet(extent) /\ Cardinality(extent) \in Nat /\ extent \in SUBSET Nat
    <3>1. Least(hours) \in Nat /\ Greatest(hours) \in Nat
      BY <1>1, <2>2
    <3>2. \A a, b \in Nat : IsFiniteSet(a .. b) /\ a .. b \in SUBSET Nat
      BY FS_Interval
    <3>3. IsFiniteSet(extent) /\ extent \in SUBSET Nat
      BY <2>1, <3>1, <3>2
    <3> QED BY <3>3, FS_CardinalityType
  <2> QED BY <1>1, <1>3, <2>1, <2>2, <2>3 DEF hours, extent
<1> QED BY <1>2, <1>3

(* More hours measured, a longer series. *)
LEMMA ExtentGrows ==
  ASSUME NEW s, NEW t, DOMAIN s \subseteq Instants, DOMAIN t \subseteq Instants,
         HoursOf(s) \subseteq HoursOf(t)
  PROVE  DOMAIN PrepareSeries(s) \subseteq DOMAIN PrepareSeries(t)
<1>1. CASE HoursOf(s) = {}
  BY <1>1, SeriesExtent
<1>2. CASE HoursOf(s) # {}
  <2>1. /\ DOMAIN PrepareSeries(s) = Least(HoursOf(s)) .. Greatest(HoursOf(s))
        /\ Least(HoursOf(s)) \in HoursOf(t) /\ Greatest(HoursOf(s)) \in HoursOf(t)
    BY <1>2, SeriesExtent
  <2>2. /\ DOMAIN PrepareSeries(t) = Least(HoursOf(t)) .. Greatest(HoursOf(t))
        /\ Least(HoursOf(t)) \in HoursOf(t) /\ Greatest(HoursOf(t)) \in HoursOf(t)
        /\ HoursOf(t) \in SUBSET Nat
        /\ \A h \in HoursOf(t) : Least(HoursOf(t)) <= h /\ h <= Greatest(HoursOf(t))
    BY <1>2, SeriesExtent
  <2>3. \A a, b, c, d \in Nat : a <= b /\ c <= d => b .. c \subseteq a .. d
    OBVIOUS
  <2> QED BY <2>1, <2>2, <2>3
<1> QED BY <1>1, <1>2

(* Samples as there can be.                                                *)
Sampled(s) == DOMAIN s \subseteq Instants /\ \A i \in DOMAIN s : s[i] \in Values

(* What was measured, and the series of it: every collection leaves both   *)
(* so, and all that a series promises follows from it.                     *)
Measured == Sampled(samples) /\ series = PrepareSeries(samples)

LEMMA MeasuredHolds == Spec => []Measured
<1>1. Init => Measured
  BY DEF Init, Measured, Sampled, PrepareSeries, HoursOf
<1>2. Measured /\ [Next]_vars => Measured'
  <2> SUFFICES ASSUME Measured, [Next]_vars PROVE Measured'
    OBVIOUS
  <2>1. CASE UNCHANGED vars
    BY <2>1 DEF Measured, Sampled, vars
  <2>2. ASSUME NEW i \in Instants, NEW v \in Values, Collect(i, v) PROVE Measured'
    BY <2>2 DEF Measured, Sampled, Collect
  <2> QED BY <2>1, <2>2 DEF Next
<1> QED BY <1>1, <1>2, PTL DEF Spec

-----------------------------------------------------------------------------
(***************************************************************************)
(* Sums.  A set of naturals that has 0 and the successors of its members   *)
(* has them all; so a recursion over the subsets of a finite set has a     *)
(* solution, and what it computes can be compared set by set.              *)
(***************************************************************************)

LEMMA Inductive ==
  ASSUME NEW S \in SUBSET Nat, 0 \in S, \A n \in S : n + 1 \in S
  PROVE  S = Nat
<1> SUFFICES ASSUME NEW n \in Nat, n \notin S PROVE FALSE
  OBVIOUS
<1> DEFINE B == {m \in 0 .. n : m \notin S}
<1>1. n \in B /\ B \subseteq 0 .. n /\ B \in SUBSET Nat
  OBVIOUS
<1>2. IsFiniteSet(B)
  <2>1. IsFiniteSet(0 .. n)
    BY FS_Interval
  <2> HIDE DEF B
  <2> QED BY <1>1, <2>1, FS_Subset
<1> HIDE DEF B
<1>3. PICK x \in B : \A y \in B : x <= y
  BY <1>1, <1>2, EndsExist
<1>4. x \in 0 .. n /\ x \notin S
  BY <1>3 DEF B
<1>5. x # 0 /\ x - 1 \in 0 .. n
  BY <1>4
<1>6. x - 1 \notin B
  BY <1>3, <1>4, <1>5
<1>7. x - 1 \in S
  BY <1>5, <1>6 DEF B
<1>8. (x - 1) + 1 \in S
  BY <1>7
<1> QED BY <1>4, <1>8

PickOf(T) == CHOOSE i \in T : TRUE

(* g sums s over the subsets of S.                                         *)
SumFcn(s, S, g) ==
  g = [T \in SUBSET S |-> IF T = {} THEN 0 ELSE s[PickOf(T)] + g[T \ {PickOf(T)}]]

LEMMA SmallerSets ==
  ASSUME NEW T, IsFiniteSet(T), T # {}
  PROVE  /\ PickOf(T) \in T /\ IsFiniteSet(T \ {PickOf(T)})
         /\ Cardinality(T) \in Nat \ {0}
         /\ Cardinality(T \ {PickOf(T)}) = Cardinality(T) - 1
<1>1. PickOf(T) \in T
  BY DEF PickOf
<1>2. Cardinality(T) \in Nat /\ Cardinality(T) # 0
  BY FS_CardinalityType, FS_EmptySet
<1> QED BY <1>1, <1>2, FS_RemoveElement

LEMMA SumFcnExists ==
  ASSUME NEW s, NEW S, IsFiniteSet(S)
  PROVE  \E g : SumFcn(s, S, g)
<1> DEFINE Small(n) == {T \in SUBSET S : Cardinality(T) <= n}
           Stage(n, g) == g = [T \in Small(n) |-> IF T = {} THEN 0
                                                  ELSE s[PickOf(T)] + g[T \ {PickOf(T)}]]
           A == {n \in Nat : \E g : Stage(n, g)}
<1>1. ASSUME NEW T \in SUBSET S, T # {}
      PROVE  /\ PickOf(T) \in T /\ T \ {PickOf(T)} \in SUBSET S
             /\ Cardinality(T) \in Nat \ {0}
             /\ Cardinality(T \ {PickOf(T)}) = Cardinality(T) - 1
  <2>1. IsFiniteSet(T)
    BY FS_Subset
  <2> QED BY <1>1, <2>1, SmallerSets
<1>2. 0 \in A
  <2>1. ASSUME NEW T \in Small(0), T # {} PROVE FALSE
    <3>1. Cardinality(T) \in Nat \ {0}
      BY <1>1, <2>1
    <3> QED BY <3>1
  <2>2. Stage(0, [T \in Small(0) |-> 0])
    <3> HIDE DEF Small
    <3> QED BY <2>1
  <2> QED BY <2>2
<1>3. ASSUME NEW n \in A PROVE n + 1 \in A
  <2>1. n \in Nat
    OBVIOUS
  <2>2. PICK g : Stage(n, g)
    OBVIOUS
  <2> DEFINE Val(T) == IF T = {} THEN 0 ELSE s[PickOf(T)] + g[T \ {PickOf(T)}]
             h == [T \in Small(n + 1) |-> Val(T)]
  <2>3. Small(n) \subseteq Small(n + 1)
    <3>1. \A T \in Small(n) : T = {} \/ Cardinality(T) \in Nat
      BY <1>1
    <3>2. Cardinality({}) = 0
      BY FS_EmptySet
    <3> QED BY <2>1, <3>1, <3>2
  <2>4. \A T \in Small(n + 1) : T # {} => T \ {PickOf(T)} \in Small(n)
    BY <1>1, <2>1
  <2> HIDE DEF Small
  <2>5. \A T \in Small(n) : g[T] = Val(T)
    BY <2>2
  <2>6. \A T \in Small(n) : h[T] = g[T]
    BY <2>3, <2>5
  <2>7. \A T \in Small(n + 1) : h[T] = IF T = {} THEN 0
                                       ELSE s[PickOf(T)] + h[T \ {PickOf(T)}]
    BY <2>4, <2>6
  <2>8. h = [T \in Small(n + 1) |-> h[T]]
    OBVIOUS
  <2> HIDE DEF h
  <2>9. Stage(n + 1, h)
    BY <2>7, <2>8
  <2> QED BY <2>1, <2>9
<1>4. A = Nat
  <2>1. A \in SUBSET Nat
    OBVIOUS
  <2> HIDE DEF A
  <2> QED BY <1>2, <1>3, <2>1, Inductive
<1>5. Cardinality(S) \in Nat
  BY FS_CardinalityType
<1>6. PICK g : Stage(Cardinality(S), g)
  BY <1>4, <1>5
<1>7. Small(Cardinality(S)) = SUBSET S
  BY FS_Subset
<1> HIDE DEF Small
<1> QED BY <1>6, <1>7 DEF SumFcn

LEMMA SumOfIs ==
  ASSUME NEW s, NEW S, IsFiniteSet(S)
  PROVE  \E g : SumFcn(s, S, g) /\ SumOf(s, S) = g[S]
<1> DEFINE c == CHOOSE g : SumFcn(s, S, g)
<1>1. SumFcn(s, S, c)
  BY SumFcnExists
<1>2. SumOf(s, S) = c[S]
  BY DEF SumOf, MapThenFoldSet, SumFcn, PickOf
<1> HIDE DEF c
<1> QED BY <1>1, <1>2

(* A sum of more is more; it lies between the least and the greatest of    *)
(* its terms, as often as there are terms.                                 *)
LEMMA SumBetween ==
  ASSUME NEW S, IsFiniteSet(S), NEW s, NEW t, NEW lo \in Nat, NEW hi \in Nat,
         \A i \in S : /\ s[i] \in Nat /\ t[i] \in Nat
                      /\ lo <= s[i] /\ s[i] <= t[i] /\ t[i] <= hi
  PROVE  /\ SumOf(s, S) \in Nat /\ SumOf(t, S) \in Nat
         /\ lo * Cardinality(S) <= SumOf(s, S) /\ SumOf(s, S) <= SumOf(t, S)
         /\ SumOf(t, S) <= hi * Cardinality(S)
<1>1. PICK g : SumFcn(s, S, g) /\ SumOf(s, S) = g[S]
  BY SumOfIs
<1>2. PICK h : SumFcn(t, S, h) /\ SumOf(t, S) = h[S]
  BY SumOfIs
<1> DEFINE Bounds(T) == /\ g[T] \in Nat /\ h[T] \in Nat
                        /\ lo * Cardinality(T) <= g[T] /\ g[T] <= h[T]
                        /\ h[T] <= hi * Cardinality(T)
           A == {n \in Nat : \A T \in SUBSET S : Cardinality(T) = n => Bounds(T)}
<1>3. ASSUME NEW T \in SUBSET S
      PROVE  /\ IsFiniteSet(T) /\ Cardinality(T) \in Nat /\ (Cardinality(T) = 0 => T = {})
             /\ T = {} => g[T] = 0 /\ h[T] = 0
             /\ T # {} => /\ g[T] = s[PickOf(T)] + g[T \ {PickOf(T)}]
                          /\ h[T] = t[PickOf(T)] + h[T \ {PickOf(T)}]
  <2>1. IsFiniteSet(T)
    BY FS_Subset
  <2>2. Cardinality(T) \in Nat /\ (Cardinality(T) = 0 => T = {})
    BY <2>1, FS_CardinalityType, FS_EmptySet
  <2>3. g[T] = IF T = {} THEN 0 ELSE s[PickOf(T)] + g[T \ {PickOf(T)}]
    BY <1>1 DEF SumFcn
  <2>4. h[T] = IF T = {} THEN 0 ELSE t[PickOf(T)] + h[T \ {PickOf(T)}]
    BY <1>2 DEF SumFcn
  <2> QED BY <2>1, <2>2, <2>3, <2>4
<1>4. 0 \in A
  <2> SUFFICES ASSUME NEW T \in SUBSET S, Cardinality(T) = 0 PROVE Bounds(T)
    OBVIOUS
  <2>1. g[T] = 0 /\ h[T] = 0
    BY <1>3
  <2>2. lo * 0 = 0 /\ hi * 0 = 0
    OBVIOUS
  <2> QED BY <2>1, <2>2
<1>5. ASSUME NEW n \in A PROVE n + 1 \in A
  <2> SUFFICES ASSUME NEW T \in SUBSET S, Cardinality(T) = n + 1 PROVE Bounds(T)
    OBVIOUS
  <2>1. n \in Nat /\ T # {}
    <3>1. n \in Nat
      OBVIOUS
    <3>2. Cardinality(T) # 0
      BY <3>1
    <3>3. T # {}
      BY <3>2, FS_EmptySet
    <3> QED BY <3>1, <3>3
  <2> DEFINE p == PickOf(T)
             U == T \ {p}
  <2>2. p \in T /\ Cardinality(U) = n /\ U \in SUBSET S
    <3>1. IsFiniteSet(T)
      BY <1>3
    <3>2. PickOf(T) \in T /\ Cardinality(T \ {PickOf(T)}) = Cardinality(T) - 1
      BY <2>1, <3>1, SmallerSets
    <3> QED BY <2>1, <3>2
  <2>3. Bounds(U)
    BY <2>2
  <2>4. g[T] = s[p] + g[U] /\ h[T] = t[p] + h[U]
    BY <1>3, <2>1
  <2>5. s[p] \in Nat /\ t[p] \in Nat /\ lo <= s[p] /\ s[p] <= t[p] /\ t[p] <= hi
    BY <2>2
  <2> HIDE DEF p, U
  <2>6. lo * Cardinality(T) = lo * n + lo /\ hi * Cardinality(T) = hi * n + hi
        /\ lo * n \in Nat /\ hi * n \in Nat
    BY <2>1
  <2> QED BY <2>2, <2>3, <2>4, <2>5, <2>6
<1>6. A = Nat
  <2>1. A \in SUBSET Nat
    OBVIOUS
  <2> HIDE DEF A
  <2> QED BY <1>4, <1>5, <2>1, Inductive
<1>7. Bounds(S)
  <2>1. Cardinality(S) \in A
    BY <1>6, FS_CardinalityType
  <2> QED BY <2>1
<1> QED BY <1>1, <1>2, <1>7

-----------------------------------------------------------------------------
(***************************************************************************)
(* Quotients.                                                              *)
(***************************************************************************)

LEMMA Quotient ==
  ASSUME NEW y \in Int, NEW d \in Nat \ {0}
  PROVE  /\ y \div d \in Int /\ d * (y \div d) <= y /\ y < d * (y \div d) + d
         /\ y % d \in 0 .. d - 1 /\ y = d * (y \div d) + (y % d)
OBVIOUS

LEMMA TimesGrows ==
  ASSUME NEW a \in Int, NEW b \in Int, NEW d \in Nat
  PROVE  a <= b => d * a <= d * b
OBVIOUS

LEMMA TimesShrinks ==
  ASSUME NEW a \in Int, NEW b \in Int, NEW d \in Nat \ {0}
  PROVE  /\ d * a <= d * b => a <= b
         /\ d * a < d * b => a < b
<1>1. a > b => a >= b + 1
  OBVIOUS
<1>2. a >= b => d * a >= d * b
  OBVIOUS
<1>3. a >= b + 1 => d * a >= d * (b + 1)
  OBVIOUS
<1>4. d * (b + 1) = d * b + d
  OBVIOUS
<1>5. d * a \in Int /\ d * b \in Int
  OBVIOUS
<1> QED BY <1>1, <1>2, <1>3, <1>4, <1>5

LEMMA DivGrows ==
  ASSUME NEW y \in Int, NEW z \in Int, NEW d \in Nat \ {0}, y <= z
  PROVE  y \div d <= z \div d
<1> DEFINE p == y \div d
           q == z \div d
<1>1. p \in Int /\ q \in Int /\ d * p <= y /\ z < d * q + d
  BY Quotient
<1> HIDE DEF p, q
<1>2. d * p < d * (q + 1)
  <2>1. d * (q + 1) = d * q + d /\ d * q \in Int /\ d * p \in Int
    BY <1>1
  <2> QED BY <1>1, <2>1
<1>3. p < q + 1
  BY <1>1, <1>2, TimesShrinks
<1> QED BY <1>1, <1>3 DEF p, q

LEMMA DivOfProduct ==
  ASSUME NEW m \in Int, NEW d \in Nat \ {0}
  PROVE  (d * m) \div d = m /\ (d * m) % d = 0
<1> DEFINE q == (d * m) \div d
<1>0. d * m \in Int
  OBVIOUS
<1>1. q \in Int /\ d * q <= d * m /\ d * m < d * q + d /\ d * m = d * q + ((d * m) % d)
      /\ (d * m) % d \in 0 .. d - 1
  BY <1>0, Quotient
<1> HIDE DEF q
<1>2. q <= m /\ m < q + 1
  <2>1. d * (q + 1) = d * q + d
    BY <1>1
  <2>2. d * m < d * (q + 1)
    BY <1>1, <2>1
  <2> QED BY <1>1, <2>2, TimesShrinks
<1>3. q = m
  BY <1>1, <1>2
<1>4. (d * m) % d = 0
  <2>1. d * m = d * m + ((d * m) % d)
    BY <1>1, <1>3
  <2>2. (d * m) % d \in Int
    BY <1>1
  <2> QED BY <1>0, <2>1, <2>2
<1> QED BY <1>3, <1>4 DEF q

LEMMA DivOfSum ==
  ASSUME NEW m \in Int, NEW y \in Int, NEW d \in Nat \ {0}
  PROVE  (d * m + y) \div d = m + (y \div d)
<1> DEFINE q == y \div d
           r == (d * m + y) \div d
<1>0. d * m \in Int /\ d * m + y \in Int
  OBVIOUS
<1>1. q \in Int /\ d * q <= y /\ y < d * q + d
  BY Quotient
<1>2. r \in Int /\ d * r <= d * m + y /\ d * m + y < d * r + d
  BY <1>0, Quotient
<1> HIDE DEF q, r
<1>3. /\ d * (m + q) = d * m + d * q /\ d * (m + q + 1) = d * m + d * q + d
      /\ d * (r + 1) = d * r + d /\ d * q \in Int /\ d * r \in Int
  BY <1>1, <1>2
<1>4. d * r < d * (m + q + 1) /\ d * (m + q) < d * (r + 1)
  BY <1>0, <1>1, <1>2, <1>3
<1>5. r < m + q + 1 /\ m + q < r + 1
  BY <1>1, <1>2, <1>4, TimesShrinks
<1> QED BY <1>1, <1>2, <1>5 DEF q, r

-----------------------------------------------------------------------------
(***************************************************************************)
(* Hourly means.                                                           *)
(***************************************************************************)

LEMMA SamplesOfHour ==
  ASSUME NEW s, Sampled(s), NEW h \in HoursOf(s)
  PROVE  LET S == SamplesIn(s, h) IN
         /\ S \subseteq DOMAIN s /\ S # {} /\ IsFiniteSet(S) /\ h \in Nat
         /\ Cardinality(S) \in 1 .. PerHour
         /\ \A i \in S : s[i] \in Nat
<1> DEFINE S == SamplesIn(s, h)
<1>1. S \subseteq DOMAIN s /\ S # {}
  BY DEF SamplesIn, HoursOf
<1>2. DOMAIN s \subseteq Nat /\ IsFiniteSet(DOMAIN s) /\ PerHour \in Nat \ {0}
  BY SeriesAssumption, FS_Subset DEF Sampled
<1>3. IsFiniteSet(S) /\ Cardinality(S) \in Nat /\ Cardinality(S) # 0
  <2> HIDE DEF S
  <2> QED BY <1>1, <1>2, FS_Subset, FS_CardinalityType, FS_EmptySet
<1>4. \A i \in S : s[i] \in Nat
  BY <1>1, SeriesAssumption DEF Sampled
<1>5. h \in Nat
  BY HoursOfType DEF Sampled
<1>6. Cardinality(S) <= PerHour
  <2> DEFINE I == PerHour * h .. PerHour * h + PerHour - 1
  <2>1. PerHour * h \in Nat
    BY <1>2, <1>5
  <2>2. IsFiniteSet(I) /\ Cardinality(I) = PerHour
    <3> DEFINE a == PerHour * h
               b == PerHour * h + PerHour - 1
    <3>1. a \in Int /\ b \in Int /\ b - a + 1 = PerHour /\ ~ a > b
      BY <1>2, <2>1
    <3> HIDE DEF a, b
    <3>2. IsFiniteSet(a .. b) /\ Cardinality(a .. b) = b - a + 1
      BY <3>1, FS_Interval
    <3> QED BY <3>1, <3>2 DEF a, b
  <2>3. ASSUME NEW i \in S PROVE i \in I
    <3>1. i \in Nat /\ i \div PerHour = h
      BY <1>1, <1>2 DEF SamplesIn, HourOf
    <3>2. i % PerHour \in 0 .. PerHour - 1 /\ i = PerHour * (i \div PerHour) + (i % PerHour)
      BY <1>2, <3>1, Quotient
    <3>3. i = PerHour * h + (i % PerHour)
      BY <3>1, <3>2
    <3> QED BY <1>2, <2>1, <3>1, <3>2, <3>3
  <2> HIDE DEF I, S
  <2> QED BY <2>2, <2>3, FS_Subset
<1> QED BY <1>1, <1>3, <1>4, <1>5, <1>6

(* The mean of samples revised upwards is no smaller, and lies between the *)
(* least and the greatest.                                                 *)
LEMMA MeanBetween ==
  ASSUME NEW s, Sampled(s), NEW t, Sampled(t), DOMAIN s = DOMAIN t, NEW h \in HoursOf(s),
         NEW lo \in Nat, NEW hi \in Nat,
         \A i \in SamplesIn(s, h) : lo <= s[i] /\ s[i] <= t[i] /\ t[i] <= hi
  PROVE  /\ HourlyMean(s, h) \in Nat /\ HourlyMean(t, h) \in Nat
         /\ Unit * lo <= HourlyMean(s, h) /\ HourlyMean(s, h) <= HourlyMean(t, h)
         /\ HourlyMean(t, h) <= Unit * hi
<1> DEFINE S == SamplesIn(s, h)
           n == Cardinality(S)
           x == SumOf(s, S)
           y == SumOf(t, S)
<1>1. SamplesIn(t, h) = S /\ h \in HoursOf(t)
  BY DEF SamplesIn, HoursOf
<1>2. IsFiniteSet(S) /\ n \in Nat \ {0} /\ \A i \in S : s[i] \in Nat /\ t[i] \in Nat
  <2>1. n \in 1 .. PerHour
    BY SamplesOfHour
  <2>2. n \in Nat \ {0}
    BY <2>1, SeriesAssumption
  <2> QED BY <1>1, <2>2, SamplesOfHour
<1>3. x \in Nat /\ y \in Nat /\ lo * n <= x /\ x <= y /\ y <= hi * n
  <2> HIDE DEF S
  <2> QED BY <1>2, SumBetween DEF S
<1>4. HourlyMean(s, h) = (Unit * x) \div n /\ HourlyMean(t, h) = (Unit * y) \div n
  BY <1>1 DEF HourlyMean
<1> HIDE DEF n, x, y
<1>5. Unit \in Nat
  BY SeriesAssumption
<1>6. /\ Unit * (lo * n) <= Unit * x /\ Unit * x <= Unit * y /\ Unit * y <= Unit * (hi * n)
      /\ Unit * x \in Nat /\ Unit * y \in Nat
  <2>1. lo * n \in Int /\ hi * n \in Int
    BY <1>2
  <2> QED BY <1>3, <1>5, <2>1, TimesGrows
<1>7. Unit * (lo * n) = n * (Unit * lo) /\ Unit * (hi * n) = n * (Unit * hi)
      /\ Unit * lo \in Nat /\ Unit * hi \in Nat
      /\ n * (Unit * lo) \in Nat /\ n * (Unit * hi) \in Nat
  BY <1>2, <1>5
<1>8. /\ (n * (Unit * lo)) \div n <= (Unit * x) \div n
      /\ (Unit * x) \div n <= (Unit * y) \div n
      /\ (Unit * y) \div n <= (n * (Unit * hi)) \div n
  BY <1>2, <1>6, <1>7, DivGrows
<1>9. (n * (Unit * lo)) \div n = Unit * lo /\ (n * (Unit * hi)) \div n = Unit * hi
  <2>1. PICK a \in Nat, b \in Nat : a = Unit * lo /\ b = Unit * hi
    BY <1>7
  <2>2. (n * a) \div n = a /\ (n * b) \div n = b
    BY <1>2, DivOfProduct
  <2> QED BY <2>1, <2>2
<1>10. (Unit * x) \div n \in Nat /\ (Unit * y) \div n \in Nat
  BY <1>2, <1>6, DivIsFloor
<1> QED BY <1>4, <1>8, <1>9, <1>10

-----------------------------------------------------------------------------
(***************************************************************************)
(* The hours of a series.                                                  *)
(***************************************************************************)

(* A line between greater means is nowhere smaller, and no line leaves the *)
(* range of its ends: rounded down, it is their weighted mean.             *)
LEMMA LineBetween ==
  ASSUME NEW f, NEW g, NEW a \in Nat, NEW b \in Nat, NEW k \in a .. b,
         NEW lo \in Nat, NEW hi \in Nat,
         \A x \in {a, b} : /\ f[x] \in Nat /\ g[x] \in Nat
                           /\ lo <= f[x] /\ f[x] <= g[x] /\ g[x] <= hi
  PROVE  /\ Line(f, a, b, k) \in Nat /\ Line(g, a, b, k) \in Nat
         /\ lo <= Line(f, a, b, k) /\ Line(f, a, b, k) <= Line(g, a, b, k)
         /\ Line(g, a, b, k) <= hi
<1>1. CASE a = b
  <2>1. k = a
    BY <1>1
  <2> QED BY <1>1, <2>1 DEF Line
<1>2. CASE a # b
  <2>1. PICK d \in Nat \ {0}, w \in Nat, u \in Nat : d = b - a /\ w = k - a /\ u = b - k
    <3>1. b - a \in Nat \ {0} /\ k - a \in Nat /\ b - k \in Nat
      BY <1>2
    <3> QED BY <3>1
  <2>2. d = u + w
    BY <2>1
  <2>3. PICK fa \in Nat, fb \in Nat, ga \in Nat, gb \in Nat :
          fa = f[a] /\ fb = f[b] /\ ga = g[a] /\ gb = g[b]
    OBVIOUS
  <2>4. /\ lo <= fa /\ fa <= ga /\ ga <= hi /\ lo <= fb /\ fb <= gb /\ gb <= hi
    BY <2>3
  <2> DEFINE p == u * fa + w * fb
             q == u * ga + w * gb
  <2>5. p \in Nat /\ q \in Nat /\ d * lo \in Nat /\ d * hi \in Nat
    BY <2>1
  <2>6. d * lo <= p /\ p <= q /\ q <= d * hi
    <3>1. /\ u * lo <= u * fa /\ u * fa <= u * ga /\ u * ga <= u * hi
          /\ w * lo <= w * fb /\ w * fb <= w * gb /\ w * gb <= w * hi
      BY <2>4, TimesGrows
    <3>2. d * lo = u * lo + w * lo /\ d * hi = u * hi + w * hi
      BY <2>2
    <3>3. /\ u * lo \in Nat /\ w * lo \in Nat /\ u * hi \in Nat /\ w * hi \in Nat
          /\ u * fa \in Nat /\ w * fb \in Nat /\ u * ga \in Nat /\ w * gb \in Nat
      OBVIOUS
    <3> QED BY <3>1, <3>2, <3>3
  <2>7. /\ p = d * fa + (fb - fa) * w /\ (fb - fa) * w \in Int
        /\ q = d * ga + (gb - ga) * w /\ (gb - ga) * w \in Int
    BY <2>2
  <2>8. Line(f, a, b, k) = fa + ((fb - fa) * w) \div d
        /\ Line(g, a, b, k) = ga + ((gb - ga) * w) \div d
    BY <1>2, <2>1, <2>3 DEF Line
  <2> HIDE DEF p, q
  <2>9. p \div d = fa + ((fb - fa) * w) \div d
    <3>1. PICK y \in Int : y = (fb - fa) * w
      BY <2>7
    <3>2. fa \in Int /\ y \in Int /\ d \in Nat \ {0}
      BY <2>1, <2>3, <3>1
    <3>3. (d * fa + y) \div d = fa + (y \div d)
      BY <3>2, DivOfSum, Zenon
    <3> QED BY <2>7, <3>1, <3>3
  <2>10. q \div d = ga + ((gb - ga) * w) \div d
    <3>1. PICK y \in Int : y = (gb - ga) * w
      BY <2>7
    <3>2. ga \in Int /\ y \in Int /\ d \in Nat \ {0}
      BY <2>1, <2>3, <3>1
    <3>3. (d * ga + y) \div d = ga + (y \div d)
      BY <3>2, DivOfSum, Zenon
    <3> QED BY <2>7, <3>1, <3>3
  <2>11. lo <= p \div d /\ p \div d <= q \div d /\ q \div d <= hi
    <3>1. (d * lo) \div d = lo /\ (d * hi) \div d = hi
      BY <2>1, DivOfProduct
    <3>2. (d * lo) \div d <= p \div d /\ p \div d <= q \div d /\ q \div d <= (d * hi) \div d
      <4>1. PICK dl \in Nat, dh \in Nat : dl = d * lo /\ dh = d * hi
        BY <2>5
      <4>2. dl <= p /\ p <= q /\ q <= dh
        BY <2>6, <4>1
      <4>3. dl \in Int /\ dh \in Int /\ p \in Int /\ q \in Int /\ d \in Nat \ {0}
        BY <2>1, <2>5, <4>1
      <4>4. dl \div d <= p \div d /\ p \div d <= q \div d /\ q \div d <= dh \div d
        BY <4>2, <4>3, DivGrows, Zenon
      <4> QED BY <4>1, <4>4
    <3> QED BY <3>1, <3>2
  <2>12. p \div d \in Nat /\ q \div d \in Nat
    BY <2>5, DivIsFloor
  <2> QED BY <2>8, <2>9, <2>10, <2>11, <2>12
<1> QED BY <1>1, <1>2

(* Ends, of a set that is known by its members.                           *)
LEMMA EndsOfFinite ==
  ASSUME NEW S, S \subseteq Nat, IsFiniteSet(S), S # {}
  PROVE  /\ Least(S) \in S /\ Greatest(S) \in S
         /\ \A y \in S : Least(S) <= y /\ y <= Greatest(S)
BY Ends

Means(s) == [m \in HoursOf(s) |-> HourlyMean(s, m)]

(* An hour of the series is on the line between the measured hours around  *)
(* it; a measured one is its own mean.                                     *)
LEMMA SeriesAt ==
  ASSUME NEW s, Sampled(s), NEW h \in DOMAIN PrepareSeries(s)
  PROVE  LET a == Before(HoursOf(s), h)
             b == After(HoursOf(s), h)
             k == IF h - a > 2 /\ b - h > 2 THEN a + 2 ELSE h IN
         /\ a \in HoursOf(s) /\ b \in HoursOf(s) /\ a \in Nat /\ b \in Nat /\ h \in Nat
         /\ a <= h /\ h <= b /\ k \in a .. b
         /\ PrepareSeries(s)[h] = Line(Means(s), a, b, k)
         /\ h \in HoursOf(s) => a = h /\ b = h /\ PrepareSeries(s)[h] = HourlyMean(s, h)
<1> DEFINE hours == HoursOf(s)
           a == Before(hours, h)
           b == After(hours, h)
           k == IF h - a > 2 /\ b - h > 2 THEN a + 2 ELSE h
           below == {m \in hours : m <= h}
           above == {m \in hours : m >= h}
<1>1. hours \in SUBSET Nat /\ IsFiniteSet(hours)
  BY HoursOfType DEF Sampled
<1>2. hours # {} /\ DOMAIN PrepareSeries(s) = Least(hours) .. Greatest(hours)
      /\ Least(hours) \in hours /\ Greatest(hours) \in hours
  BY SeriesExtent DEF Sampled
<1>3. PrepareSeries(s)[h] = Line(Means(s), a, b, k)
  <2>1. \A x \in Least(hours) .. Greatest(hours) :
          PrepareSeries(s)[x] =
            LET c == Before(hours, x)
                d == After(hours, x) IN
            Line(Means(s), c, d, IF x - c > 2 /\ d - x > 2 THEN c + 2 ELSE x)
    BY <1>2 DEF PrepareSeries, Means
  <2> QED BY <1>2, <2>1
<1> HIDE DEF hours
<1>4. h \in Nat /\ Least(hours) \in below /\ Greatest(hours) \in above
  <2>1. Least(hours) \in Nat /\ Greatest(hours) \in Nat
    BY <1>1, <1>2
  <2>2. h \in Nat /\ Least(hours) <= h /\ Greatest(hours) >= h
    BY <1>2, <2>1
  <2> QED BY <1>2, <2>2
<1>5. a \in below /\ \A y \in below : y <= a
  <2>1. below \subseteq Nat /\ IsFiniteSet(below) /\ below # {}
    <3>1. below \subseteq hours
      OBVIOUS
    <3> HIDE DEF below
    <3> QED BY <1>1, <1>4, <3>1, FS_Subset
  <2>2. a = Greatest(below)
    BY DEF Before
  <2> HIDE DEF below, a
  <2> QED BY <2>1, <2>2, EndsOfFinite
<1>6. b \in above /\ \A y \in above : b <= y
  <2>1. above \subseteq Nat /\ IsFiniteSet(above) /\ above # {}
    <3>1. above \subseteq hours
      OBVIOUS
    <3> HIDE DEF above
    <3> QED BY <1>1, <1>4, <3>1, FS_Subset
  <2>2. b = Least(above)
    BY DEF After
  <2> HIDE DEF above, b
  <2> QED BY <2>1, <2>2, EndsOfFinite
<1>7. a \in hours /\ b \in hours /\ a \in Nat /\ b \in Nat /\ a <= h /\ h <= b
  <2> HIDE DEF a, b
  <2> QED BY <1>1, <1>5, <1>6
<1>8. k \in a .. b
  <2> HIDE DEF a, b
  <2> QED BY <1>4, <1>7
<1>9. ASSUME h \in hours PROVE a = h /\ b = h /\ PrepareSeries(s)[h] = HourlyMean(s, h)
  <2>1. h \in below /\ h \in above
    BY <1>4, <1>9
  <2>2. a = h /\ b = h
    <3> HIDE DEF a, b
    <3> QED BY <1>4, <1>5, <1>6, <1>7, <2>1
  <2>3. k = h
    <3> HIDE DEF a, b
    <3> QED BY <1>4, <2>2
  <2>4. Line(Means(s), a, b, k) = Means(s)[h]
    <3> HIDE DEF a, b, k
    <3> QED BY <2>2, <2>3 DEF Line
  <2>5. Means(s)[h] = HourlyMean(s, h)
    BY <1>9 DEF Means, hours
  <2> QED BY <1>3, <2>2, <2>4, <2>5
<1> HIDE DEF a, b, k
<1> QED BY <1>3, <1>4, <1>7, <1>8, <1>9 DEF hours, a, b, k

(* The samples of the measured hours around an hour. *)
Around(s, h) ==
  SamplesIn(s, Before(HoursOf(s), h)) \union SamplesIn(s, After(HoursOf(s), h))

(* Revised upwards, a series is nowhere smaller; and an hour is between the*)
(* samples around it.                                                      *)
LEMMA SeriesBetween ==
  ASSUME NEW s, Sampled(s), NEW t, Sampled(t), DOMAIN s = DOMAIN t,
         NEW h \in DOMAIN PrepareSeries(s), NEW lo \in Nat, NEW hi \in Nat,
         \A i \in Around(s, h) : lo <= s[i] /\ s[i] <= t[i] /\ t[i] <= hi
  PROVE  /\ h \in DOMAIN PrepareSeries(t)
         /\ PrepareSeries(s)[h] \in Nat /\ PrepareSeries(t)[h] \in Nat
         /\ Unit * lo <= PrepareSeries(s)[h]
         /\ PrepareSeries(s)[h] <= PrepareSeries(t)[h]
         /\ PrepareSeries(t)[h] <= Unit * hi
<1>1. HoursOf(t) = HoursOf(s)
  BY DEF HoursOf
<1>2. h \in DOMAIN PrepareSeries(t)
  <2>1. DOMAIN PrepareSeries(s) \subseteq DOMAIN PrepareSeries(t)
    BY <1>1, ExtentGrows DEF Sampled
  <2> QED BY <2>1
<1> DEFINE a == Before(HoursOf(s), h)
           b == After(HoursOf(s), h)
           k == IF h - a > 2 /\ b - h > 2 THEN a + 2 ELSE h
           F(r) == Means(r)
<1>3. /\ a \in HoursOf(s) /\ b \in HoursOf(s) /\ a \in Nat /\ b \in Nat /\ k \in a .. b
      /\ PrepareSeries(s)[h] = Line(F(s), a, b, k)
  BY SeriesAt
<1>4. PrepareSeries(t)[h] = Line(F(t), a, b, k)
  BY <1>1, <1>2, SeriesAt
<1>5. \A i \in SamplesIn(s, a) \union SamplesIn(s, b) : lo <= s[i] /\ s[i] <= t[i] /\ t[i] <= hi
  BY DEF Around
<1> HIDE DEF a, b, k
<1>6. ASSUME NEW x \in {a, b}
      PROVE  /\ F(s)[x] \in Nat /\ F(t)[x] \in Nat
             /\ Unit * lo <= F(s)[x] /\ F(s)[x] <= F(t)[x] /\ F(t)[x] <= Unit * hi
  <2>1. x \in HoursOf(s) /\ \A i \in SamplesIn(s, x) : lo <= s[i] /\ s[i] <= t[i] /\ t[i] <= hi
    BY <1>3, <1>5
  <2>2. F(s)[x] = HourlyMean(s, x) /\ F(t)[x] = HourlyMean(t, x)
    BY <1>1, <2>1 DEF Means
  <2> QED BY <2>1, <2>2, MeanBetween
<1>7. Unit * lo \in Nat /\ Unit * hi \in Nat
  BY SeriesAssumption
<1>8. /\ Line(F(s), a, b, k) \in Nat /\ Line(F(t), a, b, k) \in Nat
      /\ Unit * lo <= Line(F(s), a, b, k) /\ Line(F(s), a, b, k) <= Line(F(t), a, b, k)
      /\ Line(F(t), a, b, k) <= Unit * hi
  <2> DEFINE low == Unit * lo
             high == Unit * hi
  <2>1. low \in Nat /\ high \in Nat
    BY <1>7
  <2>2. \A x \in {a, b} : /\ F(s)[x] \in Nat /\ F(t)[x] \in Nat
                          /\ low <= F(s)[x] /\ F(s)[x] <= F(t)[x] /\ F(t)[x] <= high
    BY <1>6
  <2> HIDE DEF low, high, F
  <2>3. /\ Line(F(s), a, b, k) \in Nat /\ Line(F(t), a, b, k) \in Nat
        /\ low <= Line(F(s), a, b, k) /\ Line(F(s), a, b, k) <= Line(F(t), a, b, k)
        /\ Line(F(t), a, b, k) <= high
    BY <1>3, <2>1, <2>2, LineBetween
  <2> QED BY <2>3 DEF low, high
<1> QED BY <1>2, <1>3, <1>4, <1>8

-----------------------------------------------------------------------------
(***************************************************************************)
(* Percentiles.                                                            *)
(***************************************************************************)

(* A series as there can be: finitely many hours, at least one.            *)
Line0(f) ==
  /\ IsFiniteSet(DOMAIN f) /\ DOMAIN f # {}
  /\ \A h \in DOMAIN f : f[h] \in Nat

Below(f, v) == {h \in DOMAIN f : f[h] < v}
UpTo(f, v) == {h \in DOMAIN f : f[h] <= v}
ValuesOf(f) == {f[h] : h \in DOMAIN f}

LEMMA CountsOf ==
  ASSUME NEW f, Line0(f), NEW v \in Nat
  PROVE  /\ IsFiniteSet(Below(f, v)) /\ Cardinality(Below(f, v)) \in Nat
         /\ IsFiniteSet(UpTo(f, v)) /\ Cardinality(UpTo(f, v)) \in Nat
         /\ Below(f, v) \subseteq UpTo(f, v) /\ UpTo(f, v) \subseteq DOMAIN f
<1>1. Below(f, v) \subseteq DOMAIN f /\ UpTo(f, v) \subseteq DOMAIN f /\ IsFiniteSet(DOMAIN f)
  BY DEF Below, UpTo, Line0
<1>2. IsFiniteSet(Below(f, v)) /\ IsFiniteSet(UpTo(f, v))
  BY <1>1, FS_Subset
<1>3. Below(f, v) \subseteq UpTo(f, v)
  BY DEF Below, UpTo, Line0
<1> QED BY <1>1, <1>2, <1>3, FS_CardinalityType

LEMMA ValuesType ==
  ASSUME NEW f, Line0(f)
  PROVE  ValuesOf(f) \subseteq Nat /\ IsFiniteSet(ValuesOf(f)) /\ ValuesOf(f) # {}
<1> DEFINE g == [h \in DOMAIN f |-> f[h]]
<1>1. g \in Surjection(DOMAIN f, ValuesOf(f))
  BY DEF Surjection, ValuesOf
<1>2. IsFiniteSet(ValuesOf(f))
  <2> HIDE DEF g
  <2> QED BY <1>1, FS_Surjection DEF Line0
<1> QED BY <1>2 DEF Line0, ValuesOf

(* There is a k-th smallest value, and it is one of the values.            *)
LEMMA NthIs ==
  ASSUME NEW f, Line0(f), NEW k \in Nat, k < Cardinality(DOMAIN f)
  PROVE  /\ Nth(f, k) \in ValuesOf(f) /\ Nth(f, k) \in Nat
         /\ Cardinality(Below(f, Nth(f, k))) <= k
         /\ Cardinality(UpTo(f, Nth(f, k))) > k
<1> DEFINE V == ValuesOf(f)
           Enough == {v \in V : Cardinality(UpTo(f, v)) > k}
<1>1. V \subseteq Nat /\ IsFiniteSet(V) /\ V # {}
  BY ValuesType
<1>2. Greatest(V) \in V /\ \A v \in V : v <= Greatest(V)
  BY <1>1, EndsOfFinite
<1>3. UpTo(f, Greatest(V)) = DOMAIN f
  BY <1>2 DEF UpTo, ValuesOf
<1>4. Greatest(V) \in Enough
  BY <1>2, <1>3
<1>5. Enough \subseteq Nat /\ IsFiniteSet(Enough) /\ Enough # {}
  <2>1. Enough \subseteq V
    OBVIOUS
  <2> HIDE DEF Enough, V
  <2> QED BY <1>1, <1>4, <2>1, FS_Subset
<1> DEFINE w == Least(Enough)
<1>6. w \in Enough /\ \A y \in Enough : w <= y
  <2> HIDE DEF Enough
  <2> QED BY <1>5, EndsOfFinite
<1> HIDE DEF w
<1>7. w \in V /\ w \in Nat /\ Cardinality(UpTo(f, w)) > k
  BY <1>1, <1>6
<1>8. Cardinality(Below(f, w)) <= k
  <2> DEFINE L == {v \in V : v < w}
  <2>1. CASE L = {}
    <3>1. Below(f, w) = {}
      BY <2>1 DEF Below, ValuesOf
    <3> QED BY <3>1, FS_EmptySet
  <2>2. CASE L # {}
    <3>1. L \subseteq Nat /\ IsFiniteSet(L)
      <4>1. L \subseteq V
        OBVIOUS
      <4> HIDE DEF L, V
      <4> QED BY <1>1, <4>1, FS_Subset
    <3> DEFINE x == Greatest(L)
    <3>2. x \in L /\ \A y \in L : y <= x
      <4> HIDE DEF L
      <4> QED BY <2>2, <3>1, EndsOfFinite
    <3> HIDE DEF x
    <3>3. x \in V /\ x \in Nat /\ x < w
      BY <1>1, <3>2
    <3>4. x \notin Enough
      BY <1>6, <1>7, <3>3
    <3>5. ~ Cardinality(UpTo(f, x)) > k
      BY <3>3, <3>4
    <3>6. Below(f, w) \subseteq UpTo(f, x)
      BY <3>2 DEF Below, UpTo, ValuesOf
    <3>7. Cardinality(Below(f, w)) <= Cardinality(UpTo(f, x))
      BY <3>3, <3>6, CountsOf, FS_Subset
    <3>8. Cardinality(Below(f, w)) \in Nat /\ Cardinality(UpTo(f, x)) \in Nat
      BY <1>7, <3>3, CountsOf
    <3> QED BY <3>5, <3>7, <3>8
  <2> QED BY <2>1, <2>2
<1>9. w \in ValuesOf(f) /\ Cardinality(Below(f, w)) <= k /\ Cardinality(UpTo(f, w)) > k
  BY <1>7, <1>8
<1>10. Nth(f, k) = CHOOSE v \in ValuesOf(f) : Cardinality(Below(f, v)) <= k
                                             /\ Cardinality(UpTo(f, v)) > k
  BY DEF Nth, ValuesOf, Below, UpTo
<1>11. /\ Nth(f, k) \in ValuesOf(f) /\ Cardinality(Below(f, Nth(f, k))) <= k
       /\ Cardinality(UpTo(f, Nth(f, k))) > k
  BY <1>9, <1>10
<1> QED BY <1>1, <1>11

(* A later place, or greater values, make no smaller statistic.            *)
LEMMA NthGrows ==
  ASSUME NEW f, Line0(f), NEW g, Line0(g), DOMAIN f = DOMAIN g,
         \A h \in DOMAIN f : f[h] <= g[h],
         NEW j \in Nat, NEW k \in Nat, j <= k, k < Cardinality(DOMAIN f)
  PROVE  Nth(f, j) <= Nth(g, k)
<1> DEFINE v == Nth(f, j)
           w == Nth(g, k)
<1>1. Cardinality(DOMAIN f) \in Nat
  BY FS_CardinalityType DEF Line0
<1>2. v \in Nat /\ Cardinality(Below(f, v)) <= j
  BY <1>1, NthIs
<1>3. w \in Nat /\ Cardinality(UpTo(g, w)) > k
  BY NthIs
<1> HIDE DEF v, w
<1>4. ASSUME w < v PROVE FALSE
  <2>1. UpTo(g, w) \subseteq Below(f, v)
    <3> SUFFICES ASSUME NEW h \in DOMAIN f, g[h] <= w PROVE f[h] < v
      BY DEF UpTo, Below
    <3>1. f[h] \in Nat /\ g[h] \in Nat /\ f[h] <= g[h]
      BY DEF Line0
    <3> QED BY <1>2, <1>3, <1>4, <3>1
  <2>2. Cardinality(UpTo(g, w)) <= Cardinality(Below(f, v))
    BY <1>2, <2>1, CountsOf, FS_Subset
  <2>3. Cardinality(UpTo(g, w)) \in Nat /\ Cardinality(Below(f, v)) \in Nat
    BY <1>2, <1>3, CountsOf
  <2> QED BY <1>2, <1>3, <2>2, <2>3
<1> QED BY <1>2, <1>3, <1>4 DEF v, w

(* Where in its series a percentile is. *)
LEMMA PlaceOf ==
  ASSUME NEW n \in Nat \ {0}, NEW p \in 0 .. 20
  PROVE  LET at == p * (n - 1) IN
         /\ at \in Nat /\ at \div 20 \in Nat /\ at % 20 \in 0 .. 19
         /\ at \div 20 < n /\ (at % 20 # 0 => at \div 20 + 1 < n)
         /\ at = 20 * (at \div 20) + (at % 20)
<1> DEFINE at == p * (n - 1)
<1>1. n - 1 \in Nat /\ p \in Nat
  OBVIOUS
<1>2. at \in Nat
  BY <1>1
<1>3. at <= 20 * (n - 1)
  <2>1. (n - 1) * p <= (n - 1) * 20
    BY <1>1, TimesGrows
  <2> QED BY <1>1, <2>1
<1> HIDE DEF at
<1>4. at \div 20 \in Nat /\ at % 20 \in 0 .. 19 /\ at = 20 * (at \div 20) + (at % 20)
  BY <1>2
<1>5. at \div 20 < n /\ (at % 20 # 0 => at \div 20 + 1 < n)
  <2>1. PICK q \in Nat, r \in 0 .. 19 : q = at \div 20 /\ r = at % 20
    BY <1>4
  <2>2. at = 20 * q + r
    BY <1>4, <2>1
  <2>3. 20 * q + r <= 20 * (n - 1)
    BY <1>3, <2>2
  <2>4. q < n /\ (r # 0 => q + 1 < n)
    BY <2>3
  <2> QED BY <2>1, <2>4
<1> QED BY <1>2, <1>4, <1>5 DEF at

(* A value r twentieths of the way from a to b. *)
Weigh(r, a, b) == 20 * a + r * (b - a)

LEMMA WeighGrows ==
  ASSUME NEW r \in 0 .. 20, NEW q \in 0 .. 20, r <= q,
         NEW a \in Nat, NEW b \in Nat, NEW c \in Nat, NEW d \in Nat,
         a <= b, c <= d, a <= c, b <= d
  PROVE  /\ Weigh(r, a, b) \in Nat /\ Weigh(q, c, d) \in Nat
         /\ 20 * a <= Weigh(r, a, b) /\ Weigh(r, a, b) <= 20 * b
         /\ Weigh(r, a, b) <= Weigh(q, c, d)
<1>1. PICK x \in Nat, y \in Nat, u \in Nat, e \in Nat :
        x = b - a /\ y = d - c /\ u = 20 - r /\ e = q - r
  <2>1. b - a \in Nat /\ d - c \in Nat /\ 20 - r \in Nat /\ q - r \in Nat
    OBVIOUS
  <2> QED BY <2>1
<1>2. r \in Nat /\ q \in Nat
  OBVIOUS
<1>3. /\ Weigh(r, a, b) = 20 * a + r * x /\ Weigh(q, c, d) = 20 * c + q * y
      /\ r * x \in Nat /\ q * y \in Nat
  BY <1>1, <1>2 DEF Weigh
<1>4. /\ r * x <= 20 * x /\ 20 * x \in Nat
  <2>1. x * r <= x * 20
    BY <1>1, <1>2, TimesGrows
  <2> QED BY <1>1, <1>2, <2>1
<1>5. 20 * x = 20 * b - 20 * a
  BY <1>1
<1>6. 20 * a + r * x <= 20 * c + r * y
  <2>1. u * a <= u * c /\ r * b <= r * d
    BY <1>1, <1>2, TimesGrows
  <2>2. 20 * a + r * x = u * a + r * b /\ 20 * c + r * y = u * c + r * d
    BY <1>1, <1>2
  <2>3. u * a \in Nat /\ u * c \in Nat /\ r * b \in Nat /\ r * d \in Nat
    BY <1>1, <1>2
  <2> QED BY <2>1, <2>2, <2>3
<1>7. r * y <= q * y /\ r * y \in Nat
  <2>1. y * r <= y * q
    BY <1>1, <1>2, TimesGrows
  <2> QED BY <1>1, <1>2, <2>1
<1> QED BY <1>3, <1>4, <1>5, <1>6, <1>7

(* The whole places before a percentile, and the twentieths after them.    *)
WholeOf(f, p) == (p * (Cardinality(DOMAIN f) - 1)) \div 20
PartOf(f, p) == (p * (Cardinality(DOMAIN f) - 1)) % 20

LEMMA PercentileAt ==
  ASSUME NEW f, Line0(f), NEW p \in 0 .. 20
  PROVE  LET n == Cardinality(DOMAIN f)
             q == WholeOf(f, p)
             r == PartOf(f, p) IN
         /\ n \in Nat \ {0} /\ q \in Nat /\ r \in 0 .. 19 /\ q < n
         /\ p * (n - 1) = 20 * q + r
         /\ r = 0 => Percentile(f, p) = 20 * Nth(f, q)
         /\ r # 0 => q + 1 < n /\ Percentile(f, p) = Weigh(r, Nth(f, q), Nth(f, q + 1))
<1> DEFINE n == Cardinality(DOMAIN f)
<1>1. n \in Nat \ {0}
  BY FS_CardinalityType, FS_EmptySet DEF Line0
<1>2. /\ WholeOf(f, p) = (p * (n - 1)) \div 20 /\ PartOf(f, p) = (p * (n - 1)) % 20
  BY DEF WholeOf, PartOf
<1>3. Percentile(f, p) = IF PartOf(f, p) = 0 THEN 20 * Nth(f, WholeOf(f, p))
                         ELSE Weigh(PartOf(f, p), Nth(f, WholeOf(f, p)), Nth(f, WholeOf(f, p) + 1))
  BY DEF Percentile, WholeOf, PartOf, Weigh
<1> HIDE DEF n
<1>4. /\ WholeOf(f, p) \in Nat /\ PartOf(f, p) \in 0 .. 19 /\ WholeOf(f, p) < n
      /\ PartOf(f, p) # 0 => WholeOf(f, p) + 1 < n
      /\ p * (n - 1) = 20 * WholeOf(f, p) + PartOf(f, p)
  BY <1>1, <1>2, PlaceOf
<1> QED BY <1>1, <1>3, <1>4 DEF n

(* A percentile is between the two values it is drawn from. *)
LEMMA PercentileNear ==
  ASSUME NEW f, Line0(f), NEW p \in 0 .. 20
  PROVE  LET q == WholeOf(f, p) IN
         /\ Percentile(f, p) \in Nat
         /\ 20 * Nth(f, q) <= Percentile(f, p)
         /\ q + 1 < Cardinality(DOMAIN f) => Percentile(f, p) <= 20 * Nth(f, q + 1)
         /\ \E v \in ValuesOf(f) : Percentile(f, p) <= 20 * v
<1> DEFINE n == Cardinality(DOMAIN f)
           q == WholeOf(f, p)
           r == PartOf(f, p)
           P == Percentile(f, p)
           low == Nth(f, q)
           next == Nth(f, q + 1)
<1>1. /\ n \in Nat \ {0} /\ q \in Nat /\ r \in 0 .. 19 /\ q < n
      /\ r = 0 => P = 20 * low
      /\ r # 0 => q + 1 < n /\ P = Weigh(r, low, next)
  BY PercentileAt
<1>2. low \in Nat /\ low \in ValuesOf(f)
  <2> HIDE DEF n, q
  <2> QED BY <1>1, NthIs DEF n
<1>3. ASSUME q + 1 < n PROVE next \in Nat /\ next \in ValuesOf(f) /\ low <= next
  <2>1. \A h \in DOMAIN f : f[h] <= f[h]
    BY DEF Line0
  <2>2. q \in Nat /\ q + 1 \in Nat /\ q <= q + 1
    BY <1>1
  <2> HIDE DEF q
  <2> QED BY <1>3, <2>1, <2>2, NthIs, NthGrows DEF n
<1> HIDE DEF n, q, r, P, low, next
<1>4. CASE r = 0
  <2>1. P = 20 * low /\ P \in Nat
    BY <1>1, <1>2, <1>4
  <2>2. q + 1 < n => P <= 20 * next
    BY <1>2, <1>3, <2>1
  <2> QED BY <1>2, <2>1, <2>2 DEF n, q, r, P, low, next
<1>5. CASE r # 0
  <2>1. q + 1 < n /\ P = Weigh(r, low, next)
    BY <1>1, <1>5
  <2>2. next \in Nat /\ next \in ValuesOf(f) /\ low <= next /\ r \in 0 .. 20
    BY <1>1, <1>3, <2>1
  <2>3. low <= low /\ next <= next /\ r <= r
    BY <1>2, <2>2
  <2>4. P \in Nat /\ 20 * low <= P /\ P <= 20 * next
    BY <1>2, <2>1, <2>2, <2>3, WeighGrows
  <2> QED BY <2>2, <2>4 DEF n, q, r, P, low, next
<1> QED BY <1>4, <1>5

(* A percentile further up, of a series that is nowhere smaller, is no     *)
(* smaller.                                                                *)
LEMMA PercentileGrows ==
  ASSUME NEW f, Line0(f), NEW g, Line0(g), DOMAIN f = DOMAIN g,
         \A h \in DOMAIN f : f[h] <= g[h],
         NEW p \in 0 .. 20, NEW o \in 0 .. 20, p <= o
  PROVE  Percentile(f, p) <= Percentile(g, o)
<1> DEFINE n == Cardinality(DOMAIN f)
           q == WholeOf(f, p)
           r == PartOf(f, p)
           i == WholeOf(g, o)
           k == PartOf(g, o)
<1>1. /\ n \in Nat \ {0} /\ q \in Nat /\ r \in 0 .. 19 /\ q < n /\ p * (n - 1) = 20 * q + r
      /\ r = 0 => Percentile(f, p) = 20 * Nth(f, q)
      /\ r # 0 => q + 1 < n /\ Percentile(f, p) = Weigh(r, Nth(f, q), Nth(f, q + 1))
  BY PercentileAt
<1>2. /\ i \in Nat /\ k \in 0 .. 19 /\ i < n /\ o * (n - 1) = 20 * i + k
      /\ k = 0 => Percentile(g, o) = 20 * Nth(g, i)
      /\ k # 0 => i + 1 < n /\ Percentile(g, o) = Weigh(k, Nth(g, i), Nth(g, i + 1))
  BY PercentileAt
<1>3. /\ Percentile(f, p) \in Nat /\ 20 * Nth(f, q) <= Percentile(f, p)
      /\ q + 1 < n => Percentile(f, p) <= 20 * Nth(f, q + 1)
  BY PercentileNear
<1>4. Percentile(g, o) \in Nat /\ 20 * Nth(g, i) <= Percentile(g, o)
  BY PercentileNear
<1> HIDE DEF q, r, i, k
<1>5. 20 * q + r <= 20 * i + k
  <2>1. n - 1 \in Nat /\ p \in Int /\ o \in Int
    BY <1>1
  <2>2. (n - 1) * p <= (n - 1) * o
    BY <2>1, TimesGrows
  <2>3. (n - 1) * p = p * (n - 1) /\ (n - 1) * o = o * (n - 1)
    BY <2>1
  <2> QED BY <1>1, <1>2, <2>2, <2>3
<1>6. \A x, y \in Nat : x <= y /\ y < n =>
        /\ Nth(f, x) \in Nat /\ Nth(g, y) \in Nat /\ Nth(f, x) <= Nth(g, y)
        /\ Nth(f, x) <= Nth(f, y) /\ Nth(g, x) <= Nth(g, y) /\ Nth(g, x) \in Nat
  <2> TAKE x \in Nat, y \in Nat
  <2> HAVE x <= y /\ y < n
  <2>1. x < n /\ n = Cardinality(DOMAIN f) /\ n = Cardinality(DOMAIN g)
    BY <1>1
  <2>2. /\ \A h \in DOMAIN f : f[h] <= f[h]
        /\ \A h \in DOMAIN g : g[h] <= g[h]
    BY DEF Line0
  <2> HIDE DEF n
  <2>3. Nth(f, x) \in Nat /\ Nth(g, x) \in Nat /\ Nth(g, y) \in Nat
    BY <2>1, NthIs
  <2>4. Nth(f, x) <= Nth(g, y)
    BY <2>1, NthGrows
  <2>5. Nth(f, x) <= Nth(f, y)
    BY <2>1, <2>2, NthGrows
  <2>6. Nth(g, x) <= Nth(g, y)
    BY <2>1, <2>2, NthGrows
  <2> QED BY <2>3, <2>4, <2>5, <2>6
<1> HIDE DEF n
<1>7. CASE q < i
  <2>1. q + 1 \in Nat /\ q + 1 <= i /\ q + 1 < n
    BY <1>1, <1>2, <1>7
  <2>2. Nth(f, q + 1) \in Nat /\ Nth(g, i) \in Nat /\ Nth(f, q + 1) <= Nth(g, i)
    BY <1>2, <1>6, <2>1
  <2>3. Percentile(f, p) <= 20 * Nth(f, q + 1)
    BY <1>3, <2>1
  <2> QED BY <1>3, <1>4, <2>2, <2>3
<1>8. CASE ~ q < i
  <2>1. q = i /\ r <= k
    BY <1>1, <1>2, <1>5, <1>8
  <2>2. Nth(f, q) \in Nat /\ Nth(g, i) \in Nat /\ Nth(f, q) <= Nth(g, i)
    <3>1. q <= i /\ i < n
      BY <1>2, <2>1
    <3> QED BY <1>1, <1>2, <1>6, <3>1
  <2>3. CASE r = 0
    BY <1>1, <1>3, <1>4, <2>2, <2>3
  <2>4. CASE r # 0
    <3>1. k # 0 /\ q + 1 \in Nat /\ q + 1 < n /\ q <= q + 1 /\ q + 1 <= q + 1
      BY <1>1, <1>2, <2>1, <2>4
    <3>2. /\ Nth(f, q + 1) \in Nat /\ Nth(g, q + 1) \in Nat
          /\ Nth(f, q + 1) <= Nth(g, q + 1)
          /\ Nth(f, q) <= Nth(f, q + 1) /\ Nth(g, q) <= Nth(g, q + 1)
      BY <1>1, <1>6, <3>1
    <3>3. /\ Percentile(f, p) = Weigh(r, Nth(f, q), Nth(f, q + 1))
          /\ Percentile(g, o) = Weigh(k, Nth(g, q), Nth(g, q + 1))
      BY <1>1, <1>2, <2>1, <2>4, <3>1
    <3>4. r \in 0 .. 20 /\ k \in 0 .. 20
      BY <1>1, <1>2
    <3>5. PICK a \in Nat, b \in Nat, c \in Nat, d \in Nat :
            a = Nth(f, q) /\ b = Nth(f, q + 1) /\ c = Nth(g, q) /\ d = Nth(g, q + 1)
      BY <2>1, <2>2, <3>2
    <3>6. a <= b /\ c <= d /\ a <= c /\ b <= d
      BY <2>1, <2>2, <3>2, <3>5
    <3>7. Weigh(r, a, b) <= Weigh(k, c, d)
      BY <2>1, <3>4, <3>5, <3>6, WeighGrows
    <3> QED BY <3>3, <3>5, <3>7
  <2> QED BY <2>3, <2>4
<1> QED BY <1>7, <1>8

(* No percentile is above the peak, and the peak of greater values is      *)
(* greater.                                                                *)
LEMMA PeakIs ==
  ASSUME NEW f, Line0(f), NEW p \in 0 .. 20
  PROVE  /\ Peak(f) \in Nat /\ Percentile(f, p) <= Peak(f)
         /\ \A h \in DOMAIN f : 20 * f[h] <= Peak(f)
         /\ \E h \in DOMAIN f : Peak(f) = 20 * f[h]
<1> DEFINE top == Greatest(ValuesOf(f))
<1>1. ValuesOf(f) \subseteq Nat /\ top \in ValuesOf(f) /\ \A v \in ValuesOf(f) : v <= top
  BY ValuesType, EndsOfFinite
<1>2. Peak(f) = 20 * top
  BY DEF Peak, ValuesOf
<1> HIDE DEF top
<1>3. top \in Nat /\ Peak(f) \in Nat
  BY <1>1, <1>2
<1>4. \A v \in ValuesOf(f) : 20 * v <= Peak(f)
  BY <1>1, <1>2, <1>3
<1>5. PICK v \in ValuesOf(f) : Percentile(f, p) <= 20 * v
  BY PercentileNear
<1>6. Percentile(f, p) <= Peak(f)
  <2>1. v \in Nat /\ Percentile(f, p) \in Nat /\ 20 * v <= Peak(f)
    BY <1>1, <1>4, <1>5, PercentileNear
  <2> QED BY <1>3, <1>5, <2>1
<1> QED BY <1>1, <1>2, <1>3, <1>4, <1>6 DEF ValuesOf

LEMMA PeakGrows ==
  ASSUME NEW f, Line0(f), NEW g, Line0(g), DOMAIN f = DOMAIN g,
         \A h \in DOMAIN f : f[h] <= g[h]
  PROVE  Peak(f) <= Peak(g)
<1>1. PICK h \in DOMAIN f : Peak(f) = 20 * f[h]
  BY PeakIs
<1>2. f[h] \in Nat /\ g[h] \in Nat /\ f[h] <= g[h] /\ 20 * g[h] <= Peak(g) /\ Peak(g) \in Nat
  <2>1. \A x \in DOMAIN g : 20 * g[x] <= Peak(g)
    BY PeakIs
  <2>2. Peak(g) \in Nat
    BY PeakIs
  <2> QED BY <2>1, <2>2 DEF Line0
<1> QED BY <1>1, <1>2
-----------------------------------------------------------------------------
(***************************************************************************)
(* Hints.                                                                  *)
(***************************************************************************)

(* Rounding takes off half a unit at most, and keeps the order.            *)
LEMMA RoundIs ==
  ASSUME NEW n \in Nat, NEW d \in Nat \ {0}
  PROVE  Round(n, d) \in Nat /\ 2 * n <= d * (2 * Round(n, d) + 1)
<1>1. PICK q \in Nat, r \in 0 .. d - 1 : q = n \div d /\ r = n % d /\ n = d * q + r
  BY DivIsFloor
<1>2. Round(n, d) = IF 2 * r > d \/ (2 * r = d /\ q % 2 = 1) THEN q + 1 ELSE q
  BY <1>1 DEF Round
<1>3. d * (2 * q + 1) = 2 * (d * q) + d /\ d * (2 * (q + 1) + 1) = 2 * (d * q) + 3 * d
      /\ d * q \in Nat
  BY <1>1
<1>4. CASE Round(n, d) = q + 1
  BY <1>1, <1>3, <1>4
<1>5. CASE Round(n, d) = q /\ 2 * r <= d
  BY <1>1, <1>3, <1>5
<1>6. (Round(n, d) = q + 1) \/ (Round(n, d) = q /\ 2 * r <= d)
  BY <1>1, <1>2
<1> QED BY <1>4, <1>5, <1>6

LEMMA RoundGrows ==
  ASSUME NEW m \in Nat, NEW n \in Nat, m <= n, NEW d \in Nat \ {0}
  PROVE  Round(m, d) <= Round(n, d)
<1>1. PICK q \in Nat, r \in 0 .. d - 1 : q = n \div d /\ r = n % d /\ n = d * q + r
  BY DivIsFloor
<1>2. PICK p \in Nat, k \in 0 .. d - 1 : p = m \div d /\ k = m % d /\ m = d * p + k
  BY DivIsFloor
<1>3. Round(n, d) = IF 2 * r > d \/ (2 * r = d /\ q % 2 = 1) THEN q + 1 ELSE q
  BY <1>1 DEF Round
<1>4. Round(m, d) = IF 2 * k > d \/ (2 * k = d /\ p % 2 = 1) THEN p + 1 ELSE p
  BY <1>2 DEF Round
<1>5. p <= q
  <2>1. m \in Int /\ n \in Int
    OBVIOUS
  <2>2. m \div d <= n \div d
    BY <2>1, DivGrows
  <2> QED BY <1>1, <1>2, <2>2
<1>6. CASE p < q
  BY <1>3, <1>4, <1>6
<1>7. CASE p = q
  <2>1. k <= r
    BY <1>1, <1>2, <1>7
  <2>2. CASE 2 * k > d
    BY <1>1, <1>2, <1>3, <1>4, <1>7, <2>1, <2>2
  <2>3. CASE 2 * k = d /\ p % 2 = 1
    BY <1>1, <1>2, <1>3, <1>4, <1>7, <2>1, <2>3
  <2>4. CASE ~ (2 * k > d \/ (2 * k = d /\ p % 2 = 1))
    BY <1>3, <1>4, <1>7, <2>4
  <2> QED BY <2>2, <2>3, <2>4
<1> QED BY <1>5, <1>6, <1>7

(* A hint is at least one grain, and half a grain below at most.           *)
LEMMA HintIs ==
  ASSUME NEW p \in Nat
  PROVE  Hint(p) \in Nat /\ 1 <= Hint(p) /\ 2 * p <= 20 * ((2 * Hint(p) + 1) * Unit * Grain)
<1> DEFINE D == 20 * Unit * Grain
           R == Round(p, D)
<1>1. Unit \in Nat \ {0} /\ Grain \in Nat \ {0}
  BY SeriesAssumption
<1>2. D \in Nat \ {0}
  BY <1>1
<1>3. Hint(p) = IF R < 1 THEN 1 ELSE R
  BY DEF Hint
<1>4. R \in Nat /\ 2 * p <= D * (2 * R + 1)
  <2> HIDE DEF D
  <2> QED BY <1>2, RoundIs
<1> HIDE DEF R
<1>5. PICK l \in Nat : l = Hint(p) /\ R <= l /\ 1 <= l
  BY <1>3, <1>4
<1>6. D * (2 * R + 1) <= D * (2 * l + 1) /\ D * (2 * R + 1) \in Nat /\ D * (2 * l + 1) \in Nat
  <2> HIDE DEF D
  <2>1. 2 * R + 1 \in Int /\ 2 * l + 1 \in Int /\ 2 * R + 1 <= 2 * l + 1
    BY <1>4, <1>5
  <2>2. PICK x \in Nat, y \in Nat : x = 2 * R + 1 /\ y = 2 * l + 1
    BY <1>4, <1>5
  <2>3. D * x <= D * y /\ D * x \in Nat /\ D * y \in Nat
    BY <1>2, <2>1, <2>2, TimesGrows
  <2> QED BY <2>2, <2>3
<1>7. D * (2 * l + 1) = 20 * ((2 * l + 1) * Unit * Grain)
  <2>1. PICK y \in Nat : y = 2 * l + 1
    BY <1>5
  <2>2. D * y = 20 * (y * Unit * Grain)
    BY <1>1, <2>1
  <2> QED BY <2>1, <2>2
<1>8. 2 * p <= 20 * ((2 * l + 1) * Unit * Grain)
  <2> HIDE DEF D
  <2> QED BY <1>2, <1>4, <1>6, <1>7
<1> QED BY <1>5, <1>8

LEMMA HintGrows ==
  ASSUME NEW p \in Nat, NEW q \in Nat, p <= q
  PROVE  Hint(p) <= Hint(q)
<1> DEFINE D == 20 * Unit * Grain
<1>1. Unit \in Nat \ {0} /\ Grain \in Nat \ {0}
  BY SeriesAssumption
<1>2. D \in Nat \ {0}
  BY <1>1
<1>3. /\ Hint(p) = IF Round(p, D) < 1 THEN 1 ELSE Round(p, D)
      /\ Hint(q) = IF Round(q, D) < 1 THEN 1 ELSE Round(q, D)
  BY DEF Hint
<1> HIDE DEF D
<1>4. Round(p, D) \in Nat /\ Round(q, D) \in Nat /\ Round(p, D) <= Round(q, D)
  BY <1>2, RoundIs, RoundGrows
<1> QED BY <1>3, <1>4

(* The hints of a series: the request is at most the limit, memory's limit *)
(* is the peak's, and greater values make no smaller hint.                 *)
LEMMA HintsOf ==
  ASSUME NEW f, Line0(f)
  PROVE  /\ Median(f) = Percentile(f, 10) /\ Median(f) \in Nat
         /\ P95(f) \in Nat /\ Median(f) <= P95(f)
         /\ Peak(f) \in Nat /\ P95(f) <= Peak(f) /\ MemoryLimit(f) = Hint(Peak(f))
<1>1. f # <<>>
  BY DEF Line0
<1>2. Median(f) = Percentile(f, 10) /\ P95(f) = Percentile(f, 19)
  BY <1>1 DEF Median, P95
<1>3. Median(f) \in Nat /\ P95(f) \in Nat
  BY <1>2, PercentileNear
<1>4. Percentile(f, 10) <= Percentile(f, 19)
  <2>1. \A h \in DOMAIN f : f[h] <= f[h]
    BY DEF Line0
  <2> QED BY <2>1, PercentileGrows
<1>5. Peak(f) \in Nat /\ P95(f) <= Peak(f)
  BY <1>2, PeakIs
<1>6. MemoryLimit(f) = Hint(Peak(f))
  <2>1. CASE P95(f) < Peak(f)
    BY <2>1 DEF MemoryLimit
  <2>2. CASE P95(f) = Peak(f)
    BY <1>3, <2>2 DEF MemoryLimit
  <2> QED BY <1>3, <1>5, <2>1, <2>2
<1> QED BY <1>2, <1>3, <1>4, <1>5, <1>6

-----------------------------------------------------------------------------
(***************************************************************************)
(* What the samples make of the series.                                    *)
(***************************************************************************)

(* Finitely many samples have a greatest. *)
LEMMA SamplesBounded ==
  ASSUME NEW s, Sampled(s)
  PROVE  /\ \A i \in DOMAIN s : s[i] \in Nat
         /\ \E hi \in Nat : \A i \in DOMAIN s : s[i] <= hi
<1> DEFINE V == {s[i] : i \in DOMAIN s}
           g == [i \in DOMAIN s |-> s[i]]
<1>1. \A i \in DOMAIN s : s[i] \in Nat
  BY SeriesAssumption DEF Sampled
<1>2. IsFiniteSet(DOMAIN s)
  BY SeriesAssumption, FS_Subset DEF Sampled
<1>3. g \in Surjection(DOMAIN s, V)
  BY DEF Surjection
<1>4. IsFiniteSet(V)
  <2> HIDE DEF g, V
  <2> QED BY <1>2, <1>3, FS_Surjection
<1>5. CASE V = {}
  <2>1. \A i \in DOMAIN s : s[i] <= 0
    BY <1>5
  <2> QED BY <1>1, <2>1
<1>6. CASE V # {}
  <2>1. V \subseteq Nat
    BY <1>1
  <2>2. Greatest(V) \in Nat /\ \A v \in V : v <= Greatest(V)
    <3> HIDE DEF V
    <3> QED BY <1>4, <1>6, <2>1, EndsOfFinite
  <2>3. \A i \in DOMAIN s : s[i] <= Greatest(V)
    BY <2>2
  <2> QED BY <1>1, <2>2, <2>3
<1> QED BY <1>5, <1>6

(* Unit makes the means exact: those of two hours, and the line between    *)
(* them at each hour it passes.                                            *)
LEMMA MeanDivides ==
  ASSUME NEW s, Sampled(s), NEW a \in HoursOf(s), NEW b \in HoursOf(s), a < b,
         NEW c \in {a, b}
  PROVE  \E x \in Nat : HourlyMean(s, c) = (b - a) * x
<1> DEFINE S == SamplesIn(s, c)
           n == Cardinality(S)
<1>1. a \in Nat /\ b \in Nat /\ c \in HoursOf(s)
  BY SamplesOfHour
<1>2. IsFiniteSet(S) /\ S \subseteq DOMAIN s /\ n \in 1 .. PerHour
  BY <1>1, SamplesOfHour
<1>3. SumOf(s, S) \in Nat
  <2>1. PICK hi \in Nat : \A i \in DOMAIN s : s[i] <= hi
    BY SamplesBounded
  <2>2. \A i \in S : s[i] \in Nat /\ 0 <= s[i] /\ s[i] <= s[i] /\ s[i] <= hi
    <3>1. \A i \in S : s[i] \in Nat /\ s[i] <= hi
      BY <1>2, <2>1, SamplesBounded
    <3> QED BY <3>1
  <2> HIDE DEF S
  <2> QED BY <1>2, <2>2, SumBetween
<1>4. HourlyMean(s, c) = (Unit * SumOf(s, S)) \div n
  BY DEF HourlyMean
<1>5. PICK y \in Nat : y = SumOf(s, S)
  BY <1>3
<1> HIDE DEF n
<1>6. PICK g \in Nat \ {0} : g = b - a
  <2>1. b - a \in Nat \ {0}
    BY <1>1
  <2> QED BY <2>1
<1>7. Unit % (n * g) = 0
  <2>1. PICK i \in DOMAIN s : a = i \div PerHour
    BY DEF HoursOf, HourOf
  <2>2. PICK j \in DOMAIN s : b = j \div PerHour
    BY DEF HoursOf, HourOf
  <2>3. i \in Instants /\ j \in Instants
    BY DEF Sampled
  <2>4. Unit % (n * (j \div PerHour - i \div PerHour)) = 0
    BY <1>2, <2>1, <2>2, <2>3, UnitAssumption
  <2>5. g = j \div PerHour - i \div PerHour
    BY <1>6, <2>1, <2>2
  <2> QED BY <2>4, <2>5
<1>8. n \in Nat \ {0} /\ Unit \in Nat /\ n * g \in Nat \ {0}
  <2>1. n \in Nat \ {0}
    BY <1>2, SeriesAssumption
  <2>2. n * g \in Nat \ {0}
    BY <2>1
  <2> QED BY <2>1, <2>2, SeriesAssumption
<1>9. PICK u \in Nat : Unit = (n * g) * u
  <2>1. PICK d \in Nat \ {0} : d = n * g
    BY <1>8
  <2>2. Unit \div d \in Nat /\ Unit = d * (Unit \div d) + (Unit % d)
    BY <1>8, DivIsFloor
  <2>3. Unit = d * (Unit \div d)
    BY <1>7, <1>8, <2>1, <2>2
  <2> QED BY <2>1, <2>2, <2>3
<1>10. Unit * y = n * (g * (u * y))
  BY <1>8, <1>9
<1>11. (Unit * y) \div n = g * (u * y)
  <2>1. PICK m \in Int : m = g * (u * y)
    OBVIOUS
  <2>2. (n * m) \div n = m
    BY <1>8, DivOfProduct
  <2> QED BY <1>10, <2>1, <2>2
<1>12. u * y \in Nat
  OBVIOUS
<1> QED BY <1>4, <1>5, <1>6, <1>11, <1>12

(* A series of samples that were taken has values to draw a percentile of. *)
LEMMA SeriesOf ==
  ASSUME NEW s, Sampled(s), HoursOf(s) # {}
  PROVE  Line0(PrepareSeries(s))
<1>1. DOMAIN PrepareSeries(s) # {} /\ IsFiniteSet(DOMAIN PrepareSeries(s))
  BY SeriesExtent DEF Sampled
<1>2. ASSUME NEW h \in DOMAIN PrepareSeries(s) PROVE PrepareSeries(s)[h] \in Nat
  <2>1. PICK hi \in Nat : \A i \in DOMAIN s : s[i] <= hi
    BY SamplesBounded
  <2>2. \A i \in Around(s, h) : 0 <= s[i] /\ s[i] <= s[i] /\ s[i] <= hi
    <3>1. Around(s, h) \subseteq DOMAIN s
      BY DEF Around, SamplesIn
    <3>2. \A i \in DOMAIN s : s[i] \in Nat
      BY SamplesBounded
    <3> QED BY <2>1, <3>1, <3>2
  <2> QED BY <2>2, SeriesBetween
<1> QED BY <1>1, <1>2 DEF Line0

(* Revised upwards, the samples make a series of the same hours that is    *)
(* nowhere smaller.                                                        *)
LEMMA SeriesGrows ==
  ASSUME NEW s, Sampled(s), NEW t, Sampled(t), DOMAIN s = DOMAIN t,
         \A i \in DOMAIN s : s[i] <= t[i]
  PROVE  /\ DOMAIN PrepareSeries(s) = DOMAIN PrepareSeries(t)
         /\ \A h \in DOMAIN PrepareSeries(s) : PrepareSeries(s)[h] <= PrepareSeries(t)[h]
<1>1. HoursOf(s) = HoursOf(t)
  BY DEF HoursOf
<1>2. DOMAIN PrepareSeries(s) = DOMAIN PrepareSeries(t)
  BY <1>1, ExtentGrows DEF Sampled
<1>3. ASSUME NEW h \in DOMAIN PrepareSeries(s)
      PROVE  PrepareSeries(s)[h] <= PrepareSeries(t)[h]
  <2>1. PICK hi \in Nat : \A i \in DOMAIN t : t[i] <= hi
    BY SamplesBounded
  <2>2. \A i \in Around(s, h) : 0 <= s[i] /\ s[i] <= t[i] /\ t[i] <= hi
    <3>1. Around(s, h) \subseteq DOMAIN s
      BY DEF Around, SamplesIn
    <3>2. \A i \in DOMAIN s : s[i] \in Nat
      BY SamplesBounded
    <3> QED BY <2>1, <3>1, <3>2
  <2> QED BY <2>2, SeriesBetween
<1> QED BY <1>2, <1>3

-----------------------------------------------------------------------------
(***************************************************************************)
(* Theorems.                                                               *)
(***************************************************************************)

(* The chart of the series, however long, has its first point and no more  *)
(* points than it may (why/series.py:13-23).                               *)
THEOREM ChartsFit == Spec => []ChartFits
<1>1. Measured => ChartFits
  <2> SUFFICES ASSUME Measured, NPoints > 0
      PROVE  /\ 0 \in Chart(NPoints) /\ Cardinality(Chart(NPoints)) <= MaxPoints
             /\ (Stride(NPoints) - 1) * MaxPoints < NPoints
    BY DEF ChartFits
  <2>1. NPoints \in Nat
    BY SeriesExtent DEF Measured, Sampled, NPoints
  <2> QED BY <2>1, ChartOf, StrideIsEnough
<1> QED BY MeasuredHolds, <1>1, PTL

(* The domain of the series, for its type: every hour between the first    *)
(* and the last measured (prepare.py:16-22).                               *)
SeriesHasNoHoles ==
  /\ HoursOf(samples) \subseteq DOMAIN series
  /\ \A a, b \in DOMAIN series : a .. b \subseteq DOMAIN series

LEMMA NoHoles ==
  ASSUME Measured PROVE SeriesHasNoHoles
<1> DEFINE hours == HoursOf(samples)
<1>1. CASE hours = {}
  BY <1>1, SeriesExtent DEF Measured, Sampled, SeriesHasNoHoles
<1>2. CASE hours # {}
  <2>1. /\ hours \in SUBSET Nat /\ Least(hours) \in Nat /\ Greatest(hours) \in Nat
        /\ \A h \in hours : Least(hours) <= h /\ h <= Greatest(hours)
        /\ DOMAIN series = Least(hours) .. Greatest(hours)
    BY <1>2, SeriesExtent DEF Measured, Sampled
  <2> HIDE DEF hours
  <2>2. hours \subseteq DOMAIN series
    BY <2>1
  <2>3. \A a, b \in DOMAIN series : a .. b \subseteq DOMAIN series
    BY <2>1
  <2> QED BY <2>2, <2>3 DEF SeriesHasNoHoles, hours
<1> QED BY <1>1, <1>2

(* Whatever is collected, and in whatever order, the coverage never falls  *)
(* (confidence.py:17-30).                                                  *)
THEOREM CoverageCorrect == Spec => [][MoreSamplesCoverMore]_vars
<1>1. Measured /\ Measured' /\ [Next]_vars => [MoreSamplesCoverMore]_vars
  <2> SUFFICES ASSUME Measured, Measured', NEW i \in Instants, NEW v \in Values, Collect(i, v)
      PROVE  MoreSamplesCoverMore
    BY DEF Next
  <2>1. HoursOf(samples) \subseteq HoursOf(samples')
    BY DEF Collect, HoursOf
  <2>2. /\ DOMAIN samples \subseteq Instants /\ DOMAIN samples' \subseteq Instants
        /\ series = PrepareSeries(samples) /\ series' = PrepareSeries(samples')
    BY DEF Measured, Sampled, Collect
  <2>3. DOMAIN series \subseteq DOMAIN series' /\ IsFiniteSet(DOMAIN series')
        /\ NPoints \in Nat /\ NPoints' \in Nat
    BY <2>1, <2>2, ExtentGrows, SeriesExtent DEF NPoints
  <2>4. NPoints <= NPoints'
    BY <2>3, FS_Subset DEF NPoints
  <2>5. Coverage \in Nat /\ Coverage' \in Nat /\ Coverage <= Coverage'
    <3> HIDE DEF NPoints
    <3> QED BY <2>3, <2>4, SeriesAssumption DEF Coverage
  <2>6. LowCoverage' => LowCoverage
    <3>1. \A a, b, w \in Nat : a <= b /\ 10 * b < 6 * w => 10 * a < 6 * w
      OBVIOUS
    <3>2. Window \in Nat
      BY SeriesAssumption
    <3>3. LowCoverage' = (10 * Coverage' < 6 * Window)
      BY DEF LowCoverage
    <3>4. LowCoverage = (10 * Coverage < 6 * Window)
      BY DEF LowCoverage
    <3> HIDE DEF Coverage, LowCoverage
    <3> QED BY <2>5, <3>1, <3>2, <3>3, <3>4
  <2>7. Coverage' >= Coverage
    <3> HIDE DEF Coverage
    <3> QED BY <2>5
  <2> QED BY <2>6, <2>7 DEF MoreSamplesCoverMore
<1> QED BY MeasuredHolds, <1>1, PTL DEF Spec

(* The series has no hole, its values are naturals, and Unit makes the     *)
(* lines through its gaps exact (prepare.py:7-22).                         *)
THEOREM TypeCorrect == Spec => []TypeOK
<1>1. Measured /\ SeriesHasNoHoles => TypeOK
  <2> SUFFICES ASSUME Measured, SeriesHasNoHoles PROVE TypeOK
    OBVIOUS
  <2>1. DOMAIN samples \subseteq Instants /\ \A i \in DOMAIN samples : samples[i] \in Values
    BY DEF Measured, Sampled
  <2>2. ASSUME NEW h \in DOMAIN series PROVE series[h] \in Nat
    <3>1. CASE HoursOf(samples) = {}
      BY <2>1, <2>2, <3>1, SeriesExtent DEF Measured
    <3>2. CASE HoursOf(samples) # {}
      BY <2>2, <3>2, SeriesOf DEF Measured, Line0
    <3> QED BY <3>1, <3>2
  <2>3. ASSUME NEW h \in DOMAIN series, NEW a \in HoursOf(samples), NEW b \in HoursOf(samples),
               a < h, h < b
        PROVE  ((series[b] - series[a]) * (h - a)) % (b - a) = 0
    <3>1. a \in DOMAIN series /\ b \in DOMAIN series
      BY DEF SeriesHasNoHoles
    <3>2. a \in Nat /\ b \in Nat /\ h \in Nat
      BY <3>1, SeriesAt DEF Measured
    <3>3. series[a] = HourlyMean(samples, a) /\ series[b] = HourlyMean(samples, b)
      BY <3>1, SeriesAt DEF Measured
    <3>4. a < b
      BY <2>3, <3>2
    <3>5. PICK x \in Nat : HourlyMean(samples, a) = (b - a) * x
      BY <3>4, MeanDivides DEF Measured
    <3>6. PICK y \in Nat : HourlyMean(samples, b) = (b - a) * y
      BY <3>4, MeanDivides DEF Measured
    <3>7. PICK g \in Nat \ {0}, k \in Nat : g = b - a /\ k = h - a
      <4>1. b - a \in Nat \ {0} /\ h - a \in Nat
        BY <2>3, <3>2, <3>4
      <4> QED BY <4>1
    <3>8. PICK m \in Int : m = (y - x) * k
      OBVIOUS
    <3>9. series[a] = g * x /\ series[b] = g * y
      BY <3>3, <3>5, <3>6, <3>7
    <3>10. (g * y - g * x) * k = g * m
      BY <3>8
    <3>11. (g * m) % g = 0
      BY DivOfProduct
    <3>12. (series[b] - series[a]) * (h - a) = g * m
      BY <3>7, <3>9, <3>10
    <3> QED BY <3>7, <3>11, <3>12
  <2> QED BY <2>1, <2>2, <2>3 DEF TypeOK, SeriesHasNoHoles
<1>2. Measured => SeriesHasNoHoles
  BY NoHoles
<1> QED BY MeasuredHolds, <1>1, <1>2, PTL

(* Every hour, measured or filled, is between the least and the greatest   *)
(* of the samples of the measured hours around it (prepare.py:7-22).       *)
THEOREM GapsCorrect == Spec => []GapsStayWithinSamples
<1>1. Measured => GapsStayWithinSamples
  <2> SUFFICES ASSUME Measured, NEW h \in DOMAIN series
      PROVE  LET near == {samples[i] : i \in Around(samples, h)} IN
             Unit * Least(near) <= series[h] /\ series[h] <= Unit * Greatest(near)
    BY DEF GapsStayWithinSamples, Around
  <2> DEFINE I == Around(samples, h)
             near == {samples[i] : i \in I}
             f == [i \in I |-> samples[i]]
  <2>1. h \in DOMAIN PrepareSeries(samples) /\ Sampled(samples) /\ series = PrepareSeries(samples)
    BY DEF Measured
  <2>2. I \subseteq DOMAIN samples
    BY DEF Around, SamplesIn
  <2>3. I # {}
    <3>1. Before(HoursOf(samples), h) \in HoursOf(samples)
      BY <2>1, SeriesAt
    <3> QED BY <3>1 DEF Around, SamplesIn, HoursOf
  <2>4. IsFiniteSet(I)
    <3> HIDE DEF I
    <3>1. I \subseteq Instants
      BY <2>1, <2>2 DEF Sampled
    <3> QED BY <3>1, FS_Subset, SeriesAssumption
  <2> HIDE DEF I
  <2>5. near \subseteq Nat /\ near # {}
    BY <2>1, <2>2, <2>3, SamplesBounded
  <2>6. IsFiniteSet(near)
    <3>1. f \in Surjection(I, near)
      BY DEF Surjection
    <3> HIDE DEF f, near
    <3> QED BY <2>4, <3>1, FS_Surjection
  <2>7. /\ Least(near) \in Nat /\ Greatest(near) \in Nat
        /\ \A v \in near : Least(near) <= v /\ v <= Greatest(near)
    <3> HIDE DEF near
    <3> QED BY <2>5, <2>6, EndsOfFinite
  <2>8. \A i \in I : /\ Least(near) <= samples[i] /\ samples[i] <= samples[i]
                     /\ samples[i] <= Greatest(near)
    <3>1. \A i \in I : samples[i] \in near
      OBVIOUS
    <3>2. \A v \in near : v <= v
      BY <2>5
    <3> HIDE DEF near
    <3> QED BY <2>7, <3>1, <3>2
  <2> HIDE DEF near
  <2>9. Unit * Least(near) <= series[h] /\ series[h] <= Unit * Greatest(near)
    BY <2>1, <2>7, <2>8, SeriesBetween DEF I
  <2> QED BY <2>9 DEF near, I
<1> QED BY MeasuredHolds, <1>1, PTL

(* There is a series when there was a sample. *)
LEMMA MeasuredLine ==
  ASSUME Measured, series # <<>>
  PROVE  HoursOf(samples) # {} /\ Line0(series)
<1>1. HoursOf(samples) # {}
  BY DEF Measured, PrepareSeries
<1> QED BY <1>1, SeriesOf DEF Measured

(* The hints can be applied: the request is at most the limit, and no hour *)
(* is more than half a grain above memory's limit (export.py:76-114).      *)
THEOREM HintsCorrect == Spec => []HintsAreOrdered
<1>1. Measured => HintsAreOrdered
  <2> SUFFICES ASSUME Measured, series # <<>>
      PROVE  /\ 1 <= CpuRequest(series) /\ CpuRequest(series) <= CpuLimit(series)
             /\ CpuLimit(series) <= MemoryLimit(series)
             /\ \A h \in HoursOf(samples) :
                  2 * HourlyMean(samples, h) <= (2 * MemoryLimit(series) + 1) * Unit * Grain
    BY DEF HintsAreOrdered
  <2>1. HoursOf(samples) # {} /\ Line0(series)
    BY MeasuredLine
  <2>2. /\ Median(series) \in Nat /\ P95(series) \in Nat /\ Median(series) <= P95(series)
        /\ Peak(series) \in Nat /\ P95(series) <= Peak(series)
        /\ MemoryLimit(series) = Hint(Peak(series))
    BY <2>1, HintsOf
  <2>3. /\ CpuRequest(series) = Hint(Median(series)) /\ CpuLimit(series) = Hint(P95(series))
    BY DEF CpuRequest, CpuLimit
  <2>4. 1 <= CpuRequest(series) /\ CpuRequest(series) <= CpuLimit(series)
    BY <2>2, <2>3, HintIs, HintGrows
  <2>5. CpuLimit(series) <= MemoryLimit(series)
    BY <2>2, <2>3, HintGrows
  <2>6. ASSUME NEW h \in HoursOf(samples)
        PROVE  2 * HourlyMean(samples, h) <= (2 * MemoryLimit(series) + 1) * Unit * Grain
    <3>1. h \in DOMAIN series
      <4>1. /\ DOMAIN series = Least(HoursOf(samples)) .. Greatest(HoursOf(samples))
            /\ Least(HoursOf(samples)) <= h /\ h <= Greatest(HoursOf(samples))
            /\ HoursOf(samples) \in SUBSET Nat
            /\ Least(HoursOf(samples)) \in HoursOf(samples)
            /\ Greatest(HoursOf(samples)) \in HoursOf(samples)
        BY <2>1, SeriesExtent DEF Measured, Sampled
      <4> HIDE DEF HoursOf
      <4> QED BY <4>1
    <3>2. series[h] = HourlyMean(samples, h) /\ series[h] \in Nat
      BY <2>1, <3>1, SeriesAt DEF Measured, Line0
    <3>3. 20 * series[h] <= Peak(series)
      <4>1. 10 \in 0 .. 20
        OBVIOUS
      <4> QED BY <2>1, <3>1, <4>1, PeakIs
    <3>4. PICK l \in Nat : l = MemoryLimit(series)
      BY <2>2, HintIs
    <3>5. 2 * Peak(series) <= 20 * ((2 * l + 1) * Unit * Grain)
      BY <2>2, <3>4, HintIs
    <3>6. PICK e \in Nat : e = (2 * l + 1) * Unit * Grain
      BY SeriesAssumption
    <3>7. 2 * Peak(series) <= 20 * e
      BY <3>5, <3>6
    <3>8. 2 * series[h] <= e
      BY <2>2, <3>2, <3>3, <3>7
    <3> QED BY <3>2, <3>4, <3>6, <3>8
  <2> QED BY <2>4, <2>5, <2>6
<1> QED BY MeasuredHolds, <1>1, PTL

(* A later collection takes no coverage away, and a sample revised upwards *)
(* makes neither the median, nor a hint, nor the fraction of its allocation*)
(* smaller (prepare.py:7-22, crosscluster.py:32-36, export.py:76-114).     *)
THEOREM MoreCorrect == Spec => MoreIsMore
<1>1. Measured /\ Measured' => [UsingMoreNeverLooksLess]_vars
  <2> SUFFICES ASSUME Measured, Measured', RevisedUp
      PROVE  /\ Median(series') >= Median(series)
             /\ CpuLimit(series') >= CpuLimit(series)
             /\ MemoryLimit(series') >= MemoryLimit(series)
             /\ \A k \in {"request", "limit"}, y \in Amounts :
                  LET alloc == [x \in {k} |-> y] IN
                  Median(series') * Effective(samples, alloc)
                    >= Median(series) * Effective(samples', alloc)
    BY DEF UsingMoreNeverLooksLess
  <2>1. /\ Sampled(samples) /\ series = PrepareSeries(samples)
        /\ Sampled(samples') /\ series' = PrepareSeries(samples')
    BY DEF Measured, Sampled
  <2>2. HoursOf(samples) # {} /\ Line0(series)
    BY MeasuredLine DEF RevisedUp
  <2>3. DOMAIN samples' = DOMAIN samples
    BY DEF RevisedUp
  <2>4. Line0(series')
    <3>1. HoursOf(samples') # {}
      BY <2>2, <2>3 DEF HoursOf
    <3> QED BY <2>1, <3>1, SeriesOf
  <2>5. \A i \in DOMAIN samples : samples[i] <= samples'[i]
    BY <2>1, <2>3, SamplesBounded DEF RevisedUp
  <2>6. DOMAIN series = DOMAIN series' /\ \A h \in DOMAIN series : series[h] <= series'[h]
    BY <2>1, <2>3, <2>5, SeriesGrows
  <2>7. /\ Median(series) \in Nat /\ Median(series') \in Nat
        /\ P95(series) \in Nat /\ P95(series') \in Nat
        /\ Peak(series) \in Nat /\ Peak(series') \in Nat
        /\ MemoryLimit(series) = Hint(Peak(series))
        /\ MemoryLimit(series') = Hint(Peak(series'))
        /\ Median(series) = Percentile(series, 10) /\ Median(series') = Percentile(series', 10)
    BY <2>2, <2>4, HintsOf
  <2>8. Median(series) <= Median(series')
    BY <2>2, <2>4, <2>6, <2>7, PercentileGrows
  <2>9. P95(series) <= P95(series')
    BY <2>2, <2>4, <2>6, PercentileGrows DEF P95
  <2>10. Peak(series) <= Peak(series')
    BY <2>2, <2>4, <2>6, PeakGrows
  <2>11. CpuLimit(series) <= CpuLimit(series') /\ CpuLimit(series) \in Nat /\ CpuLimit(series') \in Nat
    BY <2>7, <2>9, HintIs, HintGrows DEF CpuLimit
  <2>12. /\ MemoryLimit(series) <= MemoryLimit(series')
         /\ MemoryLimit(series) \in Nat /\ MemoryLimit(series') \in Nat
    BY <2>7, <2>10, HintIs, HintGrows
  <2>13. ASSUME NEW k \in {"request", "limit"}, NEW y \in Amounts
         PROVE  Median(series') * Effective(samples, [x \in {k} |-> y])
                  >= Median(series) * Effective(samples', [x \in {k} |-> y])
    <3>1. /\ Effective(samples, [x \in {k} |-> y]) = y
          /\ Effective(samples', [x \in {k} |-> y]) = y
      BY DEF Effective
    <3>2. y \in Nat
      BY SeriesAssumption
    <3>3. y * Median(series) <= y * Median(series')
      BY <2>7, <2>8, <3>2, TimesGrows
    <3>4. PICK m \in Nat, n \in Nat : m = Median(series) /\ n = Median(series')
      BY <2>7
    <3>5. n * y >= m * y
      BY <3>2, <3>3, <3>4
    <3> QED BY <3>1, <3>4, <3>5
  <2> QED BY <2>7, <2>8, <2>11, <2>12, <2>13
<1>2. /\ [MoreSamplesCoverMore]_vars /\ [UsingMoreNeverLooksLess]_vars
      => [MoreSamplesCoverMore /\ UsingMoreNeverLooksLess]_vars
  OBVIOUS
<1> QED BY MeasuredHolds, CoverageCorrect, <1>1, <1>2, PTL DEF MoreIsMore

=============================================================================
