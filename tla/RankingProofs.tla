--------------------------- MODULE RankingProofs ----------------------------
(***************************************************************************)
(* Proofs about Ranking, for groups of any size, any values and any        *)
(* configuration with weights and a step that are not negative.            *)
(***************************************************************************)
EXTENDS Ranking, FiniteSetTheorems, TLAPS

-----------------------------------------------------------------------------
(***************************************************************************)
(* Arithmetic.                                                             *)
(***************************************************************************)

(* The quotient and the remainder that Round looks at, and what it chooses.*)
LEMMA RoundCases ==
  ASSUME NEW p \in Int, NEW q \in Nat \ {0}
  PROVE  /\ p \div q \in Int /\ p % q \in 0 .. q - 1
         /\ p = q * (p \div q) + (p % q)
         /\ \/ Round(p, q) = p \div q /\ 2 * (p % q) <= q
            \/ Round(p, q) = (p \div q) + 1 /\ 2 * (p % q) >= q
  <1>1. p \div q \in Int /\ p % q \in 0 .. q - 1 /\ p = q * (p \div q) + (p % q)
    OBVIOUS
  <1>2. \/ Round(p, q) = p \div q /\ 2 * (p % q) <= q
        \/ Round(p, q) = (p \div q) + 1 /\ 2 * (p % q) >= q
    BY <1>1 DEF Round
  <1> QED BY <1>1, <1>2

LEMMA RoundType ==
  ASSUME NEW p \in Int, NEW q \in Nat \ {0}
  PROVE  Round(p, q) \in Int
  <1>1. p \div q \in Int /\ (Round(p, q) = p \div q \/ Round(p, q) = (p \div q) + 1)
    BY RoundCases
  <1> QED BY <1>1

(* Round is off by a half at most.                                         *)
LEMMA RoundIsNear ==
  ASSUME NEW p \in Int, NEW q \in Nat \ {0}
  PROVE  2 * (Round(p, q) * q) <= 2 * p + q /\ 2 * p <= 2 * (Round(p, q) * q) + q
  <1> DEFINE f == p \div q
             r == p % q
  <1>1. /\ f \in Int /\ r \in 0 .. q - 1 /\ p = q * f + r
        /\ \/ Round(p, q) = f /\ 2 * r <= q
           \/ Round(p, q) = f + 1 /\ 2 * r >= q
    BY RoundCases
  <1>2. (f + 1) * q = q * f + q /\ f * q = q * f
    BY <1>1
  <1> HIDE DEF f, r
  <1> QED BY <1>1, <1>2

(* Products of naturals grow with both factors. *)
LEMMA ProductGrows ==
  ASSUME NEW w \in Nat, NEW a \in Int, NEW b \in Int, a <= b
  PROVE  w * a <= w * b /\ a * w <= b * w
  OBVIOUS

LEMMA RoundGrows ==
  ASSUME NEW p \in Int, NEW p2 \in Int, NEW q \in Nat \ {0}, p <= p2
  PROVE  Round(p, q) <= Round(p2, q)
  <1> DEFINE f == p \div q
             r == p % q
             f2 == p2 \div q
             r2 == p2 % q
  <1>1. /\ f \in Int /\ r \in 0 .. q - 1 /\ p = q * f + r
        /\ \/ Round(p, q) = f
           \/ Round(p, q) = f + 1
    BY RoundCases
  <1>2. /\ f2 \in Int /\ r2 \in 0 .. q - 1 /\ p2 = q * f2 + r2
        /\ \/ Round(p2, q) = f2
           \/ Round(p2, q) = f2 + 1
    BY RoundCases
  <1>3. f <= f2
    <2> HIDE DEF f, r, f2, r2
    <2>1. SUFFICES ASSUME f2 + 1 <= f PROVE FALSE
      BY <1>1, <1>2
    <2>2. q * (f2 + 1) <= q * f
      BY <2>1, <1>1, <1>2, ProductGrows
    <2>3. q * (f2 + 1) = q * f2 + q
      BY <1>2
    <2> QED BY <2>2, <2>3, <1>1, <1>2
  <1>4. CASE f < f2
    <2> HIDE DEF f, r, f2, r2
    <2> QED BY <1>1, <1>2, <1>4
  <1>5. CASE f = f2
    <2>1. r <= r2
      <3> HIDE DEF f, r, f2, r2
      <3> QED BY <1>1, <1>2, <1>5
    <2>2. /\ Round(p, q) = IF 2 * r < q \/ (2 * r = q /\ f % 2 = 0) THEN f ELSE f + 1
          /\ Round(p2, q) = IF 2 * r2 < q \/ (2 * r2 = q /\ f2 % 2 = 0) THEN f2 ELSE f2 + 1
      BY DEF Round
    <2> HIDE DEF f, r, f2, r2
    <2> QED BY <2>1, <2>2, <1>1, <1>2, <1>5
  <1> QED
    <2> HIDE DEF f, r, f2, r2
    <2> QED BY <1>1, <1>2, <1>3, <1>4, <1>5

-----------------------------------------------------------------------------
(***************************************************************************)
(* The group.                                                              *)
(***************************************************************************)

(* The part of TypeOK that says what a state is.                           *)
GroupOK ==
  /\ members \subseteq Uids /\ members # {}
  /\ reps \in [members -> [Resources -> Values]]
  /\ cfg \in Configs

LEMMA GroupCorrect == Spec => []GroupOK
  <1>1. Init => GroupOK
    BY DEF Init, GroupOK
  <1>2. GroupOK /\ [Next]_vars => GroupOK'
    <2> SUFFICES ASSUME GroupOK, [Next]_vars PROVE GroupOK'
      OBVIOUS
    <2>1. ASSUME NEW m \in members, NEW r \in Resources, NEW v \in Values,
                 Collect(m, r, v)
          PROVE  GroupOK'
      BY <2>1 DEF Collect, GroupOK
    <2>2. CASE UNCHANGED vars
      BY <2>2 DEF GroupOK, vars
    <2> QED BY <2>1, <2>2 DEF Next
  <1> QED BY <1>1, <1>2, PTL DEF Spec

(* The size of the group, and what its configuration holds.                *)
LEMMA GroupFacts ==
  ASSUME GroupOK
  PROVE  /\ IsFiniteSet(members) /\ Cardinality(members) \in Nat \ {0}
         /\ \A x \in members : x \in Nat
         /\ \A x \in members, r \in Resources : reps[x][r] \in Nat
         /\ cfg \in ConfigType /\ cfg.min <= cfg.max
  <1>1. IsFiniteSet(members)
    BY UidsAssumption, FS_Subset DEF GroupOK
  <1>2. Cardinality(members) \in Nat \ {0}
    BY <1>1, FS_CardinalityType, FS_EmptySet DEF GroupOK
  <1> QED
    BY <1>1, <1>2, UidsAssumption, ValuesAssumption, ConfigsAssumption DEF GroupOK

LEMMA ConfigFacts ==
  ASSUME GroupOK
  PROVE  /\ \A r \in Resources : cfg.weights[r] \in Nat
         /\ cfg.guaranteed \in Nat /\ cfg.burstable \in Nat /\ cfg.split \in Nat \ {0}
         /\ cfg.base \in Int /\ cfg.step \in Nat /\ cfg.min \in Int /\ cfg.max \in Int
         /\ cfg.min <= cfg.max
  BY GroupFacts DEF ConfigType

LEMMA WeightFacts ==
  ASSUME GroupOK
  PROVE  /\ \A r \in Resources : Weight(r) \in Nat
         /\ TotalWeight \in Nat \ {0}
         /\ TotalWeight = Weight("cpu") + Weight("memory") + Weight("interactions")
  BY ConfigFacts DEF Weight, TotalWeight, SumOf, Resources

(* A member counts itself, and at most everyone.                           *)
LEMMA CountFacts ==
  ASSUME GroupOK, NEW m \in members, NEW r \in Resources
  PROVE  CountUpTo(m, r) \in 1 .. Cardinality(members)
  <1> DEFINE S == {x \in members : reps[x][r] <= reps[m][r]}
  <1>1. S \subseteq members /\ m \in S
    BY GroupFacts
  <1>2. IsFiniteSet(S) /\ Cardinality(S) \in Nat /\ Cardinality(S) <= Cardinality(members)
    BY <1>1, GroupFacts, FS_Subset, FS_CardinalityType
  <1>3. Cardinality(S) # 0
    BY <1>1, <1>2, FS_EmptySet
  <1> QED BY <1>2, <1>3, GroupFacts DEF CountUpTo

(* Scores are naturals between the total weight and Whole. *)
LEMMA ScoreFacts ==
  ASSUME GroupOK, NEW m \in members
  PROVE  /\ ScoreOf(m) \in Nat /\ Whole \in Nat \ {0}
         /\ TotalWeight <= ScoreOf(m) /\ ScoreOf(m) <= Whole
  <1> DEFINE n == Cardinality(members)
             c == CountUpTo(m, "cpu")
             d == CountUpTo(m, "memory")
             e == CountUpTo(m, "interactions")
             u == Weight("cpu")
             v == Weight("memory")
             w == Weight("interactions")
  <1>1. n \in Nat \ {0} /\ c \in 1 .. n /\ d \in 1 .. n /\ e \in 1 .. n
    BY GroupFacts, CountFacts DEF Resources
  <1>2. u \in Nat /\ v \in Nat /\ w \in Nat /\ TotalWeight \in Nat \ {0} /\ TotalWeight = u + v + w
    BY WeightFacts DEF Resources
  <1>3. ScoreOf(m) = u * c + v * d + w * e /\ Whole = TotalWeight * n
    BY DEF ScoreOf, Whole
  <1> HIDE DEF n, c, d, e, u, v, w
  <1>4. /\ u * 1 <= u * c /\ u * c <= u * n
        /\ v * 1 <= v * d /\ v * d <= v * n
        /\ w * 1 <= w * e /\ w * e <= w * n
    BY <1>1, <1>2, ProductGrows
  <1>5. u * c \in Nat /\ v * d \in Nat /\ w * e \in Nat
    BY <1>1, <1>2
  <1>6. TotalWeight * n = u * n + v * n + w * n
    BY <1>1, <1>2
  <1>7. TotalWeight * n \in Nat \ {0}
    BY <1>1, <1>2
  <1>8. u * n \in Nat /\ v * n \in Nat /\ w * n \in Nat
    BY <1>1, <1>2
  <1> QED BY <1>2, <1>3, <1>4, <1>5, <1>6, <1>7, <1>8

(* A member with higher counts on every resource has no lower score. *)
LEMMA ScoreGrows ==
  ASSUME GroupOK, NEW m \in members, NEW x \in members,
         \A r \in Resources : CountUpTo(m, r) <= CountUpTo(x, r)
  PROVE  ScoreOf(m) <= ScoreOf(x)
  <1> DEFINE P(r) == Weight(r) * CountUpTo(m, r)
             Q(r) == Weight(r) * CountUpTo(x, r)
  <1>1. ASSUME NEW r \in Resources
        PROVE  P(r) \in Int /\ Q(r) \in Int /\ P(r) <= Q(r)
    <2>1. Weight(r) \in Nat /\ CountUpTo(m, r) \in Int /\ CountUpTo(x, r) \in Int
      BY WeightFacts, CountFacts, GroupFacts
    <2> QED BY <2>1, ProductGrows
  <1>2. /\ ScoreOf(m) = P("cpu") + P("memory") + P("interactions")
        /\ ScoreOf(x) = Q("cpu") + Q("memory") + Q("interactions")
    BY DEF ScoreOf
  <1> HIDE DEF P, Q
  <1>3. {"cpu", "memory", "interactions"} \subseteq Resources
    BY DEF Resources
  <1> QED BY <1>1, <1>2, <1>3

(* A rank is a slot of the group. *)
LEMMA PositionFacts ==
  ASSUME GroupOK, NEW m \in members
  PROVE  Position(m) \in 0 .. Cardinality(members) - 1
  <1> DEFINE S == {x \in members : Precedes(x, m)}
  <1>1. S \subseteq members \ {m}
    BY GroupFacts, ScoreFacts DEF Precedes
  <1>2. /\ IsFiniteSet(members \ {m})
        /\ Cardinality(members \ {m}) = Cardinality(members) - 1
    BY GroupFacts, FS_RemoveElement
  <1>3. IsFiniteSet(S) /\ Cardinality(S) \in Nat /\ Cardinality(S) <= Cardinality(members \ {m})
    BY <1>1, <1>2, FS_Subset, FS_CardinalityType
  <1> QED BY <1>2, <1>3, GroupFacts DEF Position

(* Whoever has no lower score, and comes first by uid if it is the same,   *)
(* has no lower rank.                                                      *)
LEMMA PositionFollowsScore ==
  ASSUME GroupOK, NEW a \in members, NEW b \in members,
         ScoreOf(a) > ScoreOf(b) \/ (ScoreOf(a) = ScoreOf(b) /\ a <= b)
  PROVE  Position(a) <= Position(b)
  <1> DEFINE S(m) == {x \in members : Precedes(x, m)}
  <1>1. ASSUME NEW x \in members, Precedes(x, a) PROVE Precedes(x, b)
    <2>1. /\ ScoreOf(x) \in Nat /\ ScoreOf(a) \in Nat /\ ScoreOf(b) \in Nat
          /\ x \in Nat /\ a \in Nat /\ b \in Nat
      BY ScoreFacts, GroupFacts
    <2> QED BY <1>1, <2>1 DEF Precedes
  <1>2. S(a) \subseteq S(b) /\ S(b) \subseteq members
    BY <1>1
  <1>3. IsFiniteSet(S(b))
    BY <1>2, GroupFacts, FS_Subset
  <1>4. Cardinality(S(a)) <= Cardinality(S(b))
    BY <1>2, <1>3, FS_Subset
  <1> QED BY <1>4 DEF Position

LEMMA ScoreFollowsPosition ==
  ASSUME GroupOK, NEW a \in members, NEW b \in members, Position(a) < Position(b)
  PROVE  ScoreOf(a) >= ScoreOf(b)
  <1>1. ScoreOf(a) \in Nat /\ ScoreOf(b) \in Nat /\ Position(a) \in Int /\ Position(b) \in Int
    BY ScoreFacts, PositionFacts, GroupFacts
  <1>2. CASE ScoreOf(b) > ScoreOf(a)
    <2>1. Position(b) <= Position(a)
      BY <1>2, PositionFollowsScore
    <2> QED BY <2>1, <1>1
  <1> QED BY <1>1, <1>2

(* The cuts of a group of n are integers, and at least one is Guaranteed.  *)
LEMMA CutFacts ==
  ASSUME GroupOK, NEW n \in Nat
  PROVE  GuaranteedEnd(n) \in Nat \ {0} /\ BurstableEnd(n) \in Int
  <1>1. /\ cfg.guaranteed * n \in Int
        /\ (cfg.guaranteed + cfg.burstable) * n \in Int
    BY ConfigFacts
  <1>2. /\ Round(cfg.guaranteed * n, cfg.split) \in Int
        /\ Round((cfg.guaranteed + cfg.burstable) * n, cfg.split) \in Int
    BY <1>1, ConfigFacts, RoundType
  <1> QED BY <1>2 DEF GuaranteedEnd, BurstableEnd, AtLeast, AtMost

(* Down the ranks, classes only get worse. *)
LEMMA ClassFollowsPosition ==
  ASSUME GroupOK, NEW i \in Int, NEW j \in Int, i <= j
  PROVE  Order(ClassAt(i)) >= Order(ClassAt(j))
  <1> DEFINE n == Cardinality(members)
             g == GuaranteedEnd(n)
             b == BurstableEnd(n)
  <1>1. g \in Int /\ b \in Int
    BY GroupFacts, CutFacts
  <1>2. ASSUME NEW k \in Int
        PROVE  Order(ClassAt(k)) = IF k < g THEN 2 ELSE IF k < b THEN 1 ELSE 0
    BY DEF ClassAt, Order
  <1> HIDE DEF n, g, b
  <1> QED BY <1>1, <1>2

(* What is rounded to a priority, and that a better score never costs.     *)
LEMMA PriorityFacts ==
  ASSUME GroupOK, NEW m \in members
  PROVE  /\ cfg.base * Whole + cfg.step * ScoreOf(m) \in Int
         /\ Priority(m) \in cfg.min .. cfg.max
  <1>1. cfg.base * Whole + cfg.step * ScoreOf(m) \in Int
    BY ConfigFacts, ScoreFacts
  <1>2. Round(cfg.base * Whole + cfg.step * ScoreOf(m), Whole) \in Int
    BY <1>1, ScoreFacts, RoundType
  <1> QED BY <1>1, <1>2, ConfigFacts DEF Priority, AtLeast, AtMost

LEMMA PriorityGrows ==
  ASSUME GroupOK, NEW s \in Int, NEW t \in Int, s <= t
  PROVE  AtLeast(cfg.min, AtMost(Round(cfg.base * Whole + cfg.step * s, Whole), cfg.max))
      <= AtLeast(cfg.min, AtMost(Round(cfg.base * Whole + cfg.step * t, Whole), cfg.max))
  <1> DEFINE raw(x) == cfg.base * Whole + cfg.step * x
  <1>1. Whole \in Nat \ {0}
    BY ScoreFacts DEF GroupOK
  <1>2. /\ cfg.base * Whole \in Int /\ cfg.step * s \in Int /\ cfg.step * t \in Int
        /\ cfg.step * s <= cfg.step * t
    BY <1>1, ConfigFacts, ProductGrows
  <1>3. raw(s) \in Int /\ raw(t) \in Int /\ raw(s) <= raw(t)
    BY <1>2
  <1> HIDE DEF raw
  <1>4. /\ Round(raw(s), Whole) \in Int /\ Round(raw(t), Whole) \in Int
        /\ Round(raw(s), Whole) <= Round(raw(t), Whole)
    BY <1>1, <1>3, RoundType, RoundGrows
  <1>5. AtLeast(cfg.min, AtMost(Round(raw(s), Whole), cfg.max))
          <= AtLeast(cfg.min, AtMost(Round(raw(t), Whole), cfg.max))
    BY <1>4, ConfigFacts DEF AtLeast, AtMost
  <1> QED BY <1>5 DEF raw

LEMMA PriorityFollowsScore ==
  ASSUME GroupOK, NEW a \in members, NEW b \in members, ScoreOf(a) >= ScoreOf(b)
  PROVE  Priority(a) >= Priority(b)
  <1>1. ScoreOf(a) \in Int /\ ScoreOf(b) \in Int
    BY ScoreFacts
  <1>2. Priority(b) <= Priority(a)
    BY <1>1, PriorityGrows DEF Priority
  <1> QED BY <1>1, <1>2, PriorityFacts, ConfigFacts

-----------------------------------------------------------------------------
(***************************************************************************)
(* The properties.                                                         *)
(***************************************************************************)

(* The type invariant: every rank is a slot of its group, every priority   *)
(* is inside the configured band (ranking.py:68-70, assign.py:18-22).      *)
THEOREM TypeCorrect == Spec => []TypeOK
  <1>1. GroupOK => TypeOK
    BY PositionFacts, PriorityFacts DEF TypeOK, GroupOK
  <1> QED BY <1>1, GroupCorrect, PTL

(* Scores are fractions, whatever the weights (ranking.py:22-31).          *)
THEOREM ScoresCorrect == Spec => []ScoresAreFractions
  <1>1. GroupOK => ScoresAreFractions
    BY ScoreFacts DEF ScoresAreFractions
  <1> QED BY <1>1, GroupCorrect, PTL

(* Class and priority agree, though one comes from the rank and the other  *)
(* from the score (assign.py:18-45).                                       *)
LEMMA ClassAndPriorityAgree == GroupOK => AdviceAgrees
  <1>1. ASSUME GroupOK, NEW a \in members, NEW b \in members,
               Position(a) < Position(b) \/ ScoreOf(a) > ScoreOf(b)
        PROVE  Order(Class(a)) >= Order(Class(b)) /\ Priority(a) >= Priority(b)
    <2>1. /\ Position(a) \in Int /\ Position(b) \in Int
          /\ ScoreOf(a) \in Int /\ ScoreOf(b) \in Int
      BY <1>1, PositionFacts, ScoreFacts, GroupFacts
    <2>2. Position(a) <= Position(b)
      BY <1>1, <2>1, PositionFollowsScore
    <2>3. ScoreOf(a) >= ScoreOf(b)
      BY <1>1, <2>1, ScoreFollowsPosition
    <2> QED BY <1>1, <2>1, <2>2, <2>3, ClassFollowsPosition, PriorityFollowsScore DEF Class
  <1> QED BY <1>1 DEF AdviceAgrees

(* Being ahead on every resource pays (ranking.py:14-19, 54-70).           *)
THEOREM DominanceCorrect == Spec => []DominanceIsRewarded
  <1>1. ASSUME GroupOK, NEW a \in members, NEW b \in members,
               \A r \in Resources : reps[a][r] >= reps[b][r]
        PROVE  /\ ScoreOf(a) >= ScoreOf(b) /\ Priority(a) >= Priority(b)
               /\ Order(Class(a)) >= Order(Class(b)) \/ (ScoreOf(a) = ScoreOf(b) /\ b < a)
    <2>1. ASSUME NEW r \in Resources PROVE CountUpTo(b, r) <= CountUpTo(a, r)
      <3> DEFINE S(m) == {x \in members : reps[x][r] <= reps[m][r]}
      <3>1. S(b) \subseteq S(a) /\ S(a) \subseteq members
        BY <1>1, GroupFacts
      <3>2. IsFiniteSet(S(a))
        BY <1>1, <3>1, GroupFacts, FS_Subset
      <3>3. Cardinality(S(b)) <= Cardinality(S(a))
        BY <3>1, <3>2, FS_Subset
      <3> QED BY <3>3 DEF CountUpTo
    <2>2. /\ ScoreOf(a) \in Nat /\ ScoreOf(b) \in Nat /\ a \in Nat /\ b \in Nat
          /\ Position(a) \in Int /\ Position(b) \in Int
      BY <1>1, ScoreFacts, PositionFacts, GroupFacts
    <2>3. ScoreOf(b) <= ScoreOf(a)
      BY <1>1, <2>1, ScoreGrows
    <2>4. Priority(a) >= Priority(b)
      BY <1>1, <2>2, <2>3, PriorityFollowsScore
    <2>5. CASE ScoreOf(a) > ScoreOf(b) \/ a <= b
      <3>1. Position(a) <= Position(b)
        BY <1>1, <2>2, <2>3, <2>5, PositionFollowsScore
      <3> QED BY <1>1, <2>2, <2>3, <2>4, <3>1, ClassFollowsPosition DEF Class
    <2>6. CASE ScoreOf(a) = ScoreOf(b) /\ b < a
      BY <2>3, <2>4, <2>6
    <2> QED BY <2>2, <2>3, <2>5, <2>6
  <1>2. GroupOK => DominanceIsRewarded
    BY <1>1 DEF DominanceIsRewarded
  <1> QED BY <1>2, GroupCorrect, PTL

(* Priorities keep the gaps of the scores (assign.py:1-8).                 *)
LEMMA GapsAreKept == GroupOK => GapsArePreserved
  <1> DEFINE raw(m) == cfg.base * Whole + cfg.step * ScoreOf(m)
             inside(m) == cfg.min < Priority(m) /\ Priority(m) < cfg.max
  <1>1. ASSUME GroupOK, NEW m \in members, inside(m)
        PROVE  /\ Priority(m) \in Int /\ raw(m) \in Int
               /\ 2 * (Priority(m) * Whole) <= 2 * raw(m) + Whole
               /\ 2 * raw(m) <= 2 * (Priority(m) * Whole) + Whole
    <2>1. raw(m) \in Int /\ Whole \in Nat \ {0}
      BY <1>1, PriorityFacts, ScoreFacts
    <2>2. Priority(m) = AtLeast(cfg.min, AtMost(Round(raw(m), Whole), cfg.max))
      BY DEF Priority
    <2> HIDE DEF raw
    <2>3. Round(raw(m), Whole) \in Int
      BY <2>1, RoundType
    <2>4. Priority(m) = Round(raw(m), Whole)
      BY <1>1, <2>2, <2>3, ConfigFacts DEF AtLeast, AtMost
    <2> QED BY <2>1, <2>3, <2>4, RoundIsNear
  <1>2. ASSUME GroupOK, NEW a \in members, NEW b \in members, inside(a), inside(b)
        PROVE  Distance((Priority(a) - Priority(b)) * Whole,
                        cfg.step * (ScoreOf(a) - ScoreOf(b))) <= Whole
    <2>1. /\ Priority(a) \in Int /\ Priority(b) \in Int /\ Whole \in Nat \ {0}
          /\ raw(a) \in Int /\ raw(b) \in Int
          /\ Priority(a) * Whole \in Int /\ Priority(b) * Whole \in Int
      BY <1>1, <1>2, ScoreFacts
    <2>2. (Priority(a) - Priority(b)) * Whole = Priority(a) * Whole - Priority(b) * Whole
      BY <2>1
    <2>3. cfg.step * (ScoreOf(a) - ScoreOf(b)) = raw(a) - raw(b)
      BY <1>2, ConfigFacts, ScoreFacts
    <2>4. /\ 2 * (Priority(a) * Whole) <= 2 * raw(a) + Whole
          /\ 2 * raw(a) <= 2 * (Priority(a) * Whole) + Whole
          /\ 2 * (Priority(b) * Whole) <= 2 * raw(b) + Whole
          /\ 2 * raw(b) <= 2 * (Priority(b) * Whole) + Whole
      BY <1>1, <1>2
    <2> HIDE DEF raw
    <2> QED BY <2>1, <2>2, <2>3, <2>4 DEF Distance
  <1> QED BY <1>2 DEF GapsArePreserved

(* The advice says what the scores say: class and priority agree, and      *)
(* priorities keep the gaps (assign.py:1-45).                              *)
THEOREM AdviceCorrect == Spec => []AdviceIsConsistent
  <1>1. GroupOK => AdviceIsConsistent
    BY ClassAndPriorityAgree, GapsAreKept DEF AdviceIsConsistent
  <1> QED BY <1>1, GroupCorrect, PTL

(* Using more never costs a workload its class or its priority, nor earns  *)
(* another a higher priority (assign.py:48-53).                            *)
THEOREM RaisingCorrect == Spec => RaisingHelps
  <1>1. ASSUME GroupOK, GroupOK', members' = members, cfg' = cfg, NEW m \in members,
               \A r \in Resources : reps'[m][r] >= reps[m][r],
               \A x \in members \ {m} : reps'[x] = reps[x]
        PROVE  /\ ChangeDirection(Class(m), Class(m)') # "lower"
               /\ Priority(m)' >= Priority(m)
               /\ \A x \in members \ {m} : Priority(x)' <= Priority(x)
    <2>1. ASSUME NEW r \in Resources
          PROVE  /\ \A x \in members : CountUpTo(x, r)' \in Nat
                 /\ CountUpTo(m, r) <= CountUpTo(m, r)'
                 /\ \A x \in members \ {m} : CountUpTo(x, r)' <= CountUpTo(x, r)
      <3> DEFINE S(x) == {y \in members : reps[y][r] <= reps[x][r]}
                 T(x) == {y \in members : reps'[y][r] <= reps'[x][r]}
      <3>1. /\ \A x \in members : reps[x][r] \in Nat /\ reps'[x][r] \in Nat
            /\ IsFiniteSet(members)
        BY <1>1, <2>1, GroupFacts, ValuesAssumption DEF GroupOK
      <3>2. S(m) \subseteq T(m)
        BY <1>1, <2>1, <3>1
      <3>3. \A x \in members \ {m} : T(x) \subseteq S(x)
        BY <1>1, <2>1, <3>1
      <3>4. \A x \in members : IsFiniteSet(S(x)) /\ IsFiniteSet(T(x))
        <4>1. \A x \in members : S(x) \subseteq members /\ T(x) \subseteq members
          OBVIOUS
        <4> HIDE DEF S, T
        <4> QED BY <3>1, <4>1, FS_Subset
      <3>5. /\ \A x \in members : CountUpTo(x, r) = Cardinality(S(x))
            /\ \A x \in members : CountUpTo(x, r)' = Cardinality(T(x))
        BY <1>1 DEF CountUpTo
      <3> HIDE DEF S, T
      <3> QED BY <3>2, <3>3, <3>4, <3>5, FS_Subset, FS_CardinalityType
    <2>2. Weight("cpu")' = Weight("cpu") /\ Weight("memory")' = Weight("memory")
          /\ Weight("interactions")' = Weight("interactions") /\ Whole' = Whole
      BY <1>1 DEF Weight, Whole, TotalWeight
    <2>3. ASSUME NEW x \in members
          PROVE  /\ ScoreOf(x) \in Nat /\ ScoreOf(x)' \in Nat
                 /\ x = m => ScoreOf(x) <= ScoreOf(x)'
                 /\ x # m => ScoreOf(x)' <= ScoreOf(x)
      <3> DEFINE P(r) == Weight(r) * CountUpTo(x, r)
                 Q(r) == Weight(r) * (CountUpTo(x, r)')
      <3>1. ASSUME NEW r \in Resources
            PROVE  /\ P(r) \in Nat /\ Q(r) \in Nat
                   /\ x = m => P(r) <= Q(r)
                   /\ x # m => Q(r) <= P(r)
        <4>1. Weight(r) \in Nat /\ CountUpTo(x, r) \in Nat /\ CountUpTo(x, r)' \in Nat
          BY <1>1, <2>1, WeightFacts, CountFacts, GroupFacts
        <4> QED BY <2>1, <4>1, ProductGrows
      <3>2. /\ ScoreOf(x) = P("cpu") + P("memory") + P("interactions")
            /\ ScoreOf(x)' = Q("cpu") + Q("memory") + Q("interactions")
        BY <2>2 DEF ScoreOf
      <3> HIDE DEF P, Q
      <3>3. {"cpu", "memory", "interactions"} \subseteq Resources
        BY DEF Resources
      <3> QED BY <3>1, <3>2, <3>3
    <2>4. \A x \in members : Priority(x)' =
            AtLeast(cfg.min,
              AtMost(Round(cfg.base * Whole + cfg.step * (ScoreOf(x)'), Whole), cfg.max))
      BY <1>1, <2>2 DEF Priority
    <2>5. /\ Priority(m) <= Priority(m)'
          /\ \A x \in members \ {m} : Priority(x)' <= Priority(x)
      BY <1>1, <2>3, <2>4, PriorityGrows DEF Priority
    <2>6. Position(m)' \in Int /\ Position(m)' <= Position(m)
      <3> DEFINE S == {x \in members : Precedes(x, m)}
                 T == {x \in members : Precedes(x, m)'}
      <3>1. T \subseteq S /\ S \subseteq members
        BY <1>1, <2>3, GroupFacts DEF Precedes
      <3>2. IsFiniteSet(S) /\ IsFiniteSet(T)
        BY <1>1, <3>1, GroupFacts, FS_Subset
      <3>3. Position(m) = Cardinality(S) /\ Position(m)' = Cardinality(T)
        BY <1>1 DEF Position
      <3> HIDE DEF S, T
      <3> QED BY <3>1, <3>2, <3>3, FS_Subset, FS_CardinalityType
    <2>7. Class(m)' = ClassAt(Position(m)')
      BY <1>1 DEF Class, ClassAt, GuaranteedEnd, BurstableEnd
    <2>8. Order(Class(m)') >= Order(Class(m))
      BY <1>1, <2>6, <2>7, PositionFacts, GroupFacts, ClassFollowsPosition DEF Class
    <2>9. Order(Class(m)) \in Int /\ Order(Class(m)') \in Int
      BY <2>7 DEF Class, ClassAt, Order
    <2>10. ChangeDirection(Class(m), Class(m)') # "lower"
      BY <2>8, <2>9 DEF ChangeDirection
    <2>11. \A x \in members : Priority(x) \in Int /\ Priority(x)' \in Int
      BY <1>1, <2>3, <2>4, PriorityFacts, ConfigFacts, ScoreFacts, RoundType
        DEF AtLeast, AtMost
    <2> QED BY <2>5, <2>10, <2>11
  <1>2. GroupOK /\ GroupOK' /\ [Next]_vars => [RaisingHelpsItself]_vars
    <2> SUFFICES ASSUME GroupOK, GroupOK', Next PROVE RaisingHelpsItself
      OBVIOUS
    <2>1. members' = members /\ cfg' = cfg
      BY DEF Next, Collect
    <2> QED BY <1>1, <2>1 DEF RaisingHelpsItself
  <1> QED BY <1>2, GroupCorrect, PTL DEF Spec, RaisingHelps

(* A quotient is the only one that leaves a rest. *)
LEMMA QuotientIsUnique ==
  ASSUME NEW q \in Nat \ {0}, NEW k \in Int, NEW r \in 0 .. q - 1
  PROVE  (q * k + r) \div q = k /\ (q * k + r) % q = r
  <1> DEFINE p == q * k + r
             a == p \div q
             b == p % q
  <1>1. p \in Int /\ q * k \in Int
    OBVIOUS
  <1>2. a \in Int /\ b \in 0 .. q - 1 /\ p = q * a + b
    BY <1>1, RoundCases
  <1>3. q * a \in Int /\ q * a + b = q * k + r
    BY <1>2
  <1>4. q * (k + 1) = q * k + q /\ q * (a + 1) = q * a + q
    BY <1>2
  <1> HIDE DEF p, a, b
  <1>5. CASE a < k
    <2>1. q * (a + 1) <= q * k
      BY <1>2, <1>5, ProductGrows
    <2> QED BY <1>1, <1>2, <1>3, <1>4, <2>1
  <1>6. CASE a > k
    <2>1. q * (k + 1) <= q * a
      BY <1>2, <1>6, ProductGrows
    <2> QED BY <1>1, <1>2, <1>3, <1>4, <2>1
  <1>7. CASE a = k
    BY <1>1, <1>2, <1>3, <1>7 DEF p, a, b
  <1> QED BY <1>2, <1>5, <1>6, <1>7

(* No two members have the same rank, and every rank is taken. *)
LEMMA RanksAreTaken ==
  ASSUME GroupOK
  PROVE  LET rank == [m \in members |-> Position(m)]
             slots == 0 .. Cardinality(members) - 1 IN
         rank \in Injection(members, slots) /\ rank \in Surjection(members, slots)
  <1> DEFINE rank == [m \in members |-> Position(m)]
             slots == 0 .. Cardinality(members) - 1
             S(m) == {x \in members : Precedes(x, m)}
  <1>1. ASSUME NEW a \in members, NEW b \in members, Precedes(a, b)
        PROVE  Position(a) # Position(b)
    <2>1. \A x \in members : x \in Nat /\ ScoreOf(x) \in Nat
      BY ScoreFacts, GroupFacts
    <2>2. S(a) \subseteq S(b) /\ S(b) \subseteq members
      BY <1>1, <2>1 DEF Precedes
    <2>3. a \in S(b) /\ a \notin S(a)
      BY <1>1, <2>1 DEF Precedes
    <2>4. IsFiniteSet(S(b))
      BY <2>2, GroupFacts, FS_Subset
    <2>5. Position(a) = Cardinality(S(a)) /\ Position(b) = Cardinality(S(b))
      BY DEF Position
    <2> HIDE DEF S
    <2> QED BY <2>2, <2>3, <2>4, <2>5, FS_Subset
  <1>2. ASSUME NEW a \in members, NEW b \in members, a # b PROVE Position(a) # Position(b)
    <2>1. Precedes(a, b) \/ Precedes(b, a)
      BY <1>2, ScoreFacts, GroupFacts DEF Precedes
    <2> QED BY <1>1, <2>1
  <1>3. rank \in Injection(members, slots)
    BY <1>2, PositionFacts DEF Injection, IsInjective
  <1>4. IsFiniteSet(slots) /\ Cardinality(slots) = Cardinality(members)
    <2>1. Cardinality(members) - 1 \in Int /\ ~ (0 > Cardinality(members) - 1)
      BY GroupFacts
    <2> QED BY <2>1, GroupFacts, FS_Interval
  <1> HIDE DEF rank, slots
  <1>5. rank \in Surjection(members, slots)
    BY <1>3, <1>4, FS_Injection
  <1> QED BY <1>3, <1>5 DEF rank, slots

(* As many members as ranks, in every slice of a group. *)
LEMMA SliceSize ==
  ASSUME GroupOK, NEW i \in Nat, NEW j \in Nat, i <= j, j <= Cardinality(members)
  PROVE  Cardinality({m \in members : i <= Position(m) /\ Position(m) < j}) = j - i
  <1> DEFINE S == {m \in members : i <= Position(m) /\ Position(m) < j}
             f == [m \in S |-> Position(m)]
  <1>1. \A m \in members : Position(m) \in Int
    BY PositionFacts, GroupFacts
  <1>2. \A k \in 0 .. Cardinality(members) - 1 : \E m \in members : Position(m) = k
    BY RanksAreTaken DEF Surjection
  <1>3. \A a, b \in members : Position(a) = Position(b) => a = b
    BY RanksAreTaken DEF Injection, IsInjective
  <1>4. f \in Injection(S, i .. j - 1)
    BY <1>1, <1>3 DEF Injection, IsInjective
  <1>5. f \in Surjection(S, i .. j - 1)
    <2>1. \A k \in i .. j - 1 : k \in 0 .. Cardinality(members) - 1
      BY GroupFacts
    <2>2. \A k \in i .. j - 1 : \E m \in S : Position(m) = k
      BY <1>1, <1>2, <2>1
    <2> QED BY <1>4, <2>2 DEF Surjection, Injection
  <1>6. IsFiniteSet(S)
    BY GroupFacts, FS_Subset
  <1> HIDE DEF S, f
  <1>7. Cardinality(S) = Cardinality(i .. j - 1)
    BY <1>4, <1>5, <1>6, FS_Surjection
  <1>8. Cardinality(i .. j - 1) = j - i
    <2>1. j - 1 \in Int /\ i \in Int
      OBVIOUS
    <2>2. Cardinality(i .. j - 1) = IF i > j - 1 THEN 0 ELSE (j - 1) - i + 1
      BY <2>1, FS_Interval
    <2> QED BY <2>2
  <1> QED BY <1>7, <1>8 DEF S

(* Where the slices of equal thirds end. *)
LEMMA ThirdsOf ==
  ASSUME GroupOK, NEW n \in Nat, n >= 3,
         3 * cfg.guaranteed = cfg.split, cfg.burstable = cfg.guaranteed
  PROVE  \E k \in Nat \ {0} :
           \/ GuaranteedEnd(n) = k /\ BurstableEnd(n) = 2 * k /\ n = 3 * k
           \/ GuaranteedEnd(n) = k /\ BurstableEnd(n) = 2 * k + 1 /\ n = 3 * k + 1
           \/ GuaranteedEnd(n) = k + 1 /\ BurstableEnd(n) = 2 * k + 1 /\ n = 3 * k + 2
  <1> DEFINE d == cfg.guaranteed
             q == cfg.split
  <1>1. d \in Nat \ {0} /\ q \in Nat \ {0} /\ q = 3 * d
    BY ConfigFacts
  <1>2. PICK k \in Nat : n = 3 * k \/ n = 3 * k + 1 \/ n = 3 * k + 2
    <2>1. n \div 3 \in Nat /\ n % 3 \in 0 .. 2 /\ n = 3 * (n \div 3) + (n % 3)
      OBVIOUS
    <2> QED BY <2>1
  <1>3. k \in Nat \ {0}
    BY <1>2
  <1>4. GuaranteedEnd(n) = AtLeast(1, Round(d * n, q))
        /\ BurstableEnd(n) = AtMost(n, AtLeast(GuaranteedEnd(n), Round((2 * d) * n, q)))
    <2>1. cfg.guaranteed + cfg.burstable = 2 * d
      BY <1>1
    <2> QED BY <2>1 DEF GuaranteedEnd, BurstableEnd
  <1> HIDE DEF d, q
  <1>5. ASSUME NEW l \in Nat, NEW r \in 0 .. q - 1
        PROVE  /\ (q * l + r) \div q = l /\ (q * l + r) % q = r
               /\ 2 * r < q => Round(q * l + r, q) = l
               /\ 2 * r > q => Round(q * l + r, q) = l + 1
    <2>1. (q * l + r) \div q = l /\ (q * l + r) % q = r
      BY <1>1, QuotientIsUnique
    <2>2. 2 * r \in Int /\ q \in Int
      BY <1>1
    <2> QED BY <2>1, <2>2 DEF Round
  <1>6. CASE n = 3 * k
    <2>1. d * n = q * k + 0 /\ (2 * d) * n = q * (2 * k) + 0
      BY <1>1, <1>6
    <2>2. Round(q * k + 0, q) = k /\ Round(q * (2 * k) + 0, q) = 2 * k
      BY <1>1, <1>5
    <2> QED BY <1>3, <1>4, <1>6, <2>1, <2>2 DEF AtLeast, AtMost
  <1>7. CASE n = 3 * k + 1
    <2>1. d * n = q * k + d /\ (2 * d) * n = q * (2 * k) + 2 * d
      BY <1>1, <1>7
    <2>2. Round(q * k + d, q) = k /\ Round(q * (2 * k) + 2 * d, q) = 2 * k + 1
      <3>1. /\ k \in Nat /\ 2 * k \in Nat /\ d \in 0 .. q - 1 /\ 2 * d \in 0 .. q - 1
            /\ 2 * (2 * d) > q /\ 2 * d < q
        BY <1>1
      <3> QED BY <1>5, <3>1
    <2> QED BY <1>3, <1>4, <1>7, <2>1, <2>2 DEF AtLeast, AtMost
  <1>8. CASE n = 3 * k + 2
    <2>1. d * n = q * k + 2 * d /\ (2 * d) * n = q * (2 * k + 1) + d
      BY <1>1, <1>8
    <2>2. Round(q * k + 2 * d, q) = k + 1 /\ Round(q * (2 * k + 1) + d, q) = 2 * k + 1
      <3>1. /\ k \in Nat /\ 2 * k + 1 \in Nat /\ d \in 0 .. q - 1 /\ 2 * d \in 0 .. q - 1
            /\ 2 * (2 * d) > q /\ 2 * d < q
        BY <1>1
      <3> QED BY <1>5, <3>1
    <2> QED BY <1>3, <1>4, <1>8, <2>1, <2>2 DEF AtLeast, AtMost
  <1> QED BY <1>2, <1>3, <1>6, <1>7, <1>8

(* The top of a group is Guaranteed, and equal thirds of three or more are *)
(* classes that differ by one member at most (assign.py:25-45).            *)
THEOREM SlicesCorrect == Spec => []SlicesAreFair
  <1>1. ASSUME GroupOK PROVE In("Guaranteed") > 0
    <2> DEFINE top == {m \in members : Class(m) = "Guaranteed"}
    <2>1. PICK m \in members : Position(m) = 0
      <3>1. 0 \in 0 .. Cardinality(members) - 1
        BY <1>1, GroupFacts
      <3> QED BY <1>1, <3>1, RanksAreTaken DEF Surjection
    <2>2. m \in top
      <3>1. GuaranteedEnd(Cardinality(members)) \in Nat \ {0}
        BY <1>1, GroupFacts, CutFacts
      <3> QED BY <2>1, <3>1 DEF Class, ClassAt
    <2>3. IsFiniteSet(top)
      BY <1>1, GroupFacts, FS_Subset
    <2> HIDE DEF top
    <2>4. Cardinality(top) \in Nat /\ Cardinality(top) # 0
      BY <2>2, <2>3, FS_CardinalityType, FS_EmptySet
    <2> QED BY <2>4 DEF In, top
  <1>2. ASSUME GroupOK, Cardinality(members) >= 3,
               3 * cfg.guaranteed = cfg.split, cfg.burstable = cfg.guaranteed
        PROVE  \A x, y \in {In(c) : c \in {"Guaranteed", "Burstable", "BestEffort"}} :
                 Distance(x, y) <= 1
    <2> DEFINE n == Cardinality(members)
               g == GuaranteedEnd(n)
               b == BurstableEnd(n)
    <2>1. n \in Nat
      BY <1>2, GroupFacts
    <2>2. PICK k \in Nat \ {0} :
            \/ g = k /\ b = 2 * k /\ n = 3 * k
            \/ g = k /\ b = 2 * k + 1 /\ n = 3 * k + 1
            \/ g = k + 1 /\ b = 2 * k + 1 /\ n = 3 * k + 2
      BY <1>2, <2>1, ThirdsOf
    <2>3. \A m \in members : Position(m) \in Nat /\ Position(m) < n
      BY <1>2, <2>1, PositionFacts
    <2>4. \A m \in members :
            Class(m) = IF Position(m) < g THEN "Guaranteed"
                       ELSE IF Position(m) < b THEN "Burstable" ELSE "BestEffort"
      BY DEF Class, ClassAt
    <2> HIDE DEF n, g, b
    <2>5. g \in Nat /\ b \in Nat /\ g <= b /\ b <= n
      BY <2>1, <2>2
    <2>6. /\ {m \in members : Class(m) = "Guaranteed"}
               = {m \in members : 0 <= Position(m) /\ Position(m) < g}
          /\ {m \in members : Class(m) = "Burstable"}
               = {m \in members : g <= Position(m) /\ Position(m) < b}
          /\ {m \in members : Class(m) = "BestEffort"}
               = {m \in members : b <= Position(m) /\ Position(m) < n}
      BY <2>3, <2>4, <2>5
    <2>7. In("Guaranteed") = g - 0 /\ In("Burstable") = b - g /\ In("BestEffort") = n - b
      BY <1>2, <2>1, <2>5, <2>6, SliceSize DEF In, n
    <2> QED BY <2>1, <2>2, <2>7 DEF Distance
  <1>3. GroupOK => SlicesAreFair
    BY <1>1, <1>2 DEF SlicesAreFair
  <1> QED BY <1>3, GroupCorrect, PTL

(* High confidence is earned (confidence.py:38-54): flaws never add to it, *)
(* and nobody beside a cut that is close has it.                           *)
THEOREM ConfidenceCorrect == Spec => []ConfidenceIsEarned
  <1>1. ASSUME NEW f \in SUBSET Flaws, NEW g \in SUBSET f
        PROVE  /\ Cardinality(f) \in Nat /\ Cardinality(g) \in Nat
               /\ Cardinality(g) <= Cardinality(f)
               /\ f # {} => Cardinality(f) # 0
    <2>1. IsFiniteSet(Flaws)
      <3>1. IsFiniteSet({})
        BY FS_EmptySet
      <3>2. IsFiniteSet({} \union {"no_utilization"})
        BY <3>1, FS_AddElement
      <3>3. IsFiniteSet(({} \union {"no_utilization"}) \union {"low_coverage"})
        BY <3>2, FS_AddElement
      <3>4. IsFiniteSet((({} \union {"no_utilization"}) \union {"low_coverage"})
                          \union {"fallback_allocation"})
        BY <3>3, FS_AddElement
      <3>5. Flaws = (({} \union {"no_utilization"}) \union {"low_coverage"})
                       \union {"fallback_allocation"}
        BY DEF Flaws
      <3> QED BY <3>4, <3>5
    <2>2. IsFiniteSet(f) /\ IsFiniteSet(g) /\ Cardinality(g) <= Cardinality(f)
      BY <2>1, FS_Subset
    <2> QED BY <2>2, FS_CardinalityType, FS_EmptySet
  <1>2. ASSUME NEW f \in SUBSET Flaws, NEW near \in BOOLEAN
        PROVE  Level(ScoreConfidence(f, near)) =
                 LET issues == Cardinality(f) + (IF near THEN 1 ELSE 0) IN
                 IF Cardinality(members) <= 1 \/ "no_utilization" \in f THEN 0
                 ELSE IF issues = 0 THEN 2 ELSE IF issues = 1 THEN 1 ELSE 0
    BY DEF ScoreConfidence, Level
  <1>3. ASSUME NEW f \in SUBSET Flaws, NEW near \in BOOLEAN
        PROVE  ScoreConfidence(f, near) = "high" => Level(ScoreConfidence(f, near)) = 2
    BY DEF Level
  <1>4. ASSUME NEW f \in SUBSET Flaws, NEW g \in SUBSET f, NEW near \in BOOLEAN
        PROVE  /\ Level(ScoreConfidence(f, near)) <= Level(ScoreConfidence(g, near))
               /\ Level(ScoreConfidence(f, TRUE)) <= Level(ScoreConfidence(f, near))
               /\ f # {} => ScoreConfidence(f, near) # "high"
    <2>1. g \in SUBSET Flaws /\ TRUE \in BOOLEAN
      BY <1>4
    <2> DEFINE at(h, b) == Level(ScoreConfidence(h, b))
               rating(h, b) == LET issues == Cardinality(h) + (IF b THEN 1 ELSE 0) IN
                 IF Cardinality(members) <= 1 \/ "no_utilization" \in h THEN 0
                 ELSE IF issues = 0 THEN 2 ELSE IF issues = 1 THEN 1 ELSE 0
    <2>2. /\ at(f, near) = rating(f, near) /\ at(f, TRUE) = rating(f, TRUE)
          /\ at(g, near) = rating(g, near)
      BY <1>2, <2>1
    <2>3. /\ Cardinality(f) \in Nat /\ Cardinality(g) \in Nat
          /\ Cardinality(g) <= Cardinality(f)
          /\ f # {} => Cardinality(f) # 0
      BY <1>1
    <2>4. rating(f, near) <= rating(g, near) /\ rating(f, TRUE) <= rating(f, near)
      BY <2>3
    <2>5. f # {} => rating(f, near) # 2
      BY <2>3
    <2>6. ScoreConfidence(f, near) = "high" => at(f, near) = 2
      BY <1>3
    <2> HIDE DEF rating
    <2> QED BY <2>2, <2>4, <2>5, <2>6
  <1>5. ASSUME NEW m \in members, NearBoundary(m) PROVE Confidence(m, {}) # "high"
    <2>1. {} \in SUBSET Flaws /\ NearBoundary(m) \in BOOLEAN
      BY <1>5
    <2>2. Cardinality({}) = 0
      BY FS_EmptySet
    <2>3. Cardinality({}) + (IF TRUE THEN 1 ELSE 0) = 1
      BY <2>2
    <2>4. ScoreConfidence({}, TRUE) # "high"
      BY <2>3 DEF ScoreConfidence
    <2>5. NearBoundary(m) = TRUE
      BY <1>5, <2>1
    <2> QED BY <2>4, <2>5 DEF Confidence
  <1>6. ASSUME GroupOK, NEW m \in members, NEW x \in members,
               Position(x) = Position(m) + 1, Class(x) # Class(m), Close(x, m)
        PROVE  NearBoundary(m) /\ NearBoundary(x)
    <2>1. Position(m) \in Int /\ Position(x) \in Int
      BY <1>6, PositionFacts, GroupFacts
    <2>2. Distance(Position(m), Position(x)) = 1 /\ Distance(Position(x), Position(m)) = 1
      BY <1>6, <2>1 DEF Distance
    <2>3. ScoreOf(m) \in Int /\ ScoreOf(x) \in Int
      BY <1>6, ScoreFacts
    <2>4. Distance(ScoreOf(m), ScoreOf(x)) = Distance(ScoreOf(x), ScoreOf(m))
      BY <2>3 DEF Distance
    <2>5. Close(m, x)
      BY <1>6, <2>4 DEF Close
    <2> QED BY <1>6, <2>2, <2>5 DEF NearBoundary
  <1>7. GroupOK => ConfidenceIsEarned
    BY <1>4, <1>5, <1>6 DEF ConfidenceIsEarned
  <1> QED BY <1>7, GroupCorrect, PTL

=============================================================================
