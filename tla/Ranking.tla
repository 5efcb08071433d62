------------------------------ MODULE Ranking -------------------------------
(***************************************************************************)
(* Ranking a peer group and turning the ranks into recommendations:        *)
(* ranking.py, assign.py and confidence.py of engine/recommenders/qos, as  *)
(* runner.py calls them for one group.                                     *)
(*                                                                         *)
(* They are pure functions of a group, so a state is a group with what was *)
(* collected of its members, and a step is a new collection that changes   *)
(* one value: what a run would recommend before and after the step is what *)
(* the action properties compare.                                          *)
(*                                                                         *)
(* Scores are kept as whole numbers, ScoreOf(m) over Whole(members), where *)
(* the code has floating-point fractions: the arithmetic here is exact.    *)
(***************************************************************************)
EXTENDS Integers, FiniteSets

CONSTANTS
  Uids,      \* workloads, numbered in the order of their uids
  Values,    \* representative values: a median, a fraction, a sum of calls
  Configs    \* configurations of the engine, see ConfigType

(* The default ranked dimensions (config.py); weight 0 leaves one out.     *)
Resources == {"cpu", "memory", "interactions"}

(* EngineConfig, without what the ranking does not read: qos_split as      *)
(* shares of a whole, the boundary gap as a fraction.                      *)
ConfigType ==
  [weights : [Resources -> Nat],
   guaranteed : Nat, burstable : Nat, split : Nat \ {0},
   base : Int, step : Nat, min : Int, max : Int,
   gap : Nat, gapOf : Nat \ {0}]

ASSUME UidsAssumption == Uids \subseteq Nat /\ IsFiniteSet(Uids)
ASSUME ValuesAssumption == Values \subseteq Nat
ASSUME ConfigsAssumption ==
  /\ Configs \subseteq ConfigType
  /\ \A c \in Configs : c.min <= c.max

VARIABLES
  members,   \* the group
  reps,      \* representative value of each workload and resource
  cfg        \* the configuration in force

vars == <<members, reps, cfg>>

-----------------------------------------------------------------------------
(***************************************************************************)
(* Arithmetic.                                                             *)
(***************************************************************************)

(* Python's round of the fraction p/q: to the nearest, halves to even.     *)
Round(p, q) ==
  LET floor == p \div q
      rest == 2 * (p % q) IN
  IF rest < q \/ (rest = q /\ floor % 2 = 0) THEN floor ELSE floor + 1

AtLeast(x, y) == IF x < y THEN y ELSE x
AtMost(x, y) == IF x > y THEN y ELSE x
Distance(x, y) == IF x < y THEN y - x ELSE x - y

-----------------------------------------------------------------------------
(***************************************************************************)
(* Phase B.3-5: percentile ranks, weighted score, order.                   *)
(***************************************************************************)

(* percentile_ranks: how many members have at most the value of m; over n, *)
(* a percentile.  Mutant: the comparison the other way round.              *)
CountFromAbove(m, r) == Cardinality({x \in members : reps[x][r] >= reps[m][r]})

CountUpTo(m, r) == Cardinality({x \in members : reps[x][r] <= reps[m][r]})

(* normalized_weights: equal when they sum to nothing.  Mutant: one weight *)
(* is forgotten in the sum.                                                *)
SumOfTwo(w) == w["cpu"] + w["memory"]

SumOf(w) == w["cpu"] + w["memory"] + w["interactions"]
Weight(r) == IF SumOf(cfg.weights) = 0 THEN 1 ELSE cfg.weights[r]
TotalWeight == IF SumOf(cfg.weights) = 0 THEN 3 ELSE SumOf(cfg.weights)

(* rank_group: the weighted score of m is ScoreOf(m) / Whole.              *)
ScoreOf(m) ==
  Weight("cpu") * CountUpTo(m, "cpu")
    + Weight("memory") * CountUpTo(m, "memory")
    + Weight("interactions") * CountUpTo(m, "interactions")
Whole == TotalWeight * Cardinality(members)

(* The order of rank_group: by score, then by uid.  Mutant: by uid alone.  *)
FirstByUid(x, m) == x < m

Precedes(x, m) ==
  LET gap == ScoreOf(x) - ScoreOf(m) IN gap > 0 \/ (gap = 0 /\ x < m)

(* Mutant: ranks counted from one.                                         *)
PositionFromOne(m) == 1 + Cardinality({x \in members : Precedes(x, m)})

Position(m) == Cardinality({x \in members : Precedes(x, m)})

-----------------------------------------------------------------------------
(***************************************************************************)
(* Phase B.6-7: PriorityClass integer and QoS class.                       *)
(***************************************************************************)

(* priority_integer.                                                       *)
Priority(m) ==
  AtLeast(cfg.min, AtMost(Round(cfg.base * Whole + cfg.step * ScoreOf(m), Whole), cfg.max))

(* qos_for_positions: where the Guaranteed slice of n ranks ends, and the  *)
(* Burstable one.  Mutant: no slot is kept for the top.                    *)
UncheckedCut(n) == Round(cfg.guaranteed * n, cfg.split)

GuaranteedEnd(n) == AtLeast(1, Round(cfg.guaranteed * n, cfg.split))
BurstableEnd(n) ==
  AtMost(n, AtLeast(GuaranteedEnd(n), Round((cfg.guaranteed + cfg.burstable) * n, cfg.split)))

ClassAt(i) ==
  LET n == Cardinality(members) IN
  IF i < GuaranteedEnd(n) THEN "Guaranteed"
  ELSE IF i < BurstableEnd(n) THEN "Burstable" ELSE "BestEffort"

Class(m) == ClassAt(Position(m))

(* QOS_ORDER, and change_direction from the class in force to the one      *)
(* recommended.                                                            *)
Order(class) ==
  CASE class = "BestEffort" -> 0 [] class = "Burstable" -> 1 [] class = "Guaranteed" -> 2

ChangeDirection(current, recommended) ==
  IF Order(recommended) > Order(current) THEN "raise"
  ELSE IF Order(recommended) < Order(current) THEN "lower" ELSE "unchanged"

-----------------------------------------------------------------------------
(***************************************************************************)
(* Confidence.                                                             *)
(***************************************************************************)

(* _near_boundary: the member just above or just below is in another class *)
(* and its score is within the gap.  Mutant: looks down only.              *)
Close(m, x) == Distance(ScoreOf(m), ScoreOf(x)) * cfg.gapOf < cfg.gap * Whole

NearLowerBoundary(m) ==
  \E x \in members :
    Position(x) = Position(m) + 1 /\ Class(x) # Class(m) /\ Close(m, x)

NearBoundary(m) ==
  \E x \in members :
    Distance(Position(m), Position(x)) = 1 /\ Class(x) # Class(m) /\ Close(m, x)

(* score_confidence, of what may be wrong with the data of a workload.     *)
Flaws == {"no_utilization", "low_coverage", "fallback_allocation"}

ScoreConfidence(flaws, boundary) ==
  LET issues == Cardinality(flaws) + (IF boundary THEN 1 ELSE 0) IN
  IF Cardinality(members) <= 1 \/ "no_utilization" \in flaws THEN "low"
  ELSE CASE issues = 0 -> "high" [] issues = 1 -> "medium" [] OTHER -> "low"

Confidence(m, flaws) == ScoreConfidence(flaws, NearBoundary(m))

-----------------------------------------------------------------------------
(* Before anything is collected of them, all members look the same.        *)
Init ==
  /\ members \in (SUBSET Uids) \ {{}}
  /\ \E v \in Values : reps = [m \in members |-> [r \in Resources |-> v]]
  /\ cfg \in Configs

(* A new collection brings another value of one resource of one member.    *)
Collect(m, r, v) ==
  /\ m \in members /\ v # reps[m][r]
  /\ reps' = [reps EXCEPT ![m][r] = v]
  /\ UNCHANGED <<members, cfg>>

Next == \E m \in members, r \in Resources, v \in Values : Collect(m, r, v)

Spec == Init /\ [][Next]_vars

-----------------------------------------------------------------------------
(***************************************************************************)
(* Properties.                                                             *)
(***************************************************************************)

(* The group is one the engine can meet, every rank is one of its slots,   *)
(* and every priority is inside the configured band.                       *)
TypeOK ==
  /\ members \subseteq Uids /\ members # {}
  /\ reps \in [members -> [Resources -> Values]]
  /\ cfg \in Configs
  /\ \A m \in members :
       /\ Position(m) \in 0 .. Cardinality(members) - 1
       /\ Priority(m) \in cfg.min .. cfg.max

(* Whatever the weights, a score is a fraction between one member's share  *)
(* of the percentiles and 1 (normalized_weights, ranking.py:22-31).        *)
ScoresAreFractions ==
  \A m \in members : TotalWeight <= ScoreOf(m) /\ ScoreOf(m) <= Whole

(* The two recommendations of a workload agree, though they are derived    *)
(* apart, one from the score and one from the rank: a better score or rank *)
(* never gets a worse class or a lower priority (assign.py:18-45 after     *)
(* ranking.py:68-70).                                                      *)
AdviceAgrees ==
  \A a, b \in members :
    (Position(a) < Position(b) \/ ScoreOf(a) > ScoreOf(b)) =>
      Order(Class(a)) >= Order(Class(b)) /\ Priority(a) >= Priority(b)

(* Priorities keep the proportions of the scores (assign.py:1-8) as far as *)
(* integers can: two of them differ by the step times the gap between the  *)
(* scores, give or take one, unless the clamp cuts them.                   *)
GapsArePreserved ==
  \A a, b \in members :
    (\A m \in {a, b} : cfg.min < Priority(m) /\ Priority(m) < cfg.max) =>
      Distance((Priority(a) - Priority(b)) * Whole,
               cfg.step * (ScoreOf(a) - ScoreOf(b))) <= Whole

(* The advice says what the scores say.                                    *)
AdviceIsConsistent == AdviceAgrees /\ GapsArePreserved

(* A workload that is ahead of another on every resource is not behind it  *)
(* in the advice, equal scores apart, which the uids put in order.         *)
DominanceIsRewarded ==
  \A a, b \in members :
    (\A r \in Resources : reps[a][r] >= reps[b][r]) =>
      /\ ScoreOf(a) >= ScoreOf(b) /\ Priority(a) >= Priority(b)
      /\ Order(Class(a)) >= Order(Class(b)) \/ (ScoreOf(a) = ScoreOf(b) /\ b < a)

(* The top of a group is Guaranteed whatever the split, and equal thirds   *)
(* of three or more make classes that differ by one member at most         *)
(* (qos_for_positions, assign.py:25-45).                                   *)
In(class) == Cardinality({m \in members : Class(m) = class})

SlicesAreFair ==
  /\ In("Guaranteed") > 0
  /\ (Cardinality(members) >= 3 /\ 3 * cfg.guaranteed = cfg.split
        /\ cfg.burstable = cfg.guaranteed) =>
       LET sizes == {In(c) : c \in {"Guaranteed", "Burstable", "BestEffort"}} IN
       \A x, y \in sizes : Distance(x, y) <= 1

(* When all that changes between two runs is that one workload uses more,  *)
(* its own recommendation does not get worse, and nobody else's priority   *)
(* rises: to a workload that runs as recommended the next run never says   *)
(* "lower" because it is used more (change_direction, assign.py:48-53).    *)
(* The class of another may rise: it may overtake a third workload that    *)
(* lost a percentile to the first.                                         *)
RaisingHelpsItself ==
  \A m \in members :
    (/\ \A r \in Resources : reps'[m][r] >= reps[m][r]
     /\ \A x \in members \ {m} : reps'[x] = reps[x]) =>
      /\ ChangeDirection(Class(m), Class(m)') # "lower" /\ Priority(m)' >= Priority(m)
      /\ \A x \in members \ {m} : Priority(x)' <= Priority(x)

RaisingHelps == [][RaisingHelpsItself]_vars

(* High confidence is earned (confidence.py:38-54): more flaws in the data *)
(* never read as more certain, any flaw rules it out, and of two members on*)
(* either side of a cut between classes, with scores within the gap of each*)
(* other, neither has it.                                                  *)
Level(confidence) ==
  CASE confidence = "low" -> 0 [] confidence = "medium" -> 1 [] OTHER -> 2

ConfidenceIsEarned ==
  /\ \A f \in SUBSET Flaws : \A g \in SUBSET f : \A near \in BOOLEAN :
       /\ Level(ScoreConfidence(f, near)) <= Level(ScoreConfidence(g, near))
       /\ Level(ScoreConfidence(f, TRUE)) <= Level(ScoreConfidence(f, near))
       /\ f # {} => ScoreConfidence(f, near) # "high"
  /\ \A m, x \in members :
       (Position(x) = Position(m) + 1 /\ Class(x) # Class(m) /\ Close(x, m)) =>
         Confidence(m, {}) # "high" /\ Confidence(x, {}) # "high"

=============================================================================
