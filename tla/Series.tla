------------------------------- MODULE Series -------------------------------
(***************************************************************************)
(* One workload's samples of one resource, and what is made of them: the   *)
(* hourly series without holes (analysis_core/prepare.py), its coverage    *)
(* (confidence.py), its representative values (representative.py,          *)
(* crosscluster.py, runner.py), the sizing hints of the export (export.py) *)
(* and the thinned chart (why/series.py).                                  *)
(*                                                                         *)
(* A collection upserts samples at the instants it asks for, which need    *)
(* not be those of the last one: an hour may hold several samples or none, *)
(* and a late collection may fill a hole.  Numbers are exact fractions: a  *)
(* prepared value counts in 1/Unit of a sample's unit, a percentile in     *)
(* 1/(20 * Unit).                                                          *)
(***************************************************************************)
EXTENDS Integers, FiniteSets, Folds

CONSTANTS
  Instants,   \* when samples may be taken, counted in ticks
  PerHour,    \* ticks in an hour
  Values,     \* what a sample may be
  Amounts,    \* what a request or a limit may be
  Unit,       \* a multiple of every divisor that occurs
  Grain,      \* how much of a sample's unit a hint rounds to (1m, 1Mi)
  Window,     \* hours of the analysis window
  MaxPoints   \* the most points of a chart

ASSUME SeriesAssumption ==
  /\ Instants \subseteq Nat /\ IsFiniteSet(Instants)
  /\ Values \subseteq Nat /\ Values # {} /\ Amounts \subseteq Nat \ {0}
  /\ PerHour \in Nat \ {0} /\ Unit \in Nat \ {0} /\ Grain \in Nat \ {0}
  /\ Window \in Nat \ {0} /\ MaxPoints \in Nat \ {0}

(* A mean is over at most PerHour samples, and a line between two of them  *)
(* over the hours from one to the other: Unit makes both exact.            *)
ASSUME UnitAssumption ==
  \A n \in 1 .. PerHour :
    /\ Unit % n = 0
    /\ \A i, j \in Instants : i \div PerHour < j \div PerHour =>
         Unit % (n * (j \div PerHour - i \div PerHour)) = 0

VARIABLES
  samples,   \* rows of metric_samples: what was measured at an instant
  series     \* what prepare_series makes of them

vars == <<samples, series>>

-----------------------------------------------------------------------------
(***************************************************************************)
(* prepare_series.                                                         *)
(***************************************************************************)

HourOf(i) == i \div PerHour
HoursOf(s) == {HourOf(i) : i \in DOMAIN s}
Least(S) == CHOOSE x \in S : \A y \in S : x <= y
Greatest(S) == CHOOSE x \in S : \A y \in S : x >= y

(* The samples of an hour, and resample("1h").mean() of them.              *)
SamplesIn(s, h) == {i \in DOMAIN s : HourOf(i) = h}
SumOf(s, S) ==
  MapThenFoldSet(+, 0, LAMBDA i : s[i], LAMBDA T : CHOOSE i \in T : TRUE, S)
HourlyMean(s, h) ==
  (Unit * SumOf(s, SamplesIn(s, h))) \div Cardinality(SamplesIn(s, h))

(* The measured hours around an hour.                                      *)
Before(hours, h) == Greatest({m \in hours : m <= h})
After(hours, h) == Least({m \in hours : m >= h})

(* A straight line from mean[a] to mean[b].  Mutant: in the wrong          *)
(* direction.                                                              *)
LineBackwards(mean, a, b, h) ==
  IF a = b THEN mean[h] ELSE mean[a] + ((mean[a] - mean[b]) * (h - a)) \div (b - a)

Line(mean, a, b, h) ==
  IF a = b THEN mean[h] ELSE mean[a] + ((mean[b] - mean[a]) * (h - a)) \div (b - a)

(* Mutant: hours without a sample are left out.                            *)
WithoutGaps(s) == [h \in HoursOf(s) |-> HourlyMean(s, h)]

(* interpolate(limit=2, limit_direction="both") draws it as far as two     *)
(* hours into a gap from either side, ffill() fills the rest.              *)
PrepareSeries(s) ==
  LET hours == HoursOf(s)
      mean == [h \in hours |-> HourlyMean(s, h)] IN
  IF hours = {} THEN <<>>
  ELSE [h \in Least(hours) .. Greatest(hours) |->
          LET a == Before(hours, h)
              b == After(hours, h) IN
          Line(mean, a, b, IF h - a > 2 /\ b - h > 2 THEN a + 2 ELSE h)]

-----------------------------------------------------------------------------
(***************************************************************************)
(* Representative values.                                                  *)
(***************************************************************************)

NPoints == Cardinality(DOMAIN series)

(* The k-th smallest of a series, k from 0. *)
Nth(s, k) ==
  CHOOSE v \in {s[h] : h \in DOMAIN s} :
    /\ Cardinality({h \in DOMAIN s : s[h] < v}) <= k
    /\ Cardinality({h \in DOMAIN s : s[h] <= v}) > k

(* numpy.percentile: linear between order statistics, p in 1/20.           *)
Percentile(s, p) ==
  LET at == p * (Cardinality(DOMAIN s) - 1)
      low == Nth(s, at \div 20) IN
  IF at % 20 = 0 THEN 20 * low
  ELSE 20 * low + (at % 20) * (Nth(s, at \div 20 + 1) - low)

(* median_representative, and what else the hints are made of.             *)
Median(s) == IF s = <<>> THEN 0 ELSE Percentile(s, 10)
P95(s) == Percentile(s, 19)
Peak(s) == 20 * Greatest({s[h] : h \in DOMAIN s})

(* coverage: n_points of the hours of the window; below 0.6 is a flaw.     *)
Coverage == IF NPoints < Window THEN NPoints ELSE Window
LowCoverage == 10 * Coverage < 6 * Window

(* The most of the newest three samples. *)
MostOfLate(s) ==
  LET tail == {i \in DOMAIN s : Cardinality({j \in DOMAIN s : j > i}) < 3} IN
  IF tail = {} THEN 0 ELSE Greatest({s[i] : i \in tail})

(* effective_value: the request, else the limit, else the most of late.    *)
(* Mutant: the most of late first.                                         *)
LateFirst(s, alloc) == MostOfLate(s)

Effective(s, alloc) ==
  IF "request" \in DOMAIN alloc THEN alloc["request"]
  ELSE IF "limit" \in DOMAIN alloc THEN alloc["limit"] ELSE MostOfLate(s)

-----------------------------------------------------------------------------
(***************************************************************************)
(* Hints and chart.                                                        *)
(***************************************************************************)

(* Python's round, of n/d: half to even. *)
Round(n, d) ==
  IF 2 * (n % d) > d \/ (2 * (n % d) = d /\ (n \div d) % 2 = 1)
  THEN n \div d + 1 ELSE n \div d

(* _fmt_cpu, _fmt_mem. *)
Hint(p) ==
  LET r == Round(p, 20 * Unit * Grain) IN IF r < 1 THEN 1 ELSE r

(* _sizing_hints: memory's P95 is floored at the peak.  Mutant: it is not. *)
MemoryAtP95(s) == Hint(P95(s))

MemoryLimit(s) == Hint(IF P95(s) < Peak(s) THEN Peak(s) ELSE P95(s))

CpuRequest(s) == Hint(Median(s))
CpuLimit(s) == Hint(P95(s))

(* downsample: every so many points.                                       *)
Stride(n) == LET up == (n + MaxPoints - 1) \div MaxPoints IN IF up < 1 THEN 1 ELSE up

Chart(n) == {i \in 0 .. n - 1 : i % Stride(n) = 0}

-----------------------------------------------------------------------------
Init == samples = <<>> /\ series = <<>>

(* One row of UpsertMetricSamples; the next reader prepares the series     *)
(* anew.                                                                   *)
Collect(i, v) ==
  /\ samples' = [j \in DOMAIN samples \union {i} |-> IF j = i THEN v ELSE samples[j]]
  /\ series' = PrepareSeries(samples')

Next == \E i \in Instants, v \in Values : Collect(i, v)

Spec == Init /\ [][Next]_vars

-----------------------------------------------------------------------------
(***************************************************************************)
(* Properties.                                                             *)
(***************************************************************************)

(* The series has no hole between the first and the last measured hour,    *)
(* and Unit makes its numbers exact.                                       *)
TypeOK ==
  /\ DOMAIN samples \subseteq Instants
  /\ \A i \in DOMAIN samples : samples[i] \in Values
  /\ HoursOf(samples) \subseteq DOMAIN series
  /\ \A a, b \in DOMAIN series : a .. b \subseteq DOMAIN series
  /\ \A h \in DOMAIN series : series[h] \in Nat
  /\ \A h \in DOMAIN series : \A a, b \in HoursOf(samples) :
       (a < h /\ h < b) => ((series[b] - series[a]) * (h - a)) % (b - a) = 0

(* What fills a gap is never made up: every hour of the series, measured   *)
(* or filled, lies between the samples of the measured hours around it     *)
(* (prepare.py:7-22), so no gap can move a workload past what it was seen  *)
(* to use.                                                                 *)
GapsStayWithinSamples ==
  \A h \in DOMAIN series :
    LET hours == HoursOf(samples)
        near == {samples[i] : i \in SamplesIn(samples, Before(hours, h))
                                \union SamplesIn(samples, After(hours, h))}
    IN Unit * Least(near) <= series[h] /\ series[h] <= Unit * Greatest(near)

(* A hint can be applied (export.py:76-114): after rounding, the suggested *)
(* request does not exceed the limit, and no hour that was measured is     *)
(* more than half a grain above the memory limit (the "OOM guard").        *)
HintsAreOrdered ==
  series # <<>> =>
    LET limit == MemoryLimit(series) IN
    /\ 1 <= CpuRequest(series) /\ CpuRequest(series) <= CpuLimit(series)
    /\ CpuLimit(series) <= limit
    /\ \A h \in HoursOf(samples) :
         2 * HourlyMean(samples, h) <= (2 * limit + 1) * Unit * Grain

(* However late or out of order samples arrive, the coverage a run counts  *)
(* (runner.py:135-140, confidence.py:27-30) never falls, so a collection   *)
(* never takes confidence away.                                            *)
MoreSamplesCoverMore == Coverage' >= Coverage /\ (LowCoverage' => LowCoverage)

(* A sample that is revised upwards never makes the workload look smaller: *)
(* not by the median it is ranked by, not by its hints, and not by the     *)
(* fraction it uses of its allocation (crosscluster.py:32-36), unless it   *)
(* has no request and no limit, when the fraction is of the newest samples.*)
RevisedUp ==
  /\ series # <<>> /\ DOMAIN samples' = DOMAIN samples
  /\ \A i \in DOMAIN samples : samples'[i] >= samples[i]

UsingMoreNeverLooksLess ==
  RevisedUp =>
    /\ Median(series') >= Median(series)
    /\ CpuLimit(series') >= CpuLimit(series)
    /\ MemoryLimit(series') >= MemoryLimit(series)
    /\ \A k \in {"request", "limit"}, y \in Amounts :
         LET alloc == [x \in {k} |-> y] IN
         Median(series') * Effective(samples, alloc)
           >= Median(series) * Effective(samples', alloc)

(* What a collection adds is never held against the workload.              *)
MoreIsMore == [][MoreSamplesCoverMore /\ UsingMoreNeverLooksLess]_vars

(* A chart has the first point of its series and at most max_points (why/  *)
(* series.py:13-23), and skips no more points than that takes.             *)
ChartFits ==
  LET n == NPoints IN
  n > 0 => /\ 0 \in Chart(n) /\ Cardinality(Chart(n)) <= MaxPoints
           /\ (Stride(n) - 1) * MaxPoints < n

=============================================================================
