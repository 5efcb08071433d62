# Verification of kube-pyramid in TLA+

kube-pyramid recommends, for every workload of a Kubernetes cluster, a QoS class
and a priority. A collector (Go) pulls utilization, allocations and interactions
out of Prometheus into a state database; an engine (Python) groups the workloads
of a cluster into peer groups, ranks each group, and stores and serves the
recommendations. This directory models the parts of it whose correctness is hard
to test, checks them with TLC on small instances, and proves the results that
matter most with TLAPS for instances of any size.

Everything is stated of the code as it stands. Where a document, a comment or a
manifest says otherwise, the disagreement is either a run whose expected result
is a counterexample, or a line in *Where code and documents differ*.

## The system

### Parts, what they keep, what they do

| part | code | state it keeps | operations | model |
|---|---|---|---|---|
| analysis run | `engine/recommenders/qos/runner.py` | rows of `analysis_runs`, `qos_groups`, `qos_recommendations` | `run_qos_analysis`: list, load, cluster, rank, store, finish | `AnalysisRun` |
| state store of the engine | `engine/analysis_core/io/statestore.py` | a connection and its transaction | one method per statement or commit | in part: `AnalysisRun`, `RunViews`, `Registry`, `Collection`, `Migrations` |
| HTTP API of the engine | `api/app.py`, `api/dto.py` | none of its own | start a run or a collection; views of a run; clusters, sources, settings and their tests | in part: `RunViews`, `Registry`, `AnalysisRun`, `Collection` |
| ranking and assignment | `ranking.py`, `assign.py`, `confidence.py` | none | percentiles, scores, order, classes, priorities, confidence | `Ranking`, coverage in `Series` |
| preparation of series | `prepare.py`, `interaction_graph.py` | none | an hourly series without holes; sums of edges | in part: `Series` |
| peer grouping | `cluster.py`, `representative.py`, `crosscluster.py`, `cost.py` | none | k-means over features; representative values | in part: any partition in `AnalysisRun`, representatives in `Series` |
| export of manifests | `export.py` | none | sizing hints and YAML of a run | in part: reads in `RunViews`, hints in `Series` |
| collection service | collector `server`, `ingest`, `steps`; engine `collector.py` | rows of `collection_runs`; goroutines | start a collection, its steps, finish; trigger and poll | in part: `Collection` |
| state store of the collector | `store/sql.go` | `disc_workloads`, `metric_samples`, `allocations`, `interactions` | four upserts, each a transaction | in part: `Collection` |
| migrations | `store/migrate.go`, `store/migrations/`, `apply_schema` | the schema, `schema_migrations` | bring a database up to date; make a schema on sqlite | `Migrations` |
| cluster probe | `kube.py` | none | ask an API server for its version | in part: `Registry` |
| command line | `cli.py` | none | the functions of the API, and a report | in part: `RunViews`, `Migrations` |
| explanations | `why/` | none | charts and summaries | thinning of charts in `Series` |
| connectors | `connectors/` | none | queries to Prometheus | no; an input of `Collection` |
| synthetic data, user interface | `synth/`, `ui/` | none | see *Not modelled* | no |

### How they interact

The two programs share nothing but the state database, and one HTTP call: the
engine posts to `/ingest` of the trigger service and from then on polls the
`collection_runs` row. A collection is either a process (the CronJob) or a
goroutine of the trigger service that nobody waits for. Every request to the
engine is a thread with a connection of its own; a handler reads and writes in
several statements, each of which sees, or is, a commit of its own. An analysis
reads whatever it finds in the tables; the collector commits step by step beside
it; an operator may delete the cluster of both at any moment, and foreign keys
cascade.

### What is hard

* transactions of several statements whose boundaries lie inside a loop: the run
  commits after each recommendation, so its readers see it half-way;
* views that are built by two to four `SELECT`s of which each sees another state
  of a run, or none;
* handlers that look before they write, or probe for seconds between the two;
* two databases with different rules: sqlite has one writer, a lock that times out
  and ids that are used again; postgres has a fresh view for each statement,
  foreign keys that lock rows, and transactions that an error aborts;
* steps of a collection that fail one by one, after others have committed; calls
  that time out although they were obeyed; processes that die and leave a row
  saying `running`; samples that arrive late and fill holes;
* collectors that start together on a schema nobody locks;
* rounding and ties in the arithmetic of ranks and sizes.

`PROJECT.json` lists these hazards line by line with the properties that cover
them.

## Modules

| module | models | state and actions |
|---|---|---|
| `RunResults` | what a reader of the API is promised of a run | `status`, `target`, `shown`; `Plan`, `Show`, `Succeed`, `Fail`, `Vanish` |
| `AnalysisRun` | `POST /runs` and `run_qos_analysis` over the transactions of the state store, for any number of concurrent requests, on either database | the committed tables (`clusters`, `runs`, `groups`, `recs`, `stamp`), what a connection has not committed (`draftRuns`, `draftGroups`, `inTx`), the thread's variables under the names of the code (`clusterId`, `runId`, `groupId`, `asOf`, `uids`, `left`, `pending`) and what it loaded (`seen`); an action per statement, from `EnsureCluster` to `Answer`, and `Crash`, `DatabaseFails`, `DeleteCluster`, `CollectorCommits` |
| `RunViews` | the composition of `AnalysisRun` with its readers: `GET /runs` and the views of a run, the export of a run and of one workload (`manifest`), the report of the command line | of each client the run, view and workloads (`only`) it asks for, the next `SELECT` (`step`), and what it has read (`said`, `cards`, `lists`, `parts`); an action per `SELECT`. `Course` says which follows which |
| `Registry` | clusters, data sources, settings and connection tests, by concurrent requests | three tables, of each request its operation and next statement; an action per `SELECT`, per committed write, per probe and per probe that raises, and `Locked` for sqlite's refusal |
| `Collection` | the life of a collection, its steps, the requests that cause and await it | `collection_runs` and the four tables, the goroutine or process of a collection (`owner`, `alive`, `progress`, `got`, `at`), calls in flight (`inbox`), requests (`request`); an action per transaction, and per failure of it |
| `Migrations` | `runMigrations` of several collectors, and `apply_schema` of engines | what is committed (`db`, and in `ledger` the table `schema_migrations`), what a transaction sees (`tx`), the process (`pc`, `applied`, `executed`); an action per statement, commit and failure |
| `Ranking` | `ranking.py`, `assign.py`, `confidence.py`, for one group, over exact fractions | a group, the representation of its members and a configuration; `Collect`: utilization changes before the next run |
| `Series` | `prepare_series` and what is computed of its result: coverage, representative values, sizing hints, charts | the samples of one workload and resource, and their series; `Collect`: a sample is added or revised |
| `AnalysisRunProofs`, `RunReportsProofs`, `RunViewsProofs`, `CollectionProofs`, `MigrationsProofs`, `RankingProofs`, `SeriesProofs`, `RegistryProofs` | theorems about them | |
| `MC...` | the instances for TLC | |

`PROJECT.json` maps every definition to the lines it translates. A definition
whose comment says *Mutant* is a plausible bug of the definition after it; it is
not part of the model, and serves to show that a property can fail.

### Choices worth knowing

* `AnalysisRun`: the clustering may make any partition into at most `MaxGroups`
  groups; a stage of computation may raise. The collected data is one date
  (`stamp`) per cell, a workload's samples of a resource or its allocations, which
  is what one `SELECT` of the load reads. `max_collected_at` takes the newest of all
  cells of the cluster; a run loads those of the workloads in its `Scope` that have
  allocations, of the resources it ranks on (`Ranked`). With `MayFault`, postgres may
  lose a connection or refuse a statement anywhere in a run (`DatabaseFails`): the
  transaction is gone, and the update of the except block fails with it. A
  transaction of the collector is shorter than the five seconds of sqlite's lock, so
  it is one action. Ids of a sequence are not lost to rolled-back inserts.
* `RunViews`: no reader has a snapshot (sqlite opens no transaction for a `SELECT`,
  postgres reads committed), so the steps of a run, its failure, the death of the
  engine and the deletion of the cluster fall between any two `SELECT`s. The client
  lists the runs first, and asks for the evidence of a recommendation an earlier
  answer showed, or for the manifest of any workload, recommended for or not. A
  recommendation, its evidence and its peers are written and deleted together, so
  they have no table of their own: a recommendation carries in `details` which of the
  two it was stored with, for without utilization there is no series and without an
  edge inside the group there are no peers.
* `Registry`: a value is identified with the request that gave it, and a row with
  who made it, which is what the properties relate. What a table of `Course` gives
  per kind is the handler's sequence of statements. Two fields stand for those of a
  source and for the settings. Runs and collections, whose locks may refuse a write
  on sqlite, appear as `Locked` only. The Kubernetes API is an answer or none;
  without a server to ask, or a Secret to read, nobody is asked, and a kubeconfig may
  turn out not to parse (`ProbeRaises`). A row that is gone when it is read again for
  the answer makes the answer a 500, the write before it being committed.
* `Collection`: a row stands for the collection that wrote it. No two collections start
  within one second, which is what keeps two rows of one edge apart. A lost
  acknowledgement of the identities' commit is the commit followed by the failure of the
  next; one of the insert of the row leaves a row that says `running` and has no
  goroutine (`Abandon`). The engine's own reads and the deletion of the cluster are
  `AnalysisRun`'s business.
* `Migrations`: of every script there are the objects that tell who has been where
  (the first, the one `apply_schema` looks for, the last), and of the third, on
  sqlite, the rebuild of `metric_samples` that the script consists of. On postgres
  a statement waits for a transaction that has made the same object. `CREATE TABLE IF
  NOT EXISTS schema_migrations` is a step of its own: on postgres two may find no such
  table, and the second to make it fails. That a job is retried five times
  only is left out: it is started again by the next upgrade.
* `Ranking`: weights, percentiles and scores are integers over a common
  denominator (`Whole`), in place of floats, so ties are exact. `Round` is Python's
  rounding to even. The three default dimensions are `Resources`, and a
  configuration that leaves one out gives it weight 0. Base and step are integers.
  The confidence takes the flaws found in the data as a set; the boundary is
  computed.
* `Series`: values are integers in units of `1/Unit` of a sample, with `Unit` a
  multiple of every divisor that occurs, so means and interpolated values are exact
  (`TypeOK` checks that). Time is counted in ticks of which an hour has `PerHour`.
  A run may be configured with another frequency (`ui/index.html:416` sends two
  minutes for a window of one hour): then "hour" stands for that period, and `Window`
  for the number of points that coverage expects, which is one per hour of the window
  whatever the period.

## Runs

| run | instance | what it shows |
|---|---|---|
| `analysis_postgres` | two requests on one cluster that rank on one of two resources, two workloads, two groups at most, a deletion, crashes, lost connections, one commit of the collector; the second request gives the cluster's name | completed runs are complete, readers see a prefix of the work, no run stays `running` unless the engine died or the database failed under it, answers agree with the store, `data_as_of` is newer than what was loaded only on account of rows the run leaves out, deletion cascades; and `AnalysisRun` implements `RunResults` |
| `analysis_sqlite` | the same without faults, with one group, one request about one workload only, lock time-outs at every write | what a run loads is a snapshot of the collector's commits; every request is answered; every visible run gets an outcome, unless not even the failure could be recorded |
| `sqlite_id_reuse` | two clusters, one deleted | expected violation, see below |
| `views` | one run of three workloads, one reader, every view, crash and deletion; recommendations with peers and without | no view drops a recommendation it read, views of a completed run are whole, what was shown once stays until the run is deleted |
| `registry` | three requests of one mix of kinds, either database, with or without a service account | one row per name and no answer of 201 for another's row, sources follow their cluster, a stored outcome comes from a probe of that very row, partial updates do not undo each other |
| `ranking` | every group of one to four workloads, two values per dimension, two configurations | class and priority agree with the order and keep the gaps, dominance is rewarded, slices are fair, using more never hurts, high confidence is earned |
| `series` | nine instants of eight hours, measured in any order | gaps are filled within what was measured, hints are ordered and the memory limit covers the peak after rounding, collections never lower coverage, a value revised upwards never makes a workload look smaller |
| `collection` | a request and two collections, each with one step or (on demand) all, two ticks | a status of `success` is true, samples have identities, a run after its own collection is not dated before its request, jobs do not put old allocations over new ones |
| `collection_liveness` | the same at one moment, one step | requests and collections end whatever fails |
| `edges_counted_twice` | the same at two moments | expected violation |
| `stale_samples_hidden` | a request and two collections, three ticks, a time to live of one | expected violation |
| `migrations` | two collectors and an engine on a database that any release left, or an empty one, either dialect, two faults | nobody goes on with half a schema, what is recorded is what there is, no sample is lost in a rebuild, everybody gets through in the end |

### Bounds, and why they are enough

* Two requests, or two collections, or two collectors: the tables have no
  operation that relates three writers, and each property that names two
  (ids, locks, order of commits) meets every interleaving of two. The theorems
  cover the rest for the properties that are proved.
* Two workloads and `MaxGroups = 2` give a group of two, two groups of one, and an
  empty one: the loop over groups with its commits inside both loops.
* `MaxStamp` (commits of the collector that are followed): one, of any workloads and
  resources, is enough to fall between any two reads of a run, and to make rows of
  one resource newer than those of another.
* `views` has three workloads, so that a group of two is read half-way beside
  another that is not there yet; readers do not see each other, so one of them with
  repeated requests is every reader. Two requests with one workload have been
  checked too, and the theorems hold for any number.
* `registry` has three requests: two race for a row that a third deletes. The kinds
  come in four mixes (`SameRows`) of operations that touch the same rows, since
  others do not meet.
* `series`: eight hours allow a gap of six, longer than the two hours from either
  side that interpolation fills, and two hours that are measured twice, which is
  where a mean differs from a value. Two values, the larger not a multiple of the
  grain, so that rounding bites; charts of at most three points are thinned.
* `MaxId`, `MaxTime`, `Ttl` of `Collection`: two collections, two ticks and a time
  to live of none make old and fresh rows and each order of writing them. For
  `stale_samples_hidden` the time to live is a tick and there are three, so that the
  samples are stale before the request comes and not while it waits.
* `MaxFaults = 2` of `Migrations`: each collector may fail at every step, or one
  twice. A killed engine is not counted.
* Groups of four have a class of two beside two classes of one. Two values per
  dimension give ties, dominance and its opposite.

Most models may rest: every request answered, every id used, every collector done.
`CHECK_DEADLOCK FALSE` is for that. `Ranking` and `Series` never rest and are checked
for it.

### Fairness

* `AnalysisRun`: each thread that serves a request goes on (weak fairness of its
  steps while it is `Active`). A wait for the lock of sqlite ends by its time-out
  (`statestore.py:525`), so a weakly fair thread suffices. Crashes, deletions and
  the collector owe nothing.
* `Collection`: a goroutine or process that lives goes on (its queries have
  time-outs), and so does a request that was made. New requests, jobs, crashes and
  the clock owe nothing.
* `Migrations`: each collector goes on, and one that failed is started again (by
  the Deployment, the job's back-off or the schedule). Faults and engines owe
  nothing.
* `RunViews`, `Registry`, `Ranking` and `Series` assume none: their handlers have no
  loops, so that an answer comes whenever the thread goes on, and their properties
  say what it may be.

## Proofs

All theorems hold for every value of the constants that satisfies the modules'
assumptions.

**`AnalysisRunProofs`.** `TypeCorrect` needs that a thread knows its cluster and
run when it uses them (`StageOK`). `CompletedCorrect`, `PrefixCorrect` and
`CascadeCorrect` follow from one inductive invariant, `Inv`. Completeness is not
inductive: that a completed run has all its recommendations depends on the thread
having covered every workload (`ThreadCovers`), which depends on the rows found
under its ids being its own (`RunIdsHeld`, `GroupIdsHeld`), which depends on ids
not being handed out twice. So the three theorems assume `NoReuse`: the database is
postgres, or no cluster is deleted. Without it they are false, as `sqlite_id_reuse`
shows.

**`RunReportsProofs`.** Four more arguments beside `Inv`, each about one thread.
`Dated`: from the statement that creates the run until the last `SELECT`, the thread's
transaction keeps its cluster there, and the rows of a cluster that is there only get
newer, so that of a cell that `data_as_of` is the date of the run reads a row as new;
hence `SnapshotCorrect` and `AsOfCorrect`. `Tracked`: a row carries the id its request
knows, one that says `running` has a thread, or had one until a crash or a fault, and
apart from faults the statement that records a failure fails on postgres only if the run
is gone; hence `OrphanCorrect`. `Answered`: the cluster and the run of a thread stay
until they are deleted; hence `ReplyCorrect`. `Shaped` says which rows a thread may have
at each statement; with it every step is shown to be a step of `RunResults` under the
mapping `StatusOf`, `ShownOf`, or to change nothing a reader sees (`StepIsResult`): this
is `ResultsCorrect`, the refinement. `ReplyCorrect` and `ResultsCorrect` assume
`NoReuse`, the others nothing.

That every request is answered needs fairness, but what it rests on is proved.
`WorkEnds`: every statement of a thread leaves less of a number, `Work`, which adds
up the groups and recommendations to come, the workloads not yet read and the stages
ahead, and no commit, crash or deletion adds to it; it assumes that there are finitely
many workloads, without which a loop over them does not end. `NobodyGetsStuck`: a
thread that has not answered has a statement it may take (`MayStep`), because a number
that is free for a new row exists (`IdsEnd`) and so does a least group that is left.

**`RunViewsProofs`.** A reader writes nothing (`ReadersOnlyRead`), so what is proved of
`AnalysisRun` holds beside any number of readers. What the readers need of the writers
is one fact about a step, `StoreStep`: rows go with their run only, a run that appears
was a draft of its thread, and of a completed run nothing changes. From it, what a
reader may conclude of the rows it holds is stable as long as its run is there
(`Client`): the recommendations it read are still in the table, and the groups it read
after them count them all; a recommendation shown of a workload is there for its
manifest, with the details it was stored with. `NothingDropped`, `ViewsWhole` and
`ShownStays` follow, under `NoReuse` again.

**`RankingProofs`.** The order of a group is a strict total order (`Precedes`), so
positions are a bijection to `0 .. n-1`; classes and priorities are monotone in
position and score; the percentiles of one member's raise are compared count by
count. This gives properties of the run `ranking` for a group of any finite
size and any configuration (`AdviceCorrect`, `DominanceCorrect`,
`RaisingCorrect`, `SlicesCorrect`, `ConfidenceCorrect`), and `ScoresCorrect`
besides: scores are fractions. For `SlicesCorrect` a class has as many members as
there are ranks in its slice, because positions are a bijection, and the ends of the
slices are the quotients of equal thirds. They rest on `GroupOK`, which says what a
group and a configuration are and is itself proved of every reachable state.

**`CollectionProofs`.** The invariant says of a collection what its status may
claim: before it starts there is nothing of it (`Unstarted`), rows it has written
are in the tables or were replaced by a later one (`HoldsRows`, `RowsAreIn`), one
that has ended has settled every step (`SettledIsOver`), a status of success was
computed from that (`SuccessIsHonest`); its times are past (`Past`), at most one
job runs (`OneJob`), and a request knows only its own collection, which began no
earlier than it did (`AfterRequest`, `KnowsItsOwn`). From it follow
`SuccessCorrect`, `IdentityCorrect`, `FreshCorrect` and the action property
`JobsCorrect`. Of liveness there is `StepsRunOut` (a collection counts the
transactions and fetches before it, `Left`, a request the waits before it, `Stage`;
each of its own steps leaves less and nobody else's leaves more) and
`NobodyGetsStuck`: a live collection always has a step whose turn it is (`MayCollect`;
`NamedIsMetrics` says that only the metrics stop between identities and samples), and
a request that called has an answer, a poll or a timeout (`MayServe`).

**`MigrationsProofs`.** Whoever has executed one statement of a script is alone with
the schema until its transaction ends (`Alone`): on sqlite because of the lock, on
postgres because everyone else either finds the object made or waits for it, and
who is behind or ahead would have to be at another version than the records allow.
So a transaction holds what is committed plus what its statements do to it
(`TxFollows`), what is committed is either the collectors' work, all of it recorded
(`Honest`), or that of an engine, none of it recorded (`Foreign`), and no engine
begins once a collector has. `CompleteCorrect`, `RecordsCorrect` and the action
property `SamplesCorrect` follow.

A collector tries again after a failure, so that its steps end is not a matter of
course. `OvertakenCorrect`: without a fault it fails only if another has committed
since it looked (`Overtaken`), be it the table `schema_migrations` or a migration:
whose records are up to date finds none of the objects it is to make. The table and
three migrations can be committed four times only, hence `EffortsEnd`: the number
`Effort` counts eighteen for each commit and fault to come, and for being overtaken,
which is more than a turn of failing, trying again and looking costs; each
step of the collector leaves less, and none of the others adds to it, since whoever
overtakes it commits. Both speak of a schema that no engine has made (`Honest`): with
one that an engine made, every collector fails over and over. `NobodyGetsStuck`:
whoever waits for a lock waits for a transaction whose owner may go on
(`MayMigrate`), since only one is open (`OneAtATime`).

**`SeriesProofs`.** The invariant, `Measured`, is that the series is prepared from the
samples; from it come all four properties of the run `series`. The work is in what
the algorithms compute, for every input:

* `mean`: a sum over a set is a recursion over its subsets. That it has a solution
  (`SumFcnExists`) and lies between the number of terms times the least and the
  greatest of them (`SumBetween`) is shown set by set, for sets with at most `n`
  members: the `n` for which it holds are closed under successor, so they are all
  (`Inductive`). A division rounded down keeps the order (`MeanBetween`).
* the gaps: a straight line stays between its ends (`LineBetween`), and the nearest
  measured hours exist, because a finite set of hours has a least and a greatest
  (`EndsExist`); so every hour lies between the samples around it (`SeriesBetween`:
  `GapsCorrect`), and more hours make no
  shorter one (`ExtentGrows`: `CoverageCorrect`).
* `quantile`: the value at a place is the one with so many below and so many at or
  below it (`NthIs`), which grows when the values do (`NthGrows`), and so does the
  weighted mean of two neighbours (`PercentileGrows`).
* rounding to a grain, ties to the even one: within half a grain (`RoundIs`) and
  monotone (`RoundGrows`). `HintsCorrect` and `MoreCorrect` follow.
* `downsample`: that a chart keeps to its limit (`ChartsFit`) is a count of multiples.

They assume `UnitAssumption`, that the unit of the values is a multiple of every
divisor, so that no mean or line is rounded (`MeanDivides`; `TypeCorrect` says that
the lines are exact). It is a device of the model, which has no fractions: any
finitely many instants have such a unit.

**`RegistryProofs`.** A handler reads a row and uses its id some statements later,
when the row may be gone. What it can rely on, whatever others do between, is
`OwnsCluster` or `OwnsSource`: unless sqlite has used an id again (`MayReuse`), the
id is nobody's or still that of the row it read. The type invariant
(`TypeInv`, with what each handler has before it at each statement) says what a step
may do to each table: edit rows, add one under a fresh id, or delete. From the two
together come the five theorems, which are all the properties of the run `registry`:
a row is of one request, which knows its id (`MadeBy`, `SourceMade`), hence
`WinnerCorrect` and `UpdatesCorrect`; the cluster a request found is that of its
source (`Follower`), hence `SourcesCorrect`; an outcome about to be stored was heard
of the row found (`TesterOK`), which is the row with that id, hence
`OutcomesCorrect`.

**Nobody is stuck**, three times, says that a step *may* be taken in the model's own
words (`MayStep`, `MayCollect`, `MayServe`, `MayMigrate`), for `ENABLED` is out of
TLAPS's reach. On the instances of the runs TLC confirms that each of them is true
exactly where the step it speaks of is `ENABLED`.

**Only model-checked**: liveness, `EveryRequestAnswered`, `EveryRunSettles`,
`EverythingEnds` and `CollectorsGetDone`. TLAPS does not do fairness; that each fair
step leaves less of a number and that one can be taken is the part of the argument
that is proved. All other properties of all passing runs are theorems. The library's
induction theorems cannot be used, because they take an operator; where a proof needs
them, it takes the least member of a set of naturals instead (`Inductive` of
`SeriesProofs`; elsewhere from the well-foundedness of `<` on the naturals).

## Where code and documents differ

* **Ids are used again on sqlite** (`sqlite_id_reuse`). Deleting a cluster does not
  stop a run of it. On sqlite the next run gets the id of the deleted one, and the
  old thread goes on storing recommendations, and an outcome, under it. The
  properties of `Registry` allow for the same reuse (`MayReuse`).
* **Edges are added on every collection** (`edges_counted_twice`), where the
  document says that upserts are idempotent.
* **A failed step may hide** (`stale_samples_hidden`): the age of a run's data is
  that of the newer of two tables. Samples are past their time to live when a request
  comes; its collection fails on the metrics and commits the allocations, and the run
  is not marked stale, although a comment (`app.py:310-311`) says that after a failure
  it surfaces so.

Others were met while modelling and have no run:

* `docs/priority-ranking.md:182-184` speaks of any app of another class within the
  gap; `runner.py:245` looks at the two adjacent ranks.
* `docs/priority-ranking.md:153-156` says that no class is empty from three members
  on; the rounding of `assign.py:35` may empty the lowest.
* `migrate-job.yaml:10` and `store.go:140` call migrating idempotent; of two
  collectors that start together, one may fail on the other's objects and succeeds
  when started again (`migrate.go:30`). On a fresh postgres the object may be
  `schema_migrations` itself, `IF NOT EXISTS` notwithstanding (`migrate.go:25-26`).
* `docs/priority-ranking.md:224` and `export.py:7` put the memory hint at or above
  the observed peak; the peak is one of hourly means and is then rounded to the
  nearest Mi, which is what `HintsAreOrdered` says. The samples are those at the time
  of the export, not those the run ranked.
* `docs/priority-ranking.md:217-218` and `export.py:90` have a request below the limit
  for Burstable; for a constant series, or one whose percentiles round to the same,
  the two are equal.
* `docs/priority-ranking.md:215` sizes Guaranteed to the P95 plus headroom; the hint
  is the P95 (`export.py:87`).
* `docs/priority-ranking.md:180-181` and `confidence.py:28` speak of samples seen in the
  window. The points counted are those of a series whose gaps are filled
  (`runner.py:139`), of all samples ever stored (`statestore.py:244`), against one per
  hour even where the series has one per two minutes.
* `kube.py:193-196` expects an answer of 401 or 403 as a status; `urlopen` raises for
  both, so they are never seen there.
* `docs/api.md:337` promises 409 for a name that is taken; the loser of a race gets
  500 (`app.py:150-158`). `OneWinnerPerName` admits both.
* `values.yaml:59` calls the migrate job a pre-install hook and the template makes it
  a post-install one; the comment at `steps/allocations.go:11-12` says the step
  records identities, which the metrics step does.

Nor do these contradict a document, but a reader should know that they are so:
`data_as_of` is the date of the newest row of the cluster (`statestore.py:259`), of
whatever workload and resource, and may be newer than everything a run of fewer of
them loads; a run under which postgres loses the connection stays `running` for good
though the engine lives (`runner.py:109-111`); a row deleted between its commit and
the read for the answer makes the answer of a successful write a 500
(`statestore.py:398`); a collection whose row was inserted without an acknowledgement
stays `running` though it was refused (`ingest.go:51`); a
source keeps its health when its endpoint changes; an older probe may overwrite the
status of a newer one (`app.py:204`); a saved cluster with neither URL nor credential
is probed as the engine's own (`app.py:186-188` guards the form only); names of
priority classes do not contain the namespace; and the fraction of a fallback
allocation, which is made of the newest samples, may fall when samples rise.

## Plan

1. *Done*: `AnalysisRun` with `RunResults` and its readers in `RunViews`, `Registry`,
   `Ranking`, `Series`, `Collection`, `Migrations`.
2. *Done*: the theorems about each of them: every property of a passing run that is
   not liveness, the refinement of `RunResults`, and what liveness rests on.
3. *Composition left*: `Collection` with the reads of `AnalysisRun`, to relate the
   date of a run to what it loaded across both programs.

## Not modelled

* The floating-point side of the grouping: logarithms, z-scores, distances, the
  silhouette. No property here depends on which partition it finds. The estimate of
  savings (`cost.py`) relates nothing to anything.
* Of the store and the API: reads of one statement that only fill in forms or lists,
  the validation of the configuration, the decoding of JSON columns.
* The decoding of kubeconfigs and certificates; what the probe sends and what
  becomes of the answer is in `Registry`.
* Wording: summaries and the optional call of a language model (`why/`), the text of
  the exported YAML, the command line's arguments.
* The HTTP side of the connectors. `synth/`: fixtures. `ui/`: a page over the API.
  Chart and CI beyond what is named above.

## Running it

    tlc -workers 2 -config Collection.cfg MCCollection
    tlapm CollectionProofs.tla

Each `.cfg` names its instance; the longest run takes about two and a half minutes on
two workers.
