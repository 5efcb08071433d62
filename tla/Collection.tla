----------------------------- MODULE Collection -----------------------------
(***************************************************************************)
(* Collecting the data of one cluster, and the requests that cause it.     *)
(*                                                                         *)
(* The collector (Go) pulls metrics, allocations and interactions out of   *)
(* Prometheus and upserts them: as a CronJob, a process for each           *)
(* collection, or on demand, a goroutine of the trigger service that the   *)
(* engine's API posts to.  The two programs meet in the state database     *)
(* only: the API polls the collection_runs row, and an analysis takes what *)
(* it finds in the tables.                                                 *)
(*                                                                         *)
(* Each upsert is one transaction and so one action here.  A row stands    *)
(* for the collection that wrote it, whose fetch times say how old it is.  *)
(* What an analysis reads after its start is in AnalysisRun.               *)
(***************************************************************************)
EXTENDS Integers, FiniteSets

CONSTANTS
  Workloads,   \* workloads of the cluster
  Answers,     \* what a query may return: sets of workloads
  Requests,    \* HTTP requests to the engine's API
  Selections,  \* sets of steps the CLI is asked to run
  MaxId,       \* bound: collections started
  MaxTime,     \* bound: ticks of the clock
  Ttl          \* metric_ttl_hours of the settings, in ticks

Steps == {"metrics", "allocations", "interactions"}

ASSUME WorkloadsAssumption == IsFiniteSet(Workloads)
ASSUME AnswersAssumption == Answers \subseteq SUBSET Workloads
ASSUME SelectionsAssumption == Selections \subseteq (SUBSET Steps) \ {{}}
ASSUME BoundsAssumption == MaxId \in Nat /\ MaxTime \in Nat \ {0} /\ Ttl \in Nat
ASSUME RequestsAssumption == {"nobody", "cron", "lost"} \intersect Requests = {}

Ids == 1 .. MaxId
NoId == 0
Times == 0 .. MaxTime
NoTime == 0

(* What becomes of a step of a collection.  "named" is between the two     *)
(* transactions of the metrics step.                                       *)
Progress == {"unasked", "todo", "fetched", "named", "written", "failed"}
Settled == {"unasked", "written", "failed"}

(* collector.py waits for one of these (TERMINAL).                         *)
Terminal == {"success", "partial", "failed"}

(* POST /collections; POST /runs with collectData; POST /runs without.     *)
Kinds == {"collect", "collect and run", "run"}

VARIABLES
  now,           \* the clock, in steps that matter to a time to live
  owner,         \* who a collection is for; "cron" is a process of its own,
                 \* and "lost" has a row and nobody to collect for it
  alive,         \* the goroutine or process of a collection still runs
  progress,      \* of each step of a collection
  got,           \* what the query of a step returned
  at,            \* collected_at of the rows of a step
  collection_runs,  \* the rows the API polls: status and rows_written
  disc_workloads,   \* workloads with an identity row
  metric_samples,   \* collections with samples, for each workload
  allocations,      \* the last collection to write a workload's allocations
  interactions,     \* collections with an edge out of each workload
  inbox,         \* POST /ingest on its way to the trigger service
  request        \* state of each request to the API

collector == <<owner, alive, progress, got, at>>
tables == <<disc_workloads, metric_samples, allocations, interactions>>
vars == <<now, collector, collection_runs, tables, inbox, request>>

-----------------------------------------------------------------------------
(* A request: where it is, when it was made, the collection it was told    *)
(* of, the status it waited for, and the date of the data of its run.      *)
RequestType ==
  [pc : {"new", "posted", "waiting", "ready", "done"}, kind : Kinds,
   since : Times, id : {NoId} \union Ids,
   saw : {"none", "running"} \union Terminal, asOf : Times, stale : BOOLEAN]

NewRequest ==
  [pc |-> "new", kind |-> "run", since |-> NoTime, id |-> NoId, saw |-> "none",
   asOf |-> NoTime, stale |-> FALSE]

Init ==
  /\ now = 1
  /\ owner = [c \in Ids |-> "nobody"]
  /\ alive = [c \in Ids |-> FALSE]
  /\ progress = [c \in Ids |-> [s \in Steps |-> "unasked"]]
  /\ got = [c \in Ids |-> [s \in Steps |-> {}]]
  /\ at = [c \in Ids |-> [s \in Steps |-> NoTime]]
  /\ collection_runs = [c \in Ids |-> [status |-> "none", rows |-> 0]]
  /\ disc_workloads = {}
  /\ metric_samples = [w \in Workloads |-> {}]
  /\ allocations = [w \in Workloads |-> NoId]
  /\ interactions = [w \in Workloads |-> {}]
  /\ inbox = {}
  /\ request = [r \in Requests |-> NewRequest]

-----------------------------------------------------------------------------
(***************************************************************************)
(* Starting a collection (ingest.Start): the row is created before         *)
(* anything is fetched.                                                    *)
(***************************************************************************)
(* Mutant: as the status before the first step.                            *)
Pending == "pending"

InitialStatus == "running"

(* Ids are handed out in order.                                            *)
IsNext(c) == owner[c] = "nobody" /\ \A d \in Ids : d < c => owner[d] # "nobody"

Start(c, who, selected) ==
  /\ IsNext(c)
  /\ owner' = [owner EXCEPT ![c] = who]
  /\ alive' = [alive EXCEPT ![c] = TRUE]
  /\ progress' = [progress EXCEPT ![c] =
                    [s \in Steps |-> IF s \in selected THEN "todo" ELSE "unasked"]]
  /\ collection_runs' = [collection_runs EXCEPT ![c].status = InitialStatus]
  /\ UNCHANGED <<got, at>>

(* The CronJob runs the CLI; concurrencyPolicy Forbid keeps its jobs       *)
(* apart.  Mutant: Allow.                                                  *)
Allow == TRUE

Forbid == \A c \in Ids : owner[c] = "cron" => ~alive[c]

CronIngest(c, selected) ==
  /\ Forbid
  /\ Start(c, "cron", selected)
  /\ UNCHANGED <<now, tables, inbox, request>>

(* handleIngest: create the row, go on in the background, answer 202 with  *)
(* the id.  The answer may come too late for the engine.                   *)
Accept(c, r) ==
  /\ r \in inbox
  /\ inbox' = inbox \ {r}
  /\ Start(c, r, Steps)
  /\ UNCHANGED <<now, tables, request>>

(* An insert that commits and is not acknowledged: the row says running,   *)
(* and no goroutine is ever started for it.                                *)
Abandon(c) ==
  /\ IsNext(c)
  /\ owner' = [owner EXCEPT ![c] = "lost"]
  /\ collection_runs' = [collection_runs EXCEPT ![c].status = InitialStatus]
  /\ UNCHANGED <<alive, progress, got, at>>

(* The insert of the row fails, or the client is gone: 500.                *)
Refuse(r) ==
  /\ r \in inbox
  /\ inbox' = inbox \ {r}
  /\ \/ UNCHANGED <<collector, collection_runs>>
     \/ \E c \in Ids : Abandon(c)
  /\ UNCHANGED <<now, tables, request>>

-----------------------------------------------------------------------------
(***************************************************************************)
(* The steps, one after the other (ingest.Finish); a step that fails does  *)
(* not stop the next.                                                      *)
(***************************************************************************)
Earlier(s) ==
  {e \in Steps : (e = "metrics" /\ s # "metrics") \/ (e = "allocations" /\ s = "interactions")}

(* It is the turn of step s of collection c, and it is at p.               *)
AtStep(c, s, p) ==
  /\ alive[c]
  /\ progress[c][s] = p
  /\ \A e \in Earlier(s) : progress[c][e] \in Settled

Becomes(c, s, p) == progress' = [progress EXCEPT ![c][s] = p]

(* The query fails, or the connector is unknown.                           *)
FetchFails(c, s) ==
  /\ AtStep(c, s, "todo")
  /\ Becomes(c, s, "failed")
  /\ UNCHANGED <<now, owner, alive, got, at,
                 collection_runs, tables, inbox, request>>

(* Prometheus answers, and the rows are stamped.  Nothing reads the stamp  *)
(* of an edge.                                                             *)
Fetch(c, s, answer) ==
  /\ AtStep(c, s, "todo") /\ answer # {}
  /\ got' = [got EXCEPT ![c][s] = answer]
  /\ at' = [at EXCEPT ![c][s] = IF s = "interactions" THEN NoTime ELSE now]
  /\ Becomes(c, s, "fetched")
  /\ UNCHANGED <<now, owner, alive, collection_runs, tables, inbox, request>>

(* The answer has no workload: the upserts return at once, and the step    *)
(* has no error.                                                           *)
FetchNothing(c, s) ==
  /\ AtStep(c, s, "todo") /\ {} \in Answers
  /\ Becomes(c, s, "written")
  /\ UNCHANGED <<now, owner, alive, got, at, collection_runs, tables, inbox, request>>

(* The first transaction of the metrics step (UpsertWorkloads).            *)
UpsertWorkloads(c) ==
  /\ AtStep(c, "metrics", "fetched")
  /\ disc_workloads' = disc_workloads \union got[c]["metrics"]
  /\ Becomes(c, "metrics", "named")
  /\ UNCHANGED <<now, owner, alive, got, at, collection_runs,
                 metric_samples, allocations, interactions, inbox, request>>

(* Samples are keyed by their times, edges by the start of the window.  As *)
(* long as no two collections start within one second, their windows start *)
(* and end apart, and each leaves rows that no other overwrites.           *)
AddTo(table, c, answer) ==
  [w \in Workloads |-> IF w \in answer THEN table[w] \union {c} ELSE table[w]]

(* An allocation is keyed by workload and resource: the last one stays.    *)
Put(table, c, answer) ==
  [w \in Workloads |-> IF w \in answer THEN c ELSE table[w]]

(* What the last transaction of a step does to the tables.                 *)
Write(c, s) ==
  \/ /\ s = "metrics"
     /\ metric_samples' = AddTo(metric_samples, c, got[c][s])
     /\ UNCHANGED <<disc_workloads, allocations, interactions>>
  \/ /\ s = "allocations"
     /\ allocations' = Put(allocations, c, got[c][s])
     /\ UNCHANGED <<disc_workloads, metric_samples, interactions>>
  \/ /\ s = "interactions"
     /\ interactions' = AddTo(interactions, c, got[c][s])
     /\ UNCHANGED <<disc_workloads, metric_samples, allocations>>

(* The point from which a step commits its last transaction.  Mutant: the  *)
(* samples do not wait for the identities.                                 *)
AnyOrder(s) == "fetched"

ReadyAt(s) == IF s = "metrics" THEN "named" ELSE "fetched"

Upsert(c, s) ==
  /\ AtStep(c, s, ReadyAt(s))
  /\ Write(c, s)
  /\ Becomes(c, s, "written")
  /\ UNCHANGED <<now, owner, alive, got, at, collection_runs, inbox, request>>

(* A transaction fails and is rolled back, and what the step had fetched   *)
(* is gone.                                                                *)
UpsertFails(c, s) ==
  /\ AtStep(c, s, "fetched") \/ AtStep(c, s, "named")
  /\ Becomes(c, s, "failed")
  /\ got' = [got EXCEPT ![c][s] = {}]
  /\ at' = [at EXCEPT ![c][s] = NoTime]
  /\ UNCHANGED <<now, owner, alive, collection_runs, tables, inbox, request>>

(* It commits, but the connection is lost before the answer: to the step   *)
(* an error like the other.                                                *)
CommitUnacknowledged(c, s) ==
  /\ AtStep(c, s, ReadyAt(s))
  /\ Write(c, s)
  /\ Becomes(c, s, "failed")
  /\ got' = [got EXCEPT ![c][s] = {}]
  /\ UNCHANGED <<now, owner, alive, at, collection_runs, inbox, request>>

-----------------------------------------------------------------------------
(***************************************************************************)
(* The end of a collection.                                                *)
(***************************************************************************)
Asked(c) == {s \in Steps : progress[c][s] # "unasked"}
Errors(c) == {s \in Steps : progress[c][s] = "failed"}

(* totalRows: what the steps that returned without an error wrote.         *)
Reported(c) ==
  Cardinality({row \in Steps \X Workloads :
                 progress[c][row[1]] = "written" /\ row[2] \in got[c][row[1]]})

(* statusFor.  Mutant: a collection that wrote something succeeded.        *)
ByRowsOnly(c) == IF Reported(c) > 0 \/ Errors(c) = {} THEN "success" ELSE "failed"

StatusFor(c) ==
  IF Errors(c) = {} THEN "success"
  ELSE IF Reported(c) > 0 \/ Errors(c) # Asked(c) THEN "partial" ELSE "failed"

(* When Finish gets to the row.                                            *)
MayFinish(c) == alive[c] /\ \A s \in Steps : progress[c][s] \in Settled

(* UpdateCollectionRun, and the goroutine or process ends.                 *)
Finish(c) ==
  /\ MayFinish(c)
  /\ collection_runs' = [collection_runs EXCEPT
                           ![c] = [status |-> StatusFor(c), rows |-> Reported(c)]]
  /\ alive' = [alive EXCEPT ![c] = FALSE]
  /\ UNCHANGED <<now, owner, progress, got, at, tables, inbox, request>>

(* The update of the row fails: nobody tries again, and it stays running.  *)
FinishUnrecorded(c) ==
  /\ MayFinish(c)
  /\ alive' = [alive EXCEPT ![c] = FALSE]
  /\ UNCHANGED <<now, owner, progress, got, at,
                 collection_runs, tables, inbox, request>>

(* A job is killed; the trigger service stops or crashes with every        *)
(* collection it runs and every request it has not answered.               *)
KillJob(c) ==
  /\ alive[c] /\ owner[c] = "cron"
  /\ alive' = [alive EXCEPT ![c] = FALSE]
  /\ UNCHANGED <<now, owner, progress, got, at,
                 collection_runs, tables, inbox, request>>

KillService ==
  /\ inbox # {} \/ \E c \in Ids : alive[c] /\ owner[c] # "cron"
  /\ alive' = [c \in Ids |-> alive[c] /\ owner[c] = "cron"]
  /\ inbox' = {}
  /\ UNCHANGED <<now, owner, progress, got, at,
                 collection_runs, tables, request>>

-----------------------------------------------------------------------------
(***************************************************************************)
(* The API: post_collection and post_run, collector.py.                    *)
(***************************************************************************)
Trigger(r, kind) ==
  /\ request[r].pc = "new" /\ kind # "run"
  /\ request' = [request EXCEPT ![r].pc = "posted", ![r].kind = kind, ![r].since = now]
  /\ inbox' = inbox \union {r}
  /\ UNCHANGED <<now, collector, collection_runs, tables>>

(* post_collection hands on the answer; post_run waits for the row.        *)
AfterAnswer(kind) == IF kind = "collect" THEN "done" ELSE "waiting"

Answered(r, c) ==
  /\ request[r].pc = "posted" /\ owner[c] = r
  /\ request' = [request EXCEPT ![r].pc = AfterAnswer(request[r].kind), ![r].id = c]
  /\ UNCHANGED <<now, collector, collection_runs, tables, inbox>>

(* CollectorUnavailable, whatever became of the post: a timeout, a refused *)
(* or broken connection, a 500.  503 for post_collection; post_run goes on *)
(* without.                                                                *)
Unavailable(r) ==
  /\ request[r].pc = "posted"
  /\ request' = [request EXCEPT ![r].pc =
                   IF request[r].kind = "collect" THEN "done" ELSE "ready"]
  /\ UNCHANGED <<now, collector, collection_runs, tables, inbox>>

(* wait_for_collection: the row it polls, or 120 seconds.                  *)
Finished(c) == collection_runs[c].status \in Terminal

EndWait(r) ==
  request' = [request EXCEPT ![r].pc = "ready",
                             ![r].saw = collection_runs[request[r].id].status]

Poll(r) ==
  /\ request[r].pc = "waiting" /\ Finished(request[r].id)
  /\ EndWait(r)
  /\ UNCHANGED <<now, collector, collection_runs, tables, inbox>>

(* Mutant: it waits for as long as it takes.                               *)
WaitsForever(r) == FALSE

TimeIsUp(r) == ~Finished(request[r].id)

WaitTimesOut(r) ==
  /\ request[r].pc = "waiting" /\ TimeIsUp(r)
  /\ EndWait(r)
  /\ UNCHANGED <<now, collector, collection_runs, tables, inbox>>

(* max_collected_at, over samples and allocations.  Mutant: over one of    *)
(* the tables.                                                             *)
OfAllocations == {at[allocations[w]]["allocations"] : w \in {x \in Workloads : allocations[x] # NoId}}
OfSamples == {at[c]["metrics"] : c \in UNION {metric_samples[w] : w \in Workloads}}

Collected == OfAllocations \union OfSamples

(* A maximum, and none of nothing.                                         *)
IsNewest(t, times) ==
  IF times = {} THEN t = NoTime ELSE t \in times /\ \A u \in times : u <= t

(* run_qos_analysis dates its data and decides whether they are stale.     *)
StartRun(r) ==
  /\ request[r].pc \in {"new", "ready"}
  /\ \E asOf \in Collected \union {NoTime} :
       /\ IsNewest(asOf, Collected)
       /\ request' = [request EXCEPT ![r].pc = "done", ![r].asOf = asOf,
                                     ![r].stale = (asOf = NoTime \/ asOf < now - Ttl)]
  /\ UNCHANGED <<now, collector, collection_runs, tables, inbox>>

Tick ==
  /\ now < MaxTime
  /\ now' = now + 1
  /\ UNCHANGED <<collector, collection_runs, tables, inbox, request>>

-----------------------------------------------------------------------------
Collect(c) ==
  \/ \E s \in Steps :
       \/ FetchFails(c, s)
       \/ \E answer \in Answers : Fetch(c, s, answer)
       \/ FetchNothing(c, s)
       \/ Upsert(c, s)
       \/ UpsertFails(c, s)
       \/ CommitUnacknowledged(c, s)
  \/ UpsertWorkloads(c)
  \/ Finish(c)
  \/ FinishUnrecorded(c)

Serve(r) ==
  \/ \E c \in Ids : Answered(r, c)
  \/ Unavailable(r)
  \/ Poll(r)
  \/ WaitTimesOut(r)
  \/ StartRun(r)

Next ==
  \/ Tick
  \/ \E c \in Ids :
       \/ \E selected \in Selections : CronIngest(c, selected)
       \/ \E r \in Requests : Accept(c, r)
       \/ Collect(c)
       \/ KillJob(c)
  \/ KillService
  \/ \E r \in Requests :
       \/ \E kind \in Kinds : Trigger(r, kind)
       \/ Refuse(r)
       \/ Serve(r)

Spec == Init /\ [][Next]_vars

(* A goroutine and a process go on as long as nobody kills them, and every *)
(* wait of a request has a timeout, so that it always has a next step.     *)
FairSpec ==
  /\ Spec
  /\ \A c \in Ids : WF_vars(Collect(c))
  /\ \A r \in Requests : WF_vars(request[r].pc # "new" /\ Serve(r))

-----------------------------------------------------------------------------
(***************************************************************************)
(* Properties.                                                             *)
(***************************************************************************)

(* Every row has its writer: rows belong to collections that were started, *)
(* a collection that runs has a row that says so, and a step is where its  *)
(* turn allows.                                                            *)
TypeOK ==
  /\ now \in Times
  /\ owner \in [Ids -> Requests \union {"nobody", "cron", "lost"}]
  /\ alive \in [Ids -> BOOLEAN]
  /\ progress \in [Ids -> [Steps -> Progress]]
  /\ got \in [Ids -> [Steps -> SUBSET Workloads]]
  /\ at \in [Ids -> [Steps -> Times]]
  /\ collection_runs \in [Ids -> [status : {"none", "running"} \union Terminal, rows : Nat]]
  /\ disc_workloads \subseteq Workloads
  /\ metric_samples \in [Workloads -> SUBSET Ids]
  /\ allocations \in [Workloads -> {NoId} \union Ids]
  /\ interactions \in [Workloads -> SUBSET Ids]
  /\ inbox \subseteq Requests
  /\ request \in [Requests -> RequestType]
  /\ \A c \in Ids : alive[c] => collection_runs[c].status = "running"
  /\ \A r \in Requests : request[r].pc = "waiting" => request[r].id # NoId

(* A collection that says success did every step it was asked for, has     *)
(* everything it fetched in the tables, whatever other collections did     *)
(* meanwhile, and counts all of it (statusFor, ingest.go:119-128, read by  *)
(* every poll of the row).                                                 *)
SuccessIsComplete ==
  \A c \in Ids : collection_runs[c].status = "success" =>
    /\ \A s \in Asked(c) : progress[c][s] = "written"
    /\ \A w \in got[c]["metrics"] : w \in disc_workloads /\ c \in metric_samples[w]
    /\ \A w \in got[c]["allocations"] : allocations[w] # NoId
    /\ \A w \in got[c]["interactions"] : c \in interactions[w]
    /\ collection_runs[c].rows =
         Cardinality({row \in Steps \X Workloads : row[2] \in got[c][row[1]]})

(* A workload with samples has an identity, although the two are written   *)
(* in transactions of their own, either of which may fail or never happen  *)
(* (MetricsStep.Run, metrics.go:23-28).                                    *)
SamplesHaveIdentity ==
  \A w \in Workloads : metric_samples[w] # {} => w \in disc_workloads

(* An analysis that waited for its own collection to end, and whose        *)
(* collection wrote samples, is dated no earlier than the request, however *)
(* many other collections wrote in between (post_run, app.py:312-321;      *)
(* max_collected_at, statestore.py:259-266).                               *)
FreshAfterOwnCollection ==
  \A r \in Requests :
    LET q == request[r] IN
    (/\ q.pc = "done" /\ q.kind = "collect and run" /\ q.saw \in Terminal
     /\ progress[q.id]["metrics"] = "written" /\ got[q.id]["metrics"] # {}) =>
      q.asOf >= q.since

(* Jobs never put older allocations in the place of newer ones, since one  *)
(* is over before the next begins (concurrencyPolicy, values.yaml:74).     *)
(* Nothing of the kind holds of collections on demand beside them.         *)
NotOlder(w) ==
  (/\ allocations[w] # NoId /\ owner[allocations[w]] = "cron"
   /\ owner[allocations'[w]] = "cron") =>
    at[allocations[w]]["allocations"] <= at[allocations'[w]]["allocations"]

JobsNeverAgeTheData == [][\A w \in Workloads : NotOlder(w)]_vars

(* Every request that calls on the collector is answered in the end,       *)
(* whether the collector is there, crashes, or forgets the row (the        *)
(* timeouts of collector.py:27-60).                                        *)
RequestsEnd == \A r \in Requests : request[r].pc = "posted" ~> request[r].pc = "done"

(* Every collection ends, with whichever steps failed (Finish goes on      *)
(* after a failed step, ingest.go:67-82).                                  *)
CollectionsEnd == \A c \in Ids : alive[c] ~> ~alive[c]

(* Nobody waits for ever. *)
EverythingEnds == RequestsEnd /\ CollectionsEnd

(* What docs/architecture.md:93 says of the collector: upsert everything,  *)
(* idempotently.  Collecting the same edge again does not count it twice.  *)
EdgesCountOnce == \A w \in Workloads : Cardinality(interactions[w]) <= 1

(* What app.py:310-311 says of a collection that fails before a run: the   *)
(* engine runs on stored data and surfaces stale.  Here only of a run      *)
(* that was told so, whose metrics step failed, and whose samples were all *)
(* older than the time to live before the collection was asked for.        *)
HidNoFailure(r) ==
  LET q == request[r] IN
  (/\ q.pc = "ready" /\ request'[r].pc = "done"
   /\ q.saw = "partial"
   /\ progress[q.id]["metrics"] = "failed"
   /\ OfSamples # {}
   /\ \A t \in OfSamples : t < q.since - Ttl) => request'[r].stale

SurfacesStale == [][\A r \in Requests : HidNoFailure(r)]_vars

=============================================================================
