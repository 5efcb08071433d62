---------------------------- MODULE AnalysisRun -----------------------------
(***************************************************************************)
(* The QoS analysis run: engine/recommenders/qos/runner.py over the        *)
(* transactions of analysis_core/io/statestore.py, while the collector     *)
(* writes the data the run reads and an operator deletes clusters.         *)
(*                                                                         *)
(* Every POST /runs is served by a thread of its own with a database       *)
(* connection of its own.  An action is one statement of that thread that  *)
(* reads or writes the state database (or a block of pure computation      *)
(* between two of them); what a connection has written and not committed   *)
(* is kept apart, in draftRuns and draftGroups, from the tables other      *)
(* connections see.                                                        *)
(*                                                                         *)
(* The two databases differ where it matters:                              *)
(*   sqlite    one writer at a time: the first write of a transaction      *)
(*             takes the lock, any other writer waits 5 s and then gets    *)
(*             "database is locked"; ids are max(id) + 1, so the id of the *)
(*             newest row is used again once that row is deleted;          *)
(*   postgres  every statement reads the latest commit; a foreign key      *)
(*             share-locks the row it names until the commit; an error     *)
(*             aborts the transaction; ids come from a sequence.  It is a  *)
(*             server: connections to it can be lost.                      *)
(***************************************************************************)
EXTENDS Naturals

CONSTANTS
  Requests,    \* the POST /runs requests, each for one analysis run
  NClusters,   \* how many clusters are registered at first
  Workloads,   \* the workloads the collector finds in a cluster
  ClusterOf,   \* the cluster a request names, [Requests -> Clusters]
  ByName,      \* the requests that give its name and not its id: they make it
               \*   when it is not there
  Scope,       \* the workloads a request is about, [Requests -> SUBSET Workloads]
  Resources,   \* the resources the collector measures
  Ranked,      \* those a request ranks on, [Requests -> SUBSET Resources]
  Dialect,     \* the state database: "sqlite" or "postgres"
  Deletable,   \* clusters an operator may delete
  MayCrash,    \* may the engine process die?
  MayFault,    \* may connections to postgres be lost, or it refuse a statement?
  Details,     \* what is stored beside a recommendation where there is data
               \*   for it: "evidence" with a series, "peers"
  MaxGroups,   \* bound: the most peer groups k-means makes (k_max)
  MaxStamp     \* bound: how many commits of the collector are followed

(* A cluster's name; at first it is also the id of its row. *)
Clusters == 1 .. NClusters

ASSUME RequestsAssumption ==
  /\ ClusterOf \in [Requests -> Clusters]
  /\ ByName \subseteq Requests
  /\ Deletable \subseteq Clusters
  /\ Scope \in [Requests -> SUBSET Workloads]
  /\ Ranked \in [Requests -> SUBSET Resources]
  /\ "allocations" \notin Resources
ASSUME DialectAssumption == Dialect \in {"sqlite", "postgres"}
ASSUME DetailsAssumption == Details \subseteq {"evidence", "peers"}
ASSUME FaultAssumption ==
  /\ MayCrash \in BOOLEAN /\ MayFault \in BOOLEAN
  /\ MayFault => Dialect = "postgres"
ASSUME BoundsAssumption ==
  NClusters \in Nat /\ MaxGroups \in Nat \ {0} /\ MaxStamp \in Nat

-----------------------------------------------------------------------------
VARIABLES
  \* The committed state database.
  clusters,      \* rows of clusters: the id under each name, 0 if no row
  stamp,         \* newest collected_at of a cluster's Tier-3 cells, 0: no rows
  clock,         \* the newest collected_at of all
  runs,          \* rows of analysis_runs
  groups,        \* rows of qos_groups
  recs,          \* rows of qos_recommendations
  issuedClusters, \* last value of the cluster id sequence (postgres),
  issuedRuns,     \*   of the run id sequence
  issuedGroups,   \*   and of the group id sequence
  deleted,       \* history: clusters deleted at some time
  \* The connection of a request.
  inTx,          \* has it an open transaction that took a lock?
  draftRuns,     \* the analysis_runs row it has not committed
  draftGroups,   \* the qos_groups rows it has not committed
  \* The thread of a request.
  pc,            \* what it does next
  clusterId,     \* cluster_id, 0 before ensure_cluster has answered
  runId,         \* run_id, 0 before create_analysis_run
  groupId,       \* group_id of the group in hand
  asOf,          \* data_as_of
  newest,        \* history: the cells whose rows it is the date of
  uids,          \* workload_uids with an allocation vector, in scope
  seen,          \* what it loaded: the cell and its collected_at
  label,         \* the group k-means put a workload in
  left,          \* groups not yet begun
  pending,       \* members of the group in hand without a recommendation
  reply          \* the HTTP answer

collected == <<stamp, clock>>
results == <<runs, groups, recs>>
issued == <<issuedClusters, issuedRuns, issuedGroups>>
connection == <<inTx, draftRuns, draftGroups>>
thread ==
  <<clusterId, runId, groupId, asOf, newest, uids, seen, label, left, pending>>
vars == <<clusters, collected, results, issued, deleted, connection, pc,
          thread, reply>>

(* The rows one SELECT of the load reads: the samples of a workload for a  *)
(* resource, or its allocations.                                           *)
Cells == [uid : Workloads, kind : Resources \union {"allocations"}]
AllocationsOf(w) == [uid |-> w, kind |-> "allocations"]

GroupIndexes == 0 .. MaxGroups - 1
Stamps == 0 .. MaxStamp

(* A run's row; its owner, the request that made it, stands for its name.  *)
RunRows ==
  [id : Nat \ {0}, cluster : Nat \ {0}, owner : Requests,
   status : {"running", "completed", "failed"}]

(* A group's row: member_count is abstracted to the members it counts.     *)
(* "by" is history: the request whose thread wrote the row.                *)
GroupRows ==
  [id : Nat \ {0}, run : Nat \ {0}, index : GroupIndexes,
   members : SUBSET Workloads, by : Requests]

(* A recommendation's row, with the details it has of those that depend on *)
(* the data: the series of its evidence needs utilization, a peer an edge  *)
(* inside the group.                                                       *)
RecRows ==
  [run : Nat \ {0}, group : Nat \ {0}, uid : Workloads, details : SUBSET Details,
   by : Requests]

Reads == [cell : Cells, stamp : Stamps]

(* "lost" and "fault" are failures that were not recorded: the statement   *)
(* that would have done so failed, or the database did.                    *)
Verdicts == {"completed", "failed", "lost", "fault", "rejected"}
Statements ==
  {"resolve", "asof", "create", "list", "load", "process", "failing", "broken"}
Active == Statements \union Verdicts

-----------------------------------------------------------------------------
(***************************************************************************)
(* Databases.                                                              *)
(***************************************************************************)

(* May the connection of q write now, or would it wait for the lock?       *)
MayWrite(q) ==
  Dialect = "sqlite" => \A p \in Requests \ {q} : ~ inTx[p]

(* The id the next row gets, in a singleton.  Mutants: max(id) + 1 on both *)
(* databases; a sequence that starts at 0.                                 *)
NextIdOfMax(ids, last) ==
  {i \in {1} \union {j + 1 : j \in ids} : \A j \in ids : j < i}
NextIdFromZero(ids, last) == {last}

NextId(ids, last) ==
  IF Dialect = "sqlite"
  THEN {i \in {1} \union {j + 1 : j \in ids} : \A j \in ids : j < i}
  ELSE {last + 1}
Ids(rows) == {r.id : r \in rows}

(* The clusters whose row has an id: one, or none when it was deleted.     *)
Named(id) == {c \in Clusters : clusters[c] = id}

(* Newest collected_at of a cell of cluster_id, 0 when it has no row. *)
StampOf(q, k) ==
  IF Named(clusterId[q]) = {} THEN 0
  ELSE stamp[CHOOSE c \in Named(clusterId[q]) : TRUE][k]

(* What a statement of q sees of a table: the committed rows and its own.  *)
RunsSeenBy(q) == runs \union draftRuns[q]
GroupsSeenBy(q) == groups \union draftGroups[q]

(* Foreign keys: is the row a new row of q would refer to there?  Mutant:  *)
(* the key of qos_groups and qos_recommendations is not enforced.          *)
RunNotChecked(q) == TRUE

RunExists(q) == \E r \in RunsSeenBy(q) : r.id = runId[q]
GroupExists(q) == \E g \in GroupsSeenBy(q) : g.id = groupId[q]

(* UPDATE analysis_runs SET status ... WHERE id: no row is no error.       *)
(* Mutant: the update misses the row.                                      *)
WithoutStatus(rows, id, status) == rows

WithStatus(rows, id, status) ==
  {IF r.id = id THEN [r EXCEPT !.status = status] ELSE r : r \in rows}

(* The first write of a transaction takes its lock.  Mutant: autocommit.   *)
Autocommit(q) == UNCHANGED inTx

BeginTx(q) == inTx' = [inTx EXCEPT ![q] = TRUE]

(* The connection ends its transaction, by a commit or a rollback.         *)
EndTx(q) ==
  /\ inTx' = [inTx EXCEPT ![q] = FALSE]
  /\ draftRuns' = [draftRuns EXCEPT ![q] = {}]
  /\ draftGroups' = [draftGroups EXCEPT ![q] = {}]

-----------------------------------------------------------------------------
(* Initial state: the clusters are registered, and nothing is collected.   *)
Init ==
  /\ clusters = [c \in Clusters |-> c]
  /\ stamp = [c \in Clusters |-> [k \in Cells |-> 0]]
  /\ clock = 0
  /\ runs = {} /\ groups = {} /\ recs = {}
  /\ issuedClusters = NClusters /\ issuedRuns = 0 /\ issuedGroups = 0
  /\ deleted = {}
  /\ inTx = [q \in Requests |-> FALSE]
  /\ draftRuns = [q \in Requests |-> {}]
  /\ draftGroups = [q \in Requests |-> {}]
  /\ pc = [q \in Requests |-> "idle"]
  /\ clusterId = [q \in Requests |-> IF q \in ByName THEN 0 ELSE ClusterOf[q]]
  /\ runId = [q \in Requests |-> 0]
  /\ groupId = [q \in Requests |-> 0]
  /\ asOf = [q \in Requests |-> 0]
  /\ newest = [q \in Requests |-> {}]
  /\ uids = [q \in Requests |-> {}]
  /\ seen = [q \in Requests |-> {}]
  /\ label = [q \in Requests |-> [w \in Workloads |-> 0]]
  /\ left = [q \in Requests |-> {}]
  /\ pending = [q \in Requests |-> {}]
  /\ reply = [q \in Requests |-> "none"]

-----------------------------------------------------------------------------
(***************************************************************************)
(* Before the run exists.                                                  *)
(***************************************************************************)

(* ensure_cluster: insert the name unless it is there, commit ... *)
EnsureCluster(q) ==
  LET c == ClusterOf[q] IN
  /\ pc[q] = "idle"
  /\ q \in ByName
  /\ MayWrite(q)
  /\ IF clusters[c] # 0
     THEN UNCHANGED <<clusters, issuedClusters>>
     ELSE \E id \in NextId({clusters[d] : d \in Clusters} \ {0}, issuedClusters) :
            /\ clusters' = [clusters EXCEPT ![c] = id]
            /\ issuedClusters' = IF Dialect = "postgres" THEN id ELSE issuedClusters
  /\ pc' = [pc EXCEPT ![q] = "resolve"]
  /\ UNCHANGED <<collected, results, issuedRuns, issuedGroups, deleted,
                 connection, thread, reply>>

(* ... then select its id. *)
ResolveCluster(q) ==
  /\ pc[q] = "resolve"
  /\ clusters[ClusterOf[q]] # 0
  /\ clusterId' = [clusterId EXCEPT ![q] = clusters[ClusterOf[q]]]
  /\ pc' = [pc EXCEPT ![q] = "asof"]
  /\ UNCHANGED <<clusters, collected, results, issued, deleted, connection,
                 runId, groupId, asOf, newest, uids, seen, label, left, pending,
                 reply>>

(* max_collected_at: the newest row of the cluster, whatever its workload  *)
(* and resource, before the run's transaction begins.                      *)
ReadAsOf(q) ==
  /\ pc[q] = "asof" \/ (pc[q] = "idle" /\ q \notin ByName)
  /\ \E m \in {0} \union {StampOf(q, k) : k \in Cells} :
       /\ \A k \in Cells : StampOf(q, k) <= m
       /\ asOf' = [asOf EXCEPT ![q] = m]
       /\ newest' = [newest EXCEPT ![q] = {k \in Cells : StampOf(q, k) = m /\ m # 0}]
  /\ pc' = [pc EXCEPT ![q] = "create"]
  /\ UNCHANGED <<clusters, collected, results, issued, deleted, connection,
                 clusterId, runId, groupId, uids, seen, label, left, pending,
                 reply>>

(* create_analysis_run: the row is inserted and not committed. *)
CreateRun(q) ==
  /\ pc[q] = "create"
  /\ MayWrite(q)
  /\ Named(clusterId[q]) # {}
  /\ \E id \in NextId(Ids(runs), issuedRuns) :
       /\ runId' = [runId EXCEPT ![q] = id]
       /\ draftRuns' = [draftRuns EXCEPT ![q] =
            {[id |-> id, cluster |-> clusterId[q], owner |-> q, status |-> "running"]}]
       /\ issuedRuns' = IF Dialect = "postgres" THEN id ELSE issuedRuns
  /\ BeginTx(q)
  /\ pc' = [pc EXCEPT ![q] = "list"]
  /\ UNCHANGED <<clusters, collected, results, issuedClusters, issuedGroups,
                 deleted, draftGroups, clusterId, groupId, asOf, newest, uids,
                 seen, label, left, pending, reply>>

(* A statement before the try block fails: the lock is not granted in      *)
(* time, the cluster is gone, or the database fails.  No run was made.     *)
(* Mutant: a writer waits for the lock, however long.                      *)
WaitForever(q) == FALSE

Reject(q) ==
  /\ \/ pc[q] = "idle" /\ q \in ByName /\ ~ MayWrite(q)
     \/ pc[q] = "resolve" /\ clusters[ClusterOf[q]] = 0
     \/ pc[q] = "create" /\ (~ MayWrite(q) \/ Named(clusterId[q]) = {})
     \/ MayFault /\ pc[q] \in {"idle", "resolve", "asof", "create"}
  /\ pc' = [pc EXCEPT ![q] = "rejected"]
  /\ UNCHANGED <<clusters, collected, results, issued, deleted, connection,
                 thread, reply>>

-----------------------------------------------------------------------------
(***************************************************************************)
(* Reading the collected data, Phase A.                                    *)
(***************************************************************************)

(* list_allocation_uids: the workloads in scope with an allocation row. *)
ListUids(q) ==
  /\ pc[q] = "list"
  /\ uids' = [uids EXCEPT ![q] =
                {w \in Scope[q] : StampOf(q, AllocationsOf(w)) # 0}]
  /\ pc' = [pc EXCEPT ![q] = "load"]
  /\ UNCHANGED <<clusters, collected, results, issued, deleted, connection,
                 clusterId, runId, groupId, asOf, newest, seen, label, left,
                 pending, reply>>

(* The SELECTs of the load: of every workload listed, its series for every *)
(* resource ranked on (the configured ones less the excluded), and last    *)
(* its allocations.                                                        *)
ToLoad(q) ==
  {k \in Cells : k.uid \in uids[q] /\ k.kind \in Ranked[q] \union {"allocations"}}

HasRead(q, k) == \E x \in seen[q] : x.cell = k
IsLoaded(q, w) == HasRead(q, AllocationsOf(w))

(* _load_workload, one workload at a time, a statement at a time. *)
LoadWorkload(q, k) ==
  /\ pc[q] = "load"
  /\ k \in ToLoad(q)
  /\ ~ HasRead(q, k)
  /\ \A x \in seen[q] : x.cell.uid # k.uid => IsLoaded(q, x.cell.uid)
  /\ k.kind = "allocations" =>
       \A j \in ToLoad(q) : j.uid = k.uid => j = k \/ HasRead(q, j)
  /\ seen' = [seen EXCEPT ![q] = @ \union {[cell |-> k, stamp |-> StampOf(q, k)]}]
  /\ UNCHANGED <<clusters, collected, results, issued, deleted, connection, pc,
                 clusterId, runId, groupId, asOf, newest, uids, label, left,
                 pending, reply>>

(* cluster_workloads: k-means partitions the workloads; in cross-group     *)
(* mode there is one group, 0, even when it has no member.                 *)
ClusterWorkloads(q) ==
  /\ pc[q] = "load"
  /\ \A w \in uids[q] : IsLoaded(q, w)
  /\ \/ \E f \in [Workloads -> GroupIndexes] :
          /\ label' = [label EXCEPT ![q] = f]
          /\ left' = [left EXCEPT ![q] = {f[w] : w \in uids[q]}]
     \/ /\ label' = [label EXCEPT ![q] = [w \in Workloads |-> 0]]
        /\ left' = [left EXCEPT ![q] = {0}]
  /\ pc' = [pc EXCEPT ![q] = "process"]
  /\ UNCHANGED <<clusters, collected, results, issued, deleted, connection,
                 clusterId, runId, groupId, asOf, newest, uids, seen, pending,
                 reply>>

-----------------------------------------------------------------------------
(***************************************************************************)
(* Phase B: groups in the order of their index, one commit per             *)
(* recommendation.                                                         *)
(***************************************************************************)

(* for gindex in sorted(groups).  Mutant: in the order of the dictionary.  *)
AnyGroup(q) == left[q]
NextGroup(q) == {i \in left[q] : \A j \in left[q] : i <= j}

(* _process_group up to its loop: rank, then insert_qos_group. *)
BeginGroup(q) ==
  /\ pc[q] = "process"
  /\ pending[q] = {}
  /\ MayWrite(q) /\ RunExists(q)
  /\ \E i \in NextGroup(q), id \in NextId(Ids(GroupsSeenBy(q)), issuedGroups) :
       LET members == {w \in uids[q] : label[q][w] = i} IN
       /\ groupId' = [groupId EXCEPT ![q] = id]
       /\ issuedGroups' = IF Dialect = "postgres" THEN id ELSE issuedGroups
       /\ draftGroups' = [draftGroups EXCEPT ![q] = @ \union
            {[id |-> id, run |-> runId[q], index |-> i, members |-> members,
              by |-> q]}]
       /\ left' = [left EXCEPT ![q] = @ \ {i}]
       /\ pending' = [pending EXCEPT ![q] = members]
  /\ BeginTx(q)
  /\ UNCHANGED <<clusters, collected, results, issuedClusters, issuedRuns,
                 deleted, draftRuns, pc, clusterId, runId, asOf, newest, uids,
                 seen, label, reply>>

(* One turn of the loop of _process_group: insert_qos_recommendation with  *)
(* its evidence and peers, then commit.  The rank order is arbitrary here. *)
WriteRecommendation(q, w) ==
  /\ pc[q] = "process"
  /\ w \in pending[q]
  /\ MayWrite(q) /\ RunExists(q) /\ GroupExists(q)
  /\ runs' = RunsSeenBy(q)
  /\ groups' = GroupsSeenBy(q)
  /\ \E d \in SUBSET Details :
       recs' = recs \union
         {[run |-> runId[q], group |-> groupId[q], uid |-> w, details |-> d, by |-> q]}
  /\ pending' = [pending EXCEPT ![q] = @ \ {w}]
  /\ EndTx(q)
  /\ UNCHANGED <<clusters, collected, issued, deleted, pc, clusterId, runId,
                 groupId, asOf, newest, uids, seen, label, left, reply>>

(* finish_analysis_run(status): update the row if it is there, commit.     *)
(* The connection may be lost when the commit is done and its answer is    *)
(* not: then the except block cannot update either.                        *)
FinishRun(q, status) ==
  /\ MayWrite(q)
  /\ runs' = WithStatus(RunsSeenBy(q), runId[q], status)
  /\ groups' = GroupsSeenBy(q)
  /\ EndTx(q)
  /\ \/ pc' = [pc EXCEPT ![q] = status]
     \/ MayFault /\ pc' = [pc EXCEPT ![q] = "fault"]
  /\ UNCHANGED <<clusters, collected, recs, issued, deleted, thread, reply>>

(* After the last group.  Mutant: after the first. *)
CompleteAfterOne(q) ==
  /\ pc[q] = "process"
  /\ pending[q] = {}
  /\ FinishRun(q, "completed")

CompleteRun(q) ==
  /\ pc[q] = "process"
  /\ pending[q] = {} /\ left[q] = {}
  /\ FinishRun(q, "completed")

-----------------------------------------------------------------------------
(***************************************************************************)
(* Failures.                                                               *)
(***************************************************************************)

(* A stage raises: a bad setting, an unparsable frequency or weight.       *)
ComputeFails(q) ==
  /\ \/ pc[q] = "load"
     \/ pc[q] = "process" /\ (pending[q] # {} \/ left[q] # {})
  /\ pc' = [pc EXCEPT ![q] = "failing"]
  /\ UNCHANGED <<clusters, collected, results, issued, deleted, connection,
                 thread, reply>>

(* A write inside the try block fails: the lock is not granted in time, or *)
(* the row it refers to has been deleted.  A failed statement keeps        *)
(* sqlite's transaction open and aborts that of postgres.                  *)
StatementFails(q) ==
  /\ pc[q] = "process"
  /\ \/ ~ MayWrite(q)
     \/ pending[q] # {} /\ ~ (RunExists(q) /\ GroupExists(q))
     \/ pending[q] = {} /\ left[q] # {} /\ ~ RunExists(q)
  /\ IF Dialect = "sqlite"
     THEN /\ pc' = [pc EXCEPT ![q] = "failing"]
          /\ inTx' = [inTx EXCEPT ![q] = MayWrite(q)]
          /\ UNCHANGED <<draftRuns, draftGroups>>
     ELSE /\ pc' = [pc EXCEPT ![q] = "broken"]
          /\ EndTx(q)
  /\ UNCHANGED <<clusters, collected, results, issued, deleted, thread, reply>>

(* The connection is lost, or postgres refuses a statement and aborts the  *)
(* transaction: the update of the except block fails on it at once, so     *)
(* nothing is recorded.  (A commit whose answer is lost is a commit and    *)
(* then this.)                                                             *)
DatabaseFails(q) ==
  /\ MayFault
  /\ pc[q] \in {"list", "load", "process", "failing"}
  /\ EndTx(q)
  /\ pc' = [pc EXCEPT ![q] = "fault"]
  /\ UNCHANGED <<clusters, collected, results, issued, deleted, thread, reply>>

(* The except block records the failure, committing whatever the           *)
(* transaction still held.  Mutant: it only raises again.                  *)
RaiseOnly(q) ==
  /\ pc[q] = "failing"
  /\ EndTx(q)
  /\ pc' = [pc EXCEPT ![q] = "lost"]
  /\ UNCHANGED <<clusters, collected, results, issued, deleted, thread, reply>>

RecordFailure(q) ==
  /\ pc[q] = "failing"
  /\ FinishRun(q, "failed")

(* ... or cannot: the lock again, or an aborted transaction.  The error    *)
(* escapes, and closing the connection rolls back.                         *)
LoseFailure(q) ==
  /\ pc[q] = "broken" \/ (pc[q] = "failing" /\ ~ MayWrite(q))
  /\ EndTx(q)
  /\ pc' = [pc EXCEPT ![q] = "lost"]
  /\ UNCHANGED <<clusters, collected, results, issued, deleted, thread, reply>>

(* The handler returns, or its exception becomes a 400 or a 500. *)
Answer(q) ==
  /\ pc[q] \in Verdicts
  /\ reply' = [reply EXCEPT ![q] = pc[q]]
  /\ pc' = [pc EXCEPT ![q] = "done"]
  /\ UNCHANGED <<clusters, collected, results, issued, deleted, connection, thread>>

(* The engine process dies with every request it was serving; the          *)
(* databases roll their transactions back.  A new process serves the rest. *)
Crash ==
  /\ MayCrash
  /\ \E q \in Requests : pc[q] \in Active
  /\ pc' = [q \in Requests |-> IF pc[q] \in Active THEN "dead" ELSE pc[q]]
  /\ inTx' = [q \in Requests |-> FALSE]
  /\ draftRuns' = [q \in Requests |-> {}]
  /\ draftGroups' = [q \in Requests |-> {}]
  /\ UNCHANGED <<clusters, collected, results, issued, deleted, thread, reply>>

-----------------------------------------------------------------------------
(***************************************************************************)
(* The others.                                                             *)
(***************************************************************************)

(* DELETE /clusters/{id} cascades to all that refers to the cluster.  It   *)
(* waits for the writer (sqlite), or for the transactions that hold a      *)
(* share lock on a row it deletes (postgres).                              *)
DeleteCluster(c) ==
  LET gone == Ids({r \in runs : r.cluster = clusters[c]}) IN
  /\ c \in Deletable
  /\ clusters[c] # 0
  /\ \A q \in Requests :
       inTx[q] => Dialect = "postgres" /\ clusterId[q] # clusters[c]
  /\ clusters' = [clusters EXCEPT ![c] = 0]
  /\ deleted' = deleted \union {c}
  /\ stamp' = [stamp EXCEPT ![c] = [k \in Cells |-> 0]]
  /\ runs' = {r \in runs : r.id \notin gone}
  /\ groups' = {g \in groups : g.run \notin gone}
  /\ recs' = {r \in recs : r.run \notin gone}
  /\ UNCHANGED <<clock, issued, connection, pc, thread, reply>>

(* A step of a collection upserts the samples of some workloads for some   *)
(* resources, or some workloads' allocations, in one transaction           *)
(* (collector/internal/store/sql.go).                                      *)
CollectorCommits(c, W, kinds) ==
  /\ clusters[c] # 0
  /\ clock < MaxStamp
  /\ W # {} /\ kinds # {}
  /\ kinds \subseteq Resources \/ kinds = {"allocations"}
  /\ Dialect = "sqlite" => \A q \in Requests : ~ inTx[q]
  /\ clock' = clock + 1
  /\ stamp' = [stamp EXCEPT ![c] =
       [k \in Cells |-> IF k.uid \in W /\ k.kind \in kinds THEN clock + 1 ELSE @[k]]]
  /\ UNCHANGED <<clusters, results, issued, deleted, connection, pc, thread, reply>>

-----------------------------------------------------------------------------
(* What the thread of q does once its request is accepted. *)
Proceed(q) ==
  \/ ResolveCluster(q) \/ ReadAsOf(q) \/ CreateRun(q) \/ Reject(q) \/ ListUids(q)
  \/ \E k \in Cells : LoadWorkload(q, k)
  \/ ClusterWorkloads(q) \/ BeginGroup(q)
  \/ \E w \in Workloads : WriteRecommendation(q, w)
  \/ CompleteRun(q) \/ ComputeFails(q) \/ StatementFails(q) \/ DatabaseFails(q)
  \/ RecordFailure(q) \/ LoseFailure(q) \/ Answer(q)

Next ==
  \/ \E q \in Requests : EnsureCluster(q) \/ Proceed(q)
  \/ Crash
  \/ \E c \in Clusters : DeleteCluster(c)
  \/ \E c \in Clusters, W \in SUBSET Workloads,
        kinds \in SUBSET (Resources \union {"allocations"}) :
       CollectorCommits(c, W, kinds)

Spec == Init /\ [][Next]_vars

(* A thread is scheduled again and again until it has answered; nobody     *)
(* owes a request, a crash, a deletion or a collection.                    *)
Fairness == \A q \in Requests : WF_vars(pc[q] \in Active /\ Proceed(q))

FairSpec == Spec /\ Fairness

-----------------------------------------------------------------------------
(***************************************************************************)
(* Properties.                                                             *)
(***************************************************************************)

TypeOK ==
  /\ clusters \in [Clusters -> Nat] /\ deleted \subseteq Clusters
  /\ stamp \in [Clusters -> [Cells -> Stamps]] /\ clock \in Stamps
  /\ runs \subseteq RunRows /\ groups \subseteq GroupRows /\ recs \subseteq RecRows
  /\ issuedClusters \in Nat /\ issuedRuns \in Nat /\ issuedGroups \in Nat
  /\ inTx \in [Requests -> BOOLEAN]
  /\ draftRuns \in [Requests -> SUBSET RunRows]
  /\ draftGroups \in [Requests -> SUBSET GroupRows]
  /\ pc \in [Requests -> {"idle", "done", "dead"} \union Active]
  /\ clusterId \in [Requests -> Nat]
  /\ runId \in [Requests -> Nat] /\ groupId \in [Requests -> Nat]
  /\ asOf \in [Requests -> Stamps] /\ newest \in [Requests -> SUBSET Cells]
  /\ uids \in [Requests -> SUBSET Workloads]
  /\ seen \in [Requests -> SUBSET Reads]
  /\ label \in [Requests -> [Workloads -> GroupIndexes]]
  /\ left \in [Requests -> SUBSET GroupIndexes]
  /\ pending \in [Requests -> SUBSET Workloads]
  /\ reply \in [Requests -> {"none"} \union Verdicts]

(* What a reader finds under the id of a run. *)
RecsOf(r) == {x \in recs : x.run = r.id}
GroupsOf(r) == {g \in groups : g.run = r.id}
Advised(r, g) == {x.uid : x \in {x \in RecsOf(r) : x.group = g.id}}

(* A run marked completed (runner.py:107) shows one recommendation for     *)
(* every workload it listed, each in the group that counts it, and nothing *)
(* another run wrote.                                                      *)
CompletedIsComplete ==
  \A r \in runs : r.status = "completed" =>
    /\ \A w \in uids[r.owner] : \E x \in RecsOf(r) : x.uid = w
    /\ \A x, y \in RecsOf(r) : x.uid = y.uid => x = y
    /\ \A x \in RecsOf(r) : x.by = r.owner /\ x.uid \in uids[r.owner]
    /\ \A g \in GroupsOf(r) : g.by = r.owner /\ Advised(r, g) = g.members

(* Whatever a run's status, what its readers see of it is a prefix of the  *)
(* work: every visible group but the last is full, and a recommendation    *)
(* is never visible without the group that counts it (statestore.py commits*)
(* after each recommendation, runner.py:192-227).                          *)
ReadersSeeAPrefix ==
  \A r \in runs :
    /\ \A g, h \in GroupsOf(r) : g.index < h.index => Advised(r, g) = g.members
    /\ \A x \in RecsOf(r) : \E g \in GroupsOf(r) : x.group = g.id /\ x.uid \in g.members

(* A visible run says "running" only while its request is being worked on, *)
(* unless the engine died under it, the database failed under it, or the   *)
(* lock of sqlite was not granted even to record the failure               *)
(* (runner.py:109-111).  In particular no deletion, lock or failed stage   *)
(* on postgres leaves it behind.                                           *)
NoOrphanRun ==
  \A r \in runs : r.status = "running" =>
    \/ pc[r.owner] \in Statements
    \/ pc[r.owner] = "dead"
    \/ "fault" \in {pc[r.owner], reply[r.owner]}
    \/ Dialect = "sqlite" /\ "lost" \in {pc[r.owner], reply[r.owner]}

(* The answer of POST /runs (app.py:303-330) and the stored run agree: a   *)
(* success is stored as completed unless its cluster was deleted, a        *)
(* failure is never stored as completed, a rejected request stored nothing;*)
(* only a lost connection leaves the outcome open, and a completed run     *)
(* behind a 500.                                                           *)
ReplyMatchesStore ==
  /\ \A q \in Requests : reply[q] = "completed" =>
       \/ ClusterOf[q] \in deleted
       \/ \E r \in runs : r.owner = q /\ r.status = "completed"
  /\ \A r \in runs :
       /\ r.status = "completed" =>
            pc[r.owner] \in {"completed", "fault", "done", "dead"}
       /\ reply[r.owner] = "completed" => r.status = "completed"
       /\ reply[r.owner] = "failed" => r.status = "failed"
       /\ reply[r.owner] # "rejected"

(* On sqlite the run's transaction, opened by create_analysis_run before   *)
(* anything is loaded (runner.py:76-83), makes the load a snapshot: until  *)
(* the last SELECT, whatever was read before is still what is stored, so   *)
(* all of it is of one commit of the collector.                            *)
LoadIsSnapshot ==
  \A q \in Requests : pc[q] = "load" =>
    \A x \in seen[q] : x.stamp = StampOf(q, x.cell)

(* data_as_of (runner.py:71) overstates the freshness of a run only on     *)
(* account of rows the run leaves out (workloads out of scope or without   *)
(* allocations, resources it does not rank on): if one of the rows that    *)
(* data_as_of is the date of is the run's to load, then by the time it is  *)
(* clustered the run has loaded a row at least that new.                   *)
AsOfNeverOverstates ==
  \A q \in Requests : left[q] # {} /\ newest[q] \intersect ToLoad(q) # {} =>
    \E x \in seen[q] : x.stamp >= asOf[q]

(* Deleting a cluster "cascade[s] its runs" (docs/api.md:47): no result    *)
(* computed for a deleted cluster is stored.                               *)
CascadeIsComplete ==
  \A x \in groups \union recs : Named(clusterId[x.by]) # {}

(* Every accepted request is answered, unless the engine dies: waiting for *)
(* the lock ends (busy_timeout, statestore.py:525), and so do all loops.   *)
EveryRequestAnswered ==
  \A q \in Requests : pc[q] \in Active ~> pc[q] \in {"done", "dead"}

(* A visible run reaches an outcome or disappears (runner.py:97-111),      *)
(* unless its failure could not be recorded: the lock was not granted, or  *)
(* the database failed.                                                    *)
EveryRunSettles ==
  \A q \in Requests :
    (\E r \in runs : r.owner = q) ~>
      \/ ~ \E r \in runs : r.owner = q /\ r.status = "running"
      \/ reply[q] \in {"lost", "fault"}

(* What readers see of the runs behaves as RunResults promises. *)
StatusOf(q) ==
  IF \E r \in runs : r.owner = q
  THEN (CHOOSE r \in runs : r.owner = q).status
  ELSE IF runId[q] = 0 \/ draftRuns[q] # {} THEN "absent" ELSE "gone"

ShownOf(q) ==
  IF \E r \in runs : r.owner = q THEN {x.uid : x \in {x \in recs : x.run = runId[q]}}
  ELSE {}

Results == INSTANCE RunResults WITH
  status <- [q \in Requests |-> StatusOf(q)],
  target <- uids,
  shown <- [q \in Requests |-> ShownOf(q)]

ImplementsRunResults == Results!Spec

=============================================================================
