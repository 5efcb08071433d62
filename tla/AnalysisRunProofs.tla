-------------------------- MODULE AnalysisRunProofs --------------------------
(***************************************************************************)
(* Proofs about AnalysisRun, for any number of requests, clusters,         *)
(* workloads, groups and collections.                                      *)
(*                                                                         *)
(*   TypeCorrect          the type invariant;                              *)
(*   CompletedCorrect     a completed run is complete, on postgres, and on *)
(*                        sqlite as long as no cluster is deleted (after a *)
(*                        deletion sqlite uses the id of a run again).     *)
(*                                                                         *)
(* What makes the second one inductive is Inv: the rows of a run, whether  *)
(* committed or not, are those its request has written, the id a request   *)
(* holds is nobody else's, and the recommendations present are those of    *)
(* the groups begun, less the members still pending.                       *)
(***************************************************************************)
EXTENDS AnalysisRun, TLAPS

-----------------------------------------------------------------------------
(* Where a thread may be once its cluster is known, and once it has a run. *)
Early == {"idle", "resolve", "asof", "create", "rejected"}
Working == {"list", "load", "process", "failing"}

StageOK ==
  \A q \in Requests :
    /\ q \notin ByName => clusterId[q] # 0
    /\ pc[q] \in {"asof", "create"} => clusterId[q] # 0
    /\ pc[q] \in Working => runId[q] # 0
    /\ pending[q] # {} => groupId[q] # 0

TypeInv == TypeOK /\ StageOK

-----------------------------------------------------------------------------
(* What a request has written that still exists. *)
AllRuns == runs \union UNION {draftRuns[q] : q \in Requests}
AllGroups == groups \union UNION {draftGroups[q] : q \in Requests}
GroupsBy(q) == {g \in GroupsSeenBy(q) : g.by = q}
RecsBy(q) == {x \in recs : x.by = q}
RankedIn(q, g) == {x.uid : x \in {x \in RecsBy(q) : x.group = g.id}}

(* Uncommitted rows are their writer's, and it holds the lock. *)
Drafts ==
  \A q \in Requests :
    /\ \A r \in draftRuns[q] : r.owner = q
    /\ \A g \in draftGroups[q] : g.by = q /\ g.run = runId[q]
    /\ draftRuns[q] # {} \/ draftGroups[q] # {} => inTx[q] /\ pc[q] \in Working
    /\ draftGroups[q] # {} => RunExists(q)

(* On sqlite there is one writer. *)
OneWriter ==
  Dialect = "sqlite" => \A p, q \in Requests : inTx[p] /\ inTx[q] => p = q

(* A run's row carries the ids its request holds. *)
RunRowsKnown ==
  \A r \in AllRuns :
    /\ r.id = runId[r.owner]
    /\ r.cluster = clusterId[r.owner]
    /\ pc[r.owner] \notin Early

(* The id a request holds is that of its own run, and it is not free. *)
RunIdsHeld ==
  /\ \A r, s \in AllRuns : r.id = s.id => r = s
  /\ \A q \in Requests : pc[q] \in Working =>
       /\ \A r \in AllRuns : r.id = runId[q] => r.owner = q
       /\ Dialect = "sqlite" => RunExists(q)
  /\ Dialect = "postgres" =>
       /\ \A r \in AllRuns : r.id <= issuedRuns
       /\ \A q \in Requests : runId[q] <= issuedRuns

GroupIdsHeld ==
  /\ \A g, h \in AllGroups : g.id = h.id => g = h
  /\ Dialect = "postgres" => \A g \in AllGroups : g.id <= issuedGroups

(* Committed results belong to the committed run of the request that wrote *)
(* them.                                                                   *)
ResultsOwned ==
  \A x \in groups \union recs : \E r \in runs : r.id = x.run /\ r.owner = x.by

(* Nothing is written before the workloads are in groups. *)
NothingEarly ==
  \A q \in Requests : pc[q] \in Early \union {"list", "load"} =>
    GroupsBy(q) = {} /\ RecsBy(q) = {} /\ pending[q] = {}

(* A group is one of k-means', begun, and ranked but for what is pending.  *)
GroupsRanked ==
  \A q \in Requests :
    /\ \A g \in GroupsBy(q) :
         /\ g.members = {w \in uids[q] : label[q][w] = g.index}
         /\ g.index \notin left[q]
         /\ RankedIn(q, g) = g.members \ pending[q]
    /\ \A g, h \in GroupsBy(q) : g.index = h.index => g = h
    /\ \A x \in RecsBy(q) :
         \E g \in groups : g.by = q /\ g.id = x.group /\ x.uid \in g.members

(* No workload is recommended on twice in a group. *)
RankedOnce ==
  \A q \in Requests : \A x, y \in RecsBy(q) :
    x.group = y.group /\ x.uid = y.uid => x = y

(* Every workload listed is in a group begun or left. *)
Covered(q) ==
  \A w \in uids[q] :
    label[q][w] \in left[q] \/ \E g \in GroupsBy(q) : g.index = label[q][w]

(* While the run exists, its thread leaves no workload out. *)
ThreadCovers ==
  \A q \in Requests : pc[q] = "process" /\ RunExists(q) =>
    /\ Covered(q)
    /\ pending[q] # {} =>
         \E g \in GroupsBy(q) : g.id = groupId[q] /\ pending[q] \subseteq g.members

CompletedCovers ==
  \A r \in AllRuns : r.status = "completed" =>
    /\ pc[r.owner] \notin Working \union {"broken"}
    /\ left[r.owner] = {} /\ pending[r.owner] = {} /\ Covered(r.owner)

(* A run is one of a cluster that exists. *)
RunsLive == \A r \in AllRuns : Named(r.cluster) # {}

(* Groups are begun in the order of their index, each ranked before the next. *)
InOrder ==
  \A q \in Requests :
    /\ \A g \in GroupsBy(q), i \in left[q] : g.index < i
    /\ \A g, h \in GroupsBy(q) :
         g.index < h.index => g.members \intersect pending[q] = {}

Inv ==
  /\ TypeInv
  /\ Drafts /\ OneWriter
  /\ RunRowsKnown /\ RunsLive /\ RunIdsHeld /\ GroupIdsHeld /\ ResultsOwned
  /\ NothingEarly /\ GroupsRanked /\ RankedOnce /\ InOrder
  /\ ThreadCovers /\ CompletedCovers

-----------------------------------------------------------------------------
(* The id a row gets is a positive number no row has; on postgres it is    *)
(* the next of the sequence.                                               *)
LEMMA NextIdFresh ==
  ASSUME NEW ids \in SUBSET Nat, NEW last \in Nat, NEW id \in NextId(ids, last)
  PROVE  /\ id \in Nat \ {0}
         /\ Dialect = "sqlite" => \A i \in ids : i < id
         /\ Dialect # "sqlite" => id = last + 1
BY DEF NextId

LEMMA StampOfType ==
  ASSUME TypeOK, NEW q \in Requests, NEW k \in Cells
  PROVE  StampOf(q, k) \in Stamps
BY BoundsAssumption DEF StampOf, Named, TypeOK, Stamps

LEMMA TypeInit == Init => TypeInv
BY RequestsAssumption, DialectAssumption, FaultAssumption, BoundsAssumption
   DEF Init, TypeInv, TypeOK, StageOK, Clusters, Stamps, GroupIndexes,
       Verdicts, Statements, Active, Working

LEMMA TypeStep == TypeInv /\ [Next]_vars => TypeInv'
<1> SUFFICES ASSUME TypeInv, [Next]_vars PROVE TypeInv'
  OBVIOUS
<1> USE RequestsAssumption, DialectAssumption, FaultAssumption, BoundsAssumption
    DEF TypeInv, Clusters, Stamps, GroupIndexes
<1>1. CASE UNCHANGED vars
  BY <1>1 DEF vars, collected, results, issued, connection, thread, TypeOK, StageOK
<1>2. ASSUME NEW q \in Requests, EnsureCluster(q) PROVE TypeInv'
  <2>1. clusters' \in [Clusters -> Nat] /\ issuedClusters' \in Nat
    <3> DEFINE ids == {clusters[d] : d \in Clusters} \ {0}
    <3>1. ids \in SUBSET Nat /\ issuedClusters \in Nat /\ ClusterOf[q] \in Clusters
      BY DEF TypeOK
    <3>2. \A id \in NextId(ids, issuedClusters) : id \in Nat
      BY <3>1, NextIdFresh
    <3> QED
      BY <1>2, <3>1, <3>2 DEF EnsureCluster, TypeOK
  <2> QED
    BY <1>2, <2>1 DEF EnsureCluster, TypeOK, StageOK, collected, results, issued, connection, thread, Active, Statements, Verdicts, Working
<1>3. ASSUME NEW q \in Requests, ResolveCluster(q) PROVE TypeInv'
  BY <1>3 DEF ResolveCluster, TypeOK, StageOK, collected, results, issued, connection, thread, Active, Statements, Verdicts, Working
<1>4. ASSUME NEW q \in Requests, ReadAsOf(q) PROVE TypeInv'
  <2>1. PICK m \in {0} \union {StampOf(q, k) : k \in Cells} :
          /\ asOf' = [asOf EXCEPT ![q] = m]
          /\ newest' = [newest EXCEPT ![q] = {k \in Cells : StampOf(q, k) = m /\ m # 0}]
    BY <1>4 DEF ReadAsOf
  <2>2. m \in Stamps
    BY <2>1, StampOfType, BoundsAssumption DEF Stamps
  <2>3. asOf' \in [Requests -> Stamps]
    BY <2>1, <2>2 DEF TypeOK
  <2>4. newest' \in [Requests -> SUBSET Cells]
    BY <2>1 DEF TypeOK
  <2> QED
    BY <1>4, <2>3, <2>4 DEF ReadAsOf, TypeOK, StageOK, collected, results, issued, connection, thread, Active, Statements, Verdicts, Working
<1>5. ASSUME NEW q \in Requests, CreateRun(q) PROVE TypeInv'
  <2>1. PICK id \in NextId(Ids(runs), issuedRuns) :
          /\ runId' = [runId EXCEPT ![q] = id]
          /\ draftRuns' = [draftRuns EXCEPT ![q] =
               {[id |-> id, cluster |-> clusterId[q], owner |-> q, status |-> "running"]}]
          /\ issuedRuns' = IF Dialect = "postgres" THEN id ELSE issuedRuns
    BY <1>5 DEF CreateRun
  <2>2. Ids(runs) \in SUBSET Nat /\ issuedRuns \in Nat
    <3>1. \A r \in runs : r.id \in Nat
      BY DEF TypeOK, RunRows
    <3> QED
      BY <3>1 DEF Ids, TypeOK
  <2>3. id \in Nat \ {0}
    BY <2>2, NextIdFresh
  <2>4. clusterId[q] \in Nat \ {0}
    BY <1>5 DEF CreateRun, TypeOK, StageOK
  <2>5. draftRuns' \in [Requests -> SUBSET RunRows]
    BY <2>1, <2>3, <2>4 DEF TypeOK, RunRows
  <2> QED
    BY <1>5, <2>1, <2>3, <2>5 DEF CreateRun, BeginTx, TypeOK, StageOK, collected, results, issued, connection, thread, Active, Statements, Verdicts, Working
<1>6. ASSUME NEW q \in Requests, Reject(q) PROVE TypeInv'
  BY <1>6 DEF Reject, TypeOK, StageOK, collected, results, issued, connection, thread, Active, Statements, Verdicts, Working
<1>7. ASSUME NEW q \in Requests, ListUids(q) PROVE TypeInv'
  BY <1>7 DEF ListUids, TypeOK, StageOK, collected, results, issued, connection, thread, Active, Statements, Verdicts, Working
<1>8. ASSUME NEW q \in Requests, NEW k \in Cells, LoadWorkload(q, k) PROVE TypeInv'
  <2>1. StampOf(q, k) \in Stamps
    BY StampOfType
  <2>2. seen' \in [Requests -> SUBSET Reads]
    <3>1. [cell |-> k, stamp |-> StampOf(q, k)] \in Reads
      BY <2>1 DEF Reads
    <3> QED
      BY <1>8, <3>1 DEF LoadWorkload, TypeOK
  <2> QED
    BY <1>8, <2>2 DEF LoadWorkload, TypeOK, StageOK, collected, results, issued, connection, thread, Active, Statements, Verdicts, Working
<1>9. ASSUME NEW q \in Requests, ClusterWorkloads(q) PROVE TypeInv'
  <2>1. /\ label' \in [Requests -> [Workloads -> GroupIndexes]]
        /\ left' \in [Requests -> SUBSET GroupIndexes]
    <3>1. ASSUME NEW f \in [Workloads -> GroupIndexes]
          PROVE  {f[w] : w \in uids[q]} \in SUBSET GroupIndexes
      BY DEF TypeOK
    <3>2. 0 \in GroupIndexes /\ [w \in Workloads |-> 0] \in [Workloads -> GroupIndexes]
      OBVIOUS
    <3>3. \E f \in [Workloads -> GroupIndexes], S \in SUBSET GroupIndexes :
            label' = [label EXCEPT ![q] = f] /\ left' = [left EXCEPT ![q] = S]
      BY <1>9, <3>1, <3>2 DEF ClusterWorkloads
    <3> QED
      BY <3>3 DEF TypeOK
  <2> QED
    BY <1>9, <2>1 DEF ClusterWorkloads, TypeOK, StageOK, collected, results, issued, connection, thread, Active, Statements, Verdicts, Working
<1>10. ASSUME NEW q \in Requests, BeginGroup(q) PROVE TypeInv'
  <2>1. PICK i \in NextGroup(q), id \in NextId(Ids(GroupsSeenBy(q)), issuedGroups) :
          LET members == {w \in uids[q] : label[q][w] = i} IN
          /\ groupId' = [groupId EXCEPT ![q] = id]
          /\ issuedGroups' = IF Dialect = "postgres" THEN id ELSE issuedGroups
          /\ draftGroups' = [draftGroups EXCEPT ![q] = @ \union
               {[id |-> id, run |-> runId[q], index |-> i, members |-> members,
                 by |-> q]}]
          /\ left' = [left EXCEPT ![q] = @ \ {i}]
          /\ pending' = [pending EXCEPT ![q] = members]
    BY <1>10 DEF BeginGroup
  <2>2. Ids(GroupsSeenBy(q)) \in SUBSET Nat /\ issuedGroups \in Nat
    <3>1. GroupsSeenBy(q) \subseteq GroupRows
      BY DEF GroupsSeenBy, TypeOK
    <3>2. \A g \in GroupsSeenBy(q) : g.id \in Nat
      BY <3>1 DEF GroupRows
    <3> QED
      BY <3>2 DEF Ids, TypeOK
  <2>3. id \in Nat \ {0}
    BY <2>2, NextIdFresh
  <2>4. runId[q] \in Nat \ {0} /\ i \in GroupIndexes
    BY <1>10 DEF BeginGroup, NextGroup, TypeOK, StageOK, Working
  <2>5. {w \in uids[q] : label[q][w] = i} \in SUBSET Workloads
    BY DEF TypeOK
  <2>6. draftGroups' \in [Requests -> SUBSET GroupRows]
    BY <2>1, <2>3, <2>4, <2>5 DEF TypeOK, GroupRows
  <2>7. /\ pending' \in [Requests -> SUBSET Workloads]
        /\ left' \in [Requests -> SUBSET GroupIndexes]
        /\ groupId' \in [Requests -> Nat] /\ issuedGroups' \in Nat
    BY <2>1, <2>3, <2>5 DEF TypeOK
  <2>8. TypeOK'
    BY <1>10, <2>6, <2>7 DEF BeginGroup, BeginTx, TypeOK, collected, results, issued, connection, thread
  <2>9. StageOK'
    BY <1>10, <2>1, <2>3 DEF BeginGroup, TypeOK, StageOK, collected, results, issued, connection, thread
  <2> QED
    BY <2>8, <2>9
<1>11. ASSUME NEW q \in Requests, NEW w \in Workloads, WriteRecommendation(q, w) PROVE TypeInv'
  <2>1. runId[q] \in Nat \ {0} /\ groupId[q] \in Nat \ {0}
    BY <1>11 DEF WriteRecommendation, TypeOK, StageOK, Working
  <2>2. runs' \subseteq RunRows /\ groups' \subseteq GroupRows
    BY <1>11 DEF WriteRecommendation, RunsSeenBy, GroupsSeenBy, TypeOK
  <2>3. recs' \subseteq RecRows
    BY <1>11, <2>1 DEF WriteRecommendation, TypeOK, RecRows
  <2>4. pending' \in [Requests -> SUBSET Workloads]
    BY <1>11 DEF WriteRecommendation, TypeOK
  <2>5. TypeOK'
    BY <1>11, <2>2, <2>3, <2>4 DEF WriteRecommendation, EndTx, TypeOK, collected, results, issued, connection, thread
  <2>6. StageOK'
    BY <1>11 DEF WriteRecommendation, EndTx, TypeOK, StageOK, collected, results, issued, connection, thread
  <2> QED
    BY <2>5, <2>6
<1>12. ASSUME NEW q \in Requests, NEW s \in {"completed", "failed"}, FinishRun(q, s) PROVE TypeInv'
  <2>1. runs' \subseteq RunRows
    <3>1. \A r \in RunsSeenBy(q) : r \in RunRows /\ [r EXCEPT !.status = s] \in RunRows
      <4>1. RunsSeenBy(q) \subseteq RunRows
        BY DEF RunsSeenBy, TypeOK
      <4> QED
        BY <4>1 DEF RunRows
    <3> QED
      BY <1>12, <3>1 DEF FinishRun, WithStatus
  <2>2. groups' \subseteq GroupRows
    BY <1>12 DEF FinishRun, GroupsSeenBy, TypeOK
  <2>3. TypeOK'
    BY <1>12, <2>1, <2>2 DEF FinishRun, EndTx, TypeOK, collected, results, issued, connection, thread, Active, Verdicts
  <2>4. StageOK'
    BY <1>12 DEF FinishRun, EndTx, TypeOK, StageOK, Working, collected, results, issued, connection, thread
  <2> QED
    BY <2>3, <2>4
<1>13. ASSUME NEW q \in Requests, ComputeFails(q) PROVE TypeInv'
  BY <1>13 DEF ComputeFails, TypeOK, StageOK, collected, results, issued, connection, thread, Active, Statements, Verdicts, Working
<1>14. ASSUME NEW q \in Requests, StatementFails(q) PROVE TypeInv'
  <2>1. inTx' \in [Requests -> BOOLEAN]
    BY <1>14 DEF StatementFails, MayWrite, EndTx, TypeOK
  <2>2. /\ draftRuns' \in [Requests -> SUBSET RunRows]
        /\ draftGroups' \in [Requests -> SUBSET GroupRows]
    BY <1>14 DEF StatementFails, EndTx, TypeOK
  <2>3. /\ pc' \in [Requests -> {"idle", "done", "dead"} \union Active]
        /\ \A p \in Requests : pc'[p] = pc[p] \/ pc'[p] = "broken"
                             \/ (pc'[p] = "failing" /\ pc[p] = "process")
    BY <1>14 DEF StatementFails, TypeOK, Active, Statements
  <2>4. /\ UNCHANGED <<clusters, collected, results, issued, deleted, thread, reply>>
    BY <1>14 DEF StatementFails
  <2>5. TypeOK'
    BY <2>1, <2>2, <2>3, <2>4 DEF TypeOK, collected, results, issued, thread
  <2>6. StageOK'
    BY <2>3, <2>4 DEF StageOK, thread, Working
  <2> QED
    BY <2>5, <2>6
<1>15. ASSUME NEW q \in Requests, LoseFailure(q) PROVE TypeInv'
  BY <1>15 DEF LoseFailure, EndTx, TypeOK, StageOK, collected, results, issued, connection, thread, Active, Statements, Verdicts, Working
<1>16. ASSUME NEW q \in Requests, Answer(q) PROVE TypeInv'
  BY <1>16 DEF Answer, TypeOK, StageOK, collected, results, issued, connection, thread, Active, Statements, Verdicts, Working
<1>20. ASSUME NEW q \in Requests, DatabaseFails(q) PROVE TypeInv'
  BY <1>20 DEF DatabaseFails, EndTx, TypeOK, StageOK, collected, results, issued, connection, thread, Active, Statements, Verdicts, Working
<1>17. CASE Crash
  BY <1>17 DEF Crash, TypeOK, StageOK, collected, results, issued, connection, thread, Active, Statements, Verdicts, Working
<1>18. ASSUME NEW c \in Clusters, DeleteCluster(c) PROVE TypeInv'
  BY <1>18 DEF DeleteCluster, TypeOK, StageOK, collected, results, issued, connection, thread, Active, Statements, Verdicts, Working
<1>19. ASSUME NEW c \in Clusters, NEW W \in SUBSET Workloads,
              NEW kinds \in SUBSET (Resources \union {"allocations"}),
              CollectorCommits(c, W, kinds)
       PROVE  TypeInv'
  <2>1. clock + 1 \in Stamps
    BY <1>19 DEF CollectorCommits, TypeOK
  <2>2. stamp' \in [Clusters -> [Cells -> Stamps]]
    BY <1>19, <2>1 DEF CollectorCommits, TypeOK
  <2> QED
    BY <1>19, <2>1, <2>2 DEF CollectorCommits, TypeOK, StageOK, collected, results, issued, connection, thread, Active, Statements, Verdicts, Working
<1> QED
  BY <1>1, <1>2, <1>3, <1>4, <1>5, <1>6, <1>7, <1>8, <1>9, <1>10, <1>11, <1>12,
     <1>13, <1>14, <1>15, <1>16, <1>17, <1>18, <1>19, <1>20
     DEF Next, Proceed, CompleteRun, RecordFailure

(* The type invariant holds of every behaviour of the specification. *)
THEOREM TypeCorrect == Spec => []TypeOK
<1>1. TypeInv => TypeOK
  BY DEF TypeInv
<1> QED
  BY TypeInit, TypeStep, <1>1, PTL DEF Spec
LEMMA Owners ==
  ASSUME TypeOK
  PROVE  /\ \A r \in AllRuns : r \in RunRows /\ r.owner \in Requests /\ r.id \in Nat
         /\ \A g \in AllGroups : g \in GroupRows /\ g.id \in Nat
BY DEF TypeOK, AllRuns, AllGroups, RunRows, GroupRows

-----------------------------------------------------------------------------
(***************************************************************************)
(* The steps of Next that write no row fall in two kinds.                  *)
(***************************************************************************)

(* A thread goes on, or fails without losing its transaction. *)
Quiet ==
  /\ UNCHANGED <<results, draftRuns, draftGroups, issuedRuns, issuedGroups,
                 runId, groupId, pending>>
  /\ \A id \in Nat \ {0} : Named(id) # {} => Named(id)' # {}
  /\ \A p \in Requests :
       /\ draftRuns[p] # {} \/ draftGroups[p] # {} => inTx'[p]
       /\ \/ pc[p] \in Early /\ pc'[p] \in Early \union {"done"}
          \/ /\ clusterId'[p] = clusterId[p]
             /\ \/ pc'[p] = pc[p]
                \/ pc[p] \in Working /\ pc'[p] = "failing"
                \/ pc[p] \in Verdicts /\ pc'[p] = "done"
             /\ uids'[p] = uids[p] /\ label'[p] = label[p] /\ left'[p] = left[p]
          \/ /\ clusterId'[p] = clusterId[p]
             /\ pc[p] \in {"list", "load"} /\ pc'[p] \in {"load", "process"}
             /\ pc'[p] = "process" => \A w \in uids'[p] : label'[p][w] \in left'[p]

(* Threads lose their transactions and stop. *)
Abandon ==
  /\ UNCHANGED <<clusters, results, issuedRuns, issuedGroups, thread>>
  /\ \A p \in Requests :
       \/ /\ pc'[p] = pc[p]
          /\ draftRuns'[p] = draftRuns[p] /\ draftGroups'[p] = draftGroups[p]
          /\ draftRuns[p] # {} \/ draftGroups[p] # {} => inTx'[p]
       \/ /\ pc'[p] \in {"broken", "lost", "fault", "dead"}
          /\ pc'[p] = "broken" => pc[p] = "process"
          /\ draftRuns'[p] = {} /\ draftGroups'[p] = {}

LEMMA QuietInv ==
  ASSUME Inv, Quiet, TypeInv', OneWriter'
  PROVE  Inv'
<1>1. /\ AllRuns' = AllRuns /\ AllGroups' = AllGroups
      /\ runs' = runs /\ groups' = groups /\ recs' = recs
      /\ issuedRuns' = issuedRuns /\ issuedGroups' = issuedGroups
      /\ runId' = runId /\ groupId' = groupId /\ pending' = pending
      /\ draftRuns' = draftRuns /\ draftGroups' = draftGroups
  BY DEF Quiet, results, AllRuns, AllGroups
<1>2. ASSUME NEW p \in Requests
      PROVE  /\ GroupsBy(p)' = GroupsBy(p) /\ RecsBy(p)' = RecsBy(p)
             /\ RunExists(p)' = RunExists(p)
             /\ \A g : RankedIn(p, g)' = RankedIn(p, g)
  BY <1>1 DEF GroupsBy, GroupsSeenBy, RecsBy, RunExists, RunsSeenBy, RankedIn
<1>3. \A r \in AllRuns : r.owner \in Requests
  BY DEF Inv, TypeInv, TypeOK, AllRuns, RunRows
<1>4. Drafts'
  BY <1>1, <1>2 DEF Inv, Drafts, Quiet, Early, Working, Verdicts
<1>5. RunRowsKnown'
  BY <1>1, <1>3 DEF Inv, RunRowsKnown, Quiet, Early, Working, Verdicts
<1>6. RunIdsHeld'
  BY <1>1, <1>2 DEF Inv, RunIdsHeld, Quiet, Early, Working, Verdicts
<1>7. GroupIdsHeld' /\ ResultsOwned'
  BY <1>1 DEF Inv, GroupIdsHeld, ResultsOwned
<1>8. NothingEarly'
  BY <1>1, <1>2 DEF Inv, NothingEarly, Quiet, Early, Working, Verdicts
<1>9. GroupsRanked'
  BY <1>1, <1>2 DEF Inv, GroupsRanked, NothingEarly, Quiet, Early
<1>10. ThreadCovers'
  BY <1>1, <1>2 DEF Inv, ThreadCovers, Covered, NothingEarly, Quiet, Early, Working, Verdicts
<1>11. CompletedCovers'
  BY <1>1, <1>2, <1>3 DEF Inv, CompletedCovers, RunRowsKnown, Covered, Quiet, Early, Working, Verdicts
<1>12. RunsLive'
  BY <1>1, Owners DEF Inv, TypeInv, RunsLive, Quiet, RunRows
<1>13. InOrder'
  BY <1>1, <1>2 DEF Inv, InOrder, NothingEarly, Quiet, Early
<1>14. RankedOnce'
  BY <1>2 DEF Inv, RankedOnce
<1> QED
  BY <1>4, <1>5, <1>6, <1>7, <1>8, <1>9, <1>10, <1>11, <1>12, <1>13, <1>14 DEF Inv

LEMMA AbandonInv ==
  ASSUME Inv, Abandon, TypeInv', OneWriter'
  PROVE  Inv'
<1>1. /\ runs' = runs /\ groups' = groups /\ recs' = recs
      /\ issuedRuns' = issuedRuns /\ issuedGroups' = issuedGroups
      /\ runId' = runId /\ groupId' = groupId /\ clusterId' = clusterId
      /\ uids' = uids /\ label' = label /\ left' = left /\ pending' = pending
  BY DEF Abandon, results, thread
<1>2. AllRuns' \subseteq AllRuns /\ AllGroups' \subseteq AllGroups
  BY <1>1 DEF Abandon, AllRuns, AllGroups
<1>3. \A r \in AllRuns : r.owner \in Requests
  BY DEF Inv, TypeInv, TypeOK, AllRuns, RunRows
<1>4. ASSUME NEW p \in Requests, draftGroups'[p] = draftGroups[p], draftRuns'[p] = draftRuns[p]
      PROVE  /\ GroupsBy(p)' = GroupsBy(p) /\ RunExists(p)' = RunExists(p)
  BY <1>1, <1>4 DEF GroupsBy, GroupsSeenBy, RunExists, RunsSeenBy
<1>5. ASSUME NEW p \in Requests
      PROVE  /\ GroupsBy(p)' \subseteq GroupsBy(p)
             /\ RecsBy(p)' = RecsBy(p)
             /\ \A g : RankedIn(p, g)' = RankedIn(p, g)
  BY <1>1 DEF Abandon, GroupsBy, GroupsSeenBy, RecsBy, RankedIn
<1>6. Drafts'
  BY <1>1, <1>4 DEF Inv, Drafts, Abandon
<1>7. RunRowsKnown'
  BY <1>1, <1>2, <1>3 DEF Inv, RunRowsKnown, Abandon, Early
<1>8. RunIdsHeld'
  BY <1>1, <1>2, <1>4 DEF Inv, RunIdsHeld, Abandon, Working
<1>9. GroupIdsHeld' /\ ResultsOwned'
  BY <1>1, <1>2 DEF Inv, GroupIdsHeld, ResultsOwned
<1>10. NothingEarly'
  BY <1>1, <1>5 DEF Inv, NothingEarly, Abandon, Early
<1>11. GroupsRanked'
  BY <1>1, <1>5 DEF Inv, GroupsRanked
<1>12. ThreadCovers'
  BY <1>1, <1>4 DEF Inv, ThreadCovers, Covered, Abandon
<1>13. CompletedCovers'
  <2> SUFFICES ASSUME NEW r \in AllRuns', r.status = "completed"
               PROVE  (/\ pc[r.owner] \notin Working \union {"broken"}
                       /\ left[r.owner] = {} /\ pending[r.owner] = {} /\ Covered(r.owner))'
    BY DEF CompletedCovers
  <2> DEFINE q == r.owner
  <2>1. /\ pc[q] \notin Working \union {"broken"}
        /\ left[q] = {} /\ pending[q] = {} /\ Covered(q) /\ q \in Requests
    BY <1>2, <1>3 DEF Inv, CompletedCovers
  <2>2. draftRuns[q] = {} /\ draftGroups[q] = {}
    BY <2>1 DEF Inv, Drafts
  <2> QED
    <3>1. draftGroups'[q] = draftGroups[q] /\ draftRuns'[q] = draftRuns[q]
      BY <2>1, <2>2 DEF Abandon
    <3>2. GroupsBy(q)' = GroupsBy(q)
      BY <1>4, <2>1, <3>1
    <3> QED
      BY <1>1, <2>1, <3>2 DEF Abandon, Covered, Working
<1>14. RunsLive'
  BY <1>2 DEF Inv, RunsLive, Abandon, Named
<1>15. InOrder'
  BY <1>1, <1>5 DEF Inv, InOrder
<1>16. RankedOnce'
  BY <1>5 DEF Inv, RankedOnce
<1> QED
  BY <1>6, <1>7, <1>8, <1>9, <1>10, <1>11, <1>12, <1>13, <1>14, <1>15, <1>16 DEF Inv

-----------------------------------------------------------------------------
(***************************************************************************)
(* The steps that write.                                                   *)
(***************************************************************************)

(* Who may write on sqlite finds nobody else with uncommitted rows. *)
LEMMA SoleWriter ==
  ASSUME Inv, NEW q \in Requests, MayWrite(q), Dialect = "sqlite"
  PROVE  /\ AllRuns = RunsSeenBy(q) /\ AllGroups = GroupsSeenBy(q)
         /\ \A p \in Requests \ {q} : draftRuns[p] = {} /\ draftGroups[p] = {}
<1>1. \A p \in Requests \ {q} : draftRuns[p] = {} /\ draftGroups[p] = {}
  BY DEF MayWrite, Inv, Drafts
<1> QED
  BY <1>1 DEF AllRuns, AllGroups, RunsSeenBy, GroupsSeenBy

LEMMA CreateInv ==
  ASSUME Inv, NEW q \in Requests, CreateRun(q), TypeInv', OneWriter'
  PROVE  Inv'
<1>1. PICK id \in NextId(Ids(runs), issuedRuns) :
        /\ runId' = [runId EXCEPT ![q] = id]
        /\ draftRuns' = [draftRuns EXCEPT ![q] =
             {[id |-> id, cluster |-> clusterId[q], owner |-> q, status |-> "running"]}]
        /\ issuedRuns' = IF Dialect = "postgres" THEN id ELSE issuedRuns
  BY DEF CreateRun
<1> DEFINE new == [id |-> id, cluster |-> clusterId[q], owner |-> q, status |-> "running"]
<1>2. /\ runs' = runs /\ groups' = groups /\ recs' = recs /\ issuedGroups' = issuedGroups
      /\ draftGroups' = draftGroups /\ clusterId' = clusterId /\ groupId' = groupId
      /\ uids' = uids /\ label' = label /\ left' = left /\ pending' = pending
      /\ pc[q] = "create" /\ pc' = [pc EXCEPT ![q] = "list"]
      /\ inTx' = [inTx EXCEPT ![q] = TRUE] /\ MayWrite(q)
  BY DEF CreateRun, BeginTx, results
<1>3. TypeOK /\ TypeOK' /\ draftRuns[q] = {} /\ draftGroups[q] = {}
  BY <1>2 DEF Inv, TypeInv, Drafts, Working
<1>4. AllRuns' = AllRuns \union {new} /\ AllGroups' = AllGroups
  BY <1>1, <1>2, <1>3 DEF AllRuns, AllGroups, TypeOK
<1>5. /\ id \in Nat /\ issuedRuns \in Nat
      /\ Dialect = "sqlite" => \A i \in Ids(runs) : i < id
      /\ Dialect # "sqlite" => id = issuedRuns + 1
  <2>1. \A r \in runs : r.id \in Nat
    BY <1>3 DEF TypeOK, RunRows
  <2>2. Ids(runs) \in SUBSET Nat /\ issuedRuns \in Nat
    BY <1>3, <2>1 DEF Ids, TypeOK
  <2> QED
    BY <2>2, NextIdFresh
<1>6. \A r \in AllRuns : r.id # id
  <2>1. CASE Dialect = "sqlite"
    <3>1. AllRuns = runs
      BY <1>2, <1>3, <2>1, SoleWriter DEF RunsSeenBy
    <3>2. \A r \in runs : r.id < id /\ r.id \in Nat
      BY <1>3, <1>5, <2>1 DEF Ids, TypeOK, RunRows
    <3> QED
      BY <1>5, <3>1, <3>2
  <2>2. CASE Dialect = "postgres"
    BY <1>3, <1>5, <2>2, Owners DEF Inv, RunIdsHeld
  <2> QED
    BY <2>1, <2>2, DialectAssumption
<1>7. \A p \in Requests : pc[p] \in Working => runId[p] # id
  <2>1. CASE Dialect = "sqlite"
    BY <1>6, <2>1 DEF Inv, RunIdsHeld, RunExists, RunsSeenBy, AllRuns
  <2>2. CASE Dialect = "postgres"
    BY <1>3, <1>5, <2>2 DEF Inv, RunIdsHeld, TypeOK
  <2> QED
    BY <2>1, <2>2, DialectAssumption
<1>8. ASSUME NEW p \in Requests
      PROVE  /\ GroupsBy(p)' = GroupsBy(p) /\ RecsBy(p)' = RecsBy(p)
             /\ p # q => RunExists(p)' = RunExists(p)
             /\ \A g : RankedIn(p, g)' = RankedIn(p, g)
  BY <1>1, <1>2, <1>3 DEF GroupsBy, GroupsSeenBy, RecsBy, RunExists, RunsSeenBy, RankedIn, TypeOK
<1>9. GroupsBy(q) = {} /\ RecsBy(q) = {} /\ pending[q] = {}
  BY <1>2 DEF Inv, NothingEarly, Early
<1>10. RunExists(q)'
  BY <1>1, <1>3 DEF RunExists, RunsSeenBy, TypeOK
<1>11. Drafts'
  <2> SUFFICES ASSUME NEW p \in Requests
               PROVE  (/\ \A r \in draftRuns[p] : r.owner = p
                       /\ \A g \in draftGroups[p] : g.by = p /\ g.run = runId[p]
                       /\ draftRuns[p] # {} \/ draftGroups[p] # {} => inTx[p] /\ pc[p] \in Working
                       /\ draftGroups[p] # {} => RunExists(p))'
    BY DEF Drafts
  <2>1. CASE p = q
    BY <1>1, <1>2, <1>3, <2>1 DEF TypeOK, Working
  <2>2. CASE p # q
    BY <1>1, <1>2, <1>3, <1>8, <2>2 DEF Inv, Drafts, TypeOK
  <2> QED
    BY <2>1, <2>2
<1>12. RunRowsKnown'
  <2>1. \A r \in AllRuns : r.owner # q
    BY <1>2 DEF Inv, RunRowsKnown, Early
  <2> QED
    BY <1>1, <1>2, <1>3, <1>4, <2>1, Owners DEF Inv, RunRowsKnown, Early, TypeOK
<1>13. RunIdsHeld'
  <2>1. \A r, s \in AllRuns' : r.id = s.id => r = s
    BY <1>4, <1>6 DEF Inv, RunIdsHeld
  <2>2. ASSUME NEW p \in Requests, pc'[p] \in Working
        PROVE  /\ \A r \in AllRuns' : r.id = runId'[p] => r.owner = p
               /\ Dialect = "sqlite" => RunExists(p)'
    <3>1. CASE p = q
      BY <1>1, <1>3, <1>4, <1>6, <1>10, <3>1 DEF TypeOK
    <3>2. CASE p # q
      BY <1>1, <1>2, <1>3, <1>4, <1>7, <1>8, <2>2, <3>2 DEF Inv, RunIdsHeld, TypeOK
    <3> QED
      BY <3>1, <3>2
  <2>3. ASSUME Dialect = "postgres"
        PROVE  /\ \A r \in AllRuns' : r.id <= issuedRuns'
               /\ \A p \in Requests : runId'[p] <= issuedRuns'
    <3>1. issuedRuns' = issuedRuns + 1 /\ id = issuedRuns + 1
      BY <1>1, <1>5, <2>3
    <3>2. \A r \in AllRuns : r.id <= issuedRuns /\ r.id \in Nat
      BY <1>3, <2>3, Owners DEF Inv, RunIdsHeld
    <3>3. \A p \in Requests : runId[p] <= issuedRuns /\ runId[p] \in Nat
      BY <1>3, <2>3 DEF Inv, RunIdsHeld, TypeOK
    <3> QED
      BY <1>1, <1>3, <1>4, <1>5, <3>1, <3>2, <3>3 DEF TypeOK
  <2> QED
    BY <2>1, <2>2, <2>3 DEF RunIdsHeld
<1>14. GroupIdsHeld' /\ ResultsOwned'
  BY <1>2, <1>4 DEF Inv, GroupIdsHeld, ResultsOwned
<1>15. NothingEarly'
  BY <1>2, <1>3, <1>8, <1>9 DEF Inv, NothingEarly, TypeOK
<1>16. GroupsRanked'
  BY <1>2, <1>8 DEF Inv, GroupsRanked
<1>17. ThreadCovers'
  <2> SUFFICES ASSUME NEW p \in Requests, pc'[p] = "process", RunExists(p)'
               PROVE  (/\ Covered(p)
                       /\ pending[p] # {} => \E g \in GroupsBy(p) :
                            g.id = groupId[p] /\ pending[p] \subseteq g.members)'
    BY DEF ThreadCovers
  <2>1. p # q /\ pc[p] = "process"
    BY <1>2, <1>3 DEF TypeOK
  <2>2. RunExists(p) /\ GroupsBy(p)' = GroupsBy(p)
    BY <1>8, <2>1
  <2> QED
    BY <1>2, <2>1, <2>2 DEF Inv, ThreadCovers, Covered
<1>18. CompletedCovers'
  <2> SUFFICES ASSUME NEW r \in AllRuns, r.status = "completed"
               PROVE  (/\ pc[r.owner] \notin Working \union {"broken"}
                       /\ left[r.owner] = {} /\ pending[r.owner] = {} /\ Covered(r.owner))'
    BY <1>4 DEF CompletedCovers
  <2>1. r.owner # q /\ r.owner \in Requests
    BY <1>2, <1>3, Owners DEF Inv, RunRowsKnown, Early
  <2> QED
    BY <1>2, <1>3, <1>8, <2>1 DEF Inv, CompletedCovers, Covered, TypeOK
<1>19. RunsLive'
  BY <1>4 DEF Inv, RunsLive, CreateRun, Named
<1>20. InOrder'
  BY <1>2, <1>8 DEF Inv, InOrder
<1>21. RankedOnce'
  BY <1>8 DEF Inv, RankedOnce
<1> QED
  BY <1>11, <1>12, <1>13, <1>14, <1>15, <1>16, <1>17, <1>18, <1>19, <1>20, <1>21
     DEF Inv

LEMMA GroupInv ==
  ASSUME Inv, NEW q \in Requests, BeginGroup(q), TypeInv', OneWriter'
  PROVE  Inv'
<1>1. PICK i \in NextGroup(q), id \in NextId(Ids(GroupsSeenBy(q)), issuedGroups) :
        LET members == {w \in uids[q] : label[q][w] = i} IN
        /\ groupId' = [groupId EXCEPT ![q] = id]
        /\ issuedGroups' = IF Dialect = "postgres" THEN id ELSE issuedGroups
        /\ draftGroups' = [draftGroups EXCEPT ![q] = @ \union
             {[id |-> id, run |-> runId[q], index |-> i, members |-> members,
               by |-> q]}]
        /\ left' = [left EXCEPT ![q] = @ \ {i}]
        /\ pending' = [pending EXCEPT ![q] = members]
  BY DEF BeginGroup
<1> DEFINE members == {w \in uids[q] : label[q][w] = i}
           new == [id |-> id, run |-> runId[q], index |-> i, members |-> members,
                   by |-> q]
<1>2. /\ runs' = runs /\ groups' = groups /\ recs' = recs /\ issuedRuns' = issuedRuns
      /\ draftRuns' = draftRuns /\ clusterId' = clusterId /\ runId' = runId
      /\ uids' = uids /\ label' = label /\ pc' = pc /\ pc[q] = "process"
      /\ inTx' = [inTx EXCEPT ![q] = TRUE] /\ MayWrite(q) /\ RunExists(q)
      /\ pending[q] = {} /\ i \in left[q]
  BY DEF BeginGroup, BeginTx, NextGroup, results
<1>3. TypeOK /\ TypeOK'
  BY DEF Inv, TypeInv
<1>4. AllRuns' = AllRuns /\ AllGroups' = AllGroups \union {new}
  BY <1>1, <1>2, <1>3 DEF AllRuns, AllGroups, TypeOK
<1>5. /\ id \in Nat /\ issuedGroups \in Nat
      /\ Dialect = "sqlite" => \A j \in Ids(GroupsSeenBy(q)) : j < id
      /\ Dialect # "sqlite" => id = issuedGroups + 1
  <2>1. \A g \in GroupsSeenBy(q) : g.id \in Nat
    BY <1>3 DEF TypeOK, GroupRows, GroupsSeenBy
  <2>2. Ids(GroupsSeenBy(q)) \in SUBSET Nat /\ issuedGroups \in Nat
    BY <1>3, <2>1 DEF Ids, TypeOK
  <2> QED
    BY <2>2, NextIdFresh
<1>6. \A g \in AllGroups : g.id # id
  <2>1. CASE Dialect = "sqlite"
    <3>1. AllGroups = GroupsSeenBy(q)
      BY <1>2, <2>1, SoleWriter
    <3>2. \A g \in GroupsSeenBy(q) : g.id < id /\ g.id \in Nat
      BY <1>3, <1>5, <2>1, <3>1, Owners DEF Ids
    <3> QED
      BY <1>5, <3>1, <3>2
  <2>2. CASE Dialect = "postgres"
    BY <1>3, <1>5, <2>2, Owners DEF Inv, GroupIdsHeld
  <2> QED
    BY <2>1, <2>2, DialectAssumption
<1>7. ASSUME NEW p \in Requests
      PROVE  /\ RecsBy(p)' = RecsBy(p) /\ RunExists(p)' = RunExists(p)
             /\ p # q => GroupsBy(p)' = GroupsBy(p)
             /\ \A g : RankedIn(p, g)' = RankedIn(p, g)
  BY <1>1, <1>2, <1>3 DEF GroupsBy, GroupsSeenBy, RecsBy, RunExists, RunsSeenBy, RankedIn, TypeOK
<1>8. GroupsBy(q)' = GroupsBy(q) \union {new}
  BY <1>1, <1>2, <1>3 DEF GroupsBy, GroupsSeenBy, TypeOK
<1>9. left'[q] = left[q] \ {i} /\ pending'[q] = members /\ groupId'[q] = id
  BY <1>1, <1>3 DEF TypeOK
<1>10. ASSUME NEW p \in Requests, p # q
       PROVE  left'[p] = left[p] /\ pending'[p] = pending[p] /\ groupId'[p] = groupId[p]
  BY <1>1, <1>3, <1>10 DEF TypeOK
<1>a. new.id = id /\ new.index = i /\ new.members = members /\ new.by = q
  OBVIOUS
<1>11. Drafts'
  <2> SUFFICES ASSUME NEW p \in Requests
               PROVE  (/\ \A r \in draftRuns[p] : r.owner = p
                       /\ \A g \in draftGroups[p] : g.by = p /\ g.run = runId[p]
                       /\ draftRuns[p] # {} \/ draftGroups[p] # {} => inTx[p] /\ pc[p] \in Working
                       /\ draftGroups[p] # {} => RunExists(p))'
    BY DEF Drafts
  <2>1. CASE p = q
    BY <1>1, <1>2, <1>3, <1>7, <2>1 DEF Inv, Drafts, TypeOK, Working
  <2>2. CASE p # q
    BY <1>1, <1>2, <1>3, <1>7, <2>2 DEF Inv, Drafts, TypeOK
  <2> QED
    BY <2>1, <2>2
<1>12. RunRowsKnown'
  BY <1>2, <1>4 DEF Inv, RunRowsKnown
<1>13. RunIdsHeld'
  BY <1>2, <1>4, <1>7 DEF Inv, RunIdsHeld
<1>14. GroupIdsHeld'
  <2>1. \A g, h \in AllGroups' : g.id = h.id => g = h
    <3>1. \A g, h \in AllGroups : g.id = h.id => g = h
      BY DEF Inv, GroupIdsHeld
    <3> HIDE DEF new
    <3> QED
      BY <1>4, <1>6, <1>a, <3>1
  <2>2. ASSUME Dialect = "postgres"
        PROVE  \A g \in AllGroups' : g.id <= issuedGroups'
    <3>1. issuedGroups' = issuedGroups + 1 /\ id = issuedGroups + 1
      BY <1>1, <1>5, <2>2
    <3>2. \A g \in AllGroups : g.id <= issuedGroups /\ g.id \in Nat
      BY <1>3, <2>2, Owners DEF Inv, GroupIdsHeld
    <3> QED
      BY <1>4, <1>5, <3>1, <3>2
  <2> QED
    BY <2>1, <2>2 DEF GroupIdsHeld
<1>15. ResultsOwned'
  BY <1>2 DEF Inv, ResultsOwned
<1>16. NothingEarly'
  BY <1>2, <1>7, <1>10 DEF Inv, NothingEarly, Early
<1>17. GroupsRanked'
  <2> SUFFICES ASSUME NEW p \in Requests
               PROVE  (/\ \A g \in GroupsBy(p) :
                            /\ g.members = {w \in uids[p] : label[p][w] = g.index}
                            /\ g.index \notin left[p]
                            /\ RankedIn(p, g) = g.members \ pending[p]
                       /\ \A g, h \in GroupsBy(p) : g.index = h.index => g = h
                       /\ \A x \in RecsBy(p) : \E g \in groups :
                            g.by = p /\ g.id = x.group /\ x.uid \in g.members)'
    BY DEF GroupsRanked
  <2>1. CASE p # q
    BY <1>2, <1>7, <1>10, <2>1 DEF Inv, GroupsRanked
  <2>2. CASE p = q
    <3> HIDE DEF new
    <3>1. RankedIn(q, new) = {}
      <4>1. \A x \in RecsBy(q) : x.group # id
        BY <1>6 DEF Inv, GroupsRanked, AllGroups
      <4> QED
        BY <1>a, <4>1 DEF RankedIn
    <3>2. ASSUME NEW g \in GroupsBy(q)
          PROVE  /\ g.members = {w \in uids[q] : label[q][w] = g.index}
                 /\ g.index \notin left[q] /\ g.index # i
                 /\ RankedIn(q, g) = g.members \ members
      BY <1>2 DEF Inv, GroupsRanked
    <3>3. \A x \in RecsBy(q) : \E g \in groups :
            g.by = q /\ g.id = x.group /\ x.uid \in g.members
      BY DEF Inv, GroupsRanked
    <3>4. \A g, h \in GroupsBy(q) : g.index = h.index => g = h
      BY DEF Inv, GroupsRanked
    <3>5. \A g \in GroupsBy(q)' :
            /\ g.members = {w \in uids[q] : label[q][w] = g.index}
            /\ g.index \notin left[q] \ {i}
            /\ RankedIn(q, g) = g.members \ members
      BY <1>8, <1>a, <3>1, <3>2
    <3>6. \A g, h \in GroupsBy(q)' : g.index = h.index => g = h
      BY <1>8, <1>a, <3>2, <3>4
    <3> QED
      BY <1>2, <1>7, <1>9, <2>2, <3>3, <3>5, <3>6
  <2> QED
    BY <2>1, <2>2
<1>18. ThreadCovers'
  <2> SUFFICES ASSUME NEW p \in Requests, pc'[p] = "process", RunExists(p)'
               PROVE  (/\ Covered(p)
                       /\ pending[p] # {} => \E g \in GroupsBy(p) :
                            g.id = groupId[p] /\ pending[p] \subseteq g.members)'
    BY DEF ThreadCovers
  <2>1. CASE p # q
    BY <1>2, <1>7, <1>10, <2>1 DEF Inv, ThreadCovers, Covered
  <2>2. CASE p = q
    <3> HIDE DEF new
    <3>1. Covered(q)
      BY <1>2 DEF Inv, ThreadCovers
    <3>2. Covered(q)'
      BY <1>2, <1>8, <1>9, <1>a, <3>1 DEF Covered
    <3> QED
      BY <1>8, <1>9, <1>a, <2>2, <3>2
  <2> QED
    BY <2>1, <2>2
<1>19. CompletedCovers'
  <2> SUFFICES ASSUME NEW r \in AllRuns, r.status = "completed"
               PROVE  (/\ pc[r.owner] \notin Working \union {"broken"}
                       /\ left[r.owner] = {} /\ pending[r.owner] = {} /\ Covered(r.owner))'
    BY <1>4 DEF CompletedCovers
  <2>1. r.owner # q /\ r.owner \in Requests
    BY <1>2, <1>3, Owners DEF Inv, CompletedCovers, Working
  <2> QED
    BY <1>2, <1>7, <1>10, <2>1 DEF Inv, CompletedCovers, Covered
<1>21. RunsLive'
  BY <1>4 DEF Inv, RunsLive, BeginGroup, Named
<1>22. InOrder'
  <2> SUFFICES ASSUME NEW p \in Requests
               PROVE  (/\ \A g \in GroupsBy(p), j \in left[p] : g.index < j
                       /\ \A g, h \in GroupsBy(p) :
                            g.index < h.index => g.members \intersect pending[p] = {})'
    BY DEF InOrder
  <2>1. CASE p # q
    BY <1>7, <1>10, <2>1 DEF Inv, InOrder
  <2>2. CASE p = q
    <3> HIDE DEF new
    <3>1. \A g \in GroupsBy(q) : g.index < i /\ g.index \in Nat
      BY <1>2, <1>3, Owners DEF Inv, InOrder, GroupsBy, GroupsSeenBy, AllGroups, GroupRows, GroupIndexes
    <3>2. \A j \in left[q] \ {i} : i < j
      BY <1>3 DEF NextGroup, TypeOK, GroupIndexes
    <3>3. \A g \in GroupsBy(q), j \in left[q] : g.index < j
      BY DEF Inv, InOrder
    <3>4. \A g \in GroupsBy(q) : g.members \intersect members = {}
      BY <3>1 DEF Inv, GroupsRanked
    <3>5. i \in Nat
      BY <1>2, <1>3 DEF TypeOK, GroupIndexes
    <3>6. \A g \in GroupsBy(q)', j \in left'[q] : g.index < j
      BY <1>8, <1>9, <1>a, <3>2, <3>3
    <3>7. \A g, h \in GroupsBy(q)' : g.index < h.index => g.members \intersect members = {}
      BY <1>8, <1>a, <3>1, <3>4, <3>5
    <3> QED
      BY <1>9, <2>2, <3>6, <3>7
  <2> QED
    BY <2>1, <2>2
<1>23. RankedOnce'
  BY <1>7 DEF Inv, RankedOnce
<1> QED
  BY <1>11, <1>12, <1>13, <1>14, <1>15, <1>16, <1>17, <1>18, <1>19, <1>21, <1>22,
     <1>23 DEF Inv

LEMMA RecInv ==
  ASSUME Inv, NEW q \in Requests, NEW w \in Workloads, WriteRecommendation(q, w),
         TypeInv', OneWriter'
  PROVE  Inv'
<1>0. PICK d \in SUBSET Details : recs' = recs \union
        {[run |-> runId[q], group |-> groupId[q], uid |-> w, details |-> d, by |-> q]}
  BY DEF WriteRecommendation
<1> DEFINE new == [run |-> runId[q], group |-> groupId[q], uid |-> w,
                   details |-> d, by |-> q]
<1>1. /\ runs' = RunsSeenBy(q) /\ groups' = GroupsSeenBy(q)
      /\ recs' = recs \union {new}
      /\ issuedRuns' = issuedRuns /\ issuedGroups' = issuedGroups
      /\ draftRuns' = [draftRuns EXCEPT ![q] = {}]
      /\ draftGroups' = [draftGroups EXCEPT ![q] = {}]
      /\ clusterId' = clusterId /\ runId' = runId /\ groupId' = groupId
      /\ uids' = uids /\ label' = label /\ left' = left /\ pc' = pc
      /\ pending' = [pending EXCEPT ![q] = @ \ {w}]
      /\ inTx' = [inTx EXCEPT ![q] = FALSE]
      /\ pc[q] = "process" /\ w \in pending[q] /\ RunExists(q)
  BY <1>0 DEF WriteRecommendation, EndTx, issued
<1>2. new.run = runId[q] /\ new.group = groupId[q] /\ new.uid = w /\ new.by = q
  OBVIOUS
<1> HIDE DEF new
<1>3. TypeOK /\ TypeOK'
  BY DEF Inv, TypeInv
<1>4. AllRuns' = AllRuns /\ AllGroups' = AllGroups
  BY <1>1, <1>3 DEF AllRuns, AllGroups, RunsSeenBy, GroupsSeenBy, TypeOK
<1>5. /\ \A p \in Requests : pending'[p] \subseteq pending[p]
      /\ \A p \in Requests \ {q} : pending'[p] = pending[p]
      /\ pending'[q] = pending[q] \ {w}
  BY <1>1, <1>3 DEF TypeOK
<1>6. ASSUME NEW p \in Requests
      PROVE  GroupsBy(p)' = GroupsBy(p)
  BY <1>1, <1>3 DEF GroupsBy, GroupsSeenBy, TypeOK, Inv, Drafts
<1>7. PICK r0 \in RunsSeenBy(q) : r0.id = runId[q] /\ r0.owner = q
  <2>1. PICK r \in RunsSeenBy(q) : r.id = runId[q]
    BY <1>1 DEF RunExists
  <2>2. r \in AllRuns
    BY DEF AllRuns, RunsSeenBy
  <2> QED
    BY <1>1, <2>1, <2>2 DEF Inv, RunIdsHeld, Working
<1>8. PICK g0 \in GroupsBy(q) : g0.id = groupId[q] /\ pending[q] \subseteq g0.members
  BY <1>1 DEF Inv, ThreadCovers
<1>9. ASSUME NEW p \in Requests, p # q
      PROVE  /\ RecsBy(p)' = RecsBy(p)
             /\ \A g : RankedIn(p, g)' = RankedIn(p, g)
  BY <1>1, <1>2, <1>9 DEF RecsBy, RankedIn
<1>10. RecsBy(q)' = RecsBy(q) \union {new}
  BY <1>1, <1>2 DEF RecsBy
<1>11. Drafts'
  <2> SUFFICES ASSUME NEW p \in Requests
               PROVE  (/\ \A r \in draftRuns[p] : r.owner = p
                       /\ \A g \in draftGroups[p] : g.by = p /\ g.run = runId[p]
                       /\ draftRuns[p] # {} \/ draftGroups[p] # {} => inTx[p] /\ pc[p] \in Working
                       /\ draftGroups[p] # {} => RunExists(p))'
    BY DEF Drafts
  <2>1. CASE p = q
    BY <1>1, <1>3, <2>1 DEF TypeOK
  <2>2. CASE p # q
    <3>1. /\ draftRuns'[p] = draftRuns[p] /\ draftGroups'[p] = draftGroups[p]
          /\ inTx'[p] = inTx[p] /\ pc'[p] = pc[p] /\ runId'[p] = runId[p]
      BY <1>1, <1>3, <2>2 DEF TypeOK
    <3>2. RunExists(p) => RunExists(p)'
      BY <1>1, <3>1 DEF RunExists, RunsSeenBy
    <3> QED
      BY <3>1, <3>2 DEF Inv, Drafts
  <2> QED
    BY <2>1, <2>2
<1>12. RunRowsKnown'
  BY <1>1, <1>4 DEF Inv, RunRowsKnown
<1>13. RunIdsHeld'
  <2>1. ASSUME NEW p \in Requests, RunExists(p)
        PROVE  RunExists(p)'
    BY <1>1, <1>3, <2>1 DEF RunExists, RunsSeenBy, TypeOK
  <2> QED
    BY <1>1, <1>4, <2>1 DEF Inv, RunIdsHeld
<1>14. GroupIdsHeld'
  BY <1>1, <1>4 DEF Inv, GroupIdsHeld
<1>15. ResultsOwned'
  <2>1. ASSUME NEW x \in groups \union recs
        PROVE  \E r \in runs' : r.id = x.run /\ r.owner = x.by
    BY <1>1 DEF Inv, ResultsOwned, RunsSeenBy
  <2>2. ASSUME NEW x \in draftGroups[q] \union {new}
        PROVE  \E r \in runs' : r.id = x.run /\ r.owner = x.by
    BY <1>1, <1>2, <1>7 DEF Inv, Drafts
  <2> QED
    BY <1>1, <2>1, <2>2 DEF ResultsOwned, GroupsSeenBy
<1>16. NothingEarly'
  BY <1>1, <1>5, <1>6, <1>9 DEF Inv, NothingEarly, Early
<1>17. GroupsRanked'
  <2> SUFFICES ASSUME NEW p \in Requests
               PROVE  (/\ \A g \in GroupsBy(p) :
                            /\ g.members = {v \in uids[p] : label[p][v] = g.index}
                            /\ g.index \notin left[p]
                            /\ RankedIn(p, g) = g.members \ pending[p]
                       /\ \A g, h \in GroupsBy(p) : g.index = h.index => g = h
                       /\ \A x \in RecsBy(p) : \E g \in groups :
                            g.by = p /\ g.id = x.group /\ x.uid \in g.members)'
    BY DEF GroupsRanked
  <2>1. CASE p # q
    BY <1>1, <1>5, <1>6, <1>9, <2>1 DEF Inv, GroupsRanked, GroupsSeenBy
  <2>2. CASE p = q
    <3>1. ASSUME NEW g \in GroupsBy(q)
          PROVE  RankedIn(q, g)' = g.members \ pending'[q]
      <4>1. RankedIn(q, g) = g.members \ pending[q]
        BY DEF Inv, GroupsRanked
      <4>2. CASE g = g0
        <5>1. RankedIn(q, g)' = RankedIn(q, g) \union {w}
          BY <1>2, <1>8, <1>10, <4>2 DEF RankedIn
        <5> QED
          BY <1>1, <1>5, <1>8, <4>1, <4>2, <5>1
      <4>3. CASE g # g0
        <5>1. g.id # g0.id
          BY <4>3 DEF Inv, GroupIdsHeld, AllGroups, GroupsBy, GroupsSeenBy
        <5>2. RankedIn(q, g)' = RankedIn(q, g)
          BY <1>2, <1>8, <1>10, <5>1 DEF RankedIn
        <5>3. w \notin g.members
          BY <1>1, <1>8, <4>3 DEF Inv, GroupsRanked
        <5> QED
          BY <1>5, <4>1, <5>2, <5>3
      <4> QED
        BY <4>2, <4>3
    <3>2. \A g \in GroupsBy(q) :
            /\ g.members = {v \in uids[q] : label[q][v] = g.index}
            /\ g.index \notin left[q]
      BY DEF Inv, GroupsRanked
    <3>3. \A g, h \in GroupsBy(q) : g.index = h.index => g = h
      BY DEF Inv, GroupsRanked
    <3>4. ASSUME NEW x \in RecsBy(q)'
          PROVE  \E g \in groups' : g.by = q /\ g.id = x.group /\ x.uid \in g.members
      <4>1. CASE x \in RecsBy(q)
        BY <1>1, <4>1 DEF Inv, GroupsRanked, GroupsSeenBy
      <4>2. CASE x = new
        BY <1>1, <1>2, <1>8, <4>2 DEF GroupsBy
      <4> QED
        BY <1>10, <4>1, <4>2
    <3> QED
      BY <1>1, <1>6, <2>2, <3>1, <3>2, <3>3, <3>4
  <2> QED
    BY <2>1, <2>2
<1>18. ThreadCovers'
  <2> SUFFICES ASSUME NEW p \in Requests, pc'[p] = "process", RunExists(p)'
               PROVE  (/\ Covered(p)
                       /\ pending[p] # {} => \E g \in GroupsBy(p) :
                            g.id = groupId[p] /\ pending[p] \subseteq g.members)'
    BY DEF ThreadCovers
  <2>1. RunExists(p)
    <3>1. CASE p = q
      BY <1>1, <3>1
    <3>2. CASE p # q
      <4>1. PICK r \in runs' \union draftRuns'[p] : r.id = runId[p]
        BY <1>1 DEF RunExists, RunsSeenBy
      <4>2. r \notin draftRuns[q]
        BY <1>1, <3>2, <4>1 DEF Inv, Drafts, RunIdsHeld, AllRuns, Working
      <4>3. draftRuns'[p] = draftRuns[p]
        BY <1>1, <1>3, <3>2 DEF TypeOK
      <4> QED
        BY <1>1, <4>1, <4>2, <4>3 DEF RunExists, RunsSeenBy
    <3> QED
      BY <3>1, <3>2
  <2>2. /\ Covered(p)
        /\ pending[p] # {} => \E g \in GroupsBy(p) :
             g.id = groupId[p] /\ pending[p] \subseteq g.members
    BY <1>1, <2>1 DEF Inv, ThreadCovers
  <2> QED
    BY <1>1, <1>5, <1>6, <2>2 DEF Covered
<1>19. CompletedCovers'
  <2> SUFFICES ASSUME NEW r \in AllRuns, r.status = "completed"
               PROVE  (/\ pc[r.owner] \notin Working \union {"broken"}
                       /\ left[r.owner] = {} /\ pending[r.owner] = {}
                       /\ Covered(r.owner))'
    BY <1>4 DEF CompletedCovers
  <2>1. /\ pc[r.owner] \notin Working \union {"broken"} /\ r.owner \in Requests
        /\ left[r.owner] = {} /\ pending[r.owner] = {} /\ Covered(r.owner)
    BY <1>3, Owners DEF Inv, CompletedCovers
  <2> QED
    BY <1>1, <1>5, <1>6, <2>1 DEF Covered
<1>20. RunsLive'
  BY <1>4 DEF Inv, RunsLive, WriteRecommendation, Named
<1>21. InOrder'
  BY <1>1, <1>5, <1>6 DEF Inv, InOrder
<1>22. RankedOnce'
  <2>1. \A x \in RecsBy(q) : ~ (x.group = groupId[q] /\ x.uid = w)
    <3>1. RankedIn(q, g0) = g0.members \ pending[q]
      BY DEF Inv, GroupsRanked
    <3> QED
      BY <1>1, <1>8, <3>1 DEF RankedIn
  <2>2. \A x, y \in RecsBy(q)' : x.group = y.group /\ x.uid = y.uid => x = y
    BY <1>2, <1>10, <2>1 DEF Inv, RankedOnce
  <2> QED
    BY <1>9, <2>2 DEF Inv, RankedOnce
<1> QED
  BY <1>11, <1>12, <1>13, <1>14, <1>15, <1>16, <1>17, <1>18, <1>19, <1>20, <1>21,
     <1>22 DEF Inv

LEMMA FinishInv ==
  ASSUME Inv, NEW q \in Requests, NEW s \in {"completed", "failed"},
         FinishRun(q, s), pc[q] \in Working,
         s = "completed" => pc[q] = "process" /\ pending[q] = {} /\ left[q] = {},
         TypeInv', OneWriter'
  PROVE  Inv'
<1> DEFINE Upd(r) == IF r.id = runId[q] THEN [r EXCEPT !.status = s] ELSE r
<1>1. /\ runs' = {Upd(r) : r \in RunsSeenBy(q)} /\ groups' = GroupsSeenBy(q)
      /\ recs' = recs
      /\ issuedRuns' = issuedRuns /\ issuedGroups' = issuedGroups
      /\ draftRuns' = [draftRuns EXCEPT ![q] = {}]
      /\ draftGroups' = [draftGroups EXCEPT ![q] = {}]
      /\ clusterId' = clusterId /\ runId' = runId /\ groupId' = groupId
      /\ uids' = uids /\ label' = label /\ left' = left /\ pending' = pending
      /\ pc' = [pc EXCEPT ![q] = s] \/ pc' = [pc EXCEPT ![q] = "fault"]
      /\ inTx' = [inTx EXCEPT ![q] = FALSE]
  BY DEF FinishRun, WithStatus, EndTx, issued, thread
<1>2. TypeOK /\ TypeOK'
  BY DEF Inv, TypeInv
<1>3. ASSUME NEW r \in AllRuns
      PROVE  /\ Upd(r).id = r.id /\ Upd(r).owner = r.owner
             /\ Upd(r).cluster = r.cluster
             /\ r.id = runId[q] => Upd(r).status = s /\ r.owner = q
             /\ r.id # runId[q] => Upd(r) = r
  BY <1>2, Owners DEF RunRows, Inv, RunIdsHeld
<1> HIDE DEF Upd
<1>4. AllRuns' = {Upd(r) : r \in AllRuns}
  <2>1. ASSUME NEW p \in Requests \ {q}, NEW r \in draftRuns[p]
        PROVE  Upd(r) = r
    BY <1>3 DEF AllRuns, Inv, Drafts
  <2>2. \A p \in Requests \ {q} : draftRuns'[p] = draftRuns[p]
    BY <1>1, <1>2 DEF TypeOK
  <2>3. draftRuns'[q] = {}
    BY <1>1, <1>2 DEF TypeOK
  <2> QED
    BY <1>1, <2>1, <2>2, <2>3 DEF AllRuns, RunsSeenBy
<1>5. AllGroups' = AllGroups
  BY <1>1, <1>2 DEF AllGroups, GroupsSeenBy, TypeOK
<1>6. ASSUME NEW p \in Requests
      PROVE  /\ GroupsBy(p)' = GroupsBy(p) /\ RecsBy(p)' = RecsBy(p)
             /\ \A g : RankedIn(p, g)' = RankedIn(p, g)
  BY <1>1, <1>2 DEF GroupsBy, GroupsSeenBy, RecsBy, RankedIn, TypeOK, Inv, Drafts
<1>7. ASSUME NEW p \in Requests \ {q}
      PROVE  /\ draftRuns'[p] = draftRuns[p] /\ draftGroups'[p] = draftGroups[p]
             /\ inTx'[p] = inTx[p] /\ pc'[p] = pc[p]
  BY <1>1, <1>2 DEF TypeOK
<1>8. pc'[q] \in {s, "fault"} /\ draftRuns'[q] = {} /\ draftGroups'[q] = {}
  BY <1>1, <1>2 DEF TypeOK
<1>9. ASSUME NEW p \in Requests \ {q}
      PROVE  RunExists(p) => RunExists(p)'
  <2>1. \A r \in RunsSeenBy(q) : Upd(r).id = r.id
    BY <1>3 DEF AllRuns, RunsSeenBy
  <2> QED
    BY <1>1, <1>7, <2>1 DEF RunExists, RunsSeenBy
<1>10. ASSUME NEW p \in Requests \ {q}, pc[p] \in Working, RunExists(p)'
       PROVE  RunExists(p)
  <2>1. PICK r \in AllRuns' : r.id = runId[p] /\ (r \in runs' \/ r \in draftRuns[p])
    BY <1>1, <1>7, <1>10 DEF RunExists, RunsSeenBy, AllRuns
  <2>2. CASE r \in draftRuns[p]
    BY <2>1, <2>2 DEF RunExists, RunsSeenBy
  <2>3. CASE r \in runs'
    <3>1. PICK r1 \in RunsSeenBy(q) : r = Upd(r1)
      BY <1>1, <2>3
    <3>2. r1 \in AllRuns /\ r1.id = runId[p]
      BY <1>3, <2>1, <3>1 DEF AllRuns, RunsSeenBy
    <3>3. r1.owner = p
      BY <1>10, <3>2 DEF Inv, RunIdsHeld
    <3>4. r1 \in runs
      BY <3>1, <3>3 DEF Inv, Drafts, RunsSeenBy
    <3> QED
      BY <3>2, <3>4 DEF RunExists, RunsSeenBy
  <2> QED
    BY <2>1, <2>2, <2>3
<1>11. Drafts'
  BY <1>1, <1>7, <1>8, <1>9 DEF Inv, Drafts
<1>12. RunRowsKnown'
  <2>1. ASSUME NEW r \in AllRuns
        PROVE  r.id = runId[r.owner] /\ r.cluster = clusterId[r.owner] /\ pc'[r.owner] \notin Early
    BY <1>2, <1>7, <1>8, Owners DEF Inv, RunRowsKnown, Early
  <2> QED
    BY <1>1, <1>3, <1>4, <2>1 DEF RunRowsKnown
<1>13. RunIdsHeld'
  <2>1. \A r, t \in AllRuns' : r.id = t.id => r = t
    BY <1>3, <1>4 DEF Inv, RunIdsHeld
  <2>2. ASSUME NEW p \in Requests, pc'[p] \in Working
        PROVE  /\ \A r \in AllRuns' : r.id = runId'[p] => r.owner = p
               /\ Dialect = "sqlite" => RunExists(p)'
    BY <1>1, <1>3, <1>4, <1>7, <1>8, <1>9, <2>2 DEF Inv, RunIdsHeld, Working
  <2>3. ASSUME Dialect = "postgres"
        PROVE  /\ \A r \in AllRuns' : r.id <= issuedRuns'
               /\ \A p \in Requests : runId'[p] <= issuedRuns'
    BY <1>1, <1>3, <1>4, <2>3 DEF Inv, RunIdsHeld
  <2> QED
    BY <2>1, <2>2, <2>3 DEF RunIdsHeld
<1>14. GroupIdsHeld'
  BY <1>1, <1>5 DEF Inv, GroupIdsHeld
<1>15. ResultsOwned'
  <2>1. ASSUME NEW r \in RunsSeenBy(q)
        PROVE  Upd(r) \in runs' /\ Upd(r).id = r.id /\ Upd(r).owner = r.owner
    BY <1>1, <1>3 DEF AllRuns, RunsSeenBy
  <2>2. ASSUME NEW x \in groups \union recs
        PROVE  \E r \in runs' : r.id = x.run /\ r.owner = x.by
    BY <2>1 DEF Inv, ResultsOwned, RunsSeenBy
  <2>3. ASSUME NEW x \in draftGroups[q]
        PROVE  \E r \in runs' : r.id = x.run /\ r.owner = x.by
    <3>1. PICK r \in RunsSeenBy(q) : r.id = runId[q]
      BY DEF Inv, Drafts, RunExists
    <3>2. r.owner = q
      BY <1>3, <3>1 DEF AllRuns, RunsSeenBy
    <3>3. x.by = q /\ x.run = runId[q]
      BY DEF Inv, Drafts
    <3> QED
      BY <2>1, <3>1, <3>2, <3>3
  <2> QED
    BY <1>1, <2>2, <2>3 DEF ResultsOwned, GroupsSeenBy
<1>16. NothingEarly'
  BY <1>1, <1>6, <1>7, <1>8 DEF Inv, NothingEarly, Early
<1>17. GroupsRanked'
  BY <1>1, <1>6 DEF Inv, GroupsRanked, GroupsSeenBy
<1>18. ThreadCovers'
  BY <1>1, <1>6, <1>7, <1>8, <1>10 DEF Inv, ThreadCovers, Covered, Working
<1>19. CompletedCovers'
  <2> SUFFICES ASSUME NEW r \in AllRuns, Upd(r).status = "completed"
               PROVE  (/\ pc[r.owner] \notin Working \union {"broken"}
                       /\ left[r.owner] = {} /\ pending[r.owner] = {} /\ Covered(r.owner))'
    BY <1>3, <1>4 DEF CompletedCovers
  <2>1. r.owner \in Requests
    BY <1>2, Owners
  <2>2. CASE r.id = runId[q]
    <3>1. s = "completed" /\ r.owner = q
      BY <1>3, <2>2
    <3>2. Covered(q)
      <4>1. RunExists(q)
        BY <2>2, <3>1 DEF RunExists, RunsSeenBy, AllRuns, Inv, Drafts
      <4> QED
        BY <3>1, <4>1 DEF Inv, ThreadCovers
    <3> QED
      BY <1>1, <1>6, <1>8, <3>1, <3>2 DEF Covered, Working
  <2>3. CASE r.id # runId[q]
    <3>1. Upd(r) = r
      BY <1>3, <2>3
    <3>2. /\ pc[r.owner] \notin Working \union {"broken"}
          /\ left[r.owner] = {} /\ pending[r.owner] = {} /\ Covered(r.owner)
      BY <3>1 DEF Inv, CompletedCovers
    <3> QED
      BY <1>1, <1>6, <1>7, <2>1, <3>2 DEF Covered
  <2> QED
    BY <2>2, <2>3
<1>20. RunsLive'
  BY <1>3, <1>4 DEF Inv, RunsLive, FinishRun, Named
<1>21. InOrder'
  BY <1>1, <1>6 DEF Inv, InOrder
<1>22. RankedOnce'
  BY <1>6 DEF Inv, RankedOnce
<1> QED
  BY <1>11, <1>12, <1>13, <1>14, <1>15, <1>16, <1>17, <1>18, <1>19, <1>20, <1>21,
     <1>22 DEF Inv

(* After a deletion the id of a run may be used again, unless ids come     *)
(* from a sequence.                                                        *)
NoReuse == Dialect = "postgres" \/ Deletable = {}

LEMMA DeleteInv ==
  ASSUME Inv, NoReuse, NEW c \in Clusters, DeleteCluster(c), TypeInv', OneWriter'
  PROVE  Inv'
<1> DEFINE gone == Ids({r \in runs : r.cluster = clusters[c]})
<1>1. /\ runs' = {r \in runs : r.id \notin gone}
      /\ groups' = {g \in groups : g.run \notin gone}
      /\ recs' = {r \in recs : r.run \notin gone}
      /\ issuedRuns' = issuedRuns /\ issuedGroups' = issuedGroups
      /\ inTx' = inTx /\ draftRuns' = draftRuns /\ draftGroups' = draftGroups
      /\ clusterId' = clusterId /\ runId' = runId /\ groupId' = groupId
      /\ uids' = uids /\ label' = label /\ left' = left /\ pending' = pending
      /\ pc' = pc /\ Dialect = "postgres"
      /\ \A q \in Requests : inTx[q] => clusterId[q] # clusters[c]
  BY DialectAssumption DEF NoReuse, DeleteCluster, issued, connection, thread
<1>2. \A i \in gone : \E r \in runs : r.id = i /\ r.cluster = clusters[c]
  BY DEF Ids
<1> HIDE DEF gone
<1>3. TypeOK
  BY DEF Inv, TypeInv
<1>4. AllRuns' \subseteq AllRuns /\ AllGroups' \subseteq AllGroups
  BY <1>1 DEF AllRuns, AllGroups
<1>5. ASSUME NEW q \in Requests, runId[q] \notin gone
      PROVE  /\ GroupsBy(q)' = GroupsBy(q) /\ RecsBy(q)' = RecsBy(q)
             /\ RunExists(q)' = RunExists(q)
  <2>1. \A x \in groups \union recs : x.by = q => x.run \notin gone
    BY <1>5 DEF Inv, ResultsOwned, RunRowsKnown, AllRuns
  <2> QED
    BY <1>1, <1>5, <2>1 DEF GroupsBy, GroupsSeenBy, RecsBy, RunExists, RunsSeenBy
<1>6. ASSUME NEW q \in Requests, runId[q] \in gone
      PROVE  /\ draftRuns[q] = {} /\ draftGroups[q] = {}
             /\ pc[q] \in Working => ~ RunExists(q)'
             /\ GroupsBy(q)' = {} /\ RecsBy(q)' = {}
  <2>1. PICK r \in runs : r.id = runId[q] /\ r.cluster = clusters[c]
    BY <1>2, <1>6
  <2>2. ASSUME NEW x \in groups \union recs, x.by = q
        PROVE  x.run = runId[q]
    BY <2>2 DEF Inv, ResultsOwned, RunRowsKnown, AllRuns
  <2>3. pc[q] \in Working => r.owner = q /\ ~ inTx[q]
    BY <1>1, <2>1 DEF Inv, RunIdsHeld, RunRowsKnown, AllRuns
  <2>4. draftRuns[q] = {} /\ draftGroups[q] = {}
    BY <2>3 DEF Inv, Drafts
  <2> QED
    BY <1>1, <1>6, <2>2, <2>4 DEF GroupsBy, GroupsSeenBy, RecsBy, RunExists, RunsSeenBy
<1>7. ASSUME NEW q \in Requests, NEW g, g.by = q, runId[q] \notin gone
      PROVE  RankedIn(q, g)' = RankedIn(q, g)
  BY <1>5, <1>7 DEF RankedIn
<1>8. Drafts'
  BY <1>1, <1>5, <1>6 DEF Inv, Drafts
<1>9. RunRowsKnown'
  BY <1>1, <1>4 DEF Inv, RunRowsKnown
<1>10. RunIdsHeld'
  BY <1>1, <1>4 DEF Inv, RunIdsHeld
<1>11. GroupIdsHeld'
  BY <1>1, <1>4 DEF Inv, GroupIdsHeld
<1>12. ResultsOwned'
  BY <1>1 DEF Inv, ResultsOwned
<1>13. NothingEarly'
  BY <1>1, <1>5, <1>6 DEF Inv, NothingEarly
<1>14. GroupsRanked'
  <2> SUFFICES ASSUME NEW p \in Requests
               PROVE  (/\ \A g \in GroupsBy(p) :
                            /\ g.members = {w \in uids[p] : label[p][w] = g.index}
                            /\ g.index \notin left[p]
                            /\ RankedIn(p, g) = g.members \ pending[p]
                       /\ \A g, h \in GroupsBy(p) : g.index = h.index => g = h
                       /\ \A x \in RecsBy(p) : \E g \in groups :
                            g.by = p /\ g.id = x.group /\ x.uid \in g.members)'
    BY DEF GroupsRanked
  <2>1. CASE runId[p] \in gone
    BY <1>6, <2>1
  <2>2. CASE runId[p] \notin gone
    <3>1. \A g \in groups : g.by = p => g \in groups'
      BY <1>1, <2>2 DEF Inv, ResultsOwned, RunRowsKnown, AllRuns
    <3>2. \A g \in GroupsBy(p) : RankedIn(p, g)' = RankedIn(p, g)
      BY <1>7, <2>2 DEF GroupsBy
    <3> QED
      BY <1>1, <1>5, <2>2, <3>1, <3>2 DEF Inv, GroupsRanked
  <2> QED
    BY <2>1, <2>2
<1>15. ThreadCovers'
  BY <1>1, <1>5, <1>6 DEF Inv, ThreadCovers, Covered, Working
<1>16. CompletedCovers'
  <2> SUFFICES ASSUME NEW r \in AllRuns', r.status = "completed"
               PROVE  (/\ pc[r.owner] \notin Working \union {"broken"}
                       /\ left[r.owner] = {} /\ pending[r.owner] = {} /\ Covered(r.owner))'
    BY DEF CompletedCovers
  <2>1. /\ r \in AllRuns /\ r.owner \in Requests /\ r.id = runId[r.owner]
        /\ pc[r.owner] \notin Working \union {"broken"}
        /\ left[r.owner] = {} /\ pending[r.owner] = {} /\ Covered(r.owner)
    BY <1>3, <1>4, Owners DEF Inv, CompletedCovers, RunRowsKnown
  <2>2. draftRuns[r.owner] = {}
    BY <2>1 DEF Inv, Drafts
  <2>3. r \in runs'
    BY <1>1, <2>1, <2>2 DEF AllRuns, Inv, Drafts
  <2>4. runId[r.owner] \notin gone
    BY <1>1, <2>1, <2>3
  <2> QED
    BY <1>1, <1>5, <2>1, <2>4 DEF Covered
<1>17. RunsLive'
  <2> SUFFICES ASSUME NEW r \in AllRuns'
               PROVE  Named(r.cluster)' # {}
    BY DEF RunsLive
  <2>1. r \in AllRuns /\ r \in RunRows /\ r.owner \in Requests
    BY <1>3, <1>4, Owners
  <2>2. r.cluster # clusters[c]
    <3>1. CASE r \in runs'
      BY <1>1, <3>1 DEF gone, Ids
    <3>2. CASE r \notin runs'
      <4>1. inTx[r.owner] /\ r.cluster = clusterId[r.owner]
        BY <1>1, <2>1, <3>2 DEF Inv, Drafts, RunRowsKnown, AllRuns
      <4> QED
        BY <1>1, <2>1, <4>1
    <3> QED
      BY <3>1, <3>2
  <2>3. PICK d \in Clusters : clusters[d] = r.cluster
    BY <2>1 DEF Inv, RunsLive, Named
  <2>4. d # c /\ clusters' = [clusters EXCEPT ![c] = 0]
    BY <2>2, <2>3 DEF DeleteCluster
  <2> QED
    BY <1>3, <2>3, <2>4 DEF Named, TypeOK
<1>18. InOrder'
  <2> SUFFICES ASSUME NEW p \in Requests
               PROVE  (/\ \A g \in GroupsBy(p), i \in left[p] : g.index < i
                       /\ \A g, h \in GroupsBy(p) :
                            g.index < h.index => g.members \intersect pending[p] = {})'
    BY DEF InOrder
  <2> QED
    BY <1>1, <1>5, <1>6 DEF Inv, InOrder
<1>19. RankedOnce'
  BY <1>1 DEF Inv, RecsBy, RankedOnce
<1> QED
  BY <1>8, <1>9, <1>10, <1>11, <1>12, <1>13, <1>14, <1>15, <1>16, <1>17, <1>18, <1>19
     DEF Inv

LEMMA OneWriterStep == Inv /\ [Next]_vars => OneWriter'
<1> SUFFICES ASSUME Inv, [Next]_vars PROVE OneWriter'
  OBVIOUS
<1>1. TypeOK /\ OneWriter
  BY DEF Inv, TypeInv
<1>2. CASE inTx' = inTx
  BY <1>1, <1>2 DEF OneWriter
<1>3. ASSUME NEW q \in Requests, inTx' = [inTx EXCEPT ![q] = FALSE]
      PROVE  OneWriter'
  BY <1>1, <1>3 DEF OneWriter, TypeOK
<1>4. ASSUME NEW q \in Requests, MayWrite(q), inTx' = [inTx EXCEPT ![q] = TRUE]
      PROVE  OneWriter'
  BY <1>1, <1>4 DEF OneWriter, TypeOK, MayWrite
<1>5. CASE inTx' = [q \in Requests |-> FALSE]
  BY <1>5 DEF OneWriter
<1>6. ASSUME NEW q \in Requests, StatementFails(q)
      PROVE  OneWriter'
  <2>1. CASE MayWrite(q) /\ Dialect = "sqlite"
    BY <1>4, <1>6, <2>1 DEF StatementFails
  <2>2. CASE ~ (MayWrite(q) /\ Dialect = "sqlite")
    <3>1. inTx' = [inTx EXCEPT ![q] = FALSE]
      BY <1>6, <2>2 DEF StatementFails, EndTx, MayWrite
    <3> QED
      BY <1>3, <3>1
  <2> QED
    BY <2>1, <2>2
<1>7. ASSUME NEW q \in Requests, CreateRun(q) \/ BeginGroup(q)
      PROVE  OneWriter'
  BY <1>4, <1>7 DEF CreateRun, BeginGroup, BeginTx
<1>8. ASSUME NEW q \in Requests, NEW w \in Workloads, WriteRecommendation(q, w)
      PROVE  OneWriter'
  BY <1>3, <1>8 DEF WriteRecommendation, EndTx
<1>9. ASSUME NEW q \in Requests, CompleteRun(q) \/ RecordFailure(q) \/ LoseFailure(q)
                               \/ DatabaseFails(q)
      PROVE  OneWriter'
  BY <1>3, <1>9
     DEF CompleteRun, RecordFailure, FinishRun, LoseFailure, DatabaseFails, EndTx
<1>10. ASSUME NEW q \in Requests,
              \/ EnsureCluster(q) \/ ResolveCluster(q) \/ ReadAsOf(q) \/ Reject(q)
              \/ ListUids(q) \/ \E k \in Cells : LoadWorkload(q, k)
              \/ ClusterWorkloads(q) \/ ComputeFails(q) \/ Answer(q)
       PROVE  OneWriter'
  BY <1>2, <1>10 DEF EnsureCluster, ResolveCluster, ReadAsOf, Reject, ListUids,
       LoadWorkload, ClusterWorkloads, ComputeFails, Answer, connection
<1>11. ASSUME \/ UNCHANGED vars
              \/ \E c \in Clusters : DeleteCluster(c)
              \/ \E c \in Clusters, W \in SUBSET Workloads,
                    kinds \in SUBSET (Resources \union {"allocations"}) :
                   CollectorCommits(c, W, kinds)
       PROVE  OneWriter'
  BY <1>2, <1>11 DEF vars, DeleteCluster, CollectorCommits, connection
<1>12. CASE Crash
  BY <1>5, <1>12 DEF Crash
<1> QED
  BY <1>6, <1>7, <1>8, <1>9, <1>10, <1>11, <1>12 DEF Next, Proceed

-----------------------------------------------------------------------------
(***************************************************************************)
(* Which steps are which, and the invariant of every step.                 *)
(***************************************************************************)

LEMMA InvInit == Init => Inv
<1> SUFFICES ASSUME Init PROVE Inv
  OBVIOUS
<1>1. TypeInv
  BY TypeInit
<1>2. AllRuns = {} /\ AllGroups = {}
  BY DEF Init, AllRuns, AllGroups
<1>3. \A q \in Requests : GroupsBy(q) = {} /\ RecsBy(q) = {}
  BY DEF Init, GroupsBy, GroupsSeenBy, RecsBy
<1>4. Drafts /\ OneWriter
  BY DEF Init, Drafts, OneWriter
<1>5. RunRowsKnown /\ RunsLive /\ GroupIdsHeld /\ ResultsOwned /\ CompletedCovers
  BY <1>2 DEF Init, RunRowsKnown, RunsLive, GroupIdsHeld, ResultsOwned, CompletedCovers
<1>6. RunIdsHeld
  BY <1>2 DEF Init, RunIdsHeld, Working
<1>7. NothingEarly /\ GroupsRanked /\ RankedOnce /\ InOrder /\ ThreadCovers
  BY <1>3 DEF Init, NothingEarly, GroupsRanked, RankedOnce, InOrder, ThreadCovers
<1> QED
  BY <1>1, <1>4, <1>5, <1>6, <1>7 DEF Inv

LEMMA InvStep == NoReuse /\ Inv /\ [Next]_vars => Inv'
<1> SUFFICES ASSUME NoReuse, Inv, [Next]_vars PROVE Inv'
  OBVIOUS
<1>1. TypeInv' /\ OneWriter' /\ TypeOK /\ StageOK /\ OneWriter
  BY TypeStep, OneWriterStep DEF Inv, TypeInv
<1>2. ASSUME Quiet PROVE Inv'
  BY <1>1, <1>2, QuietInv
<1>3. ASSUME Abandon PROVE Inv'
  BY <1>1, <1>3, AbandonInv
<1>4. \A p \in Requests : draftRuns[p] # {} \/ draftGroups[p] # {} => inTx[p]
  BY DEF Inv, Drafts
<1>5. CASE UNCHANGED vars
  BY <1>2, <1>4, <1>5
     DEF vars, Quiet, results, connection, issued, thread, Named
<1>6. ASSUME NEW q \in Requests, EnsureCluster(q)
      PROVE  Inv'
  <2>1. \A id \in Nat \ {0} : Named(id) # {} => Named(id)' # {}
    BY <1>1, <1>6 DEF EnsureCluster, Named, TypeOK
  <2> QED
    BY <1>1, <1>2, <1>4, <1>6, <2>1
       DEF EnsureCluster, Quiet, connection, thread, TypeOK, Early
<1>7. ASSUME NEW q \in Requests, ResolveCluster(q)
      PROVE  Inv'
  BY <1>1, <1>2, <1>4, <1>7
     DEF ResolveCluster, Quiet, connection, issued, TypeOK, Early, Named
<1>8. ASSUME NEW q \in Requests, ReadAsOf(q)
      PROVE  Inv'
  BY <1>1, <1>2, <1>4, <1>8
     DEF ReadAsOf, Quiet, connection, issued, TypeOK, Early, Named
<1>9. ASSUME NEW q \in Requests, Reject(q)
      PROVE  Inv'
  BY <1>1, <1>2, <1>4, <1>9
     DEF Reject, Quiet, connection, issued, thread, TypeOK, Early, Named
<1>10. ASSUME NEW q \in Requests, ListUids(q)
       PROVE  Inv'
  BY <1>1, <1>2, <1>4, <1>10
     DEF ListUids, Quiet, connection, issued, TypeOK, Early, Named
<1>11. ASSUME NEW q \in Requests, NEW k \in Cells, LoadWorkload(q, k)
       PROVE  Inv'
  BY <1>1, <1>2, <1>4, <1>11 DEF LoadWorkload, Quiet, connection, issued, Named
<1>12. ASSUME NEW q \in Requests, ClusterWorkloads(q)
       PROVE  Inv'
  <2>1. \A w \in uids'[q] : label'[q][w] \in left'[q]
    BY <1>1, <1>12 DEF ClusterWorkloads, TypeOK
  <2> QED
    BY <1>1, <1>2, <1>4, <1>12, <2>1
       DEF ClusterWorkloads, Quiet, connection, issued, TypeOK, Named
<1>13. ASSUME NEW q \in Requests, ComputeFails(q)
       PROVE  Inv'
  BY <1>1, <1>2, <1>4, <1>13
     DEF ComputeFails, Quiet, connection, issued, thread, TypeOK, Working, Named
<1>14. ASSUME NEW q \in Requests, Answer(q)
       PROVE  Inv'
  BY <1>1, <1>2, <1>4, <1>14
     DEF Answer, Quiet, connection, issued, thread, TypeOK, Named
<1>15. ASSUME NEW c \in Clusters, NEW W, NEW kinds, CollectorCommits(c, W, kinds)
       PROVE  Inv'
  BY <1>2, <1>4, <1>15
     DEF CollectorCommits, Quiet, connection, issued, thread, Named
<1>16. ASSUME NEW q \in Requests, StatementFails(q)
       PROVE  Inv'
  <2>1. CASE Dialect = "sqlite"
    <3>1. \A p \in Requests : draftRuns[p] # {} \/ draftGroups[p] # {} => inTx'[p]
      BY <1>1, <1>4, <1>16, <2>1 DEF StatementFails, MayWrite, OneWriter, TypeOK
    <3> QED
      BY <1>1, <1>2, <1>16, <2>1, <3>1
         DEF StatementFails, Quiet, issued, thread, TypeOK, Working, Named
  <2>2. CASE Dialect # "sqlite"
    <3>1. /\ pc' = [pc EXCEPT ![q] = "broken"] /\ pc[q] = "process"
          /\ draftRuns' = [draftRuns EXCEPT ![q] = {}]
          /\ draftGroups' = [draftGroups EXCEPT ![q] = {}]
          /\ inTx' = [inTx EXCEPT ![q] = FALSE]
          /\ UNCHANGED <<clusters, results, issuedRuns, issuedGroups, thread>>
      BY <1>16, <2>2 DEF StatementFails, EndTx, issued
    <3> QED
      BY <1>1, <1>3, <1>4, <3>1 DEF Abandon, TypeOK
  <2> QED
    BY <2>1, <2>2
<1>17. ASSUME NEW q \in Requests, LoseFailure(q)
       PROVE  Inv'
  BY <1>1, <1>3, <1>4, <1>17 DEF LoseFailure, EndTx, Abandon, issued, TypeOK
<1>18. CASE Crash
  <2>1. \A p \in Requests : pc[p] \notin Active => draftRuns[p] = {} /\ draftGroups[p] = {}
    BY DEF Inv, Drafts, Working, Active, Statements
  <2> QED
    BY <1>1, <1>3, <1>18, <2>1 DEF Crash, Abandon, issued
<1>19. ASSUME NEW q \in Requests, CreateRun(q)
       PROVE  Inv'
  BY <1>1, <1>19, CreateInv
<1>20. ASSUME NEW q \in Requests, BeginGroup(q)
       PROVE  Inv'
  BY <1>1, <1>20, GroupInv
<1>21. ASSUME NEW q \in Requests, NEW w \in Workloads, WriteRecommendation(q, w)
       PROVE  Inv'
  BY <1>1, <1>21, RecInv
<1>22. ASSUME NEW q \in Requests, CompleteRun(q)
       PROVE  Inv'
  BY <1>1, <1>22, FinishInv DEF CompleteRun, Working
<1>23. ASSUME NEW q \in Requests, RecordFailure(q)
       PROVE  Inv'
  BY <1>1, <1>23, FinishInv DEF RecordFailure, Working
<1>24. ASSUME NEW c \in Clusters, DeleteCluster(c)
       PROVE  Inv'
  BY <1>1, <1>24, DeleteInv
<1>25. ASSUME NEW q \in Requests, DatabaseFails(q)
       PROVE  Inv'
  BY <1>1, <1>3, <1>4, <1>25 DEF DatabaseFails, EndTx, Abandon, issued, TypeOK
<1> QED
  BY <1>5, <1>6, <1>7, <1>8, <1>9, <1>10, <1>11, <1>12, <1>13, <1>14, <1>15,
     <1>16, <1>17, <1>18, <1>19, <1>20, <1>21, <1>22, <1>23, <1>24, <1>25
     DEF Next, Proceed

LEMMA InvHolds == NoReuse => (Spec => []Inv)
<1> SUFFICES ASSUME NoReuse PROVE Spec => []Inv
  OBVIOUS
<1>1. Inv /\ [Next]_vars => Inv'
  BY InvStep
<1> QED
  BY InvInit, <1>1, PTL DEF Spec

-----------------------------------------------------------------------------
(***************************************************************************)
(* What the invariant is for.                                              *)
(***************************************************************************)

(* What is stored under the id of a run is what its request wrote. *)
LEMMA StoredByOwner ==
  ASSUME Inv, NEW r \in runs
  PROVE  /\ r.owner \in Requests /\ r \in AllRuns
         /\ RecsOf(r) = RecsBy(r.owner)
         /\ GroupsOf(r) = {g \in GroupsBy(r.owner) : g \in groups}
         /\ \A g : Advised(r, g) = RankedIn(r.owner, g)
<1>1. r.owner \in Requests /\ r \in AllRuns
  BY DEF AllRuns, Inv, TypeInv, TypeOK, RunRows
<1>2. \A x \in groups \union recs : x.run = r.id <=> x.by = r.owner
  BY <1>1 DEF Inv, ResultsOwned, RunIdsHeld, RunRowsKnown, AllRuns
<1>3. RecsOf(r) = RecsBy(r.owner)
  BY <1>2 DEF RecsOf, RecsBy
<1> QED
  BY <1>1, <1>2, <1>3 DEF GroupsOf, GroupsBy, GroupsSeenBy, Advised, RankedIn

LEMMA CompletedOfInv == Inv => CompletedIsComplete
<1> SUFFICES ASSUME Inv, NEW r \in runs, r.status = "completed"
    PROVE  /\ \A w \in uids[r.owner] : \E x \in RecsOf(r) : x.uid = w
           /\ \A x, y \in RecsOf(r) : x.uid = y.uid => x = y
           /\ \A x \in RecsOf(r) : x.by = r.owner /\ x.uid \in uids[r.owner]
           /\ \A g \in GroupsOf(r) : g.by = r.owner /\ Advised(r, g) = g.members
  BY DEF CompletedIsComplete
<1> DEFINE q == r.owner
<1>1. /\ q \in Requests /\ r \in AllRuns /\ RecsOf(r) = RecsBy(q)
      /\ GroupsOf(r) = {g \in GroupsBy(q) : g \in groups}
      /\ \A g : Advised(r, g) = RankedIn(q, g)
  BY StoredByOwner
<1>2. left[q] = {} /\ pending[q] = {} /\ Covered(q)
  BY <1>1 DEF Inv, CompletedCovers
<1>3. /\ \A g \in GroupsBy(q) :
           /\ g.members = {w \in uids[q] : label[q][w] = g.index}
           /\ RankedIn(q, g) = g.members
      /\ \A g, h \in GroupsBy(q) : g.index = h.index => g = h
      /\ \A x \in RecsBy(q) : \E g \in GroupsBy(q) : g.id = x.group /\ x.uid \in g.members
  <2>1. /\ \A g \in GroupsBy(q) :
             /\ g.members = {w \in uids[q] : label[q][w] = g.index}
             /\ RankedIn(q, g) = g.members \ pending[q]
        /\ \A g, h \in GroupsBy(q) : g.index = h.index => g = h
        /\ \A x \in RecsBy(q) : \E g \in groups :
             g.by = q /\ g.id = x.group /\ x.uid \in g.members
    BY <1>1 DEF Inv, GroupsRanked
  <2>2. \A g \in GroupsBy(q) : RankedIn(q, g) = g.members
    BY <1>2, <2>1
  <2>3. \A g \in groups : g.by = q => g \in GroupsBy(q)
    BY DEF GroupsBy, GroupsSeenBy
  <2> QED
    BY <2>1, <2>2, <2>3
<1>4. \A w \in uids[q] : \E x \in RecsBy(q) : x.uid = w
  BY <1>2, <1>3 DEF Covered, RankedIn
<1>5. ASSUME NEW x \in RecsBy(q), NEW y \in RecsBy(q), x.uid = y.uid
      PROVE  x = y
  <2>1. x.group = y.group
    BY <1>3, <1>5
  <2> QED
    BY <1>1, <1>5, <2>1 DEF Inv, RankedOnce
<1>6. \A x \in RecsBy(q) : x.by = q /\ x.uid \in uids[q]
  BY <1>3 DEF RecsBy
<1>7. \A g \in GroupsOf(r) : g.by = q /\ Advised(r, g) = g.members
  BY <1>1, <1>3 DEF GroupsBy
<1> QED
  BY <1>1, <1>4, <1>5, <1>6, <1>7

(* On postgres, or while no cluster is deleted, a run marked completed     *)
(* shows one recommendation for every workload it listed, in its group,    *)
(* and nothing of another run.                                             *)
THEOREM CompletedCorrect == NoReuse => (Spec => []CompletedIsComplete)
<1> SUFFICES ASSUME NoReuse PROVE Spec => []CompletedIsComplete
  OBVIOUS
<1> QED
  BY InvHolds, CompletedOfInv, PTL

LEMMA PrefixOfInv == Inv => ReadersSeeAPrefix
<1> SUFFICES ASSUME Inv, NEW r \in runs
    PROVE  /\ \A g, h \in GroupsOf(r) : g.index < h.index => Advised(r, g) = g.members
           /\ \A x \in RecsOf(r) : \E g \in GroupsOf(r) :
                x.group = g.id /\ x.uid \in g.members
  BY DEF ReadersSeeAPrefix
<1> DEFINE q == r.owner
<1>1. /\ q \in Requests /\ RecsOf(r) = RecsBy(q)
      /\ GroupsOf(r) = {g \in GroupsBy(q) : g \in groups}
      /\ \A g : Advised(r, g) = RankedIn(q, g)
  BY StoredByOwner
<1>2. \A g, h \in GroupsBy(q) : g.index < h.index => RankedIn(q, g) = g.members
  <2>1. \A g \in GroupsBy(q) : RankedIn(q, g) = g.members \ pending[q]
    BY <1>1 DEF Inv, GroupsRanked
  <2>2. \A g, h \in GroupsBy(q) :
          g.index < h.index => g.members \intersect pending[q] = {}
    BY <1>1 DEF Inv, InOrder
  <2> QED
    BY <2>1, <2>2
<1>3. \A x \in RecsBy(q) : \E g \in GroupsBy(q) :
        g \in groups /\ x.group = g.id /\ x.uid \in g.members
  BY <1>1 DEF Inv, GroupsRanked, GroupsBy, GroupsSeenBy
<1> QED
  BY <1>1, <1>2, <1>3

(* Under the same condition what is visible of any run is a prefix of its  *)
(* work: all visible groups but the last are full, and no recommendation   *)
(* is visible without its group.                                           *)
THEOREM PrefixCorrect == NoReuse => (Spec => []ReadersSeeAPrefix)
<1> SUFFICES ASSUME NoReuse PROVE Spec => []ReadersSeeAPrefix
  OBVIOUS
<1> QED
  BY InvHolds, PrefixOfInv, PTL

(* Under the same condition no result computed for a deleted cluster is    *)
(* stored.                                                                 *)
THEOREM CascadeCorrect == NoReuse => (Spec => []CascadeIsComplete)
<1> SUFFICES ASSUME NoReuse PROVE Spec => []CascadeIsComplete
  OBVIOUS
<1>1. Inv => CascadeIsComplete
  BY DEF Inv, ResultsOwned, RunRowsKnown, RunsLive, AllRuns, CascadeIsComplete
<1> QED
  BY InvHolds, <1>1, PTL

=============================================================================
