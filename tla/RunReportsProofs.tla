-------------------------- MODULE RunReportsProofs --------------------------
(***************************************************************************)
(* Proofs about what AnalysisRun reports of a run: the date of its data,   *)
(* its status, the answer to the request that made it, and what readers    *)
(* see of its results.                                                     *)
(*                                                                         *)
(*   SnapshotCorrect   on sqlite, what a run loads is a snapshot;          *)
(*   AsOfCorrect       data_as_of is newer than what was loaded only on    *)
(*                     account of rows that are left out;                  *)
(*   OrphanCorrect     a run says "running" only while somebody works on   *)
(*                     it, but for crashes, database faults and sqlite's   *)
(*                     lock;                                               *)
(*   ReplyCorrect      the answer and the stored run agree (under NoReuse);*)
(*   ResultsCorrect    AnalysisRun implements RunResults (under NoReuse);  *)
(*   WorkEnds          every statement of a thread leaves it less to do,   *)
(*                     and nobody adds to it;                              *)
(*   NobodyGetsStuck   a thread that has not answered has a statement it   *)
(*                     can execute, or one that fails at once.             *)
(*                                                                         *)
(* The first two rest on Dated, what a thread may rely on of the collected *)
(* tables at each of its statements: from the statement that creates the   *)
(* run until the last SELECT, its transaction keeps the cluster there, and *)
(* the rows of a cluster that is there only get newer.  The last two are   *)
(* what makes EveryRequestAnswered true of a thread that keeps running.    *)
(***************************************************************************)
EXTENDS AnalysisRunProofs, FiniteSetTheorems, WellFoundedInduction

-----------------------------------------------------------------------------
(***************************************************************************)
(* The date of the data.                                                   *)
(***************************************************************************)

(* No two clusters share an id, and no row is newer than the clock.        *)
Registered ==
  /\ \A c, d \in Clusters : clusters[c] = clusters[d] /\ clusters[c] # 0 => c = d
  /\ Dialect # "sqlite" => \A c \in Clusters : clusters[c] <= issuedClusters
  /\ \A c \in Clusters, k \in Cells :
       stamp[c][k] <= clock /\ (clusters[c] = 0 => stamp[c][k] = 0)

(* The rows the run has its date from are still that new, or the cluster   *)
(* was deleted, and all that was collected of it again is newer.           *)
AsNew(q) ==
  \/ \A k \in newest[q] : StampOf(q, k) >= asOf[q]
  \/ \A k \in Cells : StampOf(q, k) = 0 \/ StampOf(q, k) >= asOf[q]

(* A row the run is to load or has loaded is that new.                     *)
LoadsAsNew(q) ==
  newest[q] \intersect ToLoad(q) # {} =>
    \E k \in ToLoad(q) : /\ StampOf(q, k) >= asOf[q]
                        /\ \A x \in seen[q] : x.cell = k => x.stamp >= asOf[q]

(* The allocations of a workload are the last of its rows to be read.      *)
AllRead(q) ==
  \A k \in ToLoad(q) : IsLoaded(q, k.uid) => HasRead(q, k)

Loading(q) == pc[q] \in {"list", "load"}

Dated(q) ==
  /\ asOf[q] <= clock
  /\ pc[q] \in {"create", "list", "load"} => clusterId[q] # 0
  /\ Loading(q) => inTx[q] /\ Named(clusterId[q]) # {}
  /\ pc[q] \in Early \union {"list"} => seen[q] = {}
  /\ pc[q] \in Early \union {"list", "load"} => left[q] = {}
  /\ AllRead(q)
  /\ pc[q] \in {"create", "list"} => AsNew(q)
  /\ pc[q] = "load" => LoadsAsNew(q)
  /\ Dialect = "sqlite" /\ pc[q] = "load" =>
       \A x \in seen[q] : x.stamp = StampOf(q, x.cell)
  /\ left[q] # {} /\ newest[q] \intersect ToLoad(q) # {} =>
       \E x \in seen[q] : x.stamp >= asOf[q]

DatesInv == Registered /\ \A q \in Requests : Dated(q)

(* The one cluster of an id has the stamps that are read under it.         *)
LEMMA ChosenStamp ==
  ASSUME NEW names \in [Clusters -> Nat], NEW stamps, NEW id, NEW t, NEW c \in Clusters,
         names[c] = id, \A d \in Clusters : names[d] = id => d = c
  PROVE  LET named == {d \in Clusters : names[d] = id} IN
         /\ named # {}
         /\ (IF named = {} THEN 0 ELSE stamps[CHOOSE d \in named : TRUE][t]) = stamps[c][t]
<1> DEFINE named == {d \in Clusters : names[d] = id}
<1>1. named = {c}
  OBVIOUS
<1>2. (CHOOSE d \in named : TRUE) = c
  BY <1>1
<1> HIDE DEF named
<1> QED BY <1>1, <1>2 DEF named

LEMMA StampIs ==
  ASSUME TypeOK, Registered, NEW q \in Requests, NEW t \in Cells, NEW c \in Clusters,
         clusters[c] = clusterId[q], clusterId[q] # 0
  PROVE  StampOf(q, t) = stamp[c][t] /\ Named(clusterId[q]) # {}
<1>1. clusters \in [Clusters -> Nat]
  BY DEF TypeOK
<1>2. \A d \in Clusters : clusters[d] = clusterId[q] => d = c
  BY DEF Registered
<1> QED BY <1>1, <1>2, ChosenStamp DEF StampOf, Named

LEMMA StampIsNext ==
  ASSUME TypeOK', Registered', NEW q \in Requests, NEW t \in Cells, NEW c \in Clusters,
         clusters'[c] = clusterId'[q], clusterId'[q] # 0
  PROVE  StampOf(q, t)' = stamp'[c][t] /\ Named(clusterId[q])' # {}
<1>1. clusters' \in [Clusters -> Nat]
  BY DEF TypeOK
<1>2. \A d \in Clusters : clusters'[d] = clusterId'[q] => d = c
  BY DEF Registered
<1> QED BY <1>1, <1>2, ChosenStamp DEF StampOf, Named

LEMMA StampTypes ==
  ASSUME TypeOK, NEW q \in Requests, NEW t \in Cells
  PROVE  StampOf(q, t) \in Nat /\ asOf[q] \in Nat /\ clock \in Nat
BY StampOfType DEF TypeOK, Stamps

LEMMA StampIsPast ==
  ASSUME TypeOK, Registered, NEW q \in Requests, NEW t \in Cells
  PROVE  StampOf(q, t) <= clock
BY StampOfType, BoundsAssumption DEF StampOf, Named, TypeOK, Stamps, Registered

(* What a thread is to load and has loaded is its own.                     *)
LEMMA OwnLoad ==
  ASSUME NEW q \in Requests, uids'[q] = uids[q]
  PROVE  /\ ToLoad(q)' = ToLoad(q)
         /\ seen'[q] = seen[q] => /\ \A k : HasRead(q, k)' = HasRead(q, k)
                                 /\ AllRead(q)' = AllRead(q)
<1>1. ToLoad(q)' = ToLoad(q)
  BY DEF ToLoad
<1>2. ASSUME seen'[q] = seen[q] PROVE \A k : HasRead(q, k)' = HasRead(q, k)
  BY <1>2 DEF HasRead
<1> QED BY <1>1, <1>2 DEF AllRead, IsLoaded

(* What the others do to the tables leaves a thread what it relies on.     *)
LEMMA DatedKept ==
  ASSUME TypeInv, TypeInv', NEW q \in Requests, Dated(q),
         pc'[q] = pc[q], inTx'[q] = inTx[q], clusterId'[q] = clusterId[q],
         asOf'[q] = asOf[q], newest'[q] = newest[q], uids'[q] = uids[q],
         seen'[q] = seen[q], left'[q] = left[q], clock <= clock',
         Loading(q) => Named(clusterId[q])' # {},
         Loading(q) /\ Dialect = "sqlite" =>
           \A t \in Cells : StampOf(q, t)' = StampOf(q, t),
         pc[q] \in {"create", "list", "load"} =>
           \/ \A t \in Cells : StampOf(q, t)' \in {StampOf(q, t), clock'}
           \/ ~ Loading(q) /\ \A t \in Cells : StampOf(q, t)' = 0
  PROVE  Dated(q)'
<1>1. /\ asOf[q] \in Nat /\ clock \in Nat /\ clock' \in Nat
      /\ \A t \in Cells : StampOf(q, t) \in Nat
      /\ newest[q] \subseteq Cells /\ ToLoad(q) \subseteq Cells
  BY StampTypes DEF TypeInv, TypeOK, Stamps, ToLoad
<1>2. /\ ToLoad(q)' = ToLoad(q) /\ AllRead(q)' = AllRead(q)
  BY OwnLoad
<1>3. asOf[q] <= clock /\ asOf[q] <= clock'
  BY <1>1 DEF Dated
<1>4. (pc[q] \in {"create", "list"} => AsNew(q))'
  BY <1>1, <1>3 DEF Dated, AsNew, Loading
<1>5. (pc[q] = "load" => LoadsAsNew(q))'
  <2>1. CASE pc[q] = "load" /\ newest[q] \intersect ToLoad(q) # {}
    <3>1. PICK k \in ToLoad(q) : /\ StampOf(q, k) >= asOf[q]
                                /\ \A x \in seen[q] : x.cell = k => x.stamp >= asOf[q]
      BY <2>1 DEF Dated, LoadsAsNew
    <3>2. StampOf(q, k)' >= asOf[q]
      BY <1>1, <1>3, <2>1, <3>1 DEF Loading
    <3> QED BY <1>2, <3>1, <3>2 DEF LoadsAsNew
  <2>2. CASE ~ (pc[q] = "load" /\ newest[q] \intersect ToLoad(q) # {})
    BY <1>2, <2>2 DEF LoadsAsNew
  <2> QED BY <2>1, <2>2
<1>6. (Dialect = "sqlite" /\ pc[q] = "load" =>
         \A x \in seen[q] : x.stamp = StampOf(q, x.cell))'
  <2>1. \A x \in seen[q] : x.cell \in Cells
    BY DEF TypeInv, TypeOK, Reads
  <2> QED BY <2>1 DEF Dated, Loading
<1> QED BY <1>1, <1>2, <1>3, <1>4, <1>5, <1>6 DEF Dated, Loading

(* A thread that is past its SELECTs relies on what it has read.           *)
LEMMA DatedLater ==
  ASSUME NEW q \in Requests, Dated(q), clock' = clock,
         pc'[q] \notin Early \union {"list", "load"},
         asOf'[q] = asOf[q], newest'[q] = newest[q], uids'[q] = uids[q],
         seen'[q] = seen[q], left'[q] \subseteq left[q]
  PROVE  Dated(q)'
<1>1. ToLoad(q)' = ToLoad(q) /\ AllRead(q)' = AllRead(q)
  BY OwnLoad
<1> QED BY <1>1 DEF Dated, Loading, Early

(* The tables do not move. *)
LEMMA Still ==
  ASSUME UNCHANGED <<clusters, stamp>>, NEW q \in Requests, clusterId'[q] = clusterId[q]
  PROVE  /\ \A t : StampOf(q, t)' = StampOf(q, t)
         /\ Named(clusterId[q])' = Named(clusterId[q])
BY DEF StampOf, Named

(* So a step of one thread concerns only that thread. *)
LEMMA DatedOthers ==
  ASSUME TypeInv, TypeInv', DatesInv, UNCHANGED <<clusters, issuedClusters, stamp, clock>>,
         NEW p \in Requests, Dated(p)',
         \A q \in Requests \ {p} :
           /\ pc'[q] = pc[q] /\ inTx'[q] = inTx[q] /\ clusterId'[q] = clusterId[q]
           /\ asOf'[q] = asOf[q] /\ newest'[q] = newest[q] /\ uids'[q] = uids[q]
           /\ seen'[q] = seen[q] /\ left'[q] = left[q]
  PROVE  DatesInv'
<1>1. Registered'
  BY DEF DatesInv, Registered
<1>2. ASSUME NEW q \in Requests \ {p} PROVE Dated(q)'
  <2>1. /\ \A t : StampOf(q, t)' = StampOf(q, t)
        /\ Named(clusterId[q])' = Named(clusterId[q])
    BY Still
  <2>2. clock <= clock' /\ Dated(q)
    BY DEF TypeInv, TypeOK, Stamps, DatesInv
  <2>3. Loading(q) => Named(clusterId[q])' # {}
    BY <2>1, <2>2 DEF Dated
  <2>4. /\ pc'[q] = pc[q] /\ inTx'[q] = inTx[q] /\ clusterId'[q] = clusterId[q]
        /\ asOf'[q] = asOf[q] /\ newest'[q] = newest[q] /\ uids'[q] = uids[q]
        /\ seen'[q] = seen[q] /\ left'[q] = left[q]
    BY <1>2
  <2>5. \A t \in Cells : StampOf(q, t)' = StampOf(q, t)
    BY <2>1
  <2> QED BY <2>2, <2>3, <2>4, <2>5, DatedKept
<1> QED BY <1>1, <1>2 DEF DatesInv

-----------------------------------------------------------------------------
(***************************************************************************)
(* Every step keeps the dates.                                             *)
(***************************************************************************)

LEMMA DatesInit == Init => DatesInv
<1> SUFFICES ASSUME Init PROVE DatesInv
  OBVIOUS
<1>1. Registered
  BY BoundsAssumption DEF Init, Registered, Clusters
<1>2. ASSUME NEW q \in Requests PROVE Dated(q)
  <2>1. AllRead(q)
    BY DEF Init, AllRead, IsLoaded, HasRead
  <2> QED BY <2>1 DEF Init, Dated, Loading
<1> QED BY <1>1, <1>2 DEF DatesInv

(* Before its transaction a thread learns the cluster and the date.        *)
LEMMA DatesEarly ==
  ASSUME TypeInv, TypeInv', DatesInv, NEW p \in Requests,
         ResolveCluster(p) \/ ReadAsOf(p) \/ Reject(p) \/ CreateRun(p)
  PROVE  DatesInv'
<1> USE DEF TypeInv
<1>1. /\ UNCHANGED <<clusters, issuedClusters, stamp, clock, uids, seen, left>>
      /\ \A q \in Requests \ {p} :
           /\ pc'[q] = pc[q] /\ inTx'[q] = inTx[q] /\ clusterId'[q] = clusterId[q]
           /\ asOf'[q] = asOf[q] /\ newest'[q] = newest[q]
  BY DEF ResolveCluster, ReadAsOf, Reject, CreateRun, BeginTx, TypeOK, collected,
         issued, connection, thread
<1>2. Dated(p) /\ Registered
  BY DEF DatesInv
<1>3. ToLoad(p)' = ToLoad(p) /\ AllRead(p)' = AllRead(p)
  BY <1>1, OwnLoad
<1>4. pc[p] \in Early /\ seen[p] = {} /\ left[p] = {}
  BY <1>2, RequestsAssumption
     DEF ResolveCluster, ReadAsOf, Reject, CreateRun, Early, Dated
<1>5. pc'[p] \in {"asof", "create", "rejected", "list"}
  BY DEF ResolveCluster, ReadAsOf, Reject, CreateRun, TypeOK
<1>6. /\ clock' = clock /\ clock \in Nat /\ asOf[p] \in Nat
      /\ \A t \in Cells : StampOf(p, t) \in Nat /\ StampOf(p, t) <= clock
  <2>1. TypeOK
    OBVIOUS
  <2>2. \A t \in Cells : StampOf(p, t) \in Nat /\ StampOf(p, t) <= clock
    BY <1>2, <2>1, StampTypes, StampIsPast
  <2> QED BY <1>1, <2>1, <2>2 DEF TypeOK, Stamps
<1>7. asOf'[p] <= clock'
  <2>1. CASE ReadAsOf(p)
    <3>1. PICK m \in {0} \union {StampOf(p, k) : k \in Cells} : asOf' = [asOf EXCEPT ![p] = m]
      BY <2>1 DEF ReadAsOf
    <3>2. m <= clock
      BY <1>6, <3>1
    <3> QED BY <1>6, <3>1, <3>2 DEF TypeOK
  <2> QED BY <1>1, <1>2, <1>6, <2>1 DEF ResolveCluster, Reject, CreateRun, thread, Dated
<1>8. (pc[p] \in {"create", "list", "load"} => clusterId[p] # 0)'
  BY <1>5 DEF StageOK, ResolveCluster, ReadAsOf, Reject, CreateRun, TypeOK, thread
<1>9. (Loading(p) => inTx[p] /\ Named(clusterId[p]) # {})'
  BY <1>1, <1>5 DEF Loading, ResolveCluster, ReadAsOf, Reject, CreateRun, BeginTx, TypeOK,
       thread, Named
<1>10. (pc[p] \in {"create", "list"} => AsNew(p))'
  <2>1. CASE ReadAsOf(p)
    <3>1. \A t : StampOf(p, t)' = StampOf(p, t)
      BY <1>1, <2>1, Still DEF ReadAsOf
    <3>2. \A k \in newest'[p] : k \in Cells /\ StampOf(p, k) = asOf'[p]
      BY <2>1 DEF ReadAsOf, TypeOK
    <3> QED BY <1>6, <3>1, <3>2 DEF AsNew
  <2>2. CASE CreateRun(p)
    <3>1. \A t : StampOf(p, t)' = StampOf(p, t)
      BY <1>1, <2>2, Still DEF CreateRun
    <3>2. asOf' = asOf /\ newest' = newest /\ AsNew(p)
      BY <1>2, <2>2 DEF CreateRun, Dated
    <3> QED BY <3>1, <3>2 DEF AsNew
  <2> QED BY <2>1, <2>2 DEF ResolveCluster, Reject, TypeOK
<1>11. Dated(p)'
  BY <1>1, <1>2, <1>3, <1>4, <1>5, <1>7, <1>8, <1>9, <1>10 DEF Dated, Loading
<1> QED BY <1>1, <1>11, DatedOthers

(* While it loads, it learns the workloads and a row at a time.            *)
LEMMA DatesList ==
  ASSUME TypeInv, TypeInv', DatesInv, NEW p \in Requests, ListUids(p)
  PROVE  DatesInv'
<1> USE DEF TypeInv
<1>1. /\ UNCHANGED <<clusters, issuedClusters, stamp, clock, seen, left, clusterId,
                     asOf, newest, inTx>>
      /\ pc[p] = "list" /\ pc'[p] = "load"
      /\ \A w \in uids'[p] : w \in Workloads /\ StampOf(p, AllocationsOf(w)) # 0
      /\ \A q \in Requests \ {p} : pc'[q] = pc[q] /\ uids'[q] = uids[q]
  BY RequestsAssumption DEF ListUids, TypeOK, collected, issued, connection
<1>2. Dated(p) /\ seen[p] = {} /\ left[p] = {} /\ AsNew(p)
  BY <1>1 DEF DatesInv, Dated
<1>3. /\ \A k : StampOf(p, k)' = StampOf(p, k)
      /\ Named(clusterId[p])' = Named(clusterId[p])
  BY <1>1, Still
<1>4. AllRead(p)'
  BY <1>1, <1>2 DEF AllRead, IsLoaded, HasRead
<1>5. LoadsAsNew(p)'
  <2> SUFFICES ASSUME NEW k \in newest[p], k \in ToLoad(p)'
               PROVE  \E j \in ToLoad(p)' : StampOf(p, j) >= asOf[p]
    BY <1>1, <1>2, <1>3 DEF LoadsAsNew
  <2>1. k \in Cells /\ k.uid \in uids'[p] /\ k.uid \in Workloads
    BY <1>1 DEF ToLoad
  <2>2. AllocationsOf(k.uid) \in ToLoad(p)' /\ AllocationsOf(k.uid) \in Cells
    BY <2>1 DEF ToLoad, AllocationsOf, Cells
  <2>3. CASE \A j \in newest[p] : StampOf(p, j) >= asOf[p]
    BY <2>3
  <2>4. CASE \A j \in Cells : StampOf(p, j) = 0 \/ StampOf(p, j) >= asOf[p]
    BY <1>1, <2>1, <2>2, <2>4
  <2> QED BY <1>2, <2>3, <2>4 DEF AsNew
<1>6. Dated(p)'
  BY <1>1, <1>2, <1>3, <1>4, <1>5 DEF Dated, Loading, Early
<1> QED BY <1>1, <1>6, DatedOthers

LEMMA DatesLoad ==
  ASSUME TypeInv, TypeInv', DatesInv, NEW p \in Requests, NEW k \in Cells,
         LoadWorkload(p, k)
  PROVE  DatesInv'
<1> USE DEF TypeInv
<1> DEFINE new == [cell |-> k, stamp |-> StampOf(p, k)]
<1>1. /\ UNCHANGED <<clusters, issuedClusters, stamp, clock, left, clusterId,
                     asOf, newest, inTx, uids, pc>>
      /\ pc[p] = "load" /\ k \in ToLoad(p)
      /\ seen'[p] = seen[p] \union {new}
      /\ \A q \in Requests \ {p} : seen'[q] = seen[q]
      /\ k.kind = "allocations" =>
           \A j \in ToLoad(p) : j.uid = k.uid => j = k \/ HasRead(p, j)
  BY DEF LoadWorkload, TypeOK, collected, issued, connection
<1>2. Dated(p) /\ left[p] = {}
  BY <1>1 DEF DatesInv, Dated
<1>3. /\ \A j : StampOf(p, j)' = StampOf(p, j)
      /\ Named(clusterId[p])' = Named(clusterId[p])
  BY <1>1, Still
<1>4. new.cell = k /\ new.stamp = StampOf(p, k)
  OBVIOUS
<1> HIDE DEF new
<1>5. \A j : HasRead(p, j)' <=> HasRead(p, j) \/ j = k
  BY <1>1, <1>4 DEF HasRead
<1>6. ToLoad(p)' = ToLoad(p)
  BY <1>1, OwnLoad
<1>7. AllRead(p)'
  <2> SUFFICES ASSUME NEW j \in ToLoad(p), IsLoaded(p, j.uid)'
               PROVE  HasRead(p, j)'
    BY <1>6 DEF AllRead
  <2>1. CASE IsLoaded(p, j.uid)
    BY <1>2, <1>5, <2>1 DEF Dated, AllRead
  <2>2. CASE ~ IsLoaded(p, j.uid)
    <3>1. k = AllocationsOf(j.uid)
      BY <1>5, <2>2 DEF IsLoaded
    <3>2. k.kind = "allocations" /\ k.uid = j.uid
      BY <3>1 DEF AllocationsOf
    <3> QED BY <1>1, <1>5, <3>2
  <2> QED BY <2>1, <2>2
<1>8. LoadsAsNew(p)'
  BY <1>1, <1>2, <1>3, <1>4, <1>6 DEF Dated, LoadsAsNew
<1>9. (Dialect = "sqlite" /\ pc[p] = "load" =>
         \A x \in seen[p] : x.stamp = StampOf(p, x.cell))'
  BY <1>1, <1>2, <1>3, <1>4 DEF Dated
<1>10. Dated(p)'
  BY <1>1, <1>2, <1>3, <1>7, <1>8, <1>9 DEF Dated, Loading, Early
<1> QED BY <1>1, <1>10, DatedOthers

(* When it clusters, it has read all it is to load.                        *)
LEMMA DatesCluster ==
  ASSUME TypeInv, TypeInv', DatesInv, NEW p \in Requests, ClusterWorkloads(p)
  PROVE  DatesInv'
<1> USE DEF TypeInv
<1>1. /\ UNCHANGED <<clusters, issuedClusters, stamp, clock, seen, clusterId,
                     asOf, newest, inTx, uids>>
      /\ pc[p] = "load" /\ pc'[p] = "process"
      /\ \A v \in uids[p] : IsLoaded(p, v)
      /\ \A q \in Requests \ {p} : pc'[q] = pc[q] /\ left'[q] = left[q]
  BY DEF ClusterWorkloads, TypeOK, collected, issued, connection
<1>2. Dated(p)
  BY DEF DatesInv
<1>3. ToLoad(p)' = ToLoad(p) /\ AllRead(p)' = AllRead(p)
  BY <1>1, OwnLoad
<1>4. newest[p] \intersect ToLoad(p) # {} => \E x \in seen[p] : x.stamp >= asOf[p]
  <2> SUFFICES ASSUME newest[p] \intersect ToLoad(p) # {}
               PROVE  \E x \in seen[p] : x.stamp >= asOf[p]
    OBVIOUS
  <2>1. PICK k \in ToLoad(p) : \A x \in seen[p] : x.cell = k => x.stamp >= asOf[p]
    BY <1>1, <1>2 DEF Dated, LoadsAsNew
  <2>2. HasRead(p, k)
    BY <1>1, <1>2 DEF Dated, AllRead, ToLoad
  <2> QED BY <2>1, <2>2 DEF HasRead
<1>5. Dated(p)'
  BY <1>1, <1>2, <1>3, <1>4 DEF Dated, Loading, Early
<1> QED BY <1>1, <1>5, DatedOthers

(* After the load a thread no longer looks at what was collected.          *)
LEMMA DatesLate ==
  ASSUME TypeInv, TypeInv', DatesInv, NEW p \in Requests,
         \/ BeginGroup(p) \/ (\E w \in Workloads : WriteRecommendation(p, w))
         \/ CompleteRun(p) \/ ComputeFails(p) \/ StatementFails(p)
         \/ RecordFailure(p) \/ LoseFailure(p) \/ DatabaseFails(p) \/ Answer(p)
  PROVE  DatesInv'
<1> USE DEF TypeInv
<1>1. /\ UNCHANGED <<clusters, issuedClusters, stamp, clock, seen, clusterId, asOf,
                     newest, uids>>
      /\ \A q \in Requests \ {p} :
           pc'[q] = pc[q] /\ left'[q] = left[q] /\ inTx'[q] = inTx[q]
  BY DEF BeginGroup, WriteRecommendation, CompleteRun, ComputeFails, StatementFails,
         RecordFailure, LoseFailure, DatabaseFails, Answer, FinishRun, BeginTx, EndTx, TypeOK,
         collected, issued, connection, thread
<1>2. pc'[p] \notin Early \union {"list", "load"}
  BY DEF BeginGroup, WriteRecommendation, CompleteRun, ComputeFails, StatementFails,
         RecordFailure, LoseFailure, DatabaseFails, Answer, FinishRun, TypeOK, Early
<1>3. left'[p] \subseteq left[p]
  BY DEF BeginGroup, WriteRecommendation, CompleteRun, ComputeFails, StatementFails,
         RecordFailure, LoseFailure, DatabaseFails, Answer, FinishRun, TypeOK, thread
<1>4. Dated(p)'
  BY <1>1, <1>2, <1>3, DatedLater DEF DatesInv
<1> QED BY <1>1, <1>4, DatedOthers

LEMMA DatesCrash ==
  ASSUME TypeInv, TypeInv', DatesInv, Crash
  PROVE  DatesInv'
<1>1. UNCHANGED <<clusters, issuedClusters, stamp, clock, thread>>
  BY DEF Crash, collected, issued
<1>2. Registered'
  BY <1>1 DEF DatesInv, Registered
<1>3. ASSUME NEW q \in Requests PROVE Dated(q)'
  <2>1. CASE pc[q] \in Active
    <3>1. pc'[q] = "dead"
      BY <2>1 DEF Crash
    <3> QED BY <1>1, <3>1, DatedLater DEF DatesInv, thread, Early
  <2>2. CASE pc[q] \notin Active
    <3>1. pc'[q] = pc[q]
      BY <2>2 DEF Crash
    <3>2. pc[q] \notin {"create", "list", "load"}
      BY <2>2 DEF Active, Statements
    <3>3. ToLoad(q)' = ToLoad(q) /\ AllRead(q)' = AllRead(q)
      BY <1>1, OwnLoad DEF thread
    <3> QED BY <1>1, <3>1, <3>2, <3>3 DEF DatesInv, Dated, Loading, thread
  <2> QED BY <2>1, <2>2
<1> QED BY <1>2, <1>3 DEF DatesInv

(* A name that is made again gets an id and no rows.                       *)
LEMMA DatesEnsure ==
  ASSUME TypeInv, TypeInv', DatesInv, NEW p \in Requests, EnsureCluster(p)
  PROVE  DatesInv'
<1> DEFINE c == ClusterOf[p]
<1> DEFINE ids == {clusters[d] : d \in Clusters} \ {0}
<1>1. /\ UNCHANGED <<stamp, clock, seen, clusterId, asOf, newest, uids, left, inTx>>
      /\ c \in Clusters /\ pc[p] = "idle" /\ pc'[p] = "resolve" /\ MayWrite(p)
      /\ \A q \in Requests \ {p} : pc'[q] = pc[q]
  BY RequestsAssumption DEF EnsureCluster, TypeInv, TypeOK, collected, connection, thread
<1>2. TypeOK /\ Registered /\ \A q \in Requests : Dated(q)
  BY DEF DatesInv, TypeInv
<1>3. CASE clusters[c] # 0
  <2>1. UNCHANGED <<clusters, issuedClusters>>
    BY <1>3 DEF EnsureCluster
  <2>2. ToLoad(p)' = ToLoad(p) /\ AllRead(p)' = AllRead(p)
    BY <1>1, OwnLoad
  <2>3. Dated(p)'
    BY <1>1, <1>2, <2>2 DEF Dated, Loading, Early
  <2> QED BY <1>1, <2>1, <2>3, DatedOthers
<1>4. CASE clusters[c] = 0
  <2>1. PICK id \in NextId(ids, issuedClusters) :
          /\ clusters' = [clusters EXCEPT ![c] = id]
          /\ issuedClusters' = IF Dialect = "postgres" THEN id ELSE issuedClusters
    BY <1>4 DEF EnsureCluster
  <2>2. ids \in SUBSET Nat /\ issuedClusters \in Nat
    BY <1>2 DEF TypeOK
  <2> HIDE DEF c
  <2>3. /\ id \in Nat \ {0}
        /\ \A d \in Clusters : clusters[d] # id
        /\ Dialect # "sqlite" => id = issuedClusters + 1 /\ issuedClusters' = id
    <3>1. /\ id \in Nat \ {0}
          /\ Dialect = "sqlite" => \A i \in ids : i < id
          /\ Dialect # "sqlite" => id = issuedClusters + 1
      BY <2>2, NextIdFresh
    <3>2. \A d \in Clusters : clusters[d] \in Nat
      BY <1>2 DEF TypeOK
    <3>3. CASE Dialect = "sqlite"
      BY <3>1, <3>2, <3>3
    <3>4. CASE Dialect # "sqlite"
      BY <1>2, <2>1, <2>2, <3>1, <3>2, <3>4, DialectAssumption DEF Registered
    <3> QED BY <3>3, <3>4
  <2>4. /\ clusters'[c] = id
        /\ \A d \in Clusters \ {c} : clusters'[d] = clusters[d]
    BY <1>1, <1>2, <2>1 DEF TypeOK
  <2>5. Registered'
    <3>1. \A d, e \in Clusters : (clusters[d] = clusters[e] /\ clusters[d] # 0 => d = e)'
      BY <1>2, <2>3, <2>4 DEF Registered
    <3>2. Dialect # "sqlite" => \A d \in Clusters : clusters'[d] <= issuedClusters'
      <4>1. \A d \in Clusters : clusters[d] \in Nat
        BY <1>2 DEF TypeOK
      <4>2. Dialect # "sqlite" => \A d \in Clusters : clusters[d] <= issuedClusters
        BY <1>2 DEF Registered
      <4> QED BY <2>2, <2>3, <2>4, <4>1, <4>2
    <3>3. \A d \in Clusters, t \in Cells :
            stamp'[d][t] <= clock' /\ (clusters'[d] = 0 => stamp'[d][t] = 0)
      BY <1>1, <1>2, <2>3, <2>4 DEF Registered
    <3> QED BY <3>1, <3>2, <3>3 DEF Registered
  <2>6. ASSUME NEW q \in Requests, NEW t \in Cells, clusterId[q] # 0
        PROVE  /\ StampOf(q, t)' = StampOf(q, t)
               /\ Named(clusterId[q]) # {} => Named(clusterId[q])' # {}
    <3>1. CASE clusterId[q] = id
      <4>1. StampOf(q, t)' = stamp'[c][t]
        BY <1>1, <2>4, <2>5, <2>6, <3>1, StampIsNext DEF TypeInv
      <4>2. Named(clusterId[q]) = {}
        BY <2>3, <3>1 DEF Named
      <4> QED BY <1>1, <1>2, <1>4, <4>1, <4>2 DEF StampOf, Registered
    <3>2. CASE clusterId[q] # id
      <4>1. \A d \in Clusters : clusters'[d] = clusterId[q] <=> clusters[d] = clusterId[q]
        BY <1>4, <2>4, <2>6, <3>2
      <4>2. Named(clusterId[q])' = Named(clusterId[q])
        BY <1>1, <4>1 DEF Named
      <4> QED BY <1>1, <4>2 DEF StampOf
    <3> QED BY <3>1, <3>2
  <2>7. ASSUME NEW q \in Requests PROVE Dated(q)'
    <3>1. CASE q = p
      <4>1. ToLoad(p)' = ToLoad(p) /\ AllRead(p)' = AllRead(p)
        BY <1>1, OwnLoad
      <4> QED BY <1>1, <1>2, <3>1, <4>1 DEF Dated, Loading, Early
    <3>2. CASE q # p
      <4>1. pc[q] \in {"create", "list", "load"} =>
              /\ \A t \in Cells : StampOf(q, t)' = StampOf(q, t)
              /\ Named(clusterId[q]) # {} => Named(clusterId[q])' # {}
        <5>1. pc[q] \in {"create", "list", "load"} => clusterId[q] # 0
          BY <1>2 DEF Dated
        <5>2. clusterId[q] # 0 /\ Named(clusterId[q]) # {} => Named(clusterId[q])' # {}
          BY <1>1, <1>4, <2>4 DEF Named
        <5> QED BY <2>6, <5>1, <5>2
      <4>2. clock <= clock' /\ pc'[q] = pc[q] /\ Dated(q)
        BY <1>1, <1>2, <3>2 DEF TypeOK, Stamps
      <4>3. Loading(q) => Named(clusterId[q])' # {}
        BY <1>2, <4>1 DEF Dated, Loading
      <4> QED BY <1>1, <4>1, <4>2, <4>3, DatedKept DEF Loading
    <3> QED BY <3>1, <3>2
  <2> QED BY <2>5, <2>7 DEF DatesInv
<1> QED BY <1>3, <1>4

(* A deleted cluster takes its rows with it, unless a transaction keeps it.*)
LEMMA DatesDelete ==
  ASSUME TypeInv, TypeInv', DatesInv, NEW c \in Clusters, DeleteCluster(c)
  PROVE  DatesInv'
<1>1. /\ UNCHANGED <<issuedClusters, clock, seen, clusterId, asOf, newest, uids, left,
                     inTx, pc>>
      /\ clusters[c] # 0 /\ clusters'[c] = 0
      /\ \A d \in Clusters \ {c} : clusters'[d] = clusters[d] /\ stamp'[d] = stamp[d]
      /\ \A t \in Cells : stamp'[c][t] = 0
      /\ \A q \in Requests : inTx[q] => Dialect = "postgres" /\ clusterId[q] # clusters[c]
  BY DEF DeleteCluster, TypeInv, TypeOK, issued, connection, thread
<1>2. TypeOK /\ Registered /\ \A q \in Requests : Dated(q)
  BY DEF DatesInv, TypeInv
<1>3. Registered'
  <2>1. \A d, e \in Clusters : (clusters[d] = clusters[e] /\ clusters[d] # 0 => d = e)'
    BY <1>1, <1>2 DEF Registered
  <2>2. Dialect # "sqlite" => \A d \in Clusters : clusters'[d] <= issuedClusters'
    <3>1. Dialect # "sqlite" => \A d \in Clusters : clusters[d] <= issuedClusters
      BY <1>2 DEF Registered
    <3>2. issuedClusters \in Nat
      BY <1>2 DEF TypeOK
    <3> QED BY <1>1, <3>1, <3>2
  <2>3. \A d \in Clusters, t \in Cells :
          stamp'[d][t] <= clock' /\ (clusters'[d] = 0 => stamp'[d][t] = 0)
    <3> SUFFICES ASSUME NEW d \in Clusters, NEW t \in Cells
                 PROVE  stamp'[d][t] <= clock' /\ (clusters'[d] = 0 => stamp'[d][t] = 0)
      OBVIOUS
    <3>1. clock \in Nat /\ clock' = clock
      BY <1>1, <1>2, BoundsAssumption DEF TypeOK, Stamps
    <3>2. CASE d = c
      BY <1>1, <3>1, <3>2
    <3>3. CASE d # c
      <4>1. stamp[d][t] <= clock /\ (clusters[d] = 0 => stamp[d][t] = 0)
        BY <1>2 DEF Registered
      <4>2. clusters'[d] = clusters[d] /\ stamp'[d] = stamp[d]
        BY <1>1, <3>3
      <4> QED BY <3>1, <4>1, <4>2
    <3> QED BY <3>2, <3>3
  <2> QED BY <2>1, <2>2, <2>3 DEF Registered
<1>4. ASSUME NEW q \in Requests, clusterId[q] # 0
      PROVE  /\ clusterId[q] # clusters[c] =>
                  /\ Named(clusterId[q])' = Named(clusterId[q])
                  /\ \A t \in Cells : StampOf(q, t)' = StampOf(q, t)
             /\ clusterId[q] = clusters[c] => \A t \in Cells : StampOf(q, t)' = 0
  <2>1. CASE clusterId[q] # clusters[c]
    <3>1. Named(clusterId[q])' = Named(clusterId[q]) /\ c \notin Named(clusterId[q])
      BY <1>1, <1>4, <2>1 DEF Named
    <3>2. CASE Named(clusterId[q]) = {}
      BY <2>1, <3>1, <3>2 DEF StampOf
    <3>3. CASE Named(clusterId[q]) # {}
      <4>1. (CHOOSE d \in Named(clusterId[q]) : TRUE) \in Clusters \ {c}
        BY <3>1, <3>3 DEF Named
      <4>2. \A t \in Cells : StampOf(q, t)' = stamp'[CHOOSE d \in Named(clusterId[q]) : TRUE][t]
        BY <3>1, <3>3 DEF StampOf
      <4> QED BY <1>1, <2>1, <3>1, <3>3, <4>1, <4>2 DEF StampOf
    <3> QED BY <3>2, <3>3
  <2>2. CASE clusterId[q] = clusters[c]
    <3>1. Named(clusterId[q])' = {}
      BY <1>1, <1>2, <1>4, <2>2 DEF Named, Registered
    <3> QED BY <2>2, <3>1 DEF StampOf
  <2> QED BY <2>1, <2>2
<1>5. ASSUME NEW q \in Requests PROVE Dated(q)'
  <2>1. Loading(q) => Dialect # "sqlite" /\ clusterId[q] # clusters[c] /\ clusterId[q] # 0
                      /\ Named(clusterId[q]) # {}
    BY <1>1, <1>2 DEF Dated, Loading
  <2>2. Loading(q) => Named(clusterId[q])' # {}
    BY <1>4, <2>1
  <2>3. Loading(q) /\ Dialect = "sqlite" => \A t \in Cells : StampOf(q, t)' = StampOf(q, t)
    BY <2>1
  <2>4. pc[q] \in {"create", "list", "load"} =>
          \/ \A t \in Cells : StampOf(q, t)' \in {StampOf(q, t), clock'}
          \/ ~ Loading(q) /\ \A t \in Cells : StampOf(q, t)' = 0
    BY <1>2, <1>4, <2>1 DEF Dated
  <2>5. clock <= clock' /\ Dated(q)
    BY <1>1, <1>2 DEF TypeOK, Stamps
  <2> QED BY <1>1, <2>2, <2>3, <2>4, <2>5, DatedKept
<1> QED BY <1>3, <1>5 DEF DatesInv

(* The collector's rows are as new as any.                                 *)
LEMMA DatesCollect ==
  ASSUME TypeInv, TypeInv', DatesInv, NEW c \in Clusters, NEW W, NEW kinds,
         CollectorCommits(c, W, kinds)
  PROVE  DatesInv'
<1>1. /\ UNCHANGED <<clusters, issuedClusters, seen, clusterId, asOf, newest, uids, left,
                     inTx, pc>>
      /\ clusters[c] # 0 /\ clock' = clock + 1
      /\ \A d \in Clusters, s \in Cells : stamp'[d][s] \in {stamp[d][s], clock + 1}
      /\ \A d \in Clusters \ {c} : stamp'[d] = stamp[d]
      /\ Dialect = "sqlite" => \A q \in Requests : ~ inTx[q]
  BY DEF CollectorCommits, TypeInv, TypeOK, issued, connection, thread
<1>2. TypeOK /\ Registered /\ \A q \in Requests : Dated(q)
  BY DEF DatesInv, TypeInv
<1>3. Registered'
  <2>1. \A d \in Clusters, s \in Cells : stamp'[d][s] <= clock'
    <3>1. clock \in Nat /\ \A d \in Clusters, s \in Cells : stamp[d][s] \in Nat
      BY <1>2 DEF TypeOK, Stamps
    <3>2. \A d \in Clusters, s \in Cells : stamp[d][s] <= clock
      BY <1>2 DEF Registered
    <3> QED BY <1>1, <3>1, <3>2
  <2>2. \A d \in Clusters, s \in Cells : clusters'[d] = 0 => stamp'[d][s] = 0
    BY <1>1, <1>2 DEF Registered
  <2> QED BY <1>1, <1>2, <2>1, <2>2 DEF Registered
<1>4. ASSUME NEW q \in Requests
      PROVE  /\ Named(clusterId[q])' = Named(clusterId[q])
             /\ \A s \in Cells : StampOf(q, s)' \in {StampOf(q, s), clock'}
  <2>1. Named(clusterId[q])' = Named(clusterId[q])
    BY <1>1 DEF Named
  <2>2. CASE Named(clusterId[q]) = {}
    BY <2>1, <2>2 DEF StampOf
  <2>3. CASE Named(clusterId[q]) # {}
    <3>1. (CHOOSE d \in Named(clusterId[q]) : TRUE) \in Clusters
      BY <2>3 DEF Named
    <3>2. \A s \in Cells : StampOf(q, s)' = stamp'[CHOOSE d \in Named(clusterId[q]) : TRUE][s]
      BY <2>1, <2>3 DEF StampOf
    <3> QED BY <1>1, <2>1, <2>3, <3>1, <3>2 DEF StampOf
  <2> QED BY <2>2, <2>3, <2>1
<1>5. ASSUME NEW q \in Requests PROVE Dated(q)'
  <2>1. Loading(q) => Dialect # "sqlite" /\ Named(clusterId[q])' # {}
    BY <1>1, <1>2, <1>4 DEF Dated, Loading
  <2>2. clock <= clock' /\ Dated(q)
    BY <1>1, <1>2 DEF TypeOK, Stamps
  <2> QED BY <1>1, <1>4, <2>1, <2>2, DatedKept
<1> QED BY <1>3, <1>5 DEF DatesInv

LEMMA DatesStep == TypeInv /\ DatesInv /\ [Next]_vars => DatesInv'
<1> SUFFICES ASSUME TypeInv, DatesInv, [Next]_vars PROVE DatesInv'
  OBVIOUS
<1>1. TypeInv'
  BY TypeStep
<1>2. CASE UNCHANGED vars
  <2>1. Registered'
    BY <1>2 DEF DatesInv, Registered, vars, collected, issued
  <2>2. ASSUME NEW q \in Requests PROVE Dated(q)'
    <3>1. /\ \A t : StampOf(q, t)' = StampOf(q, t)
          /\ Named(clusterId[q])' = Named(clusterId[q])
          /\ ToLoad(q)' = ToLoad(q) /\ AllRead(q)' = AllRead(q)
      BY <1>2, Still, OwnLoad DEF vars, collected, thread
    <3>2. Dated(q)
      BY DEF DatesInv
    <3> QED BY <1>2, <3>1, <3>2
            DEF Dated, Loading, AsNew, LoadsAsNew, vars, collected, thread, connection
  <2> QED BY <2>1, <2>2 DEF DatesInv
<1>3. ASSUME NEW q \in Requests, EnsureCluster(q) PROVE DatesInv'
  BY <1>1, <1>3, DatesEnsure
<1>4. ASSUME NEW q \in Requests,
             ResolveCluster(q) \/ ReadAsOf(q) \/ Reject(q) \/ CreateRun(q)
      PROVE  DatesInv'
  BY <1>1, <1>4, DatesEarly
<1>5. ASSUME NEW q \in Requests, ListUids(q) PROVE DatesInv'
  BY <1>1, <1>5, DatesList
<1>6. ASSUME NEW q \in Requests, NEW k \in Cells, LoadWorkload(q, k)
      PROVE  DatesInv'
  BY <1>1, <1>6, DatesLoad
<1>7. ASSUME NEW q \in Requests, ClusterWorkloads(q) PROVE DatesInv'
  BY <1>1, <1>7, DatesCluster
<1>8. ASSUME NEW q \in Requests,
             \/ BeginGroup(q) \/ (\E w \in Workloads : WriteRecommendation(q, w))
             \/ CompleteRun(q) \/ ComputeFails(q) \/ StatementFails(q)
             \/ RecordFailure(q) \/ LoseFailure(q) \/ DatabaseFails(q) \/ Answer(q)
      PROVE  DatesInv'
  BY <1>1, <1>8, DatesLate
<1>9. CASE Crash
  BY <1>1, <1>9, DatesCrash
<1>10. ASSUME NEW c \in Clusters, DeleteCluster(c) PROVE DatesInv'
  BY <1>1, <1>10, DatesDelete
<1>11. ASSUME NEW c \in Clusters, NEW W, NEW kinds, CollectorCommits(c, W, kinds)
       PROVE  DatesInv'
  BY <1>1, <1>11, DatesCollect
<1> QED
  BY <1>2, <1>3, <1>4, <1>5, <1>6, <1>7, <1>8, <1>9, <1>10, <1>11 DEF Next, Proceed

LEMMA DatesHold == Spec => [](TypeInv /\ DatesInv)
<1>1. Init => TypeInv /\ DatesInv
  BY TypeInit, DatesInit
<1>2. TypeInv /\ DatesInv /\ [Next]_vars => (TypeInv /\ DatesInv)'
  BY TypeStep, DatesStep
<1> QED BY <1>1, <1>2, PTL DEF Spec

(* On sqlite the transaction a run opens before it loads anything          *)
(* (runner.py:76-83) makes what it loads a snapshot: until the last SELECT *)
(* whatever it has read is still what is stored.                           *)
THEOREM SnapshotCorrect == Dialect = "sqlite" => (Spec => []LoadIsSnapshot)
<1> SUFFICES ASSUME Dialect = "sqlite" PROVE Spec => []LoadIsSnapshot
  OBVIOUS
<1>1. DatesInv => LoadIsSnapshot
  BY DEF DatesInv, Dated, LoadIsSnapshot
<1> QED BY DatesHold, <1>1, PTL

(* On both databases data_as_of (runner.py:71) is newer than all the run   *)
(* has loaded by the time it clusters only on account of rows it leaves    *)
(* out: if one of the rows it is the date of is the run's to load, the run *)
(* has loaded one at least that new.                                       *)
THEOREM AsOfCorrect == Spec => []AsOfNeverOverstates
<1>1. DatesInv => AsOfNeverOverstates
  BY DEF DatesInv, Dated, AsOfNeverOverstates
<1> QED BY DatesHold, <1>1, PTL

-----------------------------------------------------------------------------
(***************************************************************************)
(* The status of a run.                                                    *)
(***************************************************************************)

(* A run's rows carry the id its request holds, and one that says          *)
(* "running" has a thread, or lost it to a crash, to a fault of the        *)
(* database or to sqlite's lock.                                           *)
Tracked(q) ==
  /\ \A r \in draftRuns[q] : r.owner = q /\ r.id = runId[q]
  /\ draftRuns[q] # {} => pc[q] \in Working
  /\ \A r \in runs : r.owner = q =>
       /\ r.id = runId[q] /\ pc[q] \notin Early
       /\ r.status = "running" =>
            \/ pc[q] \in Working \union {"broken", "dead", "fault"}
            \/ pc[q] = "done" /\ reply[q] = "fault"
            \/ /\ Dialect = "sqlite"
               /\ pc[q] = "lost" \/ (pc[q] = "done" /\ reply[q] = "lost")
  /\ Dialect = "postgres" /\ pc[q] = "broken" => \A r \in runs : r.owner # q

(* A thread whose state is left alone, with no row that was not there.     *)
LEMMA TrackedKept ==
  ASSUME NEW q \in Requests, Tracked(q),
         pc'[q] = pc[q], runId'[q] = runId[q], reply'[q] = reply[q],
         draftRuns'[q] \subseteq draftRuns[q],
         \A r \in runs' : r.owner = q =>
           \E o \in runs : /\ o.owner = q /\ o.id = r.id
                           /\ r.status = "running" => o.status = "running"
  PROVE  Tracked(q)'
BY DEF Tracked

LEMMA TrackedOthers ==
  ASSUME TypeInv, NEW p \in Requests, \A q \in Requests : Tracked(q), Tracked(p)',
         \A q \in Requests \ {p} :
           /\ pc'[q] = pc[q] /\ runId'[q] = runId[q] /\ reply'[q] = reply[q]
           /\ draftRuns'[q] = draftRuns[q],
         \/ runs' = RunsSeenBy(p)
         \/ runs' = runs
         \/ \E s \in {"completed", "failed"} : runs' = WithStatus(RunsSeenBy(p), runId[p], s)
  PROVE  (\A q \in Requests : Tracked(q))'
<1> SUFFICES ASSUME NEW q \in Requests \ {p} PROVE Tracked(q)'
  OBVIOUS
<1>1. \A r \in draftRuns[p] : r.owner # q
  BY DEF Tracked
<1>2. \A o \in runs \union draftRuns[p] : o \in RunRows
  BY DEF TypeInv, TypeOK
<1>3. ASSUME NEW r \in runs', r.owner = q
      PROVE  \E o \in runs : /\ o.owner = q /\ o.id = r.id
                             /\ r.status = "running" => o.status = "running"
  <2>1. CASE r \in RunsSeenBy(p)
    BY <1>1, <1>3, <2>1 DEF RunsSeenBy
  <2>2. CASE r \notin RunsSeenBy(p)
    <3>1. PICK s \in {"completed", "failed"}, o \in runs \union draftRuns[p] :
            r = [o EXCEPT !.status = s]
      BY <1>3, <2>2 DEF WithStatus, RunsSeenBy
    <3>2. r.owner = o.owner /\ r.id = o.id /\ r.status = s
      BY <1>2, <3>1 DEF RunRows
    <3> QED BY <1>1, <1>3, <3>2
  <2> QED BY <2>1, <2>2
<1> QED BY <1>3, TrackedKept

(* FinishRun leaves no row of its own running.                             *)
LEMMA TrackedFinish ==
  ASSUME TypeInv, NEW p \in Requests, \A q \in Requests : Tracked(q),
         NEW s \in {"completed", "failed"}, FinishRun(p, s), pc[p] \in Working
  PROVE  (\A q \in Requests : Tracked(q))'
<1>1. /\ runs' = WithStatus(RunsSeenBy(p), runId[p], s)
      /\ pc'[p] \in {s, "fault"} /\ draftRuns'[p] = {} /\ runId' = runId /\ reply' = reply
      /\ \A q \in Requests \ {p} : pc'[q] = pc[q] /\ draftRuns'[q] = draftRuns[q]
  BY DEF FinishRun, EndTx, TypeInv, TypeOK, thread
<1>2. ASSUME NEW r \in runs', r.owner = p
      PROVE  r.id = runId[p] /\ r.status = s
  <2>1. PICK o \in runs \union draftRuns[p] :
          r = IF o.id = runId[p] THEN [o EXCEPT !.status = s] ELSE o
    BY <1>1, <1>2 DEF WithStatus, RunsSeenBy
  <2>2. o \in RunRows
    BY DEF TypeInv, TypeOK
  <2>3. r.owner = o.owner /\ r.id = o.id
    BY <2>1, <2>2 DEF RunRows
  <2>4. o.id = runId[p]
    BY <1>2, <2>3 DEF Tracked
  <2> QED BY <2>1, <2>2, <2>3, <2>4 DEF RunRows
<1>3. Tracked(p)'
  BY <1>1, <1>2 DEF Tracked, Early
<1> QED BY <1>1, <1>3, TrackedOthers

LEMMA TrackedWrite ==
  ASSUME TypeInv, NEW p \in Requests, \A q \in Requests : Tracked(q),
         NEW w \in Workloads, WriteRecommendation(p, w)
  PROVE  (\A q \in Requests : Tracked(q))'
<1>1. /\ runs' = RunsSeenBy(p) /\ pc[p] = "process"
      /\ pc' = pc /\ draftRuns'[p] = {} /\ runId' = runId /\ reply' = reply
      /\ \A q \in Requests \ {p} : draftRuns'[q] = draftRuns[q]
  BY DEF WriteRecommendation, EndTx, TypeInv, TypeOK
<1>2. Tracked(p)'
  BY <1>1 DEF Tracked, RunsSeenBy, Working, Early
<1> QED BY <1>1, <1>2, TrackedOthers

LEMMA TrackedCreate ==
  ASSUME TypeInv, NEW p \in Requests, \A q \in Requests : Tracked(q), CreateRun(p)
  PROVE  (\A q \in Requests : Tracked(q))'
<1>1. PICK id \in NextId(Ids(runs), issuedRuns) :
        /\ runId' = [runId EXCEPT ![p] = id]
        /\ draftRuns' = [draftRuns EXCEPT ![p] =
             {[id |-> id, cluster |-> clusterId[p], owner |-> p, status |-> "running"]}]
  BY DEF CreateRun
<1>2. /\ runs' = runs /\ reply' = reply /\ pc[p] = "create" /\ pc'[p] = "list"
      /\ \A q \in Requests \ {p} : /\ pc'[q] = pc[q] /\ draftRuns'[q] = draftRuns[q]
                                   /\ runId'[q] = runId[q]
      /\ runId'[p] = id
      /\ draftRuns'[p] =
           {[id |-> id, cluster |-> clusterId[p], owner |-> p, status |-> "running"]}
  BY <1>1 DEF CreateRun, TypeInv, TypeOK, results
<1>3. Tracked(p)'
  BY <1>2 DEF Tracked, Working, Early
<1> QED BY <1>2, <1>3, TrackedOthers

(* On postgres a statement fails only when the run is gone: the group in   *)
(* hand is there as long as the run is.                                    *)
LEMMA TrackedFailure ==
  ASSUME TypeInv, NEW p \in Requests, \A q \in Requests : Tracked(q), StatementFails(p),
         Dialect = "postgres" => Inv
  PROVE  (\A q \in Requests : Tracked(q))'
<1>1. /\ runs' = runs /\ reply' = reply /\ runId' = runId
      /\ pc[p] = "process" /\ draftRuns'[p] \subseteq draftRuns[p]
      /\ pc'[p] = (IF Dialect = "sqlite" THEN "failing" ELSE "broken")
      /\ Dialect = "sqlite" \/ draftRuns'[p] = {}
      /\ \A q \in Requests \ {p} : pc'[q] = pc[q] /\ draftRuns'[q] = draftRuns[q]
  BY DEF StatementFails, EndTx, TypeInv, TypeOK, results, thread
<1>2. Dialect = "postgres" => \A r \in runs : r.owner # p
  <2> SUFFICES ASSUME Dialect = "postgres", NEW r \in runs, r.owner = p PROVE FALSE
    OBVIOUS
  <2>1. RunExists(p)
    BY DEF Tracked, RunExists, RunsSeenBy
  <2>2. pending[p] # {} => GroupExists(p)
    BY <1>1, <2>1 DEF Inv, ThreadCovers, GroupExists, GroupsBy
  <2> QED BY <2>1, <2>2 DEF StatementFails, MayWrite
<1>3. Tracked(p)'
  BY <1>1, <1>2, DialectAssumption DEF Tracked, Working, Early
<1> QED BY <1>1, <1>3, TrackedOthers

LEMMA TrackedLose ==
  ASSUME TypeInv, NEW p \in Requests, \A q \in Requests : Tracked(q),
         LoseFailure(p) \/ DatabaseFails(p) \/ Answer(p)
  PROVE  (\A q \in Requests : Tracked(q))'
<1>1. /\ runs' = runs /\ runId' = runId
      /\ \A q \in Requests \ {p} : /\ pc'[q] = pc[q] /\ draftRuns'[q] = draftRuns[q]
                                   /\ reply'[q] = reply[q]
  BY DEF LoseFailure, DatabaseFails, Answer, EndTx, TypeInv, TypeOK, results, thread,
         connection
<1>2. Tracked(p)'
  <2>1. CASE LoseFailure(p)
    <3>1. /\ pc'[p] = "lost" /\ draftRuns'[p] = {}
          /\ Dialect = "sqlite" \/ pc[p] = "broken"
      BY <2>1 DEF LoseFailure, EndTx, MayWrite, TypeInv, TypeOK
    <3> QED BY <1>1, <3>1, DialectAssumption DEF Tracked, Early
  <2>2. CASE Answer(p)
    <3>1. /\ pc[p] \in Verdicts /\ pc'[p] = "done" /\ reply'[p] = pc[p]
          /\ draftRuns' = draftRuns
      BY <2>2 DEF Answer, TypeInv, TypeOK, connection
    <3> QED BY <1>1, <3>1 DEF Tracked, Early, Working, Verdicts
  <2>3. CASE DatabaseFails(p)
    <3>1. pc[p] \in Working /\ pc'[p] = "fault" /\ draftRuns'[p] = {}
      BY <2>3 DEF DatabaseFails, EndTx, TypeInv, TypeOK, Working
    <3> QED BY <1>1, <3>1 DEF Tracked, Early, Working
  <2> QED BY <2>1, <2>2, <2>3
<1> QED BY <1>1, <1>2, TrackedOthers

LEMMA TrackedGoesOn ==
  ASSUME TypeInv, NEW p \in Requests, \A q \in Requests : Tracked(q),
         \/ EnsureCluster(p) \/ ResolveCluster(p) \/ ReadAsOf(p) \/ Reject(p)
         \/ ListUids(p) \/ (\E k \in Cells : LoadWorkload(p, k))
         \/ ClusterWorkloads(p) \/ BeginGroup(p) \/ ComputeFails(p)
  PROVE  (\A q \in Requests : Tracked(q))'
<1>1. /\ runs' = runs /\ reply' = reply /\ runId' = runId /\ draftRuns' = draftRuns
      /\ \A q \in Requests \ {p} : pc'[q] = pc[q]
      /\ \/ pc[p] \in Early /\ pc'[p] \in Early
         \/ pc[p] \in Working /\ pc'[p] \in Working
  BY DEF EnsureCluster, ResolveCluster, ReadAsOf, Reject, ListUids, LoadWorkload,
         ClusterWorkloads, BeginGroup, ComputeFails, TypeInv, TypeOK, results, connection,
         thread, Early, Working
<1>2. Tracked(p)'
  BY <1>1 DEF Tracked, Early, Working
<1> QED BY <1>1, <1>2, TrackedOthers

LEMMA TrackedStep ==
  ASSUME TypeInv, Dialect = "postgres" => Inv, \A q \in Requests : Tracked(q), [Next]_vars
  PROVE  (\A q \in Requests : Tracked(q))'
<1>1. CASE UNCHANGED vars
  BY <1>1 DEF Tracked, vars, results, connection, thread
<1>2. CASE Crash
  <2> SUFFICES ASSUME NEW q \in Requests PROVE Tracked(q)'
    OBVIOUS
  <2>1. /\ runs' = runs /\ runId' = runId /\ reply' = reply /\ draftRuns'[q] = {}
        /\ pc'[q] = (IF pc[q] \in Active THEN "dead" ELSE pc[q])
    BY <1>2 DEF Crash, results, thread
  <2> QED BY <2>1 DEF Tracked, Early, Working, Active, Statements
<1>3. ASSUME NEW c \in Clusters, DeleteCluster(c)
      PROVE  (\A q \in Requests : Tracked(q))'
  BY <1>3 DEF DeleteCluster, Tracked, connection, thread
<1>4. ASSUME NEW c \in Clusters, NEW W, NEW kinds, CollectorCommits(c, W, kinds)
      PROVE  (\A q \in Requests : Tracked(q))'
  BY <1>4 DEF CollectorCommits, Tracked, results, connection, thread
<1>5. ASSUME NEW q \in Requests, CompleteRun(q) \/ RecordFailure(q)
      PROVE  (\A p \in Requests : Tracked(p))'
  BY <1>5, TrackedFinish DEF CompleteRun, RecordFailure, Working
<1> QED
  BY <1>1, <1>2, <1>3, <1>4, <1>5, TrackedFinish, TrackedWrite, TrackedCreate,
     TrackedFailure, TrackedLose, TrackedGoesOn
     DEF Next, Proceed

(* A run is stored as "running" only while its request is worked on,       *)
(* unless the engine died under it, the database failed under it, or       *)
(* sqlite's lock was not granted even to record the failure                *)
(* (runner.py:109-111).                                                    *)
THEOREM OrphanCorrect == Spec => []NoOrphanRun
<1>1. Init => \A q \in Requests : Tracked(q)
  BY DEF Init, Tracked
<1>2. (\A q \in Requests : Tracked(q)) /\ TypeInv => NoOrphanRun
  BY DEF Tracked, NoOrphanRun, TypeInv, TypeOK, RunRows, Working, Statements
<1>3. TypeInv /\ (\A q \in Requests : Tracked(q)) /\ (Dialect = "postgres" => Inv) /\ [Next]_vars
        => (\A q \in Requests : Tracked(q))'
  BY TrackedStep
<1>4. Init => (Dialect = "postgres" => Inv)
  BY InvInit
<1>5. (Dialect = "postgres" => Inv) /\ [Next]_vars => (Dialect = "postgres" => Inv)'
  BY InvStep DEF NoReuse
<1> QED BY <1>1, <1>2, <1>3, <1>4, <1>5, TypeInit, TypeStep, PTL DEF Spec

-----------------------------------------------------------------------------
(***************************************************************************)
(* The answer to the request.                                              *)
(***************************************************************************)

(* A thread knows its cluster until that is deleted, and so long its run   *)
(* is there, with the status the thread gave it.                           *)
Answered(q) ==
  /\ clusterId[q] # 0 =>
       clusters[ClusterOf[q]] = clusterId[q] \/ ClusterOf[q] \in deleted
  /\ pc[q] \in Working \union {"completed"} \/ reply[q] = "completed" =>
       ClusterOf[q] \in deleted \/ \E r \in RunsSeenBy(q) : r.owner = q
  /\ \A r \in runs : r.owner = q =>
       /\ pc[q] = "completed" \/ reply[q] = "completed" => r.status = "completed"
       /\ pc[q] = "failed" \/ reply[q] = "failed" => r.status = "failed"
       /\ pc[q] = "lost" => r.status # "completed"
       /\ reply[q] # "rejected"
  /\ reply[q] # "none" => pc[q] = "done"

LEMMA AnsweredKept ==
  ASSUME NEW q \in Requests, Answered(q),
         pc'[q] = pc[q], clusterId'[q] = clusterId[q], reply'[q] = reply[q],
         draftRuns'[q] = draftRuns[q], deleted \subseteq deleted',
         \/ clusters'[ClusterOf[q]] = clusters[ClusterOf[q]]
         \/ clusterId[q] # 0 => clusters[ClusterOf[q]] # clusterId[q]
         \/ ClusterOf[q] \in deleted',
         \A r \in runs' : r.owner = q => r \in runs,
         ClusterOf[q] \in deleted' \/ \A r \in runs : r.owner = q => r \in runs'
  PROVE  Answered(q)'
<1>1. ClusterOf[q] \in deleted' \/ \A r \in RunsSeenBy(q) : r.owner = q => r \in RunsSeenBy(q)'
  BY DEF RunsSeenBy
<1> QED BY <1>1 DEF Answered

(* A thread at work writes its own run's row and no other.                 *)
OwnCommit(p) ==
  \/ runs' = runs
  \/ pc[p] \in Working /\ runs' = RunsSeenBy(p)
  \/ /\ pc[p] \in Working
     /\ \E s \in {"completed", "failed"} : runs' = WithStatus(RunsSeenBy(p), runId[p], s)

LEMMA OthersRows ==
  ASSUME Inv, NEW p \in Requests, OwnCommit(p), NEW q \in Requests \ {p}
  PROVE  \A r : r.owner = q => (r \in runs' <=> r \in runs)
<1>1. \A r \in draftRuns[p] : r.owner = p
  BY DEF Inv, Drafts
<1>2. \A o \in RunsSeenBy(p) : o \in RunRows /\ o \in AllRuns
  BY DEF Inv, TypeInv, TypeOK, RunsSeenBy, AllRuns
<1>3. pc[p] \in Working => \A o \in RunsSeenBy(p) : o.id = runId[p] => o.owner = p
  BY <1>2 DEF Inv, RunIdsHeld
<1>4. \A r : r.owner = q => (r \in RunsSeenBy(p) <=> r \in runs)
  BY <1>1 DEF RunsSeenBy
<1>5. ASSUME NEW s \in {"completed", "failed"}, NEW r, r.owner = q, pc[p] \in Working,
             runs' = WithStatus(RunsSeenBy(p), runId[p], s)
      PROVE  r \in runs' <=> r \in runs
  <2>1. ASSUME r \in runs' PROVE r \in runs
    <3>1. PICK o \in RunsSeenBy(p) :
            r = IF o.id = runId[p] THEN [o EXCEPT !.status = s] ELSE o
      BY <1>5, <2>1 DEF WithStatus
    <3>2. r.owner = o.owner
      BY <1>2, <3>1 DEF RunRows
    <3> QED BY <1>3, <1>4, <1>5, <3>1, <3>2
  <2>2. ASSUME r \in runs PROVE r \in runs'
    <3>1. r \in RunsSeenBy(p) /\ r.id # runId[p]
      BY <1>3, <1>5, <2>2 DEF RunsSeenBy
    <3> QED BY <1>5, <3>1 DEF WithStatus
  <2> QED BY <2>1, <2>2
<1> QED BY <1>4, <1>5 DEF OwnCommit

LEMMA AnsweredOthers ==
  ASSUME Inv, NEW p \in Requests, \A q \in Requests : Answered(q), Answered(p)',
         deleted' = deleted, clusters' = clusters, OwnCommit(p),
         \A q \in Requests \ {p} :
           /\ pc'[q] = pc[q] /\ clusterId'[q] = clusterId[q] /\ reply'[q] = reply[q]
           /\ draftRuns'[q] = draftRuns[q]
  PROVE  (\A q \in Requests : Answered(q))'
<1> SUFFICES ASSUME NEW q \in Requests \ {p} PROVE Answered(q)'
  OBVIOUS
<1>1. \A r : r.owner = q => (r \in runs' <=> r \in runs)
  BY OthersRows
<1> QED BY <1>1, AnsweredKept

LEMMA AnsweredFinish ==
  ASSUME Inv, NEW p \in Requests, \A q \in Requests : Answered(q),
         NEW s \in {"completed", "failed"}, FinishRun(p, s), pc[p] \in Working
  PROVE  (\A q \in Requests : Answered(q))'
<1>1. /\ runs' = WithStatus(RunsSeenBy(p), runId[p], s)
      /\ UNCHANGED <<deleted, clusters, clusterId, reply>>
      /\ pc'[p] \in {s, "fault"} /\ draftRuns'[p] = {}
      /\ \A q \in Requests \ {p} : pc'[q] = pc[q] /\ draftRuns'[q] = draftRuns[q]
  BY DEF FinishRun, EndTx, Inv, TypeInv, TypeOK, thread
<1>2. \A o \in RunsSeenBy(p) : o \in RunRows /\ o \in AllRuns
  BY DEF Inv, TypeInv, TypeOK, RunsSeenBy, AllRuns
<1>3. ASSUME NEW r \in runs', r.owner = p
      PROVE  r.status = s
  <2>1. PICK o \in RunsSeenBy(p) :
          r = IF o.id = runId[p] THEN [o EXCEPT !.status = s] ELSE o
    BY <1>1 DEF WithStatus
  <2>2. r.owner = o.owner
    BY <1>2, <2>1 DEF RunRows
  <2>3. o.id = runId[p]
    BY <1>2, <1>3, <2>2 DEF Inv, RunRowsKnown
  <2> QED BY <1>2, <2>1, <2>3 DEF RunRows
<1>4. ClusterOf[p] \in deleted \/ \E r \in runs' : r.owner = p
  <2> SUFFICES ASSUME NEW o \in RunsSeenBy(p), o.owner = p
               PROVE  \E r \in runs' : r.owner = p
    BY DEF Answered
  <2> DEFINE r == IF o.id = runId[p] THEN [o EXCEPT !.status = s] ELSE o
  <2>1. r \in runs'
    BY <1>1 DEF WithStatus
  <2>2. r.owner = p
    BY <1>2 DEF RunRows
  <2> QED BY <2>1, <2>2
<1>5. reply[p] = "none"
  BY DEF Answered, Working
<1>6. Answered(p)'
  BY <1>1, <1>3, <1>4, <1>5 DEF Answered, RunsSeenBy, Working
<1> QED BY <1>1, <1>6, AnsweredOthers DEF OwnCommit

LEMMA AnsweredWrite ==
  ASSUME Inv, NEW p \in Requests, \A q \in Requests : Answered(q),
         NEW w \in Workloads, WriteRecommendation(p, w)
  PROVE  (\A q \in Requests : Answered(q))'
<1>1. /\ runs' = RunsSeenBy(p) /\ pc[p] = "process"
      /\ UNCHANGED <<deleted, clusters, clusterId, reply, pc>>
      /\ draftRuns'[p] = {}
      /\ \A q \in Requests \ {p} : draftRuns'[q] = draftRuns[q]
  BY DEF WriteRecommendation, EndTx, Inv, TypeInv, TypeOK
<1>2. Answered(p)'
  BY <1>1 DEF Answered, RunsSeenBy, Working
<1> QED BY <1>1, <1>2, AnsweredOthers DEF OwnCommit, Working

LEMMA AnsweredCreate ==
  ASSUME Inv, NEW p \in Requests, \A q \in Requests : Answered(q), CreateRun(p)
  PROVE  (\A q \in Requests : Answered(q))'
<1>1. /\ UNCHANGED <<deleted, clusters, clusterId, reply, runs>>
      /\ pc[p] = "create" /\ pc'[p] = "list"
      /\ \A q \in Requests \ {p} : pc'[q] = pc[q] /\ draftRuns'[q] = draftRuns[q]
  BY DEF CreateRun, Inv, TypeInv, TypeOK, results
<1>2. \E r \in draftRuns'[p] : r.owner = p
  <2>1. PICK id \in NextId(Ids(runs), issuedRuns) : draftRuns' = [draftRuns EXCEPT ![p] =
          {[id |-> id, cluster |-> clusterId[p], owner |-> p, status |-> "running"]}]
    BY DEF CreateRun
  <2>2. draftRuns'[p] =
          {[id |-> id, cluster |-> clusterId[p], owner |-> p, status |-> "running"]}
    BY <2>1 DEF Inv, TypeInv, TypeOK
  <2> QED BY <2>2
<1>3. Answered(p)'
  BY <1>1, <1>2 DEF Answered, RunsSeenBy, Working
<1> QED BY <1>1, <1>3, AnsweredOthers DEF OwnCommit

(* A thread fails with no run marked completed.                            *)
LEMMA AnsweredFails ==
  ASSUME Inv, NEW p \in Requests, \A q \in Requests : Answered(q),
         StatementFails(p) \/ LoseFailure(p) \/ DatabaseFails(p)
  PROVE  (\A q \in Requests : Answered(q))'
<1>1. /\ UNCHANGED <<deleted, clusters, clusterId, reply, runs>>
      /\ pc[p] \in Working \union {"broken"}
      /\ \/ pc'[p] \in {"broken", "lost", "fault"}
         \/ pc'[p] = "failing" /\ pc[p] = "process" /\ draftRuns'[p] = draftRuns[p]
      /\ \A q \in Requests \ {p} : pc'[q] = pc[q] /\ draftRuns'[q] = draftRuns[q]
  BY DEF StatementFails, LoseFailure, DatabaseFails, EndTx, Inv, TypeInv, TypeOK, results,
         thread, Working
<1>2. \A r \in runs : r.owner = p => r.status # "completed"
  BY <1>1 DEF Inv, CompletedCovers, AllRuns, Working
<1>3. Answered(p)'
  BY <1>1, <1>2 DEF Answered, RunsSeenBy, Working
<1> QED BY <1>1, <1>3, AnsweredOthers DEF OwnCommit

LEMMA AnsweredAnswer ==
  ASSUME Inv, NEW p \in Requests, \A q \in Requests : Answered(q), Answer(p)
  PROVE  (\A q \in Requests : Answered(q))'
<1>1. /\ UNCHANGED <<deleted, clusters, clusterId, runs, draftRuns>>
      /\ pc[p] \in Verdicts /\ pc'[p] = "done" /\ reply'[p] = pc[p]
      /\ \A q \in Requests \ {p} : pc'[q] = pc[q] /\ reply'[q] = reply[q]
  BY DEF Answer, Inv, TypeInv, TypeOK, results, connection, thread
<1>2. pc[p] = "rejected" => \A r \in runs : r.owner # p
  BY DEF Inv, RunRowsKnown, AllRuns, Early
<1>3. Answered(p)'
  BY <1>1, <1>2 DEF Answered, RunsSeenBy, Working, Verdicts
<1> QED BY <1>1, <1>3, AnsweredOthers DEF OwnCommit

LEMMA AnsweredGoesOn ==
  ASSUME Inv, NEW p \in Requests, \A q \in Requests : Answered(q),
         \/ ResolveCluster(p) \/ ReadAsOf(p) \/ Reject(p)
         \/ ListUids(p) \/ (\E k \in Cells : LoadWorkload(p, k))
         \/ ClusterWorkloads(p) \/ BeginGroup(p) \/ ComputeFails(p)
  PROVE  (\A q \in Requests : Answered(q))'
<1>1. /\ UNCHANGED <<deleted, clusters, reply, runs, draftRuns>>
      /\ clusterId'[p] \in {clusterId[p], clusters[ClusterOf[p]]}
      /\ \A q \in Requests \ {p} : pc'[q] = pc[q] /\ clusterId'[q] = clusterId[q]
      /\ \/ pc[p] \in Early /\ pc'[p] \in Early
         \/ pc[p] \in Working /\ pc'[p] \in Working
  BY DEF ResolveCluster, ReadAsOf, Reject, ListUids, LoadWorkload,
         ClusterWorkloads, BeginGroup, ComputeFails, Inv, TypeInv, TypeOK, results,
         connection, thread, Early, Working
<1>2. reply[p] = "none"
  BY <1>1 DEF Answered, Early, Working
<1>3. Answered(p)'
  BY <1>1, <1>2 DEF Answered, RunsSeenBy, Early, Working
<1> QED BY <1>1, <1>3, AnsweredOthers DEF OwnCommit

(* A name that is made again belonged to a cluster that was deleted.       *)
LEMMA AnsweredEnsure ==
  ASSUME Inv, NEW p \in Requests, \A q \in Requests : Answered(q), EnsureCluster(p)
  PROVE  (\A q \in Requests : Answered(q))'
<1>1. /\ UNCHANGED <<deleted, clusterId, reply, runs, draftRuns>>
      /\ \A c \in Clusters : clusters[c] # 0 => clusters'[c] = clusters[c]
      /\ pc[p] = "idle" /\ pc'[p] = "resolve"
      /\ \A q \in Requests \ {p} : pc'[q] = pc[q]
  BY DEF EnsureCluster, Inv, TypeInv, TypeOK, results, connection, thread
<1>2. ASSUME NEW q \in Requests \ {p} PROVE Answered(q)'
  <2>1. ClusterOf[q] \in Clusters
    BY RequestsAssumption
  <2> QED BY <1>1, <2>1, AnsweredKept
<1>3. Answered(p)'
  <2>1. ClusterOf[p] \in Clusters
    BY RequestsAssumption
  <2>2. clusterId[p] # 0 =>
          clusters'[ClusterOf[p]] = clusterId[p] \/ ClusterOf[p] \in deleted
    BY <1>1, <2>1 DEF Answered
  <2>3. reply[p] = "none"
    BY <1>1 DEF Answered
  <2> QED BY <1>1, <2>2, <2>3 DEF Answered, RunsSeenBy, Working
<1> QED BY <1>2, <1>3

(* A deletion takes the runs of that cluster and no other.                 *)
LEMMA AnsweredDelete ==
  ASSUME Inv, Registered, NEW c \in Clusters, DeleteCluster(c),
         \A q \in Requests : Answered(q)
  PROVE  (\A q \in Requests : Answered(q))'
<1> DEFINE gone == Ids({r \in runs : r.cluster = clusters[c]})
<1>1. /\ UNCHANGED <<clusterId, reply, draftRuns, pc>>
      /\ deleted' = deleted \union {c} /\ clusters[c] # 0
      /\ \A d \in Clusters \ {c} : clusters'[d] = clusters[d]
      /\ runs' = {r \in runs : r.id \notin gone}
  BY DEF DeleteCluster, Inv, TypeInv, TypeOK, connection, thread
<1>2. ASSUME NEW q \in Requests PROVE Answered(q)'
  <2>1. ClusterOf[q] \in Clusters
    BY RequestsAssumption
  <2>2. ASSUME ClusterOf[q] \notin deleted', NEW r \in runs, r.owner = q
        PROVE  r \in runs'
    <3>1. r \in AllRuns /\ r.cluster = clusterId[q] /\ r.cluster # 0
      BY <2>2 DEF AllRuns, Inv, RunRowsKnown, TypeInv, TypeOK, RunRows
    <3>2. r.cluster = clusters[ClusterOf[q]] /\ ClusterOf[q] # c
      BY <1>1, <2>2, <3>1 DEF Answered
    <3>3. r.cluster # clusters[c]
      BY <2>1, <3>1, <3>2 DEF Registered
    <3>4. r.id \notin gone
      <4> SUFFICES ASSUME NEW s \in runs, s.cluster = clusters[c], s.id = r.id PROVE FALSE
        BY DEF Ids
      <4>1. s = r
        BY <3>1 DEF AllRuns, Inv, RunIdsHeld
      <4> QED BY <3>3, <4>1
    <3> QED BY <1>1, <3>4
  <2> QED BY <1>1, <2>1, <2>2, AnsweredKept
<1> QED BY <1>2

LEMMA AnsweredStep ==
  ASSUME Inv, Registered, \A q \in Requests : Answered(q), [Next]_vars
  PROVE  (\A q \in Requests : Answered(q))'
<1>1. CASE UNCHANGED vars
  BY <1>1 DEF Answered, RunsSeenBy, vars, results, connection, thread
<1>2. CASE Crash
  <2> SUFFICES ASSUME NEW q \in Requests PROVE Answered(q)'
    OBVIOUS
  <2>1. /\ UNCHANGED <<runs, reply, clusterId, clusters, deleted>> /\ draftRuns'[q] = {}
        /\ pc'[q] = (IF pc[q] \in Active THEN "dead" ELSE pc[q])
    BY <1>2 DEF Crash, results, thread
  <2>2. CASE pc[q] \in Active
    BY <2>1, <2>2 DEF Answered, RunsSeenBy, Working, Active, Verdicts, Statements
  <2>3. CASE pc[q] \notin Active
    <3>1. draftRuns[q] = {}
      BY <2>3 DEF Inv, Drafts, Working, Active, Statements
    <3> QED BY <2>1, <2>3, <3>1 DEF Answered, RunsSeenBy
  <2> QED BY <2>2, <2>3
<1>3. ASSUME NEW c \in Clusters, NEW W, NEW kinds, CollectorCommits(c, W, kinds)
      PROVE  (\A q \in Requests : Answered(q))'
  BY <1>3 DEF CollectorCommits, Answered, RunsSeenBy, results, connection, thread
<1>4. ASSUME NEW q \in Requests, CompleteRun(q) \/ RecordFailure(q)
      PROVE  (\A p \in Requests : Answered(p))'
  BY <1>4, AnsweredFinish DEF CompleteRun, RecordFailure, Working
<1> QED
  BY <1>1, <1>2, <1>3, <1>4, AnsweredFinish, AnsweredWrite, AnsweredCreate, AnsweredFails,
     AnsweredAnswer, AnsweredGoesOn, AnsweredEnsure, AnsweredDelete
     DEF Next, Proceed

LEMMA ReplyOfInv ==
  ASSUME Inv, \A q \in Requests : Answered(q)
  PROVE  ReplyMatchesStore
<1>1. ASSUME NEW q \in Requests, reply[q] = "completed", ClusterOf[q] \notin deleted
      PROVE  \E r \in runs : r.owner = q /\ r.status = "completed"
  <2>1. draftRuns[q] = {}
    BY <1>1 DEF Answered, Inv, Drafts, Working
  <2> QED BY <1>1, <2>1 DEF Answered, RunsSeenBy
<1>2. ASSUME NEW r \in runs
      PROVE  /\ r.status = "completed" => pc[r.owner] \in {"completed", "fault", "done", "dead"}
             /\ reply[r.owner] = "completed" => r.status = "completed"
             /\ reply[r.owner] = "failed" => r.status = "failed"
             /\ reply[r.owner] # "rejected"
  <2>1. r.owner \in Requests /\ r \in AllRuns
    BY DEF Inv, TypeInv, TypeOK, RunRows, AllRuns
  <2>2. pc[r.owner] \notin Early
    BY <2>1 DEF Inv, RunRowsKnown
  <2>3. r.status = "completed" => pc[r.owner] \notin Working \union {"broken"}
    BY <2>1 DEF Inv, CompletedCovers
  <2>4. pc[r.owner] \in {"idle", "done", "dead"} \union Active
    BY <2>1 DEF Inv, TypeInv, TypeOK
  <2> QED BY <2>1, <2>2, <2>3, <2>4
          DEF Answered, Early, Working, Active, Statements, Verdicts
<1> QED BY <1>1, <1>2 DEF ReplyMatchesStore

(* On postgres, or while no cluster is deleted, the answer of POST /runs   *)
(* (app.py:303-330) and the stored run agree.                              *)
THEOREM ReplyCorrect == NoReuse => (Spec => []ReplyMatchesStore)
<1> SUFFICES ASSUME NoReuse PROVE Spec => []ReplyMatchesStore
  OBVIOUS
<1>1. Init => \A q \in Requests : Answered(q)
  <2> SUFFICES ASSUME Init, NEW q \in Requests PROVE Answered(q)
    OBVIOUS
  <2>1. ClusterOf[q] \in Clusters
    BY RequestsAssumption
  <2>2. /\ clusterId[q] # 0 => clusters[ClusterOf[q]] = clusterId[q]
        /\ pc[q] = "idle" /\ reply[q] = "none" /\ runs = {}
    BY <2>1 DEF Init
  <2> QED BY <2>2 DEF Answered, Working
<1>2. Inv /\ (TypeInv /\ DatesInv) /\ (\A q \in Requests : Answered(q)) /\ [Next]_vars
        => (\A q \in Requests : Answered(q))'
  BY AnsweredStep DEF DatesInv
<1>3. Inv /\ (\A q \in Requests : Answered(q)) => ReplyMatchesStore
  BY ReplyOfInv
<1> QED BY <1>1, <1>2, <1>3, InvHolds, DatesHold, PTL DEF Spec

-----------------------------------------------------------------------------
(***************************************************************************)
(* What a reader is promised: AnalysisRun implements RunResults.           *)
(***************************************************************************)

(* A run has a row from its creation, at first in the draft only, and the  *)
(* row says "running" as long as its thread is at work.                    *)
Shaped(q) ==
  /\ pc[q] \in Early => runId[q] = 0
  /\ pc[q] \in {"list", "load"} => draftRuns[q] # {}
  /\ draftRuns[q] # {} => \A r \in runs : r.owner # q
  /\ pc[q] \in Working \union {"broken"} =>
       \A r \in RunsSeenBy(q) : r.owner = q => r.status = "running"

LEMMA ShapedOthers ==
  ASSUME Inv, NEW p \in Requests, OwnCommit(p), \A q \in Requests : Shaped(q), Shaped(p)',
         \A q \in Requests \ {p} :
           /\ pc'[q] = pc[q] /\ runId'[q] = runId[q] /\ draftRuns'[q] = draftRuns[q]
  PROVE  (\A q \in Requests : Shaped(q))'
<1> SUFFICES ASSUME NEW q \in Requests \ {p} PROVE Shaped(q)'
  OBVIOUS
<1>1. \A r : r.owner = q => (r \in runs' <=> r \in runs)
  BY OthersRows
<1> QED BY <1>1 DEF Shaped, RunsSeenBy

LEMMA ShapedCreate ==
  ASSUME Inv, NEW p \in Requests, \A q \in Requests : Shaped(q), CreateRun(p)
  PROVE  (\A q \in Requests : Shaped(q))'
<1>1. PICK id \in NextId(Ids(runs), issuedRuns) :
        /\ runId' = [runId EXCEPT ![p] = id]
        /\ draftRuns' = [draftRuns EXCEPT ![p] =
             {[id |-> id, cluster |-> clusterId[p], owner |-> p, status |-> "running"]}]
  BY DEF CreateRun
<1>2. /\ runs' = runs /\ pc[p] = "create" /\ pc'[p] = "list"
      /\ \A q \in Requests \ {p} : /\ pc'[q] = pc[q] /\ draftRuns'[q] = draftRuns[q]
                                   /\ runId'[q] = runId[q]
      /\ draftRuns'[p] =
           {[id |-> id, cluster |-> clusterId[p], owner |-> p, status |-> "running"]}
  BY <1>1 DEF CreateRun, Inv, TypeInv, TypeOK, results
<1>3. \A r \in runs : r.owner # p
  BY <1>2 DEF Inv, RunRowsKnown, AllRuns, Early
<1>4. Shaped(p)'
  BY <1>2, <1>3 DEF Shaped, RunsSeenBy, Early
<1> QED BY <1>2, <1>4, ShapedOthers DEF OwnCommit

LEMMA ShapedCommit ==
  ASSUME Inv, NEW p \in Requests, \A q \in Requests : Shaped(q),
         \/ CompleteRun(p) \/ RecordFailure(p) \/ LoseFailure(p) \/ DatabaseFails(p)
         \/ \E w \in Workloads : WriteRecommendation(p, w)
  PROVE  (\A q \in Requests : Shaped(q))'
<1>1. /\ runId' = runId /\ draftRuns'[p] = {}
      /\ \A q \in Requests \ {p} : pc'[q] = pc[q] /\ draftRuns'[q] = draftRuns[q]
      /\ \/ pc'[p] \in {"completed", "failed", "lost", "fault"}
         \/ pc[p] = "process" /\ pc'[p] = "process" /\ runs' = RunsSeenBy(p)
  BY DEF CompleteRun, RecordFailure, LoseFailure, DatabaseFails, WriteRecommendation,
         FinishRun, EndTx, Inv, TypeInv, TypeOK, thread
<1>2. OwnCommit(p)
  BY DEF CompleteRun, RecordFailure, LoseFailure, DatabaseFails, WriteRecommendation,
         FinishRun, OwnCommit, Working, results
<1>3. Shaped(p)'
  BY <1>1 DEF Shaped, RunsSeenBy, Early, Working
<1> QED BY <1>1, <1>2, <1>3, ShapedOthers

LEMMA ShapedGoesOn ==
  ASSUME Inv, NEW p \in Requests, \A q \in Requests : Shaped(q),
         \/ EnsureCluster(p) \/ ResolveCluster(p) \/ ReadAsOf(p) \/ Reject(p)
         \/ ListUids(p) \/ (\E k \in Cells : LoadWorkload(p, k))
         \/ ClusterWorkloads(p) \/ BeginGroup(p) \/ ComputeFails(p) \/ Answer(p)
         \/ StatementFails(p)
  PROVE  (\A q \in Requests : Shaped(q))'
<1>1. /\ runs' = runs /\ runId' = runId /\ draftRuns'[p] \subseteq draftRuns[p]
      /\ \A q \in Requests \ {p} : pc'[q] = pc[q] /\ draftRuns'[q] = draftRuns[q]
      /\ \/ pc[p] \in Early /\ pc'[p] \in Early
         \/ pc[p] \in Working /\ pc'[p] \in (Working \ {"list", "load"}) \union {"broken"}
         \/ pc[p] \in {"list", "load"} /\ pc'[p] = "load" /\ draftRuns'[p] = draftRuns[p]
         \/ pc'[p] = "done"
  BY DEF EnsureCluster, ResolveCluster, ReadAsOf, Reject, ListUids, LoadWorkload,
         ClusterWorkloads, BeginGroup, ComputeFails, Answer, StatementFails, EndTx,
         Inv, TypeInv, TypeOK, results, connection, thread, Early, Working
<1>2. Shaped(p)'
  BY <1>1 DEF Shaped, RunsSeenBy, Early, Working
<1> QED BY <1>1, <1>2, ShapedOthers DEF OwnCommit

LEMMA ShapedStep ==
  ASSUME Inv, \A q \in Requests : Shaped(q), [Next]_vars
  PROVE  (\A q \in Requests : Shaped(q))'
<1>1. CASE UNCHANGED vars
  BY <1>1 DEF Shaped, RunsSeenBy, vars, results, connection, thread
<1>2. CASE Crash
  <2> SUFFICES ASSUME NEW q \in Requests PROVE Shaped(q)'
    OBVIOUS
  <2>1. /\ runs' = runs /\ runId' = runId /\ draftRuns'[q] = {}
        /\ pc'[q] = (IF pc[q] \in Active THEN "dead" ELSE pc[q])
    BY <1>2 DEF Crash, results, thread
  <2> QED BY <2>1 DEF Shaped, RunsSeenBy, Early, Working, Active, Statements
<1>3. ASSUME NEW c \in Clusters, DeleteCluster(c)
      PROVE  (\A q \in Requests : Shaped(q))'
  BY <1>3 DEF DeleteCluster, Shaped, RunsSeenBy, connection, thread
<1>4. ASSUME NEW c \in Clusters, NEW W, NEW kinds, CollectorCommits(c, W, kinds)
      PROVE  (\A q \in Requests : Shaped(q))'
  BY <1>4 DEF CollectorCommits, Shaped, RunsSeenBy, results, connection, thread
<1> QED
  BY <1>1, <1>2, <1>3, <1>4, ShapedCreate, ShapedCommit, ShapedGoesOn DEF Next, Proceed

(* What is shown of a run: its one row, and the recommendations of its     *)
(* request.                                                                *)
LEMMA ShownIs ==
  ASSUME Inv, NEW q \in Requests, NEW r \in runs, r.owner = q
  PROVE  StatusOf(q) = r.status /\ ShownOf(q) = {x.uid : x \in RecsBy(q)}
<1>1. \A s \in runs : s.owner = q => s = r
  BY DEF Inv, RunIdsHeld, RunRowsKnown, AllRuns
<1>2. (CHOOSE s \in runs : s.owner = q) = r
  BY <1>1
<1>3. RecsOf(r) = RecsBy(q) /\ r.id = runId[q]
  BY StoredByOwner DEF Inv, RunRowsKnown, AllRuns
<1> QED BY <1>2, <1>3 DEF StatusOf, ShownOf, RecsOf

LEMMA ShownIsNext ==
  ASSUME Inv', NEW q \in Requests, NEW r \in runs', r.owner = q
  PROVE  StatusOf(q)' = r.status /\ ShownOf(q)' = {x.uid : x \in RecsBy(q)'}
<1>1. \A s \in runs' : s.owner = q => s = r
  BY DEF Inv, RunIdsHeld, RunRowsKnown, AllRuns
<1>2. (CHOOSE s \in runs' : s.owner = q) = r
  BY <1>1
<1>3. \A x \in recs' : x.run = r.id <=> x.by = q
  BY DEF Inv, ResultsOwned, RunIdsHeld, RunRowsKnown, AllRuns
<1>4. r.id = runId'[q]
  BY DEF Inv, RunRowsKnown, AllRuns
<1>5. {x \in recs' : x.run = runId'[q]} = RecsBy(q)'
  BY <1>3, <1>4 DEF RecsBy
<1> QED BY <1>2, <1>5 DEF StatusOf, ShownOf

(* Of a run that is not there nothing is shown, nor stored.                *)
LEMMA NothingShown ==
  ASSUME NEW q \in Requests, \A r \in runs : r.owner # q
  PROVE  /\ StatusOf(q) = IF runId[q] = 0 \/ draftRuns[q] # {} THEN "absent" ELSE "gone"
         /\ ShownOf(q) = {}
BY DEF StatusOf, ShownOf

LEMMA NothingShownNext ==
  ASSUME NEW q \in Requests, \A r \in runs' : r.owner # q
  PROVE  /\ StatusOf(q)' = IF runId'[q] = 0 \/ draftRuns'[q] # {} THEN "absent" ELSE "gone"
         /\ ShownOf(q)' = {}
BY DEF StatusOf, ShownOf

LEMMA NothingStored ==
  ASSUME Inv, NEW q \in Requests, \A r \in runs : r.owner # q
  PROVE  RecsBy(q) = {}
BY DEF Inv, ResultsOwned, RecsBy

(* A run whose rows are left alone looks the same.                         *)
LEMMA LooksSame ==
  ASSUME Inv, Inv', NEW q \in Requests,
         \A r : r.owner = q => (r \in runs' <=> r \in runs),
         RecsBy(q)' = RecsBy(q),
         runId'[q] = 0 \/ draftRuns'[q] # {} <=> runId[q] = 0 \/ draftRuns[q] # {}
  PROVE  StatusOf(q)' = StatusOf(q) /\ ShownOf(q)' = ShownOf(q)
<1>1. CASE \E r \in runs : r.owner = q
  BY <1>1, ShownIs, ShownIsNext
<1>2. CASE \A r \in runs : r.owner # q
  BY <1>2, NothingShown, NothingShownNext
<1> QED BY <1>1, <1>2

(* What one run may do before the eyes of its readers.                     *)
Looks(p) ==
  \/ /\ uids'[p] = uids[p] \/ StatusOf(p) = "absent"
     /\ StatusOf(p)' = StatusOf(p) /\ ShownOf(p)' = ShownOf(p)
  \/ /\ uids'[p] = uids[p]
     /\ StatusOf(p) \in {"absent", "running"} /\ StatusOf(p)' = "running"
     /\ \E w \in uids[p] \ ShownOf(p) : ShownOf(p)' = ShownOf(p) \union {w}
  \/ /\ uids'[p] = uids[p]
     /\ StatusOf(p) \in {"absent", "running"}
     /\ \/ StatusOf(p)' = "failed"
        \/ StatusOf(p)' = "completed" /\ ShownOf(p) = uids[p]
     /\ ShownOf(p)' = ShownOf(p)
  \/ uids'[p] = uids[p] /\ StatusOf(p)' = "gone" /\ ShownOf(p)' = {}

(* If one run does one of these and the others look the same, that is a    *)
(* step of RunResults; and so is that some disappear at once.              *)
LEMMA LooksAreResults ==
  ASSUME TypeOK, TypeOK', NEW p \in Requests, Looks(p),
         \A q \in Requests \ {p} :
           uids'[q] = uids[q] /\ StatusOf(q)' = StatusOf(q) /\ ShownOf(q)' = ShownOf(q)
  PROVE  [Results!Next]_Results!vars
<1> DEFINE status == [q \in Requests |-> StatusOf(q)]
<1> DEFINE statusN == [q \in Requests |-> StatusOf(q)']
<1> DEFINE shown == [q \in Requests |-> ShownOf(q)]
<1> DEFINE shownN == [q \in Requests |-> ShownOf(q)']
<1>1. /\ uids \in [Requests -> SUBSET Workloads]
      /\ uids' \in [Requests -> SUBSET Workloads]
  BY DEF TypeOK
<1>2. /\ statusN = [status EXCEPT ![p] = StatusOf(p)']
      /\ shownN = [shown EXCEPT ![p] = ShownOf(p)']
      /\ uids' = [uids EXCEPT ![p] = uids'[p]]
  BY <1>1
<1>3. /\ status[p] = StatusOf(p) /\ shown[p] = ShownOf(p)
      /\ StatusOf(p)' = StatusOf(p) => statusN = status
      /\ ShownOf(p)' = ShownOf(p) => shownN = shown
      /\ uids'[p] = uids[p] => uids' = uids
  BY <1>1, <1>2
<1>4. CASE /\ uids'[p] = uids[p] \/ StatusOf(p) = "absent"
           /\ StatusOf(p)' = StatusOf(p) /\ ShownOf(p)' = ShownOf(p)
  <2>1. statusN = status /\ shownN = shown
    BY <1>3, <1>4
  <2>2. CASE uids'[p] = uids[p]
    BY <1>3, <2>1, <2>2 DEF Results!vars
  <2>3. CASE StatusOf(p) = "absent"
    <3>1. status[p] = "absent" /\ uids' = [uids EXCEPT ![p] = uids'[p]]
          /\ uids'[p] \in SUBSET Workloads
      BY <1>1, <1>2, <1>3, <2>3
    <3>2. Results!Plan(p)
      BY <2>1, <3>1 DEF Results!Plan
    <3> QED BY <3>2 DEF Results!Next
  <2> QED BY <1>4, <2>2, <2>3
<1>5. CASE /\ uids'[p] = uids[p]
           /\ StatusOf(p) \in {"absent", "running"} /\ StatusOf(p)' = "running"
           /\ \E w \in uids[p] \ ShownOf(p) : ShownOf(p)' = ShownOf(p) \union {w}
  <2>1. PICK w \in uids[p] \ shown[p] : shownN = [shown EXCEPT ![p] = shown[p] \union {w}]
    BY <1>2, <1>3, <1>5
  <2>2. /\ status[p] \in {"absent", "running"} /\ uids' = uids
        /\ statusN = [status EXCEPT ![p] = "running"]
    BY <1>2, <1>3, <1>5
  <2>3. Results!Show(p)
    BY <2>1, <2>2 DEF Results!Show
  <2> QED BY <2>3 DEF Results!Next
<1>6. CASE /\ uids'[p] = uids[p]
           /\ StatusOf(p) \in {"absent", "running"}
           /\ \/ StatusOf(p)' = "failed"
              \/ StatusOf(p)' = "completed" /\ ShownOf(p) = uids[p]
           /\ ShownOf(p)' = ShownOf(p)
  <2>1. status[p] \in {"absent", "running"} /\ uids' = uids /\ shownN = shown
    BY <1>3, <1>6
  <2>2. CASE StatusOf(p)' = "failed"
    <3>1. statusN = [status EXCEPT ![p] = "failed"]
      BY <1>2, <2>2
    <3>2. Results!Fail(p)
      BY <2>1, <3>1 DEF Results!Fail
    <3> QED BY <3>2 DEF Results!Next
  <2>3. CASE StatusOf(p)' = "completed" /\ ShownOf(p) = uids[p]
    <3>1. statusN = [status EXCEPT ![p] = "completed"] /\ shown[p] = uids[p]
      BY <1>2, <1>3, <2>3
    <3>2. Results!Succeed(p)
      BY <2>1, <3>1 DEF Results!Succeed
    <3> QED BY <3>2 DEF Results!Next
  <2> QED BY <1>6, <2>2, <2>3
<1>7. CASE uids'[p] = uids[p] /\ StatusOf(p)' = "gone" /\ ShownOf(p)' = {}
  <2>1. /\ uids' = uids
        /\ statusN = [q \in Requests |-> IF q \in {p} THEN "gone" ELSE status[q]]
        /\ shownN = [q \in Requests |-> IF q \in {p} THEN {} ELSE shown[q]]
    BY <1>3, <1>7
  <2>2. {p} \in (SUBSET Requests) \ {{}}
    OBVIOUS
  <2>3. Results!Vanish
    BY <2>1, <2>2 DEF Results!Vanish
  <2> QED BY <2>3 DEF Results!Next
<1> QED BY <1>4, <1>5, <1>6, <1>7 DEF Looks

LEMMA VanishIsResult ==
  ASSUME uids' = uids,
         \A q \in Requests :
           \/ StatusOf(q)' = StatusOf(q) /\ ShownOf(q)' = ShownOf(q)
           \/ StatusOf(q)' = "gone" /\ ShownOf(q)' = {}
  PROVE  [Results!Next]_Results!vars
<1> DEFINE status == [q \in Requests |-> StatusOf(q)]
<1> DEFINE statusN == [q \in Requests |-> StatusOf(q)']
<1> DEFINE shown == [q \in Requests |-> ShownOf(q)]
<1> DEFINE shownN == [q \in Requests |-> ShownOf(q)']
<1> DEFINE S == {q \in Requests : StatusOf(q)' = "gone" /\ ShownOf(q)' = {}}
<1>1. CASE S = {}
  <2>1. statusN = status /\ shownN = shown
    BY <1>1
  <2> QED BY <2>1 DEF Results!vars
<1>2. CASE S # {}
  <2>1. /\ statusN = [q \in Requests |-> IF q \in S THEN "gone" ELSE status[q]]
        /\ shownN = [q \in Requests |-> IF q \in S THEN {} ELSE shown[q]]
    OBVIOUS
  <2>2. S \in (SUBSET Requests) \ {{}}
    BY <1>2
  <2> HIDE DEF S
  <2>3. Results!Vanish
    BY <2>1, <2>2 DEF Results!Vanish
  <2> QED BY <2>3 DEF Results!Next
<1> QED BY <1>1, <1>2

(* Steps that commit nothing: the worst they do is lose a draft.           *)
LEMMA UncommittedIsResult ==
  ASSUME Inv, Inv', \A q \in Requests : Shaped(q),
         runs' = runs, recs' = recs, runId' = runId, uids' = uids,
         \A q \in Requests : draftRuns'[q] \in {draftRuns[q], {}}
  PROVE  [Results!Next]_Results!vars
<1> SUFFICES ASSUME NEW q \in Requests
             PROVE  \/ StatusOf(q)' = StatusOf(q) /\ ShownOf(q)' = ShownOf(q)
                    \/ StatusOf(q)' = "gone" /\ ShownOf(q)' = {}
  BY VanishIsResult
<1>1. RecsBy(q)' = RecsBy(q)
  BY DEF RecsBy
<1>2. CASE draftRuns'[q] = draftRuns[q]
  BY <1>1, <1>2, LooksSame
<1>3. CASE draftRuns[q] # {} /\ draftRuns'[q] = {}
  <2>1. \A r \in runs' : r.owner # q
    BY <1>3 DEF Shaped
  <2>2. runId'[q] # 0
    BY <1>3 DEF Inv, Drafts, TypeInv, StageOK
  <2> QED BY <1>3, <2>1, <2>2, NothingShownNext
<1> QED BY <1>2, <1>3

LEMMA CreateIsResult ==
  ASSUME Inv, Inv', \A q \in Requests : Shaped(q), NEW p \in Requests, CreateRun(p)
  PROVE  [Results!Next]_Results!vars
<1>1. PICK id \in NextId(Ids(runs), issuedRuns) :
        draftRuns' = [draftRuns EXCEPT ![p] =
             {[id |-> id, cluster |-> clusterId[p], owner |-> p, status |-> "running"]}]
  BY DEF CreateRun
<1>2. /\ runs' = runs /\ recs' = recs /\ uids' = uids /\ pc[p] = "create"
      /\ draftRuns'[p] # {}
      /\ \A q \in Requests \ {p} : draftRuns'[q] = draftRuns[q] /\ runId'[q] = runId[q]
  BY <1>1 DEF CreateRun, Inv, TypeInv, TypeOK, results
<1>3. runId[p] = 0
  BY <1>2 DEF Shaped, Early
<1>4. ASSUME NEW q \in Requests
      PROVE  StatusOf(q)' = StatusOf(q) /\ ShownOf(q)' = ShownOf(q)
  <2>1. RecsBy(q)' = RecsBy(q)
    BY <1>2 DEF RecsBy
  <2>2. runId'[q] = 0 \/ draftRuns'[q] # {} <=> runId[q] = 0 \/ draftRuns[q] # {}
    BY <1>2, <1>3
  <2> QED BY <1>2, <2>1, <2>2, LooksSame
<1> QED BY <1>2, <1>4, VanishIsResult

LEMMA ListIsResult ==
  ASSUME Inv, Inv', \A q \in Requests : Shaped(q), NEW p \in Requests, ListUids(p)
  PROVE  [Results!Next]_Results!vars
<1>1. /\ runs' = runs /\ recs' = recs /\ runId' = runId /\ draftRuns' = draftRuns
      /\ pc[p] = "list" /\ \A q \in Requests \ {p} : uids'[q] = uids[q]
  BY DEF ListUids, Inv, TypeInv, TypeOK, results, connection
<1>2. ASSUME NEW q \in Requests
      PROVE  StatusOf(q)' = StatusOf(q) /\ ShownOf(q)' = ShownOf(q)
  <2>1. RecsBy(q)' = RecsBy(q)
    BY <1>1 DEF RecsBy
  <2> QED BY <1>1, <2>1, LooksSame
<1>3. StatusOf(p) = "absent"
  BY <1>1, NothingShown DEF Shaped
<1>4. Looks(p)
  BY <1>2, <1>3 DEF Looks
<1> QED BY <1>1, <1>2, <1>4, LooksAreResults DEF Inv, TypeInv

(* While its thread is at work a run is not seen, or seen as running.      *)
LEMMA ShownAtWork ==
  ASSUME Inv, NEW p \in Requests, Shaped(p), pc[p] \in Working,
         NEW r \in RunsSeenBy(p), r.owner = p
  PROVE  /\ StatusOf(p) \in {"absent", "running"}
         /\ ShownOf(p) = {x.uid : x \in RecsBy(p)}
<1>1. CASE r \in runs
  BY <1>1, ShownIs DEF Shaped, RunsSeenBy
<1>2. CASE r \in draftRuns[p]
  <2>1. \A s \in runs : s.owner # p
    BY <1>2 DEF Shaped
  <2>2. RecsBy(p) = {}
    BY <2>1, NothingStored
  <2> QED BY <1>2, <2>1, <2>2, NothingShown
<1> QED BY <1>1, <1>2 DEF RunsSeenBy

LEMMA WriteIsResult ==
  ASSUME Inv, Inv', \A q \in Requests : Shaped(q), NEW p \in Requests,
         NEW w \in Workloads, WriteRecommendation(p, w)
  PROVE  [Results!Next]_Results!vars
<1>0. PICK d \in SUBSET Details : recs' = recs \union
        {[run |-> runId[p], group |-> groupId[p], uid |-> w, details |-> d, by |-> p]}
  BY DEF WriteRecommendation
<1> DEFINE new == [run |-> runId[p], group |-> groupId[p], uid |-> w,
                   details |-> d, by |-> p]
<1>1. /\ runs' = RunsSeenBy(p) /\ recs' = recs \union {new}
      /\ runId' = runId /\ uids' = uids /\ pc[p] = "process" /\ w \in pending[p]
      /\ RunExists(p)
      /\ \A q \in Requests \ {p} : draftRuns'[q] = draftRuns[q]
  BY <1>0 DEF WriteRecommendation, EndTx, Inv, TypeInv, TypeOK
<1>2. new.by = p /\ new.uid = w
  OBVIOUS
<1> HIDE DEF new
<1>3. ASSUME NEW q \in Requests \ {p}
      PROVE  StatusOf(q)' = StatusOf(q) /\ ShownOf(q)' = ShownOf(q)
  <2>1. \A r : r.owner = q => (r \in runs' <=> r \in runs)
    BY <1>1, OthersRows DEF OwnCommit, Working
  <2>2. RecsBy(q)' = RecsBy(q)
    BY <1>1, <1>2 DEF RecsBy
  <2> QED BY <1>1, <2>1, <2>2, LooksSame
<1>4. PICK r \in RunsSeenBy(p) : r.id = runId[p]
  BY <1>1 DEF RunExists
<1>5. r.owner = p /\ r.status = "running"
  <2>1. r \in AllRuns
    BY <1>4 DEF RunsSeenBy, AllRuns
  <2>2. r.owner = p
    BY <1>1, <1>4, <2>1 DEF Inv, RunIdsHeld, Working
  <2> QED BY <1>1, <2>2 DEF Shaped, Working
<1>6. /\ StatusOf(p) \in {"absent", "running"} /\ ShownOf(p) = {x.uid : x \in RecsBy(p)}
  BY <1>1, <1>5, ShownAtWork DEF Working
<1>7. StatusOf(p)' = "running" /\ ShownOf(p)' = {x.uid : x \in RecsBy(p)'}
  BY <1>1, <1>5, ShownIsNext
<1>8. RecsBy(p)' = RecsBy(p) \union {new}
  BY <1>1, <1>2 DEF RecsBy
<1>9. ShownOf(p)' = ShownOf(p) \union {w}
  BY <1>2, <1>6, <1>7, <1>8
<1>10. w \in uids[p] \ ShownOf(p)
  <2>1. PICK g \in GroupsBy(p) : g.id = groupId[p] /\ w \in g.members
    BY <1>1 DEF Inv, ThreadCovers
  <2>2. /\ g.members = {v \in uids[p] : label[p][v] = g.index}
        /\ RankedIn(p, g) = g.members \ pending[p]
    BY DEF Inv, GroupsRanked
  <2>3. ASSUME NEW x \in RecsBy(p), x.uid = w PROVE FALSE
    <3>1. PICK h \in groups : h.by = p /\ h.id = x.group /\ w \in h.members
      BY <2>3 DEF Inv, GroupsRanked
    <3>2. h \in GroupsBy(p)
      BY <3>1 DEF GroupsBy, GroupsSeenBy
    <3>3. h.members = {v \in uids[p] : label[p][v] = h.index}
      BY <3>2 DEF Inv, GroupsRanked
    <3>4. h.index = g.index
      BY <2>1, <2>2, <3>1, <3>3
    <3>5. h = g
      BY <3>2, <3>4 DEF Inv, GroupsRanked
    <3>6. w \in RankedIn(p, g)
      BY <2>3, <3>1, <3>5 DEF RankedIn
    <3> QED BY <1>1, <2>2, <3>6
  <2> QED BY <1>6, <2>1, <2>2, <2>3
<1>11. Looks(p)
  BY <1>1, <1>6, <1>7, <1>9, <1>10 DEF Looks
<1> QED BY <1>1, <1>3, <1>11, LooksAreResults DEF Inv, TypeInv

(* An outcome: a success shows all, since no group is left.                *)
LEMMA FinishIsResult ==
  ASSUME Inv, Inv', \A q \in Requests : Shaped(q), NEW p \in Requests,
         NEW s \in {"completed", "failed"}, FinishRun(p, s), pc[p] \in Working,
         s = "completed" => pc[p] = "process" /\ pending[p] = {} /\ left[p] = {}
  PROVE  [Results!Next]_Results!vars
<1>1. /\ runs' = WithStatus(RunsSeenBy(p), runId[p], s)
      /\ recs' = recs /\ runId' = runId /\ uids' = uids /\ draftRuns'[p] = {}
      /\ \A q \in Requests \ {p} : draftRuns'[q] = draftRuns[q]
  BY DEF FinishRun, EndTx, Inv, TypeInv, TypeOK, thread
<1>2. \A q \in Requests : RecsBy(q)' = RecsBy(q)
  BY <1>1 DEF RecsBy
<1>3. ASSUME NEW q \in Requests \ {p}
      PROVE  StatusOf(q)' = StatusOf(q) /\ ShownOf(q)' = ShownOf(q)
  <2>1. \A r : r.owner = q => (r \in runs' <=> r \in runs)
    BY <1>1, OthersRows DEF OwnCommit
  <2> QED BY <1>1, <1>2, <2>1, LooksSame
<1>4. \A o \in RunsSeenBy(p) : o \in RunRows /\ o \in AllRuns
  BY DEF Inv, TypeInv, TypeOK, RunsSeenBy, AllRuns
<1>5. CASE \A o \in RunsSeenBy(p) : o.owner # p
  <2>1. /\ \A r \in runs : r.owner # p
        /\ draftRuns[p] = {}
    BY <1>5 DEF RunsSeenBy, Inv, Drafts
  <2>2. ASSUME NEW r \in runs' PROVE r.owner # p
    <3>1. PICK o \in RunsSeenBy(p) :
            r = IF o.id = runId[p] THEN [o EXCEPT !.status = s] ELSE o
      BY <1>1 DEF WithStatus
    <3>2. r.owner = o.owner
      BY <1>4, <3>1 DEF RunRows
    <3> QED BY <1>5, <3>2
  <2>3. StatusOf(p)' = StatusOf(p) /\ ShownOf(p)' = ShownOf(p)
    BY <1>1, <2>1, <2>2, NothingShown, NothingShownNext
  <2>4. Looks(p)
    BY <1>1, <2>3 DEF Looks
  <2> QED BY <1>1, <1>3, <2>4, LooksAreResults DEF Inv, TypeInv
<1>6. ASSUME NEW o \in RunsSeenBy(p), o.owner = p
      PROVE  [Results!Next]_Results!vars
  <2> DEFINE r == [o EXCEPT !.status = s]
  <2>1. o.id = runId[p]
    BY <1>4, <1>6 DEF Inv, RunRowsKnown
  <2>2. r \in runs' /\ r.owner = p /\ r.status = s
    BY <1>1, <1>4, <1>6, <2>1 DEF WithStatus, RunRows
  <2> HIDE DEF r
  <2>3. StatusOf(p)' = s /\ ShownOf(p)' = {x.uid : x \in RecsBy(p)'}
    BY <2>2, ShownIsNext
  <2>4. StatusOf(p) \in {"absent", "running"} /\ ShownOf(p) = {x.uid : x \in RecsBy(p)}
    BY <1>6, ShownAtWork
  <2>5. ShownOf(p)' = ShownOf(p)
    BY <1>2, <2>3, <2>4
  <2>6. s = "completed" => ShownOf(p) = uids[p]
    <3> SUFFICES ASSUME s = "completed" PROVE {x.uid : x \in RecsBy(p)} = uids[p]
      BY <2>4
    <3>1. Covered(p)
      BY <1>6, <2>1 DEF Inv, ThreadCovers, RunExists
    <3>2. \A g \in GroupsBy(p) :
            /\ g.members = {v \in uids[p] : label[p][v] = g.index}
            /\ RankedIn(p, g) = g.members
      <4>1. \A g \in GroupsBy(p) :
              /\ g.members = {v \in uids[p] : label[p][v] = g.index}
              /\ RankedIn(p, g) = g.members \ pending[p]
        BY DEF Inv, GroupsRanked
      <4>2. pending[p] = {}
        OBVIOUS
      <4> QED BY <4>1, <4>2
    <3>3. \A v \in uids[p] : \E x \in RecsBy(p) : x.uid = v
      BY <3>1, <3>2 DEF Covered, RankedIn
    <3>4. \A x \in RecsBy(p) : \E g \in groups : g.by = p /\ x.uid \in g.members
      BY DEF Inv, GroupsRanked
    <3>5. \A g \in groups : g.by = p => g \in GroupsBy(p)
      BY DEF GroupsBy, GroupsSeenBy
    <3>6. \A x \in RecsBy(p) : x.uid \in uids[p]
      BY <3>2, <3>4, <3>5
    <3> QED BY <3>3, <3>6
  <2>7. Looks(p)
    BY <1>1, <2>3, <2>4, <2>5, <2>6 DEF Looks
  <2> QED BY <1>1, <1>3, <2>7, LooksAreResults DEF Inv, TypeInv
<1> QED BY <1>5, <1>6

LEMMA DeleteIsResult ==
  ASSUME Inv, Inv', \A q \in Requests : Shaped(q), NEW c \in Clusters, DeleteCluster(c)
  PROVE  [Results!Next]_Results!vars
<1> DEFINE gone == Ids({r \in runs : r.cluster = clusters[c]})
<1>1. /\ runs' = {r \in runs : r.id \notin gone} /\ recs' = {x \in recs : x.run \notin gone}
      /\ runId' = runId /\ uids' = uids /\ draftRuns' = draftRuns
  BY DEF DeleteCluster, connection, thread
<1> HIDE DEF gone
<1> SUFFICES ASSUME NEW q \in Requests
             PROVE  \/ StatusOf(q)' = StatusOf(q) /\ ShownOf(q)' = ShownOf(q)
                    \/ StatusOf(q)' = "gone" /\ ShownOf(q)' = {}
  BY <1>1, VanishIsResult
<1>2. CASE \A r \in runs : r.owner # q
  BY <1>1, <1>2, NothingShown, NothingShownNext
<1>3. ASSUME NEW r \in runs, r.owner = q
      PROVE  \/ StatusOf(q)' = StatusOf(q) /\ ShownOf(q)' = ShownOf(q)
             \/ StatusOf(q)' = "gone" /\ ShownOf(q)' = {}
  <2>1. r.id = runId[q] /\ r.id # 0 /\ \A s \in runs : s.owner = q => s = r
    BY <1>3 DEF Inv, RunIdsHeld, RunRowsKnown, AllRuns, TypeInv, TypeOK, RunRows
  <2>2. CASE r \in runs'
    <3>1. \A x \in recs : x.by = q => x.run = r.id
      BY <2>1 DEF Inv, ResultsOwned
    <3>2. RecsBy(q)' = RecsBy(q)
      BY <1>1, <2>2, <3>1 DEF RecsBy
    <3>3. \A s : s.owner = q => (s \in runs' <=> s \in runs)
      BY <1>1, <2>1, <2>2
    <3> QED BY <1>1, <3>2, <3>3, LooksSame
  <2>3. CASE r \notin runs'
    <3>1. \A s \in runs' : s.owner # q
      BY <1>1, <2>1, <2>3
    <3>2. draftRuns'[q] = {} /\ runId'[q] # 0
      BY <1>1, <1>3, <2>1 DEF Shaped
    <3> QED BY <3>1, <3>2, NothingShownNext
  <2> QED BY <2>2, <2>3
<1> QED BY <1>2, <1>3

LEMMA StepIsResult ==
  ASSUME Inv, Inv', \A q \in Requests : Shaped(q), [Next]_vars
  PROVE  [Results!Next]_Results!vars
<1>1. ASSUME \/ UNCHANGED vars \/ Crash
             \/ \E c \in Clusters, W \in SUBSET Workloads,
                   kinds \in SUBSET (Resources \union {"allocations"}) :
                  CollectorCommits(c, W, kinds)
             \/ \E q \in Requests :
                  \/ EnsureCluster(q) \/ ResolveCluster(q) \/ ReadAsOf(q) \/ Reject(q)
                  \/ \E k \in Cells : LoadWorkload(q, k)
                  \/ ClusterWorkloads(q) \/ BeginGroup(q) \/ ComputeFails(q)
                  \/ StatementFails(q) \/ LoseFailure(q) \/ DatabaseFails(q)
                  \/ Answer(q)
      PROVE  [Results!Next]_Results!vars
  <2>1. runs' = runs /\ recs' = recs /\ runId' = runId /\ uids' = uids
    BY <1>1 DEF vars, Crash, CollectorCommits, EnsureCluster, ResolveCluster, ReadAsOf,
         Reject, LoadWorkload, ClusterWorkloads, BeginGroup, ComputeFails, StatementFails,
         LoseFailure, DatabaseFails, Answer, results, thread
  <2>2. \A q \in Requests : draftRuns'[q] \in {draftRuns[q], {}}
    BY <1>1 DEF vars, Crash, CollectorCommits, EnsureCluster, ResolveCluster, ReadAsOf,
         Reject, LoadWorkload, ClusterWorkloads, BeginGroup, ComputeFails, StatementFails,
         LoseFailure, DatabaseFails, Answer, connection, EndTx, Inv, TypeInv, TypeOK
  <2> QED BY <2>1, <2>2, UncommittedIsResult
<1>2. ASSUME NEW q \in Requests, CompleteRun(q) \/ RecordFailure(q)
      PROVE  [Results!Next]_Results!vars
  <2>1. CASE CompleteRun(q)
    BY <2>1, FinishIsResult DEF CompleteRun, Working
  <2>2. CASE RecordFailure(q)
    BY <2>2, FinishIsResult DEF RecordFailure, Working
  <2> QED BY <1>2, <2>1, <2>2
<1>3. ASSUME NEW q \in Requests, CreateRun(q) \/ ListUids(q)
      PROVE  [Results!Next]_Results!vars
  BY <1>3, CreateIsResult, ListIsResult
<1>4. ASSUME NEW q \in Requests, NEW w \in Workloads, WriteRecommendation(q, w)
      PROVE  [Results!Next]_Results!vars
  BY <1>4, WriteIsResult
<1>5. ASSUME NEW c \in Clusters, DeleteCluster(c)
      PROVE  [Results!Next]_Results!vars
  BY <1>5, DeleteIsResult
<1> QED BY <1>1, <1>2, <1>3, <1>4, <1>5 DEF Next, Proceed

(* On postgres, or while no cluster is deleted, AnalysisRun implements     *)
(* RunResults: what readers see of a run grows while it is running, is     *)
(* whole when it is completed, is final after its outcome (runner.py:      *)
(* 97-111), and goes at once or not at all.                                *)
THEOREM ResultsCorrect == NoReuse => (Spec => ImplementsRunResults)
<1> SUFFICES ASSUME NoReuse PROVE Spec => Results!Spec
  BY DEF ImplementsRunResults
<1>1. Init => Results!Init
  <2> SUFFICES ASSUME Init PROVE Results!Init
    OBVIOUS
  <2>1. \A q \in Requests : StatusOf(q) = "absent" /\ ShownOf(q) = {}
    BY DEF Init, StatusOf, ShownOf
  <2> QED BY <2>1 DEF Init, Results!Init
<1>2. Init => \A q \in Requests : Shaped(q)
  BY DEF Init, Shaped, RunsSeenBy, Early, Working
<1>3. Inv /\ (\A q \in Requests : Shaped(q)) /\ [Next]_vars
        => (\A q \in Requests : Shaped(q))'
  BY ShapedStep
<1>4. Inv /\ Inv' /\ (\A q \in Requests : Shaped(q)) /\ [Next]_vars
        => [Results!Next]_Results!vars
  BY StepIsResult
<1>5. Spec => []Inv
  BY InvHolds
<1> QED BY <1>1, <1>2, <1>3, <1>4, <1>5, PTL DEF Spec, Results!Spec

-----------------------------------------------------------------------------
(***************************************************************************)
(* Answers.  A request is answered because what is left to do shrinks, ... *)
(***************************************************************************)

(* Statements a thread has before it, at most: so many to store a group,   *)
PerGroup == Cardinality(Workloads) + 1

(* SELECTs of the load,                                                    *)
Unread(q) == {k \in Cells : ~ HasRead(q, k)}

(* and then the stages, the last of which are the outcome and the answer.  *)
StagesOf(p) ==
  CASE p = "idle" -> 5 [] p = "resolve" -> 4 [] p = "asof" -> 3
    [] p = "create" -> 2 [] p = "list" -> 1 [] OTHER -> 0

WorkAt(p, groupsLeft, recsLeft, unread) ==
  CASE p \in Verdicts -> 1
    [] p \in {"failing", "broken"} -> 2
    [] p = "process" -> 3 + groupsLeft * PerGroup + recsLeft
    [] p \in {"idle", "resolve", "asof", "create", "list", "load"} ->
         4 + MaxGroups * PerGroup + recsLeft + unread + StagesOf(p)
    [] OTHER -> 0

Work(q) ==
  WorkAt(pc[q], Cardinality(left[q]), Cardinality(pending[q]), Cardinality(Unread(q)))

(* Whatever a thread does brings it nearer to its answer (the loops of     *)
(* runner.py:83 and 99-105 are over finite collections, and no failure     *)
(* is tried again), and nothing another does sets it back.                 *)
WorkShrinks ==
  [][\A q \in Requests :
       /\ Work(q) \in Nat /\ Work(q)' <= Work(q)
       /\ EnsureCluster(q) \/ Proceed(q) => Work(q)' < Work(q)]_vars

(* Whatever a thread counts is finite. *)
LEMMA Counts ==
  ASSUME IsFiniteSet(Workloads), NEW L \in SUBSET GroupIndexes, NEW P \in SUBSET Workloads
  PROVE  /\ IsFiniteSet(L) /\ Cardinality(L) \in Nat /\ Cardinality(L) <= MaxGroups
         /\ IsFiniteSet(P) /\ Cardinality(P) \in Nat /\ Cardinality(P) < PerGroup
         /\ PerGroup \in Nat /\ MaxGroups \in Nat
<1>1. MaxGroups \in Nat \ {0}
  BY BoundsAssumption
<1>2. IsFiniteSet(GroupIndexes) /\ Cardinality(GroupIndexes) = MaxGroups
  <2>1. 0 \in Int /\ MaxGroups - 1 \in Int /\ ~ 0 > MaxGroups - 1 /\ (MaxGroups - 1) - 0 + 1 = MaxGroups
    BY <1>1
  <2>2. /\ IsFiniteSet(0 .. (MaxGroups - 1))
        /\ Cardinality(0 .. (MaxGroups - 1)) = (MaxGroups - 1) - 0 + 1
    BY <2>1, FS_Interval
  <2> QED BY <2>1, <2>2 DEF GroupIndexes
<1>3. IsFiniteSet(L) /\ Cardinality(L) <= MaxGroups /\ Cardinality(L) \in Nat
  BY <1>2, FS_Subset, FS_CardinalityType
<1>4. /\ IsFiniteSet(P) /\ Cardinality(P) <= Cardinality(Workloads) /\ Cardinality(P) \in Nat
      /\ Cardinality(Workloads) \in Nat
  BY FS_Subset, FS_CardinalityType
<1> QED BY <1>1, <1>3, <1>4 DEF PerGroup

(* A thread that only gets to another stage has as many groups and         *)
(* workloads before it.                                                    *)
LEMMA StageShrinks ==
  ASSUME NEW p, NEW o, NEW l \in Nat, NEW n \in Nat, NEW k \in Nat,
         l <= MaxGroups, PerGroup \in Nat, MaxGroups \in Nat,
         \/ p = "idle" /\ o \in {"resolve", "create", "rejected"}
         \/ p = "resolve" /\ o \in {"asof", "rejected"}
         \/ p = "asof" /\ o \in {"create", "rejected"}
         \/ p = "create" /\ o \in {"list", "rejected"}
         \/ p = "list" /\ o \in {"load", "fault"}
         \/ p = "load" /\ o \in {"process", "failing", "fault"}
         \/ p = "process" /\ o \in {"completed", "failing", "broken", "fault"}
         \/ p \in {"failing", "broken"} /\ o \in {"failed", "lost", "fault"}
         \/ p \in Verdicts /\ o = "done",
         NEW m \in Nat, o # "process" => m = l, m <= MaxGroups
  PROVE  /\ WorkAt(o, m, n, k) \in Nat /\ WorkAt(p, l, n, k) \in Nat
         /\ WorkAt(o, m, n, k) < WorkAt(p, l, n, k)
<1>1. PICK a \in Nat, b \in Nat, c \in Nat :
        a = l * PerGroup /\ b = MaxGroups * PerGroup /\ c = m * PerGroup
  BY SMT
<1>2. c <= b
  <2>1. \A x, y, z \in Nat : x <= y => x * z <= y * z
    OBVIOUS
  <2> QED BY <1>1, <2>1
<1>3. CASE p = "idle" /\ o \in {"resolve", "create", "rejected"}
  BY <1>1, <1>2, <1>3 DEF WorkAt, StagesOf, Verdicts
<1>4. CASE p = "resolve" /\ o \in {"asof", "rejected"}
  BY <1>1, <1>2, <1>4 DEF WorkAt, StagesOf, Verdicts
<1>5. CASE p = "asof" /\ o \in {"create", "rejected"}
  BY <1>1, <1>2, <1>5 DEF WorkAt, StagesOf, Verdicts
<1>6. CASE p = "create" /\ o \in {"list", "rejected"}
  BY <1>1, <1>2, <1>6 DEF WorkAt, StagesOf, Verdicts
<1>7. CASE p = "list" /\ o \in {"load", "fault"}
  BY <1>1, <1>2, <1>7 DEF WorkAt, StagesOf, Verdicts
<1>8. CASE p = "load" /\ o \in {"process", "failing", "fault"}
  BY <1>1, <1>2, <1>8 DEF WorkAt, StagesOf, Verdicts
<1>9. CASE p = "process" /\ o \in {"completed", "failing", "broken", "fault"}
  BY <1>1, <1>2, <1>9 DEF WorkAt, StagesOf, Verdicts
<1>10. CASE p \in {"failing", "broken"} /\ o \in {"failed", "lost", "fault"}
  BY <1>1, <1>2, <1>10 DEF WorkAt, StagesOf, Verdicts
<1>11. CASE p \in Verdicts /\ o = "done"
  BY <1>1, <1>2, <1>11 DEF WorkAt, StagesOf, Verdicts
<1> QED BY <1>3, <1>4, <1>5, <1>6, <1>7, <1>8, <1>9, <1>10, <1>11

LEMMA WorkAtType ==
  ASSUME NEW p, NEW l \in Nat, NEW n \in Nat, NEW k \in Nat, PerGroup \in Nat, MaxGroups \in Nat
  PROVE  WorkAt(p, l, n, k) \in Nat
<1>1. l * PerGroup \in Nat /\ MaxGroups * PerGroup \in Nat /\ StagesOf(p) \in Nat
  BY DEF StagesOf
<1> QED BY <1>1 DEF WorkAt

(* What the work of a thread is counted from, before a step and after. *)
GroupsOfWork(q) == Cardinality(left[q])
RecsOfWork(q) == Cardinality(pending[q])
ReadsOfWork(q) == Cardinality(Unread(q))

(* There are finitely many rows to read. *)
LEMMA FiniteCells ==
  ASSUME IsFiniteSet(Workloads), IsFiniteSet(Resources)
  PROVE  IsFiniteSet(Cells)
<1> DEFINE Kinds == Resources \union {"allocations"}
           Pairs == Workloads \X Kinds
           f == [x \in Pairs |-> [uid |-> x[1], kind |-> x[2]]]
<1>1. IsFiniteSet(Kinds)
  BY FS_AddElement
<1>2. IsFiniteSet(Pairs)
  <2> HIDE DEF Kinds
  <2> QED BY <1>1, FS_Product
<1>3. f \in Surjection(Pairs, Cells)
  <2>1. f \in [Pairs -> Cells]
    BY DEF Cells
  <2>2. ASSUME NEW k \in Cells PROVE \E x \in Pairs : f[x] = k
    <3>1. <<k.uid, k.kind>> \in Pairs /\ k = [uid |-> k.uid, kind |-> k.kind]
      BY DEF Cells
    <3> QED BY <3>1
  <2> QED BY <2>1, <2>2 DEF Surjection
<1> QED
  <2> HIDE DEF f, Pairs
  <2> QED BY <1>2, <1>3, FS_Surjection

LEMMA ReadsCounted ==
  ASSUME IsFiniteSet(Workloads), IsFiniteSet(Resources), NEW S \in SUBSET Cells
  PROVE  IsFiniteSet(S) /\ Cardinality(S) \in Nat
BY FiniteCells, FS_Subset, FS_CardinalityType

LEMMA WorkIs ==
  ASSUME IsFiniteSet(Workloads), IsFiniteSet(Resources), TypeOK, TypeOK', NEW q \in Requests
  PROVE  /\ PerGroup \in Nat /\ MaxGroups \in Nat
         /\ GroupsOfWork(q) \in Nat /\ RecsOfWork(q) \in Nat /\ ReadsOfWork(q) \in Nat
         /\ GroupsOfWork(q)' \in Nat /\ RecsOfWork(q)' \in Nat /\ ReadsOfWork(q)' \in Nat
         /\ GroupsOfWork(q) <= MaxGroups /\ GroupsOfWork(q)' <= MaxGroups
         /\ RecsOfWork(q) < PerGroup /\ RecsOfWork(q)' < PerGroup
         /\ Work(q) = WorkAt(pc[q], GroupsOfWork(q), RecsOfWork(q), ReadsOfWork(q))
         /\ Work(q)' = WorkAt(pc'[q], GroupsOfWork(q)', RecsOfWork(q)', ReadsOfWork(q)')
         /\ Work(q) \in Nat /\ Work(q)' \in Nat
<1>1. /\ left[q] \in SUBSET GroupIndexes /\ left'[q] \in SUBSET GroupIndexes
      /\ pending[q] \in SUBSET Workloads /\ pending'[q] \in SUBSET Workloads
      /\ Unread(q) \in SUBSET Cells /\ Unread(q)' \in SUBSET Cells
  BY DEF TypeOK, Unread
<1>2. /\ PerGroup \in Nat /\ MaxGroups \in Nat
      /\ GroupsOfWork(q) \in Nat /\ GroupsOfWork(q) <= MaxGroups
      /\ GroupsOfWork(q)' \in Nat /\ GroupsOfWork(q)' <= MaxGroups
      /\ RecsOfWork(q) \in Nat /\ RecsOfWork(q) < PerGroup
      /\ RecsOfWork(q)' \in Nat /\ RecsOfWork(q)' < PerGroup
  BY <1>1, Counts DEF GroupsOfWork, RecsOfWork
<1>3. ReadsOfWork(q) \in Nat /\ ReadsOfWork(q)' \in Nat
  BY <1>1, ReadsCounted DEF ReadsOfWork
<1>4. /\ Work(q) = WorkAt(pc[q], GroupsOfWork(q), RecsOfWork(q), ReadsOfWork(q))
      /\ Work(q)' = WorkAt(pc'[q], GroupsOfWork(q)', RecsOfWork(q)', ReadsOfWork(q)')
  BY DEF Work, GroupsOfWork, RecsOfWork, ReadsOfWork
<1> QED BY <1>2, <1>3, <1>4, WorkAtType

(* Another's step.                                                         *)
LEMMA SameWork ==
  ASSUME NEW q \in Requests, pc'[q] = pc[q], left'[q] = left[q],
         pending'[q] = pending[q], seen'[q] = seen[q]
  PROVE  Work(q)' = Work(q)
BY DEF Work, Unread, HasRead

(* A step to the next stage. *)
LEMMA StageStep ==
  ASSUME IsFiniteSet(Workloads), IsFiniteSet(Resources), TypeOK, TypeOK', NEW q \in Requests,
         pending'[q] = pending[q], seen'[q] = seen[q],
         pc'[q] # "process" => left'[q] = left[q],
         \/ pc[q] = "idle" /\ pc'[q] \in {"resolve", "create", "rejected"}
         \/ pc[q] = "resolve" /\ pc'[q] \in {"asof", "rejected"}
         \/ pc[q] = "asof" /\ pc'[q] \in {"create", "rejected"}
         \/ pc[q] = "create" /\ pc'[q] \in {"list", "rejected"}
         \/ pc[q] = "list" /\ pc'[q] \in {"load", "fault"}
         \/ pc[q] = "load" /\ pc'[q] \in {"process", "failing", "fault"}
         \/ pc[q] = "process" /\ pc'[q] \in {"completed", "failing", "broken", "fault"}
         \/ pc[q] \in {"failing", "broken"} /\ pc'[q] \in {"failed", "lost", "fault"}
         \/ pc[q] \in Verdicts /\ pc'[q] = "done"
  PROVE  Work(q)' < Work(q)
<1>1. /\ RecsOfWork(q)' = RecsOfWork(q) /\ ReadsOfWork(q)' = ReadsOfWork(q)
      /\ pc'[q] # "process" => GroupsOfWork(q)' = GroupsOfWork(q)
  BY DEF RecsOfWork, ReadsOfWork, GroupsOfWork, Unread, HasRead
<1>2. PICK l \in Nat, m \in Nat, n \in Nat, k \in Nat :
        l = GroupsOfWork(q) /\ m = GroupsOfWork(q)' /\ n = RecsOfWork(q) /\ k = ReadsOfWork(q)
  BY WorkIs
<1>3. PerGroup \in Nat /\ MaxGroups \in Nat /\ l <= MaxGroups /\ m <= MaxGroups
  BY <1>2, WorkIs
<1>4. WorkAt(pc'[q], m, n, k) < WorkAt(pc[q], l, n, k)
  BY <1>1, <1>2, <1>3, StageShrinks
<1>5. Work(q) = WorkAt(pc[q], l, n, k) /\ Work(q)' = WorkAt(pc'[q], m, n, k)
  BY <1>1, <1>2, WorkIs
<1> QED BY <1>4, <1>5

(* A SELECT of the load leaves one less. *)
LEMMA LoadStep ==
  ASSUME IsFiniteSet(Workloads), IsFiniteSet(Resources), TypeOK, TypeOK', NEW q \in Requests,
         NEW k \in Cells, LoadWorkload(q, k)
  PROVE  Work(q)' < Work(q)
<1> DEFINE r == [cell |-> k, stamp |-> StampOf(q, k)]
<1>1. /\ pc[q] = "load" /\ pc'[q] = "load" /\ ~ HasRead(q, k)
      /\ left'[q] = left[q] /\ pending'[q] = pending[q] /\ seen'[q] = seen[q] \union {r}
  BY DEF LoadWorkload, TypeOK
<1>2. r.cell = k
  OBVIOUS
<1> HIDE DEF r
<1>3. \A j \in Cells : HasRead(q, j)' <=> HasRead(q, j) \/ j = k
  BY <1>1, <1>2 DEF HasRead
<1>4. Unread(q)' = Unread(q) \ {k} /\ k \in Unread(q) /\ Unread(q) \in SUBSET Cells
  BY <1>1, <1>3 DEF Unread
<1>5. ReadsOfWork(q)' = ReadsOfWork(q) - 1
  <2>1. IsFiniteSet(Unread(q))
    BY <1>4, ReadsCounted
  <2>2. Cardinality(Unread(q) \ {k}) = Cardinality(Unread(q)) - 1
    BY <1>4, <2>1, FS_RemoveElement
  <2> QED BY <1>4, <2>2 DEF ReadsOfWork
<1>6. GroupsOfWork(q)' = GroupsOfWork(q) /\ RecsOfWork(q)' = RecsOfWork(q)
  BY <1>1 DEF GroupsOfWork, RecsOfWork
<1>7. PICK a \in Nat : a = MaxGroups * PerGroup
  BY WorkIs, SMT
<1>8. /\ Work(q) = 4 + a + RecsOfWork(q) + ReadsOfWork(q) + StagesOf("load")
      /\ Work(q)' = 4 + a + RecsOfWork(q) + (ReadsOfWork(q) - 1) + StagesOf("load")
  BY <1>1, <1>5, <1>6, <1>7, WorkIs DEF WorkAt, Verdicts
<1>9. StagesOf("load") = 0
  BY DEF StagesOf
<1> QED BY <1>8, <1>9, WorkIs

(* A group begun: its recommendations are less than the room for it.       *)
LEMMA GroupStep ==
  ASSUME IsFiniteSet(Workloads), IsFiniteSet(Resources), TypeOK, TypeOK',
         NEW q \in Requests, BeginGroup(q)
  PROVE  Work(q)' < Work(q)
<1>1. pc[q] = "process" /\ pc'[q] = "process" /\ pending[q] = {}
  BY DEF BeginGroup
<1>2. PICK i \in left[q] : left'[q] = left[q] \ {i}
  BY DEF BeginGroup, NextGroup, TypeOK
<1>3. GroupsOfWork(q)' = GroupsOfWork(q) - 1 /\ RecsOfWork(q) = 0
  <2>1. IsFiniteSet(left[q])
    <3>1. left[q] \in SUBSET GroupIndexes
      BY DEF TypeOK
    <3>2. {} \in SUBSET Workloads
      OBVIOUS
    <3> QED BY <3>1, <3>2, Counts
  <2>2. Cardinality(left'[q]) = Cardinality(left[q]) - 1
    BY <1>2, <2>1, FS_RemoveElement
  <2> QED BY <1>1, <2>2, FS_EmptySet DEF GroupsOfWork, RecsOfWork
<1>4. PICK m \in Nat, n \in Nat, c \in Nat :
        /\ m = GroupsOfWork(q)' /\ n = RecsOfWork(q)' /\ c = PerGroup
  BY WorkIs
<1>5. GroupsOfWork(q) = m + 1 /\ n < c
  BY <1>3, <1>4, WorkIs
<1>6. Work(q) = 3 + (m + 1) * c + 0 /\ Work(q)' = 3 + m * c + n
  BY <1>1, <1>3, <1>4, <1>5, WorkIs DEF WorkAt, Verdicts
<1>7. (m + 1) * c = m * c + c /\ m * c \in Nat
  OBVIOUS
<1> QED BY <1>5, <1>6, <1>7

(* A recommendation stored, one less to store. *)
LEMMA RecStep ==
  ASSUME IsFiniteSet(Workloads), IsFiniteSet(Resources), TypeOK, TypeOK',
         NEW q \in Requests, NEW w \in Workloads,
         WriteRecommendation(q, w)
  PROVE  Work(q)' < Work(q)
<1>1. pc[q] = "process" /\ pc'[q] = "process" /\ w \in pending[q]
      /\ pending'[q] = pending[q] \ {w} /\ left'[q] = left[q]
  BY DEF WriteRecommendation, TypeOK
<1>2. RecsOfWork(q)' = RecsOfWork(q) - 1 /\ GroupsOfWork(q)' = GroupsOfWork(q)
  <2>1. IsFiniteSet(pending[q])
    <3>1. pending[q] \in SUBSET Workloads
      BY DEF TypeOK
    <3> QED BY <3>1, FS_Subset
  <2>2. Cardinality(pending'[q]) = Cardinality(pending[q]) - 1
    BY <1>1, <2>1, FS_RemoveElement
  <2> QED BY <1>1, <2>2 DEF GroupsOfWork, RecsOfWork
<1>3. PICK a \in Nat : a = GroupsOfWork(q) * PerGroup
  BY WorkIs, SMT
<1>4. Work(q) = 3 + a + RecsOfWork(q) /\ Work(q)' = 3 + a + (RecsOfWork(q) - 1)
  BY <1>1, <1>2, <1>3, WorkIs DEF WorkAt, Verdicts
<1> QED BY <1>4, WorkIs

LEMMA OwnStep ==
  ASSUME IsFiniteSet(Workloads), IsFiniteSet(Resources), TypeOK, TypeOK', NEW q \in Requests,
         EnsureCluster(q) \/ Proceed(q)
  PROVE  Work(q)' < Work(q)
<1> USE DEF TypeOK
<1>1. CASE EnsureCluster(q)
  BY <1>1, StageStep DEF EnsureCluster, thread
<1>2. CASE ResolveCluster(q)
  BY <1>2, StageStep DEF ResolveCluster
<1>3. CASE ReadAsOf(q)
  BY <1>3, StageStep DEF ReadAsOf
<1>4. CASE CreateRun(q)
  BY <1>4, StageStep DEF CreateRun
<1>5. CASE Reject(q)
  BY <1>5, StageStep DEF Reject, thread
<1>6. CASE ListUids(q)
  BY <1>6, StageStep DEF ListUids
<1>7. CASE \E k \in Cells : LoadWorkload(q, k)
  BY <1>7, LoadStep
<1>8. CASE ClusterWorkloads(q)
  BY <1>8, StageStep DEF ClusterWorkloads
<1>9. CASE BeginGroup(q)
  BY <1>9, GroupStep
<1>10. CASE \E w \in Workloads : WriteRecommendation(q, w)
  BY <1>10, RecStep
<1>11. CASE CompleteRun(q)
  BY <1>11, StageStep DEF CompleteRun, FinishRun, thread
<1>12. CASE ComputeFails(q)
  BY <1>12, StageStep DEF ComputeFails, thread
<1>13. CASE StatementFails(q)
  BY <1>13, StageStep DEF StatementFails, thread
<1>14. CASE RecordFailure(q)
  BY <1>14, StageStep DEF RecordFailure, FinishRun, thread
<1>15. CASE LoseFailure(q)
  BY <1>15, StageStep DEF LoseFailure, thread
<1>16. CASE Answer(q)
  BY <1>16, StageStep DEF Answer, thread
<1>17. CASE DatabaseFails(q)
  BY <1>17, StageStep DEF DatabaseFails, thread
<1> QED
  BY <1>1, <1>2, <1>3, <1>4, <1>5, <1>6, <1>7, <1>8, <1>9, <1>10, <1>11, <1>12,
     <1>13, <1>14, <1>15, <1>16, <1>17 DEF Proceed

LEMMA OthersStep ==
  ASSUME TypeOK, NEW p \in Requests, NEW q \in Requests, p # q,
         EnsureCluster(p) \/ Proceed(p)
  PROVE  Work(q)' = Work(q)
<1>1. pc'[q] = pc[q] /\ left'[q] = left[q] /\ pending'[q] = pending[q] /\ seen'[q] = seen[q]
  BY DEF EnsureCluster, Proceed, ResolveCluster, ReadAsOf, CreateRun, Reject, ListUids,
         LoadWorkload, ClusterWorkloads, BeginGroup, WriteRecommendation, CompleteRun,
         FinishRun, ComputeFails, StatementFails, DatabaseFails, RecordFailure, LoseFailure,
         Answer, thread, TypeOK
<1> QED BY <1>1, SameWork

(* A thread takes a bounded number of steps: of Work, a natural number,    *)
(* each of them leaves less, and nobody else adds to it.  So the loops of  *)
(* runner.py:98-107 end, however the steps of others fall between theirs.  *)
THEOREM WorkEnds ==
  IsFiniteSet(Workloads) /\ IsFiniteSet(Resources) => (Spec => WorkShrinks)
<1> SUFFICES ASSUME IsFiniteSet(Workloads), IsFiniteSet(Resources) PROVE Spec => WorkShrinks
  OBVIOUS
<1> DEFINE Less == \A q \in Requests :
             /\ Work(q) \in Nat /\ Work(q)' <= Work(q)
             /\ EnsureCluster(q) \/ Proceed(q) => Work(q)' < Work(q)
<1>1. TypeOK /\ TypeOK' /\ [Next]_vars => [Less]_vars
  <2> SUFFICES ASSUME TypeOK, TypeOK', Next, NEW q \in Requests
      PROVE  /\ Work(q) \in Nat /\ Work(q)' <= Work(q)
             /\ EnsureCluster(q) \/ Proceed(q) => Work(q)' < Work(q)
    OBVIOUS
  <2>1. Work(q) \in Nat /\ Work(q)' \in Nat
    BY WorkIs
  <2>2. CASE EnsureCluster(q) \/ Proceed(q)
    BY <2>1, <2>2, OwnStep
  <2>3. CASE ~ (EnsureCluster(q) \/ Proceed(q))
    <3>1. ASSUME NEW p \in Requests, EnsureCluster(p) \/ Proceed(p) PROVE Work(q)' <= Work(q)
      BY <2>1, <2>3, <3>1, OthersStep
    <3>2. CASE Crash
      <4>1. CASE pc[q] \in Active
        <5>1. pc'[q] = "dead"
          BY <3>2, <4>1 DEF Crash
        <5>2. Work(q)' = 0
          BY <5>1, WorkIs DEF WorkAt, Verdicts
        <5> QED BY <2>1, <2>3, <5>2
      <4>2. CASE pc[q] \notin Active
        <5>1. Work(q)' = Work(q)
          BY <3>2, <4>2, SameWork DEF Crash, thread
        <5> QED BY <2>1, <2>3, <5>1
      <4> QED BY <4>1, <4>2
    <3>3. ASSUME NEW c \in Clusters, DeleteCluster(c) PROVE Work(q)' <= Work(q)
      BY <2>1, <3>3, SameWork DEF DeleteCluster, thread
    <3>4. ASSUME NEW c \in Clusters, NEW W, NEW kinds, CollectorCommits(c, W, kinds)
          PROVE  Work(q)' <= Work(q)
      BY <2>1, <3>4, SameWork DEF CollectorCommits, thread
    <3> QED BY <2>1, <2>3, <3>1, <3>2, <3>3, <3>4 DEF Next
  <2> QED BY <2>1, <2>2, <2>3
<1> QED BY TypeCorrect, <1>1, PTL DEF Spec, WorkShrinks

-----------------------------------------------------------------------------
(***************************************************************************)
(* ... and are never out of reach.                                         *)
(***************************************************************************)

(* What a statement of the thread of q waits for, other than a fault.      *)
MayStep(q) ==
  \/ pc[q] \in {"resolve", "list", "failing", "broken"} \union Verdicts
  \/ /\ pc[q] = "asof"
     /\ \E m \in {0} \union {StampOf(q, k) : k \in Cells} : \A k \in Cells : StampOf(q, k) <= m
  \/ /\ pc[q] = "create"
     /\ MayWrite(q) /\ Named(clusterId[q]) # {} => NextId(Ids(runs), issuedRuns) # {}
  \/ /\ pc[q] = "load"
     /\ \/ \A w \in uids[q] : IsLoaded(q, w)
        \/ \E k \in ToLoad(q) :
             /\ ~ HasRead(q, k)
             /\ \A x \in seen[q] : x.cell.uid # k.uid => IsLoaded(q, x.cell.uid)
             /\ k.kind = "allocations" =>
                  \A j \in ToLoad(q) : j.uid = k.uid => j = k \/ HasRead(q, j)
  \/ /\ pc[q] = "process"
     /\ pending[q] = {} /\ left[q] # {} /\ MayWrite(q) /\ RunExists(q) =>
          NextGroup(q) # {} /\ NextId(Ids(GroupsSeenBy(q)), issuedGroups) # {}

(* A thread that has not answered can always take its next statement, or   *)
(* it fails at once: nobody waits for a row, a number or another thread.   *)
NobodyIsStuck == \A q \in Requests : pc[q] \in Active => MayStep(q)

(* The ids given so far have an end. *)
IdsEnd ==
  \E m \in Nat : \A x \in AllRuns \union AllGroups : x.id <= m

LEMMA LeastExists ==
  ASSUME NEW S \in SUBSET Nat, S # {}
  PROVE  \E x \in S : \A y \in S : x <= y
<1>1. PICK x \in S : \A y \in S : ~ (<<y, x>> \in OpToRel(<, Nat))
  BY NatLessThanWellFounded, WFMin, Zenon
<1>2. \A y \in S : ~ (y < x)
  BY <1>1 DEF OpToRel
<1>3. \A y \in S : y \in Nat
  OBVIOUS
<1> QED BY <1>2, <1>3

LEMMA GreatestExists ==
  ASSUME NEW S \in SUBSET Nat, S # {}, NEW m \in Nat, \A x \in S : x <= m
  PROVE  \E x \in S : \A y \in S : y <= x
<1> DEFINE T == {m - x : x \in S}
<1>1. \A x \in S : x \in Nat /\ m - x \in Nat
  OBVIOUS
<1>2. T \in SUBSET Nat /\ T # {}
  BY <1>1
<1>3. PICK t \in T : \A u \in T : t <= u
  <2> HIDE DEF T
  <2> QED BY <1>2, LeastExists
<1>4. PICK x \in S : t = m - x
  BY <1>3
<1>5. \A y \in S : m - y \in T
  OBVIOUS
<1>6. \A y \in S : m - x <= m - y
  BY <1>3, <1>4, <1>5
<1> QED BY <1>1, <1>6

(* A row always gets an id: ids have an end. *)
LEMMA NextIdExists ==
  ASSUME NEW ids \in SUBSET Nat, NEW last, NEW m \in Nat, \A i \in ids : i <= m
  PROVE  NextId(ids, last) # {}
<1>1. CASE Dialect # "sqlite"
  BY <1>1 DEF NextId
<1>2. CASE Dialect = "sqlite" /\ ids = {}
  BY <1>2 DEF NextId
<1>3. CASE Dialect = "sqlite" /\ ids # {}
  <2>1. PICK i \in ids : \A j \in ids : j <= i
    BY <1>3, GreatestExists
  <2>2. \A j \in ids : j \in Nat
    OBVIOUS
  <2>3. i + 1 \in {k + 1 : k \in ids} /\ \A j \in ids : j < i + 1
    BY <2>1, <2>2
  <2> QED BY <1>3, <2>3 DEF NextId
<1> QED BY <1>1, <1>2, <1>3

(* No step gives more than one id, or a row another one.                   *)
LEMMA IdsEndStep == TypeOK /\ TypeOK' /\ IdsEnd /\ [Next]_vars => IdsEnd'
<1> SUFFICES ASSUME TypeOK, TypeOK', IdsEnd, [Next]_vars PROVE IdsEnd'
  OBVIOUS
<1> DEFINE old == {x.id : x \in AllRuns \union AllGroups}
<1>1. PICK m \in Nat : \A i \in old : i <= m
  BY DEF IdsEnd
<1>2. ASSUME NEW k \in Nat, \A x \in AllRuns' \union AllGroups' : x.id \in old \/ x.id = k
      PROVE  IdsEnd'
  <2>1. PICK n \in Nat : m <= n /\ k <= n
    <3>1. CASE m <= k
      BY <3>1
    <3>2. CASE k <= m
      BY <3>2
    <3> QED BY <3>1, <3>2
  <2>2. \A i \in old : i \in Nat
    BY Owners DEF AllRuns, AllGroups
  <2>3. \A i \in old : i <= n
    BY <1>1, <2>1, <2>2
  <2>4. \A x \in AllRuns' \union AllGroups' : x.id <= n
    BY <1>2, <2>1, <2>3
  <2> QED BY <2>4 DEF IdsEnd
<1>3. ASSUME NEW q \in Requests, CreateRun(q) PROVE IdsEnd'
  <2>1. runId'[q] \in Nat
    BY DEF TypeOK
  <2>2. /\ runs' = runs /\ groups' = groups /\ draftGroups' = draftGroups
        /\ \E r : r.id = runId'[q] /\ draftRuns' = [draftRuns EXCEPT ![q] = {r}]
    BY <1>3 DEF CreateRun, results, TypeOK
  <2>3. \A x \in AllRuns' \union AllGroups' : x.id \in old \/ x.id = runId'[q]
    BY <2>2 DEF AllRuns, AllGroups, TypeOK
  <2> QED BY <1>2, <2>1, <2>3
<1>4. ASSUME NEW q \in Requests, BeginGroup(q) PROVE IdsEnd'
  <2>1. groupId'[q] \in Nat
    BY DEF TypeOK
  <2>2. /\ runs' = runs /\ groups' = groups /\ draftRuns' = draftRuns
        /\ \E g : g.id = groupId'[q]
                  /\ draftGroups' = [draftGroups EXCEPT ![q] = @ \union {g}]
    BY <1>4 DEF BeginGroup, results, TypeOK
  <2>3. \A x \in AllRuns' \union AllGroups' : x.id \in old \/ x.id = groupId'[q]
    BY <2>2 DEF AllRuns, AllGroups, TypeOK
  <2> QED BY <1>2, <2>1, <2>3
<1>5. ASSUME /\ \A x \in runs' : \E y \in AllRuns : y.id = x.id
             /\ groups' \subseteq AllGroups
             /\ \A q \in Requests : /\ draftRuns'[q] \subseteq draftRuns[q]
                                    /\ draftGroups'[q] \subseteq draftGroups[q]
      PROVE  IdsEnd'
  <2>1. \A x \in AllRuns' \union AllGroups' : x.id \in old \/ x.id = 0
    BY <1>5 DEF AllRuns, AllGroups
  <2> QED BY <1>2, <2>1
<1> HIDE DEF old
<1>6. ASSUME NEW q \in Requests, NEW w \in Workloads, WriteRecommendation(q, w) PROVE IdsEnd'
  BY <1>5, <1>6 DEF WriteRecommendation, EndTx, RunsSeenBy, GroupsSeenBy, AllRuns,
                    AllGroups, TypeOK
<1>7. ASSUME NEW q \in Requests, NEW s, FinishRun(q, s) PROVE IdsEnd'
  <2>1. \A x \in runs' : \E y \in RunsSeenBy(q) : y.id = x.id
    <3>1. \A y \in RunsSeenBy(q) : [y EXCEPT !.status = s].id = y.id
      <4>1. RunsSeenBy(q) \subseteq RunRows
        BY DEF TypeOK, RunsSeenBy
      <4> QED BY <4>1 DEF RunRows
    <3> QED BY <1>7, <3>1 DEF FinishRun, WithStatus
  <2>2. RunsSeenBy(q) \subseteq AllRuns /\ GroupsSeenBy(q) \subseteq AllGroups
    BY DEF RunsSeenBy, GroupsSeenBy, AllRuns, AllGroups
  <2>3. groups' = GroupsSeenBy(q) /\ EndTx(q)
    BY <1>7 DEF FinishRun
  <2> QED BY <1>5, <2>1, <2>2, <2>3 DEF EndTx, TypeOK
<1>8. ASSUME NEW c \in Clusters, DeleteCluster(c) PROVE IdsEnd'
  BY <1>5, <1>8 DEF DeleteCluster, connection, AllRuns, AllGroups
<1>9. CASE Crash
  BY <1>5, <1>9 DEF Crash, results, AllRuns, AllGroups
<1>10. ASSUME NEW q \in Requests, StatementFails(q) \/ DatabaseFails(q) \/ LoseFailure(q)
       PROVE  IdsEnd'
  BY <1>5, <1>10 DEF StatementFails, DatabaseFails, LoseFailure, EndTx, results, AllRuns, AllGroups, TypeOK
<1>11. CASE runs' = runs /\ groups' = groups /\ draftRuns' = draftRuns /\ draftGroups' = draftGroups
  BY <1>5, <1>11 DEF AllRuns, AllGroups
<1>12. ASSUME NEW q \in Requests,
              \/ EnsureCluster(q) \/ ResolveCluster(q) \/ ReadAsOf(q) \/ Reject(q)
              \/ ListUids(q) \/ ClusterWorkloads(q) \/ ComputeFails(q) \/ Answer(q)
              \/ \E k \in Cells : LoadWorkload(q, k)
       PROVE  IdsEnd'
  BY <1>11, <1>12 DEF EnsureCluster, ResolveCluster, ReadAsOf, Reject, ListUids,
                      ClusterWorkloads, ComputeFails, Answer, LoadWorkload, results, connection
<1>13. ASSUME NEW c \in Clusters, NEW W, NEW kinds, CollectorCommits(c, W, kinds) PROVE IdsEnd'
  BY <1>11, <1>13 DEF CollectorCommits, results, connection
<1>14. CASE UNCHANGED vars
  BY <1>11, <1>14 DEF vars, results, connection
<1> QED
  BY <1>3, <1>4, <1>6, <1>7, <1>8, <1>9, <1>10, <1>12, <1>13, <1>14
     DEF Next, Proceed, CompleteRun, RecordFailure

(* One workload is read at a time.                                         *)
OneAtATime(q) ==
  /\ pc[q] \in Early \union {"list"} => seen[q] = {}
  /\ pc[q] = "load" => \A x \in seen[q] : x.cell \in ToLoad(q)
  /\ \A x, y \in seen[q] :
       x.cell.uid # y.cell.uid => IsLoaded(q, x.cell.uid) \/ IsLoaded(q, y.cell.uid)

(* Whoever reads nothing at a step goes on as it was. *)
LEMMA OneAtATimeKept ==
  ASSUME NEW q \in Requests, OneAtATime(q), seen'[q] = seen[q],
         pc'[q] \in Early \union {"list"} => pc[q] \in Early \union {"list"},
         pc'[q] = "load" =>
           pc[q] \in Early \union {"list"} \/ (pc[q] = "load" /\ uids'[q] = uids[q])
  PROVE  OneAtATime(q)'
<1>1. \A w : IsLoaded(q, w)' = IsLoaded(q, w)
  BY DEF IsLoaded, HasRead
<1>2. uids'[q] = uids[q] => ToLoad(q)' = ToLoad(q)
  BY DEF ToLoad
<1> QED BY <1>1, <1>2 DEF OneAtATime

LEMMA OneAtATimeStep ==
  ASSUME TypeOK, [Next]_vars, NEW q \in Requests, OneAtATime(q)
  PROVE  OneAtATime(q)'
<1> USE DEF TypeOK, Early, thread
<1>1. ASSUME NEW k \in Cells, LoadWorkload(q, k) PROVE OneAtATime(q)'
  <2> DEFINE r == [cell |-> k, stamp |-> StampOf(q, k)]
  <2>1. /\ pc[q] = "load" /\ pc'[q] = "load" /\ ToLoad(q)' = ToLoad(q)
        /\ seen'[q] = seen[q] \union {r} /\ r.cell = k /\ k \in ToLoad(q)
        /\ \A x \in seen[q] : x.cell.uid # k.uid => IsLoaded(q, x.cell.uid)
    BY <1>1 DEF LoadWorkload, ToLoad
  <2> HIDE DEF r
  <2>2. \A w : IsLoaded(q, w) => IsLoaded(q, w)'
    BY <2>1 DEF IsLoaded, HasRead
  <2> QED BY <2>1, <2>2 DEF OneAtATime
<1>2. CASE EnsureCluster(q)
  BY <1>2, OneAtATimeKept DEF EnsureCluster
<1>3. CASE ResolveCluster(q)
  BY <1>3, OneAtATimeKept DEF ResolveCluster
<1>4. CASE ReadAsOf(q)
  BY <1>4, OneAtATimeKept DEF ReadAsOf
<1>5. CASE CreateRun(q)
  BY <1>5, OneAtATimeKept DEF CreateRun
<1>6. CASE Reject(q)
  BY <1>6, OneAtATimeKept DEF Reject
<1>7. CASE ListUids(q)
  BY <1>7, OneAtATimeKept DEF ListUids
<1>8. CASE ClusterWorkloads(q)
  BY <1>8, OneAtATimeKept DEF ClusterWorkloads
<1>9. CASE BeginGroup(q)
  BY <1>9, OneAtATimeKept DEF BeginGroup
<1>10. ASSUME NEW w \in Workloads, WriteRecommendation(q, w) PROVE OneAtATime(q)'
  BY <1>10, OneAtATimeKept DEF WriteRecommendation
<1>11. CASE CompleteRun(q) \/ RecordFailure(q)
  BY <1>11, OneAtATimeKept DEF CompleteRun, RecordFailure, FinishRun
<1>12. CASE ComputeFails(q) \/ StatementFails(q) \/ DatabaseFails(q) \/ LoseFailure(q)
  BY <1>12, OneAtATimeKept DEF ComputeFails, StatementFails, DatabaseFails, LoseFailure
<1>13. CASE Answer(q)
  BY <1>13, OneAtATimeKept DEF Answer
<1>14. CASE pc'[q] = pc[q] /\ seen'[q] = seen[q] /\ uids'[q] = uids[q]
  BY <1>14, OneAtATimeKept
<1>15. ASSUME NEW p \in Requests, p # q, EnsureCluster(p) \/ Proceed(p) PROVE OneAtATime(q)'
  <2>1. pc'[q] = pc[q] /\ seen'[q] = seen[q] /\ uids'[q] = uids[q]
    BY <1>15 DEF EnsureCluster, Proceed, ResolveCluster, ReadAsOf, CreateRun, Reject, ListUids,
         LoadWorkload, ClusterWorkloads, BeginGroup, WriteRecommendation, CompleteRun,
         FinishRun, ComputeFails, StatementFails, DatabaseFails, RecordFailure, LoseFailure,
         Answer
  <2> QED BY <1>14, <2>1
<1>16. CASE Crash
  BY <1>16, OneAtATimeKept DEF Crash
<1>17. ASSUME NEW c \in Clusters, DeleteCluster(c) PROVE OneAtATime(q)'
  BY <1>14, <1>17 DEF DeleteCluster
<1>18. ASSUME NEW c \in Clusters, NEW W, NEW kinds, CollectorCommits(c, W, kinds)
       PROVE  OneAtATime(q)'
  BY <1>14, <1>18 DEF CollectorCommits
<1>19. CASE UNCHANGED vars
  BY <1>14, <1>19 DEF vars
<1> QED
  BY <1>1, <1>2, <1>3, <1>4, <1>5, <1>6, <1>7, <1>8, <1>9, <1>10, <1>11, <1>12, <1>13,
     <1>15, <1>16, <1>17, <1>18, <1>19 DEF Next, Proceed

(* While a listed workload is not loaded there is a SELECT to execute: of  *)
(* the one begun, or of any, and its allocations last.                     *)
LEMMA NextSelect ==
  ASSUME TypeOK, NEW q \in Requests, OneAtATime(q), pc[q] = "load",
         NEW w \in uids[q], ~ IsLoaded(q, w)
  PROVE  \E k \in ToLoad(q) :
           /\ ~ HasRead(q, k)
           /\ \A x \in seen[q] : x.cell.uid # k.uid => IsLoaded(q, x.cell.uid)
           /\ k.kind = "allocations" =>
                \A j \in ToLoad(q) : j.uid = k.uid => j = k \/ HasRead(q, j)
<1>1. PICK u \in uids[q] : /\ ~ IsLoaded(q, u)
                           /\ \A x \in seen[q] : x.cell.uid # u => IsLoaded(q, x.cell.uid)
  <2>1. CASE \A x \in seen[q] : IsLoaded(q, x.cell.uid)
    BY <2>1
  <2>2. ASSUME NEW y \in seen[q], ~ IsLoaded(q, y.cell.uid)
        PROVE  \E u \in uids[q] :
                 /\ ~ IsLoaded(q, u)
                 /\ \A x \in seen[q] : x.cell.uid # u => IsLoaded(q, x.cell.uid)
    <3>1. y.cell.uid \in uids[q]
      BY DEF OneAtATime, ToLoad
    <3> QED BY <2>2, <3>1 DEF OneAtATime
  <2> QED BY <2>1, <2>2
<1> DEFINE a == AllocationsOf(u)
<1>2. /\ a \in ToLoad(q) /\ a.uid = u /\ a.kind = "allocations" /\ ~ HasRead(q, a)
      /\ \A j \in Cells : j.uid = u /\ j.kind = "allocations" => j = a
  BY <1>1 DEF TypeOK, ToLoad, AllocationsOf, Cells, IsLoaded
<1> HIDE DEF a
<1>3. CASE \A j \in ToLoad(q) : j.uid = u => j = a \/ HasRead(q, j)
  BY <1>1, <1>2, <1>3
<1>4. ASSUME NEW j \in ToLoad(q), j.uid = u, j # a, ~ HasRead(q, j)
      PROVE  \E k \in ToLoad(q) :
               /\ ~ HasRead(q, k)
               /\ \A x \in seen[q] : x.cell.uid # k.uid => IsLoaded(q, x.cell.uid)
               /\ k.kind # "allocations"
  <2>1. j.kind # "allocations"
    BY <1>2, <1>4 DEF ToLoad
  <2> QED BY <1>1, <1>4, <2>1
<1> QED BY <1>3, <1>4

LEMMA StepAvailable ==
  ASSUME TypeOK, IdsEnd, NEW q \in Requests, OneAtATime(q), pc[q] \in Active
  PROVE  MayStep(q)
<1>1. PICK m \in Nat : \A x \in AllRuns \union AllGroups : x.id <= m
  BY DEF IdsEnd
<1>2. NextId(Ids(runs), issuedRuns) # {}
  <2>1. Ids(runs) \in SUBSET Nat /\ \A i \in Ids(runs) : i <= m
    BY <1>1, Owners DEF Ids, AllRuns
  <2> QED BY <2>1, NextIdExists
<1>3. NextId(Ids(GroupsSeenBy(q)), issuedGroups) # {}
  <2>1. GroupsSeenBy(q) \subseteq AllGroups
    BY DEF GroupsSeenBy, AllGroups
  <2>2. /\ Ids(GroupsSeenBy(q)) \in SUBSET Nat
        /\ \A i \in Ids(GroupsSeenBy(q)) : i <= m
    BY <1>1, <2>1, Owners DEF Ids
  <2> QED BY <2>2, NextIdExists
<1>4. left[q] # {} => NextGroup(q) # {}
  <2>1. left[q] \in SUBSET Nat
    BY BoundsAssumption DEF TypeOK, GroupIndexes
  <2> QED BY <2>1, LeastExists DEF NextGroup
<1>5. \E n \in {0} \union {StampOf(q, k) : k \in Cells} : \A k \in Cells : StampOf(q, k) <= n
  <2> DEFINE S == {0} \union {StampOf(q, k) : k \in Cells}
  <2>1. S \in SUBSET Nat /\ S # {} /\ \A x \in S : x <= MaxStamp
    BY StampOfType, BoundsAssumption DEF Stamps
  <2>2. MaxStamp \in Nat
    BY BoundsAssumption
  <2>3. \E x \in S : \A y \in S : y <= x
    <3> HIDE DEF S
    <3> QED BY <2>1, <2>2, GreatestExists
  <2>4. \A k \in Cells : StampOf(q, k) \in S
    OBVIOUS
  <2> QED BY <2>3, <2>4
<1>6. CASE pc[q] = "load"
  BY <1>6, NextSelect DEF MayStep
<1>7. CASE pc[q] # "load"
  BY <1>2, <1>3, <1>4, <1>5, <1>7 DEF MayStep, Active, Statements
<1> QED BY <1>6, <1>7

(* A request is never stuck: however the steps of threads, crashes and     *)
(* deletions fall, each thread of POST /runs (runner.py:60-111) that has   *)
(* not answered has a statement it can execute, or one that fails at once. *)
THEOREM NobodyGetsStuck == Spec => []NobodyIsStuck
<1>1. Init => IdsEnd
  <2>1. Init => AllRuns \union AllGroups = {}
    BY DEF Init, AllRuns, AllGroups
  <2>2. 0 \in Nat
    OBVIOUS
  <2> QED BY <2>1, <2>2 DEF IdsEnd
<1>2. TypeOK /\ IdsEnd /\ (\A q \in Requests : OneAtATime(q)) => NobodyIsStuck
  BY StepAvailable DEF NobodyIsStuck
<1>3. Init => \A q \in Requests : OneAtATime(q)
  BY DEF Init, OneAtATime, Early
<1>4. TypeOK /\ (\A q \in Requests : OneAtATime(q)) /\ [Next]_vars
        => (\A q \in Requests : OneAtATime(q))'
  BY OneAtATimeStep
<1> QED BY <1>1, <1>2, <1>3, <1>4, IdsEndStep, TypeCorrect, PTL DEF Spec

=============================================================================
