--------------------------- MODULE RunViewsProofs ---------------------------
(***************************************************************************)
(* Proofs about RunViews, for any number of readers, requests, clusters    *)
(* and workloads, under the condition of AnalysisRunProofs that the id of  *)
(* a run is not used again (NoReuse).                                      *)
(*                                                                         *)
(*   TypeCorrectOfViews  the type invariant;                               *)
(*   NothingDropped      a view of groups drops no recommendation it read; *)
(*   ViewsWhole          a view of a completed run shows all of it;        *)
(*   ShownStays          404 and views without what was stored mean a      *)
(*                       deletion, and a later view shows what an earlier  *)
(*                       one showed;                                       *)
(*   ReadersOnlyRead     what is proved of AnalysisRun holds beside them.  *)
(*                                                                         *)
(* A reader sees the latest commit at each SELECT, so the argument has two *)
(* halves: what one step of the writers may do to the committed tables     *)
(* (StoreStep), and what a reader may conclude of the rows it holds as     *)
(* long as the run is there (Client).                                      *)
(***************************************************************************)
EXTENDS RunViews, AnalysisRunProofs

-----------------------------------------------------------------------------
(***************************************************************************)
(* The writers.                                                            *)
(***************************************************************************)

(* The id of an uncommitted run is not that of a committed one. *)
Hidden == \A q \in Requests : \A d \in draftRuns[q] : d.id \notin Ids(runs)

(* A run that appears was a draft, which its connection no longer has. *)
RunsWereDrafts ==
  \A r \in runs' : r.id \in Ids(runs)
    \/ \E q \in Requests : draftRuns'[q] = {} /\ \E d \in draftRuns[q] : d.id = r.id

(* A new draft has a new id. *)
DraftsAreNew ==
  \A q \in Requests : \A d \in draftRuns'[q] :
    \/ d \in draftRuns[q]
    \/ /\ d.id \notin Ids(runs) \union Ids(runs')
       /\ Dialect # "sqlite" => d.id > issuedRuns

(* Rows go with their run only, and runs with their cluster. *)
RowsStay ==
  /\ Deletable = {} => Ids(runs) \subseteq Ids(runs')
  /\ \A x \in recs : x \in recs' \/ x.run \notin Ids(runs')
  /\ \A g \in groups : g \in groups' \/ g.run \notin Ids(runs')

(* Of a completed run nothing changes. *)
CompletedStays ==
  \A r \in runs : r.status = "completed" /\ r.id \in Ids(runs') =>
    /\ r \in runs' /\ uids'[r.owner] = uids[r.owner]
    /\ \A x \in recs' : x.run = r.id => x \in recs
    /\ \A g \in groups' : g.run = r.id => g \in groups

StoreStep ==
  /\ RunsWereDrafts /\ DraftsAreNew /\ RowsStay /\ CompletedStays
  /\ issuedRuns <= issuedRuns'

(* A thread at work has no completed run. *)
LEMMA WorkIsOpen ==
  ASSUME Inv, NEW q \in Requests, pc[q] \in Working
  PROVE  \A r \in runs : r.id = runId[q] => r.owner = q /\ r.status # "completed"
BY DEF Inv, RunIdsHeld, CompletedCovers, AllRuns

(* A step that writes no run, group or recommendation. *)
LEMMA Unwritten ==
  ASSUME UNCHANGED results, issuedRuns <= issuedRuns',
         \A q \in Requests : draftRuns'[q] \subseteq draftRuns[q],
         \A r \in runs : r.status = "completed" => uids'[r.owner] = uids[r.owner]
  PROVE  StoreStep
BY DEF StoreStep, RunsWereDrafts, DraftsAreNew, RowsStay, CompletedStays, Ids, results

(* A commit of the connection of q. *)
LEMMA Committed ==
  ASSUME Inv, NEW q \in Requests, pc[q] \in Working,
         NEW status \in {"running", "completed", "failed"},
         runs' = RunsSeenBy(q) \/ runs' = WithStatus(RunsSeenBy(q), runId[q], status),
         groups' = GroupsSeenBy(q),
         \A x \in recs' : x \in recs \/ x.run = runId[q], recs \subseteq recs',
         EndTx(q), UNCHANGED <<issuedRuns, uids>>
  PROVE  StoreStep
<1>1. /\ \A d \in draftRuns[q] : d \in AllRuns /\ d.id \in Nat
      /\ \A g \in draftGroups[q] : g.run = runId[q]
      /\ \A r \in runs : r.owner \in Requests
      /\ draftRuns \in [Requests -> SUBSET RunRows]
  BY DEF Inv, TypeInv, TypeOK, Drafts, AllRuns, RunRows
<1>2. /\ draftRuns'[q] = {}
      /\ \A p \in Requests : draftRuns'[p] \subseteq draftRuns[p]
  BY <1>1 DEF EndTx
<1>3. \A r \in runs' : \E d \in RunsSeenBy(q) : d.id = r.id
  <2>1. RunsSeenBy(q) \subseteq RunRows
    BY DEF Inv, TypeInv, TypeOK, RunsSeenBy
  <2>2. \A d \in RunsSeenBy(q) : [d EXCEPT !.status = status].id = d.id
    BY <2>1 DEF RunRows
  <2>3. CASE runs' = RunsSeenBy(q)
    BY <2>3
  <2>4. CASE runs' = WithStatus(RunsSeenBy(q), runId[q], status)
    BY <2>2, <2>4 DEF WithStatus
  <2> QED BY <2>3, <2>4
<1>4. RunsWereDrafts
  BY <1>2, <1>3 DEF RunsWereDrafts, RunsSeenBy, Ids
<1>5. DraftsAreNew
  BY <1>2 DEF DraftsAreNew
<1>6. \A r \in runs : r.id # runId[q] => r \in runs'
  BY DEF WithStatus, RunsSeenBy
<1>7. \A r \in runs : \E d \in runs' : d.id = r.id
  <2> SUFFICES ASSUME NEW r \in runs PROVE \E d \in runs' : d.id = r.id
    OBVIOUS
  <2>1. r \in runs' \/ [r EXCEPT !.status = status] \in runs'
    BY DEF WithStatus, RunsSeenBy
  <2>2. [r EXCEPT !.status = status].id = r.id
    BY DEF Inv, TypeInv, TypeOK, RunRows
  <2> QED BY <2>1, <2>2
<1>8. RowsStay
  BY <1>7 DEF RowsStay, Ids, GroupsSeenBy
<1>9. \A r \in runs : r.status = "completed" => r.id # runId[q]
  BY WorkIsOpen
<1>10. CompletedStays
  BY <1>1, <1>6, <1>9 DEF CompletedStays, GroupsSeenBy
<1>11. issuedRuns \in Nat
  BY DEF Inv, TypeInv, TypeOK
<1> QED
  BY <1>4, <1>5, <1>8, <1>10, <1>11 DEF StoreStep

LEMMA StoreSteps == Inv /\ [Next]_vars => StoreStep
<1> SUFFICES ASSUME Inv, [Next]_vars PROVE StoreStep
  OBVIOUS
<1>1. /\ issuedRuns \in Nat /\ draftRuns \in [Requests -> SUBSET RunRows]
      /\ uids \in [Requests -> SUBSET Workloads]
      /\ \A r \in runs : r.owner \in Requests /\ r.id \in Nat
  BY DEF Inv, TypeInv, TypeOK, RunRows
<1>2. ASSUME UNCHANGED <<results, issuedRuns, draftRuns, uids>> PROVE StoreStep
  BY <1>1, <1>2, Unwritten
<1>3. ASSUME NEW q \in Requests, UNCHANGED <<results, issuedRuns, uids>>, EndTx(q)
      PROVE  StoreStep
  BY <1>1, <1>3, Unwritten DEF EndTx
<1>4. CASE UNCHANGED vars
  BY <1>2, <1>4 DEF vars, results, connection, issued, thread
<1>5. ASSUME NEW q \in Requests, EnsureCluster(q) PROVE StoreStep
  BY <1>2, <1>5 DEF EnsureCluster, connection, thread
<1>6. ASSUME NEW q \in Requests, ResolveCluster(q) \/ ReadAsOf(q) \/ Reject(q)
      PROVE  StoreStep
  BY <1>2, <1>6 DEF ResolveCluster, ReadAsOf, Reject, connection, thread, issued
<1>7. ASSUME NEW q \in Requests, ComputeFails(q) \/ Answer(q) \/ ClusterWorkloads(q)
      PROVE  StoreStep
  BY <1>2, <1>7 DEF ComputeFails, Answer, ClusterWorkloads, connection, thread, issued
<1>8. ASSUME NEW q \in Requests, NEW k \in Cells, LoadWorkload(q, k)
      PROVE  StoreStep
  BY <1>2, <1>8 DEF LoadWorkload, connection, issued
<1>9. ASSUME NEW c \in Clusters, NEW W, NEW kinds, CollectorCommits(c, W, kinds)
      PROVE  StoreStep
  BY <1>2, <1>9 DEF CollectorCommits, connection, thread, issued
<1>10. ASSUME NEW q \in Requests, ListUids(q) PROVE StoreStep
  <2>1. \A r \in runs : r.status = "completed" => r.owner # q
    BY <1>10 DEF Inv, CompletedCovers, AllRuns, ListUids, Working
  <2>2. \A r \in runs : r.status = "completed" => uids'[r.owner] = uids[r.owner]
    BY <1>1, <1>10, <2>1 DEF ListUids
  <2>3. UNCHANGED <<results, issuedRuns, draftRuns>>
    BY <1>10 DEF ListUids, connection, issued
  <2> QED BY <1>1, <2>2, <2>3, Unwritten
<1>11. ASSUME NEW q \in Requests, BeginGroup(q) PROVE StoreStep
  BY <1>2, <1>11 DEF BeginGroup, connection, thread, issued
<1>12. ASSUME NEW q \in Requests, StatementFails(q) PROVE StoreStep
  <2>1. UNCHANGED <<results, issuedRuns, uids>> /\ (UNCHANGED draftRuns \/ EndTx(q))
    BY <1>12 DEF StatementFails, issued, thread
  <2> QED BY <1>2, <1>3, <2>1
<1>13. ASSUME NEW q \in Requests, LoseFailure(q) \/ DatabaseFails(q) PROVE StoreStep
  BY <1>3, <1>13 DEF LoseFailure, DatabaseFails, issued, thread
<1>14. CASE Crash
  <2>1. \A q \in Requests : draftRuns'[q] \subseteq draftRuns[q]
    BY <1>14 DEF Crash
  <2> QED BY <1>1, <1>14, <2>1, Unwritten DEF Crash, issued, thread
<1>15. ASSUME NEW q \in Requests, CreateRun(q) PROVE StoreStep
  <2>1. PICK id \in NextId(Ids(runs), issuedRuns) :
          /\ draftRuns' = [draftRuns EXCEPT ![q] =
               {[id |-> id, cluster |-> clusterId[q], owner |-> q, status |-> "running"]}]
          /\ issuedRuns' = IF Dialect = "postgres" THEN id ELSE issuedRuns
    BY <1>15 DEF CreateRun
  <2>2. /\ id \in Nat \ {0}
        /\ Dialect = "sqlite" => \A i \in Ids(runs) : i < id
        /\ Dialect # "sqlite" => id = issuedRuns + 1
    <3>1. Ids(runs) \in SUBSET Nat
      BY <1>1 DEF Ids
    <3> QED BY <1>1, <2>1, <3>1, NextIdFresh
  <2>3. id \notin Ids(runs)
    <3>1. Dialect # "sqlite" => \A r \in runs : r.id <= issuedRuns
      BY DialectAssumption DEF Inv, RunIdsHeld, AllRuns
    <3>2. \A r \in runs : r.id # id
      <4> SUFFICES ASSUME NEW r \in runs, r.id = id PROVE FALSE
        OBVIOUS
      <4>1. id \in Ids(runs)
        BY DEF Ids
      <4> QED BY <1>1, <2>2, <3>1, <4>1
    <3> QED BY <3>2 DEF Ids
  <2>4. DraftsAreNew
    <3> SUFFICES ASSUME NEW p \in Requests, NEW d \in draftRuns'[p], d \notin draftRuns[p]
        PROVE  /\ d.id \notin Ids(runs) \union Ids(runs')
               /\ Dialect # "sqlite" => d.id > issuedRuns
      BY DEF DraftsAreNew
    <3>1. p = q /\ d.id = id
      BY <1>1, <2>1
    <3> QED BY <1>1, <1>15, <2>2, <2>3, <3>1 DEF CreateRun, results, Ids
  <2>5. UNCHANGED <<results, uids>>
    BY <1>15 DEF CreateRun
  <2>6. RunsWereDrafts /\ RowsStay /\ CompletedStays
    BY <2>5 DEF RunsWereDrafts, RowsStay, CompletedStays, results, Ids
  <2>7. issuedRuns <= issuedRuns'
    BY <1>1, <2>1, <2>2, DialectAssumption
  <2> QED BY <2>4, <2>6, <2>7 DEF StoreStep
<1>16. ASSUME NEW q \in Requests, NEW w \in Workloads, WriteRecommendation(q, w)
       PROVE  StoreStep
  BY <1>16, Committed DEF WriteRecommendation, Working, issued
<1>17. ASSUME NEW q \in Requests, CompleteRun(q) PROVE StoreStep
  BY <1>17, Committed DEF CompleteRun, FinishRun, Working, issued, thread
<1>18. ASSUME NEW q \in Requests, RecordFailure(q) PROVE StoreStep
  BY <1>18, Committed DEF RecordFailure, FinishRun, Working, issued, thread
<1>19. ASSUME NEW c \in Clusters, DeleteCluster(c) PROVE StoreStep
  <2> DEFINE gone == Ids({r \in runs : r.cluster = clusters[c]})
  <2>1. /\ Deletable # {}
        /\ runs' = {r \in runs : r.id \notin gone}
        /\ groups' = {g \in groups : g.run \notin gone}
        /\ recs' = {r \in recs : r.run \notin gone}
        /\ UNCHANGED <<issuedRuns, draftRuns, uids>>
    BY <1>19 DEF DeleteCluster, issued, connection, thread
  <2>2. RowsStay
    <3>1. \A i \in gone : i \in Ids(runs) /\ i \notin Ids(runs')
      BY <2>1 DEF Ids
    <3>2. \A r \in recs : r \notin recs' => r.run \in gone
      BY <2>1
    <3>3. \A g \in groups : g \notin groups' => g.run \in gone
      BY <2>1
    <3> QED BY <2>1, <3>1, <3>2, <3>3 DEF RowsStay
  <2>3. CompletedStays
    BY <2>1 DEF CompletedStays, Ids
  <2>4. RunsWereDrafts /\ DraftsAreNew
    BY <2>1 DEF RunsWereDrafts, DraftsAreNew, Ids
  <2> QED BY <1>1, <2>1, <2>2, <2>3, <2>4 DEF StoreStep
<1> QED
  BY <1>4, <1>5, <1>6, <1>7, <1>8, <1>9, <1>10, <1>11, <1>12, <1>13, <1>14,
     <1>15, <1>16, <1>17, <1>18, <1>19 DEF Next, Proceed

-----------------------------------------------------------------------------
(***************************************************************************)
(* The readers.                                                            *)
(***************************************************************************)

(* Which SELECT follows which, by view. *)
LEMMA Courses ==
  /\ \A v \in AllViews : First(v) \in DOMAIN Course[v]
  /\ \A v \in AllViews : \A s \in DOMAIN Course[v] :
       /\ Course[v][s] \in {"ok"} \union DOMAIN Course[v]
       /\ s \in {"run", "again", "recs", "titles", "groups", "evidence", "peers"}
       /\ s = "run" => Course[v][s] \in {"ok", "recs", "again"}
       /\ s = "run" /\ v \in Listing \union {"evidence"} => Course[v][s] # "ok"
       /\ s = "again" => Course[v][s] = "recs" /\ v \in Listing
       /\ s = "recs" => Course[v][s] \in {"ok", "titles", "groups", "evidence"}
       /\ s = "recs" /\ v \in {"groups", "print"} => Course[v][s] \in {"titles", "groups"}
       /\ s = "recs" /\ v = "evidence" => Course[v][s] = "evidence"
       /\ s = "titles" => Course[v][s] = "groups" /\ v = "print"
       /\ s = "groups" => Course[v][s] = "ok" /\ v \in {"groups", "print"}
       /\ s = "evidence" => Course[v][s] = "peers" /\ v = "evidence"
       /\ s = "peers" => Course[v][s] = "ok" /\ v = "evidence"
<1> SUFFICES ASSUME NEW v \in AllViews
    PROVE  /\ First(v) \in DOMAIN Course[v]
           /\ \A s \in DOMAIN Course[v] :
                /\ Course[v][s] \in {"ok"} \union DOMAIN Course[v]
                /\ s \in {"run", "again", "recs", "titles", "groups", "evidence", "peers"}
                /\ s = "run" => Course[v][s] \in {"ok", "recs", "again"}
                /\ s = "run" /\ v \in Listing \union {"evidence"} => Course[v][s] # "ok"
                /\ s = "again" => Course[v][s] = "recs" /\ v \in Listing
                /\ s = "recs" => Course[v][s] \in {"ok", "titles", "groups", "evidence"}
                /\ s = "recs" /\ v \in {"groups", "print"} => Course[v][s] \in {"titles", "groups"}
                /\ s = "recs" /\ v = "evidence" => Course[v][s] = "evidence"
                /\ s = "titles" => Course[v][s] = "groups" /\ v = "print"
                /\ s = "groups" => Course[v][s] = "ok" /\ v \in {"groups", "print"}
                /\ s = "evidence" => Course[v][s] = "peers" /\ v = "evidence"
                /\ s = "peers" => Course[v][s] = "ok" /\ v = "evidence"
  OBVIOUS
<1>1. CASE v = "status"
  BY <1>1 DEF Course, StatusView, First, Listing
<1>2. CASE v = "cards"
  BY <1>2 DEF Course, CardsView, First, Listing
<1>3. CASE v = "groups"
  BY <1>3 DEF Course, GroupsView, First, Listing
<1>4. CASE v = "evidence"
  BY <1>4 DEF Course, EvidenceView, First, Listing
<1>5. CASE v = "export"
  BY <1>5 DEF Course, ExportView, First, Listing
<1>6. CASE v = "manifest"
  BY <1>6 DEF Course, ExportView, First, Listing
<1>7. CASE v = "print"
  BY <1>7 DEF Course, PrintView, First, Listing
<1> QED
  BY <1>1, <1>2, <1>3, <1>4, <1>5, <1>6, <1>7 DEF AllViews

(* The id a reader holds is that of a run that was visible. *)
Known(c) ==
  /\ \A q \in Requests : \A d \in draftRuns[q] : d.id # about[c]
  /\ Dialect = "postgres" => about[c] <= issuedRuns
  /\ Deletable = {} /\ about[c] # 0 => about[c] \in Ids(runs)

(* What it has read is still there, while the run is. *)
Kept(c) ==
  /\ held[c] \union cards[c] \subseteq RecsOfRun(about[c])
  /\ lists[c] \subseteq GroupsOfRun(about[c])

(* Once it has read the recommendations it is on one of these.             *)
PastRecs == {"titles", "groups", "ok", "empty"}

(* The recommendations its view is about. *)
AboutOf(c) == {x \in RecsOfRun(about[c]) : x.uid \in only[c]}

(* What it has read is what it has asked for. *)
Followed(c) ==
  /\ step[c] = "peers" => \A x \in wanted[c] : parts[c] = x.details \intersect {"evidence"}
  /\ Answered(c, {"evidence"}) => \A x \in wanted[c] : parts[c] = x.details
  /\ step[c] \in PastRecs /\ view[c] \in Listing =>
       {x \in held[c] : x.uid \in only[c]} \subseteq cards[c]
  /\ step[c] = "empty" => view[c] = "manifest" /\ cards[c] = {}

(* Of a run listed as completed it has read all. *)
Whole(c) ==
  told[c] = "completed" =>
    /\ \A r \in runs : r.id = about[c] => r.status = "completed"
    /\ said[c] \in {"none", "completed"}
    /\ step[c] \in PastRecs /\ view[c] \in Listing => cards[c] = AboutOf(c)
    /\ Answered(c, {"groups", "print"}) => lists[c] = GroupsOfRun(about[c])

(* Every recommendation it read has a group it read. *)
Grouped(c) ==
  Answered(c, {"groups", "print"}) =>
    \A x \in cards[c] : \E g \in lists[c] : g.id = x.group /\ x.uid \in g.members

(* It asks for one recommendation, one workload or all. *)
Asked(c) ==
  /\ \A x, y \in wanted[c] : x = y
  /\ view[c] = "manifest" => wanted[c] = {}
  /\ view[c] # "manifest" => only[c] = Workloads

Client(c) ==
  /\ Asked(c)
  /\ step[c] # "idle" => wanted[c] \subseteq held[c]
  /\ step[c] \in {"run", "again", "recs", "evidence"} => parts[c] = {}
  /\ Gone(c) \/ (step[c] # "missing" /\ Kept(c) /\ Followed(c) /\ Whole(c) /\ Grouped(c))

ViewInv ==
  /\ Inv /\ Hidden /\ ViewTypeOK
  /\ \A c \in Clients : Known(c) /\ Client(c)

(* The tables the reader's conclusions are about. *)
LEMMA TablesOfType ==
  ASSUME ViewInv
  PROVE  /\ runs \subseteq RunRows /\ recs \subseteq RecRows /\ groups \subseteq GroupRows
         /\ issuedRuns \in Nat /\ 0 \notin Ids(runs)
         /\ \A r, s \in runs : r.id = s.id => r = s
<1>1. runs \subseteq RunRows /\ recs \subseteq RecRows /\ groups \subseteq GroupRows
      /\ issuedRuns \in Nat
  BY DEF ViewInv, Inv, TypeInv, TypeOK
<1>2. 0 \notin Ids(runs)
  BY <1>1 DEF Ids, RunRows
<1>3. \A r, s \in runs : r.id = s.id => r = s
  BY DEF ViewInv, Inv, RunIdsHeld, AllRuns
<1> QED BY <1>1, <1>2, <1>3

LEMMA ViewStart == ViewInit => ViewInv
<1> SUFFICES ASSUME ViewInit PROVE ViewInv
  OBVIOUS
<1>1. Inv
  BY InvInit DEF ViewInit
<1>2. /\ runs = {} /\ issuedRuns = 0
      /\ \A q \in Requests : draftRuns[q] = {}
  BY DEF ViewInit, Init
<1>3. Hidden
  BY <1>2 DEF Hidden
<1>4. ViewTypeOK
  BY DEF ViewInit, ViewTypeOK, AllViews, Resting, Parts
<1>5. ASSUME NEW c \in Clients PROVE Known(c) /\ Client(c)
  BY <1>2, <1>5 DEF ViewInit, Known, Client, Asked, Gone, Ids
<1> QED BY <1>1, <1>3, <1>4, <1>5 DEF ViewInv

(* The writers do not disturb what the readers hold. *)
LEMMA WriterStep ==
  ASSUME NoReuse, ViewInv, [Next]_vars, UNCHANGED viewer
  PROVE  ViewInv'
<1> USE DEF ViewInv
<1>1. Inv' /\ StoreStep
  BY InvStep, StoreSteps
<1>2. Hidden'
  <2> SUFFICES ASSUME NEW q \in Requests, NEW d \in draftRuns'[q], NEW r \in runs', r.id = d.id
      PROVE  FALSE
    BY DEF Hidden, Ids
  <2>1. d \in draftRuns[q] /\ d.id \notin Ids(runs)
    <3>1. d.id \in Ids(runs')
      BY DEF Ids
    <3> QED BY <1>1, <3>1 DEF StoreStep, DraftsAreNew, Hidden
  <2>2. PICK p \in Requests : draftRuns'[p] = {} /\ \E e \in draftRuns[p] : e.id = r.id
    BY <1>1, <2>1 DEF StoreStep, RunsWereDrafts
  <2>3. PICK e \in draftRuns[p] : e.id = r.id
    BY <2>2
  <2>4. e = d
    BY <2>1, <2>3 DEF Inv, RunIdsHeld, AllRuns
  <2>5. p = q
    BY <2>1, <2>3, <2>4 DEF Inv, Drafts
  <2> QED BY <2>2, <2>5
<1>3. ViewTypeOK'
  BY DEF ViewTypeOK, viewer
<1>4. ASSUME NEW c \in Clients PROVE Known(c)'
  <2>1. about'[c] = about[c] /\ about[c] \in Nat
    BY DEF viewer, ViewTypeOK
  <2>2. ASSUME NEW q \in Requests, NEW d \in draftRuns'[q] PROVE d.id # about[c]
    <3>1. CASE d \in draftRuns[q]
      BY <1>4, <3>1 DEF Known
    <3>2. CASE d \notin draftRuns[q]
      <4>1. /\ d.id \notin Ids(runs)
            /\ Dialect # "sqlite" => d.id > issuedRuns
        BY <1>1, <3>2 DEF StoreStep, DraftsAreNew
      <4>2. d.id \in Nat \ {0}
        BY <1>1 DEF Inv, TypeInv, TypeOK, RunRows
      <4>3. CASE Dialect = "postgres"
        BY <1>4, <2>1, <4>1, <4>2, <4>3, TablesOfType DEF Known
      <4>4. CASE Deletable = {}
        BY <1>4, <4>1, <4>2, <4>4 DEF Known
      <4> QED BY <4>3, <4>4 DEF NoReuse
    <3> QED BY <3>1, <3>2
  <2>3. Dialect = "postgres" => about[c] <= issuedRuns'
    <3>1. issuedRuns \in Nat /\ issuedRuns' \in Nat
      BY <1>1 DEF Inv, TypeInv, TypeOK
    <3> QED BY <1>1, <1>4, <2>1, <3>1 DEF StoreStep, Known
  <2>4. Deletable = {} /\ about[c] # 0 => about[c] \in Ids(runs')
    BY <1>1, <1>4 DEF StoreStep, RowsStay, Known
  <2>5. Ids(runs)' = Ids(runs')
    BY DEF Ids
  <2> QED BY <2>1, <2>2, <2>3, <2>4, <2>5 DEF Known
<1>5. ASSUME NEW c \in Clients PROVE Client(c)'
  <2>1. /\ about'[c] = about[c] /\ told'[c] = told[c] /\ view'[c] = view[c]
        /\ step'[c] = step[c] /\ said'[c] = said[c] /\ wanted'[c] = wanted[c]
        /\ cards'[c] = cards[c] /\ lists'[c] = lists[c] /\ parts'[c] = parts[c]
        /\ held'[c] = held[c] /\ only'[c] = only[c]
    BY DEF viewer
  <2>2. CASE Gone(c)'
    BY <1>5, <2>1, <2>2 DEF Client, Asked
  <2>3. CASE ~ Gone(c)'
    <3>1. about[c] \in Ids(runs')
      BY <2>1, <2>3 DEF Gone, Ids
    <3>2. PICK r \in runs' : r.id = about[c]
      BY <3>1 DEF Ids
    <3>3. ~ Gone(c)
      BY <1>1, <1>5, <3>2 DEF Gone, Known, StoreStep, RunsWereDrafts
    <3>4. Kept(c)'
      BY <1>1, <1>5, <2>1, <3>1, <3>3
         DEF Client, Kept, RecsOfRun, GroupsOfRun, StoreStep, RowsStay
    <3>5. Followed(c)' /\ Grouped(c)'
      BY <1>5, <2>1, <3>3 DEF Client, Followed, Grouped, Answered
    <3>6. Whole(c)'
      <4> SUFFICES ASSUME told[c] = "completed"
          PROVE  /\ \A s \in runs' : s.id = about[c] => s.status = "completed"
                 /\ said[c] \in {"none", "completed"}
                 /\ step[c] \in PastRecs /\ view[c] \in Listing => cards[c] = AboutOf(c)'
                 /\ Answered(c, {"groups", "print"}) =>
                      lists[c] = GroupsOfRun(about[c])'
        BY <2>1 DEF Whole, Answered, GroupsOfRun
      <4>1. PICK s \in runs : s.id = about[c]
        BY <3>3 DEF Gone, Ids
      <4>2. s.status = "completed" /\ s \in runs'
        BY <1>1, <1>5, <3>1, <3>3, <4>1 DEF Client, Whole, StoreStep, CompletedStays
      <4>3. \A t \in runs' : t.id = about[c] => t = s
        BY <1>1, <4>1, <4>2 DEF Inv, RunIdsHeld, AllRuns
      <4>4. /\ \A x \in recs' : x.run = about[c] => x \in recs
            /\ \A g \in groups' : g.run = about[c] => g \in groups
        BY <1>1, <3>1, <4>1, <4>2 DEF StoreStep, CompletedStays
      <4>5. /\ RecsOfRun(about[c])' = RecsOfRun(about[c])
            /\ GroupsOfRun(about[c])' = GroupsOfRun(about[c])
        BY <1>1, <2>1, <3>1, <4>4 DEF RecsOfRun, GroupsOfRun, StoreStep, RowsStay
      <4>6. AboutOf(c)' = AboutOf(c)
        BY <2>1, <4>5 DEF AboutOf
      <4> QED BY <1>5, <3>3, <4>2, <4>3, <4>5, <4>6 DEF Client, Whole
    <3> QED BY <1>5, <2>1, <3>3, <3>4, <3>5, <3>6 DEF Client, Asked
  <2> QED BY <2>2, <2>3
<1> QED BY <1>1, <1>2, <1>3, <1>4, <1>5

(* A reader's step leaves the tables and the other readers alone. *)
LEMMA ReaderStep ==
  ASSUME NoReuse, ViewInv, UNCHANGED vars, ViewTypeOK',
         NEW c \in Clients,
         \A d \in Clients \ {c} :
           /\ about'[d] = about[d] /\ told'[d] = told[d] /\ view'[d] = view[d]
           /\ step'[d] = step[d] /\ said'[d] = said[d] /\ wanted'[d] = wanted[d]
           /\ cards'[d] = cards[d] /\ lists'[d] = lists[d] /\ parts'[d] = parts[d]
           /\ held'[d] = held[d] /\ only'[d] = only[d],
         Known(c)', Client(c)'
  PROVE  ViewInv'
<1> USE DEF ViewInv
<1>1. Inv'
  BY InvStep
<1>2. UNCHANGED <<runs, recs, groups, draftRuns, issuedRuns>>
  BY DEF vars, results, issued, connection
<1>3. Hidden'
  BY <1>2 DEF Hidden, Ids
<1>4. ASSUME NEW d \in Clients \ {c} PROVE Known(d)' /\ Client(d)'
  <2>1. Known(d)'
    BY <1>2, <1>4 DEF Known, Ids
  <2>2. Client(d)'
    BY <1>2, <1>4 DEF Client, Asked, Gone, Kept, Followed, Whole, Grouped, Answered,
                      AboutOf, RecsOfRun, GroupsOfRun, Ids
  <2> QED BY <2>1, <2>2
<1> QED BY <1>1, <1>3, <1>4

LEMMA ListStep ==
  ASSUME NoReuse, ViewInv, UNCHANGED vars, NEW c \in Clients, ListRuns(c)
  PROVE  ViewInv'
<1>1. PICK r \in runs :
        /\ about' = [about EXCEPT ![c] = r.id]
        /\ told' = [told EXCEPT ![c] = r.status]
        /\ held' = [held EXCEPT ![c] = IF r.id = about[c] THEN @ ELSE {}]
  BY DEF ListRuns
<1>2. /\ step' = [step EXCEPT ![c] = "idle"]
      /\ said' = [said EXCEPT ![c] = "none"]
      /\ cards' = [cards EXCEPT ![c] = {}]
      /\ lists' = [lists EXCEPT ![c] = {}]
      /\ parts' = [parts EXCEPT ![c] = {}]
      /\ UNCHANGED <<view, only, wanted>>
  BY DEF ListRuns
<1>3. UNCHANGED <<runs, recs, groups, draftRuns, issuedRuns>>
  BY DEF vars, results, issued, connection
<1>4. ViewTypeOK /\ r \in RunRows
  BY TablesOfType DEF ViewInv
<1>5. ViewTypeOK'
  <2>1. r.id \in Nat /\ r.status \in {"none", "running", "completed", "failed"}
    BY <1>4 DEF RunRows
  <2> QED BY <1>1, <1>2, <1>4, <2>1 DEF ViewTypeOK, Resting
<1>6. /\ about'[c] = r.id /\ told'[c] = r.status
      /\ held'[c] = (IF r.id = about[c] THEN held[c] ELSE {})
      /\ step'[c] = "idle" /\ said'[c] = "none" /\ cards'[c] = {} /\ lists'[c] = {}
      /\ parts'[c] = {}
  BY <1>1, <1>2, <1>4 DEF ViewTypeOK
<1>7. Known(c)'
  <2>1. \A q \in Requests : \A d \in draftRuns[q] : d.id # r.id
    BY DEF ViewInv, Hidden, Ids
  <2>2. Dialect = "postgres" => r.id <= issuedRuns
    BY DEF ViewInv, Inv, RunIdsHeld, AllRuns
  <2> QED BY <1>3, <1>6, <2>1, <2>2 DEF Known, Ids
<1>8. Client(c)'
  <2>1. ~ Gone(c) => held[c] \subseteq RecsOfRun(about[c])
    BY DEF ViewInv, Client, Kept
  <2>2. r.id = about[c] => ~ Gone(c)
    BY DEF Gone, Ids
  <2>3. Kept(c)'
    BY <1>3, <1>6, <2>1, <2>2 DEF Kept, RecsOfRun, GroupsOfRun
  <2>4. Followed(c)' /\ Grouped(c)'
    BY <1>6 DEF Followed, Grouped, Answered, PastRecs
  <2>5. Whole(c)'
    <3>1. \A s \in runs' : s.id = r.id => s = r
      BY <1>3, TablesOfType
    <3> QED BY <1>6, <3>1 DEF Whole, Answered, PastRecs
  <2>6. Asked(c)'
    BY <1>2 DEF ViewInv, Client, Asked
  <2> QED BY <1>6, <2>3, <2>4, <2>5, <2>6 DEF Client
<1> QED BY <1>1, <1>2, <1>4, <1>5, <1>7, <1>8, ReaderStep DEF ViewTypeOK

LEMMA AskStep ==
  ASSUME NoReuse, ViewInv, UNCHANGED vars, NEW c \in Clients, NEW v \in Views, Ask(c, v)
  PROVE  ViewInv'
<1>1. PICK W \in SUBSET held[c] :
        /\ wanted' = [wanted EXCEPT ![c] = W]
        /\ \A x, y \in W : x = y
        /\ v # "evidence" => W = {}
  <2>1. CASE v = "evidence"
    <3>1. PICK x \in held[c] : wanted' = [wanted EXCEPT ![c] = {x}]
      BY <2>1 DEF Ask
    <3>2. {x} \in SUBSET held[c] /\ \A y, z \in {x} : y = z
      OBVIOUS
    <3> QED BY <2>1, <3>1, <3>2
  <2>2. CASE v # "evidence"
    <3>1. wanted' = [wanted EXCEPT ![c] = {}]
      BY <2>2 DEF Ask
    <3> QED BY <3>1
  <2> QED BY <2>1, <2>2
<1> DEFINE scope == only'[c]
<1>10. /\ only' = [only EXCEPT ![c] = scope] /\ scope \in SUBSET Workloads
       /\ v # "manifest" => scope = Workloads
  BY DEF ViewInv, ViewTypeOK, Ask
<1> HIDE DEF scope
<1>2. /\ about[c] # 0
      /\ view' = [view EXCEPT ![c] = v]
      /\ step' = [step EXCEPT ![c] = First(v)]
      /\ said' = [said EXCEPT ![c] = "none"]
      /\ cards' = [cards EXCEPT ![c] = {}]
      /\ lists' = [lists EXCEPT ![c] = {}]
      /\ parts' = [parts EXCEPT ![c] = {}]
      /\ UNCHANGED <<about, told, held>>
  BY DEF Ask
<1>3. UNCHANGED <<runs, recs, groups, draftRuns, issuedRuns>>
  BY DEF vars, results, issued, connection
<1>4. ViewTypeOK /\ v \in AllViews
  BY ViewsAssumption DEF ViewInv
<1>5. First(v) \in DOMAIN Course[v] /\ First(v) \in {"run", "recs"}
  BY <1>4, Courses DEF First
<1>6. ViewTypeOK'
  <2>1. \A d \in Clients : step'[d] \in Resting \union DOMAIN Course[view'[d]]
    BY <1>2, <1>4, <1>5 DEF ViewTypeOK
  <2>2. wanted' \in [Clients -> SUBSET RecRows]
    BY <1>1, <1>4 DEF ViewTypeOK
  <2> QED BY <1>2, <1>4, <1>5, <1>10, <2>1, <2>2 DEF ViewTypeOK
<1>7. /\ view'[c] = v /\ only'[c] = scope
      /\ wanted'[c] = W /\ step'[c] = First(v) /\ said'[c] = "none"
      /\ cards'[c] = {} /\ lists'[c] = {} /\ parts'[c] = {}
  BY <1>1, <1>2, <1>4, <1>10 DEF ViewTypeOK
<1>8. Known(c)'
  BY <1>2, <1>3 DEF ViewInv, Known, Ids
<1>9. Client(c)'
  <2>1. step'[c] \notin {"missing", "empty", "titles", "groups", "peers", "ok"}
    BY <1>5, <1>7
  <2>2. Gone(c)' = Gone(c)
    BY <1>2, <1>3 DEF Gone, Ids
  <2>3. Gone(c) \/ (Kept(c)' /\ Followed(c)' /\ Whole(c)' /\ Grouped(c)')
    BY <1>2, <1>3, <1>7, <2>1
       DEF ViewInv, Client, Kept, Followed, Whole, Grouped, Answered, PastRecs, RecsOfRun,
           GroupsOfRun
  <2>4. Asked(c)'
    BY <1>1, <1>7, <1>10 DEF Asked
  <2> QED BY <1>2, <1>7, <2>1, <2>2, <2>3, <2>4 DEF Client
<1> QED BY <1>1, <1>2, <1>4, <1>6, <1>8, <1>9, <1>10, ReaderStep DEF ViewTypeOK

(* One SELECT: the client it concerns, and where it goes. *)
LEMMA SelectFrame ==
  ASSUME ViewInv, UNCHANGED vars, NEW c \in Clients,
         UNCHANGED <<about, told, view, only, wanted>>, step[c] \notin Resting,
         NEW s \in {"missing", "empty", Course[view[c]][step[c]]},
         step' = [step EXCEPT ![c] = s]
  PROVE  /\ step[c] \in DOMAIN Course[view[c]] /\ view[c] \in AllViews
         /\ step'[c] = s
         /\ step' \in [Clients -> Resting \union {"run", "again", "recs", "titles", "groups"} \union Parts]
         /\ \A d \in Clients : step'[d] \in Resting \union DOMAIN Course[view'[d]]
         /\ \A d \in Clients \ {c} : step'[d] = step[d]
         /\ Known(c)' /\ Gone(c)' = Gone(c)
         /\ UNCHANGED <<runs, recs, groups>>
<1>1. ViewTypeOK /\ Known(c)
  BY DEF ViewInv
<1>2. UNCHANGED <<runs, recs, groups, draftRuns, issuedRuns>>
  BY DEF vars, results, issued, connection
<1>3. Known(c)' /\ Gone(c)' = Gone(c)
  BY <1>1, <1>2 DEF Known, Gone, Ids
<1>4. step[c] \in DOMAIN Course[view[c]] /\ view[c] \in AllViews
  BY <1>1 DEF ViewTypeOK
<1>5. s \in Resting \union DOMAIN Course[view[c]]
  BY <1>4, Courses DEF Resting, Outcomes
<1>6. s \in Resting \union {"run", "again", "recs", "titles", "groups"} \union Parts
  BY <1>4, <1>5, Courses DEF Parts
<1>7. \A d \in Clients : step'[d] \in Resting \union DOMAIN Course[view'[d]]
  BY <1>1, <1>5 DEF ViewTypeOK
<1>8. /\ step' \in [Clients -> Resting \union {"run", "again", "recs", "titles", "groups"} \union Parts]
      /\ step'[c] = s /\ \A d \in Clients \ {c} : step'[d] = step[d]
  BY <1>1, <1>6 DEF ViewTypeOK
<1> QED BY <1>2, <1>3, <1>4, <1>7, <1>8

LEMMA GetRunStep ==
  ASSUME NoReuse, ViewInv, UNCHANGED vars, NEW c \in Clients, GetRun(c)
  PROVE  ViewInv'
<1>1. /\ step[c] = "run" /\ step[c] \notin Resting
      /\ UNCHANGED <<about, told, view, only, wanted, cards, lists, parts, held>>
  BY DEF GetRun, Reading, Resting, Outcomes
<1>2. PICK s \in {"missing", Course[view[c]][step[c]]} : step' = [step EXCEPT ![c] = s]
  BY <1>1 DEF GetRun, Advance
<1>3. /\ step[c] \in DOMAIN Course[view[c]] /\ view[c] \in AllViews
      /\ step'[c] = s
      /\ step' \in [Clients -> Resting \union {"run", "again", "recs", "titles", "groups"} \union Parts]
      /\ \A d \in Clients : step'[d] \in Resting \union DOMAIN Course[view'[d]]
      /\ \A d \in Clients \ {c} : step'[d] = step[d]
      /\ Known(c)' /\ Gone(c)' = Gone(c)
      /\ UNCHANGED <<runs, recs, groups>>
  BY <1>1, <1>2, SelectFrame
<1>4. ViewTypeOK /\ runs \subseteq RunRows
  BY TablesOfType DEF ViewInv
<1>5. \/ \E r \in RowOf(about[c]) : said' = [said EXCEPT ![c] = r.status] /\ Advance(c)
      \/ RowOf(about[c]) = {} /\ UNCHANGED said
  BY DEF GetRun
<1>6. ViewTypeOK' /\ \A d \in Clients \ {c} : said'[d] = said[d]
  <2>1. \A r \in RowOf(about[c]) : r.status \in {"none", "running", "completed", "failed"}
    BY <1>4 DEF RowOf, RunRows
  <2>2. said' \in [Clients -> {"none", "running", "completed", "failed"}]
    BY <1>4, <1>5, <2>1 DEF ViewTypeOK
  <2>3. \A d \in Clients \ {c} : said'[d] = said[d]
    BY <1>4, <1>5 DEF ViewTypeOK
  <2> QED BY <1>1, <1>3, <1>4, <2>2, <2>3 DEF ViewTypeOK
<1>7. Client(c)'
  <2>1. CASE RowOf(about[c]) = {}
    <3>1. Gone(c)
      BY <2>1 DEF Gone, RowOf, Ids
    <3>2. step'[c] \notin {"run", "again", "recs", "evidence"} \/ parts[c] = {}
      BY <1>1 DEF ViewInv, Client
    <3> QED BY <1>1, <1>3, <3>1, <3>2 DEF ViewInv, Client, Asked
  <2>2. CASE RowOf(about[c]) # {}
    <3>1. PICK r \in runs : r.id = about[c] /\ said' = [said EXCEPT ![c] = r.status] /\ Advance(c)
      BY <1>5, <2>2 DEF RowOf
    <3>2. s = Course[view[c]]["run"] /\ said'[c] = r.status
      BY <1>1, <1>2, <1>3, <1>4, <3>1 DEF Advance, ViewTypeOK
    <3>3. /\ s \in {"ok", "recs", "again"}
          /\ view[c] \in Listing \union {"evidence"} => s # "ok"
      BY <1>1, <1>3, <3>2, Courses
    <3>4. ~ Gone(c) /\ Kept(c) /\ Whole(c) /\ parts[c] = {} /\ wanted[c] \subseteq held[c]
      BY <1>1, <3>1 DEF ViewInv, Client, Gone, Ids
    <3>5. Kept(c)'
      BY <1>1, <1>3, <3>4 DEF Kept, RecsOfRun, GroupsOfRun
    <3>6. Followed(c)' /\ Grouped(c)'
      BY <1>1, <1>3, <3>3 DEF Followed, Grouped, Answered, Listing, PastRecs
    <3>7. Whole(c)'
      BY <1>1, <1>3, <3>1, <3>2, <3>3, <3>4 DEF Whole, Answered, Listing, PastRecs
    <3>8. Asked(c)'
      BY <1>1 DEF ViewInv, Client, Asked
    <3> QED BY <1>1, <1>3, <3>3, <3>4, <3>5, <3>6, <3>7, <3>8 DEF Client
  <2> QED BY <2>1, <2>2
<1> QED BY <1>1, <1>3, <1>6, <1>7, ReaderStep

LEMMA AgainStep ==
  ASSUME NoReuse, ViewInv, UNCHANGED vars, NEW c \in Clients, FindRunAgain(c)
  PROVE  ViewInv'
<1>1. /\ step[c] = "again" /\ step[c] \notin Resting
      /\ UNCHANGED <<about, told, view, only, said, wanted, cards, lists, parts, held>>
  BY DEF FindRunAgain, Reading, Resting, Outcomes
<1>2. PICK s \in {"empty", Course[view[c]][step[c]]} :
        /\ step' = [step EXCEPT ![c] = s]
        /\ (s = "empty" /\ RowOf(about[c]) = {}) \/ s = Course[view[c]][step[c]]
  BY <1>1 DEF FindRunAgain, Advance
<1>3. /\ step[c] \in DOMAIN Course[view[c]] /\ view[c] \in AllViews
      /\ step'[c] = s
      /\ step' \in [Clients -> Resting \union {"run", "again", "recs", "titles", "groups"} \union Parts]
      /\ \A d \in Clients : step'[d] \in Resting \union DOMAIN Course[view'[d]]
      /\ \A d \in Clients \ {c} : step'[d] = step[d]
      /\ Known(c)' /\ Gone(c)' = Gone(c)
      /\ UNCHANGED <<runs, recs, groups>>
  BY <1>1, <1>2, SelectFrame
<1>4. ViewTypeOK'
  BY <1>1, <1>3 DEF ViewInv, ViewTypeOK
<1>5. (s = "empty" /\ Gone(c)) \/ s = "recs"
  BY <1>1, <1>2, <1>3, Courses DEF Gone, RowOf, Ids
<1>6. Client(c)'
  BY <1>1, <1>3, <1>5
     DEF ViewInv, Client, Asked, Kept, Followed, Whole, Grouped, Answered, PastRecs, RecsOfRun,
         GroupsOfRun
<1> QED BY <1>1, <1>3, <1>4, <1>6, ReaderStep

LEMMA RecsStep ==
  ASSUME NoReuse, ViewInv, UNCHANGED vars, NEW c \in Clients, GetRecs(c)
  PROVE  ViewInv'
<1> DEFINE found == AboutOf(c)
<1>1. /\ step[c] = "recs" /\ step[c] \notin Resting
      /\ cards' = [cards EXCEPT ![c] = found]
      /\ UNCHANGED <<about, told, view, only, said, wanted, lists, parts>>
  BY DEF GetRecs, AboutOf, Reading, Resting, Outcomes
<1>2. \/ held' = [held EXCEPT ![c] = @ \union found]
      \/ held' = held /\ view[c] \notin {"cards", "export", "manifest"}
  BY DEF GetRecs, AboutOf
<1>3. PICK s \in {"missing", "empty", Course[view[c]][step[c]]} :
        /\ step' = [step EXCEPT ![c] = s]
        /\ \/ s = "missing" /\ ~ (wanted[c] \subseteq found)
           \/ s = "empty" /\ view[c] = "manifest" /\ found = {}
           \/ s = Course[view[c]][step[c]] /\ wanted[c] \subseteq found
  BY <1>1 DEF GetRecs, Advance, AboutOf
<1>4. /\ step[c] \in DOMAIN Course[view[c]] /\ view[c] \in AllViews
      /\ step'[c] = s
      /\ step' \in [Clients -> Resting \union {"run", "again", "recs", "titles", "groups"} \union Parts]
      /\ \A d \in Clients : step'[d] \in Resting \union DOMAIN Course[view'[d]]
      /\ \A d \in Clients \ {c} : step'[d] = step[d]
      /\ Known(c)' /\ Gone(c)' = Gone(c)
      /\ UNCHANGED <<runs, recs, groups>>
  BY <1>1, <1>3, SelectFrame
<1>5. /\ ViewTypeOK /\ found \subseteq RecsOfRun(about[c]) /\ found \subseteq RecRows
      /\ RecsOfRun(about[c])' = RecsOfRun(about[c])
      /\ GroupsOfRun(about[c])' = GroupsOfRun(about[c]) /\ AboutOf(c)' = found
  BY <1>1, <1>4, TablesOfType DEF ViewInv, RecsOfRun, GroupsOfRun, AboutOf
<1> HIDE DEF found
<1>6. /\ cards'[c] = found /\ held'[c] \in {held[c], held[c] \union found}
      /\ view[c] \in {"cards", "export", "manifest"} => held'[c] = held[c] \union found
      /\ \A d \in Clients \ {c} : cards'[d] = cards[d] /\ held'[d] = held[d]
  BY <1>1, <1>2, <1>5 DEF ViewTypeOK
<1>7. ViewTypeOK'
  <2>1. cards' \in [Clients -> SUBSET RecRows] /\ held' \in [Clients -> SUBSET RecRows]
    BY <1>1, <1>2, <1>5 DEF ViewTypeOK
  <2> QED BY <1>1, <1>4, <1>5, <2>1 DEF ViewTypeOK
<1>8. Client(c)'
  <2>1. wanted[c] \subseteq held[c] /\ parts[c] = {} /\ Asked(c)
    BY <1>1 DEF ViewInv, Client
  <2>2. Asked(c)'
    BY <1>1, <2>1 DEF Asked
  <2>3. CASE Gone(c)
    BY <1>1, <1>4, <1>6, <2>1, <2>2, <2>3 DEF Client
  <2>4. CASE ~ Gone(c)
    <3>1. Kept(c) /\ Whole(c)
      BY <2>4 DEF ViewInv, Client
    <3>2. /\ held[c] \subseteq RecsOfRun(about[c]) /\ held'[c] \subseteq RecsOfRun(about[c])
          /\ {x \in held'[c] : x.uid \in only[c]} \subseteq found
      BY <1>5, <1>6, <3>1 DEF Kept, found, AboutOf
    <3>3. wanted[c] \subseteq found
      <4>1. CASE view[c] = "manifest"
        BY <2>1, <4>1 DEF Asked
      <4>2. CASE view[c] # "manifest"
        <5>1. \A x \in wanted[c] : x.uid \in Workloads
          BY <1>5 DEF ViewTypeOK, RecRows
        <5> QED BY <2>1, <3>2, <4>2, <5>1 DEF Asked, found, AboutOf
      <4> QED BY <4>1, <4>2
    <3>4. \/ s = Course[view[c]]["recs"]
          \/ s = "empty" /\ view[c] = "manifest" /\ found = {}
      BY <1>1, <1>3, <3>3
    <3>5. /\ s \in {"ok", "titles", "groups", "evidence", "empty"}
          /\ view[c] \in {"groups", "print"} => s \in {"titles", "groups"}
          /\ view[c] = "evidence" => s = "evidence"
          /\ s = "empty" => view[c] = "manifest" /\ found = {}
      BY <1>1, <1>4, <3>4, Courses
    <3>6. Kept(c)'
      BY <1>1, <1>5, <1>6, <3>1, <3>2 DEF Kept
    <3>7. Followed(c)' /\ Grouped(c)'
      BY <1>1, <1>4, <1>6, <3>2, <3>5 DEF Followed, Grouped, Answered
    <3>8. Whole(c)'
      BY <1>1, <1>4, <1>5, <1>6, <3>1, <3>5 DEF Whole, Answered
    <3> QED BY <1>1, <1>4, <1>6, <2>1, <2>2, <3>5, <3>6, <3>7, <3>8 DEF Client
  <2> QED BY <2>3, <2>4
<1> QED BY <1>1, <1>4, <1>6, <1>7, <1>8, ReaderStep

(* The groups the command line reads first change nothing.                 *)
LEMMA TitlesStep ==
  ASSUME NoReuse, ViewInv, UNCHANGED vars, NEW c \in Clients, GetGroups(c), step[c] = "titles"
  PROVE  ViewInv'
<1>1. /\ step[c] \notin Resting
      /\ step' = [step EXCEPT ![c] = Course[view[c]][step[c]]]
      /\ UNCHANGED <<about, told, view, only, said, wanted, cards, lists, parts, held>>
  BY DEF GetGroups, Reading, Resting, Outcomes, Advance
<1> DEFINE s == Course[view[c]][step[c]]
<1>2. /\ step[c] \in DOMAIN Course[view[c]] /\ view[c] \in AllViews
      /\ step'[c] = s
      /\ step' \in [Clients -> Resting \union {"run", "again", "recs", "titles", "groups"} \union Parts]
      /\ \A d \in Clients : step'[d] \in Resting \union DOMAIN Course[view'[d]]
      /\ \A d \in Clients \ {c} : step'[d] = step[d]
      /\ Known(c)' /\ Gone(c)' = Gone(c)
      /\ UNCHANGED <<runs, recs, groups>>
  BY <1>1, SelectFrame
<1>3. s = "groups" /\ view[c] = "print"
  BY <1>2, Courses
<1>4. ViewTypeOK'
  BY <1>1, <1>2 DEF ViewInv, ViewTypeOK
<1>5. Client(c)'
  BY <1>1, <1>2, <1>3
     DEF ViewInv, Client, Asked, Kept, Followed, Whole, Grouped, Answered, PastRecs, AboutOf,
         RecsOfRun, GroupsOfRun
<1> QED BY <1>1, <1>2, <1>4, <1>5, ReaderStep

(* The groups are read after what is in them: each was committed with or   *)
(* before it.                                                              *)
LEMMA GroupsStep ==
  ASSUME NoReuse, ViewInv, UNCHANGED vars, NEW c \in Clients, GetGroups(c), step[c] = "groups"
  PROVE  ViewInv'
<1> DEFINE found == GroupsOfRun(about[c])
<1>1. /\ step[c] = "groups" /\ step[c] \notin Resting
      /\ lists' = [lists EXCEPT ![c] = found]
      /\ held' = [held EXCEPT ![c] = @ \union cards[c]]
      /\ step' = [step EXCEPT ![c] = Course[view[c]][step[c]]]
      /\ UNCHANGED <<about, told, view, only, said, wanted, cards, parts>>
  BY DEF GetGroups, Reading, Resting, Outcomes, Advance
<1> DEFINE s == Course[view[c]][step[c]]
<1>2. /\ step[c] \in DOMAIN Course[view[c]] /\ view[c] \in AllViews
      /\ step'[c] = s
      /\ step' \in [Clients -> Resting \union {"run", "again", "recs", "titles", "groups"} \union Parts]
      /\ \A d \in Clients : step'[d] \in Resting \union DOMAIN Course[view'[d]]
      /\ \A d \in Clients \ {c} : step'[d] = step[d]
      /\ Known(c)' /\ Gone(c)' = Gone(c)
      /\ UNCHANGED <<runs, recs, groups>>
  BY <1>1, SelectFrame
<1>3. s = "ok" /\ view[c] \in {"groups", "print"}
  BY <1>1, <1>2, Courses
<1>4. ViewTypeOK /\ found \subseteq GroupRows /\ GroupsOfRun(about[c])' = found
      /\ RecsOfRun(about[c])' = RecsOfRun(about[c])
  BY <1>1, <1>2, TablesOfType DEF ViewInv, RecsOfRun, GroupsOfRun
<1>5. /\ lists'[c] = found /\ held'[c] = held[c] \union cards[c]
      /\ \A d \in Clients \ {c} : lists'[d] = lists[d] /\ held'[d] = held[d]
  BY <1>1, <1>4 DEF ViewTypeOK
<1>6. ViewTypeOK'
  <2>1. lists' \in [Clients -> SUBSET GroupRows] /\ held' \in [Clients -> SUBSET RecRows]
    <3> HIDE DEF found
    <3> QED BY <1>1, <1>4 DEF ViewTypeOK
  <2> QED BY <1>1, <1>2, <1>4, <2>1 DEF ViewTypeOK
<1>7. Client(c)'
  <2>1. wanted[c] \subseteq held[c] /\ Asked(c)
    BY <1>1 DEF ViewInv, Client
  <2>4. Asked(c)'
    BY <1>1, <2>1 DEF Asked
  <2>2. CASE Gone(c)
    BY <1>1, <1>2, <1>3, <1>5, <2>1, <2>2, <2>4 DEF Client
  <2>3. CASE ~ Gone(c)
    <3>1. /\ Kept(c) /\ Whole(c)
          /\ {x \in held[c] : x.uid \in only[c]} \subseteq cards[c]
      BY <1>1, <1>3, <2>3 DEF ViewInv, Client, Followed, Listing, PastRecs
    <3>2. Kept(c)'
      BY <1>1, <1>4, <1>5, <3>1 DEF Kept
    <3>3. Followed(c)'
      BY <1>1, <1>2, <1>3, <1>5, <3>1 DEF Followed, Answered
    <3>4. Whole(c)'
      BY <1>1, <1>2, <1>3, <1>4, <1>5, <3>1 DEF Whole, Answered, Listing, PastRecs, AboutOf
    <3>5. Grouped(c)'
      <4>1. \A x \in cards[c] : \E g \in found : g.id = x.group /\ x.uid \in g.members
        <5>1. PICK r \in runs : r.id = about[c]
          BY <2>3 DEF Gone, Ids
        <5>2. RecsOf(r) = RecsOfRun(about[c]) /\ GroupsOf(r) = found
          BY <5>1 DEF RecsOf, GroupsOf, RecsOfRun, GroupsOfRun
        <5>3. ReadersSeeAPrefix
          BY PrefixOfInv DEF ViewInv
        <5> QED BY <3>1, <5>2, <5>3 DEF ReadersSeeAPrefix, Kept
      <4> QED BY <1>1, <1>5, <4>1 DEF Grouped
    <3> QED BY <1>1, <1>2, <1>3, <1>5, <2>1, <2>4, <3>2, <3>3, <3>4, <3>5 DEF Client
  <2> QED BY <2>2, <2>3
<1> QED BY <1>1, <1>2, <1>5, <1>6, <1>7, ReaderStep

LEMMA PartStep ==
  ASSUME NoReuse, ViewInv, UNCHANGED vars, NEW c \in Clients, NEW p \in Parts, GetPart(c, p)
  PROVE  ViewInv'
<1> DEFINE found == {d \in {p} : \E x \in wanted[c] \intersect recs : d \in x.details}
<1>1. /\ step[c] = p /\ step[c] \notin Resting
      /\ parts' = [parts EXCEPT ![c] = @ \union found]
      /\ step' = [step EXCEPT ![c] = Course[view[c]][step[c]]]
      /\ UNCHANGED <<about, told, view, only, said, wanted, cards, lists, held>>
  BY DEF GetPart, Reading, Resting, Outcomes, Advance, Parts
<1> DEFINE s == Course[view[c]][step[c]]
<1>2. /\ step[c] \in DOMAIN Course[view[c]] /\ view[c] \in AllViews
      /\ step'[c] = s
      /\ step' \in [Clients -> Resting \union {"run", "again", "recs", "titles", "groups"} \union Parts]
      /\ \A d \in Clients : step'[d] \in Resting \union DOMAIN Course[view'[d]]
      /\ \A d \in Clients \ {c} : step'[d] = step[d]
      /\ Known(c)' /\ Gone(c)' = Gone(c)
      /\ UNCHANGED <<runs, recs, groups>>
  BY <1>1, SelectFrame
<1>3. /\ view[c] = "evidence"
      /\ p = "evidence" => s = "peers"
      /\ p = "peers" => s = "ok"
  BY <1>1, <1>2, Courses DEF Parts
<1>4. ViewTypeOK
  BY DEF ViewInv
<1>5. /\ parts'[c] = parts[c] \union found
      /\ \A d \in Clients \ {c} : parts'[d] = parts[d]
      /\ parts' \in [Clients -> SUBSET Parts]
  BY <1>1, <1>4 DEF ViewTypeOK
<1>6. ViewTypeOK'
  BY <1>1, <1>2, <1>4, <1>5 DEF ViewTypeOK
<1>7. Client(c)'
  <2>1. wanted[c] \subseteq held[c] /\ Asked(c)
    BY <1>1 DEF ViewInv, Client, Parts
  <2>4. Asked(c)'
    BY <1>1, <2>1 DEF Asked
  <2>2. CASE Gone(c)
    BY <1>1, <1>2, <1>3, <2>1, <2>2, <2>4 DEF Client, Parts
  <2>3. CASE ~ Gone(c)
    <3>1. Kept(c) /\ Whole(c) /\ Followed(c) /\ (p = "evidence" => parts[c] = {})
      BY <1>1, <2>3 DEF ViewInv, Client
    <3>2. \A x \in wanted[c] : /\ x.details \subseteq {"evidence", "peers"}
                               /\ parts'[c] = parts[c] \union (x.details \intersect {p})
      <4>1. \A x \in wanted[c] : x \in recs /\ x.details \subseteq {"evidence", "peers"}
        <5>1. \A x \in wanted[c] : x \in recs
          BY <2>1, <3>1 DEF Kept, RecsOfRun
        <5>2. \A x \in RecRows : x.details \subseteq {"evidence", "peers"}
          BY DetailsAssumption DEF RecRows
        <5> QED BY <5>1, <5>2, TablesOfType
      <4>2. \A x \in wanted[c] : found = x.details \intersect {p}
        BY <2>1, <4>1 DEF Asked
      <4> QED BY <1>5, <4>1, <4>2
    <3>3. Followed(c)'
      <4>1. CASE p = "evidence"
        BY <1>1, <1>2, <1>3, <3>1, <3>2, <4>1 DEF Followed, Answered, Listing, PastRecs
      <4>2. CASE p = "peers"
        <5>1. \A x \in wanted[c] : parts'[c] = x.details
          <6> SUFFICES ASSUME NEW x \in wanted[c] PROVE parts'[c] = x.details
            OBVIOUS
          <6>1. parts[c] = x.details \intersect {"evidence"}
            BY <1>1, <3>1, <4>2 DEF Followed
          <6>2. parts'[c] = parts[c] \union (x.details \intersect {"peers"})
            BY <3>2, <4>2
          <6>3. x.details \subseteq {"evidence", "peers"}
            BY <3>2
          <6> QED BY <6>1, <6>2, <6>3
        <5> QED BY <1>1, <1>2, <1>3, <4>2, <5>1 DEF Followed, Answered, Listing, PastRecs
      <4> QED BY <4>1, <4>2 DEF Parts
    <3>4. Kept(c)' /\ Whole(c)' /\ Grouped(c)'
      BY <1>1, <1>2, <1>3, <3>1
         DEF Kept, Whole, Grouped, Answered, Listing, PastRecs, RecsOfRun, GroupsOfRun
    <3> QED BY <1>1, <1>2, <1>3, <2>1, <2>4, <3>3, <3>4 DEF Client, Parts
  <2> QED BY <2>2, <2>3
<1> QED BY <1>1, <1>2, <1>5, <1>6, <1>7, ReaderStep

LEMMA ViewStep == NoReuse /\ ViewInv /\ [ViewNext]_<<vars, viewer>> => ViewInv'
<1> SUFFICES ASSUME NoReuse, ViewInv, [ViewNext]_<<vars, viewer>> PROVE ViewInv'
  OBVIOUS
<1>1. CASE Next /\ UNCHANGED viewer
  BY <1>1, WriterStep
<1>2. CASE UNCHANGED <<vars, viewer>>
  BY <1>2, WriterStep
<1>3. ASSUME UNCHANGED vars, NEW c \in Clients, Select(c) PROVE ViewInv'
  <2>1. CASE GetGroups(c)
    <3>1. step[c] \in {"titles", "groups"}
      BY <2>1 DEF GetGroups, Reading
    <3> QED BY <1>3, <2>1, <3>1, TitlesStep, GroupsStep
  <2> QED BY <1>3, <2>1, GetRunStep, AgainStep, RecsStep, PartStep DEF Select
<1>4. ASSUME UNCHANGED vars, NEW c \in Clients, ListRuns(c) \/ (\E v \in Views : Ask(c, v))
      PROVE  ViewInv'
  BY <1>4, ListStep, AskStep
<1> QED BY <1>1, <1>2, <1>3, <1>4 DEF ViewNext

LEMMA ViewInvHolds == NoReuse => (ViewSpec => []ViewInv)
<1> SUFFICES ASSUME NoReuse PROVE ViewSpec => []ViewInv
  OBVIOUS
<1>1. ViewInv /\ [ViewNext]_<<vars, viewer>> => ViewInv'
  BY ViewStep
<1> QED BY ViewStart, <1>1, PTL DEF ViewSpec

-----------------------------------------------------------------------------
(***************************************************************************)
(* What readers may rely on.                                               *)
(***************************************************************************)

(* Readers do not disturb the runs: whatever is proved of Spec holds beside*)
(* them (RunViews composes AnalysisRun with readers that only SELECT).     *)
THEOREM ReadersOnlyRead == ViewSpec => Spec
<1>1. ViewInit => Init
  BY DEF ViewInit
<1>2. [ViewNext]_<<vars, viewer>> => [Next]_vars
  BY DEF ViewNext
<1> QED BY <1>1, <1>2, PTL DEF ViewSpec, Spec

(* Every client is at a SELECT of its view, and holds rows of the tables.  *)
THEOREM TypeCorrectOfViews == NoReuse => (ViewSpec => []ViewTypeOK)
<1> SUFFICES ASSUME NoReuse PROVE ViewSpec => []ViewTypeOK
  OBVIOUS
<1>1. ViewInv => ViewTypeOK
  BY DEF ViewInv
<1> QED BY ViewInvHolds, <1>1, PTL

(* Groups read after what is in them drop nothing (dto.py:114-129).        *)
THEOREM NothingDropped == NoReuse => (ViewSpec => []NothingReadIsDropped)
<1> SUFFICES ASSUME NoReuse PROVE ViewSpec => []NothingReadIsDropped
  OBVIOUS
<1>1. ViewInv => NothingReadIsDropped
  BY DEF ViewInv, Client, Grouped, NothingReadIsDropped
<1> QED BY ViewInvHolds, <1>1, PTL

(* A completed run is shown whole, in every view (dto.py:80-129).          *)
THEOREM ViewsWhole == NoReuse => (ViewSpec => []CompletedViewsAreWhole)
<1> SUFFICES ASSUME NoReuse PROVE ViewSpec => []CompletedViewsAreWhole
  OBVIOUS
<1>1. ViewInv => CompletedViewsAreWhole
  <2> SUFFICES ASSUME ViewInv, NEW c \in Clients, NEW r \in runs,
                      r.id = about[c], told[c] = "completed"
      PROVE  /\ said[c] \in {"none", "completed"}
             /\ Answered(c, Listing) \/ step[c] = "empty" =>
                  {x.uid : x \in cards[c]} = uids[r.owner] \intersect only[c]
             /\ Answered(c, {"groups", "print"}) => \A g \in lists[c] :
                  g.members = {x.uid : x \in {x \in cards[c] : x.group = g.id}}
    BY DEF CompletedViewsAreWhole
  <2>1. ~ Gone(c)
    BY DEF Gone, Ids
  <2>2. Whole(c) /\ Followed(c) /\ Asked(c) /\ r.status = "completed"
    BY <2>1 DEF ViewInv, Client, Whole
  <2>3. CompletedIsComplete
    BY CompletedOfInv DEF ViewInv
  <2>4. RecsOf(r) = RecsOfRun(about[c]) /\ GroupsOf(r) = GroupsOfRun(about[c])
    BY DEF RecsOf, GroupsOf, RecsOfRun, GroupsOfRun
  <2>5. /\ \A w \in uids[r.owner] : \E x \in RecsOf(r) : x.uid = w
        /\ \A x \in RecsOf(r) : x.uid \in uids[r.owner]
    BY <2>2, <2>3 DEF CompletedIsComplete
  <2>6. ASSUME Answered(c, Listing) \/ step[c] = "empty"
        PROVE  {x.uid : x \in cards[c]} = uids[r.owner] \intersect only[c]
    <3>1. cards[c] = {x \in RecsOf(r) : x.uid \in only[c]}
      BY <2>2, <2>4, <2>6 DEF Whole, Followed, Answered, AboutOf, PastRecs, Listing
    <3> QED BY <2>5, <3>1
  <2>7. ASSUME Answered(c, {"groups", "print"}), NEW g \in lists[c]
        PROVE  g.members = {x.uid : x \in {x \in cards[c] : x.group = g.id}}
    <3>1. \A x \in RecsOf(r) : x.uid \in Workloads
      BY TablesOfType DEF RecsOf, RecRows
    <3>2. cards[c] = RecsOf(r) /\ lists[c] = GroupsOf(r)
      BY <2>2, <2>4, <2>7, <3>1 DEF Whole, Answered, Listing, PastRecs, AboutOf, Asked
    <3>3. Advised(r, g) = g.members
      BY <2>2, <2>3, <2>7, <3>2 DEF CompletedIsComplete
    <3> QED BY <3>2, <3>3 DEF Advised
  <2> QED BY <2>2, <2>6, <2>7 DEF Whole
<1> QED BY ViewInvHolds, <1>1, PTL

(* 404, the empty export of a run and evidence that lacks what was stored  *)
(* with it mean that the run is gone, an empty manifest at least that      *)
(* nothing was shown before, and what was shown once can be shown again    *)
(* (app.py:336-382).                                                       *)
THEOREM ShownStays == NoReuse => (ViewSpec => []WhatWasShownStays)
<1> SUFFICES ASSUME NoReuse PROVE ViewSpec => []WhatWasShownStays
  OBVIOUS
<1>1. ViewInv => MissingMeansDeleted
  <2> SUFFICES ASSUME ViewInv, NEW c \in Clients, ~ Gone(c)
      PROVE  /\ step[c] # "missing"
             /\ step[c] = "empty" =>
                  view[c] = "manifest" /\ \A x \in held[c] : x.uid \notin only[c]
             /\ Answered(c, {"evidence"}) => \A x \in wanted[c] : parts[c] = x.details
    BY DEF MissingMeansDeleted
  <2> QED BY DEF ViewInv, Client, Followed, PastRecs, Listing
<1>2. ViewInv => ViewsOnlyGrow
  BY DEF ViewInv, Client, Followed, ViewsOnlyGrow, Answered, PastRecs
<1>3. ViewInv => WhatWasShownStays
  BY <1>1, <1>2 DEF WhatWasShownStays
<1> QED BY ViewInvHolds, <1>3, PTL

=============================================================================
