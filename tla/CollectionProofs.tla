-------------------------- MODULE CollectionProofs --------------------------
(***************************************************************************)
(* Proofs about Collection, for any number of collections, requests and    *)
(* workloads, any time to live and any choice of steps.                    *)
(*                                                                         *)
(*   TypeCorrect      the type invariant;                                  *)
(*   SuccessCorrect   success means everything is in the tables;           *)
(*   IdentityCorrect  a workload with samples has an identity;             *)
(*   FreshCorrect     a run that waited for its own collection is dated    *)
(*                    no earlier than its request;                         *)
(*   JobsCorrect      jobs never put older allocations over newer ones;    *)
(*   StepsRunOut      each step of a collection or a request leaves it     *)
(*                    fewer, and nobody adds to them;                      *)
(*   NobodyGetsStuck  a collection that runs and a request that waits can  *)
(*                    go on.                                               *)
(*                                                                         *)
(* Inv is what makes them inductive: what a step still holds or has        *)
(* written, as far as its progress tells; rows that are settled have       *)
(* nobody left to change them; and a request knows its own collection.     *)
(***************************************************************************)
EXTENDS Collection, FiniteSetTheorems, WellFoundedInduction, TLAPS

-----------------------------------------------------------------------------
(* A collection nobody started has nothing. *)
Unstarted ==
  \A c \in Ids : owner[c] = "nobody" =>
    /\ ~alive[c] /\ collection_runs[c].status = "none"
    /\ \A s \in Steps : progress[c][s] = "unasked"

(* A step holds rows from its fetch until it fails. *)
HoldsRows ==
  \A c \in Ids, s \in Steps :
    progress[c][s] \in {"unasked", "todo", "failed"} => got[c][s] = {}

(* What is written is in the tables. *)
RowsAreIn ==
  \A c \in Ids :
    /\ progress[c]["metrics"] \in {"named", "written"} =>
         \A w \in got[c]["metrics"] : w \in disc_workloads
    /\ progress[c]["metrics"] = "written" =>
         \A w \in got[c]["metrics"] : c \in metric_samples[w]
    /\ progress[c]["allocations"] = "written" =>
         \A w \in got[c]["allocations"] : allocations[w] # NoId
    /\ progress[c]["interactions"] = "written" =>
         \A w \in got[c]["interactions"] : c \in interactions[w]

(* A row that is settled is about a collection that is over. *)
SettledIsOver ==
  \A c \in Ids : collection_runs[c].status \in Terminal =>
    ~alive[c] /\ \A s \in Steps : progress[c][s] \in Settled

SuccessIsHonest ==
  \A c \in Ids : collection_runs[c].status = "success" =>
    Errors(c) = {} /\ collection_runs[c].rows = Reported(c)

(* Nothing is collected in the future. *)
Past ==
  /\ \A c \in Ids, s \in Steps : at[c][s] <= now
  /\ \A r \in Requests : request[r].since <= now

(* One job at a time, and it stamps its allocations after the jobs before. *)
OneJob ==
  \A c, d \in Ids :
    (owner[c] = "cron" /\ owner[d] = "cron" /\ alive[c] /\ c # d) =>
      /\ ~alive[d]
      /\ progress[c]["allocations"] = "fetched" =>
           at[d]["allocations"] <= at[c]["allocations"]

(* What a collection on demand fetches, it fetches after the request. *)
AfterRequest ==
  /\ \A r \in inbox : request[r].pc # "new"
  /\ \A r \in Requests, c \in Ids : owner[c] = r =>
       /\ request[r].pc # "new"
       /\ got[c]["metrics"] # {} => request[r].since <= at[c]["metrics"]

(* A request that waited knows a collection of its own.  If it saw the end *)
(* of it, the row is settled, and what was collected dates the run.        *)
KnowsTruth(r, q) ==
  /\ q.pc \in {"new", "posted", "waiting"} => q.saw = "none"
  /\ q.id # NoId => owner[q.id] = r
  /\ q.saw \in Terminal => q.id # NoId /\ collection_runs[q.id].status \in Terminal
  /\ (q.pc = "done" /\ q.saw \in Terminal /\ progress[q.id]["metrics"] = "written"
        /\ got[q.id]["metrics"] # {}) => q.asOf >= q.since

KnowsItsOwn == \A r \in Requests : KnowsTruth(r, request[r])

Inv ==
  /\ TypeOK /\ Unstarted /\ HoldsRows /\ RowsAreIn /\ SamplesHaveIdentity
  /\ SettledIsOver /\ SuccessIsHonest /\ Past /\ OneJob /\ AfterRequest /\ KnowsItsOwn

-----------------------------------------------------------------------------
(* Rows counted are a number, as workloads are finite in number. *)
LEMMA ReportedType == \A c \in Ids : Reported(c) \in Nat
<1> TAKE c \in Ids
<1>1. IsFiniteSet(Steps)
  <2>1. IsFiniteSet({"metrics"}) /\ IsFiniteSet({"allocations"}) /\ IsFiniteSet({"interactions"})
    BY FS_Singleton
  <2>2. Steps = ({"metrics"} \union {"allocations"}) \union {"interactions"}
    BY DEF Steps
  <2> QED
    BY <2>1, <2>2, FS_Union
<1>2. IsFiniteSet(Steps \X Workloads)
  BY <1>1, WorkloadsAssumption, FS_Product
<1>3. {row \in Steps \X Workloads :
         progress[c][row[1]] = "written" /\ row[2] \in got[c][row[1]]}
        \in SUBSET (Steps \X Workloads)
  OBVIOUS
<1> QED
  BY <1>2, <1>3, FS_Subset, FS_CardinalityType DEF Reported

(* The data of an analysis are dated by a time of the clock. *)
LEMMA CollectedType == TypeOK => Collected \subseteq Times
<1> SUFFICES ASSUME TypeOK PROVE Collected \subseteq Times
  OBVIOUS
<1>1. \A c \in Ids, s \in Steps : at[c][s] \in Times
  BY DEF TypeOK
<1>2. OfAllocations \subseteq Times
  BY <1>1 DEF OfAllocations, TypeOK, Steps, NoId
<1>3. OfSamples \subseteq Times
  BY <1>1 DEF OfSamples, TypeOK, Steps
<1> QED
  BY <1>2, <1>3 DEF Collected

LEMMA TypeInit == Init => TypeOK
BY BoundsAssumption, RequestsAssumption
   DEF Init, TypeOK, RequestType, NewRequest, Times, Ids, NoId, NoTime, Progress, Terminal, Kinds, Steps

-----------------------------------------------------------------------------
(***************************************************************************)
(* The type invariant.                                                     *)
(***************************************************************************)
LEMMA TypeStep == TypeOK /\ [Next]_vars => TypeOK'
<1> SUFFICES ASSUME TypeOK, [Next]_vars PROVE TypeOK'
  OBVIOUS
<1> USE DEF Terminal, Ids, NoId
<1>1. CASE UNCHANGED vars
  BY <1>1 DEF vars, collector, tables, TypeOK
<1>2. CASE Tick
  BY <1>2, BoundsAssumption DEF Tick, collector, tables, TypeOK, Times
<1>3. ASSUME NEW c \in Ids, NEW who \in Requests \union {"cron"}, NEW selected \in SUBSET Steps,
             Start(c, who, selected), UNCHANGED <<now, tables, request>>, inbox' \subseteq inbox
      PROVE  TypeOK'
  BY <1>3 DEF Start, tables, TypeOK, Progress, InitialStatus
<1>4. ASSUME NEW c \in Ids, NEW selected \in Selections, CronIngest(c, selected)
      PROVE  TypeOK'
  BY <1>3, <1>4, SelectionsAssumption DEF CronIngest
<1>5. ASSUME NEW c \in Ids, NEW r \in Requests, Accept(c, r) PROVE TypeOK'
  BY <1>3, <1>5 DEF Accept
<1>6. ASSUME NEW c \in Ids, Collect(c) PROVE TypeOK'
  <2>1. ASSUME NEW s \in Steps, FetchFails(c, s) PROVE TypeOK'
    BY <2>1 DEF FetchFails, Becomes, tables, TypeOK, Progress
  <2>2. ASSUME NEW s \in Steps, NEW answer \in Answers, Fetch(c, s, answer) PROVE TypeOK'
    <3>1. got' \in [Ids -> [Steps -> SUBSET Workloads]]
      BY <2>2, AnswersAssumption DEF Fetch, TypeOK
    <3>2. at' \in [Ids -> [Steps -> Times]]
      <4> DEFINE t == IF s = "interactions" THEN NoTime ELSE now
      <4>1. t \in Times
        BY BoundsAssumption DEF TypeOK, Times, NoTime
      <4>2. at' = [at EXCEPT ![c][s] = t]
        BY <2>2 DEF Fetch
      <4> HIDE DEF t
      <4> QED
        BY <4>1, <4>2 DEF TypeOK
    <3>3. progress' \in [Ids -> [Steps -> Progress]]
      BY <2>2 DEF Fetch, Becomes, TypeOK, Progress
    <3> QED
      BY <2>2, <3>1, <3>2, <3>3 DEF Fetch, tables, TypeOK
  <2>3. ASSUME NEW s \in Steps, FetchNothing(c, s) PROVE TypeOK'
    BY <2>3 DEF FetchNothing, Becomes, tables, TypeOK, Progress
  <2>4. ASSUME NEW s \in Steps, NEW p \in Progress, Write(c, s), Becomes(c, s, p),
               UNCHANGED <<now, owner, alive, at, collection_runs, inbox, request>>,
               got' \in [Ids -> [Steps -> SUBSET Workloads]]
        PROVE  TypeOK'
    <3>1. /\ disc_workloads' = disc_workloads
          /\ metric_samples' \in [Workloads -> SUBSET Ids]
          /\ interactions' \in [Workloads -> SUBSET Ids]
          /\ allocations' \in [Workloads -> {NoId} \union Ids]
      BY <2>4 DEF Write, AddTo, Put, TypeOK
    <3>2. progress' \in [Ids -> [Steps -> Progress]]
      BY <2>4 DEF Becomes, TypeOK
    <3> QED
      BY <2>4, <3>1, <3>2 DEF TypeOK
  <2>5. ASSUME NEW s \in Steps, Upsert(c, s) PROVE TypeOK'
    BY <2>4, <2>5 DEF Upsert, Progress, TypeOK
  <2>6. ASSUME NEW s \in Steps, UpsertFails(c, s) PROVE TypeOK'
    <3>1. got' \in [Ids -> [Steps -> SUBSET Workloads]]
      BY <2>6 DEF UpsertFails, TypeOK
    <3>2. at' \in [Ids -> [Steps -> Times]]
      BY <2>6, BoundsAssumption DEF UpsertFails, TypeOK, Times, NoTime
    <3>3. progress' \in [Ids -> [Steps -> Progress]]
      BY <2>6 DEF UpsertFails, Becomes, TypeOK, Progress
    <3> QED
      BY <2>6, <3>1, <3>2, <3>3 DEF UpsertFails, tables, TypeOK
  <2>7. ASSUME NEW s \in Steps, CommitUnacknowledged(c, s) PROVE TypeOK'
    <3>1. got' \in [Ids -> [Steps -> SUBSET Workloads]]
      BY <2>7 DEF CommitUnacknowledged, TypeOK
    <3> QED
      BY <2>4, <2>7, <3>1 DEF CommitUnacknowledged, Progress
  <2>8. CASE UpsertWorkloads(c)
    BY <2>8 DEF UpsertWorkloads, Becomes, TypeOK, Progress, Steps
  <2>9. CASE Finish(c)
    BY <2>9, ReportedType DEF Finish, StatusFor, tables, TypeOK
  <2>10. CASE FinishUnrecorded(c)
    BY <2>10 DEF FinishUnrecorded, tables, TypeOK
  <2> QED
    BY <1>6, <2>1, <2>2, <2>3, <2>5, <2>6, <2>7, <2>8, <2>9, <2>10 DEF Collect
<1>7. ASSUME NEW c \in Ids, KillJob(c) PROVE TypeOK'
  BY <1>7 DEF KillJob, tables, TypeOK
<1>8. CASE KillService
  BY <1>8 DEF KillService, tables, TypeOK
<1>9. ASSUME NEW r \in Requests, NEW q \in RequestType, request' = [request EXCEPT ![r] = q],
             q.pc = "waiting" => q.id # NoId, inbox' \subseteq Requests,
             UNCHANGED <<now, collector, collection_runs, tables>>
      PROVE  TypeOK'
  BY <1>9 DEF collector, tables, TypeOK
<1>10. ASSUME NEW r \in Requests, NEW kind \in Kinds, Trigger(r, kind) PROVE TypeOK'
  <2> DEFINE q == [request[r] EXCEPT !.pc = "posted", !.kind = kind, !.since = now]
  <2>1. q \in RequestType /\ q.pc = "posted"
    <3>1. request[r] \in RequestType /\ now \in Times
      BY DEF TypeOK, Times
    <3> QED BY <3>1 DEF RequestType
  <2>2. request' = [request EXCEPT ![r] = q]
    BY <1>10 DEF Trigger, TypeOK, RequestType
  <2> HIDE DEF q
  <2> QED
    BY <1>9, <1>10, <2>1, <2>2 DEF Trigger, TypeOK
<1>11. ASSUME NEW r \in Requests, Refuse(r) PROVE TypeOK'
  <2>1. CASE UNCHANGED <<collector, collection_runs>>
    BY <1>11, <2>1 DEF Refuse, collector, tables, TypeOK
  <2>2. ASSUME NEW c \in Ids, Abandon(c) PROVE TypeOK'
    <3>1. UNCHANGED <<now, tables, request>> /\ inbox' \subseteq Requests
      BY <1>11 DEF Refuse, TypeOK
    <3> QED
      BY <2>2, <3>1 DEF Abandon, tables, TypeOK, InitialStatus
  <2> QED
    BY <1>11, <2>1, <2>2 DEF Refuse
<1>12. ASSUME NEW r \in Requests, Serve(r) PROVE TypeOK'
  <2>1. ASSUME NEW c \in Ids, Answered(r, c) PROVE TypeOK'
    <3> DEFINE q == [request[r] EXCEPT !.pc = AfterAnswer(request[r].kind), !.id = c]
    <3>1. q \in RequestType /\ q.id # NoId
      <4>1. request[r] \in RequestType /\ c # NoId
        BY BoundsAssumption DEF TypeOK
      <4>2. AfterAnswer(request[r].kind) \in {"new", "posted", "waiting", "ready", "done"}
        BY DEF AfterAnswer
      <4> QED
        BY <4>1, <4>2 DEF RequestType
    <3>2. request' = [request EXCEPT ![r] = q]
      BY <2>1 DEF Answered, TypeOK, RequestType
    <3> HIDE DEF q
    <3> QED
      BY <1>9, <2>1, <3>1, <3>2 DEF Answered, TypeOK
  <2>2. CASE Unavailable(r)
    <3> DEFINE q == [request[r] EXCEPT !.pc = IF request[r].kind = "collect" THEN "done" ELSE "ready"]
    <3>1. q \in RequestType /\ q.pc # "waiting"
      BY DEF TypeOK, RequestType
    <3>2. request' = [request EXCEPT ![r] = q]
      BY <2>2 DEF Unavailable, TypeOK, RequestType
    <3> HIDE DEF q
    <3> QED
      BY <1>9, <2>2, <3>1, <3>2 DEF Unavailable, TypeOK
  <2>3. CASE EndWait(r) /\ request[r].pc = "waiting"
                /\ UNCHANGED <<now, collector, collection_runs, tables, inbox>>
    <3> DEFINE q == [request[r] EXCEPT !.pc = "ready", !.saw = collection_runs[request[r].id].status]
    <3>1. request[r].id \in Ids
      BY <2>3 DEF TypeOK, RequestType
    <3>2. q \in RequestType /\ q.pc = "ready"
      <4>1. request[r] \in RequestType
        BY DEF TypeOK
      <4>2. collection_runs[request[r].id].status \in {"none", "running"} \union Terminal
        BY <3>1 DEF TypeOK
      <4> QED
        BY <4>1, <4>2 DEF RequestType
    <3>3. request' = [request EXCEPT ![r] = q]
      BY <2>3 DEF EndWait, TypeOK, RequestType
    <3> HIDE DEF q
    <3> QED
      BY <1>9, <2>3, <3>2, <3>3 DEF TypeOK
  <2>4. CASE StartRun(r)
    <3>1. PICK asOf \in Collected \union {NoTime} :
            request' = [request EXCEPT ![r].pc = "done", ![r].asOf = asOf,
                                       ![r].stale = (asOf = NoTime \/ asOf < now - Ttl)]
      BY <2>4 DEF StartRun
    <3> DEFINE q == [request[r] EXCEPT !.pc = "done", !.asOf = asOf,
                                       !.stale = (asOf = NoTime \/ asOf < now - Ttl)]
    <3>2. asOf \in Times
      BY CollectedType, BoundsAssumption DEF Times, NoTime
    <3>3. q \in RequestType /\ q.pc = "done"
      <4>1. request[r] \in RequestType
        BY DEF TypeOK
      <4>2. (asOf = NoTime \/ asOf < now - Ttl) \in BOOLEAN
        OBVIOUS
      <4> QED
        BY <3>2, <4>1, <4>2 DEF RequestType
    <3>4. request' = [request EXCEPT ![r] = q]
      BY <3>1 DEF TypeOK, RequestType
    <3> HIDE DEF q
    <3> QED
      BY <1>9, <2>4, <3>3, <3>4 DEF StartRun, TypeOK
  <2> QED
    BY <1>12, <2>1, <2>2, <2>3, <2>4 DEF Serve, Poll, WaitTimesOut
<1> QED
  BY <1>1, <1>2, <1>4, <1>5, <1>6, <1>7, <1>8, <1>10, <1>11, <1>12 DEF Next

(* Every reachable state has the types of TypeOK. *)
THEOREM TypeCorrect == Spec => []TypeOK
BY TypeInit, TypeStep, PTL DEF Spec

-----------------------------------------------------------------------------
(***************************************************************************)
(* The inductive invariant.                                                *)
(***************************************************************************)
LEMMA InvInit == Init => Inv
<1> SUFFICES ASSUME Init PROVE Inv
  OBVIOUS
<1>1. TypeOK
  BY TypeInit
<1>2. Unstarted /\ HoldsRows /\ RowsAreIn /\ SamplesHaveIdentity /\ SettledIsOver
  BY DEF Init, Unstarted, HoldsRows, RowsAreIn, SamplesHaveIdentity, SettledIsOver, Terminal, Steps
<1>3. SuccessIsHonest /\ Past /\ OneJob
  BY DEF Init, SuccessIsHonest, Past, OneJob, NewRequest, NoTime
<1>4. AfterRequest /\ KnowsItsOwn
  BY RequestsAssumption DEF Init, AfterRequest, KnowsItsOwn, KnowsTruth, NewRequest, NoId, Terminal
<1> QED
  BY <1>1, <1>2, <1>3, <1>4 DEF Inv

(* What a row says of a collection does not change with the others. *)
LEMMA CountsOwnRows ==
  ASSUME NEW c \in Ids, progress'[c] = progress[c], got'[c] = got[c]
  PROVE  Errors(c)' = Errors(c) /\ Reported(c)' = Reported(c)
BY DEF Errors, Reported

(* A start: everything that is there stays, and a new collection has       *)
(* nothing yet.                                                            *)
LEMMA StartStep ==
  ASSUME Inv, TypeOK', NEW c \in Ids, NEW who \in Requests \union {"cron"},
         NEW selected \in SUBSET Steps, Start(c, who, selected),
         UNCHANGED <<now, tables, request>>, inbox' \subseteq inbox,
         who = "cron" => Forbid, who # "cron" => request[who].pc # "new"
  PROVE  Inv'
<1> USE DEF tables
<1>0. who # "nobody" /\ owner[c] = "nobody" /\ collection_runs[c].status = "none"
  BY RequestsAssumption DEF Inv, Start, IsNext, Unstarted
<1>1. \A s \in Steps : progress[c][s] = "unasked" /\ got[c][s] = {}
  BY <1>0 DEF Inv, Unstarted, HoldsRows
<1>2. \A s \in Steps : progress'[c][s] \in {"todo", "unasked"}
  BY DEF Start, Inv, TypeOK
<1>3. \A d \in Ids : d # c => /\ owner'[d] = owner[d] /\ alive'[d] = alive[d]
                              /\ progress'[d] = progress[d]
                              /\ collection_runs'[d] = collection_runs[d]
  BY DEF Start, Inv, TypeOK
<1>4. owner'[c] = who /\ alive'[c] /\ collection_runs'[c].status = "running"
  BY DEF Start, Inv, TypeOK, InitialStatus
<1>5. got' = got /\ at' = at
  BY DEF Start
<1>6. Unstarted'
  BY <1>0, <1>3, <1>4 DEF Inv, Unstarted
<1>7. HoldsRows'
  BY <1>1, <1>3, <1>5 DEF Inv, HoldsRows
<1>8. RowsAreIn'
  BY <1>2, <1>3, <1>5 DEF Inv, RowsAreIn, Steps
<1>9. SamplesHaveIdentity'
  BY DEF Inv, SamplesHaveIdentity
<1>10. SettledIsOver'
  BY <1>3, <1>4 DEF Inv, SettledIsOver, Terminal
<1>11. SuccessIsHonest'
  BY <1>3, <1>4, <1>5, CountsOwnRows DEF Inv, SuccessIsHonest
<1>12. Past'
  BY <1>5 DEF Inv, Past
<1>13. OneJob'
  BY <1>2, <1>3, <1>4, <1>5 DEF Inv, OneJob, Forbid, Steps
<1>14. AfterRequest'
  <2>1. \A r \in inbox' : request'[r].pc # "new"
    BY DEF Inv, AfterRequest
  <2>2. ASSUME NEW r \in Requests, NEW d \in Ids, owner'[d] = r
        PROVE  /\ request'[r].pc # "new"
               /\ got'[d]["metrics"] # {} => request'[r].since <= at'[d]["metrics"]
    <3>1. CASE d = c
      <4>1. r = who /\ r # "cron"
        BY <1>4, <2>2, <3>1, RequestsAssumption
      <4>2. got'[d]["metrics"] = {}
        BY <1>1, <1>5, <3>1 DEF Steps
      <4> QED
        BY <4>1, <4>2
    <3>2. CASE d # c
      BY <1>3, <1>5, <2>2, <3>2 DEF Inv, AfterRequest
    <3> QED
      BY <3>1, <3>2
  <2> QED
    BY <2>1, <2>2 DEF AfterRequest
<1>15. KnowsItsOwn'
  <2> SUFFICES ASSUME NEW r \in Requests PROVE KnowsTruth(r, request[r])'
    BY DEF KnowsItsOwn, KnowsTruth
  <2>1. CASE request[r].id = NoId
    BY <2>1 DEF Inv, KnowsItsOwn, KnowsTruth
  <2>2. CASE request[r].id # NoId
    <3>1. request[r].id \in Ids /\ owner[request[r].id] = r
      BY <2>2 DEF Inv, TypeOK, RequestType, KnowsItsOwn, KnowsTruth
    <3>2. request[r].id # c
      BY <1>0, <3>1, RequestsAssumption
    <3> QED
      BY <1>3, <1>5, <3>1, <3>2 DEF Inv, KnowsItsOwn, KnowsTruth
  <2> QED
    BY <2>1, <2>2
<1> QED
  BY <1>6, <1>7, <1>8, <1>9, <1>10, <1>11, <1>12, <1>13, <1>14, <1>15 DEF Inv

(* A row without a collection: nothing happens but that it is there.       *)
LEMMA AbandonStep ==
  ASSUME Inv, TypeOK', NEW c \in Ids, Abandon(c),
         UNCHANGED <<now, tables, request>>, inbox' \subseteq inbox
  PROVE  Inv'
<1> USE DEF tables
<1>0. owner[c] = "nobody" /\ ~alive[c] /\ \A s \in Steps : progress[c][s] = "unasked"
  BY DEF Inv, Abandon, IsNext, Unstarted
<1>1. \A d \in Ids : d # c => /\ owner'[d] = owner[d] /\ collection_runs'[d] = collection_runs[d]
  BY DEF Abandon, Inv, TypeOK
<1>2. owner'[c] = "lost" /\ collection_runs'[c].status = "running"
  BY DEF Abandon, Inv, TypeOK, InitialStatus
<1>3. alive' = alive /\ progress' = progress /\ got' = got /\ at' = at
  BY DEF Abandon
<1>4. Unstarted'
  BY <1>1, <1>2, <1>3 DEF Inv, Unstarted
<1>5. HoldsRows' /\ RowsAreIn' /\ SamplesHaveIdentity' /\ Past'
  BY <1>3 DEF Inv, HoldsRows, RowsAreIn, SamplesHaveIdentity, Past
<1>6. SettledIsOver'
  BY <1>1, <1>2, <1>3 DEF Inv, SettledIsOver, Terminal
<1>7. SuccessIsHonest'
  BY <1>1, <1>2, <1>3, CountsOwnRows DEF Inv, SuccessIsHonest
<1>8. OneJob'
  BY <1>1, <1>2, <1>3 DEF Inv, OneJob
<1>9. AfterRequest'
  <2>1. \A d \in Ids, r \in Requests : owner'[d] = r => owner[d] = r
    BY <1>1, <1>2, RequestsAssumption
  <2> QED
    BY <1>3, <2>1 DEF Inv, AfterRequest
<1>10. KnowsItsOwn'
  <2> SUFFICES ASSUME NEW r \in Requests PROVE KnowsTruth(r, request[r])'
    BY DEF KnowsItsOwn, KnowsTruth
  <2>1. CASE request[r].id = NoId
    BY <2>1 DEF Inv, KnowsItsOwn, KnowsTruth
  <2>2. CASE request[r].id # NoId
    <3>1. request[r].id \in Ids /\ owner[request[r].id] = r
      BY <2>2 DEF Inv, TypeOK, RequestType, KnowsItsOwn, KnowsTruth
    <3>2. request[r].id # c
      BY <1>0, <3>1, RequestsAssumption
    <3> QED
      BY <1>1, <1>3, <3>1, <3>2 DEF Inv, KnowsItsOwn, KnowsTruth
  <2> QED
    BY <2>1, <2>2
<1> QED
  BY <1>4, <1>5, <1>6, <1>7, <1>8, <1>9, <1>10 DEF Inv

(* A collection ends, with or without word of it.                          *)
LEMMA EndStep ==
  ASSUME Inv, TypeOK', \A c \in Ids : alive'[c] => alive[c], inbox' \subseteq inbox,
         UNCHANGED <<now, owner, progress, got, at, tables, request>>,
         \A c \in Ids :
           \/ collection_runs'[c] = collection_runs[c]
           \/ /\ MayFinish(c) /\ ~alive'[c]
              /\ collection_runs'[c] = [status |-> StatusFor(c), rows |-> Reported(c)]
  PROVE  Inv'
<1> USE DEF tables
<1>1. Unstarted'
  BY DEF Inv, Unstarted, MayFinish
<1>2. HoldsRows' /\ RowsAreIn' /\ SamplesHaveIdentity' /\ Past'
  BY DEF Inv, HoldsRows, RowsAreIn, SamplesHaveIdentity, Past
<1>3. SettledIsOver'
  BY DEF Inv, SettledIsOver, MayFinish
<1>4. SuccessIsHonest'
  <2> SUFFICES ASSUME NEW c \in Ids, collection_runs'[c].status = "success"
               PROVE  Errors(c)' = {} /\ collection_runs'[c].rows = Reported(c)'
    BY DEF SuccessIsHonest
  <2>1. Errors(c)' = Errors(c) /\ Reported(c)' = Reported(c)
    BY CountsOwnRows
  <2>2. CASE collection_runs'[c] = collection_runs[c]
    BY <2>1, <2>2 DEF Inv, SuccessIsHonest
  <2>3. CASE collection_runs'[c] = [status |-> StatusFor(c), rows |-> Reported(c)]
    <3>1. StatusFor(c) = "success" /\ collection_runs'[c].rows = Reported(c)
      BY <2>3
    <3>2. Errors(c) = {}
      BY <3>1 DEF StatusFor
    <3> QED
      BY <2>1, <3>1, <3>2
  <2> QED
    BY <2>2, <2>3
<1>5. OneJob' /\ AfterRequest'
  BY DEF Inv, OneJob, AfterRequest
<1>6. KnowsItsOwn'
  <2>1. ASSUME NEW c \in Ids, collection_runs[c].status \in Terminal
        PROVE  collection_runs'[c].status \in Terminal
    <3>1. StatusFor(c) \in Terminal
      BY DEF StatusFor, Terminal
    <3>2. CASE collection_runs'[c] = [status |-> StatusFor(c), rows |-> Reported(c)]
      BY <3>1, <3>2
    <3> QED
      BY <2>1, <3>2
  <2>2. \A r \in Requests : request[r].id # NoId => request[r].id \in Ids
    BY DEF Inv, TypeOK, RequestType
  <2> QED
    BY <2>1, <2>2 DEF Inv, KnowsItsOwn, KnowsTruth
<1> QED
  BY <1>1, <1>2, <1>3, <1>4, <1>5, <1>6 DEF Inv

(* A step of one collection: what it may do to its own progress and rows   *)
(* for all but the tables to stay in order.                                *)
LEMMA WorkStep ==
  ASSUME Inv, TypeOK', NEW c \in Ids, alive[c],
         UNCHANGED <<now, owner, alive, collection_runs, inbox, request>>,
         \A d \in Ids : d # c => /\ progress'[d] = progress[d]
                                 /\ got'[d] = got[d] /\ at'[d] = at[d],
         \A s \in Steps :
           /\ at'[c][s] \in {at[c][s], NoTime, now}
           /\ progress'[c][s] \in {"unasked", "todo", "failed"} => got'[c][s] = {},
         progress'[c]["allocations"] = "fetched" =>
           \/ at'[c]["allocations"] = now
           \/ /\ progress[c]["allocations"] = "fetched"
              /\ at'[c]["allocations"] = at[c]["allocations"],
         got'[c]["metrics"] # {} =>
           \/ at'[c]["metrics"] = now
           \/ got[c]["metrics"] # {} /\ at'[c]["metrics"] = at[c]["metrics"],
         RowsAreIn', SamplesHaveIdentity'
  PROVE  Inv'
<1>1. owner[c] # "nobody" /\ collection_runs[c].status = "running"
  BY DEF Inv, Unstarted, TypeOK
<1>2. Unstarted'
  BY <1>1 DEF Inv, Unstarted
<1>3. HoldsRows'
  BY DEF Inv, HoldsRows
<1>4. SettledIsOver'
  BY <1>1 DEF Inv, SettledIsOver, Terminal
<1>5. SuccessIsHonest'
  BY <1>1, CountsOwnRows DEF Inv, SuccessIsHonest
<1>6. Past'
  <2>1. \A s \in Steps : at[c][s] <= now /\ NoTime <= now /\ now <= now
    BY DEF Inv, Past, TypeOK, Times, NoTime
  <2>2. \A s \in Steps : at'[c][s] <= now
    BY <2>1
  <2> QED
    BY <2>2 DEF Inv, Past
<1>7. OneJob'
  <2> SUFFICES ASSUME NEW e \in Ids, NEW d \in Ids, owner[e] = "cron", owner[d] = "cron",
                      alive[e], e # d
               PROVE  /\ ~alive[d]
                      /\ progress'[e]["allocations"] = "fetched" =>
                           at'[d]["allocations"] <= at'[e]["allocations"]
    BY DEF OneJob
  <2>1. ~alive[d] /\ d # c
    BY DEF Inv, OneJob
  <2>2. CASE e # c
    BY <2>1, <2>2 DEF Inv, OneJob
  <2>3. CASE e = c
    <3>1. at[d]["allocations"] <= now
      BY DEF Inv, Past, Steps
    <3> QED
      BY <2>1, <2>3, <3>1 DEF Inv, OneJob
  <2> QED
    BY <2>2, <2>3
<1>8. AfterRequest'
  <2> SUFFICES ASSUME NEW r \in Requests, NEW d \in Ids, owner[d] = r, got'[d]["metrics"] # {}
               PROVE  request[r].since <= at'[d]["metrics"]
    BY DEF Inv, AfterRequest
  <2>1. CASE d # c
    BY <2>1 DEF Inv, AfterRequest
  <2>2. CASE d = c
    <3>1. request[r].since <= now
      BY DEF Inv, Past
    <3> QED
      BY <2>2, <3>1 DEF Inv, AfterRequest
  <2> QED
    BY <2>1, <2>2
<1>9. KnowsItsOwn'
  <2> SUFFICES ASSUME NEW r \in Requests, request[r].saw \in Terminal
               PROVE  request[r].id \in Ids \ {c}
    BY DEF Inv, KnowsItsOwn, KnowsTruth
  <2>1. request[r].id # NoId /\ collection_runs[request[r].id].status \in Terminal
    BY DEF Inv, KnowsItsOwn, KnowsTruth
  <2>2. request[r].id \in Ids
    BY <2>1 DEF Inv, TypeOK, RequestType
  <2> QED
    BY <1>1, <2>1, <2>2 DEF Terminal
<1> QED
  BY <1>2, <1>3, <1>4, <1>5, <1>6, <1>7, <1>8, <1>9 DEF Inv

(* The tables only gain rows: the last transaction of a step adds those it *)
(* fetched, and takes none away.                                           *)
LEMMA WriteAdds ==
  ASSUME TypeOK, BoundsAssumption, NEW c \in Ids, NEW s \in Steps, Write(c, s)
  PROVE  /\ disc_workloads' = disc_workloads
         /\ \A w \in Workloads :
              /\ metric_samples[w] \subseteq metric_samples'[w]
              /\ allocations[w] # NoId => allocations'[w] # NoId
              /\ interactions[w] \subseteq interactions'[w]
              /\ s # "metrics" => metric_samples'[w] = metric_samples[w]
              /\ s # "allocations" => allocations'[w] = allocations[w]
         /\ \A w \in got[c][s] :
              /\ s = "metrics" => c \in metric_samples'[w]
              /\ s = "allocations" => allocations'[w] # NoId
              /\ s = "interactions" => c \in interactions'[w]
         /\ s = "metrics" => \A w \in Workloads \ got[c][s] : metric_samples'[w] = metric_samples[w]
<1>1. got[c][s] \subseteq Workloads /\ c # NoId
  BY DEF TypeOK, Ids, NoId
<1>2. CASE s = "metrics"
  BY <1>1, <1>2 DEF Write, AddTo, TypeOK
<1>3. CASE s = "allocations"
  BY <1>1, <1>3 DEF Write, Put, TypeOK
<1>4. CASE s = "interactions"
  BY <1>1, <1>4 DEF Write, AddTo, TypeOK
<1> QED
  BY <1>2, <1>3, <1>4 DEF Steps

(* Rows that are in stay in while the tables gain rows.                    *)
LEMMA WrittenStays ==
  ASSUME Inv, NEW c \in Ids,
         \A d \in Ids : d # c => progress'[d] = progress[d] /\ got'[d] = got[d],
         disc_workloads \subseteq disc_workloads',
         \A w \in Workloads : /\ metric_samples[w] \subseteq metric_samples'[w]
                              /\ allocations[w] # NoId => allocations'[w] # NoId
                              /\ interactions[w] \subseteq interactions'[w],
         progress'[c]["metrics"] \in {"named", "written"} =>
           \A w \in got'[c]["metrics"] : w \in disc_workloads',
         progress'[c]["metrics"] = "written" =>
           \A w \in got'[c]["metrics"] : c \in metric_samples'[w],
         progress'[c]["allocations"] = "written" =>
           \A w \in got'[c]["allocations"] : allocations'[w] # NoId,
         progress'[c]["interactions"] = "written" =>
           \A w \in got'[c]["interactions"] : c \in interactions'[w]
  PROVE  RowsAreIn'
<1>1. \A d \in Ids, s \in Steps : got[d][s] \subseteq Workloads
  BY DEF Inv, TypeOK
<1> SUFFICES ASSUME NEW d \in Ids, d # c
             PROVE  /\ progress'[d]["metrics"] \in {"named", "written"} =>
                         \A w \in got'[d]["metrics"] : w \in disc_workloads'
                    /\ progress'[d]["metrics"] = "written" =>
                         \A w \in got'[d]["metrics"] : d \in metric_samples'[w]
                    /\ progress'[d]["allocations"] = "written" =>
                         \A w \in got'[d]["allocations"] : allocations'[w] # NoId
                    /\ progress'[d]["interactions"] = "written" =>
                         \A w \in got'[d]["interactions"] : d \in interactions'[w]
  BY DEF RowsAreIn
<1>2. /\ got[d]["metrics"] \subseteq Workloads /\ got[d]["allocations"] \subseteq Workloads
      /\ got[d]["interactions"] \subseteq Workloads
  BY <1>1 DEF Steps
<1> QED
  BY <1>2 DEF Inv, RowsAreIn

(* A step that only fetches, or fails, leaves the tables.                  *)
LEMMA FetchStep ==
  ASSUME Inv, TypeOK', NEW c \in Ids, NEW s \in Steps,
         \/ FetchFails(c, s)
         \/ \E answer \in Answers : Fetch(c, s, answer)
         \/ FetchNothing(c, s)
         \/ UpsertFails(c, s)
  PROVE  Inv'
<1> USE DEF AtStep, Becomes, tables
<1>0. TypeOK /\ alive[c]
  BY DEF Inv, FetchFails, Fetch, FetchNothing, UpsertFails
<1>1. ASSUME NEW p \in {"failed", "written"}, AtStep(c, s, "todo"), Becomes(c, s, p),
             UNCHANGED <<now, owner, alive, got, at, collection_runs, tables, inbox, request>>
      PROVE  Inv'
  <2>1. progress' = [progress EXCEPT ![c][s] = p] /\ progress[c][s] = "todo"
    BY <1>1
  <2>2. got[c][s] = {} /\ got' = got /\ at' = at
    BY <1>1, <2>1 DEF Inv, HoldsRows
  <2>3. \A d \in Ids : d # c => progress'[d] = progress[d]
    BY <1>0, <2>1 DEF TypeOK
  <2>4. \A e \in Steps : progress'[c][e] = IF e = s THEN p ELSE progress[c][e]
    BY <1>0, <2>1 DEF TypeOK
  <2>5. \A e \in Steps : progress'[c][e] \in {"unasked", "todo", "failed"} => got'[c][e] = {}
    BY <2>2, <2>4 DEF Inv, HoldsRows
  <2>6. RowsAreIn' /\ SamplesHaveIdentity'
    <3>1. RowsAreIn /\ SamplesHaveIdentity
      BY DEF Inv
    <3>2. SamplesHaveIdentity'
      BY <1>1, <3>1 DEF SamplesHaveIdentity
    <3>3. UNCHANGED tables
      BY <1>1
    <3> QED
      BY <2>2, <2>3, <2>4, <3>1, <3>2, <3>3, WrittenStays DEF Steps, RowsAreIn
  <2>7. UNCHANGED <<now, owner, alive, collection_runs, inbox, request>>
    BY <1>1
  <2>8. progress'[c]["allocations"] = "fetched" => progress[c]["allocations"] = "fetched"
    BY <2>4 DEF Steps
  <2> QED
    BY <1>0, <2>2, <2>3, <2>5, <2>6, <2>7, <2>8, WorkStep
<1>2. ASSUME NEW answer \in Answers, Fetch(c, s, answer) PROVE Inv'
  <2> DEFINE t == IF s = "interactions" THEN NoTime ELSE now
  <2>1. /\ progress' = [progress EXCEPT ![c][s] = "fetched"]
        /\ got' = [got EXCEPT ![c][s] = answer] /\ at' = [at EXCEPT ![c][s] = t]
        /\ UNCHANGED <<now, owner, alive, collection_runs, inbox, request>> /\ UNCHANGED tables
    BY <1>2 DEF Fetch
  <2>2. t \in {NoTime, now} /\ (s \in {"metrics", "allocations"} => t = now)
    OBVIOUS
  <2> HIDE DEF t
  <2>3. \A d \in Ids : d # c => /\ progress'[d] = progress[d]
                                /\ got'[d] = got[d] /\ at'[d] = at[d]
    BY <1>0, <2>1 DEF TypeOK
  <2>4. \A e \in Steps : /\ progress'[c][e] = IF e = s THEN "fetched" ELSE progress[c][e]
                         /\ got'[c][e] = IF e = s THEN answer ELSE got[c][e]
                         /\ at'[c][e] = IF e = s THEN t ELSE at[c][e]
    BY <1>0, <2>1 DEF TypeOK
  <2>5. \A e \in Steps :
          /\ at'[c][e] \in {at[c][e], NoTime, now}
          /\ progress'[c][e] \in {"unasked", "todo", "failed"} => got'[c][e] = {}
    BY <2>2, <2>4 DEF Inv, HoldsRows
  <2>6. RowsAreIn' /\ SamplesHaveIdentity'
    <3>1. RowsAreIn /\ SamplesHaveIdentity
      BY DEF Inv
    <3>2. SamplesHaveIdentity'
      BY <2>1, <3>1 DEF SamplesHaveIdentity
    <3> QED
      BY <2>1, <2>3, <2>4, <3>1, <3>2, WrittenStays DEF Steps, RowsAreIn
  <2>7. progress'[c]["allocations"] = "fetched" =>
           \/ at'[c]["allocations"] = now
           \/ /\ progress[c]["allocations"] = "fetched"
              /\ at'[c]["allocations"] = at[c]["allocations"]
    BY <2>2, <2>4 DEF Steps
  <2>8. got'[c]["metrics"] # {} =>
           \/ at'[c]["metrics"] = now
           \/ got[c]["metrics"] # {} /\ at'[c]["metrics"] = at[c]["metrics"]
    BY <2>2, <2>4 DEF Steps
  <2> QED
    BY <1>0, <2>1, <2>3, <2>5, <2>6, <2>7, <2>8, WorkStep
<1>3. CASE UpsertFails(c, s)
  <2>1. /\ progress' = [progress EXCEPT ![c][s] = "failed"]
        /\ got' = [got EXCEPT ![c][s] = {}] /\ at' = [at EXCEPT ![c][s] = NoTime]
        /\ UNCHANGED <<now, owner, alive, collection_runs, inbox, request>> /\ UNCHANGED tables
    BY <1>3 DEF UpsertFails
  <2>3. \A d \in Ids : d # c => /\ progress'[d] = progress[d]
                                /\ got'[d] = got[d] /\ at'[d] = at[d]
    BY <1>0, <2>1 DEF TypeOK
  <2>4. \A e \in Steps : /\ progress'[c][e] = IF e = s THEN "failed" ELSE progress[c][e]
                         /\ got'[c][e] = IF e = s THEN {} ELSE got[c][e]
                         /\ at'[c][e] = IF e = s THEN NoTime ELSE at[c][e]
    BY <1>0, <2>1 DEF TypeOK
  <2>5. \A e \in Steps :
          /\ at'[c][e] \in {at[c][e], NoTime, now}
          /\ progress'[c][e] \in {"unasked", "todo", "failed"} => got'[c][e] = {}
    BY <2>4 DEF Inv, HoldsRows
  <2>6. RowsAreIn' /\ SamplesHaveIdentity'
    <3>1. RowsAreIn /\ SamplesHaveIdentity
      BY DEF Inv
    <3>2. SamplesHaveIdentity'
      BY <2>1, <3>1 DEF SamplesHaveIdentity
    <3> QED
      BY <2>1, <2>3, <2>4, <3>1, <3>2, WrittenStays DEF Steps, RowsAreIn
  <2>7. progress'[c]["allocations"] = "fetched" =>
           /\ progress[c]["allocations"] = "fetched"
           /\ at'[c]["allocations"] = at[c]["allocations"]
    BY <2>4 DEF Steps
  <2>8. got'[c]["metrics"] # {} =>
           got[c]["metrics"] # {} /\ at'[c]["metrics"] = at[c]["metrics"]
    BY <2>4 DEF Steps
  <2> QED
    BY <1>0, <2>1, <2>3, <2>5, <2>6, <2>7, <2>8, WorkStep
<1> QED
  BY <1>1, <1>2, <1>3 DEF FetchFails, FetchNothing

(* A transaction: the workloads' identities, or the rows of a step.        *)
LEMMA CommitStep ==
  ASSUME Inv, TypeOK', NEW c \in Ids,
         \/ UpsertWorkloads(c)
         \/ \E s \in Steps : Upsert(c, s) \/ CommitUnacknowledged(c, s)
  PROVE  Inv'
<1> USE DEF AtStep, Becomes
<1>0. TypeOK /\ RowsAreIn /\ SamplesHaveIdentity
  BY DEF Inv
<1>1. CASE UpsertWorkloads(c)
  <2>1. /\ progress' = [progress EXCEPT ![c]["metrics"] = "named"]
        /\ disc_workloads' = disc_workloads \union got[c]["metrics"]
        /\ alive[c] /\ progress[c]["metrics"] = "fetched"
        /\ UNCHANGED <<got, at, metric_samples, allocations, interactions>>
        /\ UNCHANGED <<now, owner, alive, collection_runs, inbox, request>>
    BY <1>1 DEF UpsertWorkloads
  <2>2. \A d \in Ids : d # c => progress'[d] = progress[d]
    BY <1>0, <2>1 DEF TypeOK
  <2>3. \A e \in Steps : progress'[c][e] = IF e = "metrics" THEN "named" ELSE progress[c][e]
    BY <1>0, <2>1 DEF TypeOK
  <2>4. \A e \in Steps : progress'[c][e] \in {"unasked", "todo", "failed"} => got'[c][e] = {}
    BY <2>1, <2>3 DEF Inv, HoldsRows
  <2>5. SamplesHaveIdentity'
    BY <1>0, <2>1 DEF SamplesHaveIdentity
  <2>6. RowsAreIn'
    BY <1>0, <2>1, <2>2, <2>3, WrittenStays DEF Steps, RowsAreIn
  <2>7. progress'[c]["allocations"] = "fetched" => progress[c]["allocations"] = "fetched"
    BY <2>3 DEF Steps
  <2> QED
    BY <2>1, <2>2, <2>4, <2>5, <2>6, <2>7, WorkStep
<1>2. ASSUME NEW s \in Steps, Upsert(c, s) \/ CommitUnacknowledged(c, s) PROVE Inv'
  <2>1. /\ AtStep(c, s, ReadyAt(s)) /\ Write(c, s)
        /\ UNCHANGED <<now, owner, alive, at, collection_runs, inbox, request>>
    BY <1>2 DEF Upsert, CommitUnacknowledged
  <2>2. PICK p \in {"written", "failed"} :
          /\ progress' = [progress EXCEPT ![c][s] = p]
          /\ got' = [got EXCEPT ![c][s] = IF p = "failed" THEN {} ELSE got[c][s]]
    <3>1. CASE Upsert(c, s)
      <4>1. got' = [got EXCEPT ![c][s] = got[c][s]]
        BY <1>0, <3>1 DEF Upsert, TypeOK
      <4> QED
        BY <3>1, <4>1 DEF Upsert
    <3>2. CASE CommitUnacknowledged(c, s)
      BY <3>2 DEF CommitUnacknowledged
    <3> QED
      BY <1>2, <3>1, <3>2
  <2>3. \A d \in Ids : d # c => progress'[d] = progress[d] /\ got'[d] = got[d]
    BY <1>0, <2>2 DEF TypeOK
  <2>4. \A e \in Steps :
          /\ progress'[c][e] = IF e = s THEN p ELSE progress[c][e]
          /\ got'[c][e] = IF e = s /\ p = "failed" THEN {} ELSE got[c][e]
    BY <1>0, <2>2 DEF TypeOK
  <2>5. \A e \in Steps : progress'[c][e] \in {"unasked", "todo", "failed"} => got'[c][e] = {}
    BY <2>4 DEF Inv, HoldsRows
  <2>6. s = "metrics" => \A w \in got[c]["metrics"] : w \in disc_workloads
    BY <1>0, <2>1 DEF ReadyAt, RowsAreIn
  <2>7. /\ disc_workloads' = disc_workloads
        /\ \A w \in Workloads :
             /\ metric_samples[w] \subseteq metric_samples'[w]
             /\ allocations[w] # NoId => allocations'[w] # NoId
             /\ interactions[w] \subseteq interactions'[w]
             /\ s # "metrics" => metric_samples'[w] = metric_samples[w]
        /\ \A w \in got[c][s] :
             /\ s = "metrics" => c \in metric_samples'[w]
             /\ s = "allocations" => allocations'[w] # NoId
             /\ s = "interactions" => c \in interactions'[w]
        /\ s = "metrics" => \A w \in Workloads \ got[c][s] : metric_samples'[w] = metric_samples[w]
    BY <1>0, <2>1, BoundsAssumption, WriteAdds
  <2>8. SamplesHaveIdentity'
    BY <1>0, <2>6, <2>7 DEF SamplesHaveIdentity
  <2>9. RowsAreIn'
    <3>1. \A e \in Steps : got'[c][e] \subseteq got[c][e] /\ got[c][e] \subseteq Workloads
      <4>1. got \in [Ids -> [Steps -> SUBSET Workloads]]
        BY <1>0 DEF TypeOK
      <4>2. \A e \in Steps : got[c][e] \subseteq Workloads
        BY <4>1
      <4> QED
        BY <2>4, <4>2
    <3>2. progress'[c]["metrics"] \in {"named", "written"} =>
            \A w \in got'[c]["metrics"] : w \in disc_workloads'
      <4>1. CASE s = "metrics"
        BY <2>6, <2>7, <3>1, <4>1 DEF Steps
      <4>2. CASE s # "metrics"
        BY <1>0, <2>4, <2>7, <3>1, <4>2 DEF Steps, RowsAreIn
      <4> QED
        BY <4>1, <4>2
    <3>3. progress'[c]["metrics"] = "written" =>
            \A w \in got'[c]["metrics"] : c \in metric_samples'[w]
      <4>1. CASE s = "metrics"
        BY <2>7, <3>1, <4>1
      <4>2. CASE s # "metrics"
        BY <1>0, <2>4, <2>7, <3>1, <4>2 DEF Steps, RowsAreIn
      <4> QED
        BY <4>1, <4>2
    <3>4. progress'[c]["allocations"] = "written" =>
            \A w \in got'[c]["allocations"] : allocations'[w] # NoId
      <4>1. CASE s = "allocations"
        BY <2>7, <3>1, <4>1
      <4>2. CASE s # "allocations"
        <5>1. /\ progress'[c]["allocations"] = progress[c]["allocations"]
              /\ got'[c]["allocations"] = got[c]["allocations"]
              /\ got[c]["allocations"] \subseteq Workloads
          BY <2>4, <3>1, <4>2 DEF Steps
        <5> QED
          BY <1>0, <2>7, <5>1 DEF RowsAreIn
      <4> QED
        BY <4>1, <4>2
    <3>5. progress'[c]["interactions"] = "written" =>
            \A w \in got'[c]["interactions"] : c \in interactions'[w]
      <4>1. CASE s = "interactions"
        BY <2>7, <3>1, <4>1
      <4>2. CASE s # "interactions"
        <5>1. /\ progress'[c]["interactions"] = progress[c]["interactions"]
              /\ got'[c]["interactions"] = got[c]["interactions"]
              /\ got[c]["interactions"] \subseteq Workloads
          BY <2>4, <3>1, <4>2 DEF Steps
        <5> QED
          BY <1>0, <2>7, <5>1 DEF RowsAreIn
      <4> QED
        BY <4>1, <4>2
    <3> QED
      BY <2>3, <2>7, <3>2, <3>3, <3>4, <3>5, WrittenStays
  <2>10. progress'[c]["allocations"] = "fetched" => progress[c]["allocations"] = "fetched"
    BY <2>4 DEF Steps
  <2>11. got'[c]["metrics"] # {} => got[c]["metrics"] # {}
    BY <2>4 DEF Steps
  <2> QED
    BY <2>1, <2>3, <2>5, <2>8, <2>9, <2>10, <2>11, WorkStep
<1> QED
  BY <1>1, <1>2

-----------------------------------------------------------------------------
(* A request goes on. *)
LEMMA RequestStep ==
  ASSUME Inv, TypeOK', NEW r \in Requests, NEW q \in RequestType,
         request' = [request EXCEPT ![r] = q], inbox' \subseteq inbox \union {r},
         UNCHANGED <<now, collector, collection_runs, tables>>,
         q.pc # "new", KnowsTruth(r, q),
         q.since = request[r].since \/ (request[r].pc = "new" /\ q.since = now)
  PROVE  Inv'
<1> USE DEF collector, tables
<1>0. /\ request'[r] = q
      /\ \A p \in Requests : p # r => request'[p] = request[p]
  BY DEF Inv, TypeOK
<1>1. Unstarted' /\ HoldsRows' /\ RowsAreIn' /\ SamplesHaveIdentity' /\ SettledIsOver'
  BY DEF Inv, Unstarted, HoldsRows, RowsAreIn, SamplesHaveIdentity, SettledIsOver
<1>2. SuccessIsHonest' /\ OneJob'
  BY CountsOwnRows DEF Inv, SuccessIsHonest, OneJob
<1>3. Past'
  <2>1. now <= now
    BY DEF Inv, TypeOK, Times
  <2> QED
    BY <1>0, <2>1 DEF Inv, Past
<1>4. AfterRequest'
  BY <1>0 DEF Inv, AfterRequest, TypeOK
<1>5. KnowsItsOwn'
  <2> SUFFICES ASSUME NEW p \in Requests PROVE KnowsTruth(p, request[p])'
    BY DEF KnowsItsOwn, KnowsTruth
  <2>1. CASE p = r
    BY <1>0, <2>1 DEF KnowsTruth
  <2>2. CASE p # r
    BY <1>0, <2>2 DEF Inv, KnowsItsOwn, KnowsTruth
  <2> QED
    BY <2>1, <2>2
<1> QED
  BY <1>1, <1>2, <1>3, <1>4, <1>5 DEF Inv

(* A run that saw the end of its own collection dates its data no earlier  *)
(* than the request: the samples of that collection are there to be dated. *)
LEMMA DatedAfterRequest ==
  ASSUME Inv, NEW r \in Requests, NEW asOf, IsNewest(asOf, Collected),
         request[r].saw \in Terminal, progress[request[r].id]["metrics"] = "written",
         got[request[r].id]["metrics"] # {}
  PROVE  asOf >= request[r].since
<1> DEFINE c == request[r].id
<1>1. c \in Ids /\ owner[c] = r
  BY DEF Inv, KnowsItsOwn, KnowsTruth, TypeOK, RequestType
<1>2. request[r].since <= at[c]["metrics"]
  BY <1>1 DEF Inv, AfterRequest
<1>3. PICK w \in Workloads : c \in metric_samples[w]
  <2>1. PICK w \in got[c]["metrics"] : TRUE
    OBVIOUS
  <2>2. w \in Workloads
    BY <1>1, <2>1 DEF Inv, TypeOK, Steps
  <2>3. c \in metric_samples[w]
    BY <1>1, <2>1 DEF Inv, RowsAreIn
  <2> QED
    BY <2>2, <2>3
<1>4. at[c]["metrics"] \in Collected
  BY <1>3 DEF Collected, OfSamples
<1>5. asOf \in Collected /\ at[c]["metrics"] <= asOf
  BY <1>4 DEF IsNewest
<1>6. asOf \in Times /\ at[c]["metrics"] \in Times /\ request[r].since \in Times
  BY <1>4, <1>5, CollectedType DEF Inv, TypeOK, RequestType
<1> QED
  BY <1>2, <1>5, <1>6 DEF Times

LEMMA ServeStep ==
  ASSUME Inv, TypeOK', NEW r \in Requests, Serve(r)
  PROVE  Inv'
<1>0. /\ TypeOK /\ request[r] \in RequestType /\ KnowsTruth(r, request[r])
      /\ \A s \in Requests : request[s] \in RequestType
  BY DEF Inv, TypeOK, KnowsItsOwn, KnowsTruth
<1>1. ASSUME NEW c \in Ids, Answered(r, c) PROVE Inv'
  <2> DEFINE q == [request[r] EXCEPT !.pc = AfterAnswer(request[r].kind), !.id = c]
  <2>1. /\ q.pc \in {"done", "waiting"} /\ q.saw = request[r].saw /\ q.since = request[r].since
        /\ q.id = c /\ q \in RequestType
    BY <1>0, BoundsAssumption DEF RequestType, AfterAnswer
  <2>2. request' = [request EXCEPT ![r] = q]
    BY <1>0, <1>1 DEF Answered, TypeOK, RequestType
  <2>3. request[r].saw = "none" /\ owner[c] = r
    BY <1>0, <1>1 DEF Answered, KnowsTruth
  <2> HIDE DEF q
  <2>4. KnowsTruth(r, q) /\ q.pc # "new"
    BY <2>1, <2>3 DEF KnowsTruth, Terminal
  <2> QED
    BY <1>1, <2>1, <2>2, <2>4, RequestStep DEF Answered
<1>2. CASE Unavailable(r)
  <2> DEFINE q == [request[r] EXCEPT !.pc = IF request[r].kind = "collect" THEN "done" ELSE "ready"]
  <2>1. /\ q.pc \in {"done", "ready"} /\ q.saw = request[r].saw /\ q.since = request[r].since
        /\ q.id = request[r].id /\ q \in RequestType
    BY <1>0 DEF RequestType
  <2>2. request' = [request EXCEPT ![r] = q]
    BY <1>0, <1>2 DEF Unavailable, TypeOK, RequestType
  <2>3. request[r].saw = "none"
    BY <1>0, <1>2 DEF Unavailable, KnowsTruth
  <2> HIDE DEF q
  <2>4. KnowsTruth(r, q) /\ q.pc # "new"
    BY <1>0, <2>1, <2>3 DEF KnowsTruth, Terminal
  <2> QED
    BY <1>2, <2>1, <2>2, <2>4, RequestStep DEF Unavailable
<1>3. CASE Poll(r) \/ WaitTimesOut(r)
  <2> DEFINE c == request[r].id
             q == [request[r] EXCEPT !.pc = "ready", !.saw = collection_runs[c].status]
  <2>1. request[r].pc = "waiting" /\ EndWait(r) /\ inbox' = inbox
        /\ UNCHANGED <<now, collector, collection_runs, tables>>
    BY <1>3 DEF Poll, WaitTimesOut
  <2>2. c \in Ids /\ c # NoId /\ owner[c] = r
    BY <1>0, <2>1 DEF TypeOK, RequestType, KnowsTruth
  <2>3. collection_runs[c].status \in {"none", "running"} \union Terminal
    BY <1>0, <2>2 DEF TypeOK
  <2>4. /\ q.pc = "ready" /\ q.saw = collection_runs[c].status /\ q.since = request[r].since
        /\ q.id = c /\ q \in RequestType
    BY <1>0, <2>3 DEF RequestType
  <2>5. request' = [request EXCEPT ![r] = q]
    BY <1>0, <2>1 DEF EndWait, TypeOK, RequestType
  <2> HIDE DEF q
  <2>6. KnowsTruth(r, q)
    BY <2>2, <2>4 DEF KnowsTruth
  <2> QED
    BY <2>1, <2>4, <2>5, <2>6, RequestStep
<1>4. CASE StartRun(r)
  <2>1. PICK asOf \in Collected \union {NoTime} :
          /\ IsNewest(asOf, Collected)
          /\ request' = [request EXCEPT ![r].pc = "done", ![r].asOf = asOf,
                                        ![r].stale = (asOf = NoTime \/ asOf < now - Ttl)]
    BY <1>4 DEF StartRun
  <2> DEFINE q == [request[r] EXCEPT !.pc = "done", !.asOf = asOf,
                                     !.stale = (asOf = NoTime \/ asOf < now - Ttl)]
  <2>2. asOf \in Times
    BY <1>0, CollectedType, BoundsAssumption DEF Times, NoTime
  <2>3. /\ q.pc = "done" /\ q.saw = request[r].saw /\ q.since = request[r].since
        /\ q.id = request[r].id /\ q.asOf = asOf /\ q \in RequestType
    <3>1. (asOf = NoTime \/ asOf < now - Ttl) \in BOOLEAN
      OBVIOUS
    <3> QED
      BY <1>0, <2>2, <3>1 DEF RequestType
  <2>4. request' = [request EXCEPT ![r] = q]
    BY <1>0, <2>1 DEF TypeOK, RequestType
  <2> HIDE DEF q
  <2>5. KnowsTruth(r, q)
    BY <1>0, <2>1, <2>3, DatedAfterRequest DEF KnowsTruth
  <2> QED
    BY <1>4, <2>3, <2>4, <2>5, RequestStep DEF StartRun
<1> QED
  BY <1>1, <1>2, <1>3, <1>4 DEF Serve

LEMMA TriggerStep ==
  ASSUME Inv, TypeOK', NEW r \in Requests, NEW kind \in Kinds, Trigger(r, kind)
  PROVE  Inv'
<1> DEFINE q == [request[r] EXCEPT !.pc = "posted", !.kind = kind, !.since = now]
<1>0. request[r] \in RequestType /\ KnowsTruth(r, request[r]) /\ TypeOK
  BY DEF Inv, TypeOK, KnowsItsOwn, KnowsTruth
<1>1. /\ q.pc = "posted" /\ q.saw = request[r].saw /\ q.since = now
      /\ q.id = request[r].id /\ q \in RequestType
  BY <1>0 DEF RequestType, TypeOK
<1>2. request' = [request EXCEPT ![r] = q]
  BY <1>0 DEF Trigger, TypeOK, RequestType
<1>3. request[r].pc = "new" /\ request[r].saw = "none"
  BY <1>0 DEF Trigger, KnowsTruth
<1> HIDE DEF q
<1>4. KnowsTruth(r, q)
  BY <1>0, <1>1, <1>3 DEF KnowsTruth, Terminal
<1> QED
  BY <1>1, <1>2, <1>3, <1>4, RequestStep DEF Trigger

-----------------------------------------------------------------------------
LEMMA InvStep == Inv /\ [Next]_vars => Inv'
<1> SUFFICES ASSUME Inv, [Next]_vars PROVE Inv'
  OBVIOUS
<1>0. TypeOK'
  BY TypeStep DEF Inv
<1>1. CASE UNCHANGED vars
  <2>1. /\ UNCHANGED <<now, owner, alive, progress, got, at, tables, request>>
        /\ UNCHANGED <<collection_runs, inbox>>
    BY <1>1 DEF vars, collector
  <2> QED
    BY <1>0, <2>1, EndStep
<1>2. CASE Tick
  <2>1. /\ now' = now + 1
        /\ UNCHANGED <<owner, alive, progress, got, at, collection_runs, inbox, request>>
        /\ UNCHANGED <<disc_workloads, metric_samples, allocations, interactions>>
    BY <1>2 DEF Tick, collector, tables
  <2>2. Unstarted' /\ HoldsRows' /\ RowsAreIn' /\ SamplesHaveIdentity' /\ SettledIsOver'
    BY <2>1 DEF Inv, Unstarted, HoldsRows, RowsAreIn, SamplesHaveIdentity, SettledIsOver
  <2>3. SuccessIsHonest' /\ OneJob' /\ AfterRequest' /\ KnowsItsOwn'
    BY <2>1, CountsOwnRows DEF Inv, SuccessIsHonest, OneJob, AfterRequest, KnowsItsOwn, KnowsTruth
  <2>4. Past'
    <3>1. \A c \in Ids, s \in Steps : at[c][s] \in Int /\ at[c][s] <= now
      BY DEF Inv, TypeOK, Past, Times
    <3>2. \A r \in Requests : request[r].since \in Int /\ request[r].since <= now
      <4>1. \A r \in Requests : request[r] \in RequestType
        BY DEF Inv, TypeOK
      <4> QED
        BY <4>1 DEF Inv, Past, Times, RequestType
    <3>3. now \in Int
      BY DEF Inv, TypeOK, Times
    <3> QED
      BY <2>1, <3>1, <3>2, <3>3 DEF Past
  <2> QED
    BY <1>0, <2>2, <2>3, <2>4 DEF Inv
<1>3. ASSUME NEW c \in Ids, NEW selected \in Selections, CronIngest(c, selected)
      PROVE  Inv'
  BY <1>0, <1>3, SelectionsAssumption, StartStep DEF CronIngest
<1>4. ASSUME NEW c \in Ids, NEW r \in Requests, Accept(c, r) PROVE Inv'
  <2>1. r # "cron" /\ request[r].pc # "new"
    BY <1>4, RequestsAssumption DEF Accept, Inv, AfterRequest
  <2>2. inbox' \subseteq inbox /\ Start(c, r, Steps) /\ UNCHANGED <<now, tables, request>>
    BY <1>4 DEF Accept
  <2> QED
    BY <1>0, <2>1, <2>2, StartStep
<1>5. ASSUME NEW c \in Ids, Collect(c) PROVE Inv'
  <2>1. ASSUME Finish(c) \/ FinishUnrecorded(c) PROVE Inv'
    <3>1. /\ \A d \in Ids : alive'[d] => alive[d]
          /\ ~alive'[c] /\ inbox' \subseteq inbox /\ MayFinish(c)
          /\ UNCHANGED <<now, owner, progress, got, at, tables, request>>
      BY <2>1 DEF Finish, FinishUnrecorded, Inv, TypeOK
    <3>2. \A d \in Ids :
           \/ collection_runs'[d] = collection_runs[d]
           \/ d = c /\ collection_runs'[d] = [status |-> StatusFor(d), rows |-> Reported(d)]
      BY <2>1 DEF Finish, FinishUnrecorded, Inv, TypeOK
    <3> QED
      BY <1>0, <3>1, <3>2, EndStep
  <2> QED
    BY <1>0, <1>5, <2>1, FetchStep, CommitStep DEF Collect
<1>6. ASSUME NEW c \in Ids, KillJob(c) PROVE Inv'
  <2>1. /\ \A d \in Ids : alive'[d] => alive[d]
        /\ UNCHANGED <<now, owner, progress, got, at, tables, request>>
        /\ inbox' \subseteq inbox /\ collection_runs' = collection_runs
    BY <1>6 DEF KillJob, Inv, TypeOK
  <2> QED
    BY <1>0, <2>1, EndStep
<1>7. CASE KillService
  <2>1. /\ \A d \in Ids : alive'[d] => alive[d]
        /\ UNCHANGED <<now, owner, progress, got, at, tables, request>>
        /\ inbox' \subseteq inbox /\ collection_runs' = collection_runs
    BY <1>7 DEF KillService, Inv, TypeOK
  <2> QED
    BY <1>0, <2>1, EndStep
<1>8. ASSUME NEW r \in Requests, Refuse(r) PROVE Inv'
  <2>1. UNCHANGED <<now, tables, request>> /\ inbox' \subseteq inbox
    BY <1>8 DEF Refuse
  <2>2. CASE UNCHANGED <<collector, collection_runs>>
    BY <1>0, <2>1, <2>2, EndStep DEF collector
  <2>3. ASSUME NEW c \in Ids, Abandon(c) PROVE Inv'
    BY <1>0, <2>1, <2>3, AbandonStep
  <2> QED
    BY <1>8, <2>2, <2>3 DEF Refuse
<1> QED
  BY <1>0, <1>1, <1>2, <1>3, <1>4, <1>5, <1>6, <1>7, <1>8, TriggerStep, ServeStep DEF Next

(* Inv holds of every reachable state. *)
THEOREM InvCorrect == Spec => []Inv
BY InvInit, InvStep, PTL DEF Spec

-----------------------------------------------------------------------------
(***************************************************************************)
(* The theorems.                                                           *)
(***************************************************************************)

(* A collection that says success did every step it was asked for, and all *)
(* it fetched is in the tables and counted (statusFor, ingest.go:119-128), *)
(* whatever the other collections and the requests do.                     *)
THEOREM SuccessCorrect == Spec => []SuccessIsComplete
<1>1. Inv => SuccessIsComplete
  <2> SUFFICES ASSUME Inv, NEW c \in Ids, collection_runs[c].status = "success"
      PROVE
        /\ \A s \in Asked(c) : progress[c][s] = "written"
        /\ \A w \in got[c]["metrics"] : w \in disc_workloads /\ c \in metric_samples[w]
        /\ \A w \in got[c]["allocations"] : allocations[w] # NoId
        /\ \A w \in got[c]["interactions"] : c \in interactions[w]
        /\ collection_runs[c].rows =
             Cardinality({row \in Steps \X Workloads : row[2] \in got[c][row[1]]})
    BY DEF SuccessIsComplete
  <2>1. Errors(c) = {} /\ collection_runs[c].rows = Reported(c)
    BY DEF Inv, SuccessIsHonest
  <2>2. \A s \in Steps : progress[c][s] \in {"unasked", "written"}
    BY <2>1 DEF Inv, SettledIsOver, Terminal, Settled, Errors
  <2>3. \A s \in Steps : progress[c][s] = "unasked" => got[c][s] = {}
    BY DEF Inv, HoldsRows
  <2>4. \A s \in Asked(c) : progress[c][s] = "written"
    BY <2>2 DEF Asked
  <2>5. /\ \A w \in got[c]["metrics"] : w \in disc_workloads /\ c \in metric_samples[w]
        /\ \A w \in got[c]["allocations"] : allocations[w] # NoId
        /\ \A w \in got[c]["interactions"] : c \in interactions[w]
    BY <2>2, <2>3 DEF Inv, RowsAreIn, Steps
  <2>6. {row \in Steps \X Workloads : progress[c][row[1]] = "written" /\ row[2] \in got[c][row[1]]}
          = {row \in Steps \X Workloads : row[2] \in got[c][row[1]]}
    BY <2>2, <2>3
  <2> QED
    BY <2>1, <2>4, <2>5, <2>6 DEF Reported
<1> QED
  BY <1>1, InvCorrect, PTL

(* A workload with samples has an identity, although the transactions that *)
(* write the two (metrics.go:23-28) may be parted by a failure, a crash or *)
(* another collection.                                                     *)
THEOREM IdentityCorrect == Spec => []SamplesHaveIdentity
<1>1. Inv => SamplesHaveIdentity
  BY DEF Inv
<1> QED
  BY <1>1, InvCorrect, PTL

(* An analysis that waited for the end of its own collection is dated no   *)
(* earlier than its request (post_run, app.py:312-321).                    *)
THEOREM FreshCorrect == Spec => []FreshAfterOwnCollection
<1>1. Inv => FreshAfterOwnCollection
  BY DEF Inv, KnowsItsOwn, KnowsTruth, FreshAfterOwnCollection
<1> QED
  BY <1>1, InvCorrect, PTL

(* Allocations are written by a collection that is alive and has just      *)
(* fetched them, and by nothing else.                                      *)
LEMMA WhoAllocates ==
  ASSUME [Next]_vars
  PROVE  \/ allocations' = allocations
         \/ \E c \in Ids : /\ alive[c] /\ progress[c]["allocations"] = "fetched"
                           /\ allocations' = Put(allocations, c, got[c]["allocations"])
<1> USE DEF tables
<1>1. CASE UNCHANGED vars
  BY <1>1 DEF vars
<1>2. CASE Tick \/ KillService
  BY <1>2 DEF Tick, KillService
<1>3. ASSUME NEW c \in Ids, (\E selected \in Selections : CronIngest(c, selected))
                              \/ (\E r \in Requests : Accept(c, r)) \/ KillJob(c)
      PROVE  allocations' = allocations
  BY <1>3 DEF CronIngest, Accept, KillJob
<1>4. ASSUME NEW c \in Ids, Collect(c)
      PROVE  \/ allocations' = allocations
             \/ /\ alive[c] /\ progress[c]["allocations"] = "fetched"
                /\ allocations' = Put(allocations, c, got[c]["allocations"])
  <2>1. CASE UpsertWorkloads(c) \/ Finish(c) \/ FinishUnrecorded(c)
    BY <2>1 DEF UpsertWorkloads, Finish, FinishUnrecorded
  <2>2. ASSUME NEW s \in Steps, \/ FetchFails(c, s) \/ FetchNothing(c, s) \/ UpsertFails(c, s)
                                \/ \E answer \in Answers : Fetch(c, s, answer)
        PROVE  allocations' = allocations
    BY <2>2 DEF FetchFails, FetchNothing, UpsertFails, Fetch
  <2>3. ASSUME NEW s \in Steps, Upsert(c, s) \/ CommitUnacknowledged(c, s)
        PROVE  \/ allocations' = allocations
               \/ /\ alive[c] /\ progress[c]["allocations"] = "fetched"
                  /\ allocations' = Put(allocations, c, got[c]["allocations"])
    <3>1. Write(c, s) /\ AtStep(c, s, ReadyAt(s))
      BY <2>3 DEF Upsert, CommitUnacknowledged
    <3> QED
      BY <3>1 DEF Write, AtStep, ReadyAt
  <2> QED
    BY <1>4, <2>1, <2>2, <2>3 DEF Collect
<1>5. ASSUME NEW r \in Requests, (\E kind \in Kinds : Trigger(r, kind)) \/ Refuse(r) \/ Serve(r)
      PROVE  allocations' = allocations
  BY <1>5 DEF Trigger, Refuse, Serve, Answered, Unavailable, Poll, WaitTimesOut, StartRun
<1> QED
  BY <1>1, <1>2, <1>3, <1>4, <1>5 DEF Next

(* Jobs never put older allocations in the place of newer ones, since one  *)
(* is over before the next begins (values.yaml:74).                        *)
THEOREM JobsCorrect == Spec => JobsNeverAgeTheData
<1>1. Inv /\ [Next]_vars => \A w \in Workloads : NotOlder(w)
  <2> SUFFICES ASSUME Inv, [Next]_vars, NEW w \in Workloads, allocations[w] # NoId,
                      owner[allocations[w]] = "cron", owner[allocations'[w]] = "cron"
               PROVE  at[allocations[w]]["allocations"] <= at[allocations'[w]]["allocations"]
    BY DEF NotOlder
  <2>1. allocations[w] \in Ids
    BY DEF Inv, TypeOK
  <2>2. at[allocations[w]]["allocations"] \in Int
    BY <2>1 DEF Inv, TypeOK, Times, Steps
  <2>3. CASE allocations'[w] = allocations[w]
    BY <2>2, <2>3
  <2>4. CASE allocations'[w] # allocations[w]
    <3>1. PICK c \in Ids : /\ alive[c] /\ progress[c]["allocations"] = "fetched"
                           /\ allocations' = Put(allocations, c, got[c]["allocations"])
      BY <2>4, WhoAllocates
    <3>2. allocations'[w] = c
      BY <2>4, <3>1 DEF Put
    <3> QED
      BY <2>1, <2>4, <3>1, <3>2 DEF Inv, OneJob
  <2> QED
    BY <2>3, <2>4
<1>2. Inv /\ [Next]_vars => [\A w \in Workloads : NotOlder(w)]_vars
  BY <1>1
<1> QED
  BY <1>2, InvCorrect, PTL DEF Spec, JobsNeverAgeTheData

-----------------------------------------------------------------------------
(***************************************************************************)
(* Ends.  What a collection and a request still have before them shrinks.  *)
(***************************************************************************)

(* Transactions and fetches that a step has before it, at most.            *)
Turns(p) == CASE p = "todo" -> 3 [] p = "fetched" -> 2 [] p = "named" -> 1 [] OTHER -> 0

(* ... and a collection, with its last one, which updates the row.         *)
Left(c) ==
  IF alive[c]
  THEN 1 + Turns(progress[c]["metrics"]) + Turns(progress[c]["allocations"])
         + Turns(progress[c]["interactions"])
  ELSE 0

Stage(r) ==
  CASE request[r].pc = "new" -> 4 [] request[r].pc = "posted" -> 3
    [] request[r].pc = "waiting" -> 2 [] request[r].pc = "ready" -> 1 [] OTHER -> 0

(* Each step of a collection leaves less of it, and so does each of a      *)
(* request; nothing that others do puts a collection that was started, or  *)
(* a request, back (no step is tried again, ingest.go:67-82, and no wait   *)
(* begins anew, collector.py:50-60).                                       *)
NothingBeginsAnew ==
  [][/\ \A c \in Ids :
          /\ Left(c) \in Nat
          /\ Collect(c) => Left(c)' < Left(c)
          /\ owner[c] # "nobody" => Left(c)' <= Left(c)
     /\ \A r \in Requests :
          /\ Stage(r) \in Nat
          /\ Serve(r) => Stage(r)' < Stage(r)
          /\ Stage(r)' <= Stage(r)]_vars

(* Where a collection may go on, and a request.                            *)
MayCollect(c) ==
  \/ MayFinish(c)
  \/ \E s \in Steps : \E p \in {"todo", "fetched"} \union {ReadyAt(s)} : AtStep(c, s, p)

MayServe(r) ==
  \/ request[r].pc \in {"posted", "waiting"}
  \/ request[r].pc = "ready" /\ \E t \in Collected \union {NoTime} : IsNewest(t, Collected)

(* A collection that runs has a step whose turn it is, and a request that  *)
(* called on the collector has an answer to take or a wait to give up:     *)
(* nobody waits for what another may never do.                             *)
NobodyIsStuck ==
  /\ \A c \in Ids : alive[c] => MayCollect(c)
  /\ \A r \in Requests : request[r].pc \notin {"new", "done"} => MayServe(r)

(* A step of the identity rows is one of the metrics. *)
NamedIsMetrics ==
  \A c \in Ids, s \in Steps : progress[c][s] = "named" => s = "metrics"

LEMMA NamedStep == TypeOK /\ NamedIsMetrics /\ [Next]_vars => NamedIsMetrics'
<1> SUFFICES ASSUME TypeOK, NamedIsMetrics, [Next]_vars PROVE NamedIsMetrics'
  OBVIOUS
<1>1. CASE progress' = progress
  BY <1>1 DEF NamedIsMetrics
<1>2. ASSUME NEW c \in Ids, NEW who, NEW selected, Start(c, who, selected)
      PROVE  NamedIsMetrics'
  BY <1>2 DEF Start, NamedIsMetrics, TypeOK
<1>3. ASSUME NEW c \in Ids, NEW s \in Steps, NEW p \in Progress, Becomes(c, s, p),
             p = "named" => s = "metrics"
      PROVE  NamedIsMetrics'
  BY <1>3 DEF Becomes, NamedIsMetrics, TypeOK
<1>4. ASSUME NEW c \in Ids, Collect(c) PROVE NamedIsMetrics'
  <2>1. ASSUME NEW s \in Steps,
               \/ FetchFails(c, s) \/ (\E answer \in Answers : Fetch(c, s, answer))
               \/ FetchNothing(c, s) \/ Upsert(c, s) \/ UpsertFails(c, s)
               \/ CommitUnacknowledged(c, s)
        PROVE  NamedIsMetrics'
    <3>1. \E p \in {"failed", "fetched", "written"} : Becomes(c, s, p)
      BY <2>1 DEF FetchFails, Fetch, FetchNothing, Upsert, UpsertFails, CommitUnacknowledged
    <3> QED BY <1>3, <3>1 DEF Progress
  <2>2. CASE UpsertWorkloads(c)
    BY <1>3, <2>2 DEF UpsertWorkloads, Progress, Steps
  <2>3. CASE Finish(c) \/ FinishUnrecorded(c)
    BY <1>1, <2>3 DEF Finish, FinishUnrecorded
  <2> QED BY <1>4, <2>1, <2>2, <2>3 DEF Collect
<1>5. ASSUME NEW r \in Requests, Serve(r) \/ Refuse(r) \/ \E kind \in Kinds : Trigger(r, kind)
      PROVE  progress' = progress
  BY <1>5 DEF Serve, Answered, Unavailable, Poll, WaitTimesOut, StartRun, Refuse, Abandon, Trigger, collector
<1>6. CASE Tick \/ KillService \/ \E c \in Ids : KillJob(c)
  BY <1>1, <1>6 DEF Tick, KillService, KillJob, collector
<1>7. CASE UNCHANGED vars
  BY <1>1, <1>7 DEF vars, collector
<1> QED BY <1>1, <1>2, <1>4, <1>5, <1>6, <1>7 DEF Next, CronIngest, Accept

LEMMA LeftType ==
  ASSUME NEW c
  PROVE  /\ Left(c) \in Nat /\ Left(c)' \in Nat
         /\ \A p : Turns(p) \in Nat
         /\ alive[c] => Left(c) > 0
<1>1. \A p : Turns(p) \in Nat
  BY DEF Turns
<1> QED BY <1>1 DEF Left

(* A step that goes on leaves less of its collection. *)
LEMMA TurnTaken ==
  ASSUME TypeOK, NEW c \in Ids, NEW s \in Steps, NEW p \in Progress,
         alive[c], alive' = alive, Becomes(c, s, p), Turns(p) < Turns(progress[c][s])
  PROVE  Left(c)' < Left(c)
<1>1. progress'[c] = [progress[c] EXCEPT ![s] = p] /\ alive'[c]
  BY DEF Becomes, TypeOK
<1>2. progress[c] \in [Steps -> Progress]
  BY DEF TypeOK
<1>3. PICK m \in Nat, a \in Nat, i \in Nat :
        /\ m = Turns(progress[c]["metrics"]) /\ a = Turns(progress[c]["allocations"])
        /\ i = Turns(progress[c]["interactions"])
  BY LeftType
<1>4. PICK t \in Nat : t = Turns(p)
  BY LeftType
<1>5. CASE s = "metrics"
  <2>1. /\ progress'[c]["metrics"] = p /\ progress'[c]["allocations"] = progress[c]["allocations"]
        /\ progress'[c]["interactions"] = progress[c]["interactions"] /\ t < m
    BY <1>1, <1>2, <1>3, <1>4, <1>5 DEF Steps
  <2> QED BY <1>1, <1>3, <1>4, <2>1 DEF Left
<1>6. CASE s = "allocations"
  <2>1. /\ progress'[c]["metrics"] = progress[c]["metrics"] /\ progress'[c]["allocations"] = p
        /\ progress'[c]["interactions"] = progress[c]["interactions"] /\ t < a
    BY <1>1, <1>2, <1>3, <1>4, <1>6 DEF Steps
  <2> QED BY <1>1, <1>3, <1>4, <2>1 DEF Left
<1>7. CASE s = "interactions"
  <2>1. /\ progress'[c]["metrics"] = progress[c]["metrics"] /\ progress'[c]["interactions"] = p
        /\ progress'[c]["allocations"] = progress[c]["allocations"] /\ t < i
    BY <1>1, <1>2, <1>3, <1>4, <1>7 DEF Steps
  <2> QED BY <1>1, <1>3, <1>4, <2>1 DEF Left
<1> QED BY <1>5, <1>6, <1>7 DEF Steps

LEMMA CollectShrinks ==
  ASSUME TypeOK, NEW c \in Ids, Collect(c)
  PROVE  Left(c)' < Left(c)
<1>1. ASSUME NEW s \in Steps,
             \/ FetchFails(c, s) \/ (\E answer \in Answers : Fetch(c, s, answer))
             \/ FetchNothing(c, s) \/ Upsert(c, s) \/ UpsertFails(c, s)
             \/ CommitUnacknowledged(c, s)
      PROVE  Left(c)' < Left(c)
  <2>1. alive[c] /\ alive' = alive
    BY <1>1 DEF FetchFails, Fetch, FetchNothing, Upsert, UpsertFails, CommitUnacknowledged, AtStep
  <2>2. CASE progress[c][s] = "todo" /\ \E p \in {"failed", "fetched", "written"} : Becomes(c, s, p)
    BY <2>1, <2>2, TurnTaken DEF Turns, Progress
  <2>3. CASE progress[c][s] \in {"fetched", "named"} /\ \E p \in {"failed", "written"} : Becomes(c, s, p)
    BY <2>1, <2>3, TurnTaken DEF Turns, Progress
  <2> QED
    BY <1>1, <2>2, <2>3 DEF FetchFails, Fetch, FetchNothing, Upsert, UpsertFails,
                            CommitUnacknowledged, AtStep, ReadyAt
<1>2. CASE UpsertWorkloads(c)
  BY <1>2, TurnTaken DEF UpsertWorkloads, AtStep, Turns, Progress, Steps
<1>3. CASE Finish(c) \/ FinishUnrecorded(c)
  <2>1. alive[c] /\ ~ alive'[c]
    BY <1>3 DEF Finish, FinishUnrecorded, MayFinish, TypeOK
  <2>2. Left(c) > 0 /\ Left(c)' = 0
    BY <2>1, LeftType DEF Left
  <2> QED BY <2>2
<1> QED BY <1>1, <1>2, <1>3 DEF Collect

(* A collection that others leave as it is, or kill. *)
LEMMA LeftAlone ==
  ASSUME NEW c \in Ids, progress'[c] = progress[c], alive'[c] => alive[c]
  PROVE  Left(c)' <= Left(c)
<1>1. CASE alive'[c] <=> alive[c]
  <2>1. Left(c)' = Left(c)
    BY <1>1 DEF Left
  <2> QED BY <2>1, LeftType
<1>2. CASE ~ alive'[c]
  <2>1. Left(c)' = 0
    BY <1>2 DEF Left
  <2> QED BY <2>1, LeftType
<1> QED BY <1>1, <1>2

LEMMA OthersLeave ==
  ASSUME TypeOK, [Next]_vars, NEW c \in Ids, ~ Collect(c), owner[c] # "nobody"
  PROVE  progress'[c] = progress[c] /\ (alive'[c] => alive[c])
<1>1. ASSUME NEW d \in Ids, NEW who, NEW selected, Start(d, who, selected)
      PROVE  progress'[c] = progress[c] /\ (alive'[c] => alive[c])
  BY <1>1 DEF Start, IsNext, TypeOK
<1>2. ASSUME NEW d \in Ids, Collect(d)
      PROVE  progress'[c] = progress[c] /\ (alive'[c] => alive[c])
  <2>1. d # c
    BY <1>2
  <2>2. CASE (\E s \in Steps : \E p : Becomes(d, s, p)) /\ alive' = alive
    BY <2>1, <2>2 DEF Becomes, TypeOK
  <2>3. CASE progress' = progress /\ alive' = [alive EXCEPT ![d] = FALSE]
    BY <2>1, <2>3 DEF TypeOK
  <2>4. \/ (\E s \in Steps : \E p : Becomes(d, s, p)) /\ alive' = alive
        \/ progress' = progress /\ alive' = [alive EXCEPT ![d] = FALSE]
    <3>1. ASSUME NEW s \in Steps,
                 \/ FetchFails(d, s) \/ (\E answer \in Answers : Fetch(d, s, answer))
                 \/ FetchNothing(d, s) \/ Upsert(d, s) \/ UpsertFails(d, s)
                 \/ CommitUnacknowledged(d, s)
          PROVE  (\E p : Becomes(d, s, p)) /\ alive' = alive
      BY <3>1 DEF FetchFails, Fetch, FetchNothing, Upsert, UpsertFails, CommitUnacknowledged
    <3>2. CASE UpsertWorkloads(d)
      BY <3>2 DEF UpsertWorkloads, Steps
    <3>3. CASE Finish(d) \/ FinishUnrecorded(d)
      BY <3>3 DEF Finish, FinishUnrecorded
    <3> QED BY <1>2, <3>1, <3>2, <3>3 DEF Collect
  <2> QED BY <2>2, <2>3, <2>4
<1>3. ASSUME NEW r \in Requests, Serve(r) \/ Refuse(r) \/ \E kind \in Kinds : Trigger(r, kind)
      PROVE  progress'[c] = progress[c] /\ (alive'[c] => alive[c])
  BY <1>3 DEF Serve, Answered, Unavailable, Poll, WaitTimesOut, StartRun, Refuse, Abandon, Trigger, collector
<1>4. CASE Tick
  BY <1>4 DEF Tick, collector
<1>5. CASE KillService \/ \E d \in Ids : KillJob(d)
  BY <1>5 DEF KillService, KillJob, TypeOK
<1>6. CASE UNCHANGED vars
  BY <1>6 DEF vars, collector
<1> QED BY <1>1, <1>2, <1>3, <1>4, <1>5, <1>6 DEF Next, CronIngest, Accept

LEMMA ServeShrinks ==
  ASSUME TypeOK, [Next]_vars, NEW r \in Requests
  PROVE  /\ Stage(r) \in Nat /\ Stage(r)' <= Stage(r)
         /\ Serve(r) => Stage(r)' < Stage(r)
<1> DEFINE old == request[r].pc
           new == request'[r].pc
<1>1. request[r] \in RequestType
  BY DEF TypeOK
<1>2. ASSUME Serve(r)
      PROVE  \/ old = "posted" /\ new \in {"waiting", "ready", "done"}
             \/ old = "waiting" /\ new = "ready"
             \/ old \in {"new", "ready"} /\ new = "done"
  <2>1. ASSUME NEW c \in Ids, Answered(r, c)
        PROVE  old = "posted" /\ new \in {"waiting", "done"}
    BY <1>1, <2>1 DEF Answered, AfterAnswer, TypeOK, RequestType
  <2>2. CASE Unavailable(r)
    BY <1>1, <2>2 DEF Unavailable, TypeOK, RequestType
  <2>3. CASE Poll(r) \/ WaitTimesOut(r)
    BY <1>1, <2>3 DEF Poll, WaitTimesOut, EndWait, TypeOK, RequestType
  <2>4. CASE StartRun(r)
    BY <1>1, <2>4 DEF StartRun, TypeOK, RequestType
  <2> QED BY <1>2, <2>1, <2>2, <2>3, <2>4 DEF Serve
<1>3. ASSUME NEW kind \in Kinds, Trigger(r, kind) PROVE old = "new" /\ new = "posted"
  BY <1>1, <1>3 DEF Trigger, TypeOK, RequestType
<1>4. ASSUME NEW p \in Requests, p # r, Serve(p) \/ \E kind \in Kinds : Trigger(p, kind)
      PROVE  request'[r] = request[r]
  BY <1>4 DEF Serve, Answered, Unavailable, Poll, WaitTimesOut, EndWait, StartRun, Trigger, TypeOK
<1>5. ASSUME NEW c \in Ids, Collect(c) PROVE request' = request
  BY <1>5 DEF Collect, FetchFails, Fetch, FetchNothing, Upsert, UpsertFails, UpsertWorkloads,
              CommitUnacknowledged, Finish, FinishUnrecorded
<1>6. \/ request'[r] = request[r] \/ Serve(r) \/ \E kind \in Kinds : Trigger(r, kind)
  BY <1>4, <1>5 DEF Next, CronIngest, Accept, KillJob, KillService, Refuse, Tick, vars
<1>7. Stage(r) \in Nat
  BY DEF Stage
<1>8. CASE Serve(r)
  BY <1>2, <1>8 DEF Stage
<1>9. CASE ~ Serve(r) /\ \E kind \in Kinds : Trigger(r, kind)
  BY <1>3, <1>9 DEF Stage
<1>10. CASE ~ Serve(r) /\ request'[r] = request[r]
  <2>1. Stage(r)' = Stage(r)
    BY <1>10 DEF Stage
  <2> QED BY <1>7, <1>10, <2>1
<1> QED BY <1>6, <1>7, <1>8, <1>9, <1>10

(* Collections and requests take a bounded number of steps, in whatever    *)
(* order those of collections, requests, jobs and crashes fall             *)
(* (ingest.go:67-82, collector.py:27-60).                                  *)
THEOREM StepsRunOut == Spec => NothingBeginsAnew
<1> DEFINE Less ==
      /\ \A c \in Ids :
           /\ Left(c) \in Nat
           /\ Collect(c) => Left(c)' < Left(c)
           /\ owner[c] # "nobody" => Left(c)' <= Left(c)
      /\ \A r \in Requests :
           /\ Stage(r) \in Nat
           /\ Serve(r) => Stage(r)' < Stage(r)
           /\ Stage(r)' <= Stage(r)
<1>1. TypeOK /\ [Next]_vars => Less
  <2> SUFFICES ASSUME TypeOK, [Next]_vars PROVE Less
    OBVIOUS
  <2>1. ASSUME NEW c \in Ids
        PROVE  /\ Left(c) \in Nat
               /\ Collect(c) => Left(c)' < Left(c)
               /\ owner[c] # "nobody" => Left(c)' <= Left(c)
    <3>1. CASE Collect(c)
      BY <3>1, CollectShrinks, LeftType
    <3>2. CASE ~ Collect(c)
      BY <3>2, OthersLeave, LeftAlone, LeftType
    <3> QED BY <3>1, <3>2
  <2> QED BY <2>1, ServeShrinks
<1> QED BY TypeCorrect, <1>1, PTL DEF Spec, NothingBeginsAnew

LEMMA LeastExists ==
  ASSUME NEW S \in SUBSET Nat, S # {}
  PROVE  \E x \in S : \A y \in S : x <= y
<1>1. PICK x \in S : \A y \in S : ~ (<<y, x>> \in OpToRel(<, Nat))
  BY NatLessThanWellFounded, WFMin, Zenon
<1>2. \A y \in S : ~ (y < x)
  BY <1>1 DEF OpToRel
<1>3. \A y \in S : y \in Nat
  OBVIOUS
<1> QED BY <1>2, <1>3

(* The newest of some times of the clock, or none of nothing. *)
LEMMA NewestExists ==
  ASSUME NEW times \in SUBSET Times
  PROVE  \E t \in times \union {NoTime} : IsNewest(t, times)
<1>1. CASE times = {}
  BY <1>1 DEF IsNewest
<1>2. CASE times # {}
  <2> DEFINE left == {MaxTime - t : t \in times}
  <2>1. \A t \in times : t \in Nat /\ MaxTime \in Nat /\ MaxTime - t \in Nat
    BY BoundsAssumption DEF Times
  <2>2. left \in SUBSET Nat /\ left # {}
    BY <1>2, <2>1
  <2>3. PICK l \in left : \A m \in left : l <= m
    <3> HIDE DEF left
    <3> QED BY <2>2, LeastExists
  <2>4. PICK t \in times : l = MaxTime - t
    BY <2>3
  <2>5. \A u \in times : MaxTime - u \in left
    OBVIOUS
  <2>6. \A u \in times : MaxTime - t <= MaxTime - u
    BY <2>3, <2>4, <2>5
  <2>7. \A u \in times : u <= t
    BY <2>1, <2>6
  <2> QED BY <1>2, <2>7 DEF IsNewest
<1> QED BY <1>1, <1>2

(* Whatever fails, the steps of a collection come in turn until all are    *)
(* settled and the row is updated (ingest.go:67-100), and a request has    *)
(* an answer, a poll, a timeout or its run before it (collector.py:27-60,  *)
(* app.py:303-330).                                                        *)
THEOREM NobodyGetsStuck == Spec => []NobodyIsStuck
<1>1. Init => NamedIsMetrics
  BY DEF Init, NamedIsMetrics
<1>2. TypeOK /\ NamedIsMetrics => NobodyIsStuck
  <2> SUFFICES ASSUME TypeOK, NamedIsMetrics PROVE NobodyIsStuck
    OBVIOUS
  <2>1. ASSUME NEW c \in Ids, alive[c] PROVE MayCollect(c)
    <3> DEFINE open == {s \in Steps : progress[c][s] \notin Settled}
    <3>1. CASE open = {}
      BY <2>1, <3>1 DEF MayCollect, MayFinish
    <3>2. ASSUME NEW s \in open, Earlier(s) \intersect open = {} PROVE MayCollect(c)
      <4>1. s \in Steps /\ progress[c][s] \in {"todo", "fetched", "named"}
        BY <3>2 DEF Settled, Progress, TypeOK
      <4>2. \A e \in Earlier(s) : progress[c][e] \in Settled
        BY <3>2 DEF Earlier
      <4>3. AtStep(c, s, progress[c][s])
        BY <2>1, <4>2 DEF AtStep
      <4>4. progress[c][s] = "named" => ReadyAt(s) = "named"
        BY <4>1 DEF NamedIsMetrics, ReadyAt
      <4> QED BY <4>1, <4>3, <4>4 DEF MayCollect
    <3>3. CASE "metrics" \in open
      BY <3>2, <3>3 DEF Earlier
    <3>4. CASE "metrics" \notin open /\ "allocations" \in open
      BY <3>2, <3>4 DEF Earlier
    <3>5. CASE "metrics" \notin open /\ "allocations" \notin open /\ "interactions" \in open
      BY <3>2, <3>5 DEF Earlier
    <3> QED BY <3>1, <3>3, <3>4, <3>5 DEF Steps
  <2>2. ASSUME NEW r \in Requests, request[r].pc \notin {"new", "done"} PROVE MayServe(r)
    <3>1. request[r] \in RequestType
      BY DEF TypeOK
    <3>2. \E t \in Collected \union {NoTime} : IsNewest(t, Collected)
      BY CollectedType, NewestExists
    <3> QED BY <2>2, <3>1, <3>2 DEF MayServe, RequestType
  <2> QED BY <2>1, <2>2 DEF NobodyIsStuck
<1> QED BY <1>1, <1>2, NamedStep, TypeCorrect, PTL DEF Spec

=============================================================================
