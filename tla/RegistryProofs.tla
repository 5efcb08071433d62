--------------------------- MODULE RegistryProofs ---------------------------
(***************************************************************************)
(* Proofs about Registry, for any number of requests of any kinds.         *)
(*                                                                         *)
(*   TypeCorrect       the type invariant, with the ids of rows;           *)
(*   WinnerCorrect     a name has one row, whoever asks for it at once;    *)
(*   SourcesCorrect    a source has the cluster its request found;         *)
(*   OutcomesCorrect   a stored outcome was found by asking for that row;  *)
(*   UpdatesCorrect    partial updates do not undo each other.             *)
(*                                                                         *)
(* A handler reads a row, and uses its id some statements later.  What it  *)
(* may rely on is OwnsCluster and OwnsSource: whatever the others do, the  *)
(* id is either nobody's, or still that of the row it has read, or sqlite  *)
(* has given the id of a deleted row to another (MayReuse).                *)
(***************************************************************************)
EXTENDS Registry, TLAPS

-----------------------------------------------------------------------------
(***************************************************************************)
(* The statements of a request.                                            *)
(***************************************************************************)

Makers == {"create_cluster", "create_source", "update_source"}
Deleters == {"delete_cluster", "delete_source"}
Testers == {"test_cluster", "test_source"}
Settled == {"read", "done"}

Steps == {"idle", "find", "probe", "write", "read", "done"}
Replies == {0, 200, 201, 404, 409, 500}

(* The statement after s in a handler of kind k. *)
Follows(k, s) ==
  IF s = "find" THEN IF k \in Makers THEN "write" ELSE "probe"
  ELSE IF s = "probe" THEN IF k \in Testers THEN "write" ELSE "done"
  ELSE IF s = "write" THEN IF k \in Makers \union {"put_settings"} THEN "read" ELSE "done"
  ELSE "done"

LEMMA CourseOf ==
  ASSUME NEW k \in Kinds
  PROVE  /\ k \in Makers => Course(k)["find"] = "write" /\ Course(k)["write"] = "read"
                            /\ Course(k)["read"] = "done"
         /\ k \in Deleters => Course(k)["write"] = "done"
         /\ k \in Testers => Course(k)["find"] = "probe" /\ Course(k)["probe"] = "write"
                             /\ Course(k)["write"] = "done"
         /\ k = "test_connection" => Course(k)["probe"] = "done"
         /\ k = "put_settings" => Course(k)["write"] = "read" /\ Course(k)["read"] = "done"
<1>1. CASE k \in {"create_cluster", "create_source"}
  BY <1>1 DEF Course, Create, Makers, Deleters, Testers
<1>2. CASE k = "update_source"
  BY <1>2 DEF Course, Update, Makers, Deleters, Testers
<1>3. CASE k \in Deleters
  BY <1>3 DEF Course, Delete, Makers, Deleters, Testers
<1>4. CASE k \in Testers
  BY <1>4 DEF Course, Test, Makers, Deleters, Testers
<1>5. CASE k = "test_connection"
  BY <1>5 DEF Course, TestConnection, Makers, Deleters, Testers
<1>6. CASE k = "put_settings"
  BY <1>6 DEF Course, PutSettings, Makers, Deleters, Testers
<1> QED BY <1>1, <1>2, <1>3, <1>4, <1>5, <1>6 DEF Kinds, Makers, Deleters, Testers

(* A request is at a statement of its handler, and answers at the end.     *)
StepOK(q) ==
  /\ step[q] = "find" => op[q].kind \in Makers \union Testers
  /\ step[q] = "probe" => op[q].kind \in Testers \union {"test_connection"}
  /\ step[q] = "write" => op[q].kind # "test_connection"
  /\ step[q] = "read" => op[q].kind \in Makers \union {"put_settings"}
  /\ reply[q] # 0 => step[q] = "done"
  /\ step[q] = "idle" => saw[q] = "unknown"

LEMMA CourseFollows ==
  ASSUME NEW k \in Kinds, NEW s \in {"find", "probe", "write", "read"},
         s = "find" => k \in Makers \union Testers,
         s = "probe" => k \in Testers \union {"test_connection"},
         s = "write" => k # "test_connection",
         s = "read" => k \in Makers \union {"put_settings"}
  PROVE  Course(k)[s] = Follows(k, s)
<1>1. /\ k \in Makers => Course(k)["find"] = "write" /\ Course(k)["write"] = "read"
                         /\ Course(k)["read"] = "done"
      /\ k \in Deleters => Course(k)["write"] = "done"
      /\ k \in Testers => Course(k)["find"] = "probe" /\ Course(k)["probe"] = "write"
                          /\ Course(k)["write"] = "done"
      /\ k = "test_connection" => Course(k)["probe"] = "done"
      /\ k = "put_settings" => Course(k)["write"] = "read" /\ Course(k)["read"] = "done"
  BY CourseOf
<1>2. k \in Makers \union Deleters \union Testers \union {"test_connection", "put_settings"}
  BY DEF Kinds, Makers, Deleters, Testers
<1>3. /\ Makers \intersect Testers = {} /\ Makers \intersect Deleters = {}
      /\ Deleters \intersect Testers = {} /\ "put_settings" \notin Makers \union Testers
      /\ "put_settings" \notin Deleters /\ "test_connection" \notin Makers \union Testers
  BY DEF Makers, Deleters, Testers
<1>4. CASE s = "find"
  BY <1>1, <1>3, <1>4 DEF Follows
<1>5. CASE s = "probe"
  BY <1>1, <1>3, <1>5 DEF Follows
<1>6. CASE s = "write"
  BY <1>1, <1>2, <1>3, <1>6 DEF Follows
<1>7. CASE s = "read"
  BY <1>1, <1>3, <1>7 DEF Follows
<1> QED BY <1>4, <1>5, <1>6, <1>7

(* What is of the requests, and of the tables, in the type invariant. *)
RequestTypes ==
  /\ op \in [Requests -> Operations]
  /\ step \in [Requests -> Steps]
  /\ found \in [Requests -> SUBSET (ClusterRows \union SourceRows)]
  /\ saw \in [Requests -> {"unknown", "healthy", "reachable", "unreachable"}]
  /\ reply \in [Requests -> Replies]

ClusterTypes ==
  /\ clusters \subseteq ClusterRows
  /\ \A r, s \in clusters : r.id = s.id => r = s
  /\ issued.clusters \in Nat
  /\ dialect # "sqlite" => \A r \in clusters : r.id <= issued.clusters

SourceTypes ==
  /\ sources \subseteq SourceRows
  /\ \A r, s \in sources : r.id = s.id => r = s
  /\ issued.sources \in Nat
  /\ dialect # "sqlite" => \A r \in sources : r.id <= issued.sources

OtherTypes ==
  /\ dialect \in Dialects /\ inCluster \in BOOLEAN /\ kinds \in Mixes
  /\ settings \in [Fields -> Writers]
  /\ issued \in [clusters : Nat, sources : Nat]

(* What a handler has read and is about to use: the one row of its id.     *)
FoundOK(q) ==
  step[q] \in {"probe", "write"} =>
    /\ op[q].kind \in {"create_source", "test_cluster"} =>
         \E r \in ClusterRows : found[q] = {r} /\ r.id = op[q].id
    /\ op[q].kind = "test_source" =>
         \E r \in SourceRows : found[q] = {r} /\ r.id = op[q].id

(* What it has seen can be stored.                                         *)
SawOK(q) ==
  step[q] = "write" =>
    /\ op[q].kind = "test_cluster" => saw[q] \in {"reachable", "unreachable"}
    /\ op[q].kind = "test_source" => saw[q] \in {"unknown", "healthy", "unreachable"}

RequestOK(q) == StepOK(q) /\ FoundOK(q) /\ SawOK(q)

(* A source has its cluster: ON DELETE CASCADE.                            *)
Linked == \A s \in sources : s.cluster \in Ids(clusters)

TypeInv ==
  /\ RequestTypes /\ ClusterTypes /\ SourceTypes /\ OtherTypes /\ Linked
  /\ \A q \in Requests : RequestOK(q)

LEMMA TypesAreOK == TypeInv => TypeOK
BY DEF TypeInv, RequestTypes, ClusterTypes, SourceTypes, OtherTypes, TypeOK, Steps, Replies

(* How a request that is served goes on, and that the others wait.         *)
Others(q) ==
  \A p \in Requests \ {q} :
    /\ op'[p] = op[p] /\ step'[p] = step[p] /\ found'[p] = found[p]
    /\ saw'[p] = saw[p] /\ reply'[p] = reply[p]

Moved(q) ==
  \/ /\ step'[q] = Follows(op[q].kind, step[q])
     /\ reply'[q] \in (IF step'[q] = "done" THEN {200, 201} ELSE {0})
  \/ step'[q] = "done" /\ reply'[q] \in {404, 409, 500}

(* Only the id of what it asks for may change: that of the row it has made. *)
SameAsked(q) ==
  /\ op'[q].kind = op[q].kind /\ op'[q].name = op[q].name
  /\ op'[q].config = op[q].config /\ op'[q].given = op[q].given

Serves(q) ==
  /\ step[q] \in {"find", "probe", "write", "read"}
  /\ UNCHANGED environment
  /\ Others(q) /\ Moved(q)
  /\ SameAsked(q)
  /\ asked \subseteq asked'

LEMMA Goes ==
  ASSUME RequestTypes, NEW q \in Requests, StepOK(q),
         step[q] \in {"find", "probe", "write", "read"},
         NEW success \in {200, 201}, Proceed(q, success)
  PROVE  /\ step' \in [Requests -> Steps] /\ reply' \in [Requests -> Replies]
         /\ \A p \in Requests \ {q} : step'[p] = step[p] /\ reply'[p] = reply[p]
         /\ step'[q] = Follows(op[q].kind, step[q])
         /\ reply'[q] = IF step'[q] = "done" THEN success ELSE 0
<1>1. op[q].kind \in Kinds
  BY DEF RequestTypes, Operations
<1>2. Course(op[q].kind)[step[q]] = Follows(op[q].kind, step[q])
  BY <1>1, CourseFollows DEF StepOK
<1> DEFINE next == Follows(op[q].kind, step[q])
<1>3. /\ step' = [step EXCEPT ![q] = next]
      /\ reply' = [reply EXCEPT ![q] = IF next = "done" THEN success ELSE 0]
  BY <1>2 DEF Proceed
<1>4. next \in Steps
  BY DEF Follows, Steps
<1> HIDE DEF next
<1>5. step \in [Requests -> Steps] /\ reply \in [Requests -> Replies]
  BY DEF RequestTypes
<1>6. (IF next = "done" THEN success ELSE 0) \in Replies
  BY DEF Replies
<1>7. step'[q] = next /\ reply'[q] = IF next = "done" THEN success ELSE 0
  BY <1>3, <1>5
<1> QED BY <1>3, <1>4, <1>5, <1>6, <1>7 DEF next

LEMMA Stops ==
  ASSUME RequestTypes, NEW q \in Requests, NEW code \in {404, 409, 500}, Fail(q, code)
  PROVE  /\ step' \in [Requests -> Steps] /\ reply' \in [Requests -> Replies]
         /\ \A p \in Requests \ {q} : step'[p] = step[p] /\ reply'[p] = reply[p]
         /\ step'[q] = "done" /\ reply'[q] = code
BY DEF Fail, RequestTypes, Steps, Replies

(* Either of them. *)
LEMMA GoesOrStops ==
  ASSUME RequestTypes, NEW q \in Requests, StepOK(q),
         step[q] \in {"find", "probe", "write", "read"},
         \/ \E success \in {200, 201} : Proceed(q, success)
         \/ \E code \in {404, 409, 500} : Fail(q, code)
  PROVE  /\ step' \in [Requests -> Steps] /\ reply' \in [Requests -> Replies]
         /\ \A p \in Requests \ {q} : step'[p] = step[p] /\ reply'[p] = reply[p]
         /\ Moved(q)
<1>1. CASE \E success \in {200, 201} : Proceed(q, success)
  <2>1. PICK success \in {200, 201} : Proceed(q, success)
    BY <1>1
  <2> QED BY <2>1, Goes DEF Moved
<1>2. CASE \E code \in {404, 409, 500} : Fail(q, code)
  <2>1. PICK code \in {404, 409, 500} : Fail(q, code)
    BY <1>2
  <2> QED BY <2>1, Stops DEF Moved
<1> QED BY <1>1, <1>2

LEMMA ServesReads ==
  ASSUME TypeInv, NEW q \in Requests,
         FindName(q) \/ Find(q) \/ ReadBack(q) \/ Locked(q) \/ ProbeRaises(q)
  PROVE  Serves(q) /\ RequestTypes' /\ UNCHANGED <<tables, op, saw, asked>>
<1>1. RequestTypes /\ StepOK(q)
  BY DEF TypeInv, RequestOK
<1>2. step[q] \in {"find", "probe", "write", "read"}
  BY DEF FindName, Find, ReadBack, Locked, ProbeRaises, At
<1>3. UNCHANGED <<environment, tables, op, saw, asked>>
  BY DEF FindName, Find, ReadBack, Locked, ProbeRaises
<1>4. \/ \E success \in {200, 201} : Proceed(q, success)
      \/ \E code \in {404, 409, 500} : Fail(q, code)
  <2>1. CASE FindName(q)
    BY <2>1 DEF FindName
  <2>2. CASE Find(q)
    BY <2>2 DEF Find
  <2>3. CASE ReadBack(q)
    BY <2>3 DEF ReadBack
  <2>4. CASE Locked(q)
    BY <2>4 DEF Locked
  <2>5. CASE ProbeRaises(q)
    BY <2>5 DEF ProbeRaises
  <2> QED BY <2>1, <2>2, <2>3, <2>4, <2>5
<1>5. /\ step' \in [Requests -> Steps] /\ reply' \in [Requests -> Replies]
      /\ \A p \in Requests \ {q} : step'[p] = step[p] /\ reply'[p] = reply[p]
      /\ Moved(q)
  BY <1>1, <1>2, <1>4, GoesOrStops
<1>6. \E rows \in SUBSET (ClusterRows \union SourceRows) :
        found' = [found EXCEPT ![q] = rows] \/ found' = found
  <2>1. /\ \A id : WithId(clusters, id) \in SUBSET (ClusterRows \union SourceRows)
        /\ \A id : WithId(sources, id) \in SUBSET (ClusterRows \union SourceRows)
        /\ {} \in SUBSET (ClusterRows \union SourceRows)
    BY DEF WithId, TypeInv, ClusterTypes, SourceTypes
  <2>2. CASE FindName(q) \/ Locked(q) \/ ProbeRaises(q)
    BY <2>2 DEF FindName, Locked, ProbeRaises
  <2>3. CASE Find(q)
    BY <2>1, <2>3 DEF Find
  <2>4. CASE ReadBack(q)
    <3>1. CASE op[q].kind = "create_cluster"
      BY <2>1, <2>4, <3>1 DEF ReadBack, Written
    <3>2. CASE op[q].kind = "put_settings"
      BY <2>1, <2>4, <3>2 DEF ReadBack, Written
    <3>3. CASE op[q].kind \notin {"create_cluster", "put_settings"}
      BY <2>1, <2>4, <3>3 DEF ReadBack, Written
    <3> QED BY <3>1, <3>2, <3>3
  <2> QED BY <2>2, <2>3, <2>4
<1>7. /\ found' \in [Requests -> SUBSET (ClusterRows \union SourceRows)]
      /\ \A p \in Requests \ {q} : found'[p] = found[p]
  BY <1>1, <1>6 DEF RequestTypes
<1>8. RequestTypes'
  BY <1>1, <1>3, <1>5, <1>7 DEF RequestTypes
<1>9. Others(q)
  BY <1>3, <1>5, <1>7 DEF Others
<1>10. SameAsked(q)
  BY <1>3 DEF SameAsked
<1> QED BY <1>2, <1>3, <1>5, <1>8, <1>9, <1>10 DEF Serves

LEMMA ServesProbes ==
  ASSUME TypeInv, NEW q \in Requests, ProbeCluster(q) \/ ProbeConnection(q) \/ ProbeSource(q)
  PROVE  Serves(q) /\ RequestTypes' /\ UNCHANGED <<tables, op, found>>
<1>1. RequestTypes /\ StepOK(q)
  BY DEF TypeInv, RequestOK
<1>2. step[q] \in {"find", "probe", "write", "read"}
  BY DEF ProbeCluster, ProbeConnection, ProbeSource, At
<1>3. UNCHANGED <<environment, tables, op, found>>
  BY DEF ProbeCluster, ProbeConnection, ProbeSource
<1>4. \E success \in {200, 201} : Proceed(q, success)
  BY DEF ProbeCluster, ProbeConnection, ProbeSource
<1>5. /\ step' \in [Requests -> Steps] /\ reply' \in [Requests -> Replies]
      /\ \A p \in Requests \ {q} : step'[p] = step[p] /\ reply'[p] = reply[p]
      /\ Moved(q)
  BY <1>1, <1>2, <1>4, GoesOrStops
<1>6. /\ \E v \in {"unknown", "healthy", "reachable", "unreachable"} :
           saw' = [saw EXCEPT ![q] = v]
      /\ asked \subseteq asked'
  BY DEF ProbeCluster, ProbeConnection, ProbeSource, KubeProbe
<1>7. /\ saw' \in [Requests -> {"unknown", "healthy", "reachable", "unreachable"}]
      /\ \A p \in Requests \ {q} : saw'[p] = saw[p]
  BY <1>1, <1>6 DEF RequestTypes
<1>8. RequestTypes'
  BY <1>1, <1>3, <1>5, <1>7 DEF RequestTypes
<1>9. Others(q)
  BY <1>3, <1>5, <1>7 DEF Others
<1>10. SameAsked(q)
  BY <1>3 DEF SameAsked
<1> QED BY <1>2, <1>3, <1>5, <1>6, <1>8, <1>9, <1>10 DEF Serves

(* The writes that make no row. *)
Changes(q) ==
  DeleteCluster(q) \/ RecordStatus(q) \/ UpdateSource(q) \/ DeleteSource(q)
    \/ RecordHealth(q) \/ UpdateSettings(q)

LEMMA ServesChanges ==
  ASSUME TypeInv, NEW q \in Requests, Changes(q)
  PROVE  Serves(q) /\ RequestTypes' /\ UNCHANGED <<issued, op, found, saw, asked>>
<1>1. RequestTypes /\ StepOK(q)
  BY DEF TypeInv, RequestOK
<1>2. step[q] \in {"find", "probe", "write", "read"}
  BY DEF Changes, DeleteCluster, RecordStatus, UpdateSource, DeleteSource, RecordHealth,
       UpdateSettings, At
<1>3. UNCHANGED <<environment, issued, op, found, saw, asked>>
  BY DEF Changes, DeleteCluster, RecordStatus, UpdateSource, DeleteSource, RecordHealth,
       UpdateSettings
<1>4. \/ \E success \in {200, 201} : Proceed(q, success)
      \/ \E code \in {404, 409, 500} : Fail(q, code)
  <2>1. CASE DeleteCluster(q)
    BY <2>1 DEF DeleteCluster
  <2>2. CASE DeleteSource(q)
    BY <2>2 DEF DeleteSource
  <2>3. CASE RecordStatus(q) \/ UpdateSource(q) \/ RecordHealth(q) \/ UpdateSettings(q)
    BY <2>3 DEF RecordStatus, UpdateSource, RecordHealth, UpdateSettings
  <2> QED BY <2>1, <2>2, <2>3 DEF Changes
<1>5. /\ step' \in [Requests -> Steps] /\ reply' \in [Requests -> Replies]
      /\ \A p \in Requests \ {q} : step'[p] = step[p] /\ reply'[p] = reply[p]
      /\ Moved(q)
  BY <1>1, <1>2, <1>4, GoesOrStops
<1>6. RequestTypes'
  BY <1>1, <1>3, <1>5 DEF RequestTypes
<1>7. Others(q)
  BY <1>3, <1>5 DEF Others
<1>8. SameAsked(q)
  BY <1>3 DEF SameAsked
<1> QED BY <1>2, <1>3, <1>5, <1>6, <1>7, <1>8 DEF Serves

(* A row gets an id no row has; on postgres, no row ever had.              *)
Fresh(id, rows, last) ==
  id \in Nat \ {0} /\ id \notin Ids(rows) /\ (dialect # "sqlite" => id = last + 1)

LEMMA NewId ==
  ASSUME NEW rows, NEW last \in Nat, \A r \in rows : r.id \in Nat,
         dialect \in {"sqlite", "postgres"},
         dialect # "sqlite" => \A r \in rows : r.id <= last,
         NEW id \in NextId(rows, last)
  PROVE  Fresh(id, rows, last)
<1>1. CASE dialect = "sqlite"
  <2>1. id \in {1} \union {j + 1 : j \in Ids(rows)} /\ \A j \in Ids(rows) : j < id
    BY <1>1 DEF NextId
  <2>2. \A j \in Ids(rows) : j \in Nat
    BY DEF Ids
  <2>3. id \in Nat \ {0}
    BY <2>1, <2>2
  <2> QED BY <1>1, <2>1, <2>2, <2>3 DEF Fresh
<1>2. CASE dialect = "postgres"
  BY <1>2 DEF NextId, Fresh, Ids
<1> QED BY <1>1, <1>2

LEMMA ServesInserts ==
  ASSUME TypeInv, NEW q \in Requests, InsertCluster(q) \/ InsertSource(q)
  PROVE  Serves(q) /\ RequestTypes' /\ UNCHANGED <<settings, found, saw, asked>>
<1>1. RequestTypes /\ StepOK(q)
  BY DEF TypeInv, RequestOK
<1>2. step[q] \in {"find", "probe", "write", "read"}
  BY DEF InsertCluster, InsertSource, At
<1>3. UNCHANGED <<environment, settings, found, saw, asked>>
  BY DEF InsertCluster, InsertSource
<1>4. \/ \E success \in {200, 201} : Proceed(q, success)
      \/ \E code \in {404, 409, 500} : Fail(q, code)
  <2>1. CASE InsertCluster(q)
    BY <2>1 DEF InsertCluster
  <2>2. CASE InsertSource(q)
    BY <2>2 DEF InsertSource
  <2> QED BY <2>1, <2>2
<1>5. /\ step' \in [Requests -> Steps] /\ reply' \in [Requests -> Replies]
      /\ \A p \in Requests \ {q} : step'[p] = step[p] /\ reply'[p] = reply[p]
      /\ Moved(q)
  BY <1>1, <1>2, <1>4, GoesOrStops
<1>6. \E id \in Nat : op' = op \/ op' = [op EXCEPT ![q].id = id]
  <2>1. CASE InsertCluster(q)
    <3>1. PICK id \in NextId(clusters, issued.clusters) : op' = op \/ op' = [op EXCEPT ![q].id = id]
      BY <2>1 DEF InsertCluster
    <3>2. Fresh(id, clusters, issued.clusters)
      BY NewId, RegistryAssumption DEF TypeInv, ClusterTypes, OtherTypes, ClusterRows
    <3> QED BY <3>1, <3>2 DEF Fresh
  <2>2. CASE InsertSource(q)
    <3>1. PICK id \in NextId(sources, issued.sources) : op' = op \/ op' = [op EXCEPT ![q].id = id]
      BY <2>2 DEF InsertSource
    <3>2. Fresh(id, sources, issued.sources)
      BY NewId, RegistryAssumption DEF TypeInv, SourceTypes, OtherTypes, SourceRows
    <3> QED BY <3>1, <3>2 DEF Fresh
  <2> QED BY <2>1, <2>2
<1>7. /\ op' \in [Requests -> Operations]
      /\ \A p \in Requests \ {q} : op'[p] = op[p]
      /\ SameAsked(q)
  <2>1. PICK id \in Nat : op' = op \/ op' = [op EXCEPT ![q].id = id]
    BY <1>6
  <2>2. op \in [Requests -> Operations]
    BY <1>1 DEF RequestTypes
  <2>3. \A p \in Requests \ {q} : op'[p] = op[p]
    BY <2>1, <2>2
  <2>4. op'[q] = op[q] \/ op'[q] = [op[q] EXCEPT !.id = id]
    BY <2>1, <2>2
  <2>5. op[q] \in Operations
    BY <2>2
  <2>6. op'[q] \in Operations /\ SameAsked(q)
    BY <2>4, <2>5 DEF Operations, SameAsked
  <2>7. op' \in [Requests -> Operations]
    BY <2>1, <2>2, <2>5 DEF Operations
  <2> QED BY <2>3, <2>6, <2>7
<1>8. RequestTypes'
  BY <1>1, <1>3, <1>5, <1>7 DEF RequestTypes
<1>9. Others(q)
  BY <1>3, <1>5, <1>7 DEF Others
<1> QED BY <1>2, <1>3, <1>5, <1>7, <1>8, <1>9 DEF Serves

-----------------------------------------------------------------------------
(***************************************************************************)
(* What a step does to the clusters.                                       *)
(***************************************************************************)

(* The rows stay; a test may set the status of one.                        *)
SameCluster(r, s) == r.id = s.id /\ r.by = s.by /\ r.name = s.name /\ r.config = s.config

ClustersEdited(q) ==
  /\ \A r \in clusters' : \E s \in clusters :
       /\ SameCluster(r, s)
       /\ \/ r.status = s.status
          \/ At(q, "write", "test_cluster") /\ r.id = op[q].id /\ r.status = saw[q]
  /\ \A s \in clusters : \E r \in clusters' : SameCluster(r, s)
  /\ issued.clusters <= issued'.clusters

ClusterAdded(q) ==
  /\ At(q, "write", "create_cluster") /\ step'[q] = "read" /\ reply'[q] = 0
  /\ Fresh(op'[q].id, clusters, issued.clusters) /\ ~ Taken(op[q].name)
  /\ clusters' = clusters \union
       {[id |-> op'[q].id, name |-> op[q].name, config |-> op[q].config,
         status |-> "unknown", by |-> q]}
  /\ issued'.clusters = IF dialect = "sqlite" THEN issued.clusters ELSE op'[q].id

ClusterRemoved(q) ==
  /\ DeleteCluster(q)
  /\ At(q, "write", "delete_cluster") /\ op[q].id \in Ids(clusters) /\ reply'[q] = 200
  /\ clusters' = clusters \ WithId(clusters, op[q].id)
  /\ issued'.clusters = issued.clusters

LEMMA ClustersStay ==
  ASSUME ClusterTypes, clusters' = clusters, issued' = issued, dialect' = dialect, NEW q
  PROVE  ClusterTypes' /\ ClustersEdited(q)
<1>1. ClusterTypes'
  BY DEF ClusterTypes
<1>2. issued.clusters <= issued'.clusters
  BY DEF ClusterTypes
<1>3. \A r \in clusters : SameCluster(r, r) /\ r.status = r.status
  BY DEF SameCluster
<1> QED BY <1>1, <1>2, <1>3 DEF ClustersEdited

LEMMA StatusRecorded ==
  ASSUME TypeInv, NEW q \in Requests, RecordStatus(q)
  PROVE  ClusterTypes' /\ ClustersEdited(q)
<1>1. /\ clusters' = {IF r.id = op[q].id THEN [r EXCEPT !.status = saw[q]] ELSE r : r \in clusters}
      /\ issued' = issued /\ dialect' = dialect /\ At(q, "write", "test_cluster")
  BY DEF RecordStatus, Concerns, environment
<1>2. saw[q] \in {"reachable", "unreachable"}
  BY <1>1 DEF TypeInv, RequestOK, SawOK, At
<1>3. \A r \in clusters :
        LET t == IF r.id = op[q].id THEN [r EXCEPT !.status = saw[q]] ELSE r IN
        /\ t \in ClusterRows /\ SameCluster(t, r)
        /\ t.status = r.status \/ (t.id = op[q].id /\ t.status = saw[q])
  BY <1>2 DEF TypeInv, ClusterTypes, ClusterRows, SameCluster
<1>4. \A t \in clusters' : \E r \in clusters :
        /\ t = IF r.id = op[q].id THEN [r EXCEPT !.status = saw[q]] ELSE r
        /\ t \in ClusterRows /\ SameCluster(t, r)
        /\ t.status = r.status \/ (t.id = op[q].id /\ t.status = saw[q])
  <2> SUFFICES ASSUME NEW t \in clusters'
               PROVE  \E r \in clusters :
                        /\ t = IF r.id = op[q].id THEN [r EXCEPT !.status = saw[q]] ELSE r
                        /\ t \in ClusterRows /\ SameCluster(t, r)
                        /\ t.status = r.status \/ (t.id = op[q].id /\ t.status = saw[q])
    OBVIOUS
  <2>1. PICK r \in clusters : t = IF r.id = op[q].id THEN [r EXCEPT !.status = saw[q]] ELSE r
    BY <1>1
  <2>2. /\ t \in ClusterRows /\ SameCluster(t, r)
        /\ t.status = r.status \/ (t.id = op[q].id /\ t.status = saw[q])
    BY <1>3, <2>1
  <2> QED BY <2>1, <2>2
<1>5. \A r \in clusters : \E t \in clusters' : SameCluster(t, r)
  BY <1>1, <1>3
<1>6. \A t, u \in clusters' : t.id = u.id => t = u
  <2> SUFFICES ASSUME NEW t \in clusters', NEW u \in clusters', t.id = u.id PROVE t = u
    OBVIOUS
  <2>1. PICK r \in clusters : t = (IF r.id = op[q].id THEN [r EXCEPT !.status = saw[q]] ELSE r)
                               /\ SameCluster(t, r)
    BY <1>4
  <2>2. PICK v \in clusters : u = (IF v.id = op[q].id THEN [v EXCEPT !.status = saw[q]] ELSE v)
                               /\ SameCluster(u, v)
    BY <1>4
  <2>3. r = v
    BY <2>1, <2>2 DEF SameCluster, TypeInv, ClusterTypes
  <2> QED BY <2>1, <2>2, <2>3
<1>7. ClusterTypes'
  <2>1. dialect' # "sqlite" => \A t \in clusters' : t.id <= issued'.clusters
    BY <1>1, <1>4 DEF TypeInv, ClusterTypes, SameCluster
  <2> QED BY <1>1, <1>4, <1>6, <2>1 DEF TypeInv, ClusterTypes
<1>8. issued.clusters <= issued'.clusters
  <2>1. issued' = issued /\ issued.clusters \in Nat
    BY <1>1 DEF TypeInv, ClusterTypes
  <2> QED BY <2>1
<1> QED BY <1>1, <1>4, <1>5, <1>7, <1>8 DEF ClustersEdited

LEMMA ClusterDeleted ==
  ASSUME TypeInv, NEW q \in Requests, DeleteCluster(q)
  PROVE  ClusterTypes' /\ (ClustersEdited(q) \/ ClusterRemoved(q))
<1>1. /\ clusters' = clusters \ WithId(clusters, op[q].id) /\ At(q, "write", "delete_cluster")
      /\ issued' = issued /\ dialect' = dialect
      /\ IF op[q].id \in Ids(clusters) THEN Proceed(q, 200) ELSE Fail(q, 404)
  BY DEF DeleteCluster, environment
<1>2. ClusterTypes'
  BY <1>1 DEF TypeInv, ClusterTypes
<1>3. CASE op[q].id \in Ids(clusters)
  <2>1. step'[q] = Follows(op[q].kind, step[q]) /\ reply'[q] = IF step'[q] = "done" THEN 200 ELSE 0
    BY <1>1, <1>3, Goes DEF TypeInv, RequestOK, At
  <2>2. reply'[q] = 200
    BY <1>1, <2>1 DEF At, Follows, Makers
  <2> QED BY <1>1, <1>2, <1>3, <2>2 DEF ClusterRemoved
<1>4. CASE op[q].id \notin Ids(clusters)
  <2>1. clusters' = clusters
    BY <1>1, <1>4 DEF WithId, Ids
  <2> QED BY <1>1, <2>1, ClustersStay DEF TypeInv
<1> QED BY <1>3, <1>4

LEMMA ClusterInserted ==
  ASSUME TypeInv, NEW q \in Requests, InsertCluster(q)
  PROVE  ClusterTypes' /\ (ClustersEdited(q) \/ ClusterAdded(q))
<1>1. PICK id \in NextId(clusters, issued.clusters) :
        /\ issued' = [issued EXCEPT !.clusters = IF dialect = "postgres" THEN id ELSE @]
        /\ IF Violation(op[q].name)
           THEN Fail(q, 500) /\ UNCHANGED <<clusters, op>>
           ELSE /\ clusters' = clusters \union
                     {[id |-> id, name |-> op[q].name, config |-> op[q].config,
                       status |-> "unknown", by |-> q]}
                /\ op' = [op EXCEPT ![q].id = id]
                /\ Proceed(q, 201)
  BY DEF InsertCluster
<1>2. At(q, "write", "create_cluster") /\ dialect' = dialect
  BY DEF InsertCluster, environment
<1>3. dialect \in {"sqlite", "postgres"}
  BY RegistryAssumption DEF TypeInv, OtherTypes
<1>4. Fresh(id, clusters, issued.clusters)
  BY <1>3, NewId DEF TypeInv, ClusterTypes, ClusterRows
<1>5. issued'.clusters = IF dialect = "sqlite" THEN issued.clusters ELSE id
  BY <1>1, <1>3 DEF TypeInv, OtherTypes
<1>6. issued'.clusters \in Nat /\ issued.clusters <= issued'.clusters
      /\ (dialect # "sqlite" => id <= issued'.clusters)
  BY <1>4, <1>5 DEF TypeInv, ClusterTypes, Fresh
<1>7. CASE Violation(op[q].name)
  <2>1. clusters' = clusters
    BY <1>1, <1>7
  <2>2. ClusterTypes'
    <3>1. \A r \in clusters' : dialect' # "sqlite" => r.id <= issued.clusters
      BY <1>2, <2>1 DEF TypeInv, ClusterTypes
    <3>2. \A r \in clusters' : r.id \in Nat
      BY <2>1 DEF TypeInv, ClusterTypes, ClusterRows
    <3>3. issued.clusters \in Nat
      BY DEF TypeInv, ClusterTypes
    <3>4. dialect' # "sqlite" => \A r \in clusters' : r.id <= issued'.clusters
      BY <1>6, <3>1, <3>2, <3>3
    <3> QED BY <1>6, <2>1, <3>4 DEF TypeInv, ClusterTypes
  <2> QED BY <1>6, <2>1, <2>2 DEF ClustersEdited, SameCluster
<1>8. CASE ~ Violation(op[q].name)
  <2> DEFINE row == [id |-> id, name |-> op[q].name, config |-> op[q].config,
                     status |-> "unknown", by |-> q]
  <2>1. clusters' = clusters \union {row} /\ op' = [op EXCEPT ![q].id = id] /\ Proceed(q, 201)
    BY <1>1, <1>8
  <2>2. row \in ClusterRows /\ row.id = id
    BY <1>4 DEF TypeInv, RequestTypes, Operations, ClusterRows, Writers, Fresh
  <2>3. op'[q].id = id
    BY <2>1 DEF TypeInv, RequestTypes, Operations
  <2>4. step'[q] = Follows(op[q].kind, step[q]) /\ reply'[q] = IF step'[q] = "done" THEN 201 ELSE 0
    BY <1>2, <2>1, Goes DEF TypeInv, RequestOK, At
  <2>5. step'[q] = "read" /\ reply'[q] = 0
    BY <1>2, <2>4 DEF At, Follows, Makers
  <2> HIDE DEF row
  <2>6. \A r \in clusters : r.id # row.id
    BY <1>4, <2>2 DEF Fresh, Ids
  <2>7. ClusterTypes'
    <3>1. clusters' \subseteq ClusterRows /\ \A r, s \in clusters' : r.id = s.id => r = s
      BY <2>1, <2>2, <2>6 DEF TypeInv, ClusterTypes
    <3>2. dialect' # "sqlite" => \A r \in clusters' : r.id <= issued'.clusters
      <4>1. \A r \in clusters : r.id \in Nat /\ (dialect # "sqlite" => r.id <= issued.clusters)
        BY DEF TypeInv, ClusterTypes, ClusterRows
      <4>2. issued.clusters \in Nat
        BY DEF TypeInv, ClusterTypes
      <4>3. \A r \in clusters : dialect # "sqlite" => r.id <= issued'.clusters
        BY <1>6, <4>1, <4>2
      <4> QED BY <1>2, <1>6, <2>1, <2>2, <4>3
    <3> QED BY <1>6, <3>1, <3>2 DEF ClusterTypes
  <2>8. ClusterAdded(q)
    BY <1>2, <1>4, <1>5, <1>8, <2>1, <2>3, <2>5 DEF ClusterAdded, Violation, row
  <2> QED BY <2>7, <2>8
<1> QED BY <1>7, <1>8

ActionOf(q) ==
  \/ FindName(q) \/ Find(q) \/ ReadBack(q) \/ Locked(q) \/ ProbeRaises(q)
  \/ ProbeCluster(q) \/ ProbeConnection(q) \/ ProbeSource(q)
  \/ InsertCluster(q) \/ InsertSource(q) \/ Changes(q)

LEMMA ClusterStep ==
  ASSUME TypeInv, NEW q \in Requests, ActionOf(q)
  PROVE  ClusterTypes' /\ (ClustersEdited(q) \/ ClusterAdded(q) \/ ClusterRemoved(q))
<1>1. CASE InsertCluster(q) \/ DeleteCluster(q) \/ RecordStatus(q)
  BY <1>1, ClusterInserted, ClusterDeleted, StatusRecorded
<1>2. CASE InsertSource(q)
  <2>1. clusters' = clusters /\ dialect' = dialect
    BY <1>2 DEF InsertSource, environment
  <2>2. issued'.clusters = issued.clusters
    BY <1>2 DEF InsertSource, TypeInv, OtherTypes
  <2>3. ClusterTypes'
    BY <2>1, <2>2 DEF TypeInv, ClusterTypes
  <2>4. issued.clusters <= issued'.clusters
    <3>1. issued.clusters \in Nat
      BY DEF TypeInv, ClusterTypes
    <3> QED BY <2>2, <3>1
  <2>5. \A r \in clusters : SameCluster(r, r) /\ r.status = r.status
    BY DEF SameCluster
  <2> QED BY <2>1, <2>3, <2>4, <2>5 DEF ClustersEdited
<1>3. CASE ActionOf(q) /\ ~ (InsertCluster(q) \/ DeleteCluster(q) \/ RecordStatus(q) \/ InsertSource(q))
  <2>1. clusters' = clusters /\ issued' = issued /\ dialect' = dialect
    BY <1>3 DEF ActionOf, Changes, FindName, Find, ReadBack, Locked, ProbeRaises, ProbeCluster,
         ProbeConnection, ProbeSource, UpdateSource, DeleteSource, RecordHealth,
         UpdateSettings, tables, environment
  <2> QED BY <2>1, ClustersStay DEF TypeInv
<1> QED BY <1>1, <1>2, <1>3

-----------------------------------------------------------------------------
(***************************************************************************)
(* What a step does to the sources.                                        *)
(***************************************************************************)

SameSource(t, s) == t.id = s.id /\ t.cluster = s.cluster /\ t.by = s.by /\ t.of = s.of

(* A test may set the health of one, an update the fields it was given.    *)
Edited(q, t, s) ==
  /\ SameSource(t, s)
  /\ t.health = s.health \/ (At(q, "write", "test_source") /\ t.id = op[q].id /\ t.health = saw[q])
  /\ \A f \in Fields : t.values[f] = s.values[f] \/ (t.values[f] = q /\ f \in op[q].given)

SourcesEdited(q) ==
  /\ \A t \in sources' : \E s \in sources : Edited(q, t, s)
  /\ \A s \in sources : \E t \in sources' : SameSource(t, s)
  /\ issued.sources <= issued'.sources

NewSource(q, c) ==
  [id |-> op'[q].id, cluster |-> op[q].id, values |-> [f \in Fields |-> q],
   health |-> "none", by |-> q, of |-> c.by]

SourceAdded(q) ==
  /\ At(q, "write", "create_source") /\ step'[q] = "read" /\ reply'[q] = 0
  /\ Fresh(op'[q].id, sources, issued.sources) /\ op[q].id \in Ids(clusters)
  /\ \E c \in found[q] : sources' = sources \union {NewSource(q, c)}
  /\ issued'.sources = IF dialect = "sqlite" THEN issued.sources ELSE op'[q].id

SourcesRemoved(q) ==
  /\ step[q] = "write" /\ op[q].kind \in Deleters /\ reply'[q] = 200
  /\ sources' \subseteq sources
  /\ issued'.sources = issued.sources

LEMMA SourcesStay ==
  ASSUME SourceTypes, sources' = sources, issued'.sources = issued.sources,
         dialect' = dialect, NEW q
  PROVE  SourceTypes' /\ SourcesEdited(q)
<1>1. SourceTypes'
  BY DEF SourceTypes
<1>2. issued.sources <= issued'.sources
  BY DEF SourceTypes
<1>3. \A s \in sources : Edited(q, s, s) /\ SameSource(s, s)
  BY DEF Edited, SameSource
<1> QED BY <1>1, <1>2, <1>3 DEF SourcesEdited

(* An UPDATE of rows.                                                      *)
LEMMA SourcesUpdated ==
  ASSUME TypeInv, NEW q \in Requests, NEW row,
         \A s \in sources : row[s] \in SourceRows /\ Edited(q, row[s], s),
         sources' = {row[s] : s \in sources},
         issued' = issued, dialect' = dialect
  PROVE  SourceTypes' /\ SourcesEdited(q)
<1>3. \A t \in sources' : \E s \in sources : t = row[s] /\ t \in SourceRows /\ Edited(q, t, s)
  OBVIOUS
<1>4. \A s \in sources : row[s] \in sources' /\ SameSource(row[s], s)
  BY DEF Edited
<1>5. \A t, u \in sources' : t.id = u.id => t = u
  <2> SUFFICES ASSUME NEW t \in sources', NEW u \in sources', t.id = u.id PROVE t = u
    OBVIOUS
  <2>1. PICK r \in sources : t = row[r] /\ t.id = r.id
    BY <1>3 DEF Edited, SameSource
  <2>2. PICK v \in sources : u = row[v] /\ u.id = v.id
    BY <1>3 DEF Edited, SameSource
  <2>3. r = v
    BY <2>1, <2>2 DEF TypeInv, SourceTypes
  <2> QED BY <2>1, <2>2, <2>3
<1>6. dialect' # "sqlite" => \A t \in sources' : t.id <= issued'.sources
  <2>1. \A s \in sources : dialect # "sqlite" => s.id <= issued.sources
    BY DEF TypeInv, SourceTypes
  <2>2. \A t \in sources' : \E s \in sources : t.id = s.id
    BY <1>3 DEF Edited, SameSource
  <2> QED BY <2>1, <2>2
<1>7. SourceTypes'
  <2>1. issued.sources \in Nat /\ sources' \subseteq SourceRows
    BY <1>3 DEF TypeInv, SourceTypes
  <2> QED BY <1>5, <1>6, <2>1 DEF SourceTypes
<1>8. issued.sources <= issued'.sources
  <2>1. issued.sources \in Nat
    BY DEF TypeInv, SourceTypes
  <2> QED BY <2>1
<1> QED BY <1>3, <1>4, <1>7, <1>8 DEF SourcesEdited

LEMMA HealthRecorded ==
  ASSUME TypeInv, NEW q \in Requests, RecordHealth(q)
  PROVE  SourceTypes' /\ SourcesEdited(q)
<1>1. /\ sources' = {IF s.id = op[q].id THEN [s EXCEPT !.health = saw[q]] ELSE s : s \in sources}
      /\ issued' = issued /\ dialect' = dialect /\ At(q, "write", "test_source")
  BY DEF RecordHealth, Concerns, environment
<1>2. saw[q] \in {"unknown", "healthy", "unreachable"}
  BY <1>1 DEF TypeInv, RequestOK, SawOK, At
<1> DEFINE row == [s \in sources |-> IF s.id = op[q].id THEN [s EXCEPT !.health = saw[q]] ELSE s]
<1>3. \A s \in sources : row[s] \in SourceRows /\ Edited(q, row[s], s)
  <2> SUFFICES ASSUME NEW s \in sources PROVE row[s] \in SourceRows /\ Edited(q, row[s], s)
    OBVIOUS
  <2>1. s \in SourceRows
    BY DEF TypeInv, SourceTypes
  <2>2. CASE s.id = op[q].id
    <3>1. row[s] = [s EXCEPT !.health = saw[q]]
      BY <2>2
    <3>2. /\ row[s].id = s.id /\ row[s].cluster = s.cluster /\ row[s].values = s.values
          /\ row[s].health = saw[q] /\ row[s].by = s.by /\ row[s].of = s.of
          /\ row[s] \in SourceRows
      BY <1>2, <2>1, <3>1 DEF SourceRows
    <3> HIDE DEF row
    <3> QED BY <1>1, <2>2, <3>2 DEF Edited, SameSource
  <2>3. CASE s.id # op[q].id
    BY <2>1, <2>3 DEF Edited, SameSource
  <2> QED BY <2>2, <2>3
<1>4. sources' = {row[s] : s \in sources}
  BY <1>1
<1> HIDE DEF row
<1> QED BY <1>1, <1>3, <1>4, SourcesUpdated

LEMMA SourceUpdated ==
  ASSUME TypeInv, NEW q \in Requests, UpdateSource(q)
  PROVE  SourceTypes' /\ SourcesEdited(q)
<1>1. /\ sources' = {IF s.id = op[q].id THEN [s EXCEPT !.values = WithGiven(q, @)] ELSE s :
                       s \in sources}
      /\ issued' = issued /\ dialect' = dialect
  BY DEF UpdateSource, Concerns, environment
<1> DEFINE row == [s \in sources |-> IF s.id = op[q].id
                                     THEN [s EXCEPT !.values = WithGiven(q, s.values)] ELSE s]
<1>2. \A s \in sources : WithGiven(q, s.values) \in [Fields -> Writers]
  BY DEF WithGiven, Writers, TypeInv, SourceTypes, SourceRows
<1>3. \A s \in sources, f \in Fields :
        WithGiven(q, s.values)[f] = s.values[f] \/ (WithGiven(q, s.values)[f] = q /\ f \in op[q].given)
  BY DEF WithGiven
<1>4. \A s \in sources : row[s] \in SourceRows /\ Edited(q, row[s], s)
  BY <1>2, <1>3 DEF TypeInv, SourceTypes, SourceRows, Edited, SameSource
<1>5. sources' = {row[s] : s \in sources}
  BY <1>1
<1> HIDE DEF row
<1> QED BY <1>1, <1>4, <1>5, SourcesUpdated

LEMMA SourceDeleted ==
  ASSUME TypeInv, NEW q \in Requests, DeleteSource(q)
  PROVE  SourceTypes' /\ (SourcesEdited(q) \/ SourcesRemoved(q))
<1>1. /\ sources' = sources \ WithId(sources, op[q].id) /\ At(q, "write", "delete_source")
      /\ issued' = issued /\ dialect' = dialect
      /\ IF op[q].id \in Ids(sources) THEN Proceed(q, 200) ELSE Fail(q, 404)
  BY DEF DeleteSource, environment
<1>2. SourceTypes'
  BY <1>1 DEF TypeInv, SourceTypes
<1>3. CASE op[q].id \in Ids(sources)
  <2>1. step'[q] = Follows(op[q].kind, step[q]) /\ reply'[q] = IF step'[q] = "done" THEN 200 ELSE 0
    BY <1>1, <1>3, Goes DEF TypeInv, RequestOK, At
  <2>2. reply'[q] = 200
    BY <1>1, <2>1 DEF At, Follows, Makers
  <2> QED BY <1>1, <1>2, <1>3, <2>2 DEF SourcesRemoved, At, Deleters
<1>4. CASE op[q].id \notin Ids(sources)
  <2>1. sources' = sources /\ issued'.sources = issued.sources
    BY <1>1, <1>4 DEF WithId, Ids
  <2> QED BY <1>1, <2>1, SourcesStay DEF TypeInv
<1> QED BY <1>3, <1>4

LEMMA SourcesCascade ==
  ASSUME TypeInv, NEW q \in Requests, DeleteCluster(q)
  PROVE  SourceTypes' /\ (SourcesEdited(q) \/ SourcesRemoved(q))
<1>1. /\ sources' = {s \in sources : s.cluster # op[q].id} /\ At(q, "write", "delete_cluster")
      /\ issued' = issued /\ dialect' = dialect
      /\ IF op[q].id \in Ids(clusters) THEN Proceed(q, 200) ELSE Fail(q, 404)
  BY DEF DeleteCluster, CascadeSources, environment
<1>2. SourceTypes'
  BY <1>1 DEF TypeInv, SourceTypes
<1>3. CASE op[q].id \in Ids(clusters)
  <2>1. step'[q] = Follows(op[q].kind, step[q]) /\ reply'[q] = IF step'[q] = "done" THEN 200 ELSE 0
    BY <1>1, <1>3, Goes DEF TypeInv, RequestOK, At
  <2>2. reply'[q] = 200
    BY <1>1, <2>1 DEF At, Follows, Makers
  <2> QED BY <1>1, <1>2, <1>3, <2>2 DEF SourcesRemoved, At, Deleters
<1>4. CASE op[q].id \notin Ids(clusters)
  <2>1. sources' = sources /\ issued'.sources = issued.sources
    BY <1>1, <1>4 DEF TypeInv, Linked
  <2> QED BY <1>1, <2>1, SourcesStay DEF TypeInv
<1> QED BY <1>3, <1>4

LEMMA SourceInserted ==
  ASSUME TypeInv, NEW q \in Requests, InsertSource(q)
  PROVE  SourceTypes' /\ (SourcesEdited(q) \/ SourceAdded(q))
<1>1. PICK id \in NextId(sources, issued.sources), c \in found[q] :
        /\ issued' = [issued EXCEPT !.sources = IF dialect = "postgres" THEN id ELSE @]
        /\ IF op[q].id \notin Ids(clusters)
           THEN Fail(q, 500) /\ UNCHANGED <<sources, op>>
           ELSE /\ sources' = sources \union
                     {[id |-> id, cluster |-> op[q].id, values |-> [f \in Fields |-> q],
                       health |-> "none", by |-> q, of |-> c.by]}
                /\ op' = [op EXCEPT ![q].id = id]
                /\ Proceed(q, 201)
  BY DEF InsertSource
<1>2. At(q, "write", "create_source") /\ dialect' = dialect
  BY DEF InsertSource, environment
<1>3. dialect \in {"sqlite", "postgres"}
  BY RegistryAssumption DEF TypeInv, OtherTypes
<1>4. Fresh(id, sources, issued.sources)
  BY <1>3, NewId DEF TypeInv, SourceTypes, SourceRows
<1>5. issued'.sources = IF dialect = "sqlite" THEN issued.sources ELSE id
  BY <1>1, <1>3 DEF TypeInv, OtherTypes
<1>6. issued'.sources \in Nat /\ issued.sources <= issued'.sources
      /\ (dialect # "sqlite" => id <= issued'.sources)
  BY <1>4, <1>5 DEF TypeInv, SourceTypes, Fresh
<1>7. \A s \in sources : dialect # "sqlite" => s.id <= issued'.sources
  <2>1. \A s \in sources : s.id \in Nat /\ (dialect # "sqlite" => s.id <= issued.sources)
    BY DEF TypeInv, SourceTypes, SourceRows
  <2>2. issued.sources \in Nat
    BY DEF TypeInv, SourceTypes
  <2> QED BY <1>6, <2>1, <2>2
<1>8. CASE op[q].id \notin Ids(clusters)
  <2>1. sources' = sources
    BY <1>1, <1>8
  <2>2. SourceTypes'
    BY <1>2, <1>6, <1>7, <2>1 DEF TypeInv, SourceTypes
  <2>3. \A s \in sources : Edited(q, s, s) /\ SameSource(s, s)
    BY DEF Edited, SameSource
  <2> QED BY <1>6, <2>1, <2>2, <2>3 DEF SourcesEdited
<1>9. CASE op[q].id \in Ids(clusters)
  <2>1. op' = [op EXCEPT ![q].id = id] /\ Proceed(q, 201)
    BY <1>1, <1>9
  <2>2. op'[q].id = id
    BY <2>1 DEF TypeInv, RequestTypes, Operations
  <2>3. sources' = sources \union {NewSource(q, c)}
    BY <1>1, <1>9, <2>2 DEF NewSource
  <2>4. NewSource(q, c) \in SourceRows /\ NewSource(q, c).id = id
    <3>1. c.by \in Writers /\ q \in Writers
      BY <1>2 DEF TypeInv, RequestOK, FoundOK, ClusterRows, At, Writers
    <3>2. op[q].id \in Nat \ {0}
      BY <1>9 DEF Ids, TypeInv, ClusterTypes, ClusterRows
    <3>3. id \in Nat \ {0}
      BY <1>4 DEF Fresh
    <3> QED BY <2>2, <3>1, <3>2, <3>3 DEF NewSource, SourceRows
  <2>5. step'[q] = Follows(op[q].kind, step[q]) /\ reply'[q] = IF step'[q] = "done" THEN 201 ELSE 0
    BY <1>2, <2>1, Goes DEF TypeInv, RequestOK, At
  <2>6. step'[q] = "read" /\ reply'[q] = 0
    BY <1>2, <2>5 DEF At, Follows, Makers
  <2>7. \A s \in sources : s.id # NewSource(q, c).id
    BY <1>4, <2>4 DEF Fresh, Ids
  <2>8. SourceTypes'
    <3>1. sources' \subseteq SourceRows /\ \A r, s \in sources' : r.id = s.id => r = s
      BY <2>3, <2>4, <2>7 DEF TypeInv, SourceTypes
    <3>2. dialect' # "sqlite" => \A s \in sources' : s.id <= issued'.sources
      BY <1>2, <1>6, <1>7, <2>3, <2>4
    <3> QED BY <1>6, <3>1, <3>2 DEF SourceTypes
  <2>9. SourceAdded(q)
    BY <1>2, <1>4, <1>5, <1>9, <2>2, <2>3, <2>6 DEF SourceAdded
  <2> QED BY <2>8, <2>9
<1> QED BY <1>8, <1>9

LEMMA SourceStep ==
  ASSUME TypeInv, NEW q \in Requests, ActionOf(q)
  PROVE  SourceTypes' /\ (SourcesEdited(q) \/ SourceAdded(q) \/ SourcesRemoved(q))
<1>1. CASE InsertSource(q) \/ UpdateSource(q) \/ DeleteSource(q) \/ RecordHealth(q) \/ DeleteCluster(q)
  BY <1>1, SourceInserted, SourceUpdated, SourceDeleted, HealthRecorded, SourcesCascade
<1>2. CASE InsertCluster(q)
  <2>1. sources' = sources /\ dialect' = dialect
    BY <1>2 DEF InsertCluster, environment
  <2>2. issued'.sources = issued.sources
    BY <1>2 DEF InsertCluster, TypeInv, OtherTypes
  <2> QED BY <2>1, <2>2, SourcesStay DEF TypeInv
<1>3. CASE RecordStatus(q) \/ UpdateSettings(q) \/ FindName(q) \/ Find(q) \/ ReadBack(q)
           \/ Locked(q) \/ ProbeRaises(q) \/ ProbeCluster(q) \/ ProbeConnection(q) \/ ProbeSource(q)
  <2>1. sources' = sources /\ issued' = issued /\ dialect' = dialect
    BY <1>3 DEF RecordStatus, UpdateSettings, FindName, Find, ReadBack, Locked, ProbeRaises,
         ProbeCluster, ProbeConnection, ProbeSource, tables, environment
  <2> QED BY <2>1, SourcesStay DEF TypeInv
<1> QED BY <1>1, <1>2, <1>3 DEF ActionOf, Changes

-----------------------------------------------------------------------------
(***************************************************************************)
(* The type invariant.                                                     *)
(***************************************************************************)

LEMMA LinkedStep ==
  ASSUME TypeInv, NEW q \in Requests, ActionOf(q)
  PROVE  Linked'
<1>1. CASE DeleteCluster(q)
  BY <1>1 DEF DeleteCluster, CascadeSources, WithId, Ids, TypeInv, Linked
<1>2. CASE ~ DeleteCluster(q)
  <2>1. Ids(clusters) \subseteq Ids(clusters')
    <3>1. CASE ClustersEdited(q)
      <4>1. \A s \in clusters : \E t \in clusters' : t.id = s.id
        BY <3>1 DEF ClustersEdited, SameCluster
      <4> QED BY <4>1 DEF Ids
    <3>2. CASE ClusterAdded(q)
      BY <3>2 DEF ClusterAdded, Ids
    <3>3. ~ ClusterRemoved(q)
      BY <1>2 DEF ClusterRemoved
    <3> QED BY <3>1, <3>2, <3>3, ClusterStep
  <2>2. \A t \in sources' : t.cluster \in Ids(clusters)
    <3>1. CASE SourcesEdited(q)
      BY <3>1 DEF SourcesEdited, Edited, SameSource, TypeInv, Linked
    <3>2. CASE SourceAdded(q)
      <4>1. PICK c \in found[q] : sources' = sources \union {NewSource(q, c)}
        BY <3>2 DEF SourceAdded
      <4>2. NewSource(q, c).cluster = op[q].id /\ op[q].id \in Ids(clusters)
        BY <3>2 DEF NewSource, SourceAdded
      <4> QED BY <4>1, <4>2 DEF TypeInv, Linked
    <3>3. CASE SourcesRemoved(q)
      BY <3>3 DEF SourcesRemoved, TypeInv, Linked
    <3> QED BY <3>1, <3>2, <3>3, SourceStep
  <2> QED BY <2>1, <2>2 DEF Linked
<1> QED BY <1>1, <1>2

(* Whose step it is, goes on in its handler, with what it needs.           *)
LEMMA StepServed ==
  ASSUME NEW q \in Requests, StepOK(q), Serves(q)
  PROVE  StepOK(q)'
<1>1. op'[q].kind = op[q].kind
  BY DEF Serves, SameAsked
<1>2. step'[q] \in {"probe", "write", "read", "done"}
  BY DEF Serves, Moved, Follows
<1>3. step'[q] = "probe" => op[q].kind \in Testers
  BY DEF Serves, Moved, Follows, StepOK
<1>4. step'[q] = "write" => op[q].kind \in Makers \union Testers
  BY DEF Serves, Moved, Follows, StepOK
<1>5. step'[q] = "read" => op[q].kind \in Makers \union {"put_settings"}
  BY DEF Serves, Moved, Follows
<1>6. reply'[q] # 0 => step'[q] = "done"
  BY DEF Serves, Moved
<1>7. "test_connection" \notin Makers \union Testers
  BY DEF Makers, Testers
<1> QED BY <1>1, <1>2, <1>3, <1>4, <1>5, <1>6, <1>7 DEF StepOK

LEMMA OneRow ==
  ASSUME ClusterTypes, SourceTypes, NEW id
  PROVE  /\ WithId(clusters, id) # {} =>
              \E r \in ClusterRows : WithId(clusters, id) = {r} /\ r.id = id /\ r \in clusters
         /\ WithId(sources, id) # {} =>
              \E r \in SourceRows : WithId(sources, id) = {r} /\ r.id = id /\ r \in sources
<1>1. ASSUME NEW r \in WithId(clusters, id)
      PROVE  WithId(clusters, id) = {r} /\ r.id = id /\ r \in clusters /\ r \in ClusterRows
  BY <1>1 DEF WithId, ClusterTypes
<1>2. ASSUME NEW r \in WithId(sources, id)
      PROVE  WithId(sources, id) = {r} /\ r.id = id /\ r \in sources /\ r \in SourceRows
  BY <1>2 DEF WithId, SourceTypes
<1> QED BY <1>1, <1>2

LEMMA FoundServed ==
  ASSUME TypeInv, NEW q \in Requests, ActionOf(q), Serves(q)
  PROVE  FoundOK(q)' /\ SawOK(q)'
<1>1. op'[q].kind = op[q].kind
  BY DEF Serves, SameAsked
<1>2. CASE step'[q] \notin {"probe", "write"}
  BY <1>2 DEF FoundOK, SawOK
<1>3. CASE step'[q] \in {"probe", "write"} /\ step[q] = "find"
  <2>1. step'[q] = Follows(op[q].kind, "find")
    BY <1>3 DEF Serves, Moved
  <2>2. step'[q] = "write" => op[q].kind \in Makers
    BY <2>1 DEF Follows
  <2>3. SawOK(q)'
    BY <1>1, <2>2 DEF SawOK, Makers
  <2>4. FindName(q) \/ Find(q)
    BY <1>3 DEF ActionOf, Changes, At, ReadBack, Locked, ProbeRaises, ProbeCluster, ProbeConnection,
         ProbeSource, InsertCluster, InsertSource, DeleteCluster, RecordStatus, UpdateSource,
         DeleteSource, RecordHealth, UpdateSettings
  <2>5. CASE FindName(q)
    <3>1. op[q].kind = "create_cluster"
      BY <2>5 DEF FindName, At
    <3> QED BY <1>1, <2>3, <3>1 DEF FoundOK
  <2>6. CASE Find(q)
    <3>1. \E rows \in {clusters, sources} :
            /\ op[q].kind \in {"create_source", "test_cluster"} => rows = clusters
            /\ op[q].kind = "test_source" => rows = sources
            /\ found' = [found EXCEPT ![q] = WithId(rows, op[q].id)] /\ op' = op
            /\ WithId(rows, op[q].id) = {} => Fail(q, 404)
      BY <2>6 DEF Find
    <3>2. PICK rows \in {clusters, sources} :
            /\ op[q].kind \in {"create_source", "test_cluster"} => rows = clusters
            /\ op[q].kind = "test_source" => rows = sources
            /\ found'[q] = WithId(rows, op[q].id) /\ op' = op
            /\ WithId(rows, op[q].id) = {} => Fail(q, 404)
      BY <3>1 DEF TypeInv, RequestTypes
    <3>3. WithId(rows, op[q].id) # {}
      <4>1. ~ Fail(q, 404)
        BY <1>3, Stops DEF TypeInv
      <4> QED BY <3>2, <4>1
    <3>4. op[q].kind \in {"create_source", "test_cluster"} =>
            \E r \in ClusterRows : found'[q] = {r} /\ r.id = op[q].id
      <4> SUFFICES ASSUME op[q].kind \in {"create_source", "test_cluster"}
                   PROVE  \E r \in ClusterRows : found'[q] = {r} /\ r.id = op[q].id
        OBVIOUS
      <4>1. WithId(clusters, op[q].id) # {} /\ found'[q] = WithId(clusters, op[q].id)
        BY <3>2, <3>3
      <4>2. \E r \in ClusterRows : WithId(clusters, op[q].id) = {r} /\ r.id = op[q].id /\ r \in clusters
        BY <4>1, OneRow DEF TypeInv
      <4> QED BY <4>1, <4>2
    <3>5. op[q].kind = "test_source" =>
            \E r \in SourceRows : found'[q] = {r} /\ r.id = op[q].id
      <4> SUFFICES ASSUME op[q].kind = "test_source"
                   PROVE  \E r \in SourceRows : found'[q] = {r} /\ r.id = op[q].id
        OBVIOUS
      <4>1. WithId(sources, op[q].id) # {} /\ found'[q] = WithId(sources, op[q].id)
        BY <3>2, <3>3
      <4>2. \E r \in SourceRows : WithId(sources, op[q].id) = {r} /\ r.id = op[q].id /\ r \in sources
        BY <4>1, OneRow DEF TypeInv
      <4> QED BY <4>1, <4>2
    <3> QED BY <2>3, <3>2, <3>4, <3>5 DEF FoundOK
  <2> QED BY <2>4, <2>5, <2>6
<1>4. CASE step'[q] \in {"probe", "write"} /\ step[q] # "find"
  <2>1. step[q] = "probe" /\ step'[q] = "write"
    BY <1>4 DEF Serves, Moved, Follows
  <2>6. ~ Fail(q, 500)
    BY <2>1, Stops DEF TypeInv
  <2>2. ProbeCluster(q) \/ ProbeConnection(q) \/ ProbeSource(q)
    BY <2>1, <2>6 DEF ActionOf, Changes, At, FindName, Find, ReadBack, Locked, ProbeRaises, InsertCluster,
         InsertSource, DeleteCluster, RecordStatus, UpdateSource, DeleteSource,
         RecordHealth, UpdateSettings
  <2>3. op' = op /\ found' = found
    BY <2>2 DEF ProbeCluster, ProbeConnection, ProbeSource
  <2>4. FoundOK(q)'
    BY <2>1, <2>3 DEF FoundOK, TypeInv, RequestOK
  <2>5. /\ op[q].kind = "test_cluster" => saw'[q] \in {"reachable", "unreachable"}
        /\ op[q].kind = "test_source" => saw'[q] \in {"unknown", "healthy", "unreachable"}
    BY <2>2 DEF ProbeCluster, ProbeConnection, ProbeSource, KubeProbe, At, TypeInv, RequestTypes
  <2> QED BY <2>3, <2>4, <2>5 DEF SawOK
<1> QED BY <1>2, <1>3, <1>4

LEMMA OthersOK ==
  ASSUME NEW q \in Requests, Others(q), \A p \in Requests : RequestOK(p), RequestOK(q)'
  PROVE  (\A p \in Requests : RequestOK(p))'
<1> SUFFICES ASSUME NEW p \in Requests \ {q} PROVE RequestOK(p)'
  OBVIOUS
<1>1. /\ op'[p] = op[p] /\ step'[p] = step[p] /\ found'[p] = found[p]
      /\ saw'[p] = saw[p] /\ reply'[p] = reply[p]
  BY DEF Others
<1>2. StepOK(p) /\ FoundOK(p) /\ SawOK(p)
  BY DEF RequestOK
<1>3. StepOK(p)'
  BY <1>1, <1>2 DEF StepOK
<1>4. FoundOK(p)' /\ SawOK(p)'
  BY <1>1, <1>2 DEF FoundOK, SawOK
<1> QED BY <1>3, <1>4 DEF RequestOK

LEMMA ActionServes ==
  ASSUME TypeInv, NEW q \in Requests, ActionOf(q)
  PROVE  Serves(q) /\ RequestTypes'
BY ServesReads, ServesProbes, ServesChanges, ServesInserts DEF ActionOf

LEMMA OtherTypesStep ==
  ASSUME TypeInv, NEW q \in Requests, ActionOf(q)
  PROVE  OtherTypes'
<1>1. UNCHANGED environment
  BY ActionServes DEF Serves
<1>2. settings' \in [Fields -> Writers]
  <2>1. CASE UpdateSettings(q)
    BY <2>1 DEF UpdateSettings, WithGiven, Writers, TypeInv, OtherTypes
  <2>2. CASE ~ UpdateSettings(q)
    <3>1. settings' = settings
      BY <2>2 DEF ActionOf, Changes, FindName, Find, ReadBack, Locked, ProbeRaises, ProbeCluster,
           ProbeConnection, ProbeSource, InsertCluster, InsertSource, DeleteCluster,
           RecordStatus, UpdateSource, DeleteSource, RecordHealth, tables
    <3> QED BY <3>1 DEF TypeInv, OtherTypes
  <2> QED BY <2>1, <2>2
<1>3. issued' \in [clusters : Nat, sources : Nat]
  <2>1. issued'.clusters \in Nat /\ issued'.sources \in Nat
    BY ClusterStep, SourceStep DEF ClusterTypes, SourceTypes
  <2>2. \E f : issued' = [clusters |-> issued'.clusters, sources |-> issued'.sources]
    <3>1. issued \in [clusters : Nat, sources : Nat]
      BY DEF TypeInv, OtherTypes
    <3>2. \/ issued' = issued
          \/ \E id : issued' = [issued EXCEPT !.clusters = id]
          \/ \E id : issued' = [issued EXCEPT !.sources = id]
      <4>1. CASE InsertCluster(q)
        BY <4>1 DEF InsertCluster
      <4>2. CASE InsertSource(q)
        BY <4>2 DEF InsertSource
      <4>3. CASE ~ (InsertCluster(q) \/ InsertSource(q))
        BY <4>3 DEF ActionOf, Changes, FindName, Find, ReadBack, Locked, ProbeRaises, ProbeCluster,
           ProbeConnection, ProbeSource, DeleteCluster,
           RecordStatus, UpdateSource, DeleteSource, RecordHealth, UpdateSettings, tables
      <4> QED BY <4>1, <4>2, <4>3
    <3> QED BY <3>1, <3>2
  <2> QED BY <2>1, <2>2
<1> QED BY <1>1, <1>2, <1>3 DEF OtherTypes, environment, TypeInv

LEMMA TypeStep ==
  ASSUME TypeInv, NEW q \in Requests, ActionOf(q)
  PROVE  TypeInv'
<1>1. Serves(q) /\ RequestTypes' /\ OtherTypes' /\ Linked'
  BY ActionServes, OtherTypesStep, LinkedStep
<1>2. ClusterTypes' /\ SourceTypes'
  BY ClusterStep, SourceStep
<1>3. RequestOK(q)'
  BY <1>1, StepServed, FoundServed DEF TypeInv, RequestOK
<1>4. (\A p \in Requests : RequestOK(p))'
  BY <1>1, <1>3, OthersOK DEF TypeInv, Serves
<1> QED BY <1>1, <1>2, <1>4 DEF TypeInv

LEMMA TypeStart == Init => TypeInv
<1> SUFFICES ASSUME Init PROVE TypeInv
  OBVIOUS
<1>1. AnyName \in Names
  BY RegistryAssumption DEF AnyName
<1>2. PICK c \in Configs :
        clusters = {[id |-> 1, name |-> AnyName, config |-> c, status |-> "unknown", by |-> Seed]}
  BY DEF Init
<1>3. c \in AllConfigs /\ Seed \in Writers
  BY RegistryAssumption DEF Writers
<1>4. issued.clusters = 1 /\ issued.sources = 1
  BY DEF Init
<1>5. ClusterTypes
  BY <1>1, <1>2, <1>3, <1>4 DEF ClusterTypes, ClusterRows
<1>6. sources = {[id |-> 1, cluster |-> 1, values |-> [f \in Fields |-> Seed],
                  health |-> "none", by |-> Seed, of |-> Seed]}
  BY DEF Init
<1>7. SourceTypes
  BY <1>3, <1>4, <1>6 DEF SourceTypes, SourceRows
<1>8. Linked
  BY <1>2, <1>6 DEF Linked, Ids
<1>9. OtherTypes
  BY <1>3 DEF Init, OtherTypes
<1>10. RequestTypes
  <2>1. NoConfig \in AllConfigs /\ "put_settings" \in Kinds
    BY DEF NoConfig, AllConfigs, Kinds
  <2>2. [kind |-> "put_settings", id |-> 0, name |-> AnyName, config |-> NoConfig,
         given |-> {}] \in Operations
    BY <1>1, <2>1 DEF Operations
  <2>3. op \in [Requests -> Operations]
    BY <2>2 DEF Init
  <2> QED BY <2>3 DEF Init, RequestTypes, Steps, Replies
<1>11. \A q \in Requests : step[q] = "idle" /\ reply[q] = 0 /\ saw[q] = "unknown"
  BY DEF Init
<1>12. \A q \in Requests : RequestOK(q)
  BY <1>11 DEF RequestOK, StepOK, FoundOK, SawOK
<1> QED BY <1>5, <1>7, <1>8, <1>9, <1>10, <1>12 DEF TypeInv

(* A request comes in. *)
Comes(q) ==
  /\ step[q] = "idle" /\ step'[q] \in {"write", "probe", "find"}
  /\ step'[q] = "find" => op'[q].kind \in Makers \union Testers
  /\ step'[q] = "probe" => op'[q].kind = "test_connection"
  /\ step'[q] = "write" => op'[q].kind \in Deleters \union {"put_settings"}
  /\ saw[q] = "unknown" /\ reply[q] = 0
  /\ UNCHANGED <<environment, tables, found, saw, reply, asked>>

LEMMA Asks ==
  ASSUME TypeInv, NEW q \in Requests, Ask(q)
  PROVE  TypeInv' /\ Others(q) /\ Comes(q)
<1>1. RequestTypes /\ RequestOK(q)
  BY DEF TypeInv
<1>2. PICK k \in kinds, n \in Names, c \in Configs, g \in SUBSET Fields,
           id \in Ids(clusters) \union Ids(sources) \union {0} :
       /\ k # "create_cluster" => n = AnyName
       /\ k \notin {"create_cluster", "test_connection"} => c = NoConfig
       /\ k \notin {"update_source", "put_settings"} => g = {}
       /\ id = 0 <=> k \in {"create_cluster", "test_connection", "put_settings"}
       /\ op' = [op EXCEPT ![q] = [kind |-> k, id |-> id, name |-> n,
                                   config |-> c, given |-> g]]
       /\ step' = [step EXCEPT ![q] = First(k)]
  BY DEF Ask
<1>3. k \in Kinds /\ c \in AllConfigs
  <2>1. kinds \in Mixes
    BY DEF TypeInv, OtherTypes
  <2>2. Mixes \subseteq SUBSET Kinds /\ Configs \subseteq AllConfigs
    BY RegistryAssumption
  <2> QED BY <2>1, <2>2
<1>4. id \in Nat
  BY DEF Ids, TypeInv, ClusterTypes, SourceTypes, ClusterRows, SourceRows
<1>5. [kind |-> k, id |-> id, name |-> n, config |-> c, given |-> g] \in Operations
  BY <1>3, <1>4 DEF Operations
<1>6. /\ op' \in [Requests -> Operations] /\ op'[q].kind = k
      /\ \A p \in Requests \ {q} : op'[p] = op[p]
  BY <1>1, <1>2, <1>5 DEF RequestTypes
<1>7. /\ First(k) \in {"write", "probe", "find"}
      /\ First(k) = "find" => k \in Makers \union Testers
      /\ First(k) = "probe" => k = "test_connection"
      /\ First(k) = "write" => k \in Deleters \union {"put_settings"}
  BY <1>3 DEF First, Kinds, Makers, Testers, Deleters
<1>8. /\ step' \in [Requests -> Steps] /\ step'[q] = First(k)
      /\ \A p \in Requests \ {q} : step'[p] = step[p]
  BY <1>1, <1>2, <1>7 DEF RequestTypes, Steps
<1>9. step[q] = "idle" /\ UNCHANGED <<environment, tables, found, saw, reply, asked>>
  BY DEF Ask
<1>10. saw[q] = "unknown" /\ reply[q] = 0
  BY <1>1, <1>9 DEF RequestOK, StepOK
<1>11. Comes(q)
  BY <1>6, <1>7, <1>8, <1>9, <1>10 DEF Comes
<1>12. Others(q)
  BY <1>6, <1>8, <1>9 DEF Others
<1>13. RequestOK(q)'
  <2>1. StepOK(q)'
    BY <1>11 DEF Comes, StepOK, Deleters
  <2>2. FoundOK(q)' /\ SawOK(q)'
    BY <1>11 DEF Comes, FoundOK, SawOK, Deleters, Testers
  <2> QED BY <2>1, <2>2 DEF RequestOK
<1>14. (\A p \in Requests : RequestOK(p))'
  BY <1>12, <1>13, OthersOK DEF TypeInv
<1>15. RequestTypes'
  BY <1>1, <1>6, <1>8, <1>9 DEF RequestTypes
<1>16. ClusterTypes' /\ SourceTypes' /\ Linked'
  BY <1>9 DEF tables, environment, TypeInv, ClusterTypes, SourceTypes, Linked, Ids
<1>17. OtherTypes'
  BY <1>9 DEF tables, environment, TypeInv, OtherTypes
<1> QED BY <1>11, <1>12, <1>14, <1>15, <1>16, <1>17 DEF TypeInv

LEMMA NextIs ==
  ASSUME Next
  PROVE  \E q \in Requests : Ask(q) \/ ActionOf(q)
BY DEF Next, ActionOf, Changes

LEMMA TypeNext == TypeInv /\ [Next]_vars => TypeInv'
<1> SUFFICES ASSUME TypeInv, [Next]_vars PROVE TypeInv'
  OBVIOUS
<1>1. CASE Next
  BY <1>1, NextIs, Asks, TypeStep
<1>2. CASE UNCHANGED vars
  <2>1. RequestTypes' /\ ClusterTypes' /\ SourceTypes' /\ OtherTypes' /\ Linked'
    BY <1>2 DEF vars, tables, environment, TypeInv, RequestTypes, ClusterTypes, SourceTypes,
         OtherTypes, Linked, Ids
  <2>2. \A q \in Requests : StepOK(q)' /\ FoundOK(q)' /\ SawOK(q)'
    BY <1>2 DEF vars, TypeInv, RequestOK, StepOK, FoundOK, SawOK
  <2> QED BY <2>1, <2>2 DEF TypeInv, RequestOK
<1> QED BY <1>1, <1>2

LEMMA TypeHolds == Spec => []TypeInv
BY TypeStart, TypeNext, PTL DEF Spec

(* A request is always at a statement of its handler, with what the        *)
(* statement needs; no two rows of a table share an id.                    *)
THEOREM TypeCorrect == Spec => []TypeOK
BY TypeHolds, TypesAreOK, PTL

-----------------------------------------------------------------------------
(***************************************************************************)
(* Whose an id is.                                                         *)
(***************************************************************************)

(* The id is that of a row of "who", or nobody's, or sqlite may have given *)
(* it to another.                                                          *)
OwnsCluster(id, who, config) ==
  \/ MayReuse("delete_cluster")
  \/ /\ \A r \in clusters : r.id = id => r.by = who /\ r.config = config
     /\ IF dialect = "sqlite" THEN id \in Ids(clusters) ELSE id <= issued.clusters

OwnsSource(id, who) ==
  \/ MayReuse("delete_source")
  \/ /\ \A s \in sources : s.id = id => s.by = who
     /\ IF dialect = "sqlite" THEN id \in Ids(sources) ELSE id <= issued.sources

Acts(q) == Ask(q) \/ ActionOf(q)

(* What is known of every step. *)
LEMMA StepIs ==
  ASSUME TypeInv, NEW q \in Requests, Acts(q)
  PROVE  /\ TypeInv' /\ Others(q) /\ step[q] # "done" /\ dialect' = dialect
         /\ asked \subseteq asked'
         /\ ClustersEdited(q) \/ ClusterAdded(q) \/ ClusterRemoved(q)
         /\ SourcesEdited(q) \/ SourceAdded(q) \/ SourcesRemoved(q)
         /\ step[q] # "idle" => SameAsked(q)
<1>1. CASE Ask(q)
  <2>1. TypeInv' /\ Others(q) /\ Comes(q)
    BY <1>1, Asks
  <2>2. /\ clusters' = clusters /\ sources' = sources /\ issued' = issued
        /\ dialect' = dialect /\ asked' = asked /\ step[q] = "idle"
    BY <2>1 DEF Comes, tables, environment
  <2>3. ClustersEdited(q) /\ SourcesEdited(q)
    BY <2>2, ClustersStay, SourcesStay DEF TypeInv
  <2> QED BY <2>1, <2>2, <2>3
<1>2. CASE ActionOf(q)
  BY <1>2, TypeStep, ActionServes, ClusterStep, SourceStep DEF Serves, environment
<1> QED BY <1>1, <1>2 DEF Acts

LEMMA ReuseKept ==
  ASSUME TypeInv, NEW q \in Requests, Acts(q), NEW k, MayReuse(k)
  PROVE  MayReuse(k)'
<1>1. PICK p \in Requests : op[p].kind \in {"delete_cluster", k} /\ reply[p] = 200
  BY DEF MayReuse
<1>2. step[p] = "done"
  <2>1. StepOK(p)
    BY DEF TypeInv, RequestOK
  <2>2. reply[p] = 200
    BY <1>1
  <2>3. reply[p] # 0
    BY <2>2
  <2> QED BY <2>1, <2>3 DEF StepOK
<1>3. op'[p] = op[p] /\ reply'[p] = reply[p] /\ dialect' = dialect
  <2>1. Others(q) /\ step[q] # "done" /\ dialect' = dialect
    BY StepIs
  <2> QED BY <1>2, <2>1 DEF Others
<1>4. op'[p].kind \in {"delete_cluster", k} /\ reply'[p] = 200
  BY <1>1, <1>3
<1>5. dialect' = "sqlite"
  BY <1>3 DEF MayReuse
<1>6. \E r \in Requests : op'[r].kind \in {"delete_cluster", k} /\ reply'[r] = 200
  BY <1>1, <1>4
<1> QED BY <1>5, <1>6 DEF MayReuse

LEMMA OwnsClusterKept ==
  ASSUME TypeInv, NEW q \in Requests, Acts(q), NEW id \in Nat, NEW who, NEW config,
         OwnsCluster(id, who, config)
  PROVE  OwnsCluster(id, who, config)'
<1>1. CASE MayReuse("delete_cluster")
  BY <1>1, ReuseKept DEF OwnsCluster
<1>2. CASE /\ \A r \in clusters : r.id = id => r.by = who /\ r.config = config
           /\ IF dialect = "sqlite" THEN id \in Ids(clusters) ELSE id <= issued.clusters
  <2>1. dialect' = dialect /\ issued.clusters \in Nat /\ issued'.clusters \in Nat
    BY StepIs DEF TypeInv, ClusterTypes
  <2>2. CASE ClustersEdited(q)
    <3>1. \A r \in clusters' : \E s \in clusters : SameCluster(r, s)
      BY <2>2 DEF ClustersEdited
    <3>2. \A r \in clusters' : r.id = id => r.by = who /\ r.config = config
      BY <1>2, <3>1 DEF SameCluster
    <3>3. id \in Ids(clusters) => id \in Ids(clusters')
      <4>1. \A s \in clusters : \E r \in clusters' : r.id = s.id
        BY <2>2 DEF ClustersEdited, SameCluster
      <4> QED BY <4>1 DEF Ids
    <3>4. id <= issued.clusters => id <= issued'.clusters
      <4>1. issued.clusters <= issued'.clusters
        BY <2>2 DEF ClustersEdited
      <4> QED BY <2>1, <4>1
    <3> QED BY <1>2, <2>1, <3>2, <3>3, <3>4 DEF OwnsCluster
  <2>3. CASE ClusterAdded(q)
    <3>1. PICK row : row.id = op'[q].id /\ clusters' = clusters \union {row}
      BY <2>3 DEF ClusterAdded
    <3>2. Fresh(row.id, clusters, issued.clusters)
          /\ issued'.clusters = IF dialect = "sqlite" THEN issued.clusters ELSE row.id
      BY <2>3, <3>1 DEF ClusterAdded
    <3>3. row.id # id
      BY <1>2, <2>1, <3>2 DEF Fresh
    <3>4. \A r \in clusters' : r.id = id => r.by = who /\ r.config = config
      BY <1>2, <3>1, <3>3
    <3>5. id \in Ids(clusters) => id \in Ids(clusters')
      BY <3>1 DEF Ids
    <3>6. id <= issued.clusters => id <= issued'.clusters
      BY <2>1, <3>2 DEF Fresh
    <3> QED BY <1>2, <2>1, <3>4, <3>5, <3>6 DEF OwnsCluster
  <2>4. CASE ClusterRemoved(q)
    <3>1. clusters' \subseteq clusters /\ issued'.clusters = issued.clusters
      BY <2>4 DEF ClusterRemoved
    <3>2. reply'[q] = 200 /\ op'[q].kind = "delete_cluster"
      BY <2>4, StepIs DEF ClusterRemoved, At, SameAsked
    <3>3. dialect = "sqlite" => MayReuse("delete_cluster")'
      BY <2>1, <3>2 DEF MayReuse
    <3> QED BY <1>2, <2>1, <3>1, <3>3 DEF OwnsCluster
  <2> QED BY <2>2, <2>3, <2>4, StepIs
<1> QED BY <1>1, <1>2 DEF OwnsCluster

LEMMA OwnsSourceKept ==
  ASSUME TypeInv, NEW q \in Requests, Acts(q), NEW id \in Nat, NEW who, OwnsSource(id, who)
  PROVE  OwnsSource(id, who)'
<1>1. CASE MayReuse("delete_source")
  BY <1>1, ReuseKept DEF OwnsSource
<1>2. CASE /\ \A s \in sources : s.id = id => s.by = who
           /\ IF dialect = "sqlite" THEN id \in Ids(sources) ELSE id <= issued.sources
  <2>1. dialect' = dialect /\ issued.sources \in Nat /\ issued'.sources \in Nat
    BY StepIs DEF TypeInv, SourceTypes
  <2>2. CASE SourcesEdited(q)
    <3>1. \A t \in sources' : \E s \in sources : SameSource(t, s)
      BY <2>2 DEF SourcesEdited, Edited
    <3>2. \A t \in sources' : t.id = id => t.by = who
      BY <1>2, <3>1 DEF SameSource
    <3>3. id \in Ids(sources) => id \in Ids(sources')
      <4>1. \A s \in sources : \E t \in sources' : t.id = s.id
        BY <2>2 DEF SourcesEdited, SameSource
      <4> QED BY <4>1 DEF Ids
    <3>4. id <= issued.sources => id <= issued'.sources
      <4>1. issued.sources <= issued'.sources
        BY <2>2 DEF SourcesEdited
      <4> QED BY <2>1, <4>1
    <3> QED BY <1>2, <2>1, <3>2, <3>3, <3>4 DEF OwnsSource
  <2>3. CASE SourceAdded(q)
    <3>1. PICK row : row.id = op'[q].id /\ sources' = sources \union {row}
      BY <2>3 DEF SourceAdded, NewSource
    <3>2. Fresh(row.id, sources, issued.sources)
          /\ issued'.sources = IF dialect = "sqlite" THEN issued.sources ELSE row.id
      BY <2>3, <3>1 DEF SourceAdded
    <3>3. row.id # id
      BY <1>2, <2>1, <3>2 DEF Fresh
    <3>4. \A t \in sources' : t.id = id => t.by = who
      BY <1>2, <3>1, <3>3
    <3>5. id \in Ids(sources) => id \in Ids(sources')
      BY <3>1 DEF Ids
    <3>6. id <= issued.sources => id <= issued'.sources
      BY <2>1, <3>2 DEF Fresh
    <3> QED BY <1>2, <2>1, <3>4, <3>5, <3>6 DEF OwnsSource
  <2>4. CASE SourcesRemoved(q)
    <3>1. sources' \subseteq sources /\ issued'.sources = issued.sources
      BY <2>4 DEF SourcesRemoved
    <3>2. reply'[q] = 200 /\ op'[q].kind \in {"delete_cluster", "delete_source"}
      BY <2>4, StepIs DEF SourcesRemoved, Deleters, SameAsked
    <3>3. dialect = "sqlite" => MayReuse("delete_source")'
      BY <2>1, <3>2 DEF MayReuse
    <3> QED BY <1>2, <2>1, <3>1, <3>3 DEF OwnsSource
  <2> QED BY <2>2, <2>3, <2>4, StepIs
<1> QED BY <1>1, <1>2 DEF OwnsSource

(* Which actions a statement of a handler may be.                          *)
LEMMA ActionAt ==
  ASSUME NEW q \in Requests, ActionOf(q)
  PROVE  /\ step[q] = "read" => ReadBack(q)
         /\ step[q] = "find" /\ op[q].kind = "create_cluster" => FindName(q)
         /\ step[q] = "find" /\ op[q].kind # "create_cluster" => Find(q)
         /\ step[q] = "probe" => ProbeCluster(q) \/ ProbeConnection(q) \/ ProbeSource(q)
                                  \/ ProbeRaises(q)
         /\ step[q] = "write" /\ op[q].kind = "create_cluster" => InsertCluster(q) \/ Locked(q)
         /\ step[q] = "write" /\ op[q].kind = "create_source" => InsertSource(q) \/ Locked(q)
<1> USE DEF ActionOf, Changes, At, FindName, Find, ReadBack, Locked, ProbeRaises, ProbeCluster,
            ProbeConnection, ProbeSource, InsertCluster, InsertSource, DeleteCluster,
            RecordStatus, UpdateSource, DeleteSource, RecordHealth, UpdateSettings
<1>1. step[q] = "read" => ReadBack(q)
  OBVIOUS
<1>2. step[q] = "find" /\ op[q].kind = "create_cluster" => FindName(q)
  OBVIOUS
<1>3. step[q] = "find" /\ op[q].kind # "create_cluster" => Find(q)
  OBVIOUS
<1>4. step[q] = "probe" => ProbeCluster(q) \/ ProbeConnection(q) \/ ProbeSource(q)
                              \/ ProbeRaises(q)
  OBVIOUS
<1>5. step[q] = "write" /\ op[q].kind = "create_cluster" => InsertCluster(q) \/ Locked(q)
  OBVIOUS
<1>6. step[q] = "write" /\ op[q].kind = "create_source" => InsertSource(q) \/ Locked(q)
  OBVIOUS
<1> QED BY <1>1, <1>2, <1>3, <1>4, <1>5, <1>6 DEF ActionOf

-----------------------------------------------------------------------------
(***************************************************************************)
(* Names.                                                                  *)
(***************************************************************************)

NamesUnique == \A r, s \in clusters : r.name = s.name => r = s

(* A row is of one request, which knows its id and goes on to a 201.       *)
MadeBy(r) ==
  r.by \in Requests =>
    /\ op[r.by].kind = "create_cluster" /\ step[r.by] \in Settled
    /\ step[r.by] = "done" => reply[r.by] = 201
    /\ r.id = op[r.by].id /\ r.config = op[r.by].config

(* What a request that makes a cluster reads back is its own.              *)
CreatorOK(q) ==
  op[q].kind = "create_cluster" =>
    /\ step[q] = "read" => OwnsCluster(op[q].id, q, op[q].config)
    /\ reply[q] = 201 =>
         \/ MayReuse("delete_cluster")
         \/ \A r \in found[q] : r.by = q /\ r.id = op[q].id /\ r.config = op[q].config

WinnerInv == NamesUnique /\ (\A r \in clusters : MadeBy(r)) /\ \A q \in Requests : CreatorOK(q)

LEMMA NamesStep ==
  ASSUME TypeInv, NEW q \in Requests, Acts(q), NamesUnique
  PROVE  NamesUnique'
<1>1. CASE ClustersEdited(q)
  <2> SUFFICES ASSUME NEW r \in clusters', NEW s \in clusters', r.name = s.name PROVE r = s
    BY DEF NamesUnique
  <2>1. PICK t \in clusters : SameCluster(r, t)
    BY <1>1 DEF ClustersEdited
  <2>2. PICK u \in clusters : SameCluster(s, u)
    BY <1>1 DEF ClustersEdited
  <2>3. t = u
    BY <2>1, <2>2 DEF SameCluster, NamesUnique
  <2>4. r.id = s.id
    BY <2>1, <2>2, <2>3 DEF SameCluster
  <2> QED BY <2>4, StepIs DEF TypeInv, ClusterTypes
<1>2. CASE ClusterAdded(q)
  <2>1. PICK row : row.name = op[q].name /\ clusters' = clusters \union {row}
    BY <1>2 DEF ClusterAdded
  <2>2. \A r \in clusters : r.name # row.name
    BY <1>2, <2>1 DEF ClusterAdded, Taken
  <2> QED BY <2>1, <2>2 DEF NamesUnique
<1>3. CASE ClusterRemoved(q)
  <2>1. clusters' \subseteq clusters
    BY <1>3 DEF ClusterRemoved
  <2> QED BY <2>1 DEF NamesUnique
<1> QED BY <1>1, <1>2, <1>3, StepIs

(* What a request has settled, its last statement leaves so.               *)
LEMMA MadeByStays ==
  ASSUME TypeInv, NEW q \in Requests, Acts(q), NEW r, NEW s \in clusters, SameCluster(r, s),
         MadeBy(s)
  PROVE  MadeBy(r)'
<1> SUFFICES ASSUME r.by \in Requests
             PROVE  /\ op'[r.by].kind = "create_cluster" /\ step'[r.by] \in Settled
                    /\ step'[r.by] = "done" => reply'[r.by] = 201
                    /\ r.id = op'[r.by].id /\ r.config = op'[r.by].config
  BY DEF MadeBy
<1> DEFINE p == r.by
<1>1. /\ op[p].kind = "create_cluster" /\ step[p] \in Settled
      /\ step[p] = "done" => reply[p] = 201
      /\ r.id = op[p].id /\ r.config = op[p].config
  BY DEF MadeBy, SameCluster
<1> HIDE DEF p
<1>2. p \in Requests
  BY DEF p
<1>3. CASE p # q
  <2>1. op'[p] = op[p] /\ step'[p] = step[p] /\ reply'[p] = reply[p]
    BY <1>2, <1>3, StepIs DEF Others
  <2> QED BY <1>1, <2>1 DEF p
<1>4. CASE p = q
  <2>1. step[q] = "read"
    BY <1>1, <1>4, StepIs DEF Settled
  <2>2. ActionOf(q)
    BY <2>1 DEF Acts, Ask
  <2>3. ReadBack(q)
    BY <2>1, <2>2, ActionAt
  <2>7. Written(q) # {} /\ op[q].kind = "create_cluster"
    <3>1. s.id = op[q].id
      BY <1>1, <1>4 DEF SameCluster, p
    <3> QED BY <1>1, <1>4, <3>1 DEF Written, WithId
  <2>4. op' = op /\ Proceed(q, 201)
    BY <2>3, <2>7 DEF ReadBack
  <2>5. step'[q] = Follows(op[q].kind, step[q]) /\ reply'[q] = IF step'[q] = "done" THEN 201 ELSE 0
    BY <2>1, <2>4, Goes DEF TypeInv, RequestOK
  <2>6. step'[q] = "done" /\ reply'[q] = 201
    BY <2>1, <2>5 DEF Follows
  <2> QED BY <1>1, <1>4, <2>4, <2>6 DEF p, Settled
<1> QED BY <1>3, <1>4

LEMMA MadeByStep ==
  ASSUME TypeInv, NEW q \in Requests, Acts(q), \A r \in clusters : MadeBy(r)
  PROVE  (\A r \in clusters : MadeBy(r))'
<1> SUFFICES ASSUME NEW r \in clusters' PROVE MadeBy(r)'
  OBVIOUS
<1>1. CASE \E s \in clusters : SameCluster(r, s)
  BY <1>1, MadeByStays
<1>2. CASE ClusterAdded(q) /\ r \notin clusters
  <2>1. r = [id |-> op'[q].id, name |-> op[q].name, config |-> op[q].config,
             status |-> "unknown", by |-> q]
    BY <1>2 DEF ClusterAdded
  <2>2. step[q] = "write" /\ op[q].kind = "create_cluster" /\ step'[q] = "read"
    BY <1>2 DEF ClusterAdded, At
  <2>3. op'[q].kind = op[q].kind /\ op'[q].config = op[q].config
    BY <2>2, StepIs DEF SameAsked
  <2>4. r.by = q /\ r.id = op'[q].id /\ r.config = op'[q].config
    BY <2>1, <2>3
  <2> QED BY <2>2, <2>3, <2>4 DEF MadeBy, Settled
<1>3. \A s \in clusters : SameCluster(s, s)
  BY DEF SameCluster
<1>4. CASE ClustersEdited(q)
  BY <1>1, <1>4 DEF ClustersEdited
<1>5. CASE ClusterAdded(q)
  BY <1>1, <1>2, <1>3, <1>5
<1>6. CASE ClusterRemoved(q)
  <2>1. clusters' \subseteq clusters
    BY <1>6 DEF ClusterRemoved
  <2> QED BY <1>1, <1>3, <2>1
<1> QED BY <1>4, <1>5, <1>6, StepIs

LEMMA CreatorOthers ==
  ASSUME TypeInv, NEW q \in Requests, Acts(q), NEW p \in Requests \ {q}, CreatorOK(p)
  PROVE  CreatorOK(p)'
<1>1. op'[p] = op[p] /\ step'[p] = step[p] /\ reply'[p] = reply[p] /\ found'[p] = found[p]
  BY StepIs DEF Others
<1>2. op[p].id \in Nat
  BY DEF TypeInv, RequestTypes, Operations
<1>3. OwnsCluster(op[p].id, p, op[p].config) => OwnsCluster(op[p].id, p, op[p].config)'
  BY <1>1, <1>2, OwnsClusterKept
<1>4. MayReuse("delete_cluster") => MayReuse("delete_cluster")'
  BY ReuseKept
<1>5. op[p].kind = "create_cluster" /\ step'[p] = "read" => OwnsCluster(op[p].id, p, op[p].config)'
  BY <1>1, <1>3 DEF CreatorOK
<1>6. op[p].kind = "create_cluster" /\ reply'[p] = 201 =>
        \/ MayReuse("delete_cluster")'
        \/ \A r \in found'[p] : r.by = p /\ r.id = op'[p].id /\ r.config = op'[p].config
  <2> SUFFICES ASSUME op[p].kind = "create_cluster", reply[p] = 201, ~ MayReuse("delete_cluster")
               PROVE  \A r \in found[p] : r.by = p /\ r.id = op[p].id /\ r.config = op[p].config
    BY <1>1, <1>4
  <2> QED BY DEF CreatorOK
<1> QED BY <1>1, <1>5, <1>6 DEF CreatorOK

LEMMA CreatorServed ==
  ASSUME TypeInv, NEW q \in Requests, ActionOf(q), CreatorOK(q)
  PROVE  CreatorOK(q)'
<1>1. Serves(q) /\ TypeInv'
  BY ActionServes, TypeStep
<1>2. op'[q].kind = op[q].kind /\ op'[q].config = op[q].config
  BY <1>1 DEF Serves, SameAsked
<1> SUFFICES ASSUME op[q].kind = "create_cluster" PROVE CreatorOK(q)'
  BY <1>2 DEF CreatorOK
<1>3. step[q] \in {"find", "write", "read"}
  BY <1>1 DEF Serves, TypeInv, RequestOK, StepOK, Testers
<1>4. CASE step[q] = "find"
  <2>1. FindName(q)
    BY <1>4, ActionAt
  <2>2. step'[q] \in {"write", "done"} /\ reply'[q] # 201
    <3>1. Proceed(q, 201) \/ Fail(q, 409)
      BY <2>1 DEF FindName
    <3>2. CASE Proceed(q, 201)
      <4>1. step'[q] = Follows(op[q].kind, step[q])
            /\ reply'[q] = IF step'[q] = "done" THEN 201 ELSE 0
        BY <1>4, <3>2, Goes DEF TypeInv, RequestOK
      <4> QED BY <1>4, <4>1 DEF Follows, Makers
    <3>3. CASE Fail(q, 409)
      BY <3>3, Stops DEF TypeInv
    <3> QED BY <3>1, <3>2, <3>3
  <2> QED BY <2>2 DEF CreatorOK
<1>5. CASE step[q] = "write"
  <2>1. InsertCluster(q) \/ Locked(q)
    BY <1>5, ActionAt
  <2>2. reply'[q] # 201 /\ (step'[q] = "read" => Proceed(q, 201))
    <3>1. Proceed(q, 201) \/ Fail(q, 500)
      BY <2>1 DEF InsertCluster, Locked
    <3>2. CASE Proceed(q, 201)
      <4>1. step'[q] = Follows(op[q].kind, step[q])
            /\ reply'[q] = IF step'[q] = "done" THEN 201 ELSE 0
        BY <1>5, <3>2, Goes DEF TypeInv, RequestOK
      <4> QED BY <1>5, <3>2, <4>1 DEF Follows, Makers
    <3>3. CASE Fail(q, 500)
      BY <3>3, Stops DEF TypeInv
    <3> QED BY <3>1, <3>2, <3>3
  <2>3. ASSUME step'[q] = "read" PROVE OwnsCluster(op[q].id, q, op[q].config)'
    <3>1. ~ Fail(q, 500)
      BY <2>3, Stops DEF TypeInv
    <3>2. PICK id \in NextId(clusters, issued.clusters) :
            /\ clusters' = clusters \union
                 {[id |-> id, name |-> op[q].name, config |-> op[q].config,
                   status |-> "unknown", by |-> q]}
            /\ op' = [op EXCEPT ![q].id = id]
      BY <2>1, <3>1 DEF InsertCluster, Locked
    <3> DEFINE row == [id |-> id, name |-> op[q].name, config |-> op[q].config,
                       status |-> "unknown", by |-> q]
    <3>3. row.id = id /\ row.by = q /\ row.config = op[q].config
      OBVIOUS
    <3>4. op'[q].id = id
      BY <3>2 DEF TypeInv, RequestTypes, Operations
    <3>5. clusters' = clusters \union {row}
      BY <3>2
    <3> HIDE DEF row
    <3>6. \A r \in clusters' : r.id = id => r = row
      BY <1>1, <3>3, <3>5 DEF TypeInv, ClusterTypes
    <3>7. id \in Ids(clusters') /\ (dialect' # "sqlite" => id <= issued'.clusters)
      BY <1>1, <3>3, <3>5 DEF TypeInv, ClusterTypes, Ids
    <3> QED BY <1>2, <3>3, <3>4, <3>6, <3>7 DEF OwnsCluster
  <2> QED BY <2>2, <2>3 DEF CreatorOK
<1>6. CASE step[q] = "read"
  <2>1. ReadBack(q)
    BY <1>6, ActionAt
  <2>2. /\ found'[q] = WithId(clusters, op[q].id) /\ op' = op
        /\ clusters' = clusters
    BY <1>6, <2>1 DEF ReadBack, Written, TypeInv, RequestTypes, tables
  <2>3. step'[q] # "read"
    BY <1>1, <1>6 DEF Serves, Moved, Follows
  <2>4. MayReuse("delete_cluster") => MayReuse("delete_cluster")'
    BY ReuseKept DEF Acts
  <2>5. OwnsCluster(op[q].id, q, op[q].config)
    BY <1>6 DEF CreatorOK
  <2>6. \/ MayReuse("delete_cluster")
        \/ \A r \in found'[q] : r.by = q /\ r.id = op[q].id /\ r.config = op[q].config
    BY <2>2, <2>5 DEF OwnsCluster, WithId
  <2> QED BY <2>2, <2>3, <2>4, <2>6 DEF CreatorOK
<1> QED BY <1>3, <1>4, <1>5, <1>6

LEMMA CreatorStep ==
  ASSUME TypeInv, NEW q \in Requests, Acts(q), \A p \in Requests : CreatorOK(p)
  PROVE  (\A p \in Requests : CreatorOK(p))'
<1>1. CreatorOK(q)'
  <2>1. CASE ActionOf(q)
    BY <2>1, CreatorServed
  <2>2. CASE Ask(q)
    <3>1. step'[q] # "read" /\ reply'[q] # 201
      BY <2>2, Asks DEF Comes
    <3> QED BY <3>1 DEF CreatorOK
  <2> QED BY <2>1, <2>2 DEF Acts
<1>2. \A p \in Requests \ {q} : CreatorOK(p)'
  BY CreatorOthers
<1> QED BY <1>1, <1>2

LEMMA WinnerStep == TypeInv /\ WinnerInv /\ [Next]_vars => WinnerInv'
<1> SUFFICES ASSUME TypeInv, WinnerInv, [Next]_vars PROVE WinnerInv'
  OBVIOUS
<1>1. CASE Next
  <2>1. PICK q \in Requests : Acts(q)
    BY <1>1, NextIs DEF Acts
  <2> QED BY <2>1, NamesStep, MadeByStep, CreatorStep DEF WinnerInv
<1>2. CASE UNCHANGED vars
  <2>1. NamesUnique' /\ (\A r \in clusters : MadeBy(r))'
    BY <1>2 DEF vars, tables, WinnerInv, NamesUnique, MadeBy
  <2>2. (\A q \in Requests : CreatorOK(q))'
    BY <1>2 DEF vars, tables, environment, WinnerInv, CreatorOK, OwnsCluster, MayReuse, Ids
  <2> QED BY <2>1, <2>2 DEF WinnerInv
<1> QED BY <1>1, <1>2

LEMMA WinnerStart == Init => WinnerInv
<1> SUFFICES ASSUME Init PROVE WinnerInv
  OBVIOUS
<1>1. PICK row : row.by = Seed /\ clusters = {row}
  BY DEF Init
<1>2. NamesUnique /\ \A r \in clusters : MadeBy(r)
  BY <1>1, RegistryAssumption DEF NamesUnique, MadeBy
<1>3. \A q \in Requests : op[q].kind = "put_settings"
  BY DEF Init
<1> QED BY <1>2, <1>3 DEF WinnerInv, CreatorOK

(* One row comes of the race for a name, a 201 means that it is the        *)
(* caller's own, as the caller gave it, and who was refused left nothing   *)
(* behind (app.py:150-158), for any number of requests.                    *)
THEOREM WinnerCorrect == Spec => []OneWinnerPerName
<1>1. TypeInv /\ WinnerInv => OneWinnerPerName
  <2> SUFFICES ASSUME TypeInv, WinnerInv PROVE OneWinnerPerName
    OBVIOUS
  <2>1. \A r, s \in clusters : r.name = s.name => r = s
    BY DEF WinnerInv, NamesUnique
  <2>2. ASSUME NEW q \in Requests, op[q].kind = "create_cluster", reply[q] # 0
        PROVE  LET own == {r \in clusters : r.by = q} IN
               /\ reply[q] # 201 => own = {}
               /\ reply[q] = 201 =>
                    \/ MayReuse("delete_cluster")
                    \/ \A r \in found[q] \union own :
                         r.by = q /\ r.id = op[q].id /\ r.config = op[q].config
    <3>1. step[q] = "done"
      BY <2>2 DEF TypeInv, RequestOK, StepOK
    <3>2. \A r \in clusters : r.by = q =>
            reply[q] = 201 /\ r.id = op[q].id /\ r.config = op[q].config
      BY <3>1 DEF WinnerInv, MadeBy
    <3>3. reply[q] = 201 =>
            \/ MayReuse("delete_cluster")
            \/ \A r \in found[q] : r.by = q /\ r.id = op[q].id /\ r.config = op[q].config
      BY <2>2 DEF WinnerInv, CreatorOK
    <3> QED BY <3>2, <3>3
  <2> QED BY <2>1, <2>2 DEF OneWinnerPerName
<1> QED BY <1>1, TypeHolds, WinnerStart, WinnerStep, TypeStart, TypeNext, PTL DEF Spec
-----------------------------------------------------------------------------
(***************************************************************************)
(* What is found, and used later.                                          *)
(***************************************************************************)

FinderOK(q) ==
  step[q] \in {"probe", "write"} =>
    /\ op[q].kind \in {"create_source", "test_cluster"} =>
         \A r \in found[q] : OwnsCluster(op[q].id, r.by, r.config)
    /\ op[q].kind = "test_source" =>
         \A r \in found[q] : OwnsSource(op[q].id, r.by)

LEMMA OwnsNow ==
  ASSUME TypeInv
  PROVE  /\ \A r \in clusters : OwnsCluster(r.id, r.by, r.config)
         /\ \A s \in sources : OwnsSource(s.id, s.by)
<1>1. ASSUME NEW r \in clusters PROVE OwnsCluster(r.id, r.by, r.config)
  <2>1. \A s \in clusters : s.id = r.id => s = r
    BY DEF TypeInv, ClusterTypes
  <2>2. r.id \in Ids(clusters) /\ (dialect # "sqlite" => r.id <= issued.clusters)
    BY DEF TypeInv, ClusterTypes, Ids
  <2> QED BY <2>1, <2>2 DEF OwnsCluster
<1>2. ASSUME NEW s \in sources PROVE OwnsSource(s.id, s.by)
  <2>1. \A t \in sources : t.id = s.id => t = s
    BY DEF TypeInv, SourceTypes
  <2>2. s.id \in Ids(sources) /\ (dialect # "sqlite" => s.id <= issued.sources)
    BY DEF TypeInv, SourceTypes, Ids
  <2> QED BY <2>1, <2>2 DEF OwnsSource
<1> QED BY <1>1, <1>2

(* A request that has the same row before it keeps it, whoever acts.       *)
LEMMA FinderKept ==
  ASSUME TypeInv, NEW q \in Requests, Acts(q), NEW p \in Requests, FinderOK(p),
         step[p] \in {"probe", "write"}, op'[p] = op[p], found'[p] = found[p]
  PROVE  FinderOK(p)'
<1>1. PICK id \in Nat : id = op[p].id
  BY DEF TypeInv, RequestTypes, Operations
<1>2. op'[p].id = id /\ op'[p].kind = op[p].kind
  BY <1>1
<1>3. ASSUME op[p].kind \in {"create_source", "test_cluster"}, NEW r \in found'[p]
      PROVE  OwnsCluster(id, r.by, r.config)'
  <2>1. OwnsCluster(id, r.by, r.config)
    BY <1>1, <1>3 DEF FinderOK
  <2> QED BY <2>1, OwnsClusterKept
<1>4. ASSUME op[p].kind = "test_source", NEW r \in found'[p]
      PROVE  OwnsSource(id, r.by)'
  <2>1. OwnsSource(id, r.by)
    BY <1>1, <1>4 DEF FinderOK
  <2> QED BY <2>1, OwnsSourceKept
<1> QED BY <1>2, <1>3, <1>4 DEF FinderOK

LEMMA FinderServed ==
  ASSUME TypeInv, NEW q \in Requests, ActionOf(q), FinderOK(q)
  PROVE  FinderOK(q)'
<1>1. Serves(q) /\ TypeInv' /\ StepOK(q)
  BY ActionServes, TypeStep DEF TypeInv, RequestOK
<1> SUFFICES ASSUME step'[q] \in {"probe", "write"} PROVE FinderOK(q)'
  BY DEF FinderOK
<1>2. step[q] \in {"find", "probe"}
  BY <1>1 DEF Serves, Moved, Follows
<1>3. CASE step[q] = "probe"
  <2>1. op' = op /\ found' = found
    BY <1>3, ActionAt DEF ProbeCluster, ProbeConnection, ProbeSource, ProbeRaises
  <2> QED BY <1>3, <2>1, FinderKept DEF Acts
<1>4. CASE step[q] = "find" /\ op[q].kind = "create_cluster"
  BY <1>1, <1>4 DEF Serves, SameAsked, FinderOK
<1>5. CASE step[q] = "find" /\ op[q].kind # "create_cluster"
  <2>1. Find(q)
    BY <1>5, ActionAt
  <2>2. op' = op /\ clusters' = clusters /\ sources' = sources
    BY <2>1 DEF Find, tables
  <2>3. found'[q] = WithId(IF op[q].kind \in {"create_source", "test_cluster"}
                           THEN clusters ELSE sources, op[q].id)
    BY <2>1 DEF Find, TypeInv, RequestTypes
  <2>4. /\ \A r \in clusters' : OwnsCluster(r.id, r.by, r.config)'
        /\ \A s \in sources' : OwnsSource(s.id, s.by)'
    <3>1. \A r \in clusters \union sources : r.id \in Nat
      BY DEF TypeInv, ClusterTypes, SourceTypes, ClusterRows, SourceRows
    <3> QED BY <2>2, <3>1, OwnsNow, OwnsClusterKept, OwnsSourceKept DEF Acts
  <2>5. op[q].kind \in {"create_source", "test_cluster"} =>
          \A r \in found'[q] : OwnsCluster(op[q].id, r.by, r.config)'
    BY <2>2, <2>3, <2>4 DEF WithId
  <2>6. op[q].kind = "test_source" => \A r \in found'[q] : OwnsSource(op[q].id, r.by)'
    BY <2>2, <2>3, <2>4 DEF WithId
  <2> QED BY <2>2, <2>5, <2>6 DEF FinderOK
<1> QED BY <1>2, <1>3, <1>4, <1>5

LEMMA FinderStep ==
  ASSUME TypeInv, NEW q \in Requests, Acts(q), \A p \in Requests : FinderOK(p)
  PROVE  (\A p \in Requests : FinderOK(p))'
<1>1. FinderOK(q)'
  <2>1. CASE ActionOf(q)
    BY <2>1, FinderServed
  <2>2. CASE Ask(q)
    <3>1. step'[q] = "probe" => op'[q].kind = "test_connection"
      BY <2>2, Asks DEF Comes
    <3>2. step'[q] = "write" => op'[q].kind \in {"delete_cluster", "delete_source", "put_settings"}
      BY <2>2, Asks DEF Comes, Deleters
    <3> QED BY <3>1, <3>2 DEF FinderOK
  <2> QED BY <2>1, <2>2 DEF Acts
<1>2. ASSUME NEW p \in Requests \ {q} PROVE FinderOK(p)'
  <2>1. op'[p] = op[p] /\ step'[p] = step[p] /\ found'[p] = found[p]
    BY StepIs DEF Others
  <2>2. CASE step[p] \in {"probe", "write"}
    BY <2>1, <2>2, FinderKept
  <2>3. CASE step[p] \notin {"probe", "write"}
    BY <2>1, <2>3 DEF FinderOK
  <2> QED BY <2>2, <2>3
<1> QED BY <1>1, <1>2

-----------------------------------------------------------------------------
(***************************************************************************)
(* Sources and their clusters.                                             *)
(***************************************************************************)

(* The cluster of a source is the one its request found.                   *)
Follower(s) ==
  \/ MayReuse("delete_cluster")
  \/ \A c \in clusters : c.id = s.cluster => c.by = s.of

SourcesInv == (\A q \in Requests : FinderOK(q)) /\ \A s \in sources : Follower(s)

LEMMA FollowerKept ==
  ASSUME TypeInv, NEW q \in Requests, Acts(q), NEW s \in sources, Follower(s)
  PROVE  Follower(s)'
<1>1. CASE MayReuse("delete_cluster")
  BY <1>1, ReuseKept DEF Follower
<1>2. CASE \A c \in clusters : c.id = s.cluster => c.by = s.of
  <2>1. PICK c \in clusters : c.id = s.cluster
    BY DEF TypeInv, Linked, Ids
  <2>2. c.id \in Nat /\ OwnsCluster(c.id, c.by, c.config)
    BY <2>1, OwnsNow DEF TypeInv, ClusterTypes, ClusterRows
  <2>3. OwnsCluster(c.id, c.by, c.config)'
    BY <2>2, OwnsClusterKept
  <2>4. MayReuse("delete_cluster")' \/ \A r \in clusters' : r.id = c.id => r.by = c.by
    BY <2>3 DEF OwnsCluster
  <2>5. c.by = s.of
    BY <1>2, <2>1
  <2> QED BY <2>1, <2>4, <2>5 DEF Follower
<1> QED BY <1>1, <1>2 DEF Follower

LEMMA FollowerStep ==
  ASSUME TypeInv, SourcesInv, NEW q \in Requests, Acts(q)
  PROVE  (\A s \in sources : Follower(s))'
<1> SUFFICES ASSUME NEW t \in sources' PROVE Follower(t)'
  OBVIOUS
<1>1. CASE \E s \in sources : SameSource(t, s)
  <2>1. PICK s \in sources : SameSource(t, s)
    BY <1>1
  <2>2. Follower(s)'
    BY <2>1, FollowerKept DEF SourcesInv
  <2>3. t.cluster = s.cluster /\ t.of = s.of
    BY <2>1 DEF SameSource
  <2> QED BY <2>2, <2>3 DEF Follower
<1>2. CASE SourceAdded(q) /\ t \notin sources
  <2>1. PICK c \in found[q] : t = NewSource(q, c)
    BY <1>2 DEF SourceAdded
  <2>2. PICK id \in Nat : id = op[q].id
    BY DEF TypeInv, RequestTypes, Operations
  <2>3. OwnsCluster(id, c.by, c.config)
    BY <1>2, <2>2 DEF SourcesInv, FinderOK, SourceAdded, At
  <2>4. OwnsCluster(id, c.by, c.config)'
    BY <2>3, OwnsClusterKept
  <2>5. t.cluster = id /\ t.of = c.by
    BY <2>1, <2>2 DEF NewSource
  <2> QED BY <2>4, <2>5 DEF OwnsCluster, Follower
<1>3. \A s \in sources : SameSource(s, s)
  BY DEF SameSource
<1>4. CASE SourcesEdited(q)
  BY <1>1, <1>4 DEF SourcesEdited, Edited
<1>5. CASE SourceAdded(q)
  BY <1>1, <1>2, <1>3, <1>5
<1>6. CASE SourcesRemoved(q)
  BY <1>1, <1>3, <1>6 DEF SourcesRemoved
<1> QED BY <1>4, <1>5, <1>6, StepIs

LEMMA SourcesStep == TypeInv /\ SourcesInv /\ [Next]_vars => SourcesInv'
<1> SUFFICES ASSUME TypeInv, SourcesInv, [Next]_vars PROVE SourcesInv'
  OBVIOUS
<1>1. CASE Next
  <2>1. PICK q \in Requests : Acts(q)
    BY <1>1, NextIs DEF Acts
  <2> QED BY <2>1, FinderStep, FollowerStep DEF SourcesInv
<1>2. CASE UNCHANGED vars
  <2>1. \A q \in Requests : FinderOK(q)'
    BY <1>2 DEF vars, tables, environment, SourcesInv, FinderOK, OwnsCluster, OwnsSource,
         MayReuse, Ids
  <2>2. (\A s \in sources : Follower(s))'
    BY <1>2 DEF vars, tables, environment, SourcesInv, Follower, MayReuse
  <2> QED BY <2>1, <2>2 DEF SourcesInv
<1> QED BY <1>1, <1>2

LEMMA SourcesStart == Init => SourcesInv
<1> SUFFICES ASSUME Init PROVE SourcesInv
  OBVIOUS
<1>1. \A q \in Requests : step[q] = "idle"
  BY DEF Init
<1>2. \E row : row.by = Seed /\ clusters = {row}
  BY DEF Init
<1>3. \A s \in sources : s.of = Seed
  BY DEF Init
<1> QED BY <1>1, <1>2, <1>3 DEF SourcesInv, FinderOK, Follower

(* A source is of the cluster its request found before it inserted the     *)
(* source (app.py:226-234), and goes with it.                              *)
THEOREM SourcesCorrect == Spec => []SourcesFollowTheirCluster
<1>1. TypeInv /\ SourcesInv => SourcesFollowTheirCluster
  BY DEF TypeInv, SourcesInv, Follower, Linked, Ids, SourcesFollowTheirCluster
<1> QED BY <1>1, TypeHolds, SourcesStart, SourcesStep, TypeStart, TypeNext, PTL DEF Spec
-----------------------------------------------------------------------------
(***************************************************************************)
(* Partial updates.                                                        *)
(***************************************************************************)

(* A source is of one request, which knows its id.                         *)
SourceMade(s) ==
  /\ s.by \in Requests => /\ op[s.by].kind = "create_source" /\ step[s.by] \in Settled
                          /\ s.id = op[s.by].id
  /\ s.by \notin Requests => s.id = 1

UpdatesInv == \A s \in sources : SourceMade(s)

LEMMA OneSourceEach ==
  ASSUME TypeInv, UpdatesInv, NEW s \in sources, NEW t \in sources, s.by = t.by
  PROVE  s = t
<1>1. s.id = t.id
  BY DEF UpdatesInv, SourceMade
<1> QED BY <1>1 DEF TypeInv, SourceTypes

LEMMA SourceMadeStays ==
  ASSUME TypeInv, NEW q \in Requests, Acts(q), NEW t, NEW s, SameSource(t, s), SourceMade(s)
  PROVE  SourceMade(t)'
<1>1. t.by = s.by /\ t.id = s.id
  BY DEF SameSource
<1>2. CASE t.by \notin Requests
  BY <1>1, <1>2 DEF SourceMade
<1>3. CASE t.by \in Requests /\ t.by # q
  <2>1. op'[t.by] = op[t.by] /\ step'[t.by] = step[t.by]
    BY <1>3, StepIs DEF Others
  <2> QED BY <1>1, <1>3, <2>1 DEF SourceMade
<1>4. CASE t.by = q
  <2>1. op[q].kind = "create_source" /\ step[q] \in Settled /\ t.id = op[q].id
    BY <1>1, <1>4 DEF SourceMade
  <2>2. step[q] = "read"
    BY <2>1, StepIs DEF Settled
  <2>3. ActionOf(q)
    BY <2>2 DEF Acts, Ask
  <2>4. op' = op
    BY <2>2, <2>3, ActionAt DEF ReadBack
  <2>5. step'[q] = "done"
    BY <2>2, <2>3, ActionServes DEF Serves, Moved, Follows
  <2> QED BY <1>4, <2>1, <2>4, <2>5 DEF SourceMade, Settled
<1> QED BY <1>2, <1>3, <1>4

LEMMA UpdatesStep == TypeInv /\ UpdatesInv /\ [Next]_vars => UpdatesInv'
<1> SUFFICES ASSUME TypeInv, UpdatesInv, [Next]_vars PROVE UpdatesInv'
  OBVIOUS
<1>1. CASE Next
  <2>1. PICK q \in Requests : Acts(q)
    BY <1>1, NextIs DEF Acts
  <2> SUFFICES ASSUME NEW t \in sources' PROVE SourceMade(t)'
    BY DEF UpdatesInv
  <2>2. CASE \E s \in sources : SameSource(t, s)
    BY <2>1, <2>2, SourceMadeStays DEF UpdatesInv
  <2>3. CASE SourceAdded(q) /\ t \notin sources
    <3>1. \E c : t = NewSource(q, c)
      BY <2>3 DEF SourceAdded
    <3>2. t.by = q /\ t.id = op'[q].id
      BY <3>1 DEF NewSource
    <3>3. step[q] = "write" /\ op[q].kind = "create_source" /\ step'[q] = "read"
      BY <2>3 DEF SourceAdded, At
    <3>4. op'[q].kind = op[q].kind
      BY <2>1, <3>3, StepIs DEF SameAsked
    <3> QED BY <2>1, <3>2, <3>3, <3>4 DEF SourceMade, Settled
  <2>4. \A s \in sources : SameSource(s, s)
    BY DEF SameSource
  <2>5. CASE SourcesEdited(q)
    BY <2>2, <2>5 DEF SourcesEdited, Edited
  <2>6. CASE SourceAdded(q)
    BY <2>2, <2>3, <2>4, <2>6
  <2>7. CASE SourcesRemoved(q)
    BY <2>2, <2>4, <2>7 DEF SourcesRemoved
  <2> QED BY <2>1, <2>5, <2>6, <2>7, StepIs
<1>2. CASE UNCHANGED vars
  BY <1>2 DEF vars, tables, UpdatesInv, SourceMade
<1> QED BY <1>1, <1>2

LEMMA UpdatesStart == Init => UpdatesInv
<1> SUFFICES ASSUME Init PROVE UpdatesInv
  OBVIOUS
<1>1. PICK row : row.by = Seed /\ row.id = 1 /\ sources = {row}
  BY DEF Init
<1> QED BY <1>1, RegistryAssumption DEF UpdatesInv, SourceMade

LEMMA SettingsStep ==
  ASSUME TypeInv, NEW q \in Requests, Acts(q), NEW f \in Fields
  PROVE  settings'[f] = settings[f] \/ (settings'[f] = q /\ f \in op[q].given)
<1>1. CASE UpdateSettings(q)
  BY <1>1 DEF UpdateSettings, WithGiven
<1>2. CASE ~ UpdateSettings(q)
  <2>1. settings' = settings
    <3>1. CASE Ask(q) \/ FindName(q) \/ Find(q) \/ ReadBack(q) \/ Locked(q) \/ ProbeRaises(q)
      BY <3>1 DEF Ask, FindName, Find, ReadBack, Locked, ProbeRaises, tables
    <3>2. CASE ProbeCluster(q) \/ ProbeConnection(q) \/ ProbeSource(q)
      BY <3>2 DEF ProbeCluster, ProbeConnection, ProbeSource, tables
    <3>3. CASE InsertCluster(q) \/ InsertSource(q)
      BY <3>3 DEF InsertCluster, InsertSource
    <3>4. CASE Changes(q)
      BY <1>2, <3>4 DEF Changes, DeleteCluster, RecordStatus, UpdateSource, DeleteSource,
           RecordHealth
    <3> QED BY <3>1, <3>2, <3>3, <3>4 DEF Acts, ActionOf
  <2> QED BY <2>1
<1> QED BY <1>1, <1>2

LEMMA OnlyGivenStep ==
  ASSUME TypeInv, UpdatesInv, NEW q \in Requests, Acts(q)
  PROVE  OnlyGivenChanges
<1>1. ASSUME NEW f \in Fields
      PROVE  settings'[f] # settings[f] => Gave(settings'[f], f)
  BY SettingsStep DEF Gave
<1>2. ASSUME NEW f \in Fields, NEW s \in sources, NEW t \in sources', s.by = t.by,
             t.values[f] # s.values[f]
      PROVE  Gave(t.values[f], f)
  <2>1. CASE t \in sources
    BY <1>2, <2>1, OneSourceEach
  <2>2. CASE SourcesEdited(q)
    <3>1. PICK r \in sources : Edited(q, t, r)
      BY <2>2 DEF SourcesEdited
    <3>2. r = s
      BY <1>2, <3>1, OneSourceEach DEF Edited, SameSource
    <3> QED BY <1>2, <3>1, <3>2 DEF Edited, Gave
  <2>3. CASE SourceAdded(q) /\ t \notin sources
    <3>1. \E c : t = NewSource(q, c)
      BY <2>3 DEF SourceAdded
    <3>2. s.by = q
      BY <1>2, <3>1 DEF NewSource
    <3>3. step[q] \in Settled
      BY <3>2 DEF UpdatesInv, SourceMade
    <3> QED BY <2>3, <3>3 DEF SourceAdded, At, Settled
  <2>4. CASE SourcesRemoved(q)
    BY <2>1, <2>4 DEF SourcesRemoved
  <2> QED BY <2>1, <2>2, <2>3, <2>4, StepIs
<1> QED BY <1>1, <1>2 DEF OnlyGivenChanges

(* A field of a source or of the settings changes only to what a request   *)
(* gave for it (statestore.py:443-460, 480-492), however updates mix.      *)
THEOREM UpdatesCorrect == Spec => UpdatesKeepEachOther
<1>1. TypeInv /\ UpdatesInv /\ [Next]_vars => [OnlyGivenChanges]_vars
  BY NextIs, OnlyGivenStep DEF Acts
<1>2. Spec => [][OnlyGivenChanges]_vars
  BY <1>1, TypeHolds, UpdatesStart, UpdatesStep, TypeStart, TypeNext, PTL DEF Spec
<1> QED BY <1>2 DEF UpdatesKeepEachOther
-----------------------------------------------------------------------------
(***************************************************************************)
(* Outcomes.                                                               *)
(***************************************************************************)

(* The server a row names has been asked as the row says, and answered.    *)
Reached(who, config) ==
  \E a \in asked :
    /\ a.row = who /\ a.outcome = "reachable"
    /\ config.url => a.server = "given"
    /\ config.auth # "none" => a.credential = config.auth

Heard(who, outcome) == \E a \in asked : a.row = who /\ a.server = "source" /\ a.outcome = outcome

(* What a test is about to store, or a form has been told, is so. *)
TesterOK(q) ==
  /\ step[q] = "write" /\ op[q].kind = "test_cluster" /\ saw[q] = "reachable" =>
       \A r \in found[q] : Reached(r.by, r.config)
  /\ step[q] = "write" /\ op[q].kind = "test_source" =>
       \A r \in found[q] : Heard(r.by, saw[q])
  /\ op[q].kind = "test_connection" /\ saw[q] = "reachable" =>
       op[q].config # NoConfig /\ \E a \in asked : a.row = q /\ a.outcome = "reachable"

StatusOK(r) ==
  r.status = "reachable" => MayReuse("delete_cluster") \/ Reached(r.by, r.config)

HealthOK(s) ==
  s.health # "none" => MayReuse("delete_source") \/ Heard(s.by, s.health)

OutcomesInv ==
  /\ \A q \in Requests : TesterOK(q)
  /\ \A r \in clusters : StatusOK(r)
  /\ \A s \in sources : HealthOK(s)

LEMMA AskedStays ==
  ASSUME asked \subseteq asked', NEW who, NEW config, NEW outcome
  PROVE  /\ Reached(who, config) => Reached(who, config)'
         /\ Heard(who, outcome) => Heard(who, outcome)'
BY DEF Reached, Heard

LEMMA Asking ==
  ASSUME NEW q, NEW row, NEW c \in AllConfigs, KubeProbe(q, row, c), TypeInv, q \in Requests,
         saw'[q] = "reachable"
  PROVE  Reached(row, c)'
<1>1. saw \in [Requests -> {"unknown", "healthy", "reachable", "unreachable"}]
  BY DEF TypeInv, RequestTypes
<1>2. PICK s \in Servers(c) :
        [row |-> row, server |-> s, credential |-> CredentialOf(c), outcome |-> "reachable"]
          \in asked'
  BY <1>1 DEF KubeProbe
<1>3. c.url => s = "given"
  BY <1>2 DEF Servers
<1>4. c.auth # "none" => CredentialOf(c) = c.auth
  BY DEF CredentialOf
<1> DEFINE a == [row |-> row, server |-> s, credential |-> CredentialOf(c), outcome |-> "reachable"]
<1>5. a \in asked' /\ a.row = row /\ a.outcome = "reachable" /\ a.server = s
      /\ a.credential = CredentialOf(c)
  BY <1>2
<1> HIDE DEF a
<1> QED BY <1>3, <1>4, <1>5 DEF Reached

LEMMA TesterServed ==
  ASSUME TypeInv, NEW q \in Requests, ActionOf(q), TesterOK(q)
  PROVE  TesterOK(q)'
<1>1. Serves(q) /\ StepOK(q) /\ FoundOK(q) /\ asked \subseteq asked'
  BY ActionServes, StepIs DEF TypeInv, RequestOK, Acts
<1>2. op'[q].kind = op[q].kind /\ op'[q].config = op[q].config
  BY <1>1 DEF Serves, SameAsked
<1>3. saw \in [Requests -> {"unknown", "healthy", "reachable", "unreachable"}]
  BY DEF TypeInv, RequestTypes
<1>4. CASE step[q] # "probe"
  <2>1. ~ (ProbeCluster(q) \/ ProbeConnection(q) \/ ProbeSource(q))
    BY <1>4 DEF ProbeCluster, ProbeConnection, ProbeSource, At
  <2>2. saw' = saw
    BY <2>1, ServesReads, ServesChanges, ServesInserts DEF ActionOf
  <2>3. step'[q] = "write" => op[q].kind \in Makers
    BY <1>1, <1>4 DEF Serves, Moved, Follows
  <2>4. op[q].kind = "test_connection" /\ saw[q] = "reachable" =>
          op[q].config # NoConfig /\ \E a \in asked' : a.row = q /\ a.outcome = "reachable"
    BY <1>1 DEF TesterOK
  <2> QED BY <1>2, <2>2, <2>3, <2>4 DEF TesterOK, Makers
<1>5. CASE ProbeCluster(q)
  <2>1. op[q].kind = "test_cluster" /\ step[q] = "probe" /\ found' = found
    BY <1>5 DEF ProbeCluster, At
  <2>2. PICK r \in ClusterRows : found[q] = {r}
    BY <1>1, <2>1 DEF FoundOK
  <2>3. KubeProbe(q, r.by, r.config) /\ r.config \in AllConfigs
    BY <1>5, <2>2 DEF ProbeCluster, ClusterRows
  <2>4. saw'[q] = "reachable" => Reached(r.by, r.config)'
    BY <2>3, Asking
  <2> QED BY <1>2, <2>1, <2>2, <2>4 DEF TesterOK
<1>6. CASE ProbeConnection(q)
  <2>1. op[q].kind = "test_connection"
    BY <1>6 DEF ProbeConnection, At
  <2>2. op[q].config \in AllConfigs
    BY DEF TypeInv, RequestTypes, Operations
  <2>3. ASSUME saw'[q] = "reachable"
        PROVE  op[q].config # NoConfig /\ Reached(q, op[q].config)'
    <3>1. op[q].config # NoConfig /\ KubeProbe(q, q, op[q].config)
      BY <1>3, <1>6, <2>3 DEF ProbeConnection
    <3>2. PICK c \in AllConfigs : c = op[q].config
      BY <2>2
    <3>3. Reached(q, c)'
      BY <2>3, <3>1, <3>2, Asking
    <3>4. op' = op
      BY <1>6 DEF ProbeConnection
    <3> QED BY <3>1, <3>2, <3>3, <3>4
  <2>4. saw'[q] = "reachable" => \E a \in asked' : a.row = q /\ a.outcome = "reachable"
    BY <2>3 DEF Reached
  <2> QED BY <1>2, <2>1, <2>3, <2>4 DEF TesterOK
<1>7. CASE ProbeSource(q)
  <2>1. op[q].kind = "test_source" /\ step[q] = "probe" /\ found' = found
    BY <1>7 DEF ProbeSource, At
  <2>2. PICK r \in SourceRows : found[q] = {r}
    BY <1>1, <2>1 DEF FoundOK
  <2>3. PICK v \in {"unknown", "healthy", "unreachable"} :
          /\ saw' = [saw EXCEPT ![q] = v]
          /\ asked' = asked \union
               {[row |-> r.by, server |-> "source", credential |-> "nothing", outcome |-> v]}
    BY <1>7, <2>2 DEF ProbeSource
  <2>4. Heard(r.by, v)'
    <3> DEFINE a == [row |-> r.by, server |-> "source", credential |-> "nothing", outcome |-> v]
    <3>1. a \in asked' /\ a.row = r.by /\ a.server = "source" /\ a.outcome = v
      BY <2>3
    <3> HIDE DEF a
    <3> QED BY <3>1 DEF Heard
  <2>5. saw'[q] = v
    BY <1>3, <2>3
  <2> QED BY <1>2, <2>1, <2>2, <2>4, <2>5 DEF TesterOK
<1>8. CASE ProbeRaises(q)
  <2>1. saw' = saw /\ Fail(q, 500)
    BY <1>8 DEF ProbeRaises
  <2>2. step'[q] = "done"
    BY <2>1, Stops DEF TypeInv
  <2>3. op[q].kind = "test_connection" /\ saw[q] = "reachable" =>
          op[q].config # NoConfig /\ \E a \in asked' : a.row = q /\ a.outcome = "reachable"
    BY <1>1 DEF TesterOK
  <2> QED BY <1>2, <2>1, <2>2, <2>3 DEF TesterOK
<1> QED BY <1>4, <1>5, <1>6, <1>7, <1>8, ActionAt

LEMMA TesterStep ==
  ASSUME TypeInv, NEW q \in Requests, Acts(q), \A p \in Requests : TesterOK(p)
  PROVE  (\A p \in Requests : TesterOK(p))'
<1>1. TesterOK(q)'
  <2>1. CASE ActionOf(q)
    BY <2>1, TesterServed
  <2>2. CASE Ask(q)
    <3>1. saw'[q] = "unknown" /\ (step'[q] = "write" => op'[q].kind \in Deleters \union {"put_settings"})
      BY <2>2, Asks DEF Comes
    <3> QED BY <3>1 DEF TesterOK, Deleters
  <2> QED BY <2>1, <2>2 DEF Acts
<1>2. ASSUME NEW p \in Requests \ {q} PROVE TesterOK(p)'
  <2>1. op'[p] = op[p] /\ step'[p] = step[p] /\ found'[p] = found[p] /\ saw'[p] = saw[p]
    BY StepIs DEF Others
  <2>2. asked \subseteq asked'
    BY StepIs
  <2>3. /\ step[p] = "write" /\ op[p].kind = "test_cluster" /\ saw[p] = "reachable" =>
             \A r \in found[p] : Reached(r.by, r.config)'
        /\ step[p] = "write" /\ op[p].kind = "test_source" =>
             \A r \in found[p] : \E a \in asked' :
               a.row = r.by /\ a.server = "source" /\ a.outcome = saw[p]
    BY <2>2, AskedStays DEF TesterOK, Heard
  <2>4. op[p].kind = "test_connection" /\ saw[p] = "reachable" =>
          op[p].config # NoConfig /\ \E a \in asked' : a.row = p /\ a.outcome = "reachable"
    BY <2>2 DEF TesterOK
  <2> QED BY <2>1, <2>3, <2>4 DEF TesterOK, Heard
<1> QED BY <1>1, <1>2

(* The row a test writes to has the id of the row it has asked for.        *)
LEMMA StatusStep ==
  ASSUME TypeInv, SourcesInv, OutcomesInv, NEW q \in Requests, Acts(q)
  PROVE  (\A r \in clusters : StatusOK(r))'
<1> SUFFICES ASSUME NEW r \in clusters', r.status = "reachable"
             PROVE  MayReuse("delete_cluster")' \/ Reached(r.by, r.config)'
  BY DEF StatusOK
<1>1. asked \subseteq asked' /\ (MayReuse("delete_cluster") => MayReuse("delete_cluster")')
  BY StepIs, ReuseKept
<1>2. ASSUME NEW s \in clusters, SameCluster(r, s), r.status = s.status
      PROVE  MayReuse("delete_cluster")' \/ Reached(r.by, r.config)'
  <2>1. MayReuse("delete_cluster") \/ Reached(s.by, s.config)
    BY <1>2 DEF OutcomesInv, StatusOK
  <2>2. r.by = s.by /\ r.config = s.config
    BY <1>2 DEF SameCluster
  <2> QED BY <1>1, <2>1, <2>2, AskedStays
<1>3. ASSUME NEW s \in clusters, SameCluster(r, s), At(q, "write", "test_cluster"),
             r.id = op[q].id, r.status = saw[q]
      PROVE  MayReuse("delete_cluster")' \/ Reached(r.by, r.config)'
  <2>1. step[q] = "write" /\ op[q].kind = "test_cluster"
    BY <1>3 DEF At
  <2>2. PICK x \in ClusterRows : found[q] = {x}
    BY <2>1 DEF TypeInv, RequestOK, FoundOK
  <2>3. Reached(x.by, x.config)
    BY <1>3, <2>1, <2>2 DEF OutcomesInv, TesterOK
  <2>4. OwnsCluster(op[q].id, x.by, x.config)
    BY <2>1, <2>2 DEF SourcesInv, FinderOK
  <2>5. MayReuse("delete_cluster") \/ (s.by = x.by /\ s.config = x.config)
    BY <1>3, <2>4 DEF OwnsCluster, SameCluster
  <2>6. r.by = s.by /\ r.config = s.config
    BY <1>3 DEF SameCluster
  <2>7. Reached(x.by, x.config)'
    BY <1>1, <2>3, AskedStays
  <2> QED BY <1>1, <2>5, <2>6, <2>7
<1>4. CASE ClustersEdited(q)
  BY <1>2, <1>3, <1>4 DEF ClustersEdited
<1>5. CASE ClusterAdded(q)
  <2>1. r \in clusters
    BY <1>5 DEF ClusterAdded
  <2> QED BY <1>2, <2>1 DEF SameCluster
<1>6. CASE ClusterRemoved(q)
  <2>1. r \in clusters
    BY <1>6 DEF ClusterRemoved
  <2> QED BY <1>2, <2>1 DEF SameCluster
<1> QED BY <1>4, <1>5, <1>6, StepIs

LEMMA HealthStep ==
  ASSUME TypeInv, SourcesInv, OutcomesInv, NEW q \in Requests, Acts(q)
  PROVE  (\A s \in sources : HealthOK(s))'
<1> SUFFICES ASSUME NEW t \in sources', t.health # "none"
             PROVE  MayReuse("delete_source")' \/ Heard(t.by, t.health)'
  BY DEF HealthOK
<1>1. asked \subseteq asked' /\ (MayReuse("delete_source") => MayReuse("delete_source")')
  BY StepIs, ReuseKept
<1>2. ASSUME NEW s \in sources, SameSource(t, s), t.health = s.health
      PROVE  MayReuse("delete_source")' \/ Heard(t.by, t.health)'
  <2>1. MayReuse("delete_source") \/ Heard(s.by, s.health)
    BY <1>2 DEF OutcomesInv, HealthOK
  <2>2. t.by = s.by
    BY <1>2 DEF SameSource
  <2> QED BY <1>1, <1>2, <2>1, <2>2, AskedStays
<1>3. ASSUME NEW s \in sources, SameSource(t, s), At(q, "write", "test_source"),
             t.id = op[q].id, t.health = saw[q]
      PROVE  MayReuse("delete_source")' \/ Heard(t.by, t.health)'
  <2>1. step[q] = "write" /\ op[q].kind = "test_source"
    BY <1>3 DEF At
  <2>2. PICK x \in SourceRows : found[q] = {x}
    BY <2>1 DEF TypeInv, RequestOK, FoundOK
  <2>3. Heard(x.by, t.health)
    BY <1>3, <2>1, <2>2 DEF OutcomesInv, TesterOK
  <2>4. OwnsSource(op[q].id, x.by)
    BY <2>1, <2>2 DEF SourcesInv, FinderOK
  <2>5. MayReuse("delete_source") \/ s.by = x.by
    BY <1>3, <2>4 DEF OwnsSource, SameSource
  <2>6. t.by = s.by
    BY <1>3 DEF SameSource
  <2>7. Heard(x.by, t.health)'
    BY <1>1, <2>3, AskedStays
  <2> QED BY <1>1, <2>5, <2>6, <2>7
<1>4. CASE SourcesEdited(q)
  BY <1>2, <1>3, <1>4 DEF SourcesEdited, Edited
<1>5. CASE SourceAdded(q)
  <2>1. PICK c \in found[q] : sources' = sources \union {NewSource(q, c)}
    BY <1>5 DEF SourceAdded
  <2>2. NewSource(q, c).health = "none"
    BY DEF NewSource
  <2>3. t \in sources
    BY <2>1, <2>2
  <2> QED BY <1>2, <2>3 DEF SameSource
<1>6. CASE SourcesRemoved(q)
  <2>1. t \in sources
    BY <1>6 DEF SourcesRemoved
  <2> QED BY <1>2, <2>1 DEF SameSource
<1> QED BY <1>4, <1>5, <1>6, StepIs

LEMMA OutcomesStep == TypeInv /\ SourcesInv /\ OutcomesInv /\ [Next]_vars => OutcomesInv'
<1> SUFFICES ASSUME TypeInv, SourcesInv, OutcomesInv, [Next]_vars PROVE OutcomesInv'
  OBVIOUS
<1>1. CASE Next
  <2>1. PICK q \in Requests : Acts(q)
    BY <1>1, NextIs DEF Acts
  <2>2. (\A p \in Requests : TesterOK(p))'
    BY <2>1, TesterStep DEF OutcomesInv
  <2> QED BY <2>1, <2>2, StatusStep, HealthStep DEF OutcomesInv
<1>2. CASE UNCHANGED vars
  <2>1. \A q \in Requests : TesterOK(q)'
    BY <1>2 DEF vars, OutcomesInv, TesterOK, Reached, Heard
  <2>2. (\A r \in clusters : StatusOK(r))' /\ (\A s \in sources : HealthOK(s))'
    BY <1>2 DEF vars, tables, environment, OutcomesInv, StatusOK, HealthOK, MayReuse, Reached,
         Heard
  <2> QED BY <2>1, <2>2 DEF OutcomesInv
<1> QED BY <1>1, <1>2

LEMMA OutcomesStart == Init => OutcomesInv
<1> SUFFICES ASSUME Init PROVE OutcomesInv
  OBVIOUS
<1>1. \A q \in Requests : step[q] = "idle" /\ saw[q] = "unknown"
  BY DEF Init
<1>2. /\ \A r \in clusters : r.status = "unknown"
      /\ \A s \in sources : s.health = "none"
  BY DEF Init
<1> QED BY <1>1, <1>2 DEF OutcomesInv, TesterOK, StatusOK, HealthOK

(* What is stored of a connection was found by asking for that very row,   *)
(* as the row says, whatever became of it while it was asked               *)
(* (app.py:195-208, 256-265).                                              *)
THEOREM OutcomesCorrect == Spec => []OutcomesWereProbed
<1>1. TypeInv /\ OutcomesInv => OutcomesWereProbed
  BY DEF OutcomesInv, StatusOK, HealthOK, TesterOK, Reached, Heard, OutcomesWereProbed
<1> QED BY <1>1, TypeHolds, SourcesStart, SourcesStep, OutcomesStart, OutcomesStep, TypeStart,
       TypeNext, PTL DEF Spec

=============================================================================
