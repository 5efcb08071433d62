------------------------------ MODULE Registry ------------------------------
(***************************************************************************)
(* What the user registers: clusters, data sources and settings, and the   *)
(* tests of their connections.  engine/api/app.py over tier 1 of           *)
(* analysis_core/io/statestore.py, and the probe of kube.py.               *)
(*                                                                         *)
(* Every request is served by a thread with a connection of its own.  An   *)
(* action is one SELECT, one write with its commit, or one probe; a probe  *)
(* takes seconds, in which others change or delete what is probed.  A      *)
(* value is identified with the request that gave it: a field holds the    *)
(* request that wrote it last, a row knows ("by", history) who made it.    *)
(***************************************************************************)
EXTENDS Naturals, FiniteSets

CONSTANTS
  Requests,   \* the requests
  Seed,       \* who registered what is there at first
  Names,      \* names of clusters
  Configs,    \* what is given to reach a cluster
  Dialects,   \* the state databases: "sqlite", "postgres"
  Mixes       \* which kinds of requests come together

(* An API server's URL, given or not, and the kind of credential.          *)
Auths == {"token", "basic", "client_cert", "kubeconfig"}
AllConfigs == [url : BOOLEAN, auth : {"none"} \union Auths]
NoConfig == [url |-> FALSE, auth |-> "none"]

Kinds ==
  {"create_cluster", "delete_cluster", "test_cluster", "test_connection",
   "create_source", "update_source", "delete_source", "test_source",
   "put_settings"}

ASSUME RegistryAssumption ==
  /\ Seed \notin Requests
  /\ Names # {}
  /\ Configs \subseteq AllConfigs
  /\ Dialects \subseteq {"sqlite", "postgres"}
  /\ Mixes \subseteq SUBSET Kinds

AnyName == CHOOSE n \in Names : TRUE
Writers == Requests \union {Seed}
Fields == {"type", "endpoint"}   \* of a data source, and two of the settings

VARIABLES
  dialect,    \* the state database
  inCluster,  \* does the engine run in a pod, with a service account?
  kinds,      \* the kinds of requests that come
  clusters, sources, settings,   \* the tables
  issued,     \* the last id of each table's sequence (postgres)
  op,         \* what a request asks for
  step,       \* its next statement
  found,      \* the row it read last, in a set
  saw,        \* the outcome of its probe
  reply,      \* its HTTP status, 0 before
  asked       \* history: the probes, and what they found

tables == <<clusters, sources, settings, issued>>
environment == <<dialect, inCluster, kinds>>
vars == <<environment, tables, op, step, found, saw, reply, asked>>

ClusterRows ==
  [id : Nat \ {0}, name : Names, config : AllConfigs,
   status : {"unknown", "reachable", "unreachable"}, by : Writers]

(* "of" is history: who made the cluster the source was made for.          *)
SourceRows ==
  [id : Nat \ {0}, cluster : Nat \ {0}, values : [Fields -> Writers],
   health : {"none", "unknown", "healthy", "unreachable"},
   by : Writers, of : Writers]

Operations ==
  [kind : Kinds, id : Nat, name : Names, config : AllConfigs,
   given : SUBSET Fields]

-----------------------------------------------------------------------------
(***************************************************************************)
(* The statements of each handler, in order.                               *)
(***************************************************************************)

Create == [find |-> "write", write |-> "read", read |-> "done"]
Update == [find |-> "write", write |-> "read", read |-> "done"]
Delete == [write |-> "done"]
Test == [find |-> "probe", probe |-> "write", write |-> "done"]
TestConnection == [probe |-> "done"]
PutSettings == [write |-> "read", read |-> "done"]

Course(kind) ==
  CASE kind \in {"create_cluster", "create_source"} -> Create
    [] kind = "update_source" -> Update
    [] kind \in {"delete_cluster", "delete_source"} -> Delete
    [] kind \in {"test_cluster", "test_source"} -> Test
    [] kind = "test_connection" -> TestConnection
    [] OTHER -> PutSettings

First(kind) ==
  CASE kind \in {"delete_cluster", "delete_source", "put_settings"} -> "write"
    [] kind = "test_connection" -> "probe"
    [] OTHER -> "find"

At(q, s, kind) == step[q] = s /\ op[q].kind = kind

(* The request goes on; its last statement makes the answer.               *)
Proceed(q, success) ==
  LET next == Course(op[q].kind)[step[q]] IN
  /\ step' = [step EXCEPT ![q] = next]
  /\ reply' = [reply EXCEPT ![q] = IF next = "done" THEN success ELSE 0]

(* An HTTPException, or an error that becomes a 500. *)
Fail(q, code) ==
  /\ step' = [step EXCEPT ![q] = "done"]
  /\ reply' = [reply EXCEPT ![q] = code]

-----------------------------------------------------------------------------
Ids(rows) == {r.id : r \in rows}
WithId(rows, id) == {r \in rows : r.id = id}

(* Mutant: the sequence starts again at 0.                                 *)
NextIdFromZero(rows, last) == {Cardinality(rows) - 1}

NextId(rows, last) ==
  IF dialect = "postgres" THEN {last + 1}
  ELSE {i \in {1} \union {j + 1 : j \in Ids(rows)} : \A j \in Ids(rows) : j < i}

Taken(name) == \E r \in clusters : r.name = name

(* The UNIQUE of clusters.name.  Mutant: the column has none.              *)
NotUnique(name) == FALSE

Violation(name) == Taken(name)

Init ==
  /\ dialect \in Dialects /\ inCluster \in BOOLEAN /\ kinds \in Mixes
  /\ \E c \in Configs :
       clusters = {[id |-> 1, name |-> AnyName, config |-> c, status |-> "unknown", by |-> Seed]}
  /\ sources = {[id |-> 1, cluster |-> 1, values |-> [f \in Fields |-> Seed],
                 health |-> "none", by |-> Seed, of |-> Seed]}
  /\ settings = [f \in Fields |-> Seed]
  /\ issued = [clusters |-> 1, sources |-> 1]
  /\ op = [q \in Requests |-> [kind |-> "put_settings", id |-> 0,
             name |-> AnyName, config |-> NoConfig, given |-> {}]]
  /\ step = [q \in Requests |-> "idle"]
  /\ found = [q \in Requests |-> {}]
  /\ saw = [q \in Requests |-> "unknown"]
  /\ reply = [q \in Requests |-> 0]
  /\ asked = {}

(* A request comes in, with the fields its kind has.                       *)
Ask(q) ==
  /\ step[q] = "idle"
  /\ \E k \in kinds, n \in Names, c \in Configs, g \in SUBSET Fields,
        id \in Ids(clusters) \union Ids(sources) \union {0} :
       /\ k # "create_cluster" => n = AnyName
       /\ k \notin {"create_cluster", "test_connection"} => c = NoConfig
       /\ k \notin {"update_source", "put_settings"} => g = {}
       /\ id = 0 <=> k \in {"create_cluster", "test_connection", "put_settings"}
       /\ op' = [op EXCEPT ![q] = [kind |-> k, id |-> id, name |-> n,
                                   config |-> c, given |-> g]]
       /\ step' = [step EXCEPT ![q] = First(k)]
  /\ UNCHANGED <<environment, tables, found, saw, reply, asked>>

-----------------------------------------------------------------------------
(***************************************************************************)
(* Reads.                                                                  *)
(***************************************************************************)

(* create_cluster: is the name taken?                                      *)
FindName(q) ==
  /\ At(q, "find", "create_cluster")
  /\ IF Taken(op[q].name) THEN Fail(q, 409) ELSE Proceed(q, 201)
  /\ UNCHANGED <<environment, tables, op, found, saw, asked>>

(* get_cluster, before a source is made for it or it is tested; and        *)
(* get_data_source, before it is changed or tested.                        *)
Find(q) ==
  LET rows == IF op[q].kind \in {"create_source", "test_cluster"}
              THEN clusters ELSE sources
      row == WithId(rows, op[q].id) IN
  /\ step[q] = "find" /\ op[q].kind # "create_cluster"
  /\ found' = [found EXCEPT ![q] = row]
  /\ IF row = {} THEN Fail(q, 404) ELSE Proceed(q, 200)
  /\ UNCHANGED <<environment, tables, op, saw, asked>>

(* What a request reads again for the body of its answer.                  *)
Written(q) ==
  CASE op[q].kind = "create_cluster" -> WithId(clusters, op[q].id)
    [] op[q].kind = "put_settings" -> {}
    [] OTHER -> WithId(sources, op[q].id)

(* The row may have been deleted since the commit: the body is null then,  *)
(* which is no dict, and the answer a 500.                                 *)
ReadBack(q) ==
  /\ step[q] = "read"
  /\ found' = [found EXCEPT ![q] = Written(q)]
  /\ IF Written(q) = {} /\ op[q].kind # "put_settings" THEN Fail(q, 500)
     ELSE Proceed(q, IF op[q].kind \in {"create_cluster", "create_source"} THEN 201 ELSE 200)
  /\ UNCHANGED <<environment, tables, op, saw, asked>>

-----------------------------------------------------------------------------
(***************************************************************************)
(* Probes.                                                                 *)
(***************************************************************************)

(* Which server is asked, and as whom: a kubeconfig may name the server.   *)
Own == IF inCluster THEN {"own"} ELSE {}

Servers(c) ==
  IF c.url THEN {"given"}
  ELSE IF c.auth = "kubeconfig" /\ inCluster THEN {"kubeconfig"} \union Own ELSE Own

CredentialOf(c) ==
  IF c.auth # "none" THEN c.auth ELSE IF inCluster THEN "account" ELSE "nothing"

(* A credential is read from a Secret of the cluster the engine runs in.   *)
MayAsk(c) == c.auth # "none" => inCluster

(* probe: "reachable" only if GET /version answers 200 (urlopen raises for *)
(* 401 and 403); without a server, the Secret or what it must hold, nobody *)
(* is asked.                                                               *)
KubeProbe(q, row, c) ==
  \/ /\ MayAsk(c)
     /\ \E s \in Servers(c), v \in {"reachable", "unreachable"} :
          /\ saw' = [saw EXCEPT ![q] = v]
          /\ asked' = asked \union
               {[row |-> row, server |-> s, credential |-> CredentialOf(c), outcome |-> v]}
  \/ /\ c.auth # "none" \/ Servers(c) = {}
     /\ saw' = [saw EXCEPT ![q] = "unreachable"]
     /\ UNCHANGED asked

ProbeCluster(q) ==
  /\ At(q, "probe", "test_cluster")
  /\ \E r \in found[q] : KubeProbe(q, r.by, r.config)
  /\ Proceed(q, 200)
  /\ UNCHANGED <<environment, tables, op, found>>

(* POST /clusters:test, which refuses an empty form.                       *)
ProbeConnection(q) ==
  /\ At(q, "probe", "test_connection")
  /\ IF op[q].config = NoConfig
     THEN saw' = [saw EXCEPT ![q] = "unreachable"] /\ UNCHANGED asked
     ELSE KubeProbe(q, q, op[q].config)
  /\ Proceed(q, 200)
  /\ UNCHANGED <<environment, tables, op, found>>

Unparsable(c) == c.auth = "kubeconfig" /\ MayAsk(c)

(* A kubeconfig that cannot be parsed makes probe raise, before it asks    *)
(* anybody: the request ends in a 500 and records nothing.                 *)
ProbeRaises(q) ==
  /\ step[q] = "probe"
  /\ \/ op[q].kind = "test_cluster" /\ \E r \in found[q] : Unparsable(r.config)
     \/ op[q].kind = "test_connection" /\ Unparsable(op[q].config)
  /\ Fail(q, 500)
  /\ UNCHANGED <<environment, tables, op, found, saw, asked>>

(* _probe_prometheus; other types, and no endpoint, are "unknown".         *)
ProbeSource(q) ==
  /\ At(q, "probe", "test_source")
  /\ \E r \in found[q], v \in {"unknown", "healthy", "unreachable"} :
       /\ saw' = [saw EXCEPT ![q] = v]
       /\ asked' = asked \union
            {[row |-> r.by, server |-> "source", credential |-> "nothing", outcome |-> v]}
  /\ Proceed(q, 200)
  /\ UNCHANGED <<environment, tables, op, found>>

-----------------------------------------------------------------------------
(***************************************************************************)
(* Writes, each committed at once.                                         *)
(***************************************************************************)

(* INSERT: the race for a name is lost here, with an IntegrityError.       *)
InsertCluster(q) ==
  /\ At(q, "write", "create_cluster")
  /\ \E id \in NextId(clusters, issued.clusters) :
       /\ issued' = [issued EXCEPT !.clusters = IF dialect = "postgres" THEN id ELSE @]
       /\ IF Violation(op[q].name)
          THEN Fail(q, 500) /\ UNCHANGED <<clusters, op>>
          ELSE /\ clusters' = clusters \union
                    {[id |-> id, name |-> op[q].name, config |-> op[q].config,
                      status |-> "unknown", by |-> q]}
               /\ op' = [op EXCEPT ![q].id = id]
               /\ Proceed(q, 201)
  /\ UNCHANGED <<environment, sources, settings, found, saw, asked>>

(* ON DELETE CASCADE.  Mutant: the sources stay.                           *)
LeaveSources(id) == UNCHANGED sources

CascadeSources(id) == sources' = {s \in sources : s.cluster # id}

DeleteCluster(q) ==
  /\ At(q, "write", "delete_cluster")
  /\ clusters' = clusters \ WithId(clusters, op[q].id)
  /\ CascadeSources(op[q].id)
  /\ IF op[q].id \in Ids(clusters) THEN Proceed(q, 200) ELSE Fail(q, 404)
  /\ UNCHANGED <<environment, settings, issued, op, found, saw, asked>>

(* UPDATE ... WHERE id: nothing, if the row is gone.  Mutant: no WHERE.    *)
EveryRow(q, r) == TRUE

Concerns(q, r) == r.id = op[q].id

RecordStatus(q) ==
  /\ At(q, "write", "test_cluster")
  /\ clusters' = {IF Concerns(q, r) THEN [r EXCEPT !.status = saw[q]] ELSE r : r \in clusters}
  /\ Proceed(q, 200)
  /\ UNCHANGED <<environment, sources, settings, issued, op, found, saw, asked>>

(* INSERT: the foreign key refuses a cluster deleted meanwhile.            *)
InsertSource(q) ==
  /\ At(q, "write", "create_source")
  /\ \E id \in NextId(sources, issued.sources), c \in found[q] :
       /\ issued' = [issued EXCEPT !.sources = IF dialect = "postgres" THEN id ELSE @]
       /\ IF op[q].id \notin Ids(clusters)
          THEN Fail(q, 500) /\ UNCHANGED <<sources, op>>
          ELSE /\ sources' = sources \union
                    {[id |-> id, cluster |-> op[q].id, values |-> [f \in Fields |-> q],
                      health |-> "none", by |-> q, of |-> c.by]}
               /\ op' = [op EXCEPT ![q].id = id]
               /\ Proceed(q, 201)
  /\ UNCHANGED <<environment, clusters, settings, found, saw, asked>>

(* Only the fields the body gives are set.  Mutant: all of them, as the    *)
(* handler read them.                                                      *)
AllFields(q, values) ==
  [f \in Fields |-> IF f \in op[q].given THEN q
                    ELSE IF found[q] = {} THEN Seed
                    ELSE (CHOOSE r \in found[q] : TRUE).values[f]]

WithGiven(q, values) == [f \in Fields |-> IF f \in op[q].given THEN q ELSE values[f]]

UpdateSource(q) ==
  /\ At(q, "write", "update_source")
  /\ sources' = {IF Concerns(q, s) THEN [s EXCEPT !.values = WithGiven(q, @)] ELSE s :
                   s \in sources}
  /\ Proceed(q, 200)
  /\ UNCHANGED <<environment, clusters, settings, issued, op, found, saw, asked>>

DeleteSource(q) ==
  /\ At(q, "write", "delete_source")
  /\ sources' = sources \ WithId(sources, op[q].id)
  /\ IF op[q].id \in Ids(sources) THEN Proceed(q, 200) ELSE Fail(q, 404)
  /\ UNCHANGED <<environment, clusters, settings, issued, op, found, saw, asked>>

RecordHealth(q) ==
  /\ At(q, "write", "test_source")
  /\ sources' = {IF Concerns(q, s) THEN [s EXCEPT !.health = saw[q]] ELSE s : s \in sources}
  /\ Proceed(q, 200)
  /\ UNCHANGED <<environment, clusters, settings, issued, op, found, saw, asked>>

UpdateSettings(q) ==
  /\ At(q, "write", "put_settings")
  /\ settings' = WithGiven(q, settings)
  /\ Proceed(q, 200)
  /\ UNCHANGED <<environment, clusters, sources, issued, op, found, saw, asked>>

(* sqlite: a run or a collection holds the lock longer than the write      *)
(* waits for it.                                                           *)
Locked(q) ==
  /\ step[q] = "write"
  /\ dialect = "sqlite"
  /\ op[q].kind \in {"update_source", "put_settings"} => op[q].given # {}
  /\ Fail(q, 500)
  /\ UNCHANGED <<environment, tables, op, found, saw, asked>>

Next ==
  \E q \in Requests :
    \/ Ask(q) \/ FindName(q) \/ Find(q) \/ ReadBack(q)
    \/ ProbeCluster(q) \/ ProbeConnection(q) \/ ProbeSource(q) \/ ProbeRaises(q)
    \/ InsertCluster(q) \/ DeleteCluster(q) \/ RecordStatus(q)
    \/ InsertSource(q) \/ UpdateSource(q) \/ DeleteSource(q) \/ RecordHealth(q)
    \/ UpdateSettings(q) \/ Locked(q)

Spec == Init /\ [][Next]_vars

-----------------------------------------------------------------------------
(***************************************************************************)
(* Properties.                                                             *)
(***************************************************************************)

TypeOK ==
  /\ dialect \in Dialects /\ inCluster \in BOOLEAN /\ kinds \in Mixes
  /\ clusters \subseteq ClusterRows /\ sources \subseteq SourceRows
  /\ settings \in [Fields -> Writers]
  /\ issued \in [clusters : Nat, sources : Nat]
  /\ op \in [Requests -> Operations]
  /\ step \in [Requests -> {"idle", "find", "probe", "write", "read", "done"}]
  /\ found \in [Requests -> SUBSET (ClusterRows \union SourceRows)]
  /\ saw \in [Requests -> {"unknown", "healthy", "reachable", "unreachable"}]
  /\ reply \in [Requests -> {0, 200, 201, 404, 409, 500}]
  /\ \A r, s \in clusters : r.id = s.id => r = s
  /\ \A r, s \in sources : r.id = s.id => r = s

(* On sqlite the id of a deleted row may be used again.                    *)
MayReuse(kind) ==
  /\ dialect = "sqlite"
  /\ \E p \in Requests : op[p].kind \in {"delete_cluster", kind} /\ reply[p] = 200

(* Two requests that register one name at once both pass the check of      *)
(* create_cluster (app.py:150-158): one row comes of it, a 201 means that  *)
(* it is the caller's own, as the caller gave it, and whoever was refused, *)
(* by 409 or by 500, left nothing behind.                                  *)
OneWinnerPerName ==
  /\ \A r, s \in clusters : r.name = s.name => r = s
  /\ \A q \in Requests : op[q].kind = "create_cluster" /\ reply[q] # 0 =>
       LET own == {r \in clusters : r.by = q} IN
       /\ reply[q] # 201 => own = {}
       /\ reply[q] = 201 =>
            \/ MayReuse("delete_cluster")
            \/ \A r \in found[q] \union own :
                 r.by = q /\ r.id = op[q].id /\ r.config = op[q].config

(* A source belongs to the cluster the request found, though it was deleted*)
(* before the INSERT (app.py:226-234), and does not survive it.            *)
SourcesFollowTheirCluster ==
  \A s \in sources :
    \E c \in clusters : c.id = s.cluster /\ (MayReuse("delete_cluster") \/ c.by = s.of)

(* What is stored of a connection (app.py:195-208, 256-265) was found by   *)
(* asking for that very row, however long the probe took and whatever      *)
(* became of the row meanwhile; "reachable" is what the server it names    *)
(* said to the credential it names, or to an engine inside the cluster;    *)
(* and a form without URL and credential is never reachable.               *)
OutcomesWereProbed ==
  /\ \A r \in clusters : r.status = "reachable" =>
       \/ MayReuse("delete_cluster")
       \/ \E a \in asked :
            /\ a.row = r.by /\ a.outcome = "reachable"
            /\ r.config.url => a.server = "given"
            /\ r.config.auth # "none" => a.credential = r.config.auth
  /\ \A s \in sources : s.health # "none" =>
       \/ MayReuse("delete_source")
       \/ \E a \in asked : a.row = s.by /\ a.server = "source" /\ a.outcome = s.health
  /\ \A q \in Requests : op[q].kind = "test_connection" /\ saw[q] = "reachable" =>
       op[q].config # NoConfig /\ \E a \in asked : a.row = q /\ a.outcome = "reachable"

Gave(w, f) == w \in Requests /\ f \in op[w].given

(* Partial updates do not undo each other (statestore.py:443-460, 480-492):*)
(* a field of a source or of the settings changes only to what a request   *)
(* gave for that field.                                                    *)
OnlyGivenChanges ==
  \A f \in Fields :
    /\ settings'[f] # settings[f] => Gave(settings'[f], f)
    /\ \A s \in sources, t \in sources' :
         s.by = t.by /\ t.values[f] # s.values[f] => Gave(t.values[f], f)

UpdatesKeepEachOther == [][OnlyGivenChanges]_vars

=============================================================================
