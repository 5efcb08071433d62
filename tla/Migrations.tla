----------------------------- MODULE Migrations -----------------------------
(***************************************************************************)
(* The schema of the state database: who makes it, and in which steps.     *)
(*                                                                         *)
(* Every collector process brings the schema up to date before it does     *)
(* anything else: the migrate job of the chart, the trigger service, every *)
(* collection job.  Nothing keeps them apart but the database.  Each       *)
(* applies the migrations that schema_migrations did not list when it      *)
(* looked, a transaction per migration, and gives up at the first error,   *)
(* which may be to have made that table itself at the wrong moment.        *)
(* Whoever runs the process starts it again.                               *)
(*                                                                         *)
(* On sqlite the engine can make the schema too (init-db, run --synthetic) *)
(* out of the same scripts, without a transaction and without a record.    *)
(***************************************************************************)
EXTENDS Integers, Sequences

CONSTANTS
  Collectors,  \* collector processes
  Engines,     \* engine processes that make a schema
  Dialects,    \* what the database may be
  MaxFaults    \* bound: connections lost, waits that time out, crashes

ASSUME DialectsAssumption == Dialects \subseteq {"sqlite", "postgres"}
ASSUME ProcessesAssumption == Collectors \intersect (Engines \union {"old"}) = {}
ASSUME FaultsAssumption == MaxFaults \in Nat

Processes == Collectors \union Engines
Versions == 1 .. 3

VARIABLES
  dialect,   \* of the database
  ledger,    \* there is a table schema_migrations
  db,        \* what else is committed
  tx,        \* what a process sees inside its transaction
  pc,        \* where a process is
  applied,   \* versions a collector takes for applied
  executed,  \* statements a process has executed, of its script
  faults     \* number of faults so far

vars == <<dialect, ledger, db, tx, pc, applied, executed, faults>>

-----------------------------------------------------------------------------
(***************************************************************************)
(* The scripts.  Of every script there are the objects that tell who has   *)
(* been where: the first, the one apply_schema looks for, and the last.    *)
(* sqlite cannot drop a constraint: its third script builds metric_samples *)
(* anew.                                                                   *)
(***************************************************************************)
Rebuild == <<"metric_samples_new", "copy", "drop", "rename">>

Script(v) ==
  CASE v = 1 -> <<"clusters", "metric_samples", "analysis_runs">>
    [] v = 2 -> <<"run_type", "allocations">>
    [] v = 3 -> IF dialect = "sqlite" THEN Rebuild ELSE <<"free_text">>

Objects(v) ==
  CASE v = 1 -> {"clusters", "metric_samples", "analysis_runs"}
    [] v = 2 -> {"run_type", "allocations"}
    [] v = 3 -> {"free_text"}

SchemaOf(versions) == UNION {Objects(v) : v \in versions}

(* The rows of metric_samples: those of before, and one for each writer.   *)
Samples == Collectors \union {"old"}

Content ==
  [schema : SUBSET (SchemaOf(Versions) \union {"metric_samples_new"}),
   samples : SUBSET Samples, copied : SUBSET Samples, recorded : SUBSET Versions]

(* A statement fails on an object that is there already.  The parts of the *)
(* rebuild are no objects, and can be done again.                          *)
Runs(statement, content) == statement \notin content.schema

After(statement, content) ==
  CASE statement = "copy" -> [content EXCEPT !.copied = content.samples]
    [] statement = "drop" ->
         [content EXCEPT !.schema = @ \ {"metric_samples"}, !.samples = {}]
    [] statement = "rename" ->
         [content EXCEPT
            !.schema = (@ \ {"metric_samples_new"}) \union {"metric_samples", "free_text"},
            !.samples = content.copied, !.copied = {}]
    [] OTHER -> [content EXCEPT !.schema = @ \union {statement}]

-----------------------------------------------------------------------------
(* A new database, or one that an earlier release of the collector left.   *)
Left(n) ==
  [schema |-> SchemaOf(1 .. n), samples |-> IF n = 0 THEN {} ELSE {"old"},
   copied |-> {}, recorded |-> 1 .. n]

Init ==
  /\ dialect \in Dialects
  /\ \E n \in {0} \union Versions : db = Left(n) /\ ledger = (n > 0)
  /\ tx = [p \in Processes |-> Left(0)]
  /\ pc = [p \in Processes |-> "idle"]
  /\ applied = [p \in Processes |-> {}]
  /\ executed = [p \in Processes |-> 0]
  /\ faults = 0

-----------------------------------------------------------------------------
(***************************************************************************)
(* A collector.                                                            *)
(***************************************************************************)
(* The files are taken in the order of their names.  Mutant: as they come. *)
Pending(p) == Versions \ applied[p]

InAnyOrder(p, v) == v \in Pending(p)

IsNext(p, v) == v \in Pending(p) /\ \A u \in Pending(p) : v <= u

Migrating(p, v) == pc[p] = "migrating" /\ IsNext(p, v)

(* Mutant of the failure: what was executed is not rolled back.            *)
KeepsTx(p) == pc' = [pc EXCEPT ![p] = "failed"] /\ UNCHANGED <<applied, executed>>

(* Mutant of the failure: on to the next migration.                        *)
GoesOn(p) ==
  /\ \E v \in Versions : IsNext(p, v) /\ applied' = [applied EXCEPT ![p] = @ \union {v}]
  /\ executed' = [executed EXCEPT ![p] = 0]
  /\ UNCHANGED pc

(* The transaction is rolled back, and runMigrations returns the error.    *)
GiveUp(p) ==
  /\ pc' = [pc EXCEPT ![p] = "failed"]
  /\ executed' = [executed EXCEPT ![p] = 0]
  /\ UNCHANGED applied

(* CREATE TABLE IF NOT EXISTS schema_migrations: it is there, or sqlite,   *)
(* with its one writer, looks and makes it at once.                        *)
EnsureLedger(p) ==
  /\ pc[p] = "idle" /\ (ledger \/ dialect = "sqlite")
  /\ pc' = [pc EXCEPT ![p] = "listing"]
  /\ ledger' = TRUE
  /\ UNCHANGED <<dialect, db, tx, applied, executed, faults>>

(* On postgres two may look and find none: the first to make it goes on,   *)
(* and to the other its name is taken.                                     *)
MissLedger(p) ==
  /\ pc[p] = "idle" /\ ~ledger /\ dialect = "postgres"
  /\ pc' = [pc EXCEPT ![p] = "absent"]
  /\ UNCHANGED <<dialect, ledger, db, tx, applied, executed, faults>>

MakeLedger(p) ==
  /\ pc[p] = "absent" /\ ~ledger
  /\ pc' = [pc EXCEPT ![p] = "listing"]
  /\ ledger' = TRUE
  /\ UNCHANGED <<dialect, db, tx, applied, executed, faults>>

FindsNameTaken(p) ==
  /\ pc[p] = "absent" /\ ledger
  /\ GiveUp(p)
  /\ UNCHANGED <<dialect, ledger, db, tx, faults>>

(* appliedVersions.  Mutant: nothing is remembered.                        *)
Nothing == {}

Recorded == db.recorded

ReadApplied(p) ==
  /\ pc[p] = "listing"
  /\ pc' = [pc EXCEPT ![p] = "migrating"]
  /\ applied' = [applied EXCEPT ![p] = Recorded]
  /\ UNCHANGED <<dialect, ledger, db, tx, executed, faults>>

(* sqlite has one lock for all writers.  In postgres a statement waits for *)
(* a transaction that has made the object it is about to make.             *)
Blocked(p, statement) ==
  \E q \in Collectors \ {p} :
    /\ executed[q] > 0
    /\ dialect = "sqlite" \/ statement \in tx[q].schema \ db.schema

(* Statements are executed in a transaction, whose first takes what is     *)
(* committed.  Mutant: each commits.                                       *)
Sees(p) == IF executed[p] = 0 THEN db ELSE tx[p]

EachCommits(p, content) ==
  tx' = [tx EXCEPT ![p] = content] /\ db' = content

InTransaction(p, content) ==
  tx' = [tx EXCEPT ![p] = content] /\ UNCHANGED db

Execute(p, v) ==
  /\ Migrating(p, v) /\ executed[p] < Len(Script(v))
  /\ LET statement == Script(v)[executed[p] + 1] IN
       \/ /\ ~Blocked(p, statement) /\ Runs(statement, Sees(p))
          /\ InTransaction(p, After(statement, Sees(p)))
          /\ executed' = [executed EXCEPT ![p] = @ + 1]
          /\ UNCHANGED <<pc, applied>>
       \/ /\ ~Blocked(p, statement) /\ ~Runs(statement, Sees(p))
          /\ GiveUp(p)
          /\ UNCHANGED <<db, tx>>
  /\ UNCHANGED <<dialect, ledger, faults>>

(* The version is recorded last, and its key is unique.  On postgres the   *)
(* samples are not the transaction's to write.                             *)
Published(p, v) ==
  [tx[p] EXCEPT !.samples = IF dialect = "sqlite" THEN @ ELSE db.samples,
                !.recorded = db.recorded \union {v}]

Executed(p, v) == Migrating(p, v) /\ executed[p] = Len(Script(v))

Commit(p, v) ==
  /\ Executed(p, v) /\ v \notin db.recorded
  /\ db' = Published(p, v)
  /\ applied' = [applied EXCEPT ![p] = @ \union {v}]
  /\ executed' = [executed EXCEPT ![p] = 0]
  /\ UNCHANGED <<dialect, ledger, tx, pc, faults>>

RecordedTwice(p, v) ==
  /\ Executed(p, v) /\ v \in db.recorded
  /\ GiveUp(p)
  /\ UNCHANGED <<dialect, ledger, db, tx, faults>>

(* The schema is up to date, and the process goes on to its work.          *)
FindsAllApplied(p) ==
  /\ pc[p] = "migrating" /\ Pending(p) = {}
  /\ pc' = [pc EXCEPT ![p] = "done"]
  /\ UNCHANGED <<dialect, ledger, db, tx, applied, executed, faults>>

(* The lock is not had in five seconds, the connection is lost, or the     *)
(* process killed; the ledger may have been made all the same.             *)
Fault(p) ==
  /\ pc[p] \in {"idle", "absent", "listing", "migrating"} /\ faults < MaxFaults
  /\ faults' = faults + 1
  /\ GiveUp(p)
  /\ UNCHANGED ledger \/ (pc[p] \in {"idle", "absent"} /\ ledger' = TRUE)
  /\ UNCHANGED <<dialect, db, tx>>

(* The same, after the commit and before the answer to it.                 *)
CommitUnacknowledged(p, v) ==
  /\ Executed(p, v) /\ v \notin db.recorded /\ faults < MaxFaults
  /\ faults' = faults + 1
  /\ db' = Published(p, v)
  /\ GiveUp(p)
  /\ UNCHANGED <<dialect, ledger, tx>>

Retry(p) ==
  /\ pc[p] = "failed"
  /\ pc' = [pc EXCEPT ![p] = "idle"]
  /\ UNCHANGED <<dialect, ledger, db, tx, applied, executed, faults>>

(* A collection, as far as its samples go.                                 *)
Collect(p) ==
  /\ pc[p] = "done" /\ p \in Collectors \ db.samples
  /\ dialect = "sqlite" => \A q \in Collectors : executed[q] = 0
  /\ db' = [db EXCEPT !.samples = @ \union {p}]
  /\ UNCHANGED <<dialect, ledger, tx, pc, applied, executed, faults>>

-----------------------------------------------------------------------------
(***************************************************************************)
(* The engine (apply_schema): it looks for metric_samples, and if there is *)
(* none executes all the scripts, each statement on its own.               *)
(***************************************************************************)
WholeScript == Script(1) \o Script(2) \o Script(3)

TableExists(e) ==
  /\ pc[e] = "idle" /\ dialect = "sqlite"
  /\ pc' = [pc EXCEPT ![e] = IF "metric_samples" \in db.schema THEN "done" ELSE "creating"]
  /\ executed' = [executed EXCEPT ![e] = 0]
  /\ UNCHANGED <<dialect, ledger, db, tx, applied, faults>>

ExecuteScript(e) ==
  /\ pc[e] = "creating"
  /\ \A q \in Collectors : executed[q] = 0
  /\ IF executed[e] = Len(WholeScript)
     THEN pc' = [pc EXCEPT ![e] = "done"] /\ UNCHANGED <<db, executed>>
     ELSE LET statement == WholeScript[executed[e] + 1] IN
          IF Runs(statement, db)
          THEN /\ db' = After(statement, db)
               /\ executed' = [executed EXCEPT ![e] = @ + 1]
               /\ UNCHANGED pc
          ELSE pc' = [pc EXCEPT ![e] = "failed"] /\ UNCHANGED <<db, executed>>
  /\ UNCHANGED <<dialect, ledger, tx, applied, faults>>

Kill(e) ==
  /\ pc[e] = "creating"
  /\ pc' = [pc EXCEPT ![e] = "failed"]
  /\ UNCHANGED <<dialect, ledger, db, tx, applied, executed, faults>>

-----------------------------------------------------------------------------
Migrate(p) ==
  \/ EnsureLedger(p)
  \/ MissLedger(p)
  \/ MakeLedger(p) \/ FindsNameTaken(p)
  \/ ReadApplied(p)
  \/ \E v \in Versions : Execute(p, v) \/ Commit(p, v) \/ RecordedTwice(p, v)
  \/ FindsAllApplied(p)
  \/ Retry(p)

Next ==
  \/ \E p \in Collectors :
       \/ Migrate(p)
       \/ Fault(p)
       \/ \E v \in Versions : CommitUnacknowledged(p, v)
       \/ Collect(p)
  \/ \E e \in Engines :
       \/ TableExists(e)
       \/ ExecuteScript(e)
       \/ Kill(e)
       \/ Retry(e)

Spec == Init /\ [][Next]_vars

(* A process that is not killed goes on, and one that ended is started     *)
(* again: by the deployment, the job's back-off, the schedule.             *)
FairSpec == Spec /\ \A p \in Collectors : WF_vars(Migrate(p))

-----------------------------------------------------------------------------
(***************************************************************************)
(* Properties.                                                             *)
(***************************************************************************)

(* Types; a transaction is open only while its process migrates, and on    *)
(* sqlite no two are open.                                                 *)
TypeOK ==
  /\ dialect \in Dialects
  /\ ledger \in BOOLEAN
  /\ db \in Content
  /\ tx \in [Processes -> Content]
  /\ pc \in [Processes -> {"idle", "absent", "listing", "migrating", "creating", "done", "failed"}]
  /\ applied \in [Processes -> SUBSET Versions]
  /\ executed \in [Processes -> 0 .. 9]
  /\ faults \in 0 .. MaxFaults
  /\ \A p \in Collectors : executed[p] > 0 => pc[p] = "migrating"
  /\ dialect = "sqlite" =>
       \A p, q \in Collectors : executed[p] > 0 /\ executed[q] > 0 => p = q

(* A collector that gets past Migrate finds every table and column of its  *)
(* release, then and ever after, whoever else was at the schema with it    *)
(* (cmdIngest and cmdServe go on only without an error, main.go:150, 257). *)
DoneMeansComplete ==
  \A p \in Collectors : pc[p] = "done" => SchemaOf(Versions) \subseteq db.schema

(* What is recorded is a prefix of the migrations, and is all there is in  *)
(* the schema: no half of a migration is ever committed, and the engine    *)
(* and a collector never both have a part in one schema                    *)
(* (applyMigration, migrate.go:81-99; apply_schema, statestore.py:102-109).*)
RecordsTellTheSchema ==
  /\ \E n \in {0} \union Versions : db.recorded = 1 .. n
  /\ db.recorded # {} => db.schema = SchemaOf(db.recorded)

(* Samples outlive the rebuild of their table, those of before and those   *)
(* that another collector writes while a late one rebuilds the table once  *)
(* more (sqlite/0003_freetext_and_interactions.sql).                       *)
NoSampleLost == [][db.samples \subseteq db'.samples]_vars

(* Unless an engine has made a schema, every collector gets past Migrate   *)
(* in the end, although each may make another fail (migrate.go:24-62).     *)
CollectorsGetDone ==
  \/ <>(\E e \in Engines : pc[e] = "creating")
  \/ \A p \in Collectors : <>(pc[p] = "done")

=============================================================================
