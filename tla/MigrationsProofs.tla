-------------------------- MODULE MigrationsProofs ---------------------------
(***************************************************************************)
(* Proofs about Migrations, for any number of collectors and engines.      *)
(*                                                                         *)
(*   TypeCorrect       types, and one transaction at a time on sqlite;     *)
(*   CompleteCorrect   a collector past Migrate has its whole schema;      *)
(*   RecordsCorrect    records are the schema, and none is of an engine;   *)
(*   SamplesCorrect    no step loses a sample;                             *)
(*   OvertakenCorrect  without a fault only the overtaken fail;            *)
(*   EffortsEnd        a collector takes a bounded number of steps;        *)
(*   NobodyGetsStuck   whoever waits, waits for one that goes on.          *)
(*                                                                         *)
(* The one idea: whoever has executed a statement of a script is alone     *)
(* with the schema until its transaction ends, on sqlite because of the    *)
(* lock, on postgres because everyone else finds the object made, or waits *)
(* for it.  So what a transaction holds is what is committed plus what the *)
(* statements so far do to it.                                             *)
(***************************************************************************)
EXTENDS Migrations, TLAPS

-----------------------------------------------------------------------------
(* What statements 1 .. k of a script make of the committed schema.        *)
SchemaAfter(v, k) ==
  IF v = 3 /\ dialect = "sqlite"
  THEN IF k = 4 THEN db.schema \union {"free_text"}
       ELSE {"metric_samples_new"} \union
              (IF k = 3 THEN db.schema \ {"metric_samples"} ELSE db.schema)
  ELSE db.schema \union {Script(v)[i] : i \in 1 .. k}

(* And what they make of the samples, which on sqlite nobody else writes.  *)
SamplesAfter(v, k, content) ==
  /\ content.samples = IF v = 3 /\ k = 3 THEN {} ELSE db.samples
  /\ v = 3 /\ k \in {2, 3} => content.copied = db.samples

(* The schema is the collectors' or, on sqlite, that of an engine, which   *)
(* nothing records.                                                        *)
Honest ==
  \E n \in {0} \union Versions :
    db.recorded = 1 .. n /\ db.schema = SchemaOf(1 .. n)

Foreign == dialect = "sqlite" /\ db.recorded = {} /\ "clusters" \in db.schema

OneAtATime == \A p, q \in Collectors : executed[p] > 0 /\ executed[q] > 0 => p = q

TxFollows ==
  \A p \in Collectors : executed[p] > 0 =>
    /\ Honest
    /\ \E v \in Versions :
         /\ IsNext(p, v) /\ executed[p] <= Len(Script(v))
         /\ v \in db.recorded => v = 3 /\ dialect = "sqlite"
         /\ tx[p].schema = SchemaAfter(v, executed[p])
         /\ dialect = "sqlite" => SamplesAfter(v, executed[p], tx[p])

AppliedAreRecorded ==
  \A p \in Collectors :
    /\ applied[p] \subseteq db.recorded
    /\ pc[p] = "done" => applied[p] = Versions
    /\ pc[p] # "creating"

EnginesLeaveTraces ==
  \A e \in Engines :
    /\ pc[e] = "creating" => dialect = "sqlite" /\ (executed[e] > 0 => Foreign)

Inv ==
  /\ TypeOK
  /\ Honest \/ Foreign
  /\ db.recorded = {} => db.samples = {} /\ db.copied = {}
  /\ OneAtATime /\ TxFollows /\ AppliedAreRecorded /\ EnginesLeaveTraces

-----------------------------------------------------------------------------
(***************************************************************************)
(* The scripts.                                                            *)
(***************************************************************************)
LEMMA Scripts ==
  /\ Len(Script(1)) = 3 /\ Script(1)[1] = "clusters"
  /\ Script(1)[2] = "metric_samples" /\ Script(1)[3] = "analysis_runs"
  /\ Len(Script(2)) = 2 /\ Script(2)[1] = "run_type" /\ Script(2)[2] = "allocations"
  /\ dialect = "sqlite" =>
       /\ Len(Script(3)) = 4 /\ Script(3)[1] = "metric_samples_new"
       /\ Script(3)[2] = "copy" /\ Script(3)[3] = "drop" /\ Script(3)[4] = "rename"
  /\ dialect # "sqlite" => Len(Script(3)) = 1 /\ Script(3)[1] = "free_text"
BY DEF Script, Rebuild

LEMMA Schemas ==
  /\ SchemaOf({}) = {}
  /\ SchemaOf(1 .. 0) = {}
  /\ SchemaOf(1 .. 1) = {"clusters", "metric_samples", "analysis_runs"}
  /\ SchemaOf(1 .. 2) = SchemaOf(1 .. 1) \union {"run_type", "allocations"}
  /\ SchemaOf(1 .. 3) = SchemaOf(1 .. 2) \union {"free_text"}
  /\ SchemaOf(Versions) = SchemaOf(1 .. 3)
<1>1. 1 .. 0 = {} /\ 1 .. 1 = {1} /\ 1 .. 2 = {1, 2} /\ 1 .. 3 = {1, 2, 3}
  OBVIOUS
<1>2. SchemaOf({}) = {} /\ SchemaOf({1}) = Objects(1)
  BY DEF SchemaOf
<1>3. SchemaOf({1, 2}) = Objects(1) \union Objects(2)
  BY DEF SchemaOf
<1>4. SchemaOf({1, 2, 3}) = Objects(1) \union Objects(2) \union Objects(3)
  BY DEF SchemaOf
<1> QED BY <1>1, <1>2, <1>3, <1>4 DEF Objects, Versions

LEMMA AllScripts ==
  dialect = "sqlite" =>
    /\ Len(WholeScript) = 9 /\ WholeScript[1] = "clusters"
    /\ \A i \in 1 .. 9 :
         WholeScript[i] \in {"clusters", "metric_samples", "analysis_runs", "run_type",
                             "allocations", "metric_samples_new", "copy", "drop", "rename"}
<1>1. dialect = "sqlite" => Len(WholeScript) = 9
  BY DEF WholeScript, Script, Rebuild
<1>2. /\ WholeScript[1] = "clusters" /\ WholeScript[2] = "metric_samples"
      /\ WholeScript[3] = "analysis_runs" /\ WholeScript[4] = "run_type"
      /\ WholeScript[5] = "allocations"
  BY DEF WholeScript, Script, Rebuild
<1>3. dialect = "sqlite" =>
        /\ WholeScript[6] = "metric_samples_new" /\ WholeScript[7] = "copy"
        /\ WholeScript[8] = "drop" /\ WholeScript[9] = "rename"
  BY DEF WholeScript, Script, Rebuild
<1>4. 1 .. 9 = {1, 2, 3, 4, 5, 6, 7, 8, 9}
  OBVIOUS
<1> QED BY <1>1, <1>2, <1>3, <1>4

Statements ==
  {"clusters", "metric_samples", "analysis_runs", "run_type", "allocations",
   "metric_samples_new", "copy", "drop", "rename", "free_text"}

LEMMA SchemaType ==
  SchemaOf(Versions) = {"clusters", "metric_samples", "analysis_runs", "run_type",
                        "allocations", "free_text"}
BY Schemas

LEMMA AfterType ==
  ASSUME NEW statement \in Statements, NEW content \in Content
  PROVE  After(statement, content) \in Content
BY SchemaType DEF After, Content, Statements

-----------------------------------------------------------------------------
(***************************************************************************)
(* Every step preserves the invariant.                                     *)
(***************************************************************************)
LEMMA InitInv == Init => Inv
<1> SUFFICES ASSUME Init PROVE Inv
  OBVIOUS
<1> USE DialectsAssumption, ProcessesAssumption, FaultsAssumption
<1>1. PICK n \in {0} \union Versions : db = Left(n)
  BY DEF Init
<1>2. /\ SchemaOf(1 .. n) \subseteq SchemaOf(Versions) /\ 1 .. n \subseteq Versions
      /\ 1 .. n = {} => n = 0
  BY DEF Versions, SchemaOf
<1>3. Left(0) \in Content /\ Left(n) \in Content
  <2>1. 1 .. 0 = {} /\ SchemaOf({}) = {}
    BY Schemas
  <2> QED BY <1>2, <2>1 DEF Left, Content, Samples
<1>4. TypeOK
  BY <1>1, <1>3 DEF Init, TypeOK, Processes
<1>5. Honest
  BY <1>1 DEF Honest, Left
<1>6. db.recorded = {} => db.samples = {} /\ db.copied = {}
  BY <1>1, <1>2 DEF Left
<1> QED BY <1>4, <1>5, <1>6
      DEF Init, Inv, OneAtATime, TxFollows, AppliedAreRecorded, EnginesLeaveTraces, Processes

(* A collector that executes a statement is alone with an honest schema.   *)
LEMMA Alone ==
  ASSUME Inv, NEW p \in Collectors, NEW v \in Versions,
         Migrating(p, v), executed[p] < Len(Script(v)),
         ~Blocked(p, Script(v)[executed[p] + 1]),
         Runs(Script(v)[executed[p] + 1], Sees(p))
  PROVE  /\ Honest
         /\ \A q \in Collectors \ {p} : executed[q] = 0
         /\ v \in db.recorded => v = 3 /\ dialect = "sqlite"
<1> USE DialectsAssumption, ProcessesAssumption DEF Inv
<1>1. executed[p] \in Nat /\ \A q \in Collectors : executed[q] \in Nat
  BY DEF TypeOK, Processes
<1>2. CASE executed[p] > 0
  <2>1. PICK u \in Versions : IsNext(p, u) /\ (u \in db.recorded => u = 3 /\ dialect = "sqlite")
    BY <1>2 DEF TxFollows
  <2>2. u = v
    BY <2>1 DEF Migrating, IsNext, Versions, Pending
  <2> QED BY <1>1, <1>2, <2>1, <2>2 DEF TxFollows, OneAtATime
<1>3. CASE executed[p] = 0
  <2>1. Script(v)[1] \notin db.schema
    BY <1>3 DEF Runs, Sees
  <2>2. \A u \in 1 .. v - 1 : u \in applied[p] /\ u \in db.recorded
    BY DEF Migrating, IsNext, Pending, AppliedAreRecorded, Versions
  <2>3. Honest
    <3> SUFFICES ASSUME Foreign PROVE FALSE
      OBVIOUS
    <3>1. v = 1
      BY <2>2 DEF Foreign, Versions
    <3> QED BY <2>1, <3>1, Scripts DEF Foreign
  <2>4. PICK n \in {0} \union Versions : db.recorded = 1 .. n /\ db.schema = SchemaOf(1 .. n)
    BY <2>3 DEF Honest
  <2>5. v \in db.recorded => v = 3 /\ dialect = "sqlite"
    <3> SUFFICES ASSUME v <= n PROVE v = 3 /\ dialect = "sqlite"
      BY <2>4 DEF Versions
    <3>1. v \in 1 .. n
      BY DEF Versions
    <3>2. Objects(v) \subseteq db.schema
      BY <2>4, <3>1 DEF SchemaOf
    <3> QED BY <2>1, <3>2, Scripts DEF Objects, Versions
  <2>6. ASSUME NEW q \in Collectors \ {p}, executed[q] > 0 PROVE FALSE
    <3>1. dialect = "postgres"
      BY <1>3, <2>6 DEF Blocked, TypeOK
    <3>2. PICK u \in Versions :
            /\ IsNext(q, u) /\ executed[q] <= Len(Script(u))
            /\ u \notin db.recorded
            /\ tx[q].schema = SchemaAfter(u, executed[q])
      BY <2>6, <3>1 DEF TxFollows
    <3>3. \A w \in 1 .. u - 1 : w \in db.recorded
      BY <3>2 DEF IsNext, Pending, AppliedAreRecorded, Versions
    <3>4. u = v
      BY <2>2, <2>4, <2>5, <3>1, <3>2, <3>3 DEF Versions
    <3>5. Script(v)[1] \in tx[q].schema
      <4>1. 1 \in 1 .. executed[q]
        BY <1>1, <2>6
      <4> QED BY <3>1, <3>2, <3>4, <4>1 DEF SchemaAfter
    <3> QED BY <1>3, <2>1, <2>6, <3>5 DEF Blocked
  <2> QED BY <1>1, <2>3, <2>5, <2>6
<1> QED BY <1>1, <1>2, <1>3

(* Steps that leave what is committed alone, and open no transaction.      *)
LEMMA QuietStep ==
  ASSUME Inv, NEW p \in Processes, UNCHANGED <<dialect, db, tx>>, faults' \in 0 .. MaxFaults,
         TypeOK',
         \A q \in Processes : q # p =>
           pc'[q] = pc[q] /\ applied'[q] = applied[q] /\ executed'[q] = executed[q],
         executed'[p] = 0 \/ (executed'[p] = executed[p] /\ applied'[p] = applied[p]),
         p \in Collectors => applied'[p] \subseteq db.recorded /\ pc'[p] # "creating",
         p \in Collectors /\ pc'[p] = "done" => applied'[p] = Versions,
         p \in Engines /\ pc'[p] = "creating" =>
           dialect = "sqlite" /\ (executed'[p] > 0 => Foreign)
  PROVE  Inv'
<1> USE DEF Inv
<1>1. (Honest \/ Foreign)' /\ (Honest <=> Honest') /\ (Foreign <=> Foreign')
  BY DEF Honest, Foreign
<1>2. (db.recorded = {} => db.samples = {} /\ db.copied = {})'
  OBVIOUS
<1>3. \A q \in Collectors : executed'[q] > 0 => executed[q] > 0 /\ applied'[q] = applied[q]
                                                  /\ executed'[q] = executed[q]
  BY DEF Processes
<1>4. OneAtATime'
  BY <1>3 DEF OneAtATime
<1>5. TxFollows'
  <2> SUFFICES ASSUME NEW q \in Collectors, executed'[q] > 0
               PROVE  /\ Honest'
                      /\ \E v \in Versions :
                           (/\ IsNext(q, v) /\ executed[q] <= Len(Script(v))
                            /\ v \in db.recorded => v = 3 /\ dialect = "sqlite"
                            /\ tx[q].schema = SchemaAfter(v, executed[q])
                            /\ dialect = "sqlite" => SamplesAfter(v, executed[q], tx[q]))'
    BY DEF TxFollows
  <2>1. executed[q] > 0 /\ applied'[q] = applied[q] /\ executed'[q] = executed[q]
    BY <1>3
  <2>2. PICK v \in Versions :
          /\ IsNext(q, v) /\ executed[q] <= Len(Script(v))
          /\ v \in db.recorded => v = 3 /\ dialect = "sqlite"
          /\ tx[q].schema = SchemaAfter(v, executed[q])
          /\ dialect = "sqlite" => SamplesAfter(v, executed[q], tx[q])
    BY <2>1 DEF TxFollows
  <2>3. IsNext(q, v)'
    BY <2>1, <2>2 DEF IsNext, Pending
  <2>4. /\ Script(v)' = Script(v)
        /\ SchemaAfter(v, executed[q])' = SchemaAfter(v, executed[q])
        /\ SamplesAfter(v, executed[q], tx[q])' <=> SamplesAfter(v, executed[q], tx[q])
    BY <2>1 DEF Script, Rebuild, SchemaAfter, SamplesAfter
  <2>5. Honest'
    BY <1>1, <2>1 DEF TxFollows
  <2> QED BY <2>1, <2>2, <2>3, <2>4, <2>5
<1>6. AppliedAreRecorded'
  BY DEF AppliedAreRecorded, Processes
<1>7. EnginesLeaveTraces'
  BY <1>1, ProcessesAssumption DEF EnginesLeaveTraces, Processes
<1> QED BY <1>1, <1>2, <1>4, <1>5, <1>6, <1>7

LEMMA GiveUpInv ==
  ASSUME Inv, NEW p \in Collectors, GiveUp(p), UNCHANGED <<dialect, db, tx>>,
         faults' \in 0 .. MaxFaults, ledger' \in BOOLEAN
  PROVE  Inv'
<1>1. TypeOK'
  BY DEF Inv, TypeOK, GiveUp, Processes
<1>2. executed'[p] = 0 /\ pc'[p] = "failed" /\ applied'[p] \subseteq db.recorded
  BY DEF Inv, TypeOK, GiveUp, Processes, AppliedAreRecorded
<1>3. p \notin Engines /\ p \in Processes
  BY ProcessesAssumption DEF Processes
<1>4. \A q \in Processes : q # p =>
        pc'[q] = pc[q] /\ applied'[q] = applied[q] /\ executed'[q] = executed[q]
  BY DEF Inv, TypeOK, GiveUp
<1>5. p \in Engines /\ pc'[p] = "creating" => FALSE
  BY <1>3
<1> QED BY <1>1, <1>2, <1>3, <1>4, <1>5, QuietStep

(* Steps at the table of records, which have nothing to do with the rest.  *)
LEMMA LedgerInv ==
  ASSUME Inv, NEW p \in Collectors,
         EnsureLedger(p) \/ MissLedger(p) \/ MakeLedger(p) \/ FindsNameTaken(p)
  PROVE  Inv'
<1>1. CASE FindsNameTaken(p)
  <2>1. faults' \in 0 .. MaxFaults /\ ledger' \in BOOLEAN
    BY <1>1 DEF FindsNameTaken, Inv, TypeOK
  <2> QED BY <1>1, <2>1, GiveUpInv DEF FindsNameTaken
<1>2. CASE EnsureLedger(p) \/ MissLedger(p) \/ MakeLedger(p)
  <2>1. /\ pc[p] \in {"idle", "absent"} /\ ledger' \in BOOLEAN
        /\ \E place \in {"listing", "absent"} : pc' = [pc EXCEPT ![p] = place]
        /\ UNCHANGED <<dialect, db, tx, applied, executed, faults>>
    BY <1>2 DEF EnsureLedger, MissLedger, MakeLedger, Inv, TypeOK
  <2>2. p \notin Engines /\ p \in Processes
    BY ProcessesAssumption DEF Processes
  <2>3. pc'[p] \in {"listing", "absent"} /\ \A q \in Processes : q # p => pc'[q] = pc[q]
    BY <2>1, <2>2 DEF Inv, TypeOK
  <2>4. TypeOK'
    <3>1. pc' \in [Processes -> {"idle", "absent", "listing", "migrating", "creating",
                                  "done", "failed"}]
      BY <2>1 DEF Inv, TypeOK
    <3>2. \A q \in Collectors : executed'[q] > 0 => pc'[q] = "migrating"
      BY <2>1, <2>2, <2>3 DEF Inv, TypeOK, Processes
    <3> QED BY <2>1, <3>1, <3>2 DEF Inv, TypeOK
  <2>5. faults' \in 0 .. MaxFaults /\ applied'[p] \subseteq db.recorded
    BY <2>1 DEF Inv, TypeOK, AppliedAreRecorded
  <2> QED BY <2>1, <2>2, <2>3, <2>4, <2>5, QuietStep
<1> QED BY <1>1, <1>2

LEMMA ReadAppliedInv ==
  ASSUME Inv, NEW p \in Collectors, ReadApplied(p) PROVE Inv'
<1>1. TypeOK'
  BY DEF Inv, TypeOK, ReadApplied, Recorded, Processes, Content
<1>2. p \notin Engines /\ p \in Processes
  BY ProcessesAssumption DEF Processes
<1>3. executed[p] = 0
  BY <1>2 DEF Inv, TypeOK, ReadApplied
<1>4. applied'[p] = db.recorded /\ pc'[p] = "migrating"
  BY <1>2 DEF Inv, TypeOK, ReadApplied, Recorded
<1>5. \A q \in Processes : q # p => pc'[q] = pc[q] /\ applied'[q] = applied[q]
  BY DEF Inv, TypeOK, ReadApplied
<1>6. UNCHANGED <<dialect, db, tx, executed>> /\ faults' \in 0 .. MaxFaults
  BY DEF Inv, TypeOK, ReadApplied
<1>7. executed'[p] = 0 /\ \A q \in Processes : executed'[q] = executed[q]
  BY <1>3, <1>6
<1> QED BY <1>1, <1>2, <1>4, <1>5, <1>6, <1>7, QuietStep

LEMMA FindsAllAppliedInv ==
  ASSUME Inv, NEW p \in Collectors, FindsAllApplied(p) PROVE Inv'
<1>1. p \notin Engines /\ p \in Processes
  BY ProcessesAssumption DEF Processes
<1>2. executed[p] = 0
  BY Scripts, DialectsAssumption
     DEF Inv, TypeOK, FindsAllApplied, TxFollows, IsNext, Processes
<1>3. TypeOK'
  BY <1>2 DEF Inv, TypeOK, FindsAllApplied, Processes
<1>4. applied[p] = Versions /\ applied[p] \subseteq db.recorded
  BY <1>1 DEF Inv, TypeOK, FindsAllApplied, Pending, AppliedAreRecorded
<1>5. pc'[p] = "done" /\ \A q \in Processes : q # p => pc'[q] = pc[q]
  BY <1>1 DEF Inv, TypeOK, FindsAllApplied
<1>6. UNCHANGED <<dialect, db, tx, applied, executed>> /\ faults' \in 0 .. MaxFaults
  BY DEF Inv, TypeOK, FindsAllApplied
<1> QED BY <1>1, <1>3, <1>4, <1>5, <1>6, QuietStep DEF Inv

LEMMA RetryInv ==
  ASSUME Inv, NEW p \in Processes, Retry(p) PROVE Inv'
<1>1. TypeOK'
  BY DEF Inv, TypeOK, Retry, Processes
<1>2. pc'[p] = "idle" /\ \A q \in Processes : q # p => pc'[q] = pc[q]
  BY DEF Inv, TypeOK, Retry
<1>3. UNCHANGED <<dialect, db, tx, applied, executed>> /\ faults' \in 0 .. MaxFaults
  BY DEF Inv, TypeOK, Retry
<1>4. p \in Collectors => applied'[p] \subseteq db.recorded
  BY <1>3 DEF Inv, AppliedAreRecorded
<1> QED BY <1>1, <1>2, <1>3, <1>4, QuietStep

(* One statement more: what the transaction holds is what the statements   *)
(* up to this one make of what is committed.                               *)
LEMMA OneStatement ==
  ASSUME Inv, NEW p \in Collectors, NEW v \in Versions,
         Migrating(p, v), executed[p] < Len(Script(v)),
         ~Blocked(p, Script(v)[executed[p] + 1]),
         Runs(Script(v)[executed[p] + 1], Sees(p))
  PROVE  LET content == After(Script(v)[executed[p] + 1], Sees(p)) IN
         /\ content \in Content
         /\ content.schema = SchemaAfter(v, executed[p] + 1)
         /\ dialect = "sqlite" => SamplesAfter(v, executed[p] + 1, content)
<1> DEFINE statement == Script(v)[executed[p] + 1]
<1> USE DEF Inv
<1>1. executed[p] \in Nat /\ dialect \in {"sqlite", "postgres"} /\ p \in Processes
      /\ v \in {1, 2, 3}
  BY DialectsAssumption DEF TypeOK, Processes, Versions
<1>2. statement \in Statements
  BY <1>1, Scripts DEF Statements
<1>3. Sees(p) \in Content /\ db \in Content
  BY <1>1 DEF Sees, TypeOK
<1>4. After(statement, Sees(p)) \in Content
  BY <1>2, <1>3, AfterType
<1>5. /\ Sees(p).schema = IF executed[p] = 0 THEN db.schema ELSE SchemaAfter(v, executed[p])
      /\ executed[p] > 0 /\ dialect = "sqlite" => SamplesAfter(v, executed[p], Sees(p))
  <2>1. CASE executed[p] = 0
    BY <2>1 DEF Sees
  <2>2. CASE executed[p] > 0
    <3>1. PICK u \in Versions :
            /\ IsNext(p, u) /\ tx[p].schema = SchemaAfter(u, executed[p])
            /\ dialect = "sqlite" => SamplesAfter(u, executed[p], tx[p])
      BY <2>2 DEF TxFollows
    <3>2. u = v
      BY <3>1 DEF Migrating, IsNext, Versions, Pending
    <3> QED BY <2>2, <3>1, <3>2 DEF Sees
  <2> QED BY <1>1, <2>1, <2>2
<1>6. CASE v \in {1, 2} \/ dialect = "postgres"
  <2>1. statement \notin {"copy", "drop", "rename"}
    BY <1>1, <1>6, Scripts
  <2>2. After(statement, Sees(p)) = [Sees(p) EXCEPT !.schema = @ \union {statement}]
    BY <2>1 DEF After
  <2>3. 1 .. executed[p] + 1 = (1 .. executed[p]) \union {executed[p] + 1}
    BY <1>1
  <2>4. Sees(p).schema = db.schema \union {Script(v)[i] : i \in 1 .. executed[p]}
    <3>1. executed[p] = 0 => 1 .. executed[p] = {}
      BY <1>1
    <3> QED BY <1>5, <1>6, <3>1 DEF SchemaAfter
  <2>5. After(statement, Sees(p)).schema = SchemaAfter(v, executed[p] + 1)
    <3>1. After(statement, Sees(p)).schema = Sees(p).schema \union {statement}
      BY <1>3, <2>2 DEF Content
    <3> QED BY <1>6, <2>3, <2>4, <3>1 DEF SchemaAfter
  <2>6. dialect = "sqlite" => SamplesAfter(v, executed[p] + 1, After(statement, Sees(p)))
    <3> SUFFICES ASSUME dialect = "sqlite" PROVE After(statement, Sees(p)).samples = db.samples
      BY <1>6 DEF SamplesAfter
    <3>1. Sees(p).samples = db.samples
      BY <1>1, <1>5, <1>6 DEF SamplesAfter, Sees
    <3> QED BY <1>3, <2>2, <3>1 DEF Content
  <2> QED BY <1>4, <2>5, <2>6
<1>7. CASE v = 3 /\ dialect = "sqlite"
  <2> DEFINE content == After(statement, Sees(p))
  <2>1. executed[p] \in {0, 1, 2, 3}
    BY <1>1, <1>7, Scripts
  <2>2. CASE executed[p] = 0
    <3>1. content = [db EXCEPT !.schema = @ \union {"metric_samples_new"}]
      <4>1. statement = "metric_samples_new" /\ Sees(p) = db
        BY <1>7, <2>2, Scripts DEF Sees
      <4> QED BY <4>1 DEF After
    <3> QED BY <1>3, <1>4, <1>7, <2>2, <3>1 DEF SchemaAfter, SamplesAfter, Content
  <2>3. CASE executed[p] = 1
    <3>1. content = [Sees(p) EXCEPT !.copied = Sees(p).samples]
      BY <1>7, <2>3, Scripts DEF After
    <3> QED BY <1>3, <1>4, <1>5, <1>7, <2>3, <3>1 DEF SchemaAfter, SamplesAfter, Content
  <2>4. CASE executed[p] = 2
    <3>1. /\ content.schema = Sees(p).schema \ {"metric_samples"}
          /\ content.samples = {} /\ content.copied = Sees(p).copied
      BY <1>3, <1>7, <2>4, Scripts DEF After, Content
    <3>2. Sees(p).schema = db.schema \union {"metric_samples_new"} /\ Sees(p).copied = db.samples
      BY <1>5, <1>7, <2>4 DEF SchemaAfter, SamplesAfter
    <3> QED BY <1>4, <1>7, <2>4, <3>1, <3>2 DEF SchemaAfter, SamplesAfter
  <2>5. CASE executed[p] = 3
    <3>1. /\ content.schema = (Sees(p).schema \ {"metric_samples_new"})
                                \union {"metric_samples", "free_text"}
          /\ content.samples = Sees(p).copied
      BY <1>3, <1>7, <2>5, Scripts DEF After, Content
    <3>2. Honest
      BY <2>5 DEF TxFollows
    <3>3. "metric_samples" \in db.schema /\ "metric_samples_new" \notin db.schema
      <4>1. PICK n \in {0} \union Versions : db.recorded = 1 .. n /\ db.schema = SchemaOf(1 .. n)
        BY <3>2 DEF Honest
      <4>2. 2 \in 1 .. n
        <5>1. 2 \in db.recorded
          BY <1>7 DEF Migrating, IsNext, Pending, AppliedAreRecorded, Versions
        <5> QED BY <4>1, <5>1
      <4>3. n = 2 \/ n = 3
        <5>1. n = 0 \/ n = 1 \/ n = 2 \/ n = 3
          BY DEF Versions
        <5>2. n # 0 /\ n # 1
          BY <4>2
        <5> QED BY <5>1, <5>2
      <4>4. db.schema = SchemaOf(1 .. 2) \/ db.schema = SchemaOf(1 .. 3)
        BY <4>1, <4>3
      <4> QED BY <4>4, Schemas
    <3>4. content.schema = db.schema \union {"free_text"}
      BY <1>5, <1>7, <2>5, <3>1, <3>3 DEF SchemaAfter
    <3> QED BY <1>4, <1>5, <1>7, <2>5, <3>1, <3>4 DEF SchemaAfter, SamplesAfter
  <2> QED BY <2>1, <2>2, <2>3, <2>4, <2>5
<1> QED BY <1>1, <1>6, <1>7

LEMMA ExecuteInv ==
  ASSUME Inv, NEW p \in Collectors, NEW v \in Versions, Execute(p, v) PROVE Inv'
<1> DEFINE statement == Script(v)[executed[p] + 1]
<1> DEFINE content == After(statement, Sees(p))
<1>1. CASE ~Runs(statement, Sees(p))
  <2>1. GiveUp(p) /\ UNCHANGED <<dialect, db, tx>> /\ faults' = faults
    BY <1>1 DEF Execute
  <2>2. faults' \in 0 .. MaxFaults /\ ledger' \in BOOLEAN
    BY <1>1, <2>1 DEF Execute, Inv, TypeOK
  <2> QED BY <2>1, <2>2, GiveUpInv
<1>2. CASE Runs(statement, Sees(p))
  <2>1. /\ Migrating(p, v) /\ executed[p] < Len(Script(v)) /\ ~Blocked(p, statement)
        /\ tx' = [tx EXCEPT ![p] = content] /\ executed' = [executed EXCEPT ![p] = @ + 1]
        /\ UNCHANGED <<dialect, ledger, db, pc, applied, faults>>
    BY <1>2 DEF Execute, InTransaction
  <2>2. /\ Honest /\ \A q \in Collectors \ {p} : executed[q] = 0
        /\ v \in db.recorded => v = 3 /\ dialect = "sqlite"
    BY <1>2, <2>1, Alone
  <2>3. /\ content \in Content /\ content.schema = SchemaAfter(v, executed[p] + 1)
        /\ dialect = "sqlite" => SamplesAfter(v, executed[p] + 1, content)
    BY <1>2, <2>1, OneStatement
  <2> HIDE DEF content, statement
  <2>4. /\ p \in Processes /\ executed[p] \in Nat /\ dialect \in {"sqlite", "postgres"}
        /\ v \in {1, 2, 3} /\ tx \in [Processes -> Content] /\ executed \in [Processes -> 0 .. 9]
    BY DialectsAssumption DEF Inv, TypeOK, Processes, Versions
  <2>5. Len(Script(v)) \in 0 .. 4
    BY <2>4, Scripts
  <2>51. executed[p] + 1 \in 0 .. 9
    <3>1. executed[p] < Len(Script(v))
      BY <2>1
    <3>2. \A k \in Nat, l \in 0 .. 4 : k < l => k + 1 \in 0 .. 9
      OBVIOUS
    <3> QED BY <2>4, <2>5, <3>1, <3>2, Zenon
  <2>6. /\ tx'[p] = content /\ executed'[p] = executed[p] + 1 /\ executed'[p] \in 0 .. 9
        /\ \A q \in Processes : q # p => tx'[q] = tx[q] /\ executed'[q] = executed[q]
    BY <2>1, <2>4, <2>51
  <2>7. tx' \in [Processes -> Content] /\ executed' \in [Processes -> 0 .. 9]
    BY <2>1, <2>3, <2>4, <2>6
  <2>8. \A q \in Collectors : executed'[q] > 0 => q = p
    BY <2>2, <2>6 DEF Processes
  <2>9. TypeOK'
    <3>1. pc[p] = "migrating"
      BY <2>1 DEF Migrating
    <3> QED BY <2>1, <2>7, <2>8, <3>1 DEF Inv, TypeOK
  <2>10. Honest' /\ (Foreign <=> Foreign')
    BY <2>1, <2>2 DEF Honest, Foreign
  <2>11. (db.recorded = {} => db.samples = {} /\ db.copied = {})'
    BY <2>1 DEF Inv
  <2>12. OneAtATime'
    BY <2>8 DEF OneAtATime
  <2>13. TxFollows'
    <3>1. IsNext(p, v)'
      BY <2>1 DEF Migrating, IsNext, Pending
    <3>2. executed'[p] <= Len(Script(v)) /\ Len(Script(v))' = Len(Script(v))
      BY <2>1, <2>4, <2>5, <2>6 DEF Script, Rebuild
    <3>3. tx'[p].schema = SchemaAfter(v, executed[p])'
      <4>1. Script(v)' = Script(v)
        BY <2>1 DEF Script, Rebuild
      <4>2. SchemaAfter(v, executed[p])' = SchemaAfter(v, executed[p] + 1)
        BY <2>1, <2>6, <4>1 DEF SchemaAfter
      <4> QED BY <2>3, <2>6, <4>2
    <3>4. dialect' = "sqlite" => SamplesAfter(v, executed[p], tx[p])'
      BY <2>1, <2>3, <2>6 DEF SamplesAfter
    <3>5. (v \in db.recorded)' => v = 3 /\ dialect' = "sqlite"
      BY <2>1, <2>2
    <3> QED BY <2>8, <2>10, <3>1, <3>2, <3>3, <3>4, <3>5 DEF TxFollows
  <2>14. AppliedAreRecorded'
    BY <2>1 DEF Inv, AppliedAreRecorded
  <2>15. EnginesLeaveTraces'
    BY <2>1, <2>6, <2>10, ProcessesAssumption DEF Inv, EnginesLeaveTraces, Processes
  <2> QED BY <2>9, <2>10, <2>11, <2>12, <2>13, <2>14, <2>15 DEF Inv
<1> QED BY <1>1, <1>2

(* What is published is the schema with the whole of the migration, and    *)
(* the samples there were.                                                 *)
LEMMA Publishing ==
  ASSUME Inv, NEW p \in Collectors, NEW v \in Versions, Executed(p, v), v \notin db.recorded
  PROVE  /\ executed[p] > 0 /\ Honest
         /\ Published(p, v) \in Content
         /\ Published(p, v).recorded = 1 .. v
         /\ Published(p, v).schema = SchemaOf(1 .. v)
         /\ Published(p, v).samples = db.samples
<1> USE DEF Inv
<1>1. /\ executed[p] \in Nat /\ p \in Processes /\ dialect \in {"sqlite", "postgres"}
      /\ db \in Content /\ tx[p] \in Content /\ v \in {1, 2, 3}
  BY DialectsAssumption DEF TypeOK, Processes, Versions
<1>2. executed[p] = Len(Script(v)) /\ executed[p] > 0
  BY <1>1, Scripts DEF Executed
<1>3. PICK u \in Versions :
        /\ IsNext(p, u) /\ tx[p].schema = SchemaAfter(u, executed[p])
        /\ dialect = "sqlite" => SamplesAfter(u, executed[p], tx[p])
  BY <1>2 DEF TxFollows
<1>4. u = v
  BY <1>3 DEF Executed, Migrating, IsNext, Versions, Pending
<1>5. Honest
  BY <1>2 DEF TxFollows
<1>6. PICK n \in {0} \union Versions : db.recorded = 1 .. n /\ db.schema = SchemaOf(1 .. n)
  BY <1>5 DEF Honest
<1>7. n = v - 1
  <2>1. \A w \in 1 .. v - 1 : w \in db.recorded
    BY DEF Executed, Migrating, IsNext, Pending, AppliedAreRecorded, Versions
  <2> QED BY <1>1, <1>6, <2>1 DEF Versions
<1>8. SchemaAfter(v, Len(Script(v))) = SchemaOf(1 .. v)
  <2>1. CASE v = 1
    <3>1. 1 .. 3 = {1, 2, 3}
      OBVIOUS
    <3>2. SchemaAfter(1, 3) = {} \union {Script(1)[i] : i \in {1, 2, 3}}
      BY <1>6, <1>7, <2>1, <3>1, Schemas DEF SchemaAfter
    <3>3. {Script(1)[i] : i \in {1, 2, 3}} = {Script(1)[1], Script(1)[2], Script(1)[3]}
      OBVIOUS
    <3>4. SchemaAfter(v, Len(Script(v))) = SchemaAfter(1, 3)
      BY <2>1, Scripts
    <3> QED BY <2>1, <3>2, <3>3, <3>4, Scripts, Schemas
  <2>2. CASE v = 2
    <3>1. 1 .. 2 = {1, 2}
      OBVIOUS
    <3>2. SchemaAfter(2, 2) = SchemaOf(1 .. 1) \union {Script(2)[i] : i \in {1, 2}}
      BY <1>6, <1>7, <2>2, <3>1 DEF SchemaAfter
    <3>3. {Script(2)[i] : i \in {1, 2}} = {Script(2)[1], Script(2)[2]}
      OBVIOUS
    <3>4. SchemaAfter(v, Len(Script(v))) = SchemaAfter(2, 2)
      BY <2>2, Scripts
    <3> QED BY <2>2, <3>2, <3>3, <3>4, Scripts, Schemas
  <2>3. CASE v = 3
    <3>1. db.schema = SchemaOf(1 .. 2)
      BY <1>6, <1>7, <2>3
    <3>2. 1 .. 1 = {1}
      OBVIOUS
    <3>3. SchemaAfter(3, Len(Script(3))) = db.schema \union {"free_text"}
      <4>1. CASE dialect = "sqlite"
        BY <4>1, Scripts DEF SchemaAfter
      <4>2. CASE dialect = "postgres"
        BY <3>2, <4>2, Scripts DEF SchemaAfter
      <4> QED BY <1>1, <4>1, <4>2
    <3> QED BY <2>3, <3>1, <3>3, Schemas
  <2> QED BY <1>1, <2>1, <2>2, <2>3
<1>9. tx[p].schema = SchemaOf(1 .. v)
  BY <1>2, <1>3, <1>4, <1>8
<1>10. db.recorded \union {v} = 1 .. v
  BY <1>1, <1>6, <1>7 DEF Versions
<1>11. dialect = "sqlite" => tx[p].samples = db.samples
  <2> SUFFICES ASSUME dialect = "sqlite" PROVE tx[p].samples = db.samples
    OBVIOUS
  <2>1. ~(v = 3 /\ executed[p] = 3)
    BY <1>2, Scripts
  <2> QED BY <1>3, <1>4, <2>1 DEF SamplesAfter
<1>12. Published(p, v) =
         [tx[p] EXCEPT !.samples = IF dialect = "sqlite" THEN tx[p].samples ELSE db.samples,
                       !.recorded = db.recorded \union {v}]
  BY DEF Published
<1>13. db.recorded \union {v} \subseteq Versions
  BY <1>1 DEF Content
<1> QED BY <1>1, <1>2, <1>5, <1>9, <1>10, <1>11, <1>12, <1>13 DEF Content

LEMMA PublishInv ==
  ASSUME Inv, NEW p \in Collectors, NEW v \in Versions, Executed(p, v), v \notin db.recorded,
         db' = Published(p, v), UNCHANGED <<dialect, tx>>,
         executed' = [executed EXCEPT ![p] = 0],
         \A q \in Processes : q # p => pc'[q] = pc[q] /\ applied'[q] = applied[q],
         applied'[p] \subseteq applied[p] \union {v}, pc'[p] \in {"migrating", "failed"},
         TypeOK'
  PROVE  Inv'
<1> USE DEF Inv
<1>1. /\ executed[p] > 0 /\ Honest
      /\ db'.recorded = 1 .. v /\ db'.schema = SchemaOf(1 .. v) /\ db'.samples = db.samples
  BY Publishing
<1>2. p \in Processes /\ p \notin Engines /\ v \in {1, 2, 3}
  BY ProcessesAssumption DEF Processes, Versions
<1>3. executed'[p] = 0 /\ \A q \in Processes : q # p => executed'[q] = executed[q]
  BY <1>2 DEF TypeOK
<1>4. \A q \in Collectors : executed'[q] = 0
  <2> TAKE q \in Collectors
  <2>1. q \in Processes /\ executed[q] \in Nat
    BY DEF TypeOK, Processes
  <2> QED BY <1>1, <1>3, <2>1 DEF OneAtATime
<1>5. Honest'
  BY <1>1 DEF Honest
<1>6. (db.recorded = {} => db.samples = {} /\ db.copied = {})'
  <2>1. 1 \in 1 .. v
    BY <1>2
  <2> QED BY <1>1, <2>1
<1>7. OneAtATime' /\ TxFollows'
  BY <1>4 DEF OneAtATime, TxFollows
<1>8. db.recorded \union {v} \subseteq db'.recorded
  <2>1. db'.recorded = db.recorded \union {v}
    BY DEF Published, TypeOK, Content, Processes
  <2> QED BY <2>1
<1>9. AppliedAreRecorded'
  <2> SUFFICES ASSUME NEW q \in Collectors
               PROVE  /\ applied'[q] \subseteq db'.recorded
                      /\ pc'[q] = "done" => applied'[q] = Versions
                      /\ pc'[q] # "creating"
    BY DEF AppliedAreRecorded
  <2>1. CASE q = p
    BY <1>8, <2>1 DEF AppliedAreRecorded
  <2>2. CASE q # p
    BY <1>8, <2>2 DEF AppliedAreRecorded, Processes
  <2> QED BY <2>1, <2>2
<1>10. EnginesLeaveTraces'
  <2>1. ~Foreign
    <3> SUFFICES ASSUME Foreign PROVE FALSE
      OBVIOUS
    <3>1. PICK n \in {0} \union Versions : db.recorded = 1 .. n /\ db.schema = SchemaOf(1 .. n)
      BY <1>1 DEF Honest
    <3>2. n = 0
      <4>1. 1 \notin 1 .. n
        BY <3>1 DEF Foreign
      <4> QED BY <4>1 DEF Versions
    <3> QED BY <3>1, <3>2, Schemas DEF Foreign
  <2>2. ASSUME NEW e \in Engines, pc'[e] = "creating"
        PROVE  dialect' = "sqlite" /\ ~(executed'[e] > 0)
    <3>1. e \in Processes /\ e # p
      BY <1>2 DEF Processes
    <3> QED BY <1>3, <2>1, <2>2, <3>1 DEF EnginesLeaveTraces
  <2> QED BY <2>2 DEF EnginesLeaveTraces
<1> QED BY <1>5, <1>6, <1>7, <1>9, <1>10

LEMMA CommitInv ==
  ASSUME Inv, NEW p \in Collectors, NEW v \in Versions, Commit(p, v) PROVE Inv'
<1> USE DEF Commit
<1>1. Published(p, v) \in Content
  BY Publishing
<1>2. p \in Processes /\ pc[p] = "migrating"
  BY DEF Processes, Executed, Migrating
<1>3. TypeOK'
  BY <1>1, <1>2 DEF Inv, TypeOK, Processes
<1>4. /\ applied'[p] = applied[p] \union {v}
      /\ \A q \in Processes : q # p => applied'[q] = applied[q]
  BY <1>2 DEF Inv, TypeOK
<1> QED BY <1>2, <1>3, <1>4, PublishInv

LEMMA CommitUnacknowledgedInv ==
  ASSUME Inv, NEW p \in Collectors, NEW v \in Versions, CommitUnacknowledged(p, v) PROVE Inv'
<1> USE DEF CommitUnacknowledged, GiveUp
<1>1. Published(p, v) \in Content
  BY Publishing
<1>2. p \in Processes
  BY DEF Processes
<1>3. TypeOK'
  BY <1>1, <1>2, FaultsAssumption DEF Inv, TypeOK, Processes
<1>4. pc'[p] = "failed" /\ \A q \in Processes : q # p => pc'[q] = pc[q]
  BY <1>2 DEF Inv, TypeOK
<1> QED BY <1>2, <1>3, <1>4, PublishInv

LEMMA FaultInv ==
  ASSUME Inv, NEW p \in Collectors, Fault(p) PROVE Inv'
<1>1. faults' \in 0 .. MaxFaults
  BY FaultsAssumption DEF Inv, TypeOK, Fault
<1>2. ledger' \in BOOLEAN
  <2>1. ledger \in BOOLEAN
    BY DEF Inv, TypeOK
  <2>2. ledger' = ledger \/ ledger' = TRUE
    BY Zenon DEF Fault
  <2> QED BY <2>1, <2>2
<1> QED BY <1>1, <1>2, GiveUpInv DEF Fault

LEMMA RecordedTwiceInv ==
  ASSUME Inv, NEW p \in Collectors, NEW v \in Versions, RecordedTwice(p, v) PROVE Inv'
<1>1. faults' \in 0 .. MaxFaults /\ ledger' \in BOOLEAN
  BY DEF Inv, TypeOK, RecordedTwice
<1> QED BY <1>1, GiveUpInv DEF RecordedTwice

(* A collector that collects has records of all migrations; no transaction *)
(* on sqlite is open, and on postgres none looks at samples.               *)
LEMMA CollectInv ==
  ASSUME Inv, NEW p \in Collectors, Collect(p) PROVE Inv'
<1> USE DEF Inv, Collect
<1>1. /\ db' = [db EXCEPT !.samples = db.samples \union {p}] /\ db \in Content
      /\ UNCHANGED <<dialect, ledger, tx, pc, applied, executed, faults>>
  BY DEF TypeOK
<1>2. /\ db' \in Content
      /\ db'.schema = db.schema /\ db'.recorded = db.recorded /\ db'.copied = db.copied
  BY <1>1 DEF Content, Samples
<1>3. TypeOK'
  BY <1>1, <1>2 DEF TypeOK
<1>4. (Honest <=> Honest') /\ (Foreign <=> Foreign')
  BY <1>1, <1>2 DEF Honest, Foreign
<1>5. db'.recorded # {}
  <2>1. 1 \in applied[p]
    BY DEF AppliedAreRecorded, Versions
  <2> QED BY <1>2, <2>1 DEF AppliedAreRecorded
<1>6. OneAtATime' /\ AppliedAreRecorded' /\ EnginesLeaveTraces'
  BY <1>1, <1>2, <1>4 DEF OneAtATime, AppliedAreRecorded, EnginesLeaveTraces
<1>7. TxFollows'
  <2> SUFFICES ASSUME NEW q \in Collectors, executed[q] > 0
               PROVE  /\ Honest'
                      /\ \E v \in Versions :
                           (/\ IsNext(q, v) /\ executed[q] <= Len(Script(v))
                            /\ v \in db.recorded => v = 3 /\ dialect = "sqlite"
                            /\ tx[q].schema = SchemaAfter(v, executed[q])
                            /\ dialect = "sqlite" => SamplesAfter(v, executed[q], tx[q]))'
    BY <1>1 DEF TxFollows
  <2>1. dialect # "sqlite"
    BY DEF TypeOK, Processes
  <2>2. PICK v \in Versions :
          /\ IsNext(q, v) /\ executed[q] <= Len(Script(v))
          /\ v \in db.recorded => v = 3 /\ dialect = "sqlite"
          /\ tx[q].schema = SchemaAfter(v, executed[q])
    BY DEF TxFollows
  <2>3. IsNext(q, v)' /\ Script(v)' = Script(v)
    BY <1>1, <2>2 DEF IsNext, Pending, Script, Rebuild
  <2>4. SchemaAfter(v, executed[q])' = SchemaAfter(v, executed[q])
    BY <1>1, <1>2, <2>3 DEF SchemaAfter
  <2> QED BY <1>1, <1>2, <1>4, <2>1, <2>2, <2>3, <2>4 DEF TxFollows
<1> QED BY <1>2, <1>3, <1>4, <1>5, <1>6, <1>7

LEMMA TableExistsInv ==
  ASSUME Inv, NEW e \in Engines, TableExists(e) PROVE Inv'
<1> USE DEF TableExists
<1>1. e \in Processes /\ e \notin Collectors
  BY ProcessesAssumption DEF Processes
<1>2. TypeOK'
  BY <1>1 DEF Inv, TypeOK, Processes
<1>3. executed'[e] = 0 /\ \A q \in Processes : q # e =>
        pc'[q] = pc[q] /\ applied'[q] = applied[q] /\ executed'[q] = executed[q]
  BY <1>1 DEF Inv, TypeOK
<1>4. UNCHANGED <<dialect, db, tx>> /\ faults' \in 0 .. MaxFaults
  BY DEF Inv, TypeOK
<1> QED BY <1>1, <1>2, <1>3, <1>4, QuietStep

LEMMA KillInv ==
  ASSUME Inv, NEW e \in Engines, Kill(e) PROVE Inv'
<1> USE DEF Kill
<1>1. e \in Processes /\ e \notin Collectors
  BY ProcessesAssumption DEF Processes
<1>2. TypeOK'
  BY <1>1 DEF Inv, TypeOK, Processes
<1>3. pc'[e] = "failed" /\ \A q \in Processes : q # e => pc'[q] = pc[q]
  BY <1>1 DEF Inv, TypeOK
<1>4. UNCHANGED <<dialect, db, tx, applied, executed>> /\ faults' \in 0 .. MaxFaults
  BY DEF Inv, TypeOK
<1> QED BY <1>1, <1>2, <1>3, <1>4, QuietStep

(* What an engine makes stays without a record, and has no samples.        *)
LEMMA ExecuteScriptInv ==
  ASSUME Inv, NEW e \in Engines, ExecuteScript(e) PROVE Inv'
<1> DEFINE statement == WholeScript[executed[e] + 1]
<1>1. /\ e \in Processes /\ e \notin Collectors /\ dialect = "sqlite"
      /\ executed[e] \in Nat /\ executed[e] <= 9
      /\ \A q \in Collectors : executed[q] = 0
  BY ProcessesAssumption DEF Processes, ExecuteScript, Inv, EnginesLeaveTraces, TypeOK
<1>2. Len(WholeScript) = 9
  BY <1>1, AllScripts
<1>3. CASE UNCHANGED <<db, executed>>
  <2>1. /\ pc' \in {[pc EXCEPT ![e] = "done"], [pc EXCEPT ![e] = "failed"]} \/ pc' = pc
        /\ UNCHANGED <<dialect, ledger, tx, applied, faults>>
    BY DEF ExecuteScript
  <2>2. \A q \in Processes : q # e => pc'[q] = pc[q]
    BY <1>1, <2>1 DEF Inv, TypeOK
  <2>3. pc'[e] = "creating" => pc[e] = "creating"
    BY <1>1, <2>1 DEF Inv, TypeOK
  <2>4. TypeOK'
    BY <1>1, <1>3, <2>1 DEF Inv, TypeOK, Processes
  <2>5. faults' \in 0 .. MaxFaults
    BY <2>1 DEF Inv, TypeOK
  <2>6. pc'[e] = "creating" => dialect = "sqlite" /\ (executed'[e] > 0 => Foreign)
    BY <1>1, <1>3, <2>3 DEF Inv, EnginesLeaveTraces
  <2> QED BY <1>1, <1>3, <2>1, <2>2, <2>4, <2>5, <2>6, QuietStep
<1>4. CASE ~UNCHANGED <<db, executed>>
  <2>1. /\ executed[e] # 9 /\ Runs(statement, db) /\ db' = After(statement, db)
        /\ executed' = [executed EXCEPT ![e] = @ + 1] /\ pc[e] = "creating"
        /\ UNCHANGED <<dialect, ledger, pc, tx, applied, faults>>
    BY <1>2, <1>4 DEF ExecuteScript
  <2>2. statement \in Statements \ {"free_text"} /\ (executed[e] = 0 => statement = "clusters")
    <3>1. executed[e] + 1 \in 1 .. 9
      BY <1>1, <2>1
    <3> QED BY <1>1, <3>1, AllScripts DEF Statements
  <2> HIDE DEF statement
  <2>3. db \in Content /\ db' \in Content
    BY <2>1, <2>2, AfterType DEF Inv, TypeOK
  <2>4. db.recorded = {} /\ (executed[e] > 0 => "clusters" \in db.schema)
    <3>1. CASE executed[e] > 0
      BY <2>1, <3>1 DEF Inv, EnginesLeaveTraces, Foreign
    <3>2. CASE executed[e] = 0
      <4>1. "clusters" \notin db.schema
        BY <2>1, <2>2, <3>2 DEF Runs
      <4>2. PICK n \in {0} \union Versions :
              db.recorded = 1 .. n /\ db.schema = SchemaOf(1 .. n)
        BY <4>1 DEF Inv, Honest, Foreign
      <4>3. n = 0
        <5>1. 1 \notin 1 .. n
          BY <4>1, <4>2 DEF SchemaOf, Objects
        <5> QED BY <5>1 DEF Versions
      <4> QED BY <3>2, <4>2, <4>3
    <3> QED BY <1>1, <3>1, <3>2
  <2>5. db.samples = {} /\ db.copied = {}
    BY <2>4 DEF Inv
  <2>6. /\ db'.recorded = {} /\ db'.samples = {} /\ db'.copied = {}
        /\ "clusters" \in db'.schema
    <3>1. "clusters" \in db.schema \/ statement = "clusters"
      BY <1>1, <2>2, <2>4
    <3>2. CASE statement = "copy"
      BY <2>1, <2>3, <2>4, <2>5, <3>1, <3>2 DEF After, Content
    <3>3. CASE statement = "drop"
      BY <2>1, <2>3, <2>4, <2>5, <3>1, <3>3 DEF After, Content
    <3>4. CASE statement = "rename"
      BY <2>1, <2>3, <2>4, <2>5, <3>1, <3>4 DEF After, Content
    <3>5. CASE statement \notin {"copy", "drop", "rename"}
      <4>1. db' = [db EXCEPT !.schema = @ \union {statement}]
        BY <2>1, <3>5 DEF After
      <4> QED BY <2>3, <2>4, <2>5, <3>1, <4>1 DEF Content
    <3> QED BY <3>2, <3>3, <3>4, <3>5
  <2>7. Foreign'
    BY <1>1, <2>1, <2>6 DEF Foreign
  <2>8. /\ executed'[e] = executed[e] + 1 /\ executed'[e] \in 0 .. 9
        /\ \A q \in Processes : q # e => executed'[q] = executed[q]
    BY <1>1, <2>1 DEF Inv, TypeOK
  <2>9. executed' \in [Processes -> 0 .. 9]
    BY <1>1, <2>1, <2>8 DEF Inv, TypeOK
  <2>10. \A q \in Collectors : executed'[q] = 0
    BY <1>1, <2>8 DEF Processes
  <2>11. TypeOK'
    BY <2>1, <2>3, <2>9, <2>10 DEF Inv, TypeOK
  <2>12. OneAtATime' /\ TxFollows'
    BY <2>10 DEF OneAtATime, TxFollows
  <2>13. AppliedAreRecorded'
    BY <2>1, <2>4, <2>6 DEF Inv, AppliedAreRecorded
  <2>14. EnginesLeaveTraces'
    BY <1>1, <2>1, <2>7 DEF EnginesLeaveTraces
  <2> QED BY <2>6, <2>7, <2>11, <2>12, <2>13, <2>14 DEF Inv
<1> QED BY <1>3, <1>4

LEMMA InvStep == Inv /\ [Next]_vars => Inv'
<1> SUFFICES ASSUME Inv, [Next]_vars PROVE Inv'
  OBVIOUS
<1>1. CASE UNCHANGED vars
  <2> USE <1>1 DEF vars, Inv
  <2>1. TypeOK' /\ (db.recorded = {} => db.samples = {} /\ db.copied = {})'
    BY DEF TypeOK
  <2>2. (Honest <=> Honest') /\ (Foreign <=> Foreign')
    BY DEF Honest, Foreign
  <2>3. OneAtATime' /\ AppliedAreRecorded' /\ EnginesLeaveTraces'
    BY <2>2 DEF OneAtATime, AppliedAreRecorded, EnginesLeaveTraces
  <2>4. TxFollows'
    <3>1. \A v \in Versions : Script(v)' = Script(v)
      BY DEF Script, Rebuild
    <3>2. \A p \in Collectors, v \in Versions :
            (IsNext(p, v)' <=> IsNext(p, v)) /\
            (SamplesAfter(v, executed[p], tx[p])' <=> SamplesAfter(v, executed[p], tx[p]))
      BY DEF IsNext, Pending, SamplesAfter
    <3> SUFFICES ASSUME NEW p \in Collectors, executed[p] > 0
                 PROVE  \E v \in Versions :
                          (/\ IsNext(p, v) /\ executed[p] <= Len(Script(v))
                           /\ v \in db.recorded => v = 3 /\ dialect = "sqlite"
                           /\ tx[p].schema = SchemaAfter(v, executed[p])
                           /\ dialect = "sqlite" => SamplesAfter(v, executed[p], tx[p]))'
      BY <2>2 DEF TxFollows
    <3>3. PICK v \in Versions :
            /\ IsNext(p, v) /\ executed[p] <= Len(Script(v))
            /\ v \in db.recorded => v = 3 /\ dialect = "sqlite"
            /\ tx[p].schema = SchemaAfter(v, executed[p])
            /\ dialect = "sqlite" => SamplesAfter(v, executed[p], tx[p])
      BY DEF TxFollows
    <3>4. SchemaAfter(v, executed[p])' = SchemaAfter(v, executed[p])
      BY <3>1 DEF SchemaAfter
    <3> QED BY <3>1, <3>2, <3>3, <3>4
  <2> QED BY <2>1, <2>2, <2>3, <2>4
<1>2. ASSUME NEW p \in Collectors, Migrate(p) PROVE Inv'
  <2>1. p \in Processes
    BY DEF Processes
  <2> QED BY <1>2, <2>1, LedgerInv, ReadAppliedInv, ExecuteInv, CommitInv, RecordedTwiceInv,
             FindsAllAppliedInv, RetryInv DEF Migrate
<1>3. ASSUME NEW e \in Engines, Retry(e) PROVE Inv'
  BY <1>3, RetryInv DEF Processes
<1> QED BY <1>1, <1>2, <1>3, FaultInv, CommitUnacknowledgedInv, CollectInv, TableExistsInv,
           ExecuteScriptInv, KillInv DEF Next

-----------------------------------------------------------------------------
(***************************************************************************)
(* The theorems.                                                           *)
(***************************************************************************)
LEMMA InvHolds == Spec => []Inv
BY InitInv, InvStep, PTL DEF Spec

(* Types; a transaction is open only while its process migrates, and on    *)
(* sqlite no two are open (migrate.go:81-99, sql.go:65-76).                *)
THEOREM TypeCorrect == Spec => []TypeOK
<1>1. Inv => TypeOK
  BY DEF Inv
<1> QED BY <1>1, InvHolds, PTL

(* A collector that gets past Migrate has every object of its release,     *)
(* then and ever after (main.go:150, 257).                                 *)
THEOREM CompleteCorrect == Spec => []DoneMeansComplete
<1>1. Inv => DoneMeansComplete
  <2> SUFFICES ASSUME Inv, NEW p \in Collectors, pc[p] = "done"
               PROVE  SchemaOf(Versions) \subseteq db.schema
    BY DEF DoneMeansComplete
  <2>1. Versions \subseteq db.recorded
    BY DEF Inv, AppliedAreRecorded
  <2>2. ~Foreign
    BY <2>1 DEF Foreign, Versions
  <2>3. PICK n \in {0} \union Versions : db.recorded = 1 .. n /\ db.schema = SchemaOf(1 .. n)
    BY <2>2 DEF Inv, Honest
  <2> QED BY <2>1, <2>3 DEF SchemaOf
<1> QED BY <1>1, InvHolds, PTL

(* What is recorded is a prefix of the migrations and all there is in the  *)
(* schema (applyMigration, migrate.go:81-99).                              *)
THEOREM RecordsCorrect == Spec => []RecordsTellTheSchema
<1>1. Inv => RecordsTellTheSchema
  <2> SUFFICES ASSUME Inv PROVE RecordsTellTheSchema
    OBVIOUS
  <2>1. CASE Honest
    BY <2>1 DEF Honest, RecordsTellTheSchema
  <2>2. CASE Foreign
    <3>1. db.recorded = 1 .. 0
      BY <2>2 DEF Foreign
    <3> QED BY <2>2, <3>1 DEF Foreign, RecordsTellTheSchema
  <2> QED BY <2>1, <2>2 DEF Inv
<1> QED BY <1>1, InvHolds, PTL

(* No step loses a sample, the rebuild of their table by a late collector  *)
(* included (sqlite/0003_freetext_and_interactions.sql).                   *)
LEMMA SamplesKept == Inv /\ [Next]_vars => db.samples \subseteq db'.samples
<1> SUFFICES ASSUME Inv, [Next]_vars PROVE db.samples \subseteq db'.samples
  OBVIOUS
<1>1. CASE UNCHANGED db
  BY <1>1
<1>2. ASSUME NEW p \in Collectors, NEW v \in Versions, Commit(p, v) \/ CommitUnacknowledged(p, v)
      PROVE  db'.samples = db.samples
  BY <1>2, Publishing DEF Commit, CommitUnacknowledged
<1>3. ASSUME NEW p \in Collectors, Collect(p) PROVE db.samples \subseteq db'.samples
  BY <1>3 DEF Collect, Inv, TypeOK, Content
<1>4. ASSUME NEW e \in Engines, ExecuteScript(e), db' # db PROVE db.samples = {}
  <2>1. executed[e] > 0 => Foreign
    BY <1>4 DEF ExecuteScript, Inv, EnginesLeaveTraces
  <2>2. dialect = "sqlite" /\ executed[e] \in Nat
    BY <1>4 DEF ExecuteScript, Inv, EnginesLeaveTraces, TypeOK, Processes
  <2>3. CASE executed[e] > 0
    BY <2>1, <2>3 DEF Foreign, Inv
  <2>4. CASE executed[e] = 0
    <3>1. "clusters" \notin db.schema
      BY <1>4, <2>2, <2>4, AllScripts DEF ExecuteScript, Runs
    <3>2. PICK n \in {0} \union Versions : db.recorded = 1 .. n /\ db.schema = SchemaOf(1 .. n)
      BY <3>1 DEF Inv, Honest, Foreign
    <3>3. n = 0
      <4>1. 1 \notin 1 .. n
        BY <3>1, <3>2 DEF SchemaOf, Objects
      <4> QED BY <4>1 DEF Versions
    <3> QED BY <3>2, <3>3 DEF Inv
  <2> QED BY <2>2, <2>3, <2>4
<1>5. ASSUME NEW p \in Collectors, Migrate(p) \/ Fault(p), db' # db
      PROVE  \E v \in Versions : Commit(p, v)
  BY <1>5 DEF Migrate, EnsureLedger, MissLedger, MakeLedger, FindsNameTaken, ReadApplied,
     Execute, InTransaction, RecordedTwice, FindsAllApplied, Retry, Fault
<1>6. ASSUME NEW e \in Engines, TableExists(e) \/ Kill(e) \/ Retry(e) PROVE UNCHANGED db
  BY <1>6 DEF TableExists, Kill, Retry
<1> QED BY <1>1, <1>2, <1>3, <1>4, <1>5, <1>6 DEF Next, vars

THEOREM SamplesCorrect == Spec => NoSampleLost
<1>1. Inv /\ [Next]_vars => [db.samples \subseteq db'.samples]_vars
  BY SamplesKept
<1> QED BY <1>1, InvHolds, PTL DEF Spec, NoSampleLost

-----------------------------------------------------------------------------
(***************************************************************************)
(* Getting done.  A collector fails without a fault only when another has  *)
(* overtaken it, which the table of records and three migrations allow     *)
(* four times.                                                             *)
(***************************************************************************)

(* Somebody else has committed since p looked: the table of records, or a  *)
(* migration.                                                              *)
Overtaken(p) ==
  \/ pc[p] = "absent" /\ ledger
  \/ pc[p] = "migrating" /\ applied[p] # db.recorded

(* As long as no engine has made the schema and no statement is lost or    *)
(* times out.                                                              *)
OnlyTheOvertakenFail ==
  [][\A p \in Collectors :
       Honest /\ pc[p] # "failed" /\ pc'[p] = "failed" /\ faults' = faults
         => Overtaken(p)]_vars

(* Steps a collector still has to take, at most: with its scripts, ...     *)
Unapplied(p) ==
  (IF 1 \in applied[p] THEN 0 ELSE 4) + (IF 2 \in applied[p] THEN 0 ELSE 3)
    + (IF 3 \in applied[p] THEN 0 ELSE 5)

(* ... from where it is, if nobody overtakes it (again), ...               *)
Ahead(p) ==
  (CASE pc[p] = "done" -> 0 [] pc[p] = "listing" -> 14 [] pc[p] = "absent" -> 15
     [] pc[p] = "idle" -> 16 [] pc[p] = "failed" -> 17
     [] OTHER -> 1 + Unapplied(p) - executed[p])
    + (IF Overtaken(p) THEN 18 ELSE 0)

(* ... and with the commits and faults to come, each of which may cost it  *)
(* a turn.                                                                 *)
Unrecorded ==
  (IF ledger THEN 0 ELSE 18) + (IF 1 \in db.recorded THEN 0 ELSE 18)
    + (IF 2 \in db.recorded THEN 0 ELSE 18) + (IF 3 \in db.recorded THEN 0 ELSE 18)

Effort(p) == 18 * (MaxFaults - faults) + Unrecorded + Ahead(p)

(* Each step of a collector towards its schema leaves it fewer, and nobody *)
(* adds to them, unless an engine has made the schema: then it fails over  *)
(* and over.                                                               *)
EffortShrinks ==
  [][\A p \in Collectors :
       /\ Effort(p) \in Nat
       /\ Honest => Effort(p)' <= Effort(p) /\ (Migrate(p) => Effort(p)' < Effort(p))]_vars

(* What keeps a collector from its next step is the transaction of another *)
(* that is not kept from its own.                                          *)
MayMigrate(p) ==
  \/ pc[p] \in {"idle", "absent", "listing", "failed"}
  \/ pc[p] = "migrating" /\ Pending(p) = {}
  \/ \E v \in Versions :
       /\ Migrating(p, v) /\ executed[p] <= Len(Script(v))
       /\ executed[p] < Len(Script(v)) => ~ Blocked(p, Script(v)[executed[p] + 1])

NobodyIsStuck ==
  \A p \in Collectors :
    \/ pc[p] = "done" \/ MayMigrate(p)
    \/ \E q \in Collectors : executed[q] > 0 /\ MayMigrate(q)

LEMMA Places ==
  ASSUME Inv, NEW p \in Collectors
  PROVE  /\ p \in Processes /\ executed[p] \in Nat /\ applied[p] \subseteq db.recorded
         /\ db.recorded \subseteq Versions
         /\ pc[p] \in {"idle", "absent", "listing", "migrating", "done", "failed"}
         /\ executed[p] > 0 => pc[p] = "migrating"
BY DEF Inv, TypeOK, Processes, AppliedAreRecorded, Content

(* The scripts, and what is there before each. *)
LEMMA ScriptOf ==
  ASSUME NEW v
  PROVE  /\ v = 1 => /\ Len(Script(v)) = 3 /\ Script(v)[1] = "clusters"
                     /\ Script(v)[2] = "metric_samples" /\ Script(v)[3] = "analysis_runs"
         /\ v = 2 => /\ Len(Script(v)) = 2 /\ Script(v)[1] = "run_type"
                     /\ Script(v)[2] = "allocations"
         /\ v = 3 /\ dialect = "sqlite" =>
              /\ Len(Script(v)) = 4 /\ Script(v)[1] = "metric_samples_new"
              /\ Script(v)[2] = "copy" /\ Script(v)[3] = "drop" /\ Script(v)[4] = "rename"
         /\ v = 3 /\ dialect # "sqlite" => Len(Script(v)) = 1 /\ Script(v)[1] = "free_text"
<1>1. (v = 1 => Script(v) = Script(1)) /\ (v = 2 => Script(v) = Script(2))
      /\ (v = 3 => Script(v) = Script(3))
  BY Zenon
<1> QED BY <1>1, Scripts, Zenon

(* The next migration, and how far its script has come. *)
LEMMA NextScript ==
  ASSUME Inv, NEW p \in Collectors, NEW v \in Versions, IsNext(p, v)
  PROVE  /\ v \notin applied[p] /\ executed[p] <= Len(Script(v))
         /\ Len(Script(v)) \in Nat
         /\ Len(Script(v)) < IF v = 1 THEN 4 ELSE IF v = 2 THEN 3 ELSE 5
<1>1. dialect \in {"sqlite", "postgres"} /\ v \in {1, 2, 3}
  BY DialectsAssumption DEF Inv, TypeOK, Versions
<1>2. /\ Len(Script(v)) \in Nat
      /\ Len(Script(v)) < IF v = 1 THEN 4 ELSE IF v = 2 THEN 3 ELSE 5
  <2>1. CASE v = 1
    <3>1. Len(Script(v)) = 3
      BY <2>1, ScriptOf, Zenon
    <3>2. Len(Script(v)) \in Nat /\ Len(Script(v)) < 4
      BY <3>1
    <3> QED BY <2>1, <3>2, Zenon
  <2>2. CASE v = 2
    <3>1. Len(Script(v)) = 2
      BY <2>2, ScriptOf, Zenon
    <3>2. Len(Script(v)) \in Nat /\ Len(Script(v)) < 3 /\ 2 # 1
      BY <3>1
    <3> QED BY <2>2, <3>2, Zenon
  <2>3. CASE v = 3
    <3> DEFINE n == Len(Script(v))
    <3>1. n = 4 \/ n = 1
      BY <2>3, ScriptOf, Zenon
    <3> HIDE DEF n
    <3>4. n \in Nat /\ n < 5
      BY <3>1
    <3>2. Len(Script(v)) \in Nat /\ Len(Script(v)) < 5
      BY <3>4 DEF n
    <3>3. ~ (v = 1) /\ ~ (v = 2)
      BY <2>3
    <3> QED BY <3>2, <3>3, Zenon
  <2> QED BY <1>1, <2>1, <2>2, <2>3
<1>3. executed[p] <= Len(Script(v))
  <2>1. CASE executed[p] = 0
    BY <1>2, <2>1
  <2>2. CASE executed[p] > 0
    <3>1. PICK u \in Versions : IsNext(p, u) /\ executed[p] <= Len(Script(u))
      BY <2>2 DEF Inv, TxFollows
    <3>2. u = v
      BY <3>1 DEF IsNext, Pending, Versions
    <3> QED BY <3>1, <3>2
  <2> QED BY <2>1, <2>2, Places
<1> QED BY <1>2, <1>3 DEF IsNext, Pending

LEMMA SomeIsNext ==
  ASSUME NEW p \in Collectors, Pending(p) # {}
  PROVE  \E v \in Versions : IsNext(p, v)
<1>1. PICK u \in Versions : u \notin applied[p]
  BY DEF Pending
<1>2. Versions = {1, 2, 3}
  BY DEF Versions
<1>3. CASE 1 \notin applied[p]
  BY <1>2, <1>3 DEF IsNext, Pending
<1>4. CASE 1 \in applied[p] /\ 2 \notin applied[p]
  BY <1>2, <1>4 DEF IsNext, Pending
<1>5. CASE 1 \in applied[p] /\ 2 \in applied[p]
  BY <1>1, <1>2, <1>5 DEF IsNext, Pending
<1> QED BY <1>3, <1>4, <1>5

(* What the effort is made of, whatever the state. *)
LEMMA Numbers ==
  ASSUME NEW p
  PROVE  /\ Unapplied(p) \in 0 .. 12 /\ Unapplied(p)' \in 0 .. 12
         /\ Unrecorded \in Nat /\ Unrecorded' \in Nat
<1>1. Unapplied(p) \in 0 .. 12 /\ Unapplied(p)' \in 0 .. 12
  BY DEF Unapplied
<1> QED BY <1>1 DEF Unrecorded

(* ... and in one that can be. *)
LEMMA Efforts ==
  ASSUME Inv, NEW p \in Collectors
  PROVE  /\ Unapplied(p) \in 0 .. 12 /\ executed[p] \in Nat /\ executed[p] <= Unapplied(p)
         /\ Unrecorded \in Nat /\ Ahead(p) \in Nat
         /\ pc[p] # "done" => Ahead(p) > 0
         /\ faults \in Nat /\ MaxFaults \in Nat /\ faults <= MaxFaults /\ Effort(p) \in Nat
<1>1. Unapplied(p) \in 0 .. 12 /\ Unrecorded \in Nat
  BY DEF Unapplied, Unrecorded
<1>2. executed[p] \in Nat /\ executed[p] <= Unapplied(p)
  <2>1. CASE executed[p] = 0
    BY <1>1, <2>1
  <2>2. CASE executed[p] > 0
    <3>1. PICK v \in Versions : IsNext(p, v)
      BY <2>2 DEF Inv, TxFollows
    <3>2. v \in {1, 2, 3} /\ executed[p] \in Nat
      BY Places DEF Versions
    <3> QED BY <3>1, <3>2, NextScript DEF Unapplied
  <2> QED BY <2>1, <2>2, Places
<1>3. Ahead(p) \in Nat /\ (pc[p] # "done" => Ahead(p) > 0)
  BY <1>1, <1>2, Places DEF Ahead
<1>4. faults \in Nat /\ MaxFaults \in Nat /\ faults <= MaxFaults
  BY FaultsAssumption DEF Inv, TypeOK
<1> QED BY <1>1, <1>2, <1>3, <1>4 DEF Effort

(* Which comes to less, from less. *)
LEMMA LessEffort ==
  ASSUME NEW p, faults \in Nat, faults' \in Nat, Unrecorded \in Nat, Unrecorded' \in Int,
         Ahead(p) \in Nat, Ahead(p)' \in Int
  PROVE  18 * faults' - 18 * faults > Unrecorded' - Unrecorded + (Ahead(p)' - Ahead(p))
           => Effort(p)' < Effort(p)
<1> DEFINE m == MaxFaults
           f == faults
           g == faults'
           u == Unrecorded
           w == Unrecorded'
           a == Ahead(p)
           b == Ahead(p)'
           e == Effort(p)
           d == Effort(p)'
<1>1. m \in Nat
  BY FaultsAssumption
<1>2. e = 18 * (m - f) + u + a /\ d = 18 * (m - g) + w + b
  BY DEF Effort
<1>3. f \in Nat /\ g \in Nat /\ u \in Nat /\ w \in Int /\ a \in Nat /\ b \in Int
  OBVIOUS
<1> SUFFICES 18 * g - 18 * f > w - u + (b - a) => d < e
  OBVIOUS
<1> HIDE DEF m, f, g, u, w, a, b, e, d
<1> QED BY <1>1, <1>2, <1>3

(* A step of another that leaves p where it is: one commit at most, which  *)
(* may overtake p.                                                         *)
LEMMA OthersEffort ==
  ASSUME Inv, NEW p \in Collectors,
         pc'[p] = pc[p], applied'[p] = applied[p], executed'[p] = executed[p],
         faults' \in {faults, faults + 1},
         \/ db'.recorded = db.recorded /\ ledger' \in {ledger, TRUE}
         \/ /\ \E v \in Versions \ db.recorded : db'.recorded = db.recorded \union {v}
            /\ ledger' = ledger
  PROVE  Effort(p)' <= Effort(p)
<1>1. Unapplied(p)' = Unapplied(p)
  BY DEF Unapplied
<1>2. /\ Unapplied(p) \in 0 .. 12 /\ executed[p] \in Nat /\ executed[p] <= Unapplied(p)
      /\ Unrecorded \in Nat /\ Ahead(p) \in Nat
      /\ faults \in Nat /\ MaxFaults \in Nat
  BY Efforts
<1>3. CASE db'.recorded = db.recorded /\ ledger' = ledger
  <2>1. Unrecorded' = Unrecorded /\ Ahead(p)' = Ahead(p)
    BY <1>1, <1>3 DEF Unrecorded, Ahead, Overtaken
  <2> QED BY <1>2, <2>1 DEF Effort
<1>4. CASE \/ db'.recorded = db.recorded /\ ledger' # ledger /\ ledger' = TRUE
           \/ /\ \E v \in Versions \ db.recorded : db'.recorded = db.recorded \union {v}
              /\ ledger' = ledger
  <2>1. Unrecorded' = Unrecorded - 18
    <3>1. CASE db'.recorded = db.recorded /\ ledger' # ledger /\ ledger' = TRUE
      <4>1. ~ledger /\ ledger'
        BY <3>1 DEF Inv, TypeOK
      <4> QED BY <3>1, <4>1 DEF Unrecorded
    <3>2. CASE /\ \E v \in Versions \ db.recorded : db'.recorded = db.recorded \union {v}
               /\ ledger' = ledger
      <4>1. PICK v \in {1, 2, 3} : v \notin db.recorded /\ db'.recorded = db.recorded \union {v}
        BY <3>2 DEF Versions
      <4> QED BY <3>2, <4>1 DEF Unrecorded
    <3> QED BY <1>4, <3>1, <3>2
  <2>2. Ahead(p)' <= Ahead(p) + 18 /\ Ahead(p)' \in Int
    BY <1>1, <1>2 DEF Ahead
  <2> QED BY <1>2, <2>1, <2>2 DEF Effort
<1> QED BY <1>3, <1>4

(* Whoever gives up at a statement, or finds its version recorded, has     *)
(* been overtaken.                                                         *)
LEMMA GivesUpOvertaken ==
  ASSUME Inv, Honest, NEW p \in Collectors, NEW v \in Versions,
         \/ Migrating(p, v) /\ executed[p] < Len(Script(v))
            /\ ~ Runs(Script(v)[executed[p] + 1], Sees(p))
         \/ RecordedTwice(p, v)
  PROVE  Overtaken(p)
<1>1. CASE RecordedTwice(p, v)
  BY <1>1 DEF RecordedTwice, Executed, Migrating, IsNext, Pending, Overtaken
<1>2. CASE /\ Migrating(p, v) /\ executed[p] < Len(Script(v))
           /\ ~ Runs(Script(v)[executed[p] + 1], Sees(p))
  <2> SUFFICES ASSUME applied[p] = db.recorded PROVE FALSE
    BY <1>2 DEF Overtaken, Migrating
  <2>1. PICK n \in {0} \union Versions : db.recorded = 1 .. n /\ db.schema = SchemaOf(1 .. n)
    BY DEF Honest
  <2>2. v \notin 1 .. n /\ (\A u \in Versions : u \notin 1 .. n => v <= u) /\ IsNext(p, v)
    BY <1>2, <2>1 DEF Migrating, IsNext, Pending
  <2>3. n \in {0, 1, 2} /\ v = n + 1 /\ v \in {1, 2, 3}
    <3>1. n \in {0, 1, 2, 3} /\ v \in {1, 2, 3}
      BY DEF Versions
    <3>2. n < v
      BY <2>2, <3>1
    <3>3. n + 1 \in Versions /\ n + 1 \notin 1 .. n
      BY <3>1, <3>2 DEF Versions
    <3> QED BY <2>2, <3>1, <3>2, <3>3
  <2>4. /\ executed[p] \in Nat /\ dialect \in {"sqlite", "postgres"}
        /\ executed[p] < Len(Script(v))
    BY <1>2, Places, DialectsAssumption DEF Inv, TypeOK
  <2> DEFINE k == executed[p]
  <2>5. Sees(p).schema = IF k = 0 THEN db.schema ELSE SchemaAfter(v, k)
    <3>1. CASE k = 0
      BY <3>1 DEF Sees
    <3>2. CASE k > 0
      <4>1. PICK u \in Versions : IsNext(p, u) /\ tx[p].schema = SchemaAfter(u, k)
        BY <3>2 DEF Inv, TxFollows
      <4>2. u = v
        BY <2>2, <4>1 DEF IsNext, Pending, Versions
      <4> QED BY <3>2, <4>1, <4>2 DEF Sees
    <3> QED BY <2>4, <3>1, <3>2
  <2>6. Script(v)[k + 1] \in Sees(p).schema
    BY <1>2 DEF Runs
  <2>7. /\ db.schema = IF v = 1 THEN {}
                       ELSE IF v = 2 THEN {"clusters", "metric_samples", "analysis_runs"}
                       ELSE {"clusters", "metric_samples", "analysis_runs", "run_type",
                             "allocations"}
    <3>1. CASE n = 0
      BY <2>1, <2>3, <3>1, Schemas
    <3>2. CASE n = 1
      <4>1. db.schema = SchemaOf(1 .. 1)
        BY <2>1, <3>2
      <4> QED BY <2>3, <3>2, <4>1, Schemas
    <3>3. CASE n = 2
      <4>1. db.schema = SchemaOf(1 .. 2)
        BY <2>1, <3>3
      <4> QED BY <2>3, <3>3, <4>1, Schemas
    <3> QED BY <2>3, <3>1, <3>2, <3>3
  <2> HIDE DEF k
  <2>8. k \in Nat /\ k < Len(Script(v))
    BY <2>4 DEF k
  <2>9. Sees(p).schema \subseteq IF k = 0 THEN db.schema ELSE SchemaAfter(v, k)
    BY <2>5
  <2>10. CASE v = 1
    <3>1. Len(Script(v)) = 3 /\ Script(v)[1] = "clusters"
          /\ Script(v)[2] = "metric_samples" /\ Script(v)[3] = "analysis_runs"
      BY <2>10, ScriptOf, Zenon
    <3>2. db.schema = {}
      BY <2>7, <2>10
    <3>3. CASE k = 0
      BY <2>6, <2>9, <3>2, <3>3
    <3>4. CASE k > 0
      <4>1. SchemaAfter(v, k) = {Script(v)[i] : i \in 1 .. k}
        BY <2>10, <3>2 DEF SchemaAfter
      <4>2. PICK i \in 1 .. k : Script(v)[i] = Script(v)[k + 1]
        BY <2>6, <2>9, <3>4, <4>1
      <4>3. i \in {1, 2} /\ k \in {1, 2} /\ i <= k
        BY <2>8, <3>1, <4>2
      <4> QED BY <3>1, <4>2, <4>3
    <3> QED BY <2>8, <3>3, <3>4
  <2>11. CASE v = 2
    <3>1. Len(Script(v)) = 2 /\ Script(v)[1] = "run_type" /\ Script(v)[2] = "allocations"
      BY <2>11, ScriptOf, Zenon
    <3>2. db.schema = {"clusters", "metric_samples", "analysis_runs"}
      BY <2>7, <2>11
    <3>3. CASE k = 0
      BY <2>6, <2>9, <3>1, <3>2, <3>3
    <3>4. CASE k = 1
      <4>1. SchemaAfter(v, k) = db.schema \union {Script(v)[1]}
        BY <2>11, <3>4 DEF SchemaAfter
      <4> QED BY <2>6, <2>9, <3>1, <3>2, <3>4, <4>1
    <3> QED BY <2>8, <3>1, <3>3, <3>4
  <2>12. CASE v = 3 /\ dialect = "sqlite"
    <3>1. /\ Len(Script(v)) = 4 /\ Script(v)[1] = "metric_samples_new"
          /\ Script(v)[2] = "copy" /\ Script(v)[3] = "drop" /\ Script(v)[4] = "rename"
      BY <2>12, ScriptOf, Zenon
    <3>2. db.schema = {"clusters", "metric_samples", "analysis_runs", "run_type",
                       "allocations"}
      BY <2>7, <2>12
    <3>3. CASE k = 0
      BY <2>6, <2>9, <3>1, <3>2, <3>3
    <3>4. CASE k \in {1, 2, 3}
      <4>1. Script(v)[k + 1] \in {"copy", "drop", "rename"}
        BY <3>1, <3>4
      <4>2. SchemaAfter(v, k) \subseteq db.schema \union {"metric_samples_new"}
        BY <2>12, <3>4 DEF SchemaAfter
      <4> QED BY <2>6, <2>9, <3>2, <3>4, <4>1, <4>2
    <3> QED BY <2>8, <3>1, <3>3, <3>4
  <2>13. CASE v = 3 /\ dialect # "sqlite"
    <3>1. Len(Script(v)) = 1 /\ Script(v)[1] = "free_text"
      BY <2>13, ScriptOf, Zenon
    <3>2. k = 0
      BY <2>8, <3>1
    <3> QED BY <2>6, <2>7, <2>9, <2>13, <3>1, <3>2
  <2> QED BY <2>3, <2>10, <2>11, <2>12, <2>13
<1> QED BY <1>1, <1>2

(* A version of its own recorded. *)
LEMMA CommitEffort ==
  ASSUME Inv, NEW p \in Collectors, NEW v \in Versions, Executed(p, v),
         v \notin db.recorded, db'.recorded = db.recorded \union {v}, ledger' = ledger,
         \/ /\ applied' = [applied EXCEPT ![p] = @ \union {v}]
            /\ executed' = [executed EXCEPT ![p] = 0] /\ pc' = pc /\ faults' = faults
         \/ GiveUp(p) /\ faults' = faults + 1
  PROVE  Effort(p)' < Effort(p)
<1>1. /\ pc[p] = "migrating" /\ IsNext(p, v) /\ executed[p] = Len(Script(v))
      /\ v \in {1, 2, 3} /\ v \notin applied[p]
  BY NextScript DEF Executed, Migrating, Versions
<1>2. /\ Unapplied(p) \in 0 .. 12 /\ executed[p] \in Nat /\ executed[p] <= Unapplied(p)
      /\ Unrecorded \in Nat /\ Ahead(p) \in Nat /\ Ahead(p) > 0
      /\ faults \in Nat /\ MaxFaults \in Nat
  BY <1>1, Efforts
<1>3. Unrecorded' = Unrecorded - 18
  BY <1>1 DEF Unrecorded
<1>4. CASE GiveUp(p) /\ faults' = faults + 1
  <2>1. Ahead(p)' = 17
    BY <1>4, Places DEF GiveUp, Ahead, Overtaken, Inv, TypeOK
  <2> QED BY <1>2, <1>3, <1>4, <2>1 DEF Effort
<1>5. CASE /\ applied' = [applied EXCEPT ![p] = @ \union {v}]
           /\ executed' = [executed EXCEPT ![p] = 0] /\ pc' = pc /\ faults' = faults
  <2>1. applied'[p] = applied[p] \union {v} /\ executed'[p] = 0 /\ pc'[p] = "migrating"
    BY <1>1, <1>5, Places DEF Inv, TypeOK
  <2>2. Unapplied(p)' + executed[p] + 1 <= Unapplied(p) /\ Unapplied(p)' \in 0 .. 12
    <3>1. Unapplied(p)' \in 0 .. 12
      BY Numbers
    <3>2. executed[p] < IF v = 1 THEN 4 ELSE IF v = 2 THEN 3 ELSE 5
      BY <1>1, NextScript
    <3> QED BY <1>1, <1>2, <2>1, <3>1, <3>2 DEF Unapplied
  <2>3. Overtaken(p)' => Overtaken(p)
    BY <1>1, <2>1 DEF Overtaken
  <2>4. Ahead(p)' < Ahead(p) /\ Ahead(p)' \in Int
    <3>1. /\ Ahead(p) = 1 + Unapplied(p) - executed[p] + (IF Overtaken(p) THEN 18 ELSE 0)
          /\ Ahead(p)' = 1 + Unapplied(p)' - 0 + (IF Overtaken(p)' THEN 18 ELSE 0)
      BY <1>1, <2>1 DEF Ahead
    <3> DEFINE a == Unapplied(p)
               b == Unapplied(p)'
               k == executed[p]
    <3>2. a \in Nat /\ b \in Nat /\ k \in Nat /\ b + k + 1 <= a
      BY <1>2, <2>2
    <3> HIDE DEF a, b, k
    <3>3. CASE Overtaken(p)
      <4>1. Ahead(p) = 1 + a - k + 18 /\ Ahead(p)' \in {1 + b, 1 + b + 18}
        BY <3>1, <3>2, <3>3 DEF a, b, k
      <4> QED BY <3>2, <4>1
    <3>4. CASE ~ Overtaken(p)
      <4>1. Ahead(p) = 1 + a - k + 0 /\ Ahead(p)' = 1 + b - 0 + 0
        BY <2>3, <3>1, <3>4 DEF a, b, k
      <4> QED BY <3>2, <4>1
    <3> QED BY <3>3, <3>4
  <2>5. faults' = faults /\ Unrecorded' - Unrecorded + (Ahead(p)' - Ahead(p)) < 0
        /\ Unrecorded' \in Int
    BY <1>2, <1>3, <1>5, <2>4
  <2>6. 18 * faults' - 18 * faults = 0
    BY <1>2, <2>5
  <2>7. 18 * faults' - 18 * faults > Unrecorded' - Unrecorded + (Ahead(p)' - Ahead(p))
    BY <1>2, <2>4, <2>5, <2>6
  <2> QED BY <1>2, <2>4, <2>5, <2>7, LessEffort
<1> QED BY <1>4, <1>5

LEMMA MigrateEffort ==
  ASSUME Inv, Honest, NEW p \in Collectors, Migrate(p) \/ Fault(p)
  PROVE  Effort(p)' < Effort(p)
<1>1. /\ Unapplied(p) \in 0 .. 12 /\ Unapplied(p)' \in 0 .. 12
      /\ executed[p] \in Nat /\ executed[p] <= Unapplied(p)
      /\ Unrecorded \in Nat /\ Ahead(p) \in Nat
      /\ pc[p] # "done" => Ahead(p) > 0
      /\ faults \in Nat /\ MaxFaults \in Nat
  BY Efforts, Numbers
<1>2. ASSUME db' = db, ledger' \in {ledger, TRUE}
      PROVE  Unrecorded' \in Nat /\ Unrecorded' <= Unrecorded
  <2>1. CASE ledger' = ledger
    <3>1. Unrecorded' = Unrecorded
      BY <1>2, <2>1 DEF Unrecorded
    <3> QED BY <3>1, Numbers
  <2>2. CASE ledger' = TRUE
    BY <1>2, <2>2, Numbers DEF Unrecorded
  <2> QED BY <1>2, <2>1, <2>2
<1>20. ASSUME db' = db, ledger' \in {ledger, TRUE}, faults' = faults,
              Ahead(p)' \in Int, Ahead(p)' < Ahead(p)
       PROVE  Effort(p)' < Effort(p)
  <2>1. Unrecorded' \in Nat /\ Unrecorded' <= Unrecorded
    BY <1>2, <1>20
  <2>2. 18 * faults' - 18 * faults = 0
    BY <1>1, <1>20
  <2>3. 18 * faults' - 18 * faults > Unrecorded' - Unrecorded + (Ahead(p)' - Ahead(p))
    BY <1>1, <1>20, <2>1, <2>2
  <2> QED BY <1>1, <1>20, <2>1, <2>3, LessEffort
<1>3. ASSUME GiveUp(p) PROVE Ahead(p)' = 17
  BY <1>3, Places DEF GiveUp, Ahead, Overtaken, Inv, TypeOK
<1>4. CASE ReadApplied(p)
  <2>1. /\ pc[p] = "listing" /\ pc'[p] = "migrating" /\ applied'[p] = db.recorded
        /\ db' = db /\ ledger' = ledger /\ faults' = faults /\ executed'[p] = 0
    BY <1>4, Places DEF ReadApplied, Recorded, Inv, TypeOK
  <2>2. Ahead(p)' = 1 + Unapplied(p)' - executed'[p] + 0 /\ Ahead(p) = 14
    BY <2>1 DEF Ahead, Overtaken
  <2> QED BY <1>1, <1>20, <2>1, <2>2
<1>41. CASE EnsureLedger(p) \/ MissLedger(p) \/ MakeLedger(p)
  <2>1. db' = db /\ ledger' \in {ledger, TRUE} /\ faults' = faults
    <3>1. \/ db' = db /\ ledger' = ledger /\ faults' = faults
          \/ db' = db /\ ledger' = TRUE /\ faults' = faults
      BY <1>41 DEF EnsureLedger, MissLedger, MakeLedger
    <3> QED BY <3>1
  <2>2. p \in Processes /\ \A place : [pc EXCEPT ![p] = place][p] = place
    BY Places DEF Inv, TypeOK
  <2>3. CASE EnsureLedger(p)
    <3>1. pc[p] = "idle" /\ pc'[p] = "listing"
      BY <2>2, <2>3 DEF EnsureLedger
    <3>2. Ahead(p) = 16 /\ Ahead(p)' = 14
      BY <3>1 DEF Ahead, Overtaken
    <3>3. Ahead(p)' \in Int /\ Ahead(p)' < Ahead(p)
      BY <3>2
    <3> QED BY <1>20, <2>1, <3>3
  <2>4. CASE MissLedger(p)
    <3>1. pc[p] = "idle" /\ pc'[p] = "absent" /\ ~ledger'
      BY <2>2, <2>4 DEF MissLedger
    <3>2. Ahead(p) = 16 /\ Ahead(p)' = 15
      BY <3>1 DEF Ahead, Overtaken
    <3>3. Ahead(p)' \in Int /\ Ahead(p)' < Ahead(p)
      BY <3>2
    <3> QED BY <1>20, <2>1, <3>3
  <2>5. CASE MakeLedger(p)
    <3>1. pc[p] = "absent" /\ ~ledger /\ pc'[p] = "listing"
      BY <2>2, <2>5 DEF MakeLedger
    <3>2. Ahead(p) = 15 /\ Ahead(p)' = 14
      BY <3>1 DEF Ahead, Overtaken
    <3>3. Ahead(p)' \in Int /\ Ahead(p)' < Ahead(p)
      BY <3>2
    <3> QED BY <1>20, <2>1, <3>3
  <2> QED BY <1>41, <2>3, <2>4, <2>5
<1>42. CASE FindsNameTaken(p)
  <2>1. /\ pc[p] = "absent" /\ ledger /\ GiveUp(p)
        /\ db' = db /\ ledger' = ledger /\ faults' = faults
    BY <1>42 DEF FindsNameTaken
  <2>2. Ahead(p) = 15 + 18 /\ Ahead(p)' = 17
    BY <1>3, <2>1 DEF Ahead, Overtaken
  <2> QED BY <1>20, <2>1, <2>2
<1>5. ASSUME NEW v \in Versions, Execute(p, v) PROVE Effort(p)' < Effort(p)
  <2>1. pc[p] = "migrating" /\ faults' = faults /\ db' = db /\ ledger' = ledger
    BY <1>5 DEF Execute, Migrating, InTransaction
  <2>2. CASE Runs(Script(v)[executed[p] + 1], Sees(p))
    <3>1. pc'[p] = "migrating" /\ applied'[p] = applied[p] /\ executed'[p] = executed[p] + 1
      BY <1>5, <2>1, <2>2, Places DEF Execute, Inv, TypeOK
    <3>2. Unapplied(p)' = Unapplied(p) /\ (Overtaken(p)' <=> Overtaken(p))
      BY <2>1, <3>1 DEF Unapplied, Overtaken
    <3>3. Ahead(p)' < Ahead(p) /\ Ahead(p)' \in Int
      BY <1>1, <2>1, <3>1, <3>2 DEF Ahead
    <3> QED BY <1>20, <2>1, <3>3
  <2>3. CASE ~ Runs(Script(v)[executed[p] + 1], Sees(p))
    <3>1. Overtaken(p) /\ GiveUp(p)
      BY <1>5, <2>3, GivesUpOvertaken DEF Execute
    <3>2. Ahead(p) = 1 + Unapplied(p) - executed[p] + 18
      BY <2>1, <3>1 DEF Ahead
    <3> QED BY <1>1, <1>20, <1>3, <2>1, <3>1, <3>2
  <2> QED BY <2>2, <2>3
<1>6. ASSUME NEW v \in Versions, Commit(p, v) PROVE Effort(p)' < Effort(p)
  <2>1. db'.recorded = db.recorded \union {v}
    BY <1>6, Places DEF Commit, Published, Inv, TypeOK, Content
  <2> QED BY <1>6, <2>1, CommitEffort DEF Commit
<1>7. ASSUME NEW v \in Versions, RecordedTwice(p, v) PROVE Effort(p)' < Effort(p)
  <2>1. /\ pc[p] = "migrating" /\ GiveUp(p) /\ db' = db /\ ledger' = ledger
        /\ faults' = faults /\ Overtaken(p)
    BY <1>7, GivesUpOvertaken DEF RecordedTwice, Executed, Migrating
  <2>2. Ahead(p) = 1 + Unapplied(p) - executed[p] + 18
    BY <2>1 DEF Ahead
  <2> QED BY <1>1, <1>20, <1>3, <2>1, <2>2
<1>8. CASE FindsAllApplied(p)
  <2>1. /\ pc[p] = "migrating" /\ pc'[p] = "done" /\ db' = db /\ faults' = faults
        /\ ledger' = ledger
    BY <1>8, Places DEF FindsAllApplied, Inv, TypeOK
  <2>2. Ahead(p)' = 0 /\ Ahead(p) > 0
    BY <1>1, <2>1 DEF Ahead, Overtaken
  <2> QED BY <1>20, <2>1, <2>2
<1>9. CASE Retry(p)
  <2>1. /\ pc[p] = "failed" /\ pc'[p] = "idle" /\ db' = db /\ faults' = faults
        /\ ledger' = ledger
    BY <1>9, Places DEF Retry, Inv, TypeOK
  <2> QED BY <1>20, <2>1 DEF Ahead, Overtaken
<1>10. CASE Fault(p)
  <2>1. /\ pc[p] # "done" /\ GiveUp(p) /\ db' = db /\ faults' = faults + 1
        /\ ledger' \in {ledger, TRUE}
    BY <1>10 DEF Fault
  <2>2. Unrecorded' \in Nat /\ Unrecorded' <= Unrecorded
    BY <1>2, <2>1
  <2>3. Ahead(p)' = 17
    BY <1>3, <2>1
  <2>4. Ahead(p) > 0 /\ 18 * faults' - 18 * faults = 18
    BY <1>1, <2>1
  <2>5. 18 * faults' - 18 * faults > Unrecorded' - Unrecorded + (Ahead(p)' - Ahead(p))
    BY <1>1, <2>1, <2>2, <2>3, <2>4
  <2> QED BY <1>1, <2>1, <2>2, <2>3, <2>5, LessEffort
<1> QED BY <1>4, <1>41, <1>42, <1>5, <1>6, <1>7, <1>8, <1>9, <1>10 DEF Migrate

(* What the steps of others do to p.                                       *)
LEMMA StepsOfOthers ==
  ASSUME Inv, [Next]_vars, NEW p \in Collectors,
         ~ Migrate(p), ~ Fault(p), ~ \E v \in Versions : CommitUnacknowledged(p, v)
  PROVE  /\ pc'[p] = pc[p] /\ applied'[p] = applied[p] /\ executed'[p] = executed[p]
         /\ faults' \in {faults, faults + 1}
         /\ \/ db'.recorded = db.recorded /\ ledger' \in {ledger, TRUE}
            \/ /\ \E v \in Versions \ db.recorded : db'.recorded = db.recorded \union {v}
               /\ ledger' = ledger
<1> USE ProcessesAssumption DEF Inv, TypeOK, Processes
<1>1. ASSUME NEW q \in Collectors, q # p, Migrate(q) \/ Fault(q)
             \/ \E v \in Versions : CommitUnacknowledged(q, v)
      PROVE  /\ pc'[p] = pc[p] /\ applied'[p] = applied[p] /\ executed'[p] = executed[p]
             /\ faults' \in {faults, faults + 1}
             /\ \/ db'.recorded = db.recorded /\ ledger' \in {ledger, TRUE}
                \/ /\ \E v \in Versions \ db.recorded :
                          db'.recorded = db.recorded \union {v}
                   /\ ledger' = ledger
  <2>1. ASSUME NEW v \in Versions, Commit(q, v) \/ CommitUnacknowledged(q, v)
        PROVE  /\ v \notin db.recorded /\ db'.recorded = db.recorded \union {v}
               /\ ledger' = ledger
    BY <2>1 DEF Commit, CommitUnacknowledged, Published, Content
  <2>2. ASSUME ~ \E v \in Versions : Commit(q, v) \/ CommitUnacknowledged(q, v)
        PROVE  db' = db /\ ledger' \in {ledger, TRUE}
    BY <1>1, <2>2 DEF Migrate, Fault, EnsureLedger, MissLedger, MakeLedger, FindsNameTaken,
                      ReadApplied, Execute, InTransaction, RecordedTwice, FindsAllApplied, Retry
  <2>3. /\ pc'[p] = pc[p] /\ applied'[p] = applied[p] /\ executed'[p] = executed[p]
        /\ faults' \in {faults, faults + 1}
    BY <1>1 DEF Migrate, Fault, EnsureLedger, MissLedger, MakeLedger, FindsNameTaken,
                ReadApplied, Execute, RecordedTwice, Commit,
                CommitUnacknowledged, FindsAllApplied, Retry, GiveUp
  <2> QED BY <2>1, <2>2, <2>3
<1>2. ASSUME NEW q \in Collectors, Collect(q)
      PROVE  /\ UNCHANGED <<pc, applied, executed, faults, ledger>>
             /\ db'.recorded = db.recorded
  BY <1>2 DEF Collect, Content
<1>3. ASSUME NEW e \in Engines, ExecuteScript(e)
      PROVE  /\ pc'[p] = pc[p] /\ applied'[p] = applied[p] /\ executed'[p] = executed[p]
             /\ faults' = faults /\ db'.recorded = db.recorded /\ ledger' = ledger
  <2>1. /\ pc'[p] = pc[p] /\ applied'[p] = applied[p] /\ executed'[p] = executed[p]
        /\ faults' = faults /\ ledger' = ledger
    BY <1>3 DEF ExecuteScript
  <2>2. db' = db \/ \E statement : db' = After(statement, db)
    BY <1>3 DEF ExecuteScript
  <2>3. \A statement : After(statement, db).recorded = db.recorded
    BY DEF After, Content
  <2> QED BY <2>1, <2>2, <2>3
<1>4. ASSUME NEW e \in Engines, TableExists(e) \/ Kill(e) \/ Retry(e)
      PROVE  /\ pc'[p] = pc[p] /\ applied'[p] = applied[p] /\ executed'[p] = executed[p]
             /\ faults' = faults /\ db' = db /\ ledger' = ledger
  BY <1>4 DEF TableExists, Kill, Retry
<1>5. CASE UNCHANGED vars
  BY <1>5 DEF vars
<1> QED BY <1>1, <1>2, <1>3, <1>4, <1>5 DEF Next

(* A collector fails without a fault only when another has committed since *)
(* it looked for schema_migrations, or into it (migrate.go:24-62): trying  *)
(* again is not in vain.                                                   *)
THEOREM OvertakenCorrect == Spec => OnlyTheOvertakenFail
<1> DEFINE Fair == \A p \in Collectors :
             Honest /\ pc[p] # "failed" /\ pc'[p] = "failed" /\ faults' = faults
               => Overtaken(p)
<1>1. Inv /\ [Next]_vars => Fair
  <2> SUFFICES ASSUME Inv, [Next]_vars, NEW p \in Collectors, Honest,
                      pc[p] # "failed", pc'[p] = "failed", faults' = faults
               PROVE  Overtaken(p)
    OBVIOUS
  <2>1. ~ Fault(p) /\ ~ \E v \in Versions : CommitUnacknowledged(p, v)
    <3>1. faults + 1 # faults
      BY DEF Inv, TypeOK
    <3> QED BY <3>1 DEF Fault, CommitUnacknowledged
  <2>2. Migrate(p)
    BY <2>1, StepsOfOthers
  <2>3. /\ ~ EnsureLedger(p) /\ ~ MissLedger(p) /\ ~ MakeLedger(p)
        /\ ~ ReadApplied(p) /\ ~ FindsAllApplied(p) /\ ~ Retry(p)
        /\ ~ \E v \in Versions : Commit(p, v)
    BY Places DEF EnsureLedger, MissLedger, MakeLedger, ReadApplied, FindsAllApplied, Retry,
                  Commit, Inv, TypeOK
  <2>5. ASSUME FindsNameTaken(p) PROVE Overtaken(p)
    BY <2>5 DEF FindsNameTaken, Overtaken
  <2>4. ASSUME NEW v \in Versions, Execute(p, v) PROVE Overtaken(p)
    <3>1. ~ Runs(Script(v)[executed[p] + 1], Sees(p))
      BY <2>4, Places DEF Execute
    <3> QED BY <2>4, <3>1, GivesUpOvertaken DEF Execute
  <2> QED BY <2>2, <2>3, <2>4, <2>5, GivesUpOvertaken DEF Migrate
<1> QED BY <1>1, InvHolds, PTL DEF Spec, OnlyTheOvertakenFail

(* A collector takes a bounded number of steps to its schema, however      *)
(* those of others and the failures they make one another suffer fall.     *)
THEOREM EffortsEnd == Spec => EffortShrinks
<1> DEFINE Less == \A p \in Collectors :
             /\ Effort(p) \in Nat
             /\ Honest => Effort(p)' <= Effort(p) /\ (Migrate(p) => Effort(p)' < Effort(p))
<1>1. Inv /\ [Next]_vars => Less
  <2> SUFFICES ASSUME Inv, [Next]_vars, NEW p \in Collectors
               PROVE  /\ Effort(p) \in Nat
                      /\ Honest => /\ Effort(p)' <= Effort(p)
                                   /\ Migrate(p) => Effort(p)' < Effort(p)
    OBVIOUS
  <2>1. Effort(p) \in Nat /\ (Effort(p)' < Effort(p) => Effort(p)' <= Effort(p))
    <3>1. Effort(p)' \in Int
      <4>1. Effort(p)' = 18 * (MaxFaults - faults') + Unrecorded' + Ahead(p)'
        BY DEF Effort
      <4>2. faults' \in Int /\ MaxFaults \in Int
        BY FaultsAssumption, InvStep DEF Inv, TypeOK
      <4>3. Ahead(p)' \in Int
        <5>1. executed'[p] \in Int
          BY InvStep DEF Inv, TypeOK, Processes
        <5> QED BY <5>1, Numbers DEF Ahead
      <4>4. Unrecorded' \in Int
        BY Numbers
      <4> QED BY <4>1, <4>2, <4>3, <4>4
    <3> QED BY <3>1, Efforts
  <2>2. CASE Honest /\ (Migrate(p) \/ Fault(p))
    BY <2>1, <2>2, MigrateEffort
  <2>3. ASSUME NEW v \in Versions, CommitUnacknowledged(p, v) PROVE Effort(p)' < Effort(p)
    <3>1. db'.recorded = db.recorded \union {v}
      BY <2>3, Places DEF CommitUnacknowledged, Published, Inv, TypeOK, Content
    <3> QED BY <2>3, <3>1, CommitEffort DEF CommitUnacknowledged
  <2>4. CASE ~ Migrate(p) /\ ~ Fault(p) /\ ~ \E v \in Versions : CommitUnacknowledged(p, v)
    <3>1. /\ pc'[p] = pc[p] /\ applied'[p] = applied[p] /\ executed'[p] = executed[p]
          /\ faults' \in {faults, faults + 1}
          /\ \/ db'.recorded = db.recorded /\ ledger' \in {ledger, TRUE}
             \/ /\ \E v \in Versions \ db.recorded : db'.recorded = db.recorded \union {v}
                /\ ledger' = ledger
      BY <2>4, StepsOfOthers
    <3>2. Effort(p)' <= Effort(p)
      BY <3>1, OthersEffort
    <3> QED BY <2>1, <2>4, <3>2
  <2>5. CASE ~ Migrate(p) /\ ~ Fault(p) /\ \E v \in Versions : CommitUnacknowledged(p, v)
    BY <2>1, <2>3, <2>5
  <2> QED BY <2>1, <2>2, <2>4, <2>5
<1> QED BY <1>1, InvHolds, PTL DEF Spec, EffortShrinks

(* Whoever waits, waits for a transaction that goes on: on sqlite for the  *)
(* one writer, on postgres for the one that has made the object it is to   *)
(* make (applyMigration, migrate.go:81-99).  There is no deadlock.         *)
THEOREM NobodyGetsStuck == Spec => []NobodyIsStuck
<1>1. Inv => NobodyIsStuck
  <2> SUFFICES ASSUME Inv, NEW p \in Collectors, pc[p] = "migrating", Pending(p) # {}
               PROVE  MayMigrate(p) \/ \E q \in Collectors : executed[q] > 0 /\ MayMigrate(q)
    BY Places DEF NobodyIsStuck, MayMigrate
  <2>1. ASSUME NEW q \in Collectors, pc[q] = "migrating", Pending(q) # {},
               \A r \in Collectors \ {q} : ~ executed[r] > 0
        PROVE  MayMigrate(q)
    <3>1. PICK v \in Versions : IsNext(q, v)
      BY <2>1, SomeIsNext
    <3>2. executed[q] <= Len(Script(v))
      BY <3>1, NextScript
    <3>3. ~ Blocked(q, Script(v)[executed[q] + 1])
      BY <2>1 DEF Blocked
    <3> QED BY <2>1, <3>1, <3>2, <3>3 DEF MayMigrate, Migrating
  <2>2. CASE \A r \in Collectors \ {p} : ~ executed[r] > 0
    BY <2>1, <2>2
  <2>3. ASSUME NEW q \in Collectors, executed[q] > 0
        PROVE  MayMigrate(q)
    <3>1. pc[q] = "migrating"
      BY <2>3, Places
    <3>2. Pending(q) # {}
      BY <2>3 DEF Inv, TxFollows, IsNext
    <3>3. \A r \in Collectors \ {q} : ~ executed[r] > 0
      BY <2>3 DEF Inv, OneAtATime
    <3> QED BY <2>1, <3>1, <3>2, <3>3
  <2> QED BY <2>2, <2>3
<1> QED BY <1>1, InvHolds, PTL DEF Spec

=============================================================================
