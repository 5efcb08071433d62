----------------------------- MODULE RunResults -----------------------------
(***************************************************************************)
(* What an analysis run promises to whoever reads its results.             *)
(*                                                                         *)
(* A reader of the engine's API (GET /runs, /runs/{id}/groups,             *)
(* /runs/{id}/recommendations, /runs/{id}/export) sees, for each run, a    *)
(* status and a set of recommendations.  The promise, whatever the engine, *)
(* the collector and the operators of the API do around it:                *)
(*   - a run becomes visible with its first result or with its outcome,    *)
(*     and its recommendations only grow while it is running;              *)
(*   - it is completed only when every workload it set out to rank has a   *)
(*     recommendation;                                                     *)
(*   - an outcome is final: neither it nor the results beside it change;   *)
(*   - the only other change is that the run disappears, whole, for good.  *)
(***************************************************************************)

CONSTANTS
  Requests,   \* the analysis runs requested of the engine
  Workloads   \* the workloads a run may rank

VARIABLES
  status,     \* what a reader sees of a run; "absent" before, "gone" after
  target,     \* the workloads the run set out to rank
  shown       \* the workloads whose recommendation is visible

vars == <<status, target, shown>>

TypeOK ==
  /\ status \in [Requests -> {"absent", "running", "completed", "failed", "gone"}]
  /\ target \in [Requests -> SUBSET Workloads]
  /\ shown \in [Requests -> SUBSET Workloads]

Init ==
  /\ status = [q \in Requests |-> "absent"]
  /\ target = [q \in Requests |-> {}]
  /\ shown = [q \in Requests |-> {}]

(* The run decides which workloads it ranks, before anyone can see it. *)
Plan(q) ==
  /\ status[q] = "absent"
  /\ \E S \in SUBSET Workloads : target' = [target EXCEPT ![q] = S]
  /\ UNCHANGED <<status, shown>>

(* One more recommendation becomes visible, the first with the run itself. *)
Show(q) ==
  /\ status[q] \in {"absent", "running"}
  /\ status' = [status EXCEPT ![q] = "running"]
  /\ \E w \in target[q] \ shown[q] :
       shown' = [shown EXCEPT ![q] = @ \union {w}]
  /\ UNCHANGED target

(* The run succeeds, with nothing left out. *)
Succeed(q) ==
  /\ status[q] \in {"absent", "running"}
  /\ shown[q] = target[q]
  /\ status' = [status EXCEPT ![q] = "completed"]
  /\ UNCHANGED <<target, shown>>

(* The run fails and keeps what it had shown. *)
Fail(q) ==
  /\ status[q] \in {"absent", "running"}
  /\ status' = [status EXCEPT ![q] = "failed"]
  /\ UNCHANGED <<target, shown>>

(* Some runs disappear at once: their cluster is deleted, or the engine    *)
(* dies before they were ever visible.                                     *)
Vanish ==
  /\ \E S \in (SUBSET Requests) \ {{}} :
       /\ status' = [q \in Requests |-> IF q \in S THEN "gone" ELSE status[q]]
       /\ shown' = [q \in Requests |-> IF q \in S THEN {} ELSE shown[q]]
  /\ UNCHANGED target

Next ==
  \/ \E q \in Requests : Plan(q) \/ Show(q) \/ Succeed(q) \/ Fail(q)
  \/ Vanish

Spec == Init /\ [][Next]_vars

=============================================================================
