--------------------------- MODULE MCAnalysisRun ----------------------------
(***************************************************************************)
(* Instances of AnalysisRun for TLC: two requests, two workloads, on one   *)
(* cluster or on two.                                                      *)
(***************************************************************************)
EXTENDS AnalysisRun, TLC

CONSTANTS q1, q2

(* Both requests analyse the same cluster. *)
OneCluster == [q \in Requests |-> 1]

(* Each request analyses a cluster of its own. *)
TwoClusters == [q \in Requests |-> IF q = q1 THEN 1 ELSE 2]

(* A run of the whole cluster, ranked on cpu; memory is excluded or not    *)
(* configured.                                                             *)
AllWorkloads == [q \in Requests |-> Workloads]
OnCpu == [q \in Requests |-> {"cpu"}]

(* The first request is about one workload, the second about all. *)
OneEach ==
  [q \in Requests |-> IF q = q1 THEN {CHOOSE w \in Workloads : TRUE} ELSE Workloads]

(* k-means does not know the workloads by name, nor does any property. *)
WorkloadSymmetry == Permutations(Workloads)

=============================================================================
