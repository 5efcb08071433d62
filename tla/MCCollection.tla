---------------------------- MODULE MCCollection ----------------------------
(***************************************************************************)
(* Instances of Collection for TLC.                                        *)
(***************************************************************************)
EXTENDS Collection

CONSTANT w1

(* The query finds the one workload, or nothing.                           *)
OneOrNothing == {{}, {w1}}
One == {{w1}}

(* A user of the CLI asks for one step, where the chart asks for all.      *)
OneStep == {{"metrics"}, {"allocations"}}
EdgesOnly == {{"interactions"}}

=============================================================================
