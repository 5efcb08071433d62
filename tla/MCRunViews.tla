----------------------------- MODULE MCRunViews -----------------------------
(***************************************************************************)
(* Instances of RunViews for TLC: one reader beside one run.               *)
(***************************************************************************)
EXTENDS RunViews, MCAnalysisRun

CONSTANT c1

=============================================================================
