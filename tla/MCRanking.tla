----------------------------- MODULE MCRanking ------------------------------
(***************************************************************************)
(* Instances of Ranking for TLC: groups of up to four workloads with two   *)
(* values for each resource, under the default configuration and an        *)
(* unusual one.                                                            *)
(***************************************************************************)
EXTENDS Ranking

Weights(c, m, i) ==
  [r \in Resources |-> CASE r = "cpu" -> c [] r = "memory" -> m [] r = "interactions" -> i]

(* config.py: thirds, 0 + 1000 * score in 0 .. 10^9, 0.05.  No dimension   *)
(* weighs anything, which makes the weights equal, as by default.          *)
DefaultConfig ==
  [weights |-> Weights(0, 0, 0), guaranteed |-> 1, burstable |-> 1, split |-> 3,
   base |-> 0, step |-> 1000, min |-> 0, max |-> 1000000000, gap |-> 1, gapOf |-> 20]

(* Uneven weights, a top slice that rounds to nothing, few priorities, so  *)
(* that many scores round to the same, and a clamp that bites on both      *)
(* sides.                                                                  *)
AnyConfig ==
  {DefaultConfig,
   [DefaultConfig EXCEPT !.weights = Weights(3, 0, 1),
      !.guaranteed = 1, !.burstable = 4, !.split = 10,
      !.base = -1, !.step = 7, !.min = 1, !.max = 5]}

=============================================================================
