----------------------------- MODULE MCRegistry -----------------------------
(***************************************************************************)
(* Instances of Registry for TLC: three requests of one mix at a time.     *)
(***************************************************************************)
EXTENDS Registry, TLC

Both == {"sqlite", "postgres"}

(* Nothing at all, a URL, a Secret with a kubeconfig, a URL and a token.   *)
SomeConfigs ==
  {NoConfig, [url |-> TRUE, auth |-> "none"], [url |-> FALSE, auth |-> "kubeconfig"],
   [url |-> TRUE, auth |-> "token"]}

(* Kinds of requests that touch the same rows. *)
SameRows ==
  {{"create_cluster", "delete_cluster", "test_cluster"},
   {"create_cluster", "delete_cluster", "create_source", "test_source"},
   {"update_source", "delete_source", "test_source", "create_source"},
   {"put_settings", "test_connection"}}

RequestSymmetry == Permutations(Requests)

=============================================================================
