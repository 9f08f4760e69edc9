---------------------------- MODULE MCRpcClient -----------------------------
(* An instance of RpcClient for TLC: two tasks, whose fairness rules out symmetry. *)
EXTENDS RpcClient

CONSTANTS c1, c2

Tasks == {c1, c2}

=============================================================================
