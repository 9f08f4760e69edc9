------------------------- MODULE MCNonceAssignments -------------------------
(* A small instance of NonceAssignments: two executions of one account. *)
EXTENDS NonceAssignments, TLC

CONSTANTS e1, e2, a1

MCExec == {e1, e2}
MCAccount == {a1}
MCAccountOf == [e \in MCExec |-> a1]
MCNonceActorOf == [a \in MCAccount |-> "shard"]
Symmetry == Permutations(MCExec)

=============================================================================
