-------------------------- MODULE MCStatusRegistry --------------------------
(* Instances of StatusRegistry for TLC. *)
EXTENDS StatusRegistry, TLC

CONSTANTS e1, e2

\* The executions are alike.
Symmetry == Permutations(Exec)

=============================================================================
