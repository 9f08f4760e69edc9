-------------------------- MODULE MCResponseTimes ---------------------------
(* Instances of ResponseTimes for TLC. *)
EXTENDS ResponseTimes, TLC

CONSTANTS w1, w2

\* The tasks are alike.
Symmetry == Permutations(Writer)

=============================================================================
