----------------------------- MODULE MCPipeline -----------------------------
(* Small instances of Pipeline: one or two executions of one account, and a   *)
(* larger one with a second account that shares the nonce and the validator   *)
(* actor of the first.                                                        *)
EXTENDS Pipeline, TLC

CONSTANTS e1, e2, e3, e4, a1, a2

OneExec == {e1}
TwoExec == {e1, e2}
FourExec == {e1, e2, e3, e4}
OneAccount == {a1}
TwoAccount == {a1, a2}
OneAccountOf == [e \in OneExec |-> a1]
TwoAccountOf == [e \in TwoExec |-> a1]
FourAccountOf == [e \in FourExec |-> IF e \in TwoExec THEN a1 ELSE a2]
SharedActor == [a \in TwoAccount |-> "shard"]

\* e1 and e2 are alike in every instance.
Symmetry == Permutations(TwoExec)

=============================================================================
