------------------------------- MODULE Relay --------------------------------
(***************************************************************************)
(* The relay as its clients see it: the fate of the payload of a request,  *)
(* and the answer GET /status gives about it.  Nothing is said of nonces,  *)
(* actors, tables or retries.  Module Pipeline implements it as long as no *)
(* answer of an endpoint is lost.                                          *)
(***************************************************************************)
EXTENDS Executions

VARIABLES
    fate,     (* what became of the payload *)
    answer    (* what the client is told    *)

relayVars == <<fate, answer>>

\* "lost": it is neither on the chain nor will it be sent again.
Fates == {"unsent", "pending", "mined", "reverted", "lost"}

\* "none": not yet decided.  "unknown": forgotten in a restart.
Answers == {"none", "refused", "confirmed", "timed_out", "failed", "unknown"}

Becomes(e, new) == fate' = [fate EXCEPT ![e] = new]

Tell(e, new) ==
    /\ answer[e] = "none"
    /\ answer' = [answer EXCEPT ![e] = new]

\* The attempt that changes the fate may also be the last one.
MayFail(e) == UNCHANGED answer \/ Tell(e, "failed")

\* A payload is sent once, and never after its client was told how it ended.  It may
\* take the place of one that is pending.
Send(e) ==
    /\ fate[e] = "unsent"
    /\ answer[e] = "none"
    /\ \/ Becomes(e, "pending")
       \/ \E f \in Exec : /\ fate[f] = "pending"
                          /\ fate' = [fate EXCEPT ![e] = "pending", ![f] = "lost"]
    /\ MayFail(e)

Include(e) ==
    /\ fate[e] = "pending"
    /\ Becomes(e, "mined") \/ Becomes(e, "reverted")
    /\ UNCHANGED answer

Lose(e) ==
    /\ fate[e] = "pending" \/ (fate[e] = "unsent" /\ answer[e] = "none")
    /\ Becomes(e, "lost")
    /\ MayFail(e)

Refuse(e) == fate[e] = "unsent" /\ Tell(e, "refused") /\ UNCHANGED fate
Confirm(e) == fate[e] = "mined" /\ Tell(e, "confirmed") /\ UNCHANGED fate
TimeOut(e) == fate[e] # "unsent" /\ Tell(e, "timed_out") /\ UNCHANGED fate
Fail(e) == Tell(e, "failed") /\ UNCHANGED fate

\* A restart makes nothing happen: it forgets answers and abandons what was unsent.
Restart ==
    \E forgotten \in SUBSET Exec, abandoned \in SUBSET Exec :
        /\ abandoned \subseteq {e \in forgotten : fate[e] = "unsent"}
        /\ answer' = [e \in Exec |-> IF e \in forgotten THEN "unknown" ELSE answer[e]]
        /\ fate' = [e \in Exec |-> IF e \in abandoned THEN "lost" ELSE fate[e]]

RelayInit ==
    /\ fate = [e \in Exec |-> "unsent"]
    /\ answer = [e \in Exec |-> "none"]

RelayNext ==
    \/ Restart
    \/ \E e \in Exec :
        \/ Send(e) \/ Include(e) \/ Lose(e)
        \/ Refuse(e) \/ Confirm(e) \/ TimeOut(e) \/ Fail(e)

RelaySpec == RelayInit /\ [][RelayNext]_relayVars

=============================================================================
