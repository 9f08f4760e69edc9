---------------------------- MODULE StageTables -----------------------------
(***************************************************************************)
(* The tables of the relay host, sign, broadcast and validator actors      *)
(* (crate/actors/src), each reduced to the latest revision of an           *)
(* execution.  The unique index of the sign, broadcast and validator       *)
(* tables lets only the latest revision be open, and no other component    *)
(* reads them, so a handler is one step here.                              *)
(*                                                                         *)
(* Their two-minute leases make no difference: a handler that finds an     *)
(* open revision inside the lease gives up in its own code, and one that   *)
(* finds it after the lease is refused by the unique index.                *)
(***************************************************************************)
EXTENDS Executions

CONSTANTS
    BadIntents,   (* executions whose transaction fails transaction_lint    *)
    Unsignable    (* executions without a usable key, or that fail to sign  *)

ASSUME IntentsAssumption == BadIntents \subseteq Exec /\ Unsignable \subseteq Exec

VARIABLES
    intents,      (* executions in relay_host.transaction_intents *)
    signs,        (* sign.sign_requests                           *)
    sends,        (* broadcast.broadcast_requests                 *)
    validations   (* validator.validation_requests                *)

SignStates == {"none", "reserved", "signed", "failed"}
SendStates == {"none", "received", "submitted", "rejected"}
ValidationStates == {"none", "pending", "included", "not_included", "timed_out"}

Update(table, e, new) == [table EXCEPT ![e] = new]

-----------------------------------------------------------------------------
(* handle_submit_transaction of the relay host *)

Registered(e) ==
    /\ e \in intents \/ e \notin BadIntents
    /\ intents' = intents \cup {e}

LintFailed(e) == e \notin intents /\ e \in BadIntents /\ UNCHANGED intents

\* A statement fails; the INSERT may have been committed.
RegisterBroken(e) ==
    \/ UNCHANGED intents
    \/ e \notin BadIntents /\ intents' = intents \cup {e}

-----------------------------------------------------------------------------
(* handle_sign and handle_revert *)

SignOpen(e) == signs[e] \in {"reserved", "signed"}

Signed(e) ==
    /\ ~SignOpen(e)
    /\ e \notin Unsignable
    /\ signs' = Update(signs, e, "signed")

\* resolve_key finds no usable key, before any row is written.
KeyMissing(e) == e \in Unsignable /\ UNCHANGED signs

\* The signing error is recorded.
SigningFailed(e) ==
    /\ ~SignOpen(e)
    /\ e \in Unsignable
    /\ signs' = Update(signs, e, "failed")

\* An open revision: the handler answers Invariant, the index DatabaseError.
SignRefused(e) == SignOpen(e) /\ UNCHANGED signs

\* A statement fails: the row stays as it was, is left reserved, or is what it should
\* be and only the acknowledgement is lost.
SignBroken(e) ==
    LET result == IF e \in Unsignable THEN "failed" ELSE "signed" IN
    /\ ~SignOpen(e)
    /\ \E new \in {signs[e], "reserved", result} : signs' = Update(signs, e, new)

Reverted(e) == signs[e] = "signed" /\ signs' = Update(signs, e, "failed")
RevertRefused(e) == signs[e] # "signed" /\ UNCHANGED signs

-----------------------------------------------------------------------------
(* The rows of handle_broadcast and handle_validation.  What they send and   *)
(* poll is in module Pipeline.                                               *)

\* Mutant of SendOpen: a revision left `received` is not open.
SendOpenIfSubmitted(e) == sends[e] = "submitted"

SendOpen(e) == sends[e] \in {"received", "submitted"}
SetSend(e, new) == sends' = Update(sends, e, new)
SetValidation(e, new) == validations' = Update(validations, e, new)

StageInit ==
    /\ intents = {}
    /\ signs = [e \in Exec |-> "none"]
    /\ sends = [e \in Exec |-> "none"]
    /\ validations = [e \in Exec |-> "none"]

=============================================================================
