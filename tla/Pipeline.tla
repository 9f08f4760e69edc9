------------------------------ MODULE Pipeline ------------------------------
(***************************************************************************)
(* The orchestrator: submit of crate/cortex/src/lib.rs and run_pipeline of *)
(* crate/cortex/src/pipeline.rs, with the actors it calls and the chain.   *)
(*                                                                         *)
(* Each execution is a task that calls one actor after another; pc[e] is   *)
(* the call it is making.  A call is one step, unless the nonce or the     *)
(* broadcast handler does something in its middle that another task or the *)
(* chain can see.  retry_with_backoff is Retry.                            *)
(*                                                                         *)
(* Every step either takes a step of NonceAssignments or leaves its        *)
(* variables alone.                                                        *)
(***************************************************************************)
EXTENDS NonceAssignments, Chain, StageTables

CONSTANTS
    ValidatorActorOf,       (* the shard of the validator pool that serves  *)
                            (* an account, by its chain                     *)
    Permits,                (* pipelines that may run at once               *)
    MaxAttempts,            (* retries after the first attempt              *)
    ValidatorTimeout,       (* age at which the validator gives up polling  *)
    RequiredConfirmations,  (* blocks on top of the transaction's own       *)
    MaxDbFaults,            (* bound: failed or unacknowledged statements   *)
    MaxRpcFaults,           (* bound: failed or unacknowledged RPC calls    *)
    MaxCrashes              (* bound: restarts of the process               *)

ASSUME PipelineAssumption ==
    /\ {Permits, ValidatorTimeout} \subseteq Nat \ {0}
    /\ {MaxAttempts, RequiredConfirmations, MaxDbFaults, MaxRpcFaults, MaxCrashes} \subseteq Nat
    /\ MaxOnChain <= MaxNonce

VARIABLES
    pc,      (* the stage of each execution                           *)
    tries,   (* failed attempts in that stage                         *)
    ctx,     (* locals of run_pipeline, and how long e has been polled *)
    status,  (* the status registry                                   *)
    faults   (* faults that have happened, by kind                    *)

stageVars == <<intents, signs, sends, validations>>
taskVars == <<pc, tries, ctx, status>>
vars == <<nonceVars, chainVars, stageVars, taskVars, faults>>

Stages == {"relay_host", "reserve", "sign", "endpoint", "broadcast", "fetch_nonce", "consume",
           "revert_sign", "sync", "resign", "validate", "poll", "release", "finalise", "expire"}

Statuses == {"None", "PermitAquired", "Accepted", "NonceReserved", "Signed",
             "NonceMismatchDetected", "Broadcasted", "ConfirmedOnChain",
             "ValidatorTimedOut", "Failed"}

Ended == {"ConfirmedOnChain", "ValidatorTimedOut", "Failed"}

\* The order in which a pipeline passes through them.
Rank == [s \in Statuses |->
    CASE s = "None" -> 0
      [] s = "PermitAquired" -> 1
      [] s = "Accepted" -> 2
      [] s = "NonceReserved" -> 3
      [] s = "Signed" -> 4
      [] s = "NonceMismatchDetected" -> 5
      [] s = "Broadcasted" -> 6
      [] s \in Ended -> 7]

InFlight(e) == pc[e] \in Stages

-----------------------------------------------------------------------------
(* Faults, and the retry loop. *)

FaultBudget == [db |-> MaxDbFaults, rpc |-> MaxRpcFaults, crash |-> MaxCrashes]

\* One fault of each of the kinds happens.
Fault(kinds) ==
    /\ \A k \in kinds : faults[k] < FaultBudget[k]
    /\ faults' = [k \in DOMAIN faults |-> IF k \in kinds THEN faults[k] + 1 ELSE faults[k]]

Enter(e, stage) ==
    /\ pc' = [pc EXCEPT ![e] = stage]
    /\ tries' = [tries EXCEPT ![e] = 0]

SetStatus(e, new) == status' = [status EXCEPT ![e] = new]

Advance(e, stage, new) == Enter(e, stage) /\ SetStatus(e, new) /\ UNCHANGED ctx

\* record_faliure and return.
Fail(e, stage) ==
    /\ Enter(e, "done")
    /\ SetStatus(e, "Failed")
    /\ ctx' = [ctx EXCEPT ![e].stage = stage]

\* Mutant of ReleaseThenFail: the release is forgotten.
FailUnreleased(e, stage) == Fail(e, stage)

\* release_nonce, then record_faliure.
ReleaseThenFail(e, stage) ==
    /\ Enter(e, "release")
    /\ ctx' = [ctx EXCEPT ![e].stage = stage]
    /\ UNCHANGED status

\* Mutants of Retry: one attempt too many, one too few, no limit.
RetryOnceMore(e, stage, giveUp) ==
    \/ /\ tries[e] <= MaxAttempts
       /\ tries' = [tries EXCEPT ![e] = @ + 1]
       /\ pc' = [pc EXCEPT ![e] = stage]
       /\ UNCHANGED <<ctx, status>>
    \/ /\ tries[e] > MaxAttempts
       /\ giveUp

RetryOnceLess(e, stage, giveUp) ==
    \/ /\ tries[e] + 1 < MaxAttempts
       /\ tries' = [tries EXCEPT ![e] = @ + 1]
       /\ pc' = [pc EXCEPT ![e] = stage]
       /\ UNCHANGED <<ctx, status>>
    \/ /\ tries[e] + 1 >= MaxAttempts
       /\ giveUp

RetryForever(e, stage, giveUp) ==
    /\ pc' = [pc EXCEPT ![e] = stage]
    /\ UNCHANGED <<tries, ctx, status>>

\* retry_with_backoff: the attempt failed; try again from `stage` or give up.
Retry(e, stage, giveUp) ==
    \/ /\ tries[e] < MaxAttempts
       /\ tries' = [tries EXCEPT ![e] = @ + 1]
       /\ pc' = [pc EXCEPT ![e] = stage]
       /\ UNCHANGED <<ctx, status>>
    \/ /\ tries[e] >= MaxAttempts
       /\ giveUp

-----------------------------------------------------------------------------
(* submit *)

Submit(e) ==
    /\ pc[e] = "idle"
    /\ Cardinality({f \in Exec : InFlight(f)}) < Permits
    /\ Advance(e, "relay_host", "PermitAquired")
    /\ UNCHANGED <<nonceVars, chainVars, stageVars, faults>>

\* submit_transaction of the HTTP server answers an error before it calls submit.
Reject(e) ==
    /\ pc[e] = "idle"
    /\ Enter(e, "refused")
    /\ UNCHANGED <<nonceVars, chainVars, stageVars, ctx, status, faults>>

\* BackpressureTimeout: the request is turned away and leaves no trace.
Refuse(e) ==
    /\ pc[e] = "idle"
    /\ Cardinality({f \in Exec : InFlight(f)}) >= Permits
    /\ Enter(e, "refused")
    /\ UNCHANGED <<nonceVars, chainVars, stageVars, ctx, status, faults>>

-----------------------------------------------------------------------------
(* relay host *)

RelayHost(e) ==
    /\ pc[e] = "relay_host"
    /\ \/ /\ Registered(e)
          /\ Advance(e, "reserve", "Accepted")
          /\ UNCHANGED faults
       \/ /\ LintFailed(e)
          /\ Retry(e, "relay_host", Fail(e, "relay_host"))
          /\ UNCHANGED faults
       \/ /\ Fault({"db"})
          /\ RegisterBroken(e)
          /\ Retry(e, "relay_host", Fail(e, "relay_host"))
    /\ UNCHANGED <<nonceVars, chainVars, signs, sends, validations>>

-----------------------------------------------------------------------------
(* nonce reserve *)

\* Mutant of NonceGranted: txn.nonce keeps its old value.
NonceGrantedUnused(e, n, stage) ==
    /\ Enter(e, stage)
    /\ ctx' = [ctx EXCEPT ![e].onChain = 0]
    /\ SetStatus(e, "NonceReserved")

\* The reservation answers n.
NonceGranted(e, n, stage) ==
    /\ Enter(e, stage)
    /\ ctx' = [ctx EXCEPT ![e].nonce = n, ![e].onChain = 0]
    /\ SetStatus(e, "NonceReserved")

NonceReserve(e) ==
    /\ pc[e] = "reserve"
    /\ \/ /\ \E n \in 0..MaxNonce : /\ ReserveInserted(e, n) \/ ReserveReread(e, n)
                                    /\ NonceGranted(e, n, "sign")
          /\ UNCHANGED faults
       \/ /\ ReserveHeld(e)
          /\ UNCHANGED <<taskVars, faults>>
       \/ /\ ReserveConflict(e) \/ ReserveGone(e)
          /\ Retry(e, "reserve", Fail(e, "nonce_reserve"))
          /\ UNCHANGED faults
       \/ /\ Fault({"db"})
          /\ \/ EngineFree(e) /\ UNCHANGED nonceVars
             \/ \E n \in 0..MaxNonce : ReserveInserted(e, n)
             \/ RereadFailed(e)
          /\ Retry(e, "reserve", Fail(e, "nonce_reserve"))
    /\ UNCHANGED <<chainVars, stageVars>>

-----------------------------------------------------------------------------
(* sign, the first time and after a sync *)

\* A call of the sign actor from `stage`, on the way to `next`.
SignCall(e, stage, next, failure) ==
    /\ pc[e] = stage
    /\ \/ /\ Signed(e)
          /\ Advance(e, next, "Signed")
          /\ UNCHANGED faults
       \/ /\ KeyMissing(e) \/ SigningFailed(e) \/ SignRefused(e)
          /\ Retry(e, stage, ReleaseThenFail(e, failure))
          /\ UNCHANGED faults
       \/ /\ Fault({"db"})
          /\ SignBroken(e)
          /\ Retry(e, stage, ReleaseThenFail(e, failure))
    /\ UNCHANGED <<nonceVars, chainVars, intents, sends, validations>>

Sign(e) == SignCall(e, "sign", "endpoint", "sign")

\* Mutant of Resign: the second call reports its failure as the first does.
ResignFailsAsSign(e) == SignCall(e, "resign", "broadcast", "sign")

Resign(e) == SignCall(e, "resign", "broadcast", "sign_post_nonce_sync")

-----------------------------------------------------------------------------
(* acquire_healthy_endpoint, which is not retried *)

AcquireEndpoint(e) ==
    /\ pc[e] = "endpoint"
    /\ \/ /\ Enter(e, "broadcast")
          /\ UNCHANGED <<ctx, status, faults>>
       \/ /\ Fault({"rpc"})
          /\ \E stage \in {"acquire_healthy_endpoint", "rpc_semaphore_permit"} :
                ReleaseThenFail(e, stage)
    /\ UNCHANGED <<nonceVars, chainVars, stageVars>>

-----------------------------------------------------------------------------
(* broadcast *)

\* Mutant of BroadcastDbError: a database error releases the nonce too.
BroadcastDbErrorReleases(e) == Retry(e, "broadcast", ReleaseThenFail(e, "broadcast"))

\* DatabaseError: the nonce is kept.  Rejected and RpcError: it is released.
BroadcastDbError(e) == Retry(e, "broadcast", Fail(e, "broadcast"))
BroadcastRejected(e) == Retry(e, "broadcast", ReleaseThenFail(e, "broadcast"))

\* Mutant of BroadcastNotInserted: a `received` revision is taken for a nonce mismatch.
BroadcastNotInsertedSyncs(e) ==
    /\ pc[e] = "broadcast"
    /\ \/ /\ sends[e] = "submitted"
          /\ Advance(e, "validate", "Broadcasted")
       \/ /\ sends[e] = "received"
          /\ Enter(e, "fetch_nonce")
          /\ UNCHANGED <<ctx, status>>
    /\ UNCHANGED <<nonceVars, chainVars, stageVars, faults>>

\* The INSERT finds an open revision, or it fails.
BroadcastNotInserted(e) ==
    /\ pc[e] = "broadcast"
    /\ \/ /\ sends[e] = "submitted"
          /\ Advance(e, "validate", "Broadcasted")
          /\ UNCHANGED <<sends, faults>>
       \/ /\ sends[e] = "received"
          /\ BroadcastDbError(e)
          /\ UNCHANGED <<sends, faults>>
       \/ /\ Fault({"db"})
          /\ UNCHANGED sends \/ (~SendOpen(e) /\ SetSend(e, "received"))
          /\ BroadcastDbError(e)
    /\ UNCHANGED <<nonceVars, chainVars, intents, signs, validations>>

\* The endpoint takes the transaction; its answer, the UPDATE, or both may be lost.
BroadcastSent(e) ==
    /\ pc[e] = "broadcast"
    /\ ~SendOpen(e)
    /\ Admit(e, ctx[e].nonce)
    /\ \/ /\ SetSend(e, "submitted")
          /\ Advance(e, "validate", "Broadcasted")
          /\ UNCHANGED faults
       \/ /\ Fault({"db"})
          /\ \E new \in {"received", "submitted"} : SetSend(e, new)
          /\ BroadcastDbError(e)
       \/ /\ Fault({"rpc"})
          /\ SetSend(e, "rejected")
          /\ BroadcastRejected(e)
       \/ /\ Fault({"rpc", "db"})
          /\ \E new \in {"received", "rejected"} : SetSend(e, new)
          /\ BroadcastDbError(e)
    /\ UNCHANGED <<nonceVars, intents, signs, validations>>

\* The endpoint does not take it: the call fails, or it is refused in words that do not
\* name the nonce.
BroadcastRefused(e) ==
    LET refused == IsRefused(e, ctx[e].nonce) IN
    /\ pc[e] = "broadcast"
    /\ ~SendOpen(e)
    /\ \/ /\ (refused /\ UNCHANGED faults) \/ Fault({"rpc"})
          /\ SetSend(e, "rejected")
          /\ BroadcastRejected(e)
       \/ /\ (refused /\ Fault({"db"})) \/ Fault({"rpc", "db"})
          /\ \E new \in {"received", "rejected"} : SetSend(e, new)
          /\ BroadcastDbError(e)
    /\ UNCHANGED <<nonceVars, chainVars, intents, signs, validations>>

\* The endpoint complains about the nonce, and the engine asks it for the right one.
BroadcastMismatch(e) ==
    /\ pc[e] = "broadcast"
    /\ ~SendOpen(e)
    /\ IsNonceError(e, ctx[e].nonce)
    /\ SetSend(e, "received")
    /\ pc' = [pc EXCEPT ![e] = "fetch_nonce"]
    /\ UNCHANGED <<nonceVars, chainVars, intents, signs, validations, tries, ctx, status, faults>>

\* Mutants of NonceTooLow: no nonce_retry_attempted; the nonce after the reported one.
NonceTooLowUnguarded(e, n) ==
    /\ Enter(e, "consume")
    /\ ctx' = [ctx EXCEPT ![e].retried = TRUE, ![e].onChain = n]
    /\ SetStatus(e, "NonceMismatchDetected")

NonceTooLowSkips(e, n) ==
    \/ /\ ctx[e].retried
       /\ ReleaseThenFail(e, "broadcast")
    \/ /\ ~ctx[e].retried
       /\ Enter(e, "consume")
       /\ ctx' = [ctx EXCEPT ![e].retried = TRUE, ![e].onChain = n + 1]
       /\ SetStatus(e, "NonceMismatchDetected")

\* NonceTooLow is not retried: the first one starts the recovery, a second ends it.
NonceTooLow(e, n) ==
    \/ /\ ctx[e].retried
       /\ ReleaseThenFail(e, "broadcast")
    \/ /\ ~ctx[e].retried
       /\ Enter(e, "consume")
       /\ ctx' = [ctx EXCEPT ![e].retried = TRUE, ![e].onChain = n]
       /\ SetStatus(e, "NonceMismatchDetected")

FetchNonce(e) ==
    /\ pc[e] = "fetch_nonce"
    /\ \/ /\ SetSend(e, "rejected")
          /\ \E n \in 0..MaxOnChain : IsPendingCount(AccountOf[e], n) /\ NonceTooLow(e, n)
          /\ UNCHANGED faults
       \/ /\ Fault({"rpc"})
          /\ BroadcastRejected(e)
          /\ UNCHANGED sends
       \/ /\ Fault({"db"})
          /\ \E new \in {"received", "rejected"} : SetSend(e, new)
          /\ BroadcastDbError(e)
    /\ UNCHANGED <<nonceVars, chainVars, intents, signs, validations>>

-----------------------------------------------------------------------------
(* consume_nonce, release_nonce and finalise_nonce.  A failure is only        *)
(* logged: the pipeline goes on as after a success.                           *)

Requested(stage) ==
    CASE stage \in {"consume", "expire"} -> "consumed"
      [] stage = "release" -> "released"
      [] stage = "finalise" -> "finalized"

AfterResolve(e) ==
    \/ pc[e] = "consume" /\ Enter(e, "revert_sign") /\ UNCHANGED <<ctx, status>>
    \/ pc[e] = "release" /\ Fail(e, ctx[e].stage)
    \/ pc[e] = "finalise" /\ Advance(e, "done", "ConfirmedOnChain")
    \/ pc[e] = "expire" /\ Advance(e, "done", "ValidatorTimedOut")

ResolveNonce(e) ==
    /\ pc[e] \in {"consume", "release", "finalise", "expire"}
    /\ LET state == Requested(pc[e]) IN
       \/ /\ ResolveUpdated(e, state) \/ ResolveAgreed(e, state)
          /\ AfterResolve(e)
          /\ UNCHANGED faults
       \/ /\ ResolveMissed(e, state)
          /\ UNCHANGED <<taskVars, faults>>
       \/ /\ ResolveRefused(e, state)
          /\ Retry(e, pc[e], AfterResolve(e))
          /\ UNCHANGED faults
       \/ /\ Fault({"db"})
          /\ \/ EngineFree(e) /\ UNCHANGED nonceVars
             \/ ResolveUpdated(e, state)
             \/ RereadFailed(e)
          /\ Retry(e, pc[e], AfterResolve(e))
    /\ UNCHANGED <<chainVars, stageVars>>

-----------------------------------------------------------------------------
(* recovery from a nonce mismatch: revert_sign, then sync *)

RevertSign(e) ==
    LET next == Enter(e, "sync") /\ UNCHANGED <<ctx, status>> IN
    /\ pc[e] = "revert_sign"
    /\ \/ Reverted(e) /\ next /\ UNCHANGED faults
       \/ RevertRefused(e) /\ Retry(e, "revert_sign", next) /\ UNCHANGED faults
       \/ /\ Fault({"db"})
          /\ UNCHANGED signs \/ Reverted(e)
          /\ Retry(e, "revert_sign", next)
    /\ UNCHANGED <<nonceVars, chainVars, intents, sends, validations>>

NonceSync(e) ==
    /\ pc[e] = "sync"
    /\ LET onChain == ctx[e].onChain IN
       \/ /\ \/ SyncInserted(e, onChain) /\ NonceGranted(e, onChain, "resign")
             \/ \E n \in 0..MaxNonce : SyncReread(e, n) /\ NonceGranted(e, n, "resign")
          /\ UNCHANGED faults
       \/ /\ SyncHeld(e, onChain)
          /\ UNCHANGED <<taskVars, faults>>
       \/ /\ SyncConflict(e, onChain) \/ SyncRejected(e)
          /\ Retry(e, "sync", Fail(e, "nonce_sync"))
          /\ UNCHANGED faults
       \/ /\ Fault({"db"})
          /\ \/ EngineFree(e) /\ UNCHANGED nonceVars
             \/ SyncInserted(e, onChain)
             \/ RereadFailed(e)
          /\ Retry(e, "sync", Fail(e, "nonce_sync"))
    /\ UNCHANGED <<chainVars, stageVars>>

-----------------------------------------------------------------------------
(* validator.  Each execution is validated once, so check_cached_result never *)
(* finds anything.                                                            *)

\* run handles one request at a time, for all the chains that hash to its shard.
ValidatorIdle(e) ==
    \A f \in Exec :
        ValidatorActorOf[AccountOf[f]] = ValidatorActorOf[AccountOf[e]] => pc[f] # "poll"

\* Database and Internal keep the nonce, Reverted and RpcError release it.
ValidatorDbError(e) == Fail(e, "validator")
ValidatorRpcError(e) == ReleaseThenFail(e, "validator")

ValidationOpened(e) ==
    /\ pc[e] = "validate"
    /\ ValidatorIdle(e)
    /\ \/ /\ SetValidation(e, "pending")
          /\ Enter(e, "poll")
          /\ UNCHANGED <<ctx, status, faults>>
       \/ /\ Fault({"db"})
          /\ \E new \in {"none", "pending"} : SetValidation(e, new)
          /\ ValidatorDbError(e)
    /\ UNCHANGED <<nonceVars, chainVars, intents, signs, sends>>

\* record_outcome, with the pipeline's reaction to it.
Outcome(e, outcome, reaction) ==
    \/ SetValidation(e, outcome) /\ reaction /\ UNCHANGED faults
    \/ /\ Fault({"db"})
       /\ \E new \in {"pending", outcome} : SetValidation(e, new)
       /\ ValidatorDbError(e)

Confirmations(e) == Len(mined[AccountOf[e]]) - (ctx[e].nonce + 1)

Proceed(e, stage) == Enter(e, stage) /\ UNCHANGED <<ctx, status>>

\* Mutant of PollTimedOut: the timeout is taken for an inclusion.
PollTimedOutFinalises(e) ==
    /\ pc[e] = "poll"
    /\ ctx[e].wait >= ValidatorTimeout
    /\ Outcome(e, "timed_out", Proceed(e, "finalise"))
    /\ UNCHANGED <<nonceVars, chainVars, intents, signs, sends>>

PollTimedOut(e) ==
    /\ pc[e] = "poll"
    /\ ctx[e].wait >= ValidatorTimeout
    /\ Outcome(e, "timed_out", Proceed(e, "expire"))
    /\ UNCHANGED <<nonceVars, chainVars, intents, signs, sends>>

PollReverted(e) ==
    /\ pc[e] = "poll"
    /\ ctx[e].wait < ValidatorTimeout
    /\ HasReceipt(e, ctx[e].nonce, FALSE)
    /\ Outcome(e, "not_included", ValidatorRpcError(e))
    /\ UNCHANGED <<nonceVars, chainVars, intents, signs, sends>>

\* Mutant of PollIncluded: the receipt's status is not looked at.
PollIncludedAnyStatus(e) ==
    /\ pc[e] = "poll"
    /\ ctx[e].wait < ValidatorTimeout
    /\ \E ok \in BOOLEAN : HasReceipt(e, ctx[e].nonce, ok)
    /\ Confirmations(e) >= RequiredConfirmations
    /\ Outcome(e, "included", Proceed(e, "finalise"))
    /\ UNCHANGED <<nonceVars, chainVars, intents, signs, sends>>

PollIncluded(e) ==
    /\ pc[e] = "poll"
    /\ ctx[e].wait < ValidatorTimeout
    /\ HasReceipt(e, ctx[e].nonce, TRUE)
    /\ Confirmations(e) >= RequiredConfirmations
    /\ Outcome(e, "included", Proceed(e, "finalise"))
    /\ UNCHANGED <<nonceVars, chainVars, intents, signs, sends>>

\* get_block_number fails (no outcome is recorded), or get_transaction_receipt does.
PollRpcError(e) ==
    /\ pc[e] = "poll"
    /\ ctx[e].wait < ValidatorTimeout
    /\ \/ /\ HasReceipt(e, ctx[e].nonce, TRUE)
          /\ Fault({"rpc"})
          /\ ValidatorRpcError(e)
          /\ UNCHANGED validations
       \/ /\ Fault({"rpc"})
          /\ SetValidation(e, "not_included")
          /\ ValidatorRpcError(e)
       \/ /\ Fault({"rpc", "db"})
          /\ \E new \in {"pending", "not_included"} : SetValidation(e, new)
          /\ ValidatorDbError(e)
    /\ UNCHANGED <<nonceVars, chainVars, intents, signs, sends>>

\* No receipt yet, or too few confirmations: sleep and ask again.
PollAgain(e) ==
    /\ pc[e] = "poll"
    /\ ctx[e].wait < ValidatorTimeout
    /\ ~HasReceipt(e, ctx[e].nonce, FALSE)
    /\ HasReceipt(e, ctx[e].nonce, TRUE) => Confirmations(e) < RequiredConfirmations
    /\ UNCHANGED vars

Poll(e) ==
    \/ PollTimedOut(e) \/ PollReverted(e) \/ PollIncluded(e)
    \/ PollRpcError(e) \/ PollAgain(e)

-----------------------------------------------------------------------------
(* The rest of the process, and its environment. *)

SweeperBot ==
    /\ \/ (SweepScan \/ SweepLock \/ SweepCommit) /\ UNCHANGED faults
       \/ SweepFailed /\ Fault({"db"})
    /\ UNCHANGED <<chainVars, stageVars, taskVars>>

\* A unit of the leases' time.  With MaxAge = 0 there is none: every pipeline ends
\* before its lease does.
TimePasses ==
    /\ MaxAge > 0
    /\ Tick
    /\ ctx' = [e \in Exec |->
                [ctx[e] EXCEPT !.wait =
                    IF pc[e] = "poll" /\ @ < ValidatorTimeout THEN @ + 1 ELSE @]]
    /\ UNCHANGED <<chainVars, stageVars, pc, tries, status, faults>>

\* What StatusRegistry::new may find in Redis: its writes are not ordered and some may
\* be lost (module StatusRegistry), so any status e has passed through, or none.
Recovered(e) ==
    {"None", status[e]} \cup
    {s \in Statuses \ Ended :
        \/ Rank[s] <= Rank[status[e]] /\ s # "NonceMismatchDetected"
        \/ Rank[s] <= Rank["NonceMismatchDetected"] /\ ctx[e].retried}

StatusLoaded ==
    /\ status' \in [Exec -> UNION {Recovered(e) : e \in Exec}]
    /\ \A e \in Exec : status'[e] \in Recovered(e)

\* Mutant of Crash: the start-up releases every reservation it finds.
CrashReleases ==
    /\ Fault({"crash"})
    /\ rows' = SetState(rows, {s \in Slots : At(s).state = "reserved"}, "released")
    /\ engine' = [e \in Exec |-> "idle"]
    /\ sweep' = NoSweep
    /\ pc' = [e \in Exec |-> IF InFlight(e) THEN "lost" ELSE pc[e]]
    /\ tries' = [e \in Exec |-> 0]
    /\ StatusLoaded
    /\ UNCHANGED <<chainVars, stageVars, ctx>>

\* The process is killed and started again; no task is resumed.
Crash ==
    /\ Fault({"crash"})
    /\ Restart
    /\ pc' = [e \in Exec |-> IF InFlight(e) THEN "lost" ELSE pc[e]]
    /\ tries' = [e \in Exec |-> 0]
    /\ StatusLoaded
    /\ UNCHANGED <<chainVars, stageVars, ctx>>

ChainStep(a) ==
    /\ Mine(a) \/ OtherWallet(a) \/ Evict(a)
    /\ UNCHANGED <<nonceVars, stageVars, taskVars, faults>>

-----------------------------------------------------------------------------

Init ==
    /\ NonceInit /\ ChainInit /\ StageInit
    /\ pc = [e \in Exec |-> "idle"]
    /\ tries = [e \in Exec |-> 0]
    /\ ctx = [e \in Exec |->
                [nonce |-> 0, onChain |-> 0, retried |-> FALSE, stage |-> "none", wait |-> 0]]
    /\ status = [e \in Exec |-> "None"]
    /\ faults = [k \in {"db", "rpc", "crash"} |-> 0]

Broadcast(e) ==
    \/ BroadcastNotInserted(e) \/ BroadcastSent(e) \/ BroadcastRefused(e)
    \/ BroadcastMismatch(e) \/ FetchNonce(e)

Run(e) ==
    \/ RelayHost(e) \/ NonceReserve(e) \/ Sign(e) \/ AcquireEndpoint(e) \/ Broadcast(e)
    \/ ResolveNonce(e) \/ RevertSign(e) \/ NonceSync(e) \/ Resign(e) \/ ValidationOpened(e) \/ Poll(e)

\* Every request has been turned away or its pipeline has returned.
Quiet ==
    /\ \A e \in Exec : pc[e] \in {"refused", "done", "lost"}
    /\ UNCHANGED vars

Next ==
    \/ \E e \in Exec : Submit(e) \/ Reject(e) \/ Refuse(e) \/ Run(e)
    \/ \E a \in Account : ChainStep(a)
    \/ SweeperBot
    \/ TimePasses
    \/ Crash
    \/ Quiet

Spec == Init /\ [][Next]_vars

\* The runtime polls every task, the bot's interval ticks, and time passes.
Fairness ==
    /\ \A e \in Exec : WF_vars(Run(e))
    /\ WF_vars(SweeperBot)
    /\ WF_vars(TimePasses)

LiveSpec == Spec /\ Fairness

-----------------------------------------------------------------------------
(* Properties *)

Sent(e, n) == <<e, n>> \in pool[AccountOf[e]]

MinedOf(e) == {n \in 1..Len(mined[AccountOf[e]]) : mined[AccountOf[e]][n].exec = e}

HoldsNonce(e, n) == \E r \in 1..Len(rows[e]) : IsActive(e, r) /\ rows[e][r].nonce = n

HasReservation(e) == \E r \in 1..Len(rows[e]) : rows[e][r].state = "reserved"

FailureStages == {"none", "relay_host", "nonce_reserve", "sign", "acquire_healthy_endpoint",
                  "rpc_semaphore_permit", "broadcast", "nonce_sync", "sign_post_nonce_sync", "validator"}

Locals == [nonce : 0..MaxNonce, onChain : 0..MaxOnChain, retried : BOOLEAN,
           stage : FailureStages, wait : 0..ValidatorTimeout]

TaskOK ==
    /\ pc \in [Exec -> Stages \cup {"idle", "refused", "done", "lost"}]
    /\ tries \in [Exec -> 0..MaxAttempts]
    /\ ctx \in [Exec -> Locals]
    /\ status \in [Exec -> Statuses]

TablesOK ==
    /\ intents \subseteq Exec
    /\ signs \in [Exec -> SignStates]
    /\ sends \in [Exec -> SendStates]
    /\ validations \in [Exec -> ValidationStates]

FaultsOK ==
    /\ faults \in [{"db", "rpc", "crash"} -> Nat]
    /\ \A k \in {"db", "rpc", "crash"} : faults[k] <= FaultBudget[k]

\* The task of each execution is in a stage of run_pipeline, has used no more attempts
\* than retry_with_backoff allows, and the tables hold only states of their enums.
PipelineTypeOK == TaskOK /\ TablesOK /\ FaultsOK

\* While a transaction is pending on the chain, the execution that sent it still
\* holds its nonce in the table, so nobody else is given that nonce.  (Needs every
\* pipeline to end inside its lease and no RPC fault.)
PendingIsHeld ==
    \A e \in Exec : \A n \in 0..MaxNonce : Sent(e, n) => HoldsNonce(e, n)

\* The payload of an execution is mined at most once, whatever broadcast retries and
\* the nonce recovery re-sign.  (Needs RPC answers that are not lost.)
AtMostOnce ==
    \A e \in Exec : Cardinality(MinedOf(e) \cup {t[2] + 1 : t \in {u \in pool[AccountOf[e]] : u[1] = e}}) <= 1

\* Lost answers, retries, the sweeper and crashes together make a payload reach the chain
\* at most twice, and only once without the one recovery of run_pipeline, which changes
\* its nonce.
AtMostTwice ==
    \A e \in Exec :
        Cardinality(MinedOf(e) \cup {t[2] + 1 : t \in {u \in pool[AccountOf[e]] : u[1] = e}})
            <= IF ctx[e].retried THEN 2 ELSE 1

\* What is pending or mined of an execution is on record: nonce_assignments has a row of
\* that execution with the nonce it was signed with, whoever was given the nonce since.
ChainIsOnRecord ==
    \A e \in Exec : \A n \in 0..MaxNonce :
        Sent(e, n) \/ n + 1 \in MinedOf(e) => \E r \in 1..Len(rows[e]) : rows[e][r].nonce = n

\* ConfirmedOnChain is only reported of an execution whose transaction was mined and
\* succeeded.
ConfirmedIsMined ==
    \A e \in Exec : status[e] = "ConfirmedOnChain" => HasReceipt(e, ctx[e].nonce, TRUE)

\* When ConfirmedOnChain is reported the table says `finalized`, although a failing
\* finalise_nonce is only logged.  (Needs no more database faults than retries, and a
\* pipeline that ends inside its lease.)
ConfirmedIsFinalized ==
    \A e \in Exec : status[e] = "ConfirmedOnChain" => LatestIs(e, "finalized")

\* An execution that failed before its broadcast left nothing on the chain, and
\* nothing that can still reach it.
FailedEarlyIsUnsent ==
    \A e \in Exec :
        status[e] = "Failed" /\ ctx[e].stage \notin {"broadcast", "validator"} =>
            /\ MinedOf(e) = {}
            /\ \A n \in 0..MaxNonce : ~Sent(e, n)

\* An execution that failed before its first broadcast can be submitted again: nothing of it
\* is on the chain or pending, even if answers of endpoints were lost.  (Unlike
\* FailedEarlyIsUnsent this leaves out the recovery, which may follow a lost answer.)
ResubmitIsSafe ==
    \A e \in Exec :
        status[e] = "Failed"
        /\ ctx[e].stage \in {"relay_host", "nonce_reserve", "sign", "acquire_healthy_endpoint",
                            "rpc_semaphore_permit"} =>
            /\ MinedOf(e) = {}
            /\ \A n \in 0..MaxNonce : ~Sent(e, n)

\* A pipeline that returns leaves no reservation behind on any of its error paths, but
\* for the one in the broadcast actor that also leaves the row `received`: the retry
\* takes that row for a database error, and the nonce is kept.  (Needs no database fault.)
NoLeakedReservation ==
    \A e \in Exec : pc[e] = "done" /\ HasReservation(e) => sends[e] = "received"

\* reserve, the retries of reserve and the one recovery leave an execution with at
\* most two revisions.
OneRecovery == \A e \in Exec : Len(rows[e]) <= 2

\* The nonce a pipeline is about to sign or to broadcast is one it holds.
BroadcastsOwnNonce ==
    \A e \in Exec :
        pc[e] \in {"sign", "resign", "endpoint", "broadcast"} => HoldsNonce(e, ctx[e].nonce)

\* No nonce is skipped: one below an assigned nonce has been used on the chain, or is
\* or was assigned as well.
NoNonceSkipped ==
    \A s \in Slots : \A m \in 0..(At(s).nonce - 1) :
        \/ m < ChainNonce(AccountOf[s[1]])
        \/ \E t \in Slots : AccountOf[t[1]] = AccountOf[s[1]] /\ At(t).nonce = m

\* Every pipeline that starts returns, or is lost in a crash: no retry loop, no
\* recovery, no validator queue holds its permit for ever.
PipelineEnds == \A e \in Exec : InFlight(e) ~> ~InFlight(e)

\* A reservation whose pipeline is gone is given up in the end: release_nonce or the
\* sweeper sees to it.
ReservationEnds ==
    \A e \in Exec : pc[e] \in {"done", "lost"} /\ HasReservation(e) ~> ~HasReservation(e)

-----------------------------------------------------------------------------
(* What a client of the relay sees. *)

Included(e, ok) == \E n \in MinedOf(e) : mined[AccountOf[e]][n].ok = ok

\* A row left `received` or `submitted` keeps its payload from being sent again, except
\* the one that is about to be marked `rejected`.
Fate(e) ==
    IF Included(e, TRUE) THEN "mined"
    ELSE IF Included(e, FALSE) THEN "reverted"
    ELSE IF \E t \in pool[AccountOf[e]] : t[1] = e THEN "pending"
    ELSE IF SendOpen(e) /\ pc[e] # "fetch_nonce" THEN "lost"
    ELSE "unsent"

Told(e) ==
    IF status[e] = "ConfirmedOnChain" THEN "confirmed"
    ELSE IF status[e] = "ValidatorTimedOut" THEN "timed_out"
    ELSE IF status[e] = "Failed" THEN "failed"
    ELSE IF pc[e] = "refused" THEN "refused"
    ELSE IF pc[e] \in {"done", "lost"} THEN "unknown"
    ELSE "none"

Client == INSTANCE Relay WITH
            fate <- [e \in Exec |-> Fate(e)],
            answer <- [e \in Exec |-> Told(e)]

\* Every step of the pipelines, the tables, the chain and a restart is a step a client
\* may see: a payload is sent at most once and never after its outcome was reported, only
\* a mined one is confirmed, and an answer changes no more unless a restart forgets it.
\* (Needs RPC answers that are not lost.)
ServesClients == Client!RelaySpec

-----------------------------------------------------------------------------
(* What documents and comments of the repository say, and the code does not do. *)

\* "resolve(Consumed) (not reusable, may still confirm)" (README.md, nonce cleanup): the
\* nonce of an execution whose validation timed out cannot be handed out again.
TimedOutNotReusable ==
    \A e \in Exec : status[e] = "ValidatorTimedOut" => ~LatestIs(e, "released")

\* "RPC error, safe to release nonce" (pipeline.rs): a released nonce was not used on the
\* chain by the execution that had it.
ReleasedIsUnused ==
    \A s \in Slots : At(s).state = "released" => At(s).nonce + 1 \notin MinedOf(s[1])

\* "Atomically selects next available nonce" (README.md, stage 2): the released nonce
\* that reserve picks is available, that is, not active in another row.
ReleasedIsAvailable ==
    \A a \in Account : \A s \in TargetRelease(a) : ~Held(a, At(s).nonce)

=============================================================================
