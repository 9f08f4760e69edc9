--------------------------- MODULE PipelineProofs ---------------------------
(***************************************************************************)
(* The orchestrator, the sweeper, crashes and faults together use the      *)
(* nonce table only as NonceAssignments allows, so what NonceProofs proves *)
(* of the table holds in the whole system.                                 *)
(***************************************************************************)
EXTENDS Pipeline, NonceProofs

USE DEF nonceVars

\* The stages that call the nonce actor take its steps.
LEMMA NonceStages ==
    ASSUME NEW e \in Exec, ctx[e].onChain \in 0..MaxOnChain,
           NonceReserve(e) \/ ResolveNonce(e) \/ NonceSync(e)
    PROVE  [NonceNext]_nonceVars
<1>1. CASE NonceReserve(e)
  <2>1. \/ Reserve(e)
        \/ RereadFailed(e)
        \/ UNCHANGED nonceVars
    BY <1>1 DEF NonceReserve, Reserve
  <2>2. QED
    BY <2>1 DEF NonceNext
<1>2. CASE ResolveNonce(e)
  <2>1. Requested(pc[e]) \in Resolutions
    BY <1>2 DEF ResolveNonce, Requested, Resolutions
  <2>2. \/ Resolve(e)
        \/ RereadFailed(e)
        \/ UNCHANGED nonceVars
    BY <1>2, <2>1 DEF ResolveNonce, Resolve
  <2>3. QED
    BY <2>2 DEF NonceNext
<1>3. CASE NonceSync(e)
  <2>1. \/ Sync(e)
        \/ RereadFailed(e)
        \/ UNCHANGED nonceVars
    BY <1>3 DEF NonceSync, Sync
  <2>2. QED
    BY <2>1 DEF NonceNext
<1>4. QED
  BY <1>1, <1>2, <1>3

\* Every other step of the system is one of the sweeper's, a tick, a restart, or leaves
\* the nonce table alone.
LEMMA NonceSimulation ==
    ASSUME TaskOK, [Next]_vars
    PROVE  [NonceNext]_nonceVars
<1>1. ASSUME NEW e \in Exec
      PROVE  ctx[e].onChain \in 0..MaxOnChain
  BY DEF TaskOK, Locals
<1>2. ASSUME NEW e \in Exec, Submit(e) \/ Reject(e) \/ Refuse(e)
      PROVE  UNCHANGED nonceVars
  BY <1>2 DEF Submit, Reject, Refuse
<1>3. ASSUME NEW e \in Exec, Run(e)
      PROVE  [NonceNext]_nonceVars
  <2>1. ASSUME NonceReserve(e) \/ ResolveNonce(e) \/ NonceSync(e)
        PROVE  [NonceNext]_nonceVars
    BY <1>1, <2>1, NonceStages
  <2>2. ASSUME RelayHost(e) \/ Sign(e) \/ Resign(e) \/ AcquireEndpoint(e)
               \/ RevertSign(e) \/ ValidationOpened(e)
        PROVE  UNCHANGED nonceVars
    BY <2>2 DEF RelayHost, Sign, Resign, SignCall, AcquireEndpoint, RevertSign, ValidationOpened
  <2>3. ASSUME Broadcast(e)
        PROVE  UNCHANGED nonceVars
    BY <2>3 DEF Broadcast, BroadcastNotInserted, BroadcastSent, BroadcastRefused,
                BroadcastMismatch, FetchNonce
  <2>4. ASSUME Poll(e)
        PROVE  UNCHANGED nonceVars
    BY <2>4 DEF Poll, PollTimedOut, PollReverted, PollIncluded, PollRpcError, PollAgain, vars
  <2>5. QED
    BY <1>3, <2>1, <2>2, <2>3, <2>4 DEF Run
<1>4. ASSUME NEW a \in Account, ChainStep(a)
      PROVE  UNCHANGED nonceVars
  BY <1>4 DEF ChainStep
<1>5. ASSUME SweeperBot
      PROVE  NonceNext
  BY <1>5 DEF SweeperBot, Sweep, NonceNext
<1>6. ASSUME TimePasses
      PROVE  NonceNext
  BY <1>6 DEF TimePasses, NonceNext
<1>7. ASSUME Crash
      PROVE  NonceNext
  BY <1>7 DEF Crash, NonceNext
<1>8. ASSUME Quiet \/ UNCHANGED vars
      PROVE  UNCHANGED nonceVars
  BY <1>8 DEF Quiet, vars
<1>9. QED
  BY <1>2, <1>3, <1>4, <1>5, <1>6, <1>7, <1>8 DEF Next

-----------------------------------------------------------------------------
(* Type correctness *)

Places == Stages \cup {"idle", "refused", "done", "lost"}

\* Moving on to a stage, with a new status.
LEMMA EnterTyped ==
    ASSUME TaskOK, NEW e \in Exec, NEW stage \in Places, Enter(e, stage)
    PROVE  pc' \in [Exec -> Places] /\ tries' \in [Exec -> 0..MaxAttempts]
BY PipelineAssumption DEF TaskOK, Enter, Places

\* An accepted stage keeps the type of every task.
LEMMA AdvanceTyped ==
    ASSUME TaskOK, NEW e \in Exec, NEW stage \in Places, NEW new \in Statuses,
           Advance(e, stage, new)
    PROVE  TaskOK'
BY EnterTyped DEF TaskOK, Advance, SetStatus, Places

\* A stage that sets no status keeps the type of every task.
LEMMA ProceedTyped ==
    ASSUME TaskOK, NEW e \in Exec, NEW stage \in Places, Enter(e, stage), UNCHANGED <<ctx, status>>
    PROVE  TaskOK'
BY EnterTyped DEF TaskOK, Places

\* Recording the failed stage keeps the type of the locals of run_pipeline.
LEMMA LocalsTyped ==
    ASSUME ctx \in [Exec -> Locals], NEW e \in Exec, NEW stage \in FailureStages,
           ctx' = [ctx EXCEPT ![e].stage = stage]
    PROVE  ctx' \in [Exec -> Locals]
BY DEF Locals

\* An error path, with or without a release, keeps the type of every task.
LEMMA FailTyped ==
    ASSUME TaskOK, NEW e \in Exec, NEW stage \in FailureStages,
           Fail(e, stage) \/ ReleaseThenFail(e, stage)
    PROVE  TaskOK'
<1>1. CASE Fail(e, stage)
  <2>1. Enter(e, "done") /\ "done" \in Places
    BY <1>1 DEF Fail, Places
  <2>2. ctx' \in [Exec -> Locals]
    BY <1>1, LocalsTyped DEF Fail, TaskOK
  <2>3. status' \in [Exec -> Statuses]
    BY <1>1 DEF Fail, SetStatus, TaskOK, Statuses
  <2>4. QED
    BY <2>1, <2>2, <2>3, EnterTyped DEF TaskOK, Places
<1>2. CASE ReleaseThenFail(e, stage)
  <2>1. Enter(e, "release") /\ "release" \in Places
    BY <1>2 DEF ReleaseThenFail, Places, Stages
  <2>2. ctx' \in [Exec -> Locals]
    BY <1>2, LocalsTyped DEF ReleaseThenFail, TaskOK
  <2>3. QED
    BY <1>2, <2>1, <2>2, EnterTyped DEF ReleaseThenFail, TaskOK, Places
<1>3. QED
  BY <1>1, <1>2

\* retry_with_backoff counts no further than its limit.
LEMMA RetryTyped ==
    ASSUME TaskOK, NEW e \in Exec, NEW stage \in Places,
           tries[e] < MaxAttempts,
           tries' = [tries EXCEPT ![e] = @ + 1],
           pc' = [pc EXCEPT ![e] = stage],
           UNCHANGED <<ctx, status>>
    PROVE  TaskOK'
BY PipelineAssumption DEF TaskOK, Places

\* The answer of the nonce actor keeps the type of every task.
LEMMA GrantTyped ==
    ASSUME TaskOK, NEW e \in Exec, NEW n \in 0..MaxNonce, NEW stage \in Places,
           NonceGranted(e, n, stage)
    PROVE  TaskOK'
<1>1. ctx' \in [Exec -> Locals]
  <2>1. 0 \in 0..MaxOnChain
    BY ConstantsAssumption
  <2>2. QED
    BY <2>1 DEF NonceGranted, TaskOK, Locals
<1>2. status' \in [Exec -> Statuses]
  BY DEF NonceGranted, SetStatus, TaskOK, Statuses
<1>3. QED
  BY <1>1, <1>2, EnterTyped DEF NonceGranted, TaskOK, Places

\* A fault is counted against its budget.
LEMMA FaultTyped ==
    ASSUME FaultsOK, NEW kinds \in SUBSET {"db", "rpc", "crash"}, Fault(kinds)
    PROVE  FaultsOK'
<1>1. \A k \in {"db", "rpc", "crash"} : FaultBudget[k] \in Nat
  BY PipelineAssumption DEF FaultBudget
<1>2. QED
  BY <1>1 DEF FaultsOK, Fault

\* The retry loop, when giving up keeps the types.
LEMMA RetryFailTyped ==
    ASSUME TaskOK, NEW e \in Exec, NEW stage \in Places, NEW f \in FailureStages,
           Retry(e, stage, Fail(e, f)) \/ Retry(e, stage, ReleaseThenFail(e, f))
    PROVE  TaskOK'
<1>1. CASE Fail(e, f) \/ ReleaseThenFail(e, f)
  BY <1>1, FailTyped
<1>2. CASE ~(Fail(e, f) \/ ReleaseThenFail(e, f))
  BY <1>2, RetryTyped DEF Retry
<1>3. QED
  BY <1>1, <1>2

\* The stage that resolves a nonce keeps the type of every task.
LEMMA ResolveTyped ==
    ASSUME TaskOK, NEW e \in Exec, ResolveNonce(e)
    PROVE  TaskOK'
<1>1. ASSUME AfterResolve(e)
      PROVE  TaskOK'
  <2>1. CASE Enter(e, "revert_sign") /\ UNCHANGED <<ctx, status>>
    BY <2>1, ProceedTyped DEF Places, Stages
  <2>2. CASE Fail(e, ctx[e].stage)
    <3>1. ctx[e].stage \in FailureStages
      BY DEF TaskOK, Locals
    <3>2. QED
      BY <2>2, <3>1, FailTyped
  <2>3. CASE Advance(e, "done", "ConfirmedOnChain") \/ Advance(e, "done", "ValidatorTimedOut")
    BY <2>3, AdvanceTyped DEF Places, Statuses
  <2>4. QED
    BY <1>1, <2>1, <2>2, <2>3 DEF AfterResolve
<1>2. ASSUME Retry(e, pc[e], AfterResolve(e))
      PROVE  TaskOK'
  <2>1. pc[e] \in Places
    BY DEF TaskOK, Places
  <2>2. CASE ~AfterResolve(e)
    BY <1>2, <2>1, <2>2, RetryTyped DEF Retry
  <2>3. QED
    BY <1>1, <2>2
<1>3. ASSUME UNCHANGED taskVars
      PROVE  TaskOK'
  BY <1>3 DEF TaskOK, taskVars
<1>4. QED
  BY <1>1, <1>2, <1>3 DEF ResolveNonce

\* The broadcast stage, its error paths included, keeps the type of every task.
LEMMA BroadcastTyped ==
    ASSUME TaskOK, NEW e \in Exec, Broadcast(e)
    PROVE  TaskOK'
<1>0. /\ {"broadcast", "validate", "fetch_nonce", "consume"} \subseteq Places
      /\ "broadcast" \in FailureStages
      /\ {"Broadcasted", "NonceMismatchDetected"} \subseteq Statuses
  BY DEF Places, Stages, FailureStages, Statuses
<1>1. ASSUME BroadcastDbError(e) \/ BroadcastRejected(e)
      PROVE  TaskOK'
  BY <1>0, <1>1, RetryFailTyped DEF BroadcastDbError, BroadcastRejected
<1>2. ASSUME Advance(e, "validate", "Broadcasted")
      PROVE  TaskOK'
  BY <1>0, <1>2, AdvanceTyped
<1>3. ASSUME BroadcastMismatch(e)
      PROVE  TaskOK'
  BY <1>0, <1>3 DEF BroadcastMismatch, TaskOK, Places
<1>4. ASSUME NEW n \in 0..MaxOnChain, NonceTooLow(e, n)
      PROVE  TaskOK'
  <2>1. CASE ReleaseThenFail(e, "broadcast")
    BY <1>0, <2>1, FailTyped
  <2>2. CASE /\ Enter(e, "consume")
             /\ ctx' = [ctx EXCEPT ![e].retried = TRUE, ![e].onChain = n]
             /\ SetStatus(e, "NonceMismatchDetected")
    <3>1. ctx' \in [Exec -> Locals]
      BY <2>2 DEF TaskOK, Locals
    <3>2. status' \in [Exec -> Statuses]
      BY <1>0, <2>2 DEF SetStatus, TaskOK
    <3>3. QED
      BY <1>0, <2>2, <3>1, <3>2, EnterTyped DEF TaskOK, Places
  <2>3. QED
    BY <1>4, <2>1, <2>2 DEF NonceTooLow
<1>5. CASE BroadcastNotInserted(e)
  BY <1>5, <1>1, <1>2 DEF BroadcastNotInserted
<1>6. CASE BroadcastSent(e)
  BY <1>6, <1>1, <1>2 DEF BroadcastSent
<1>7. CASE BroadcastRefused(e)
  BY <1>7, <1>1 DEF BroadcastRefused
<1>8. CASE FetchNonce(e)
  BY <1>8, <1>1, <1>4 DEF FetchNonce
<1>9. QED
  BY <1>3, <1>5, <1>6, <1>7, <1>8 DEF Broadcast

\* The validation stage keeps the type of every task.
LEMMA ValidatorTyped ==
    ASSUME TaskOK, NEW e \in Exec, ValidationOpened(e) \/ Poll(e)
    PROVE  TaskOK'
<1>0. /\ {"poll", "expire", "finalise"} \subseteq Places
      /\ "validator" \in FailureStages
  BY DEF Places, Stages, FailureStages
<1>1. ASSUME Fail(e, "validator") \/ ReleaseThenFail(e, "validator")
      PROVE  TaskOK'
  BY <1>0, <1>1, FailTyped
<1> USE DEF ValidatorDbError, ValidatorRpcError
<1>2. ASSUME NEW stage \in {"poll", "expire", "finalise"},
             Enter(e, stage), UNCHANGED <<ctx, status>>
      PROVE  TaskOK'
  BY <1>0, <1>2, ProceedTyped
<1>3. CASE ValidationOpened(e)
  BY <1>1, <1>2, <1>3 DEF ValidationOpened
<1>4. CASE PollTimedOut(e)
  BY <1>1, <1>2, <1>4 DEF PollTimedOut, Outcome, Proceed
<1>5. CASE PollReverted(e)
  BY <1>1, <1>5 DEF PollReverted, Outcome
<1>6. CASE PollIncluded(e)
  BY <1>1, <1>2, <1>6 DEF PollIncluded, Outcome, Proceed
<1>7. CASE PollRpcError(e)
  BY <1>1, <1>7 DEF PollRpcError
<1>8. CASE PollAgain(e)
  BY <1>8 DEF PollAgain, vars, taskVars, TaskOK
<1>9. QED
  BY <1>3, <1>4, <1>5, <1>6, <1>7, <1>8 DEF Poll

\* The stages without a case of their own keep the type of every task.
LEMMA OtherStagesTyped ==
    ASSUME TaskOK, NEW e \in Exec,
           \/ RelayHost(e) \/ NonceReserve(e) \/ Sign(e) \/ Resign(e)
           \/ AcquireEndpoint(e) \/ RevertSign(e) \/ NonceSync(e)
    PROVE  TaskOK'
<1>0. /\ {"relay_host", "reserve", "sign", "endpoint", "broadcast", "revert_sign", "sync",
          "resign"} \subseteq Places
      /\ {"relay_host", "nonce_reserve", "sign", "sign_post_nonce_sync", "nonce_sync",
          "acquire_healthy_endpoint", "rpc_semaphore_permit"} \subseteq FailureStages
      /\ {"Accepted", "Signed"} \subseteq Statuses
  BY DEF Places, Stages, FailureStages, Statuses
<1>1. ASSUME UNCHANGED taskVars
      PROVE  TaskOK'
  BY <1>1 DEF TaskOK, taskVars
<1>2. CASE RelayHost(e)
  BY <1>0, <1>2, AdvanceTyped, RetryFailTyped DEF RelayHost
<1>3. CASE NonceReserve(e)
  BY <1>0, <1>1, <1>3, GrantTyped, RetryFailTyped DEF NonceReserve
<1>4. CASE Sign(e) \/ Resign(e)
  BY <1>0, <1>4, AdvanceTyped, RetryFailTyped DEF Sign, Resign, SignCall
<1>5. CASE AcquireEndpoint(e)
  BY <1>0, <1>5, ProceedTyped, FailTyped DEF AcquireEndpoint
<1>6. CASE RevertSign(e)
  <2>1. ASSUME Enter(e, "sync"), UNCHANGED <<ctx, status>>
        PROVE  TaskOK'
    BY <1>0, <2>1, ProceedTyped
  <2>2. ASSUME Retry(e, "revert_sign", Enter(e, "sync") /\ UNCHANGED <<ctx, status>>)
        PROVE  TaskOK'
    BY <1>0, <2>1, <2>2, RetryTyped DEF Retry
  <2>3. QED
    BY <1>6, <2>1, <2>2 DEF RevertSign
<1>7. CASE NonceSync(e)
  <2>1. ctx[e].onChain \in 0..MaxNonce
    BY PipelineAssumption, ConstantsAssumption DEF TaskOK, Locals
  <2>2. QED
    BY <1>0, <1>1, <1>7, <2>1, GrantTyped, RetryFailTyped DEF NonceSync
<1>8. QED
  BY <1>2, <1>3, <1>4, <1>5, <1>6, <1>7

\* The steps outside run_pipeline keep the types of the tasks.
LEMMA TasksTyped ==
    ASSUME TaskOK, [Next]_vars
    PROVE  TaskOK'
<1>1. ASSUME UNCHANGED taskVars
      PROVE  TaskOK'
  BY <1>1 DEF TaskOK, taskVars
<1>2. ASSUME NEW e \in Exec, Submit(e)
      PROVE  TaskOK'
  BY <1>2, AdvanceTyped DEF Submit, Places, Stages, Statuses
<1>3. ASSUME NEW e \in Exec, Reject(e) \/ Refuse(e)
      PROVE  TaskOK'
  BY <1>3, ProceedTyped DEF Reject, Refuse, Places
<1>4. ASSUME NEW e \in Exec, Run(e)
      PROVE  TaskOK'
  BY <1>4, OtherStagesTyped, BroadcastTyped, ResolveTyped, ValidatorTyped DEF Run
<1>5. ASSUME TimePasses
      PROVE  TaskOK'
  <2> DEFINE later(e) ==
        [ctx[e] EXCEPT !.wait = IF pc[e] = "poll" /\ @ < ValidatorTimeout THEN @ + 1 ELSE @]
  <2>1. ASSUME NEW e \in Exec
        PROVE  later(e) \in Locals
    BY PipelineAssumption DEF TaskOK, Locals
  <2>2. ctx' \in [Exec -> Locals]
    BY <1>5, <2>1 DEF TimePasses
  <2>3. QED
    BY <1>5, <2>2 DEF TimePasses, TaskOK
<1>6. ASSUME Crash
      PROVE  TaskOK'
  <2>1. \A e \in Exec : Recovered(e) \subseteq Statuses
    BY DEF Recovered, TaskOK, Statuses
  <2>2. status' \in [Exec -> Statuses]
    BY <1>6, <2>1 DEF Crash, StatusLoaded
  <2>3. QED
    BY <1>6, <2>2, PipelineAssumption DEF Crash, TaskOK, Stages
<1>7. QED
  BY <1>1, <1>2, <1>3, <1>4, <1>5, <1>6
  DEF Next, ChainStep, SweeperBot, Quiet, vars

\* No step counts more faults than its budget.
LEMMA FaultsTyped ==
    ASSUME FaultsOK, [Next]_vars
    PROVE  FaultsOK'
<1>1. ASSUME UNCHANGED faults
      PROVE  FaultsOK'
  BY <1>1 DEF FaultsOK
<1>2. ASSUME Fault({"db"}) \/ Fault({"rpc"}) \/ Fault({"rpc", "db"}) \/ Fault({"crash"})
      PROVE  FaultsOK'
  BY <1>2, FaultTyped
<1>3. ASSUME NEW e \in Exec, Broadcast(e)
      PROVE  FaultsOK'
  BY <1>1, <1>2, <1>3
  DEF Broadcast, BroadcastNotInserted, BroadcastSent, BroadcastRefused, BroadcastMismatch,
      FetchNonce
<1>4. ASSUME NEW e \in Exec, ValidationOpened(e) \/ Poll(e)
      PROVE  FaultsOK'
  BY <1>1, <1>2, <1>4
  DEF ValidationOpened, Poll, PollTimedOut, PollReverted, PollIncluded, PollRpcError,
      PollAgain, Outcome, vars
<1>5. ASSUME NEW e \in Exec, Run(e)
      PROVE  FaultsOK'
  BY <1>1, <1>2, <1>3, <1>4, <1>5
  DEF Run, RelayHost, NonceReserve, Sign, Resign, SignCall, AcquireEndpoint, ResolveNonce,
      RevertSign, NonceSync
<1>6. QED
  BY <1>1, <1>2, <1>5
  DEF Next, Submit, Reject, Refuse, ChainStep, SweeperBot, TimePasses, Crash, Quiet, vars

\* The tables of the other actors hold only states of their enums.
LEMMA TablesTyped ==
    ASSUME TablesOK, [Next]_vars
    PROVE  TablesOK'
<1>0. /\ {"none", "reserved", "signed", "failed"} \subseteq SignStates
      /\ {"received", "submitted", "rejected"} \subseteq SendStates
      /\ {"none", "pending", "included", "not_included", "timed_out"} \subseteq ValidationStates
  BY DEF SignStates, SendStates, ValidationStates
<1>1. ASSUME UNCHANGED stageVars
      PROVE  TablesOK'
  BY <1>1 DEF TablesOK, stageVars
<1>2. ASSUME NEW e \in Exec, NEW new \in {"received", "submitted", "rejected"}, SetSend(e, new),
             UNCHANGED <<intents, signs, validations>>
      PROVE  TablesOK'
  BY <1>0, <1>2 DEF TablesOK, SetSend, Update
<1>3. ASSUME NEW e \in Exec, NEW new \in ValidationStates, SetValidation(e, new),
             UNCHANGED <<intents, signs, sends>>
      PROVE  TablesOK'
  BY <1>3 DEF TablesOK, SetValidation, Update
<1>4. ASSUME NEW e \in Exec, RelayHost(e)
      PROVE  TablesOK'
  BY <1>4 DEF RelayHost, Registered, LintFailed, RegisterBroken, TablesOK
<1>5. ASSUME NEW e \in Exec, Sign(e) \/ Resign(e) \/ RevertSign(e)
      PROVE  TablesOK'
  <2>1. signs' \in [Exec -> SignStates]
    <3>1. CASE Signed(e) \/ Reverted(e)
      BY <1>0, <3>1 DEF Signed, Reverted, Update, TablesOK
    <3>2. CASE SigningFailed(e)
      BY <1>0, <3>2 DEF SigningFailed, Update, TablesOK
    <3>3. CASE UNCHANGED signs
      BY <3>3 DEF TablesOK
    <3>4. CASE SignBroken(e)
      BY <1>0, <3>4 DEF SignBroken, Update, TablesOK
    <3>5. QED
      BY <1>5, <3>1, <3>2, <3>3, <3>4
      DEF Sign, Resign, SignCall, RevertSign, KeyMissing, SignRefused, RevertRefused
  <2>2. QED
    BY <1>5, <2>1 DEF Sign, Resign, SignCall, RevertSign, TablesOK
<1>6. ASSUME NEW e \in Exec, Broadcast(e)
      PROVE  TablesOK'
  <2>1. CASE UNCHANGED sends
    BY <1>6, <2>1, <1>1
    DEF Broadcast, BroadcastNotInserted, BroadcastSent, BroadcastRefused, BroadcastMismatch,
        FetchNonce, stageVars
  <2>2. CASE ~UNCHANGED sends
    BY <1>6, <2>2, <1>2
    DEF Broadcast, BroadcastNotInserted, BroadcastSent, BroadcastRefused, BroadcastMismatch,
        FetchNonce
  <2>3. QED
    BY <2>1, <2>2
<1>7. ASSUME NEW e \in Exec, ValidationOpened(e) \/ Poll(e)
      PROVE  TablesOK'
  BY <1>0, <1>1, <1>3, <1>7
  DEF ValidationOpened, Poll, PollTimedOut, PollReverted, PollIncluded, PollRpcError, PollAgain,
      Outcome, stageVars, vars
<1>8. ASSUME NEW e \in Exec, Run(e)
      PROVE  TablesOK'
  BY <1>1, <1>4, <1>5, <1>6, <1>7, <1>8
  DEF Run, NonceReserve, AcquireEndpoint, ResolveNonce, NonceSync
<1>9. QED
  BY <1>1, <1>8
  DEF Next, Submit, Reject, Refuse, ChainStep, SweeperBot, TimePasses, Crash, Quiet, vars

\* Whatever the interleaving of tasks, faults and crashes: a task is in a stage of
\* run_pipeline, it retries no more than max_attempts times, and every table holds
\* only states of its enum.
THEOREM PipelineTypeCorrect == Spec => []PipelineTypeOK
<1>1. Init => PipelineTypeOK
  <2> SUFFICES ASSUME Init
               PROVE  PipelineTypeOK
    OBVIOUS
  <2>1. [nonce |-> 0, onChain |-> 0, retried |-> FALSE, stage |-> "none", wait |-> 0] \in Locals
    BY PipelineAssumption, ConstantsAssumption DEF Locals, FailureStages
  <2>2. TaskOK
    BY <2>1, PipelineAssumption DEF Init, TaskOK, Statuses
  <2>3. TablesOK
    BY DEF Init, StageInit, TablesOK, SignStates, SendStates, ValidationStates
  <2>4. FaultsOK
    BY PipelineAssumption DEF Init, FaultsOK, FaultBudget
  <2>5. QED
    BY <2>2, <2>3, <2>4 DEF PipelineTypeOK
<1>2. PipelineTypeOK /\ [Next]_vars => PipelineTypeOK'
  BY TasksTyped, TablesTyped, FaultsTyped DEF PipelineTypeOK
<1>3. QED
  BY <1>1, <1>2, PTL DEF Spec

\* The whole system uses the nonce table as NonceAssignments specifies: every step of
\* a pipeline, of the sweeper, of time and of a crash is a step of the nonce table or
\* leaves it alone.
THEOREM PipelineImplementsNonceTable == Spec => NonceSpec
<1>1. Init => NonceInit
  BY DEF Init
<1>2. PipelineTypeOK /\ [Next]_vars => [NonceNext]_nonceVars
  BY NonceSimulation DEF PipelineTypeOK
<1>3. QED
  BY <1>1, <1>2, PipelineTypeCorrect, PTL DEF Spec, NonceSpec

\* So no interleaving of pipelines, faults, sweeps and crashes lets two executions hold
\* the same nonce of an account at the same time.
THEOREM NoSharedNonce == Spec => []UniqueActive
BY PipelineImplementsNonceTable, NoDoubleAssignment, PTL

\* And the whole system, with its faults and crashes, keeps the ledger of claims.
THEOREM PipelineKeepsLedger == Spec => KeepsLedger
BY PipelineImplementsNonceTable, LedgerKept, PTL

=============================================================================
