--------------------------- MODULE DeliveryProofs ---------------------------
(***************************************************************************)
(* What the pipelines make reach the chain, for any number of executions,  *)
(* accounts, faults and crashes: a payload is mined at most once until an  *)
(* answer of an endpoint is lost and at most twice after that, a failure   *)
(* before the broadcast leaves nothing behind, what is reported as         *)
(* confirmed was mined, what is on the chain is on record in the table,    *)
(* and no nonce is skipped.                                                *)
(***************************************************************************)
EXTENDS PipelineProofs, FiniteSetTheorems

USE DEF nonceVars

-----------------------------------------------------------------------------
(* The effect of a step on the task of its execution, and on the others. *)

\* The tasks of the other executions do not move.
Elsewhere(e) ==
    \A f \in Exec : f # e =>
        pc'[f] = pc[f] /\ tries'[f] = tries[f] /\ ctx'[f] = ctx[f] /\ status'[f] = status[f]

\* The locals of run_pipeline, but for the failure stage, keep their values.
SameLocals(e) ==
    /\ ctx'[e].nonce = ctx[e].nonce
    /\ ctx'[e].onChain = ctx[e].onChain
    /\ ctx'[e].retried = ctx[e].retried
    /\ ctx'[e].wait = ctx[e].wait

Moves(e, stage, new) ==
    pc'[e] = stage /\ tries'[e] = 0 /\ ctx'[e] = ctx[e] /\ status'[e] = new

Again(e, stage) ==
    /\ tries[e] < MaxAttempts /\ tries'[e] = tries[e] + 1
    /\ pc'[e] = stage /\ ctx'[e] = ctx[e] /\ status'[e] = status[e]

Fails(e, stage) ==
    /\ pc'[e] = "done" /\ tries'[e] = 0 /\ status'[e] = "Failed"
    /\ ctx'[e].stage = stage /\ SameLocals(e)

Releases(e, stage) ==
    /\ pc'[e] = "release" /\ tries'[e] = 0 /\ status'[e] = status[e]
    /\ ctx'[e].stage = stage /\ SameLocals(e)

\* An accepted stage of run_pipeline moves one task to the next stage and sets its status.
LEMMA Advanced ==
    ASSUME TaskOK, NEW e \in Exec, NEW stage, NEW new, Advance(e, stage, new)
    PROVE  Elsewhere(e) /\ Moves(e, stage, new)
BY DEF TaskOK, Advance, Enter, SetStatus, Elsewhere, Moves

\* A stage that sets no status moves one task and leaves the status as it was.
LEMMA Proceeded ==
    ASSUME TaskOK, NEW e \in Exec, NEW stage, Enter(e, stage), UNCHANGED <<ctx, status>>
    PROVE  Elsewhere(e) /\ Moves(e, stage, status[e])
BY DEF TaskOK, Enter, Elsewhere, Moves

\* Recording the stage a task failed in changes no other local of run_pipeline.
LEMMA StageSet ==
    ASSUME TaskOK, NEW e \in Exec, NEW stage, ctx' = [ctx EXCEPT ![e].stage = stage]
    PROVE  /\ \A f \in Exec : f # e => ctx'[f] = ctx[f]
           /\ ctx'[e].stage = stage /\ SameLocals(e)
BY DEF TaskOK, Locals, SameLocals

\* An error that returns from run_pipeline ends one task with its failed status.
LEMMA Failed ==
    ASSUME TaskOK, NEW e \in Exec, NEW stage, Fail(e, stage)
    PROVE  Elsewhere(e) /\ Fails(e, stage)
BY StageSet DEF TaskOK, Fail, Enter, SetStatus, Elsewhere, Fails

\* An error after the reservation sends one task to the release of its nonce.
LEMMA Releasing ==
    ASSUME TaskOK, NEW e \in Exec, NEW stage, ReleaseThenFail(e, stage)
    PROVE  Elsewhere(e) /\ Releases(e, stage)
BY StageSet DEF TaskOK, ReleaseThenFail, Enter, Elsewhere, Releases

\* A retry of a stage counts one attempt and leaves the task's locals alone.
LEMMA Repeated ==
    ASSUME TaskOK, NEW e \in Exec, NEW stage,
           tries[e] < MaxAttempts,
           tries' = [tries EXCEPT ![e] = @ + 1],
           pc' = [pc EXCEPT ![e] = stage],
           UNCHANGED <<ctx, status>>
    PROVE  Elsewhere(e) /\ Again(e, stage)
BY DEF TaskOK, Elsewhere, Again

\* An attempt that failed is repeated, or it was the last one and the pipeline gives up.
LEMMA RetriedOrFailed ==
    ASSUME TaskOK, NEW e \in Exec, NEW stage, NEW f, Retry(e, stage, Fail(e, f))
    PROVE  /\ Elsewhere(e)
           /\ Again(e, stage) \/ (tries[e] >= MaxAttempts /\ Fails(e, f))
<1>1. CASE tries[e] >= MaxAttempts /\ Fail(e, f)
  BY <1>1, Failed
<1>2. CASE ~(tries[e] >= MaxAttempts /\ Fail(e, f))
  BY <1>2, Repeated DEF Retry
<1>3. QED
  BY <1>1, <1>2

\* A failing stage after the reservation is tried again, or gives the nonce up once the attempts are used.
LEMMA RetriedOrReleased ==
    ASSUME TaskOK, NEW e \in Exec, NEW stage, NEW f, Retry(e, stage, ReleaseThenFail(e, f))
    PROVE  /\ Elsewhere(e)
           /\ Again(e, stage) \/ (tries[e] >= MaxAttempts /\ Releases(e, f))
<1>1. CASE tries[e] >= MaxAttempts /\ ReleaseThenFail(e, f)
  BY <1>1, Releasing
<1>2. CASE ~(tries[e] >= MaxAttempts /\ ReleaseThenFail(e, f))
  BY <1>2, Repeated DEF Retry
<1>3. QED
  BY <1>1, <1>2

\* The reservation answers n, and that becomes the nonce of the transaction.
Grants(e, n, stage) ==
    /\ pc'[e] = stage /\ tries'[e] = 0 /\ status'[e] = "NonceReserved"
    /\ ctx'[e].nonce = n /\ ctx'[e].onChain = 0
    /\ ctx'[e].retried = ctx[e].retried
    /\ ctx'[e].stage = ctx[e].stage /\ ctx'[e].wait = ctx[e].wait

\* The answer of the nonce actor gives one task its nonce.
LEMMA Granted ==
    ASSUME TaskOK, NEW e \in Exec, NEW n, NEW stage, NonceGranted(e, n, stage)
    PROVE  Elsewhere(e) /\ Grants(e, n, stage)
BY DEF TaskOK, Locals, NonceGranted, Enter, SetStatus, Elsewhere, Grants

\* What the end of a resolve means for the task.
AfterResolved(e) ==
    \/ pc[e] = "consume" /\ Moves(e, "revert_sign", status[e])
    \/ pc[e] = "release" /\ Fails(e, ctx[e].stage)
    \/ pc[e] = "finalise" /\ Moves(e, "done", "ConfirmedOnChain")
    \/ pc[e] = "expire" /\ Moves(e, "done", "ValidatorTimedOut")

\* After resolve a task is confirmed or fails in the stage it had recorded.
LEMMA Resolved ==
    ASSUME TaskOK, NEW e \in Exec, AfterResolve(e)
    PROVE  Elsewhere(e) /\ AfterResolved(e)
BY Proceeded, Failed, Advanced DEF AfterResolve, AfterResolved

\* A failing resolve is tried again, and its error is dropped once the attempts are used.
LEMMA RetriedOrResolved ==
    ASSUME TaskOK, NEW e \in Exec, Retry(e, pc[e], AfterResolve(e))
    PROVE  /\ Elsewhere(e)
           /\ Again(e, pc[e]) \/ (tries[e] >= MaxAttempts /\ AfterResolved(e))
<1>1. CASE tries[e] >= MaxAttempts /\ AfterResolve(e)
  BY <1>1, Resolved
<1>2. CASE ~(tries[e] >= MaxAttempts /\ AfterResolve(e))
  BY <1>2, Repeated DEF Retry
<1>3. QED
  BY <1>1, <1>2

\* A step outside run_pipeline moves no task.
LEMMA Unmoved ==
    ASSUME NEW e \in Exec, UNCHANGED taskVars
    PROVE  Elsewhere(e)
BY DEF taskVars, Elsewhere

\* The endpoint complains about the nonce, and is asked for the right one.
Asks(e) ==
    pc'[e] = "fetch_nonce" /\ tries'[e] = tries[e] /\ ctx'[e] = ctx[e] /\ status'[e] = status[e]

\* The first complaint about the nonce: the recovery begins.
Recovers(e, n) ==
    /\ ~ctx[e].retried
    /\ pc'[e] = "consume" /\ tries'[e] = 0 /\ status'[e] = "NonceMismatchDetected"
    /\ ctx'[e].retried /\ ctx'[e].onChain = n
    /\ ctx'[e].nonce = ctx[e].nonce /\ ctx'[e].stage = ctx[e].stage
    /\ ctx'[e].wait = ctx[e].wait

\* run_pipeline, stage by stage, as a table of what becomes of the task.
RunTable(e) ==
    \/ UNCHANGED taskVars
    \/ /\ pc[e] = "relay_host"
       /\ Moves(e, "reserve", "Accepted") \/ Again(e, "relay_host") \/ Fails(e, "relay_host")
    \/ /\ pc[e] = "reserve"
       /\ \/ \E n \in 0..MaxNonce : Grants(e, n, "sign")
          \/ Again(e, "reserve") \/ Fails(e, "nonce_reserve")
    \/ /\ pc[e] = "sign"
       /\ Moves(e, "endpoint", "Signed") \/ Again(e, "sign") \/ Releases(e, "sign")
    \/ /\ pc[e] = "endpoint"
       /\ \/ Moves(e, "broadcast", status[e])
          \/ Releases(e, "acquire_healthy_endpoint")
          \/ Releases(e, "rpc_semaphore_permit")
    \/ /\ pc[e] = "broadcast"
       /\ Moves(e, "validate", "Broadcasted") \/ Asks(e)
    \/ /\ pc[e] \in {"broadcast", "fetch_nonce"}
       /\ Again(e, "broadcast") \/ Fails(e, "broadcast") \/ Releases(e, "broadcast")
    \/ /\ pc[e] = "fetch_nonce"
       /\ \E n \in 0..MaxOnChain : IsPendingCount(AccountOf[e], n) /\ Recovers(e, n)
    \/ /\ pc[e] \in {"consume", "release", "finalise", "expire"}
       /\ AfterResolved(e) \/ Again(e, pc[e])
    \/ /\ pc[e] = "revert_sign"
       /\ Moves(e, "sync", status[e]) \/ Again(e, "revert_sign")
    \/ /\ pc[e] = "sync"
       /\ \/ \E n \in 0..MaxNonce : Grants(e, n, "resign")
          \/ Again(e, "sync") \/ Fails(e, "nonce_sync")
    \/ /\ pc[e] = "resign"
       /\ \/ Moves(e, "broadcast", "Signed") \/ Again(e, "resign")
          \/ Releases(e, "sign_post_nonce_sync")
    \/ /\ pc[e] = "validate"
       /\ Moves(e, "poll", status[e]) \/ Fails(e, "validator")
    \/ /\ pc[e] = "poll"
       /\ \/ ctx[e].wait >= ValidatorTimeout /\ Moves(e, "expire", status[e])
          \/ HasReceipt(e, ctx[e].nonce, TRUE) /\ Moves(e, "finalise", status[e])
          \/ /\ HasReceipt(e, ctx[e].nonce, FALSE) \/ Fault({"rpc"})
             /\ Releases(e, "validator")
          \/ Fails(e, "validator")

\* A nonce too low is recovered from once; the second time the task gives its nonce up.
LEMMA RecoveredOrReleased ==
    ASSUME TaskOK, NEW e \in Exec, NEW n, NonceTooLow(e, n)
    PROVE  /\ Elsewhere(e)
           /\ Recovers(e, n) \/ (ctx[e].retried /\ Releases(e, "broadcast"))
<1>1. CASE ctx[e].retried
  BY <1>1, Releasing DEF NonceTooLow
<1>2. CASE ~ctx[e].retried
  <2>1. /\ Enter(e, "consume")
        /\ ctx' = [ctx EXCEPT ![e].retried = TRUE, ![e].onChain = n]
        /\ SetStatus(e, "NonceMismatchDetected")
    BY <1>2 DEF NonceTooLow
  <2>2. Elsewhere(e)
    BY <2>1 DEF Enter, SetStatus, TaskOK, Elsewhere
  <2>3. Recovers(e, n)
    BY <1>2, <2>1 DEF Enter, SetStatus, TaskOK, Locals, Recovers
  <2>4. QED
    BY <2>2, <2>3
<1>3. QED
  BY <1>1, <1>2

\* A step of run_pipeline moves the task of its own execution only, as the table says.
LEMMA RunMoves ==
    ASSUME TaskOK, NEW e \in Exec, Run(e)
    PROVE  pc[e] \in Stages /\ Elsewhere(e) /\ RunTable(e)
<1>1. CASE RelayHost(e)
  BY <1>1, Advanced, RetriedOrFailed DEF RelayHost, Stages, RunTable
<1>2. CASE NonceReserve(e)
  BY <1>2, Unmoved, Granted, RetriedOrFailed DEF NonceReserve, Stages, RunTable
<1>3. CASE Sign(e) \/ Resign(e)
  BY <1>3, Advanced, RetriedOrReleased DEF Sign, Resign, SignCall, Stages, RunTable
<1>4. CASE AcquireEndpoint(e)
  BY <1>4, Proceeded, Releasing DEF AcquireEndpoint, Stages, RunTable
<1>5. CASE Broadcast(e)
  <2>0. ASSUME BroadcastDbError(e) \/ BroadcastRejected(e)
        PROVE  /\ Elsewhere(e)
               /\ Again(e, "broadcast") \/ Fails(e, "broadcast") \/ Releases(e, "broadcast")
    BY <2>0, RetriedOrFailed, RetriedOrReleased DEF BroadcastDbError, BroadcastRejected
  <2>1. CASE BroadcastNotInserted(e)
    BY <2>0, <2>1, Advanced DEF BroadcastNotInserted, Stages, RunTable
  <2>2. CASE BroadcastSent(e)
    BY <2>0, <2>2, Advanced DEF BroadcastSent, Stages, RunTable
  <2>3. CASE BroadcastRefused(e)
    BY <2>0, <2>3 DEF BroadcastRefused, Stages, RunTable
  <2>4. CASE BroadcastMismatch(e)
    <3>1. Elsewhere(e) /\ Asks(e)
      BY <2>4 DEF BroadcastMismatch, TaskOK, Elsewhere, Asks
    <3>2. QED
      BY <2>4, <3>1 DEF BroadcastMismatch, Stages, RunTable
  <2>5. CASE FetchNonce(e)
    BY <2>0, <2>5, RecoveredOrReleased DEF FetchNonce, Stages, RunTable
  <2>6. QED
    BY <1>5, <2>1, <2>2, <2>3, <2>4, <2>5 DEF Broadcast
<1>6. CASE ResolveNonce(e)
  BY <1>6, Unmoved, Resolved, RetriedOrResolved DEF ResolveNonce, Stages, RunTable
<1>7. CASE RevertSign(e)
  <2>1. ASSUME Retry(e, "revert_sign", Enter(e, "sync") /\ UNCHANGED <<ctx, status>>)
        PROVE  Elsewhere(e) /\ (Again(e, "revert_sign") \/ Moves(e, "sync", status[e]))
    BY <2>1, Proceeded, Repeated DEF Retry
  <2>2. QED
    BY <1>7, <2>1, Proceeded DEF RevertSign, Stages, RunTable
<1>8. CASE NonceSync(e)
  <2>1. ctx[e].onChain \in 0..MaxNonce
    BY PipelineAssumption, ConstantsAssumption DEF TaskOK, Locals
  <2>2. QED
    BY <1>8, <2>1, Unmoved, Granted, RetriedOrFailed DEF NonceSync, Stages, RunTable
<1>9. CASE ValidationOpened(e)
  BY <1>9, Proceeded, Failed DEF ValidationOpened, ValidatorDbError, Stages, RunTable
<1>10. CASE Poll(e)
  <2>1. CASE PollAgain(e)
    BY <2>1, Unmoved DEF PollAgain, vars, taskVars, Stages, RunTable
  <2>2. CASE PollTimedOut(e)
    BY <2>2, Proceeded, Failed
    DEF PollTimedOut, Outcome, Proceed, ValidatorDbError, Stages, RunTable
  <2>3. CASE PollIncluded(e)
    BY <2>3, Proceeded, Failed
    DEF PollIncluded, Outcome, Proceed, ValidatorDbError, Stages, RunTable
  <2>4. CASE PollReverted(e)
    BY <2>4, Releasing, Failed
    DEF PollReverted, Outcome, ValidatorRpcError, ValidatorDbError, Stages, RunTable
  <2>5. CASE PollRpcError(e)
    BY <2>5, Releasing, Failed
    DEF PollRpcError, ValidatorRpcError, ValidatorDbError, Stages, RunTable
  <2>6. QED
    BY <1>10, <2>1, <2>2, <2>3, <2>4, <2>5 DEF Poll
<1>11. QED
  BY <1>1, <1>2, <1>3, <1>4, <1>5, <1>6, <1>7, <1>8, <1>9, <1>10 DEF Run

\* Each stage is one call.
LEMMA StageOf ==
    ASSUME NEW e \in Exec, Run(e)
    PROVE  /\ pc[e] = "reserve" => NonceReserve(e)
           /\ pc[e] = "sync" => NonceSync(e)
           /\ pc[e] \in {"consume", "release", "finalise", "expire"} => ResolveNonce(e)
           /\ pc[e] \in {"broadcast", "fetch_nonce"} => Broadcast(e)
           /\ pc[e] = "poll" => Poll(e)
BY DEF Run, RelayHost, NonceReserve, Sign, Resign, SignCall, AcquireEndpoint, Broadcast,
       BroadcastNotInserted, BroadcastSent, BroadcastRefused, BroadcastMismatch, FetchNonce,
       ResolveNonce, RevertSign, NonceSync, ValidationOpened, Poll, PollTimedOut, PollReverted,
       PollIncluded, PollRpcError, PollAgain

\* Only the broadcast stages write to the broadcast table and to the chain, and only for
\* their own execution.
LEMMA SendsElsewhere ==
    ASSUME TablesOK, NEW e \in Exec, Run(e)
    PROVE  /\ \A f \in Exec : f # e => sends'[f] = sends[f]
           /\ mined' = mined
           /\ BroadcastSent(e) \/ pool' = pool
           /\ pc[e] \notin {"broadcast", "fetch_nonce"} => sends' = sends
<1> USE DEF chainVars, stageVars
<1>1. CASE Broadcast(e)
  <2>1. \A f \in Exec : f # e => sends'[f] = sends[f]
    BY <1>1
    DEF Broadcast, BroadcastNotInserted, BroadcastSent, BroadcastRefused, BroadcastMismatch,
        FetchNonce, SetSend, Update, TablesOK
  <2>2. QED
    BY <1>1, <2>1
    DEF Broadcast, BroadcastNotInserted, BroadcastSent, BroadcastRefused, BroadcastMismatch,
        FetchNonce, Admit
<1>2. CASE Poll(e) \/ ValidationOpened(e)
  BY <1>2
  DEF ValidationOpened, Poll, PollTimedOut, PollReverted, PollIncluded, PollRpcError, PollAgain,
      vars
<1>3. CASE ~Broadcast(e) /\ ~Poll(e) /\ ~ValidationOpened(e)
  BY <1>3
  DEF Run, RelayHost, NonceReserve, Sign, Resign, SignCall, AcquireEndpoint, ResolveNonce,
      RevertSign, NonceSync
<1>4. QED
  BY <1>1, <1>2, <1>3

-----------------------------------------------------------------------------
(* The chain *)

Blocks == Seq([exec : Exec \cup {Other}, ok : BOOLEAN])

\* A pending transaction is one of its account, and its nonce has not been used.
ChainOK ==
    /\ mined \in [Account -> Blocks]
    /\ pool \in [Account -> SUBSET (Exec \X (0..MaxNonce))]
    /\ \A a \in Account : \A t \in pool[a] : AccountOf[t[1]] = a /\ t[2] >= Len(mined[a])

\* The next nonce of the account a is used: a block is added and the pool loses every
\* transaction with that nonce.
Used(a, by, ok) ==
    /\ mined' \in [Account -> Blocks]
    /\ \A b \in Account : b # a => mined'[b] = mined[b] /\ pool'[b] = pool[b]
    /\ Len(mined'[a]) = Len(mined[a]) + 1
    /\ \A n \in 1..Len(mined[a]) : mined'[a][n] = mined[a][n]
    /\ mined'[a][Len(mined[a]) + 1] = [exec |-> by, ok |-> ok]
    /\ pool'[a] = {t \in pool[a] : t[2] # Len(mined[a])}

\* A mined nonce appends one receipt and leaves the receipts before it.
LEMMA UseLemma ==
    ASSUME ChainOK, NEW a \in Account, NEW by \in Exec \cup {Other}, NEW ok \in BOOLEAN,
           Use(a, by, ok)
    PROVE  Used(a, by, ok)
<1> DEFINE Block == [exec : Exec \cup {Other}, ok : BOOLEAN]
<1>1. mined \in [Account -> Seq(Block)] /\ [exec |-> by, ok |-> ok] \in Block
  BY DEF ChainOK, Blocks
<1> HIDE DEF Block
<1>2. mined' \in [Account -> Seq(Block)]
  BY <1>1 DEF Use
<1>3. pool'[a] = {t \in pool[a] : t[2] # Len(mined[a])}
  BY DEF Use, ChainOK, ChainNonce
<1>4. \A b \in Account : b # a => mined'[b] = mined[b] /\ pool'[b] = pool[b]
  BY DEF Use, ChainOK
<1>5. mined[a] \in Seq(Block) /\ mined'[a] = Append(mined[a], [exec |-> by, ok |-> ok])
  BY <1>1 DEF Use
<1>6. /\ Len(mined'[a]) = Len(mined[a]) + 1
      /\ \A n \in 1..Len(mined[a]) : mined'[a][n] = mined[a][n]
      /\ mined'[a][Len(mined[a]) + 1] = [exec |-> by, ok |-> ok]
  BY <1>1, <1>5
<1>7. mined' \in [Account -> Blocks]
  BY <1>2 DEF Blocks, Block
<1>8. QED
  BY <1>3, <1>4, <1>6, <1>7 DEF Used

\* A step of the chain itself.
LEMMA ChainStepKept ==
    ASSUME ChainOK, NEW a \in Account, ChainStep(a)
    PROVE  /\ ChainOK'
           /\ \A b \in Account :
                /\ Len(mined[b]) <= Len(mined'[b])
                /\ \A n \in 1..Len(mined[b]) : mined'[b][n] = mined[b][n]
                /\ pool'[b] \subseteq pool[b]
<1>0. \A b \in Account : Len(mined[b]) \in Nat
  BY DEF ChainOK, Blocks
<1>1. ASSUME NEW by \in Exec \cup {Other}, NEW ok \in BOOLEAN, Use(a, by, ok)
      PROVE  /\ ChainOK'
             /\ \A b \in Account :
                /\ Len(mined[b]) <= Len(mined'[b])
                /\ \A n \in 1..Len(mined[b]) : mined'[b][n] = mined[b][n]
                /\ pool'[b] \subseteq pool[b]
  <2>0. Used(a, by, ok)
    BY <1>1, UseLemma
  <2>1. pool' \in [Account -> SUBSET (Exec \X (0..MaxNonce))]
    BY <1>1 DEF Use, ChainOK
  <2>2. \A b \in Account : \A t \in pool'[b] : AccountOf[t[1]] = b /\ t[2] >= Len(mined'[b])
    <3> SUFFICES ASSUME NEW b \in Account, NEW t \in pool'[b]
                 PROVE  AccountOf[t[1]] = b /\ t[2] >= Len(mined'[b])
      OBVIOUS
    <3>1. CASE b = a
      <4>1. t \in pool[a] /\ t[2] # Len(mined[a])
        BY <2>0, <3>1 DEF Used
      <4>2. AccountOf[t[1]] = a /\ t[2] >= Len(mined[a]) /\ t[2] \in 0..MaxNonce
        BY <4>1 DEF ChainOK
      <4>3. Len(mined'[a]) = Len(mined[a]) + 1
        BY <2>0 DEF Used
      <4>4. QED
        BY <1>0, <3>1, <4>1, <4>2, <4>3, ConstantsAssumption
    <3>2. CASE b # a
      BY <2>0, <3>2 DEF Used, ChainOK
    <3>3. QED
      BY <3>1, <3>2
  <2>3. QED
    <3>1. ChainOK'
      BY <2>0, <2>1, <2>2 DEF Used, ChainOK
    <3>2. ASSUME NEW b \in Account
          PROVE  /\ Len(mined[b]) <= Len(mined'[b])
                 /\ \A n \in 1..Len(mined[b]) : mined'[b][n] = mined[b][n]
                 /\ pool'[b] \subseteq pool[b]
      BY <1>0, <2>0 DEF Used
    <3>3. QED
      BY <3>1, <3>2
<1>2. CASE Mine(a)
  <2>1. PICK t \in pool[a], ok \in BOOLEAN : t[2] = ChainNonce(a) /\ Use(a, t[1], ok)
    BY <1>2 DEF Mine
  <2>2. t[1] \in Exec \cup {Other}
    BY DEF ChainOK
  <2>3. QED
    BY <1>1, <2>1, <2>2
<1>3. CASE OtherWallet(a)
  BY <1>1, <1>3 DEF OtherWallet
<1>4. CASE Evict(a)
  BY <1>0, <1>4 DEF Evict, ChainOK
<1>5. QED
  BY <1>2, <1>3, <1>4 DEF ChainStep

\* A transaction that an endpoint takes.
LEMMA AdmitLemma ==
    ASSUME ChainOK, NEW e \in Exec, NEW n \in 0..MaxNonce, Admit(e, n)
    PROVE  /\ ChainOK'
           /\ mined' = mined
           /\ \A b \in Account : b # AccountOf[e] => pool'[b] = pool[b]
           /\ pool'[AccountOf[e]] =
                {t \in pool[AccountOf[e]] : t[2] = n => t[1] = e} \cup {<<e, n>>}
<1>1. AccountOf[e] \in Account
  BY AccountsAssumption
<1>2. n >= Len(mined[AccountOf[e]])
  BY <1>1, ConstantsAssumption DEF Admit, IsNonceError, ChainNonce, ChainOK, Blocks
<1>3. pool'[AccountOf[e]] = (pool[AccountOf[e]] \ Competitors(e, n)) \cup {<<e, n>>}
  BY <1>1 DEF Admit, ChainOK
<1>4. pool'[AccountOf[e]] = {t \in pool[AccountOf[e]] : t[2] = n => t[1] = e} \cup {<<e, n>>}
  BY <1>3 DEF Competitors
<1>5. mined' = mined /\ \A b \in Account : b # AccountOf[e] => pool'[b] = pool[b]
  BY DEF Admit, ChainOK
<1>6. pool' \in [Account -> SUBSET (Exec \X (0..MaxNonce))]
  <2>1. pool'[AccountOf[e]] \in SUBSET (Exec \X (0..MaxNonce))
    BY <1>1, <1>4 DEF ChainOK
  <2>2. pool' = [pool EXCEPT ![AccountOf[e]] = pool'[AccountOf[e]]]
    BY <1>1 DEF Admit, ChainOK
  <2>3. QED
    BY <1>1, <2>1, <2>2 DEF ChainOK
<1>7. ASSUME NEW b \in Account, NEW t \in pool'[b]
      PROVE  AccountOf[t[1]] = b /\ t[2] >= Len(mined'[b])
  <2>1. CASE t \in pool[b]
    BY <1>5, <2>1 DEF ChainOK
  <2>2. CASE t \notin pool[b]
    BY <1>2, <1>4, <1>5, <1>7, <2>2
  <2>3. QED
    BY <2>1, <2>2
<1>8. QED
  BY <1>4, <1>5, <1>6, <1>7 DEF ChainOK

\* The chain in any step of the system.
LEMMA ChainKept ==
    ASSUME TaskOK, TablesOK, ChainOK, [Next]_vars
    PROVE  /\ ChainOK'
           /\ \A a \in Account :
                /\ Len(mined[a]) <= Len(mined'[a])
                /\ \A n \in 1..Len(mined[a]) : mined'[a][n] = mined[a][n]
<1>0. \A a \in Account : Len(mined[a]) \in Nat
  BY DEF ChainOK, Blocks
<1>1. CASE UNCHANGED chainVars
  BY <1>0, <1>1 DEF chainVars, ChainOK
<1>2. ASSUME NEW e \in Exec, BroadcastSent(e)
      PROVE  ChainOK' /\ mined' = mined
  <2>1. ctx[e].nonce \in 0..MaxNonce
    BY DEF TaskOK, Locals
  <2>2. QED
    BY <1>2, <2>1, AdmitLemma DEF BroadcastSent
<1>3. ASSUME NEW e \in Exec, Run(e)
      PROVE  BroadcastSent(e) \/ UNCHANGED chainVars
  BY <1>3, SendsElsewhere DEF chainVars
<1>4. ASSUME NEW a \in Account, ChainStep(a)
      PROVE  /\ ChainOK'
             /\ \A b \in Account :
                /\ Len(mined[b]) <= Len(mined'[b])
                /\ \A n \in 1..Len(mined[b]) : mined'[b][n] = mined[b][n]
  BY <1>4, ChainStepKept
<1>5. ASSUME NEW e \in Exec, Submit(e) \/ Reject(e) \/ Refuse(e)
      PROVE  UNCHANGED chainVars
  BY <1>5 DEF Submit, Reject, Refuse
<1>6. ASSUME SweeperBot \/ TimePasses \/ Crash \/ Quiet \/ UNCHANGED vars
      PROVE  UNCHANGED chainVars
  BY <1>6 DEF SweeperBot, TimePasses, Crash, Quiet, vars
<1>7. QED
  BY <1>0, <1>1, <1>2, <1>3, <1>4, <1>5, <1>6 DEF Next

\* A receipt stays: nothing is ever taken off the chain.
LEMMA ReceiptStays ==
    ASSUME TaskOK, TablesOK, ChainOK, [Next]_vars, NEW e \in Exec,
           HasReceipt(e, ctx[e].nonce, TRUE), ctx'[e].nonce = ctx[e].nonce
    PROVE  HasReceipt(e, ctx[e].nonce, TRUE)'
<1>1. AccountOf[e] \in Account
  BY AccountsAssumption
<1>2. ctx[e].nonce \in Nat
  BY ConstantsAssumption DEF TaskOK, Locals
<1>3. Len(mined[AccountOf[e]]) \in Nat /\ Len(mined'[AccountOf[e]]) \in Nat
  BY <1>1, ChainKept DEF ChainOK, Blocks
<1>4. /\ Len(mined[AccountOf[e]]) <= Len(mined'[AccountOf[e]])
      /\ \A k \in 1..Len(mined[AccountOf[e]]) : mined'[AccountOf[e]][k] = mined[AccountOf[e]][k]
  BY <1>1, ChainKept
<1>5. /\ ctx[e].nonce < Len(mined[AccountOf[e]])
      /\ mined[AccountOf[e]][ctx[e].nonce + 1] = [exec |-> e, ok |-> TRUE]
  BY DEF HasReceipt, ChainNonce
<1>6. /\ ctx[e].nonce < Len(mined'[AccountOf[e]])
      /\ ctx[e].nonce + 1 \in 1..Len(mined[AccountOf[e]])
  BY <1>2, <1>3, <1>4, <1>5
<1>7. mined'[AccountOf[e]][ctx[e].nonce + 1] = mined[AccountOf[e]][ctx[e].nonce + 1]
  BY <1>4, <1>6
<1>8. QED
  BY <1>5, <1>6, <1>7 DEF HasReceipt, ChainNonce

-----------------------------------------------------------------------------
(* What is reported as confirmed *)

\* A status that ends a pipeline is set when the pipeline returns, and finalise_nonce is
\* called with the receipt at hand.
ConfirmInv ==
    \A e \in Exec :
        /\ status[e] \in Ended => pc[e] = "done"
        /\ pc[e] = "finalise" \/ status[e] = "ConfirmedOnChain" =>
            HasReceipt(e, ctx[e].nonce, TRUE)

\* How a step of run_pipeline comes to finalise a nonce and to end.
LEMMA RunReports ==
    ASSUME TaskOK, NEW e \in Exec, Run(e)
    PROVE  /\ status'[e] \in Ended => status'[e] = status[e] \/ pc'[e] = "done"
           /\ pc'[e] = "finalise" =>
                /\ ctx'[e].nonce = ctx[e].nonce
                /\ pc[e] = "finalise" \/ HasReceipt(e, ctx[e].nonce, TRUE)
           /\ status'[e] = "ConfirmedOnChain" =>
                \/ status[e] = "ConfirmedOnChain"
                \/ pc[e] = "finalise" /\ ctx'[e].nonce = ctx[e].nonce
BY RunMoves
DEF RunTable, AfterResolved, Moves, Again, Fails, Releases, Grants, Asks, Recovers, SameLocals,
    Ended, taskVars

\* The tasks in the steps outside run_pipeline.
LEMMA OtherMoves ==
    ASSUME TaskOK, [Next]_vars, NEW e \in Exec, ~\E f \in Exec : Run(f)
    PROVE  \/ pc[e] = "idle" /\ Moves(e, "relay_host", "PermitAquired")
           \/ pc[e] = "idle" /\ Moves(e, "refused", status[e])
           \/ /\ Crash
              /\ pc'[e] = IF InFlight(e) THEN "lost" ELSE pc[e]
              /\ ctx'[e] = ctx[e]
              /\ status'[e] \in Recovered(e)
           \/ /\ pc'[e] = pc[e] /\ tries'[e] = tries[e] /\ status'[e] = status[e]
              /\ ctx'[e].stage = ctx[e].stage
              /\ ctx'[e].nonce = ctx[e].nonce
              /\ ctx'[e].onChain = ctx[e].onChain
              /\ ctx'[e].retried = ctx[e].retried
<1> DEFINE Kept == /\ pc'[e] = pc[e] /\ tries'[e] = tries[e] /\ status'[e] = status[e]
                   /\ ctx'[e].stage = ctx[e].stage
                   /\ ctx'[e].nonce = ctx[e].nonce
                   /\ ctx'[e].onChain = ctx[e].onChain
                   /\ ctx'[e].retried = ctx[e].retried
<1>1. ASSUME NEW f \in Exec, Submit(f)
      PROVE  Kept \/ (pc[e] = "idle" /\ Moves(e, "relay_host", "PermitAquired"))
  <2>1. Elsewhere(f) /\ Moves(f, "relay_host", "PermitAquired") /\ pc[f] = "idle"
    BY <1>1, Advanced DEF Submit
  <2>2. QED
    BY <2>1 DEF Elsewhere
<1>2. ASSUME NEW f \in Exec, Reject(f) \/ Refuse(f)
      PROVE  Kept \/ (pc[e] = "idle" /\ Moves(e, "refused", status[e]))
  <2>1. Elsewhere(f) /\ Moves(f, "refused", status[f]) /\ pc[f] = "idle"
    BY <1>2, Proceeded DEF Reject, Refuse
  <2>2. QED
    BY <2>1 DEF Elsewhere
<1>3. ASSUME UNCHANGED taskVars
      PROVE  Kept
  BY <1>3 DEF taskVars
<1>4. ASSUME TimePasses
      PROVE  Kept
  BY <1>4 DEF TimePasses, TaskOK, Locals
<1>5. ASSUME Crash
      PROVE  /\ pc'[e] = IF InFlight(e) THEN "lost" ELSE pc[e]
             /\ ctx'[e] = ctx[e]
             /\ status'[e] \in Recovered(e)
  BY <1>5 DEF Crash, StatusLoaded
<1>6. ASSUME \/ \E a \in Account : ChainStep(a)
             \/ SweeperBot \/ Quiet \/ UNCHANGED vars
      PROVE  UNCHANGED taskVars
  BY <1>6 DEF ChainStep, SweeperBot, Quiet, vars
<1> HIDE DEF Kept
<1>7. \/ Kept
      \/ pc[e] = "idle" /\ Moves(e, "relay_host", "PermitAquired")
      \/ pc[e] = "idle" /\ Moves(e, "refused", status[e])
      \/ Crash
  BY <1>1, <1>2, <1>3, <1>4, <1>6 DEF Next
<1>8. QED
  BY <1>5, <1>7 DEF Kept

\* Every step keeps what a confirmed or confirming task rests on: a successful receipt.
LEMMA ConfirmStep ==
    ASSUME TaskOK, TablesOK, ChainOK, ConfirmInv, [Next]_vars
    PROVE  ConfirmInv'
<1> SUFFICES ASSUME NEW e \in Exec
             PROVE  /\ status'[e] \in Ended => pc'[e] = "done"
                    /\ pc'[e] = "finalise" \/ status'[e] = "ConfirmedOnChain" =>
                        HasReceipt(e, ctx[e].nonce, TRUE)'
  BY DEF ConfirmInv
<1>1. HasReceipt(e, ctx[e].nonce, TRUE) /\ ctx'[e].nonce = ctx[e].nonce =>
        HasReceipt(e, ctx[e].nonce, TRUE)'
  BY ReceiptStays
<1>2. ASSUME NEW f \in Exec, Run(f)
      PROVE  /\ status'[e] \in Ended => pc'[e] = "done"
             /\ pc'[e] = "finalise" \/ status'[e] = "ConfirmedOnChain" =>
                    HasReceipt(e, ctx[e].nonce, TRUE)'
  <2>1. CASE f = e
    <3>1. pc[e] \in Stages /\ "done" \notin Stages
      BY <1>2, <2>1, RunMoves DEF Stages
    <3>2. status[e] \notin Ended /\ (pc[e] = "finalise" => HasReceipt(e, ctx[e].nonce, TRUE))
      BY <3>1 DEF ConfirmInv
    <3>3. /\ status'[e] \in Ended => status'[e] = status[e] \/ pc'[e] = "done"
          /\ pc'[e] = "finalise" =>
                /\ ctx'[e].nonce = ctx[e].nonce
                /\ pc[e] = "finalise" \/ HasReceipt(e, ctx[e].nonce, TRUE)
          /\ status'[e] = "ConfirmedOnChain" =>
                \/ status[e] = "ConfirmedOnChain"
                \/ pc[e] = "finalise" /\ ctx'[e].nonce = ctx[e].nonce
      BY <1>2, <2>1, RunReports
    <3>4. QED
      BY <1>1, <3>2, <3>3 DEF Ended
  <2>2. CASE f # e
    <3>1. pc'[e] = pc[e] /\ ctx'[e] = ctx[e] /\ status'[e] = status[e]
      BY <1>2, <2>2, RunMoves DEF Elsewhere
    <3>2. QED
      BY <1>1, <3>1 DEF ConfirmInv
  <2>3. QED
    BY <2>1, <2>2
<1>3. CASE ~\E f \in Exec : Run(f)
  <2>1. CASE pc[e] = "idle" /\ (Moves(e, "relay_host", "PermitAquired") \/ Moves(e, "refused", status[e]))
    BY <2>1 DEF ConfirmInv, Moves, Ended
  <2>2. CASE /\ pc'[e] = IF InFlight(e) THEN "lost" ELSE pc[e]
             /\ ctx'[e] = ctx[e]
             /\ status'[e] \in Recovered(e)
    <3>1. status'[e] \in Ended => status'[e] = status[e]
      BY <2>2 DEF Recovered, Ended
    <3>2. pc[e] = "done" => pc'[e] = "done"
      BY <2>2 DEF InFlight, Stages
    <3>3. pc'[e] # "finalise"
      BY <2>2 DEF InFlight, Stages
    <3>4. QED
      BY <1>1, <2>2, <3>1, <3>2, <3>3 DEF ConfirmInv, Ended
  <2>3. CASE /\ pc'[e] = pc[e] /\ status'[e] = status[e]
             /\ ctx'[e].nonce = ctx[e].nonce
    BY <1>1, <2>3 DEF ConfirmInv
  <2>4. QED
    BY <1>3, <2>1, <2>2, <2>3, OtherMoves
<1>4. QED
  BY <1>2, <1>3

\* ConfirmedOnChain is only reported of a transaction that was mined with success: the
\* receipt the validator saw before finalise_nonce is still there when the pipeline
\* returns, and after a restart.  Neither lost answers nor lost leases change that.
THEOREM ConfirmedWasMined == Spec => []ConfirmedIsMined
<1>1. Init => ChainOK
  BY ConstantsAssumption DEF Init, ChainInit, ChainOK, Blocks
<1>2. Init => ConfirmInv
  BY DEF Init, ConfirmInv, Ended
<1>3. PipelineTypeOK /\ ChainOK /\ [Next]_vars => ChainOK'
  BY ChainKept DEF PipelineTypeOK
<1>4. PipelineTypeOK /\ ChainOK /\ ConfirmInv /\ [Next]_vars => ConfirmInv'
  BY ConfirmStep DEF PipelineTypeOK
<1>5. ConfirmInv => ConfirmedIsMined
  BY DEF ConfirmInv, ConfirmedIsMined
<1>6. QED
  BY <1>1, <1>2, <1>3, <1>4, <1>5, PipelineTypeCorrect, PTL DEF Spec

-----------------------------------------------------------------------------
(* No nonce is skipped *)

\* The effect of an INSERT: one more reservation of e, perhaps in place of a row that
\* was released.
Inserts(e, n) ==
    /\ Len(rows'[e]) = Len(rows[e]) + 1
    /\ rows'[e][Len(rows[e]) + 1] = [nonce |-> n, state |-> "reserved", age |-> 0]
    /\ \A f \in Exec : f # e => Len(rows'[f]) = Len(rows[f])
    /\ \A f \in Exec : \A q \in 1..Len(rows[f]) :
        \/ rows'[f][q] = rows[f][q]
        \/ rows[f][q].state = "released" /\ rows'[f][q].state = "consumed"

\* A reserve or a sync that inserts appends one row with the nonce it answers with.
LEMMA RowsInserted ==
    ASSUME TypeOK, NEW e \in Exec, NEW n \in Nat, ReserveInserted(e, n) \/ SyncInserted(e, n)
    PROVE  Inserts(e, n)
<1>0. rows \in Table /\ {"consumed"} \subseteq NonceState
  BY DEF TypeOK, Table, NonceState, Resolutions
<1>1. CASE rows' = Insert(rows, e, n)
  BY <1>0, <1>1, InsertLemma DEF Inserts
<1>2. ASSUME NEW s \in Slots, At(s).state = "released",
             rows' = Insert(SetState(rows, {s}, "consumed"), e, n)
      PROVE  Inserts(e, n)
  <2> DEFINE S == {s}
             mid == SetState(rows, S, "consumed")
  <2>0. rows' = Insert(mid, e, n)
    BY <1>2
  <2> HIDE DEF S
  <2>1. /\ mid \in Table
        /\ \A f \in Exec :
            /\ Len(mid[f]) = Len(rows[f])
            /\ \A q \in 1..Len(rows[f]) :
                mid[f][q] = IF <<f, q>> \in S
                            THEN [nonce |-> rows[f][q].nonce, state |-> "consumed", age |-> 0]
                            ELSE rows[f][q]
    BY <1>0, SetStateLemma
  <2> HIDE DEF mid
  <2>2. ASSUME NEW f \in Exec, NEW q \in 1..Len(rows[f])
        PROVE  \/ mid[f][q] = rows[f][q]
               \/ rows[f][q].state = "released" /\ mid[f][q].state = "consumed"
    <3>1. CASE <<f, q>> = s
      <4>1. rows[f][q].state = "released"
        BY <1>2, <3>1 DEF At
      <4>2. mid[f][q] = [nonce |-> rows[f][q].nonce, state |-> "consumed", age |-> 0]
        BY <2>1, <3>1 DEF S
      <4>3. QED
        BY <4>1, <4>2
    <3>2. CASE <<f, q>> # s
      BY <2>1, <3>2 DEF S
    <3>3. QED
      BY <3>1, <3>2
  <2>3. /\ \A f \in Exec : f # e => rows'[f] = mid[f]
        /\ Len(rows'[e]) = Len(mid[e]) + 1
        /\ \A r \in 1..Len(mid[e]) : rows'[e][r] = mid[e][r]
        /\ rows'[e][Len(mid[e]) + 1] = [nonce |-> n, state |-> "reserved", age |-> 0]
    BY <2>0, <2>1, InsertLemma
  <2>4. ASSUME NEW f \in Exec, NEW q \in 1..Len(rows[f])
        PROVE  rows'[f][q] = mid[f][q]
    BY <2>1, <2>3
  <2>5. ASSUME NEW f \in Exec, NEW q \in 1..Len(rows[f])
        PROVE  \/ rows'[f][q] = rows[f][q]
               \/ rows[f][q].state = "released" /\ rows'[f][q].state = "consumed"
    BY <2>2, <2>4
  <2>6. QED
    BY <2>1, <2>3, <2>5 DEF Inserts
<1>3. QED
  BY <1>1, <1>2 DEF ReserveInserted, SyncInserted, TargetRelease, Released

LenKept == \A f \in Exec : Len(rows'[f]) = Len(rows[f])

\* Only reserve and sync add a row to the table.
LEMMA WhoInserts ==
    ASSUME TypeOK, [Next]_vars
    PROVE  \/ LenKept
           \/ \E e \in Exec, n \in 0..MaxNonce : pc[e] = "reserve" /\ ReserveInserted(e, n)
           \/ \E e \in Exec : pc[e] = "sync" /\ SyncInserted(e, ctx[e].onChain)
<1>0. rows \in Table /\ Resolutions \subseteq NonceState
  BY DEF TypeOK, Table, NonceState
<1>1. ASSUME UNCHANGED rows
      PROVE  LenKept
  BY <1>1 DEF LenKept
<1>2. ASSUME NEW S, NEW new \in Resolutions, rows' = SetState(rows, S, new)
      PROVE  LenKept
  BY <1>0, <1>2, SetStateLemma DEF LenKept
<1>3. ASSUME NEW e \in Exec, NonceReserve(e)
      PROVE  \/ LenKept
             \/ \E n \in 0..MaxNonce : pc[e] = "reserve" /\ ReserveInserted(e, n)
  <2>1. ReserveHeld(e) => LenKept
    BY <1>1, <1>2 DEF ReserveHeld, Resolutions
  <2>2. \/ \E n \in 0..MaxNonce : ReserveInserted(e, n)
        \/ ReserveHeld(e)
        \/ UNCHANGED rows
    BY <1>3 DEF NonceReserve, ReserveReread, ReserveConflict, ReserveGone, RereadFailed
  <2>3. QED
    BY <1>1, <1>3, <2>1, <2>2 DEF NonceReserve
<1>4. ASSUME NEW e \in Exec, NonceSync(e)
      PROVE  LenKept \/ (pc[e] = "sync" /\ SyncInserted(e, ctx[e].onChain))
  <2>1. SyncInserted(e, ctx[e].onChain) \/ UNCHANGED rows
    BY <1>4 DEF NonceSync, SyncReread, SyncHeld, SyncConflict, SyncRejected, RereadFailed
  <2>2. QED
    BY <1>1, <1>4, <2>1 DEF NonceSync
<1>5. ASSUME NEW e \in Exec, ResolveNonce(e)
      PROVE  LenKept
  <2>1. Requested(pc[e]) \in Resolutions
    BY <1>5 DEF ResolveNonce, Requested, Resolutions
  <2>2. ResolveUpdated(e, Requested(pc[e])) \/ UNCHANGED rows
    BY <1>5 DEF ResolveNonce, ResolveAgreed, ResolveMissed, ResolveRefused, RereadFailed
  <2>3. QED
    BY <1>1, <1>2, <2>1, <2>2 DEF ResolveUpdated
<1>6. ASSUME NEW e \in Exec, Run(e), ~NonceReserve(e), ~NonceSync(e), ~ResolveNonce(e)
      PROVE  UNCHANGED rows
  BY <1>6
  DEF Run, RelayHost, Sign, Resign, SignCall, AcquireEndpoint, RevertSign, ValidationOpened,
      Broadcast, BroadcastNotInserted, BroadcastSent, BroadcastRefused, BroadcastMismatch,
      FetchNonce, Poll, PollTimedOut, PollReverted, PollIncluded, PollRpcError, PollAgain, vars
<1>7. ASSUME SweeperBot \/ TimePasses \/ Crash \/ Quiet \/ UNCHANGED vars
      PROVE  LenKept
  <2>1. UNCHANGED rows \/ rows' = SetState(rows, sweep.targets, "released") \/ rows' = Aged(rows)
    BY <1>7
    DEF SweeperBot, SweepScan, SweepLock, SweepCommit, SweepFailed, TimePasses, Tick, Crash,
        Restart, Quiet, vars
  <2>2. QED
    BY <1>0, <1>1, <1>2, <2>1, AgedLemma DEF LenKept, Resolutions
<1>8. ASSUME NEW e \in Exec, Submit(e) \/ Reject(e) \/ Refuse(e)
      PROVE  UNCHANGED rows
  BY <1>8 DEF Submit, Reject, Refuse
<1>9. ASSUME NEW a \in Account, ChainStep(a)
      PROVE  UNCHANGED rows
  BY <1>9 DEF ChainStep
<1>10. ASSUME NEW e \in Exec, Run(e)
       PROVE  \/ LenKept
              \/ \E n \in 0..MaxNonce : pc[e] = "reserve" /\ ReserveInserted(e, n)
              \/ pc[e] = "sync" /\ SyncInserted(e, ctx[e].onChain)
  BY <1>1, <1>3, <1>4, <1>5, <1>6, <1>10
<1>11. QED
  BY <1>1, <1>7, <1>8, <1>9, <1>10 DEF Next

\* The nonce was used on the chain, or is or was assigned.
Covered(a, m) == m < ChainNonce(a) \/ Assigned(a, m)

\* The stages in which run_pipeline has a nonce that it may still broadcast.
NonceInHand == {"sign", "endpoint", "broadcast", "fetch_nonce", "resign"}

\* Besides the rows: what is pending was assigned, as is what will be broadcast, and no
\* nonce below the one the chain reported to a recovery is missing.
SkipInv ==
    /\ \A e \in Exec : \A r \in 1..Len(rows[e]) : \A m \in 0..(rows[e][r].nonce - 1) :
        Covered(AccountOf[e], m)
    /\ \A a \in Account : \A t \in pool[a] : Assigned(a, t[2])
    /\ \A e \in Exec : pc[e] \in NonceInHand => Assigned(AccountOf[e], ctx[e].nonce)
    /\ \A e \in Exec : \A m \in 0..(ctx[e].onChain - 1) : Covered(AccountOf[e], m)

\* A row of the table is an assignment.
LEMMA RowAssigned ==
    ASSUME TypeOK, NEW e \in Exec, NEW r \in 1..Len(rows[e])
    PROVE  Assigned(AccountOf[e], rows[e][r].nonce)
<1>1. r \in 1..MaxRevision /\ r <= Len(rows[e])
  BY ConstantsAssumption DEF TypeOK
<1>2. <<e, r>> \in Slots /\ At(<<e, r>>) = rows[e][r]
  BY <1>1 DEF Slots, At
<1>3. QED
  BY <1>2 DEF Assigned

\* The nonce of a row is assigned, in the state after a step.
LEMMA RowAssignedNext ==
    ASSUME TypeOK', NEW e \in Exec, NEW r \in 1..Len(rows'[e]), NEW n, n = rows'[e][r].nonce
    PROVE  Assigned(AccountOf[e], n)'
<1>1. r \in 1..MaxRevision /\ r <= Len(rows'[e])
  BY ConstantsAssumption DEF TypeOK
<1>2. <<e, r>> \in Slots' /\ At(<<e, r>>)' = rows'[e][r]
  BY <1>1 DEF Slots, At
<1>3. QED
  BY <1>2 DEF Assigned

\* An assigned nonce stays assigned: revisions are only appended.
LEMMA AssignedKept ==
    ASSUME TypeOK, [NonceNext]_nonceVars, NEW a, NEW m, Assigned(a, m)
    PROVE  Assigned(a, m)'
<1>1. CASE NonceNext
  BY <1>1, StepShape, AssignedStays
<1>2. CASE UNCHANGED nonceVars
  BY <1>2 DEF Assigned, Slots, At
<1>3. QED
  BY <1>1, <1>2

\* Every nonce below the one that reserve picks is covered.
LEMMA ReservedCovered ==
    ASSUME TypeOK, SkipInv, NEW e \in Exec, NEW n \in Nat, ReserveInserted(e, n),
           NEW m \in 0..(n - 1)
    PROVE  Covered(AccountOf[e], m)
<1>1. CASE IsNextSequential(AccountOf[e], n)
  <2>1. Held(AccountOf[e], n - 1)
    BY <1>1 DEF IsNextSequential
  <2>2. PICK f \in Exec : /\ AccountOf[f] = AccountOf[e]
                          /\ \E q \in 1..Len(rows[f]) : rows[f][q].nonce = n - 1
    BY <2>1 DEF Held
  <2>3. PICK q \in 1..Len(rows[f]) : rows[f][q].nonce = n - 1
    BY <2>2
  <2>4. CASE m = n - 1
    <3>1. Assigned(AccountOf[f], rows[f][q].nonce)
      BY <2>3, RowAssigned
    <3>2. QED
      BY <2>2, <2>3, <2>4, <3>1 DEF Covered
  <2>5. CASE m # n - 1
    <3>1. m \in 0..((n - 1) - 1)
      BY <2>5
    <3>2. m \in 0..(rows[f][q].nonce - 1)
      BY <2>3, <3>1
    <3>3. QED
      BY <2>2, <2>3, <3>2 DEF SkipInv
  <2>6. QED
    BY <2>4, <2>5
<1>2. ASSUME NEW s \in Slots, AccountOf[s[1]] = AccountOf[e], n = At(s).nonce
      PROVE  Covered(AccountOf[e], m)
  <2>1. PICK f \in Exec, q \in 1..MaxRevision : s = <<f, q>> /\ q <= Len(rows[f])
    BY <1>2 DEF Slots
  <2>2. q \in 1..Len(rows[f])
    BY <2>1, ConstantsAssumption DEF TypeOK
  <2>3. AccountOf[f] = AccountOf[e] /\ n = rows[f][q].nonce
    BY <1>2, <2>1 DEF At
  <2>4. QED
    BY <2>2, <2>3 DEF SkipInv
<1>3. QED
  BY <1>1, <1>2 DEF ReserveInserted, TargetRelease, Released

\* nonce_assignments has a row of e with the nonce n, in whatever state.
OnRecord(e, n) == \E r \in 1..Len(rows[e]) : rows[e][r].nonce = n

\* What is on record stays on record: no row is deleted or given another nonce.
LEMMA RecordKept ==
    ASSUME TypeOK, TypeOK', [NonceNext]_nonceVars, NEW e \in Exec, NEW n, OnRecord(e, n)
    PROVE  OnRecord(e, n)'
<1>1. PICK r \in 1..Len(rows[e]) : rows[e][r].nonce = n
  BY DEF OnRecord
<1>2. Len(rows[e]) \in Nat /\ Len(rows'[e]) \in Nat
  BY DEF TypeOK
<1>3. CASE NonceNext
  <2>1. Len(rows[e]) <= Len(rows'[e]) /\ rows'[e][r].nonce = rows[e][r].nonce
    BY <1>3, StepShape, OldRow
  <2>2. r \in 1..Len(rows'[e])
    BY <1>2, <2>1
  <2>3. QED
    BY <1>1, <2>1, <2>2 DEF OnRecord
<1>4. CASE UNCHANGED nonceVars
  BY <1>4 DEF OnRecord
<1>5. QED
  BY <1>3, <1>4

\* When a task is given a nonce, its own execution has a row with that nonce: the one the
\* statement has just inserted, or the one the second query has found.
LEMMA GrantRecorded ==
    ASSUME TypeOK, TaskOK, [NonceNext]_nonceVars, TypeOK', NEW e \in Exec, Run(e),
           pc[e] \in {"reserve", "sync"}, pc'[e] \in {"sign", "resign"}
    PROVE  OnRecord(e, ctx[e].nonce)'
<1>0. /\ pc[e] = "reserve" => NonceReserve(e)
      /\ pc[e] = "sync" => NonceSync(e)
  BY StageOf
<1>1. ctx[e].onChain \in Nat
  BY ConstantsAssumption DEF TaskOK, Locals
<1>2. /\ ~Again(e, "reserve") /\ ~Fails(e, "nonce_reserve")
      /\ ~Again(e, "sync") /\ ~Fails(e, "nonce_sync")
      /\ ~UNCHANGED taskVars
  BY DEF Again, Fails, taskVars
<1>3. \E n \in Nat : /\ \/ ReserveInserted(e, n) \/ SyncInserted(e, n)
                        \/ ReserveReread(e, n) \/ SyncReread(e, n)
                     /\ ctx'[e].nonce = n
  <2>1. CASE pc[e] = "reserve"
    <3>1. PICK n \in 0..MaxNonce : /\ ReserveInserted(e, n) \/ ReserveReread(e, n)
                                   /\ NonceGranted(e, n, "sign")
      BY <1>0, <1>2, <2>1, RetriedOrFailed DEF NonceReserve
    <3>2. n \in Nat /\ Grants(e, n, "sign")
      BY <3>1, Granted, ConstantsAssumption
    <3>3. QED
      BY <3>1, <3>2 DEF Grants
  <2>2. CASE pc[e] = "sync"
    <3>1. PICK n \in Nat : /\ SyncInserted(e, n) \/ SyncReread(e, n)
                           /\ NonceGranted(e, n, "resign")
      BY <1>0, <1>1, <1>2, <2>2, RetriedOrFailed, ConstantsAssumption DEF NonceSync
    <3>2. Grants(e, n, "resign")
      BY <3>1, Granted
    <3>3. QED
      BY <3>1, <3>2 DEF Grants
  <2>3. QED
    BY <2>1, <2>2
<1>4. PICK n \in Nat : /\ \/ ReserveInserted(e, n) \/ SyncInserted(e, n)
                          \/ ReserveReread(e, n) \/ SyncReread(e, n)
                       /\ ctx'[e].nonce = n
  BY <1>3
<1>5. CASE ReserveInserted(e, n) \/ SyncInserted(e, n)
  <2>1. Inserts(e, n)
    BY <1>5, RowsInserted
  <2>2. Len(rows[e]) \in Nat
    BY DEF TypeOK
  <2>3. Len(rows[e]) + 1 \in 1..Len(rows'[e]) /\ rows'[e][Len(rows[e]) + 1].nonce = n
    BY <2>1, <2>2 DEF Inserts
  <2>4. QED
    BY <1>4, <2>3 DEF OnRecord
<1>6. CASE ReserveReread(e, n) \/ SyncReread(e, n)
  <2>1. PICK r \in 1..Len(rows[e]) : n = rows[e][r].nonce
    BY <1>6 DEF ReserveReread, SyncReread
  <2>2. OnRecord(e, n)'
    BY <2>1, RecordKept DEF OnRecord
  <2>3. QED
    BY <1>4, <2>2 DEF OnRecord
<1>7. QED
  BY <1>4, <1>5, <1>6

\* When a task is given a nonce, that nonce has been assigned.
LEMMA GrantAssigned ==
    ASSUME TypeOK, TaskOK, [NonceNext]_nonceVars, TypeOK', NEW e \in Exec, Run(e),
           pc[e] \in {"reserve", "sync"}, pc'[e] \in {"sign", "resign"}
    PROVE  Assigned(AccountOf[e], ctx[e].nonce)'
<1>1. PICK n : n = ctx'[e].nonce
  OBVIOUS
<1>2. PICK r \in 1..Len(rows'[e]) : rows'[e][r].nonce = n
  BY <1>1, GrantRecorded DEF OnRecord
<1>3. Assigned(AccountOf[e], n)'
  BY <1>2, RowAssignedNext
<1>4. QED
  BY <1>1, <1>3 DEF Assigned

\* A step in which a task comes to hold a nonce, or keeps the one it holds.
LEMMA NonceHeld ==
    ASSUME TaskOK, [Next]_vars, NEW e \in Exec, pc'[e] \in NonceInHand
    PROVE  \/ pc[e] \in NonceInHand /\ ctx'[e].nonce = ctx[e].nonce
           \/ Run(e) /\ pc[e] \in {"reserve", "sync"} /\ pc'[e] \in {"sign", "resign"}
<1>1. CASE Run(e)
  BY <1>1, RunMoves
  DEF RunTable, AfterResolved, Moves, Again, Fails, Releases, Grants, Asks, Recovers,
      SameLocals, taskVars, NonceInHand
<1>2. ASSUME NEW f \in Exec, Run(f), f # e
      PROVE  pc[e] \in NonceInHand /\ ctx'[e].nonce = ctx[e].nonce
  BY <1>2, RunMoves DEF Elsewhere
<1>3. CASE ~\E f \in Exec : Run(f)
  BY <1>3, OtherMoves DEF Moves, NonceInHand, InFlight, Stages
<1>4. QED
  BY <1>1, <1>2, <1>3

\* Every step keeps that nonces between the chain's and an assigned one are accounted for.
LEMMA SkipStep ==
    ASSUME TypeOK, TypeOK', TaskOK, TablesOK, ChainOK, SkipInv, [Next]_vars
    PROVE  SkipInv'
<1>0. [NonceNext]_nonceVars
  BY NonceSimulation
<1>1. ASSUME NEW a \in Account, NEW m \in Nat, Covered(a, m)
      PROVE  Covered(a, m)'
  <2>1. Len(mined[a]) \in Nat /\ Len(mined'[a]) \in Nat /\ Len(mined[a]) <= Len(mined'[a])
    <3>1. ChainOK' /\ Len(mined[a]) <= Len(mined'[a])
      BY ChainKept
    <3>2. mined[a] \in Blocks /\ mined'[a] \in Blocks
      BY <3>1 DEF ChainOK
    <3>3. QED
      BY <3>1, <3>2 DEF Blocks
  <2>2. Assigned(a, m) => Assigned(a, m)'
    BY <1>0, AssignedKept
  <2>3. QED
    BY <1>1, <2>1, <2>2 DEF Covered, ChainNonce
<1>2. ASSUME NEW e \in Exec
      PROVE  /\ AccountOf[e] \in Account
             /\ Len(rows[e]) \in Nat /\ Len(rows'[e]) \in Nat
             /\ \A r \in 1..Len(rows[e]) : rows[e][r].nonce \in Nat
             /\ ctx[e].onChain \in Nat
  <2>1. rows[e] \in Seq(Assignment) /\ rows'[e] \in Seq(Assignment)
    BY DEF TypeOK
  <2>2. ASSUME NEW r \in 1..Len(rows[e])
        PROVE  rows[e][r].nonce \in Nat
    <3>1. rows[e][r] \in Assignment
      BY <2>1
    <3>2. QED
      BY <3>1 DEF Assignment
  <2>3. AccountOf[e] \in Account /\ ctx[e].onChain \in Nat
    BY AccountsAssumption, ConstantsAssumption DEF TaskOK, Locals
  <2>4. QED
    BY <2>1, <2>2, <2>3
<1>3. ASSUME NEW e \in Exec, NEW r \in 1..Len(rows'[e]), NEW m \in 0..(rows'[e][r].nonce - 1)
      PROVE  Covered(AccountOf[e], m)'
  <2>1. CASE r \in 1..Len(rows[e])
    <3>1. rows'[e][r].nonce = rows[e][r].nonce
      <4>1. CASE NonceNext
        BY <2>1, <4>1, StepShape, OldRow
      <4>2. CASE UNCHANGED nonceVars
        BY <4>2
      <4>3. QED
        BY <1>0, <4>1, <4>2
    <3>2. m \in Nat /\ Covered(AccountOf[e], m)
      BY <1>2, <1>3, <2>1, <3>1 DEF SkipInv
    <3>3. QED
      BY <1>1, <1>2, <3>2
  <2>2. ASSUME NEW f \in Exec, NEW n \in Nat, Inserts(f, n), r \notin 1..Len(rows[e]),
               \A k \in 0..(n - 1) : Covered(AccountOf[f], k)
        PROVE  Covered(AccountOf[e], m)'
    <3>1. f = e /\ r = Len(rows[e]) + 1
      BY <1>2, <1>3, <2>2 DEF Inserts
    <3>2. rows'[e][r].nonce = n
      BY <2>2, <3>1 DEF Inserts
    <3>3. m \in Nat /\ Covered(AccountOf[e], m)
      BY <1>3, <2>2, <3>1, <3>2
    <3>4. QED
      BY <1>1, <1>2, <3>3
  <2>3. CASE LenKept
    BY <1>3, <2>1, <2>3 DEF LenKept
  <2>4. ASSUME NEW f \in Exec, NEW n \in 0..MaxNonce, ReserveInserted(f, n)
        PROVE  Covered(AccountOf[e], m)'
    <3>1. n \in Nat
      BY ConstantsAssumption
    <3>2. Inserts(f, n) /\ \A k \in 0..(n - 1) : Covered(AccountOf[f], k)
      BY <2>4, <3>1, RowsInserted, ReservedCovered
    <3>3. QED
      BY <2>1, <2>2, <3>1, <3>2
  <2>5. ASSUME NEW f \in Exec, SyncInserted(f, ctx[f].onChain)
        PROVE  Covered(AccountOf[e], m)'
    <3>1. ctx[f].onChain \in Nat
      BY <1>2
    <3>2. /\ Inserts(f, ctx[f].onChain)
          /\ \A k \in 0..(ctx[f].onChain - 1) : Covered(AccountOf[f], k)
      BY <2>5, <3>1, RowsInserted DEF SkipInv
    <3>3. QED
      BY <2>1, <2>2, <3>1, <3>2
  <2>6. QED
    BY <2>3, <2>4, <2>5, WhoInserts
<1>4. ASSUME NEW a \in Account, NEW t \in pool'[a]
      PROVE  Assigned(a, t[2])'
  <2>1. CASE t \in pool[a]
    BY <1>0, <2>1, AssignedKept DEF SkipInv
  <2>2. CASE t \notin pool[a]
    <3>1. PICK e \in Exec : BroadcastSent(e)
      <4>1. pool' # pool
        BY <1>4, <2>2
      <4>2. ~\E b \in Account : ChainStep(b)
        BY <1>4, <2>2, ChainStepKept
      <4>3. \E f \in Exec : Run(f)
        BY <4>1, <4>2
        DEF Next, Submit, Reject, Refuse, SweeperBot, TimePasses, Crash, Quiet, vars, chainVars
      <4>4. QED
        BY <4>1, <4>3, SendsElsewhere
    <3>2. ctx[e].nonce \in 0..MaxNonce /\ pc[e] \in NonceInHand
      BY <3>1 DEF TaskOK, Locals, BroadcastSent, NonceInHand
    <3>3. Admit(e, ctx[e].nonce)
      BY <3>1 DEF BroadcastSent
    <3>4. a = AccountOf[e] /\ t = <<e, ctx[e].nonce>>
      BY <1>4, <2>2, <3>2, <3>3, AdmitLemma
    <3>5. Assigned(a, ctx[e].nonce)
      BY <3>2, <3>4 DEF SkipInv
    <3>6. QED
      BY <1>0, <3>4, <3>5, AssignedKept
  <2>3. QED
    BY <2>1, <2>2
<1>5. ASSUME NEW e \in Exec, pc'[e] \in NonceInHand
      PROVE  Assigned(AccountOf[e], ctx[e].nonce)'
  <2>1. ASSUME pc[e] \in NonceInHand, ctx'[e].nonce = ctx[e].nonce
        PROVE  Assigned(AccountOf[e], ctx[e].nonce)'
    <3>1. Assigned(AccountOf[e], ctx[e].nonce)
      BY <2>1 DEF SkipInv
    <3>2. PICK n : n = ctx[e].nonce
      OBVIOUS
    <3>3. Assigned(AccountOf[e], n)'
      BY <1>0, <3>1, <3>2, AssignedKept
    <3>4. QED
      BY <2>1, <3>2, <3>3 DEF Assigned
  <2>2. QED
    BY <1>0, <1>5, <2>1, NonceHeld, GrantAssigned
<1>6. ASSUME NEW e \in Exec, NEW m \in 0..(ctx'[e].onChain - 1)
      PROVE  Covered(AccountOf[e], m)'
  <2>1. ASSUME ctx'[e].onChain = ctx[e].onChain
        PROVE  Covered(AccountOf[e], m)'
    <3>1. m \in Nat /\ Covered(AccountOf[e], m)
      BY <1>2, <1>6, <2>1 DEF SkipInv
    <3>2. QED
      BY <1>1, <1>2, <3>1
  <2>2. ASSUME NEW n \in 0..MaxOnChain, IsPendingCount(AccountOf[e], n), ctx'[e].onChain = n
        PROVE  Covered(AccountOf[e], m)'
    <3>1. m \in 0..(n - 1) /\ n \in Nat /\ Len(mined[AccountOf[e]]) \in Nat
      BY <1>2, <1>6, <2>2, ConstantsAssumption DEF ChainOK, Blocks
    <3>2. m < ChainNonce(AccountOf[e]) \/ m \in ChainNonce(AccountOf[e])..(n - 1)
      BY <3>1 DEF ChainNonce
    <3>3. m \in PendingNonces(AccountOf[e]) => Assigned(AccountOf[e], m)
      BY <1>2 DEF PendingNonces, SkipInv
    <3>4. m \in Nat /\ Covered(AccountOf[e], m)
      BY <2>2, <3>1, <3>2, <3>3 DEF IsPendingCount, Covered
    <3>5. QED
      BY <1>1, <1>2, <3>4
  <2>3. ASSUME Run(e)
        PROVE  \/ ctx'[e].onChain = ctx[e].onChain
               \/ ctx'[e].onChain = 0
               \/ \E n \in 0..MaxOnChain : IsPendingCount(AccountOf[e], n) /\ ctx'[e].onChain = n
    BY <2>3, RunMoves
    DEF RunTable, AfterResolved, Moves, Again, Fails, Releases, Grants, Asks, Recovers,
        SameLocals, taskVars
  <2>4. ASSUME NEW f \in Exec, Run(f), f # e
        PROVE  ctx'[e].onChain = ctx[e].onChain
    BY <2>4, RunMoves DEF Elsewhere
  <2>5. ASSUME ~\E f \in Exec : Run(f)
        PROVE  ctx'[e].onChain = ctx[e].onChain
    BY <2>5, OtherMoves DEF Moves
  <2>6. ctx'[e].onChain # 0
    BY <1>6
  <2>7. QED
    BY <2>1, <2>2, <2>3, <2>4, <2>5, <2>6
<1>7. QED
  BY <1>3, <1>4, <1>5, <1>6 DEF SkipInv

\* No nonce is skipped, whatever is lost, retried, swept or killed: one below an assigned
\* nonce has been used on the chain or is or was assigned as well, because reserve
\* continues after the highest active nonce and sync only repeats what the chain, whose
\* pending transactions all came from the table, has counted.
THEOREM NothingSkipped == Spec => []NoNonceSkipped
<1>1. Init => ChainOK
  BY ConstantsAssumption DEF Init, ChainInit, ChainOK, Blocks
<1>2. Init => SkipInv
  BY AccountsAssumption DEF Init, NonceInit, ChainInit, SkipInv, NonceInHand
<1>3. PipelineTypeOK /\ ChainOK /\ [Next]_vars => ChainOK'
  BY ChainKept DEF PipelineTypeOK
<1>4. TypeOK /\ TypeOK' /\ PipelineTypeOK /\ ChainOK /\ SkipInv /\ [Next]_vars => SkipInv'
  BY SkipStep DEF PipelineTypeOK
<1>5. ASSUME TypeOK, SkipInv
      PROVE  NoNonceSkipped
  <2>1. SUFFICES ASSUME NEW s \in Slots, NEW m \in 0..(At(s).nonce - 1)
                 PROVE  Covered(AccountOf[s[1]], m)
    BY DEF NoNonceSkipped, Covered, Assigned
  <2>2. PICK e \in Exec, r \in 1..MaxRevision : s = <<e, r>> /\ r <= Len(rows[e])
    BY DEF Slots
  <2>3. r \in 1..Len(rows[e]) /\ At(s) = rows[e][r]
    BY <1>5, <2>2, ConstantsAssumption DEF TypeOK, At
  <2>4. QED
    BY <1>5, <2>1, <2>2, <2>3 DEF SkipInv
<1>6. Spec => []TypeOK
  BY PipelineImplementsNonceTable, TypeCorrect, PTL
<1>7. QED
  BY <1>1, <1>2, <1>3, <1>4, <1>5, <1>6, PipelineTypeCorrect, PTL DEF Spec

-----------------------------------------------------------------------------
(* What is sent, as long as no RPC call has failed *)

\* Each step counts at most one fault of each kind.
LEMMA FaultKinds ==
    ASSUME [Next]_vars
    PROVE  \/ UNCHANGED faults
           \/ Fault({"db"}) \/ Fault({"rpc"}) \/ Fault({"rpc", "db"}) \/ Fault({"crash"})
<1>1. ASSUME NEW e \in Exec, Broadcast(e)
      PROVE  UNCHANGED faults \/ Fault({"db"}) \/ Fault({"rpc"}) \/ Fault({"rpc", "db"})
  BY <1>1
  DEF Broadcast, BroadcastNotInserted, BroadcastSent, BroadcastRefused, BroadcastMismatch,
      FetchNonce
<1>2. ASSUME NEW e \in Exec, ValidationOpened(e) \/ Poll(e)
      PROVE  UNCHANGED faults \/ Fault({"db"}) \/ Fault({"rpc"}) \/ Fault({"rpc", "db"})
  BY <1>2
  DEF ValidationOpened, Poll, PollTimedOut, PollReverted, PollIncluded, PollRpcError,
      PollAgain, Outcome, vars
<1>3. ASSUME NEW e \in Exec, Run(e)
      PROVE  UNCHANGED faults \/ Fault({"db"}) \/ Fault({"rpc"}) \/ Fault({"rpc", "db"})
  BY <1>1, <1>2, <1>3
  DEF Run, RelayHost, NonceReserve, Sign, Resign, SignCall, AcquireEndpoint, ResolveNonce,
      RevertSign, NonceSync
<1>4. QED
  BY <1>3 DEF Next, Submit, Reject, Refuse, ChainStep, SweeperBot, TimePasses, Crash, Quiet, vars

\* A fault raises the counters of its kinds by one and no other.
LEMMA FaultCounts ==
    ASSUME FaultsOK, NEW kinds, Fault(kinds), NEW k \in {"db", "rpc", "crash"}
    PROVE  faults'[k] = IF k \in kinds THEN faults[k] + 1 ELSE faults[k]
BY DEF FaultsOK, Fault

\* Where there has been no RPC fault there was none before, and there is none now.
LEMMA NoRpcFault ==
    ASSUME FaultsOK, [Next]_vars, faults'["rpc"] = 0
    PROVE  faults["rpc"] = 0 /\ ~Fault({"rpc"}) /\ ~Fault({"rpc", "db"})
<1>1. faults["rpc"] \in Nat
  BY DEF FaultsOK
<1>2. ~Fault({"rpc"}) /\ ~Fault({"rpc", "db"})
  BY <1>1, FaultCounts
<1>3. Fault({"db"}) \/ Fault({"crash"}) => faults["rpc"] = 0
  BY FaultCounts
<1>4. QED
  BY <1>2, <1>3, FaultKinds

\* The nonces with which the payload of e is on the chain or pending, plus one.
Txs(e) == MinedOf(e) \cup {t[2] + 1 : t \in {u \in pool[AccountOf[e]] : u[1] = e}}

\* Nothing has been sent at the start.
LEMMA NothingSent ==
    ASSUME Init, NEW e \in Exec
    PROVE  Txs(e) = {}
<1>1. mined[AccountOf[e]] = <<>> /\ pool[AccountOf[e]] = {}
  BY AccountsAssumption DEF Init, ChainInit
<1>2. QED
  BY <1>1 DEF Txs, MinedOf

\* The chain mines what is pending and drops it: it adds nothing to what was sent.
LEMMA TxsMined ==
    ASSUME ChainOK, NEW a \in Account, ChainStep(a), NEW e \in Exec
    PROVE  Txs(e)' \subseteq Txs(e)
<1> DEFINE b == AccountOf[e]
<1>0. b \in Account /\ Len(mined[b]) \in Nat
  BY AccountsAssumption DEF ChainOK, Blocks
<1>1. pool'[b] \subseteq pool[b]
  BY <1>0, ChainStepKept
<1>2. ASSUME NEW t \in pool'[b], t[1] = e
      PROVE  t[2] + 1 \in Txs(e)
  BY <1>1, <1>2 DEF Txs
<1>3. ASSUME NEW n \in 1..Len(mined'[b]), mined'[b][n].exec = e
      PROVE  n \in Txs(e)
  <2>1. CASE n \in 1..Len(mined[b])
    <3>1. mined'[b][n] = mined[b][n]
      BY <1>0, <2>1, ChainStepKept
    <3>2. QED
      BY <1>3, <2>1, <3>1 DEF Txs, MinedOf
  <2>2. CASE n \notin 1..Len(mined[b])
    <3>1. ASSUME NEW by \in Exec \cup {Other}, NEW ok \in BOOLEAN, Use(a, by, ok)
          PROVE  a = b /\ n = Len(mined[b]) + 1 /\ by = e
      <4>1. Used(a, by, ok)
        BY <3>1, UseLemma
      <4>2. a = b
        BY <1>0, <1>3, <2>2, <4>1 DEF Used
      <4>3. n = Len(mined[b]) + 1
        BY <1>0, <1>3, <2>2, <4>1, <4>2 DEF Used
      <4>4. mined'[b][n] = [exec |-> by, ok |-> ok]
        BY <4>1, <4>2, <4>3 DEF Used
      <4>5. QED
        BY <1>3, <4>2, <4>3, <4>4
    <3>2. CASE Mine(a)
      <4>1. PICK t \in pool[a], ok \in BOOLEAN : t[2] = Len(mined[a]) /\ Use(a, t[1], ok)
        BY <3>2 DEF Mine, ChainNonce
      <4>2. t[1] \in Exec \cup {Other}
        BY DEF ChainOK
      <4>3. a = b /\ n = Len(mined[b]) + 1 /\ t[1] = e
        BY <3>1, <4>1, <4>2
      <4>4. QED
        BY <4>1, <4>3 DEF Txs
    <3>3. CASE OtherWallet(a)
      BY <3>1, <3>3, ChainAssumption DEF OtherWallet
    <3>4. CASE Evict(a)
      BY <1>3, <2>2, <3>4 DEF Evict
    <3>5. QED
      BY <3>2, <3>3, <3>4 DEF ChainStep
  <2>3. QED
    BY <2>1, <2>2
<1>4. QED
  BY <1>2, <1>3 DEF Txs, MinedOf

\* An endpoint that takes <<e, n>> adds it to what was sent of e, and nothing else.
LEMMA TxsAdmitted ==
    ASSUME ChainOK, NEW e \in Exec, NEW n \in 0..MaxNonce, Admit(e, n), NEW f \in Exec
    PROVE  Txs(f)' \subseteq Txs(f) \cup (IF f = e THEN {n + 1} ELSE {})
<1>1. mined' = mined /\ AccountOf[f] \in Account
  BY AdmitLemma, AccountsAssumption
<1>2. ASSUME NEW t \in pool'[AccountOf[f]]
      PROVE  t \in pool[AccountOf[f]] \/ t = <<e, n>>
  BY <1>1, <1>2, AdmitLemma
<1>3. ASSUME NEW t \in pool'[AccountOf[f]], t[1] = f
      PROVE  t[2] + 1 \in Txs(f) \cup (IF f = e THEN {n + 1} ELSE {})
  BY <1>2, <1>3 DEF Txs
<1>4. QED
  BY <1>1, <1>3 DEF Txs, MinedOf

\* What has been sent only grows by what the broadcast stage of its execution sends.
LEMMA TxsGrow ==
    ASSUME TaskOK, TablesOK, ChainOK, [Next]_vars, NEW e \in Exec
    PROVE  \/ Txs(e)' \subseteq Txs(e)
           \/ BroadcastSent(e) /\ Txs(e)' \subseteq Txs(e) \cup {ctx[e].nonce + 1}
<1>1. ASSUME UNCHANGED chainVars
      PROVE  Txs(e)' \subseteq Txs(e)
  BY <1>1 DEF chainVars, Txs, MinedOf
<1>2. ASSUME NEW f \in Exec, Run(f)
      PROVE  \/ Txs(e)' \subseteq Txs(e)
             \/ BroadcastSent(e) /\ Txs(e)' \subseteq Txs(e) \cup {ctx[e].nonce + 1}
  <2>1. CASE BroadcastSent(f)
    <3>1. ctx[f].nonce \in 0..MaxNonce /\ Admit(f, ctx[f].nonce)
      BY <2>1 DEF TaskOK, Locals, BroadcastSent
    <3>2. Txs(e)' \subseteq Txs(e) \cup (IF e = f THEN {ctx[f].nonce + 1} ELSE {})
      BY <3>1, TxsAdmitted
    <3>3. QED
      BY <2>1, <3>2
  <2>2. CASE ~BroadcastSent(f)
    BY <1>1, <1>2, <2>2, SendsElsewhere DEF chainVars
  <2>3. QED
    BY <2>1, <2>2
<1>3. ASSUME NEW a \in Account, ChainStep(a)
      PROVE  Txs(e)' \subseteq Txs(e)
  BY <1>3, TxsMined
<1>4. ASSUME NEW f \in Exec, Submit(f) \/ Reject(f) \/ Refuse(f)
      PROVE  UNCHANGED chainVars
  BY <1>4 DEF Submit, Reject, Refuse
<1>5. ASSUME SweeperBot \/ TimePasses \/ Crash \/ Quiet \/ UNCHANGED vars
      PROVE  UNCHANGED chainVars
  BY <1>5 DEF SweeperBot, TimePasses, Crash, Quiet, vars
<1>6. QED
  BY <1>1, <1>2, <1>3, <1>4, <1>5 DEF Next

\* Only the task of an execution writes to its row of the broadcast table.
LEMMA SendsKept ==
    ASSUME TablesOK, [Next]_vars, NEW e \in Exec
    PROVE  Run(e) \/ sends'[e] = sends[e]
<1>1. ASSUME NEW f \in Exec, Run(f), f # e
      PROVE  sends'[e] = sends[e]
  BY <1>1, SendsElsewhere
<1>2. CASE ~\E f \in Exec : Run(f)
  BY <1>2
  DEF Next, Submit, Reject, Refuse, ChainStep, SweeperBot, TimePasses, Crash, Quiet, vars,
      stageVars
<1>3. QED
  BY <1>1, <1>2

\* A broadcast that finds an open revision sends nothing and leaves the row open.
LEMMA BroadcastAgain ==
    ASSUME TaskOK, TablesOK, NEW e \in Exec, Run(e), pc[e] = "broadcast", SendOpen(e)
    PROVE  /\ sends'[e] = sends[e]
           /\ Moves(e, "validate", "Broadcasted") \/ Again(e, "broadcast") \/ Fails(e, "broadcast")
<1>1. BroadcastNotInserted(e)
  BY StageOf
  DEF Broadcast, BroadcastSent, BroadcastRefused, BroadcastMismatch, FetchNonce
<1>2. sends' = sends
  BY <1>1 DEF BroadcastNotInserted
<1>3. Advance(e, "validate", "Broadcasted") \/ BroadcastDbError(e)
  BY <1>1 DEF BroadcastNotInserted
<1>4. QED
  BY <1>2, <1>3, Advanced, RetriedOrFailed DEF BroadcastDbError

\* A transaction that an endpoint took, and said so, leaves the row open.
LEMMA SentOpens ==
    ASSUME TaskOK, TablesOK, NEW e \in Exec, BroadcastSent(e),
           ~Fault({"rpc"}), ~Fault({"rpc", "db"})
    PROVE  /\ sends'[e] \in {"received", "submitted"}
           /\ Moves(e, "validate", "Broadcasted") \/ Again(e, "broadcast") \/ Fails(e, "broadcast")
<1>1. sends'[e] \in {"received", "submitted"}
  BY DEF BroadcastSent, SetSend, Update, TablesOK
<1>2. Advance(e, "validate", "Broadcasted") \/ BroadcastDbError(e)
  BY DEF BroadcastSent
<1>3. QED
  BY <1>1, <1>2, Advanced, RetriedOrFailed DEF BroadcastDbError

AfterSend == {"broadcast", "validate", "poll", "finalise", "expire", "release", "done", "lost"}

\* Where a pipeline that has sent its payload can be: its row of the broadcast table stays
\* open, so that no retry sends a second time, and it can only fail after the broadcast.
SentPlace(e) ==
    /\ SendOpen(e)
    /\ pc[e] \in AfterSend
    /\ pc[e] = "release" \/ status[e] = "Failed" => ctx[e].stage \in {"broadcast", "validator"}

SendInv ==
    faults["rpc"] = 0 =>
        \A e \in Exec : /\ Txs(e) # {} => SentPlace(e)
                        /\ \A x, y \in Txs(e) : x = y

\* A pipeline that has sent its payload stays where such a pipeline can be.
LEMMA SentPlaceKept ==
    ASSUME TaskOK, TablesOK, ConfirmInv, [Next]_vars, NEW e \in Exec, SentPlace(e)
    PROVE  SentPlace(e)'
<1>0. status[e] \in Ended => pc[e] = "done"
  BY DEF ConfirmInv
<1>1. CASE Run(e)
  <2>0. pc[e] \in Stages /\ status[e] # "Failed"
    BY <1>0, <1>1, RunMoves DEF Stages, Ended
  <2>1. CASE pc[e] = "broadcast"
    <3>1. /\ sends'[e] = sends[e]
          /\ Moves(e, "validate", "Broadcasted") \/ Again(e, "broadcast") \/ Fails(e, "broadcast")
      BY <1>1, <2>1, BroadcastAgain DEF SentPlace
    <3>2. QED
      BY <2>0, <3>1 DEF SentPlace, SendOpen, AfterSend, Moves, Again, Fails
  <2>2. CASE pc[e] # "broadcast"
    <3>1. pc[e] \in {"validate", "poll", "finalise", "expire", "release"}
      BY <2>0, <2>2 DEF SentPlace, AfterSend, Stages
    <3>2. sends' = sends /\ RunTable(e)
      BY <1>1, <3>1, SendsElsewhere, RunMoves
    <3>3. \/ UNCHANGED taskVars
          \/ pc[e] = "validate" /\ (Moves(e, "poll", status[e]) \/ Fails(e, "validator"))
          \/ /\ pc[e] = "poll"
             /\ \/ Moves(e, "expire", status[e]) \/ Moves(e, "finalise", status[e])
                \/ Releases(e, "validator") \/ Fails(e, "validator")
          \/ AfterResolved(e) \/ Again(e, pc[e])
      BY <3>1, <3>2 DEF RunTable
    <3>4. pc'[e] \in AfterSend
      BY <3>1, <3>3 DEF AfterResolved, Moves, Again, Fails, Releases, taskVars, AfterSend
    <3>5. pc'[e] = "release" \/ status'[e] = "Failed" => ctx'[e].stage \in {"broadcast", "validator"}
      BY <2>0, <3>1, <3>3 DEF SentPlace, AfterResolved, Moves, Again, Fails, Releases, taskVars
    <3>6. QED
      BY <3>2, <3>4, <3>5 DEF SentPlace, SendOpen
  <2>3. QED
    BY <2>1, <2>2
<1>2. ASSUME NEW f \in Exec, Run(f), f # e
      PROVE  SentPlace(e)'
  <2>1. pc'[e] = pc[e] /\ ctx'[e] = ctx[e] /\ status'[e] = status[e] /\ sends'[e] = sends[e]
    BY <1>2, RunMoves, SendsElsewhere DEF Elsewhere
  <2>2. QED
    BY <2>1 DEF SentPlace, SendOpen
<1>3. CASE ~\E f \in Exec : Run(f)
  <2>1. sends'[e] = sends[e] /\ pc[e] # "idle"
    BY <1>3, SendsKept DEF SentPlace, AfterSend
  <2>2. CASE /\ pc'[e] = IF InFlight(e) THEN "lost" ELSE pc[e]
             /\ ctx'[e] = ctx[e]
             /\ status'[e] \in Recovered(e)
    <3>1. status'[e] = "Failed" => status[e] = "Failed"
      BY <2>2 DEF Recovered, Ended
    <3>2. pc'[e] \in AfterSend /\ pc'[e] # "release"
      BY <2>2 DEF InFlight, Stages, SentPlace, AfterSend
    <3>3. QED
      BY <2>1, <2>2, <3>1, <3>2 DEF SentPlace, SendOpen
  <2>3. CASE pc'[e] = pc[e] /\ status'[e] = status[e] /\ ctx'[e].stage = ctx[e].stage
    BY <2>1, <2>3 DEF SentPlace, SendOpen
  <2>4. QED
    BY <1>3, <2>1, <2>2, <2>3, OtherMoves
<1>4. QED
  BY <1>1, <1>2, <1>3

\* SendInv is inductive.
LEMMA SendStep ==
    ASSUME TaskOK, TablesOK, FaultsOK, ChainOK, ConfirmInv, SendInv, [Next]_vars
    PROVE  SendInv'
<1> SUFFICES ASSUME faults'["rpc"] = 0, NEW e \in Exec
             PROVE  /\ Txs(e)' # {} => SentPlace(e)'
                    /\ \A x, y \in Txs(e)' : x = y
  BY DEF SendInv
<1>1. faults["rpc"] = 0 /\ ~Fault({"rpc"}) /\ ~Fault({"rpc", "db"})
  BY NoRpcFault
<1>2. (Txs(e) # {} => SentPlace(e)) /\ \A x, y \in Txs(e) : x = y
  BY <1>1 DEF SendInv
<1>3. CASE Txs(e)' \subseteq Txs(e)
  BY <1>2, <1>3, SentPlaceKept
<1>4. CASE BroadcastSent(e) /\ Txs(e)' \subseteq Txs(e) \cup {ctx[e].nonce + 1}
  <2>1. Txs(e) = {} /\ status[e] # "Failed"
    BY <1>2, <1>4 DEF BroadcastSent, SentPlace, ConfirmInv, Ended
  <2>2. /\ sends'[e] \in {"received", "submitted"}
        /\ Moves(e, "validate", "Broadcasted") \/ Again(e, "broadcast") \/ Fails(e, "broadcast")
    BY <1>1, <1>4, SentOpens
  <2>3. SentPlace(e)'
    BY <2>1, <2>2 DEF SentPlace, SendOpen, AfterSend, Moves, Again, Fails
  <2>4. QED
    BY <1>4, <2>1, <2>3
<1>5. QED
  BY <1>3, <1>4, TxsGrow

\* As long as no RPC call has failed: what has been sent of an execution is one
\* transaction, and its pipeline is past the broadcast.
LEMMA SendInvariant == Spec => [](ChainOK /\ ConfirmInv /\ SendInv)
<1>1. Init => ChainOK
  BY ConstantsAssumption DEF Init, ChainInit, ChainOK, Blocks
<1>2. Init => ConfirmInv
  BY DEF Init, ConfirmInv, Ended
<1>3. Init => SendInv
  BY NothingSent DEF SendInv
<1>4. PipelineTypeOK /\ ChainOK /\ ConfirmInv /\ SendInv /\ [Next]_vars
        => (ChainOK /\ ConfirmInv /\ SendInv)'
  BY ChainKept, ConfirmStep, SendStep DEF PipelineTypeOK
<1>5. QED
  BY <1>1, <1>2, <1>3, <1>4, PipelineTypeCorrect, PTL DEF Spec

\* The hypothesis of the two results below: no call of an endpoint has failed or gone
\* unanswered so far.
AnswersKept == faults["rpc"] = 0

\* A payload is sent at most once, however the broadcast is retried after database errors,
\* re-signed with a new nonce or killed, until an answer of an endpoint is lost: then the
\* row is marked `rejected` although the transaction is pending.
THEOREM SentOnce == Spec => [](AnswersKept => AtMostOnce)
<1>1. ASSUME SendInv, AnswersKept
      PROVE  AtMostOnce
  <2> SUFFICES ASSUME NEW e \in Exec
               PROVE  Cardinality(Txs(e)) <= 1
    BY DEF AtMostOnce, Txs
  <2>1. \A x, y \in Txs(e) : x = y
    BY <1>1 DEF SendInv, AnswersKept
  <2>2. CASE Txs(e) = {}
    BY <2>2, FS_EmptySet
  <2>3. CASE Txs(e) # {}
    <3>1. PICK x : Txs(e) = {x}
      BY <2>1, <2>3
    <3>2. QED
      BY <3>1, FS_Singleton
  <2>4. QED
    BY <2>2, <2>3
<1>2. QED
  BY <1>1, SendInvariant, PTL

\* A pipeline that fails before its broadcast has sent nothing, and nothing of it can
\* reach the chain later, until an answer of an endpoint is lost.
THEOREM EarlyFailureUnsent == Spec => [](AnswersKept => FailedEarlyIsUnsent)
<1>1. ASSUME SendInv, AnswersKept
      PROVE  FailedEarlyIsUnsent
  <2> SUFFICES ASSUME NEW e \in Exec, status[e] = "Failed",
                      ctx[e].stage \notin {"broadcast", "validator"}
               PROVE  MinedOf(e) = {} /\ \A n \in 0..MaxNonce : ~Sent(e, n)
    BY DEF FailedEarlyIsUnsent
  <2>1. Txs(e) = {}
    BY <1>1 DEF SendInv, AnswersKept, SentPlace
  <2>2. QED
    BY <2>1 DEF Txs, Sent
<1>2. QED
  BY <1>1, SendInvariant, PTL

-----------------------------------------------------------------------------
(* What is sent, whatever is lost *)

\* What has been sent of an execution is on record, as is the nonce it may send next.
RecordInv ==
    \A e \in Exec :
        /\ \A n \in 0..MaxNonce : n + 1 \in Txs(e) => OnRecord(e, n)
        /\ pc[e] \in NonceInHand => OnRecord(e, ctx[e].nonce)

\* RecordInv is inductive.
LEMMA RecordStep ==
    ASSUME TypeOK, TypeOK', TaskOK, TablesOK, ChainOK, RecordInv, [Next]_vars
    PROVE  RecordInv'
<1>0. [NonceNext]_nonceVars
  BY NonceSimulation
<1>1. ASSUME NEW e \in Exec, NEW n \in 0..MaxNonce, n + 1 \in Txs(e)'
      PROVE  OnRecord(e, n)'
  <2>1. CASE n + 1 \in Txs(e)
    BY <1>0, <2>1, RecordKept DEF RecordInv
  <2>2. CASE n + 1 \notin Txs(e)
    <3>1. BroadcastSent(e) /\ n + 1 \in Txs(e) \cup {ctx[e].nonce + 1}
      BY <1>1, <2>2, TxsGrow
    <3>2. n = ctx[e].nonce
      <4>1. ctx[e].nonce \in Nat /\ n \in Nat
        BY ConstantsAssumption DEF TaskOK, Locals
      <4>2. QED
        BY <2>2, <3>1, <4>1
    <3>3. pc[e] \in NonceInHand
      BY <3>1 DEF BroadcastSent, NonceInHand
    <3>4. OnRecord(e, n)
      BY <3>2, <3>3 DEF RecordInv
    <3>5. QED
      BY <1>0, <3>4, RecordKept
  <2>3. QED
    BY <2>1, <2>2
<1>2. ASSUME NEW e \in Exec, pc'[e] \in NonceInHand
      PROVE  OnRecord(e, ctx[e].nonce)'
  <2>1. CASE pc[e] \in NonceInHand /\ ctx'[e].nonce = ctx[e].nonce
    <3>1. PICK n : n = ctx[e].nonce
      OBVIOUS
    <3>2. OnRecord(e, n)
      BY <2>1, <3>1 DEF RecordInv
    <3>3. OnRecord(e, n)'
      BY <1>0, <3>2, RecordKept
    <3>4. QED
      BY <2>1, <3>1, <3>3 DEF OnRecord
  <2>2. CASE Run(e) /\ pc[e] \in {"reserve", "sync"} /\ pc'[e] \in {"sign", "resign"}
    BY <1>0, <2>2, GrantRecorded
  <2>3. QED
    BY <1>2, <2>1, <2>2, NonceHeld
<1>3. QED
  BY <1>1, <1>2 DEF RecordInv

\* Whatever is lost, retried, swept or killed, a transaction of an execution that is
\* pending or mined has its nonce in a row of that execution: run_pipeline signs only with
\* an answer of the nonce actor, and no row is deleted or given another nonce.
THEOREM SentIsOnRecord == Spec => []ChainIsOnRecord
<1>1. Init => ChainOK
  BY ConstantsAssumption DEF Init, ChainInit, ChainOK, Blocks
<1>2. Init => RecordInv
  BY NothingSent DEF Init, RecordInv, NonceInHand
<1>3. PipelineTypeOK /\ ChainOK /\ [Next]_vars => ChainOK'
  BY ChainKept DEF PipelineTypeOK
<1>4. TypeOK /\ TypeOK' /\ PipelineTypeOK /\ ChainOK /\ RecordInv /\ [Next]_vars => RecordInv'
  BY RecordStep DEF PipelineTypeOK
<1>5. ASSUME RecordInv
      PROVE  ChainIsOnRecord
  <2> SUFFICES ASSUME NEW e \in Exec, NEW n \in 0..MaxNonce, Sent(e, n) \/ n + 1 \in MinedOf(e)
               PROVE  OnRecord(e, n)
    BY DEF ChainIsOnRecord, OnRecord
  <2>1. n + 1 \in Txs(e)
    BY DEF Txs, Sent
  <2>2. QED
    BY <1>5, <2>1 DEF RecordInv
<1>6. Spec => []TypeOK
  BY PipelineImplementsNonceTable, TypeCorrect, PTL
<1>7. QED
  BY <1>1, <1>2, <1>3, <1>4, <1>5, <1>6, PipelineTypeCorrect, PTL DEF Spec

\* The stages before the first nonce, and those of the recovery before the second one.
BeforeNonce == {"idle", "relay_host", "reserve"}
Recovering == {"consume", "revert_sign", "sync"}

\* Before the first nonce nothing has been sent, before the second one only what was signed
\* with the first, and afterwards only what was signed with either.
TwiceInv ==
    \A e \in Exec :
        /\ pc[e] \in BeforeNonce => Txs(e) = {}
        /\ pc[e] \in Recovering => ctx[e].retried
        /\ ~ctx[e].retried \/ pc[e] \in Recovering => Txs(e) \subseteq {ctx[e].nonce + 1}
        /\ \E m : Txs(e) \subseteq {m, ctx[e].nonce + 1}

\* What a step does to the nonce of a task: it keeps it, gives the first one or, in the
\* recovery, the second one.
NonceChange(e) ==
    \/ /\ ctx'[e].nonce = ctx[e].nonce
       /\ ctx'[e].retried = ctx[e].retried
       /\ pc'[e] \in Recovering => pc[e] \in Recovering
       /\ pc'[e] \in BeforeNonce => pc[e] \in BeforeNonce
    \/ /\ ctx'[e].nonce = ctx[e].nonce
       /\ ~ctx[e].retried /\ ctx'[e].retried
       /\ pc'[e] \notin BeforeNonce
    \/ /\ pc[e] = "reserve" /\ pc'[e] = "sign"
       /\ ctx'[e].retried = ctx[e].retried
    \/ /\ pc[e] = "sync" /\ pc'[e] = "resign"
       /\ ctx'[e].retried = ctx[e].retried

\* Only reserve and the recovery change the nonce that a pipeline signs with.
LEMMA NonceChanges ==
    ASSUME TaskOK, [Next]_vars, NEW e \in Exec
    PROVE  NonceChange(e)
<1>1. CASE Run(e)
  <2>1. RunTable(e)
    BY <1>1, RunMoves
  <2>2. CASE UNCHANGED taskVars
    BY <2>2 DEF taskVars, NonceChange
  <2>3. CASE \E n \in 0..MaxOnChain : pc[e] = "fetch_nonce" /\ Recovers(e, n)
    BY <2>3 DEF Recovers, NonceChange, BeforeNonce
  <2>4. CASE \/ pc[e] = "reserve" /\ \E n \in 0..MaxNonce : Grants(e, n, "sign")
             \/ pc[e] = "sync" /\ \E n \in 0..MaxNonce : Grants(e, n, "resign")
    BY <2>4 DEF Grants, NonceChange
  <2>5. QED
    BY <2>1, <2>2, <2>3, <2>4
    DEF RunTable, AfterResolved, Moves, Again, Fails, Releases, Asks, SameLocals, NonceChange,
        BeforeNonce, Recovering
<1>2. ASSUME NEW f \in Exec, Run(f), f # e
      PROVE  NonceChange(e)
  BY <1>2, RunMoves DEF Elsewhere, NonceChange
<1>3. CASE ~\E f \in Exec : Run(f)
  BY <1>3, OtherMoves DEF Moves, InFlight, Stages, NonceChange, BeforeNonce, Recovering
<1>4. QED
  BY <1>1, <1>2, <1>3

\* TwiceInv is inductive.
LEMMA TwiceStep ==
    ASSUME TaskOK, TablesOK, ChainOK, TwiceInv, [Next]_vars
    PROVE  TwiceInv'
<1> SUFFICES ASSUME NEW e \in Exec
             PROVE  /\ pc'[e] \in BeforeNonce => Txs(e)' = {}
                    /\ pc'[e] \in Recovering => ctx'[e].retried
                    /\ ~ctx'[e].retried \/ pc'[e] \in Recovering =>
                         Txs(e)' \subseteq {ctx'[e].nonce + 1}
                    /\ \E m : Txs(e)' \subseteq {m, ctx'[e].nonce + 1}
  BY DEF TwiceInv
<1>0. /\ pc[e] \in BeforeNonce => Txs(e) = {}
      /\ pc[e] \in Recovering => ctx[e].retried
      /\ ~ctx[e].retried \/ pc[e] \in Recovering => Txs(e) \subseteq {ctx[e].nonce + 1}
      /\ \E m : Txs(e) \subseteq {m, ctx[e].nonce + 1}
  BY DEF TwiceInv
<1>1. Txs(e)' \subseteq Txs(e) \cup {ctx[e].nonce + 1}
  BY TxsGrow
<1>2. pc[e] \in BeforeNonce \cup Recovering => Txs(e)' \subseteq Txs(e)
  BY TxsGrow DEF BroadcastSent, BeforeNonce, Recovering
<1>3. \E m : Txs(e)' \subseteq {m, ctx[e].nonce + 1}
  BY <1>0, <1>1
<1>4. CASE /\ ctx'[e].nonce = ctx[e].nonce
           /\ ctx'[e].retried = ctx[e].retried
           /\ pc'[e] \in Recovering => pc[e] \in Recovering
           /\ pc'[e] \in BeforeNonce => pc[e] \in BeforeNonce
  BY <1>0, <1>1, <1>2, <1>3, <1>4
<1>5. CASE /\ ctx'[e].nonce = ctx[e].nonce
           /\ ~ctx[e].retried /\ ctx'[e].retried
           /\ pc'[e] \notin BeforeNonce
  BY <1>0, <1>1, <1>3, <1>5
<1>6. CASE /\ pc[e] = "reserve" /\ pc'[e] = "sign"
           /\ ctx'[e].retried = ctx[e].retried
  <2>1. Txs(e)' = {}
    BY <1>0, <1>2, <1>6 DEF BeforeNonce
  <2>2. QED
    BY <1>6, <2>1 DEF BeforeNonce, Recovering
<1>7. CASE /\ pc[e] = "sync" /\ pc'[e] = "resign"
           /\ ctx'[e].retried = ctx[e].retried
  <2>1. ctx[e].retried /\ Txs(e)' \subseteq {ctx[e].nonce + 1}
    BY <1>0, <1>2, <1>7 DEF Recovering
  <2>2. \E m : Txs(e)' \subseteq {m, ctx'[e].nonce + 1}
    BY <2>1
  <2>3. QED
    BY <1>7, <2>1, <2>2 DEF BeforeNonce, Recovering
<1>8. QED
  BY <1>4, <1>5, <1>6, <1>7, NonceChanges DEF NonceChange

\* Lost answers, retries, ended leases, the sweeper and crashes together bring a payload
\* onto the chain at most twice, and only once without a recovery: what a pipeline sends is
\* signed with the nonce of its reservation or with that of its one recovery, and a nonce
\* is used once.
THEOREM SentTwiceAtMost == Spec => []AtMostTwice
<1>1. Init => ChainOK
  BY ConstantsAssumption DEF Init, ChainInit, ChainOK, Blocks
<1>2. Init => TwiceInv
  BY NothingSent DEF Init, TwiceInv, Recovering
<1>3. PipelineTypeOK /\ ChainOK /\ [Next]_vars => ChainOK'
  BY ChainKept DEF PipelineTypeOK
<1>4. PipelineTypeOK /\ ChainOK /\ TwiceInv /\ [Next]_vars => TwiceInv'
  BY TwiceStep DEF PipelineTypeOK
<1>5. ASSUME TwiceInv
      PROVE  AtMostTwice
  <2> SUFFICES ASSUME NEW e \in Exec
               PROVE  Cardinality(Txs(e)) <= IF ctx[e].retried THEN 2 ELSE 1
    BY DEF AtMostTwice, Txs
  <2>1. /\ ~ctx[e].retried => Txs(e) \subseteq {ctx[e].nonce + 1}
        /\ \E m : Txs(e) \subseteq {m, ctx[e].nonce + 1}
    BY <1>5 DEF TwiceInv
  <2>2. PICK k : k = ctx[e].nonce + 1
    OBVIOUS
  <2>3. ASSUME NEW S, IsFiniteSet(S), Txs(e) \subseteq S, NEW c \in Nat, Cardinality(S) <= c
        PROVE  Cardinality(Txs(e)) <= c
    <3>1. IsFiniteSet(Txs(e)) /\ Cardinality(Txs(e)) <= Cardinality(S)
      BY <2>3, FS_Subset
    <3>2. Cardinality(Txs(e)) \in Nat /\ Cardinality(S) \in Nat
      BY <2>3, <3>1, FS_CardinalityType
    <3>3. QED
      BY <2>3, <3>1, <3>2
  <2>4. CASE ~ctx[e].retried
    <3>1. IsFiniteSet({k}) /\ Cardinality({k}) = 1
      BY FS_Singleton
    <3>2. Cardinality(Txs(e)) <= 1
      BY <2>1, <2>2, <2>3, <2>4, <3>1
    <3>3. QED
      BY <2>4, <3>2
  <2>5. CASE ctx[e].retried
    <3>1. PICK m : Txs(e) \subseteq {m, ctx[e].nonce + 1}
      BY <2>1
    <3>2. IsFiniteSet({m}) /\ Cardinality({m}) = 1
      BY FS_Singleton
    <3>3. IsFiniteSet({m} \cup {k}) /\ Cardinality({m} \cup {k}) <= 2
      BY <3>2, FS_AddElement
    <3>4. Txs(e) \subseteq {m} \cup {k}
      BY <2>2, <3>1
    <3>5. Cardinality(Txs(e)) <= 2
      BY <2>3, <3>3, <3>4
    <3>6. QED
      BY <2>5, <3>5
  <2>6. QED
    BY <2>4, <2>5
<1>6. QED
  BY <1>1, <1>2, <1>3, <1>4, <1>5, PipelineTypeCorrect, PTL DEF Spec

\* The failure stages of the calls before the first broadcast.
FirstStages == {"relay_host", "nonce_reserve", "sign", "acquire_healthy_endpoint",
                "rpc_semaphore_permit"}

\* Before the first broadcast, and after a failure there, nothing has been sent.
FirstInv ==
    \A e \in Exec :
        /\ pc[e] \in BeforeNonce \cup {"sign", "endpoint"} => Txs(e) = {}
        /\ ctx[e].stage \in FirstStages => Txs(e) = {} /\ pc[e] \in {"release", "done", "lost"}

\* A task is before its first broadcast, or has failed there, only if it was before it.
LEMMA FirstMoves ==
    ASSUME TaskOK, FirstInv, [Next]_vars, NEW e \in Exec
    PROVE  /\ pc'[e] \in BeforeNonce \cup {"sign", "endpoint"} =>
                pc[e] \in BeforeNonce \cup {"sign", "endpoint"}
           /\ ctx'[e].stage \in FirstStages =>
                /\ pc'[e] \in {"release", "done", "lost"}
                /\ ctx[e].stage \in FirstStages \/ pc[e] \in BeforeNonce \cup {"sign", "endpoint"}
<1>0. ctx[e].stage \in FirstStages => pc[e] \in {"release", "done", "lost"}
  BY DEF FirstInv
<1>1. CASE Run(e)
  BY <1>0, <1>1, RunMoves
  DEF RunTable, AfterResolved, Moves, Again, Fails, Releases, Grants, Asks, Recovers,
      taskVars, BeforeNonce, FirstStages
<1>2. ASSUME NEW f \in Exec, Run(f), f # e
      PROVE  pc'[e] = pc[e] /\ ctx'[e] = ctx[e]
  BY <1>2, RunMoves DEF Elsewhere
<1>3. CASE ~\E f \in Exec : Run(f)
  BY <1>0, <1>3, OtherMoves DEF Moves, InFlight, Stages, BeforeNonce
<1>4. QED
  BY <1>0, <1>1, <1>2, <1>3

\* FirstInv is inductive.
LEMMA FirstStep ==
    ASSUME TaskOK, TablesOK, ChainOK, FirstInv, [Next]_vars
    PROVE  FirstInv'
<1> SUFFICES ASSUME NEW e \in Exec
             PROVE  /\ pc'[e] \in BeforeNonce \cup {"sign", "endpoint"} => Txs(e)' = {}
                    /\ ctx'[e].stage \in FirstStages =>
                         Txs(e)' = {} /\ pc'[e] \in {"release", "done", "lost"}
  BY DEF FirstInv
<1>1. ASSUME pc[e] \in BeforeNonce \cup {"sign", "endpoint"} \/ ctx[e].stage \in FirstStages
      PROVE  Txs(e)' = {}
  <2>1. Txs(e) = {} /\ pc[e] # "broadcast"
    BY <1>1 DEF FirstInv, BeforeNonce
  <2>2. QED
    BY <2>1, TxsGrow DEF BroadcastSent
<1>2. QED
  BY <1>1, FirstMoves

\* A client that is told of a failure before the broadcast may submit the payload again:
\* nothing of it is or comes onto the chain, whatever answers were lost.
THEOREM ResubmitWasSafe == Spec => []ResubmitIsSafe
<1>1. Init => ChainOK
  BY ConstantsAssumption DEF Init, ChainInit, ChainOK, Blocks
<1>2. Init => FirstInv
  <2> SUFFICES ASSUME Init, NEW e \in Exec
               PROVE  Txs(e) = {} /\ ctx[e].stage \notin FirstStages
    BY DEF FirstInv
  <2>1. Txs(e) = {}
    BY NothingSent
  <2>2. ctx[e].stage = "none"
    BY DEF Init
  <2>3. QED
    BY <2>1, <2>2 DEF FirstStages
<1>3. PipelineTypeOK /\ ChainOK /\ [Next]_vars => ChainOK'
  BY ChainKept DEF PipelineTypeOK
<1>4. PipelineTypeOK /\ ChainOK /\ FirstInv /\ [Next]_vars => FirstInv'
  BY FirstStep DEF PipelineTypeOK
<1>5. ASSUME FirstInv
      PROVE  ResubmitIsSafe
  <2> SUFFICES ASSUME NEW e \in Exec, status[e] = "Failed", ctx[e].stage \in FirstStages
               PROVE  MinedOf(e) = {} /\ \A n \in 0..MaxNonce : ~Sent(e, n)
    BY DEF ResubmitIsSafe, FirstStages
  <2>1. Txs(e) = {}
    BY <1>5 DEF FirstInv
  <2>2. QED
    BY <2>1 DEF Txs, Sent
<1>6. QED
  BY <1>1, <1>2, <1>3, <1>4, <1>5, PipelineTypeCorrect, PTL DEF Spec

=============================================================================
