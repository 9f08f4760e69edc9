# Lobby: a TLA+ model

Lobby is a transaction relay. A client posts an unsigned EIP-1559 transaction; Lobby
registers it, reserves a nonce of the sending account, signs it, broadcasts it to one of
several RPC endpoints, waits until it is mined, and keeps a status that the client polls.
What is hard about it is the nonce: many pipelines, a sweeper and a restart share one table
of nonces, while the chain moves on by itself and answers get lost.

The modules follow the Rust code and its SQL statement by statement. TLC checks them on
small instances; TLAPS proves the central results for every value of the constants. Paths
below are relative to `src/`.

## 1. Inventory

| Component | Code | State | Operations | Modelled in |
|---|---|---|---|---|
| nonce actor | `crate/actors/src/nonce` | `nonce.nonce_assignments`: revisions (nonce, state, `updated_at`), partial unique index on active rows | reserve, sync, resolve | `NonceAssignments` |
| sweeper bot | `lobby/src/bots/sweeper.rs` | the statement under way | expire_states every interval | `NonceAssignments` |
| orchestrator | `crate/cortex/src/lib.rs`, `pipeline.rs`, `artifacts/retry.rs` | permits, the locals of each task | submit, run_pipeline, retry_with_backoff | `Pipeline` |
| relay host actor | `crate/actors/src/relayhost` | `relay_host.transaction_intents` | submit_transaction | `StageTables` |
| sign actor | `crate/actors/src/sign` | `sign.sign_requests` | sign, revert | `StageTables` |
| broadcast actor | `crate/actors/src/broadcast` | `broadcast.broadcast_requests` | broadcast | `StageTables`, `Pipeline` |
| validator actor | `crate/actors/src/validator` | `validator.validation_requests` | validate (a polling loop) | `StageTables`, `Pipeline` |
| chain (external) | seen through `crate/utils/src/rpc` | blocks, pending pool | mine, evict, another wallet | `Chain` |
| RPC client | `crate/utils/src/rpc` | semaphores, atomics per endpoint, window of response times, caches | acquire_healthy_endpoint, execute_unary, metrics | `RpcClient`, `ResponseTimes` (partly) |
| status registry | `crate/cortex/src/artifacts/state.rs` | DashMap, Redis keys, spawned writes | set, get, remove, load | `StatusRegistry` |
| shard pools | `crate/cortex/src/artifacts/pool.rs` | none | route by address, chain or id | `NonceActorOf`, `ValidatorActorOf` |
| HTTP server | `lobby/src/server` | none | submit, status | `Pipeline` (`Submit`, `Reject`, `Refuse`), `Relay` |
| encoding, configuration, telemetry, benchmark, scanner bot | | | | not modelled |

**Interactions.** A pipeline is a task that calls one actor after another over channels and
waits for each answer. Every actor is an engine that serves one command at a time. A pool of
engines routes by the hash of a key: accounts that hash to one shard share a nonce engine, chains
that do share a validator engine. Nonce engine
and sweeper meet only in the table: row locks, `SKIP LOCKED`, statement snapshots and the
partial unique index. The status registry is written by the pipeline and read by HTTP. The
broadcast and the validator engine call the chain through the RPC client, whose metrics are
shared by all tasks without a lock.

**Hard behaviours.** Two reservations, a sync and the sweeper in any order; leases (2 min
for reserve, 2 min 5 s for the sweeper) that are shorter than the validator's five minutes;
sends whose answer is lost; statements that commit without an acknowledgement; clean-up calls
whose failure is only logged; a crash between any two statements after which nothing is
resumed; Redis writes that overtake each other. `PROJECT.json` lists each hazard at its line
with the properties aimed at it.

**What makes each part correct.** Nonce table: one active row per nonce, one claim per
execution, no gaps, no rewritten history. Pipeline: what is pending on the chain is held in
the table, a payload is mined at most once (twice, if an answer of an endpoint is lost), a reported confirmation is true, an early failure
leaves nothing on the chain, every path gives its reservation up, every pipeline ends; and all
this together is what a client sees. RPC client: permits are conserved and returned, unhealthy
endpoints avoided, the health and the average that choose an endpoint follow from what was
recorded. Registry: a restart brings back the last status.

## 2. Modules

```
Executions ── NonceAssignments ──┐
     │    └── Chain ─────────────┼── Pipeline ── MCPipeline
     └─────── StageTables ───────┘       └────── PipelineProofs
abstract:  NonceAssignments implements NonceLedger, Pipeline implements NonceAssignments and Relay
proofs:    NonceProofs ── PipelineProofs ── DeliveryProofs ──┬── TimelyProofs
                                                          └── RelayProofs
RpcClient ── MCRpcClient, RpcProofs            StatusRegistry ── MCStatusRegistry, RegistryProofs
ResponseTimes ── MCResponseTimes, ResponseProofs
```

**Executions.** Execution ids and the account, a (chain id, address) pair, each spends from.
The HTTP handler draws a fresh id for each request, so an execution is run once.

**NonceAssignments.** `rows[e]` is the sequence of revisions of execution `e`. A step is one
SQL statement: `ReserveInserted`, `ReserveHeld` and so on are the outcomes of the first
statement of a handler, `ReserveReread`, `ReserveGone` and so on those of its second query;
`engine[e]` says that the handler is between the two, when the sweeper can still change the
row. `TargetRelease` is the CTE that picks a released nonce, `IsNextSequential` the MAX + 1 over
active rows, `Held` an entry of the unique index. The sweeper's UPDATE is `SweepScan`
(the sub-select, no locks), `SweepLock` and `SweepCommit`; `Locked` rows are skipped by
`FOR UPDATE SKIP LOCKED`, and an INSERT that meets an index entry the sweeper is about to
remove waits. Under READ COMMITTED the UPDATE re-checks only the key of a row that changed
while it waited, which is why `SweepCommit` does not look at the state again. Time is the age
of a reservation in units that only compare the leases (`ReserveLease <= SweepLease <= SyncLease`).
A shard of the nonce pool (`NonceActorOf`) runs one handler at a time, for all its accounts.

**NonceLedger** (abstract). What callers of the nonce actor rely on, without revisions, statements,
leases or locks: a set of claims `held`, those `settled`, and those under suspicion. `Grant` gives a nonce
to one execution of the account at a time and to none that has settled one; `Settle` and `GiveUp`
end a claim; only a suspected claim can be taken away (`Reclaim`). `NonceAssignments` implements it with
`held` the active rows, `settled` the finalized ones and `suspect` the targets of the sweep under way.
Its `Reclaim` also says what the ledger does not promise: a claim that was settled after the sweeper's
scan is lost with the others.

**StageTables.** The other four tables, each reduced to the latest revision of an execution: the
unique index of each lets only that one be open and nobody else reads the table, so a
handler is one step. The two-minute leases of those tables make no difference: an open revision
inside the lease ends the handler in its code, one outside it is refused by the index.

**Chain.** Not code of the repository. A transaction is a pair (execution, nonce). The
pending pool replaces a competitor for the same nonce when it is outbid, may evict, and answers
"nonce too low" and "known transaction". Another wallet may use the account. One
transaction makes a block; there are no reorganisations.

**Pipeline.** Composes the three. `pc[e]` is the call the task of `e` is making, `tries[e]` the
counter of `retry_with_backoff`, `ctx[e]` the locals of `run_pipeline` (`nonce` is `txn.nonce`,
`onChain` the nonce of a mismatch, `retried` is `nonce_retry_attempted`, `stage` the stage of a
failure, `wait` how long the validator has polled). There is one action for each stage; a
broadcast is split where the chain can move, between the refusal of the send and the fetch of
the right nonce. Every database statement may fail, or commit without an acknowledgement,
`MaxDbFaults` times; every RPC call may fail, or take effect and lose its answer,
`MaxRpcFaults` times; `Crash` kills every task and loads any status Redis may hold.
A crash between the send and the UPDATE of the broadcast row is covered by the crash
before or after the whole step, since after a crash no one reads the row again.

**Relay** (abstract). What a client of the HTTP server sees: the fate of its payload (unsent, pending, mined,
reverted, lost) and the answer of `GET /status`. A payload is sent at most once and never
after its outcome was reported, only a mined one is confirmed, only one that was sent can time out, an answer
does not change except that a restart forgets it, and a restart makes nothing happen.
`Pipeline` implements it with `Fate`, read off the chain and the broadcast table, and `Told`, read
off the status registry and the task.

**RpcClient.** One chain's endpoint pool, with an atomic access per step: the choice by sticky
index or weighted score, the call, the increments of `error_count` and `request_count`, and
`update_health_status`, which loads both and stores a verdict. A call may also hang: the code has no timeout
for it, so a `hung` task keeps its permit for ever (`MaxHung` bounds how many). `steady` and
`overlap` are history variables. Nothing in the repository calls `activate_circuit_breaker` or
`reset_window`.

**ResponseTimes.** The ring of response times that weighs the choice of an endpoint. A recorder takes a slot
and stores its duration with a second access; the average loads the index and then one slot after
another while others record. `log` and `lapped` are history variables.

**StatusRegistry.** `set` updates the map at once and spawns a write; writes land in any order or
fail; a restart kills those that have not landed and loads Redis. `remove` deletes
`lobby:state:{id}`, a key no one writes, so it leaves Redis as it is. `overlapped` and `lost` are
history variables that say which executions had a disturbed write.

## 3. Runs

Executions meet in the nonces of one account, so most runs with a pipeline have one account and two
executions: enough for every race of two claims to a nonce, with the sweeper and another wallet as
further actors. Accounts meet only in the actors they share; `rpc_faults` has two accounts on one nonce
actor and one validator.

| Run | Instance | Properties |
|---|---|---|
| `nonce` | 2 executions, 2 revisions each, nonces to 2, leases 1/1/2 | `TypeOK`, `UniqueActive`, `FreshIsOnlyClaim`, `SweepTargetsStale`, `NoHoles`, `AuditTrail`, `KeepsLedger` |
| `timely` | 2 pipelines inside their leases, 1 database fault, 1 crash, 1 transaction of another wallet | `PipelineTypeOK`, `PendingIsHeld`, `AtMostOnce`, `ConfirmedIsFinalized`, `FailedEarlyIsUnsent`, `BroadcastsOwnNonce`, `NonceSpec`, `ServesClients` |
| `rpc_faults` | 4 requests of 2 accounts, 2 permits, one request unsignable, one failing its lint, 1 RPC fault, another wallet | `ConfirmedIsMined`, `OneRecovery`, `NoNonceSkipped`, `NoLeakedReservation`, `ChainIsOnRecord` |
| `validator_queue` | 2 pipelines that may outlive their leases, sweeper, fairness | `PipelineEnds`, `ServesClients` |
| `crash_and_faults` | 1 pipeline, 1 database fault, 2 RPC faults, 1 crash, another wallet, fairness | `AtMostTwice`, `ResubmitIsSafe`, `ReservationEnds` |
| `rpc_pool` | 2 tasks, 2 endpoints, 2 permits, 5 calls, one of which may hang, fairness | `RpcTypeOK`, `ErrorsAreRequests`, `AvoidsUnhealthy`, `PermitsConserved`, `HealthSettles`, `PermitReturned` |
| `response_times` | 2 recorders, a reader, 7 responses of 0 to 2 ms, window 3, sampling above 2 | `AverageIsRecent`, `AverageOfWindow` |
| `registry` | 2 executions, 3 statuses each | `UndisturbedIsPersisted`, `RecoveredIsLatest` |
| `timed_out_reused`, `revert_releases`, `reservation_wedged` | 1 or 2 pipelines | one property each, violated (section 5) |
| `sampled_average` | the instance of `response_times` | `AverageWithinResponses`, violated (section 5) |

What they show, and under which conditions:

* `nonce` lets reserve, sync and resolve be called at any time with any argument, so it is the
  contract of the table whatever the caller does. The bounds allow a nonce to be reserved,
  released, taken again and swept in every order; a second revision is the first that can
  conflict with an older one. The reserve and the sweep lease are one unit each: the sweeper
  may run at any later time, so a sweep lease that is longer adds only states in which it waits. The
  sync lease is longer, so that sync can meet a reservation reserve would ignore. `KeepsLedger` is the
  refinement of `NonceLedger`.
* `timely` sets `MaxAge = 0`: no lease ends while a pipeline runs. Then every transaction that is
  pending is held in the table even across a crash and a failed statement, `NonceSpec` as a
  property says that every step of the system is one the table's specification allows, and
  `ServesClients` that it is one of `Relay`.
  `ConfirmedIsFinalized` needs no more database faults than retries.
* `rpc_faults`: a fault loses the answer of a send, or fails a call of any stage; the second permit is a
  queue for the third request. `NoLeakedReservation` leaves out the one reservation that the code keeps
  (`BroadcastDbError`), that of a broadcast whose row is still open; with a database fault more can be left to the
  sweeper, which is what `ReservationEnds` is about. `AtMostOnce`, and with it `ServesClients`, does not hold
  here (section 5) and is checked where answers are not lost. `ChainIsOnRecord` does: what is on the chain has its nonce in a
  row of its own execution.
* `crash_and_faults`: two lost answers are what a third transaction of a payload would take, one for each nonce that was sent; the
  run shows that there is no third nonce (`AtMostTwice`). The database fault lets a statement of the recovery fail after a lost answer, so that
  a failure is reported of a payload that is on the chain; `ResubmitIsSafe` says for which failures this cannot be.
* `validator_queue`: the validator serves one pipeline at a time; the other one waits with its permit and is served in the
  end, mined or not. `ReserveLease = SweepLease = 1` and a validator that gives up after two units, so the sweeper competes with
  every stage and leases end while a pipeline waits: the table gives nonces to two pipelines one after the other, and `ServesClients`
  (nothing sent twice, no false confirmation) holds all the same.
* `rpc_pool`: with `MinRequests = 2` and five calls endpoints become unhealthy one after the
  other, and the last resort is taken. A verdict that was computed from older counters can be
  stored after a newer one; `HealthSettles` says that it does not outlive the next recording that runs alone.
  `HealthSettles` says nothing of recordings that overlap. `PermitReturned` holds with a call that hangs: it costs its own
  permit and delays nobody else's. There are as many permits as tasks, so the run does not show how calls that hang use up a semaphore.
* `response_times`: `SampleAbove < Window`, so both ways of scanning occur, and seven responses turn a window
  of three twice. The two windows of `AverageIsRecent` are exact: with one entry less TLC finds a
  recorder that has taken its slot and not stored. A recorder overtaken by a whole window can put
  an old duration over a new one, which `lapped` excludes. The code's window of 128 is a power of two only to
  make the remainder a mask.

Ages, revisions, nonces, faults and calls are bounded by `MaxAge`, `MaxRevision`, `MaxNonce`,
`MaxOnChain`, `MaxOther`, `MaxDbFaults`, `MaxRpcFaults`, `MaxCrashes`, `MaxCalls`, `MaxHung`, `MaxSamples` and `MaxSets`, all in
guards; ages saturate. `MaxAttempts = 1` has both a retry and a last attempt. Symmetry
of the executions is used in the safety runs only.

**Fairness.** `Fairness` of `Pipeline` asks that the task of a pipeline which can take a step takes
one (the tokio runtime polls every ready task), that the sweeper's interval ticks, and that time
passes. Nothing is asked of the chain: a transaction may stay pending for ever, and the validator's
timeout ends the wait. A step that calls an endpoint is a step of the task, so fairness assumes that
an endpoint answers or its connection fails. The code does not enforce this: the timeout
of `crate/utils/src/rpc/client.rs` covers the wait for a permit, not `operation(provider)` at line 228.
`RpcClient` therefore asks fairness of every step of a task but not that a call answers: `Hangs` is an
alternative to `Answered`.

Every property has a mutant: a plausible bug in the code (a dropped guard, a forgotten
release, an off-by-one in the retry loop) written next to the definition it replaces, under which
TLC finds the property violated.

## 4. Proofs

| Theorem | Says, for all constants that satisfy the assumptions |
|---|---|
| `NonceProofs!TypeCorrect` | the table keeps its type |
| `NonceProofs!NoDoubleAssignment` | `UniqueActive` |
| `NonceProofs!TrailKept` | `AuditTrail` |
| `NonceProofs!LeasesExclusive` | `SweepTargetsStale` and `FreshIsOnlyClaim` |
| `NonceProofs!TargetsStale` | `SweepTargetsStale` |
| `NonceProofs!GapFree` | `NoHoles` |
| `NonceProofs!LedgerKept` | the nonce table implements `NonceLedger` (`KeepsLedger`) |
| `PipelineProofs!PipelineTypeCorrect` | every task is in a stage of the code with at most the attempts allowed |
| `PipelineProofs!PipelineImplementsNonceTable` | the whole system implements `NonceSpec` |
| `PipelineProofs!NoSharedNonce` | `UniqueActive` of the whole system |
| `PipelineProofs!PipelineKeepsLedger` | the whole system implements `NonceLedger` |
| `DeliveryProofs!ConfirmedWasMined` | `ConfirmedIsMined`, whatever fails |
| `DeliveryProofs!NothingSkipped` | `NoNonceSkipped`, whatever fails |
| `DeliveryProofs!SentOnce` | `AtMostOnce` as long as no answer of an endpoint is lost |
| `DeliveryProofs!EarlyFailureUnsent` | `FailedEarlyIsUnsent` under the same condition |
| `DeliveryProofs!SentTwiceAtMost` | `AtMostTwice`, whatever fails |
| `DeliveryProofs!ResubmitWasSafe` | `ResubmitIsSafe`, whatever fails |
| `DeliveryProofs!SentIsOnRecord` | `ChainIsOnRecord`, whatever fails |
| `TimelyProofs!OwnNonce` | `BroadcastsOwnNonce` while reservations are inside their leases |
| `TimelyProofs!AtMostOneRecovery` | `OneRecovery` while reservations are inside their leases |
| `TimelyProofs!ConfirmedWasFinalized` | `ConfirmedIsFinalized`, inside the leases and with no more database faults than retries |
| `TimelyProofs!NothingLeaked` | `NoLeakedReservation`, inside the leases and without a database fault |
| `TimelyProofs!PendingHeld` | `PendingIsHeld`, inside the leases, before any validation times out, with no answer lost |
| `RelayProofs!RelayServesClients` | the whole system implements `Relay` (`ServesClients`) as long as no answer is lost |
| `RpcProofs!RpcTypeCorrect`, `PermitsAreConserved`, `CountersAgree` | `RpcTypeOK`, `PermitsConserved`, `ErrorsAreRequests` |
| `RpcProofs!HealthIsSettled` | `HealthSettles` |
| `RpcProofs!UnhealthyAvoided` | `AvoidsUnhealthy` |
| `ResponseProofs!AverageWasRecent`, `AverageWasOfWindow` | `AverageIsRecent`, `AverageOfWindow` |
| `RegistryProofs!StatusPersisted`, `StatusRecovered` | the two registry invariants |

*Assumptions* are those of the modules: each execution has an account, leases are positive and
ordered, bounds are natural numbers, the tasks of the RPC client are finitely many. Nothing is assumed about
the number of executions, accounts, faults, crashes, endpoints or calls.

*Hypotheses.* Some results do not hold of every behaviour, and the theorem says of which they do. Each hypothesis
is a condition on the behaviour, not on the constants, and dropping it makes the property false:

* `AnswersKept` (`faults["rpc"] = 0`): no send has taken effect and lost its answer, nor an RPC call failed, so far.
  Without it a payload is mined twice (section 5).
* `InLease`: no reservation has reached the age at which reserve ignores it. The validator polls longer than a
  lease, so this is what an operator must keep true by the choice of timeouts; without it `timed_out_reused` happens.
* `BeforeTimeout`: no validation has used its time up. After a timeout the code gives the nonce up while the
  transaction may still be pending.
* `faults["db"] <= MaxAttempts`, `faults["db"] = 0`: a clean-up whose last attempt fails is only logged.

`AnswersKept`, and the bounds on database faults, are stated inside the box: the property holds up to the first fault, even if
there is one later. Crashes are allowed in all of them.

*NonceProofs.* `StepShape` shows that every statement changes the table in one of four ways:
not at all, by ageing, by moving some rows to a resolved state (and by nothing else), or by
inserting one reservation whose nonce is not held, possibly after one move. `OldRow` and
`NewRow` say what each way does to a row, and the four invariants follow from them. Uniqueness is inductive
with the type invariant: an insertion is the only step that makes a row active, and the index
lets it only if the nonce is free. `FreshIsOnlyClaim` is not inductive alone: the sweeper's
commit is harmless only because its targets are stale, so `LeaseInv` joins it with
`SweepTargetsStale`. `GapFree` rests on `AssignedStays`: no step unassigns a nonce, and a
sequential insertion has an active row just below it, which itself has no gap below.

*The ledger* (in NonceProofs). The refinement rests on `LedgerInv`, the conjunction of the type, `UniqueActive` and
`SweepTargetsStale`. A claim is an (execution, nonce) pair and a statement moves a row; `OneRow`, from
`UniqueActive`, says that an execution has one active row of a nonce at most, so that moving the row moves the claim.
There is one lemma for each kind of statement: an insertion is a `Grant` (`InsertGrants`), a resolve a `Settle` or a
`GiveUp` (`ResolveSettles`), a scan a `Suspect`, a commit a `Reclaim`; a released row that is consumed, time, and
every second query are stutters. That a suspicion names the same claims throughout (`SuspectsKept`) needs the targets to
exist, which is the first half of `SweepTargetsStale`.

*PipelineProofs.* `NonceSimulation` shows step by step that an action of `Pipeline` projects to an
action of `NonceAssignments` or leaves its variables alone; `NoSharedNonce` and
`PipelineKeepsLedger` are then the table's theorems read in the larger system. Types are proved one stage at a time, with a
lemma for each helper (`Enter`, `Retry`, `Fail`, `NonceGranted`).

*RegistryProofs.* The inductive invariant adds to the two properties that, for an execution
whose writes never overlapped or got lost, a write under way carries the last status set.

*DeliveryProofs.* `RunMoves` is the shape of `run_pipeline`: from each stage, the stages a task can go to, with the
status and the locals it takes along; the proofs of this module and the next two use it instead of the actions.
`ConfirmInv` adds to `ConfirmedIsMined` that a task which finalises has the receipt already, and that a
reported end is the end of the task. `SkipInv` adds to `NoNonceSkipped` what could become a row or a block: a nonce
that is pending, or in the hands of a task, was assigned, and below the nonce the chain reported to a
recovery nothing is missing. `SendInv` is about one execution at a time: one that has a
transaction on the chain has an open row in the broadcast table, so that a retry of the stage does not send again, and is in a stage
from which it can only fail late. It holds until an answer is lost: then the row is marked rejected although the transaction is out.
What remains then is proved without a hypothesis. `TwiceInv` follows the nonce of a task (`NonceChanges`: only reserve and the recovery change it): before the
recovery has its new nonce, everything sent has the first one, and afterwards one of the two. `FirstInv`: no stage before the first
broadcast, and no failure of one, has anything sent. `RecordInv`: a nonce that a task may send with, or has sent with, is in a row of its execution, because it
came from an INSERT or a second query of that row (`GrantRecorded`) and rows are neither deleted nor renumbered (`RecordKept`).

*TimelyProofs.* Inside the leases no sweep finds a row, so `TimelyTable` (no sweep under way, the active row of an
execution is its last) is inductive with the type. `HoldInv` says that a task holds its nonce from the answer of reserve to the end of the
validation. `CountInv` follows the number of revisions through a reservation whose acknowledgement was lost: the retry
finds the row. `FinalInv` needs each failed attempt at finalise to be a counted fault, and `AnsweredInv`, that the
second query of resolve runs only when nothing is left to resolve. `LeakInv` follows the reservation through the error paths. `PendInv`
adds to `PendingIsHeld` where a task with a pending transaction can be: with no receipt and no timeout, not in a
stage that gives the nonce up.

*RelayProofs.* The refinement needs no lease: what a client sees does not depend on who holds a nonce.
`RelayInv` joins the types, `ConfirmInv` and `SendInv` with `PoolInv` (one pending transaction of an account and nonce, so that a
block includes one payload and a send replaces at most one) and `OpenInv` (a task that validates has sent). The
lemmas `LiftOne`, `LiftTwo`, `LiftNone` and `LiftRestart` turn a change of `Fate` and `Told` at one execution, two,
none or all into a step of `Relay`; `ChainRelays`, `RunRelays`, `RestartRelays` and `OutsideRelays` find that change for each action.
A send that takes the place of a pending transaction changes two fates, and is the one case of `LiftTwo`.

*RpcProofs.* Each part of the state has a lemma on what the accesses do to it (`TaskMoves`, `MetricsMoves`, `PermitMoves`,
`SteadyMoves`), and each property an invariant. `PermitsConserved` is inductive with the types. The counters are bounded by
`CallsInv`: requests counted and calls whose request is still due are no more than the calls begun. `Alone` says that
a recording which began alone, and has not been joined, finds at its store the counters it loaded; `HealthSettles` is its
end. `ChooseInv` follows a selection: the history of what was up and down all along is true (`TrueHistory`), the scan
agrees with it (`ScanTrue`), and so does the choice (`ChoiceTrue`).

*ResponseProofs.* `StoreInv`: a task that is about to store took its slot in the last window. `SlotInv`: a slot has
the response of the last window that took it, or of the one before while that store is due. Both rest on `Periodic` and `SameRemainder`: a slot is taken
again after exactly a window. `SumInv` bounds the sum of a scan in progress by multiples of two responses that were read.
`AverageOfWindow` needs the exact sum. `ExactInv` sharpens `SlotInv`: each response of the last window is in its slot, or its store is due; `AloneInv` says that
none is due while the reader is alone. `CountInv` then equates the running sum and count of the reader with those over the set of responses it has passed.
A fold over a set does not say in which order it adds; `SumIsCount` shows that it does not matter, by equating the sum with the number of pairs
`<<response, unit>>`, so that adding a response is a disjoint union (`UnitsAdd`). Its induction over finite sets is done
as a smallest counterexample, which the well-foundedness of strict inclusion provides (`Smallest`).

*Only model-checked:* the liveness properties `PipelineEnds`, `ReservationEnds` and `PermitReturned`, which need fairness.
Every other property of the passing runs is a theorem, some under the hypotheses above; `SentOnce`, `EarlyFailureUnsent` and `ConfirmedWasMined` need no lease, so pipelines that outlive theirs are covered.

## 5. Where the code and its documents disagree

Four disagreements are runs that TLC refutes.

* `revert_releases`: a transaction that is mined and reverts takes the branch "RPC error, safe to
  release nonce" (`crate/cortex/src/pipeline.rs:518`), and its used nonce is released.
* `timed_out_reused`: the validator polls for 300 s, the sweeper releases the reservation after
  125 s, and the `Consumed` that README.md:610 promises is then refused and logged.
* `reservation_wedged`: reserve prefers the lowest released nonce and does not ask whether it is
  active in another row, as it is after a sync took it. Every INSERT then meets
  the unique index until that row is resolved, and, once it is finalized, for ever.
* `sampled_average`: `average_response_time_ms` multiplies the mean of the sampled slots by the sampling step
  (`crate/utils/src/rpc/metrics.rs:221`), so that an endpoint seems four times slower from its 33rd response on; the comment at line 189
  says it is the average response time. `AverageIsRecent` and `AverageOfWindow` are about the mean (line 219), which is right.

Others were met while modelling. The models contain them, no run is spent on them:

* A send whose answer is lost is marked rejected and sent again; if the first was mined the retry
  is a nonce mismatch, and the recovery signs the same payload with a new nonce, so that it is mined
  twice (`crate/actors/src/broadcast/engine.rs:256`). `types.rs:129` calls the execution id the
  idempotency key. This is why `AtMostOnce` and `ServesClients` are checked without RPC faults; with them, `AtMostTwice` is what holds.
* The sweeper's UPDATE may set a row to `released` that was consumed or finalized after its scan;
  README.md:598 speaks of stale `reserved` nonces only.
* A consumed nonce is the next sequential one again when no active row is above it;
  README.md:586 says it is not recycled.
* A broadcast that fails in the database keeps its reservation; README.md:608 says it is released.
* `required_confirmations` is 0; the comment beside it (`crate/actors/src/validator/mod.rs:67`) says 1.
* A nonce recovery takes the status back; `crate/primitives/src/types.rs:273` calls transitions monotonic.
* After a validator timeout the status is neither `confirmed` nor `failed`, the two
  `lobby/src/server/handler.rs:127` tells a client to wait for.
* Two results of `update_health_status` may be stored in the wrong order, so that an endpoint
  keeps a health its counters do not have; `error_rate` may exceed 1
  (`crate/utils/src/rpc/metrics.rs:224`); with no healthy endpoint the first one is returned,
  not `None` (`crate/utils/src/rpc/mod.rs:457`).
* Times of 0 ms count as empty slots (`metrics.rs:209`), so an endpoint that is always that fast gets the
  default of 100 ms. The duration begins before the wait for a permit (`client.rs:219`).
* README.md:487 says that the circuit breaker activates on consecutive failures and resets on a successful request after its expiry,
  README.md:485 that an unhealthy endpoint gets zero traffic. Nothing calls `activate_circuit_breaker`; an unhealthy endpoint gets no
  call while another is available, so that only calls already under way can restore it, and it gets all of them when none is
  (`crate/utils/src/rpc/pool.rs:427`). An error rate of exactly 15 % is healthy (`metrics.rs:318`), README.md:483 makes it degraded.
* An endpoint that answers "already known" to a repeated send is not understood (`broadcast/engine.rs:220` looks for "known transaction" and "nonce"): the
  send counts as rejected and the nonce is released although the transaction is pending.
* `crate/utils/src/rpc/mod.rs` documents its `timeout` as the maximum time to wait for the operation; it bounds
  the wait for a permit only.
* The documented back-off window of `retry.rs:71` is `base_delay * 2^attempt`, the code's
  `base_delay * 2^(attempt - 1)`, upper bound included.
* Redis writes are not ordered, so a restart may bring back an older status; `remove` deletes
  another key than `set` writes; the map has no TTL (`state.rs:23`, `172`, `165`).
* `Instant::now().elapsed()` at `crate/utils/src/rpc/pool.rs:257` is always about zero, so the cache
  of healthy endpoints does not expire.

## 6. Not modelled

* RLP, hashing, ECDSA, JSON, hexadecimal and decimal conversions: byte-level functions without
  state; a transaction is its execution and nonce, and the outcomes of lint and signing
  are constants.
* Authentication, configuration, start-up, telemetry, the benchmark and its mock RPC server, the
  deprecated scanner bot, which `main` does not start.
* In the RPC client: the caches of healthy endpoints and of statistics and the circuit breaker, which nothing
  in the relay uses. The roulette wheel is any choice between endpoints with a score.
* The hash of a shard pool: any assignment of keys to actors.
* Reorganisations: the validator reads a receipt once and never looks again.
* `check_cached_result` of the validator never finds anything, because an execution is validated
  once; `MissingProvider` is never constructed.

## 7. Plan

1. Proofs: every invariant and every action property of the passing runs is a theorem. Left is a version of `SentOnce` for each execution by itself, whose
   hypothesis is that no answer to this one was lost; it needs the fault counter of the model split by execution.
2. A chain that reorganises, once the validator looks at a receipt more than once.
