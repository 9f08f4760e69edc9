---------------------------- MODULE TimelyProofs ----------------------------
(***************************************************************************)
(* What the pipelines rely on as long as they are faster than the leases.  *)
(* Pipeline, nonce actor and sweeper share the table without a lock; it is *)
(* the leases that keep them apart.  While no reservation has outlived the *)
(* shortest of them the sweeper has nothing to sweep and an execution has  *)
(* at most one claim, its last revision, which only its own pipeline       *)
(* resolves: a pipeline then sends with a nonce it holds, keeps the nonce  *)
(* of what is pending, finalizes what it confirms and leaves no            *)
(* reservation behind, for any number of executions, retries and crashes.  *)
(***************************************************************************)
EXTENDS DeliveryProofs

USE DEF nonceVars

-----------------------------------------------------------------------------
(* The table while every reservation is inside its lease *)

\* No reservation has reached the age at which reserve would ignore it.
InLease ==
    \A e \in Exec : \A r \in 1..Len(rows[e]) :
        rows[e][r].state = "reserved" => rows[e][r].age < ReserveLease

\* The claim of an execution is its last revision.
LastActive ==
    \A e \in Exec : \A r \in 1..Len(rows[e]) : IsActive(e, r) => r = Len(rows[e])

\* The lengths, states and ages of the table, for the arithmetic below.
LEMMA RowTyped ==
    ASSUME TypeOK, NEW e \in Exec
    PROVE  /\ Len(rows[e]) \in Nat
           /\ \A r \in 1..Len(rows[e]) :
                /\ rows[e][r].age \in Nat
                /\ rows[e][r].state \in NonceState
                /\ rows[e][r].nonce \in Nat
<1>1. rows[e] \in Seq(Assignment)
  BY DEF TypeOK
<1>2. ASSUME NEW r \in 1..Len(rows[e])
      PROVE  /\ rows[e][r].age \in Nat
             /\ rows[e][r].state \in NonceState
             /\ rows[e][r].nonce \in Nat
  <2>1. rows[e][r] \in Assignment
    BY <1>1
  <2>2. QED
    BY <2>1, ConstantsAssumption DEF Assignment
<1>3. QED
  BY <1>1, <1>2

\* The sweeper finds nothing to sweep ...
LEMMA NoneStale ==
    ASSUME TypeOK, InLease
    PROVE  StaleSlots = {}
<1> SUFFICES ASSUME NEW e \in Exec, NEW r, IsStale(e, r)
             PROVE  FALSE
  BY DEF StaleSlots, Slots
<1>1. r \in 1..Len(rows[e]) /\ rows[e][r].state = "reserved" /\ rows[e][r].age >= SweepLease
  BY DEF IsStale
<1>2. rows[e][r].age \in Nat /\ rows[e][r].age < ReserveLease
  BY <1>1, RowTyped DEF InLease
<1>3. QED
  BY <1>1, <1>2, ConstantsAssumption

\* ... so it never starts.
LEMMA NoSweepKept ==
    ASSUME TypeOK, InLease, sweep = NoSweep, [NonceNext]_nonceVars
    PROVE  sweep' = NoSweep
<1>1. ~SweepScan
  BY NoneStale DEF SweepScan
<1>2. ~SweepLock /\ ~SweepCommit /\ ~SweepFailed
  BY DEF SweepLock, SweepCommit, SweepFailed, NoSweep
<1>3. QED
  BY <1>1, <1>2
  DEF NonceNext, Sweep, Tick, Restart, RereadFailed,
      Reserve, ReserveInserted, ReserveReread, ReserveConflict, ReserveHeld, ReserveGone,
      Sync, SyncInserted, SyncConflict, SyncHeld, SyncReread, SyncRejected,
      Resolve, ResolveUpdated, ResolveMissed, ResolveAgreed, ResolveRefused

\* An execution that reserve or sync finds without a claim has none at all.
LEMMA NoClaim ==
    ASSUME TypeOK, InLease, NEW e \in Exec, ~HasClaim(e, ReserveLease) \/ ~HasClaim(e, SyncLease)
    PROVE  ~HasActive(e)
<1> SUFFICES ASSUME NEW r \in 1..Len(rows[e]), IsActive(e, r)
             PROVE  HasClaim(e, ReserveLease) /\ HasClaim(e, SyncLease)
  BY DEF HasActive
<1>1. CASE rows[e][r].state = "finalized"
  BY <1>1 DEF HasClaim
<1>2. CASE rows[e][r].state = "reserved"
  <2>1. rows[e][r].age \in Nat /\ rows[e][r].age < ReserveLease
    BY <1>2, RowTyped DEF InLease
  <2>2. rows[e][r].age < SyncLease
    BY <2>1, ConstantsAssumption
  <2>3. QED
    BY <1>2, <2>1, <2>2 DEF HasClaim
<1>3. QED
  BY <1>1, <1>2 DEF IsActive, ActiveStates

-----------------------------------------------------------------------------
(* Who writes to the rows of an execution, and how *)

ResolveStages == {"consume", "release", "finalise", "expire"}

\* The rows of e stay, but that a released one may be consumed for another execution.
RowsQuiet(e) ==
    /\ Len(rows'[e]) = Len(rows[e])
    /\ \A r \in 1..Len(rows[e]) :
        /\ rows'[e][r].nonce = rows[e][r].nonce
        /\ \/ rows'[e][r].state = rows[e][r].state
           \/ rows[e][r].state = "released" /\ rows'[e][r].state = "consumed"

\* The reservation of e, its last revision, is resolved.
Resolves(e, state) ==
    /\ Len(rows'[e]) = Len(rows[e]) /\ Len(rows[e]) > 0
    /\ rows[e][Len(rows[e])].state = "reserved"
    /\ rows'[e][Len(rows[e])].state = state
    /\ rows'[e][Len(rows[e])].nonce = rows[e][Len(rows[e])].nonce
    /\ \A r \in 1..Len(rows[e]) : r # Len(rows[e]) => rows'[e][r] = rows[e][r]

\* A released row that reserve consumes without using it.
LEMMA HeldQuiet ==
    ASSUME TypeOK, NEW f \in Exec, ReserveHeld(f), NEW e \in Exec
    PROVE  RowsQuiet(e)
<1>0. rows \in Table /\ "consumed" \in NonceState
  BY DEF TypeOK, Table, NonceState, Resolutions
<1>1. CASE UNCHANGED rows
  BY <1>1 DEF RowsQuiet
<1>2. ASSUME NEW s \in TargetRelease(AccountOf[f]), rows' = SetState(rows, {s}, "consumed")
      PROVE  RowsQuiet(e)
  <2>1. s \in Slots /\ At(s).state = "released"
    BY <1>2 DEF TargetRelease, Released
  <2> DEFINE S == {s}
  <2>2. rows' = SetState(rows, S, "consumed")
    BY <1>2
  <2> HIDE DEF S
  <2>3. /\ Len(rows'[e]) = Len(rows[e])
        /\ \A q \in 1..Len(rows[e]) :
                rows'[e][q] = IF <<e, q>> \in S
                              THEN [nonce |-> rows[e][q].nonce, state |-> "consumed", age |-> 0]
                              ELSE rows[e][q]
    BY <1>0, <2>2, SetStateLemma
  <2>4. ASSUME NEW q \in 1..Len(rows[e])
        PROVE  /\ rows'[e][q].nonce = rows[e][q].nonce
               /\ \/ rows'[e][q].state = rows[e][q].state
                  \/ rows[e][q].state = "released" /\ rows'[e][q].state = "consumed"
    <3>1. CASE <<e, q>> = s
      <4>1. rows[e][q].state = "released"
        BY <2>1, <3>1 DEF At
      <4>2. rows'[e][q] = [nonce |-> rows[e][q].nonce, state |-> "consumed", age |-> 0]
        BY <2>3, <3>1 DEF S
      <4>3. QED
        BY <4>1, <4>2
    <3>2. CASE <<e, q>> # s
      BY <2>3, <3>2 DEF S
    <3>3. QED
      BY <3>1, <3>2
  <2>5. QED
    BY <2>3, <2>4 DEF RowsQuiet
<1>3. QED
  BY <1>1, <1>2 DEF ReserveHeld

\* With no sweep under way, resolve updates the one reservation of its execution and no
\* row of another.
LEMMA UpdateResolves ==
    ASSUME TypeOK, sweep = NoSweep, LastActive, NEW f \in Exec, NEW state \in Resolutions,
           ResolveUpdated(f, state), NEW e \in Exec
    PROVE  IF e = f THEN Resolves(e, state) ELSE RowsQuiet(e)
<1>0. rows \in Table /\ state \in NonceState
  BY DEF TypeOK, Table, NonceState
<1>1. PICK r \in 1..Len(rows[f]) : IsResolvable(f, r) /\ rows' = SetState(rows, {<<f, r>>}, state)
  BY DEF ResolveUpdated
<1> DEFINE S == {<<f, r>>}
<1>2. rows' = SetState(rows, S, state)
  BY <1>1
<1> HIDE DEF S
<1>3. \A g \in Exec :
        /\ Len(rows'[g]) = Len(rows[g])
        /\ \A q \in 1..Len(rows[g]) :
                rows'[g][q] = IF <<g, q>> \in S
                              THEN [nonce |-> rows[g][q].nonce, state |-> state, age |-> 0]
                              ELSE rows[g][q]
  BY <1>0, <1>2, SetStateLemma
<1>4. r = Len(rows[f]) /\ rows[f][r].state = "reserved"
  BY <1>1 DEF IsResolvable, LastActive, IsActive, ActiveStates
<1>5. CASE e = f
  <2>1. /\ rows'[e][r] = [nonce |-> rows[e][r].nonce, state |-> state, age |-> 0]
        /\ \A q \in 1..Len(rows[e]) : q # r => rows'[e][q] = rows[e][q]
    BY <1>3, <1>5 DEF S
  <2>2. Len(rows[e]) > 0
    BY <1>5, RowTyped
  <2>3. QED
    BY <1>3, <1>4, <1>5, <2>1, <2>2 DEF Resolves
<1>6. CASE e # f
  <2>1. \A q \in 1..Len(rows[e]) : rows'[e][q] = rows[e][q]
    BY <1>3, <1>6 DEF S
  <2>2. QED
    BY <1>3, <1>6, <2>1 DEF RowsQuiet
<1>7. QED
  BY <1>5, <1>6

\* An INSERT for another execution leaves the rows of e alone, but for a released one.
LEMMA InsertQuiet ==
    ASSUME TypeOK, [NonceNext]_nonceVars, NEW f \in Exec, NEW n, Inserts(f, n), NEW e \in Exec,
           e # f
    PROVE  RowsQuiet(e)
<1>1. ASSUME NEW r \in 1..Len(rows[e])
      PROVE  rows'[e][r].nonce = rows[e][r].nonce
  BY <1>1, StepShape, OldRow
<1>2. QED
  BY <1>1 DEF Inserts, RowsQuiet

\* Only the pipeline of an execution changes its claim.
LEMMA RowsElsewhere ==
    ASSUME TypeOK, TaskOK, sweep = NoSweep, LastActive, [Next]_vars, NEW e \in Exec, ~Run(e)
    PROVE  RowsQuiet(e)
<1>0. [NonceNext]_nonceVars /\ rows \in Table
  BY NonceSimulation DEF TypeOK, Table
<1>1. ASSUME UNCHANGED rows
      PROVE  RowsQuiet(e)
  BY <1>1 DEF RowsQuiet
<1>2. ASSUME NEW f \in Exec, NonceReserve(f)
      PROVE  RowsQuiet(e)
  <2>1. \/ \E n \in 0..MaxNonce : ReserveInserted(f, n)
        \/ ReserveHeld(f)
        \/ UNCHANGED rows
    BY <1>2 DEF NonceReserve, ReserveReread, ReserveConflict, ReserveGone, RereadFailed
  <2>2. ASSUME NEW n \in 0..MaxNonce, ReserveInserted(f, n)
        PROVE  RowsQuiet(e)
    <3>1. n \in Nat /\ f # e
      BY <1>2, ConstantsAssumption DEF Run
    <3>2. QED
      BY <1>0, <2>2, <3>1, RowsInserted, InsertQuiet
  <2>3. QED
    BY <1>1, <2>1, <2>2, HeldQuiet
<1>3. ASSUME NEW f \in Exec, NonceSync(f)
      PROVE  RowsQuiet(e)
  <2>1. SyncInserted(f, ctx[f].onChain) \/ UNCHANGED rows
    BY <1>3 DEF NonceSync, SyncReread, SyncHeld, SyncConflict, SyncRejected, RereadFailed
  <2>2. ctx[f].onChain \in Nat /\ f # e
    BY <1>3, ConstantsAssumption DEF Run, TaskOK, Locals
  <2>3. QED
    BY <1>0, <1>1, <2>1, <2>2, RowsInserted, InsertQuiet
<1>4. ASSUME NEW f \in Exec, ResolveNonce(f)
      PROVE  RowsQuiet(e)
  <2>1. Requested(pc[f]) \in Resolutions /\ f # e
    BY <1>4 DEF ResolveNonce, Requested, Resolutions, Run
  <2>2. ResolveUpdated(f, Requested(pc[f])) \/ UNCHANGED rows
    BY <1>4 DEF ResolveNonce, ResolveAgreed, ResolveMissed, ResolveRefused, RereadFailed
  <2>3. QED
    BY <1>1, <2>1, <2>2, UpdateResolves
<1>5. ASSUME NEW f \in Exec, Run(f), ~NonceReserve(f), ~NonceSync(f), ~ResolveNonce(f)
      PROVE  UNCHANGED rows
  BY <1>5
  DEF Run, RelayHost, Sign, Resign, SignCall, AcquireEndpoint, RevertSign, ValidationOpened,
      Broadcast, BroadcastNotInserted, BroadcastSent, BroadcastRefused, BroadcastMismatch,
      FetchNonce, Poll, PollTimedOut, PollReverted, PollIncluded, PollRpcError, PollAgain, vars
<1>6. ASSUME SweeperBot \/ TimePasses \/ Crash \/ Quiet \/ UNCHANGED vars
      PROVE  RowsQuiet(e)
  <2>1. ~SweepCommit
    BY DEF SweepCommit, NoSweep
  <2>2. UNCHANGED rows \/ rows' = Aged(rows)
    BY <1>6, <2>1
    DEF SweeperBot, SweepScan, SweepLock, SweepFailed, TimePasses, Tick, Crash, Restart, Quiet,
        vars
  <2>3. QED
    BY <1>0, <1>1, <2>2, AgedLemma DEF RowsQuiet
<1>7. ASSUME NEW f \in Exec, Submit(f) \/ Reject(f) \/ Refuse(f)
      PROVE  UNCHANGED rows
  BY <1>7 DEF Submit, Reject, Refuse
<1>8. ASSUME NEW a \in Account, ChainStep(a)
      PROVE  UNCHANGED rows
  BY <1>8 DEF ChainStep
<1>9. QED
  BY <1>1, <1>2, <1>3, <1>4, <1>5, <1>6, <1>7, <1>8 DEF Next

\* reserve, with what it does to the table and what becomes of the task.
LEMMA ReserveStage ==
    ASSUME TypeOK, TaskOK, NEW e \in Exec, Run(e), pc[e] = "reserve"
    PROVE  \/ \E n \in 0..MaxNonce : /\ ReserveInserted(e, n)
                                     /\ \/ Grants(e, n, "sign")
                                        \/ /\ Fault({"db"})
                                           /\ Again(e, "reserve") \/ Fails(e, "nonce_reserve")
           \/ \E n \in 0..MaxNonce : ReserveReread(e, n) /\ Grants(e, n, "sign")
           \/ ReserveHeld(e) /\ UNCHANGED taskVars
           \/ UNCHANGED rows /\ (Again(e, "reserve") \/ Fails(e, "nonce_reserve"))
<1>1. NonceReserve(e)
  BY StageOf
<1>2. ASSUME Retry(e, "reserve", Fail(e, "nonce_reserve"))
      PROVE  Again(e, "reserve") \/ Fails(e, "nonce_reserve")
  BY <1>2, RetriedOrFailed
<1>3. QED
  BY <1>1, <1>2, Granted
  DEF NonceReserve, ReserveConflict, ReserveGone, RereadFailed

\* The same of sync.
LEMMA SyncStage ==
    ASSUME TypeOK, TaskOK, NEW e \in Exec, Run(e), pc[e] = "sync"
    PROVE  \/ /\ SyncInserted(e, ctx[e].onChain)
              /\ \/ Grants(e, ctx[e].onChain, "resign")
                 \/ Fault({"db"}) /\ (Again(e, "sync") \/ Fails(e, "nonce_sync"))
           \/ \E n \in 0..MaxNonce : SyncReread(e, n) /\ Grants(e, n, "resign")
           \/ UNCHANGED rows /\ UNCHANGED taskVars
           \/ UNCHANGED rows /\ (Again(e, "sync") \/ Fails(e, "nonce_sync"))
<1>1. NonceSync(e)
  BY StageOf
<1>2. ASSUME Retry(e, "sync", Fail(e, "nonce_sync"))
      PROVE  Again(e, "sync") \/ Fails(e, "nonce_sync")
  BY <1>2, RetriedOrFailed
<1>3. QED
  BY <1>1, <1>2, Granted
  DEF NonceSync, SyncConflict, SyncRejected, SyncHeld, RereadFailed

\* The same of consume, release, finalise and expire.
LEMMA ResolveStage ==
    ASSUME TaskOK, NEW e \in Exec, Run(e), pc[e] \in ResolveStages
    PROVE  LET state == Requested(pc[e]) IN
           \/ (ResolveUpdated(e, state) \/ ResolveAgreed(e, state)) /\ AfterResolved(e)
           \/ ResolveMissed(e, state) /\ UNCHANGED taskVars
           \/ /\ ResolveRefused(e, state)
              /\ Again(e, pc[e]) \/ (tries[e] >= MaxAttempts /\ AfterResolved(e))
           \/ /\ Fault({"db"})
              /\ ResolveUpdated(e, state) \/ UNCHANGED rows
              /\ Again(e, pc[e]) \/ (tries[e] >= MaxAttempts /\ AfterResolved(e))
<1>1. ResolveNonce(e)
  BY StageOf DEF ResolveStages
<1>2. ASSUME Retry(e, pc[e], AfterResolve(e))
      PROVE  Again(e, pc[e]) \/ (tries[e] >= MaxAttempts /\ AfterResolved(e))
  BY <1>2, RetriedOrResolved
<1>3. QED
  BY <1>1, <1>2, Resolved DEF ResolveNonce, RereadFailed

\* Every other stage leaves the table alone.
LEMMA OtherStage ==
    ASSUME NEW e \in Exec, Run(e), pc[e] \notin {"reserve", "sync"} \cup ResolveStages
    PROVE  UNCHANGED nonceVars
BY DEF Run, RelayHost, NonceReserve, NonceSync, ResolveNonce, Sign, Resign, SignCall,
       AcquireEndpoint, RevertSign, ValidationOpened, Broadcast, BroadcastNotInserted,
       BroadcastSent, BroadcastRefused, BroadcastMismatch, FetchNonce, Poll, PollTimedOut,
       PollReverted, PollIncluded, PollRpcError, PollAgain, vars, ResolveStages

\* The rows of e in any step.
LEMMA RowsOf ==
    ASSUME TypeOK, TaskOK, sweep = NoSweep, LastActive, [Next]_vars, NEW e \in Exec
    PROVE  \/ RowsQuiet(e)
           \/ /\ pc[e] = "reserve"
              /\ \E n \in 0..MaxNonce : ReserveInserted(e, n) /\ Inserts(e, n)
           \/ /\ pc[e] = "sync"
              /\ SyncInserted(e, ctx[e].onChain) /\ Inserts(e, ctx[e].onChain)
           \/ pc[e] \in ResolveStages /\ Resolves(e, Requested(pc[e]))
<1>0. ASSUME UNCHANGED rows
      PROVE  RowsQuiet(e)
  BY <1>0 DEF RowsQuiet
<1>1. CASE ~Run(e)
  BY <1>1, RowsElsewhere
<1>2. CASE Run(e) /\ pc[e] = "reserve"
  <2>1. (\E n \in 0..MaxNonce : ReserveInserted(e, n)) \/ ReserveHeld(e) \/ UNCHANGED rows
    BY <1>2, ReserveStage DEF ReserveReread
  <2>2. ASSUME NEW n \in 0..MaxNonce, ReserveInserted(e, n)
        PROVE  Inserts(e, n)
    <3>1. n \in Nat
      BY ConstantsAssumption
    <3>2. QED
      BY <2>2, <3>1, RowsInserted
  <2>3. QED
    BY <1>0, <1>2, <2>1, <2>2, HeldQuiet
<1>3. CASE Run(e) /\ pc[e] = "sync"
  <2>1. SyncInserted(e, ctx[e].onChain) \/ UNCHANGED rows
    BY <1>3, SyncStage DEF SyncReread
  <2>2. ctx[e].onChain \in Nat
    BY ConstantsAssumption DEF TaskOK, Locals
  <2>3. QED
    BY <1>0, <1>3, <2>1, <2>2, RowsInserted
<1>4. CASE Run(e) /\ pc[e] \in ResolveStages
  <2>1. ResolveUpdated(e, Requested(pc[e])) \/ UNCHANGED rows
    BY <1>4, ResolveStage DEF ResolveAgreed, ResolveMissed, ResolveRefused
  <2>2. Requested(pc[e]) \in Resolutions
    BY <1>4 DEF ResolveStages, Requested, Resolutions
  <2>3. QED
    BY <1>0, <1>4, <2>1, <2>2, UpdateResolves
<1>5. CASE Run(e) /\ pc[e] \notin {"reserve", "sync"} \cup ResolveStages
  BY <1>0, <1>5, OtherStage
<1>6. QED
  BY <1>1, <1>2, <1>3, <1>4, <1>5

-----------------------------------------------------------------------------
(* What that means for the claim of the execution *)

\* A step that is not its own leaves the claim of an execution as it is.
LEMMA QuietKeeps ==
    ASSUME TypeOK, NEW e \in Exec, RowsQuiet(e)
    PROVE  /\ HasActive(e)' <=> HasActive(e)
           /\ HasReservation(e)' <=> HasReservation(e)
           /\ \A n : HoldsNonce(e, n) => HoldsNonce(e, n)'
           /\ LatestIs(e, "finalized") => LatestIs(e, "finalized")'
           /\ \A r \in 1..Len(rows[e]) : IsActive(e, r)' <=> IsActive(e, r)
<1>1. Len(rows[e]) \in Nat /\ Len(rows'[e]) = Len(rows[e])
  BY RowTyped DEF RowsQuiet
<1>2. ASSUME NEW r \in 1..Len(rows[e])
      PROVE  /\ IsActive(e, r)' <=> IsActive(e, r)
             /\ rows'[e][r].state = "reserved" <=> rows[e][r].state = "reserved"
             /\ rows'[e][r].state = "finalized" <=> rows[e][r].state = "finalized"
             /\ rows'[e][r].nonce = rows[e][r].nonce
  BY <1>2 DEF RowsQuiet, IsActive, ActiveStates
<1>3. HasActive(e)' <=> HasActive(e)
  BY <1>1, <1>2 DEF HasActive
<1>4. HasReservation(e)' <=> HasReservation(e)
  BY <1>1, <1>2 DEF HasReservation
<1>5. ASSUME NEW n, HoldsNonce(e, n)
      PROVE  HoldsNonce(e, n)'
  BY <1>1, <1>2, <1>5 DEF HoldsNonce
<1>6. LatestIs(e, "finalized") => LatestIs(e, "finalized")'
  BY <1>1, <1>2 DEF LatestIs
<1>7. QED
  BY <1>2, <1>3, <1>4, <1>5, <1>6

\* A new reservation is a claim.
LEMMA InsertClaims ==
    ASSUME TypeOK, NEW e \in Exec, NEW n, Inserts(e, n)
    PROVE  /\ Len(rows'[e]) = Len(rows[e]) + 1
           /\ HasActive(e)' /\ HoldsNonce(e, n)'
<1>1. Len(rows[e]) \in Nat
  BY RowTyped
<1>2. /\ Len(rows'[e]) = Len(rows[e]) + 1
      /\ Len(rows[e]) + 1 \in 1..Len(rows'[e])
      /\ rows'[e][Len(rows[e]) + 1].nonce = n
      /\ rows'[e][Len(rows[e]) + 1].state = "reserved"
  BY <1>1 DEF Inserts
<1>3. PICK r \in 1..Len(rows'[e]) : rows'[e][r].state = "reserved" /\ rows'[e][r].nonce = n
  BY <1>2
<1>4. IsActive(e, r)'
  BY <1>3 DEF IsActive, ActiveStates
<1>5. QED
  BY <1>2, <1>3, <1>4 DEF HasActive, HoldsNonce

\* A resolved reservation was the only one; finalized it stays a claim.
LEMMA ResolveClaims ==
    ASSUME TypeOK, LastActive, NEW e \in Exec, NEW state \in Resolutions, Resolves(e, state)
    PROVE  /\ Len(rows'[e]) = Len(rows[e])
           /\ ~HasReservation(e)'
           /\ state = "finalized" => /\ LatestIs(e, "finalized")'
                                     /\ \A n : HoldsNonce(e, n) => HoldsNonce(e, n)'
<1>1. /\ Len(rows[e]) \in Nat /\ Len(rows'[e]) = Len(rows[e]) /\ Len(rows[e]) > 0
      /\ Len(rows[e]) \in 1..Len(rows[e])
      /\ state # "reserved"
  BY RowTyped DEF Resolves, Resolutions
<1>2. ASSUME NEW r \in 1..Len(rows[e])
      PROVE  rows'[e][r].state # "reserved"
  <2>1. CASE r = Len(rows[e])
    BY <1>1, <2>1 DEF Resolves
  <2>2. CASE r # Len(rows[e])
    BY <2>2 DEF Resolves, LastActive, IsActive, ActiveStates
  <2>3. QED
    BY <2>1, <2>2
<1>3. ~HasReservation(e)'
  BY <1>1, <1>2 DEF HasReservation
<1>4. ASSUME state = "finalized", NEW n, HoldsNonce(e, n)
      PROVE  HoldsNonce(e, n)'
  <2>1. PICK r \in 1..Len(rows[e]) : IsActive(e, r) /\ rows[e][r].nonce = n
    BY <1>4 DEF HoldsNonce
  <2>2. r = Len(rows[e])
    BY <2>1 DEF LastActive
  <2>3. r \in 1..Len(rows'[e]) /\ rows'[e][r].state = "finalized" /\ rows'[e][r].nonce = n
    BY <1>1, <1>4, <2>1, <2>2 DEF Resolves
  <2>4. IsActive(e, r)'
    BY <2>3 DEF IsActive, ActiveStates
  <2>5. QED
    BY <2>3, <2>4 DEF HoldsNonce
<1>5. ASSUME state = "finalized"
      PROVE  LatestIs(e, "finalized")'
  BY <1>1, <1>5 DEF LatestIs, Resolves
<1>6. QED
  BY <1>1, <1>3, <1>4, <1>5

\* The table inside the leases: no sweep, and one claim per execution, its last revision.
TimelyTable == sweep = NoSweep /\ LastActive

\* TimelyTable is inductive.
LEMMA TableStep ==
    ASSUME TypeOK, TaskOK, InLease, TimelyTable, [Next]_vars
    PROVE  TimelyTable'
<1>0. [NonceNext]_nonceVars
  BY NonceSimulation
<1>1. sweep' = NoSweep'
  BY <1>0, NoSweepKept DEF TimelyTable, NoSweep
<1>2. SUFFICES ASSUME NEW e \in Exec, NEW r \in 1..Len(rows'[e]), IsActive(e, r)'
               PROVE  r = Len(rows'[e])
  BY <1>1 DEF TimelyTable, LastActive
<1>3. Len(rows[e]) \in Nat
  BY RowTyped
<1>4. CASE RowsQuiet(e)
  <2>1. Len(rows'[e]) = Len(rows[e])
    BY <1>4 DEF RowsQuiet
  <2>2. IsActive(e, r)
    BY <1>2, <1>4, <2>1, QuietKeeps
  <2>3. QED
    BY <1>2, <2>1, <2>2 DEF TimelyTable, LastActive
<1>5. ASSUME NEW n, Inserts(e, n), ~HasClaim(e, ReserveLease) \/ ~HasClaim(e, SyncLease)
      PROVE  r = Len(rows'[e])
  <2>1. ~HasActive(e)
    BY <1>5, NoClaim
  <2>2. Len(rows'[e]) = Len(rows[e]) + 1
    BY <1>5 DEF Inserts
  <2>3. CASE r \in 1..Len(rows[e])
    <3>1. rows[e][r].state \notin ActiveStates
      BY <2>1, <2>3 DEF HasActive, IsActive
    <3>2. rows'[e][r] = rows[e][r] \/ rows'[e][r].state = "consumed"
      BY <1>5, <2>3 DEF Inserts
    <3>3. QED
      BY <1>2, <3>1, <3>2 DEF IsActive, ActiveStates
  <2>4. QED
    BY <1>2, <1>3, <2>2, <2>3
<1>6. ASSUME NEW state, Resolves(e, state)
      PROVE  r = Len(rows'[e])
  <2>1. CASE r # Len(rows[e])
    <3>1. r \in 1..Len(rows[e]) /\ rows'[e][r] = rows[e][r]
      BY <1>2, <1>6, <2>1 DEF Resolves
    <3>2. IsActive(e, r)
      BY <1>2, <3>1 DEF IsActive
    <3>3. QED
      BY <2>1, <3>1, <3>2 DEF TimelyTable, LastActive
  <2>2. QED
    BY <1>6, <2>1 DEF Resolves
<1>7. QED
  BY <1>4, <1>5, <1>6, RowsOf DEF TimelyTable, ReserveInserted, SyncInserted

-----------------------------------------------------------------------------
(* A pipeline holds the nonce it works with *)

HoldStages == NonceInHand \cup {"validate", "poll", "finalise"}

\* From the reservation to the end of the validation the nonce of the transaction is the
\* claim of its execution.
HoldInv == \A e \in Exec : pc[e] \in HoldStages => HoldsNonce(e, ctx[e].nonce)

\* HoldInv is inductive.
LEMMA HoldStep ==
    ASSUME TypeOK, TaskOK, InLease, TimelyTable, HoldInv, [Next]_vars
    PROVE  HoldInv'
<1> SUFFICES ASSUME NEW e \in Exec, pc'[e] \in HoldStages
             PROVE  HoldsNonce(e, ctx[e].nonce)'
  BY DEF HoldInv, HoldStages, NonceInHand
<1>0. sweep = NoSweep /\ LastActive
  BY DEF TimelyTable
<1>1. ASSUME NEW n, n = ctx'[e].nonce, HoldsNonce(e, n)'
      PROVE  HoldsNonce(e, ctx[e].nonce)'
  BY <1>1 DEF HoldsNonce
<1>2. ASSUME pc[e] \in HoldStages, ctx'[e].nonce = ctx[e].nonce
      PROVE  HoldsNonce(e, ctx[e].nonce)'
  <2>1. HoldsNonce(e, ctx[e].nonce)
    BY <1>2 DEF HoldInv
  <2>2. PICK n : n = ctx[e].nonce
    OBVIOUS
  <2>3. RowsQuiet(e) \/ Resolves(e, "finalized")
    BY <1>0, <1>2, RowsOf DEF HoldStages, NonceInHand, ResolveStages, Requested
  <2>4. HoldsNonce(e, n)'
    BY <1>0, <2>1, <2>2, <2>3, QuietKeeps, ResolveClaims DEF Resolutions
  <2>5. QED
    BY <1>1, <1>2, <2>2, <2>4
<1>3. CASE Run(e)
  <2>1. \/ pc[e] \in HoldStages /\ ctx'[e].nonce = ctx[e].nonce
        \/ pc[e] \in {"reserve", "sync"}
    BY <1>3, RunMoves
    DEF RunTable, AfterResolved, Moves, Again, Fails, Releases, Grants, Asks, Recovers,
        SameLocals, taskVars, NonceInHand, HoldStages
  <2>2. /\ ~Again(e, "reserve") /\ ~Fails(e, "nonce_reserve")
        /\ ~Again(e, "sync") /\ ~Fails(e, "nonce_sync")
    BY DEF Again, Fails, HoldStages, NonceInHand
  <2>3. ASSUME NEW n, Grants(e, n, "sign") \/ Grants(e, n, "resign"), HoldsNonce(e, n)'
        PROVE  HoldsNonce(e, ctx[e].nonce)'
    BY <1>1, <2>3 DEF Grants
  <2>4. ASSUME NEW n, ReserveReread(e, n) \/ SyncReread(e, n)
        PROVE  HoldsNonce(e, n)'
    <3>1. HoldsNonce(e, n) /\ UNCHANGED rows
      BY <2>4 DEF ReserveReread, SyncReread, IsLatestActive, HoldsNonce
    <3>2. QED
      BY <3>1 DEF HoldsNonce, IsActive
  <2>5. ASSUME NEW n \in Nat, ReserveInserted(e, n) \/ SyncInserted(e, n)
        PROVE  HoldsNonce(e, n)'
    BY <2>5, RowsInserted, InsertClaims
  <2>6. CASE pc[e] = "reserve"
    <3>1. taskVars' # taskVars
      BY <2>6 DEF taskVars, HoldStages, NonceInHand
    <3>2. PICK n \in 0..MaxNonce : /\ ReserveInserted(e, n) \/ ReserveReread(e, n)
                                   /\ Grants(e, n, "sign")
      BY <1>3, <2>2, <2>6, <3>1, ReserveStage
    <3>3. n \in Nat
      BY ConstantsAssumption
    <3>4. QED
      BY <2>3, <2>4, <2>5, <3>2, <3>3
  <2>7. CASE pc[e] = "sync"
    <3>1. taskVars' # taskVars
      BY <2>7 DEF taskVars, HoldStages, NonceInHand
    <3>2. \/ SyncInserted(e, ctx[e].onChain) /\ Grants(e, ctx[e].onChain, "resign")
          \/ \E n \in 0..MaxNonce : SyncReread(e, n) /\ Grants(e, n, "resign")
      BY <1>3, <2>2, <2>7, <3>1, SyncStage
    <3>3. ctx[e].onChain \in Nat
      BY ConstantsAssumption DEF TaskOK, Locals
    <3>4. PICK n : /\ (n \in Nat /\ SyncInserted(e, n)) \/ SyncReread(e, n)
                   /\ Grants(e, n, "resign")
      BY <3>2, <3>3
    <3>5. QED
      BY <2>3, <2>4, <2>5, <3>4
  <2>8. QED
    BY <1>2, <2>1, <2>6, <2>7
<1>4. CASE ~Run(e)
  <2>1. pc[e] \in HoldStages /\ ctx'[e].nonce = ctx[e].nonce
    <3>1. ASSUME NEW f \in Exec, Run(f), f # e
          PROVE  pc'[e] = pc[e] /\ ctx'[e] = ctx[e]
      BY <3>1, RunMoves DEF Elsewhere
    <3>2. CASE ~\E f \in Exec : Run(f)
      BY <3>2, OtherMoves DEF Moves, HoldStages, NonceInHand, InFlight, Stages
    <3>3. QED
      BY <1>4, <3>1, <3>2
  <2>2. QED
    BY <1>2, <2>1
<1>5. QED
  BY <1>3, <1>4

\* The leases, and the table and the claims as they are inside them.
LEMMA HoldInvariant == Spec /\ []InLease => [](TypeOK /\ TimelyTable /\ HoldInv)
<1>1. Init => TimelyTable /\ HoldInv
  BY DEF Init, NonceInit, TimelyTable, LastActive, HoldInv, HoldStages, NonceInHand
<1>2. TypeOK /\ PipelineTypeOK /\ InLease /\ TimelyTable /\ HoldInv /\ [Next]_vars
        => TimelyTable' /\ HoldInv'
  BY TableStep, HoldStep DEF PipelineTypeOK
<1>3. Spec => []TypeOK
  BY PipelineImplementsNonceTable, TypeCorrect, PTL
<1>4. QED
  BY <1>1, <1>2, <1>3, PipelineTypeCorrect, PTL DEF Spec

\* A pipeline signs and broadcasts only with a nonce that it holds at that moment, whatever
\* was retried, recovered, lost or restarted before, as long as no reservation outlives
\* its lease.
THEOREM OwnNonce == Spec /\ []InLease => []BroadcastsOwnNonce
<1>1. HoldInv => BroadcastsOwnNonce
  BY DEF HoldInv, BroadcastsOwnNonce, HoldStages, NonceInHand
<1>2. QED
  BY <1>1, HoldInvariant, PTL

-----------------------------------------------------------------------------
(* One recovery *)

\* The revisions an execution has, by how far its pipeline has come.
CountOf(e) ==
    /\ Len(rows[e]) <= 2
    /\ ~ctx[e].retried => Len(rows[e]) <= 1
    /\ pc[e] \in {"idle", "relay_host", "refused"} => Len(rows[e]) = 0
    /\ pc[e] = "reserve" => Len(rows[e]) = 0 \/ HasActive(e)
    /\ pc[e] \in {"consume", "revert_sign"} => Len(rows[e]) <= 1
    /\ pc[e] = "sync" => Len(rows[e]) <= 1 \/ HasActive(e)
    /\ pc[e] \in {"consume", "revert_sign", "sync"} => ctx[e].retried
    /\ pc[e] \in {"idle", "relay_host", "reserve"} => ~ctx[e].retried

CountInv == \A e \in Exec : CountOf(e)

\* CountInv is inductive.
LEMMA CountStep ==
    ASSUME TypeOK, TaskOK, InLease, TimelyTable, CountInv, [Next]_vars
    PROVE  CountInv'
<1> SUFFICES ASSUME NEW e \in Exec
             PROVE  CountOf(e)'
  BY DEF CountInv
<1>0. sweep = NoSweep /\ LastActive /\ CountOf(e) /\ Len(rows[e]) \in Nat
  BY RowTyped DEF TimelyTable, CountInv
<1>1. ASSUME Len(rows'[e]) = Len(rows[e]), HasActive(e)' <=> HasActive(e), ~Run(e)
      PROVE  CountOf(e)'
  <2>1. ASSUME NEW f \in Exec, Run(f), f # e
        PROVE  pc'[e] = pc[e] /\ ctx'[e] = ctx[e]
    BY <2>1, RunMoves DEF Elsewhere
  <2>2. \/ pc[e] = "idle" /\ pc'[e] \in {"relay_host", "refused"}
        \/ pc'[e] = "lost"
        \/ pc'[e] = pc[e]
    BY <1>1, <2>1, OtherMoves DEF Moves
  <2>3. ctx'[e].retried = ctx[e].retried
    BY <1>1, <2>1, OtherMoves DEF Moves
  <2>4. QED
    BY <1>0, <1>1, <2>2, <2>3 DEF CountOf
<1>2. CASE ~Run(e)
  BY <1>0, <1>1, <1>2, RowsElsewhere, QuietKeeps DEF RowsQuiet
<1>3. CASE Run(e)
  <2>0. RunTable(e) /\ pc[e] \in Stages
    BY <1>3, RunMoves
  <2>1. ASSUME Len(rows'[e]) = Len(rows[e]),
               \/ HasActive(e)' <=> HasActive(e)
               \/ pc[e] \in ResolveStages
        PROVE  CountOf(e)'
    BY <1>0, <2>0, <2>1
    DEF CountOf, ResolveStages, RunTable, AfterResolved, Moves, Again, Fails, Releases, Grants,
        Asks, Recovers, SameLocals, taskVars, Stages
  <2>2. ASSUME pc[e] \in {"reserve", "sync"}, Len(rows'[e]) = Len(rows[e]) + 1, HasActive(e)',
               ~HasActive(e)
        PROVE  CountOf(e)'
    <3>1. CASE pc[e] = "reserve"
      <4>1. Len(rows'[e]) = 1 /\ ~ctx[e].retried
        BY <1>0, <2>2, <3>1 DEF CountOf
      <4>2. /\ pc'[e] \in {"reserve", "sign", "done"}
            /\ ctx'[e].retried = ctx[e].retried
        BY <2>0, <3>1
        DEF RunTable, Again, Fails, Grants, SameLocals, taskVars
      <4>3. ~ctx'[e].retried
        BY <4>1, <4>2
      <4>4. Len(rows'[e]) <= 2 /\ Len(rows'[e]) <= 1
        BY <4>1
      <4>5. QED
        BY <2>2, <4>2, <4>3, <4>4 DEF CountOf
    <3>2. CASE pc[e] = "sync"
      <4>1. Len(rows'[e]) <= 2 /\ ctx[e].retried
        BY <1>0, <2>2, <3>2 DEF CountOf
      <4>2. /\ pc'[e] \in {"sync", "resign", "done"}
            /\ ctx'[e].retried = ctx[e].retried
        BY <2>0, <3>2
        DEF RunTable, Again, Fails, Grants, SameLocals, taskVars
      <4>3. QED
        BY <2>2, <4>1, <4>2 DEF CountOf
    <3>3. QED
      BY <2>2, <3>1, <3>2
  <2>3. CASE RowsQuiet(e)
    BY <2>1, <2>3, QuietKeeps DEF RowsQuiet
  <2>4. ASSUME pc[e] \in {"reserve", "sync"}, NEW n, Inserts(e, n),
               ~HasClaim(e, ReserveLease) \/ ~HasClaim(e, SyncLease)
        PROVE  CountOf(e)'
    BY <2>2, <2>4, InsertClaims, NoClaim
  <2>5. ASSUME pc[e] \in ResolveStages, Resolves(e, Requested(pc[e]))
        PROVE  CountOf(e)'
    BY <2>1, <2>5 DEF Resolves
  <2>6. QED
    BY <1>0, <2>3, <2>4, <2>5, RowsOf DEF ReserveInserted, SyncInserted
<1>4. QED
  BY <1>2, <1>3

\* The reservation, its retries and the one recovery from a nonce mismatch leave an
\* execution with at most two revisions, as long as no reservation outlives its lease: a
\* retried reserve or sync finds the row that the lost attempt inserted.
THEOREM AtMostOneRecovery == Spec /\ []InLease => []OneRecovery
<1>1. Init => CountInv
  <2> SUFFICES ASSUME Init, NEW e \in Exec
               PROVE  CountOf(e)
    BY DEF CountInv
  <2>1. rows[e] = <<>> /\ pc[e] = "idle" /\ ~ctx[e].retried
    BY DEF Init, NonceInit
  <2>2. Len(rows[e]) = 0
    BY <2>1
  <2>3. QED
    BY <2>1, <2>2 DEF CountOf
<1>2. TypeOK /\ PipelineTypeOK /\ InLease /\ TimelyTable /\ CountInv /\ [Next]_vars => CountInv'
  BY CountStep DEF PipelineTypeOK
<1>3. CountInv => OneRecovery
  BY DEF CountInv, CountOf, OneRecovery
<1>4. QED
  BY <1>1, <1>2, <1>3, HoldInvariant, PipelineTypeCorrect, PTL DEF Spec

-----------------------------------------------------------------------------
(* The second query of resolve *)

\* resolve runs its second query only where there is no reservation left to resolve.
AnsweredInv == \A e \in Exec : engine[e] \in Resolutions => ~HasReservation(e)

\* How a handler comes to wait for the second query of resolve.
LEMMA EngineWaits ==
    ASSUME TypeOK, [NonceNext]_nonceVars, NEW e \in Exec, engine'[e] \in Resolutions
    PROVE  engine'[e] = engine[e] \/ \E state \in Resolutions : ResolveMissed(e, state)
<1>0. "idle" \notin Resolutions /\ "reserve" \notin Resolutions /\ "sync" \notin Resolutions
  BY DEF Resolutions
<1>1. ASSUME NEW f \in Exec, NEW op, Answer(f, op)
      PROVE  engine'[e] = engine[e]
  BY <1>0, <1>1 DEF Answer, TypeOK
<1>2. ASSUME NEW f \in Exec, Reserve(f)
      PROVE  engine'[e] = engine[e]
  <2>1. ASSUME ReserveHeld(f)
        PROVE  engine'[e] = engine[e]
    BY <1>0, <2>1 DEF ReserveHeld, Await, TypeOK
  <2>2. QED
    BY <1>1, <1>2, <2>1
    DEF Reserve, ReserveInserted, ReserveReread, ReserveConflict, ReserveGone
<1>3. ASSUME NEW f \in Exec, Sync(f)
      PROVE  engine'[e] = engine[e]
  <2>1. ASSUME NEW n, SyncHeld(f, n)
        PROVE  engine'[e] = engine[e]
    BY <1>0, <2>1 DEF SyncHeld, Await, TypeOK
  <2>2. QED
    BY <1>1, <1>3, <2>1
    DEF Sync, SyncInserted, SyncReread, SyncConflict, SyncRejected
<1>4. ASSUME NEW f \in Exec, Resolve(f)
      PROVE  engine'[e] = engine[e] \/ \E state \in Resolutions : ResolveMissed(e, state)
  <2>1. ASSUME NEW state \in Resolutions, ResolveMissed(f, state), f # e
        PROVE  engine'[e] = engine[e]
    BY <2>1 DEF ResolveMissed, Await, TypeOK
  <2>2. QED
    BY <1>1, <1>4, <2>1
    DEF Resolve, ResolveUpdated, ResolveAgreed, ResolveRefused
<1>5. CASE Tick \/ Sweep \/ UNCHANGED nonceVars
  BY <1>5 DEF Tick, Sweep, SweepScan, SweepLock, SweepCommit, SweepFailed
<1>6. CASE Restart
  BY <1>0, <1>6 DEF Restart
<1>7. ASSUME NEW f \in Exec, RereadFailed(f)
      PROVE  engine'[e] = engine[e]
  BY <1>1, <1>7 DEF RereadFailed
<1>8. QED
  BY <1>2, <1>3, <1>4, <1>5, <1>6, <1>7 DEF NonceNext

\* AnsweredInv is inductive.
LEMMA AnsweredStep ==
    ASSUME TypeOK, TaskOK, InLease, TimelyTable, AnsweredInv, [Next]_vars
    PROVE  AnsweredInv'
<1> SUFFICES ASSUME NEW e \in Exec, engine'[e] \in Resolutions
             PROVE  ~HasReservation(e)'
  BY DEF AnsweredInv, Resolutions
<1>0. sweep = NoSweep /\ LastActive /\ [NonceNext]_nonceVars
  BY NonceSimulation DEF TimelyTable
<1>1. ASSUME NEW state \in Resolutions, ResolveMissed(e, state)
      PROVE  ~HasReservation(e)'
  <2>1. ASSUME NEW r \in 1..Len(rows[e]), rows[e][r].state = "reserved"
        PROVE  FALSE
    <3>1. r = Len(rows[e]) /\ Len(rows[e]) \in Nat
      BY <1>0, <2>1, RowTyped DEF LastActive, IsActive, ActiveStates
    <3>2. <<e, r>> \notin Locked
      BY <1>0 DEF Locked, NoSweep
    <3>3. IsResolvable(e, r)
      BY <2>1, <3>1, <3>2 DEF IsResolvable
    <3>4. QED
      BY <1>1, <2>1, <3>3 DEF ResolveMissed
  <2>2. UNCHANGED rows
    BY <1>1 DEF ResolveMissed
  <2>3. QED
    BY <2>1, <2>2 DEF HasReservation
<1>2. CASE engine[e] = engine'[e]
  <2>1. ~HasReservation(e) /\ ~EngineFree(e)
    BY <1>2 DEF AnsweredInv, EngineFree, SameEngine, Resolutions
  <2>2. RowsQuiet(e) \/ (pc[e] \in ResolveStages /\ Resolves(e, Requested(pc[e])))
    BY <1>0, <2>1, RowsOf DEF ReserveInserted, SyncInserted
  <2>3. pc[e] \in ResolveStages => Requested(pc[e]) \in Resolutions
    BY DEF ResolveStages, Requested, Resolutions
  <2>4. QED
    BY <1>0, <2>1, <2>2, <2>3, QuietKeeps, ResolveClaims
<1>3. QED
  BY <1>0, <1>1, <1>2, EngineWaits

-----------------------------------------------------------------------------
(* What is confirmed is finalized *)

\* Where fewer database faults have happened than finalise_nonce has attempts: each failed
\* attempt is one of them, and ConfirmedOnChain is not reported before the row says so.
FinalInv ==
    faults["db"] <= MaxAttempts =>
        \A e \in Exec :
            /\ pc[e] = "finalise" => tries[e] <= faults["db"]
            /\ status[e] = "ConfirmedOnChain" => LatestIs(e, "finalized")

\* Faults are only counted.
LEMMA DbFaults ==
    ASSUME FaultsOK, [Next]_vars
    PROVE  /\ faults["db"] \in Nat /\ faults'["db"] \in Nat
           /\ faults["db"] <= faults'["db"]
           /\ Fault({"db"}) \/ Fault({"rpc", "db"}) => faults'["db"] = faults["db"] + 1
<1>1. faults["db"] \in Nat
  BY DEF FaultsOK
<1>2. Fault({"db"}) \/ Fault({"rpc", "db"}) => faults'["db"] = faults["db"] + 1
  BY FaultCounts
<1>3. Fault({"rpc"}) \/ Fault({"crash"}) => faults'["db"] = faults["db"]
  BY FaultCounts
<1>4. QED
  BY <1>1, <1>2, <1>3, FaultKinds

\* finalise_nonce is not refused: the claim it should finalize is there, or finalized.
LEMMA NotRefused ==
    ASSUME TypeOK, TimelyTable, HoldInv, AnsweredInv, NEW e \in Exec, pc[e] = "finalise"
    PROVE  ~ResolveRefused(e, "finalized")
<1> SUFFICES ASSUME engine[e] = "finalized"
             PROVE  LatestIs(e, "finalized")
  BY DEF ResolveRefused, Answer
<1>1. PICK r \in 1..Len(rows[e]) : IsActive(e, r)
  BY DEF HoldInv, HoldStages, HoldsNonce
<1>2. r = Len(rows[e]) /\ Len(rows[e]) \in Nat
  BY <1>1, RowTyped DEF TimelyTable, LastActive
<1>3. rows[e][r].state # "reserved"
  BY <1>1 DEF AnsweredInv, HasReservation, Resolutions
<1>4. QED
  BY <1>1, <1>2, <1>3 DEF LatestIs, IsActive, ActiveStates

\* FinalInv is inductive.
LEMMA FinalStep ==
    ASSUME TypeOK, TaskOK, FaultsOK, InLease, TimelyTable, HoldInv, AnsweredInv, ConfirmInv,
           FinalInv, [Next]_vars
    PROVE  FinalInv'
<1> SUFFICES ASSUME faults'["db"] <= MaxAttempts, NEW e \in Exec
             PROVE  /\ pc'[e] = "finalise" => tries'[e] <= faults'["db"]
                    /\ status'[e] = "ConfirmedOnChain" => LatestIs(e, "finalized")'
  BY DEF FinalInv
<1>0. sweep = NoSweep /\ LastActive /\ MaxAttempts \in Nat /\ tries[e] \in Nat
  BY PipelineAssumption DEF TimelyTable, TaskOK
<1>1. /\ faults["db"] \in Nat /\ faults'["db"] \in Nat /\ faults["db"] <= faults'["db"]
      /\ Fault({"db"}) => faults'["db"] = faults["db"] + 1
  BY DbFaults
<1>2. /\ pc[e] = "finalise" => tries[e] <= faults["db"]
      /\ status[e] = "ConfirmedOnChain" => LatestIs(e, "finalized")
  BY <1>0, <1>1 DEF FinalInv
<1>3. CASE ~Run(e)
  <2>1. ASSUME NEW f \in Exec, Run(f), f # e
        PROVE  pc'[e] = pc[e] /\ tries'[e] = tries[e] /\ status'[e] = status[e]
    BY <2>1, RunMoves DEF Elsewhere
  <2>2. CASE ~\E f \in Exec : Run(f)
    <3>1. status'[e] \in Recovered(e) => status'[e] # "ConfirmedOnChain" \/ status'[e] = status[e]
      BY DEF Recovered, Ended
    <3>2. /\ pc'[e] = "finalise" => pc[e] = "finalise" /\ tries'[e] = tries[e]
          /\ status'[e] = "ConfirmedOnChain" => status[e] = "ConfirmedOnChain"
      BY <2>2, <3>1, OtherMoves DEF Moves, InFlight, Stages
    <3>3. QED
      BY <1>0, <1>1, <1>2, <1>3, <3>2, RowsElsewhere, QuietKeeps
  <2>3. QED
    BY <1>0, <1>1, <1>2, <1>3, <2>1, <2>2, RowsElsewhere, QuietKeeps
<1>4. CASE Run(e) /\ pc[e] # "finalise"
  <2>1. status[e] # "ConfirmedOnChain"
    BY <1>4, RunMoves DEF ConfirmInv, Ended, Stages
  <2>2. status'[e] # "ConfirmedOnChain"
    BY <1>4, <2>1, RunReports
  <2>3. pc'[e] = "finalise" => tries'[e] = 0
    BY <1>4, RunMoves
    DEF RunTable, AfterResolved, Moves, Again, Fails, Releases, Grants, Asks, Recovers, taskVars
  <2>4. QED
    BY <1>1, <2>2, <2>3
<1>5. CASE Run(e) /\ pc[e] = "finalise"
  <2>0. /\ Requested(pc[e]) = "finalized" /\ pc[e] \in ResolveStages /\ "finalized" \in Resolutions
        /\ status[e] # "ConfirmedOnChain"
    BY <1>5 DEF Requested, ResolveStages, Resolutions, ConfirmInv, Ended
  <2>1. \/ (ResolveUpdated(e, "finalized") \/ ResolveAgreed(e, "finalized")) /\ AfterResolved(e)
        \/ UNCHANGED taskVars
        \/ Fault({"db"}) /\ (Again(e, "finalise") \/ (tries[e] >= MaxAttempts /\ AfterResolved(e)))
    BY <1>5, <2>0, ResolveStage, NotRefused
  <2>2. CASE (ResolveUpdated(e, "finalized") \/ ResolveAgreed(e, "finalized")) /\ AfterResolved(e)
    <3>1. pc'[e] = "done"
      BY <1>5, <2>2 DEF AfterResolved, Moves
    <3>2. ResolveUpdated(e, "finalized") => Resolves(e, "finalized")
      BY <1>0, <2>0, UpdateResolves
    <3>3. ResolveAgreed(e, "finalized") => LatestIs(e, "finalized")'
      BY DEF ResolveAgreed, LatestIs
    <3>4. QED
      BY <1>0, <2>0, <2>2, <3>1, <3>2, <3>3, ResolveClaims
  <2>3. CASE UNCHANGED taskVars
    BY <1>0, <1>1, <1>2, <1>5, <2>0, <2>3 DEF taskVars
  <2>4. CASE Fault({"db"}) /\ Again(e, "finalise")
    BY <1>0, <1>1, <1>2, <1>5, <2>0, <2>4 DEF Again
  <2>5. CASE Fault({"db"}) /\ tries[e] >= MaxAttempts
    BY <1>0, <1>1, <1>2, <1>5, <2>5
  <2>6. QED
    BY <2>1, <2>2, <2>3, <2>4, <2>5
<1>6. QED
  BY <1>3, <1>4, <1>5

\* The invariants of the tasks and the engine, inside the leases.
LEMMA FinalInvariant == Spec /\ []InLease => [](AnsweredInv /\ FinalInv)
<1>1. Init => AnsweredInv
  BY DEF Init, NonceInit, AnsweredInv, Resolutions
<1>2. Init => FinalInv
  BY DEF Init, FinalInv
<1>3. TypeOK /\ PipelineTypeOK /\ InLease /\ TimelyTable /\ HoldInv /\ ConfirmInv
        /\ AnsweredInv /\ FinalInv /\ [Next]_vars => AnsweredInv' /\ FinalInv'
  BY AnsweredStep, FinalStep DEF PipelineTypeOK
<1>4. QED
  BY <1>1, <1>2, <1>3, HoldInvariant, SendInvariant, PipelineTypeCorrect, PTL DEF Spec

\* What is reported as confirmed is finalized in the table, although a finalise_nonce
\* that fails for good is only logged, as long as no reservation outlives its lease and
\* the database has failed no more often than finalise_nonce is retried.
THEOREM ConfirmedWasFinalized ==
    Spec /\ []InLease => [](faults["db"] <= MaxAttempts => ConfirmedIsFinalized)
<1>1. FinalInv => (faults["db"] <= MaxAttempts => ConfirmedIsFinalized)
  BY DEF FinalInv, ConfirmedIsFinalized
<1>2. QED
  BY <1>1, FinalInvariant, PTL

-----------------------------------------------------------------------------
(* No reservation is left behind *)

\* The stages in which a pipeline has no nonce yet, or has given one up.
EmptyHanded == {"idle", "relay_host", "reserve", "refused", "revert_sign", "sync"}

LeakInv ==
    faults["db"] = 0 =>
        \A e \in Exec :
            /\ pc[e] \in EmptyHanded => ~HasReservation(e)
            /\ pc[e] = "done" /\ HasReservation(e) => sends[e] = "received"

\* Where the database has not failed it did not fail in this step either.
LEMMA NoDbFault ==
    ASSUME FaultsOK, [Next]_vars, faults'["db"] = 0
    PROVE  faults["db"] = 0 /\ ~Fault({"db"}) /\ ~Fault({"rpc", "db"})
BY DbFaults

\* Without a database fault only a row left `received` lets a pipeline return from the
\* broadcast or the validator with its nonce.
LEMMA ReturnsReceived ==
    ASSUME TaskOK, NEW e \in Exec, Run(e), ~Fault({"db"}), ~Fault({"rpc", "db"}),
           pc[e] \in {"broadcast", "fetch_nonce", "validate", "poll"}, pc'[e] = "done"
    PROVE  sends'[e] = "received"
<1>1. ASSUME BroadcastRejected(e)
      PROVE  FALSE
  BY <1>1, RetriedOrReleased DEF BroadcastRejected, Again, Releases
<1>2. ASSUME NEW new, Advance(e, "validate", new)
      PROVE  FALSE
  BY <1>2, Advanced DEF Moves
<1>3. ASSUME NEW n, NonceTooLow(e, n)
      PROVE  FALSE
  BY <1>3, RecoveredOrReleased DEF Recovers, Releases
<1>4. ASSUME ReleaseThenFail(e, "validator")
      PROVE  FALSE
  BY <1>4, Releasing DEF Releases
<1>5. ASSUME NEW stage \in {"poll", "finalise", "expire"}, Enter(e, stage)
      PROVE  FALSE
  BY <1>5 DEF Enter, TaskOK
<1>6. CASE Broadcast(e)
  <2>1. ~BroadcastMismatch(e)
    BY DEF BroadcastMismatch, TaskOK
  <2>2. BroadcastNotInserted(e)
    BY <1>1, <1>2, <1>3, <1>6, <2>1
    DEF Broadcast, BroadcastSent, BroadcastRefused, FetchNonce
  <2>3. QED
    BY <1>2, <2>2 DEF BroadcastNotInserted
<1>7. CASE pc[e] = "validate"
  <2>1. ValidationOpened(e)
    BY <1>7
    DEF Run, RelayHost, NonceReserve, Sign, Resign, SignCall, AcquireEndpoint, Broadcast,
        BroadcastNotInserted, BroadcastSent, BroadcastRefused, BroadcastMismatch, FetchNonce,
        ResolveNonce, RevertSign, NonceSync, Poll, PollTimedOut, PollReverted, PollIncluded,
        PollRpcError, PollAgain
  <2>2. QED
    BY <1>5, <2>1 DEF ValidationOpened
<1>8. CASE pc[e] = "poll"
  <2>1. Poll(e)
    BY <1>8, StageOf
  <2>2. ~PollAgain(e)
    BY <1>8 DEF PollAgain, vars, taskVars
  <2>3. QED
    BY <1>4, <1>5, <2>1, <2>2
    DEF Poll, PollTimedOut, PollReverted, PollIncluded, PollRpcError, Outcome, Proceed,
        ValidatorRpcError
<1>9. QED
  BY <1>6, <1>7, <1>8, StageOf

\* LeakInv is inductive.
LEMMA LeakStep ==
    ASSUME TypeOK, TaskOK, TablesOK, FaultsOK, InLease, TimelyTable, AnsweredInv, LeakInv,
           [Next]_vars
    PROVE  LeakInv'
<1> SUFFICES ASSUME faults'["db"] = 0, NEW e \in Exec
             PROVE  /\ pc'[e] \in EmptyHanded => ~HasReservation(e)'
                    /\ pc'[e] = "done" /\ HasReservation(e)' => sends'[e] = "received"
  BY DEF LeakInv, EmptyHanded
<1>0. sweep = NoSweep /\ LastActive
  BY DEF TimelyTable
<1>1. faults["db"] = 0 /\ ~Fault({"db"}) /\ ~Fault({"rpc", "db"})
  BY NoDbFault
<1>2. /\ pc[e] \in EmptyHanded => ~HasReservation(e)
      /\ pc[e] = "done" /\ HasReservation(e) => sends[e] = "received"
  BY <1>1 DEF LeakInv
<1>3. UNCHANGED rows => (HasReservation(e)' <=> HasReservation(e))
  BY DEF HasReservation
<1>4. CASE ~Run(e)
  <2>1. ASSUME NEW f \in Exec, Run(f), f # e
        PROVE  pc'[e] = pc[e]
    BY <2>1, RunMoves DEF Elsewhere
  <2>2. \/ pc[e] = "idle" /\ pc'[e] \in {"relay_host", "refused"}
        \/ pc'[e] = "lost"
        \/ pc'[e] = pc[e]
    BY <1>4, <2>1, OtherMoves DEF Moves
  <2>3. (HasReservation(e)' <=> HasReservation(e)) /\ sends'[e] = sends[e]
    BY <1>0, <1>4, RowsElsewhere, QuietKeeps, SendsKept
  <2>4. QED
    BY <1>2, <2>2, <2>3 DEF EmptyHanded
<1>5. CASE Run(e) /\ pc[e] = "reserve"
  <2>1. CASE ReserveHeld(e)
    <3>1. HasReservation(e)' <=> HasReservation(e)
      BY <2>1, HeldQuiet, QuietKeeps
    <3>2. QED
      BY <1>2, <1>5, <3>1 DEF EmptyHanded
  <2>2. CASE \E n \in 0..MaxNonce : Grants(e, n, "sign")
    BY <2>2 DEF Grants, EmptyHanded
  <2>3. CASE UNCHANGED rows
    BY <1>2, <1>3, <1>5, <2>3 DEF EmptyHanded
  <2>4. QED
    BY <1>1, <1>5, <2>1, <2>2, <2>3, ReserveStage
<1>6. CASE Run(e) /\ pc[e] = "sync"
  <2>1. CASE \E n : Grants(e, n, "resign")
    BY <2>1 DEF Grants, EmptyHanded
  <2>2. CASE UNCHANGED rows
    BY <1>2, <1>3, <1>6, <2>2 DEF EmptyHanded
  <2>3. QED
    BY <1>1, <1>6, <2>1, <2>2, SyncStage
<1>7. CASE Run(e) /\ pc[e] \in ResolveStages
  <2>1. Requested(pc[e]) \in Resolutions
    BY <1>7 DEF ResolveStages, Requested, Resolutions
  <2>2. CASE UNCHANGED taskVars
    BY <1>7, <2>2 DEF taskVars, ResolveStages, EmptyHanded
  <2>3. CASE ResolveUpdated(e, Requested(pc[e]))
    BY <1>0, <2>1, <2>3, UpdateResolves, ResolveClaims
  <2>4. CASE ResolveAgreed(e, Requested(pc[e])) \/ ResolveRefused(e, Requested(pc[e]))
    <3>1. UNCHANGED rows /\ engine[e] \in Resolutions
      BY <2>1, <2>4 DEF ResolveAgreed, ResolveRefused, Answer
    <3>2. QED
      BY <1>3, <3>1 DEF AnsweredInv
  <2>5. QED
    BY <1>1, <1>7, <2>2, <2>3, <2>4, ResolveStage
<1>8. CASE Run(e) /\ pc[e] \notin {"reserve", "sync"} \cup ResolveStages
  <2>0. RunTable(e) /\ pc[e] \in Stages
    BY <1>8, RunMoves
  <2>1. HasReservation(e)' <=> HasReservation(e)
    BY <1>3, <1>8, OtherStage
  <2>2. CASE pc[e] \in {"broadcast", "fetch_nonce", "validate", "poll"}
    <3>1. pc'[e] \notin EmptyHanded
      BY <2>0, <2>2
      DEF RunTable, Moves, Again, Fails, Releases, Asks, Recovers, taskVars, EmptyHanded
    <3>2. QED
      BY <1>1, <1>8, <2>2, <3>1, ReturnsReceived
  <2>3. CASE pc[e] \in {"relay_host", "revert_sign"}
    BY <1>2, <2>1, <2>3 DEF EmptyHanded
  <2>4. CASE pc[e] \in {"sign", "endpoint", "resign"}
    BY <2>0, <2>4
    DEF RunTable, Moves, Again, Releases, taskVars, EmptyHanded
  <2>5. QED
    BY <1>8, <2>0, <2>2, <2>3, <2>4 DEF Stages, ResolveStages
<1>9. QED
  BY <1>4, <1>5, <1>6, <1>7, <1>8

\* A pipeline that returns leaves no reservation behind on any of its error paths, but for
\* the one that leaves the broadcast row `received`, as long as no reservation outlives
\* its lease and the database has not failed.  RPC faults and crashes make no difference.
THEOREM NothingLeaked == Spec /\ []InLease => [](faults["db"] = 0 => NoLeakedReservation)
<1>1. Init => LeakInv
  <2> SUFFICES ASSUME Init, NEW e \in Exec
               PROVE  ~HasReservation(e)
    BY DEF LeakInv
  <2>1. rows[e] = <<>>
    BY DEF Init, NonceInit
  <2>2. QED
    BY <2>1 DEF HasReservation
<1>2. TypeOK /\ PipelineTypeOK /\ InLease /\ TimelyTable /\ AnsweredInv /\ LeakInv /\ [Next]_vars
        => LeakInv'
  BY LeakStep DEF PipelineTypeOK
<1>3. LeakInv => (faults["db"] = 0 => NoLeakedReservation)
  BY DEF LeakInv, NoLeakedReservation
<1>4. QED
  BY <1>1, <1>2, <1>3, HoldInvariant, FinalInvariant, PipelineTypeCorrect, PTL DEF Spec

-----------------------------------------------------------------------------
(* What is pending is held *)

\* No validation has run into its timeout.
BeforeTimeout == \A e \in Exec : ctx[e].wait < ValidatorTimeout

\* A pending transaction carries the nonce of its pipeline, which still holds it and has not
\* gone on to give it up.
PendInv ==
    AnswersKept =>
        \A e \in Exec : \A n \in 0..MaxNonce :
            Sent(e, n) => /\ n = ctx[e].nonce
                          /\ HoldsNonce(e, n)
                          /\ pc[e] \in {"broadcast", "validate", "poll", "done", "lost"}

\* Where a pipeline with a pending transaction can go: it has no receipt yet.
LEMMA PendingMoves ==
    ASSUME TaskOK, TablesOK, ChainOK, BeforeTimeout, [Next]_vars, ~Fault({"rpc"}), NEW e \in Exec,
           SendOpen(e), Sent(e, ctx[e].nonce), pc[e] \in {"broadcast", "validate", "poll", "done", "lost"}
    PROVE  /\ ctx'[e].nonce = ctx[e].nonce
           /\ pc'[e] \in {"broadcast", "validate", "poll", "done", "lost"}
<1>0. "done" \notin Stages /\ "lost" \notin Stages
  BY DEF Stages
<1>1. ~HasReceipt(e, ctx[e].nonce, TRUE) /\ ~HasReceipt(e, ctx[e].nonce, FALSE)
  <2>1. AccountOf[e] \in Account /\ ctx[e].nonce \in Nat /\ Len(mined[AccountOf[e]]) \in Nat
    BY AccountsAssumption, ConstantsAssumption DEF ChainOK, Blocks, TaskOK, Locals
  <2>2. ctx[e].nonce >= Len(mined[AccountOf[e]])
    BY <2>1 DEF ChainOK, Sent
  <2>3. QED
    BY <2>1, <2>2 DEF HasReceipt, ChainNonce
<1>2. ctx[e].wait < ValidatorTimeout /\ ctx[e].wait \in Nat /\ ValidatorTimeout \in Nat
  BY PipelineAssumption DEF BeforeTimeout, TaskOK, Locals
<1>3. CASE Run(e) /\ pc[e] = "broadcast"
  BY <1>3, BroadcastAgain DEF Moves, Again, Fails, SameLocals
<1>4. CASE Run(e) /\ pc[e] # "broadcast"
  <2>1. RunTable(e) /\ pc[e] \in {"validate", "poll"}
    BY <1>0, <1>4, RunMoves
  <2>2. \/ UNCHANGED taskVars
        \/ Moves(e, "poll", status[e]) \/ Fails(e, "validator")
    <3>1. CASE pc[e] = "validate"
      BY <2>1, <3>1 DEF RunTable
    <3>2. CASE pc[e] = "poll"
      <4>1. ~(ctx[e].wait >= ValidatorTimeout)
        BY <1>2
      <4>2. QED
        BY <1>1, <2>1, <3>2, <4>1 DEF RunTable
    <3>3. QED
      BY <2>1, <3>1, <3>2
  <2>3. QED
    BY <2>1, <2>2 DEF taskVars, Moves, Fails, SameLocals
<1>5. CASE ~Run(e)
  <2>1. ASSUME NEW f \in Exec, Run(f), f # e
        PROVE  pc'[e] = pc[e] /\ ctx'[e] = ctx[e]
    BY <2>1, RunMoves DEF Elsewhere
  <2>2. CASE ~\E f \in Exec : Run(f)
    BY <2>2, OtherMoves DEF Moves
  <2>3. QED
    BY <1>5, <2>1, <2>2
<1>6. QED
  BY <1>3, <1>4, <1>5

\* PendInv is inductive.
LEMMA PendStep ==
    ASSUME TypeOK, TaskOK, TablesOK, FaultsOK, ChainOK, InLease, BeforeTimeout, TimelyTable,
           HoldInv, SendInv, PendInv, [Next]_vars
    PROVE  PendInv'
<1> SUFFICES ASSUME faults'["rpc"] = 0, NEW e \in Exec, NEW n \in 0..MaxNonce, Sent(e, n)'
             PROVE  /\ n = ctx'[e].nonce
                    /\ HoldsNonce(e, n)'
                    /\ pc'[e] \in {"broadcast", "validate", "poll", "done", "lost"}
  BY DEF PendInv, AnswersKept
<1>0. /\ sweep = NoSweep /\ LastActive
      /\ faults["rpc"] = 0 /\ ~Fault({"rpc"}) /\ ~Fault({"rpc", "db"})
      /\ AccountOf[e] \in Account
  BY NoRpcFault, AccountsAssumption DEF TimelyTable
<1>1. CASE Sent(e, n)
  <2>1. /\ n = ctx[e].nonce /\ HoldsNonce(e, n)
        /\ pc[e] \in {"broadcast", "validate", "poll", "done", "lost"}
    BY <1>0, <1>1 DEF PendInv, AnswersKept
  <2>2. SendOpen(e)
    <3>1. Txs(e) # {}
      BY <1>1 DEF Sent, Txs
    <3>2. QED
      BY <1>0, <3>1 DEF SendInv, SentPlace
  <2>3. /\ ctx'[e].nonce = ctx[e].nonce
        /\ pc'[e] \in {"broadcast", "validate", "poll", "done", "lost"}
    BY <1>0, <1>1, <2>1, <2>2, PendingMoves
  <2>4. RowsQuiet(e)
    BY <1>0, <2>1, RowsOf DEF ResolveStages
  <2>5. HoldsNonce(e, n)'
    BY <2>1, <2>4, QuietKeeps
  <2>6. QED
    BY <2>1, <2>3, <2>5
<1>2. CASE ~Sent(e, n)
  <2>1. <<e, n>> \in pool'[AccountOf[e]] /\ <<e, n>> \notin pool[AccountOf[e]]
    BY <1>2 DEF Sent
  <2>2. PICK f \in Exec : BroadcastSent(f)
    <3>1. ~\E b \in Account : ChainStep(b)
      BY <1>0, <2>1, ChainStepKept
    <3>2. pool' # pool
      BY <2>1
    <3>3. \E g \in Exec : Run(g)
      BY <3>1, <3>2
      DEF Next, Submit, Reject, Refuse, SweeperBot, TimePasses, Crash, Quiet, vars, chainVars
    <3>4. QED
      BY <3>2, <3>3, SendsElsewhere
  <2>3. ctx[f].nonce \in 0..MaxNonce /\ Admit(f, ctx[f].nonce)
    BY <2>2 DEF TaskOK, Locals, BroadcastSent
  <2>4. f = e /\ n = ctx[e].nonce
    BY <1>0, <2>1, <2>3, AdmitLemma
  <2>5. BroadcastSent(e) /\ pc[e] = "broadcast"
    BY <2>2, <2>4 DEF BroadcastSent
  <2>6. Moves(e, "validate", "Broadcasted") \/ Again(e, "broadcast") \/ Fails(e, "broadcast")
    BY <1>0, <2>5, SentOpens
  <2>7. HoldsNonce(e, n)
    BY <2>4, <2>5 DEF HoldInv, HoldStages, NonceInHand
  <2>8. RowsQuiet(e)
    BY <1>0, <2>5, RowsOf DEF ResolveStages
  <2>9. HoldsNonce(e, n)'
    BY <2>7, <2>8, QuietKeeps
  <2>10. QED
    BY <2>4, <2>6, <2>9 DEF Moves, Again, Fails, SameLocals
<1>3. QED
  BY <1>1, <1>2

\* While a transaction is pending its execution holds the nonce, so that nobody else is
\* given it: as long as no reservation outlives its lease, no validation its timeout, and
\* no answer of an endpoint is lost.
THEOREM PendingHeld ==
    Spec /\ [](InLease /\ BeforeTimeout) => [](AnswersKept => PendingIsHeld)
<1>1. Init => PendInv
  <2> SUFFICES ASSUME Init, NEW e \in Exec, NEW n
               PROVE  ~Sent(e, n)
    BY DEF PendInv
  <2>1. QED
    BY AccountsAssumption DEF Init, ChainInit, Sent
<1>2. TypeOK /\ PipelineTypeOK /\ ChainOK /\ InLease /\ BeforeTimeout /\ TimelyTable /\ HoldInv
        /\ SendInv /\ PendInv /\ [Next]_vars => PendInv'
  BY PendStep DEF PipelineTypeOK
<1>3. PendInv => (AnswersKept => PendingIsHeld)
  BY DEF PendInv, PendingIsHeld
<1>4. QED
  BY <1>1, <1>2, <1>3, HoldInvariant, SendInvariant, PipelineTypeCorrect, PTL DEF Spec

=============================================================================
