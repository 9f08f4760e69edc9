---------------------------- MODULE NonceProofs -----------------------------
(***************************************************************************)
(* Proofs about NonceAssignments, for any executions, accounts, leases and *)
(* bounds that satisfy ConstantsAssumption: its invariants, and that it    *)
(* implements the ledger of claims of NonceLedger.                         *)
(***************************************************************************)
EXTENDS NonceAssignments, TLAPS

Table == [Exec -> Seq(Assignment)]

\* An UPDATE keeps the table's type and the number of revisions, and changes the
\* named rows only.
LEMMA SetStateLemma ==
    ASSUME NEW table \in Table, NEW S, NEW new \in NonceState
    PROVE  /\ SetState(table, S, new) \in Table
           /\ \A e \in Exec :
                /\ Len(SetState(table, S, new)[e]) = Len(table[e])
                /\ \A r \in 1..Len(table[e]) :
                    SetState(table, S, new)[e][r] =
                        IF <<e, r>> \in S
                        THEN [nonce |-> table[e][r].nonce, state |-> new, age |-> 0]
                        ELSE table[e][r]
<1> DEFINE row(e, r) == IF <<e, r>> \in S
                        THEN [nonce |-> table[e][r].nonce, state |-> new, age |-> 0]
                        ELSE table[e][r]
<1>1. ASSUME NEW e \in Exec, NEW r \in 1..Len(table[e])
      PROVE  row(e, r) \in Assignment
  <2>1. table[e] \in Seq(Assignment)
    BY DEF Table
  <2>2. table[e][r] \in Assignment
    BY <2>1
  <2>3. 0 \in 0..MaxAge
    BY ConstantsAssumption
  <2>4. QED
    BY <2>2, <2>3 DEF Assignment
<1>2. ASSUME NEW e \in Exec
      PROVE  /\ [r \in 1..Len(table[e]) |-> row(e, r)] \in Seq(Assignment)
             /\ Len([r \in 1..Len(table[e]) |-> row(e, r)]) = Len(table[e])
  <2>1. Len(table[e]) \in Nat
    BY DEF Table
  <2> HIDE DEF row
  <2>2. QED
    BY <1>1, <2>1
<1>3. QED
  BY <1>1, <1>2 DEF SetState, Table

\* An INSERT keeps the table's type and adds one reserved revision to e.
LEMMA InsertLemma ==
    ASSUME NEW table \in Table, NEW e \in Exec, NEW n \in Nat
    PROVE  /\ Insert(table, e, n) \in Table
           /\ \A f \in Exec : f # e => Insert(table, e, n)[f] = table[f]
           /\ Len(Insert(table, e, n)[e]) = Len(table[e]) + 1
           /\ \A r \in 1..Len(table[e]) : Insert(table, e, n)[e][r] = table[e][r]
           /\ Insert(table, e, n)[e][Len(table[e]) + 1] =
                [nonce |-> n, state |-> "reserved", age |-> 0]
<1>1. table[e] \in Seq(Assignment)
  BY DEF Table
<1>2. 0 \in 0..MaxAge
  BY ConstantsAssumption
<1>3. [nonce |-> n, state |-> "reserved", age |-> 0] \in Assignment
  BY <1>2 DEF Assignment, NonceState
<1>4. QED
  BY <1>1, <1>3 DEF Insert, Table

\* Time keeps the table's type, nonces and states, and never makes a row younger.
LEMMA AgedLemma ==
    ASSUME NEW table \in Table
    PROVE  /\ Aged(table) \in Table
           /\ \A e \in Exec :
                /\ Len(Aged(table)[e]) = Len(table[e])
                /\ \A r \in 1..Len(table[e]) :
                    /\ Aged(table)[e][r].nonce = table[e][r].nonce
                    /\ Aged(table)[e][r].state = table[e][r].state
                    /\ Aged(table)[e][r].age >= table[e][r].age
<1>1. ASSUME NEW e \in Exec, NEW r \in 1..Len(table[e])
      PROVE  /\ Older(table[e][r]) \in Assignment
             /\ Older(table[e][r]).nonce = table[e][r].nonce
             /\ Older(table[e][r]).state = table[e][r].state
             /\ Older(table[e][r]).age >= table[e][r].age
  <2>1. table[e][r] \in Assignment
    BY DEF Table
  <2>2. MaxAge \in Nat
    BY ConstantsAssumption
  <2>3. QED
    BY <2>1, <2>2 DEF Assignment, Older
<1>2. ASSUME NEW e \in Exec
      PROVE  /\ [r \in 1..Len(table[e]) |-> Older(table[e][r])] \in Seq(Assignment)
             /\ Len([r \in 1..Len(table[e]) |-> Older(table[e][r])]) = Len(table[e])
  <2>1. Len(table[e]) \in Nat
    BY DEF Table
  <2>2. QED
    BY <1>1, <2>1
<1>3. QED
  BY <1>1, <1>2 DEF Aged, Table

-----------------------------------------------------------------------------
(* What a step can do to the table: nothing, age it, move rows to a resolved *)
(* state, or insert one reservation, perhaps consuming a released row.       *)

MoveRows ==
    \E S \in SUBSET (Exec \X (1..MaxRevision)), state \in Resolutions :
        /\ rows' = SetState(rows, S, state)
        /\ state = "finalized" =>
            \E e \in Exec, r \in Nat : S = {<<e, r>>} /\ IsResolvable(e, r)

\* Where an inserted nonce comes from.
IsSource(a, n) ==
    \/ n <= MaxOnChain
    \/ IsNextSequential(a, n)
    \/ \E s \in Slots : AccountOf[s[1]] = a /\ At(s).nonce = n

InsertRow ==
    \E S \in SUBSET (Exec \X (1..MaxRevision)), e \in Exec, n \in Nat :
        /\ Len(rows[e]) < MaxRevision
        /\ ~Held(AccountOf[e], n)
        /\ ~HasClaim(e, ReserveLease)
        /\ IsSource(AccountOf[e], n)
        /\ rows' = Insert(SetState(rows, S, "consumed"), e, n)

RowsStep == UNCHANGED rows \/ rows' = Aged(rows) \/ MoveRows \/ InsertRow

\* Updating no row changes nothing.
LEMMA SetStateNothing ==
    ASSUME NEW table \in Table, NEW new \in NonceState
    PROVE  SetState(table, {}, new) = table
<1>1. ASSUME NEW e \in Exec
      PROVE  [r \in 1..Len(table[e]) |-> table[e][r]] = table[e]
  BY DEF Table
<1>2. ASSUME NEW e \in Exec
      PROVE  SetState(table, {}, new)[e] = table[e]
  BY <1>1 DEF SetState
<1>3. QED
  BY <1>2 DEF SetState, Table

\* Every action of the nonce actor and of the sweeper is such a step.
LEMMA StepShape ==
    ASSUME TypeOK, NonceNext
    PROVE  RowsStep
<1> USE DEF RowsStep
<1>1. rows \in Table /\ "consumed" \in NonceState /\ "consumed" \in Resolutions
  BY DEF TypeOK, Table, NonceState, Resolutions
<1>2. rows = SetState(rows, {}, "consumed")
  BY <1>1, SetStateNothing
<1>slot. ASSUME NEW s \in Slots
      PROVE  {s} \in SUBSET (Exec \X (1..MaxRevision))
  BY ConstantsAssumption DEF Slots
<1>3. ASSUME NEW e \in Exec, Reserve(e)
      PROVE  RowsStep
  <2>1. ASSUME NEW n \in 0..MaxNonce, ReserveInserted(e, n)
        PROVE  InsertRow
    <3> DEFINE a == AccountOf[e]
    <3>1. /\ Len(rows[e]) < MaxRevision
          /\ ~Held(a, n)
          /\ ~HasClaim(e, ReserveLease)
          /\ n \in Nat
      BY <2>1, ConstantsAssumption DEF ReserveInserted
    <3>2. CASE IsNextSequential(a, n) /\ rows' = Insert(rows, e, n)
      <4>1. IsSource(a, n) /\ rows' = Insert(SetState(rows, {}, "consumed"), e, n)
        BY <3>2, <1>2 DEF IsSource
      <4>2. QED
        BY <3>1, <4>1 DEF InsertRow
    <3>3. ASSUME NEW s \in TargetRelease(a), n = At(s).nonce,
                 rows' = Insert(SetState(rows, {s}, "consumed"), e, n)
          PROVE  InsertRow
      <4>1. s \in Slots /\ AccountOf[s[1]] = a
        BY <3>3 DEF TargetRelease, Released
      <4>2. IsSource(a, n)
        BY <4>1, <3>3 DEF IsSource
      <4>3. QED
        BY <3>1, <3>3, <4>1, <4>2, <1>slot DEF InsertRow
    <3>4. QED
      BY <2>1, <3>2, <3>3 DEF ReserveInserted
  <2>2. ASSUME ReserveHeld(e)
        PROVE  UNCHANGED rows \/ MoveRows
    <3>1. ASSUME NEW s \in TargetRelease(AccountOf[e]),
                 rows' = SetState(rows, {s}, "consumed")
          PROVE  MoveRows
      <4>1. {s} \in SUBSET (Exec \X (1..MaxRevision))
        BY <1>slot DEF TargetRelease, Released
      <4>2. QED
        BY <3>1, <4>1, <1>1 DEF MoveRows
    <3>2. QED
      BY <2>2, <3>1 DEF ReserveHeld
  <2>3. QED
    BY <1>3, <2>1, <2>2 DEF Reserve, ReserveReread, ReserveConflict, ReserveGone, nonceVars
<1>4. ASSUME NEW e \in Exec, Sync(e)
      PROVE  RowsStep
  <2>1. ASSUME NEW n \in 0..MaxOnChain, SyncInserted(e, n)
        PROVE  InsertRow
    <3>1. n \in Nat /\ n <= MaxOnChain
      BY ConstantsAssumption
    <3>2. ~HasClaim(e, ReserveLease)
      <4>1. ~HasClaim(e, SyncLease)
        BY <2>1 DEF SyncInserted
      <4>2. \A r \in 1..Len(rows[e]) : rows[e][r].age \in Int
        <5>1. ASSUME NEW r \in 1..Len(rows[e])
              PROVE  rows[e][r] \in Assignment
          BY DEF TypeOK
        <5>2. QED
          BY <5>1, ConstantsAssumption DEF Assignment
      <4>3. ReserveLease \in Int /\ SyncLease \in Int /\ ReserveLease <= SyncLease
        BY ConstantsAssumption
      <4>4. QED
        BY <4>1, <4>2, <4>3 DEF HasClaim
    <3>3. IsSource(AccountOf[e], n)
      BY <3>1 DEF IsSource
    <3>4. rows' = Insert(SetState(rows, {}, "consumed"), e, n)
      BY <2>1, <1>2 DEF SyncInserted
    <3>5. QED
      BY <2>1, <3>1, <3>2, <3>3, <3>4 DEF InsertRow, SyncInserted
  <2>2. QED
    BY <1>4, <2>1
    DEF Sync, SyncConflict, SyncHeld, SyncReread, SyncRejected, nonceVars
<1>5. ASSUME NEW e \in Exec, Resolve(e)
      PROVE  RowsStep
  <2>1. ASSUME NEW state \in Resolutions, ResolveUpdated(e, state)
        PROVE  MoveRows
    <3>1. PICK r \in 1..Len(rows[e]) :
            IsResolvable(e, r) /\ rows' = SetState(rows, {<<e, r>>}, state)
      BY <2>1 DEF ResolveUpdated
    <3>2. r \in Nat /\ r <= MaxRevision
      BY ConstantsAssumption DEF TypeOK
    <3>3. {<<e, r>>} \in SUBSET (Exec \X (1..MaxRevision))
      BY <3>2, ConstantsAssumption
    <3>4. QED
      BY <3>1, <3>2, <3>3 DEF MoveRows
  <2>2. QED
    BY <1>5, <2>1 DEF Resolve, ResolveMissed, ResolveAgreed, ResolveRefused
<1>6. ASSUME Sweep
      PROVE  RowsStep
  <2>1. ASSUME SweepCommit
        PROVE  MoveRows
    <3>1. /\ rows' = SetState(rows, sweep.targets, "released")
          /\ "released" \in Resolutions
          /\ sweep.targets \in SUBSET (Exec \X (1..MaxRevision))
      BY <2>1 DEF SweepCommit, Resolutions, TypeOK
    <3>2. QED
      BY <3>1 DEF MoveRows
  <2>2. QED
    BY <1>6, <2>1 DEF Sweep, SweepScan, SweepLock, SweepFailed
<1>7. QED
  BY <1>3, <1>4, <1>5, <1>6 DEF NonceNext, RereadFailed, Tick, Restart

-----------------------------------------------------------------------------
(* Type correctness *)

\* A step keeps the table well typed and within the revision bound.
LEMMA RowsTyped ==
    ASSUME TypeOK, RowsStep
    PROVE  rows' \in Table /\ \A e \in Exec : Len(rows'[e]) <= MaxRevision
<1>1. rows \in Table /\ \A e \in Exec : Len(rows[e]) <= MaxRevision
  BY DEF TypeOK, Table
<1>2. ASSUME NEW e \in Exec
      PROVE  Len(rows[e]) \in Nat
  <2>1. rows[e] \in Seq(Assignment)
    BY <1>1 DEF Table
  <2>2. QED
    BY <2>1
<1>3. MaxRevision \in Nat
  BY ConstantsAssumption
<1>4. CASE UNCHANGED rows
  BY <1>1, <1>4
<1>5. CASE rows' = Aged(rows)
  BY <1>1, <1>5, AgedLemma
<1>6. CASE MoveRows
  <2>1. PICK S \in SUBSET (Exec \X (1..MaxRevision)), state \in Resolutions : rows' = SetState(rows, S, state)
    BY <1>6 DEF MoveRows
  <2>2. state \in NonceState
    BY DEF NonceState
  <2>3. QED
    BY <1>1, <2>1, <2>2, SetStateLemma
<1>7. CASE InsertRow
  <2>1. PICK S \in SUBSET (Exec \X (1..MaxRevision)), e \in Exec, n \in Nat :
            /\ Len(rows[e]) < MaxRevision
            /\ rows' = Insert(SetState(rows, S, "consumed"), e, n)
    BY <1>7 DEF InsertRow
  <2> DEFINE mid == SetState(rows, S, "consumed")
  <2>2. "consumed" \in NonceState
    BY DEF NonceState, Resolutions
  <2>3. mid \in Table /\ \A f \in Exec : Len(mid[f]) = Len(rows[f])
    BY <1>1, <2>2, SetStateLemma
  <2> HIDE DEF mid
  <2>4. /\ Insert(mid, e, n) \in Table
        /\ \A f \in Exec : f # e => Insert(mid, e, n)[f] = mid[f]
        /\ Len(Insert(mid, e, n)[e]) = Len(mid[e]) + 1
    BY <2>3, InsertLemma
  <2>5. rows' = Insert(mid, e, n)
    BY <2>1 DEF mid
  <2>6. ASSUME NEW f \in Exec
        PROVE  Len(rows'[f]) <= MaxRevision
    <3>1. CASE f = e
      BY <3>1, <1>2, <1>3, <2>1, <2>3, <2>4, <2>5
    <3>2. CASE f # e
      BY <3>2, <1>1, <2>3, <2>4, <2>5
    <3>3. QED
      BY <3>1, <3>2
  <2>7. QED
    BY <2>4, <2>5, <2>6
<1>8. QED
  BY <1>4, <1>5, <1>6, <1>7 DEF RowsStep

\* A step keeps the handler phases and the sweep well typed.
LEMMA EngineTyped ==
    ASSUME TypeOK, NonceNext
    PROVE  /\ engine' \in [Exec -> {"idle", "reserve", "sync"} \cup Resolutions]
           /\ sweep' \in [phase : {"idle", "scanned", "locked"},
                          targets : SUBSET (Exec \X (1..MaxRevision))]
<1> DEFINE Phases == {"idle", "reserve", "sync"} \cup Resolutions
           Sweeps == [phase : {"idle", "scanned", "locked"}, targets : SUBSET (Exec \X (1..MaxRevision))]
<1>1. engine \in [Exec -> Phases] /\ sweep \in Sweeps
  BY DEF TypeOK
<1>2. ASSUME NEW e \in Exec, NEW op \in Phases, Await(e, op)
      PROVE  engine' \in [Exec -> Phases]
  BY <1>1, <1>2 DEF Await
<1>3. ASSUME NEW e \in Exec, NEW op \in Phases, Answer(e, op)
      PROVE  engine' \in [Exec -> Phases]
  BY <1>1, <1>3 DEF Answer
<1>4. ASSUME NEW e \in Exec, Reserve(e) \/ Sync(e)
      PROVE  engine' \in [Exec -> Phases] /\ sweep' = sweep
  <2>1. "reserve" \in Phases /\ "sync" \in Phases
    OBVIOUS
  <2> HIDE DEF Phases
  <2>2. QED
    BY <1>1, <1>2, <1>3, <1>4, <2>1
    DEF Reserve, ReserveInserted, ReserveReread, ReserveConflict, ReserveHeld, ReserveGone,
        Sync, SyncInserted, SyncConflict, SyncHeld, SyncReread, SyncRejected, nonceVars
<1>5. ASSUME NEW e \in Exec, Resolve(e)
      PROVE  engine' \in [Exec -> Phases] /\ sweep' = sweep
  <2>1. Resolutions \subseteq Phases
    OBVIOUS
  <2> HIDE DEF Phases
  <2>2. QED
    BY <1>1, <1>2, <1>3, <1>5, <2>1
    DEF Resolve, ResolveUpdated, ResolveMissed, ResolveAgreed, ResolveRefused
<1>6. ASSUME NEW e \in Exec, RereadFailed(e)
      PROVE  engine' \in [Exec -> Phases] /\ sweep' = sweep
  BY <1>1, <1>6 DEF RereadFailed, Answer
<1>7. CASE Sweep
  <2>1. StaleSlots \subseteq Exec \X (1..MaxRevision)
    BY ConstantsAssumption DEF StaleSlots, Slots
  <2>2. QED
    BY <1>1, <1>7, <2>1
    DEF Sweep, SweepScan, SweepLock, SweepCommit, SweepFailed, NoSweep
<1>8. CASE Tick
  BY <1>1, <1>8 DEF Tick
<1>9. CASE Restart
  BY <1>9 DEF Restart, NoSweep
<1>10. QED
  BY <1>1, <1>4, <1>5, <1>6, <1>7, <1>8, <1>9 DEF NonceNext

\* The table, the handler phases and the sweep keep their types, whatever the order
\* of calls, sweeps and failures.
THEOREM TypeCorrect == NonceSpec => []TypeOK
<1>1. NonceInit => TypeOK
  BY ConstantsAssumption DEF NonceInit, TypeOK, NoSweep
<1>2. TypeOK /\ [NonceNext]_nonceVars => TypeOK'
  <2>1. ASSUME TypeOK, NonceNext
        PROVE  TypeOK'
    BY <2>1, StepShape, RowsTyped, EngineTyped DEF TypeOK, Table
  <2>2. ASSUME TypeOK, UNCHANGED nonceVars
        PROVE  TypeOK'
    BY <2>2 DEF TypeOK, nonceVars
  <2>3. QED
    BY <2>1, <2>2
<1>3. QED
  BY <1>1, <1>2, PTL DEF NonceSpec

-----------------------------------------------------------------------------
(* What a step does to one row *)

\* A revision that exists keeps its nonce; its state stays, becomes inactive, or
\* goes from reserved to finalized; while it stays reserved it only grows older.
LEMMA OldRow ==
    ASSUME TypeOK, RowsStep, NEW e \in Exec, NEW r \in 1..Len(rows[e])
    PROVE  /\ Len(rows[e]) <= Len(rows'[e])
           /\ rows'[e][r].nonce = rows[e][r].nonce
           /\ \/ rows'[e][r].state = rows[e][r].state
              \/ rows'[e][r].state \in {"released", "consumed"}
              \/ IsResolvable(e, r) /\ rows'[e][r].state = "finalized"
           /\ rows'[e][r].state = "reserved" =>
                rows[e][r].state = "reserved" /\ rows'[e][r].age >= rows[e][r].age
<1>1. rows \in Table /\ rows[e] \in Seq(Assignment) /\ Len(rows[e]) \in Nat
  BY DEF TypeOK, Table
<1>2. rows[e][r].age \in Int
  <2>1. rows[e][r] \in Assignment
    BY <1>1
  <2>2. QED
    BY <2>1, ConstantsAssumption DEF Assignment
<1>3. CASE UNCHANGED rows
  BY <1>1, <1>2, <1>3
<1>4. CASE rows' = Aged(rows)
  BY <1>1, <1>2, <1>4, AgedLemma
<1>5. CASE MoveRows
  <2>1. PICK S \in SUBSET (Exec \X (1..MaxRevision)), state \in Resolutions :
            /\ rows' = SetState(rows, S, state)
            /\ state = "finalized" =>
                \E f \in Exec, q \in Nat : S = {<<f, q>>} /\ IsResolvable(f, q)
    BY <1>5 DEF MoveRows
  <2>2. state \in NonceState
    BY DEF NonceState
  <2>3. /\ Len(rows'[e]) = Len(rows[e])
        /\ rows'[e][r] = IF <<e, r>> \in S
                         THEN [nonce |-> rows[e][r].nonce, state |-> state, age |-> 0]
                         ELSE rows[e][r]
    BY <1>1, <2>1, <2>2, SetStateLemma
  <2>4. CASE <<e, r>> \in S
    <3>1. state = "finalized" => IsResolvable(e, r)
      <4>1. SUFFICES ASSUME state = "finalized"
                     PROVE  IsResolvable(e, r)
        OBVIOUS
      <4>2. PICK f \in Exec, q \in Nat : S = {<<f, q>>} /\ IsResolvable(f, q)
        BY <2>1, <4>1
      <4>3. f = e /\ q = r
        BY <2>4, <4>2
      <4>4. QED
        BY <4>2, <4>3
    <3>2. QED
      BY <1>1, <2>3, <2>4, <3>1 DEF Resolutions
  <2>5. CASE <<e, r>> \notin S
    BY <1>1, <1>2, <2>3, <2>5
  <2>6. QED
    BY <2>4, <2>5
<1>6. CASE InsertRow
  <2>1. PICK S \in SUBSET (Exec \X (1..MaxRevision)), g \in Exec, n \in Nat :
            rows' = Insert(SetState(rows, S, "consumed"), g, n)
    BY <1>6 DEF InsertRow
  <2> DEFINE mid == SetState(rows, S, "consumed")
  <2>2. "consumed" \in NonceState
    BY DEF NonceState, Resolutions
  <2>3. /\ mid \in Table
        /\ Len(mid[e]) = Len(rows[e])
        /\ mid[e][r] = IF <<e, r>> \in S
                       THEN [nonce |-> rows[e][r].nonce, state |-> "consumed", age |-> 0]
                       ELSE rows[e][r]
    BY <1>1, <2>2, SetStateLemma
  <2> HIDE DEF mid
  <2>4. rows' = Insert(mid, g, n)
    BY <2>1 DEF mid
  <2>5. rows'[e][r] = mid[e][r] /\ Len(mid[e]) <= Len(rows'[e])
    <3>1. /\ \A f \in Exec : f # g => Insert(mid, g, n)[f] = mid[f]
          /\ Len(Insert(mid, g, n)[g]) = Len(mid[g]) + 1
          /\ \A p \in 1..Len(mid[g]) : Insert(mid, g, n)[g][p] = mid[g][p]
      BY <2>3, InsertLemma
    <3>2. QED
      BY <1>1, <2>3, <2>4, <3>1
  <2>6. QED
    BY <1>1, <1>2, <2>3, <2>5
<1>7. QED
  BY <1>3, <1>4, <1>5, <1>6 DEF RowsStep

\* A revision that appears is the next one of its execution, reserved and of age 0;
\* its nonce was free, and the execution had no claim.  No other execution gains one.
LEMMA NewRow ==
    ASSUME TypeOK, RowsStep, NEW e \in Exec, NEW r \in 1..Len(rows'[e]),
           r \notin 1..Len(rows[e])
    PROVE  /\ r = Len(rows[e]) + 1
           /\ Len(rows'[e]) = r
           /\ rows'[e][r].state = "reserved"
           /\ rows'[e][r].nonce \in Nat
           /\ ~Held(AccountOf[e], rows'[e][r].nonce)
           /\ ~HasClaim(e, ReserveLease)
           /\ IsSource(AccountOf[e], rows'[e][r].nonce)
           /\ \A f \in Exec : f # e => Len(rows'[f]) = Len(rows[f])
           /\ \A q \in 1..Len(rows[e]) :
                rows'[e][q] = rows[e][q] \/ rows'[e][q].state = "consumed"
<1>1. rows \in Table /\ Len(rows[e]) \in Nat
  BY DEF TypeOK, Table
<1>2. ~(UNCHANGED rows)
  BY <1>1
<1>3. rows' # Aged(rows)
  BY <1>1, AgedLemma
<1>4. ~MoveRows
  <2>1. SUFFICES ASSUME MoveRows PROVE FALSE
    OBVIOUS
  <2>2. PICK S \in SUBSET (Exec \X (1..MaxRevision)), state \in Resolutions : rows' = SetState(rows, S, state)
    BY <2>1 DEF MoveRows
  <2>3. state \in NonceState
    BY DEF NonceState
  <2>4. Len(rows'[e]) = Len(rows[e])
    BY <1>1, <2>2, <2>3, SetStateLemma
  <2>5. QED
    BY <1>1, <2>4
<1>5. PICK S \in SUBSET (Exec \X (1..MaxRevision)), g \in Exec, n \in Nat :
        /\ ~Held(AccountOf[g], n)
        /\ ~HasClaim(g, ReserveLease)
        /\ IsSource(AccountOf[g], n)
        /\ rows' = Insert(SetState(rows, S, "consumed"), g, n)
  BY <1>2, <1>3, <1>4 DEF RowsStep, InsertRow
<1> DEFINE mid == SetState(rows, S, "consumed")
<1>6. "consumed" \in NonceState
  BY DEF NonceState, Resolutions
<1>7. /\ mid \in Table
      /\ \A f \in Exec :
            /\ Len(mid[f]) = Len(rows[f])
            /\ \A q \in 1..Len(rows[f]) : mid[f][q] = rows[f][q] \/ mid[f][q].state = "consumed"
  <2>1. /\ mid \in Table
        /\ \A f \in Exec :
            /\ Len(mid[f]) = Len(rows[f])
            /\ \A q \in 1..Len(rows[f]) :
                mid[f][q] = IF <<f, q>> \in S
                            THEN [nonce |-> rows[f][q].nonce, state |-> "consumed", age |-> 0]
                            ELSE rows[f][q]
    BY <1>1, <1>6, SetStateLemma
  <2> HIDE DEF mid
  <2>2. ASSUME NEW f \in Exec, NEW q \in 1..Len(rows[f])
        PROVE  mid[f][q] = rows[f][q] \/ mid[f][q].state = "consumed"
    <3>1. CASE <<f, q>> \in S
      <4>1. mid[f][q] = [nonce |-> rows[f][q].nonce, state |-> "consumed", age |-> 0]
        BY <2>1, <3>1
      <4>2. QED
        BY <4>1
    <3>2. CASE <<f, q>> \notin S
      BY <2>1, <3>2
    <3>3. QED
      BY <3>1, <3>2
  <2>3. QED
    BY <2>1, <2>2
<1> HIDE DEF mid
<1>8. rows' = Insert(mid, g, n)
  BY <1>5 DEF mid
<1>9. /\ \A f \in Exec : f # g => Len(rows'[f]) = Len(rows[f])
      /\ Len(rows'[g]) = Len(rows[g]) + 1
      /\ rows'[g][Len(rows[g]) + 1] = [nonce |-> n, state |-> "reserved", age |-> 0]
      /\ \A q \in 1..Len(rows[g]) : rows'[g][q] = mid[g][q]
  <2>1. /\ \A f \in Exec : f # g => Insert(mid, g, n)[f] = mid[f]
        /\ Len(Insert(mid, g, n)[g]) = Len(mid[g]) + 1
        /\ Insert(mid, g, n)[g][Len(mid[g]) + 1] =
            [nonce |-> n, state |-> "reserved", age |-> 0]
        /\ \A q \in 1..Len(mid[g]) : Insert(mid, g, n)[g][q] = mid[g][q]
    BY <1>7, InsertLemma
  <2>2. QED
    BY <1>7, <1>8, <2>1
<1>10. e = g
  BY <1>1, <1>9
<1>11. r = Len(rows[e]) + 1
  BY <1>1, <1>9, <1>10
<1>12. QED
  BY <1>5, <1>7, <1>9, <1>10, <1>11

-----------------------------------------------------------------------------
(* Safety *)

\* No nonce of an account is ever active in two rows.
THEOREM NoDoubleAssignment == NonceSpec => []UniqueActive
<1>1. NonceInit => UniqueActive
  BY DEF NonceInit, UniqueActive
<1>2. ASSUME TypeOK, UniqueActive, NonceNext
      PROVE  UniqueActive'
  <2>1. RowsStep
    BY <1>2, StepShape
  <2>2. \A e \in Exec : Len(rows[e]) \in Nat /\ Len(rows'[e]) \in Nat
    BY <1>2, <2>1, RowsTyped DEF TypeOK, Table
  <2> SUFFICES ASSUME NEW e \in Exec, NEW f \in Exec,
                      NEW r \in 1..Len(rows'[e]), NEW q \in 1..Len(rows'[f]),
                      AccountOf[e] = AccountOf[f],
                      rows'[e][r].nonce = rows'[f][q].nonce,
                      rows'[e][r].state \in ActiveStates,
                      rows'[f][q].state \in ActiveStates
               PROVE  e = f /\ r = q
    BY DEF UniqueActive, IsActive
  <2>3. ASSUME NEW g \in Exec, NEW p \in 1..Len(rows[g]),
               rows'[g][p].state \in ActiveStates
        PROVE  IsActive(g, p) /\ rows'[g][p].nonce = rows[g][p].nonce
    BY <1>2, <2>1, <2>3, OldRow DEF IsActive, ActiveStates, IsResolvable
  <2>4. CASE r \in 1..Len(rows[e]) /\ q \in 1..Len(rows[f])
    BY <1>2, <2>3, <2>4 DEF UniqueActive
  <2>5. CASE r \notin 1..Len(rows[e]) /\ q \in 1..Len(rows[f])
    <3>1. ~Held(AccountOf[e], rows'[e][r].nonce)
      BY <1>2, <2>1, <2>5, NewRow
    <3>2. IsActive(f, q) /\ rows'[f][q].nonce = rows[f][q].nonce
      BY <2>3, <2>5
    <3>3. QED
      BY <2>5, <3>1, <3>2 DEF Held
  <2>6. CASE r \in 1..Len(rows[e]) /\ q \notin 1..Len(rows[f])
    <3>1. ~Held(AccountOf[f], rows'[f][q].nonce)
      BY <1>2, <2>1, <2>6, NewRow
    <3>2. IsActive(e, r) /\ rows'[e][r].nonce = rows[e][r].nonce
      BY <2>3, <2>6
    <3>3. QED
      BY <2>6, <3>1, <3>2 DEF Held
  <2>7. CASE r \notin 1..Len(rows[e]) /\ q \notin 1..Len(rows[f])
    <3>1. r = Len(rows[e]) + 1 /\ \A g \in Exec : g # e => Len(rows'[g]) = Len(rows[g])
      BY <1>2, <2>1, <2>7, NewRow
    <3>2. q = Len(rows[f]) + 1
      BY <1>2, <2>1, <2>7, NewRow
    <3>3. e = f
      BY <2>2, <2>7, <3>1
    <3>4. QED
      BY <3>1, <3>2, <3>3
  <2>8. QED
    BY <2>4, <2>5, <2>6, <2>7
<1>3. UniqueActive /\ UNCHANGED nonceVars => UniqueActive'
  BY DEF UniqueActive, IsActive, nonceVars
<1>4. TypeOK /\ UniqueActive /\ [NonceNext]_nonceVars => UniqueActive'
  BY <1>2, <1>3
<1>5. QED
  BY <1>1, <1>4, TypeCorrect, PTL DEF NonceSpec

\* No statement deletes a revision, rewrites its nonce or reopens it.
THEOREM TrailKept == NonceSpec => AuditTrail
<1>1. ASSUME TypeOK, NonceNext
      PROVE  RevisionsKept
  <2>1. RowsStep
    BY <1>1, StepShape
  <2>2. SUFFICES ASSUME NEW e \in Exec
                 PROVE  /\ Len(rows[e]) <= Len(rows'[e])
                        /\ \A r \in 1..Len(rows[e]) :
                            /\ rows'[e][r].nonce = rows[e][r].nonce
                            /\ rows'[e][r].state = "reserved" => rows[e][r].state = "reserved"
    BY DEF RevisionsKept
  <2>3. Len(rows[e]) \in Nat /\ Len(rows'[e]) \in Nat
    BY <1>1, <2>1, RowsTyped DEF TypeOK, Table
  <2>4. CASE Len(rows[e]) = 0
    BY <2>3, <2>4
  <2>5. CASE Len(rows[e]) # 0
    <3>1. 1 \in 1..Len(rows[e])
      BY <2>3, <2>5
    <3>2. Len(rows[e]) <= Len(rows'[e])
      BY <1>1, <2>1, <3>1, OldRow
    <3>3. QED
      BY <1>1, <2>1, <3>2, OldRow
  <2>6. QED
    BY <2>4, <2>5
<1>2. TypeOK /\ [NonceNext]_nonceVars => [RevisionsKept]_nonceVars
  BY <1>1
<1>3. QED
  BY <1>2, TypeCorrect, PTL DEF NonceSpec, AuditTrail

-----------------------------------------------------------------------------
(* Leases.  FreshIsOnlyClaim is inductive only together with                 *)
(* SweepTargetsStale: resolve passes over rows the sweeper has locked, and   *)
(* would finalize an older revision beside a fresh one if such a row could   *)
(* be fresh.                                                                 *)

LeaseInv == SweepTargetsStale /\ FreshIsOnlyClaim

\* The sweeper's targets stay stale.
LEMMA SweepTargetsStep ==
    ASSUME TypeOK, SweepTargetsStale, NonceNext
    PROVE  SweepTargetsStale'
<1>1. RowsStep
  BY StepShape
<1>2. \A e \in Exec : Len(rows[e]) \in Nat /\ Len(rows'[e]) \in Nat
  BY <1>1, RowsTyped DEF TypeOK, Table
<1>3. ASSUME NEW e \in Exec, NEW r \in 1..MaxRevision, r <= Len(rows[e]),
             rows[e][r].state = "reserved" => rows[e][r].age >= SweepLease
      PROVE  /\ r <= Len(rows'[e])
             /\ rows'[e][r].state = "reserved" => rows'[e][r].age >= SweepLease
  <2>1. r \in 1..Len(rows[e])
    BY <1>2, <1>3, ConstantsAssumption
  <2>2. /\ Len(rows[e]) <= Len(rows'[e])
        /\ rows'[e][r].state = "reserved" =>
             rows[e][r].state = "reserved" /\ rows'[e][r].age >= rows[e][r].age
    BY <1>1, <2>1, OldRow
  <2>3. /\ rows[e][r].age \in Int
        /\ rows'[e][r].state = "reserved" => rows'[e][r].age \in Int
    <3>1. rows'[e] \in Seq(Assignment) /\ rows[e] \in Seq(Assignment)
      BY <1>1, RowsTyped DEF TypeOK, Table
    <3>2. r \in 1..Len(rows'[e])
      BY <1>2, <2>1, <2>2
    <3>3. rows'[e][r] \in Assignment /\ rows[e][r] \in Assignment
      BY <2>1, <3>1, <3>2
    <3>4. QED
      BY <3>3, ConstantsAssumption DEF Assignment
  <2>4. SweepLease \in Int
    BY ConstantsAssumption
  <2>5. QED
    BY <1>2, <1>3, <2>2, <2>3, <2>4
<1>4. CASE sweep'.targets \subseteq sweep.targets
  BY <1>3, <1>4 DEF SweepTargetsStale
<1>5. CASE SweepScan
  <2>1. rows' = rows /\ sweep'.targets \subseteq StaleSlots
    BY <1>5 DEF SweepScan
  <2>2. QED
    BY <2>1, <1>2 DEF SweepTargetsStale, StaleSlots, IsStale
<1>6. ASSUME ~SweepScan
      PROVE  sweep'.targets \subseteq sweep.targets
  BY <1>6
  DEF NonceNext, Sweep, SweepLock, SweepCommit, SweepFailed, NoSweep, Tick, Restart, RereadFailed,
      Reserve, ReserveInserted, ReserveReread, ReserveConflict, ReserveHeld, ReserveGone,
      Sync, SyncInserted, SyncConflict, SyncHeld, SyncReread, SyncRejected,
      Resolve, ResolveUpdated, ResolveMissed, ResolveAgreed, ResolveRefused, nonceVars, TypeOK
<1>7. QED
  BY <1>4, <1>5, <1>6

\* A fresh reservation stays the only claim of its execution.
LEMMA FreshStep ==
    ASSUME TypeOK, LeaseInv, NonceNext
    PROVE  FreshIsOnlyClaim'
<1>1. RowsStep
  BY StepShape
<1>2. \A e \in Exec : Len(rows[e]) \in Nat /\ Len(rows'[e]) \in Nat
  BY <1>1, RowsTyped DEF TypeOK, Table
<1>3. SUFFICES ASSUME NEW e \in Exec, NEW r \in 1..Len(rows'[e]), NEW q \in 1..Len(rows'[e]),
                      IsFresh(e, r)', q # r
               PROVE  q < r /\ rows'[e][q].state # "finalized" /\ ~IsFresh(e, q)'
  BY DEF FreshIsOnlyClaim
<1>4. ASSUME NEW p \in 1..Len(rows[e]), IsFresh(e, p)'
      PROVE  IsFresh(e, p)
  <2>1. /\ rows[e][p].state = "reserved" /\ rows'[e][p].age >= rows[e][p].age
        /\ rows'[e][p].age < ReserveLease
        /\ p \in 1..Len(rows'[e])
    BY <1>1, <1>2, <1>4, OldRow DEF IsFresh
  <2>2. rows[e][p].age \in Int /\ rows'[e][p].age \in Int
    <3>1. rows'[e] \in Seq(Assignment) /\ rows[e] \in Seq(Assignment)
      BY <1>1, RowsTyped DEF TypeOK, Table
    <3>2. rows'[e][p] \in Assignment /\ rows[e][p] \in Assignment
      BY <2>1, <3>1
    <3>3. \A row \in Assignment : row.age \in Int
      BY ConstantsAssumption DEF Assignment
    <3>4. QED
      BY <3>2, <3>3
  <2>3. ReserveLease \in Int
    BY ConstantsAssumption
  <2>4. QED
    BY <2>1, <2>2, <2>3 DEF IsFresh
<1>5. CASE r \notin 1..Len(rows[e])
  <2>1. /\ r = Len(rows[e]) + 1
        /\ Len(rows'[e]) = r
        /\ ~HasClaim(e, ReserveLease)
        /\ \A p \in 1..Len(rows[e]) : rows'[e][p] = rows[e][p] \/ rows'[e][p].state = "consumed"
    BY <1>1, <1>5, NewRow
  <2>2. q \in 1..Len(rows[e]) /\ q < r
    BY <1>2, <1>3, <2>1
  <2>3. QED
    BY <1>4, <2>1, <2>2 DEF HasClaim, IsFresh
<1>6. CASE r \in 1..Len(rows[e]) /\ q \notin 1..Len(rows[e])
  <2>1. ~HasClaim(e, ReserveLease)
    BY <1>1, <1>6, NewRow
  <2>2. IsFresh(e, r)
    BY <1>3, <1>4, <1>6
  <2>3. QED
    BY <1>6, <2>1, <2>2 DEF HasClaim, IsFresh
<1>7. CASE r \in 1..Len(rows[e]) /\ q \in 1..Len(rows[e])
  <2>1. IsFresh(e, r)
    BY <1>3, <1>4, <1>7
  <2>2. q < r /\ rows[e][q].state # "finalized" /\ ~IsFresh(e, q)
    BY <1>3, <1>7, <2>1 DEF LeaseInv, FreshIsOnlyClaim
  <2>3. <<e, r>> \notin Locked
    <3>1. r \in 1..MaxRevision /\ r <= Len(rows[e])
      BY <1>2, <1>7, ConstantsAssumption DEF TypeOK
    <3>2. rows[e][r].age \in Int
      <4>1. rows[e][r] \in Assignment
        BY <1>7 DEF TypeOK
      <4>2. QED
        BY <4>1, ConstantsAssumption DEF Assignment
    <3>3. ReserveLease \in Int /\ SweepLease \in Int /\ ReserveLease <= SweepLease
      BY ConstantsAssumption
    <3>4. <<e, r>> \notin sweep.targets
      BY <2>1, <3>1, <3>2, <3>3 DEF LeaseInv, SweepTargetsStale, IsFresh
    <3>5. QED
      BY <3>4 DEF Locked
  <2>4. ~IsResolvable(e, q)
    <3>1. r \in (q + 1)..Len(rows[e])
      BY <1>2, <1>7, <2>2
    <3>2. QED
      BY <2>1, <2>3, <3>1 DEF IsResolvable, IsFresh
  <2>5. rows'[e][q].state # "finalized"
    BY <1>1, <1>7, <2>2, <2>4, OldRow
  <2>6. QED
    BY <1>4, <1>7, <2>2, <2>5
<1>8. QED
  BY <1>5, <1>6, <1>7

\* The sweeper names stale reservations only, and a fresh reservation is the only
\* claim of its execution.
THEOREM LeasesExclusive == NonceSpec => [](SweepTargetsStale /\ FreshIsOnlyClaim)
<1>1. NonceInit => LeaseInv
  BY DEF NonceInit, LeaseInv, SweepTargetsStale, FreshIsOnlyClaim, NoSweep
<1>2. TypeOK /\ LeaseInv /\ NonceNext => LeaseInv'
  BY SweepTargetsStep, FreshStep DEF LeaseInv
<1>3. LeaseInv /\ UNCHANGED nonceVars => LeaseInv'
  BY DEF LeaseInv, SweepTargetsStale, FreshIsOnlyClaim, IsFresh, nonceVars
<1>4. TypeOK /\ LeaseInv /\ [NonceNext]_nonceVars => LeaseInv'
  BY <1>2, <1>3
<1>5. NonceSpec => []LeaseInv
  BY <1>1, <1>4, TypeCorrect, PTL DEF NonceSpec
<1>6. QED
  BY <1>5, PTL DEF LeaseInv

\* From its scan to its commit the sweeper's statement names no reservation younger
\* than the sweep lease.
THEOREM TargetsStale == NonceSpec => []SweepTargetsStale
  BY LeasesExclusive, PTL

-----------------------------------------------------------------------------
(* Gaps *)

Assigned(a, m) == \E t \in Slots : AccountOf[t[1]] = a /\ At(t).nonce = m

\* A nonce that was assigned stays assigned: revisions are never deleted.
LEMMA AssignedStays ==
    ASSUME TypeOK, RowsStep, NEW a, NEW m, Assigned(a, m)
    PROVE  Assigned(a, m)'
<1>1. PICK t \in Slots : AccountOf[t[1]] = a /\ At(t).nonce = m
  BY DEF Assigned
<1>2. PICK e \in Exec, r \in 1..MaxRevision : t = <<e, r>> /\ r <= Len(rows[e])
  BY <1>1 DEF Slots
<1>3. \A f \in Exec : Len(rows[f]) \in Nat /\ Len(rows'[f]) \in Nat
  BY RowsTyped DEF TypeOK, Table
<1>4. r \in 1..Len(rows[e])
  BY <1>2, <1>3, ConstantsAssumption
<1>5. Len(rows[e]) <= Len(rows'[e]) /\ rows'[e][r].nonce = rows[e][r].nonce
  BY <1>4, OldRow
<1>6. r <= Len(rows'[e])
  BY <1>2, <1>3, <1>5, ConstantsAssumption
<1>7. <<e, r>> \in Slots'
  BY <1>2, <1>6 DEF Slots
<1>8. QED
  BY <1>1, <1>2, <1>5, <1>7 DEF Assigned, At

\* Every nonce below an assigned one was assigned too, or reported by the chain.
THEOREM GapFree == NonceSpec => []NoHoles
<1>1. NonceInit => NoHoles
  BY ConstantsAssumption DEF NonceInit, NoHoles, Slots
<1>2. ASSUME TypeOK, NoHoles, NonceNext
      PROVE  NoHoles'
  <2>1. RowsStep
    BY <1>2, StepShape
  <2>2. \A f \in Exec : Len(rows[f]) \in Nat /\ Len(rows'[f]) \in Nat
    BY <1>2, <2>1, RowsTyped DEF TypeOK, Table
  <2>3. MaxOnChain \in Nat /\ MaxRevision \in Nat
    BY ConstantsAssumption
  <2>4. SUFFICES ASSUME NEW e \in Exec, NEW r \in 1..MaxRevision, r <= Len(rows'[e]),
                        NEW m \in 0..(rows'[e][r].nonce - 1), ~(m < MaxOnChain)
                 PROVE  Assigned(AccountOf[e], m)'
    <3>1. SUFFICES ASSUME NEW s \in Slots', NEW m \in 0..(At(s)'.nonce - 1),
                          ~(m < MaxOnChain)
                   PROVE  Assigned(AccountOf[s[1]], m)'
      BY DEF NoHoles, Assigned
    <3>2. PICK e \in Exec, r \in 1..MaxRevision : s = <<e, r>> /\ r <= Len(rows'[e])
      BY <3>1 DEF Slots
    <3>3. m \in 0..(rows'[e][r].nonce - 1)
      BY <3>1, <3>2 DEF At
    <3>4. QED
      BY <2>4, <3>1, <3>2, <3>3
  <2>5. ASSUME NEW f \in Exec, NEW q \in 1..MaxRevision, q <= Len(rows[f]),
               AccountOf[f] = AccountOf[e], m \in 0..(rows[f][q].nonce - 1)
        PROVE  Assigned(AccountOf[e], m)'
    <3>1. <<f, q>> \in Slots /\ At(<<f, q>>) = rows[f][q]
      BY <2>5 DEF Slots, At
    <3>2. Assigned(AccountOf[e], m)
      BY <1>2, <2>4, <2>5, <3>1 DEF NoHoles, Assigned
    <3>3. QED
      BY <1>2, <2>1, <3>2, AssignedStays
  <2>6. CASE r \in 1..Len(rows[e])
    <3>1. rows'[e][r].nonce = rows[e][r].nonce
      BY <1>2, <2>1, <2>6, OldRow
    <3>2. QED
      BY <2>4, <2>5, <2>6, <3>1
  <2>7. CASE r \notin 1..Len(rows[e])
    <3> DEFINE n == rows'[e][r].nonce
    <3>1. r \in 1..Len(rows'[e])
      BY <2>2, <2>3, <2>4
    <3>2. n \in Nat /\ IsSource(AccountOf[e], n)
      BY <1>2, <2>1, <2>7, <3>1, NewRow
    <3>3. m \in Nat /\ m < n
      BY <2>4, <3>2
    <3>4. CASE n <= MaxOnChain
      BY <2>3, <2>4, <3>2, <3>3, <3>4
    <3>5. CASE IsNextSequential(AccountOf[e], n)
      <4>1. n # 0 /\ Held(AccountOf[e], n - 1)
        BY <3>2, <3>3, <3>5 DEF IsNextSequential
      <4>2. PICK f \in Exec : /\ AccountOf[f] = AccountOf[e]
                              /\ \E q \in 1..Len(rows[f]) : rows[f][q].nonce = n - 1
        BY <4>1 DEF Held
      <4>3. PICK q \in 1..Len(rows[f]) : rows[f][q].nonce = n - 1
        BY <4>2
      <4>4. q \in 1..MaxRevision /\ q <= Len(rows[f])
        BY <1>2, <2>2, <2>3 DEF TypeOK
      <4>5. CASE m = n - 1
        <5>1. <<f, q>> \in Slots /\ At(<<f, q>>) = rows[f][q]
          BY <4>4 DEF Slots, At
        <5>2. Assigned(AccountOf[e], m)
          BY <4>2, <4>3, <4>5, <5>1 DEF Assigned
        <5>3. QED
          BY <1>2, <2>1, <5>2, AssignedStays
      <4>6. CASE m # n - 1
        <5>1. m \in 0..(rows[f][q].nonce - 1)
          <6> HIDE DEF n
          <6>1. m \in 0..((n - 1) - 1)
            BY <3>2, <3>3, <4>6
          <6>2. QED
            BY <4>3, <6>1
        <5>2. QED
          BY <2>5, <4>2, <4>4, <5>1
      <4>7. QED
        BY <4>5, <4>6
    <3>6. CASE \E s \in Slots : AccountOf[s[1]] = AccountOf[e] /\ At(s).nonce = n
      <4>1. PICK f \in Exec, q \in 1..MaxRevision :
                /\ q <= Len(rows[f])
                /\ AccountOf[f] = AccountOf[e]
                /\ rows[f][q].nonce = n
        BY <3>6 DEF Slots, At
      <4>2. QED
        BY <2>4, <2>5, <4>1
    <3>7. QED
      BY <3>2, <3>4, <3>5, <3>6 DEF IsSource
  <2>8. QED
    BY <2>6, <2>7
<1>3. NoHoles /\ UNCHANGED nonceVars => NoHoles'
  BY DEF NoHoles, Slots, At, nonceVars
<1>4. TypeOK /\ NoHoles /\ [NonceNext]_nonceVars => NoHoles'
  BY <1>2, <1>3
<1>5. QED
  BY <1>1, <1>4, TypeCorrect, PTL DEF NonceSpec

-----------------------------------------------------------------------------
(* The ledger.  It sees a claim where the table has an active row, and needs *)
(* UniqueActive to tell rows by their claims: an execution has one active    *)
(* row of a nonce at most, so that moving the row moves the claim.           *)

LedgerInv == TypeOK /\ UniqueActive /\ SweepTargetsStale

LedgerStep == [Ledger!LedgerNext]_(Ledger!ledgerVars)

Active == Claims(ActiveStates)
Final == Claims({"finalized"})

\* The rows behind a claim.
HasRow(table, states, e, n) ==
    \E r \in 1..Len(table[e]) : table[e][r].state \in states /\ table[e][r].nonce = n

\* A claim is an execution with a row in one of the states.
LEMMA ClaimRows ==
    ASSUME NEW states
    PROVE  /\ \A c \in Claims(states) : c \in Exec \X {c[2]}
           /\ \A e \in Exec : \A n : <<e, n>> \in Claims(states) <=> HasRow(rows, states, e, n)
           /\ \A c \in Claims(states)' : c \in Exec \X {c[2]}
           /\ \A e \in Exec : \A n : <<e, n>> \in Claims(states)' <=> HasRow(rows', states, e, n)
  BY DEF Claims, HasRow

\* Two sets of claims are compared claim by claim.
LEMMA SameClaims ==
    ASSUME NEW states,
           \A e \in Exec : \A n : HasRow(rows', states, e, n) <=> HasRow(rows, states, e, n)
    PROVE  Claims(states)' = Claims(states)
  BY ClaimRows

\* The nonces of the sweeper's targets never change, so suspicion changes with the
\* targets only.
LEMMA SuspectsKept ==
    ASSUME LedgerInv, NonceNext, sweep' = sweep
    PROVE  Suspects' = Suspects
<1>1. TypeOK /\ RowsStep
  BY StepShape DEF LedgerInv
<1>2. ASSUME NEW s \in sweep.targets
      PROVE  At(s)'.nonce = At(s).nonce
  <2>1. PICK e \in Exec, r \in 1..MaxRevision : s = <<e, r>>
    BY <1>1 DEF TypeOK
  <2>2. r \in 1..Len(rows[e])
    <3>1. r <= Len(rows[e])
      BY <2>1 DEF LedgerInv, SweepTargetsStale
    <3>2. Len(rows[e]) \in Nat /\ MaxRevision \in Nat
      BY <1>1, ConstantsAssumption DEF TypeOK
    <3>3. QED
      BY <3>1, <3>2
  <2>3. rows'[e][r].nonce = rows[e][r].nonce
    BY <1>1, <2>2, OldRow
  <2>4. QED
    BY <2>1, <2>3 DEF At
<1>3. QED
  BY <1>2 DEF Suspects

-----------------------------------------------------------------------------
(* What the statements do to the claims *)

\* Rows that keep their nonce, and their state if they are active before or after,
\* leave every claim alone: time, and a released row that is consumed.
LEMMA ClaimsUnmoved ==
    ASSUME \A e \in Exec :
              /\ Len(rows'[e]) = Len(rows[e])
              /\ \A r \in 1..Len(rows[e]) :
                    /\ rows'[e][r].nonce = rows[e][r].nonce
                    /\ \/ rows'[e][r].state = rows[e][r].state
                       \/ {rows'[e][r].state, rows[e][r].state} \cap ActiveStates = {}
    PROVE  Active' = Active /\ Final' = Final
<1>1. ASSUME NEW states, states \subseteq ActiveStates, NEW e \in Exec, NEW n
      PROVE  HasRow(rows', states, e, n) <=> HasRow(rows, states, e, n)
  BY <1>1 DEF HasRow
<1>2. {"finalized"} \subseteq ActiveStates
  BY DEF ActiveStates
<1>3. QED
  BY <1>1, <1>2, SameClaims DEF Active, Final

\* A statement that leaves the claims and the sweep alone is a stutter of the ledger.
LEMMA LedgerStutters ==
    ASSUME LedgerInv, NonceNext, sweep' = sweep, Active' = Active, Final' = Final
    PROVE  LedgerStep
<1>1. Suspects' = Suspects
  BY SuspectsKept
<1>2. QED
  BY <1>1 DEF LedgerStep, Ledger!ledgerVars, Active, Final

\* An UPDATE moves the named rows to the new state and changes nothing else that a
\* claim depends on.
LEMMA MovedRows ==
    ASSUME LedgerInv, NEW S, NEW new \in NonceState, rows' = SetState(rows, S, new)
    PROVE  \A e \in Exec :
              /\ Len(rows'[e]) = Len(rows[e])
              /\ \A r \in 1..Len(rows[e]) :
                    /\ rows'[e][r].nonce = rows[e][r].nonce
                    /\ <<e, r>> \in S => rows'[e][r].state = new
                    /\ <<e, r>> \notin S => rows'[e][r].state = rows[e][r].state
<1>1. rows \in Table
  BY DEF LedgerInv, TypeOK, Table
<1>2. ASSUME NEW e \in Exec
      PROVE  /\ Len(rows'[e]) = Len(rows[e])
             /\ \A r \in 1..Len(rows[e]) :
                  rows'[e][r] = IF <<e, r>> \in S
                                THEN [nonce |-> rows[e][r].nonce, state |-> new, age |-> 0]
                                ELSE rows[e][r]
  BY <1>1, SetStateLemma
<1>3. ASSUME NEW e \in Exec, NEW r \in 1..Len(rows[e])
      PROVE  /\ rows'[e][r].nonce = rows[e][r].nonce
             /\ <<e, r>> \in S => rows'[e][r].state = new
             /\ <<e, r>> \notin S => rows'[e][r].state = rows[e][r].state
  <2>1. CASE <<e, r>> \in S
    <3>1. rows'[e][r] = [nonce |-> rows[e][r].nonce, state |-> new, age |-> 0]
      BY <1>2, <2>1
    <3>2. QED
      BY <2>1, <3>1
  <2>2. CASE <<e, r>> \notin S
    <3>1. rows'[e][r] = rows[e][r]
      BY <1>2, <2>2
    <3>2. QED
      BY <2>2, <3>1
  <2>3. QED
    BY <2>1, <2>2
<1>4. QED
  BY <1>2, <1>3

\* One execution has at most one active row of a nonce.
LEMMA OneRow ==
    ASSUME LedgerInv, NEW e \in Exec, NEW r \in 1..Len(rows[e]), NEW q \in 1..Len(rows[e]),
           IsActive(e, r), IsActive(e, q), rows[e][r].nonce = rows[e][q].nonce
    PROVE  r = q
  BY DEF LedgerInv, UniqueActive

\* A scan raises a suspicion of claims that nobody has settled.
LEMMA ScanSuspects ==
    ASSUME LedgerInv, SweepScan
    PROVE  Ledger!Suspect
<1>1. rows' = rows /\ sweep.targets = {} /\ sweep'.targets \subseteq StaleSlots
  BY DEF SweepScan, NoSweep
<1>2. Suspects = {} /\ Active' = Active /\ Final' = Final
  BY <1>1 DEF Suspects, Active, Final, Claims
<1>3. ASSUME NEW s \in StaleSlots
      PROVE  <<s[1], At(s).nonce>> \in Active \ Final
  <2>1. PICK e \in Exec, r \in 1..MaxRevision : s = <<e, r>> /\ r \in 1..Len(rows[e])
                                               /\ rows[e][r].state = "reserved"
    BY <1>3 DEF StaleSlots, Slots, IsStale
  <2>2. IsActive(e, r)
    BY <2>1 DEF IsActive, ActiveStates
  <2>3. <<e, rows[e][r].nonce>> \in Active
    BY <2>1, <2>2, ClaimRows DEF Active, HasRow, IsActive
  <2>4. ASSUME <<e, rows[e][r].nonce>> \in Final
        PROVE  FALSE
    <3>1. PICK q \in 1..Len(rows[e]) : /\ rows[e][q].state = "finalized"
                                      /\ rows[e][q].nonce = rows[e][r].nonce
      BY <2>4, ClaimRows DEF Final, HasRow
    <3>2. IsActive(e, q)
      BY <3>1 DEF IsActive, ActiveStates
    <3>3. r = q
      BY <2>1, <2>2, <3>1, <3>2, OneRow
    <3>4. QED
      BY <2>1, <3>1, <3>3
  <2>5. QED
    BY <2>1, <2>3, <2>4 DEF At
<1>4. Suspects' \subseteq Active \ Final
  BY <1>1, <1>3 DEF Suspects, At
<1>5. QED
  BY <1>2, <1>4 DEF Ledger!Suspect, Active, Final

\* The commit of a sweep takes away claims under suspicion only.
LEMMA CommitReclaims ==
    ASSUME LedgerInv, SweepCommit
    PROVE  Ledger!Reclaim
<1>1. /\ sweep'.targets = {}
      /\ rows' = SetState(rows, sweep.targets, "released")
      /\ "released" \in NonceState
  BY DEF SweepCommit, NoSweep, NonceState, Resolutions
<1>2. \A e \in Exec :
        /\ Len(rows'[e]) = Len(rows[e])
        /\ \A r \in 1..Len(rows[e]) :
             /\ rows'[e][r].nonce = rows[e][r].nonce
             /\ <<e, r>> \in sweep.targets => rows'[e][r].state = "released"
             /\ <<e, r>> \notin sweep.targets => rows'[e][r].state = rows[e][r].state
  BY <1>1, MovedRows
<1>3. "released" \notin ActiveStates /\ "finalized" \in ActiveStates
  BY DEF ActiveStates
<1>4. Suspects' = {}
  BY <1>1 DEF Suspects
<1>5. ASSUME NEW states, states \subseteq ActiveStates
      PROVE  Claims(states)' \subseteq Claims(states)
  <2>1. ASSUME NEW e \in Exec, NEW n, HasRow(rows', states, e, n)
        PROVE  HasRow(rows, states, e, n)
    BY <1>2, <1>3, <1>5, <2>1 DEF HasRow
  <2>2. QED
    BY <2>1, ClaimRows
<1>6. Active' \subseteq Active /\ Final' \subseteq Final
  BY <1>3, <1>5 DEF Active, Final
<1>7. Active \ Active' \subseteq Suspects
  <2>1. ASSUME NEW e \in Exec, NEW n, <<e, n>> \in Active, <<e, n>> \notin Active'
        PROVE  <<e, n>> \in Suspects
    <3>1. PICK r \in 1..Len(rows[e]) : rows[e][r].state \in ActiveStates /\ rows[e][r].nonce = n
      BY <2>1, ClaimRows DEF Active, HasRow
    <3>2. ~HasRow(rows', ActiveStates, e, n)
      BY <2>1, ClaimRows DEF Active
    <3>3. <<e, r>> \in sweep.targets
      BY <1>2, <3>1, <3>2 DEF HasRow
    <3>4. QED
      BY <3>1, <3>3 DEF Suspects, At
  <2>2. QED
    BY <2>1, ClaimRows DEF Active
<1>8. Final' = Final \cap Active'
  <2>1. ASSUME NEW e \in Exec, NEW n
        PROVE  <<e, n>> \in Final' => <<e, n>> \in Active'
    BY <1>3, ClaimRows DEF Active, Final, HasRow
  <2>2. ASSUME NEW e \in Exec, NEW n, <<e, n>> \in Final, <<e, n>> \in Active'
        PROVE  <<e, n>> \in Final'
    <3>1. PICK r \in 1..Len(rows[e]) : rows[e][r].state = "finalized" /\ rows[e][r].nonce = n
      BY <2>2, ClaimRows DEF Final, HasRow
    <3>2. PICK q \in 1..Len(rows'[e]) : rows'[e][q].state \in ActiveStates /\ rows'[e][q].nonce = n
      BY <2>2, ClaimRows DEF Active, HasRow
    <3>3. /\ q \in 1..Len(rows[e])
          /\ rows[e][q].nonce = n
          /\ rows'[e][q].state = rows[e][q].state
      BY <1>2, <1>3, <3>2
    <3>4. IsActive(e, r) /\ IsActive(e, q)
      BY <1>3, <3>1, <3>2, <3>3 DEF IsActive
    <3>5. r = q
      BY <3>1, <3>3, <3>4, OneRow
    <3>6. HasRow(rows', {"finalized"}, e, n)
      BY <3>1, <3>2, <3>3, <3>5 DEF HasRow
    <3>7. QED
      BY <3>6, ClaimRows DEF Final
  <2>3. QED
    BY <1>6, <2>1, <2>2, ClaimRows DEF Active, Final
<1>9. QED
  BY <1>4, <1>6, <1>7, <1>8 DEF Ledger!Reclaim, Active, Final

\* A released row that is consumed is nobody's claim.
LEMMA ConsumeStutters ==
    ASSUME LedgerInv, NEW s \in Slots, At(s).state = "released"
    PROVE  rows' = SetState(rows, {s}, "consumed") => Active' = Active /\ Final' = Final
<1>1. SUFFICES ASSUME rows' = SetState(rows, {s}, "consumed")
               PROVE  Active' = Active /\ Final' = Final
  OBVIOUS
<1>2. "consumed" \in NonceState
  BY DEF NonceState, Resolutions
<1>3. \A e \in Exec :
        /\ Len(rows'[e]) = Len(rows[e])
        /\ \A r \in 1..Len(rows[e]) :
             /\ rows'[e][r].nonce = rows[e][r].nonce
             /\ <<e, r>> \in {s} => rows'[e][r].state = "consumed"
             /\ <<e, r>> \notin {s} => rows'[e][r].state = rows[e][r].state
  BY <1>1, <1>2, MovedRows
<1>4. ASSUME NEW e \in Exec, NEW r \in 1..Len(rows[e]), <<e, r>> \in {s}
      PROVE  rows[e][r].state = "released"
  BY <1>4 DEF At
<1>5. {"consumed", "released"} \cap ActiveStates = {}
  BY DEF ActiveStates
<1>6. QED
  BY <1>3, <1>4, <1>5, ClaimsUnmoved

\* The reserved row that handle_resolve finds is settled or given up.
LEMMA ResolveSettles ==
    ASSUME LedgerInv, NEW e \in Exec, NEW state \in Resolutions,
           NonceNext, ResolveUpdated(e, state)
    PROVE  Ledger!LedgerNext
<1>1. PICK r \in 1..Len(rows[e]) : /\ rows[e][r].state = "reserved"
                                   /\ rows' = SetState(rows, {<<e, r>>}, state)
  BY DEF ResolveUpdated, IsResolvable
<1> DEFINE n == rows[e][r].nonce
<1>2. state \in NonceState /\ Suspects' = Suspects
  BY SuspectsKept DEF NonceState, ResolveUpdated
<1>3. \A f \in Exec :
        /\ Len(rows'[f]) = Len(rows[f])
        /\ \A q \in 1..Len(rows[f]) :
             /\ rows'[f][q].nonce = rows[f][q].nonce
             /\ <<f, q>> \in {<<e, r>>} => rows'[f][q].state = state
             /\ <<f, q>> \notin {<<e, r>>} => rows'[f][q].state = rows[f][q].state
  BY <1>1, <1>2, MovedRows
<1>4. IsActive(e, r)
  BY <1>1 DEF IsActive, ActiveStates
<1>5. <<e, n>> \in Active
  BY <1>4, ClaimRows DEF Active, HasRow, IsActive
<1>6. ASSUME NEW q \in 1..Len(rows[e]), rows[e][q].nonce = n, IsActive(e, q)
      PROVE  q = r
  BY <1>4, <1>6, OneRow
<1>7. ~HasRow(rows, {"finalized"}, e, n) /\ <<e, n>> \notin Final
  <2>1. ~HasRow(rows, {"finalized"}, e, n)
    BY <1>1, <1>6 DEF HasRow, IsActive, ActiveStates
  <2>2. QED
    BY <2>1, ClaimRows DEF Final
<1>8. ASSUME NEW states, states \subseteq ActiveStates, NEW f \in Exec, NEW m, <<f, m>> # <<e, n>>
      PROVE  HasRow(rows', states, f, m) <=> HasRow(rows, states, f, m)
  BY <1>3, <1>8 DEF HasRow
<1>9. {"finalized"} \subseteq ActiveStates
  BY DEF ActiveStates
<1>10. CASE state = "finalized"
  <2>1. HasRow(rows', {"finalized"}, e, n) /\ HasRow(rows', ActiveStates, e, n)
    BY <1>3, <1>9, <1>10 DEF HasRow
  <2>2. Active' = Active
    BY <1>5, <1>8, <2>1, ClaimRows DEF Active
  <2>3. Final' = Final \cup {<<e, n>>}
    BY <1>8, <1>9, <2>1, ClaimRows DEF Final
  <2>4. Ledger!Settle(<<e, n>>) /\ <<e, n>> \in Final' \ Final
    BY <1>2, <1>5, <1>7, <2>2, <2>3 DEF Ledger!Settle, Active, Final
  <2>5. QED
    BY <2>4 DEF Ledger!LedgerNext, Final
<1>11. CASE state # "finalized"
  <2>1. state \notin ActiveStates
    BY <1>11 DEF Resolutions, ActiveStates
  <2>2. ASSUME NEW states, states \subseteq ActiveStates
        PROVE  ~HasRow(rows', states, e, n)
    BY <1>3, <1>6, <2>1, <2>2 DEF HasRow, IsActive
  <2>3. Active' = Active \ {<<e, n>>}
    BY <1>8, <2>2, ClaimRows DEF Active
  <2>4. Final' = Final
    <3>1. ASSUME NEW f \in Exec, NEW m
          PROVE  HasRow(rows', {"finalized"}, f, m) <=> HasRow(rows, {"finalized"}, f, m)
      <4>1. CASE <<f, m>> = <<e, n>>
        BY <1>7, <1>9, <2>2, <4>1
      <4>2. CASE <<f, m>> # <<e, n>>
        BY <1>8, <1>9, <4>2
      <4>3. QED
        BY <4>1, <4>2
    <3>2. QED
      BY <3>1, SameClaims DEF Final
  <2>5. Ledger!GiveUp(<<e, n>>) /\ <<e, n>> \in Active \ Active'
    BY <1>2, <1>5, <1>7, <2>3, <2>4 DEF Ledger!GiveUp, Active, Final
  <2>6. QED
    BY <2>5 DEF Ledger!LedgerNext, Active
<1>12. QED
  BY <1>10, <1>11

\* A reservation that is inserted grants its nonce, which nobody of the account holds,
\* to an execution that has settled none.
LEMMA InsertGrants ==
    ASSUME LedgerInv, NonceNext, sweep' = sweep, NEW e \in Exec, NEW n \in Nat, NEW S, NEW lease,
           \A s \in S : s \in Slots /\ At(s).state = "released",
           ~Held(AccountOf[e], n), ~HasClaim(e, lease),
           rows' = Insert(SetState(rows, S, "consumed"), e, n)
    PROVE  Ledger!LedgerNext
<1> DEFINE mid == SetState(rows, S, "consumed")
           c == <<e, n>>
<1>1. rows \in Table /\ "consumed" \in NonceState
  BY DEF LedgerInv, TypeOK, Table, NonceState, Resolutions
<1>2. /\ mid \in Table
      /\ \A f \in Exec :
           /\ Len(mid[f]) = Len(rows[f])
           /\ \A r \in 1..Len(rows[f]) :
                mid[f][r] = IF <<f, r>> \in S
                            THEN [nonce |-> rows[f][r].nonce, state |-> "consumed", age |-> 0]
                            ELSE rows[f][r]
  BY <1>1, SetStateLemma
<1>3. ASSUME NEW f \in Exec, NEW r \in 1..Len(rows[f])
      PROVE  /\ mid[f][r].nonce = rows[f][r].nonce
             /\ \/ mid[f][r].state = rows[f][r].state
                \/ mid[f][r].state \notin ActiveStates /\ rows[f][r].state \notin ActiveStates
  <2>1. CASE <<f, r>> \in S
    <3>1. mid[f][r] = [nonce |-> rows[f][r].nonce, state |-> "consumed", age |-> 0]
      BY <1>2, <2>1
    <3>2. rows[f][r].state = "released"
      BY <2>1 DEF At
    <3> HIDE DEF mid
    <3>3. QED
      BY <3>1, <3>2 DEF ActiveStates
  <2>2. CASE <<f, r>> \notin S
    BY <1>2, <2>2
  <2>3. QED
    BY <2>1, <2>2
<1>4. \A f \in Exec : Len(mid[f]) = Len(rows[f]) /\ Len(rows[f]) \in Nat
  BY <1>1, <1>2 DEF Table
<1> HIDE DEF mid
<1>5. /\ \A f \in Exec : f # e => rows'[f] = mid[f]
      /\ Len(rows'[e]) = Len(mid[e]) + 1
      /\ \A r \in 1..Len(mid[e]) : rows'[e][r] = mid[e][r]
      /\ rows'[e][Len(mid[e]) + 1] = [nonce |-> n, state |-> "reserved", age |-> 0]
  <2>1. rows' = Insert(mid, e, n)
    BY DEF mid
  <2>2. QED
    BY <1>2, <2>1, InsertLemma
<1>6. ASSUME NEW states, states \subseteq ActiveStates, NEW f \in Exec, NEW m
      PROVE  HasRow(mid, states, f, m) <=> HasRow(rows, states, f, m)
  BY <1>3, <1>4, <1>6 DEF HasRow
<1>7. ASSUME NEW states, NEW f \in Exec, NEW m
      PROVE  HasRow(rows', states, f, m) <=>
                HasRow(mid, states, f, m) \/ (<<f, m>> = c /\ "reserved" \in states)
  <2>1. CASE f # e
    BY <1>5, <2>1 DEF HasRow
  <2>2. CASE f = e
    <3> DEFINE k == Len(mid[e])
    <3>1. k \in Nat /\ 1..Len(rows'[e]) = (1..k) \cup {k + 1}
      BY <1>4, <1>5
    <3>2. /\ \A r \in 1..k : rows'[e][r] = mid[e][r]
          /\ rows'[e][k + 1].nonce = n /\ rows'[e][k + 1].state = "reserved"
      BY <1>5
    <3> HIDE DEF k
    <3>3. HasRow(rows', states, e, m) <=>
            \/ \E r \in 1..k : mid[e][r].state \in states /\ mid[e][r].nonce = m
            \/ "reserved" \in states /\ n = m
      BY <3>1, <3>2 DEF HasRow
    <3>4. QED
      BY <2>2, <3>3 DEF HasRow, k
  <2>3. QED
    BY <2>1, <2>2
<1>8. "reserved" \in ActiveStates /\ {"finalized"} \subseteq ActiveStates /\ "reserved" \notin {"finalized"}
  BY DEF ActiveStates
<1>9. Active' = Active \cup {c}
  <2>1. \A f \in Exec : \A m : <<f, m>> \in Active' <=> <<f, m>> \in Active \/ <<f, m>> = c
    BY <1>6, <1>7, <1>8, ClaimRows DEF Active
  <2>2. QED
    BY <2>1, ClaimRows DEF Active
<1>10. Final' = Final
  BY <1>6, <1>7, <1>8, SameClaims DEF Final
<1>11. \A d \in Active : d[2] = n => AccountOf[d[1]] # AccountOf[e]
  <2>1. ASSUME NEW f \in Exec, <<f, n>> \in Active
        PROVE  AccountOf[f] # AccountOf[e]
    <3>1. HasRow(rows, ActiveStates, f, n)
      BY <2>1, ClaimRows DEF Active
    <3>2. QED
      BY <3>1 DEF HasRow, Held, IsActive
  <2>2. QED
    BY <2>1, ClaimRows DEF Active
<1>12. \A d \in Final : d[1] # e
  <2>1. ASSUME NEW m, <<e, m>> \in Final
        PROVE  FALSE
    <3>1. HasRow(rows, {"finalized"}, e, m)
      BY <2>1, ClaimRows DEF Final
    <3>2. QED
      BY <3>1 DEF HasRow, HasClaim
  <2>2. QED
    BY <2>1, ClaimRows DEF Final
<1>13. Suspects' = Suspects
  BY SuspectsKept
<1>14. Ledger!Grant(c) /\ c \in Active' \ Active
  BY <1>9, <1>10, <1>11, <1>12, <1>13 DEF Ledger!Grant, Active, Final
<1>15. QED
  BY <1>14 DEF Ledger!LedgerNext, Active

-----------------------------------------------------------------------------
(* The implementation *)

\* Every step of the nonce table is a step of the ledger, or a stutter.
LEMMA StepKeepsLedger ==
    ASSUME LedgerInv, NonceNext
    PROVE  LedgerStep
<1>1. ASSUME Ledger!LedgerNext
      PROVE  LedgerStep
  BY <1>1 DEF LedgerStep
<1>2. ASSUME rows' = rows
      PROVE  Active' = Active /\ Final' = Final
  BY <1>2 DEF Active, Final, Claims
<1>3. ASSUME rows' = rows, sweep' = sweep
      PROVE  LedgerStep
  BY <1>2, <1>3, LedgerStutters
<1>4. ASSUME rows' = rows, sweep' = NoSweep
      PROVE  LedgerStep
  <2>1. Suspects' = {} /\ Final \subseteq Active
    <3>1. ASSUME NEW e \in Exec, NEW n, <<e, n>> \in Final
          PROVE  <<e, n>> \in Active
      BY <3>1, ClaimRows DEF Active, Final, HasRow, ActiveStates
    <3>2. QED
      BY <1>4, <3>1, ClaimRows DEF Suspects, NoSweep, Final
  <2>2. Ledger!Reclaim
    BY <1>2, <1>4, <2>1 DEF Ledger!Reclaim, Active, Final
  <2>3. QED
    BY <1>1, <2>2 DEF Ledger!LedgerNext
<1>5. ASSUME NEW e \in Exec, Reserve(e)
      PROVE  LedgerStep
  <2>1. ASSUME NEW n \in 0..MaxNonce, ReserveInserted(e, n)
        PROVE  LedgerStep
    <3>1. /\ n \in Nat /\ sweep' = sweep
          /\ ~Held(AccountOf[e], n) /\ ~HasClaim(e, ReserveLease)
      BY <2>1, ConstantsAssumption DEF ReserveInserted
    <3>2. CASE rows' = Insert(rows, e, n)
      <4>1. rows \in Table /\ "consumed" \in NonceState
        BY DEF LedgerInv, TypeOK, Table, NonceState, Resolutions
      <4>2. rows' = Insert(SetState(rows, {}, "consumed"), e, n)
        BY <3>2, <4>1, SetStateNothing
      <4>3. QED
        BY <1>1, <3>1, <4>2, InsertGrants
    <3>3. ASSUME NEW s \in TargetRelease(AccountOf[e]),
                 rows' = Insert(SetState(rows, {s}, "consumed"), e, n)
          PROVE  LedgerStep
      <4>1. \A t \in {s} : t \in Slots /\ At(t).state = "released"
        BY <3>3 DEF TargetRelease, Released
      <4>2. QED
        BY <1>1, <3>1, <3>3, <4>1, InsertGrants
    <3>4. QED
      BY <2>1, <3>2, <3>3 DEF ReserveInserted
  <2>2. ASSUME ReserveHeld(e)
        PROVE  LedgerStep
    <3>1. ASSUME NEW s \in TargetRelease(AccountOf[e]), rows' = SetState(rows, {s}, "consumed")
          PROVE  Active' = Active /\ Final' = Final
      <4>1. s \in Slots /\ At(s).state = "released"
        BY <3>1 DEF TargetRelease, Released
      <4>2. QED
        BY <3>1, <4>1, ConsumeStutters
    <3>2. Active' = Active /\ Final' = Final
      BY <1>2, <2>2, <3>1 DEF ReserveHeld
    <3>3. QED
      BY <2>2, <3>2, LedgerStutters DEF ReserveHeld
  <2>3. QED
    BY <1>3, <1>5, <2>1, <2>2
    DEF Reserve, ReserveReread, ReserveConflict, ReserveGone, nonceVars
<1>6. ASSUME NEW e \in Exec, Sync(e)
      PROVE  LedgerStep
  <2>1. ASSUME NEW n \in 0..MaxOnChain, SyncInserted(e, n)
        PROVE  LedgerStep
    <3>1. rows \in Table /\ "consumed" \in NonceState
      BY DEF LedgerInv, TypeOK, Table, NonceState, Resolutions
    <3>2. /\ n \in Nat /\ sweep' = sweep
          /\ ~Held(AccountOf[e], n) /\ ~HasClaim(e, SyncLease)
          /\ rows' = Insert(SetState(rows, {}, "consumed"), e, n)
      BY <2>1, <3>1, SetStateNothing, ConstantsAssumption DEF SyncInserted
    <3>3. QED
      BY <1>1, <3>2, InsertGrants
  <2>2. QED
    BY <1>3, <1>6, <2>1 DEF Sync, SyncConflict, SyncHeld, SyncReread, SyncRejected, nonceVars
<1>7. ASSUME NEW e \in Exec, Resolve(e) \/ RereadFailed(e)
      PROVE  LedgerStep
  BY <1>1, <1>3, <1>7, ResolveSettles
  DEF Resolve, ResolveMissed, ResolveAgreed, ResolveRefused, RereadFailed
<1>8. CASE Sweep
  <2>1. CASE SweepScan
    BY <1>1, <2>1, ScanSuspects DEF Ledger!LedgerNext
  <2>2. CASE SweepCommit
    BY <1>1, <2>2, CommitReclaims DEF Ledger!LedgerNext
  <2>3. CASE SweepLock
    <3>1. Suspects' = Suspects
      BY <2>3 DEF SweepLock, Suspects, At, LedgerInv, TypeOK
    <3>2. QED
      BY <1>2, <2>3, <3>1 DEF SweepLock, LedgerStep, Ledger!ledgerVars, Active, Final
  <2>4. CASE SweepFailed
    BY <1>4, <2>4 DEF SweepFailed
  <2>5. QED
    BY <1>8, <2>1, <2>2, <2>3, <2>4 DEF Sweep
<1>9. CASE Tick
  <2>1. rows \in Table /\ rows' = Aged(rows) /\ sweep' = sweep
    BY <1>9 DEF Tick, LedgerInv, TypeOK, Table
  <2>2. Active' = Active /\ Final' = Final
    BY <2>1, AgedLemma, ClaimsUnmoved
  <2>3. QED
    BY <2>1, <2>2, LedgerStutters
<1>10. CASE Restart
  BY <1>4, <1>10 DEF Restart
<1>11. QED
  BY <1>5, <1>6, <1>7, <1>8, <1>9, <1>10 DEF NonceNext

\* The nonce actor and the sweeper together keep a ledger of claims: a nonce goes to one
\* execution at a time, to none that has finalized one, and is taken away only where the
\* sweeper had found it overdue.
THEOREM LedgerKept == NonceSpec => KeepsLedger
<1>1. NonceInit => Ledger!LedgerInit
  BY DEF NonceInit, Ledger!LedgerInit, Claims, Suspects, NoSweep
<1>2. LedgerInv /\ [NonceNext]_nonceVars => [Ledger!LedgerNext]_(Ledger!ledgerVars)
  <2>1. ASSUME LedgerInv, NonceNext
        PROVE  [Ledger!LedgerNext]_(Ledger!ledgerVars)
    BY <2>1, StepKeepsLedger DEF LedgerStep
  <2>2. ASSUME UNCHANGED nonceVars
        PROVE  UNCHANGED Ledger!ledgerVars
    BY <2>2 DEF nonceVars, Ledger!ledgerVars, Claims, Suspects, At
  <2>3. QED
    BY <2>1, <2>2
<1>3. NonceSpec => []LedgerInv
  BY TypeCorrect, NoDoubleAssignment, LeasesExclusive, PTL DEF LedgerInv
<1>4. QED
  BY <1>1, <1>2, <1>3, PTL DEF NonceSpec, KeepsLedger, Ledger!LedgerSpec

=============================================================================
