-------------------------- MODULE NonceAssignments --------------------------
(***************************************************************************)
(* The table nonce.nonce_assignments and everything that writes to it: the *)
(* nonce actor (crate/actors/src/nonce/engine.rs) and the sweeper bot      *)
(* (lobby/src/bots/sweeper.rs).                                            *)
(*                                                                         *)
(* A step is one SQL statement.  A handler whose first statement touches   *)
(* no row runs a second, read-only one; `engine` remembers that the        *)
(* handler is between the two, when the sweeper can still intervene.  A    *)
(* statement that fails leaves the table alone; one whose acknowledgement  *)
(* is lost changes the table exactly as one that is acknowledged.  What    *)
(* the caller does with a reply is the business of module Pipeline, which  *)
(* conjoins its reaction to the actions below.                             *)
(*                                                                         *)
(* Time is the age of a `reserved` row since the trigger last touched its  *)
(* updated_at.  The age of any other row is never read and is kept at 0.   *)
(***************************************************************************)
EXTENDS Executions, Integers, Sequences, FiniteSets

CONSTANTS
    NonceActorOf,  (* the shard of the nonce pool that serves an account   *)
    ReserveLease,  (* age at which reserve ignores its own reservation     *)
    SweepLease,    (* age at which the sweeper reclaims a reservation      *)
    SyncLease,     (* age at which sync ignores a reservation              *)
    MaxAge,        (* bound: ages saturate here                            *)
    MaxRevision,   (* bound: revisions of one execution                    *)
    MaxNonce,      (* bound: nonces handed out                             *)
    MaxOnChain,    (* bound: nonces the chain reports to sync              *)
    SweepBatch     (* executions one sweep may touch (LIMIT)               *)

ASSUME ConstantsAssumption ==
    /\ {ReserveLease, SweepLease, SyncLease, SweepBatch} \subseteq Nat \ {0}
    /\ {MaxAge, MaxRevision, MaxNonce, MaxOnChain} \subseteq Nat
    /\ ReserveLease <= SweepLease
    /\ SweepLease <= SyncLease

VARIABLES
    rows,    (* rows[e][r] is revision r of execution e *)
    engine,  (* the handler statement e still waits for *)
    sweep    (* the sweeper's UPDATE in progress        *)

nonceVars == <<rows, engine, sweep>>

-----------------------------------------------------------------------------
(* The table. *)

Resolutions == {"finalized", "released", "consumed"}
NonceState == {"reserved"} \cup Resolutions
ActiveStates == {"reserved", "finalized"}

Assignment == [nonce : Nat, state : NonceState, age : 0..MaxAge]

Slots == {s \in Exec \X (1..MaxRevision) : s[2] <= Len(rows[s[1]])}
At(s) == rows[s[1]][s[2]]

\* An UPDATE of `state` on the rows in S, with the trigger on updated_at.
SetState(table, S, new) ==
    [e \in Exec |->
        [r \in 1..Len(table[e]) |->
            IF <<e, r>> \in S
            THEN [nonce |-> table[e][r].nonce, state |-> new, age |-> 0]
            ELSE table[e][r]]]

\* Mutants of Insert: max_nonce is stored without its + 1; the last revision is
\* overwritten instead of a new one being added.
InsertUnbumped(table, e, n) ==
    [table EXCEPT ![e] = Append(@, [nonce |-> n - 1, state |-> "reserved", age |-> 0])]

InsertInPlace(table, e, n) ==
    LET row == [nonce |-> n, state |-> "reserved", age |-> 0] IN
    [table EXCEPT ![e] = IF @ = <<>> THEN <<row>> ELSE [@ EXCEPT ![Len(@)] = row]]

\* An INSERT of the next revision of e.
Insert(table, e, n) ==
    [table EXCEPT ![e] = Append(@, [nonce |-> n, state |-> "reserved", age |-> 0])]

IsActive(e, r) == rows[e][r].state \in ActiveStates

\* Mutant of Held: the index covers reservations only.
HeldIgnoresFinalized(a, n) ==
    \E e \in Exec : /\ AccountOf[e] = a
                    /\ \E r \in 1..Len(rows[e]) :
                        rows[e][r].state = "reserved" /\ rows[e][r].nonce = n

\* An entry of the partial unique index on (chain_id, from_address, nonce).
Held(a, n) ==
    \E e \in Exec : /\ AccountOf[e] = a
                    /\ \E r \in 1..Len(rows[e]) : IsActive(e, r) /\ rows[e][r].nonce = n

\* Mutant of HasClaim: a reservation inside the lease does not count.
HasClaimIgnoresLease(e, lease) ==
    \E r \in 1..Len(rows[e]) : rows[e][r].state = "finalized"

\* The execution already has a finalized row or a reservation inside the lease.
HasClaim(e, lease) ==
    \E r \in 1..Len(rows[e]) :
        \/ rows[e][r].state = "finalized"
        \/ rows[e][r].state = "reserved" /\ rows[e][r].age < lease

IsLatestActive(e, r) ==
    /\ r \in 1..Len(rows[e])
    /\ IsActive(e, r)
    /\ \A q \in (r + 1)..Len(rows[e]) : ~IsActive(e, q)

HasActive(e) == \E r \in 1..Len(rows[e]) : IsActive(e, r)

-----------------------------------------------------------------------------
(* The engine.  The pool routes a call by the hash of the sender's address  *)
(* (ByAddress), so the executions of an account, and of every account that  *)
(* hashes to the same shard, wait for one another: the loop of a shard runs *)
(* one handler at a time.                                                   *)

SameEngine(e, f) == NonceActorOf[AccountOf[e]] = NonceActorOf[AccountOf[f]]

EngineFree(e) == \A f \in Exec : SameEngine(e, f) => engine[f] = "idle"

Await(e, op) == engine' = [engine EXCEPT ![e] = op]

Answer(e, op) ==
    /\ engine[e] = op
    /\ engine' = [engine EXCEPT ![e] = "idle"]

\* Rows whose lock the sweeper's statement holds; FOR UPDATE SKIP LOCKED passes
\* over them.
Locked == IF sweep.phase = "locked" THEN sweep.targets ELSE {}

-----------------------------------------------------------------------------
(* handle_reserve *)

Released(a) == {s \in Slots \ Locked : AccountOf[s[1]] = a /\ At(s).state = "released"}

\* target_release: ORDER BY nonce ASC, revision DESC LIMIT 1; rows that tie on both
\* are in no particular order.
TargetRelease(a) ==
    {s \in Released(a) : \A t \in Released(a) :
        \/ At(s).nonce < At(t).nonce
        \/ At(s).nonce = At(t).nonce /\ s[2] >= t[2]}

\* Mutant of IsNextSequential: max_nonce + 2.
IsNextSequentialSkips(a, n) ==
    /\ n = 0 \/ (n > 1 /\ Held(a, n - 2))
    /\ \A m \in (n - 1)..MaxNonce : ~Held(a, m)

\* max_nonce + 1, over the active rows only; 0 when there is none.
IsNextSequential(a, n) ==
    /\ n = 0 \/ Held(a, n - 1)
    /\ \A m \in n..MaxNonce : ~Held(a, m)

\* The statement inserts a reservation of n for e.  An entry of the unique index
\* that the sweeper is about to remove makes the INSERT wait for the sweeper.
ReserveInserted(e, n) ==
    LET a == AccountOf[e] IN
    /\ EngineFree(e)
    /\ ~HasClaim(e, ReserveLease)
    /\ Len(rows[e]) < MaxRevision
    /\ ~Held(a, n)
    /\ \/ /\ TargetRelease(a) = {}
          /\ IsNextSequential(a, n)
          /\ rows' = Insert(rows, e, n)
       \/ \E s \in TargetRelease(a) :
            /\ n = At(s).nonce
            /\ rows' = Insert(SetState(rows, {s}, "consumed"), e, n)
    /\ UNCHANGED <<engine, sweep>>

\* The released nonce it picks is active again in another row: the unique index
\* refuses the INSERT and the whole statement rolls back.
ReserveConflict(e) ==
    /\ EngineFree(e)
    /\ ~HasClaim(e, ReserveLease)
    /\ \E s \in TargetRelease(AccountOf[e]), t \in Slots \ Locked :
        /\ AccountOf[t[1]] = AccountOf[e]
        /\ At(t).state \in ActiveStates
        /\ At(t).nonce = At(s).nonce
    /\ UNCHANGED nonceVars

\* WHERE NOT EXISTS is false: nothing is inserted, but the data-modifying CTE
\* `consumed` has run all the same.
ReserveHeld(e) ==
    LET a == AccountOf[e] IN
    /\ EngineFree(e)
    /\ HasClaim(e, ReserveLease)
    /\ \/ TargetRelease(a) = {} /\ UNCHANGED rows
       \/ \E s \in TargetRelease(a) : rows' = SetState(rows, {s}, "consumed")
    /\ Await(e, "reserve")
    /\ UNCHANGED sweep

\* The second query finds the claim ...
ReserveReread(e, n) ==
    /\ Answer(e, "reserve")
    /\ \E r \in 1..Len(rows[e]) : IsLatestActive(e, r) /\ n = rows[e][r].nonce
    /\ UNCHANGED <<rows, sweep>>

\* ... or the sweeper has taken it since, and fetch_one fails.
ReserveGone(e) ==
    /\ Answer(e, "reserve")
    /\ ~HasActive(e)
    /\ UNCHANGED <<rows, sweep>>

-----------------------------------------------------------------------------
(* handle_sync *)

\* A reservation of n by any execution of the account inside the sync lease.
ReservedRecently(a, n) ==
    \E s \in Slots : /\ AccountOf[s[1]] = a
                     /\ At(s).nonce = n
                     /\ At(s).state = "reserved"
                     /\ At(s).age < SyncLease

SyncInserted(e, n) ==
    /\ EngineFree(e)
    /\ ~HasClaim(e, SyncLease)
    /\ ~ReservedRecently(AccountOf[e], n)
    /\ Len(rows[e]) < MaxRevision
    /\ ~Held(AccountOf[e], n)
    /\ rows' = Insert(rows, e, n)
    /\ UNCHANGED <<engine, sweep>>

\* n is finalized, or reserved for longer than the lease: the index refuses it.
SyncConflict(e, n) ==
    /\ EngineFree(e)
    /\ ~HasClaim(e, SyncLease)
    /\ ~ReservedRecently(AccountOf[e], n)
    /\ \E s \in Slots \ Locked : /\ AccountOf[s[1]] = AccountOf[e]
                                 /\ At(s).state \in ActiveStates
                                 /\ At(s).nonce = n
    /\ UNCHANGED nonceVars

SyncHeld(e, n) ==
    /\ EngineFree(e)
    /\ HasClaim(e, SyncLease) \/ ReservedRecently(AccountOf[e], n)
    /\ Await(e, "sync")
    /\ UNCHANGED <<rows, sweep>>

SyncReread(e, n) ==
    /\ Answer(e, "sync")
    /\ \E r \in 1..Len(rows[e]) : IsLatestActive(e, r) /\ n = rows[e][r].nonce
    /\ UNCHANGED <<rows, sweep>>

SyncRejected(e) ==
    /\ Answer(e, "sync")
    /\ ~HasActive(e)
    /\ UNCHANGED <<rows, sweep>>

-----------------------------------------------------------------------------
(* handle_resolve, for the three states it accepts *)

\* Mutant of IsResolvable: a finalized revision can be resolved again.
IsResolvableIfActive(e, r) ==
    /\ r \in 1..Len(rows[e])
    /\ IsActive(e, r)
    /\ <<e, r>> \notin Locked
    /\ \A q \in (r + 1)..Len(rows[e]) : IsActive(e, q) => <<e, q>> \in Locked

\* The row the UPDATE selects: the latest `reserved` revision it can lock.
IsResolvable(e, r) ==
    /\ r \in 1..Len(rows[e])
    /\ rows[e][r].state = "reserved"
    /\ <<e, r>> \notin Locked
    /\ \A q \in (r + 1)..Len(rows[e]) :
        rows[e][q].state = "reserved" => <<e, q>> \in Locked

ResolveUpdated(e, state) ==
    /\ EngineFree(e)
    /\ \E r \in 1..Len(rows[e]) : /\ IsResolvable(e, r)
                                  /\ rows' = SetState(rows, {<<e, r>>}, state)
    /\ UNCHANGED <<engine, sweep>>

ResolveMissed(e, state) ==
    /\ EngineFree(e)
    /\ ~ \E r \in 1..Len(rows[e]) : IsResolvable(e, r)
    /\ Await(e, state)
    /\ UNCHANGED <<rows, sweep>>

LatestIs(e, state) == Len(rows[e]) > 0 /\ rows[e][Len(rows[e])].state = state

\* The latest revision is already in the requested state ...
ResolveAgreed(e, state) ==
    /\ Answer(e, state)
    /\ LatestIs(e, state)
    /\ UNCHANGED <<rows, sweep>>

\* ... or in another one, or there is none: Internal or Invariant.
ResolveRefused(e, state) ==
    /\ Answer(e, state)
    /\ ~LatestIs(e, state)
    /\ UNCHANGED <<rows, sweep>>

\* The second query of any handler fails.
RereadFailed(e) ==
    /\ engine[e] # "idle"
    /\ Answer(e, engine[e])
    /\ UNCHANGED <<rows, sweep>>

-----------------------------------------------------------------------------
(* expire_states.  The sub-select reads the statement's snapshot and takes  *)
(* no lock; the UPDATE then locks the rows it names and, once a concurrent  *)
(* writer has committed, re-evaluates only (execution_id, revision) IN ...  *)

\* Mutants of IsStale: no lease; the first revision only.
IsStaleAtOnce(e, r) ==
    /\ r \in 1..Len(rows[e])
    /\ rows[e][r].state = "reserved"

IsStaleFirstRevision(e, r) ==
    /\ r = 1
    /\ r \in 1..Len(rows[e])
    /\ rows[e][r].state = "reserved"
    /\ rows[e][r].age >= SweepLease

IsStale(e, r) ==
    /\ r \in 1..Len(rows[e])
    /\ rows[e][r].state = "reserved"
    /\ rows[e][r].age >= SweepLease

\* DISTINCT ON (execution_id) ... ORDER BY revision DESC
StaleSlots ==
    {s \in Slots : /\ IsStale(s[1], s[2])
                   /\ \A q \in (s[2] + 1)..MaxRevision : ~IsStale(s[1], q)}

NoSweep == [phase |-> "idle", targets |-> {}]

SweepScan ==
    /\ sweep = NoSweep
    /\ \E S \in SUBSET StaleSlots :
        /\ S # {}
        /\ Cardinality(S) <= SweepBatch
        /\ S = StaleSlots \/ Cardinality(S) = SweepBatch
        /\ sweep' = [phase |-> "scanned", targets |-> S]
    /\ UNCHANGED <<rows, engine>>

SweepLock ==
    /\ sweep.phase = "scanned"
    /\ sweep' = [sweep EXCEPT !.phase = "locked"]
    /\ UNCHANGED <<rows, engine>>

SweepCommit ==
    /\ sweep.phase = "locked"
    /\ rows' = SetState(rows, sweep.targets, "released")
    /\ sweep' = NoSweep
    /\ UNCHANGED engine

\* The statement fails; the bot logs the error and tries again at its next tick.
SweepFailed ==
    /\ sweep # NoSweep
    /\ sweep' = NoSweep
    /\ UNCHANGED <<rows, engine>>

-----------------------------------------------------------------------------

Older(row) ==
    [nonce |-> row.nonce, state |-> row.state,
     age |-> IF row.state = "reserved" /\ row.age < MaxAge THEN row.age + 1 ELSE row.age]

Aged(table) == [e \in Exec |-> [r \in 1..Len(table[e]) |-> Older(table[e][r])]]

\* Time passes for every reservation at once.
Tick ==
    /\ rows' = Aged(rows)
    /\ UNCHANGED <<engine, sweep>>

\* The process stops: no handler or sweep survives, the table does.
Restart ==
    /\ engine' = [e \in Exec |-> "idle"]
    /\ sweep' = NoSweep
    /\ UNCHANGED rows

NonceInit ==
    /\ rows = [e \in Exec |-> <<>>]
    /\ engine = [e \in Exec |-> "idle"]
    /\ sweep = NoSweep

Reserve(e) ==
    \/ \E n \in 0..MaxNonce : ReserveInserted(e, n) \/ ReserveReread(e, n)
    \/ ReserveConflict(e) \/ ReserveHeld(e) \/ ReserveGone(e)

Sync(e) ==
    \/ \E n \in 0..MaxOnChain : SyncInserted(e, n) \/ SyncConflict(e, n) \/ SyncHeld(e, n)
    \/ \E n \in 0..MaxNonce : SyncReread(e, n)
    \/ SyncRejected(e)

Resolve(e) ==
    \E state \in Resolutions :
        \/ ResolveUpdated(e, state) \/ ResolveMissed(e, state)
        \/ ResolveAgreed(e, state) \/ ResolveRefused(e, state)

Sweep == SweepScan \/ SweepLock \/ SweepCommit \/ SweepFailed

NonceNext ==
    \/ Tick
    \/ Restart
    \/ Sweep
    \/ \E e \in Exec : Reserve(e) \/ Sync(e) \/ Resolve(e) \/ RereadFailed(e)

NonceSpec == NonceInit /\ [][NonceNext]_nonceVars

-----------------------------------------------------------------------------
(* Properties *)

\* Every variable has its type: a table of revisions, a handler phase per execution
\* and a sweep that names existing rows.
TypeOK ==
    /\ rows \in [Exec -> Seq(Assignment)]
    /\ \A e \in Exec : Len(rows[e]) <= MaxRevision
    /\ engine \in [Exec -> {"idle", "reserve", "sync"} \cup Resolutions]
    /\ sweep \in [phase : {"idle", "scanned", "locked"}, targets : SUBSET (Exec \X (1..MaxRevision))]

\* No nonce of an account is active in two rows: handle_reserve, handle_sync,
\* handle_resolve and the sweeper together never let two executions hold it.
UniqueActive ==
    \A e, f \in Exec : \A r \in 1..Len(rows[e]), q \in 1..Len(rows[f]) :
        /\ AccountOf[e] = AccountOf[f]
        /\ rows[e][r].nonce = rows[f][q].nonce
        /\ IsActive(e, r)
        /\ IsActive(f, q)
        => e = f /\ r = q

IsFresh(e, r) == rows[e][r].state = "reserved" /\ rows[e][r].age < ReserveLease

\* A reservation inside its lease is the last revision of its execution, and no
\* finalized row stands beside it: the NOT EXISTS clauses of reserve and sync and
\* the choice of row in resolve leave one claim per execution.
FreshIsOnlyClaim ==
    \A e \in Exec : \A r, q \in 1..Len(rows[e]) :
        IsFresh(e, r) /\ q # r => q < r /\ rows[e][q].state # "finalized" /\ ~IsFresh(e, q)

\* From its scan to its commit the sweeper's statement names existing revisions, and
\* no reservation younger than the sweep lease.
SweepTargetsStale ==
    \A e \in Exec, r \in 1..MaxRevision :
        <<e, r>> \in sweep.targets =>
            /\ r <= Len(rows[e])
            /\ rows[e][r].state = "reserved" => rows[e][r].age >= SweepLease

\* Every nonce below an assigned one was itself assigned at some time, unless the
\* chain reported it as used: the sequential choice of handle_reserve opens no gap.
NoHoles ==
    \A s \in Slots : \A m \in 0..(At(s).nonce - 1) :
        \/ m < MaxOnChain
        \/ \E t \in Slots : AccountOf[t[1]] = AccountOf[s[1]] /\ At(t).nonce = m

\* The audit trail: no statement deletes a revision, changes its nonce or puts a
\* resolved revision back to `reserved`.
RevisionsKept ==
    \A e \in Exec :
        /\ Len(rows[e]) <= Len(rows'[e])
        /\ \A r \in 1..Len(rows[e]) :
            /\ rows'[e][r].nonce = rows[e][r].nonce
            /\ rows'[e][r].state = "reserved" => rows[e][r].state = "reserved"

AuditTrail == [][RevisionsKept]_nonceVars

-----------------------------------------------------------------------------
(* What the callers of the nonce actor rely on.  A row that is reserved or   *)
(* finalized is a claim of its execution on its nonce.                       *)

Claims(states) ==
    UNION {{<<e, rows[e][r].nonce>> : r \in {q \in 1..Len(rows[e]) : rows[e][q].state \in states}} :
            e \in Exec}

Suspects == {<<s[1], At(s).nonce>> : s \in sweep.targets}

Ledger == INSTANCE NonceLedger WITH
            held <- Claims(ActiveStates),
            settled <- Claims({"finalized"}),
            suspect <- Suspects

\* The statements of the nonce actor and the sweeper, which see the table at different
\* times, together keep a ledger of claims: a nonce is granted to one execution at a
\* time, to none that has finalized one, and is lost only where the sweeper had found
\* it overdue.
KeepsLedger == Ledger!LedgerSpec

=============================================================================
