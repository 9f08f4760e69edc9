---------------------------- MODULE RelayProofs -----------------------------
(***************************************************************************)
(* The relay as its clients see it, step by step: as long as no answer of  *)
(* an endpoint is lost, every step of the pipelines, the tables, the chain *)
(* and a restart is a step of module Relay.                                *)
(***************************************************************************)
EXTENDS DeliveryProofs

USE DEF nonceVars

-----------------------------------------------------------------------------
(* Steps of module Relay, from what becomes of one or two executions. *)

RelayStep == [Client!RelayNext]_(Client!relayVars)

FateBar == [e \in Exec |-> Fate(e)]
ToldBar == [e \in Exec |-> Told(e)]

Same(e) == Fate(e)' = Fate(e) /\ Told(e)' = Told(e)

\* What may become of one execution.
OneStep(e) ==
    \/ Same(e)
    \/ /\ Told(e) = "none" /\ Fate(e)' = Fate(e)
       /\ \/ Told(e)' = "refused" /\ Fate(e) = "unsent"
          \/ Told(e)' = "confirmed" /\ Fate(e) = "mined"
          \/ Told(e)' = "timed_out" /\ Fate(e) # "unsent"
          \/ Told(e)' = "failed"
    \/ /\ Fate(e) = "unsent" /\ Told(e) = "none"
       /\ Fate(e)' \in {"pending", "lost"} /\ Told(e)' \in {"none", "failed"}
    \/ /\ Fate(e) = "pending" /\ Told(e)' = Told(e)
       /\ Fate(e)' \in {"mined", "reverted", "lost"}

\* The two functions of the refinement mapping, before and after a step.
LEMMA Bars ==
    /\ FateBar \in [Exec -> {FateBar[e] : e \in Exec}] /\ \A e \in Exec : FateBar[e] = Fate(e)
    /\ ToldBar \in [Exec -> {ToldBar[e] : e \in Exec}] /\ \A e \in Exec : ToldBar[e] = Told(e)
    /\ FateBar' \in [Exec -> {FateBar'[e] : e \in Exec}] /\ \A e \in Exec : FateBar'[e] = Fate(e)'
    /\ ToldBar' \in [Exec -> {ToldBar'[e] : e \in Exec}] /\ \A e \in Exec : ToldBar'[e] = Told(e)'
BY DEF FateBar, ToldBar

\* Two functions with the same values are the same.
LEMMA SameFunction ==
    ASSUME NEW S, NEW T, NEW f \in [Exec -> S], NEW g \in [Exec -> T], \A e \in Exec : f[e] = g[e]
    PROVE  f = g
OBVIOUS

\* The actions of module Relay under that mapping.
LEMMA RelayActions ==
    ASSUME NEW e \in Exec
    PROVE  /\ (/\ FateBar[e] = "unsent" /\ ToldBar[e] = "none"
               /\ FateBar' = [FateBar EXCEPT ![e] = "pending"]
               /\ ToldBar' = ToldBar \/ ToldBar' = [ToldBar EXCEPT ![e] = "failed"]) => RelayStep
           /\ \A f \in Exec :
                (/\ FateBar[e] = "unsent" /\ ToldBar[e] = "none" /\ FateBar[f] = "pending"
                 /\ FateBar' = [FateBar EXCEPT ![e] = "pending", ![f] = "lost"]
                 /\ ToldBar' = ToldBar \/ ToldBar' = [ToldBar EXCEPT ![e] = "failed"]) => RelayStep
           /\ (/\ FateBar[e] = "unsent" /\ ToldBar[e] = "none"
               /\ FateBar' = [FateBar EXCEPT ![e] = "lost"]
               /\ ToldBar' = ToldBar \/ ToldBar' = [ToldBar EXCEPT ![e] = "failed"]) => RelayStep
           /\ (/\ FateBar[e] = "pending" /\ ToldBar' = ToldBar
               /\ \E new \in {"mined", "reverted", "lost"} :
                    FateBar' = [FateBar EXCEPT ![e] = new]) => RelayStep
           /\ \A new : (/\ ToldBar[e] = "none" /\ FateBar' = FateBar
                        /\ ToldBar' = [ToldBar EXCEPT ![e] = new]
                        /\ \/ new = "refused" /\ FateBar[e] = "unsent"
                           \/ new = "confirmed" /\ FateBar[e] = "mined"
                           \/ new = "timed_out" /\ FateBar[e] # "unsent"
                           \/ new = "failed") => RelayStep
           /\ (FateBar' = FateBar /\ ToldBar' = ToldBar) => RelayStep
BY DEF RelayStep, FateBar, ToldBar, Client!RelayNext, Client!relayVars, Client!Send, Client!Include,
       Client!Lose, Client!Refuse, Client!Confirm, Client!TimeOut, Client!Fail, Client!Becomes,
       Client!Tell, Client!MayFail

\* A step that concerns one execution.
LEMMA LiftOne ==
    ASSUME NEW e \in Exec, OneStep(e), \A f \in Exec : f # e => Same(f)
    PROVE  RelayStep
<1>0. \A f \in Exec : f # e => FateBar'[f] = FateBar[f] /\ ToldBar'[f] = ToldBar[f]
  BY Bars DEF Same
<1>1. FateBar' = [FateBar EXCEPT ![e] = FateBar'[e]] /\ ToldBar' = [ToldBar EXCEPT ![e] = ToldBar'[e]]
  BY <1>0, Bars
<1>2. /\ FateBar'[e] = FateBar[e] => FateBar' = FateBar
      /\ ToldBar'[e] = ToldBar[e] => ToldBar' = ToldBar
  <2>1. ASSUME FateBar'[e] = FateBar[e] PROVE FateBar' = FateBar
    <3>1. \A f \in Exec : FateBar'[f] = FateBar[f]
      BY <1>0, <2>1
    <3>2. QED
      BY <3>1, Bars, SameFunction
  <2>2. ASSUME ToldBar'[e] = ToldBar[e] PROVE ToldBar' = ToldBar
    <3>1. \A f \in Exec : ToldBar'[f] = ToldBar[f]
      BY <1>0, <2>2
    <3>2. QED
      BY <3>1, Bars, SameFunction
  <2>3. QED
    BY <2>1, <2>2
<1>3. \/ FateBar'[e] = FateBar[e] /\ ToldBar'[e] = ToldBar[e]
      \/ /\ ToldBar[e] = "none" /\ FateBar'[e] = FateBar[e]
         /\ \/ ToldBar'[e] = "refused" /\ FateBar[e] = "unsent"
            \/ ToldBar'[e] = "confirmed" /\ FateBar[e] = "mined"
            \/ ToldBar'[e] = "timed_out" /\ FateBar[e] # "unsent"
            \/ ToldBar'[e] = "failed"
      \/ /\ FateBar[e] = "unsent" /\ ToldBar[e] = "none"
         /\ FateBar'[e] \in {"pending", "lost"} /\ ToldBar'[e] \in {"none", "failed"}
      \/ /\ FateBar[e] = "pending" /\ ToldBar'[e] = ToldBar[e]
         /\ FateBar'[e] \in {"mined", "reverted", "lost"}
  BY Bars DEF OneStep, Same
<1>4. QED
  BY <1>1, <1>2, <1>3, RelayActions

\* A step that no client sees.
LEMMA LiftNone ==
    ASSUME \A e \in Exec : Same(e)
    PROVE  RelayStep
<1>1. FateBar' = FateBar /\ ToldBar' = ToldBar
  <2>1. \A e \in Exec : FateBar'[e] = FateBar[e] /\ ToldBar'[e] = ToldBar[e]
    BY Bars DEF Same
  <2>2. QED
    BY <2>1, Bars, SameFunction
<1>2. QED
  BY <1>1 DEF RelayStep, FateBar, ToldBar, Client!relayVars

\* A payload takes the place of another one.
LEMMA LiftTwo ==
    ASSUME NEW e \in Exec, NEW f \in Exec, f # e,
           Fate(e) = "unsent", Told(e) = "none",
           Fate(e)' = "pending", Told(e)' \in {"none", "failed"},
           Fate(f) = "pending", Fate(f)' = "lost", Told(f)' = Told(f),
           \A g \in Exec : g # e /\ g # f => Same(g)
    PROVE  RelayStep
<1>1. FateBar' = [FateBar EXCEPT ![e] = "pending", ![f] = "lost"]
  BY Bars DEF Same
<1>2. ToldBar' = [ToldBar EXCEPT ![e] = ToldBar'[e]] /\ (ToldBar'[e] = ToldBar[e] => ToldBar' = ToldBar)
  <2>1. \A g \in Exec : g # e => ToldBar'[g] = ToldBar[g]
    BY Bars DEF Same
  <2>2. ToldBar' = [ToldBar EXCEPT ![e] = ToldBar'[e]]
    BY <2>1, Bars
  <2>3. ASSUME ToldBar'[e] = ToldBar[e] PROVE ToldBar' = ToldBar
    <3>1. \A g \in Exec : ToldBar'[g] = ToldBar[g]
      BY <2>1, <2>3
    <3>2. QED
      BY <3>1, Bars, SameFunction
  <2>4. QED
    BY <2>2, <2>3
<1>3. ToldBar'[e] \in {"none", "failed"} /\ FateBar[e] = "unsent" /\ ToldBar[e] = "none"
      /\ FateBar[f] = "pending"
  BY Bars
<1>4. QED
  BY <1>1, <1>2, <1>3, RelayActions

\* A restart.
LEMMA LiftRestart ==
    ASSUME \A e \in Exec :
            /\ Told(e)' = Told(e) \/ Told(e)' = "unknown"
            /\ \/ Fate(e)' = Fate(e)
               \/ Fate(e) = "unsent" /\ Fate(e)' = "lost" /\ Told(e)' = "unknown"
    PROVE  RelayStep
<1> DEFINE forgotten == {e \in Exec : ToldBar'[e] = "unknown"}
           abandoned == {e \in Exec : FateBar'[e] # FateBar[e]}
<1>1. \A e \in Exec :
        /\ ToldBar'[e] = ToldBar[e] \/ ToldBar'[e] = "unknown"
        /\ \/ FateBar'[e] = FateBar[e]
           \/ FateBar[e] = "unsent" /\ FateBar'[e] = "lost" /\ ToldBar'[e] = "unknown"
  BY Bars
<1>2. ToldBar' = [e \in Exec |-> IF e \in forgotten THEN "unknown" ELSE ToldBar[e]]
  BY <1>1, Bars
<1>3. FateBar' = [e \in Exec |-> IF e \in abandoned THEN "lost" ELSE FateBar[e]]
  BY <1>1, Bars
<1>4. abandoned \subseteq {e \in forgotten : FateBar[e] = "unsent"}
  BY <1>1
<1>5. forgotten \in SUBSET Exec /\ abandoned \in SUBSET Exec
  OBVIOUS
<1> HIDE DEF forgotten, abandoned
<1>6. Client!Restart
  BY <1>2, <1>3, <1>4, <1>5 DEF Client!Restart, FateBar, ToldBar
<1>7. QED
  BY <1>6 DEF RelayStep, Client!RelayNext

-----------------------------------------------------------------------------
(* The invariant *)

\* The pool has one transaction for each nonce of an account: a second one takes the
\* place of the first.
PoolInv == \A a \in Account : \A t, u \in pool[a] : t[2] = u[2] => t = u

\* A pipeline that validates has an open row in the broadcast table, and one that has not
\* begun has none.
OpenInv ==
    \A e \in Exec :
        /\ pc[e] \in {"validate", "poll", "expire"} => SendOpen(e)
        /\ pc[e] = "idle" => ~SendOpen(e)

\* Every step keeps at most one pending transaction of an account and nonce.
LEMMA PoolKept ==
    ASSUME TaskOK, TablesOK, ChainOK, PoolInv, [Next]_vars
    PROVE  PoolInv'
<1>1. ASSUME \A a \in Account : pool'[a] \subseteq pool[a] PROVE PoolInv'
  BY <1>1 DEF PoolInv
<1>2. ASSUME NEW e \in Exec, Run(e) PROVE PoolInv'
  <2>1. CASE BroadcastSent(e)
    <3>1. Admit(e, ctx[e].nonce) /\ ctx[e].nonce \in 0..MaxNonce
      BY <2>1 DEF BroadcastSent, TaskOK, Locals
    <3>2. PICK n \in 0..MaxNonce : n = ctx[e].nonce
      BY <3>1
    <3>3. /\ \A b \in Account : b # AccountOf[e] => pool'[b] = pool[b]
          /\ pool'[AccountOf[e]] = {t \in pool[AccountOf[e]] : t[2] = n => t[1] = e} \cup {<<e, n>>}
      BY <3>1, <3>2, AdmitLemma
    <3>4. \A a \in Account : pool[a] \subseteq Exec \X (0..MaxNonce)
      BY DEF ChainOK
    <3>5. ASSUME NEW a \in Account, NEW t \in pool'[a], NEW u \in pool'[a], t[2] = u[2] PROVE t = u
      <4>1. CASE a # AccountOf[e]
        BY <3>3, <3>5, <4>1 DEF PoolInv
      <4>2. CASE a = AccountOf[e]
        <5>1. ASSUME NEW v \in pool'[a] PROVE (v \in pool[a] /\ v[2] # n) \/ v = <<e, n>>
          <6>1. CASE v \in pool[a] /\ v[2] = n
            <7>1. v[1] = e \/ v = <<e, n>>
              BY <3>3, <4>2, <5>1, <6>1
            <7>2. v = <<v[1], v[2]>>
              BY <3>4, <6>1
            <7>3. QED
              BY <6>1, <7>1, <7>2
          <6>2. QED
            BY <3>3, <4>2, <5>1, <6>1
        <5>2. <<e, n>>[2] = n
          OBVIOUS
        <5>3. QED
          BY <3>5, <5>1, <5>2 DEF PoolInv
      <4>3. QED
        BY <4>1, <4>2
    <3>6. QED
      BY <3>5 DEF PoolInv
  <2>2. CASE pool' = pool
    BY <2>2 DEF PoolInv
  <2>3. QED
    BY <1>2, <2>1, <2>2, SendsElsewhere
<1>3. ASSUME NEW a \in Account, ChainStep(a) PROVE PoolInv'
  BY <1>1, <1>3, ChainStepKept
<1>4. ASSUME ~\E e \in Exec : Run(e), ~\E a \in Account : ChainStep(a) PROVE pool' = pool
  BY <1>4 DEF Next, vars, chainVars, Submit, Reject, Refuse, SweeperBot, TimePasses, Crash, Quiet
<1>5. QED
  BY <1>2, <1>3, <1>4 DEF PoolInv

\* The broadcast stage goes on to the validator only with a row that is `submitted`.
LEMMA ValidateIsOpen ==
    ASSUME TaskOK, TablesOK, NEW e \in Exec, Run(e), pc[e] = "broadcast", pc'[e] = "validate"
    PROVE  sends'[e] = "submitted"
<1>1. CASE BroadcastNotInserted(e)
  <2>1. CASE BroadcastDbError(e)
    BY <2>1, RetriedOrFailed DEF BroadcastDbError, Again, Fails
  <2>2. QED
    BY <1>1, <2>1 DEF BroadcastNotInserted
<1>2. CASE BroadcastSent(e)
  <2>1. CASE BroadcastDbError(e)
    BY <2>1, RetriedOrFailed DEF BroadcastDbError, Again, Fails
  <2>2. CASE BroadcastRejected(e)
    BY <2>2, RetriedOrReleased DEF BroadcastRejected, Again, Releases
  <2>3. CASE SetSend(e, "submitted")
    BY <2>3 DEF SetSend, Update, TablesOK
  <2>4. QED
    BY <1>2, <2>1, <2>2, <2>3 DEF BroadcastSent
<1>3. CASE BroadcastRefused(e)
  <2>1. CASE BroadcastDbError(e)
    BY <2>1, RetriedOrFailed DEF BroadcastDbError, Again, Fails
  <2>2. CASE BroadcastRejected(e)
    BY <2>2, RetriedOrReleased DEF BroadcastRejected, Again, Releases
  <2>3. QED
    BY <1>3, <2>1, <2>2 DEF BroadcastRefused
<1>4. CASE BroadcastMismatch(e)
  BY <1>4 DEF BroadcastMismatch, TaskOK
<1>5. QED
  BY <1>1, <1>2, <1>3, <1>4, StageOf DEF Broadcast, FetchNonce

\* Every step keeps a broadcast row for a task that validates, and none for one not yet started.
LEMMA OpenKept ==
    ASSUME TaskOK, TablesOK, OpenInv, [Next]_vars
    PROVE  OpenInv'
<1> SUFFICES ASSUME NEW e \in Exec
             PROVE  /\ pc'[e] \in {"validate", "poll", "expire"} => SendOpen(e)'
                    /\ pc'[e] = "idle" => ~SendOpen(e)'
  BY DEF OpenInv
<1>0. /\ pc[e] \in {"validate", "poll", "expire"} => SendOpen(e)
      /\ pc[e] = "idle" => ~SendOpen(e)
  BY DEF OpenInv
<1>1. CASE Run(e)
  <2>1. pc[e] \in Stages /\ RunTable(e)
    BY <1>1, RunMoves
  <2>2. /\ pc'[e] # "idle"
        /\ pc'[e] = "validate" => pc[e] \in {"broadcast", "validate"}
        /\ pc'[e] = "poll" => pc[e] \in {"validate", "poll"}
        /\ pc'[e] = "expire" => pc[e] \in {"poll", "expire"}
    BY <2>1 DEF RunTable, Stages, taskVars, Moves, Again, Fails, Releases, Grants, Asks, Recovers,
                AfterResolved
  <2>3. pc[e] \notin {"broadcast", "fetch_nonce"} => sends' = sends
    BY <1>1, SendsElsewhere
  <2>4. CASE pc[e] = "broadcast" /\ pc'[e] = "validate"
    BY <1>1, <2>4, ValidateIsOpen DEF SendOpen
  <2>5. CASE ~(pc[e] = "broadcast" /\ pc'[e] = "validate")
    BY <1>0, <2>2, <2>3, <2>5 DEF SendOpen
  <2>6. QED
    BY <2>4, <2>5
<1>2. CASE ~Run(e)
  <2>1. sends'[e] = sends[e]
    BY <1>2, SendsKept
  <2>2. pc'[e] = pc[e] \/ pc'[e] \in {"relay_host", "refused", "lost"}
    <3>1. CASE \E f \in Exec : Run(f)
      BY <1>2, <3>1, RunMoves DEF Elsewhere
    <3>2. CASE ~\E f \in Exec : Run(f)
      BY <3>2, OtherMoves DEF Moves
    <3>3. QED
      BY <3>1, <3>2
  <2>3. QED
    BY <1>0, <2>1, <2>2 DEF SendOpen
<1>3. QED
  BY <1>1, <1>2

-----------------------------------------------------------------------------
(* What the refinement mapping says of an execution. *)

Pending(e) == \E t \in pool[AccountOf[e]] : t[1] = e

\* The row of the broadcast table that keeps the payload from being sent again.
Barred(e) == SendOpen(e) /\ pc[e] # "fetch_nonce"

RelayInv ==
    /\ TaskOK /\ TablesOK /\ FaultsOK /\ ChainOK
    /\ ConfirmInv /\ SendInv /\ PoolInv /\ OpenInv

\* A payload with a pending transaction has no other one, pending or mined, and its row is open.
LEMMA PendingFate ==
    ASSUME RelayInv, AnswersKept, NEW e \in Exec, Pending(e)
    PROVE  /\ ~Included(e, TRUE) /\ ~Included(e, FALSE) /\ Fate(e) = "pending"
           /\ Barred(e)
           /\ \A t, u \in pool[AccountOf[e]] : t[1] = e /\ u[1] = e => t = u
<1> DEFINE a == AccountOf[e]
<1>a. a \in Account /\ ChainOK
  BY AccountsAssumption DEF RelayInv
<1>0. /\ \A t \in pool[a] : t \in Exec \X (0..MaxNonce) /\ t[2] >= Len(mined[a]) /\ t[2] \in Nat
      /\ Len(mined[a]) \in Nat
  <2>1. pool[a] \subseteq Exec \X (0..MaxNonce) /\ mined[a] \in Blocks
    BY <1>a DEF ChainOK
  <2>2. Len(mined[a]) \in Nat
    BY <2>1 DEF Blocks
  <2>3. \A t \in pool[a] : t[2] >= Len(mined[a])
    BY <1>a DEF ChainOK
  <2>4. \A t \in pool[a] : t \in Exec \X (0..MaxNonce) /\ t[2] \in Nat
    BY <2>1
  <2>5. QED
    BY <2>2, <2>3, <2>4
<1>1. PICK t \in pool[a] : t[1] = e
  BY DEF Pending
<1>2. \A u \in pool[a] : u[1] = e => u[2] + 1 \in Txs(e)
  BY DEF Txs
<1>3. SentPlace(e) /\ \A x, y \in Txs(e) : x = y
  BY <1>1, <1>2 DEF RelayInv, SendInv, AnswersKept
<1>4. MinedOf(e) = {}
  <2>1. SUFFICES ASSUME NEW n \in MinedOf(e) PROVE FALSE
    OBVIOUS
  <2>2. n \in 1..Len(mined[a]) /\ n \in Txs(e)
    BY DEF MinedOf, Txs
  <2>3. n = t[2] + 1
    BY <1>1, <1>2, <1>3, <2>2
  <2>4. QED
    BY <1>0, <1>1, <2>2, <2>3
<1>5. ~Included(e, TRUE) /\ ~Included(e, FALSE)
  BY <1>4 DEF Included
<1>6. Fate(e) = "pending"
  BY <1>1, <1>5 DEF Fate
<1>7. Barred(e)
  BY <1>3 DEF Barred, SentPlace, AfterSend
<1>8. ASSUME NEW v \in pool[a], NEW u \in pool[a], v[1] = e, u[1] = e PROVE v = u
  <2>1. v[2] + 1 = u[2] + 1
    BY <1>2, <1>3, <1>8
  <2>2. v[2] = u[2]
    BY <1>0, <2>1
  <2>3. QED
    BY <1>a, <2>2 DEF RelayInv, PoolInv
<1>9. QED
  BY <1>5, <1>6, <1>7, <1>8

\* A payload that has not been sent, or of which nothing is left.
LEMMA NoFate ==
    ASSUME NEW e \in Exec, Txs(e) = {}
    PROVE  /\ ~Included(e, TRUE) /\ ~Included(e, FALSE) /\ ~Pending(e)
           /\ Barred(e) => Fate(e) = "lost"
           /\ ~Barred(e) => Fate(e) = "unsent"
<1>1. MinedOf(e) = {} /\ \A t \in pool[AccountOf[e]] : t[1] # e
  BY DEF Txs
<1>2. ~Included(e, TRUE) /\ ~Included(e, FALSE) /\ ~Pending(e)
  BY <1>1 DEF Included, Pending
<1>3. QED
  BY <1>2 DEF Fate, Pending, Barred

\* What the fate of a payload depends on.
LEMMA SameFate ==
    ASSUME NEW e \in Exec,
           Included(e, TRUE)' <=> Included(e, TRUE), Included(e, FALSE)' <=> Included(e, FALSE),
           Pending(e)' <=> Pending(e), Barred(e)' <=> Barred(e)
    PROVE  Fate(e)' = Fate(e)
<1>1. /\ Included(e, TRUE) => Fate(e) = "mined"
      /\ ~Included(e, TRUE) /\ Included(e, FALSE) => Fate(e) = "reverted"
      /\ ~Included(e, TRUE) /\ ~Included(e, FALSE) /\ Pending(e) => Fate(e) = "pending"
      /\ ~Included(e, TRUE) /\ ~Included(e, FALSE) /\ ~Pending(e) /\ Barred(e) => Fate(e) = "lost"
      /\ ~Included(e, TRUE) /\ ~Included(e, FALSE) /\ ~Pending(e) /\ ~Barred(e) => Fate(e) = "unsent"
  BY DEF Fate, Pending, Barred
<1>2. /\ Included(e, TRUE)' => Fate(e)' = "mined"
      /\ ~Included(e, TRUE)' /\ Included(e, FALSE)' => Fate(e)' = "reverted"
      /\ ~Included(e, TRUE)' /\ ~Included(e, FALSE)' /\ Pending(e)' => Fate(e)' = "pending"
      /\ ~Included(e, TRUE)' /\ ~Included(e, FALSE)' /\ ~Pending(e)' /\ Barred(e)' => Fate(e)' = "lost"
      /\ ~Included(e, TRUE)' /\ ~Included(e, FALSE)' /\ ~Pending(e)' /\ ~Barred(e)' => Fate(e)' = "unsent"
  BY DEF Fate, Pending, Barred
<1>3. CASE Included(e, TRUE)
  BY <1>1, <1>2, <1>3
<1>4. CASE ~Included(e, TRUE) /\ Included(e, FALSE)
  BY <1>1, <1>2, <1>4
<1>5. CASE ~Included(e, TRUE) /\ ~Included(e, FALSE) /\ Pending(e)
  BY <1>1, <1>2, <1>5
<1>6. CASE ~Included(e, TRUE) /\ ~Included(e, FALSE) /\ ~Pending(e) /\ Barred(e)
  BY <1>1, <1>2, <1>6
<1>7. CASE ~Included(e, TRUE) /\ ~Included(e, FALSE) /\ ~Pending(e) /\ ~Barred(e)
  BY <1>1, <1>2, <1>7
<1>8. QED
  BY <1>3, <1>4, <1>5, <1>6, <1>7

\* Where the chain does not move.
LEMMA SameChain ==
    ASSUME NEW e \in Exec, mined' = mined
    PROVE  /\ Included(e, TRUE)' <=> Included(e, TRUE)
           /\ Included(e, FALSE)' <=> Included(e, FALSE)
BY DEF Included, MinedOf

-----------------------------------------------------------------------------
(* The steps of the chain *)

\* A block: it includes the payload that it is of, and no other.
LEMMA IncludedUsed ==
    ASSUME ChainOK, NEW a \in Account, NEW by \in Exec \cup {Other}, NEW ok \in BOOLEAN,
           Used(a, by, ok), NEW f \in Exec
    PROVE  /\ by # f => /\ Included(f, TRUE)' <=> Included(f, TRUE)
                        /\ Included(f, FALSE)' <=> Included(f, FALSE)
           /\ AccountOf[f] = a /\ by = f => /\ Included(f, TRUE)' <=> Included(f, TRUE) \/ ok = TRUE
                                            /\ Included(f, FALSE)' <=> Included(f, FALSE) \/ ok = FALSE
<1> SUFFICES ASSUME NEW k \in BOOLEAN
             PROVE  Included(f, k)' <=> Included(f, k) \/ (AccountOf[f] = a /\ by = f /\ ok = k)
  OBVIOUS
<1>0. Len(mined[a]) \in Nat
  BY DEF ChainOK, Blocks
<1>1. CASE AccountOf[f] # a
  <2>1. mined'[AccountOf[f]] = mined[AccountOf[f]]
    BY <1>1, AccountsAssumption DEF Used
  <2>2. QED
    BY <1>1, <2>1 DEF Included, MinedOf
<1>2. CASE AccountOf[f] = a
  <2> DEFINE old == mined[a]
             new == mined'[a]
             N == Len(old)
  <2>1. /\ Len(new) = N + 1 /\ \A n \in 1..N : new[n] = old[n]
        /\ new[N + 1] = [exec |-> by, ok |-> ok]
    BY DEF Used
  <2>2. /\ Included(f, k) <=> \E n \in 1..N : old[n].exec = f /\ old[n].ok = k
        /\ Included(f, k)' <=> \E n \in 1..Len(new) : new[n].exec = f /\ new[n].ok = k
    BY <1>2 DEF Included, MinedOf
  <2>3. new[N + 1].exec = by /\ new[N + 1].ok = ok
    BY <2>1
  <2> HIDE DEF old, new
  <2>4. N \in Nat
    BY <1>0 DEF old
  <2> HIDE DEF N
  <2>5. \A n : n \in 1..Len(new) <=> n \in 1..N \/ n = N + 1
    BY <2>1, <2>4
  <2>6. QED
    BY <1>2, <2>1, <2>2, <2>3, <2>5
<1>3. QED
  BY <1>1, <1>2

\* At most one transaction leaves the pool in a step of the chain.
LEMMA PoolLoses ==
    ASSUME RelayInv, NEW a \in Account, NEW t \in pool[a],
           pool'[a] = pool[a] \ {t}, \A b \in Account : b # a => pool'[b] = pool[b]
    PROVE  \A f \in Exec : f # t[1] => (Pending(f)' <=> Pending(f))
<1>1. ASSUME NEW f \in Exec, f # t[1] PROVE Pending(f)' <=> Pending(f)
  <2>1. AccountOf[f] \in Account
    BY AccountsAssumption
  <2>2. CASE AccountOf[f] = a
    BY <1>1, <2>2 DEF Pending
  <2>3. CASE AccountOf[f] # a
    BY <2>1, <2>3 DEF Pending
  <2>4. QED
    BY <2>2, <2>3
<1>2. QED
  BY <1>1

\* A step of the chain is a step of the abstract relay.
LEMMA ChainRelays ==
    ASSUME RelayInv, AnswersKept, NEW a \in Account, ChainStep(a)
    PROVE  RelayStep
<1>i. ChainOK /\ PoolInv /\ Len(mined[a]) \in Nat
  <2>1. ChainOK /\ PoolInv
    BY DEF RelayInv
  <2>2. mined[a] \in Blocks
    BY <2>1 DEF ChainOK
  <2>3. QED
    BY <2>1, <2>2 DEF Blocks
<1>0. UNCHANGED <<stageVars, taskVars>>
  BY DEF ChainStep
<1>1. ASSUME NEW f \in Exec PROVE (Barred(f)' <=> Barred(f)) /\ Told(f)' = Told(f)
  BY <1>0 DEF Barred, SendOpen, Told, stageVars, taskVars
<1>p. \A t \in pool[a] : t[1] \in Exec /\ AccountOf[t[1]] = a /\ t[2] \in Nat
  BY <1>i DEF ChainOK
<1>q. ASSUME NEW t \in pool[a] PROVE Pending(t[1]) /\ Fate(t[1]) = "pending" /\ Barred(t[1])
             /\ ~Included(t[1], TRUE) /\ ~Included(t[1], FALSE)
             /\ \A u \in pool[a] : u[1] = t[1] => u = t
  <2>1. PICK f \in Exec : f = t[1] /\ AccountOf[f] = a
    BY <1>p
  <2>2. Pending(f)
    BY <2>1 DEF Pending
  <2>3. QED
    BY <2>1, <2>2, PendingFate
<1>r. ASSUME NEW t \in pool[a], pool'[a] = pool[a] \ {t}, NEW f \in Exec, f = t[1] PROVE ~Pending(f)'
  BY <1>p, <1>q, <1>r DEF Pending
<1>s. ASSUME NEW t \in pool[a], t[2] = Len(mined[a]), NEW P, P = {u \in pool[a] : u[2] # Len(mined[a])}
      PROVE  P = pool[a] \ {t}
  BY <1>i, <1>s DEF PoolInv
<1>2. ASSUME Mine(a) PROVE RelayStep
  <2>1. PICK t \in pool[a], ok \in BOOLEAN : t[2] = Len(mined[a]) /\ Use(a, t[1], ok)
    BY <1>2 DEF Mine, ChainNonce
  <2>2. PICK e \in Exec : e = t[1] /\ AccountOf[e] = a
    BY <1>p
  <2>3. Used(a, e, ok)
    BY <1>i, <2>1, <2>2, UseLemma
  <2>4. pool'[a] = pool[a] \ {t} /\ \A b \in Account : b # a => pool'[b] = pool[b]
    BY <1>s, <2>1, <2>3 DEF Used
  <2>5. \A f \in Exec : f # e => (Pending(f)' <=> Pending(f))
    BY <2>2, <2>4, PoolLoses
  <2>6. ASSUME NEW f \in Exec, f # e PROVE Same(f)
    <3>1. (Included(f, TRUE)' <=> Included(f, TRUE)) /\ (Included(f, FALSE)' <=> Included(f, FALSE))
      BY <1>i, <2>3, <2>6, IncludedUsed
    <3>2. QED
      BY <1>1, <2>5, <2>6, <3>1, SameFate DEF Same
  <2>7. ~Included(e, TRUE) /\ ~Included(e, FALSE) /\ Fate(e) = "pending"
    BY <1>q, <2>2
  <2>8. (Included(e, TRUE)' <=> ok = TRUE) /\ (Included(e, FALSE)' <=> ok = FALSE)
    BY <1>i, <2>2, <2>3, <2>7, IncludedUsed
  <2>9. Fate(e)' \in {"mined", "reverted"}
    BY <2>8 DEF Fate
  <2>10. OneStep(e)
    BY <1>1, <2>7, <2>9 DEF OneStep
  <2>11. QED
    BY <2>6, <2>10, LiftOne
<1>3. ASSUME NEW t \in pool[a], pool'[a] = pool[a] \ {t}, \A b \in Account : b # a => pool'[b] = pool[b],
             \A f \in Exec : /\ Included(f, TRUE)' <=> Included(f, TRUE)
                             /\ Included(f, FALSE)' <=> Included(f, FALSE)
      PROVE  RelayStep
  <2>1. PICK e \in Exec : e = t[1] /\ AccountOf[e] = a
    BY <1>p
  <2>2. \A f \in Exec : f # e => (Pending(f)' <=> Pending(f))
    BY <1>3, <2>1, PoolLoses
  <2>3. \A f \in Exec : f # e => Same(f)
    BY <1>1, <1>3, <2>2, SameFate DEF Same
  <2>4. ~Included(e, TRUE) /\ ~Included(e, FALSE) /\ Fate(e) = "pending" /\ Barred(e)
    BY <1>q, <2>1
  <2>5. ~Included(e, TRUE)' /\ ~Included(e, FALSE)' /\ ~Pending(e)' /\ Barred(e)'
    BY <1>1, <1>3, <1>r, <2>1, <2>4
  <2>6. Fate(e)' = "lost"
    BY <2>5 DEF Fate, Pending, Barred
  <2>7. OneStep(e)
    BY <1>1, <2>4, <2>6 DEF OneStep
  <2>8. QED
    BY <2>3, <2>7, LiftOne
<1>4. ASSUME OtherWallet(a) PROVE RelayStep
  <2>1. Used(a, Other, TRUE)
    BY <1>i, <1>4, UseLemma DEF OtherWallet
  <2>2. ASSUME NEW f \in Exec
        PROVE  (Included(f, TRUE)' <=> Included(f, TRUE)) /\ (Included(f, FALSE)' <=> Included(f, FALSE))
    BY <1>i, <2>1, IncludedUsed, ChainAssumption
  <2>3. CASE \E t \in pool[a] : t[2] = Len(mined[a])
    <3>1. PICK t \in pool[a] : t[2] = Len(mined[a])
      BY <2>3
    <3>2. pool'[a] = pool[a] \ {t} /\ \A b \in Account : b # a => pool'[b] = pool[b]
      BY <1>s, <2>1, <3>1 DEF Used
    <3>3. QED
      BY <1>3, <2>2, <3>2
  <2>4. CASE ~\E t \in pool[a] : t[2] = Len(mined[a])
    <3>1. \A b \in Account : pool'[b] = pool[b]
      BY <2>1, <2>4 DEF Used
    <3>2. ASSUME NEW f \in Exec PROVE Same(f)
      <4>1. Pending(f)' <=> Pending(f)
        BY <3>1, AccountsAssumption DEF Pending
      <4>2. QED
        BY <1>1, <2>2, <4>1, SameFate DEF Same
    <3>3. QED
      BY <3>2, LiftNone
  <2>5. QED
    BY <2>3, <2>4
<1>5. ASSUME Evict(a) PROVE RelayStep
  <2>1. PICK t \in pool[a] : pool' = [pool EXCEPT ![a] = @ \ {t}] /\ mined' = mined
    BY <1>5 DEF Evict
  <2>2. pool'[a] = pool[a] \ {t} /\ \A b \in Account : b # a => pool'[b] = pool[b]
    BY <1>i, <2>1 DEF ChainOK
  <2>3. QED
    BY <1>3, <2>1, <2>2, SameChain
<1>6. QED
  BY <1>2, <1>4, <1>5 DEF ChainStep

-----------------------------------------------------------------------------
(* The steps of run_pipeline *)

\* What a client is told when a task moves.
LEMMA RunTold ==
    ASSUME RelayInv, NEW e \in Exec, Run(e)
    PROVE  /\ Told(e) = "none"
           /\ \/ Told(e)' = "none" \/ Told(e)' = "failed"
              \/ pc[e] = "finalise" /\ Told(e)' = "confirmed"
              \/ pc[e] = "expire" /\ Told(e)' = "timed_out"
<1>1. TaskOK /\ pc[e] \in Stages /\ RunTable(e)
  BY RunMoves DEF RelayInv
<1>2. pc[e] \notin {"idle", "refused", "done", "lost"}
  BY <1>1 DEF Stages
<1>3. status[e] \notin Ended
  BY <1>2 DEF RelayInv, ConfirmInv
<1>4. Told(e) = "none"
  BY <1>2, <1>3 DEF Told, Ended
<1>5. \/ pc'[e] \notin {"idle", "refused", "done", "lost"} /\ status'[e] \notin Ended
      \/ status'[e] = "Failed"
      \/ pc[e] = "finalise" /\ status'[e] = "ConfirmedOnChain"
      \/ pc[e] = "expire" /\ status'[e] = "ValidatorTimedOut"
  BY <1>1, <1>2, <1>3 DEF RunTable, taskVars, Moves, Again, Fails, Releases, Grants, Asks, Recovers,
                          AfterResolved, Ended
<1>6. QED
  BY <1>4, <1>5 DEF Told, Ended

\* The other executions, in a step that sends nothing.
LEMMA OthersSame ==
    ASSUME RelayInv, NEW e \in Exec, Run(e), pool' = pool
    PROVE  \A f \in Exec : f # e => Same(f)
<1>1. TaskOK /\ TablesOK /\ Elsewhere(e)
  BY RunMoves DEF RelayInv
<1>2. mined' = mined /\ \A f \in Exec : f # e => sends'[f] = sends[f]
  BY <1>1, SendsElsewhere
<1>3. ASSUME NEW f \in Exec, f # e PROVE Same(f)
  <2>1. pc'[f] = pc[f] /\ status'[f] = status[f] /\ sends'[f] = sends[f]
    BY <1>1, <1>2, <1>3 DEF Elsewhere
  <2>2. (Barred(f)' <=> Barred(f)) /\ Told(f)' = Told(f)
    BY <2>1 DEF Barred, SendOpen, Told
  <2>3. Pending(f)' <=> Pending(f)
    BY DEF Pending
  <2>4. QED
    BY <1>2, <2>2, <2>3, SameChain, SameFate DEF Same
<1>4. QED
  BY <1>3

\* A task whose payload is not sent in this step, and stays barred or not barred.
LEMMA RunKeepsFate ==
    ASSUME RelayInv, NEW e \in Exec, Run(e), pool' = pool, Barred(e)' <=> Barred(e)
    PROVE  RelayStep
<1>1. mined' = mined
  BY SendsElsewhere DEF RelayInv
<1>2. Pending(e)' <=> Pending(e)
  BY DEF Pending
<1>3. Fate(e)' = Fate(e)
  BY <1>1, <1>2, SameChain, SameFate
<1>4. pc[e] = "finalise" => Fate(e) = "mined"
  <2>1. ASSUME pc[e] = "finalise" PROVE Included(e, TRUE)
    <3> DEFINE a == AccountOf[e]
    <3>1. HasReceipt(e, ctx[e].nonce, TRUE) /\ ctx[e].nonce \in Nat /\ a \in Account
      <4>1. HasReceipt(e, ctx[e].nonce, TRUE) /\ TaskOK
        BY <2>1 DEF RelayInv, ConfirmInv
      <4>2. ctx[e].nonce \in Nat
        BY <4>1 DEF TaskOK, Locals
      <4>3. QED
        BY <4>1, <4>2, AccountsAssumption
    <3>2. mined[a] \in Blocks
      BY <3>1 DEF RelayInv, ChainOK
    <3>3. Len(mined[a]) \in Nat
      BY <3>2 DEF Blocks
    <3>4. /\ ctx[e].nonce + 1 \in 1..Len(mined[a])
          /\ mined[a][ctx[e].nonce + 1] = [exec |-> e, ok |-> TRUE]
      BY <3>1, <3>3 DEF HasReceipt, ChainNonce
    <3>5. mined[a][ctx[e].nonce + 1].exec = e /\ mined[a][ctx[e].nonce + 1].ok = TRUE
      BY <3>4
    <3>6. ctx[e].nonce + 1 \in MinedOf(e)
      BY <3>4, <3>5 DEF MinedOf
    <3>7. QED
      BY <3>5, <3>6 DEF Included
  <2>2. QED
    BY <2>1 DEF Fate
<1>5. pc[e] = "expire" => Fate(e) # "unsent"
  <2>1. pc[e] = "expire" => SendOpen(e) /\ pc[e] # "fetch_nonce"
    BY DEF RelayInv, OpenInv
  <2>2. QED
    BY <2>1 DEF Fate
<1>6. OneStep(e)
  BY <1>3, <1>4, <1>5, RunTold DEF OneStep, Same
<1>7. QED
  BY <1>6, OthersSame, LiftOne

\* A task that has sent nothing and ends its attempt without sending.
LEMMA RunGivesUp ==
    ASSUME RelayInv, NEW e \in Exec, Run(e), pool' = pool, Txs(e) = {}, ~Barred(e),
           pc[e] \in {"broadcast", "fetch_nonce"}
    PROVE  RelayStep
<1>1. mined' = mined
  BY SendsElsewhere DEF RelayInv
<1>2. Txs(e)' = {}
  BY <1>1 DEF Txs, MinedOf
<1>3. Fate(e) = "unsent"
  BY NoFate
<1>4. ~Included(e, TRUE)' /\ ~Included(e, FALSE)' /\ ~Pending(e)'
  BY <1>1, SameChain, NoFate DEF Pending
<1>5. Fate(e)' \in {"unsent", "lost"}
  BY <1>4 DEF Fate, Pending
<1>6. Told(e) = "none" /\ Told(e)' \in {"none", "failed"}
  BY RunTold
<1>7. OneStep(e)
  BY <1>3, <1>5, <1>6 DEF OneStep, Same
<1>8. QED
  BY <1>7, OthersSame, LiftOne

\* A payload that an endpoint takes, perhaps in place of another one.
LEMMA RunSends ==
    ASSUME RelayInv, AnswersKept, NEW e \in Exec, Run(e), BroadcastSent(e), Txs(e) = {}
    PROVE  RelayStep
<1> DEFINE a == AccountOf[e]
<1>0. /\ TaskOK /\ TablesOK /\ ChainOK /\ PoolInv /\ a \in Account
      /\ pc[e] = "broadcast" /\ ~SendOpen(e)
  BY AccountsAssumption DEF RelayInv, BroadcastSent
<1>1. PICK n \in 0..MaxNonce : n = ctx[e].nonce /\ Admit(e, n)
  BY <1>0 DEF BroadcastSent, TaskOK, Locals
<1>2. /\ mined' = mined
      /\ \A b \in Account : b # a => pool'[b] = pool[b]
      /\ pool'[a] = {t \in pool[a] : t[2] = n => t[1] = e} \cup {<<e, n>>}
  BY <1>0, <1>1, AdmitLemma
<1>3. Fate(e) = "unsent" /\ ~Included(e, TRUE) /\ ~Included(e, FALSE) /\ ~Pending(e)
  BY <1>0, NoFate DEF Barred
<1>4. Fate(e)' = "pending"
  <2>1. ~Included(e, TRUE)' /\ ~Included(e, FALSE)'
    BY <1>2, <1>3, SameChain
  <2>2. <<e, n>> \in pool'[a] /\ <<e, n>>[1] = e
    BY <1>2
  <2>3. QED
    BY <2>1, <2>2 DEF Fate
<1>5. Told(e) = "none" /\ Told(e)' \in {"none", "failed"}
  BY <1>0, RunTold
<1>6. ASSUME NEW f \in Exec, f # e
      PROVE  /\ Barred(f)' <=> Barred(f)
             /\ Told(f)' = Told(f)
             /\ Included(f, TRUE)' <=> Included(f, TRUE)
             /\ Included(f, FALSE)' <=> Included(f, FALSE)
  <2>1. pc'[f] = pc[f] /\ status'[f] = status[f] /\ sends'[f] = sends[f]
    BY <1>0, <1>6, RunMoves, SendsElsewhere DEF Elsewhere
  <2>2. (Barred(f)' <=> Barred(f)) /\ Told(f)' = Told(f)
    BY <2>1 DEF Barred, SendOpen, Told
  <2>3. QED
    BY <1>2, <2>2, SameChain
<1>7. ASSUME NEW f \in Exec, f # e, \A t \in pool[a] : t[1] = f => t[2] # n PROVE Same(f)
  <2>1. Pending(f)' <=> Pending(f)
    <3>1. CASE AccountOf[f] = a
      <4>1. <<e, n>>[1] = e
        OBVIOUS
      <4>2. \A t : t[1] = f => (t \in pool'[a] <=> t \in pool[a])
        BY <1>2, <1>7, <4>1
      <4>3. QED
        BY <3>1, <4>2 DEF Pending
    <3>2. CASE AccountOf[f] # a
      BY <1>2, <3>2, AccountsAssumption DEF Pending
    <3>3. QED
      BY <3>1, <3>2
  <2>2. QED
    BY <1>6, <1>7, <2>1, SameFate DEF Same
<1>8. CASE \E t \in pool[a] : t[2] = n /\ t[1] # e
  <2>1. PICK t \in pool[a] : t[2] = n /\ t[1] # e
    BY <1>8
  <2>2. PICK f \in Exec : f = t[1] /\ AccountOf[f] = a /\ f # e
    <3>1. t[1] \in Exec /\ AccountOf[t[1]] = a
      BY <1>0 DEF ChainOK
    <3>2. QED
      BY <2>1, <3>1
  <2>3. Pending(f)
    BY <2>2 DEF Pending
  <2>4. /\ ~Included(f, TRUE) /\ ~Included(f, FALSE) /\ Fate(f) = "pending" /\ Barred(f)
        /\ \A u \in pool[a] : u[1] = f => u = t
    BY <2>2, <2>3, PendingFate
  <2>5. ~Pending(f)'
    <3>1. SUFFICES ASSUME NEW u \in pool'[a], u[1] = f PROVE FALSE
      BY <2>2 DEF Pending
    <3>2. u # <<e, n>>
      BY <2>2, <3>1
    <3>3. u \in pool[a] /\ (u[2] = n => u[1] = e)
      BY <1>2, <3>1, <3>2
    <3>4. QED
      BY <2>1, <2>2, <2>4, <3>1, <3>3
  <2>6. Fate(f)' = "lost"
    <3>1. ~Included(f, TRUE)' /\ ~Included(f, FALSE)' /\ Barred(f)'
      BY <1>6, <2>2, <2>4
    <3>2. QED
      BY <2>5, <3>1 DEF Fate, Pending, Barred
  <2>7. ASSUME NEW g \in Exec, g # e, g # f PROVE Same(g)
    <3>1. ASSUME NEW u \in pool[a], u[1] = g PROVE u[2] # n
      BY <1>0, <2>1, <2>2, <2>7, <3>1 DEF PoolInv
    <3>2. QED
      BY <1>7, <2>7, <3>1
  <2>8. QED
    BY <1>3, <1>4, <1>5, <1>6, <2>2, <2>4, <2>6, <2>7, LiftTwo
<1>9. CASE ~\E t \in pool[a] : t[2] = n /\ t[1] # e
  <2>1. \A f \in Exec : f # e => Same(f)
    BY <1>7, <1>9
  <2>2. OneStep(e)
    BY <1>3, <1>4, <1>5 DEF OneStep
  <2>3. QED
    BY <2>1, <2>2, LiftOne
<1>10. QED
  BY <1>8, <1>9

\* A step of run_pipeline is a step of the abstract relay.
LEMMA RunRelays ==
    ASSUME RelayInv, AnswersKept, NEW e \in Exec, Run(e)
    PROVE  RelayStep
<1>0. TaskOK /\ TablesOK /\ pc[e] \in Stages /\ RunTable(e)
  BY RunMoves DEF RelayInv
<1>1. BroadcastSent(e) \/ pool' = pool
  BY <1>0, SendsElsewhere
<1>s. Txs(e) # {} => SendOpen(e) /\ pc[e] \in AfterSend
  BY DEF RelayInv, SendInv, SentPlace, AnswersKept
<1>2. CASE pc[e] \notin {"broadcast", "fetch_nonce"}
  <2>1. sends' = sends
    BY <1>0, <1>2, SendsElsewhere
  <2>2. pc'[e] # "fetch_nonce"
    BY <1>0, <1>2 DEF RunTable, taskVars, Moves, Again, Fails, Releases, Grants, Asks, Recovers,
                      AfterResolved
  <2>3. Barred(e)' <=> Barred(e)
    BY <1>2, <2>1, <2>2 DEF Barred, SendOpen
  <2>4. pool' = pool
    BY <1>1, <1>2 DEF BroadcastSent
  <2>5. QED
    BY <2>3, <2>4, RunKeepsFate
<1>3. CASE pc[e] = "broadcast" /\ SendOpen(e)
  <2>1. sends'[e] = sends[e] /\ pc'[e] # "fetch_nonce"
    BY <1>0, <1>3, BroadcastAgain DEF Moves, Again, Fails
  <2>2. Barred(e)' <=> Barred(e)
    BY <1>3, <2>1 DEF Barred, SendOpen
  <2>3. pool' = pool
    BY <1>1, <1>3 DEF BroadcastSent
  <2>4. QED
    BY <2>2, <2>3, RunKeepsFate
<1>4. CASE pc[e] = "broadcast" /\ ~SendOpen(e)
  <2>1. Txs(e) = {} /\ ~Barred(e)
    BY <1>s, <1>4 DEF Barred
  <2>2. QED
    BY <1>1, <1>4, <2>1, RunSends, RunGivesUp
<1>5. CASE pc[e] = "fetch_nonce"
  <2>1. Txs(e) = {} /\ ~Barred(e)
    BY <1>s, <1>5 DEF Barred, AfterSend
  <2>2. pool' = pool
    BY <1>1, <1>5 DEF BroadcastSent
  <2>3. QED
    BY <1>5, <2>1, <2>2, RunGivesUp
<1>6. QED
  BY <1>2, <1>3, <1>4, <1>5

-----------------------------------------------------------------------------
(* The other steps, and the theorem *)

\* A restart of the process is a restart of the abstract relay.
LEMMA RestartRelays ==
    ASSUME RelayInv, Crash
    PROVE  RelayStep
<1>0. /\ mined' = mined /\ pool' = pool /\ sends' = sends
      /\ pc' = [e \in Exec |-> IF InFlight(e) THEN "lost" ELSE pc[e]]
      /\ \A e \in Exec : status'[e] \in Recovered(e)
  BY DEF Crash, chainVars, stageVars, StatusLoaded
<1>1. ASSUME NEW e \in Exec PROVE Told(e)' = Told(e) \/ Told(e)' = "unknown"
  <2>1. status'[e] \in Ended => status'[e] = status[e]
    BY <1>0 DEF Recovered, Ended
  <2>2. status[e] \in Ended => pc[e] = "done"
    BY DEF RelayInv, ConfirmInv
  <2>3. pc'[e] = IF InFlight(e) THEN "lost" ELSE pc[e]
    BY <1>0
  <2>4. CASE InFlight(e)
    BY <2>1, <2>2, <2>3, <2>4 DEF Told, Ended, InFlight, Stages
  <2>5. CASE ~InFlight(e)
    BY <2>1, <2>2, <2>3, <2>5 DEF Told, Ended
  <2>6. QED
    BY <2>4, <2>5
<1>2. ASSUME NEW e \in Exec
      PROVE  \/ Fate(e)' = Fate(e)
             \/ Fate(e) = "unsent" /\ Fate(e)' = "lost" /\ Told(e)' = "unknown"
  <2>1. Pending(e)' <=> Pending(e)
    BY <1>0 DEF Pending
  <2>2. CASE pc[e] = "fetch_nonce"
    <3>1. pc'[e] = "lost" /\ status[e] \notin Ended
      BY <1>0, <2>2 DEF InFlight, Stages, RelayInv, ConfirmInv
    <3>2. status'[e] \notin Ended
      BY <1>0, <3>1 DEF Recovered, Ended
    <3>3. Told(e)' = "unknown"
      BY <3>1, <3>2 DEF Told, Ended
    <3>4. CASE SendOpen(e)
      <4>1. Barred(e)' /\ ~Barred(e)
        BY <1>0, <2>2, <3>1, <3>4 DEF Barred, SendOpen
      <4>2. CASE ~Included(e, TRUE) /\ ~Included(e, FALSE) /\ ~Pending(e)
        <5>1. ~Included(e, TRUE)' /\ ~Included(e, FALSE)' /\ ~Pending(e)'
          BY <1>0, <2>1, <4>2, SameChain
        <5>2. QED
          BY <3>3, <4>1, <4>2, <5>1 DEF Fate, Pending, Barred
      <4>3. CASE Included(e, TRUE)
        BY <1>0, <4>3, SameChain DEF Fate
      <4>4. CASE ~Included(e, TRUE) /\ Included(e, FALSE)
        BY <1>0, <4>4, SameChain DEF Fate
      <4>5. CASE ~Included(e, TRUE) /\ ~Included(e, FALSE) /\ Pending(e)
        <5>1. ~Included(e, TRUE)' /\ ~Included(e, FALSE)' /\ Pending(e)'
          BY <1>0, <2>1, <4>5, SameChain
        <5>2. QED
          BY <4>5, <5>1 DEF Fate, Pending
      <4>6. QED
        BY <4>2, <4>3, <4>4, <4>5
    <3>5. CASE ~SendOpen(e)
      <4>1. Barred(e)' <=> Barred(e)
        BY <1>0, <3>5 DEF Barred, SendOpen
      <4>2. QED
        BY <1>0, <2>1, <4>1, SameChain, SameFate
    <3>6. QED
      BY <3>4, <3>5
  <2>3. CASE pc[e] # "fetch_nonce"
    <3>1. pc'[e] # "fetch_nonce"
      BY <1>0, <2>3
    <3>2. Barred(e)' <=> Barred(e)
      BY <1>0, <2>3, <3>1 DEF Barred, SendOpen
    <3>3. QED
      BY <1>0, <2>1, <3>2, SameChain, SameFate
  <2>4. QED
    BY <2>2, <2>3
<1>3. QED
  BY <1>1, <1>2, LiftRestart

\* The steps in which a request is turned away or taken, time passes, or the sweeper works.
LEMMA OutsideRelays ==
    ASSUME RelayInv, AnswersKept, [Next]_vars, ~Crash,
           ~\E e \in Exec : Run(e), ~\E a \in Account : ChainStep(a)
    PROVE  RelayStep
<1>0. TaskOK /\ TablesOK
  BY DEF RelayInv
<1>1. mined' = mined /\ pool' = pool /\ sends' = sends
  BY DEF Next, vars, chainVars, stageVars, Submit, Reject, Refuse, SweeperBot, TimePasses, Quiet
<1>2. ASSUME NEW e \in Exec, pc'[e] = pc[e], status'[e] = status[e] PROVE Same(e)
  <2>1. (Barred(e)' <=> Barred(e)) /\ (Pending(e)' <=> Pending(e)) /\ Told(e)' = Told(e)
    BY <1>1, <1>2 DEF Barred, SendOpen, Pending, Told
  <2>2. QED
    BY <1>1, <2>1, SameChain, SameFate DEF Same
<1>3. CASE \E e \in Exec : Submit(e) \/ Reject(e) \/ Refuse(e)
  <2>1. PICK e \in Exec : Submit(e) \/ Reject(e) \/ Refuse(e)
    BY <1>3
  <2>2. /\ pc[e] = "idle"
        /\ \/ Moves(e, "relay_host", "PermitAquired")
           \/ Moves(e, "refused", status[e])
        /\ Elsewhere(e)
    BY <1>0, <2>1, Advanced, Proceeded DEF Submit, Reject, Refuse
  <2>3. \A f \in Exec : f # e => Same(f)
    BY <1>2, <2>2 DEF Elsewhere
  <2>4. status[e] \notin Ended /\ ~SendOpen(e)
    BY <2>2 DEF RelayInv, ConfirmInv, OpenInv
  <2>5. Txs(e) = {} /\ ~Barred(e)
    BY <2>2, <2>4 DEF RelayInv, SendInv, SentPlace, AnswersKept, Barred
  <2>6. Fate(e) = "unsent" /\ Told(e) = "none"
    BY <2>2, <2>4, <2>5, NoFate DEF Told, Ended
  <2>7. Fate(e)' = "unsent"
    <3>1. Txs(e)' = {} /\ ~Barred(e)'
      BY <1>1, <2>4, <2>5 DEF Txs, MinedOf, Barred, SendOpen
    <3>2. ~Included(e, TRUE)' /\ ~Included(e, FALSE)' /\ ~Pending(e)'
      BY <1>1, <2>5, NoFate, SameChain DEF Pending
    <3>3. QED
      BY <3>1, <3>2 DEF Fate, Pending, Barred
  <2>8. Told(e)' \in {"none", "refused"}
    BY <2>2, <2>4 DEF Told, Ended, Moves
  <2>9. OneStep(e)
    BY <2>6, <2>7, <2>8 DEF OneStep, Same
  <2>10. QED
    BY <2>3, <2>9, LiftOne
<1>4. CASE ~\E e \in Exec : Submit(e) \/ Reject(e) \/ Refuse(e)
  <2>1. pc' = pc /\ status' = status
    BY <1>4 DEF Next, vars, taskVars, SweeperBot, TimePasses, Quiet
  <2>2. \A e \in Exec : Same(e)
    BY <1>2, <2>1
  <2>3. QED
    BY <2>2, LiftNone
<1>5. QED
  BY <1>3, <1>4

\* Initially nothing is sent and nobody is told anything.
LEMMA RelayStart == ASSUME Init PROVE Client!RelayInit /\ PoolInv /\ OpenInv
<1>1. /\ \A e \in Exec : pc[e] = "idle" /\ status[e] = "None" /\ sends[e] = "none"
      /\ \A a \in Account : mined[a] = <<>> /\ pool[a] = {}
  BY DEF Init, ChainInit, StageInit
<1>2. PoolInv /\ OpenInv
  BY <1>1 DEF PoolInv, OpenInv, SendOpen
<1>3. ASSUME NEW e \in Exec PROVE Fate(e) = "unsent" /\ Told(e) = "none"
  <2>1. AccountOf[e] \in Account
    BY AccountsAssumption
  <2>2. Txs(e) = {} /\ ~Barred(e)
    BY <1>1, <2>1 DEF Txs, MinedOf, Barred, SendOpen
  <2>3. QED
    BY <1>1, <2>2, NoFate DEF Told
<1>4. FateBar = [e \in Exec |-> "unsent"] /\ ToldBar = [e \in Exec |-> "none"]
  BY <1>3 DEF FateBar, ToldBar
<1>5. QED
  BY <1>2, <1>4 DEF Client!RelayInit, FateBar, ToldBar

\* The relay serves its clients as module Relay says, until an answer of an endpoint is
\* lost: whatever database errors, retries, recoveries, replacements in the pool, sweeps and
\* crashes happen, a payload is sent at most once and never after its outcome was reported,
\* only a mined one is confirmed, only a sent one times out, and a restart makes nothing
\* happen but forgets.
THEOREM RelayServesClients == Spec /\ []AnswersKept => ServesClients
<1>1. Init => Client!RelayInit /\ PoolInv /\ OpenInv
  BY RelayStart
<1>2. TaskOK /\ TablesOK /\ ChainOK /\ PoolInv /\ OpenInv /\ [Next]_vars => PoolInv' /\ OpenInv'
  BY PoolKept, OpenKept
<1>3. ASSUME RelayInv, AnswersKept, [Next]_vars PROVE RelayStep
  <2>1. CASE \E e \in Exec : Run(e)
    BY <1>3, <2>1, RunRelays
  <2>2. CASE \E a \in Account : ChainStep(a)
    BY <1>3, <2>2, ChainRelays
  <2>3. CASE Crash
    BY <1>3, <2>3, RestartRelays
  <2>4. QED
    BY <1>3, <2>1, <2>2, <2>3, OutsideRelays
<1>4. RelayInv /\ AnswersKept /\ [Next]_vars => [Client!RelayNext]_(Client!relayVars)
  BY <1>3 DEF RelayStep
<1>5. PipelineTypeOK => TaskOK /\ TablesOK /\ FaultsOK
  BY DEF PipelineTypeOK
<1>6. /\ TaskOK /\ TablesOK /\ FaultsOK /\ ChainOK /\ ConfirmInv /\ SendInv /\ PoolInv /\ OpenInv
      => RelayInv
  BY DEF RelayInv
<1>7. QED
  BY <1>1, <1>2, <1>4, <1>5, <1>6, PipelineTypeCorrect, SendInvariant, PTL
  DEF Spec, ServesClients, Client!RelaySpec

=============================================================================
