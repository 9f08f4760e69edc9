----------------------------- MODULE RpcProofs ------------------------------
(***************************************************************************)
(* What the RPC client guarantees of its semaphores and of its unlocked    *)
(* metrics, for any number of tasks, actors, endpoints, permits, calls and *)
(* thresholds.                                                             *)
(***************************************************************************)
EXTENDS RpcClient, FiniteSetTheorems, TLAPS

Ops == {"none", "pick", "call"}

Pcs == {"idle", "sticky", "scan", "send", "hung"} \cup Recording

Locals == [pc : Pcs, actor : Actor, op : Ops, sticky : Index \cup {None}, next : 0..Endpoints,
           scored : SUBSET Index, at : Index \cup {None}, requests : Nat, health : Health]

Counters == [errors : Nat, requests : Nat, health : Health]

StateOK ==
    /\ metrics \in [Actor -> [Index -> Counters]]
    /\ permits \in [Actor -> Nat]
    /\ task \in [Caller -> Locals]
    /\ calls \in 0..MaxCalls
    /\ steady \in [Caller -> [up : SUBSET Index, down : SUBSET Index]]

\* A task that makes a call has an endpoint where the access needs one.
Placed(t) ==
    /\ t.pc = "sticky" => t.sticky \in Index /\ t.op = "call"
    /\ t.pc = "scan" => t.op \in {"pick", "call"}
    /\ t.pc \in {"send", "hung"} \cup Recording => t.at \in Index /\ t.op = "call"

PlaceOK == \A c \in Caller : Placed(task[c])

\* The steps of one task.
Acts(c) ==
    \/ AcquireHealthyEndpoint(c)
    \/ \E a \in Actor : ExecuteUnary(c, a)
    \/ EndSession(c)
    \/ Step(c)
    \/ Hangs(c)

Elsewhere(c) == \A d \in Caller : d # c => task'[d] = task[d]

-----------------------------------------------------------------------------
(* Types *)

\* An index is a natural number, and every index comes before the length.
LEMMA IndexFacts ==
    /\ 0 \in Index /\ None \notin Index /\ Index \subseteq Nat
    /\ \A i \in Index : i < Endpoints /\ i + 1 \in 0..Endpoints
    /\ \A n \in 0..Endpoints : n < Endpoints => n \in Index
    /\ "validator" \in Actor /\ Endpoints \in Nat
BY RpcAssumption DEF Index, None

\* An idle task has the type of a task, whichever endpoint it is bound to.
LEMMA IdleOK ==
    /\ Idle \in Locals
    /\ \A i \in Index \cup {None} : [Idle EXCEPT !.sticky = i] \in Locals
BY IndexFacts DEF Idle, Locals, Pcs, Ops, Health

\* Initially every task is idle.
LEMMA StateStart == ASSUME Init PROVE StateOK /\ PlaceOK
<1>1. metrics \in [Actor -> [Index -> Counters]]
  BY DEF Init, Counters, Health
<1>2. permits \in [Actor -> Nat] /\ calls \in 0..MaxCalls
  BY RpcAssumption DEF Init
<1>3. task \in [Caller -> Locals] /\ \A c \in Caller : task[c].pc = "idle"
  BY IdleOK DEF Init, Idle
<1>4. steady \in [Caller -> [up : SUBSET Index, down : SUBSET Index]]
  BY DEF Init, NoHistory
<1>5. QED
  BY <1>1, <1>2, <1>3, <1>4 DEF StateOK, PlaceOK, Placed, Recording

\* What a task may be after a step.
LEMMA Replaced ==
    ASSUME StateOK, PlaceOK, NEW c \in Caller, NEW r \in Locals, Placed(r),
           task' = [task EXCEPT ![c] = r]
    PROVE  task' \in [Caller -> Locals] /\ Elsewhere(c) /\ PlaceOK' /\ task'[c] = r
BY DEF StateOK, PlaceOK, Elsewhere

\* The actions that only move on.
LEMMA Moved ==
    ASSUME NEW t \in Locals, NEW pc \in Pcs, NEW at \in Index \cup {None}
    PROVE  /\ [t EXCEPT !.pc = pc] \in Locals
           /\ [t EXCEPT !.pc = pc, !.at = at] \in Locals
BY DEF Locals

\* A step changes the locals of its own task only, and keeps their types.
LEMMA TaskKept ==
    ASSUME StateOK, PlaceOK, NEW c \in Caller, Acts(c)
    PROVE  task' \in [Caller -> Locals] /\ Elsewhere(c) /\ PlaceOK'
<1> DEFINE t == task[c]
<1>0. t \in Locals /\ Placed(t)
  BY DEF StateOK, PlaceOK
<1>f. task \in [Caller -> Locals]
  BY DEF StateOK
<1> HIDE DEF t
<1> SUFFICES \E r \in Locals : Placed(r) /\ task' = [task EXCEPT ![c] = r]
  BY Replaced
<1> USE IndexFacts
<1>1. ASSUME NEW a \in Actor, NEW op \in Ops, NEW pc \in {"sticky", "scan"}, Begin(c, a, op, pc),
             pc = "sticky" => op = "call" /\ t.sticky # None, pc = "scan" => op = "pick"
      PROVE  \E r \in Locals : Placed(r) /\ task' = [task EXCEPT ![c] = r]
  <2> DEFINE r == [Idle EXCEPT !.pc = pc, !.actor = a, !.op = op, !.sticky = t.sticky]
  <2>1. t.sticky \in Index \cup {None}
    BY <1>0 DEF Locals
  <2>2. r \in Locals
    BY <2>1, IdleOK DEF Locals, Pcs, Ops
  <2>3. Placed(r)
    BY <1>1, <2>1 DEF Placed, Idle, Recording
  <2>4. task' = [task EXCEPT ![c] = r]
    BY <1>1 DEF Begin, t
  <2>5. QED
    BY <2>2, <2>3, <2>4
<1>2. CASE AcquireHealthyEndpoint(c)
  BY <1>1, <1>2 DEF AcquireHealthyEndpoint, Ops
<1>3. CASE \E a \in Actor : ExecuteUnary(c, a)
  BY <1>1, <1>3 DEF ExecuteUnary, Ops, t
<1>4. CASE EndSession(c)
  <2>1. Placed(Idle)
    BY DEF Placed, Idle, Recording
  <2>2. QED
    BY <1>4, <2>1, IdleOK DEF EndSession
<1>5. CASE SelectBySticky(c)
  <2>1. t.sticky \in Index /\ t.op = "call" /\ t.at \in Index \cup {None}
    BY <1>0, <1>5 DEF SelectBySticky, Placed, t, Locals
  <2>2. \/ task' = [task EXCEPT ![c].pc = "send", ![c].at = t.sticky]
        \/ task' = [task EXCEPT ![c].pc = "scan"]
    BY <1>5 DEF SelectBySticky, t
  <2>3. CASE task' = [task EXCEPT ![c].pc = "send", ![c].at = t.sticky]
    <3> DEFINE r == [t EXCEPT !.pc = "send", !.at = t.sticky]
    <3>1. r \in Locals
      BY <1>0, <2>1, Moved DEF Pcs
    <3>2. Placed(r)
      BY <1>0, <2>1 DEF Placed, Locals, Recording
    <3>3. task' = [task EXCEPT ![c] = r]
      BY <1>f, <2>3 DEF t
    <3>4. QED
      BY <3>1, <3>2, <3>3
  <2>4. CASE task' = [task EXCEPT ![c].pc = "scan"]
    <3> DEFINE r == [t EXCEPT !.pc = "scan"]
    <3>1. r \in Locals
      BY <1>0, <2>1, Moved DEF Pcs
    <3>2. Placed(r)
      BY <1>0, <2>1 DEF Placed, Locals, Recording
    <3>3. task' = [task EXCEPT ![c] = r]
      BY <1>f, <2>4 DEF t
    <3>4. QED
      BY <3>1, <3>2, <3>3
  <2>5. QED
    BY <2>2, <2>3, <2>4
<1>6. CASE Score(c)
  <2> DEFINE scored == IF IsAvailable(metrics[t.actor][t.next].health)
                       THEN t.scored \cup {t.next} ELSE t.scored
             r == [t EXCEPT !.next = t.next + 1, !.scored = scored]
  <2>1. t.pc = "scan" /\ t.next < Endpoints
    BY <1>6 DEF Score, t
  <2>2. t.next \in Index /\ t.next + 1 \in 0..Endpoints /\ t.scored \subseteq Index
    BY <1>0, <2>1 DEF Locals
  <2>3. scored \subseteq Index
    BY <2>2
  <2>4. task' = [task EXCEPT ![c] = r]
    BY <1>f, <1>6 DEF Score, t
  <2> HIDE DEF scored
  <2>5. r \in Locals
    BY <1>0, <2>2, <2>3 DEF Locals
  <2>6. Placed(r)
    BY <1>0, <2>1 DEF Placed, Locals, Recording
  <2>7. QED
    BY <2>4, <2>5, <2>6
<1>7. CASE SelectByWeightedScore(c)
  <2>1. t.pc = "scan" /\ t.scored \subseteq Index
    BY <1>0, <1>7 DEF SelectByWeightedScore, t, Locals
  <2>2. PICK i \in Index :
          \/ task' = [task EXCEPT ![c] = [Idle EXCEPT !.sticky = i]]
          \/ /\ t.op = "call"
             /\ task' = [task EXCEPT ![c].pc = "send", ![c].at = i]
    BY <1>7, <2>1 DEF SelectByWeightedScore, Choices, t
  <2>3. CASE task' = [task EXCEPT ![c] = [Idle EXCEPT !.sticky = i]]
    <3>1. Placed([Idle EXCEPT !.sticky = i])
      BY DEF Placed, Idle, Recording
    <3>2. QED
      BY <2>3, <3>1, IdleOK
  <2>4. CASE t.op = "call" /\ task' = [task EXCEPT ![c].pc = "send", ![c].at = i]
    <3> DEFINE r == [t EXCEPT !.pc = "send", !.at = i]
    <3>1. r \in Locals
      BY <1>0, Moved DEF Pcs
    <3>2. Placed(r)
      BY <1>0, <2>4 DEF Placed, Locals, Recording
    <3>3. task' = [task EXCEPT ![c] = r]
      BY <1>f, <2>4 DEF t
    <3>4. QED
      BY <3>1, <3>2, <3>3
  <2>5. QED
    BY <2>2, <2>3, <2>4
<1>8. CASE Answered(c) \/ Hangs(c) \/ CountError(c) \/ CountRequest(c)
  <2>1. /\ t.pc \in {"send"} \cup Recording
        /\ \E pc \in {"hung"} \cup Recording : task' = [task EXCEPT ![c].pc = pc]
    BY <1>8 DEF Answered, Hangs, CountError, CountRequest, Goto, Recording, t
  <2>2. PICK pc \in {"hung"} \cup Recording : task' = [task EXCEPT ![c].pc = pc]
    BY <2>1
  <2> DEFINE r == [t EXCEPT !.pc = pc]
  <2>3. r \in Locals
    BY <1>0, Moved DEF Pcs
  <2>4. Placed(r)
    BY <1>0, <2>1, <2>2 DEF Placed, Locals, Recording
  <2>5. task' = [task EXCEPT ![c] = r]
    BY <1>f, <2>2 DEF t
  <2>6. QED
    BY <2>3, <2>4, <2>5
<1>9. CASE LoadRequests(c) \/ LoadErrors(c)
  <2>1. t.pc \in Recording /\ t.actor \in Actor /\ t.at \in Index /\ t.op = "call" /\ t.requests \in Nat
    BY <1>0, <1>9 DEF LoadRequests, LoadErrors, Placed, Recording, t, Locals
  <2>2. metrics[t.actor][t.at] \in Counters
    <3>1. metrics \in [Actor -> [Index -> Counters]]
      BY DEF StateOK
    <3>2. QED
      BY <2>1, <3>1
  <2>3. PICK pc \in Recording, requests \in Nat, health \in Health :
          task' = [task EXCEPT ![c] = [t EXCEPT !.requests = requests, !.health = health, !.pc = pc]]
    <3>1. CASE LoadRequests(c)
      <4> DEFINE requests == metrics[t.actor][t.at].requests
                 pc == IF requests < MinRequests THEN "store" ELSE "load_errors"
      <4>1. requests \in Nat /\ pc \in Recording /\ "healthy" \in Health
        BY <2>2 DEF Counters, Recording, Health
      <4>2. task' = [task EXCEPT ![c] = [t EXCEPT !.requests = requests, !.health = "healthy", !.pc = pc]]
        BY <1>f, <3>1 DEF LoadRequests, t
      <4>3. QED
        BY <4>1, <4>2
    <3>2. CASE LoadErrors(c)
      <4> DEFINE health == NewHealth(metrics[t.actor][t.at].errors, t.requests)
      <4>1. health \in Health /\ "store" \in Recording
        BY DEF NewHealth, Health, Recording
      <4>2. task' = [task EXCEPT ![c] = [t EXCEPT !.health = health, !.pc = "store"]]
        BY <1>f, <3>2 DEF LoadErrors, t
      <4>3. [t EXCEPT !.health = health, !.pc = "store"]
              = [t EXCEPT !.requests = t.requests, !.health = health, !.pc = "store"]
        BY <1>0 DEF Locals
      <4>4. QED
        BY <2>1, <4>1, <4>2, <4>3
    <3>3. QED
      BY <1>9, <3>1, <3>2
  <2> DEFINE r == [t EXCEPT !.requests = requests, !.health = health, !.pc = pc]
  <2>4. r \in Locals
    BY <1>0 DEF Locals, Pcs
  <2>5. Placed(r)
    BY <1>0, <2>1, <2>3 DEF Placed, Locals, Recording
  <2>6. QED
    BY <2>3, <2>4, <2>5
<1>10. CASE StoreHealth(c)
  <2> DEFINE r == [Idle EXCEPT !.sticky = t.sticky]
  <2>1. r \in Locals /\ Placed(r)
    BY <1>0, IdleOK DEF Locals, Placed, Idle, Recording
  <2>2. task' = [task EXCEPT ![c] = r]
    BY <1>10 DEF StoreHealth, t
  <2>3. QED
    BY <2>1, <2>2
<1>11. QED
  BY <1>2, <1>3, <1>4, <1>5, <1>6, <1>7, <1>8, <1>9, <1>10 DEF Acts, Step

-----------------------------------------------------------------------------
(* The effect of a step on each part of the state. *)

SameCall(c) ==
    /\ task'[c].actor = task[c].actor /\ task'[c].op = task[c].op /\ task'[c].at = task[c].at
    /\ task'[c].scored = task[c].scored /\ task'[c].next = task[c].next

\* A task takes a permit and begins to choose an endpoint ...
Begins(c, a, op, pc) ==
    /\ task[c].pc = "idle" /\ task'[c].pc = pc
    /\ task'[c].actor = a /\ task'[c].op = op
    /\ task'[c].next = 0 /\ task'[c].scored = {} /\ task'[c].at = None

\* A task that begins an operation starts its scan afresh, without an endpoint.
LEMMA Begun ==
    ASSUME StateOK, NEW c \in Caller, NEW a \in Actor, NEW op, NEW pc,
           task[c].pc = "idle", Begin(c, a, op, pc)
    PROVE  Begins(c, a, op, pc)
BY DEF StateOK, Begin, Begins, Idle

\* ... goes on to the next access of the same call ...
Goes(c, pc) == task'[c].pc = pc /\ SameCall(c)

\* A task that goes on to another point of its operation changes nothing it had loaded.
LEMMA Gone ==
    ASSUME StateOK, NEW c \in Caller, NEW pc, Goto(c, pc)
    PROVE  Goes(c, pc) /\ task'[c].requests = task[c].requests /\ task'[c].health = task[c].health
<1>1. task[c] \in Locals /\ task'[c] = [task[c] EXCEPT !.pc = pc]
  BY DEF StateOK, Goto
<1>2. QED
  BY <1>1 DEF Goes, SameCall, Locals

\* ... or is over.
Ends(c) == task'[c].pc = "idle" /\ task'[c].at = None

\* The locals of a task after each of its actions.
LEMMA TaskMoves ==
    ASSUME StateOK, PlaceOK, NEW c \in Caller
    PROVE  /\ AcquireHealthyEndpoint(c) => Begins(c, "validator", "pick", "scan")
           /\ \A a \in Actor : ExecuteUnary(c, a) => Begins(c, a, "call", "sticky")
           /\ EndSession(c) => task[c].pc = "idle" /\ Ends(c)
           /\ Hangs(c) => task[c].pc = "send" /\ Goes(c, "hung")
           /\ Answered(c) => task[c].pc = "send" /\ (Goes(c, "count_request") \/ Goes(c, "count_error"))
           /\ CountError(c) => task[c].pc = "count_error" /\ Goes(c, "count_request")
           /\ CountRequest(c) => task[c].pc = "count_request" /\ Goes(c, "load_requests")
           /\ StoreHealth(c) => task[c].pc = "store" /\ Ends(c)
<1> USE IndexFacts
<1>1. AcquireHealthyEndpoint(c) => Begins(c, "validator", "pick", "scan")
  BY Begun DEF AcquireHealthyEndpoint
<1>2. ASSUME NEW a \in Actor, ExecuteUnary(c, a) PROVE Begins(c, a, "call", "sticky")
  BY <1>2, Begun DEF ExecuteUnary
<1>3. EndSession(c) => task[c].pc = "idle" /\ Ends(c)
  BY DEF EndSession, Ends, Idle, StateOK
<1>4. Hangs(c) => task[c].pc = "send" /\ Goes(c, "hung")
  BY Gone DEF Hangs
<1>5. Answered(c) => task[c].pc = "send" /\ (Goes(c, "count_request") \/ Goes(c, "count_error"))
  BY Gone DEF Answered
<1>6. CountError(c) => task[c].pc = "count_error" /\ Goes(c, "count_request")
  BY Gone DEF CountError
<1>7. CountRequest(c) => task[c].pc = "count_request" /\ Goes(c, "load_requests")
  BY Gone DEF CountRequest
<1>8. StoreHealth(c) => task[c].pc = "store" /\ Ends(c)
  BY DEF StoreHealth, Ends, Idle, StateOK
<1>9. QED
  BY <1>1, <1>2, <1>3, <1>4, <1>5, <1>6, <1>7, <1>8

\* The selection: the sticky endpoint, the scan and the choice.
LEMMA SelectMoves ==
    ASSUME StateOK, PlaceOK, NEW c \in Caller
    PROVE  /\ SelectBySticky(c) =>
                /\ task[c].pc = "sticky" /\ task'[c].actor = task[c].actor
                /\ task'[c].op = task[c].op
                /\ task'[c].scored = task[c].scored /\ task'[c].next = task[c].next
                /\ \/ /\ IsAvailable(metrics[task[c].actor][task[c].sticky].health)
                      /\ task'[c].pc = "send" /\ task'[c].at = task[c].sticky
                   \/ task'[c].pc = "scan" /\ task'[c].at = task[c].at
           /\ Score(c) =>
                /\ task[c].pc = "scan" /\ task'[c].pc = "scan" /\ task[c].next < Endpoints
                /\ task'[c].actor = task[c].actor /\ task'[c].op = task[c].op
                /\ task'[c].at = task[c].at /\ task'[c].next = task[c].next + 1
                /\ task'[c].scored = IF IsAvailable(metrics[task[c].actor][task[c].next].health)
                                     THEN task[c].scored \cup {task[c].next} ELSE task[c].scored
           /\ SelectByWeightedScore(c) =>
                /\ task[c].pc = "scan" /\ task[c].next = Endpoints
                /\ \E i \in Choices(task[c].scored) :
                    \/ task[c].op = "pick" /\ Ends(c)
                    \/ /\ task[c].op = "call" /\ task'[c].op = "call"
                       /\ task'[c].pc = "send" /\ task'[c].at = i /\ task'[c].actor = task[c].actor
                       /\ task'[c].scored = task[c].scored /\ task'[c].next = task[c].next
<1>0. task \in [Caller -> Locals] /\ task[c] \in Locals
  BY DEF StateOK
<1>s. ASSUME NEW i, task' = [task EXCEPT ![c].pc = "send", ![c].at = i]
      PROVE  /\ task'[c].pc = "send" /\ task'[c].at = i /\ task'[c].actor = task[c].actor
             /\ task'[c].op = task[c].op
             /\ task'[c].scored = task[c].scored /\ task'[c].next = task[c].next
  <2>1. task'[c] = [task[c] EXCEPT !.pc = "send", !.at = i]
    BY <1>0, <1>s
  <2>2. QED
    BY <1>0, <2>1 DEF Locals
<1>1. ASSUME SelectBySticky(c)
      PROVE  /\ task[c].pc = "sticky" /\ task'[c].actor = task[c].actor
             /\ task'[c].op = task[c].op
             /\ task'[c].scored = task[c].scored /\ task'[c].next = task[c].next
             /\ \/ /\ IsAvailable(metrics[task[c].actor][task[c].sticky].health)
                   /\ task'[c].pc = "send" /\ task'[c].at = task[c].sticky
                \/ task'[c].pc = "scan" /\ task'[c].at = task[c].at
  <2>1. task' = [task EXCEPT ![c].pc = "scan"] => Goes(c, "scan")
    BY Gone DEF Goto
  <2>2. QED
    BY <1>1, <1>s, <2>1 DEF SelectBySticky, Goes, SameCall
<1>2. ASSUME Score(c)
      PROVE  /\ task[c].pc = "scan" /\ task'[c].pc = "scan" /\ task[c].next < Endpoints
             /\ task'[c].actor = task[c].actor /\ task'[c].op = task[c].op
             /\ task'[c].at = task[c].at /\ task'[c].next = task[c].next + 1
             /\ task'[c].scored = IF IsAvailable(metrics[task[c].actor][task[c].next].health)
                                  THEN task[c].scored \cup {task[c].next} ELSE task[c].scored
  <2> DEFINE scored == IF IsAvailable(metrics[task[c].actor][task[c].next].health)
                       THEN task[c].scored \cup {task[c].next} ELSE task[c].scored
  <2>1. /\ task[c].pc = "scan" /\ task[c].next < Endpoints
        /\ task' = [task EXCEPT ![c].next = task[c].next + 1, ![c].scored = scored]
    BY <1>2 DEF Score
  <2> HIDE DEF scored
  <2>2. task'[c] = [task[c] EXCEPT !.next = task[c].next + 1, !.scored = scored]
    BY <1>0, <2>1
  <2>3. task'[c].pc = "scan" /\ task'[c].actor = task[c].actor /\ task'[c].op = task[c].op
    BY <1>0, <2>1, <2>2 DEF Locals
  <2>4. task'[c].at = task[c].at /\ task'[c].next = task[c].next + 1 /\ task'[c].scored = scored
    BY <1>0, <2>1, <2>2 DEF Locals
  <2>5. QED
    BY <2>1, <2>3, <2>4 DEF scored
<1>3. ASSUME SelectByWeightedScore(c)
      PROVE  /\ task[c].pc = "scan" /\ task[c].next = Endpoints
             /\ \E i \in Choices(task[c].scored) :
                    \/ task[c].op = "pick" /\ Ends(c)
                    \/ /\ task[c].op = "call" /\ task'[c].op = "call"
                       /\ task'[c].pc = "send" /\ task'[c].at = i /\ task'[c].actor = task[c].actor
                       /\ task'[c].scored = task[c].scored /\ task'[c].next = task[c].next
  <2>1. ASSUME NEW i, task' = [task EXCEPT ![c] = [Idle EXCEPT !.sticky = i]] PROVE Ends(c)
    BY <1>0, <2>1 DEF Ends, Idle
  <2>2. QED
    BY <1>3, <1>s, <2>1 DEF SelectByWeightedScore
<1>4. QED
  BY <1>1, <1>2, <1>3

\* update_health_status loads the counters of the endpoint of the call.
LEMMA LoadMoves ==
    ASSUME StateOK, PlaceOK, NEW c \in Caller
    PROVE  LET m == metrics[task[c].actor][task[c].at] IN
           /\ LoadRequests(c) =>
                /\ task[c].pc = "load_requests" /\ SameCall(c)
                /\ task'[c].requests = m.requests /\ task'[c].health = "healthy"
                /\ task'[c].pc = IF m.requests < MinRequests THEN "store" ELSE "load_errors"
           /\ LoadErrors(c) =>
                /\ task[c].pc = "load_errors" /\ Goes(c, "store")
                /\ task'[c].health = NewHealth(m.errors, task[c].requests)
<1> DEFINE m == metrics[task[c].actor][task[c].at]
           pc == IF m.requests < MinRequests THEN "store" ELSE "load_errors"
           new == NewHealth(m.errors, task[c].requests)
<1>0. task \in [Caller -> Locals] /\ task[c] \in Locals
  BY DEF StateOK
<1>1. LoadRequests(c) =>
        /\ task[c].pc = "load_requests"
        /\ task' = [task EXCEPT ![c].requests = m.requests, ![c].health = "healthy", ![c].pc = pc]
  BY DEF LoadRequests
<1>2. LoadErrors(c) =>
        /\ task[c].pc = "load_errors"
        /\ task' = [task EXCEPT ![c].health = new, ![c].pc = "store"]
  BY DEF LoadErrors
<1> HIDE DEF pc, new
<1>3. ASSUME LoadRequests(c)
      PROVE  /\ SameCall(c) /\ task'[c].pc = pc
             /\ task'[c].requests = m.requests /\ task'[c].health = "healthy"
  <2>1. task'[c] = [task[c] EXCEPT !.requests = m.requests, !.health = "healthy", !.pc = pc]
    BY <1>0, <1>1, <1>3
  <2>2. QED
    BY <1>0, <2>1 DEF SameCall, Locals
<1>4. ASSUME LoadErrors(c) PROVE Goes(c, "store") /\ task'[c].health = new
  <2>1. task'[c] = [task[c] EXCEPT !.health = new, !.pc = "store"]
    BY <1>0, <1>2, <1>4
  <2>2. QED
    BY <1>0, <2>1 DEF Goes, SameCall, Locals
<1>5. QED
  BY <1>1, <1>2, <1>3, <1>4 DEF pc, new

Counted == {"count_error", "count_request", "store"}

\* One counter, or the health, of the endpoint of the call changes.
Bumped(c, a, i) ==
    LET m == metrics[a][i]
        n == metrics'[a][i]
        here == task[c].actor = a /\ task[c].at = i
    IN
    /\ n \in Counters
    /\ n.errors = IF here /\ task[c].pc = "count_error" THEN m.errors + 1 ELSE m.errors
    /\ n.requests = IF here /\ task[c].pc = "count_request" THEN m.requests + 1 ELSE m.requests
    /\ n.health = IF here /\ task[c].pc = "store" THEN task[c].health ELSE m.health

\* The metrics after a step.
LEMMA MetricsMoves ==
    ASSUME StateOK, PlaceOK, NEW c \in Caller, Acts(c)
    PROVE  /\ metrics' \in [Actor -> [Index -> Counters]]
           /\ \A a \in Actor : \A i \in Index : Bumped(c, a, i)
<1> DEFINE act == task[c].actor
           at == task[c].at
<1>0. /\ metrics \in [Actor -> [Index -> Counters]]
      /\ act \in Actor /\ task[c].health \in Health
      /\ task[c].pc \in Counted => at \in Index
  BY DEF StateOK, PlaceOK, Placed, Locals, Recording, Counted
<1>1. CASE CountError(c)
  <2> HIDE DEF act, at
  <2> DEFINE bumped == [metrics[act][at] EXCEPT !.errors = metrics[act][at].errors + 1]
  <2>1. /\ task[c].pc = "count_error" /\ at \in Index
        /\ metrics' = [metrics EXCEPT ![act][at] = bumped]
    <3>1. task[c].pc = "count_error" /\ metrics' = [metrics EXCEPT ![act][at].errors = @ + 1]
      BY <1>1 DEF CountError, act, at
    <3>2. QED
      BY <1>0, <3>1 DEF Counted
  <2>2. bumped \in Counters
    BY <1>0, <2>1 DEF Counters
  <2>3. metrics' \in [Actor -> [Index -> Counters]]
    BY <1>0, <2>1, <2>2
  <2>4. ASSUME NEW a \in Actor, NEW i \in Index
        PROVE  metrics'[a][i] = IF act = a /\ at = i THEN bumped
                                ELSE metrics[a][i]
    BY <1>0, <2>1
  <2>5. ASSUME NEW a \in Actor, NEW i \in Index PROVE Bumped(c, a, i)
    <3>1. metrics'[a][i] \in Counters /\ metrics[a][i] \in Counters
      BY <1>0, <2>3
    <3>2. QED
      BY <2>1, <2>4, <3>1 DEF Bumped, Counters, act, at
  <2>6. QED
    BY <2>3, <2>5
<1>2. CASE CountRequest(c)
  <2> HIDE DEF act, at
  <2> DEFINE bumped == [metrics[act][at] EXCEPT !.requests = metrics[act][at].requests + 1]
  <2>1. /\ task[c].pc = "count_request" /\ at \in Index
        /\ metrics' = [metrics EXCEPT ![act][at] = bumped]
    <3>1. task[c].pc = "count_request" /\ metrics' = [metrics EXCEPT ![act][at].requests = @ + 1]
      BY <1>2 DEF CountRequest, act, at
    <3>2. QED
      BY <1>0, <3>1 DEF Counted
  <2>2. bumped \in Counters
    BY <1>0, <2>1 DEF Counters
  <2>3. metrics' \in [Actor -> [Index -> Counters]]
    BY <1>0, <2>1, <2>2
  <2>4. ASSUME NEW a \in Actor, NEW i \in Index
        PROVE  metrics'[a][i] = IF act = a /\ at = i THEN bumped
                                ELSE metrics[a][i]
    BY <1>0, <2>1
  <2>5. ASSUME NEW a \in Actor, NEW i \in Index PROVE Bumped(c, a, i)
    <3>1. metrics'[a][i] \in Counters /\ metrics[a][i] \in Counters
      BY <1>0, <2>3
    <3>2. QED
      BY <2>1, <2>4, <3>1 DEF Bumped, Counters, act, at
  <2>6. QED
    BY <2>3, <2>5
<1>3. CASE StoreHealth(c)
  <2> HIDE DEF act, at
  <2>1. /\ task[c].pc = "store" /\ at \in Index
        /\ metrics' = [metrics EXCEPT ![act][at] = [@ EXCEPT !.health = task[c].health]]
    <3>1. task[c].pc = "store" /\ metrics' = [metrics EXCEPT ![act][at].health = task[c].health]
      BY <1>3 DEF StoreHealth, act, at
    <3>2. QED
      BY <1>0, <3>1 DEF Counted
  <2>2. [metrics[act][at] EXCEPT !.health = task[c].health] \in Counters
    BY <1>0, <2>1 DEF Counters
  <2>3. metrics' \in [Actor -> [Index -> Counters]]
    BY <1>0, <2>1, <2>2
  <2>4. ASSUME NEW a \in Actor, NEW i \in Index
        PROVE  metrics'[a][i] = IF act = a /\ at = i
                                THEN [metrics[a][i] EXCEPT !.health = task[c].health]
                                ELSE metrics[a][i]
    BY <1>0, <2>1
  <2>5. ASSUME NEW a \in Actor, NEW i \in Index PROVE Bumped(c, a, i)
    <3>1. metrics'[a][i] \in Counters /\ metrics[a][i] \in Counters
      BY <1>0, <2>3
    <3>2. QED
      BY <2>1, <2>4, <3>1 DEF Bumped, Counters, act, at
  <2>6. QED
    BY <2>3, <2>5
<1>4. ASSUME ~CountError(c), ~CountRequest(c), ~StoreHealth(c)
      PROVE  metrics' = metrics /\ task[c].pc \notin Counted
  BY <1>4 DEF Acts, Step, AcquireHealthyEndpoint, ExecuteUnary, EndSession, SelectBySticky, Score,
              SelectByWeightedScore, Answered, Hangs, LoadRequests, LoadErrors, Counted
<1>5. CASE metrics' = metrics /\ task[c].pc \notin Counted
  <2>1. ASSUME NEW a \in Actor, NEW i \in Index PROVE metrics[a][i] \in Counters
    BY <1>0
  <2>2. QED
    BY <1>0, <1>5, <2>1 DEF Bumped, Counted
<1>6. QED
  BY <1>1, <1>2, <1>3, <1>4, <1>5

\* The permit after a step: it is taken, given back, or stays where it is.
LEMMA PermitMoves ==
    ASSUME StateOK, PlaceOK, NEW c \in Caller, Acts(c)
    PROVE  \/ /\ task[c].pc = "idle" /\ task'[c].pc # "idle" /\ permits[task'[c].actor] > 0
              /\ permits' = [permits EXCEPT ![task'[c].actor] = @ - 1]
           \/ /\ task[c].pc # "idle" /\ task'[c].pc = "idle"
              /\ permits' = [permits EXCEPT ![task[c].actor] = @ + 1]
           \/ /\ permits' = permits
              /\ task[c].pc = "idle" /\ task'[c].pc = "idle"
           \/ /\ permits' = permits
              /\ task[c].pc # "idle" /\ task'[c].pc # "idle" /\ task'[c].actor = task[c].actor
<1> USE TaskMoves, SelectMoves, LoadMoves, IndexFacts
<1>1. CASE AcquireHealthyEndpoint(c) \/ \E a \in Actor : ExecuteUnary(c, a)
  BY <1>1 DEF AcquireHealthyEndpoint, ExecuteUnary, Begin, Take, Begins
<1>2. CASE EndSession(c)
  BY <1>2 DEF EndSession, Ends
<1>3. CASE SelectBySticky(c) \/ Score(c)
  BY <1>3 DEF SelectBySticky, Score
<1>4. CASE SelectByWeightedScore(c)
  BY <1>4 DEF SelectByWeightedScore, Drop, Ends
<1>5. CASE Answered(c) \/ Hangs(c) \/ CountError(c) \/ CountRequest(c)
  BY <1>5 DEF Answered, Hangs, CountError, CountRequest, Goes, SameCall
<1>6. CASE LoadRequests(c) \/ LoadErrors(c)
  BY <1>6 DEF LoadRequests, LoadErrors, Goes, SameCall
<1>7. CASE StoreHealth(c)
  BY <1>7 DEF StoreHealth, Drop, Ends
<1>8. QED
  BY <1>1, <1>2, <1>3, <1>4, <1>5, <1>6, <1>7 DEF Acts, Step

Histories == [up : SUBSET Index, down : SUBSET Index]

\* What was steady for the other tasks and is not any more is left out of their history.
Shrinks(d) == steady'[d].up \subseteq steady[d].up /\ steady'[d].down \subseteq steady[d].down

\* The histories after a step.
LEMMA SteadyMoves ==
    ASSUME StateOK, PlaceOK, NEW c \in Caller, Acts(c)
    PROVE  /\ steady' \in [Caller -> Histories]
           /\ \A d \in Caller : d # c => Shrinks(d)
           /\ \/ /\ task[c].pc = "idle" /\ task'[c].pc # "idle"
                 /\ LET a == task'[c].actor IN
                    steady'[c] = [up |-> Available(a), down |-> Index \ Available(a)]
              \/ steady'[c] = NoHistory
              \/ /\ steady'[c] = steady[c]
                 /\ task[c].pc = "idle" /\ task'[c].pc = "idle"
              \/ /\ steady'[c] = steady[c] /\ task'[c].actor = task[c].actor
                 /\ task'[c].pc \notin {"idle", "hung"}
<1> USE TaskMoves, SelectMoves, LoadMoves, IndexFacts
<1>0. steady \in [Caller -> Histories] /\ NoHistory \in Histories
  BY DEF StateOK, Histories, NoHistory
<1>s. ASSUME steady' = steady PROVE steady' \in [Caller -> Histories] /\ \A d \in Caller : Shrinks(d)
  BY <1>0, <1>s DEF Shrinks
<1>o. ASSUME NEW h \in Histories, steady' = [steady EXCEPT ![c] = h]
      PROVE  /\ steady' \in [Caller -> Histories] /\ steady'[c] = h
             /\ \A d \in Caller : d # c => Shrinks(d)
  BY <1>0, <1>o DEF Shrinks
<1>1. CASE AcquireHealthyEndpoint(c) \/ \E a \in Actor : ExecuteUnary(c, a)
  <2>1. PICK a \in Actor :
          /\ task[c].pc = "idle" /\ task'[c].pc # "idle" /\ task'[c].actor = a
          /\ steady' = [steady EXCEPT ![c] = [up |-> Available(a), down |-> Index \ Available(a)]]
    BY <1>1 DEF AcquireHealthyEndpoint, ExecuteUnary, Begin, Begins
  <2>2. [up |-> Available(a), down |-> Index \ Available(a)] \in Histories
    BY DEF Available, Histories
  <2>3. QED
    BY <1>o, <2>1, <2>2
<1>2. CASE EndSession(c)
  BY <1>2, <1>s DEF EndSession, Ends
<1>3. CASE SelectBySticky(c) \/ Score(c)
  BY <1>3, <1>s DEF SelectBySticky, Score
<1>4. CASE SelectByWeightedScore(c)
  <2>1. \/ steady' = steady /\ task'[c].actor = task[c].actor /\ task'[c].pc = "send"
        \/ steady' = [steady EXCEPT ![c] = NoHistory]
    BY <1>4 DEF SelectByWeightedScore
  <2>2. QED
    BY <1>0, <1>s, <1>o, <2>1
<1>5. CASE Answered(c) \/ CountError(c) \/ CountRequest(c)
  BY <1>5, <1>s DEF Answered, CountError, CountRequest, Goes, SameCall
<1>6. CASE Hangs(c)
  BY <1>0, <1>o, <1>6 DEF Hangs
<1>7. CASE LoadRequests(c) \/ LoadErrors(c)
  BY <1>7, <1>s DEF LoadRequests, LoadErrors, Goes, SameCall
<1>8. CASE StoreHealth(c)
  <2> DEFINE after(d) == Changed(d, task[c].actor, task[c].at, task[c].health)
  <2>1. steady' = [d \in Caller |-> IF d = c THEN NoHistory ELSE after(d)]
    BY <1>8 DEF StoreHealth
  <2>2. ASSUME NEW d \in Caller
        PROVE  /\ after(d) \in Histories
               /\ after(d).up \subseteq steady[d].up /\ after(d).down \subseteq steady[d].down
    <3>1. steady[d].up \subseteq Index /\ steady[d].down \subseteq Index /\ steady[d] \in Histories
      BY <1>0 DEF Histories
    <3>2. QED
      BY <3>1 DEF Changed, Histories
  <2> HIDE DEF after
  <2>3. \A d \in Caller : d # c => Shrinks(d)
    BY <2>1, <2>2 DEF Shrinks
  <2>4. QED
    BY <1>0, <2>1, <2>2, <2>3
<1>9. QED
  BY <1>1, <1>2, <1>3, <1>4, <1>5, <1>6, <1>7, <1>8 DEF Acts, Step

\* A call is counted when it begins, and at no other time.
LEMMA CallMoves ==
    ASSUME StateOK, NEW c \in Caller, Acts(c)
    PROVE  \/ \E a \in Actor : ExecuteUnary(c, a) /\ calls < MaxCalls /\ calls' = calls + 1
           \/ (~\E a \in Actor : ExecuteUnary(c, a)) /\ calls' = calls
<1>1. CASE \E a \in Actor : ExecuteUnary(c, a)
  BY <1>1 DEF ExecuteUnary
<1>2. CASE ~\E a \in Actor : ExecuteUnary(c, a)
  BY <1>2 DEF Acts, Step, AcquireHealthyEndpoint, EndSession, SelectBySticky, Score,
              SelectByWeightedScore, Answered, Hangs, LoadRequests, LoadErrors, CountError,
              CountRequest, StoreHealth
<1>3. QED
  BY <1>1, <1>2

\* Every step keeps the types, and an endpoint with every task that has chosen one.
LEMMA StateKept ==
    ASSUME StateOK, PlaceOK, [Next]_vars
    PROVE  StateOK' /\ PlaceOK'
<1>1. CASE UNCHANGED vars
  BY <1>1 DEF StateOK, PlaceOK, vars
<1>2. ASSUME NEW c \in Caller, Acts(c) PROVE StateOK' /\ PlaceOK'
  <2>1. task' \in [Caller -> Locals] /\ PlaceOK'
    BY <1>2, TaskKept
  <2>2. metrics' \in [Actor -> [Index -> Counters]]
    BY <1>2, MetricsMoves
  <2>3. permits' \in [Actor -> Nat]
    <3>1. permits \in [Actor -> Nat]
      BY DEF StateOK
    <3>2. QED
      BY <1>2, <3>1, PermitMoves
  <2>4. calls' \in 0..MaxCalls
    BY <1>2, CallMoves, RpcAssumption DEF StateOK
  <2>5. steady' \in [Caller -> Histories]
    BY <1>2, SteadyMoves
  <2>6. QED
    BY <2>1, <2>2, <2>3, <2>4, <2>5 DEF StateOK, Histories
<1>3. QED
  BY <1>1, <1>2 DEF Next, Acts

-----------------------------------------------------------------------------
(* Counting tasks *)

\* A set of tasks after a step that moves only task c.
LEMMA CountMoves ==
    ASSUME NEW c \in Caller, NEW S, NEW T, S \subseteq Caller, T \subseteq Caller,
           \A d \in Caller : d # c => (d \in S <=> d \in T)
    PROVE  /\ Cardinality(S) \in Nat /\ Cardinality(T) \in Nat
           /\ c \in T /\ c \notin S => Cardinality(T) = Cardinality(S) + 1
           /\ c \in S /\ c \notin T => Cardinality(T) = Cardinality(S) - 1
           /\ (c \in S <=> c \in T) => Cardinality(T) = Cardinality(S)
<1>1. IsFiniteSet(S) /\ IsFiniteSet(T)
  BY RpcAssumption, FS_Subset
<1>2. Cardinality(S) \in Nat /\ Cardinality(T) \in Nat
  BY <1>1, FS_CardinalityType
<1>3. ASSUME c \in T, c \notin S PROVE Cardinality(T) = Cardinality(S) + 1
  <2>1. T = S \cup {c}
    BY <1>3
  <2>2. QED
    BY <1>1, <1>3, <2>1, FS_AddElement
<1>4. ASSUME c \in S, c \notin T PROVE Cardinality(T) = Cardinality(S) - 1
  <2>1. S = T \cup {c}
    BY <1>4
  <2>2. Cardinality(S) = Cardinality(T) + 1
    BY <1>1, <1>4, <2>1, FS_AddElement
  <2>3. QED
    BY <1>2, <2>2
<1>5. (c \in S <=> c \in T) => T = S
  OBVIOUS
<1>6. QED
  BY <1>2, <1>3, <1>4, <1>5

Busy(a) == {c \in Caller : task[c].pc # "idle" /\ task[c].actor = a}

\* A permit is taken by one task and given back by the same one.
LEMMA PermitsKept ==
    ASSUME StateOK, PlaceOK, PermitsConserved, NEW c \in Caller, Acts(c)
    PROVE  PermitsConserved'
<1> SUFFICES ASSUME NEW a \in Actor
             PROVE  permits'[a] + Cardinality(Busy(a)') = Concurrency
  BY DEF PermitsConserved, Busy
<1>0. permits[a] + Cardinality(Busy(a)) = Concurrency /\ Concurrency \in Nat
  BY RpcAssumption DEF PermitsConserved, Busy
<1>1. /\ \A d \in Caller : d # c => (d \in Busy(a) <=> d \in Busy(a)')
      /\ Busy(a) \subseteq Caller /\ Busy(a)' \subseteq Caller
  BY TaskKept DEF Elsewhere, Busy
<1>2. permits \in [Actor -> Nat] /\ permits[a] \in Nat /\ task[c].actor \in Actor
  BY DEF StateOK, Locals
<1>3. task'[c].actor \in Actor
  BY TaskKept DEF Locals
<1>4. /\ c \in Busy(a) <=> task[c].pc # "idle" /\ task[c].actor = a
      /\ c \in Busy(a)' <=> task'[c].pc # "idle" /\ task'[c].actor = a
  BY DEF Busy
<1> DEFINE S == Busy(a)
           T == Busy(a)'
<1> HIDE DEF S, T
<1>5. /\ Cardinality(S) \in Nat /\ Cardinality(T) \in Nat
      /\ c \in T /\ c \notin S => Cardinality(T) = Cardinality(S) + 1
      /\ c \in S /\ c \notin T => Cardinality(T) = Cardinality(S) - 1
      /\ (c \in S <=> c \in T) => Cardinality(T) = Cardinality(S)
  <2>1. \A d \in Caller : d # c => (d \in S <=> d \in T)
    BY <1>1 DEF S, T
  <2>2. S \subseteq Caller /\ T \subseteq Caller
    BY <1>1 DEF S, T
  <2>3. QED
    BY <2>1, <2>2, CountMoves
<1>6. /\ c \in S <=> task[c].pc # "idle" /\ task[c].actor = a
      /\ c \in T <=> task'[c].pc # "idle" /\ task'[c].actor = a
  BY <1>4 DEF S, T
<1>7. permits[a] + Cardinality(S) = Concurrency
  BY <1>0 DEF S
<1>8. permits'[a] + Cardinality(T) = Concurrency
  BY <1>0, <1>2, <1>3, <1>5, <1>6, <1>7, PermitMoves
<1>9. QED
  BY <1>8 DEF T

-----------------------------------------------------------------------------
(* The two counters *)

\* The calls whose request, and whose error, has not been counted yet.
Due == {c \in Caller : /\ task[c].op = "call"
                       /\ task[c].pc \in {"sticky", "scan", "send", "count_error", "count_request"}}

DueError == {c \in Due : task[c].pc # "count_request"}

\* A request, or an error, is counted of a call that has begun, so there are no more.
CallsInv ==
    \A a \in Actor : \A i \in Index :
        /\ metrics[a][i].requests + Cardinality(Due) <= calls
        /\ metrics[a][i].errors + Cardinality(DueError) <= calls

\* A task joins the calls that are due when it begins one, and leaves them when it counts.
LEMMA DueMoves ==
    ASSUME StateOK, PlaceOK, NEW c \in Caller, Acts(c)
    PROVE  /\ c \in Due' /\ c \notin Due => \E a \in Actor : ExecuteUnary(c, a)
           /\ c \in DueError' /\ c \notin DueError => \E a \in Actor : ExecuteUnary(c, a)
           /\ task[c].pc = "count_request" => c \in Due /\ c \notin Due'
           /\ task[c].pc = "count_error" => c \in DueError /\ c \notin DueError'
           /\ (\E a \in Actor : ExecuteUnary(c, a)) => task[c].pc = "idle"
<1> USE TaskMoves, SelectMoves, LoadMoves DEF Due, DueError
<1>0. Placed(task[c])
  BY DEF PlaceOK
<1>1. CASE AcquireHealthyEndpoint(c) \/ \E a \in Actor : ExecuteUnary(c, a)
  BY <1>1 DEF Begins
<1>2. CASE EndSession(c) \/ StoreHealth(c)
  BY <1>2 DEF Ends, ExecuteUnary
<1>3. CASE SelectBySticky(c) \/ Score(c)
  BY <1>0, <1>3 DEF Placed, ExecuteUnary
<1>4. CASE SelectByWeightedScore(c)
  BY <1>0, <1>4 DEF Placed, Ends, ExecuteUnary
<1>5. CASE Answered(c) \/ Hangs(c) \/ CountError(c) \/ CountRequest(c)
  BY <1>0, <1>5 DEF Placed, Goes, SameCall, Recording, ExecuteUnary
<1>6. CASE LoadRequests(c) \/ LoadErrors(c)
  BY <1>6 DEF Goes, SameCall, ExecuteUnary
<1>7. QED
  BY <1>1, <1>2, <1>3, <1>4, <1>5, <1>6 DEF Acts, Step

\* Every step keeps the bound that the calls of a task put on the counters.
LEMMA CallsKept ==
    ASSUME StateOK, PlaceOK, CallsInv, NEW c \in Caller, Acts(c)
    PROVE  CallsInv'
<1> DEFINE S == Due  T == Due'  SE == DueError  TE == DueError'
<1>1. /\ \A d \in Caller : d # c => (d \in S <=> d \in T)
      /\ \A d \in Caller : d # c => (d \in SE <=> d \in TE)
      /\ S \subseteq Caller /\ T \subseteq Caller /\ SE \subseteq Caller /\ TE \subseteq Caller
  BY TaskKept DEF Elsewhere, Due, DueError
<1>2. /\ c \in T /\ c \notin S => \E a \in Actor : ExecuteUnary(c, a)
      /\ c \in TE /\ c \notin SE => \E a \in Actor : ExecuteUnary(c, a)
      /\ task[c].pc = "count_request" => c \in S /\ c \notin T
      /\ task[c].pc = "count_error" => c \in SE /\ c \notin TE
      /\ (\E a \in Actor : ExecuteUnary(c, a)) => task[c].pc = "idle"
  BY DueMoves
<1>i. ASSUME NEW a \in Actor, NEW i \in Index
      PROVE  /\ metrics[a][i].requests + Cardinality(S) <= calls
             /\ metrics[a][i].errors + Cardinality(SE) <= calls
  BY DEF CallsInv
<1>g. SUFFICES ASSUME NEW a \in Actor, NEW i \in Index
               PROVE  /\ metrics'[a][i].requests + Cardinality(T) <= calls'
                      /\ metrics'[a][i].errors + Cardinality(TE) <= calls'
  BY DEF CallsInv
<1> HIDE DEF S, T, SE, TE
<1>3. /\ Cardinality(S) \in Nat /\ Cardinality(T) \in Nat
      /\ c \in T /\ c \notin S => Cardinality(T) = Cardinality(S) + 1
      /\ c \in S /\ c \notin T => Cardinality(T) = Cardinality(S) - 1
      /\ (c \in S <=> c \in T) => Cardinality(T) = Cardinality(S)
  BY <1>1, CountMoves
<1>4. /\ Cardinality(SE) \in Nat /\ Cardinality(TE) \in Nat
      /\ c \in TE /\ c \notin SE => Cardinality(TE) = Cardinality(SE) + 1
      /\ c \in SE /\ c \notin TE => Cardinality(TE) = Cardinality(SE) - 1
      /\ (c \in SE <=> c \in TE) => Cardinality(TE) = Cardinality(SE)
  BY <1>1, CountMoves
<1>5. /\ metrics[a][i].requests \in Nat /\ metrics[a][i].errors \in Nat /\ calls \in Nat
      /\ metrics'[a][i].requests \in Nat /\ metrics'[a][i].errors \in Nat
  <2>1. metrics[a][i] \in Counters
    <3>1. metrics \in [Actor -> [Index -> Counters]]
      BY DEF StateOK
    <3>2. QED
      BY <3>1
  <2>2. metrics'[a][i] \in Counters
    BY MetricsMoves
  <2>3. calls \in Nat
    BY RpcAssumption DEF StateOK
  <2>4. QED
    BY <2>1, <2>2, <2>3 DEF Counters
<1>6. /\ metrics'[a][i].requests = metrics[a][i].requests
            \/ (metrics'[a][i].requests = metrics[a][i].requests + 1 /\ task[c].pc = "count_request")
      /\ metrics'[a][i].errors = metrics[a][i].errors
            \/ (metrics'[a][i].errors = metrics[a][i].errors + 1 /\ task[c].pc = "count_error")
  BY MetricsMoves DEF Bumped
<1>7. CASE \E b \in Actor : ExecuteUnary(c, b)
  <2>1. calls' = calls + 1
    BY <1>7, CallMoves
  <2>2. metrics'[a][i].requests = metrics[a][i].requests /\ metrics'[a][i].errors = metrics[a][i].errors
    BY <1>2, <1>6, <1>7
  <2>3. Cardinality(T) <= Cardinality(S) + 1 /\ Cardinality(TE) <= Cardinality(SE) + 1
    BY <1>3, <1>4
  <2>4. QED
    BY <1>i, <1>3, <1>4, <1>5, <2>1, <2>2, <2>3
<1>8. CASE ~\E b \in Actor : ExecuteUnary(c, b)
  <2>1. calls' = calls
    BY <1>8, CallMoves
  <2>2. metrics'[a][i].requests + Cardinality(T) <= calls
    BY <1>i, <1>2, <1>3, <1>5, <1>6, <1>8
  <2>3. metrics'[a][i].errors + Cardinality(TE) <= calls
    BY <1>i, <1>2, <1>4, <1>5, <1>6, <1>8
  <2>4. QED
    BY <2>1, <2>2, <2>3
<1>9. QED
  BY <1>7, <1>8

\* The task that is between its two increments, on endpoint i of actor a.
LEMMA BetweenMoves ==
    ASSUME StateOK, PlaceOK, NEW c \in Caller, Acts(c), NEW a \in Actor, NEW i \in Index
    PROVE  LET S == On(a, i, {"count_request"}) IN
           /\ c \in S => task[c].pc = "count_request" /\ c \notin S'
           /\ task[c].pc = "count_error" /\ task[c].actor = a /\ task[c].at = i =>
                c \notin S /\ c \in S'
<1> USE TaskMoves, SelectMoves, LoadMoves DEF On
<1>1. CASE task[c].pc = "count_request"
  <2>1. CountRequest(c)
    BY <1>1 DEF Acts, Step, AcquireHealthyEndpoint, ExecuteUnary, EndSession, SelectBySticky, Score,
                SelectByWeightedScore, Answered, Hangs, CountError, LoadRequests, LoadErrors, StoreHealth
  <2>2. QED
    BY <1>1, <2>1 DEF Goes
<1>2. CASE task[c].pc = "count_error"
  <2>1. CountError(c)
    BY <1>2 DEF Acts, Step, AcquireHealthyEndpoint, ExecuteUnary, EndSession, SelectBySticky, Score,
                SelectByWeightedScore, Answered, Hangs, CountRequest, LoadRequests, LoadErrors, StoreHealth
  <2>2. QED
    BY <1>2, <2>1 DEF Goes, SameCall
<1>3. QED
  BY <1>1, <1>2

\* Every step keeps the errors of an endpoint within its requests, counted or about to be.
LEMMA ErrorsKept ==
    ASSUME StateOK, PlaceOK, ErrorsAreRequests, NEW c \in Caller, Acts(c)
    PROVE  ErrorsAreRequests'
<1> SUFFICES ASSUME NEW a \in Actor, NEW i \in Index
             PROVE  metrics'[a][i].errors <=
                        metrics'[a][i].requests + Cardinality(On(a, i, {"count_request"})')
  BY DEF ErrorsAreRequests
<1> DEFINE S == On(a, i, {"count_request"})  T == On(a, i, {"count_request"})'
<1>0. metrics[a][i].errors <= metrics[a][i].requests + Cardinality(S)
  BY DEF ErrorsAreRequests
<1>1. /\ \A d \in Caller : d # c => (d \in S <=> d \in T)
      /\ S \subseteq Caller /\ T \subseteq Caller
  BY TaskKept DEF Elsewhere, On
<1>2. /\ c \in S => task[c].pc = "count_request" /\ c \notin T
      /\ task[c].pc = "count_error" /\ task[c].actor = a /\ task[c].at = i => c \notin S /\ c \in T
  BY BetweenMoves
<1>3. c \in S <=> task[c].pc = "count_request" /\ task[c].actor = a /\ task[c].at = i
  BY DEF On
<1> HIDE DEF S, T
<1>4. /\ Cardinality(S) \in Nat /\ Cardinality(T) \in Nat
      /\ c \in T /\ c \notin S => Cardinality(T) = Cardinality(S) + 1
      /\ c \in S /\ c \notin T => Cardinality(T) = Cardinality(S) - 1
      /\ (c \in S <=> c \in T) => Cardinality(T) = Cardinality(S)
  BY <1>1, CountMoves
<1>5. metrics[a][i] \in Counters /\ metrics'[a][i] \in Counters
  <2>1. metrics \in [Actor -> [Index -> Counters]]
    BY DEF StateOK
  <2>2. QED
    BY <2>1, MetricsMoves
<1>6. /\ metrics[a][i].requests \in Nat /\ metrics[a][i].errors \in Nat
      /\ metrics'[a][i].requests \in Nat /\ metrics'[a][i].errors \in Nat
  BY <1>5 DEF Counters
<1>7. Bumped(c, a, i)
  BY MetricsMoves
<1>8. metrics'[a][i].errors <= metrics'[a][i].requests + Cardinality(T)
  BY <1>0, <1>2, <1>3, <1>4, <1>6, <1>7 DEF Bumped
<1>9. QED
  BY <1>8 DEF T

-----------------------------------------------------------------------------
(* The verdict of update_health_status *)

Verdict(m) == IF m.requests < MinRequests THEN "healthy" ELSE NewHealth(m.errors, m.requests)

\* A recording that began alone is alone as long as no other one begins, so that what it
\* loads and computes stays true of the counters until it stores its verdict.
AloneAt(a, i) ==
    <<a, i>> \notin overlap =>
        /\ \A c, d \in On(a, i, Recording) : c = d
        /\ On(a, i, Recording) = {} => metrics[a][i].health = Verdict(metrics[a][i])
        /\ \A c \in On(a, i, {"load_errors"}) :
            /\ task[c].requests = metrics[a][i].requests
            /\ metrics[a][i].requests >= MinRequests
        /\ \A c \in On(a, i, {"store"}) : task[c].health = Verdict(metrics[a][i])

Alone == \A a \in Actor : \A i \in Index : AloneAt(a, i)

\* A task records only after the answer to its call.
LEMMA RecordMoves ==
    ASSUME StateOK, PlaceOK, NEW c \in Caller, Acts(c), ~Answered(c)
    PROVE  /\ overlap' = overlap
           /\ task'[c].pc \in Recording => task[c].pc \in Recording /\ SameCall(c)
           /\ task[c].pc \in Recording =>
                CountError(c) \/ CountRequest(c) \/ LoadRequests(c) \/ LoadErrors(c) \/ StoreHealth(c)
<1> USE TaskMoves, SelectMoves, LoadMoves DEF Recording
<1>1. CASE AcquireHealthyEndpoint(c) \/ \E a \in Actor : ExecuteUnary(c, a)
  BY <1>1 DEF Begins, AcquireHealthyEndpoint, ExecuteUnary
<1>2. CASE EndSession(c) \/ StoreHealth(c)
  BY <1>2 DEF Ends, EndSession, StoreHealth
<1>3. CASE SelectBySticky(c) \/ Score(c)
  BY <1>3 DEF SelectBySticky, Score
<1>4. CASE SelectByWeightedScore(c)
  BY <1>4 DEF Ends, SelectByWeightedScore
<1>5. CASE Hangs(c) \/ CountError(c) \/ CountRequest(c)
  BY <1>5 DEF Goes, Hangs, CountError, CountRequest
<1>6. CASE LoadRequests(c) \/ LoadErrors(c)
  BY <1>6 DEF Goes, SameCall, LoadRequests, LoadErrors
<1>7. QED
  BY <1>1, <1>2, <1>3, <1>4, <1>5, <1>6 DEF Acts, Step

\* A recording no other overlaps keeps the loads it made equal to the counters.
LEMMA AloneKept ==
    ASSUME StateOK, PlaceOK, Alone, NEW c \in Caller, Acts(c)
    PROVE  Alone'
<1> SUFFICES ASSUME NEW a \in Actor, NEW i \in Index, <<a, i>> \notin overlap' PROVE AloneAt(a, i)'
  BY DEF Alone, AloneAt
<1> DEFINE here == task[c].actor = a /\ task[c].at = i
<1>0. AloneAt(a, i) /\ Bumped(c, a, i) /\ Elsewhere(c)
  BY MetricsMoves, TaskKept DEF Alone
<1>1. ASSUME here, Answered(c) PROVE AloneAt(a, i)'
  <2>1. On(a, i, Recording) = {}
    BY <1>1 DEF Answered
  <2>2. task'[c].pc \in {"count_request", "count_error"} /\ task'[c].actor = a /\ task'[c].at = i
    BY <1>1, TaskMoves DEF Goes, SameCall
  <2>3. /\ On(a, i, Recording)' = {c}
        /\ On(a, i, {"load_errors"})' = {} /\ On(a, i, {"store"})' = {}
    BY <1>0, <2>1, <2>2 DEF On, Elsewhere, Recording
  <2>4. QED
    BY <2>3 DEF AloneAt
<1>2. ASSUME ~(here /\ Answered(c)) PROVE <<a, i>> \notin overlap
  BY <1>2, RecordMoves DEF Answered
<1>3. ASSUME ~(here /\ Answered(c)), ~(here /\ task[c].pc \in Recording) PROVE AloneAt(a, i)'
  <2>1. metrics'[a][i].errors = metrics[a][i].errors /\ metrics'[a][i].requests = metrics[a][i].requests
        /\ metrics'[a][i].health = metrics[a][i].health
    BY <1>0, <1>3 DEF Bumped, Recording
  <2>2. c \notin On(a, i, Recording) /\ c \notin On(a, i, Recording)'
    <3>1. CASE Answered(c)
      BY <1>3, <3>1, TaskMoves DEF On, Goes, SameCall
    <3>2. CASE ~Answered(c)
      BY <1>3, <3>2, RecordMoves DEF On, SameCall
    <3>3. QED
      BY <3>1, <3>2
  <2>3. /\ On(a, i, Recording)' = On(a, i, Recording)
        /\ On(a, i, {"load_errors"})' = On(a, i, {"load_errors"})
        /\ On(a, i, {"store"})' = On(a, i, {"store"})
        /\ \A d \in On(a, i, Recording) : task'[d] = task[d]
    BY <1>0, <2>2 DEF On, Elsewhere, Recording
  <2>4. Verdict(metrics[a][i])' = Verdict(metrics[a][i])
    BY <2>1 DEF Verdict, NewHealth, RateAbove
  <2>5. \A d : d \in On(a, i, {"load_errors"}) \/ d \in On(a, i, {"store"}) => d \in On(a, i, Recording)
    BY DEF On, Recording
  <2>6. QED
    BY <1>0, <1>2, <1>3, <2>1, <2>3, <2>4, <2>5 DEF AloneAt
<1>4. ASSUME here, task[c].pc \in Recording, ~Answered(c) PROVE AloneAt(a, i)'
  <2>1. <<a, i>> \notin overlap
    BY <1>2, <1>4
  <2>2. c \in On(a, i, Recording) /\ \A d \in On(a, i, Recording) : d = c
    BY <1>0, <1>4, <2>1 DEF AloneAt, On
  <2>3. ASSUME NEW d \in Caller, d # c PROVE d \notin On(a, i, Recording)'
    BY <1>0, <2>2, <2>3 DEF On, Elsewhere
  <2>4. ASSUME NEW d, d \in On(a, i, Recording)' \/ d \in On(a, i, {"load_errors"})' \/ d \in On(a, i, {"store"})'
        PROVE  d = c
    BY <2>3, <2>4 DEF On, Recording
  <2>5. CASE CountError(c) \/ CountRequest(c)
    <3>1. task'[c].pc \in {"count_request", "load_requests"} /\ task'[c].actor = a /\ task'[c].at = i
      BY <1>4, <2>5, TaskMoves DEF Goes, SameCall
    <3>2. c \in On(a, i, Recording)' /\ c \notin On(a, i, {"load_errors"})' /\ c \notin On(a, i, {"store"})'
      BY <3>1 DEF On, Recording
    <3>3. QED
      BY <2>4, <3>2 DEF AloneAt
  <2>6. CASE LoadRequests(c)
    <3>1. /\ task[c].pc = "load_requests" /\ task'[c].actor = a /\ task'[c].at = i
          /\ task'[c].requests = metrics[a][i].requests /\ task'[c].health = "healthy"
          /\ task'[c].pc = IF metrics[a][i].requests < MinRequests THEN "store" ELSE "load_errors"
      BY <1>4, <2>6, LoadMoves DEF SameCall
    <3>2. /\ metrics'[a][i].errors = metrics[a][i].errors
          /\ metrics'[a][i].requests = metrics[a][i].requests /\ metrics'[a][i] \in Counters
      BY <1>0, <3>1 DEF Bumped
    <3>3. c \in On(a, i, Recording)'
      BY <3>1 DEF On, Recording
    <3>4. c \in On(a, i, {"load_errors"})' => metrics'[a][i].requests >= MinRequests
      BY <3>1, <3>2, RpcAssumption DEF On, Counters
    <3>5. c \in On(a, i, {"store"})' => task'[c].health = Verdict(metrics[a][i])'
      BY <3>1, <3>2 DEF On, Verdict
    <3>6. QED
      BY <2>4, <3>1, <3>2, <3>3, <3>4, <3>5 DEF AloneAt
  <2>7. CASE LoadErrors(c)
    <3>1. /\ task[c].pc = "load_errors" /\ task'[c].actor = a /\ task'[c].at = i /\ task'[c].pc = "store"
          /\ task'[c].health = NewHealth(metrics[a][i].errors, task[c].requests)
      BY <1>4, <2>7, LoadMoves DEF Goes, SameCall
    <3>2. /\ metrics'[a][i].errors = metrics[a][i].errors
          /\ metrics'[a][i].requests = metrics[a][i].requests /\ metrics'[a][i] \in Counters
      BY <1>0, <3>1 DEF Bumped
    <3>3. task[c].requests = metrics[a][i].requests /\ metrics[a][i].requests >= MinRequests
      BY <1>0, <1>4, <2>1, <3>1 DEF AloneAt, On
    <3>4. task'[c].health = Verdict(metrics[a][i])'
      BY <3>1, <3>2, <3>3, RpcAssumption DEF Verdict, Counters
    <3>5. c \in On(a, i, Recording)' /\ c \notin On(a, i, {"load_errors"})'
      BY <3>1 DEF On, Recording
    <3>6. QED
      BY <2>4, <3>4, <3>5 DEF AloneAt
  <2>8. CASE StoreHealth(c)
    <3>1. task[c].pc = "store" /\ task'[c].pc = "idle"
      BY <2>8, TaskMoves DEF Ends
    <3>2. /\ metrics'[a][i].errors = metrics[a][i].errors
          /\ metrics'[a][i].requests = metrics[a][i].requests /\ metrics'[a][i].health = task[c].health
      BY <1>0, <1>4, <3>1 DEF Bumped
    <3>3. task[c].health = Verdict(metrics[a][i])
      BY <1>0, <1>4, <2>1, <3>1 DEF AloneAt, On
    <3>4. metrics'[a][i].health = Verdict(metrics[a][i])'
      BY <3>2, <3>3 DEF Verdict
    <3>5. On(a, i, Recording)' = {} /\ On(a, i, {"load_errors"})' = {} /\ On(a, i, {"store"})' = {}
      BY <2>4, <3>1 DEF On, Recording
    <3>6. QED
      BY <3>4, <3>5 DEF AloneAt
  <2>9. QED
    BY <1>4, <2>5, <2>6, <2>7, <2>8, RecordMoves
<1>5. QED
  BY <1>1, <1>3, <1>4

\* The verdict orders the thresholds: what is above the higher one is above the lower one.
LEMMA VerdictOrder ==
    ASSUME NEW errors \in Nat, NEW requests \in Nat,
           RateAbove(errors, requests, UnhealthyPercent)
    PROVE  RateAbove(errors, requests, DegradedPercent)
<1>1. /\ DegradedPercent \in Nat /\ UnhealthyPercent \in Nat /\ DegradedPercent <= UnhealthyPercent
  BY RpcAssumption
<1>2. PICK k \in Nat : UnhealthyPercent = DegradedPercent + k
  <2>1. UnhealthyPercent - DegradedPercent \in Nat
    BY <1>1
  <2>2. QED
    BY <1>1, <2>1
<1>3. UnhealthyPercent * requests = DegradedPercent * requests + k * requests
  BY <1>1, <1>2
<1>4. k * requests >= 0 /\ k * requests \in Int
  BY <1>2
<1>5. QED
  BY <1>1, <1>3, <1>4 DEF RateAbove

\* A recording that was alone leaves the health that its thresholds ask for.
LEMMA AloneSettles == ASSUME StateOK, Alone PROVE HealthSettles
<1> SUFFICES ASSUME NEW a \in Actor, NEW i \in Index, On(a, i, Recording) = {}, <<a, i>> \notin overlap
             PROVE  LET m == metrics[a][i] IN
                    /\ m.health = "unhealthy" <=>
                        m.requests >= MinRequests /\ 100 * m.errors > UnhealthyPercent * m.requests
                    /\ m.health = "healthy" <=>
                        m.requests < MinRequests \/ 100 * m.errors <= DegradedPercent * m.requests
  BY DEF HealthSettles
<1> DEFINE m == metrics[a][i]
<1>0. m \in Counters
  <2>1. metrics \in [Actor -> [Index -> Counters]]
    BY DEF StateOK
  <2>2. QED
    BY <2>1
<1>1. m.health = Verdict(m)
  BY DEF Alone, AloneAt
<1> HIDE DEF m
<1>2. m.errors \in Nat /\ m.requests \in Nat /\ MinRequests \in Nat
  BY <1>0, RpcAssumption DEF Counters
<1>3. /\ m.health = "unhealthy" <=> m.requests >= MinRequests /\ RateAbove(m.errors, m.requests, UnhealthyPercent)
      /\ m.health = "healthy" <=> m.requests < MinRequests \/ ~RateAbove(m.errors, m.requests, DegradedPercent)
  BY <1>1, <1>2, VerdictOrder DEF Verdict, NewHealth
<1>4. /\ DegradedPercent * m.requests \in Int /\ UnhealthyPercent * m.requests \in Int
      /\ 100 * m.errors \in Int
  BY <1>2, RpcAssumption
<1>5. ~(100 * m.errors > DegradedPercent * m.requests) <=> 100 * m.errors <= DegradedPercent * m.requests
  BY <1>4
<1>6. QED
  BY <1>3, <1>5 DEF RateAbove, m

-----------------------------------------------------------------------------
(* The choice of an endpoint *)

\* The history of a task tells the truth about its actor's endpoints.
TrueHistory(c) ==
    /\ steady[c].up \subseteq Available(task[c].actor)
    /\ steady[c].down \cap Available(task[c].actor) = {}

\* The scan has kept every endpoint that was available all along, and none that was not.
ScanTrue(c) ==
    task[c].pc \in {"sticky", "scan"} =>
        /\ \A i \in Index : i < task[c].next /\ i \in steady[c].up => i \in task[c].scored
        /\ \A i \in Index : i \in task[c].scored => i \notin steady[c].down

\* The endpoint of a call was chosen with a reason, and keeps it until the verdict.
ChoiceTrue(c) ==
    task[c].pc \in {"send"} \cup Recording /\ task[c].at \in steady[c].down => steady[c].up = {}

ChooseInv ==
    \A c \in Caller :
        /\ task[c].pc \in {"idle", "hung"} => steady[c] = NoHistory
        /\ TrueHistory(c)
        /\ ScanTrue(c)
        /\ ChoiceTrue(c)

\* The health of an endpoint changes only when a verdict is stored.
LEMMA AvailableMoves ==
    ASSUME StateOK, PlaceOK, NEW c \in Caller, Acts(c), NEW a \in Actor
    PROVE  /\ \A i \in Index : ~(task[c].pc = "store" /\ task[c].actor = a /\ task[c].at = i) =>
                (i \in Available(a)' <=> i \in Available(a))
           /\ task[c].pc = "store" /\ task[c].actor = a =>
                (task[c].at \in Available(a)' <=> IsAvailable(task[c].health))
<1>1. ASSUME NEW i \in Index PROVE Bumped(c, a, i)
  BY MetricsMoves
<1>2. task[c].pc = "store" => task[c].at \in Index
  BY DEF PlaceOK, Placed, Recording
<1>3. QED
  BY <1>1, <1>2 DEF Bumped, Available

\* The histories of the other tasks stay true.
LEMMA OthersTrue ==
    ASSUME StateOK, PlaceOK, NEW c \in Caller, Acts(c), NEW d \in Caller, d # c, TrueHistory(d)
    PROVE  TrueHistory(d)'
<1>p. PICK a \in Actor : a = task[d].actor
  BY DEF StateOK, Locals
<1>0. task'[d] = task[d] /\ Shrinks(d) /\ steady[d].up \subseteq Index /\ steady[d].down \subseteq Index
  <2>1. steady[d] \in Histories
    BY DEF StateOK, Histories
  <2>2. QED
    BY <2>1, TaskKept, SteadyMoves DEF Elsewhere, Histories
<1>1. CASE StoreHealth(c) /\ task[c].actor = a
  <2>1. task[c].pc = "store"
    BY <1>1 DEF StoreHealth
  <2>2. steady'[d] = Changed(d, a, task[c].at, task[c].health)
    BY <1>1 DEF StoreHealth
  <2>3. steady'[d] = [up |-> IF IsAvailable(task[c].health) THEN steady[d].up ELSE steady[d].up \ {task[c].at},
                      down |-> IF IsAvailable(task[c].health) THEN steady[d].down \ {task[c].at} ELSE steady[d].down]
    BY <1>p, <2>2 DEF Changed
  <2>4. ASSUME NEW i \in Index
        PROVE  /\ i \in steady'[d].up => i \in Available(a)'
               /\ i \in steady'[d].down => i \notin Available(a)'
    <3>1. /\ i \in steady[d].up => i \in Available(a)
          /\ i \in steady[d].down => i \notin Available(a)
      BY <1>p DEF TrueHistory
    <3>2. CASE i = task[c].at
      BY <1>0, <1>1, <2>1, <2>3, <3>1, <3>2, AvailableMoves
    <3>3. CASE i # task[c].at
      BY <1>0, <1>1, <2>1, <2>3, <3>1, <3>3, AvailableMoves
    <3>4. QED
      BY <3>2, <3>3
  <2>5. task'[d].actor = a
    BY <1>0, <1>p
  <2>6. QED
    BY <1>0, <2>4, <2>5 DEF TrueHistory, Shrinks
<1>2. CASE ~(StoreHealth(c) /\ task[c].actor = a)
  <2>1. ~(task[c].pc = "store" /\ task[c].actor = a)
    BY <1>2 DEF Acts, Step, AcquireHealthyEndpoint, ExecuteUnary, EndSession, SelectBySticky, Score,
                SelectByWeightedScore, Answered, Hangs, CountError, CountRequest, LoadRequests, LoadErrors
  <2>2. \A i \in Index : i \in Available(a)' <=> i \in Available(a)
    BY <1>0, <2>1, AvailableMoves
  <2>3. task'[d].actor = a
    BY <1>0, <1>p
  <2>4. steady[d].up \subseteq Available(a) /\ steady[d].down \cap Available(a) = {}
    BY <1>p DEF TrueHistory
  <2>5. steady'[d].up \subseteq Available(a)' /\ steady'[d].down \cap Available(a)' = {}
    BY <1>0, <2>2, <2>4 DEF Shrinks
  <2>6. QED
    BY <2>3, <2>5 DEF TrueHistory
<1>3. QED
  BY <1>1, <1>2

\* Every step keeps what a selection has seen true of the endpoints it scanned.
LEMMA ChooseKept ==
    ASSUME StateOK, PlaceOK, ChooseInv, NEW c \in Caller, Acts(c)
    PROVE  ChooseInv'
<1> DEFINE Good(d) == /\ task[d].pc \in {"idle", "hung"} => steady[d] = NoHistory
                      /\ TrueHistory(d) /\ ScanTrue(d) /\ ChoiceTrue(d)
<1>0. \A d \in Caller : Good(d)
  BY DEF ChooseInv
<1>t. /\ \A d \in Caller : d # c => task'[d] = task[d] /\ Shrinks(d)
      /\ steady \in [Caller -> Histories] /\ steady' \in [Caller -> Histories]
      /\ task[c] \in Locals /\ task[c].actor \in Actor /\ Placed(task[c])
  BY TaskKept, SteadyMoves DEF Elsewhere, StateOK, Histories, Locals, PlaceOK
<1>1. ASSUME NEW d \in Caller, d # c PROVE Good(d)'
  <2>1. TrueHistory(d)'
    BY <1>0, <1>1, OthersTrue
  <2>2. task'[d] = task[d] /\ steady'[d].up \subseteq steady[d].up /\ steady'[d].down \subseteq steady[d].down
    BY <1>t, <1>1 DEF Shrinks
  <2>3. ScanTrue(d)' /\ ChoiceTrue(d)'
    BY <1>0, <2>2 DEF ScanTrue, ChoiceTrue
  <2>4. ASSUME steady[d] = NoHistory PROVE steady'[d] = NoHistory
    <3>1. steady'[d] \in Histories
      BY <1>t
    <3>2. QED
      BY <2>2, <2>4, <3>1 DEF NoHistory, Histories
  <2>5. QED
    BY <1>0, <2>1, <2>2, <2>3, <2>4
<1>2. TrueHistory(c)' /\ (task'[c].pc \in {"idle", "hung"} => steady'[c] = NoHistory)
  <2>a. ASSUME NEW a \in Actor, task[c].pc # "store" PROVE Available(a)' = Available(a)
    BY <2>a, AvailableMoves DEF Available
  <2>1. CASE steady'[c] = NoHistory
    BY <2>1 DEF TrueHistory, NoHistory
  <2>2. CASE /\ task[c].pc = "idle" /\ task'[c].pc # "idle"
             /\ LET a == task'[c].actor IN
                steady'[c] = [up |-> Available(a), down |-> Index \ Available(a)]
    <3>1. PICK a \in Actor : a = task'[c].actor
      BY TaskKept DEF Locals
    <3>2. Available(a)' = Available(a)
      BY <2>a, <2>2
    <3>3. task'[c].pc # "hung"
      BY <2>2, TaskMoves DEF Acts, Step, Begins, AcquireHealthyEndpoint, ExecuteUnary, EndSession, Ends,
         SelectBySticky, Score, SelectByWeightedScore, Answered, Hangs, CountError, CountRequest,
         LoadRequests, LoadErrors, StoreHealth
    <3>4. steady'[c].up = Available(a) /\ steady'[c].down = Index \ Available(a)
      BY <2>2, <3>1
    <3>5. steady'[c].up \subseteq Available(a)' /\ steady'[c].down \cap Available(a)' = {}
      BY <3>2, <3>4
    <3>6. TrueHistory(c)'
      BY <3>1, <3>5 DEF TrueHistory
    <3>7. QED
      BY <2>2, <3>3, <3>6
  <2>3. CASE steady'[c] = steady[c] /\ task[c].pc = "idle" /\ task'[c].pc = "idle"
    BY <1>0, <2>1, <2>3
  <2>4. CASE /\ steady'[c] = steady[c] /\ task'[c].actor = task[c].actor
             /\ task'[c].pc \notin {"idle", "hung"}
    <3>1. task[c].pc # "store"
      BY <2>4, TaskMoves DEF Acts, Step, AcquireHealthyEndpoint, ExecuteUnary, EndSession, SelectBySticky,
         Score, SelectByWeightedScore, Answered, Hangs, CountError, CountRequest, LoadRequests,
         LoadErrors, Ends
    <3>2. PICK a \in Actor : a = task[c].actor
      BY <1>t
    <3>3. Available(a)' = Available(a)
      BY <2>a, <3>1
    <3>4. QED
      BY <1>0, <2>4, <3>2, <3>3 DEF TrueHistory
  <2>5. QED
    BY <2>1, <2>2, <2>3, <2>4, SteadyMoves
<1>3. ScanTrue(c)' /\ ChoiceTrue(c)'
  <2> USE TaskMoves, SelectMoves, LoadMoves
  <2>1. CASE AcquireHealthyEndpoint(c) \/ \E a \in Actor : ExecuteUnary(c, a)
    BY <2>1, IndexFacts DEF Begins, ScanTrue, ChoiceTrue, Recording
  <2>2. CASE EndSession(c) \/ StoreHealth(c)
    BY <2>2 DEF Ends, ScanTrue, ChoiceTrue, Recording
  <2>3. CASE SelectBySticky(c)
    <3>1. steady'[c] = steady[c]
      BY <2>3 DEF SelectBySticky
    <3>2. task[c].sticky \in Index /\ TrueHistory(c) /\ ScanTrue(c)
      BY <1>0, <1>t, <2>3 DEF Placed
    <3>3. IsAvailable(metrics[task[c].actor][task[c].sticky].health) => task[c].sticky \notin steady[c].down
      BY <3>2 DEF TrueHistory, Available
    <3>4. QED
      BY <2>3, <3>1, <3>2, <3>3 DEF ScanTrue, ChoiceTrue, Recording
  <2>4. CASE Score(c)
    <3>1. steady'[c] = steady[c]
      BY <2>4 DEF Score
    <3>2. task[c].next \in Index /\ TrueHistory(c) /\ ScanTrue(c)
      BY <1>0, <1>t, <2>4, IndexFacts DEF Locals
    <3>3. /\ IsAvailable(metrics[task[c].actor][task[c].next].health) => task[c].next \notin steady[c].down
          /\ task[c].next \in steady[c].up => IsAvailable(metrics[task[c].actor][task[c].next].health)
      BY <3>2 DEF TrueHistory, Available
    <3>4. ChoiceTrue(c)'
      BY <2>4 DEF ChoiceTrue, Recording
    <3>5. ASSUME NEW i \in Index
          PROVE  /\ i < task'[c].next /\ i \in steady'[c].up => i \in task'[c].scored
                 /\ i \in task'[c].scored => i \notin steady'[c].down
      <4>1. i < task'[c].next <=> i < task[c].next \/ i = task[c].next
        <5>1. task[c].next \in Nat /\ i \in Nat /\ task'[c].next = task[c].next + 1
          BY <2>4, <3>2, IndexFacts
        <5>2. QED
          BY <5>1
      <4>2. QED
        BY <2>4, <3>1, <3>2, <3>3, <4>1 DEF ScanTrue
    <3>6. QED
      BY <3>4, <3>5 DEF ScanTrue
  <2>5. CASE SelectByWeightedScore(c)
    <3>1. task[c].pc = "scan" /\ task[c].next = Endpoints /\ ScanTrue(c) /\ steady[c].up \subseteq Index
      BY <1>0, <1>t, <2>5 DEF Histories
    <3>2. \A i \in Index : i \in steady[c].up => i \in task[c].scored
      BY <3>1, IndexFacts DEF ScanTrue
    <3>3. ASSUME NEW i \in Choices(task[c].scored), i \in steady[c].down PROVE steady[c].up = {}
      <4>1. task[c].scored \subseteq Index
        BY <1>t DEF Locals
      <4>2. task[c].scored = {}
        BY <3>1, <3>3, <4>1 DEF Choices, ScanTrue
      <4>3. QED
        BY <3>1, <3>2, <4>2
    <3>4. CASE Ends(c)
      BY <3>4 DEF Ends, ScanTrue, ChoiceTrue, Recording
    <3>5. CASE ~Ends(c)
      <4>1. PICK i \in Choices(task[c].scored) : task'[c].pc = "send" /\ task'[c].at = i
        BY <2>5, <3>5
      <4>2. steady'[c] = steady[c]
        BY <2>5, <4>1 DEF SelectByWeightedScore, Ends
      <4>3. QED
        BY <3>3, <4>1, <4>2 DEF ScanTrue, ChoiceTrue, Recording
    <3>6. QED
      BY <3>4, <3>5
  <2>6. CASE Answered(c) \/ CountError(c) \/ CountRequest(c)
    <3>1. steady'[c] = steady[c]
      BY <2>6 DEF Answered, CountError, CountRequest
    <3>2. QED
      BY <1>0, <2>6, <3>1 DEF Goes, SameCall, ScanTrue, ChoiceTrue, Recording
  <2>7. CASE LoadRequests(c) \/ LoadErrors(c)
    <3>1. steady'[c] = steady[c]
      BY <2>7 DEF LoadRequests, LoadErrors
    <3>2. QED
      BY <1>0, <2>7, <3>1 DEF Goes, SameCall, ScanTrue, ChoiceTrue, Recording
  <2>8. CASE Hangs(c)
    BY <2>8 DEF Goes, ScanTrue, ChoiceTrue, Recording
  <2>9. QED
    BY <2>1, <2>2, <2>3, <2>4, <2>5, <2>6, <2>7, <2>8 DEF Acts, Step
<1>4. \A d \in Caller : Good(d)'
  BY <1>1, <1>2, <1>3
<1>5. QED
  BY <1>4 DEF ChooseInv

-----------------------------------------------------------------------------
(* Theorems *)

RpcInv ==
    /\ StateOK /\ PlaceOK
    /\ PermitsConserved /\ CallsInv /\ ErrorsAreRequests
    /\ Alone /\ ChooseInv

\* A new pool satisfies the invariant.
LEMMA RpcStart == ASSUME Init PROVE RpcInv
<1>1. StateOK /\ PlaceOK
  BY StateStart
<1>2. /\ \A c \in Caller : task[c].pc = "idle" /\ steady[c] = NoHistory
      /\ \A a \in Actor : permits[a] = Concurrency
      /\ \A a \in Actor : \A i \in Index :
            metrics[a][i].errors = 0 /\ metrics[a][i].requests = 0 /\ metrics[a][i].health = "healthy"
      /\ calls = 0
  BY DEF Init, Idle
<1>3. /\ \A a \in Actor : {c \in Caller : task[c].pc # "idle" /\ task[c].actor = a} = {}
      /\ Due = {} /\ DueError = {}
      /\ \A a \in Actor : \A i \in Index : /\ On(a, i, Recording) = {}
                                           /\ On(a, i, {"count_request"}) = {}
                                           /\ On(a, i, {"load_errors"}) = {} /\ On(a, i, {"store"}) = {}
  BY <1>2 DEF Due, DueError, On, Recording
<1>4. Cardinality({}) = 0 /\ Concurrency \in Nat /\ MinRequests \in Nat \ {0}
  BY FS_EmptySet, RpcAssumption
<1>5. PermitsConserved
  BY <1>2, <1>3, <1>4 DEF PermitsConserved
<1>6. CallsInv /\ ErrorsAreRequests
  <2>1. ASSUME NEW a \in Actor, NEW i \in Index
        PROVE  /\ metrics[a][i].requests + Cardinality(Due) <= calls
               /\ metrics[a][i].errors + Cardinality(DueError) <= calls
               /\ metrics[a][i].errors <=
                    metrics[a][i].requests + Cardinality(On(a, i, {"count_request"}))
    <3>1. Due = {} /\ DueError = {} /\ On(a, i, {"count_request"}) = {}
      BY <1>3
    <3>2. metrics[a][i].errors = 0 /\ metrics[a][i].requests = 0 /\ calls = 0
      BY <1>2
    <3>3. QED
      BY <1>4, <3>1, <3>2
  <2>2. QED
    BY <2>1 DEF CallsInv, ErrorsAreRequests
<1>7. Alone
  BY <1>2, <1>3, <1>4 DEF Alone, AloneAt, Verdict
<1>8. ChooseInv
  BY <1>2 DEF ChooseInv, TrueHistory, ScanTrue, ChoiceTrue, NoHistory, Recording
<1>9. QED
  BY <1>1, <1>5, <1>6, <1>7, <1>8 DEF RpcInv

\* Every step of the pool keeps the invariant.
LEMMA RpcKept == ASSUME RpcInv, [Next]_vars PROVE RpcInv'
<1>1. CASE UNCHANGED vars
  <2> USE <1>1 DEF vars
  <2>1. StateOK' /\ PlaceOK'
    BY StateKept DEF RpcInv
  <2>2. PermitsConserved' /\ CallsInv' /\ ErrorsAreRequests'
    BY DEF RpcInv, PermitsConserved, CallsInv, ErrorsAreRequests, Due, DueError, On
  <2>3. Alone'
    BY DEF RpcInv, Alone, AloneAt, On, Verdict, NewHealth, RateAbove
  <2>4. ChooseInv'
    BY DEF RpcInv, ChooseInv, TrueHistory, ScanTrue, ChoiceTrue, Available
  <2>5. QED
    BY <2>1, <2>2, <2>3, <2>4 DEF RpcInv
<1>2. ASSUME NEW c \in Caller, Acts(c) PROVE RpcInv'
  <2>1. StateOK' /\ PlaceOK'
    <3>1. [Next]_vars
      BY <1>2 DEF Next, Acts
    <3>2. QED
      BY <3>1, StateKept DEF RpcInv
  <2>2. QED
    BY <1>2, <2>1, PermitsKept, CallsKept, ErrorsKept, AloneKept, ChooseKept DEF RpcInv
<1>3. QED
  BY <1>1, <1>2 DEF Next, Acts

\* The invariant of the client is inductive.
THEOREM RpcInvariant == Spec => []RpcInv
<1>1. Init => RpcInv
  BY RpcStart
<1>2. RpcInv /\ [Next]_vars => RpcInv'
  BY RpcKept
<1>3. QED
  BY <1>1, <1>2, PTL DEF Spec

\* get_semaphore, acquire_healthy_endpoint and execute_unary: on every path a permit that
\* was taken is dropped once, whoever waits, fails, hangs or runs in between.
THEOREM PermitsAreConserved == Spec => []PermitsConserved
<1>1. RpcInv => PermitsConserved
  BY DEF RpcInv
<1>2. QED
  BY <1>1, RpcInvariant, PTL

\* record_failure and record_success: without a lock the two counters of an endpoint drift
\* apart by no more than the failures between their increments.
THEOREM CountersAgree == Spec => []ErrorsAreRequests
<1>1. RpcInv => ErrorsAreRequests
  BY DEF RpcInv
<1>2. QED
  BY <1>1, RpcInvariant, PTL

\* The counters never exceed the calls made, and the permits never the concurrency.
THEOREM RpcTypeCorrect == Spec => []RpcTypeOK
<1>1. ASSUME RpcInv PROVE RpcTypeOK
  <2> USE RpcAssumption
  <2>1. /\ metrics \in [Actor -> [Index -> Counters]] /\ permits \in [Actor -> Nat]
        /\ calls \in 0..MaxCalls /\ task \in [Caller -> Locals]
    BY <1>1 DEF RpcInv, StateOK
  <2>2. Due \subseteq Caller /\ DueError \subseteq Caller
    BY DEF Due, DueError
  <2>3. /\ Cardinality(Due) \in Nat /\ Cardinality(DueError) \in Nat
        /\ \A a \in Actor : Cardinality(Busy(a)) \in Nat
    <3>1. \A a \in Actor : Busy(a) \subseteq Caller
      BY DEF Busy
    <3>2. QED
      BY <2>2, <3>1, FS_Subset, FS_CardinalityType
  <2>4. ASSUME NEW a \in Actor, NEW i \in Index
        PROVE  metrics[a][i] \in [errors : 0..MaxCalls, requests : 0..MaxCalls, health : Health]
    <3>1. metrics[a][i] \in Counters
      BY <2>1
    <3>2. /\ metrics[a][i].requests + Cardinality(Due) <= calls
          /\ metrics[a][i].errors + Cardinality(DueError) <= calls
      BY <1>1 DEF RpcInv, CallsInv
    <3>3. metrics[a][i].requests \in 0..MaxCalls /\ metrics[a][i].errors \in 0..MaxCalls
      BY <2>1, <2>3, <3>1, <3>2 DEF Counters
    <3>4. QED
      BY <3>1, <3>3 DEF Counters
  <2>5. ASSUME NEW a \in Actor PROVE permits[a] \in 0..Concurrency
    <3>1. permits[a] + Cardinality(Busy(a)) = Concurrency
      BY <1>1 DEF RpcInv, PermitsConserved, Busy
    <3>2. QED
      BY <2>1, <2>3, <3>1
  <2>6. QED
    BY <2>1, <2>4, <2>5 DEF RpcTypeOK, Locals
<1>2. QED
  BY <1>1, RpcInvariant, PTL

\* update_health_status: a stale verdict, computed from older counters and stored after a
\* newer one, does not outlive the next recording that runs alone.
THEOREM HealthIsSettled == Spec => []HealthSettles
<1>1. RpcInv => HealthSettles
  BY AloneSettles DEF RpcInv
<1>2. QED
  BY <1>1, RpcInvariant, PTL

\* select_endpoint: whatever the other tasks record between the checks of the sticky index,
\* the scan and the choice, no call goes to an endpoint that was unhealthy all along while
\* another one was available all along.
THEOREM UnhealthyAvoided == Spec => []AvoidsUnhealthy
<1>1. RpcInv => AvoidsUnhealthy
  BY DEF RpcInv, ChooseInv, ChoiceTrue, AvoidsUnhealthy
<1>2. QED
  BY <1>1, RpcInvariant, PTL

=============================================================================
