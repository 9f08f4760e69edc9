----------------------------- MODULE RpcClient ------------------------------
(***************************************************************************)
(* The RPC client of crate/utils/src/rpc for one chain: a pool of          *)
(* endpoints with metrics of its own for the broadcast and for the         *)
(* validator actor, and a semaphore for each actor.                        *)
(*                                                                         *)
(* A pipeline first picks a sticky endpoint (acquire_healthy_endpoint, on  *)
(* the validator's pool) and then makes calls with it (execute_unary).     *)
(* The metrics are atomics without a lock, so a task is interrupted        *)
(* between any two accesses: task[c].pc is its next access.                *)
(*                                                                         *)
(* Nothing calls activate_circuit_breaker, so circuit_breaker_until is     *)
(* always 0 and select_circuit_breaker_recovery takes the first endpoint.  *)
(* Response times only weigh the random choice between endpoints that can  *)
(* be chosen (module ResponseTimes).  A get_semaphore that times out       *)
(* changes nothing here.  The timeout ends with it: the call itself may    *)
(* take for ever.                                                          *)
(***************************************************************************)
EXTENDS Integers, FiniteSets

CONSTANTS
    Caller,            (* the tasks that use the client            *)
    Actor,             (* SelectActor                              *)
    Endpoints,         (* length of the endpoint list              *)
    Concurrency,       (* RPC_BROADCAST/VALIDATOR_CONCURRENCY      *)
    MinRequests,       (* MIN_REQUESTS_FOR_HEALTH                  *)
    DegradedPercent,   (* DEGRADED_THRESHOLD                       *)
    UnhealthyPercent,  (* UNHEALTHY_THRESHOLD                      *)
    MaxCalls,          (* bound: calls made                        *)
    MaxHung            (* bound: calls that never return           *)

ASSUME RpcAssumption ==
    /\ IsFiniteSet(Caller)
    /\ "validator" \in Actor
    /\ {Endpoints, Concurrency, MinRequests} \subseteq Nat \ {0}
    /\ {DegradedPercent, UnhealthyPercent, MaxCalls, MaxHung} \subseteq Nat
    /\ DegradedPercent <= UnhealthyPercent

VARIABLES
    metrics,  (* EndpointMetrics of each actor and endpoint         *)
    permits,  (* free permits of each actor's semaphore             *)
    task,     (* the locals of each task                            *)
    calls,    (* calls made                                         *)
    steady,   (* history: endpoints that have been available, or    *)
              (* unhealthy, ever since the task began to choose     *)
    overlap   (* history: endpoints whose latest recording began    *)
              (* while another one was under way                    *)

vars == <<metrics, permits, task, calls, steady, overlap>>

Index == 0..(Endpoints - 1)
None == -1

Health == {"healthy", "degraded", "unhealthy"}

\* is_available, and traffic_multiplier > 0
IsAvailable(health) == health # "unhealthy"

Available(a) == {i \in Index : IsAvailable(metrics[a][i].health)}

NoHistory == [up |-> {}, down |-> {}]

Idle == [pc |-> "idle", actor |-> "validator", op |-> "none", sticky |-> None, next |-> 0,
         scored |-> {}, at |-> None, requests |-> 0, health |-> "healthy"]

-----------------------------------------------------------------------------
(* get_semaphore, and dropping the permit *)

Take(a) == permits[a] > 0 /\ permits' = [permits EXCEPT ![a] = @ - 1]
Drop(a) == permits' = [permits EXCEPT ![a] = @ + 1]

\* The task has the permit of actor a and begins to choose an endpoint.
Begin(c, a, op, pc) ==
    /\ Take(a)
    /\ task' = [task EXCEPT ![c] = [Idle EXCEPT !.pc = pc, !.actor = a, !.op = op,
                                                !.sticky = task[c].sticky]]
    /\ steady' = [steady EXCEPT ![c] = [up |-> Available(a), down |-> Index \ Available(a)]]

\* acquire_healthy_endpoint
AcquireHealthyEndpoint(c) ==
    /\ task[c].pc = "idle"
    /\ task[c].sticky = None
    /\ Begin(c, "validator", "pick", "scan")
    /\ UNCHANGED <<metrics, calls, overlap>>

\* execute_unary
ExecuteUnary(c, a) ==
    /\ task[c].pc = "idle"
    /\ task[c].sticky # None
    /\ calls < MaxCalls
    /\ calls' = calls + 1
    /\ Begin(c, a, "call", "sticky")
    /\ UNCHANGED <<metrics, overlap>>

\* The pipeline has made its last call.
EndSession(c) ==
    /\ task[c].pc = "idle"
    /\ task[c].sticky # None
    /\ task' = [task EXCEPT ![c] = Idle]
    /\ UNCHANGED <<metrics, permits, calls, steady, overlap>>

-----------------------------------------------------------------------------
(* EndpointPool::select_endpoint *)

\* Mutant of SelectBySticky: the sticky endpoint's health is not looked at.
SelectBySticky_Always(c) ==
    LET t == task[c] IN
    /\ t.pc = "sticky"
    /\ task' = [task EXCEPT ![c].pc = "send", ![c].at = t.sticky]
    /\ UNCHANGED <<metrics, permits, calls, steady, overlap>>

SelectBySticky(c) ==
    LET t == task[c] IN
    /\ t.pc = "sticky"
    /\ \/ /\ IsAvailable(metrics[t.actor][t.sticky].health)
          /\ task' = [task EXCEPT ![c].pc = "send", ![c].at = t.sticky]
       \/ /\ ~IsAvailable(metrics[t.actor][t.sticky].health)
          /\ task' = [task EXCEPT ![c].pc = "scan"]
    /\ UNCHANGED <<metrics, permits, calls, steady, overlap>>

\* One turn of the loop that collects the scores.
Score(c) ==
    LET t == task[c] IN
    /\ t.pc = "scan"
    /\ t.next < Endpoints
    /\ task' = [task EXCEPT
                    ![c].next = t.next + 1,
                    ![c].scored = IF IsAvailable(metrics[t.actor][t.next].health)
                                  THEN t.scored \cup {t.next} ELSE t.scored]
    /\ UNCHANGED <<metrics, permits, calls, steady, overlap>>

\* The roulette wheel, or the first endpoint when none has a score.
Choices(scored) == IF scored = {} THEN {0} ELSE scored

\* Mutant of SelectByWeightedScore: the permit is dropped before the call is made.
SelectByWeightedScore_DropsEarly(c) ==
    LET t == task[c] IN
    /\ t.pc = "scan"
    /\ t.next = Endpoints
    /\ \E i \in Choices(t.scored) :
          task' = [task EXCEPT ![c] = IF t.op = "pick" THEN [Idle EXCEPT !.sticky = i]
                                      ELSE [t EXCEPT !.pc = "send", !.at = i]]
    /\ Drop(t.actor)
    /\ UNCHANGED <<metrics, calls, steady, overlap>>

\* Mutant of SelectByWeightedScore: the permit of acquire_healthy_endpoint is not dropped.
SelectByWeightedScore_Keeps(c) ==
    LET t == task[c] IN
    /\ t.pc = "scan"
    /\ t.next = Endpoints
    /\ \E i \in Choices(t.scored) :
          task' = [task EXCEPT ![c] = IF t.op = "pick" THEN [Idle EXCEPT !.sticky = i]
                                      ELSE [t EXCEPT !.pc = "send", !.at = i]]
    /\ UNCHANGED <<metrics, permits, calls, steady, overlap>>

\* Mutant of SelectByWeightedScore: no last resort when every endpoint is unhealthy.
SelectByWeightedScore_Waits(c) ==
    LET t == task[c] IN
    /\ t.pc = "scan"
    /\ t.next = Endpoints
    /\ \E i \in t.scored :
          \/ /\ t.op = "pick"
             /\ task' = [task EXCEPT ![c] = [Idle EXCEPT !.sticky = i]]
             /\ Drop(t.actor)
          \/ /\ t.op = "call"
             /\ task' = [task EXCEPT ![c].pc = "send", ![c].at = i]
             /\ UNCHANGED permits
    /\ UNCHANGED <<metrics, calls, steady, overlap>>

SelectByWeightedScore(c) ==
    LET t == task[c] IN
    /\ t.pc = "scan"
    /\ t.next = Endpoints
    /\ \E i \in Choices(t.scored) :
          \/ /\ t.op = "pick"
             /\ task' = [task EXCEPT ![c] = [Idle EXCEPT !.sticky = i]]
             /\ Drop(t.actor)
             /\ steady' = [steady EXCEPT ![c] = NoHistory]
          \/ /\ t.op = "call"
             /\ task' = [task EXCEPT ![c].pc = "send", ![c].at = i]
             /\ UNCHANGED <<permits, steady>>
    /\ UNCHANGED <<metrics, calls, overlap>>

-----------------------------------------------------------------------------
(* record_success and record_failure *)

Goto(c, pc) == task' = [task EXCEPT ![c].pc = pc]

Recording == {"count_error", "count_request", "load_requests", "load_errors", "store"}

\* The tasks that are at one of the accesses `pcs` to endpoint i of actor a.
On(a, i, pcs) == {c \in Caller : task[c].actor = a /\ task[c].at = i /\ task[c].pc \in pcs}

\* The operation answers, or fails for any reason.
Answered(c) ==
    LET t == task[c] IN
    /\ t.pc = "send"
    /\ Goto(c, "count_request") \/ Goto(c, "count_error")
    /\ overlap' = IF On(t.actor, t.at, Recording) # {} THEN overlap \cup {<<t.actor, t.at>>}
                  ELSE overlap \ {<<t.actor, t.at>>}
    /\ UNCHANGED <<metrics, permits, calls, steady>>

\* The endpoint accepts the call and never answers.
Hangs(c) ==
    /\ task[c].pc = "send"
    /\ Cardinality({d \in Caller : task[d].pc = "hung"}) < MaxHung
    /\ Goto(c, "hung")
    /\ steady' = [steady EXCEPT ![c] = NoHistory]
    /\ UNCHANGED <<metrics, permits, calls, overlap>>

\* Mutant of CountError: the failed request is not counted as a request.
CountErrorOnly(c) ==
    LET t == task[c] IN
    /\ t.pc = "count_error"
    /\ metrics' = [metrics EXCEPT ![t.actor][t.at].errors = @ + 1]
    /\ Goto(c, "load_requests")
    /\ UNCHANGED <<permits, calls, steady, overlap>>

CountError(c) ==
    LET t == task[c] IN
    /\ t.pc = "count_error"
    /\ metrics' = [metrics EXCEPT ![t.actor][t.at].errors = @ + 1]
    /\ Goto(c, "count_request")
    /\ UNCHANGED <<permits, calls, steady, overlap>>

CountRequest(c) ==
    LET t == task[c] IN
    /\ t.pc = "count_request"
    /\ metrics' = [metrics EXCEPT ![t.actor][t.at].requests = @ + 1]
    /\ Goto(c, "load_requests")
    /\ UNCHANGED <<permits, calls, steady, overlap>>

-----------------------------------------------------------------------------
(* update_health_status *)

\* error_rate compared with the thresholds.
RateAbove(errors, requests, percent) == 100 * errors > percent * requests

NewHealth(errors, requests) ==
    IF RateAbove(errors, requests, UnhealthyPercent) THEN "unhealthy"
    ELSE IF RateAbove(errors, requests, DegradedPercent) THEN "degraded"
    ELSE "healthy"

\* Mutant of LoadRequests: the first MIN_REQUESTS_FOR_HEALTH requests are not enough.
LoadRequestsLate(c) ==
    LET t == task[c]
        requests == metrics[t.actor][t.at].requests
    IN
    /\ t.pc = "load_requests"
    /\ task' = [task EXCEPT ![c].requests = requests,
                            ![c].health = "healthy",
                            ![c].pc = IF requests <= MinRequests THEN "store" ELSE "load_errors"]
    /\ UNCHANGED <<metrics, permits, calls, steady, overlap>>

\* error_rate loads request_count first ...
LoadRequests(c) ==
    LET t == task[c]
        requests == metrics[t.actor][t.at].requests
    IN
    /\ t.pc = "load_requests"
    /\ task' = [task EXCEPT ![c].requests = requests,
                            ![c].health = "healthy",
                            ![c].pc = IF requests < MinRequests THEN "store" ELSE "load_errors"]
    /\ UNCHANGED <<metrics, permits, calls, steady, overlap>>

\* ... and then error_count.
LoadErrors(c) ==
    LET t == task[c] IN
    /\ t.pc = "load_errors"
    /\ task' = [task EXCEPT ![c].health = NewHealth(metrics[t.actor][t.at].errors, t.requests),
                            ![c].pc = "store"]
    /\ UNCHANGED <<metrics, permits, calls, steady, overlap>>

\* What is left of the history of a task when the health of endpoint i of actor a changes.
Changed(d, a, i, health) ==
    IF task[d].actor # a THEN steady[d]
    ELSE [up |-> IF IsAvailable(health) THEN steady[d].up ELSE steady[d].up \ {i},
          down |-> IF IsAvailable(health) THEN steady[d].down \ {i} ELSE steady[d].down]

\* The health is stored and the permit dropped.
StoreHealth(c) ==
    LET t == task[c] IN
    /\ t.pc = "store"
    /\ metrics' = [metrics EXCEPT ![t.actor][t.at].health = t.health]
    /\ steady' = [d \in Caller |-> IF d = c THEN NoHistory
                                    ELSE Changed(d, t.actor, t.at, t.health)]
    /\ task' = [task EXCEPT ![c] = [Idle EXCEPT !.sticky = t.sticky]]
    /\ Drop(t.actor)
    /\ UNCHANGED <<calls, overlap>>

-----------------------------------------------------------------------------

Init ==
    /\ metrics = [a \in Actor |-> [i \in Index |->
                    [errors |-> 0, requests |-> 0, health |-> "healthy"]]]
    /\ permits = [a \in Actor |-> Concurrency]
    /\ task = [c \in Caller |-> Idle]
    /\ calls = 0
    /\ steady = [c \in Caller |-> NoHistory]
    /\ overlap = {}

\* The steps a task takes while it has a permit.
Step(c) ==
    \/ SelectBySticky(c) \/ Score(c) \/ SelectByWeightedScore(c) \/ Answered(c)
    \/ CountError(c) \/ CountRequest(c) \/ LoadRequests(c) \/ LoadErrors(c) \/ StoreHealth(c)

Next ==
    \E c \in Caller :
        \/ AcquireHealthyEndpoint(c)
        \/ \E a \in Actor : ExecuteUnary(c, a)
        \/ EndSession(c)
        \/ Step(c)
        \/ Hangs(c)

Spec == Init /\ [][Next]_vars

\* The runtime polls every task.
LiveSpec == Spec /\ \A c \in Caller : WF_vars(Step(c))

-----------------------------------------------------------------------------
(* Properties *)

RpcTypeOK ==
    /\ metrics \in [Actor -> [Index -> [errors : 0..MaxCalls, requests : 0..MaxCalls,
                                        health : Health]]]
    /\ permits \in [Actor -> 0..Concurrency]
    /\ calls \in 0..MaxCalls
    /\ \A c \in Caller : task[c].sticky \in Index \cup {None} /\ task[c].at \in Index \cup {None}

\* The errors of an endpoint exceed its requests by no more than the recordings that have yet
\* to count their request, so once these are over no endpoint has more errors than requests.
ErrorsAreRequests ==
    \A a \in Actor : \A i \in Index :
        metrics[a][i].errors <= metrics[a][i].requests + Cardinality(On(a, i, {"count_request"}))

\* No call goes to an endpoint that was unhealthy ever since the call began, while another
\* was available all along: neither the sticky index nor the last resort does that.
AvoidsUnhealthy ==
    \A c \in Caller :
        task[c].pc = "send" /\ task[c].at \in steady[c].down => steady[c].up = {}

\* The verdict on an endpoint is that of its counters as soon as a recording has run
\* alone: a verdict that update_health_status computed from older counters and stored
\* after a newer one does not outlive it.
HealthSettles ==
    \A a \in Actor : \A i \in Index :
        On(a, i, Recording) = {} /\ <<a, i>> \notin overlap =>
            LET m == metrics[a][i] IN
            /\ m.health = "unhealthy" <=>
                m.requests >= MinRequests /\ 100 * m.errors > UnhealthyPercent * m.requests
            /\ m.health = "healthy" <=>
                m.requests < MinRequests \/ 100 * m.errors <= DegradedPercent * m.requests

\* Every task that has a permit drops it, so nobody waits for the semaphore for ever,
\* unless its own endpoint never answers: a call that hangs delays no other one.
PermitReturned ==
    \A c \in Caller : task[c].pc # "idle" ~> task[c].pc \in {"idle", "hung"}

\* A permit is missing from a semaphore only while a task has it: no path of
\* acquire_healthy_endpoint or execute_unary leaks one or returns it twice.
PermitsConserved ==
    \A a \in Actor :
        permits[a] + Cardinality({c \in Caller : task[c].pc # "idle" /\ task[c].actor = a}) = Concurrency

=============================================================================
