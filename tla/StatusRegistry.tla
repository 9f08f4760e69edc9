--------------------------- MODULE StatusRegistry ---------------------------
(***************************************************************************)
(* The status registry of crate/cortex/src/artifacts/state.rs: a map in    *)
(* memory that answers every read, and Redis, which is written by a task   *)
(* spawned for each `set` and read only when the process starts.           *)
(*                                                                         *)
(* A status is the number of the `set` that recorded it.  A pipeline does  *)
(* not survive the process, so the status of an execution that was started *)
(* before a restart is not set again.                                      *)
(***************************************************************************)
EXTENDS Integers

CONSTANTS
    Exec,      (* execution ids                    *)
    MaxSets    (* bound: statuses of an execution  *)

ASSUME RegistryAssumption == MaxSets \in Nat

VARIABLES
    book,       (* status_book; 0 is no entry                            *)
    redis,      (* the value of lobby:status:{execution_id}; 0 is no key *)
    writes,     (* the spawned tasks that have not written yet           *)
    sets,       (* how often the status of each execution was set        *)
    removed,    (* executions whose entry was removed                    *)
    restarted,  (* executions that were started before the last restart  *)
    overlapped, (* history: executions with two writes under way at once *)
    lost        (* history: executions that lost a write or their key    *)

history == <<overlapped, lost>>
vars == <<book, redis, writes, sets, removed, restarted, history>>

Writing(e) == {w \in writes : w.exec = e}

-----------------------------------------------------------------------------

\* set: the map at once, Redis in a task of its own.
Set(e) ==
    /\ e \notin removed \cup restarted
    /\ sets[e] < MaxSets
    /\ sets' = [sets EXCEPT ![e] = @ + 1]
    /\ book' = [book EXCEPT ![e] = sets'[e]]
    /\ writes' = writes \cup {[exec |-> e, status |-> sets'[e]]}
    /\ overlapped' = IF Writing(e) = {} THEN overlapped ELSE overlapped \cup {e}
    /\ UNCHANGED <<redis, removed, restarted, lost>>

\* Mutant of Persist: a key that exists is not written again.
PersistOnce(w) ==
    /\ w \in writes
    /\ redis' = [redis EXCEPT ![w.exec] = IF @ = 0 THEN w.status ELSE @]
    /\ writes' = writes \ {w}
    /\ UNCHANGED <<book, sets, removed, restarted, history>>

\* The tasks run in any order.
Persist(w) ==
    /\ w \in writes
    /\ redis' = [redis EXCEPT ![w.exec] = w.status]
    /\ writes' = writes \ {w}
    /\ UNCHANGED <<book, sets, removed, restarted, history>>

\* The error is logged.
PersistFailed(w) ==
    /\ w \in writes
    /\ writes' = writes \ {w}
    /\ lost' = lost \cup {w.exec}
    /\ UNCHANGED <<book, redis, sets, removed, restarted, overlapped>>

\* remove: the task deletes lobby:state:{execution_id}, a key that no one writes.
Remove(e) ==
    /\ book[e] # 0
    /\ book' = [book EXCEPT ![e] = 0]
    /\ removed' = removed \cup {e}
    /\ UNCHANGED <<redis, writes, sets, restarted, history>>

\* The key's hour is over.
Expire(e) ==
    /\ redis[e] # 0
    /\ redis' = [redis EXCEPT ![e] = 0]
    /\ lost' = lost \cup {e}
    /\ UNCHANGED <<book, writes, sets, removed, restarted, overlapped>>

\* Mutant of Restart: the process starts with an empty map.
RestartEmpty ==
    /\ book' = [e \in Exec |-> 0]
    /\ writes' = {}
    /\ lost' = lost \cup {w.exec : w \in writes}
    /\ restarted' = {e \in Exec : sets[e] > 0}
    /\ UNCHANGED <<redis, sets, removed, overlapped>>

\* The process dies, and with it the tasks that have not written; StatusRegistry::new
\* loads what Redis has.
Restart ==
    /\ book' = redis
    /\ writes' = {}
    /\ lost' = lost \cup {w.exec : w \in writes}
    /\ restarted' = {e \in Exec : sets[e] > 0}
    /\ UNCHANGED <<redis, sets, removed, overlapped>>

Init ==
    /\ book = [e \in Exec |-> 0]
    /\ redis = [e \in Exec |-> 0]
    /\ writes = {}
    /\ sets = [e \in Exec |-> 0]
    /\ removed = {}
    /\ restarted = {}
    /\ overlapped = {}
    /\ lost = {}

Next ==
    \/ \E e \in Exec : Set(e) \/ Remove(e) \/ Expire(e)
    \/ \E w \in writes : Persist(w) \/ PersistFailed(w)
    \/ Restart

Spec == Init /\ [][Next]_vars

-----------------------------------------------------------------------------
(* Properties *)

\* Once the writes of an execution that was not removed have ended, and neither overlapped
\* nor got lost, Redis holds the last status that was set.
UndisturbedIsPersisted ==
    \A e \in Exec :
        Writing(e) = {} /\ e \notin overlapped \cup lost \cup removed => redis[e] = sets[e]

\* Then a restart brings that status back, and it is what readers see from then on.
RecoveredIsLatest ==
    \A e \in restarted : e \notin overlapped \cup lost \cup removed => book[e] = sets[e]

=============================================================================
