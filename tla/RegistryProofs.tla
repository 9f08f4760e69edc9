--------------------------- MODULE RegistryProofs ---------------------------
(***************************************************************************)
(* What the status registry guarantees of Redis and of a restart, for any  *)
(* executions and any number of statuses.                                  *)
(***************************************************************************)
EXTENDS StatusRegistry, TLAPS

RegistryTypeOK ==
    /\ book \in [Exec -> Nat]
    /\ redis \in [Exec -> Nat]
    /\ sets \in [Exec -> Nat]
    /\ writes \subseteq [exec : Exec, status : Nat]

\* An undisturbed execution has no write under way but that of its last status, so that
\* the write leaves Redis with it.
OnlyLastIsWritten ==
    \A e \in Exec : e \notin overlapped \cup lost => \A w \in Writing(e) : w.status = sets[e]

RegistryInv ==
    RegistryTypeOK /\ OnlyLastIsWritten /\ UndisturbedIsPersisted /\ RecoveredIsLatest

\* An empty registry over an empty Redis satisfies the invariant.
LEMMA RegistryStart == Init => RegistryInv
  BY DEF Init, RegistryInv, RegistryTypeOK, OnlyLastIsWritten, UndisturbedIsPersisted,
         RecoveredIsLatest, Writing

\* Every operation of the registry keeps its type.
LEMMA RegistryTyped == ASSUME RegistryInv, [Next]_vars PROVE RegistryTypeOK'
<1> USE DEF RegistryTypeOK
<1>0. RegistryTypeOK
  BY DEF RegistryInv
<1>1. ASSUME NEW e \in Exec, Set(e) PROVE RegistryTypeOK'
  <2>1. sets' \in [Exec -> Nat] /\ sets'[e] \in Nat
    BY <1>0, <1>1 DEF Set
  <2>2. QED
    BY <1>0, <1>1, <2>1 DEF Set
<1>2. ASSUME NEW e \in Exec, Remove(e) \/ Expire(e) PROVE RegistryTypeOK'
  BY <1>0, <1>2 DEF Remove, Expire
<1>3. ASSUME NEW w \in writes, Persist(w) \/ PersistFailed(w) PROVE RegistryTypeOK'
  BY <1>0, <1>3 DEF Persist, PersistFailed
<1>4. CASE Restart
  BY <1>0, <1>4 DEF Restart
<1>5. CASE UNCHANGED vars
  BY <1>0, <1>5 DEF vars
<1>6. QED
  BY <1>1, <1>2, <1>3, <1>4, <1>5 DEF Next

\* Redis: the write of the last status is the only one under way, or has been made.
LEMMA RedisKept ==
  ASSUME RegistryInv, [Next]_vars
  PROVE  OnlyLastIsWritten' /\ UndisturbedIsPersisted'
<1> USE DEF OnlyLastIsWritten, UndisturbedIsPersisted, Writing
<1>0. RegistryTypeOK /\ OnlyLastIsWritten /\ UndisturbedIsPersisted
  BY DEF RegistryInv
<1>1. ASSUME NEW e \in Exec, Set(e) PROVE OnlyLastIsWritten' /\ UndisturbedIsPersisted'
  <2>1. SUFFICES ASSUME NEW f \in Exec, f \notin overlapped' \cup lost'
                 PROVE  /\ \A w \in writes' : w.exec = f => w.status = sets'[f]
                        /\ {w \in writes' : w.exec = f} = {} /\ f \notin removed'
                              => redis'[f] = sets'[f]
    OBVIOUS
  <2>2. CASE f = e
    <3>1. sets'[f] = sets[f] + 1 /\ {w \in writes : w.exec = f} = {}
      BY <1>0, <1>1, <2>1, <2>2 DEF Set, RegistryTypeOK
    <3>2. writes' = writes \cup {[exec |-> f, status |-> sets'[f]]}
      BY <1>1, <2>2 DEF Set
    <3> DEFINE new == [exec |-> f, status |-> sets'[f]]
    <3>3. new.exec = f /\ new.status = sets'[f] /\ new \in writes'
      BY <3>2
    <3>4. \A w \in writes' : w.exec = f => w = new
      BY <3>1, <3>2
    <3> HIDE DEF new
    <3>5. QED
      BY <3>3, <3>4
  <2>3. CASE f # e
    <3>1. sets'[f] = sets[f] /\ f \notin overlapped \cup lost /\ redis' = redis /\ removed' = removed
      BY <1>0, <1>1, <2>1, <2>3 DEF Set, RegistryTypeOK
    <3>2. \A w : w.exec = f => (w \in writes' <=> w \in writes)
      BY <1>1, <2>3 DEF Set
    <3>3. QED
      BY <1>0, <3>1, <3>2
  <2>4. QED
    BY <2>2, <2>3
<1>2. ASSUME NEW e \in Exec, Remove(e) PROVE OnlyLastIsWritten' /\ UndisturbedIsPersisted'
  BY <1>0, <1>2 DEF Remove, history
<1>3. ASSUME NEW e \in Exec, Expire(e) PROVE OnlyLastIsWritten' /\ UndisturbedIsPersisted'
  BY <1>0, <1>3 DEF Expire, RegistryTypeOK
<1>4. ASSUME NEW v \in writes, Persist(v) PROVE OnlyLastIsWritten' /\ UndisturbedIsPersisted'
  <2>1. v.exec \in Exec
    BY <1>0 DEF RegistryTypeOK
  <2>2. OnlyLastIsWritten'
    BY <1>0, <1>4 DEF Persist, history
  <2>3. ASSUME NEW f \in Exec, f \notin overlapped' \cup lost' \cup removed',
               {w \in writes' : w.exec = f} = {}
        PROVE  redis'[f] = sets'[f]
    <3>1. CASE f = v.exec
      BY <1>0, <1>4, <2>1, <2>3, <3>1 DEF Persist, history, RegistryTypeOK
    <3>2. CASE f # v.exec
      BY <1>0, <1>4, <2>1, <2>3, <3>2 DEF Persist, history, RegistryTypeOK
    <3>3. QED
      BY <3>1, <3>2
  <2>4. QED
    BY <2>2, <2>3
<1>5. ASSUME NEW v \in writes, PersistFailed(v) PROVE OnlyLastIsWritten' /\ UndisturbedIsPersisted'
  <2>1. ASSUME NEW f \in Exec, f \notin overlapped' \cup lost'
        PROVE  /\ f \notin overlapped \cup lost
               /\ {w \in writes' : w.exec = f} = {w \in writes : w.exec = f}
    BY <1>5, <2>1 DEF PersistFailed
  <2>2. QED
    BY <1>0, <1>5, <2>1 DEF PersistFailed
<1>6. CASE Restart
  BY <1>0, <1>6 DEF Restart
<1>7. CASE UNCHANGED vars
  BY <1>0, <1>7 DEF vars, history
<1>8. QED
  BY <1>1, <1>2, <1>3, <1>4, <1>5, <1>6, <1>7 DEF Next

\* The map after a restart: nothing is set any more, and a second restart finds the same.
LEMMA BookKept == ASSUME RegistryInv, [Next]_vars PROVE RecoveredIsLatest'
<1> USE DEF RecoveredIsLatest
<1>0. RegistryTypeOK /\ UndisturbedIsPersisted /\ RecoveredIsLatest
  BY DEF RegistryInv
<1>1. ASSUME NEW e \in Exec, Set(e) PROVE RecoveredIsLatest'
  BY <1>0, <1>1 DEF Set, RegistryTypeOK
<1>2. ASSUME NEW e \in Exec, Remove(e) PROVE RecoveredIsLatest'
  BY <1>0, <1>2 DEF Remove, history, RegistryTypeOK
<1>3. ASSUME NEW e \in Exec, Expire(e) PROVE RecoveredIsLatest'
  BY <1>0, <1>3 DEF Expire
<1>4. ASSUME NEW w \in writes, Persist(w) \/ PersistFailed(w) PROVE RecoveredIsLatest'
  BY <1>0, <1>4 DEF Persist, PersistFailed, history
<1>5. CASE Restart
  <2>1. SUFFICES ASSUME NEW e \in Exec, e \notin overlapped' \cup lost' \cup removed'
                 PROVE  book'[e] = sets'[e]
    BY <1>5 DEF Restart
  <2>2. Writing(e) = {} /\ e \notin overlapped \cup lost \cup removed
    BY <1>5, <2>1 DEF Restart, Writing
  <2>3. QED
    BY <1>0, <1>5, <2>2 DEF Restart, UndisturbedIsPersisted
<1>6. CASE UNCHANGED vars
  BY <1>0, <1>6 DEF vars, history
<1>7. QED
  BY <1>1, <1>2, <1>3, <1>4, <1>5, <1>6 DEF Next

\* What `set` promises of Redis: of an execution that was not removed, and whose writes
\* neither overlapped, failed nor expired, the last status is the one that is stored.
THEOREM StatusPersisted == Spec => []UndisturbedIsPersisted
<1>1. RegistryInv /\ [Next]_vars => RegistryInv'
  BY RegistryTyped, RedisKept, BookKept DEF RegistryInv
<1>2. RegistryInv => UndisturbedIsPersisted
  BY DEF RegistryInv
<1>3. QED
  BY RegistryStart, <1>1, <1>2, PTL DEF Spec

\* What StatusRegistry::new promises: such a status is read again after any number of
\* restarts.
THEOREM StatusRecovered == Spec => []RecoveredIsLatest
<1>1. RegistryInv /\ [Next]_vars => RegistryInv'
  BY RegistryTyped, RedisKept, BookKept DEF RegistryInv
<1>2. RegistryInv => RecoveredIsLatest
  BY DEF RegistryInv
<1>3. QED
  BY RegistryStart, <1>1, <1>2, PTL DEF Spec

=============================================================================
