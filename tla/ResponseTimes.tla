--------------------------- MODULE ResponseTimes ----------------------------
(***************************************************************************)
(* The rolling window of response times of an EndpointMetrics              *)
(* (crate/utils/src/rpc/metrics.rs).  record_success takes a slot and      *)
(* stores the duration in it with a second access; while tasks do so,      *)
(* average_response_time_ms, which weighs the endpoints of a pool, reads   *)
(* the index and then one slot after another.                              *)
(*                                                                         *)
(* Slots are read Relaxed: a store that is not visible yet is one that has *)
(* not happened yet here.  The window is a power of two in the code, where *)
(* the mask is the remainder.                                              *)
(***************************************************************************)
EXTENDS Integers, Sequences, FiniteSets, FiniteSetsExt

CONSTANTS
    Writer,        (* tasks that record a response                    *)
    Window,        (* RESPONSE_TIME_WINDOW_SIZE                       *)
    SampleAbove,   (* above so many entries not all are looked at ... *)
    SampleStep,    (* ... but one in so many                          *)
    DefaultTime,   (* DEFAULT_RESPONSE_TIME_MS                        *)
    MaxTime,       (* bound: longest response, in ms                  *)
    MaxSamples     (* bound: responses recorded                       *)

ASSUME ResponseAssumption ==
    /\ {Window, SampleStep} \subseteq Nat \ {0}
    /\ {SampleAbove, DefaultTime, MaxTime, MaxSamples} \subseteq Nat

VARIABLES
    index,   (* response_time_index                                     *)
    ring,    (* response_times_ms                                       *)
    writer,  (* the slot and the duration a task is about to store      *)
    reader,  (* the locals of average_response_time_ms                  *)
    log,     (* history: the durations, by the slot they took           *)
    lapped   (* history: a slot was taken while a store to it was under *)
             (* way                                                     *)

vars == <<index, ring, writer, reader, log, lapped>>

NoWrite == [slot |-> -1, duration |-> 0]
NoRead == [pc |-> "idle", index |-> 0, next |-> 0, sum |-> 0, valid |-> 0, alone |-> FALSE]

Quiet == \A w \in Writer : writer[w] = NoWrite

-----------------------------------------------------------------------------
(* record_success *)

TakeSlot(w, duration) ==
    /\ writer[w] = NoWrite
    /\ index < MaxSamples
    /\ index' = index + 1
    /\ writer' = [writer EXCEPT ![w] = [slot |-> index % Window, duration |-> duration]]
    /\ log' = Append(log, duration)
    /\ lapped' = (lapped \/ \E v \in Writer : writer[v].slot = index % Window)
    /\ reader' = [reader EXCEPT !.alone = FALSE]
    /\ UNCHANGED ring

Store(w) ==
    /\ writer[w] # NoWrite
    /\ ring' = [ring EXCEPT ![writer[w].slot] = writer[w].duration]
    /\ writer' = [writer EXCEPT ![w] = NoWrite]
    /\ UNCHANGED <<index, reader, log, lapped>>

-----------------------------------------------------------------------------
(* average_response_time_ms *)

\* index.min(RESPONSE_TIME_WINDOW_SIZE)
Count == IF reader.index < Window THEN reader.index ELSE Window

Step == IF Count > SampleAbove THEN SampleStep ELSE 1

\* The bound of the loop; an index of 0 leaves nothing to read.
Scanned == reader.pc = "scan" /\ reader.next >= Count

ReadIndex ==
    /\ reader.pc = "idle"
    /\ reader' = [NoRead EXCEPT !.pc = "scan", !.index = index, !.alone = Quiet]
    /\ UNCHANGED <<index, ring, writer, log, lapped>>

\* Mutant of Counted: a slot without a time counts too.
CountedAlways(value) == TRUE

Counted(value) == value > 0

\* Mutant of SlotAt: the index is that of the next slot.
SlotAtNext(i) == (reader.index + Window - i) % Window

\* The slot that was taken i calls before the last one.
SlotAt(i) == (reader.index + Window - 1 - i) % Window

ReadSlot ==
    LET value == ring[SlotAt(reader.next)] IN
    /\ reader.pc = "scan"
    /\ reader.next < Count
    /\ reader' = [reader EXCEPT !.next = @ + Step,
                                !.sum = IF Counted(value) THEN @ + value ELSE @,
                                !.valid = IF Counted(value) THEN @ + 1 ELSE @]
    /\ UNCHANGED <<index, ring, writer, log, lapped>>

Default == <<DefaultTime, 1>>

\* avg, as <<a, b>> for a / b.
Mean == <<reader.sum, reader.valid>>

\* What is returned: the mean, "corrected" for the sampling.
Average == IF reader.valid = 0 THEN Default ELSE <<Step * Mean[1], Mean[2]>>

ReturnAverage ==
    /\ Scanned
    /\ reader' = NoRead
    /\ UNCHANGED <<index, ring, writer, log, lapped>>

-----------------------------------------------------------------------------

Init ==
    /\ index = 0
    /\ ring = [i \in 0..(Window - 1) |-> 0]
    /\ writer = [w \in Writer |-> NoWrite]
    /\ reader = NoRead
    /\ log = <<>>
    /\ lapped = FALSE

Next ==
    \/ \E w \in Writer : Store(w) \/ \E duration \in 0..MaxTime : TakeSlot(w, duration)
    \/ ReadIndex
    \/ ReadSlot
    \/ ReturnAverage

Spec == Init /\ [][Next]_vars

-----------------------------------------------------------------------------
(* Properties *)

\* While tasks record, the mean lies between the shortest and the longest response of the
\* two windows before the scan began and of those since, whatever stores are under way,
\* unless a whole window has overtaken one of them.  (The mean is what the scan finds, before
\* the correction for the sampling.)
AverageIsRecent ==
    LET recent == {k \in 1..Len(log) : k > reader.index - 2 * Window /\ log[k] > 0} IN
    Scanned /\ reader.valid > 0 /\ ~lapped =>
        /\ \E k \in recent : log[k] * Mean[2] <= Mean[1]
        /\ \E k \in recent : log[k] * Mean[2] >= Mean[1]

\* While nothing is recorded, the mean is that of those responses the scan looks at, every
\* Step-th of the last window from the newest, that took any time; if none did, the default
\* is returned.
AverageOfWindow ==
    LET seen == {reader.index - i : i \in {j \in 0..(Count - 1) : j % Step = 0}}
        timed == {k \in seen : log[k] > 0} IN
    Scanned /\ reader.alone /\ ~lapped =>
        /\ timed = {} => Average = Default
        /\ timed # {} => Mean[1] * Cardinality(timed) =
                             Mean[2] * MapThenSumSet(LAMBDA k : log[k], timed)

-----------------------------------------------------------------------------
(* What a comment says, and the code does not do. *)

\* "Calculates average response time from atomic ring buffer" (metrics.rs): the number
\* returned, if any response took time, is no longer than the longest response ever recorded.
AverageWithinResponses ==
    Scanned /\ reader.valid > 0 =>
        \E k \in 1..Len(log) : Average[1] <= log[k] * Average[2]

=============================================================================
