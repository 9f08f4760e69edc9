--------------------------- MODULE ResponseProofs ---------------------------
(***************************************************************************)
(* The average of response times that weighs an endpoint is one of recent  *)
(* responses, for any number of tasks that record, any window, any way of  *)
(* sampling it and any response times.                                     *)
(***************************************************************************)
EXTENDS ResponseTimes, FiniteSetTheorems, TLAPS

Writing == [slot : 0..(Window - 1), duration : Nat]

Reading == [pc : {"idle", "scan"}, index : Nat, next : Nat, sum : Nat, valid : Nat,
            alone : BOOLEAN]

StateOK ==
    /\ index \in Nat
    /\ ring \in [0..(Window - 1) -> Nat]
    /\ writer \in [Writer -> Writing \cup {NoWrite}]
    /\ reader \in Reading /\ reader.index <= index
    /\ log \in Seq(Nat) /\ Len(log) = index

\* The k-th response took this slot and this long.
Took(k, slot, duration) ==
    k \in 1..index /\ (k - 1) % Window = slot /\ log[k] = duration

\* A task stores the response it took the slot for, which is in the last window: the next
\* one to take the slot would have overtaken it.
StoreInv ==
    \A w \in Writer : writer[w] # NoWrite =>
        \E k \in Nat : Took(k, writer[w].slot, writer[w].duration) /\ k > index - Window

\* A slot has the response of the last window that took it, or, while that one has not been
\* stored, the response of the window before.
SlotInv ==
    \A slot \in 0..(Window - 1) : ring[slot] # 0 =>
        \E k \in Nat :
            /\ Took(k, slot, ring[slot])
            /\ k > index - 2 * Window
            /\ k > index - Window \/ \E w \in Writer : writer[w].slot = slot

\* A response that an average which began at this index may contain.
IsRecent(k, from) == k \in 1..index /\ k > from - 2 * Window /\ log[k] > 0

\* The sum so far lies between those of the shortest and of the longest response read.
SumInv ==
    /\ reader.valid = 0 => reader.sum = 0
    /\ reader.valid > 0 =>
        /\ \E k \in Nat : IsRecent(k, reader.index) /\ log[k] * reader.valid <= reader.sum
        /\ \E k \in Nat : IsRecent(k, reader.index) /\ log[k] * reader.valid >= reader.sum

RecentInv == StateOK /\ (~lapped => StoreInv /\ SlotInv /\ SumInv)

-----------------------------------------------------------------------------
(* Slots *)

\* A product with a positive or a negative factor.
LEMMA Product ==
    ASSUME NEW n \in Nat, NEW d \in Int
    PROVE  /\ n * d \in Int
           /\ d >= 1 => n * d >= n
           /\ d <= -1 => n * d <= -n
OBVIOUS

\* What the remainder is.
LEMMA Quotient ==
    ASSUME NEW a \in Nat, NEW n \in Nat \ {0}
    PROVE  /\ a % n \in 0..(n - 1) /\ a \div n \in Int
           /\ a = n * (a \div n) + (a % n)
OBVIOUS

\* Zero leaves no remainder.
LEMMA NoRemainder ==
    ASSUME NEW n \in Nat \ {0}
    PROVE  0 % n = 0
<1>1. PICK q \in Int, r \in 0..(n - 1) : 0 = n * q + r /\ r = 0 % n
  BY Quotient
<1>2. QED
  BY <1>1, Product

\* The sizes are natural numbers.
LEMMA Sizes ==
    /\ Window \in Nat \ {0}
    /\ SampleStep \in Nat \ {0}
    /\ MaxTime \in Nat
BY ResponseAssumption

\* Remainders repeat ...
LEMMA Periodic ==
    ASSUME NEW a \in Nat, NEW n \in Nat \ {0}
    PROVE  (a + n) % n = a % n
<1>1. (a + n) \in Nat
  OBVIOUS
<1>2. PICK q \in Int, r \in 0..(n - 1) : a = n * q + r /\ r = a % n
  BY Quotient
<1>3. PICK q2 \in Int, r2 \in 0..(n - 1) : a + n = n * q2 + r2 /\ r2 = (a + n) % n
  BY <1>1, Quotient
<1>4. n * (q2 - q - 1) = n * q2 - n * q - n
  OBVIOUS
<1>5. PICK d \in Int : d = q2 - q - 1
  OBVIOUS
<1>6. n * d = r - r2
  BY <1>2, <1>3, <1>4, <1>5, Product
<1>7. r = r2
  BY <1>6, Product
<1>8. QED
  BY <1>2, <1>3, <1>7

\* ... and not sooner.
LEMMA SameRemainder ==
    ASSUME NEW a \in Nat, NEW b \in Nat, NEW n \in Nat \ {0},
           a % n = b % n, a - b < n, b - a < n
    PROVE  a = b
<1>1. PICK q \in Int, r \in 0..(n - 1) : a = n * q + r /\ r = a % n
  BY Quotient
<1>2. PICK q2 \in Int, r2 \in 0..(n - 1) : b = n * q2 + r2 /\ r2 = b % n
  BY Quotient
<1>3. n * (q - q2) = n * q - n * q2
  OBVIOUS
<1>4. PICK d \in Int : d = q - q2
  OBVIOUS
<1>5. n * d = a - b
  BY <1>1, <1>2, <1>3, <1>4, Product
<1>6. QED
  BY <1>5, Product

\* The responses one and two windows before the next one took its slot.
LEMMA SameSlot ==
    ASSUME index \in Nat, NEW k \in Nat \ {0},
           k = index + 1 - Window \/ k = index + 1 - 2 * Window
    PROVE  (k - 1) % Window = index % Window
<1>0. Window \in Nat \ {0} /\ k - 1 \in Nat /\ k - 1 + Window \in Nat
  BY Sizes
<1>1. (k - 1 + Window) % Window = (k - 1) % Window
  BY <1>0, Periodic
<1>2. (k - 1 + Window + Window) % Window = (k - 1 + Window) % Window
  BY <1>0, Periodic
<1>3. index = k - 1 + Window \/ index = k - 1 + Window + Window
  BY <1>0
<1>4. QED
  BY <1>1, <1>2, <1>3

\* What was logged stays.
LEMMA LogKept ==
    ASSUME StateOK, [Next]_vars
    PROVE  /\ index' >= index
           /\ \A k \in 1..index : k \in 1..index' /\ log'[k] = log[k]
           /\ \A k, slot, duration : Took(k, slot, duration) => Took(k, slot, duration)'
           /\ \A k, from : IsRecent(k, from) => IsRecent(k, from)'
<1>1. /\ index' >= index /\ index' \in Nat
      /\ \A k \in 1..index : k \in 1..index' /\ log'[k] = log[k]
  BY DEF StateOK, Next, vars, Store, TakeSlot, ReadIndex, ReadSlot, ReturnAverage
<1>2. QED
  BY <1>1 DEF Took, IsRecent

-----------------------------------------------------------------------------
(* The invariant *)

\* What reading a slot adds to the locals of average_response_time_ms.
LEMMA SlotRead ==
    ASSUME StateOK, ReadSlot
    PROVE  /\ reader' \in Reading /\ reader'.index = reader.index
           /\ reader'.next = reader.next + Step /\ reader'.alone = reader.alone
           /\ SlotAt(reader.next) \in 0..(Window - 1)
           /\ \/ /\ ring[SlotAt(reader.next)] > 0
                 /\ reader'.sum = reader.sum + ring[SlotAt(reader.next)]
                 /\ reader'.valid = reader.valid + 1
              \/ /\ ring[SlotAt(reader.next)] = 0
                 /\ reader'.sum = reader.sum
                 /\ reader'.valid = reader.valid
<1> DEFINE slot == SlotAt(reader.next)
<1>1. Step \in Nat
  BY Sizes DEF Step
<1>2. reader.index + Window - 1 - reader.next \in Nat
  BY Sizes DEF ReadSlot, Count, StateOK, Reading
<1>3. slot \in 0..(Window - 1)
  BY <1>2, Sizes, Quotient DEF SlotAt
<1>4. PICK value \in Nat : value = ring[slot]
  BY <1>3 DEF StateOK
<1>5. PICK next \in Nat, sum \in Nat, valid \in Nat :
        /\ next = reader.next + Step
        /\ sum = IF value > 0 THEN reader.sum + value ELSE reader.sum
        /\ valid = IF value > 0 THEN reader.valid + 1 ELSE reader.valid
  BY <1>1 DEF StateOK, Reading
<1>6. reader \in Reading
  BY DEF StateOK
<1>7. reader' = [reader EXCEPT !.next = next, !.sum = sum, !.valid = valid]
  BY <1>4, <1>5 DEF ReadSlot, Counted
<1>8. reader' \in Reading
  BY <1>6, <1>7 DEF Reading
<1>9. /\ reader'.index = reader.index /\ reader'.next = next /\ reader'.sum = sum
      /\ reader'.valid = valid
  BY <1>6, <1>7 DEF Reading
<1>10. reader'.alone = reader.alone
  BY <1>6, <1>7 DEF Reading
<1>11. QED
  BY <1>3, <1>4, <1>5, <1>8, <1>9, <1>10

\* Every step keeps the types.
LEMMA StateKept ==
    ASSUME StateOK, [Next]_vars
    PROVE  StateOK'
<1> USE Sizes
<1>1. ASSUME NEW w \in Writer, NEW duration \in 0..MaxTime, TakeSlot(w, duration)
      PROVE  StateOK'
  <2>1. index % Window \in 0..(Window - 1)
    BY Quotient DEF StateOK
  <2>0. /\ index' = index + 1 /\ log' = Append(log, duration) /\ duration \in Nat
        /\ reader' = [reader EXCEPT !.alone = FALSE]
    BY <1>1 DEF TakeSlot
  <2>2. [slot |-> index % Window, duration |-> duration] \in Writing
    BY <2>1 DEF Writing
  <2>3. writer' \in [Writer -> Writing \cup {NoWrite}]
    BY <1>1, <2>2 DEF StateOK, TakeSlot
  <2>4. log' \in Seq(Nat) /\ Len(log') = index' /\ index' \in Nat
    BY <2>0 DEF StateOK
  <2>5. reader \in Reading /\ reader.index <= index /\ index \in Nat
    BY DEF StateOK
  <2>6. reader' \in Reading
    BY <2>0, <2>5 DEF Reading
  <2>7. reader'.index <= index'
    BY <2>0, <2>5 DEF Reading
  <2>8. QED
    BY <1>1, <2>3, <2>4, <2>6, <2>7 DEF StateOK, TakeSlot
<1>2. ASSUME NEW w \in Writer, Store(w)
      PROVE  StateOK'
  BY <1>2 DEF StateOK, Store, Writing
<1>3. ASSUME ReadIndex
      PROVE  StateOK'
  <2>1. Quiet \in BOOLEAN
    BY DEF Quiet
  <2>2. reader' = [pc |-> "scan", index |-> index, next |-> 0, sum |-> 0, valid |-> 0, alone |-> Quiet]
    BY <1>3 DEF ReadIndex, NoRead
  <2>3. reader' \in Reading /\ reader'.index <= index
    BY <2>1, <2>2 DEF StateOK, Reading
  <2>4. QED
    BY <1>3, <2>3 DEF StateOK, ReadIndex
<1>4. ASSUME ReadSlot
      PROVE  StateOK'
  BY <1>4, SlotRead DEF StateOK, ReadSlot
<1>5. ASSUME ReturnAverage
      PROVE  StateOK'
  BY <1>5 DEF StateOK, ReturnAverage, Reading, NoRead
<1>6. ASSUME UNCHANGED vars
      PROVE  StateOK'
  BY <1>6 DEF StateOK, vars
<1>7. QED
  BY <1>1, <1>2, <1>3, <1>4, <1>5, <1>6 DEF Next

\* What a task is about to store stays a response of the last window.
LEMMA StoreKept ==
    ASSUME StateOK, StateOK', StoreInv, [Next]_vars, ~lapped'
    PROVE  StoreInv'
<1> SUFFICES ASSUME NEW v \in Writer, writer'[v] # NoWrite
             PROVE  \E k \in Nat : Took(k, writer[v].slot, writer[v].duration)' /\ k > index' - Window
  BY DEF StoreInv
<1>0. index \in Nat /\ Window \in Nat \ {0}
  BY Sizes DEF StateOK
<1>1. ASSUME writer'[v] = writer[v], index' = index
      PROVE  \E k \in Nat : Took(k, writer[v].slot, writer[v].duration)' /\ k > index' - Window
  <2>1. PICK k \in Nat : Took(k, writer[v].slot, writer[v].duration) /\ k > index - Window
    BY <1>1 DEF StoreInv
  <2>2. k \in 1..index' /\ log'[k] = log[k]
    BY <1>1, <2>1, LogKept DEF Took
  <2>3. QED
    BY <1>1, <2>1, <2>2 DEF Took
<1>2. ASSUME NEW w \in Writer, NEW duration \in 0..MaxTime, TakeSlot(w, duration)
      PROVE  \E k \in Nat : Took(k, writer[v].slot, writer[v].duration)' /\ k > index' - Window
  <2>0. /\ index' = index + 1 /\ log' = Append(log, duration)
        /\ writer' = [writer EXCEPT ![w] = [slot |-> index % Window, duration |-> duration]]
        /\ \A u \in Writer : writer[u].slot # index % Window
    BY <1>2 DEF TakeSlot
  <2>1. CASE v = w
    <3>1. writer'[v].slot = index % Window /\ writer'[v].duration = duration
      BY <2>0, <2>1 DEF StateOK
    <3>2. log'[index + 1] = duration
      BY <2>0, Sizes DEF StateOK
    <3>3. index + 1 \in 1..index' /\ index + 1 - 1 = index /\ index + 1 > index' - Window
      BY <1>0, <2>0
    <3>4. QED
      BY <1>0, <3>1, <3>2, <3>3 DEF Took
  <2>2. CASE v # w
    <3>1. writer'[v] = writer[v]
      BY <2>0, <2>2 DEF StateOK
    <3>2. PICK k \in Nat : Took(k, writer[v].slot, writer[v].duration) /\ k > index - Window
      BY <3>1 DEF StoreInv
    <3>3. k # index + 1 - Window
      BY <1>0, <2>0, <3>2, SameSlot DEF Took
    <3>4. k > index' - Window
      BY <1>0, <2>0, <3>2, <3>3
    <3>5. k \in 1..index' /\ log'[k] = log[k]
      BY <3>2, LogKept DEF Took
    <3>6. QED
      BY <3>1, <3>2, <3>4, <3>5 DEF Took
  <2>3. QED
    BY <2>1, <2>2
<1>3. ASSUME NEW w \in Writer, Store(w)
      PROVE  writer'[v] = writer[v] /\ index' = index
  BY <1>3 DEF Store, StateOK
<1>4. ReadIndex \/ ReadSlot \/ ReturnAverage \/ UNCHANGED vars => writer' = writer /\ index' = index
  BY DEF ReadIndex, ReadSlot, ReturnAverage, vars
<1>5. QED
  BY <1>1, <1>2, <1>3, <1>4 DEF Next

\* The slots stay those of the last window, or of the one before where a store is due.
LEMMA SlotKept ==
    ASSUME StateOK, StateOK', StoreInv, SlotInv, [Next]_vars, ~lapped'
    PROVE  SlotInv'
<1> DEFINE Due(s) == \E u \in Writer : writer[u].slot = s
<1> SUFFICES ASSUME NEW s \in 0..(Window - 1), ring'[s] # 0
             PROVE  \E k \in Nat : /\ Took(k, s, ring[s])'
                                   /\ k > index' - 2 * Window
                                   /\ k > index' - Window \/ Due(s)'
  BY DEF SlotInv
<1>0. index \in Nat /\ Window \in Nat \ {0}
  BY Sizes DEF StateOK
<1>1. ASSUME ring' = ring, index' = index, writer' = writer
      PROVE  \E k \in Nat : /\ Took(k, s, ring[s])'
                            /\ k > index' - 2 * Window
                            /\ k > index' - Window \/ Due(s)'
  <2>1. PICK k \in Nat : Took(k, s, ring[s]) /\ k > index - 2 * Window /\ (k > index - Window \/ Due(s))
    BY <1>1 DEF SlotInv
  <2>2. k \in 1..index' /\ log'[k] = log[k]
    BY <2>1, LogKept DEF Took
  <2>3. QED
    BY <1>1, <2>1, <2>2 DEF Took
<1>2. ASSUME NEW w \in Writer, NEW duration \in 0..MaxTime, TakeSlot(w, duration)
      PROVE  \E k \in Nat : /\ Took(k, s, ring[s])'
                            /\ k > index' - 2 * Window
                            /\ k > index' - Window \/ Due(s)'
  <2>1. /\ index' = index + 1 /\ ring' = ring
        /\ writer' = [writer EXCEPT ![w] = [slot |-> index % Window, duration |-> duration]]
        /\ ~Due(index % Window) /\ writer[w] = NoWrite
    BY <1>2 DEF TakeSlot
  <2>2. PICK k \in Nat : Took(k, s, ring[s]) /\ k > index - 2 * Window /\ (k > index - Window \/ Due(s))
    BY <2>1 DEF SlotInv
  <2>3. Took(k, s, ring[s])'
    <3>1. k \in 1..index' /\ log'[k] = log[k]
      BY <2>2, LogKept DEF Took
    <3>2. QED
      BY <2>1, <2>2, <3>1 DEF Took
  <2>4. CASE s = index % Window
    <3>1. k > index - Window
      BY <2>1, <2>2, <2>4
    <3>2. k > index' - 2 * Window
      BY <1>0, <2>1, <3>1
    <3>3. writer'[w].slot = s
      BY <2>1, <2>4 DEF StateOK
    <3>4. QED
      BY <2>1, <2>3, <3>2, <3>3
  <2>5. CASE s # index % Window
    <3>1. k # index + 1 - Window /\ k # index + 1 - 2 * Window
      BY <1>0, <2>2, <2>5, SameSlot DEF Took
    <3>2. k > index' - 2 * Window /\ (k > index' - Window \/ Due(s))
      BY <1>0, <2>1, <2>2, <3>1
    <3>3. ASSUME NEW u \in Writer, writer[u].slot = s
          PROVE  writer'[u].slot = s
      <4>1. u # w
        BY <2>1, <3>3 DEF NoWrite
      <4>2. QED
        BY <2>1, <3>3, <4>1 DEF StateOK
    <3>4. QED
      BY <2>1, <2>3, <3>2, <3>3
  <2>6. QED
    BY <2>4, <2>5
<1>3. ASSUME NEW w \in Writer, Store(w)
      PROVE  \E k \in Nat : /\ Took(k, s, ring[s])'
                            /\ k > index' - 2 * Window
                            /\ k > index' - Window \/ Due(s)'
  <2>1. /\ index' = index /\ log' = log /\ writer[w] # NoWrite
        /\ ring' = [ring EXCEPT ![writer[w].slot] = writer[w].duration]
        /\ writer' = [writer EXCEPT ![w] = NoWrite]
    BY <1>3 DEF Store
  <2>2. CASE s = writer[w].slot
    <3>1. ring'[s] = writer[w].duration
      BY <2>1, <2>2 DEF StateOK
    <3>2. PICK k \in Nat : Took(k, writer[w].slot, writer[w].duration) /\ k > index - Window
      BY <2>1 DEF StoreInv
    <3>3. k > index' - 2 * Window /\ k > index' - Window
      BY <1>0, <2>1, <3>2
    <3>4. QED
      BY <2>1, <2>2, <3>1, <3>2, <3>3 DEF Took
  <2>3. CASE s # writer[w].slot
    <3>1. ring'[s] = ring[s]
      BY <2>1, <2>3 DEF StateOK
    <3>2. PICK k \in Nat : Took(k, s, ring[s]) /\ k > index - 2 * Window /\ (k > index - Window \/ Due(s))
      BY <3>1 DEF SlotInv
    <3>3. ASSUME NEW u \in Writer, writer[u].slot = s
          PROVE  writer'[u].slot = s
      <4>1. u # w
        BY <2>3, <3>3
      <4>2. QED
        BY <2>1, <3>3, <4>1 DEF StateOK
    <3>4. QED
      BY <2>1, <3>1, <3>2, <3>3 DEF Took
  <2>4. QED
    BY <2>2, <2>3
<1>4. ReadIndex \/ ReadSlot \/ ReturnAverage \/ UNCHANGED vars
        => ring' = ring /\ writer' = writer /\ index' = index
  BY DEF ReadIndex, ReadSlot, ReturnAverage, vars
<1>5. QED
  BY <1>1, <1>2, <1>3, <1>4 DEF Next

\* One more response between the shortest and the longest keeps the sum between them.
LEMMA OneMore ==
    ASSUME NEW sum \in Nat, NEW n \in Nat, NEW x \in Nat, NEW y \in Nat
    PROVE  /\ x * n <= sum /\ x <= y => x * (n + 1) <= sum + y
           /\ x * n >= sum /\ x >= y => x * (n + 1) >= sum + y
           /\ x * n <= sum /\ y <= x => y * (n + 1) <= sum + y
           /\ x * n >= sum /\ y >= x => y * (n + 1) >= sum + y
<1>1. x * (n + 1) = x * n + x /\ y * (n + 1) = y * n + y
  OBVIOUS
<1>2. x * n \in Nat /\ y * n \in Nat
  OBVIOUS
<1>3. (x <= y => x * n <= y * n) /\ (y <= x => y * n <= x * n)
  OBVIOUS
<1>4. QED
  BY <1>1, <1>2, <1>3

\* The sum of an average stays between multiples of two recent responses.
LEMMA SumKept ==
    ASSUME StateOK, StateOK', SlotInv, SumInv, [Next]_vars
    PROVE  SumInv'
<1>0. /\ index \in Nat /\ Window \in Nat \ {0}
      /\ reader.index \in Nat /\ reader.index <= index
      /\ reader.sum \in Nat /\ reader.valid \in Nat
  BY Sizes DEF StateOK, Reading
<1>1. ASSUME NEW k \in Nat, NEW from, IsRecent(k, from)
      PROVE  /\ IsRecent(k, from)' /\ log'[k] = log[k] /\ log[k] \in Nat
  BY <1>1, LogKept DEF IsRecent, StateOK
<1>2. CASE reader'.valid = 0 /\ reader'.sum = 0
  BY <1>2 DEF SumInv
<1>3. CASE reader'.index = reader.index /\ reader'.sum = reader.sum /\ reader'.valid = reader.valid
  <2>1. ASSUME reader.valid > 0
        PROVE  /\ \E k \in Nat : IsRecent(k, reader.index)' /\ log'[k] * reader.valid <= reader.sum
               /\ \E k \in Nat : IsRecent(k, reader.index)' /\ log'[k] * reader.valid >= reader.sum
    <3>1. PICK k \in Nat : IsRecent(k, reader.index) /\ log[k] * reader.valid <= reader.sum
      BY <2>1 DEF SumInv
    <3>2. PICK l \in Nat : IsRecent(l, reader.index) /\ log[l] * reader.valid >= reader.sum
      BY <2>1 DEF SumInv
    <3>3. /\ IsRecent(k, reader.index)' /\ log'[k] = log[k]
          /\ IsRecent(l, reader.index)' /\ log'[l] = log[l]
      BY <1>3, <3>1, <3>2, LogKept DEF IsRecent
    <3>4. QED
      BY <3>1, <3>2, <3>3
  <2>2. QED
    BY <1>3, <2>1 DEF SumInv
<1>4. ASSUME NEW s \in 0..(Window - 1), ring[s] > 0, index' = index, log' = log,
             reader'.index = reader.index,
             reader'.sum = reader.sum + ring[s], reader'.valid = reader.valid + 1
      PROVE  SumInv'
  <2>1. PICK m \in Nat : Took(m, s, ring[s]) /\ m > index - 2 * Window
    BY <1>4 DEF SlotInv
  <2>2. IsRecent(m, reader.index) /\ log[m] = ring[s] /\ log[m] \in Nat
    <3>1. m \in 1..index /\ log[m] = ring[s]
      BY <2>1 DEF Took
    <3>2. m > reader.index - 2 * Window
      BY <1>0, <2>1
    <3>3. log[m] \in Nat
      BY <3>1 DEF StateOK
    <3>4. QED
      BY <1>4, <3>1, <3>2, <3>3 DEF IsRecent
  <2>3. \A k \in Nat : IsRecent(k, reader.index) => IsRecent(k, reader.index)' /\ log[k] \in Nat
    BY <1>4 DEF IsRecent, StateOK
  <2>4. PICK y \in Nat : y = log[m]
    BY <2>2
  <2>5. \E k \in Nat : IsRecent(k, reader.index) /\ log[k] * (reader.valid + 1) <= reader.sum + y
    <3>1. CASE reader.valid = 0
      BY <1>0, <2>2, <2>4, <3>1 DEF SumInv
    <3>2. CASE reader.valid > 0
      <4>1. PICK k \in Nat : IsRecent(k, reader.index) /\ log[k] * reader.valid <= reader.sum
        BY <3>2 DEF SumInv
      <4>2. PICK x \in Nat : x = log[k]
        BY <2>3, <4>1
      <4>3. \/ x * (reader.valid + 1) <= reader.sum + y
            \/ y * (reader.valid + 1) <= reader.sum + y
        BY <1>0, <4>1, <4>2, OneMore
      <4>4. QED
        BY <2>2, <2>4, <4>1, <4>2, <4>3
    <3>3. QED
      BY <1>0, <3>1, <3>2
  <2>6. \E k \in Nat : IsRecent(k, reader.index) /\ log[k] * (reader.valid + 1) >= reader.sum + y
    <3>1. CASE reader.valid = 0
      BY <1>0, <2>2, <2>4, <3>1 DEF SumInv
    <3>2. CASE reader.valid > 0
      <4>1. PICK k \in Nat : IsRecent(k, reader.index) /\ log[k] * reader.valid >= reader.sum
        BY <3>2 DEF SumInv
      <4>2. PICK x \in Nat : x = log[k]
        BY <2>3, <4>1
      <4>3. \/ x * (reader.valid + 1) >= reader.sum + y
            \/ y * (reader.valid + 1) >= reader.sum + y
        BY <1>0, <4>1, <4>2, OneMore
      <4>4. QED
        BY <2>2, <2>4, <4>1, <4>2, <4>3
    <3>3. QED
      BY <1>0, <3>1, <3>2
  <2>7. reader'.valid # 0 /\ reader'.sum = reader.sum + y
    BY <1>0, <1>4, <2>2, <2>4
  <2>8. PICK v \in Nat, t \in Nat : v = reader'.valid /\ t = reader'.sum /\ v = reader.valid + 1
    BY <1>0, <1>4, <2>2
  <2>9. QED
    BY <1>4, <2>3, <2>5, <2>6, <2>7, <2>8 DEF SumInv
<1>5. CASE ReadIndex \/ ReturnAverage
  <2>1. CASE ReadIndex
    <3>1. reader' = [pc |-> "scan", index |-> index, next |-> 0, sum |-> 0, valid |-> 0,
                     alone |-> Quiet]
      BY <2>1 DEF ReadIndex, NoRead
    <3>2. QED
      BY <3>1, <1>2
  <2>2. CASE ReturnAverage
    <3>1. reader' = [pc |-> "idle", index |-> 0, next |-> 0, sum |-> 0, valid |-> 0, alone |-> FALSE]
      BY <2>2 DEF ReturnAverage, NoRead
    <3>2. QED
      BY <3>1, <1>2
  <2>3. QED
    BY <1>5, <2>1, <2>2
<1>6. CASE ReadSlot
  <2>1. index' = index /\ log' = log /\ reader'.index = reader.index
    BY <1>6, SlotRead DEF ReadSlot
  <2>2. PICK s \in 0..(Window - 1) :
            \/ /\ ring[s] > 0
               /\ reader'.sum = reader.sum + ring[s] /\ reader'.valid = reader.valid + 1
            \/ reader'.sum = reader.sum /\ reader'.valid = reader.valid
    BY <1>6, SlotRead
  <2>3. QED
    BY <1>3, <1>4, <2>1, <2>2
<1>7. CASE \E w \in Writer : Store(w) \/ \E duration \in 0..MaxTime : TakeSlot(w, duration)
  <2>1. reader' = reader \/ reader' = [reader EXCEPT !.alone = FALSE]
    BY <1>7 DEF Store, TakeSlot
  <2>2. reader'.index = reader.index /\ reader'.sum = reader.sum /\ reader'.valid = reader.valid
    BY <2>1 DEF StateOK, Reading
  <2>3. QED
    BY <1>3, <2>2
<1>8. CASE UNCHANGED vars
  BY <1>3, <1>8 DEF vars
<1>9. QED
  BY <1>5, <1>6, <1>7, <1>8 DEF Next

-----------------------------------------------------------------------------

\* The bounds of the sum are those of the mean.
LEMMA RecentAverage ==
    ASSUME RecentInv
    PROVE  AverageIsRecent
<1> DEFINE recent == {k \in 1..Len(log) : k > reader.index - 2 * Window /\ log[k] > 0}
<1> SUFFICES ASSUME Scanned, reader.valid > 0, ~lapped
             PROVE  /\ \E k \in recent : log[k] * Mean[2] <= Mean[1]
                    /\ \E k \in recent : log[k] * Mean[2] >= Mean[1]
  BY DEF AverageIsRecent
<1>1. StateOK /\ SumInv
  BY DEF RecentInv
<1>2. Mean[1] = reader.sum /\ Mean[2] = reader.valid
  BY DEF Mean
<1>3. \A k : IsRecent(k, reader.index) => k \in recent
  BY <1>1 DEF IsRecent, StateOK
<1>4. /\ \E k \in Nat : IsRecent(k, reader.index) /\ log[k] * reader.valid <= reader.sum
      /\ \E k \in Nat : IsRecent(k, reader.index) /\ log[k] * reader.valid >= reader.sum
  BY <1>1 DEF SumInv
<1>5. QED
  BY <1>2, <1>3, <1>4

\* The mean lies between the shortest and the longest response of the two windows before the
\* scan began and of those since, whatever stores are under way while
\* average_response_time_ms reads slot after slot, as long as no store is overtaken by a whole
\* window.
THEOREM AverageWasRecent == Spec => []AverageIsRecent
<1>1. Init => RecentInv
  <2> SUFFICES ASSUME Init
               PROVE  RecentInv
    OBVIOUS
  <2>1. reader \in Reading
    BY DEF Init, Reading, NoRead
  <2>2. StateOK
    BY <2>1, Sizes DEF Init, StateOK, NoRead
  <2>3. StoreInv /\ SlotInv /\ SumInv
    BY DEF Init, StoreInv, SlotInv, SumInv, NoRead
  <2>4. QED
    BY <2>2, <2>3 DEF RecentInv
<1>2. RecentInv /\ [Next]_vars => RecentInv'
  <2> SUFFICES ASSUME RecentInv, [Next]_vars
               PROVE  RecentInv'
    OBVIOUS
  <2>1. StateOK /\ StateOK'
    BY StateKept DEF RecentInv
  <2>2. ASSUME ~lapped'
        PROVE  ~lapped
    BY <2>2 DEF Next, vars, Store, TakeSlot, ReadIndex, ReadSlot, ReturnAverage
  <2>3. ASSUME ~lapped'
        PROVE  StoreInv' /\ SlotInv' /\ SumInv'
    BY <2>1, <2>2, <2>3, StoreKept, SlotKept, SumKept DEF RecentInv
  <2>4. QED
    BY <2>1, <2>3 DEF RecentInv
<1>3. RecentInv => AverageIsRecent
  BY RecentAverage
<1>4. QED
  BY <1>1, <1>2, <1>3, PTL DEF Spec

-----------------------------------------------------------------------------
(* Sums *)

\* The units of which the sum of f over a set consists.
Units(f, S) == {u \in S \X Nat : u[2] \in 1..f[u[1]]}

Pick(S) == CHOOSE x \in S : TRUE

\* The recursion of the sum, one element after another.
Unfolds(f, S, g) == 
  g = [T \in SUBSET S |-> IF T = {} THEN 0 ELSE f[Pick(T)] + g[T \ {Pick(T)}]]

\* A set of sets of the elements of a finite set has one that contains no other.
LEMMA Smallest ==
    ASSUME NEW S, IsFiniteSet(S), NEW family, family \subseteq SUBSET S, family # {}
    PROVE  \E T \in family : \A U \in family : U \subseteq T => U = T
<1>1. IsWellFoundedOn(StrictSubsetOrdering(S), SUBSET S)
  BY FS_StrictSubsetOrderingWellFounded, FS_FiniteSubsetsOfFinite
<1>2. \E T \in family : \A U \in family : ~(<<U, T>> \in StrictSubsetOrdering(S))
  BY <1>1, WFMin
<1>3. QED
  BY <1>2 DEF StrictSubsetOrdering

\* The units of one element.
LEMMA UnitsOfOne ==
    ASSUME NEW f, NEW x, f[x] \in Nat
    PROVE  IsFiniteSet(Units(f, {x})) /\ Cardinality(Units(f, {x})) = f[x]
<1> DEFINE b == [j \in 1..f[x] |-> <<x, j>>]
<1>1. IsFiniteSet(1..f[x]) /\ Cardinality(1..f[x]) = f[x]
  BY FS_Interval
<1>2. \A u \in Units(f, {x}) : u = <<x, u[2]>> /\ u[2] \in 1..f[x]
  BY DEF Units
<1>3. \A j \in 1..f[x] : b[j] \in Units(f, {x})
  BY DEF Units
<1>4. b \in Bijection(1..f[x], Units(f, {x}))
  <2>1. b \in [1..f[x] -> Units(f, {x})]
    BY <1>3
  <2>2. \A i, j \in 1..f[x] : b[i] = b[j] => i = j
    OBVIOUS
  <2>3. \A u \in Units(f, {x}) : \E j \in 1..f[x] : b[j] = u
    BY <1>2
  <2>4. QED
    BY <2>1, <2>2, <2>3 DEF Bijection, Injection, Surjection, IsInjective
<1>5. QED
  BY <1>1, <1>4, FS_Bijection DEF ExistsBijection

\* An element adds its own units.
LEMMA UnitsAdd ==
    ASSUME NEW f, NEW S, NEW x, x \notin S, f[x] \in Nat, IsFiniteSet(Units(f, S))
    PROVE  /\ IsFiniteSet(Units(f, S \cup {x}))
           /\ Cardinality(Units(f, S \cup {x})) = f[x] + Cardinality(Units(f, S))
<1>1. Units(f, S \cup {x}) = Units(f, S) \cup Units(f, {x})
  BY DEF Units
<1>2. Units(f, S) \cap Units(f, {x}) = {}
  BY DEF Units
<1>3. Cardinality(Units(f, S)) \in Nat /\ Cardinality({}) = 0
  BY FS_CardinalityType, FS_EmptySet
<1>4. IsFiniteSet(Units(f, {x})) /\ Cardinality(Units(f, {x})) = f[x]
  BY UnitsOfOne
<1>5. /\ IsFiniteSet(Units(f, S) \cup Units(f, {x}))
      /\ Cardinality(Units(f, S) \cup Units(f, {x})) =
            Cardinality(Units(f, S)) + Cardinality(Units(f, {x})) - Cardinality(Units(f, S) \cap Units(f, {x}))
  BY <1>4, FS_Union
<1>6. Cardinality(Units(f, S) \cap Units(f, {x})) = 0
  BY <1>2, <1>3
<1>7. Cardinality(Units(f, S) \cup Units(f, {x})) = f[x] + Cardinality(Units(f, S))
  BY <1>3, <1>4, <1>5, <1>6
<1>8. QED
  BY <1>1, <1>5, <1>7

\* The units of a finite set are finitely many.
LEMMA UnitsFinite ==
    ASSUME NEW f, NEW S, IsFiniteSet(S), \A x \in S : f[x] \in Nat
    PROVE  IsFiniteSet(Units(f, S))
<1>0. SUFFICES ASSUME ~IsFiniteSet(Units(f, S)) PROVE FALSE
  OBVIOUS
<1>1. PICK bad : bad = {T \in SUBSET S : ~IsFiniteSet(Units(f, T))}
  OBVIOUS
<1>2. PICK T \in bad : \A U \in bad : U \subseteq T => U = T
  <2>1. bad \subseteq SUBSET S /\ bad # {}
    BY <1>0, <1>1
  <2>2. QED
    BY <2>1, Smallest
<1>3. T # {}
  <2>1. Units(f, {}) = {}
    BY DEF Units
  <2>2. QED
    BY <1>1, <2>1, FS_EmptySet
<1>4. PICK x \in T : TRUE
  BY <1>3
<1>5. IsFiniteSet(Units(f, T \ {x}))
  BY <1>1, <1>2
<1>6. (T \ {x}) \cup {x} = T
  OBVIOUS
<1>7. QED
  BY <1>1, <1>5, <1>6, UnitsAdd

\* A sum is the number of its units, in whatever order the elements are added.
LEMMA SumIsCount ==
    ASSUME NEW f, NEW S, IsFiniteSet(S), \A x \in S : f[x] \in Nat
    PROVE  MapThenSumSet(LAMBDA k : f[k], S) = Cardinality(Units(f, S))
<1> DEFINE g == CHOOSE h : Unfolds(f, S, h)
           count == [T \in SUBSET S |-> Cardinality(Units(f, T))]
<1>1. MapThenSumSet(LAMBDA k : f[k], S) = g[S]
  BY DEF MapThenSumSet, MapThenFoldSet, Unfolds, Pick
<1>2. ASSUME NEW T \in SUBSET S, T # {}
      PROVE  /\ Pick(T) \in T
             /\ Cardinality(Units(f, T)) = f[Pick(T)] + Cardinality(Units(f, T \ {Pick(T)}))
  <2>1. Pick(T) \in T
    BY <1>2 DEF Pick
  <2>2. PICK x \in T : x = Pick(T)
    BY <2>1
  <2>3. IsFiniteSet(T \ {x}) /\ (T \ {x}) \cup {x} = T
    BY FS_Subset
  <2>4. IsFiniteSet(Units(f, T \ {x}))
    BY <2>3, UnitsFinite
  <2>5. Cardinality(Units(f, T)) = f[x] + Cardinality(Units(f, T \ {x}))
    BY <2>3, <2>4, UnitsAdd
  <2>6. QED
    BY <2>1, <2>2, <2>5
<1>3. Cardinality(Units(f, {})) = 0
  <2>1. Units(f, {}) = {}
    BY DEF Units
  <2>2. QED
    BY <2>1, FS_EmptySet
<1>4. Unfolds(f, S, count)
  <2>1. \A T \in SUBSET S : count[T] = IF T = {} THEN 0 ELSE f[Pick(T)] + count[T \ {Pick(T)}]
    BY <1>2, <1>3
  <2>2. QED
    BY <2>1 DEF Unfolds
<1>5. Unfolds(f, S, g)
  BY <1>4
<1>6. ASSUME NEW T \in SUBSET S
      PROVE  g[T] = IF T = {} THEN 0 ELSE f[Pick(T)] + g[T \ {Pick(T)}]
  BY <1>5 DEF Unfolds
<1> HIDE DEF g
<1>7. PICK bad : bad = {T \in SUBSET S : g[T] # Cardinality(Units(f, T))}
  OBVIOUS
<1>8. bad = {}
  <2>1. SUFFICES ASSUME bad # {} PROVE FALSE
    OBVIOUS
  <2>2. PICK T \in bad : \A U \in bad : U \subseteq T => U = T
    <3>1. bad \subseteq SUBSET S
      BY <1>7
    <3>2. QED
      BY <2>1, <3>1, Smallest
  <2>3. T # {}
    BY <1>3, <1>6, <1>7, <2>2
  <2>4. g[T \ {Pick(T)}] = Cardinality(Units(f, T \ {Pick(T)}))
    BY <1>2, <1>7, <2>2, <2>3
  <2>5. QED
    BY <1>2, <1>6, <1>7, <2>2, <2>3, <2>4
<1>9. QED
  BY <1>1, <1>7, <1>8

-----------------------------------------------------------------------------
(* The mean of a window at rest *)

\* Each response of the last window is in its slot, or its store is due.
ExactInv ==
    \A k \in 1..index : k > index - Window =>
        \/ ring[(k - 1) % Window] = log[k]
        \/ \E w \in Writer : writer[w].slot = (k - 1) % Window

\* A reader is alone while nothing is recorded.
AloneInv == reader.alone => Quiet /\ reader.index = index

\* The responses that a scan from this index has looked at when it is at n, and among them
\* those that took any time.
Seen(from, count, step, n) == {from - i : i \in {j \in 0..(count - 1) : j % step = 0 /\ j < n}}
Timed(times, S) == {k \in S : times[k] > 0}

Read == Timed(log, Seen(reader.index, Count, Step, reader.next))

\* A scan at rest has counted and summed what it has looked at.
CountInv ==
    reader.alone =>
        /\ reader.next % Step = 0
        /\ reader.valid = Cardinality(Read)
        /\ reader.sum = Cardinality(Units(log, Read))

WindowInv == StateOK /\ AloneInv /\ (~lapped => StoreInv /\ ExactInv /\ CountInv)

\* A response stays in its slot until the next window takes it.
LEMMA ExactKept ==
    ASSUME StateOK, StateOK', StoreInv, ExactInv, [Next]_vars
    PROVE  ExactInv'
<1> SUFFICES ASSUME NEW k \in 1..index', k > index' - Window
             PROVE  \/ ring'[(k - 1) % Window] = log'[k]
                    \/ \E v \in Writer : writer'[v].slot = (k - 1) % Window
  BY DEF ExactInv
<1>0. /\ index \in Nat /\ index' \in Nat /\ index <= index' /\ Window \in Nat \ {0}
      /\ k - 1 \in Nat /\ k \in Nat
  BY Sizes, LogKept DEF StateOK
<1>1. PICK s \in 0..(Window - 1) : s = (k - 1) % Window
  BY <1>0, Quotient
<1>2. ASSUME k \in 1..index
      PROVE  /\ log'[k] = log[k]
             /\ ring[s] = log[k] \/ \E v \in Writer : writer[v].slot = s
  BY <1>0, <1>1, <1>2, LogKept DEF ExactInv
<1>3. CASE ring' = ring /\ writer' = writer /\ index' = index
  BY <1>1, <1>2, <1>3
<1>4. ASSUME NEW w \in Writer, NEW duration \in 0..MaxTime, TakeSlot(w, duration)
      PROVE  ring'[s] = log'[k] \/ \E v \in Writer : writer'[v].slot = s
  <2>1. /\ index' = index + 1 /\ ring' = ring /\ writer[w] = NoWrite
        /\ writer' = [writer EXCEPT ![w] = [slot |-> index % Window, duration |-> duration]]
    BY <1>4 DEF TakeSlot
  <2>2. CASE k = index + 1
    <3>1. writer'[w].slot = s
      BY <1>0, <1>1, <2>1, <2>2 DEF StateOK
    <3>2. QED
      BY <3>1
  <2>3. CASE k # index + 1
    <3>1. k \in 1..index
      BY <1>0, <2>1, <2>3
    <3>2. ASSUME NEW u \in Writer, writer[u].slot = s
          PROVE  writer'[u].slot = s
      <4>1. u # w
        BY <2>1, <3>2 DEF NoWrite
      <4>2. QED
        BY <2>1, <3>2, <4>1 DEF StateOK
    <3>3. QED
      BY <1>2, <2>1, <3>1, <3>2
  <2>4. QED
    BY <2>2, <2>3
<1>5. ASSUME NEW w \in Writer, Store(w)
      PROVE  ring'[s] = log'[k] \/ \E v \in Writer : writer'[v].slot = s
  <2>1. /\ index' = index /\ log' = log /\ writer[w] # NoWrite
        /\ ring' = [ring EXCEPT ![writer[w].slot] = writer[w].duration]
        /\ writer' = [writer EXCEPT ![w] = NoWrite]
    BY <1>5 DEF Store
  <2>2. CASE writer[w].slot = s
    <3>1. PICK l \in Nat : Took(l, writer[w].slot, writer[w].duration) /\ l > index - Window
      BY <2>1 DEF StoreInv
    <3>2. /\ l \in 1..index /\ (l - 1) % Window = s /\ log[l] = writer[w].duration
      BY <2>2, <3>1 DEF Took
    <3>3. l - 1 = k - 1
      <4>1. /\ l - 1 \in Nat /\ (l - 1) % Window = (k - 1) % Window
            /\ (l - 1) - (k - 1) < Window /\ (k - 1) - (l - 1) < Window
        BY <1>0, <1>1, <2>1, <3>1, <3>2
      <4>2. QED
        BY <1>0, <4>1, SameRemainder
    <3>4. l = k
      BY <1>0, <3>2, <3>3
    <3>5. ring'[s] = writer[w].duration
      BY <2>1, <2>2 DEF StateOK
    <3>6. QED
      BY <2>1, <3>2, <3>4, <3>5
  <2>3. CASE writer[w].slot # s
    <3>1. ring'[s] = ring[s]
      BY <2>1, <2>3 DEF StateOK
    <3>2. ASSUME NEW u \in Writer, writer[u].slot = s
          PROVE  writer'[u].slot = s
      <4>1. u # w
        BY <2>3, <3>2
      <4>2. QED
        BY <2>1, <3>2, <4>1 DEF StateOK
    <3>3. QED
      BY <1>2, <2>1, <3>1, <3>2
  <2>4. QED
    BY <2>2, <2>3
<1>6. ReadIndex \/ ReadSlot \/ ReturnAverage \/ UNCHANGED vars
        => ring' = ring /\ writer' = writer /\ index' = index
  BY DEF ReadIndex, ReadSlot, ReturnAverage, vars
<1>7. QED
  BY <1>1, <1>3, <1>4, <1>5, <1>6 DEF Next

\* Recording anything ends the solitude of a reader.
LEMMA AtRest ==
    ASSUME StateOK, AloneInv, reader'.alone, NEW w \in Writer
    PROVE  ~Store(w) /\ \A duration : ~TakeSlot(w, duration)
<1>1. ASSUME NEW duration, TakeSlot(w, duration)
      PROVE  FALSE
  <2>1. reader' = [reader EXCEPT !.alone = FALSE] /\ reader \in Reading
    BY <1>1 DEF TakeSlot, StateOK
  <2>2. ~reader'.alone
    BY <2>1 DEF Reading
  <2>3. QED
    BY <2>2
<1>2. ASSUME Store(w)
      PROVE  FALSE
  <2>1. reader.alone /\ writer[w] # NoWrite
    BY <1>2 DEF Store
  <2>2. QED
    BY <2>1 DEF AloneInv, Quiet
<1>3. QED
  BY <1>1, <1>2

\* Every step keeps what a reader alone relies on.
LEMMA AloneKept ==
    ASSUME StateOK, AloneInv, [Next]_vars
    PROVE  AloneInv'
<1> SUFFICES ASSUME reader'.alone
             PROVE  Quiet' /\ reader'.index = index'
  BY DEF AloneInv
<1>1. CASE reader' = reader /\ writer' = writer /\ index' = index
  BY <1>1 DEF AloneInv, Quiet
<1>2. ASSUME NEW w \in Writer
      PROVE  ~Store(w) /\ \A duration : ~TakeSlot(w, duration)
  BY AtRest
<1>4. CASE ReadIndex
  <2>1. reader' = [pc |-> "scan", index |-> index, next |-> 0, sum |-> 0, valid |-> 0, alone |-> Quiet]
    BY <1>4 DEF ReadIndex, NoRead
  <2>2. reader'.index = index /\ reader'.alone = Quiet
    BY <2>1
  <2>3. Quiet
    BY <2>2
  <2>4. QED
    BY <1>4, <2>2, <2>3 DEF ReadIndex, Quiet
<1>5. CASE ReadSlot
  BY <1>5, SlotRead DEF AloneInv, Quiet, ReadSlot
<1>6. CASE ReturnAverage
  BY <1>6 DEF ReturnAverage, NoRead
<1>7. QED
  BY <1>1, <1>2, <1>4, <1>5, <1>6 DEF Next, vars

\* A step of the scan looks at one more response.
LEMMA SeenNext ==
    ASSUME NEW from \in Nat, NEW count \in Nat, NEW step \in Nat \ {0}, NEW n \in Nat,
           n < count, n % step = 0
    PROVE  /\ (n + step) % step = 0
           /\ Seen(from, count, step, n + step) = Seen(from, count, step, n) \cup {from - n}
           /\ from - n \notin Seen(from, count, step, n)
<1> DEFINE J(m) == {j \in 0..(count - 1) : j % step = 0 /\ j < m}
<1>1. (n + step) % step = 0
  BY Periodic
<1>2. ASSUME NEW j \in 0..(count - 1), j % step = 0, j < n + step, ~(j < n)
      PROVE  j = n
  <2>1. j - n < step /\ n - j < step /\ j % step = n % step /\ j \in Nat
    BY <1>2
  <2>2. QED
    BY <2>1, SameRemainder
<1>3. J(n + step) = J(n) \cup {n}
  BY <1>2
<1>4. \A m : Seen(from, count, step, m) = {from - i : i \in J(m)}
  BY DEF Seen
<1>5. n \notin J(n) /\ J(n) \subseteq Nat
  OBVIOUS
<1> HIDE DEF J
<1>6. QED
  BY <1>1, <1>3, <1>4, <1>5

\* What a scan looks at are responses of the log.
LEMMA SeenLogged ==
    ASSUME NEW from \in Nat, NEW count \in Nat, count <= from, NEW step, NEW n
    PROVE  Seen(from, count, step, n) \subseteq 1..from /\ IsFiniteSet(Seen(from, count, step, n))
<1>1. Seen(from, count, step, n) \subseteq 1..from
  BY DEF Seen
<1>2. IsFiniteSet(1..from)
  BY FS_Interval
<1>3. QED
  BY <1>1, <1>2, FS_Subset

\* The slot that a reader at rest looks at has the response it should have.
LEMMA ExactRead ==
    ASSUME StateOK, ExactInv, Quiet, reader.index = index, ReadSlot
    PROVE  /\ index - reader.next \in 1..index
           /\ ring[SlotAt(reader.next)] = log[index - reader.next]
<1>1. PICK n \in Nat : n = reader.next
  BY DEF StateOK, Reading
<1>2. /\ index \in Nat /\ Window \in Nat \ {0} /\ n < index /\ n < Window
  BY <1>1, Sizes DEF StateOK, ReadSlot, Count
<1>3. PICK k \in 1..index : k = index - n
  BY <1>2
<1>4. k > index - Window /\ k - 1 \in Nat /\ index + Window - 1 - n = (k - 1) + Window
  BY <1>2, <1>3
<1>5. SlotAt(reader.next) = (k - 1) % Window
  <2>1. ((k - 1) + Window) % Window = (k - 1) % Window
    BY <1>2, <1>4, Periodic
  <2>2. QED
    BY <1>1, <1>4, <2>1 DEF SlotAt
<1>6. (k - 1) % Window \in 0..(Window - 1)
  BY <1>2, <1>4, Quotient
<1>7. \A w \in Writer : writer[w].slot # (k - 1) % Window
  BY <1>2, <1>6 DEF Quiet, NoWrite
<1>8. ring[(k - 1) % Window] = log[k]
  BY <1>3, <1>4, <1>7 DEF ExactInv
<1>9. QED
  BY <1>1, <1>3, <1>5, <1>8

\* A scan at rest goes on counting and summing what it looks at.
LEMMA CountKept ==
    ASSUME StateOK, StateOK', AloneInv, AloneInv', ExactInv, CountInv, [Next]_vars
    PROVE  CountInv'
<1>1. CASE ReadSlot /\ reader.alone
  <2>1. PICK from \in Nat, count \in Nat, step \in Nat \ {0}, n \in Nat :
            from = reader.index /\ count = Count /\ step = Step /\ n = reader.next
    <3>1. reader.index \in Nat /\ reader.next \in Nat
      BY DEF StateOK, Reading
    <3>2. Count \in Nat /\ Step \in Nat \ {0}
      BY <3>1, Sizes DEF Count, Step
    <3>3. QED
      BY <3>1, <3>2
  <2>2. /\ Quiet /\ from = index /\ index \in Nat /\ count <= from
        /\ n < count /\ n % step = 0
    BY <1>1, <2>1, Sizes DEF AloneInv, CountInv, ReadSlot, Count, StateOK
  <2>3. /\ Count' = count /\ Step' = step /\ reader'.index = from
        /\ reader'.next = n + step
    BY <1>1, <2>1, SlotRead DEF Count, Step
  <2>4. PICK k \in 1..index : k = from - n
    BY <2>2
  <2>5. ring[SlotAt(reader.next)] = log[k] /\ log[k] \in Nat /\ log' = log
    <3>1. log \in Seq(Nat) /\ Len(log) = index
      BY DEF StateOK
    <3>2. log[k] \in Nat
      BY <2>4, <3>1
    <3>3. QED
      BY <1>1, <2>1, <2>2, <2>4, <3>2, ExactRead DEF ReadSlot
  <2>6. PICK old : old = Timed(log, Seen(from, count, step, n))
    OBVIOUS
  <2>7. PICK new : new = Timed(log, Seen(from, count, step, n + step))
    OBVIOUS
  <2>8. /\ (n + step) % step = 0
        /\ new = IF log[k] > 0 THEN old \cup {k} ELSE old
        /\ k \notin old
    <3>1. /\ (n + step) % step = 0
          /\ Seen(from, count, step, n + step) = Seen(from, count, step, n) \cup {k}
          /\ k \notin Seen(from, count, step, n)
      <4>1. /\ (n + step) % step = 0
            /\ Seen(from, count, step, n + step) = Seen(from, count, step, n) \cup {from - n}
            /\ from - n \notin Seen(from, count, step, n)
        <5>1. n < count /\ n % step = 0
          BY <2>2
        <5>2. QED
          BY <5>1, SeenNext
      <4>2. QED
        BY <2>4, <4>1
    <3>2. CASE log[k] > 0
      BY <2>6, <2>7, <3>1, <3>2 DEF Timed
    <3>3. CASE ~(log[k] > 0)
      BY <2>6, <2>7, <3>1, <3>3 DEF Timed
    <3>4. QED
      BY <3>2, <3>3
  <2>9. IsFiniteSet(old) /\ old \subseteq 1..index
    <3>1. /\ Seen(from, count, step, n) \subseteq 1..from
          /\ IsFiniteSet(Seen(from, count, step, n))
      BY <2>2, SeenLogged
    <3>2. old \subseteq Seen(from, count, step, n)
      BY <2>6 DEF Timed
    <3>3. QED
      BY <2>2, <3>1, <3>2, FS_Subset
  <2>10. reader.valid = Cardinality(old) /\ reader.sum = Cardinality(Units(log, old))
    BY <1>1, <2>1, <2>6 DEF CountInv, Read
  <2>11. /\ Cardinality(old \cup {k}) = Cardinality(old) + 1
         /\ Cardinality(Units(log, old \cup {k})) = log[k] + Cardinality(Units(log, old))
    <3>1. \A x \in old : log[x] \in Nat
      BY <2>9 DEF StateOK
    <3>2. IsFiniteSet(Units(log, old))
      BY <2>9, <3>1, UnitsFinite
    <3>3. QED
      BY <2>5, <2>8, <2>9, <3>2, UnitsAdd, FS_AddElement
  <2>12. reader'.valid = Cardinality(new) /\ reader'.sum = Cardinality(Units(log, new))
    <3>1. reader.sum \in Nat /\ reader.valid \in Nat
      BY DEF StateOK, Reading
    <3>2. CASE log[k] > 0
      BY <1>1, <2>5, <2>8, <2>10, <2>11, <3>1, <3>2, SlotRead
    <3>3. CASE ~(log[k] > 0)
      BY <1>1, <2>5, <2>8, <2>10, <3>1, <3>3, SlotRead
    <3>4. QED
      BY <3>2, <3>3
  <2>13. Read' = new
    BY <2>3, <2>5, <2>7 DEF Read
  <2>14. QED
    BY <2>3, <2>5, <2>8, <2>12, <2>13 DEF CountInv
<1>2. CASE ReadIndex
  <2>1. reader' = [pc |-> "scan", index |-> index, next |-> 0, sum |-> 0, valid |-> 0, alone |-> Quiet]
    BY <1>2 DEF ReadIndex, NoRead
  <2>2. reader'.next = 0 /\ reader'.sum = 0 /\ reader'.valid = 0
    BY <2>1
  <2>3. Step' \in Nat \ {0}
    BY Sizes DEF Step
  <2>4. Read' = {}
    BY <2>2 DEF Read, Timed, Seen
  <2>5. Units(log', {}) = {}
    BY DEF Units
  <2>6. 0 % Step' = 0
    <3>1. PICK step \in Nat \ {0} : step = Step'
      BY <2>3
    <3>2. 0 % step = 0
      BY NoRemainder
    <3>3. QED
      BY <3>1, <3>2
  <2>7. QED
    BY <2>2, <2>4, <2>5, <2>6, FS_EmptySet DEF CountInv
<1>3. CASE UNCHANGED vars
  BY <1>3 DEF vars, CountInv, Read, Count, Step
<1>4. ASSUME reader'.alone, NEW w \in Writer
      PROVE  ~Store(w) /\ \A duration : ~TakeSlot(w, duration)
  BY <1>4, AtRest
<1>5. ReturnAverage => ~reader'.alone
  BY DEF ReturnAverage, NoRead
<1>6. ReadSlot => reader'.alone = reader.alone
  BY SlotRead
<1>7. CASE ~reader'.alone
  BY <1>7 DEF CountInv
<1>8. QED
  BY <1>1, <1>2, <1>3, <1>4, <1>5, <1>6, <1>7 DEF Next

\* A scan that is over has looked at every sample of the window.
LEMMA WindowAverage ==
    ASSUME WindowInv
    PROVE  AverageOfWindow
<1> DEFINE seen == {reader.index - i : i \in {j \in 0..(Count - 1) : j % Step = 0}}
           timed == {k \in seen : log[k] > 0}
<1> SUFFICES ASSUME Scanned, reader.alone, ~lapped
             PROVE  /\ timed = {} => Average = Default
                    /\ timed # {} => Mean[1] * Cardinality(timed) =
                            Mean[2] * MapThenSumSet(LAMBDA k : log[k], timed)
  BY DEF AverageOfWindow
<1>1. StateOK /\ AloneInv /\ CountInv
  BY DEF WindowInv
<1>2. /\ reader.index \in Nat /\ reader.index = index /\ reader.next \in Nat
      /\ Count \in Nat /\ Count <= index /\ reader.next >= Count /\ Step \in Nat \ {0}
  <2>1. reader.index \in Nat /\ reader.next \in Nat /\ reader.index = index
    BY <1>1 DEF StateOK, Reading, AloneInv
  <2>2. QED
    BY <2>1, Sizes DEF Count, Step, Scanned
<1>3. Seen(reader.index, Count, Step, reader.next) = seen
  BY <1>2 DEF Seen
<1>4. PICK T : T = timed
  OBVIOUS
<1>5. Read = T
  BY <1>3, <1>4 DEF Read, Timed
<1>6. IsFiniteSet(T) /\ \A x \in T : log[x] \in Nat
  <2>1. /\ Seen(reader.index, Count, Step, reader.next) \subseteq 1..index
        /\ IsFiniteSet(Seen(reader.index, Count, Step, reader.next))
    BY <1>2, SeenLogged
  <2>2. T \subseteq Seen(reader.index, Count, Step, reader.next)
    BY <1>3, <1>4
  <2>3. QED
    BY <1>1, <2>1, <2>2, FS_Subset DEF StateOK
<1>7. MapThenSumSet(LAMBDA k : log[k], T) = Cardinality(Units(log, T))
  BY <1>6, SumIsCount
<1>8. reader.valid = Cardinality(T) /\ reader.sum = MapThenSumSet(LAMBDA k : log[k], T)
  BY <1>1, <1>5, <1>7 DEF CountInv
<1>9. PICK v \in Nat, t \in Nat : v = reader.valid /\ t = reader.sum
  BY <1>1 DEF StateOK, Reading
<1>10. T = {} => Average = Default
  BY <1>8, FS_EmptySet DEF Average
<1>11. Mean[1] = t /\ Mean[2] = v /\ t * v = v * t
  BY <1>9 DEF Mean
<1>12. QED
  BY <1>4, <1>8, <1>9, <1>10, <1>11

\* While nothing is recorded, the mean is that of the responses looked at, every Step-th of
\* the last window from the newest, that took any time, and the default is returned if none
\* did: the loop of average_response_time_ms over the ring, with its index taken down from the
\* next slot and reduced to the window, sums exactly these.
THEOREM AverageWasOfWindow == Spec => []AverageOfWindow
<1>1. Init => WindowInv
  <2> SUFFICES ASSUME Init
               PROVE  WindowInv
    OBVIOUS
  <2>1. reader \in Reading /\ ~reader.alone
    BY DEF Init, Reading, NoRead
  <2>2. StateOK
    BY <2>1, Sizes DEF Init, StateOK, NoRead
  <2>3. StoreInv /\ ExactInv
    BY DEF Init, StoreInv, ExactInv
  <2>4. AloneInv /\ CountInv
    BY <2>1 DEF AloneInv, CountInv
  <2>5. QED
    BY <2>2, <2>3, <2>4 DEF WindowInv
<1>2. WindowInv /\ [Next]_vars => WindowInv'
  <2> SUFFICES ASSUME WindowInv, [Next]_vars
               PROVE  WindowInv'
    OBVIOUS
  <2>1. StateOK /\ StateOK' /\ AloneInv /\ AloneInv'
    BY StateKept, AloneKept DEF WindowInv
  <2>2. ASSUME ~lapped'
        PROVE  ~lapped
    BY <2>2 DEF Next, vars, Store, TakeSlot, ReadIndex, ReadSlot, ReturnAverage
  <2>3. ASSUME ~lapped'
        PROVE  StoreInv' /\ ExactInv' /\ CountInv'
    BY <2>1, <2>2, <2>3, StoreKept, ExactKept, CountKept DEF WindowInv
  <2>4. QED
    BY <2>1, <2>3 DEF WindowInv
<1>3. WindowInv => AverageOfWindow
  BY WindowAverage
<1>4. QED
  BY <1>1, <1>2, <1>3, PTL DEF Spec

=============================================================================
