------------------------------- MODULE Windows --------------------------------
(***************************************************************************)
(* The containers of the last values in nostd: FastSum, FastSumCorrection  *)
(* and SlidingWindow, all fed with the same values and reset together.     *)
(* FastSumCorrection is for floating point: every addition and subtraction *)
(* may be wrong by up to RoundMax, which is an integer here.  Capacity is  *)
(* also window_size.  `recent' is the model's: the last Capacity values,   *)
(* the oldest first.                                                       *)
(***************************************************************************)
EXTENDS FastSum, Totals, FiniteSets, SequencesExt

CONSTANTS
  RecalcNum,  \* Trecalc_num, 0 for never
  Items,      \* the values, natural numbers
  SizeMod,    \* nostd::size_t counts modulo SizeMod
  RoundMax    \* the error of one operation

ASSUME WindowsAssumption ==
  /\ RecalcNum \in Nat /\ Items \subseteq Nat
  /\ SizeMod \in Nat /\ Capacity < SizeMod
  /\ RoundMax \in Nat

VARIABLES fast, correction, sliding, recent
windowsVars == <<fast, correction, sliding, recent>>

NewCorrection == [size |-> 0, index |-> 0, recalc |-> 0, full |-> FALSE,
                  items |-> [i \in Slots |-> 0], sum |-> 0]
NewSliding == [length |-> 0, last |-> 0, items |-> [i \in Slots |-> 0]]

WindowsInit ==
  /\ fast = NewFastSum
  /\ correction = NewCorrection
  /\ sliding = NewSliding
  /\ recent = << >>

WindowsTypeOK ==
  /\ fast.index \in Slots /\ fast.size \in 0..Capacity /\ fast.sum \in 0..(SumMod - 1)
  /\ correction.index \in Slots /\ correction.size \in 0..Capacity
  /\ correction.recalc \in 0..RecalcNum
  /\ sliding.last \in Slots /\ sliding.length \in 0..Capacity

-----------------------------------------------------------------------------
Correction_Recalculates(w) == RecalcNum # 0 /\ w.recalc + 1 >= RecalcNum

\* FastSumCorrection::add: `e' is the error of all operations it makes.
Correction_add(w, x, e) ==
  LET first_val == IF w.full THEN w.items[w.index] ELSE 0
      items == [w.items EXCEPT ![w.index] = x]
      size == IF w.size < Capacity THEN w.size + 1 ELSE w.size
      all == Total([i \in 1..size |-> items[i - 1]])
  IN  [size |-> size,
       index |-> IF w.index + 1 >= Capacity THEN 0 ELSE w.index + 1,
       items |-> items,
       full |-> w.full \/ w.index + 1 >= Capacity,
       recalc |-> IF RecalcNum = 0 \/ Correction_Recalculates(w) THEN 0 ELSE w.recalc + 1,
       sum |-> e + IF Correction_Recalculates(w) THEN all ELSE w.sum - first_val + x]

\* How wrong the operations of one add can be.
Correction_error(w) ==
  LET most == IF Correction_Recalculates(w) THEN Capacity * RoundMax ELSE 2 * RoundMax
  IN  (-most)..most

Correction_reset(w) ==
  [w EXCEPT !.size = 0, !.index = 0, !.recalc = 0, !.full = FALSE, !.sum = 0]

-----------------------------------------------------------------------------
\* Mutant: the first append goes to the slot after the first.
Sliding_append_Skips(w, x) ==
  LET next == w.last + 1
      last == IF next >= Capacity THEN 0 ELSE next
  IN  [length |-> IF w.length < Capacity THEN w.length + 1 ELSE w.length,
       last |-> last, items |-> [w.items EXCEPT ![last] = x]]

Sliding_append(w, x) ==
  LET next == IF w.length > 0 THEN w.last + 1 ELSE w.last
      last == IF next >= Capacity THEN 0 ELSE next
  IN  [length |-> IF w.length < Capacity THEN w.length + 1 ELSE w.length,
       last |-> last, items |-> [w.items EXCEPT ![last] = x]]

Sliding_reset(w) == [w EXCEPT !.length = 0, !.last = 0]

P_first(w) == IF w.last + 1 >= w.length THEN 0 ELSE w.last + 1
P_last(w) == w.last

\* The values a const_iterator meets from cbegin() to cend(): operator++ wraps
\* at the length.
Forward(w) ==
  LET index[k \in 0..w.length] ==
        IF k = 0 THEN P_first(w)
        ELSE IF index[k - 1] + 1 >= w.length THEN 0 ELSE index[k - 1] + 1
  IN  [k \in 1..w.length |-> w.items[index[k - 1]]]

\* The values a reverse_const_iterator meets: operator-- steps down from last.
Backward(w) ==
  LET index[k \in 0..w.length] ==
        IF k = 0 THEN P_last(w)
        ELSE IF index[k - 1] = 0 THEN w.length - 1 ELSE index[k - 1] - 1
  IN  [k \in 1..w.length |-> w.items[index[k - 1]]]

\* operator[]: the i-th value back from the last; the difference is a size_t,
\* and is brought below the length by subtraction.  `at' stops the program for
\* an i outside.
At(w, i) == w.items[((P_last(w) - i) % SizeMod) % w.length]

-----------------------------------------------------------------------------
Append_All(x) ==
  /\ fast' = FastSum_add(fast, x)
  /\ \E e \in Correction_error(correction) : correction' = Correction_add(correction, x, e)
  /\ sliding' = Sliding_append(sliding, x)
  /\ recent' = LET longer == Append(recent, x)
               IN  IF Len(longer) > Capacity THEN Tail(longer) ELSE longer

Reset_All ==
  /\ fast' = FastSum_reset(fast)
  /\ correction' = Correction_reset(correction)
  /\ sliding' = Sliding_reset(sliding)
  /\ recent' = << >>

WindowsNext == Reset_All \/ \E x \in Items : Append_All(x)

WindowsSpec == WindowsInit /\ [][WindowsNext]_windowsVars

-----------------------------------------------------------------------------
\* The sum kept on the fly is the sum of the last values, whatever was in the
\* slots before a reset and however often the unsigned sum has wrapped.
SumIsOfTheWindow == fast.size = Len(recent) /\ fast.sum = Total(recent) % SumMod

\* What the header of FastSumCorrection promises: the error does not accumulate
\* over more values than Trecalc_num.
DriftIsBounded ==
  LET drift == correction.sum - Total(recent)
      most == RoundMax * (2 * correction.recalc + Capacity)
  IN  RecalcNum # 0 => -most <= drift /\ drift <= most

\* Both sums are those of the window, the second one within its error.
SumsOfTheWindow == WindowsTypeOK /\ SumIsOfTheWindow /\ DriftIsBounded

\* Both iterators meet every value of the window once, in order.
IteratesInOrder ==
  /\ Forward(sliding) = recent
  /\ Backward(sliding) = Reverse(recent)

\* The i-th value back is found by its index while no difference is below zero.
\* (Beyond that operator[] is right only for lengths that divide SizeMod.)
AtCountsBack ==
  \A i \in DOMAIN recent :
    i - 1 <= sliding.last => At(sliding, i - 1) = Reverse(recent)[i]

\* The window gives its values in order, by either iterator always, and by index
\* as far back as the difference in operator[] is not below zero.
ReadInOrder == IteratesInOrder /\ AtCountsBack
=============================================================================
