------------------------------- MODULE FastSum --------------------------------
(***************************************************************************)
(* nostd::FastSum: the sum of the last Capacity unsigned values, kept on   *)
(* the fly, modulo SumMod.  G602 counts the pulses of a period with it.    *)
(***************************************************************************)
EXTENDS Integers

CONSTANTS
  Capacity,   \* Tcapacity
  SumMod      \* 2^16, unsigned

ASSUME FastSumAssumption == Capacity \in Nat \ {0} /\ SumMod \in Nat \ {0}

Slots == 0..(Capacity - 1)
NewFastSum == [size |-> 0, index |-> 0, items |-> [i \in Slots |-> 0], sum |-> 0]

\* Mutant: the value that leaves is not subtracted.
FastSum_add_KeepsFirst(w, x) ==
  [size |-> IF w.size < Capacity THEN w.size + 1 ELSE w.size,
   index |-> IF w.index + 1 >= Capacity THEN 0 ELSE w.index + 1,
   items |-> [w.items EXCEPT ![w.index] = x],
   sum |-> (w.sum + x) % SumMod]

FastSum_add(w, x) ==
  LET first_val == IF w.size >= Capacity THEN w.items[w.index] ELSE 0 IN
  [size |-> IF w.size < Capacity THEN w.size + 1 ELSE w.size,
   index |-> IF w.index + 1 >= Capacity THEN 0 ELSE w.index + 1,
   items |-> [w.items EXCEPT ![w.index] = x],
   sum |-> (w.sum - first_val + x) % SumMod]

\* The items stay, unreachable.
FastSum_reset(w) == [w EXCEPT !.sum = 0, !.size = 0, !.index = 0]
=============================================================================
