------------------------------ MODULE TaskList ------------------------------
(***************************************************************************)
(* What the scheduler does to its linked list of tasks, as an operator on  *)
(* sequences: it goes from the head to the tail and leaves some out.       *)
(***************************************************************************)
EXTENDS Integers, Sequences

\* The elements of q at the places in I, in their order; picked[n] is what the
\* loop has kept when it has passed the n-th.
Picked(q, I) ==
  LET picked[n \in 0..Len(q)] ==
        IF n = 0 THEN << >>
        ELSE IF n \in I THEN Append(picked[n - 1], q[n]) ELSE picked[n - 1]
  IN  picked[Len(q)]
=============================================================================
