---------------------------- MODULE FrameChannel ----------------------------
(***************************************************************************)
(* What the framing promises to the procedure calls above it: frames may   *)
(* be lost, but a frame that arrives was sent, once, and frames keep their *)
(* order.                                                                  *)
(***************************************************************************)
EXTENDS Naturals, Sequences

CONSTANT Frames

VARIABLES
  inflight,   \* frames sent that may still arrive, the oldest first
  got         \* frames handed to the receiver

vars == <<inflight, got>>

Init == inflight = << >> /\ got = << >>

Send == \E f \in Frames : inflight' = Append(inflight, f) /\ UNCHANGED got

\* The frames before the one that arrives are lost.
Deliver ==
  \E k \in DOMAIN inflight :
    /\ got' = Append(got, inflight[k])
    /\ inflight' = SubSeq(inflight, k + 1, Len(inflight))

Next == Send \/ Deliver

Spec == Init /\ [][Next]_vars
=============================================================================
