--------------------------- MODULE MCSchedulerSoft ---------------------------
(***************************************************************************)
(* The scheduler on small instances: two identifications on a pool of two  *)
(* or three slots, so that the pool fills, one identification can wait     *)
(* twice and handlers reuse the slot of the task they run.                 *)
(***************************************************************************)
EXTENDS SchedulerSoft

CONSTANTS a, b
MCIds == {a, b}
=============================================================================
