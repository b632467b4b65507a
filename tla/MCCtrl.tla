------------------------------- MODULE MCCtrl -------------------------------
(***************************************************************************)
(* Ctrl on a small instance.  The speeds are scaled: the two base speeds   *)
(* differ, a correction can leave the set point alone or move it up to the *)
(* other base speed, a free set point can be zero or below, and the measured speed  *)
(* can fall below, meet and exceed the set points.                         *)
(***************************************************************************)
EXTENDS Ctrl

MCManualSpeeds == {-1, 0, 1}
MCFreeSpeeds   == {-1, 0, 5}
MCActualSpeeds == {0, 3, 6}
=============================================================================
