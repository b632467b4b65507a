------------------------------- MODULE MCG602 -------------------------------
(***************************************************************************)
(* The firmware on a small instance: the clock is scaled so that a period  *)
(* is two units, and one iteration can take longer than a period.          *)
(***************************************************************************)
EXTENDS G602

MCManualSpeeds == {0}
MCFreeSpeeds   == {0}
MCSentSpeeds   == {0, 9}
MCActualSpeeds == {3}
MCPartTimes    == {1}
=============================================================================
