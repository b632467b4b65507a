----------------------------- MODULE MCGBlinker -----------------------------
(***************************************************************************)
(* The blinker with the real patterns.  The firmware starts the finite     *)
(* ones and switches none off; the class also has endless ones and can     *)
(* switch any off.                                                         *)
(***************************************************************************)
EXTENDS GBlinker

MCStarted   == Types
MCCancelled == {"B2TIME", "FAST6", "SLOW", "FAST"}
=============================================================================
