------------------------------- MODULE MCSketch -------------------------------
(***************************************************************************)
(* Three systems of the sketch, one of them in a behaviour: its inputs,    *)
(* the pulse counters with their interrupts, the windows of a reading.     *)
(*                                                                         *)
(* Inputs: a clock of 8 values, a debounce time of 1, iterations up to 2   *)
(* units, longer than the debounce time; windows up to 3 samples of 3      *)
(* values, a weight that wraps at 5, an int of 4 bits.                     *)
(*                                                                         *)
(* Counters: one, a clock of 9 values in two digits to base 3, a debounce  *)
(* time of 3, iterations of up to 1, counts that wrap at 2.                *)
(*                                                                         *)
(* Windows of 3 values out of 0, 1 and 3, sums that wrap at 4, a           *)
(* recalculation at every second value, sizes that count modulo 16.        *)
(***************************************************************************)
EXTENDS Sketch, Pulses, Windows

VARIABLE part

MCOrder == <<"table">>
MCBounceTime == [c \in Counters |-> 3]

MCInit ==
  /\ SketchInit /\ Init /\ WindowsInit
  /\ part \in {"inputs", "counters", "windows"}
  /\ part # "counters" => clock = 0

InputsOnly == part = "inputs" /\ UNCHANGED <<vars, windowsVars, part>>
CountersOnly == part = "counters" /\ UNCHANGED <<sketchVars, windowsVars, part>>

InputsStep == InputsOnly /\ SketchNext
CountersStep == CountersOnly /\ Next
WindowsStep == part = "windows" /\ WindowsNext /\ UNCHANGED <<sketchVars, vars, part>>

MCVars == <<sketchVars, vars, windowsVars, part>>

\* The fairness of each system, in its own behaviours.
MCSpec ==
  /\ MCInit /\ [][InputsStep \/ CountersStep \/ WindowsStep]_MCVars
  /\ WF_MCVars(InputsOnly /\ Progress)
  /\ WF_MCVars(CountersOnly /\ Loop)
  /\ \A c \in Counters : SF_MCVars(CountersOnly /\ rotate_pulse_update(c))
=============================================================================
