----------------------------- MODULE MCMainWindow -----------------------------
(***************************************************************************)
(* The main window and, side by side with it, the gains on both ends: one  *)
(* or the other in a behaviour, they share nothing.                        *)
(*                                                                         *)
(* A spin box with 3 steps for an rpm, 6 in all, and a slider with 4 steps *)
(* for one of the spin box's; the button of 33 1/3 rpm is between the      *)
(* steps of both, the values of two steps of the spin box fall short.      *)
(* Windows of 3 samples.                                                   *)
(*                                                                         *)
(* Two gains, ten units of a box in 1 and four of the fixed-point number,  *)
(* boxes up to 1.  The device starts with 1/4, which lies between two      *)
(* units of a box, or with 3/4, which falls short when it is rounded down, *)
(* each with a gain the boxes cannot show or 0.                            *)
(***************************************************************************)
EXTENDS MainWindow, PIDGains

CONSTANT MaxApart   \* samples plotted with a set point: see MCApart

VARIABLE part

MCShort == {24, 32}
MCSamples == {[time |-> 9, sp |-> 1, pv |-> v, out |-> 2] : v \in {0, 1, 3}}
MCResults == {[pv |-> 2, out |-> 3]}
MCTyped == {0, 9}
MCStoredGains == {[Kp |-> 1, Ki |-> -6], [Kp |-> 3, Ki |-> 0]}

MCInit ==
  /\ WindowInit /\ GainsInit
  /\ part \in {"window", "gains"}
  /\ part = "window" => /\ m_koef = CHOOSE gains \in StoredGains : TRUE
                        /\ K = [k \in Gains |-> 0]

WindowStep == part = "window" /\ WindowNext /\ UNCHANGED <<gainVars, part>>
GainsStep == part = "gains" /\ GainsNext /\ UNCHANGED <<windowVars, part>>

MCSpec == MCInit /\ [][WindowStep \/ GainsStep]_<<windowVars, gainVars, part>>

\* Plots and set points are not combined, except by the simulation itself.
MCApart ==
  Len(samples) > MaxApart \/ screen # Drawn(NoPlots) =>
    /\ asked = 0
    /\ widget.spin = 0 \/ (told_in = "SIMULATION" /\ widget.spin = SpeedAuto)
=============================================================================
