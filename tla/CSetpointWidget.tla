--------------------------- MODULE CSetpointWidget ----------------------------
(***************************************************************************)
(* The set point box of the PC tool: a slider and a spin box that set each *)
(* other, each telling the new value by a signal.  The slider has whole    *)
(* steps of 0.00001 rpm, the spin box rounds to 0.001 rpm; the division    *)
(* that makes a step of a value is one of doubles, truncated, and falls    *)
(* one short for about half of the values the spin box can show.           *)
(*                                                                         *)
(* A value is counted in half steps of the slider, so that it need not be  *)
(* on either grid.  `told' collects the values of the signals, in order.   *)
(***************************************************************************)
EXTENDS Integers, Sequences

CONSTANTS
  SpinUnit,   \* a step of the spin box in half steps of the slider
  Short       \* the values whose division falls one step short

\* 200 in the code; from 4 on a value one step of the slider below rounds back.
ASSUME SetpointAssumption ==
  /\ SpinUnit \in Nat /\ SpinUnit >= 4 /\ SpinUnit % 2 = 0
  /\ \A x \in Short : x \in Nat \ {0} /\ x % SpinUnit = 0

NewSetpoint == [value |-> 0, slider |-> 0, spin |-> 0, told |-> << >>]

P_int_to_dbl(k) == 2 * k
P_dbl_to_int(x) == IF x \in Short THEN (x \div 2) - 1 ELSE x \div 2

\* The nearest value with three decimals.
Rounded(x) == ((x + SpinUnit \div 2) \div SpinUnit) * SpinUnit

\* The slots by which the two set each other, and what they are called with.
Widgets == [value : Int, slider : Int, spin : Int, told : Seq(Int)]
Calls == [slot : {"slider", "spin"}, w : Widgets, x : Int]

\* setValue of one of the two and, if that changes it, P_sliderChangeValue or
\* P_spinBoxChangeValue, which set the other.
Handled[c \in Calls] ==
  LET w == c.w
      x == c.x
      r == Rounded(x)
      shown == Handled[[slot |-> "spin",
                        w |-> [w EXCEPT !.slider = x, !.value = P_int_to_dbl(x)],
                        x |-> P_int_to_dbl(x)]]
      moved == Handled[[slot |-> "slider",
                        w |-> [w EXCEPT !.spin = r, !.value = r],
                        x |-> P_dbl_to_int(r)]]
  IN  IF c.slot = "slider"
      THEN IF x = w.slider THEN w ELSE [shown EXCEPT !.told = Append(@, shown.value)]
      ELSE IF r = w.spin THEN w ELSE [moved EXCEPT !.told = Append(@, r)]

\* QSlider::setValue or the user's hand, QDoubleSpinBox::setValue or his typing.
SliderSet(w, k) == Handled[[slot |-> "slider", w |-> w, x |-> k]]
SpinBoxSet(w, x) == Handled[[slot |-> "spin", w |-> w, x |-> x]]

\* CSetpointWidget::setValue.
setValue(w, x) ==
  SpinBoxSet(SliderSet([w EXCEPT !.value = x], P_dbl_to_int(x)), x)
=============================================================================
