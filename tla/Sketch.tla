-------------------------------- MODULE Sketch --------------------------------
(***************************************************************************)
(* loop() of unitra-g602.ino as far as its inputs go: each iteration reads *)
(* the clock, hands a button to its debounced input and the potentiometer  *)
(* to the average.  The interrupts that may come in between are in Pulses, *)
(* what G602 does with the inputs is in G602.                              *)
(***************************************************************************)
EXTENDS GDInputDebounced, AverageTinyMemory

CONSTANT Factor   \* DI_POTENTIOMETER_FACTOR

\* Another factor stops the firmware in the constructor.
ASSUME SketchAssumption == Factor \in Factors

sketchVars == <<inputVars, averageVars>>

SketchTypeOK == InputTypeOK /\ AverageTypeOK

SketchInit == InputInit /\ AverageInit(Factor)

\* One iteration.  Between two of them somebody presses or turns something.
loop(state, step, value) ==
  /\ Sample(state, step)
  /\ appendValue(value)

\* factorSet is public and the sketch does not call it.
FactorSet(factor) ==
  /\ factorSet(factor)
  /\ UNCHANGED inputVars

SketchNext ==
  \/ \E state \in BOOLEAN, step \in 0..MaxStep, value \in Values :
       loop(state, step, value)
  \/ \E factor \in Factors : FactorSet(factor)

\* The Arduino core calls loop() for ever, and the clock goes on.
Progress == \E state \in BOOLEAN, step \in 1..MaxStep, value \in Values :
              loop(state, step, value)
SketchSpec == SketchInit /\ [][SketchNext]_sketchVars /\ WF_sketchVars(Progress)

-----------------------------------------------------------------------------
\* A button kept down is told, and so is its release.
HeldIsTold ==
  \A state \in BOOLEAN :
    []<>(m_bouncedStatePrev # state) \/ <>[](m_state_prev = state)
=============================================================================
