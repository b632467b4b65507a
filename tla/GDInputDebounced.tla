--------------------------- MODULE GDInputDebounced ---------------------------
(***************************************************************************)
(* One debounced input: GDInputDebounced on top of GDInput.  Every         *)
(* iteration of the sketch samples the pin; the handler of the new level   *)
(* is called when the samples have agreed for longer than DebounceTime.    *)
(*                                                                         *)
(* Times are 32-bit milliseconds, scaled down to MillisMod values; their   *)
(* difference is taken in a signed long, as in the code.  m_state_prev is  *)
(* the level whose handler was called last.  `held' is the model's: for    *)
(* how long the samples have agreed, MillisMod standing for a whole turn   *)
(* of the clock or more.                                                   *)
(***************************************************************************)
EXTENDS Integers

CONSTANTS
  MillisMod,      \* the clock counts modulo MillisMod
  DebounceTime,   \* DI_DEBOUNCE_TIME
  MaxStep         \* the longest iteration of the sketch

\* An iteration is far shorter than half a turn of the clock, which is 24 days.
ASSUME InputAssumption ==
  /\ MillisMod \in Nat /\ DebounceTime \in Nat /\ MaxStep \in Nat
  /\ 2 * (DebounceTime + MaxStep) < MillisMod

VARIABLES
  m_state_prev,         \* GDInput: the level told last
  m_bouncedStatePrev,   \* the last sample
  m_debounceLastTime,   \* when the samples changed last
  time_current,         \* the clock of the last sample
  held

inputVars == <<m_state_prev, m_bouncedStatePrev, m_debounceLastTime, time_current, held>>

Millis == 0..(MillisMod - 1)

InputTypeOK ==
  /\ m_state_prev \in BOOLEAN
  /\ m_bouncedStatePrev \in BOOLEAN
  /\ m_debounceLastTime \in Millis
  /\ time_current \in Millis
  /\ held \in 0..MillisMod

\* GDInput's constructor calls the handler of the initial level, FALSE.
InputInit ==
  /\ m_state_prev = FALSE
  /\ m_bouncedStatePrev = FALSE
  /\ m_debounceLastTime = 0
  /\ time_current = 0
  /\ held = 0

-----------------------------------------------------------------------------
\* Arithmetic of unsigned long, and the value of one read as a signed long.
Later(t, step) == IF t + step < MillisMod THEN t + step ELSE t + step - MillisMod
Minus(t, u) == IF u <= t THEN t - u ELSE t - u + MillisMod
Signed(x) == IF 2 * x < MillisMod THEN x ELSE x - MillisMod

\* dt: a negative difference is negated, in unsigned arithmetic.
Dt(t) ==
  LET d == Minus(t, m_debounceLastTime)
  IN  IF Signed(d) < 0 THEN Signed(MillisMod - d) ELSE d

\* Mutants: the time of a change is not taken; every sample takes it.
stateSet_KeepsTime(state, t) ==
  IF state # m_bouncedStatePrev
  THEN /\ m_bouncedStatePrev' = state
       /\ UNCHANGED <<m_state_prev, m_debounceLastTime>>
  ELSE /\ m_state_prev' = IF Dt(t) > DebounceTime THEN state ELSE m_state_prev
       /\ UNCHANGED <<m_bouncedStatePrev, m_debounceLastTime>>
stateSet_EveryTime(state, t) ==
  /\ m_debounceLastTime' = t
  /\ m_bouncedStatePrev' = state
  /\ m_state_prev' = IF state = m_bouncedStatePrev /\ Dt(t) > DebounceTime
                     THEN state ELSE m_state_prev

\* stateSet: a change starts the wait again; GDInput::stateSet calls a handler
\* only when the level it is given differs from the one before.
stateSet(state, t) ==
  IF state # m_bouncedStatePrev
  THEN /\ m_debounceLastTime' = t
       /\ m_bouncedStatePrev' = state
       /\ UNCHANGED m_state_prev
  ELSE /\ m_state_prev' = IF Dt(t) > DebounceTime THEN state ELSE m_state_prev
       /\ UNCHANGED <<m_bouncedStatePrev, m_debounceLastTime>>

\* One iteration, `step' after the one before: the clock is read, then the pin.
Sample(state, step) ==
  /\ time_current' = Later(time_current, step)
  /\ held' = IF state # m_bouncedStatePrev THEN 0
             ELSE IF held + step < MillisMod THEN held + step ELSE MillisMod
  /\ stateSet(state, Later(time_current, step))

InputNext == \E state \in BOOLEAN, step \in 0..MaxStep : Sample(state, step)

InputSpec == InputInit /\ [][InputNext]_inputVars

-----------------------------------------------------------------------------
\* A handler is called for a level only when every sample of more than the
\* debounce time has shown it, wherever the clock wraps meanwhile.
ToldOnlyIfStable ==
  [][m_state_prev' # m_state_prev =>
       /\ m_state_prev' = m_bouncedStatePrev
       /\ held' > DebounceTime]_inputVars

\* A level is told by the first sample taken after the debounce time: none is
\* left unsaid, the wrap of the clock included.
ToldInTime == m_state_prev # m_bouncedStatePrev => held <= DebounceTime

\* The time of the last change, kept modulo the clock, is that change's.
LastTimeIsChange ==
  held < MillisMod => Minus(time_current, m_debounceLastTime) = held

\* The wrapped times and the level told agree with the true age of the samples.
InputInv == InputTypeOK /\ LastTimeIsChange /\ ToldInTime
=============================================================================
