------------------------------ MODULE MainWindow ------------------------------
(***************************************************************************)
(* The window of the PC tool: which of two sources, the device or a        *)
(* simulation, its set point box commands and its plots show.  A slot of   *)
(* Qt runs to its end, the slots of the signals it emits included.         *)
(*                                                                         *)
(* The simulated engine and regulator answer any of SimResults.  Colours,  *)
(* scales and wording are left out, and so is the option to hide the       *)
(* output.  `samples' is the model's: what should be plotted.              *)
(***************************************************************************)
EXTENDS CSetpointWidget, Fan, SequencesExt, FiniteSetsExt

CONSTANTS
  Rpm,            \* one rpm in half steps of the slider
  MaxSetpoint,    \* MANUAL_SETPOINT_MAX, in half steps
  Speed33, Speed45, SpeedAuto,  \* of the buttons, and of the automatic set point
  Length,         \* len_max of P_plot_clear
  DeviceSamples,  \* what a device may send: records of time, sp, pv, out
  SimResults,     \* pv and out of a step of the simulation
  MaxTicks        \* steps of a simulation: a bound of the model

Columns == {"time", "sp", "pv", "out"}

\* The doubles of 45 and 50 rpm divide exactly; 33 1/3 is on neither grid.
ASSUME WindowAssumption ==
  /\ Rpm \in Nat \ {0} /\ Rpm % SpinUnit = 0 /\ Length \in Nat \ {0} /\ MaxTicks \in Nat
  /\ MaxSetpoint \in Nat /\ MaxSetpoint % SpinUnit = 0
  /\ {Speed33, Speed45, SpeedAuto} \subseteq (0..MaxSetpoint) \ Short
  /\ DeviceSamples \subseteq [Columns -> Int] /\ SimResults \subseteq [pv : Int, out : Int]

VARIABLES
  portOpen,               \* the serial port
  m_runMode,
  widget,                 \* m_sp.setpoint
  m_sim_setpoint,         \* in whole rpm
  m_sim_setpoint_manual, m_paused,
  m_sim_time_ms,          \* in steps of INTERVAL_MS
  plots,                  \* m_axis_x, m_valuesSetpoint, m_valuesPV, m_valuesOut
  indication,             \* the actual set point and the output, as last received
  screen,                 \* the plots and the figures as last drawn
  asked,                  \* the last set point the device was asked to take
  told_in,                \* the mode in which the box last told a value, "NONE" if to nobody
  samples

windowVars == <<portOpen, m_runMode, widget, m_sim_setpoint, m_sim_setpoint_manual, m_paused,
                m_sim_time_ms, plots, indication, screen, asked, told_in, samples>>
setpointVars == <<widget, m_sim_setpoint, asked, told_in>>
plotVars == <<m_sim_time_ms, plots, indication, screen, samples>>
modeVars == <<portOpen, m_runMode, m_sim_setpoint_manual, m_paused>>

-----------------------------------------------------------------------------
NoPlots == [c \in Columns |-> << >>]
LastOr0(s) == IF s = << >> THEN 0 ELSE Last(s)

\* CSlidingWindow::append.
append(s, x) == IF Len(s) < Length THEN Append(s, x) ELSE Append(Tail(s), x)

\* P_tickEventCommon and P_replot.
Drawn(p) == [plots |-> p, sp |-> LastOr0(p.sp), pv |-> LastOr0(p.pv), amplitude |-> Amplitude(p.pv)]
P_tickEventCommon == screen' = Drawn(plots')

\* Mutant: one window is forgotten.
P_plot_clear_KeepsOut ==
  plots' = [NoPlots EXCEPT !.out = plots.out] /\ samples' = << >>

P_plot_clear == plots' = NoPlots /\ samples' = << >>

\* P_dev_ready_SPPV, for the device's samples and the simulation's.
P_dev_ready_SPPV(sample) ==
  /\ plots' = [c \in Columns |-> append(plots[c], sample[c])]
  /\ samples' = append(samples, sample)
  /\ indication' = [sp |-> sample.sp, out |-> sample.out]
  /\ P_tickEventCommon

-----------------------------------------------------------------------------
\* Mutant: the device is told, whatever the mode.
P_setpointValueChanged_Device(values) ==
  IF values = << >> THEN UNCHANGED <<m_sim_setpoint, asked, told_in>>
  ELSE told_in' = m_runMode /\ asked' = Last(values) /\ UNCHANGED m_sim_setpoint

\* P_setpointValueChanged for each value the box tells; the last one counts.
\* P_setpointFuncSetValue takes an int.  With the port closed the device's
\* request goes nowhere; P_openSerialPort sets the box once it is open.
P_setpointValueChanged(values) ==
  IF values = << >> THEN UNCHANGED <<m_sim_setpoint, asked, told_in>>
  ELSE /\ told_in' = IF m_runMode = "DEVICE" /\ ~portOpen' THEN "NONE" ELSE m_runMode
       /\ asked' = IF m_runMode = "DEVICE" /\ portOpen' THEN Last(values) ELSE asked
       /\ m_sim_setpoint' = IF m_runMode = "SIMULATION" THEN Last(values) \div Rpm ELSE m_sim_setpoint

\* The box becomes w and its signals are handled.
Becomes(w) ==
  /\ widget' = [w EXCEPT !.told = << >>]
  /\ P_setpointValueChanged(w.told)

\* The buttons P_setpointSet0, ...33, ...45.
P_setpointSet(x) == UNCHANGED <<modeVars, plotVars>> /\ Becomes(setValue(widget, x))

SliderMoved(k) == UNCHANGED <<modeVars, plotVars>> /\ Becomes(SliderSet(widget, k))
SpinBoxTyped(x) == UNCHANGED <<modeVars, plotVars>> /\ Becomes(SpinBoxSet(widget, x))

\* On a tab that only the device's mode enables.
P_button_rpc_request_5_speed_SP_w ==
  /\ m_runMode = "DEVICE"
  /\ UNCHANGED <<widget, modeVars, plotVars>>
  /\ P_setpointValueChanged(<<widget.value>>)

-----------------------------------------------------------------------------
\* The port that opens; P_plot_clear draws nothing.
P_openSerialPort ==
  /\ ~portOpen /\ portOpen' = TRUE
  /\ IF m_runMode = "DEVICE"
     THEN Becomes(setValue(widget, 0)) /\ P_plot_clear
     ELSE UNCHANGED <<setpointVars, plots, samples>>
  /\ UNCHANGED <<m_runMode, m_sim_setpoint_manual, m_paused, m_sim_time_ms, indication, screen>>

P_closeSerialPort ==
  /\ portOpen /\ portOpen' = FALSE
  /\ UNCHANGED <<m_runMode, m_sim_setpoint_manual, m_paused, setpointVars, plotVars>>

P_runModeChange ==
  /\ P_plot_clear
  /\ IF m_runMode = "DEVICE"
     THEN m_runMode' = "SIMULATION" /\ m_sim_time_ms' = 0
     ELSE m_runMode' = "DEVICE" /\ UNCHANGED m_sim_time_ms
  /\ P_tickEventCommon
  /\ UNCHANGED <<portOpen, m_sim_setpoint_manual, m_paused, setpointVars, indication>>

\* setpoint_ManualModeSelected, setpoint_AutoModeSelected and pause_unpause, on
\* the tab that only the simulation enables.
setpoint_ModeSelected ==
  /\ m_runMode = "SIMULATION"
  /\ m_sim_setpoint_manual' = ~m_sim_setpoint_manual
  /\ UNCHANGED <<portOpen, m_runMode, m_paused, setpointVars, plotVars>>
pause_unpause ==
  /\ m_runMode = "SIMULATION"
  /\ m_paused' = ~m_paused
  /\ UNCHANGED <<portOpen, m_runMode, m_sim_setpoint_manual, setpointVars, plotVars>>

\* A sample of the device comes in either mode.
DeviceSends(sample) ==
  /\ portOpen
  /\ P_dev_ready_SPPV(sample)
  /\ UNCHANGED <<modeVars, setpointVars, m_sim_time_ms>>

P_tickEventSimulation(result) ==
  /\ m_runMode = "SIMULATION" /\ ~m_paused /\ m_sim_time_ms < MaxTicks
  /\ UNCHANGED modeVars
  /\ IF m_sim_setpoint_manual THEN UNCHANGED setpointVars
     ELSE Becomes(setValue(widget, SpeedAuto))
  /\ P_dev_ready_SPPV([time |-> m_sim_time_ms, sp |-> m_sim_setpoint',
                       pv |-> result.pv, out |-> result.out])
  /\ m_sim_time_ms' = m_sim_time_ms + 1

\* The constructor ends in the mode of the device, after one change of modes.
WindowInit ==
  /\ portOpen = FALSE /\ m_runMode = "DEVICE"
  /\ widget = NewSetpoint /\ m_sim_setpoint = 0 /\ asked = 0 /\ told_in = "NONE"
  /\ m_sim_setpoint_manual = TRUE /\ m_paused = FALSE /\ m_sim_time_ms = 0
  /\ plots = NoPlots /\ samples = << >> /\ screen = Drawn(NoPlots)
  /\ indication = [sp |-> 0, out |-> 0]

WindowNext ==
  \/ P_openSerialPort \/ P_closeSerialPort \/ P_runModeChange
  \/ setpoint_ModeSelected \/ pause_unpause
  \/ P_button_rpc_request_5_speed_SP_w
  \/ \E x \in {0, Speed33, Speed45} : P_setpointSet(x)
  \/ \E k \in 0..(MaxSetpoint \div 2) : SliderMoved(k)
  \/ \E n \in 0..(MaxSetpoint \div SpinUnit) : SpinBoxTyped(SpinUnit * n)
  \/ \E sample \in DeviceSamples : DeviceSends(sample)
  \/ \E result \in SimResults : P_tickEventSimulation(result)

WindowSpec == WindowInit /\ [][WindowNext]_windowVars

-----------------------------------------------------------------------------
\* Whoever fed them and whatever was cleared between, the four windows hold the
\* last samples, the same ones: P_replot pairs them point by point.
PlotsInStep == \A c \in Columns : plots[c] = [i \in DOMAIN samples |-> samples[i][c]]

\* The amplitude on the screen is the difference of the greatest and the least
\* value plotted with it, local extremes notwithstanding.  Values that are all
\* the same have one mark only, and show themselves as the amplitude.
AmplitudeShown ==
  LET pv == screen.plots.pv
      values == ToSet(pv)
  IN  pv # << >> =>
        screen.amplitude = IF Cardinality(values) = 1 THEN pv[1] ELSE Max(values) - Min(values)

\* However the slider and the spin box set each other, they agree to the spin
\* box's accuracy, and so does what was told last in the mode it was told in:
\* the device, when the port was open, is asked for what the box shows; the simulation has the whole rpm
\* of what is shown or of the value behind it, a step of the slider below.
SetpointTold ==
  /\ Rounded(widget.value) = widget.spin /\ Rounded(2 * widget.slider) = widget.spin
  /\ told_in = "DEVICE" => Rounded(asked) = widget.spin
  /\ told_in = "SIMULATION" => m_sim_setpoint \in {x \div Rpm : x \in {widget.value, widget.spin}}
=============================================================================
