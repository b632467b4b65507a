------------------------------ MODULE CtrlProofs ------------------------------
(***************************************************************************)
(* Proofs about the control automaton, for every base speed and every set  *)
(* of corrections, set points and measured speeds.                         *)
(***************************************************************************)
EXTENDS Ctrl, SequenceTheorems, TLAPS

\* The states a command can be run in: all but INIT.
LEMMA StateCases ==
  ASSUME NEW cmd, NEW speed, P_fsm(cmd, speed)
  PROVE  m_state \in Stopped \cup Started
BY DEF P_fsm, NormalStopped, NormalStartedAuto, NormalStartedManual,
       ServiceMode1Stopped, ServiceMode1Started, ServiceMode2Stopped,
       ServiceMode2Started, ServiceMode3Stopped, ServiceMode3Started,
       Stopped, Started, NormalStarted

\* Every call but a measured speed and the constructor is a command, and the
\* speed it carries is an integer.
LEMMA NextCases ==
  ASSUME Next
  PROVE  \/ Construct
         \/ \E cmd \in Commands, speed \in Int : P_fsm(cmd, speed)
         \/ \E speed \in Int : actualSpeedUpdate(speed)
BY CtrlAssumption, 0 \in Int
   DEF Next, baselineSpeedModeSet, speedManualSet, speedFreeSet, autostopAllowSet,
       stopTriggeredSet, start, stop, mode_normal, mode_service_1, mode_service_2,
       mode_service_3, Commands, Setting, Enter, EnterTarget, Baseline, Gauge

-----------------------------------------------------------------------------
(***************************************************************************)
(* Types.  The outputs of a command are written by six helpers; one lemma  *)
(* for each, then one step for each state of the automaton.                *)
(***************************************************************************)

OutputsOK ==
  /\ m_state_warnings \subseteq Warnings
  /\ m_motor_state_cached \in BOOLEAN
  /\ m_motor_speed_SP_cached \in Int
  /\ lift \in {"NONE", "UP", "DOWN"}

SettingsOK ==
  /\ m_state_allowed_autostop \in BOOLEAN
  /\ m_state_autostop_triggered \in BOOLEAN
  /\ m_speed_SP_manual_delta \in Int
  /\ m_speed_SP_free \in Int
  /\ m_speed_baseline_mode \in {"LOW", "HIGH"}

StepOK == m_state' \in States /\ OutputsOK' /\ events' \in Seq(Events)

\* A next state and a list of events that are well typed stay so.
LEMMA FinishOK ==
  ASSUME NEW next_state \in States, NEW evts \in Seq(Events), Finish(next_state, evts)
  PROVE  m_state' \in States /\ events' \in Seq(Events)
BY DEF Finish, Events

LEMMA WarningsUpdateOK == << >> \in Seq(Events) /\ <<"WARNINGS_UPDATE">> \in Seq(Events)
<1>1. << >> \in Seq(Events)
  BY EmptySeq
<1>2. <<"WARNINGS_UPDATE">> \in Seq(Events)
  BY DEF Events
<1> QED
  BY <1>1, <1>2

LEMMA CleanEventsOK == CleanEvents \in Seq(Events)
BY WarningsUpdateOK DEF CleanEvents

LEMMA IgnoreOK ==
  ASSUME m_state \in States, OutputsOK, Ignore
  PROVE  StepOK
<1>1. << >> \in Seq(Events)
  BY EmptySeq
<1>2. Finish(m_state, << >>) /\ UNCHANGED outputs
  BY DEF Ignore
<1> QED
  BY <1>1, <1>2, FinishOK DEF StepOK, OutputsOK, outputs

LEMMA SetpointUpdateOK ==
  ASSUME OutputsOK, NEW next_state \in States, NEW setpoint \in Int,
         SetpointUpdate(setpoint, next_state)
  PROVE  StepOK
<1>1. <<"MOTOR_SETPOINT_UPDATE">> \in Seq(Events)
  BY DEF Events
<1> QED
  BY <1>1, FinishOK DEF SetpointUpdate, StepOK, OutputsOK

LEMMA EnterStoppedOK ==
  ASSUME OutputsOK, NEW cmd, EnterStopped(cmd)
  PROVE  StepOK
<1>1. << >> \in Seq(Events)
  BY EmptySeq
<1>2. EnterTarget[cmd] \in States
  BY DEF EnterStopped, Enter, EnterTarget, States, Stopped
<1> QED
  BY <1>1, <1>2, FinishOK DEF EnterStopped, StepOK, OutputsOK, outputs

LEMMA ShutDownOK ==
  ASSUME OutputsOK, NEW next_state \in States, ShutDown(next_state)
  PROVE  StepOK
<1>1. <<"MOTOR_OFF", "LIFT_UP">> \in Seq(Events)
  BY DEF Events
<1>2. CleanEvents \o <<"MOTOR_OFF", "LIFT_UP">> \in Seq(Events)
  BY <1>1, CleanEventsOK, ConcatProperties
<1> QED
  BY <1>2, FinishOK DEF ShutDown, StepOK, OutputsOK

LEMMA SpinDownOK ==
  ASSUME OutputsOK, NEW next_state \in States, SpinDown(next_state)
  PROVE  StepOK
<1>1. <<"MOTOR_OFF">> \in Seq(Events)
  BY DEF Events
<1>2. CleanEvents \o <<"MOTOR_OFF">> \in Seq(Events)
  BY <1>1, CleanEventsOK, ConcatProperties
<1> QED
  BY <1>2, FinishOK DEF SpinDown, StepOK, OutputsOK

LEMMA SpinUpOK ==
  ASSUME OutputsOK, NEW next_state \in States, NEW setpoint \in Int,
         SpinUp(setpoint, next_state)
  PROVE  StepOK
<1>1. <<"MOTOR_SETPOINT_UPDATE", "MOTOR_ON">> \in Seq(Events)
  BY DEF Events
<1> QED
  BY <1>1, FinishOK DEF SpinUp, StepOK, OutputsOK

LEMMA StoreOK ==
  ASSUME SettingsOK, NEW cmd, NEW speed \in Int, Store(cmd, speed)
  PROVE  SettingsOK'
BY DEF SettingsOK, Store, Gauge

LEMMA SetpointsOK ==
  ASSUME SettingsOK'
  PROVE  AutoSetpoint \in Int /\ ManualSetpoint \in Int
BY CtrlAssumption DEF SettingsOK, AutoSetpoint, ManualSetpoint, P_speed_baseline_get

LEMMA AutostopOK ==
  ASSUME m_state \in States, OutputsOK, AllowWhileStarted \/ GaugeWhileStarted
  PROVE  StepOK
<1>1. "NORMAL_STOPPED" \in States
  BY DEF States, Stopped
<1> QED
  BY <1>1, ShutDownOK, IgnoreOK DEF AllowWhileStarted, GaugeWhileStarted

\* Any command, in any state, leaves the automaton well typed.
LEMMA CommandTypeOK ==
  ASSUME TypeOK, NEW cmd, NEW speed \in Int, P_fsm(cmd, speed)
  PROVE  TypeOK'
<1>1. m_state \in States /\ OutputsOK /\ SettingsOK
  BY DEF TypeOK, OutputsOK, SettingsOK
<1>2. SettingsOK'
  BY <1>1, StoreOK DEF P_fsm
<1>3. AutoSetpoint \in Int /\ ManualSetpoint \in Int
  BY <1>2, SetpointsOK
<1>4. Stopped \cup Started \subseteq States
  BY DEF States
<1>5. /\ {"NORMAL_STOPPED", "NORMAL_STARTED_AUTO", "NORMAL_STARTED_MANUAL"} \subseteq States
      /\ {"SERVICE_MODE1_STOPPED", "SERVICE_MODE1_STARTED"} \subseteq States
      /\ {"SERVICE_MODE2_STOPPED", "SERVICE_MODE2_STARTED"} \subseteq States
      /\ {"SERVICE_MODE3_STOPPED", "SERVICE_MODE3_STARTED"} \subseteq States
  BY DEF States, Stopped, Started, NormalStarted
<1>6. StepOK
  <2>1. CASE NormalStopped(cmd)
    <3>1. <<"MOTOR_SETPOINT_UPDATE", "MOTOR_ON", "LIFT_DOWN">> \in Seq(Events)
      BY DEF Events
    <3>2. CASE EnterStopped(cmd) \/ Ignore
      BY <3>2, <1>1, EnterStoppedOK, IgnoreOK
    <3>3. CASE ~(EnterStopped(cmd) \/ Ignore)
      BY <3>1, <3>3, <2>1, <1>1, <1>3, <1>5, FinishOK DEF NormalStopped, StepOK, OutputsOK
    <3> QED
      BY <3>2, <3>3
  <2>2. CASE NormalStartedAuto(cmd)
    BY <2>2, <1>1, <1>3, <1>5, SetpointUpdateOK, ShutDownOK, AutostopOK, IgnoreOK
       DEF NormalStartedAuto
  <2>3. CASE NormalStartedManual(cmd)
    BY <2>3, <1>1, <1>3, <1>5, SetpointUpdateOK, ShutDownOK, AutostopOK, IgnoreOK
       DEF NormalStartedManual
  <2>4. CASE ServiceMode1Stopped(cmd)
    <3>1. <<"LIFT_DOWN">> \in Seq(Events)
      BY DEF Events
    <3> QED
      BY <3>1, <2>4, <1>1, <1>5, EnterStoppedOK, IgnoreOK, FinishOK
         DEF ServiceMode1Stopped, StepOK, OutputsOK
  <2>5. CASE ServiceMode1Started(cmd)
    <3>1. <<"LIFT_UP">> \in Seq(Events)
      BY DEF Events
    <3> QED
      BY <3>1, <2>5, <1>1, <1>5, IgnoreOK, FinishOK DEF ServiceMode1Started, StepOK, OutputsOK
  <2>6. CASE ServiceMode2Stopped(cmd)
    BY <2>6, <1>1, <1>3, <1>5, EnterStoppedOK, SpinUpOK, IgnoreOK DEF ServiceMode2Stopped
  <2>7. CASE ServiceMode2Started(cmd)
    BY <2>7, <1>1, <1>5, SpinDownOK, IgnoreOK DEF ServiceMode2Started
  <2>8. CASE ServiceMode3Stopped(cmd)
    BY <2>8, <1>1, <1>5, EnterStoppedOK, SpinUpOK, IgnoreOK DEF ServiceMode3Stopped, SettingsOK
  <2>9. CASE ServiceMode3Started(cmd)
    BY <2>9, <1>1, <1>2, <1>5, SpinDownOK, SetpointUpdateOK, IgnoreOK
       DEF ServiceMode3Started, SettingsOK
  <2> QED
    BY <2>1, <2>2, <2>3, <2>4, <2>5, <2>6, <2>7, <2>8, <2>9 DEF P_fsm
<1> QED
  BY <1>2, <1>6 DEF TypeOK, StepOK, OutputsOK, SettingsOK, P_fsm

LEMMA ConstructTypeOK ==
  ASSUME TypeOK, Construct
  PROVE  TypeOK'
<1>1. <<"MOTOR_OFF", "LIFT_UP", "MOTOR_SETPOINT_UPDATE">> \in Seq(Events)
  BY DEF Events
<1>2. m_state' \in States /\ events' \in Seq(Events)
  BY <1>1, FinishOK DEF Construct, States, Stopped
<1> QED
  BY <1>2, CtrlAssumption DEF TypeOK, Construct, P_speed_baseline_get, settings

LEMMA ActualSpeedTypeOK ==
  ASSUME TypeOK, NEW speed \in Int, actualSpeedUpdate(speed)
  PROVE  TypeOK'
<1>1. events' \in Seq(Events)
  BY WarningsUpdateOK DEF actualSpeedUpdate
<1> QED
  BY <1>1 DEF TypeOK, actualSpeedUpdate, settings, Warnings

LEMMA InitTypeOK == Init => TypeOK
<1>1. << >> \in Seq(Events)
  BY EmptySeq
<1>2. Init => events \in Seq(Events)
  BY <1>1, Zenon DEF Init
<1>3. Init => m_state \in States /\ lift \in {"NONE", "UP", "DOWN"}
  BY Zenon DEF Init, States
<1>4. Init => /\ m_state_warnings \subseteq Warnings
              /\ m_state_allowed_autostop \in BOOLEAN
              /\ m_state_autostop_triggered \in BOOLEAN
              /\ m_motor_state_cached \in BOOLEAN
  BY Zenon DEF Init
<1>5. Init => /\ m_speed_SP_manual_delta \in Int
              /\ m_speed_SP_free \in Int
              /\ m_speed_PV \in Int
              /\ m_motor_speed_SP_cached \in Int
              /\ m_speed_baseline_mode \in {"LOW", "HIGH"}
  BY 0 \in Int, Zenon DEF Init
<1> QED
  BY <1>2, <1>3, <1>4, <1>5, Zenon DEF TypeOK

\* Every member keeps its type and every event delivered is one of the seven.
THEOREM TypeCorrect == Spec => []TypeOK
<1>1. TypeOK /\ [Next]_vars => TypeOK'
  <2> SUFFICES ASSUME TypeOK, [Next]_vars PROVE TypeOK'
    OBVIOUS
  <2>1. CASE Next
    BY <2>1, NextCases, ConstructTypeOK, CommandTypeOK, ActualSpeedTypeOK
  <2>2. CASE UNCHANGED vars
    BY <2>2 DEF vars, settings, outputs, TypeOK
  <2> QED
    BY <2>1, <2>2
<1> QED
  BY <1>1, InitTypeOK, PTL DEF Spec

-----------------------------------------------------------------------------
(***************************************************************************)
(* Safety.  The four invariants are inductive together with three facts:   *)
(* an automaton under construction drives nothing; service mode 1 keeps no *)
(* warning, which it would carry into its stopped mode, where none is      *)
(* cleaned; and service mode 2 leaves the lift up, because its STOP does   *)
(* not raise it.                                                           *)
(***************************************************************************)

Unconstructed ==
  m_state = "INIT" => ~m_motor_state_cached /\ lift # "DOWN" /\ m_state_warnings = {}

NoWarningsInService1 == m_state = "SERVICE_MODE1_STARTED" => m_state_warnings = {}
LiftLeftUp == m_state = "SERVICE_MODE2_STARTED" => lift = "UP"

Safety ==
  /\ Unconstructed
  /\ NoWarningsInService1
  /\ LiftLeftUp
  /\ AtRest
  /\ Posture
  /\ SetpointCoherent
  /\ AutostopHolds

\* What the helpers do to the state and the outputs, the events left aside.
LEMMA IgnoreEffect ==
  ASSUME Ignore
  PROVE  /\ m_state' = m_state
         /\ UNCHANGED <<m_state_warnings, m_motor_state_cached, m_motor_speed_SP_cached, lift>>
BY DEF Ignore, Finish, outputs

LEMMA SetpointUpdateEffect ==
  ASSUME NEW setpoint, NEW next_state, SetpointUpdate(setpoint, next_state)
  PROVE  /\ m_state' = next_state
         /\ m_motor_speed_SP_cached' = setpoint
         /\ UNCHANGED <<m_state_warnings, m_motor_state_cached, lift>>
BY DEF SetpointUpdate, Finish

LEMMA ShutDownEffect ==
  ASSUME NEW next_state, ShutDown(next_state)
  PROVE  /\ m_state' = next_state
         /\ m_state_warnings' = {}
         /\ ~m_motor_state_cached'
         /\ lift' = "UP"
         /\ UNCHANGED m_motor_speed_SP_cached
BY DEF ShutDown, Finish

LEMMA CommandSafety ==
  ASSUME TypeOK, Safety, NEW cmd, NEW speed \in Int, P_fsm(cmd, speed)
  PROVE  Safety'
<1> USE DEF Safety, Unconstructed, NoWarningsInService1, LiftLeftUp, AtRest, Posture, SetpointCoherent, AutostopHolds,
            AutostopPending, P_fsm, Store, outputs, Stopped, NormalStarted,
            P_speed_baseline_get, AutoSetpoint, ManualSetpoint, Gauge
<1>1. CASE NormalStopped(cmd)
  BY <1>1 DEF NormalStopped, EnterStopped, Enter, EnterTarget, Finish, Ignore, Setting, Baseline
<1>2. CASE NormalStartedAuto(cmd)
  <2>1. CASE cmd = "START"
    BY <1>2, <2>1, SetpointUpdateEffect DEF NormalStartedAuto, Baseline, Enter, EnterTarget
  <2>2. CASE cmd = "STOP"
    BY <1>2, <2>2, ShutDownEffect DEF NormalStartedAuto, Baseline, Enter, EnterTarget
  <2>3. CASE cmd \in Baseline
    BY <1>2, <2>3, SetpointUpdateEffect DEF NormalStartedAuto, Baseline, Enter, EnterTarget
  <2>4. CASE cmd = "AUTOSTOP_ALLOW"
    BY <1>2, <2>4, ShutDownEffect, IgnoreEffect
       DEF NormalStartedAuto, AllowWhileStarted, Baseline, Enter, EnterTarget
  <2>5. CASE cmd \in Gauge
    BY <1>2, <2>5, ShutDownEffect, IgnoreEffect
       DEF NormalStartedAuto, GaugeWhileStarted, Baseline, Enter, EnterTarget
  <2>6. CASE cmd \in Enter \cup {"SPEED_MANUAL_UPDATE", "SPEED_FREE_UPDATE", "AUTOSTOP_DENY"}
    <3>1. Ignore
      BY <1>2, <2>6 DEF NormalStartedAuto, Baseline, Enter, EnterTarget
    <3>2. UNCHANGED <<m_speed_baseline_mode, m_state_autostop_triggered>>
      BY <2>6 DEF Enter, EnterTarget
    <3>3. AutostopPending' => AutostopPending
      BY <2>6 DEF Enter, EnterTarget
    <3> QED
      BY <1>2, <3>1, <3>2, <3>3, IgnoreEffect DEF NormalStartedAuto
  <2> QED
    BY <1>2, <2>1, <2>2, <2>3, <2>4, <2>5, <2>6 DEF NormalStartedAuto
<1>3. CASE NormalStartedManual(cmd)
  <2>1. CASE cmd = "START"
    BY <1>3, <2>1, SetpointUpdateEffect DEF NormalStartedManual, Baseline, Enter, EnterTarget
  <2>2. CASE cmd = "STOP"
    BY <1>3, <2>2, ShutDownEffect DEF NormalStartedManual, Baseline, Enter, EnterTarget
  <2>3. CASE cmd \in Baseline \cup {"SPEED_MANUAL_UPDATE"}
    BY <1>3, <2>3, SetpointUpdateEffect, IgnoreEffect
       DEF NormalStartedManual, Baseline, Enter, EnterTarget
  <2>4. CASE cmd = "AUTOSTOP_ALLOW"
    BY <1>3, <2>4, ShutDownEffect, IgnoreEffect
       DEF NormalStartedManual, AllowWhileStarted, Baseline, Enter, EnterTarget
  <2>5. CASE cmd \in Gauge
    BY <1>3, <2>5, ShutDownEffect, IgnoreEffect
       DEF NormalStartedManual, GaugeWhileStarted, Baseline, Enter, EnterTarget
  <2>6. CASE cmd \in Enter \cup {"SPEED_FREE_UPDATE", "AUTOSTOP_DENY"}
    <3>1. Ignore
      BY <1>3, <2>6 DEF NormalStartedManual, Baseline, Enter, EnterTarget
    <3>2. UNCHANGED <<m_speed_baseline_mode, m_state_autostop_triggered>> /\ UNCHANGED m_speed_SP_manual_delta
      BY <2>6 DEF Enter, EnterTarget
    <3>3. AutostopPending' => AutostopPending
      BY <2>6 DEF Enter, EnterTarget
    <3> QED
      BY <1>3, <3>1, <3>2, <3>3, IgnoreEffect DEF NormalStartedManual
  <2> QED
    BY <1>3, <2>1, <2>2, <2>3, <2>4, <2>5, <2>6 DEF NormalStartedManual
<1>4. CASE ServiceMode1Stopped(cmd)
  BY <1>4 DEF Finish, ServiceMode1Stopped, EnterStopped, Enter, EnterTarget, Ignore
<1>5. CASE ServiceMode1Started(cmd)
  BY <1>5, IgnoreEffect DEF Finish, ServiceMode1Started
<1>6. CASE ServiceMode2Stopped(cmd)
  BY <1>6 DEF Finish, ServiceMode2Stopped, EnterStopped, Enter, EnterTarget, SpinUp, Ignore
<1>7. CASE ServiceMode2Started(cmd)
  BY <1>7 DEF Finish, ServiceMode2Started, SpinDown, Ignore
<1>8. CASE ServiceMode3Stopped(cmd)
  BY <1>8 DEF Finish, ServiceMode3Stopped, EnterStopped, Enter, EnterTarget, SpinUp, Ignore, Setting,
              Baseline
<1>9. CASE ServiceMode3Started(cmd)
  BY <1>9 DEF Finish, ServiceMode3Started, SpinDown, SetpointUpdate, Ignore, Setting, Baseline,
              Enter, EnterTarget
<1> QED
  BY <1>1, <1>2, <1>3, <1>4, <1>5, <1>6, <1>7, <1>8, <1>9

LEMMA ConstructSafety ==
  ASSUME Safety, Construct
  PROVE  Safety'
BY DEF Construct, Finish, Safety, Unconstructed, NoWarningsInService1, LiftLeftUp, AtRest, Posture, SetpointCoherent,
       AutostopHolds, Stopped, NormalStarted

LEMMA ActualSpeedSafety ==
  ASSUME Safety, NEW speed \in Int, actualSpeedUpdate(speed)
  PROVE  Safety'
BY DEF actualSpeedUpdate, SpeedChecked, settings, Safety, Unconstructed, NoWarningsInService1, LiftLeftUp, AtRest, Posture,
       SetpointCoherent, AutostopHolds, AutostopPending, Stopped, NormalStarted

LEMMA InitSafety == Init => Safety
BY DEF Init, Safety, Unconstructed, NoWarningsInService1, LiftLeftUp, AtRest, Posture, SetpointCoherent, AutostopHolds,
       Stopped, NormalStarted

\* The motor, the needle, the warnings and the set point agree with the mode,
\* and the autostop holds, in every reachable state.
THEOREM SafetyHolds == Spec => []Safety
<1>1. TypeOK /\ Safety /\ [Next]_vars => Safety'
  <2> SUFFICES ASSUME TypeOK, Safety, [Next]_vars PROVE Safety'
    OBVIOUS
  <2>1. CASE Next
    BY <2>1, NextCases, ConstructSafety, CommandSafety, ActualSpeedSafety
  <2>2. CASE UNCHANGED vars
    BY <2>2 DEF vars, settings, outputs, Safety, Unconstructed, NoWarningsInService1, LiftLeftUp, AtRest, Posture,
                SetpointCoherent, AutostopHolds, AutostopPending
  <2> QED
    BY <2>1, <2>2
<1> QED
  BY <1>1, InitSafety, TypeCorrect, PTL DEF Spec

\* At rest everything is off; motor, needle and set point agree with the mode;
\* no normal mode drives the motor while an allowed autostop is tripped.
THEOREM SafeHolds == Spec => []Safe
BY TypeCorrect, SafetyHolds, PTL DEF Safe, Safety

-----------------------------------------------------------------------------
(***************************************************************************)
(* The motor is switched on only by a START from rest.  Of the helpers,    *)
(* SpinUp and the START of the normal mode are the only ones that raise    *)
(* the motor command; every other leaves it or lowers it.                  *)
(***************************************************************************)

MotorOnStep ==
  ~m_motor_state_cached /\ m_motor_state_cached' =>
     /\ m_state \in Stopped
     /\ m_state' \in SpeedChecked
     /\ m_motor_speed_SP_cached' =
          IF m_state' = "SERVICE_MODE3_STARTED" THEN m_speed_SP_free
          ELSE P_speed_baseline_get(m_speed_baseline_mode)

LEMMA CommandMotorOn ==
  ASSUME NEW cmd, NEW speed, P_fsm(cmd, speed)
  PROVE  MotorOnStep
<1>1. CASE NormalStopped(cmd) /\ ~EnterStopped(cmd) /\ ~Ignore
  <2>1. cmd = "START" /\ UNCHANGED m_speed_baseline_mode
    BY <1>1 DEF NormalStopped, P_fsm, Store
  <2> QED
    BY <1>1, <2>1 DEF NormalStopped, Finish, AutoSetpoint, MotorOnStep, Stopped,
                      SpeedChecked, NormalStarted
<1>2. CASE ServiceMode2Stopped(cmd) /\ ~EnterStopped(cmd) /\ ~Ignore
  <2>1. cmd = "START" /\ UNCHANGED m_speed_baseline_mode
    BY <1>2 DEF ServiceMode2Stopped, P_fsm, Store
  <2> QED
    BY <1>2, <2>1 DEF ServiceMode2Stopped, SpinUp, Finish, AutoSetpoint, MotorOnStep,
                      Stopped, SpeedChecked
<1>3. CASE ServiceMode3Stopped(cmd) /\ ~EnterStopped(cmd) /\ ~Ignore
  BY <1>3 DEF ServiceMode3Stopped, SpinUp, Finish, MotorOnStep, Stopped, SpeedChecked
<1>4. CASE EnterStopped(cmd) \/ Ignore
  BY <1>4 DEF EnterStopped, Ignore, outputs, MotorOnStep
<1>5. CASE NormalStartedAuto(cmd) \/ NormalStartedManual(cmd)
  BY <1>5 DEF NormalStartedAuto, NormalStartedManual, SetpointUpdate, ShutDown, Ignore,
              AllowWhileStarted, GaugeWhileStarted, outputs, MotorOnStep
<1>6. CASE ServiceMode1Stopped(cmd) \/ ServiceMode1Started(cmd)
  BY <1>6 DEF ServiceMode1Stopped, ServiceMode1Started, EnterStopped, Ignore, outputs,
              MotorOnStep
<1>7. CASE ServiceMode2Started(cmd) \/ ServiceMode3Started(cmd)
  BY <1>7 DEF ServiceMode2Started, ServiceMode3Started, SetpointUpdate, SpinDown, Ignore,
              outputs, MotorOnStep
<1> QED
  BY <1>1, <1>2, <1>3, <1>4, <1>5, <1>6, <1>7 DEF P_fsm

\* A parked or stopped table never starts by itself, and a START sends the set
\* point of the mode it enters.
THEOREM MotorOnTheorem == Spec => MotorOnOnlyFromRest
<1>1. [Next]_vars => [MotorOnStep]_vars
  <2>1. ASSUME Construct PROVE MotorOnStep
    BY <2>1 DEF Construct, MotorOnStep
  <2>2. ASSUME NEW speed, actualSpeedUpdate(speed) PROVE MotorOnStep
    BY <2>2 DEF actualSpeedUpdate, MotorOnStep
  <2> QED
    BY <2>1, <2>2, NextCases, CommandMotorOn
<1> QED
  BY <1>1, PTL DEF Spec, MotorOnOnlyFromRest, MotorOnStep

-----------------------------------------------------------------------------
(***************************************************************************)
(* Refinement: under the mapping of Ctrl.tla every step of the automaton   *)
(* is a step of the abstract turntable or leaves it unchanged.  Safety is  *)
(* needed for the steps that do not write an output the abstract action    *)
(* writes: the START of service mode 2, say, leaves the needle where it    *)
(* is, which is up because the mode was stopped.                           *)
(***************************************************************************)

TableStep == [Table!TableNext]_(Table!tvars)

LEMMA IgnoreRefines == Ignore => TableStep
BY DEF Ignore, Finish, outputs, TableStep, Table!tvars

LEMMA EnterStoppedRefines ==
  ASSUME m_state \in Stopped, NEW cmd, EnterStopped(cmd)
  PROVE  TableStep
<1>1. m_state' \in Stopped
  BY DEF EnterStopped, Enter, EnterTarget, Finish, Stopped
<1>2. m_state \notin Started /\ m_state' \notin Started
  BY <1>1 DEF Stopped, Started, NormalStarted
<1>3. MenuOf(m_state') \in Table!Menus
  BY DEF MenuOf, Table!Menus
<1>4. UNCHANGED <<m_motor_state_cached, lift>>
  BY DEF EnterStopped, outputs
<1> QED
  BY <1>2, <1>3, <1>4 DEF TableStep, Table!TableNext, Table!SelectMenu

LEMMA ShutDownRefines ==
  ASSUME m_state \in NormalStarted, NEW next_state \in {m_state, "NORMAL_STOPPED"},
         ShutDown(next_state)
  PROVE  TableStep
BY DEF ShutDown, Finish, TableStep, Table!TableNext, Table!Stop, Table!Park, MenuOf,
       NormalStarted, Started

LEMMA CommandRefines ==
  ASSUME TypeOK, Safety, NEW cmd, NEW speed, P_fsm(cmd, speed)
  PROVE  TableStep
<1> USE DEF Safety, LiftLeftUp, AtRest, Posture, Stopped, Started, NormalStarted, MenuOf, Finish
<1>1. CASE Ignore \/ (m_state \in Stopped /\ EnterStopped(cmd))
  BY <1>1, IgnoreRefines, EnterStoppedRefines
<1>2. CASE ~Ignore /\ ~EnterStopped(cmd)
  <2>1. CASE NormalStopped(cmd)
    BY <1>2, <2>1 DEF NormalStopped, TableStep, Table!TableNext, Table!Start
  <2>2. CASE NormalStartedAuto(cmd)
    <3>1. CASE SetpointUpdate(ManualSetpoint, "NORMAL_STARTED_MANUAL") \/ SetpointUpdate(AutoSetpoint, m_state)
      BY <2>2, <3>1 DEF NormalStartedAuto, SetpointUpdate, TableStep, Table!tvars
    <3>2. CASE ShutDown("NORMAL_STOPPED") \/ ShutDown(m_state)
      BY <2>2, <3>2 DEF NormalStartedAuto, ShutDown, TableStep, Table!TableNext, Table!Stop,
                        Table!Park
    <3> QED
      BY <1>2, <2>2, <3>1, <3>2 DEF NormalStartedAuto, AllowWhileStarted, GaugeWhileStarted
  <2>3. CASE NormalStartedManual(cmd)
    <3>1. CASE SetpointUpdate(AutoSetpoint, "NORMAL_STARTED_AUTO") \/ SetpointUpdate(ManualSetpoint, m_state)
      BY <2>3, <3>1 DEF NormalStartedManual, SetpointUpdate, TableStep, Table!tvars
    <3>2. CASE ShutDown("NORMAL_STOPPED") \/ ShutDown(m_state)
      BY <2>3, <3>2 DEF NormalStartedManual, ShutDown, TableStep, Table!TableNext, Table!Stop,
                        Table!Park
    <3> QED
      BY <1>2, <2>3, <3>1, <3>2 DEF NormalStartedManual, AllowWhileStarted, GaugeWhileStarted
  <2>4. CASE ServiceMode1Stopped(cmd)
    <3>1. m_motor_state_cached' = FALSE
      BY <1>2, <2>4 DEF ServiceMode1Stopped, TypeOK
    <3> QED
      BY <1>2, <2>4, <3>1 DEF ServiceMode1Stopped, TableStep, Table!TableNext, Table!Start
  <2>5. CASE ServiceMode1Started(cmd)
    BY <1>2, <2>5 DEF ServiceMode1Started, TableStep, Table!TableNext, Table!Stop
  <2>6. CASE ServiceMode2Stopped(cmd)
    BY <1>2, <2>6 DEF ServiceMode2Stopped, SpinUp, TableStep, Table!TableNext, Table!Start
  <2>7. CASE ServiceMode2Started(cmd)
    BY <1>2, <2>7 DEF ServiceMode2Started, SpinDown, TableStep, Table!TableNext, Table!Stop
  <2>8. CASE ServiceMode3Stopped(cmd)
    BY <1>2, <2>8 DEF ServiceMode3Stopped, SpinUp, TableStep, Table!TableNext, Table!Start
  <2>9. CASE ServiceMode3Started(cmd)
    <3>1. CASE SetpointUpdate(m_speed_SP_free', m_state)
      BY <2>9, <3>1 DEF ServiceMode3Started, SetpointUpdate, TableStep, Table!tvars
    <3>2. CASE SpinDown("SERVICE_MODE3_STOPPED")
      BY <2>9, <3>2 DEF ServiceMode3Started, SpinDown, TableStep, Table!TableNext, Table!Stop
    <3> QED
      BY <1>2, <2>9, <3>1, <3>2 DEF ServiceMode3Started
  <2> QED
    BY <2>1, <2>2, <2>3, <2>4, <2>5, <2>6, <2>7, <2>8, <2>9 DEF P_fsm
<1>3. EnterStopped(cmd) => Ignore \/ m_state \in Stopped
  BY DEF EnterStopped, P_fsm, NormalStopped, NormalStartedAuto, NormalStartedManual,
         ServiceMode1Stopped, ServiceMode1Started, ServiceMode2Stopped, ServiceMode2Started,
         ServiceMode3Stopped, ServiceMode3Started, Enter, EnterTarget, Baseline, Gauge
<1> QED
  BY <1>1, <1>2, <1>3

\* Construction and measured speeds are invisible at the table.
LEMMA OtherRefines ==
  ASSUME TypeOK, Safety, Construct \/ \E speed \in Int : actualSpeedUpdate(speed)
  PROVE  TableStep
<1>1. ASSUME Construct PROVE TableStep
  <2>1. m_motor_state_cached = FALSE /\ m_motor_state_cached' = FALSE
    BY <1>1 DEF Construct, TypeOK, Safety, Unconstructed
  <2>2. m_state = "INIT" /\ m_state' = "NORMAL_STOPPED" /\ lift # "DOWN" /\ lift' = "UP"
    BY <1>1 DEF Construct, Finish, Safety, Unconstructed
  <2>3. MenuOf(m_state') = MenuOf(m_state)
    BY <2>2 DEF MenuOf
  <2>4. m_state \notin Started /\ m_state' \notin Started
    BY <2>2 DEF Started, NormalStarted
  <2>5. (m_state' \in Started) = (m_state \in Started)
    BY <2>4, SMT
  <2>6. (IF lift' = "DOWN" THEN "DOWN" ELSE "UP") = (IF lift = "DOWN" THEN "DOWN" ELSE "UP")
    BY <2>2
  <2> QED
    BY <2>1, <2>3, <2>5, <2>6, Zenon DEF TableStep, Table!tvars
<1>2. ASSUME NEW speed, actualSpeedUpdate(speed) PROVE TableStep
  BY <1>2 DEF actualSpeedUpdate, TableStep, Table!tvars
<1> QED
  BY <1>1, <1>2

\* The automaton implements the abstract turntable.
THEOREM Refinement == Spec => ImplementsTurntable
<1>1. Init => Table!TableInit
  BY DEF Init, Table!TableInit, MenuOf, Started, NormalStarted
<1>2. TypeOK /\ Safety /\ [Next]_vars => [Table!TableNext]_(Table!tvars)
  <2> SUFFICES ASSUME TypeOK, Safety, [Next]_vars PROVE TableStep
    BY DEF TableStep
  <2>1. CASE Next
    BY <2>1, NextCases, CommandRefines, OtherRefines
  <2>2. CASE UNCHANGED vars
    BY <2>2 DEF vars, outputs, TableStep, Table!tvars
  <2> QED
    BY <2>1, <2>2
<1> QED
  BY <1>1, <1>2, TypeCorrect, SafetyHolds, PTL DEF Spec, ImplementsTurntable, Table!TableSpec

-----------------------------------------------------------------------------
(***************************************************************************)
(* The listener hears of every change.  Each helper tells what it writes,  *)
(* and Finish adds the change of the run mode.                             *)
(***************************************************************************)

Said(evts) == {evts[i] : i \in DOMAIN evts}

\* The four outputs, told of by the events in said.
OutputsTold(said) ==
  /\ m_motor_state_cached' # m_motor_state_cached =>
       (IF m_motor_state_cached' THEN "MOTOR_ON" ELSE "MOTOR_OFF") \in said
  /\ m_motor_speed_SP_cached' # m_motor_speed_SP_cached => "MOTOR_SETPOINT_UPDATE" \in said
  /\ m_state_warnings' # m_state_warnings => "WARNINGS_UPDATE" \in said
  /\ lift' # lift => (IF lift' = "UP" THEN "LIFT_UP" ELSE "LIFT_DOWN") \in said

ModeTold(said) ==
  P_runModeGet(m_state') # P_runModeGet(m_state) <=> "RUNMODE_CHANGED" \in said

Told == OutputsTold(Said(events')) /\ ModeTold(Said(events'))

\* A list of events that tells the outputs, and says nothing of the run mode,
\* is all Finish needs.
LEMMA FinishTells ==
  ASSUME NEW next_state, NEW evts \in Seq(Events), Finish(next_state, evts),
         OutputsTold(Said(evts)), "RUNMODE_CHANGED" \notin Said(evts)
  PROVE  Told
<1>1. m_state' = next_state
  BY DEF Finish
<1>2. CASE P_runModeGet(m_state) # P_runModeGet(next_state)
  <2>1. events' = Append(evts, "RUNMODE_CHANGED")
    BY <1>2 DEF Finish
  <2> DEFINE e == Append(evts, "RUNMODE_CHANGED")
  <2>2. /\ Len(evts) \in Nat /\ DOMAIN evts = 1..Len(evts)
        /\ DOMAIN e = 1..(Len(evts) + 1)
        /\ \A i \in 1..Len(evts) : e[i] = evts[i]
        /\ e[Len(evts) + 1] = "RUNMODE_CHANGED"
    OBVIOUS
  <2> HIDE DEF e
  <2>3. "RUNMODE_CHANGED" \in Said(e) /\ \A x \in Said(evts) : x \in Said(e)
    BY <2>2 DEF Said
  <2>4. events' = e
    BY <2>1 DEF e
  <2> QED
    BY <1>1, <1>2, <2>3, <2>4 DEF Told, OutputsTold, ModeTold
<1>3. CASE P_runModeGet(m_state) = P_runModeGet(next_state)
  <2>1. events' = evts
    BY <1>3 DEF Finish
  <2> QED
    BY <1>1, <1>3, <2>1 DEF Told, ModeTold
<1> QED
  BY <1>2, <1>3

LEMMA NothingSaid == << >> \in Seq(Events) /\ Said(<< >>) = {}
<1>1. << >> \in Seq(Events)
  BY EmptySeq
<1> QED
  BY <1>1 DEF Said

LEMMA IgnoreTells == Ignore => Told
<1> SUFFICES ASSUME Ignore PROVE Told
  OBVIOUS
<1>1. OutputsTold(Said(<< >>))
  BY DEF Ignore, outputs, OutputsTold
<1> QED
  BY <1>1, NothingSaid, FinishTells DEF Ignore

LEMMA EnterStoppedTells ==
  ASSUME NEW cmd, EnterStopped(cmd)
  PROVE  Told
<1>1. OutputsTold(Said(<< >>))
  BY DEF EnterStopped, outputs, OutputsTold
<1> QED
  BY <1>1, NothingSaid, FinishTells DEF EnterStopped

LEMMA SetpointUpdateTells ==
  ASSUME NEW setpoint, NEW next_state, SetpointUpdate(setpoint, next_state)
  PROVE  Told
<1>1. /\ <<"MOTOR_SETPOINT_UPDATE">> \in Seq(Events)
      /\ Said(<<"MOTOR_SETPOINT_UPDATE">>) = {"MOTOR_SETPOINT_UPDATE"}
  BY DEF Said, Events
<1>2. OutputsTold({"MOTOR_SETPOINT_UPDATE"})
  BY DEF SetpointUpdate, OutputsTold
<1> QED
  BY <1>1, <1>2, FinishTells DEF SetpointUpdate

\* CleanEvents in front of other events: told exactly when there were warnings.
LEMMA CleanThen ==
  ASSUME NEW evts \in Seq(Events)
  PROVE  /\ CleanEvents \o evts \in Seq(Events)
         /\ Said(CleanEvents \o evts) =
              Said(evts) \cup (IF m_state_warnings = {} THEN {} ELSE {"WARNINGS_UPDATE"})
<1>1. CASE m_state_warnings = {}
  <2>1. CleanEvents \o evts = evts
    BY <1>1 DEF CleanEvents
  <2> QED
    BY <1>1, <2>1
<1>2. CASE m_state_warnings # {}
  <2> DEFINE w == <<"WARNINGS_UPDATE">>
             e == w \o evts
  <2>1. w \in Seq(Events) /\ Len(w) = 1 /\ w[1] = "WARNINGS_UPDATE"
    BY DEF Events
  <2> HIDE DEF w
  <2>2. /\ e \in Seq(Events) /\ Len(evts) \in Nat /\ DOMAIN evts = 1..Len(evts)
        /\ DOMAIN e = 1..(Len(evts) + 1) /\ e[1] = "WARNINGS_UPDATE"
        /\ \A i \in 1..Len(evts) : e[i + 1] = evts[i]
    <3>1. Len(evts) \in Nat /\ DOMAIN evts = 1..Len(evts)
      OBVIOUS
    <3>2. /\ e \in Seq(Events) /\ Len(e) = Len(w) + Len(evts)
          /\ \A i \in 1..(Len(w) + Len(evts)) :
               e[i] = IF i <= Len(w) THEN w[i] ELSE evts[i - Len(w)]
      BY <2>1, ConcatProperties
    <3> HIDE DEF e
    <3>3. /\ Len(e) = Len(evts) + 1
          /\ \A i \in 1..(Len(evts) + 1) : e[i] = IF i <= 1 THEN w[i] ELSE evts[i - 1]
      BY <2>1, <3>1, <3>2
    <3>4. DOMAIN e = 1..(Len(evts) + 1) /\ e[1] = "WARNINGS_UPDATE"
      BY <2>1, <3>1, <3>2, <3>3
    <3>5. \A i \in 1..Len(evts) : e[i + 1] = evts[i]
      <4> TAKE i \in 1..Len(evts)
      <4>1. i + 1 \in 1..(Len(evts) + 1) /\ ~(i + 1 <= 1) /\ (i + 1) - 1 = i
        BY <3>1
      <4> QED
        BY <3>3, <4>1
    <3> QED
      BY <3>1, <3>2, <3>4, <3>5
  <2> HIDE DEF e
  <2>3. \A i \in DOMAIN e : i = 1 \/ (i - 1 \in 1..Len(evts) /\ e[i] = evts[i - 1])
    <3> TAKE i \in DOMAIN e
    <3>1. i = 1 \/ (i - 1 \in 1..Len(evts) /\ (i - 1) + 1 = i)
      BY <2>2
    <3> QED
      BY <2>2, <3>1
  <2>4. \A i \in DOMAIN evts : i + 1 \in DOMAIN e /\ e[i + 1] = evts[i]
    BY <2>2
  <2>5. 1 \in DOMAIN e
    BY <2>2
  <2>6. Said(e) = Said(evts) \cup {"WARNINGS_UPDATE"}
    <3>1. \A x \in Said(e) : x \in Said(evts) \/ x = "WARNINGS_UPDATE"
      BY <2>2, <2>3 DEF Said
    <3>2. \A x \in Said(evts) : x \in Said(e)
      BY <2>4 DEF Said
    <3>3. "WARNINGS_UPDATE" \in Said(e)
      BY <2>2, <2>5 DEF Said
    <3> QED
      BY <3>1, <3>2, <3>3
  <2> QED
    BY <1>2, <2>2, <2>6 DEF CleanEvents, e, w
<1> QED
  BY <1>1, <1>2

LEMMA ShutDownTells ==
  ASSUME NEW next_state, ShutDown(next_state)
  PROVE  Told
<1> DEFINE e == CleanEvents \o <<"MOTOR_OFF", "LIFT_UP">>
<1>1. /\ <<"MOTOR_OFF", "LIFT_UP">> \in Seq(Events)
      /\ Said(<<"MOTOR_OFF", "LIFT_UP">>) = {"MOTOR_OFF", "LIFT_UP"}
  BY DEF Said, Events
<1>2. /\ e \in Seq(Events)
      /\ Said(e) = {"MOTOR_OFF", "LIFT_UP"}
                     \cup (IF m_state_warnings = {} THEN {} ELSE {"WARNINGS_UPDATE"})
  BY <1>1, CleanThen
<1>3. Finish(next_state, e)
  BY DEF ShutDown
<1> HIDE DEF e
<1>4. OutputsTold(Said(e))
  BY <1>2 DEF ShutDown, OutputsTold
<1> QED
  BY <1>2, <1>3, <1>4, FinishTells

LEMMA SpinDownTells ==
  ASSUME NEW next_state, SpinDown(next_state)
  PROVE  Told
<1> DEFINE e == CleanEvents \o <<"MOTOR_OFF">>
<1>1. <<"MOTOR_OFF">> \in Seq(Events) /\ Said(<<"MOTOR_OFF">>) = {"MOTOR_OFF"}
  BY DEF Said, Events
<1>2. /\ e \in Seq(Events)
      /\ Said(e) = {"MOTOR_OFF"} \cup (IF m_state_warnings = {} THEN {} ELSE {"WARNINGS_UPDATE"})
  BY <1>1, CleanThen
<1>3. Finish(next_state, e)
  BY DEF SpinDown
<1> HIDE DEF e
<1>4. OutputsTold(Said(e))
  BY <1>2 DEF SpinDown, OutputsTold
<1> QED
  BY <1>2, <1>3, <1>4, FinishTells

LEMMA SpinUpTells ==
  ASSUME NEW setpoint, NEW next_state, SpinUp(setpoint, next_state)
  PROVE  Told
<1>1. /\ <<"MOTOR_SETPOINT_UPDATE", "MOTOR_ON">> \in Seq(Events)
      /\ Said(<<"MOTOR_SETPOINT_UPDATE", "MOTOR_ON">>) = {"MOTOR_SETPOINT_UPDATE", "MOTOR_ON"}
  BY DEF Said, Events
<1>2. OutputsTold({"MOTOR_SETPOINT_UPDATE", "MOTOR_ON"})
  BY DEF SpinUp, OutputsTold
<1> QED
  BY <1>1, <1>2, FinishTells DEF SpinUp

\* The START of the normal mode, which tells all three.
LEMMA StartTells ==
  ASSUME NormalStopped("START"), ~Ignore
  PROVE  Told
<1> DEFINE e == <<"MOTOR_SETPOINT_UPDATE", "MOTOR_ON", "LIFT_DOWN">>
<1>1. e \in Seq(Events) /\ Said(e) = {"MOTOR_SETPOINT_UPDATE", "MOTOR_ON", "LIFT_DOWN"}
  BY DEF Said, Events
<1> HIDE DEF e
<1>2. /\ Finish("NORMAL_STARTED_AUTO", e) /\ m_motor_state_cached' = TRUE /\ lift' = "DOWN"
      /\ UNCHANGED m_state_warnings
  BY DEF NormalStopped, EnterStopped, Enter, EnterTarget, Setting, Baseline, Gauge, e
<1>3. OutputsTold(Said(e))
  BY <1>1, <1>2 DEF OutputsTold
<1> QED
  BY <1>1, <1>2, <1>3, FinishTells

LEMMA ServiceMode1Tells ==
  ASSUME NEW cmd, ServiceMode1Stopped(cmd) \/ ServiceMode1Started(cmd)
  PROVE  Told
<1>1. /\ <<"LIFT_DOWN">> \in Seq(Events) /\ Said(<<"LIFT_DOWN">>) = {"LIFT_DOWN"}
      /\ <<"LIFT_UP">> \in Seq(Events) /\ Said(<<"LIFT_UP">>) = {"LIFT_UP"}
  BY DEF Said, Events
<1>2. CASE EnterStopped(cmd) \/ Ignore
  BY <1>2, EnterStoppedTells, IgnoreTells
<1>3. CASE /\ lift' = "DOWN" /\ Finish("SERVICE_MODE1_STARTED", <<"LIFT_DOWN">>)
           /\ UNCHANGED <<m_state_warnings, m_motor_state_cached, m_motor_speed_SP_cached>>
  <2>1. OutputsTold({"LIFT_DOWN"})
    BY <1>3 DEF OutputsTold
  <2> QED
    BY <1>1, <1>3, <2>1, FinishTells
<1>4. CASE /\ lift' = "UP" /\ Finish("SERVICE_MODE1_STOPPED", <<"LIFT_UP">>)
           /\ UNCHANGED <<m_state_warnings, m_motor_state_cached, m_motor_speed_SP_cached>>
  <2>1. OutputsTold({"LIFT_UP"})
    BY <1>4 DEF OutputsTold
  <2> QED
    BY <1>1, <1>4, <2>1, FinishTells
<1> QED
  BY <1>2, <1>3, <1>4 DEF ServiceMode1Stopped, ServiceMode1Started

LEMMA CommandTells ==
  ASSUME NEW cmd, NEW speed, P_fsm(cmd, speed)
  PROVE  Told
<1>1. CASE NormalStopped(cmd)
  <2>1. cmd = "START" \/ EnterStopped(cmd) \/ Ignore
    BY <1>1 DEF NormalStopped
  <2> QED
    BY <1>1, <2>1, StartTells, EnterStoppedTells, IgnoreTells
<1>2. CASE NormalStartedAuto(cmd)
  BY <1>2, SetpointUpdateTells, ShutDownTells, IgnoreTells
     DEF NormalStartedAuto, AllowWhileStarted, GaugeWhileStarted
<1>3. CASE NormalStartedManual(cmd)
  BY <1>3, SetpointUpdateTells, ShutDownTells, IgnoreTells
     DEF NormalStartedManual, AllowWhileStarted, GaugeWhileStarted
<1>4. CASE ServiceMode1Stopped(cmd) \/ ServiceMode1Started(cmd)
  BY <1>4, ServiceMode1Tells
<1>5. CASE ServiceMode2Stopped(cmd)
  BY <1>5, EnterStoppedTells, SpinUpTells, IgnoreTells DEF ServiceMode2Stopped
<1>6. CASE ServiceMode2Started(cmd)
  BY <1>6, SpinDownTells, IgnoreTells DEF ServiceMode2Started
<1>7. CASE ServiceMode3Stopped(cmd)
  BY <1>7, EnterStoppedTells, SpinUpTells, IgnoreTells DEF ServiceMode3Stopped
<1>8. CASE ServiceMode3Started(cmd)
  BY <1>8, SpinDownTells, SetpointUpdateTells, IgnoreTells DEF ServiceMode3Started
<1> QED
  BY <1>1, <1>2, <1>3, <1>4, <1>5, <1>6, <1>7, <1>8 DEF P_fsm

LEMMA ConstructTells == Construct => Told
<1> SUFFICES ASSUME Construct PROVE Told
  OBVIOUS
<1> DEFINE e == <<"MOTOR_OFF", "LIFT_UP", "MOTOR_SETPOINT_UPDATE">>
<1>1. e \in Seq(Events) /\ Said(e) = {"MOTOR_OFF", "LIFT_UP", "MOTOR_SETPOINT_UPDATE"}
  BY DEF Said, Events
<1> HIDE DEF e
<1>2. /\ Finish("NORMAL_STOPPED", e) /\ m_motor_state_cached' = FALSE /\ lift' = "UP"
      /\ UNCHANGED m_state_warnings
  BY DEF Construct, e
<1>3. OutputsTold(Said(e))
  BY <1>1, <1>2 DEF OutputsTold
<1> QED
  BY <1>1, <1>2, <1>3, FinishTells

LEMMA ActualSpeedTells ==
  ASSUME NEW speed, actualSpeedUpdate(speed)
  PROVE  Told
<1>1. Said(<< >>) = {} /\ Said(<<"WARNINGS_UPDATE">>) = {"WARNINGS_UPDATE"}
  BY DEF Said
<1>2. Said(events') = IF m_state_warnings' # m_state_warnings THEN {"WARNINGS_UPDATE"} ELSE {}
  BY <1>1 DEF actualSpeedUpdate
<1> QED
  BY <1>2 DEF actualSpeedUpdate, Told, OutputsTold, ModeTold

\* No call changes the motor command, the set point, the warnings, the needle
\* or the run mode without the event that says so, and the run mode is never
\* said to have changed when it has not.
THEOREM ChangesAnnounced == Spec => EveryChangeAnnounced
<1>1. [Next]_vars => [Told]_vars
  BY NextCases, CommandTells, ConstructTells, ActualSpeedTells
<1> QED
  BY <1>1, PTL DEF Spec, EveryChangeAnnounced, Told, OutputsTold, ModeTold, Said
=============================================================================
