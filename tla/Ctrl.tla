-------------------------------- MODULE Ctrl --------------------------------
(***************************************************************************)
(* The control automaton of the turntable: class Ctrl of Ctrl.ino and      *)
(* Ctrl.hpp.  Every public method that changes state builds a command and  *)
(* runs P_fsm; one operator below stands for each case of its switch on    *)
(* m_state.  The automaton talks to its listener through a callback, one   *)
(* event at a time, while a command runs; `events' is the sequence of      *)
(* events the last call delivered and `lift' where LIFT_UP and LIFT_DOWN   *)
(* left the needle.  A command answered Error::INVALID_MODE changes        *)
(* nothing and delivers nothing, exactly like one that is ignored.         *)
(***************************************************************************)
EXTENDS Integers, Sequences

CONSTANTS
  BaselineLow,    \* m_speed_baselines[MODE_LOW],  33 1/3 rpm
  BaselineHigh,   \* m_speed_baselines[MODE_HIGH], 45 rpm
  ManualSpeeds,   \* corrections the potentiometer can ask for
  FreeSpeeds,     \* set points that can be sent for service mode 3
  ActualSpeeds    \* speeds that can be measured

ASSUME CtrlAssumption ==
  /\ BaselineLow \in Int
  /\ BaselineHigh \in Int
  /\ ManualSpeeds \subseteq Int
  /\ FreeSpeeds \subseteq Int
  /\ ActualSpeeds \subseteq Int

VARIABLES
  m_state,
  m_state_warnings,
  m_state_allowed_autostop,
  m_state_autostop_triggered,
  m_speed_SP_manual_delta,
  m_speed_SP_free,
  m_speed_PV,
  m_speed_baseline_mode,
  m_motor_state_cached,
  m_motor_speed_SP_cached,
  lift,
  events

settings == <<m_state_allowed_autostop, m_state_autostop_triggered,
              m_speed_SP_manual_delta, m_speed_SP_free, m_speed_baseline_mode>>
outputs  == <<m_state_warnings, m_motor_state_cached, m_motor_speed_SP_cached, lift>>
vars     == <<m_state, settings, m_speed_PV, outputs, events>>

-----------------------------------------------------------------------------
Stopped == {"NORMAL_STOPPED", "SERVICE_MODE1_STOPPED",
            "SERVICE_MODE2_STOPPED", "SERVICE_MODE3_STOPPED"}
NormalStarted == {"NORMAL_STARTED_AUTO", "NORMAL_STARTED_MANUAL"}
Started == NormalStarted \cup {"SERVICE_MODE1_STARTED",
                               "SERVICE_MODE2_STARTED", "SERVICE_MODE3_STARTED"}
States == {"INIT"} \cup Stopped \cup Started

Warnings == {"SPEED_TOO_LOW", "SPEED_TOO_HIGH"}
Events == {"WARNINGS_UPDATE", "MOTOR_ON", "MOTOR_OFF", "MOTOR_SETPOINT_UPDATE",
           "LIFT_UP", "LIFT_DOWN", "RUNMODE_CHANGED"}

EnterTarget == [ENTER_MODE_NORMAL   |-> "NORMAL_STOPPED",
                ENTER_SERVICE_MODE1 |-> "SERVICE_MODE1_STOPPED",
                ENTER_SERVICE_MODE2 |-> "SERVICE_MODE2_STOPPED",
                ENTER_SERVICE_MODE3 |-> "SERVICE_MODE3_STOPPED"]
Enter    == DOMAIN EnterTarget
Baseline == {"SPEED_BASELINE_LOW", "SPEED_BASELINE_HIGH"}
Gauge    == {"GAUGE_STOP_ON", "GAUGE_STOP_OFF"}
Setting  == Baseline \cup Gauge \cup
            {"SPEED_MANUAL_UPDATE", "SPEED_FREE_UPDATE", "AUTOSTOP_ALLOW", "AUTOSTOP_DENY"}
Commands == {"START", "STOP"} \cup Enter \cup Setting

TypeOK ==
  /\ m_state \in States
  /\ m_state_warnings \subseteq Warnings
  /\ m_state_allowed_autostop \in BOOLEAN
  /\ m_state_autostop_triggered \in BOOLEAN
  /\ m_speed_SP_manual_delta \in Int
  /\ m_speed_SP_free \in Int
  /\ m_speed_PV \in Int
  /\ m_speed_baseline_mode \in {"LOW", "HIGH"}
  /\ m_motor_state_cached \in BOOLEAN
  /\ m_motor_speed_SP_cached \in Int
  /\ lift \in {"NONE", "UP", "DOWN"}
  /\ events \in Seq(Events)

-----------------------------------------------------------------------------
\* RunMode of a state: INIT reports as NORMAL_STOPPED.
P_runModeGet(state) == IF state = "INIT" THEN "NORMAL_STOPPED" ELSE state

P_speed_baseline_get(mode) == IF mode = "LOW" THEN BaselineLow ELSE BaselineHigh

\* The tail of P_fsm: take the next state, report a change of the run mode last.
Finish(next_state, evts) ==
  /\ m_state' = next_state
  /\ events' = IF P_runModeGet(m_state) # P_runModeGet(next_state)
               THEN Append(evts, "RUNMODE_CHANGED") ELSE evts

\* Mutant: warnings are cleaned without a word to the listener.
CleanEvents_Silent == << >>

\* P_event_warnings_clean(CTRL_WARNING_ALL) announces only what changed.
CleanEvents == IF m_state_warnings = {} THEN << >> ELSE <<"WARNINGS_UPDATE">>

\* The command leaves the state and every output as they are.
Ignore ==
  /\ Finish(m_state, << >>)
  /\ UNCHANGED outputs

\* P_event_motor_setpoint_update, alone.
SetpointUpdate(setpoint, next_state) ==
  /\ m_motor_speed_SP_cached' = setpoint
  /\ Finish(next_state, <<"MOTOR_SETPOINT_UPDATE">>)
  /\ UNCHANGED <<m_state_warnings, m_motor_state_cached, lift>>

\* A stopped mode changes to another stopped mode (or to itself).
EnterStopped(cmd) ==
  /\ cmd \in Enter
  /\ Finish(EnterTarget[cmd], << >>)
  /\ UNCHANGED outputs

\* Clean the warnings, switch the motor off, raise the lift.
ShutDown(next_state) ==
  /\ m_state_warnings' = {}
  /\ m_motor_state_cached' = FALSE
  /\ lift' = "UP"
  /\ Finish(next_state, CleanEvents \o <<"MOTOR_OFF", "LIFT_UP">>)
  /\ UNCHANGED m_motor_speed_SP_cached

\* Mutant: stopping service mode 2 or 3 falls back to the normal menu.
SpinDown_LeavesMenu(next_state) ==
  /\ m_state_warnings' = {}
  /\ m_motor_state_cached' = FALSE
  /\ Finish("NORMAL_STOPPED", CleanEvents \o <<"MOTOR_OFF">>)
  /\ UNCHANGED <<m_motor_speed_SP_cached, lift>>

\* The same in service modes 2 and 3, where the lift is left alone.
SpinDown(next_state) ==
  /\ m_state_warnings' = {}
  /\ m_motor_state_cached' = FALSE
  /\ Finish(next_state, CleanEvents \o <<"MOTOR_OFF">>)
  /\ UNCHANGED <<m_motor_speed_SP_cached, lift>>

\* Mutant: the motor is switched on at the set point of the run before.
SpinUp_OldSetpoint(setpoint, next_state) ==
  /\ m_motor_state_cached' = TRUE
  /\ Finish(next_state, <<"MOTOR_ON">>)
  /\ UNCHANGED <<m_state_warnings, m_motor_speed_SP_cached, lift>>

\* Set point and motor, the lift left alone: the START of service modes 2 and 3.
SpinUp(setpoint, next_state) ==
  /\ m_motor_speed_SP_cached' = setpoint
  /\ m_motor_state_cached' = TRUE
  /\ Finish(next_state, <<"MOTOR_SETPOINT_UPDATE", "MOTOR_ON">>)
  /\ UNCHANGED <<m_state_warnings, lift>>

-----------------------------------------------------------------------------
\* The members a settings command stores, whatever the state.
Store(cmd, speed) ==
  /\ m_speed_baseline_mode' = IF cmd = "SPEED_BASELINE_LOW" THEN "LOW"
                              ELSE IF cmd = "SPEED_BASELINE_HIGH" THEN "HIGH"
                              ELSE m_speed_baseline_mode
  /\ m_speed_SP_manual_delta' =
       IF cmd = "SPEED_MANUAL_UPDATE" THEN speed ELSE m_speed_SP_manual_delta
  /\ m_speed_SP_free' = IF cmd = "SPEED_FREE_UPDATE" THEN speed ELSE m_speed_SP_free
  /\ m_state_allowed_autostop' =
       IF cmd \in {"AUTOSTOP_ALLOW", "AUTOSTOP_DENY"}
       THEN cmd = "AUTOSTOP_ALLOW" ELSE m_state_allowed_autostop
  /\ m_state_autostop_triggered' =
       IF cmd \in Gauge THEN cmd = "GAUGE_STOP_ON" ELSE m_state_autostop_triggered

AutostopPending == m_state_allowed_autostop /\ m_state_autostop_triggered

\* The set points of the two normal started modes, after the command stored
\* what it stores.
AutoSetpoint   == P_speed_baseline_get(m_speed_baseline_mode')
ManualSetpoint == P_speed_baseline_get(m_speed_baseline_mode') + m_speed_SP_manual_delta'

NormalStopped(cmd) ==
  /\ m_state = "NORMAL_STOPPED"
  /\ \/ EnterStopped(cmd)
     \/ /\ cmd = "START"
        /\ ~AutostopPending
        /\ m_motor_speed_SP_cached' = AutoSetpoint
        /\ m_motor_state_cached' = TRUE
        /\ lift' = "DOWN"
        /\ Finish("NORMAL_STARTED_AUTO",
                  <<"MOTOR_SETPOINT_UPDATE", "MOTOR_ON", "LIFT_DOWN">>)
        /\ UNCHANGED m_state_warnings
     \/ /\ cmd = "START"
        /\ AutostopPending
        /\ Ignore
     \/ cmd \in {"STOP"} \cup Setting /\ Ignore

\* Mutant: an autostop allowed late waits for the next report of the sensor.
AllowWhileStarted_Deferred == Ignore

\* Allowing the autostop with the sensor tripped: everything is switched off,
\* and next_state is not assigned.
AllowWhileStarted ==
  IF m_state_autostop_triggered THEN ShutDown(m_state) ELSE Ignore

\* Any report of the sensor, on or off, ends the run when the autostop is allowed.
GaugeWhileStarted ==
  IF m_state_allowed_autostop THEN ShutDown("NORMAL_STOPPED") ELSE Ignore

NormalStartedAuto(cmd) ==
  /\ m_state = "NORMAL_STARTED_AUTO"
  /\ \/ cmd = "START" /\ SetpointUpdate(ManualSetpoint, "NORMAL_STARTED_MANUAL")
     \/ cmd = "STOP" /\ ShutDown("NORMAL_STOPPED")
     \/ cmd \in Baseline /\ SetpointUpdate(AutoSetpoint, m_state)
     \/ cmd = "AUTOSTOP_ALLOW" /\ AllowWhileStarted
     \/ cmd \in Gauge /\ GaugeWhileStarted
     \/ /\ cmd \in Enter \cup {"SPEED_MANUAL_UPDATE", "SPEED_FREE_UPDATE", "AUTOSTOP_DENY"}
        /\ Ignore

NormalStartedManual(cmd) ==
  /\ m_state = "NORMAL_STARTED_MANUAL"
  /\ \/ cmd = "START" /\ SetpointUpdate(AutoSetpoint, "NORMAL_STARTED_AUTO")
     \/ cmd = "STOP" /\ ShutDown("NORMAL_STOPPED")
     \/ cmd \in Baseline /\ SetpointUpdate(ManualSetpoint, m_state)
     \/ /\ cmd = "SPEED_MANUAL_UPDATE"
        /\ IF m_speed_SP_manual_delta' # m_speed_SP_manual_delta
           THEN SetpointUpdate(ManualSetpoint, m_state)
           ELSE Ignore
     \/ cmd = "AUTOSTOP_ALLOW" /\ AllowWhileStarted
     \/ cmd \in Gauge /\ GaugeWhileStarted
     \/ cmd \in Enter \cup {"SPEED_FREE_UPDATE", "AUTOSTOP_DENY"} /\ Ignore

\* Service mode 1 tries the lift: no motor, no warnings.
ServiceMode1Stopped(cmd) ==
  /\ m_state = "SERVICE_MODE1_STOPPED"
  /\ \/ EnterStopped(cmd)
     \/ /\ cmd = "START"
        /\ lift' = "DOWN"
        /\ Finish("SERVICE_MODE1_STARTED", <<"LIFT_DOWN">>)
        /\ UNCHANGED <<m_state_warnings, m_motor_state_cached, m_motor_speed_SP_cached>>
     \/ cmd \in {"STOP"} \cup Setting /\ Ignore

ServiceMode1Started(cmd) ==
  /\ m_state = "SERVICE_MODE1_STARTED"
  /\ \/ /\ cmd = "STOP"
        /\ lift' = "UP"
        /\ Finish("SERVICE_MODE1_STOPPED", <<"LIFT_UP">>)
        /\ UNCHANGED <<m_state_warnings, m_motor_state_cached, m_motor_speed_SP_cached>>
     \/ cmd \in {"START"} \cup Enter \cup Setting /\ Ignore

\* Service mode 2 runs the motor at the baseline speed it had when started.
ServiceMode2Stopped(cmd) ==
  /\ m_state = "SERVICE_MODE2_STOPPED"
  /\ \/ EnterStopped(cmd)
     \/ cmd = "START" /\ SpinUp(AutoSetpoint, "SERVICE_MODE2_STARTED")
     \/ cmd \in {"STOP"} \cup Setting /\ Ignore

ServiceMode2Started(cmd) ==
  /\ m_state = "SERVICE_MODE2_STARTED"
  /\ \/ cmd = "STOP" /\ SpinDown("SERVICE_MODE2_STOPPED")
     \/ cmd \in {"START"} \cup Enter \cup Setting /\ Ignore

\* Service mode 3 runs the motor at a set point sent over the link.
ServiceMode3Stopped(cmd) ==
  /\ m_state = "SERVICE_MODE3_STOPPED"
  /\ \/ EnterStopped(cmd)
     \/ cmd = "START" /\ SpinUp(m_speed_SP_free, "SERVICE_MODE3_STARTED")
     \/ cmd \in {"STOP"} \cup Setting /\ Ignore

ServiceMode3Started(cmd) ==
  /\ m_state = "SERVICE_MODE3_STARTED"
  /\ \/ cmd = "STOP" /\ SpinDown("SERVICE_MODE3_STOPPED")
     \/ /\ cmd = "SPEED_FREE_UPDATE"
        /\ IF m_speed_SP_free' # m_speed_SP_free
           THEN SetpointUpdate(m_speed_SP_free', m_state)
           ELSE Ignore
     \/ /\ cmd \in {"START"} \cup Enter \cup (Setting \ {"SPEED_FREE_UPDATE"})
        /\ Ignore

\* Ctrl::P_fsm for a command other than INIT, with the speed it carries.
P_fsm(cmd, speed) ==
  /\ Store(cmd, speed)
  /\ \/ NormalStopped(cmd)
     \/ NormalStartedAuto(cmd)
     \/ NormalStartedManual(cmd)
     \/ ServiceMode1Stopped(cmd)
     \/ ServiceMode1Started(cmd)
     \/ ServiceMode2Stopped(cmd)
     \/ ServiceMode2Started(cmd)
     \/ ServiceMode3Stopped(cmd)
     \/ ServiceMode3Started(cmd)
  /\ UNCHANGED m_speed_PV

-----------------------------------------------------------------------------
\* The members' initial values, before the constructor's body runs.
Init ==
  /\ m_state = "INIT"
  /\ m_state_warnings = {}
  /\ m_state_allowed_autostop = FALSE
  /\ m_state_autostop_triggered = FALSE
  /\ m_speed_SP_manual_delta = 0
  /\ m_speed_SP_free = 0
  /\ m_speed_PV = 0
  /\ m_speed_baseline_mode = "LOW"
  /\ m_motor_state_cached = FALSE
  /\ m_motor_speed_SP_cached = 0
  /\ lift = "NONE"
  /\ events = << >>

\* The constructor runs the INIT command: the case State::INIT of P_fsm.
Construct ==
  /\ m_state = "INIT"
  /\ m_motor_state_cached' = FALSE
  /\ lift' = "UP"
  /\ m_motor_speed_SP_cached' = P_speed_baseline_get(m_speed_baseline_mode)
  /\ Finish("NORMAL_STOPPED", <<"MOTOR_OFF", "LIFT_UP", "MOTOR_SETPOINT_UPDATE">>)
  /\ UNCHANGED <<settings, m_speed_PV, m_state_warnings>>

\* The methods that run one command.
baselineSpeedModeSet(mode) ==
  P_fsm(IF mode = "LOW" THEN "SPEED_BASELINE_LOW" ELSE "SPEED_BASELINE_HIGH", 0)
speedManualSet(speed) == P_fsm("SPEED_MANUAL_UPDATE", speed)
speedFreeSet(speed) == P_fsm("SPEED_FREE_UPDATE", speed)
autostopAllowSet(allow) == P_fsm(IF allow THEN "AUTOSTOP_ALLOW" ELSE "AUTOSTOP_DENY", 0)
stopTriggeredSet(triggered) == P_fsm(IF triggered THEN "GAUGE_STOP_ON" ELSE "GAUGE_STOP_OFF", 0)
start == P_fsm("START", 0)
stop == P_fsm("STOP", 0)
mode_normal == P_fsm("ENTER_MODE_NORMAL", 0)
mode_service_1 == P_fsm("ENTER_SERVICE_MODE1", 0)
mode_service_2 == P_fsm("ENTER_SERVICE_MODE2", 0)
mode_service_3 == P_fsm("ENTER_SERVICE_MODE3", 0)

\* The states in which a measured speed is compared with the set point.
SpeedChecked == NormalStarted \cup {"SERVICE_MODE2_STARTED", "SERVICE_MODE3_STARTED"}

\* A measured speed that misses the set point adds a warning; only one that
\* meets it takes warnings away.
actualSpeedUpdate(speed) ==
  /\ m_state # "INIT"
  /\ m_speed_PV' = speed
  /\ m_state_warnings' =
       IF m_state \notin SpeedChecked THEN m_state_warnings
       ELSE IF speed < m_motor_speed_SP_cached THEN m_state_warnings \cup {"SPEED_TOO_LOW"}
       ELSE IF speed > m_motor_speed_SP_cached THEN m_state_warnings \cup {"SPEED_TOO_HIGH"}
       ELSE {}
  /\ events' = IF m_state_warnings' # m_state_warnings THEN <<"WARNINGS_UPDATE">> ELSE << >>
  /\ UNCHANGED <<m_state, settings, m_motor_state_cached, m_motor_speed_SP_cached, lift>>

Next ==
  \/ Construct
  \/ \E mode \in {"LOW", "HIGH"} : baselineSpeedModeSet(mode)
  \/ \E speed \in ManualSpeeds : speedManualSet(speed)
  \/ \E speed \in FreeSpeeds : speedFreeSet(speed)
  \/ \E allow \in BOOLEAN : autostopAllowSet(allow)
  \/ \E triggered \in BOOLEAN : stopTriggeredSet(triggered)
  \/ start
  \/ stop
  \/ mode_normal
  \/ mode_service_1
  \/ mode_service_2
  \/ mode_service_3
  \/ \E speed \in ActualSpeeds : actualSpeedUpdate(speed)

Spec == Init /\ [][Next]_vars

-----------------------------------------------------------------------------
(***************************************************************************)
(* Properties                                                              *)
(***************************************************************************)

\* At rest nothing is left over from a run: in every stopped mode, however it
\* was reached (STOP, the autostop, a menu change), the motor is commanded
\* off, the needle is up and no speed warning survives.
AtRest ==
  m_state \in Stopped =>
    /\ ~m_motor_state_cached
    /\ lift = "UP"
    /\ m_state_warnings = {}

\* The motor and the needle agree with the mode: the needle is down on a
\* platter nobody turns only in service mode 1, the motor turns in service
\* modes 2 and 3, under a raised needle in mode 3, and in the normal modes the
\* two go together, even after the autostop has parked the table.  Where the
\* needle is in service mode 2 is the question of LoweredInServiceMode2.
Posture ==
  /\ m_state = "SERVICE_MODE1_STARTED" => ~m_motor_state_cached /\ lift = "DOWN"
  /\ m_state = "SERVICE_MODE2_STARTED" => m_motor_state_cached
  /\ m_state = "SERVICE_MODE3_STARTED" => m_motor_state_cached /\ lift = "UP"
  /\ m_state \in NormalStarted => (m_motor_state_cached <=> lift = "DOWN")

\* Service mode 2 as the manual describes it (rev1/docs/manual.md:87): to set
\* how the needle slides, the table turns and the lift is lowered.  The code
\* starts the motor and leaves the lift alone (Ctrl.ino:601).
LoweredInServiceMode2 ==
  m_state = "SERVICE_MODE2_STARTED" => m_motor_state_cached /\ lift = "DOWN"

\* The cached set point, which the regulator reads every period, is the one
\* the mode and the present settings call for: a change of the base speed or
\* of the potentiometer is never lost.  Service mode 2 keeps the base speed it
\* was started with.
SetpointCoherent ==
  /\ m_state = "NORMAL_STARTED_AUTO" =>
       m_motor_speed_SP_cached = P_speed_baseline_get(m_speed_baseline_mode)
  /\ m_state = "NORMAL_STARTED_MANUAL" =>
       m_motor_speed_SP_cached =
         P_speed_baseline_get(m_speed_baseline_mode) + m_speed_SP_manual_delta
  /\ m_state = "SERVICE_MODE2_STARTED" =>
       m_motor_speed_SP_cached \in {BaselineLow, BaselineHigh}
  /\ m_state = "SERVICE_MODE3_STARTED" => m_motor_speed_SP_cached = m_speed_SP_free

\* The autostop wins every race: once it is allowed and its sensor is tripped,
\* in whichever order the two commands came and whatever START or base speed
\* commands came between, no normal mode drives the motor.
AutostopHolds ==
  AutostopPending /\ m_state \in NormalStarted => ~m_motor_state_cached

\* All of this at once: whatever commands, settings and speeds come, P_fsm
\* leaves mode, motor, needle, set point, warnings and autostop consistent.
Safe == TypeOK /\ AtRest /\ Posture /\ SetpointCoherent /\ AutostopHolds

\* The motor is switched on by one thing only, a START from a stopped mode, and
\* the set point that goes with it is that of the mode entered; a table that
\* the autostop has stopped or parked does not start again by itself.
MotorOnOnlyFromRest ==
  [][~m_motor_state_cached /\ m_motor_state_cached' =>
       /\ m_state \in Stopped
       /\ m_state' \in SpeedChecked
       /\ m_motor_speed_SP_cached' =
            IF m_state' = "SERVICE_MODE3_STARTED" THEN m_speed_SP_free
            ELSE P_speed_baseline_get(m_speed_baseline_mode)]_vars

\* The listener hears of everything it must act on: no call changes the motor
\* command, the set point, the warnings, the needle or the run mode without the
\* event that says so.  The regulator, the lift pins and the RPC event all
\* depend on it.
EveryChangeAnnounced ==
  [][LET heard == {events'[i] : i \in DOMAIN events'} IN
     /\ m_motor_state_cached' # m_motor_state_cached =>
          (IF m_motor_state_cached' THEN "MOTOR_ON" ELSE "MOTOR_OFF") \in heard
     /\ m_motor_speed_SP_cached' # m_motor_speed_SP_cached =>
          "MOTOR_SETPOINT_UPDATE" \in heard
     /\ m_state_warnings' # m_state_warnings => "WARNINGS_UPDATE" \in heard
     /\ lift' # lift => (IF lift' = "UP" THEN "LIFT_UP" ELSE "LIFT_DOWN") \in heard
     /\ P_runModeGet(m_state') # P_runModeGet(m_state) <=> "RUNMODE_CHANGED" \in heard]_vars

-----------------------------------------------------------------------------
(***************************************************************************)
(* The automaton implements the turntable of module Turntable.             *)
(***************************************************************************)
MenuOf(state) ==
  IF state \in {"INIT", "NORMAL_STOPPED"} \cup NormalStarted THEN "NORMAL"
  ELSE IF state \in {"SERVICE_MODE1_STOPPED", "SERVICE_MODE1_STARTED"} THEN "SERVICE_MODE1"
  ELSE IF state \in {"SERVICE_MODE2_STOPPED", "SERVICE_MODE2_STARTED"} THEN "SERVICE_MODE2"
  ELSE "SERVICE_MODE3"

Table == INSTANCE Turntable WITH
  menu    <- MenuOf(m_state),
  started <- m_state \in Started,
  motor   <- m_motor_state_cached,
  needle  <- IF lift = "DOWN" THEN "DOWN" ELSE "UP"

\* Every behaviour of the automaton is one of the abstract turntable: menus
\* change only at rest, and starting, stopping and parking move motor and
\* needle together as the mode prescribes.
ImplementsTurntable == Table!TableSpec
=============================================================================
