------------------------------ MODULE Regulation ------------------------------
(***************************************************************************)
(* How G602 measures and regulates, what it says of that over the link,    *)
(* and where it keeps the regulator's gains.  Values are the raw integers  *)
(* of Fixed, scaled down; a frame is whole when it comes here (GCommBase), *)
(* and the regulating task is armed at all times (G602), so it may run     *)
(* whenever nothing else does.  Of Ctrl there is the mode, the set point   *)
(* it has told last and the one kept for service mode 3.                   *)
(*                                                                         *)
(* A store to the EEPROM is the only thing of any length: it goes byte by  *)
(* byte inside one request, and the power may fail anywhere.               *)
(***************************************************************************)
EXTENDS PidRecurrent, FastSum, Totals, GRPCServer

CONSTANTS
  Gains,           \* what a user asks the regulator to be: <<Kp, Ki, Kd>>
  DefaultGains,    \* G602_PID_DEFAULT_KP, _KI, _KD
  FreeSpeeds,      \* set points sent for service mode 3
  BaseSpeeds,      \* set points of the other modes
  SpeedMax,        \* G602_SPEED_MAX
  Others,          \* further frames, malformed ones among them
  PulsesMax,       \* pulses of a period
  Period,          \* ctrl_handler_period
  PerMinute,       \* 60
  PerSecond,       \* 1000
  PulsesPerRev,    \* G602_TABLE_PULSES_PER_REV
  OutMax,          \* 255
  SamplesMax       \* bound: runs of the regulating task between two restarts

VARIABLES
  mode,                     \* of Ctrl: stopped or started, in service mode 3 or another
  motor,                    \* of Ctrl: m_motor_state_cached
  m_speed_SP_free,          \* of Ctrl
  setpoint,                 \* of Ctrl: m_motor_speed_SP_cached
  m_speed_PV,               \* of Ctrl
  pulses,                   \* of the platter since they were taken last
  m_pulses_sum,
  m_pid,
  m_K,                      \* <<m_Kp, m_Ki, m_Kd>>
  m_permanent_process_send,
  m_argv,                   \* of GRPCServer
  output,                   \* analogWrite(PIN_DO_ENGINE)
  sent,                     \* the frame sent by the last step, if any
  eeprom,
  storing,                  \* the byte P_config_store writes next, StoreIdle outside it
  heard, errs,              \* the model's: pulses since the last sample or restart, and the
                            \* errors of the speeds they mean, since the last restart
  kept, torn                \* the model's: gains stored last, and whether the last store was cut

tellings == <<m_argv, sent>>
ctrlVars == <<mode, motor, m_speed_SP_free, setpoint>>
pidVars == <<m_pid, m_pulses_sum, errs>>
storeVars == <<eeprom, storing, kept, torn>>
regVars == <<ctrlVars, m_speed_PV, pulses, heard, pidVars, m_K, m_permanent_process_send,
             tellings, output, storeVars>>

Service3 == {"SERVICE_MODE3_STOPPED", "SERVICE_MODE3_STARTED"}
Stopped == {"OTHER_STOPPED", "SERVICE_MODE3_STOPPED"}
Modes == Stopped \cup {"OTHER_STARTED", "SERVICE_MODE3_STARTED"}

Cells == 0..11    \* three values of four bytes
StoreIdle == 12
Erased == Byte - 1

\* A frame going out: a reply with its error code, or an event.
Nothing == [type |-> "NOTHING", err |-> "OK", resv |-> << >>]
Reply(err, resv) == [type |-> "REPLY", err |-> err, resv |-> resv]

AllGains == Gains \cup {DefaultGains}

\* The seconds of a window of so many periods, times the pulses of a turn.
WindowTime(size) ==
  FIXED_MUL_BY_INT(FIXED_DIV_BY_INT(FIXED_FROM_INT(Period * size), PerSecond), PulsesPerRev)

\* Values as they are sent, each as two words.
WordsOf(values) ==
  [i \in 1..(2 * Len(values)) |-> IF i % 2 = 1 THEN SPLIT32_HI(values[(i + 1) \div 2])
                                               ELSE SPLIT32_LO(values[i \div 2])]

\* Whatever carries gains, in a frame of the right length or not, carries some
\* of Gains; a window is of some time.
ASSUME RegulationAssumption ==
  /\ AllGains \subseteq [1..3 -> Fixeds]
  /\ FreeSpeeds \cup BaseSpeeds \subseteq Fixeds /\ SpeedMax \in Int
  /\ Others \subseteq [func : Nat \cup {Absent}, argc : Nat \cup {Absent}, words : Seq(0..(Half - 1))]
  /\ \A frame \in Others : frame.func = 3 /\ frame.argc = 6 /\ Len(frame.words) >= 6 =>
       \E K \in Gains : \A i \in 1..6 : frame.words[i] = WordsOf(K)[i]
  /\ PulsesMax \in Nat /\ SamplesMax \in Nat
  /\ {Period, PerMinute, PerSecond, PulsesPerRev, OutMax} \subseteq Nat \ {0}
  /\ \A size \in 1..Capacity : WindowTime(size) > 0

\* The window holds one count, ctrl_pulses_window_size, and counts fit it: the
\* platter's pulses are debounced.
ASSUME CountAssumption == Capacity = 1 /\ PulsesMax < SumMod

RegTypeOK ==
  /\ mode \in Modes /\ motor \in BOOLEAN
  /\ {m_speed_SP_free, setpoint, m_speed_PV, m_pid.u_prev} \subseteq Fixeds
  /\ m_permanent_process_send \in BOOLEAN
  /\ output \in 0..OutMax
  /\ eeprom \in [Cells -> 0..(Byte - 1)]
  /\ storing \in Cells \cup {StoreIdle}
  /\ m_pulses_sum.size \in 0..Capacity /\ m_pulses_sum.index \in Slots

-----------------------------------------------------------------------------
\* CONF_K for the three values in turn.
ConfOf(K) == [i \in Cells |-> ByteOf(K[i \div 4 + 1], i % 4)]
GainsOf(conf) ==
  [k \in 1..3 |-> OfBytes([i \in 0..3 |-> conf[4 * (k - 1) + i]])]

\* Mutant: empty as soon as one byte is.
P_config_load_AnyErased(conf) ==
  IF \E i \in Cells : conf[i] = Erased THEN DefaultGains ELSE GainsOf(conf)

P_config_load(conf) ==
  IF \A i \in Cells : conf[i] = Erased THEN DefaultGains ELSE GainsOf(conf)

\* The constructor of G602 on the memory it finds; RAM starts anew.
Boot(conf) ==
  /\ mode' = "OTHER_STOPPED" /\ motor' = FALSE
  /\ m_speed_SP_free' = 0 /\ setpoint' = 0 /\ m_speed_PV' = 0
  /\ pulses' = 0 /\ heard' = 0
  /\ m_K' = P_config_load(conf)
  /\ m_pid' = PidReset(PidGains(NewPid, P_config_load(conf)))
  /\ m_pulses_sum' = NewFastSum
  /\ m_permanent_process_send' = FALSE
  /\ m_argv' = [i \in 1..ArgvSize |-> 0]
  /\ output' = 0
  /\ sent' = Nothing
  /\ errs' = << >>

RegInit ==
  /\ eeprom = [i \in Cells |-> Erased]
  /\ storing = StoreIdle /\ torn = FALSE /\ kept = DefaultGains
  /\ mode = "OTHER_STOPPED" /\ motor = FALSE
  /\ m_speed_SP_free = 0 /\ setpoint = 0 /\ m_speed_PV = 0
  /\ pulses = 0
  /\ m_K = P_config_load(eeprom)
  /\ m_pid = PidReset(PidGains(NewPid, P_config_load(eeprom)))
  /\ m_pulses_sum = NewFastSum
  /\ m_permanent_process_send = FALSE
  /\ m_argv = [i \in 1..ArgvSize |-> 0]
  /\ output = 0
  /\ sent = Nothing
  /\ heard = 0 /\ errs = << >>

\* The power fails and comes back, at any time.
PowerCut ==
  /\ Boot(eeprom)
  /\ torn' = (torn \/ storing \notin {0, StoreIdle})
  /\ storing' = StoreIdle
  /\ UNCHANGED <<eeprom, kept>>

Pulse ==
  /\ heard < PulsesMax
  /\ pulses' = pulses + 1 /\ heard' = heard + 1
  /\ sent' = Nothing
  /\ UNCHANGED <<ctrlVars, m_speed_PV, pidVars, m_K, m_permanent_process_send, m_argv,
                 output, storeVars>>

-----------------------------------------------------------------------------
\* P_ctrl_start: measuring and regulating start from nothing.
P_ctrl_start ==
  /\ pulses' = 0 /\ heard' = 0
  /\ m_pid' = PidReset(m_pid)
  /\ m_pulses_sum' = FastSum_reset(m_pulses_sum)
  /\ errs' = << >>

\* MOTOR_ON and MOTOR_OFF call P_motor_update, a new set point alone does not:
\* the regulator goes on from where it was.
MotorSwitched(on) == motor' = on /\ P_ctrl_start
MotorLeft == UNCHANGED <<motor, pulses, heard, pidVars>>

\* What Ctrl makes of the buttons, the potentiometer and the autostop.
ButtonOrPotentiometer ==
  /\ storing = StoreIdle
  /\ \/ mode \in Stopped /\ mode' \in Stopped /\ setpoint' = setpoint /\ MotorLeft
     \/ /\ mode = "OTHER_STOPPED" /\ mode' = "OTHER_STARTED"
        /\ setpoint' \in BaseSpeeds /\ MotorSwitched(TRUE)
     \/ /\ mode = "SERVICE_MODE3_STOPPED" /\ mode' = "SERVICE_MODE3_STARTED"
        /\ setpoint' = m_speed_SP_free /\ MotorSwitched(TRUE)
     \/ /\ mode = "OTHER_STARTED" /\ mode' = mode
        /\ setpoint' \in BaseSpeeds /\ MotorLeft
     \* With the autostop allowed late the mode stays.
     \/ /\ mode = "OTHER_STARTED" /\ mode' \in {mode, "OTHER_STOPPED"}
        /\ setpoint' = setpoint /\ MotorSwitched(FALSE)
     \/ /\ mode = "SERVICE_MODE3_STARTED" /\ mode' = "SERVICE_MODE3_STOPPED"
        /\ setpoint' = setpoint /\ MotorSwitched(FALSE)
  /\ sent' = Nothing
  /\ UNCHANGED <<m_speed_SP_free, m_speed_PV, m_K, m_permanent_process_send, m_argv, output,
                 storeVars>>

-----------------------------------------------------------------------------
\* Pulses of the window as revolutions a minute.
Rpm(window) ==
  FIXED_DIV(FIXED_MUL_BY_INT(FIXED_FROM_INT(window.sum), PerMinute), WindowTime(window.size))

\* The speed asked for: none when the motor is off.
SpeedSP == IF motor THEN setpoint ELSE 0

\* Negative values are cut to 0, then the fraction is cut off.
MotorOutput(ctrl) ==
  LET ctrl_int == FIXED_INT(IF ctrl < 0 THEN 0 ELSE ctrl)
  IN  IF ctrl_int > OutMax THEN OutMax ELSE ctrl_int

P_event_words(sp, pv, out) ==
  <<SPLIT32_HI(sp), SPLIT32_LO(sp), SPLIT32_HI(pv), SPLIT32_LO(pv)>> \o out

\* The time, resv[0] and resv[1], is left out.
P_rpc_eventSPPV(sp, pv, out) ==
  [type |-> "SPPV", err |-> "OK",
   resv |-> P_event_words(sp, pv, <<SPLIT32_LO(out), SPLIT32_LO(out)>>)]

\* P_task_ctrl.  m_send_counter never counts, ctrl_send_factor being 0.
P_task_ctrl ==
  /\ storing = StoreIdle /\ Len(errs) < SamplesMax
  /\ pulses' = 0
  /\ m_pulses_sum' = FastSum_add(m_pulses_sum, pulses)
  /\ m_speed_PV' = Rpm(m_pulses_sum')
  /\ m_pid' = PidCalculate(m_pid, SpeedSP, m_speed_PV')
  /\ output' = IF motor THEN MotorOutput(m_pid'.u_prev) ELSE 0
  /\ sent' = IF m_permanent_process_send
             THEN P_rpc_eventSPPV(SpeedSP, m_speed_PV', m_pid'.u_prev) ELSE Nothing
  /\ heard' = 0
  /\ errs' = Append(errs, SpeedSP - Rpm([size |-> 1, sum |-> heard]))
  /\ UNCHANGED <<ctrlVars, m_K, m_permanent_process_send, m_argv, storeVars>>

-----------------------------------------------------------------------------
\* What the tool sends: Device::P_rpc_request_*.
Request(func, words) == [func |-> func, argc |-> Len(words), words |-> words]

koef_w(K) == Request(3, WordsOf(K))
Frames ==
  {Request(func, << >>) : func \in {0, 1, 2, 4, 6, 7, 8, 9}}
    \cup {koef_w(K) : K \in Gains}
    \cup {Request(5, WordsOf(<<speed>>)) : speed \in FreeSpeeds}
    \cup Others

\* A procedure that answers and changes nothing.
Answers(err, resv) ==
  /\ sent' = Reply(err, resv)
  /\ UNCHANGED <<ctrlVars, pulses, heard, pidVars, m_K, m_permanent_process_send, storeVars>>

P_rpc_func_reads(func, argc) ==
  /\ func \in {0, 1, 2, 4, 6}
  /\ IF argc # 0 THEN Answers("INVALID_ARGUMENTS_AMOUNT", << >>)
     ELSE Answers("OK", CASE func = 0 -> <<PulsesPerRev>>
                          [] func = 1 -> <<mode>>
                          [] func = 2 -> WordsOf(m_K)
                          [] func = 4 -> WordsOf(<<m_speed_SP_free>>)
                          [] func = 6 -> WordsOf(<<m_speed_PV>>))

\* The gains that six arguments carry.
ArgvGains(argv) == [k \in 1..3 |-> BUILD_32(argv[2 * k - 1], argv[2 * k])]

\* Mutants: the amount of arguments is not looked at; the regulator goes on
\* from where it was; it is not told.
P_rpc_func_03_koef_w_AnyAmount(func, argc) ==
  /\ func = 3
  /\ IF mode \notin Service3 THEN Answers("INVALID_MODE", << >>)
     ELSE /\ m_K' = ArgvGains(m_argv')
          /\ m_pid' = PidReset(PidGains(m_pid, m_K'))
          /\ m_pulses_sum' = FastSum_reset(m_pulses_sum)
          /\ errs' = << >> /\ sent' = Reply("OK", << >>)
          /\ UNCHANGED <<ctrlVars, pulses, heard, m_permanent_process_send, storeVars>>
P_rpc_func_03_koef_w_NoReset(func, argc) ==
  /\ func = 3
  /\ IF mode \notin Service3 THEN Answers("INVALID_MODE", << >>)
     ELSE IF argc # 6 THEN Answers("INVALID_ARGUMENTS_AMOUNT", << >>)
     ELSE /\ m_K' = ArgvGains(m_argv')
          /\ m_pid' = PidGains(m_pid, m_K')
          /\ m_pulses_sum' = FastSum_reset(m_pulses_sum)
          /\ errs' = << >> /\ sent' = Reply("OK", << >>)
          /\ UNCHANGED <<ctrlVars, pulses, heard, m_permanent_process_send, storeVars>>
P_rpc_func_03_koef_w_NotTold(func, argc) ==
  /\ func = 3
  /\ IF mode \notin Service3 THEN Answers("INVALID_MODE", << >>)
     ELSE IF argc # 6 THEN Answers("INVALID_ARGUMENTS_AMOUNT", << >>)
     ELSE /\ m_K' = ArgvGains(m_argv')
          /\ m_pid' = PidReset(m_pid)
          /\ m_pulses_sum' = FastSum_reset(m_pulses_sum)
          /\ errs' = << >> /\ sent' = Reply("OK", << >>)
          /\ UNCHANGED <<ctrlVars, pulses, heard, m_permanent_process_send, storeVars>>

P_rpc_func_03_koef_w(func, argc) ==
  /\ func = 3
  /\ IF mode \notin Service3 THEN Answers("INVALID_MODE", << >>)
     ELSE IF argc # 6 THEN Answers("INVALID_ARGUMENTS_AMOUNT", << >>)
     ELSE /\ m_K' = ArgvGains(m_argv')
          /\ m_pid' = PidReset(PidGains(m_pid, m_K'))
          /\ m_pulses_sum' = FastSum_reset(m_pulses_sum)
          /\ errs' = << >> /\ sent' = Reply("OK", << >>)
          /\ UNCHANGED <<ctrlVars, pulses, heard, m_permanent_process_send, storeVars>>

\* speedFreeSet keeps the speed and, in the started mode, tells it to the motor.
P_rpc_func_05_speed_SP_w(func, argc) ==
  /\ func = 5
  /\ IF argc # 2 THEN Answers("INVALID_ARGUMENTS_AMOUNT", << >>)
     ELSE IF mode \notin Service3 THEN Answers("INVALID_MODE", << >>)
     ELSE LET speed == BUILD_32(m_argv'[1], m_argv'[2]) IN
          IF speed > SpeedMax THEN Answers("OUT_OF_RANGE", << >>)
          ELSE /\ m_speed_SP_free' = speed
               /\ setpoint' = IF mode = "SERVICE_MODE3_STARTED" THEN speed ELSE setpoint
               /\ sent' = Reply("OK", << >>)
               /\ MotorLeft
               /\ UNCHANGED <<mode, m_K, m_permanent_process_send, storeVars>>

P_rpc_func_process(func, argc) ==
  /\ func \in {7, 8}
  /\ IF argc # 0 THEN Answers("INVALID_ARGUMENTS_AMOUNT", << >>)
     ELSE /\ m_permanent_process_send' = (func = 7)
          /\ sent' = Reply("OK", << >>)
          /\ UNCHANGED <<ctrlVars, pulses, heard, pidVars, m_K, storeVars>>

\* The answer waits for the last byte.
P_rpc_func_09_conf_store(func, argc) ==
  /\ func = 9
  /\ IF mode \notin Service3 THEN Answers("INVALID_MODE", << >>)
     ELSE IF argc # 0 THEN Answers("INVALID_ARGUMENTS_AMOUNT", << >>)
     ELSE /\ storing' = 0 /\ sent' = Nothing
          /\ UNCHANGED <<ctrlVars, pulses, heard, pidVars, m_K, m_permanent_process_send,
                         eeprom, kept, torn>>

\* P_comm_reader passes a frame to GRPCServer::handle.  A refused frame is
\* answered nothing.
Handle(frame) ==
  /\ storing = StoreIdle
  /\ m_argv' = ArgvAfter(m_argv, frame)
  /\ IF ~Decodes(frame)
     THEN /\ sent' = Nothing
          /\ UNCHANGED <<ctrlVars, pulses, heard, pidVars, m_K, m_permanent_process_send,
                         storeVars>>
     ELSE \/ P_rpc_func_reads(frame.func, frame.argc)
          \/ P_rpc_func_03_koef_w(frame.func, frame.argc)
          \/ P_rpc_func_05_speed_SP_w(frame.func, frame.argc)
          \/ P_rpc_func_process(frame.func, frame.argc)
          \/ P_rpc_func_09_conf_store(frame.func, frame.argc)
  /\ UNCHANGED <<m_speed_PV, output>>

\* One byte of the store, and the reply after the last.
P_config_store ==
  /\ storing # StoreIdle
  /\ eeprom' = [eeprom EXCEPT ![storing] = ConfOf(m_K)[storing]]
  /\ storing' = storing + 1
  /\ IF storing' = StoreIdle
     THEN kept' = m_K /\ torn' = FALSE /\ sent' = Reply("OK", << >>)
     ELSE sent' = Nothing /\ UNCHANGED <<kept, torn>>
  /\ UNCHANGED <<ctrlVars, m_speed_PV, pulses, heard, pidVars, m_K,
                 m_permanent_process_send, m_argv, output>>

RegNext ==
  \/ Pulse \/ ButtonOrPotentiometer \/ P_task_ctrl \/ P_config_store \/ PowerCut
  \/ \E frame \in Frames : Handle(frame)

RegSpec == RegInit /\ [][RegNext]_regVars

-----------------------------------------------------------------------------
\* The k-th of a run of errors, and none before the first.
Error(s, k) == IF k \in 1..Len(s) THEN s[k] ELSE 0

\* The errors fit the width, and so do their first and second differences.
ErrorsFit(s) ==
  \A k \in 1..Len(s) :
    {Error(s, k), Error(s, k) - Error(s, k - 1),
     Error(s, k) - 2 * Error(s, k - 1) + Error(s, k - 2)} \subseteq Fixeds

\* The regulator of the book, with the gains K.
Ideal(K, s) ==
  LET n == Len(s)
  IN  K[1] * Error(s, n) + K[2] * Total(s) + K[3] * (Error(s, n) - Error(s, n - 1))

\* The recurrence, fed period by period, is the regulator of the book: Kp times
\* the error, Ki times the sum of the errors, Kd times the last difference, of
\* the true speeds since the last restart and with the gains in force.  Each
\* of its three products drops less than one unit; a sum or a product that does
\* not fit the width has wrapped, which costs nothing once it comes back.  Not
\* so an error: what is multiplied must fit.
ControlIsPID ==
  ErrorsFit(errs) =>
    (Ideal(m_K, errs) - FracUnit * m_pid.u_prev) % (FracUnit * FixedMod)
      <= 3 * (FracUnit - 1) * Len(errs)

\* The regulator works with the gains that are read back and stored, and the
\* reply to koef_r makes them up again.
GainsAgree ==
  /\ m_pid.K = m_K
  /\ sent.type = "REPLY" /\ Len(sent.resv) = 6 => ArgvGains(sent.resv) = m_pid.K

\* New gains come from a start of the firmware, or whole from one request, as
\* they were asked for and in service mode 3.  Arguments left in the buffer by
\* another request or by a refused one are never among them.
GainsComeWhole ==
  [][m_K' # m_K =>
       \/ mode' = "OTHER_STOPPED" /\ m_K' = P_config_load(eeprom)
       \/ mode \in Service3 /\ \E K \in Gains : m_K' = K /\ Handle(koef_w(K))]_regVars

\* What the last store has kept is what the next start finds, except gains
\* whose bytes are all those of an erased memory.
StoredIsRestored ==
  storing = StoreIdle /\ ~torn =>
    P_config_load(eeprom) =
      IF \A i \in Cells : ConfOf(kept)[i] = Erased THEN DefaultGains ELSE kept

\* The event agrees with the regulator: set point less measured speed is the
\* error it has worked on, and the measured speed is the one procedure 06 tells.
EventAgrees ==
  sent.type = "SPPV" =>
    LET sp == BUILD_32(sent.resv[1], sent.resv[2])
        pv == BUILD_32(sent.resv[3], sent.resv[4])
    IN  pv = m_speed_PV /\ FIXED_SUB(sp, pv) = m_pid.error_1

\* What is told of the regulator, by replies, events and the gains kept beside
\* it, is what it works with.
RegulatorTold == RegTypeOK /\ GainsAgree /\ EventAgrees

\* manual.md: the last two words of the event are the control value.
EventCarriesControl ==
  sent.type = "SPPV" => BUILD_32(sent.resv[5], sent.resv[6]) = m_pid.u_prev
=============================================================================
