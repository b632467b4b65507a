-------------------------------- MODULE G602 --------------------------------
(***************************************************************************)
(* The firmware's main class, G602.ino, composed of the control automaton  *)
(* (Ctrl), the scheduler's task list (as TaskQueue promises it) and the    *)
(* blinker (as BlinkerTask promises it), driven by loop() of               *)
(* unitra-g602.ino.  One iteration of the loop reads the clock, reports    *)
(* each input, handles one request from the link and then, if m_time_next  *)
(* has come, runs the due tasks one after the other.                       *)
(*                                                                         *)
(* Times are relative to m_time_now: `in' says how far ahead a task is, a  *)
(* negative value how late.  `pc' is the part of the loop done last; a     *)
(* button, a sensor or a link that reports nothing changes nothing and is  *)
(* passed over, the potentiometer is reported in every iteration.          *)
(***************************************************************************)
EXTENDS Integers, Sequences, FiniteSets, SequencesExt, TaskList

CONSTANTS
  BaselineLow, BaselineHigh, ManualSpeeds, FreeSpeeds, ActualSpeeds,  \* of Ctrl
  SentSpeeds,     \* set points a speed_SP_w request can carry
  SpeedMax,       \* G602_SPEED_MAX
  CtrlPeriod,     \* ctrl_handler_period
  ServiceAwait,   \* service_mode_enter_awaiting_time
  IdlePoll,       \* how soon loop() looks again when no task waits
  PartTimes,      \* durations of the parts of a blinking pattern
  MaxTick         \* bound on the time one iteration takes

ASSUME G602Assumption ==
  /\ BaselineLow \in Int /\ BaselineHigh \in Int
  /\ ManualSpeeds \subseteq Int /\ FreeSpeeds \subseteq Int /\ ActualSpeeds \subseteq Int
  /\ CtrlPeriod \in Nat \ {0}
  /\ ServiceAwait \in Nat /\ ServiceAwait >= CtrlPeriod
  /\ IdlePoll \in Nat \ {0}
  /\ PartTimes \subseteq Nat \ {0}
  /\ MaxTick \in Nat \ {0}
  /\ SentSpeeds \subseteq Int /\ SpeedMax \in Int
  /\ {speed \in SentSpeeds : speed <= SpeedMax} \subseteq FreeSpeeds

VARIABLES
  m_state, m_state_warnings, m_state_allowed_autostop, m_state_autostop_triggered,
  m_speed_SP_manual_delta, m_speed_SP_free, m_speed_PV, m_speed_baseline_mode,
  m_motor_state_cached, m_motor_speed_SP_cached, lift, events,   \* m_ctrl
  blinking,      \* m_blinker: a pattern is being shown
  m_sched,       \* the tasks that wait, nearest first
  m_time_next,   \* when loop() next calls the scheduler
  start_down,    \* m_di_btn_start, debounced
  stop_down,     \* m_di_btn_stop, debounced
  applied,       \* what P_task_ctrl last gave to the motor
  pc

C == INSTANCE Ctrl

ctrl == <<m_state, m_state_warnings, m_state_allowed_autostop, m_state_autostop_triggered,
          m_speed_SP_manual_delta, m_speed_SP_free, m_speed_PV, m_speed_baseline_mode,
          m_motor_state_cached, m_motor_speed_SP_cached, lift, events>>
timing == <<m_sched, m_time_next>>
vars == <<ctrl, blinking, timing, start_down, stop_down, applied, pc>>

TaskIds == {"blinker", "service_mode_awaiting", "ctrl"}
PoolSize == 3   \* TASKS_NUM

Construction == <<"ctor", "ctor_gauge_stop", "ctor_speed_mode", "ctor_autostop", "ctor_stop">>
LoopOrder == <<"begin", "gauge_stop", "speed_mode", "autostop", "start", "stop",
               "potentiometer", "comm", "sched", "end">>
LoopPlaces == ToSet(LoopOrder)
Places == ToSet(Construction) \cup LoopPlaces
Rank == [place \in LoopPlaces |->
           CHOOSE i \in DOMAIN LoopOrder : LoopOrder[i] = place]

\* Where a task stands in the list, and how far ahead it is.
Waits(id) == {i \in DOMAIN m_sched : m_sched[i].id = id}
In(id) == m_sched[CHOOSE i \in Waits(id) : TRUE].in

TypeOK ==
  /\ C!TypeOK
  /\ blinking \in BOOLEAN
  /\ m_sched \in Seq([id : TaskIds, in : Int])
  /\ m_time_next \in Int /\ m_time_next > -MaxTick   \* at most one iteration ago
  /\ start_down \in BOOLEAN
  /\ stop_down \in BOOLEAN
  /\ applied \in [on : BOOLEAN, sp : Int]
  /\ pc \in Places

-----------------------------------------------------------------------------
(***************************************************************************)
(* The scheduler, on the task list q.                                      *)
(***************************************************************************)
\* The search from the tail: how many tasks stay in front of one for that time.
Place(q, in) ==
  CHOOSE k \in 0..Len(q) :
    /\ k > 0 => q[k].in <= in
    /\ \A j \in (k + 1)..Len(q) : in < q[j].in

\* SchedulerSoft::shedule: dropped when the pool is full.
Sheduled(q, id, in) ==
  IF Len(q) = PoolSize THEN q
  ELSE InsertAt(q, Place(q, in) + 1, [id |-> id, in |-> in])

\* SchedulerSoft::unshedule: every task with the id is taken away.
Unsheduled(q, id) == Picked(q, {i \in DOMAIN q : q[i].id # id})

P_rtcNextTimeGet(q) == IF q = << >> THEN IdlePoll ELSE Head(q).in

\* Mutant: the measuring task is taken away and forgotten.
MotorUpdated_Forgotten(q) == Unsheduled(q, "ctrl")

\* P_motor_update, which is P_ctrl_stop and P_ctrl_start: the measuring task
\* begins a whole period anew.
MotorUpdated(q) == Sheduled(Unsheduled(q, "ctrl"), "ctrl", CtrlPeriod)

\* P_blinker_start, with the flags that typeSet answered.
Blinker == INSTANCE BlinkerTask WITH armed <- Cardinality(Waits("blinker"))
BlinkerStarted(q, flags) ==
  LET taken == IF "UNSCHEDULE" \in flags THEN Unsheduled(q, "blinker") ELSE q
  IN IF "SCHEDULE" \in flags THEN Sheduled(taken, "blinker", 0) ELSE taken

\* P_ctrl_event, for the events of the call being made.
MotorHeard == \E i \in DOMAIN events' : events'[i] \in {"MOTOR_ON", "MOTOR_OFF"}

\* The task list that is left by a call to Ctrl.
AfterCtrl == IF MotorHeard THEN MotorUpdated(m_sched) ELSE m_sched

\* A call to Ctrl and nothing else.
HearCtrl ==
  /\ m_sched' = AfterCtrl
  /\ m_time_next' = IF MotorHeard THEN P_rtcNextTimeGet(m_sched') ELSE m_time_next
  /\ UNCHANGED blinking

\* A call to Ctrl, then P_blinker_start.
HearCtrlAndBlink ==
  /\ \E flags \in Blinker!Answers :
       /\ m_sched' = BlinkerStarted(AfterCtrl, flags)
       /\ m_time_next' = IF MotorHeard \/ "SCHEDULE" \in flags
                         THEN P_rtcNextTimeGet(m_sched') ELSE m_time_next
  /\ blinking' = TRUE

-----------------------------------------------------------------------------
\* m_time_now = m_time_next = 0; nothing is constructed yet.
Init ==
  /\ C!Init
  /\ blinking = FALSE
  /\ m_sched = << >>
  /\ m_time_next = 0
  /\ start_down = FALSE
  /\ stop_down = FALSE
  /\ applied = [on |-> FALSE, sp |-> 0]
  /\ pc = "ctor"

\* The constructor: m_ctrl announces MOTOR_OFF, then each debounced input
\* reports the level it starts with.
Construct ==
  /\ \/ pc = "ctor" /\ C!Construct /\ HearCtrl /\ pc' = "ctor_gauge_stop"
     \/ pc = "ctor_gauge_stop" /\ C!stopTriggeredSet(TRUE) /\ HearCtrl /\ pc' = "ctor_speed_mode"
     \/ pc = "ctor_speed_mode" /\ C!baselineSpeedModeSet("HIGH") /\ HearCtrl /\ pc' = "ctor_autostop"
     \/ pc = "ctor_autostop" /\ C!autostopAllowSet(FALSE) /\ HearCtrl /\ pc' = "ctor_stop"
     \/ /\ pc = "ctor_stop"
        /\ m_sched' = Unsheduled(m_sched, "service_mode_awaiting")
        /\ m_time_next' = P_rtcNextTimeGet(m_sched')
        /\ pc' = "begin"
        /\ UNCHANGED <<ctrl, blinking>>
  /\ UNCHANGED <<start_down, stop_down, applied>>

\* The loop comes to this place; none passes over the potentiometer.
Reach(place) ==
  /\ pc \in LoopPlaces
  /\ Rank[pc] < Rank[place]
  /\ Rank[place] > Rank["potentiometer"] => Rank[pc] >= Rank["potentiometer"]
  /\ pc' = place

\* The three inputs whose every change is one call to Ctrl.
notifyGaugeStopSet ==
  /\ Reach("gauge_stop")
  /\ C!stopTriggeredSet(~m_state_autostop_triggered)
  /\ HearCtrl
  /\ UNCHANGED <<start_down, stop_down, applied>>

notifyButtonSpeedModeSet ==
  /\ Reach("speed_mode")
  /\ C!baselineSpeedModeSet(IF m_speed_baseline_mode = "LOW" THEN "HIGH" ELSE "LOW")
  /\ HearCtrl
  /\ UNCHANGED <<start_down, stop_down, applied>>

notifyButtonAutostopSet ==
  /\ Reach("autostop")
  /\ C!autostopAllowSet(~m_state_allowed_autostop)
  /\ HearCtrl
  /\ UNCHANGED <<start_down, stop_down, applied>>

\* P_event_start, on the run mode: the normal modes blink, the stopped service
\* modes start without a word, the started ones do nothing.
P_event_start ==
  \/ C!P_runModeGet(m_state) \in {"NORMAL_STOPPED"} \cup C!NormalStarted
       /\ C!start /\ HearCtrlAndBlink
  \/ m_state \in C!Stopped \ {"NORMAL_STOPPED"} /\ C!start /\ HearCtrl
  \/ m_state \in C!Started \ C!NormalStarted /\ UNCHANGED <<ctrl, blinking, timing>>

notifyButtonStartSet ==
  /\ Reach("start")
  /\ start_down' = ~start_down
  /\ IF start_down' THEN P_event_start ELSE UNCHANGED <<ctrl, blinking, timing>>
  /\ UNCHANGED <<stop_down, applied>>

\* P_event_stop: in the stopped normal mode it waits for the service menu, and
\* m_time_next is not told; in the stopped service modes it goes one on.
P_event_stop ==
  \/ /\ m_state = "NORMAL_STOPPED"
     /\ m_sched' = Sheduled(m_sched, "service_mode_awaiting", ServiceAwait)
     /\ UNCHANGED <<ctrl, blinking, m_time_next>>
  \/ m_state \in C!Started /\ C!stop /\ HearCtrlAndBlink
  \/ m_state = "SERVICE_MODE1_STOPPED" /\ C!mode_service_2 /\ HearCtrlAndBlink
  \/ m_state = "SERVICE_MODE2_STOPPED" /\ C!mode_service_3 /\ HearCtrlAndBlink
  \/ m_state = "SERVICE_MODE3_STOPPED" /\ C!mode_normal /\ HearCtrlAndBlink

P_event_stop_release ==
  /\ m_sched' = Unsheduled(m_sched, "service_mode_awaiting")
  /\ m_time_next' = P_rtcNextTimeGet(m_sched')
  /\ UNCHANGED <<ctrl, blinking>>

notifyButtonStopSet ==
  /\ Reach("stop")
  /\ stop_down' = ~stop_down
  /\ IF stop_down' THEN P_event_stop ELSE P_event_stop_release
  /\ UNCHANGED <<start_down, applied>>

\* The averaged potentiometer, reported in every iteration.
manualSpeedSet(speed) ==
  /\ Reach("potentiometer")
  /\ C!speedManualSet(speed)
  /\ HearCtrl
  /\ UNCHANGED <<start_down, stop_down, applied>>

\* Mutant: the set point is not compared with the maximum.
P_rpc_func_05_speed_SP_w_Unchecked(speed) ==
  /\ Reach("comm")
  /\ m_state \in {"SERVICE_MODE3_STOPPED", "SERVICE_MODE3_STARTED"}
  /\ C!speedFreeSet(speed)
  /\ HearCtrl
  /\ UNCHANGED <<start_down, stop_down, applied>>

\* P_comm_reader: one request an iteration; this is the one that reaches Ctrl.
\* A request refused (another mode, out of range) changes nothing.
P_rpc_func_05_speed_SP_w(speed) ==
  /\ Reach("comm")
  /\ m_state \in {"SERVICE_MODE3_STOPPED", "SERVICE_MODE3_STARTED"}
  /\ ~(speed > SpeedMax)
  /\ C!speedFreeSet(speed)
  /\ HearCtrl
  /\ UNCHANGED <<start_down, stop_down, applied>>

-----------------------------------------------------------------------------
\* G602::loop finds that m_time_next has come and calls handle.
EnterHandle ==
  /\ Reach("sched")
  /\ m_time_next <= 0
  /\ UNCHANGED <<ctrl, blinking, timing, start_down, stop_down, applied>>

\* handle runs the head of the list, taken away first.
Runs(id) ==
  /\ pc = "sched"
  /\ m_sched # << >> /\ Head(m_sched).in <= 0
  /\ Head(m_sched).id = id
  /\ UNCHANGED <<pc, start_down, stop_down>>

\* The strobe shows a part and comes again, or ends.
P_task_blinker ==
  /\ Runs("blinker")
  /\ \/ /\ \E wait \in PartTimes :
             m_sched' = Sheduled(Tail(m_sched), "blinker", Head(m_sched).in + wait)
        /\ UNCHANGED blinking
     \/ m_sched' = Tail(m_sched) /\ blinking' = FALSE
  /\ UNCHANGED <<ctrl, m_time_next, applied>>

\* Mutant: the waiting begins again, as the other tasks do.
P_task_awaiting_service_mode_Periodic ==
  /\ Runs("service_mode_awaiting")
  /\ C!mode_service_1
  /\ m_sched' = Sheduled(Tail(m_sched), "service_mode_awaiting", Head(m_sched).in + ServiceAwait)
  /\ UNCHANGED <<blinking, m_time_next, applied>>

\* mode_service_1, which only a stopped mode obeys, and FAST6 in any case.
P_task_awaiting_service_mode ==
  /\ Runs("service_mode_awaiting")
  /\ C!mode_service_1
  /\ \E flags \in Blinker!Answers :
       /\ m_sched' = BlinkerStarted(Tail(m_sched), flags)
       /\ m_time_next' = IF "SCHEDULE" \in flags THEN P_rtcNextTimeGet(m_sched') ELSE m_time_next
  /\ blinking' = TRUE
  /\ UNCHANGED applied

\* What the regulator asks of the motor: motorGet, and no speed when it is off.
Wanted == [on |-> m_motor_state_cached,
           sp |-> IF m_motor_state_cached THEN m_motor_speed_SP_cached ELSE 0]

\* Mutant: a motor that is off is not regulated.
P_task_ctrl_OnOnly ==
  /\ Runs("ctrl")
  /\ \E speed \in ActualSpeeds : C!actualSpeedUpdate(speed)
  /\ applied' = IF m_motor_state_cached THEN Wanted ELSE applied
  /\ m_sched' = Sheduled(Tail(m_sched), "ctrl", Head(m_sched).in + CtrlPeriod)
  /\ m_time_next' = P_rtcNextTimeGet(m_sched')
  /\ UNCHANGED blinking

\* Measure, report, regulate, come again a period after the time this run was
\* due, however late it is.
P_task_ctrl ==
  /\ Runs("ctrl")
  /\ \E speed \in ActualSpeeds : C!actualSpeedUpdate(speed)
  /\ applied' = Wanted
  /\ m_sched' = Sheduled(Tail(m_sched), "ctrl", Head(m_sched).in + CtrlPeriod)
  /\ m_time_next' = P_rtcNextTimeGet(m_sched')
  /\ UNCHANGED blinking

HandleReturns ==
  /\ pc = "sched"
  /\ m_sched = << >> \/ Head(m_sched).in > 0
  /\ m_time_next' = P_rtcNextTimeGet(m_sched)
  /\ pc' = "end"
  /\ UNCHANGED <<ctrl, blinking, m_sched, start_down, stop_down, applied>>

\* The next iteration: the clock has moved on.
timeSet(elapsed) ==
  /\ pc = "end" \/ (pc \in {"potentiometer", "comm"} /\ m_time_next > 0)
  /\ m_sched' = [i \in DOMAIN m_sched |-> [m_sched[i] EXCEPT !.in = @ - elapsed]]
  /\ m_time_next' = m_time_next - elapsed
  /\ pc' = "begin"
  /\ UNCHANGED <<ctrl, blinking, start_down, stop_down, applied>>

Tasks == P_task_blinker \/ P_task_awaiting_service_mode \/ P_task_ctrl

Next ==
  \/ Construct
  \/ notifyGaugeStopSet
  \/ notifyButtonSpeedModeSet
  \/ notifyButtonAutostopSet
  \/ notifyButtonStartSet
  \/ notifyButtonStopSet
  \/ \E speed \in ManualSpeeds : manualSpeedSet(speed)
  \/ \E speed \in SentSpeeds : P_rpc_func_05_speed_SP_w(speed)
  \/ EnterHandle
  \/ P_task_blinker
  \/ P_task_awaiting_service_mode
  \/ P_task_ctrl
  \/ HandleReturns
  \/ \E elapsed \in 0..MaxTick : timeSet(elapsed)

Spec == Init /\ [][Next]_vars

\* loop() is called for ever and returns; the clock moves on, if not between
\* any two iterations.  Nothing is assumed of buttons, sensors and requests.
Fairness ==
  /\ WF_vars(Construct)
  /\ WF_vars(\E speed \in ManualSpeeds : manualSpeedSet(speed))
  /\ WF_vars(EnterHandle)
  /\ WF_vars(Tasks)
  /\ WF_vars(HandleReturns)
  /\ SF_vars(\E elapsed \in 1..MaxTick : timeSet(elapsed))

FairSpec == Spec /\ Fairness

-----------------------------------------------------------------------------
\* The measuring and regulating task is armed exactly once from the moment the
\* constructor has run m_ctrl, never more than a period ahead: it is neither
\* lost in P_ctrl_stop nor doubled by two motor events in one iteration.
\* While handle runs it, it is off the list for that one step only.
OneControlTask ==
  pc # "ctor" => Cardinality(Waits("ctrl")) = 1 /\ In("ctrl") <= CtrlPeriod

\* Every task waits at most once, so the pool of three is never exhausted and
\* no shedule call, whose answer nobody looks at, is refused.  The strobe's
\* task waits exactly while the blinker blinks.
OnePerTask ==
  /\ \A id \in TaskIds : Cardinality(Waits(id)) <= 1
  /\ Cardinality(Waits("blinker")) = IF blinking THEN 1 ELSE 0

\* loop() never sleeps over a task: m_time_next is no later than the nearest
\* one, although P_event_stop arms a task without telling it.
TimeNextNotLate ==
  pc # "ctor" => m_sched # << >> /\ \A i \in DOMAIN m_sched : m_time_next <= m_sched[i].in

\* The way to the service menu is open only while STOP is held.
AwaitingMeansHeld == Waits("service_mode_awaiting") # {} => stop_down

\* The task list as a whole, through constructor, inputs, requests and tasks:
\* every task is there as often as it should be and loop() wakes up for it.
TasksKept ==
  TypeOK /\ OneControlTask /\ OnePerTask /\ TimeNextNotLate /\ AwaitingMeansHeld

\* The automaton inside the firmware is the automaton of Ctrl: it is
\* constructed before anything reaches it, and only values it admits do.
ImplementsCtrl == C!Spec

\* Whoever holds STOP or lets it go is heard: the waiting comes to an end.
AwaitingEnds ==
  Waits("service_mode_awaiting") # {} ~> Waits("service_mode_awaiting") = {}

\* A motor event puts the measuring task off.
PutOff == pc # "sched" /\ Waits("ctrl") # {} /\ In("ctrl")' > In("ctrl")

\* The motor is given what the automaton wants again and again, unless motor
\* events keep restarting the period (each START, STOP or autostop does).
MotorFollows == <>[][~PutOff]_vars => []<>(applied = Wanted)
=============================================================================
