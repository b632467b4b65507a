------------------------------ MODULE G602Proofs ------------------------------
(***************************************************************************)
(* The automaton inside the firmware is the automaton of module Ctrl: a    *)
(* step of G602 calls it once, with values it admits, or not at all.  So   *)
(* what CtrlProofs proves of the automaton holds in the firmware, whatever *)
(* the order of inputs, requests and tasks.                                *)
(***************************************************************************)
EXTENDS G602, ListProofs, FiniteSetTheorems, TLAPS

LEMMA InitCtrl == Init => C!Init
  BY DEF Init

LEMMA ConstructCtrl == Construct => [C!Next]_(C!vars)
  <1> SUFFICES ASSUME Construct PROVE [C!Next]_(C!vars)
    OBVIOUS
  <1>1. CASE C!Construct
    BY <1>1 DEF C!Next
  <1>2. CASE C!stopTriggeredSet(TRUE)
    BY <1>2 DEF C!Next
  <1>3. CASE C!baselineSpeedModeSet("HIGH")
    BY <1>3 DEF C!Next
  <1>4. CASE C!autostopAllowSet(FALSE)
    BY <1>4 DEF C!Next
  <1>5. CASE UNCHANGED ctrl
    BY <1>5 DEF ctrl, C!vars, C!settings, C!outputs
  <1> QED
    BY <1>1, <1>2, <1>3, <1>4, <1>5 DEF Construct

\* The three inputs that are told by one call each.
LEMMA SwitchesCtrl ==
  ASSUME notifyGaugeStopSet \/ notifyButtonSpeedModeSet \/ notifyButtonAutostopSet
  PROVE  C!Next
  <1>1. CASE notifyGaugeStopSet
    <2>1. (~m_state_autostop_triggered) \in BOOLEAN
      OBVIOUS
    <2> QED
      BY <1>1, <2>1 DEF notifyGaugeStopSet, C!Next
  <1>2. CASE notifyButtonSpeedModeSet
    <2>1. (IF m_speed_baseline_mode = "LOW" THEN "HIGH" ELSE "LOW") \in {"LOW", "HIGH"}
      OBVIOUS
    <2> QED
      BY <1>2, <2>1 DEF notifyButtonSpeedModeSet, C!Next
  <1>3. CASE notifyButtonAutostopSet
    <2>1. (~m_state_allowed_autostop) \in BOOLEAN
      OBVIOUS
    <2> QED
      BY <1>3, <2>1 DEF notifyButtonAutostopSet, C!Next
  <1> QED
    BY <1>1, <1>2, <1>3

LEMMA ButtonsCtrl ==
  ASSUME notifyButtonStartSet \/ notifyButtonStopSet
  PROVE  [C!Next]_(C!vars)
  <1>1. CASE P_event_start
    BY <1>1 DEF P_event_start, C!Next, ctrl, C!vars, C!settings, C!outputs
  <1>2. CASE P_event_stop
    BY <1>2 DEF P_event_stop, C!Next, ctrl, C!vars, C!settings, C!outputs
  <1>3. CASE UNCHANGED ctrl
    BY <1>3 DEF ctrl, C!vars, C!settings, C!outputs
  <1> QED
    BY <1>1, <1>2, <1>3 DEF notifyButtonStartSet, notifyButtonStopSet, P_event_stop_release

LEMMA LinkCtrl ==
  ASSUME NEW speed \in SentSpeeds, P_rpc_func_05_speed_SP_w(speed)
  PROVE  C!Next
  <1>1. speed \in FreeSpeeds /\ C!speedFreeSet(speed)
    BY G602Assumption DEF P_rpc_func_05_speed_SP_w
  <1> QED
    BY <1>1 DEF C!Next

LEMMA TasksCtrl ==
  ASSUME P_task_blinker \/ P_task_awaiting_service_mode \/ P_task_ctrl
  PROVE  [C!Next]_(C!vars)
  <1>1. CASE P_task_blinker
    BY <1>1 DEF P_task_blinker, ctrl, C!vars, C!settings, C!outputs
  <1>2. CASE P_task_awaiting_service_mode
    BY <1>2 DEF P_task_awaiting_service_mode, C!Next
  <1>3. CASE P_task_ctrl
    BY <1>3 DEF P_task_ctrl, C!Next
  <1> QED
    BY <1>1, <1>2, <1>3

LEMMA StepCtrl == [Next]_vars => [C!Next]_(C!vars)
  <1> SUFFICES ASSUME [Next]_vars PROVE [C!Next]_(C!vars)
    OBVIOUS
  <1>1. CASE Construct
    BY <1>1, ConstructCtrl
  <1>2. CASE notifyGaugeStopSet \/ notifyButtonSpeedModeSet \/ notifyButtonAutostopSet
    BY <1>2, SwitchesCtrl
  <1>3. CASE notifyButtonStartSet \/ notifyButtonStopSet
    BY <1>3, ButtonsCtrl
  <1>4. ASSUME NEW speed \in ManualSpeeds, manualSpeedSet(speed) PROVE C!Next
    BY <1>4 DEF manualSpeedSet, C!Next
  <1>5. ASSUME NEW speed \in SentSpeeds, P_rpc_func_05_speed_SP_w(speed) PROVE C!Next
    BY <1>5, LinkCtrl
  <1>6. CASE P_task_blinker \/ P_task_awaiting_service_mode \/ P_task_ctrl
    BY <1>6, TasksCtrl
  <1>7. CASE EnterHandle \/ HandleReturns \/ UNCHANGED vars
    BY <1>7 DEF EnterHandle, HandleReturns, vars, ctrl, C!vars, C!settings, C!outputs
  <1>8. ASSUME NEW elapsed \in 0..MaxTick, timeSet(elapsed) PROVE UNCHANGED C!vars
    BY <1>8 DEF timeSet, ctrl, C!vars, C!settings, C!outputs
  <1> QED
    BY <1>1, <1>2, <1>3, <1>4, <1>5, <1>6, <1>7, <1>8 DEF Next

\* The automaton inside the firmware is constructed before anything reaches it,
\* and only values it admits do.
THEOREM CtrlImplemented == Spec => ImplementsCtrl
  BY InitCtrl, StepCtrl, PTL DEF Spec, ImplementsCtrl, C!Spec

-----------------------------------------------------------------------------
(***************************************************************************)
(* CtrlProofs proves its theorems of its own copy of the automaton, over   *)
(* the same constants and variables; the two copies are one automaton.     *)
(***************************************************************************)

CtrlP == INSTANCE CtrlProofs

LEMMA SameNext == [C!Next]_(C!vars) <=> [CtrlP!Next]_(CtrlP!vars)
  BY ZenonT(60) DEF
         C!settings, CtrlP!settings, C!outputs, CtrlP!outputs, C!vars,
         CtrlP!vars, C!Stopped, CtrlP!Stopped, C!NormalStarted,
         CtrlP!NormalStarted, C!Started, CtrlP!Started, C!Enter, CtrlP!Enter,
         C!EnterTarget, CtrlP!EnterTarget, C!Baseline, CtrlP!Baseline, C!Gauge,
         CtrlP!Gauge, C!Setting, CtrlP!Setting, C!Commands, CtrlP!Commands,
         C!P_runModeGet, CtrlP!P_runModeGet, C!P_speed_baseline_get,
         CtrlP!P_speed_baseline_get, C!Finish, CtrlP!Finish, C!CleanEvents,
         CtrlP!CleanEvents, C!Ignore, CtrlP!Ignore, C!SetpointUpdate,
         CtrlP!SetpointUpdate, C!EnterStopped, CtrlP!EnterStopped, C!ShutDown,
         CtrlP!ShutDown, C!SpinDown, CtrlP!SpinDown, C!SpinUp, CtrlP!SpinUp,
         C!Store, CtrlP!Store, C!AutostopPending, CtrlP!AutostopPending,
         C!AutoSetpoint, CtrlP!AutoSetpoint, C!ManualSetpoint,
         CtrlP!ManualSetpoint, C!NormalStopped, CtrlP!NormalStopped,
         C!AllowWhileStarted, CtrlP!AllowWhileStarted, C!GaugeWhileStarted,
         CtrlP!GaugeWhileStarted, C!NormalStartedAuto, CtrlP!NormalStartedAuto,
         C!NormalStartedManual, CtrlP!NormalStartedManual, C!ServiceMode1Stopped,
         CtrlP!ServiceMode1Stopped, C!ServiceMode1Started,
         CtrlP!ServiceMode1Started, C!ServiceMode2Stopped,
         CtrlP!ServiceMode2Stopped, C!ServiceMode2Started,
         CtrlP!ServiceMode2Started, C!ServiceMode3Stopped,
         CtrlP!ServiceMode3Stopped, C!ServiceMode3Started,
         CtrlP!ServiceMode3Started, C!P_fsm, CtrlP!P_fsm, C!Construct,
         CtrlP!Construct, C!baselineSpeedModeSet, CtrlP!baselineSpeedModeSet,
         C!speedManualSet, CtrlP!speedManualSet, C!speedFreeSet,
         CtrlP!speedFreeSet, C!autostopAllowSet, CtrlP!autostopAllowSet,
         C!stopTriggeredSet, CtrlP!stopTriggeredSet, C!start, CtrlP!start,
         C!stop, CtrlP!stop, C!mode_normal, CtrlP!mode_normal, C!mode_service_1,
         CtrlP!mode_service_1, C!mode_service_2, CtrlP!mode_service_2,
         C!mode_service_3, CtrlP!mode_service_3, C!SpeedChecked,
         CtrlP!SpeedChecked, C!actualSpeedUpdate, CtrlP!actualSpeedUpdate,
         C!Next, CtrlP!Next

LEMMA SameSafe == C!Safe <=> CtrlP!Safe
  BY DEF
         C!Stopped, CtrlP!Stopped, C!NormalStarted, CtrlP!NormalStarted,
         C!Started, CtrlP!Started, C!States, CtrlP!States, C!Warnings,
         CtrlP!Warnings, C!Events, CtrlP!Events, C!Safe, CtrlP!Safe, C!TypeOK,
         CtrlP!TypeOK, C!AtRest, CtrlP!AtRest, C!Posture, CtrlP!Posture,
         C!SetpointCoherent, CtrlP!SetpointCoherent, C!AutostopHolds,
         CtrlP!AutostopHolds, C!P_speed_baseline_get, CtrlP!P_speed_baseline_get,
         C!SpeedChecked, CtrlP!SpeedChecked, C!AutostopPending, CtrlP!AutostopPending

\* What is proved of the automaton holds in the firmware: at rest everything is
\* off, motor, needle and set point agree with the mode, and no normal mode
\* drives the motor while an allowed autostop is tripped.
THEOREM FirmwareSafe == Spec => []C!Safe
  <1>1. CtrlP!CtrlAssumption
    BY G602Assumption DEF CtrlP!CtrlAssumption
  <1>2. CtrlP!Spec => []CtrlP!Safe
    BY <1>1, CtrlP!SafeHolds
  <1>3. C!Init <=> CtrlP!Init
    BY DEF C!Init, CtrlP!Init
  <1> QED
    BY <1>2, <1>3, SameNext, SameSafe, CtrlImplemented, PTL
       DEF ImplementsCtrl, C!Spec, CtrlP!Spec

-----------------------------------------------------------------------------
(***************************************************************************)
(* The task list.  A list is kept when it is sorted and no task is in it   *)
(* twice; then it is known by the set of its elements and its head.        *)
(***************************************************************************)

Entry == [id : TaskIds, in : Int]
Elems(q) == {q[i] : i \in 1..Len(q)}

ListKept(q) ==
  /\ q \in Seq(Entry)
  /\ \A i, j \in 1..Len(q) : i < j => q[i].id # q[j].id
  /\ \A i, j \in 1..Len(q) : i < j => q[i].in <= q[j].in

LEMMA EntryAt ==
  ASSUME NEW q \in Seq(Entry)
  PROVE  /\ Len(q) \in Nat
         /\ \A i \in 1..Len(q) : /\ q[i] \in Entry /\ q[i].id \in TaskIds /\ q[i].in \in Int
                                 /\ q[i] \in Elems(q)
  <1>1. \A t \in Entry : t.id \in TaskIds /\ t.in \in Int
    BY DEF Entry
  <1>2. Len(q) \in Nat /\ \A i \in 1..Len(q) : q[i] \in Entry
    BY ElementOfSeq
  <1>3. \A i \in 1..Len(q) : q[i] \in Elems(q)
    BY DEF Elems
  <1> QED
    BY <1>1, <1>2, <1>3

\* No more tasks than identifications: a list without one of them has room.
LEMMA Room ==
  ASSUME NEW q, ListKept(q), NEW id \in TaskIds, \A t \in Elems(q) : t.id # id
  PROVE  Len(q) < PoolSize
  <1> SUFFICES ASSUME Len(q) >= 3 PROVE FALSE
    BY DEF PoolSize, ListKept
  <1>1. 1 \in 1..Len(q) /\ 2 \in 1..Len(q) /\ 3 \in 1..Len(q)
    BY DEF ListKept
  <1>2. \A i \in 1..Len(q) : q[i] \in Elems(q) /\ q[i].id \in TaskIds /\ q[i].id # id
    BY EntryAt DEF ListKept
  <1>3. q[1].id # q[2].id /\ q[1].id # q[3].id /\ q[2].id # q[3].id
    BY <1>1 DEF ListKept
  <1> QED
    BY <1>1, <1>2, <1>3 DEF TaskIds

LEMMA PlaceIs ==
  ASSUME NEW q \in Seq(Entry), NEW in \in Int
  PROVE  /\ Place(q, in) \in 0..Len(q)
         /\ Place(q, in) > 0 => q[Place(q, in)].in <= in
         /\ \A j \in (Place(q, in) + 1)..Len(q) : in < q[j].in
  <1> DEFINE Stops(k) == (k > 0 => q[k].in <= in) /\ \A j \in (k + 1)..Len(q) : in < q[j].in
             Earlier == {i \in 1..Len(q) : q[i].in <= in}
  <1>1. Len(q) \in Nat /\ \A i \in 1..Len(q) : q[i].in \in Int
    BY EntryAt
  <1>2. PICK k \in 0..Len(q) : (k > 0 => k \in Earlier) /\ \A j \in (k + 1)..Len(q) : j \notin Earlier
    <2> HIDE DEF Earlier
    <2> QED
      BY <1>1, LastPlace
  <1>3. k > 0 => q[k].in <= in
    BY <1>2
  <1>4. ASSUME NEW j \in (k + 1)..Len(q) PROVE in < q[j].in
    <2>1. j \in 1..Len(q) /\ j \notin Earlier
      BY <1>1, <1>2
    <2> QED
      BY <1>1, <2>1
  <1>5. Stops(k)
    BY <1>3, <1>4
  <1>6. Place(q, in) = CHOOSE l \in 0..Len(q) : Stops(l)
    BY DEF Place
  <1> HIDE DEF Stops
  <1>7. Place(q, in) \in 0..Len(q) /\ Stops(Place(q, in))
    BY <1>2, <1>5, <1>6
  <1> QED
    BY <1>7 DEF Stops

\* shedule puts a task in that is not there, and there is room for it.
LEMMA SheduledKept ==
  ASSUME NEW q, ListKept(q), NEW id \in TaskIds, NEW in \in Int,
         \A t \in Elems(q) : t.id # id
  PROVE  /\ ListKept(Sheduled(q, id, in))
         /\ Elems(Sheduled(q, id, in)) = Elems(q) \cup {[id |-> id, in |-> in]}
  <1> DEFINE e == [id |-> id, in |-> in]
             k == Place(q, in)
             r == InsertAt(q, k + 1, e)
  <1>1. q \in Seq(Entry) /\ e \in Entry /\ Len(q) \in Nat
    BY DEF ListKept, Entry
  <1>2. Sheduled(q, id, in) = r
    BY Room DEF Sheduled, PoolSize
  <1>3. /\ k \in 0..Len(q)
        /\ k > 0 => q[k].in <= in
        /\ \A j \in (k + 1)..Len(q) : in < q[j].in
    BY <1>1, PlaceIs
  <1> HIDE DEF k, e
  <1>4. /\ r \in Seq(Entry) /\ Len(r) = Len(q) + 1
        /\ \A i \in 1..(Len(q) + 1) :
             r[i] = IF i <= k THEN q[i] ELSE IF i = k + 1 THEN e ELSE q[i - 1]
    BY <1>1, <1>3, Inserted
  <1>5. e.id = id /\ e.in = in
    BY DEF e
  <1> HIDE DEF r
  <1>6. \A i \in 1..Len(q) : q[i] \in Elems(q) /\ q[i].id # id /\ q[i].in \in Int
    BY <1>1, EntryAt
  <1>7. ASSUME NEW i \in 1..Len(q) PROVE (i <= k => q[i].in <= in) /\ (i > k => in < q[i].in)
    <2>1. CASE i < k
      BY <1>1, <1>3, <1>6, <2>1 DEF ListKept
    <2>2. CASE i = k
      BY <1>3, <2>2
    <2>3. CASE i > k
      BY <1>1, <1>3, <2>3
    <2> QED
      BY <1>1, <1>3, <2>1, <2>2, <2>3
  <1>8. ASSUME NEW i \in 1..Len(r), NEW j \in 1..Len(r), i < j
        PROVE  r[i].id # r[j].id /\ r[i].in <= r[j].in
    <2>1. CASE j <= k
      <3>1. i \in 1..Len(q) /\ j \in 1..Len(q) /\ r[i] = q[i] /\ r[j] = q[j]
        BY <1>1, <1>3, <1>4, <1>8, <2>1
      <3> QED
        BY <1>8, <3>1 DEF ListKept
    <2>2. CASE j = k + 1
      <3>1. i \in 1..Len(q) /\ i <= k /\ r[i] = q[i] /\ r[j] = e
        BY <1>1, <1>3, <1>4, <1>8, <2>2
      <3> QED
        BY <1>5, <1>6, <1>7, <3>1
    <2>3. CASE j > k + 1 /\ i <= k
      <3>1. i \in 1..Len(q) /\ j - 1 \in 1..Len(q) /\ i < j - 1 /\ r[i] = q[i] /\ r[j] = q[j - 1]
        BY <1>1, <1>3, <1>4, <1>8, <2>3
      <3> QED
        BY <3>1 DEF ListKept
    <2>4. CASE j > k + 1 /\ i = k + 1
      <3>1. j - 1 \in 1..Len(q) /\ j - 1 > k /\ r[i] = e /\ r[j] = q[j - 1]
        BY <1>1, <1>3, <1>4, <1>8, <2>4
      <3>2. in < q[j - 1].in /\ q[j - 1].in \in Int /\ q[j - 1].id # id
        BY <1>6, <1>7, <3>1
      <3> QED
        BY <1>5, <3>1, <3>2
    <2>5. CASE i > k + 1
      <3>1. /\ i - 1 \in 1..Len(q) /\ j - 1 \in 1..Len(q) /\ i - 1 < j - 1
            /\ r[i] = q[i - 1] /\ r[j] = q[j - 1]
        BY <1>1, <1>3, <1>4, <1>8, <2>5
      <3> QED
        BY <3>1 DEF ListKept
    <2> QED
      BY <1>1, <1>3, <1>4, <2>1, <2>2, <2>3, <2>4, <2>5
  <1>9. ListKept(r)
    BY <1>4, <1>8 DEF ListKept
  <1>10. ASSUME NEW t \in Elems(r) PROVE t \in Elems(q) \cup {e}
    <2>1. PICK i \in 1..Len(r) : t = r[i]
      BY DEF Elems
    <2>2. i <= k \/ i = k + 1 \/ i > k + 1
      BY <1>3, <1>4, <2>1
    <2>3. i <= k => i \in 1..Len(q)
      BY <1>1, <1>3, <2>1
    <2>4. i > k + 1 => i - 1 \in 1..Len(q)
      BY <1>1, <1>3, <1>4, <2>1
    <2> QED
      BY <1>3, <1>4, <1>6, <2>1, <2>2, <2>3, <2>4
  <1>11. ASSUME NEW i \in 1..Len(q) PROVE q[i] \in Elems(r)
    <2>1. CASE i <= k
      BY <1>1, <1>3, <1>4, <2>1 DEF Elems
    <2>2. CASE i > k
      <3>1. i + 1 \in 1..Len(r) /\ (i + 1) - 1 = i /\ r[i + 1] = q[i]
        BY <1>1, <1>3, <1>4, <2>2
      <3> QED
        BY <3>1 DEF Elems
    <2> QED
      BY <1>1, <1>3, <2>1, <2>2
  <1>12. e \in Elems(r)
    <2>1. k + 1 \in 1..Len(r) /\ r[k + 1] = e
      BY <1>1, <1>3, <1>4
    <2> QED
      BY <2>1 DEF Elems
  <1>13. Elems(r) = Elems(q) \cup {e}
    BY <1>10, <1>11, <1>12 DEF Elems
  <1> QED
    BY <1>2, <1>9, <1>13 DEF e

\* unshedule takes the task with the id away and nothing else.
LEMMA UnsheduledKept ==
  ASSUME NEW q, ListKept(q), NEW id
  PROVE  /\ ListKept(Unsheduled(q, id))
         /\ \A t : t \in Elems(Unsheduled(q, id)) <=> t \in Elems(q) /\ t.id # id
  <1> DEFINE I == {i \in DOMAIN q : q[i].id # id}
             r == Picked(q, I)
  <1>1. q \in Seq(Entry) /\ Len(q) \in Nat /\ DOMAIN q = 1..Len(q)
    BY DEF ListKept
  <1>2. I \in SUBSET (1..Len(q)) /\ \A i \in 1..Len(q) : i \in I <=> q[i].id # id
    BY <1>1
  <1>3. Unsheduled(q, id) = r
    BY DEF Unsheduled
  <1> HIDE DEF I
  <1>4. r \in Seq(Entry) /\ \E h : /\ Enumerates(h, Len(r), I)
                                   /\ \A n \in 1..Len(r) : r[n] = q[h[n]]
    BY <1>1, <1>2, PickedOrder
  <1> HIDE DEF r
  <1>5. PICK h : Enumerates(h, Len(r), I) /\ \A n \in 1..Len(r) : r[n] = q[h[n]]
    BY <1>4
  <1>6. Len(r) \in Nat
    BY <1>4
  <1>7. \A n \in 1..Len(r) : h[n] \in 1..Len(q) /\ h[n] \in I
    BY <1>2, <1>5 DEF Enumerates
  <1>8. \A m, n \in 1..Len(r) : m < n => h[m] < h[n]
    BY <1>5 DEF Enumerates, Increases
  <1>9. ListKept(r)
    <2>1. ASSUME NEW i \in 1..Len(r), NEW j \in 1..Len(r), i < j
          PROVE  r[i].id # r[j].id /\ r[i].in <= r[j].in
      <3>1. h[i] \in 1..Len(q) /\ h[j] \in 1..Len(q) /\ h[i] < h[j]
        BY <1>7, <1>8, <2>1
      <3>2. r[i] = q[h[i]] /\ r[j] = q[h[j]]
        BY <1>5
      <3> QED
        BY <3>1, <3>2 DEF ListKept
    <2> QED
      BY <1>4, <2>1 DEF ListKept
  <1>10. ASSUME NEW t \in Elems(r) PROVE t \in Elems(q) /\ t.id # id
    BY <1>2, <1>5, <1>7 DEF Elems
  <1>11. ASSUME NEW i \in 1..Len(q), q[i].id # id PROVE q[i] \in Elems(r)
    <2>1. PICK n \in 1..Len(r) : h[n] = i
      BY <1>2, <1>5, <1>11 DEF Enumerates
    <2> QED
      BY <1>5, <2>1 DEF Elems
  <1> QED
    BY <1>3, <1>9, <1>10, <1>11 DEF Elems

\* The head is the nearest task; what follows it are the others.
LEMMA HeadKept ==
  ASSUME NEW q, ListKept(q), q # << >>
  PROVE  /\ Head(q) \in Elems(q) /\ Head(q) \in Entry
         /\ \A t \in Elems(q) : Head(q).in <= t.in
         /\ ListKept(Tail(q))
         /\ \A t : t \in Elems(Tail(q)) <=> t \in Elems(q) /\ t.id # Head(q).id
  <1> DEFINE r == Tail(q)
  <1>1. /\ q \in Seq(Entry) /\ Len(q) \in Nat /\ Len(q) >= 1 /\ Head(q) = q[1]
        /\ r \in Seq(Entry) /\ Len(r) = Len(q) - 1 /\ \A i \in 1..Len(r) : r[i] = q[i + 1]
    BY DEF ListKept
  <1> HIDE DEF r
  <1>2. q[1] \in Entry /\ q[1] \in Elems(q)
    BY <1>1, EntryAt
  <1>3. \A i \in 1..Len(q) : i = 1 \/ (q[i].id # q[1].id /\ q[1].in <= q[i].in)
    BY <1>1 DEF ListKept
  <1>4. \A t \in Elems(q) : q[1].in <= t.in
    <2>1. q[1].in <= q[1].in
      BY <1>1, EntryAt
    <2> QED
      BY <1>3, <2>1 DEF Elems
  <1>5. ListKept(r)
    <2>1. ASSUME NEW i \in 1..Len(r), NEW j \in 1..Len(r), i < j
          PROVE  r[i].id # r[j].id /\ r[i].in <= r[j].in
      <3>1. i + 1 \in 1..Len(q) /\ j + 1 \in 1..Len(q) /\ i + 1 < j + 1
        BY <1>1, <2>1
      <3>2. r[i] = q[i + 1] /\ r[j] = q[j + 1]
        BY <1>1
      <3> QED
        BY <3>1, <3>2 DEF ListKept
    <2> QED
      BY <1>1, <2>1 DEF ListKept
  <1>6. ASSUME NEW t \in Elems(r) PROVE t \in Elems(q) /\ t.id # q[1].id
    <2>1. PICK i \in 1..Len(r) : t = r[i]
      BY DEF Elems
    <2>2. i + 1 \in 1..Len(q) /\ i + 1 # 1 /\ t = q[i + 1]
      BY <1>1, <2>1
    <2> QED
      BY <1>3, <2>2 DEF Elems
  <1>7. ASSUME NEW i \in 1..Len(q), q[i].id # q[1].id PROVE q[i] \in Elems(r)
    <2>1. i - 1 \in 1..Len(r) /\ r[i - 1] = q[i]
      BY <1>1, <1>7
    <2> QED
      BY <2>1 DEF Elems
  <1> QED
    BY <1>1, <1>2, <1>4, <1>5, <1>6, <1>7 DEF Elems, r

\* The clock moves on for all of them.
LEMMA ShiftedKept ==
  ASSUME NEW q, ListKept(q), NEW elapsed \in Int
  PROVE  LET r == [i \in DOMAIN q |-> [q[i] EXCEPT !.in = @ - elapsed]]
         IN  /\ ListKept(r)
             /\ \A t \in Elems(r) : \E s \in Elems(q) : t.id = s.id /\ t.in = s.in - elapsed
             /\ \A s \in Elems(q) : \E t \in Elems(r) : t.id = s.id /\ t.in = s.in - elapsed
  <1> DEFINE r == [i \in DOMAIN q |-> [q[i] EXCEPT !.in = @ - elapsed]]
  <1>1. q \in Seq(Entry) /\ Len(q) \in Nat /\ DOMAIN q = 1..Len(q)
    BY DEF ListKept
  <1>2. ASSUME NEW i \in 1..Len(q)
        PROVE  r[i] \in Entry /\ r[i].id = q[i].id /\ r[i].in = q[i].in - elapsed
    <2>1. q[i] \in Entry
      BY <1>1, EntryAt
    <2> QED
      BY <1>1, <2>1 DEF Entry
  <1>3. DOMAIN r = 1..Len(q) /\ r = [i \in 1..Len(q) |-> r[i]]
    BY <1>1
  <1> HIDE DEF r
  <1>4. r \in Seq(Entry) /\ Len(r) = Len(q)
    BY <1>1, <1>2, <1>3
  <1>5. \A i \in 1..Len(q) : q[i].in \in Int
    BY <1>1, EntryAt
  <1>6. ListKept(r)
    BY <1>1, <1>2, <1>4, <1>5, SMTT(30) DEF ListKept
  <1>7. \A i \in 1..Len(q) : q[i] \in Elems(q) /\ r[i] \in Elems(r)
    BY <1>4 DEF Elems
  <1>8. ASSUME NEW t \in Elems(r)
        PROVE  \E s \in Elems(q) : t.id = s.id /\ t.in = s.in - elapsed
    <2>1. PICK i \in 1..Len(q) : t = r[i]
      BY <1>4 DEF Elems
    <2> QED
      BY <1>2, <1>7, <2>1
  <1>9. \A s \in Elems(q) : \E t \in Elems(r) : t.id = s.id /\ t.in = s.in - elapsed
    BY <1>2, <1>7 DEF Elems
  <1> QED
    BY <1>6, <1>8, <1>9 DEF r

-----------------------------------------------------------------------------
(***************************************************************************)
(* The invariant.  That no task waits twice is what keeps the pool from    *)
(* running full.  In handle m_time_next is behind the clock, and still no  *)
(* later than any task.                                                    *)
(***************************************************************************)

Has(q, id) == \E t \in Elems(q) : t.id = id

Listed(q) ==
  /\ ListKept(q)
  /\ \A t \in Elems(q) : t.in > -MaxTick
  /\ \A t \in Elems(q) : t.id = "ctrl" => t.in <= CtrlPeriod

NotLate(q, next) ==
  /\ next \in Int /\ next > -MaxTick
  /\ \A t \in Elems(q) : next <= t.in

TasksGood ==
  /\ Listed(m_sched)
  /\ NotLate(m_sched, m_time_next)
  /\ Has(m_sched, "ctrl")
  /\ Has(m_sched, "blinker") <=> blinking = TRUE
  /\ Has(m_sched, "service_mode_awaiting") => stop_down = TRUE

TaskInv ==
  /\ blinking \in BOOLEAN /\ start_down \in BOOLEAN /\ stop_down \in BOOLEAN
  /\ applied \in [on : BOOLEAN, sp : Int]
  /\ pc \in Places
  /\ pc = "ctor" => m_sched = << >> /\ m_time_next = 0 /\ blinking = FALSE /\ stop_down = FALSE
  /\ pc # "ctor" => TasksGood
  /\ pc = "end" => m_time_next > 0

LEMMA Constants ==
  /\ CtrlPeriod \in Int /\ CtrlPeriod > 0 /\ ServiceAwait \in Int /\ ServiceAwait >= CtrlPeriod
  /\ MaxTick \in Int /\ MaxTick > 0 /\ IdlePoll \in Int /\ IdlePoll > 0
  /\ -MaxTick \in Int /\ -MaxTick < 0
  /\ \A wait \in PartTimes : wait \in Int /\ wait > 0
  <1>1. \A wait \in PartTimes : wait \in Nat \ {0}
    BY G602Assumption
  <1>2. CtrlPeriod \in Nat \ {0} /\ MaxTick \in Nat \ {0} /\ IdlePoll \in Nat \ {0}
        /\ ServiceAwait \in Nat /\ ServiceAwait >= CtrlPeriod
    BY G602Assumption
  <1> QED
    BY <1>1, <1>2

LEMMA ElemsTyped ==
  ASSUME NEW q, ListKept(q), NEW t \in Elems(q)
  PROVE  t \in Entry /\ t.id \in TaskIds /\ t.in \in Int
  BY EntryAt DEF ListKept, Elems

LEMMA EmptyElems == Elems(<< >>) = {} /\ ListKept(<< >>)
  BY DEF Elems, ListKept

\* The nearest time is no later than any task.
LEMMA NearestNotLate ==
  ASSUME NEW q, Listed(q)
  PROVE  NotLate(q, P_rtcNextTimeGet(q))
  <1>1. CASE q = << >>
    BY <1>1, EmptyElems, Constants DEF NotLate, P_rtcNextTimeGet
  <1>2. CASE q # << >>
    <2>1. /\ Head(q) \in Elems(q) /\ \A t \in Elems(q) : Head(q).in <= t.in
          /\ P_rtcNextTimeGet(q) = Head(q).in
      BY <1>2, HeadKept DEF Listed, P_rtcNextTimeGet
    <2>2. Head(q).in \in Int /\ Head(q).in > -MaxTick
      BY <2>1, ElemsTyped DEF Listed
    <2> QED
      BY <2>1, <2>2 DEF NotLate
  <1> QED
    BY <1>1, <1>2

\* A task that is not in the list is put in.
LEMMA PutIn ==
  ASSUME NEW q, Listed(q), NEW id \in TaskIds, ~Has(q, id),
         NEW in \in Int, in > -MaxTick, id = "ctrl" => in <= CtrlPeriod
  PROVE  LET r == Sheduled(q, id, in)
         IN  /\ Listed(r)
             /\ \A other : Has(r, other) <=> Has(q, other) \/ other = id
             /\ \A next : NotLate(q, next) /\ next <= in => NotLate(r, next)
  <1> DEFINE r == Sheduled(q, id, in)
             e == [id |-> id, in |-> in]
  <1>1. ListKept(r) /\ Elems(r) = Elems(q) \cup {e}
    BY SheduledKept DEF Listed, Has
  <1>2. e.id = id /\ e.in = in
    OBVIOUS
  <1> HIDE DEF r, e
  <1>3. Listed(r)
    BY <1>1, <1>2 DEF Listed
  <1>4. \A other : Has(r, other) <=> Has(q, other) \/ other = id
    BY <1>1, <1>2 DEF Has
  <1>5. \A next : NotLate(q, next) /\ next <= in => NotLate(r, next)
    BY <1>1, <1>2 DEF NotLate
  <1> QED
    BY <1>3, <1>4, <1>5 DEF r

\* Some tasks are taken away.
LEMMA TakenOut ==
  ASSUME NEW q, Listed(q), NEW id, NEW r, ListKept(r),
         \A t : t \in Elems(r) <=> t \in Elems(q) /\ t.id # id
  PROVE  /\ Listed(r)
         /\ \A other : Has(r, other) <=> Has(q, other) /\ other # id
         /\ \A next : NotLate(q, next) => NotLate(r, next)
  BY DEF Listed, Has, NotLate

LEMMA UnsheduledListed ==
  ASSUME NEW q, Listed(q), NEW id
  PROVE  /\ Listed(Unsheduled(q, id))
         /\ \A other : Has(Unsheduled(q, id), other) <=> Has(q, other) /\ other # id
         /\ \A next : NotLate(q, next) => NotLate(Unsheduled(q, id), next)
  <1>1. /\ ListKept(Unsheduled(q, id))
        /\ \A t : t \in Elems(Unsheduled(q, id)) <=> t \in Elems(q) /\ t.id # id
    BY UnsheduledKept DEF Listed
  <1> QED
    BY <1>1, TakenOut

LEMMA TailListed ==
  ASSUME NEW q, Listed(q), q # << >>
  PROVE  /\ Listed(Tail(q))
         /\ \A other : Has(Tail(q), other) <=> Has(q, other) /\ other # Head(q).id
         /\ \A next : NotLate(q, next) => NotLate(Tail(q), next)
         /\ Has(q, Head(q).id) /\ Head(q).in \in Int /\ Head(q).in > -MaxTick
         /\ \A next : NotLate(q, next) => next <= Head(q).in
  <1>1. /\ ListKept(Tail(q)) /\ Head(q) \in Elems(q)
        /\ \A t : t \in Elems(Tail(q)) <=> t \in Elems(q) /\ t.id # Head(q).id
    BY HeadKept DEF Listed
  <1>2. Head(q).in \in Int /\ Head(q).in > -MaxTick /\ Has(q, Head(q).id)
    BY <1>1, ElemsTyped DEF Listed, Has
  <1>3. \A next : NotLate(q, next) => next <= Head(q).in
    BY <1>1 DEF NotLate
  <1>4. /\ Listed(Tail(q))
        /\ \A other : Has(Tail(q), other) <=> Has(q, other) /\ other # Head(q).id
        /\ \A next : NotLate(q, next) => NotLate(Tail(q), next)
    BY <1>1, TakenOut
  <1> QED
    BY <1>2, <1>3, <1>4

\* P_motor_update has the control task in the list again, once.
LEMMA MotorUpdatedListed ==
  ASSUME NEW q, Listed(q)
  PROVE  /\ Listed(MotorUpdated(q))
         /\ \A other : Has(MotorUpdated(q), other) <=> Has(q, other) \/ other = "ctrl"
  <1> DEFINE u == Unsheduled(q, "ctrl")
  <1>1. Listed(u) /\ \A other : Has(u, other) <=> Has(q, other) /\ other # "ctrl"
    BY UnsheduledListed
  <1> HIDE DEF u
  <1>2. CtrlPeriod \in Int /\ CtrlPeriod > -MaxTick /\ CtrlPeriod <= CtrlPeriod /\ "ctrl" \in TaskIds
    BY Constants DEF TaskIds
  <1>3. /\ Listed(Sheduled(u, "ctrl", CtrlPeriod))
        /\ \A other : Has(Sheduled(u, "ctrl", CtrlPeriod), other) <=> Has(u, other) \/ other = "ctrl"
    BY <1>1, <1>2, PutIn
  <1>4. MotorUpdated(q) = Sheduled(u, "ctrl", CtrlPeriod)
    BY DEF MotorUpdated, u
  <1> QED
    BY <1>1, <1>3, <1>4

\* P_blinker_start has the strobe's task in the list, once.
LEMMA BlinkerStartedListed ==
  ASSUME NEW q, Listed(q), Has(q, "blinker") <=> blinking = TRUE, blinking \in BOOLEAN,
         NEW flags \in Blinker!Answers
  PROVE  /\ Listed(BlinkerStarted(q, flags))
         /\ \A other : Has(BlinkerStarted(q, flags), other) <=> Has(q, other) \/ other = "blinker"
         /\ "SCHEDULE" \notin flags => BlinkerStarted(q, flags) = q
  <1>1. 0 \in Int /\ 0 > -MaxTick /\ "blinker" \in TaskIds /\ "blinker" # "ctrl"
    BY Constants DEF TaskIds
  <1>2. CASE flags = {}
    <2>1. blinking = TRUE
      BY <1>2 DEF Blinker!Answers
    <2> QED
      BY <1>2, <2>1 DEF BlinkerStarted
  <1>3. CASE flags = {"UNSCHEDULE", "SCHEDULE"}
    <2> DEFINE u == Unsheduled(q, "blinker")
    <2>1. Listed(u) /\ \A other : Has(u, other) <=> Has(q, other) /\ other # "blinker"
      BY UnsheduledListed
    <2> HIDE DEF u
    <2>2. /\ Listed(Sheduled(u, "blinker", 0))
          /\ \A other : Has(Sheduled(u, "blinker", 0), other) <=> Has(u, other) \/ other = "blinker"
      BY <1>1, <2>1, PutIn
    <2>3. BlinkerStarted(q, flags) = Sheduled(u, "blinker", 0)
      BY <1>3 DEF BlinkerStarted, u
    <2> QED
      BY <1>3, <2>1, <2>2, <2>3
  <1>4. CASE flags = {"SCHEDULE"} /\ blinking = FALSE
    <2>1. ~Has(q, "blinker")
      BY <1>4
    <2>2. /\ Listed(Sheduled(q, "blinker", 0))
          /\ \A other : Has(Sheduled(q, "blinker", 0), other) <=> Has(q, other) \/ other = "blinker"
      BY <1>1, <2>1, PutIn
    <2>3. BlinkerStarted(q, flags) = Sheduled(q, "blinker", 0)
      BY <1>4 DEF BlinkerStarted
    <2> QED
      BY <1>4, <2>2, <2>3
  <1>5. flags = {} \/ flags = {"UNSCHEDULE", "SCHEDULE"} \/ (flags = {"SCHEDULE"} /\ blinking = FALSE)
    BY DEF Blinker!Answers
  <1> QED
    BY <1>2, <1>3, <1>4, <1>5

-----------------------------------------------------------------------------
(***************************************************************************)
(* One lemma per step of the loop: the invariant is kept.                  *)
(***************************************************************************)

\* A call to Ctrl, whatever its events: m_motor_update or nothing.
LEMMA HearCtrlGood ==
  ASSUME TasksGood, HearCtrl, stop_down = TRUE => stop_down' = TRUE
  PROVE  TasksGood'
  <1>1. CASE MotorHeard
    <2>1. m_sched' = MotorUpdated(m_sched) /\ m_time_next' = P_rtcNextTimeGet(m_sched')
      BY <1>1 DEF HearCtrl, AfterCtrl
    <2>2. /\ Listed(m_sched')
          /\ \A other : Has(m_sched', other) <=> Has(m_sched, other) \/ other = "ctrl"
      BY <2>1, MotorUpdatedListed DEF TasksGood
    <2>3. NotLate(m_sched', m_time_next')
      BY <2>1, <2>2, NearestNotLate
    <2>4. blinking' = blinking
      BY DEF HearCtrl
    <2> QED
      BY <2>2, <2>3, <2>4 DEF TasksGood
  <1>2. CASE ~MotorHeard
    BY <1>2 DEF HearCtrl, AfterCtrl, TasksGood
  <1> QED
    BY <1>1, <1>2

LEMMA AfterCtrlListed ==
  ASSUME TasksGood
  PROVE  /\ Listed(AfterCtrl)
         /\ \A other : Has(AfterCtrl, other) <=> Has(m_sched, other) \/ other = "ctrl"
         /\ ~MotorHeard => AfterCtrl = m_sched
  <1>1. CASE MotorHeard
    BY <1>1, MotorUpdatedListed DEF TasksGood, AfterCtrl
  <1>2. CASE ~MotorHeard
    BY <1>2 DEF TasksGood, AfterCtrl
  <1> QED
    BY <1>1, <1>2

\* A strobe asked for, on a list that m_time_next may or may not know.
LEMMA BlinkGood ==
  ASSUME NEW q, Listed(q), Has(q, "ctrl"), Has(q, "blinker") <=> blinking = TRUE,
         Has(q, "service_mode_awaiting") => stop_down' = TRUE, blinking \in BOOLEAN,
         NEW flags \in Blinker!Answers,
         m_sched' = BlinkerStarted(q, flags),
         \/ m_time_next' = P_rtcNextTimeGet(m_sched')
         \/ "SCHEDULE" \notin flags /\ NotLate(q, m_time_next'),
         blinking' = TRUE
  PROVE  TasksGood'
  <1>1. /\ Listed(m_sched')
        /\ \A other : Has(m_sched', other) <=> Has(q, other) \/ other = "blinker"
        /\ "SCHEDULE" \notin flags => m_sched' = q
    BY BlinkerStartedListed
  <1>2. NotLate(m_sched', m_time_next')
    BY <1>1, NearestNotLate
  <1> QED
    BY <1>1, <1>2 DEF TasksGood

LEMMA HearCtrlAndBlinkGood ==
  ASSUME TasksGood, blinking \in BOOLEAN, HearCtrlAndBlink, stop_down = TRUE => stop_down' = TRUE
  PROVE  TasksGood'
  <1>1. PICK flags \in Blinker!Answers :
          /\ m_sched' = BlinkerStarted(AfterCtrl, flags)
          /\ m_time_next' = IF MotorHeard \/ "SCHEDULE" \in flags
                            THEN P_rtcNextTimeGet(m_sched') ELSE m_time_next
    BY DEF HearCtrlAndBlink
  <1>2. /\ Listed(AfterCtrl)
        /\ \A other : Has(AfterCtrl, other) <=> Has(m_sched, other) \/ other = "ctrl"
        /\ ~MotorHeard => AfterCtrl = m_sched
    BY AfterCtrlListed
  <1>3. /\ Has(AfterCtrl, "ctrl") /\ (Has(AfterCtrl, "blinker") <=> blinking = TRUE)
        /\ Has(AfterCtrl, "service_mode_awaiting") => stop_down' = TRUE
    BY <1>2 DEF TasksGood
  <1>4. blinking' = TRUE
    BY DEF HearCtrlAndBlink
  <1>5. \/ m_time_next' = P_rtcNextTimeGet(m_sched')
        \/ "SCHEDULE" \notin flags /\ NotLate(AfterCtrl, m_time_next')
    <2>1. CASE MotorHeard \/ "SCHEDULE" \in flags
      BY <1>1, <2>1
    <2>2. CASE ~MotorHeard /\ "SCHEDULE" \notin flags
      BY <1>1, <1>2, <2>2 DEF TasksGood
    <2> QED
      BY <2>1, <2>2
  <1> QED
    BY <1>1, <1>2, <1>3, <1>4, <1>5, BlinkGood

\* m_ctrl's MOTOR_OFF arms the control task for the first time; after that the
\* inputs are told with the list in order.
LEMMA ConstructGood ==
  ASSUME TaskInv, Construct
  PROVE  TasksGood'
  <1>1. CASE pc = "ctor" /\ C!Construct /\ HearCtrl /\ pc' = "ctor_gauge_stop"
    <2>1. m_sched = << >> /\ blinking = FALSE /\ stop_down' = FALSE /\ blinking' = FALSE
      BY <1>1 DEF TaskInv, Construct, HearCtrl
    <2>2. MotorHeard
      <3>1. events' \in {<<"MOTOR_OFF", "LIFT_UP", "MOTOR_SETPOINT_UPDATE">>}
        BY <1>1 DEF C!Construct, C!Finish, C!P_runModeGet
      <3>2. 1 \in DOMAIN events' /\ events'[1] = "MOTOR_OFF"
        BY <3>1
      <3> QED
        BY <3>2 DEF MotorHeard
    <2>3. Listed(<< >>) /\ \A id : ~Has(<< >>, id)
      BY EmptyElems DEF Listed, Has
    <2>4. m_sched' = MotorUpdated(<< >>) /\ m_time_next' = P_rtcNextTimeGet(m_sched')
      BY <1>1, <2>1, <2>2 DEF HearCtrl, AfterCtrl
    <2>5. Listed(m_sched') /\ \A other : Has(m_sched', other) <=> other = "ctrl"
      BY <2>3, <2>4, MotorUpdatedListed
    <2>6. NotLate(m_sched', m_time_next')
      BY <2>4, <2>5, NearestNotLate
    <2> QED
      BY <2>1, <2>5, <2>6 DEF TasksGood
  <1>2. CASE pc # "ctor" /\ HearCtrl
    BY <1>2, HearCtrlGood DEF TaskInv, Construct
  <1>3. CASE pc = "ctor_stop" /\ UNCHANGED blinking
             /\ m_sched' = Unsheduled(m_sched, "service_mode_awaiting")
             /\ m_time_next' = P_rtcNextTimeGet(m_sched')
    <2>1. TasksGood
      BY <1>3 DEF TaskInv
    <2>2. /\ Listed(m_sched')
          /\ \A other : Has(m_sched', other) <=> Has(m_sched, other) /\ other # "service_mode_awaiting"
      BY <1>3, <2>1, UnsheduledListed DEF TasksGood
    <2>3. NotLate(m_sched', m_time_next')
      BY <1>3, <2>2, NearestNotLate
    <2> QED
      BY <1>3, <2>1, <2>2, <2>3 DEF TasksGood
  <1> QED
    BY <1>1, <1>2, <1>3 DEF Construct

LEMMA PlacesAre ==
  /\ LoopPlaces = {"begin", "gauge_stop", "speed_mode", "autostop", "start", "stop",
                   "potentiometer", "comm", "sched", "end"}
  /\ Places = LoopPlaces \cup
                {"ctor", "ctor_gauge_stop", "ctor_speed_mode", "ctor_autostop", "ctor_stop"}
  <1>1. LoopPlaces = {LoopOrder[i] : i \in 1..10}
    BY DEF LoopPlaces, ToSet, LoopOrder
  <1>2. ToSet(Construction) = {Construction[i] : i \in 1..5}
    BY DEF ToSet, Construction
  <1>3. {LoopOrder[i] : i \in 1..10} =
          {"begin", "gauge_stop", "speed_mode", "autostop", "start", "stop",
           "potentiometer", "comm", "sched", "end"}
    <2>1. \A i \in 1..10 : i \in {1, 2, 3, 4, 5, 6, 7, 8, 9, 10}
      OBVIOUS
    <2> QED
      BY <2>1 DEF LoopOrder
  <1>4. {Construction[i] : i \in 1..5} =
          {"ctor", "ctor_gauge_stop", "ctor_speed_mode", "ctor_autostop", "ctor_stop"}
    <2>1. \A i \in 1..5 : i \in {1, 2, 3, 4, 5}
      OBVIOUS
    <2> QED
      BY <2>1 DEF Construction
  <1> QED
    BY <1>1, <1>2, <1>3, <1>4 DEF Places

LEMMA Reached ==
  ASSUME NEW place \in LoopPlaces, Reach(place), TaskInv
  PROVE  pc # "ctor" /\ pc' = place /\ pc' # "ctor" /\ pc' \in Places /\ TasksGood
  BY PlacesAre DEF Reach, TaskInv

\* The buttons, sensors, potentiometer and link, in a loop that goes round.
LEMMA SwitchesGood ==
  ASSUME TaskInv, notifyGaugeStopSet \/ notifyButtonSpeedModeSet \/ notifyButtonAutostopSet
  PROVE  TasksGood' /\ pc' \in Places /\ pc' \notin {"ctor", "end"}
  <1>1. "gauge_stop" \in LoopPlaces /\ "speed_mode" \in LoopPlaces
        /\ "autostop" \in LoopPlaces
    BY PlacesAre
  <1>2. /\ HearCtrl /\ UNCHANGED stop_down
        /\ Reach("gauge_stop") \/ Reach("speed_mode") \/ Reach("autostop")
    BY DEF notifyGaugeStopSet, notifyButtonSpeedModeSet, notifyButtonAutostopSet
  <1>3. TasksGood /\ pc' \in {"gauge_stop", "speed_mode", "autostop"} /\ pc' \in Places
    BY <1>1, <1>2, Reached
  <1> QED
    BY <1>2, <1>3, HearCtrlGood

LEMMA PotentiometerGood ==
  ASSUME TaskInv, NEW speed, manualSpeedSet(speed)
  PROVE  TasksGood' /\ pc' \in Places /\ pc' \notin {"ctor", "end"}
  <1>1. HearCtrl /\ UNCHANGED stop_down /\ Reach("potentiometer")
    BY DEF manualSpeedSet
  <1>2. TasksGood /\ pc' = "potentiometer" /\ pc' \in Places
    BY <1>1, Reached, PlacesAre
  <1> QED
    BY <1>1, <1>2, HearCtrlGood

LEMMA LinkGood ==
  ASSUME TaskInv, NEW speed, P_rpc_func_05_speed_SP_w(speed)
  PROVE  TasksGood' /\ pc' \in Places /\ pc' \notin {"ctor", "end"}
  <1>1. HearCtrl /\ UNCHANGED stop_down /\ Reach("comm")
    BY DEF P_rpc_func_05_speed_SP_w
  <1>2. TasksGood /\ pc' = "comm" /\ pc' \in Places
    BY <1>1, Reached, PlacesAre
  <1> QED
    BY <1>1, <1>2, HearCtrlGood

LEMMA StartGood ==
  ASSUME TaskInv, notifyButtonStartSet
  PROVE  TasksGood' /\ pc' \in Places /\ pc' \notin {"ctor", "end"}
  <1>1. UNCHANGED stop_down /\ Reach("start")
    BY DEF notifyButtonStartSet
  <1>2. TasksGood /\ pc' = "start" /\ pc' \in Places /\ blinking \in BOOLEAN
    BY <1>1, Reached, PlacesAre DEF TaskInv
  <1>3. HearCtrlAndBlink \/ HearCtrl \/ UNCHANGED <<blinking, timing>>
    BY DEF notifyButtonStartSet, P_event_start
  <1>4. CASE HearCtrlAndBlink
    BY <1>1, <1>2, <1>4, HearCtrlAndBlinkGood
  <1>5. CASE HearCtrl
    BY <1>1, <1>2, <1>5, HearCtrlGood
  <1>6. CASE UNCHANGED <<blinking, timing>>
    BY <1>1, <1>2, <1>6 DEF TasksGood, timing
  <1> QED
    BY <1>2, <1>3, <1>4, <1>5, <1>6

\* STOP in the stopped normal mode begins to wait: nothing waited, as it was
\* not held, and the control task is nearer, so m_time_next need not be told.
LEMMA StopGood ==
  ASSUME TaskInv, notifyButtonStopSet
  PROVE  TasksGood' /\ pc' \in Places /\ pc' \notin {"ctor", "end"}
  <1>1. Reach("stop") /\ stop_down' = ~stop_down /\ stop_down \in BOOLEAN
    BY DEF notifyButtonStopSet, TaskInv
  <1>2. TasksGood /\ pc' = "stop" /\ pc' \in Places /\ blinking \in BOOLEAN
    BY <1>1, Reached, PlacesAre DEF TaskInv
  <1>3. CASE stop_down' = TRUE
    <2>1. stop_down # TRUE /\ P_event_stop
      BY <1>1, <1>3 DEF notifyButtonStopSet
    <2>2. CASE UNCHANGED <<blinking, m_time_next>>
               /\ m_sched' = Sheduled(m_sched, "service_mode_awaiting", ServiceAwait)
      <3>1. ~Has(m_sched, "service_mode_awaiting") /\ Listed(m_sched)
        BY <1>2, <2>1 DEF TasksGood
      <3>2. /\ ServiceAwait \in Int /\ ServiceAwait > -MaxTick
            /\ "service_mode_awaiting" \in TaskIds /\ "service_mode_awaiting" # "ctrl"
        BY Constants DEF TaskIds
      <3>3. /\ Listed(m_sched')
            /\ \A other : Has(m_sched', other)
                            <=> Has(m_sched, other) \/ other = "service_mode_awaiting"
            /\ \A next : NotLate(m_sched, next) /\ next <= ServiceAwait => NotLate(m_sched', next)
        BY <2>2, <3>1, <3>2, PutIn
      <3>4. PICK t \in Elems(m_sched) : t.id = "ctrl"
        BY <1>2 DEF TasksGood, Has
      <3>5. t.in <= CtrlPeriod /\ t.in \in Int /\ m_time_next <= t.in /\ m_time_next \in Int
        BY <1>2, <3>1, <3>4, ElemsTyped DEF TasksGood, Listed, NotLate
      <3>6. m_time_next <= ServiceAwait
        BY <3>5, Constants
      <3>7. NotLate(m_sched', m_time_next')
        BY <1>2, <2>2, <3>3, <3>6 DEF TasksGood
      <3> QED
        BY <1>2, <1>3, <2>2, <3>3, <3>7 DEF TasksGood
    <2>3. CASE HearCtrlAndBlink
      BY <1>2, <1>3, <2>3, HearCtrlAndBlinkGood
    <2> QED
      BY <1>2, <2>1, <2>2, <2>3 DEF P_event_stop
  <1>4. CASE stop_down' # TRUE
    <2>1. P_event_stop_release
      BY <1>4 DEF notifyButtonStopSet
    <2>2. /\ Listed(m_sched')
          /\ \A other : Has(m_sched', other) <=> Has(m_sched, other) /\ other # "service_mode_awaiting"
      BY <1>2, <2>1, UnsheduledListed DEF TasksGood, P_event_stop_release
    <2>3. NotLate(m_sched', m_time_next')
      BY <2>1, <2>2, NearestNotLate DEF P_event_stop_release
    <2> QED
      BY <1>2, <2>1, <2>2, <2>3 DEF TasksGood, P_event_stop_release
  <1> QED
    BY <1>3, <1>4

\* The three tasks.  Each was the head of the list and is off it while it
\* runs; the strobe and the control task put themselves in again.
LEMMA BlinkerTaskGood ==
  ASSUME TasksGood, P_task_blinker
  PROVE  TasksGood'
  <1>1. Runs("blinker") /\ m_sched # << >> /\ Head(m_sched).id = "blinker" /\ UNCHANGED stop_down
    BY DEF P_task_blinker, Runs
  <1>2. /\ Listed(Tail(m_sched))
        /\ \A other : Has(Tail(m_sched), other) <=> Has(m_sched, other) /\ other # "blinker"
        /\ NotLate(Tail(m_sched), m_time_next) /\ m_time_next <= Head(m_sched).in
        /\ Has(m_sched, "blinker") /\ Head(m_sched).in \in Int /\ Head(m_sched).in > -MaxTick
    BY <1>1, TailListed DEF TasksGood
  <1> DEFINE q == Tail(m_sched)
             late == Head(m_sched).in
  <1> HIDE DEF q, late
  <1>3. CASE UNCHANGED blinking /\ \E wait \in PartTimes :
               m_sched' = Sheduled(q, "blinker", late + wait)
    <2>1. PICK wait \in PartTimes : m_sched' = Sheduled(q, "blinker", late + wait)
      BY <1>3
    <2>2. /\ late + wait \in Int /\ late + wait > -MaxTick /\ m_time_next <= late + wait
          /\ "blinker" \in TaskIds /\ "blinker" # "ctrl"
      <3>1. wait \in Int /\ wait > 0 /\ MaxTick \in Int
        BY Constants
      <3>2. late \in Int /\ late > -MaxTick /\ m_time_next <= late /\ m_time_next \in Int
        BY <1>2 DEF late, NotLate
      <3> QED
        BY <3>1, <3>2 DEF TaskIds
    <2>3. Listed(q) /\ ~Has(q, "blinker") /\ NotLate(q, m_time_next)
      BY <1>2 DEF q
    <2>4. /\ Listed(m_sched')
          /\ \A other : Has(m_sched', other) <=> Has(q, other) \/ other = "blinker"
          /\ \A next : NotLate(q, next) /\ next <= late + wait => NotLate(m_sched', next)
      BY <2>1, <2>2, <2>3, PutIn
    <2>5. NotLate(m_sched', m_time_next') /\ UNCHANGED m_time_next
      BY <2>2, <2>3, <2>4 DEF P_task_blinker
    <2>6. \A other : Has(m_sched', other) <=> Has(m_sched, other)
      BY <1>2, <2>4 DEF q
    <2> QED
      BY <1>1, <1>3, <2>4, <2>5, <2>6 DEF TasksGood
  <1>4. CASE m_sched' = q /\ blinking' = FALSE
    <2>1. m_sched' = Tail(m_sched) /\ UNCHANGED m_time_next
      BY <1>4 DEF P_task_blinker, q
    <2> QED
      BY <1>1, <1>2, <1>4, <2>1 DEF TasksGood
  <1> QED
    BY <1>3, <1>4 DEF P_task_blinker, q, late

LEMMA AwaitingTaskGood ==
  ASSUME TasksGood, blinking \in BOOLEAN, P_task_awaiting_service_mode
  PROVE  TasksGood'
  <1>1. /\ m_sched # << >> /\ Head(m_sched).id = "service_mode_awaiting" /\ UNCHANGED stop_down
        /\ blinking' = TRUE
    BY DEF P_task_awaiting_service_mode, Runs
  <1>2. /\ Listed(Tail(m_sched))
        /\ \A other : Has(Tail(m_sched), other)
                        <=> Has(m_sched, other) /\ other # "service_mode_awaiting"
        /\ NotLate(Tail(m_sched), m_time_next)
    BY <1>1, TailListed DEF TasksGood
  <1>3. PICK flags \in Blinker!Answers :
          /\ m_sched' = BlinkerStarted(Tail(m_sched), flags)
          /\ m_time_next' = IF "SCHEDULE" \in flags THEN P_rtcNextTimeGet(m_sched') ELSE m_time_next
    BY DEF P_task_awaiting_service_mode
  <1>4. \/ m_time_next' = P_rtcNextTimeGet(m_sched')
        \/ "SCHEDULE" \notin flags /\ NotLate(Tail(m_sched), m_time_next')
    BY <1>2, <1>3
  <1>5. /\ Has(Tail(m_sched), "ctrl") /\ (Has(Tail(m_sched), "blinker") <=> blinking = TRUE)
        /\ Has(Tail(m_sched), "service_mode_awaiting") => stop_down' = TRUE
    BY <1>2 DEF TasksGood
  <1> QED
    BY <1>1, <1>2, <1>3, <1>4, <1>5, BlinkGood

LEMMA CtrlTaskGood ==
  ASSUME TasksGood, P_task_ctrl
  PROVE  TasksGood'
  <1> DEFINE q == Tail(m_sched)
             due == Head(m_sched).in + CtrlPeriod
  <1>1. /\ m_sched # << >> /\ Head(m_sched).id = "ctrl" /\ Head(m_sched).in <= 0
        /\ UNCHANGED <<stop_down, blinking>>
        /\ m_sched' = Sheduled(q, "ctrl", due) /\ m_time_next' = P_rtcNextTimeGet(m_sched')
    BY DEF P_task_ctrl, Runs
  <1>2. /\ Listed(q) /\ \A other : Has(q, other) <=> Has(m_sched, other) /\ other # "ctrl"
        /\ Head(m_sched).in \in Int /\ Head(m_sched).in > -MaxTick
    BY <1>1, TailListed DEF TasksGood
  <1>3. due \in Int /\ due > -MaxTick /\ due <= CtrlPeriod /\ "ctrl" \in TaskIds
    BY <1>1, <1>2, Constants DEF TaskIds
  <1> HIDE DEF q, due
  <1>4. Listed(m_sched') /\ \A other : Has(m_sched', other) <=> Has(q, other) \/ other = "ctrl"
    BY <1>1, <1>2, <1>3, PutIn
  <1>5. NotLate(m_sched', m_time_next')
    BY <1>1, <1>4, NearestNotLate
  <1> QED
    BY <1>1, <1>2, <1>4, <1>5 DEF TasksGood

\* handle is entered and left: m_time_next is told the nearest task.
LEMMA HandleGood ==
  ASSUME TaskInv, EnterHandle \/ HandleReturns
  PROVE  /\ TasksGood' /\ pc' \in Places /\ pc' # "ctor"
         /\ pc' = "end" => m_time_next' > 0
  <1>1. CASE EnterHandle
    <2>1. TasksGood /\ pc' = "sched" /\ pc' \in Places
      BY <1>1, Reached, PlacesAre DEF EnterHandle
    <2> QED
      BY <1>1, <2>1 DEF EnterHandle, TasksGood, timing
  <1>2. CASE HandleReturns
    <2>1. /\ pc = "sched" /\ pc' = "end" /\ m_time_next' = P_rtcNextTimeGet(m_sched)
          /\ UNCHANGED <<blinking, m_sched, stop_down>>
          /\ m_sched = << >> \/ Head(m_sched).in > 0
      BY <1>2 DEF HandleReturns
    <2>2. TasksGood
      BY <2>1 DEF TaskInv
    <2>3. NotLate(m_sched, m_time_next')
      BY <2>1, <2>2, NearestNotLate DEF TasksGood
    <2>4. m_time_next' > 0
      BY <2>1, Constants DEF P_rtcNextTimeGet
    <2> QED
      BY <2>1, <2>2, <2>3, <2>4, PlacesAre DEF TasksGood
  <1> QED
    BY <1>1, <1>2

\* loop() goes round only when m_time_next is ahead, so nothing is later than
\* the one iteration.
LEMMA TimeSetGood ==
  ASSUME TaskInv, NEW elapsed \in 0..MaxTick, timeSet(elapsed)
  PROVE  TasksGood' /\ pc' = "begin" /\ pc' \in Places
  <1> DEFINE r == [i \in DOMAIN m_sched |-> [m_sched[i] EXCEPT !.in = @ - elapsed]]
  <1>1. /\ m_sched' = r /\ m_time_next' = m_time_next - elapsed /\ m_time_next > 0
        /\ pc' = "begin" /\ pc \in {"end", "potentiometer", "comm"}
        /\ UNCHANGED <<blinking, stop_down>>
    BY DEF timeSet, TaskInv
  <1>2. TasksGood
    BY <1>1 DEF TaskInv
  <1>3. elapsed \in Int /\ elapsed >= 0 /\ elapsed <= MaxTick /\ MaxTick \in Int
    BY Constants
  <1>4. m_time_next \in Int /\ \A s \in Elems(m_sched) : m_time_next <= s.in /\ s.in \in Int
    BY <1>2, ElemsTyped DEF TasksGood, NotLate, Listed
  <1>5. /\ ListKept(r)
        /\ \A t \in Elems(r) : \E s \in Elems(m_sched) : t.id = s.id /\ t.in = s.in - elapsed
        /\ \A s \in Elems(m_sched) : \E t \in Elems(r) : t.id = s.id /\ t.in = s.in - elapsed
    BY <1>2, <1>3, ShiftedKept DEF TasksGood, Listed
  <1> HIDE DEF r
  <1>6. ASSUME NEW t \in Elems(r)
        PROVE  /\ t.in > -MaxTick /\ m_time_next - elapsed <= t.in
               /\ t.id = "ctrl" => t.in <= CtrlPeriod
    <2>1. PICK s \in Elems(m_sched) : t.id = s.id /\ t.in = s.in - elapsed
      BY <1>5
    <2>2. s.id = "ctrl" => s.in <= CtrlPeriod
      BY <1>2 DEF TasksGood, Listed
    <2> QED
      BY <1>1, <1>3, <1>4, <2>1, <2>2, Constants
  <1>7. Listed(r)
    BY <1>5, <1>6 DEF Listed
  <1>8. NotLate(r, m_time_next - elapsed)
    BY <1>1, <1>3, <1>4, <1>6 DEF NotLate
  <1>9. \A other : Has(r, other) <=> Has(m_sched, other)
    BY <1>5 DEF Has
  <1> QED
    BY <1>1, <1>2, <1>7, <1>8, <1>9, PlacesAre DEF TasksGood

LEMMA InitTaskInv == Init => TaskInv
  <1> SUFFICES ASSUME Init PROVE TaskInv
    OBVIOUS
  <1>1. /\ blinking = FALSE /\ start_down = FALSE /\ stop_down = FALSE
        /\ m_sched = << >> /\ m_time_next = 0 /\ pc = "ctor"
        /\ applied = [on |-> FALSE, sp |-> 0]
    BY DEF Init
  <1>2. pc \in Places
    BY <1>1, PlacesAre
  <1>3. applied \in [on : BOOLEAN, sp : Int]
    BY <1>1
  <1> QED
    BY <1>1, <1>2, <1>3 DEF TaskInv

\* The rest of the invariant: the inputs' levels and what the motor was given.
LEMMA StepTyped ==
  ASSUME TaskInv, C!TypeOK, [Next]_vars
  PROVE  /\ blinking' \in BOOLEAN /\ start_down' \in BOOLEAN /\ stop_down' \in BOOLEAN
         /\ applied' \in [on : BOOLEAN, sp : Int]
  <1>1. blinking \in BOOLEAN /\ start_down \in BOOLEAN /\ stop_down \in BOOLEAN
        /\ applied \in [on : BOOLEAN, sp : Int]
    BY DEF TaskInv
  <1>2. CASE Construct
    BY <1>1, <1>2 DEF Construct, HearCtrl
  <1>3. CASE notifyGaugeStopSet \/ notifyButtonSpeedModeSet \/ notifyButtonAutostopSet
    BY <1>1, <1>3 DEF notifyGaugeStopSet, notifyButtonSpeedModeSet, notifyButtonAutostopSet, HearCtrl
  <1>4. CASE notifyButtonStartSet
    <2>1. start_down' \in BOOLEAN /\ UNCHANGED <<stop_down, applied>>
      BY <1>1, <1>4 DEF notifyButtonStartSet
    <2>2. blinking' = blinking \/ blinking' = TRUE
      BY <1>4 DEF notifyButtonStartSet, P_event_start, HearCtrl, HearCtrlAndBlink
    <2> QED
      BY <1>1, <2>1, <2>2
  <1>5. CASE notifyButtonStopSet
    <2>1. stop_down' \in BOOLEAN /\ UNCHANGED <<start_down, applied>>
      BY <1>1, <1>5 DEF notifyButtonStopSet
    <2>2. blinking' = blinking \/ blinking' = TRUE
      BY <1>5 DEF notifyButtonStopSet, P_event_stop, P_event_stop_release, HearCtrlAndBlink
    <2> QED
      BY <1>1, <2>1, <2>2
  <1>6. ASSUME NEW speed, manualSpeedSet(speed) \/ P_rpc_func_05_speed_SP_w(speed)
        PROVE  UNCHANGED <<blinking, start_down, stop_down, applied>>
    BY <1>6 DEF manualSpeedSet, P_rpc_func_05_speed_SP_w, HearCtrl
  <1>7. CASE EnterHandle \/ HandleReturns \/ UNCHANGED vars
    BY <1>1, <1>7 DEF EnterHandle, HandleReturns, vars
  <1>8. CASE P_task_blinker \/ P_task_awaiting_service_mode
    <2>1. UNCHANGED <<start_down, stop_down, applied>>
      BY <1>8 DEF P_task_blinker, P_task_awaiting_service_mode, Runs
    <2>2. blinking' = blinking \/ blinking' = TRUE \/ blinking' = FALSE
      BY <1>8 DEF P_task_blinker, P_task_awaiting_service_mode
    <2> QED
      BY <1>1, <2>1, <2>2
  <1>9. CASE P_task_ctrl
    <2>1. UNCHANGED <<blinking, start_down, stop_down>> /\ applied' = Wanted
      BY <1>9 DEF P_task_ctrl, Runs
    <2>2. m_motor_state_cached \in BOOLEAN /\ m_motor_speed_SP_cached \in Int
      BY DEF C!TypeOK
    <2>3. (IF m_motor_state_cached THEN m_motor_speed_SP_cached ELSE 0) \in Int
      BY <2>2
    <2>4. Wanted \in [on : BOOLEAN, sp : Int]
      BY <2>2, <2>3, Zenon DEF Wanted
    <2> QED
      BY <1>1, <2>1, <2>4
  <1>10. ASSUME NEW elapsed, timeSet(elapsed)
         PROVE  UNCHANGED <<blinking, start_down, stop_down, applied>>
    BY <1>10 DEF timeSet
  <1> QED
    BY <1>1, <1>2, <1>3, <1>4, <1>5, <1>6, <1>7, <1>8, <1>9, <1>10 DEF Next

LEMMA StepTaskInv == TaskInv /\ C!TypeOK /\ [Next]_vars => TaskInv'
  <1> SUFFICES ASSUME TaskInv, C!TypeOK, [Next]_vars PROVE TaskInv'
    OBVIOUS
  <1> DEFINE Kept == /\ TasksGood' /\ pc' \in Places /\ pc' # "ctor"
                     /\ pc' = "end" => m_time_next' > 0
  <1>1. Construct => Kept
    <2> SUFFICES ASSUME Construct PROVE Kept
      OBVIOUS
    <2>1. pc' \in {"ctor_gauge_stop", "ctor_speed_mode", "ctor_autostop", "ctor_stop", "begin"}
      BY DEF Construct
    <2> QED
      BY <2>1, ConstructGood, PlacesAre
  <1>2. notifyGaugeStopSet \/ notifyButtonSpeedModeSet \/ notifyButtonAutostopSet => Kept
    BY SwitchesGood
  <1>3. notifyButtonStartSet \/ notifyButtonStopSet => Kept
    BY StartGood, StopGood
  <1>4. ASSUME NEW speed, manualSpeedSet(speed) \/ P_rpc_func_05_speed_SP_w(speed) PROVE Kept
    BY <1>4, PotentiometerGood, LinkGood
  <1>5. EnterHandle \/ HandleReturns => Kept
    BY HandleGood
  <1>6. P_task_blinker \/ P_task_awaiting_service_mode \/ P_task_ctrl => Kept
    <2> SUFFICES ASSUME P_task_blinker \/ P_task_awaiting_service_mode \/ P_task_ctrl PROVE Kept
      OBVIOUS
    <2>1. pc = "sched" /\ pc' = "sched"
      BY DEF P_task_blinker, P_task_awaiting_service_mode, P_task_ctrl, Runs
    <2>2. TasksGood /\ pc' \in Places /\ blinking \in BOOLEAN
      BY <2>1 DEF TaskInv
    <2> QED
      BY <2>1, <2>2, BlinkerTaskGood, AwaitingTaskGood, CtrlTaskGood
  <1>7. ASSUME NEW elapsed \in 0..MaxTick, timeSet(elapsed) PROVE Kept
    BY <1>7, TimeSetGood
  <1>8. CASE UNCHANGED vars
    BY <1>8 DEF TaskInv, TasksGood, vars, timing
  <1>9. CASE Kept
    BY <1>9, StepTyped DEF TaskInv
  <1> HIDE DEF Kept
  <1> QED
    BY <1>1, <1>2, <1>3, <1>4, <1>5, <1>6, <1>7, <1>8, <1>9 DEF Next

\* A task that waits once: Waits counts it, and In says when.
LEMMA WaitsOnce ==
  ASSUME ListKept(m_sched), NEW id
  PROVE  /\ Waits(id) # {} <=> Has(m_sched, id)
         /\ Has(m_sched, id) => Cardinality(Waits(id)) = 1
         /\ ~Has(m_sched, id) => Cardinality(Waits(id)) = 0
         /\ Has(m_sched, id) => \E t \in Elems(m_sched) : t.id = id /\ In(id) = t.in
  <1>1. DOMAIN m_sched = 1..Len(m_sched) /\ Len(m_sched) \in Nat
    BY DEF ListKept
  <1>2. \A i \in Waits(id) : i \in 1..Len(m_sched) /\ m_sched[i].id = id
    BY <1>1 DEF Waits
  <1>3. \A i, j \in Waits(id) : i = j
    BY <1>1, <1>2 DEF ListKept
  <1>4. Waits(id) # {} <=> Has(m_sched, id)
    BY <1>1 DEF Waits, Has, Elems
  <1>5. ASSUME Has(m_sched, id)
        PROVE  /\ Cardinality(Waits(id)) = 1
               /\ \E t \in Elems(m_sched) : t.id = id /\ In(id) = t.in
    <2> DEFINE i == CHOOSE i \in Waits(id) : TRUE
    <2>1. i \in Waits(id)
      BY <1>4, <1>5
    <2>2. Waits(id) = {i}
      BY <1>3, <2>1
    <2>3. Cardinality(Waits(id)) = 1
      BY <2>2, FS_Singleton
    <2>4. m_sched[i] \in Elems(m_sched) /\ m_sched[i].id = id /\ In(id) = m_sched[i].in
      BY <1>2, <2>1 DEF Elems, In
    <2> QED
      BY <2>3, <2>4
  <1>6. ASSUME ~Has(m_sched, id) PROVE Cardinality(Waits(id)) = 0
    BY <1>4, <1>6, FS_EmptySet
  <1> QED
    BY <1>4, <1>5, <1>6

LEMMA TaskInvKept == TaskInv /\ C!TypeOK => TasksKept
  <1> SUFFICES ASSUME TaskInv, C!TypeOK PROVE TasksKept
    OBVIOUS
  <1>1. ListKept(m_sched) /\ m_time_next \in Int /\ m_time_next > -MaxTick
    BY EmptyElems, Constants DEF TaskInv, TasksGood, Listed, NotLate
  <1>2. TypeOK
    BY <1>1 DEF TypeOK, TaskInv, ListKept, Entry
  <1>3. OneControlTask
    <2> SUFFICES ASSUME pc # "ctor" PROVE Cardinality(Waits("ctrl")) = 1 /\ In("ctrl") <= CtrlPeriod
      BY DEF OneControlTask
    <2>1. Has(m_sched, "ctrl") /\ \A t \in Elems(m_sched) : t.id = "ctrl" => t.in <= CtrlPeriod
      BY DEF TaskInv, TasksGood, Listed
    <2> QED
      BY <1>1, <2>1, WaitsOnce
  <1>4. pc = "ctor" => \A id : ~Has(m_sched, id)
    BY EmptyElems DEF TaskInv, Has
  <1>5. OnePerTask
    <2>1. \A id \in TaskIds : Cardinality(Waits(id)) \in {0, 1}
      BY <1>1, WaitsOnce
    <2>2. Has(m_sched, "blinker") <=> blinking = TRUE
      BY <1>4 DEF TaskInv, TasksGood
    <2>3. Cardinality(Waits("blinker")) = IF blinking = TRUE THEN 1 ELSE 0
      BY <1>1, <2>2, WaitsOnce
    <2>4. \A id \in TaskIds : Cardinality(Waits(id)) <= 1
      BY <2>1
    <2>5. Cardinality(Waits("blinker")) = IF blinking THEN 1 ELSE 0
      BY <2>3 DEF TaskInv
    <2> QED
      BY <2>4, <2>5 DEF OnePerTask
  <1>6. TimeNextNotLate
    <2> SUFFICES ASSUME pc # "ctor"
                 PROVE  m_sched # << >> /\ \A i \in DOMAIN m_sched : m_time_next <= m_sched[i].in
      BY DEF TimeNextNotLate
    <2>1. Has(m_sched, "ctrl") /\ NotLate(m_sched, m_time_next)
      BY DEF TaskInv, TasksGood
    <2>2. m_sched # << >>
      BY <2>1, EmptyElems DEF Has
    <2>3. DOMAIN m_sched = 1..Len(m_sched)
      BY <1>1 DEF ListKept
    <2> QED
      BY <2>1, <2>2, <2>3 DEF NotLate, Elems
  <1>7. AwaitingMeansHeld
    <2>1. Has(m_sched, "service_mode_awaiting") => stop_down = TRUE
      BY <1>4 DEF TaskInv, TasksGood
    <2> QED
      BY <1>1, <2>1, WaitsOnce DEF AwaitingMeansHeld
  <1> QED
    BY <1>2, <1>3, <1>5, <1>6, <1>7 DEF TasksKept

\* Through constructor, inputs, requests and tasks every task is in the list
\* as often as it should be and loop() wakes up for it: the control task once
\* and at most a period ahead, the strobe's exactly while it blinks, the wait
\* for the service menu only while STOP is held, m_time_next never late.
THEOREM TasksKeptHolds == Spec => []TasksKept
  <1>1. C!Safe => C!TypeOK
    BY DEF C!Safe
  <1> QED
    BY <1>1, InitTaskInv, StepTaskInv, TaskInvKept, FirmwareSafe, PTL DEF Spec
=============================================================================
