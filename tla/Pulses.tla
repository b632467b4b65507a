-------------------------------- MODULE Pulses --------------------------------
(***************************************************************************)
(* The pulse counters of unitra-g602.ino: one interrupt handler per gauge  *)
(* against setup(), loop() and the control task that takes the counters.   *)
(*                                                                         *)
(* The processor has bytes and g_time has four of them: the loop stores it *)
(* part by part, in an order the compiler chooses, with the interrupts on. *)
(* A time is two digits here, and an interrupt between the two stores      *)
(* reads a torn value.  Handlers run to their end: a handler is one step.  *)
(*                                                                         *)
(* change_time is one store in P_pulses_init: it and the handlers that may *)
(* run meanwhile all store the same g_time, which setup() sets only once.  *)
(***************************************************************************)
EXTENDS Integers, Sequences

CONSTANTS
  Order,          \* the counters, as P_pulses_all_get takes them
  BounceTime,     \* of each counter, DI_MOTOR_DEBOUNCE_TIME and DI_TABLE_DEBOUNCE_TIME
  Digit,          \* a time is two digits to this base
  MaxIteration,   \* the longest time between two readings of the clock
  PulseMod        \* rotate_pulse_counter_t counts modulo PulseMod

Counters == {Order[i] : i \in DOMAIN Order}
TimeMod == Digit * Digit
\* g_time is as old as an iteration when the next one reads the clock, and that
\* answer may wait for its store.
MaxLag == 2 * MaxIteration

ASSUME PulsesAssumption ==
  /\ Digit \in Nat \ {0} /\ PulseMod \in Nat \ {0} /\ MaxIteration \in Nat
  /\ Order \in Seq(Counters) /\ Order # << >>
  /\ \A i, j \in DOMAIN Order : Order[i] = Order[j] => i = j
  /\ BounceTime \in [Counters -> Nat]
  /\ \A c \in Counters : BounceTime[c] + 2 * MaxLag < TimeMod

VARIABLES
  clock,        \* what millis() would answer
  since_read,   \* how long ago the loop read it, MaxIteration at most
  g_time,       \* as its digits
  time_read,    \* the answer of millis() on its way to g_time
  to_store,     \* the digits still to be stored
  at,           \* where setup() or loop() is
  turn,         \* which counter it is busy with
  interrupts,   \* the processor takes interrupts
  attached,     \* the gauges attachInterrupt has been called for
  pending,      \* edges latched and not handled yet
  rotate,       \* P_motor_rotate and P_table_rotate
  pulse_out     \* the copies P_pulses_all_get makes

\* The model's own record: of each counter the edges handled and neither taken
\* nor reset, the time since the last of them, and whether that one read a torn
\* g_time.
VARIABLES edges, gap, torn

loopVars == <<g_time, time_read, to_store, at, turn, interrupts, attached, pulse_out>>
history == <<edges, gap, torn>>
vars == <<clock, since_read, loopVars, pending, rotate, history>>

Times == 0..(TimeMod - 1)
Digits == {"hi", "lo"}
Split(t) == [d \in Digits |-> IF d = "hi" THEN t \div Digit ELSE t % Digit]
Value(time) == time["hi"] * Digit + time["lo"]
Counts == 0..(PulseMod - 1)
DigitTimes == [Digits -> 0..(Digit - 1)]
Count == [pulses : Counts, bounces : Counts]
NoCount == [pulses |-> 0, bounces |-> 0]
Setups == {"setup", "attach", "init", "init_pulses", "init_bounces"}
Takes == {"read", "reset"}
Places == Setups \union {"loop", "store", "run"} \union Takes

TypeOK ==
  /\ clock \in Times
  /\ since_read \in 0..MaxIteration
  /\ g_time \in DigitTimes
  /\ time_read \in Times
  /\ to_store \subseteq Digits
  /\ at \in Places
  /\ turn \in 1..(Len(Order) + 1)
  /\ interrupts \in BOOLEAN
  /\ attached \subseteq Counters
  /\ pending \subseteq Counters
  /\ rotate \in [Counters -> [change_time : DigitTimes, pulses : Counts, bounces : Counts]]
  /\ pulse_out \in [Counters -> Count]
  /\ edges \in [Counters -> Counts]
  /\ gap \in [Counters -> 0..TimeMod]
  /\ torn \in [Counters -> BOOLEAN]

\* The variables of the sketch start at zero.
Init ==
  /\ clock \in Times /\ since_read = 0
  /\ g_time = Split(0) /\ time_read = 0 /\ to_store = {}
  /\ at = "setup" /\ turn = 1
  /\ interrupts = TRUE /\ attached = {} /\ pending = {}
  /\ rotate = [c \in Counters |-> [change_time |-> Split(0), pulses |-> 0, bounces |-> 0]]
  /\ pulse_out = [c \in Counters |-> NoCount]
  /\ edges = [c \in Counters |-> 0]
  /\ gap = [c \in Counters |-> 0]
  /\ torn = [c \in Counters |-> FALSE]

-----------------------------------------------------------------------------
(* The clock, the gauges and the interrupt handlers.                       *)

Tick ==
  /\ since_read < MaxIteration
  /\ since_read' = since_read + 1
  /\ clock' = (clock + 1) % TimeMod
  /\ gap' = [c \in Counters |-> IF gap[c] < TimeMod THEN gap[c] + 1 ELSE TimeMod]
  /\ UNCHANGED <<loopVars, pending, rotate, edges, torn>>

\* A falling edge sets the flag of its interrupt; one that is set stays set.
Edge(c) ==
  /\ c \notin pending
  /\ pending' = pending \union {c}
  /\ UNCHANGED <<clock, since_read, loopVars, rotate, history>>

Elapsed(c) == (Value(g_time) - Value(rotate[c].change_time)) % TimeMod
Clean(c) == Elapsed(c) >= BounceTime[c]

\* The record of a counter is written.
Stored(c, time, pulses, bounces) ==
  rotate' = [rotate EXCEPT ![c] = [change_time |-> time, pulses |-> pulses, bounces |-> bounces]]

\* Mutant: a bounce does not put the time forward.
P_pulse_update_KeepsTime(c) ==
  IF Clean(c)
  THEN Stored(c, g_time, (rotate[c].pulses + 1) % PulseMod, rotate[c].bounces)
  ELSE Stored(c, rotate[c].change_time, rotate[c].pulses, (rotate[c].bounces + 1) % PulseMod)

P_pulse_update(c) ==
  IF Clean(c)
  THEN Stored(c, g_time, (rotate[c].pulses + 1) % PulseMod, rotate[c].bounces)
  ELSE Stored(c, g_time, rotate[c].pulses, (rotate[c].bounces + 1) % PulseMod)

\* drive_rotate_pulse_update and table_rotate_pulse_update.
rotate_pulse_update(c) ==
  /\ interrupts /\ c \in attached /\ c \in pending
  /\ P_pulse_update(c)
  /\ pending' = pending \ {c}
  /\ edges' = [edges EXCEPT ![c] = (@ + 1) % PulseMod]
  /\ gap' = [gap EXCEPT ![c] = 0]
  /\ torn' = [torn EXCEPT ![c] = at = "store" /\ to_store # Digits]
  /\ UNCHANGED <<clock, since_read, loopVars>>

-----------------------------------------------------------------------------
(* setup() and loop().                                                     *)

Goto(place, k) == at' = place /\ turn' = k

\* setup: the time; nothing is attached that could see it half stored.
SetupTime ==
  /\ at = "setup"
  /\ g_time' = Split(clock) /\ since_read' = 0
  /\ Goto("attach", 1)
  /\ UNCHANGED <<clock, time_read, to_store, interrupts, attached, pending, rotate, pulse_out, history>>

\* attachInterrupt, gauge by gauge, before the counters are initialised.
Attach ==
  /\ at = "attach"
  /\ attached' = attached \union {Order[turn]}
  /\ IF turn < Len(Order) THEN Goto("attach", turn + 1) ELSE Goto("init", 1)
  /\ UNCHANGED <<clock, since_read, g_time, time_read, to_store, interrupts, pending, rotate, pulse_out, history>>

\* Mutant: what was counted before the initialisation is left in the counter.
ResetPulses_Kept(c) == Stored(c, rotate[c].change_time, rotate[c].pulses, rotate[c].bounces)

\* The second store of P_pulses_init.
ResetPulses(c) == Stored(c, rotate[c].change_time, 0, rotate[c].bounces)

\* P_pulses_init, store by store; two of them end what was counted before.
P_pulses_init ==
  LET c == Order[turn] IN
  /\ \/ /\ at = "init"
        /\ Stored(c, g_time, rotate[c].pulses, rotate[c].bounces)
        /\ gap' = [gap EXCEPT ![c] = 0] /\ torn' = [torn EXCEPT ![c] = FALSE]
        /\ Goto("init_pulses", turn)
        /\ UNCHANGED edges
     \/ /\ at = "init_pulses"
        /\ ResetPulses(c)
        /\ edges' = [edges EXCEPT ![c] = (@ - rotate[c].pulses) % PulseMod]
        /\ Goto("init_bounces", turn)
        /\ UNCHANGED <<gap, torn>>
     \/ /\ at = "init_bounces"
        /\ Stored(c, rotate[c].change_time, rotate[c].pulses, 0)
        /\ edges' = [edges EXCEPT ![c] = (@ - rotate[c].bounces) % PulseMod]
        /\ IF turn < Len(Order) THEN Goto("init", turn + 1) ELSE Goto("loop", 1)
        /\ UNCHANGED <<gap, torn>>
  /\ UNCHANGED <<clock, since_read, g_time, time_read, to_store, interrupts, attached, pending, pulse_out>>

\* loop: millis() is called, then its answer is stored, digit by digit.
ReadClock ==
  /\ at = "loop"
  /\ time_read' = clock /\ since_read' = 0
  /\ to_store' = Digits
  /\ Goto("store", 1)
  /\ UNCHANGED <<clock, g_time, interrupts, attached, pending, rotate, pulse_out, history>>

StoreTime(d) ==
  /\ at = "store" /\ d \in to_store
  /\ g_time' = [g_time EXCEPT ![d] = Split(time_read)[d]]
  /\ to_store' = to_store \ {d}
  /\ IF to_store = {d} THEN Goto("run", 1) ELSE Goto("store", 1)
  /\ UNCHANGED <<clock, since_read, time_read, interrupts, attached, pending, rotate, pulse_out, history>>

\* The rest of an iteration in which the counters are not asked for.
Iterate ==
  /\ at = "run"
  /\ Goto("loop", 1)
  /\ UNCHANGED <<clock, since_read, g_time, time_read, to_store, interrupts, attached, pending, rotate, pulse_out, history>>

\* Mutants: the block leaves the interrupts on; leaves them off afterwards.
Lock_Off == UNCHANGED interrupts
Unlock_Never == UNCHANGED interrupts

\* ATOMIC_BLOCK(ATOMIC_FORCEON): cli, and sei at its end whatever it was before.
Lock == interrupts' = FALSE
Unlock == interrupts' = TRUE

\* P_pulses_get: P_pulses_all_get with reset, when the control task runs or
\* starts.
P_pulses_get ==
  /\ at = "run"
  /\ Lock
  /\ Goto("read", 1)
  /\ UNCHANGED <<clock, since_read, g_time, time_read, to_store, attached, pending, rotate, pulse_out, history>>

\* P_pulse_get, first half: the fields are copied.
P_pulse_get_Read ==
  LET c == Order[turn] IN
  /\ at = "read"
  /\ pulse_out' = [pulse_out EXCEPT ![c] =
       [pulses |-> rotate[c].pulses, bounces |-> rotate[c].bounces]]
  /\ Goto("reset", turn)
  /\ UNCHANGED <<clock, since_read, g_time, time_read, to_store, interrupts, attached, pending, rotate, history>>

\* P_pulse_get, second half.  After the last counter the block ends and the
\* copies go to the control task.
P_pulse_get_Reset ==
  LET c == Order[turn] IN
  /\ at = "reset"
  /\ Stored(c, rotate[c].change_time, 0, 0)
  /\ edges' = [edges EXCEPT ![c] = (@ - pulse_out[c].pulses - pulse_out[c].bounces) % PulseMod]
  /\ IF turn < Len(Order)
     THEN Goto("read", turn + 1) /\ UNCHANGED <<interrupts, pulse_out>>
     ELSE Goto("loop", 1) /\ Unlock /\ pulse_out' = [k \in Counters |-> NoCount]
  /\ UNCHANGED <<clock, since_read, g_time, time_read, to_store, attached, pending, gap, torn>>

Loop ==
  \/ SetupTime \/ Attach \/ P_pulses_init
  \/ ReadClock \/ \E d \in Digits : StoreTime(d)
  \/ Iterate \/ P_pulses_get \/ P_pulse_get_Read \/ P_pulse_get_Reset

Next ==
  \/ Tick
  \/ \E c \in Counters : Edge(c) \/ rotate_pulse_update(c)
  \/ Loop

\* The processor goes on, and takes a latched interrupt as soon as it may.
Spec ==
  /\ Init /\ [][Next]_vars
  /\ WF_vars(Loop)
  /\ \A c \in Counters : SF_vars(rotate_pulse_update(c))

-----------------------------------------------------------------------------
\* The counters whose initialisation is over.
Ready == IF at \in {"attach", "setup"} THEN {}
         ELSE IF at \in Setups THEN {Order[i] : i \in 1..(turn - 1)}
         ELSE Counters

\* Every edge handled is in the counters, has been handed to the control task,
\* once, or was reset by the initialisation: none falls between the copy and the
\* reset of P_pulse_get, and none counted before P_pulses_init outlives it.
EdgesAccounted ==
  \A c \in Counters : edges[c] = (rotate[c].pulses + rotate[c].bounces) % PulseMod

\* The counters and the loop that takes them agree, at every interrupt.
CountersKept == TypeOK /\ EdgesAccounted

\* An edge is counted clean only if the one before it was as long ago as the
\* debounce time, but for the two iterations g_time may be behind and for a torn
\* reading; and it is a bounce only if it was not longer ago than that, or a
\* whole turn of the clock.
EdgesJudged ==
  [][\A c \in Counters :
       c \in pending \ pending' /\ c \in Ready /\ ~torn[c] /\ ~torn'[c] =>
         /\ rotate'[c].pulses # rotate[c].pulses => gap[c] >= BounceTime[c] - MaxLag
         /\ rotate'[c].bounces # rotate[c].bounces =>
              \/ gap[c] < BounceTime[c] + MaxLag
              \/ gap[c] >= TimeMod - MaxLag]_vars

\* A latched edge is handled: the interrupts do not stay off.
EdgesHandled == \A c \in Counters : c \in pending ~> c \notin pending
=============================================================================
