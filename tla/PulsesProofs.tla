----------------------------- MODULE PulsesProofs -----------------------------
(***************************************************************************)
(* No edge of a pulse gauge is lost or counted twice, for any number of    *)
(* counters, width of the time and of the counts, and debounce times; and  *)
(* the windows a count can go to keep its last values, at the end.         *)
(*                                                                         *)
(* EdgesAccounted is not inductive: between the copy and the reset of      *)
(* P_pulse_get it holds only because the interrupts are off there, and     *)
(* because the copy is still what the counter says.  TakesKept adds both.  *)
(***************************************************************************)
EXTENDS Pulses, Windows, ListProofs, TLAPS

\* Between the copy and the reset of a counter nobody else touches it.
TakesKept ==
  /\ turn \in DOMAIN Order
  /\ interrupts <=> at \notin Takes
  /\ at = "reset" => pulse_out[Order[turn]] =
       [pulses |-> rotate[Order[turn]].pulses, bounces |-> rotate[Order[turn]].bounces]

IInv == CountersKept /\ TakesKept

-----------------------------------------------------------------------------
(* Counting modulo M. *)

LEMMA ModRange ==
  ASSUME NEW M \in Nat \ {0}, NEW x \in Int
  PROVE  x % M \in 0..(M - 1)
  OBVIOUS

LEMMA ModSmall ==
  ASSUME NEW M \in Nat \ {0}, NEW x \in 0..(M - 1)
  PROVE  x % M = x
  OBVIOUS

LEMMA ModOver ==
  ASSUME NEW M \in Nat \ {0}, NEW x \in M..(2 * M - 1)
  PROVE  x % M = x - M
  OBVIOUS

\* Counting one more in either counter counts one more in their sum.
LEMMA ModSucc ==
  ASSUME NEW M \in Nat \ {0}, NEW p \in 0..(M - 1), NEW b \in 0..(M - 1)
  PROVE  (((p + b) % M) + 1) % M = (((p + 1) % M) + b) % M
  <1>1. CASE p + b < M
    <2>1. (p + b) % M = p + b
      BY <1>1, ModSmall
    <2>2. CASE p + 1 = M
      <3>1. b = 0 /\ (p + 1) % M = 0
        BY <1>1, <2>2, ModOver
      <3> QED
        BY <2>1, <3>1, ModSmall
    <2>3. CASE p + 1 < M
      BY <2>1, <2>3, ModSmall
    <2> QED
      BY <2>2, <2>3
  <1>2. CASE p + b >= M
    <2>1. (p + b) % M = p + b - M /\ p + b - M + 1 < M
      BY <1>2, ModOver
    <2>2. (p + b - M + 1) % M = p + b - M + 1
      BY <1>2, <2>1, ModSmall
    <2>3. CASE p + 1 = M
      <3>1. (p + 1) % M = 0
        BY <2>3, ModOver
      <3> QED
        BY <2>1, <2>2, <2>3, <3>1, ModSmall
    <2>4. CASE p + 1 < M
      <3>1. p + 1 + b = p + b + 1 /\ (p + 1) % M = p + 1
        BY <2>4, ModSmall
      <3>2. (p + 1 + b) % M = p + 1 + b - M
        BY <1>2, <2>4, ModOver
      <3> QED
        BY <2>1, <2>2, <3>1, <3>2
    <2> QED
      BY <2>3, <2>4
  <1> QED
    BY <1>1, <1>2

\* What is taken is what was counted.
LEMMA ModTaken ==
  ASSUME NEW M \in Nat \ {0}, NEW p \in 0..(M - 1), NEW b \in 0..(M - 1)
  PROVE  (((p + b) % M) - p - b) % M = 0
  <1>1. CASE p + b < M
    BY <1>1, ModSmall
  <1>2. CASE p + b >= M
    <2>1. ((p + b) % M) - p - b = 0 - M
      BY <1>2, ModOver
    <2>2. (0 - M) % M = 0
      OBVIOUS
    <2> QED
      BY <2>1, <2>2
  <1> QED
    BY <1>1, <1>2

\* Resetting one counter takes what it held out of their sum.
LEMMA ModLeft ==
  ASSUME NEW M \in Nat \ {0}, NEW p \in 0..(M - 1), NEW b \in 0..(M - 1)
  PROVE  (((p + b) % M) - p) % M = b
  <1>1. CASE p + b < M
    BY <1>1, ModSmall
  <1>2. CASE p + b >= M
    <2>1. ((p + b) % M) - p = b - M
      BY <1>2, ModOver
    <2>2. (b - M) % M = b
      OBVIOUS
    <2> QED
      BY <2>1, <2>2
  <1> QED
    BY <1>1, <1>2

-----------------------------------------------------------------------------
(* The digits of a time. *)

LEMMA TimeModType == TimeMod \in Nat \ {0}
  BY PulsesAssumption DEF TimeMod

LEMMA SplitType ==
  ASSUME NEW t \in Times
  PROVE  Split(t) \in DigitTimes
  <1>1. Digit \in Nat \ {0} /\ t \in 0..(Digit * Digit - 1)
    BY PulsesAssumption DEF Times, TimeMod
  <1>2. t \div Digit \in 0..(Digit - 1) /\ t % Digit \in 0..(Digit - 1)
    BY <1>1
  <1> QED
    BY <1>2 DEF Split, DigitTimes

LEMMA CountsZero == 0 \in Counts
  <1>1. PulseMod \in Nat \ {0}
    BY PulsesAssumption
  <1> QED
    BY <1>1 DEF Counts

LEMMA OrderFacts ==
  /\ DOMAIN Order = 1..Len(Order) /\ Len(Order) \in Nat \ {0}
  /\ \A i \in DOMAIN Order : Order[i] \in Counters
  /\ \A c \in Counters : \E i \in DOMAIN Order : Order[i] = c
  /\ \A i, j \in DOMAIN Order : Order[i] = Order[j] => i = j
  BY PulsesAssumption DEF Counters

\* The counts are counted modulo PulseMod.
LEMMA CountsInt ==
  ASSUME NEW p \in Counts
  PROVE  p \in Int /\ p % PulseMod = p
  <1>1. PulseMod \in Nat \ {0}
    BY PulsesAssumption
  <1>2. p \in 0..(PulseMod - 1)
    BY DEF Counts
  <1> QED
    BY <1>1, <1>2, ModSmall

LEMMA CountsFacts ==
  ASSUME NEW p \in Counts, NEW b \in Counts
  PROVE  /\ (p + 1) % PulseMod \in Counts
         /\ (p + b) % PulseMod \in Counts
         /\ (((p + b) % PulseMod) + 1) % PulseMod = (((p + 1) % PulseMod) + b) % PulseMod
         /\ (((p + b) % PulseMod) - p - b) % PulseMod = 0
         /\ (((p + b) % PulseMod) - p) % PulseMod = b
  <1>1. PulseMod \in Nat \ {0}
    BY PulsesAssumption
  <1>2. p \in 0..(PulseMod - 1) /\ b \in 0..(PulseMod - 1) /\ p + 1 \in Int /\ p + b \in Int
    BY <1>1 DEF Counts
  <1>3. /\ (p + 1) % PulseMod \in 0..(PulseMod - 1)
        /\ (p + b) % PulseMod \in 0..(PulseMod - 1)
    BY <1>1, <1>2, ModRange
  <1>4. (((p + b) % PulseMod) + 1) % PulseMod = (((p + 1) % PulseMod) + b) % PulseMod
    BY <1>1, <1>2, ModSucc
  <1>5. (((p + b) % PulseMod) - p - b) % PulseMod = 0
    BY <1>1, <1>2, ModTaken
  <1>6. (((p + b) % PulseMod) - p) % PulseMod = b
    BY <1>1, <1>2, ModLeft
  <1> QED
    BY <1>3, <1>4, <1>5, <1>6 DEF Counts

-----------------------------------------------------------------------------
LEMMA InitIInv == Init => IInv
  <1> SUFFICES ASSUME Init PROVE IInv
    OBVIOUS
  <1>1. 0 \in Times /\ Split(0) \in DigitTimes /\ 0 \in Counts /\ 0 \in 0..TimeMod /\ 0 \in 0..MaxIteration
    BY TimeModType, SplitType, PulsesAssumption DEF Times, Counts
  <1>2. TypeOK
    BY <1>1, OrderFacts DEF Init, TypeOK, Places, Setups, NoCount, Count
  <1>3. EdgesAccounted
    <2>1. (0 + 0) % PulseMod = 0
      BY CountsZero, CountsInt
    <2> QED
      BY <2>1 DEF Init, EdgesAccounted
  <1>4. TakesKept
    BY OrderFacts DEF Init, TakesKept, Takes
  <1> QED
    BY <1>2, <1>3, <1>4 DEF IInv, CountersKept

-----------------------------------------------------------------------------
(* The world and the handlers. *)

LEMMA TickKeeps == ASSUME IInv, Tick PROVE IInv'
  <1>1. (clock + 1) % TimeMod \in Times
    <2>1. clock + 1 \in Int
      BY TimeModType DEF IInv, CountersKept, TypeOK, Times
    <2> QED
      BY <2>1, TimeModType, ModRange DEF Times
  <1>2. gap' \in [Counters -> 0..TimeMod]
    BY TimeModType DEF IInv, CountersKept, TypeOK, Tick
  <1>3. since_read' \in 0..MaxIteration
    BY PulsesAssumption DEF IInv, CountersKept, TypeOK, Tick
  <1>4. TypeOK'
    BY <1>1, <1>2, <1>3 DEF IInv, CountersKept, TypeOK, Tick, loopVars
  <1>5. EdgesAccounted' /\ TakesKept'
    BY DEF IInv, CountersKept, EdgesAccounted, TakesKept, Tick, loopVars
  <1> QED
    BY <1>4, <1>5 DEF IInv, CountersKept

LEMMA EdgeKeeps == ASSUME IInv, NEW c \in Counters, Edge(c) PROVE IInv'
  <1>1. TypeOK'
    BY DEF IInv, CountersKept, TypeOK, Edge, loopVars, history
  <1>2. EdgesAccounted' /\ TakesKept'
    BY DEF IInv, CountersKept, EdgesAccounted, TakesKept, Edge, loopVars, history
  <1> QED
    BY <1>1, <1>2 DEF IInv, CountersKept

\* A handler counts its edge in one of the two counters, and finds no copy made
\* that is not reset yet.
LEMMA HandlerKeeps ==
  ASSUME IInv, NEW c \in Counters, rotate_pulse_update(c)
  PROVE  IInv'
  <1> DEFINE p == rotate[c].pulses
             b == rotate[c].bounces
  <1>1. /\ rotate \in [Counters -> [change_time : DigitTimes, pulses : Counts, bounces : Counts]]
        /\ p \in Counts /\ b \in Counts /\ edges[c] \in Counts /\ g_time \in DigitTimes
    BY DEF IInv, CountersKept, TypeOK
  <1>2. (p + 1) % PulseMod \in Counts /\ (b + 1) % PulseMod \in Counts
        /\ (edges[c] + 1) % PulseMod \in Counts
    BY <1>1, CountsFacts
  <1>3. PICK more \in {"pulses", "bounces"} :
          rotate' = [rotate EXCEPT ![c] =
            [change_time |-> g_time,
             pulses |-> IF more = "pulses" THEN (p + 1) % PulseMod ELSE p,
             bounces |-> IF more = "bounces" THEN (b + 1) % PulseMod ELSE b]]
    <2>1. CASE Clean(c)
      BY <2>1, <1>1 DEF rotate_pulse_update, P_pulse_update, Stored
    <2>2. CASE ~Clean(c)
      BY <2>2, <1>1 DEF rotate_pulse_update, P_pulse_update, Stored
    <2> QED
      BY <2>1, <2>2
  <1>4. TypeOK'
    <2>1. rotate' \in [Counters -> [change_time : DigitTimes, pulses : Counts, bounces : Counts]]
      BY <1>1, <1>2, <1>3
    <2>2. edges' \in [Counters -> Counts] /\ gap' \in [Counters -> 0..TimeMod]
      BY <1>2, TimeModType DEF IInv, CountersKept, TypeOK, rotate_pulse_update
    <2>3. (at = "store" /\ to_store # Digits) \in BOOLEAN
      OBVIOUS
    <2>4. torn' \in [Counters -> BOOLEAN]
      BY <2>3 DEF IInv, CountersKept, TypeOK, rotate_pulse_update
    <2> QED
      BY <2>1, <2>2, <2>4 DEF IInv, CountersKept, TypeOK, rotate_pulse_update, loopVars
  <1>5. EdgesAccounted'
    <2>2. SUFFICES ASSUME NEW k \in Counters
                   PROVE  edges'[k] = (rotate'[k].pulses + rotate'[k].bounces) % PulseMod
      BY DEF EdgesAccounted
    <2>3. edges[k] = (rotate[k].pulses + rotate[k].bounces) % PulseMod
      BY DEF IInv, CountersKept, EdgesAccounted
    <2>4. CASE k # c
      BY <2>3, <2>4, <1>3, <1>1 DEF rotate_pulse_update, IInv, CountersKept, TypeOK
    <2>5. CASE k = c
      <3>1. edges'[k] = (((p + b) % PulseMod) + 1) % PulseMod
        BY <2>3, <2>5 DEF rotate_pulse_update, IInv, CountersKept, TypeOK
      <3>2. rotate'[k].pulses + rotate'[k].bounces =
              IF more = "pulses" THEN ((p + 1) % PulseMod) + b ELSE ((b + 1) % PulseMod) + p
        BY <1>3, <1>1, <1>2, <2>5 DEF Counts
      <3>3. /\ (((p + b) % PulseMod) + 1) % PulseMod = (((p + 1) % PulseMod) + b) % PulseMod
            /\ (((p + b) % PulseMod) + 1) % PulseMod = (((b + 1) % PulseMod) + p) % PulseMod
        <4>1. p \in Int /\ b \in Int
          BY <1>1, CountsInt
        <4>2. p + b = b + p
          BY <4>1
        <4> QED
          BY <4>2, <1>1, CountsFacts
      <3> QED
        BY <3>1, <3>2, <3>3
    <2> QED
      BY <2>4, <2>5
  <1>6. TakesKept'
    BY DEF rotate_pulse_update, loopVars, IInv, TakesKept, Takes
  <1> QED
    BY <1>4, <1>5, <1>6 DEF IInv, CountersKept

-----------------------------------------------------------------------------
(* setup() and loop(): the steps that take nothing from a counter. *)

LEMMA SameCounters ==
  ASSUME IInv, UNCHANGED <<edges, rotate>>
  PROVE  EdgesAccounted'
  BY DEF IInv, CountersKept, EdgesAccounted

LEMMA SetupTimeKeeps == ASSUME IInv, SetupTime PROVE IInv'
  <1>1. Split(clock) \in DigitTimes /\ 0 \in 0..MaxIteration
    BY SplitType, PulsesAssumption DEF IInv, CountersKept, TypeOK
  <1>2. TypeOK'
    BY <1>1, OrderFacts
       DEF IInv, CountersKept, TypeOK, SetupTime, Goto, Places, Setups, history
  <1>3. EdgesAccounted'
    BY SameCounters DEF SetupTime, history
  <1>4. TakesKept'
    BY OrderFacts DEF IInv, TakesKept, SetupTime, Goto, Takes
  <1> QED
    BY <1>2, <1>3, <1>4 DEF IInv, CountersKept

LEMMA AttachKeeps == ASSUME IInv, Attach PROVE IInv'
  <1>1. /\ Order[turn] \in Counters /\ at' \in {"attach", "init"}
        /\ turn' \in DOMAIN Order /\ (at' = "init" => turn' = 1)
    BY OrderFacts DEF IInv, TakesKept, Attach, Goto
  <1>2. TypeOK'
    BY <1>1, OrderFacts DEF IInv, CountersKept, TypeOK, Attach, Places, Setups, history
  <1>3. EdgesAccounted'
    BY SameCounters DEF Attach, history
  <1>4. TakesKept'
    BY <1>1 DEF IInv, TakesKept, Attach, Takes
  <1> QED
    BY <1>2, <1>3, <1>4 DEF IInv, CountersKept

LEMMA ReadClockKeeps == ASSUME IInv, ReadClock PROVE IInv'
  <1>1. TypeOK'
    BY OrderFacts, PulsesAssumption
       DEF IInv, CountersKept, TypeOK, ReadClock, Goto, Places, history
  <1>2. EdgesAccounted'
    BY SameCounters DEF ReadClock, history
  <1>3. TakesKept'
    BY OrderFacts DEF IInv, TakesKept, ReadClock, Goto, Takes
  <1> QED
    BY <1>1, <1>2, <1>3 DEF IInv, CountersKept

LEMMA StoreTimeKeeps == ASSUME IInv, NEW d \in Digits, StoreTime(d) PROVE IInv'
  <1>1. at' \in {"run", "store"} /\ turn' = 1
    BY DEF StoreTime, Goto
  <1>2. g_time' \in DigitTimes
    BY SplitType DEF IInv, CountersKept, TypeOK, StoreTime, DigitTimes
  <1>3. TypeOK'
    BY <1>1, <1>2, OrderFacts DEF IInv, CountersKept, TypeOK, StoreTime, Places, history
  <1>4. EdgesAccounted'
    BY SameCounters DEF StoreTime, history
  <1>5. TakesKept'
    BY <1>1, OrderFacts DEF IInv, TakesKept, StoreTime, Takes
  <1> QED
    BY <1>3, <1>4, <1>5 DEF IInv, CountersKept

LEMMA IterateKeeps == ASSUME IInv, Iterate \/ P_pulses_get PROVE IInv'
  <1>1. at = "run" /\ turn' = 1 /\ at' \in {"loop", "read"} /\ (at' = "read" <=> ~interrupts')
    <2>1. interrupts
      BY DEF IInv, TakesKept, Takes, Iterate, P_pulses_get
    <2> QED
      BY <2>1 DEF Iterate, P_pulses_get, Goto, Lock
  <1>2. interrupts' \in BOOLEAN
    BY DEF IInv, CountersKept, TypeOK, Iterate, P_pulses_get, Lock
  <1>3. TypeOK'
    BY <1>1, <1>2, OrderFacts
       DEF IInv, CountersKept, TypeOK, Iterate, P_pulses_get, Places, Takes, history
  <1>4. EdgesAccounted'
    BY SameCounters DEF Iterate, P_pulses_get, history
  <1>5. TakesKept'
    BY <1>1, OrderFacts DEF TakesKept, Takes
  <1> QED
    BY <1>3, <1>4, <1>5 DEF IInv, CountersKept

-----------------------------------------------------------------------------
(* The steps that write a counter. *)

\* Each of the two resets takes out of a counter what no longer counts.
LEMMA InitStepKeeps == ASSUME IInv, P_pulses_init PROVE IInv'
  <1> DEFINE c == Order[turn]
             Counter == [change_time : DigitTimes, pulses : Counts, bounces : Counts]
  <1>1. /\ c \in Counters /\ rotate \in [Counters -> Counter] /\ rotate[c] \in Counter
        /\ g_time \in DigitTimes /\ 0 \in Counts /\ 0 \in 0..TimeMod
        /\ turn \in 1..Len(Order)
    BY OrderFacts, TimeModType, CountsZero DEF IInv, CountersKept, TypeOK, TakesKept
  <1>2. /\ edges[c] = (rotate[c].pulses + rotate[c].bounces) % PulseMod
        /\ (edges[c] - rotate[c].pulses) % PulseMod = rotate[c].bounces
        /\ (edges[c] - rotate[c].bounces) % PulseMod = rotate[c].pulses
    <2>1. edges[c] = (rotate[c].pulses + rotate[c].bounces) % PulseMod
      BY <1>1 DEF IInv, CountersKept, EdgesAccounted
    <2>2. rotate[c].pulses \in Counts /\ rotate[c].bounces \in Counts
      BY <1>1
    <2>3. rotate[c].pulses + rotate[c].bounces = rotate[c].bounces + rotate[c].pulses
      BY <2>2, CountsInt
    <2>4. \A p, b \in Counts : (((p + b) % PulseMod) - p) % PulseMod = b
      BY CountsFacts
    <2> HIDE DEF c
    <2> QED
      BY <2>1, <2>2, <2>3, <2>4
  <1>3. at \in {"init", "init_pulses", "init_bounces"}
    BY DEF P_pulses_init
  <1>4. rotate' \in [Counters -> Counter] /\ edges' \in [Counters -> Counts]
        /\ gap' \in [Counters -> 0..TimeMod] /\ torn' \in [Counters -> BOOLEAN]
    <2>1. edges \in [Counters -> Counts] /\ gap \in [Counters -> 0..TimeMod]
          /\ torn \in [Counters -> BOOLEAN]
      BY DEF IInv, CountersKept, TypeOK
    <2>2. CASE at = "init"
      <3>1. /\ rotate' = [rotate EXCEPT ![c] = [change_time |-> g_time,
                            pulses |-> rotate[c].pulses, bounces |-> rotate[c].bounces]]
            /\ edges' = edges /\ gap' = [gap EXCEPT ![c] = 0] /\ torn' = [torn EXCEPT ![c] = FALSE]
        BY <2>2 DEF P_pulses_init, Stored
      <3>2. torn' \in [Counters -> BOOLEAN]
        BY <2>1, <3>1
      <3> QED
        BY <1>1, <2>1, <3>1, <3>2
    <2>3. CASE at = "init_pulses"
      <3>1. /\ rotate' = [rotate EXCEPT ![c] = [change_time |-> rotate[c].change_time,
                            pulses |-> 0, bounces |-> rotate[c].bounces]]
            /\ edges' = [edges EXCEPT ![c] = rotate[c].bounces] /\ gap' = gap /\ torn' = torn
        BY <1>2, <2>3 DEF P_pulses_init, ResetPulses, Stored
      <3> QED
        BY <1>1, <2>1, <3>1
    <2>4. CASE at = "init_bounces"
      <3>1. /\ rotate' = [rotate EXCEPT ![c] = [change_time |-> rotate[c].change_time,
                            pulses |-> rotate[c].pulses, bounces |-> 0]]
            /\ edges' = [edges EXCEPT ![c] = rotate[c].pulses] /\ gap' = gap /\ torn' = torn
        BY <1>2, <2>4 DEF P_pulses_init, Stored
      <3> QED
        BY <1>1, <2>1, <3>1
    <2> QED
      BY <1>3, <2>2, <2>3, <2>4
  <1>5. /\ at' \in {"init", "init_pulses", "init_bounces", "loop"} /\ turn' \in 1..Len(Order)
        /\ (at' # "loop" /\ at # "init_bounces" => turn' = turn)
        /\ (at = "init_bounces" /\ at' # "loop" => turn' = turn + 1)
        /\ (at' = "loop" => turn = Len(Order) /\ at = "init_bounces")
    <2>1. turn \in 1..Len(Order) /\ Len(Order) \in Nat
      BY <1>1, OrderFacts
    <2>2. CASE at = "init"
      <3>1. at' = "init_pulses" /\ turn' = turn
        BY <2>2 DEF P_pulses_init, Goto
      <3> QED
        BY <2>1, <2>2, <3>1
    <2>3. CASE at = "init_pulses"
      <3>1. at' = "init_bounces" /\ turn' = turn
        BY <2>3 DEF P_pulses_init, Goto
      <3> QED
        BY <2>1, <2>3, <3>1
    <2>4. CASE at = "init_bounces"
      <3>1. \/ turn < Len(Order) /\ at' = "init" /\ turn' = turn + 1
            \/ ~(turn < Len(Order)) /\ at' = "loop" /\ turn' = 1
        BY <2>4 DEF P_pulses_init, Goto
      <3> QED
        BY <2>1, <2>4, <3>1
    <2> QED
      BY <1>3, <2>2, <2>3, <2>4
  <1>6. TypeOK'
    <2>1. at' \in Places /\ turn' \in 1..(Len(Order) + 1)
      BY <1>5, OrderFacts DEF Places, Setups
    <2> QED
      BY <1>4, <2>1 DEF IInv, CountersKept, TypeOK, P_pulses_init
  <1>7. EdgesAccounted'
    <2>1. SUFFICES ASSUME NEW k \in Counters
                   PROVE  edges'[k] = (rotate'[k].pulses + rotate'[k].bounces) % PulseMod
      BY DEF EdgesAccounted
    <2>2. edges \in [Counters -> Counts]
          /\ edges[k] = (rotate[k].pulses + rotate[k].bounces) % PulseMod
      BY DEF IInv, CountersKept, TypeOK, EdgesAccounted
    <2>3. CASE k # c
      <3>1. edges'[k] = edges[k] /\ rotate'[k] = rotate[k]
        BY <2>3, <1>1, <2>2 DEF P_pulses_init, ResetPulses, Stored, history
      <3> QED
        BY <2>2, <3>1
    <2>4. CASE k = c /\ at = "init"
      <3>1. /\ edges' = edges /\ rotate'[c].pulses = rotate[c].pulses
            /\ rotate'[c].bounces = rotate[c].bounces
        BY <2>4, <1>1 DEF P_pulses_init, Stored
      <3> QED
        BY <2>2, <2>4, <3>1
    <2>5. CASE k = c /\ at = "init_pulses"
      <3>1. /\ edges'[c] = rotate[c].bounces
            /\ rotate'[c].pulses = 0 /\ rotate'[c].bounces = rotate[c].bounces
        BY <2>5, <1>1, <1>2, <2>2 DEF P_pulses_init, ResetPulses, Stored
      <3>2. 0 + rotate[c].bounces = rotate[c].bounces /\ rotate[c].bounces % PulseMod = rotate[c].bounces
        BY <1>1, CountsInt
      <3> QED
        BY <2>5, <3>1, <3>2
    <2>6. CASE k = c /\ at = "init_bounces"
      <3>1. /\ edges'[c] = rotate[c].pulses
            /\ rotate'[c].pulses = rotate[c].pulses /\ rotate'[c].bounces = 0
        BY <2>6, <1>1, <1>2, <2>2 DEF P_pulses_init, Stored
      <3>2. rotate[c].pulses + 0 = rotate[c].pulses /\ rotate[c].pulses % PulseMod = rotate[c].pulses
        BY <1>1, CountsInt
      <3> QED
        BY <2>6, <3>1, <3>2
    <2> QED
      BY <1>3, <2>3, <2>4, <2>5, <2>6
  <1>8. TakesKept'
    BY <1>3, <1>5, OrderFacts DEF IInv, TakesKept, Takes, P_pulses_init
  <1> QED
    BY <1>6, <1>7, <1>8 DEF IInv, CountersKept

LEMMA ReadKeeps == ASSUME IInv, P_pulse_get_Read PROVE IInv'
  <1> DEFINE c == Order[turn]
             copy == [pulses |-> rotate[c].pulses, bounces |-> rotate[c].bounces]
  <1>1. c \in Counters /\ copy \in Count
    BY OrderFacts DEF IInv, CountersKept, TypeOK, TakesKept, Count
  <1>2. pulse_out' = [pulse_out EXCEPT ![c] = copy] /\ at' = "reset" /\ turn' = turn
    BY DEF P_pulse_get_Read, Goto
  <1>3. TypeOK'
    BY <1>1, <1>2 DEF IInv, CountersKept, TypeOK, P_pulse_get_Read, Places, Takes, history
  <1>4. EdgesAccounted'
    BY SameCounters DEF P_pulse_get_Read, history
  <1>5. TakesKept'
    BY <1>1, <1>2 DEF IInv, CountersKept, TypeOK, TakesKept, P_pulse_get_Read, Takes
  <1> QED
    BY <1>3, <1>4, <1>5 DEF IInv, CountersKept

\* What leaves the counter is what the copy holds: every edge it had.
LEMMA ResetKeeps == ASSUME IInv, P_pulse_get_Reset PROVE IInv'
  <1> DEFINE c == Order[turn]
             Counter == [change_time : DigitTimes, pulses : Counts, bounces : Counts]
             p == rotate[c].pulses
             b == rotate[c].bounces
  <1>1. /\ c \in Counters /\ rotate \in [Counters -> Counter] /\ p \in Counts /\ b \in Counts
        /\ edges[c] \in Counts /\ 0 \in Counts /\ turn \in 1..Len(Order)
    BY OrderFacts, CountsZero DEF IInv, CountersKept, TypeOK, TakesKept
  <1>2. at = "reset" /\ pulse_out[c].pulses = p /\ pulse_out[c].bounces = b
    BY DEF P_pulse_get_Reset, IInv, TakesKept
  <1>3. edges[c] = (p + b) % PulseMod
    BY <1>1 DEF IInv, CountersKept, EdgesAccounted
  <1>4. edges' = [edges EXCEPT ![c] = 0]
    <2>1. edges' = [edges EXCEPT ![c] = (edges[c] - p - b) % PulseMod]
      BY <1>2 DEF P_pulse_get_Reset
    <2>2. (edges[c] - p - b) % PulseMod = 0
      <3>1. (((p + b) % PulseMod) - p - b) % PulseMod = 0
        BY <1>1, CountsFacts
      <3> QED
        BY <1>3, <3>1
    <2> QED
      BY <2>1, <2>2
  <1>5. rotate' = [rotate EXCEPT ![c] =
          [change_time |-> rotate[c].change_time, pulses |-> 0, bounces |-> 0]]
    BY DEF P_pulse_get_Reset, Stored
  <1>6. /\ at' \in {"read", "loop"} /\ turn' \in 1..Len(Order)
        /\ interrupts' \in BOOLEAN /\ (interrupts' <=> at' = "loop")
    <2>1. interrupts = FALSE
      BY <1>2 DEF IInv, CountersKept, TypeOK, TakesKept, Takes
    <2>2. CASE turn < Len(Order)
      <3>1. at' = "read" /\ turn' = turn + 1 /\ interrupts' = interrupts
        BY <2>2 DEF P_pulse_get_Reset, Goto
      <3>2. turn + 1 \in 1..Len(Order)
        BY <1>1, <2>2, OrderFacts
      <3> QED
        BY <2>1, <3>1, <3>2
    <2>3. CASE ~(turn < Len(Order))
      BY <1>1, <2>3, OrderFacts DEF P_pulse_get_Reset, Goto, Unlock
    <2> QED
      BY <2>2, <2>3
  <1>7. pulse_out' \in [Counters -> Count]
    BY <1>1 DEF P_pulse_get_Reset, IInv, CountersKept, TypeOK, NoCount, Count
  <1>8. TypeOK'
    <2>1. at' \in Places /\ turn' \in 1..(Len(Order) + 1)
      BY <1>6, OrderFacts DEF Places, Takes
    <2>2. /\ rotate' \in [Counters -> Counter]
          /\ edges' \in [Counters -> Counts]
      BY <1>1, <1>4, <1>5 DEF IInv, CountersKept, TypeOK
    <2> QED
      BY <1>6, <1>7, <2>1, <2>2 DEF IInv, CountersKept, TypeOK, P_pulse_get_Reset
  <1>9. EdgesAccounted'
    <2>1. SUFFICES ASSUME NEW k \in Counters
                   PROVE  edges'[k] = (rotate'[k].pulses + rotate'[k].bounces) % PulseMod
      BY DEF EdgesAccounted
    <2>2. CASE k = c
      <3>1. edges'[k] = 0 /\ rotate'[k].pulses = 0 /\ rotate'[k].bounces = 0
        BY <2>2, <1>1, <1>4, <1>5 DEF IInv, CountersKept, TypeOK
      <3>2. (0 + 0) % PulseMod = 0
        BY CountsZero, CountsInt
      <3> QED
        BY <3>1, <3>2
    <2>3. CASE k # c
      BY <2>3, <1>1, <1>2, <1>4, <1>5
      DEF IInv, CountersKept, TypeOK, EdgesAccounted
    <2> QED
      BY <2>2, <2>3
  <1>10. TakesKept'
    BY <1>6, OrderFacts DEF TakesKept, Takes
  <1> QED
    BY <1>8, <1>9, <1>10 DEF IInv, CountersKept

-----------------------------------------------------------------------------
LEMMA NextKeeps == IInv /\ [Next]_vars => IInv'
  <1> SUFFICES ASSUME IInv, [Next]_vars PROVE IInv'
    OBVIOUS
  <1>1. CASE Tick
    BY <1>1, TickKeeps
  <1>2. ASSUME NEW c \in Counters, Edge(c) \/ rotate_pulse_update(c) PROVE IInv'
    BY <1>2, EdgeKeeps, HandlerKeeps
  <1>3. CASE Loop
    BY <1>3, SetupTimeKeeps, AttachKeeps, InitStepKeeps, ReadClockKeeps, StoreTimeKeeps,
       IterateKeeps, ReadKeeps, ResetKeeps DEF Loop
  <1>4. CASE UNCHANGED vars
    <2>1. TypeOK'
      BY <1>4 DEF vars, loopVars, history, IInv, CountersKept, TypeOK
    <2>2. EdgesAccounted' /\ TakesKept'
      BY <1>4 DEF vars, loopVars, history, IInv, CountersKept, EdgesAccounted, TakesKept
    <2> QED
      BY <2>1, <2>2 DEF IInv, CountersKept
  <1> QED
    BY <1>1, <1>2, <1>3, <1>4 DEF Next

\* Every edge a handler has seen is in the counters, has been handed to the
\* control task once or was reset by the initialisation, wherever an interrupt
\* falls.
THEOREM CountersKeptHolds == Spec => []CountersKept
  <1>1. IInv => CountersKept
    BY DEF IInv
  <1> QED
    BY <1>1, InitIInv, NextKeeps, PTL DEF Spec

-----------------------------------------------------------------------------
(***************************************************************************)
(* How the interrupt handlers judge an edge, for any clock width, debounce *)
(* times and length of an iteration that PulsesAssumption allows.          *)
(*                                                                         *)
(* A handler knows the age of the last edge only as a difference of two    *)
(* wrapped times, each as old as the loop lets g_time become.  JudgeInv    *)
(* relates both to the clock: the age is right but for MaxLag, because     *)
(* g_time never goes back.                                                 *)
(***************************************************************************)

\* How long ago the clock showed t.
Age(t) == (clock - t) % TimeMod
Lag == Age(Value(g_time))

\* The time the loop has read, and how far g_time is behind while it is stored.
ClockRead ==
  /\ at # "store" => to_store = {}
  /\ at \notin {"setup", "store"} => Lag = since_read
  /\ at = "store" =>
       /\ Age(time_read) = since_read /\ to_store # {}
       /\ to_store = Digits => Lag >= since_read /\ Lag <= since_read + MaxIteration
       /\ \A d \in Digits \ to_store : g_time[d] = Split(time_read)[d]

\* The counters whose change_time has been set.
Timed == Ready \union (IF at \in {"init_pulses", "init_bounces"} THEN {Order[turn]} ELSE {})

\* The age of change_time is the time since the last edge, but for MaxLag, and
\* g_time has not gone back since.
LastEdge(c) ==
  LET age == Age(Value(rotate[c].change_time))
  IN  ~torn[c] /\ gap[c] < TimeMod - MaxLag =>
        /\ gap[c] <= age /\ age <= gap[c] + MaxLag
        /\ since_read <= age
        /\ at = "store" /\ to_store = Digits => Lag <= age

JudgeInv == ClockRead /\ \A c \in Timed : LastEdge(c)

-----------------------------------------------------------------------------
(* Differences of times. *)

LEMMA MinusIf ==
  ASSUME NEW M \in Nat \ {0}, NEW x \in 0..(M - 1), NEW y \in 0..(M - 1)
  PROVE  (x - y) % M = IF x >= y THEN x - y ELSE x - y + M
  OBVIOUS

LEMMA MinusSucc ==
  ASSUME NEW M \in Nat \ {0}, NEW x \in 0..(M - 1), NEW y \in 0..(M - 1),
         ((x - y) % M) + 1 < M
  PROVE  (((x + 1) % M) - y) % M = ((x - y) % M) + 1
  <1>1. CASE x + 1 = M
    <2>1. (x + 1) % M = 0 /\ x >= y
      BY <1>1, ModOver
    <2>2. (0 - y) % M = IF 0 >= y THEN 0 ELSE 0 - y + M
      BY MinusIf
    <2> QED
      BY <1>1, <2>1, <2>2, MinusIf
  <1>2. CASE x + 1 < M
    <2>1. (x + 1) % M = x + 1
      BY <1>2, ModSmall
    <2>2. (x + 1 - y) % M = IF x + 1 >= y THEN x + 1 - y ELSE x + 1 - y + M
      BY <1>2, MinusIf
    <2> QED
      BY <1>2, <2>1, <2>2, MinusIf
  <1> QED
    BY <1>1, <1>2

\* Of two times the later one is younger, and the ages differ as the times do.
LEMMA MinusAges ==
  ASSUME NEW M \in Nat \ {0}, NEW x \in 0..(M - 1), NEW t \in 0..(M - 1), NEW u \in 0..(M - 1),
         (x - u) % M >= (x - t) % M
  PROVE  (t - u) % M = ((x - u) % M) - ((x - t) % M)
  BY MinusIf

LEMMA LagFacts ==
  /\ MaxIteration \in Nat /\ MaxLag \in Nat /\ MaxLag = 2 * MaxIteration
  /\ MaxLag < TimeMod /\ 2 * MaxLag < TimeMod
  /\ \A c \in Counters : BounceTime[c] \in Nat /\ BounceTime[c] + 2 * MaxLag < TimeMod
  <1>1. MaxIteration \in Nat /\ MaxLag \in Nat /\ MaxLag = 2 * MaxIteration
    BY PulsesAssumption DEF MaxLag
  <1>2. \A c \in Counters : BounceTime[c] \in Nat /\ BounceTime[c] + 2 * MaxLag < TimeMod
    BY PulsesAssumption
  <1>3. Order[1] \in Counters
    BY OrderFacts
  <1> QED
    BY <1>1, <1>2, <1>3, TimeModType

LEMMA ValueType ==
  ASSUME NEW g \in DigitTimes
  PROVE  Value(g) \in Times
  <1> DEFINE hi == g["hi"]
             lo == g["lo"]
  <1>1. Digit \in Nat \ {0} /\ hi \in 0..(Digit - 1) /\ lo \in 0..(Digit - 1)
    BY PulsesAssumption DEF DigitTimes, Digits
  <1> HIDE DEF hi, lo
  <1>2. hi * Digit + lo \in 0..(Digit * Digit - 1)
    BY <1>1
  <1> QED
    BY <1>2 DEF Value, Times, TimeMod, hi, lo

LEMMA ValueSplit ==
  ASSUME NEW t \in Times
  PROVE  Value(Split(t)) = t
  <1>1. Digit \in Nat \ {0} /\ t \in Int
    BY PulsesAssumption, TimeModType DEF Times
  <1>2. t = Digit * (t \div Digit) + (t % Digit) /\ t \div Digit \in Int /\ t % Digit \in Int
    BY <1>1
  <1>3. Digit * (t \div Digit) = (t \div Digit) * Digit
    BY <1>1, <1>2
  <1>4. "hi" \in Digits /\ "lo" \in Digits
    BY DEF Digits
  <1>5. Split(t)["hi"] = t \div Digit /\ Split(t)["lo"] = t % Digit
    BY <1>4, Zenon DEF Split
  <1> QED
    BY <1>2, <1>3, <1>5, Zenon DEF Value

\* Ages, while the clock stands and when it moves on.
LEMMA AgeFacts ==
  ASSUME clock \in Times, NEW t \in Times
  PROVE  /\ Age(t) \in 0..(TimeMod - 1)
         /\ Age(clock) = 0
         /\ Age(t) + 1 < TimeMod => (((clock + 1) % TimeMod) - t) % TimeMod = Age(t) + 1
         /\ \A u \in Times : Age(u) >= Age(t) => (t - u) % TimeMod = Age(u) - Age(t)
  <1>1. /\ TimeMod \in Nat \ {0} /\ clock \in 0..(TimeMod - 1) /\ t \in 0..(TimeMod - 1)
        /\ clock - t \in Int /\ clock - clock = 0 /\ 0 \in 0..(TimeMod - 1)
    BY TimeModType DEF Times
  <1>2. (clock - t) % TimeMod \in 0..(TimeMod - 1)
    BY <1>1, ModRange
  <1>3. (clock - clock) % TimeMod = 0
    BY <1>1, ModSmall
  <1>4. ((clock - t) % TimeMod) + 1 < TimeMod =>
          (((clock + 1) % TimeMod) - t) % TimeMod = ((clock - t) % TimeMod) + 1
    BY <1>1, MinusSucc
  <1>6. ASSUME NEW u \in Times, Age(u) >= Age(t)
        PROVE  (t - u) % TimeMod = Age(u) - Age(t)
    <2>1. u \in 0..(TimeMod - 1) /\ (clock - u) % TimeMod >= (clock - t) % TimeMod
      BY <1>6 DEF Age, Times
    <2>2. (t - u) % TimeMod = ((clock - u) % TimeMod) - ((clock - t) % TimeMod)
      BY <2>1, <1>1, MinusAges
    <2> QED
      BY <2>2, Zenon DEF Age
  <1>7. /\ Age(t) \in 0..(TimeMod - 1) /\ Age(clock) = 0
        /\ Age(t) + 1 < TimeMod => (((clock + 1) % TimeMod) - t) % TimeMod = Age(t) + 1
    BY <1>2, <1>3, <1>4 DEF Age
  <1> QED
    BY <1>6, <1>7

-----------------------------------------------------------------------------
(* The types the lemmas below rest on. *)

Timing ==
  /\ clock \in Times /\ time_read \in Times /\ since_read \in 0..MaxIteration
  /\ g_time \in DigitTimes /\ Value(g_time) \in Times
  /\ gap \in [Counters -> 0..TimeMod] /\ torn \in [Counters -> BOOLEAN]
  /\ \A c \in Counters : /\ rotate[c].change_time \in DigitTimes
                         /\ Value(rotate[c].change_time) \in Times
  /\ to_store \subseteq Digits /\ Timed \subseteq Counters

LEMMA TimingHolds == IInv => Timing
  <1> SUFFICES ASSUME IInv PROVE Timing
    OBVIOUS
  <1>1. /\ clock \in Times /\ time_read \in Times /\ since_read \in 0..MaxIteration
        /\ g_time \in DigitTimes
        /\ gap \in [Counters -> 0..TimeMod] /\ torn \in [Counters -> BOOLEAN]
        /\ \A c \in Counters : rotate[c].change_time \in DigitTimes
        /\ to_store \subseteq Digits /\ turn \in DOMAIN Order
    BY DEF IInv, CountersKept, TypeOK, TakesKept
  <1>2. Timed \subseteq Counters
    BY <1>1, OrderFacts DEF Timed, Ready
  <1> QED
    BY <1>1, <1>2, ValueType DEF Timing

\* A step that leaves the clock and all times alone.
LEMMA StandKeeps ==
  ASSUME Timing, JudgeInv, Timed' \subseteq Timed,
         UNCHANGED <<clock, since_read, g_time, time_read, to_store, gap, torn>>,
         \A c \in Counters : rotate'[c].change_time = rotate[c].change_time,
         at' = at \/ (at \notin {"setup", "store"} /\ at' \notin {"setup", "store"})
  PROVE  JudgeInv'
  <1>1. ClockRead'
    BY DEF JudgeInv, ClockRead, Lag, Age
  <1>2. ASSUME NEW c \in Timed' PROVE LastEdge(c)'
    <2>1. c \in Counters /\ LastEdge(c)
      BY <1>2 DEF JudgeInv, Timing
    <2> QED
      BY <2>1 DEF LastEdge, Lag, Age
  <1> QED
    BY <1>1, <1>2 DEF JudgeInv

LEMMA InitJudgeInv == Init => JudgeInv
  <1> SUFFICES ASSUME Init PROVE JudgeInv
    OBVIOUS
  <1>1. at = "setup" /\ to_store = {}
    BY DEF Init
  <1>2. Timed = {}
    BY <1>1 DEF Timed, Ready
  <1> QED
    BY <1>1, <1>2 DEF JudgeInv, ClockRead

LEMMA TickJudge == ASSUME Timing, JudgeInv, Tick PROVE JudgeInv'
  <1>1. /\ since_read' = since_read + 1 /\ since_read < MaxIteration
        /\ clock' = (clock + 1) % TimeMod
        /\ \A c \in Counters : gap'[c] = IF gap[c] < TimeMod THEN gap[c] + 1 ELSE TimeMod
        /\ UNCHANGED <<g_time, time_read, to_store, at, turn, rotate, torn>>
    BY DEF Tick, loopVars
  <1>2. ASSUME NEW t \in Times, Age(t) + 1 < TimeMod
        PROVE  (clock' - t) % TimeMod = Age(t) + 1
    BY <1>2, <1>1, AgeFacts DEF Timing
  <1>3. since_read \in Nat /\ since_read + 1 <= MaxIteration
    BY <1>1, LagFacts DEF Timing
  <1>4. ClockRead'
    <2>1. to_store' = to_store /\ at' = at
      BY <1>1
    <2>2. ASSUME at \notin {"setup", "store"} PROVE Lag' = since_read'
      <3>1. Lag = since_read /\ Lag + 1 < TimeMod
        BY <2>2, <1>3, LagFacts, TimeModType DEF JudgeInv, ClockRead
      <3>2. (clock' - Value(g_time)) % TimeMod = Lag + 1
        BY <3>1, <1>2 DEF Timing, Lag
      <3> QED
        BY <3>1, <3>2, <1>1 DEF Lag, Age
    <2>3. ASSUME at = "store" PROVE Age(time_read)' = since_read'
      <3>1. Age(time_read) = since_read /\ Age(time_read) + 1 < TimeMod
        BY <2>3, <1>3, LagFacts, TimeModType DEF JudgeInv, ClockRead
      <3>2. (clock' - time_read) % TimeMod = Age(time_read) + 1
        BY <3>1, <1>2 DEF Timing
      <3> QED
        BY <3>1, <3>2, <1>1 DEF Age
    <2>4. ASSUME at = "store", to_store = Digits
          PROVE  Lag' >= since_read' /\ Lag' <= since_read' + MaxIteration
      <3>1. Lag >= since_read /\ Lag <= since_read + MaxIteration
        BY <2>4 DEF JudgeInv, ClockRead
      <3>2. Lag \in Nat
        BY AgeFacts, TimeModType DEF Timing, Lag
      <3>3. Lag + 1 < TimeMod
        BY <3>1, <3>2, <1>3, LagFacts, TimeModType
      <3>4. (clock' - Value(g_time)) % TimeMod = Lag + 1
        BY <3>3, <1>2 DEF Timing, Lag
      <3>5. Lag' = Lag + 1
        BY <3>4, <1>1 DEF Lag, Age
      <3> QED
        BY <3>1, <3>2, <3>5, <1>1, <1>3, LagFacts
    <2>5. ASSUME at = "store"
          PROVE  to_store # {} /\ \A d \in Digits \ to_store : g_time'[d] = Split(time_read')[d]
      BY <2>5, <1>1 DEF JudgeInv, ClockRead
    <2> QED
      BY <2>1, <2>2, <2>3, <2>4, <2>5 DEF JudgeInv, ClockRead
  <1>5. ASSUME NEW c \in Timed' PROVE LastEdge(c)'
    <2> DEFINE ct == Value(rotate[c].change_time)
    <2>1. c \in Timed /\ c \in Counters
      BY <1>1, <1>5 DEF Timed, Ready, Timing
    <2>2. SUFFICES ASSUME ~torn[c], gap'[c] < TimeMod - MaxLag
                   PROVE  /\ gap'[c] <= Age(ct)' /\ Age(ct)' <= gap'[c] + MaxLag
                          /\ since_read' <= Age(ct)'
                          /\ at = "store" /\ to_store = Digits => Lag' <= Age(ct)'
      BY <1>1 DEF LastEdge
    <2>3. gap[c] \in Nat /\ gap'[c] = gap[c] + 1 /\ gap[c] < TimeMod - MaxLag
      BY <2>1, <2>2, <1>1, LagFacts, TimeModType DEF Timing
    <2>4. /\ gap[c] <= Age(ct) /\ Age(ct) <= gap[c] + MaxLag /\ since_read <= Age(ct)
          /\ at = "store" /\ to_store = Digits => Lag <= Age(ct)
      BY <2>1, <2>2, <2>3 DEF JudgeInv, LastEdge
    <2>5. ct \in Times /\ Age(ct) \in Nat
      BY <2>1, AgeFacts, TimeModType DEF Timing
    <2> HIDE DEF ct
    <2>6. Age(ct) + 1 < TimeMod
      BY <2>2, <2>3, <2>4, <2>5, LagFacts, TimeModType
    <2>7. (clock' - ct) % TimeMod = Age(ct) + 1
      BY <2>5, <2>6, <1>2
    <2>8. Age(ct)' = Age(ct) + 1
      BY <2>7, <1>1 DEF Age, ct
    <2>9. at = "store" /\ to_store = Digits => Lag' = Lag + 1 /\ Lag \in Nat
      <3>1. SUFFICES ASSUME at = "store", to_store = Digits PROVE Lag' = Lag + 1 /\ Lag \in Nat
        OBVIOUS
      <3>2. Lag \in Nat /\ Value(g_time) \in Times
        BY AgeFacts, TimeModType DEF Timing, Lag
      <3>3. Lag + 1 < TimeMod
        BY <3>1, <3>2, <2>4, <2>5, <2>6, TimeModType
      <3>4. (clock' - Value(g_time)) % TimeMod = Lag + 1
        BY <3>2, <3>3, <1>2 DEF Lag
      <3> QED
        BY <3>2, <3>4, <1>1 DEF Lag, Age
    <2> QED
      BY <2>3, <2>4, <2>5, <2>8, <2>9, <1>1, <1>3, LagFacts
  <1> QED
    BY <1>4, <1>5 DEF JudgeInv

\* The place decides how far g_time is behind, when it is not half stored.
LEMMA LagBounds ==
  ASSUME Timing, JudgeInv, at # "setup", at = "store" => to_store = Digits
  PROVE  Lag \in 0..MaxLag /\ since_read <= Lag /\ (at # "store" => Lag = since_read)
  <1>1. CASE at # "store"
    BY <1>1, LagFacts DEF JudgeInv, ClockRead, Timing
  <1>2. CASE at = "store"
    <2>1. Lag >= since_read /\ Lag <= since_read + MaxIteration
      BY <1>2 DEF JudgeInv, ClockRead
    <2>2. Lag \in Nat
      BY AgeFacts, TimeModType DEF Timing, Lag
    <2> QED
      BY <1>2, <2>1, <2>2, LagFacts DEF Timing
  <1> QED
    BY <1>1, <1>2

\* A handler, like the initialisation, gives a counter the time of the loop.
LEMMA StampKeeps ==
  ASSUME Timing, JudgeInv, NEW c \in Counters,
         UNCHANGED <<clock, since_read, g_time, time_read, to_store>>,
         gap' = [gap EXCEPT ![c] = 0],
         \A k \in Counters \ {c} : torn'[k] = torn[k] /\ rotate'[k] = rotate[k],
         rotate'[c].change_time = g_time,
         ~torn'[c] /\ at = "store" => to_store = Digits,
         Timed' \subseteq Timed \union {c}, at # "setup",
         at' = at \/ (at \notin {"setup", "store"} /\ at' \notin {"setup", "store"})
  PROVE  JudgeInv'
  <1>1. ClockRead'
    BY DEF JudgeInv, ClockRead, Lag, Age
  <1>2. ASSUME NEW k \in Timed', k # c PROVE LastEdge(k)'
    <2>1. k \in Counters \ {c} /\ LastEdge(k) /\ gap'[k] = gap[k]
      BY <1>2 DEF JudgeInv, Timing
    <2> QED
      BY <2>1 DEF LastEdge, Lag, Age
  <1>3. LastEdge(c)'
    <2>1. Age(Value(rotate[c].change_time))' = Lag'
      BY DEF Lag, Age
    <2>2. Lag' = Lag /\ gap'[c] = 0 /\ since_read' = since_read
      BY DEF Lag, Age, Timing
    <2>3. ~torn'[c] => Lag \in 0..MaxLag /\ since_read <= Lag
      BY LagBounds
    <2>4. ~torn'[c] => /\ gap'[c] <= Lag' /\ Lag' <= gap'[c] + MaxLag
                       /\ since_read' <= Lag' /\ Lag' <= Lag'
      BY <2>2, <2>3, LagFacts
    <2> QED
      BY <2>1, <2>4 DEF LastEdge
  <1> QED
    BY <1>1, <1>2, <1>3 DEF JudgeInv

LEMMA HandlerJudge ==
  ASSUME IInv, JudgeInv, NEW c \in Counters, rotate_pulse_update(c)
  PROVE  JudgeInv'
  <1>1. Timing
    BY TimingHolds
  <1>2. CASE at = "setup"
    <2>1. ClockRead'
      BY <1>2 DEF JudgeInv, ClockRead, rotate_pulse_update, loopVars
    <2>2. Timed' = {}
      BY <1>2 DEF rotate_pulse_update, loopVars, Timed, Ready
    <2> QED
      BY <2>1, <2>2 DEF JudgeInv
  <1>3. CASE at # "setup"
    <2>1. /\ rotate'[c].change_time = g_time
          /\ \A k \in Counters \ {c} : rotate'[k] = rotate[k]
      BY DEF rotate_pulse_update, P_pulse_update, Stored, IInv, CountersKept, TypeOK
    <2>2. /\ torn' = [torn EXCEPT ![c] = at = "store" /\ to_store # Digits]
          /\ gap' = [gap EXCEPT ![c] = 0]
          /\ UNCHANGED <<clock, since_read, g_time, time_read, to_store, at>> /\ Timed' = Timed
      BY DEF rotate_pulse_update, loopVars, Timed, Ready
    <2>3. /\ \A k \in Counters \ {c} : torn'[k] = torn[k]
          /\ ~torn'[c] /\ at = "store" => to_store = Digits
      BY <1>1, <2>2 DEF Timing
    <2> QED
      BY <1>1, <1>3, <2>1, <2>2, <2>3, StampKeeps
  <1> QED
    BY <1>2, <1>3

-----------------------------------------------------------------------------
(* The loop: the time is read, stored part by part, and never put back. *)

LEMMA SetupTimeJudge == ASSUME Timing, JudgeInv, SetupTime PROVE JudgeInv'
  <1>1. at' = "attach" /\ g_time' = Split(clock) /\ since_read' = 0 /\ clock' = clock
        /\ to_store' = {}
    BY DEF SetupTime, Goto, JudgeInv, ClockRead
  <1>2. Value(g_time') = clock /\ Age(clock) = 0
    BY <1>1, ValueSplit, AgeFacts DEF Timing
  <1>3. Lag' = 0
    BY <1>1, <1>2 DEF Lag, Age
  <1>4. Timed' = {}
    BY <1>1 DEF Timed, Ready
  <1> QED
    BY <1>1, <1>3, <1>4 DEF JudgeInv, ClockRead

LEMMA ReadClockJudge == ASSUME Timing, JudgeInv, ReadClock PROVE JudgeInv'
  <1>1. /\ at = "loop" /\ at' = "store" /\ time_read' = clock /\ since_read' = 0
        /\ to_store' = Digits /\ UNCHANGED <<clock, g_time, rotate, gap, torn>>
    BY DEF ReadClock, Goto, history
  <1>2. Lag' = Lag /\ Lag \in 0..MaxLag /\ Lag = since_read /\ Lag \in 0..MaxIteration
    <2>1. Lag' = Lag
      BY <1>1 DEF Lag, Age
    <2> QED
      BY <1>1, <2>1, LagBounds DEF Timing
  <1>3. ClockRead'
    <2>1. Age(time_read)' = 0
      BY <1>1, AgeFacts DEF Timing, Age
    <2>2. Lag' >= since_read' /\ Lag' <= since_read' + MaxIteration
      BY <1>1, <1>2, LagFacts
    <2> QED
      BY <1>1, <2>1, <2>2 DEF ClockRead, Digits
  <1>4. ASSUME NEW c \in Timed' PROVE LastEdge(c)'
    <2>1. c \in Timed
      BY <1>1, <1>4 DEF Timed, Ready, Setups
    <2>2. c \in Counters /\ LastEdge(c)
      BY <2>1 DEF JudgeInv, Timing
    <2>3. Age(Value(rotate[c].change_time))' = Age(Value(rotate[c].change_time))
      BY <1>1 DEF Age
    <2>4. Age(Value(rotate[c].change_time)) \in Nat
      BY <2>2, AgeFacts, TimeModType DEF Timing
    <2>5. ~torn[c] /\ gap[c] < TimeMod - MaxLag =>
            /\ gap[c] <= Age(Value(rotate[c].change_time))
            /\ Age(Value(rotate[c].change_time)) <= gap[c] + MaxLag
            /\ since_read <= Age(Value(rotate[c].change_time))
      BY <2>2 DEF LastEdge
    <2> QED
      BY <1>1, <1>2, <2>3, <2>4, <2>5 DEF LastEdge
  <1> QED
    BY <1>3, <1>4 DEF JudgeInv

LEMMA StoreTimeJudge ==
  ASSUME Timing, JudgeInv, NEW d \in Digits, StoreTime(d)
  PROVE  JudgeInv'
  <1>1. /\ at = "store" /\ d \in to_store /\ to_store' = to_store \ {d}
        /\ g_time' = [g_time EXCEPT ![d] = Split(time_read)[d]]
        /\ at' = IF to_store = {d} THEN "run" ELSE "store"
        /\ UNCHANGED <<clock, since_read, time_read, rotate, gap, torn>>
    BY DEF StoreTime, Goto, history
  <1>2. Age(time_read) = since_read /\ \A e \in Digits \ to_store' : g_time'[e] = Split(time_read)[e]
    <2>1. Age(time_read) = since_read /\ \A e \in Digits \ to_store : g_time[e] = Split(time_read)[e]
      BY <1>1 DEF JudgeInv, ClockRead
    <2>2. g_time'[d] = Split(time_read)[d] /\ \A e \in Digits \ {d} : g_time'[e] = g_time[e]
      BY <1>1 DEF Timing, DigitTimes
    <2> QED
      BY <1>1, <2>1, <2>2
  <1>3. ASSUME at' = "run" PROVE to_store' = {} /\ Lag' = since_read
    <2>1. to_store' = {}
      BY <1>1, <1>3
    <2>2. g_time' = Split(time_read)
      BY <1>1, <1>2, <2>1 DEF Timing, DigitTimes, Split
    <2>3. Value(g_time)' = time_read
      BY <2>2, ValueSplit DEF Timing
    <2> QED
      BY <1>1, <1>2, <2>1, <2>3 DEF Lag, Age
  <1>4. ClockRead'
    <2>1. at' = "store" => to_store' # {} /\ to_store' # Digits
      BY <1>1 DEF Timing
    <2>2. Age(time_read)' = Age(time_read)
      BY <1>1 DEF Age
    <2> QED
      BY <1>1, <1>2, <1>3, <2>1, <2>2 DEF ClockRead
  <1>5. ASSUME NEW c \in Timed' PROVE LastEdge(c)'
    <2>1. c \in Timed
      BY <1>1, <1>5 DEF Timed, Ready, Setups
    <2>2. LastEdge(c)
      BY <2>1 DEF JudgeInv
    <2>3. Age(Value(rotate[c].change_time))' = Age(Value(rotate[c].change_time))
      BY <1>1 DEF Age
    <2>4. ~(at' = "store" /\ to_store' = Digits)
      BY <1>1
    <2> QED
      BY <1>1, <2>2, <2>3, <2>4 DEF LastEdge
  <1> QED
    BY <1>4, <1>5 DEF JudgeInv

LEMMA InitStepJudge == ASSUME IInv, JudgeInv, P_pulses_init PROVE JudgeInv'
  <1> DEFINE c == Order[turn]
  <1>1. /\ Timing /\ c \in Counters /\ rotate \in [Counters -> [change_time : DigitTimes,
                                                     pulses : Counts, bounces : Counts]]
        /\ turn \in 1..Len(Order)
    BY TimingHolds, OrderFacts DEF IInv, CountersKept, TypeOK, TakesKept
  <1>2. UNCHANGED <<clock, since_read, g_time, time_read, to_store>>
    BY DEF P_pulses_init
  <1>3. CASE at = "init"
    <2>1. /\ rotate' = [rotate EXCEPT ![c] = [change_time |-> g_time,
                          pulses |-> rotate[c].pulses, bounces |-> rotate[c].bounces]]
          /\ gap' = [gap EXCEPT ![c] = 0] /\ torn' = [torn EXCEPT ![c] = FALSE]
          /\ at' = "init_pulses" /\ turn' = turn
      BY <1>3 DEF P_pulses_init, Stored, Goto
    <2>2. /\ rotate'[c].change_time = g_time
          /\ \A k \in Counters \ {c} : rotate'[k] = rotate[k] /\ torn'[k] = torn[k]
      BY <1>1, <2>1 DEF Timing
    <2>3. Timed' \subseteq Timed \union {c}
      BY <1>3, <2>1 DEF Timed, Ready, Setups
    <2> QED
      BY <1>1, <1>2, <1>3, <2>1, <2>2, <2>3, StampKeeps
  <1>4. CASE at \in {"init_pulses", "init_bounces"}
    <2>1. /\ UNCHANGED <<gap, torn>>
          /\ \A k \in Counters : rotate'[k].change_time = rotate[k].change_time
      BY <1>1, <1>4 DEF P_pulses_init, ResetPulses, Stored
    <2>2. /\ at' \in {"init", "init_bounces", "loop"}
          /\ (at' = "init_bounces" => at = "init_pulses" /\ turn' = turn)
          /\ (at' = "init" => at = "init_bounces" /\ turn' = turn + 1)
          /\ (at' = "loop" => at = "init_bounces" /\ turn = Len(Order))
      <3>1. turn \in 1..Len(Order) /\ Len(Order) \in Nat
        BY <1>1, OrderFacts
      <3>2. CASE at = "init_pulses"
        BY <3>2 DEF P_pulses_init, Goto
      <3>3. CASE at = "init_bounces"
        <4>1. \/ turn < Len(Order) /\ at' = "init" /\ turn' = turn + 1
              \/ ~(turn < Len(Order)) /\ at' = "loop" /\ turn' = 1
          BY <3>3 DEF P_pulses_init, Goto
        <4> QED
          BY <3>1, <3>3, <4>1
      <3> QED
        BY <1>4, <3>2, <3>3
    <2>3. Timed' \subseteq Timed
      <3>1. CASE at' = "init_bounces"
        BY <2>2, <3>1, <1>4 DEF Timed, Ready, Setups
      <3>2. CASE at' \in {"init", "loop"}
        <4>1. Timed' \subseteq {Order[i] : i \in 1..turn}
          <5>1. CASE at' = "init"
            <6>1. turn' - 1 = turn
              BY <1>1, <2>2, <5>1
            <6>2. Timed' = {Order[i] : i \in 1..(turn' - 1)}
              BY <5>1 DEF Timed, Ready, Setups
            <6> QED
              BY <6>1, <6>2
          <5>2. CASE at' = "loop"
            <6>1. Timed' = Counters /\ turn = Len(Order)
              BY <2>2, <5>2 DEF Timed, Ready, Setups
            <6> QED
              BY <6>1, OrderFacts
          <5> QED
            BY <3>2, <5>1, <5>2
        <4>2. {Order[i] : i \in 1..turn} \subseteq {Order[i] : i \in 1..(turn - 1)} \union {c}
          BY <1>1
        <4>3. Timed = {Order[i] : i \in 1..(turn - 1)} \union {c}
          BY <1>4 DEF Timed, Ready, Setups
        <4> QED
          BY <4>1, <4>2, <4>3
      <3> QED
        BY <2>2, <3>1, <3>2
    <2> QED
      BY <1>1, <1>2, <1>4, <2>1, <2>2, <2>3, StandKeeps
  <1> QED
    BY <1>3, <1>4 DEF P_pulses_init

\* The steps between which no time changes.
LEMMA OthersJudge ==
  ASSUME IInv, JudgeInv,
         \/ \E c \in Counters : Edge(c)
         \/ Attach \/ Iterate \/ P_pulses_get \/ P_pulse_get_Read \/ P_pulse_get_Reset
         \/ UNCHANGED vars
  PROVE  JudgeInv'
  <1>1. /\ Timing /\ rotate \in [Counters -> [change_time : DigitTimes,
                                              pulses : Counts, bounces : Counts]]
        /\ Order[turn] \in Counters
    BY TimingHolds, OrderFacts DEF IInv, CountersKept, TypeOK, TakesKept
  <1>2. CASE (\E c \in Counters : Edge(c)) \/ UNCHANGED vars
    <2>1. /\ UNCHANGED <<clock, since_read, g_time, time_read, to_store, gap, torn, at, turn, rotate>>
          /\ Timed' = Timed
      BY <1>2 DEF Edge, vars, loopVars, history, Timed, Ready
    <2> QED
      BY <1>1, <2>1, StandKeeps
  <1>3. CASE Attach
    <2>1. /\ at = "attach" /\ at' \in {"attach", "init"} /\ (at' = "init" => turn' = 1)
          /\ UNCHANGED <<clock, since_read, g_time, time_read, to_store, gap, torn, rotate>>
      BY <1>3 DEF Attach, Goto, history
    <2>2. Timed' = {}
      BY <2>1 DEF Timed, Ready, Setups
    <2> QED
      BY <1>1, <2>1, <2>2, StandKeeps
  <1>4. CASE Iterate \/ P_pulses_get \/ P_pulse_get_Read \/ P_pulse_get_Reset
    <2>1. /\ at \in {"run", "read", "reset"} /\ at' \in {"loop", "read", "reset"}
          /\ UNCHANGED <<clock, since_read, g_time, time_read, to_store, gap, torn>>
      BY <1>4 DEF Iterate, P_pulses_get, P_pulse_get_Read, P_pulse_get_Reset, Goto, history
    <2>2. \A k \in Counters : rotate'[k].change_time = rotate[k].change_time
      BY <1>1, <1>4 DEF Iterate, P_pulses_get, P_pulse_get_Read, P_pulse_get_Reset, Stored
    <2>3. Timed' = Timed
      BY <2>1 DEF Timed, Ready, Setups
    <2> QED
      BY <1>1, <2>1, <2>2, <2>3, StandKeeps
  <1> QED
    BY <1>2, <1>3, <1>4

LEMMA NextJudge == IInv /\ JudgeInv /\ [Next]_vars => JudgeInv'
  <1> SUFFICES ASSUME IInv, JudgeInv, [Next]_vars PROVE JudgeInv'
    OBVIOUS
  <1>1. Timing
    BY TimingHolds
  <1>2. CASE Tick
    BY <1>1, <1>2, TickJudge
  <1>3. ASSUME NEW c \in Counters, rotate_pulse_update(c) PROVE JudgeInv'
    BY <1>3, HandlerJudge
  <1>4. CASE SetupTime \/ ReadClock \/ \E d \in Digits : StoreTime(d)
    BY <1>1, <1>4, SetupTimeJudge, ReadClockJudge, StoreTimeJudge
  <1>5. CASE P_pulses_init
    BY <1>5, InitStepJudge
  <1>6. CASE \/ \E c \in Counters : Edge(c)
             \/ Attach \/ Iterate \/ P_pulses_get \/ P_pulse_get_Read \/ P_pulse_get_Reset
             \/ UNCHANGED vars
    BY <1>6, OthersJudge
  <1> QED
    BY <1>2, <1>3, <1>4, <1>5, <1>6 DEF Next, Loop

-----------------------------------------------------------------------------
(* The judgement. *)

\* What a handler takes for the time since the last edge is that time, but for
\* MaxLag.
LEMMA ElapsedIsGap ==
  ASSUME IInv, JudgeInv, NEW c \in Ready, ~torn[c], at = "store" => to_store = Digits,
         gap[c] < TimeMod - MaxLag
  PROVE  Elapsed(c) \in Nat /\ Elapsed(c) <= gap[c] + MaxLag /\ gap[c] <= Elapsed(c) + MaxLag
  <1> DEFINE ct == Value(rotate[c].change_time)
  <1>1. Timing /\ c \in Timed /\ c \in Counters /\ at # "setup" /\ gap[c] \in Nat
    BY TimingHolds, TimeModType DEF Timed, Timing, Ready
  <1>2. /\ gap[c] <= Age(ct) /\ Age(ct) <= gap[c] + MaxLag /\ since_read <= Age(ct)
        /\ at = "store" /\ to_store = Digits => Lag <= Age(ct)
    BY <1>1 DEF JudgeInv, LastEdge
  <1>3. Lag \in 0..MaxLag /\ (at # "store" => Lag = since_read)
    BY <1>1, LagBounds
  <1>4. ct \in Times /\ Age(ct) \in Nat
    BY <1>1, AgeFacts, TimeModType DEF Timing
  <1>5. Age(ct) >= Lag
    BY <1>2, <1>3, <1>4, LagFacts
  <1>6. (Value(g_time) - ct) % TimeMod = Age(ct) - Lag
    BY <1>1, <1>4, <1>5, AgeFacts DEF Timing, Lag
  <1>7. Elapsed(c) = Age(ct) - Lag
    BY <1>6 DEF Elapsed
  <1> HIDE DEF ct
  <1> QED
    BY <1>1, <1>2, <1>3, <1>4, <1>5, <1>7, LagFacts

\* No edge is taken for a pulse too soon after the one before it, none for a
\* bounce too late, up to the two iterations g_time may be behind.
THEOREM EdgesJudgedHolds == Spec => EdgesJudged
  <1>1. ASSUME IInv, JudgeInv, [Next]_vars,
               NEW c \in Counters, c \in pending \ pending', c \in Ready, ~torn[c], ~torn'[c]
        PROVE  /\ rotate'[c].pulses # rotate[c].pulses => gap[c] >= BounceTime[c] - MaxLag
               /\ rotate'[c].bounces # rotate[c].bounces =>
                    \/ gap[c] < BounceTime[c] + MaxLag
                    \/ gap[c] >= TimeMod - MaxLag
    <2>1. rotate_pulse_update(c)
      <3>1. PICK k \in Counters : rotate_pulse_update(k)
        BY <1>1 DEF Next, Loop, Tick, Edge, SetupTime, Attach, P_pulses_init, ReadClock, StoreTime,
           Iterate, P_pulses_get, P_pulse_get_Read, P_pulse_get_Reset, vars
      <3>2. pending' = pending \ {k}
        BY <3>1 DEF rotate_pulse_update
      <3> QED
        BY <1>1, <3>1, <3>2
    <2>2. /\ Timing /\ c \in Counters /\ gap[c] \in Nat
          /\ rotate \in [Counters -> [change_time : DigitTimes, pulses : Counts, bounces : Counts]]
      BY <1>1, TimingHolds, TimeModType DEF Timing, IInv, CountersKept, TypeOK
    <2>3. at = "store" => to_store = Digits
      BY <1>1, <2>1, <2>2 DEF rotate_pulse_update, Timing
    <2>4. gap[c] < TimeMod - MaxLag =>
            Elapsed(c) \in Nat /\ Elapsed(c) <= gap[c] + MaxLag /\ gap[c] <= Elapsed(c) + MaxLag
      BY <1>1, <2>3, ElapsedIsGap
    <2>5. /\ rotate'[c].pulses # rotate[c].pulses => Elapsed(c) >= BounceTime[c]
          /\ rotate'[c].bounces # rotate[c].bounces => ~(Elapsed(c) >= BounceTime[c])
      BY <2>1, <2>2 DEF rotate_pulse_update, P_pulse_update, Stored, Clean
    <2> QED
      BY <2>2, <2>4, <2>5, LagFacts, TimeModType
  <1>2. IInv /\ JudgeInv /\ [Next]_vars =>
          [\A c \in Counters :
             c \in pending \ pending' /\ c \in Ready /\ ~torn[c] /\ ~torn'[c] =>
               /\ rotate'[c].pulses # rotate[c].pulses => gap[c] >= BounceTime[c] - MaxLag
               /\ rotate'[c].bounces # rotate[c].bounces =>
                    \/ gap[c] < BounceTime[c] + MaxLag
                    \/ gap[c] >= TimeMod - MaxLag]_vars
    BY <1>1
  <1>3. Spec => [](IInv /\ JudgeInv)
    BY InitIInv, InitJudgeInv, NextKeeps, NextJudge, PTL DEF Spec
  <1> QED
    BY <1>2, <1>3, PTL DEF Spec, EdgesJudged

-----------------------------------------------------------------------------
(***************************************************************************)
(* The windows the counts of a period can go to.  That a sum or an order   *)
(* comes out right is not inductive by itself: the proof carries which     *)
(* slot holds which of the last values, and that the slots as they stand   *)
(* have the total of the window, wherever the ring is cut.                 *)
(***************************************************************************)

(* Adding before or after the unsigned sum wraps is the same. *)

LEMMA RestAdded ==
  ASSUME NEW M \in Nat \ {0}, NEW a \in Int, NEW b \in Int
  PROVE  ((a % M) + b) % M = (a + b) % M
  <1> DEFINE p == a \div M
             r == a % M
             q == (r + b) \div M
             t == (r + b) % M
  <1>1. p \in Int /\ r \in 0..(M - 1) /\ a = M * p + r
    OBVIOUS
  <1>2. q \in Int /\ t \in 0..(M - 1) /\ r + b = M * q + t
    OBVIOUS
  <1> HIDE DEF p, r, q
  <1>3. t \in 0..(M - 1)
    BY <1>2
  <1> HIDE DEF t
  <1>4. a + b = M * (p + q) + t /\ a + b \in Int /\ p + q \in Int
    <2>1. M * (p + q) = M * p + M * q
      BY <1>1, <1>2
    <2> QED
      BY <1>1, <1>2, <2>1
  <1>5. (a + b) % M = t
    BY <1>3, <1>4, RestOf
  <1> QED
    BY <1>5 DEF t, r

-----------------------------------------------------------------------------
(***************************************************************************)
(* A ring of slots: `next' is the slot the next value goes to, so the slot *)
(* d back from it holds the d-th value back.                               *)
(***************************************************************************)
NextSlot(i) == IF i + 1 >= Capacity THEN 0 ELSE i + 1
BackFrom(i, d) == IF i >= d THEN i - d ELSE i - d + Capacity
Held(items, next, s) == \A k \in 1..Len(s) : items[BackFrom(next, Len(s) + 1 - k)] = s[k]

LEMMA SlotStep ==
  ASSUME NEW i \in Slots
  PROVE  /\ NextSlot(i) \in Slots /\ BackFrom(NextSlot(i), 1) = i
         /\ \A d \in 1..Capacity : BackFrom(i, d) \in Slots
         /\ \A d \in 2..Capacity : /\ BackFrom(NextSlot(i), d) = BackFrom(i, d - 1)
                                   /\ BackFrom(i, d - 1) # i
  BY FastSumAssumption DEF Slots, NextSlot, BackFrom

LEMMA ItemsAreNumbers ==
  ASSUME NEW s \in Seq(Items)
  PROVE  s \in Seq(Int) /\ \A k \in 1..Len(s) : s[k] \in Nat
  <1>1. Len(s) \in Nat /\ s \in [1..Len(s) -> Items]
    OBVIOUS
  <1>2. \A k \in 1..Len(s) : s[k] \in Items
    BY <1>1
  <1>3. \A y \in Items : y \in Nat /\ y \in Int
    BY WindowsAssumption
  <1>4. \A k \in 1..Len(s) : s[k] \in Nat /\ s[k] \in Int
    BY <1>2, <1>3
  <1>5. s \in [1..Len(s) -> Int]
    BY <1>1, <1>4
  <1> QED
    BY <1>1, <1>4, <1>5

\* What Append_All makes of the last values.
Slid(s, x) == LET longer == Append(s, x) IN IF Len(longer) > Capacity THEN Tail(longer) ELSE longer

LEMMA SlidIs ==
  ASSUME NEW s \in Seq(Items), Len(s) <= Capacity, NEW x \in Items
  PROVE  /\ Slid(s, x) \in Seq(Items)
         /\ Len(Slid(s, x)) = IF Len(s) < Capacity THEN Len(s) + 1 ELSE Capacity
         /\ \A k \in 1..Len(Slid(s, x)) :
              Slid(s, x)[k] = IF k = Len(Slid(s, x)) THEN x
                              ELSE IF Len(s) < Capacity THEN s[k] ELSE s[k + 1]
         /\ Total(Slid(s, x)) = Total(s) + x - (IF Len(s) < Capacity THEN 0 ELSE s[1])
         /\ Total(s) \in Int
  <1> DEFINE longer == Append(s, x)
  <1>1. Capacity \in Nat \ {0} /\ Items \subseteq Nat
    BY FastSumAssumption, WindowsAssumption
  <1>2. /\ longer \in Seq(Items) /\ Len(longer) = Len(s) + 1 /\ Len(s) \in Nat
        /\ \A k \in 1..(Len(s) + 1) : longer[k] = IF k = Len(s) + 1 THEN x ELSE s[k]
    OBVIOUS
  <1>3. s \in Seq(Int) /\ longer \in Seq(Int) /\ x \in Int
    BY <1>1, <1>2, ItemsAreNumbers
  <1>4. Total(longer) = Total(s) + x /\ Total(s) \in Int
    BY <1>3, TotalAppend, TotalDef, TotalIs
  <1> HIDE DEF longer
  <1>5. CASE Len(s) < Capacity
    <2>1. Slid(s, x) = longer
      BY <1>1, <1>2, <1>5 DEF Slid, longer
    <2> QED
      BY <1>2, <1>3, <1>4, <1>5, <2>1
  <1>6. CASE Len(s) = Capacity
    <2> DEFINE r == Tail(longer)
    <2>1. Slid(s, x) = r
      BY <1>1, <1>2, <1>6 DEF Slid, longer
    <2>2. longer # << >> /\ longer[1] = s[1] /\ s[1] \in Int
      BY <1>1, <1>2, <1>3, <1>6
    <2>3. /\ r \in Seq(Items) /\ Len(r) = Capacity
          /\ \A k \in 1..Capacity : r[k] = longer[k + 1]
      BY <1>1, <1>2, <1>6, <2>2
    <2>4. Total(r) = Total(s) + x - s[1]
      BY <1>3, <1>4, <2>2, TotalTail, SMTT(30)
    <2>5. \A k \in 1..Capacity : r[k] = IF k = Capacity THEN x ELSE s[k + 1]
      BY <1>1, <1>2, <1>6, <2>3
    <2> HIDE DEF r
    <2> QED
      BY <1>4, <1>6, <2>1, <2>3, <2>4, <2>5
  <1> QED
    BY <1>1, <1>2, <1>5, <1>6

\* A value put into the next slot: the ring holds the last values again.
LEMMA HeldAgain ==
  ASSUME NEW s \in Seq(Items), Len(s) <= Capacity, NEW x \in Items,
         NEW items \in [Slots -> Nat], NEW i \in Slots, Held(items, i, s)
  PROVE  /\ Held([items EXCEPT ![i] = x], NextSlot(i), Slid(s, x))
         /\ [items EXCEPT ![i] = x] \in [Slots -> Nat]
         /\ Len(s) = Capacity => items[i] = s[1]
  <1> DEFINE r == Slid(s, x)
             put == [items EXCEPT ![i] = x]
  <1>1. Capacity \in Nat \ {0} /\ Items \subseteq Nat /\ Len(s) \in Nat /\ i \in 0..(Capacity - 1)
    BY FastSumAssumption, WindowsAssumption DEF Slots
  <1>2. /\ Len(r) = IF Len(s) < Capacity THEN Len(s) + 1 ELSE Capacity
        /\ \A k \in 1..Len(r) :
             r[k] = IF k = Len(r) THEN x ELSE IF Len(s) < Capacity THEN s[k] ELSE s[k + 1]
    BY SlidIs
  <1>3. put \in [Slots -> Nat] /\ \A j \in Slots : put[j] = IF j = i THEN x ELSE items[j]
    BY <1>1
  <1> HIDE DEF r, put
  <1>4. ASSUME NEW k \in 1..Len(r) PROVE put[BackFrom(NextSlot(i), Len(r) + 1 - k)] = r[k]
    <2>1. CASE k = Len(r)
      <3>1. Len(r) + 1 - k = 1 /\ BackFrom(NextSlot(i), 1) = i
        BY <1>1, <1>2, <2>1, SlotStep
      <3> QED
        BY <1>2, <1>3, <2>1, <3>1
    <2>2. CASE k # Len(r)
      <3> DEFINE d == Len(r) + 1 - k
                 l == IF Len(s) < Capacity THEN k ELSE k + 1
      <3>1. d \in 2..Capacity /\ l \in 1..Len(s) /\ d - 1 = Len(s) + 1 - l
        <4> DEFINE m == Len(s)
                   n == Len(r)
        <4>1. /\ Capacity \in Nat \ {0} /\ m \in Nat /\ m <= Capacity
              /\ n = (IF m < Capacity THEN m + 1 ELSE Capacity) /\ k \in 1..n /\ k # n
          BY <1>1, <1>2, <2>2
        <4>2. d = n + 1 - k /\ l = IF m < Capacity THEN k ELSE k + 1
          OBVIOUS
        <4> HIDE DEF d, l, m, n
        <4>3. CASE m < Capacity
          BY <4>1, <4>2, <4>3 DEF m
        <4>4. CASE m = Capacity
          BY <4>1, <4>2, <4>4 DEF m
        <4> QED
          BY <4>1, <4>3, <4>4
      <3>2. r[k] = s[l]
        BY <1>1, <1>2, <2>2
      <3> HIDE DEF d, l
      <3>3. BackFrom(NextSlot(i), d) = BackFrom(i, d - 1) /\ BackFrom(i, d - 1) # i
            /\ BackFrom(i, d - 1) \in Slots
        BY <1>1, <3>1, SlotStep
      <3>4. items[BackFrom(i, d - 1)] = s[l]
        BY <3>1 DEF Held
      <3> QED
        BY <1>3, <3>2, <3>3, <3>4 DEF d
    <2> QED
      BY <2>1, <2>2
  <1>5. Len(s) = Capacity => items[i] = s[1]
    <2> SUFFICES ASSUME Len(s) = Capacity PROVE items[i] = s[1]
      OBVIOUS
    <2>1. Len(s) + 1 - 1 = Capacity /\ 1 \in 1..Len(s) /\ BackFrom(i, Capacity) = i
      BY <1>1 DEF BackFrom
    <2> QED
      BY <2>1 DEF Held
  <1>6. Held(put, NextSlot(i), r)
    BY <1>4 DEF Held
  <1> QED
    BY <1>3, <1>5, <1>6 DEF r, put

-----------------------------------------------------------------------------
(***************************************************************************)
(* The inductive invariant: what each container holds, slot by slot.       *)
(***************************************************************************)
Rings == [size : 0..Capacity, index : Slots, items : [Slots -> Nat], sum : 0..(SumMod - 1)]
Corrected == [size : 0..Capacity, index : Slots, recalc : 0..RecalcNum, full : BOOLEAN,
              items : [Slots -> Nat], sum : Int]
Slides == [length : 0..Capacity, last : Slots, items : [Slots -> Nat]]

\* A ring of FastSum or FastSumCorrection, whose index is the next slot.
RingHolds(w) ==
  /\ w.size = Len(recent)
  /\ w.size < Capacity => w.index = w.size
  /\ Held(w.items, w.index, recent)

\* What a recalculation adds up, slot by slot in the order of the slots.
Filled(w) == [i \in 1..w.size |-> w.items[i - 1]]

\* The slot the next value goes to.
SlidingNext(w) == IF w.length = 0 THEN w.last ELSE NextSlot(w.last)

WindowsInv ==
  /\ recent \in Seq(Items) /\ Len(recent) <= Capacity
  /\ fast \in Rings /\ RingHolds(fast) /\ fast.sum = Total(recent) % SumMod
  /\ correction \in Corrected /\ RingHolds(correction)
  /\ correction.full <=> correction.size = Capacity
  /\ Total(Filled(correction)) = Total(recent)
  /\ DriftIsBounded
  /\ sliding \in Slides /\ sliding.length = Len(recent)
  /\ sliding.length = 0 => sliding.last = 0
  /\ sliding.length \in 1..(Capacity - 1) => sliding.last = sliding.length - 1
  /\ Held(sliding.items, SlidingNext(sliding), recent)

LEMMA WindowsFacts ==
  /\ Capacity \in Nat \ {0} /\ SumMod \in Nat \ {0} /\ RecalcNum \in Nat /\ RoundMax \in Nat
  /\ Slots = 0..(Capacity - 1) /\ 0 \in Slots /\ Items \subseteq Nat
  /\ 0 \in 0..Capacity /\ 0 \in 0..RecalcNum /\ 0 \in 0..(SumMod - 1)
  BY FastSumAssumption, WindowsAssumption DEF Slots

LEMMA EmptyRecent ==
  ASSUME NEW items, NEW next
  PROVE  << >> \in Seq(Items) /\ Len(<< >>) = 0 /\ Held(items, next, << >>)
  BY DEF Held

\* Nothing is held and nothing is owed.
LEMMA EmptyDrift ==
  ASSUME NEW r \in Nat
  PROVE  0 <= RoundMax * (2 * r + Capacity) /\ -(RoundMax * (2 * r + Capacity)) <= 0
  <1>1. RoundMax \in Nat /\ 2 * r + Capacity \in Nat
    BY WindowsFacts
  <1> DEFINE a == 2 * r + Capacity
  <1> HIDE DEF a
  <1>2. RoundMax * a \in Nat
    BY <1>1 DEF a
  <1> QED
    BY <1>2 DEF a

\* The three containers are empty: after the constructors and after a reset.
LEMMA EmptyGood ==
  ASSUME fast' \in Rings, fast'.size = 0, fast'.index = 0, fast'.sum = 0,
         correction' \in Corrected, correction'.size = 0, correction'.index = 0,
         correction'.recalc = 0, correction'.full = FALSE, correction'.sum = 0,
         sliding' \in Slides, sliding'.length = 0, sliding'.last = 0,
         recent' = << >>
  PROVE  WindowsInv'
  <1>1. Total(<< >>) = 0 /\ 0 % SumMod = 0
    BY TotalEmpty, WindowsFacts
  <1>2. Filled(correction)' = << >>
    BY DEF Filled
  <1>3. DriftIsBounded'
    BY <1>1, EmptyDrift, WindowsFacts DEF DriftIsBounded
  <1>4. RingHolds(fast)' /\ RingHolds(correction)'
    BY EmptyRecent DEF RingHolds, Held
  <1>5. Held(sliding.items, SlidingNext(sliding), recent)'
    BY EmptyRecent DEF Held
  <1> QED
    BY <1>1, <1>2, <1>3, <1>4, <1>5, EmptyRecent, WindowsFacts DEF WindowsInv

LEMMA ResetGood == ASSUME WindowsInv, Reset_All PROVE WindowsInv'
  <1>1. fast \in Rings /\ correction \in Corrected /\ sliding \in Slides
    BY DEF WindowsInv
  <1>2. /\ fast' = [fast EXCEPT !.sum = 0, !.size = 0, !.index = 0]
        /\ correction' = [correction EXCEPT !.size = 0, !.index = 0, !.recalc = 0,
                                            !.full = FALSE, !.sum = 0]
        /\ sliding' = [sliding EXCEPT !.length = 0, !.last = 0]
        /\ recent' = << >>
    BY DEF Reset_All, FastSum_reset, Correction_reset, Sliding_reset
  <1>3. fast' \in Rings /\ fast'.size = 0 /\ fast'.index = 0 /\ fast'.sum = 0
    BY <1>1, <1>2, WindowsFacts DEF Rings
  <1>4. /\ correction' \in Corrected /\ correction'.size = 0 /\ correction'.index = 0
        /\ correction'.recalc = 0 /\ correction'.full = FALSE /\ correction'.sum = 0
    <2>1. correction.items \in [Slots -> Nat]
      BY <1>1 DEF Corrected
    <2>2. correction' = [size |-> 0, index |-> 0, recalc |-> 0, full |-> FALSE,
                         items |-> correction.items, sum |-> 0]
      BY <1>1, <1>2 DEF Corrected
    <2>3. correction' \in Corrected
      BY <2>1, <2>2, WindowsFacts DEF Corrected
    <2> QED
      BY <2>2, <2>3
  <1>5. sliding' \in Slides /\ sliding'.length = 0 /\ sliding'.last = 0
    BY <1>1, <1>2, WindowsFacts DEF Slides
  <1> QED
    BY <1>2, <1>3, <1>4, <1>5, EmptyGood

-----------------------------------------------------------------------------
(* One value more. *)

\* A ring of the right shape, apart from its sum.
Ring(w) ==
  w.size \in 0..Capacity /\ w.index \in Slots /\ w.items \in [Slots -> Nat] /\ RingHolds(w)

Sized(w) == IF w.size < Capacity THEN w.size + 1 ELSE w.size
Indexed(w) == IF w.index + 1 >= Capacity THEN 0 ELSE w.index + 1
Put(w, x) == [w.items EXCEPT ![w.index] = x]

\* Where the ring stands after it.
LEMMA RingAgain ==
  ASSUME WindowsInv, NEW x \in Items, recent' = Slid(recent, x), NEW w, Ring(w)
  PROVE  /\ Sized(w) = Len(recent') /\ Sized(w) \in 0..Capacity
         /\ Sized(w) < Capacity => Indexed(w) = Sized(w)
         /\ Indexed(w) \in Slots
         /\ Held(Put(w, x), Indexed(w), recent') /\ Put(w, x) \in [Slots -> Nat]
         /\ w.size = Capacity => w.items[w.index] = recent[1] /\ w.items[w.index] \in Nat
  <1>1. recent \in Seq(Items) /\ Len(recent) <= Capacity /\ Len(recent) \in Nat
    BY DEF WindowsInv
  <1>2. Len(recent') = IF Len(recent) < Capacity THEN Len(recent) + 1 ELSE Capacity
    BY <1>1, SlidIs
  <1>3. /\ w.size = Len(recent) /\ (w.size < Capacity => w.index = w.size)
        /\ w.items \in [Slots -> Nat] /\ w.index \in Slots /\ Held(w.items, w.index, recent)
    BY DEF Ring, RingHolds
  <1> DEFINE items == w.items
             i == w.index
  <1>4. items \in [Slots -> Nat] /\ i \in Slots /\ Held(items, i, recent)
    BY <1>3
  <1> HIDE DEF items, i
  <1>5. /\ Held([items EXCEPT ![i] = x], NextSlot(i), Slid(recent, x))
        /\ [items EXCEPT ![i] = x] \in [Slots -> Nat]
        /\ Len(recent) = Capacity => items[i] = recent[1]
    <2> DEFINE s == recent
    <2>1. /\ s \in Seq(Items) /\ Len(s) <= Capacity /\ x \in Items
          /\ items \in [Slots -> Nat] /\ i \in Slots /\ Held(items, i, s)
      BY <1>1, <1>4
    <2> HIDE DEF s
    <2>2. /\ Held([items EXCEPT ![i] = x], NextSlot(i), Slid(s, x))
          /\ [items EXCEPT ![i] = x] \in [Slots -> Nat]
          /\ Len(s) = Capacity => items[i] = s[1]
      BY <2>1, HeldAgain, ZenonT(60)
    <2> QED
      BY <2>2 DEF s
  <1>6. NextSlot(i) = Indexed(w) /\ [items EXCEPT ![i] = x] = Put(w, x)
    BY DEF NextSlot, Indexed, Put, items, i
  <1>7. Held(Put(w, x), Indexed(w), recent') /\ Put(w, x) \in [Slots -> Nat]
    BY <1>5, <1>6
  <1>8. w.size = Capacity => w.items[w.index] = recent[1] /\ w.items[w.index] \in Nat
    BY <1>3, <1>4, <1>5 DEF items, i
  <1>9. /\ Sized(w) = Len(recent') /\ Sized(w) \in 0..Capacity
        /\ Sized(w) < Capacity => Indexed(w) = Sized(w)
        /\ Indexed(w) \in Slots
    BY <1>1, <1>2, <1>3, WindowsFacts DEF Sized, Indexed
  <1> QED
    BY <1>7, <1>8, <1>9

LEMMA RecentAgain ==
  ASSUME WindowsInv, NEW x \in Items, recent' = Slid(recent, x)
  PROVE  /\ recent' \in Seq(Items) /\ Len(recent') <= Capacity /\ Len(recent') > 0
         /\ Len(recent') = IF Len(recent) < Capacity THEN Len(recent) + 1 ELSE Capacity
         /\ Total(recent') = Total(recent) + x - (IF Len(recent) < Capacity THEN 0 ELSE recent[1])
         /\ Total(recent) \in Int /\ x \in Int /\ (Len(recent) = Capacity => recent[1] \in Int)
  <1>1. recent \in Seq(Items) /\ Len(recent) <= Capacity /\ Len(recent) \in Nat
    BY DEF WindowsInv
  <1>2. \A k \in 1..Len(recent) : recent[k] \in Nat
    BY <1>1, ItemsAreNumbers
  <1>3. /\ Slid(recent, x) \in Seq(Items)
        /\ Len(Slid(recent, x)) = IF Len(recent) < Capacity THEN Len(recent) + 1 ELSE Capacity
        /\ Total(Slid(recent, x)) = Total(recent) + x - (IF Len(recent) < Capacity THEN 0 ELSE recent[1])
        /\ Total(recent) \in Int
    BY <1>1, SlidIs
  <1> QED
    BY <1>1, <1>2, <1>3, WindowsFacts

\* FastSum: what leaves the window leaves the sum.
LEMMA FastAgain ==
  ASSUME WindowsInv, NEW x \in Items, recent' = Slid(recent, x), fast' = FastSum_add(fast, x)
  PROVE  fast' \in Rings /\ RingHolds(fast)' /\ fast'.sum = Total(recent') % SumMod
  <1> DEFINE size == Sized(fast)
             index == Indexed(fast)
             items == Put(fast, x)
             first_val == IF fast.size >= Capacity THEN fast.items[fast.index] ELSE 0
             added == fast.sum - first_val + x
             sum == added % SumMod
  <1>1. fast' = [size |-> size, index |-> index, items |-> items, sum |-> sum]
    BY DEF FastSum_add, Sized, Indexed, Put
  <1>2. Ring(fast) /\ fast.size = Len(recent) /\ fast.sum = Total(recent) % SumMod
    BY DEF WindowsInv, Rings, RingHolds, Ring
  <1>3. /\ size = Len(recent') /\ size \in 0..Capacity /\ (size < Capacity => index = size)
        /\ index \in Slots /\ Held(items, index, recent') /\ items \in [Slots -> Nat]
        /\ fast.size = Capacity => /\ fast.items[fast.index] = recent[1]
                                   /\ fast.items[fast.index] \in Nat
    BY <1>2, RingAgain
  <1>4. /\ first_val = (IF Len(recent) < Capacity THEN 0 ELSE recent[1])
        /\ first_val \in Int
    <2>1. fast.size \in 0..Capacity
      BY <1>2 DEF Ring
    <2> QED
      BY <1>2, <1>3, <2>1, WindowsFacts
  <1> HIDE DEF first_val
  <1>5. sum = Total(recent') % SumMod
    <2> DEFINE T == Total(recent)
               b == x - first_val
    <2>1. T \in Int /\ x \in Int /\ Total(recent') = T + b
      BY <1>4, RecentAgain
    <2>2. b \in Int
      BY <1>4, <2>1
    <2>3. sum = ((T % SumMod) + b) % SumMod
      <3>1. T % SumMod \in Int
        BY <2>1, WindowsFacts
      <3>2. fast.sum - first_val + x = (T % SumMod) + b
        BY <1>2, <1>4, <2>1, <3>1
      <3> QED
        BY <3>2
    <2> HIDE DEF T, b, sum, added
    <2> QED
      BY <2>1, <2>2, <2>3, WindowsFacts, RestAdded
  <1>6. sum \in 0..(SumMod - 1)
    <2>1. fast.sum \in Int /\ x \in Int
      BY <1>2, WindowsFacts, RecentAgain
    <2>2. added \in Int
      BY <1>4, <2>1
    <2> HIDE DEF added
    <2> QED
      BY <2>2, WindowsFacts
  <1> HIDE DEF size, index, items, sum
  <1>7. /\ fast'.size = size /\ fast'.index = index /\ fast'.items = items /\ fast'.sum = sum
        /\ fast' \in Rings
    BY <1>1, <1>3, <1>6 DEF Rings
  <1> QED
    BY <1>3, <1>5, <1>7 DEF RingHolds

\* What a recalculation would add up follows the window too.
LEMMA FilledAgain ==
  ASSUME WindowsInv, NEW x \in Items, recent' = Slid(recent, x),
         Ring(correction), Total(Filled(correction)) = Total(recent)
  PROVE  Total([i \in 1..Sized(correction) |-> Put(correction, x)[i - 1]]) = Total(recent')
  <1> DEFINE w == correction
             s == Filled(w)
             size == w.size
             index == w.index
             items == w.items
             put == Put(w, x)
             after == [i \in 1..Sized(w) |-> put[i - 1]]
  <1>1. /\ size \in 0..Capacity /\ index \in Slots /\ items \in [Slots -> Nat]
        /\ size = Len(recent) /\ (size < Capacity => index = size)
        /\ s = [i \in 1..size |-> items[i - 1]]
        /\ put = [items EXCEPT ![index] = x]
        /\ Sized(w) = IF size < Capacity THEN size + 1 ELSE size
    BY DEF Ring, RingHolds, Filled, Put, Sized
  <1>2. /\ size = Capacity => items[index] = recent[1] /\ items[index] \in Nat
        /\ put \in [Slots -> Nat]
    BY RingAgain
  <1>3. /\ Total(recent') = Total(recent) + x - (IF size < Capacity THEN 0 ELSE recent[1])
        /\ Total(recent) \in Int /\ x \in Int
    BY <1>1, RecentAgain
  <1>4. Total(s) = Total(recent)
    OBVIOUS
  <1>10. x \in Nat
    BY WindowsFacts
  <1> HIDE DEF s, size, index, items, put, w
  <1>5. /\ s \in Seq(Int) /\ Len(s) = size
        /\ \A i \in 1..size : s[i] = items[i - 1] /\ items[i - 1] \in Int
    <2>1. \A i \in 1..size : i - 1 \in Slots
      BY <1>1, WindowsFacts
    <2>2. \A i \in 1..size : items[i - 1] \in Int
      BY <1>1, <2>1
    <2>3. s \in [1..size -> Int] /\ size \in Nat
      BY <1>1, <2>2
    <2> QED
      BY <1>1, <2>2, <2>3
  <1>6. \A j \in Slots : put[j] = IF j = index THEN x ELSE items[j]
    BY <1>1
  <1>11. size \in Nat /\ index \in Nat /\ Capacity \in Nat /\ index < Capacity
    BY <1>1, WindowsFacts
  <1>7. CASE size < Capacity
    <2>1. \A i \in 1..(size + 1) : put[i - 1] = IF i = size + 1 THEN x ELSE s[i]
      <3> TAKE i \in 1..(size + 1)
      <3>1. i - 1 \in Slots /\ index = size
        BY <1>1, <1>7, WindowsFacts
      <3>2. CASE i = size + 1
        BY <1>1, <1>6, <3>1, <3>2
      <3>3. CASE i # size + 1
        <4>1. i \in 1..size /\ i - 1 # index
          BY <1>11, <3>1, <3>3
        <4> QED
          BY <1>5, <1>6, <3>1, <3>3, <4>1
      <3> QED
        BY <3>2, <3>3
    <2>2. /\ Append(s, x) \in Seq(Int) /\ Len(Append(s, x)) = size + 1
          /\ \A i \in 1..(size + 1) : Append(s, x)[i] = IF i = size + 1 THEN x ELSE s[i]
      BY <1>3, <1>5
    <2>3. after = [i \in 1..(size + 1) |-> put[i - 1]]
      BY <1>1, <1>7
    <2>4. after = Append(s, x)
      <3> DEFINE t == Append(s, x)
      <3>1. t \in Seq(Int) /\ Len(t) = size + 1
        BY <2>2
      <3>2. \A i \in 1..(size + 1) : t[i] = put[i - 1]
        BY <2>1, <2>2
      <3> HIDE DEF t, after
      <3>3. t = [i \in 1..Len(t) |-> t[i]]
        BY <3>1
      <3>4. t = [i \in 1..(size + 1) |-> t[i]]
        BY <3>1, <3>3
      <3> QED
        BY <2>3, <3>2, <3>4 DEF t
    <2> HIDE DEF after
    <2>5. Total(after) = Total(s) + x
      BY <1>3, <1>5, <2>4, TotalAppend
    <2> QED
      BY <1>3, <1>4, <1>7, <2>5 DEF after, put, w
  <1>8. CASE size = Capacity
    <2>1. /\ index + 1 \in 1..Len(s) /\ s[index + 1] = items[index]
          /\ items[index] = recent[1] /\ items[index] \in Int
      <3>1. index + 1 \in 1..size /\ (index + 1) - 1 = index
        BY <1>8, <1>11
      <3>2. items[index] = recent[1] /\ items[index] \in Int
        BY <1>2, <1>8
      <3> QED
        BY <1>5, <3>1, <3>2
    <2>2. after = [s EXCEPT ![index + 1] = x]
      <3>1. \A i \in 1..size : put[i - 1] = IF i = index + 1 THEN x ELSE s[i]
        <4> TAKE i \in 1..size
        <4>1. i - 1 \in Slots /\ (i - 1 = index <=> i = index + 1)
          BY <1>1, WindowsFacts
        <4> QED
          BY <1>5, <1>6, <4>1
      <3>2. after = [i \in 1..size |-> put[i - 1]]
        BY <1>1, <1>8
      <3>3. s = [i \in 1..size |-> s[i]]
        BY <1>1, <1>5
      <3> QED
        BY <3>1, <3>2, <3>3
    <2> HIDE DEF after
    <2>3. Total(after) = Total(s) - s[index + 1] + x
      <3> DEFINE i == index + 1
      <3>1. i \in 1..Len(s)
        BY <2>1
      <3> HIDE DEF i
      <3>2. Total([s EXCEPT ![i] = x]) = Total(s) - s[i] + x
        BY <1>3, <1>5, <3>1, TotalExcept
      <3> QED
        BY <2>2, <3>2 DEF i
    <2>4. Total(after) = Total(recent) - recent[1] + x
      BY <1>4, <2>1, <2>3
    <2>5. Total(recent') = Total(recent) + x - recent[1] /\ recent[1] \in Int
      BY <1>3, <1>8, <2>1, WindowsFacts
    <2> QED
      BY <1>3, <2>4, <2>5 DEF after, put, w
  <1>9. size < Capacity \/ size = Capacity
    BY <1>1, WindowsFacts
  <1> QED
    BY <1>7, <1>8, <1>9

\* One term more may err by two operations, a sum taken anew by one for each.
LEMMA DriftAgain ==
  ASSUME NEW r \in Nat, NEW d \in Int, NEW e \in Int,
         -(RoundMax * (2 * r + Capacity)) <= d, d <= RoundMax * (2 * r + Capacity),
         -(2 * RoundMax) <= e, e <= 2 * RoundMax
  PROVE  /\ -(RoundMax * (2 * (r + 1) + Capacity)) <= d + e
         /\ d + e <= RoundMax * (2 * (r + 1) + Capacity)
  <1>1. RoundMax \in Nat /\ Capacity \in Nat
    BY WindowsFacts
  <1> DEFINE a == 2 * r + Capacity
             p == RoundMax * a
  <1>2. a \in Nat /\ 2 * (r + 1) + Capacity = a + 2
    BY <1>1
  <1>3. p \in Nat /\ -p <= d /\ d <= p
    <2> HIDE DEF a
    <2>1. p \in Nat
      BY <1>1, <1>2
    <2> QED
      BY <2>1 DEF a
  <1>4. RoundMax * (a + 2) = p + 2 * RoundMax
    <2> HIDE DEF a
    <2> QED
      BY <1>1, <1>2
  <1>5. RoundMax * (2 * (r + 1) + Capacity) = p + 2 * RoundMax
    BY <1>2, <1>4
  <1> HIDE DEF p, a
  <1>6. -(p + 2 * RoundMax) <= d + e /\ d + e <= p + 2 * RoundMax
    BY <1>1, <1>3
  <1> QED
    BY <1>5, <1>6

\* FastSumCorrection: its error is that of the values since the last recalculation.
LEMMA CorrectionAgain ==
  ASSUME WindowsInv, NEW x \in Items, recent' = Slid(recent, x),
         NEW e \in Correction_error(correction), correction' = Correction_add(correction, x, e)
  PROVE  /\ correction' \in Corrected /\ RingHolds(correction)'
         /\ correction'.full <=> correction'.size = Capacity
         /\ Total(Filled(correction))' = Total(recent')
         /\ DriftIsBounded'
  <1> DEFINE w == correction
             size == Sized(w)
             index == Indexed(w)
             items == Put(w, x)
             full == w.full \/ w.index + 1 >= Capacity
             recalc == IF RecalcNum = 0 \/ Correction_Recalculates(w) THEN 0 ELSE w.recalc + 1
             first_val == IF w.full THEN w.items[w.index] ELSE 0
             all == Total([i \in 1..size |-> items[i - 1]])
             sum == e + IF Correction_Recalculates(w) THEN all ELSE w.sum - first_val + x
  <1>1. correction' = [size |-> size, index |-> index, items |-> items, full |-> full,
                       recalc |-> recalc, sum |-> sum]
    BY DEF Correction_add, Sized, Indexed, Put
  <1>2. /\ Ring(w) /\ w.size = Len(recent) /\ w.size \in 0..Capacity /\ w.index \in Slots
        /\ (w.size < Capacity => w.index = w.size)
        /\ w.recalc \in 0..RecalcNum /\ w.sum \in Int /\ w.full \in BOOLEAN
        /\ (w.full <=> w.size = Capacity) /\ Total(Filled(w)) = Total(recent)
    BY DEF WindowsInv, Corrected, RingHolds, Ring
  <1>3. /\ size = Len(recent') /\ size \in 0..Capacity /\ (size < Capacity => index = size)
        /\ index \in Slots /\ Held(items, index, recent') /\ items \in [Slots -> Nat]
        /\ w.size = Capacity => w.items[w.index] = recent[1] /\ w.items[w.index] \in Nat
    BY <1>2, RingAgain
  <1>4. all = Total(recent')
    BY <1>2, FilledAgain
  <1>5. /\ Total(recent') = Total(recent) + x - first_val /\ first_val \in Int
        /\ Total(recent) \in Int /\ x \in Int /\ Total(recent') \in Int
    <2>1. first_val = (IF Len(recent) < Capacity THEN 0 ELSE recent[1]) /\ first_val \in Int
      BY <1>2, <1>3, WindowsFacts
    <2> HIDE DEF first_val
    <2>2. /\ Total(recent') = Total(recent) + x - first_val
          /\ Total(recent) \in Int /\ x \in Int
      BY <2>1, RecentAgain
    <2> QED
      BY <2>1, <2>2
  <1>6. full <=> size = Capacity
    BY <1>2, WindowsFacts DEF Sized
  <1>7. recalc \in 0..RecalcNum /\ full \in BOOLEAN
    BY <1>2, WindowsFacts DEF Correction_Recalculates
  <1>8. e \in Int /\ sum \in Int
    <2>1. e \in Int
      BY WindowsFacts DEF Correction_error
    <2> HIDE DEF first_val, all
    <2> QED
      BY <1>2, <1>4, <1>5, <2>1
  <1> HIDE DEF size, index, items, full, first_val, all
  <1>9. /\ correction'.size = size /\ correction'.index = index /\ correction'.items = items
        /\ correction'.full = full /\ correction'.recalc = recalc /\ correction'.sum = sum
    BY <1>1
  <1>10. correction' \in Corrected
    <2> HIDE DEF recalc, sum
    <2> QED
      BY <1>1, <1>3, <1>7, <1>8 DEF Corrected
  <1>11. Total(Filled(correction))' = Total(recent')
    BY <1>4, <1>9 DEF Filled, all
  <1>12. DriftIsBounded'
    <2> SUFFICES ASSUME RecalcNum # 0
                 PROVE  /\ -(RoundMax * (2 * recalc + Capacity)) <= sum - Total(recent')
                        /\ sum - Total(recent') <= RoundMax * (2 * recalc + Capacity)
      BY <1>9 DEF DriftIsBounded
    <2>1. CASE Correction_Recalculates(w)
      <3>1. sum - Total(recent') = e /\ recalc = 0
        BY <1>4, <1>5, <1>8, <2>1
      <3>2. -(Capacity * RoundMax) <= e /\ e <= Capacity * RoundMax
        <4> DEFINE p == Capacity * RoundMax
        <4>1. p \in Int /\ e \in (-p)..p
          BY <2>1, WindowsFacts DEF Correction_error
        <4> HIDE DEF p
        <4>2. -p <= e /\ e <= p
          BY <1>8, <4>1
        <4> QED
          BY <4>2 DEF p
      <3>3. RoundMax * (2 * 0 + Capacity) = Capacity * RoundMax
        BY WindowsFacts
      <3> HIDE DEF sum, recalc
      <3> QED
        BY <3>1, <3>2, <3>3
    <2>2. CASE ~Correction_Recalculates(w)
      <3> DEFINE d == w.sum - Total(recent)
                 r == w.recalc
      <3>1. sum - Total(recent') = d + e /\ recalc = r + 1
        <4>1. sum = e + (w.sum - first_val + x) /\ recalc = r + 1
          BY <2>2
        <4>2. w.sum \in Int
          BY <1>2
        <4> HIDE DEF sum, recalc, r
        <4>3. sum - Total(recent') = d + e
          BY <1>5, <1>8, <4>1, <4>2
        <4> QED
          BY <4>1, <4>3
      <3>2. -(RoundMax * (2 * r + Capacity)) <= d /\ d <= RoundMax * (2 * r + Capacity)
        BY DEF WindowsInv, DriftIsBounded
      <3>3. -(2 * RoundMax) <= e /\ e <= 2 * RoundMax
        BY <1>8, <2>2, WindowsFacts DEF Correction_error
      <3>4. d \in Int /\ r \in Nat
        BY <1>2, <1>5
      <3> HIDE DEF sum, recalc, d, r
      <3> QED
        BY <1>8, <3>1, <3>2, <3>3, <3>4, DriftAgain
    <2> QED
      BY <2>1, <2>2
  <1>13. RingHolds(correction)' /\ (correction'.full <=> correction'.size = Capacity)
    BY <1>3, <1>6, <1>9 DEF RingHolds
  <1> QED
    BY <1>10, <1>11, <1>12, <1>13

\* SlidingWindow: the first value stays where the last one is, the others go on.
LEMMA SlidingAgain ==
  ASSUME WindowsInv, NEW x \in Items, recent' = Slid(recent, x),
         sliding' = Sliding_append(sliding, x)
  PROVE  /\ sliding' \in Slides /\ sliding'.length = Len(recent')
         /\ sliding'.length = 0 => sliding'.last = 0
         /\ sliding'.length \in 1..(Capacity - 1) => sliding'.last = sliding'.length - 1
         /\ Held(sliding.items, SlidingNext(sliding), recent)'
  <1> DEFINE w == sliding
             next == SlidingNext(w)
             items == w.items
             put == [items EXCEPT ![next] = x]
             length == IF w.length < Capacity THEN w.length + 1 ELSE w.length
  <1>1. /\ w.length \in 0..Capacity /\ w.last \in Slots /\ items \in [Slots -> Nat]
        /\ w.length = Len(recent) /\ (w.length = 0 => w.last = 0)
        /\ (w.length \in 1..(Capacity - 1) => w.last = w.length - 1)
        /\ Held(items, next, recent)
    BY DEF WindowsInv, Slides
  <1>2. /\ recent \in Seq(Items) /\ Len(recent) <= Capacity
        /\ Len(recent') = IF Len(recent) < Capacity THEN Len(recent) + 1 ELSE Capacity
    BY RecentAgain DEF WindowsInv
  <1>3. next \in Slots /\ NextSlot(w.last) \in Slots
    BY <1>1, SlotStep DEF SlidingNext
  <1>4. sliding' = [length |-> length, last |-> next, items |-> put]
    <2>1. ~(w.last >= Capacity)
      BY <1>1, WindowsFacts
    <2>2. next = LET after == IF w.length > 0 THEN w.last + 1 ELSE w.last
                 IN  IF after >= Capacity THEN 0 ELSE after
      BY <1>1, <2>1 DEF SlidingNext, NextSlot
    <2> QED
      BY <2>2 DEF Sliding_append
  <1>5. length = Len(recent') /\ length \in 1..Capacity
    BY <1>1, <1>2, WindowsFacts
  <1>6. length \in 1..(Capacity - 1) => next = length - 1
    BY <1>1, WindowsFacts DEF SlidingNext, NextSlot
  <1> HIDE DEF next, items, length
  <1>7. /\ Held(put, NextSlot(next), Slid(recent, x)) /\ put \in [Slots -> Nat]
    <2> DEFINE s == recent
    <2>1. /\ s \in Seq(Items) /\ Len(s) <= Capacity /\ x \in Items
          /\ items \in [Slots -> Nat] /\ next \in Slots /\ Held(items, next, s)
      BY <1>1, <1>2, <1>3
    <2> HIDE DEF s
    <2>2. /\ Held([items EXCEPT ![next] = x], NextSlot(next), Slid(s, x))
          /\ [items EXCEPT ![next] = x] \in [Slots -> Nat]
          /\ Len(s) = Capacity => items[next] = s[1]
      BY <2>1, HeldAgain, ZenonT(60)
    <2> QED
      BY <2>2 DEF s, put
  <1> HIDE DEF put
  <1>8. sliding' \in Slides
    <2>1. length \in 0..Capacity
      BY <1>5
    <2> QED
      BY <1>3, <1>4, <1>7, <2>1 DEF Slides
  <1>9. sliding'.length = length /\ sliding'.last = next /\ sliding'.items = put
    BY <1>4
  <1>10. SlidingNext(sliding)' = NextSlot(next)
    BY <1>5, <1>9 DEF SlidingNext
  <1>11. Held(sliding.items, SlidingNext(sliding), recent)'
    <2>1. Held(put, NextSlot(next), recent')
      BY <1>7
    <2> QED
      BY <1>9, <1>10, <2>1 DEF Held
  <1> QED
    BY <1>5, <1>6, <1>8, <1>9, <1>11

LEMMA AppendGood == ASSUME WindowsInv, NEW x \in Items, Append_All(x) PROVE WindowsInv'
  <1>1. /\ recent' = Slid(recent, x)
        /\ fast' = FastSum_add(fast, x)
        /\ sliding' = Sliding_append(sliding, x)
    BY DEF Append_All, Slid
  <1>2. PICK e \in Correction_error(correction) : correction' = Correction_add(correction, x, e)
    BY DEF Append_All
  <1>3. recent' \in Seq(Items) /\ Len(recent') <= Capacity
    BY <1>1, RecentAgain
  <1>4. fast' \in Rings /\ RingHolds(fast)' /\ fast'.sum = Total(recent') % SumMod
    BY <1>1, FastAgain
  <1>5. /\ correction' \in Corrected /\ RingHolds(correction)'
        /\ correction'.full <=> correction'.size = Capacity
        /\ Total(Filled(correction))' = Total(recent')
        /\ DriftIsBounded'
    BY <1>1, <1>2, CorrectionAgain
  <1>6. /\ sliding' \in Slides /\ sliding'.length = Len(recent')
        /\ sliding'.length = 0 => sliding'.last = 0
        /\ sliding'.length \in 1..(Capacity - 1) => sliding'.last = sliding'.length - 1
        /\ Held(sliding.items, SlidingNext(sliding), recent)'
    BY <1>1, SlidingAgain
  <1> QED
    BY <1>3, <1>4, <1>5, <1>6 DEF WindowsInv

LEMMA InitWindows == WindowsInit => WindowsInv
  <1> SUFFICES ASSUME WindowsInit PROVE WindowsInv
    OBVIOUS
  <1>1. Total(<< >>) = 0 /\ 0 % SumMod = 0
    BY TotalEmpty, WindowsFacts
  <1>2. [i \in Slots |-> 0] \in [Slots -> Nat]
    OBVIOUS
  <1>3. fast \in Rings /\ RingHolds(fast) /\ fast.sum = 0
    BY <1>2, EmptyRecent, WindowsFacts DEF WindowsInit, NewFastSum, Rings, RingHolds
  <1>4. correction = [size |-> 0, index |-> 0, recalc |-> 0, full |-> FALSE,
                      items |-> [i \in Slots |-> 0], sum |-> 0]
    BY DEF WindowsInit, NewCorrection
  <1>5. correction \in Corrected
    BY <1>2, <1>4, WindowsFacts DEF Corrected
  <1>6. /\ correction.size = 0 /\ correction.index = 0 /\ correction.recalc = 0
        /\ correction.full = FALSE /\ correction.sum = 0 /\ recent = << >>
    BY <1>4 DEF WindowsInit
  <1>7. RingHolds(correction) /\ (correction.full <=> correction.size = Capacity)
    BY <1>6, EmptyRecent, WindowsFacts DEF RingHolds
  <1>8. Total(Filled(correction)) = Total(recent)
    <2>1. Filled(correction) = << >>
      BY <1>6 DEF Filled
    <2> QED
      BY <1>6, <2>1
  <1>9. DriftIsBounded
    BY <1>1, <1>6, EmptyDrift, WindowsFacts DEF DriftIsBounded
  <1>10. sliding \in Slides /\ sliding.length = 0 /\ sliding.last = 0
    BY <1>2, WindowsFacts DEF WindowsInit, NewSliding, Slides
  <1>11. Held(sliding.items, SlidingNext(sliding), recent)
    BY <1>6, EmptyRecent
  <1> QED
    BY <1>1, <1>3, <1>5, <1>6, <1>7, <1>8, <1>9, <1>10, <1>11, EmptyRecent, WindowsFacts
    DEF WindowsInv

LEMMA StepWindows == WindowsInv /\ [WindowsNext]_windowsVars => WindowsInv'
  <1>1. ASSUME WindowsInv, UNCHANGED windowsVars PROVE WindowsInv'
    BY <1>1 DEF windowsVars, WindowsInv, RingHolds, Held, Filled, DriftIsBounded, SlidingNext
  <1> QED
    BY <1>1, ResetGood, AppendGood DEF WindowsNext

\* Both sums are those of the last values, for any capacity, width of the sum
\* and number of values between recalculations: FastSum::add,
\* FastSumCorrection::add.
THEOREM SumsHold == WindowsSpec => []SumsOfTheWindow
  <1>1. WindowsInv => SumsOfTheWindow
    BY DEF WindowsInv, SumsOfTheWindow, WindowsTypeOK, SumIsOfTheWindow, Rings, RingHolds,
           Corrected, Slides
  <1> QED
    BY <1>1, InitWindows, StepWindows, PTL DEF WindowsSpec

-----------------------------------------------------------------------------
(***************************************************************************)
(* The iterators go from slot to slot, round the part of the ring that is  *)
(* filled; where they are after k steps is known in one.                   *)
(***************************************************************************)
Onward(i, k, n) == IF i + k >= n THEN i + k - n ELSE i + k
Behind(i, k, n) == IF i >= k THEN i - k ELSE i - k + n

LEMMA OnwardStep ==
  ASSUME NEW n \in Nat, NEW i \in Nat, i < n \/ n = 0
  PROVE  /\ Onward(i, 0, n) = i
         /\ \A k \in 1..n : Onward(i, k, n) =
              IF Onward(i, k - 1, n) + 1 >= n THEN 0 ELSE Onward(i, k - 1, n) + 1
  BY DEF Onward

LEMMA BehindStep ==
  ASSUME NEW n \in Nat, NEW i \in Nat, i < n \/ n = 0
  PROVE  /\ Behind(i, 0, n) = i
         /\ \A k \in 1..n : Behind(i, k, n) =
              IF Behind(i, k - 1, n) = 0 THEN n - 1 ELSE Behind(i, k - 1, n) - 1
  BY DEF Behind

LEMMA ForwardIs ==
  ASSUME NEW w, w.length \in Nat, P_first(w) \in Nat, P_first(w) < w.length \/ w.length = 0
  PROVE  Forward(w) = [k \in 1..w.length |-> w.items[Onward(P_first(w), k - 1, w.length)]]
  <1> DEFINE n == w.length
             a == P_first(w)
             Step(i) == IF i + 1 >= n THEN 0 ELSE i + 1
             c == [k \in 0..n |-> Onward(a, k, n)]
  <1>1. n \in Nat /\ a \in Nat /\ (a < n \/ n = 0)
    OBVIOUS
  <1>2. Onward(a, 0, n) = a /\ \A k \in 1..n : Onward(a, k, n) = Step(Onward(a, k - 1, n))
    <2> HIDE DEF n, a
    <2> QED
      BY <1>1, OnwardStep
  <1>3. c = [k \in 0..n |-> IF k = 0 THEN a ELSE Step(c[k - 1])]
    <2> HIDE DEF n, a, Step
    <2>1. \A k \in 1..n : k - 1 \in 0..n
      BY <1>1
    <2> QED
      BY <1>1, <1>2, <2>1
  <1>4. \E f : f = [k \in 0..n |-> IF k = 0 THEN a ELSE Step(f[k - 1])]
    <2> HIDE DEF c, n, a, Step
    <2> QED
      BY <1>3
  <1>5. PICK f : /\ f = [k \in 0..n |-> IF k = 0 THEN a ELSE Step(f[k - 1])]
                 /\ Forward(w) = [k \in 1..n |-> w.items[f[k - 1]]]
    BY <1>4 DEF Forward
  <1> HIDE DEF Step, a, n
  <1>6. f[0] = a /\ \A k \in 1..n : f[k] = Step(f[k - 1])
    <2>1. \A k \in 0..n : f[k] = IF k = 0 THEN a ELSE Step(f[k - 1])
      BY <1>5
    <2> QED
      BY <1>1, <2>1
  <1> DEFINE Same == {k \in Nat : k <= n => f[k] = Onward(a, k, n)}
  <1>7. 0 \in Same
    BY <1>2, <1>6
  <1>8. ASSUME NEW k \in Same PROVE k + 1 \in Same
    <2> SUFFICES ASSUME k + 1 <= n PROVE f[k + 1] = Onward(a, k + 1, n)
      OBVIOUS
    <2>1. k + 1 \in 1..n /\ (k + 1) - 1 = k /\ f[k] = Onward(a, k, n)
      BY <1>1
    <2> QED
      BY <1>2, <1>6, <2>1
  <1>9. Same \in SUBSET Nat
    OBVIOUS
  <1> HIDE DEF Same
  <1>10. Same = Nat
    BY <1>7, <1>8, <1>9, Induction
  <1>11. \A k \in 1..n : f[k - 1] = Onward(a, k - 1, n)
    <2> TAKE k \in 1..n
    <2>1. k - 1 \in Same /\ k - 1 <= n
      BY <1>1, <1>10
    <2> QED
      BY <2>1 DEF Same
  <1> QED
    BY <1>5, <1>11 DEF n, a

LEMMA BackwardIs ==
  ASSUME NEW w, w.length \in Nat, w.last \in Nat, w.last < w.length \/ w.length = 0
  PROVE  Backward(w) = [k \in 1..w.length |-> w.items[Behind(w.last, k - 1, w.length)]]
  <1> DEFINE n == w.length
             a == P_last(w)
             Step(i) == IF i = 0 THEN n - 1 ELSE i - 1
             c == [k \in 0..n |-> Behind(a, k, n)]
  <1>1. n \in Nat /\ a \in Nat /\ (a < n \/ n = 0) /\ a = w.last
    BY DEF P_last
  <1>2. Behind(a, 0, n) = a /\ \A k \in 1..n : Behind(a, k, n) = Step(Behind(a, k - 1, n))
    <2> HIDE DEF n, a
    <2> QED
      BY <1>1, BehindStep
  <1>3. c = [k \in 0..n |-> IF k = 0 THEN a ELSE Step(c[k - 1])]
    <2> HIDE DEF n, a, Step
    <2>1. \A k \in 1..n : k - 1 \in 0..n
      BY <1>1
    <2> QED
      BY <1>1, <1>2, <2>1
  <1>4. \E f : f = [k \in 0..n |-> IF k = 0 THEN a ELSE Step(f[k - 1])]
    <2> HIDE DEF c, n, a, Step
    <2> QED
      BY <1>3
  <1>5. PICK f : /\ f = [k \in 0..n |-> IF k = 0 THEN a ELSE Step(f[k - 1])]
                 /\ Backward(w) = [k \in 1..n |-> w.items[f[k - 1]]]
    BY <1>4 DEF Backward
  <1> HIDE DEF Step, a, n
  <1>6. f[0] = a /\ \A k \in 1..n : f[k] = Step(f[k - 1])
    <2>1. \A k \in 0..n : f[k] = IF k = 0 THEN a ELSE Step(f[k - 1])
      BY <1>5
    <2> QED
      BY <1>1, <2>1
  <1> DEFINE Same == {k \in Nat : k <= n => f[k] = Behind(a, k, n)}
  <1>7. 0 \in Same
    BY <1>2, <1>6
  <1>8. ASSUME NEW k \in Same PROVE k + 1 \in Same
    <2> SUFFICES ASSUME k + 1 <= n PROVE f[k + 1] = Behind(a, k + 1, n)
      OBVIOUS
    <2>1. k + 1 \in 1..n /\ (k + 1) - 1 = k /\ f[k] = Behind(a, k, n)
      BY <1>1
    <2> QED
      BY <1>2, <1>6, <2>1
  <1>9. Same \in SUBSET Nat
    OBVIOUS
  <1> HIDE DEF Same
  <1>10. Same = Nat
    BY <1>7, <1>8, <1>9, Induction
  <1>11. \A k \in 1..n : f[k - 1] = Behind(a, k - 1, n)
    <2> TAKE k \in 1..n
    <2>1. k - 1 \in Same /\ k - 1 <= n
      BY <1>1, <1>10
    <2> QED
      BY <2>1 DEF Same
  <1> QED
    BY <1>1, <1>5, <1>11 DEF n

-----------------------------------------------------------------------------
(* The slots the iterators meet are those the last values are held in. *)

LEMMA SlidingShape ==
  ASSUME WindowsInv
  PROVE  /\ Len(recent) \in 0..Capacity /\ sliding.length = Len(recent)
         /\ sliding.last \in 0..(Capacity - 1) /\ Capacity \in Nat
         /\ sliding.length = 0 => sliding.last = 0
         /\ sliding.length \in 1..(Capacity - 1) => sliding.last = sliding.length - 1
         /\ P_first(sliding) \in Nat /\ (P_first(sliding) < sliding.length \/ sliding.length = 0)
         /\ sliding.last < sliding.length \/ sliding.length = 0
         /\ \A k \in 1..Len(recent) :
              sliding.items[BackFrom(SlidingNext(sliding), Len(recent) + 1 - k)] = recent[k]
  <1>1. /\ sliding.length = Len(recent) /\ Len(recent) \in 0..Capacity /\ sliding.last \in Slots
        /\ (sliding.length = 0 => sliding.last = 0)
        /\ (sliding.length \in 1..(Capacity - 1) => sliding.last = sliding.length - 1)
        /\ Held(sliding.items, SlidingNext(sliding), recent)
    BY DEF WindowsInv, Slides
  <1> QED
    BY <1>1, WindowsFacts DEF Held, P_first

LEMMA ForwardHolds == ASSUME WindowsInv PROVE Forward(sliding) = recent
  <1> DEFINE n == Len(recent)
             a == P_first(sliding)
             items == sliding.items
  <1>1. recent \in Seq(Items) /\ n \in Nat
    BY DEF WindowsInv
  <1>2. Forward(sliding) = [k \in 1..n |-> items[Onward(a, k - 1, n)]]
    <2>1. /\ sliding.length = n /\ sliding.length \in Nat
          /\ P_first(sliding) \in Nat /\ (P_first(sliding) < sliding.length \/ sliding.length = 0)
      BY <1>1, SlidingShape
    <2>2. Forward(sliding) =
            [k \in 1..sliding.length |-> sliding.items[Onward(P_first(sliding), k - 1, sliding.length)]]
      BY <2>1, ForwardIs
    <2> QED
      BY <2>1, <2>2
  <1>3. \A k \in 1..n : Onward(a, k - 1, n) = BackFrom(SlidingNext(sliding), n + 1 - k)
    <2> TAKE k \in 1..n
    <2>1. CASE n < Capacity
      BY <2>1, SlidingShape, SMTT(30) DEF Onward, BackFrom, SlidingNext, NextSlot, P_first
    <2>2. CASE n = Capacity
      <3>1. /\ a = (IF sliding.last + 1 >= n THEN 0 ELSE sliding.last + 1)
            /\ SlidingNext(sliding) = a /\ a \in 0..(n - 1)
        BY <1>1, <2>2, SlidingShape DEF SlidingNext, NextSlot, P_first
      <3> HIDE DEF a, n
      <3> QED
        BY <1>1, <2>2, <3>1, SMTT(30) DEF Onward, BackFrom
    <2> QED
      BY <2>1, <2>2, SlidingShape
  <1>4. \A k \in 1..n : items[Onward(a, k - 1, n)] = recent[k]
    <2>1. \A k \in 1..n : items[BackFrom(SlidingNext(sliding), n + 1 - k)] = recent[k]
      BY SlidingShape
    <2> QED
      BY <1>3, <2>1
  <1>5. recent = [k \in 1..n |-> recent[k]]
    BY <1>1
  <1> HIDE DEF n, items, a
  <1> QED
    BY <1>2, <1>4, <1>5

LEMMA BackwardHolds == ASSUME WindowsInv PROVE Backward(sliding) = Reverse(recent)
  <1> DEFINE n == Len(recent)
             a == sliding.last
             items == sliding.items
  <1>1. recent \in Seq(Items) /\ n \in Nat
    BY DEF WindowsInv
  <1>2. Backward(sliding) = [k \in 1..n |-> items[Behind(a, k - 1, n)]]
    BY <1>1, SlidingShape, BackwardIs
  <1>3. \A k \in 1..n : Behind(a, k - 1, n) = BackFrom(SlidingNext(sliding), k)
    <2> TAKE k \in 1..n
    <2>1. CASE n < Capacity
      BY <2>1, SlidingShape DEF Behind, BackFrom, SlidingNext, NextSlot
    <2>2. CASE n = Capacity
      BY <2>2, SlidingShape DEF Behind, BackFrom, SlidingNext, NextSlot
    <2> QED
      BY <2>1, <2>2, SlidingShape
  <1>4. \A k \in 1..n : items[Behind(a, k - 1, n)] = recent[(n - k) + 1]
    <2> TAKE k \in 1..n
    <2>1. (n - k) + 1 \in 1..n /\ n + 1 - ((n - k) + 1) = k
      BY <1>1
    <2>2. items[BackFrom(SlidingNext(sliding), n + 1 - ((n - k) + 1))] = recent[(n - k) + 1]
      BY <2>1, SlidingShape
    <2> QED
      BY <1>3, <2>1, <2>2
  <1>5. Reverse(recent) = [k \in 1..n |-> recent[(n - k) + 1]]
    BY DEF Reverse
  <1> HIDE DEF n, items, a
  <1> QED
    BY <1>2, <1>4, <1>5

\* No difference of operator[] below zero: neither remainder takes anything away.
LEMMA AtHolds == ASSUME WindowsInv PROVE AtCountsBack
  <1> SUFFICES ASSUME NEW i \in DOMAIN recent, i - 1 <= sliding.last
               PROVE  At(sliding, i - 1) = Reverse(recent)[i]
    BY DEF AtCountsBack
  <1> DEFINE n == Len(recent)
             d == sliding.last - (i - 1)
  <1>1. recent \in Seq(Items) /\ n \in Nat /\ i \in 1..n
    BY DEF WindowsInv
  <1>2. /\ sliding.length = n /\ n \in 1..Capacity /\ d \in 0..(n - 1) /\ SizeMod \in Nat
        /\ Capacity < SizeMod
    BY <1>1, SlidingShape, WindowsAssumption
  <1>3. d % SizeMod = d /\ d % n = d
    <2> HIDE DEF d, n
    <2>1. SizeMod \in Nat \ {0} /\ n \in Nat \ {0} /\ d \in 0..(SizeMod - 1)
      BY <1>2, WindowsFacts
    <2> QED
      BY <1>2, <2>1, ModSmall
  <1>4. At(sliding, i - 1) = sliding.items[d]
    BY <1>2, <1>3 DEF At, P_last
  <1>5. Backward(sliding)[i] = sliding.items[Behind(sliding.last, i - 1, n)]
    <2>1. Backward(sliding) =
            [k \in 1..sliding.length |-> sliding.items[Behind(sliding.last, k - 1, sliding.length)]]
      BY SlidingShape, BackwardIs
    <2> QED
      BY <1>1, <1>2, <2>1
  <1>6. Behind(sliding.last, i - 1, n) = d
    BY <1>1, SlidingShape DEF Behind
  <1> QED
    BY <1>4, <1>5, <1>6, BackwardHolds

\* The window gives its values in order, by either iterator and by index, for
\* any capacity: SlidingWindow::append, const_iterator, reverse_const_iterator
\* and operator[].
THEOREM ReadInOrderHolds == WindowsSpec => []ReadInOrder
  <1>1. WindowsInv => ReadInOrder
    BY ForwardHolds, BackwardHolds, AtHolds DEF ReadInOrder, IteratesInOrder
  <1> QED
    BY <1>1, InitWindows, StepWindows, PTL DEF WindowsSpec
=============================================================================
