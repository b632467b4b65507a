---------------------------- MODULE GBlinkerProofs ----------------------------
(***************************************************************************)
(* What the strobe blinker promises, whichever patterns are switched on    *)
(* and off: it is the task that G602 is composed with.                     *)
(*                                                                         *)
(* PlaysOnce is inductive: that the task waits exactly while something is  *)
(* shown needs that the pattern shown is the first of those asked for, and *)
(* that one needs that only an intermission leaves the player empty.       *)
(***************************************************************************)
EXTENDS GBlinker, TLAPS

-----------------------------------------------------------------------------
(* The order of the patterns.                                              *)

LEMMA TypesAre ==
  Types = {"ACCELERATING", "BRAKING", "B1TIME", "B2TIME", "B3TIME", "FAST6", "SLOW", "FAST"}
  BY DEF Types, BlinkTypes

LEMMA Ranks ==
  /\ Rank("ACCELERATING") = 1 /\ Rank("BRAKING") = 2 /\ Rank("B1TIME") = 3
  /\ Rank("B2TIME") = 4 /\ Rank("B3TIME") = 5 /\ Rank("FAST6") = 6
  /\ Rank("SLOW") = 7 /\ Rank("FAST") = 8
  BY DEF Rank, BlinkTypes

\* Of two patterns one comes first; this is what P_blinker_max_priority_get
\* compares.
First(mine, theirs) ==
  \/ P_blink_descrs[mine].priority > P_blink_descrs[theirs].priority
  \/ /\ P_blink_descrs[mine].priority = P_blink_descrs[theirs].priority
     /\ Rank(mine) < Rank(theirs)

LEMMA FirstIsRank ==
  ASSUME NEW mine \in Types, NEW theirs \in Types, mine # theirs, Rank(mine) <= Rank(theirs)
  PROVE  First(mine, theirs)
  BY TypesAre, Ranks DEF First, P_blink_descrs

LEMMA RankType == \A type \in Types : Rank(type) \in 1..8
  BY TypesAre, Ranks

\* Among patterns that are on there is one of the least rank.
LEMMA LeastExists ==
  ASSUME NEW on \in SUBSET Types, on # {}
  PROVE  \E type \in on : \A other \in on : Rank(type) <= Rank(other)
  <1> DEFINE Found(n) == \E type \in on : Rank(type) = n
  <1>1. \A type \in on : Rank(type) \in 1..8
    BY RankType
  <1>2. \E n \in 1..8 : Found(n) /\ \A m \in 1..(n - 1) : ~Found(m)
    <2>1. \E n \in 1..8 : Found(n)
      BY <1>1
    <2> HIDE DEF Found
    <2> QED
      BY <2>1
  <1>3. PICK n \in 1..8 : Found(n) /\ \A m \in 1..(n - 1) : ~Found(m)
    BY <1>2
  <1>4. PICK type \in on : Rank(type) = n
    BY <1>3
  <1> QED
    BY <1>1, <1>3, <1>4

\* What is chosen is one of those that are on.
LEMMA MaxPriority ==
  ASSUME NEW on \in SUBSET Types
  PROVE  /\ on = {} => P_blinker_max_priority_get(on) = NoType
         /\ on # {} => P_blinker_max_priority_get(on) \in on
  <1>1. ASSUME on # {}
        PROVE  P_blinker_max_priority_get(on) \in on
    <2>1. \E type \in on : \A other \in on \ {type} : First(type, other)
      BY <1>1, LeastExists, FirstIsRank
    <2> QED
      BY <1>1, <2>1 DEF P_blinker_max_priority_get, First
  <1> QED
    BY <1>1 DEF P_blinker_max_priority_get

LEMMA Sizes ==
  \A type \in Types : P_blink_descrs[type].size \in 1..23
  BY TypesAre DEF P_blink_descrs

-----------------------------------------------------------------------------
(* The invariant.                                                          *)

\* What typeSet does to the pattern chosen and to the player.
LEMMA TypeSetChooses ==
  ASSUME PlaysOnce, NEW type \in Types, NEW on \in BOOLEAN, typeSet(type, on)
  PROVE  /\ m_on' \subseteq Types
         /\ m_index' = P_blinker_max_priority_get(m_on')
         /\ m_index' \in Types \cup {NoType}
         /\ m_index' = NoType <=> m_on' = {}
         /\ m_index' \in m_on' \cup {NoType}
  <1>1. m_on' \subseteq Types /\ m_index' = P_blinker_max_priority_get(m_on')
    BY DEF PlaysOnce, TypeOK, typeSet
  <1> QED
    BY <1>1, MaxPriority, GBlinkerAssumption

\* A request keeps the invariant, switched on or off.
LEMMA SetAndArmKeeps ==
  ASSUME PlaysOnce, NEW type \in Types, NEW on \in BOOLEAN, SetAndArm(type, on)
  PROVE  PlaysOnce'
  <1>1. typeSet(type, on)
    BY DEF SetAndArm
  <1>2. /\ m_on' \subseteq Types
        /\ m_index' = P_blinker_max_priority_get(m_on')
        /\ m_index' \in Types \cup {NoType}
    BY <1>1, TypeSetChooses
  <1>3. m_intermission' = m_intermission
    BY <1>1 DEF typeSet
  <1>4. CASE m_index' = m_index
    <2>1. armed' = armed
      BY <1>4 DEF SetAndArm, ActionFlags, PlaysOnce, TypeOK
    <2>2. UNCHANGED <<player, strober>>
      BY <1>1, <1>4 DEF SetAndArm, typeSet
    <2> QED
      BY <1>2, <1>3, <1>4, <2>1, <2>2
      DEF PlaysOnce, TypeOK, ArmedWhileShowing, PlaysTheIndex, player
  <1>5. CASE m_index' # m_index
    <2>1. armed' = IF m_index' = NoType THEN 0 ELSE 1
      BY <1>5 DEF SetAndArm, ActionFlags, PlaysOnce, ArmedWhileShowing
    <2>2. m_pattern' = m_index' /\ m_part' \in 0..23
      BY <1>1, <1>5 DEF typeSet, LoadPattern, UnloadPattern, PlaysOnce, TypeOK
    <2>5. m_light' \in BOOLEAN
      BY <1>1, <1>5, Zenon DEF typeSet, LoadPattern, UnloadPattern, PlaysOnce, TypeOK
    <2>3. m_pattern' # NoType => m_part' <= P_blink_descrs[m_pattern'].size
      BY <1>1, <1>2, <1>5, Sizes DEF typeSet, LoadPattern, UnloadPattern
    <2>4. strober' = strober
      BY DEF SetAndArm
    <2> QED
      BY <1>2, <1>3, <2>1, <2>2, <2>3, <2>4, <2>5
      DEF PlaysOnce, TypeOK, ArmedWhileShowing, PlaysTheIndex
  <1> QED
    BY <1>4, <1>5

\* A part shown stays within the pattern.
LEMMA ShowPartKeeps ==
  ASSUME PlaysOnce, ShowPart
  PROVE  PlaysOnce'
  <1>1. m_pattern # NoType /\ m_pattern \in Types
    BY DEF ShowPart, PatternEnded, PlaysOnce, TypeOK
  <1>2. m_part' \in 0..23 /\ m_part' <= P_blink_descrs[m_pattern].size
    BY <1>1, Sizes DEF ShowPart, NextPart, PlaysOnce, TypeOK
  <1>3. /\ UNCHANGED <<m_pattern, m_on, m_index, m_intermission, armed>>
        /\ m_light' \in BOOLEAN /\ strober' \in BOOLEAN
    BY DEF ShowPart, NextPart, PlaysOnce, TypeOK
  <1> QED
    BY <1>2, <1>3 DEF PlaysOnce, TypeOK, ArmedWhileShowing, PlaysTheIndex

\* While the task runs, it is armed once and something is shown.
LEMMA TaskRuns ==
  ASSUME PlaysOnce, armed > 0
  PROVE  armed = 1 /\ m_index \in Types /\ m_index \in m_on
  BY MaxPriority DEF PlaysOnce, TypeOK, ArmedWhileShowing, PlaysTheIndex

LEMMA EndPatternKeeps ==
  ASSUME PlaysOnce, EndPattern
  PROVE  PlaysOnce'
  <1>1. armed = 1
    BY TaskRuns DEF EndPattern
  <1>2. m_on' \subseteq Types /\ m_index' = P_blinker_max_priority_get(m_on')
    BY DEF EndPattern, PlaysOnce, TypeOK
  <1>3. m_index' \in Types \cup {NoType}
    BY <1>2, MaxPriority
  <1>4. m_pattern' = NoType /\ m_part' = m_part /\ m_light' = m_light /\ strober' = TRUE
    BY DEF EndPattern, UnloadPattern
  <1>5. m_index' = NoType \/ m_intermission'
    BY DEF EndPattern
  <1>6. armed' = IF m_index' = NoType THEN 0 ELSE 1
    BY <1>1 DEF EndPattern
  <1>7. m_intermission' \in BOOLEAN
    BY Zenon DEF EndPattern, PlaysOnce, TypeOK
  <1> QED
    BY <1>2, <1>3, <1>4, <1>5, <1>6, <1>7 DEF PlaysOnce, TypeOK, ArmedWhileShowing, PlaysTheIndex

LEMMA ResumeKeeps ==
  ASSUME PlaysOnce, Resume
  PROVE  PlaysOnce'
  <1>1. m_index \in Types
    BY TaskRuns DEF Resume
  <1>2. /\ m_pattern' = m_index /\ m_part' = 1 /\ m_light' = FALSE
        /\ strober' = FALSE /\ m_intermission' = FALSE
        /\ UNCHANGED <<m_on, m_index, armed>>
    BY <1>1, GBlinkerAssumption DEF Resume
  <1>3. 1 <= P_blink_descrs[m_index].size
    BY <1>1, Sizes
  <1>4. m_part' \in 0..23 /\ m_part' <= P_blink_descrs[m_pattern'].size
    BY <1>2, <1>3
  <1>5. m_light' \in BOOLEAN /\ strober' \in BOOLEAN /\ m_intermission' \in BOOLEAN
    BY <1>2, Zenon
  <1>6. TypeOK'
    BY <1>1, <1>2, <1>4, <1>5 DEF PlaysOnce, TypeOK
  <1>7. m_pattern' # NoType
    BY <1>1, <1>2, GBlinkerAssumption
  <1> QED
    BY <1>2, <1>6, <1>7 DEF PlaysOnce, ArmedWhileShowing, PlaysTheIndex

LEMMA InitPlaysOnce == Init => PlaysOnce
  <1> SUFFICES ASSUME Init PROVE PlaysOnce
    OBVIOUS
  <1>1. P_blinker_max_priority_get(m_on) = NoType
    BY DEF Init, P_blinker_max_priority_get
  <1>2. m_intermission \in BOOLEAN /\ m_light \in BOOLEAN /\ strober \in BOOLEAN
    BY Zenon DEF Init
  <1>3. TypeOK
    BY <1>2 DEF Init, TypeOK
  <1> QED
    BY <1>1, <1>3 DEF Init, PlaysOnce, ArmedWhileShowing, PlaysTheIndex

LEMMA StepPlaysOnce == PlaysOnce /\ [Next]_vars => PlaysOnce'
  <1> SUFFICES ASSUME PlaysOnce, [Next]_vars PROVE PlaysOnce'
    OBVIOUS
  <1>1. ASSUME NEW type \in Started, P_blinker_start(type) PROVE PlaysOnce'
    BY <1>1, SetAndArmKeeps, GBlinkerAssumption DEF P_blinker_start
  <1>2. ASSUME NEW type \in Cancelled, P_blinker_stop(type) PROVE PlaysOnce'
    BY <1>2, SetAndArmKeeps, GBlinkerAssumption DEF P_blinker_stop
  <1>3. CASE P_task_blinker
    BY <1>3, ShowPartKeeps, EndPatternKeeps, ResumeKeeps DEF P_task_blinker
  <1>4. CASE UNCHANGED vars
    BY <1>4 DEF PlaysOnce, TypeOK, ArmedWhileShowing, PlaysTheIndex, vars, player
  <1> QED
    BY <1>1, <1>2, <1>3, <1>4 DEF Next

\* The blinker's task waits exactly once while there is something to show, and
\* what is shown is the first of the patterns asked for, from its beginning.
THEOREM PlaysOnceHolds == Spec => []PlaysOnce
  BY InitPlaysOnce, StepPlaysOnce, PTL DEF Spec

-----------------------------------------------------------------------------
(* What a step may not do.                                                 *)

\* Only the last part of a pattern, or a call of P_blinker_stop, takes it from
\* the patterns asked for.
LEMMA StepShownInFull ==
  ASSUME PlaysOnce, [Next]_vars, NEW type \in m_on \ m_on'
  PROVE  \/ P_blinker_stop(type)
         \/ m_index = type /\ m_pattern = type /\ m_part = P_blink_descrs[type].size
  <1>1. ASSUME NEW asked \in Started, P_blinker_start(asked) PROVE FALSE
    BY <1>1 DEF P_blinker_start, SetAndArm, typeSet
  <1>2. ASSUME NEW off \in Cancelled, P_blinker_stop(off) PROVE P_blinker_stop(type)
    <2>1. type = off
      BY <1>2 DEF P_blinker_stop, SetAndArm, typeSet
    <2> QED
      BY <1>2, <2>1
  <1>3. ASSUME ShowPart \/ Resume \/ UNCHANGED vars PROVE FALSE
    BY <1>3 DEF ShowPart, Resume, vars
  <1>4. ASSUME EndPattern
        PROVE  m_index = type /\ m_pattern = type /\ m_part = P_blink_descrs[type].size
    <2>1. m_index = type /\ m_index # NoType
      BY <1>4, TaskRuns, GBlinkerAssumption DEF EndPattern
    <2>2. m_pattern = m_index
      BY <1>4, <2>1 DEF EndPattern, PlaysOnce, PlaysTheIndex
    <2> QED
      BY <1>4, <2>1, <2>2 DEF EndPattern, PatternEnded
  <1> QED
    BY <1>1, <1>2, <1>3, <1>4 DEF Next, P_task_blinker

LEMMA StepLit ==
  ASSUME PlaysOnce, P_task_blinker, m_on' = {}
  PROVE  strober' = TRUE
  <1>1. ASSUME ShowPart \/ Resume PROVE FALSE
    BY <1>1, TaskRuns DEF ShowPart, Resume
  <1> QED
    BY <1>1 DEF P_task_blinker, EndPattern

\* A pattern is forgotten only when its last part has been shown or it is called
\* off, and after the last pattern the lamp is lit.
THEOREM ShownToTheEndHolds == Spec => ShownToTheEnd
  <1>1. PlaysOnce /\ [Next]_vars =>
          [\A type \in m_on \ m_on' :
             \/ P_blinker_stop(type)
             \/ m_index = type /\ m_pattern = type /\ m_part = P_blink_descrs[type].size]_vars
    BY StepShownInFull
  <1>2. PlaysOnce /\ [Next]_vars => [P_task_blinker /\ m_on' = {} => strober']_vars
    BY StepLit
  <1> QED
    BY <1>1, <1>2, PlaysOnceHolds, PTL DEF Spec, ShownToTheEnd, ShownInFull, LitWhenIdle

-----------------------------------------------------------------------------
(* The refinement.                                                         *)

\* Whatever the patterns, the blinker is the task of BlinkerTask: a request arms
\* it if it was idle, a part of it leaves it armed or ends it.
THEOREM BlinkerTaskImplemented == Spec => ImplementsBlinkerTask
  <1>1. Init => Task!BInit
    BY DEF Init, Task!BInit
  <1>2. PlaysOnce /\ [Next]_vars => [Task!BNext]_(Task!bvars)
    <2> SUFFICES ASSUME PlaysOnce, [Next]_vars
                 PROVE  Task!BNext \/ UNCHANGED Task!bvars
      OBVIOUS
    <2>1. ASSUME NEW type \in Started, P_blinker_start(type) PROVE Task!BRequest
      <3>1. typeSet(type, TRUE) /\ type \in Types
        BY <2>1, GBlinkerAssumption DEF P_blinker_start, SetAndArm
      <3>2. m_index' # NoType
        BY <3>1, TypeSetChooses DEF typeSet
      <3>3. ActionFlags \in Task!Answers
        BY <3>2 DEF ActionFlags, Task!Answers
      <3>4. armed' = Task!ArmedAfter(ActionFlags)
        BY <2>1 DEF P_blinker_start, SetAndArm, Task!ArmedAfter
      <3> QED
        BY <3>2, <3>3, <3>4 DEF Task!BRequest
    <2>2. ASSUME NEW type \in Cancelled, P_blinker_stop(type) PROVE Task!BCancel \/ UNCHANGED Task!bvars
      <3>1. CASE m_index' = m_index
        BY <2>2, <3>1 DEF P_blinker_stop, SetAndArm, ActionFlags, Task!bvars, PlaysOnce, TypeOK
      <3>2. CASE m_index' # m_index /\ m_index' = NoType
        BY <2>2, <3>2 DEF P_blinker_stop, SetAndArm, ActionFlags, Task!BCancel
      <3>3. CASE m_index' # m_index /\ m_index' # NoType
        <4>1. m_index # NoType
          <5>1. typeSet(type, FALSE) /\ type \in Types
            BY <2>2, GBlinkerAssumption DEF P_blinker_stop, SetAndArm
          <5>2. m_on # {}
            BY <5>1, <3>3, TypeSetChooses DEF typeSet
          <5> QED
            BY <5>2, MaxPriority, GBlinkerAssumption DEF PlaysOnce, TypeOK, PlaysTheIndex
        <4>2. ActionFlags = {"UNSCHEDULE", "SCHEDULE"} /\ ActionFlags \in Task!Answers
          BY <3>3, <4>1 DEF ActionFlags, Task!Answers
        <4>3. armed' = Task!ArmedAfter(ActionFlags)
          BY <2>2 DEF P_blinker_stop, SetAndArm, Task!ArmedAfter
        <4> QED
          BY <3>3, <4>1, <4>2, <4>3 DEF Task!BCancel
      <3> QED
        BY <3>1, <3>2, <3>3
    <2>3. CASE P_task_blinker
      <3>1. ASSUME ShowPart \/ Resume PROVE Task!BPart
        BY <3>1 DEF ShowPart, Resume, Task!BPart
      <3>2. ASSUME EndPattern PROVE Task!BPart
        <4>1. m_index # NoType
          BY <3>2, TaskRuns, GBlinkerAssumption DEF EndPattern
        <4> QED
          BY <3>2, <4>1 DEF EndPattern, Task!BPart
      <3>3. Task!BPart
        BY <2>3, <3>1, <3>2 DEF P_task_blinker
      <3> QED
        BY <3>3 DEF Task!BNext
    <2>4. CASE UNCHANGED vars
      BY <2>4 DEF vars, Task!bvars
    <2> QED
      BY <2>1, <2>2, <2>3, <2>4 DEF Next, Task!BNext
  <1> QED
    BY <1>1, <1>2, PlaysOnceHolds, PTL DEF Spec, ImplementsBlinkerTask, Task!BSpec
=============================================================================
