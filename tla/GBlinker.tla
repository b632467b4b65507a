------------------------------ MODULE GBlinker ------------------------------
(***************************************************************************)
(* The strobe blinker: GBlinker and the pattern player GBlinkerPatterned   *)
(* inside it, with the two client functions and the task of G602.ino that  *)
(* drive them.  Several patterns can be asked for at once; one is shown,   *)
(* the others wait.  Durations are abstracted: each part waits for some    *)
(* positive time, so the task simply runs again later.                     *)
(***************************************************************************)
EXTENDS Integers, Sequences, FiniteSets

CONSTANTS
  Started,     \* the patterns the client switches on
  Cancelled,   \* the patterns the client switches off: none in the firmware
  NoType       \* index -1; a null pattern

\* The enumeration BlinkType, in order.
BlinkTypes == <<"ACCELERATING", "BRAKING", "B1TIME", "B2TIME", "B3TIME",
                "FAST6", "SLOW", "FAST">>
Types == {BlinkTypes[i] : i \in DOMAIN BlinkTypes}
Rank(type) == CHOOSE i \in DOMAIN BlinkTypes : BlinkTypes[i] = type

\* P_blink_descrs: the number of parts, repetition, priority.
P_blink_descrs == [ACCELERATING |-> [size |-> 23, infinite |-> FALSE, priority |-> 1],
                   BRAKING      |-> [size |-> 23, infinite |-> FALSE, priority |-> 1],
                   B1TIME       |-> [size |-> 1,  infinite |-> FALSE, priority |-> 1],
                   B2TIME       |-> [size |-> 3,  infinite |-> FALSE, priority |-> 1],
                   B3TIME       |-> [size |-> 5,  infinite |-> FALSE, priority |-> 1],
                   FAST6        |-> [size |-> 11, infinite |-> FALSE, priority |-> 1],
                   SLOW         |-> [size |-> 1,  infinite |-> TRUE,  priority |-> 0],
                   FAST         |-> [size |-> 1,  infinite |-> TRUE,  priority |-> 0]]

ASSUME GBlinkerAssumption ==
  /\ Started \subseteq Types
  /\ Cancelled \subseteq Types
  /\ NoType \notin Types

VARIABLES
  m_on,             \* the patterns asked for and not yet shown to the end
  m_index,          \* the one being shown
  m_intermission,   \* the pause before the next one
  m_pattern,        \* GBlinkerPatterned: what is loaded, NoType for null
  m_part,           \*   its m_index
  m_light,          \*   its m_light
  armed,            \* how many times the blinker's task waits in the scheduler
  strober           \* the level of the strobe pin

player == <<m_pattern, m_part, m_light>>
vars   == <<m_on, m_index, m_intermission, player, armed, strober>>

TypeOK ==
  /\ m_on \subseteq Types
  /\ m_index \in Types \cup {NoType}
  /\ m_intermission \in BOOLEAN
  /\ m_pattern \in Types \cup {NoType}
  /\ m_part \in 0..23
  /\ m_pattern # NoType => m_part <= P_blink_descrs[m_pattern].size
  /\ m_light \in BOOLEAN
  /\ armed \in Nat
  /\ strober \in BOOLEAN

Init ==
  /\ m_on = {}
  /\ m_index = NoType
  /\ m_intermission = FALSE
  /\ m_pattern = NoType
  /\ m_part = 0
  /\ m_light = FALSE
  /\ armed = 0
  /\ strober = TRUE

-----------------------------------------------------------------------------
\* The first of the highest priority among those that are on.
P_blinker_max_priority_get(on) ==
  IF on = {} THEN NoType
  ELSE CHOOSE type \in on : \A other \in on \ {type} :
         LET mine   == P_blink_descrs[type].priority
             theirs == P_blink_descrs[other].priority
         IN mine > theirs \/ (mine = theirs /\ Rank(type) < Rank(other))

\* GBlinkerPatterned::start and ::stop.
LoadPattern(type) == m_pattern' = type /\ m_part' = 0 /\ m_light' = TRUE
UnloadPattern == m_pattern' = NoType /\ UNCHANGED <<m_part, m_light>>

\* GBlinkerPatterned::partGet has no part to give.
PatternEnded ==
  \/ m_pattern = NoType
  \/ m_part = P_blink_descrs[m_pattern].size /\ ~P_blink_descrs[m_pattern].infinite

\* GBlinkerPatterned::partGet gives a part.
NextPart ==
  /\ m_part' = (IF m_part = P_blink_descrs[m_pattern].size THEN 0 ELSE m_part) + 1
  /\ m_light' = ~m_light
  /\ UNCHANGED m_pattern

\* Mutant: the caller of typeSet is not told to take the old task away.
ActionFlags_NoUnschedule ==
  IF m_index' # m_index /\ m_index' # NoType THEN {"SCHEDULE"} ELSE {}

\* The flags typeSet answers with.
ActionFlags ==
  (IF m_index' # m_index /\ m_index # NoType THEN {"UNSCHEDULE"} ELSE {}) \cup
  (IF m_index' # m_index /\ m_index' # NoType THEN {"SCHEDULE"} ELSE {})

\* Mutant: a pattern that is already waiting gives way to the new one.
typeSet_DropsOthers(type, on) ==
  /\ m_on' = IF on THEN {type} ELSE m_on \ {type}
  /\ m_index' = P_blinker_max_priority_get(m_on')
  /\ IF m_index' = m_index THEN UNCHANGED player
     ELSE IF m_index' # NoType THEN LoadPattern(m_index') ELSE UnloadPattern
  /\ UNCHANGED m_intermission

typeSet(type, on) ==
  /\ m_on' = IF on THEN m_on \cup {type} ELSE m_on \ {type}
  /\ m_index' = P_blinker_max_priority_get(m_on')
  /\ IF m_index' = m_index THEN UNCHANGED player
     ELSE IF m_index' # NoType THEN LoadPattern(m_index') ELSE UnloadPattern
  /\ UNCHANGED m_intermission

\* G602::P_blinker_start and P_blinker_stop: typeSet, then unshedule and
\* shedule as it says.
SetAndArm(type, on) ==
  /\ typeSet(type, on)
  /\ armed' = (IF "UNSCHEDULE" \in ActionFlags THEN 0 ELSE armed) +
              (IF "SCHEDULE" \in ActionFlags THEN 1 ELSE 0)
  /\ UNCHANGED strober

P_blinker_start(type) == SetAndArm(type, TRUE)
P_blinker_stop(type)  == SetAndArm(type, FALSE)

-----------------------------------------------------------------------------
(***************************************************************************)
(* scheduledPartGet, called by G602::P_task_blinker, which drives the pin  *)
(* and shedules itself again unless the blinking has ended.                *)
(***************************************************************************)
ShowPart ==
  /\ armed > 0 /\ ~m_intermission /\ ~PatternEnded
  /\ NextPart
  /\ strober' = ~m_light
  /\ UNCHANGED <<m_on, m_index, m_intermission, armed>>

\* Mutant: the blinking ends with the pattern, whatever else is waiting.
EndPattern_ForgetsOthers ==
  /\ armed > 0 /\ ~m_intermission /\ PatternEnded
  /\ UnloadPattern
  /\ m_on' = m_on \ {m_index}
  /\ m_index' = P_blinker_max_priority_get(m_on')
  /\ strober' = TRUE
  /\ armed' = armed - 1
  /\ UNCHANGED m_intermission

\* The pattern has been shown: the next one waits for an intermission, or the
\* task ends with the lamp lit.
EndPattern ==
  /\ armed > 0 /\ ~m_intermission /\ PatternEnded
  /\ UnloadPattern
  /\ m_on' = m_on \ {m_index}
  /\ m_index' = P_blinker_max_priority_get(m_on')
  /\ strober' = TRUE
  /\ IF m_index' = NoType
     THEN armed' = armed - 1 /\ UNCHANGED m_intermission
     ELSE m_intermission' = TRUE /\ UNCHANGED armed

\* Mutant: the intermission never ends.
Resume_StaysInIntermission ==
  /\ armed > 0 /\ m_intermission
  /\ m_pattern' = m_index /\ m_part' = 1 /\ m_light' = FALSE
  /\ strober' = FALSE
  /\ UNCHANGED <<m_on, m_index, m_intermission, armed>>

\* After the intermission the pattern is loaded and its first part shown.
Resume ==
  /\ armed > 0 /\ m_intermission
  /\ m_intermission' = FALSE
  /\ IF m_index # NoType
     THEN m_pattern' = m_index /\ m_part' = 1 /\ m_light' = FALSE /\ strober' = FALSE
     ELSE UNCHANGED player /\ strober' = TRUE
  /\ UNCHANGED <<m_on, m_index, armed>>

P_task_blinker == ShowPart \/ EndPattern \/ Resume

Next ==
  \/ \E type \in Started : P_blinker_start(type)
  \/ \E type \in Cancelled : P_blinker_stop(type)
  \/ P_task_blinker

\* The scheduler runs an armed task in the end; nothing is assumed of requests.
Spec == Init /\ [][Next]_vars
FairSpec == Spec /\ WF_vars(P_task_blinker)

-----------------------------------------------------------------------------
\* The blinker's task waits exactly once while there is something to show and
\* not at all otherwise, whatever requests arrive before, between and in the
\* parts of a pattern: twice would play it at double speed and eat the pool.
ArmedWhileShowing == armed = IF m_index = NoType THEN 0 ELSE 1

\* What is shown is the pattern that was asked for, from its beginning, also
\* after a request that came in the intermission.
PlaysTheIndex ==
  /\ m_index = P_blinker_max_priority_get(m_on)
  /\ m_pattern \in {m_index, NoType}
  /\ m_pattern = NoType => m_index = NoType \/ m_intermission

\* Together: what is asked for plays once at a time, and from its beginning.
PlaysOnce == TypeOK /\ ArmedWhileShowing /\ PlaysTheIndex

\* Where the task ends the blinking, the lamp is lit, however the last pattern
\* was cut.  (One called off from outside leaves the lamp as it is.)
LitWhenIdle == [][P_task_blinker /\ m_on' = {} => strober']_vars

\* A request that is not called off is forgotten only when its last part has
\* been shown: one overtaken by a more urgent request starts again later.
ShownInFull ==
  [][\A type \in m_on \ m_on' :
       \/ P_blinker_stop(type)
       \/ m_index = type /\ m_pattern = type /\ m_part = P_blink_descrs[type].size]_vars

\* Every pattern goes to its last part, and where the task ends the blinking the
\* lamp is lit.
ShownToTheEnd == ShownInFull /\ LitWhenIdle

\* Every request for a pattern that ends is shown or called off, unless more
\* urgent ones keep coming.
EveryRequestShown ==
  \A type \in {t \in Started : ~P_blink_descrs[t].infinite} :
    <>[][\A other \in m_on' \ m_on : Rank(other) >= Rank(type)]_vars
      => (type \in m_on ~> type \notin m_on)

Task == INSTANCE BlinkerTask WITH blinking <- m_index # NoType

\* The blinker is the task that G602 is composed with.
ImplementsBlinkerTask == Task!BSpec
=============================================================================
