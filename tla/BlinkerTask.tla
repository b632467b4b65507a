----------------------------- MODULE BlinkerTask -----------------------------
(***************************************************************************)
(* What the rest of the firmware sees of the strobe blinker: whether it is *)
(* blinking, and whether its task is armed.  Asking for a pattern while    *)
(* the blinker is idle arms the task; asking while it blinks leaves the    *)
(* task armed, either where it was or anew.  Each time the task runs it    *)
(* shows one part and arms itself again, or ends.                          *)
(* GBlinker implements this module and G602 is composed with it.           *)
(***************************************************************************)
EXTENDS Integers

VARIABLES
  blinking,   \* a pattern is being shown
  armed       \* how many times the blinker's task waits in the scheduler

bvars == <<blinking, armed>>

BInit ==
  /\ blinking = FALSE
  /\ armed = 0

\* The answers typeSet can give to a request: the action flags the caller obeys.
Answers == IF blinking THEN {{}, {"UNSCHEDULE", "SCHEDULE"}} ELSE {{"SCHEDULE"}}

\* What the caller does with them.
ArmedAfter(flags) ==
  (IF "UNSCHEDULE" \in flags THEN 0 ELSE armed) + (IF "SCHEDULE" \in flags THEN 1 ELSE 0)

BRequest ==
  /\ \E flags \in Answers : armed' = ArmedAfter(flags)
  /\ blinking' = TRUE

BPart ==
  /\ armed > 0
  /\ \/ UNCHANGED <<blinking, armed>>
     \/ blinking' = FALSE /\ armed' = armed - 1

\* The pattern shown is called off: another takes its place, or none.
BCancel ==
  \/ \E flags \in Answers : blinking /\ armed' = ArmedAfter(flags) /\ UNCHANGED blinking
  \/ blinking' = FALSE /\ armed' = 0

BNext == BRequest \/ BPart \/ BCancel
BSpec == BInit /\ [][BNext]_bvars
=============================================================================
