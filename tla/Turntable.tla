------------------------------ MODULE Turntable ------------------------------
(***************************************************************************)
(* What the control automaton promises to the person at the turntable,     *)
(* stated without its commands, its settings or its events.  There are     *)
(* four menus (the normal one and three service ones); in each the table   *)
(* is either stopped or started; the motor turns the platter and the lift  *)
(* holds the needle up or lets it down.  Ctrl implements this module.      *)
(***************************************************************************)
VARIABLES
  menu,      \* which menu the turntable is in
  started,   \* whether that menu's activity is started
  motor,     \* the motor is commanded to turn
  needle     \* "UP" or "DOWN"

tvars == <<menu, started, motor, needle>>

Menus == {"NORMAL", "SERVICE_MODE1", "SERVICE_MODE2", "SERVICE_MODE3"}

TableInit ==
  /\ menu = "NORMAL"
  /\ started = FALSE
  /\ motor = FALSE
  /\ needle = "UP"

\* The menu changes only while nothing is started.
SelectMenu ==
  /\ ~started
  /\ menu' \in Menus
  /\ UNCHANGED <<started, motor, needle>>

\* Starting turns the motor except in service mode 1, which only tries the
\* lift.  It lowers the needle in the normal menu and in service mode 1 and
\* leaves it up in service mode 3, which only tries the motor.  Of the needle
\* in service mode 2 nothing is promised: the manual has it lowered
\* (rev1/docs/manual.md:87), the firmware leaves it up (Ctrl.ino:601).
Start ==
  /\ ~started
  /\ started' = TRUE
  /\ motor' = (menu # "SERVICE_MODE1")
  /\ needle' \in {"UP", "DOWN"}
  /\ menu \in {"NORMAL", "SERVICE_MODE1"} => needle' = "DOWN"
  /\ menu = "SERVICE_MODE3" => needle' = "UP"
  /\ UNCHANGED menu

\* Stopping, by hand or by the autostop, leaves the motor off and the needle
\* up, and stays in the menu.
Stop ==
  /\ started
  /\ started' = FALSE
  /\ motor' = FALSE
  /\ needle' = "UP"
  /\ UNCHANGED menu

\* Allowing the autostop while its sensor is already tripped parks the table
\* without leaving the started mode (Ctrl.ino:259-269 and 371-381).
Park ==
  /\ started
  /\ menu = "NORMAL"
  /\ motor' = FALSE
  /\ needle' = "UP"
  /\ UNCHANGED <<menu, started>>

TableNext == SelectMenu \/ Start \/ Stop \/ Park

TableSpec == TableInit /\ [][TableNext]_tvars
=============================================================================
