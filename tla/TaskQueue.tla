------------------------------ MODULE TaskQueue ------------------------------
(***************************************************************************)
(* What a scheduler of one-shot tasks promises to its client, without its  *)
(* pool and its linked list: for every time a queue of the tasks due then, *)
(* in the order they were submitted.  A handle call runs the due tasks,    *)
(* earliest first and in order of submission among equals, and returns     *)
(* only when nothing due is left.  SchedulerSoft implements this module.   *)
(***************************************************************************)
EXTENDS Integers, Sequences, FiniteSets, TaskList

CONSTANTS
  Ids,        \* task identifications
  Times,      \* values of the time type
  Capacity,   \* how many tasks can wait at once
  NoTask      \* nothing is running

VARIABLES
  due,        \* the tasks waiting for each time, oldest submission first
  now,        \* the time given to the last handle call
  handling,   \* a handle call is in progress
  running     \* the task whose handler is running

qvars == <<due, now, handling, running>>

\* Client code runs outside a handle call and inside a task's handler.
ClientRuns == ~handling \/ running # NoTask

\* The places taken: a time and a number in its queue.
Waiting == {place \in Times \X (1..Capacity) : place[2] <= Len(due[place[1]])}
DueTimes == {t \in Times : t <= now /\ due[t] # << >>}

QInit ==
  /\ due = [t \in Times |-> << >>]
  /\ now = 0
  /\ handling = FALSE
  /\ running = NoTask

Submit(id, t) ==
  /\ ClientRuns
  /\ due' = IF Cardinality(Waiting) < Capacity
            THEN [due EXCEPT ![t] = Append(@, id)] ELSE due
  /\ UNCHANGED <<now, handling, running>>

Cancel(id) ==
  /\ ClientRuns
  /\ due' = [t \in Times |-> Picked(due[t], {k \in DOMAIN due[t] : due[t][k] # id})]
  /\ UNCHANGED <<now, handling, running>>

Call ==
  /\ ~handling
  /\ handling' = TRUE
  /\ now' \in Times
  /\ UNCHANGED <<due, running>>

Run ==
  /\ handling /\ running = NoTask
  /\ \E t \in DueTimes :
       /\ \A other \in DueTimes : t <= other
       /\ running' = [id |-> Head(due[t]), time |-> t]
       /\ due' = [due EXCEPT ![t] = Tail(@)]
  /\ UNCHANGED <<now, handling>>

Ran ==
  /\ running # NoTask
  /\ running' = NoTask
  /\ UNCHANGED <<due, now, handling>>

Return ==
  /\ handling /\ running = NoTask
  /\ DueTimes = {}
  /\ handling' = FALSE
  /\ UNCHANGED <<due, now, running>>

QNext ==
  \/ \E id \in Ids, t \in Times : Submit(id, t)
  \/ \E id \in Ids : Cancel(id)
  \/ Call
  \/ Run
  \/ Ran
  \/ Return

QSpec == QInit /\ [][QNext]_qvars
=============================================================================
