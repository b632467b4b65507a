---------------------------- MODULE SchedulerSoft ----------------------------
(***************************************************************************)
(* The scheduler of nostd/schedulersoft: a fixed pool of tasks and a       *)
(* doubly linked list of the armed ones, kept in the order of their times. *)
(* The handler of a task runs inside handle() and may shedule and          *)
(* unshedule tasks itself, in the slot just freed for instance.            *)
(*                                                                         *)
(* A slot is free when its handler is null.  Times are stored as values of *)
(* time_type, that is modulo TimeMod; `clock' is the true time and `at' in *)
(* a task the true time it was asked for, both known to the model only.    *)
(***************************************************************************)
EXTENDS Integers, Sequences, FiniteSets, SequencesExt, TaskList

CONSTANTS
  Ids,                 \* task identifications
  scheduledTasksMax,   \* the size of the pool
  NoTask,              \* a free slot; no handler running
  TimeMod,             \* time_type counts modulo TimeMod
  MaxClock,            \* bound on the true time
  MaxDelay             \* bound on how far ahead the client shedules

ASSUME SchedulerAssumption ==
  /\ scheduledTasksMax \in Nat \ {0}
  /\ TimeMod \in Nat \ {0}
  /\ MaxClock \in Nat
  /\ MaxDelay \in Nat \ {0}

VARIABLES
  m_tasks,       \* the pool
  m_scheduled,   \* the list, as the sequence of the slots it links
  now,           \* the argument of the last handle call
  handling,      \* handle() is on the stack
  running,       \* the task whose handler handle() has called
  clock          \* the true time

pool == <<m_tasks, m_scheduled>>
vars == <<pool, now, handling, running, clock>>

Slots == 1..scheduledTasksMax
Times == 0..(TimeMod - 1)
Task  == [id : Ids, time : Times, at : 0..(MaxClock + MaxDelay)]

\* NoTask is no task, nor what a client sees of one.
ASSUME NoTaskAssumption == NoTask \notin Task /\ NoTask \notin [id : Ids, time : Times]

TypeOK ==
  /\ m_tasks \in [Slots -> Task \cup {NoTask}]
  /\ m_scheduled \in Seq(Slots)
  /\ now \in Times
  /\ handling \in BOOLEAN
  /\ running \in Task \cup {NoTask}
  /\ clock \in 0..MaxClock

Armed == {i \in Slots : m_tasks[i] # NoTask}
TimeAt(k) == m_tasks[m_scheduled[k]].time

Init ==
  /\ m_tasks = [i \in Slots |-> NoTask]
  /\ m_scheduled = << >>
  /\ now = 0
  /\ handling = FALSE
  /\ running = NoTask
  /\ clock = 0

-----------------------------------------------------------------------------
\* task_alloc: the first slot whose handler is null.
task_alloc == CHOOSE i \in Slots \ Armed : \A j \in Slots \ Armed : i <= j

\* Mutant: a task goes in front of those of the same time.
Place_BeforeEquals(time) ==
  CHOOSE k \in 0..Len(m_scheduled) :
    /\ k > 0 => time > TimeAt(k)
    /\ \A j \in (k + 1)..Len(m_scheduled) : time <= TimeAt(j)

\* The search from the tail: how many tasks stay in front of a task for time.
Place(time) ==
  CHOOSE k \in 0..Len(m_scheduled) :
    /\ k > 0 => time >= TimeAt(k)
    /\ \A j \in (k + 1)..Len(m_scheduled) : time < TimeAt(j)

\* shedule: nothing happens when the pool is full (OUT_OF_RESOURCES).
shedule(id, time, at) ==
  IF Armed = Slots THEN UNCHANGED pool
  ELSE /\ m_tasks' = [m_tasks EXCEPT ![task_alloc] = [id |-> id, time |-> time, at |-> at]]
       /\ m_scheduled' = InsertAt(m_scheduled, Place(time) + 1, task_alloc)

\* The list without the tasks that have the id.
Unlinked(id) ==
  Picked(m_scheduled, {k \in DOMAIN m_scheduled : m_tasks[m_scheduled[k]].id # id})

\* Mutant: the tasks are unlinked and their slots stay taken.
unshedule_Leaks(id) ==
  /\ m_scheduled' = Unlinked(id)
  /\ UNCHANGED m_tasks

\* unshedule: every task with the id is unlinked and its slot freed.
unshedule(id) ==
  /\ m_scheduled' = Unlinked(id)
  /\ m_tasks' = [i \in Slots |->
                   IF i \in Armed /\ m_tasks[i].id = id THEN NoTask ELSE m_tasks[i]]

-----------------------------------------------------------------------------
\* The client's own code asks for a time from now on, a handler for a later
\* time than its task's (G602.ino:225, 259, 372, 390, 582).
Shedule(id, delay) ==
  /\ IF running = NoTask
     THEN ~handling /\ shedule(id, (clock + delay) % TimeMod, clock + delay)
     ELSE /\ delay > 0
          /\ running.at + delay <= MaxClock + MaxDelay
          /\ shedule(id, (running.at + delay) % TimeMod, running.at + delay)
  /\ UNCHANGED <<now, handling, running, clock>>

Unshedule(id) ==
  /\ ~handling \/ running # NoTask
  /\ unshedule(id)
  /\ UNCHANGED <<now, handling, running, clock>>

\* The client's clock moves between two handle calls, any distance.
Handle(elapsed) ==
  /\ ~handling
  /\ clock + elapsed <= MaxClock
  /\ clock' = clock + elapsed
  /\ now' = clock' % TimeMod
  /\ handling' = TRUE
  /\ UNCHANGED <<pool, running>>

\* The list's head is due.
HeadDue == m_scheduled # << >> /\ TimeAt(1) <= now

\* Mutant: the task is called and stays in the list.
RunHead_LeavesTask ==
  /\ handling /\ running = NoTask /\ HeadDue
  /\ running' = m_tasks[Head(m_scheduled)]
  /\ UNCHANGED <<pool, now, handling, clock>>

\* One round of the loop: unlink the head, free its slot, call its handler.
RunHead ==
  /\ handling /\ running = NoTask /\ HeadDue
  /\ running' = m_tasks[Head(m_scheduled)]
  /\ m_tasks' = [m_tasks EXCEPT ![Head(m_scheduled)] = NoTask]
  /\ m_scheduled' = Tail(m_scheduled)
  /\ UNCHANGED <<now, handling, clock>>

HandlerReturns ==
  /\ running # NoTask
  /\ running' = NoTask
  /\ UNCHANGED <<pool, now, handling, clock>>

HandleReturns ==
  /\ handling /\ running = NoTask /\ ~HeadDue
  /\ handling' = FALSE
  /\ UNCHANGED <<pool, now, running, clock>>

\* nearestTime: the time of the head; 0 stands for an empty list.
nearestTime == IF m_scheduled = << >> THEN 0 ELSE TimeAt(1)

Next ==
  \/ \E id \in Ids, delay \in 0..MaxDelay : Shedule(id, delay)
  \/ \E id \in Ids : Unshedule(id)
  \/ \E elapsed \in 0..MaxClock : Handle(elapsed)
  \/ RunHead
  \/ HandlerReturns
  \/ HandleReturns

\* The loop of handle() goes on and handlers return.
Fairness == WF_vars(RunHead) /\ WF_vars(HandlerReturns) /\ WF_vars(HandleReturns)

Spec == Init /\ [][Next]_vars
FairSpec == Spec /\ Fairness

-----------------------------------------------------------------------------
\* No slot is lost and none is linked twice: after any sequence of calls, also
\* those a handler makes while handle() holds the head, the list links
\* exactly the slots that are taken.
SlotsAccounted ==
  /\ IsInjective(m_scheduled)
  /\ ToSet(m_scheduled) = Armed

\* The list is in the order of the times, so that its head is the nearest.
Sorted == \A j, k \in DOMAIN m_scheduled : j <= k => TimeAt(j) <= TimeAt(k)

\* nearestTime is a lower bound of every time in the pool, which G602::loop
\* trusts to sleep until then; 0 only if nothing waits or something waits for 0.
NearestIsNearest ==
  /\ \A i \in Armed : nearestTime <= m_tasks[i].time
  /\ Armed # {} => \E i \in Armed : nearestTime = m_tasks[i].time

\* The pool as a whole: slots and list agree and the nearest time is told,
\* also inside handlers that shedule and unshedule.
PoolAccounted == TypeOK /\ SlotsAccounted /\ NearestIsNearest

\* A handle call comes to an end although handlers put their tasks back.
HandleTerminates == handling ~> ~handling

TasksAt(t) == Picked(m_scheduled, {k \in DOMAIN m_scheduled : TimeAt(k) = t})

Queue == INSTANCE TaskQueue WITH
  Capacity <- scheduledTasksMax,
  due      <- [t \in Times |-> [k \in DOMAIN TasksAt(t) |-> m_tasks[TasksAt(t)[k]].id]],
  running  <- IF running = NoTask THEN NoTask ELSE [id |-> running.id, time |-> running.time]

\* The pool and the list implement the queue of module TaskQueue: due tasks run
\* earliest first, in order of submission among equals, a full pool refuses,
\* a cancelled task never runs, and handle() leaves nothing due behind.
ImplementsTaskQueue == Queue!QSpec

-----------------------------------------------------------------------------
\* schedulersoft.hpp:79, "Time, when task being handled": no task is handled
\* before the time it was asked for.
NeverEarly == running # NoTask => clock >= running.at
=============================================================================
