-------------------------- MODULE SchedulerSoftProofs --------------------------
(***************************************************************************)
(* Proofs about the scheduler, for a pool of any size, any identifications *)
(* and any width of the time: no slot is lost, the head is the nearest     *)
(* task, and the list implements the queues of TaskQueue.                  *)
(***************************************************************************)
EXTENDS SchedulerSoft, ListProofs, FiniteSetTheorems, TLAPS

(***************************************************************************)
(* The list links exactly the slots that are taken, each of them once, in  *)
(* the order of their times.                                               *)
(***************************************************************************)

Linked ==
  /\ \A j, k \in 1..Len(m_scheduled) : m_scheduled[j] = m_scheduled[k] => j = k
  /\ \A k \in 1..Len(m_scheduled) : m_scheduled[k] \in Armed
  /\ \A i \in Armed : \E k \in 1..Len(m_scheduled) : m_scheduled[k] = i

InOrder == \A j, k \in 1..Len(m_scheduled) : j <= k => TimeAt(j) <= TimeAt(k)

SchedInv == TypeOK /\ Linked /\ InOrder

LEMMA Bounds ==
  /\ TimeMod \in Nat /\ TimeMod > 0 /\ MaxClock \in Nat /\ MaxDelay \in Nat
  /\ scheduledTasksMax \in Nat
  /\ \A x \in Nat : x % TimeMod \in Times
  /\ Times \subseteq Int /\ 0 \in Times
  <1>1. /\ TimeMod \in Nat /\ TimeMod > 0 /\ MaxClock \in Nat /\ MaxDelay \in Nat
        /\ scheduledTasksMax \in Nat
    BY SchedulerAssumption
  <1>2. \A x \in Int : x % TimeMod \in 0..(TimeMod - 1)
    BY <1>1
  <1> QED
    BY <1>1, <1>2 DEF Times

LEMMA TaskTyped ==
  ASSUME NEW t \in Task
  PROVE  /\ t.id \in Ids /\ t.time \in Times /\ t.time \in Int
         /\ t.at \in 0..(MaxClock + MaxDelay) /\ t # NoTask
  BY Bounds, NoTaskAssumption DEF Task, Times

LEMMA Entries ==
  ASSUME TypeOK
  PROVE  /\ m_scheduled \in Seq(Slots) /\ Len(m_scheduled) \in Nat
         /\ DOMAIN m_scheduled = 1..Len(m_scheduled)
         /\ \A k \in 1..Len(m_scheduled) : m_scheduled[k] \in Slots
         /\ \A i \in Armed : i \in Slots /\ m_tasks[i] \in Task /\ m_tasks[i].time \in Times
                             /\ m_tasks[i].time \in Int /\ m_tasks[i].id \in Ids
  <1>1. m_scheduled \in Seq(Slots) /\ m_tasks \in [Slots -> Task \cup {NoTask}]
    BY DEF TypeOK
  <1>2. \A i \in Armed : i \in Slots /\ m_tasks[i] \in Task
    BY <1>1 DEF Armed
  <1>3. \A k \in 1..Len(m_scheduled) : m_scheduled[k] \in Slots
    BY <1>1, ElementOfSeq
  <1> QED
    BY <1>1, <1>2, <1>3, TaskTyped

LEMMA InitSched == Init => SchedInv
  <1> SUFFICES ASSUME Init PROVE SchedInv
    OBVIOUS
  <1>1. m_scheduled = << >> /\ m_tasks = [i \in Slots |-> NoTask]
    BY DEF Init
  <1>2. Armed = {} /\ 1..Len(m_scheduled) = {}
    BY <1>1 DEF Armed
  <1>3. TypeOK
    <2>1. m_tasks \in [Slots -> Task \cup {NoTask}] /\ m_scheduled \in Seq(Slots)
      BY <1>1
    <2>2. now \in Times /\ handling \in BOOLEAN /\ running \in Task \cup {NoTask}
      BY Bounds DEF Init
    <2>3. clock \in 0..MaxClock
      BY Bounds DEF Init
    <2> QED
      BY <2>1, <2>2, <2>3 DEF TypeOK
  <1> QED
    BY <1>2, <1>3 DEF SchedInv, Linked, InOrder

\* task_alloc finds a slot while there is one.
LEMMA Allocated ==
  ASSUME Armed # Slots
  PROVE  task_alloc \in Slots /\ task_alloc \notin Armed
  <1> DEFINE Free == Slots \ Armed
  <1>1. Free # {} /\ Free \in SUBSET Nat
    BY Bounds DEF Armed, Slots
  <1>2. \E i \in Free : \A j \in Free : i <= j
    <2> HIDE DEF Free
    <2> QED
      BY <1>1, Least
  <1>3. task_alloc \in Free
    BY <1>2 DEF task_alloc
  <1> QED
    BY <1>3

\* The search from the tail ends behind the last task that is not later.
LEMMA PlaceIs ==
  ASSUME SchedInv, NEW time \in Int
  PROVE  /\ Place(time) \in 0..Len(m_scheduled)
         /\ Place(time) > 0 => TimeAt(Place(time)) <= time
         /\ \A j \in (Place(time) + 1)..Len(m_scheduled) : time < TimeAt(j)
  <1> DEFINE Stops(k) == /\ k > 0 => time >= TimeAt(k)
                         /\ \A j \in (k + 1)..Len(m_scheduled) : time < TimeAt(j)
             Earlier == {i \in 1..Len(m_scheduled) : TimeAt(i) <= time}
  <1>1. Len(m_scheduled) \in Nat /\ \A i \in 1..Len(m_scheduled) : TimeAt(i) \in Int
    BY Entries DEF SchedInv, Linked, TimeAt
  <1>2. PICK k \in 0..Len(m_scheduled) :
          (k > 0 => k \in Earlier) /\ \A j \in (k + 1)..Len(m_scheduled) : j \notin Earlier
    <2> HIDE DEF Earlier
    <2> QED
      BY <1>1, LastPlace
  <1>3. k > 0 => time >= TimeAt(k)
    BY <1>1, <1>2
  <1>4. ASSUME NEW j \in (k + 1)..Len(m_scheduled) PROVE time < TimeAt(j)
    <2>1. j \in 1..Len(m_scheduled) /\ j \notin Earlier
      BY <1>1, <1>2
    <2> QED
      BY <1>1, <2>1
  <1>5. Stops(k)
    BY <1>3, <1>4
  <1>6. Place(time) = CHOOSE l \in 0..Len(m_scheduled) : Stops(l)
    BY DEF Place
  <1> HIDE DEF Stops
  <1>7. Place(time) \in 0..Len(m_scheduled) /\ Stops(Place(time))
    BY <1>2, <1>5, <1>6
  <1>8. Place(time) > 0 => Place(time) \in 1..Len(m_scheduled)
    BY <1>1, <1>7
  <1> QED
    BY <1>1, <1>7, <1>8 DEF Stops

\* In order, all tasks up to that place are not later.
LEMMA BeforePlace ==
  ASSUME SchedInv, NEW time \in Int, NEW k \in 1..Len(m_scheduled), k <= Place(time)
  PROVE  TimeAt(k) <= time
  <1>4. Len(m_scheduled) \in Nat
    BY Entries DEF SchedInv
  <1>1. Place(time) \in 1..Len(m_scheduled) /\ TimeAt(Place(time)) <= time
    BY <1>4, PlaceIs, SMTT(30)
  <1>2. TimeAt(k) <= TimeAt(Place(time))
    BY <1>1 DEF SchedInv, InOrder
  <1>3. TimeAt(k) \in Int /\ TimeAt(Place(time)) \in Int
    BY <1>1, Entries DEF SchedInv, Linked, TimeAt
  <1> QED
    BY <1>1, <1>2, <1>3
-----------------------------------------------------------------------------
(***************************************************************************)
(* What the operations do to the pool and the list.                        *)
(***************************************************************************)

LEMMA SheduleDoes ==
  ASSUME SchedInv, NEW id \in Ids, NEW time \in Times, NEW at \in 0..(MaxClock + MaxDelay),
         Armed # Slots, shedule(id, time, at)
  PROVE  /\ m_scheduled' \in Seq(Slots) /\ Len(m_scheduled') = Len(m_scheduled) + 1
         /\ \A i \in 1..(Len(m_scheduled) + 1) :
              m_scheduled'[i] = IF i <= Place(time) THEN m_scheduled[i]
                                ELSE IF i = Place(time) + 1 THEN task_alloc
                                ELSE m_scheduled[i - 1]
         /\ m_tasks' \in [Slots -> Task \cup {NoTask}]
         /\ m_tasks'[task_alloc] = [id |-> id, time |-> time, at |-> at]
         /\ \A i \in Armed : m_tasks'[i] = m_tasks[i]
         /\ \A i : i \in Armed' <=> i \in Armed \/ i = task_alloc
  <1> DEFINE e == [id |-> id, time |-> time, at |-> at]
  <1>1. e \in Task /\ e # NoTask
    <2>1. e \in Task
      BY DEF Task
    <2> QED
      BY <2>1, NoTaskAssumption
  <1>2. task_alloc \in Slots /\ task_alloc \notin Armed
    BY Allocated
  <1>3. m_tasks' = [m_tasks EXCEPT ![task_alloc] = e]
        /\ m_scheduled' = InsertAt(m_scheduled, Place(time) + 1, task_alloc)
    BY DEF shedule
  <1>4. m_scheduled \in Seq(Slots) /\ Place(time) \in 0..Len(m_scheduled)
    BY Bounds, PlaceIs, Entries DEF SchedInv
  <1>5. /\ m_scheduled' \in Seq(Slots) /\ Len(m_scheduled') = Len(m_scheduled) + 1
        /\ \A i \in 1..(Len(m_scheduled) + 1) :
             m_scheduled'[i] = IF i <= Place(time) THEN m_scheduled[i]
                               ELSE IF i = Place(time) + 1 THEN task_alloc
                               ELSE m_scheduled[i - 1]
    BY <1>2, <1>3, <1>4, Inserted, SMTT(30)
  <1> HIDE DEF e
  <1>6. m_tasks \in [Slots -> Task \cup {NoTask}]
    BY DEF SchedInv, TypeOK
  <1>7. /\ m_tasks' \in [Slots -> Task \cup {NoTask}]
        /\ m_tasks'[task_alloc] = e
        /\ \A i \in Slots : i # task_alloc => m_tasks'[i] = m_tasks[i]
    BY <1>1, <1>2, <1>3, <1>6
  <1>8. \A i : i \in Armed' <=> i \in Armed \/ i = task_alloc
    BY <1>1, <1>2, <1>7 DEF Armed
  <1>9. \A i \in Armed : m_tasks'[i] = m_tasks[i]
    BY <1>2, <1>7 DEF Armed
  <1> QED
    BY <1>5, <1>7, <1>8, <1>9 DEF e

LEMMA SheduleKeeps ==
  ASSUME SchedInv, NEW id \in Ids, NEW time \in Times, NEW at \in 0..(MaxClock + MaxDelay),
         shedule(id, time, at)
  PROVE  /\ m_tasks' \in [Slots -> Task \cup {NoTask}] /\ m_scheduled' \in Seq(Slots)
         /\ Linked' /\ InOrder'
  <1>1. CASE Armed = Slots
    BY <1>1 DEF shedule, pool, SchedInv, TypeOK, Linked, InOrder, Armed, TimeAt
  <1>2. CASE Armed # Slots
    <2> DEFINE n == Len(m_scheduled)
               p == Place(time)
               s == task_alloc
               L == m_scheduled'
               T(i) == m_tasks'[L[i]].time
    <2>1. /\ L \in Seq(Slots) /\ Len(L) = n + 1
          /\ \A i \in 1..(n + 1) :
               L[i] = IF i <= p THEN m_scheduled[i] ELSE IF i = p + 1 THEN s
                      ELSE m_scheduled[i - 1]
          /\ m_tasks' \in [Slots -> Task \cup {NoTask}]
          /\ m_tasks'[s].time = time
          /\ \A i \in Armed : m_tasks'[i] = m_tasks[i]
          /\ \A i : i \in Armed' <=> i \in Armed \/ i = s
      <3>1. m_tasks'[s] = [id |-> id, time |-> time, at |-> at]
        BY <1>2, SheduleDoes
      <3>2. m_tasks'[s].time = time
        BY <3>1
      <3> QED
        BY <1>2, <3>2, SheduleDoes
    <2>2. n \in Nat /\ p \in 0..n /\ time \in Int /\ s \notin Armed
      BY <1>2, Bounds, PlaceIs, Entries, Allocated DEF SchedInv
    <2>3. \A k \in 1..n : m_scheduled[k] \in Armed /\ TimeAt(k) \in Int
      BY Entries DEF SchedInv, Linked, TimeAt
    <2>4. \A k \in 1..n : (k <= p => TimeAt(k) <= time) /\ (k > p => time < TimeAt(k))
      <3> TAKE k \in 1..n
      <3>1. k <= p => TimeAt(k) <= time
        BY <2>2, BeforePlace
      <3>2. k > p => k \in (p + 1)..n
        BY <2>2
      <3> QED
        BY <2>2, <3>1, <3>2, PlaceIs
    <2> HIDE DEF n, p, s, L
    <2>5. \A i \in 1..(n + 1) :
            \/ i <= p /\ i \in 1..n /\ L[i] = m_scheduled[i] /\ T(i) = TimeAt(i)
            \/ i = p + 1 /\ L[i] = s /\ T(i) = time
            \/ i > p + 1 /\ i - 1 \in 1..n /\ L[i] = m_scheduled[i - 1] /\ T(i) = TimeAt(i - 1)
      <3> TAKE i \in 1..(n + 1)
      <3>1. CASE i <= p
        <4>1. i \in 1..n /\ L[i] = m_scheduled[i]
          BY <2>1, <2>2, <3>1
        <4> QED
          BY <2>1, <2>3, <3>1, <4>1 DEF TimeAt
      <3>2. CASE i = p + 1
        BY <2>1, <2>2, <3>2
      <3>3. CASE i > p + 1
        <4>1. i - 1 \in 1..n /\ L[i] = m_scheduled[i - 1]
          BY <2>1, <2>2, <3>3
        <4> QED
          BY <2>1, <2>3, <3>3, <4>1 DEF TimeAt
      <3> QED
        BY <2>2, <3>1, <3>2, <3>3
    <2>6. ASSUME NEW i \in 1..(n + 1), NEW j \in 1..(n + 1), L[i] = L[j] PROVE i = j
      <3>1. \A k, l \in 1..n : m_scheduled[k] = m_scheduled[l] => k = l
        BY DEF SchedInv, Linked, n
      <3>2. \A k \in 1..n : m_scheduled[k] # s
        BY <2>2, <2>3
      <3> QED
        BY <2>2, <2>5, <2>6, <3>1, <3>2
    <2>7. \A i \in 1..(n + 1) : L[i] \in Armed'
      BY <2>1, <2>3, <2>5
    <2>8. ASSUME NEW i \in Armed' PROVE \E k \in 1..(n + 1) : L[k] = i
      <3>1. CASE i = s
        <4>1. p + 1 \in 1..(n + 1) /\ ~(p + 1 <= p)
          BY <2>2
        <4> QED
          BY <2>1, <3>1, <4>1
      <3>2. CASE i \in Armed
        <4>1. PICK k \in 1..n : m_scheduled[k] = i
          BY <3>2 DEF SchedInv, Linked, n
        <4>2. CASE k <= p
          BY <2>1, <2>2, <4>1, <4>2
        <4>3. CASE k > p
          <5>1. k + 1 \in 1..(n + 1) /\ ~(k + 1 <= p) /\ k + 1 # p + 1 /\ (k + 1) - 1 = k
            BY <2>2, <4>3
          <5> QED
            BY <2>1, <4>1, <5>1
        <4> QED
          BY <2>2, <4>2, <4>3
      <3> QED
        BY <2>1, <2>8, <3>1, <3>2
    <2>9. ASSUME NEW i \in 1..(n + 1), NEW j \in 1..(n + 1), i <= j PROVE T(i) <= T(j)
      <3>1. \A k, l \in 1..n : k <= l => TimeAt(k) <= TimeAt(l)
        BY DEF SchedInv, InOrder, n
      <3>2. CASE j <= p
        BY <2>2, <2>5, <2>9, <3>1, <3>2
      <3>3. CASE j = p + 1
        BY <2>2, <2>4, <2>5, <2>9, <3>3
      <3>4. CASE j > p + 1
        BY <2>2, <2>3, <2>4, <2>5, <2>9, <3>1, <3>4
      <3> QED
        BY <2>2, <3>2, <3>3, <3>4
    <2>10. Linked'
      BY <2>1, <2>6, <2>7, <2>8 DEF Linked, L
    <2>11. InOrder'
      BY <2>1, <2>9 DEF InOrder, TimeAt, L
    <2> QED
      BY <2>1, <2>10, <2>11 DEF L
  <1> QED
    BY <1>1, <1>2

\* The kept places of the list, and which slots are freed.
LEMMA UnlinkedIs ==
  ASSUME SchedInv, NEW id
  PROVE  /\ Unlinked(id) \in Seq(Slots)
         /\ \E h : /\ Enumerates(h, Len(Unlinked(id)),
                                 {k \in DOMAIN m_scheduled : m_tasks[m_scheduled[k]].id # id})
                   /\ \A k \in 1..Len(Unlinked(id)) : Unlinked(id)[k] = m_scheduled[h[k]]
  <1> DEFINE I == {k \in DOMAIN m_scheduled : m_tasks[m_scheduled[k]].id # id}
  <1>1. m_scheduled \in Seq(Slots) /\ I \in SUBSET (1..Len(m_scheduled))
    BY Entries DEF SchedInv
  <1>2. Unlinked(id) = Picked(m_scheduled, I)
    BY DEF Unlinked
  <1> HIDE DEF I
  <1>3. /\ Picked(m_scheduled, I) \in Seq(Slots)
        /\ \E h : /\ Enumerates(h, Len(Picked(m_scheduled, I)), I)
                  /\ \A k \in 1..Len(Picked(m_scheduled, I)) :
                       Picked(m_scheduled, I)[k] = m_scheduled[h[k]]
    BY <1>1, PickedOrder
  <1> QED
    BY <1>2, <1>3 DEF I

LEMMA UnsheduleDoes ==
  ASSUME SchedInv, NEW id, unshedule(id)
  PROVE  /\ m_tasks' \in [Slots -> Task \cup {NoTask}]
         /\ \A i : i \in Armed' <=> i \in Armed /\ m_tasks[i].id # id
         /\ \A i \in Armed' : m_tasks'[i] = m_tasks[i]
  <1>1. m_tasks \in [Slots -> Task \cup {NoTask}]
        /\ m_tasks' = [i \in Slots |->
                         IF i \in Armed /\ m_tasks[i].id = id THEN NoTask ELSE m_tasks[i]]
    BY DEF SchedInv, TypeOK, unshedule
  <1>2. m_tasks' \in [Slots -> Task \cup {NoTask}]
    BY <1>1
  <1>3. \A i \in Slots : m_tasks'[i] = IF i \in Armed /\ m_tasks[i].id = id THEN NoTask
                                        ELSE m_tasks[i]
    BY <1>1
  <1> QED
    BY <1>2, <1>3 DEF Armed

LEMMA UnsheduleKeeps ==
  ASSUME SchedInv, NEW id, unshedule(id)
  PROVE  /\ m_tasks' \in [Slots -> Task \cup {NoTask}] /\ m_scheduled' \in Seq(Slots)
         /\ Linked' /\ InOrder'
  <1> DEFINE I == {k \in DOMAIN m_scheduled : m_tasks[m_scheduled[k]].id # id}
             n == Len(m_scheduled')
  <1>1. m_scheduled' = Unlinked(id)
    BY DEF unshedule
  <1>2. /\ m_tasks' \in [Slots -> Task \cup {NoTask}]
        /\ \A i : i \in Armed' <=> i \in Armed /\ m_tasks[i].id # id
        /\ \A i \in Armed' : m_tasks'[i] = m_tasks[i]
    BY UnsheduleDoes
  <1>3. \A k : k \in I <=> k \in 1..Len(m_scheduled) /\ m_tasks[m_scheduled[k]].id # id
    BY Entries DEF SchedInv
  <1> HIDE DEF I
  <1>4. m_scheduled' \in Seq(Slots) /\ \E h : Enumerates(h, n, I)
          /\ \A k \in 1..n : m_scheduled'[k] = m_scheduled[h[k]]
    <2> DEFINE u == Unlinked(id)
    <2>1. u \in Seq(Slots) /\ \E h : Enumerates(h, Len(u), I)
            /\ \A k \in 1..Len(u) : u[k] = m_scheduled[h[k]]
      BY UnlinkedIs, Zenon DEF I
    <2>2. m_scheduled' = u
      BY <1>1
    <2> HIDE DEF u
    <2> QED
      BY <2>1, <2>2
  <1>5. PICK h : Enumerates(h, n, I) /\ \A k \in 1..n : m_scheduled'[k] = m_scheduled[h[k]]
    BY <1>4
  <1>6. n \in Nat
    BY <1>4
  <1> HIDE DEF n
  <1>7. \A k \in 1..n : h[k] \in 1..Len(m_scheduled) /\ m_tasks[m_scheduled[h[k]]].id # id
    BY <1>3, <1>5 DEF Enumerates
  <1>8. \A j, k \in 1..n : j < k => h[j] < h[k]
    BY <1>5 DEF Enumerates, Increases
  <1>9. Len(m_scheduled) \in Nat
    BY Entries DEF SchedInv
  <1>10. ASSUME NEW j \in 1..n, NEW k \in 1..n, m_scheduled'[j] = m_scheduled'[k] PROVE j = k
    <2>1. h[j] = h[k]
      BY <1>5, <1>7, <1>10 DEF SchedInv, Linked
    <2> QED
      BY <1>6, <1>7, <1>8, <1>9, <2>1
  <1>11. \A k \in 1..n : m_scheduled'[k] \in Armed'
    BY <1>2, <1>5, <1>7 DEF SchedInv, Linked
  <1>12. ASSUME NEW i \in Armed' PROVE \E k \in 1..n : m_scheduled'[k] = i
    <2>1. PICK l \in 1..Len(m_scheduled) : m_scheduled[l] = i
      BY <1>2 DEF SchedInv, Linked
    <2>2. l \in I
      BY <1>2, <1>3, <2>1
    <2>3. PICK k \in 1..n : h[k] = l
      BY <1>5, <2>2 DEF Enumerates
    <2> QED
      BY <1>5, <2>1, <2>3
  <1>13. \A k \in 1..n : m_tasks'[m_scheduled'[k]].time = TimeAt(h[k])
    BY <1>2, <1>5, <1>11 DEF TimeAt
  <1>14. ASSUME NEW j \in 1..n, NEW k \in 1..n, j <= k
         PROVE  m_tasks'[m_scheduled'[j]].time <= m_tasks'[m_scheduled'[k]].time
    <2>1. h[j] <= h[k] /\ h[j] \in 1..Len(m_scheduled) /\ h[k] \in 1..Len(m_scheduled)
      <3>1. h[j] \in 1..Len(m_scheduled) /\ h[k] \in 1..Len(m_scheduled)
        BY <1>7
      <3>2. h[j] \in Int /\ h[k] \in Int
        BY <1>9, <3>1
      <3>3. j = k \/ j < k
        BY <1>6, <1>14
      <3>4. h[j] = h[k] \/ h[j] < h[k]
        BY <1>8, <3>3
      <3> QED
        BY <3>1, <3>2, <3>4
    <2> QED
      BY <1>13, <2>1 DEF SchedInv, InOrder
  <1>15. Linked'
    BY <1>10, <1>11, <1>12 DEF Linked, n
  <1>16. InOrder'
    BY <1>14 DEF InOrder, TimeAt, n
  <1> QED
    BY <1>2, <1>4, <1>15, <1>16

\* The head goes, its slot is free.
LEMMA HeadDoes ==
  ASSUME SchedInv, RunHead
  PROVE  /\ m_scheduled # << >> /\ Head(m_scheduled) = m_scheduled[1]
         /\ 1 \in 1..Len(m_scheduled) /\ m_scheduled[1] \in Armed
         /\ m_scheduled' \in Seq(Slots) /\ Len(m_scheduled') = Len(m_scheduled) - 1
         /\ \A k \in 1..(Len(m_scheduled) - 1) : m_scheduled'[k] = m_scheduled[k + 1]
         /\ m_tasks' \in [Slots -> Task \cup {NoTask}]
         /\ \A i : i \in Armed' <=> i \in Armed /\ i # m_scheduled[1]
         /\ \A i \in Armed' : m_tasks'[i] = m_tasks[i]
  <1>1. m_scheduled # << >> /\ m_scheduled \in Seq(Slots) /\ m_scheduled' = Tail(m_scheduled)
        /\ m_tasks' = [m_tasks EXCEPT ![Head(m_scheduled)] = NoTask]
        /\ m_tasks \in [Slots -> Task \cup {NoTask}]
    BY DEF RunHead, HeadDue, SchedInv, TypeOK
  <1>2. /\ Head(m_scheduled) = m_scheduled[1] /\ Len(m_scheduled) \in Nat
        /\ 1 \in 1..Len(m_scheduled)
        /\ m_scheduled' \in Seq(Slots) /\ Len(m_scheduled') = Len(m_scheduled) - 1
        /\ \A k \in 1..(Len(m_scheduled) - 1) : m_scheduled'[k] = m_scheduled[k + 1]
    BY <1>1
  <1>3. m_scheduled[1] \in Armed /\ m_scheduled[1] \in Slots
    BY <1>2, Entries DEF SchedInv, Linked
  <1> DEFINE s == m_scheduled[1]
  <1> HIDE DEF s
  <1>4. /\ m_tasks' \in [Slots -> Task \cup {NoTask}]
        /\ \A i \in Slots : m_tasks'[i] = IF i = s THEN NoTask ELSE m_tasks[i]
    BY <1>1, <1>2, <1>3 DEF s
  <1>5. /\ \A i : i \in Armed' <=> i \in Armed /\ i # s
        /\ \A i \in Armed' : m_tasks'[i] = m_tasks[i]
    BY <1>4 DEF Armed
  <1> QED
    BY <1>1, <1>2, <1>3, <1>4, <1>5 DEF s

LEMMA HeadKeeps ==
  ASSUME SchedInv, RunHead
  PROVE  /\ m_tasks' \in [Slots -> Task \cup {NoTask}] /\ m_scheduled' \in Seq(Slots)
         /\ Linked' /\ InOrder'
  <1> DEFINE n == Len(m_scheduled)
  <1>1. /\ 1 \in 1..n /\ m_scheduled[1] \in Armed
        /\ m_scheduled' \in Seq(Slots) /\ Len(m_scheduled') = n - 1
        /\ \A k \in 1..(n - 1) : m_scheduled'[k] = m_scheduled[k + 1]
        /\ m_tasks' \in [Slots -> Task \cup {NoTask}]
        /\ \A i : i \in Armed' <=> i \in Armed /\ i # m_scheduled[1]
        /\ \A i \in Armed' : m_tasks'[i] = m_tasks[i]
    BY HeadDoes
  <1>2. n \in Nat
    BY Entries DEF SchedInv
  <1>3. /\ \A j, k \in 1..n : m_scheduled[j] = m_scheduled[k] => j = k
        /\ \A k \in 1..n : m_scheduled[k] \in Armed
        /\ \A i \in Armed : \E k \in 1..n : m_scheduled[k] = i
        /\ \A j, k \in 1..n : j <= k => TimeAt(j) <= TimeAt(k)
    BY DEF SchedInv, Linked, InOrder
  <1> HIDE DEF n
  <1>4. \A k \in 1..(n - 1) : k + 1 \in 1..n /\ k + 1 # 1
    BY <1>2
  <1>5. \A j, k \in 1..(n - 1) : m_scheduled'[j] = m_scheduled'[k] => j = k
    <2> SUFFICES ASSUME NEW j \in 1..(n - 1), NEW k \in 1..(n - 1), m_scheduled'[j] = m_scheduled'[k]
                 PROVE  j = k
      OBVIOUS
    <2>1. j + 1 = k + 1
      BY <1>1, <1>3, <1>4
    <2> QED
      BY <2>1
  <1>6. \A k \in 1..(n - 1) : m_scheduled'[k] \in Armed'
                              /\ m_tasks'[m_scheduled'[k]].time = TimeAt(k + 1)
    <2> TAKE k \in 1..(n - 1)
    <2>1. m_scheduled'[k] = m_scheduled[k + 1] /\ m_scheduled[k + 1] \in Armed
          /\ m_scheduled[k + 1] # m_scheduled[1]
      BY <1>1, <1>3, <1>4
    <2> QED
      BY <1>1, <2>1 DEF TimeAt
  <1>7. ASSUME NEW i \in Armed' PROVE \E k \in 1..(n - 1) : m_scheduled'[k] = i
    <2>1. i \in Armed /\ i # m_scheduled[1]
      BY <1>1, <1>7
    <2>2. PICK l \in 1..n : m_scheduled[l] = i
      BY <1>3, <2>1
    <2>3. l - 1 \in 1..(n - 1) /\ (l - 1) + 1 = l
      BY <1>2, <2>1, <2>2
    <2> QED
      BY <1>1, <2>2, <2>3
  <1>8. \A j, k \in 1..(n - 1) : j <= k => TimeAt(j + 1) <= TimeAt(k + 1)
    <2> SUFFICES ASSUME NEW j \in 1..(n - 1), NEW k \in 1..(n - 1), j <= k
                 PROVE  TimeAt(j + 1) <= TimeAt(k + 1)
      OBVIOUS
    <2>1. j + 1 <= k + 1 /\ j + 1 \in 1..n /\ k + 1 \in 1..n
      BY <1>2
    <2> QED
      BY <1>3, <2>1
  <1>9. Linked'
    BY <1>1, <1>5, <1>6, <1>7 DEF Linked
  <1>10. InOrder'
    BY <1>1, <1>6, <1>8 DEF InOrder, TimeAt
  <1> QED
    BY <1>1, <1>9, <1>10

-----------------------------------------------------------------------------
(***************************************************************************)
(* The invariant.                                                          *)
(***************************************************************************)

LEMMA SheduleStep ==
  ASSUME SchedInv, NEW id \in Ids, NEW delay \in 0..MaxDelay, Shedule(id, delay)
  PROVE  SchedInv'
  <1>1. /\ clock \in 0..MaxClock /\ running \in Task \cup {NoTask}
        /\ UNCHANGED <<now, handling, running, clock>>
    BY DEF Shedule, SchedInv, TypeOK
  <1>2. PICK at \in 0..(MaxClock + MaxDelay) : shedule(id, at % TimeMod, at)
    <2>1. CASE running = NoTask
      <3>1. clock + delay \in 0..(MaxClock + MaxDelay)
        BY <1>1, Bounds
      <3> QED
        BY <2>1, <3>1 DEF Shedule
    <2>2. CASE running # NoTask
      <3>1. running.at \in 0..(MaxClock + MaxDelay) /\ running.at + delay <= MaxClock + MaxDelay
        BY <1>1, <2>2, TaskTyped DEF Shedule
      <3>2. running.at + delay \in 0..(MaxClock + MaxDelay)
        BY <3>1, Bounds
      <3> QED
        BY <2>2, <3>2 DEF Shedule
    <2> QED
      BY <2>1, <2>2
  <1>3. at % TimeMod \in Times
    BY <1>2, Bounds
  <1>4. /\ m_tasks' \in [Slots -> Task \cup {NoTask}] /\ m_scheduled' \in Seq(Slots)
        /\ Linked' /\ InOrder'
    BY <1>2, <1>3, SheduleKeeps
  <1> QED
    BY <1>1, <1>4 DEF SchedInv, TypeOK

LEMMA StepSched == SchedInv /\ [Next]_vars => SchedInv'
  <1> SUFFICES ASSUME SchedInv, [Next]_vars PROVE SchedInv'
    OBVIOUS
  <1>1. /\ now \in Times /\ handling \in BOOLEAN /\ running \in Task \cup {NoTask}
        /\ clock \in 0..MaxClock /\ m_tasks \in [Slots -> Task \cup {NoTask}]
    BY DEF SchedInv, TypeOK
  <1>2. ASSUME NEW id \in Ids, NEW delay \in 0..MaxDelay, Shedule(id, delay) PROVE SchedInv'
    BY <1>2, SheduleStep
  <1>3. ASSUME NEW id \in Ids, Unshedule(id) PROVE SchedInv'
    <2>1. unshedule(id) /\ UNCHANGED <<now, handling, running, clock>>
      BY <1>3 DEF Unshedule
    <2>2. /\ m_tasks' \in [Slots -> Task \cup {NoTask}] /\ m_scheduled' \in Seq(Slots)
          /\ Linked' /\ InOrder'
      BY <2>1, UnsheduleKeeps
    <2> QED
      BY <1>1, <2>1, <2>2 DEF SchedInv, TypeOK
  <1>4. ASSUME NEW elapsed \in 0..MaxClock, Handle(elapsed) PROVE SchedInv'
    <2>1. clock' \in 0..MaxClock /\ clock' \in Nat
      BY <1>1, <1>4, Bounds DEF Handle
    <2>2. now' \in Times /\ handling' \in BOOLEAN /\ UNCHANGED <<m_tasks, m_scheduled, running>>
      BY <1>4, <2>1, Bounds DEF Handle, pool
    <2> QED
      BY <2>1, <2>2 DEF SchedInv, TypeOK, Linked, InOrder, Armed, TimeAt
  <1>5. CASE RunHead
    <2>1. /\ m_tasks' \in [Slots -> Task \cup {NoTask}] /\ m_scheduled' \in Seq(Slots)
          /\ Linked' /\ InOrder'
      BY <1>5, HeadKeeps
    <2>2. running' = m_tasks[m_scheduled[1]] /\ m_scheduled[1] \in Armed
      BY <1>5, HeadDoes DEF RunHead
    <2>3. running' \in Task /\ UNCHANGED <<now, handling, clock>>
      BY <1>5, <2>2, Entries DEF RunHead, SchedInv
    <2> QED
      BY <1>1, <2>1, <2>3 DEF SchedInv, TypeOK
  <1>6. CASE HandlerReturns \/ HandleReturns \/ UNCHANGED vars
    <2>1. running' \in Task \cup {NoTask} /\ handling' \in BOOLEAN
          /\ UNCHANGED <<m_tasks, m_scheduled, now, clock>>
      BY <1>1, <1>6 DEF HandlerReturns, HandleReturns, vars, pool
    <2> QED
      BY <1>1, <2>1 DEF SchedInv, TypeOK, Linked, InOrder, Armed, TimeAt
  <1> QED
    BY <1>2, <1>3, <1>4, <1>5, <1>6 DEF Next

\* What the invariant says of the pool is what the run looks at.
LEMMA SchedInvAccounts == SchedInv => PoolAccounted
  <1> SUFFICES ASSUME SchedInv PROVE PoolAccounted
    OBVIOUS
  <1>1. DOMAIN m_scheduled = 1..Len(m_scheduled) /\ Len(m_scheduled) \in Nat
    BY Entries DEF SchedInv
  <1>2. SlotsAccounted
    <2>1. IsInjective(m_scheduled)
      BY <1>1 DEF SchedInv, Linked, IsInjective
    <2>2. ToSet(m_scheduled) = Armed
      BY <1>1 DEF SchedInv, Linked, ToSet
    <2> QED
      BY <2>1, <2>2 DEF SlotsAccounted
  <1>3. NearestIsNearest
    <2>1. CASE m_scheduled = << >>
      <3>1. Armed = {}
        BY <2>1 DEF SchedInv, Linked
      <3> QED
        BY <3>1 DEF NearestIsNearest
    <2>2. CASE m_scheduled # << >>
      <3>1. 1 \in 1..Len(m_scheduled) /\ nearestTime = m_tasks[m_scheduled[1]].time
        BY <1>1, <2>2, Entries DEF SchedInv, nearestTime, TimeAt
      <3>2. m_scheduled[1] \in Armed
        BY <3>1 DEF SchedInv, Linked
      <3>3. ASSUME NEW i \in Armed PROVE nearestTime <= m_tasks[i].time
        <4>1. PICK k \in 1..Len(m_scheduled) : m_scheduled[k] = i
          BY DEF SchedInv, Linked
        <4>2. 1 <= k
          BY <1>1, <4>1
        <4> QED
          BY <3>1, <4>1, <4>2 DEF SchedInv, InOrder, TimeAt
      <3> QED
        BY <3>1, <3>2, <3>3 DEF NearestIsNearest
    <2> QED
      BY <2>1, <2>2
  <1> QED
    BY <1>2, <1>3 DEF PoolAccounted, SchedInv

\* No slot is lost or linked twice, and nearestTime is the nearest, whatever
\* the client and the handlers shedule and unshedule.
THEOREM PoolAlwaysAccounted == Spec => []PoolAccounted
  BY InitSched, StepSched, SchedInvAccounts, PTL DEF Spec

-----------------------------------------------------------------------------
(***************************************************************************)
(* The list L over the pool P as queues, one for every time: where the     *)
(* tasks for a time stand, and their identifications in that order.        *)
(***************************************************************************)

PlacesIn(L, P, t) == {k \in DOMAIN L : P[L[k]].time = t}

DueIn(L, P, t) ==
  LET s == Picked(L, PlacesIn(L, P, t)) IN [k \in DOMAIN s |-> P[s[k]].id]

\* A queue is told from the places of its tasks, gone through in order.
LEMMA DueIs ==
  ASSUME NEW S, NEW L \in Seq(S), NEW P, NEW t, NEW n \in Nat, NEW h,
         Enumerates(h, n, PlacesIn(L, P, t))
  PROVE  /\ Picked(L, PlacesIn(L, P, t)) = [k \in 1..n |-> L[h[k]]]
         /\ DueIn(L, P, t) = [k \in 1..n |-> P[L[h[k]]].id]
  <1>1. PlacesIn(L, P, t) \in SUBSET (1..Len(L))
    BY DEF PlacesIn
  <1> DEFINE r == [k \in 1..n |-> L[h[k]]]
  <1>2. Picked(L, PlacesIn(L, P, t)) = r
    BY <1>1, PickedIs
  <1> QED
    BY <1>2 DEF DueIn

LEMMA PlacesListed ==
  ASSUME NEW S, NEW L \in Seq(S), NEW P, NEW t
  PROVE  /\ PlacesIn(L, P, t) \in SUBSET (1..Len(L))
         /\ PlacesIn(L, P, t) \in SUBSET Nat
         /\ \A k : k \in PlacesIn(L, P, t) <=> k \in 1..Len(L) /\ P[L[k]].time = t
         /\ \E n \in Nat : \E h : Enumerates(h, n, PlacesIn(L, P, t))
  <1>1. /\ PlacesIn(L, P, t) \in SUBSET (1..Len(L))
        /\ PlacesIn(L, P, t) \in SUBSET Nat
        /\ \A k : k \in PlacesIn(L, P, t) <=> k \in 1..Len(L) /\ P[L[k]].time = t
    BY DEF PlacesIn
  <1> DEFINE q == Picked(L, PlacesIn(L, P, t))
  <1>2. q \in Seq(S) /\ \E h : Enumerates(h, Len(q), PlacesIn(L, P, t))
    BY <1>1, PickedOrder
  <1> HIDE DEF q
  <1>3. Len(q) \in Nat
    BY <1>2
  <1> QED
    BY <1>1, <1>2, <1>3

\* M is L with the slot s put in behind the p-th, and Q knows the task in s; no
\* task behind is for the same time.
PutIn(S, L, P, M, Q, p, s) ==
  /\ L \in Seq(S) /\ M \in Seq(S) /\ p \in 0..Len(L)
  /\ Len(M) = Len(L) + 1
  /\ \A i \in 1..(Len(L) + 1) :
       M[i] = IF i <= p THEN L[i] ELSE IF i = p + 1 THEN s ELSE L[i - 1]
  /\ \A k \in 1..Len(L) : Q[L[k]] = P[L[k]]
  /\ \A k \in 1..Len(L) : k > p => P[L[k]].time # Q[s].time

\* Such a task joins the queue for its time at the end; the other queues stay.
LEMMA DueSheduled ==
  ASSUME NEW S, NEW L, NEW P, NEW M, NEW Q, NEW p, NEW s, NEW t, PutIn(S, L, P, M, Q, p, s)
  PROVE  DueIn(M, Q, t) = IF t = Q[s].time THEN Append(DueIn(L, P, t), Q[s].id)
                          ELSE DueIn(L, P, t)
  <1>0. /\ L \in Seq(S) /\ M \in Seq(S) /\ p \in 0..Len(L)
        /\ Len(M) = Len(L) + 1
        /\ \A i \in 1..(Len(L) + 1) :
             M[i] = IF i <= p THEN L[i] ELSE IF i = p + 1 THEN s ELSE L[i - 1]
        /\ \A k \in 1..Len(L) : Q[L[k]] = P[L[k]]
        /\ \A k \in 1..Len(L) : k > p => P[L[k]].time # Q[s].time
    BY DEF PutIn
  <1> DEFINE t0 == Q[s].time
             id == Q[s].id
  <1>14. Q[s].time = t0 /\ Q[s].id = id /\ \A k \in 1..Len(L) : k > p => P[L[k]].time # t0
    BY <1>0
  <1> HIDE DEF t0, id
  <1> USE <1>0, <1>14
  <1> DEFINE I == PlacesIn(L, P, t)
             J == PlacesIn(M, Q, t)
             shift(k) == IF k <= p THEN k ELSE k + 1
  <1>1. /\ Len(L) \in Nat /\ p \in Nat
        /\ \A k : k \in I <=> k \in 1..Len(L) /\ P[L[k]].time = t
        /\ \A k : k \in J <=> k \in 1..(Len(L) + 1) /\ Q[M[k]].time = t
    BY PlacesListed, SMTT(30)
  <1>2. \E n \in Nat : \E h : Enumerates(h, n, I)
    BY PlacesListed
  <1>3. \A k \in 1..Len(L) :
          shift(k) \in 1..(Len(L) + 1) /\ M[shift(k)] = L[k] /\ Q[M[shift(k)]] = P[L[k]]
    <2> TAKE k \in 1..Len(L)
    <2>1. CASE k <= p
      BY <1>1, <2>1
    <2>2. CASE k > p
      <3>1. k + 1 \in 1..(Len(L) + 1) /\ ~(k + 1 <= p) /\ k + 1 # p + 1 /\ (k + 1) - 1 = k
        BY <1>1, <2>2
      <3>2. M[k + 1] = L[k]
        BY <3>1
      <3> QED
        BY <1>1, <2>2, <3>1, <3>2
    <2> QED
      BY <1>1, <2>1, <2>2
  <1>4. \A i \in 1..(Len(L) + 1) : i # p + 1 => \E k \in 1..Len(L) : i = shift(k)
    <2> SUFFICES ASSUME NEW i \in 1..(Len(L) + 1), i # p + 1
                 PROVE  \E k \in 1..Len(L) : i = shift(k)
      OBVIOUS
    <2>1. CASE i <= p
      BY <1>1, <2>1
    <2>2. CASE i > p + 1
      <3>1. i - 1 \in 1..Len(L) /\ ~(i - 1 <= p) /\ (i - 1) + 1 = i
        BY <1>1, <2>2
      <3>2. shift(i - 1) = i
        BY <3>1
      <3> QED
        BY <3>1, <3>2
    <2> QED
      BY <1>1, <2>1, <2>2
  <1>5. M[p + 1] = s /\ p + 1 \in 1..(Len(L) + 1)
    BY <1>1
  <1>12. \A k \in 1..Len(L) : k \in I <=> shift(k) \in J
    <2> HIDE DEF I, J, shift
    <2> TAKE k \in 1..Len(L)
    <2>1. Q[M[shift(k)]] = P[L[k]] /\ shift(k) \in 1..(Len(L) + 1)
      BY <1>3
    <2>2. Q[M[shift(k)]].time = P[L[k]].time
      BY <2>1
    <2>3. k \in I <=> P[L[k]].time = t
      BY <1>1
    <2>4. shift(k) \in J <=> Q[M[shift(k)]].time = t
      BY <1>1, <2>1
    <2> QED
      BY <2>2, <2>3, <2>4
  <1>13. \A k \in I : k \in 1..Len(L) /\ (t = t0 => k <= p)
    <2> HIDE DEF I, J, shift
    <2> TAKE k \in I
    <2>1. k \in 1..Len(L) /\ P[L[k]].time = t
      BY <1>1
    <2> QED
      BY <1>1, <2>1
  <1> HIDE DEF I, J
  <1>6. PICK n, h : n \in Nat /\ Enumerates(h, n, I)
    BY <1>2
  <1>7. \A k \in 1..n : h[k] \in I /\ h[k] \in 1..Len(L)
    BY <1>1, <1>6 DEF Enumerates
  <1>8. \A j, k \in 1..n : j < k => h[j] < h[k]
    BY <1>6 DEF Enumerates, Increases
  <1>9. DueIn(L, P, t) = [k \in 1..n |-> P[L[h[k]]].id]
    BY <1>6, DueIs DEF I
  <1>10. CASE t = t0
    <2> DEFINE g == [k \in 1..(n + 1) |-> IF k = n + 1 THEN p + 1 ELSE h[k]]
    <2>1. \A k \in 1..n : h[k] <= p /\ shift(h[k]) = h[k]
      BY <1>7, <1>10, <1>13
    <2>2. \A k \in 1..n : h[k] \in J
      <3> TAKE k \in 1..n
      <3>1. h[k] \in 1..Len(L) /\ h[k] \in I /\ shift(h[k]) = h[k]
        BY <1>7, <2>1
      <3> HIDE DEF shift
      <3> QED
        BY <1>12, <3>1
    <2>3. g \in [1..(n + 1) -> J]
      <3>1. p + 1 \in J
        BY <1>1, <1>5, <1>10
      <3>2. \A k \in 1..(n + 1) : k = n + 1 \/ k \in 1..n
        BY <1>6
      <3> QED
        BY <2>2, <3>1, <3>2
    <2>4. \A j, k \in 1..(n + 1) : j < k => g[j] < g[k]
      <3> SUFFICES ASSUME NEW j \in 1..(n + 1), NEW k \in 1..(n + 1), j < k PROVE g[j] < g[k]
        OBVIOUS
      <3>1. j \in 1..n /\ g[j] = h[j]
        BY <1>6
      <3>2. CASE k = n + 1
        BY <1>1, <1>6, <1>7, <2>1, <3>1, <3>2
      <3>3. CASE k \in 1..n
        BY <1>6, <1>8, <3>1, <3>3
      <3> QED
        BY <1>6, <3>2, <3>3
    <2>5. \A i \in J : \E k \in 1..(n + 1) : g[k] = i
      <3> TAKE i \in J
      <3>1. CASE i = p + 1
        <4>1. n + 1 \in 1..(n + 1) /\ g[n + 1] = p + 1
          BY <1>6
        <4> HIDE DEF g
        <4> QED
          BY <3>1, <4>1
      <3>2. CASE i # p + 1
        <4>1. PICK l \in 1..Len(L) : i = shift(l)
          BY <1>1, <1>4, <3>2
        <4>2. l \in I
          <5> HIDE DEF shift
          <5> QED
            BY <1>12, <4>1
        <4>3. PICK k \in 1..n : h[k] = l
          BY <1>6, <4>2 DEF Enumerates
        <4>4. g[k] = h[k] /\ k \in 1..(n + 1)
          BY <1>6
        <4> QED
          BY <2>1, <4>1, <4>3, <4>4
      <3> QED
        BY <3>1, <3>2
    <2>6. Enumerates(g, n + 1, J)
      BY <2>3, <2>4, <2>5 DEF Enumerates, Increases
    <2>7. DueIn(M, Q, t) = [k \in 1..(n + 1) |-> Q[M[g[k]]].id]
      <3> HIDE DEF g
      <3> QED
        BY <1>6, <2>6, DueIs DEF J
    <2>8. \A k \in 1..n : g[k] = h[k] /\ Q[M[g[k]]].id = P[L[h[k]]].id
      <3> TAKE k \in 1..n
      <3>1. g[k] = h[k]
        BY <1>6
      <3>2. Q[M[h[k]]] = P[L[h[k]]]
        BY <1>3, <1>7, <2>1
      <3> QED
        BY <3>1, <3>2
    <2>9. Q[M[g[n + 1]]].id = id
      BY <1>5, <1>6
    <2> DEFINE a(k) == P[L[h[k]]].id
               b(k) == Q[M[g[k]]].id
    <2> HIDE DEF g
    <2>10. (\A k \in 1..n : b(k) = a(k)) /\ b(n + 1) = id
      BY <2>8, <2>9
    <2> HIDE DEF a, b
    <2>11. [k \in 1..(n + 1) |-> b(k)] = Append([k \in 1..n |-> a(k)], id)
      <3>1. \A k \in 1..(n + 1) : k = n + 1 \/ k \in 1..n
        BY <1>6
      <3>2. Append([k \in 1..n |-> a(k)], id) =
              [k \in 1..(n + 1) |-> IF k = n + 1 THEN id ELSE a(k)]
        BY <1>6
      <3> QED
        BY <1>6, <2>10, <3>1, <3>2
    <2> QED
      BY <1>9, <1>10, <2>7, <2>11 DEF a, b
  <1>11. CASE t # t0
    <2> DEFINE g == [k \in 1..n |-> shift(h[k])]
    <2>1. \A k \in 1..n : g[k] \in J
      <3> HIDE DEF shift
      <3> QED
        BY <1>7, <1>12
    <2>2. \A j, k \in 1..n : j < k => g[j] < g[k]
      BY <1>1, <1>7, <1>8
    <2>3. \A i \in J : \E k \in 1..n : g[k] = i
      <3> TAKE i \in J
      <3>1. i # p + 1
        BY <1>1, <1>5, <1>11
      <3>2. PICK l \in 1..Len(L) : i = shift(l)
        BY <1>1, <1>4, <3>1
      <3>3. l \in I
        <4> HIDE DEF shift
        <4> QED
          BY <1>12, <3>2
      <3>4. PICK k \in 1..n : h[k] = l
        BY <1>6, <3>3 DEF Enumerates
      <3> QED
        BY <3>2, <3>4
    <2>4. Enumerates(g, n, J)
      BY <2>1, <2>2, <2>3 DEF Enumerates, Increases
    <2>5. \A k \in 1..n : Q[M[g[k]]].id = P[L[h[k]]].id
      BY <1>3, <1>7
    <2> HIDE DEF g
    <2>6. DueIn(M, Q, t) = [k \in 1..n |-> Q[M[g[k]]].id]
      BY <1>6, <2>4, DueIs DEF J
    <2> QED
      BY <1>9, <1>11, <2>5, <2>6
  <1> QED
    BY <1>10, <1>11 DEF t0, id

\* M is L without its head.
TakenOff(S, Names, L, P, M, Q) ==
  /\ L \in Seq(S) /\ M \in Seq(S)
  /\ L # << >> /\ Len(M) = Len(L) - 1
  /\ \A k \in 1..(Len(L) - 1) : M[k] = L[k + 1] /\ Q[L[k + 1]] = P[L[k + 1]]
  /\ \A k \in 1..Len(L) : P[L[k]].id \in Names

\* The head was the first of the queue for its time; the other queues stay.
LEMMA DueHead ==
  ASSUME NEW S, NEW Names, NEW L, NEW P, NEW M, NEW Q, NEW t, TakenOff(S, Names, L, P, M, Q)
  PROVE  /\ P[L[1]].time # t => DueIn(M, Q, t) = DueIn(L, P, t)
         /\ P[L[1]].time = t => /\ DueIn(L, P, t) # << >>
                                /\ Head(DueIn(L, P, t)) = P[L[1]].id
                                /\ DueIn(M, Q, t) = Tail(DueIn(L, P, t))
  <1> USE DEF TakenOff
  <1> DEFINE I == PlacesIn(L, P, t)
             J == PlacesIn(M, Q, t)
  <1>1. /\ Len(L) \in Nat /\ Len(L) >= 1
        /\ \A k : k \in I <=> k \in 1..Len(L) /\ P[L[k]].time = t
        /\ \A k : k \in J <=> k \in 1..(Len(L) - 1) /\ Q[M[k]].time = t
    BY PlacesListed
  <1>2. \E n \in Nat : \E h : Enumerates(h, n, I)
    BY PlacesListed
  <1> HIDE DEF I, J
  <1>3. PICK n, h : n \in Nat /\ Enumerates(h, n, I)
    BY <1>2
  <1>4. \A k \in 1..n : h[k] \in I /\ h[k] \in 1..Len(L)
    BY <1>1, <1>3 DEF Enumerates
  <1>5. \A j, k \in 1..n : j < k => h[j] < h[k]
    BY <1>3 DEF Enumerates, Increases
  <1>6. DueIn(L, P, t) = [k \in 1..n |-> P[L[h[k]]].id]
    BY <1>3, DueIs DEF I
  <1>7. \A k \in 1..Len(L) : k # 1 => (k \in I <=> k - 1 \in J)
    <2> TAKE k \in 1..Len(L)
    <2>1. SUFFICES ASSUME k # 1 PROVE k \in I <=> k - 1 \in J
      OBVIOUS
    <2>2. k - 1 \in 1..(Len(L) - 1) /\ (k - 1) + 1 = k
      BY <1>1, <2>1
    <2>3. Q[M[k - 1]] = P[L[k]]
      BY <2>2
    <2> QED
      BY <1>1, <2>2, <2>3
  <1>8. \A i \in J : i + 1 \in I /\ i + 1 # 1 /\ i \in 1..(Len(L) - 1)
    <2> TAKE i \in J
    <2>1. i + 1 \in 1..Len(L) /\ i + 1 # 1 /\ (i + 1) - 1 = i /\ i \in 1..(Len(L) - 1)
      BY <1>1
    <2> QED
      BY <1>7, <2>1
  <1>9. \A k \in 2..Len(L) : Q[M[k - 1]] = P[L[k]]
    <2> TAKE k \in 2..Len(L)
    <2>1. k - 1 \in 1..(Len(L) - 1) /\ (k - 1) + 1 = k
      BY <1>1
    <2> QED
      BY <2>1
  <1>10. CASE P[L[1]].time # t
    <2> DEFINE g == [k \in 1..n |-> h[k] - 1]
    <2>1. 1 \notin I
      BY <1>1, <1>10
    <2>2. \A k \in 1..n : h[k] \in 2..Len(L) /\ h[k] # 1
      BY <1>1, <1>4, <2>1
    <2>3. \A k \in 1..n : g[k] \in J
      BY <1>4, <1>7, <2>2
    <2>4. \A j, k \in 1..n : j < k => g[j] < g[k]
      BY <1>1, <1>4, <1>5
    <2>5. \A i \in J : \E k \in 1..n : g[k] = i
      <3> TAKE i \in J
      <3>1. PICK k \in 1..n : h[k] = i + 1
        BY <1>3, <1>8 DEF Enumerates
      <3>2. i \in 1..(Len(L) - 1)
        BY <1>8
      <3> QED
        BY <1>1, <3>1, <3>2
    <2>6. Enumerates(g, n, J)
      BY <2>3, <2>4, <2>5 DEF Enumerates, Increases
    <2>7. \A k \in 1..n : Q[M[g[k]]].id = P[L[h[k]]].id
      <3> TAKE k \in 1..n
      <3>1. g[k] = h[k] - 1
        OBVIOUS
      <3> HIDE DEF g
      <3> QED
        BY <1>9, <2>2, <3>1
    <2> HIDE DEF g
    <2>8. DueIn(M, Q, t) = [k \in 1..n |-> Q[M[g[k]]].id]
      BY <1>3, <2>6, DueIs DEF J
    <2> QED
      BY <1>6, <1>10, <2>7, <2>8
  <1>11. CASE P[L[1]].time = t
    <2>1. 1 \in I
      BY <1>1, <1>11
    <2>2. PICK j \in 1..n : h[j] = 1
      BY <1>3, <2>1 DEF Enumerates
    <2>3. n >= 1 /\ 1 \in 1..n
      BY <1>3, <2>2
    <2>4. h[1] = 1
      <3>1. j > 1 => h[1] < 1
        BY <1>5, <2>2, <2>3
      <3>2. h[1] \in 1..Len(L)
        BY <1>4, <2>3
      <3> QED
        BY <1>1, <2>2, <3>1, <3>2
    <2> DEFINE g == [k \in 1..(n - 1) |-> h[k + 1] - 1]
    <2>5. \A k \in 1..(n - 1) : k + 1 \in 1..n /\ h[k + 1] \in 2..Len(L) /\ h[k + 1] # 1
      <3> TAKE k \in 1..(n - 1)
      <3>1. k + 1 \in 1..n /\ 1 < k + 1
        BY <1>3
      <3>2. h[1] < h[k + 1] /\ h[k + 1] \in 1..Len(L)
        BY <1>4, <1>5, <2>3, <3>1
      <3> QED
        BY <1>1, <2>4, <3>1, <3>2
    <2>6. \A k \in 1..(n - 1) : g[k] \in J
      BY <1>4, <1>7, <2>5
    <2>7. \A i, k \in 1..(n - 1) : i < k => g[i] < g[k]
      <3> SUFFICES ASSUME NEW i \in 1..(n - 1), NEW k \in 1..(n - 1), i < k PROVE g[i] < g[k]
        OBVIOUS
      <3>1. i + 1 < k + 1
        BY <1>3
      <3>2. h[i + 1] < h[k + 1]
        BY <1>5, <2>5, <3>1
      <3> QED
        BY <1>1, <2>5, <3>2
    <2>8. \A i \in J : \E k \in 1..(n - 1) : g[k] = i
      <3> TAKE i \in J
      <3>1. PICK k \in 1..n : h[k] = i + 1
        BY <1>3, <1>8 DEF Enumerates
      <3>2. i \in 1..(Len(L) - 1) /\ k # 1
        BY <1>8, <2>4, <3>1
      <3>3. k - 1 \in 1..(n - 1) /\ (k - 1) + 1 = k
        BY <1>3, <3>2
      <3>4. g[k - 1] = i
        BY <1>1, <3>1, <3>2, <3>3
      <3> HIDE DEF g
      <3> QED
        BY <3>3, <3>4
    <2>9. n - 1 \in Nat
      BY <1>3, <2>3
    <2>10. Enumerates(g, n - 1, J)
      BY <2>6, <2>7, <2>8 DEF Enumerates, Increases
    <2>11. \A k \in 1..(n - 1) : Q[M[g[k]]].id = P[L[h[k + 1]]].id
      <3> TAKE k \in 1..(n - 1)
      <3>1. g[k] = h[k + 1] - 1
        OBVIOUS
      <3> HIDE DEF g
      <3> QED
        BY <1>9, <2>5, <3>1
    <2> HIDE DEF g
    <2>12. DueIn(M, Q, t) = [k \in 1..(n - 1) |-> Q[M[g[k]]].id]
      BY <2>9, <2>10, DueIs DEF J
    <2> DEFINE a(k) == P[L[h[k]]].id
               d == [k \in 1..n |-> a(k)]
    <2>13. \A k \in 1..n : a(k) \in Names
      BY <1>4
    <2>14. a(1) = P[L[1]].id
      BY <2>4
    <2> HIDE DEF a
    <2>15. d \in Seq(Names) /\ Len(d) = n
      BY <1>3, <2>13
    <2>16. d # << >> /\ Head(d) = a(1) /\ Tail(d) = [k \in 1..(n - 1) |-> a(k + 1)]
      <3>0. d[1] = a(1)
        BY <2>3
      <3>3. \A k \in 1..(n - 1) : d[k + 1] = a(k + 1)
        BY <2>5
      <3> HIDE DEF d
      <3>1. d # << >> /\ Head(d) = a(1)
        BY <1>3, <2>3, <2>15, <3>0
      <3> DEFINE w == Tail(d)
      <3>2. /\ w \in Seq(Names) /\ Len(w) = n - 1
            /\ \A k \in 1..(n - 1) : w[k] = d[k + 1]
        BY <1>3, <2>3, <2>15, <3>1
      <3> HIDE DEF w
      <3>4. w = [k \in 1..(n - 1) |-> a(k + 1)]
        BY <3>2, <3>3
      <3> QED
        BY <3>1, <3>4 DEF w
    <2>17. DueIn(M, Q, t) = [k \in 1..(n - 1) |-> a(k + 1)]
      BY <2>11, <2>12 DEF a
    <2>18. DueIn(L, P, t) = d
      BY <1>6 DEF a
    <2> HIDE DEF d
    <2> QED
      BY <1>11, <2>14, <2>16, <2>17, <2>18
  <1> QED
    BY <1>10, <1>11

\* M is L without the tasks that have the id; f tells which remain.
LeftOut(S, Names, L, P, M, Q, f, id) ==
  /\ L \in Seq(S) /\ M \in Seq(S)
  /\ Enumerates(f, Len(M), {k \in DOMAIN L : P[L[k]].id # id})
  /\ \A k \in 1..Len(M) : M[k] = L[f[k]] /\ Q[M[k]] = P[L[f[k]]]
  /\ \A k \in 1..Len(L) : P[L[k]].id \in Names

\* Going through the list without those tasks, or through a queue without them,
\* comes to the same.
LEMMA DueCancelled ==
  ASSUME NEW S, NEW Names, NEW L, NEW P, NEW M, NEW Q, NEW f, NEW id, NEW t,
         LeftOut(S, Names, L, P, M, Q, f, id)
  PROVE  DueIn(M, Q, t) =
           Picked(DueIn(L, P, t), {k \in DOMAIN DueIn(L, P, t) : DueIn(L, P, t)[k] # id})
  <1> USE DEF LeftOut
  <1> DEFINE Kept == {k \in DOMAIN L : P[L[k]].id # id}
             I == PlacesIn(L, P, t)
             J == PlacesIn(M, Q, t)
             Both == {k \in 1..Len(L) : P[L[k]].time = t /\ P[L[k]].id # id}
  <1>1. /\ Len(L) \in Nat /\ Len(M) \in Nat
        /\ I \in SUBSET Nat /\ J \in SUBSET (1..Len(M)) /\ Kept \in SUBSET Nat
        /\ \A k : k \in I <=> k \in 1..Len(L) /\ P[L[k]].time = t
        /\ \A k : k \in J <=> k \in 1..Len(M) /\ Q[M[k]].time = t
        /\ \A k : k \in Kept <=> k \in 1..Len(L) /\ P[L[k]].id # id
    BY PlacesListed
  <1>2. \E n \in Nat : \E h : Enumerates(h, n, I)
    BY PlacesListed
  <1>3. \E n \in Nat : \E h : Enumerates(h, n, J)
    BY PlacesListed
  <1>4. \A k : k \in Both <=> k \in 1..Len(L) /\ P[L[k]].time = t /\ P[L[k]].id # id
    OBVIOUS
  <1>5. Enumerates(f, Len(M), Kept) /\ Both \in SUBSET Nat
    OBVIOUS
  <1> HIDE DEF I, J, Kept, Both
  <1>30. PICK n \in Nat : \E h : Enumerates(h, n, I)
    BY <1>2
  <1>6. PICK h : Enumerates(h, n, I)
    BY <1>30
  <1>31. PICK m2 \in Nat : \E h2 : Enumerates(h2, m2, J)
    BY <1>3
  <1>7. PICK h2 : Enumerates(h2, m2, J)
    BY <1>31
  <1> DEFINE d == [k \in 1..n |-> P[L[h[k]]].id]
             K == {k \in 1..n : d[k] # id}
  <1>8. DueIn(L, P, t) = d
    BY <1>6, DueIs DEF I
  <1>9. DueIn(M, Q, t) = [k \in 1..m2 |-> Q[M[h2[k]]].id]
    BY <1>7, DueIs DEF J
  <1>10. \A k \in 1..n : h[k] \in I /\ h[k] \in 1..Len(L)
    BY <1>1, <1>6 DEF Enumerates
  <1>11. d \in Seq(Names) /\ Len(d) = n /\ DOMAIN d = 1..n /\ K \in SUBSET (1..Len(d))
    <2>1. \A k \in 1..n : P[L[h[k]]].id \in Names
      BY <1>10
    <2> HIDE DEF LeftOut
    <2>2. d \in Seq(Names) /\ Len(d) = n /\ DOMAIN d = 1..n
      BY <2>1, <1>6
    <2>3. K \in SUBSET (1..n)
      OBVIOUS
    <2> QED
      BY <2>2, <2>3
  <1>12. \A k \in 1..n : d[k] = P[L[h[k]]].id
    OBVIOUS
  <1>13. \A k : k \in K <=> k \in 1..n /\ d[k] # id
    OBVIOUS
  <1>20. Picked(DueIn(L, P, t), {k \in DOMAIN DueIn(L, P, t) : DueIn(L, P, t)[k] # id}) = Picked(d, K)
    BY <1>8, <1>11
  <1> HIDE DEF d, K
  <1>14. \E m \in Nat : \E g : Enumerates(g, m, K)
    <2> DEFINE q == Picked(d, K)
    <2>1. q \in Seq(Names) /\ \E h3 : Enumerates(h3, Len(q), K)
      BY <1>11, PickedOrder
    <2>2. Len(q) \in Nat
      BY <2>1
    <2> HIDE DEF q
    <2> QED
      BY <2>1, <2>2
  <1>32. PICK m \in Nat : \E g : Enumerates(g, m, K)
    BY <1>14
  <1>15. PICK g : Enumerates(g, m, K)
    BY <1>32
  <1>16. Picked(d, K) = [k \in 1..m |-> d[g[k]]]
    <2> DEFINE r == [k \in 1..m |-> d[g[k]]]
    <2>1. d \in Seq(Names) /\ K \in SUBSET (1..Len(d)) /\ m \in Nat /\ Enumerates(g, m, K)
      BY <1>11, <1>15
    <2>2. Picked(d, K) = r
      BY <2>1, PickedIs, ZenonT(60)
    <2> QED
      BY <2>2
  <1> DEFINE f1 == [k \in 1..m |-> h[g[k]]]
             f2 == [k \in 1..m2 |-> f[h2[k]]]
  <1>17. Enumerates(f1, m, Both)
    <2>1. /\ \A i \in Both : \E k \in K : h[k] = i
          /\ \A k \in K : h[k] \in Both
      <3>1. ASSUME NEW i \in Both PROVE \E k \in K : h[k] = i
        <4>1. i \in I /\ P[L[i]].id # id
          BY <1>1, <1>4
        <4>2. PICK k \in 1..n : h[k] = i
          BY <1>6, <4>1 DEF Enumerates
        <4> QED
          BY <1>12, <1>13, <4>1, <4>2
      <3>2. ASSUME NEW k \in K PROVE h[k] \in Both
        <4>1. k \in 1..n /\ P[L[h[k]]].id # id
          BY <1>12, <1>13
        <4> QED
          BY <1>1, <1>4, <1>10, <4>1
      <3> QED
        BY <3>1, <3>2
    <2>2. /\ I \in SUBSET Nat /\ n \in Nat /\ Enumerates(h, n, I)
          /\ K \in SUBSET (1..n) /\ m \in Nat /\ Enumerates(g, m, K)
      BY <1>1, <1>6, <1>13, <1>15
    <2>3. f1 \in [1..m -> Nat] /\ \A k \in 1..m : f1[k] = h[g[k]]
      BY <2>2 DEF Enumerates
    <2> HIDE DEF f1, f2
    <2> QED
      BY <2>1, <2>2, <2>3, Composed, SMTT(60)
  <1>18. \A k \in 1..m2 : h2[k] \in 1..Len(M) /\ Q[M[h2[k]]] = P[L[f[h2[k]]]]
    BY <1>1, <1>7 DEF Enumerates
  <1>19. Enumerates(f2, m2, Both)
    <2>1. /\ \A i \in Both : \E k \in J : f[k] = i
          /\ \A k \in J : f[k] \in Both
      <3>1. ASSUME NEW i \in Both PROVE \E k \in J : f[k] = i
        <4>1. i \in Kept /\ P[L[i]].time = t
          BY <1>1, <1>4
        <4>2. PICK k \in 1..Len(M) : f[k] = i
          BY <1>5, <4>1 DEF Enumerates
        <4>3. Q[M[k]] = P[L[i]]
          BY <4>2
        <4> QED
          BY <1>1, <4>1, <4>2, <4>3
      <3>2. ASSUME NEW k \in J PROVE f[k] \in Both
        <4>1. k \in 1..Len(M) /\ Q[M[k]].time = t
          BY <1>1
        <4>2. f[k] \in Kept /\ Q[M[k]] = P[L[f[k]]]
          BY <1>5, <4>1 DEF Enumerates
        <4>3. f[k] \in 1..Len(L) /\ P[L[f[k]]].id # id
          BY <1>1, <4>2
        <4> QED
          BY <1>4, <4>1, <4>2, <4>3
      <3> QED
        BY <3>1, <3>2
    <2>2. /\ Kept \in SUBSET Nat /\ Len(M) \in Nat /\ Enumerates(f, Len(M), Kept)
          /\ J \in SUBSET (1..Len(M)) /\ m2 \in Nat /\ Enumerates(h2, m2, J)
      BY <1>1, <1>5, <1>7
    <2>3. f2 \in [1..m2 -> Nat] /\ \A k \in 1..m2 : f2[k] = f[h2[k]]
      BY <2>2 DEF Enumerates
    <2> HIDE DEF f1, f2
    <2> QED
      BY <2>1, <2>2, <2>3, Composed, SMTT(60)
  <1> HIDE DEF f1, f2
  <1>21. m = m2 /\ f1 = f2
    BY <1>5, <1>17, <1>19, OneEnumeration
  <1>22. \A k \in 1..m : d[g[k]] = Q[M[h2[k]]].id
    <2> TAKE k \in 1..m
    <2>1. g[k] \in K /\ g[k] \in 1..n
      BY <1>13, <1>15 DEF Enumerates
    <2>2. d[g[k]] = P[L[h[g[k]]]].id
      BY <1>12, <2>1
    <2>3. h[g[k]] = f1[k] /\ f[h2[k]] = f2[k]
      BY <1>21 DEF f1, f2
    <2>4. Q[M[h2[k]]] = P[L[f[h2[k]]]]
      BY <1>18, <1>21
    <2> QED
      BY <1>21, <2>2, <2>3, <2>4
  <1> QED
    BY <1>9, <1>16, <1>20, <1>21, <1>22

-----------------------------------------------------------------------------
(***************************************************************************)
(* There is room in the queues exactly when a slot is free: the places of  *)
(* the queues stand for the armed slots, one for one.                      *)
(***************************************************************************)

DueAt(t) == DueIn(m_scheduled, m_tasks, t)
SlotsFor(t) == Picked(m_scheduled, PlacesIn(m_scheduled, m_tasks, t))

\* The slots behind the places of one queue are those armed for its time.
LEMMA QueueSlots ==
  ASSUME SchedInv, NEW t \in Times
  PROVE  /\ Len(DueAt(t)) \in 0..scheduledTasksMax
         /\ \A k \in 1..Len(DueAt(t)) : /\ SlotsFor(t)[k] \in Armed
                                        /\ m_tasks[SlotsFor(t)[k]].time = t
         /\ \A j, k \in 1..Len(DueAt(t)) : SlotsFor(t)[j] = SlotsFor(t)[k] => j = k
         /\ \A i \in Armed : m_tasks[i].time = t => \E k \in 1..Len(DueAt(t)) : SlotsFor(t)[k] = i
  <1> DEFINE L == m_scheduled
             I == PlacesIn(m_scheduled, m_tasks, t)
  <1>1. L \in Seq(Slots) /\ Len(L) \in Nat
    BY Entries DEF SchedInv
  <1>2. /\ I \in SUBSET Nat
        /\ \A k : k \in I <=> k \in 1..Len(L) /\ m_tasks[L[k]].time = t
        /\ \E n \in Nat : \E h : Enumerates(h, n, I)
    <2> HIDE DEF I
    <2>1. I \in SUBSET Nat
      BY <1>1, PlacesListed DEF I
    <2>2. \A k : k \in I <=> k \in 1..Len(L) /\ m_tasks[L[k]].time = t
      BY <1>1, PlacesListed DEF I
    <2>3. \E n \in Nat : \E h : Enumerates(h, n, I)
      BY <1>1, PlacesListed, Zenon DEF I
    <2> QED
      BY <2>1, <2>2, <2>3
  <1> HIDE DEF I
  <1>3. PICK n, h : n \in Nat /\ Enumerates(h, n, I)
    BY <1>2
  <1>4. /\ SlotsFor(t) = [k \in 1..n |-> L[h[k]]]
        /\ DueAt(t) = [k \in 1..n |-> m_tasks[L[h[k]]].id]
    BY <1>1, <1>3, DueIs DEF I, SlotsFor, DueAt
  <1> DEFINE q == SlotsFor(t)
             a(k) == m_tasks[L[h[k]]].id
  <1> HIDE DEF a
  <1>5. Len(DueAt(t)) = n
    <2>1. DueAt(t) = [k \in 1..n |-> a(k)]
      BY <1>4 DEF a
    <2> QED
      BY <1>3, <2>1
  <1>6. \A k \in 1..n : q[k] = L[h[k]] /\ h[k] \in I /\ h[k] \in 1..Len(L)
    BY <1>2, <1>3, <1>4 DEF Enumerates
  <1>7. \A k \in 1..n : q[k] \in Armed /\ m_tasks[q[k]].time = t
    BY <1>2, <1>6 DEF SchedInv, Linked
  <1>8. ASSUME NEW j \in 1..n, NEW k \in 1..n, q[j] = q[k] PROVE j = k
    <2>1. h[j] = h[k] /\ h[j] \in 1..Len(L)
      BY <1>6, <1>8 DEF SchedInv, Linked
    <2>2. (j < k => h[j] < h[k]) /\ (k < j => h[k] < h[j])
      BY <1>3 DEF Enumerates, Increases
    <2> QED
      BY <1>1, <1>3, <2>1, <2>2
  <1>9. ASSUME NEW i \in Armed, m_tasks[i].time = t PROVE \E k \in 1..n : q[k] = i
    <2>1. PICK l \in 1..Len(L) : L[l] = i
      BY DEF SchedInv, Linked
    <2>2. l \in I
      BY <1>2, <1>9, <2>1
    <2>3. PICK k \in 1..n : h[k] = l
      BY <1>3, <2>2 DEF Enumerates
    <2> QED
      BY <1>6, <2>1, <2>3
  <1>10. n <= scheduledTasksMax
    <2> DEFINE f == [k \in 1..n |-> q[k]]
    <2>1. f \in [1..n -> Slots] /\ DOMAIN f = 1..n
      BY <1>7 DEF Armed
    <2>2. \A j, k \in 1..n : f[j] = f[k] => j = k
      BY <1>8
    <2> HIDE DEF f
    <2>3. f \in Injection(1..n, Slots)
      BY <2>1, <2>2 DEF Injection, IsInjective
    <2>4. IsFiniteSet(Slots) /\ Cardinality(Slots) = scheduledTasksMax
      <3>1. scheduledTasksMax \in Nat /\ scheduledTasksMax > 0
        BY SchedulerAssumption
      <3> QED
        BY <3>1, FS_Interval DEF Slots
    <2>5. Cardinality(1..n) = n
      BY <1>3, FS_Interval
    <2>6. Cardinality(1..n) <= Cardinality(Slots)
      BY <2>3, <2>4, FS_Injection
    <2> QED
      BY <2>4, <2>5, <2>6
  <1>11. n \in 0..scheduledTasksMax
    BY <1>3, <1>10, Bounds
  <1> QED
    BY <1>5, <1>7, <1>8, <1>9, <1>11

\* TaskQueue counts and picks with the operators of the scheduler's own modules.
LEMMA QueueOperators ==
  /\ \A s : Queue!Cardinality(s) = Cardinality(s)
  /\ \A q, i : Queue!Picked(q, i) = Picked(q, i)
  <1>1. \A s : Queue!Cardinality(s) = Cardinality(s)
    BY DEF Queue!Cardinality, Cardinality
  <1>2. \A q, i : Queue!Picked(q, i) = Picked(q, i)
    BY DEF Queue!Picked, Picked
  <1> QED
    BY <1>1, <1>2

LEMMA RoomLeft ==
  ASSUME SchedInv
  PROVE  Queue!Cardinality(Queue!Waiting) < scheduledTasksMax <=> Armed # Slots
  <1> DEFINE W == {place \in Times \X (1..scheduledTasksMax) : place[2] <= Len(DueAt(place[1]))}
             f == [place \in W |-> SlotsFor(place[1])[place[2]]]
  <1>1. Queue!Waiting = W
    BY DEF Queue!Waiting, DueAt, DueIn, PlacesIn, TasksAt, TimeAt
  <1>2. \A place \in W : /\ place[1] \in Times /\ place[2] \in 1..Len(DueAt(place[1]))
                         /\ place = <<place[1], place[2]>>
    <2> TAKE place \in W
    <2>1. /\ place[1] \in Times /\ place[2] \in 1..scheduledTasksMax
          /\ place[2] <= Len(DueAt(place[1])) /\ place = <<place[1], place[2]>>
      OBVIOUS
    <2>2. Len(DueAt(place[1])) \in 0..scheduledTasksMax
      BY <2>1, QueueSlots
    <2> QED
      BY <2>1, <2>2
  <1>3. \A t \in Times : \A k \in 1..Len(DueAt(t)) : <<t, k>> \in W
    <2> SUFFICES ASSUME NEW t \in Times, NEW k \in 1..Len(DueAt(t)) PROVE <<t, k>> \in W
      OBVIOUS
    <2>1. Len(DueAt(t)) \in 0..scheduledTasksMax
      BY QueueSlots
    <2>2. k \in 1..scheduledTasksMax
      BY <2>1, Bounds
    <2> QED
      BY <2>1, <2>2
  <1>4. DOMAIN f = W /\ \A place \in W : f[place] = SlotsFor(place[1])[place[2]]
    OBVIOUS
  <1>5. f = [place \in W |-> f[place]]
    OBVIOUS
  <1> HIDE DEF f, W
  <1>6. \A place \in W : f[place] \in Armed /\ m_tasks[f[place]].time = place[1]
    <2> TAKE place \in W
    <2>1. place[1] \in Times /\ place[2] \in 1..Len(DueAt(place[1]))
      BY <1>2
    <2> QED
      BY <1>4, <2>1, QueueSlots
  <1>7. ASSUME NEW x \in W, NEW y \in W, f[x] = f[y] PROVE x = y
    <2>1. x[1] \in Times /\ y[1] = x[1]
      BY <1>2, <1>6, <1>7
    <2>2. x[2] \in 1..Len(DueAt(x[1])) /\ y[2] \in 1..Len(DueAt(x[1]))
      BY <1>2, <2>1
    <2>3. SlotsFor(x[1])[x[2]] = SlotsFor(x[1])[y[2]]
      BY <1>4, <1>7, <2>1
    <2>4. x[2] = y[2]
      BY <2>1, <2>2, <2>3, QueueSlots
    <2> QED
      BY <1>2, <2>1, <2>4
  <1>8. ASSUME NEW i \in Armed PROVE \E place \in W : f[place] = i
    <2>1. m_tasks[i].time \in Times
      BY Entries DEF SchedInv
    <2>2. PICK k \in 1..Len(DueAt(m_tasks[i].time)) : SlotsFor(m_tasks[i].time)[k] = i
      BY <2>1, QueueSlots
    <2> DEFINE place == <<m_tasks[i].time, k>>
    <2>3. place \in W /\ place[1] = m_tasks[i].time /\ place[2] = k
      BY <1>3, <2>1
    <2> HIDE DEF place
    <2>4. f[place] = i
      BY <1>4, <2>2, <2>3
    <2> QED
      BY <2>3, <2>4
  <1>9. f \in Injection(W, Armed) /\ f \in Surjection(W, Armed)
    <2>1. f \in [W -> Armed]
      BY <1>5, <1>6
    <2>2. f \in Injection(W, Armed)
      BY <1>4, <1>7, <2>1 DEF Injection, IsInjective
    <2>3. f \in Surjection(W, Armed)
      BY <1>8, <2>1 DEF Surjection
    <2> QED
      BY <2>2, <2>3
  <1>10. scheduledTasksMax \in Nat /\ scheduledTasksMax > 0
    BY SchedulerAssumption
  <1>11. IsFiniteSet(Slots) /\ Cardinality(Slots) = scheduledTasksMax
    BY <1>10, FS_Interval DEF Slots
  <1>12. Armed \in SUBSET Slots
    BY DEF Armed
  <1>13. /\ IsFiniteSet(Armed) /\ Cardinality(Armed) <= Cardinality(Slots)
         /\ Cardinality(Slots) = Cardinality(Armed) => Slots = Armed
    BY <1>11, <1>12, FS_Subset
  <1>14. Cardinality(Armed) \in Nat
    BY <1>13, FS_CardinalityType
  <1>15. Cardinality(W) = Cardinality(Armed)
    BY <1>9, <1>13, FS_Injection
  <1>16. Cardinality(Armed) < scheduledTasksMax <=> Armed # Slots
    BY <1>10, <1>11, <1>13, <1>14
  <1> QED
    BY <1>1, <1>15, <1>16, QueueOperators

-----------------------------------------------------------------------------
(***************************************************************************)
(* The scheduler implements the queues of TaskQueue, step by step.         *)
(***************************************************************************)

\* What stands for the variables due and running of TaskQueue.
QDue == [t \in Times |-> [k \in DOMAIN TasksAt(t) |-> m_tasks[TasksAt(t)[k]].id]]
QRunning == IF running = NoTask THEN NoTask ELSE [id |-> running.id, time |-> running.time]

LEMMA QueueSeen ==
  /\ QDue = [t \in Times |-> DueIn(m_scheduled, m_tasks, t)]
  /\ QDue' = [t \in Times |-> DueIn(m_scheduled', m_tasks', t)]
  /\ UNCHANGED pool => QDue' = QDue
  /\ UNCHANGED running => QRunning' = QRunning
  <1>1. QDue = [t \in Times |-> DueIn(m_scheduled, m_tasks, t)]
    BY DEF QDue, DueIn, PlacesIn, TasksAt, TimeAt
  <1>2. QDue' = [t \in Times |-> DueIn(m_scheduled', m_tasks', t)]
    BY DEF QDue, DueIn, PlacesIn, TasksAt, TimeAt
  <1>3. UNCHANGED running => QRunning' = QRunning
    BY DEF QRunning
  <1> QED
    BY <1>1, <1>2, <1>3 DEF pool

LEMMA RunningSeen ==
  ASSUME TypeOK
  PROVE  QRunning = NoTask <=> running = NoTask
  <1>1. CASE running = NoTask
    BY <1>1 DEF QRunning
  <1>2. CASE running # NoTask
    <2>1. running.id \in Ids /\ running.time \in Times
      BY <1>2, TaskTyped DEF TypeOK
    <2>2. [id |-> running.id, time |-> running.time] \in [id : Ids, time : Times]
      BY <2>1
    <2> QED
      BY <1>2, <2>2, NoTaskAssumption DEF QRunning
  <1> QED
    BY <1>1, <1>2

LEMMA InitSeen == Init => Queue!QInit
  <1> SUFFICES ASSUME Init PROVE Queue!QInit
    OBVIOUS
  <1>1. m_scheduled = << >> /\ now = 0 /\ handling = FALSE /\ running = NoTask
    BY DEF Init
  <1>2. \A t \in Times : DueIn(m_scheduled, m_tasks, t) = << >>
    <2> TAKE t \in Times
    <2>1. Enumerates(<< >>, 0, PlacesIn(m_scheduled, m_tasks, t))
      BY <1>1 DEF PlacesIn, Enumerates, Increases
    <2>2. m_scheduled \in Seq(Slots) /\ 0 \in Nat
      BY <1>1
    <2>3. DueIn(m_scheduled, m_tasks, t) = [k \in 1..0 |-> m_tasks[m_scheduled[<< >>[k]]].id]
      BY <2>1, <2>2, DueIs
    <2> QED
      BY <2>3
  <1>3. QDue = [t \in Times |-> << >>]
    BY <1>2, QueueSeen
  <1> QED
    BY <1>1, <1>3 DEF Queue!QInit, QDue, QRunning

LEMMA SheduleSeen ==
  ASSUME SchedInv, NEW id \in Ids, NEW delay \in 0..MaxDelay, Shedule(id, delay)
  PROVE  \E t \in Times : Queue!Submit(id, t)
  <1>1. /\ clock \in 0..MaxClock /\ running \in Task \cup {NoTask} /\ TypeOK
        /\ UNCHANGED <<now, handling, running, clock>> /\ (~handling \/ running # NoTask)
    BY DEF Shedule, SchedInv, TypeOK
  <1>2. PICK at \in 0..(MaxClock + MaxDelay) : shedule(id, at % TimeMod, at)
    <2>1. CASE running = NoTask
      <3>1. clock + delay \in 0..(MaxClock + MaxDelay)
        BY <1>1, Bounds
      <3> QED
        BY <2>1, <3>1 DEF Shedule
    <2>2. CASE running # NoTask
      <3>1. running.at \in 0..(MaxClock + MaxDelay) /\ running.at + delay <= MaxClock + MaxDelay
        BY <1>1, <2>2, TaskTyped DEF Shedule
      <3>2. running.at + delay \in 0..(MaxClock + MaxDelay)
        BY <3>1, Bounds
      <3> QED
        BY <2>2, <3>2 DEF Shedule
    <2> QED
      BY <2>1, <2>2
  <1> DEFINE time == at % TimeMod
  <1>3. time \in Times
    BY <1>2, Bounds
  <1>4. shedule(id, time, at)
    BY <1>2
  <1> HIDE DEF time
  <1>5. QDue' = IF Queue!Cardinality(Queue!Waiting) < scheduledTasksMax
                THEN [QDue EXCEPT ![time] = Append(@, id)] ELSE QDue
    <2>1. CASE Armed = Slots
      <3>1. QDue' = QDue
        BY <1>4, <2>1, QueueSeen DEF shedule
      <3> QED
        BY <2>1, <3>1, RoomLeft
    <2>2. CASE Armed # Slots
      <3> DEFINE L == m_scheduled
                 M == m_scheduled'
                 P == m_tasks
                 Q == m_tasks'
                 p == Place(time)
                 s == task_alloc
      <3>1. /\ M \in Seq(Slots) /\ Len(M) = Len(L) + 1
            /\ \A i \in 1..(Len(L) + 1) :
                 M[i] = IF i <= p THEN L[i] ELSE IF i = p + 1 THEN s ELSE L[i - 1]
            /\ Q[s] = [id |-> id, time |-> time, at |-> at]
            /\ \A i \in Armed : Q[i] = P[i]
        BY <1>3, <1>4, <2>2, SheduleDoes
      <3>2. Q[s].time = time /\ Q[s].id = id
        BY <3>1
      <3>3. L \in Seq(Slots) /\ time \in Int /\ p \in 0..Len(L)
        BY <1>3, Bounds, PlaceIs, Entries DEF SchedInv
      <3>4. \A k \in 1..Len(L) : Q[L[k]] = P[L[k]]
        BY <3>1 DEF SchedInv, Linked
      <3>5. \A k \in 1..Len(L) : k > p => P[L[k]].time # time
        <4> TAKE k \in 1..Len(L)
        <4>1. SUFFICES ASSUME k > p PROVE P[L[k]].time # time
          OBVIOUS
        <4>2. k \in (p + 1)..Len(L)
          BY <3>3, <4>1
        <4>3. time < TimeAt(k)
          BY <3>3, <4>2, PlaceIs
        <4> QED
          BY <3>3, <4>3 DEF TimeAt
      <3> HIDE DEF L, M, P, Q, p, s
      <3>6. \A t \in Times : DueIn(M, Q, t) = IF t = time THEN Append(DueIn(L, P, t), id)
                                              ELSE DueIn(L, P, t)
        <4>1. PutIn(Slots, L, P, M, Q, p, s)
          BY <3>1, <3>2, <3>3, <3>4, <3>5 DEF PutIn
        <4> QED
          BY <3>2, <4>1, DueSheduled
      <3>7. /\ QDue = [t \in Times |-> DueIn(L, P, t)]
            /\ QDue' = [t \in Times |-> DueIn(M, Q, t)]
        BY QueueSeen DEF L, M, P, Q
      <3>8. QDue' = [QDue EXCEPT ![time] = Append(@, id)]
        BY <1>3, <3>6, <3>7
      <3> QED
        BY <2>2, <3>8, RoomLeft
    <2> QED
      BY <2>1, <2>2
  <1>6. ~handling \/ QRunning # NoTask
    BY <1>1, RunningSeen
  <1>7. UNCHANGED <<now, handling>> /\ QRunning' = QRunning
    BY <1>1, QueueSeen
  <1>8. Queue!Submit(id, time)
    BY <1>5, <1>6, <1>7 DEF Queue!Submit, Queue!ClientRuns, QDue, QRunning
  <1> QED
    BY <1>3, <1>8

LEMMA UnsheduleSeen ==
  ASSUME SchedInv, NEW id \in Ids, Unshedule(id)
  PROVE  Queue!Cancel(id)
  <1> DEFINE L == m_scheduled
             M == m_scheduled'
             P == m_tasks
             Q == m_tasks'
  <1>1. /\ ~handling \/ running # NoTask
        /\ unshedule(id)
        /\ UNCHANGED <<now, handling, running>>
    BY DEF Unshedule
  <1>2. /\ M \in Seq(Slots)
        /\ \E f : /\ Enumerates(f, Len(M), {k \in DOMAIN L : P[L[k]].id # id})
                  /\ \A k \in 1..Len(M) : M[k] = L[f[k]]
    <2> DEFINE u == Unlinked(id)
    <2>1. /\ u \in Seq(Slots)
          /\ \E f : /\ Enumerates(f, Len(u), {k \in DOMAIN L : P[L[k]].id # id})
                    /\ \A k \in 1..Len(u) : u[k] = L[f[k]]
      BY UnlinkedIs, Zenon
    <2>2. M = u
      BY <1>1 DEF unshedule
    <2> HIDE DEF u
    <2> QED
      BY <2>1, <2>2
  <1>3. PICK f : /\ Enumerates(f, Len(M), {k \in DOMAIN L : P[L[k]].id # id})
                 /\ \A k \in 1..Len(M) : M[k] = L[f[k]]
    BY <1>2
  <1>4. /\ L \in Seq(Slots) /\ \A k \in 1..Len(L) : P[L[k]].id \in Ids
    BY Entries DEF SchedInv, Linked
  <1>5. \A k \in 1..Len(M) : M[k] = L[f[k]] /\ Q[M[k]] = P[L[f[k]]]
    <2> TAKE k \in 1..Len(M)
    <2>1. M[k] \in Armed'
      BY <1>1, UnsheduleKeeps DEF Linked
    <2>2. Q[M[k]] = P[M[k]]
      BY <1>1, <2>1, UnsheduleDoes
    <2> QED
      BY <1>3, <2>2
  <1> HIDE DEF L, M, P, Q
  <1>6. \A t \in Times :
          DueIn(M, Q, t) =
            Picked(DueIn(L, P, t), {k \in DOMAIN DueIn(L, P, t) : DueIn(L, P, t)[k] # id})
    <2>1. LeftOut(Slots, Ids, L, P, M, Q, f, id)
      BY <1>2, <1>3, <1>4, <1>5 DEF LeftOut
    <2> QED
      BY <2>1, DueCancelled
  <1>7. /\ QDue = [t \in Times |-> DueIn(L, P, t)]
        /\ QDue' = [t \in Times |-> DueIn(M, Q, t)]
    BY QueueSeen DEF L, M, P, Q
  <1>8. QDue' = [t \in Times |-> Picked(QDue[t], {k \in DOMAIN QDue[t] : QDue[t][k] # id})]
    BY <1>6, <1>7
  <1>9. QDue' = [t \in Times |-> Queue!Picked(QDue[t], {k \in DOMAIN QDue[t] : QDue[t][k] # id})]
    BY <1>8, QueueOperators
  <1>10. ~handling \/ QRunning # NoTask
    BY <1>1, RunningSeen DEF SchedInv
  <1>11. UNCHANGED <<now, handling>> /\ QRunning' = QRunning
    BY <1>1, QueueSeen
  <1> QED
    BY <1>9, <1>10, <1>11 DEF Queue!Cancel, Queue!ClientRuns, QDue, QRunning

\* What is due in the queues is due at the head.
LEMMA HeadSeen ==
  ASSUME SchedInv
  PROVE  /\ \A t \in Times : DueAt(t) # << >> <=> \E k \in 1..Len(m_scheduled) : TimeAt(k) = t
         /\ Queue!DueTimes = {t \in Times : t <= now /\ DueAt(t) # << >>}
         /\ HeadDue <=> Queue!DueTimes # {}
         /\ HeadDue => /\ TimeAt(1) \in Queue!DueTimes
                       /\ \A t \in Queue!DueTimes : TimeAt(1) <= t
  <1>1. /\ m_scheduled \in Seq(Slots) /\ Len(m_scheduled) \in Nat
        /\ \A k \in 1..Len(m_scheduled) : TimeAt(k) \in Times /\ TimeAt(k) \in Int
    BY Entries DEF SchedInv, Linked, TimeAt
  <1>2. ASSUME NEW t \in Times
        PROVE  DueAt(t) # << >> <=> \E k \in 1..Len(m_scheduled) : TimeAt(k) = t
    <2>1. /\ \E n \in Nat : \E h : Enumerates(h, n, PlacesIn(m_scheduled, m_tasks, t))
          /\ \A k : k \in PlacesIn(m_scheduled, m_tasks, t) <=>
                      k \in 1..Len(m_scheduled) /\ TimeAt(k) = t
      BY <1>1, PlacesListed DEF TimeAt
    <2>2. PICK n, h : n \in Nat /\ Enumerates(h, n, PlacesIn(m_scheduled, m_tasks, t))
      BY <2>1
    <2>3. DueAt(t) = [k \in 1..n |-> m_tasks[m_scheduled[h[k]]].id]
      BY <1>1, <2>2, DueIs DEF DueAt
    <2>4. DueAt(t) # << >> <=> n # 0
      BY <2>2, <2>3
    <2>5. n # 0 <=> \E k : k \in PlacesIn(m_scheduled, m_tasks, t)
      <3>1. n # 0 => h[1] \in PlacesIn(m_scheduled, m_tasks, t)
        BY <2>2 DEF Enumerates
      <3>2. ASSUME NEW k \in PlacesIn(m_scheduled, m_tasks, t) PROVE n # 0
        <4>1. \E j \in 1..n : h[j] = k
          BY <2>2 DEF Enumerates
        <4> QED
          BY <4>1
      <3> QED
        BY <3>1, <3>2
    <2> QED
      BY <2>1, <2>4, <2>5
  <1>3. Queue!DueTimes = {t \in Times : t <= now /\ DueAt(t) # << >>}
    BY DEF Queue!DueTimes, DueAt, DueIn, PlacesIn, TasksAt, TimeAt
  <1> DEFINE T == Queue!DueTimes
  <1>4. \A t : t \in T <=> /\ t \in Times /\ t <= now
                           /\ \E k \in 1..Len(m_scheduled) : TimeAt(k) = t
    BY <1>2, <1>3
  <1> HIDE DEF T
  <1>5. HeadDue <=> 1 \in 1..Len(m_scheduled) /\ TimeAt(1) <= now
    BY <1>1 DEF HeadDue
  <1>6. HeadDue => TimeAt(1) \in T
    BY <1>1, <1>4, <1>5
  <1>7. ASSUME NEW t \in T PROVE HeadDue /\ TimeAt(1) <= t
    <2>1. PICK k \in 1..Len(m_scheduled) : TimeAt(k) = t
      BY <1>4
    <2>2. 1 \in 1..Len(m_scheduled) /\ 1 <= k
      BY <1>1, <2>1
    <2>3. TimeAt(1) <= TimeAt(k)
      BY <2>2 DEF SchedInv, InOrder
    <2>4. t <= now /\ now \in Int
      BY <1>4, Bounds DEF SchedInv, TypeOK
    <2> QED
      BY <1>1, <1>5, <2>1, <2>2, <2>3, <2>4
  <1> QED
    BY <1>2, <1>3, <1>6, <1>7 DEF T

LEMMA RunHeadSeen ==
  ASSUME SchedInv, RunHead
  PROVE  Queue!Run
  <1> DEFINE L == m_scheduled
             M == m_scheduled'
             P == m_tasks
             Q == m_tasks'
             t0 == TimeAt(1)
  <1>1. /\ handling /\ running = NoTask /\ HeadDue /\ UNCHANGED <<now, handling, clock>>
        /\ running' = m_tasks[Head(m_scheduled)]
    BY DEF RunHead
  <1>2. t0 \in Queue!DueTimes /\ \A other \in Queue!DueTimes : t0 <= other
    BY <1>1, HeadSeen
  <1>3. /\ L # << >> /\ Head(L) = L[1] /\ L[1] \in Armed /\ 1 \in 1..Len(L)
        /\ M \in Seq(Slots) /\ Len(M) = Len(L) - 1
        /\ \A k \in 1..(Len(L) - 1) : M[k] = L[k + 1]
        /\ \A i : i \in Armed' <=> i \in Armed /\ i # L[1]
        /\ \A i \in Armed' : Q[i] = P[i]
    BY HeadDoes
  <1>4. /\ L \in Seq(Slots) /\ Len(L) \in Nat /\ \A k \in 1..Len(L) : P[L[k]].id \in Ids
        /\ t0 \in Times
    BY <1>3, Entries DEF SchedInv, Linked, TimeAt
  <1>5. \A k \in 1..(Len(L) - 1) : M[k] = L[k + 1] /\ Q[L[k + 1]] = P[L[k + 1]]
    <2> TAKE k \in 1..(Len(L) - 1)
    <2>1. k + 1 \in 1..Len(L) /\ k + 1 # 1
      BY <1>4
    <2>2. L[k + 1] \in Armed /\ L[k + 1] # L[1]
      BY <1>3, <2>1 DEF SchedInv, Linked
    <2> QED
      BY <1>3, <2>2
  <1>6. P[L[1]].time = t0
    BY DEF TimeAt
  <1>7. running' = P[L[1]] /\ running' \in Task
    BY <1>1, <1>3, Entries DEF SchedInv
  <1>8. QRunning' = [id |-> P[L[1]].id, time |-> t0]
    BY <1>6, <1>7, TaskTyped DEF QRunning
  <1> HIDE DEF L, M, P, Q, t0
  <1>9. TakenOff(Slots, Ids, L, P, M, Q)
    BY <1>3, <1>4, <1>5 DEF TakenOff
  <1>10. /\ QDue = [t \in Times |-> DueIn(L, P, t)]
         /\ QDue' = [t \in Times |-> DueIn(M, Q, t)]
    BY QueueSeen DEF L, M, P, Q
  <1>11. /\ \A t \in Times : t # t0 => DueIn(M, Q, t) = DueIn(L, P, t)
         /\ DueIn(M, Q, t0) = Tail(DueIn(L, P, t0))
         /\ Head(DueIn(L, P, t0)) = P[L[1]].id
    BY <1>6, <1>9, DueHead
  <1>12. QDue' = [QDue EXCEPT ![t0] = Tail(@)]
    BY <1>4, <1>10, <1>11
  <1>13. QRunning' = [id |-> Head(QDue[t0]), time |-> t0]
    BY <1>4, <1>8, <1>10, <1>11
  <1>14. handling /\ QRunning = NoTask /\ UNCHANGED <<now, handling>>
    BY <1>1 DEF QRunning
  <1> QED
    BY <1>2, <1>12, <1>13, <1>14 DEF Queue!Run, QDue, QRunning

LEMMA StepSeen ==
  ASSUME SchedInv, [Next]_vars
  PROVE  [Queue!QNext]_Queue!qvars
  <1>1. ASSUME NEW id \in Ids, NEW delay \in 0..MaxDelay, Shedule(id, delay) PROVE Queue!QNext
    BY <1>1, SheduleSeen DEF Queue!QNext
  <1>2. ASSUME NEW id \in Ids, Unshedule(id) PROVE Queue!QNext
    BY <1>2, UnsheduleSeen DEF Queue!QNext
  <1>3. ASSUME NEW elapsed \in 0..MaxClock, Handle(elapsed) PROVE Queue!Call
    <2>1. ~handling /\ handling' = TRUE /\ UNCHANGED <<pool, running>>
      BY <1>3 DEF Handle
    <2>2. now' \in Times
      <3>1. clock' \in Nat /\ now' = clock' % TimeMod
        BY <1>3, Bounds DEF Handle, SchedInv, TypeOK
      <3> QED
        BY <3>1, Bounds
    <2>3. QDue' = QDue /\ QRunning' = QRunning
      BY <2>1, QueueSeen
    <2> QED
      BY <2>1, <2>2, <2>3 DEF Queue!Call, QDue, QRunning
  <1>4. CASE RunHead
    BY <1>4, RunHeadSeen DEF Queue!QNext
  <1>5. ASSUME HandlerReturns PROVE Queue!Ran
    <2>1. running # NoTask /\ running' = NoTask /\ UNCHANGED <<pool, now, handling>>
      BY <1>5 DEF HandlerReturns
    <2>2. QRunning # NoTask /\ QRunning' = NoTask /\ QDue' = QDue
      BY <2>1, QueueSeen, RunningSeen DEF SchedInv, QRunning
    <2> QED
      BY <2>1, <2>2 DEF Queue!Ran, QDue, QRunning
  <1>6. ASSUME HandleReturns PROVE Queue!Return
    <2>1. /\ handling /\ running = NoTask /\ ~HeadDue /\ handling' = FALSE
          /\ UNCHANGED <<pool, now, running>>
      BY <1>6 DEF HandleReturns
    <2>2. Queue!DueTimes = {}
      BY <2>1, HeadSeen
    <2>3. QDue' = QDue /\ QRunning' = QRunning /\ QRunning = NoTask
      BY <2>1, QueueSeen DEF QRunning
    <2> QED
      BY <2>1, <2>2, <2>3 DEF Queue!Return, QDue, QRunning
  <1>7. ASSUME UNCHANGED vars PROVE UNCHANGED Queue!qvars
    <2>1. QDue' = QDue /\ QRunning' = QRunning /\ UNCHANGED <<now, handling>>
      BY <1>7, QueueSeen DEF vars
    <2> QED
      BY <2>1 DEF Queue!qvars, QDue, QRunning
  <1> QED
    BY <1>1, <1>2, <1>3, <1>4, <1>5, <1>6, <1>7 DEF Next, Queue!QNext

\* Whatever the client and the handlers do, the pool and the list behave as the
\* queues of TaskQueue: earliest first, in order of submission among equals,
\* nothing run that was cancelled, nothing due left behind by handle().
THEOREM QueueImplemented == Spec => ImplementsTaskQueue
  <1>1. SchedInv /\ [Next]_vars => [Queue!QNext]_Queue!qvars
    BY StepSeen
  <1> QED
    BY <1>1, InitSched, StepSched, InitSeen, PTL DEF Spec, ImplementsTaskQueue, Queue!QSpec
=============================================================================
