# Unitra G-602 digital: TLA+ models, checks and proofs

A turntable is driven by an Arduino Nano (`rev1/src/firmware/ino/unitra-g602`) and can be adjusted from a Qt
program on a PC (`rev1/src/tools/regulator-adjustment/pid1`). This directory models both and the serial link
between them. Paths below are relative to the repository's root; FW is the firmware's directory, PC the tool's,
NOSTD is `rev1/src/libs-common/include/nostd`.

## 1. The system

The firmware is one loop without threads (`FW/unitra-g602.ino:329`): it reads the clock, passes five debounced
inputs and the averaged potentiometer to `G602`, lets `G602` read one frame from the link, and lets it run the
tasks that are due. Two interrupt handlers count the pulses of the motor and of the platter. The PC tool is
one Qt event loop with timers.

    buttons, sensor, potentiometer      pulse interrupts                  PC tool
          |                                 |                               |
     GDInputDebounced, AverageTinyMemory    |            Device -- RPCClient -- Comm (GCommBase)
          |                                 |                               |
          +--------- loop() ----------------+                          serial line
                       |                                                    |
                     G602 ---- GRPCServer ---- GComm (GCommBase) -----------+
                    /  |  \
                Ctrl   |   GBlinker (GBlinkerPatterned)
                  SchedulerSoft

| Component | State | Operations | What is hard | What makes it correct |
|---|---|---|---|---|
| `Ctrl` | mode, settings, warnings, cached motor command and set point | 11 commands, measured speed; events by callback | order of autostop, START, menu and set-point commands | motor, needle and set point agree with the mode; nothing changes unannounced |
| `SchedulerSoft` | pool of tasks, list in order of time | `shedule`, `unshedule`, `handle`, `nearestTime` | handlers that re-arm while `handle` iterates; full pool; wrap of the clock | no slot lost, nearest first, fair among equals |
| `GBlinker`, `GBlinkerPatterned` | patterns wanted, pattern shown, position, pause | `typeSet`, `scheduledPartGet` | a request before, between or inside the parts of another | armed once, every request shown in full |
| `G602` | `m_time_next`, the objects above, the regulator, the stream flag | notifications, tasks, procedures, events | a hand-copied nearest time; tasks taken away and armed anew by events; gains kept twice | no task lost, doubled or slept over; what is told of the regulator is what it does |
| `GCommBase` | reader automaton, buffer, check sum | `readFrame`, `writeFrame` | characters lost, changed or added | false frames refused, the reader finds its feet again |
| `GRPCServer` | argument and reply buffers | `handle`, `event` | malformed requests, an argument buffer that is never cleared | gains arrive whole or not at all |
| `RPCClient`, `Device` | requests awaited with timers, statuses, automatic queue, what is known of the device | connect, disconnect, requests, replies, events, time-outs | late and lost replies, old sessions, retries | an answer goes to its request, once; a session gets ready |
| `GDInput`, `GDInputDebounced` | level told, last sample, last change | `stateSet` | bounces around the clock's wrap, signed differences | only stable changes reported, and all of them |
| `AverageTinyMemory` | mean, last value, its weight | `appendValue`, `factorSet` | a weight of one byte, products of 16 bits | the mean follows the samples |
| pulse counters | two counters and times, shared with interrupts | interrupt, initialisation, copy and reset | an interrupt between any two stores; torn times | no edge counted twice or lost, bounces told from pulses |
| `FastSum`, `FastSumCorrection`, `SlidingWindow` | window, running value | append, reset, iterators, index | ends of the window, unsigned wrap | the running value is the one recomputed |
| `PidRecurrent`, `Fixed` | gains, last control value, two errors | `calculate`, `reset`, arithmetic | rounding, overflow, a recurrence in place of the sum | the control is the PID of the true errors |
| EEPROM store | bytes of the configuration | store, load | the power failing in the middle; a memory that looks erased | what was stored is found again |
| PC main window | two sources, set point box, four plots, boxes of the gains | buttons, slider, samples, simulation steps, replies | signals that call each other; samples of either source at any time; gains kept on both ends | plots stay paired; what is told is what is shown; both ends regulate with the same gains |
| `pid/fan` | - | analysis of a row of values | equal values, extremes at the ends | the amplitude shown is that of the plot |
| settings, console, tables, `cgraph`, qcustomplot | display | - | - | not modelled |

`PROJECT.json` lists the same components with their sources and status, and under `hazards` each hard point at
its line.

## 2. Modules

| Module | Models | |
|---|---|---|
| `Turntable` | the promise to the person at the turntable: menus change at rest, motor and needle move together, but in service mode 2, where the needle is left open | abstract |
| `Ctrl` | `FW/Ctrl.ino` | implements `Turntable` |
| `TaskQueue` | a queue of one-shot tasks per time | abstract |
| `TaskList` | what the scheduler does to its list: first task picked, insertion in order of time | pure operators |
| `SchedulerSoft` | `NOSTD/schedulersoft/schedulersoft.hpp` | implements `TaskQueue` |
| `BlinkerTask` | what the firmware sees of the blinker: blinking, armed | abstract |
| `GBlinker` | `FW/GBlinker.ino`, `FW/GBlinkerPatterned.ino`, their clients in `G602.ino` | implements `BlinkerTask` |
| `G602` | the control flow of `FW/G602.ino` driven by `loop()`; instantiates `Ctrl`, uses `BlinkerTask` | implements `Ctrl` |
| `GDInputDebounced`, `AverageTinyMemory` | the two filters of the inputs | |
| `Sketch` | what `loop()` of `FW/unitra-g602.ino` feeds them | extends both |
| `Pulses` | interrupts, `setup()` and `loop()` of `FW/unitra-g602.ino`, around the counters and the time | |
| `Totals` | the loop that sums a list anew | pure operator |
| `FastSum`, `Windows` | `NOSTD/fastsum`, `NOSTD/slidingwindow` | against the last values themselves |
| `Fixed`, `PidRecurrent` | `NOSTD/fixed`, `NOSTD/regulatorpid` | pure operators |
| `GRPCServer` | decoding in `FW/GRPCServer.ino` | pure operators |
| `Regulation` | the data of `FW/G602.ino`: measuring, regulating, the ten procedures, the SP/PV event, the EEPROM | extends the three above, `FastSum` and `Totals` |
| `FrameChannel` | frames may be lost, never invented, repeated or reordered | abstract |
| `GCommBase` | `FW/GCommBase.ino`, used by both ends, and the wire | implements `FrameChannel` |
| `DeviceLink` | `PC/Device.cpp`, `PC/RPCClient.cpp`, the port in `PC/mainwindow.cpp`, the procedures of `G602.ino` and `FW/GRPCServer.ino` | over a channel like `FrameChannel` |
| `CSetpointWidget`, `Fan` | the set point box in `PC/mainwindow_ui.h`, the analysis in `PC/pid/fan.cpp` | pure operators |
| `MainWindow` | sources, set point and plots of `PC/mainwindow.cpp` | extends both |
| `PIDGains` | the gains on both ends: boxes and simulation of `PC/mainwindow.cpp`, requests 02 and 03 of `PC/Device.cpp` and `G602.ino` | |
| `*Proofs` | theorems, section 4 | TLAPS |
| `MC*` | constants for TLC, section 3 | |

`G602.ino` is modelled twice, from two sides that do not disturb each other: `G602` has the times, tasks and the
automaton and leaves the values out; `Regulation` has the values and relies on `G602` for "the regulating task is
armed at all times", so that it may run whenever nothing else does.

**Ctrl.** Variables keep the names of the members. One operator stands for each case of `P_fsm`; `P_fsm(cmd,
speed)` stores the arguments and takes the case of the present state; every public method is an action. `lift`
and `events` record the callbacks of the last call: the needle's position is known to the listener only.

In service mode 2 the manual has the needle lowered and the code leaves it up. `Turntable` and the invariant `Posture`
take no side; what the manual says is `LoweredInServiceMode2`, which the run `ctrl_manual` refutes.

**SchedulerSoft.** `m_scheduled` is the linked list as a sequence of slots, a slot is free when its handler is
null. `handle` is split into `Handle`, `RunHead`, `HandlerReturns` and `HandleReturns` because the handler it
calls may call `Shedule` and `Unshedule`. Times count modulo `TimeMod`; the true clock is the model's only.

**GBlinker.** `m_on`, `m_index` and the player's position are the members; durations are left out, a part is
shown each time the armed task runs. `P_blinker_start` and `P_blinker_stop` obey the action flags as `G602` does;
the firmware never calls `P_blinker_stop`.

**G602.** `pc` follows `loop()`; times are relative to `m_time_now`, so the clock itself is not in the state. A
notification is one whole call with everything it causes: the call to `Ctrl`, the re-arming done by
`P_ctrl_event`, the pattern started, `m_time_next` refreshed or not. The constructor is five steps, because the
debounced inputs report their first levels one by one. Relative times leave out the wrap of the millisecond counter:
there `m_time_now >= m_time_next` (`G602.ino:92`) compares wrapped times, and a nearest time that happens to be 0 is
taken for none (`G602.ino:211`). The scheduler's own wrap is in the run `scheduler_wrap`.

**GDInputDebounced.** The age of a level is an unsigned difference read as a signed one and negated when negative;
the operators `Minus`, `Signed` and `Dt` are that arithmetic. `held` is the true age. A difference of exactly half
a turn of the clock (24 days) cannot be negated; `InputAssumption` keeps iterations shorter than that, and then
it is never reached between two samples of a level that has not been told.

**AverageTinyMemory.** Products and sums wrap as `int` does, the weight as a byte does. The header allows factors to
63 (`AverageTinyMemory.hpp:17`), the constructor stops the firmware above 32: `AverageAssumption` is the latter.

**Pulses.** `at` and `turn` follow `setup()`, `loop()` and `P_pulses_all_get` store by store. The time has two digits
instead of four bytes: an interrupt between the two stores sees a torn one. `pending` is the interrupt flag of the
processor, latched and served when interrupts are on. `edges`, `gap` and `torn` are the truth to compare with.

**Windows.** All containers take the same values; `recent` is the list of them. `FastSumCorrection` works on floating
point, so that each operation may err by `RoundMax`. `SlidingWindow::operator[]` computes its index modulo 2^16:
it is right as long as no difference is negative, or if the length divides 2^16; `ReadInOrder` claims no more.

**Regulation.** Values are raw 16.16 numbers at a smaller width. Overflow wraps, as it does on the processor (in C++
it is undefined). A frame arrives whole or malformed and is one action, except that a store goes on byte by
byte and the power may fail after each; `PowerCut` begins a new life with what the EEPROM holds.

**GCommBase.** Characters are codes; the check sum is the real one (polynomial 0xA001), its register the set of
the bits that are 1. `of` tags a character with the number of its frame and `at` with its place in it (0 for a stray
terminator), for the properties and proofs only.

**DeviceLink.** Frames are records on two queues. `Request` is `requestSend` and `P_rpc_request_common` for one
or several functions; a slot with all the calls it makes is one action. With the port closed a request is
recorded and sent nowhere. `missed` is the model's: a change of mode was lost since `m_mode` was last set.

**MainWindow.** The box is a record; slider and spin box call each other as the slots do, which is one recursive
function of the call (`Handled`), and the values they tell are collected in order. Values count in half steps of the slider, so that 33⅓ rpm lies between the grids of
both. The simulated engine is any answer of a small set. With the port closed the device is asked for nothing, and a
value told then is told to nobody (`told_in`).

**PIDGains.** A box holds whole units of its last decimal, the regulators raw fixed-point numbers. A gain that is read is
limited and rounded to its box (`Shown`), and what the box holds is cut back to the fraction (`FromDouble`), for the
simulation when a box changes and for a write. Requests and replies stand in two queues; any of them may be lost, a
write be refused, the device start anew. `apart` is the model's: something has come between the two ends since they
last agreed.

Definitions called "Mutant", with a suffix such as `_KeepsTime` or `_Kept`, are plausible
mistakes kept beside the definition they alter; no specification uses them. `PROJECT.json` says which property
each of them breaks.

## 3. Runs

| Run | Question | Bounds |
|---|---|---|
| `ctrl` | do motor, needle, warnings, set point and autostop agree with the mode (`Safe`), does only a START at rest switch the motor on, is every change announced, after any sequence of calls? | 3 corrections, 3 free set points (one below zero, which the link admits), 3 measured speeds, on both sides of the set points and equal to them; the automaton compares speeds only, so more values repeat these cases |
| `scheduler` | is the list always the pool, in order (`PoolAccounted`), and a queue of tasks; does `handle` return? | 2 identifications on 3 slots: the pool fills, one identification waits twice, handlers reuse freed slots; 3 units of clock, delays to 2 |
| `blinker` | is the task armed once for the right pattern (`PlaysOnce`), a pattern begun shown to its end, every request shown? | all eight patterns with their real lengths and priorities, endless ones included, four of them called off, which the firmware does not use; requests unbounded |
| `g602` | is any task lost, doubled or slept over (`TasksKept`); does the wait for the service menu end; does the motor follow? | period 2, wait 3, iterations up to 3 units: longer than a period and as long as the wait; potentiometer and measured speed fixed (the automaton's own run varies them), one accepted and one refused set point; a negative one is left to the automaton's own run and to `CtrlImplemented`, which covers every value |
| `sketch` | are levels told only if stable, and all of them (`InputInv`, `ToldOnlyIfStable`, `HeldIsTold`); is the mean between the samples and right in the end (`MeanFollows`)? | a clock of 8 with a debounce time of 1 and iterations to 2, so that it wraps during a wait; windows to 3, a weight that wraps at 5, products beyond the 4 bits of `int` |
| | is every edge counted and taken once (`CountersKept`), judged by the time since the last (`EdgesJudged`), handled at all (`EdgesHandled`)? | one counter, a clock of 9 in two digits, a debounce time of 3, iterations of 1, counts modulo 2 |
| | are the sums and the iterators those of the last values (`SumsOfTheWindow`, `ReadInOrder`)? | windows of 3 with values 0, 1, 3, sums modulo 4 |
| `regulation` | is the control the PID of the true errors, do gains come whole and come back from the EEPROM, is what is told what is used (`RegulatorTold`)? | 8-bit numbers with 2 bits of fraction, at most 2 periods between restarts; gains that overflow and gains that look like an erased memory; a set point so negative that the error wraps; seven malformed or odd frames |
| `gcommbase` | what may a faulty line do? | four frames, one too long for a buffer of 4 bytes, up to 3 faults; ":" and LF occur as data |
| `device_link` | are answers, events and time-outs kept apart over two sessions (`AnsweredRightly`), are identifications unused when they are given (`IdentificationsFresh`), and does an open session get ready? | one frame lost or one reply late, one change of mode, one press of a button (a write, refused in one of the two modes, or a clearing of the statuses); 12 identifications, so that the last one wraps |
| `mainwindow` | do the four plots hold the same samples, is the amplitude theirs, is the set point told the one shown? | 3 steps of the spin box for an rpm, 4 of the slider for one of those, up to 6 of the spin box; windows of 3 samples, two steps of the simulation. In 3 samples a local extreme is a global one; the ends of longer rows are for `AmplitudeShownHolds`, which covers every length |
| | do the simulated regulator and the device have the same gains, as far as their numbers allow, from a write that arrives or a read that is shown until something comes between (`GainsInStep`)? | two gains, 10 units of a box in 1 and 4 of the fraction; gains between two units of a box, gains that fall short, one beyond the limit; 2 requests and replies under way, so that a write overtakes the answer to a read |

Three runs show a disagreement, each quoted in `findings`:

| Run | Shows |
|---|---|
| `ctrl_manual` | in service mode 2 the table turns and the needle stays up; the manual has it lowered (`rev1/docs/manual.md:87`) |
| `scheduler_wrap` | when the clock wraps (49 days), a task is handled before its time |
| `regulation_event` | the control value cannot be read from the SP/PV event: its low half is sent twice |

`sketch` and `mainwindow` check systems that share nothing side by side, a row of the table each: a variable `part` is
chosen in the first state and only that part moves, so the states add up and do not multiply. `mainwindow` and `regulation` carry constraints,
named and explained in their MC modules: plots are not combined with moved set points (`MCApart`, except by the
simulation's own), and a store not with measuring (`MCApart`, `MCCuts`), since neither touches the other's variables.

Deadlock is checked except in `gcommbase` and `device_link`, whose workload (frames, presses of buttons,
faults) is finite: when it is used up and everything has been read, nothing is left to do.

**Some properties that took several attempts.**
`SetpointCoherent` (in `Safe`) says the cached set point is the one the settings call for; service mode 2 keeps the base
speed it was started with, which the property says. `TimeNextNotLate` (in `TasksKept`) holds although `P_event_stop` arms
a task without refreshing `m_time_next`, because the regulating task is always nearer than the wait (assumption
`ServiceAwait >= CtrlPeriod`, 5000 and 2250 ms in the code). `FaultCostsTwoFrames` (in `FramesSurvive`): a colon that
arrives where a digit was expected is consumed as a bad digit, so a lost terminator costs the next frame as well.
`ImplementsFrameChannel` allows one changed character in a frame: two changed digits can agree with a 16-bit sum,
and TLC finds such a pair when they are allowed. `ModeAgrees` excludes a lost event, which the tool cannot notice.
`EdgesJudged` allows for two iterations: `g_time` is one old when the clock is read and another until that answer is
stored. `ControlIsPID` is stated modulo the width and up to three units a period, which is what the products of
the recurrence drop: sums and products may wrap, and are right again once they come back. An error may not, because it
is multiplied afterwards; hence the premise `ErrorsFit`. Speeds that can be measured and set points of the manual
satisfy it; a set point far below zero, which the firmware accepts, does not, and the run has one. `SetpointTold` allows the simulation two whole numbers: see section 5.
`GainsInStep` allows one unit toward zero: a gain of 1/4 read into a
box of one decimal may be shown as 0.2, which is 0 when it is cut to quarters.

**Fairness.** `g602`: `loop()` is called for ever by the Arduino core and does not block, so every step of an
iteration is weakly fair; the clock moves between some iterations but not between any two, hence strong fairness of
a `timeSet` that moves it. Nothing is assumed of people, sensors or the link; `MotorFollows` therefore has the
premise that motor events do not restart the period for ever. `sketch`: the same loop, an iteration in which the clock
moves; `setup()` and `loop()` go on around the interrupts (weak), and an edge that is latched is served by the hardware once
interrupts are on, which they are again and again (strong). `scheduler`: handlers return. `blinker`: an armed task
runs, which is what `SchedulerSoft` and `G602` show. `device_link`: both programs read what has arrived,
and while timers run one of them fires; frames lost or late are finite in number.

## 4. Proofs

All proofs hold for every value of the constants that satisfies the modules' named assumptions.

| Module | Theorems | Strengthening |
|---|---|---|
| `CtrlProofs` | `TypeCorrect`, `SafeHolds`, `MotorOnTheorem`, `ChangesAnnounced`, `Refinement` (`Ctrl` implements `Turntable`) | `Safety`: an automaton under construction drives nothing; service mode 1 carries no warning, because STOP in that mode does not clean warnings and would leave one in its stopped mode; `LiftLeftUp`: in service mode 2 the needle stays where the standby left it, up, which `Safe` does not promise |
| `ListProofs` | none listed: its lemmas say what `Picked` keeps and in which order, that no other list keeps the same, what an insertion moves, and what becomes of a `Total` when a value is appended or the first one leaves | |
| `SchedulerSoftProofs` | `PoolAlwaysAccounted`, `QueueImplemented` (`SchedulerSoft` implements `TaskQueue`) | `SchedInv`: the list names each slot in use once, in order of time from the handled time on |
| `G602Proofs` | `CtrlImplemented`: seen from the automaton, the firmware's behaviours are the automaton's; `FirmwareSafe`: so its invariant holds in the whole firmware; `TasksKeptHolds` | none for the first two: each step calls the automaton once, with values it admits, or not at all. `TaskInv` for the third: who waits for what at each point of `loop()`; it uses what `FirmwareSafe` says of the automaton |
| `GBlinkerProofs` | `PlaysOnceHolds`, `ShownToTheEndHolds`, `BlinkerTaskImplemented` | none: the three parts of `PlaysOnce` need each other, and only an intermission leaves the player empty |
| `PulsesProofs` | `CountersKeptHolds`, `EdgesJudgedHolds`; of the windows `SumsHold`, `ReadInOrderHolds` | `TakesKept`: while counters are taken interrupts are off and the copy equals the counter. `JudgeInv`: the time stored is at most two iterations old and never goes back; the age of `change_time` is the gap up to those. `WindowsInv`: which slot holds which of the last values, and the slots' total |
| `RegulationProofs` | of the inputs `LevelsAreToldInTime`, `ToldLevelsAreStable`, `MeanFollowsHolds`; of the regulator `RegulatorToldHolds`, `ControlHolds`, `StoreFoundAgain`, `GainsWhole` | `InputInv` is inductive: the wrapped difference is the age while the age is below a turn of the clock. `WeightTold`: the weight is the number of last samples that agree, until there is a whole window of them. `PidInv`: the regulator holds the last two errors, and its control value has followed the PID of the book by the same differences, but for what the products dropped. `StoreFollows`: the bytes already written are those of the gains being stored, and a finished store is what is kept |
| `PCToolProofs` | of the frame reader `ReaderInBounds`, `FramesSurviveHolds`, `OneWrongByteRefused`; of the session `RequestsAwaitedHolds`, `ModeAgreesHolds`, `OneRightAnswer`; of the window `PlotsInStepHolds`, `AmplitudeShownHolds`, `SetpointToldHolds`; of the gains `GainsInStepHolds` | `ReaderInv`: room is tested in the state that reads the high digit only, so the invariant carries "strictly less" over to the low digit. `FrameInv`: frames stand on the wire in order and end where they were written to end; of a frame no fault has touched the characters are the written ones, and if the frame before it was not touched either, the buffer holds exactly what has left the wire. `LastNews`: the last event under way tells the device's mode, and so does every reply sent after it. `AnswerInv`: a request under way with an awaited identification is for the function awaited, and what is awaited has no outcome yet. `BoxInv`: the value behind the slider is its step or the one that falls short on it, which a value set silently needs. `PlotsInv`: the figures drawn are of the plots drawn. `InStepInv`: the simulation has what the boxes hold converted, the last write under way carries it too, and a reply not yet outdated tells the device's gains |

The step lemmas are split by action, in `CtrlProofs` by state and in the started states by command; facts about
what a helper does (`IgnoreEffect`, `ShutDownEffect`, differences modulo the clock) are stated once. `FirmwareSafe`
uses the theorem of `CtrlProofs` through a second instance of it, with `G602`'s variables.

`OneRightAnswer` has a premise, `IdentificationsFresh`: no identification is given again while it is in use. The code
counts them modulo 2^16 and does not look, so nothing but the number of requests makes it true; the run
`device_link` shows it, one identification coming round included.

Recursive functions (`Picked`, `Total`, the iterators of the windows, the register of `P_crc`, `Handled` of the set point box) are proved to exist
before anything is said of them. All but the last go place by place through a list, and what holds of all places is
shown with the least element of a set of naturals (`Least`, `Induction` in `ListProofs`). `Handled`, the
signals by which slider and spin box set each other, has a closed form (`SliderDoes`, `SpinBoxDoes`): it
solves the equation, and nothing else does, since no call goes more than four slots deep.

Only model-checked:
- everything about liveness (`HandleTerminates`, `EveryRequestShown`, `AwaitingEnds`, `MotorFollows`, `HeldIsTold`,
  `EdgesHandled`, `SessionReady`): temporal proofs with fairness and ENABLED are out of the prover's reach;
- `ImplementsFrameChannel`: it does not hold for every choice of the constants. A sum of 16 bits cannot tell all frames
  apart, and a frame that lost characters may be another good one; the run shows that none of its four does.
  What the sum does promise of every frame is `OneWrongByteRefused`: one wrong byte, in the payload or the sum
  itself, is never accepted. Each of the eight shifts takes different registers to different ones (the bit shifted
  out comes back as the highest), so two frames that differ in one byte never end with the same register;
- `IdentificationsFresh`, the premise of `OneRightAnswer`: see above.

`FramesSurviveHolds` needs of the sum only that it is two bytes and the same for the same payload. It rests on
`Framed` being proved to be what the reader reads back: `HasRead` says for each place in a frame what state and
buffer the reader has there, and one lemma for each kind of step (`WriteFits`, `ReadFits`, `DropFits`,
`ChangeFits`, `StrayFits`) says that it goes on to be so.

`ControlHolds` unrolls the recurrence: `Ideal` changes from period to period by what the regulator adds
(`K[3]` times the second difference, and so on), the three products drop less than one unit each, and a
difference that is a multiple of the width does no harm.

## 5. Known disagreements and remarks

Beside the three findings, reading the code for the models showed the following. None is checked by a run.

The manual (`rev1/docs/manual.md`) and the firmware:
- `:34` and `:53` describe normal modes in which the table turns; an autostop allowed after its sensor tripped (`Ctrl.ino:262`,
  `:374`) stops the motor and parks the table inside the mode.
- `:14` has the motor off when stopped; `P_motor_update` (`G602.ino:408`) restarts the period, so the motor keeps its level
  for up to 2250 ms after STOP.
- `:126` shows pattern 6 for the service menu; `G602.ino:273` starts it whether or not the menu was entered.
- `:371` promises the SP/PV event at regular intervals; each motor event restarts the interval.
- `:291` and `:397` refuse a set point outside its range; negative ones are accepted (`G602.ino:827`).
- `:148` has CR and LF outside a frame ignored; so is every other character.

The firmware:
- The control value is not clamped where the regulator keeps it: a platter held still makes it grow until it wraps to
  negative, after some 77 minutes with the default gains. A new set point does not reset the regulator, a motor
  switched does.
- A store cut by a reset is not detected. Gains of -1/65536 three times are stored as an erased memory.
- A pulse interrupt between two byte stores of `g_time` reads a torn time, and may take a bounce for a pulse.
- `PidDiscrete` calls `FastSum::value()`, which does not exist; nothing instantiates it.

The PC tool:
- `Device.hpp:29` says an awaited request is one somebody waits for; after a disconnection (`Device.cpp:149`) the
  statuses still say so and nobody does. The port is closed before the stop is sent, so the device streams on.
- The coefficients it reads are never marked as known (`m_koef.valid`). A gain read may be a unit of the fraction larger
  than what the boxes then give to the regulator or write back, again at every turn: 8 decimals are rounded to and cut.
  The answer to a read sets the boxes back even if a write has been sent meanwhile.
- The button of 33⅓ rpm tells 33.33299, 33.333 and 33.33299 in turn. Of the 51001 values with three decimals, 25365 fall a
  step of the slider short; moving the slider to 33 gives the simulation 32 rpm, typing 33 gives it 33.
- A change of source tells the new source nothing: the set point of the simulation may be an old one, also the automatic
  50 rpm when the box shows 50 already; connecting with the box at 0 asks the device for nothing.
- Device samples land in the plots of a simulation. Labels keep old values after connecting until the next sample.
- A plot of equal values shows its value as its amplitude; a plateau counts as monotonically growing.
- Changing the source with empty plots scales over an empty range (`mainwindow.cpp:883`, undefined), and does not reset the
  simulated engine or regulator.

## 6. Not modelled

- qcustomplot, vendored: 36 887 of the repository's 48 506 lines of implementation. The models cover about 4 600 lines,
  which is two fifths of the program's own 11 600 and a tenth of everything; with the plotting library counted, a
  third of the total is more than the whole program.
- The layout of the windows (`mainwindow_ui.h`), settings of the port, console, tables, colours and scales: they change
  nothing the rest of the program reads. `cgraph` is compiled only with `APP_USE_CGRAPH`, which no build defines.
- `pid/pidadjust*`: two adjustment classes the program does not create. One reads `next_state` uninitialised
  (`pidadjustp.cpp:19`).
- The simulated engine `ctestmotor`: a curve in floating point, taken as any answer.
- Which gain the buttons of the search for gains go to, and the three values it offers: each button sets one box, which is
  all that `PIDGains` takes of it.
- What `pid/fan` computes beside the extremes: nobody asks for it.
- Debug output of the firmware; which pin is which; the fatal handler, which stops the firmware for good.
- Host tests and fake headers: written against an older interface, read as documentation.
- A restart of the device within a session: the firmware's state is lost and nothing in the code tells the tool.
  (`Regulation` restarts the firmware alone, `PIDGains` the device behind the tool's back, gains only.)

## 7. What could come next

1. A premise on the frames under which `ImplementsFrameChannel` holds (no frame with a part missing is a good one), and
   the theorem with it, from `OneWrongByteRefused`.
2. `Regulation` and `G602` in one module, once the values are small enough to be checked together.
3. The stop of the stream that is never sent when the port closes, and the automatic start that undoes a stop by hand
   (`hazards`), if the repository ever says what it wants of them.
