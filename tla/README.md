# Power window controller: specifications

TLA+ specifications of the power window controller (`src/AUTOSAR/pwc`) and of
the AUTOSAR kernel it runs on (`src/AUTOSAR/core`, ArcCore's Arctic Core), with
TLC configurations and TLAPS proofs. Line numbers refer to the repository's
files; `os_*.c` are in `src/AUTOSAR/core/system/Os/`, `Rte*.c` and `Os_Cfg.c`
in `src/AUTOSAR/pwc/config/stm32_stm3210c/`, the runnables in
`src/AUTOSAR/pwc/src/`.

## 1. The system

A driver's joystick, a passenger switch that is not connected, an end stop and
an obstacle detector go in; two motor channels and four LEDs come out.

    tick (1 ms) -> OsTick -> counter OsCounter -> alarms
        CriticalAlarm, every 50 ticks:  event for CriticalTask (priority 5)
            ObstacleDtc -> EndStopDtc -> WinController
        StepAlarm, every 100 ticks:     event for StepTask (priority 3)
            Switch -> WinArbitrator -> MotorDriver
    after start-up: OsTask_Main (priority 1), OsIdle (priority 0)

The runnables talk through one-element RTE buffers (`Rte_Internal.c`): the
request travels Switch -> WinArbitrator -> WinController, the command
WinController -> MotorDriver, each at the rate of its writer. The RTE tasks
call the kernel's `WaitEvent`, `GetEvent` and `ClearEvent`; the alarms call
`SetEvent`. The outputs go through `IoHwAb_Digital.c` to `Dio`.

### Inventory

For each part: its state, its operations, what is hard about it, and what makes
it correct.

**Window controller chart** (`WinController.c`; code generated from Stateflow).
State: the chart's record `DW` (active state, substates, step counter) and the
LEDs it writes. One operation, a step with sampled request, end stop and
obstacle. Hard: six states with nested substates, four conditions that compete
in one step, a saturating counter, and an output variable nothing initialises.
Correct: the objectives of `Simulink/Controller/Verification/verification.mdl`
(motor safety, user safety, robustness, predictability, liveness).

**Application tasks and runnables** (`Rte.c`, `Switch.c`, `WinArbitrator.c`,
`MotorDriver.c`, `ObstacleDtc.c`, `EndStopDtc.c`, `Tasks.c`). State: RTE
buffers, each task's place in its round, its event. Hard: preemption between
any two calls, two rates, two non-atomic writes for one motor command, output
channels shared between three writers. Correct: commands arrive, a pressed end
stop stops the motor. That no command is torn is not a property here: while
rounds end before the next tick nothing comes between the two writes, and in a
longer round `CriticalTask` overwrites both channels anyway (`motor_pins`).

**Kernel: tasks and dispatcher** (`os_task.c`, `os_init.c`). State: task states,
ready list, priorities, activation counts, the running task. Operations:
`ActivateTask`, `TerminateTask`, `ChainTask`, `Schedule`, end of a task, start
of the system. Hard: services that dispatch in the middle, several activations,
contexts saved inside a service. Correct: the highest priority runs, lists and
states agree, activations are performed, a task restarts only when it ended.

**Kernel: events** (`os_event.c`). Set and awaited events of each extended task.
Hard: the race between testing an event, setting it and waiting. Correct: no
lost wake-up.

**Kernel: resources** (`os_resource.c`). Owner, ceiling and saved priority.
Hard: nesting across preemption and interrupts, internal resources. Correct:
mutual exclusion by ceilings, priorities restored.

**Kernel: interrupts** (`os_isr.c`, Cortex-M3). Nesting count; on leaving the
outermost one `TailChaining` swaps a task in anew.

**Kernel: counters and alarms** (`os_counter.c`, `os_alarm.c`). Counter value,
system tick, alarms. Hard: overrun at a maximum that is no power of two, actions
that dispatch in the middle of the alarm walk. Correct: every alarm on time,
exactly once.

**Kernel: schedule tables** (`os_sched_table.c`). Per table: state, index of the
next expiry point, expiry value, successor. Operations: start relative and
absolute, stop, chain, and the walk of an increment. Hard: take-over by a
successor, stop and restart, first offset zero, services that test before they
disable interrupts, points that dispatch tasks in the middle of the walk.
Correct: points on time, none passed over, successors exact. pwc configures
none.

**I/O expander** (`stm3210c_eval_ioe.c`). A global time-out count, and the chip's
registers behind I2C. Operations: configure, read the joystick. Hard: a time-out
is returned as register data; two tasks share the bus and the count. Correct: a
chip that has gone silent does not keep the motor running.

**ECU state manager** (`EcuM*.c`, fixed variant). State: the phase, words of run
and post-run requests, wake-up events with their validation, time-outs, the
shutdown target. Operations: start-up, the cyclic main function, requests and
releases, kill, wake-up events from interrupts. Hard: words changed without
protection, start-up beside the main function, requests between its test and its
write of the state, events at any moment of sleep and wake-up. Correct: no way
out of RUN is begun while it is held, a kill leads down, wake-ups lead back. pwc calls its initialisation only.

**Not modelled yet, planned:** `IoHwAb_Digital.c` (channels with a diagnostic
override), `Rte_Fifo.c` and the circular buffer, `ErrorHook` of `Tasks.c`, `Com`
and `PduR` (linked with empty configurations).

**Not modelled:** hardware drivers (`Mcu`, `Port`, `Dio`, interrupt controller:
registers), modules of the platform pwc does not link (CAN, LIN, Ethernet,
FlexRay, network management, diagnostics, NVRAM, watchdog, E2E, XCP), other
processors and boards, code generators and build tools, and the Simulink, FTA
and EAST-ADL artefacts, which are models themselves.

## 2. Modules

| module | models | extends |
|---|---|---|
| `WindowMotion` | abstract: what the motor is told, and for how long | - |
| `WinController` | the chart and its runnable, one action per kind of step | - |
| `WinObjectives` | the Simulink objectives, with an observer | `WinController` |
| `WinController_proofs` | theorems about the chart | `WinController` |
| `WinObjectives_proofs` | theorems about the objectives | `WinObjectives`, `WinController_proofs` |
| `PwcSystem` | tasks, runnables, RTE buffers, output channels | `WinController` |
| `PwcObjectives` | end-to-end objectives, with an observer | `PwcSystem` |
| `PwcObjectives_proofs` | theorems about the composed system | `PwcObjectives` |
| `OsKernel` | tasks, dispatcher, events, resources, interrupts | - |
| `OsObjectives` | what the kernel promises, with an observer | `OsKernel` |
| `OsObjectives_proofs` | theorems about the kernel | `OsObjectives` |
| `OsCeiling_proofs` | theorems about its ceilings and asserts | `OsObjectives_proofs` |
| `OsCounter` | one counter and its alarms | - |
| `AlarmObjectives` | what alarms promise, with an observer | `OsCounter` |
| `OsCounter_proofs` | theorems about counters and alarms | `AlarmObjectives` |
| `OsSchedTable` | the schedule tables of one counter | - |
| `TableObjectives` | what schedule tables promise, with an observer | `OsSchedTable` |
| `TableObjectives_proofs` | theorems about schedule tables | `TableObjectives` |
| `EcuState` | the ECU state manager | - |
| `EcuObjectives` | what it promises, with an observer | `EcuState` |
| `EcuObjectives_proofs` | theorems about the state manager | `EcuObjectives` |
| `MC...` | constants of the runs | |

Observers only remember: their variables never occur in a guard of the model.
Definitions named `...Faulty` are the code with one plausible slip; no
specification uses them, and each shows that some property notices the slip.

**`WinController`.** `localDW` is the chart's `DW` record, `command` the value the
runnable hands to the RTE, `dio` the LED channels. An action is one path
through the generated `if` cascade; a test that comes earlier in the code is a
negated guard. The counter is advanced first (`Ticked`), as in the code. The
chart writes the command only on entering a state; in every other step the
runnable passes on an uninitialised local (`WinController.c:35`). `LeftOver`
models it: with `SlotKept` the stack slot still holds the last command, without
it any byte. Requests, end stop and obstacle are arbitrary in every step.

**`PwcSystem`.** A step is the part of a task no other task can see half done:
one runnable, except that `MotorDriver` reads its command and writes two
channels (three steps) and that `OsTask_Main` configures and writes twice.
Priorities are the guards `StepRuns` and `MainRuns`. `Tick` is the tick at which
`CriticalAlarm` expires, at every second one `StepAlarm` too. `Os_Cfg.c:81`
starts them after 50 and 100 ticks with these cycles, and the theorems
`NoneEarly` and `NoDrift` say that the kernel then keeps them 50 and 100 ticks
apart across every overrun of the counter, so that they stay together. `Overrun` names the tasks that may be
late when it comes. The chart's LED 1 and 2 are the channels of motor 1 and 2
(`IoHwAb_Digital.c:60,75`), so both write `dio`.

The joystick is read over I2C. A read finds any set of buttons down (`low`), or
times out, and then returns `IOE_TIMEOUT`, a byte with every button's bit low
(`TimeoutPins`); `JoyStickGetState` tests the buttons in the code's order, so
that a time-out comes out as the centre button and thus as neutral. `timedOut`
is the global `IOE_TimeOut` as far as it outlives the call: only the observer
reads it. `OsTask_Main`'s configuration succeeds or fails by what the chip
identifies itself as, not by its time-outs, as in `IOE_Config`.

**`OsKernel`.** `os` is the scheduler's state; every function on it is a function
of the code on task blocks and lists. Services run with interrupts disabled and
are one step, but `SetEvent` validates before it disables them and is two. A
service that dispatches leaves the caller's `context` inside the service; when
the caller is swapped in again, it goes on there, or, inside `TerminateTask` and
`ChainTask`, meets `assert(0)` at once (`ResumesDead`), which sets `halted`. What applications call is
`Calls` and `IsrCalls`. Standard resources are released in the order the
services demand. One core, extended status, the Cortex-M3 port.

**`OsCounter`.** `frames` are the walks through the alarm list under way,
innermost first, each with the alarms it has not yet looked at; `acting` says
that the innermost one has dispatched a task that now runs application code.
Walks nest like tasks. `tick` is `OS_SYS_PTR->tick`, what a hardware counter
answers.

**`OsSchedTable`.** `table` holds what the code changes of each table. `walk` is
what is left of `Os_SchTblCheck`'s loop in the increment under way, `acting` says
that the actions of the first of its tables have dispatched a task, which may
call services before `GoOn` continues with `Os_SchTblUpdateState`. A service is
one step (`Serve`) or, if it may be preempted between its tests and its critical
section, two: `Tested` puts it into `pending`, `Resume` has its effect. `halted`
is a failed assertion or the null pointer of `os_sched_table.c:448`.
`ScheduleTableConsistencyCheck` is the code's check; as it passes tables whose
points are out of order, what it means to check is `Ordered` beside it.

**`EcuState`.** `world` is `EcuM_World` with the time-outs. `MainFunction` is one
call, except where interrupts and other tasks matter between its parts: in RUN
and POST_RUN it tests the requests, makes callouts and only then writes the next
state, and sleep and wake-up take several steps. `at` is the place, `wMask` and
`pendingWkupMask` what it has read of the events. `starting` is the place of `EcuM_StartupTwo`,
whose last part the main function may overtake. `update` is a change of a
request word between its load and its store, for the words in `Preempted`.
The mode the states are mapped to for the RTE (`currentMode`) follows the state
and is left out. Event words are taken as changed atomically: they are changed
by interrupts, and what is left is listed with the disagreements.

## 3. What the runs show

Runs that must pass:

| run | shows | bounds |
|---|---|---|
| `chart` | substates never stale, entries write commands, refinement of `WindowMotion` with fairness | 200 and 255, the code's own; any slot value |
| `objectives` | the Simulink objectives that hold, three of them weakened to what the chart keeps; a driver who lets go sees the motor rest, unless retracting | 3 steps, saturation 4; slot kept |
| `system` | commands reach the motor, a pressed end stop halts it, a silent I/O expander stops it, a driver who lets go sees the motor driver stop | 3, 4; no overrun |
| `kernel` | highest priority runs, no lost wake-up, no lost activation, ready list exact, ceilings exclude, priorities restored, no assertion fails, restarts only at the end | extended task, below it a basic one (two activations) and a non-preemptive one of equal priority, one event, one resource, scheduler resource, interrupts nest twice |
| `alarms` | none missed, early, adrift or lost until a task comes between an action and the walk; cancelled alarms stay off, elapsed values exact | two alarms, counter 0..3, two walks deep |
| `tables` | points on time across overruns, rounds and hand-overs, none passed over, successors exact until a chain is disturbed | three tables, one repeating, one with a first point at zero, counter 0..4; two calls preempted |
| `lifecycle` | RUN lasts its minimum; neither leaving it nor the shutdown behind it is begun against a request granted before the test; a kill leads down, wake-ups lead back to RUN | two users of RUN, one of POST_RUN; a wake-up source with validation, one without; time-outs of 2 and 1 periods |

Bounds. The chart's data are finite, so `chart` is exhaustive at the code's
constants. The other runs of the chart shorten the timer: every comparison of
the code is with that one limit, and 3 or 4 steps leave room for a step before,
at and after it. The kernel has no counters beyond activations; four tasks give
a preempted, a preempting, a waiting and an idle one. A counter of 0..3 has
alarms before, at and after the overrun. `PwcObjectives` caps its counters at 4,
no less than its properties ask for; `WinObjectives` at twice the timer plus
four. In `kernel` no second task is started with the system; what happens
otherwise is below. Two of its tasks have the same priority, so that their
places in the ready list decide who runs. Three tables are the fewest in which a
successor has a successor; a counter of 0..4 with rounds of 4, 2 and 3 ticks has
rounds that end before, at and after the overrun. Two users are the fewest that
can tear a request word; a time-out of two periods has a call before its last.
Deadlock is not checked in `tables`, where a failed assertion or null pointer
stops the model as it stops the code, and in `lifecycle`, where the ECU may be
off.

Fairness. The tick is a hardware timer (`WF` of `Tick`). `CriticalTask` has the
highest priority, so once it can run it does until its round is over (`WF`).
`StepTask` and `OsTask_Main` are disabled whenever something above them runs and
need strong fairness: `CriticalTask`'s round ends well within its 50 ticks, so
lower tasks run in every period. The chart's own fairness is that its runnable
is called (`MCFairSpec`). No fairness is assumed of the driver or the sensors.
`EcuM_MainFunction` is called in every period of `SchM_BswService` and, once
called, ends (`WF` of `ObserveMain`); `SchM_Startup` runs once through
`EcuM_StartupTwo` (`SchM.c`, `WF` of `ObserveStartup`). No fairness is assumed of
who requests RUN, of the interrupts, or of the processor waking up.

Runs that find a disagreement between the code and what the repository says of
it (a `finding` in `PROJECT.json` each, with the quotation):

| run | what happens |
|---|---|
| `motor_safety_slot` | an overwritten stack slot becomes the motor command |
| `motor_pins` | the chart's LEDs switch a motor channel on |
| `kernel_activation` | an activation accepted for an autostarted task is lost |
| `kernel_race` | the target of `SetEvent` ends between check and use |
| `alarm_missed` | an alarm is passed over when the counter moves during the walk |

Each of these checks a property that a passing run checks under a condition:
the slot kept (`MotorSafety`), one autostarted task (`ActivationsPerformed`),
targets of `SetEvent` that never end (`AssertionsHold`), undisturbed walks
(`CalmMissesNone`). The kernel's and the alarms' findings need configurations
pwc does not have: nobody there activates a task, no task calls `SetEvent` (its
alarms set events, in the interrupt), and only `OsTick` increments a counter.
`RunKept` and `KillShutsDown` name their conditions themselves: `torn`, a change
of the requests that overwrote another; `early`, where the main function has
overtaken start-up and leaves a RUN whose minimum is not set yet; and `late`,
the users whose request was granted between the main function's test and its
write of the next state. Such a request is no longer late at the next call, so
one that RUN was left against leads back from POST_RUN.

Disagreements read in the code that no run is about: an obstacle sampled in the
step in which the movement's time is up does not retract
(`WinController.c:367`); retracting ends only at the end stop (`:460`);
pressing express up again does not override an obstacle (`:434`); these three
are the conditions in `UserSafety`, `Robustness` and `ExpressUp`. A task with an
activation left is resumed inside `TerminateTask` when another of its priority
was ahead of it (`os_task.c:437`); activating a waiting, autostarted task
restarts the caller (`os_task.c:763`); a task preempted by the one it activates
stays in state RUNNING (`os_task.c:401`); an internal resource is taken twice
after an interrupt (`os_isr.c:261`). A cyclic alarm whose task moves the counter
is logged on late, and a one-shot alarm set again by its own task is switched
off (`os_alarm.c:346`); `GetAlarm` answers 0 for the whole overrun of an alarm
set for the present value (`os_alarm.c:113`); the hardware counter is read past
its maximum (`os_counter.c:120`).

Schedule tables (`os_sched_table.c`). The consistency check subtracts from each
offset the difference before it, not the offset before it, so it accepts equal
offsets and refuses some good tables. A successor is never forgotten: a table
that takes over from one it once announced meets the assertion at `:131`, and
stopping the announcing table leaves its successor in NEXT for ever.
`NextScheduleTable` follows the successor of a table that may have stopped since
the test (`:448`). A repeating table whose first offset is zero, which "may be
zero (OS443)", misses that point until the counter comes round. Stop and start
resume in the middle of the table; an absolute start does not wrap its sum, so
the value may be out of the counter's range; whether a successor's point at zero
is performed depends on the order of the list; the range check of identifiers is
off by one (`:67`).

State manager. Wake-up: an event that arrives after the first reading of the
pending events is not validated, its source is stopped, and the ECU may sleep
again with it pending; preparing shutdown clears pending events, so one set
after that and before `Mcu_SetMode` (`EcuM_Main.c:398`) is slept through; from
wake-up the ECU goes back to sleep with requests for RUN standing, although
"Not enter sleep if we have a run request" (`:484`), and whatever the shutdown
target is; a request granted between POST_RUN's tests and the write of
PREP_SHUTDOWN (`:486-496`) stands while the ECU shuts down, against the same
requirement; sources validated but no longer pending are stopped by the exclusive
or; every new event restarts the one validation timer (`EcuM.c:470`). The comment
"Flow Through, Scheduler is Locked" (`EcuM_Main.c:621`) is not true on the path
that cancels writing to NVRAM. Start-up writes RUN before its time-out
(`:156`, `:198`), against the comment between them. The request words
(`EcuM_Fixed.c:140-155`) and the event words are read, changed and written
without protection. In pwc the shutdown hook never calls `EcuM_Shutdown`, and
`Mcu_SetMode` of the STM32 returns at once.

I/O expander (`stm3210c_eval_ioe.c`). The comment at `:1158` announces 0xAA on a
time-out, the code returns 2, with every button low. The shared time-out count
wraps below zero, so the test that it is zero (`:615`) never sees a time-out, and
a transfer cut in two by another task waits with that task's count. One wait has
no time-out (`:1114`); time-outs leave the bus without a stop condition and with
DMA on; the configuration ignores failed writes and reports success.

## 4. What is proved

`WinController_proofs`, for every timer length and saturation value with
`0 < MoveTicks <= CounterMax`, and for both kinds of stack slot:

- `TypeCorrect`: `Spec => []TypeOK`.
- `ChartSafe`: substates are never stale (`SubstatesMatch`), no movement outlives its timer, and,
  where the slot is kept, the command is that of the state.
- `EntryWrites`: a step that changes the chart's state writes that state's
  command, whatever the slot holds.
- `Refinement`: the chart implements the safety part of `WindowMotion`.

The argument is one inductive invariant, `ChartInv`. None of its parts is
inductive alone: the substate branch that a step takes decides whether the timer
is tested, so the bound on movements needs the substates, and the substates of a
movement are right only because every other state has cleared them. The proof
that a step keeps it has one step per action of the chart; refinement maps the
step counter to the age of a movement and uses the same invariant, because age
and counter agree only while moving.

`WinObjectives_proofs`, under the assumption `SlotKept` (without it `MotorSafety`
fails, run `motor_safety_slot`): `EndStopStops`, `NoUnaskedMotion`,
`PinchedWindowOpens`, `StuckSwitchStops`, `MotionEnds` and `ExpressKeepsUp`, the
six objectives for every timer length. The objectives speak of the last few
steps, so none is inductive. `ObjectivesInv` adds to `ChartInv` what the chart
remembers of those steps: the movement's timer is as old as the motion
(`TimerAges`), a basic substate stands for a request still there, a released one
for an express request, and a request held too long has outlived the timer
(`HeldSince`).

`PwcObjectives_proofs`: `SystemTypes` for any overruns; `CommandArrives` where
rounds end before the next tick (`Overrun = {}`). It needs `HandOver`: which of the two tasks are in a round, and whether the
next tick is one of `StepTask`'s, decides if `MotorDriver` already has the
command that stands in the buffer. With the slot kept as well, `EndStopReachesMotor`
and `DeadExpanderStops`, end to end from the input to the command that
`MotorDriver` works on, for every timer length. The first follows one command
from buffer to buffer: an end stop that has been pressed for a round has the
chart turn or stop, and each of `Applied`, `OneBehind` and `TwoBehind` says how
far behind the chart the motor may be at that point of a period of four ticks
(`EndStopHeeded`). The second counts rounds: no round of a silent expander asks
for anything, so a movement is at least as old as the silence is long, less the
two rounds a request takes (`Silence`), and its timer ends it. The observer's counts
stop at `ObserverCap`, `MoveTicks` ÷ 2 + 3 and so above what the properties ask
for (`CapSuffices`).

`OsObjectives_proofs`, for every set of tasks, priorities, ceilings, activation
limits, resources, calls and depth of interrupts: `KernelTyped`, `ListExact` and
`WakeupsArrive`. `KernelInv` holds them together: only a listed task is unlisted,
and `Os_TaskGetTopPrioTask` finds a task because the idle task never leaves the
list, which it does not as it calls nothing (`ConfigAssumption`). The task that
runs is in state RUNNING, and a suspended one has no activation left. The
lemmas on the list (`Removed`, `TopOfList`) say what removing from and choosing
in any such list do. With no internal resources (`NoInternal`, as in pwc), also
`HighestRuns` and `PrioritiesBack`: `PrioInv` adds to `KernelInv` that the list of
resources a task holds, the owners and its priority agree (`Agree`: each priority
remembered on taking is the one the list before it gives), and that outside of
services and interrupts nobody ready is above the running task.

Two more say what becomes of activations. The kernel registers only the
activation of the first task at start-up; whoever starts behind it (`Late`) is not
counted until it has ended once (run `kernel_activation`). `AllPerformed` therefore assumes
that such tasks never end (`LateEndless`) or that nobody activates a task
(`Unactivated`), and `OnlyEndedRestart` that they do not wait or no task activates
another (`LateActive`). In pwc all four tasks start with the system
(`Os_Cfg.c:171-233`). `CriticalTask` and `StepTask` loop and wait for events
(`Rte.c:66-104`), but `OsTask_Main` is started behind `CriticalTask` and returns
(`Tasks.c:28-38`), so `LateEndless` is not met. `Unactivated` and `LateActive` are: no
task calls `ActivateTask` or `ChainTask`, and all alarms set events
(`Os_Cfg.c:101-152`). In that case each task has the activation it was started
with until it ends (`Single`). `Counted` carries the other proofs: apart from late tasks, accepted
and registered activations are the same number, which is not zero unless
the task is suspended, and only extended tasks wait, so that the activation limit of one
keeps `ActivateTask` off a waiting task. From there each dispatch either has the top
task of a higher priority than the running one (`HigherWins`), or the running
one at rest (`RestingYields`), or is the end of an activation.

`OsCeiling_proofs`, under the same assumption: `CeilingKeepsOut`. That no two tasks
hold what the other may take is not inductive: what keeps a user of a held
resource from running is its place in the ready list. `CeilInv` says that the
ceilings a task holds rise, so its priority is the last of them (`Rising`); that
a holder that is not running is below the running task's own priority (`Below`),
and of two such holders one is below the other's (`Apart`); and that whoever has
begun, running or holding something, is ahead in the list of everyone whose
priority has reached his own (`Queued`), so that at equal priorities he is the
one who goes on. On a small instance the checker confirmed the invariant before
it was proved.

The same module proves `AssertsHold`: no `ASSERT` of the kernel fails in an
application that is `WellBuilt`, for the kernel leaves four things to it.

- A non-preemptive task that ends has one activation and does not chain. With
  more, it starts anew only while it is still first in the list, but others of
  its priority may have been raised above it meanwhile.
- Above a task that chains and has several activations there are only tasks
  that start with the system and never end. Any other could be the one it
  activates, and be dispatched in its place.
- A task that returns and takes resources takes only the scheduler resource and
  has one activation, as `Os_TaskPost` gives up one resource.
- If anybody calls `SetEvent`, extended tasks never end; run `kernel_race` is the
  case where one does.

All four hold in pwc: no task is non-preemptive, chains, takes a resource or
calls `SetEvent` (`Os_Cfg.c:171-233`, `Rte.c:66-104`, `Tasks.c:28-38`). They also hold
in the run `kernel`, whose tasks do end, return and chain.
`AssertInv` adds `Alive` to `CeilInv` and `Counted`: nobody is to be resumed inside
`TerminateTask` or `ChainTask` (`LivePlaces`), the target of a validated
`SetEvent` is still there (`LiveTargets`), and the owner of the scheduler resource
has it on its list (`SchedulerHeld`), on which there are only resources the
application takes (`TakenByUser`).

`TableObjectives_proofs`, for every counter range and set of tables that pass
the check and are in order: `TablesTyped`, `ChainsHold`, `PointsPunctual` and
`PointsKept`. `Chains` is `ChainExact` with the converse of its parts; `Timing`
says of every timed table how many ticks it has left: what its expiry value and
the counter are apart is the way from `elapsed` to its next point, none if the
walk has still to come to it.

`EcuObjectives_proofs`, for every set of users and sources and all times:
`EcuTyped` and `RunLasts`. `EcuInv` adds where start-up is (`Ordered`), that
RUN's remaining and passed time make up its minimum and its holders are on
record (`RunHeld`), and what the main function knows when it is on its way out
of RUN or POST_RUN (`LeavesRun`): the minimum time is over, and whoever holds RUN
got it after the test. The test establishes that, and the steps of other tasks
until the state is written keep it.

`OsCounter_proofs`, for every counter range, list of alarms, set of arguments and
depth of nested walks:

- `AlarmTypes`: `ObservedSpec => []TypeOK`. The strengthening is that every walk
  below the innermost one has an alarm to go on with; without it `Head` of an
  empty list could not be excluded when a dispatched task is back.
- `CancelledNeverExpires`: from the invariant that a cancelled alarm is not
  active, which `AlarmProcess` keeps even when it runs after the cancellation.
- `SoftElapsedExact`, for counters that are not read from the system's tick: the
  difference of reading and value grows by one with each tick until it reaches
  the counter's range.
- `NoneMissed`, `NoneEarly`, `NoDrift` and `NoneLost`, as long as no task has come
  between an alarm's action and the walk (`calm`); for a hardware counter, whose
  walk is in an interrupt, that is always. `CalmInv` says at each moment how many
  ticks an alarm has left: none when it is due and the walk has still to look at
  it, and the way to its expiry value otherwise. The property itself, of moments
  without a walk, is not inductive: between the increment and the alarm's turn
  it does not hold. The run `alarm_missed` shows why the condition is there.
- `CounterAddModulo`, `DiffUndoesAdd` and `AddUndoesDiff`: the two helpers of
  `os_counter_i.h` are addition and subtraction modulo the counter's range.

Model-checked only: liveness (`MotorComesToRest`, `DriverLetsGo`,
`KillShutsDown`, `WakeupServed`) and the fair refinement, since temporal
reasoning with `ENABLED` is beyond the prover. Nothing here is proved about
recursive definitions or by induction over data; the modules with theorems have
none.

## 5. Plan

Done: 1 the chart, 2 its objectives, 3 the application in its tasks, 4 the
kernel, 5 counters and alarms, 6 schedule tables, 9 the I/O expander as far as
the joystick goes (inside `PwcSystem`), 10 the state manager. Left:

7. Error paths of the kernel: misnested releases, resources in interrupts,
   interrupts left disabled, `ErrorHook` with its twenty entries.
8. `IoHwAbDigital`: channels with a diagnostic override, and who wins.
9. The I2C transfer itself, cut in two by a preemption: the shared count and the
   bus, which `PwcSystem` takes as one step.
11. `RteFifo` and `CircularBuffer`: bounded queues that implement a sequence.
12. `Com`: transmission modes and I-PDU groups, if a configuration can be found
    in the repository's tests that makes them real.

Abstract specifications still to state: a priority scheduler that `OsKernel`
implements for well-behaved applications, periodic task rounds that `PwcSystem`
implements, and a life cycle that `EcuState` implements.

`NoInternal` cannot be dropped from the kernel's theorems: `OsKernel` models
internal resources, but a task that has one takes it again after each interrupt
(`os_isr.c:261`) and with it its raised priority as the one to go back to, so
`PriorityRestored` fails as soon as such a task is interrupted and ends. The
configurations that are run have none.
