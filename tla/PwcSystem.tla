----------------------------- MODULE PwcSystem -----------------------------
(***************************************************************************)
(* The application as it runs: the six runnables of the power window       *)
(* controller in the two tasks the RTE generates for them (Rte.c), the RTE *)
(* buffers between them (Rte_Internal.c), the start-up task of Tasks.c and *)
(* the output channels they all write.                                     *)
(*                                                                         *)
(*   CriticalTask, priority 5, every 50 ticks:                             *)
(*       ObstacleDtc, EndStopDtc, WinController                            *)
(*   StepTask, priority 3, every 100 ticks:                                *)
(*       Switch, WinArbitrator, MotorDriver                                *)
(*   OsTask_Main, priority 1, once, after start-up                         *)
(*                                                                         *)
(* One step is the part of a task that no other task can observe half      *)
(* done.  CriticalTask preempts StepTask between any two steps, and the    *)
(* tick interrupt comes between any two steps of any task.  Each task      *)
(* clears its event before every runnable, so an event set while a round   *)
(* is under way is lost or merged exactly as in Rte.c.                     *)
(*                                                                         *)
(* The motor's two channels are LED_1 and LED_2 (IoHwAb_Digital.c:60 and   *)
(* 75), which the chart drives as well: `dio` is the same variable here.   *)
(* The buttons are read over I2C, and a transfer that times out is answered *)
(* with an error code in place of the pins.                                *)
(***************************************************************************)
EXTENDS WinController

CONSTANT
    Overrun \* the tasks whose round may still be under way when a tick comes

ASSUME OverrunAssumption == Overrun \subseteq {"CriticalTask", "StepTask"}

VARIABLES
    critAt,    \* the runnable CriticalTask runs next
    critEvent, \* EVENT_MASK_CriticalEvent is set
    stepAt,    \* what StepTask does next
    stepEvent, \* EVENT_MASK_StepEvent is set
    stepDue,   \* the next expiry of CriticalAlarm is one of StepAlarm too
    mainAt,    \* how far OsTask_Main has got
    rte,       \* the RTE buffers
    timedOut,  \* IOE_TimeOut ran out in the last transfer to the I/O expander
    drive      \* ImplDE_MotorDriver: the command MotorDriver works on

taskVars == <<critAt, critEvent, stepAt, stepEvent, stepDue, mainAt>>
pwcVars  == <<chartVars, taskVars, rte, timedOut, drive>>

anyCommand == commandType \cup {Garbage}

PwcTypeOK ==
    /\ TypeOK
    /\ critAt \in {"obstacleDtc", "endStopDtc", "winController"}
    /\ stepAt \in {"switch", "winArbitrator", "readCommand", "motor_1", "motor_2"}
    /\ mainAt \in {"config", "motor_1", "motor_2", "done"}
    /\ critEvent \in BOOLEAN /\ stepEvent \in BOOLEAN /\ stepDue \in BOOLEAN
    /\ rte \in [req_d : requestType, req : requestType, endStop : BOOLEAN,
                obstacle : BOOLEAN, cmd : anyCommand]
    /\ drive \in anyCommand
    /\ timedOut \in BOOLEAN

PwcInit ==
    /\ Init
    /\ critAt = "obstacleDtc" /\ stepAt = "switch" /\ mainAt = "config"
    /\ critEvent = FALSE /\ stepEvent = FALSE /\ stepDue = FALSE
    /\ rte = [req_d |-> "neutral", req |-> "neutral", endStop |-> FALSE,
              obstacle |-> FALSE, cmd |-> "neutral"]
    /\ drive = "neutral"
    /\ timedOut = FALSE

-----------------------------------------------------------------------------
(* Scheduling: a task waits at its first runnable until its event is set,  *)
(* and runs only while no task of a higher priority can.                   *)

CritReady == critEvent \/ critAt # "obstacleDtc"
StepReady == stepEvent \/ stepAt # "switch"

StepRuns == StepReady /\ ~CritReady
MainRuns == mainAt # "done" /\ ~CritReady /\ ~StepReady

\* The tick at which CriticalAlarm expires, every second time StepAlarm too.
Tick ==
    /\ CritReady => "CriticalTask" \in Overrun
    /\ StepReady => "StepTask" \in Overrun
    /\ critEvent' = TRUE
    /\ stepEvent' = (stepEvent \/ stepDue)
    /\ stepDue' = ~stepDue
    /\ UNCHANGED <<chartVars, critAt, stepAt, mainAt, rte, timedOut, drive>>

-----------------------------------------------------------------------------
(* CriticalTask.                                                           *)

CritStep(at, next) ==
    /\ CritReady /\ critAt = at
    /\ critEvent' = FALSE
    /\ critAt' = next
    /\ UNCHANGED <<stepAt, stepEvent, stepDue, mainAt, timedOut, drive>>

\* A detector reports the inverted level of its input pin.
ObstacleDtc(level) ==
    /\ CritStep("obstacleDtc", "endStopDtc")
    /\ rte' = [rte EXCEPT !.obstacle = (level = "LOW")]
    /\ UNCHANGED chartVars

EndStopDtc(level) ==
    /\ CritStep("endStopDtc", "winController")
    /\ rte' = [rte EXCEPT !.endStop = (level = "LOW")]
    /\ UNCHANGED chartVars

WinControllerStep ==
    /\ CritStep("winController", "obstacleDtc")
    /\ WinControllerRunnable(rte.req, rte.endStop, rte.obstacle)
    /\ rte' = [rte EXCEPT !.cmd = command']

-----------------------------------------------------------------------------
(* StepTask.                                                               *)

StepStep(at, next) ==
    /\ StepRuns /\ stepAt = at
    /\ stepAt' = next
    /\ UNCHANGED <<critAt, critEvent, stepDue, mainAt, localDW, command>>

Clears == stepEvent' = FALSE

\* The order in which the pins are tested; a button pulls its pin low.
JoyOrder == <<"JOY_CENTER", "JOY_DOWN", "JOY_LEFT", "JOY_RIGHT", "JOY_UP">>
JoyPins == {JoyOrder[i] : i \in 1..5}

JoyStickGetState(low) ==
    IF low = {} THEN "JOY_NONE"
    ELSE JoyOrder[CHOOSE i \in 1..5 : /\ JoyOrder[i] \in low
                                      /\ \A j \in 1..(i - 1) : JoyOrder[j] \notin low]

\* The value the comment above the function announces, 0xAA.
TimeoutPinsFaulty == {"JOY_DOWN", "JOY_RIGHT"}

\* A transfer that times out returns IOE_TIMEOUT, a register with all pins low.
TimeoutPins == JoyPins

\* A switch without a default hands on what it read.
RequestOfFaulty(joy) ==
    CASE joy = "JOY_UP"   -> "basic_up"
      [] joy = "JOY_DOWN" -> "basic_down"
      [] OTHER            -> joy

RequestOf(joy) ==
    CASE joy = "JOY_UP"    -> "basic_up"
      [] joy = "JOY_DOWN"  -> "basic_down"
      [] joy = "JOY_LEFT"  -> "express_down"
      [] joy = "JOY_RIGHT" -> "express_up"
      [] OTHER             -> "neutral"

\* The buttons are in any position, several down at once among them.
Switch(low, late) ==
    /\ StepStep("switch", "winArbitrator") /\ Clears
    /\ timedOut' = late
    /\ rte' = [rte EXCEPT !.req_d =
                    RequestOf(JoyStickGetState(IF late THEN TimeoutPins ELSE low))]
    /\ UNCHANGED <<dio, drive>>

\* The truth table, for requests of the driver and of the passenger: only a
\* passenger's basic_down beats the driver, and only a driver's neutral.
Arbitrated(driver, passenger) ==
    IF driver = "neutral" /\ passenger = "basic_down" THEN passenger ELSE driver

\* The passenger's request is not connected: WinArbitrator.c:23.
WinArbitrator ==
    /\ StepStep("winArbitrator", "readCommand") /\ Clears
    /\ rte' = [rte EXCEPT !.req = Arbitrated(rte.req_d, "neutral")]
    /\ UNCHANGED <<dio, timedOut, drive>>

MotorLevels(cmd) ==
    CASE cmd = "neutral" -> <<"LOW", "LOW">>
      [] cmd = "down"    -> <<"HIGH", "LOW">>
      [] cmd = "up"      -> <<"LOW", "HIGH">>

\* MotorDriver reads the command, then writes the two channels one by one; a
\* byte that is no command writes neither.
\* Neutral, being zero, is taken for no command at all.
ReadCommandFaulty ==
    /\ StepStep("readCommand", "motor_1") /\ Clears
    /\ drive' = IF rte.cmd = "neutral" THEN drive ELSE rte.cmd
    /\ UNCHANGED <<dio, rte, timedOut>>

ReadCommand ==
    /\ StepStep("readCommand", IF rte.cmd \in commandType THEN "motor_1" ELSE "switch")
    /\ Clears
    /\ drive' = rte.cmd
    /\ UNCHANGED <<dio, rte, timedOut>>

RunMotor_1 ==
    /\ StepStep("motor_1", "motor_2")
    /\ dio' = [dio EXCEPT !["LED_1"] = MotorLevels(drive)[1]]
    /\ UNCHANGED <<stepEvent, rte, timedOut, drive>>

RunMotor_2 ==
    /\ StepStep("motor_2", "switch")
    /\ dio' = [dio EXCEPT !["LED_2"] = MotorLevels(drive)[2]]
    /\ UNCHANGED <<stepEvent, rte, timedOut, drive>>

-----------------------------------------------------------------------------
(* OsTask_Main: with a working I/O expander it switches both channels on.  *)

MainStep(at, next) ==
    /\ MainRuns /\ mainAt = at
    /\ mainAt' = next
    /\ UNCHANGED <<critAt, critEvent, stepAt, stepEvent, stepDue, localDW, command,
                   rte, drive>>

\* What the chip identifies itself as decides; a time-out elsewhere does not.
IOE_Config(ok, late) ==
    /\ MainStep("config", IF ok THEN "motor_1" ELSE "done")
    /\ timedOut' = late
    /\ UNCHANGED dio

MainMotor_1 ==
    /\ MainStep("motor_1", "motor_2")
    /\ dio' = [dio EXCEPT !["LED_1"] = "HIGH"]
    /\ UNCHANGED timedOut

MainMotor_2 ==
    /\ MainStep("motor_2", "done")
    /\ dio' = [dio EXCEPT !["LED_2"] = "HIGH"]
    /\ UNCHANGED timedOut

-----------------------------------------------------------------------------

CriticalTask ==
    \/ \E level \in Level : ObstacleDtc(level) \/ EndStopDtc(level)
    \/ WinControllerStep

StepTask ==
    \/ \E low \in SUBSET JoyPins, late \in BOOLEAN : Switch(low, late)
    \/ WinArbitrator \/ ReadCommand \/ RunMotor_1 \/ RunMotor_2

OsTask_Main ==
    \/ \E ok, late \in BOOLEAN : IOE_Config(ok, late)
    \/ MainMotor_1 \/ MainMotor_2

PwcNext == Tick \/ CriticalTask \/ StepTask \/ OsTask_Main

PwcSpec == PwcInit /\ [][PwcNext]_pwcVars

\* The tick is a hardware timer, and a task that may run does.  CriticalTask
\* leaves StepTask some of every period, hence its strong fairness.
PwcFairness ==
    /\ WF_pwcVars(Tick) /\ WF_pwcVars(CriticalTask)
    /\ SF_pwcVars(StepTask) /\ SF_pwcVars(OsTask_Main)

PwcFairSpec == PwcSpec /\ PwcFairness
-----------------------------------------------------------------------------

\* A driver who lets go for good sees the motor driver stop for good, unless
\* the window is left retracting.
DriverLetsGo ==
    <>[](rte.req_d = "neutral") =>
        <>[](drive = "neutral" \/ localDW.is_winStates = "retracting")
=============================================================================
