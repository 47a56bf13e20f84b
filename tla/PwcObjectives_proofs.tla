------------------------ MODULE PwcObjectives_proofs ------------------------
(* Proofs about the application in its tasks, for every timer.              *)
EXTENDS PwcObjectives, WinController_proofs

\* Every value the button decoder and the truth table hand on is a request
\* (Switch.c:12-33, WinArbitrator.c:31-98).
LEMMA RequestsOnly ==
    /\ \A joy : RequestOf(joy) \in requestType
    /\ \A driver, passenger \in requestType : Arbitrated(driver, passenger) \in requestType
  BY DEF RequestOf, Arbitrated, requestType

\* MotorDriver and OsTask_Main write levels (MotorDriver.c:8-28).
LEMMA LevelsOnly ==
    /\ "LOW" \in Level /\ "HIGH" \in Level
    /\ \A cmd \in commandType : MotorLevels(cmd) \in Level \X Level
  BY DEF Level, commandType, MotorLevels

\* MotorDriver writes only for a byte that is a command.
DrivesCommand == stepAt \in {"motor_1", "motor_2"} => drive \in commandType

TypesKept == PwcTypeOK /\ DrivesCommand

LEMMA StepKeepsTypes == TypesKept /\ [PwcNext]_pwcVars => TypesKept'
  <1> SUFFICES ASSUME TypesKept, [PwcNext]_pwcVars PROVE TypesKept'
    OBVIOUS
  <1> USE DEF TypesKept, DrivesCommand
  <1>n. "neutral" \in requestType
    BY DEF requestType
  <1>1. CASE Tick
    BY <1>1 DEF Tick, chartVars, PwcTypeOK, TypeOK
  <1>2. ASSUME NEW level \in Level, ObstacleDtc(level) PROVE TypesKept'
    BY <1>2 DEF ObstacleDtc, CritStep, chartVars, PwcTypeOK, TypeOK
  <1>3. ASSUME NEW level \in Level, EndStopDtc(level) PROVE TypesKept'
    BY <1>3 DEF EndStopDtc, CritStep, chartVars, PwcTypeOK, TypeOK
  <1>4. CASE WinControllerStep
    <2>1. TypeOK'
      <3>1. rte.req \in requestType /\ rte.endStop \in BOOLEAN /\ rte.obstacle \in BOOLEAN
        BY DEF PwcTypeOK
      <3>2. QED BY <1>4, <3>1, StepKeepsTypeOK DEF WinControllerStep, PwcTypeOK
    <2>2. command' \in anyCommand
      BY <2>1 DEF TypeOK, anyCommand
    <2>3. QED BY <1>4, <2>1, <2>2 DEF WinControllerStep, CritStep, PwcTypeOK
  <1>5. ASSUME NEW low \in SUBSET JoyPins, NEW late \in BOOLEAN, Switch(low, late)
        PROVE  TypesKept'
    BY <1>5, RequestsOnly DEF Switch, StepStep, Clears, PwcTypeOK, TypeOK
  <1>6. CASE WinArbitrator
    <2>1. rte.req_d \in requestType
      BY DEF PwcTypeOK
    <2>2. Arbitrated(rte.req_d, "neutral") \in requestType
      BY <2>1, <1>n, RequestsOnly
    <2>3. QED BY <1>6, <2>2 DEF WinArbitrator, StepStep, Clears, PwcTypeOK, TypeOK
  <1>7. CASE ReadCommand
    BY <1>7 DEF ReadCommand, StepStep, Clears, PwcTypeOK, TypeOK
  <1>8. CASE RunMotor_1
    <2>1. MotorLevels(drive)[1] \in Level
      BY <1>8, LevelsOnly DEF RunMotor_1, StepStep
    <2>2. dio' \in [LED -> Level]
      BY <1>8, <2>1 DEF RunMotor_1, PwcTypeOK, TypeOK
    <2>3. QED BY <1>8, <2>2 DEF RunMotor_1, StepStep, PwcTypeOK, TypeOK
  <1>9. CASE RunMotor_2
    <2>1. MotorLevels(drive)[2] \in Level
      BY <1>9, LevelsOnly DEF RunMotor_2, StepStep
    <2>2. dio' \in [LED -> Level]
      BY <1>9, <2>1 DEF RunMotor_2, PwcTypeOK, TypeOK
    <2>3. QED BY <1>9, <2>2 DEF RunMotor_2, StepStep, PwcTypeOK, TypeOK
  <1>10. ASSUME NEW ok \in BOOLEAN, NEW late \in BOOLEAN, IOE_Config(ok, late)
         PROVE  TypesKept'
    BY <1>10 DEF IOE_Config, MainStep, PwcTypeOK, TypeOK
  <1>11. CASE MainMotor_1
    <2>1. dio' \in [LED -> Level]
      BY <1>11, LevelsOnly DEF MainMotor_1, PwcTypeOK, TypeOK
    <2>2. QED BY <1>11, <2>1 DEF MainMotor_1, MainStep, PwcTypeOK, TypeOK
  <1>12. CASE MainMotor_2
    <2>1. dio' \in [LED -> Level]
      BY <1>12, LevelsOnly DEF MainMotor_2, PwcTypeOK, TypeOK
    <2>2. QED BY <1>12, <2>1 DEF MainMotor_2, MainStep, PwcTypeOK, TypeOK
  <1>13. CASE UNCHANGED pwcVars
    BY <1>13 DEF pwcVars, chartVars, taskVars, PwcTypeOK, TypeOK
  <1>14. QED
    BY <1>1, <1>2, <1>3, <1>4, <1>5, <1>6, <1>7, <1>8, <1>9, <1>10, <1>11, <1>12, <1>13
    DEF PwcNext, CriticalTask, StepTask, OsTask_Main

LEMMA StartsTyped == PwcInit => TypesKept
  <1> SUFFICES ASSUME PwcInit PROVE TypesKept
    OBVIOUS
  <1>1. TypeOK
    BY TimerAssumption DEF PwcInit, Init, TypeOK, DW, commandType
  <1>2. QED
    BY <1>1 DEF PwcInit, TypesKept, DrivesCommand, PwcTypeOK, requestType, commandType, anyCommand

\* The composed system keeps its types: whatever the sensors, the I/O expander and
\* the stack slot deliver, only requests reach the chart and only levels the pins.
THEOREM SystemTypes == PwcSpec => []PwcTypeOK
  <1>1. PwcInit => TypesKept
    BY StartsTyped
  <1>2. TypesKept => PwcTypeOK
    BY DEF TypesKept
  <1>3. QED
    BY <1>1, <1>2, StepKeepsTypes, PTL DEF PwcSpec

-----------------------------------------------------------------------------
(* Rounds that end before the next tick: Overrun is empty.                  *)

\* StepTask is in the middle of a round only while CriticalTask rests.
StepAlone == stepAt # "switch" => ~CritReady

LEMMA StepKeepsStepAlone ==
    ASSUME Overrun = {}
    PROVE  PwcTypeOK /\ StepAlone /\ [PwcNext]_pwcVars => StepAlone'
  <1> SUFFICES ASSUME PwcTypeOK, StepAlone, [PwcNext]_pwcVars PROVE StepAlone'
    OBVIOUS
  <1> USE DEF StepAlone, CritReady, StepReady
  <1>1. CASE Tick
    BY <1>1 DEF Tick, chartVars
  <1>2. CASE CriticalTask
    BY <1>2 DEF CriticalTask, ObstacleDtc, EndStopDtc, WinControllerStep, CritStep
  <1>3. ASSUME NEW low \in SUBSET JoyPins, NEW late \in BOOLEAN, Switch(low, late)
        PROVE  StepAlone'
    BY <1>3 DEF Switch, StepStep, StepRuns
  <1>4. CASE WinArbitrator
    BY <1>4 DEF WinArbitrator, StepStep, StepRuns
  <1>5. CASE ReadCommand
    BY <1>5 DEF ReadCommand, StepStep, StepRuns
  <1>6. CASE RunMotor_1
    BY <1>6 DEF RunMotor_1, StepStep, StepRuns
  <1>7. CASE RunMotor_2
    BY <1>7 DEF RunMotor_2, StepStep, StepRuns
  <1>8. CASE OsTask_Main
    BY <1>8 DEF OsTask_Main, IOE_Config, MainMotor_1, MainMotor_2, MainStep, MainRuns
  <1>9. CASE UNCHANGED pwcVars
    BY <1>9 DEF pwcVars, chartVars, taskVars
  <1>10. QED
    BY <1>1, <1>2, <1>3, <1>4, <1>5, <1>6, <1>7, <1>8, <1>9 DEF PwcNext, StepTask

-----------------------------------------------------------------------------
(* The hand-over of the command from the chart's task to the motor driver's. *)

\* Every second round of CriticalTask is followed by one of StepTask.  Between
\* them, what the motor driver applied is what was last handed over: until the
\* chart speaks again, and after that if it repeats itself.
HandOver ==
    /\ stepDue => ~StepReady
    /\ ~stepDue /\ CritReady => StepReady
    /\ ~stepDue /\ ~StepReady => drive = rte.cmd
    /\ stepDue /\ CritReady => drive = rte.cmd
    /\ stepDue /\ ~CritReady /\ cmdRun >= 2 => drive = rte.cmd
    /\ stepAt \in {"motor_1", "motor_2"} => drive = rte.cmd
    /\ stepAt # "switch" => ~stepEvent

HandOverInv == PwcTypeOK /\ ObserverTypeOK /\ StepAlone /\ HandOver

\* The observer's counters reach every number of rounds an objective asks for.
LEMMA CapSuffices ==
    /\ ObserverCap \in Nat /\ ObserverCap >= 3
    /\ ObserverCap >= MoveTicks \div 2 + 2
    /\ \A n \in 0..ObserverCap : /\ Count(n) \in 0..ObserverCap
                               /\ Count(n) >= 1 /\ Count(n) <= n + 1
  BY TimerAssumption DEF ObserverCap, Count

\* The observer's counters stay below their bound.
LEMMA StepKeepsObserver ==
    PwcTypeOK /\ ObserverTypeOK /\ PwcTypeOK' /\ [ObservedNext]_vars => ObserverTypeOK'
  <1> SUFFICES ASSUME PwcTypeOK, ObserverTypeOK, PwcTypeOK', [ObservedNext]_vars
               PROVE  ObserverTypeOK'
    OBVIOUS
  <1>1. CASE UNCHANGED vars
    BY <1>1 DEF vars, observer, ObserverTypeOK
  <1>2. CASE Observe
    <2>1. \A n \in 0..ObserverCap : Count(n) \in 0..ObserverCap
      BY CapSuffices
    <2>2. endRun \in 0..ObserverCap /\ cmdRun \in 0..ObserverCap /\ silent \in 0..ObserverCap
      BY DEF ObserverTypeOK
    <2>3. 0 \in 0..ObserverCap /\ 1 \in 0..ObserverCap
      BY CapSuffices
    <2>4. endRun' \in 0..ObserverCap /\ cmdRun' \in 0..ObserverCap
      BY <1>2, <2>1, <2>2, <2>3 DEF Observe
    <2>5. silent' \in 0..ObserverCap
      BY <1>2, <2>1, <2>2, <2>3 DEF Observe
    <2>6. drives' \in anyCommand \X anyCommand
      BY <1>2 DEF Observe, ObserverTypeOK, PwcTypeOK
    <2>7. QED BY <2>4, <2>5, <2>6 DEF ObserverTypeOK
  <1>3. QED
    BY <1>1, <1>2 DEF ObservedNext

LEMMA StepKeepsHandOver ==
    ASSUME Overrun = {}
    PROVE  HandOverInv /\ [ObservedNext]_vars => HandOver'
  <1> SUFFICES ASSUME HandOverInv, [ObservedNext]_vars PROVE HandOver'
    OBVIOUS
  <1> USE DEF HandOver, CritReady, StepReady
  <1>t. /\ stepDue \in BOOLEAN /\ critEvent \in BOOLEAN /\ stepEvent \in BOOLEAN
        /\ cmdRun \in 0..ObserverCap /\ cmdRun \in Nat
    BY CapSuffices DEF HandOverInv, PwcTypeOK, ObserverTypeOK
  <1>h. HandOver /\ StepAlone
    BY DEF HandOverInv
  <1>1. CASE Tick /\ Observe
    BY <1>1, <1>t, <1>h DEF Tick, Observe
  <1>2. ASSUME CriticalTask, critAt # "winController", Observe PROVE HandOver'
    <2>1. /\ rte'.cmd = rte.cmd /\ critEvent' = FALSE /\ critAt' # "obstacleDtc"
          /\ CritReady
      BY <1>2 DEF CriticalTask, ObstacleDtc, EndStopDtc, WinControllerStep, CritStep,
                  HandOverInv, PwcTypeOK
    <2>2. UNCHANGED <<stepAt, stepEvent, stepDue, drive, cmdRun>>
      BY <1>2 DEF CriticalTask, ObstacleDtc, EndStopDtc, WinControllerStep, CritStep,
                  Observe
    <2>3. QED BY <2>1, <2>2, <1>t, <1>h
  <1>3. ASSUME CriticalTask, critAt = "winController", Observe PROVE HandOver'
    <2>1. /\ critEvent' = FALSE /\ critAt' = "obstacleDtc" /\ CritReady
          /\ UNCHANGED <<stepAt, stepEvent, stepDue, drive>>
      BY <1>3 DEF CriticalTask, ObstacleDtc, EndStopDtc, WinControllerStep, CritStep
    <2>2. stepAt = "switch"
      BY <2>1, <1>h DEF StepAlone
    <2>3. cmdRun' >= 2 => rte'.cmd = rte.cmd
      BY <1>3, <2>1, <1>t, CapSuffices DEF Observe
    <2>4. QED BY <2>1, <2>2, <2>3, <1>t, <1>h
  <1>4. ASSUME StepTask, Observe PROVE HandOver'
    <2>1. /\ ~CritReady /\ StepReady /\ ~stepDue
          /\ UNCHANGED <<critAt, critEvent, stepDue, cmdRun>> /\ rte'.cmd = rte.cmd
      BY <1>4, <1>h DEF StepTask, Switch, WinArbitrator, ReadCommand, RunMotor_1,
                        RunMotor_2, StepStep, StepRuns, Observe, HandOverInv, PwcTypeOK
    <2>2. stepAt' \in {"motor_1", "motor_2"} \/ stepAt' = "switch" => drive' = rte.cmd
      BY <1>4, <1>h DEF StepTask, Switch, WinArbitrator, ReadCommand, RunMotor_1,
                        RunMotor_2, StepStep
    <2>3. stepAt' # "switch" => ~stepEvent'
      BY <1>4, <1>h DEF StepTask, Switch, WinArbitrator, ReadCommand, RunMotor_1,
                        RunMotor_2, StepStep, Clears
    <2>4. QED BY <2>1, <2>2, <2>3, <1>t, <1>h
  <1>5. ASSUME OsTask_Main, Observe PROVE HandOver'
    <2>1. UNCHANGED <<critAt, critEvent, stepAt, stepEvent, stepDue, rte, drive, cmdRun>>
      BY <1>5 DEF OsTask_Main, IOE_Config, MainMotor_1, MainMotor_2, MainStep, Observe
    <2>2. QED BY <2>1, <1>h
  <1>6. CASE UNCHANGED vars
    BY <1>6, <1>h DEF vars, pwcVars, taskVars, observer
  <1>7. QED
    BY <1>1, <1>2, <1>3, <1>4, <1>5, <1>6 DEF ObservedNext, PwcNext

RoundInv == TypesKept /\ HandOverInv

\* When rounds end before the next tick, the two tasks hand over as HandOver says
\* in every state (Rte.c's two task bodies and their alarms).
LEMMA RoundsInvariant ==
    ASSUME Overrun = {} PROVE ObservedSpec => []RoundInv
  <1>1. PwcInit /\ ObserverInit => RoundInv
    <2> SUFFICES ASSUME PwcInit, ObserverInit PROVE RoundInv
      OBVIOUS
    <2>1. TypesKept
      BY StartsTyped
    <2>2. ObserverTypeOK
      BY CapSuffices DEF ObserverInit, ObserverTypeOK, anyCommand, commandType
    <2>3. StepAlone /\ HandOver
      BY DEF PwcInit, ObserverInit, StepAlone, HandOver, CritReady, StepReady
    <2>4. QED BY <2>1, <2>2, <2>3 DEF RoundInv, HandOverInv, TypesKept
  <1>2. RoundInv /\ [ObservedNext]_vars => RoundInv'
    <2> SUFFICES ASSUME RoundInv, [ObservedNext]_vars PROVE RoundInv'
      OBVIOUS
    <2>0. TypesKept /\ HandOverInv
      BY DEF RoundInv
    <2>1. [PwcNext]_pwcVars
      BY DEF ObservedNext, vars
    <2>2. TypesKept'
      BY <2>0, <2>1, StepKeepsTypes
    <2>3. StepAlone'
      BY <2>0, <2>1, StepKeepsStepAlone DEF HandOverInv
    <2>4. HandOver'
      BY <2>0, StepKeepsHandOver
    <2>5. ObserverTypeOK'
      BY <2>0, <2>2, StepKeepsObserver DEF TypesKept, HandOverInv
    <2>6. QED BY <2>2, <2>3, <2>4, <2>5 DEF RoundInv, HandOverInv, TypesKept
  <1>3. QED
    BY <1>1, <1>2, PTL DEF ObservedSpec

\* When rounds end before the next tick, a command that stood for two rounds of
\* CriticalTask is the one the motor driver applied (Rte_Internal.c's buffers, the
\* two alarms' periods and the tasks' priorities).
THEOREM CommandArrives ==
    ASSUME Overrun = {} PROVE ObservedSpec => []CommandReachesMotor
  <1>1. RoundInv => CommandReachesMotor
    BY DEF RoundInv, HandOverInv, HandOver, PwcTypeOK, CommandReachesMotor, Idle
  <1>2. QED
    BY <1>1, RoundsInvariant, PTL

\* How many of the chart's commands the motor driver has yet to see, in a period of
\* two rounds of CriticalTask and one of StepTask: none, one or two.
Applied ==
    \/ CritReady /\ stepDue
    \/ ~CritReady /\ StepReady /\ stepAt \in {"motor_1", "motor_2"}
    \/ ~CritReady /\ ~StepReady /\ ~stepDue
OneBehind == IF CritReady THEN ~stepDue ELSE stepDue
TwoBehind == ~CritReady /\ StepReady /\ stepAt \notin {"motor_1", "motor_2"}

\* A round of the chart lets the driver fall one command behind, the driver's own
\* round brings it level again, and nothing else moves them against each other.
LEMMA PeriodTurns ==
    ASSUME Overrun = {}, RoundInv
    PROVE  /\ Tick => /\ ~TwoBehind /\ ~TwoBehind'
                      /\ Applied' => Applied
                      /\ OneBehind' => OneBehind
           /\ CriticalTask /\ critAt # "winController" =>
                /\ ~TwoBehind /\ ~TwoBehind'
                /\ Applied' => Applied
                /\ OneBehind' => OneBehind
           /\ WinControllerStep =>
                /\ ~Applied' /\ ~TwoBehind
                /\ OneBehind' => Applied /\ ~TwoBehind'
                /\ TwoBehind' => OneBehind /\ ~OneBehind' /\ stepAt' = "switch"
           /\ StepTask /\ stepAt \in {"switch", "winArbitrator"} =>
                TwoBehind /\ ~Applied' /\ ~OneBehind'
           /\ ReadCommand => TwoBehind /\ ~TwoBehind' /\ ~OneBehind'
           /\ RunMotor_1 \/ RunMotor_2 =>
                Applied /\ ~TwoBehind' /\ ~OneBehind'
           /\ Applied => ~OneBehind /\ ~TwoBehind
           /\ OneBehind => ~TwoBehind
  <1> USE DEF Applied, OneBehind, TwoBehind, CritReady, StepReady
  <1>t. /\ stepDue \in BOOLEAN /\ critEvent \in BOOLEAN /\ stepEvent \in BOOLEAN
        /\ critAt \in {"obstacleDtc", "endStopDtc", "winController"}
        /\ stepAt \in {"switch", "winArbitrator", "readCommand", "motor_1", "motor_2"}
    BY DEF RoundInv, HandOverInv, PwcTypeOK
  <1>h. /\ stepDue => ~StepReady
        /\ ~stepDue /\ CritReady => StepReady
        /\ stepAt # "switch" => ~CritReady /\ ~stepEvent
    BY DEF RoundInv, HandOverInv, HandOver, StepAlone
  <1>1. Tick => /\ ~TwoBehind /\ ~TwoBehind'
                /\ Applied' => Applied
                /\ OneBehind' => OneBehind
    BY <1>t, <1>h DEF Tick
  <1>2. CriticalTask /\ critAt # "winController" =>
          /\ ~TwoBehind /\ ~TwoBehind'
          /\ Applied' => Applied
          /\ OneBehind' => OneBehind
    BY <1>t, <1>h DEF CriticalTask, ObstacleDtc, EndStopDtc, WinControllerStep, CritStep
  <1>3. WinControllerStep =>
          /\ ~Applied' /\ ~TwoBehind
          /\ OneBehind' => Applied /\ ~TwoBehind'
          /\ TwoBehind' => OneBehind /\ ~OneBehind' /\ stepAt' = "switch"
    BY <1>t, <1>h DEF WinControllerStep, CritStep
  <1>4. StepTask /\ stepAt \in {"switch", "winArbitrator"} =>
          TwoBehind /\ ~Applied' /\ ~OneBehind'
    BY <1>t, <1>h DEF StepTask, Switch, WinArbitrator, ReadCommand, RunMotor_1, RunMotor_2,
                      StepStep, StepRuns
  <1>5. ReadCommand => TwoBehind /\ ~TwoBehind' /\ ~OneBehind'
    BY <1>t, <1>h DEF ReadCommand, StepStep, StepRuns, Clears
  <1>6. RunMotor_1 \/ RunMotor_2 => Applied /\ ~TwoBehind' /\ ~OneBehind'
    <2>1. RunMotor_1 => Applied /\ ~TwoBehind' /\ ~OneBehind'
      BY <1>t, <1>h DEF RunMotor_1, StepStep, StepRuns
    <2>2. RunMotor_2 => Applied /\ ~TwoBehind' /\ ~OneBehind'
      BY <1>t, <1>h DEF RunMotor_2, StepStep, StepRuns
    <2>3. QED BY <2>1, <2>2
  <1>7. QED
    BY <1>1, <1>2, <1>3, <1>4, <1>5, <1>6, <1>t, <1>h

\* Only the runnable's own step moves the chart, and what it hands over is the
\* chart's command (WinController.c:41-55).
LEMMA OnlyRoundsMoveChart ==
    PwcTypeOK /\ [PwcNext]_pwcVars =>
        \/ /\ WinControllerStep
           /\ rte' = [rte EXCEPT !.cmd = command']
        \/ /\ ~WinControllerStep
           /\ UNCHANGED <<localDW, command>> /\ rte'.cmd = rte.cmd
  <1> SUFFICES ASSUME PwcTypeOK, [PwcNext]_pwcVars, ~WinControllerStep
               PROVE  UNCHANGED <<localDW, command>> /\ rte'.cmd = rte.cmd
    BY DEF WinControllerStep
  <1> USE DEF PwcTypeOK, chartVars
  <1>1. CASE Tick
    BY <1>1 DEF Tick
  <1>2. CASE CriticalTask
    BY <1>2 DEF CriticalTask, ObstacleDtc, EndStopDtc
  <1>3. CASE StepTask
    BY <1>3 DEF StepTask, Switch, WinArbitrator, ReadCommand, RunMotor_1, RunMotor_2, StepStep
  <1>4. CASE OsTask_Main
    BY <1>4 DEF OsTask_Main, IOE_Config, MainMotor_1, MainMotor_2, MainStep
  <1>5. CASE UNCHANGED pwcVars
    BY <1>5 DEF pwcVars
  <1>6. QED BY <1>1, <1>2, <1>3, <1>4, <1>5 DEF PwcNext

\* The chart keeps its invariants in its task, and the RTE holds its command.
ChartInTask == ChartInv /\ rte.cmd = command

LEMMA StepKeepsChart ==
    PwcTypeOK /\ PwcTypeOK' /\ ChartInTask /\ [PwcNext]_pwcVars => ChartInTask'
  <1> SUFFICES ASSUME PwcTypeOK, PwcTypeOK', ChartInTask, [PwcNext]_pwcVars
               PROVE  ChartInTask'
    OBVIOUS
  <1>t. TypeOK'
    BY DEF PwcTypeOK
  <1>1. CASE WinControllerStep
    <2>1. /\ rte.req \in requestType /\ rte.endStop \in BOOLEAN /\ rte.obstacle \in BOOLEAN
          /\ WinControllerRunnable(rte.req, rte.endStop, rte.obstacle)
          /\ rte'.cmd = command'
      BY <1>1 DEF WinControllerStep, PwcTypeOK
    <2>2. SubstatesMatch' /\ TimerBoundsMotion' /\ CommandFollowsState'
      BY <2>1, StepKeepsChartInv DEF ChartInTask
    <2>3. QED BY <2>1, <2>2, <1>t DEF ChartInTask, ChartInv
  <1>2. CASE ~WinControllerStep
    <2>1. UNCHANGED <<localDW, command>> /\ rte'.cmd = rte.cmd
      BY <1>2, OnlyRoundsMoveChart
    <2>2. SubstatesMatch' /\ TimerBoundsMotion' /\ CommandFollowsState'
      BY <2>1 DEF ChartInTask, ChartInv, SubstatesMatch, TimerBoundsMotion,
                  CommandFollowsState, CommandOf
    <2>3. QED BY <2>1, <2>2, <1>t DEF ChartInTask, ChartInv
  <1>3. QED BY <1>1, <1>2

LEMMA StartsInTask == PwcInit => ChartInTask
  <1> SUFFICES ASSUME PwcInit PROVE ChartInTask
    OBVIOUS
  <1>1. TypeOK
    BY StartsTyped DEF TypesKept, PwcTypeOK
  <1>2. SubstatesMatch /\ TimerBoundsMotion /\ CommandFollowsState
    BY DEF PwcInit, Init, SubstatesMatch, TimerBoundsMotion, CommandFollowsState, CommandOf
  <1>3. QED BY <1>1, <1>2 DEF PwcInit, Init, ChartInTask, ChartInv

-----------------------------------------------------------------------------
(* From the end stop's pin to the motor.                                    *)

\* One round with the end stop ends the movement the driver applied, two leave it
\* ended or reversed, and by the third the driver has seen that: its last two
\* commands are equal only if they are to stop.
EndStopHeeded ==
    /\ drive \in commandType /\ drives[2] = drive
    /\ OneBehind /\ endRun >= 1 /\ drive # "neutral" => AtEnd(localDW, drive)
    /\ TwoBehind /\ endRun >= 2 /\ drive # "neutral" =>
         AtEnd(localDW, drive) \/ Against(localDW, drive)
    /\ Applied /\ endRun >= 2 => (drives[1] = drives[2] => drive = "neutral")
    /\ OneBehind /\ endRun >= 3 => (drives[1] = drives[2] => drive = "neutral")

LEMMA StepKeepsEndStopHeeded ==
    ASSUME Overrun = {}, SlotKept,
           RoundInv, ChartInTask, EndStopHeeded, [ObservedNext]_vars
    PROVE  EndStopHeeded'
  <1>t. /\ PwcTypeOK /\ HandOver /\ endRun \in 0..ObserverCap
        /\ drives \in anyCommand \X anyCommand
    BY DEF RoundInv, HandOverInv, ObserverTypeOK
  <1>n. endRun \in Nat
    BY <1>t, CapSuffices
  <1>c. commandType = {"neutral", "up", "down"}
    BY DEF commandType
  <1>1. ASSUME UNCHANGED <<localDW, command, drive, drives, endRun>>,
               ~TwoBehind', Applied' => Applied, OneBehind' => OneBehind
        PROVE  EndStopHeeded'
    BY <1>1 DEF EndStopHeeded, AtEnd
  <1>2. CASE Tick /\ Observe
    <2>1. UNCHANGED <<localDW, command, drive, drives, endRun>>
      BY <1>2 DEF Tick, Observe, chartVars
    <2>2. QED BY <1>1, <1>2, <2>1, PeriodTurns
  <1>3. CASE CriticalTask /\ Observe /\ critAt # "winController"
    <2>1. UNCHANGED <<localDW, command, drive, drives, endRun>>
      BY <1>3 DEF CriticalTask, ObstacleDtc, EndStopDtc, WinControllerStep, CritStep,
                  Observe, chartVars
    <2>2. QED BY <1>1, <1>3, <2>1, PeriodTurns
  <1>4. CASE WinControllerStep /\ Observe
    <2>1. /\ UNCHANGED <<drive, drives>>
          /\ endRun' = IF rte.endStop THEN Count(endRun) ELSE 0
          /\ rte.endStop \in BOOLEAN
          /\ WinControllerRunnable(rte.req, rte.endStop, rte.obstacle)
      BY <1>4, <1>t DEF WinControllerStep, CritStep, Observe, PwcTypeOK
    <2>2. /\ endRun' >= 1 => rte.endStop = TRUE
          /\ endRun' >= 2 => endRun >= 1
          /\ endRun' >= 3 => endRun >= 2
      BY <2>1, <1>t, <1>n, CapSuffices
    <2>p. /\ ~Applied'
          /\ OneBehind' => Applied /\ ~TwoBehind'
          /\ TwoBehind' => OneBehind /\ ~OneBehind'
      BY <1>4, PeriodTurns
    <2>3. ASSUME OneBehind' PROVE EndStopHeeded'
      <3>1. Applied /\ ~TwoBehind' /\ ~Applied'
        BY <2>3, <2>p
      <3>2. drive = command
        <4>1. drive = rte.cmd
          BY <3>1, <1>t DEF Applied, HandOver, PwcTypeOK
        <4>2. QED BY <4>1 DEF ChartInTask
      <3>3. endRun' >= 1 /\ drive # "neutral" => AtEnd(localDW', drive)
        <4> SUFFICES ASSUME endRun' >= 1, drive # "neutral" PROVE AtEnd(localDW', drive)
          OBVIOUS
        <4>1. command \in {"up", "down"}
          BY <3>2, <1>c DEF EndStopHeeded
        <4>2. WinControllerRunnable(rte.req, TRUE, rte.obstacle)
          BY <2>1, <2>2
        <4>3. AtEnd(localDW', command)
          BY <4>1, <4>2, EndStopEnds DEF ChartInTask
        <4>4. QED BY <4>3, <3>2
      <3>4. endRun' >= 3 => (drives[1] = drives[2] => drive = "neutral")
        BY <3>1, <2>2 DEF EndStopHeeded
      <3>5. QED BY <2>1, <3>1, <3>3, <3>4 DEF EndStopHeeded, AtEnd
    <2>4. ASSUME TwoBehind' PROVE EndStopHeeded'
      <3>1. OneBehind /\ ~OneBehind' /\ ~Applied'
        BY <2>4, <2>p
      <3>2. endRun' >= 2 /\ drive # "neutral" =>
              AtEnd(localDW', drive) \/ Against(localDW', drive)
        <4> SUFFICES ASSUME endRun' >= 2, drive # "neutral"
                     PROVE  AtEnd(localDW', drive) \/ Against(localDW', drive)
          OBVIOUS
        <4>1. drive \in {"up", "down"} /\ AtEnd(localDW, drive)
          BY <2>2, <3>1, <1>c DEF EndStopHeeded
        <4>2. QED BY <2>1, <4>1, EndStopTurns DEF ChartInTask
      <3>3. QED BY <2>1, <3>1, <3>2 DEF EndStopHeeded, AtEnd, Against
    <2>5. CASE ~OneBehind' /\ ~TwoBehind'
      BY <2>1, <2>5, <2>p DEF EndStopHeeded
    <2>6. QED BY <2>3, <2>4, <2>5
  <1>5. CASE StepTask /\ Observe /\ stepAt \in {"switch", "winArbitrator"}
    <2>1. UNCHANGED <<localDW, drive, drives, endRun>>
      BY <1>5 DEF StepTask, Switch, WinArbitrator, ReadCommand, RunMotor_1, RunMotor_2,
                  StepStep, StepRuns, Observe
    <2>2. TwoBehind /\ ~Applied' /\ ~OneBehind'
      BY <1>5, PeriodTurns
    <2>3. QED BY <2>1, <2>2 DEF EndStopHeeded, AtEnd, Against
  <1>6. CASE ReadCommand /\ Observe
    <2>1. /\ drive' = rte.cmd /\ drives' = <<drives[2], rte.cmd>>
          /\ UNCHANGED <<localDW, command, endRun>>
      BY <1>6 DEF ReadCommand, StepStep, StepRuns, Observe, CritReady
    <2>2. TwoBehind /\ ~TwoBehind' /\ ~OneBehind'
      BY <1>6, PeriodTurns
    <2>3. rte.cmd = CommandOf(localDW)
      BY DEF ChartInTask, ChartInv, CommandFollowsState
    <2>4. drive' \in commandType /\ drives'[2] = drive'
      BY <2>1, <2>3, <1>c DEF CommandOf
    <2>5. endRun >= 2 /\ drive = rte.cmd => rte.cmd = "neutral"
      <3> SUFFICES ASSUME endRun >= 2, drive = rte.cmd, rte.cmd # "neutral" PROVE FALSE
        OBVIOUS
      <3>1. AtEnd(localDW, drive) \/ Against(localDW, drive)
        BY <2>2 DEF EndStopHeeded
      <3>2. drive \in {"up", "down"}
        BY <1>c DEF EndStopHeeded
      <3>3. QED BY <2>3, <3>1, <3>2 DEF AtEnd, Against, CommandOf
    <2>6. endRun' >= 2 => (drives'[1] = drives'[2] => drive' = "neutral")
      BY <2>1, <2>5 DEF EndStopHeeded
    <2>7. QED BY <2>2, <2>4, <2>6 DEF EndStopHeeded
  <1>7. CASE (RunMotor_1 \/ RunMotor_2) /\ Observe
    <2>1. UNCHANGED <<localDW, command, drive, drives, endRun>>
      BY <1>7 DEF RunMotor_1, RunMotor_2, StepStep, StepRuns, Observe, CritReady
    <2>2. Applied /\ ~TwoBehind' /\ ~OneBehind'
      BY <1>7, PeriodTurns
    <2>3. QED BY <1>1, <2>1, <2>2
  <1>8. ASSUME UNCHANGED <<localDW, drive, drives, endRun, critAt, critEvent, stepAt,
                           stepEvent, stepDue>>
        PROVE  EndStopHeeded'
    BY <1>8 DEF EndStopHeeded, AtEnd, Against, Applied, OneBehind, TwoBehind, CritReady,
                StepReady
  <1>9. CASE OsTask_Main /\ Observe
    <2>1. UNCHANGED <<localDW, drive, drives, endRun, critAt, critEvent, stepAt,
                      stepEvent, stepDue>>
      BY <1>9 DEF OsTask_Main, IOE_Config, MainMotor_1, MainMotor_2, MainStep, Observe
    <2>2. QED BY <1>8, <2>1
  <1>10. CASE UNCHANGED vars
    <2>1. UNCHANGED <<localDW, drive, drives, endRun, critAt, critEvent, stepAt,
                      stepEvent, stepDue>>
      BY <1>10 DEF vars, pwcVars, chartVars, taskVars, observer
    <2>2. QED BY <1>8, <2>1
  <1>11. CASE CriticalTask /\ Observe /\ critAt = "winController"
    <2>1. WinControllerStep
      BY <1>11 DEF CriticalTask, ObstacleDtc, EndStopDtc, CritStep
    <2>2. QED BY <1>4, <1>11, <2>1
  <1>12. CASE StepTask /\ Observe /\ stepAt \notin {"switch", "winArbitrator"}
    <2>1. ReadCommand \/ RunMotor_1 \/ RunMotor_2
      BY <1>12 DEF StepTask, Switch, WinArbitrator, StepStep
    <2>2. QED BY <1>6, <1>7, <1>12, <2>1
  <1>13. QED
    BY <1>2, <1>3, <1>5, <1>9, <1>10, <1>11, <1>12 DEF ObservedNext, PwcNext

\* When rounds end before the next tick and the stack slot of `command` survives,
\* three rounds with the end stop pressed leave no two runs of MotorDriver that
\* push the same way (Motor Safety, from EndStopDtc.c to MotorDriver.c).
THEOREM EndStopReachesMotor ==
    ASSUME Overrun = {}, SlotKept PROVE ObservedSpec => []EndStopHaltsMotor
  <1> DEFINE Inv == ChartInTask /\ EndStopHeeded
  <1>1. PwcInit /\ ObserverInit => Inv
    <2> SUFFICES ASSUME PwcInit, ObserverInit PROVE Inv
      OBVIOUS
    <2>1. ChartInTask
      BY StartsInTask
    <2>2. EndStopHeeded
      BY DEF PwcInit, ObserverInit, EndStopHeeded, commandType
    <2>3. QED BY <2>1, <2>2
  <1>2. RoundInv /\ RoundInv' /\ Inv /\ [ObservedNext]_vars => Inv'
    <2> SUFFICES ASSUME RoundInv, RoundInv', Inv, [ObservedNext]_vars PROVE Inv'
      OBVIOUS
    <2>1. [PwcNext]_pwcVars
      BY DEF ObservedNext, vars
    <2>2. PwcTypeOK /\ PwcTypeOK'
      BY DEF RoundInv, HandOverInv
    <2>3. ChartInTask'
      BY <2>1, <2>2, StepKeepsChart
    <2>4. EndStopHeeded'
      BY StepKeepsEndStopHeeded
    <2>5. QED BY <2>3, <2>4
  <1>3. RoundInv /\ Inv => EndStopHaltsMotor
    <2> SUFFICES ASSUME RoundInv, Inv, Idle, endRun >= 3, drives[1] = drives[2]
                 PROVE  drive = "neutral"
      BY DEF EndStopHaltsMotor
    <2>1. stepDue \in BOOLEAN /\ endRun \in Nat
      BY CapSuffices DEF RoundInv, HandOverInv, PwcTypeOK, ObserverTypeOK
    <2>2. Applied \/ OneBehind
      BY <2>1 DEF Idle, Applied, OneBehind
    <2>3. QED BY <2>1, <2>2 DEF EndStopHeeded
  <1>4. QED
    BY <1>1, <1>2, <1>3, RoundsInvariant, PTL DEF ObservedSpec

-----------------------------------------------------------------------------
(* An I/O expander that no longer answers.                                  *)

\* A transfer that timed out reads as the centre button, which asks for nothing
\* (stm3210c_eval_ioe.c's IOE_TIMEOUT, Switch.c:12-33).
LEMMA TimeoutAsksNothing == RequestOf(JoyStickGetState(TimeoutPins)) = "neutral"
  <1>1. JoyPins # {} /\ \A i \in 1..5 : JoyOrder[i] \in JoyPins
    BY DEF JoyPins, JoyOrder
  <1>2. JoyStickGetState(JoyPins) = JoyOrder[1]
    <2> DEFINE First(i) == /\ JoyOrder[i] \in JoyPins
                           /\ \A j \in 1..(i - 1) : JoyOrder[j] \notin JoyPins
    <2>1. First(1)
      BY <1>1
    <2>2. \A i \in 1..5 : First(i) => i = 1
      <3> SUFFICES ASSUME NEW i \in 1..5, First(i), i # 1 PROVE FALSE
        OBVIOUS
      <3>1. 1 \in 1..(i - 1)
        OBVIOUS
      <3>2. JoyOrder[1] \notin JoyPins
        BY <3>1
      <3>3. QED BY <1>1, <3>2
    <2> HIDE DEF First
    <2>3. (CHOOSE i \in 1..5 : First(i)) = 1
      BY <2>1, <2>2
    <2>4. JoyStickGetState(JoyPins) = JoyOrder[CHOOSE i \in 1..5 : First(i)]
      BY <1>1 DEF JoyStickGetState, First
    <2>5. QED BY <2>3, <2>4
  <1>3. QED
    BY <1>2 DEF TimeoutPins, RequestOf, JoyOrder

\* The least age of a movement after so many rounds of StepTask that read nothing:
\* between two of them the chart is called twice, and nobody asked it to begin anew.
Elapsed(rounds) ==
    IF rounds = 0 THEN 0
    ELSE 2 * (rounds - 1) +
         (IF OneBehind THEN 1 ELSE IF TwoBehind /\ stepAt = "switch" THEN 2 ELSE 0)

Silence ==
    silent >= 1 =>
        /\ rte.req_d = "neutral"
        /\ stepAt # "winArbitrator" => rte.req = "neutral"
        /\ Driven(localDW) => localDW.temporalCounter_i1 >= Elapsed(silent)

LEMMA StepKeepsSilence ==
    ASSUME Overrun = {}, RoundInv, ChartInTask, Silence, [ObservedNext]_vars
    PROVE  Silence'
  <1>t. /\ PwcTypeOK /\ HandOver /\ StepAlone /\ silent \in 0..ObserverCap
        /\ localDW.temporalCounter_i1 \in Nat
    BY TimerAssumption DEF RoundInv, HandOverInv, ObserverTypeOK, ChartInTask, ChartInv, TypeOK, DW
  <1>n. silent \in Nat
    BY <1>t, CapSuffices
  <1>r. rte \in [req_d : requestType, req : requestType, endStop : BOOLEAN,
                 obstacle : BOOLEAN, cmd : anyCommand]
    BY <1>t DEF PwcTypeOK
  <1>1. ASSUME UNCHANGED <<localDW, silent, stepAt>>, rte'.req = rte.req, rte'.req_d = rte.req_d,
               OneBehind' => OneBehind, ~TwoBehind'
        PROVE  Silence'
    BY <1>1, <1>t, <1>n DEF Silence, Elapsed, Driven
  <1>2. CASE Tick /\ Observe
    <2>1. UNCHANGED <<localDW, silent, stepAt, rte>>
      BY <1>2 DEF Tick, Observe, chartVars
    <2>2. QED BY <1>1, <1>2, <2>1, PeriodTurns
  <1>3. CASE CriticalTask /\ Observe /\ critAt # "winController"
    <2>1. /\ UNCHANGED <<localDW, silent, stepAt>>
          /\ rte'.req = rte.req /\ rte'.req_d = rte.req_d
      BY <1>3, <1>r DEF CriticalTask, ObstacleDtc, EndStopDtc, WinControllerStep, CritStep,
                        Observe, chartVars
    <2>2. QED BY <1>1, <1>3, <2>1, PeriodTurns
  <1>4. CASE WinControllerStep /\ Observe
    <2>1. /\ UNCHANGED <<silent, stepAt>>
          /\ rte'.req = rte.req /\ rte'.req_d = rte.req_d
          /\ WinControllerRunnable(rte.req, rte.endStop, rte.obstacle)
      BY <1>4, <1>r DEF WinControllerStep, CritStep, Observe
    <2>2. stepAt = "switch"
      BY <1>4, <1>t DEF WinControllerStep, CritStep, StepAlone
    <2>p. /\ ~TwoBehind
          /\ OneBehind' => ~OneBehind /\ ~TwoBehind'
          /\ TwoBehind' => OneBehind /\ ~OneBehind'
      BY <1>4, PeriodTurns
    <2>3. SUFFICES ASSUME silent >= 1
                   PROVE  Driven(localDW') => localDW'.temporalCounter_i1 >= Elapsed(silent)'
      BY <2>1, <2>2 DEF Silence
    <2>4. rte.req = "neutral"
      BY <2>2, <2>3 DEF Silence
    <2>5. SUFFICES ASSUME Driven(localDW')
                   PROVE  localDW'.temporalCounter_i1 >= Elapsed(silent)'
      OBVIOUS
    <2>6. /\ Driven(localDW)
          /\ localDW'.temporalCounter_i1 = localDW.temporalCounter_i1 + 1
      BY <2>1, <2>4, <2>5, UnaskedStepsCount DEF ChartInTask
    <2>7. localDW.temporalCounter_i1 >= Elapsed(silent)
      BY <2>3, <2>6 DEF Silence
    <2>8. Elapsed(silent)' <= Elapsed(silent) + 1 /\ Elapsed(silent) \in Nat /\ Elapsed(silent)' \in Nat
      BY <2>1, <2>3, <2>p, <1>n DEF Elapsed
    <2>9. QED BY <2>6, <2>7, <2>8, <1>t
  <1>5. ASSUME NEW low \in SUBSET JoyPins, NEW late \in BOOLEAN, Switch(low, late), Observe
        PROVE  Silence'
    <2>1. /\ stepAt = "switch" /\ stepAt' = "winArbitrator"
          /\ silent' = IF late THEN Count(silent) ELSE 0
          /\ rte'.req_d = RequestOf(JoyStickGetState(IF late THEN TimeoutPins ELSE low))
          /\ UNCHANGED localDW
      BY <1>5, <1>r DEF Switch, StepStep, Observe
    <2>2. SUFFICES ASSUME late PROVE Silence'
      BY <2>1 DEF Silence
    <2>3. rte'.req_d = "neutral"
      BY <2>1, <2>2, TimeoutAsksNothing
    <2>4. TwoBehind /\ ~OneBehind /\ ~OneBehind'
      <3>1. StepTask
        BY <1>5 DEF StepTask
      <3>2. QED BY <2>1, <3>1, PeriodTurns
    <2>5. silent' \in Nat /\ silent' <= silent + 1
      BY <2>1, <2>2, <1>t, CapSuffices
    <2>6. Driven(localDW') => localDW'.temporalCounter_i1 >= Elapsed(silent)'
      <3> SUFFICES ASSUME Driven(localDW')
                   PROVE  localDW'.temporalCounter_i1 >= Elapsed(silent)'
        OBVIOUS
      <3>1. Elapsed(silent)' <= 2 * silent
        BY <2>1, <2>4, <2>5, <1>n DEF Elapsed
      <3>2. localDW.temporalCounter_i1 >= 2 * silent
        BY <2>1, <2>4, <1>t, <1>n DEF Silence, Elapsed
      <3>3. Elapsed(silent)' \in Nat
        BY <2>1, <2>4, <2>5 DEF Elapsed
      <3>4. QED BY <2>1, <3>1, <3>2, <3>3, <1>t, <1>n
    <2>7. QED BY <2>1, <2>3, <2>6 DEF Silence
  <1>6. CASE WinArbitrator /\ Observe
    <2>1. /\ stepAt = "winArbitrator" /\ stepAt' = "readCommand"
          /\ UNCHANGED <<localDW, silent>>
          /\ rte'.req_d = rte.req_d /\ rte'.req = Arbitrated(rte.req_d, "neutral")
      BY <1>6, <1>r DEF WinArbitrator, StepStep, Observe
    <2>2. ~OneBehind /\ ~OneBehind'
      <3>1. StepTask
        BY <1>6 DEF StepTask
      <3>2. QED BY <2>1, <3>1, PeriodTurns
    <2>3. rte.req_d = "neutral" => rte'.req = "neutral"
      BY <2>1 DEF Arbitrated
    <2>4. Elapsed(silent)' = Elapsed(silent)
      BY <2>1, <2>2 DEF Elapsed
    <2>5. QED BY <2>1, <2>3, <2>4 DEF Silence, Driven
  <1>7. CASE (ReadCommand \/ RunMotor_1 \/ RunMotor_2) /\ Observe
    <2>1. /\ stepAt \in {"readCommand", "motor_1", "motor_2"}
          /\ UNCHANGED <<localDW, silent, rte>>
          /\ stepAt' # "winArbitrator"
      BY <1>7 DEF ReadCommand, RunMotor_1, RunMotor_2, StepStep, Observe
    <2>2. ~OneBehind' /\ ~TwoBehind'
      BY <1>7, PeriodTurns
    <2>3. silent >= 1 => Elapsed(silent)' = 2 * (silent - 1) /\ Elapsed(silent) >= 2 * (silent - 1)
      BY <2>1, <2>2, <1>n DEF Elapsed
    <2>4. Elapsed(silent) \in Nat
      BY <1>n DEF Elapsed
    <2>5. QED BY <2>1, <2>3, <2>4, <1>t, <1>n DEF Silence, Driven
  <1>8. ASSUME UNCHANGED <<localDW, rte, silent, critAt, critEvent, stepAt, stepEvent, stepDue>>
        PROVE  Silence'
    BY <1>8 DEF Silence, Driven, Elapsed, OneBehind, TwoBehind, CritReady, StepReady
  <1>9. CASE OsTask_Main /\ Observe
    <2>1. UNCHANGED <<localDW, rte, silent, critAt, critEvent, stepAt, stepEvent, stepDue>>
      BY <1>9 DEF OsTask_Main, IOE_Config, MainMotor_1, MainMotor_2, MainStep, Observe
    <2>2. QED BY <1>8, <2>1
  <1>10. CASE UNCHANGED vars
    <2>1. UNCHANGED <<localDW, rte, silent, critAt, critEvent, stepAt, stepEvent, stepDue>>
      BY <1>10 DEF vars, pwcVars, chartVars, taskVars, observer
    <2>2. QED BY <1>8, <2>1
  <1>11. CASE CriticalTask /\ Observe /\ critAt = "winController"
    <2>1. WinControllerStep
      BY <1>11 DEF CriticalTask, ObstacleDtc, EndStopDtc, CritStep
    <2>2. QED BY <1>4, <1>11, <2>1
  <1>12. QED
    BY <1>2, <1>3, <1>5, <1>6, <1>7, <1>9, <1>10, <1>11 DEF ObservedNext, PwcNext, StepTask

\* When rounds end before the next tick and the stack slot survives, an I/O expander
\* that stops answering stops the motor in the time of one movement and two rounds,
\* whatever MoveTicks is (stm3210c_eval_ioe.c:102, Switch.c, WinController.c:302).
THEOREM DeadExpanderStops ==
    ASSUME Overrun = {}, SlotKept PROVE ObservedSpec => []DeadExpanderStopsMotor
  <1> DEFINE Inv == ChartInTask /\ Silence
  <1>1. PwcInit /\ ObserverInit => Inv
    <2> SUFFICES ASSUME PwcInit, ObserverInit PROVE Inv
      OBVIOUS
    <2>1. ChartInTask
      BY StartsInTask
    <2>2. Silence
      BY DEF ObserverInit, Silence
    <2>3. QED BY <2>1, <2>2
  <1>2. RoundInv /\ RoundInv' /\ Inv /\ [ObservedNext]_vars => Inv'
    <2> SUFFICES ASSUME RoundInv, RoundInv', Inv, [ObservedNext]_vars PROVE Inv'
      OBVIOUS
    <2>1. [PwcNext]_pwcVars
      BY DEF ObservedNext, vars
    <2>2. PwcTypeOK /\ PwcTypeOK'
      BY DEF RoundInv, HandOverInv
    <2>3. ChartInTask'
      BY <2>1, <2>2, StepKeepsChart
    <2>4. Silence'
      BY StepKeepsSilence
    <2>5. QED BY <2>3, <2>4
  <1>3. RoundInv /\ Inv => DeadExpanderStopsMotor
    <2> SUFFICES ASSUME RoundInv, Inv, Idle, silent >= MoveTicks \div 2 + 2,
                        localDW.is_winStates # "retracting"
                 PROVE  rte.cmd = "neutral"
      BY DEF DeadExpanderStopsMotor
    <2>1. /\ silent \in Nat /\ MoveTicks \in Nat
          /\ localDW.temporalCounter_i1 \in Nat
      BY CapSuffices, TimerAssumption
      DEF RoundInv, HandOverInv, ObserverTypeOK, ChartInTask, ChartInv, TypeOK, DW
    <2>2. silent >= 2 /\ 2 * (silent - 1) >= MoveTicks
      <3>1. MoveTicks \div 2 \in Nat /\ 2 * (MoveTicks \div 2) >= MoveTicks - 1
        BY <2>1
      <3>2. QED BY <2>1, <3>1
    <2>3. Elapsed(silent) >= 2 * (silent - 1)
      BY <2>1, <2>2 DEF Elapsed
    <2>4. Elapsed(silent) \in Nat
      BY <2>1 DEF Elapsed
    <2>5. ~Driven(localDW)
      <3> SUFFICES ASSUME Driven(localDW) PROVE FALSE
        OBVIOUS
      <3>1. localDW.temporalCounter_i1 >= Elapsed(silent)
        BY <2>2, <2>1 DEF Silence
      <3>2. localDW.temporalCounter_i1 < MoveTicks
        BY DEF ChartInTask, ChartInv, TimerBoundsMotion, Driven
      <3>3. QED BY <2>1, <2>2, <2>3, <2>4, <3>1, <3>2
    <2>6. rte.cmd = CommandOf(localDW)
      BY DEF ChartInTask, ChartInv, CommandFollowsState
    <2>7. QED BY <2>5, <2>6 DEF Driven, CommandOf
  <1>4. QED
    BY <1>1, <1>2, <1>3, RoundsInvariant, PTL DEF ObservedSpec
=============================================================================
