--------------------------- MODULE PwcObjectives ---------------------------
(***************************************************************************)
(* End-to-end objectives: from the end stop's pin and the driver's button  *)
(* to the motor, across the two tasks.  An observer beside PwcSystem counts *)
(* rounds of the tasks; it never guards a step.                            *)
(***************************************************************************)
EXTENDS PwcSystem

VARIABLES
    endRun,   \* rounds in a row that sampled the end stop
    cmdRun,   \* rounds in a row that handed over the same command
    silent,   \* rounds in a row whose read of the buttons timed out
    drives    \* the last two commands MotorDriver worked on

observer == <<endRun, cmdRun, silent, drives>>
vars == <<pwcVars, observer>>

\* Bound of the observer's counters: one above the most any objective asks for.
ObserverCap == MoveTicks \div 2 + 3
Count(n) == IF n < ObserverCap THEN n + 1 ELSE n

ObserverInit ==
    /\ endRun = 0 /\ cmdRun = 0 /\ silent = 0
    /\ drives = <<"neutral", "neutral">>

Observe ==
    /\ IF critAt = "winController" /\ critAt' # critAt
       THEN /\ endRun' = IF rte.endStop THEN Count(endRun) ELSE 0
            /\ cmdRun' = IF rte'.cmd = rte.cmd THEN Count(cmdRun) ELSE 1
       ELSE UNCHANGED <<endRun, cmdRun>>
    /\ silent' = IF stepAt = "switch" /\ stepAt' # stepAt
                 THEN IF timedOut' THEN Count(silent) ELSE 0
                 ELSE silent
    /\ drives' = IF stepAt = "readCommand" /\ stepAt' # stepAt
                 THEN <<drives[2], rte.cmd>> ELSE drives

ObservedNext == PwcNext /\ Observe
ObservedSpec == PwcInit /\ ObserverInit /\ [][ObservedNext]_vars

ObserverTypeOK ==
    /\ {endRun, cmdRun, silent} \subseteq 0..ObserverCap
    /\ drives \in anyCommand \X anyCommand

\* No task is in the middle of a round.
Idle == ~CritReady /\ ~StepReady

MotorPins == <<dio["LED_1"], dio["LED_2"]>>

-----------------------------------------------------------------------------

\* A command that stood for two rounds of CriticalTask is the one the motor
\* driver has applied: the slower StepTask lags by one round, never by more.
CommandReachesMotor == Idle /\ cmdRun >= 2 => drive = rte.cmd

\* Motor Safety end to end: with the end stop pressed for three rounds
\* running, two runs of MotorDriver in a row never push the same way.
EndStopHaltsMotor ==
    Idle /\ endRun >= 3 /\ drives[1] = drives[2] => drive = "neutral"

\* An I/O expander that has gone silent is a driver who lets go: when as many
\* rounds of StepTask went unanswered as a movement may last, and two more, the
\* command handed over is to stop, unless the window is left retracting.
DeadExpanderStopsMotor ==
    Idle /\ silent >= MoveTicks \div 2 + 2 =>
        rte.cmd = "neutral" \/ localDW.is_winStates = "retracting"

\* Motor Safety (verification.mdl:2558) at the pins: once the end stop has been
\* sampled in four rounds and the driver has twice switched the motor off, the
\* motor's channels are LOW.
MotorPinsOff ==
    Idle /\ endRun >= 4 /\ drives = <<"neutral", "neutral">> =>
        MotorPins = <<"LOW", "LOW">>
=============================================================================
