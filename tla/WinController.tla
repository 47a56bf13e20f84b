--------------------------- MODULE WinController ---------------------------
(***************************************************************************)
(* The power window controller chart: WinControllerRunnable and the code   *)
(* generated for the chart power_window_controller, in                     *)
(* src/AUTOSAR/pwc/src/WinController.c.                                     *)
(*                                                                         *)
(* The runnable is called once per period of CriticalTask.  Each call      *)
(* samples a driver request, the end stop and the obstacle detector,       *)
(* advances the chart by one step and hands a motor command to the RTE.    *)
(* One action below is one kind of step; the order in which the code tests *)
(* the conditions appears as negated guards.                               *)
(*                                                                         *)
(* The chart writes *rty_cmd only when it takes a transition that enters a *)
(* state.  The runnable passes the address of a local that nothing         *)
(* initialises (WinController.c:35 and 51-55), so on every other step the  *)
(* command handed to the RTE is whatever the stack slot holds.  SlotKept   *)
(* says whether this build's slot still holds the previous command.        *)
(***************************************************************************)
EXTENDS Integers, TLC

CONSTANTS
    MoveTicks,  \* the chart leaves a movement after this many steps (200)
    CounterMax, \* temporalCounter_i1 saturates at this value (255)
    SlotKept    \* TRUE: the stack slot of `command` survives between calls

ASSUME TimerAssumption ==
    /\ MoveTicks \in Nat \ {0}
    /\ CounterMax \in Nat
    /\ MoveTicks <= CounterMax

ASSUME SlotAssumption == SlotKept \in BOOLEAN

VARIABLES
    localDW,    \* the chart's DW record (PWC_DW.WinController_DWORK1.rtdw)
    command,    \* the value the last step handed to Rte_IWrite
    dio         \* the four LED channels the chart drives

chartVars == <<localDW, command, dio>>

requestType == {"neutral", "basic_down", "basic_up", "express_down", "express_up"}
commandType == {"neutral", "down", "up"}

\* A byte that is none of the three members of commandType.
Garbage == "garbage"

LED == {"LED_1", "LED_2", "LED_3", "LED_4"}
Level == {"LOW", "HIGH"}

DW == [is_active          : BOOLEAN,
       is_winStates       : {"none", "Stopped", "coolDown", "movingDown",
                             "movingUp", "retracting"},
       is_Stopped         : {"none", "fullyClosed", "fullyOpen",
                             "partiallyOpen", "unknownPos"},
       is_movingDown      : {"none", "Bsc", "X"},
       is_movingUp        : {"none", "Bsc", "X"},
       is_movingUpX       : {"none", "mux_pp", "mux_ppo"},
       temporalCounter_i1 : 0..CounterMax]

TypeOK ==
    /\ localDW \in DW
    /\ command \in commandType \cup {Garbage}
    /\ dio \in [LED -> Level]

-----------------------------------------------------------------------------
(* What the chart leaves in localDW. *)

\* Operators named ...Faulty are the code with one plausible slip in it.  No
\* specification uses them: each stands in for the definition it resembles to
\* show that a property notices the slip.
TickedFaulty == [localDW EXCEPT !.temporalCounter_i1 = @ + 1]

\* The saturating increment every step starts with.
Ticked ==
    [localDW EXCEPT !.temporalCounter_i1 = IF @ < CounterMax THEN @ + 1 ELSE @]

ExpiredFaulty(d)      == d.temporalCounter_i1 > MoveTicks
ExpiredNeverFaulty(d) == FALSE
Expired(d) == d.temporalCounter_i1 >= MoveTicks

EnterStopped(d, position) ==
    [d EXCEPT !.is_winStates = "Stopped", !.is_Stopped = position]

EnterCoolDown(d) == [d EXCEPT !.is_winStates = "coolDown"]

EnterRetracting(d) == [d EXCEPT !.is_winStates = "retracting"]

EnterMovingDownFaulty(d, sub) ==
    [d EXCEPT !.is_winStates = "movingDown", !.is_movingDown = sub]

EnterMovingDown(d, sub) ==
    [d EXCEPT !.is_winStates = "movingDown", !.is_movingDown = sub,
              !.temporalCounter_i1 = 0]

EnterMovingUp(d, sub) ==
    [d EXCEPT !.is_winStates = "movingUp", !.is_movingUp = sub,
              !.is_movingUpX = IF sub = "X" THEN "mux_ppo" ELSE @,
              !.temporalCounter_i1 = 0]

LeaveStopped(d)    == [d EXCEPT !.is_Stopped = "none"]
LeaveMovingDown(d) == [d EXCEPT !.is_movingDown = "none"]
LeaveMovingUpFaulty(d) == [d EXCEPT !.is_movingUp = "none"]
LeaveMovingUp(d)   == [d EXCEPT !.is_movingUp = "none", !.is_movingUpX = "none"]

\* The movement a request asks for, and the command its entry action writes.
EnterMotion(d, req) ==
    CASE req = "basic_down"   -> EnterMovingDown(d, "Bsc")
      [] req = "express_down" -> EnterMovingDown(d, "X")
      [] req = "basic_up"     -> EnterMovingUp(d, "Bsc")
      [] req = "express_up"   -> EnterMovingUp(d, "X")

DownRequests == {"basic_down", "express_down"}
UpRequests   == {"basic_up", "express_up"}

MotionCommandFaulty(req) == IF req = "basic_down" THEN "down" ELSE "up"
MotionCommand(req) == IF req \in DownRequests THEN "down" ELSE "up"

HeededFaulty(position) ==
    IF position = "unknownPos" THEN {} ELSE DownRequests \cup UpRequests

\* The requests that start a movement from a known position.
Heeded(position) ==
    CASE position = "fullyClosed"   -> DownRequests
      [] position = "fullyOpen"     -> UpRequests
      [] position = "partiallyOpen" -> DownRequests \cup UpRequests
      [] OTHER                      -> {}

-----------------------------------------------------------------------------
(* The LED channels.  A state lights LED_3 and LED_4 whatever it does next; *)
(* the movements light LED_1 and LED_2 only when no transition left them.   *)

Light12(a, b) == [dio EXCEPT !["LED_1"] = a, !["LED_2"] = b]
Light34(f, c, d) == [f EXCEPT !["LED_3"] = c, !["LED_4"] = d]

StoppedLights ==
    Light34(CASE localDW.is_Stopped = "fullyClosed"   -> Light12("HIGH", "HIGH")
              [] localDW.is_Stopped = "fullyOpen"     -> Light12("LOW", "LOW")
              [] localDW.is_Stopped = "partiallyOpen" -> Light12("HIGH", "LOW")
              [] OTHER                                -> dio,
            "LOW", "LOW")

CoolDownLights   == Light34(Light12("HIGH", "LOW"), "HIGH", "HIGH")
RetractingLights == Light34(Light12("LOW", "LOW"), "HIGH", "HIGH")

DownLights(f) == Light34(f, "HIGH", "LOW")
UpLights(f)   == Light34(f, "LOW", "HIGH")

DownSubLights ==
    IF localDW.is_movingDown = "Bsc" THEN Light12("HIGH", "LOW")
                                     ELSE Light12("LOW", "HIGH")
UpSubLights ==
    CASE localDW.is_movingUp = "Bsc"     -> Light12("LOW", "LOW")
      [] /\ localDW.is_movingUp # "Bsc"
         /\ localDW.is_movingUpX = "mux_pp" -> Light12("HIGH", "HIGH")
      [] OTHER                           -> Light12("LOW", "HIGH")

-----------------------------------------------------------------------------
(* The command of a step: written by an entry action, or left over. *)

Write(c) == command' = c

LeftOver == command' \in IF SlotKept THEN {command}
                                     ELSE commandType \cup {Garbage}

-----------------------------------------------------------------------------
(* The steps.                                                              *)

Init ==
    /\ localDW = [is_active |-> FALSE, is_winStates |-> "none",
                  is_Stopped |-> "none", is_movingDown |-> "none",
                  is_movingUp |-> "none", is_movingUpX |-> "none",
                  temporalCounter_i1 |-> 0]
    /\ command = "neutral"
    /\ dio \in [LED -> Level]

\* The first call enters the chart: Stopped, position unknown.
Activate ==
    /\ ~localDW.is_active
    /\ localDW' = EnterStopped([Ticked EXCEPT !.is_active = TRUE], "unknownPos")
    /\ Write("neutral")
    /\ UNCHANGED dio

During(state) == localDW.is_active /\ localDW.is_winStates = state

\* Cooling down ends whatever the request.
CooledDownFaulty(req) ==
    /\ During("coolDown")
    /\ localDW' = EnterStopped(Ticked, "unknownPos")
    /\ Write("neutral")
    /\ dio' = CoolDownLights

\* The end of a downward movement writes no command.
DownEndStopFaulty(endStop) ==
    /\ During("movingDown")
    /\ endStop
    /\ localDW' = EnterStopped(LeaveMovingDown(Ticked), "fullyOpen")
    /\ LeftOver
    /\ dio' = DownLights(dio)

\* The end of a retraction writes no command.
RetractedFaulty(endStop) ==
    /\ During("retracting")
    /\ endStop
    /\ localDW' = EnterStopped(Ticked, "fullyOpen")
    /\ LeftOver
    /\ dio' = RetractingLights

\* Stopped, at a position from which the request is heeded.
StartMotion(req) ==
    /\ During("Stopped")
    /\ req \in Heeded(localDW.is_Stopped)
    /\ localDW' = EnterMotion(LeaveStopped(Ticked), req)
    /\ Write(MotionCommand(req))
    /\ dio' = StoppedLights

\* Stopped otherwise; an unknown position is taken for a partial one.
StayStopped(req) ==
    /\ During("Stopped")
    /\ req \notin Heeded(localDW.is_Stopped)
    /\ localDW' = IF localDW.is_Stopped \in {"fullyClosed", "fullyOpen", "partiallyOpen"}
                  THEN Ticked
                  ELSE EnterStopped(Ticked, "partiallyOpen")
    /\ LeftOver
    /\ dio' = StoppedLights

\* Cooling down lasts until the request is neutral.
CooledDown(req) ==
    /\ During("coolDown")
    /\ req = "neutral"
    /\ localDW' = EnterStopped(Ticked, "unknownPos")
    /\ Write("neutral")
    /\ dio' = CoolDownLights

StayCoolDown(req) ==
    /\ During("coolDown")
    /\ req # "neutral"
    /\ localDW' = Ticked
    /\ LeftOver
    /\ dio' = CoolDownLights

\* movingDown: the end stop, then express up, then the timer, then basic up.
DownEndStop(endStop) ==
    /\ During("movingDown")
    /\ endStop
    /\ localDW' = EnterStopped(LeaveMovingDown(Ticked), "fullyOpen")
    /\ Write("neutral")
    /\ dio' = DownLights(dio)

DownReversed(req, endStop) ==
    /\ During("movingDown")
    /\ ~endStop
    /\ \/ req = "express_up"
       \/ req = "basic_up" /\ ~Expired(Ticked)
    /\ localDW' = EnterMotion(LeaveMovingDown(Ticked), req)
    /\ Write("up")
    /\ dio' = DownLights(dio)

DownExpired(req, endStop) ==
    /\ During("movingDown")
    /\ ~endStop /\ req # "express_up"
    /\ Expired(Ticked)
    /\ localDW' = EnterCoolDown(LeaveMovingDown(Ticked))
    /\ Write("neutral")
    /\ dio' = DownLights(dio)

\* The conditions under which the movement's own substate gets its turn.
DownContinues(req, endStop) ==
    During("movingDown") /\ ~endStop /\ req \notin UpRequests /\ ~Expired(Ticked)

\* Releasing the button writes no command.
DownReleasedFaulty(req, endStop) ==
    /\ DownContinues(req, endStop)
    /\ localDW.is_movingDown = "Bsc"
    /\ req = "neutral"
    /\ localDW' = EnterStopped(LeaveMovingDown(Ticked), "partiallyOpen")
    /\ LeftOver
    /\ dio' = DownLights(DownSubLights)

DownReleased(req, endStop) ==
    /\ DownContinues(req, endStop)
    /\ localDW.is_movingDown = "Bsc"
    /\ req = "neutral"
    /\ localDW' = EnterStopped(LeaveMovingDown(Ticked), "partiallyOpen")
    /\ Write("neutral")
    /\ dio' = DownLights(DownSubLights)

DownStep(req, endStop) ==
    /\ DownContinues(req, endStop)
    /\ ~(localDW.is_movingDown = "Bsc" /\ req = "neutral")
    /\ localDW' = IF localDW.is_movingDown = "Bsc" /\ req = "express_down"
                  THEN [Ticked EXCEPT !.is_movingDown = "X"]
                  ELSE Ticked
    /\ LeftOver
    /\ dio' = DownLights(DownSubLights)

\* movingUp: the end stop, then the timer, then a down request.
UpEndStop(endStop) ==
    /\ During("movingUp")
    /\ endStop
    /\ localDW' = EnterStopped(LeaveMovingUp(Ticked), "fullyClosed")
    /\ Write("neutral")
    /\ dio' = UpLights(dio)

UpExpired(endStop) ==
    /\ During("movingUp")
    /\ ~endStop
    /\ Expired(Ticked)
    /\ localDW' = EnterCoolDown(LeaveMovingUp(Ticked))
    /\ Write("neutral")
    /\ dio' = UpLights(dio)

UpReversed(req, endStop) ==
    /\ During("movingUp")
    /\ ~endStop /\ ~Expired(Ticked)
    /\ req \in DownRequests
    /\ localDW' = EnterMotion(LeaveMovingUp(Ticked), req)
    /\ Write("down")
    /\ dio' = UpLights(dio)

UpContinues(req, endStop) ==
    During("movingUp") /\ ~endStop /\ ~Expired(Ticked) /\ req \notin DownRequests

\* Turning a basic movement into an express one restarts the timer.
UpBscStepFaulty(req, endStop) ==
    /\ UpContinues(req, endStop)
    /\ localDW.is_movingUp = "Bsc"
    /\ req # "neutral"
    /\ localDW' = IF req = "express_up" THEN EnterMovingUp(Ticked, "X") ELSE Ticked
    /\ LeftOver
    /\ dio' = UpLights(UpSubLights)

\* An obstacle reverses the window although the button is held.
UpRetractFaulty(req, endStop, obstacle) ==
    /\ UpContinues(req, endStop)
    /\ localDW.is_movingUp # "Bsc"
    /\ obstacle
    /\ localDW' = EnterRetracting(LeaveMovingUp(Ticked))
    /\ Write("down")
    /\ dio' = UpLights(UpSubLights)

\* The pinch protection is armed by holding the button, not by releasing it.
UpXStepFaulty(req, endStop, obstacle) ==
    /\ UpContinues(req, endStop)
    /\ localDW.is_movingUp # "Bsc"
    /\ ~(localDW.is_movingUpX = "mux_pp" /\ obstacle)
    /\ localDW' = IF localDW.is_movingUpX # "mux_pp" /\ req = "express_up"
                  THEN [Ticked EXCEPT !.is_movingUpX = "mux_pp"]
                  ELSE Ticked
    /\ LeftOver
    /\ dio' = UpLights(UpSubLights)

UpReleased(req, endStop) ==
    /\ UpContinues(req, endStop)
    /\ localDW.is_movingUp = "Bsc"
    /\ req = "neutral"
    /\ localDW' = EnterStopped([Ticked EXCEPT !.is_movingUp = "none"], "partiallyOpen")
    /\ Write("neutral")
    /\ dio' = UpLights(UpSubLights)

UpBscStep(req, endStop) ==
    /\ UpContinues(req, endStop)
    /\ localDW.is_movingUp = "Bsc"
    /\ req # "neutral"
    /\ localDW' = IF req = "express_up"
                  THEN [Ticked EXCEPT !.is_movingUp = "X", !.is_movingUpX = "mux_ppo"]
                  ELSE Ticked
    /\ LeftOver
    /\ dio' = UpLights(UpSubLights)

\* Express up with the pinch protection armed: an obstacle makes it retract.
UpRetract(req, endStop, obstacle) ==
    /\ UpContinues(req, endStop)
    /\ localDW.is_movingUp # "Bsc" /\ localDW.is_movingUpX = "mux_pp"
    /\ obstacle
    /\ localDW' = EnterRetracting(LeaveMovingUp(Ticked))
    /\ Write("down")
    /\ dio' = UpLights(UpSubLights)

UpXStep(req, endStop, obstacle) ==
    /\ UpContinues(req, endStop)
    /\ localDW.is_movingUp # "Bsc"
    /\ ~(localDW.is_movingUpX = "mux_pp" /\ obstacle)
    /\ localDW' = IF localDW.is_movingUpX # "mux_pp" /\ req # "express_up"
                  THEN [Ticked EXCEPT !.is_movingUpX = "mux_pp"]
                  ELSE Ticked
    /\ LeftOver
    /\ dio' = UpLights(UpSubLights)

\* Retracting heeds nothing but the end stop.
Retracted(endStop) ==
    /\ During("retracting")
    /\ endStop
    /\ localDW' = EnterStopped(Ticked, "fullyOpen")
    /\ Write("neutral")
    /\ dio' = RetractingLights

StayRetracting(endStop) ==
    /\ During("retracting")
    /\ ~endStop
    /\ localDW' = Ticked
    /\ LeftOver
    /\ dio' = RetractingLights

\* One call of WinControllerRunnable on the sampled inputs.
WinControllerRunnable(req, endStop, obstacle) ==
    \/ Activate
    \/ StartMotion(req)
    \/ StayStopped(req)
    \/ CooledDown(req)
    \/ StayCoolDown(req)
    \/ DownEndStop(endStop)
    \/ DownReversed(req, endStop)
    \/ DownExpired(req, endStop)
    \/ DownReleased(req, endStop)
    \/ DownStep(req, endStop)
    \/ UpEndStop(endStop)
    \/ UpExpired(endStop)
    \/ UpReversed(req, endStop)
    \/ UpReleased(req, endStop)
    \/ UpBscStep(req, endStop)
    \/ UpRetract(req, endStop, obstacle)
    \/ UpXStep(req, endStop, obstacle)
    \/ Retracted(endStop)
    \/ StayRetracting(endStop)

Next == \E req \in requestType, endStop, obstacle \in BOOLEAN :
            WinControllerRunnable(req, endStop, obstacle)

Spec == Init /\ [][Next]_chartVars

\* CriticalTask runs the runnable at every expiry of its alarm.
FairSpec == Spec /\ WF_chartVars(Next)

-----------------------------------------------------------------------------
(* Properties.                                                             *)

\* Exactly the substate of the active state is set: no transition out of a
\* movement or of Stopped leaves a stale substate behind for a later entry
\* to resume.
SubstatesMatch ==
    /\ localDW.is_active      <=> localDW.is_winStates # "none"
    /\ localDW.is_Stopped    # "none" <=> localDW.is_winStates = "Stopped"
    /\ localDW.is_movingDown # "none" <=> localDW.is_winStates = "movingDown"
    /\ localDW.is_movingUp   # "none" <=> localDW.is_winStates = "movingUp"
    /\ localDW.is_movingUpX  # "none" <=> localDW.is_movingUp = "X"

\* A movement never outlives its timer: temporalCounter_i1, restarted by every
\* entry to a movement, stays below MoveTicks while the window moves.
TimerBoundsMotion ==
    localDW.is_winStates \in {"movingDown", "movingUp"} =>
        localDW.temporalCounter_i1 < MoveTicks

\* The command that belongs to a state of the chart.
CommandOf(d) ==
    CASE d.is_winStates \in {"movingDown", "retracting"} -> "down"
      [] d.is_winStates = "movingUp"                     -> "up"
      [] OTHER                                           -> "neutral"

\* Where the stack slot survives, the command handed to the RTE is that of the
\* chart's state in every step: each transition writes what it must.
CommandFollowsState == SlotKept => command = CommandOf(localDW)

\* Whatever the slot holds, the step that changes the state hands over the
\* command of the new state.
EntryWritesCommand ==
    [][localDW'.is_winStates # localDW.is_winStates
         => command' = CommandOf(localDW')]_chartVars

ChartInv == TypeOK /\ SubstatesMatch /\ TimerBoundsMotion /\ CommandFollowsState

\* The chart implements WindowMotion.
Motion ==
    CASE localDW.is_winStates = "movingUp"   -> "up"
      [] localDW.is_winStates = "movingDown" -> "down"
      [] localDW.is_winStates = "retracting" -> "retract"
      [] localDW.is_winStates = "coolDown"   -> "cool"
      [] OTHER                               -> "still"

Age == IF localDW.is_winStates \in {"movingDown", "movingUp"}
       THEN localDW.temporalCounter_i1 ELSE 0

WM == INSTANCE WindowMotion WITH motion <- Motion, age <- Age

ImplementsWindowMotion == WM!Spec
ImplementsFairWindowMotion == WM!FairSpec
=============================================================================
