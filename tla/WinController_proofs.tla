------------------------ MODULE WinController_proofs ------------------------
(* Proofs about the chart, for every MoveTicks, CounterMax and SlotKept.    *)
EXTENDS WinController, TLAPS

\* The step's increment keeps the record a DW record and touches only the
\* counter, which it advances by one below the saturation value
\* (WinController.c:64-66).
LEMMA TickedType ==
    ASSUME localDW \in DW
    PROVE  /\ Ticked \in DW
           /\ Ticked.is_active = localDW.is_active
           /\ Ticked.is_winStates = localDW.is_winStates
           /\ Ticked.is_Stopped = localDW.is_Stopped
           /\ Ticked.is_movingDown = localDW.is_movingDown
           /\ Ticked.is_movingUp = localDW.is_movingUp
           /\ Ticked.is_movingUpX = localDW.is_movingUpX
           /\ localDW.temporalCounter_i1 < CounterMax =>
                Ticked.temporalCounter_i1 = localDW.temporalCounter_i1 + 1
  BY TimerAssumption DEF Ticked, DW

\* The entry actions of the states stay within the DW record and give it the
\* state entered (WinController.c:118-140 and its like).
LEMMA EnterType ==
    ASSUME NEW d \in DW
    PROVE  /\ LeaveStopped(d) \in DW
           /\ LeaveMovingDown(d) \in DW
           /\ LeaveMovingUp(d) \in DW
           /\ EnterCoolDown(d) \in DW
           /\ EnterRetracting(d) \in DW
           /\ \A p \in {"fullyClosed", "fullyOpen", "partiallyOpen", "unknownPos"} :
                EnterStopped(d, p) \in DW
           /\ \A req \in DownRequests \cup UpRequests : EnterMotion(d, req) \in DW
  <1>1. \A sub \in {"Bsc", "X"} : EnterMovingDown(d, sub) \in DW /\ EnterMovingUp(d, sub) \in DW
    <2> SUFFICES ASSUME NEW sub \in {"Bsc", "X"}
                 PROVE  EnterMovingDown(d, sub) \in DW /\ EnterMovingUp(d, sub) \in DW
      OBVIOUS
    <2> DEFINE started == [d EXCEPT !.is_winStates = "movingDown"]
               down    == [started EXCEPT !.is_movingDown = sub]
               raised  == [d EXCEPT !.is_winStates = "movingUp"]
               up      == [raised EXCEPT !.is_movingUp = sub]
               upX     == [up EXCEPT !.is_movingUpX =
                                       IF sub = "X" THEN "mux_ppo" ELSE @]
    <2>1. started \in DW /\ raised \in DW
      BY DEF DW
    <2>2. down \in DW
      <3> HIDE DEF started
      <3> QED BY <2>1 DEF DW
    <2>3. up \in DW
      <3> HIDE DEF raised
      <3> QED BY <2>1 DEF DW
    <2>4. upX \in DW
      <3> HIDE DEF up
      <3> QED BY <2>3 DEF DW
    <2>5. \A e \in DW : [e EXCEPT !.temporalCounter_i1 = 0] \in DW
      BY TimerAssumption DEF DW
    <2>6. [down EXCEPT !.temporalCounter_i1 = 0] \in DW
      <3> HIDE DEF down
      <3> QED BY <2>2, <2>5
    <2>7. [upX EXCEPT !.temporalCounter_i1 = 0] \in DW
      <3> HIDE DEF upX
      <3> QED BY <2>4, <2>5
    <2>8. EnterMovingDown(d, sub) = [down EXCEPT !.temporalCounter_i1 = 0]
      BY DEF EnterMovingDown
    <2>9. EnterMovingUp(d, sub) = [upX EXCEPT !.temporalCounter_i1 = 0]
      BY DEF EnterMovingUp, DW
    <2>10. QED BY <2>6, <2>7, <2>8, <2>9
  <1>2. \A req \in DownRequests \cup UpRequests : EnterMotion(d, req) \in DW
    BY <1>1 DEF EnterMotion, DownRequests, UpRequests
  <1>3. LeaveStopped(d) \in DW /\ LeaveMovingDown(d) \in DW
    BY DEF LeaveStopped, LeaveMovingDown, DW
  <1>4. LeaveMovingUp(d) \in DW
    BY DEF LeaveMovingUp, DW
  <1>5. EnterCoolDown(d) \in DW /\ EnterRetracting(d) \in DW
    BY DEF EnterCoolDown, EnterRetracting, DW
  <1>6. \A p \in {"fullyClosed", "fullyOpen", "partiallyOpen", "unknownPos"} :
           EnterStopped(d, p) \in DW
    BY DEF EnterStopped, DW
  <1>7. QED BY <1>1, <1>2, <1>3, <1>4, <1>5, <1>6

\* Every pattern the chart shows is an assignment of levels to the channels.
LEMMA LightsType ==
    ASSUME dio \in [LED -> Level]
    PROVE  /\ StoppedLights \in [LED -> Level]
           /\ CoolDownLights \in [LED -> Level]
           /\ RetractingLights \in [LED -> Level]
           /\ DownLights(dio) \in [LED -> Level]
           /\ DownLights(DownSubLights) \in [LED -> Level]
           /\ UpLights(dio) \in [LED -> Level]
           /\ UpLights(UpSubLights) \in [LED -> Level]
  <1>1. \A a, b \in Level : Light12(a, b) \in [LED -> Level]
    BY DEF Light12, Level
  <1>2. \A f \in [LED -> Level] : \A c, d \in Level : Light34(f, c, d) \in [LED -> Level]
    BY DEF Light34, Level
  <1>3. "LOW" \in Level /\ "HIGH" \in Level
    BY DEF Level
  <1>4. /\ DownSubLights \in [LED -> Level]
        /\ UpSubLights \in [LED -> Level]
    BY <1>1, <1>3 DEF DownSubLights, UpSubLights
  <1>5. StoppedLights \in [LED -> Level]
    BY <1>1, <1>2, <1>3 DEF StoppedLights
  <1>6. QED
    BY <1>1, <1>2, <1>3, <1>4, <1>5 DEF CoolDownLights, RetractingLights, DownLights, UpLights

\* Every step of WinControllerRunnable leaves a DW record, a command byte and
\* levels on the channels.
LEMMA StepKeepsTypeOK ==
    ASSUME TypeOK,
           NEW req \in requestType, NEW endStop \in BOOLEAN, NEW obstacle \in BOOLEAN,
           WinControllerRunnable(req, endStop, obstacle)
    PROVE  TypeOK'
  <1> USE TickedType, EnterType, LightsType DEF TypeOK
  <1>c. /\ \A c \in commandType : Write(c) => command' \in commandType
        /\ LeftOver => command' \in commandType \cup {Garbage}
    BY DEF Write, LeftOver
  <1>k. "neutral" \in commandType /\ "up" \in commandType /\ "down" \in commandType
    BY DEF commandType
  <1>1. CASE Activate
    <2>1. PICK d \in DW : d = Ticked
      OBVIOUS
    <2>2. [d EXCEPT !.is_active = TRUE] \in DW
      BY ONLY d \in DW DEF DW
    <2>3. [Ticked EXCEPT !.is_active = TRUE] \in DW
      BY ONLY <2>1, <2>2
    <2>4. QED BY <1>1, <2>3, <1>c, <1>k DEF Activate
  <1>2. CASE StartMotion(req)
    <2>1. Heeded(localDW.is_Stopped) \subseteq DownRequests \cup UpRequests
      BY DEF Heeded
    <2>2. MotionCommand(req) \in commandType
      BY <1>k DEF MotionCommand
    <2>3. QED BY <1>2, <2>1, <2>2, <1>c DEF StartMotion
  <1>3. CASE StayStopped(req)
    BY <1>3, <1>c DEF StayStopped
  <1>4. CASE CooledDown(req)
    BY <1>4, <1>c, <1>k DEF CooledDown
  <1>5. CASE StayCoolDown(req)
    BY <1>5, <1>c DEF StayCoolDown
  <1>6. CASE DownEndStop(endStop)
    BY <1>6, <1>c, <1>k DEF DownEndStop
  <1>7. CASE DownReversed(req, endStop)
    BY <1>7, <1>c, <1>k DEF DownReversed, UpRequests
  <1>8. CASE DownExpired(req, endStop)
    BY <1>8, <1>c, <1>k DEF DownExpired
  <1>9. CASE DownReleased(req, endStop)
    BY <1>9, <1>c, <1>k DEF DownReleased
  <1>10. CASE DownStep(req, endStop)
    <2>1. [Ticked EXCEPT !.is_movingDown = "X"] \in DW
      BY DEF DW
    <2>2. QED BY <1>10, <2>1, <1>c DEF DownStep
  <1>11. CASE UpEndStop(endStop)
    BY <1>11, <1>c, <1>k DEF UpEndStop
  <1>12. CASE UpExpired(endStop)
    BY <1>12, <1>c, <1>k DEF UpExpired
  <1>13. CASE UpReversed(req, endStop)
    BY <1>13, <1>c, <1>k DEF UpReversed
  <1>14. CASE UpReleased(req, endStop)
    <2>1. [Ticked EXCEPT !.is_movingUp = "none"] \in DW
      BY DEF DW
    <2>2. QED BY <1>14, <2>1, <1>c, <1>k DEF UpReleased
  <1>15. CASE UpBscStep(req, endStop)
    <2> DEFINE express == [Ticked EXCEPT !.is_movingUp = "X"]
    <2>1. express \in DW
      BY DEF DW
    <2>2. [express EXCEPT !.is_movingUpX = "mux_ppo"] \in DW
      <3> HIDE DEF express
      <3> QED BY <2>1 DEF DW
    <2>3. [Ticked EXCEPT !.is_movingUp = "X", !.is_movingUpX = "mux_ppo"]
            = [express EXCEPT !.is_movingUpX = "mux_ppo"]
      OBVIOUS
    <2>4. QED BY <1>15, <2>2, <2>3, <1>c DEF UpBscStep
  <1>16. CASE UpRetract(req, endStop, obstacle)
    BY <1>16, <1>c, <1>k DEF UpRetract
  <1>17. CASE UpXStep(req, endStop, obstacle)
    <2>1. [Ticked EXCEPT !.is_movingUpX = "mux_pp"] \in DW
      BY DEF DW
    <2>2. QED BY <1>17, <2>1, <1>c DEF UpXStep
  <1>18. CASE Retracted(endStop)
    BY <1>18, <1>c, <1>k DEF Retracted
  <1>19. CASE StayRetracting(endStop)
    BY <1>19, <1>c DEF StayRetracting
  <1>20. QED
    BY <1>1, <1>2, <1>3, <1>4, <1>5, <1>6, <1>7, <1>8, <1>9, <1>10,
       <1>11, <1>12, <1>13, <1>14, <1>15, <1>16, <1>17, <1>18, <1>19
    DEF WinControllerRunnable

\* Type correctness of the chart, for every timer and either stack slot.
THEOREM TypeCorrect == Spec => []TypeOK
  <1>1. Init => TypeOK
    BY TimerAssumption DEF Init, TypeOK, DW, commandType
  <1>2. TypeOK /\ [Next]_chartVars => TypeOK'
    <2> SUFFICES ASSUME TypeOK, [Next]_chartVars PROVE TypeOK'
      OBVIOUS
    <2>1. CASE Next
      BY <2>1, StepKeepsTypeOK DEF Next
    <2>2. CASE UNCHANGED chartVars
      BY <2>2 DEF chartVars, TypeOK
    <2>3. QED
      BY <2>1, <2>2
  <1>3. QED
    BY <1>1, <1>2, PTL DEF Spec

\* The seven fields of a DW record e, all at once.
Fields(e, active, state, stopped, down, up, upX, counter) ==
    /\ e.is_active = active
    /\ e.is_winStates = state
    /\ e.is_Stopped = stopped
    /\ e.is_movingDown = down
    /\ e.is_movingUp = up
    /\ e.is_movingUpX = upX
    /\ e.temporalCounter_i1 = counter

\* What one call of WinControllerRunnable does to the state and its substates,
\* the heart of the chart's invariant: each transition clears the substates it
\* leaves and sets those it enters, restarts the timer of a movement it begins,
\* and writes the command of the state it enters.  Under each action the first
\* step lists the fields of the new record, the second draws the conclusion, and
\* the third finds the step of WindowMotion it is, if it is not a stutter.
LEMMA StepKeepsChartInv ==
    ASSUME ChartInv,
           NEW req \in requestType, NEW endStop \in BOOLEAN, NEW obstacle \in BOOLEAN,
           WinControllerRunnable(req, endStop, obstacle)
    PROVE  /\ SubstatesMatch'
           /\ TimerBoundsMotion'
           /\ CommandFollowsState'
           /\ localDW'.is_winStates # localDW.is_winStates => command' = CommandOf(localDW')
           /\ [WM!Next]_WM!motionVars
  <1>t. Ticked \in DW
    BY TickedType DEF ChartInv, TypeOK
  <1>f. Fields(Ticked, localDW.is_active, localDW.is_winStates, localDW.is_Stopped,
               localDW.is_movingDown, localDW.is_movingUp, localDW.is_movingUpX,
               Ticked.temporalCounter_i1)
    BY TickedType DEF Fields, ChartInv, TypeOK
  <1>k. MoveTicks \in Nat /\ MoveTicks > 0 /\ Ticked.temporalCounter_i1 \in Nat
    BY <1>t, TimerAssumption DEF DW
  <1>c. localDW.is_winStates \in {"movingDown", "movingUp"} =>
          Ticked.temporalCounter_i1 = localDW.temporalCounter_i1 + 1
    BY TickedType, TimerAssumption DEF ChartInv, TypeOK, TimerBoundsMotion, DW
  <1>n. localDW.temporalCounter_i1 \in Nat
    BY TimerAssumption DEF ChartInv, TypeOK, DW
  <1>x. localDW.is_movingUp \in {"none", "Bsc", "X"}
    BY DEF ChartInv, TypeOK, DW
  <1>1. CASE Activate
    <2>1. Fields(localDW', TRUE, "Stopped", "unknownPos",
                 localDW.is_movingDown, localDW.is_movingUp, localDW.is_movingUpX, Ticked.temporalCounter_i1)
      BY <1>1, <1>t, <1>f
      DEF Activate, EnterStopped, Fields, DW
    <2>2. /\ SubstatesMatch' /\ TimerBoundsMotion' /\ CommandFollowsState'
          /\ localDW'.is_winStates # localDW.is_winStates => command' = CommandOf(localDW')
      BY <1>1, <2>1, <1>f, <1>k
      DEF Activate, Write, Fields,
          During, ChartInv, SubstatesMatch, TimerBoundsMotion, CommandFollowsState, CommandOf
    <2>3. [WM!Next]_WM!motionVars
      BY <1>1, <2>1, <1>f, <1>k, <1>c, <1>n
      DEF Activate, ChartInv, SubstatesMatch, During, Fields, Motion, Age, WM!motionVars
    <2>4. QED BY <2>2, <2>3
  <1>2. CASE StartMotion(req)
    <2>1. CASE req = "basic_down"
      <3>1. Fields(localDW', localDW.is_active, "movingDown", "none",
                   "Bsc", localDW.is_movingUp, localDW.is_movingUpX, 0)
        BY <1>2, <2>1, <1>t, <1>f
        DEF StartMotion, EnterMotion, EnterMovingDown, LeaveStopped, Fields, DW
      <3>2. /\ SubstatesMatch' /\ TimerBoundsMotion' /\ CommandFollowsState'
            /\ localDW'.is_winStates # localDW.is_winStates => command' = CommandOf(localDW')
        BY <1>2, <2>1, <3>1, <1>f, <1>k
        DEF StartMotion, Write, MotionCommand, DownRequests, Fields,
            During, ChartInv, SubstatesMatch, TimerBoundsMotion, CommandFollowsState, CommandOf
      <3>3. [WM!Next]_WM!motionVars
        BY <1>2, <2>1, <3>1, <1>f, <1>k, <1>c, <1>n
        DEF StartMotion, During, Fields, Motion, Age, WM!Begin, Heeded, DownRequests, UpRequests, WM!Next
      <3>4. QED BY <3>2, <3>3
    <2>2. CASE req = "express_down"
      <3>1. Fields(localDW', localDW.is_active, "movingDown", "none",
                   "X", localDW.is_movingUp, localDW.is_movingUpX, 0)
        BY <1>2, <2>2, <1>t, <1>f
        DEF StartMotion, EnterMotion, EnterMovingDown, LeaveStopped, Fields, DW
      <3>2. /\ SubstatesMatch' /\ TimerBoundsMotion' /\ CommandFollowsState'
            /\ localDW'.is_winStates # localDW.is_winStates => command' = CommandOf(localDW')
        BY <1>2, <2>2, <3>1, <1>f, <1>k
        DEF StartMotion, Write, MotionCommand, DownRequests, Fields,
            During, ChartInv, SubstatesMatch, TimerBoundsMotion, CommandFollowsState, CommandOf
      <3>3. [WM!Next]_WM!motionVars
        BY <1>2, <2>2, <3>1, <1>f, <1>k, <1>c, <1>n
        DEF StartMotion, During, Fields, Motion, Age, WM!Begin, Heeded, DownRequests, UpRequests, WM!Next
      <3>4. QED BY <3>2, <3>3
    <2>3. CASE req = "basic_up"
      <3>1. Fields(localDW', localDW.is_active, "movingUp", "none",
                   localDW.is_movingDown, "Bsc", localDW.is_movingUpX, 0)
        BY <1>2, <2>3, <1>t, <1>f
        DEF StartMotion, EnterMotion, EnterMovingUp, LeaveStopped, Fields, DW
      <3>2. /\ SubstatesMatch' /\ TimerBoundsMotion' /\ CommandFollowsState'
            /\ localDW'.is_winStates # localDW.is_winStates => command' = CommandOf(localDW')
        BY <1>2, <2>3, <3>1, <1>f, <1>k
        DEF StartMotion, Write, MotionCommand, DownRequests, Fields,
            During, ChartInv, SubstatesMatch, TimerBoundsMotion, CommandFollowsState, CommandOf
      <3>3. [WM!Next]_WM!motionVars
        BY <1>2, <2>3, <3>1, <1>f, <1>k, <1>c, <1>n
        DEF StartMotion, During, Fields, Motion, Age, WM!Begin, Heeded, DownRequests, UpRequests, WM!Next
      <3>4. QED BY <3>2, <3>3
    <2>4. CASE req = "express_up"
      <3>1. Fields(localDW', localDW.is_active, "movingUp", "none",
                   localDW.is_movingDown, "X", "mux_ppo", 0)
        BY <1>2, <2>4, <1>t, <1>f
        DEF StartMotion, EnterMotion, EnterMovingUp, LeaveStopped, Fields, DW
      <3>2. /\ SubstatesMatch' /\ TimerBoundsMotion' /\ CommandFollowsState'
            /\ localDW'.is_winStates # localDW.is_winStates => command' = CommandOf(localDW')
        BY <1>2, <2>4, <3>1, <1>f, <1>k
        DEF StartMotion, Write, MotionCommand, DownRequests, Fields,
            During, ChartInv, SubstatesMatch, TimerBoundsMotion, CommandFollowsState, CommandOf
      <3>3. [WM!Next]_WM!motionVars
        BY <1>2, <2>4, <3>1, <1>f, <1>k, <1>c, <1>n
        DEF StartMotion, During, Fields, Motion, Age, WM!Begin, Heeded, DownRequests, UpRequests, WM!Next
      <3>4. QED BY <3>2, <3>3
    <2>5. QED
      BY <1>2, <2>1, <2>2, <2>3, <2>4 DEF StartMotion, Heeded, DownRequests, UpRequests
  <1>3. CASE StayStopped(req)
    <2>1. CASE localDW.is_Stopped \in {"fullyClosed", "fullyOpen", "partiallyOpen"}
      <3>1. Fields(localDW', localDW.is_active, localDW.is_winStates, localDW.is_Stopped,
                   localDW.is_movingDown, localDW.is_movingUp, localDW.is_movingUpX, Ticked.temporalCounter_i1)
        BY <1>3, <2>1, <1>t, <1>f
        DEF StayStopped, Fields, DW
      <3>2. /\ SubstatesMatch' /\ TimerBoundsMotion' /\ CommandFollowsState'
            /\ localDW'.is_winStates # localDW.is_winStates => command' = CommandOf(localDW')
        BY <1>3, <2>1, <3>1, <1>f, <1>k
        DEF StayStopped, LeftOver, Fields,
            During, ChartInv, SubstatesMatch, TimerBoundsMotion, CommandFollowsState, CommandOf
      <3>3. [WM!Next]_WM!motionVars
        BY <1>3, <2>1, <3>1, <1>f, <1>k, <1>c, <1>n
        DEF StayStopped, During, Fields, Motion, Age, WM!motionVars
      <3>4. QED BY <3>2, <3>3
    <2>2. CASE localDW.is_Stopped \notin {"fullyClosed", "fullyOpen", "partiallyOpen"}
      <3>1. Fields(localDW', localDW.is_active, "Stopped", "partiallyOpen",
                   localDW.is_movingDown, localDW.is_movingUp, localDW.is_movingUpX, Ticked.temporalCounter_i1)
        BY <1>3, <2>2, <1>t, <1>f
        DEF StayStopped, EnterStopped, Fields, DW
      <3>2. /\ SubstatesMatch' /\ TimerBoundsMotion' /\ CommandFollowsState'
            /\ localDW'.is_winStates # localDW.is_winStates => command' = CommandOf(localDW')
        BY <1>3, <2>2, <3>1, <1>f, <1>k
        DEF StayStopped, LeftOver, Fields,
            During, ChartInv, SubstatesMatch, TimerBoundsMotion, CommandFollowsState, CommandOf
      <3>3. [WM!Next]_WM!motionVars
        BY <1>3, <2>2, <3>1, <1>f, <1>k, <1>c, <1>n
        DEF StayStopped, During, Fields, Motion, Age, WM!motionVars
      <3>4. QED BY <3>2, <3>3
    <2>3. QED
      BY <1>3, <2>1, <2>2
  <1>4. CASE CooledDown(req)
    <2>1. Fields(localDW', localDW.is_active, "Stopped", "unknownPos",
                 localDW.is_movingDown, localDW.is_movingUp, localDW.is_movingUpX, Ticked.temporalCounter_i1)
      BY <1>4, <1>t, <1>f
      DEF CooledDown, EnterStopped, Fields, DW
    <2>2. /\ SubstatesMatch' /\ TimerBoundsMotion' /\ CommandFollowsState'
          /\ localDW'.is_winStates # localDW.is_winStates => command' = CommandOf(localDW')
      BY <1>4, <2>1, <1>f, <1>k
      DEF CooledDown, Write, Fields,
          During, ChartInv, SubstatesMatch, TimerBoundsMotion, CommandFollowsState, CommandOf
    <2>3. [WM!Next]_WM!motionVars
      BY <1>4, <2>1, <1>f, <1>k, <1>c, <1>n
      DEF CooledDown, During, Fields, Motion, Age, WM!Halt, WM!Next
    <2>4. QED BY <2>2, <2>3
  <1>5. CASE StayCoolDown(req)
    <2>1. Fields(localDW', localDW.is_active, localDW.is_winStates, localDW.is_Stopped,
                 localDW.is_movingDown, localDW.is_movingUp, localDW.is_movingUpX, Ticked.temporalCounter_i1)
      BY <1>5, <1>t, <1>f
      DEF StayCoolDown, Fields, DW
    <2>2. /\ SubstatesMatch' /\ TimerBoundsMotion' /\ CommandFollowsState'
          /\ localDW'.is_winStates # localDW.is_winStates => command' = CommandOf(localDW')
      BY <1>5, <2>1, <1>f, <1>k
      DEF StayCoolDown, LeftOver, Fields,
          During, ChartInv, SubstatesMatch, TimerBoundsMotion, CommandFollowsState, CommandOf
    <2>3. [WM!Next]_WM!motionVars
      BY <1>5, <2>1, <1>f, <1>k, <1>c, <1>n
      DEF StayCoolDown, During, Fields, Motion, Age, WM!motionVars
    <2>4. QED BY <2>2, <2>3
  <1>6. CASE DownEndStop(endStop)
    <2>1. Fields(localDW', localDW.is_active, "Stopped", "fullyOpen",
                 "none", localDW.is_movingUp, localDW.is_movingUpX, Ticked.temporalCounter_i1)
      BY <1>6, <1>t, <1>f
      DEF DownEndStop, EnterStopped, LeaveMovingDown, Fields, DW
    <2>2. /\ SubstatesMatch' /\ TimerBoundsMotion' /\ CommandFollowsState'
          /\ localDW'.is_winStates # localDW.is_winStates => command' = CommandOf(localDW')
      BY <1>6, <2>1, <1>f, <1>k
      DEF DownEndStop, Write, Fields,
          During, ChartInv, SubstatesMatch, TimerBoundsMotion, CommandFollowsState, CommandOf
    <2>3. [WM!Next]_WM!motionVars
      BY <1>6, <2>1, <1>f, <1>k, <1>c, <1>n
      DEF DownEndStop, During, Fields, Motion, Age, WM!Halt, WM!Next
    <2>4. QED BY <2>2, <2>3
  <1>7. CASE DownReversed(req, endStop)
    <2>1. CASE req = "basic_up"
      <3>1. Fields(localDW', localDW.is_active, "movingUp", localDW.is_Stopped,
                   "none", "Bsc", localDW.is_movingUpX, 0)
        BY <1>7, <2>1, <1>t, <1>f
        DEF DownReversed, EnterMotion, EnterMovingUp, LeaveMovingDown, Fields, DW
      <3>2. /\ SubstatesMatch' /\ TimerBoundsMotion' /\ CommandFollowsState'
            /\ localDW'.is_winStates # localDW.is_winStates => command' = CommandOf(localDW')
        BY <1>7, <2>1, <3>1, <1>f, <1>k
        DEF DownReversed, Write, Fields,
            During, ChartInv, SubstatesMatch, TimerBoundsMotion, CommandFollowsState, CommandOf
      <3>3. [WM!Next]_WM!motionVars
        BY <1>7, <2>1, <3>1, <1>f, <1>k, <1>c, <1>n
        DEF DownReversed, During, Fields, Motion, Age, WM!Begin, WM!Next
      <3>4. QED BY <3>2, <3>3
    <2>2. CASE req = "express_up"
      <3>1. Fields(localDW', localDW.is_active, "movingUp", localDW.is_Stopped,
                   "none", "X", "mux_ppo", 0)
        BY <1>7, <2>2, <1>t, <1>f
        DEF DownReversed, EnterMotion, EnterMovingUp, LeaveMovingDown, Fields, DW
      <3>2. /\ SubstatesMatch' /\ TimerBoundsMotion' /\ CommandFollowsState'
            /\ localDW'.is_winStates # localDW.is_winStates => command' = CommandOf(localDW')
        BY <1>7, <2>2, <3>1, <1>f, <1>k
        DEF DownReversed, Write, Fields,
            During, ChartInv, SubstatesMatch, TimerBoundsMotion, CommandFollowsState, CommandOf
      <3>3. [WM!Next]_WM!motionVars
        BY <1>7, <2>2, <3>1, <1>f, <1>k, <1>c, <1>n
        DEF DownReversed, During, Fields, Motion, Age, WM!Begin, WM!Next
      <3>4. QED BY <3>2, <3>3
    <2>3. QED
      BY <1>7, <2>1, <2>2 DEF DownReversed
  <1>8. CASE DownExpired(req, endStop)
    <2>1. Fields(localDW', localDW.is_active, "coolDown", localDW.is_Stopped,
                 "none", localDW.is_movingUp, localDW.is_movingUpX, Ticked.temporalCounter_i1)
      BY <1>8, <1>t, <1>f
      DEF DownExpired, EnterCoolDown, LeaveMovingDown, Fields, DW
    <2>2. /\ SubstatesMatch' /\ TimerBoundsMotion' /\ CommandFollowsState'
          /\ localDW'.is_winStates # localDW.is_winStates => command' = CommandOf(localDW')
      BY <1>8, <2>1, <1>f, <1>k
      DEF DownExpired, Write, Fields,
          During, ChartInv, SubstatesMatch, TimerBoundsMotion, CommandFollowsState, CommandOf
    <2>3. [WM!Next]_WM!motionVars
      BY <1>8, <2>1, <1>f, <1>k, <1>c, <1>n
      DEF DownExpired, Expired, During, Fields, Motion, Age, WM!CoolDown, WM!Moving, WM!Next
    <2>4. QED BY <2>2, <2>3
  <1>9. CASE DownReleased(req, endStop)
    <2>1. Fields(localDW', localDW.is_active, "Stopped", "partiallyOpen",
                 "none", localDW.is_movingUp, localDW.is_movingUpX, Ticked.temporalCounter_i1)
      BY <1>9, <1>t, <1>f
      DEF DownReleased, EnterStopped, LeaveMovingDown, Fields, DW
    <2>2. /\ SubstatesMatch' /\ TimerBoundsMotion' /\ CommandFollowsState'
          /\ localDW'.is_winStates # localDW.is_winStates => command' = CommandOf(localDW')
      BY <1>9, <2>1, <1>f, <1>k
      DEF DownReleased, DownContinues, Write, Fields,
          During, ChartInv, SubstatesMatch, TimerBoundsMotion, CommandFollowsState, CommandOf
    <2>3. [WM!Next]_WM!motionVars
      BY <1>9, <2>1, <1>f, <1>k, <1>c, <1>n
      DEF DownReleased, DownContinues, During, Fields, Motion, Age, WM!Halt, WM!Next
    <2>4. QED BY <2>2, <2>3
  <1>10. CASE DownStep(req, endStop)
    <2>1. CASE localDW.is_movingDown = "Bsc" /\ req = "express_down"
      <3>1. Fields(localDW', localDW.is_active, localDW.is_winStates, localDW.is_Stopped,
                   "X", localDW.is_movingUp, localDW.is_movingUpX, Ticked.temporalCounter_i1)
        BY <1>10, <2>1, <1>t, <1>f
        DEF DownStep, During, Fields, DW
      <3>2. SubstatesMatch'
        BY <1>10, <2>1, <3>1
        DEF DownStep, DownContinues, During, Fields, ChartInv, SubstatesMatch
      <3>3. TimerBoundsMotion'
        BY <1>10, <2>1, <3>1, <1>k
        DEF DownStep, DownContinues, Expired, Fields, TimerBoundsMotion
      <3>4. localDW'.is_winStates = localDW.is_winStates
        BY <3>1
        DEF Fields
      <3>5. CommandFollowsState'
        BY <1>10, <3>4
        DEF DownStep, LeftOver, ChartInv, CommandFollowsState, CommandOf
      <3>6. [WM!Next]_WM!motionVars
        BY <1>10, <2>1, <3>1, <1>f, <1>k, <1>c, <1>n
        DEF DownStep, DownContinues, Expired, During, Fields, Motion, Age, WM!KeepMoving, WM!Moving, WM!Next
      <3>7. QED BY <3>2, <3>3, <3>4, <3>5, <3>6
    <2>2. CASE ~(localDW.is_movingDown = "Bsc" /\ req = "express_down")
      <3>1. Fields(localDW', localDW.is_active, localDW.is_winStates, localDW.is_Stopped,
                   localDW.is_movingDown, localDW.is_movingUp, localDW.is_movingUpX, Ticked.temporalCounter_i1)
        BY <1>10, <2>2, <1>t, <1>f
        DEF DownStep, During, Fields, DW
      <3>2. SubstatesMatch'
        BY <1>10, <2>2, <3>1
        DEF DownStep, DownContinues, During, Fields, ChartInv, SubstatesMatch
      <3>3. TimerBoundsMotion'
        BY <1>10, <2>2, <3>1, <1>k
        DEF DownStep, DownContinues, Expired, Fields, TimerBoundsMotion
      <3>4. localDW'.is_winStates = localDW.is_winStates
        BY <3>1
        DEF Fields
      <3>5. CommandFollowsState'
        BY <1>10, <3>4
        DEF DownStep, LeftOver, ChartInv, CommandFollowsState, CommandOf
      <3>6. [WM!Next]_WM!motionVars
        BY <1>10, <2>2, <3>1, <1>f, <1>k, <1>c, <1>n
        DEF DownStep, DownContinues, Expired, During, Fields, Motion, Age, WM!KeepMoving, WM!Moving, WM!Next
      <3>7. QED BY <3>2, <3>3, <3>4, <3>5, <3>6
    <2>3. QED
      BY <1>10, <2>1, <2>2
  <1>11. CASE UpEndStop(endStop)
    <2>1. Fields(localDW', localDW.is_active, "Stopped", "fullyClosed",
                 localDW.is_movingDown, "none", "none", Ticked.temporalCounter_i1)
      BY <1>11, <1>t, <1>f
      DEF UpEndStop, EnterStopped, LeaveMovingUp, Fields, DW
    <2>2. /\ SubstatesMatch' /\ TimerBoundsMotion' /\ CommandFollowsState'
          /\ localDW'.is_winStates # localDW.is_winStates => command' = CommandOf(localDW')
      BY <1>11, <2>1, <1>f, <1>k
      DEF UpEndStop, Write, Fields,
          During, ChartInv, SubstatesMatch, TimerBoundsMotion, CommandFollowsState, CommandOf
    <2>3. [WM!Next]_WM!motionVars
      BY <1>11, <2>1, <1>f, <1>k, <1>c, <1>n
      DEF UpEndStop, During, Fields, Motion, Age, WM!Halt, WM!Next
    <2>4. QED BY <2>2, <2>3
  <1>12. CASE UpExpired(endStop)
    <2>1. Fields(localDW', localDW.is_active, "coolDown", localDW.is_Stopped,
                 localDW.is_movingDown, "none", "none", Ticked.temporalCounter_i1)
      BY <1>12, <1>t, <1>f
      DEF UpExpired, EnterCoolDown, LeaveMovingUp, Fields, DW
    <2>2. /\ SubstatesMatch' /\ TimerBoundsMotion' /\ CommandFollowsState'
          /\ localDW'.is_winStates # localDW.is_winStates => command' = CommandOf(localDW')
      BY <1>12, <2>1, <1>f, <1>k
      DEF UpExpired, Write, Fields,
          During, ChartInv, SubstatesMatch, TimerBoundsMotion, CommandFollowsState, CommandOf
    <2>3. [WM!Next]_WM!motionVars
      BY <1>12, <2>1, <1>f, <1>k, <1>c, <1>n
      DEF UpExpired, Expired, During, Fields, Motion, Age, WM!CoolDown, WM!Moving, WM!Next
    <2>4. QED BY <2>2, <2>3
  <1>13. CASE UpReversed(req, endStop)
    <2>1. CASE req = "basic_down"
      <3>1. Fields(localDW', localDW.is_active, "movingDown", localDW.is_Stopped,
                   "Bsc", "none", "none", 0)
        BY <1>13, <2>1, <1>t, <1>f
        DEF UpReversed, EnterMotion, EnterMovingDown, LeaveMovingUp, Fields, DW
      <3>2. /\ SubstatesMatch' /\ TimerBoundsMotion' /\ CommandFollowsState'
            /\ localDW'.is_winStates # localDW.is_winStates => command' = CommandOf(localDW')
        BY <1>13, <2>1, <3>1, <1>f, <1>k
        DEF UpReversed, Write, Fields,
            During, ChartInv, SubstatesMatch, TimerBoundsMotion, CommandFollowsState, CommandOf
      <3>3. [WM!Next]_WM!motionVars
        BY <1>13, <2>1, <3>1, <1>f, <1>k, <1>c, <1>n
        DEF UpReversed, During, Fields, Motion, Age, WM!Begin, WM!Next
      <3>4. QED BY <3>2, <3>3
    <2>2. CASE req = "express_down"
      <3>1. Fields(localDW', localDW.is_active, "movingDown", localDW.is_Stopped,
                   "X", "none", "none", 0)
        BY <1>13, <2>2, <1>t, <1>f
        DEF UpReversed, EnterMotion, EnterMovingDown, LeaveMovingUp, Fields, DW
      <3>2. /\ SubstatesMatch' /\ TimerBoundsMotion' /\ CommandFollowsState'
            /\ localDW'.is_winStates # localDW.is_winStates => command' = CommandOf(localDW')
        BY <1>13, <2>2, <3>1, <1>f, <1>k
        DEF UpReversed, Write, Fields,
            During, ChartInv, SubstatesMatch, TimerBoundsMotion, CommandFollowsState, CommandOf
      <3>3. [WM!Next]_WM!motionVars
        BY <1>13, <2>2, <3>1, <1>f, <1>k, <1>c, <1>n
        DEF UpReversed, During, Fields, Motion, Age, WM!Begin, WM!Next
      <3>4. QED BY <3>2, <3>3
    <2>3. QED
      BY <1>13, <2>1, <2>2 DEF UpReversed, DownRequests
  <1>14. CASE UpReleased(req, endStop)
    <2>1. Fields(localDW', localDW.is_active, "Stopped", "partiallyOpen",
                 localDW.is_movingDown, "none", localDW.is_movingUpX, Ticked.temporalCounter_i1)
      BY <1>14, <1>t, <1>f
      DEF UpReleased, EnterStopped, Fields, DW
    <2>2. /\ SubstatesMatch' /\ TimerBoundsMotion' /\ CommandFollowsState'
          /\ localDW'.is_winStates # localDW.is_winStates => command' = CommandOf(localDW')
      BY <1>14, <2>1, <1>f, <1>k
      DEF UpReleased, UpContinues, Write, Fields,
          During, ChartInv, SubstatesMatch, TimerBoundsMotion, CommandFollowsState, CommandOf
    <2>3. [WM!Next]_WM!motionVars
      BY <1>14, <2>1, <1>f, <1>k, <1>c, <1>n
      DEF UpReleased, UpContinues, During, Fields, Motion, Age, WM!Halt, WM!Next
    <2>4. QED BY <2>2, <2>3
  <1>15. CASE UpBscStep(req, endStop)
    <2>1. CASE req = "express_up"
      <3>1. Fields(localDW', localDW.is_active, localDW.is_winStates, localDW.is_Stopped,
                   localDW.is_movingDown, "X", "mux_ppo", Ticked.temporalCounter_i1)
        BY <1>15, <2>1, <1>t, <1>f
        DEF UpBscStep, Fields, DW
      <3>2. SubstatesMatch'
        BY <1>15, <2>1, <3>1
        DEF UpBscStep, UpContinues, During, Fields, ChartInv, SubstatesMatch
      <3>3. TimerBoundsMotion'
        BY <1>15, <2>1, <3>1, <1>k
        DEF UpBscStep, UpContinues, Expired, Fields, TimerBoundsMotion
      <3>4. localDW'.is_winStates = localDW.is_winStates
        BY <3>1
        DEF Fields
      <3>5. CommandFollowsState'
        BY <1>15, <3>4
        DEF UpBscStep, LeftOver, ChartInv, CommandFollowsState, CommandOf
      <3>6. [WM!Next]_WM!motionVars
        BY <1>15, <2>1, <3>1, <1>f, <1>k, <1>c, <1>n
        DEF UpBscStep, UpContinues, Expired, During, Fields, Motion, Age, WM!KeepMoving, WM!Moving, WM!Next
      <3>7. QED BY <3>2, <3>3, <3>4, <3>5, <3>6
    <2>2. CASE req # "express_up"
      <3>1. Fields(localDW', localDW.is_active, localDW.is_winStates, localDW.is_Stopped,
                   localDW.is_movingDown, localDW.is_movingUp, localDW.is_movingUpX, Ticked.temporalCounter_i1)
        BY <1>15, <2>2, <1>t, <1>f
        DEF UpBscStep, Fields, DW
      <3>2. SubstatesMatch'
        BY <1>15, <2>2, <3>1
        DEF UpBscStep, UpContinues, During, Fields, ChartInv, SubstatesMatch
      <3>3. TimerBoundsMotion'
        BY <1>15, <2>2, <3>1, <1>k
        DEF UpBscStep, UpContinues, Expired, Fields, TimerBoundsMotion
      <3>4. localDW'.is_winStates = localDW.is_winStates
        BY <3>1
        DEF Fields
      <3>5. CommandFollowsState'
        BY <1>15, <3>4
        DEF UpBscStep, LeftOver, ChartInv, CommandFollowsState, CommandOf
      <3>6. [WM!Next]_WM!motionVars
        BY <1>15, <2>2, <3>1, <1>f, <1>k, <1>c, <1>n
        DEF UpBscStep, UpContinues, Expired, During, Fields, Motion, Age, WM!KeepMoving, WM!Moving, WM!Next
      <3>7. QED BY <3>2, <3>3, <3>4, <3>5, <3>6
    <2>3. QED
      BY <1>15, <2>1, <2>2
  <1>16. CASE UpRetract(req, endStop, obstacle)
    <2>1. Fields(localDW', localDW.is_active, "retracting", localDW.is_Stopped,
                 localDW.is_movingDown, "none", "none", Ticked.temporalCounter_i1)
      BY <1>16, <1>t, <1>f
      DEF UpRetract, EnterRetracting, LeaveMovingUp, Fields, DW
    <2>2. /\ SubstatesMatch' /\ TimerBoundsMotion' /\ CommandFollowsState'
          /\ localDW'.is_winStates # localDW.is_winStates => command' = CommandOf(localDW')
      BY <1>16, <2>1, <1>f, <1>k
      DEF UpRetract, UpContinues, Write, Fields,
          During, ChartInv, SubstatesMatch, TimerBoundsMotion, CommandFollowsState, CommandOf
    <2>3. [WM!Next]_WM!motionVars
      BY <1>16, <2>1, <1>f, <1>k, <1>c, <1>n
      DEF UpRetract, UpContinues, Expired, During, Fields, Motion, Age, WM!Retract, WM!Next
    <2>4. QED BY <2>2, <2>3
  <1>17. CASE UpXStep(req, endStop, obstacle)
    <2>1. CASE localDW.is_movingUpX # "mux_pp" /\ req # "express_up"
      <3>1. Fields(localDW', localDW.is_active, localDW.is_winStates, localDW.is_Stopped,
                   localDW.is_movingDown, localDW.is_movingUp, "mux_pp", Ticked.temporalCounter_i1)
        BY <1>17, <2>1, <1>t, <1>f
        DEF UpXStep, Fields, DW
      <3>2. SubstatesMatch'
        BY <1>17, <2>1, <3>1, <1>x
        DEF UpXStep, UpContinues, During, Fields, ChartInv, SubstatesMatch
      <3>3. TimerBoundsMotion'
        BY <1>17, <2>1, <3>1, <1>x, <1>k
        DEF UpXStep, UpContinues, Expired, Fields, TimerBoundsMotion
      <3>4. localDW'.is_winStates = localDW.is_winStates
        BY <3>1
        DEF Fields
      <3>5. CommandFollowsState'
        BY <1>17, <3>4
        DEF UpXStep, LeftOver, ChartInv, CommandFollowsState, CommandOf
      <3>6. [WM!Next]_WM!motionVars
        BY <1>17, <2>1, <3>1, <1>f, <1>k, <1>c, <1>n
        DEF UpXStep, UpContinues, Expired, During, Fields, Motion, Age, WM!KeepMoving, WM!Moving, WM!Next
      <3>7. QED BY <3>2, <3>3, <3>4, <3>5, <3>6
    <2>2. CASE ~(localDW.is_movingUpX # "mux_pp" /\ req # "express_up")
      <3>1. Fields(localDW', localDW.is_active, localDW.is_winStates, localDW.is_Stopped,
                   localDW.is_movingDown, localDW.is_movingUp, localDW.is_movingUpX, Ticked.temporalCounter_i1)
        BY <1>17, <2>2, <1>t, <1>f
        DEF UpXStep, Fields, DW
      <3>2. SubstatesMatch'
        BY <1>17, <2>2, <3>1, <1>x
        DEF UpXStep, UpContinues, During, Fields, ChartInv, SubstatesMatch
      <3>3. TimerBoundsMotion'
        BY <1>17, <2>2, <3>1, <1>x, <1>k
        DEF UpXStep, UpContinues, Expired, Fields, TimerBoundsMotion
      <3>4. localDW'.is_winStates = localDW.is_winStates
        BY <3>1
        DEF Fields
      <3>5. CommandFollowsState'
        BY <1>17, <3>4
        DEF UpXStep, LeftOver, ChartInv, CommandFollowsState, CommandOf
      <3>6. [WM!Next]_WM!motionVars
        BY <1>17, <2>2, <3>1, <1>f, <1>k, <1>c, <1>n
        DEF UpXStep, UpContinues, Expired, During, Fields, Motion, Age, WM!KeepMoving, WM!Moving, WM!Next
      <3>7. QED BY <3>2, <3>3, <3>4, <3>5, <3>6
    <2>3. QED
      BY <1>17, <2>1, <2>2
  <1>18. CASE Retracted(endStop)
    <2>1. Fields(localDW', localDW.is_active, "Stopped", "fullyOpen",
                 localDW.is_movingDown, localDW.is_movingUp, localDW.is_movingUpX, Ticked.temporalCounter_i1)
      BY <1>18, <1>t, <1>f
      DEF Retracted, EnterStopped, Fields, DW
    <2>2. /\ SubstatesMatch' /\ TimerBoundsMotion' /\ CommandFollowsState'
          /\ localDW'.is_winStates # localDW.is_winStates => command' = CommandOf(localDW')
      BY <1>18, <2>1, <1>f, <1>k
      DEF Retracted, Write, Fields,
          During, ChartInv, SubstatesMatch, TimerBoundsMotion, CommandFollowsState, CommandOf
    <2>3. [WM!Next]_WM!motionVars
      BY <1>18, <2>1, <1>f, <1>k, <1>c, <1>n
      DEF Retracted, During, Fields, Motion, Age, WM!Halt, WM!Next
    <2>4. QED BY <2>2, <2>3
  <1>19. CASE StayRetracting(endStop)
    <2>1. Fields(localDW', localDW.is_active, localDW.is_winStates, localDW.is_Stopped,
                 localDW.is_movingDown, localDW.is_movingUp, localDW.is_movingUpX, Ticked.temporalCounter_i1)
      BY <1>19, <1>t, <1>f
      DEF StayRetracting, Fields, DW
    <2>2. /\ SubstatesMatch' /\ TimerBoundsMotion' /\ CommandFollowsState'
          /\ localDW'.is_winStates # localDW.is_winStates => command' = CommandOf(localDW')
      BY <1>19, <2>1, <1>f, <1>k
      DEF StayRetracting, LeftOver, Fields,
          During, ChartInv, SubstatesMatch, TimerBoundsMotion, CommandFollowsState, CommandOf
    <2>3. [WM!Next]_WM!motionVars
      BY <1>19, <2>1, <1>f, <1>k, <1>c, <1>n
      DEF StayRetracting, During, Fields, Motion, Age, WM!motionVars
    <2>4. QED BY <2>2, <2>3
  <1>20. QED
    BY <1>1, <1>2, <1>3, <1>4, <1>5, <1>6, <1>7, <1>8, <1>9, <1>10,
       <1>11, <1>12, <1>13, <1>14, <1>15, <1>16, <1>17, <1>18, <1>19
    DEF WinControllerRunnable

-----------------------------------------------------------------------------
(* What a call does to a window at its end stop, and to one nobody asks to   *)
(* move.                                                                    *)

\* The window of a record d rests where the command c leads; or d is in the
\* movement against c.
EndOf(c) == IF c = "up" THEN "fullyClosed" ELSE "fullyOpen"
AtEnd(d, c) == d.is_winStates = "Stopped" /\ d.is_Stopped = EndOf(c)
Against(d, c) == d.is_winStates = IF c = "up" THEN "movingDown" ELSE "movingUp"

Driven(d) == d.is_winStates \in {"movingDown", "movingUp"}

\* With the end stop sampled, a call ends any movement, a retraction too, in the
\* position its command was heading for (WinController.c:277, 355 and 468).
LEMMA EndStopEnds ==
    ASSUME ChartInv, SlotKept, command \in {"up", "down"},
           NEW req, NEW obstacle, WinControllerRunnable(req, TRUE, obstacle)
    PROVE  AtEnd(localDW', command)
  <1>t. Ticked \in DW
    BY TickedType DEF ChartInv, TypeOK
  <1>1. command = CommandOf(localDW)
    BY DEF ChartInv, CommandFollowsState
  <1>2. \/ localDW.is_winStates \in {"movingDown", "retracting"} /\ command = "down"
        \/ localDW.is_winStates = "movingUp" /\ command = "up"
    BY <1>1 DEF CommandOf
  <1>3. localDW.is_active
    BY <1>2 DEF ChartInv, SubstatesMatch
  <1>4. \/ DownEndStop(TRUE) /\ command = "down"
        \/ UpEndStop(TRUE) /\ command = "up"
        \/ Retracted(TRUE) /\ command = "down"
    BY <1>2, <1>3
    DEF WinControllerRunnable, During, Activate, StartMotion, StayStopped, CooledDown,
        StayCoolDown, DownEndStop, DownReversed, DownExpired, DownContinues, DownReleased,
        DownStep, UpEndStop, UpExpired, UpReversed, UpContinues, UpReleased, UpBscStep,
        UpRetract, UpXStep, Retracted, StayRetracting
  <1>5. QED
    BY <1>4, <1>t DEF DownEndStop, UpEndStop, Retracted, EnterStopped, LeaveMovingDown,
                      LeaveMovingUp, AtEnd, EndOf, DW

\* From there, as long as the end stop stands, the window leaves in the other
\* direction only (WinController.c:105-241).
LEMMA EndStopTurns ==
    ASSUME ChartInv, NEW c \in {"up", "down"}, AtEnd(localDW, c),
           NEW req, NEW endStop, NEW obstacle, WinControllerRunnable(req, endStop, obstacle)
    PROVE  AtEnd(localDW', c) \/ Against(localDW', c)
  <1>t. Ticked \in DW /\ Ticked.is_winStates = "Stopped" /\ Ticked.is_Stopped = EndOf(c)
    BY TickedType DEF ChartInv, TypeOK, AtEnd
  <1>1. localDW.is_active /\ localDW.is_winStates = "Stopped" /\ localDW.is_Stopped = EndOf(c)
    BY DEF ChartInv, SubstatesMatch, AtEnd
  <1>2. StartMotion(req) \/ StayStopped(req)
    BY <1>1
    DEF WinControllerRunnable, During, Activate, StartMotion, StayStopped, CooledDown,
        StayCoolDown, DownEndStop, DownReversed, DownExpired, DownContinues, DownReleased,
        DownStep, UpEndStop, UpExpired, UpReversed, UpContinues, UpReleased, UpBscStep,
        UpRetract, UpXStep, Retracted, StayRetracting
  <1>3. CASE StayStopped(req)
    BY <1>1, <1>3, <1>t DEF StayStopped, EndOf, AtEnd
  <1>4. CASE StartMotion(req)
    <2>1. req \in IF c = "up" THEN DownRequests ELSE UpRequests
      BY <1>1, <1>4 DEF StartMotion, Heeded, EndOf
    <2>2. LeaveStopped(Ticked) \in DW /\ localDW' = EnterMotion(LeaveStopped(Ticked), req)
      BY <1>4, <1>t, EnterType DEF StartMotion
    <2>3. \A d \in DW : /\ req \in DownRequests => EnterMotion(d, req).is_winStates = "movingDown"
                        /\ req \in UpRequests => EnterMotion(d, req).is_winStates = "movingUp"
      BY DEF EnterMotion, EnterMovingDown, EnterMovingUp, DownRequests, UpRequests, DW
    <2>4. QED BY <2>1, <2>2, <2>3 DEF Against
  <1>5. QED BY <1>2, <1>3, <1>4

\* Nobody asks, and the window is driven all the same: it was before the call, and
\* the movement's timer has advanced (WinController.c:64-66, 105-241).
LEMMA UnaskedStepsCount ==
    ASSUME ChartInv, NEW endStop, NEW obstacle,
           WinControllerRunnable("neutral", endStop, obstacle), Driven(localDW')
    PROVE  /\ Driven(localDW)
           /\ localDW'.temporalCounter_i1 = localDW.temporalCounter_i1 + 1
  <1>t. Ticked \in DW /\ Ticked.is_winStates = localDW.is_winStates
    BY TickedType DEF ChartInv, TypeOK
  <1>e. /\ \A d \in DW : \A p : EnterStopped(d, p).is_winStates = "Stopped"
        /\ \A d \in DW : EnterCoolDown(d).is_winStates = "coolDown"
        /\ \A d \in DW : EnterRetracting(d).is_winStates = "retracting"
    BY DEF EnterStopped, EnterCoolDown, EnterRetracting, DW
  <1>l. /\ LeaveMovingDown(Ticked) \in DW /\ LeaveMovingUp(Ticked) \in DW
        /\ [Ticked EXCEPT !.is_active = TRUE] \in DW
        /\ [Ticked EXCEPT !.is_movingUp = "none"] \in DW
    <2>1. \A d \in DW : /\ [d EXCEPT !.is_active = TRUE] \in DW
                        /\ [d EXCEPT !.is_movingUp = "none"] \in DW
      BY DEF DW
    <2>2. QED BY <1>t, <2>1, EnterType
  <1>1. DownStep("neutral", endStop) \/ UpXStep("neutral", endStop, obstacle)
    <2>1. localDW'.is_winStates \notin {"Stopped", "coolDown", "retracting"}
      BY DEF Driven
    <2>2. /\ ~Activate
          /\ ~CooledDown("neutral")
          /\ ~DownEndStop(endStop)
          /\ ~DownExpired("neutral", endStop)
          /\ ~DownReleased("neutral", endStop)
          /\ ~UpEndStop(endStop)
          /\ ~UpExpired(endStop)
          /\ ~UpReleased("neutral", endStop)
          /\ ~UpRetract("neutral", endStop, obstacle)
          /\ ~Retracted(endStop)
      BY <1>t, <1>e, <1>l, <2>1
      DEF Activate, CooledDown, DownEndStop, DownExpired, DownReleased, UpEndStop,
          UpExpired, UpReleased, UpRetract, Retracted
    <2>3. ~StayStopped("neutral")
      BY <1>t, <1>e, <2>1 DEF StayStopped, During
    <2>4. /\ ~StayCoolDown("neutral")
          /\ ~StayRetracting(endStop)
      BY <1>t, <2>1 DEF StayCoolDown, StayRetracting, During
    <2>5. /\ ~StartMotion("neutral")
          /\ ~DownReversed("neutral", endStop)
          /\ ~UpReversed("neutral", endStop)
          /\ ~UpBscStep("neutral", endStop)
      BY DEF StartMotion, Heeded, DownReversed, UpReversed, UpBscStep, DownRequests, UpRequests
    <2>6. QED BY <2>2, <2>3, <2>4, <2>5 DEF WinControllerRunnable
  <1>2. Driven(localDW)
    BY <1>1 DEF DownStep, DownContinues, UpXStep, UpContinues, During, Driven
  <1>3. localDW'.temporalCounter_i1 = Ticked.temporalCounter_i1
    <2>1. \A d \in DW : [d EXCEPT !.is_movingUpX = "mux_pp"].temporalCounter_i1
                          = d.temporalCounter_i1
      BY DEF DW
    <2>2. QED BY <1>1, <1>t, <2>1 DEF DownStep, UpXStep
  <1>4. localDW.temporalCounter_i1 < CounterMax
    BY <1>2, TimerAssumption DEF Driven, ChartInv, TypeOK, DW, TimerBoundsMotion
  <1>5. QED
    BY <1>2, <1>3, <1>4, TickedType DEF ChartInv, TypeOK

\* The chart's safety invariants and its types together are inductive: no step of
\* WinControllerRunnable breaks them (WinController.c:64-476).
LEMMA ChartInvariant == Spec => []ChartInv
  <1>1. Init => ChartInv
    BY TimerAssumption
    DEF Init, ChartInv, TypeOK, DW, commandType, SubstatesMatch, TimerBoundsMotion,
        CommandFollowsState, CommandOf
  <1>2. ChartInv /\ TypeOK' /\ [Next]_chartVars => ChartInv'
    <2> SUFFICES ASSUME ChartInv, TypeOK', [Next]_chartVars PROVE ChartInv'
      OBVIOUS
    <2>1. CASE Next
      <3>1. SubstatesMatch' /\ TimerBoundsMotion' /\ CommandFollowsState'
        BY <2>1, StepKeepsChartInv DEF Next
      <3>2. QED BY <3>1 DEF ChartInv
    <2>2. CASE UNCHANGED chartVars
      BY <2>2 DEF chartVars, ChartInv, TypeOK, SubstatesMatch, TimerBoundsMotion,
                  CommandFollowsState, CommandOf
    <2>3. QED BY <2>1, <2>2
  <1>3. QED
    BY <1>1, <1>2, TypeCorrect, PTL DEF Spec

\* The chart's safety invariants hold of every run of WinControllerRunnable:
\* its substates never go stale, no movement outlives its timer, and where the
\* stack slot is kept the command handed over is that of the state.
THEOREM ChartSafe == Spec => [](SubstatesMatch /\ TimerBoundsMotion /\ CommandFollowsState)
  <1>1. ChartInv => SubstatesMatch /\ TimerBoundsMotion /\ CommandFollowsState
    BY DEF ChartInv
  <1>2. QED
    BY <1>1, ChartInvariant, PTL

\* Whatever the stack slot of `command` holds, the step that changes the state
\* hands the command of the new state to the RTE.
THEOREM EntryWrites == Spec => EntryWritesCommand
  <1>1. ChartInv /\ [Next]_chartVars =>
          [localDW'.is_winStates # localDW.is_winStates
             => command' = CommandOf(localDW')]_chartVars
    <2> SUFFICES ASSUME ChartInv, Next
                 PROVE  localDW'.is_winStates # localDW.is_winStates
                          => command' = CommandOf(localDW')
      OBVIOUS
    <2>1. QED BY StepKeepsChartInv DEF Next
  <1>2. QED
    BY <1>1, ChartInvariant, PTL DEF Spec, EntryWritesCommand

\* The chart implements WindowMotion: every step of the runnable is a step the
\* abstract specification allows, or one it does not see.
THEOREM Refinement == Spec => ImplementsWindowMotion
  <1>1. Init => WM!Init
    BY DEF Init, WM!Init, Motion, Age
  <1>2. ChartInv /\ [Next]_chartVars => [WM!Next]_WM!motionVars
    <2> SUFFICES ASSUME ChartInv, [Next]_chartVars PROVE [WM!Next]_WM!motionVars
      OBVIOUS
    <2>1. CASE Next
      BY <2>1, StepKeepsChartInv DEF Next
    <2>2. CASE UNCHANGED chartVars
      BY <2>2 DEF chartVars, WM!motionVars, Motion, Age
    <2>3. QED BY <2>1, <2>2
  <1>3. QED
    BY <1>1, <1>2, ChartInvariant, PTL DEF Spec, ImplementsWindowMotion, WM!Spec
=============================================================================
