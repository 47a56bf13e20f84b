------------------------ MODULE WinObjectives_proofs ------------------------
(* Proofs of the objectives, for every timer, where the stack slot is kept.  *)
EXTENDS WinObjectives, WinController_proofs

-----------------------------------------------------------------------------
(* A step of the chart, field by field.                                    *)

\* The movement that a request begins.
Began(req) ==
    /\ localDW'.temporalCounter_i1 = 0
    /\ \/ /\ req \in DownRequests /\ localDW'.is_winStates = "movingDown"
          /\ localDW'.is_movingDown = IF req = "basic_down" THEN "Bsc" ELSE "X"
       \/ /\ req \in UpRequests /\ localDW'.is_winStates = "movingUp"
          /\ localDW'.is_movingUp = IF req = "basic_up" THEN "Bsc" ELSE "X"
          /\ req = "express_up" => localDW'.is_movingUpX = "mux_ppo"

EndsAt(position) ==
    localDW'.is_winStates = "Stopped" /\ localDW'.is_Stopped = position

Timed(counter) == localDW'.temporalCounter_i1 = counter

\* Steps from states without a timer.
StillTurn(req, endStop) ==
    \/ localDW.is_winStates = "none" /\ EndsAt("unknownPos")
    \/ /\ localDW.is_winStates = "Stopped" /\ req \in Heeded(localDW.is_Stopped)
       /\ Began(req)
    \/ /\ localDW.is_winStates = "Stopped" /\ req \notin Heeded(localDW.is_Stopped)
       /\ EndsAt(IF localDW.is_Stopped = "unknownPos" THEN "partiallyOpen"
                                                      ELSE localDW.is_Stopped)
    \/ localDW.is_winStates = "coolDown" /\ req = "neutral" /\ EndsAt("unknownPos")
    \/ /\ localDW.is_winStates = "coolDown" /\ req # "neutral"
       /\ localDW'.is_winStates = "coolDown"
    \/ localDW.is_winStates = "retracting" /\ endStop /\ EndsAt("fullyOpen")
    \/ /\ localDW.is_winStates = "retracting" /\ ~endStop
       /\ localDW'.is_winStates = "retracting"

DownTurn(req, endStop) ==
    LET older == localDW.temporalCounter_i1 + 1
    IN  /\ localDW.is_winStates = "movingDown"
        /\ \/ endStop /\ EndsAt("fullyOpen")
           \/ ~endStop /\ req \in UpRequests /\ Began(req)
           \/ ~endStop /\ older >= MoveTicks /\ localDW'.is_winStates = "coolDown"
           \/ /\ ~endStop /\ localDW.is_movingDown = "Bsc" /\ req = "neutral"
              /\ EndsAt("partiallyOpen")
           \/ /\ ~endStop /\ req \notin UpRequests
              /\ ~(localDW.is_movingDown = "Bsc" /\ req = "neutral")
              /\ localDW'.is_winStates = "movingDown" /\ Timed(older)
              /\ localDW'.is_movingDown = IF req = "express_down" THEN "X"
                                          ELSE localDW.is_movingDown

UpTurn(req, endStop, obstacle) ==
    LET older == localDW.temporalCounter_i1 + 1
        guarded == localDW.is_movingUp = "X" /\ localDW.is_movingUpX = "mux_pp"
    IN  /\ localDW.is_winStates = "movingUp"
        /\ \/ endStop /\ EndsAt("fullyClosed")
           \/ ~endStop /\ older >= MoveTicks /\ localDW'.is_winStates = "coolDown"
           \/ ~endStop /\ req \in DownRequests /\ Began(req)
           \/ /\ ~endStop /\ localDW.is_movingUp = "Bsc" /\ req = "neutral"
              /\ EndsAt("partiallyOpen")
           \/ /\ ~endStop /\ localDW.is_movingUp = "Bsc"
              /\ req \notin DownRequests \cup {"neutral"}
              /\ localDW'.is_winStates = "movingUp" /\ Timed(older)
              /\ localDW'.is_movingUp = IF req = "express_up" THEN "X" ELSE "Bsc"
              /\ req = "express_up" => localDW'.is_movingUpX = "mux_ppo"
           \/ /\ ~endStop /\ guarded /\ obstacle /\ req \notin DownRequests
              /\ localDW'.is_winStates = "retracting"
           \/ /\ ~endStop /\ localDW.is_movingUp = "X" /\ req \notin DownRequests
              /\ ~(guarded /\ obstacle)
              /\ localDW'.is_winStates = "movingUp" /\ Timed(older)
              /\ localDW'.is_movingUp = "X"
              /\ localDW'.is_movingUpX = IF req # "express_up" THEN "mux_pp"
                                         ELSE localDW.is_movingUpX

Turn(req, endStop, obstacle) ==
    \/ StillTurn(req, endStop)
    \/ DownTurn(req, endStop)
    \/ UpTurn(req, endStop, obstacle)

\* Every call of WinControllerRunnable is one of these turns.  Under each action
\* the first step lists the fields of the new record.
LEMMA StepIsTurn ==
    ASSUME ChartInv,
           NEW req \in requestType, NEW endStop \in BOOLEAN, NEW obstacle \in BOOLEAN,
           WinControllerRunnable(req, endStop, obstacle)
    PROVE  Turn(req, endStop, obstacle)
  <1> USE DEF EndsAt, Timed
  <1>t. Ticked \in DW
    BY TickedType DEF ChartInv, TypeOK
  <1>f. Fields(Ticked, localDW.is_active, localDW.is_winStates, localDW.is_Stopped,
               localDW.is_movingDown, localDW.is_movingUp, localDW.is_movingUpX,
               Ticked.temporalCounter_i1)
    BY TickedType DEF Fields, ChartInv, TypeOK
  <1>c. localDW.is_winStates \in {"movingDown", "movingUp"} =>
          Ticked.temporalCounter_i1 = localDW.temporalCounter_i1 + 1
    BY TickedType, TimerAssumption DEF ChartInv, TypeOK, TimerBoundsMotion, DW
  <1>x. /\ localDW.is_movingUp \in {"none", "Bsc", "X"}
        /\ localDW.is_movingDown \in {"none", "Bsc", "X"}
        /\ localDW.is_movingUpX \in {"none", "mux_pp", "mux_ppo"}
        /\ localDW.is_Stopped \in {"none", "unknownPos", "fullyClosed", "fullyOpen", "partiallyOpen"}
    BY DEF ChartInv, TypeOK, DW
  <1>1. CASE Activate
    <2>1. Fields(localDW', TRUE, "Stopped", "unknownPos",
                 localDW.is_movingDown, localDW.is_movingUp, localDW.is_movingUpX, Ticked.temporalCounter_i1)
      BY <1>1, <1>t, <1>f
      DEF Activate, EnterStopped, Fields, DW
    <2>2. QED
      BY <1>1, <2>1, <1>c, <1>x
      DEF Activate, StillTurn, During, Fields, ChartInv, SubstatesMatch, Turn
  <1>2. CASE StartMotion(req)
    <2>1. CASE req = "basic_down"
      <3>1. Fields(localDW', localDW.is_active, "movingDown", "none",
                   "Bsc", localDW.is_movingUp, localDW.is_movingUpX, 0)
        BY <1>2, <2>1, <1>t, <1>f
        DEF StartMotion, EnterMotion, EnterMovingDown, LeaveStopped, Fields, DW
      <3>2. QED
        BY <1>2, <2>1, <3>1, <1>c, <1>x
        DEF StartMotion, Heeded, Began, DownRequests, UpRequests, StillTurn, During, Fields, ChartInv, SubstatesMatch, Turn
    <2>2. CASE req = "express_down"
      <3>1. Fields(localDW', localDW.is_active, "movingDown", "none",
                   "X", localDW.is_movingUp, localDW.is_movingUpX, 0)
        BY <1>2, <2>2, <1>t, <1>f
        DEF StartMotion, EnterMotion, EnterMovingDown, LeaveStopped, Fields, DW
      <3>2. QED
        BY <1>2, <2>2, <3>1, <1>c, <1>x
        DEF StartMotion, Heeded, Began, DownRequests, UpRequests, StillTurn, During, Fields, ChartInv, SubstatesMatch, Turn
    <2>3. CASE req = "basic_up"
      <3>1. Fields(localDW', localDW.is_active, "movingUp", "none",
                   localDW.is_movingDown, "Bsc", localDW.is_movingUpX, 0)
        BY <1>2, <2>3, <1>t, <1>f
        DEF StartMotion, EnterMotion, EnterMovingUp, LeaveStopped, Fields, DW
      <3>2. QED
        BY <1>2, <2>3, <3>1, <1>c, <1>x
        DEF StartMotion, Heeded, Began, DownRequests, UpRequests, StillTurn, During, Fields, ChartInv, SubstatesMatch, Turn
    <2>4. CASE req = "express_up"
      <3>1. Fields(localDW', localDW.is_active, "movingUp", "none",
                   localDW.is_movingDown, "X", "mux_ppo", 0)
        BY <1>2, <2>4, <1>t, <1>f
        DEF StartMotion, EnterMotion, EnterMovingUp, LeaveStopped, Fields, DW
      <3>2. QED
        BY <1>2, <2>4, <3>1, <1>c, <1>x
        DEF StartMotion, Heeded, Began, DownRequests, UpRequests, StillTurn, During, Fields, ChartInv, SubstatesMatch, Turn
    <2>5. QED
      BY <1>2, <2>1, <2>2, <2>3, <2>4 DEF StartMotion, Heeded, DownRequests, UpRequests
  <1>3. CASE StayStopped(req)
    <2>1. CASE localDW.is_Stopped \in {"fullyClosed", "fullyOpen", "partiallyOpen"}
      <3>1. Fields(localDW', localDW.is_active, localDW.is_winStates, localDW.is_Stopped,
                   localDW.is_movingDown, localDW.is_movingUp, localDW.is_movingUpX, Ticked.temporalCounter_i1)
        BY <1>3, <2>1, <1>t, <1>f
        DEF StayStopped, Fields, DW
      <3>2. QED
        BY <1>3, <2>1, <3>1, <1>c, <1>x
        DEF StayStopped, StillTurn, During, Fields, ChartInv, SubstatesMatch, Turn
    <2>2. CASE localDW.is_Stopped \notin {"fullyClosed", "fullyOpen", "partiallyOpen"}
      <3>1. Fields(localDW', localDW.is_active, "Stopped", "partiallyOpen",
                   localDW.is_movingDown, localDW.is_movingUp, localDW.is_movingUpX, Ticked.temporalCounter_i1)
        BY <1>3, <2>2, <1>t, <1>f
        DEF StayStopped, EnterStopped, Fields, DW
      <3>2. QED
        BY <1>3, <2>2, <3>1, <1>c, <1>x
        DEF StayStopped, StillTurn, During, Fields, ChartInv, SubstatesMatch, Turn
    <2>3. QED
      BY <1>3, <2>1, <2>2
  <1>4. CASE CooledDown(req)
    <2>1. Fields(localDW', localDW.is_active, "Stopped", "unknownPos",
                 localDW.is_movingDown, localDW.is_movingUp, localDW.is_movingUpX, Ticked.temporalCounter_i1)
      BY <1>4, <1>t, <1>f
      DEF CooledDown, EnterStopped, Fields, DW
    <2>2. QED
      BY <1>4, <2>1, <1>c, <1>x
      DEF CooledDown, StillTurn, During, Fields, ChartInv, SubstatesMatch, Turn
  <1>5. CASE StayCoolDown(req)
    <2>1. Fields(localDW', localDW.is_active, localDW.is_winStates, localDW.is_Stopped,
                 localDW.is_movingDown, localDW.is_movingUp, localDW.is_movingUpX, Ticked.temporalCounter_i1)
      BY <1>5, <1>t, <1>f
      DEF StayCoolDown, Fields, DW
    <2>2. QED
      BY <1>5, <2>1, <1>c, <1>x
      DEF StayCoolDown, StillTurn, During, Fields, ChartInv, SubstatesMatch, Turn
  <1>6. CASE DownEndStop(endStop)
    <2>1. Fields(localDW', localDW.is_active, "Stopped", "fullyOpen",
                 "none", localDW.is_movingUp, localDW.is_movingUpX, Ticked.temporalCounter_i1)
      BY <1>6, <1>t, <1>f
      DEF DownEndStop, EnterStopped, LeaveMovingDown, Fields, DW
    <2>2. QED
      BY <1>6, <2>1, <1>c, <1>x
      DEF DownEndStop, DownTurn, During, Fields, ChartInv, SubstatesMatch, Turn
  <1>7. CASE DownReversed(req, endStop)
    <2>1. CASE req = "basic_up"
      <3>1. Fields(localDW', localDW.is_active, "movingUp", localDW.is_Stopped,
                   "none", "Bsc", localDW.is_movingUpX, 0)
        BY <1>7, <2>1, <1>t, <1>f
        DEF DownReversed, EnterMotion, EnterMovingUp, LeaveMovingDown, Fields, DW
      <3>2. QED
        BY <1>7, <2>1, <3>1, <1>c, <1>x
        DEF DownReversed, Expired, Began, DownRequests, UpRequests, DownTurn, During, Fields, ChartInv, SubstatesMatch, Turn
    <2>2. CASE req = "express_up"
      <3>1. Fields(localDW', localDW.is_active, "movingUp", localDW.is_Stopped,
                   "none", "X", "mux_ppo", 0)
        BY <1>7, <2>2, <1>t, <1>f
        DEF DownReversed, EnterMotion, EnterMovingUp, LeaveMovingDown, Fields, DW
      <3>2. QED
        BY <1>7, <2>2, <3>1, <1>c, <1>x
        DEF DownReversed, Expired, Began, DownRequests, UpRequests, DownTurn, During, Fields, ChartInv, SubstatesMatch, Turn
    <2>3. QED
      BY <1>7, <2>1, <2>2 DEF DownReversed
  <1>8. CASE DownExpired(req, endStop)
    <2>1. Fields(localDW', localDW.is_active, "coolDown", localDW.is_Stopped,
                 "none", localDW.is_movingUp, localDW.is_movingUpX, Ticked.temporalCounter_i1)
      BY <1>8, <1>t, <1>f
      DEF DownExpired, EnterCoolDown, LeaveMovingDown, Fields, DW
    <2>2. QED
      BY <1>8, <2>1, <1>c, <1>x
      DEF DownExpired, Expired, DownTurn, During, Fields, ChartInv, SubstatesMatch, Turn
  <1>9. CASE DownReleased(req, endStop)
    <2>1. Fields(localDW', localDW.is_active, "Stopped", "partiallyOpen",
                 "none", localDW.is_movingUp, localDW.is_movingUpX, Ticked.temporalCounter_i1)
      BY <1>9, <1>t, <1>f
      DEF DownReleased, EnterStopped, LeaveMovingDown, Fields, DW
    <2>2. QED
      BY <1>9, <2>1, <1>c, <1>x
      DEF DownReleased, DownContinues, Expired, DownTurn, During, Fields, ChartInv, SubstatesMatch, Turn
  <1>10. CASE DownStep(req, endStop)
    <2>1. CASE localDW.is_movingDown = "Bsc" /\ req = "express_down"
      <3>1. Fields(localDW', localDW.is_active, localDW.is_winStates, localDW.is_Stopped,
                   "X", localDW.is_movingUp, localDW.is_movingUpX, Ticked.temporalCounter_i1)
        BY <1>10, <2>1, <1>t, <1>f
        DEF DownStep, During, Fields, DW
      <3>2. QED
        BY <1>10, <2>1, <3>1, <1>c, <1>x
        DEF DownStep, DownContinues, Expired, DownTurn, During, Fields, ChartInv, SubstatesMatch, Turn
    <2>2. CASE ~(localDW.is_movingDown = "Bsc" /\ req = "express_down")
      <3>1. Fields(localDW', localDW.is_active, localDW.is_winStates, localDW.is_Stopped,
                   localDW.is_movingDown, localDW.is_movingUp, localDW.is_movingUpX, Ticked.temporalCounter_i1)
        BY <1>10, <2>2, <1>t, <1>f
        DEF DownStep, During, Fields, DW
      <3>2. QED
        BY <1>10, <2>2, <3>1, <1>c, <1>x
        DEF DownStep, DownContinues, Expired, DownTurn, During, Fields, ChartInv, SubstatesMatch, Turn
    <2>3. QED
      BY <1>10, <2>1, <2>2
  <1>11. CASE UpEndStop(endStop)
    <2>1. Fields(localDW', localDW.is_active, "Stopped", "fullyClosed",
                 localDW.is_movingDown, "none", "none", Ticked.temporalCounter_i1)
      BY <1>11, <1>t, <1>f
      DEF UpEndStop, EnterStopped, LeaveMovingUp, Fields, DW
    <2>2. QED
      BY <1>11, <2>1, <1>c, <1>x
      DEF UpEndStop, UpTurn, During, Fields, ChartInv, SubstatesMatch, Turn
  <1>12. CASE UpExpired(endStop)
    <2>1. Fields(localDW', localDW.is_active, "coolDown", localDW.is_Stopped,
                 localDW.is_movingDown, "none", "none", Ticked.temporalCounter_i1)
      BY <1>12, <1>t, <1>f
      DEF UpExpired, EnterCoolDown, LeaveMovingUp, Fields, DW
    <2>2. QED
      BY <1>12, <2>1, <1>c, <1>x
      DEF UpExpired, Expired, UpTurn, During, Fields, ChartInv, SubstatesMatch, Turn
  <1>13. CASE UpReversed(req, endStop)
    <2>1. CASE req = "basic_down"
      <3>1. Fields(localDW', localDW.is_active, "movingDown", localDW.is_Stopped,
                   "Bsc", "none", "none", 0)
        BY <1>13, <2>1, <1>t, <1>f
        DEF UpReversed, EnterMotion, EnterMovingDown, LeaveMovingUp, Fields, DW
      <3>2. QED
        BY <1>13, <2>1, <3>1, <1>c, <1>x
        DEF UpReversed, Expired, Began, DownRequests, UpRequests, UpTurn, During, Fields, ChartInv, SubstatesMatch, Turn
    <2>2. CASE req = "express_down"
      <3>1. Fields(localDW', localDW.is_active, "movingDown", localDW.is_Stopped,
                   "X", "none", "none", 0)
        BY <1>13, <2>2, <1>t, <1>f
        DEF UpReversed, EnterMotion, EnterMovingDown, LeaveMovingUp, Fields, DW
      <3>2. QED
        BY <1>13, <2>2, <3>1, <1>c, <1>x
        DEF UpReversed, Expired, Began, DownRequests, UpRequests, UpTurn, During, Fields, ChartInv, SubstatesMatch, Turn
    <2>3. QED
      BY <1>13, <2>1, <2>2 DEF UpReversed, DownRequests
  <1>14. CASE UpReleased(req, endStop)
    <2>1. Fields(localDW', localDW.is_active, "Stopped", "partiallyOpen",
                 localDW.is_movingDown, "none", localDW.is_movingUpX, Ticked.temporalCounter_i1)
      BY <1>14, <1>t, <1>f
      DEF UpReleased, EnterStopped, Fields, DW
    <2>2. QED
      BY <1>14, <2>1, <1>c, <1>x
      DEF UpReleased, UpContinues, Expired, UpTurn, During, Fields, ChartInv, SubstatesMatch, Turn
  <1>15. CASE UpBscStep(req, endStop)
    <2>1. CASE req = "express_up"
      <3>1. Fields(localDW', localDW.is_active, localDW.is_winStates, localDW.is_Stopped,
                   localDW.is_movingDown, "X", "mux_ppo", Ticked.temporalCounter_i1)
        BY <1>15, <2>1, <1>t, <1>f
        DEF UpBscStep, Fields, DW
      <3>2. QED
        BY <1>15, <2>1, <3>1, <1>c, <1>x
        DEF UpBscStep, UpContinues, Expired, UpTurn, During, Fields, ChartInv, SubstatesMatch, Turn
    <2>2. CASE req # "express_up"
      <3>1. Fields(localDW', localDW.is_active, localDW.is_winStates, localDW.is_Stopped,
                   localDW.is_movingDown, localDW.is_movingUp, localDW.is_movingUpX, Ticked.temporalCounter_i1)
        BY <1>15, <2>2, <1>t, <1>f
        DEF UpBscStep, Fields, DW
      <3>2. QED
        BY <1>15, <2>2, <3>1, <1>c, <1>x
        DEF UpBscStep, UpContinues, Expired, UpTurn, During, Fields, ChartInv, SubstatesMatch, Turn
    <2>3. QED
      BY <1>15, <2>1, <2>2
  <1>16. CASE UpRetract(req, endStop, obstacle)
    <2>1. Fields(localDW', localDW.is_active, "retracting", localDW.is_Stopped,
                 localDW.is_movingDown, "none", "none", Ticked.temporalCounter_i1)
      BY <1>16, <1>t, <1>f
      DEF UpRetract, EnterRetracting, LeaveMovingUp, Fields, DW
    <2>2. QED
      BY <1>16, <2>1, <1>c, <1>x
      DEF UpRetract, UpContinues, Expired, UpTurn, During, Fields, ChartInv, SubstatesMatch, Turn
  <1>17. CASE UpXStep(req, endStop, obstacle)
    <2>1. CASE localDW.is_movingUpX # "mux_pp" /\ req # "express_up"
      <3>1. Fields(localDW', localDW.is_active, localDW.is_winStates, localDW.is_Stopped,
                   localDW.is_movingDown, localDW.is_movingUp, "mux_pp", Ticked.temporalCounter_i1)
        BY <1>17, <2>1, <1>t, <1>f
        DEF UpXStep, Fields, DW
      <3>2. QED
        BY <1>17, <2>1, <3>1, <1>c, <1>x
        DEF UpXStep, UpContinues, Expired, UpTurn, During, Fields, ChartInv, SubstatesMatch, Turn
    <2>2. CASE ~(localDW.is_movingUpX # "mux_pp" /\ req # "express_up")
      <3>1. Fields(localDW', localDW.is_active, localDW.is_winStates, localDW.is_Stopped,
                   localDW.is_movingDown, localDW.is_movingUp, localDW.is_movingUpX, Ticked.temporalCounter_i1)
        BY <1>17, <2>2, <1>t, <1>f
        DEF UpXStep, Fields, DW
      <3>2. QED
        BY <1>17, <2>2, <3>1, <1>c, <1>x
        DEF UpXStep, UpContinues, Expired, UpTurn, During, Fields, ChartInv, SubstatesMatch, Turn
    <2>3. QED
      BY <1>17, <2>1, <2>2
  <1>18. CASE Retracted(endStop)
    <2>1. Fields(localDW', localDW.is_active, "Stopped", "fullyOpen",
                 localDW.is_movingDown, localDW.is_movingUp, localDW.is_movingUpX, Ticked.temporalCounter_i1)
      BY <1>18, <1>t, <1>f
      DEF Retracted, EnterStopped, Fields, DW
    <2>2. QED
      BY <1>18, <2>1, <1>c, <1>x
      DEF Retracted, StillTurn, During, Fields, ChartInv, SubstatesMatch, Turn
  <1>19. CASE StayRetracting(endStop)
    <2>1. Fields(localDW', localDW.is_active, localDW.is_winStates, localDW.is_Stopped,
                 localDW.is_movingDown, localDW.is_movingUp, localDW.is_movingUpX, Ticked.temporalCounter_i1)
      BY <1>19, <1>t, <1>f
      DEF StayRetracting, Fields, DW
    <2>2. QED
      BY <1>19, <2>1, <1>c, <1>x
      DEF StayRetracting, StillTurn, During, Fields, ChartInv, SubstatesMatch, Turn
  <1>20. QED
    BY <1>1, <1>2, <1>3, <1>4, <1>5, <1>6, <1>7, <1>8, <1>9, <1>10,
       <1>11, <1>12, <1>13, <1>14, <1>15, <1>16, <1>17, <1>18, <1>19
    DEF WinControllerRunnable

-----------------------------------------------------------------------------
(* The inductive invariant: what the observer knows of the chart's state.  *)

Moves(state) == localDW.is_winStates = state

\* The steps in a row are the movement's timer and one.
TimerAges ==
    /\ Moves("movingDown") \/ Moves("movingUp") =>
          runFor = localDW.temporalCounter_i1 + 1
    /\ command = "neutral" => runFor = 0

\* One of two samples of the end stop has found, or left, the motor off.
EndStopHeeded ==
    input.endStop => command = "neutral" \/ before.command = "neutral"

\* Without express requests no express movement, and no retraction either.
BasicOnly ==
    onlyBasic =>
        /\ localDW.is_movingDown # "X" /\ localDW.is_movingUp # "X"
        /\ ~Moves("retracting")

\* A movement without a request is an express one, guarded against pinching.
ReleasedIsExpress ==
    input.req = "neutral" =>
        /\ Moves("movingDown") => localDW.is_movingDown = "X"
        /\ Moves("movingUp") =>
              localDW.is_movingUp = "X" /\ localDW.is_movingUpX = "mux_pp"

PinchRetracts == pinch = "inTime" => Moves("retracting")

\* Letting go of the button is what arms the guard.
ClosingGuarded ==
    closing \in {"held", "released"} =>
        /\ Moves("movingUp") /\ localDW.is_movingUp = "X"
        /\ localDW.is_movingUpX = IF closing = "held" THEN "mux_ppo" ELSE "mux_pp"

\* No movement is older than the request by more than the steps it takes to
\* begin one, and none goes on against the request.
HeldSince ==
    /\ Moves("none") => input.req = "neutral" /\ heldFor = 0
    /\ Moves("retracting") => retracted
    /\ Moves("movingDown") => input.req \notin UpRequests
    /\ Moves("movingUp") => input.req \notin DownRequests
    /\ input.req # "neutral" /\ ~retracted =>
          /\ Moves("Stopped") /\ localDW.is_Stopped = "unknownPos" => heldFor <= 1
          /\ Moves("Stopped") /\ input.req \in Heeded(localDW.is_Stopped) => heldFor <= 2
          /\ Moves("movingDown") \/ Moves("movingUp") =>
                heldFor <= localDW.temporalCounter_i1 + 3

ObjectivesInv ==
    /\ ChartInv /\ ObserverTypeOK
    /\ TimerAges /\ EndStopHeeded /\ BasicOnly /\ ReleasedIsExpress
    /\ PinchRetracts /\ ClosingGuarded /\ HeldSince

\* A step of the chart and of the observer keeps each part of the invariant.
LEMMA StepKeepsObjectivesInv ==
    ASSUME SlotKept, ObjectivesInv, NEW i \in Inputs,
           WinControllerRunnable(i.req, i.endStop, i.obstacle), Observe(i)
    PROVE  ObjectivesInv'
  <1>i. i.req \in requestType /\ i.endStop \in BOOLEAN /\ i.obstacle \in BOOLEAN
    BY DEF Inputs
  <1>1. ChartInv'
    BY <1>i, StepKeepsTypeOK, StepKeepsChartInv DEF ChartInv, ObjectivesInv
  <1>t. Turn(i.req, i.endStop, i.obstacle)
    BY <1>i, StepIsTurn DEF ObjectivesInv
  <1>c. command = CommandOf(localDW) /\ command' = CommandOf(localDW')
    BY <1>1 DEF ObjectivesInv, ChartInv, CommandFollowsState
  <1>k. /\ MoveTicks \in Nat \ {0} /\ localDW.temporalCounter_i1 \in Nat
        /\ runFor \in Nat /\ heldFor \in Nat
        /\ ObserverCap = 2 * MoveTicks + 4
    BY TimerAssumption DEF ObjectivesInv, ChartInv, TypeOK, DW, ObserverTypeOK, ObserverCap
  <1>b. Moves("movingDown") \/ Moves("movingUp") => localDW.temporalCounter_i1 < MoveTicks
    BY DEF ObjectivesInv, ChartInv, TimerBoundsMotion, Moves
  <1>s. /\ ChartInv => SubstatesMatch /\ TypeOK
        /\ ChartInv' => SubstatesMatch' /\ TypeOK'
    BY DEF ChartInv
  <1> DEFINE s == localDW.is_winStates
             s2 == localDW'.is_winStates
  <1>2. ObserverTypeOK'
    <2>1. \A n \in 0..ObserverCap : Count(n) \in 0..ObserverCap
      BY <1>k DEF Count
    <2>2. runFor' \in 0..ObserverCap /\ heldFor' \in 0..ObserverCap
      BY <2>1, <1>k DEF Observe, ObjectivesInv, ObserverTypeOK
    <2>3. onlyBasic' \in BOOLEAN
      BY DEF Observe, ObjectivesInv, ObserverTypeOK
    <2>4. retracted' \in BOOLEAN
      BY DEF Observe, ObjectivesInv, ObserverTypeOK
    <2>5. /\ input' \in Inputs
          /\ before' \in [req : requestType, endStop : BOOLEAN,
                          command : commandType \cup {Garbage}]
      BY DEF Observe, ObjectivesInv, ObserverTypeOK, Inputs, ChartInv, TypeOK
    <2>6. pinch' \in {"no", "inTime", "late"}
      BY DEF Observe, ObjectivesInv, ObserverTypeOK
    <2>7. closing' \in {"no", "held", "released", "late", "contested"}
      BY DEF Observe, ObjectivesInv, ObserverTypeOK, StillClosing
    <2>8. QED BY <2>2, <2>3, <2>4, <2>5, <2>6, <2>7 DEF ObserverTypeOK
  <1>3. TimerAges'
    BY <1>t, <1>c, <1>k, <1>b
    DEF Turn, StillTurn, DownTurn, UpTurn, Began, EndsAt, Timed, Observe, Count,
        ObjectivesInv, TimerAges, Moves, CommandOf, Heeded, DownRequests, UpRequests
  <1>4. EndStopHeeded'
    BY <1>t, <1>c
    DEF Turn, StillTurn, DownTurn, UpTurn, EndsAt, Observe, EndStopHeeded, CommandOf
  <1>5. BasicOnly'
    BY <1>t, <1>1, <1>s
    DEF Turn, StillTurn, DownTurn, UpTurn, Began, EndsAt, Timed, Observe, SubstatesMatch,
        ObjectivesInv, BasicOnly, Moves, DownRequests, UpRequests
  <1>6. ReleasedIsExpress'
    BY <1>t, <1>1, <1>s
    DEF Turn, StillTurn, DownTurn, UpTurn, Began, EndsAt, Timed, Observe, SubstatesMatch,
        ObjectivesInv, ReleasedIsExpress, Moves, DownRequests, UpRequests, TypeOK, DW
  <1>7. PinchRetracts'
    BY <1>t, <1>c, <1>k
    DEF Turn, StillTurn, DownTurn, UpTurn, Began, EndsAt, Timed, Observe, CommandOf,
        ObjectivesInv, PinchRetracts, ReleasedIsExpress, TimerAges, ReleasedExpressUp, TimeUp,
        Moves, DownRequests, UpRequests
  <1>8. ClosingGuarded'
    BY <1>t, <1>c, <1>k
    DEF Turn, StillTurn, DownTurn, UpTurn, Began, EndsAt, Timed, Observe, CommandOf,
        ObjectivesInv, ClosingGuarded, TimerAges, StillClosing, CalledOff, TimeUp,
        Moves, DownRequests, UpRequests
  <1>9. HeldSince'
    BY <1>t, <1>k, <1>b
    DEF Turn, StillTurn, DownTurn, UpTurn, Began, EndsAt, Timed, Observe, Count,
        ObjectivesInv, HeldSince, Moves, Heeded, DownRequests, UpRequests
  <1>10. QED
    BY <1>1, <1>2, <1>3, <1>4, <1>5, <1>6, <1>7, <1>8, <1>9 DEF ObjectivesInv

\* Where the stack slot is kept, the invariant holds of every observed run.
LEMMA ObjectivesInvariant ==
    ASSUME SlotKept PROVE ObservedSpec => []ObjectivesInv
  <1>1. Init /\ ObserverInit => ObjectivesInv
    <2> SUFFICES ASSUME Init, ObserverInit PROVE ObjectivesInv
      OBVIOUS
    <2>1. ChartInv
      BY TimerAssumption
      DEF Init, ChartInv, TypeOK, DW, commandType, SubstatesMatch, TimerBoundsMotion,
          CommandFollowsState, CommandOf
    <2>2. ObserverTypeOK
      <3>1. 0 \in 0..ObserverCap
        BY TimerAssumption DEF ObserverCap
      <3>2. QED
        BY <3>1 DEF ObserverInit, ObserverTypeOK, Inputs, requestType, commandType
    <2>3. QED
      BY <2>1, <2>2
      DEF Init, ObserverInit, ObjectivesInv, TimerAges, EndStopHeeded, BasicOnly,
          ReleasedIsExpress, PinchRetracts, ClosingGuarded, HeldSince, Moves
  <1>2. ObjectivesInv /\ [ObservedNext]_vars => ObjectivesInv'
    <2> SUFFICES ASSUME ObjectivesInv, [ObservedNext]_vars PROVE ObjectivesInv'
      OBVIOUS
    <2>1. CASE ObservedNext
      BY <2>1, StepKeepsObjectivesInv DEF ObservedNext
    <2>2. CASE UNCHANGED vars
      <3>1. ChartInv' /\ ObserverTypeOK'
        BY <2>2
        DEF vars, chartVars, observer, ObjectivesInv, ChartInv, TypeOK, SubstatesMatch,
            TimerBoundsMotion, CommandFollowsState, CommandOf, ObserverTypeOK
      <3>2. QED
        BY <2>2, <3>1
        DEF vars, chartVars, observer, ObjectivesInv, TimerAges, EndStopHeeded, BasicOnly,
            ReleasedIsExpress, PinchRetracts, ClosingGuarded, HeldSince, Moves
    <2>3. QED BY <2>1, <2>2
  <1>3. QED
    BY <1>1, <1>2, PTL DEF ObservedSpec

\* Motor Safety: two samples of the end stop running leave, once at least, the
\* command neutral, whatever is requested (verification.mdl:2558).
THEOREM EndStopStops == ASSUME SlotKept PROVE ObservedSpec => []MotorSafety
  <1>1. ObjectivesInv => MotorSafety
    BY DEF ObjectivesInv, EndStopHeeded, MotorSafety
  <1>2. QED BY <1>1, ObjectivesInvariant, PTL

\* Predictability: without any express request there is no command without a
\* request (verification.mdl:3027).
THEOREM NoUnaskedMotion == ASSUME SlotKept PROVE ObservedSpec => []Predictability
  <1>1. ObjectivesInv => Predictability
    BY DEF ObjectivesInv, ChartInv, CommandFollowsState, CommandOf, BasicOnly,
           ReleasedIsExpress, Moves, Predictability
  <1>2. QED BY <1>1, ObjectivesInvariant, PTL

\* User Safety: an obstacle met in a released express up, before the movement's
\* time is up, makes the window go down to the end stop (verification.mdl:4096).
THEOREM PinchedWindowOpens == ASSUME SlotKept PROVE ObservedSpec => []UserSafety
  <1>1. ObjectivesInv => UserSafety
    BY DEF ObjectivesInv, ChartInv, CommandFollowsState, CommandOf, PinchRetracts,
           Moves, UserSafety
  <1>2. QED BY <1>1, ObjectivesInvariant, PTL

\* Robustness: a request that never ends leaves the motor off, unless an obstacle
\* made the window retract (verification.mdl:3363).
THEOREM StuckSwitchStops == ASSUME SlotKept PROVE ObservedSpec => []Robustness
  <1>1. ObjectivesInv => Robustness
    <2> SUFFICES ASSUME ObjectivesInv, input.req # "neutral", heldFor >= MoveTicks + 3,
                        ~retracted
                 PROVE  command = "neutral"
      BY DEF Robustness
    <2>1. /\ localDW.temporalCounter_i1 \in Nat /\ heldFor \in Nat /\ MoveTicks \in Nat
      BY TimerAssumption DEF ObjectivesInv, ChartInv, TypeOK, DW, ObserverTypeOK
    <2>2. ~Moves("movingDown") /\ ~Moves("movingUp")
      BY <2>1 DEF ObjectivesInv, ChartInv, TimerBoundsMotion, HeldSince, Moves
    <2>3. QED
      BY <2>2 DEF ObjectivesInv, HeldSince, ChartInv, CommandFollowsState, CommandOf, Moves
  <1>2. QED BY <1>1, ObjectivesInvariant, PTL

\* No movement lasts longer than its timer, other than a retraction: reversing,
\* or turning basic into express, gains no time in one direction.
THEOREM MotionEnds == ASSUME SlotKept PROVE ObservedSpec => []MotionBounded
  <1>1. ObjectivesInv => MotionBounded
    <2> SUFFICES ASSUME ObjectivesInv, runFor > MoveTicks PROVE Moves("retracting")
      BY DEF MotionBounded, Moves
    <2>1. localDW.temporalCounter_i1 \in Nat /\ MoveTicks \in Nat
      BY TimerAssumption DEF ObjectivesInv, ChartInv, TypeOK, DW
    <2>2. ~Moves("movingDown") /\ ~Moves("movingUp")
      BY <2>1 DEF ObjectivesInv, ChartInv, TimerBoundsMotion, TimerAges, Moves
    <2>3. command # "neutral"
      BY <2>1 DEF ObjectivesInv, TimerAges
    <2>4. QED
      BY <2>2, <2>3 DEF ObjectivesInv, ChartInv, CommandFollowsState, CommandOf, Moves
  <1>2. QED BY <1>1, ObjectivesInvariant, PTL

\* Liveness as the chart keeps it: an express up that is not called off stays up
\* for the movement's time (verification.mdl:2230).
THEOREM ExpressKeepsUp == ASSUME SlotKept PROVE ObservedSpec => []ExpressUp
  <1>1. ObjectivesInv => ExpressUp
    BY DEF ObjectivesInv, ChartInv, CommandFollowsState, CommandOf, ClosingGuarded,
           Moves, ExpressUp
  <1>2. QED BY <1>1, ObjectivesInvariant, PTL
=============================================================================
