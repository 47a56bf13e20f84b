--------------------------- MODULE WinObjectives ---------------------------
(***************************************************************************)
(* The proof objectives the repository states for the controller, in       *)
(* src/Simulink/Controller/Verification/verification.mdl, checked against  *)
(* the C chart: Motor Safety (line 2558), User Safety (4096), Robustness   *)
(* (3363), Predictability (3027) and Liveness (2230).                      *)
(*                                                                         *)
(* They speak of the controller's inputs and of its command over several   *)
(* steps, never of the chart's states, so this module adds an observer     *)
(* beside the chart.  The observer only remembers; it never guards a step. *)
(***************************************************************************)
EXTENDS WinController

VARIABLES
    input,     \* the inputs the last step sampled
    before,    \* request, end stop and command as they were one step earlier
    onlyBasic, \* no express request was ever sampled
    runFor,    \* how many steps in a row the command has had its direction
    heldFor,   \* how many steps in a row the request has been the same
    retracted, \* the chart retracted during the present request
    pinch,     \* an obstacle met in released express up, not yet at the end stop
    closing    \* an express up under way, that nothing called off

observer == <<input, before, onlyBasic, runFor, heldFor, retracted, pinch, closing>>
vars == <<chartVars, observer>>

\* Bound of the observer's step counters.
ObserverCap == 2 * MoveTicks + 4
Count(n) == IF n < ObserverCap THEN n + 1 ELSE n

Inputs == [req : requestType, endStop : BOOLEAN, obstacle : BOOLEAN]

ObserverInit ==
    /\ input = [req |-> "neutral", endStop |-> FALSE, obstacle |-> FALSE]
    /\ before = [req |-> "neutral", endStop |-> FALSE, command |-> "neutral"]
    /\ onlyBasic = TRUE
    /\ runFor = 0 /\ heldFor = 0
    /\ retracted = FALSE
    /\ pinch = "no" /\ closing = "no"

\* The movement under way has had all its steps: the next one must end it.
TimeUp == runFor >= MoveTicks

\* An express up the driver has let go of: the command is still up although
\* the request has been neutral for two steps.
ReleasedExpressUp(i) ==
    command = "up" /\ input.req = "neutral" /\ i.req = "neutral"

\* An obstacle ends an express up unless the driver overrides it.
CalledOff(i) == i.obstacle /\ i.req # "express_up"

\* An override is contested when the button was let go of in between.
StillClosing(i) ==
    CASE TimeUp                                        -> "late"
      [] ~TimeUp /\ closing = "held"                   ->
            IF i.req = "express_up" THEN "held" ELSE "released"
      [] ~TimeUp /\ closing = "released" /\ i.obstacle -> "contested"
      [] OTHER                                         -> closing

Observe(i) ==
    /\ input' = i
    /\ before' = [req |-> input.req, endStop |-> input.endStop, command |-> command]
    /\ onlyBasic' = (onlyBasic /\ i.req \in {"neutral", "basic_down", "basic_up"})
    /\ runFor' = IF command' \notin {"up", "down"} THEN 0
                 ELSE IF command' = command THEN Count(runFor) ELSE 1
    /\ heldFor' = IF i.req = input.req THEN Count(heldFor) ELSE 1
    /\ retracted' = \/ localDW'.is_winStates = "retracting"
                    \/ retracted /\ i.req = input.req
    /\ pinch' = IF i.endStop THEN "no"
                ELSE IF pinch = "no" /\ ReleasedExpressUp(i) /\ i.obstacle
                     THEN IF TimeUp THEN "late" ELSE "inTime"
                     ELSE pinch
    /\ closing' = IF i.endStop \/ i.req \in DownRequests \/ CalledOff(i) THEN "no"
                  ELSE IF closing = "no"
                       THEN IF i.req = "express_up" /\ command # "up" /\ command' = "up"
                            THEN "held" ELSE "no"
                       ELSE StillClosing(i)

ObservedNext ==
    \E i \in Inputs : WinControllerRunnable(i.req, i.endStop, i.obstacle) /\ Observe(i)

ObservedSpec == Init /\ ObserverInit /\ [][ObservedNext]_vars
ObservedFairSpec == ObservedSpec /\ WF_vars(ObservedNext)

ObserverTypeOK ==
    /\ input \in Inputs
    /\ before \in [req : requestType, endStop : BOOLEAN,
                   command : commandType \cup {Garbage}]
    /\ onlyBasic \in BOOLEAN /\ retracted \in BOOLEAN
    /\ runFor \in 0..ObserverCap /\ heldFor \in 0..ObserverCap
    /\ pinch \in {"no", "inTime", "late"}
    /\ closing \in {"no", "held", "released", "late", "contested"}

-----------------------------------------------------------------------------
(* The objectives.                                                         *)

\* Motor Safety (verification.mdl:2558, "After end of travel is detected,
\* Stop within 2 time steps"): with the end stop sampled in two steps
\* running, one of the two left the command neutral, whatever the request.
MotorSafety ==
    input.endStop /\ before.endStop =>
        command = "neutral" \/ before.command = "neutral"

\* Predictability (verification.mdl:3027, "If there is no request, there is
\* no command unless there is a delayed action e.g. express"): a driver who
\* never asked for an express movement gets no movement on a neutral request.
Predictability == onlyBasic /\ input.req = "neutral" => command = "neutral"

\* User Safety (verification.mdl:4096, "If obstacle is detected in express up
\* (not overriden), then issue down command to Motor until endStop is reached")
\* as the chart keeps it: the timer of the movement wins over an obstacle
\* sampled in the very step in which the movement's time is up.
UserSafety == pinch = "inTime" => command = "down"

\* Robustness (verification.mdl:3363, "If the switch issues up or down request
\* for more than 10 seconds (switch fault), stop the motor") as the chart keeps
\* it: unless an obstacle made the window retract while the request was held.
\* The three steps are entering the chart, leaving the unknown position and
\* starting the movement.
Robustness ==
    /\ input.req # "neutral" /\ heldFor >= MoveTicks + 3
    /\ ~retracted
    => command = "neutral"

\* No movement lasts longer than the timer allows, however the requests
\* change, other than a retraction, which no timer ends.
MotionBounded == runFor > MoveTicks => localDW.is_winStates = "retracting"

\* Liveness (verification.mdl:2230, "If expressUp is requested, up command
\* should be issued until window is fully closed (unless there is an obstacle
\* and user is not overriding)") as the chart keeps it, within the movement's
\* time: only holding the button from the start of the movement overrides the
\* pinch protection.
ExpressUp == closing \in {"held", "released"} => command = "up"

\* A driver who lets go for good sees the motor stop for good, unless the
\* window is left retracting by an end stop that never comes.
MotorComesToRest ==
    <>[](input.req = "neutral") =>
        <>[](command = "neutral" \/ localDW.is_winStates = "retracting")
=============================================================================
