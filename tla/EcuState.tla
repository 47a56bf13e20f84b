------------------------------ MODULE EcuState ------------------------------
(***************************************************************************)
(* The ECU state manager, fixed variant (core/system/EcuM).                *)
(*                                                                         *)
(* The task SchM_BswService calls EcuM_MainFunction periodically, which    *)
(* takes the ECU through RUN, POST_RUN, shutdown or sleep, and wake-up.    *)
(* Other tasks request and release RUN, kill all requests and select where *)
(* a shutdown leads; interrupts set and validate wake-up events at any     *)
(* moment.  A step is a call, except where other code can see it half      *)
(* done: start-up writes the state before the run time-out; a call of       *)
(* EcuM_MainFunction tests the requests before it writes the state, and    *)
(* from sleep to validation reads the pending events twice (`at`); and     *)
(* requests are words that are loaded, changed and stored (`update`).      *)
(* Changes of the event words are taken as atomic.                         *)
(*                                                                         *)
(* Communication, diagnostics and mode management (COMM, DEM, BSWM) are    *)
(* not configured.  Callouts of the integrator do nothing to this state.   *)
(***************************************************************************)
EXTENDS Integers

CONSTANTS
    User, Source,       \* who requests RUN; wake-up sources of the integrator
    Power, None,        \* the predefined source of the reset; no update
    NoValidation,       \* sources with ECUM_VALIDATION_TIMEOUT_ILL
    ValidationTime,     \* of the other sources, in periods of the main function
    RunMinimum,         \* EcuMRunMinimumDuration, in periods
    NvramTime,          \* EcuMNvramWriteAllTimeout, in periods; 0 without NVM
    DefaultTarget, Selected, \* shutdown targets
    Callers,            \* users that request and release RUN and POST_RUN
    Preempted           \* requests whose changes may be preempted

Target == {"OFF", "RESET", "SLEEP"}
Asked == {"RUN", "POST_RUN"}

ASSUME EcuAssumption ==
    /\ Power \notin Source /\ NoValidation \subseteq Source
    /\ ValidationTime \in [Source \ NoValidation -> Nat]
    /\ Source \ NoValidation # {} =>
          \E s \in Source \ NoValidation : \A t \in Source \ NoValidation :
              ValidationTime[t] <= ValidationTime[s]
    /\ RunMinimum \in Nat /\ NvramTime \in Nat
    /\ DefaultTarget \in Target /\ Selected \subseteq Target
    /\ Callers \in [Asked -> SUBSET User] /\ Preempted \subseteq Asked

VARIABLES
    world,    \* EcuM_World and the time-outs
    at,       \* where EcuM_MainFunction is: idle between calls
    wMask, pendingWkupMask, \* its two readings of the pending events, while used
    locked,   \* it holds RES_SCHEDULER
    starting, \* where EcuM_StartupTwo is
    update    \* a change of the requests between its load and its store

ecuVars == <<world, at, wMask, pendingWkupMask, locked, starting, update>>

\* w with a new state, which starts the minimum time of RUN.
SetCurrentState(w, state) ==
    [w EXCEPT !.current_state = state,
              !.run_state_timeout = IF state = "APP_RUN" THEN RunMinimum ELSE @]

\* After EcuM_Init: the reset's reason is an event that needs no validation.
AfterInit ==
    [current_state |-> "STARTUP_ONE", shutdown_target |-> DefaultTarget,
     requests |-> [r \in Asked |-> {}], killAllRequest |-> FALSE,
     wakeupEvents |-> {}, validEvents |-> {Power}, validationTimer |-> 0,
     run_state_timeout |-> 0, go_off_one_state_timeout |-> 0, go_sleep_state_timeout |-> 0]

Init ==
    /\ world = AfterInit
    /\ at = "idle" /\ wMask = {} /\ pendingWkupMask = {} /\ locked = FALSE
    /\ starting = "not" /\ update = None

CpuRuns == at \notin {"asleep", "off"}

\* Code of tasks other than SchM_BswService.
TasksRun == CpuRuns /\ ~locked

-----------------------------------------------------------------------------
(* EcuM_StartupTwo, in the start-up task.  EcuM_enter_run_mode writes the  *)
(* state first and then, with interrupts disabled, the time-out.           *)

StartupTwo ==
    /\ starting = "not"
    /\ world' = SetCurrentState(world, "STARTUP_TWO")
    /\ starting' = "two"
    /\ UNCHANGED <<at, wMask, pendingWkupMask, locked, update>>

StartupRun ==
    /\ starting = "two"
    /\ world' = [world EXCEPT !.current_state = "APP_RUN"]
    /\ starting' = "run"
    /\ UNCHANGED <<at, wMask, pendingWkupMask, locked, update>>

StartupEnds ==
    /\ TasksRun /\ starting = "run"
    /\ world' = [world EXCEPT !.run_state_timeout = RunMinimum]
    /\ starting' = "done"
    /\ UNCHANGED <<at, wMask, pendingWkupMask, locked, update>>

-----------------------------------------------------------------------------
(* Services for tasks.                                                     *)

Released(r, u) == [world EXCEPT !.requests[r] = @ \ {u}]

\* The flag of a kill is not looked at.
RequestedFaulty(r, u) == [world EXCEPT !.requests[r] = @ \cup {u}]

Requested(r, u) ==
    IF world.killAllRequest THEN world ELSE [world EXCEPT !.requests[r] = @ \cup {u}]

\* EcuM_RequestRUN, EcuM_ReleaseRUN and their POST_RUN twins, uninterrupted,
Request(r, u) ==
    /\ TasksRun
    /\ world' = Requested(r, u)
    /\ UNCHANGED <<at, wMask, pendingWkupMask, locked, starting, update>>

Release(r, u) ==
    /\ TasksRun
    /\ world' = Released(r, u)
    /\ UNCHANGED <<at, wMask, pendingWkupMask, locked, starting, update>>

\* or preempted between the load and the store of the word.
Load(r, changed) ==
    /\ TasksRun /\ r \in Preempted /\ update = None
    /\ update' = [asked |-> r, loaded |-> world.requests[r], stored |-> changed.requests[r]]
    /\ UNCHANGED <<world, at, wMask, pendingWkupMask, locked, starting>>

LoadRequest(r, u) == ~world.killAllRequest /\ Load(r, Requested(r, u))
LoadRelease(r, u) == Load(r, Released(r, u))

Store ==
    /\ TasksRun /\ update # None
    /\ world' = [world EXCEPT !.requests[update.asked] = update.stored]
    /\ update' = None
    /\ UNCHANGED <<at, wMask, pendingWkupMask, locked, starting>>

KillAllRUNRequests ==
    /\ TasksRun
    /\ world' = [world EXCEPT !.killAllRequest = TRUE, !.requests = [r \in Asked |-> {}]]
    /\ UNCHANGED <<at, wMask, pendingWkupMask, locked, starting, update>>

SelectShutdownTarget(target) ==
    /\ TasksRun
    /\ world' = [world EXCEPT !.shutdown_target = target]
    /\ UNCHANGED <<at, wMask, pendingWkupMask, locked, starting, update>>

-----------------------------------------------------------------------------
(* Calls from interrupts.  Any interrupt ends the sleep of the processor.  *)

Interrupt == at # "off" /\ at' = (IF at = "asleep" THEN "awake" ELSE at)

\* The validation time-out that a new event starts is zero (ECUM_VALIDATION_TIMEOUT).
SetWakeupEvent(s) ==
    /\ Interrupt
    /\ world' = [world EXCEPT !.wakeupEvents = @ \cup {s}, !.validationTimer = 0]
    /\ UNCHANGED <<wMask, pendingWkupMask, locked, starting, update>>

ValidateWakeupEvent(s) ==
    /\ Interrupt
    /\ world' = [world EXCEPT !.validEvents = @ \cup {s}]
    /\ UNCHANGED <<wMask, pendingWkupMask, locked, starting, update>>

\* Mcu_SetMode returns for a reason of its own.
Wakes ==
    /\ at = "asleep" /\ at' = "awake"
    /\ UNCHANGED <<world, wMask, pendingWkupMask, locked, starting, update>>

-----------------------------------------------------------------------------
(* EcuM_MainFunction, called by SchM_BswService once start-up has left the *)
(* STARTUP states.                                                         *)

Called(state) == at = "idle" /\ world.current_state = state

Less(time) == IF time = 0 THEN 0 ELSE time - 1

Unbroken == UNCHANGED <<at, wMask, pendingWkupMask, locked, starting, update>>

\* Either condition ends RUN.
AppRunFaulty ==
    /\ Called("APP_RUN")
    /\ LET left == Less(world.run_state_timeout)
       IN  /\ world' = [world EXCEPT !.run_state_timeout = left]
           /\ at' = IF world.requests["RUN"] = {} \/ left = 0 THEN "leavingRun" ELSE "idle"
    /\ UNCHANGED <<wMask, pendingWkupMask, locked, starting, update>>

\* RUN ends when its time is up and nobody requests it.  The callouts and the
\* write of the state come after the test; nothing keeps other tasks out.
AppRun ==
    /\ Called("APP_RUN")
    /\ LET left == Less(world.run_state_timeout)
       IN  /\ world' = [world EXCEPT !.run_state_timeout = left]
           /\ at' = IF world.requests["RUN"] = {} /\ left = 0 THEN "leavingRun" ELSE "idle"
    /\ UNCHANGED <<wMask, pendingWkupMask, locked, starting, update>>

ExitRun ==
    /\ at = "leavingRun" /\ at' = "idle"
    /\ world' = SetCurrentState(world, "APP_POST_RUN")
    /\ UNCHANGED <<wMask, pendingWkupMask, locked, starting, update>>

\* The requests for RUN are tested first, then those for POST_RUN.
AppPostRun ==
    /\ Called("APP_POST_RUN")
    /\ at' = IF world.requests["RUN"] # {} THEN "returning" ELSE "noRun"
    /\ UNCHANGED <<world, wMask, pendingWkupMask, locked, starting, update>>

ReturnToRun ==
    /\ at = "returning" /\ at' = "idle"
    /\ world' = SetCurrentState(world, "APP_RUN")
    /\ UNCHANGED <<wMask, pendingWkupMask, locked, starting, update>>

TestPostRun ==
    /\ at = "noRun"
    /\ at' = IF world.requests["POST_RUN"] = {} THEN "leavingPostRun" ELSE "idle"
    /\ UNCHANGED <<world, wMask, pendingWkupMask, locked, starting, update>>

ExitPostRun ==
    /\ at = "leavingPostRun" /\ at' = "idle"
    /\ world' = SetCurrentState(world, "PREP_SHUTDOWN")
    /\ UNCHANGED <<wMask, pendingWkupMask, locked, starting, update>>

\* All wake-up events are forgotten before the way down.
PrepShutdown ==
    /\ Called("PREP_SHUTDOWN") /\ Unbroken
    /\ LET w == [world EXCEPT !.wakeupEvents = {}, !.validEvents = {}]
       IN  world' = IF world.shutdown_target = "SLEEP"
                    THEN [SetCurrentState(w, "GO_SLEEP") EXCEPT !.go_sleep_state_timeout = NvramTime]
                    ELSE [SetCurrentState(w, "GO_OFF_ONE") EXCEPT !.go_off_one_state_timeout = NvramTime]

\* NVM may be done at any time; then, or when time is up, ShutdownOS stops the
\* OS and the integrator's hook calls EcuM_Shutdown.
GoOffOne ==
    /\ Called("GO_OFF_ONE")
    /\ UNCHANGED <<wMask, pendingWkupMask, locked, starting, update>>
    /\ LET left == Less(world.go_off_one_state_timeout)
           w == [world EXCEPT !.go_off_one_state_timeout = left]
       IN  \E over \in {left = 0, TRUE} :
              IF over THEN at' = "off" /\ world' = SetCurrentState(w, "GO_OFF_TWO")
              ELSE world' = w /\ UNCHANGED at

\* The reset of EcuM_Shutdown; with target OFF the ECU stays off.
PerformReset ==
    /\ at = "off" /\ world.shutdown_target # "OFF"
    /\ world' = AfterInit
    /\ at' = "idle" /\ wMask' = {} /\ pendingWkupMask' = {} /\ locked' = FALSE
    /\ starting' = "not" /\ update' = None

\* Going to sleep when NVM is done or time is up, with the scheduler locked;
\* an event that comes before cancels NVM, and sleep follows at once, unlocked.
GoSleep ==
    /\ Called("GO_SLEEP")
    /\ UNCHANGED <<wMask, pendingWkupMask, starting, update>>
    /\ \E left \in {Less(world.go_sleep_state_timeout), 0} :
          LET w == [world EXCEPT !.go_sleep_state_timeout = left]
          IN  \/ /\ left = 0
                 /\ world' = SetCurrentState(w, "SLEEP") /\ at' = "asleep" /\ locked' = TRUE
              \/ /\ left # 0 /\ world.wakeupEvents # {}
                 /\ world' = SetCurrentState(w, "SLEEP") /\ at' = "asleep" /\ UNCHANGED locked
              \/ /\ left # 0 /\ world.wakeupEvents = {}
                 /\ world' = w /\ UNCHANGED <<at, locked>>

\* The first reading of the pending events; the drivers are restarted.
WakeupOne ==
    /\ at = "awake"
    /\ world' = SetCurrentState(world, "WAKEUP_ONE")
    /\ wMask' = world.wakeupEvents
    /\ at' = "restart"
    /\ UNCHANGED <<pendingWkupMask, locked, starting, update>>

\* The scheduler is not released.
ReleaseSchedulerFaulty ==
    /\ at = "restart"
    /\ world' = [world EXCEPT !.killAllRequest = FALSE]
    /\ at' = "released"
    /\ UNCHANGED <<wMask, pendingWkupMask, locked, starting, update>>

\* Requests are enabled again, and other tasks may run.
ReleaseScheduler ==
    /\ at = "restart"
    /\ world' = [world EXCEPT !.killAllRequest = FALSE]
    /\ locked' = FALSE
    /\ at' = "released"
    /\ UNCHANGED <<wMask, pendingWkupMask, starting, update>>

\* The second reading.
StartSources ==
    /\ at = "released"
    /\ world' = SetCurrentState(world, "WAKEUP_VALIDATION")
    /\ pendingWkupMask' = world.wakeupEvents
    /\ at' = "masked"
    /\ UNCHANGED <<wMask, locked, starting, update>>

Longest(times) == CHOOSE t \in times : \A u \in times : u <= t

\* The test for a source without validation time-out is the wrong way round.
StartValidationFaulty ==
    /\ at = "masked"
    /\ world' = [world EXCEPT
          !.validationTimer = Longest({0} \cup {ValidationTime[s] : s \in wMask \ NoValidation}),
          !.validEvents = @ \cup (wMask \ NoValidation)]
    /\ at' = "idle" /\ wMask' = {}
    /\ UNCHANGED <<pendingWkupMask, locked, starting, update>>

\* Events of the first reading are validated, at once or within a time.
StartValidation ==
    /\ at = "masked"
    /\ world' = [world EXCEPT
          !.validationTimer = Longest({0} \cup {ValidationTime[s] : s \in wMask \ NoValidation}),
          !.validEvents = @ \cup (wMask \cap NoValidation)]
    /\ at' = "idle" /\ wMask' = {}
    /\ UNCHANGED <<pendingWkupMask, locked, starting, update>>

\* Over when time is up, or when validated and pending events are the same.
WakeupValidation ==
    /\ Called("WAKEUP_VALIDATION")
    /\ UNCHANGED <<at, wMask, locked, starting, update>>
    /\ LET w == [world EXCEPT !.validationTimer = Less(@)]
       IN  \/ /\ world.validationTimer = 0 \/ world.validEvents = pendingWkupMask
              /\ world' = SetCurrentState(w, "WAKEUP_REACTION")
              /\ pendingWkupMask' = {}
           \/ /\ world.validationTimer # 0 /\ world.validEvents # pendingWkupMask
              /\ world' = w
              /\ UNCHANGED pendingWkupMask

WakeupReaction ==
    /\ Called("WAKEUP_REACTION") /\ Unbroken
    /\ world' = SetCurrentState(world, IF world.validEvents = {} THEN "GO_SLEEP" ELSE "WAKEUP_TWO")

WakeupTwo ==
    /\ Called("WAKEUP_TWO") /\ Unbroken
    /\ world' = SetCurrentState(world, "APP_RUN")

-----------------------------------------------------------------------------

MainFunction ==
    \/ AppRun \/ ExitRun
    \/ AppPostRun \/ ReturnToRun \/ TestPostRun \/ ExitPostRun
    \/ PrepShutdown \/ GoOffOne
    \/ GoSleep \/ WakeupOne \/ ReleaseScheduler \/ StartSources \/ StartValidation
    \/ WakeupValidation \/ WakeupReaction \/ WakeupTwo

Startup == StartupTwo \/ StartupRun \/ StartupEnds

Services ==
    \/ \E r \in Asked : \E u \in Callers[r] :
          Request(r, u) \/ Release(r, u) \/ LoadRequest(r, u) \/ LoadRelease(r, u)
    \/ Store \/ KillAllRUNRequests
    \/ \E target \in Selected : SelectShutdownTarget(target)

Interrupts ==
    \/ \E s \in Source : SetWakeupEvent(s)
    \/ \E s \in Source \ NoValidation : ValidateWakeupEvent(s)

Next == MainFunction \/ Startup \/ Services \/ Interrupts \/ Wakes \/ PerformReset

Spec == Init /\ [][Next]_ecuVars
=============================================================================
