--------------------------- MODULE EcuObjectives ---------------------------
(***************************************************************************)
(* What EcuState promises.  The observer keeps who holds RUN by the calls  *)
(* that have returned, who of them got it while the main function was      *)
(* already on its way out, how long RUN has lasted, whether start-up was   *)
(* overtaken, and whether one change of the requests has overwritten       *)
(* another; it never guards a step.                                        *)
(***************************************************************************)
EXTENDS EcuState

VARIABLES
    granted, \* users whose request for RUN was accepted and not taken back
    late,    \* those of them accepted since the main function's test
    ran,     \* calls of the main function since RUN began, at most RunMinimum
    early,   \* it is leaving a RUN whose minimum start-up had yet to set
    torn     \* a change of the requests has overwritten another one

observer == <<granted, late, ran, early, torn>>
observedVars == <<ecuVars, observer>>

ObservedInit ==
    /\ Init
    /\ granted = {} /\ late = {} /\ ran = 0 /\ early = FALSE /\ torn = FALSE

\* The main function has found no request for RUN and acts on it.
Leaving == {"leavingRun", "noRun", "leavingPostRun"}

\* What a finished change of the requests for RUN does to their holders.
Granted(asked, before, after) ==
    IF asked = "RUN" THEN (granted \ (before \ after)) \cup (after \ before) ELSE granted

Tears ==
    \/ world.requests[update.asked] # update.loaded
    \/ world.killAllRequest /\ update.stored # {}

ObserveServices ==
    /\ Services
    /\ \/ /\ Store /\ ~Tears
          /\ granted' = Granted(update.asked, update.loaded, update.stored)
          /\ UNCHANGED torn
       \/ /\ Store /\ Tears
          /\ granted' = {} /\ torn' = TRUE
       \/ /\ ~Store
          /\ granted' = IF torn THEN {}
                        ELSE Granted("RUN", world.requests["RUN"], world'.requests["RUN"])
          /\ UNCHANGED torn
    /\ late' = IF at \in Leaving THEN granted' \ (granted \ late) ELSE {}
    /\ UNCHANGED <<ran, early>>

ObserveMain ==
    /\ MainFunction
    /\ ran' = IF {world.current_state, world'.current_state} # {"APP_RUN"} THEN 0
              ELSE IF ran < RunMinimum THEN ran + 1 ELSE ran
    /\ late' = IF at' \in Leaving THEN late ELSE {}
    /\ early' = (at' = "leavingRun" /\ starting = "run")
    /\ UNCHANGED <<granted, torn>>

ObserveStartup == Startup /\ UNCHANGED observer

ObservedNext ==
    \/ ObserveMain \/ ObserveServices \/ ObserveStartup
    \/ (Interrupts \/ Wakes) /\ UNCHANGED observer
    \/ /\ PerformReset
       /\ granted' = {} /\ late' = {} /\ ran' = 0 /\ early' = FALSE /\ torn' = FALSE

ObservedSpec == ObservedInit /\ [][ObservedNext]_observedVars

\* The main function is called periodically, and start-up comes to its end.
ObservedFairSpec ==
    ObservedSpec /\ WF_observedVars(ObserveMain) /\ WF_observedVars(ObserveStartup)

-----------------------------------------------------------------------------

State == {"STARTUP_ONE", "STARTUP_TWO", "APP_RUN", "APP_POST_RUN", "PREP_SHUTDOWN",
          "GO_OFF_ONE", "GO_OFF_TWO", "GO_SLEEP", "SLEEP",
          "WAKEUP_ONE", "WAKEUP_VALIDATION", "WAKEUP_REACTION", "WAKEUP_TWO"}

WorldType ==
    [current_state : State, shutdown_target : Target,
     requests : [Asked -> SUBSET User], killAllRequest : BOOLEAN,
     wakeupEvents : SUBSET Source, validEvents : SUBSET (Source \cup {Power}),
     validationTimer : Nat, run_state_timeout : 0..RunMinimum,
     go_off_one_state_timeout : 0..NvramTime, go_sleep_state_timeout : 0..NvramTime]

UpdateType == [asked : Asked, loaded : SUBSET User, stored : SUBSET User]

\* The types, and the states in which the parts of one call of the main
\* function find themselves.
TypeOK ==
    /\ world \in WorldType
    /\ at \in {"idle", "leavingRun", "noRun", "returning", "leavingPostRun", "asleep",
              "awake", "restart", "released", "masked", "off"}
    /\ wMask \subseteq Source /\ pendingWkupMask \subseteq Source
    /\ locked \in BOOLEAN
    /\ starting \in {"not", "two", "run", "done"}
    /\ update \in UpdateType \cup {None}
    /\ at = "leavingRun" => world.current_state = "APP_RUN"
    /\ at \in {"noRun", "returning", "leavingPostRun"} => world.current_state = "APP_POST_RUN"
    /\ at \in {"asleep", "awake"} => world.current_state = "SLEEP"
    /\ at \in {"restart", "released"} => world.current_state = "WAKEUP_ONE"
    /\ at = "masked" => world.current_state = "WAKEUP_VALIDATION"
    /\ locked => at \in {"asleep", "awake", "restart"}

Becomes(state) == world.current_state # state /\ world'.current_state = state

\* RUN lasts for its minimum time ("We have a configurable minimum time we have
\* to stay in RUN state", EcuM_Main.c:194), unless the main function overtook
\* start-up.  Neither leaving RUN nor the shutdown after it ("Not enter sleep if
\* we have a run request", EcuM_Main.c:484) is begun while anybody holds RUN,
\* whoever else requests and releases, except for a request granted between the
\* main function's test of the requests and its write of the state, and unless
\* one change of the requests overwrote another.  So a request granted while
\* RUN is being left is honoured by the next call.
RunKept ==
    [][/\ world.current_state = "APP_RUN" /\ world'.current_state # "APP_RUN" =>
             early \/ ran >= RunMinimum
       /\ Becomes("APP_POST_RUN") \/ Becomes("PREP_SHUTDOWN") =>
             torn \/ granted \subseteq late]_observedVars

\* "Kill all RUN requests and perform shutdown without waiting for application
\* to finish" (EcuM_Fixed.c:161): from RUN or POST_RUN, a kill leads down,
\* unless a request whose test it overtook is stored after it.
KillShutsDown ==
    world.killAllRequest /\ world.current_state \in {"APP_RUN", "APP_POST_RUN"}
        ~> torn \/ world.current_state = "PREP_SHUTDOWN"

\* A wake-up brings the ECU back to RUN ("If the wakeup mask here is != 0 we
\* have a validated wakeup event -> go back to RUN", EcuM_Main.c:786): an event
\* that needs no validation and is pending when the processor wakes, whatever
\* events follow it, and an event that is validated in time.
WakeupServed ==
    (\/ at = "awake" /\ world.wakeupEvents \cap NoValidation # {}
     \/ Called("WAKEUP_VALIDATION") /\ world.validEvents # {})
        ~> world.current_state = "APP_RUN"
=============================================================================
