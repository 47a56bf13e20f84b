--------------------------- MODULE MCOsObjectives ---------------------------
(* OsObjectives on the configurations of small applications.                *)
EXTENDS OsObjectives, TLC

CONSTANTS OsIdle, A, B, C, e, R

Each(t, a, b, c) == OsIdle :> t @@ A :> a @@ B :> b @@ C :> c

MCTask == {OsIdle, A, B, C}
NoResources == Each({}, {}, {}, {})
NoInternal  == Each(None, None, None, None)
Once  == Each(1, 1, 1, 1)

\* An extended task that never ends, as CriticalTask and StepTask of pwc, a basic
\* one that may be activated twice, and a non-preemptive one of its priority.
MixedPrio   == Each(0, 3, 2, 2)
MixedLimit  == Each(1, 1, 2, 1)
MixedCalls  == Each({}, {"WaitEvent", "ClearEvent", "GetResource", "ReleaseResource"},
                    {"TerminateTask", "ChainTask", "SetEvent", "GetResource",
                     "ReleaseResource"},
                    {"TerminateTask", "return", "Schedule", "ActivateTask", "GetResource",
                     "ReleaseResource"})
MixedAccess == Each({}, {R}, {R}, {})
MixedStart  == <<OsIdle, A>>

\* A task started with the system although it is not the first to run.
StartedCalls == Each({}, {"TerminateTask"}, {"TerminateTask"}, {"ActivateTask"})
StartedPrio  == Each(0, 3, 2, 1)
StartedStart == <<OsIdle, A, B>>

\* An extended task A that waits for an event and ends; B sets it.
RacePrio  == Each(0, 2, 1, 1)
RaceCalls == Each({}, {"WaitEvent", "TerminateTask"}, {"SetEvent"}, {})
RaceStart == <<OsIdle, B, A>>

=============================================================================
