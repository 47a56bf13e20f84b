---------------------------- MODULE OsObjectives ----------------------------
(***************************************************************************)
(* What OsKernel promises its applications.  The observer counts the       *)
(* activations of each task that the kernel accepted and has not yet       *)
(* performed; it never guards a step.                                      *)
(***************************************************************************)
EXTENDS OsKernel

VARIABLE accepted

observedVars == <<vars, accepted>>

ObservedInit ==
    /\ Init
    /\ accepted = [t \in Task |-> IF \E i \in DOMAIN autostart : autostart[i] = t
                                  THEN 1 ELSE 0]

Accept(t) == accepted' = [accepted EXCEPT ![t] = @ + 1]
Perform   == accepted' = [accepted EXCEPT ![curr] = @ - 1]

ObservedNext ==
    \/ \E d \in Task :
          \/ ActivateTask(d) /\ Accept(d)
          \/ ChainTask(d) /\ accepted' = [accepted EXCEPT ![d] = @ + 1, ![curr] = @ - 1]
    \/ (TerminateTask \/ Return) /\ Perform
    \/ /\ \/ ChainSelf \/ Schedule \/ SetEvent \/ ReleaseResource
          \/ \E d \in Task, m \in Mask : SetEventValidated(d, m)
          \/ \E m \in Mask : ClearEvent(m) \/ WaitEvent(m)
          \/ \E r \in StandardResource \cup {RES_SCHEDULER} : GetResource(r)
          \/ Interrupt
       /\ UNCHANGED accepted

ObservedSpec == ObservedInit /\ [][ObservedNext]_observedVars

TypeOK ==
    /\ os \in [state : [Task -> TaskState], ready : Seq(Task),
               prio : [Task -> 0..OS_RES_SCHEDULER_PRIO],
               owner : [AnyResource -> Task \cup {None}],
               old_task_prio : [AnyResource -> 0..OS_RES_SCHEDULER_PRIO], curr : Task]
    /\ \A t \in Task : activations[t] \in 0..activationLimit[t]
    /\ ev_set \in [Task -> SUBSET Event] /\ ev_wait \in [Task -> SUBSET Event]
    /\ resourceHead \in [Task -> Seq(AnyResource)]
    /\ context \in [Task -> Context]
    /\ pending \in [Task -> [dest : Task, mask : SUBSET Event]]
    /\ intNestCnt \in 0..IsrNesting /\ halted \in BOOLEAN

\* A task runs, no interrupt is being served.
AtTaskLevel == ~halted /\ intNestCnt = 0

Held(t) == {resourceHead[t][i] : i \in DOMAIN resourceHead[t]}

-----------------------------------------------------------------------------

\* The ready list holds each ready or running task once, and no other.
ReadyListExact ==
    /\ Listed(os) = {t \in Task : os.state[t] \in {"READY", "RUNNING"}}
    /\ Len(os.ready) = Cardinality(Listed(os))

\* The processor runs a task of the highest active priority, unless the one it
\* runs cannot be preempted.
HighestPriorityRuns ==
    AtTaskLevel =>
        \/ curr \in NonPreemptive \/ ~SchedulerResourceIsFree(os)
        \/ \A t \in Listed(os) : os.prio[t] <= os.prio[curr]

\* No task waits for an event that is set.
NoLostWakeup ==
    \A t \in Task : os.state[t] = "WAITING" => ev_set[t] \cap ev_wait[t] = {}

\* While a task holds a resource, no other task that may take it runs.
CeilingExcludes ==
    AtTaskLevel =>
        \A t \in Task \ {curr} :
            RES_SCHEDULER \notin Held(t) /\ Held(t) \cap resourceAccess[curr] = {}

\* A task that has given back what it took has its own priority again.
PriorityRestored ==
    \A t \in Task :
        os.state[t] \in {"SUSPENDED", "WAITING"} => os.prio[t] = prio[t]

\* Every activation that was accepted is performed: no task with one left is
\* suspended.
ActivationsPerformed ==
    ~halted => \A t \in Task : os.state[t] = "SUSPENDED" => accepted[t] = 0

\* A task goes back to its first statement only when it has ended.
RestartsOnlyWhenEnded ==
    [][\A t \in Task : context'[t] = "entry" /\ context[t] # "entry" =>
          \/ os.state[t] = "SUSPENDED"
          \/ t = curr /\ (TerminateTask \/ Return \/ ChainSelf \/ \E d \in Task : ChainTask(d))
      ]_observedVars

\* No assert of the kernel fails; in particular TerminateTask and ChainTask do
\* not return (os_task.c:822 and 881), and nobody waits while suspended
\* (os_event.c:166).
AssertionsHold == ~halted
=============================================================================
