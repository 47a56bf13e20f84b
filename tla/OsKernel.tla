------------------------------ MODULE OsKernel ------------------------------
(***************************************************************************)
(* The kernel of core/system/Os on one core: tasks and their ready list,   *)
(* the dispatcher, events, resources with priority ceilings, and the       *)
(* category 2 interrupts that set events and activate tasks.               *)
(*                                                                         *)
(* Every service runs with interrupts disabled and is one step, except     *)
(* that SetEvent validates its arguments before it disables them           *)
(* (os_event.c:133), and is two.  A step of a task is a step of the task   *)
(* the processor runs, os.curr; an interrupt comes between any two.        *)
(*                                                                         *)
(* What an application calls is the constant Calls; everything else a task *)
(* does is invisible to the kernel.  Calls that only return an error       *)
(* status change nothing and are left out.                                 *)
(***************************************************************************)
EXTENDS Integers, SequencesExt

CONSTANTS
    Task, Event, Resource,  \* the configured objects
    None,                   \* no task, no resource
    prio, activationLimit,  \* OsTaskConstType, a function of the task each
    Extended, NonPreemptive, \* sets of tasks
    autostart,              \* the tasks started with the system, by id
    resourceAccess,         \* the resources a task may take
    resourceInt,            \* the internal resource of a task, or None
    Calls,                  \* the services each task calls
    IsrCalls,               \* the services interrupts call
    IsrNesting              \* the deepest nesting of interrupts

Service == {"ActivateTask", "TerminateTask", "ChainTask", "Schedule", "SetEvent",
            "ClearEvent", "WaitEvent", "GetResource", "ReleaseResource", "return"}

RES_SCHEDULER == "RES_SCHEDULER"
OS_RES_SCHEDULER_PRIO == 32
AnyResource == Resource \cup {RES_SCHEDULER}

ASSUME KernelAssumption ==
    /\ None \notin Task \cup AnyResource /\ RES_SCHEDULER \notin Resource
    /\ prio \in [Task -> 0..(OS_RES_SCHEDULER_PRIO - 1)]
    /\ activationLimit \in [Task -> Nat \ {0}]
    /\ Extended \subseteq Task /\ NonPreemptive \subseteq Task
    /\ autostart \in Seq(Task)
    /\ resourceAccess \in [Task -> SUBSET Resource]
    /\ resourceInt \in [Task -> Resource \cup {None}]
    /\ Calls \in [Task -> SUBSET Service]
    /\ IsrCalls \subseteq {"ActivateTask", "SetEvent"}
    /\ IsrNesting \in Nat

ASSUME ConfigAssumption ==
    \* OsIdle: started with the system, below all others, calls nothing.
    /\ \E i \in DOMAIN autostart :
          /\ Calls[autostart[i]] = {}
          /\ \A t \in Task \ {autostart[i]} : prio[autostart[i]] < prio[t]
    \* os_start looks for a task above priority zero.
    /\ \E i \in DOMAIN autostart : prio[autostart[i]] > 0
    /\ \A i, j \in DOMAIN autostart : autostart[i] = autostart[j] => i = j
    \* A task has access to its internal resource.
    /\ \A t \in Task : resourceInt[t] # None => resourceInt[t] \in resourceAccess[t]
    \* Extended tasks are activated once at a time.
    /\ \A t \in Extended : activationLimit[t] = 1

VARIABLES
    os,           \* the scheduler's part of Os_Sys and of the task blocks
    activations,  \* queued activations of each task
    ev_set, ev_wait,
    resourceHead, \* the standard resources a task holds, innermost last
    context,      \* where each task goes on when it is next swapped in
    pending,      \* the arguments of a SetEvent that has been validated
    intNestCnt,   \* nesting of interrupts
    halted        \* an assert of the kernel has failed

vars == <<os, activations, ev_set, ev_wait, resourceHead, context, pending,
          intNestCnt, halted>>

TaskState == {"SUSPENDED", "READY", "RUNNING", "WAITING"}

\* entry: the first statement; body: the application's code; the others:
\* inside the service of that name, past the point where it dispatched.
Context == {"entry", "body", "SetEvent", "TerminateTask", "ChainTask"}

-----------------------------------------------------------------------------
(* Ready list and priorities: pure steps of the record os.                 *)

\* Os_ResourceInit: the priority of the highest task with access.
ceiling_priority ==
    [r \in AnyResource |->
        LET users == {t \in Task : r \in resourceAccess[t]}
        IN  IF r = RES_SCHEDULER THEN OS_RES_SCHEDULER_PRIO
            ELSE IF users = {} THEN 0
            ELSE prio[CHOOSE t \in users : \A u \in users : prio[u] <= prio[t]]]

Listed(k) == {k.ready[i] : i \in DOMAIN k.ready}

MakeReady(k, t) ==
    IF k.state[t] \in {"READY", "RUNNING"} THEN k
    ELSE [k EXCEPT !.state[t] = "READY", !.ready = Append(@, t)]

\* Definitions named ...Faulty are mistakes the properties must notice.
\* The head of the ready list is taken off it, whoever that is.
UnlistFaulty(k, t, state) == [k EXCEPT !.state[t] = state, !.ready = Tail(@)]

\* MakeWaiting and MakeSuspended.
Unlist(k, t, state) ==
    LET place == CHOOSE i \in DOMAIN k.ready : k.ready[i] = t
    IN  [k EXCEPT !.state[t] = state, !.ready = RemoveAt(@, place)]

RunningToReady(k, t) == [k EXCEPT !.state[t] = "READY"]

\* The first of the highest priority in the ready list.
TaskGetTop(k) ==
    LET top == {i \in DOMAIN k.ready :
                  \A j \in DOMAIN k.ready : k.prio[k.ready[j]] <= k.prio[k.ready[i]]}
    IN  k.ready[CHOOSE i \in top : \A j \in top : i <= j]

\* The priority is not raised.
ResourceAddFaulty(k, r, t) ==
    [k EXCEPT !.owner[r] = t, !.old_task_prio[r] = k.prio[t]]

ResourceAdd(k, r, t) ==
    [k EXCEPT !.owner[r] = t, !.old_task_prio[r] = k.prio[t],
              !.prio[t] = ceiling_priority[r]]

\* The priority is not lowered again.
ResourceRemoveFaulty(k, r, t) == [k EXCEPT !.owner[r] = None]

ResourceRemove(k, r, t) ==
    [k EXCEPT !.owner[r] = None, !.prio[t] = k.old_task_prio[r]]

GetInternal(k, t) ==
    IF resourceInt[t] = None THEN k ELSE ResourceAdd(k, resourceInt[t], t)

ReleaseInternal(k, t) ==
    IF resourceInt[t] = None THEN k ELSE ResourceRemove(k, resourceInt[t], t)

\* Os_TaskSwapContext and Os_TaskSwapContextTo.
SwapTo(k, t) ==
    LET s == GetInternal([k EXCEPT !.curr = t], t)
    IN  [s EXCEPT !.state[t] = "RUNNING"]

\* Os_Dispatch once the running task is in its new state: another task is
\* swapped in, or the running one is started again.
Dispatched(k) ==
    LET top == TaskGetTop(k)
    IN  IF top # k.curr THEN SwapTo(ReleaseInternal(k, k.curr), top)
        ELSE [k EXCEPT !.state[top] = "RUNNING"]

Restarts(k) == TaskGetTop(k) = k.curr

\* Os_ResourceReleaseInternal asserts that the task owns what it releases.
OwnsInternal(k) ==
    resourceInt[k.curr] # None => k.owner[resourceInt[k.curr]] = k.curr

SchedulerResourceIsFree(k) == k.owner[RES_SCHEDULER] = None

\* Against a task of the same priority too.
PreemptsFaulty(k, t) ==
    /\ intNestCnt = 0 /\ k.curr \notin NonPreemptive
    /\ k.prio[t] >= k.prio[k.curr]
    /\ SchedulerResourceIsFree(k)

\* The condition under which a service called by a task dispatches.
Preempts(k, t) ==
    /\ intNestCnt = 0 /\ k.curr \notin NonPreemptive
    /\ k.prio[t] > k.prio[k.curr]
    /\ SchedulerResourceIsFree(k)

-----------------------------------------------------------------------------
(* os_start.                                                               *)

AtReset ==
    [state |-> [t \in Task |-> "SUSPENDED"], ready |-> << >>, prio |-> prio,
     owner |-> [r \in AnyResource |-> None], old_task_prio |-> [r \in AnyResource |-> 0],
     curr  |-> None]

AutostartTasks ==
    [AtReset EXCEPT
        !.ready = autostart,
        !.state = [t \in Task |-> IF \E i \in DOMAIN autostart : autostart[i] = t
                                  THEN "READY" ELSE "SUSPENDED"]]

\* Only the task that runs first has its activation registered.
Init ==
    /\ os = SwapTo(AutostartTasks, TaskGetTop(AutostartTasks))
    /\ activations = [t \in Task |-> IF t = os.curr THEN 1 ELSE 0]
    /\ ev_set = [t \in Task |-> {}] /\ ev_wait = [t \in Task |-> {}]
    /\ resourceHead = [t \in Task |-> << >>]
    /\ context = [t \in Task |-> "entry"]
    /\ pending = [t \in Task |-> [dest |-> t, mask |-> {}]]
    /\ intNestCnt = 0
    /\ halted = FALSE

-----------------------------------------------------------------------------

curr == os.curr

\* The running task is in its own code and calls service s.
Calling(s) ==
    /\ ~halted /\ intNestCnt = 0
    /\ context[curr] \in {"entry", "body"}
    /\ s \in Calls[curr]

InIsr(s) == ~halted /\ intNestCnt > 0 /\ s \in IsrCalls

\* A context saved inside TerminateTask or ChainTask meets assert(0) at once.
ResumesDead(places, k) == places[k.curr] \in {"TerminateTask", "ChainTask"}

\* The rest of a service: the asserts of Os_Dispatch, the swap from state k,
\* and the place where the caller, when it comes back, goes on.
Dispatch(k, at) ==
    LET places == [at EXCEPT ![curr] = IF Restarts(k) THEN "entry" ELSE @]
    IN  /\ halted' = \/ ~SchedulerResourceIsFree(k)
                     \/ ~Restarts(k) /\ ~OwnsInternal(k)
                     \/ ResumesDead(places, Dispatched(k))
        /\ os' = Dispatched(k)
        /\ context' = places

Continue(k, at) == os' = k /\ context' = at /\ UNCHANGED halted

From(place) == IF intNestCnt = 0 THEN [context EXCEPT ![curr] = place] ELSE context

-----------------------------------------------------------------------------
(* Tasks.                                                                  *)

\* One activation too many.
LimitReachedFaulty(d) == os.state[d] # "SUSPENDED" /\ activations[d] > activationLimit[d]

LimitReached(d) == os.state[d] # "SUSPENDED" /\ activations[d] >= activationLimit[d]

\* Os_Arc_SetCleanContext.
CleanEvents(d, clean) ==
    LET cleared(ev) == IF clean /\ d \in Extended THEN [ev EXCEPT ![d] = {}] ELSE ev
    IN  ev_set' = cleared(ev_set) /\ ev_wait' = cleared(ev_wait)

ActivateTask(d) ==
    LET fresh == os.state[d] = "SUSPENDED"
        k     == IF fresh THEN MakeReady(os, d) ELSE os
        at    == IF fresh THEN [From("body") EXCEPT ![d] = "entry"] ELSE From("body")
    IN  /\ Calling("ActivateTask") \/ InIsr("ActivateTask")
        /\ ~LimitReached(d)
        /\ activations' = [activations EXCEPT ![d] = @ + 1]
        /\ CleanEvents(d, fresh)
        /\ IF Preempts(k, d) THEN Dispatch(k, at) ELSE Continue(k, at)
        /\ UNCHANGED <<resourceHead, pending, intNestCnt>>

\* Queued activations are forgotten.
RetireFaulty(k) == Unlist(k, k.curr, "SUSPENDED")

\* One activation of the running task is over.
Retire(k) == IF activations[k.curr] > 1 THEN k ELSE Unlist(k, k.curr, "SUSPENDED")
Retired == IF activations[curr] > 1 THEN activations[curr] - 1 ELSE 0

\* With resources still held.
TerminateTaskFaulty ==
    /\ Calling("TerminateTask")
    /\ activations' = [activations EXCEPT ![curr] = Retired]
    /\ Dispatch(Retire(os), From("TerminateTask"))
    /\ UNCHANGED <<ev_set, ev_wait, resourceHead, pending, intNestCnt>>

TerminateTask ==
    /\ Calling("TerminateTask")
    /\ resourceHead[curr] = << >>
    /\ activations' = [activations EXCEPT ![curr] = Retired]
    /\ Dispatch(Retire(os), From("TerminateTask"))
    /\ UNCHANGED <<ev_set, ev_wait, resourceHead, pending, intNestCnt>>

\* A task that ends without TerminateTask: what it holds is freed first, from
\* the outermost in, which asserts that there is only one.
Return ==
    LET held == resourceHead[curr]
        k    == IF held = << >> THEN os ELSE ResourceRemove(os, held[1], curr)
    IN  /\ Calling("return")
        /\ IF Len(held) > 1
           THEN halted' = TRUE /\ UNCHANGED <<os, context, activations, resourceHead>>
           ELSE /\ resourceHead' = [resourceHead EXCEPT ![curr] = << >>]
                /\ activations' = [activations EXCEPT ![curr] = Retired]
                /\ Dispatch(Retire(k), From("TerminateTask"))
        /\ UNCHANGED <<ev_set, ev_wait, pending, intNestCnt>>

\* A task that chains to itself keeps its activation and its state.
ChainSelf ==
    /\ Calling("ChainTask")
    /\ resourceHead[curr] = << >>
    /\ Dispatch(os, From("ChainTask"))
    /\ UNCHANGED <<activations, ev_set, ev_wait, resourceHead, pending, intNestCnt>>

ChainTask(d) ==
    LET fresh == os.state[d] = "SUSPENDED"
        k     == IF fresh THEN MakeReady(os, d) ELSE os
        left  == IF activations[curr] > 1 THEN RunningToReady(k, curr) ELSE Retire(k)
    IN  /\ Calling("ChainTask") /\ d # curr
        /\ resourceHead[curr] = << >>
        /\ activations[d] + 1 <= activationLimit[d]
        /\ activations' = [activations EXCEPT ![d] = @ + 1, ![curr] = Retired]
        /\ CleanEvents(d, fresh)
        /\ Dispatch(left, IF fresh THEN [From("ChainTask") EXCEPT ![d] = "entry"]
                          ELSE From("ChainTask"))
        /\ UNCHANGED <<resourceHead, pending, intNestCnt>>

Schedule ==
    /\ Calling("Schedule")
    /\ curr \in NonPreemptive /\ resourceHead[curr] = << >>
    /\ os.prio[TaskGetTop(os)] > os.prio[curr]
    /\ Dispatch(RunningToReady(os, curr), From("body"))
    /\ UNCHANGED <<activations, ev_set, ev_wait, resourceHead, pending, intNestCnt>>

-----------------------------------------------------------------------------
(* Events.                                                                 *)

Mask == SUBSET Event \ {{}}

Settable(d) == d \in Extended /\ os.state[d] # "SUSPENDED"

\* SetEvent with interrupts disabled.
SetBits(d, m) ==
    LET k == IF os.state[d] = "WAITING" /\ m \cap ev_wait[d] # {} THEN MakeReady(os, d)
             ELSE os
    IN  /\ ev_set' = [ev_set EXCEPT ![d] = @ \cup m]
        /\ IF os.state[d] = "SUSPENDED" /\ m \cap ev_wait[d] # {}
           THEN halted' = TRUE /\ UNCHANGED <<os, context>>
           ELSE IF k # os /\ Preempts(k, d)
           THEN Dispatch(RunningToReady(k, curr), From("body"))
           ELSE Continue(k, From("body"))
        /\ UNCHANGED <<activations, ev_wait, resourceHead, pending, intNestCnt>>

SetEventValidated(d, m) ==
    /\ Calling("SetEvent") /\ Settable(d)
    /\ pending' = [pending EXCEPT ![curr] = [dest |-> d, mask |-> m]]
    /\ context' = From("SetEvent")
    /\ UNCHANGED <<os, activations, ev_set, ev_wait, resourceHead, intNestCnt, halted>>

SetEvent ==
    /\ ~halted /\ intNestCnt = 0
    /\ context[curr] = "SetEvent"
    /\ SetBits(pending[curr].dest, pending[curr].mask)

IsrSetEvent(d, m) == InIsr("SetEvent") /\ Settable(d) /\ SetBits(d, m)

ClearEvent(m) ==
    /\ Calling("ClearEvent") /\ curr \in Extended
    /\ ev_set' = [ev_set EXCEPT ![curr] = @ \ m]
    /\ context' = From("body")
    /\ UNCHANGED <<os, activations, ev_wait, resourceHead, pending, intNestCnt, halted>>

\* Without a look at the events that are set.
WaitEventFaulty(m) ==
    /\ Calling("WaitEvent") /\ curr \in Extended /\ resourceHead[curr] = << >>
    /\ ev_wait' = [ev_wait EXCEPT ![curr] = m]
    /\ Dispatch(Unlist(os, curr, "WAITING"), From("body"))
    /\ UNCHANGED <<activations, ev_set, resourceHead, pending, intNestCnt>>

\* With one of the events set already WaitEvent returns at once.
WaitEvent(m) ==
    /\ Calling("WaitEvent") /\ curr \in Extended /\ resourceHead[curr] = << >>
    /\ IF ev_set[curr] \cap m # {}
       THEN Continue(os, From("body")) /\ UNCHANGED ev_wait
       ELSE /\ ev_wait' = [ev_wait EXCEPT ![curr] = m]
            /\ Dispatch(Unlist(os, curr, "WAITING"), From("body"))
    /\ UNCHANGED <<activations, ev_set, resourceHead, pending, intNestCnt>>

-----------------------------------------------------------------------------
(* Resources.  Applications nest their critical sections.                  *)

StandardResource == Resource \ {resourceInt[t] : t \in Task}

MayTake(r) ==
    \/ r = RES_SCHEDULER
    \/ r \in resourceAccess[curr] /\ os.owner[r] = None
                                  /\ os.prio[curr] <= ceiling_priority[r]

GetResource(r) ==
    /\ Calling("GetResource") /\ MayTake(r)
    /\ \A i \in DOMAIN resourceHead[curr] : resourceHead[curr][i] # r
    /\ Continue(ResourceAdd(os, r, curr), From("body"))
    /\ resourceHead' = [resourceHead EXCEPT ![curr] = Append(@, r)]
    /\ UNCHANGED <<activations, ev_set, ev_wait, pending, intNestCnt>>

\* Of the innermost resource held.
ReleaseResource ==
    LET held == resourceHead[curr]
        r    == held[Len(held)]
        k    == ResourceRemove(os, r, curr)
    IN  /\ Calling("ReleaseResource") /\ held # << >>
        /\ os.prio[curr] >= ceiling_priority[r]
        /\ resourceHead' = [resourceHead EXCEPT ![curr] = SubSeq(held, 1, Len(held) - 1)]
        /\ IF Preempts(k, TaskGetTop(k))
           THEN Dispatch(RunningToReady(k, curr), From("body"))
           ELSE Continue(k, From("body"))
        /\ UNCHANGED <<activations, ev_set, ev_wait, pending, intNestCnt>>

-----------------------------------------------------------------------------
(* Interrupts of category 2.                                               *)

EnterIsr ==
    /\ ~halted /\ intNestCnt < IsrNesting
    /\ intNestCnt' = intNestCnt + 1
    /\ UNCHANGED <<os, activations, ev_set, ev_wait, resourceHead, context, pending, halted>>

\* Always back to the interrupted task.
TailChainingFaulty(k) == SwapTo(k, k.curr)

\* TailChaining: the interrupted task, or the top one, is swapped in anew.
TailChaining(k) ==
    LET top == TaskGetTop(k)
    IN  SwapTo(k, IF k.curr \in NonPreemptive \/ ~SchedulerResourceIsFree(k)
                  THEN k.curr ELSE top)

LeaveIsr ==
    /\ ~halted /\ intNestCnt > 0
    /\ intNestCnt' = intNestCnt - 1
    /\ os' = IF intNestCnt = 1 THEN TailChaining(RunningToReady(os, curr)) ELSE os
    /\ halted' = (intNestCnt = 1 /\ ResumesDead(context, os'))
    /\ UNCHANGED <<activations, ev_set, ev_wait, resourceHead, context, pending>>

-----------------------------------------------------------------------------

TaskStep ==
    \/ \E d \in Task : ActivateTask(d) \/ ChainTask(d)
    \/ TerminateTask \/ Return \/ ChainSelf \/ Schedule
    \/ \E d \in Task, m \in Mask : SetEventValidated(d, m)
    \/ SetEvent
    \/ \E m \in Mask : ClearEvent(m) \/ WaitEvent(m)
    \/ \E r \in StandardResource \cup {RES_SCHEDULER} : GetResource(r)
    \/ ReleaseResource

Interrupt ==
    \/ EnterIsr \/ LeaveIsr
    \/ \E d \in Task, m \in Mask : IsrSetEvent(d, m)

Next == TaskStep \/ Interrupt

Spec == Init /\ [][Next]_vars
=============================================================================
