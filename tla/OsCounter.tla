----------------------------- MODULE OsCounter -----------------------------
(***************************************************************************)
(* A counter of core/system/Os and the alarms connected to it.             *)
(*                                                                         *)
(* An increment (OsTick for the hardware counter, IncrementCounter for a   *)
(* software one) walks the counter's alarm list.  The action of an alarm   *)
(* that is due may dispatch a task in the middle of the walk, when the     *)
(* counter is incremented by a task; that task may increment the counter   *)
(* again and set or cancel alarms before the walk goes on.  Walks so nest  *)
(* like the tasks that make them: `frames`.  OsTick is an interrupt and    *)
(* dispatches nothing: a hardware counter has no Dispatching alarms,       *)
(* provided no interrupt nested in OsTick touches its alarms.              *)
(*                                                                         *)
(* Calls that only return an error status change nothing and are left out, *)
(* and so are alarm callbacks, which the code does not call (os_alarm.c:   *)
(* 384).                                                                   *)
(***************************************************************************)
EXTENDS Integers, Sequences

CONSTANTS
    Alarm,
    alarm_head,         \* the alarms in the order of the counter's list
    maxallowedvalue, mincycle,
    TickModulus,        \* width of OS_SYS_PTR->tick
    Hard,               \* a hardware counter, read from OS_SYS_PTR->tick
    Dispatching,        \* alarms whose action may preempt who increments
    Depth,              \* the most walks at a time: tasks that increment
    autostart,          \* per alarm, how it is started with the system
    Calls,              \* the services applications call
    Times, Cycles       \* the arguments they pass

\* How an alarm is started with the system.
Autostart == [type : {"ABSOLUTE", "RELATIVE", "none"}, time : Nat, cycle : Nat]

ASSUME CounterAssumption ==
    /\ alarm_head \in Seq(Alarm)
    /\ \A a \in Alarm : \E i \in DOMAIN alarm_head : alarm_head[i] = a
    /\ maxallowedvalue \in Nat \ {0} /\ mincycle \in Nat \ {0}
    /\ TickModulus \in Nat /\ TickModulus > maxallowedvalue
    /\ Hard \in BOOLEAN /\ Dispatching \subseteq Alarm
    /\ Depth \in Nat \ {0}
    /\ autostart \in [Alarm -> Autostart]
    /\ Calls \subseteq {"SetRelAlarm", "SetAbsAlarm", "CancelAlarm", "GetCounterValue"}
    /\ Times \subseteq Nat /\ Cycles \subseteq Nat

VARIABLES
    val,    \* the counter
    tick,   \* OS_SYS_PTR->tick
    alarm,  \* the alarms: active, expire_val, cycletime
    frames, \* per walk under way, the alarms it has still to look at
    acting  \* the innermost walk waits for the task its alarm dispatched

counterVars == <<val, tick, alarm, frames, acting>>

Ticks == 0..maxallowedvalue

-----------------------------------------------------------------------------

\* Definitions named ...Faulty are mistakes the properties must notice.
\* The step from the maximum to zero is not counted.
CounterDiffFaulty(curr, old) ==
    IF curr >= old THEN curr - old ELSE curr + (maxallowedvalue - old)

CounterDiff(curr, old) ==
    IF curr >= old THEN curr - old ELSE curr + (maxallowedvalue - old) + 1

CounterAddFaulty(curr, add) ==
    IF add <= maxallowedvalue - curr THEN curr + add
    ELSE add - (maxallowedvalue - curr)

CounterAdd(curr, add) ==
    IF add <= maxallowedvalue - curr THEN curr + add
    ELSE add - (maxallowedvalue - curr) - 1

CycleOK(cycle) == cycle # 0 => cycle \in mincycle..maxallowedvalue

\* SetRelAlarm and SetAbsAlarm take the arguments.
RelOK(increment, cycle) == increment \in 1..maxallowedvalue /\ CycleOK(cycle)
AbsOK(start, cycle) == start \in Ticks /\ CycleOK(cycle)

\* Alarms that are set when the system starts: these services may refuse.
Started(a) ==
    LET start == autostart[a] IN
    \/ start.type = "RELATIVE" /\ RelOK(start.time, start.cycle)
    \/ start.type = "ABSOLUTE" /\ AbsOK(start.time, start.cycle)

AlarmType == [active : BOOLEAN, expire_val : Ticks, cycletime : Ticks]
Armed(expire, cycle) == [active |-> TRUE, expire_val |-> expire, cycletime |-> cycle]
Off == [active |-> FALSE, expire_val |-> 0, cycletime |-> 0]

Init ==
    /\ val = 0 /\ tick = 0
    /\ alarm = [a \in Alarm |-> IF Started(a)
                                THEN Armed(autostart[a].time, autostart[a].cycle)
                                ELSE Off]
    /\ frames = << >> /\ acting = FALSE

\* Application code runs: no walk is under way, or one let a task run.
Free == frames # << >> => acting

-----------------------------------------------------------------------------
(* Services.                                                               *)

SetRelAlarm(a, increment, cycle) ==
    /\ Free /\ "SetRelAlarm" \in Calls
    /\ RelOK(increment, cycle)
    /\ ~alarm[a].active
    /\ alarm' = [alarm EXCEPT ![a] = Armed(CounterAdd(val, increment), cycle)]
    /\ UNCHANGED <<val, tick, frames, acting>>

SetAbsAlarm(a, start, cycle) ==
    /\ Free /\ "SetAbsAlarm" \in Calls
    /\ AbsOK(start, cycle)
    /\ ~alarm[a].active
    /\ alarm' = [alarm EXCEPT ![a] = Armed(start, cycle)]
    /\ UNCHANGED <<val, tick, frames, acting>>

CancelAlarm(a) ==
    /\ Free /\ "CancelAlarm" \in Calls
    /\ alarm[a].active
    /\ alarm' = [alarm EXCEPT ![a].active = FALSE]
    /\ UNCHANGED <<val, tick, frames, acting>>

\* What GetAlarm and GetCounterValue answer.
GetAlarm(a) == CounterDiff(alarm[a].expire_val, val)

GetCounterValue == IF Hard THEN tick ELSE val

-----------------------------------------------------------------------------
(* The increment and its walk through the alarms.                          *)

top == frames[1]
At(a) == frames # << >> /\ ~acting /\ top # << >> /\ a = Head(top)
StepOver == frames' = <<Tail(top)>> \o Tail(frames)

\* An alarm that is not active is due as well.
DueFaulty(a) == alarm[a].expire_val = val
Due(a) == alarm[a].active /\ alarm[a].expire_val = val

\* A cyclic alarm is logged on again, another one is over.
AlarmProcessFaulty(a) ==
    alarm' = [alarm EXCEPT ![a].active = (alarm[a].cycletime # 0),
                           ![a].expire_val = CounterAdd(val, alarm[a].cycletime)]

\* Every alarm expires once.
AlarmProcessOnceFaulty(a) == alarm' = [alarm EXCEPT ![a].active = FALSE]

AlarmProcess(a) ==
    alarm' = IF alarm[a].cycletime = 0 THEN [alarm EXCEPT ![a].active = FALSE]
             ELSE [alarm EXCEPT ![a].expire_val = CounterAdd(val, alarm[a].cycletime)]

IncrementCounter ==
    /\ Free /\ Len(frames) < Depth
    /\ tick' = (tick + 1) % TickModulus
    /\ val' = CounterAdd(val, 1)
    /\ frames' = <<alarm_head>> \o frames
    /\ acting' = FALSE
    /\ UNCHANGED alarm

NotDue(a) == At(a) /\ ~Due(a) /\ StepOver /\ UNCHANGED <<val, tick, alarm, acting>>

\* At most one alarm for each increment.
ExpireFaulty(a) ==
    /\ At(a) /\ Due(a)
    /\ AlarmProcess(a) /\ frames' = <<<< >>>> \o Tail(frames)
    /\ UNCHANGED <<val, tick, acting>>

\* The action is done, and the walk goes on at once,
Expire(a) ==
    /\ At(a) /\ Due(a)
    /\ AlarmProcess(a) /\ StepOver
    /\ UNCHANGED <<val, tick, acting>>

\* or when the task it dispatched is back.
ExpirePreempted(a) ==
    /\ At(a) /\ Due(a) /\ a \in Dispatching
    /\ acting' = TRUE
    /\ UNCHANGED <<val, tick, alarm, frames>>

GoOn ==
    /\ acting
    /\ AlarmProcess(Head(top)) /\ StepOver
    /\ acting' = FALSE
    /\ UNCHANGED <<val, tick>>

\* Always back to a task that an alarm dispatched.
WalkEndsFaulty ==
    /\ frames # << >> /\ ~acting /\ top = << >>
    /\ frames' = Tail(frames)
    /\ acting' = TRUE
    /\ UNCHANGED <<val, tick, alarm>>

\* The end of the list: back in the code that incremented the counter.
WalkEnds ==
    /\ frames # << >> /\ ~acting /\ top = << >>
    /\ frames' = Tail(frames)
    /\ acting' = (Len(frames) > 1)
    /\ UNCHANGED <<val, tick, alarm>>

-----------------------------------------------------------------------------

AlarmCheck(a) == NotDue(a) \/ Expire(a) \/ ExpirePreempted(a)

Service(a) ==
    \/ \E time \in Times, cycle \in Cycles :
          SetRelAlarm(a, time, cycle) \/ SetAbsAlarm(a, time, cycle)
    \/ CancelAlarm(a)

Next ==
    \/ \E a \in Alarm : Service(a) \/ AlarmCheck(a)
    \/ IncrementCounter \/ GoOn \/ WalkEnds

Spec == Init /\ [][Next]_counterVars
=============================================================================
