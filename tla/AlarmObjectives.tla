-------------------------- MODULE AlarmObjectives --------------------------
(***************************************************************************)
(* What OsCounter promises.  The observer keeps, for each alarm, the ticks *)
(* it has left by what the callers asked for, and one earlier reading of   *)
(* the counter with the ticks since; it never guards a step.               *)
(***************************************************************************)
EXTENDS OsCounter

VARIABLES
    left,      \* ticks left of each alarm: 0 expires now, Unarmed never
    cancelled, \* alarms cancelled and not set again
    seen,      \* a value GetCounterValue answered
    since,     \* ticks since, at most one more than the counter's range
    calm       \* no task has come between an alarm's action and the walk

observedVars == <<counterVars, left, cancelled, seen, since, calm>>

Unarmed == -1

\* A start that is reached now is reached again after the next overrun.
TicksTo(start) == IF start = val THEN maxallowedvalue + 1 ELSE CounterDiff(start, val)

ObservedInit ==
    /\ Init
    /\ left = [a \in Alarm |-> IF Started(a) THEN TicksTo(autostart[a].time)
                               ELSE Unarmed]
    /\ cancelled = {}
    /\ seen = GetCounterValue /\ since = 0
    /\ calm = TRUE

ObserveService(a) ==
    /\ UNCHANGED <<seen, since, calm>>
    /\ \/ /\ \/ \E time \in Times, cycle \in Cycles :
                   SetRelAlarm(a, time, cycle) /\ left' = [left EXCEPT ![a] = time]
             \/ \E time \in Times, cycle \in Cycles :
                   SetAbsAlarm(a, time, cycle) /\ left' = [left EXCEPT ![a] = TicksTo(time)]
          /\ cancelled' = cancelled \ {a}
       \/ /\ CancelAlarm(a)
          /\ left' = [left EXCEPT ![a] = Unarmed]
          /\ cancelled' = cancelled \cup {a}

ObserveExpiry(a) ==
    /\ \/ Expire(a) /\ UNCHANGED calm
       \/ ExpirePreempted(a) /\ calm' = FALSE
    /\ left' = [left EXCEPT ![a] = IF alarm[a].cycletime = 0 THEN Unarmed
                                   ELSE alarm[a].cycletime]
    /\ UNCHANGED <<cancelled, seen, since>>

ObserveIncrement ==
    /\ IncrementCounter
    /\ left' = [a \in Alarm |-> IF left[a] > 0 THEN left[a] - 1 ELSE left[a]]
    /\ since' = IF since <= maxallowedvalue THEN since + 1 ELSE since
    /\ UNCHANGED <<cancelled, seen, calm>>

ObserveReading ==
    /\ Free /\ "GetCounterValue" \in Calls
    /\ seen' = GetCounterValue /\ since' = 0
    /\ UNCHANGED <<counterVars, left, cancelled, calm>>

ObservedNext ==
    \/ \E a \in Alarm : ObserveService(a) \/ ObserveExpiry(a)
    \/ ObserveIncrement \/ ObserveReading
    \/ /\ GoOn \/ WalkEnds \/ \E a \in Alarm : NotDue(a)
       /\ UNCHANGED <<left, cancelled, seen, since, calm>>

ObservedSpec == ObservedInit /\ [][ObservedNext]_observedVars

TypeOK ==
    /\ val \in Ticks /\ tick \in 0..(TickModulus - 1)
    /\ alarm \in [Alarm -> AlarmType]
    /\ frames \in Seq(Seq(Alarm)) /\ Len(frames) <= Depth
    /\ acting \in BOOLEAN /\ (acting => frames # << >> /\ top # << >>)

\* No walk is under way.
AtRest == frames = << >>

Expires(a) == Expire(a) \/ ExpirePreempted(a)
-----------------------------------------------------------------------------

\* "After <increment> ticks have elapsed" the alarm's action is done
\* (os_alarm.c:127): none is left behind when the walk is over.
NoExpiryMissed == AtRest => \A a \in Alarm : left[a] # 0

\* So it is as long as no alarm's task gets between its action and the walk.
CalmMissesNone == calm => NoExpiryMissed

\* An alarm then expires when its time has come and never before.
CalmExpiresOnTime ==
    [][\A a \in Alarm : calm /\ Expires(a) => left[a] = 0]_observedVars

\* A cyclic alarm is then "logged on again immediately after expiry with the
\* relative value <cycle>" (os_alarm.c:222): what is left is what was asked for.
CalmKeepsCycle ==
    calm /\ AtRest => \A a \in Alarm :
        alarm[a].active /\ alarm[a].cycletime # 0 =>
            left[a] = TicksTo(alarm[a].expire_val)

\* And an alarm that was set and has neither expired nor been cancelled is
\* active (os_alarm.c:126, "occupies the alarm <AlarmID> element").
CalmStaysSet ==
    calm /\ AtRest => \A a \in Alarm : left[a] # Unarmed => alarm[a].active

\* A cancelled alarm does not expire (os_alarm.c:298).
CancelledStaysOff == [][\A a \in Alarm : Expires(a) => a \notin cancelled]_observedVars

\* GetElapsedValue accepts an earlier reading and answers the ticks since
\* (os_counter.c:138), as long as they are within the counter's range.
ElapsedExact ==
    since <= maxallowedvalue =>
        seen <= maxallowedvalue /\ CounterDiff(GetCounterValue, seen) = since

=============================================================================
