------------------------------ MODULE MCAlarms ------------------------------
(* AlarmObjectives on a small counter with two alarms; the action of `a`    *)
(* activates a task that may preempt the one that increments the counter.   *)
EXTENDS AlarmObjectives

CONSTANTS a, b

MCAlarm == {a, b}
MCAlarmHead == <<a, b>>
MCAutostart ==
    [x \in MCAlarm |-> IF x = a THEN [type |-> "none", time |-> 0, cycle |-> 0]
                       ELSE [type |-> "ABSOLUTE", time |-> 2, cycle |-> 3]]
=============================================================================
