CONSTANTS
    a = a
    b = b
    Alarm <- MCAlarm
    alarm_head <- MCAlarmHead
    maxallowedvalue = 2
    mincycle = 1
    TickModulus = 3
    Hard = FALSE
    Dispatching = {a}
    Depth = 2
    autostart <- MCAutostart
    Calls = {"SetRelAlarm", "SetAbsAlarm", "CancelAlarm"}
    Times = {0, 1, 2}
    Cycles = {0, 1}
SPECIFICATION ObservedSpec
INVARIANTS
    NoExpiryMissed
