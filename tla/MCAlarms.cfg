CONSTANTS
    a = a
    b = b
    Alarm <- MCAlarm
    alarm_head <- MCAlarmHead
    maxallowedvalue = 3
    mincycle = 1
    TickModulus = 4
    Hard = FALSE
    Dispatching = {a}
    Depth = 2
    autostart <- MCAutostart
    Calls = {"SetRelAlarm", "SetAbsAlarm", "CancelAlarm", "GetCounterValue"}
    Times = {0, 1, 2, 3}
    Cycles = {0, 1, 3}
SPECIFICATION ObservedSpec
INVARIANTS
    TypeOK
    CalmMissesNone
    CalmKeepsCycle
    CalmStaysSet
    ElapsedExact
PROPERTIES
    CalmExpiresOnTime
    CancelledStaysOff
