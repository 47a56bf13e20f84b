CONSTANTS
    a = a
    b = b
    c = c
    None = None
    Table <- MCTable
    sched_head <- MCSchedHead
    points <- MCPoints
    duration <- MCDuration
    repeating <- MCRepeating
    maxallowedvalue = 4
    mincycle = 1
    Dispatching = {a}
    Calls <- MCCalls
    Preempted <- MCPreempted
SPECIFICATION ObservedSpec
INVARIANTS
    TypeOK
    NoPointMissed
    ChainExact
PROPERTIES
    PointsOnTime
CHECK_DEADLOCK FALSE
