CONSTANTS
    MoveTicks = 3
    CounterMax = 4
    SlotKept = TRUE
    Overrun = {}
SPECIFICATION MCFairSpec
INVARIANTS
    PwcTypeOK
    CommandReachesMotor
    EndStopHaltsMotor
    DeadExpanderStopsMotor
PROPERTIES
    DriverLetsGo
