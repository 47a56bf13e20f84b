CONSTANTS
    MoveTicks = 3
    CounterMax = 4
    SlotKept = TRUE
    Overrun = {}
SPECIFICATION MCFairSpec
INVARIANTS
    MotorPinsOff
