CONSTANTS
    MoveTicks = 4
    CounterMax = 6
    SlotKept = FALSE
SPECIFICATION MCFairSpec
INVARIANTS
    MotorSafety
