CONSTANTS
    MoveTicks = 3
    CounterMax = 4
    SlotKept = TRUE
SPECIFICATION MCFairSpec
INVARIANTS
    MotorSafety
    Predictability
    UserSafety
    Robustness
    MotionBounded
    ExpressUp
PROPERTIES
    MotorComesToRest
