CONSTANTS
    door = door
    bus = bus
    u = u
    v = v
    User <- MCUser
    Callers <- MCCallers
    Preempted = {"RUN"}
    Source <- MCSource
    Power = Power
    None = None
    NoValidation <- MCNoValidation
    ValidationTime <- MCValidationTime
    RunMinimum = 2
    NvramTime = 2
    DefaultTarget = "OFF"
    Selected = {"SLEEP", "RESET"}
SPECIFICATION ObservedFairSpec
INVARIANTS
    TypeOK
PROPERTIES
    RunKept
    KillShutsDown
    WakeupServed
CHECK_DEADLOCK FALSE
