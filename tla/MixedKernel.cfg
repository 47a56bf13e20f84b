CONSTANTS
    Event = {e}
    None = None
    OsIdle = OsIdle
    A = A
    B = B
    C = C
    e = e
    R = R
    Task <- MCTask
    Resource = {R}
    prio <- MixedPrio
    activationLimit <- MixedLimit
    Extended = {A}
    NonPreemptive = {C}
    autostart <- MixedStart
    resourceAccess <- MixedAccess
    resourceInt <- NoInternal
    Calls <- MixedCalls
    IsrCalls = {"ActivateTask", "SetEvent"}
    IsrNesting = 2
SPECIFICATION ObservedSpec
INVARIANTS
    TypeOK
    HighestPriorityRuns
    NoLostWakeup
    ReadyListExact
    CeilingExcludes
    PriorityRestored
    AssertionsHold
    ActivationsPerformed
PROPERTIES
    RestartsOnlyWhenEnded
