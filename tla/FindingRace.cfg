CONSTANTS
    Event = {e}
    None = None
    OsIdle = OsIdle
    A = A
    B = B
    C = C
    e = e
    R = R
    Task <- MCTask
    Resource = {}
    prio <- RacePrio
    activationLimit <- Once
    Extended = {A}
    NonPreemptive = {}
    autostart <- RaceStart
    resourceAccess <- NoResources
    resourceInt <- NoInternal
    Calls <- RaceCalls
    IsrCalls = {"SetEvent"}
    IsrNesting = 1
SPECIFICATION ObservedSpec
INVARIANTS
    AssertionsHold
