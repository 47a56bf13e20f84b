CONSTANTS
    Event = {e}
    None = None
    OsIdle = OsIdle
    A = A
    B = B
    C = C
    e = e
    R = R
    Task <- MCTask
    Resource = {}
    prio <- StartedPrio
    activationLimit <- Once
    Extended = {}
    NonPreemptive = {}
    autostart <- StartedStart
    resourceAccess <- NoResources
    resourceInt <- NoInternal
    Calls <- StartedCalls
    IsrCalls = {"ActivateTask"}
    IsrNesting = 1
SPECIFICATION ObservedSpec
INVARIANTS
    ActivationsPerformed
