CONSTANTS
    MoveTicks = 200
    CounterMax = 255
    SlotKept = FALSE
SPECIFICATION MCFairSpec
INVARIANTS
    SubstatesMatch
PROPERTIES
    EntryWritesCommand
    ImplementsFairWindowMotion
