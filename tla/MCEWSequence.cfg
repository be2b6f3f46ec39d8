SPECIFICATION FairSpec
CONSTANTS
    Events = {e1, e2}
    MaxLength = 3
    MaxEdits = 6
INVARIANTS
    TypeOK
    IndexesInRange
PROPERTIES
    DriftConserves
    EveryEventFires
CHECK_DEADLOCK FALSE
