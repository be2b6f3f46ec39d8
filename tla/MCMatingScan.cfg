SPECIFICATION MCSpec
CONSTANTS
    MaxWorms = 11
    MaxHerd = 4
INVARIANTS
    ScanTypeOK
    CursorsInArray
    BirthsBounded
PROPERTIES
    ScanEnds
CHECK_DEADLOCK FALSE
