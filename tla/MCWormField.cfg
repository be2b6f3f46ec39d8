SPECIFICATION MCSpec
CONSTANTS
    MaxWorms = 3
    MaxDrawn = 2
    MaxLength = 2
    Pitches = {p1}
    Effects = {1}
INVARIANTS
    FieldTypeOK
    CreationInStep
    SequencesInStep
    CalledOncePerTick
    ClearedStayOut
    OnlyTheDeadEscapeClear
    DismantledAtMostTwice
PROPERTIES
    NoEffectOnceCleared
