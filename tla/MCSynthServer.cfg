SPECIFICATION FairSpec
CONSTANTS
    Worms = {w1, w2}
    NodeBase = 1000
    GroupBases = {500}
    MaxNodes = 1024
    MaxIssued = 5
    MaxQueued = 3
    MaxLost = 0
    MaxSetBack = 0
INVARIANTS
    ServerTypeOK
    VoiceAsBelieved
    OnlyTheClearedAreRefused
    ClearedStaySilent
PROPERTIES
    DismantledGetFreed
CHECK_DEADLOCK FALSE
