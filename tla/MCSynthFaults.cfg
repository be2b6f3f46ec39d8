SPECIFICATION Spec
CONSTANTS
    Worms = {w1, w2}
    NodeBase = 3
    GroupBases = {1, 2}
    MaxNodes = 5
    MaxIssued = 4
    MaxQueued = 3
    MaxLost = 1
    MaxSetBack = 1
SYMMETRY Symmetry
INVARIANTS
    TreeWellFormed
    OwnGroupOnly
    SignalPath
CHECK_DEADLOCK FALSE
