SPECIFICATION Spec
CONSTANTS
    Nil = Nil
    Unit = 2
    Jumps = {1, 3}
    MaxTime = 8
    MaxSetBacks = 2
INVARIANTS
    TimeAccounted
    OnTime
    NeverAhead
