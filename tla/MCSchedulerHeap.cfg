SPECIFICATION Spec
CONSTANTS
    Packets = {p1, p2, p3, p4, p5, p6}
    Times = {1, 2, 3}
    N = 5
SYMMETRY Symmetry
INVARIANTS
    HeapOrdered
    NextTimeIsEarliest
PROPERTIES
    IsEventQueue
