SPECIFICATION Spec
CONSTANTS
    Messages = {m1, m2, m3}
    Spent = Spent
    N = 4
INVARIANTS
    HeadsInOrder
PROPERTIES
    IsBoundedQueue
