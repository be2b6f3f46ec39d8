SPECIFICATION Spec
CONSTANT
    MaxThreads = 1
INVARIANT
    StoppedIsDone
