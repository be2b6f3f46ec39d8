SPECIFICATION FairSpec
CONSTANTS
    Kinds = {"bundle", "clearSched"}
    Times = {1, 2, 3}
    ToRoom = 2
    FromRoom = 1
    SchedulerRoom = 2
    MaxPackets = 3
INVARIANTS
    OneOwner
    PerformedInOrder
PROPERTY
    AcceptedRunsItsCourse
