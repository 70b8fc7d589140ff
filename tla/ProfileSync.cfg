SPECIFICATION FairSpec
CONSTANTS
    u1 = u1
    c1 = c1
    c2 = c2
    Users = {u1}
    Characters = {c1, c2}
    Ticks = {"t1", "t2"}
    DueLimit = 2
    Unreachable = {c2}
    MaxLinks = 2
    LevelOf <- Levels
    Faults = {"fetch", "vanished", "database", "restart"}
INVARIANT EventsMatchSnapshots
PROPERTY SyncedInTheEnd
CHECK_DEADLOCK FALSE
