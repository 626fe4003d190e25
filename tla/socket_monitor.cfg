SPECIFICATION FairSpec
CONSTANTS
    i1 = i1
    r1 = r1
    r2 = r2
    up = up
    down = down
    nil = nil
    Interface <- MCInterface
    Route <- MCRoute
    State <- MCState
    Wanted <- MCWanted
    DumpAll = FALSE
    Slack = 1
    QueueSize = 2
    MaxChanges = 4
INVARIANTS
    TypeOK
    LogFollowsTable
PROPERTIES
    DumpEnds
    LogCatchesUp
CHECK_DEADLOCK FALSE
