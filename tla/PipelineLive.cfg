CONSTANTS
    first = first
    second = second
    third = third
    noKey = noKey
    w1 = w1
    w2 = w2
    Keys = {}
    NoKey = noKey
    Calls <- MCCalls
    Event <- MCEvent
    Workers <- MCWorkers
    BufferSize = 1
    BatchSize = 2
    Metrics = FALSE
    Window = 1
    SweepEvery = 1
    StartTime = 2
    MaxStall = 0
    MaxTime = 2
SPECIFICATION FairStatsSpec
INVARIANTS
    StopDrains
    SnapshotCountsOnce
PROPERTIES
    SubmitReturns
    QueuedSettles
    StopReturns
CHECK_DEADLOCK FALSE
