CONSTANTS
    k1 = k1
    noKey = noKey
    first = first
    retry = retry
    plain = plain
    bad = bad
    w1 = w1
    w2 = w2
    Keys <- MCKeys
    NoKey = noKey
    Calls <- MixedCalls
    Event <- MixedEvent
    Workers <- TwoWorkers
    BufferSize = 2
    BatchSize = 2
    Metrics = TRUE
    Window = 1
    SweepEvery = 1
    StartTime = 2
    MaxStall = 1
    MaxTime = 4
SPECIFICATION Spec
INVARIANTS
    TypeOK
    NothingVanishes
    NothingTwice
    BatchDiscipline
    AcceptedIsStored
    DuplicateHasTwin
PROPERTIES
    ImplementsCache
    ImplementsDelivery
CHECK_DEADLOCK FALSE
