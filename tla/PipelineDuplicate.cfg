CONSTANTS
    k1 = k1
    noKey = noKey
    first = first
    retry = retry
    plain = plain
    bad = bad
    w1 = w1
    w2 = w2
    Keys <- MCKeys
    NoKey = noKey
    Calls <- MixedCalls
    Event <- MixedEvent
    Workers <- OneWorker
    BufferSize = 1
    BatchSize = 2
    Metrics = FALSE
    Window = 1
    SweepEvery = 1
    StartTime = 2
    MaxStall = 1
    MaxTime = 2
SPECIFICATION Spec
INVARIANTS
    DuplicateIsQueued
CHECK_DEADLOCK FALSE
