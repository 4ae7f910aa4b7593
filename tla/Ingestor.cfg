CONSTANTS
    k1 = k1
    noKey = noKey
    first = first
    second = second
    retry = retry
    x1 = x1
    x2 = x2
    x3 = x3
    w1 = w1
    batch1 = batch1
    single1 = single1
    garbled = garbled
    large = large
    Keys <- MCKeys
    NoKey = noKey
    Calls <- MCCalls
    Event <- MCEvent
    Requests <- MCRequests
    Endpoint <- MCEndpoint
    Body <- MCBody
    MaxEvents = 2
    Workers <- MCWorkers
    BufferSize = 1
    BatchSize = 2
    Metrics = TRUE
    Window = 1
    SweepEvery = 1
    StartTime = 2
    MaxStall = 1
    MaxTime = 2
SPECIFICATION FairIngestorSpec
INVARIANTS
    PanicNeedsDeadline
    Refused503
    AnsweredBeforeExit
    ExitFlushesBatches
PROPERTIES
    ShutdownCompletes
CHECK_DEADLOCK FALSE
