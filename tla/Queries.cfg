CONSTANTS
    a = a
    b = b
    c = c
    d = d
    e = e
    unfiltered = unfiltered
    unparsed = unparsed
    timeout = timeout
    Docs <- MCDocs
    Doc <- MCDoc
    Requests <- MCRequests
    Unfiltered = unfiltered
    Unparsed = unparsed
    DefaultWindow = 2
    Minute = 1
    ZeroTime = zeroTime
    DefaultPage = 2
    MaxPage = 3
    MaxServices = 2
    MaxMinutes = 2
    MaxTime = 3
SPECIFICATION Spec
INVARIANTS
    PageIsNewest
    StatsAddUp
    ThroughputAddsUp
CHECK_DEADLOCK FALSE
