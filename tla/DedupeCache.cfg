CONSTANTS
    k1 = k1
    k2 = k2
    noKey = noKey
    c1 = c1
    c2 = c2
    Keys <- MCKeys
    NoKey = noKey
    Callers <- MCCallers
    Window = 4
    SweepEvery = 2
    StartTime = 3
    MaxStall = 1
    MaxTime = 14
SPECIFICATION Spec
INVARIANTS
    TypeOK
    EntryKept
    EntryFresh
PROPERTIES
    NoEarlyReadmission
    DuplicateIsRecent
