CONSTANTS
    i1 = i1
    i2 = i2
    alerter = alerter
    keyed = keyed
    plain = plain
    Numerals = {"8080"}
    Procs <- MCProcs
    Ingestors <- MCIngestors
    Deployments <- MCDeployments
    Servers <- MCServers
    Latency = 1
    MaxFaults = 2
    Events <- MCEvents
    Keyed = {keyed}
    NoProc = noProc
    BufferSize = 1
    Capacity = 2
SPECIFICATION FairSpec
INVARIANTS
    ClusterTypeOK
    CopiesNeedSilence
    AcceptedIsKept
    ConfiguredKind
    RaceLostOnce
PROPERTIES
    RetriesSucceed
    StartupSucceeds
CHECK_DEADLOCK FALSE
