CONSTANTS
    fatal = fatal
    error = error
    info = info
    slow = slow
    every = every
    auth = auth
    off = off
    bad = bad
    default = default
    any = any
    invalid = invalid
    api = api
    web = web
    timeout = timeout
    Events <- MCWanted
    Doc <- MCDoc
    Rules <- MCRules
    Rule <- MCRule
    Default = default
    Contents <- MCContents
    MaxVersions = 1
    Any = any
    Invalid = invalid
    Slack = TRUE
    Buffer = 1
    MaxPost = 1
    MaxRequests = 2
    Interval = 1
    Timeout = 1
    Trip = 1
SPECIFICATION FairSpec
PROPERTIES
    DeadStreamEndsProcess
    DeliveredIsEvaluated
CHECK_DEADLOCK FALSE
