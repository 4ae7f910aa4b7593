CONSTANTS
    fatal = fatal
    error = error
    info = info
    slow = slow
    every = every
    auth = auth
    off = off
    bad = bad
    default = default
    any = any
    invalid = invalid
    api = api
    web = web
    timeout = timeout
    Events <- MCEvents
    Doc <- MCDoc
    Rules <- MCRules
    Rule <- MCRule
    Default = default
    Contents <- MCContents
    MaxVersions = 2
    Any = any
    Invalid = invalid
    Slack = TRUE
    Buffer = 1
    MaxPost = 1
    MaxRequests = 2
    Interval = 1
    Timeout = 1
    Trip = 2
SPECIFICATION Spec
INVARIANTS
    TypeOK
    StreamIsKept
    OneVersionPerEvent
    ProbesSuffice
PROPERTIES
    RulesMoveForward
CHECK_DEADLOCK FALSE
