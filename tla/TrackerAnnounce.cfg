SPECIFICATION FairSpec
CONSTANTS
    a = a
    b = b
    Trackers = {a, b}
    Own <- MCOwn
    Tier <- MCTier
    Tiers = {0, 1}
    FailLimit <- MCFailLimit
    FailWrap = 2
    Intervals = {1}
    MinIntervals = {2}
    Delays = {1}
    Retry = 1
    MinRetry = 1
    MaxCalls = 2
INVARIANTS
    TypeOK
    UpdatingExact
    LastWorkingNamed
    Awake

PROPERTIES
    Failover
CHECK_DEADLOCK FALSE
