SPECIFICATION FairSpec
CONSTANTS
    Nodes = {1, 2, 3, 4}
    MaxResults = 3
    NumTargets = 2
    Branch = 2
    Kinds = {"get_peers", "refresh"}
INVARIANTS
    InvokeCountExact
    BranchFactorExact
    BoundedConcurrency
    NothingAfterDone
    SearchComplete
PROPERTY
    Terminates
CHECK_DEADLOCK FALSE
