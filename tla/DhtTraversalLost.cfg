SPECIFICATION Spec
CONSTANTS
    Nodes = {1, 2}
    MaxResults = 2
    NumTargets = 1
    Branch = 1
    Kinds = {"get_peers"}
PROPERTY
    SentIsReported
CHECK_DEADLOCK FALSE
