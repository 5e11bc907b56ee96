SPECIFICATION FairSpec
CONSTANTS
    Peers = {p1, p2}
    NoPeer = NoPeer
    NumBlocks = 1
    Fast = {p1}
    DropSkipped = FALSE
    MaxBad = 0
    MaxFaults = 1
INVARIANTS
    UploadModeQuiet
PROPERTY VerdictReached
CHECK_DEADLOCK FALSE
