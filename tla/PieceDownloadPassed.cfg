SPECIFICATION Spec
CONSTANTS
    Peers = {p1}
    NoPeer = NoPeer
    NumBlocks = 2
    Fast = {}
    DropSkipped = FALSE
    MaxBad = 0
    MaxFaults = 1
PROPERTY PassedWhenWritten
CHECK_DEADLOCK FALSE
