SPECIFICATION Spec
CONSTANTS
    Peers = {p1, p2}
    NoPeer = NoPeer
    NumBlocks = 2
    Fast = {}
    DropSkipped = TRUE
    MaxBad = 1
    MaxFaults = 0
SYMMETRY Symmetry
CONSTRAINT FewStrays
INVARIANTS
    TypeOK
    CountersExact
    RequestsCounted
    AskedOnce
    VerdictPending
    HaveIsGood
    BlameTheSender
CHECK_DEADLOCK FALSE
