SPECIFICATION FairSpec
CONSTANTS
    MaxAssociations = 2
    MaxPackets = 1
INVARIANTS
    TypeOK
    OpsExact
    NeverBypassed
PROPERTY Released
CHECK_DEADLOCK FALSE
