SPECIFICATION Spec
CONSTANTS
    h1 = h1
    f1 = f1
    m1 = m1
    None = None
    Hashes <- OneHash
    FileTags <- OneFile
    LinkTags <- OneLink
    HashOf <- SameHash
    MaxAdds = 1
    MaxEvents = 1
    MaxCalls = 2
    MaxScans = 0
    Monitored = {}
INVARIANTS
    TypeOK
    EnoughAwaited
    NoOrphan
    LastWordWins
CHECK_DEADLOCK FALSE
