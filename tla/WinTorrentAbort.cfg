SPECIFICATION Spec
CONSTANTS
    h1 = h1
    f1 = f1
    m1 = m1
    None = None
    Hashes <- OneHash
    FileTags <- OneFile
    LinkTags <- OneLink
    HashOf <- SameHash
    MaxAdds = 1
    MaxEvents = 1
    MaxCalls = 1
    MaxScans = 0
    Monitored = {}
INVARIANT AbortedBeforeDestroyed
CHECK_DEADLOCK FALSE
