SPECIFICATION FairSpec
CONSTANTS
    h1 = h1
    f1 = f1
    m1 = m1
    None = None
    Hashes <- OneHash
    FileTags <- OneFile
    LinkTags <- NoTags
    HashOf <- FileHash
    MaxAdds = 1
    MaxEvents = 1
    MaxCalls = 0
    MaxScans = 2
    Monitored <- OneFile
INVARIANTS
    NoResumeDataLeft
PROPERTY CleanShutdown
CHECK_DEADLOCK FALSE
