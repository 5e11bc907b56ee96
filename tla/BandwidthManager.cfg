SPECIFICATION FairSpec
CONSTANTS
    session = session
    torrent = torrent
    NumPeers = 2
    Channels = {session, torrent}
    Memberships <- MCMemberships
    Limits <- MCLimits
    Sizes = {3}
    Prios = {1, 2}
    Ticks = {500, 4000}
    Ttl = 2
    MaxOverhead = 1
    MaxSettings = 1
INVARIANTS
    CheckInvariant
    FlaggedIffQueued
    NeverOverdrawn
PROPERTY
    Answered
CHECK_DEADLOCK FALSE
