SPECIFICATION ServicesSpec
CONSTANTS
    RosterIds = {r1, r2, r3}
    MeterStreams = {a1, a2}
    MaxAdded = 3
    Pages = {p1, p2}
    Broadcasters = {b1, b2}
    ChannelCap = 2
    MaxEvents = 3
    Savers = {w1, w2}
    Settings = {v1, v2}
    DefaultConfig = v0
    MaxSaves = 3
    NoFile = NoFile
    Admins = {c1, c2}
    Passwords = {old, new}
    NoPassword = NoPassword
    MaxStarts = 2
    Images = {i1, i2, i3}
    Sizes = {1, 2, 3}
    MaxBytes = 4
    MaxItemSize = 3
    MaxBuf = 2
    MaxLog = 3
    MaxEntries = 7
    StatusReaders = {s1, s2}
    OnlineReaders = {o1}
    Writers = {u1, u2}
    ListWriters = {l1}
INVARIANTS OrderIsStored MeterConserves TotalsBounded EventsInOrder
    FileIsWhole AnsweredIsSaved ChosenStays CacheAccounts CacheKeepsRecent
    RecentIsNewest NewestAreOnDisk SomebodyGoesOn
PROPERTIES RosterIsMembership BroadcastsEnd AccountIsHandedOver
CHECK_DEADLOCK FALSE
