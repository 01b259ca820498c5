SPECIFICATION FairSpec
CONSTANTS
    t1 = t1  t2 = t2
    a = a  b = b
    s1 = s1  s2 = s2
    v1 = v1  v2 = v2  v3 = v3
    Threads = {t1, t2}
    Originals = {a}
    Servers = {s1, s2}
    Vids = {v1, v2}
    SeedKeys <- OneSeed
    Ops <- DeadlockOps
    MaxCrashes = 0
    LoadMayFail = FALSE
    DBMayFail = FALSE
    Torn = Torn
    None = None

PROPERTY CallsReturn
CHECK_DEADLOCK FALSE
