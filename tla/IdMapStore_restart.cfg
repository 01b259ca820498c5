SPECIFICATION Spec
CONSTANTS
    t1 = t1  t2 = t2
    a = a  b = b
    s1 = s1  s2 = s2
    v1 = v1  v2 = v2  v3 = v3
    Threads = {t1, t2}
    Originals = {a, b}
    Servers = {s1, s2}
    Vids = {v1, v2}
    SeedKeys <- OneSeed
    Ops <- InstanceOps
    MaxCrashes = 1
    LoadMayFail = FALSE
    DBMayFail = FALSE
    Torn = Torn
    None = None

INVARIANT InstancesComplete
CHECK_DEADLOCK FALSE
