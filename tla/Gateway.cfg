SPECIFICATION GatewaySpec
SYMMETRY Symmetry
CONSTANTS
    None = None
    s1 = s1
    s2 = s2
    film1 = film1
    film2 = film2
    r1 = r1
    r2 = r2
    Servers = {s1, s2}
    Requests = {r1, r2}
    Mixes <- MCMixes
    Tokens = {t1}
    Plays = {p1}
    Items = {film1, film2}
    MaxRemovals = 1
    SrvOf <- MCSrvOf
    Inst <- MCInst
INVARIANTS
    TypeOK
    CallsNameOwnItems
    RemovedIsNeverCalled
    RefusedOnlyWhenGone
    PlaybackStaysPut
