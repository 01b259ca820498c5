SPECIFICATION Spec
CONSTANTS
    A = A  B = B  C = C
    a1 = a1  a2 = a2  b1 = b1  b2 = b2  b3 = b3  c1 = c1  c2 = c2
    r1 = r1  r2 = r2
    Requests = {r1}
    Servers = {A, B}
    Items <- MCItems
    SrvOf <- MCSrvOf
    Key <- MCKey
    Library <- MCLibrary
    Contents <- MCContents
    Chinese = {b1, b2}
    PriorityMeta = {A}
    MaxRemovals = 0
    None = None
INVARIANT PriorityDecides
CHECK_DEADLOCK FALSE
