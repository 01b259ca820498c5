SPECIFICATION FairSpec
CONSTANTS
    w1 = w1  w2 = w2
    g1 = g1  g2 = g2
    Admins = {w1}
    Slots = {g1}
    MaxRequests = 1
    Budgets <- StuckBudgets
    Accepted = {0, 1}
    DBMayFail = FALSE
    None = None
PROPERTIES EventuallyServing
