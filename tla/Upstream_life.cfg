SPECIFICATION FairSpec
CONSTANTS
    w1 = w1  w2 = w2
    g1 = g1  g2 = g2
    Admins = {w1}
    Slots = {g1}
    MaxRequests = 2
    Budgets <- LifeBudgets
    Accepted = {0, 2}
    DBMayFail = TRUE
    None = None
PROPERTIES EventuallyServingUnlessOvertaken
