SPECIFICATION RacesSpec
SYMMETRY Symmetry
CONSTANTS
    w1 = w1  w2 = w2
    g1 = g1  g2 = g2
    Admins = {w1, w2}
    Slots = {g1, g2}
    MaxRequests = 2
    Budgets <- SafetyBudgets
    Accepted = {0, 1, 2}
    DBMayFail = TRUE
    None = None
INVARIANTS TypeOK ConfigDurable NeverStuck SessionIsCurrentUnlessRaced
