SPECIFICATION FairSpec
CONSTANTS
    u1 = u1
    adm = adm
    g1 = g1
    g2 = g2
    Pages = {root, child, leaf}
    Root = root
    Namespaces = {g1, g2}
    Grants = {{g1}, {g1, g2}}
    Processes = {p1, p2}
    Requests = {r1, r2}
    Sweeps = {s1, s2}
    Users = {u1, adm}
    Admins = {adm}
    Sees <- MCSees
    UserLimit = 1
    AdminLimit = 2
    MaxPerUser = 1
    MaxSystem = 1
    AdminBypass = TRUE
    ChunkSize = 2
    MaxPagesPerTick = 2
    Budgets <- MCBudgets
CHECK_DEADLOCK FALSE
INVARIANT TypeOK
INVARIANT SlotsMatchRuns
INVARIANT ClosedWhenOver
INVARIANT RepairedMirrors
INVARIANT SweepMissesNothing
PROPERTY LogMovesForward
PROPERTY SlotsReturned
