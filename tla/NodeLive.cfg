SPECIFICATION FairSpec
CONSTANTS
    s = s
    t = t
    u = u
    NoMachine = NoMachine
    Machine = {s, t, u}
    FirstServer = s
    Quota <- QuotaU1
    Refusable <- NoRows
    Prunable <- NoRows
    FillRows = 1
    BatchRows = 1
    MaxRounds = 1
    MaxAttempts = 1
    MaxMoves = 2
    MaxFaults = 1
CHECK_DEADLOCK FALSE
PROPERTIES ReachesItsServer ReachesEveryTill
