SPECIFICATION FairSpec
CONSTANTS
    s = s
    t = t
    u = u
    NoMachine = NoMachine
    Machine = {s, t, u}
    FirstServer = s
    Quota <- QuotaU2
    Refusable <- BothOfU
    Prunable <- FirstOfU
    FillRows = 1
    BatchRows = 2
    MaxRounds = 2
    MaxAttempts = 2
    MaxMoves = 0
    MaxFaults = 1
CHECK_DEADLOCK FALSE
INVARIANTS TypeOK OutboxComplete
PROPERTIES OnlyAnswersCount HeldOrFailed
