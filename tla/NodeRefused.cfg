SPECIFICATION Spec
CONSTANTS
    s = s
    t = t
    u = u
    NoMachine = NoMachine
    Machine = {s, t, u}
    FirstServer = s
    Quota <- QuotaU2
    Refusable <- FirstOfU
    Prunable <- FirstOfU
    FillRows = 2
    BatchRows = 2
    MaxRounds = 2
    MaxAttempts = 2
    MaxMoves = 1
    MaxFaults = 1
CHECK_DEADLOCK FALSE
INVARIANTS TypeOK CleanDeliveredRowsAreHeld CursorCoversRows
PROPERTIES OnlyAnswersCount
