SPECIFICATION Spec
CONSTANTS
    s = s
    t = t
    u = u
    NoMachine = NoMachine
    Machine = {s, t, u}
    FirstServer = s
    Quota <- QuotaU2
    Refusable <- NoRows
    Prunable <- FirstOfU
    FillRows = 1
    BatchRows = 1
    MaxRounds = 2
    MaxAttempts = 1
    MaxMoves = 2
    MaxFaults = 1
CHECK_DEADLOCK FALSE
INVARIANTS OutboxComplete CleanDeliveredRowsAreHeld CursorCoversRows NothingOwedIsForgotten
