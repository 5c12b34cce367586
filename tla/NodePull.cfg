SPECIFICATION Spec
CONSTANTS
    s = s
    t = t
    u = u
    NoMachine = NoMachine
    Machine = {s, t, u}
    FirstServer = s
    Quota <- QuotaU2
    Refusable <- FirstOfU
    Prunable <- NoRows
    FillRows = 2
    BatchRows = 2
    MaxRounds = 2
    MaxAttempts = 2
    MaxMoves = 0
    MaxFaults = 0
CHECK_DEADLOCK FALSE
INVARIANT PulledRowsAreHeld
