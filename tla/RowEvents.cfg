SPECIFICATION Spec
CONSTANTS
    MaxDays = 2
    MaxReopens = 1
    BatchRows = 3
    PullRows = 3
    MaxAttempts = 5
    MaxFaults = 1
INVARIANTS CopiesAgree NothingLeftOut
CHECK_DEADLOCK FALSE
