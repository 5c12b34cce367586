SPECIFICATION Spec
CONSTANTS
    r1 = r1
    r2 = r2
    NoRequest = NoRequest
    Request = {r1, r2}
    MaxTokens = 4
    MaxFaults = 2
SYMMETRY Alike
CHECK_DEADLOCK FALSE
INVARIANTS OneSecretIsHandedOut
