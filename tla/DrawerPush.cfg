SPECIFICATION Spec
CONSTANTS
  Sales = {s1}
  Floats = {f1}
  Expenses = {e1}
  Slots = {h1, h2}
  None = None
  Attempts = 2
  Refusable = {s1}
  MaxFaults = 1
  Kinds = {"refund"}
  WebCloses = {"close"}
  WebReverses = FALSE
  Relayed = {}
SYMMETRY Symmetric
INVARIANTS SyncedIsHeld FiguresAgree TillCountKept
PROPERTY CloseWaits
CHECK_DEADLOCK FALSE
