SPECIFICATION Spec
CONSTANTS
  Sales = {s1}
  Floats = {}
  Expenses = {}
  Slots = {h1, h2}
  None = None
  Attempts = 2
  Refusable = {}
  MaxFaults = 2
  Kinds = {"void", "refund"}
  WebCloses = {}
  WebReverses = TRUE
  Relayed = {s1}
INVARIANT StockMovesOnce
CHECK_DEADLOCK FALSE
