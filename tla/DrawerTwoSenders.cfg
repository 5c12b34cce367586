SPECIFICATION FairSpec
CONSTANTS
  Sales = {s1}
  Floats = {}
  Expenses = {}
  Slots = {h1, h2}
  None = None
  Attempts = 2
  Refusable = {}
  MaxFaults = 1
  Kinds = {"void", "refund"}
  WebCloses = {}
  WebReverses = TRUE
  Relayed = {s1}
INVARIANTS FiguresAgree StockMovesOnce
PROPERTY DrawerArrives
CHECK_DEADLOCK FALSE
