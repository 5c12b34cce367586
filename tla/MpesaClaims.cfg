SPECIFICATION Spec
CONSTANTS
  a = a
  b = b
  l1 = l1
  l2 = l2
  l3 = l3
  None = None
  Payments = {p1}
  Legs = {l1, l2, l3}
  Tills = {a, b}
  TillOf <- LegsOf
  Split = FALSE
  Typed = {l3}
  Faulty = {"ask", "claim", "release", "restart", "mark", "owner"}
  MaxFaults = 1
INVARIANTS TypeOK SoldStaysHeld OneTillPerPayment HeldForALeg
PROPERTY KeepsLedger
CHECK_DEADLOCK FALSE
