SPECIFICATION Spec
CONSTANTS
  MaxPrompts = 2
  MaxFaults = 2
  None = None
INVARIANTS TypeOK PaidMeansPaid PaidIsRecorded
PROPERTY PaidStaysPaid
CHECK_DEADLOCK FALSE
