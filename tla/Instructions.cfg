SPECIFICATION FairSpec
CONSTANTS
  MaxIns = 2
  MaxShifts = 2
  MaxDate = 2
  Ticks = {1}
  Faulty = {"poll", "ack", "restart", "quiet"}
  MaxFaults = 1
INVARIANTS ToldTruly RecordedOnce NeverALaterDay
PROPERTY Answered
CHECK_DEADLOCK FALSE
