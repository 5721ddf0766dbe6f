SPECIFICATION MCOrdersSpec
CONSTANTS
  Pair = {0, 1, 2}
  Interval = 1
  Shift <- MCShiftOfThree
  MaxPoll = 1
  CleanBeforeConsume = TRUE
  MaxEvents = 4
  MaxFaults = 2
CHECK_DEADLOCK FALSE
INVARIANTS
  AppliedOnce
