SPECIFICATION MatcherSpec
CONSTANTS
  Pair = {0, 1}
  Interval = 2
  Shift <- MCShift
  MaxPoll = 1
  CleanBeforeConsume = TRUE
  MaxEvents = 3
  MaxFaults = 1
CHECK_DEADLOCK FALSE
INVARIANTS
  BookIsItsLog
  NoBookForgotten
  DropsOnlyCovered
PROPERTIES
  EveryEventApplied
