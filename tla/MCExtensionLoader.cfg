SPECIFICATION SyncSpec
CONSTANTS
  Channel = {"p", "q"}
  None = "none"
  Block <- MCShort
  Genesis = "g"
  Parent <- MCShortParent
  Score <- MCShortScore
  Declined = {"b1"}
  StartTip <- MCShortTip
  MaxKnown = 2
  MaxIds = 2
  MaxDisturbances = 1
CHECK_DEADLOCK FALSE
INVARIANTS
  NoExtensionLost
PROPERTIES
  TimeoutOnlyIfOwed
  EveryWaitEnds
