SPECIFICATION VotingSpec
CONSTANTS
  Feature = {"known", "unknown"}
  Implemented = {"known"}
  PreActivated <- MCPreActivated
  Period = 2
  Required = 2
  DoubleAfter = 4
  MaxRollback = 3
  AutoShutdown = TRUE
  Empty = Empty
  MaxHeight = 8
INVARIANTS
  NoLostApproval
  UnsupportedIsRefused
PROPERTIES
  NewApprovalsAreElected
  ActivationIsStable
