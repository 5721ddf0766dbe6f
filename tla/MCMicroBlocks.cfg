SPECIFICATION MicroSpec
CONSTANTS
  Channel = {c1, c2}
  Block = {"k"}
  Micro = {"m", "n", "p"}
  Parent <- MCParent
  First = "k"
  None = "none"
  Attempts = 2
  MaxDisturbances = 1
SYMMETRY MCChannels
CHECK_DEADLOCK FALSE
INVARIANTS
  ForwardedOnce
  NoAnswerWasted
  NextIsAsked
