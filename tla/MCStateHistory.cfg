SPECIFICATION StateSpec
CONSTANTS
  Cell <- MCCell
  Address = {"alice"}
  Kind <- MCKind
  Owner <- MCOwner
  Block <- MCBlock
  MaxRollback = 2
  Extra = 1
  NotCached = NotCached
  MaxHeight = 5
INVARIANTS
  NoValueLeftBehind
PROPERTIES
  ImplementsLedger
