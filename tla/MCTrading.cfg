CONSTANTS
  Orders <- MCOrders
  PriceConstant = 2
  FeeAsset = "price"
  Owner <- MCOwner
  InitialBalance <- MCBalance
  MaxActiveOrders = 2
  MaxTime = 1
  MaxEvents = 4
  Leftover = {4}
  Resending = {}
  MaxFaults = 1
SPECIFICATION Spec
INVARIANTS
  BookIsSane
  ReservedIsActive
  ActorsFollowBook
  FilledIsExecuted
  NeverOverspends
  OncePerStart
  CoveredAtRest
  NoPromiseForgotten
  UnansweredIsCanceled
CHECK_DEADLOCK FALSE
