CONSTANTS
  Orders <- MCOrders
  PriceConstant = 2
  FeeAsset = "price"
  Owner <- MCOwner
  InitialBalance <- MCBalance
  MaxActiveOrders = 2
  MaxTime = 1
  MaxEvents = 4
  Leftover = {4}
  Resending = {"t"}
  MaxFaults = 1
SPECIFICATION Spec
INVARIANT
  PlacedOnce
CHECK_DEADLOCK FALSE
