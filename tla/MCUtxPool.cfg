SPECIFICATION UtxSpec
CONSTANTS
  Tx = {"x", "z", "n"}
  Address = {"a", "b"}
  Touches <- MCTouches
  Putter = {p, q}
  Remover = {r}
  MaxSize = 1
  MaxPuts = 3
SYMMETRY MCPutters
CHECK_DEADLOCK FALSE
INVARIANTS
  OvershootBounded
  CountedUnlessContended
