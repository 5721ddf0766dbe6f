SPECIFICATION Spec
CONSTANTS
  Id <- MCId
  NoId = "none"
  Genesis = "g"
  Header <- MCHeader
  Tx <- MCTx
  Account = {"gen", "alice", "bob"}
  HeaderOf <- MCHeaderOf
  Content <- MCContent
  Reference <- MCReference
  Generator <- MCGenerator
  Score <- MCScore
  MicroBlock <- MCMicroBlock
  Age <- MCAge
  Needs <- MCNeeds
  Fee = 7
  MaxTxs = 2
  MaxRollback = 2
  UnsupportedFrom = 3
INVARIANTS
  Linked
  SignedAsPersisted
  EveryTxApplies
  FeesConserved
  RestMatchesLiquid
  TipAboveSafe
PROPERTIES
  ScoreNeverDrops
  NothingAppliedTwice
  DroppedAreReturned
