SPECIFICATION AppenderSpec
CONSTANTS
  Id <- MCId
  NoId = "none"
  Genesis = "g"
  Header <- MCHeader
  Tx <- MCTx
  Account = {"gen", "alice", "bob"}
  HeaderOf <- MCHeaderOf
  Content <- MCContent
  Reference <- MCReference
  Generator <- MCGenerator
  Score <- MCScore
  MicroBlock <- MCHonest
  Age <- MCAge
  Needs <- MCNeeds
  Fee = 7
  MaxTxs = 2
  MaxRollback = 2
  UnsupportedFrom = 10
  ConsensusValid <- MCConsensusValid
  Early = {"f0"}
  Extensions <- MCExtensions
CONSTRAINT MCBounds
INVARIANTS
  RestoreNeverThrows
  FailedExtensionRestores
  DeclinedIsNotRestored
PROPERTIES
  SwitchKeepsTxs
