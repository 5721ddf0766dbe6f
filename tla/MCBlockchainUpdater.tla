------------------------ MODULE MCBlockchainUpdater ------------------------
(* BlockchainUpdater over the block tree of MCBlocks.                      *)
EXTENDS BlockchainUpdater, MCBlocks
=============================================================================
