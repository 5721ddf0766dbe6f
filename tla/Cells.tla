------------------------------- MODULE Cells -------------------------------
(***************************************************************************)
(* The values of the state that blocks change and that must survive a      *)
(* rollback: balances, leases, asset balances, data entries, scripts of    *)
(* accounts and of assets, asset infos, order fills.  Each of them is a    *)
(* CELL; what the database does with a cell depends on its kind.  Ledger   *)
(* and StateHistory share this module.                                     *)
(***************************************************************************)
EXTENDS Integers

CONSTANTS
  Cell,         \* the cells
  Address,      \* accounts
  Kind,         \* [Cell -> Kinds]
  Owner,        \* [Cell -> Address], of cells found by the address
  Block,        \* blocks [writes, touched, issued, reset], see BlockAssumption
  MaxRollback,  \* maxRollbackDepth
  Extra         \* how much longer balances are kept: 1000 in LevelDBWriter

\* Found by the changed addresses of a block when it is rolled back ...
ByAddress == {"zbs", "lease", "asset", "data"}

\* ... and by the transaction that wrote them
ByTransaction == {"script", "assetScript", "info", "fill"}

AssetScripts == {c \in Cell : Kind[c] = "assetScript"}

Kinds == ByAddress \cup ByTransaction

\* Kinds that a block adds to; the others it overwrites.
Summed == {"zbs", "lease", "asset", "info", "fill"}

\* Kinds kept for balanceSnapshots
Deep == {"zbs", "lease"}

\* A block in its diff: the cells it adds to or overwrites, the addresses of
\* its transactions, and of the asset scripts those that its IssueTransactions
\* write and those that its SetAssetScriptTransactions write.  Only Zbs are
\* credited to an address, the generator's, that no transaction of the block
\* touches.
ASSUME BlockAssumption ==
  /\ Kind \in [Cell -> Kinds]
  /\ Owner \in [Cell -> Address]
  /\ \A b \in Block :
       /\ DOMAIN b.writes \subseteq Cell
       /\ \A c \in DOMAIN b.writes : b.writes[c] \in Nat
       /\ b.touched \subseteq Address
       /\ b.issued \cup b.reset = DOMAIN b.writes \cap AssetScripts
       /\ \A c \in DOMAIN b.writes :
            Kind[c] \in ByAddress \ {"zbs"} => Owner[c] \in b.touched

ASSUME DepthAssumption ==
  /\ MaxRollback \in Nat \ {0}
  /\ Extra \in Nat

\* The value of a cell after a block, from its value before: no value is 0.
After(c, old, b) ==
  IF c \notin DOMAIN b.writes THEN old
  ELSE IF Kind[c] \in Summed THEN old + b.writes[c] ELSE b.writes[c]

\* The lowest height at which a cell must be readable, given the safe height
LowestOf(c, safe) ==
  LET extra == IF Kind[c] \in Deep THEN Extra ELSE 0
  IN  IF safe > extra THEN safe - extra ELSE 0
=============================================================================
