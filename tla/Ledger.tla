------------------------------- MODULE Ledger -------------------------------
(***************************************************************************)
(* What the storage promises, with no database and no cache: the value of  *)
(* every cell at every height down to a depth, a new height for each block *)
(* and a return to any height above the safe one.  The one exception are   *)
(* the scripts of assets: a return may lose some of them for good.         *)
(***************************************************************************)
EXTENDS Cells

VARIABLES
  height,  \* of the last block
  safe,    \* heights up to this one cannot be returned to
  past     \* the value at each height that must be readable, of each cell not lost

ledgerVars == <<height, safe, past>>

LedgerInit ==
  /\ height = 0
  /\ safe = 0
  /\ past = [c \in Cell |-> [h \in {0} |-> 0]]

Extend(b) ==
  /\ height' = height + 1
  /\ safe' = IF safe < height + 1 - MaxRollback THEN height + 1 - MaxRollback ELSE safe
  /\ past' = [c \in DOMAIN past |-> [h \in LowestOf(c, safe')..height' |->
                IF h = height' THEN After(c, past[c][height], b) ELSE past[c][h]]]

Return(h, lost) ==
  /\ safe < h
  /\ h < height
  /\ height' = h
  /\ safe' = safe
  /\ past' = [c \in DOMAIN past \ lost |-> [k \in LowestOf(c, safe)..h |-> past[c][k]]]

LedgerNext ==
  \/ \E b \in Block : Extend(b)
  \/ \E h \in (safe + 1)..height, lost \in SUBSET AssetScripts : Return(h, lost)

LedgerSpec == LedgerInit /\ [][LedgerNext]_ledgerVars
=============================================================================
