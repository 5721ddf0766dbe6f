---------------------------- MODULE StateHistory ----------------------------
(***************************************************************************)
(* LevelDBWriter and its Caches: how the values of the cells are stored.   *)
(* For each cell the database holds its HISTORY, the heights at which it   *)
(* changed (the list in the code has the newest first: every new height is *)
(* above those it has), and a value for each of these heights.  A block    *)
(* is appended in one batch, which also deletes what has become too old to *)
(* be rolled back to.  A rollback is one batch for each height, so a node  *)
(* that stops in between starts again at a height on the way.              *)
(*                                                                         *)
(* The script that an IssueTransaction gives to its asset is written like  *)
(* any other, but the rollback of an issue undoes the asset's info only:   *)
(* the script stays, with its history and in the cache.                    *)
(*                                                                         *)
(* Both hold the write lock of BlockchainUpdaterImpl, so a reader sees no  *)
(* intermediate state.  Readers fill the caches.                           *)
(***************************************************************************)
EXTENDS Cells, Sequences, SequencesExt

CONSTANTS
  NotCached,  \* no entry in the cache
  MaxHeight   \* bound of the model on the height

VARIABLES
  blocks,   \* the stored blocks by height
  history,  \* Keys....History of each cell
  value,    \* the stored values of each cell, by height
  safe,     \* Keys.safeRollbackHeight
  cache,    \* the loading caches
  target,   \* the height a rollback under way has still to reach, or -1
  leftover  \* the asset scripts whose issue has been rolled back (a history variable)

stateVars == <<blocks, history, value, safe, cache, target, leftover>>

Height == Len(blocks)

-----------------------------------------------------------------------------
(* Reading.                                                                *)

Newest(changes) == CHOOSE k \in changes : \A j \in changes : j <= k

\* The value stored at the last of some changes; a script that was removed has
\* a change and no value.
LastOf(c, changes) ==
  IF changes = {} \/ Newest(changes) \notin DOMAIN value[c] THEN 0
  ELSE value[c][Newest(changes)]

\* fromHistory takes the head of the list, whatever the height is.
Stored(c) == LastOf(c, history[c])

ValueAt(c, h) == LastOf(c, {k \in history[c] : k <= h})

Read(c) == IF cache[c] = NotCached THEN Stored(c) ELSE cache[c]

-----------------------------------------------------------------------------
(* append.                                                                 *)

Threshold(c, h) == h - MaxRollback - (IF Kind[c] \in Deep THEN Extra ELSE 0)

\* Mutated: nothing at or below the threshold is kept
KeptTooFew(c, h) == {k \in history[c] : k > Threshold(c, h)}

\* updateHistory: the changes above the threshold and the last one before them
Kept(c, h) ==
  LET old == {k \in history[c] : k <= Threshold(c, h)}
  IN  (history[c] \ old) \cup (IF old = {} THEN {} ELSE {Newest(old)})

\* The value that is written: sums are of what the caches return, but an asset
\* info is combined with the stored one.
Written(c, b) ==
  After(c, IF Kind[c] = "info" THEN Stored(c) ELSE Read(c), b)

\* No value is stored for a script that is removed.
IsStored(c, b) == Kind[c] \in {"script", "assetScript"} => b.writes[c] # 0

Write(b) ==
  LET h == Height + 1
      H(c) == (DOMAIN value[c] \ (history[c] \ Kept(c, h)))
                \cup (IF IsStored(c, b) THEN {h} ELSE {})
  IN  /\ history' = [c \in Cell |-> IF c \in DOMAIN b.writes
                                    THEN {h} \cup Kept(c, h) ELSE history[c]]
      /\ value' = [c \in Cell |-> IF c \in DOMAIN b.writes
                     THEN [k \in H(c) |-> IF k = h THEN Written(c, b) ELSE value[c][k]]
                     ELSE value[c]]

\* An asset description is invalidated, everything else is put into the caches.
CacheWritten(b) ==
  cache' = [c \in Cell |-> IF c \notin DOMAIN b.writes THEN cache[c]
                           ELSE IF Kind[c] = "info" THEN NotCached ELSE Written(c, b)]

\* An asset is issued once on a chain, and its script is set when it has been
\* issued with one (hasAssetScript).
ScriptsFit(b) ==
  LET IsIssued(c) == \E h \in 1..Height : c \in blocks[h].issued
  IN  /\ \A c \in b.issued : ~IsIssued(c)
      /\ \A c \in b.reset \ b.issued : IsIssued(c) /\ Read(c) # 0

\* A bound of the model: an issue that was rolled back comes back only above the
\* heights it has left behind.
AboveLeftover(b) ==
  \A c \in leftover \cap DOMAIN b.writes : \A k \in history[c] : k <= Height

AppendBlock(b) ==
  /\ target = -1
  /\ Height < MaxHeight
  /\ ScriptsFit(b)
  /\ AboveLeftover(b)
  /\ blocks' = Append(blocks, b)
  /\ safe' = IF safe < Height + 1 - MaxRollback THEN Height + 1 - MaxRollback ELSE safe
  /\ Write(b)
  /\ CacheWritten(b)
  /\ UNCHANGED <<target, leftover>>

-----------------------------------------------------------------------------
(* rollbackTo.                                                             *)

\* Keys.changedAddresses: the addresses of the transactions and those whose Zbs
\* balance changed
ChangedAddresses(b) ==
  b.touched \cup {Owner[c] : c \in {k \in DOMAIN b.writes : Kind[k] = "zbs"}}

\* The cells that rolling back a block looks at: of the asset scripts only those
\* of its SetAssetScriptTransactions
Undone(b) ==
  {c \in Cell : IF Kind[c] = "assetScript" THEN c \in b.reset
                ELSE IF Kind[c] \in ByTransaction \cup {"data"} THEN c \in DOMAIN b.writes
                ELSE Owner[c] \in ChangedAddresses(b)}

StartRollback(h) ==
  /\ target = -1
  /\ h > safe
  /\ h < Height
  /\ target' = h
  /\ UNCHANGED <<blocks, history, value, safe, cache, leftover>>

\* Mutated: the value stays behind
ValueLeft(c) == value[c]

\* The values of a cell without the one of the last height
ValueUndone(c) == [k \in DOMAIN value[c] \ {Height} |-> value[c][k]]

\* The loop runs from the height down to the target, exclusive.
TargetReached == Height - 1 = target

\* One height of doRollback: the batch and the invalidations after it
RollbackOne ==
  LET undone == Undone(Last(blocks))
  IN  /\ target # -1
      /\ history' = [c \in Cell |-> IF c \in undone
                       THEN history[c] \ {Height} ELSE history[c]]
      /\ value' = [c \in Cell |-> IF c \in undone THEN ValueUndone(c) ELSE value[c]]
      /\ cache' = [c \in Cell |-> IF c \in undone THEN NotCached ELSE cache[c]]
      /\ blocks' = Front(blocks)
      /\ leftover' = leftover \cup (Last(blocks).issued \ undone)
      /\ target' = IF TargetReached THEN -1 ELSE target
      /\ UNCHANGED safe

-----------------------------------------------------------------------------
(* Readers, eviction and restart.                                          *)

Load(c) ==
  /\ target = -1
  /\ cache[c] = NotCached
  /\ cache' = [cache EXCEPT ![c] = Stored(c)]
  /\ UNCHANGED <<blocks, history, value, safe, target, leftover>>

Evict(c) ==
  /\ cache[c] # NotCached
  /\ cache' = [cache EXCEPT ![c] = NotCached]
  /\ UNCHANGED <<blocks, history, value, safe, target, leftover>>

\* The node may stop at any time, also between two batches of a rollback.
RestartNode ==
  /\ cache' = [c \in Cell |-> NotCached]
  /\ target' = -1
  /\ UNCHANGED <<blocks, history, value, safe, leftover>>

StateInit ==
  /\ blocks = <<>>
  /\ history = [c \in Cell |-> {}]
  /\ value = [c \in Cell |-> [h \in {} |-> 0]]
  /\ safe = 0
  /\ cache = [c \in Cell |-> NotCached]
  /\ target = -1
  /\ leftover = {}

StateNext ==
  \/ \E b \in Block : AppendBlock(b)
  \/ \E h \in 1..MaxHeight : StartRollback(h)
  \/ RollbackOne
  \/ \E c \in Cell : Load(c) \/ Evict(c)
  \/ RestartNode

StateSpec == StateInit /\ [][StateNext]_stateVars

-----------------------------------------------------------------------------
(* Properties.                                                             *)

\* The database and the caches together keep the promise of Ledger: every cell
\* has its value at the height of the chain, read through the cache, and at
\* every height that can be returned to, whatever was expired, rolled back,
\* cached, evicted or interrupted by a restart.  Nothing is promised for the
\* script of an asset whose issue has been rolled back; a SetAssetScript that
\* is rolled back is undone like everything else.
L == INSTANCE Ledger WITH
       height <- Height,
       past <- [c \in Cell \ leftover |-> [h \in LowestOf(c, safe)..Height |->
                  IF h = Height THEN Read(c) ELSE ValueAt(c, h)]]

ImplementsLedger == L!LedgerSpec

\* No block that was rolled back leaves a value or a change behind: what is
\* stored for a cell was written by the block that the chain has at that height.
\* The script that an issue gives to its asset is the one thing that stays.
NoValueLeftBehind ==
  \A c \in Cell \ leftover : \A h \in DOMAIN value[c] \cup history[c] :
    h \in DOMAIN blocks /\ c \in DOMAIN blocks[h].writes
=============================================================================
