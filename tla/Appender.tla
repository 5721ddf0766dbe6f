------------------------------ MODULE Appender ------------------------------
(***************************************************************************)
(* The appenders: how blocks, microblocks and extensions (the rest of a    *)
(* peer's chain) reach BlockchainUpdater, and what they do to the pool of  *)
(* unconfirmed transactions.                                               *)
(*                                                                         *)
(* Appenders and debug rollbacks run on one thread, appenderScheduler.  A  *)
(* block or a microblock is one step of it.  An extension is many: between *)
(* them readers and the pool see the chain as it is, and the node may stop.*)
(* The pool is used by other threads: a transaction is checked against the *)
(* chain in one step and put into the pool, or removed from it, in a later *)
(* one.  Its size limit is not reached here, and transactions do not       *)
(* expire.                                                                 *)
(***************************************************************************)
EXTENDS BlockchainUpdater, FiniteSets

CONSTANTS
  ConsensusValid(_, _),  \* whether a block passes hasScript and
                         \* blockConsensusValidation on a view of the chain
  Early,           \* blocks that may be received before their time has come
  Extensions       \* what the extension loader may hand over: sequences of Id

ASSUME AppenderAssumption ==
  /\ Early \subseteq Id
  /\ Extensions \subseteq Seq(Id)
  \* an extension is a piece of the chain of a peer (HistoryReplier)
  /\ \A e \in Extensions : \A i \in 2..Len(e) : Ref(e[i]) = e[i - 1]
  \* synchronization.max-rollback is far below max-rollback-depth
  /\ \A e \in Extensions : Len(e) <= MaxRollback

VARIABLES
  utx,      \* UtxPoolImpl.transactions
  checked,  \* transactions inside putIfNew, validated and not yet put
  stale,    \* transactions that a clean-up found invalid and has not yet removed
  invalid,  \* InvalidBlockStorage
  task      \* the ExtensionAppender task, if one is running: the blocks todo,
            \* their last common block, the blocks dropped to make room, by value,
            \* and start, a history variable (see Snapshot)

judged == <<checked, stale>>
appenderVars == <<vars, utx, judged, invalid, task>>

-----------------------------------------------------------------------------
(* What the tasks read.                                                    *)

\* TransactionDiffer on the current chain, as in putIfNew and in the cleanup
TxValid(t) == t \notin ViewTxs /\ Needs[t] \subseteq ViewTxs

\* What the composite of the database and the best version shows
BestView == IF liquid = <<>> THEN chain ELSE Append(chain, Best)

\* appendBlock: consensus validation needs the parent, but reads the script and
\* the generating balance of the sender from the best view, which may be of
\* later versions than the parent; then processBlock.
CanAppend(id) ==
  ContainsBlock(Ref(id)) /\ ConsensusValid(id, BestView) /\ Accepts(id)

\* The chain as the caller of lastBlock and blockAt sees it
ViewHeaders ==
  [h \in 1..Height |-> HeaderOf[IF h <= Len(chain) THEN chain[h].id ELSE Best.id]]

\* A transaction that needs no other is valid until it is on the chain.
Independent(txs) == {t \in txs : Needs[t] = {}}

Snapshot == [headers |-> ViewHeaders, score |-> ViewScore,
             txs |-> Independent(ViewTxs \cup utx)]

Idle == [pc |-> "idle", todo |-> <<>>, common |-> NoId, dropped |-> <<>>,
         start |-> [headers |-> <<>>, score |-> 0, txs |-> {}]]

\* Mutated: the liquid block is put before the removed blocks
RemovedLiquidFirst(id) ==
  LET block(v) == [id |-> v.id, txs |-> v.txs]
      above == [i \in 1..(Len(chain) - HeightOf(id)) |-> block(chain[HeightOf(id) + i])]
  IN  IF liquid = <<>> THEN above ELSE <<block(Best)>> \o above

\* Mutated: the liquid block is not among the removed blocks
RemovedPersisted(id) ==
  [i \in 1..(Len(chain) - HeightOf(id)) |->
     [id |-> chain[HeightOf(id) + i].id, txs |-> chain[HeightOf(id) + i].txs]]

\* What removeAfter(id) returns: the removed blocks from the database, oldest
\* first, and the best version of the liquid block
Removed(id) ==
  LET block(v) == [id |-> v.id, txs |-> v.txs]
      above == [i \in 1..(Len(chain) - HeightOf(id)) |-> block(chain[HeightOf(id) + i])]
  IN  IF liquid = <<>> THEN above ELSE Append(above, block(Best))

\* Mutated: only the last of the removed blocks gives its transactions back
TxsOfLast(blocks) == IF blocks = <<>> THEN {} ELSE ToSet(Last(blocks).txs)

TxsOf(blocks) == UNION {ToSet(blocks[i].txs) : i \in DOMAIN blocks}

-----------------------------------------------------------------------------
(* BlockAppender and MicroblockAppender.                                   *)

\* appendBlock: processBlock, then removeAll of the transactions of the block,
\* then putIfNew of the discarded ones.
AppendBlock(id) ==
  /\ CanAppend(id)
  /\ ProcessBlock(id)
  /\ utx' = (utx \ ToSet(Content[id])) \cup {t \in Discarded(id) : TxValid(t)'}

\* A block from the network or from the miner.  It is received twice, because
\* the stream of new blocks has two subscribers.
BlockAppender(id) ==
  /\ task.pc = "idle"
  /\ IsLastBlockId(Ref(id))
  /\ AppendBlock(id)
  /\ UNCHANGED <<judged, invalid, task>>

MicroblockAppender(m) ==
  /\ task.pc = "idle"
  /\ ProcessMicroBlock(m)
  /\ utx' = utx \ ToSet(m.txs)
  /\ UNCHANGED <<judged, invalid, task>>

-----------------------------------------------------------------------------
(* ExtensionAppender.                                                      *)

\* Mutated: the blocks that are known are not dropped from the extension
AllBlocks(e) == e

\* extension = newBlocks.dropWhile(blockchainUpdater.contains).  (Only the loader
\* looks at the invalid blocks, when it gets the signatures.)
NewBlocks(e) ==
  LET k == SelectInSeq(e, LAMBDA id : ~ContainsBlock(id))
  IN  IF k = 0 THEN <<>> ELSE SubSeq(e, k, Len(e))

\* The extension is on the chain from a block of it: what is above that block
\* is removed, unless the block is at the height of the chain.  A rollback that
\* is refused ends the task, with the liquid block dropped.
ExtensionStart(e) ==
  LET new == NewBlocks(e)
      common == Ref(Head(new))
      below == HeightOf(common) < Height
  IN  /\ task.pc = "idle"
      /\ new # <<>>
      /\ ContainsBlock(common)
      /\ IF below THEN RemoveAfter(common) ELSE UNCHANGED vars
      /\ task' = IF below /\ ~CanRollBackTo(common) THEN Idle
                 ELSE [pc |-> "apply", todo |-> new, common |-> common,
                       dropped |-> IF below THEN Removed(common) ELSE <<>>,
                       start |-> Snapshot]
      /\ UNCHANGED <<utx, judged, invalid>>

ExtensionApply ==
  /\ task.pc = "apply"
  /\ task.todo # <<>>
  /\ AppendBlock(Head(task.todo))
  /\ task' = [task EXCEPT !.todo = Tail(task.todo)]
  /\ UNCHANGED <<judged, invalid>>

\* The first block that is declined is remembered as invalid, unless it is only
\* a BlockFromFuture.
ExtensionDecline ==
  /\ task.pc = "apply"
  /\ task.todo # <<>>
  /\ \/ /\ ~CanAppend(Head(task.todo))
        /\ invalid' = invalid \cup {Head(task.todo)}
     \/ /\ Head(task.todo) \in Early
        /\ UNCHANGED invalid
  /\ task' = [task EXCEPT !.pc = "restore"]
  /\ UNCHANGED <<vars, utx, judged>>

\* Everything is applied: the removed transactions go back to the pool.
ExtensionDone ==
  /\ task.pc = "apply"
  /\ task.todo = <<>>
  /\ utx' = utx \cup {t \in TxsOf(task.dropped) : TxValid(t)}
  /\ task' = Idle
  /\ UNCHANGED <<vars, judged, invalid>>

\* removeAfter(lastCommonBlockId).explicitGet() throws if the rollback is refused.
ExtensionRestore ==
  /\ task.pc = "restore"
  /\ IF task.common \in LiquidIds THEN UNCHANGED vars ELSE RemoveAfter(task.common)
  /\ task' = [task EXCEPT !.pc =
               IF task.common \in LiquidIds \/ CanRollBackTo(task.common)
               THEN "reapply" ELSE "thrown"]
  /\ UNCHANGED <<utx, judged, invalid>>

\* droppedBlocks.foreach(processBlock(_).explicitGet())
ExtensionReapply ==
  /\ task.pc = "reapply"
  /\ task.dropped # <<>>
  /\ LET b == Head(task.dropped)
     IN  IF Content[b.id] = b.txs /\ Accepts(b.id)
         THEN /\ ProcessBlock(b.id)
              /\ task' = [task EXCEPT !.dropped = Tail(task.dropped)]
         ELSE /\ UNCHANGED vars
              /\ task' = [task EXCEPT !.pc = "thrown"]
  /\ UNCHANGED <<utx, judged, invalid>>

\* The task ends with Left, or with an exception that the loader turns into Left.
ExtensionFailed ==
  /\ \/ task.pc = "reapply" /\ task.dropped = <<>>
     \/ task.pc = "thrown"
  /\ task' = Idle
  /\ UNCHANGED <<vars, utx, judged, invalid>>

ExtensionStep ==
  \/ ExtensionApply \/ ExtensionDecline \/ ExtensionDone
  \/ ExtensionRestore \/ ExtensionReapply \/ ExtensionFailed

-----------------------------------------------------------------------------
(* DebugApiRoute, the pool's other threads, and the restart of the node.   *)

\* rollbackToBlock runs removeAfter on appenderScheduler and reports the block.
\* (With returnTransactionsToUTX another thread offers the removed transactions
\* to the pool, as CheckTx does at any time.)
DebugRollback(id) ==
  /\ task.pc = "idle"
  /\ IF id \in LiquidIds THEN UNCHANGED vars ELSE RemoveAfter(id)
  /\ UNCHANGED <<utx, judged, invalid, task>>

\* putIfNew: the checks, and the insertion some time later
CheckTx(t) ==
  /\ t \notin checked
  /\ TxValid(t)
  /\ checked' = checked \cup {t}
  /\ UNCHANGED <<vars, utx, stale, invalid, task>>

PutTx(t) ==
  /\ t \in checked
  /\ checked' = checked \ {t}
  /\ utx' = utx \cup {t}
  /\ UNCHANGED <<vars, stale, invalid, task>>

\* doCleanup or packUnconfirmed finds a transaction of the pool invalid ...
JudgeTx(t) ==
  /\ t \in utx \ stale
  /\ ~TxValid(t)
  /\ stale' = stale \cup {t}
  /\ UNCHANGED <<vars, utx, checked, invalid, task>>

\* ... and removes it some time later, whatever the chain is by then.  The task
\* is then not held to keep it.
RemoveStale(t) ==
  /\ t \in stale
  /\ stale' = stale \ {t}
  /\ utx' = utx \ {t}
  /\ task' = [task EXCEPT !.start.txs = @ \ {t}]
  /\ UNCHANGED <<vars, checked, invalid>>

\* InvalidBlockStorageImpl forgets a block after a timeout.
Forget(id) ==
  /\ id \in invalid
  /\ invalid' = invalid \ {id}
  /\ UNCHANGED <<vars, utx, judged, task>>

\* The pool, the invalid blocks and the task are in memory only.
NodeRestart ==
  /\ Restart
  /\ utx' = {}
  /\ checked' = {} /\ stale' = {}
  /\ invalid' = {}
  /\ task' = Idle

AppenderInit ==
  /\ Init
  /\ utx = {}
  /\ checked = {} /\ stale = {}
  /\ invalid = {}
  /\ task = Idle

AppenderNext ==
  \/ \E id \in Id : BlockAppender(id) \/ DebugRollback(id) \/ Forget(id)
  \/ \E m \in MicroBlock : MicroblockAppender(m)
  \/ \E e \in Extensions : ExtensionStart(e)
  \/ ExtensionStep
  \/ \E t \in Tx : CheckTx(t) \/ PutTx(t) \/ JudgeTx(t) \/ RemoveStale(t)
  \/ NodeRestart

AppenderSpec == AppenderInit /\ [][AppenderNext]_appenderVars

-----------------------------------------------------------------------------
(* Properties.                                                             *)

\* The microblocks that the generator of a block signs, if it runs this program:
\* the total signature of each covers the block with it.  (Nobody checks it on
\* arrival.)
HonestMicroBlocks ==
  \A m \in MicroBlock : m.sender = Generator[HeaderOf[m.prev]] =>
    HeaderOf[m.sig] = HeaderOf[m.prev] /\ Content[m.sig] = Content[m.prev] \o m.txs

\* No feature that the node does not implement is active where blocks are checked.
Supported == Len(chain) < UnsupportedFrom

\* Both explicitGet of ExtensionAppender get: the rollback to the last common
\* block is still allowed after the part of the extension that was applied, and
\* the removed blocks apply again on top of it.  They need not without
\* HonestMicroBlocks or Supported.
RestoreNeverThrows == task.pc # "thrown"

\* A failed extension leaves the node on the chain it had: the same blocks (the
\* last one perhaps in an earlier version) and the same score.
FailedExtensionRestores ==
  task.pc = "reapply" /\ task.dropped = <<>> =>
    ViewHeaders = task.start.headers /\ ViewScore = task.start.score

\* A node that has moved to a fork or hardened an earlier version has lost no
\* transaction: those it had on the chain or in the pool are still on the one
\* or in the other, unless they rely on one that may be gone, or a clean-up has
\* removed them meanwhile.  A clean-up does remove a transaction that the node
\* has put back a moment ago, but only one that it had judged when it was on
\* the chain.
SwitchKeepsTxs ==
  [][/\ ExtensionDone => task.start.txs \subseteq ViewTxs' \cup utx'
     /\ \A id \in Id : BlockAppender(id) =>
          Independent(ViewTxs \cup utx) \subseteq ViewTxs' \cup utx'
     /\ \A t \in Independent(utx) :
          t \notin ViewTxs' \cup utx' => t \in stale \/ NodeRestart]_appenderVars

\* The block for which an extension has failed, and which may be remembered as
\* invalid, is not on the chain that the node goes back to: it does not come to
\* refuse the peers that agree with it.  (Later it may get that block: whether a
\* block is valid depends on what else the node has when it comes.)
DeclinedIsNotRestored ==
  task.pc = "reapply" /\ task.dropped = <<>> =>
    Head(task.todo) \notin LiquidIds \cup PersistedIds

=============================================================================
