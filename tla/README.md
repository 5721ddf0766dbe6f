# Verification of the Zbs node

TLA+ models of the core of the Zbs node (`src/main/scala/com/zbsnetwork`), the
TLC configurations that check them on small instances, and theorems about them
that TLAPS proves for every instance.  Paths below are relative to
`src/main/scala/com/zbsnetwork` unless they start with `src/` or another
top-level directory.

## The system

A Zbs node keeps a blockchain of the NG kind: a generator forges a *key block*
and then, until somebody else forges the next one, adds *microblocks* to it.  The
node persists everything below the current key block, keeps the current one in
memory because the next key block may refer to any of its versions, and follows
the peer whose chain has the greatest score.  Transactions wait in a pool until a
block contains them.  An optional part, the matcher (DEX), keeps order books.

```
 peers --> handshake --> MessageObserver --+-- scores ------> score observer
                                           +-- signatures --> extension loader <-- best channel, closed
                                           +-- blocks ------> extension loader
                                           +-- microblocks -> microblock synchronizer
                                           +-- transactions -> pool synchronizer

 extension loader --- single blocks --> BlockAppender ------+
                  --- extensions -----> ExtensionAppender --+
 microblock synchronizer -------------> MicroblockAppender -+--> BlockchainUpdater --> LevelDBWriter
 miner -------------------------------> BlockAppender ------+        |  lastBlockInfo
 REST: debug rollback --------------------------------------+        +--> peers' scores, miner, loader
                                   discarded transactions --> pool of unconfirmed transactions
```

Everything that changes the chain runs on one thread, `appenderScheduler`, and
inside it holds the write lock of `BlockchainUpdaterImpl`.  Everything else runs
beside it on threads of its own: the pool, the loader, the score observer, the
synchronizers, the miner's timers, the REST API and the matcher's actors.

### Components

| component | state it keeps | operations | called by / calls |
|---|---|---|---|
| **Blockchain updater** `state/BlockchainUpdaterImpl.scala`, `state/NgState.scala`, `state/diffs/BlockDiffer.scala` | the liquid block with its versions, diffs and carried fees; the remaining total constraint; last block information | `processBlock`, `processMicroBlock`, `removeAfter`, readers through the overlay | appenders, miner, API / LevelDBWriter |
| **Appenders** `state/appender/*` | none but the running task and the invalid block storage | `BlockAppender`, `MicroblockAppender`, `ExtensionAppender`, debug rollback | loader, synchronizer, miner / updater, pool |
| **Persistent state** `database/LevelDBWriter.scala`, `database/Caches.scala` | histories and values in LevelDB; loading caches; height, score, last block, safe rollback height, approved features | `append`, `rollbackTo`, readers | updater |
| **Feature voting** `features/*`, `settings/BlockchainSettings.scala` | votes in blocks, approved and activated features | votes of a window, approval, activation, shutdown on unsupported features | updater, LevelDBWriter, every rule that depends on a feature |
| **Pool** `utx/UtxPoolImpl.scala` | transactions, pessimistic portfolios of each | `putIfNew`, `removeAll`, cleanup, packing | synchronizer, API, appenders / updater as a reader |
| **Extension loader, score observer** `network/RxExtensionLoader.scala`, `network/RxScoreObserver.scala` | loader state (idle, expecting signatures, expecting blocks), applier state with a buffer, timers; scores of the channels, best channel | reactions to scores, closed channels, signatures, blocks, applied extensions, timeouts | network / ExtensionAppender |
| **Microblock synchronizer, pool synchronizer, history replier** `network/*Synchronizer.scala`, `network/HistoryReplier.scala` | expiring caches of inventories, owners, awaited and received microblocks | requests with two attempts, answers | network / MicroblockAppender, pool |
| **Miner** `mining/Miner.scala` | scheduled attempts, microblock sequence | forge a block, forge microblocks | timers, appenders / BlockAppender, updater |
| **Connections, peer database** `network/*` | connected peers, black list, suspensions, candidates | handshake, duplicate detection, blacklist, expiry | netty |
| **Proof of stake** `consensus/*` | none | delays, base target, generating balance | appenders, miner |
| **Diffs and validation** `state/diffs/*` | none | one pure function for each transaction type | updater, pool |
| **Matcher: order books** `matcher/model/*` | bids and asks by price | add, cancel, match | OrderBookActor |
| **Matcher: queue and books** `matcher/queue/*`, `matcher/market/*` | stored events, a tail in memory, offsets; snapshots; the creation of books in a journal | store, poll, forward, save, replay | a timer, Akka persistence / order books |
| **Matcher: addresses** `matcher/AddressActor.scala`, `matcher/OrderDB.scala` | active orders, reserved amounts, promises to clients, timers; final statuses on disk | place, cancel, expire, react to events and to balances | REST, books, pool / queue |
| **Wallet, REST API, formats, settings, RIDE, generators** | | | see *What is not modelled* |

### What makes each component correct, and what makes it hard

* **Updater.**  Which of the versions of the liquid block is kept is decided by
  the *next* block.  Block, diff, carried fee, constraint and discarded
  transactions must all belong to that version, through replacement by a better
  competitor, swaps for a longer version, hardening and rollbacks in any order.
  The score must never drop but by a rollback; a rollback to the last persisted
  block must always be possible; what is persisted must be signed as a whole.
* **Appenders.**  A switch to a fork is a rollback and several appends with
  other threads in between.  If one block is declined the earlier chain has to
  come back by the very function that may decline it; if all are accepted no
  transaction may get lost on the way.
* **Persistent state.**  Each value is stored only at the heights where it
  changed and deleted when it cannot be needed again; rollbacks find what to undo
  by indexes of each block; caches live through both; the node may stop between
  two batches of a rollback.
* **Feature voting.**  Votes are counted for windows of heights that can be
  rolled back and refilled; counted twice, for the liquid block and on
  persistence; windows double at a height.  All nodes must agree on activation.
* **Pool.**  Checked against a chain that moves between check and insertion; the
  limit is looked at long before the insertion; per-address sets are read,
  changed and written back by several threads, so that spendings may be counted
  too often or not at all.
* **Loader, observer, synchronizers.**  Timers race answers; state read when a
  request is made is used when the answer comes; events of several threads arrive
  in any order; caches expire under a request; something must always go on.
* **Matcher: queue and books.**  Events are delivered twice and, after a crash,
  replayed from the oldest snapshot; each book must apply each later event exactly
  once, and the clean-up must not delete what a book still needs.
* **Matcher: addresses.**  What an actor has reserved must be what its orders in
  the book require, although it learns of each trade later, amounts are rounded
  at every partial execution, balances fall behind its back, and after a restart
  it starts empty while the book replays.
* **Miner, connections.**  Timers that are cancelled by what they compete with;
  entries that expire.  Not modelled, see below.

The full list with lines and the properties that cover each hazard is in
`PROJECT.json` under `hazards`.


## The modules

| module | models | builds on |
|---|---|---|
| `BlockchainUpdater` | `BlockchainUpdaterImpl`, `NgState`, the fees of `BlockDiffer` | |
| `Appender` | `BlockAppender`, `MicroblockAppender`, `ExtensionAppender`, debug rollback, what the pool does meanwhile | EXTENDS `BlockchainUpdater` |
| `Cells`, `Ledger` | what a block writes; the abstract ledger: every value at every height | |
| `StateHistory` | `LevelDBWriter` and `Caches`: histories, expiry, rollback, caches | EXTENDS `Cells`, refines `Ledger` |
| `FeatureVoting` | votes, windows, approval and activation in `NgState`, `LevelDBWriter`, `FeatureProvider` | |
| `ExtensionLoader` | `RxScoreObserver`, `RxExtensionLoader`, the answers of `HistoryReplier`, the appenders as one step | |
| `UtxPool` | `UtxPoolImpl`: `putIfNew`, `removeAll`, packing and cleanup, map access by map access | |
| `MicroBlocks` | `MicroBlockSynchronizer`, `MicroblockAppender` as one step | |
| `OrderBook` | the arithmetic of limit orders (`MatcherModel.scala`) and `OrderBook.add`, `cancel` | |
| `Trading` | `AddressActor`, `OrderDB`, one order book, exchange transactions and balances, restarts | EXTENDS `OrderBook` |
| `MatcherQueue` | `LocalMatcherQueue`, `MatcherActor`, `OrderBookActor`, snapshots and journal, crashes | |
| `BlockchainUpdaterProofs`, `StateHistoryProofs`, `FeatureVotingProofs`, `ExtensionLoaderProofs`, `UtxPoolProofs`, `MicroBlocksProofs`, `TradingProofs`, `MatcherQueueProofs` | theorems about the module they are named after, in the first also those about `Appender` | EXTEND it |
| `MCBlocks`, `MC...` | instances for TLC | |

How they fit together: `Appender` and `BlockchainUpdater` are one composition, so
that an extension, the pool and the versions of the liquid block meet in one
state.  `ExtensionLoader` uses what `Appender` shows (an extension is applied whole
or not at all) as one step, `MicroBlocks` uses the appender of microblocks in the
same way, and `Trading` uses what `MatcherQueue` shows (a book is the result of a
prefix of its events, and the rest comes again) as its restart.  `StateHistory`
implements `Ledger`, which is all that the updater needs to know of the database.

### BlockchainUpdater

| variable | in the code |
|---|---|
| `chain` | the blocks in LevelDB, by height, each with what its generator was paid and what it leaves to the next one |
| `liquid` | `ngState`: one record for each version of the liquid block (base and microblocks) |
| `rest` | `restTotalConstraint`, reduced to a number of transactions |
| `safe` | `Keys.safeRollbackHeight` |
| `published` | the value that `lastBlockInfo` caches |

Actions: `ProcessBlock` with its branches (a block on the persisted chain, a
better competitor, a longer version of the same block, a child of any version,
which hardens it), `ProcessMicroBlock`, `RemoveAfter`, `Restart` (everything but
the database is lost).  All of them run under the write lock, so each is one
step.  Calls that return `Left` before they change anything are stuttering.
A transaction is an element of a set; its diff applies if it is not on the chain
and what it needs is.  A signature covers a header and transactions
(`HeaderOf`, `Content`), which is what lets a microblock with a wrong total
signature be told from a good one.

### Appender

`utx`, `checked` (inside `putIfNew`, between the check and the insertion),
`stale` (found invalid by `doCleanup` or `packUnconfirmed` and not yet removed),
`invalid` (`InvalidBlockStorage`) and `task` (the running `ExtensionAppender`
task).  Whether a block passes the consensus checks is an operator of the block and
of the best view that the node has when it comes, from which the code reads the
script and the generating balance of its sender; so one that was declined may be
accepted later.  A block or microblock is one
step.  An extension is a step for the rollback, one for each block, and, after a
failure, one for the second rollback and one for each block put back, because
the pool's threads and a stop of the node may come between any two.

### Cells, Ledger, StateHistory

A *cell* is one stored value (a balance, an asset's data, a script, ...) with a
kind that says how long its history is kept and by which index a rollback finds
it.  `StateHistory` has the histories (the list of heights that the code keeps,
newest first, is the set of its members), the values by height, the cache entries
and `target`, the height that a rollback under way must reach.
`AppendBlock` is the batch of `doAppend` with the deletion of expired entries;
`RollbackOne` the batch of one height; `RestartNode` may come between two of
them.  The rollback of an issue does not undo the script of the asset
(`leftover` remembers which); that of a `SetAssetScript` does.  `Ledger` keeps a complete map for each height; its two actions add one or
return to an earlier one.  The refinement mapping reads each cell of
`StateHistory` the way the node does, through the cache, and at each height that
can still be reached from the histories.

### FeatureVoting

`stored` (votes of the persisted blocks), `liquid` (votes and approvals of the
liquid block), `approved` and `activated` (the two keys in the database), `safe`.
Actions: the liquid block is started, replaced or hardened, rolled back, or lost
in a restart.  A node that does not implement an active feature appends no
block; the asynchronous `forceStopApplication` that follows is a restart at some
later time, or never.

### ExtensionLoader

| variable | in the code |
|---|---|
| `loader`, `applier` | `LoaderState`, `ApplierState` of `RxExtensionLoader` |
| `timers` | the scheduled tasks of `scheduleBlacklist` |
| `mailbox` | what waits before the `merge` of the loader: results of the observer, signatures, blocks, applied extensions |
| `jobs` | the `extensions` subject: extensions handed to `ExtensionAppender` |
| `scores`, `localScore`, `emitted` | `RxScoreObserver`: cache of scores, own score, last emission (`currentBestChannel` and `lastSyncWith` are its channel) |
| `heard`, `closing`, `localScores` | scores and closed or timed out channels before the `merge` of the observer |
| `status`, `peerTip`, `requests` | channels, chains and open requests of the peers |
| `tip`, `invalid` | last block of the node, `InvalidBlockStorage` |

Each handler of the loader is one operator (`OnSyncWith`, `OnSignatures`,
`OnBlock`, `OnApplied`), and `SyncNext` is `syncNext`.  A chain is named by its
last block.  `ApplyExtension` does in one step what `Appender` details, and a
restore always succeeds in it.  A peer that connects again is a new channel, as
in netty.  The four sources of the loader keep their own order and are merged in
any way, which is slightly more than the schedulers of Monix produce.

### UtxPool

| variable | in the code |
|---|---|
| `pool`, `portfolios`, `ids` | the maps `transactions`, `transactionPortfolios` and, in `PessimisticPortfolios`, `transactions` by address |
| `at`, `job`, `todo`, `read`, `left`, `call` | where each thread is: the step, the transaction, the addresses still to change, what it has read, the entries its sweep has still to look at |
| `valid`, `expired` | what the chain makes of the transactions, changed from outside at any time |
| `contended` | history: addresses on which two calls have worked at the same time |

`putIfNew` is: look at the size, validate, add the portfolio, read and write back
the ids of each address, insert.  `removeAll`, `packUnconfirmed` and the two
cleanups take the same maps apart in the order of the code.  Of a portfolio only
the addresses matter.

### MicroBlocks

`owners`, `nextInvs`, `awaiting` and `received` are the four caches; `tasks` and
`requests` are bags, because two equal attempts or requests can be under way;
`toObserve` and `toDownload` are the two subscriptions to the last block, which
nothing orders; `between` is history: what was announced when only the second had
heard of the block it follows.
The handlers are `OnInv`, `OnResponse` and `OnLastBlockId` on one thread;
`NextAttempt` is a delayed task.  A channel announces a microblock
once.

### OrderBook and Trading

`OrderBook` translates the integer arithmetic of the code (`CeilDiv` where it
rounds up, `\div` where it rounds down) and matching as one function from a book
and an order to a book and its events.  `Trading` puts a book between address
actors: `queue` and `processed` are the stored events and how many the book has
applied, `mail` what it has told the actors, `actor` the state of each
`AddressActor`, `orderInfo` the database of final statuses, `spendable`,
`changed`, `toSettle` and `settled` the balances and the exchange transactions
under way.  A request with an immediate answer is one action (`PlaceOrder`,
`CancelOrder`, `CancelAllOrders`, `CancelExpiredOrder`), `HandleEvent` is what the
actor does with an event of the book, `BalanceUpdated` its look at falling
balances.  `Restart` begins with empty actors and the book at any event it has
applied.  `abandoned` is history: the orders with a promise to answer a cancellation
that another has replaced.  Requests that change nothing are left out.  Clients may
send any order at any time; after a restart they send again only those in
`Resending`, which is empty but in the run `order_placed_again`; balances only fall,
since a credit makes no actor do anything; a trade counts as filled on the blockchain as
soon as its transaction is in the pool.

### MatcherQueue

`log` is every event ever stored, `stored` what is still in the database,
`inMemQueue`, `startInMem`, `lastUnread` the fields of `LocalMatcherQueue`
(`seenStart` is `startInMemOffset` as the timer's thread sees it: it is not
volatile); `orderBooks`, `collected`, `lastProcessedNr`, `startOffset`, `nearest`
belong to `MatcherActor`, `book`, `writing`, `snapshot` to the books and their
snapshots, `toJournal` and `journal` to the persisted creations.  A book is the
sequence of events it has applied.  A snapshot may fail to be written
(`SnapshotFails`): the book goes on and nobody else is told.  `lost`, `orphans`,
`misnumbered` and `unsaved` are history: events deleted before a snapshot contained
them, pairs whose creation the journal had lost, pairs that were told to save at an
event older than one they had been sent, for which `BookIsItsLog` does not hold (see
*Findings*), and pairs one of whose snapshots has failed since the last start.
`StartUp` is what a crash, or the forced stop after a failed recovery, ends in.

## The runs

Bounds are the constants of each `.cfg`; the value of the main network is in
brackets.

| run | bounds | what it shows |
|---|---|---|
| `updater` | the tree of `MCBlocks` (21 signatures, 14 key blocks), 2 transactions per block, `MaxRollback` 2 [2000] | all orders of key blocks, microblocks, rollbacks and restarts keep chain, signatures, fees, constraint, transactions and score consistent; no block of the chain is applied again, and what a block drops is returned |
| `appenders` | same tree without the microblock of a wrong signature, five extensions; at a time one transaction inside `putIfNew`, one judged by a clean-up and one block remembered as invalid (`MCBounds`) | a failed extension restores the chain, a successful one loses no transaction, and the block it failed for is not among the blocks put back |
| `state_history` | 5 cells, 5 kinds of block, height 5, `MaxRollback` 2, 1 more for balances [2000 and 1000] | the ledger is implemented and no value of a discarded block stays, but for the script of an asset whose issue was rolled back |
| `feature_voting` | windows of 2 and, after height 4, of 4 blocks [5000], 2 votes required, height 8, `MaxRollback` 3 | an elected feature is not forgotten, late or moved; unsupported ones stop the node |
| `approval_survives_rollback` | same, height 5 | violation |
| `extension_loader` | 2 peers, one with nothing yet, one with a block that is declined; 1 disturbance; scores expire | no extension lost or mixed up, no peer blacklisted that owes nothing, and the loader never waits for ever |
| `matcher_queue` | 2 pairs, 3 events, a snapshot every 2 events [a million], 1 event per poll from memory; one fault: a crash, a failed book or a snapshot that cannot be written | each book is what its events make of it, each event is applied in the end, and only covered events are deleted |
| `event_executed_again` | 3 pairs, 4 events in one order, a snapshot at every event, 2 crashes | violation |
| `utx_pool` | 2 threads that put, 1 that removes, 3 transactions over 2 addresses, room for 1 [100000], 3 calls | the limit is exceeded by at most one per thread, and spendings are counted right where calls do not contend |
| `trading` | 2 addresses, 3 orders whose trades are rounded, 4 events, 1 of: a restart, a lost event, a spending elsewhere, a tick of the clock | actors, book, final statuses and balances agree once all is handled, and a request that was not answered was carried out |
| `order_placed_again` | same, one order may be sent again after a restart | violation |
| `micro_blocks` | 2 peers, 3 microblocks (two exclude each other, one follows), 2 attempts, 1 disturbance (another last block, a closed channel, an expired entry) | each microblock goes on once, no answer is wasted, the next one is asked for unless it is announced between the two subscribers of the last block |

Operators marked *Mutated* in the modules are plausible mistakes in the operator
below them.  None is used; `PROJECT.json` pairs each with the property that fails
when it takes that operator's place, so no property holds whatever the code does.
Type invariants (`TypeOK`, `UtxTypeOK`, `MicroTypeOK`) are proved and not run.

**Why the bounds are enough.**

* *Updater, appenders.*  The tree of `MCBlocks` contains each shape that a branch
  of `processBlock` tells apart: a child of each of three versions of one block, a
  better and an equal competitor, a longer version, a child of a child, a block
  that repeats a transaction and ones that need a discarded one, also at the end of
  an extension of each of these shapes.  A rollback depth
  of two is the smallest at which a rollback can go below a hardened block and
  still leave one above the safe height.
* *State.*  The histories need a change below, at and above the threshold, which
  height 5 gives with a depth of 2 and with 3.  An issue that was rolled back comes
  back only above the heights that its script has left behind (`AboveLeftover`);
  below them the list of heights would no longer be sorted, and nothing is said of
  that script anyway.
* *Appender's threads.*  One transaction of each kind is enough for each
  interleaving of a thread of the pool with the appender; they work on one
  transaction at a time.
* *Voting.*  The run crosses window boundaries before and after the windows double
  and rolls back over one.
* *Loader.*  `NoExtensionLost` and `TimeoutOnlyIfOwed` are proved for every tree of
  blocks and any number of peers and disturbances.  The run is for `EveryWaitEnds`:
  one wait of one of two peers, for signatures, for a block or for its application,
  and a disturbance (a close, a better chain of a peer, a block from elsewhere, a
  forgotten invalid block) at any point of it; a score may expire at any time.
* *Matcher queue.*  Two books with grids shifted against each other; with a snapshot
  every two events, three events give a book with a snapshot, one behind it and one
  without; polls from the database overlap those from memory from the second event
  on.  An event that is executed again needs a third pair, whose events make the
  books of the other two save, and a second crash; that run fixes the order of the
  events and what else may happen, so that it stays small.
* *Pool.*  Two that put and one that removes are the least with every pair of
  calls; one transaction touches one address, one both, one none.
* *Trading.*  A buy order of 3 at price 3/2 against sell orders of 3 and 2 gives
  partial executions with both kinds of rounding, a remainder that cannot be
  executed, and a second order of the same owner; balances are just enough for the
  orders, so that any spending uncovers one.
* *Microblocks.*  Announcements by two channels of microblocks that exclude each
  other, and of the one after, before and after their predecessor; two attempts are
  those of the code.

`MaxHeight`, `MaxEvents`, `MaxPuts`, `MaxTime`, `MaxFaults` and `MaxDisturbances`
are bounds of the models, not of the code.  Channels of `micro_blocks` and threads
of `utx_pool` are symmetric.  `CHECK_DEADLOCK FALSE` is given where the system may
come to rest: a loader without peers, a queue with every event applied, a pool
after its last call.

**Fairness.**  `ExtensionLoader` assumes that the threads of the observer, of the
loader and of the appenders go on, that a scheduled timer fires and that a score
which is remembered is forgotten after `scoreTtl` in the end.
Nothing is assumed of the peers: they may never answer.  `MatcherQueue` assumes
that as long as some thread or actor can take a step, one does (`WF` of
`MatcherStep`), which is less than Akka's dispatchers and the polling timer give;
nobody has to store an event and nothing has to fail.  The other modules state
only safety.

## Findings

Behaviours of the code that a test describes otherwise; `PROJECT.json` has them
with their lines.

* **`ApprovedIsElected`.**  Approvals that were persisted survive the rollback of
  the blocks that elected them.
* **`AppliedOnce`.**  Events stored before the queue is first consumed are delivered
  from the database and once more from memory, with lower offsets than before.
  `MatcherActor` may ask a book for a snapshot at such a repeated event, and
  `saveSnapshotAt` numbers it with that offset although the book has processed later
  ones.  After a crash the book takes the number for what it has processed and
  executes those events a second time.  A test expects a book to ignore requests it
  has processed.

* **`PlacedOnce`.**  After a restart the matcher is open to clients when the events
  of its backlog have been handed to `MatcherActor`, not when they have been handled.
  Until then the new address actor does not know an order that is in the backlog, so
  that the order is stored and matched a second time if its client sends it again.  A
  test expects an order that has been accepted to be rejected.

## Observed behaviour

What the models showed of the code that no document speaks about.  Where a property
needs an exception because of it, the exception is part of the property.

* `removeAfter` changes the last block without telling the subscribers of
  `lastBlockInfo`; until the next block they go on with a block that is gone.
* A request to cancel all orders, or a timer, stores a cancellation without a look at
  a pending request to cancel the same order, and its promise takes the place of that
  request's.  The first client gets no answer, although the order is cancelled
  (`UnansweredIsCanceled`).
* Nothing orders the two subscribers of the last block.  A microblock that is
  announced when `tryDownloadNext` has been called with a block and `lastObserved` has
  not heard of it is asked for by nobody, unless another peer announces it too: the
  exception `between` of `NextIsAsked`.
* A rollback to an earlier version of the liquid block reports success and leaves
  the later microblocks.
* After a failed extension the removed blocks are applied again with
  `explicitGet`.  `RestoreNeverThrows` holds in the run, and does not if the liquid
  block ended in a microblock with a wrong total signature, or at the height where
  an unsupported feature activates, because the same check sees another height when
  the parent is persisted.
* `NoLostApproval` needs two facts of the settings, which are assumptions of its
  theorem: an election takes more than one vote (the own vote of a block counts only
  beside others), and a rollback reaches no further than over one window.  The main
  network (windows of 5000, doubled, and a depth of 2000) has both.  `TESTNET`
  (windows of 30, doubled, and the same default depth) has not the second: an approval that
  is left over from rolled back blocks can then be *later* than the one of the
  branch that is followed, and the feature activates later on this node than on
  others; the other side of `ApprovedIsElected`.
* Two calls of the pool that work on the same address at the same time can leave
  spendings uncounted, or counted for a transaction that has gone, until the address
  is touched again (`contended`); in particular a second put of a transaction while a
  block takes it.
* While the loader waits for one peer it ignores a better one.  If the first has
  nothing new, the loader becomes idle without a look at the other, and goes on when
  a score changes or expires or a channel closes.
* A clean-up judges a transaction and removes it later: one that an extension has put
  back into the pool in between is lost if it had been judged while it was on the
  chain.  `SwitchKeepsTxs` excepts it (`stale`).
* A block that a node declined, even one it remembers as invalid, may be accepted
  later as a single block: its check reads the node's present best view.
* The script of an asset stays in the database when its issue is rolled back
  (`rollbackAssetInfo` only): the node then has the script of an asset that does not
  exist.
* The announcement of a fork of a microblock asks for the first one again
  (line 87), and a second owner that announces while the answer is awaited starts no
  request.  A received microblock that the appender declines is not asked for again
  until its entry expires.
* After a restart the next snapshot of a book is computed by adding the distance to
  the last one twice, so that intervals double; the book is not forgotten.
* A book one of whose snapshots could not be written is not told to save again
  before the next start, and the clean-up of the queue waits for its last snapshot
  (`unsaved`): `MatcherActor` is told of written snapshots only.
* A book that was created and snapshotted but whose creation is not in the journal
  when the program crashes is not asked for its offset; its events may be cleaned up
  (`orphans`).
* After a restart nobody compares the orders of an address with its balance until
  the balance changes, and a fee can grow by rounding with a trade that announces no
  change; both are exceptions of `CoveredAtRest`.

## What is proved

All theorems hold for every value of the constants under the named assumptions of
the modules: constants have their types, numbers are natural, and

* a signature is made after what it refers to (`AgeAssumption`: block references
  form no cycle), and the genesis block refers to nothing (`RootAssumption`);
* an extension
  is a piece of a peer's chain, each block of it the child of the one before, as
  `HistoryReplier` sends it; and it is no longer than the depth of a rollback
  (`AppenderAssumption`; `synchronization.max-rollback` is 100, the depth 2000).

Three of the theorems about `Appender` have two hypotheses more, without which
their properties are false in the code (*Observed behaviour*).  `HonestMicroBlocks`:
the total signature of a microblock that the generator of the block has signed
covers the block with it.  `[]Supported`: blocks are checked only at heights at
which no feature is active that the node does not implement.  The run has both.
The theorems about `Trading` but `StoredOnce` have the hypothesis `NobodyResends`: no
client sends an order again after a restart, without which `PlacedOnce`, hence that
a book holds an order once, is false in the code (*Findings*).

| theorem | property | argument |
|---|---|---|
| `TypeCorrect` | `TypeOK` | inductive as it stands; the lemmas in front give the type of each operator |
| `RestCorrect` | `RestMatchesLiquid` | inductive with `TypeOK` |
| `TipCorrect` | `TipAboveSafe` | inductive with `TypeOK`: the safe height moves only when a block is persisted, and a rollback stops above it |
| `ChainLinked` | `Linked` | inductive; a version that hardens shares the header, hence the parent, of the base |
| `ChainSigned` | `SignedAsPersisted` | from the check of hardening; a rollback only shortens the chain |
| `FeesCorrect` | `FeesConserved` | the property is about persisted blocks; the invariant adds that each *version* of the liquid block is paid what its own transactions and its parent's carried part make (`LiquidSettled`), because any of them may be persisted next |
| `ScoreMonotone` | `ScoreNeverDrops` | by cases of `ProcessBlock`: a competitor needs a greater score, a longer version has the same, and a block on top adds its own |
| `TxsCorrect` | `EveryTxApplies` | the invariant speaks of each version of the liquid block, not only of the best; lemmas say when the transactions of a concatenation apply |
| `DroppedReturned` | `DroppedAreReturned` | the transactions that `forgeBlock` meets in the microblocks after the version that hardens are those of the best version beyond it, because each version starts with the ones before (`GrowInv`); that nothing on the chain is returned needs `EveryTxApplies` and that signatures differ (`AgesInv`).  A longer version of the same block is taken to repeat the transactions it replaces (`RepeatsReplaced`), as the code does |
| `AppenderIsUpdater` | | each step of `Appender` is a step of `BlockchainUpdater` or none; what an extension hands to it has the type of a signature (`AppenderTypes`) |
| `AppliedTwice` | `NothingAppliedTwice` | `AgesInv`: along the chain and the versions of the liquid block each signature is younger than the one before, so that a block of the chain has no parent that a block could be put on; a longer version of the liquid block is none of its signed versions, because these are prefixes of it (`GrowInv`) |
| `SwitchKept` | `SwitchKeepsTxs` | `KeptInv`: each transaction that the task found is on the chain, in the pool, in a block that was removed, or no longer held to be kept because a clean-up has removed it; `OnTopInv`: the next block to do refers to a version of the last block, so that it replaces nothing |
| `BackCorrect` | | `ValidInv`: the persisted chain, under each version of the liquid block, is one that a node accepts from the first block on.  `BackInv`: from the last common block the removed blocks lead back to the chain the task found, which is valid, and a rollback to it is still allowed (its height exceeds the safe height, also after the blocks that are still to do).  A valid chain is accepted again block by block, since what was removed starts on the block that is the last one then |
| `RestoreCorrect` | `RestoreNeverThrows` | a part of `BackInv` |
| `FailedCorrect` | `FailedExtensionRestores` | `BackInv` when nothing is left to put back; the score of a chain is the sum of its blocks' scores (`ScoredInv`), which are those of the same headers |
| `ValuesCorrect` | `NoValueLeftBehind` | from `StateInv`: a cell has a value exactly at the heights of its history, each of which is a block that wrote the cell, and the safe height is at most `MaxRollback` below the top; scripts in `leftover` are excepted |
| `LedgerImplemented` | `ImplementsLedger` | the refinement.  `StateInv` and the fact that expiry keeps the newest change at or below the threshold give what a reader sees at each height a rollback can reach; an append maps to the ledger's append, the last batch of a rollback to its rollback, every other step to a stutter |
| `ApprovalsElected` | `NewApprovalsAreElected` | from `VotingInv`: the liquid block approves what it would when persisted; a lemma counts the votes of a window as those of the persisted blocks and the own one |
| `ActivationStable` | `ActivationIsStable` | what the liquid block announces is what is stored, and the older entry wins |
| `UnsupportedRefused` | `UnsupportedIsRefused` | inductive with `VotingInv`; a new activation is a whole window ahead |
| `NothingLost` | `NoLostApproval` | assumes `Required > 1` and `MaxRollback <= Period + 1`.  `KeptInv`: each election of persisted blocks is stored, no later than it happened; ends of windows lie at least a period apart, so an approval left over from a rolled back block cannot be later than the next election |
| `TimeoutsOwed` | `TimeoutOnlyIfOwed` | invariant: there is no timer but that of the loader's present state |
| `ExtensionsKept` | `NoExtensionLost` | `HandoverInv`: while the applier knows an extension, either the appender has it or one result is on the way, never both; a buffer is filled only while the loader asks for nothing |
| `UtxTypeCorrect` | | the type invariant, which also says which steps a thread can be in |
| `OvershootCorrect` | `OvershootBounded` | `RoomKept`: the pool and the threads past their look at the size are together fewer than the limit and all threads that put |
| `CountedCorrect` | `CountedUnlessContended` | `CountInv`: for each address that is not contended at most one thread works on it (`Alone`), the three maps agree about every transaction nobody works on (`Rested`), and about the one in work they differ by exactly what its thread has still to do (`Worked`); a thread changes the ids of its own transaction's addresses only (`Focused`) |
| `MicroTypeCorrect` | | the type invariant |
| `ForwardedCorrect` | `ForwardedOnce` | `MicroInv`: what has been handed on was so once, is in `received`, and is not awaited |
| `AnswersCorrect` | `NoAnswerWasted` | the same invariant: a request under way is awaited, received or forgotten |
| `FollowingAsked` | `NextIsAsked` | from `FollowInv`: what an announcement finds and what a last block finds differ by what is still to be told to each of the two subscribers, in either order, and by what was announced `between` them |
| `TradingInvariant` | | `TradingInv` itself: what may be in the queue (`QueueInv`), in the state of an actor and its mail (`ActorsInv`), where an order is found while it exists (`KnownInv`), and that book and trades are those of the first `processed` entries (`Faithful`) |
| `BookSane` | `BookIsSane` | one round of matching keeps both sides sorted and apart and shortens what is left of the order; a round that stops leaves nothing that can be executed |
| `ReservedCorrect` | `ReservedIsActive` | each handler changes the sum by what it releases and reserves of one order, however the active orders are summed up |
| `NeverOverspent` | `NeverOverspends` | part of `Faithful`: what is spent for the amount executed so far is at most its price, rounded down once; a sum of rounded parts is at most the rounded sum |
| `StoredOnce` | `OncePerStart` | `TradingInv` holds until a restart without any assumption about clients.  `KnownInv`: an order in the queue is active or final, whichever way it is looked up |
| `RestInvariant` | | `RestInv`: an order whose storing has not failed waits in the queue to be placed, or the last event on its way to its owner leaves of it what the book has, and without one the owner already agrees (`ViewInv`, by `Tells`); events go to the owners of what they mention, which has been placed (`MailInv`); each promise has an entry that waits or an event on its way (`PlaceInv`, `CancelInv`).  It needs `TradingInv`: an order is stored once, so that once it has been placed nothing brings it back.  Lemmas say what adding, cancelling and each round of matching tell of every order (`AddTells`, `CancelTells`), and what a handler makes of an event (`HandleView`) |
| `ActorsAgree` | `ActorsFollowBook` | `RestInv` with an empty mail and nothing waiting |
| `PromisesKept` | `NoPromiseForgotten` | the same.  It speaks of the promises that an actor still has; of the replaced ones, `UnansweredIsCanceled`, which the run checks, says that the order is gone |
| `FilledInvariant` | | `FilledInv`: book and trades are what the applied entries make of them (`Replayed`), also those of a book that came back from a snapshot; a final status, and an event on its way that ends an order, say what had been executed of the order after some entry by which it was placed and is not in the book any more (`EndedBy`).  It needs `TradingInv` and `RestInv`: an order that has left the book does not come back, and no later trade has it, so that what was executed by then is what is executed in all |
| `FilledCorrect` | `FilledIsExecuted` | `FilledInv` when every entry is applied |
| `CoverInvariant` | | `CoverInv`, until a restart.  `BalanceInv`: for each asset whose change is not still to be announced, the sum of what the *open* orders (those that spend it and that the actor has not asked to cancel) require is at most the balance.  Handling an event keeps that only if what is left of an order never grows, hence `ShrinkInv`: each event on its way leaves no more of an order than the one before it and than the actor takes to be left; an order that still waits to be placed is active in full.  A smaller remainder requires no more of the asset it spends (`RequiredLess`), and fewer and smaller terms sum up to no more (`SumFewer`).  Placing is checked against the whole reserved volume, which is what all active orders require; the comparison with changed balances takes its part for each order that fits, by induction over the orders by age (`TakenFits`), and asks to cancel the others |
| `CoveredCorrect` | `CoveredAtRest` | `CoverInv` and `RestInv`: at rest nothing is pending, so that every order is open; it is in the book, hence valid and requires something, so that a balance that covers it is not negative |
| `MatcherInvariant` | | `MatcherInv`, whose parts are below |
| `OnlyCoveredDropped` | `DropsOnlyCovered` | `MemoryInv`, `OrderInv`: whatever a poll sees of the memory, `MatcherActor` is sent every offset before a later one; hence a snapshot numbered `n` means that every pair with an event up to `n` has a book (`NumbersInv`, `JournalInv`), and the oldest snapshot is that of one of them (`CollectInv`), unless the journal lost it; `StoreInv` |
| `SnapshotsGoOn` | `NoBookForgotten` | `TurnInv`: a book is at one place of the round (due, asked, saving, reporting, loading) at most; `ProgressInv`: at one at least, because each number is larger than the one before, so that no request to save is ignored, and no snapshot of it has failed since the last start; with `PresenceInv`, what is on the way between a book, the snapshot store and `MatcherActor` |
| `AppliedInOrder` | `BookIsItsLog` | `LogInv`: an event of the pair that the book has not applied is in front of every later one, in its mail, on the way to `MatcherActor` or not yet polled (`Delivered`); what was deleted is in the snapshot (`MailInv`); so the first message adds the next event, or saves what it says |

A theorem whose property is an invariant has a strengthening that TLC has checked
on the small instances first; for the matcher's queue, where the invariant has
thirteen parts, also on an instance with `CleanBeforeConsume = FALSE`.

**Only model-checked.**  Liveness (`EveryWaitEnds`, `EveryEventApplied`): fairness is
stated with `ENABLED`, which is out of the prover's reach; `DeclinedIsNotRestored`; and
`UnansweredIsCanceled`.
Every other invariant and action property that a passing run checks has a theorem.

## What is not modelled, and why

* **Content of transactions, diffs, RIDE, proof of stake.**  Large pure functions
  over numbers and bytes.  The models keep whether a transaction or a block is
  accepted, as constants.
* **Address ids, aliases, transaction indexes, the set of recent transaction
  ids** of the storage.
* **Miner, connections and peers.**  What the miner produces is among the blocks of
  the models; handshakes, black lists and suspensions expire independently of the
  chain.
* **Matcher: the Kafka queue, deletion of books, market status, the views for
  clients.**  The Kafka queue has its order and offsets from a service outside.
* **Failing disks.**  The node has no answer to a failed write.  The matcher has one
  to a snapshot that cannot be written (`SaveSnapshotFailure`), which `MatcherQueue`
  has.  An event that cannot be stored is told to nobody, since no queue fails the
  promise of `storeEvent`; in `Trading` it is lost and its request stays pending.
* **Malicious peers.**  Peers run this program; they may be silent, slow, on
  another fork, or gone.
* **Discovery, the scripts of the web pages** (`src/discovery`, the vendored
  `swagger-ui`).  No part of the node: the first is a crawler that draws peers in a
  browser, the second a copy of a library.
* **Wallet, REST, formats, settings, generators.**  No protocol of their own.

## What is left

1. `TransactionIds`: the recent transaction ids of `Caches` against the chain, over
   restarts and rollbacks.
2. `Mining`: attempts, the microblock sequence and what cancels it, composed with
   `BlockchainUpdater`.
3. That the liquid block and the database implement one abstract chain.
4. Connections and peers.
