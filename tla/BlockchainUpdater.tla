------------------------- MODULE BlockchainUpdater -------------------------
(***************************************************************************)
(* BlockchainUpdaterImpl and its NgState: the persisted chain plus at most *)
(* one LIQUID block.  A liquid block is a key block (the base) followed by *)
(* the microblocks of its generator; each of them ends a VERSION of the    *)
(* block, with a signature of its own, and the next key block may refer to *)
(* any of these versions.  It then hardens: the referenced version is      *)
(* written to the database and the later microblocks are discarded.        *)
(*                                                                         *)
(* Every public operation holds the write lock of the class, so each is    *)
(* one action.  An operation that returns Left without touching a field is *)
(* a stuttering step and has no action.  The NG and fee-sponsorship        *)
(* features are taken as active from the start, as on the network of this  *)
(* repository, where all known features are pre-activated.                 *)
(***************************************************************************)
EXTENDS Integers, Sequences, SequencesExt

CONSTANTS
  Id,              \* block signatures (uniqueId, totalResBlockSig)
  NoId,            \* the reference of the genesis block
  Genesis,         \* signature of the genesis block
  Header,          \* what the versions of one key block share
  Tx,              \* transactions
  Account,         \* block generators
  HeaderOf,        \* [Id -> Header]   the header a signature covers
  Content,         \* [Id -> Seq(Tx)]  the transactions a signature covers
  Reference,       \* [Header -> Id \cup {NoId}]
  Generator,       \* [Header -> Account]
  Score,           \* [Header -> Nat \ {0}]: Block.blockScore
  MicroBlock,      \* microblocks [sender, prev, sig, txs]
  Age,             \* [Id -> Nat]: a signature is younger than what it refers to
  Needs,           \* [Tx -> SUBSET Tx]: what a transaction's diff relies on
  Fee,             \* fee of a transaction
  MaxTxs,          \* MiningConstraints.total
  MaxRollback,     \* maxRollbackDepth
  UnsupportedFrom  \* height at which an unimplemented feature activates

ASSUME IdAssumption ==
  /\ NoId \notin Id
  /\ Genesis \in Id
  /\ HeaderOf \in [Id -> Header]
  /\ Content \in [Id -> Seq(Tx)]
  /\ Reference \in [Header -> Id \cup {NoId}]
  /\ Generator \in [Header -> Account]
  /\ Score \in [Header -> Nat \ {0}]

ASSUME RootAssumption == Reference[HeaderOf[Genesis]] = NoId

ASSUME MicroBlockAssumption ==
  MicroBlock \subseteq [sender : Account, prev : Id, sig : Id, txs : Seq(Tx)]

\* A signature is made after the signature that the signed data contains.
ASSUME AgeAssumption ==
  /\ Age \in [Id -> Nat]
  /\ \A id \in Id : Reference[HeaderOf[id]] # NoId =>
                      Age[Reference[HeaderOf[id]]] < Age[id]
  /\ \A m \in MicroBlock : Age[m.prev] < Age[m.sig]

ASSUME ParameterAssumption ==
  /\ Needs \in [Tx -> SUBSET Tx]
  /\ Fee \in Nat
  /\ MaxTxs \in Nat
  /\ MaxRollback \in Nat \ {0}
  /\ UnsupportedFrom \in Nat

VARIABLES
  chain,      \* the database: blocks by height (LevelDBWriter)
  liquid,     \* NgState: versions of the liquid block, base first; <<>> is None
  rest,       \* restTotalConstraint: what the liquid block may still take
  safe,       \* Keys.safeRollbackHeight
  published   \* the value lastBlockInfo caches for its subscribers

vars == <<chain, liquid, rest, safe, published>>

\* A version of a block: its signature, its transactions, what its generator
\* is credited and what is carried to the generator of the next block.
Version == [id : Id, txs : Seq(Tx), paid : Nat, carry : Nat]

\* A persisted block also has the cumulative score of Keys.score.
Persisted == [id : Id, txs : Seq(Tx), paid : Nat, carry : Nat, score : Nat]

BlockInfo == [id : Id, height : Nat, score : Nat]

-----------------------------------------------------------------------------
(* Block data.                                                             *)

Ref(id) == Reference[HeaderOf[id]]

\* Block.CurrentBlockFeePart is the fraction (2, 5), rounded down before the
\* multiplication; the rest of a fee goes to the next generator.
CurrentPart == (Fee \div 5) * 2
NextPart == Fee - CurrentPart

\* signaturesValid of a block put together from a base and microblocks
SignaturesValid(v) == HeaderOf[v.id] = HeaderOf[liquid[1].id] /\ Content[v.id] = v.txs

\* BlockDiffer.apply over the transactions of a block, after the set past:
\* every diff finds what it needs and no transaction is there already.
Applies(past, txs) ==
  \A i \in DOMAIN txs :
    LET before == past \cup {txs[j] : j \in 1..(i - 1)}
    IN  txs[i] \notin before /\ Needs[txs[i]] \subseteq before

\* A node whose own genesis block is not accepted stops at the start.
ASSUME GenesisAssumption ==
  Len(Content[Genesis]) <= MaxTxs /\ Applies({}, Content[Genesis])

-----------------------------------------------------------------------------
(* The composite view: the database under the liquid block.                *)

Base == liquid[1]
Best == Last(liquid)

Recorded(h) == UNION {ToSet(chain[i].txs) : i \in 1..h}

PersistedScore == IF chain = <<>> THEN 0 ELSE Last(chain).score
PersistedCarry == IF chain = <<>> THEN 0 ELSE Last(chain).carry

Height == Len(chain) + (IF liquid = <<>> THEN 0 ELSE 1)

ViewScore == PersistedScore + (IF liquid = <<>> THEN 0 ELSE Score[HeaderOf[Base.id]])

ViewTxs == Recorded(Len(chain)) \cup (IF liquid = <<>> THEN {} ELSE ToSet(Best.txs))

LiquidIds == {liquid[i].id : i \in DOMAIN liquid}
PersistedIds == {chain[h].id : h \in DOMAIN chain}

\* Blockchain.contains and isLastBlockId of the composite
ContainsBlock(id) == id \in LiquidIds \cup PersistedIds

IsLastBlockId(id) ==
  id \in LiquidIds \/ (chain # <<>> /\ liquid = <<>> /\ Last(chain).id = id)

HeightOf(id) ==
  IF id \in PersistedIds THEN CHOOSE h \in DOMAIN chain : chain[h].id = id
                         ELSE Len(chain) + 1

-----------------------------------------------------------------------------
(* processBlock.                                                           *)

FirstVersion(id, carry) ==
  [id    |-> id,
   txs   |-> Content[id],
   paid  |-> carry + CurrentPart * Len(Content[id]),
   carry |-> NextPart * Len(Content[id])]

\* Mutated: the block is checked against the best version, not the referenced
ValidAfterBest(id, past) ==
  /\ Len(chain) < UnsupportedFrom
  /\ Len(Content[id]) <= MaxTxs
  /\ Applies(ViewTxs, Content[id])

\* BlockDiffer.fromBlock accepts the block after the transactions past, and no
\* feature the node does not implement is active.
ValidAfter(id, past) ==
  /\ Len(chain) < UnsupportedFrom
  /\ Len(Content[id]) <= MaxTxs
  /\ Applies(past, Content[id])

\* Mutated: the generator is paid the carry of the best version
BecomeLiquidWithBestCarry(id, carry) ==
  /\ liquid' = <<FirstVersion(id, IF liquid = <<>> THEN PersistedCarry ELSE Best.carry)>>
  /\ rest' = MaxTxs - Len(Content[id])

\* Mutated: the constraint of the replaced liquid block is kept
BecomeLiquidKeepingRest(id, carry) ==
  /\ liquid' = <<FirstVersion(id, carry)>>
  /\ rest' = rest

\* The assignments that follow: the generator is paid the carry of the parent.
BecomeLiquid(id, carry) ==
  /\ liquid' = <<FirstVersion(id, carry)>>
  /\ rest' = MaxTxs - Len(Content[id])

\* The emission that ends a successful processBlock or processMicroBlock
Publish(id) == published' = [id |-> id, height |-> Height', score |-> ViewScore']

\* Without a liquid block: a child of the last persisted block, or any block
\* when there is none
ExtendsPersisted(id) ==
  /\ liquid = <<>>
  /\ chain # <<>> => Ref(id) = Last(chain).id

SameParent(id) == liquid # <<>> /\ Ref(id) = Ref(Base.id)

\* Mutated: the scores are compared the other way round
HasWorseScore(id) == Score[HeaderOf[id]] < Score[HeaderOf[Base.id]]

\* Mutated: the same score is enough
HasNoWorseScore(id) == Score[HeaderOf[id]] >= Score[HeaderOf[Base.id]]

HasBetterScore(id) == Score[HeaderOf[id]] > Score[HeaderOf[Base.id]]

BeatsLiquid(id) == SameParent(id) /\ HasBetterScore(id)

\* areVersionsOfSameBlock, of which the longer version stays
IsLongerVersion(id) ==
  /\ SameParent(id)
  /\ ~HasBetterScore(id)
  /\ HeaderOf[id] = HeaderOf[Base.id]
  /\ Len(Content[id]) > Len(Best.txs)

\* Mutated: the best version hardens, whichever version is referenced
ExtendsBest(id, i) ==
  /\ ~SameParent(id)
  /\ Ref(id) \in LiquidIds
  /\ i = Len(liquid)
  /\ SignaturesValid(liquid[i])

\* Mutated: the total signature of the referenced microblock is not checked
ExtendsUnchecked(id, i) ==
  /\ ~SameParent(id)
  /\ liquid[i].id = Ref(id)

\* A child of the version i of the liquid block, whose signature must hold
Extends(id, i) ==
  /\ ~SameParent(id)
  /\ liquid[i].id = Ref(id)
  /\ SignaturesValid(liquid[i])

OnPersisted(id) ==
  /\ ValidAfter(id, Recorded(Len(chain)))
  /\ BecomeLiquid(id, PersistedCarry)
  /\ UNCHANGED <<chain, safe>>

ApplyOnPersisted(id) == ExtendsPersisted(id) /\ OnPersisted(id)
ReplaceByBetter(id) == BeatsLiquid(id) /\ OnPersisted(id)
SwapForLonger(id) == IsLongerVersion(id) /\ OnPersisted(id)

\* blockchain.append, with the diff and the carry of the referenced version
Harden(v) ==
  /\ chain' = Append(chain, [id |-> v.id, txs |-> v.txs, paid |-> v.paid,
                             carry |-> v.carry, score |-> ViewScore])
  /\ safe' = IF safe < Len(chain) + 1 - MaxRollback
             THEN Len(chain) + 1 - MaxRollback ELSE safe

HardenAndApply(id) ==
  \E i \in DOMAIN liquid :
    /\ Extends(id, i)
    /\ ValidAfter(id, Recorded(Len(chain)) \cup ToSet(liquid[i].txs))
    /\ BecomeLiquid(id, liquid[i].carry)
    /\ Harden(liquid[i])

ProcessBlock(id) ==
  /\ \/ ApplyOnPersisted(id)
     \/ ReplaceByBetter(id)
     \/ SwapForLonger(id)
     \/ HardenAndApply(id)
  /\ Publish(id)

\* processBlock returns Right(Some(discarded)) ...
Accepts(id) ==
  \/ /\ ExtendsPersisted(id) \/ BeatsLiquid(id) \/ IsLongerVersion(id)
     /\ ValidAfter(id, Recorded(Len(chain)))
  \/ \E i \in DOMAIN liquid :
       Extends(id, i) /\ ValidAfter(id, Recorded(Len(chain)) \cup ToSet(liquid[i].txs))

\* transactionData of the microblock that ends version j
MicroTxs(j) == SubSeq(liquid[j].txs, Len(liquid[j - 1].txs) + 1, Len(liquid[j].txs))

\* Mutated: the microblocks after the referenced version are forgotten
DiscardedIfBeaten(id) == IF BeatsLiquid(id) THEN ToSet(Best.txs) ELSE {}

\* ... where discarded are the transactions of a liquid block that lost to a
\* better one, or of the microblocks that forgeBlock meets after the version
\* that hardens.  Swapping for a longer version discards nothing.
Discarded(id) ==
  IF BeatsLiquid(id) THEN ToSet(Best.txs)
  ELSE UNION {ToSet(MicroTxs(j)) :
                j \in {k \in DOMAIN liquid : \E i \in 1..(k - 1) : Extends(id, i)}}

-----------------------------------------------------------------------------
(* processMicroBlock, removeAfter and the restart of the node.             *)

FitsRest(m) == Len(m.txs) <= rest

ProcessMicroBlock(m) ==
  /\ liquid # <<>>
  /\ Generator[HeaderOf[Base.id]] = m.sender
  /\ Best.id = m.prev
  /\ FitsRest(m)
  /\ Applies(ViewTxs, m.txs)
  /\ liquid' = Append(liquid, [id    |-> m.sig,
                               txs   |-> Best.txs \o m.txs,
                               paid  |-> Best.paid + CurrentPart * Len(m.txs),
                               carry |-> Best.carry + NextPart * Len(m.txs)])
  /\ rest' = rest - Len(m.txs)
  /\ UNCHANGED <<chain, safe>>
  /\ Publish(m.sig)

\* Mutated: the safe rollback height itself is accepted
CanRollBackToSafe(id) == id \in PersistedIds /\ HeightOf(id) >= safe

\* rollbackTo accepts a persisted block above the safe rollback height.
CanRollBackTo(id) == id \in PersistedIds /\ HeightOf(id) > safe

\* A version of the liquid block is not a reason to do anything.  Any other
\* argument drops the liquid block first, even if the rollback is refused.
RemoveAfter(id) ==
  /\ id \notin LiquidIds
  /\ liquid' = <<>>
  /\ chain' = IF CanRollBackTo(id) THEN SubSeq(chain, 1, HeightOf(id)) ELSE chain
  /\ UNCHANGED <<rest, safe, published>>

\* A new BlockchainUpdaterImpl over the same database: the liquid block is
\* gone, and checkGenesis applies the genesis block if nothing is persisted.
Restart ==
  /\ UNCHANGED <<chain, safe>>
  /\ IF chain = <<>>
     THEN BecomeLiquid(Genesis, 0) /\ Publish(Genesis)
     ELSE /\ liquid' = <<>>
          /\ rest' = MaxTxs
          /\ Publish(Last(chain).id)

Init ==
  /\ chain = <<>>
  /\ liquid = <<FirstVersion(Genesis, 0)>>
  /\ rest = MaxTxs - Len(Content[Genesis])
  /\ safe = 0
  /\ published = [id |-> Genesis, height |-> 1, score |-> Score[HeaderOf[Genesis]]]

Next ==
  \/ \E id \in Id : ProcessBlock(id)
  \/ \E m \in MicroBlock : ProcessMicroBlock(m)
  \/ \E id \in Id : RemoveAfter(id)
  \/ Restart

Spec == Init /\ [][Next]_vars

-----------------------------------------------------------------------------
(* Invariants.                                                             *)

\* Every variable has its type.
TypeOK ==
  /\ chain \in Seq(Persisted)
  /\ liquid \in Seq(Version)
  /\ rest \in Nat
  /\ safe \in Nat
  /\ published \in BlockInfo

\* Each block refers to the very version of its parent that was kept: a block
\* never ends up on a parent other than the one its generator built on, which
\* is what choosing, hardening and rolling back versions could get wrong.
Linked ==
  /\ \A h \in 2..Len(chain) : Ref(chain[h].id) = chain[h - 1].id
  /\ liquid # <<>> /\ chain # <<>> => Ref(Base.id) = Last(chain).id

\* What is persisted is what its signature covers, also when the block was put
\* together from microblocks, whose total signatures nobody checked on arrival.
SignedAsPersisted ==
  \A h \in DOMAIN chain : Content[chain[h].id] = chain[h].txs

\* No transaction is on the chain twice, and each finds on the chain what its
\* diff relied on, whichever versions were discarded since it was validated.
EveryTxApplies ==
  /\ \A h \in DOMAIN chain : Applies(Recorded(h - 1), chain[h].txs)
  /\ \A i \in DOMAIN liquid : Applies(Recorded(Len(chain)), liquid[i].txs)

\* What the parent leaves to the generator at height h, and the account of a
\* block or version b that receives carry
CarryInto(h) == IF h = 1 THEN 0 ELSE chain[h - 1].carry

Settled(b, carry) == /\ b.paid = carry + CurrentPart * Len(b.txs)
                     /\ b.carry = NextPart * Len(b.txs)

\* Fees are neither created nor lost: at each height the generator is credited
\* the current part of the fees of the block as it was KEPT and the carry of
\* the parent as it was KEPT.  (ng.carryFee is the carry of the best version,
\* so hardening an earlier version must not use it.)
FeesConserved ==
  /\ \A h \in DOMAIN chain : Settled(chain[h], CarryInto(h))
  /\ \A i \in DOMAIN liquid : Settled(liquid[i], CarryInto(Len(chain) + 1))

\* The constraint that the next microblock is checked against is what the best
\* version leaves of the limit, although swaps, hardening, rollbacks and
\* microblocks all overwrite the field; so no block exceeds the limit.
RestMatchesLiquid ==
  liquid # <<>> => rest = MaxTxs - Len(Best.txs)

\* The last persisted block stays above the safe rollback height, which never
\* decreases: rolling back to it is always allowed, after any rollbacks.
TipAboveSafe == chain # <<>> => safe < Len(chain)

-----------------------------------------------------------------------------
(* Action properties.                                                      *)

Processed == (\E id \in Id : ProcessBlock(id)) \/ (\E m \in MicroBlock : ProcessMicroBlock(m))

\* Processing blocks and microblocks never makes the node's chain worse: the
\* score, by which peers choose the chain to download, does not decrease.
ScoreNeverDrops == [][Processed => ViewScore' >= ViewScore]_vars

\* A longer version of the liquid block has the transactions that it replaces,
\* as that of a generator that runs this program has; the code takes it for
\* granted and returns nothing.
RepeatsReplaced(id) == IsLongerVersion(id) => ToSet(Best.txs) \subseteq ToSet(Content[id])

\* The transactions that a processed block drops from the chain are those which
\* processBlock returns to its caller, to be put back into the pool, without
\* what the block has again: none is forgotten, and none is returned that is
\* still on the chain, whichever version hardens and whichever block loses.
DroppedAreReturned ==
  [][\A id \in Id : ProcessBlock(id) /\ RepeatsReplaced(id) =>
        ViewTxs \ ViewTxs' = Discarded(id) \ ToSet(Content[id])]_vars

\* A block that is delivered again, right away or after any other steps, is not
\* applied again, as what it was then or as the whole of what has become of it:
\* it would throw away the microblocks and blocks on top of it.  (Of the liquid
\* block that goes for the versions whose total signatures hold; the signature
\* in a microblock may be one of another block.)
NothingAppliedTwice ==
  [][\A id \in Id : ProcessBlock(id) =>
       /\ id \notin PersistedIds
       /\ \A i \in DOMAIN liquid : SignaturesValid(liquid[i]) => liquid[i].id # id]_vars
=============================================================================
