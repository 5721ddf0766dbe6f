----------------------- MODULE BlockchainUpdaterProofs -----------------------
(***************************************************************************)
(* Theorems about BlockchainUpdater and, from AppenderTypes on, about      *)
(* Appender, for every block tree, every extension and every bound.        *)
(***************************************************************************)
EXTENDS Appender, SequenceTheorems, WellFoundedInduction, TLAPS

USE IdAssumption, MicroBlockAssumption, ParameterAssumption, GenesisAssumption

-----------------------------------------------------------------------------
(* Lemmas about the operators of the module.                               *)

\* Both parts of a fee are natural numbers.
LEMMA FeeParts == CurrentPart \in Nat /\ NextPart \in Nat
BY DEF CurrentPart, NextPart

\* A product of natural numbers is one (the backends need to be told).
LEMMA ProductType == \A m, n \in Nat : m * n \in Nat
OBVIOUS

\* The last element of a sequence that is not empty is one of its elements.
LEMMA LastType ==
  ASSUME NEW S, NEW s \in Seq(S), s # <<>>
  PROVE  Last(s) \in S /\ Len(s) \in Nat \ {0}
BY DEF Last

LEMMA FirstVersionType ==
  ASSUME NEW id \in Id, NEW carry \in Nat
  PROVE  FirstVersion(id, carry) \in Version
<1>1. Content[id] \in Seq(Tx) /\ Len(Content[id]) \in Nat
  OBVIOUS
<1>2. CurrentPart * Len(Content[id]) \in Nat /\ NextPart * Len(Content[id]) \in Nat
  BY <1>1, FeeParts, ProductType
<1> QED
  BY <1>1, <1>2 DEF FirstVersion, Version

\* The state without what is published from it
DataOK == /\ chain \in Seq(Persisted)
          /\ liquid \in Seq(Version)
          /\ rest \in Nat
          /\ safe \in Nat

\* What the composite view computes from the state
ViewOK == /\ PersistedScore \in Nat
          /\ PersistedCarry \in Nat
          /\ Height \in Nat
          /\ ViewScore \in Nat

\* What the composite view reads has its type.
LEMMA ViewType == DataOK => ViewOK
<1> SUFFICES ASSUME DataOK
             PROVE  ViewOK
  OBVIOUS
<1>1. Len(chain) \in Nat
  BY DEF DataOK
<1>2. chain # <<>> => Last(chain) \in Persisted
  BY LastType DEF DataOK
<1>3. PersistedScore \in Nat /\ PersistedCarry \in Nat
  BY <1>2 DEF PersistedScore, PersistedCarry, Persisted
<1>4. liquid # <<>> => Base \in Version
  BY DEF DataOK, Base
<1>5. liquid # <<>> => Score[HeaderOf[Base.id]] \in Nat
  BY <1>4 DEF Version
<1> QED
  BY <1>1, <1>3, <1>5 DEF ViewOK, Height, ViewScore

\* The same of the state after a step
LEMMA ViewTypeNext == DataOK' => ViewOK'
BY ViewType, PTL

-----------------------------------------------------------------------------
(* Type correctness.                                                       *)

\* What is published is computed from the new state, whose type suffices.
LEMMA PublishType ==
  ASSUME NEW id \in Id, Publish(id), DataOK'
  PROVE  TypeOK'
<1>1. Height' \in Nat /\ ViewScore' \in Nat
  BY ViewTypeNext DEF ViewOK
<1>2. published' \in BlockInfo
  BY <1>1 DEF Publish, BlockInfo
<1> QED
  BY <1>2 DEF DataOK, TypeOK

\* A block that fits the limit becomes a liquid block of the right type.
LEMMA BecomeLiquidType ==
  ASSUME NEW id \in Id, NEW carry \in Nat, BecomeLiquid(id, carry), Len(Content[id]) <= MaxTxs
  PROVE  liquid' \in Seq(Version) /\ rest' \in Nat
<1>1. FirstVersion(id, carry) \in Version
  BY FirstVersionType
<1> QED
  BY <1>1 DEF BecomeLiquid

\* Hardening keeps the types of the chain and of the safe rollback height.
LEMMA HardenType ==
  ASSUME TypeOK, NEW v \in Version, Harden(v)
  PROVE  chain' \in Seq(Persisted) /\ safe' \in Nat
<1>1. ViewScore \in Nat
  BY ViewType DEF ViewOK, DataOK, TypeOK
<1>2. [id |-> v.id, txs |-> v.txs, paid |-> v.paid, carry |-> v.carry,
       score |-> ViewScore] \in Persisted
  BY <1>1 DEF Version, Persisted
<1>3. Len(chain) \in Nat
  BY DEF TypeOK
<1> QED
  BY <1>2, <1>3 DEF Harden, TypeOK

LEMMA ProcessBlockType ==
  ASSUME TypeOK, NEW id \in Id, ProcessBlock(id)
  PROVE  TypeOK'
<1>1. ASSUME OnPersisted(id)
      PROVE  DataOK'
  <2>1. PersistedCarry \in Nat
    BY ViewType DEF ViewOK, DataOK, TypeOK
  <2> QED
    BY <1>1, <2>1, BecomeLiquidType DEF OnPersisted, ValidAfter, DataOK, TypeOK
<1>2. ASSUME HardenAndApply(id)
      PROVE  DataOK'
  <2>1. PICK i \in DOMAIN liquid :
          /\ ValidAfter(id, Recorded(Len(chain)) \cup ToSet(liquid[i].txs))
          /\ BecomeLiquid(id, liquid[i].carry)
          /\ Harden(liquid[i])
    BY <1>2 DEF HardenAndApply
  <2>2. liquid[i] \in Version
    BY DEF TypeOK
  <2>3. liquid[i].carry \in Nat
    BY <2>2 DEF Version
  <2>4. liquid' \in Seq(Version) /\ rest' \in Nat
    BY <2>1, <2>3, BecomeLiquidType DEF ValidAfter
  <2> QED
    BY <2>1, <2>2, <2>4, HardenType DEF DataOK
<1>3. DataOK'
  BY <1>1, <1>2 DEF ProcessBlock, ApplyOnPersisted, ReplaceByBetter, SwapForLonger
<1> QED
  BY <1>3, PublishType DEF ProcessBlock

LEMMA ProcessMicroBlockType ==
  ASSUME TypeOK, NEW m \in MicroBlock, ProcessMicroBlock(m)
  PROVE  TypeOK'
<1>1. /\ m.sig \in Id /\ m.txs \in Seq(Tx) /\ Len(m.txs) \in Nat
  OBVIOUS
<1>2. Best \in Version
  BY LastType DEF TypeOK, Best, ProcessMicroBlock
<1>3. CurrentPart * Len(m.txs) \in Nat /\ NextPart * Len(m.txs) \in Nat
  BY <1>1, FeeParts, ProductType
<1>4. Best.txs \o m.txs \in Seq(Tx)
  BY <1>1, <1>2 DEF Version
<1>5. [id |-> m.sig, txs |-> Best.txs \o m.txs,
       paid |-> Best.paid + CurrentPart * Len(m.txs),
       carry |-> Best.carry + NextPart * Len(m.txs)] \in Version
  BY <1>1, <1>2, <1>3, <1>4 DEF Version
<1>6. liquid' \in Seq(Version)
  BY <1>5 DEF ProcessMicroBlock, TypeOK
<1>7. rest' \in Nat
  BY <1>1 DEF ProcessMicroBlock, FitsRest, TypeOK
<1>8. DataOK'
  BY <1>6, <1>7 DEF DataOK, TypeOK, ProcessMicroBlock
<1> QED
  BY <1>1, <1>8, PublishType DEF ProcessMicroBlock

LEMMA RemoveAfterType ==
  ASSUME TypeOK, NEW id \in Id, RemoveAfter(id)
  PROVE  TypeOK'
<1>1. chain' \in Seq(Persisted)
  <2>1. CASE CanRollBackTo(id)
    <3>1. HeightOf(id) \in DOMAIN chain
      BY <2>1 DEF CanRollBackTo, HeightOf, PersistedIds
    <3> QED
      BY <2>1, <3>1 DEF RemoveAfter, TypeOK
  <2>2. CASE ~CanRollBackTo(id)
    BY <2>2 DEF RemoveAfter, TypeOK
  <2> QED
    BY <2>1, <2>2
<1> QED
  BY <1>1 DEF RemoveAfter, TypeOK

LEMMA RestartType ==
  ASSUME TypeOK, Restart
  PROVE  TypeOK'
<1>1. CASE chain = <<>>
  BY <1>1, BecomeLiquidType, PublishType DEF Restart, DataOK, TypeOK
<1>2. CASE chain # <<>>
  <2>1. Last(chain) \in Persisted
    BY <1>2, LastType DEF TypeOK
  <2>2. Last(chain).id \in Id
    BY <2>1 DEF Persisted
  <2> QED
    BY <1>2, <2>2, PublishType DEF Restart, DataOK, TypeOK
<1> QED
  BY <1>1, <1>2

LEMMA TypeStep == TypeOK /\ [Next]_vars => TypeOK'
<1> SUFFICES ASSUME TypeOK, [Next]_vars PROVE TypeOK'
  OBVIOUS
<1>1. ASSUME NEW id \in Id, ProcessBlock(id) PROVE TypeOK'
  BY <1>1, ProcessBlockType
<1>2. ASSUME NEW m \in MicroBlock, ProcessMicroBlock(m) PROVE TypeOK'
  BY <1>2, ProcessMicroBlockType
<1>3. ASSUME NEW id \in Id, RemoveAfter(id) PROVE TypeOK'
  BY <1>3, RemoveAfterType
<1>4. CASE Restart
  BY <1>4, RestartType
<1>5. CASE UNCHANGED vars
  BY <1>5 DEF vars, TypeOK
<1> QED
  BY <1>1, <1>2, <1>3, <1>4, <1>5 DEF Next

LEMMA TypeInit == Init => TypeOK
<1> SUFFICES ASSUME Init PROVE TypeOK
  OBVIOUS
<1>1. FirstVersion(Genesis, 0) \in Version
  BY FirstVersionType
<1> QED
  BY <1>1 DEF Init, TypeOK, BlockInfo

\* Every variable always has its type; in particular no microblock makes the
\* rest of the constraint negative.
THEOREM TypeCorrect == Spec => []TypeOK
  BY TypeInit, TypeStep, PTL DEF Spec

-----------------------------------------------------------------------------
(* What the operations do to the liquid block and to the chain.            *)

\* A block that becomes liquid is the base and the best version at once.
LEMMA BecomeLiquidEffect ==
  ASSUME NEW id \in Id, NEW carry \in Nat, BecomeLiquid(id, carry)
  PROVE  /\ liquid' = <<FirstVersion(id, carry)>>
         /\ liquid' # <<>>
         /\ Base' = FirstVersion(id, carry)
         /\ Best' = FirstVersion(id, carry)
         /\ Base'.id = id
         /\ Best'.txs = Content[id]
<1>1. liquid' = <<FirstVersion(id, carry)>>
  BY DEF BecomeLiquid
<1>2. Base' = FirstVersion(id, carry) /\ Best' = FirstVersion(id, carry)
  BY <1>1 DEF Base, Best, Last
<1> QED
  BY <1>1, <1>2 DEF FirstVersion

\* The chain that a rollback leaves
LEMMA RemoveAfterEffect ==
  ASSUME TypeOK, NEW id \in Id, RemoveAfter(id)
  PROVE  /\ liquid' = <<>>
         /\ safe' = safe
         /\ \/ chain' = chain
            \/ \E h \in DOMAIN chain : h > safe /\ chain' = SubSeq(chain, 1, h)
<1>1. CASE CanRollBackTo(id)
  <2>1. HeightOf(id) \in DOMAIN chain /\ HeightOf(id) > safe
    BY <1>1 DEF CanRollBackTo, HeightOf, PersistedIds
  <2> QED
    BY <1>1, <2>1 DEF RemoveAfter
<1>2. CASE ~CanRollBackTo(id)
  BY <1>2 DEF RemoveAfter
<1> QED
  BY <1>1, <1>2

\* The chain that hardening leaves
LEMMA HardenEffect ==
  ASSUME TypeOK, NEW v \in Version, Harden(v)
  PROVE  /\ Len(chain') = Len(chain) + 1
         /\ chain' # <<>>
         /\ \A h \in 1..Len(chain) : chain'[h] = chain[h]
         /\ DOMAIN chain' = 1..(Len(chain) + 1)
         /\ chain'[Len(chain) + 1].id = v.id
         /\ chain'[Len(chain) + 1].txs = v.txs
         /\ chain'[Len(chain) + 1].paid = v.paid
         /\ chain'[Len(chain) + 1].carry = v.carry
         /\ chain'[Len(chain) + 1].score = ViewScore
         /\ Last(chain)' = chain'[Len(chain) + 1]
<1> DEFINE block == [id |-> v.id, txs |-> v.txs, paid |-> v.paid, carry |-> v.carry,
                     score |-> ViewScore]
<1>1. chain' = Append(chain, block) /\ chain \in Seq(Persisted) /\ Len(chain) \in Nat
  BY DEF Harden, TypeOK
<1>2. block \in Persisted
  BY ViewType DEF ViewOK, DataOK, TypeOK, Version, Persisted
<1> HIDE DEF block
<1>3. /\ Len(chain') = Len(chain) + 1
      /\ \A h \in 1..Len(chain) : chain'[h] = chain[h]
      /\ chain'[Len(chain) + 1] = block
      /\ DOMAIN chain' = 1..(Len(chain) + 1)
  BY <1>1, <1>2
<1>4. chain' # <<>> /\ Last(chain)' = chain'[Len(chain) + 1]
  BY <1>1, <1>3 DEF Last
<1> QED
  BY <1>3, <1>4 DEF block

\* The four cases of processBlock, by what they do: either the chain stays and
\* the block takes the place that is free or taken by a competitor, ...
LEMMA ProcessBlockCases ==
  ASSUME TypeOK, NEW id \in Id, ProcessBlock(id)
  PROVE  \/ /\ OnPersisted(id)
            /\ ExtendsPersisted(id) \/ BeatsLiquid(id) \/ IsLongerVersion(id)
         \/ \E i \in DOMAIN liquid :
              /\ liquid[i] \in Version
              /\ Extends(id, i)
              /\ ValidAfter(id, Recorded(Len(chain)) \cup ToSet(liquid[i].txs))
              /\ BecomeLiquid(id, liquid[i].carry)
              /\ Harden(liquid[i])
<1>1. \A i \in DOMAIN liquid : liquid[i] \in Version
  BY DEF TypeOK
<1> QED
  BY <1>1 DEF ProcessBlock, ApplyOnPersisted, ReplaceByBetter, SwapForLonger, HardenAndApply

\* The version that a microblock adds
LEMMA MicroBlockEffect ==
  ASSUME TypeOK, NEW m \in MicroBlock, ProcessMicroBlock(m)
  PROVE  /\ m.txs \in Seq(Tx) /\ m.sig \in Id
         /\ liquid # <<>> /\ liquid' # <<>>
         /\ Base' = Base /\ Base \in Version
         /\ Best \in Version
         /\ Best' = [id |-> m.sig, txs |-> Best.txs \o m.txs,
                     paid |-> Best.paid + CurrentPart * Len(m.txs),
                     carry |-> Best.carry + NextPart * Len(m.txs)]
         /\ Best'.id = m.sig
         /\ Best'.txs = Best.txs \o m.txs
         /\ liquid' = Append(liquid, Best')
<1> DEFINE new == [id |-> m.sig, txs |-> Best.txs \o m.txs,
                   paid |-> Best.paid + CurrentPart * Len(m.txs),
                   carry |-> Best.carry + NextPart * Len(m.txs)]
<1>1. liquid # <<>> /\ liquid \in Seq(Version) /\ liquid' = Append(liquid, new)
  BY DEF ProcessMicroBlock, TypeOK
<1>2. Best \in Version /\ Base \in Version
  BY <1>1, LastType DEF Best, Base
<1> HIDE DEF new
<1>3. Best' = new /\ Base' = Base /\ liquid' # <<>>
  BY <1>1 DEF Best, Base, Last
<1> QED
  BY <1>1, <1>2, <1>3 DEF new

-----------------------------------------------------------------------------
(* RestMatchesLiquid and TipAboveSafe.                                     *)

\* The remaining constraint always fits the best version of the liquid block,
\* so no liquid block, and no block of the chain, exceeds the limit.
THEOREM RestCorrect == Spec => []RestMatchesLiquid
<1>1. Init => RestMatchesLiquid
  BY DEF Init, RestMatchesLiquid, Best, Last, FirstVersion
<1>2. TypeOK /\ RestMatchesLiquid /\ [Next]_vars => RestMatchesLiquid'
  <2> SUFFICES ASSUME TypeOK, RestMatchesLiquid, [Next]_vars
               PROVE  RestMatchesLiquid'
    OBVIOUS
  <2>1. ASSUME NEW id \in Id, NEW carry \in Nat, BecomeLiquid(id, carry)
        PROVE  RestMatchesLiquid'
    BY <2>1, BecomeLiquidEffect DEF BecomeLiquid, RestMatchesLiquid
  <2>2. ASSUME NEW id \in Id, ProcessBlock(id)
        PROVE  RestMatchesLiquid'
    <3>1. PersistedCarry \in Nat
      BY ViewType DEF ViewOK, DataOK, TypeOK
    <3>2. \E carry \in Nat : BecomeLiquid(id, carry)
      BY <2>2, <3>1, ProcessBlockCases DEF OnPersisted, Version
    <3> QED
      BY <2>1, <3>2
  <2>3. ASSUME NEW m \in MicroBlock, ProcessMicroBlock(m)
        PROVE  RestMatchesLiquid'
    <3>1. Best.txs \in Seq(Tx) /\ m.txs \in Seq(Tx) /\ liquid # <<>>
      BY <2>3, MicroBlockEffect DEF Version
    <3>2. Best'.txs = Best.txs \o m.txs
      BY <2>3, MicroBlockEffect
    <3>3. Len(Best'.txs) = Len(Best.txs) + Len(m.txs) /\ Len(Best.txs) \in Nat /\ Len(m.txs) \in Nat
      BY <3>1, <3>2
    <3>4. rest = MaxTxs - Len(Best.txs) /\ rest' = rest - Len(m.txs)
      BY <2>3, <3>1 DEF ProcessMicroBlock, RestMatchesLiquid
    <3>5. rest' = MaxTxs - Len(Best'.txs)
      BY <3>3, <3>4
    <3> QED
      BY <3>5 DEF RestMatchesLiquid
  <2>4. ASSUME NEW id \in Id, RemoveAfter(id)
        PROVE  RestMatchesLiquid'
    BY <2>4 DEF RemoveAfter, RestMatchesLiquid
  <2>5. CASE Restart
    BY <2>1, <2>5 DEF Restart, RestMatchesLiquid
  <2>6. CASE UNCHANGED vars
    BY <2>6 DEF vars, RestMatchesLiquid, Best
  <2> QED
    BY <2>2, <2>3, <2>4, <2>5, <2>6 DEF Next
<1> QED
  BY <1>1, <1>2, TypeCorrect, PTL DEF Spec

\* TipAboveSafe says nothing of an empty chain, from which the next block may
\* harden; there the safe rollback height is still zero.
SafeInv == safe < Len(chain) \/ (safe = 0 /\ chain = <<>>)

LEMMA SafeCorrect == Spec => []SafeInv
<1>1. Init => SafeInv
  BY DEF Init, SafeInv
<1>2. TypeOK /\ SafeInv /\ [Next]_vars => SafeInv'
  <2> SUFFICES ASSUME TypeOK, SafeInv, [Next]_vars
               PROVE  SafeInv'
    OBVIOUS
  <2>1. Len(chain) \in Nat /\ safe \in Nat
    BY DEF TypeOK
  <2>2. ASSUME UNCHANGED <<chain, safe>>
        PROVE  SafeInv'
    BY <2>2 DEF SafeInv
  <2>3. ASSUME NEW id \in Id, ProcessBlock(id)
        PROVE  SafeInv'
    <3>1. CASE OnPersisted(id)
      BY <2>2, <3>1 DEF OnPersisted
    <3>2. ASSUME NEW v \in Version, Harden(v)
          PROVE  SafeInv'
      BY <2>1, <3>2, HardenEffect DEF Harden, SafeInv
    <3> QED
      BY <2>3, <3>1, <3>2, ProcessBlockCases
  <2>4. ASSUME NEW m \in MicroBlock, ProcessMicroBlock(m)
        PROVE  SafeInv'
    BY <2>2, <2>4 DEF ProcessMicroBlock
  <2>5. ASSUME NEW id \in Id, RemoveAfter(id)
        PROVE  SafeInv'
    <3>1. CASE chain' = chain
      BY <2>2, <2>5, <3>1, RemoveAfterEffect
    <3>2. ASSUME NEW h \in DOMAIN chain, h > safe, chain' = SubSeq(chain, 1, h)
          PROVE  SafeInv'
      <4>1. Len(chain') = h
        BY <2>1, <3>2 DEF TypeOK
      <4> QED
        BY <2>5, <3>2, <4>1, RemoveAfterEffect DEF SafeInv
    <3> QED
      BY <2>5, <3>1, <3>2, RemoveAfterEffect
  <2>6. CASE Restart
    BY <2>2, <2>6 DEF Restart
  <2>7. CASE UNCHANGED vars
    BY <2>2, <2>7 DEF vars
  <2> QED
    BY <2>3, <2>4, <2>5, <2>6, <2>7 DEF Next
<1> QED
  BY <1>1, <1>2, TypeCorrect, PTL DEF Spec

\* A rollback to the last persisted block is always allowed.
THEOREM TipCorrect == Spec => []TipAboveSafe
<1>1. SafeInv => TipAboveSafe
  BY DEF SafeInv, TipAboveSafe
<1> QED
  BY <1>1, SafeCorrect, PTL

-----------------------------------------------------------------------------
(* Safety: how the blocks of the chain relate to each other and to their   *)
(* signatures.                                                             *)

-----------------------------------------------------------------------------
(* Linked and SignedAsPersisted.                                           *)

\* What holds of every persisted block and of its parent survives a rollback.
LEMMA PrefixEffect ==
  ASSUME TypeOK, NEW id \in Id, RemoveAfter(id)
  PROVE  /\ Len(chain') <= Len(chain)
         /\ Len(chain') \in Nat
         /\ \A h \in 1..Len(chain') : chain'[h] = chain[h]
<1>1. CASE chain' = chain
  BY <1>1 DEF TypeOK
<1>2. ASSUME NEW h \in DOMAIN chain, chain' = SubSeq(chain, 1, h)
      PROVE  /\ Len(chain') = h
             /\ \A k \in 1..h : chain'[k] = chain[k]
  BY <1>2 DEF TypeOK
<1> QED
  BY <1>1, <1>2, RemoveAfterEffect DEF TypeOK

\* The base of the liquid block refers to the last persisted block.
LiquidLinked == liquid # <<>> /\ chain # <<>> => Ref(Base.id) = Last(chain).id

\* A version that hardens has the parent of the base: its signature covers the
\* same header.
LEMMA VersionRef ==
  ASSUME TypeOK, NEW id \in Id, NEW i \in DOMAIN liquid, Extends(id, i)
  PROVE  Ref(liquid[i].id) = Ref(Base.id)
BY DEF Extends, SignaturesValid, Ref, Base

\* Every block of the chain is the child of the block below it, and so is the
\* liquid block: no order of competitors, versions, hardening, rollbacks and
\* restarts puts a block on a parent that its generator did not build on.
THEOREM ChainLinked == Spec => []Linked
<1>1. Init => Linked
  BY DEF Init, Linked
<1>2. TypeOK /\ Linked /\ [Next]_vars => Linked'
  <2> SUFFICES ASSUME TypeOK, Linked, [Next]_vars
               PROVE  Linked'
    OBVIOUS
  <2>1. ASSUME UNCHANGED chain, LiquidLinked'
        PROVE  Linked'
    BY <2>1 DEF Linked, LiquidLinked
  <2>2. PersistedCarry \in Nat
    BY ViewType DEF ViewOK, DataOK, TypeOK
  <2>3. ASSUME NEW id \in Id, ProcessBlock(id)
        PROVE  Linked'
    <3>1. ASSUME OnPersisted(id), ExtendsPersisted(id) \/ BeatsLiquid(id) \/ IsLongerVersion(id)
          PROVE  Linked'
      <4>1. Base'.id = id /\ liquid' # <<>> /\ chain' = chain
        BY <2>2, <3>1, BecomeLiquidEffect DEF OnPersisted
      <4>2. chain # <<>> => Ref(id) = Last(chain).id
        BY <3>1 DEF ExtendsPersisted, BeatsLiquid, IsLongerVersion, SameParent, Linked
      <4>3. LiquidLinked'
        BY <4>1, <4>2 DEF LiquidLinked, Ref
      <4> QED
        BY <2>1, <4>1, <4>3
    <3>2. ASSUME NEW i \in DOMAIN liquid, liquid[i] \in Version, Extends(id, i),
                 BecomeLiquid(id, liquid[i].carry), Harden(liquid[i])
          PROVE  Linked'
      <4>1. liquid[i].carry \in Nat /\ Len(chain) \in Nat
        BY <3>2 DEF Version, TypeOK
      <4>2. Base'.id = id
        BY <3>2, <4>1, BecomeLiquidEffect
      <4>3. chain # <<>> => Ref(liquid[i].id) = Last(chain).id
        BY <3>2, VersionRef DEF Linked
      <4>4. /\ Len(chain') = Len(chain) + 1
            /\ \A h \in 1..Len(chain) : chain'[h] = chain[h]
            /\ chain'[Len(chain) + 1].id = liquid[i].id
            /\ Last(chain)' = chain'[Len(chain) + 1]
        BY <3>2, HardenEffect
      <4>5. Ref(id) = Last(chain)'.id
        BY <3>2, <4>4 DEF Extends
      <4>6. ASSUME NEW h \in 2..Len(chain')
            PROVE  Ref(chain'[h].id) = chain'[h - 1].id
        <5>1. CASE h \in 2..Len(chain)
          <6>1. chain'[h] = chain[h] /\ chain'[h - 1] = chain[h - 1]
            BY <4>1, <4>4, <5>1
          <6> QED
            BY <5>1, <6>1 DEF Linked
        <5>2. CASE h = Len(chain) + 1
          <6>1. chain # <<>> /\ Last(chain) = chain[h - 1] /\ h - 1 \in 1..Len(chain)
            BY <4>1, <4>6, <5>2 DEF Last, TypeOK
          <6> QED
            BY <4>3, <4>4, <5>2, <6>1
        <5> QED
          BY <4>1, <4>4, <5>1, <5>2
      <4> QED
        BY <4>2, <4>5, <4>6 DEF Linked, Ref
    <3> QED
      BY <2>3, <3>1, <3>2, ProcessBlockCases
  <2>4. ASSUME NEW m \in MicroBlock, ProcessMicroBlock(m)
        PROVE  Linked'
    <3>1. Base' = Base /\ liquid # <<>> /\ chain' = chain
      BY <2>4, MicroBlockEffect DEF ProcessMicroBlock
    <3> QED
      BY <2>1, <3>1 DEF LiquidLinked, Linked, Ref
  <2>5. ASSUME NEW id \in Id, RemoveAfter(id)
        PROVE  Linked'
    <3>1. /\ Len(chain') <= Len(chain)
          /\ Len(chain') \in Nat
          /\ \A h \in 1..Len(chain') : chain'[h] = chain[h]
      BY <2>5, PrefixEffect
    <3>2. liquid' = <<>>
      BY <2>5 DEF RemoveAfter
    <3>3. \A h \in 2..Len(chain') : h \in 2..Len(chain) /\ chain'[h] = chain[h] /\ chain'[h - 1] = chain[h - 1]
      BY <3>1 DEF TypeOK
    <3> QED
      BY <3>2, <3>3 DEF Linked
  <2>6. CASE Restart
    BY <2>6 DEF Restart, Linked
  <2>7. CASE UNCHANGED vars
    BY <2>7 DEF vars, Linked, Base
  <2> QED
    BY <2>3, <2>4, <2>5, <2>6, <2>7 DEF Next
<1> QED
  BY <1>1, <1>2, TypeCorrect, PTL DEF Spec

\* Every persisted block is one that its signature covers, although the total
\* signature of a microblock is not checked when the microblock arrives.
THEOREM ChainSigned == Spec => []SignedAsPersisted
<1>1. Init => SignedAsPersisted
  BY DEF Init, SignedAsPersisted
<1>2. TypeOK /\ SignedAsPersisted /\ [Next]_vars => SignedAsPersisted'
  <2> SUFFICES ASSUME TypeOK, SignedAsPersisted, [Next]_vars
               PROVE  SignedAsPersisted'
    OBVIOUS
  <2>1. ASSUME UNCHANGED chain
        PROVE  SignedAsPersisted'
    BY <2>1 DEF SignedAsPersisted
  <2>2. ASSUME NEW id \in Id, ProcessBlock(id)
        PROVE  SignedAsPersisted'
    <3>1. CASE OnPersisted(id)
      BY <2>1, <3>1 DEF OnPersisted
    <3>2. ASSUME NEW i \in DOMAIN liquid, liquid[i] \in Version, Extends(id, i), Harden(liquid[i])
          PROVE  SignedAsPersisted'
      <4>1. Content[liquid[i].id] = liquid[i].txs
        BY <3>2 DEF Extends, SignaturesValid
      <4>2. /\ Len(chain') = Len(chain) + 1 /\ Len(chain) \in Nat
            /\ \A h \in 1..Len(chain) : chain'[h] = chain[h]
            /\ chain'[Len(chain) + 1].id = liquid[i].id
            /\ chain'[Len(chain) + 1].txs = liquid[i].txs
            /\ DOMAIN chain' = 1..(Len(chain) + 1)
        BY <3>2, HardenEffect DEF TypeOK
      <4>3. \A h \in DOMAIN chain' : h \in 1..Len(chain) \/ h = Len(chain) + 1
        BY <4>2
      <4>4. \A h \in 1..Len(chain) : Content[chain[h].id] = chain[h].txs
        BY DEF SignedAsPersisted, TypeOK
      <4>5. ASSUME NEW h \in DOMAIN chain'
            PROVE  Content[chain'[h].id] = chain'[h].txs
        <5>1. CASE h \in 1..Len(chain)
          BY <4>2, <4>4, <5>1
        <5>2. CASE h = Len(chain) + 1
          BY <4>1, <4>2, <5>2
        <5> QED
          BY <4>3, <5>1, <5>2
      <4> QED
        BY <4>5 DEF SignedAsPersisted
    <3> QED
      BY <2>2, <3>1, <3>2, ProcessBlockCases
  <2>3. ASSUME NEW m \in MicroBlock, ProcessMicroBlock(m)
        PROVE  SignedAsPersisted'
    BY <2>1, <2>3 DEF ProcessMicroBlock
  <2>4. ASSUME NEW id \in Id, RemoveAfter(id)
        PROVE  SignedAsPersisted'
    <3>1. TypeOK'
      BY <2>4, RemoveAfterType
    <3>2. /\ DOMAIN chain' = 1..Len(chain') /\ DOMAIN chain = 1..Len(chain)
          /\ Len(chain') \in Nat /\ Len(chain) \in Nat
      BY <3>1 DEF TypeOK
    <3>3. \A h \in DOMAIN chain' : h \in DOMAIN chain /\ chain'[h] = chain[h]
      BY <2>4, <3>2, PrefixEffect
    <3> QED
      BY <3>3 DEF SignedAsPersisted
  <2>5. CASE Restart
    BY <2>1, <2>5 DEF Restart
  <2>6. CASE UNCHANGED vars
    BY <2>1, <2>6 DEF vars
  <2> QED
    BY <2>2, <2>3, <2>4, <2>5, <2>6 DEF Next
<1> QED
  BY <1>1, <1>2, TypeCorrect, PTL DEF Spec

-----------------------------------------------------------------------------
(* FeesConserved.                                                          *)

\* A version made of a single block is settled with the carry it was given.
LEMMA FirstVersionSettled ==
  ASSUME NEW id \in Id, NEW carry \in Nat
  PROVE  Settled(FirstVersion(id, carry), carry)
BY DEF Settled, FirstVersion

\* Appending the transactions of a microblock keeps a version settled.
LEMMA MicroBlockSettled ==
  ASSUME TypeOK, NEW m \in MicroBlock, ProcessMicroBlock(m),
         NEW carry \in Nat, Settled(Best, carry)
  PROVE  Settled(Best', carry)
<1>1. /\ Best.txs \in Seq(Tx) /\ m.txs \in Seq(Tx)
      /\ Best'.txs = Best.txs \o m.txs
      /\ Best' = [id |-> m.sig, txs |-> Best.txs \o m.txs,
                  paid |-> Best.paid + CurrentPart * Len(m.txs),
                  carry |-> Best.carry + NextPart * Len(m.txs)]
  BY MicroBlockEffect DEF Version
<1>2. /\ Best'.paid = Best.paid + CurrentPart * Len(m.txs)
      /\ Best'.carry = Best.carry + NextPart * Len(m.txs)
  BY <1>1
<1>3. Len(Best'.txs) = Len(Best.txs) + Len(m.txs)
  BY <1>1
<1>4. Len(Best.txs) \in Nat /\ Len(m.txs) \in Nat /\ CurrentPart \in Nat /\ NextPart \in Nat
  BY <1>1, FeeParts
<1>5. \A c, k, n \in Nat : c * (k + n) = c * k + c * n
  OBVIOUS
<1>6. /\ CurrentPart * Len(Best'.txs) = CurrentPart * Len(Best.txs) + CurrentPart * Len(m.txs)
      /\ NextPart * Len(Best'.txs) = NextPart * Len(Best.txs) + NextPart * Len(m.txs)
  <2>1. CurrentPart * (Len(Best.txs) + Len(m.txs))
          = CurrentPart * Len(Best.txs) + CurrentPart * Len(m.txs)
    BY <1>4, <1>5, Zenon
  <2>2. NextPart * (Len(Best.txs) + Len(m.txs))
          = NextPart * Len(Best.txs) + NextPart * Len(m.txs)
    BY <1>4, <1>5, Zenon
  <2> QED
    BY <1>3, <2>1, <2>2, Zenon
<1>7. /\ CurrentPart * Len(Best.txs) \in Nat /\ CurrentPart * Len(m.txs) \in Nat
  BY <1>4, ProductType
<1>8. /\ Best.paid = carry + CurrentPart * Len(Best.txs)
      /\ Best.carry = NextPart * Len(Best.txs)
  BY DEF Settled
<1> QED
  BY <1>2, <1>6, <1>7, <1>8 DEF Settled

\* The two halves of FeesConserved
ChainSettled == \A h \in DOMAIN chain : Settled(chain[h], CarryInto(h))
LiquidSettled == \A i \in DOMAIN liquid : Settled(liquid[i], CarryInto(Len(chain) + 1))

\* The carry that the database holds is the one that the next block receives.
LEMMA CarryIntoNext ==
  TypeOK => CarryInto(Len(chain) + 1) = PersistedCarry /\ PersistedCarry \in Nat
<1> SUFFICES ASSUME TypeOK
             PROVE  CarryInto(Len(chain) + 1) = PersistedCarry /\ PersistedCarry \in Nat
  OBVIOUS
<1>1. PersistedCarry \in Nat
  BY ViewType DEF ViewOK, DataOK, TypeOK
<1>2. CarryInto(Len(chain) + 1) = PersistedCarry
  BY DEF CarryInto, PersistedCarry, Last, TypeOK
<1> QED
  BY <1>1, <1>2

\* A step that keeps the chain and makes a block liquid settles it.
LEMMA BecomeLiquidSettled ==
  ASSUME TypeOK, ChainSettled, NEW id \in Id,
         UNCHANGED chain, BecomeLiquid(id, PersistedCarry)
  PROVE  ChainSettled' /\ LiquidSettled'
<1>1. ChainSettled'
  BY DEF ChainSettled, CarryInto, Settled
<1>2. liquid' = <<FirstVersion(id, PersistedCarry)>>
  BY DEF BecomeLiquid
<1>3. CarryInto(Len(chain) + 1)' = PersistedCarry /\ PersistedCarry \in Nat
  BY CarryIntoNext DEF CarryInto
<1>4. Settled(FirstVersion(id, PersistedCarry), PersistedCarry)
  BY <1>3, FirstVersionSettled
<1>5. \A i \in DOMAIN liquid' : liquid'[i] = FirstVersion(id, PersistedCarry)
  BY <1>2
<1> QED
  BY <1>1, <1>3, <1>4, <1>5 DEF LiquidSettled, Settled

\* At each height the generator is credited its part of the fees of the block
\* as it was kept and the carry of the parent as it was kept: no fee is lost or
\* paid twice, whichever versions were discarded.
THEOREM FeesCorrect == Spec => []FeesConserved
<1>1. Init => ChainSettled /\ LiquidSettled
  <2> SUFFICES ASSUME Init
               PROVE  ChainSettled /\ LiquidSettled
    OBVIOUS
  <2>1. chain = <<>> /\ liquid = <<FirstVersion(Genesis, 0)>> /\ CarryInto(1) = 0
    BY DEF Init, CarryInto
  <2> QED
    BY <2>1, FirstVersionSettled DEF ChainSettled, LiquidSettled
<1>2. TypeOK /\ ChainSettled /\ LiquidSettled /\ [Next]_vars => ChainSettled' /\ LiquidSettled'
  <2> SUFFICES ASSUME TypeOK, ChainSettled, LiquidSettled, [Next]_vars
               PROVE  ChainSettled' /\ LiquidSettled'
    OBVIOUS
  <2>1. ASSUME UNCHANGED chain
        PROVE  ChainSettled' /\ CarryInto(Len(chain) + 1)' = CarryInto(Len(chain) + 1)
    BY <2>1 DEF ChainSettled, CarryInto, Settled
  <2>2. ASSUME NEW id \in Id, ProcessBlock(id)
        PROVE  ChainSettled' /\ LiquidSettled'
    <3>1. CASE OnPersisted(id)
      BY <3>1, BecomeLiquidSettled DEF OnPersisted
    <3>2. ASSUME NEW i \in DOMAIN liquid, liquid[i] \in Version,
                 BecomeLiquid(id, liquid[i].carry), Harden(liquid[i])
          PROVE  ChainSettled' /\ LiquidSettled'
      <4>1. /\ Len(chain') = Len(chain) + 1 /\ Len(chain) \in Nat
            /\ \A h \in 1..Len(chain) : chain'[h] = chain[h]
            /\ DOMAIN chain' = 1..(Len(chain) + 1)
            /\ chain'[Len(chain) + 1].txs = liquid[i].txs
            /\ chain'[Len(chain) + 1].paid = liquid[i].paid
            /\ chain'[Len(chain) + 1].carry = liquid[i].carry
        BY <3>2, HardenEffect DEF TypeOK
      <4>2. \A h \in 1..(Len(chain) + 1) : CarryInto(h)' = CarryInto(h)
        <5>1. \A h \in 1..(Len(chain) + 1) : h = 1 \/ h - 1 \in 1..Len(chain)
          BY <4>1
        <5> QED
          BY <4>1, <5>1 DEF CarryInto
      <4>3. \A h \in 1..Len(chain) : Settled(chain[h], CarryInto(h))
        BY DEF ChainSettled, TypeOK
      <4>4. Settled(liquid[i], CarryInto(Len(chain) + 1))
        BY <3>2 DEF LiquidSettled
      <4>5. ChainSettled'
        <5>1. ASSUME NEW h \in 1..(Len(chain) + 1)
              PROVE  Settled(chain'[h], CarryInto(h)')
          <6>1. CASE h \in 1..Len(chain)
            BY <4>1, <4>2, <4>3, <6>1
          <6>2. CASE h = Len(chain) + 1
            BY <4>1, <4>2, <4>4, <6>2 DEF Settled
          <6> QED
            BY <4>1, <6>1, <6>2
        <5> QED
          BY <4>1, <5>1 DEF ChainSettled, Settled
      <4>6. liquid[i].carry \in Nat
        BY <3>2 DEF Version
      <4>7. CarryInto(Len(chain) + 1)' = liquid[i].carry
        BY <4>1 DEF CarryInto
      <4>8. Settled(FirstVersion(id, liquid[i].carry), liquid[i].carry)
        BY <4>6, FirstVersionSettled
      <4>9. \A k \in DOMAIN liquid' : liquid'[k] = FirstVersion(id, liquid[i].carry)
        BY <3>2 DEF BecomeLiquid
      <4>10. LiquidSettled'
        BY <4>7, <4>8, <4>9 DEF LiquidSettled, Settled
      <4> QED
        BY <4>5, <4>10
    <3> QED
      BY <2>2, <3>1, <3>2, ProcessBlockCases
  <2>3. ASSUME NEW m \in MicroBlock, ProcessMicroBlock(m)
        PROVE  ChainSettled' /\ LiquidSettled'
    <3>1. UNCHANGED chain
      BY <2>3 DEF ProcessMicroBlock
    <3>2. liquid \in Seq(Version) /\ liquid # <<>> /\ liquid' = Append(liquid, Best')
      BY <2>3, MicroBlockEffect DEF TypeOK
    <3>3. Settled(Best, CarryInto(Len(chain) + 1)) /\ CarryInto(Len(chain) + 1) \in Nat
      BY <3>2, CarryIntoNext DEF LiquidSettled, Best, Last
    <3>4. Settled(Best', CarryInto(Len(chain) + 1))
      BY <2>3, <3>3, MicroBlockSettled
    <3>5. \A i \in DOMAIN liquid' : (i \in DOMAIN liquid /\ liquid'[i] = liquid[i]) \/ liquid'[i] = Best'
      BY <3>2
    <3>6. \A i \in DOMAIN liquid' : Settled(liquid'[i], CarryInto(Len(chain) + 1))
      BY <3>4, <3>5 DEF LiquidSettled
    <3> QED
      BY <2>1, <3>1, <3>6 DEF LiquidSettled, Settled
  <2>4. ASSUME NEW id \in Id, RemoveAfter(id)
        PROVE  ChainSettled' /\ LiquidSettled'
    <3>1. TypeOK'
      BY <2>4, RemoveAfterType
    <3>2. /\ DOMAIN chain' = 1..Len(chain') /\ DOMAIN chain = 1..Len(chain)
          /\ Len(chain') \in Nat /\ Len(chain) \in Nat /\ Len(chain') <= Len(chain)
          /\ \A h \in 1..Len(chain') : chain'[h] = chain[h]
      BY <2>4, <3>1, PrefixEffect DEF TypeOK
    <3>3. \A h \in 1..Len(chain') : CarryInto(h)' = CarryInto(h)
      <4>1. \A h \in 1..Len(chain') : h = 1 \/ h - 1 \in 1..Len(chain')
        BY <3>2
      <4> QED
        BY <3>2, <4>1 DEF CarryInto
    <3>4. ChainSettled'
      BY <3>2, <3>3 DEF ChainSettled, Settled
    <3>5. LiquidSettled'
      BY <2>4 DEF RemoveAfter, LiquidSettled
    <3> QED
      BY <3>4, <3>5
  <2>5. CASE Restart
    <3>1. CASE chain = <<>>
      <4>1. PersistedCarry = 0
        BY <3>1 DEF PersistedCarry
      <4> QED
        BY <2>5, <3>1, <4>1, BecomeLiquidSettled DEF Restart
    <3>2. CASE chain # <<>>
      BY <2>1, <2>5, <3>2 DEF Restart, LiquidSettled
    <3> QED
      BY <3>1, <3>2
  <2>6. CASE UNCHANGED vars
    BY <2>1, <2>6 DEF vars, LiquidSettled, Settled
  <2> QED
    BY <2>2, <2>3, <2>4, <2>5, <2>6 DEF Next
<1>3. ChainSettled /\ LiquidSettled => FeesConserved
  BY DEF ChainSettled, LiquidSettled, FeesConserved
<1> QED
  BY <1>1, <1>2, <1>3, TypeCorrect, PTL DEF Spec

-----------------------------------------------------------------------------
(* The action properties.                                                  *)

\* The score, by which peers choose whose chain to download, does not drop when
\* the node processes a block or a microblock, whatever they are.
THEOREM ScoreMonotone == Spec => ScoreNeverDrops
<1>1. TypeOK /\ [Next]_vars => [Processed => ViewScore' >= ViewScore]_vars
  <2> SUFFICES ASSUME TypeOK, Processed
               PROVE  ViewScore' >= ViewScore
    BY DEF vars
  <2>1. PersistedScore \in Nat /\ ViewScore \in Nat /\ PersistedCarry \in Nat
    BY ViewType DEF ViewOK, DataOK, TypeOK
  <2>2. ASSUME NEW id \in Id, ProcessBlock(id)
        PROVE  ViewScore' >= ViewScore
    <3>1. Score[HeaderOf[id]] \in Nat \ {0}
      OBVIOUS
    <3>2. ASSUME NEW carry \in Nat, BecomeLiquid(id, carry)
          PROVE  ViewScore' = PersistedScore' + Score[HeaderOf[id]]
      BY <3>2, BecomeLiquidEffect DEF ViewScore
    <3>3. ASSUME OnPersisted(id), ExtendsPersisted(id) \/ BeatsLiquid(id) \/ IsLongerVersion(id)
          PROVE  ViewScore' >= ViewScore
      <4>1. ViewScore' = PersistedScore + Score[HeaderOf[id]]
        BY <2>1, <3>2, <3>3 DEF OnPersisted, PersistedScore
      <4>2. \/ liquid = <<>>
            \/ Score[HeaderOf[id]] > Score[HeaderOf[Base.id]]
            \/ Score[HeaderOf[id]] = Score[HeaderOf[Base.id]]
        BY <3>3 DEF ExtendsPersisted, BeatsLiquid, HasBetterScore, IsLongerVersion
      <4>3. liquid # <<>> => Base \in Version
        BY DEF TypeOK, Base
      <4>4. liquid # <<>> => Score[HeaderOf[Base.id]] \in Nat
        BY <4>3 DEF Version
      <4> QED
        BY <2>1, <3>1, <4>1, <4>2, <4>4 DEF ViewScore
    <3>4. ASSUME NEW v \in Version, BecomeLiquid(id, v.carry), Harden(v)
          PROVE  ViewScore' >= ViewScore
      <4>1. PersistedScore' = ViewScore
        BY <3>4, HardenEffect DEF PersistedScore
      <4>2. ViewScore' = ViewScore + Score[HeaderOf[id]]
        BY <3>2, <3>4, <4>1 DEF Version
      <4> QED
        BY <2>1, <3>1, <4>2
    <3> QED
      BY <2>2, <3>3, <3>4, ProcessBlockCases
  <2>3. ASSUME NEW m \in MicroBlock, ProcessMicroBlock(m)
        PROVE  ViewScore' >= ViewScore
    <3>1. Base' = Base /\ liquid # <<>> /\ liquid' # <<>> /\ chain' = chain
      BY <2>3, MicroBlockEffect DEF ProcessMicroBlock
    <3>2. ViewScore' = ViewScore
      BY <3>1 DEF ViewScore, PersistedScore
    <3> QED
      BY <2>1, <3>2
  <2> QED
    BY <2>2, <2>3 DEF Processed
<1> QED
  BY <1>1, TypeCorrect, PTL DEF Spec, ScoreNeverDrops

-----------------------------------------------------------------------------
(* EveryTxApplies.                                                         *)

\* Transactions that apply after those of s apply as the continuation of s.
LEMMA AppliesConcat ==
  ASSUME NEW past, NEW s \in Seq(Tx), NEW t \in Seq(Tx),
         Applies(past, s), Applies(past \cup ToSet(s), t)
  PROVE  Applies(past, s \o t)
<1> DEFINE st == s \o t
           Before(p, x, i) == p \cup {x[j] : j \in 1..(i - 1)}
<1>1. /\ Len(s) \in Nat /\ Len(t) \in Nat /\ Len(st) = Len(s) + Len(t)
      /\ DOMAIN s = 1..Len(s) /\ DOMAIN t = 1..Len(t) /\ DOMAIN st = 1..(Len(s) + Len(t))
      /\ \A i \in 1..Len(s) : st[i] = s[i]
      /\ \A i \in 1..Len(t) : st[Len(s) + i] = t[i]
  OBVIOUS
<1> HIDE DEF st
<1>2. ASSUME NEW i \in 1..Len(s)
      PROVE  st[i] \notin Before(past, st, i) /\ Needs[st[i]] \subseteq Before(past, st, i)
  <2>1. \A j \in 1..(i - 1) : st[j] = s[j]
    BY <1>1, <1>2
  <2>2. Before(past, st, i) = Before(past, s, i)
    BY <2>1
  <2>3. s[i] \notin Before(past, s, i) /\ Needs[s[i]] \subseteq Before(past, s, i)
    BY <1>1, <1>2 DEF Applies
  <2> QED
    BY <1>1, <1>2, <2>2, <2>3
<1>3. ASSUME NEW k \in 1..Len(t)
      PROVE  /\ st[Len(s) + k] \notin Before(past, st, Len(s) + k)
             /\ Needs[st[Len(s) + k]] \subseteq Before(past, st, Len(s) + k)
  <2>1. Before(past, st, Len(s) + k) = Before(past \cup ToSet(s), t, k)
    <3>1. ASSUME NEW j \in 1..(Len(s) + k - 1)
          PROVE  st[j] \in ToSet(s) \/ \E n \in 1..(k - 1) : st[j] = t[n]
      <4>1. CASE j \in 1..Len(s)
        BY <1>1, <4>1 DEF ToSet
      <4>2. CASE j \notin 1..Len(s)
        <5>1. j - Len(s) \in 1..(k - 1) /\ j - Len(s) \in 1..Len(t) /\ j = Len(s) + (j - Len(s))
          BY <1>1, <1>3, <3>1, <4>2
        <5> QED
          BY <1>1, <5>1
      <4> QED
        BY <4>1, <4>2
    <3>2. ASSUME NEW x \in ToSet(s)
          PROVE  \E j \in 1..(Len(s) + k - 1) : st[j] = x
      <4>1. PICK j \in 1..Len(s) : x = s[j]
        BY <1>1, <3>2 DEF ToSet
      <4>2. j \in 1..(Len(s) + k - 1)
        BY <1>1, <1>3, <4>1
      <4> QED
        BY <1>1, <4>1, <4>2
    <3>3. ASSUME NEW n \in 1..(k - 1)
          PROVE  Len(s) + n \in 1..(Len(s) + k - 1) /\ st[Len(s) + n] = t[n]
      BY <1>1, <1>3, <3>3
    <3> DEFINE A == {st[j] : j \in 1..(Len(s) + k - 1)}
               B == {t[n] : n \in 1..(k - 1)}
    <3>4. A = ToSet(s) \cup B
      <4>1. A \subseteq ToSet(s) \cup B
        <5>1. \A j \in 1..(Len(s) + k - 1) : st[j] \in ToSet(s) \cup B
          BY <3>1
        <5> HIDE DEF B
        <5> QED
          BY ONLY <5>1, SMT
      <4>2. ToSet(s) \subseteq A
        BY <3>2
      <4>3. B \subseteq A
        <5>1. \A n \in 1..(k - 1) : t[n] \in A
          BY <3>3
        <5> HIDE DEF A
        <5> QED
          BY ONLY <5>1, SMT
      <4> QED
        BY <4>1, <4>2, <4>3
    <3>5. Before(past, st, Len(s) + k) = past \cup A
      <4>1. \A x : x \in Before(past, st, Len(s) + k) <=> x \in past \/ x \in A
        OBVIOUS
      <4> HIDE DEF A, Before
      <4> QED
        BY <4>1
    <3>6. Before(past \cup ToSet(s), t, k) = past \cup ToSet(s) \cup B
      BY Zenon
    <3> HIDE DEF A, B, Before
    <3> QED
      BY <3>4, <3>5, <3>6
  <2>2. /\ t[k] \notin Before(past \cup ToSet(s), t, k)
        /\ Needs[t[k]] \subseteq Before(past \cup ToSet(s), t, k)
    BY <1>1, <1>3 DEF Applies
  <2> QED
    BY <1>1, <1>3, <2>1, <2>2
<1>4. ASSUME NEW i \in DOMAIN st
      PROVE  st[i] \notin Before(past, st, i) /\ Needs[st[i]] \subseteq Before(past, st, i)
  <2>1. CASE i \in 1..Len(s)
    BY <1>2, <2>1
  <2>2. CASE i \notin 1..Len(s)
    <3>1. i - Len(s) \in 1..Len(t) /\ i = Len(s) + (i - Len(s))
      BY <1>1, <1>4, <2>2
    <3> HIDE DEF Before
    <3> QED
      BY <1>3, <3>1
  <2> QED
    BY <2>1, <2>2
<1> QED
  BY <1>4 DEF Applies, st

\* The transactions of the first n blocks of a chain, and EveryTxApplies of a
\* chain c and the versions l of a liquid block on it
TxsUpTo(c, n) == UNION {ToSet(c[i].txs) : i \in 1..n}

ChainApplies(c) == \A h \in DOMAIN c : Applies(TxsUpTo(c, h - 1), c[h].txs)
LiquidApplies(c, l) == \A i \in DOMAIN l : Applies(TxsUpTo(c, Len(c)), l[i].txs)

AppliesInv == ChainApplies(chain) /\ LiquidApplies(chain, liquid)

LEMMA RecordedIs == \A n : Recorded(n) = TxsUpTo(chain, n)
BY DEF Recorded, TxsUpTo

\* They depend on these blocks only.
LEMMA TxsSame ==
  ASSUME NEW c, NEW d, NEW n \in Nat, \A i \in 1..n : d[i] = c[i]
  PROVE  TxsUpTo(d, n) = TxsUpTo(c, n)
BY DEF TxsUpTo

\* One block more
LEMMA TxsNext ==
  ASSUME NEW c, NEW n \in Nat
  PROVE  TxsUpTo(c, n + 1) = TxsUpTo(c, n) \cup ToSet(c[n + 1].txs)
<1>1. \A h \in 1..(n + 1) : h \in 1..n \/ h = n + 1
  OBVIOUS
<1>2. n + 1 \in 1..(n + 1) /\ \A h \in 1..n : h \in 1..(n + 1)
  OBVIOUS
<1>3. TxsUpTo(c, n + 1) \subseteq TxsUpTo(c, n) \cup ToSet(c[n + 1].txs)
  BY <1>1 DEF TxsUpTo
<1>4. TxsUpTo(c, n) \subseteq TxsUpTo(c, n + 1)
  BY <1>2 DEF TxsUpTo
<1>5. ToSet(c[n + 1].txs) \subseteq TxsUpTo(c, n + 1)
  BY <1>2 DEF TxsUpTo
<1> QED
  BY <1>3, <1>4, <1>5

\* A part of a chain applies like the chain.
LEMMA PrefixApplies ==
  ASSUME NEW c \in Seq(Persisted), ChainApplies(c), NEW d, NEW n \in Nat, n <= Len(c),
         \A i \in 1..n : d[i] = c[i]
  PROVE  \A h \in 1..n : Applies(TxsUpTo(d, h - 1), d[h].txs)
<1> SUFFICES ASSUME NEW h \in 1..n
             PROVE  Applies(TxsUpTo(d, h - 1), d[h].txs)
  OBVIOUS
<1>1. h - 1 \in Nat /\ (\A i \in 1..(h - 1) : d[i] = c[i]) /\ h \in DOMAIN c /\ d[h] = c[h]
  OBVIOUS
<1>2. TxsUpTo(d, h - 1) = TxsUpTo(c, h - 1)
  BY <1>1, TxsSame
<1>3. Applies(TxsUpTo(c, h - 1), c[h].txs)
  BY <1>1 DEF ChainApplies
<1> QED
  BY <1>1, <1>2, <1>3

\* A block that becomes liquid where its transactions apply
LEMMA BecomeLiquidApplies ==
  ASSUME NEW id \in Id, NEW carry \in Nat, BecomeLiquid(id, carry),
         Applies(TxsUpTo(chain', Len(chain')), Content[id])
  PROVE  LiquidApplies(chain', liquid')
<1>1. \A i \in DOMAIN liquid' : liquid'[i] = FirstVersion(id, carry)
  BY DEF BecomeLiquid
<1>2. FirstVersion(id, carry).txs = Content[id]
  BY DEF FirstVersion
<1> QED
  BY <1>1, <1>2 DEF LiquidApplies

LEMMA OnPersistedApplies ==
  ASSUME TypeOK, AppliesInv, NEW id \in Id, OnPersisted(id)
  PROVE  ChainApplies(chain') /\ LiquidApplies(chain', liquid')
<1>1. chain' = chain /\ BecomeLiquid(id, PersistedCarry) /\ PersistedCarry \in Nat
  BY ViewType DEF ViewOK, DataOK, TypeOK, OnPersisted
<1>2. Applies(TxsUpTo(chain', Len(chain')), Content[id])
  BY <1>1, RecordedIs DEF OnPersisted, ValidAfter
<1>3. LiquidApplies(chain', liquid')
  BY <1>1, <1>2, BecomeLiquidApplies
<1> QED
  BY <1>1, <1>3 DEF AppliesInv

LEMMA HardenApplies ==
  ASSUME TypeOK, AppliesInv, NEW id \in Id, NEW i \in DOMAIN liquid, liquid[i] \in Version,
         ValidAfter(id, Recorded(Len(chain)) \cup ToSet(liquid[i].txs)),
         BecomeLiquid(id, liquid[i].carry), Harden(liquid[i])
  PROVE  ChainApplies(chain') /\ LiquidApplies(chain', liquid')
<1> DEFINE n == Len(chain)
<1>1. chain \in Seq(Persisted) /\ n \in Nat /\ liquid[i].carry \in Nat
  BY DEF TypeOK, Version
<1>2. /\ DOMAIN chain' = 1..(n + 1) /\ Len(chain') = n + 1
      /\ \A h \in 1..n : chain'[h] = chain[h]
      /\ chain'[n + 1].txs = liquid[i].txs
  BY HardenEffect
<1> HIDE DEF n
<1>3. TxsUpTo(chain', n) = TxsUpTo(chain, n)
  BY <1>1, <1>2, TxsSame
<1>4. Applies(TxsUpTo(chain', n), chain'[n + 1].txs)
  BY <1>2, <1>3 DEF AppliesInv, LiquidApplies, n
<1>5. \A h \in 1..n : Applies(TxsUpTo(chain', h - 1), chain'[h].txs)
  <2>1. ChainApplies(chain) /\ n <= Len(chain)
    BY <1>1 DEF AppliesInv, n
  <2> QED
    BY <1>1, <1>2, <2>1, PrefixApplies, Zenon
<1>6. ASSUME NEW h \in 1..(n + 1)
      PROVE  Applies(TxsUpTo(chain', h - 1), chain'[h].txs)
  <2>1. CASE h \in 1..n
    BY <1>5, <2>1
  <2>2. CASE h = n + 1
    <3>1. h - 1 = n
      BY <1>1, <2>2
    <3> QED
      BY <1>4, <2>2, <3>1
  <2> QED
    BY <1>1, <2>1, <2>2
<1>7. TxsUpTo(chain', n + 1) = TxsUpTo(chain, n) \cup ToSet(liquid[i].txs)
  <2>1. TxsUpTo(chain', n + 1) = TxsUpTo(chain', n) \cup ToSet(chain'[n + 1].txs)
    BY <1>1, TxsNext
  <2> QED
    BY <1>2, <1>3, <2>1
<1>8. Applies(TxsUpTo(chain', Len(chain')), Content[id])
  BY <1>2, <1>7, RecordedIs DEF ValidAfter, n
<1>9. LiquidApplies(chain', liquid')
  BY <1>1, <1>8, BecomeLiquidApplies
<1> QED
  BY <1>2, <1>6, <1>9 DEF ChainApplies

LEMMA MicroBlockApplies ==
  ASSUME TypeOK, AppliesInv, NEW m \in MicroBlock, ProcessMicroBlock(m)
  PROVE  ChainApplies(chain') /\ LiquidApplies(chain', liquid')
<1> DEFINE past == TxsUpTo(chain, Len(chain))
<1>1. /\ liquid \in Seq(Version) /\ liquid # <<>> /\ liquid' = Append(liquid, Best')
      /\ Best.txs \in Seq(Tx) /\ m.txs \in Seq(Tx)
      /\ Best'.txs = Best.txs \o m.txs
      /\ chain' = chain
  BY MicroBlockEffect DEF TypeOK, Version, ProcessMicroBlock
<1>2. Applies(past, Best.txs)
  BY <1>1 DEF AppliesInv, LiquidApplies, Best, Last
<1>3. Applies(past \cup ToSet(Best.txs), m.txs)
  BY <1>1, RecordedIs DEF ProcessMicroBlock, ViewTxs
<1> HIDE DEF past
<1>4. Applies(past, Best'.txs)
  BY <1>1, <1>2, <1>3, AppliesConcat
<1>5. \A i \in DOMAIN liquid' :
        (i \in DOMAIN liquid /\ liquid'[i] = liquid[i]) \/ liquid'[i] = Best'
  BY <1>1
<1>6. \A i \in DOMAIN liquid' : Applies(past, liquid'[i].txs)
  BY <1>4, <1>5 DEF AppliesInv, LiquidApplies, past
<1> QED
  BY <1>1, <1>6 DEF AppliesInv, LiquidApplies, past

LEMMA RemoveAfterApplies ==
  ASSUME TypeOK, AppliesInv, NEW id \in Id, RemoveAfter(id)
  PROVE  ChainApplies(chain') /\ LiquidApplies(chain', liquid')
<1>1. TypeOK'
  BY RemoveAfterType
<1>2. chain \in Seq(Persisted) /\ DOMAIN chain' = 1..Len(chain')
  BY <1>1 DEF TypeOK
<1>3. /\ Len(chain') \in Nat
      /\ Len(chain') <= Len(chain)
      /\ \A h \in 1..Len(chain') : chain'[h] = chain[h]
  BY PrefixEffect
<1>4. \A h \in 1..Len(chain') : Applies(TxsUpTo(chain', h - 1), chain'[h].txs)
  BY <1>2, <1>3, PrefixApplies DEF AppliesInv
<1>5. liquid' = <<>>
  BY DEF RemoveAfter
<1> QED
  BY <1>2, <1>4, <1>5 DEF ChainApplies, LiquidApplies

LEMMA RestartApplies ==
  ASSUME TypeOK, AppliesInv, Restart
  PROVE  ChainApplies(chain') /\ LiquidApplies(chain', liquid')
<1>1. chain' = chain
  BY DEF Restart
<1>2. CASE chain = <<>>
  <2>1. BecomeLiquid(Genesis, 0)
    BY <1>2 DEF Restart
  <2>2. TxsUpTo(chain', Len(chain')) = {}
    BY <1>1, <1>2 DEF TxsUpTo
  <2>3. LiquidApplies(chain', liquid')
    BY <2>1, <2>2, BecomeLiquidApplies
  <2> QED
    BY <1>1, <2>3 DEF AppliesInv
<1>3. CASE chain # <<>>
  BY <1>1, <1>3 DEF Restart, AppliesInv, LiquidApplies
<1> QED
  BY <1>2, <1>3

\* No transaction is on the chain twice, and each finds there what its diff
\* relied on when it was validated, whichever versions were discarded since.
THEOREM TxsCorrect == Spec => []EveryTxApplies
<1>1. Init => AppliesInv
  <2> SUFFICES ASSUME Init
               PROVE  AppliesInv
    OBVIOUS
  <2>1. chain = <<>> /\ liquid = <<FirstVersion(Genesis, 0)>>
    BY DEF Init
  <2>2. TxsUpTo(chain, Len(chain)) = {}
    BY <2>1 DEF TxsUpTo
  <2>3. FirstVersion(Genesis, 0).txs = Content[Genesis]
    BY DEF FirstVersion
  <2>4. \A i \in DOMAIN liquid : liquid[i].txs = Content[Genesis]
    BY <2>1, <2>3
  <2>5. Applies({}, Content[Genesis])
    OBVIOUS
  <2>6. LiquidApplies(chain, liquid)
    BY <2>2, <2>4, <2>5 DEF LiquidApplies
  <2>7. ChainApplies(chain)
    BY <2>1 DEF ChainApplies
  <2> QED
    BY <2>6, <2>7 DEF AppliesInv
<1>2. TypeOK /\ AppliesInv /\ [Next]_vars => AppliesInv'
  <2> SUFFICES ASSUME TypeOK, AppliesInv, [Next]_vars
               PROVE  ChainApplies(chain') /\ LiquidApplies(chain', liquid')
    BY DEF AppliesInv, ChainApplies, LiquidApplies
  <2>1. ASSUME NEW id \in Id, ProcessBlock(id)
        PROVE  ChainApplies(chain') /\ LiquidApplies(chain', liquid')
    BY <2>1, ProcessBlockCases, OnPersistedApplies, HardenApplies
  <2>2. ASSUME NEW m \in MicroBlock, ProcessMicroBlock(m)
        PROVE  ChainApplies(chain') /\ LiquidApplies(chain', liquid')
    BY <2>2, MicroBlockApplies
  <2>3. ASSUME NEW id \in Id, RemoveAfter(id)
        PROVE  ChainApplies(chain') /\ LiquidApplies(chain', liquid')
    BY <2>3, RemoveAfterApplies
  <2>4. CASE Restart
    BY <2>4, RestartApplies
  <2>5. CASE UNCHANGED vars
    BY <2>5 DEF vars, AppliesInv
  <2> QED
    BY <2>1, <2>2, <2>3, <2>4, <2>5 DEF Next
<1>3. AppliesInv => EveryTxApplies
  BY RecordedIs DEF AppliesInv, ChainApplies, LiquidApplies, EveryTxApplies
<1> QED
  BY <1>1, <1>2, <1>3, TypeCorrect, PTL DEF Spec

-----------------------------------------------------------------------------
(* Ages: no block of the chain or version of the liquid block is there twice, *)
(* because each is younger than those before it.                           *)

HIDE GenesisAssumption
HIDE ParameterAssumption
HIDE MicroBlockAssumption
HIDE IdAssumption

AgesOf(c, l) ==
  /\ \A i, j \in DOMAIN c : i < j => Age[c[i].id] < Age[c[j].id]
  /\ \A i, j \in DOMAIN l : i < j => Age[l[i].id] < Age[l[j].id]
  /\ \A h \in DOMAIN c, i \in DOMAIN l : Age[c[h].id] < Age[l[i].id]

AgesInv == AgesOf(chain, liquid)

\* A block is younger than the one it refers to.
LEMMA RefIsOlder ==
  ASSUME NEW id \in Id, Ref(id) # NoId \/ Ref(id) \in Id
  PROVE  Ref(id) \in Id /\ Age[Ref(id)] \in Nat /\ Age[id] \in Nat /\ Age[Ref(id)] < Age[id]
<1>1. Ref(id) \in Id /\ Ref(id) # NoId
  BY IdAssumption DEF Ref
<1> QED
  BY <1>1, AgeAssumption DEF Ref

LEMMA MicroAges ==
  ASSUME NEW m \in MicroBlock
  PROVE  /\ m.prev \in Id /\ m.sig \in Id /\ m.sender \in Account /\ m.txs \in Seq(Tx)
         /\ Age[m.prev] < Age[m.sig] /\ Age[m.prev] \in Nat /\ Age[m.sig] \in Nat
BY MicroBlockAssumption, AgeAssumption

\* The ids of a chain and of versions have ages.
LEMMA AgeTypes ==
  ASSUME TypeOK
  PROVE  /\ \A h \in DOMAIN chain : chain[h].id \in Id /\ Age[chain[h].id] \in Nat
         /\ \A i \in DOMAIN liquid : liquid[i].id \in Id /\ Age[liquid[i].id] \in Nat
<1>1. /\ \A h \in DOMAIN chain : chain[h] \in Persisted
      /\ \A i \in DOMAIN liquid : liquid[i] \in Version
  BY DEF TypeOK
<1> QED
  BY <1>1, AgeAssumption DEF Persisted, Version

\* A block on the last persisted one is younger than all of them.
LEMMA YoungerThanChain ==
  ASSUME TypeOK, AgesInv, NEW id \in Id, chain # <<>> => Ref(id) = Last(chain).id,
         NEW h \in DOMAIN chain
  PROVE  Age[chain[h].id] < Age[id]
<1>1. Len(chain) \in DOMAIN chain /\ h <= Len(chain) /\ Last(chain) = chain[Len(chain)]
      /\ h \in Nat /\ Len(chain) \in Nat
  BY DEF TypeOK, Last
<1>2. Ref(id) = chain[Len(chain)].id /\ Ref(id) \in Id
  BY <1>1, AgeTypes
<1>3. Age[Ref(id)] < Age[id] /\ Age[id] \in Nat
  BY <1>2, RefIsOlder
<1>4. h = Len(chain) \/ Age[chain[h].id] < Age[chain[Len(chain)].id]
  BY <1>1 DEF AgesInv, AgesOf
<1> QED
  BY <1>1, <1>2, <1>3, <1>4, AgeTypes

LEMMA AgesStep == TypeOK /\ Linked /\ AgesInv /\ [Next]_vars => AgesOf(chain', liquid')
<1> SUFFICES ASSUME TypeOK, Linked, AgesInv, [Next]_vars
             PROVE  AgesOf(chain', liquid')
  OBVIOUS
<1>1. ASSUME NEW id \in Id, ProcessBlock(id)
      PROVE  AgesOf(chain', liquid')
  <2>1. PersistedCarry \in Nat
    BY ViewType DEF ViewOK, DataOK, TypeOK
  <2>2. ASSUME OnPersisted(id), ExtendsPersisted(id) \/ BeatsLiquid(id) \/ IsLongerVersion(id)
        PROVE  AgesOf(chain', liquid')
    <3>1. chain' = chain /\ \A i \in DOMAIN liquid' : i = 1 /\ liquid'[i].id = id
      BY <2>1, <2>2, BecomeLiquidEffect DEF OnPersisted, FirstVersion
    <3>2. chain # <<>> => Ref(id) = Last(chain).id
      BY <2>2 DEF ExtendsPersisted, BeatsLiquid, IsLongerVersion, SameParent, Linked
    <3>3. \A h \in DOMAIN chain : Age[chain[h].id] < Age[id]
      BY <3>2, YoungerThanChain
    <3> QED
      BY <3>1, <3>3 DEF AgesInv, AgesOf
  <2>3. ASSUME NEW i \in DOMAIN liquid, liquid[i] \in Version, Extends(id, i),
               BecomeLiquid(id, liquid[i].carry), Harden(liquid[i])
        PROVE  AgesOf(chain', liquid')
    <3> DEFINE n == Len(chain)
               v == liquid[i].id
    <3>1. liquid[i].carry \in Nat /\ n \in Nat /\ DOMAIN chain = 1..n /\ v \in Id
      BY <2>3 DEF Version, TypeOK
    <3>2. \A k \in DOMAIN liquid' : k = 1 /\ liquid'[k].id = id
      BY <2>3, <3>1, BecomeLiquidEffect DEF FirstVersion
    <3>3. /\ DOMAIN chain' = 1..(n + 1) /\ chain'[n + 1].id = v
          /\ \A h \in 1..n : chain'[h] = chain[h]
      BY <2>3, HardenEffect
    <3>4. Ref(id) = v
      BY <2>3 DEF Extends
    <3>5. Age[v] < Age[id] /\ Age[v] \in Nat /\ Age[id] \in Nat
      BY <3>1, <3>4, RefIsOlder
    <3>6. \A h \in 1..n : Age[chain[h].id] < Age[v] /\ Age[chain[h].id] \in Nat
      BY <3>1, AgeTypes DEF AgesInv, AgesOf
    <3> HIDE DEF n, v
    <3>7. \A h \in 1..(n + 1) : h \in 1..n \/ h = n + 1
      BY <3>1
    <3>8. \A h \in 1..(n + 1) : Age[chain'[h].id] < Age[id]
      BY <3>3, <3>5, <3>6, <3>7
    <3>9. ASSUME NEW h \in 1..(n + 1), NEW k \in 1..(n + 1), h < k
          PROVE  Age[chain'[h].id] < Age[chain'[k].id]
      <4>1. h \in 1..n
        BY <3>1, <3>9
      <4>2. CASE k = n + 1
        BY <3>3, <3>6, <4>1, <4>2
      <4>3. CASE k \in 1..n
        BY <3>1, <3>3, <3>9, <4>1, <4>3 DEF AgesInv, AgesOf
      <4> QED
        BY <3>7, <4>2, <4>3
    <3> QED
      BY <3>2, <3>3, <3>8, <3>9 DEF AgesOf
  <2> QED
    BY <1>1, <2>2, <2>3, ProcessBlockCases
<1>2. ASSUME NEW m \in MicroBlock, ProcessMicroBlock(m)
      PROVE  AgesOf(chain', liquid')
  <2> DEFINE n == Len(liquid)
  <2>1. /\ n \in Nat \ {0} /\ DOMAIN liquid = 1..n /\ Best = liquid[n] /\ chain' = chain
        /\ DOMAIN liquid' = 1..(n + 1) /\ liquid'[n + 1].id = m.sig
        /\ \A i \in 1..n : liquid'[i] = liquid[i]
    BY <1>2, MicroBlockEffect DEF TypeOK, ProcessMicroBlock, Best, Last
  <2>2. Best.id = m.prev /\ Age[m.prev] < Age[m.sig] /\ Age[m.sig] \in Nat
    BY <1>2, MicroAges DEF ProcessMicroBlock
  <2>3. \A i \in 1..n : Age[liquid[i].id] <= Age[liquid[n].id] /\ Age[liquid[i].id] \in Nat
    BY <2>1, AgeTypes DEF AgesInv, AgesOf
  <2> HIDE DEF n
  <2>4. \A i \in 1..n : Age[liquid[i].id] < Age[m.sig]
    BY <2>1, <2>2, <2>3
  <2>5. \A i \in 1..(n + 1) : i \in 1..n \/ i = n + 1
    BY <2>1
  <2>6. ASSUME NEW h \in DOMAIN chain, NEW i \in 1..(n + 1)
        PROVE  Age[chain[h].id] < Age[liquid'[i].id]
    <3>1. Age[chain[h].id] < Age[liquid[n].id] /\ Age[chain[h].id] \in Nat
      BY <2>1, AgeTypes DEF AgesInv, AgesOf
    <3>2. CASE i = n + 1
      BY <2>1, <2>2, <2>3, <3>1, <3>2
    <3>3. CASE i \in 1..n
      BY <2>1, <3>3 DEF AgesInv, AgesOf
    <3> QED
      BY <2>5, <3>2, <3>3
  <2>7. ASSUME NEW i \in 1..(n + 1), NEW j \in 1..(n + 1), i < j
        PROVE  Age[liquid'[i].id] < Age[liquid'[j].id]
    <3>1. i \in 1..n
      BY <2>1, <2>7
    <3>2. CASE j = n + 1
      BY <2>1, <2>4, <3>1, <3>2
    <3>3. CASE j \in 1..n
      BY <2>1, <2>7, <3>1, <3>3 DEF AgesInv, AgesOf
    <3> QED
      BY <2>5, <3>2, <3>3
  <2> QED
    BY <2>1, <2>6, <2>7 DEF AgesInv, AgesOf
<1>3. ASSUME NEW id \in Id, RemoveAfter(id)
      PROVE  AgesOf(chain', liquid')
  <2>1. TypeOK'
    BY <1>3, RemoveAfterType
  <2>2. liquid' = <<>>
    BY <1>3 DEF RemoveAfter
  <2>3. /\ Len(chain') <= Len(chain) /\ Len(chain') \in Nat
        /\ \A h \in 1..Len(chain') : chain'[h] = chain[h]
    BY <1>3, PrefixEffect
  <2>4. DOMAIN chain = 1..Len(chain) /\ Len(chain) \in Nat /\ DOMAIN chain' = 1..Len(chain')
    BY <2>1 DEF TypeOK
  <2>5. \A h \in DOMAIN chain' : h \in DOMAIN chain /\ chain'[h] = chain[h]
    BY <2>3, <2>4
  <2> QED
    BY <2>2, <2>5 DEF AgesInv, AgesOf
<1>4. CASE Restart
  <2>1. chain' = chain
    BY <1>4 DEF Restart
  <2>2. CASE chain = <<>>
    <3>1. \A i \in DOMAIN liquid' : i = 1
      BY <1>4, <2>2, BecomeLiquidEffect, IdAssumption DEF Restart
    <3> QED
      BY <2>1, <2>2, <3>1 DEF AgesOf
  <2>3. CASE chain # <<>>
    BY <1>4, <2>1, <2>3 DEF Restart, AgesInv, AgesOf
  <2> QED
    BY <2>2, <2>3
<1>5. CASE UNCHANGED vars
  BY <1>5 DEF vars, AgesInv
<1> QED
  BY <1>1, <1>2, <1>3, <1>4, <1>5 DEF Next

LEMMA AgesCorrect == Spec => []AgesInv
<1>1. Init => AgesInv
  <2> SUFFICES ASSUME Init PROVE AgesInv
    OBVIOUS
  <2>1. chain = <<>> /\ \A i \in DOMAIN liquid : i = 1
    BY DEF Init
  <2> QED
    BY <2>1 DEF AgesInv, AgesOf
<1>2. AgesOf(chain', liquid') => AgesInv'
  BY DEF AgesInv
<1> QED
  BY <1>1, <1>2, AgesStep, TypeCorrect, ChainLinked, PTL DEF Spec

-----------------------------------------------------------------------------
(* What a block drops from the chain, and that none is applied twice.      *)

USE IdAssumption, MicroBlockAssumption, ParameterAssumption, GenesisAssumption

\* A nonempty set of naturals has a least element.
LEMMA NatLeast ==
  ASSUME NEW T, T \subseteq Nat, T # {}
  PROVE  \E m \in T : \A k \in T : m <= k
<1>1. PICK m \in T : \A y \in T : <<y, m>> \notin OpToRel(<, Nat)
  BY NatLessThanWellFounded, WFMin
<1> SUFFICES ASSUME NEW k \in T, k < m PROVE FALSE
  OBVIOUS
<1>2. <<k, m>> \in Nat \X Nat
  OBVIOUS
<1>3. <<k, m>> \in OpToRel(<, Nat)
  BY <1>2 DEF OpToRel
<1> QED
  BY <1>1, <1>3

\* The transactions of each version are the first ones of the later versions.
GrowOf(l) ==
  \A i, j \in DOMAIN l : i <= j =>
    /\ Len(l[i].txs) <= Len(l[j].txs)
    /\ \A p \in 1..Len(l[i].txs) : l[j].txs[p] = l[i].txs[p]

GrowInv == GrowOf(liquid)

\* A version that adds transactions to the last one keeps that.
LEMMA AppendGrow ==
  ASSUME NEW l \in Seq(Version), l # <<>>, GrowOf(l),
         NEW x \in Seq(Tx), NEW v \in Version, v.txs = l[Len(l)].txs \o x
  PROVE  GrowOf(Append(l, v))
<1> DEFINE n == Len(l)
           a == Append(l, v)
<1>1. n \in Nat \ {0} /\ n \in 1..n /\ DOMAIN l = 1..n
  OBVIOUS
<1>2. DOMAIN a = 1..(n + 1) /\ a[n + 1] = v /\ \A i \in 1..n : a[i] = l[i]
  BY <1>1
<1>3. l[n] \in Version /\ \A i \in 1..n : l[i] \in Version
  BY <1>1
<1> HIDE DEF n, a
<1>4. /\ l[n].txs \in Seq(Tx) /\ Len(l[n].txs) \in Nat
      /\ \A i \in 1..n : Len(l[i].txs) \in Nat
  <2>1. l[n].txs \in Seq(Tx) /\ \A i \in 1..n : l[i].txs \in Seq(Tx)
    BY <1>3 DEF Version
  <2> QED
    BY <2>1
<1>5. v.txs = l[n].txs \o x
  BY DEF n
<1>6. /\ Len(v.txs) = Len(l[n].txs) + Len(x) /\ Len(x) \in Nat /\ Len(v.txs) \in Nat
      /\ \A p \in 1..Len(l[n].txs) : v.txs[p] = l[n].txs[p]
  <2> DEFINE b == l[n].txs
  <2>1. b \in Seq(Tx) /\ v.txs = b \o x
    BY <1>4, <1>5
  <2> HIDE DEF b
  <2>2. /\ Len(b \o x) = Len(b) + Len(x) /\ Len(x) \in Nat /\ Len(b \o x) \in Nat
        /\ \A p \in 1..Len(b) : (b \o x)[p] = b[p]
    BY <2>1
  <2> QED
    BY <2>1, <2>2 DEF b
<1>7. ASSUME NEW i \in 1..n
      PROVE  /\ Len(l[i].txs) <= Len(v.txs)
             /\ \A p \in 1..Len(l[i].txs) : v.txs[p] = l[i].txs[p]
  <2>1. i <= n
    BY <1>1
  <2>2. /\ Len(l[i].txs) <= Len(l[n].txs)
        /\ \A p \in 1..Len(l[i].txs) : l[n].txs[p] = l[i].txs[p]
    BY <1>1, <2>1 DEF GrowOf
  <2>3. Len(l[i].txs) \in Nat /\ Len(l[n].txs) \in Nat /\ Len(v.txs) \in Nat
        /\ Len(l[n].txs) <= Len(v.txs)
    BY <1>4, <1>6
  <2>4. Len(l[i].txs) <= Len(v.txs)
    BY <2>2, <2>3
  <2>5. ASSUME NEW p \in 1..Len(l[i].txs)
        PROVE  v.txs[p] = l[i].txs[p]
    <3>1. p \in 1..Len(l[n].txs)
      BY <2>2, <2>3
    <3> QED
      BY <1>6, <2>2, <3>1
  <2> QED
    BY <2>4, <2>5
<1>8. \A i \in 1..(n + 1) : i \in 1..n \/ i = n + 1
  BY <1>1
<1>9. ASSUME NEW i \in 1..(n + 1), NEW j \in 1..(n + 1), i <= j
      PROVE  /\ Len(a[i].txs) <= Len(a[j].txs)
             /\ \A p \in 1..Len(a[i].txs) : a[j].txs[p] = a[i].txs[p]
  <2>1. CASE j \in 1..n
    <3>1. i \in 1..n
      BY <1>1, <1>9, <2>1
    <3>2. a[i] = l[i] /\ a[j] = l[j]
      BY <1>2, <2>1, <3>1
    <3>3. /\ Len(l[i].txs) <= Len(l[j].txs)
          /\ \A p \in 1..Len(l[i].txs) : l[j].txs[p] = l[i].txs[p]
      BY <1>1, <1>9, <2>1, <3>1 DEF GrowOf
    <3> QED
      BY <3>2, <3>3
  <2>2. CASE i \in 1..n /\ j = n + 1
    BY <1>2, <1>7, <2>2
  <2>3. CASE i = n + 1 /\ j = n + 1
    BY <1>2, <1>6, <2>3
  <2>4. ~(i = n + 1 /\ j \in 1..n)
    BY <1>1, <1>9
  <2> QED
    BY <1>8, <2>1, <2>2, <2>3, <2>4
<1>10. GrowOf(a)
  BY <1>2, <1>9 DEF GrowOf
<1> QED
  BY <1>10 DEF a

LEMMA GrowStep == TypeOK /\ GrowInv /\ [Next]_vars => GrowOf(liquid')
<1> SUFFICES ASSUME TypeOK, GrowInv, [Next]_vars
             PROVE  GrowOf(liquid')
  OBVIOUS
<1>1. ASSUME NEW id \in Id, NEW carry, liquid' = <<FirstVersion(id, carry)>>
      PROVE  GrowOf(liquid')
  <2>1. Content[id] \in Seq(Tx) /\ Len(Content[id]) \in Nat
    OBVIOUS
  <2>2. \A i \in DOMAIN liquid' : i = 1
    BY <1>1
  <2>3. liquid'[1].txs = Content[id]
    BY <1>1 DEF FirstVersion
  <2> QED
    BY <2>1, <2>2, <2>3 DEF GrowOf
<1>2. ASSUME NEW id \in Id, ProcessBlock(id)
      PROVE  GrowOf(liquid')
  BY <1>1, <1>2, ProcessBlockCases DEF OnPersisted, BecomeLiquid
<1>3. ASSUME NEW m \in MicroBlock, ProcessMicroBlock(m)
      PROVE  GrowOf(liquid')
  <2>1. m.txs \in Seq(Tx) /\ liquid # <<>> /\ Best'.txs = Best.txs \o m.txs
        /\ liquid' = Append(liquid, Best')
    BY <1>3, MicroBlockEffect
  <2>2. Best' \in Version
    <3>1. TypeOK' /\ liquid' # <<>>
      BY <1>3, MicroBlockEffect, ProcessMicroBlockType
    <3> QED
      BY <3>1, LastType DEF TypeOK, Best
  <2>3. liquid \in Seq(Version) /\ Best = liquid[Len(liquid)] /\ GrowOf(liquid)
    BY DEF TypeOK, Best, Last, GrowInv
  <2>4. PICK v \in Version : v = Best'
    BY <2>2
  <2> QED
    BY <2>1, <2>3, <2>4, AppendGrow
<1>4. ASSUME liquid' = <<>>
      PROVE  GrowOf(liquid')
  BY <1>4 DEF GrowOf
<1>5. CASE Restart
  BY <1>1, <1>4, <1>5 DEF Restart, BecomeLiquid
<1>6. CASE UNCHANGED vars
  BY <1>6 DEF GrowInv, vars
<1> QED
  BY <1>2, <1>3, <1>4, <1>5, <1>6 DEF Next, RemoveAfter

LEMMA GrowCorrect == Spec => []GrowInv
<1>1. Init => GrowInv
  <2> SUFFICES ASSUME Init PROVE GrowInv
    OBVIOUS
  <2>1. Content[Genesis] \in Seq(Tx) /\ Len(Content[Genesis]) \in Nat
    OBVIOUS
  <2>2. (\A i \in DOMAIN liquid : i = 1) /\ liquid[1].txs = Content[Genesis]
    BY DEF Init, FirstVersion
  <2> QED
    BY <2>1, <2>2 DEF GrowInv, GrowOf
<1>2. TypeOK /\ GrowInv /\ [Next]_vars => GrowInv'
  BY GrowStep DEF GrowInv
<1> QED
  BY <1>1, <1>2, TypeCorrect, PTL DEF Spec

\* The versions of the liquid block and their transactions
LEMMA VersionTypes ==
  ASSUME TypeOK, NEW i \in DOMAIN liquid
  PROVE  /\ Len(liquid) \in Nat \ {0} /\ DOMAIN liquid = 1..Len(liquid)
         /\ Len(liquid) \in DOMAIN liquid /\ i <= Len(liquid) /\ liquid # <<>>
         /\ Best = liquid[Len(liquid)]
         /\ \A j \in DOMAIN liquid : liquid[j].txs \in Seq(Tx) /\ Len(liquid[j].txs) \in Nat
<1>1. liquid \in Seq(Version)
  BY DEF TypeOK
<1>2. /\ Len(liquid) \in Nat \ {0} /\ DOMAIN liquid = 1..Len(liquid)
      /\ Len(liquid) \in DOMAIN liquid /\ i <= Len(liquid) /\ liquid # <<>>
  BY <1>1
<1>3. \A j \in DOMAIN liquid : liquid[j] \in Version
  BY <1>1
<1>4. \A j \in DOMAIN liquid : liquid[j].txs \in Seq(Tx)
  BY <1>3 DEF Version
<1>5. \A j \in DOMAIN liquid : Len(liquid[j].txs) \in Nat
  BY <1>4
<1> QED
  BY <1>2, <1>4, <1>5 DEF Best, Last


\* The transactions of the microblocks after version i
TxsAfter(i) == UNION {ToSet(MicroTxs(j)) : j \in {k \in DOMAIN liquid : i < k}}

\* The transactions of one microblock are those of its version that are not in
\* the version before.
LEMMA MicroTxsIs ==
  ASSUME TypeOK, GrowInv, NEW j \in DOMAIN liquid, j # 1, NEW t
  PROVE  t \in ToSet(MicroTxs(j)) <=>
           \E p \in 1..Len(liquid[j].txs) : Len(liquid[j - 1].txs) < p /\ liquid[j].txs[p] = t
<1> DEFINE a == Len(liquid[j - 1].txs)
           b == Len(liquid[j].txs)
           s == liquid[j].txs
           m == SubSeq(s, a + 1, b)
<1>1. j - 1 \in DOMAIN liquid /\ j - 1 <= j /\ DOMAIN liquid = 1..Len(liquid) /\ Len(liquid) \in Nat
  BY DEF TypeOK
<1>2. liquid[j] \in Version /\ liquid[j - 1] \in Version
  BY <1>1 DEF TypeOK
<1>3. a \in Nat /\ b \in Nat /\ a <= b /\ s \in Seq(Tx) /\ Len(s) = b
  BY <1>1, <1>2 DEF Version, GrowInv, GrowOf
<1> HIDE DEF a, s
<1>4. Len(m) = b - a /\ m \in Seq(Tx) /\ \A k \in 1..(b - a) : m[k] = s[a + k]
  <2> HIDE DEF b
  <2>1. a + 1 \in 1..(b + 1) /\ b <= Len(s)
    BY <1>3
  <2> QED
    BY <1>3, <2>1
<1> HIDE DEF b, m
<1>5. DOMAIN m = 1..(b - a)
  BY <1>3, <1>4
<1>6. MicroTxs(j) = m
  BY DEF MicroTxs, m, a, b, s
<1>7. ASSUME NEW p \in 1..b, a < p, s[p] = t
      PROVE  \E k \in 1..(b - a) : m[k] = t
  <2>1. p - a \in 1..(b - a) /\ a + (p - a) = p
    BY <1>3, <1>7
  <2> QED
    BY <1>4, <1>7, <2>1
<1>8. ASSUME NEW k \in 1..(b - a), m[k] = t
      PROVE  \E p \in 1..b : a < p /\ s[p] = t
  <2>1. a + k \in 1..b /\ a < a + k
    BY <1>3
  <2> QED
    BY <1>4, <1>8, <2>1
<1>9. t \in ToSet(m) <=> \E k \in 1..(b - a) : m[k] = t
  BY <1>5 DEF ToSet
<1> QED
  BY <1>6, <1>7, <1>8, <1>9 DEF a, b, s

\* What the best version has after the version i is in the microblocks after it:
\* the first version with the transaction is one of them.
LEMMA LaterTxs ==
  ASSUME TypeOK, GrowInv, NEW i \in DOMAIN liquid, NEW t
  PROVE  t \in TxsAfter(i) <=>
           \E p \in 1..Len(Best.txs) : Len(liquid[i].txs) < p /\ Best.txs[p] = t
<1> DEFINE n == Len(liquid)
           L(j) == Len(liquid[j].txs)
<1>1. /\ n \in Nat \ {0} /\ DOMAIN liquid = 1..n /\ n \in 1..n /\ Best = liquid[n]
      /\ \A j \in 1..n : L(j) \in Nat
  BY VersionTypes
<1>2. \A j, k \in 1..n : j <= k => L(j) <= L(k) /\ \A p \in 1..L(j) : liquid[k].txs[p] = liquid[j].txs[p]
  BY <1>1 DEF GrowInv, GrowOf
<1> HIDE DEF n
<1>3. ASSUME NEW j \in 1..n, i < j, t \in ToSet(MicroTxs(j))
      PROVE  \E p \in 1..L(n) : L(i) < p /\ liquid[n].txs[p] = t
  <2>1. j # 1 /\ j - 1 \in 1..n /\ i <= j - 1 /\ j <= n
    BY <1>1, <1>3
  <2>2. PICK p \in 1..L(j) : L(j - 1) < p /\ liquid[j].txs[p] = t
    BY <1>1, <1>3, <2>1, MicroTxsIs
  <2>3. L(i) <= L(j - 1) /\ L(j) <= L(n) /\ liquid[n].txs[p] = t
    BY <1>1, <1>2, <2>1, <2>2
  <2>4. L(i) < p /\ p \in 1..L(n)
    BY <1>1, <2>1, <2>2, <2>3
  <2> QED
    BY <2>3, <2>4
<1>4. ASSUME NEW p \in 1..L(n), L(i) < p, liquid[n].txs[p] = t
      PROVE  t \in TxsAfter(i)
  <2> DEFINE F == {j \in 1..n : p <= L(j)}
  <2>1. F \subseteq Nat /\ n \in F
    BY <1>1
  <2>2. PICK j \in F : \A k \in F : j <= k
    BY <2>1, NatLeast
  <2>3. j \in 1..n /\ p <= L(j)
    OBVIOUS
  <2>4. i < j
    <3> SUFFICES ASSUME j <= i PROVE FALSE
      BY <1>1, <2>3
    <3>1. L(j) <= L(i)
      BY <1>1, <1>2, <2>3
    <3> QED
      BY <1>1, <1>4, <2>3, <3>1
  <2>5. j # 1 /\ j - 1 \in 1..n /\ ~(j <= j - 1)
    BY <1>1, <2>3, <2>4
  <2>6. L(j - 1) < p
    <3>1. j - 1 \notin F
      BY <2>2, <2>5
    <3> QED
      BY <1>1, <2>5, <3>1
  <2>7. p \in 1..L(j) /\ liquid[j].txs[p] = t
    <3>1. p \in 1..L(j) /\ j <= n
      BY <1>1, <2>3
    <3> QED
      BY <1>1, <1>2, <1>4, <2>3, <3>1
  <2>8. t \in ToSet(MicroTxs(j))
    BY <1>1, <2>3, <2>5, <2>6, <2>7, MicroTxsIs
  <2> QED
    BY <1>1, <2>3, <2>4, <2>8 DEF TxsAfter
<1> QED
  BY <1>1, <1>3, <1>4 DEF TxsAfter

\* ... so the transactions of the best version are those of the version i and of
\* the microblocks after it, and no transaction is in both.
LEMMA SplitTxs ==
  ASSUME TypeOK, GrowInv, NEW i \in DOMAIN liquid
  PROVE  /\ ToSet(Best.txs) = ToSet(liquid[i].txs) \cup TxsAfter(i)
         /\ EveryTxApplies => ToSet(liquid[i].txs) \cap TxsAfter(i) = {}
<1> DEFINE n == Len(liquid)
           a == Len(liquid[i].txs)
           b == Len(Best.txs)
<1>1. /\ n \in Nat \ {0} /\ DOMAIN liquid = 1..n /\ n \in 1..n /\ Best = liquid[n] /\ i <= n
      /\ liquid[i].txs \in Seq(Tx) /\ Best.txs \in Seq(Tx)
  BY VersionTypes
<1>2. /\ a \in Nat /\ b \in Nat /\ a <= b /\ DOMAIN Best.txs = 1..b /\ DOMAIN liquid[i].txs = 1..a
      /\ \A p \in 1..a : Best.txs[p] = liquid[i].txs[p]
  <2>1. a \in Nat /\ b \in Nat /\ DOMAIN Best.txs = 1..b /\ DOMAIN liquid[i].txs = 1..a
    BY <1>1
  <2>2. n \in DOMAIN liquid /\ i <= n
    BY <1>1
  <2>3. a <= b /\ \A p \in 1..a : Best.txs[p] = liquid[i].txs[p]
    BY <1>1, <2>2 DEF GrowInv, GrowOf
  <2> QED
    BY <2>1, <2>3
<1>3. \A p \in 1..b : p \in 1..a \/ a < p
  BY <1>2
<1>4. \A p \in 1..a : p \in 1..b
  BY <1>2
<1> HIDE DEF a, b
<1>5. \A t : t \in ToSet(liquid[i].txs) <=> \E p \in 1..a : Best.txs[p] = t
  BY <1>2 DEF ToSet
<1>6. \A t : t \in ToSet(Best.txs) <=> \E p \in 1..b : Best.txs[p] = t
  BY <1>2 DEF ToSet
<1>7. \A t : t \in TxsAfter(i) <=> \E p \in 1..b : a < p /\ Best.txs[p] = t
  BY LaterTxs DEF a, b
<1>8. ToSet(Best.txs) = ToSet(liquid[i].txs) \cup TxsAfter(i)
  BY <1>3, <1>4, <1>5, <1>6, <1>7
<1>9. ASSUME EveryTxApplies, NEW p \in 1..a, NEW q \in 1..b, a < q, Best.txs[p] = Best.txs[q]
      PROVE  FALSE
  <2>1. Applies(Recorded(Len(chain)), Best.txs)
    BY <1>1, <1>9 DEF EveryTxApplies
  <2>2. q \in DOMAIN Best.txs /\ p \in 1..(q - 1)
    BY <1>2, <1>9
  <2> QED
    BY <1>9, <2>1, <2>2 DEF Applies
<1>10. EveryTxApplies => ToSet(liquid[i].txs) \cap TxsAfter(i) = {}
  <2> SUFFICES ASSUME EveryTxApplies, NEW t \in ToSet(liquid[i].txs), t \in TxsAfter(i)
               PROVE  FALSE
    OBVIOUS
  <2>1. PICK p \in 1..a : Best.txs[p] = t
    BY <1>5
  <2>2. PICK q \in 1..b : a < q /\ Best.txs[q] = t
    BY <1>7
  <2> QED
    BY <1>9, <2>1, <2>2
<1> QED
  BY <1>8, <1>10

\* What hardening the version i discards
LEMMA DiscardedIs ==
  ASSUME TypeOK, AgesInv, NEW id \in Id, NEW i \in DOMAIN liquid, Extends(id, i)
  PROVE  Discarded(id) = TxsAfter(i)
<1>1. ~BeatsLiquid(id)
  BY DEF Extends, BeatsLiquid
<1>2. \A j \in DOMAIN liquid : Extends(id, j) => j = i
  <2> SUFFICES ASSUME NEW j \in DOMAIN liquid, liquid[j].id = liquid[i].id PROVE j = i
    BY DEF Extends
  <2>1. i \in Nat /\ j \in Nat /\ Age[liquid[i].id] \in Nat
    BY AgeTypes DEF TypeOK
  <2>2. ~(i < j) /\ ~(j < i)
    BY <2>1 DEF AgesInv, AgesOf
  <2> QED
    BY <2>1, <2>2
<1>3. DOMAIN liquid = 1..Len(liquid) /\ Len(liquid) \in Nat
  BY DEF TypeOK
<1>4. \A k \in DOMAIN liquid : (\E j \in 1..(k - 1) : Extends(id, j)) <=> i < k
  <2> SUFFICES ASSUME NEW k \in DOMAIN liquid
               PROVE  (\E j \in 1..(k - 1) : Extends(id, j)) <=> i < k
    OBVIOUS
  <2>1. \A j \in 1..(k - 1) : j \in DOMAIN liquid
    BY <1>3
  <2>2. i < k <=> i \in 1..(k - 1)
    BY <1>3
  <2> QED
    BY <1>2, <2>1, <2>2
<1>5. {k \in DOMAIN liquid : \E j \in 1..(k - 1) : Extends(id, j)} = {k \in DOMAIN liquid : i < k}
  BY <1>4
<1> QED
  BY <1>1, <1>5 DEF Discarded, TxsAfter

\* The transactions on the chain after a block
LEMMA ProcessedTxs ==
  ASSUME TypeOK, NEW id \in Id, ProcessBlock(id)
  PROVE  \/ /\ ExtendsPersisted(id) \/ BeatsLiquid(id) \/ IsLongerVersion(id)
            /\ ViewTxs' = Recorded(Len(chain)) \cup ToSet(Content[id])
            /\ Applies(Recorded(Len(chain)), Content[id])
         \/ \E i \in DOMAIN liquid :
              /\ Extends(id, i)
              /\ ViewTxs' = Recorded(Len(chain)) \cup ToSet(liquid[i].txs) \cup ToSet(Content[id])
<1>1. PersistedCarry \in Nat
  BY ViewType DEF ViewOK, DataOK, TypeOK
<1>2. CASE OnPersisted(id) /\ (ExtendsPersisted(id) \/ BeatsLiquid(id) \/ IsLongerVersion(id))
  <2>1. Recorded(Len(chain))' = Recorded(Len(chain))
    BY <1>2 DEF OnPersisted, Recorded
  <2>2. liquid' # <<>> /\ Best'.txs = Content[id]
    BY <1>1, <1>2, BecomeLiquidEffect DEF OnPersisted
  <2> QED
    BY <1>2, <2>1, <2>2 DEF ViewTxs, OnPersisted, ValidAfter
<1>3. ASSUME NEW i \in DOMAIN liquid, liquid[i] \in Version, Extends(id, i),
             BecomeLiquid(id, liquid[i].carry), Harden(liquid[i])
      PROVE  ViewTxs' = Recorded(Len(chain)) \cup ToSet(liquid[i].txs) \cup ToSet(Content[id])
  <2>1. Recorded(Len(chain))' = Recorded(Len(chain)) \cup ToSet(liquid[i].txs)
    <3>1. /\ Len(chain') = Len(chain) + 1 /\ Len(chain) \in Nat
          /\ \A h \in 1..Len(chain) : chain'[h] = chain[h]
          /\ chain'[Len(chain) + 1].txs = liquid[i].txs
      BY <1>3, HardenEffect DEF TypeOK
    <3>2. Recorded(Len(chain))' = TxsUpTo(chain', Len(chain) + 1)
      BY <3>1 DEF Recorded, TxsUpTo
    <3>3. TxsUpTo(chain', Len(chain) + 1)
            = TxsUpTo(chain', Len(chain)) \cup ToSet(chain'[Len(chain) + 1].txs)
      BY <3>1, TxsNext
    <3>4. TxsUpTo(chain', Len(chain)) = Recorded(Len(chain))
      BY <3>1, TxsSame, RecordedIs
    <3> QED
      BY <3>1, <3>2, <3>3, <3>4
  <2>2. liquid' # <<>> /\ Best'.txs = Content[id]
    BY <1>3, BecomeLiquidEffect DEF Version
  <2> QED
    BY <2>1, <2>2 DEF ViewTxs
<1> QED
  BY <1>2, <1>3, ProcessBlockCases

\* What a block drops is discarded, ...
LEMMA DroppedStep ==
  ASSUME TypeOK, GrowInv, AgesInv, NEW id \in Id, ProcessBlock(id), RepeatsReplaced(id)
  PROVE  ViewTxs \ ViewTxs' \subseteq Discarded(id)
<1>1. CASE /\ ExtendsPersisted(id) \/ BeatsLiquid(id) \/ IsLongerVersion(id)
           /\ ViewTxs' = Recorded(Len(chain)) \cup ToSet(Content[id])
  <2>1. CASE liquid = <<>>
    BY <1>1, <2>1 DEF ViewTxs
  <2>2. CASE liquid # <<>> /\ BeatsLiquid(id)
    BY <1>1, <2>2 DEF ViewTxs, Discarded
  <2>3. CASE liquid # <<>> /\ IsLongerVersion(id)
    BY <1>1, <2>3 DEF ViewTxs, RepeatsReplaced
  <2> QED
    BY <1>1, <2>1, <2>2, <2>3 DEF ExtendsPersisted
<1>2. ASSUME NEW i \in DOMAIN liquid, Extends(id, i),
             ViewTxs' = Recorded(Len(chain)) \cup ToSet(liquid[i].txs) \cup ToSet(Content[id])
      PROVE  ViewTxs \ ViewTxs' \subseteq Discarded(id)
  <2>1. ToSet(Best.txs) = ToSet(liquid[i].txs) \cup TxsAfter(i) /\ Discarded(id) = TxsAfter(i)
    BY <1>2, SplitTxs, DiscardedIs
  <2> QED
    BY <1>2, <2>1 DEF ViewTxs
<1> QED
  BY <1>1, <1>2, ProcessedTxs

\* ... and what is discarded is dropped, but for what the block has again.
LEMMA ReturnedStep ==
  ASSUME TypeOK, GrowInv, AgesInv, EveryTxApplies, NEW id \in Id, ProcessBlock(id),
         RepeatsReplaced(id)
  PROVE  ViewTxs \ ViewTxs' = Discarded(id) \ ToSet(Content[id])
<1>1. ToSet(Content[id]) \subseteq ViewTxs'
  BY ProcessedTxs
<1>2. ASSUME liquid # <<>>
      PROVE  ToSet(Best.txs) \cap Recorded(Len(chain)) = {}
  <2>1. Best = liquid[Len(liquid)] /\ Len(liquid) \in DOMAIN liquid
    BY <1>2 DEF TypeOK, Best, Last
  <2>2. Applies(Recorded(Len(chain)), Best.txs)
    BY <2>1 DEF EveryTxApplies
  <2> QED
    BY <2>2 DEF Applies, ToSet
<1>3. CASE /\ ExtendsPersisted(id) \/ BeatsLiquid(id) \/ IsLongerVersion(id)
           /\ ViewTxs' = Recorded(Len(chain)) \cup ToSet(Content[id])
  <2>1. CASE BeatsLiquid(id)
    <3>1. liquid # <<>> /\ Discarded(id) = ToSet(Best.txs)
      BY <2>1 DEF BeatsLiquid, SameParent, Discarded
    <3> QED
      BY <1>2, <1>3, <3>1 DEF ViewTxs
  <2>2. CASE ~BeatsLiquid(id)
    <3>1. \A i \in DOMAIN liquid : ~Extends(id, i)
      BY <1>3, <2>2 DEF ExtendsPersisted, IsLongerVersion, Extends
    <3>2. \A k \in DOMAIN liquid : \A i \in 1..(k - 1) : i \in DOMAIN liquid
      BY DEF TypeOK
    <3>3. Discarded(id) = {}
      BY <2>2, <3>1, <3>2 DEF Discarded
    <3> QED
      BY <3>3, DroppedStep
  <2> QED
    BY <2>1, <2>2
<1>4. ASSUME NEW i \in DOMAIN liquid, Extends(id, i),
             ViewTxs' = Recorded(Len(chain)) \cup ToSet(liquid[i].txs) \cup ToSet(Content[id])
      PROVE  ViewTxs \ ViewTxs' = Discarded(id) \ ToSet(Content[id])
  <2>1. /\ ToSet(Best.txs) = ToSet(liquid[i].txs) \cup TxsAfter(i) /\ Discarded(id) = TxsAfter(i)
        /\ ToSet(liquid[i].txs) \cap TxsAfter(i) = {}
    BY <1>4, SplitTxs, DiscardedIs
  <2>2. liquid # <<>>
    BY <1>4
  <2> QED
    BY <1>2, <1>4, <2>1, <2>2 DEF ViewTxs
<1> QED
  BY <1>3, <1>4, ProcessedTxs

\* The transactions that a block drops from the chain are exactly those that are
\* returned to the caller, without those that the block has again, whichever
\* version the block extends or whichever block it replaces.
THEOREM DroppedReturned == Spec => DroppedAreReturned
<1> DEFINE Returned == \A id \in Id : ProcessBlock(id) /\ RepeatsReplaced(id) =>
                          ViewTxs \ ViewTxs' = Discarded(id) \ ToSet(Content[id])
<1>1. TypeOK /\ GrowInv /\ AgesInv /\ EveryTxApplies /\ [Next]_vars => [Returned]_vars
  BY ReturnedStep DEF vars
<1>2. Spec => [][Returned]_vars
  BY <1>1, TypeCorrect, GrowCorrect, AgesCorrect, TxsCorrect, PTL DEF Spec
<1> QED
  BY <1>2 DEF DroppedAreReturned

\* A block with the header of the liquid block competes with it and is no better.
LEMMA SameHeader ==
  ASSUME TypeOK, GrowInv, NEW id \in Id, NEW i \in DOMAIN liquid, SignaturesValid(liquid[i]),
         liquid[i].id = id
  PROVE  /\ SameParent(id) /\ ~HasBetterScore(id)
         /\ ~(Len(Content[id]) > Len(Best.txs))
<1>1. HeaderOf[id] = HeaderOf[Base.id] /\ Content[id] = liquid[i].txs /\ liquid # <<>>
  BY DEF SignaturesValid, Base
<1>2. SameParent(id)
  BY <1>1 DEF SameParent, Ref
<1>3. HeaderOf[id] \in Header /\ Score[HeaderOf[id]] \in Nat
  BY IdAssumption
<1>4. ~HasBetterScore(id)
  BY <1>1, <1>3 DEF HasBetterScore
<1>5. /\ Best = liquid[Len(liquid)] /\ Len(liquid) \in DOMAIN liquid /\ i <= Len(liquid)
      /\ liquid[i] \in Version /\ Best \in Version
  BY <1>1 DEF TypeOK, Best, Last
<1>6. Len(liquid[i].txs) <= Len(Best.txs)
  BY <1>5 DEF GrowInv, GrowOf
<1>7. Len(liquid[i].txs) \in Nat /\ Len(Best.txs) \in Nat
  BY <1>5 DEF Version
<1> QED
  BY <1>1, <1>2, <1>4, <1>6, <1>7

\* No block that the chain has, persisted or as a signed version of the liquid
\* block, is applied again, whatever has happened since it was.
THEOREM AppliedTwice == Spec => NothingAppliedTwice
<1> DEFINE Once == \A id \in Id : ProcessBlock(id) =>
                      /\ id \notin PersistedIds
                      /\ \A i \in DOMAIN liquid : SignaturesValid(liquid[i]) => liquid[i].id # id
<1>1. ASSUME TypeOK, Linked, GrowInv, AgesInv, NEW id \in Id, ProcessBlock(id)
      PROVE  /\ id \notin PersistedIds
             /\ \A i \in DOMAIN liquid : SignaturesValid(liquid[i]) => liquid[i].id # id
  <2>1. Age[id] \in Nat
    BY AgeAssumption
  <2>2. ASSUME NEW h \in DOMAIN chain, chain[h].id = id
        PROVE  FALSE
    <3>1. CASE ExtendsPersisted(id) \/ BeatsLiquid(id) \/ IsLongerVersion(id)
      <4>1. chain # <<>> => Ref(id) = Last(chain).id
        BY <1>1, <3>1 DEF ExtendsPersisted, BeatsLiquid, IsLongerVersion, SameParent, Linked
      <4>2. Age[chain[h].id] < Age[id]
        BY <1>1, <4>1, YoungerThanChain
      <4> QED
        BY <2>1, <2>2, <4>2
    <3>2. ASSUME NEW i \in DOMAIN liquid, Extends(id, i) PROVE FALSE
      <4>1. Ref(id) = liquid[i].id /\ liquid[i].id \in Id /\ Age[liquid[i].id] \in Nat
        BY <1>1, <3>2, AgeTypes DEF Extends
      <4>2. Age[chain[h].id] < Age[liquid[i].id] /\ Age[liquid[i].id] < Age[id]
        BY <1>1, <4>1, RefIsOlder DEF AgesInv, AgesOf
      <4> QED
        BY <2>1, <2>2, <4>1, <4>2
    <3> QED
      BY <1>1, <3>1, <3>2, ProcessBlockCases
  <2>3. ASSUME NEW i \in DOMAIN liquid, SignaturesValid(liquid[i]), liquid[i].id = id
        PROVE  FALSE
    <3>1. /\ SameParent(id) /\ ~HasBetterScore(id) /\ ~(Len(Content[id]) > Len(Best.txs))
      BY <1>1, <2>3, SameHeader
    <3>2. liquid # <<>>
      BY <2>3
    <3> QED
      BY <1>1, <3>1, <3>2, ProcessBlockCases DEF ExtendsPersisted, BeatsLiquid, IsLongerVersion, Extends
  <2> QED
    BY <2>2, <2>3 DEF PersistedIds
<1>2. TypeOK /\ Linked /\ GrowInv /\ AgesInv /\ [Next]_vars => [Once]_vars
  BY <1>1 DEF vars
<1>3. Spec => [][Once]_vars
  BY <1>2, TypeCorrect, ChainLinked, GrowCorrect, AgesCorrect, PTL DEF Spec
<1> QED
  BY <1>3 DEF NothingAppliedTwice

HIDE GenesisAssumption
HIDE ParameterAssumption
HIDE MicroBlockAssumption
HIDE IdAssumption

-----------------------------------------------------------------------------
(* The appenders are the callers of the updater: types, and their steps as steps *)
(* of the updater.                                                         *)

Block == [id : Id, txs : Seq(Tx)]

Task == [pc : {"idle", "apply", "restore", "reapply", "thrown"}, todo : Seq(Id),
         common : Id \cup {NoId}, dropped : Seq(Block),
         start : [headers : Seq(Header), score : Nat, txs : SUBSET Tx]]

AppenderTypeOK ==
  /\ utx \subseteq Tx
  /\ task \in Task
  /\ task.pc # "idle" => task.common \in Id

AppenderTypes == TypeOK /\ AppenderTypeOK

\* The new blocks of an extension are consecutive blocks, too.
LEMMA NewBlocksOf ==
  ASSUME NEW e \in Extensions
  PROVE  LET new == NewBlocks(e)
         IN  /\ new \in Seq(Id) /\ Len(new) <= MaxRollback
             /\ \A i \in 2..Len(new) : Ref(new[i]) = new[i - 1]
<1> DEFINE T(id) == ~ContainsBlock(id)
           k == SelectInSeq(e, LAMBDA id : ~ContainsBlock(id))
<1>1. e \in Seq(Id) /\ Len(e) \in Nat /\ Len(e) <= MaxRollback
      /\ \A i \in 2..Len(e) : Ref(e[i]) = e[i - 1]
  BY AppenderAssumption
<1>2. k \in 0..Len(e)
  <2> DEFINE I == {i \in 1..Len(e) : ~ContainsBlock(e[i])}
  <2>1. k = IF I # {} THEN CHOOSE x \in I : \A y \in I : x <= y ELSE 0
    BY DEF SelectInSeq, Min
  <2>2. I # {} => \E x \in I : \A y \in I : x <= y
    <3>1. I \subseteq Nat
      OBVIOUS
    <3> HIDE DEF I
    <3> QED
      BY <3>1, NatLeast
  <2>3. I \subseteq 1..Len(e) /\ 0 \in 0..Len(e) /\ 1..Len(e) \subseteq 0..Len(e)
    BY <1>1
  <2> HIDE DEF I, k
  <2>4. CASE I = {}
    BY <2>1, <2>3, <2>4
  <2>5. CASE I # {}
    <3> DEFINE m == CHOOSE x \in I : \A y \in I : x <= y
    <3>1. m \in I
      BY <2>2, <2>5
    <3>2. k = m
      BY <2>1, <2>5
    <3> QED
      BY <2>3, <3>1, <3>2
  <2> QED
    BY <2>4, <2>5
<1> HIDE DEF k
<1>3. NewBlocks(e) = IF k = 0 THEN <<>> ELSE SubSeq(e, k, Len(e))
  BY DEF NewBlocks, k
<1>4. CASE k = 0
  BY <1>3, <1>4, ParameterAssumption
<1>5. CASE k # 0
  <2> DEFINE new == SubSeq(e, k, Len(e))
  <2>1. k \in 1..Len(e)
    BY <1>2, <1>5
  <2>2. /\ new \in Seq(Id) /\ Len(new) = Len(e) - k + 1
        /\ \A i \in 1..(Len(e) - k + 1) : new[i] = e[k + i - 1]
    BY <1>1, <2>1
  <2> HIDE DEF new
  <2>3. ASSUME NEW i \in 2..Len(new)
        PROVE  Ref(new[i]) = new[i - 1]
    <3>1. /\ i \in 1..(Len(e) - k + 1) /\ i - 1 \in 1..(Len(e) - k + 1)
          /\ k + i - 1 \in 2..Len(e) /\ k + (i - 1) - 1 = (k + i - 1) - 1
      BY <1>1, <2>1, <2>2
    <3>2. new[i] = e[k + i - 1] /\ new[i - 1] = e[(k + i - 1) - 1]
      BY <2>2, <3>1, Zenon
    <3> QED
      BY <1>1, <3>1, <3>2
  <2>4. Len(new) <= MaxRollback
    BY <1>1, <2>1, <2>2, ParameterAssumption
  <2> QED
    BY <1>3, <1>5, <2>2, <2>3, <2>4 DEF new
<1> QED
  BY <1>4, <1>5

\* What is known of a chain and its versions
LEMMA ElementTypes ==
  ASSUME TypeOK
  PROVE  /\ Len(chain) \in Nat /\ DOMAIN chain = 1..Len(chain)
         /\ Len(liquid) \in Nat /\ DOMAIN liquid = 1..Len(liquid)
         /\ \A h \in 1..Len(chain) : /\ chain[h].id \in Id /\ chain[h].txs \in Seq(Tx)
                                     /\ chain[h].score \in Nat
         /\ \A i \in 1..Len(liquid) : liquid[i].id \in Id /\ liquid[i].txs \in Seq(Tx)
         /\ liquid # <<>> => /\ Len(liquid) \in 1..Len(liquid) /\ 1 \in 1..Len(liquid)
                             /\ Best = liquid[Len(liquid)] /\ Base = liquid[1]
         /\ chain # <<>> => Len(chain) \in 1..Len(chain) /\ Last(chain) = chain[Len(chain)]
<1>1. /\ Len(chain) \in Nat /\ DOMAIN chain = 1..Len(chain)
      /\ Len(liquid) \in Nat /\ DOMAIN liquid = 1..Len(liquid)
      /\ \A h \in 1..Len(chain) : chain[h] \in Persisted
      /\ \A i \in 1..Len(liquid) : liquid[i] \in Version
      /\ liquid # <<>> => Len(liquid) \in 1..Len(liquid) /\ 1 \in 1..Len(liquid)
      /\ chain # <<>> => Len(chain) \in 1..Len(chain)
  BY DEF TypeOK
<1>2. /\ \A h \in 1..Len(chain) : /\ chain[h].id \in Id /\ chain[h].txs \in Seq(Tx)
                                  /\ chain[h].score \in Nat
      /\ \A i \in 1..Len(liquid) : liquid[i].id \in Id /\ liquid[i].txs \in Seq(Tx)
  BY <1>1 DEF Persisted, Version
<1>3. Best = liquid[Len(liquid)] /\ Base = liquid[1] /\ Last(chain) = chain[Len(chain)]
  BY DEF Best, Base, Last
<1> QED
  BY <1>1, <1>2, <1>3

LEMMA ContainedIsId ==
  ASSUME TypeOK, NEW id, ContainsBlock(id)
  PROVE  id \in Id
  BY ElementTypes DEF ContainsBlock, LiquidIds, PersistedIds

\* The height of a block on the chain
LEMMA HeightOfPersisted ==
  ASSUME TypeOK, NEW id \in PersistedIds
  PROVE  HeightOf(id) \in 1..Len(chain) /\ chain[HeightOf(id)].id = id
<1>1. HeightOf(id) \in DOMAIN chain /\ chain[HeightOf(id)].id = id
  BY DEF HeightOf, PersistedIds
<1> QED
  BY <1>1, ElementTypes

LEMMA ViewHeadersType ==
  ASSUME TypeOK
  PROVE  ViewHeaders \in Seq(Header) /\ Len(ViewHeaders) = Height /\ Height \in Nat
<1>1. \A h \in 1..Height : (IF h <= Len(chain) THEN chain[h].id ELSE Best.id) \in Id
  BY ElementTypes DEF Height
<1>2. Height \in Nat /\ HeaderOf \in [Id -> Header]
  BY ElementTypes, IdAssumption DEF Height
<1> HIDE DEF Height
<1>3. \A h \in 1..Height : HeaderOf[IF h <= Len(chain) THEN chain[h].id ELSE Best.id] \in Header
  BY <1>1, <1>2
<1>4. ViewHeaders \in [1..Height -> Header]
  BY <1>3 DEF ViewHeaders
<1> QED
  BY <1>2, <1>4

\* The removed blocks: those above the block on the chain, and the best version
LEMMA RemovedIs ==
  ASSUME TypeOK, NEW id \in PersistedIds
  PROVE  LET hc == HeightOf(id)
             D == Removed(id)
         IN  /\ D \in Seq(Block) /\ Len(D) = Height - hc
             /\ \A i \in 1..(Len(chain) - hc) : /\ D[i].id = chain[hc + i].id
                                                /\ D[i].txs = chain[hc + i].txs
             /\ liquid # <<>> => /\ D[Len(chain) + 1 - hc].id = Best.id
                                 /\ D[Len(chain) + 1 - hc].txs = Best.txs
<1> DEFINE hc == HeightOf(id)
           n == Len(chain) - hc
           bl(v) == [id |-> v.id, txs |-> v.txs]
           A == [i \in 1..n |-> bl(chain[hc + i])]
<1>1. hc \in 1..Len(chain) /\ Len(chain) \in Nat /\ n \in Nat
  BY HeightOfPersisted, ElementTypes
<1>2. Removed(id) = IF liquid = <<>> THEN A ELSE Append(A, bl(Best))
  BY DEF Removed
<1>3. Height = Len(chain) + (IF liquid = <<>> THEN 0 ELSE 1)
  BY DEF Height
<1> HIDE DEF hc
<1>4. \A i \in 1..n : hc + i \in 1..Len(chain)
  BY <1>1
<1>5. \A i \in 1..n : bl(chain[hc + i]) \in Block
  BY <1>4, ElementTypes DEF Block
<1>6. A \in Seq(Block) /\ Len(A) = n /\ \A i \in 1..n : A[i] = bl(chain[hc + i])
  BY <1>1, <1>5
<1> HIDE DEF A
<1>7. CASE liquid = <<>>
  <2>1. \A i \in 1..n : A[i].id = chain[hc + i].id /\ A[i].txs = chain[hc + i].txs
    BY <1>6
  <2>2. Removed(id) = A /\ Height - hc = n
    BY <1>1, <1>2, <1>3, <1>7
  <2> QED
    BY <1>6, <1>7, <2>1, <2>2 DEF hc
<1>8. CASE liquid # <<>>
  <2>1. bl(Best) \in Block
    BY <1>8, ElementTypes DEF Block
  <2> DEFINE b == bl(Best)
             D == Append(A, b)
  <2>2. b.id = Best.id /\ b.txs = Best.txs /\ b \in Block
    BY <2>1
  <2> HIDE DEF b, n
  <2>3. D \in Seq(Block) /\ Len(D) = n + 1 /\ D[n + 1] = b /\ \A i \in 1..n : D[i] = A[i]
    BY <1>1, <1>6, <2>2
  <2> HIDE DEF D
  <2>4. \A i \in 1..n : D[i].id = chain[hc + i].id /\ D[i].txs = chain[hc + i].txs
    BY <1>6, <2>3
  <2>5. Removed(id) = D
    BY <1>2, <1>8 DEF D, b
  <2>6. n + 1 = Len(chain) + 1 - hc /\ Height - hc = n + 1
    BY <1>1, <1>3, <1>8 DEF n
  <2> QED
    BY <2>2, <2>3, <2>4, <2>5, <2>6 DEF hc, n
<1> QED
  BY <1>7, <1>8

TaskPc == {"idle", "apply", "restore", "reapply", "thrown"}

\* The fields of a task, and the tasks that differ from it in one
LEMMA TaskFields ==
  ASSUME NEW s \in Task
  PROVE  /\ s.pc \in TaskPc /\ s.todo \in Seq(Id) /\ s.dropped \in Seq(Block)
         /\ s.start.headers \in Seq(Header) /\ s.start.score \in Nat
         /\ s.start.txs \subseteq Tx
BY DEF Task, TaskPc

LEMMA TaskPcNext ==
  ASSUME NEW s \in Task, NEW pc \in TaskPc
  PROVE  LET x == [s EXCEPT !.pc = pc]
         IN  /\ x \in Task /\ x.pc = pc /\ x.todo = s.todo /\ x.common = s.common
             /\ x.dropped = s.dropped /\ x.start = s.start
BY DEF Task, TaskPc

LEMMA TaskTodoNext ==
  ASSUME NEW s \in Task, NEW todo \in Seq(Id)
  PROVE  LET x == [s EXCEPT !.todo = todo]
         IN  /\ x \in Task /\ x.pc = s.pc /\ x.todo = todo /\ x.common = s.common
             /\ x.dropped = s.dropped /\ x.start = s.start
BY DEF Task

LEMMA TaskStartNext ==
  ASSUME NEW s \in Task, NEW t
  PROVE  LET x == [s EXCEPT !.start.txs = @ \ {t}]
         IN  /\ x \in Task /\ x.pc = s.pc /\ x.todo = s.todo /\ x.common = s.common
             /\ x.dropped = s.dropped /\ x.start.headers = s.start.headers
             /\ x.start.score = s.start.score /\ x.start.txs = s.start.txs \ {t}
BY DEF Task

LEMMA TaskDroppedNext ==
  ASSUME NEW s \in Task, NEW D \in Seq(Block)
  PROVE  LET x == [s EXCEPT !.dropped = D]
         IN  /\ x \in Task /\ x.pc = s.pc /\ x.todo = s.todo /\ x.common = s.common
             /\ x.dropped = D /\ x.start = s.start
BY DEF Task

\* Elements of nonempty sequences
LEMMA HeadTail ==
  ASSUME NEW S, NEW s \in Seq(S), s # <<>>
  PROVE  /\ Head(s) = s[1] /\ Head(s) \in S /\ Tail(s) \in Seq(S)
         /\ Len(s) \in Nat \ {0} /\ Len(Tail(s)) = Len(s) - 1
         /\ \A i \in 1..(Len(s) - 1) : Tail(s)[i] = s[i + 1]
OBVIOUS

\* A step of the appenders is a step of the updater, or none.
LEMMA StepOfUpdater == AppenderTypes /\ [AppenderNext]_appenderVars => [Next]_vars
<1> SUFFICES ASSUME AppenderTypes, [AppenderNext]_appenderVars
             PROVE  [Next]_vars
  OBVIOUS
<1>1. ASSUME NEW id \in Id, BlockAppender(id) PROVE Next
  BY <1>1 DEF BlockAppender, AppendBlock, Next
<1>2. ASSUME NEW id \in Id, DebugRollback(id) PROVE [Next]_vars
  BY <1>2 DEF DebugRollback, Next
<1>3. ASSUME NEW m \in MicroBlock, MicroblockAppender(m) PROVE Next
  BY <1>3 DEF MicroblockAppender, Next
<1>4. ASSUME NEW e \in Extensions, ExtensionStart(e) PROVE [Next]_vars
  <2>1. Ref(Head(NewBlocks(e))) \in Id
    BY <1>4, ContainedIsId DEF ExtensionStart, AppenderTypes
  <2> QED
    BY <1>4, <2>1 DEF ExtensionStart, Next
<1>5. CASE ExtensionApply
  <2>1. Head(task.todo) \in Id
    BY <1>5, TaskFields, HeadTail DEF ExtensionApply, AppenderTypes, AppenderTypeOK
  <2> QED
    BY <1>5, <2>1 DEF ExtensionApply, AppendBlock, Next
<1>6. CASE ExtensionRestore
  <2>1. task.common \in Id
    BY <1>6 DEF ExtensionRestore, AppenderTypes, AppenderTypeOK
  <2> QED
    BY <1>6, <2>1 DEF ExtensionRestore, Next
<1>7. CASE ExtensionReapply
  <2>1. Head(task.dropped).id \in Id
    <3>1. Head(task.dropped) \in Block
      BY <1>7, TaskFields, HeadTail DEF ExtensionReapply, AppenderTypes, AppenderTypeOK
    <3> QED
      BY <3>1 DEF Block
  <2> QED
    BY <1>7, <2>1 DEF ExtensionReapply, Next
<1>8. CASE ExtensionDecline \/ ExtensionDone \/ ExtensionFailed
  BY <1>8 DEF ExtensionDecline, ExtensionDone, ExtensionFailed
<1>9. ASSUME NEW t \in Tx, CheckTx(t) \/ PutTx(t) \/ JudgeTx(t) \/ RemoveStale(t) PROVE UNCHANGED vars
  BY <1>9 DEF CheckTx, PutTx, JudgeTx, RemoveStale
<1>10. ASSUME NEW id \in Id, Forget(id) PROVE UNCHANGED vars
  BY <1>10 DEF Forget
<1>11. CASE NodeRestart
  BY <1>11 DEF NodeRestart, Next
<1>12. CASE UNCHANGED appenderVars
  BY <1>12 DEF appenderVars
<1> QED
  BY <1>1, <1>2, <1>3, <1>4, <1>5, <1>6, <1>7, <1>8, <1>9, <1>10, <1>11, <1>12
     DEF AppenderNext, ExtensionStep

\* The transactions of a sequence of blocks, and those a block discards
LEMMA TxTypes ==
  ASSUME TypeOK, AppenderTypeOK
  PROVE  /\ ViewTxs \subseteq Tx
         /\ TxsOf(task.dropped) \subseteq Tx
         /\ \A id \in Id : Discarded(id) \subseteq Tx
<1>1. \A s \in Seq(Tx) : ToSet(s) \subseteq Tx
  BY DEF ToSet
<1>2. \A i \in DOMAIN task.dropped : task.dropped[i].txs \in Seq(Tx)
  <2>1. task.dropped \in Seq(Block)
    BY TaskFields DEF AppenderTypeOK
  <2>2. \A i \in DOMAIN task.dropped : task.dropped[i] \in Block
    BY <2>1
  <2> QED
    BY <2>2 DEF Block
<1>4. liquid # <<>> => ToSet(Best.txs) \subseteq Tx
  BY <1>1, ElementTypes
<1>5. Recorded(Len(chain)) \subseteq Tx
  BY <1>1, ElementTypes DEF Recorded
<1>6. \A id \in Id : Discarded(id) \subseteq Tx
  <2>1. ASSUME NEW j \in DOMAIN liquid, j - 1 \in DOMAIN liquid
        PROVE  ToSet(MicroTxs(j)) \subseteq Tx
    <3> DEFINE s == liquid[j].txs
               a == Len(liquid[j - 1].txs)
    <3>1. s \in Seq(Tx) /\ a \in Nat
      BY <2>1, VersionTypes
    <3> HIDE DEF s, a
    <3>2. SubSeq(s, a + 1, Len(s)) \in Seq(Tx)
      BY <3>1
    <3>3. MicroTxs(j) = SubSeq(s, a + 1, Len(s))
      BY DEF MicroTxs, s, a
    <3> QED
      BY <1>1, <3>2, <3>3
  <2>2. ASSUME NEW j \in DOMAIN liquid, NEW i \in 1..(j - 1)
        PROVE  j - 1 \in DOMAIN liquid
    BY VersionTypes
  <2>3. \A id \in Id : BeatsLiquid(id) => liquid # <<>>
    BY DEF BeatsLiquid, SameParent
  <2> QED
    BY <1>4, <2>1, <2>2, <2>3 DEF Discarded
<1>7. TxsOf(task.dropped) \subseteq Tx
  BY <1>1, <1>2 DEF TxsOf
<1> QED
  BY <1>4, <1>5, <1>6, <1>7 DEF ViewTxs

\* What an extension starts with
LEMMA StartTypes ==
  ASSUME TypeOK, AppenderTypeOK, NEW e \in Extensions, ExtensionStart(e)
  PROVE  task' \in Task /\ (task'.pc # "idle" => task'.common \in Id)
<1> DEFINE new == NewBlocks(e)
           common == Ref(Head(new))
           below == HeightOf(common) < Height
           D == IF below THEN Removed(common) ELSE <<>>
<1>1. new \in Seq(Id) /\ new # <<>> /\ common \in Id
  BY NewBlocksOf, ContainedIsId DEF ExtensionStart
<1>2. task' = IF below /\ ~CanRollBackTo(common) THEN Idle
              ELSE [pc |-> "apply", todo |-> new, common |-> common,
                    dropped |-> D, start |-> Snapshot]
  BY DEF ExtensionStart
<1>3. ~(below /\ ~CanRollBackTo(common)) => D \in Seq(Block)
  BY RemovedIs DEF CanRollBackTo
<1>4. Snapshot \in [headers : Seq(Header), score : Nat, txs : SUBSET Tx]
  <2>1. ViewHeaders \in Seq(Header) /\ ViewScore \in Nat
    BY ViewHeadersType, ViewType DEF ViewOK, DataOK, TypeOK
  <2>2. Independent(ViewTxs \cup utx) \subseteq Tx
    BY TxTypes DEF Independent, AppenderTypeOK
  <2> QED
    BY <2>1, <2>2 DEF Snapshot
<1>5. Idle \in Task /\ Idle.pc = "idle"
  BY DEF Idle, Task
<1> HIDE DEF new, common, below, D
<1>6. CASE below /\ ~CanRollBackTo(common)
  BY <1>2, <1>5, <1>6
<1>7. CASE ~(below /\ ~CanRollBackTo(common))
  BY <1>1, <1>2, <1>3, <1>4, <1>7 DEF Task
<1> QED
  BY <1>6, <1>7


LEMMA AppenderTypeStep ==
  AppenderTypes /\ [AppenderNext]_appenderVars => AppenderTypes'
<1> SUFFICES ASSUME AppenderTypes, [AppenderNext]_appenderVars
             PROVE  AppenderTypeOK'
  BY StepOfUpdater, TypeStep DEF AppenderTypes
<1>1. TypeOK /\ AppenderTypeOK
  BY DEF AppenderTypes
<1>2. /\ ViewTxs \subseteq Tx /\ TxsOf(task.dropped) \subseteq Tx
      /\ \A id \in Id : Discarded(id) \subseteq Tx
  BY <1>1, TxTypes
<1>3. /\ utx \subseteq Tx /\ task \in Task
      /\ task.pc # "idle" => task.common \in Id
      /\ task.pc \in TaskPc /\ task.todo \in Seq(Id) /\ task.dropped \in Seq(Block)
  BY <1>1, TaskFields DEF AppenderTypeOK
<1>4. ASSUME NEW id \in Id, AppendBlock(id) PROVE utx' \subseteq Tx
  BY <1>2, <1>3, <1>4 DEF AppendBlock
<1>5. ASSUME UNCHANGED task, utx' \subseteq Tx PROVE AppenderTypeOK'
  BY <1>3, <1>5 DEF AppenderTypeOK
<1>6. ASSUME task' \in Task, task'.common = task.common, task.pc # "idle", utx' \subseteq Tx
      PROVE  AppenderTypeOK'
  BY <1>3, <1>6 DEF AppenderTypeOK
<1>7. ASSUME NEW id \in Id, BlockAppender(id) \/ DebugRollback(id) \/ Forget(id)
      PROVE  AppenderTypeOK'
  BY <1>3, <1>4, <1>5, <1>7 DEF BlockAppender, DebugRollback, Forget
<1>8. ASSUME NEW m \in MicroBlock, MicroblockAppender(m)
      PROVE  AppenderTypeOK'
  BY <1>3, <1>5, <1>8 DEF MicroblockAppender
<1>9. ASSUME NEW e \in Extensions, ExtensionStart(e)
      PROVE  AppenderTypeOK'
  <2>1. utx' = utx
    BY <1>9 DEF ExtensionStart
  <2> QED
    BY <1>1, <1>3, <1>9, <2>1, StartTypes DEF AppenderTypeOK
<1>10. ASSUME task' = Idle, utx' \subseteq Tx PROVE AppenderTypeOK'
  BY <1>10 DEF AppenderTypeOK, Idle, Task
<1>11. CASE ExtensionApply
  <2>1. Head(task.todo) \in Id /\ Tail(task.todo) \in Seq(Id)
    BY <1>3, <1>11, HeadTail DEF ExtensionApply
  <2>2. task' = [task EXCEPT !.todo = Tail(task.todo)] /\ utx' \subseteq Tx /\ task.pc = "apply"
    BY <1>4, <1>11, <2>1 DEF ExtensionApply
  <2>3. task' \in Task /\ task'.common = task.common
    BY <1>3, <2>1, <2>2, TaskTodoNext
  <2> QED
    BY <1>6, <2>2, <2>3
<1>12. ASSUME NEW pc \in TaskPc, task.pc # "idle", task' = [task EXCEPT !.pc = pc], utx' = utx
       PROVE  AppenderTypeOK'
  BY <1>3, <1>6, <1>12, TaskPcNext
<1>13. CASE ExtensionDecline
  BY <1>12, <1>13 DEF ExtensionDecline, TaskPc
<1>14. CASE ExtensionDone
  BY <1>2, <1>3, <1>10, <1>14 DEF ExtensionDone
<1>15. CASE ExtensionRestore
  BY <1>12, <1>15 DEF ExtensionRestore, TaskPc
<1>16. CASE ExtensionReapply
  <2>1. Tail(task.dropped) \in Seq(Block) /\ task.pc = "reapply" /\ utx' = utx
    BY <1>3, <1>16, HeadTail DEF ExtensionReapply
  <2>2. CASE task' = [task EXCEPT !.dropped = Tail(task.dropped)]
    BY <1>3, <1>6, <2>1, <2>2, TaskDroppedNext
  <2>3. CASE task' = [task EXCEPT !.pc = "thrown"]
    BY <1>12, <2>1, <2>3 DEF TaskPc
  <2> QED
    BY <1>16, <2>2, <2>3 DEF ExtensionReapply
<1>17. CASE ExtensionFailed
  BY <1>3, <1>10, <1>17 DEF ExtensionFailed
<1>18. ASSUME NEW t \in Tx, CheckTx(t) \/ PutTx(t) \/ JudgeTx(t) \/ RemoveStale(t)
       PROVE  AppenderTypeOK'
  <2>1. CASE RemoveStale(t)
    BY <1>3, <2>1, TaskStartNext DEF RemoveStale, AppenderTypeOK
  <2> QED
    BY <1>3, <1>5, <1>18, <2>1 DEF CheckTx, PutTx, JudgeTx
<1>19. CASE NodeRestart
  BY <1>10, <1>19 DEF NodeRestart
<1>20. CASE UNCHANGED appenderVars
  BY <1>3, <1>5, <1>20 DEF appenderVars
<1> QED
  BY <1>7, <1>8, <1>9, <1>11, <1>13, <1>14, <1>15, <1>16, <1>17, <1>18, <1>19, <1>20
     DEF AppenderNext, ExtensionStep

\* The types of the pool and of the task, besides those of the updater
THEOREM AppenderTypeCorrect == AppenderSpec => []AppenderTypes
<1>1. AppenderInit => AppenderTypes
  <2> SUFFICES ASSUME AppenderInit PROVE AppenderTypes
    OBVIOUS
  <2>1. TypeOK
    BY TypeInit DEF AppenderInit
  <2>2. Idle \in Task /\ Idle.pc = "idle"
    BY DEF Idle, Task
  <2> QED
    BY <2>1, <2>2 DEF AppenderInit, AppenderTypes, AppenderTypeOK
<1> QED
  BY <1>1, AppenderTypeStep, PTL DEF AppenderSpec

\* Whatever the appenders, the extensions and the debug API do, the updater sees
\* calls it is specified for: what is proved of it holds beneath them.
THEOREM AppenderIsUpdater == AppenderSpec => Spec
<1>1. AppenderInit => Init
  BY DEF AppenderInit
<1> QED
  BY <1>1, StepOfUpdater, AppenderTypeCorrect, PTL DEF AppenderSpec, Spec

-----------------------------------------------------------------------------
(* A block on the last block of the chain.                                 *)

\* The last block is not a sibling of the liquid block.
LEMMA NotSameParent ==
  ASSUME TypeOK, AgesInv, NEW id \in Id, IsLastBlockId(Ref(id))
  PROVE  ~SameParent(id)
<1> SUFFICES ASSUME SameParent(id) PROVE FALSE
  OBVIOUS
<1>1. liquid # <<>> /\ Ref(id) = Ref(Base.id) /\ Ref(id) \in LiquidIds
  BY DEF SameParent, IsLastBlockId
<1>2. PICK i \in DOMAIN liquid : liquid[i].id = Ref(id)
  BY <1>1 DEF LiquidIds
<1>3. /\ 1 \in DOMAIN liquid /\ Base = liquid[1] /\ i \in Nat /\ 1 <= i
      /\ liquid[1].id \in Id /\ liquid[i].id \in Id
  BY <1>1, ElementTypes
<1>4. Age[liquid[1].id] \in Nat /\ Age[liquid[i].id] \in Nat
      /\ Age[Ref(Base.id)] < Age[Base.id]
  BY <1>1, <1>2, <1>3, AgeTypes, RefIsOlder
<1>5. i = 1 \/ Age[liquid[1].id] < Age[liquid[i].id]
  BY <1>3 DEF AgesInv, AgesOf
<1> QED
  BY <1>1, <1>2, <1>3, <1>4, <1>5

\* It competes with nothing: it is the first on the persisted chain, or hardens
\* the version it refers to.
LEMMA OnTop ==
  ASSUME TypeOK, AgesInv, NEW id \in Id, IsLastBlockId(Ref(id)), ProcessBlock(id)
  PROVE  /\ ~IsLongerVersion(id)
         /\ \/ /\ liquid = <<>> /\ chain # <<>> /\ Ref(id) = Last(chain).id
               /\ OnPersisted(id)
            \/ \E i \in DOMAIN liquid :
                 /\ liquid[i] \in Version
                 /\ Extends(id, i)
                 /\ ValidAfter(id, Recorded(Len(chain)) \cup ToSet(liquid[i].txs))
                 /\ BecomeLiquid(id, liquid[i].carry)
                 /\ Harden(liquid[i])
<1>1. ~SameParent(id)
  BY NotSameParent
<1>2. ~BeatsLiquid(id) /\ ~IsLongerVersion(id)
  BY <1>1 DEF BeatsLiquid, IsLongerVersion
<1>3. ExtendsPersisted(id) => liquid = <<>> /\ chain # <<>> /\ Ref(id) = Last(chain).id
  BY DEF ExtendsPersisted, IsLastBlockId, LiquidIds
<1> QED
  BY <1>2, <1>3, ProcessBlockCases

\* Whatever it takes the place of, a block that was processed is the liquid block.
LEMMA ProcessedIsLiquid ==
  ASSUME TypeOK, NEW id \in Id, ProcessBlock(id)
  PROVE  /\ liquid' # <<>> /\ LiquidIds' = {id}
         /\ Best'.id = id /\ Best'.txs = Content[id]
<1>1. PersistedCarry \in Nat
  BY ViewType DEF ViewOK, DataOK, TypeOK
<1>2. PICK carry \in Nat : BecomeLiquid(id, carry)
  BY <1>1, ProcessBlockCases DEF OnPersisted, Version
<1>3. /\ liquid' = <<FirstVersion(id, carry)>> /\ Best' = FirstVersion(id, carry)
      /\ Best'.txs = Content[id]
  BY <1>2, BecomeLiquidEffect
<1>4. FirstVersion(id, carry).id = id
  BY DEF FirstVersion
<1>5. LiquidIds' = {liquid'[i].id : i \in DOMAIN liquid'}
  BY DEF LiquidIds
<1>6. DOMAIN liquid' = {1} /\ liquid'[1] = FirstVersion(id, carry)
  BY <1>3
<1> QED
  BY <1>3, <1>4, <1>5, <1>6

-----------------------------------------------------------------------------
(* Switching to a fork loses no transaction.                               *)

\* IsLastBlockId of a chain c under versions l
LastOf(c, l, id) ==
  \/ \E i \in DOMAIN l : l[i].id = id
  \/ c # <<>> /\ l = <<>> /\ c[Len(c)].id = id

LEMMA LastOfIs == \A id : IsLastBlockId(id) <=> LastOf(chain, liquid, id)
BY DEF IsLastBlockId, LiquidIds, Last, LastOf

\* The blocks to do follow each other, and the first of them the last block.
OnTopOf(c, l, t) ==
  /\ \A i \in 2..Len(t.todo) : Ref(t.todo[i]) = t.todo[i - 1]
  /\ t.pc = "apply" /\ t.todo # <<>> => LastOf(c, l, Ref(Head(t.todo)))

OnTopInv == OnTopOf(chain, liquid, task)

\* An extension starts on the last block that it leaves.
LEMMA StartsOnTop ==
  ASSUME AppenderTypes, NEW e \in Extensions, ExtensionStart(e)
  PROVE  OnTopOf(chain', liquid', task')
<1> DEFINE new == NewBlocks(e)
           common == Ref(Head(new))
           below == HeightOf(common) < Height
<1>1. /\ TypeOK /\ new \in Seq(Id) /\ new # <<>> /\ common \in Id
      /\ \A i \in 2..Len(new) : Ref(new[i]) = new[i - 1]
  BY NewBlocksOf, ContainedIsId DEF ExtensionStart, AppenderTypes
<1>2. CASE below /\ ~CanRollBackTo(common)
  BY <1>2 DEF ExtensionStart, Idle, OnTopOf
<1>3. CASE below /\ CanRollBackTo(common)
  <2>1. task'.todo = new /\ RemoveAfter(common)
    BY <1>3 DEF ExtensionStart
  <2>2. liquid' = <<>> /\ chain' = SubSeq(chain, 1, HeightOf(common))
    BY <1>3, <2>1 DEF RemoveAfter
  <2>3. HeightOf(common) \in 1..Len(chain) /\ chain[HeightOf(common)].id = common
    BY <1>1, <1>3, HeightOfPersisted DEF CanRollBackTo
  <2> HIDE DEF common
  <2>4. /\ Len(chain') = HeightOf(common) /\ chain' # <<>>
        /\ chain'[HeightOf(common)] = chain[HeightOf(common)]
    BY <1>1, <2>2, <2>3 DEF TypeOK
  <2>5. LastOf(chain', liquid', common)
    BY <2>2, <2>3, <2>4 DEF LastOf
  <2> QED
    BY <1>1, <2>1, <2>5 DEF OnTopOf, common
<1>4. CASE ~below
  <2>1. task'.todo = new /\ chain' = chain /\ liquid' = liquid /\ ContainsBlock(common)
    BY <1>4 DEF ExtensionStart, vars
  <2>2. LastOf(chain, liquid, common)
    <3>1. CASE common \in LiquidIds
      BY <3>1 DEF LastOf, LiquidIds
    <3>2. CASE common \in PersistedIds
      <4>1. HeightOf(common) \in 1..Len(chain) /\ chain[HeightOf(common)].id = common
        BY <1>1, <3>2, HeightOfPersisted
      <4>2. /\ Len(chain) \in Nat /\ ~(HeightOf(common) < Height)
            /\ Height = Len(chain) + (IF liquid = <<>> THEN 0 ELSE 1)
        BY <1>1, <1>4, ElementTypes DEF Height
      <4> HIDE DEF common
      <4>3. liquid = <<>> /\ HeightOf(common) = Len(chain) /\ chain # <<>>
        BY <4>1, <4>2
      <4> QED
        BY <1>1, <4>1, <4>3, ElementTypes DEF LastOf
    <3> QED
      BY <2>1, <3>1, <3>2 DEF ContainsBlock
  <2> QED
    BY <1>1, <2>1, <2>2 DEF OnTopOf
<1> QED
  BY <1>2, <1>3, <1>4

LEMMA OnTopStep ==
  AppenderTypes /\ OnTopInv /\ [AppenderNext]_appenderVars => OnTopOf(chain', liquid', task')
<1> SUFFICES ASSUME AppenderTypes, OnTopInv, [AppenderNext]_appenderVars
             PROVE  OnTopOf(chain', liquid', task')
  OBVIOUS
<1>1. /\ TypeOK /\ task \in Task /\ task.todo \in Seq(Id) /\ task.dropped \in Seq(Block)
  BY TaskFields DEF AppenderTypes, AppenderTypeOK
<1>2. ASSUME task' = task, task.pc # "apply" \/ (chain' = chain /\ liquid' = liquid)
      PROVE  OnTopOf(chain', liquid', task')
  BY <1>2 DEF OnTopInv, OnTopOf
<1>3. ASSUME task' = Idle
      PROVE  OnTopOf(chain', liquid', task')
  BY <1>3 DEF Idle, OnTopOf
<1>4. ASSUME NEW pc \in TaskPc \ {"apply"}, task' = [task EXCEPT !.pc = pc]
      PROVE  OnTopOf(chain', liquid', task')
  BY <1>1, <1>4, TaskPcNext DEF OnTopInv, OnTopOf
<1>5. ASSUME NEW id \in Id, BlockAppender(id) \/ DebugRollback(id) \/ Forget(id)
      PROVE  OnTopOf(chain', liquid', task')
  BY <1>2, <1>5 DEF BlockAppender, DebugRollback, Forget, vars
<1>6. ASSUME NEW m \in MicroBlock, MicroblockAppender(m)
      PROVE  OnTopOf(chain', liquid', task')
  BY <1>2, <1>6 DEF MicroblockAppender
<1>7. ASSUME NEW e \in Extensions, ExtensionStart(e)
      PROVE  OnTopOf(chain', liquid', task')
  BY <1>7, StartsOnTop
<1>8. CASE ExtensionApply
  <2> DEFINE id == Head(task.todo)
             rest1 == Tail(task.todo)
  <2>1. /\ task' = [task EXCEPT !.todo = rest1] /\ ProcessBlock(id)
        /\ task.todo # <<>> /\ task.pc = "apply"
    BY <1>8 DEF ExtensionApply, AppendBlock
  <2>2. /\ id \in Id /\ rest1 \in Seq(Id) /\ id = task.todo[1]
        /\ Len(task.todo) \in Nat \ {0} /\ Len(rest1) = Len(task.todo) - 1
        /\ \A i \in 1..(Len(task.todo) - 1) : rest1[i] = task.todo[i + 1]
    BY <1>1, <2>1, HeadTail
  <2>3. LiquidIds' = {id}
    BY <1>1, <2>1, <2>2, ProcessedIsLiquid
  <2>4. \E i \in DOMAIN liquid' : liquid'[i].id = id
    BY <2>3 DEF LiquidIds
  <2>5. task'.todo = rest1 /\ task'.pc = "apply"
    BY <1>1, <2>1, <2>2, TaskTodoNext
  <2>6. \A i \in 2..Len(task.todo) : Ref(task.todo[i]) = task.todo[i - 1]
    BY DEF OnTopInv, OnTopOf
  <2> HIDE DEF id, rest1
  <2>7. ASSUME NEW i \in 2..Len(rest1)
        PROVE  Ref(rest1[i]) = rest1[i - 1]
    <3>1. /\ i \in 1..(Len(task.todo) - 1) /\ i - 1 \in 1..(Len(task.todo) - 1)
          /\ i + 1 \in 2..Len(task.todo) /\ (i + 1) - 1 = i /\ (i - 1) + 1 = i
      BY <2>2
    <3> QED
      BY <2>2, <2>6, <3>1
  <2>8. ASSUME rest1 # <<>>
        PROVE  Ref(Head(rest1)) = id
    <3>1. Head(rest1) = rest1[1] /\ Len(rest1) \in Nat \ {0}
      BY <2>2, <2>8, HeadTail
    <3>2. 1 \in 1..(Len(task.todo) - 1) /\ 1 + 1 \in 2..Len(task.todo) /\ (1 + 1) - 1 = 1
      <4> DEFINE n == Len(task.todo)
                 k == Len(rest1)
      <4>1. n \in Nat \ {0} /\ k = n - 1 /\ k \in Nat \ {0}
        BY <2>2, <3>1
      <4> HIDE DEF n, k
      <4>2. n >= 2 /\ n \in Nat
        BY <4>1
      <4>3. 1 \in 1..(n - 1) /\ 2 \in 2..n
        BY <4>2
      <4> QED
        BY <4>3 DEF n
    <3> QED
      BY <2>2, <2>6, <3>1, <3>2
  <2> QED
    BY <2>4, <2>5, <2>7, <2>8 DEF OnTopOf, LastOf
<1>9. CASE ExtensionDecline
  BY <1>4, <1>9 DEF ExtensionDecline, TaskPc
<1>10. CASE ExtensionRestore
  BY <1>4, <1>10 DEF ExtensionRestore, TaskPc
<1>11. CASE ExtensionReapply
  <2>1. CASE task' = [task EXCEPT !.dropped = Tail(task.dropped)]
    <3>1. Tail(task.dropped) \in Seq(Block) /\ task.pc = "reapply"
      BY <1>1, <1>11, HeadTail DEF ExtensionReapply
    <3> QED
      BY <1>1, <2>1, <3>1, TaskDroppedNext DEF OnTopInv, OnTopOf
  <2>2. CASE task' = [task EXCEPT !.pc = "thrown"]
    BY <1>4, <2>2 DEF TaskPc
  <2> QED
    BY <1>11, <2>1, <2>2 DEF ExtensionReapply
<1>12. CASE ExtensionDone \/ ExtensionFailed \/ NodeRestart
  BY <1>3, <1>12 DEF ExtensionDone, ExtensionFailed, NodeRestart
<1>13. ASSUME NEW t \in Tx, CheckTx(t) \/ PutTx(t) \/ JudgeTx(t) \/ RemoveStale(t)
       PROVE  OnTopOf(chain', liquid', task')
  <2>1. CASE RemoveStale(t)
    BY <1>1, <2>1, TaskStartNext DEF RemoveStale, OnTopInv, OnTopOf, vars
  <2> QED
    BY <1>2, <1>13, <2>1 DEF CheckTx, PutTx, JudgeTx, vars
<1>14. CASE UNCHANGED appenderVars
  BY <1>2, <1>14 DEF appenderVars, vars
<1> QED
  BY <1>5, <1>6, <1>7, <1>8, <1>9, <1>10, <1>11, <1>12, <1>13, <1>14
     DEF AppenderNext, ExtensionStep

LEMMA OnTopCorrect == AppenderSpec => []OnTopInv
<1>1. AppenderInit => OnTopInv
  BY DEF AppenderInit, Idle, OnTopInv, OnTopOf
<1>2. OnTopOf(chain', liquid', task') => OnTopInv'
  BY DEF OnTopInv
<1> QED
  BY <1>1, <1>2, OnTopStep, AppenderTypeCorrect, PTL DEF AppenderSpec

\* The transactions of the chain and of the best version
LEMMA ViewTxsIs ==
  ViewTxs = TxsUpTo(chain, Len(chain))
              \cup (IF liquid = <<>> THEN {} ELSE ToSet(liquid[Len(liquid)].txs))
BY RecordedIs DEF ViewTxs, Best, Last

\* What a rollback takes from the chain is in the blocks it returns.
LEMMA RemovedKeeps ==
  ASSUME TypeOK, NEW id \in Id, RemoveAfter(id), CanRollBackTo(id)
  PROVE  ViewTxs \subseteq ViewTxs' \cup TxsOf(Removed(id))
<1> DEFINE hc == HeightOf(id)
           n == Len(chain)
           D == Removed(id)
<1>1. hc \in 1..n /\ n \in Nat /\ id \in PersistedIds
  BY HeightOfPersisted, ElementTypes DEF CanRollBackTo
<1>2. liquid' = <<>> /\ chain' = SubSeq(chain, 1, hc)
  BY DEF RemoveAfter
<1>3. /\ D \in Seq(Block) /\ Len(D) = Height - hc
      /\ \A i \in 1..(n - hc) : D[i].txs = chain[hc + i].txs
      /\ liquid # <<>> => D[n + 1 - hc].txs = Best.txs
  BY <1>1, RemovedIs
<1>4. Height = n + (IF liquid = <<>> THEN 0 ELSE 1)
  BY DEF Height
<1> HIDE DEF hc, n, D
<1>5. /\ DOMAIN D = 1..(Height - hc) /\ Height \in {n, n + 1}
      /\ liquid # <<>> => Height = n + 1
  <2>1. DOMAIN D = 1..Len(D)
    BY <1>3
  <2>2. DOMAIN D = 1..(Height - hc)
    BY <1>3, <2>1, Zenon
  <2>3. Height \in {n, n + 1} /\ (liquid # <<>> => Height = n + 1)
    BY <1>1, <1>4
  <2> QED
    BY <2>2, <2>3
<1>6. /\ Len(chain') = hc /\ \A i \in 1..hc : chain'[i] = chain[i]
  BY <1>1, <1>2 DEF n, TypeOK
<1>7. ViewTxs' = TxsUpTo(chain', hc)
  BY <1>2, <1>6 DEF ViewTxs, Recorded, TxsUpTo
<1>8. ASSUME NEW t, NEW i \in 1..n, t \in ToSet(chain[i].txs)
      PROVE  t \in ViewTxs' \cup TxsOf(D)
  <2>1. CASE i \in 1..hc
    BY <1>6, <1>7, <1>8, <2>1 DEF TxsUpTo
  <2>2. CASE i \notin 1..hc
    <3>1. i - hc \in 1..(n - hc) /\ hc + (i - hc) = i /\ i - hc \in DOMAIN D
      BY <1>1, <1>5, <2>2
    <3>2. D[i - hc].txs = chain[i].txs
      BY <1>3, <3>1
    <3> QED
      BY <1>8, <3>1, <3>2 DEF TxsOf
  <2> QED
    BY <2>1, <2>2
<1>9. ASSUME NEW t, liquid # <<>>, t \in ToSet(Best.txs)
      PROVE  t \in TxsOf(D)
  <2>1. n + 1 - hc \in DOMAIN D
    BY <1>1, <1>5, <1>9
  <2> QED
    BY <1>3, <1>9, <2>1 DEF TxsOf
<1> QED
  BY <1>8, <1>9 DEF ViewTxs, Recorded, n, D

\* A transaction on the chain or in the pool that needs no other stays on the
\* one or in the other when a block is appended.
LEMMA AppendKeeps ==
  ASSUME TypeOK, GrowInv, AgesInv, NEW id \in Id, IsLastBlockId(Ref(id)), AppendBlock(id),
         NEW t \in ViewTxs \cup utx, Needs[t] = {}
  PROVE  t \in ViewTxs' \cup utx'
<1>1. ProcessBlock(id) /\ RepeatsReplaced(id)
  BY OnTop DEF AppendBlock, RepeatsReplaced
<1>2. utx' = (utx \ ToSet(Content[id])) \cup {x \in Discarded(id) : TxValid(x)'}
  BY DEF AppendBlock
<1>3. CASE t \in ViewTxs
  <2>1. t \in ViewTxs' \/ t \in Discarded(id)
    BY <1>1, <1>3, DroppedStep
  <2>2. t \notin ViewTxs' => TxValid(t)'
    BY DEF TxValid
  <2> QED
    BY <1>2, <2>1, <2>2
<1>4. CASE t \in utx
  <2>1. liquid' # <<>> /\ Best'.txs = Content[id]
    BY <1>1, ProcessedIsLiquid
  <2>2. ToSet(Content[id]) \subseteq ViewTxs'
    BY <2>1 DEF ViewTxs
  <2> QED
    BY <1>2, <1>4, <2>2
<1> QED
  BY <1>3, <1>4

\* While an extension is applied, no transaction that was there at its start and
\* needs no other is gone: it is on the chain, in the pool, or in a dropped block.
KeptOf(view, pool, t) ==
  t.pc = "apply" =>
    \A x \in t.start.txs : Needs[x] = {} /\ x \in view \cup pool \cup TxsOf(t.dropped)

KeptInv == KeptOf(ViewTxs, utx, task)

LEMMA StartKeeps ==
  ASSUME AppenderTypes, NEW e \in Extensions, ExtensionStart(e)
  PROVE  KeptOf(ViewTxs', utx', task')
<1> DEFINE common == Ref(Head(NewBlocks(e)))
           below == HeightOf(common) < Height
<1>1. TypeOK /\ common \in Id /\ utx' = utx
  BY ContainedIsId DEF ExtensionStart, AppenderTypes
<1>2. Snapshot.txs = Independent(ViewTxs \cup utx)
  BY DEF Snapshot
<1>3. CASE below /\ ~CanRollBackTo(common)
  BY <1>3 DEF ExtensionStart, Idle, KeptOf
<1>4. CASE below /\ CanRollBackTo(common)
  <2>1. task'.dropped = Removed(common) /\ task'.start = Snapshot /\ RemoveAfter(common)
    BY <1>4 DEF ExtensionStart
  <2>2. ViewTxs \subseteq ViewTxs' \cup TxsOf(Removed(common))
    BY <1>1, <1>4, <2>1, RemovedKeeps
  <2> QED
    BY <1>1, <1>2, <2>1, <2>2 DEF KeptOf, Independent
<1>5. CASE ~below
  <2>1. task'.start = Snapshot /\ UNCHANGED vars
    BY <1>5 DEF ExtensionStart
  <2>2. ViewTxs' = ViewTxs
    BY <2>1 DEF vars, ViewTxs, Recorded, Best
  <2> QED
    BY <1>1, <1>2, <2>1, <2>2 DEF KeptOf, Independent
<1> QED
  BY <1>3, <1>4, <1>5

LEMMA KeptStep ==
  AppenderTypes /\ GrowInv /\ AgesInv /\ OnTopInv /\ KeptInv /\ [AppenderNext]_appenderVars
    => KeptOf(ViewTxs', utx', task')
<1> SUFFICES ASSUME AppenderTypes, GrowInv, AgesInv, OnTopInv, KeptInv,
                    [AppenderNext]_appenderVars
             PROVE  KeptOf(ViewTxs', utx', task')
  OBVIOUS
<1>1. /\ TypeOK /\ task \in Task /\ task.todo \in Seq(Id) /\ task.dropped \in Seq(Block)
  BY TaskFields DEF AppenderTypes, AppenderTypeOK
<1>2. UNCHANGED vars => ViewTxs' = ViewTxs
  BY DEF vars, ViewTxs, Recorded, Best
<1>3. ASSUME task'.pc # "apply"
      PROVE  KeptOf(ViewTxs', utx', task')
  BY <1>3 DEF KeptOf
<1>4. ASSUME task' = task, task.pc = "idle"
      PROVE  KeptOf(ViewTxs', utx', task')
  BY <1>4 DEF KeptOf
<1>5. ASSUME task' = task, UNCHANGED vars, utx \subseteq utx'
      PROVE  KeptOf(ViewTxs', utx', task')
  BY <1>2, <1>5 DEF KeptInv, KeptOf
<1>6. ASSUME NEW id \in Id, BlockAppender(id) \/ DebugRollback(id) \/ Forget(id)
      PROVE  KeptOf(ViewTxs', utx', task')
  BY <1>4, <1>5, <1>6 DEF BlockAppender, DebugRollback, Forget
<1>7. ASSUME NEW m \in MicroBlock, MicroblockAppender(m)
      PROVE  KeptOf(ViewTxs', utx', task')
  BY <1>4, <1>7 DEF MicroblockAppender
<1>8. ASSUME NEW e \in Extensions, ExtensionStart(e)
      PROVE  KeptOf(ViewTxs', utx', task')
  BY <1>8, StartKeeps
<1>9. CASE ExtensionApply
  <2> DEFINE id == Head(task.todo)
  <2>1. /\ task' = [task EXCEPT !.todo = Tail(task.todo)] /\ AppendBlock(id)
        /\ task.todo # <<>> /\ task.pc = "apply"
    BY <1>9 DEF ExtensionApply
  <2>2. id \in Id /\ Tail(task.todo) \in Seq(Id)
    BY <1>1, <2>1, HeadTail
  <2>3. IsLastBlockId(Ref(id))
    BY <2>1, LastOfIs DEF OnTopInv, OnTopOf
  <2>4. task'.start = task.start /\ task'.dropped = task.dropped
    BY <1>1, <2>1, <2>2, TaskTodoNext
  <2> HIDE DEF id
  <2>5. \A x \in ViewTxs \cup utx : Needs[x] = {} => x \in ViewTxs' \cup utx'
    BY <1>1, <2>1, <2>2, <2>3, AppendKeeps
  <2> QED
    BY <2>1, <2>4, <2>5 DEF KeptInv, KeptOf
<1>10. CASE ExtensionDecline
  BY <1>1, <1>3, <1>10, TaskPcNext DEF ExtensionDecline, TaskPc
<1>11. CASE ExtensionRestore
  BY <1>1, <1>3, <1>11, TaskPcNext DEF ExtensionRestore, TaskPc
<1>12. CASE ExtensionReapply
  <2>1. Tail(task.dropped) \in Seq(Block) /\ task.pc = "reapply"
    BY <1>1, <1>12, HeadTail DEF ExtensionReapply
  <2>2. CASE task' = [task EXCEPT !.dropped = Tail(task.dropped)]
    BY <1>1, <1>3, <2>1, <2>2, TaskDroppedNext
  <2>3. CASE task' = [task EXCEPT !.pc = "thrown"]
    BY <1>1, <1>3, <2>3, TaskPcNext DEF TaskPc
  <2> QED
    BY <1>12, <2>2, <2>3 DEF ExtensionReapply
<1>13. CASE ExtensionDone \/ ExtensionFailed \/ NodeRestart
  BY <1>3, <1>13 DEF ExtensionDone, ExtensionFailed, NodeRestart, Idle
<1>14. ASSUME NEW t \in Tx, CheckTx(t) \/ PutTx(t) \/ JudgeTx(t)
       PROVE  KeptOf(ViewTxs', utx', task')
  BY <1>5, <1>14 DEF CheckTx, PutTx, JudgeTx
<1>15. ASSUME NEW t \in Tx, RemoveStale(t)
       PROVE  KeptOf(ViewTxs', utx', task')
  <2>1. /\ ViewTxs' = ViewTxs /\ utx' = utx \ {t} /\ task'.pc = task.pc
        /\ task'.dropped = task.dropped /\ task'.start.txs = task.start.txs \ {t}
    BY <1>1, <1>2, <1>15, TaskStartNext DEF RemoveStale
  <2> QED
    BY <2>1 DEF KeptInv, KeptOf
<1>16. CASE UNCHANGED appenderVars
  BY <1>5, <1>16 DEF appenderVars
<1> QED
  BY <1>6, <1>7, <1>8, <1>9, <1>10, <1>11, <1>12, <1>13, <1>14, <1>15, <1>16
     DEF AppenderNext, ExtensionStep

\* A transaction leaves the pool for the chain, with the node, or by a clean-up
\* that has judged it.
LEMMA PoolKeeps ==
  ASSUME AppenderTypes, GrowInv, AgesInv, OnTopInv, AppenderNext, NEW t \in utx, Needs[t] = {},
         t \notin ViewTxs' \cup utx'
  PROVE  t \in stale \/ NodeRestart
<1>1. TypeOK /\ task \in Task /\ task.todo \in Seq(Id)
  BY TaskFields DEF AppenderTypes, AppenderTypeOK
<1>2. ASSUME NEW id \in Id, BlockAppender(id) PROVE FALSE
  BY <1>1, <1>2, AppendKeeps DEF BlockAppender
<1>3. CASE ExtensionApply
  <2>1. Head(task.todo) \in Id /\ IsLastBlockId(Ref(Head(task.todo)))
    BY <1>1, <1>3, HeadTail, LastOfIs DEF ExtensionApply, OnTopInv, OnTopOf
  <2> QED
    BY <1>1, <1>3, <2>1, AppendKeeps DEF ExtensionApply
<1>4. ASSUME NEW m \in MicroBlock, MicroblockAppender(m) PROVE FALSE
  <2>1. Best'.txs = Best.txs \o m.txs /\ liquid' # <<>> /\ m.txs \in Seq(Tx) /\ Best.txs \in Seq(Tx)
    BY <1>1, <1>4, MicroBlockEffect DEF MicroblockAppender, Version
  <2>2. ToSet(m.txs) \subseteq ToSet(Best'.txs)
    <3>a. DOMAIN m.txs = 1..Len(m.txs)
      BY <2>1
    <3> SUFFICES ASSUME NEW i \in 1..Len(m.txs) PROVE m.txs[i] \in ToSet(Best'.txs)
      BY <3>a DEF ToSet
    <3>1. Len(Best.txs) + i \in DOMAIN (Best.txs \o m.txs)
          /\ (Best.txs \o m.txs)[Len(Best.txs) + i] = m.txs[i]
      <4> DEFINE b == Best.txs
                 x == m.txs
      <4>1. b \in Seq(Tx) /\ x \in Seq(Tx) /\ i \in 1..Len(x)
        BY <2>1
      <4> HIDE DEF b, x
      <4>2. Len(b) + i \in DOMAIN (b \o x) /\ (b \o x)[Len(b) + i] = x[i]
        BY <4>1
      <4> QED
        BY <4>2 DEF b, x
    <3> QED
      BY <2>1, <3>1 DEF ToSet
  <2>3. utx' = utx \ ToSet(m.txs)
    BY <1>4 DEF MicroblockAppender
  <2> QED
    BY <2>1, <2>2, <2>3 DEF ViewTxs
<1>5. ASSUME NEW id \in Id, DebugRollback(id) \/ Forget(id) PROVE FALSE
  BY <1>5 DEF DebugRollback, Forget
<1>6. ASSUME NEW e \in Extensions, ExtensionStart(e) PROVE FALSE
  BY <1>6 DEF ExtensionStart
<1>7. CASE ExtensionDecline \/ ExtensionDone \/ ExtensionRestore \/ ExtensionReapply \/ ExtensionFailed
  BY <1>7 DEF ExtensionDecline, ExtensionDone, ExtensionRestore, ExtensionReapply, ExtensionFailed
<1>8. ASSUME NEW x \in Tx, CheckTx(x) \/ PutTx(x) \/ JudgeTx(x) \/ RemoveStale(x)
      PROVE  t \in stale
  BY <1>8 DEF CheckTx, PutTx, JudgeTx, RemoveStale
<1> QED
  BY <1>2, <1>3, <1>4, <1>5, <1>6, <1>7, <1>8 DEF AppenderNext, ExtensionStep

\* A node that has moved to a fork, or hardened an earlier version of its liquid
\* block, has lost no transaction that needs no other: what it had on the chain
\* or in the pool is on the one or in the other, for every extension, unless a
\* clean-up has removed it that had judged it before.
THEOREM SwitchKept == AppenderSpec => SwitchKeepsTxs
<1> DEFINE Kept ==
      /\ ExtensionDone => task.start.txs \subseteq ViewTxs' \cup utx'
      /\ \A id \in Id : BlockAppender(id) =>
           Independent(ViewTxs \cup utx) \subseteq ViewTxs' \cup utx'
      /\ \A t \in Independent(utx) :
           t \notin ViewTxs' \cup utx' => t \in stale \/ NodeRestart
<1>1. AppenderInit => KeptInv
  BY DEF AppenderInit, Idle, KeptInv, KeptOf
<1>2. KeptOf(ViewTxs', utx', task') => KeptInv'
  BY DEF KeptInv
<1>3. AppenderSpec => []AgesInv /\ []GrowInv
  BY AppenderIsUpdater, AgesCorrect, GrowCorrect, PTL
<1>4. AppenderSpec => []KeptInv
  BY <1>1, <1>2, <1>3, KeptStep, OnTopCorrect, AppenderTypeCorrect, PTL DEF AppenderSpec
<1>5. ASSUME AppenderTypes, GrowInv, AgesInv, OnTopInv, KeptInv, AppenderNext
      PROVE  Kept
  <2>1. TypeOK
    BY <1>5 DEF AppenderTypes
  <2>2. ASSUME ExtensionDone
        PROVE  task.start.txs \subseteq ViewTxs' \cup utx'
    <3>1. /\ UNCHANGED vars /\ task.pc = "apply"
          /\ utx' = utx \cup {t \in TxsOf(task.dropped) : TxValid(t)}
      BY <2>2 DEF ExtensionDone
    <3>2. ViewTxs' = ViewTxs
      BY <3>1 DEF vars, ViewTxs, Recorded, Best
    <3> QED
      BY <1>5, <3>1, <3>2 DEF KeptInv, KeptOf, TxValid
  <2>3. ASSUME NEW id \in Id, BlockAppender(id)
        PROVE  Independent(ViewTxs \cup utx) \subseteq ViewTxs' \cup utx'
    <3>1. IsLastBlockId(Ref(id)) /\ AppendBlock(id)
      BY <2>3 DEF BlockAppender
    <3> QED
      BY <1>5, <2>1, <3>1, AppendKeeps DEF Independent
  <2>4. \A t \in Independent(utx) : t \notin ViewTxs' \cup utx' => t \in stale \/ NodeRestart
    BY <1>5, PoolKeeps DEF Independent
  <2> QED
    BY <2>2, <2>3, <2>4
<1>6. AppenderTypes /\ GrowInv /\ AgesInv /\ OnTopInv /\ KeptInv /\ [AppenderNext]_appenderVars
        => [Kept]_appenderVars
  BY <1>5
<1>7. AppenderSpec => [][Kept]_appenderVars
  BY <1>3, <1>4, <1>6, OnTopCorrect, AppenderTypeCorrect, PTL DEF AppenderSpec
<1> QED
  BY <1>7 DEF SwitchKeepsTxs

-----------------------------------------------------------------------------
(* Chains of ids that a node accepts from the first block on.              *)

Past(s, n) == UNION {ToSet(Content[s[j]]) : j \in 1..n}

\* A valid chain starts with a block that refers to nothing; the others refer to
\* the one before; each fits, and applies after those before.
ValidAt(s, i) ==
  /\ IF i = 1 THEN Ref(s[i]) = NoId ELSE Ref(s[i]) = s[i - 1]
  /\ Len(Content[s[i]]) <= MaxTxs
  /\ Applies(Past(s, i - 1), Content[s[i]])

ValidChain(s) == \A i \in 1..Len(s) : ValidAt(s, i)

LEMMA PastSame ==
  ASSUME NEW s, NEW t, NEW n \in Nat, \A j \in 1..n : s[j] = t[j]
  PROVE  Past(s, n) = Past(t, n)
BY DEF Past

LEMMA ValidAtSame ==
  ASSUME NEW s, NEW t, NEW i \in Nat \ {0}, \A j \in 1..i : s[j] = t[j], ValidAt(s, i)
  PROVE  ValidAt(t, i)
<1>1. i - 1 \in Nat /\ i \in 1..i /\ \A j \in 1..(i - 1) : j \in 1..i
      /\ (i # 1 => i - 1 \in 1..i)
  OBVIOUS
<1>2. Past(s, i - 1) = Past(t, i - 1)
  BY <1>1, PastSame
<1>3. s[i] = t[i] /\ (i # 1 => s[i - 1] = t[i - 1])
  BY <1>1
<1> QED
  BY <1>2, <1>3 DEF ValidAt

LEMMA ValidPrefix ==
  ASSUME NEW s \in Seq(Id), NEW n \in 0..Len(s), ValidChain(s)
  PROVE  /\ SubSeq(s, 1, n) \in Seq(Id) /\ Len(SubSeq(s, 1, n)) = n
         /\ \A i \in 1..n : SubSeq(s, 1, n)[i] = s[i]
         /\ ValidChain(SubSeq(s, 1, n))
<1> DEFINE p == SubSeq(s, 1, n)
<1>1. p \in Seq(Id) /\ Len(p) = n /\ n \in Nat /\ Len(s) \in Nat /\ \A i \in 1..n : p[i] = s[i]
  OBVIOUS
<1> HIDE DEF p
<1>2. ASSUME NEW i \in 1..n
      PROVE  ValidAt(p, i)
  <2>1. i \in 1..Len(s) /\ i \in Nat \ {0} /\ \A j \in 1..i : j \in 1..n
    BY <1>1
  <2>2. \A j \in 1..i : s[j] = p[j]
    BY <1>1, <2>1
  <2>3. ValidAt(s, i)
    BY <2>1 DEF ValidChain
  <2> QED
    BY <2>1, <2>2, <2>3, ValidAtSame
<1> QED
  BY <1>1, <1>2 DEF ValidChain, p

\* What is needed to append a block to a valid chain
Fitting(s, id) ==
  /\ IF s = <<>> THEN Ref(id) = NoId ELSE Ref(id) = s[Len(s)]
  /\ Len(Content[id]) <= MaxTxs
  /\ Applies(Past(s, Len(s)), Content[id])

LEMMA ValidAppend ==
  ASSUME NEW s \in Seq(Id), NEW id \in Id
  PROVE  ValidChain(Append(s, id)) <=> ValidChain(s) /\ Fitting(s, id)
<1> DEFINE n == Len(s)
           t == Append(s, id)
<1>1. /\ n \in Nat /\ t \in Seq(Id) /\ Len(t) = n + 1 /\ t[n + 1] = id
      /\ \A i \in 1..n : t[i] = s[i]
      /\ s = <<>> <=> n = 0
  OBVIOUS
<1> HIDE DEF n, t
<1>2. ValidAt(t, n + 1) <=> Fitting(s, id)
  <2>1. Past(t, n) = Past(s, n)
    BY <1>1, PastSame
  <2>2. (n + 1) - 1 = n /\ (n + 1 = 1 <=> n = 0) /\ (n # 0 => n \in 1..n)
    BY <1>1
  <2>3. n # 0 => t[n] = s[n]
    BY <1>1, <2>2
  <2> QED
    BY <1>1, <2>1, <2>2, <2>3 DEF ValidAt, Fitting, n
<1>3. \A i \in 1..n : ValidAt(t, i) <=> ValidAt(s, i)
  <2> SUFFICES ASSUME NEW i \in 1..n PROVE ValidAt(t, i) <=> ValidAt(s, i)
    OBVIOUS
  <2>1. i \in Nat \ {0} /\ \A j \in 1..i : j \in 1..n
    BY <1>1
  <2>2. \A j \in 1..i : t[j] = s[j] /\ s[j] = t[j]
    BY <1>1, <2>1
  <2> QED
    BY <2>1, <2>2, ValidAtSame
<1>4. 1..(n + 1) = (1..n) \cup {n + 1}
  BY <1>1
<1>5. ValidChain(t) <=> \A i \in 1..(n + 1) : ValidAt(t, i)
  BY <1>1 DEF ValidChain
<1>6. ValidChain(s) <=> \A i \in 1..n : ValidAt(s, i)
  BY DEF ValidChain, n
<1> QED
  BY <1>2, <1>3, <1>4, <1>5, <1>6 DEF t

LEMMA PastAppend ==
  ASSUME NEW s \in Seq(Id), NEW id \in Id
  PROVE  Past(Append(s, id), Len(s) + 1) = Past(s, Len(s)) \cup ToSet(Content[id])
<1> DEFINE n == Len(s)
           t == Append(s, id)
<1>1. n \in Nat /\ t[n + 1] = id /\ \A i \in 1..n : t[i] = s[i]
  OBVIOUS
<1> HIDE DEF n, t
<1>2. 1..(n + 1) = (1..n) \cup {n + 1}
  BY <1>1
<1>3. Past(t, n + 1) = Past(s, n) \cup ToSet(Content[id])
  BY <1>1, <1>2 DEF Past
<1> QED
  BY <1>3 DEF n, t

-----------------------------------------------------------------------------
(* The node's chain is a valid one, if generators sign their microblocks.  *)

\* The versions of the liquid block have one header, and the transactions that
\* their signatures cover.
VersionsOf(l) ==
  \A i \in DOMAIN l : HeaderOf[l[i].id] = HeaderOf[l[1].id] /\ Content[l[i].id] = l[i].txs

VersionsInv == VersionsOf(liquid)

\* The versions after a microblock
LEMMA MicroBlockVersions ==
  ASSUME TypeOK, NEW m \in MicroBlock, ProcessMicroBlock(m)
  PROVE  /\ chain' = chain /\ Len(liquid) \in Nat \ {0}
         /\ DOMAIN liquid = 1..Len(liquid) /\ Len(liquid') = Len(liquid) + 1
         /\ DOMAIN liquid' = 1..(Len(liquid) + 1)
         /\ \A i \in 1..Len(liquid) : liquid'[i] = liquid[i]
         /\ liquid'[Len(liquid) + 1].id = m.sig
         /\ liquid'[Len(liquid) + 1].txs = liquid[Len(liquid)].txs \o m.txs
         /\ liquid[Len(liquid)].id = m.prev
         /\ Generator[HeaderOf[liquid[1].id]] = m.sender
<1> DEFINE v == Best'
           n == Len(liquid)
<1>1. /\ liquid' = Append(liquid, v) /\ v.id = m.sig /\ v.txs = Best.txs \o m.txs
      /\ liquid # <<>>
  BY MicroBlockEffect
<1>2. Best = liquid[n] /\ Base = liquid[1]
  BY DEF Best, Base, Last
<1>3. Best.id = m.prev /\ Generator[HeaderOf[Base.id]] = m.sender /\ chain' = chain
  BY DEF ProcessMicroBlock
<1> HIDE DEF v
<1>4. liquid \in Seq(Version)
  BY DEF TypeOK
<1>5. /\ n \in Nat \ {0} /\ DOMAIN liquid = 1..n /\ Len(liquid') = n + 1
      /\ DOMAIN liquid' = 1..(n + 1) /\ liquid'[n + 1] = v
      /\ \A i \in 1..n : liquid'[i] = liquid[i]
  BY <1>1, <1>4
<1> HIDE DEF n
<1>6. liquid'[n + 1].id = m.sig /\ liquid'[n + 1].txs = liquid[n].txs \o m.txs
  BY <1>1, <1>2, <1>5
<1> QED
  BY <1>2, <1>3, <1>5, <1>6 DEF n

LEMMA VersionsStep ==
  ASSUME HonestMicroBlocks, TypeOK, VersionsInv, [Next]_vars
  PROVE  VersionsOf(liquid')
<1>1. ASSUME NEW id \in Id, NEW carry, liquid' = <<FirstVersion(id, carry)>>
      PROVE  VersionsOf(liquid')
  <2>1. \A i \in DOMAIN liquid' : i = 1
    BY <1>1
  <2>2. liquid'[1].id = id /\ liquid'[1].txs = Content[id]
    BY <1>1 DEF FirstVersion
  <2> QED
    BY <2>1, <2>2 DEF VersionsOf
<1>2. ASSUME NEW id \in Id, ProcessBlock(id)
      PROVE  VersionsOf(liquid')
  BY <1>1, <1>2, ProcessBlockCases DEF OnPersisted, BecomeLiquid
<1>3. ASSUME NEW m \in MicroBlock, ProcessMicroBlock(m)
      PROVE  VersionsOf(liquid')
  <2> DEFINE n == Len(liquid)
  <2>1. /\ n \in Nat \ {0} /\ DOMAIN liquid = 1..n
        /\ DOMAIN liquid' = 1..(n + 1) /\ liquid'[n + 1].id = m.sig
        /\ liquid'[n + 1].txs = liquid[n].txs \o m.txs
        /\ \A i \in 1..n : liquid'[i] = liquid[i]
        /\ Generator[HeaderOf[liquid[1].id]] = m.sender /\ liquid[n].id = m.prev
    BY <1>3, MicroBlockVersions
  <2> HIDE DEF n
  <2>2. 1 \in 1..n /\ n \in 1..n /\ \A i \in 1..(n + 1) : i \in 1..n \/ i = n + 1
    BY <2>1
  <2>3. HeaderOf[liquid[n].id] = HeaderOf[liquid[1].id] /\ Content[liquid[n].id] = liquid[n].txs
    BY <2>1, <2>2 DEF VersionsInv, VersionsOf
  <2>4. HeaderOf[m.sig] = HeaderOf[m.prev] /\ Content[m.sig] = Content[m.prev] \o m.txs
    BY <2>1, <2>3 DEF HonestMicroBlocks
  <2>5. liquid'[1] = liquid[1]
    BY <2>1, <2>2
  <2>6. /\ HeaderOf[liquid'[n + 1].id] = HeaderOf[liquid'[1].id]
        /\ Content[liquid'[n + 1].id] = liquid'[n + 1].txs
    BY <2>1, <2>3, <2>4, <2>5
  <2>7. ASSUME NEW i \in 1..n
        PROVE  HeaderOf[liquid'[i].id] = HeaderOf[liquid'[1].id]
               /\ Content[liquid'[i].id] = liquid'[i].txs
    <3>1. liquid'[i] = liquid[i]
      BY <2>1
    <3>2. HeaderOf[liquid[i].id] = HeaderOf[liquid[1].id] /\ Content[liquid[i].id] = liquid[i].txs
      BY <2>1 DEF VersionsInv, VersionsOf
    <3> QED
      BY <2>5, <3>1, <3>2
  <2>8. ASSUME NEW i \in DOMAIN liquid'
        PROVE  HeaderOf[liquid'[i].id] = HeaderOf[liquid'[1].id]
               /\ Content[liquid'[i].id] = liquid'[i].txs
    BY <2>1, <2>2, <2>6, <2>7
  <2> QED
    BY <2>8 DEF VersionsOf
<1>4. ASSUME liquid' = <<>>
      PROVE  VersionsOf(liquid')
  BY <1>4 DEF VersionsOf
<1>5. CASE Restart
  BY <1>1, <1>4, <1>5, IdAssumption DEF Restart, BecomeLiquid
<1>6. CASE UNCHANGED vars
  BY <1>6 DEF VersionsInv, vars
<1> QED
  BY <1>2, <1>3, <1>4, <1>5, <1>6 DEF Next, RemoveAfter

LEMMA VersionsCorrect == ASSUME HonestMicroBlocks PROVE Spec => []VersionsInv
<1>1. Init => VersionsInv
  BY IdAssumption DEF Init, FirstVersion, VersionsInv, VersionsOf
<1>2. TypeOK /\ VersionsInv /\ [Next]_vars => VersionsInv'
  BY VersionsStep DEF VersionsInv
<1> QED
  BY <1>1, <1>2, TypeCorrect, PTL DEF Spec

\* The ids of blocks
IdsOf(c) == [i \in DOMAIN c |-> c[i].id]

LEMMA IdsOfType ==
  ASSUME TypeOK
  PROVE  /\ IdsOf(chain) \in Seq(Id) /\ Len(IdsOf(chain)) = Len(chain) /\ Len(chain) \in Nat
         /\ \A h \in 1..Len(chain) : IdsOf(chain)[h] = chain[h].id
<1>1. /\ DOMAIN chain = 1..Len(chain) /\ Len(chain) \in Nat
      /\ \A h \in 1..Len(chain) : chain[h].id \in Id
  BY ElementTypes
<1> QED
  BY <1>1 DEF IdsOf

\* Two ways to speak of the transactions of the chain
LEMMA RecordedIsPast ==
  ASSUME TypeOK, SignedAsPersisted
  PROVE  Recorded(Len(chain)) = Past(IdsOf(chain), Len(chain))
<1>1. \A h \in 1..Len(chain) : IdsOf(chain)[h] = chain[h].id /\ Content[chain[h].id] = chain[h].txs
  BY IdsOfType, ElementTypes DEF SignedAsPersisted
<1> QED
  BY <1>1 DEF Recorded, Past

\* The chain under a block that refers to the last one
ParentChain(id) == IF liquid = <<>> THEN IdsOf(chain) ELSE Append(IdsOf(chain), Ref(id))

\* What the operators of the updater need
Sound == TypeOK /\ AgesInv /\ VersionsInv /\ SignedAsPersisted

LEMMA ParentChainIs ==
  ASSUME Sound, NEW id \in Id, IsLastBlockId(Ref(id))
  PROVE  /\ ParentChain(id) \in Seq(Id) /\ ParentChain(id) # <<>>
         /\ ParentChain(id)[Len(ParentChain(id))] = Ref(id) /\ Ref(id) \in Id
         /\ liquid = <<>> => /\ ParentChain(id) = IdsOf(chain) /\ chain # <<>>
                             /\ Ref(id) = Last(chain).id
                             /\ Past(ParentChain(id), Len(ParentChain(id))) = Recorded(Len(chain))
         /\ \A i \in DOMAIN liquid : liquid[i].id = Ref(id) =>
              /\ ParentChain(id) = Append(IdsOf(chain), liquid[i].id)
              /\ Past(ParentChain(id), Len(ParentChain(id)))
                   = Recorded(Len(chain)) \cup ToSet(liquid[i].txs)
<1>1. TypeOK /\ SignedAsPersisted /\ VersionsInv
  BY DEF Sound
<1>2. /\ IdsOf(chain) \in Seq(Id) /\ Len(IdsOf(chain)) = Len(chain) /\ Len(chain) \in Nat
      /\ \A h \in 1..Len(chain) : IdsOf(chain)[h] = chain[h].id
      /\ Recorded(Len(chain)) = Past(IdsOf(chain), Len(chain))
  BY <1>1, IdsOfType, RecordedIsPast
<1>3. CASE liquid = <<>>
  <2>1. chain # <<>> /\ Last(chain).id = Ref(id) /\ ParentChain(id) = IdsOf(chain)
    BY <1>3 DEF IsLastBlockId, LiquidIds, ParentChain
  <2>2. Len(chain) \in 1..Len(chain) /\ Last(chain) = chain[Len(chain)] /\ chain[Len(chain)].id \in Id
    BY <1>1, <2>1, ElementTypes
  <2> QED
    BY <1>2, <1>3, <2>1, <2>2
<1>4. CASE liquid # <<>>
  <2>1. PICK k \in DOMAIN liquid : liquid[k].id = Ref(id)
    BY <1>4 DEF IsLastBlockId, LiquidIds
  <2>2. Ref(id) \in Id /\ ParentChain(id) = Append(IdsOf(chain), Ref(id))
    BY <1>1, <1>4, <2>1, ElementTypes DEF ParentChain
  <2> DEFINE s == IdsOf(chain)
             p == Append(s, Ref(id))
  <2>3. /\ p \in Seq(Id) /\ p # <<>> /\ Len(p) = Len(s) + 1 /\ p[Len(p)] = Ref(id)
    BY <1>2, <2>2
  <2>4. Past(p, Len(s) + 1) = Past(s, Len(s)) \cup ToSet(Content[Ref(id)])
    BY <1>2, <2>2, PastAppend
  <2>5. \A i \in DOMAIN liquid : Content[liquid[i].id] = liquid[i].txs
    BY <1>1 DEF VersionsInv, VersionsOf
  <2> QED
    BY <1>2, <1>4, <2>2, <2>3, <2>4, <2>5
<1> QED
  BY <1>3, <1>4

\* A block on the last one: its parent is on the chain then, and the block the
\* only version of the liquid block.
LEMMA OnTopEffect ==
  ASSUME Sound, NEW id \in Id, IsLastBlockId(Ref(id)), ProcessBlock(id)
  PROVE  /\ IdsOf(chain') = ParentChain(id)
         /\ Len(chain') = Len(ParentChain(id))
         /\ liquid' # <<>> /\ Len(liquid') = 1 /\ liquid'[1].id = id
         /\ Len(Content[id]) <= MaxTxs
         /\ Applies(Past(ParentChain(id), Len(ParentChain(id))), Content[id])
         /\ \/ chain' = chain /\ safe' = safe /\ liquid = <<>>
            \/ \E i \in DOMAIN liquid :
                 /\ liquid[i].id = Ref(id)
                 /\ Harden(liquid[i])
<1>1. TypeOK /\ AgesInv
  BY DEF Sound
<1>2. PersistedCarry \in Nat
  BY <1>1, ViewType DEF ViewOK, DataOK, TypeOK
<1>3. ASSUME NEW carry \in Nat, BecomeLiquid(id, carry)
      PROVE  liquid' # <<>> /\ Len(liquid') = 1 /\ liquid'[1].id = id
  <2>1. liquid' = <<FirstVersion(id, carry)>> /\ FirstVersion(id, carry).id = id
    BY <1>3 DEF BecomeLiquid, FirstVersion
  <2> QED
    BY <2>1
<1>4. CASE /\ liquid = <<>> /\ chain # <<>> /\ Ref(id) = Last(chain).id
           /\ OnPersisted(id)
  <2>1. /\ chain' = chain /\ safe' = safe /\ BecomeLiquid(id, PersistedCarry)
        /\ ValidAfter(id, Recorded(Len(chain)))
    BY <1>4 DEF OnPersisted
  <2>2. ParentChain(id) = IdsOf(chain)
        /\ Past(ParentChain(id), Len(ParentChain(id))) = Recorded(Len(chain))
    BY <1>4, ParentChainIs
  <2>3. Len(IdsOf(chain)) = Len(chain)
    BY <1>1, IdsOfType
  <2> QED
    BY <1>2, <1>3, <1>4, <2>1, <2>2, <2>3 DEF ValidAfter
<1>5. ASSUME NEW i \in DOMAIN liquid,
             liquid[i] \in Version,
             Extends(id, i),
             ValidAfter(id, Recorded(Len(chain)) \cup ToSet(liquid[i].txs)),
             BecomeLiquid(id, liquid[i].carry),
             Harden(liquid[i])
      PROVE  /\ IdsOf(chain') = ParentChain(id)
             /\ Len(chain') = Len(ParentChain(id))
             /\ liquid' # <<>> /\ Len(liquid') = 1 /\ liquid'[1].id = id
             /\ Len(Content[id]) <= MaxTxs
             /\ Applies(Past(ParentChain(id), Len(ParentChain(id))), Content[id])
             /\ liquid[i].id = Ref(id) /\ Harden(liquid[i])
  <2>1. liquid[i].id = Ref(id) /\ liquid[i].carry \in Nat /\ liquid[i].id \in Id
    BY <1>5 DEF Extends, Version
  <2>2. /\ ParentChain(id) = Append(IdsOf(chain), liquid[i].id)
        /\ Past(ParentChain(id), Len(ParentChain(id)))
             = Recorded(Len(chain)) \cup ToSet(liquid[i].txs)
    BY <2>1, ParentChainIs
  <2> DEFINE n == Len(chain)
             s == IdsOf(chain)
  <2>3. /\ Len(chain') = n + 1 /\ DOMAIN chain' = 1..(n + 1)
        /\ \A h \in 1..n : chain'[h] = chain[h]
        /\ chain'[n + 1].id = liquid[i].id
    BY <1>1, <1>5, HardenEffect
  <2>4. s \in Seq(Id) /\ Len(s) = n /\ n \in Nat /\ \A h \in 1..n : s[h] = chain[h].id
    BY <1>1, IdsOfType
  <2>5. IdsOf(chain') = [h \in 1..(n + 1) |-> chain'[h].id]
    BY <2>3 DEF IdsOf
  <2> HIDE DEF n, s
  <2>6. /\ Append(s, liquid[i].id) \in Seq(Id) /\ Len(Append(s, liquid[i].id)) = n + 1
        /\ Append(s, liquid[i].id)[n + 1] = liquid[i].id
        /\ \A h \in 1..n : Append(s, liquid[i].id)[h] = s[h]
    BY <2>1, <2>4
  <2>7. \A h \in 1..(n + 1) : h \in 1..n \/ h = n + 1
    BY <2>4
  <2>8. \A h \in 1..(n + 1) : chain'[h].id = Append(s, liquid[i].id)[h]
    BY <2>3, <2>4, <2>6, <2>7
  <2>9. IdsOf(chain') = Append(s, liquid[i].id)
    <3>1. Append(s, liquid[i].id) = [h \in 1..(n + 1) |-> Append(s, liquid[i].id)[h]]
      BY <2>4, <2>6
    <3> QED
      BY <2>5, <2>8, <3>1
  <2> QED
    BY <1>3, <1>5, <2>1, <2>2, <2>3, <2>6, <2>9 DEF ValidAfter, s
<1> QED
  BY <1>1, <1>4, <1>5, OnTop

\* ... and it is accepted if it fits there and applies.
LEMMA OnTopAccepts ==
  ASSUME Sound, Supported, NEW id \in Id, IsLastBlockId(Ref(id)),
         Len(Content[id]) <= MaxTxs,
         Applies(Past(ParentChain(id), Len(ParentChain(id))), Content[id])
  PROVE  Accepts(id)
<1>1. TypeOK /\ AgesInv /\ VersionsInv
  BY DEF Sound
<1>2. CASE liquid = <<>>
  <2>1. ExtendsPersisted(id)
    BY <1>2, ParentChainIs DEF ExtendsPersisted
  <2>2. ValidAfter(id, Recorded(Len(chain)))
    BY <1>2, ParentChainIs DEF ValidAfter, Supported
  <2> QED
    BY <2>1, <2>2 DEF Accepts
<1>3. CASE liquid # <<>>
  <2>1. PICK i \in DOMAIN liquid : liquid[i].id = Ref(id)
    BY <1>3 DEF IsLastBlockId, LiquidIds
  <2>2. ~SameParent(id)
    BY <1>1, NotSameParent
  <2>3. Extends(id, i)
    BY <1>1, <2>1, <2>2 DEF Extends, SignaturesValid, VersionsInv, VersionsOf
  <2>4. ValidAfter(id, Recorded(Len(chain)) \cup ToSet(liquid[i].txs))
    BY <2>1, ParentChainIs DEF ValidAfter, Supported
  <2> QED
    BY <2>3, <2>4 DEF Accepts
<1> QED
  BY <1>2, <1>3

\* The persisted chain is valid, and so is each version of the liquid block on it.
ValidOf(c, l) ==
  /\ ValidChain(IdsOf(c))
  /\ \A i \in DOMAIN l : ValidChain(Append(IdsOf(c), l[i].id))

ValidInv == ValidOf(chain, liquid)

LEMMA ParentValid ==
  ASSUME Sound, ValidInv, NEW id \in Id, IsLastBlockId(Ref(id))
  PROVE  ValidChain(ParentChain(id))
<1>1. CASE liquid = <<>>
  BY <1>1 DEF ParentChain, ValidInv, ValidOf
<1>2. CASE liquid # <<>>
  <2>1. PICK i \in DOMAIN liquid : liquid[i].id = Ref(id)
    BY <1>2 DEF IsLastBlockId, LiquidIds
  <2> QED
    BY <1>2, <2>1 DEF ParentChain, ValidInv, ValidOf
<1> QED
  BY <1>1, <1>2

\* A block on the last one keeps it so.
LEMMA AppendValid ==
  ASSUME Sound, ValidInv, NEW id \in Id, IsLastBlockId(Ref(id)), ProcessBlock(id)
  PROVE  ValidOf(chain', liquid') /\ ValidChain(Append(ParentChain(id), id))
<1> DEFINE p == ParentChain(id)
<1>1. /\ p \in Seq(Id) /\ p # <<>> /\ p[Len(p)] = Ref(id)
  BY ParentChainIs
<1>2. /\ IdsOf(chain') = p /\ Len(liquid') = 1 /\ liquid'[1].id = id
      /\ Len(Content[id]) <= MaxTxs /\ Applies(Past(p, Len(p)), Content[id])
  BY OnTopEffect
<1>3. ValidChain(p)
  BY ParentValid
<1> HIDE DEF p
<1>4. ValidChain(Append(p, id))
  BY <1>1, <1>2, <1>3, ValidAppend DEF Fitting
<1>5. DOMAIN liquid' = {1}
  <2>1. liquid' \in Seq(Version)
    BY ProcessBlockType DEF Sound, TypeOK
  <2> QED
    BY <1>2, <2>1
<1> QED
  BY <1>2, <1>3, <1>4, <1>5 DEF ValidOf, p

\* A microblock makes a longer version of the block that its generator signed.
LEMMA MicroValid ==
  ASSUME HonestMicroBlocks, Sound, RestMatchesLiquid, ValidInv,
         NEW m \in MicroBlock, ProcessMicroBlock(m)
  PROVE  ValidOf(chain', liquid')
<1> DEFINE n == Len(liquid)
           s == IdsOf(chain)
           v == liquid[n]
<1>1. TypeOK /\ VersionsInv /\ SignedAsPersisted
  BY DEF Sound
<1>2. /\ chain' = chain /\ n \in Nat \ {0} /\ DOMAIN liquid = 1..n
      /\ DOMAIN liquid' = 1..(n + 1)
      /\ \A i \in 1..n : liquid'[i] = liquid[i]
      /\ liquid'[n + 1].id = m.sig
      /\ v.id = m.prev
      /\ Generator[HeaderOf[liquid[1].id]] = m.sender
  BY <1>1, MicroBlockVersions
<1>3. /\ s \in Seq(Id) /\ Len(s) = Len(chain) /\ Past(s, Len(s)) = Recorded(Len(chain))
  BY <1>1, IdsOfType, RecordedIsPast
<1>4. /\ m.sig \in Id /\ m.prev \in Id /\ m.txs \in Seq(Tx) /\ v.txs \in Seq(Tx)
  BY <1>1, <1>2, MicroAges, ElementTypes
<1>5. /\ Best = v /\ liquid # <<>>
  BY <1>2 DEF Best, Last, ProcessMicroBlock
<1>6. Applies(Past(s, Len(s)) \cup ToSet(v.txs), m.txs) /\ Len(m.txs) <= MaxTxs - Len(v.txs)
  BY <1>3, <1>5 DEF ProcessMicroBlock, FitsRest, RestMatchesLiquid, ViewTxs
<1> HIDE DEF n, s, v
<1>7. n \in 1..n /\ 1 \in 1..n /\ v = liquid[n]
  BY <1>2 DEF v
<1>8. HeaderOf[v.id] = HeaderOf[liquid[1].id] /\ Content[v.id] = v.txs
  BY <1>1, <1>2, <1>7 DEF VersionsInv, VersionsOf
<1>9. HeaderOf[m.sig] = HeaderOf[m.prev] /\ Content[m.sig] = v.txs \o m.txs
  BY <1>2, <1>8 DEF HonestMicroBlocks
<1>10. ValidChain(s) /\ Fitting(s, m.prev)
  <2>1. ValidChain(Append(s, m.prev))
    BY <1>2, <1>7 DEF ValidInv, ValidOf, s
  <2> QED
    BY <1>3, <1>4, <2>1, ValidAppend
<1>11. Ref(m.sig) = Ref(m.prev)
  BY <1>9 DEF Ref
<1>12. Len(Content[m.sig]) <= MaxTxs
  <2>1. Len(v.txs \o m.txs) = Len(v.txs) + Len(m.txs) /\ Len(v.txs) \in Nat /\ Len(m.txs) \in Nat
    BY <1>4
  <2> QED
    <3> DEFINE a == Len(v.txs)
               b == Len(m.txs)
    <3>1. /\ a \in Nat /\ b \in Nat /\ MaxTxs \in Nat /\ b <= MaxTxs - a
          /\ Len(v.txs \o m.txs) = a + b
      BY <1>6, <2>1, ParameterAssumption
    <3> HIDE DEF a, b
    <3>2. Len(v.txs \o m.txs) <= MaxTxs
      BY <3>1
    <3> QED
      BY <1>9, <3>2
<1>13. Applies(Past(s, Len(s)), Content[m.sig])
  <2>1. Applies(Past(s, Len(s)), v.txs)
    BY <1>2, <1>8, <1>10 DEF Fitting
  <2> QED
    BY <1>4, <1>6, <1>9, <2>1, AppliesConcat
<1>14. ValidChain(Append(s, m.sig))
  <2>1. Fitting(s, m.sig)
    BY <1>10, <1>11, <1>12, <1>13 DEF Fitting
  <2> QED
    BY <1>3, <1>4, <1>10, <2>1, ValidAppend
<1>15. ASSUME NEW i \in 1..(n + 1)
       PROVE  ValidChain(Append(s, liquid'[i].id))
  <2>1. CASE i = n + 1
    BY <1>2, <1>14, <2>1
  <2>2. CASE i \in 1..n
    BY <1>2, <2>2 DEF ValidInv, ValidOf, s
  <2> QED
    BY <1>2, <2>1, <2>2
<1> QED
  BY <1>2, <1>10, <1>15 DEF ValidOf, s

\* The ids that a rollback leaves
LEMMA PrefixIds ==
  ASSUME TypeOK, NEW h \in 0..Len(chain), chain' = SubSeq(chain, 1, h)
  PROVE  IdsOf(chain') = SubSeq(IdsOf(chain), 1, h) /\ Len(chain') = h
<1> DEFINE s == IdsOf(chain)
           p == SubSeq(s, 1, h)
<1>1. /\ s \in Seq(Id) /\ Len(s) = Len(chain) /\ Len(chain) \in Nat
      /\ \A i \in 1..Len(chain) : s[i] = chain[i].id
  BY IdsOfType
<1>2. /\ chain' \in Seq(Persisted) /\ Len(chain') = h /\ \A i \in 1..h : chain'[i] = chain[i]
  BY DEF TypeOK
<1> HIDE DEF s
<1>3. p \in Seq(Id) /\ Len(p) = h /\ h \in Nat /\ \A i \in 1..h : p[i] = s[i]
  BY <1>1
<1> HIDE DEF p
<1>4. \A i \in 1..h : chain'[i].id = p[i]
  BY <1>1, <1>2, <1>3
<1>5. IdsOf(chain') = [i \in 1..h |-> chain'[i].id]
  BY <1>2 DEF IdsOf
<1>6. p = [i \in 1..h |-> p[i]]
  BY <1>3
<1> QED
  BY <1>2, <1>4, <1>5, <1>6 DEF s, p

LEMMA RemoveValid ==
  ASSUME TypeOK, ValidInv, NEW id \in Id, RemoveAfter(id)
  PROVE  ValidOf(chain', liquid')
<1>1. liquid' = <<>>
  BY DEF RemoveAfter
<1>2. CASE chain' = chain
  BY <1>1, <1>2 DEF ValidInv, ValidOf
<1>3. ASSUME NEW h \in DOMAIN chain, chain' = SubSeq(chain, 1, h)
      PROVE  ValidOf(chain', liquid')
  <2>1. h \in 0..Len(chain)
    BY DEF TypeOK
  <2>2. IdsOf(chain') = SubSeq(IdsOf(chain), 1, h)
    BY <1>3, <2>1, PrefixIds
  <2>3. ValidChain(SubSeq(IdsOf(chain), 1, h))
    BY <2>1, IdsOfType, ValidPrefix DEF ValidInv, ValidOf
  <2> QED
    BY <1>1, <2>2, <2>3 DEF ValidOf
<1> QED
  BY <1>2, <1>3, RemoveAfterEffect

\* The genesis block on nothing
LEMMA GenesisValid == ValidChain(Append(<<>>, Genesis)) /\ ValidChain(<<>>)
<1>1. ValidChain(<<>>)
  BY DEF ValidChain
<1>2. Past(<<>>, Len(<<>>)) = {}
  BY DEF Past
<1>3. Fitting(<<>>, Genesis)
  BY <1>2, RootAssumption, GenesisAssumption DEF Fitting, Ref
<1> QED
  <2>1. <<>> \in Seq(Id) /\ Genesis \in Id
    BY IdAssumption
  <2> QED
    BY <1>1, <1>3, <2>1, ValidAppend, Zenon

LEMMA RestartValid ==
  ASSUME TypeOK, ValidInv, Restart
  PROVE  ValidOf(chain', liquid')
<1>1. CASE chain = <<>>
  <2>1. chain' = <<>> /\ liquid' = <<FirstVersion(Genesis, 0)>>
    BY <1>1 DEF Restart, BecomeLiquid
  <2>2. IdsOf(chain') = <<>>
    BY <2>1 DEF IdsOf
  <2>3. \A i \in DOMAIN liquid' : liquid'[i].id = Genesis
    BY <2>1 DEF FirstVersion
  <2> QED
    BY <2>2, <2>3, GenesisValid DEF ValidOf
<1>2. CASE chain # <<>>
  BY <1>2 DEF Restart, ValidInv, ValidOf
<1> QED
  BY <1>1, <1>2

\* A block of the chain ends a valid chain.
-----------------------------------------------------------------------------
(* The way back from an extension that fails.                              *)

\* The ids of the chain as a caller sees it, and the headers of ids
ViewOf(c, l) == IF l = <<>> THEN IdsOf(c) ELSE Append(IdsOf(c), l[Len(l)].id)

Headers(s) == [i \in DOMAIN s |-> HeaderOf[s[i]]]

LEMMA ViewOfIs ==
  ASSUME TypeOK
  PROVE  LET view == ViewOf(chain, liquid)
         IN  /\ view \in Seq(Id) /\ Len(view) = Height
             /\ Len(chain) \in Nat /\ Height \in {Len(chain), Len(chain) + 1}
             /\ liquid = <<>> => Len(view) = Len(chain)
             /\ liquid # <<>> => /\ Len(view) = Len(chain) + 1
                                 /\ view[Len(chain) + 1] = liquid[Len(liquid)].id
                                 /\ liquid[Len(liquid)].id = Best.id
             /\ \A h \in 1..Len(chain) : view[h] = chain[h].id
<1> DEFINE s == IdsOf(chain)
<1>1. /\ s \in Seq(Id) /\ Len(s) = Len(chain) /\ Len(chain) \in Nat
      /\ \A h \in 1..Len(chain) : s[h] = chain[h].id
  BY IdsOfType
<1> HIDE DEF s
<1>2. CASE liquid = <<>>
  <2>1. ViewOf(chain, liquid) = s
    BY <1>2 DEF ViewOf, s
  <2>2. Height = Len(chain)
    BY <1>1, <1>2 DEF Height
  <2> QED
    BY <1>1, <1>2, <2>1, <2>2
<1>3. CASE liquid # <<>>
  <2> DEFINE b == liquid[Len(liquid)].id
             t == Append(s, b)
  <2>1. b \in Id /\ b = Best.id
    BY <1>3, ElementTypes
  <2>2. ViewOf(chain, liquid) = t
    BY <1>3 DEF ViewOf, s
  <2>3. Height = Len(chain) + 1
    BY <1>1, <1>3 DEF Height
  <2> HIDE DEF b
  <2>4. /\ t \in Seq(Id) /\ Len(t) = Len(chain) + 1 /\ t[Len(chain) + 1] = b
        /\ \A h \in 1..Len(chain) : t[h] = s[h]
    BY <1>1, <2>1
  <2> QED
    BY <1>1, <1>3, <2>1, <2>2, <2>3, <2>4 DEF b
<1> QED
  BY <1>2, <1>3

LEMMA HeadersType ==
  ASSUME NEW s \in Seq(Id)
  PROVE  /\ Headers(s) \in Seq(Header) /\ Len(Headers(s)) = Len(s)
         /\ \A i \in 1..Len(s) : Headers(s)[i] = HeaderOf[s[i]]
<1>1. Len(s) \in Nat /\ DOMAIN s = 1..Len(s) /\ \A i \in 1..Len(s) : HeaderOf[s[i]] \in Header
  BY IdAssumption
<1> QED
  BY <1>1 DEF Headers

LEMMA HeadersSame ==
  ASSUME NEW s \in Seq(Id), NEW t \in Seq(Id), Len(s) = Len(t),
         \A i \in 1..Len(s) : HeaderOf[s[i]] = HeaderOf[t[i]]
  PROVE  Headers(s) = Headers(t)
<1>1. DOMAIN s = 1..Len(s) /\ DOMAIN t = 1..Len(s)
  OBVIOUS
<1> QED
  BY <1>1 DEF Headers

LEMMA ViewHeadersIs ==
  ASSUME TypeOK
  PROVE  ViewHeaders = Headers(ViewOf(chain, liquid))
<1> DEFINE view == ViewOf(chain, liquid)
           n == Len(chain)
<1>1. /\ view \in Seq(Id) /\ Len(view) = Height /\ n \in Nat /\ Height \in {n, n + 1}
      /\ liquid = <<>> => Height = n
      /\ liquid # <<>> => Height = n + 1 /\ view[n + 1] = Best.id
      /\ \A h \in 1..n : view[h] = chain[h].id
  BY ViewOfIs
<1>2. DOMAIN view = 1..Height
  BY <1>1
<1> HIDE DEF view, n
<1>3. ASSUME NEW h \in 1..Height
      PROVE  (IF h <= n THEN chain[h].id ELSE Best.id) = view[h]
  <2>1. CASE h <= n
    BY <1>1, <2>1
  <2>2. CASE ~(h <= n)
    <3>1. liquid # <<>> /\ h = n + 1
      BY <1>1, <2>2
    <3> QED
      BY <1>1, <2>2, <3>1
  <2> QED
    BY <2>1, <2>2
<1>4. ViewHeaders = [h \in 1..Height |-> HeaderOf[IF h <= n THEN chain[h].id ELSE Best.id]]
  BY DEF ViewHeaders, n
<1>5. ViewHeaders = [h \in 1..Height |-> HeaderOf[view[h]]]
  BY <1>3, <1>4
<1> QED
  BY <1>2, <1>5 DEF Headers, view

\* The chain that a block on the last one leaves
LEMMA OnTopView ==
  ASSUME Sound, NEW id \in Id, IsLastBlockId(Ref(id)), ProcessBlock(id)
  PROVE  ViewOf(chain', liquid') = Append(ParentChain(id), id)
<1>1. IdsOf(chain') = ParentChain(id) /\ liquid' # <<>> /\ liquid'[Len(liquid')].id = id
  BY OnTopEffect
<1> QED
  BY <1>1 DEF ViewOf

\* The chain under such a block is the view of it, perhaps up to the version of
\* the last block.
LEMMA ParentView ==
  ASSUME Sound, NEW id \in Id, IsLastBlockId(Ref(id))
  PROVE  LET view == ViewOf(chain, liquid)
             p == ParentChain(id)
         IN  /\ Len(p) = Len(view)
             /\ \A h \in 1..Len(chain) : p[h] = view[h]
             /\ Headers(p) = Headers(view)
             /\ Ref(id) = view[Len(view)] => p = view
<1> DEFINE view == ViewOf(chain, liquid)
           p == ParentChain(id)
           s == IdsOf(chain)
           n == Len(chain)
<1>1. TypeOK /\ VersionsInv
  BY DEF Sound
<1>2. /\ view \in Seq(Id) /\ n \in Nat
      /\ liquid = <<>> => Len(view) = n
      /\ liquid # <<>> => Len(view) = n + 1 /\ view[n + 1] = liquid[Len(liquid)].id
      /\ \A h \in 1..n : view[h] = chain[h].id
  BY <1>1, ViewOfIs
<1>3. s \in Seq(Id) /\ Len(s) = n /\ \A h \in 1..n : s[h] = chain[h].id
  BY <1>1, IdsOfType
<1>4. CASE liquid = <<>>
  BY <1>3, <1>4 DEF ViewOf, ParentChain
<1>5. CASE liquid # <<>>
  <2>1. PICK k \in DOMAIN liquid : liquid[k].id = Ref(id)
    BY <1>5 DEF IsLastBlockId, LiquidIds
  <2>2. /\ Ref(id) \in Id /\ Len(liquid) \in DOMAIN liquid
        /\ p = Append(s, Ref(id))
    BY <1>1, <1>5, <2>1, ElementTypes DEF ParentChain
  <2>3. HeaderOf[liquid[Len(liquid)].id] = HeaderOf[liquid[k].id]
    BY <1>1, <2>2 DEF VersionsInv, VersionsOf
  <2>4. HeaderOf[view[n + 1]] = HeaderOf[Ref(id)]
    BY <1>2, <1>5, <2>1, <2>3
  <2> HIDE DEF s, n, view, p
  <2>5. /\ p \in Seq(Id) /\ Len(p) = n + 1 /\ p[n + 1] = Ref(id)
        /\ \A h \in 1..n : p[h] = s[h]
    BY <1>2, <1>3, <2>2
  <2>6. /\ Len(view) = n + 1 /\ \A h \in 1..(n + 1) : h \in 1..n \/ h = n + 1
        /\ \A h \in 1..n : p[h] = view[h]
    BY <1>2, <1>3, <1>5, <2>5
  <2>7. Headers(p) = Headers(view)
    BY <1>2, <2>4, <2>5, <2>6, HeadersSame
  <2>8. Ref(id) = view[Len(view)] => p = view
    <3>1. ASSUME Ref(id) = view[Len(view)]
          PROVE  \A h \in 1..(n + 1) : p[h] = view[h]
      BY <2>5, <2>6, <3>1
    <3> QED
      BY <1>2, <2>5, <2>6, <3>1, SeqEqual
  <2> QED
    BY <2>5, <2>6, <2>7, <2>8 DEF p, view, n
<1> QED
  BY <1>4, <1>5

\* The best version ends a valid chain, too: the view is one.
LEMMA ViewValid ==
  ASSUME TypeOK, ValidInv
  PROVE  ValidChain(ViewOf(chain, liquid))
<1>1. CASE liquid = <<>>
  BY <1>1 DEF ViewOf, ValidInv, ValidOf
<1>2. CASE liquid # <<>>
  <2>1. Len(liquid) \in DOMAIN liquid
    BY <1>2, ElementTypes
  <2> QED
    BY <1>2, <2>1 DEF ViewOf, ValidInv, ValidOf
<1> QED
  BY <1>1, <1>2

\* From the chain s, the blocks that were dropped lead back to the chain that
\* the extension found.
Back(s, t) ==
  LET old == s \o IdsOf(t.dropped)
  IN  /\ s # <<>> /\ ValidChain(old) /\ t.start.headers = Headers(old)
      /\ \A i \in DOMAIN t.dropped : Content[t.dropped[i].id] = t.dropped[i].txs

\* At the height h the task finds its last common block, on the chain or as a
\* version of the liquid block that the first new block will harden.
CommonAt(c, l, t, h) ==
  \/ h \in 1..Len(c) /\ c[h].id = t.common
  \/ /\ h = Len(c) + 1 /\ t.dropped = <<>>
     /\ \E i \in DOMAIN l : l[i].id = t.common
     /\ t.todo # <<>> => Ref(Head(t.todo)) = t.common

\* It may be rolled back to, also after the blocks that are still to do.
BackAt(c, l, sf, t, h) ==
  LET view == ViewOf(c, l)
  IN  /\ h \in 1..Len(view) /\ sf < h /\ Len(view) - h + Len(t.todo) <= MaxRollback
      /\ CommonAt(c, l, t, h)
      /\ Back(SubSeq(view, 1, h), t)

BackOf(c, l, sf, t) ==
  /\ t.pc # "thrown"
  /\ t.pc \in {"apply", "restore"} => \E h \in Nat : BackAt(c, l, sf, t, h)
  /\ t.pc = "reapply" => Back(ViewOf(c, l), t)

BackInv == BackOf(chain, liquid, safe, task)

\* Back speaks of the blocks that were dropped only.
LEMMA BackSame ==
  ASSUME NEW s, NEW t, NEW u, Back(s, t), u.dropped = t.dropped,
         u.start.headers = t.start.headers
  PROVE  Back(s, u)
BY DEF Back

LEMMA WholeSubSeq ==
  ASSUME NEW s \in Seq(Id)
  PROVE  SubSeq(s, 1, Len(s)) = s
OBVIOUS

LEMMA ConcatEmpty ==
  ASSUME NEW s \in Seq(Id), NEW c, c = <<>>
  PROVE  s \o IdsOf(c) = s
<1>1. IdsOf(c) = <<>>
  BY DEF IdsOf
<1> QED
  BY <1>1

LEMMA BlockIds ==
  ASSUME NEW D \in Seq(Block)
  PROVE  /\ IdsOf(D) \in Seq(Id) /\ Len(IdsOf(D)) = Len(D) /\ Len(D) \in Nat
         /\ \A i \in 1..Len(D) : IdsOf(D)[i] = D[i].id /\ D[i].id \in Id
<1>1. /\ DOMAIN D = 1..Len(D) /\ Len(D) \in Nat
      /\ \A i \in 1..Len(D) : D[i] \in Block
  OBVIOUS
<1>2. \A i \in 1..Len(D) : D[i].id \in Id
  BY <1>1 DEF Block
<1> QED
  BY <1>1, <1>2 DEF IdsOf

\* What a rollback leaves and what it returns make up the chain.
LEMMA RemovedJoins ==
  ASSUME TypeOK, NEW id \in PersistedIds
  PROVE  SubSeq(ViewOf(chain, liquid), 1, HeightOf(id)) \o IdsOf(Removed(id))
           = ViewOf(chain, liquid)
<1> DEFINE view == ViewOf(chain, liquid)
           n == Len(chain)
           hc == HeightOf(id)
           D == Removed(id)
           p == SubSeq(view, 1, hc)
           d == IdsOf(D)
           j == p \o d
<1>1. /\ view \in Seq(Id) /\ Len(view) = Height /\ n \in Nat /\ Height \in {n, n + 1}
      /\ liquid = <<>> => Height = n
      /\ liquid # <<>> => Height = n + 1 /\ view[n + 1] = Best.id
      /\ \A h \in 1..n : view[h] = chain[h].id
  BY ViewOfIs
<1>2. hc \in 1..n
  BY HeightOfPersisted
<1>3. /\ D \in Seq(Block) /\ Len(D) = Height - hc
      /\ \A i \in 1..(n - hc) : D[i].id = chain[hc + i].id
      /\ liquid # <<>> => D[n + 1 - hc].id = Best.id
  BY RemovedIs
<1> HIDE DEF n, hc, D, view
<1>4. d \in Seq(Id) /\ Len(d) = Height - hc /\ \A i \in 1..(Height - hc) : d[i] = D[i].id
  <2>1. /\ d \in Seq(Id) /\ Len(d) = Len(D) /\ \A i \in 1..Len(D) : d[i] = D[i].id
    BY <1>3, BlockIds
  <2> HIDE DEF d
  <2> QED
    BY <1>3, <2>1, Zenon
<1> HIDE DEF d
<1>5. p \in Seq(Id) /\ Len(p) = hc /\ \A i \in 1..hc : p[i] = view[i]
  BY <1>1, <1>2
<1> HIDE DEF p
<1>6. /\ j \in Seq(Id) /\ Len(j) = Height
      /\ \A i \in 1..hc : j[i] = p[i]
      /\ \A i \in 1..Height : ~(i <= hc) => i - hc \in 1..(Height - hc) /\ j[i] = d[i - hc]
  <2>1. /\ j \in Seq(Id) /\ Len(j) = Len(p) + Len(d)
        /\ \A i \in 1..(Len(p) + Len(d)) : j[i] = IF i <= Len(p) THEN p[i] ELSE d[i - Len(p)]
    BY <1>4, <1>5, ConcatProperties
  <2>2. Len(p) = hc /\ Len(d) = Height - hc /\ hc \in Nat /\ Height \in Nat /\ hc <= Height
        /\ hc \in 1..Height
    BY <1>1, <1>2, <1>4, <1>5
  <2>3. Len(p) + Len(d) = Height
    BY <2>2
  <2> HIDE DEF j
  <2>4. Len(j) = Height /\ \A i \in 1..Height : j[i] = IF i <= hc THEN p[i] ELSE d[i - hc]
    BY <2>1, <2>2, <2>3, Zenon
  <2>5. \A i \in 1..hc : i \in 1..Height /\ i <= hc
    BY <2>2
  <2>6. \A i \in 1..Height : ~(i <= hc) => i - hc \in 1..(Height - hc)
    BY <2>2
  <2> QED
    BY <2>1, <2>4, <2>5, <2>6
<1> HIDE DEF j
<1>7. ASSUME NEW i \in 1..Height
      PROVE  j[i] = view[i]
  <2>1. CASE i <= hc
    <3>1. i \in 1..hc
      BY <1>2, <2>1
    <3> QED
      BY <1>5, <1>6, <3>1
  <2>2. CASE ~(i <= hc) /\ i <= n
    <3>1. i - hc \in 1..(n - hc) /\ hc + (i - hc) = i /\ i \in 1..n
      BY <1>1, <1>2, <2>2
    <3> QED
      BY <1>1, <1>3, <1>4, <1>6, <2>2, <3>1
  <2>3. CASE ~(i <= n)
    <3>1. i = n + 1 /\ liquid # <<>> /\ ~(i <= hc) /\ i - hc = n + 1 - hc
      BY <1>1, <1>2, <2>3
    <3> QED
      BY <1>1, <1>3, <1>4, <1>6, <3>1
  <2> QED
    BY <2>1, <2>2, <2>3
<1>8. j = view
  BY <1>1, <1>6, <1>7, SeqEqual
<1> QED
  BY <1>8 DEF j, p, d, view, hc, D

\* The blocks that a rollback returns are what their signatures cover.
LEMMA RemovedSigned ==
  ASSUME Sound, NEW id \in PersistedIds
  PROVE  \A i \in DOMAIN Removed(id) : Content[Removed(id)[i].id] = Removed(id)[i].txs
<1> DEFINE n == Len(chain)
           hc == HeightOf(id)
           D == Removed(id)
<1>1. TypeOK /\ SignedAsPersisted /\ VersionsInv
  BY DEF Sound
<1>2. /\ D \in Seq(Block) /\ Len(D) = Height - hc
      /\ \A i \in 1..(n - hc) : D[i].id = chain[hc + i].id /\ D[i].txs = chain[hc + i].txs
      /\ liquid # <<>> => D[n + 1 - hc].id = Best.id /\ D[n + 1 - hc].txs = Best.txs
  BY <1>1, RemovedIs
<1>3. n \in Nat /\ hc \in 1..n /\ Height \in {n, n + 1} /\ (liquid = <<>> => Height = n)
  BY <1>1, HeightOfPersisted, ViewOfIs
<1>4. \A h \in 1..n : Content[chain[h].id] = chain[h].txs
  BY <1>1, ElementTypes DEF SignedAsPersisted
<1>5. liquid # <<>> => Content[Best.id] = Best.txs
  BY <1>1, ElementTypes DEF VersionsInv, VersionsOf
<1> HIDE DEF n, hc, D
<1>6. DOMAIN D = 1..(Height - hc)
  <2>1. DOMAIN D = 1..Len(D)
    BY <1>2
  <2> QED
    BY <1>2, <2>1, Zenon
<1>7. ASSUME NEW i \in 1..(Height - hc)
      PROVE  Content[D[i].id] = D[i].txs
  <2>1. CASE i <= n - hc
    <3>1. i \in 1..(n - hc) /\ hc + i \in 1..n
      BY <1>3, <2>1
    <3> QED
      BY <1>2, <1>4, <3>1
  <2>2. CASE ~(i <= n - hc)
    <3>1. i = n + 1 - hc /\ liquid # <<>>
      BY <1>3, <2>2
    <3> QED
      BY <1>2, <1>5, <3>1
  <2> QED
    BY <2>1, <2>2
<1> QED
  BY <1>6, <1>7 DEF D

\* The view after a rollback
LEMMA RollbackView ==
  ASSUME TypeOK, NEW h \in 1..Len(chain), chain' = SubSeq(chain, 1, h), liquid' = <<>>
  PROVE  LET p == SubSeq(ViewOf(chain, liquid), 1, h)
         IN  /\ ViewOf(chain', liquid') = p /\ p \in Seq(Id) /\ Len(p) = h /\ p # <<>>
             /\ SubSeq(p, 1, h) = p
             /\ Len(chain') = h /\ chain'[h] = chain[h]
<1> DEFINE view == ViewOf(chain, liquid)
           s == IdsOf(chain)
           p == SubSeq(view, 1, h)
           q == SubSeq(s, 1, h)
           n == Len(chain)
<1>1. /\ view \in Seq(Id) /\ n \in Nat /\ Len(view) \in {n, n + 1}
      /\ \A i \in 1..n : view[i] = chain[i].id
  BY ViewOfIs
<1>2. s \in Seq(Id) /\ Len(s) = n /\ \A i \in 1..n : s[i] = chain[i].id
  BY IdsOfType
<1>3. Len(chain') = h /\ chain'[h] = chain[h]
  BY DEF TypeOK
<1>4. IdsOf(chain') = q
  <2>1. h \in 0..Len(chain)
    BY <1>1
  <2> QED
    BY <2>1, PrefixIds
<1> HIDE DEF view, s, n
<1>5. h \in 1..n /\ h \in Nat \ {0}
  BY <1>1 DEF n
<1>6. /\ p \in Seq(Id) /\ Len(p) = h /\ \A i \in 1..h : p[i] = view[i]
      /\ q \in Seq(Id) /\ Len(q) = h /\ \A i \in 1..h : q[i] = s[i]
  BY <1>1, <1>2, <1>5
<1> HIDE DEF p, q
<1>7. p = q
  <2>1. \A i \in 1..h : i \in 1..n
    BY <1>5, <1>1
  <2>2. \A i \in 1..h : p[i] = q[i]
    BY <1>1, <1>2, <1>6, <2>1
  <2> QED
    BY <1>6, <2>2, SeqEqual
<1>8. p # <<>> /\ SubSeq(p, 1, h) = p
  <2>1. SubSeq(p, 1, Len(p)) = p
    BY <1>6, WholeSubSeq
  <2> QED
    BY <1>5, <1>6, <2>1
<1>9. ViewOf(chain', liquid') = p
  BY <1>4, <1>7 DEF ViewOf
<1> QED
  BY <1>3, <1>6, <1>8, <1>9 DEF p, view

\* A block of the chain is there once, and no version of the liquid block.
LEMMA HeightIs ==
  ASSUME TypeOK, AgesInv, NEW h \in 1..Len(chain)
  PROVE  /\ HeightOf(chain[h].id) = h /\ chain[h].id \notin LiquidIds
         /\ chain[h].id \in PersistedIds /\ chain[h].id \in Id
<1> DEFINE id == chain[h].id
           k == HeightOf(id)
<1>1. h \in DOMAIN chain /\ id \in Id /\ Len(chain) \in Nat /\ h \in Nat
  BY ElementTypes
<1>2. id \in PersistedIds
  BY <1>1 DEF PersistedIds
<1>3. k \in 1..Len(chain) /\ chain[k].id = id /\ k \in DOMAIN chain
  BY <1>2, HeightOfPersisted, ElementTypes
<1>4. Age[id] \in Nat
  BY <1>1, AgeTypes
<1> HIDE DEF k
<1>5. k = h
  <2>1. ~(k < h)
    BY <1>1, <1>3, <1>4 DEF AgesInv, AgesOf
  <2>2. ~(h < k)
    BY <1>1, <1>3, <1>4 DEF AgesInv, AgesOf
  <2> QED
    BY <1>1, <1>3, <2>1, <2>2
<1>6. id \notin LiquidIds
  <2> SUFFICES ASSUME NEW i \in DOMAIN liquid, liquid[i].id = id PROVE FALSE
    BY DEF LiquidIds
  <2>1. Age[id] < Age[liquid[i].id]
    BY <1>1 DEF AgesInv, AgesOf
  <2> QED
    BY <1>4, <2>1
<1> QED
  BY <1>1, <1>2, <1>5, <1>6 DEF k

\* The last block of the view is a last block.
LEMMA LastOfView ==
  ASSUME TypeOK, ViewOf(chain, liquid) # <<>>
  PROVE  LET view == ViewOf(chain, liquid) IN IsLastBlockId(view[Len(view)])
<1> DEFINE view == ViewOf(chain, liquid)
           n == Len(chain)
<1>1. /\ view \in Seq(Id) /\ n \in Nat
      /\ liquid = <<>> => Len(view) = n
      /\ liquid # <<>> => Len(view) = n + 1 /\ view[n + 1] = liquid[Len(liquid)].id
      /\ \A h \in 1..n : view[h] = chain[h].id
  BY ViewOfIs
<1>2. Len(view) \in 1..Len(view)
  BY <1>1
<1> HIDE DEF view
<1>3. CASE liquid = <<>>
  <2>1. n \in 1..n /\ view[Len(view)] = chain[n].id
    BY <1>1, <1>2, <1>3
  <2>2. chain # <<>> /\ Last(chain) = chain[n]
    BY <2>1, ElementTypes DEF Last
  <2> QED
    BY <1>3, <2>1, <2>2 DEF IsLastBlockId, view
<1>4. CASE liquid # <<>>
  <2>1. Len(liquid) \in DOMAIN liquid
    BY <1>4, ElementTypes
  <2> QED
    BY <1>1, <1>4, <2>1 DEF IsLastBlockId, LiquidIds, view
<1> QED
  BY <1>3, <1>4

\* An extension starts where it can go back to.
LEMMA BackStart ==
  ASSUME Sound, AppenderTypes, ValidInv, SafeInv, NEW e \in Extensions, ExtensionStart(e)
  PROVE  BackOf(chain', liquid', safe', task')
<1> DEFINE new == NewBlocks(e)
           common == Ref(Head(new))
           below == HeightOf(common) < Height
           view == ViewOf(chain, liquid)
           n == Len(chain)
<1>1. /\ TypeOK /\ new \in Seq(Id) /\ new # <<>> /\ common \in Id
      /\ Len(new) <= MaxRollback /\ ContainsBlock(common)
  BY NewBlocksOf, ContainedIsId DEF ExtensionStart, AppenderTypes
<1>2. ViewHeaders = Headers(view) /\ ValidChain(view)
  BY <1>1, ViewHeadersIs, ViewValid
<1>3. /\ view \in Seq(Id) /\ Len(view) = Height /\ n \in Nat
      /\ liquid = <<>> => Height = n
      /\ liquid # <<>> => Height = n + 1
      /\ \A h \in 1..n : view[h] = chain[h].id
  BY <1>1, ViewOfIs
<1>4. Len(new) \in Nat /\ MaxRollback \in Nat
  BY <1>1, ParameterAssumption
<1>5. CASE below /\ ~CanRollBackTo(common)
  BY <1>5 DEF ExtensionStart, Idle, BackOf
<1>6. CASE below /\ CanRollBackTo(common)
  <2> DEFINE h == HeightOf(common)
             p == SubSeq(view, 1, h)
  <2>1. /\ task'.pc = "apply" /\ task'.todo = new /\ task'.common = common
        /\ task'.dropped = Removed(common) /\ task'.start.headers = ViewHeaders
        /\ RemoveAfter(common)
    BY <1>6 DEF ExtensionStart, Snapshot
  <2>2. liquid' = <<>> /\ chain' = SubSeq(chain, 1, h) /\ safe' = safe
    BY <1>6, <2>1 DEF RemoveAfter
  <2>3. h \in 1..n /\ chain[h].id = common /\ common \in PersistedIds /\ safe < h
    BY <1>1, <1>6, HeightOfPersisted DEF CanRollBackTo
  <2>4. /\ p \o IdsOf(Removed(common)) = view
        /\ \A i \in DOMAIN Removed(common) : Content[Removed(common)[i].id] = Removed(common)[i].txs
    BY <1>1, <2>3, RemovedJoins, RemovedSigned
  <2>5. /\ ViewOf(chain', liquid') = p /\ p \in Seq(Id) /\ Len(p) = h /\ p # <<>>
        /\ SubSeq(p, 1, h) = p /\ Len(chain') = h /\ chain'[h] = chain[h]
    BY <1>1, <2>2, <2>3, RollbackView
  <2> HIDE DEF h, p, view, new, common
  <2>6. Back(p, task')
    BY <1>2, <2>1, <2>4, <2>5 DEF Back
  <2>7. CommonAt(chain', liquid', task', h)
    BY <1>3, <2>1, <2>3, <2>5 DEF CommonAt
  <2>8. h \in Nat /\ h \in 1..h /\ h - h + Len(new) <= MaxRollback
    BY <1>1, <1>3, <1>4, <2>3
  <2>9. BackAt(chain', liquid', safe', task', h)
    BY <2>1, <2>2, <2>3, <2>5, <2>6, <2>7, <2>8 DEF BackAt
  <2> QED
    BY <2>1, <2>8, <2>9 DEF BackOf
<1>7. CASE ~below
  <2> DEFINE h == Height
  <2>1. /\ task'.pc = "apply" /\ task'.todo = new /\ task'.common = common
        /\ task'.dropped = <<>> /\ task'.start.headers = ViewHeaders
        /\ chain' = chain /\ liquid' = liquid /\ safe' = safe
    BY <1>7 DEF ExtensionStart, Snapshot, vars
  <2>2. ASSUME common \in LiquidIds
        PROVE  CommonAt(chain', liquid', task', h)
    <3>1. PICK i \in DOMAIN liquid : liquid[i].id = common
      BY <2>2 DEF LiquidIds
    <3>2. h = n + 1 /\ h \in 1..Height
      BY <1>1, <1>3, <3>1, ElementTypes
    <3> HIDE DEF new, common
    <3>3. common = Ref(Head(new))
      BY DEF common, new
    <3> QED
      BY <2>1, <3>1, <3>2, <3>3 DEF CommonAt
  <2>3. ASSUME common \in PersistedIds
        PROVE  CommonAt(chain', liquid', task', h)
    <3>1. HeightOf(common) \in 1..n /\ chain[HeightOf(common)].id = common
      BY <1>1, <2>3, HeightOfPersisted
    <3>2. ~(HeightOf(common) < Height)
      BY <1>7
    <3> HIDE DEF common
    <3>3. h = n /\ h \in 1..n /\ chain[h].id = common
      BY <1>3, <3>1, <3>2
    <3> QED
      BY <2>1, <3>3 DEF CommonAt
  <2>4. CommonAt(chain', liquid', task', h)
    BY <1>1, <2>2, <2>3 DEF ContainsBlock
  <2>5. h \in 1..Height /\ h \in Nat
    BY <1>3, <2>4, <2>1 DEF CommonAt
  <2>6. safe < h
    <3>1. safe \in Nat
      BY <1>1 DEF TypeOK
    <3> QED
      BY <1>3, <2>5, <3>1 DEF SafeInv
  <2> HIDE DEF view, new, common
  <2>7. SubSeq(view, 1, h) = view /\ view # <<>>
    BY <1>3, <2>5, WholeSubSeq
  <2>8. Back(view, task')
    <3>1. view \o IdsOf(task'.dropped) = view
      BY <1>3, <2>1, ConcatEmpty
    <3>2. \A i \in DOMAIN task'.dropped : FALSE
      BY <2>1
    <3>3. ValidChain(view \o IdsOf(task'.dropped))
      BY <1>2, <3>1
    <3>4. task'.start.headers = Headers(view \o IdsOf(task'.dropped))
      BY <1>2, <2>1, <3>1
    <3> QED
      BY <2>7, <3>2, <3>3, <3>4 DEF Back
  <2>9. h - h + Len(new) <= MaxRollback
    BY <1>1, <1>4, <2>5
  <2> HIDE DEF h
  <2>10. BackAt(chain', liquid', safe', task', h)
    <3>1. ViewOf(chain', liquid') = view /\ Len(view) = h
      BY <1>3, <2>1 DEF view, h
    <3> QED
      BY <2>1, <2>4, <2>5, <2>6, <2>7, <2>8, <2>9, <3>1 DEF BackAt, h
  <2> QED
    BY <2>1, <2>5, <2>10 DEF BackOf
<1> QED
  BY <1>5, <1>6, <1>7

\* It can still go back after each new block: the way is one block longer, and
\* hardening raises the safe rollback height by one at most.
LEMMA BackApply ==
  ASSUME Sound, AppenderTypes, ValidInv, OnTopInv, BackInv, ExtensionApply
  PROVE  ValidOf(chain', liquid') /\ BackOf(chain', liquid', safe', task')
<1> DEFINE id == Head(task.todo)
           view == ViewOf(chain, liquid)
           p == ParentChain(id)
           q == Append(p, id)
           n == Len(chain)
<1>1. /\ TypeOK /\ VersionsInv /\ task \in Task /\ task.todo \in Seq(Id)
      /\ task.dropped \in Seq(Block)
  BY TaskFields DEF Sound, AppenderTypes, AppenderTypeOK
<1>2. /\ task' = [task EXCEPT !.todo = Tail(task.todo)] /\ CanAppend(id) /\ ProcessBlock(id)
      /\ task.todo # <<>> /\ task.pc = "apply"
  BY DEF ExtensionApply, AppendBlock
<1>3. /\ id \in Id /\ Tail(task.todo) \in Seq(Id) /\ Len(task.todo) \in Nat \ {0}
      /\ Len(Tail(task.todo)) = Len(task.todo) - 1
  BY <1>1, <1>2, HeadTail
<1>4. /\ task'.pc = "apply" /\ task'.todo = Tail(task.todo) /\ task'.common = task.common
      /\ task'.dropped = task.dropped /\ task'.start = task.start
  BY <1>1, <1>2, <1>3, TaskTodoNext
<1>5. IsLastBlockId(Ref(id))
  BY <1>2, LastOfIs DEF OnTopInv, OnTopOf
<1> HIDE DEF id
<1>6. ValidOf(chain', liquid') /\ ValidChain(p)
  BY <1>2, <1>3, <1>5, AppendValid, ParentValid
<1>7. /\ p \in Seq(Id) /\ p # <<>> /\ p[Len(p)] = Ref(id)
      /\ Len(p) = Len(view) /\ Headers(p) = Headers(view)
      /\ \A h \in 1..n : p[h] = view[h]
  BY <1>3, <1>5, ParentChainIs, ParentView
<1>8. /\ IdsOf(chain') = p /\ Len(chain') = Len(p) /\ ViewOf(chain', liquid') = q
      /\ \/ chain' = chain /\ safe' = safe /\ liquid = <<>>
         \/ \E i \in DOMAIN liquid : liquid[i].id = Ref(id) /\ Harden(liquid[i])
  BY <1>2, <1>3, <1>5, OnTopEffect, OnTopView
<1>9. /\ view \in Seq(Id) /\ n \in Nat /\ Len(view) \in {n, n + 1}
      /\ liquid # <<>> => Len(view) = n + 1
      /\ \A h \in 1..n : view[h] = chain[h].id
  BY <1>1, ViewOfIs
<1>10. PICK h \in Nat : BackAt(chain, liquid, safe, task, h)
  BY <1>2 DEF BackInv, BackOf
<1>11. /\ h \in 1..Len(view) /\ safe < h /\ Len(view) - h + Len(task.todo) <= MaxRollback
       /\ CommonAt(chain, liquid, task, h)
       /\ Back(SubSeq(view, 1, h), task)
  BY <1>10 DEF BackAt
<1>12. /\ q \in Seq(Id) /\ Len(q) = Len(view) + 1 /\ q[Len(view) + 1] = id
       /\ \A i \in 1..Len(view) : q[i] = p[i]
  <2> HIDE DEF p, view
  <2> QED
    BY <1>3, <1>7
<1>13. \A i \in 1..Len(p) : chain'[i].id = p[i]
  <2>1. chain' \in Seq(Persisted)
    BY <1>1, <1>2, <1>3, ProcessBlockType DEF TypeOK
  <2>2. DOMAIN chain' = 1..Len(p)
    BY <1>8, <2>1
  <2> HIDE DEF p
  <2> QED
    BY <1>8, <2>2 DEF IdsOf
<1> HIDE DEF view, p, q
<1>14. safe' < h
  <2>1. CASE safe' = safe
    BY <1>11, <2>1
  <2>2. ASSUME NEW i \in DOMAIN liquid, Harden(liquid[i])
        PROVE  safe' < h
    <3>1. safe' = safe \/ safe' = n + 1 - MaxRollback
      BY <2>2 DEF Harden, n
    <3>2. liquid # <<>>
      OBVIOUS
    <3>3. Len(view) = n + 1 /\ MaxRollback \in Nat /\ h \in Nat /\ n \in Nat
      BY <1>9, <1>10, <3>2, ParameterAssumption
    <3> HIDE DEF n
    <3> DEFINE k == Len(task.todo)
    <3>4. k \in Nat \ {0}
      BY <1>3
    <3>5. Len(view) - h + k <= MaxRollback
      BY <1>11
    <3> HIDE DEF k
    <3>6. (n + 1) - h + k <= MaxRollback
      BY <3>3, <3>5
    <3>7. n + 1 - MaxRollback < h
      BY <3>3, <3>4, <3>6
    <3> QED
      BY <1>11, <3>1, <3>7
  <2> QED
    BY <1>8, <2>1, <2>2
<1>15. h \in 1..Len(q) /\ Len(q) - h + Len(task'.todo) <= MaxRollback
  <2> DEFINE a == Len(view)
             k == Len(task.todo)
  <2>1. /\ a \in Nat /\ k \in Nat \ {0} /\ MaxRollback \in Nat /\ h \in 1..a
        /\ a - h + k <= MaxRollback /\ Len(q) = a + 1 /\ Len(task'.todo) = k - 1
    BY <1>3, <1>4, <1>9, <1>11, <1>12, ParameterAssumption
  <2> HIDE DEF a, k
  <2> QED
    BY <2>1
<1>16. h \in 1..Len(p) /\ h \in Nat
  BY <1>7, <1>10, <1>11
<1>17. CASE h \in 1..n /\ chain[h].id = task.common
  <2> HIDE DEF n
  <2>1. \A i \in 1..h : i \in 1..n /\ i \in 1..Len(view)
    BY <1>9, <1>11, <1>17
  <2>2. \A i \in 1..h : q[i] = view[i]
    BY <1>7, <1>12, <2>1
  <2>3. SubSeq(q, 1, h) = SubSeq(view, 1, h)
    <3>1. \A i \in 1..h : q[i] \in Id /\ view[i] \in Id
      BY <1>9, <1>12, <1>15, <2>1, <2>2
    <3>2. SubSeq(q, 1, h) = [i \in 1..h |-> q[i]] /\ SubSeq(view, 1, h) = [i \in 1..h |-> view[i]]
      BY <1>9, <1>11, <1>12, <1>15, <1>16
    <3> QED
      BY <2>2, <3>2
  <2>4. CommonAt(chain', liquid', task', h)
    <3>1. h \in 1..h
      BY <1>11, <1>16
    <3>2. chain'[h].id = task.common
      BY <1>7, <1>9, <1>13, <1>16, <1>17
    <3> QED
      BY <1>4, <1>8, <1>16, <3>2 DEF CommonAt
  <2>5. Back(SubSeq(q, 1, h), task')
    BY <1>4, <1>11, <2>3, BackSame
  <2>6. BackAt(chain', liquid', safe', task', h)
    BY <1>8, <1>14, <1>15, <2>4, <2>5 DEF BackAt
  <2> QED
    BY <1>4, <1>6, <2>6 DEF BackOf
<1>18. CASE h = n + 1 /\ task.dropped = <<>> /\ Ref(id) = task.common
  <2>1. Len(p) = h
    BY <1>7, <1>9, <1>11, <1>18
  <2> HIDE DEF n
  <2>2. CommonAt(chain', liquid', task', h)
    BY <1>4, <1>7, <1>8, <1>13, <1>16, <1>18, <2>1 DEF CommonAt
  <2>3. SubSeq(q, 1, h) = p
    <3>1. SubSeq(q, 1, h) \in Seq(Id) /\ Len(SubSeq(q, 1, h)) = h
          /\ \A i \in 1..h : SubSeq(q, 1, h)[i] = q[i]
      BY <1>12, <1>15
    <3>2. \A i \in 1..h : SubSeq(q, 1, h)[i] = p[i]
      BY <1>7, <1>12, <2>1, <3>1
    <3> QED
      BY <1>7, <2>1, <3>1, <3>2, SeqEqual
  <2>4. SubSeq(view, 1, h) = view
    BY <1>7, <1>9, <2>1, WholeSubSeq
  <2>5. view \o IdsOf(task.dropped) = view /\ p \o IdsOf(task'.dropped) = p
    BY <1>4, <1>7, <1>9, <1>18, ConcatEmpty
  <2>6. task'.start.headers = Headers(p)
    BY <1>4, <1>7, <1>11, <2>4, <2>5 DEF Back
  <2>7. \A i \in DOMAIN task'.dropped : FALSE
    BY <1>4, <1>18
  <2>8. Back(p, task')
    <3>1. ValidChain(p \o IdsOf(task'.dropped))
      BY <1>6, <2>5
    <3>2. task'.start.headers = Headers(p \o IdsOf(task'.dropped))
      BY <2>5, <2>6
    <3> QED
      BY <1>7, <2>7, <3>1, <3>2 DEF Back
  <2>9. BackAt(chain', liquid', safe', task', h)
    BY <1>8, <1>14, <1>15, <2>2, <2>3, <2>8 DEF BackAt
  <2> QED
    BY <1>4, <1>6, <2>9 DEF BackOf
<1> QED
  BY <1>2, <1>11, <1>17, <1>18 DEF CommonAt, id, n

\* The rollback to the last common block is not refused, and leaves the chain up
\* to it.
LEMMA BackRestore ==
  ASSUME Sound, AppenderTypes, ValidInv, BackInv, ExtensionRestore
  PROVE  ValidOf(chain', liquid') /\ BackOf(chain', liquid', safe', task')
<1> DEFINE view == ViewOf(chain, liquid)
           common == task.common
<1>1. /\ TypeOK /\ AgesInv /\ task \in Task /\ task.pc = "restore" /\ common \in Id
  BY DEF Sound, AppenderTypes, AppenderTypeOK, ExtensionRestore
<1>2. PICK h \in Nat : BackAt(chain, liquid, safe, task, h)
  BY <1>1 DEF BackInv, BackOf
<1>3. /\ h \in 1..Len(view) /\ safe < h
      /\ CommonAt(chain, liquid, task, h)
      /\ Back(SubSeq(view, 1, h), task)
  BY <1>2 DEF BackAt
<1>4. ASSUME task' = [task EXCEPT !.pc = "reapply"],
             ViewOf(chain', liquid') = SubSeq(view, 1, h)
      PROVE  BackOf(chain', liquid', safe', task')
  <2>1. task'.pc = "reapply" /\ task'.dropped = task.dropped /\ task'.start = task.start
    BY <1>1, <1>4, TaskPcNext DEF TaskPc
  <2>2. Back(SubSeq(view, 1, h), task')
    BY <1>3, <2>1, BackSame
  <2> QED
    BY <1>4, <2>1, <2>2 DEF BackOf
<1>5. CASE h \in 1..Len(chain) /\ chain[h].id = common
  <2>1. HeightOf(common) = h /\ common \notin LiquidIds /\ CanRollBackTo(common)
    BY <1>1, <1>3, <1>5, HeightIs DEF CanRollBackTo
  <2>2. /\ RemoveAfter(common) /\ task' = [task EXCEPT !.pc = "reapply"]
        /\ chain' = SubSeq(chain, 1, h) /\ liquid' = <<>>
    BY <2>1 DEF ExtensionRestore, RemoveAfter
  <2>3. ViewOf(chain', liquid') = SubSeq(view, 1, h)
    BY <1>1, <1>5, <2>2, RollbackView
  <2>4. ValidOf(chain', liquid')
    BY <1>1, <2>2, RemoveValid
  <2> QED
    BY <1>4, <2>2, <2>3, <2>4
<1>6. CASE h = Len(chain) + 1 /\ \E i \in DOMAIN liquid : liquid[i].id = common
  <2>1. common \in LiquidIds
    BY <1>6 DEF LiquidIds
  <2>2. chain' = chain /\ liquid' = liquid /\ task' = [task EXCEPT !.pc = "reapply"]
    BY <2>1 DEF ExtensionRestore, vars
  <2>3. SubSeq(view, 1, h) = view
    <3>1. /\ view \in Seq(Id) /\ Len(chain) \in Nat /\ Len(view) \in {Len(chain), Len(chain) + 1}
      BY <1>1, ViewOfIs
    <3> HIDE DEF view
    <3>2. h = Len(view)
      BY <1>3, <1>6, <3>1
    <3> QED
      BY <3>1, <3>2, WholeSubSeq
  <2> QED
    BY <1>4, <2>2, <2>3 DEF ValidInv
<1> QED
  BY <1>3, <1>5, <1>6 DEF CommonAt

\* One block moves from the way back to the chain.
LEMMA ShiftHead ==
  ASSUME NEW s \in Seq(Id), NEW D \in Seq(Block), D # <<>>
  PROVE  /\ s \o IdsOf(D) \in Seq(Id) /\ Len(s) + 1 \in 1..Len(s \o IdsOf(D))
         /\ \A i \in 1..Len(s) : (s \o IdsOf(D))[i] = s[i]
         /\ (s \o IdsOf(D))[Len(s) + 1] = Head(D).id
         /\ Append(s, Head(D).id) \o IdsOf(Tail(D)) = s \o IdsOf(D)
<1> DEFINE d == IdsOf(D)
           T == Tail(D)
           t == IdsOf(T)
           x == Head(D).id
           o == s \o d
           n == Len(s)
           m == Len(T)
<1>1. /\ Head(D) = D[1] /\ T \in Seq(Block) /\ Len(D) \in Nat \ {0} /\ m = Len(D) - 1
      /\ \A i \in 1..(Len(D) - 1) : T[i] = D[i + 1]
  BY HeadTail
<1>2. d \in Seq(Id) /\ Len(d) = Len(D) /\ \A i \in 1..Len(D) : d[i] = D[i].id /\ D[i].id \in Id
  BY BlockIds
<1>4. n \in Nat
  OBVIOUS
<1> HIDE DEF d, T
<1>3. t \in Seq(Id) /\ Len(t) = m /\ m \in Nat /\ \A i \in 1..m : t[i] = T[i].id
  BY <1>1, BlockIds
<1> HIDE DEF t
<1>5. Len(D) = m + 1 /\ 1 \in 1..(m + 1)
  BY <1>1, <1>3
<1>6. x = d[1] /\ x \in Id /\ \A i \in 1..m : t[i] = d[i + 1]
  <2>1. x = d[1] /\ x \in Id
    BY <1>1, <1>2, <1>5
  <2>2. ASSUME NEW i \in 1..m
        PROVE  t[i] = d[i + 1]
    <3>1. i + 1 \in 1..Len(D) /\ i \in 1..(Len(D) - 1)
      BY <1>1, <1>3, <1>5
    <3> QED
      BY <1>1, <1>2, <1>3, <3>1
  <2> QED
    BY <2>1, <2>2
<1> HIDE DEF x
<1>7. /\ o \in Seq(Id) /\ Len(o) = n + (m + 1)
      /\ \A i \in 1..(n + (m + 1)) : o[i] = IF i <= n THEN s[i] ELSE d[i - n]
  <2>1. /\ o \in Seq(Id) /\ Len(o) = Len(s) + Len(d)
        /\ \A i \in 1..(Len(s) + Len(d)) : o[i] = IF i <= Len(s) THEN s[i] ELSE d[i - Len(s)]
    BY <1>2, ConcatProperties
  <2>2. Len(s) = n /\ Len(d) = m + 1
    BY <1>2, <1>5
  <2> HIDE DEF n, m, o
  <2> QED
    BY <2>1, <2>2, Zenon
<1> DEFINE a == Append(s, x)
           b == a \o t
<1>8. /\ a \in Seq(Id) /\ Len(a) = n + 1 /\ a[n + 1] = x /\ \A i \in 1..n : a[i] = s[i]
  BY <1>4, <1>6
<1> HIDE DEF a, o
<1>9. /\ b \in Seq(Id) /\ Len(b) = (n + 1) + m
      /\ \A i \in 1..((n + 1) + m) : b[i] = IF i <= n + 1 THEN a[i] ELSE t[i - (n + 1)]
  <2>1. /\ b \in Seq(Id) /\ Len(b) = Len(a) + Len(t)
        /\ \A i \in 1..(Len(a) + Len(t)) : b[i] = IF i <= Len(a) THEN a[i] ELSE t[i - Len(a)]
    <3>1. a \in Seq(Id) /\ t \in Seq(Id)
      BY <1>3, <1>8
    <3> QED
      BY <3>1, ConcatProperties
  <2>2. Len(a) = n + 1 /\ Len(t) = m
    BY <1>3, <1>8
  <2> HIDE DEF n, m, b
  <2> QED
    BY <2>1, <2>2, Zenon
<1> HIDE DEF b, n, m
<1>10. /\ (n + 1) + m = n + (m + 1) /\ n + 1 \in 1..(n + (m + 1)) /\ (n + 1) - n = 1
       /\ ~(n + 1 <= n)
  BY <1>3, <1>4
<1>11. \A i \in 1..n : i \in 1..(n + (m + 1)) /\ i <= n
  BY <1>3, <1>4
<1>12. o[n + 1] = x /\ \A i \in 1..n : o[i] = s[i]
  BY <1>6, <1>7, <1>10, <1>11
<1>13. ASSUME NEW i \in 1..(n + (m + 1))
       PROVE  b[i] = o[i]
  <2>1. CASE i <= n
    <3>1. i \in 1..n /\ i <= n + 1
      BY <1>4, <2>1
    <3> QED
      BY <1>8, <1>9, <1>10, <1>12, <3>1
  <2>2. CASE i = n + 1
    <3>1. i <= n + 1
      BY <1>4, <2>2
    <3> QED
      BY <1>8, <1>9, <1>10, <1>12, <2>2, <3>1
  <2>3. CASE ~(i <= n + 1)
    <3> DEFINE k == i - (n + 1)
    <3>1. k \in 1..m /\ k + 1 = i - n /\ ~(i <= n)
      BY <1>3, <1>4, <2>3
    <3> HIDE DEF k
    <3>2. b[i] = t[k] /\ o[i] = d[k + 1]
      BY <1>7, <1>9, <1>10, <2>3, <3>1 DEF k
    <3> QED
      BY <1>6, <3>1, <3>2
  <2>4. i <= n \/ i = n + 1 \/ ~(i <= n + 1)
    BY <1>3, <1>4
  <2> QED
    BY <2>1, <2>2, <2>3, <2>4
<1>14. b = o
  BY <1>7, <1>9, <1>10, <1>13, SeqEqual
<1> QED
  BY <1>7, <1>10, <1>12, <1>14 DEF b, a, o, x, t, T, d, n, m

\* Each dropped block applies again, where it was.
LEMMA BackReapply ==
  ASSUME Sound, AppenderTypes, ValidInv, BackInv, Supported, ExtensionReapply
  PROVE  ValidOf(chain', liquid') /\ BackOf(chain', liquid', safe', task')
<1> DEFINE view == ViewOf(chain, liquid)
           D == task.dropped
           id == Head(D).id
           old == view \o IdsOf(D)
           p == ParentChain(id)
           k == Len(view) + 1
<1>1. /\ TypeOK /\ task \in Task /\ D \in Seq(Block) /\ D # <<>> /\ task.pc = "reapply"
  BY TaskFields DEF Sound, AppenderTypes, AppenderTypeOK, ExtensionReapply
<1>2. /\ view # <<>> /\ ValidChain(old) /\ task.start.headers = Headers(old)
      /\ \A i \in DOMAIN D : Content[D[i].id] = D[i].txs
  BY <1>1 DEF BackInv, BackOf, Back
<1>3. view \in Seq(Id)
  BY <1>1, ViewOfIs
<1>4. /\ old \in Seq(Id) /\ k \in 1..Len(old) /\ old[k] = id
      /\ \A i \in 1..Len(view) : old[i] = view[i]
      /\ Append(view, id) \o IdsOf(Tail(D)) = old
  BY <1>1, <1>3, ShiftHead
<1>5. /\ Head(D) = D[1] /\ Tail(D) \in Seq(Block) /\ Len(D) \in Nat \ {0}
      /\ Len(Tail(D)) = Len(D) - 1
      /\ \A i \in 1..(Len(D) - 1) : Tail(D)[i] = D[i + 1]
  BY <1>1, HeadTail
<1>6. id \in Id /\ 1 \in DOMAIN D
  BY <1>1, <1>5, BlockIds
<1>7. Content[id] = Head(D).txs
  BY <1>2, <1>5, <1>6
<1>8. IsLastBlockId(view[Len(view)])
  BY <1>1, <1>2, LastOfView
<1> HIDE DEF view, D, id, old, p
<1>9. /\ Ref(id) = view[Len(view)]
      /\ Len(Content[id]) <= MaxTxs /\ Applies(Past(view, Len(view)), Content[id])
  <2>1. Len(view) \in Nat \ {0} /\ k # 1 /\ k - 1 = Len(view) /\ Len(view) \in 1..Len(view)
    BY <1>2, <1>3
  <2>2. ValidAt(old, k)
    BY <1>2, <1>4 DEF ValidChain
  <2>3. Past(old, Len(view)) = Past(view, Len(view))
    BY <1>4, <2>1, PastSame
  <2>4. old[Len(view)] = view[Len(view)]
    BY <1>4, <2>1
  <2> HIDE DEF k
  <2> QED
    BY <1>4, <2>1, <2>2, <2>3, <2>4 DEF ValidAt
<1>10. p = view
  BY <1>6, <1>8, <1>9, ParentView DEF p, view
<1>11. Accepts(id)
  <2>1. IsLastBlockId(Ref(id)) /\ Applies(Past(p, Len(p)), Content[id])
    BY <1>8, <1>9, <1>10
  <2> QED
    BY <1>6, <1>9, <2>1, OnTopAccepts DEF p
<1>12. ProcessBlock(id) /\ task' = [task EXCEPT !.dropped = Tail(D)]
  BY <1>7, <1>11 DEF ExtensionReapply, D, id
<1>13. task'.pc = "reapply" /\ task'.dropped = Tail(D) /\ task'.start = task.start
  BY <1>1, <1>5, <1>12, TaskDroppedNext
<1>14. ViewOf(chain', liquid') = Append(view, id) /\ ValidOf(chain', liquid')
  <2>1. ViewOf(chain', liquid') = Append(p, id) /\ ValidOf(chain', liquid')
    BY <1>6, <1>8, <1>9, <1>12, OnTopView, AppendValid DEF p
  <2> QED
    BY <1>10, <2>1
<1>15. ASSUME NEW i \in DOMAIN Tail(D)
       PROVE  Content[Tail(D)[i].id] = Tail(D)[i].txs
  <2>1. i \in 1..(Len(D) - 1) /\ i + 1 \in DOMAIN D
    <3>1. DOMAIN Tail(D) = 1..Len(Tail(D)) /\ DOMAIN D = 1..Len(D)
      BY <1>1, <1>5
    <3> QED
      BY <1>5, <3>1
  <2> QED
    BY <1>2, <1>5, <2>1
<1>16. Append(view, id) # <<>>
  <2>1. Len(Append(view, id)) = Len(view) + 1 /\ Len(view) \in Nat
    BY <1>3, <1>6
  <2> QED
    BY <2>1
<1>17. Back(Append(view, id), task')
  BY <1>2, <1>4, <1>13, <1>15, <1>16 DEF Back
<1> QED
  BY <1>13, <1>14, <1>17 DEF BackOf

LEMMA BackDecline ==
  ASSUME Sound, AppenderTypes, ValidInv, BackInv, ExtensionDecline
  PROVE  ValidOf(chain', liquid') /\ BackOf(chain', liquid', safe', task')
<1>1. /\ task \in Task /\ task.pc = "apply"
      /\ chain' = chain /\ liquid' = liquid /\ safe' = safe
      /\ task' = [task EXCEPT !.pc = "restore"]
  BY DEF AppenderTypes, AppenderTypeOK, ExtensionDecline, vars
<1>2. /\ task'.pc = "restore" /\ task'.todo = task.todo /\ task'.common = task.common
      /\ task'.dropped = task.dropped /\ task'.start = task.start
  BY <1>1, TaskPcNext DEF TaskPc
<1>3. PICK h \in Nat : BackAt(chain, liquid, safe, task, h)
  BY <1>1 DEF BackInv, BackOf
<1>4. Back(SubSeq(ViewOf(chain, liquid), 1, h), task')
  BY <1>2, <1>3, BackSame DEF BackAt
<1>5. BackAt(chain, liquid, safe, task', h)
  BY <1>2, <1>3, <1>4 DEF BackAt, CommonAt
<1> QED
  BY <1>1, <1>2, <1>5 DEF BackOf, ValidInv

LEMMA BackStale ==
  ASSUME AppenderTypes, ValidInv, BackInv, NEW t, RemoveStale(t)
  PROVE  ValidOf(chain', liquid') /\ BackOf(chain', liquid', safe', task')
<1>1. /\ chain' = chain /\ liquid' = liquid /\ safe' = safe
      /\ task'.pc = task.pc /\ task'.todo = task.todo /\ task'.common = task.common
      /\ task'.dropped = task.dropped /\ task'.start.headers = task.start.headers
  BY TaskStartNext DEF RemoveStale, vars, AppenderTypes, AppenderTypeOK
<1>2. \A s : Back(s, task) => Back(s, task')
  BY <1>1, BackSame
<1>3. \A h : BackAt(chain, liquid, safe, task, h) => BackAt(chain, liquid, safe, task', h)
  BY <1>1, <1>2 DEF BackAt, CommonAt
<1> QED
  BY <1>1, <1>2, <1>3 DEF BackOf, BackInv, ValidInv

LEMMA BackStep ==
  ASSUME HonestMicroBlocks, Sound, RestMatchesLiquid, SafeInv, AppenderTypes, OnTopInv,
         ValidInv, BackInv, Supported, [AppenderNext]_appenderVars
  PROVE  ValidOf(chain', liquid') /\ BackOf(chain', liquid', safe', task')
<1>1. TypeOK
  BY DEF Sound
<1>2. ASSUME task' = task, task.pc = "idle"
      PROVE  BackOf(chain', liquid', safe', task')
  BY <1>2 DEF BackOf
<1>3. ASSUME task' = Idle
      PROVE  BackOf(chain', liquid', safe', task')
  BY <1>3 DEF BackOf, Idle
<1>4. ASSUME task' = task, chain' = chain, liquid' = liquid, safe' = safe
      PROVE  ValidOf(chain', liquid') /\ BackOf(chain', liquid', safe', task')
  BY <1>4 DEF ValidInv, BackInv
<1>5. ASSUME chain' = chain, liquid' = liquid
      PROVE  ValidOf(chain', liquid')
  BY <1>5 DEF ValidInv
<1>6. ASSUME NEW id \in Id, BlockAppender(id)
      PROVE  ValidOf(chain', liquid') /\ BackOf(chain', liquid', safe', task')
  <2>1. /\ IsLastBlockId(Ref(id)) /\ ProcessBlock(id)
        /\ task' = task /\ task.pc = "idle"
    BY <1>6 DEF BlockAppender, AppendBlock
  <2> QED
    BY <1>2, <2>1, AppendValid
<1>7. ASSUME NEW id \in Id, DebugRollback(id)
      PROVE  ValidOf(chain', liquid') /\ BackOf(chain', liquid', safe', task')
  <2>1. task' = task /\ task.pc = "idle" /\ (UNCHANGED vars \/ RemoveAfter(id))
    BY <1>7 DEF DebugRollback
  <2>2. ValidOf(chain', liquid')
    BY <1>1, <1>5, <2>1, RemoveValid DEF vars
  <2> QED
    BY <1>2, <2>1, <2>2
<1>8. ASSUME NEW m \in MicroBlock, MicroblockAppender(m)
      PROVE  ValidOf(chain', liquid') /\ BackOf(chain', liquid', safe', task')
  BY <1>2, <1>8, MicroValid DEF MicroblockAppender
<1>9. ASSUME NEW e \in Extensions, ExtensionStart(e)
      PROVE  ValidOf(chain', liquid') /\ BackOf(chain', liquid', safe', task')
  <2>1. BackOf(chain', liquid', safe', task')
    BY <1>9, BackStart
  <2>2. UNCHANGED vars \/ RemoveAfter(Ref(Head(NewBlocks(e))))
    BY <1>9 DEF ExtensionStart
  <2>3. Ref(Head(NewBlocks(e))) \in Id
    BY <1>1, <1>9, ContainedIsId DEF ExtensionStart
  <2>4. ValidOf(chain', liquid')
    BY <1>1, <1>5, <2>2, <2>3, RemoveValid DEF vars
  <2> QED
    BY <2>1, <2>4
<1>10. CASE ExtensionApply
  BY <1>10, BackApply
<1>11. CASE ExtensionDecline
  BY <1>11, BackDecline
<1>12. CASE ExtensionDone \/ ExtensionFailed
  BY <1>3, <1>5, <1>12 DEF ExtensionDone, ExtensionFailed, vars
<1>13. CASE ExtensionRestore
  BY <1>13, BackRestore
<1>14. CASE ExtensionReapply
  BY <1>14, BackReapply
<1>15. ASSUME NEW t \in Tx, CheckTx(t) \/ PutTx(t) \/ JudgeTx(t) \/ RemoveStale(t)
       PROVE  ValidOf(chain', liquid') /\ BackOf(chain', liquid', safe', task')
  <2>1. CASE RemoveStale(t)
    BY <2>1, BackStale
  <2> QED
    BY <1>4, <1>15, <2>1 DEF CheckTx, PutTx, JudgeTx, vars
<1>16. ASSUME NEW id \in Id, Forget(id)
       PROVE  ValidOf(chain', liquid') /\ BackOf(chain', liquid', safe', task')
  BY <1>4, <1>16 DEF Forget, vars
<1>17. CASE NodeRestart
  BY <1>1, <1>3, <1>17, RestartValid DEF NodeRestart
<1>18. CASE UNCHANGED appenderVars
  BY <1>4, <1>18 DEF appenderVars, vars
<1> QED
  BY <1>6, <1>7, <1>8, <1>9, <1>10, <1>11, <1>12, <1>13, <1>14, <1>15, <1>16, <1>17, <1>18
     DEF AppenderNext, ExtensionStep

LEMMA BackInit == AppenderInit => ValidInv /\ BackInv
<1> SUFFICES ASSUME AppenderInit PROVE ValidInv /\ BackInv
  OBVIOUS
<1>1. chain = <<>> /\ liquid = <<FirstVersion(Genesis, 0)>> /\ task.pc = "idle"
  BY DEF AppenderInit, Init, Idle
<1>2. IdsOf(chain) = <<>>
  BY <1>1 DEF IdsOf
<1>3. \A i \in DOMAIN liquid : liquid[i].id = Genesis
  BY <1>1 DEF FirstVersion
<1> QED
  BY <1>1, <1>2, <1>3, GenesisValid DEF ValidInv, ValidOf, BackInv, BackOf

\* What holds beneath the appenders, because it holds of the updater
LEMMA SoundCorrect ==
  ASSUME HonestMicroBlocks
  PROVE  AppenderSpec => [](Sound /\ RestMatchesLiquid /\ SafeInv)
<1>1. AppenderSpec => []TypeOK
  BY AppenderIsUpdater, TypeCorrect, PTL
<1>2. AppenderSpec => []AgesInv
  BY AppenderIsUpdater, AgesCorrect, PTL
<1>3. AppenderSpec => []VersionsInv
  <2>1. Spec => []VersionsInv
    BY VersionsCorrect
  <2> QED
    BY <2>1, AppenderIsUpdater, PTL
<1>4. AppenderSpec => []SignedAsPersisted
  BY AppenderIsUpdater, ChainSigned, PTL
<1>5. AppenderSpec => []RestMatchesLiquid /\ []SafeInv
  BY AppenderIsUpdater, RestCorrect, SafeCorrect, PTL
<1>6. TypeOK /\ AgesInv /\ VersionsInv /\ SignedAsPersisted => Sound
  BY DEF Sound
<1> QED
  BY <1>1, <1>2, <1>3, <1>4, <1>5, <1>6, PTL

\* As long as no feature is active that the node does not implement, and if the
\* generators sign their microblocks, the chain is valid from the first block
\* on, and every extension that is under way has its way back.
THEOREM BackCorrect ==
  ASSUME HonestMicroBlocks
  PROVE  AppenderSpec /\ []Supported => [](ValidInv /\ BackInv)
<1>1. ASSUME Sound, RestMatchesLiquid, SafeInv, AppenderTypes, OnTopInv, ValidInv, BackInv,
             Supported, [AppenderNext]_appenderVars
      PROVE  ValidOf(chain', liquid') /\ BackOf(chain', liquid', safe', task')
  BY <1>1, BackStep
<1>2. /\ ValidOf(chain', liquid') => ValidInv'
      /\ BackOf(chain', liquid', safe', task') => BackInv'
  BY DEF ValidInv, BackInv
<1>3. /\ Sound /\ RestMatchesLiquid /\ SafeInv /\ AppenderTypes /\ OnTopInv /\ ValidInv /\ BackInv
      /\ Supported /\ [AppenderNext]_appenderVars
      => ValidInv' /\ BackInv'
  BY <1>1, <1>2
<1>4. AppenderSpec => [](Sound /\ RestMatchesLiquid /\ SafeInv)
  BY SoundCorrect
<1> QED
  BY <1>3, <1>4, BackInit, OnTopCorrect, AppenderTypeCorrect, PTL DEF AppenderSpec

\* Neither explicitGet of ExtensionAppender throws, for every block tree, every
\* extension and every limit.
THEOREM RestoreCorrect ==
  ASSUME HonestMicroBlocks
  PROVE  AppenderSpec /\ []Supported => []RestoreNeverThrows
<1>1. BackInv => RestoreNeverThrows
  BY DEF BackInv, BackOf, RestoreNeverThrows
<1>2. AppenderSpec /\ []Supported => [](ValidInv /\ BackInv)
  BY BackCorrect
<1> QED
  BY <1>1, <1>2, PTL

-----------------------------------------------------------------------------
(* The score of the chain that a failed extension leaves.                  *)

\* s is what the blocks with these headers add up to, by the partial sums f.
SumsOf(headers, f) ==
  /\ f[0] = 0
  /\ \A i \in 1..Len(headers) : f[i] = f[i - 1] + Score[headers[i]]

ScoreIs(headers, s) ==
  \E f \in [0..Len(headers) -> Nat] : SumsOf(headers, f) /\ f[Len(headers)] = s

\* Blocks add up to one score only.
LEMMA ScoreUnique ==
  ASSUME NEW H \in Seq(Header), NEW s, NEW t, ScoreIs(H, s), ScoreIs(H, t)
  PROVE  s = t
<1> DEFINE n == Len(H)
<1>1. n \in Nat
  OBVIOUS
<1>2. PICK f \in [0..n -> Nat] : SumsOf(H, f) /\ f[n] = s
  BY DEF ScoreIs
<1>3. PICK g \in [0..n -> Nat] : SumsOf(H, g) /\ g[n] = t
  BY DEF ScoreIs
<1> DEFINE D == {i \in 0..n : f[i] # g[i]}
<1>4. D = {}
  <2> SUFFICES ASSUME D # {} PROVE FALSE
    OBVIOUS
  <2>1. D \subseteq Nat
    BY <1>1
  <2> HIDE DEF D
  <2>2. PICK k \in D : \A x \in D : k <= x
    BY <2>1, NatLeast
  <2>3. k \in 0..n /\ f[k] # g[k]
    BY <2>2 DEF D
  <2>4. f[0] = 0 /\ g[0] = 0
    BY <1>2, <1>3 DEF SumsOf
  <2>5. k \in 1..n /\ k - 1 \in 0..n /\ ~(k <= k - 1)
    BY <1>1, <2>3, <2>4
  <2>6. f[k - 1] = g[k - 1]
    BY <2>2, <2>5 DEF D
  <2>7. f[k] = f[k - 1] + Score[H[k]] /\ g[k] = g[k - 1] + Score[H[k]]
    BY <1>2, <1>3, <2>5 DEF SumsOf
  <2> QED
    BY <2>3, <2>6, <2>7
<1>5. n \in 0..n
  BY <1>1
<1> QED
  BY <1>2, <1>3, <1>4, <1>5

\* Each persisted block adds its score to that of the block below it.
ScoredOf(c) ==
  \A h \in DOMAIN c :
    c[h].score = (IF h = 1 THEN 0 ELSE c[h - 1].score) + Score[HeaderOf[c[h].id]]

ScoredInv == ScoredOf(chain)

LEMMA ScoredPrefix ==
  ASSUME TypeOK, ScoredInv, Len(chain') <= Len(chain), Len(chain') \in Nat,
         DOMAIN chain' = 1..Len(chain'),
         \A h \in 1..Len(chain') : chain'[h] = chain[h]
  PROVE  ScoredOf(chain')
<1>1. Len(chain) \in Nat /\ DOMAIN chain = 1..Len(chain)
  BY ElementTypes
<1>2. ASSUME NEW h \in 1..Len(chain')
      PROVE  chain'[h].score
               = (IF h = 1 THEN 0 ELSE chain'[h - 1].score) + Score[HeaderOf[chain'[h].id]]
  <2>1. h \in 1..Len(chain) /\ (h # 1 => h - 1 \in 1..Len(chain'))
    BY <1>1
  <2>2. chain'[h] = chain[h] /\ (h # 1 => chain'[h - 1] = chain[h - 1])
    BY <2>1
  <2>3. chain[h].score
          = (IF h = 1 THEN 0 ELSE chain[h - 1].score) + Score[HeaderOf[chain[h].id]]
    BY <1>1, <2>1 DEF ScoredInv, ScoredOf
  <2> QED
    BY <2>2, <2>3
<1> QED
  BY <1>2 DEF ScoredOf

LEMMA ScoredHarden ==
  ASSUME TypeOK, ScoredInv, NEW id \in Id, NEW i \in DOMAIN liquid, liquid[i] \in Version,
         Extends(id, i), Harden(liquid[i])
  PROVE  ScoredOf(chain')
<1> DEFINE n == Len(chain)
<1>1. /\ DOMAIN chain' = 1..(n + 1) /\ \A h \in 1..n : chain'[h] = chain[h]
      /\ chain'[n + 1].id = liquid[i].id /\ chain'[n + 1].score = ViewScore
  BY HardenEffect
<1>2. /\ n \in Nat /\ DOMAIN chain = 1..n /\ liquid # <<>>
      /\ chain # <<>> => Last(chain) = chain[n]
      /\ chain = <<>> <=> n = 0
  <2>1. chain \in Seq(Persisted)
    BY DEF TypeOK
  <2>2. chain = <<>> <=> n = 0
    BY <2>1
  <2> QED
    BY <2>2, ElementTypes
<1>3. HeaderOf[liquid[i].id] = HeaderOf[Base.id]
  BY DEF Extends, SignaturesValid, Base
<1>4. ViewScore = (IF n = 0 THEN 0 ELSE chain[n].score) + Score[HeaderOf[liquid[i].id]]
  BY <1>2, <1>3 DEF ViewScore, PersistedScore
<1> HIDE DEF n
<1>5. /\ (n + 1) - 1 = n /\ (n + 1 = 1 <=> n = 0) /\ (n # 0 => n \in 1..n)
      /\ \A h \in 1..(n + 1) : h \in 1..n \/ h = n + 1
      /\ \A h \in 1..n : h # 1 => h - 1 \in 1..n
  BY <1>2
<1>6. \A h \in 1..n : chain[h].score
                        = (IF h = 1 THEN 0 ELSE chain[h - 1].score) + Score[HeaderOf[chain[h].id]]
  BY <1>2 DEF ScoredInv, ScoredOf
<1>7. ASSUME NEW h \in 1..n
      PROVE  chain'[h].score
               = (IF h = 1 THEN 0 ELSE chain'[h - 1].score) + Score[HeaderOf[chain'[h].id]]
  <2>1. chain'[h] = chain[h] /\ (h # 1 => chain'[h - 1] = chain[h - 1])
    BY <1>1, <1>5
  <2> QED
    BY <1>6, <2>1
<1>8. LET h == n + 1
      IN  chain'[h].score
            = (IF h = 1 THEN 0 ELSE chain'[h - 1].score) + Score[HeaderOf[chain'[h].id]]
  <2>1. n # 0 => chain'[n] = chain[n]
    BY <1>1, <1>5
  <2> QED
    BY <1>1, <1>4, <1>5, <2>1
<1>9. ASSUME NEW h \in DOMAIN chain'
      PROVE  chain'[h].score
               = (IF h = 1 THEN 0 ELSE chain'[h - 1].score) + Score[HeaderOf[chain'[h].id]]
  <2>1. h \in 1..n \/ h = n + 1
    BY <1>1, <1>5
  <2> QED
    BY <1>7, <1>8, <2>1
<1> QED
  BY <1>9 DEF ScoredOf

LEMMA ScoredCorrect == Spec => []ScoredInv
<1>1. Init => ScoredInv
  BY DEF Init, ScoredInv, ScoredOf
<1>2. TypeOK /\ ScoredInv /\ [Next]_vars => ScoredInv'
  <2> SUFFICES ASSUME TypeOK, ScoredInv, [Next]_vars
               PROVE  ScoredOf(chain')
    BY DEF ScoredInv
  <2>1. ASSUME chain' = chain
        PROVE  ScoredOf(chain')
    BY <2>1 DEF ScoredInv
  <2>2. ASSUME NEW id \in Id, ProcessBlock(id)
        PROVE  ScoredOf(chain')
    BY <2>1, <2>2, ProcessBlockCases, ScoredHarden DEF OnPersisted
  <2>3. ASSUME NEW id \in Id, RemoveAfter(id)
        PROVE  ScoredOf(chain')
    <3>1. /\ Len(chain') <= Len(chain) /\ Len(chain') \in Nat
          /\ \A h \in 1..Len(chain') : chain'[h] = chain[h]
      BY <2>3, PrefixEffect
    <3>2. chain' \in Seq(Persisted)
      BY <2>3, TypeStep DEF Next, TypeOK
    <3>3. DOMAIN chain' = 1..Len(chain')
      BY <3>2
    <3> QED
      BY <3>1, <3>3, ScoredPrefix
  <2> QED
    BY <2>1, <2>2, <2>3 DEF Next, ProcessMicroBlock, Restart, vars
<1> QED
  BY <1>1, <1>2, TypeCorrect, PTL DEF Spec

\* The score of the node's chain is what its blocks add up to.
LEMMA ViewScoreIs ==
  ASSUME Sound, ScoredInv
  PROVE  ScoreIs(ViewHeaders, ViewScore)
<1> DEFINE n == Len(chain)
           H == ViewHeaders
           f == [i \in 0..Height |-> IF i = 0 THEN 0
                                     ELSE IF i <= n THEN chain[i].score ELSE ViewScore]
<1>1. TypeOK /\ VersionsInv
  BY DEF Sound
<1>2. /\ n \in Nat /\ Height \in {n, n + 1} /\ Height \in Nat
      /\ liquid = <<>> => Height = n
      /\ liquid # <<>> => Height = n + 1 /\ Best.id = liquid[Len(liquid)].id
      /\ DOMAIN chain = 1..n
  <2>1. n \in Nat /\ Height \in {n, n + 1} /\ DOMAIN chain = 1..n
    BY <1>1, ElementTypes, ViewOfIs
  <2>2. liquid = <<>> => Height = n
    BY <2>1 DEF Height
  <2>3. liquid # <<>> => Height = n + 1 /\ Best.id = liquid[Len(liquid)].id
    BY <1>1, ElementTypes DEF Height
  <2>4. Height \in Nat
    BY <1>1, ViewHeadersType
  <2> QED
    BY <2>1, <2>2, <2>3, <2>4, Zenon
<1>3. /\ chain # <<>> => Last(chain) = chain[n]
      /\ chain = <<>> <=> n = 0
      /\ \A h \in 1..n : chain[h].score \in Nat
  <2>1. chain \in Seq(Persisted)
    BY <1>1 DEF TypeOK
  <2>2. chain = <<>> <=> n = 0
    BY <2>1
  <2> QED
    BY <1>1, <2>2, ElementTypes
<1>4. ViewScore \in Nat
  BY <1>1, ViewType DEF ViewOK, DataOK, TypeOK
<1>5. Len(H) = Height
  BY <1>1, ViewHeadersType
<1>6. \A h \in 1..Height : H[h] = HeaderOf[IF h <= n THEN chain[h].id ELSE Best.id]
  BY DEF ViewHeaders
<1>7. liquid # <<>> => HeaderOf[Best.id] = HeaderOf[Base.id]
  BY <1>1, ElementTypes DEF VersionsInv, VersionsOf
<1>8. /\ ViewScore = (IF n = 0 THEN 0 ELSE chain[n].score)
                       + (IF liquid = <<>> THEN 0 ELSE Score[HeaderOf[Base.id]])
  BY <1>3 DEF ViewScore, PersistedScore
<1>9. \A h \in 1..n : chain[h].score
                        = (IF h = 1 THEN 0 ELSE chain[h - 1].score) + Score[HeaderOf[chain[h].id]]
  <2>1. \A h \in DOMAIN chain :
          chain[h].score
            = (IF h = 1 THEN 0 ELSE chain[h - 1].score) + Score[HeaderOf[chain[h].id]]
    BY Zenon DEF ScoredInv, ScoredOf
  <2>2. DOMAIN chain = 1..n
    BY <1>2, Zenon
  <2> QED
    BY <2>1, <2>2, Zenon
<1> HIDE DEF n, H
<1>10. f \in [0..Height -> Nat]
  <2>1. \A i \in 0..Height :
          (IF i = 0 THEN 0 ELSE IF i <= n THEN chain[i].score ELSE ViewScore) \in Nat
    <3> TAKE i \in 0..Height
    <3>1. i = 0 \/ i \in 1..n \/ ~(i <= n)
      BY <1>2
    <3> QED
      BY <1>3, <1>4, <3>1
  <2> QED
    BY <2>1
<1>11. /\ f[0] = 0
       /\ \A i \in 1..n : f[i] = chain[i].score
       /\ liquid # <<>> => f[n + 1] = ViewScore
  <2>1. 0 \in 0..Height /\ ~(n + 1 <= n) /\ n + 1 # 0
    BY <1>2
  <2>2. \A i \in 1..n : i \in 0..Height /\ i # 0 /\ i <= n
    BY <1>2
  <2>3. liquid # <<>> => n + 1 \in 0..Height
    BY <1>2
  <2> QED
    BY <2>1, <2>2, <2>3
<1> HIDE DEF f
<1>12. ASSUME NEW i \in 1..Height
       PROVE  f[i] = f[i - 1] + Score[H[i]]
  <2>1. CASE i <= n
    <3>1. i \in 1..n /\ (i # 1 => i - 1 \in 1..n) /\ (i = 1 => i - 1 = 0)
      BY <1>2, <2>1
    <3>2. f[i - 1] = IF i = 1 THEN 0 ELSE chain[i - 1].score
      BY <1>11, <3>1
    <3>3. H[i] = HeaderOf[chain[i].id]
      BY <1>6, <2>1
    <3> QED
      BY <1>9, <1>11, <3>1, <3>2, <3>3
  <2>2. CASE ~(i <= n)
    <3>1. i = n + 1 /\ liquid # <<>> /\ i - 1 = n /\ (n # 0 => n \in 1..n)
      BY <1>2, <2>2
    <3>2. f[n] = IF n = 0 THEN 0 ELSE chain[n].score
      BY <1>11, <3>1
    <3>3. H[i] = HeaderOf[Base.id]
      BY <1>6, <1>7, <2>2, <3>1
    <3> QED
      BY <1>8, <1>11, <3>1, <3>2, <3>3
  <2> QED
    BY <2>1, <2>2
<1>13. f[Height] = ViewScore
  <2>1. CASE liquid # <<>>
    BY <1>2, <1>11, <2>1
  <2>2. CASE liquid = <<>>
    <3>1. Height = n /\ (n # 0 => n \in 1..n)
      BY <1>2, <2>2
    <3>2. ViewScore = IF n = 0 THEN 0 ELSE chain[n].score
      <4>1. n # 0 => chain[n].score \in Nat
        BY <1>3, <3>1
      <4> QED
        BY <1>8, <2>2, <4>1
    <3> QED
      BY <1>11, <3>1, <3>2
  <2> QED
    BY <2>1, <2>2
<1> QED
  BY <1>5, <1>10, <1>11, <1>12, <1>13 DEF ScoreIs, SumsOf, H

\* The score that the task remembers is that of the headers it remembers.
StartOf(t) == t.pc # "idle" => ScoreIs(t.start.headers, t.start.score)

StartInv == StartOf(task)

LEMMA StartStep ==
  ASSUME Sound, ScoredInv, AppenderTypes, StartInv, [AppenderNext]_appenderVars
  PROVE  StartOf(task')
<1>1. ASSUME task' = task \/ task' = Idle
      PROVE  StartOf(task')
  BY <1>1 DEF StartInv, StartOf, Idle
<1>2. ASSUME task.pc # "idle", task'.start = task.start
      PROVE  StartOf(task')
  BY <1>2 DEF StartInv, StartOf
<1>3. task \in Task /\ task.todo \in Seq(Id) /\ task.dropped \in Seq(Block)
  BY TaskFields DEF AppenderTypes, AppenderTypeOK
<1>4. ASSUME NEW e \in Extensions, ExtensionStart(e)
      PROVE  StartOf(task')
  <2>1. task' = Idle \/ task'.start = Snapshot
    BY <1>4 DEF ExtensionStart
  <2>2. Snapshot.headers = ViewHeaders /\ Snapshot.score = ViewScore
    BY DEF Snapshot
  <2>3. ScoreIs(ViewHeaders, ViewScore)
    BY ViewScoreIs
  <2> QED
    BY <1>1, <2>1, <2>2, <2>3 DEF StartOf
<1>5. CASE ExtensionApply
  <2>1. Tail(task.todo) \in Seq(Id)
    BY <1>3, <1>5, HeadTail DEF ExtensionApply
  <2> QED
    BY <1>2, <1>3, <1>5, <2>1, TaskTodoNext DEF ExtensionApply
<1>6. CASE ExtensionDecline
  BY <1>2, <1>3, <1>6, TaskPcNext DEF ExtensionDecline, TaskPc
<1>7. CASE ExtensionRestore
  <2>1. \E pc \in TaskPc : task' = [task EXCEPT !.pc = pc]
    BY <1>7 DEF ExtensionRestore, TaskPc
  <2>2. task.pc # "idle" /\ task'.start = task.start
    BY <1>3, <1>7, <2>1, TaskPcNext DEF ExtensionRestore
  <2> QED
    BY <1>2, <2>2
<1>8. CASE ExtensionReapply
  <2>1. task.pc # "idle" /\ Tail(task.dropped) \in Seq(Block)
    BY <1>3, <1>8, HeadTail DEF ExtensionReapply
  <2>2. CASE task' = [task EXCEPT !.dropped = Tail(task.dropped)]
    BY <1>2, <1>3, <2>1, <2>2, TaskDroppedNext
  <2>3. CASE task' = [task EXCEPT !.pc = "thrown"]
    BY <1>2, <1>3, <2>1, <2>3, TaskPcNext DEF TaskPc
  <2> QED
    BY <1>8, <2>2, <2>3 DEF ExtensionReapply
<1>9. CASE ExtensionDone \/ ExtensionFailed \/ NodeRestart
  BY <1>1, <1>9 DEF ExtensionDone, ExtensionFailed, NodeRestart
<1>10. ASSUME NEW id \in Id, BlockAppender(id) \/ DebugRollback(id) \/ Forget(id)
       PROVE  StartOf(task')
  BY <1>1, <1>10 DEF BlockAppender, DebugRollback, Forget
<1>11. ASSUME NEW m \in MicroBlock, MicroblockAppender(m)
       PROVE  StartOf(task')
  BY <1>1, <1>11 DEF MicroblockAppender
<1>12. ASSUME NEW t \in Tx, CheckTx(t) \/ PutTx(t) \/ JudgeTx(t) \/ RemoveStale(t)
       PROVE  StartOf(task')
  <2>1. CASE RemoveStale(t)
    <3>1. /\ task'.pc = task.pc /\ task'.start.headers = task.start.headers
          /\ task'.start.score = task.start.score
      BY <1>3, <2>1, TaskStartNext DEF RemoveStale
    <3> QED
      BY <3>1 DEF StartInv, StartOf
  <2> QED
    BY <1>1, <1>12, <2>1 DEF CheckTx, PutTx, JudgeTx
<1>13. CASE UNCHANGED appenderVars
  BY <1>1, <1>13 DEF appenderVars
<1> QED
  BY <1>4, <1>5, <1>6, <1>7, <1>8, <1>9, <1>10, <1>11, <1>12, <1>13
     DEF AppenderNext, ExtensionStep

\* An extension that fails leaves the node on the chain that it found, with its
\* score, whatever was applied, declined and dropped in between.
THEOREM FailedCorrect ==
  ASSUME HonestMicroBlocks
  PROVE  AppenderSpec /\ []Supported => []FailedExtensionRestores
<1>1. AppenderInit => StartInv
  BY DEF AppenderInit, StartInv, StartOf, Idle
<1>2. Sound /\ ScoredInv /\ AppenderTypes /\ StartInv /\ [AppenderNext]_appenderVars => StartInv'
  <2>1. StartOf(task') => StartInv'
    BY DEF StartInv
  <2> QED
    BY <2>1, StartStep
<1>3. Sound /\ ScoredInv /\ StartInv /\ BackInv => FailedExtensionRestores
  <2> SUFFICES ASSUME Sound, ScoredInv, StartInv, BackInv,
                      task.pc = "reapply", task.dropped = <<>>
               PROVE  ViewHeaders = task.start.headers /\ ViewScore = task.start.score
    BY DEF FailedExtensionRestores
  <2> DEFINE view == ViewOf(chain, liquid)
  <2>1. view \in Seq(Id)
    BY ViewOfIs DEF Sound
  <2>2. view \o IdsOf(task.dropped) = view
    BY <2>1, ConcatEmpty
  <2>3. Back(view, task)
    BY DEF BackInv, BackOf
  <2>4. ViewHeaders = task.start.headers
    BY <2>2, <2>3, ViewHeadersIs DEF Back, Sound
  <2>5. ScoreIs(ViewHeaders, ViewScore) /\ ScoreIs(ViewHeaders, task.start.score)
    BY <2>4, ViewScoreIs DEF StartInv, StartOf
  <2>6. ViewHeaders \in Seq(Header)
    BY ViewHeadersType DEF Sound
  <2> QED
    BY <2>4, <2>5, <2>6, ScoreUnique
<1>4. AppenderSpec => [](Sound /\ RestMatchesLiquid /\ SafeInv)
  BY SoundCorrect
<1>5. AppenderSpec => []ScoredInv
  BY AppenderIsUpdater, ScoredCorrect, PTL
<1>6. AppenderSpec /\ []Supported => [](ValidInv /\ BackInv)
  BY BackCorrect
<1> QED
  BY <1>1, <1>2, <1>3, <1>4, <1>5, <1>6, AppenderTypeCorrect, PTL DEF AppenderSpec
=============================================================================
