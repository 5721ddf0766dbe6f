------------------------- MODULE StateHistoryProofs -------------------------
(***************************************************************************)
(* StateHistory implements Ledger, for all cells, blocks and depths.       *)
(***************************************************************************)
EXTENDS StateHistory, WellFoundedInduction, TLAPS

-----------------------------------------------------------------------------
(* The newest of a set of heights.                                         *)

\* A nonempty set of heights has a newest one.
LEMMA NewestExists ==
  ASSUME NEW n \in Nat, NEW S \in SUBSET (1..n), S # {}
  PROVE  Newest(S) \in S /\ \A j \in S : j <= Newest(S)
<1> DEFINE T == {n - k : k \in S}
<1>1. T \subseteq Nat
  OBVIOUS
<1>2. T # {}
  <2>1. PICK k \in S : TRUE
    OBVIOUS
  <2>2. n - k \in T
    BY <2>1
  <2> QED BY <2>2
<1>3. PICK x \in T : \A y \in T : ~ (<<y, x>> \in OpToRel(<, Nat))
  BY <1>1, <1>2, NatLessThanWellFounded, WFMin
<1>4. \A y \in T : x <= y
  <2> SUFFICES ASSUME NEW y \in T, y < x PROVE FALSE
    BY <1>1
  <2>1. <<y, x>> \in Nat \X Nat
    BY <1>1
  <2>2. <<y, x>> \in OpToRel(<, Nat)
    BY <2>1 DEF OpToRel
  <2> QED BY <1>3, <2>2
<1>5. PICK k \in S : x = n - k
  OBVIOUS
<1>6. \A j \in S : j <= k
  <2> TAKE j \in S
  <2>1. n - j \in T
    OBVIOUS
  <2>2. x <= n - j
    BY <1>4, <2>1
  <2>3. x = n - k /\ k \in 1..n /\ j \in 1..n
    BY <1>5
  <2> QED BY <2>2, <2>3
<1> QED BY <1>6 DEF Newest

LEMMA NewestIs ==
  ASSUME NEW S \in SUBSET Nat, NEW k \in S, \A j \in S : j <= k
  PROVE  Newest(S) = k
<1>1. \A i \in S : (\A j \in S : j <= i) => i = k
  OBVIOUS
<1>2. Newest(S) \in S /\ \A j \in S : j <= Newest(S)
  BY DEF Newest
<1> QED BY <1>1, <1>2

-----------------------------------------------------------------------------
(* The invariant.                                                          *)

\* The history of a cell has only heights at which a block of the chain has
\* written it, so a rollback of that block finds it; a value is stored only for
\* one of them; and what is cached is what is stored.
CellOK(c) ==
  /\ history[c] \subseteq 1..Height
  /\ \A h \in history[c] : c \in DOMAIN blocks[h].writes
  /\ DOMAIN value[c] \subseteq history[c]
  /\ cache[c] \in {NotCached, ValueAt(c, Height)}

StateInv ==
  /\ blocks \in Seq(Block)
  /\ safe \in Nat /\ Height - MaxRollback <= safe /\ safe <= Height
  /\ target = -1 \/ (target \in Nat /\ safe < target /\ target < Height)
  /\ DOMAIN cache = Cell
  /\ \A c \in Cell \ leftover : CellOK(c)

LEMMA ReadIsStored ==
  ASSUME NEW c \in Cell, CellOK(c)
  PROVE  Read(c) = ValueAt(c, Height) /\ Stored(c) = ValueAt(c, Height)
<1>1. {k \in history[c] : k <= Height} = history[c]
  BY DEF CellOK
<1>2. Stored(c) = ValueAt(c, Height)
  BY <1>1 DEF Stored, ValueAt
<1> QED BY <1>2 DEF CellOK, Read

LEMMA NextReadIsStored ==
  ASSUME NEW c \in Cell, CellOK(c)'
  PROVE  Read(c)' = ValueAt(c, Height)'
<1>1. {k \in history'[c] : k <= Height'} = history'[c]
  BY DEF CellOK
<1>2. Stored(c)' = ValueAt(c, Height)'
  BY <1>1 DEF Stored, ValueAt
<1> QED BY <1>2 DEF CellOK, Read

LEMMA HeightType ==
  ASSUME StateInv
  PROVE  Height \in Nat
BY DEF StateInv, Height

-----------------------------------------------------------------------------
(* A block is appended.                                                    *)

LEMMA AppendHeight ==
  ASSUME StateInv, NEW b \in Block, AppendBlock(b)
  PROVE  /\ Height' = Height + 1
         /\ blocks' \in Seq(Block)
         /\ blocks'[Height + 1] = b
         /\ \A h \in 1..Height : blocks'[h] = blocks[h]
BY DEF StateInv, AppendBlock, Height

LEMMA LowestBounds ==
  ASSUME NEW c \in Cell, NEW s \in Nat, NEW t \in Nat, s <= t,
         NEW h \in Nat, h - MaxRollback <= t
  PROVE  /\ LowestOf(c, t) \in Nat
         /\ Threshold(c, h) <= LowestOf(c, t)
         /\ LowestOf(c, s) <= LowestOf(c, t)
<1> DEFINE extra == IF Kind[c] \in Deep THEN Extra ELSE 0
<1>1. extra \in Nat /\ MaxRollback \in Nat
  BY DepthAssumption
<1>2. /\ Threshold(c, h) = h - MaxRollback - extra
      /\ LowestOf(c, t) = IF t > extra THEN t - extra ELSE 0
      /\ LowestOf(c, s) = IF s > extra THEN s - extra ELSE 0
  BY DEF Threshold, LowestOf
<1> HIDE DEF extra
<1> QED BY <1>1, <1>2

\* Every height that must be readable lies at or above the threshold.
LEMMA AppendSafe ==
  ASSUME StateInv, NEW b \in Block, AppendBlock(b)
  PROVE  /\ safe' \in Nat /\ Height' - MaxRollback <= safe' /\ safe <= safe' /\ safe' <= Height'
         /\ \A c \in Cell : /\ LowestOf(c, safe') \in Nat
                            /\ Threshold(c, Height') <= LowestOf(c, safe')
                            /\ LowestOf(c, safe) <= LowestOf(c, safe')
<1>1. safe' \in Nat /\ Height' - MaxRollback <= safe' /\ safe <= safe' /\ safe' <= Height'
  BY HeightType, AppendHeight, DepthAssumption DEF AppendBlock, StateInv
<1>2. Height' \in Nat
  BY HeightType, AppendHeight
<1>3. safe \in Nat
  BY DEF StateInv
<1> QED BY <1>1, <1>2, <1>3, LowestBounds

\* What is kept of a history, and what of the values
LEMMA KeptEffect ==
  ASSUME StateInv, NEW c \in Cell \ leftover, NEW h \in Nat
  PROVE  /\ Kept(c, h) \subseteq history[c]
         /\ \A k \in Nat : Threshold(c, h) <= k =>
              LET S == {j \in history[c] : j <= k}
                  K == {j \in Kept(c, h) : j <= k}
              IN  (S = {} /\ K = {}) \/ (S # {} /\ K # {} /\ Newest(K) = Newest(S))
<1> DEFINE old == {k \in history[c] : k <= Threshold(c, h)}
<1>1. history[c] \in SUBSET (1..Height) /\ Height \in Nat /\ Threshold(c, h) \in Int
  BY HeightType, DepthAssumption DEF StateInv, CellOK, Threshold
<1>2. old # {} => Newest(old) \in old /\ \A j \in old : j <= Newest(old)
  BY <1>1, NewestExists
<1>3. Kept(c, h) \subseteq history[c]
  BY <1>2 DEF Kept
<1>4. ASSUME NEW k \in Nat, Threshold(c, h) <= k
      PROVE  LET S == {j \in history[c] : j <= k}
                 K == {j \in Kept(c, h) : j <= k}
             IN  (S = {} /\ K = {}) \/ (S # {} /\ K # {} /\ Newest(K) = Newest(S))
  <2> DEFINE S == {j \in history[c] : j <= k}
             K == {j \in Kept(c, h) : j <= k}
  <2>1. CASE S = {}
    BY <1>3, <2>1
  <2>2. CASE S # {}
    <3>1. Newest(S) \in S /\ \A j \in S : j <= Newest(S)
      BY <1>1, <2>2, NewestExists
    <3>2. Newest(S) \in K
      <4>1. CASE Newest(S) > Threshold(c, h)
        BY <1>1, <3>1, <4>1 DEF Kept
      <4>2. CASE Newest(S) <= Threshold(c, h)
        <5>1. Newest(S) \in old /\ old \subseteq S
          BY <1>1, <1>4, <3>1, <4>2
        <5>2. Newest(old) = Newest(S)
          <6>1. old \in SUBSET Nat /\ \A j \in old : j <= Newest(S)
            BY <1>1, <3>1, <5>1
          <6> HIDE DEF old, S
          <6> QED BY <5>1, <6>1, NewestIs
        <5> QED BY <3>1, <5>1, <5>2 DEF Kept
      <4> QED BY <1>1, <3>1, <4>1, <4>2
    <3>3. K \subseteq S
      BY <1>3
    <3> HIDE DEF S, K
    <3>4. K \in SUBSET Nat
      BY <1>1, <3>3 DEF S
    <3>5. Newest(K) = Newest(S)
      BY <3>1, <3>2, <3>3, <3>4, NewestIs
    <3> QED BY <2>2, <3>2, <3>5 DEF S, K
  <2> QED BY <2>1, <2>2
<1> QED BY <1>3, <1>4

\* A cell that a block does not write
LEMMA UnwrittenCell ==
  ASSUME StateInv, NEW b \in Block, AppendBlock(b), NEW c \in Cell \ leftover, c \notin DOMAIN b.writes
  PROVE  /\ history'[c] = history[c] /\ value'[c] = value[c] /\ cache'[c] = cache[c]
         /\ \A k \in 0..Height : ValueAt(c, k)' = ValueAt(c, k)
         /\ ValueAt(c, Height)' = ValueAt(c, Height)
<1>1. history'[c] = history[c] /\ value'[c] = value[c] /\ cache'[c] = cache[c]
  BY DEF AppendBlock, Write, CacheWritten
<1>2. \A k : ValueAt(c, k)' = ValueAt(c, k)
  BY <1>1 DEF ValueAt, LastOf
<1>3. {k \in history[c] : k <= Height'} = {k \in history[c] : k <= Height}
  BY HeightType, AppendHeight DEF StateInv, CellOK
<1>4. ValueAt(c, Height)' = ValueAt(c, Height)
  BY <1>1, <1>3 DEF ValueAt, LastOf
<1> QED BY <1>1, <1>2, <1>4

\* A cell that it writes
LEMMA WrittenCell ==
  ASSUME StateInv, NEW b \in Block, AppendBlock(b), NEW c \in Cell \ leftover, c \in DOMAIN b.writes
  PROVE  /\ history'[c] = {Height'} \cup Kept(c, Height')
         /\ DOMAIN value'[c] \subseteq history'[c]
         /\ \A k \in Kept(c, Height') :
              /\ k \in DOMAIN value'[c] <=> k \in DOMAIN value[c]
              /\ k \in DOMAIN value[c] => value'[c][k] = value[c][k]
         /\ Height' \in DOMAIN value'[c] <=> IsStored(c, b)
         /\ IsStored(c, b) => value'[c][Height'] = After(c, Read(c), b)
         /\ cache'[c] \in {NotCached, After(c, Read(c), b)}
<1> DEFINE H == (DOMAIN value[c] \ (history[c] \ Kept(c, Height')))
                  \cup (IF IsStored(c, b) THEN {Height'} ELSE {})
<1>1. Height' = Height + 1 /\ Height \in Nat
  BY HeightType, AppendHeight
<1>2. /\ history'[c] = {Height'} \cup Kept(c, Height')
      /\ value'[c] = [k \in H |-> IF k = Height' THEN Written(c, b) ELSE value[c][k]]
      /\ cache'[c] \in {NotCached, Written(c, b)}
  BY <1>1 DEF AppendBlock, Write, CacheWritten
<1>3. history[c] \subseteq 1..Height /\ DOMAIN value[c] \subseteq history[c]
  BY DEF StateInv, CellOK
<1>4. Kept(c, Height') \subseteq history[c]
  BY <1>1, KeptEffect
<1>5. Written(c, b) = After(c, Read(c), b)
  BY ReadIsStored DEF Written, StateInv
<1>6. Height' \notin history[c]
  BY <1>1, <1>3
<1>7. DOMAIN value'[c] = H
  BY <1>2
<1> QED BY <1>2, <1>3, <1>4, <1>5, <1>6, <1>7

LEMMA WrittenValue ==
  ASSUME StateInv, NEW b \in Block, AppendBlock(b), NEW c \in Cell \ leftover, c \in DOMAIN b.writes
  PROVE  /\ ValueAt(c, Height)' = After(c, Read(c), b)
         /\ \A k \in LowestOf(c, safe')..Height : ValueAt(c, k)' = ValueAt(c, k)
<1>1. Height' = Height + 1 /\ Height \in Nat
  BY HeightType, AppendHeight
<1>2. history[c] \subseteq 1..Height /\ Kept(c, Height') \subseteq history[c]
  BY <1>1, KeptEffect DEF StateInv, CellOK
<1>3. history'[c] = {Height'} \cup Kept(c, Height')
  BY WrittenCell
<1>4. ValueAt(c, Height)' = After(c, Read(c), b)
  <2> DEFINE S == {k \in history'[c] : k <= Height'}
  <2>1. Height' \in S /\ S \in SUBSET Nat /\ \A k \in S : k <= Height'
    BY <1>1, <1>2, <1>3
  <2>2. S # {} /\ Newest(S) = Height'
    <3> HIDE DEF S
    <3> QED BY <2>1, NewestIs
  <2>3. ValueAt(c, Height)' =
          IF Height' \in DOMAIN value'[c] THEN value'[c][Height'] ELSE 0
    BY <2>2 DEF ValueAt, LastOf
  <2>4. ~ IsStored(c, b) => After(c, Read(c), b) = 0
    BY DEF IsStored, After, Summed
  <2> QED BY <2>3, <2>4, WrittenCell
<1>5. ASSUME NEW k \in LowestOf(c, safe')..Height
      PROVE  ValueAt(c, k)' = ValueAt(c, k)
  <2> DEFINE S == {j \in history[c] : j <= k}
             K == {j \in Kept(c, Height') : j <= k}
  <2>1. k \in Nat /\ k <= Height /\ Threshold(c, Height') <= k
    <3>1. LowestOf(c, safe') \in Nat /\ Threshold(c, Height') <= LowestOf(c, safe')
      BY AppendSafe
    <3>2. Threshold(c, Height') \in Int
      BY <1>1, DepthAssumption DEF Threshold
    <3> QED BY <1>1, <3>1, <3>2
  <2>2. (S = {} /\ K = {}) \/ (S # {} /\ K # {} /\ Newest(K) = Newest(S))
    BY <1>1, <2>1, KeptEffect
  <2>3. {j \in history'[c] : j <= k} = K
    BY <1>1, <1>2, <1>3, <2>1
  <2>4. CASE S = {}
    BY <2>2, <2>3, <2>4 DEF ValueAt, LastOf
  <2>5. CASE S # {}
    <3>1. Newest(S) \in K
      <4>1. K \in SUBSET (1..Height)
        BY <1>2
      <4> HIDE DEF K, S
      <4> QED BY <1>1, <2>2, <2>5, <4>1, NewestExists
    <3>2. /\ Newest(S) \in DOMAIN value'[c] <=> Newest(S) \in DOMAIN value[c]
          /\ Newest(S) \in DOMAIN value[c] => value'[c][Newest(S)] = value[c][Newest(S)]
      BY <3>1, WrittenCell
    <3>3. ValueAt(c, k) = IF Newest(S) \in DOMAIN value[c] THEN value[c][Newest(S)] ELSE 0
      BY <2>5 DEF ValueAt, LastOf
    <3>4. ValueAt(c, k)' = IF Newest(S) \in DOMAIN value'[c] THEN value'[c][Newest(S)] ELSE 0
      BY <2>2, <2>3, <2>5 DEF ValueAt, LastOf
    <3> QED BY <3>2, <3>3, <3>4
  <2> QED BY <2>4, <2>5
<1> QED BY <1>4, <1>5

LEMMA AppendKeeps ==
  ASSUME StateInv, NEW b \in Block, AppendBlock(b)
  PROVE  StateInv'
<1>1. Height' = Height + 1 /\ Height \in Nat
  BY HeightType, AppendHeight
<1>2. blocks' \in Seq(Block) /\ target' = -1 /\ DOMAIN cache' = Cell /\ leftover' = leftover
  BY AppendHeight DEF AppendBlock, CacheWritten
<1>3. ASSUME NEW c \in Cell \ leftover PROVE CellOK(c)'
  <2>1. /\ history[c] \subseteq 1..Height
        /\ \A h \in history[c] : c \in DOMAIN blocks[h].writes
        /\ DOMAIN value[c] \subseteq history[c]
        /\ cache[c] \in {NotCached, ValueAt(c, Height)}
    BY DEF StateInv, CellOK
  <2>2. CASE c \notin DOMAIN b.writes
    <3>1. /\ history'[c] = history[c] /\ value'[c] = value[c] /\ cache'[c] = cache[c]
          /\ ValueAt(c, Height)' = ValueAt(c, Height)
      BY <2>2, UnwrittenCell
    <3>3. \A h \in history'[c] : h \in 1..Height' /\ c \in DOMAIN blocks'[h].writes
      BY <1>1, <2>1, <3>1, AppendHeight
    <3> QED BY <2>1, <3>1, <3>3 DEF CellOK
  <2>3. CASE c \in DOMAIN b.writes
    <3>1. /\ history'[c] = {Height'} \cup Kept(c, Height')
          /\ DOMAIN value'[c] \subseteq history'[c]
          /\ cache'[c] \in {NotCached, ValueAt(c, Height)'}
      BY <2>3, WrittenCell, WrittenValue
    <3>2. Kept(c, Height') \subseteq history[c]
      BY <1>1, KeptEffect
    <3>3. \A h \in history'[c] : h \in 1..Height' /\ c \in DOMAIN blocks'[h].writes
      BY <1>1, <2>1, <2>3, <3>1, <3>2, AppendHeight
    <3> QED BY <3>1, <3>3 DEF CellOK
  <2> QED BY <2>2, <2>3
<1> QED BY <1>2, <1>3, AppendSafe DEF StateInv

-----------------------------------------------------------------------------
(* One height is rolled back.                                              *)

\* A rollback looks at every cell that the block has written.
LEMMA WrittenIsUndone ==
  ASSUME NEW b \in Block, NEW c \in DOMAIN b.writes, c \notin b.issued \ Undone(b)
  PROVE  c \in Undone(b)
<1>1. c \in Cell /\ Kind[c] \in Kinds
  BY BlockAssumption
<1>2. Kind[c] \in ByAddress \ {"zbs"} => Owner[c] \in b.touched
  BY BlockAssumption
<1>3. Kind[c] = "zbs" => Owner[c] \in ChangedAddresses(b)
  BY DEF ChangedAddresses
<1>4. Kind[c] = "assetScript" => c \in b.issued \cup b.reset
  BY <1>1, BlockAssumption DEF AssetScripts
<1> QED BY <1>1, <1>2, <1>3, <1>4 DEF Undone, ChangedAddresses, Kinds, ByAddress, ByTransaction

LEMMA RollbackHeight ==
  ASSUME StateInv, RollbackOne
  PROVE  /\ Height' = Height - 1 /\ Height \in Nat /\ safe < Height' /\ Height' \in Nat
         /\ blocks' \in Seq(Block) /\ safe' = safe
         /\ Last(blocks) = blocks[Height] /\ blocks[Height] \in Block
         /\ \A h \in 1..Height' : blocks'[h] = blocks[h]
         /\ target' = -1 \/ (target' = target /\ target < Height')
         /\ leftover' = leftover \cup (blocks[Height].issued \ Undone(blocks[Height]))
<1>1. /\ blocks \in Seq(Block) /\ Height = Len(blocks) /\ target # -1
      /\ target \in Nat /\ safe \in Nat /\ safe < target /\ target < Height
  BY DEF StateInv, RollbackOne, Height
<1>2. blocks' = [i \in 1..(Len(blocks) - 1) |-> blocks[i]] /\ Len(blocks) \in Nat \ {0, 1}
  BY <1>1 DEF RollbackOne, Front
<1>3. blocks' \in Seq(Block) /\ Len(blocks') = Len(blocks) - 1
  BY <1>1, <1>2
<1>4. safe' = safe /\ (target' = -1 \/ (target' = target /\ Height - 1 # target))
  BY DEF RollbackOne, TargetReached
<1>5. leftover' = leftover \cup (Last(blocks).issued \ Undone(Last(blocks)))
  BY DEF RollbackOne
<1> QED BY <1>1, <1>2, <1>3, <1>4, <1>5 DEF Last, Height

LEMMA RollbackCell ==
  ASSUME StateInv, RollbackOne, NEW c \in Cell \ leftover'
  PROVE  /\ CellOK(c)'
         /\ \A k \in 0..Height' : ValueAt(c, k)' = ValueAt(c, k)
<1>1. /\ Height' = Height - 1 /\ Height \in Nat /\ Height' \in Nat
      /\ Last(blocks) = blocks[Height] /\ blocks[Height] \in Block
      /\ \A h \in 1..Height' : blocks'[h] = blocks[h]
      /\ c \notin leftover /\ c \notin blocks[Height].issued \ Undone(blocks[Height])
  BY RollbackHeight
<1>2. /\ history[c] \subseteq 1..Height
      /\ \A h \in history[c] : c \in DOMAIN blocks[h].writes
      /\ DOMAIN value[c] \subseteq history[c]
      /\ cache[c] \in {NotCached, ValueAt(c, Height)}
  BY <1>1 DEF StateInv, CellOK
<1>3. CASE c \in Undone(Last(blocks))
  <2>1. /\ history'[c] = history[c] \ {Height}
        /\ value'[c] = [k \in DOMAIN value[c] \ {Height} |-> value[c][k]]
        /\ cache'[c] = NotCached
    BY <1>3 DEF RollbackOne, ValueUndone
  <2>2. \A k \in 0..Height' : ValueAt(c, k)' = ValueAt(c, k)
    <3> TAKE k \in 0..Height'
    <3> DEFINE S == {j \in history[c] : j <= k}
    <3>1. {j \in history'[c] : j <= k} = S /\ Height \notin S
      BY <1>1, <1>2, <2>1
    <3>2. CASE S = {}
      BY <3>1, <3>2 DEF ValueAt, LastOf
    <3>3. CASE S # {}
      <4>1. Newest(S) \in S
        <5>1. S \in SUBSET (1..Height)
          BY <1>2
        <5> HIDE DEF S
        <5> QED BY <1>1, <3>3, <5>1, NewestExists
      <4>2. Newest(S) # Height
        BY <3>1, <4>1
      <4>3. /\ Newest(S) \in DOMAIN value'[c] <=> Newest(S) \in DOMAIN value[c]
            /\ Newest(S) \in DOMAIN value[c] => value'[c][Newest(S)] = value[c][Newest(S)]
        BY <2>1, <4>2
      <4>4. ValueAt(c, k) = IF Newest(S) \in DOMAIN value[c] THEN value[c][Newest(S)] ELSE 0
        BY <3>3 DEF ValueAt, LastOf
      <4>5. ValueAt(c, k)' = IF Newest(S) \in DOMAIN value'[c] THEN value'[c][Newest(S)] ELSE 0
        BY <3>1, <3>3 DEF ValueAt, LastOf
      <4> QED BY <4>3, <4>4, <4>5
    <3> QED BY <3>2, <3>3
  <2>3. \A h \in history'[c] : h \in 1..Height' /\ c \in DOMAIN blocks'[h].writes
    BY <1>1, <1>2, <2>1
  <2>4. DOMAIN value'[c] \subseteq history'[c]
    BY <1>2, <2>1
  <2> QED BY <2>1, <2>2, <2>3, <2>4 DEF CellOK
<1>4. CASE c \notin Undone(Last(blocks))
  <2>1. history'[c] = history[c] /\ value'[c] = value[c] /\ cache'[c] = cache[c]
    BY <1>4 DEF RollbackOne
  <2>2. Height \notin history[c]
    BY <1>1, <1>2, <1>4, WrittenIsUndone
  <2>3. \A k : ValueAt(c, k)' = ValueAt(c, k)
    BY <2>1 DEF ValueAt, LastOf
  <2>4. ValueAt(c, Height)' = ValueAt(c, Height)
    <3>1. {k \in history[c] : k <= Height'} = {k \in history[c] : k <= Height}
      BY <1>1, <1>2, <2>2
    <3> QED BY <2>1, <3>1 DEF ValueAt, LastOf
  <2>5. \A h \in history'[c] : h \in 1..Height' /\ c \in DOMAIN blocks'[h].writes
    BY <1>1, <1>2, <2>1, <2>2
  <2> QED BY <1>2, <2>1, <2>3, <2>4, <2>5 DEF CellOK
<1> QED BY <1>3, <1>4

LEMMA RollbackKeeps ==
  ASSUME StateInv, RollbackOne
  PROVE  StateInv'
<1>1. DOMAIN cache' = Cell
  BY DEF RollbackOne
<1>2. /\ safe \in Nat /\ Height - MaxRollback <= safe /\ safe <= Height
      /\ target = -1 \/ (target \in Nat /\ safe < target /\ target < Height)
  BY DEF StateInv
<1>3. \A c \in Cell \ leftover' : CellOK(c)'
  BY RollbackCell
<1> QED BY <1>1, <1>2, <1>3, RollbackHeight, DepthAssumption DEF StateInv

-----------------------------------------------------------------------------
(* The rest changes neither the stored values nor what is read.            *)

Unchanging ==
  \/ \E h \in 1..MaxHeight : StartRollback(h)
  \/ \E c \in Cell : Load(c) \/ Evict(c)
  \/ RestartNode
  \/ UNCHANGED stateVars

LEMMA UnchangingEffect ==
  ASSUME StateInv, Unchanging
  PROVE  /\ UNCHANGED <<blocks, history, value, safe, leftover>> /\ Height' = Height
         /\ \A c \in Cell, k \in Nat : ValueAt(c, k)' = ValueAt(c, k)
         /\ \A c \in Cell : ValueAt(c, Height)' = ValueAt(c, Height)
         /\ StateInv'
<1>1. UNCHANGED <<blocks, history, value, safe, leftover>>
  BY DEF Unchanging, StartRollback, Load, Evict, RestartNode, stateVars
<1>2. Height' = Height
  BY <1>1 DEF Height
<1>3. \A c \in Cell, k \in Nat : ValueAt(c, k)' = ValueAt(c, k)
  BY <1>1 DEF ValueAt, LastOf
<1>4. \A c \in Cell : ValueAt(c, Height)' = ValueAt(c, Height)
  BY <1>1, <1>2 DEF ValueAt, LastOf
<1>5. target' = -1 \/ target' = target \/ (target' \in Nat /\ safe < target' /\ target' < Height)
  BY DEF Unchanging, StartRollback, Load, Evict, RestartNode, stateVars
<1>6. /\ DOMAIN cache' = Cell
      /\ \A c \in Cell : cache'[c] \in {NotCached, cache[c], Stored(c)}
  <2>1. DOMAIN cache = Cell
    BY DEF StateInv
  <2>2. ASSUME NEW c \in Cell, Load(c) PROVE <1>6!:
    BY <2>1, <2>2 DEF Load
  <2>3. ASSUME NEW c \in Cell, Evict(c) PROVE <1>6!:
    BY <2>1, <2>3 DEF Evict
  <2>4. CASE RestartNode
    BY <2>4 DEF RestartNode
  <2>5. ASSUME NEW h \in 1..MaxHeight, StartRollback(h) PROVE <1>6!:
    BY <2>1, <2>5 DEF StartRollback
  <2>6. CASE UNCHANGED stateVars
    BY <2>1, <2>6 DEF stateVars
  <2> QED BY <2>2, <2>3, <2>4, <2>5, <2>6 DEF Unchanging
<1>7. ASSUME NEW c \in Cell \ leftover PROVE CellOK(c)'
  BY <1>1, <1>2, <1>4, <1>6, ReadIsStored DEF CellOK, StateInv
<1>8. StateInv'
  BY <1>1, <1>2, <1>5, <1>6, <1>7 DEF StateInv
<1> QED BY <1>1, <1>2, <1>3, <1>4, <1>8

-----------------------------------------------------------------------------
(* The theorems.                                                           *)

LEMMA StateInvInit == StateInit => StateInv
<1> SUFFICES ASSUME StateInit PROVE StateInv
  OBVIOUS
<1>1. blocks \in Seq(Block) /\ Height = 0
  BY DEF StateInit, Height
<1> QED BY <1>1, DepthAssumption DEF StateInit, StateInv, CellOK

LEMMA StateInvNext == StateInv /\ [StateNext]_stateVars => StateInv'
<1> SUFFICES ASSUME StateInv, [StateNext]_stateVars PROVE StateInv'
  OBVIOUS
<1>1. ASSUME NEW b \in Block, AppendBlock(b) PROVE StateInv'
  BY <1>1, AppendKeeps
<1>2. CASE RollbackOne
  BY <1>2, RollbackKeeps
<1>3. CASE Unchanging
  BY <1>3, UnchangingEffect
<1> QED BY <1>1, <1>2, <1>3 DEF StateNext, Unchanging

LEMMA StateInvariant == StateSpec => []StateInv
BY StateInvInit, StateInvNext, PTL DEF StateSpec

\* No block that was rolled back leaves a value or a change behind, the scripts
\* of assets whose issue was rolled back excepted.
THEOREM ValuesCorrect == StateSpec => []NoValueLeftBehind
<1>1. StateInv => NoValueLeftBehind
  BY DEF StateInv, CellOK, NoValueLeftBehind, Height
<1> QED BY <1>1, StateInvariant, PTL

\* The value of a cell at each height that must be readable, as L has it
Past(c) ==
  [h \in LowestOf(c, safe)..Height |-> IF h = Height THEN Read(c) ELSE ValueAt(c, h)]

LEMMA PastIsStored ==
  ASSUME StateInv, NEW c \in Cell \ leftover
  PROVE  Past(c) = [h \in LowestOf(c, safe)..Height |-> ValueAt(c, h)]
BY ReadIsStored DEF Past, StateInv

LEMMA LowestType ==
  ASSUME StateInv, NEW c \in Cell \ leftover
  PROVE  LowestOf(c, safe) \in Nat /\ LowestOf(c, safe) <= Height
BY HeightType, DepthAssumption DEF LowestOf, StateInv

LEMMA AppendExtends ==
  ASSUME StateInv, NEW b \in Block, AppendBlock(b), NEW c \in Cell \ leftover
  PROVE  Past(c)' = [h \in LowestOf(c, safe')..Height' |->
                       IF h = Height' THEN After(c, Past(c)[Height], b) ELSE Past(c)[h]]
<1> DEFINE low == LowestOf(c, safe)
           low2 == LowestOf(c, safe')
<1>1. Height' = Height + 1 /\ Height \in Nat
  BY HeightType, AppendHeight
<1>2. low \in Nat /\ low2 \in Nat /\ low <= low2 /\ low <= Height
  BY LowestType, AppendSafe
<1>3. Past(c) = [h \in low..Height |-> ValueAt(c, h)]
  BY PastIsStored
<1>4. Past(c)' = [h \in low2..Height' |-> ValueAt(c, h)']
  <2>1. Read(c)' = ValueAt(c, Height)'
    BY AppendKeeps, NextReadIsStored DEF StateInv, AppendBlock
  <2>2. Past(c)' = [h \in low2..Height' |->
                      IF h = Height' THEN Read(c)' ELSE ValueAt(c, h)']
    BY DEF Past
  <2>3. ASSUME NEW h \in low2..Height', h = Height' PROVE Read(c)' = ValueAt(c, h)'
    BY <2>1, <2>3 DEF ValueAt, LastOf
  <2> HIDE DEF low2
  <2> QED BY <2>2, <2>3
<1>5. Past(c)[Height] = Read(c)
  BY <1>1, <1>2 DEF Past
<1>6. ValueAt(c, Height)' = After(c, Read(c), b)
  <2>1. CASE c \in DOMAIN b.writes
    BY <2>1, WrittenValue
  <2>2. CASE c \notin DOMAIN b.writes
    BY <2>2, UnwrittenCell, ReadIsStored DEF After, StateInv
  <2> QED BY <2>1, <2>2
<1>7. ASSUME NEW h \in low2..Height', h # Height'
      PROVE  ValueAt(c, h)' = Past(c)[h]
  <2>1. h \in low2..Height /\ h \in low..Height /\ h \in 0..Height
    BY <1>1, <1>2, <1>7
  <2>2. ValueAt(c, h)' = ValueAt(c, h)
    BY <2>1, WrittenValue, UnwrittenCell
  <2> QED BY <1>3, <2>1, <2>2
<1>8. ASSUME NEW h \in low2..Height', h = Height'
      PROVE  ValueAt(c, h)' = After(c, Past(c)[Height], b)
  <2>1. ValueAt(c, h)' = ValueAt(c, Height)'
    BY <1>8 DEF ValueAt, LastOf
  <2> QED BY <1>5, <1>6, <2>1
<1> HIDE DEF low2
<1>9. \A h \in low2..Height' :
        ValueAt(c, h)' = IF h = Height' THEN After(c, Past(c)[Height], b) ELSE Past(c)[h]
  BY <1>7, <1>8
<1> QED BY <1>4, <1>9 DEF low2

LEMMA RollbackReturns ==
  ASSUME StateInv, RollbackOne, NEW c \in Cell \ leftover'
  PROVE  Past(c)' = [h \in LowestOf(c, safe)..Height' |-> Past(c)[h]]
<1> DEFINE low == LowestOf(c, safe)
<1>1. Height' = Height - 1 /\ Height \in Nat /\ Height' \in Nat /\ safe' = safe
  BY RollbackHeight
<1>0. c \in Cell \ leftover
  BY RollbackHeight
<1>2. low \in Nat
  BY <1>0, LowestType
<1>3. Past(c) = [h \in low..Height |-> ValueAt(c, h)]
  BY <1>0, PastIsStored
<1>4. \A h \in low..Height' : ValueAt(c, h)' = ValueAt(c, h)
  BY <1>1, <1>2, RollbackCell
<1>5. Past(c)' = [h \in low..Height' |-> ValueAt(c, h)']
  <2>1. Read(c)' = ValueAt(c, Height)'
    BY RollbackCell, NextReadIsStored
  <2>2. Past(c)' = [h \in low..Height' |->
                      IF h = Height' THEN Read(c)' ELSE ValueAt(c, h)']
    BY <1>1 DEF Past
  <2>3. ASSUME NEW h \in low..Height', h = Height' PROVE Read(c)' = ValueAt(c, h)'
    BY <2>1, <2>3 DEF ValueAt, LastOf
  <2> HIDE DEF low
  <2> QED BY <2>2, <2>3
<1>6. \A h \in low..Height' : h \in low..Height
  BY <1>1, <1>2
<1> HIDE DEF low
<1>7. \A h \in low..Height' : ValueAt(c, h)' = Past(c)[h]
  BY <1>3, <1>4, <1>6
<1> QED BY <1>5, <1>7 DEF low

LEMMA UnchangingStutters ==
  ASSUME StateInv, Unchanging, NEW c \in Cell \ leftover
  PROVE  Past(c)' = Past(c)
<1>1. UNCHANGED <<blocks, history, value, safe, leftover>> /\ Height' = Height
  BY UnchangingEffect
<1>2. Read(c)' = Read(c)
  <2>1. Read(c) = ValueAt(c, Height)
    BY ReadIsStored DEF StateInv
  <2>2. Read(c)' = ValueAt(c, Height)'
    BY <1>1, UnchangingEffect, NextReadIsStored DEF StateInv
  <2> QED BY <2>1, <2>2, UnchangingEffect
<1>3. \A h : ValueAt(c, h)' = ValueAt(c, h)
  BY <1>1 DEF ValueAt, LastOf
<1> QED BY <1>1, <1>2, <1>3 DEF Past

LEMMA SameOperators ==
  /\ \A c, s : L!LowestOf(c, s) = LowestOf(c, s)
  /\ \A c, x, b : L!After(c, x, b) = After(c, x, b)
BY DEF LowestOf, L!LowestOf, Deep, L!Deep, After, L!After, Summed, L!Summed

\* The database and the caches implement the ledger of complete maps: each block
\* extends it, each height rolled back returns to the one below, and everything
\* else (readers, eviction, restarts, the start of a rollback) changes nothing.
THEOREM LedgerImplemented == StateSpec => ImplementsLedger
<1>1. StateInit => L!LedgerInit
  <2> SUFFICES ASSUME StateInit PROVE L!LedgerInit
    OBVIOUS
  <2>1. StateInv /\ Height = 0 /\ safe = 0 /\ leftover = {}
    BY StateInvInit DEF StateInit, Height
  <2>2. ASSUME NEW c \in Cell PROVE Past(c) = [h \in {0} |-> 0]
    <3>1. LowestOf(c, safe) = 0
      BY <2>1, DepthAssumption DEF LowestOf
    <3>2. LowestOf(c, safe)..Height = {0}
      BY <2>1, <3>1
    <3>3. ValueAt(c, 0) = 0
      BY DEF ValueAt, LastOf, StateInit
    <3>4. Past(c) = [h \in LowestOf(c, safe)..Height |-> ValueAt(c, h)]
      BY <2>1, PastIsStored
    <3> QED BY <3>2, <3>3, <3>4
  <2> QED BY <2>1, <2>2 DEF L!LedgerInit, Past
<1>2. StateInv /\ [StateNext]_stateVars => [L!LedgerNext]_L!ledgerVars
  <2> SUFFICES ASSUME StateInv, [StateNext]_stateVars
               PROVE  [L!LedgerNext]_L!ledgerVars
    OBVIOUS
  <2>1. ASSUME NEW b \in Block, AppendBlock(b) PROVE L!Extend(b)
    <3>1. Height' = Height + 1
      BY <2>1, AppendHeight
    <3>2. safe' = IF safe < Height + 1 - MaxRollback THEN Height + 1 - MaxRollback ELSE safe
      BY <2>1 DEF AppendBlock
    <3> DEFINE all == [c \in Cell \ leftover |-> Past(c)]
    <3>5. leftover' = leftover /\ DOMAIN all = Cell \ leftover
      BY <2>1 DEF AppendBlock
    <3>3. ASSUME NEW c \in Cell \ leftover
          PROVE  Past(c)' = [h \in L!LowestOf(c, safe')..Height' |->
                               IF h = Height' THEN L!After(c, all[c][Height], b) ELSE all[c][h]]
      <4>1. Past(c)' = [h \in LowestOf(c, safe')..Height' |->
                          IF h = Height' THEN After(c, Past(c)[Height], b) ELSE Past(c)[h]]
        BY <2>1, AppendExtends
      <4>2. all[c] = Past(c)
        OBVIOUS
      <4>3. /\ LowestOf(c, safe') = L!LowestOf(c, safe')
            /\ After(c, Past(c)[Height], b) = L!After(c, Past(c)[Height], b)
        BY SameOperators
      <4> HIDE DEF all
      <4> QED BY <4>1, <4>2, <4>3
    <3>4. all' = [c \in DOMAIN all |-> [h \in L!LowestOf(c, safe')..Height' |->
                    IF h = Height' THEN L!After(c, all[c][Height], b) ELSE all[c][h]]]
      BY <3>3, <3>5
    <3> QED BY <3>1, <3>2, <3>4 DEF L!Extend, Past
  <2>2. CASE RollbackOne
    <3> DEFINE all == [c \in Cell \ leftover |-> Past(c)]
    <3>1. Height' = Height - 1 /\ Height \in Nat /\ safe < Height' /\ Height' \in Nat /\ safe' = safe
      BY <2>2, RollbackHeight
    <3>2. safe \in Nat
      BY DEF StateInv
    <3> DEFINE lost == blocks[Height].issued \ Undone(blocks[Height])
    <3>7. /\ leftover' = leftover \cup lost /\ DOMAIN all = Cell \ leftover
          /\ lost \in SUBSET L!AssetScripts
      BY <2>2, RollbackHeight, BlockAssumption DEF AssetScripts, L!AssetScripts
    <3>3. ASSUME NEW c \in Cell \ leftover'
          PROVE  Past(c)' = [h \in L!LowestOf(c, safe)..Height' |-> all[c][h]]
      <4>1. Past(c)' = [h \in LowestOf(c, safe)..Height' |-> Past(c)[h]]
        BY <2>2, RollbackReturns
      <4>2. all[c] = Past(c)
        BY <3>7
      <4> HIDE DEF all
      <4> QED BY <4>1, <4>2, SameOperators
    <3>8. /\ DOMAIN all \ lost = Cell \ leftover'
          /\ all' = [c \in Cell \ leftover' |-> Past(c)']
      BY <3>7
    <3>4. all' = [c \in DOMAIN all \ lost |-> [h \in L!LowestOf(c, safe)..Height' |-> all[c][h]]]
      <4> HIDE DEF all, lost
      <4> QED BY <3>3, <3>8
    <3>5. PICK h \in (safe + 1)..Height : h = Height'
      BY <3>1, <3>2
    <3>9. PICK l \in SUBSET L!AssetScripts : l = lost
      BY <3>7
    <3>6. L!Return(h, l)
      <4>1. safe < h /\ h < Height /\ Height' = h /\ safe' = safe
        BY <3>1, <3>5
      <4>2. all' = [c \in DOMAIN all \ l |-> [k \in L!LowestOf(c, safe)..h |-> all[c][k]]]
        BY <3>4, <3>5, <3>9
      <4> HIDE DEF lost
      <4> QED BY <4>1, <4>2 DEF L!Return, Past
    <3> QED BY <3>6 DEF L!LedgerNext
  <2>3. CASE Unchanging
    <3> DEFINE all == [c \in Cell \ leftover |-> Past(c)]
    <3>1. Height' = Height /\ safe' = safe /\ leftover' = leftover
      BY <2>3, UnchangingEffect
    <3>2. all' = all
      BY <2>3, <3>1, UnchangingStutters
    <3> QED BY <3>1, <3>2 DEF L!ledgerVars, Past
  <2> QED BY <2>1, <2>2, <2>3 DEF L!LedgerNext, StateNext, Unchanging
<1> QED BY <1>1, <1>2, StateInvariant, PTL DEF StateSpec, ImplementsLedger, L!LedgerSpec
=============================================================================
