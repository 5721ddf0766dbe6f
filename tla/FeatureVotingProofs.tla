------------------------- MODULE FeatureVotingProofs -------------------------
(***************************************************************************)
(* Proofs about FeatureVoting: what a block approves is what its chain     *)
(* elected, nothing elected is forgotten, activations do not move, and     *)
(* the shutdown on unsupported features stops the node in time, for any    *)
(* period, number of votes, features and depth of rollbacks.               *)
(***************************************************************************)
EXTENDS FeatureVoting, FiniteSetTheorems, TLAPS

LEMMA DivMod ==
  ASSUME NEW n \in Nat \ {0}, NEW a \in Nat
  PROVE  /\ a = n * (a \div n) + (a % n)
         /\ a \div n \in Nat /\ a % n \in 0..(n - 1)
OBVIOUS

LEMMA MultipleBounds ==
  ASSUME NEW n \in Nat \ {0}, NEW p \in Nat, NEW q \in Nat, p < q
  PROVE  n * p + n <= n * q
<1>1. PICK d \in Nat : q = p + 1 + d
  OBVIOUS
<1>2. n * q = n * p + n + n * d
  BY <1>1
<1>3. n * d \in Nat /\ n * p \in Nat
  OBVIOUS
<1> QED BY <1>2, <1>3

LEMMA LastOfWindow ==
  ASSUME NEW n \in Nat \ {0}, NEW h \in Nat \ {0}, h % n = 0
  PROVE  ((h - 1) \div n) * n + n = h
<1> DEFINE q == h \div n
           p == (h - 1) \div n
           r == (h - 1) % n
<1>1. h = n * q /\ q \in Nat
  BY DivMod
<1>2. h - 1 = n * p + r /\ p \in Nat /\ r \in 0..(n - 1)
  <2>1. h - 1 \in Nat
    OBVIOUS
  <2> QED BY <2>1, DivMod
<1> HIDE DEF q, p, r
<1>3. p < q
  <2> SUFFICES ASSUME q <= p PROVE FALSE
    BY <1>1, <1>2
  <2>1. CASE q = p
    BY <1>1, <1>2, <2>1
  <2>2. CASE q < p
    BY <1>1, <1>2, <2>2, MultipleBounds
  <2> QED BY <1>1, <1>2, <2>1, <2>2
<1>4. ~ (p + 1 < q)
  <2> SUFFICES ASSUME p + 1 < q PROVE FALSE
    OBVIOUS
  <2>1. n * (p + 1) + n <= n * q
    BY <1>1, <1>2, MultipleBounds
  <2>2. n * (p + 1) = n * p + n
    BY <1>2
  <2> QED BY <1>1, <1>2, <2>1, <2>2
<1>5. q = p + 1
  BY <1>1, <1>2, <1>3, <1>4
<1>6. n * q = n * p + n /\ n * p = p * n
  BY <1>2, <1>5
<1> QED BY <1>1, <1>6 DEF p

LEMMA WindowType ==
  ASSUME NEW h \in Nat
  PROVE  WindowSize(h) \in Nat \ {0} /\ RequiredAt(h) \in Nat \ {0}
BY SettingsAssumption DEF WindowSize, RequiredAt

\* A window that ends at a height
LEMMA WindowEnds ==
  ASSUME NEW h \in Nat \ {0}, h % WindowSize(h) = 0
  PROVE  Window(h) = (h - WindowSize(h) + 1)..h /\ WindowSize(h) <= h
<1> DEFINE n == WindowSize(h)
           p == (h - 1) \div n
<1>1. n \in Nat \ {0}
  BY WindowType
<1>2. p * n + n = h
  BY <1>1, LastOfWindow
<1>3. p \in Nat
  <2>1. h - 1 \in Nat
    OBVIOUS
  <2> HIDE DEF n
  <2> QED BY <1>1, <2>1, DivMod
<1>4. Window(h) = p * n + 1 .. (p + 1) * n
  BY DEF Window
<1> HIDE DEF n, p
<1>5. p * n \in Nat /\ (p + 1) * n = p * n + n
  BY <1>1, <1>3
<1> QED BY <1>1, <1>2, <1>4, <1>5 DEF n

-----------------------------------------------------------------------------
(* The invariant.                                                          *)

\* The liquid block approves what it would approve when it is persisted, and
\* what is stored of a feature fits together.
VotingInv ==
  /\ stored \in Seq(SUBSET Feature)
  /\ safe \in Nat /\ Len(stored) - MaxRollback <= safe
  /\ liquid # Empty => /\ liquid.votes \subseteq Feature
                       /\ liquid.approved = ApprovedWith(liquid.votes, Len(stored) + 1)
  /\ DOMAIN activated = DOMAIN approved
  /\ DOMAIN approved \cap DOMAIN PreActivated = {}
  /\ \A f \in DOMAIN approved :
       /\ approved[f] \in Nat \ {0}
       /\ approved[f] % WindowSize(approved[f]) = 0
       /\ approved[f] - MaxRollback <= safe
       /\ activated[f] = approved[f] + WindowSize(approved[f])

LEMMA HeightIs ==
  ASSUME VotingInv
  PROVE  /\ Len(stored) \in Nat
         /\ Height = Len(stored) \/ Height = Len(stored) + 1
         /\ liquid # Empty => Height = Len(stored) + 1
BY DEF Height, VotingInv

LEMMA ApprovedAtEnd ==
  ASSUME NEW votes, NEW h, NEW f \in ApprovedWith(votes, h)
  PROVE  f \in Feature /\ h % WindowSize(h) = 0 /\ Votes(f, h) > 0
BY DEF ApprovedWith

LEMMA GenesisApprovesNothing ==
  ASSUME stored = <<>>
  PROVE  ApprovedWith({}, 1) = {}
<1>1. ASSUME NEW f PROVE Votes(f, 1) = 0
  BY FS_EmptySet DEF Votes
<1> QED BY <1>1, ApprovedAtEnd

\* What is written when the liquid block is persisted
LEMMA PersistEffect ==
  ASSUME VotingInv, liquid # Empty, Persist
  PROVE  LET h == Len(stored) + 1
             new == liquid.approved \ DOMAIN PreActivated
         IN  /\ stored' \in Seq(SUBSET Feature) /\ stored' = Append(stored, liquid.votes)
             /\ Len(stored') = h
             /\ safe' \in Nat /\ Len(stored') - MaxRollback <= safe' /\ safe <= safe'
             /\ approved' = OlderWins([f \in new |-> h], approved)
             /\ activated' = OlderWins([f \in new |-> h + WindowSize(h)], activated)
BY SettingsAssumption DEF Persist, VotingInv

LEMMA PersistKeeps ==
  ASSUME VotingInv, liquid # Empty, Persist
  PROVE  /\ DOMAIN activated' = DOMAIN approved'
         /\ DOMAIN approved' = DOMAIN approved \cup (liquid.approved \ DOMAIN PreActivated)
         /\ \A f \in DOMAIN approved : approved'[f] = approved[f] /\ activated'[f] = activated[f]
         /\ \A f \in DOMAIN approved' \ DOMAIN approved :
              /\ approved'[f] = Len(stored) + 1
              /\ activated'[f] = Len(stored) + 1 + WindowSize(Len(stored) + 1)
BY PersistEffect DEF OlderWins, VotingInv

LEMMA VotingInvInit == VotingInit => VotingInv
<1> SUFFICES ASSUME VotingInit PROVE VotingInv
  OBVIOUS
<1>1. stored = <<>> /\ Len(stored) = 0 /\ stored \in Seq(SUBSET Feature)
  BY DEF VotingInit
<1> QED BY <1>1, GenesisApprovesNothing, SettingsAssumption DEF VotingInit, VotingInv, Genesis

LEMMA VotingInvNext == VotingInv /\ [VotingNext]_votingVars => VotingInv'
<1> SUFFICES ASSUME VotingInv, [VotingNext]_votingVars PROVE VotingInv'
  OBVIOUS
<1>1. ASSUME NEW votes \in SUBSET Feature, BlockOnPersisted(votes) PROVE VotingInv'
  <2>1. UNCHANGED <<stored, approved, activated, safe>>
    BY <1>1 DEF BlockOnPersisted
  <2>2. /\ liquid'.votes = votes
        /\ liquid'.approved = ApprovedWith(votes, Len(stored) + 1)
    BY <1>1 DEF BlockOnPersisted, FeaturesApproved
  <2>3. ApprovedWith(votes, Len(stored) + 1)' = ApprovedWith(votes, Len(stored) + 1)
    BY <2>1 DEF ApprovedWith, Votes
  <2> QED BY <2>1, <2>2, <2>3 DEF VotingInv
<1>2. ASSUME NEW votes \in SUBSET Feature, BlockOnLiquid(votes) PROVE VotingInv'
  <2>1. liquid # Empty /\ Persist
    BY <1>2 DEF BlockOnLiquid
  <2>2. /\ liquid'.votes = votes
        /\ liquid'.approved = ApprovedWith(votes, Len(stored) + 1)'
    BY <1>2 DEF BlockOnLiquid, FeaturesApproved
  <2>3. /\ stored' \in Seq(SUBSET Feature) /\ Len(stored') = Len(stored) + 1
        /\ safe' \in Nat /\ Len(stored') - MaxRollback <= safe' /\ safe <= safe'
    BY <2>1, PersistEffect
  <2>4. DOMAIN approved' \cap DOMAIN PreActivated = {}
    BY <2>1, PersistKeeps DEF VotingInv
  <2>5. ASSUME NEW f \in DOMAIN approved'
        PROVE  /\ approved'[f] \in Nat \ {0}
               /\ approved'[f] % WindowSize(approved'[f]) = 0
               /\ approved'[f] - MaxRollback <= safe'
               /\ activated'[f] = approved'[f] + WindowSize(approved'[f])
    <3>1. CASE f \in DOMAIN approved
      <4>1. approved'[f] = approved[f] /\ activated'[f] = activated[f]
        BY <2>1, <3>1, PersistKeeps
      <4>2. /\ approved[f] \in Nat \ {0} /\ approved[f] % WindowSize(approved[f]) = 0
            /\ approved[f] - MaxRollback <= safe
            /\ activated[f] = approved[f] + WindowSize(approved[f])
        BY <3>1 DEF VotingInv
      <4>3. approved[f] - MaxRollback <= safe'
        BY <2>3, <4>2, SettingsAssumption DEF VotingInv
      <4> QED BY <4>1, <4>2, <4>3
    <3>2. CASE f \notin DOMAIN approved
      <4>1. /\ f \in liquid.approved
            /\ approved'[f] = Len(stored) + 1
            /\ activated'[f] = Len(stored) + 1 + WindowSize(Len(stored) + 1)
        BY <2>1, <3>2, PersistKeeps
      <4>2. (Len(stored) + 1) % WindowSize(Len(stored) + 1) = 0
        BY <2>1, <4>1, ApprovedAtEnd DEF VotingInv
      <4>3. Len(stored) \in Nat
        BY HeightIs
      <4> QED BY <2>3, <4>1, <4>2, <4>3
    <3> QED BY <3>1, <3>2
  <2>6. DOMAIN activated' = DOMAIN approved'
    BY <2>1, PersistKeeps
  <2> QED BY <2>2, <2>3, <2>4, <2>5, <2>6 DEF VotingInv
<1>3. ASSUME NEW h \in 1..MaxHeight, RemoveAfter(h) PROVE VotingInv'
  <2>1. h \in safe + 1..Len(stored) /\ stored' = SubSeq(stored, 1, h) /\ liquid' = Empty
        /\ UNCHANGED <<approved, activated, safe>>
    BY <1>3 DEF RemoveAfter, CanRollBackTo
  <2>2. stored' \in Seq(SUBSET Feature) /\ Len(stored') = h
    BY <2>1 DEF VotingInv
  <2>3. Len(stored') - MaxRollback <= safe
    BY <2>1, <2>2, SettingsAssumption DEF VotingInv
  <2> QED BY <2>1, <2>2, <2>3 DEF VotingInv
<1>4. CASE NodeRestart
  <2>1. UNCHANGED <<stored, approved, activated, safe>>
    BY <1>4 DEF NodeRestart
  <2>2. CASE stored = <<>>
    <3>1. ApprovedWith({}, Len(stored) + 1)' = {}
      <4>1. stored' = <<>> /\ Len(stored') = 0
        BY <2>1, <2>2
      <4>2. \A f : Votes(f, 1)' = 0
        BY <4>1, FS_EmptySet DEF Votes
      <4> QED BY <4>1, <4>2 DEF ApprovedWith
    <3> QED BY <1>4, <2>1, <2>2, <3>1 DEF NodeRestart, VotingInv, Genesis
  <2>3. CASE stored # <<>>
    BY <1>4, <2>1, <2>3 DEF NodeRestart, VotingInv
  <2> QED BY <2>2, <2>3
<1>5. CASE UNCHANGED votingVars
  BY <1>5 DEF votingVars, VotingInv, ApprovedWith, Votes
<1> QED BY <1>1, <1>2, <1>3, <1>4, <1>5 DEF VotingNext

LEMMA VotingInvariant == VotingSpec => []VotingInv
BY VotingInvInit, VotingInvNext, PTL DEF VotingSpec

-----------------------------------------------------------------------------
(* The shutdown on unsupported features.                                   *)

\* A node that shuts down on unsupported features follows the chain at most one
\* block beyond the activation of one, whatever it has rolled back.
THEOREM UnsupportedRefused == VotingSpec => []UnsupportedIsRefused
<1>1. VotingInit => UnsupportedIsRefused
  BY DEF VotingInit, UnsupportedIsRefused
<1>2. VotingInv /\ VotingInv' /\ UnsupportedIsRefused /\ [VotingNext]_votingVars => UnsupportedIsRefused'
  <2> SUFFICES ASSUME VotingInv, VotingInv', UnsupportedIsRefused, [VotingNext]_votingVars,
                      AutoShutdown, NEW f \in DOMAIN activated' \ Implemented
               PROVE  Height' <= activated'[f] + 1
    BY DEF UnsupportedIsRefused
  <2>1. activated'[f] \in Nat /\ Len(stored) \in Nat /\ Len(stored') \in Nat
    <3>1. /\ approved'[f] \in Nat \ {0}
          /\ activated'[f] = approved'[f] + WindowSize(approved'[f])
      BY DEF VotingInv
    <3>2. WindowSize(approved'[f]) \in Nat
      BY <3>1, WindowType
    <3>3. Len(stored) \in Nat /\ Len(stored') \in Nat
      BY DEF VotingInv
    <3> QED BY <3>1, <3>2, <3>3
  <2>2. Height' = Len(stored') \/ Height' = Len(stored') + 1
    BY DEF Height
  <2>3. Supports /\ f \in DOMAIN activated => Len(stored) < activated[f]
    <3>0. f \in DOMAIN activated => activated[f] \in Nat
      <4> SUFFICES ASSUME f \in DOMAIN activated PROVE activated[f] \in Nat
        OBVIOUS
      <4>1. /\ approved[f] \in Nat \ {0}
            /\ activated[f] = approved[f] + WindowSize(approved[f])
        BY DEF VotingInv
      <4> QED BY <4>1, WindowType
    <3> SUFFICES ASSUME Supports, f \in DOMAIN activated, activated[f] <= Len(stored) PROVE FALSE
      BY <2>1, <3>0
    <3>1. f \in ActiveAt(OlderWins(activated, PreActivated), Len(stored))
      BY DEF ActiveAt, OlderWins, VotingInv
    <3> QED BY <3>1 DEF Supports
  <2>4. ASSUME NEW votes \in SUBSET Feature, BlockOnPersisted(votes)
        PROVE  Height' <= activated'[f] + 1
    <3>1. Supports /\ UNCHANGED <<stored, activated>>
      BY <2>4 DEF BlockOnPersisted
    <3> QED BY <2>1, <2>2, <2>3, <3>1
  <2>5. ASSUME NEW votes \in SUBSET Feature, BlockOnLiquid(votes)
        PROVE  Height' <= activated'[f] + 1
    <3>1. Supports /\ liquid # Empty /\ Persist
      BY <2>5 DEF BlockOnLiquid
    <3>2. Len(stored') = Len(stored) + 1
      BY <3>1, PersistEffect
    <3>3. CASE f \in DOMAIN activated
      <4>1. activated'[f] = activated[f]
        BY <3>1, <3>3, PersistKeeps DEF VotingInv
      <4> QED BY <2>1, <2>2, <2>3, <3>1, <3>2, <3>3, <4>1
    <3>4. CASE f \notin DOMAIN activated
      <4>1. activated'[f] = Len(stored) + 1 + WindowSize(Len(stored) + 1)
        BY <3>1, <3>4, PersistKeeps DEF VotingInv
      <4>2. WindowSize(Len(stored) + 1) \in Nat
        <5>1. Len(stored) + 1 \in Nat
          BY <2>1
        <5> QED BY <5>1, WindowType
      <4> QED BY <2>1, <2>2, <3>2, <4>1, <4>2
    <3> QED BY <3>3, <3>4
  <2>6. ASSUME NEW h \in 1..MaxHeight, RemoveAfter(h)
        PROVE  Height' <= activated'[f] + 1
    <3>1. Len(stored') <= Len(stored) /\ liquid' = Empty /\ activated' = activated
      BY <2>6 DEF RemoveAfter, CanRollBackTo, VotingInv
    <3>2. Height' = Len(stored')
      BY <3>1 DEF Height
    <3>3. Height <= activated[f] + 1
      BY <3>1 DEF UnsupportedIsRefused
    <3> QED BY <2>1, <3>1, <3>2, <3>3, HeightIs
  <2>7. CASE NodeRestart
    <3>1. stored' = stored /\ activated' = activated
      BY <2>7 DEF NodeRestart
    <3>2. CASE stored = <<>>
      BY <2>1, <2>2, <3>1, <3>2
    <3>3. CASE stored # <<>>
      <4>1. Height' = Len(stored)
        BY <2>7, <3>1, <3>3 DEF NodeRestart, Height
      <4>2. Height <= activated[f] + 1
        BY <3>1 DEF UnsupportedIsRefused
      <4> QED BY <2>1, <3>1, <4>1, <4>2, HeightIs
    <3> QED BY <3>2, <3>3
  <2>8. CASE UNCHANGED votingVars
    BY <2>8 DEF votingVars, UnsupportedIsRefused, Height
  <2> QED BY <2>4, <2>5, <2>6, <2>7, <2>8 DEF VotingNext
<1> QED BY <1>1, <1>2, VotingInvariant, PTL DEF VotingSpec

-----------------------------------------------------------------------------
(* What readers see while the chain grows.                                 *)

\* A step that makes the chain longer changes nothing that readers know of the
\* features; new is only what the new liquid block approves.
LEMMA GrowthKeeps ==
  ASSUME VotingInv, VotingNext, Height' > Height
  PROVE  /\ DOMAIN ActivatedFeatures' = DOMAIN ActivatedFeatures \cup NewlyApproved'
         /\ \A f \in DOMAIN ActivatedFeatures : ActivatedFeatures'[f] = ActivatedFeatures[f]
<1>1. ASSUME NEW votes \in SUBSET Feature, BlockOnPersisted(votes) PROVE liquid = Empty
  BY <1>1, HeightIs DEF BlockOnPersisted, Height
<1>2. CASE UNCHANGED <<approved, activated>> /\ NewlyApproved = {}
  BY <1>2 DEF ActivatedFeatures, OlderWins
<1>3. ASSUME NEW votes \in SUBSET Feature, BlockOnLiquid(votes)
      PROVE  /\ DOMAIN ActivatedFeatures' = DOMAIN ActivatedFeatures \cup NewlyApproved'
             /\ \A f \in DOMAIN ActivatedFeatures : ActivatedFeatures'[f] = ActivatedFeatures[f]
  <2>1. liquid # Empty /\ Persist
    BY <1>3 DEF BlockOnLiquid
  <2>2. NewlyApproved = liquid.approved /\ Height = Len(stored) + 1
    BY <2>1 DEF NewlyApproved, Height
  <2> DEFINE was == OlderWins(activated, PreActivated)
  <2>3. /\ DOMAIN was = DOMAIN activated \cup DOMAIN PreActivated
        /\ DOMAIN was' = DOMAIN activated' \cup DOMAIN PreActivated
        /\ \A f \in DOMAIN PreActivated : was[f] = PreActivated[f] /\ was'[f] = PreActivated[f]
        /\ \A f \in DOMAIN activated \ DOMAIN PreActivated : was[f] = activated[f]
        /\ \A f \in DOMAIN activated' \ DOMAIN PreActivated : was'[f] = activated'[f]
    BY DEF OlderWins
  <2>4. /\ DOMAIN ActivatedFeatures = DOMAIN was \cup liquid.approved
        /\ \A f \in DOMAIN was : ActivatedFeatures[f] = was[f]
        /\ \A f \in liquid.approved \ DOMAIN was :
             ActivatedFeatures[f] = Len(stored) + 1 + WindowSize(Len(stored) + 1)
    BY <2>2 DEF ActivatedFeatures, OlderWins
  <2>5. /\ DOMAIN ActivatedFeatures' = DOMAIN was' \cup NewlyApproved'
        /\ \A f \in DOMAIN was' : ActivatedFeatures'[f] = was'[f]
    BY DEF ActivatedFeatures, OlderWins
  <2>6. /\ DOMAIN activated' = DOMAIN activated \cup (liquid.approved \ DOMAIN PreActivated)
        /\ \A f \in DOMAIN activated : activated'[f] = activated[f]
        /\ \A f \in DOMAIN activated' \ DOMAIN activated :
             activated'[f] = Len(stored) + 1 + WindowSize(Len(stored) + 1)
    BY <2>1, PersistKeeps DEF VotingInv
  <2> HIDE DEF was
  <2> QED BY <2>3, <2>4, <2>5, <2>6
<1>4. ASSUME NEW h \in 1..MaxHeight, RemoveAfter(h) PROVE FALSE
  <2>1. Len(stored') <= Len(stored) /\ liquid' = Empty /\ Len(stored') \in Nat
    BY <1>4 DEF RemoveAfter, CanRollBackTo, VotingInv
  <2> QED BY <2>1, HeightIs DEF Height
<1>5. CASE NodeRestart
  <2>1. CASE stored # <<>>
    BY <1>5, <2>1, HeightIs DEF NodeRestart, Height
  <2>2. CASE stored = <<>> /\ liquid # Empty
    BY <1>5, <2>2, HeightIs DEF NodeRestart, Height
  <2>3. CASE stored = <<>> /\ liquid = Empty
    BY <1>2, <1>5, <2>3 DEF NodeRestart, NewlyApproved
  <2> QED BY <2>1, <2>2, <2>3
<1>6. ASSUME NEW votes \in SUBSET Feature, BlockOnPersisted(votes)
      PROVE  UNCHANGED <<approved, activated>> /\ NewlyApproved = {}
  BY <1>1, <1>6 DEF BlockOnPersisted, NewlyApproved
<1> QED BY <1>2, <1>3, <1>4, <1>5, <1>6 DEF VotingNext

\* Extending the chain never moves the activation of a feature.
THEOREM ActivationStable == VotingSpec => ActivationIsStable
<1>1. VotingInv /\ [VotingNext]_votingVars =>
        [Height' > Height =>
           \A f \in DOMAIN ActivatedFeatures :
             /\ f \in DOMAIN ActivatedFeatures'
             /\ ActivatedFeatures'[f] = ActivatedFeatures[f]]_votingVars
  BY GrowthKeeps
<1> QED BY <1>1, VotingInvariant, PTL DEF VotingSpec, ActivationIsStable
-----------------------------------------------------------------------------
(* What a block approves.                                                  *)

\* The votes for a feature in the window that the liquid block ends: those of the
\* persisted blocks and its own.
LEMMA VotesOfChain ==
  ASSUME VotingInv, liquid # Empty, NEW f,
         (Len(stored) + 1) % WindowSize(Len(stored) + 1) = 0
  PROVE  Cardinality({k \in Window(Len(stored) + 1) : f \in Chain[k]}) =
           Votes(f, Len(stored) + 1) + (IF f \in liquid.votes THEN 1 ELSE 0)
<1> DEFINE h == Len(stored) + 1
           old == {k \in Window(h) \cap DOMAIN stored : f \in stored[k]}
           own == IF f \in liquid.votes THEN 1 ELSE 0
           all == {k \in Window(h) : f \in Chain[k]}
<1>1. h \in Nat \ {0} /\ h % WindowSize(h) = 0 /\ DOMAIN stored = 1..(h - 1)
  BY HeightIs DEF VotingInv
<1>2. Chain[h] = liquid.votes /\ \A k \in 1..(h - 1) : Chain[k] = stored[k]
  BY DEF Chain, VotingInv
<1>3. Votes(f, h) = Cardinality(old)
  BY DEF Votes
<1> HIDE DEF h
<1>4. Window(h) = (h - WindowSize(h) + 1)..h /\ WindowSize(h) <= h
  BY <1>1, WindowEnds
<1>5. WindowSize(h) \in Nat \ {0}
  BY <1>1, WindowType
<1>6. Window(h) \subseteq 1..h /\ h \in Window(h)
  BY <1>1, <1>4, <1>5
<1>7. IsFiniteSet(old) /\ Cardinality(old) \in Nat
  <2>1. IsFiniteSet(1..h)
    BY <1>1, FS_Interval
  <2>2. old \in SUBSET (1..h)
    BY <1>6
  <2> HIDE DEF old
  <2>3. IsFiniteSet(old)
    BY <2>1, <2>2, FS_Subset
  <2> QED BY <2>3, FS_CardinalityType
<1>8. h \notin old
  BY <1>1
<1>9. Cardinality(all) = Cardinality(old) + own
  <2>1. CASE f \in liquid.votes
    <3>1. all = old \cup {h}
      BY <1>1, <1>2, <1>6, <2>1
    <3>2. Cardinality(old \cup {h}) = Cardinality(old) + 1
      BY <1>7, <1>8, FS_AddElement
    <3> QED BY <2>1, <3>1, <3>2
  <2>2. CASE f \notin liquid.votes
    <3>1. all = old
      BY <1>1, <1>2, <1>6, <2>2
    <3> HIDE DEF old, all
    <3> QED BY <1>7, <2>2, <3>1
  <2> QED BY <2>1, <2>2
<1> QED BY <1>3, <1>9 DEF h

\* A liquid block approves only what its chain elects at its height.
LEMMA LiquidApprovesElected ==
  ASSUME VotingInv, liquid # Empty, NEW f \in liquid.approved
  PROVE  Elected(f, Height)
<1> DEFINE h == Len(stored) + 1
<1>1. Height = h /\ h \in DOMAIN Chain
  BY HeightIs DEF VotingInv, Chain
<1>2. f \in ApprovedWith(liquid.votes, h)
  BY DEF VotingInv
<1>3. /\ h % WindowSize(h) = 0
      /\ Votes(f, h) + (IF f \in liquid.votes THEN 1 ELSE 0) >= RequiredAt(h)
  BY <1>2 DEF ApprovedWith
<1>4. Cardinality({k \in Window(h) : f \in Chain[k]}) >= RequiredAt(h)
  BY <1>3, VotesOfChain
<1> HIDE DEF h
<1> QED BY <1>1, <1>3, <1>4 DEF Elected

\* What was stored in a step was known before it.
LEMMA StoredWasKnown ==
  ASSUME VotingInv, [VotingNext]_votingVars
  PROVE  DOMAIN approved' \subseteq DOMAIN ApprovedFeatures
<1>1. DOMAIN ApprovedFeatures = NewlyApproved \cup DOMAIN approved
  BY DEF ApprovedFeatures, OlderWins
<1>2. ASSUME NEW votes \in SUBSET Feature, BlockOnLiquid(votes)
      PROVE  DOMAIN approved' \subseteq DOMAIN ApprovedFeatures
  <2>1. liquid # Empty /\ Persist
    BY <1>2 DEF BlockOnLiquid
  <2>2. DOMAIN approved' \subseteq DOMAIN approved \cup liquid.approved
    BY <2>1, PersistKeeps
  <2> QED BY <1>1, <2>1, <2>2 DEF NewlyApproved
<1>3. CASE UNCHANGED approved
  BY <1>1, <1>3
<1> QED BY <1>2, <1>3 DEF VotingNext, BlockOnPersisted, RemoveAfter, NodeRestart, votingVars

\* No step approves a feature that the chain after it did not elect, with all the
\* votes in the right window and on that chain.
THEOREM ApprovalsElected == VotingSpec => NewApprovalsAreElected
<1> DEFINE CountedRight == liquid # Empty => \A f \in liquid.approved : Elected(f, Height)
<1>0. VotingInv' => CountedRight'
  <2>1. VotingInv => CountedRight
    BY LiquidApprovesElected
  <2> HIDE DEF CountedRight
  <2> QED BY <2>1, PTL
<1>1. ASSUME VotingInv, VotingInv', [VotingNext]_votingVars,
             NEW f \in DOMAIN ApprovedFeatures' \ DOMAIN ApprovedFeatures
      PROVE  Elected(f, Height)'
  <2>1. DOMAIN ApprovedFeatures' = NewlyApproved' \cup DOMAIN approved'
    BY DEF ApprovedFeatures, OlderWins
  <2>2. f \in NewlyApproved'
    BY <1>1, <2>1, StoredWasKnown
  <2>3. liquid' # Empty /\ f \in liquid'.approved
    BY <2>2 DEF NewlyApproved
  <2> QED BY <1>0, <1>1, <2>3
<1>2. VotingInv /\ VotingInv' /\ [VotingNext]_votingVars =>
        [\A f \in DOMAIN ApprovedFeatures' \ DOMAIN ApprovedFeatures :
           Elected(f, Height)']_votingVars
  BY <1>1
<1> QED BY <1>2, VotingInvariant, PTL DEF VotingSpec, NewApprovalsAreElected

-----------------------------------------------------------------------------
(* What the chain elected is known.  This needs two facts of the settings: *)
(* an election takes more than one vote, since the own vote of a block     *)
(* does not count alone, and a rollback does not reach over a window.      *)

\* The liquid block approves what its chain elects at its height.
LEMMA ElectedIsApproved ==
  ASSUME VotingInv, liquid # Empty, Required > 1, NEW f \in Feature,
         Elected(f, Len(stored) + 1)
  PROVE  f \in liquid.approved
<1> DEFINE h == Len(stored) + 1
<1>1. h \in Nat \ {0}
  BY DEF VotingInv
<1>2. h % WindowSize(h) = 0
  BY DEF Elected
<1>3. Cardinality({k \in Window(h) : f \in Chain[k]}) >= RequiredAt(h)
  BY DEF Elected
<1>4. Votes(f, h) + (IF f \in liquid.votes THEN 1 ELSE 0) >= RequiredAt(h)
  BY <1>2, <1>3, VotesOfChain
<1>5. Votes(f, h) \in Nat
  <2>1. IsFiniteSet(1..Len(stored))
    BY FS_Interval DEF VotingInv
  <2>2. {k \in Window(h) \cap DOMAIN stored : f \in stored[k]} \in SUBSET (1..Len(stored))
    BY DEF VotingInv
  <2> QED BY <2>1, <2>2, FS_Subset, FS_CardinalityType DEF Votes
<1>6. RequiredAt(h) > 1
  BY SettingsAssumption DEF RequiredAt
<1>7. Votes(f, h) > 0
  <2> HIDE DEF h
  <2>1. RequiredAt(h) \in Nat
    BY <1>1, WindowType
  <2> QED BY <1>4, <1>5, <1>6, <2>1
<1>8. f \in ApprovedWith(liquid.votes, h)
  BY <1>2, <1>4, <1>7 DEF ApprovedWith
<1> QED BY <1>8 DEF VotingInv

\* A multiple of a window is one of Period.
LEMMA WholePeriods ==
  ASSUME NEW h \in Nat \ {0}, h % WindowSize(h) = 0
  PROVE  \E i \in Nat : h = Period * i
<1>1. WindowSize(h) \in Nat \ {0} /\ Period \in Nat \ {0}
  BY WindowType, SettingsAssumption
<1>2. PICK q \in Nat : h = WindowSize(h) * q
  <2> DEFINE n == WindowSize(h)
  <2>1. n \in Nat \ {0} /\ h % n = 0
    BY <1>1
  <2> HIDE DEF n
  <2>2. h = n * (h \div n) + (h % n) /\ h \div n \in Nat
    BY <2>1, DivMod
  <2>3. n * (h \div n) \in Nat
    BY <2>1, <2>2
  <2>4. h = n * (h \div n)
    BY <2>1, <2>2, <2>3
  <2> QED BY <2>2, <2>4 DEF n
<1>3. CASE WindowSize(h) = Period
  BY <1>2, <1>3
<1>4. CASE WindowSize(h) = 2 * Period
  <2>1. h = Period * (2 * q)
    BY <1>1, <1>2, <1>4
  <2>2. 2 * q \in Nat
    BY <1>2
  <2> QED BY <2>1, <2>2
<1> QED BY <1>3, <1>4 DEF WindowSize

\* Of two ends of windows the later is a period or more after the other.
LEMMA EndsApart ==
  ASSUME NEW a \in Nat \ {0}, a % WindowSize(a) = 0,
         NEW h \in Nat \ {0}, h % WindowSize(h) = 0, h < a
  PROVE  h + Period <= a
<1>1. PICK i \in Nat : a = Period * i
  BY WholePeriods
<1>2. PICK j \in Nat : h = Period * j
  BY WholePeriods
<1>3. Period \in Nat \ {0}
  BY SettingsAssumption
<1>4. j < i
  <2> SUFFICES ASSUME i <= j PROVE FALSE
    BY <1>1, <1>2
  <2>1. CASE i = j
    BY <1>1, <1>2, <2>1
  <2>2. CASE i < j
    <3>1. Period * i + Period <= Period * j
      BY <1>1, <1>2, <1>3, <2>2, MultipleBounds
    <3> QED BY <1>1, <1>2, <1>3, <3>1
  <2> QED BY <1>1, <1>2, <2>1, <2>2
<1> QED BY <1>1, <1>2, <1>3, <1>4, MultipleBounds

\* A window of persisted blocks that elected a feature
ElectedStored(f, h) ==
  /\ h \in DOMAIN stored /\ h % WindowSize(h) = 0
  /\ Cardinality({k \in Window(h) : f \in stored[k]}) >= RequiredAt(h)

\* What is persisted of the elections, and how far a rollback went
KeptInv ==
  /\ stored = <<>> \/ safe < Len(stored)
  /\ stored = <<>> => safe = 0 /\ DOMAIN approved = {}
  /\ \A f \in Feature \ DOMAIN PreActivated, h \in 1..Len(stored) :
       ElectedStored(f, h) => f \in DOMAIN approved /\ approved[f] <= h

LEMMA WindowInside ==
  ASSUME NEW h \in Nat \ {0}, h % WindowSize(h) = 0
  PROVE  Window(h) \subseteq 1..h
<1>1. Window(h) = (h - WindowSize(h) + 1)..h /\ WindowSize(h) <= h
  BY WindowEnds
<1>2. WindowSize(h) \in Nat \ {0}
  BY WindowType
<1> QED BY <1>1, <1>2

\* An election depends only on the blocks up to its height.
LEMMA SameElection ==
  ASSUME VotingInv, VotingInv', NEW f, NEW h \in 1..Len(stored),
         \A k \in 1..h : stored'[k] = stored[k], ElectedStored(f, h)'
  PROVE  ElectedStored(f, h)
<1>1. h \in Nat \ {0} /\ h \in DOMAIN stored
  BY DEF VotingInv
<1>2. h % WindowSize(h) = 0
  BY DEF ElectedStored
<1>3. Window(h) \subseteq 1..h
  BY <1>1, <1>2, WindowInside
<1>4. {k \in Window(h) : f \in stored'[k]} = {k \in Window(h) : f \in stored[k]}
  BY <1>3
<1> QED BY <1>1, <1>2, <1>4 DEF ElectedStored

\* What is approved is not approved later than the end of the next window.
LEMMA ApprovedInTime ==
  ASSUME VotingInv, KeptInv, MaxRollback <= Period + 1, NEW f \in DOMAIN approved,
         (Len(stored) + 1) % WindowSize(Len(stored) + 1) = 0
  PROVE  approved[f] <= Len(stored) + 1
<1>1. /\ Len(stored) \in Nat /\ Len(stored) + 1 \in Nat \ {0} /\ safe \in Nat
      /\ approved[f] \in Nat \ {0} /\ approved[f] % WindowSize(approved[f]) = 0
      /\ approved[f] - MaxRollback <= safe
  BY DEF VotingInv
<1>2. safe < Len(stored)
  BY DEF KeptInv
<1>3. Len(stored) + 1 < approved[f] => Len(stored) + 1 + Period <= approved[f]
  BY <1>1, EndsApart
<1> QED BY <1>1, <1>2, <1>3, SettingsAssumption

LEMMA KeptInvInit == VotingInit => KeptInv
<1> SUFFICES ASSUME VotingInit PROVE KeptInv
  OBVIOUS
<1>1. stored = <<>> /\ 1..Len(stored) = {} /\ safe = 0 /\ DOMAIN approved = {}
  BY DEF VotingInit
<1> QED BY <1>1 DEF KeptInv

LEMMA KeptInvNext ==
  ASSUME Required > 1, MaxRollback <= Period + 1
  PROVE  VotingInv /\ VotingInv' /\ KeptInv /\ [VotingNext]_votingVars => KeptInv'
<1> SUFFICES ASSUME VotingInv, VotingInv', KeptInv, [VotingNext]_votingVars PROVE KeptInv'
  OBVIOUS
<1>1. CASE UNCHANGED <<stored, approved, safe>>
  BY <1>1 DEF KeptInv, ElectedStored
<1>2. ASSUME NEW votes \in SUBSET Feature, BlockOnLiquid(votes) PROVE KeptInv'
  <2> DEFINE h == Len(stored) + 1
  <2>1. liquid # Empty /\ Persist
    BY <1>2 DEF BlockOnLiquid
  <2>2. h \in Nat \ {0} /\ Len(stored') = h /\ stored' = Append(stored, liquid.votes)
    BY <2>1, PersistEffect DEF VotingInv
  <2>3. stored' # <<>> /\ safe' < Len(stored')
    <3>1. safe' = IF safe < h - MaxRollback THEN h - MaxRollback ELSE safe
      BY <2>1 DEF Persist
    <3>2. safe < h
      <4>1. Len(stored) \in Nat /\ h = Len(stored) + 1 /\ safe \in Nat
        BY DEF VotingInv
      <4> QED BY <4>1 DEF KeptInv
    <3> QED BY <2>2, <3>1, <3>2, SettingsAssumption DEF VotingInv
  <2>4. ASSUME NEW f \in Feature \ DOMAIN PreActivated, NEW k \in 1..Len(stored'),
               ElectedStored(f, k)'
        PROVE  f \in DOMAIN approved' /\ approved'[f] <= k
    <3>1. CASE k \in 1..Len(stored)
      <4>1. \A i \in 1..k : stored'[i] = stored[i]
        BY <2>2, <3>1 DEF VotingInv
      <4>2. ElectedStored(f, k)
        BY <2>4, <3>1, <4>1, SameElection
      <4>3. f \in DOMAIN approved /\ approved[f] <= k
        BY <3>1, <4>2 DEF KeptInv
      <4> QED BY <2>1, <4>3, PersistKeeps
    <3>2. CASE k = h
      <4>1. stored' = Chain
        BY <2>1, <2>2 DEF Chain
      <4>2. Elected(f, h) /\ h % WindowSize(h) = 0
        BY <2>4, <3>2, <4>1 DEF ElectedStored, Elected
      <4>3. f \in liquid.approved
        BY <2>1, <4>2, ElectedIsApproved
      <4>4. f \in DOMAIN approved'
        BY <2>1, <4>3, PersistKeeps
      <4>5. CASE f \in DOMAIN approved
        <5>1. approved'[f] = approved[f]
          BY <2>1, <4>5, PersistKeeps
        <5>2. approved[f] <= h
          BY <4>2, <4>5, ApprovedInTime
        <5> QED BY <3>2, <4>4, <5>1, <5>2
      <4>6. CASE f \notin DOMAIN approved
        BY <2>1, <2>2, <3>2, <4>4, <4>6, PersistKeeps
      <4> QED BY <4>5, <4>6
    <3> QED BY <2>2, <3>1, <3>2
  <2> QED BY <2>3, <2>4 DEF KeptInv
<1>3. ASSUME NEW h \in 1..MaxHeight, RemoveAfter(h) PROVE KeptInv'
  <2>1. h \in safe + 1..Len(stored) /\ stored' = SubSeq(stored, 1, h)
        /\ UNCHANGED <<approved, safe>>
    BY <1>3 DEF RemoveAfter, CanRollBackTo
  <2>2. /\ Len(stored') = h /\ h \in Nat \ {0} /\ h <= Len(stored) /\ safe < h
        /\ \A i \in 1..h : stored'[i] = stored[i]
    BY <2>1 DEF VotingInv
  <2>3. ASSUME NEW f \in Feature \ DOMAIN PreActivated, NEW k \in 1..Len(stored'),
               ElectedStored(f, k)'
        PROVE  f \in DOMAIN approved' /\ approved'[f] <= k
    <3>1. k \in 1..Len(stored) /\ \A i \in 1..k : stored'[i] = stored[i]
      BY <2>2 DEF VotingInv
    <3>2. ElectedStored(f, k)
      BY <2>3, <3>1, SameElection
    <3> QED BY <2>1, <3>1, <3>2 DEF KeptInv
  <2>4. stored' # <<>>
    BY <2>2
  <2> QED BY <2>1, <2>2, <2>3, <2>4 DEF KeptInv
<1> QED BY <1>1, <1>2, <1>3 DEF VotingNext, BlockOnPersisted, NodeRestart, votingVars

LEMMA KeptMeansKnown == VotingInv /\ KeptInv /\ Required > 1 /\ MaxRollback <= Period + 1
                          => NoLostApproval
<1> SUFFICES ASSUME VotingInv, KeptInv, Required > 1, MaxRollback <= Period + 1,
                    NEW f \in Feature \ DOMAIN PreActivated, NEW h \in 1..Height, Elected(f, h)
             PROVE  f \in DOMAIN ApprovedFeatures /\ ApprovedFeatures[f] <= h
  BY DEF NoLostApproval
<1>1. /\ DOMAIN ApprovedFeatures = NewlyApproved \cup DOMAIN approved
      /\ \A g \in DOMAIN approved : ApprovedFeatures[g] = approved[g]
      /\ \A g \in NewlyApproved \ DOMAIN approved : ApprovedFeatures[g] = Height
  BY DEF ApprovedFeatures, OlderWins
<1>2. h % WindowSize(h) = 0 /\ h \in Nat \ {0}
  BY HeightIs DEF Elected
<1>3. CASE h \in 1..Len(stored)
  <2>1. Window(h) \subseteq 1..h
    BY <1>2, WindowInside
  <2>2. \A k \in 1..h : Chain[k] = stored[k]
    BY <1>3 DEF Chain, VotingInv
  <2>3. {k \in Window(h) : f \in Chain[k]} = {k \in Window(h) : f \in stored[k]}
    BY <2>1, <2>2
  <2>4. h \in DOMAIN stored
    BY <1>3 DEF VotingInv
  <2>5. ElectedStored(f, h)
    BY <2>3, <2>4 DEF Elected, ElectedStored
  <2> QED BY <1>1, <1>3, <2>5 DEF KeptInv
<1>4. CASE h \notin 1..Len(stored)
  <2>1. h = Len(stored) + 1 /\ Height = h /\ liquid # Empty
    BY <1>2, <1>4, HeightIs DEF Height
  <2>2. f \in liquid.approved /\ NewlyApproved = liquid.approved
    BY <2>1, ElectedIsApproved DEF NewlyApproved
  <2>3. f \in DOMAIN approved => approved[f] <= h
    BY <1>2, <2>1, ApprovedInTime
  <2> QED BY <1>1, <2>1, <2>2, <2>3, HeightIs
<1> QED BY <1>3, <1>4

\* Where a rollback reaches no further than over one window and an election takes
\* more than one vote, no elected feature is forgotten or late.
THEOREM NothingLost ==
  ASSUME Required > 1, MaxRollback <= Period + 1
  PROVE  VotingSpec => []NoLostApproval
<1>1. VotingInit => KeptInv
  BY KeptInvInit
<1>2. VotingInv /\ VotingInv' /\ KeptInv /\ [VotingNext]_votingVars => KeptInv'
  BY KeptInvNext
<1>3. VotingInv /\ KeptInv => NoLostApproval
  BY KeptMeansKnown
<1> QED BY <1>1, <1>2, <1>3, VotingInvariant, PTL DEF VotingSpec
=============================================================================
