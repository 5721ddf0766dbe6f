--------------------------- MODULE FeatureVoting ---------------------------
(***************************************************************************)
(* Feature activation.  Blocks carry votes; at the end of every activation *)
(* window the features with enough votes in it are approved, and one       *)
(* window later they are active.  The liquid block approves in memory      *)
(* (NgState.approvedFeatures); when it is persisted LevelDBWriter counts   *)
(* again and stores the result.  Readers see the two combined.             *)
(*                                                                         *)
(* Only the votes of a block matter here; which blocks replace, extend or  *)
(* remove others is the subject of BlockchainUpdater.                      *)
(***************************************************************************)
EXTENDS Integers, Sequences, FiniteSets, SequencesExt

CONSTANTS
  Feature,       \* the features that are voted for
  Implemented,   \* those this node supports
  PreActivated,  \* [features -> height], from the settings
  Period,        \* featureCheckBlocksPeriod
  Required,      \* blocksForFeatureActivation
  DoubleAfter,   \* doubleFeaturesPeriodsAfterHeight
  MaxRollback,   \* maxRollbackDepth
  AutoShutdown,  \* autoShutdownOnUnsupportedFeature
  Empty,         \* no liquid block
  MaxHeight      \* bound of the model on the height

\* What FunctionalitySettings requires
ASSUME SettingsAssumption ==
  /\ Period \in Nat \ {0} /\ Required \in 1..Period
  /\ DoubleAfter \in Nat /\ MaxRollback \in Nat \ {0}
  /\ Implemented \subseteq Feature /\ DOMAIN PreActivated \subseteq Feature
  /\ AutoShutdown \in BOOLEAN

VARIABLES
  stored,     \* the votes of the persisted blocks, by height
  liquid,     \* [votes, approved] of the liquid block, or Empty
  approved,   \* Keys.approvedFeatures: height of the approval
  activated,  \* Keys.activatedFeatures: height of the activation
  safe        \* Keys.safeRollbackHeight

votingVars == <<stored, liquid, approved, activated, safe>>

-----------------------------------------------------------------------------
(* Windows and votes.                                                      *)

WindowSize(h) == IF h <= DoubleAfter THEN Period ELSE 2 * Period

RequiredAt(h) == IF h <= DoubleAfter THEN Required ELSE 2 * Required

Window(h) ==
  LET ws == WindowSize(h)
  IN  ((h - 1) \div ws) * ws + 1 .. ((h - 1) \div ws + 1) * ws

\* Mutated: the votes in the last blocks, whatever window they belong to
VotesInLast(f, h) ==
  Cardinality({k \in h - WindowSize(h)..h - 2 : k \in DOMAIN stored /\ f \in stored[k]})

\* LevelDBWriter.featureVotes: only persisted blocks are counted.
Votes(f, h) == Cardinality({k \in Window(h) \cap DOMAIN stored : f \in stored[k]})

\* Mutated: the vote of the block itself is not counted
ApprovedByParents(votes, h) ==
  IF h % WindowSize(h) # 0 THEN {} ELSE {f \in Feature : Votes(f, h) >= RequiredAt(h)}

\* The features a block with these votes approves at a height, which is not
\* persisted yet.  Its vote counts only for a feature that has votes already.
ApprovedWith(votes, h) ==
  IF h % WindowSize(h) # 0 THEN {}
  ELSE {f \in Feature : /\ Votes(f, h) > 0
                        /\ Votes(f, h) + (IF f \in votes THEN 1 ELSE 0) >= RequiredAt(h)}

\* Mutated: Map's ++ the other way round
OlderLost(new, old) ==
  [f \in DOMAIN new \cup DOMAIN old |-> IF f \in DOMAIN new THEN new[f] ELSE old[f]]

\* new ++ old: what is known already stays.
OlderWins(new, old) ==
  [f \in DOMAIN new \cup DOMAIN old |-> IF f \in DOMAIN old THEN old[f] ELSE new[f]]

-----------------------------------------------------------------------------
(* What readers see.                                                       *)

Height == Len(stored) + (IF liquid = Empty THEN 0 ELSE 1)

NewlyApproved == IF liquid = Empty THEN {} ELSE liquid.approved

ApprovedFeatures == OlderWins([f \in NewlyApproved |-> Height], approved)

ActivatedFeatures ==
  OlderWins([f \in NewlyApproved |-> Height + WindowSize(Height)],
            OlderWins(activated, PreActivated))

ActiveAt(activation, h) == {f \in DOMAIN activation : activation[f] <= h}

\* FeatureProvider.featureStatus
Status(f, h) ==
  IF f \in ActiveAt(ActivatedFeatures, h) THEN "activated"
  ELSE IF f \in ActiveAt(ApprovedFeatures, h) THEN "approved"
  ELSE "undefined"

-----------------------------------------------------------------------------
(* The actions.                                                            *)

\* Mutated: no check
SupportsAny == TRUE

\* The check at the start of processBlock, at the persisted height
Supports ==
  AutoShutdown => ActiveAt(OlderWins(activated, PreActivated), Len(stored)) \subseteq Implemented

\* doAppend of the liquid block
Persist ==
  LET h == Len(stored) + 1
      new == ApprovedWith(liquid.votes, h) \ DOMAIN PreActivated
  IN  /\ stored' = Append(stored, liquid.votes)
      /\ approved' = OlderWins([f \in new |-> h], approved)
      /\ activated' = OlderWins([f \in new |-> h + WindowSize(h)], activated)
      /\ safe' = IF safe < h - MaxRollback THEN h - MaxRollback ELSE safe

\* featuresApprovedWithBlock of a block that is to be liquid on the persisted tip
FeaturesApproved(votes) == ApprovedWith(votes, Len(stored) + 1)

\* processBlock of a block on the persisted tip: the first after a start or a
\* removal, or one that replaces the liquid block.
BlockOnPersisted(votes) ==
  /\ Supports
  /\ Len(stored) \in 1..MaxHeight - 1
  /\ liquid' = [votes |-> votes, approved |-> FeaturesApproved(votes)]
  /\ UNCHANGED <<stored, approved, activated, safe>>

\* processBlock of a block on the liquid one, which is persisted first
BlockOnLiquid(votes) ==
  /\ Supports
  /\ liquid # Empty
  /\ Len(stored) + 1 < MaxHeight
  /\ Persist
  /\ liquid' = [votes |-> votes, approved |-> FeaturesApproved(votes)']

CanRollBackTo(h) == h \in safe + 1..Len(stored)

\* removeAfter: approved and activated features stay as they are.  One that is
\* refused loses the liquid block, like a restart.
RemoveAfter(h) ==
  /\ CanRollBackTo(h)
  /\ stored' = SubSeq(stored, 1, h)
  /\ liquid' = Empty
  /\ UNCHANGED <<approved, activated, safe>>

Genesis == [votes |-> {}, approved |-> {}]

\* A restart, after forceStopApplication or not: the liquid block is lost, and
\* the genesis block is appended if nothing is stored.
NodeRestart ==
  /\ liquid' = IF stored = <<>> THEN Genesis ELSE Empty
  /\ UNCHANGED <<stored, approved, activated, safe>>

VotingInit ==
  /\ stored = <<>>
  /\ liquid = Genesis
  /\ approved = [f \in {} |-> 0]
  /\ activated = [f \in {} |-> 0]
  /\ safe = 0

VotingNext ==
  \/ \E votes \in SUBSET Feature : BlockOnPersisted(votes) \/ BlockOnLiquid(votes)
  \/ \E h \in 1..MaxHeight : RemoveAfter(h)
  \/ NodeRestart

VotingSpec == VotingInit /\ [][VotingNext]_votingVars
-----------------------------------------------------------------------------
(* Properties.                                                             *)

\* The votes of the chain, the liquid block included
Chain == IF liquid = Empty THEN stored ELSE Append(stored, liquid.votes)

\* A window that ends at h and has the votes for f
Elected(f, h) ==
  /\ h \in DOMAIN Chain
  /\ h % WindowSize(h) = 0
  /\ Cardinality({k \in Window(h) : f \in Chain[k]}) >= RequiredAt(h)

\* "features rollback with block rollback" (BlockchainUpdaterTest.scala:81):
\* a feature that counts as approved or active has been elected on this chain.
ApprovedIsElected ==
  \A f \in Feature \ DOMAIN PreActivated :
    Status(f, Height) # "undefined" => \E h \in 1..Height : Elected(f, h)

\* No block approves a feature that its chain did not elect: votes of an earlier
\* window or of removed blocks do not count.
NewApprovalsAreElected ==
  [][\A f \in DOMAIN ApprovedFeatures' \ DOMAIN ApprovedFeatures :
       Elected(f, Height)']_votingVars

\* No elected feature is forgotten or late, be the electing block liquid,
\* persisted, replaced, or removed and appended again: nodes that came to a
\* chain by different ways would disagree about its rules.
NoLostApproval ==
  \A f \in Feature \ DOMAIN PreActivated, h \in 1..Height :
    Elected(f, h) => f \in DOMAIN ApprovedFeatures /\ ApprovedFeatures[f] <= h

\* Extending the chain never moves the activation of a feature, neither when its
\* election is persisted nor when it is elected again ("feature activation height
\* is not overriden with further periods").
ActivationIsStable ==
  [][Height' > Height =>
       \A f \in DOMAIN ActivatedFeatures :
         /\ f \in DOMAIN ActivatedFeatures'
         /\ ActivatedFeatures'[f] = ActivatedFeatures[f]]_votingVars

\* A node that shuts down on unsupported features never follows the chain further
\* than one block beyond the activation of one.
UnsupportedIsRefused ==
  AutoShutdown =>
    \A f \in DOMAIN activated \ Implemented : Height <= activated[f] + 1
=============================================================================
