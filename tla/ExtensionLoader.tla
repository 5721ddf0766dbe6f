--------------------------- MODULE ExtensionLoader ---------------------------
(***************************************************************************)
(* RxScoreObserver and RxExtensionLoader: how the node finds the peer with *)
(* the best score and downloads the part of its chain that it lacks, the   *)
(* EXTENSION.  While one extension is being applied the loader already     *)
(* asks for what follows it and keeps the answer in a buffer.              *)
(*                                                                         *)
(* Four threads take part: the observer's, the loader's (where the timers  *)
(* fire, too), that of the appenders, and the network; queues are between  *)
(* them.  The loader merges four sources, each of which keeps its order.    *)
(*                                                                         *)
(* A chain is named by its last block: blocks form a tree.  Peers run this *)
(* program, too, so they tell the truth about their chains, but may answer *)
(* never, change to a better chain or close the channel at any time.       *)
(***************************************************************************)
EXTENDS Integers, Sequences, FiniteSets, SequencesExt

CONSTANTS
  Channel,   \* connections with peers; a peer that comes back has a new one
  None,      \* no channel
  Block,     \* all blocks
  Genesis,   \* the first of them
  Parent,    \* [Block \ {Genesis} -> Block]
  Score,     \* [Block -> Nat \ {0}]: score of the chain with this last block
  Declined,  \* blocks that the appender declines
  StartTip,  \* [Channel -> Block]: what the peers have at first
  MaxKnown,  \* synchronization.max-rollback: how many signatures are sent
  MaxIds,    \* synchronization.max-chain-length: how many are asked for
  MaxDisturbances  \* bound of the model, see Disturbance

ASSUME TreeAssumption ==
  /\ None \notin Channel
  /\ Genesis \in Block
  /\ Parent \in [Block \ {Genesis} -> Block]
  /\ Score \in [Block -> Nat \ {0}]
  /\ \A b \in Block \ {Genesis} : Score[Parent[b]] < Score[b]
  /\ Declined \subseteq Block \ {Genesis}
  /\ StartTip \in [Channel -> Block]

ASSUME SettingsAssumption == MaxKnown \in Nat \ {0} /\ MaxIds \in Nat \ {0, 1}

ASSUME BoundAssumption == MaxDisturbances \in Nat

VARIABLES
  tip,          \* the chain of the node
  invalid,      \* InvalidBlockStorage
  jobs,         \* extensions handed to ExtensionAppender: [ch, ext]
  localScores,  \* scores published by the updater, not yet observed
  status,       \* of the channels: new, open or closed
  peerTip,      \* the chains of the peers
  requests,     \* not yet answered: [ch, type, ids]
  heard,        \* scores that have come in and are debounced, 0 if there is none
  closing,      \* closed and timed out channels, not yet observed
  localScore,   \* RxScoreObserver: the observed score of the node
  scores,       \* RxScoreObserver: of the channels, 0 if there is none
  emitted,      \* the last ChannelClosedAndSyncWith; lastSyncWith is part of it
  mailbox,      \* what the loader has not handled yet
  loader,       \* RxExtensionLoader: LoaderState
  applier,      \* RxExtensionLoader: ApplierState; ext is <<>> when it is idle
  timers,       \* scheduled blacklistings
  disturbances  \* how often the environment has interfered

chainVars == <<tip, invalid, localScores>>
peerVars == <<peerTip, heard>>
closeVars == <<status, closing>>
observerVars == <<localScore, scores, emitted>>
loaderVars == <<loader, timers, requests>>
extensionVars == <<jobs, applier>>
syncVars == <<chainVars, peerVars, closeVars, observerVars, mailbox, loaderVars,
              extensionVars, disturbances>>

-----------------------------------------------------------------------------
(* Chains.                                                                 *)

\* The blocks of the chain that ends with a block, from the first to the last
PathTo[b \in Block] == IF b = Genesis THEN <<b>> ELSE Append(PathTo[Parent[b]], b)

OnChain(b) == ToSet(PathTo[b])

\* The last ids of the chain, newest first
LastBlockIds ==
  LET p == PathTo[tip]
  IN  Reverse(SubSeq(p, IF Len(p) > MaxKnown THEN Len(p) - MaxKnown + 1 ELSE 1, Len(p)))

ScoresOf(ids) == [i \in DOMAIN ids |-> Score[ids[i]]]

-----------------------------------------------------------------------------
(* The other side: HistoryReplier of a peer.                               *)

\* blockIdsAfter: from the block itself on, and the liquid block, the last one,
\* if there is room
BlockIdsAfter(path, id) ==
  LET h == CHOOSE i \in DOMAIN path : path[i] = id
      to == IF h + MaxIds > Len(path) THEN Len(path) - 1 ELSE h + MaxIds - 1
      ids == SubSeq(path, h, to)
  IN  IF id = Last(path) THEN <<>>
      ELSE IF Len(ids) < MaxIds THEN Append(ids, Last(path)) ELSE ids

\* Answer to a request: none to signatures of which the peer knows none, and
\* none to a block it does not have (any more).
AnswerTo(r) ==
  LET path == PathTo[peerTip[r.ch]]
      k == SelectInSeq(r.ids, LAMBDA id : id \in ToSet(path))
  IN  IF k = 0 THEN <<>>
      ELSE IF r.type = "block" THEN <<r>>
      ELSE <<[r EXCEPT !.ids = <<r.ids[k]>> \o BlockIdsAfter(path, r.ids[k])]>>

\* Two threads answer, in any order.
Reply(r) ==
  /\ requests' = requests \ {r}
  /\ mailbox' = mailbox \o AnswerTo(r)
  /\ UNCHANGED <<chainVars, peerVars, closeVars, observerVars, loader, timers, extensionVars>>

\* A peer sends its score after the handshake and when it changes.
Connect(c) ==
  /\ status[c] = "new"
  /\ status' = [status EXCEPT ![c] = "open"]
  /\ heard' = [heard EXCEPT ![c] = Score[peerTip[c]]]
  /\ UNCHANGED <<chainVars, peerTip, closing, observerVars, mailbox, loaderVars, extensionVars>>

PeerImproves(c, b) ==
  /\ status[c] = "open"
  /\ Score[b] > Score[peerTip[c]]
  /\ peerTip' = [peerTip EXCEPT ![c] = b]
  /\ heard' = [heard EXCEPT ![c] = Score[b]]
  /\ UNCHANGED <<chainVars, closeVars, observerVars, mailbox, loaderVars, extensionVars>>

PeerCloses(c) ==
  /\ status[c] = "open"
  /\ status' = [status EXCEPT ![c] = "closed"]
  /\ closing' = Append(closing, c)
  /\ requests' = {r \in requests : r.ch # c}
  /\ UNCHANGED <<chainVars, peerVars, observerVars, mailbox, loader, timers, extensionVars>>

-----------------------------------------------------------------------------
(* RxScoreObserver.                                                        *)

\* calcSyncWith: the channels it may choose, given the previous choice
BestChannels(known, local, previous) ==
  LET top == {c \in Channel : known[c] > local /\ \A d \in Channel : known[d] <= known[c]}
  IN  IF top = {} THEN {None} ELSE IF previous \in top THEN {previous} ELSE top

\* Every event is followed by a choice; one like the last is not emitted.
Emit(closed, previous) ==
  \E best \in BestChannels(scores', localScore', previous) :
    LET e == [type |-> "sync", closed |-> closed, sync |-> best,
              score |-> IF best = None THEN 0 ELSE scores'[best]]
    IN  /\ emitted' = e
        /\ mailbox' = IF e = emitted THEN mailbox ELSE Append(mailbox, e)

ObserveLocal ==
  /\ localScores # <<>>
  /\ localScore' = Head(localScores)
  /\ localScores' = Tail(localScores)
  /\ UNCHANGED scores
  /\ Emit(None, emitted.sync)
  /\ UNCHANGED <<tip, invalid, peerVars, closeVars, loaderVars, extensionVars>>

\* A score may be observed after its channel has been closed.
ObserveScore(c) ==
  /\ heard[c] # 0
  /\ heard' = [heard EXCEPT ![c] = 0]
  /\ scores' = [scores EXCEPT ![c] = heard[c]]
  /\ UNCHANGED localScore
  /\ Emit(None, emitted.sync)
  /\ UNCHANGED <<chainVars, peerTip, closeVars, loaderVars, extensionVars>>

ObserveClosed ==
  /\ closing # <<>>
  /\ closing' = Tail(closing)
  /\ LET c == Head(closing)
     IN  /\ scores' = [scores EXCEPT ![c] = 0]
         /\ UNCHANGED localScore
         /\ Emit(c, IF emitted.sync = c THEN None ELSE emitted.sync)
  /\ UNCHANGED <<chainVars, peerVars, status, loaderVars, extensionVars>>

\* Every score is forgotten score-ttl after it was put, which is not an event.
ScoreExpires(c) ==
  /\ scores[c] # 0
  /\ scores' = [scores EXCEPT ![c] = 0]
  /\ UNCHANGED <<chainVars, peerVars, closeVars, localScore, emitted, mailbox, loaderVars,
                 extensionVars>>

-----------------------------------------------------------------------------
(* RxExtensionLoader: its states, and what it asks for next.               *)

IdleLoader == [state |-> "idle", ch |-> None, ids |-> <<>>, left |-> {}]

\* ids: the signatures sent with the request
ExpectingSignatures(c, known) ==
  [state |-> "signatures", ch |-> c, ids |-> known, left |-> {}]

\* ids: the blocks requested; left: those that have not come
ExpectingBlocks(c, requested, expected) ==
  [state |-> "blocks", ch |-> c, ids |-> requested, left |-> expected]

NoBuffer == [ch |-> None, ext |-> <<>>]
IdleApplier == [ext |-> <<>>, buf |-> NoBuffer]
Applying(ext) == [ext |-> ext, buf |-> NoBuffer]

\* The timer that scheduleBlacklist starts for a state with a peer
TimerOf(l) ==
  IF l.state = "idle" THEN {} ELSE {[ch |-> l.ch, left |-> Cardinality(l.left)]}

\* Mutated: the timer of the state that is left goes on
LoaderKeepingTimer(l) ==
  /\ loader' = l
  /\ timers' = timers \cup TimerOf(l)

\* withLoaderState cancels the timer of the state that is left.
LoaderBecomes(l) ==
  /\ loader' = l
  /\ timers' = (timers \ TimerOf(loader)) \cup TimerOf(l)

\* What is written to a closed channel is lost.
Send(rs) == requests' = {r \in requests \cup rs : status'[r.ch] = "open"}

\* Mutated: the next extension is asked for although one is in the buffer
NeverHolds(a) == FALSE

\* No request while a second extension waits in the buffer
Holds(a) == a.buf # NoBuffer

KnownSigs(a) == IF a.ext = <<>> THEN LastBlockIds ELSE Reverse(a.ext)

\* syncNext of a loader l, the present one or an idle one, with the channel best
SyncNext(l, a, best) ==
  IF best # None /\ l.state # "idle" THEN UNCHANGED <<loader, timers>> /\ Send({})
  ELSE IF best = None \/ Holds(a) THEN LoaderBecomes(IdleLoader) /\ Send({})
  ELSE /\ LoaderBecomes(ExpectingSignatures(best, KnownSigs(a)))
       /\ Send({[ch |-> best, type |-> "signatures", ids |-> KnownSigs(a)]})

\* blacklistAndClose of an open channel; again is the event of a timeout
Close(c, again) ==
  /\ status' = [status EXCEPT ![c] = "closed"]
  /\ closing' = closing \o again \o (IF status[c] = "open" THEN <<c>> ELSE <<>>)

-----------------------------------------------------------------------------
(* RxExtensionLoader: the handlers.                                        *)

\* Mutated: a waiting loader goes on whichever channel has been closed
StaysAnyway(closed) == loader.state # "idle"

\* Another channel than the one the loader waits for has been closed.
StaysWithPeer(closed) == loader.state # "idle" /\ loader.ch # closed

\* onNewSyncWithChannelClosed
OnSyncWith(e) ==
  /\ e.type = "sync"
  /\ UNCHANGED <<closeVars, extensionVars>>
  /\ IF e.sync = None THEN LoaderBecomes(IdleLoader) /\ Send({})
     ELSE IF e.closed = None THEN SyncNext(loader, applier, e.sync)
     ELSE IF StaysWithPeer(e.closed) THEN UNCHANGED loaderVars
     ELSE SyncNext(IdleLoader, applier, e.sync)

SyncComplete(unknown) == unknown = <<>>

\* The signatures without the known ones at the start
Unknown(ids) ==
  LET k == SelectInSeq(ids, LAMBDA id : id \notin ToSet(loader.ids))
  IN  IF k = 0 THEN <<>> ELSE SubSeq(ids, k, Len(ids))

OnSignatures(m) ==
  LET unknown == Unknown(m.ids)
  IN  /\ m.type = "signatures"
      /\ UNCHANGED extensionVars
      /\ IF loader.state # "signatures" \/ loader.ch # m.ch
         THEN UNCHANGED <<closeVars, loaderVars>>
         ELSE IF ToSet(m.ids) \cap invalid # {}
         THEN Close(m.ch, <<>>) /\ SyncNext(IdleLoader, applier, emitted.sync)
         ELSE /\ UNCHANGED closeVars
              /\ IF SyncComplete(unknown) THEN LoaderBecomes(IdleLoader) /\ Send({})
                 ELSE /\ LoaderBecomes(ExpectingBlocks(m.ch, unknown, ToSet(unknown)))
                      /\ Send({[ch |-> m.ch, type |-> "block", ids |-> <<id>>] : id \in ToSet(unknown)})

\* extensionLoadingFinished, with an idle loader
LoadingFinished(c, ext) ==
  IF applier = IdleApplier
  THEN /\ jobs' = Append(jobs, [ch |-> c, ext |-> ext])
       /\ applier' = Applying(ext)
       /\ SyncNext(IdleLoader, Applying(ext), emitted.sync)
  ELSE /\ UNCHANGED jobs
       /\ applier' = IF applier.buf = NoBuffer
                     THEN [applier EXCEPT !.buf = [ch |-> c, ext |-> ext]] ELSE applier
       /\ LoaderBecomes(IdleLoader) /\ Send({})

\* A block that was not asked for goes to BlockAppender, see AppendSimple.
OnBlock(m) ==
  LET b == Head(m.ids)
  IN  /\ m.type = "block"
      /\ UNCHANGED closeVars
      /\ IF loader.state # "blocks" \/ loader.ch # m.ch \/ b \notin loader.left
         THEN UNCHANGED <<loaderVars, extensionVars>>
         ELSE IF loader.left = {b} THEN LoadingFinished(m.ch, loader.ids)
         ELSE /\ LoaderBecomes(ExpectingBlocks(m.ch, loader.ids, loader.left \ {b}))
              /\ Send({})
              /\ UNCHANGED extensionVars

\* onExtensionApplied: a buffered extension is started, or discarded with the
\* one it follows.
OnApplied(m) ==
  LET next == applier.buf
      starts == next # NoBuffer /\ m.right
  IN  /\ m.type = "applied"
      /\ UNCHANGED closeVars
      /\ jobs' = IF starts THEN Append(jobs, next) ELSE jobs
      /\ applier' = IF starts THEN Applying(next.ext) ELSE IdleApplier
      /\ IF next = NoBuffer THEN UNCHANGED loaderVars
         ELSE SyncNext(loader, applier', emitted.sync)

\* Each of the four sources keeps its order.
Handle ==
  \E i \in DOMAIN mailbox :
    LET m == mailbox[i]
    IN  /\ \A j \in 1 .. i - 1 : mailbox[j].type # m.type
        /\ mailbox' = RemoveAt(mailbox, i)
        /\ OnSyncWith(m) \/ OnSignatures(m) \/ OnBlock(m) \/ OnApplied(m)
        /\ UNCHANGED <<chainVars, peerVars, observerVars>>

\* A peer that has not answered in time: the observer is told twice if the
\* channel was still open.
TimerFires(t) ==
  /\ timers' = timers \ {t}
  /\ Close(t.ch, <<t.ch>>)
  /\ Send({})
  /\ UNCHANGED <<chainVars, peerVars, observerVars, mailbox, loader, extensionVars>>

-----------------------------------------------------------------------------
(* The appenders, see Appender.                                            *)

\* ExtensionAppender as one step: either every new block is appended, or the
\* chain is as before, the declined block remembered (unless it was only too
\* early) and the peer blacklisted.  Each appended or restored block publishes
\* a score.
ApplyExtension ==
  /\ jobs # <<>>
  /\ jobs' = Tail(jobs)
  /\ LET job == Head(jobs)
         k == SelectInSeq(job.ext, LAMBDA id : id \notin OnChain(tip))
         new == IF k = 0 THEN <<>> ELSE SubSeq(job.ext, k, Len(job.ext))
         below == OnChain(Parent[Head(new)])
         bad == SelectInSeq(new, LAMBDA id : id \in Declined)
         dropped == SelectSeq(PathTo[tip], LAMBDA id : id \notin below)
         right == new = <<>> \/ (bad = 0 /\ Parent[Head(new)] \in OnChain(tip))
     IN  /\ mailbox' = Append(mailbox, [type |-> "applied", right |-> right])
         /\ IF new = <<>> THEN UNCHANGED <<chainVars, closeVars, requests>>
            ELSE IF right
            THEN /\ tip' = Last(new)
                 /\ localScores' = localScores \o ScoresOf(new)
                 /\ UNCHANGED <<invalid, closeVars, requests>>
            ELSE /\ Close(job.ch, <<>>)
                 /\ Send({})
                 /\ UNCHANGED tip
                 /\ IF Parent[Head(new)] \notin OnChain(tip) THEN UNCHANGED <<localScores, invalid>>
                    ELSE /\ localScores' = localScores \o ScoresOf(SubSeq(new, 1, bad - 1) \o dropped)
                         /\ invalid' \in {invalid, invalid \cup {new[bad]}}
  /\ UNCHANGED <<peerVars, observerVars, loader, timers, applier>>

\* BlockAppender or the miner appends a block or a better sibling of the last.
AppendSimple(b) ==
  /\ localScores = <<>>
  /\ b \notin Declined \cup {Genesis}
  /\ \/ Parent[b] = tip
     \/ tip # Genesis /\ Parent[b] = Parent[tip] /\ Score[b] > Score[tip]
  /\ tip' = b
  /\ localScores' = <<Score[b]>>
  /\ UNCHANGED <<invalid, peerVars, closeVars, observerVars, mailbox, loaderVars, extensionVars>>

Forget(b) ==
  /\ b \in invalid
  /\ invalid' = invalid \ {b}
  /\ UNCHANGED <<tip, localScores, peerVars, closeVars, observerVars, mailbox, loaderVars,
                 extensionVars>>

-----------------------------------------------------------------------------
SyncInit ==
  /\ tip = Genesis
  /\ invalid = {}
  /\ jobs = <<>>
  /\ localScores = <<>>
  /\ status = [c \in Channel |-> "new"]
  /\ peerTip = StartTip
  /\ requests = {}
  /\ heard = [c \in Channel |-> 0]
  /\ closing = <<>>
  /\ localScore = Score[Genesis]
  /\ scores = [c \in Channel |-> 0]
  /\ emitted = [type |-> "sync", closed |-> None, sync |-> None, score |-> 0]
  /\ mailbox = <<>>
  /\ loader = IdleLoader
  /\ applier = IdleApplier
  /\ timers = {}
  /\ disturbances = 0

Observer ==
  /\ ObserveLocal \/ ObserveClosed \/ \E c \in Channel : ObserveScore(c)
  /\ UNCHANGED disturbances

Loader == Handle /\ UNCHANGED disturbances

Timer == (\E t \in timers : TimerFires(t)) /\ UNCHANGED disturbances

Applier == ApplyExtension /\ UNCHANGED disturbances

Peers ==
  /\ (\E c \in Channel : Connect(c)) \/ (\E r \in requests : Reply(r))
  /\ UNCHANGED disturbances

Expiry == (\E c \in Channel : ScoreExpires(c)) /\ UNCHANGED disturbances

\* What may cross all this, a bounded number of times
Disturbance ==
  /\ disturbances < MaxDisturbances
  /\ disturbances' = disturbances + 1
  /\ \/ \E c \in Channel : PeerCloses(c)
     \/ \E c \in Channel, b \in Block : PeerImproves(c, b)
     \/ \E b \in Block : AppendSimple(b) \/ Forget(b)

SyncStep == Observer \/ Loader \/ Timer \/ Applier \/ Peers \/ Expiry \/ Disturbance

\* The threads of the node keep running; a timer fires and a score expires in the
\* end.  Nothing is assumed of the peers.
SyncSpec ==
  /\ SyncInit /\ [][SyncStep]_syncVars
  /\ WF_syncVars(Observer) /\ WF_syncVars(Loader)
  /\ WF_syncVars(Timer) /\ WF_syncVars(Applier) /\ WF_syncVars(Expiry)

-----------------------------------------------------------------------------
(* Properties.                                                             *)

\* The warnings of the loader ("Overflow, discarding", "ApplierState is Idle",
\* "doesn't match expected") never appear: one extension is applied at a time,
\* the one the applier knows of, and with a second one in the buffer no third
\* is on the way.
NoExtensionLost ==
  /\ Len(jobs) + Cardinality({i \in DOMAIN mailbox : mailbox[i].type = "applied"})
       = (IF applier = IdleApplier THEN 0 ELSE 1)
  /\ jobs # <<>> => Head(jobs).ext = applier.ext
  /\ applier.buf # NoBuffer => applier.ext # <<>> /\ loader.state = "idle"

\* Only a peer that owes an answer at that moment is blacklisted for a timeout:
\* however answers, closed channels and new scores cross, no timer of an earlier
\* state of the loader is left.
TimeoutOnlyIfOwed == [][Timer => loader.ch \in {t.ch : t \in timers \ timers'}]_syncVars

\* Every wait for a channel ends, whether the peer answers, keeps silent or has
\* been closed, perhaps before it was asked; so the loader never hangs.
EveryWaitEnds == \A c \in Channel : loader.ch = c ~> loader.ch # c
=============================================================================
