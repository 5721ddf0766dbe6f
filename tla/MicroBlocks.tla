----------------------------- MODULE MicroBlocks -----------------------------
(***************************************************************************)
(* MicroBlockSynchronizer: microblocks are announced by peers, asked for   *)
(* when they follow the last block, and handed to MicroblockAppender.      *)
(*                                                                         *)
(* Each handler is one step, as on the single thread it is given.  The     *)
(* last block has two subscribers, lastObserved (line 36) and the one that *)
(* downloads (line 71); each hears of a new last block at a time of its    *)
(* own, and either may be the first.  Entries of the four caches expire in *)
(* any order.  A peer announces a microblock once, when it likes, and      *)
(* answers late or never.                                                  *)
(***************************************************************************)
EXTENDS Integers, Sequences, Bags, BagsExt

CONSTANTS
  Channel,
  Block,            \* ids of key blocks
  Micro,            \* microblocks, each named by its total signature
  Parent,           \* [Micro -> id of the block or microblock it follows]
  First,            \* the last block when the node starts
  None,
  Attempts,         \* MicroBlockDownloadAttempts
  MaxDisturbances   \* bound of the model

Id == Block \cup Micro

ASSUME MicroAssumption ==
  /\ Parent \in [Micro -> Id]
  /\ First \in Id
  /\ Block \cap Micro = {} /\ None \notin Id
  /\ Attempts \in Nat \ {0}
  /\ MaxDisturbances \in Nat

VARIABLES
  last,         \* the last block of the updater
  observed,     \* what lastBlockId() returns
  toObserve,    \* last blocks that lastObserved has still to hear of
  toDownload,   \* last blocks that tryDownloadNext has still to be called with
  owners,       \* microBlockOwners
  nextInvs,     \* by the id that the announced microblock follows
  awaiting,
  received,     \* successfullyReceived
  tasks,        \* scheduled attempts, a bag
  requests,     \* requests that have no answer yet, a bag
  open,         \* channels that are open
  announced,    \* what each channel has announced
  out,          \* microblocks on the way to MicroblockAppender
  asked,        \* history: microblocks that were ever asked for
  passed,       \* history: how often each was handed on while it is in received
  forgotten,    \* history: microblocks whose entries have expired
  between,      \* history: announced to follow the last block when only line 71
                \* had heard of it
  disturbances

caches == <<owners, nextInvs, awaiting, received>>
flight == <<tasks, requests>>
chain == <<last, toObserve, toDownload, between>>
peers == <<open, announced>>
history == <<asked, passed, forgotten>>
microVars == <<chain, observed, caches, flight, peers, out, history, disturbances>>

-----------------------------------------------------------------------------

Task == [micro : Micro, left : 1 .. Attempts, exclude : SUBSET Channel]

Request == [to : Channel, micro : Micro]

\* A channel that a task may still ask; closed ones it passes over
FreeOwners(m, exclude) == (owners'[m] \cap open) \ exclude

\* Mutated: asks again for what has been received
CanAskAgain(m, exclude) == FreeOwners(m, exclude) # {}

CanAsk(m, exclude) == m \notin received /\ FreeOwners(m, exclude) # {}

\* The next attempt after waitResponseTimeout; without attempts left it would
\* do nothing
Schedule(m, left, exclude, others) ==
  IF left = 0 THEN others
  ELSE BagAdd(others, [micro |-> m, left |-> left, exclude |-> exclude])

\* A run of task, with the other tasks that are scheduled
Attempt(m, left, exclude, others) ==
  IF CanAsk(m, exclude)
    THEN \E ch \in FreeOwners(m, exclude) :
           /\ requests' = BagAdd(requests, [to |-> ch, micro |-> m])
           /\ awaiting' = awaiting \cup {m}
           /\ tasks' = Schedule(m, left - 1, exclude \cup {ch}, others)
           /\ asked' = asked \cup {m}
    ELSE /\ tasks' = others
         /\ UNCHANGED <<requests, awaiting, asked>>

RequestMicroBlock(m) == Attempt(m, Attempts, {}, tasks)

NothingToAsk == UNCHANGED <<flight, awaiting, asked>>

TryDownloadNext(id) ==
  IF nextInvs'[id] = None THEN NothingToAsk ELSE RequestMicroBlock(nextInvs'[id])

-----------------------------------------------------------------------------
(* The handlers                                                            *)

\* Mutated: an announcement is remembered only if it follows the last block
RememberNow(m) ==
  IF nextInvs[Parent[m]] = None /\ Parent[m] = observed
    THEN [nextInvs EXCEPT ![Parent[m]] = m] ELSE nextInvs

Remember(m) ==
  IF nextInvs[Parent[m]] = None THEN [nextInvs EXCEPT ![Parent[m]] = m] ELSE nextInvs

\* tryDownloadNext has been called with the last block, and lastBlockId() is still
\* an earlier one.
OnlyDownloaded == toDownload = << >> /\ toObserve # << >>

OnInv(ch, m) ==
  /\ ch \in open /\ m \notin announced[ch]
  /\ announced' = [announced EXCEPT ![ch] = @ \cup {m}]
  /\ owners' = [owners EXCEPT ![m] = @ \cup {ch}]
  /\ nextInvs' = Remember(m)
  /\ IF observed = Parent[m] /\ m \notin awaiting
       THEN TryDownloadNext(Parent[m])
       ELSE NothingToAsk
  /\ between' = IF Parent[m] = last /\ OnlyDownloaded THEN between \cup {m} ELSE between
  /\ UNCHANGED <<last, toObserve, toDownload, observed, received, open, out, passed,
                 forgotten, disturbances>>

\* Mutated: an awaited answer is not noted as received
NoteUnawaited(m) == IF m \in awaiting THEN received ELSE received \cup {m}

Note(m) == received \cup {m}

\* The answer to a request: only what is awaited goes to the appender
OnResponse(r) ==
  /\ r \in BagToSet(requests) /\ r.to \in open
  /\ requests' = BagRemove(requests, r)
  /\ received' = Note(r.micro)
  /\ awaiting' = awaiting \ {r.micro}
  /\ IF r.micro \in awaiting
       THEN /\ out' = Append(out, r.micro)
            /\ passed' = [passed EXCEPT ![r.micro] = @ + 1]
       ELSE UNCHANGED <<out, passed>>
  /\ UNCHANGED <<chain, observed, owners, nextInvs, tasks, peers, asked, forgotten,
                 disturbances>>

LastObserved ==
  /\ toObserve # << >>
  /\ observed' = Head(toObserve)
  /\ toObserve' = Tail(toObserve)
  /\ UNCHANGED <<last, toDownload, between, caches, flight, peers, out, history, disturbances>>

OnLastBlockId ==
  /\ toDownload # << >>
  /\ toDownload' = Tail(toDownload)
  /\ UNCHANGED <<owners, nextInvs>>
  /\ TryDownloadNext(Head(toDownload))
  /\ UNCHANGED <<last, toObserve, observed, received, peers, out, passed, forgotten,
                 between, disturbances>>

\* waitResponseTimeout has passed
NextAttempt(t) ==
  /\ t \in BagToSet(tasks)
  /\ UNCHANGED <<owners, nextInvs>>
  /\ Attempt(t.micro, t.left, t.exclude, BagRemove(tasks, t))
  /\ UNCHANGED <<chain, observed, received, peers, out, passed, forgotten, disturbances>>

-----------------------------------------------------------------------------
(* What goes on around the synchronizer                                    *)

NewLast(id) ==
  /\ last' = id
  /\ toObserve' = Append(toObserve, id)
  /\ toDownload' = Append(toDownload, id)
  /\ between' = {}

\* MicroblockAppender: accepted if it follows the last block
AppendMicro ==
  /\ out # << >>
  /\ out' = Tail(out)
  /\ IF Parent[Head(out)] = last THEN NewLast(Head(out)) ELSE UNCHANGED chain
  /\ UNCHANGED <<observed, caches, flight, peers, history, disturbances>>

Disturb ==
  /\ disturbances < MaxDisturbances
  /\ disturbances' = disturbances + 1

\* A key block, a fork, or a microblock of the node's own miner
OtherLast(id) ==
  /\ Disturb
  /\ NewLast(id)
  /\ UNCHANGED <<observed, caches, flight, peers, out, history>>

CloseChannel(ch) ==
  /\ Disturb
  /\ open' = open \ {ch}
  /\ UNCHANGED <<chain, observed, caches, flight, announced, out, history>>

ExpireInv(m) ==
  /\ Disturb
  /\ \/ /\ owners' = [owners EXCEPT ![m] = {}]
        /\ UNCHANGED <<nextInvs, awaiting>>
     \/ /\ nextInvs[Parent[m]] = m
        /\ nextInvs' = [nextInvs EXCEPT ![Parent[m]] = None]
        /\ UNCHANGED <<owners, awaiting>>
     \/ /\ awaiting' = awaiting \ {m}
        /\ UNCHANGED <<owners, nextInvs>>
  /\ forgotten' = forgotten \cup {m}
  /\ UNCHANGED <<chain, observed, received, flight, peers, out, asked, passed>>

ExpireReceived(m) ==
  /\ Disturb
  /\ received' = received \ {m}
  /\ passed' = [passed EXCEPT ![m] = 0]
  /\ forgotten' = forgotten \cup {m}
  /\ UNCHANGED <<chain, observed, owners, nextInvs, awaiting, flight, peers, out, asked>>

-----------------------------------------------------------------------------

MicroInit ==
  /\ last = First /\ observed = None
  /\ toObserve = <<First>> /\ toDownload = <<First>>
  /\ owners = [m \in Micro |-> {}]
  /\ nextInvs = [id \in Id |-> None]
  /\ awaiting = {} /\ received = {}
  /\ tasks = EmptyBag /\ requests = EmptyBag
  /\ open = Channel /\ announced = [ch \in Channel |-> {}] /\ out = << >>
  /\ asked = {} /\ passed = [m \in Micro |-> 0] /\ forgotten = {} /\ between = {}
  /\ disturbances = 0

MicroNext ==
  \/ \E ch \in Channel, m \in Micro : OnInv(ch, m)
  \/ \E r \in Request : OnResponse(r)
  \/ LastObserved
  \/ OnLastBlockId
  \/ \E t \in Task : NextAttempt(t)
  \/ AppendMicro
  \/ \E id \in Id : OtherLast(id)
  \/ \E ch \in Channel : CloseChannel(ch)
  \/ \E m \in Micro : ExpireInv(m) \/ ExpireReceived(m)

MicroSpec == MicroInit /\ [][MicroNext]_microVars

-----------------------------------------------------------------------------
(* Properties                                                              *)

\* Every variable has its type.
MicroTypeOK ==
  /\ last \in Id /\ observed \in Id \cup {None}
  /\ toObserve \in Seq(Id) /\ toDownload \in Seq(Id)
  /\ owners \in [Micro -> SUBSET Channel]
  /\ nextInvs \in [Id -> Micro \cup {None}]
  /\ awaiting \in SUBSET Micro /\ received \in SUBSET Micro
  /\ BagToSet(tasks) \subseteq Task /\ BagToSet(requests) \subseteq Request
  /\ open \in SUBSET Channel /\ announced \in [Channel -> SUBSET Micro] /\ out \in Seq(Micro)
  /\ asked \in SUBSET Micro /\ passed \in [Micro -> Nat]
  /\ forgotten \in SUBSET Micro /\ between \in SUBSET Micro
  /\ disturbances \in 0 .. MaxDisturbances

\* However many tasks ask for a microblock and however many peers answer,
\* late or twice, it goes to the appender once as long as it is known to be
\* received.
ForwardedOnce == \A m \in Micro : passed[m] <= 1

\* While a request is under way and nothing has expired, the answer is
\* either awaited or no longer needed: no answer is thrown away.
NoAnswerWasted ==
  \A r \in BagToSet(requests) :
    r.micro \in awaiting \cup received \cup forgotten

\* Nothing is under way that could call tryDownloadNext
Quiet == toObserve = << >> /\ toDownload = << >>

Announcers(m) == {ch \in Channel : m \in announced[ch]}

Following(id) == {m \in Micro : Parent[m] = id}

\* Announced by channels of which none is left
Orphaned(m) == Announcers(m) # {} /\ Announcers(m) \cap open = {}

\* If an open channel has announced what follows the last block, something that
\* follows it has been asked for.  (Of two that exclude each other only the first
\* announced is ever asked for, even if its channel has closed.)
FollowingIsAsked ==
  \A m \in Following(last) :
    Announcers(m) \cap open # {} =>
      \E o \in Following(last) : o \in asked \/ Orphaned(o)

\* An announcement is remembered until its time has come: when both subscribers
\* have heard of the last block and nothing has expired, what follows has been
\* asked for, whichever of announcement and last block came first, unless the
\* announcement came when tryDownloadNext (line 71) had been called and
\* lastBlockId() (line 36) was still an earlier block: then nobody asks.
NextIsAsked ==
  Quiet /\ Following(last) \cap (forgotten \cup between) = {} => FollowingIsAsked
=============================================================================
