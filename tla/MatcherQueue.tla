---------------------------- MODULE MatcherQueue ----------------------------
(***************************************************************************)
(* The matcher's event sourcing.  What clients order is first stored as an *)
(* event in LocalMatcherQueue (a database plus an in-memory tail); a timer *)
(* polls the queue and sends the events to MatcherActor, which forwards    *)
(* each to the OrderBookActor of its asset pair and from time to time asks *)
(* a book for a snapshot.  After a crash the books come back from their    *)
(* snapshots and the queue is consumed from the oldest of them on.         *)
(*                                                                         *)
(* A book is the sequence of the events it has applied.  Messages between  *)
(* two parties keep their order, those of different senders do not.        *)
(* OrderBookDeleted, which nothing in the program stores, is left out.     *)
(***************************************************************************)
EXTENDS Integers, Sequences, FiniteSets, SequencesExt

CONSTANTS
  Pair,      \* asset pairs, numbered in the order of their keys
  Interval,  \* matcher.snapshots-interval
  Shift,     \* [Pair -> 0 .. Interval - 1]: hash of the key modulo the interval
  MaxPoll,   \* events-queue.local.max-elements-per-poll
  CleanBeforeConsume,  \* events-queue.local.clean-before-consume
  MaxEvents, MaxFaults \* bounds of the model: stored events, faults of each kind

ASSUME MatcherAssumption ==
  /\ Pair \subseteq Nat
  /\ Interval \in Nat \ {0}
  /\ Shift \in [Pair -> 0 .. Interval - 1]
  /\ MaxPoll \in Nat \ {0}
  /\ CleanBeforeConsume \in BOOLEAN
  /\ MaxEvents \in Nat /\ MaxFaults \in Nat

None == -2        \* no offset, Option.empty
Terminated == -3  \* the message, where a book sends offsets

VARIABLES
  log,          \* pairs of all events ever stored: event o is log[o + 1]
  stored,       \* offsets of the events that are in the database
  adding,       \* the stored event that is not yet in inMemQueue, or None
  inMemQueue,   \* offsets
  startInMem,   \* startInMemOffset
  seenStart,    \* startInMemOffset, not volatile, as the timer's thread sees it
  lastUnread,   \* lastUnreadOffset; None before startConsume
  status,       \* MatcherActor: "collecting" or "working"
  orderBooks,   \* MatcherActor: [Pair -> {"none", "up", "failed"}]
  collected,    \* MatcherActor: currentOffsets of collectOrderBooks
  lastProcessedNr,
  startOffset,  \* SnapshotsState.startOffsetToSnapshot
  nearest,      \* SnapshotsState.nearestSnapshotOffsets, {<<offset, pair>>}
  events,       \* offsets on their way from the queue to MatcherActor
  updates,      \* [Pair -> what the book has sent to MatcherActor]
  book,         \* [Pair -> OrderBookActor]
  writing,      \* [Pair -> snapshots on their way to the disk]
  snapshot,     \* [Pair -> the snapshot on the disk]
  toJournal,    \* OrderBookCreated events on their way to the journal
  journal,      \* pairs of the OrderBookCreated events on the disk
  lost,         \* history: offsets deleted before any snapshot contained them
  orphans,      \* history: pairs whose OrderBookCreated was lost in a crash
  misnumbered,  \* history: pairs told to save at an older event than they had got
  unsaved,      \* history: pairs for which a save has failed since the last start
  faults        \* how many of each kind so far

queueVars == <<log, stored, adding, inMemQueue, startInMem, seenStart, lastUnread, lost>>
actorVars == <<status, orderBooks, collected, lastProcessedNr, startOffset, nearest>>
bookVars == <<book, writing, snapshot>>
journalVars == <<toJournal, journal, orphans, unsaved>>
matcherVars == <<queueVars, actorVars, events, updates, bookVars, journalVars,
                 misnumbered, faults>>

-----------------------------------------------------------------------------
(* Offsets and snapshots.                                                  *)

Offset == 0 .. MaxEvents - 1
PairOf(o) == log[o + 1]
MaxOf(a, b) == IF a < b THEN b ELSE a

\* The offsets of a set in ascending order
Lists(s, S) ==
  /\ ToSet(s) = S
  /\ \A i, j \in DOMAIN s : i < j => s[i] < s[j]

EmptySnapshot == [nr |-> -1, applied |-> <<>>]

\* The first offset of the pair's own grid, from the one that contains the last
\* snapshot on, that is after the last processed event
NextSnapshotOffset(p, nr, last) ==
  LET z == (IF nr < 0 THEN 0 ELSE nr \div Interval) * Interval + Shift[p]
  IN  IF z > last THEN z ELSE z + ((last - z) \div Interval + 1) * Interval

\* Mutated: the distance is not added to the last snapshot
NearestOnGrid(nrs) ==
  {<<NextSnapshotOffset(p, nrs[p], lastProcessedNr), p>> : p \in {q \in Pair : nrs[q] # None}}

\* SnapshotsState.apply
NearestAtStart(nrs) ==
  {<<nrs[p] + NextSnapshotOffset(p, nrs[p], lastProcessedNr), p>> :
     p \in {q \in Pair : nrs[q] # None}}

\* headOption of the sorted set
IsNearest(x) ==
  \A y \in nearest : x[1] < y[1] \/ (x[1] = y[1] /\ x[2] <= y[2])

NearestWithout(due) == nearest \ due

RequiredSnapshots(o) == {x \in nearest : o > startOffset /\ IsNearest(x) /\ x[1] <= o}

-----------------------------------------------------------------------------
(* LocalMatcherQueue and LocalQueueStore.                                  *)

\* storeEvent runs on one thread: the database first ...
StoreEvent(p) ==
  /\ adding = None
  /\ Len(log) < MaxEvents
  /\ log' = Append(log, p)
  /\ stored' = stored \cup {Len(log)}
  /\ adding' = Len(log)
  /\ UNCHANGED <<inMemQueue, startInMem, seenStart, lastUnread, lost, actorVars, events,
                 updates, bookVars, journalVars, misnumbered, faults>>

\* ... then the memory.  The queue is not looked at before startInMem is set.
AddToMemory ==
  /\ adding # None
  /\ inMemQueue' = Append(inMemQueue, adding)
  /\ startInMem' = IF startInMem = None THEN adding ELSE startInMem
  /\ adding' = None
  /\ UNCHANGED <<log, stored, seenStart, lastUnread, lost, actorVars, events, updates,
                 bookVars, journalVars, misnumbered, faults>>

\* Mutated: the memory is read as soon as there is something
FromMemoryAlways(start) == start # None

\* getFrom: what a poll reads, and what stays in memory
FromMemory(start) == start # None /\ start <= lastUnread

PollMemory == SubSeq(inMemQueue, 1, IF Len(inMemQueue) < MaxPoll THEN Len(inMemQueue) ELSE MaxPoll)
Unread == {o \in stored : o >= lastUnread}
PollDatabase == {s \in SetToSeqs(Unread) : Lists(s, Unread)}

\* One run of the timer's task
Poll ==
  /\ lastUnread # None
  /\ \E start \in {seenStart, startInMem} :
     \E read \in IF FromMemory(start) THEN {PollMemory} ELSE PollDatabase :
       /\ read # <<>>
       /\ seenStart' = start
       /\ inMemQueue' = IF FromMemory(start)
                          THEN SubSeq(inMemQueue, Len(read) + 1, Len(inMemQueue))
                          ELSE inMemQueue
       /\ lastUnread' = Last(read) + 1
       /\ events' = events \o read
  /\ UNCHANGED <<log, stored, adding, startInMem, lost, actorVars, updates, bookVars,
                 journalVars, misnumbered, faults>>

\* startConsume, with the database as it is when it is called; dropUntil
StartConsume(from) ==
  LET dropped == IF CleanBeforeConsume THEN {o \in stored : o < from} ELSE {}
  IN  /\ lastUnread' = from
      /\ stored' = stored \ dropped
      /\ lost' = lost \cup {o \in dropped : o > snapshot[PairOf(o)].nr}

-----------------------------------------------------------------------------
(* MatcherActor.                                                           *)

Tell(p, b, msgs) == IF b[p].state = "off" THEN b ELSE [b EXCEPT ![p].mailbox = @ \o msgs]

StartingBook == [state |-> "loading", lastProcessed |-> -1, lastSaved |-> -1,
                 saving |-> None, applied |-> <<>>, mailbox |-> <<>>]
NoBook == [StartingBook EXCEPT !.state = "off"]

\* Something later than the event o has been sent to the book
IsAhead(b, o) ==
  \/ b.lastProcessed > o
  \/ \E i \in DOMAIN b.mailbox : b.mailbox[i].type = "event" /\ b.mailbox[i].nr > o

\* runFor: the event goes to its book, which may have to be created; then, if it
\* existed, the book whose snapshot is due is told to make one.
Forward(o) ==
  LET p == PairOf(o)
      sent == Tell(p, book, <<[type |-> "event", nr |-> o]>>)
      due == RequiredSnapshots(o)
      told == {q \in Pair : orderBooks[q] = "up" /\ \E x \in due : x[2] = q}
  IN  \/ /\ orderBooks[p] = "up"
         /\ nearest' = NearestWithout(due)
         /\ book' = [q \in Pair |->
                       IF q \in told THEN Tell(q, sent, <<[type |-> "save", nr |-> o]>>)[q]
                                     ELSE sent[q]]
         /\ misnumbered' = misnumbered \cup {q \in told : IsAhead(sent[q], o)}
         /\ UNCHANGED <<orderBooks, toJournal>>
      \/ /\ orderBooks[p] = "failed"
         /\ UNCHANGED <<orderBooks, toJournal, nearest, book, misnumbered>>
      \/ /\ orderBooks[p] = "none"
         /\ orderBooks' = [orderBooks EXCEPT ![p] = "up"]
         /\ toJournal' = Append(toJournal, p)
         /\ book' = Tell(p, [book EXCEPT ![p] = StartingBook], <<[type |-> "event", nr |-> o]>>)
         /\ UNCHANGED <<nearest, misnumbered>>

HandleEvent ==
  /\ status = "working"
  /\ events # <<>>
  /\ Forward(Head(events))
  /\ events' = Tail(events)
  /\ lastProcessedNr' = MaxOf(Head(events), lastProcessedNr)
  /\ UNCHANGED <<queueVars, status, collected, startOffset, updates, writing, snapshot,
                 journal, orphans, unsaved, faults>>

\* OrderBookSnapshotUpdated while working
HandleUpdated(p) ==
  /\ status = "working"
  /\ updates[p] # <<>> /\ Head(updates[p]) # Terminated
  /\ nearest' = nearest \cup
       {<<NextSnapshotOffset(p, Head(updates[p]), lastProcessedNr), p>>}
  /\ updates' = [updates EXCEPT ![p] = Tail(@)]
  /\ UNCHANGED <<queueVars, status, orderBooks, collected, lastProcessedNr, startOffset,
                 events, bookVars, journalVars, misnumbered, faults>>

HandleTerminated(p) ==
  /\ status = "working"
  /\ updates[p] # <<>> /\ Head(updates[p]) = Terminated
  /\ orderBooks' = [orderBooks EXCEPT ![p] = "failed"]
  /\ updates' = [updates EXCEPT ![p] = Tail(@)]
  /\ UNCHANGED <<queueVars, status, collected, lastProcessedNr, startOffset, nearest, events,
                 bookVars, journalVars, misnumbered, faults>>

\* Mutated: max for min
NewestOf(nrs) == CHOOSE n \in {nrs[p] : p \in Pair} \ {None} :
                   \A p \in Pair : nrs[p] # None => n >= nrs[p]

OldestOf(nrs) == CHOOSE n \in {nrs[p] : p \in Pair} \ {None} :
                   \A p \in Pair : nrs[p] # None => n <= nrs[p]

\* collectOrderBooks, and becomeWorking when the last book has reported
Collect(p) ==
  /\ status = "collecting"
  /\ updates[p] # <<>> /\ Head(updates[p]) # Terminated
  /\ updates' = [updates EXCEPT ![p] = Tail(@)]
  /\ collected' = [collected EXCEPT ![p] = Head(updates[p])]
  /\ IF \A q \in Pair : orderBooks[q] = "up" => collected'[q] # None
       THEN /\ status' = "working"
            /\ startOffset' = lastProcessedNr
            /\ nearest' = NearestAtStart(collected')
            /\ StartConsume(OldestOf(collected') + 1)
       ELSE UNCHANGED <<status, startOffset, nearest, lastUnread, stored, lost>>
  /\ UNCHANGED <<log, adding, inMemQueue, startInMem, seenStart, orderBooks, lastProcessedNr,
                 events, bookVars, journalVars, misnumbered, faults>>

\* persistAsync(OrderBookCreated): the journal writes in order
WriteJournal ==
  /\ toJournal # <<>>
  /\ journal' = journal \cup {Head(toJournal)}
  /\ toJournal' = Tail(toJournal)
  /\ UNCHANGED <<orphans, unsaved>>
  /\ UNCHANGED <<queueVars, actorVars, events, updates, bookVars, misnumbered, faults>>

-----------------------------------------------------------------------------
(* OrderBookActor.                                                         *)

\* SnapshotOffer, then RecoveryCompleted: the owner learns the offset
BookRecovers(p) ==
  /\ book[p].state = "loading"
  /\ book' = [book EXCEPT ![p] = [@ EXCEPT !.state = "ready",
                                           !.lastProcessed = snapshot[p].nr,
                                           !.lastSaved = snapshot[p].nr,
                                           !.applied = snapshot[p].applied]]
  /\ updates' = [updates EXCEPT ![p] = Append(@, snapshot[p].nr)]
  /\ UNCHANGED <<queueVars, actorVars, events, writing, snapshot, journalVars, misnumbered, faults>>

\* Mutated: no look at the offset
ExecuteAgain(b, o) == [b EXCEPT !.lastProcessed = o, !.applied = Append(@, o)]

\* Applied unless it is an event that has been processed before
Execute(b, o) ==
  IF o <= b.lastProcessed THEN b
  ELSE [b EXCEPT !.lastProcessed = o, !.applied = Append(@, o)]

\* SaveSnapshot is ignored while another snapshot is being saved, and if nothing
\* has changed since the last
Saves(b, o) == b.saving = None /\ b.lastSaved < o

SnapshotOf(b, o) == [nr |-> o, applied |-> b.applied]

BookHandles(p) ==
  /\ book[p].state = "ready" /\ book[p].mailbox # <<>>
  /\ LET m == Head(book[p].mailbox)
         b == [book[p] EXCEPT !.mailbox = Tail(@)]
     IN  \/ /\ m.type = "event"
            /\ book' = [book EXCEPT ![p] = Execute(b, m.nr)]
            /\ UNCHANGED <<writing, updates>>
         \/ /\ m.type = "save"
            /\ book' = [book EXCEPT ![p] = IF Saves(b, m.nr) THEN [b EXCEPT !.saving = m.nr] ELSE b]
            /\ writing' = IF Saves(b, m.nr)
                            THEN [writing EXCEPT ![p] = Append(@, SnapshotOf(b, m.nr))] ELSE writing
            /\ UNCHANGED updates
         \/ /\ m.type = "saved"
            /\ book' = [book EXCEPT ![p] = [b EXCEPT !.lastSaved = b.saving, !.saving = None]]
            /\ updates' = [updates EXCEPT ![p] = Append(@, b.saving)]
            /\ UNCHANGED writing
         \/ /\ m.type = "failed"
            /\ book' = [book EXCEPT ![p] = [b EXCEPT !.saving = None]]
            /\ UNCHANGED <<writing, updates>>
  /\ UNCHANGED <<queueVars, actorVars, events, snapshot, journalVars, misnumbered, faults>>

FaultKind == {"crash", "failure", "write"}

Fault(kind) ==
  /\ faults[kind] < MaxFaults
  /\ faults' = [faults EXCEPT ![kind] = @ + 1]

\* The snapshot store answers the actor that asked; one that is not there any
\* more has a successor only after a restart, which loses the answer.
WriteSnapshot(p) ==
  /\ writing[p] # <<>>
  /\ snapshot' = [snapshot EXCEPT ![p] = Head(writing[p])]
  /\ writing' = [writing EXCEPT ![p] = Tail(@)]
  /\ book' = Tell(p, book, <<[type |-> "saved", nr |-> Head(writing[p]).nr]>>)
  /\ UNCHANGED <<queueVars, actorVars, events, updates, journalVars, misnumbered, faults>>

\* SaveSnapshotFailure: the last snapshot stays, and nobody but the book is told.
SnapshotFails(p) ==
  /\ writing[p] # <<>>
  /\ Fault("write")
  /\ writing' = [writing EXCEPT ![p] = Tail(@)]
  /\ book' = Tell(p, book, <<[type |-> "failed", nr |-> Head(writing[p]).nr]>>)
  /\ unsaved' = unsaved \cup {p}
  /\ UNCHANGED <<queueVars, actorVars, events, updates, snapshot, toJournal, journal, orphans,
                 misnumbered>>

\* An exception stops the actor (stoppingStrategy), MatcherActor watches it.
BookFails(p) ==
  /\ book[p].state # "off"
  /\ Fault("failure")
  /\ book' = [book EXCEPT ![p] = NoBook]
  /\ updates' = [updates EXCEPT ![p] = Append(@, Terminated)]
  /\ UNCHANGED <<queueVars, actorVars, events, writing, snapshot, journalVars, misnumbered>>

-----------------------------------------------------------------------------
(* Start, stop and start again.                                            *)

\* MatcherActor replays its journal and creates the books; without any there is
\* nothing to wait for.
StartUp ==
  /\ inMemQueue' = <<>> /\ startInMem' = None /\ seenStart' = None /\ adding' = None
  /\ events' = <<>> /\ toJournal' = <<>>
  /\ orphans' = orphans \cup ToSet(toJournal) /\ unsaved' = {}
  /\ updates' = [p \in Pair |-> <<>>]
  /\ writing' = [p \in Pair |-> <<>>]
  /\ book' = [p \in Pair |-> IF p \in journal THEN StartingBook ELSE NoBook]
  /\ orderBooks' = [p \in Pair |-> IF p \in journal THEN "up" ELSE "none"]
  /\ collected' = [p \in Pair |-> None]
  /\ lastProcessedNr' = 0
  /\ nearest' = {}
  /\ startOffset' = -1
  /\ IF journal = {} THEN /\ status' = "working"
                          /\ StartConsume(0)
                     ELSE /\ status' = "collecting"
                          /\ lastUnread' = None
                          /\ UNCHANGED <<stored, lost>>
  /\ UNCHANGED <<log, snapshot, journal, misnumbered>>

Crash == Fault("crash") /\ StartUp

\* A book that fails while it recovers makes the whole program stop.
ForcedStop == /\ status = "collecting"
              /\ \E p \in Pair : updates[p] # <<>> /\ Head(updates[p]) = Terminated
              /\ UNCHANGED faults
              /\ StartUp

MatcherInit ==
  /\ log = <<>> /\ stored = {} /\ adding = None /\ lost = {}
  /\ inMemQueue = <<>> /\ startInMem = None /\ seenStart = None /\ lastUnread = 0
  /\ status = "working"
  /\ orderBooks = [p \in Pair |-> "none"]
  /\ collected = [p \in Pair |-> None]
  /\ lastProcessedNr = 0 /\ startOffset = -1 /\ nearest = {}
  /\ events = <<>> /\ updates = [p \in Pair |-> <<>>]
  /\ book = [p \in Pair |-> NoBook]
  /\ writing = [p \in Pair |-> <<>>]
  /\ snapshot = [p \in Pair |-> EmptySnapshot]
  /\ toJournal = <<>> /\ journal = {} /\ orphans = {} /\ misnumbered = {} /\ unsaved = {}
  /\ faults = [kind \in FaultKind |-> 0]

\* What threads and actors do without being asked from outside
MatcherStep ==
  \/ AddToMemory \/ Poll
  \/ HandleEvent \/ WriteJournal \/ ForcedStop
  \/ \E p \in Pair : \/ HandleUpdated(p) \/ HandleTerminated(p) \/ Collect(p)
                     \/ BookRecovers(p) \/ BookHandles(p) \/ WriteSnapshot(p)

MatcherNext ==
  \/ MatcherStep
  \/ \E p \in Pair : StoreEvent(p) \/ SnapshotFails(p) \/ BookFails(p)
  \/ Crash

\* As long as something can be done, something is: less than the schedulers and
\* the timer give.  Clients need not store events, nothing has to fail.
MatcherFairness == WF_matcherVars(MatcherStep)

MatcherSpec == MatcherInit /\ [][MatcherNext]_matcherVars /\ MatcherFairness

-----------------------------------------------------------------------------
(* Properties.                                                             *)

\* The events of a pair up to an offset
EventsUpTo(p, nr) == {o \in 0 .. Len(log) - 1 : o <= nr /\ PairOf(o) = p /\ o \notin lost}

\* A book is what its events make of it: although events are delivered twice, in
\* part with lower offsets than before, and replayed after a crash, each has been
\* applied once and in order, none is skipped; and a snapshot's number tells
\* which it contains.  So it is unless a snapshot was ever asked for at a repeated
\* event, or the queue is not cleaned and the journal had lost the book.
BookIsItsLog ==
  \A p \in Pair \ misnumbered :
    (CleanBeforeConsume \/ p \notin orphans) =>
      /\ Lists(book[p].applied, EventsUpTo(p, book[p].lastProcessed))
      /\ Lists(snapshot[p].applied, EventsUpTo(p, snapshot[p].nr))

\* An event is executed once: "ignore outdated requests"
\* (OrderBookActorSpecification.scala:167).  A book that is told to save at a
\* repeated, older event numbers the snapshot with it, and after a crash it
\* executes the later ones, which the snapshot contains, again.
AppliedOnce == \A p \in Pair : IsInjective(book[p].applied)

\* A book that works is due for a snapshot, is being asked for one or has just
\* made one, so that the part of the queue it needs does not grow for ever.  The
\* exceptions: a book one of whose saves has failed is not told to save again before
\* the next start, and so may be a book that the journal had lost and that was ahead
\* of its events.
NoBookForgotten ==
  \A p \in Pair \ (orphans \cup unsaved) :
    (status = "working" /\ orderBooks[p] = "up") =>
      \/ \E x \in nearest : x[2] = p
      \/ book[p].state = "loading" \/ book[p].saving # None \/ updates[p] # <<>>
      \/ \E i \in DOMAIN book[p].mailbox : book[p].mailbox[i].type = "save"

\* The clean-up of the queue deletes no event before the snapshot on the disk
\* contains it: books make their snapshots at different offsets, and the oldest
\* decides.  Only a book that was created (persistAsync) and snapshotted by others
\* but is not in the journal when the program crashes is not asked.
DropsOnlyCovered == \A o \in lost : PairOf(o) \in orphans

\* What may be said of an event in the end
Settled(o) ==
  \/ o \in lost
  \/ orderBooks[PairOf(o)] = "failed"
  \/ o \in ToSet(book[PairOf(o)].applied) \cup ToSet(snapshot[PairOf(o)].applied)

\* Again and again every stored event has been applied by its book (or a snapshot of it that
\* is not loaded), also one that was stored before the queue was consumed, unless
\* the book has failed (and waits for the next start) or the event was lost.
EveryEventApplied == []<>(\A o \in 0 .. Len(log) - 1 : Settled(o))

=============================================================================
