------------------------- MODULE MatcherQueueProofs -------------------------
(***************************************************************************)
(* The queue loses no event that no snapshot contains, a book that works   *)
(* is never forgotten when snapshots are asked for, and a book is what its *)
(* events make of it: for any pairs, interval, shifts, poll size, events   *)
(* and faults.                                                             *)
(*                                                                         *)
(* First the invariant, in parts; then what the actions do, in terms of    *)
(* the values they change; then, part by part, that each action preserves  *)
(* the invariant; at the end the theorems.                                 *)
(***************************************************************************)
EXTENDS MatcherQueue, SequenceTheorems, FiniteSetTheorems, WellFoundedInduction, TLAPS

----------------------------------------------------------------------------
(* Types *)

Message == [type : {"event", "save", "saved", "failed"}, nr : Int]
BookState == [state : {"off", "loading", "ready"}, lastProcessed : Int, lastSaved : Int,
              saving : Int, applied : Seq(Int), mailbox : Seq(Message)]
SnapshotState == [nr : Int, applied : Seq(Int)]

QueueTypes ==
  /\ log \in Seq(Pair)
  /\ stored \subseteq Int /\ lost \subseteq Int
  /\ adding \in Int /\ startInMem \in Int /\ seenStart \in Int /\ lastUnread \in Int
  /\ inMemQueue \in Seq(Int)
  /\ events \in Seq(Int)

ActorTypes ==
  /\ status \in {"collecting", "working"}
  /\ orderBooks \in [Pair -> {"none", "up", "failed"}]
  /\ collected \in [Pair -> Int]
  /\ lastProcessedNr \in Nat
  /\ startOffset \in Int
  /\ nearest \subseteq Int \X Pair
  /\ updates \in [Pair -> Seq(Int)]

BookTypes ==
  /\ book \in [Pair -> BookState]
  /\ writing \in [Pair -> Seq(SnapshotState)]
  /\ snapshot \in [Pair -> SnapshotState]
  /\ toJournal \in Seq(Pair)
  /\ journal \subseteq Pair /\ orphans \subseteq Pair /\ misnumbered \subseteq Pair
  /\ unsaved \subseteq Pair
  /\ faults \in [FaultKind -> Nat]

TypeOK == QueueTypes /\ ActorTypes /\ BookTypes

----------------------------------------------------------------------------
(* The queue *)

\* The memory holds the offsets from MemStart up to End, which are consecutive; the first
\* is startInMemOffset, until a poll has gone past it.
End == IF adding = None THEN Len(log) ELSE adding
MemStart == End - Len(inMemQueue)

MemoryInv ==
  /\ adding # None => adding = Len(log) - 1
  /\ \A i \in DOMAIN inMemQueue : inMemQueue[i] = MemStart + i - 1
  /\ startInMem = None => inMemQueue = <<>>
  /\ startInMem # None => \/ startInMem = MemStart
                          \/ lastUnread # None /\ MemStart <= lastUnread
  /\ seenStart \in {None, startInMem}
  /\ startInMem = None \/ startInMem >= 0
  /\ lastUnread = None \/ lastUnread \in 0 .. Len(log)

\* The pairs MatcherActor has created a book of, at some time
Remembered == journal \cup ToSet(toJournal) \cup orphans
Known(o) == PairOf(o) \in Remembered
Among(o, s, n) == \E j \in 1 .. n : s[j] = o

\* An offset reaches MatcherActor, at least once, before later ones do.
OrderInv ==
  /\ \A i \in DOMAIN events :
       \A o \in 0 .. events[i] - 1 : Known(o) \/ Among(o, events, i - 1)
  /\ lastUnread # None =>
       \A o \in 0 .. lastUnread - 1 : Known(o) \/ Among(o, events, Len(events))

\* An event that is not in the database any more is in the snapshot of its pair or lost, and
\* lost are those of orphans only.
StoreInv ==
  /\ stored \subseteq 0 .. Len(log) - 1
  /\ lost \subseteq 0 .. Len(log) - 1
  /\ stored \cap lost = {}
  /\ ToSet(inMemQueue) \subseteq stored
  /\ adding # None => adding \in stored
  /\ ToSet(events) \subseteq stored
  /\ \A o \in 0 .. Len(log) - 1 : o \notin stored => Known(o) /\ (o \in lost \/ o <= snapshot[PairOf(o)].nr)
  /\ \A o \in lost : PairOf(o) \in orphans

----------------------------------------------------------------------------
(* The actors *)

\* MatcherActor has a book of the pairs in the journal or on their way to it, and no pair that
\* never had a book has a snapshot.
JournalInv ==
  \A p \in Pair :
    /\ orderBooks[p] # "none" => p \in Remembered
    /\ p \in journal \cup ToSet(toJournal) => orderBooks[p] # "none"
    /\ p \notin Remembered => snapshot[p] = EmptySnapshot

\* All pairs with events up to n have had a book: where a snapshot may be numbered n, no pair
\* is left out when the oldest snapshot is looked for.
Covered(n) == n >= -1 /\ n < Len(log) /\ \A o \in 0 .. n : Known(o)

NumbersOf(p) ==
  /\ Covered(snapshot[p].nr)
  /\ \A i \in DOMAIN writing[p] : Covered(writing[p][i].nr) /\ writing[p][i].nr > snapshot[p].nr
  /\ \A i \in DOMAIN book[p].mailbox :
       book[p].mailbox[i].type = "save" => Covered(book[p].mailbox[i].nr)

NumbersInv == \A p \in Pair : NumbersOf(p)

\* While MatcherActor waits for its books nothing else happens, and what they report is the
\* number of their snapshot.
Waiting == events = <<>> /\ toJournal = <<>> /\ lastUnread = None /\ nearest = {} /\ journal # {}

CollectsFrom(p) ==
  /\ orderBooks[p] = (IF p \in journal THEN "up" ELSE "none")
  /\ writing[p] = <<>> /\ book[p].mailbox = <<>> /\ book[p].saving = None
  /\ collected[p] \in {None, snapshot[p].nr}
  /\ p \notin journal => collected[p] = None
  /\ \A i \in DOMAIN updates[p] : updates[p][i] \in {snapshot[p].nr, Terminated}
  /\ snapshot[p].nr < MemStart

CollectInv == status = "collecting" => Waiting /\ \A p \in Pair : CollectsFrom(p)

Numbers(p) == {i \in DOMAIN updates[p] : updates[p][i] # Terminated}
Ends(p) == {i \in DOMAIN updates[p] : updates[p][i] = Terminated}
OfType(p, t) == {i \in DOMAIN book[p].mailbox : book[p].mailbox[i].type = t}
Due(p) == {x \in nearest : x[2] = p}
AtMostOne(S) == \A i, j \in S : i = j

\* A book is there if MatcherActor takes it to be, or its end is reported; a snapshot is on
\* its way to the disk or its number on its way to the book, if the book is saving one.
PresenceOf(p) ==
  /\ orderBooks[p] = "none" => /\ book[p] = NoBook /\ writing[p] = <<>> /\ updates[p] = <<>>
                              /\ Due(p) = {}
  /\ orderBooks[p] = "up" /\ book[p].state = "off" => Ends(p) # {}
  /\ book[p].state # "off" => orderBooks[p] = "up" /\ Ends(p) = {}
  /\ book[p].state = "off" => book[p] = NoBook
  /\ book[p].state = "loading" =>
       /\ book[p] = [StartingBook EXCEPT !.mailbox = book[p].mailbox]
       /\ writing[p] = <<>> /\ OfType(p, "saved") = {}
  /\ Len(writing[p]) <= 1
  /\ book[p].state # "off" =>
       /\ AtMostOne(OfType(p, "saved"))
       /\ writing[p] # <<>> => OfType(p, "saved") = {} /\ writing[p][1].nr = book[p].saving
       /\ book[p].saving = None => writing[p] = <<>> /\ OfType(p, "saved") = {}
       /\ OfType(p, "saved") # {} => snapshot[p].nr = book[p].saving
  /\ book[p].state = "ready" =>
       /\ book[p].saving = None => snapshot[p].nr = book[p].lastSaved

PresenceInv == \A p \in Pair : PresenceOf(p)

\* Until the book hears that a snapshot could not be written, it takes it to be on its way,
\* and the one before is still the one on the disk.
FailureOf(p) ==
  book[p].state # "off" =>
    /\ AtMostOne(OfType(p, "failed"))
    /\ OfType(p, "failed") # {} =>
         book[p].saving # None /\ writing[p] = <<>> /\ OfType(p, "saved") = {} /\ p \in unsaved
    /\ writing[p] # <<>> \/ OfType(p, "failed") # {} =>
         book[p].state = "ready" /\ snapshot[p].nr = book[p].lastSaved

FailureInv == \A p \in Pair : FailureOf(p)

----------------------------------------------------------------------------
(* The round of the snapshots: a book is told to save, saves, reports, and is scheduled anew *)

Asked(p) == OfType(p, "save") # {}
Saving(p) == book[p].saving # None
Reported(p) == Numbers(p) # {}
Loading(p) == book[p].state = "loading"
Scheduled(p) == Due(p) # {} \/ (status = "collecting" /\ collected[p] # None)

\* A book is at one place of the round at most ...
TurnOf(p) ==
  book[p].state # "off" =>
    /\ AtMostOne(Due(p)) /\ AtMostOne(OfType(p, "save")) /\ AtMostOne(Numbers(p))
    /\ Asked(p) => ~Saving(p) /\ ~Reported(p) /\ ~Loading(p) /\ ~Scheduled(p)
    /\ Saving(p) => ~Reported(p) /\ ~Loading(p) /\ ~Scheduled(p)
    /\ Reported(p) => ~Loading(p) /\ ~Scheduled(p)
    /\ Loading(p) => ~Scheduled(p)

TurnInv == \A p \in Pair : TurnOf(p)

\* ... and at one at least, because what it is told to save is later than what it has saved.
NumbersFit(p) ==
  /\ \A x \in Due(p) : x[1] > book[p].lastSaved
  /\ \A i \in OfType(p, "save") : book[p].lastSaved < book[p].mailbox[i].nr
                                   /\ book[p].mailbox[i].nr <= lastProcessedNr
  /\ Saving(p) => book[p].saving <= lastProcessedNr
  /\ status = "working" =>
       \A i \in Numbers(p) : updates[p][i] = book[p].lastSaved /\ updates[p][i] <= lastProcessedNr

ProgressOf(p) ==
  book[p].state # "off" =>
    /\ Asked(p) \/ Saving(p) \/ Reported(p) \/ Loading(p) \/ Scheduled(p)
    /\ Loading(p) /\ status = "working" => snapshot[p].nr = -1
    /\ book[p].state = "ready" => NumbersFit(p)

\* The exceptions of NoBookForgotten
Excused == orphans \cup unsaved

ProgressInv == \A p \in Pair \ Excused : ProgressOf(p)

GoesRound(p) == TurnOf(p) /\ (p \notin Excused => ProgressOf(p))

----------------------------------------------------------------------------
(* What a book contains *)

\* The pairs for which BookIsItsLog speaks, and the books that are not failed
Regular(p) == p \notin misnumbered /\ (CleanBeforeConsume \/ p \notin orphans)
Follows(p) == orderBooks[p] = "none" \/ book[p].state # "off"

\* The last event the book has applied, or will have when it has recovered
Floor(p) == IF book[p].state = "ready" THEN book[p].lastProcessed ELSE snapshot[p].nr
Mine(p) == {o \in 0 .. Len(log) - 1 : PairOf(o) = p /\ o \notin lost}

MailAmong(o, p, n) ==
  \E j \in 1 .. n : book[p].mailbox[j].type = "event" /\ book[p].mailbox[j].nr = o

Bound(p) == book[p].lastProcessed >= -1 /\ book[p].lastProcessed < Len(log)

\* An event that was deleted in time, and one that the book may be sent
Gone(o, p) == PairOf(o) = p /\ o \notin stored /\ o \notin lost
Sendable(o, p) == o \in stored /\ PairOf(o) = p

MailOf(p) ==
  /\ Bound(p)
  /\ \A i \in DOMAIN book[p].mailbox :
       book[p].mailbox[i].type = "event" => Sendable(book[p].mailbox[i].nr, p)
  /\ book[p].state = "ready" =>
       /\ status = "collecting" => book[p].lastProcessed = snapshot[p].nr
       /\ \A o \in 0 .. Len(log) - 1 : Gone(o, p) => o <= book[p].lastProcessed

MailInv == \A p \in Pair : MailOf(p)

\* No event of the pair is left out on the way from the queue to its book, and a message to
\* save has all events before it in front of it.
Delivered(p) ==
    /\ \A i \in OfType(p, "event") : \A o \in Mine(p) :
         o < book[p].mailbox[i].nr => o <= Floor(p) \/ MailAmong(o, p, i - 1)
    /\ \A i \in OfType(p, "save") :
         /\ \A o \in Mine(p) :
              o <= book[p].mailbox[i].nr => o <= Floor(p) \/ MailAmong(o, p, i - 1)
         /\ book[p].lastProcessed <= book[p].mailbox[i].nr
         /\ \A j \in OfType(p, "event") : j < i => book[p].mailbox[j].nr <= book[p].mailbox[i].nr
    /\ \A i \in DOMAIN events : \A o \in Mine(p) :
         o < events[i] => o <= Floor(p) \/ MailAmong(o, p, Len(book[p].mailbox)) \/ Among(o, events, i - 1)
    /\ lastUnread # None => \A o \in Mine(p) :
         o < lastUnread => o <= Floor(p) \/ MailAmong(o, p, Len(book[p].mailbox))
                                        \/ Among(o, events, Len(events))

Applied(p) ==
  /\ Lists(book[p].applied, EventsUpTo(p, book[p].lastProcessed))
  /\ Lists(snapshot[p].applied, EventsUpTo(p, snapshot[p].nr))
  /\ \A i \in DOMAIN writing[p] : Lists(writing[p][i].applied, EventsUpTo(p, writing[p][i].nr))

LogOf(p) == Regular(p) => Applied(p) /\ (Follows(p) => Delivered(p))

LogInv == \A p \in Pair : LogOf(p)

MatcherInv ==
  /\ TypeOK /\ MemoryInv /\ OrderInv /\ StoreInv /\ JournalInv /\ NumbersInv
  /\ CollectInv /\ PresenceInv /\ FailureInv
  /\ TurnInv /\ ProgressInv
  /\ MailInv /\ LogInv

----------------------------------------------------------------------------
(* Helpers *)

\* A nonempty set of naturals has a least element.
LEMMA NatLeast ==
  ASSUME NEW T, T \subseteq Nat, T # {}
  PROVE  \E m \in T : \A k \in T : m <= k
<1>1. PICK m \in T : \A y \in T : <<y, m>> \notin OpToRel(<, Nat)
  BY NatLessThanWellFounded, WFMin
<1> SUFFICES ASSUME NEW k \in T, k < m PROVE FALSE
  OBVIOUS
<1>2. <<k, m>> \in Nat \X Nat
  OBVIOUS
<1>3. <<k, m>> \in OpToRel(<, Nat)
  BY <1>2 DEF OpToRel
<1>4. QED
  BY <1>1, <1>3

----------------------------------------------------------------------------
(* Sequences *)

\* The sequence s with x at its end
Longer(s, t, x) ==
  /\ Len(t) = Len(s) + 1
  /\ DOMAIN t = 1 .. Len(s) + 1
  /\ t[Len(s) + 1] = x
  /\ \A i \in 1 .. Len(s) : t[i] = s[i]

\* Append, field by field
LEMMA AppendIs ==
  ASSUME NEW S, NEW s \in Seq(S), NEW x \in S
  PROVE  Append(s, x) \in Seq(S) /\ Longer(s, Append(s, x), x)
  BY DEF Longer

\* Adding one element with \o, as Tell does
LEMMA ConcatOne ==
  ASSUME NEW S, NEW s \in Seq(S), NEW x \in S
  PROVE  s \o <<x>> \in Seq(S) /\ Longer(s, s \o <<x>>, x)
<1>1. <<x>> \in Seq(S) /\ Len(<<x>>) = 1 /\ <<x>>[1] = x
  OBVIOUS
<1>2. /\ s \o <<x>> \in Seq(S)
      /\ Len(s \o <<x>>) = Len(s) + Len(<<x>>)
      /\ \A i \in 1 .. Len(s) + Len(<<x>>) :
           (s \o <<x>>)[i] = IF i <= Len(s) THEN s[i] ELSE <<x>>[i - Len(s)]
  BY ONLY s \in Seq(S), <<x>> \in Seq(S), ConcatProperties
<1>3. Len(s) \in Nat
  OBVIOUS
<1>4. DOMAIN (s \o <<x>>) = 1 .. Len(s) + 1
  BY <1>1, <1>2
<1>5. (s \o <<x>>)[Len(s) + 1] = x
  BY <1>1, <1>2, <1>3
<1>6. ASSUME NEW i \in 1 .. Len(s) PROVE (s \o <<x>>)[i] = s[i]
  BY <1>1, <1>2, <1>3
<1> QED
  BY <1>1, <1>2, <1>4, <1>5, <1>6 DEF Longer

\* The sequence t without its first element
Shorter(s, t) ==
  /\ Len(t) = Len(s) - 1
  /\ DOMAIN t = 1 .. Len(s) - 1
  /\ \A i \in 1 .. Len(s) - 1 : t[i] = s[i + 1]

\* Taking the first element
LEMMA TailIs ==
  ASSUME NEW S, NEW s \in Seq(S), s # <<>>
  PROVE  /\ Tail(s) \in Seq(S) /\ Shorter(s, Tail(s))
         /\ Head(s) = s[1] /\ Head(s) \in S /\ Len(s) \in Nat \ {0} /\ 1 \in DOMAIN s
  BY DEF Shorter

----------------------------------------------------------------------------
(* Books and what they are sent *)

\* Another mailbox leaves the rest of a book alone.
LEMMA WithMailbox ==
  ASSUME NEW r \in BookState, NEW m \in Seq(Message)
  PROVE  LET t == [r EXCEPT !.mailbox = m]
         IN  /\ t \in BookState
             /\ t.mailbox = m /\ t.state = r.state /\ t.lastProcessed = r.lastProcessed
             /\ t.lastSaved = r.lastSaved /\ t.saving = r.saving /\ t.applied = r.applied
  BY DEF BookState

\* The same but for the mailbox
SameBut(r, t) ==
  /\ t.state = r.state /\ t.lastProcessed = r.lastProcessed /\ t.lastSaved = r.lastSaved
  /\ t.saving = r.saving /\ t.applied = r.applied

\* Tell sends one message to a book, unless there is none.
LEMMA TellIs ==
  ASSUME NEW p \in Pair, NEW b \in [Pair -> BookState], NEW m \in Message
  PROVE  LET t == Tell(p, b, <<m>>)
         IN  /\ t \in [Pair -> BookState]
             /\ \A q \in Pair \ {p} : t[q] = b[q]
             /\ b[p].state = "off" => t = b
             /\ b[p].state # "off" => Longer(b[p].mailbox, t[p].mailbox, m)
             /\ SameBut(b[p], t[p])
<1>1. CASE b[p].state = "off"
  BY <1>1 DEF Tell, SameBut
<1>2. CASE b[p].state # "off"
  <2> DEFINE r == b[p]
             n == r.mailbox \o <<m>>
             u == [r EXCEPT !.mailbox = n]
  <2>1. r \in BookState /\ r.mailbox \in Seq(Message)
    BY DEF BookState
  <2>2. n \in Seq(Message) /\ Longer(r.mailbox, n, m)
    BY <2>1, ConcatOne
  <2>3. Tell(p, b, <<m>>) = [b EXCEPT ![p] = u]
    BY <1>2 DEF Tell
  <2>4. u \in BookState /\ u.mailbox = n /\ SameBut(r, u)
    <3> HIDE DEF n, r
    <3>1. u \in BookState /\ u.mailbox = n
      BY <2>1, <2>2, WithMailbox
    <3>2. SameBut(r, u)
      BY <2>1, <2>2, WithMailbox DEF SameBut
    <3> QED
      BY <3>1, <3>2
  <2> HIDE DEF u
  <2> QED
    BY <1>2, <2>2, <2>3, <2>4
<1> QED
  BY <1>1, <1>2

\* A book that starts, and one that is not there
LEMMA StartingIs ==
  /\ StartingBook \in BookState /\ NoBook \in BookState
  /\ StartingBook.state = "loading" /\ NoBook.state = "off"
  /\ StartingBook.mailbox = <<>> /\ NoBook.mailbox = <<>>
  /\ StartingBook.lastProcessed = -1 /\ NoBook.lastProcessed = -1
  /\ StartingBook.lastSaved = -1 /\ NoBook.lastSaved = -1
  /\ StartingBook.saving = None /\ NoBook.saving = None
  /\ StartingBook.applied = <<>> /\ NoBook.applied = <<>>
<1>1. <<>> \in Seq(Int) /\ <<>> \in Seq(Message) /\ -1 \in Int /\ -2 \in Int
  OBVIOUS
<1>2. StartingBook \in BookState
  BY <1>1 DEF StartingBook, BookState, None
<1>3. NoBook \in BookState
  BY <1>1 DEF NoBook, StartingBook, BookState, None
<1>4. /\ StartingBook.state = "loading" /\ StartingBook.mailbox = <<>>
      /\ StartingBook.lastProcessed = -1 /\ StartingBook.lastSaved = -1
      /\ StartingBook.saving = None /\ StartingBook.applied = <<>>
  BY DEF StartingBook
<1>5. /\ NoBook.state = "off" /\ NoBook.mailbox = <<>>
      /\ NoBook.lastProcessed = -1 /\ NoBook.lastSaved = -1
      /\ NoBook.saving = None /\ NoBook.applied = <<>>
  BY DEF StartingBook, NoBook
<1> QED
  BY <1>2, <1>3, <1>4, <1>5

----------------------------------------------------------------------------
(* What handling an event makes of the books *)

\* What HandleEvent makes of the books, whichever way the event goes
LEMMA ForwardTypes ==
  ASSUME TypeOK, NEW o \in Int, PairOf(o) \in Pair, Forward(o)
  PROVE  /\ book' \in [Pair -> BookState] /\ orderBooks' \in [Pair -> {"none", "up", "failed"}]
         /\ nearest' \subseteq Int \X Pair /\ toJournal' \in Seq(Pair)
         /\ misnumbered' \subseteq Pair
<1> DEFINE p == PairOf(o)
           m == [type |-> "event", nr |-> o]
           k == [type |-> "save", nr |-> o]
           sent == Tell(p, book, <<m>>)
<1>0. /\ book \in [Pair -> BookState] /\ orderBooks \in [Pair -> {"none", "up", "failed"}]
      /\ nearest \subseteq Int \X Pair /\ toJournal \in Seq(Pair) /\ misnumbered \subseteq Pair
  BY DEF TypeOK, BookTypes, ActorTypes
<1>1. m \in Message /\ k \in Message
  BY DEF Message
<1>2. sent \in [Pair -> BookState]
  BY <1>0, <1>1, TellIs
<1>3. ASSUME NEW q \in Pair PROVE Tell(q, sent, <<k>>)[q] \in BookState
  <2> HIDE DEF sent, k
  <2>1. Tell(q, sent, <<k>>) \in [Pair -> BookState]
    BY <1>1, <1>2, TellIs
  <2> QED
    BY <2>1
<1>4. CASE orderBooks[p] = "up"
  <2> DEFINE due == RequiredSnapshots(o)
             told == {q \in Pair : orderBooks[q] = "up" /\ \E x \in due : x[2] = q}
             after == [q \in Pair |-> IF q \in told THEN Tell(q, sent, <<k>>)[q] ELSE sent[q]]
  <2>1. book' = after /\ nearest' = NearestWithout(due) /\ orderBooks' = orderBooks
        /\ toJournal' = toJournal /\ misnumbered' = misnumbered \cup {q \in told : IsAhead(sent[q], o)}
    BY <1>4 DEF Forward
  <2>2. after \in [Pair -> BookState]
    <3> HIDE DEF sent, k, told
    <3> QED
      BY <1>2, <1>3
  <2>3. nearest' \subseteq nearest
    BY <2>1 DEF NearestWithout
  <2>4. misnumbered' \subseteq Pair
    <3> HIDE DEF sent, due
    <3> QED
      BY <2>1, <1>0
  <2> HIDE DEF after
  <2> QED
    BY <1>0, <2>1, <2>2, <2>3, <2>4
<1>5. CASE orderBooks[p] = "failed"
  BY <1>0, <1>5 DEF Forward
<1>6. CASE orderBooks[p] = "none"
  <2> DEFINE new == [book EXCEPT ![p] = StartingBook]
  <2>1. new \in [Pair -> BookState]
    <3> StartingBook \in BookState
      BY StartingIs
    <3> QED
      BY <1>0
  <2>2. Tell(p, new, <<m>>) \in [Pair -> BookState]
    <3> HIDE DEF new, m
    <3> QED
      BY <2>1, <1>1, TellIs
  <2>3. book' = Tell(p, new, <<m>>) /\ orderBooks' = [orderBooks EXCEPT ![p] = "up"]
        /\ toJournal' = Append(toJournal, p) /\ nearest' = nearest /\ misnumbered' = misnumbered
    BY <1>6 DEF Forward
  <2>4. Append(toJournal, p) \in Seq(Pair)
    BY <1>0
  <2>5. [orderBooks EXCEPT ![p] = "up"] \in [Pair -> {"none", "up", "failed"}]
    BY <1>0
  <2> QED
    BY <1>0, <2>2, <2>3, <2>4, <2>5
<1> QED
  BY <1>0, <1>4, <1>5, <1>6

\* The pair of an event that is in the log
LEMMA PairsKnown ==
  ASSUME TypeOK, NEW o \in 0 .. Len(log) - 1
  PROVE  PairOf(o) \in Pair
  BY DEF TypeOK, QueueTypes, PairOf

\* The event at the head of those on their way
LEMMA HeadOfEvents ==
  ASSUME TypeOK, StoreInv, events # <<>>
  PROVE  /\ Head(events) = events[1] /\ 1 \in DOMAIN events /\ Head(events) \in stored
         /\ Head(events) \in 0 .. Len(log) - 1 /\ PairOf(Head(events)) \in Pair
         /\ Tail(events) \in Seq(Int) /\ Shorter(events, Tail(events))
<1>1. events \in Seq(Int)
  BY DEF TypeOK, QueueTypes
<1>2. /\ Tail(events) \in Seq(Int) /\ Shorter(events, Tail(events))
      /\ Head(events) = events[1] /\ 1 \in DOMAIN events
  BY <1>1, TailIs
<1>3. Head(events) \in stored /\ Head(events) \in 0 .. Len(log) - 1
  BY <1>2 DEF StoreInv, ToSet
<1> QED
  BY <1>2, <1>3, PairsKnown

\* What a poll reads
LEMMA ReadTypes ==
  ASSUME TypeOK, StoreInv, NEW start, NEW read \in IF FromMemory(start) THEN {PollMemory} ELSE PollDatabase,
         read # <<>>
  PROVE  /\ read \in Seq(Int) /\ Last(read) \in Int /\ Len(read) \in Nat \ {0}
         /\ Last(read) = read[Len(read)]
<1>1. inMemQueue \in Seq(Int) /\ stored \subseteq Int
  BY DEF TypeOK, QueueTypes
<1>2. read \in Seq(Int)
  <2>1. CASE FromMemory(start)
    <3>1. read = PollMemory
      BY <2>1
    <3>2. PICK n \in Nat : PollMemory = SubSeq(inMemQueue, 1, n) /\ n <= Len(inMemQueue)
      BY <1>1, MatcherAssumption DEF PollMemory
    <3> QED
      BY <1>1, <3>1, <3>2
  <2>2. CASE ~FromMemory(start)
    <3>1. read \in SetToSeqs(Unread) /\ Lists(read, Unread)
      BY <2>2 DEF PollDatabase
    <3>2. read \in [1 .. Cardinality(Unread) -> Unread]
      BY <3>1 DEF SetToSeqs
    <3>3. Unread \subseteq Int /\ Unread \subseteq 0 .. Len(log) - 1 /\ Len(log) \in Nat
      <4>1. Unread \subseteq stored
        BY DEF Unread
      <4>2. stored \subseteq 0 .. Len(log) - 1
        BY DEF StoreInv
      <4>3. Len(log) \in Nat
        BY DEF TypeOK, QueueTypes
      <4> QED
        BY <4>1, <4>2, <4>3, <1>1
    <3>4. Cardinality(Unread) \in Nat
      <4>1. IsFiniteSet(0 .. Len(log) - 1)
        BY <3>3, FS_Interval
      <4> QED
        BY <4>1, <3>3, FS_Subset, FS_CardinalityType
    <3>5. read \in [1 .. Cardinality(Unread) -> Int]
      BY ONLY <3>2, <3>3
    <3> QED
      BY ONLY <3>5, <3>4
  <2> QED
    BY <2>1, <2>2
<1>3. Len(read) \in Nat \ {0} /\ Last(read) = read[Len(read)]
  BY <1>2 DEF Last
<1> QED
  BY <1>2, <1>3

----------------------------------------------------------------------------
(* What the steps of a book do, field by field *)

FirstOf(p) == book[p].mailbox[1]

\* The book p changes, and no other does.
OneBook(p) ==
  /\ book' \in [Pair -> BookState]
  /\ \A q \in Pair \ {p} : book'[q] = book[q]

OneMessage(p) ==
  /\ OneBook(p)
  /\ book[p].state = "ready" /\ book'[p].state = "ready"
  /\ book[p].mailbox # <<>> /\ 1 \in DOMAIN book[p].mailbox /\ FirstOf(p) \in Message
  /\ Shorter(book[p].mailbox, book'[p].mailbox)

EventHandled(p) ==
  /\ FirstOf(p).type = "event"
  /\ book'[p].lastSaved = book[p].lastSaved /\ book'[p].saving = book[p].saving
  /\ \/ /\ FirstOf(p).nr <= book[p].lastProcessed
        /\ book'[p].lastProcessed = book[p].lastProcessed /\ book'[p].applied = book[p].applied
     \/ /\ FirstOf(p).nr > book[p].lastProcessed
        /\ book'[p].lastProcessed = FirstOf(p).nr
        /\ book'[p].applied = Append(book[p].applied, FirstOf(p).nr)
  /\ writing' = writing /\ updates' = updates

SaveHandled(p) ==
  /\ FirstOf(p).type = "save"
  /\ book'[p].lastProcessed = book[p].lastProcessed /\ book'[p].applied = book[p].applied
  /\ book'[p].lastSaved = book[p].lastSaved
  /\ \/ /\ book[p].saving = None /\ book[p].lastSaved < FirstOf(p).nr
        /\ book'[p].saving = FirstOf(p).nr
        /\ writing' \in [Pair -> Seq(SnapshotState)]
        /\ \A q \in Pair \ {p} : writing'[q] = writing[q]
        /\ Longer(writing[p], writing'[p], [nr |-> FirstOf(p).nr, applied |-> book[p].applied])
     \/ /\ book[p].saving # None \/ ~(book[p].lastSaved < FirstOf(p).nr)
        /\ book'[p].saving = book[p].saving
        /\ writing' = writing
  /\ updates' = updates

\* The book p reports n to MatcherActor.
Reports(p, n) ==
  /\ updates' \in [Pair -> Seq(Int)]
  /\ \A q \in Pair \ {p} : updates'[q] = updates[q]
  /\ Longer(updates[p], updates'[p], n)

SavedHandled(p) ==
  /\ FirstOf(p).type = "saved"
  /\ book'[p].lastProcessed = book[p].lastProcessed /\ book'[p].applied = book[p].applied
  /\ book'[p].lastSaved = book[p].saving /\ book'[p].saving = None
  /\ Reports(p, book[p].saving)
  /\ writing' = writing

FailureHandled(p) ==
  /\ FirstOf(p).type = "failed"
  /\ book'[p].lastProcessed = book[p].lastProcessed /\ book'[p].applied = book[p].applied
  /\ book'[p].lastSaved = book[p].lastSaved /\ book'[p].saving = None
  /\ writing' = writing /\ updates' = updates

\* What a book appends to its reports is a report.
LEMMA ReportsIs ==
  ASSUME TypeOK, NEW p \in Pair, NEW n \in Int, updates' = [updates EXCEPT ![p] = Append(@, n)]
  PROVE  Reports(p, n)
<1>1. updates \in [Pair -> Seq(Int)]
  BY DEF TypeOK, ActorTypes
<1>2. updates[p] \in Seq(Int)
  BY <1>1
<1>3. Append(updates[p], n) \in Seq(Int) /\ Longer(updates[p], Append(updates[p], n), n)
  BY <1>2, AppendIs
<1> DEFINE a == Append(updates[p], n)
<1> HIDE DEF a
<1>4. updates' = [updates EXCEPT ![p] = a]
  BY DEF a
<1> QED
  BY <1>1, <1>3, <1>4 DEF Reports, a

\* A book takes the first of its messages: an event, a request to save, or the answer of
\* the snapshot store.
LEMMA BookHandlesIs ==
  ASSUME TypeOK, NEW p \in Pair, BookHandles(p)
  PROVE  /\ OneMessage(p)
         /\ EventHandled(p) \/ SaveHandled(p) \/ SavedHandled(p) \/ FailureHandled(p)
<1> DEFINE r == book[p]
           m == Head(r.mailbox)
           k == Tail(r.mailbox)
           b == [r EXCEPT !.mailbox = k]
<1>0. /\ book \in [Pair -> BookState] /\ writing \in [Pair -> Seq(SnapshotState)]
      /\ updates \in [Pair -> Seq(Int)]
  BY DEF TypeOK, BookTypes, ActorTypes
<1>1. /\ r \in BookState /\ r.mailbox \in Seq(Message) /\ r.state = "ready" /\ r.mailbox # <<>>
      /\ r.lastProcessed \in Int /\ r.saving \in Int /\ r.lastSaved \in Int /\ r.applied \in Seq(Int)
  BY <1>0 DEF BookHandles, BookState
<1>2. k \in Seq(Message) /\ Shorter(r.mailbox, k) /\ m = r.mailbox[1] /\ m \in Message
      /\ 1 \in DOMAIN r.mailbox
  <2> HIDE DEF r
  <2> QED
    BY <1>1, TailIs
<1>3. b \in BookState /\ b.mailbox = k /\ SameBut(r, b)
  <2> HIDE DEF r, k
  <2> QED
    BY <1>1, <1>2, WithMailbox DEF SameBut
<1>4. m.nr \in Int /\ m = FirstOf(p)
  BY <1>2 DEF Message, FirstOf
<1>5. /\ b.state = "ready" /\ b.lastProcessed = r.lastProcessed /\ b.lastSaved = r.lastSaved
      /\ b.saving = r.saving /\ b.applied = r.applied
  BY <1>1, <1>3 DEF SameBut
<1>6. b \in BookState /\ b.mailbox = k
  BY <1>3
<1>7. ASSUME NEW t \in BookState, book' = [book EXCEPT ![p] = t], t.state = "ready", t.mailbox = k
      PROVE  OneMessage(p) /\ book'[p] = t
  <2>1. book'[p] = t /\ OneBook(p)
    BY <1>0, <1>7 DEF OneBook
  <2> QED
    BY <2>1, <1>1, <1>2, <1>4, <1>7 DEF OneMessage
<1>a. CASE /\ m.type = "event"
           /\ book' = [book EXCEPT ![p] = Execute(b, m.nr)]
           /\ UNCHANGED <<writing, updates>>
  <2> DEFINE t == Execute(b, m.nr)
  <2>1. CASE m.nr <= b.lastProcessed
    <3>1. t = b
      BY <2>1 DEF Execute
    <3>2. OneMessage(p) /\ book'[p] = b
      <4> HIDE DEF b, k, m
      <4> QED
        BY <3>1, <1>5, <1>6, <1>7, <1>a
    <3> QED
      BY <2>1, <3>2, <1>4, <1>5, <1>a DEF EventHandled
  <2>2. CASE ~(m.nr <= b.lastProcessed)
    <3> DEFINE a == Append(b.applied, m.nr)
    <3>0. a \in Seq(Int)
      BY <1>1, <1>4, <1>5
    <3>1. t = [b EXCEPT !.lastProcessed = m.nr, !.applied = a]
      BY <2>2 DEF Execute
    <3>2. /\ t \in BookState /\ t.state = "ready" /\ t.mailbox = k /\ t.lastProcessed = m.nr
          /\ t.applied = a /\ t.lastSaved = b.lastSaved /\ t.saving = b.saving
      <4> HIDE DEF t, b, k, m, a
      <4> QED
        BY <3>0, <3>1, <1>4, <1>5, <1>6 DEF BookState
    <3>3. OneMessage(p) /\ book'[p] = t
      <4> HIDE DEF t, b, k, m
      <4>1. book' = [book EXCEPT ![p] = t]
        BY <1>a DEF t
      <4> QED
        BY <3>2, <4>1, <1>7
    <3>4. m.nr > r.lastProcessed /\ a = Append(r.applied, m.nr)
      BY <2>2, <1>1, <1>4, <1>5
    <3> HIDE DEF t, b, k, m, a, r
    <3>5. book[p].saving = r.saving /\ book[p].lastSaved = r.lastSaved
          /\ book[p].lastProcessed = r.lastProcessed /\ book[p].applied = r.applied
      BY DEF r
    <3> QED
      BY <3>2, <3>3, <3>4, <3>5, <1>4, <1>5, <1>a DEF EventHandled
  <2> QED
    BY <2>1, <2>2
<1>b. CASE /\ m.type = "save"
           /\ book' = [book EXCEPT ![p] = IF Saves(b, m.nr) THEN [b EXCEPT !.saving = m.nr] ELSE b]
           /\ writing' = IF Saves(b, m.nr)
                           THEN [writing EXCEPT ![p] = Append(@, SnapshotOf(b, m.nr))] ELSE writing
           /\ UNCHANGED updates
  <2>1. CASE Saves(b, m.nr)
    <3> DEFINE t == [b EXCEPT !.saving = m.nr]
               w == [nr |-> m.nr, applied |-> r.applied]
               n == Append(writing[p], w)
    <3>1. t \in BookState /\ t.state = "ready" /\ t.mailbox = k /\ t.saving = m.nr
          /\ t.lastProcessed = b.lastProcessed /\ t.lastSaved = b.lastSaved /\ t.applied = b.applied
      <4> HIDE DEF b, k, m
      <4> QED
        BY <1>4, <1>5, <1>6 DEF BookState
    <3>2. OneMessage(p) /\ book'[p] = t
      <4> HIDE DEF t, b, k, m
      <4>1. book' = [book EXCEPT ![p] = t]
        BY <2>1, <1>b DEF t
      <4> QED
        BY <3>1, <4>1, <1>7
    <3>3. w \in SnapshotState /\ w = SnapshotOf(b, m.nr)
      BY <1>1, <1>4, <1>5 DEF SnapshotState, SnapshotOf
    <3>4. n \in Seq(SnapshotState) /\ Longer(writing[p], n, w)
      <4>1. writing[p] \in Seq(SnapshotState)
        BY <1>0
      <4> HIDE DEF w
      <4> QED
        BY <3>3, <4>1, AppendIs
    <3>5. writing' = [writing EXCEPT ![p] = n]
      <4> HIDE DEF b, m, w
      <4> QED
        BY <2>1, <3>3, <1>b
    <3>6. /\ writing' \in [Pair -> Seq(SnapshotState)] /\ writing'[p] = n
          /\ \A q \in Pair \ {p} : writing'[q] = writing[q]
      <4> HIDE DEF n
      <4> QED
        BY <1>0, <3>4, <3>5
    <3>7. book[p].saving = None /\ book[p].lastSaved < m.nr
      BY <2>1, <1>5 DEF Saves
    <3>8. Longer(writing[p], writing'[p], [nr |-> FirstOf(p).nr, applied |-> book[p].applied])
      BY <3>4, <3>6, <1>4
    <3> HIDE DEF t, b, m, n, w
    <3>9. SaveHandled(p)
      BY <3>1, <3>2, <3>6, <3>7, <3>8, <1>4, <1>5, <1>b DEF SaveHandled, r
    <3> QED
      BY <3>2, <3>9
  <2>2. CASE ~Saves(b, m.nr)
    <3>1. OneMessage(p) /\ book'[p] = b
      <4> HIDE DEF b, k, m
      <4> QED
        BY <2>2, <1>5, <1>6, <1>7, <1>b
    <3>2. book[p].saving # None \/ ~(book[p].lastSaved < m.nr)
      BY <2>2, <1>5 DEF Saves
    <3>3. writing' = writing
      BY <2>2, <1>b
    <3> HIDE DEF b, m
    <3>4. SaveHandled(p)
      BY <3>1, <3>2, <3>3, <1>4, <1>5, <1>b DEF SaveHandled, r
    <3> QED
      BY <3>1, <3>4
  <2> QED
    BY <2>1, <2>2
<1>c. CASE /\ m.type = "saved"
           /\ book' = [book EXCEPT ![p] = [b EXCEPT !.lastSaved = b.saving, !.saving = None]]
           /\ updates' = [updates EXCEPT ![p] = Append(@, b.saving)]
           /\ UNCHANGED writing
  <2> DEFINE t == [b EXCEPT !.lastSaved = b.saving, !.saving = None]
  <2>1. t \in BookState /\ t.state = "ready" /\ t.mailbox = k /\ t.saving = None
        /\ t.lastProcessed = b.lastProcessed /\ t.lastSaved = b.saving /\ t.applied = b.applied
    <3>1. None \in Int /\ b.saving \in Int
      BY <1>1, <1>5 DEF None
    <3> HIDE DEF b, k, m
    <3> QED
      BY <3>1, <1>4, <1>5, <1>6 DEF BookState
  <2>2. OneMessage(p) /\ book'[p] = t
    <3> HIDE DEF t, b, k, m
    <3>1. book' = [book EXCEPT ![p] = t]
      BY <1>c DEF t
    <3> QED
      BY <2>1, <3>1, <1>7
  <2>3. Reports(p, book[p].saving)
    <3>1. updates' = [updates EXCEPT ![p] = Append(@, book[p].saving)] /\ book[p].saving \in Int
      BY <1>1, <1>5, <1>c
    <3> QED
      BY <3>1, ReportsIs
  <2> HIDE DEF t, b, m
  <2>4. SavedHandled(p)
    BY <2>1, <2>2, <2>3, <1>4, <1>5, <1>c DEF SavedHandled, r
  <2> QED
    BY <2>2, <2>4
<1>d. CASE /\ m.type = "failed"
           /\ book' = [book EXCEPT ![p] = [b EXCEPT !.saving = None]]
           /\ UNCHANGED <<writing, updates>>
  <2> DEFINE t == [b EXCEPT !.saving = None]
  <2>1. t \in BookState /\ t.state = "ready" /\ t.mailbox = k /\ t.saving = None
        /\ t.lastProcessed = b.lastProcessed /\ t.lastSaved = b.lastSaved /\ t.applied = b.applied
    <3>1. None \in Int
      BY DEF None
    <3> HIDE DEF b, k, m
    <3> QED
      BY <3>1, <1>4, <1>5, <1>6 DEF BookState
  <2>2. OneMessage(p) /\ book'[p] = t
    <3> HIDE DEF t, b, k, m
    <3>1. book' = [book EXCEPT ![p] = t]
      BY <1>d DEF t
    <3> QED
      BY <2>1, <3>1, <1>7
  <2> HIDE DEF t, b, m
  <2>3. FailureHandled(p)
    BY <2>1, <2>2, <1>4, <1>5, <1>d DEF FailureHandled, r
  <2> QED
    BY <2>2, <2>3
<1> QED
  BY <1>a, <1>b, <1>c, <1>d DEF BookHandles

BookRecovered(p) ==
  /\ OneBook(p)
  /\ book[p].state = "loading" /\ book'[p].state = "ready"
  /\ book'[p].lastProcessed = snapshot[p].nr /\ book'[p].lastSaved = snapshot[p].nr
  /\ book'[p].applied = snapshot[p].applied
  /\ book'[p].saving = book[p].saving /\ book'[p].mailbox = book[p].mailbox
  /\ Reports(p, snapshot[p].nr)

\* A book takes over its snapshot and reports its number.
LEMMA BookRecoversIs ==
  ASSUME TypeOK, NEW p \in Pair, BookRecovers(p)
  PROVE  BookRecovered(p)
<1> DEFINE r == book[p]
           s == snapshot[p]
           t == [r EXCEPT !.state = "ready", !.lastProcessed = s.nr, !.lastSaved = s.nr,
                          !.applied = s.applied]
<1>1. /\ book \in [Pair -> BookState] /\ r \in BookState /\ s \in SnapshotState
      /\ s.nr \in Int /\ s.applied \in Seq(Int) /\ r.state = "loading"
  BY DEF TypeOK, BookTypes, SnapshotState, BookRecovers
<1>2. book' = [book EXCEPT ![p] = t] /\ updates' = [updates EXCEPT ![p] = Append(@, s.nr)]
  BY DEF BookRecovers
<1>3. Reports(p, s.nr)
  BY <1>1, <1>2, ReportsIs
<1>4. /\ t \in BookState /\ t.state = "ready" /\ t.lastProcessed = s.nr /\ t.lastSaved = s.nr
      /\ t.applied = s.applied /\ t.saving = r.saving /\ t.mailbox = r.mailbox
  <2> HIDE DEF r, s
  <2> QED
    BY <1>1 DEF BookState
<1> HIDE DEF t
<1>5. OneBook(p) /\ book'[p] = t
  BY <1>1, <1>2, <1>4 DEF OneBook
<1> QED
  BY <1>1, <1>3, <1>4, <1>5 DEF BookRecovered

\* The snapshot on its way is on the disk, and the book hears of it.
SnapshotWritten(p) ==
  /\ writing[p] # <<>> /\ 1 \in DOMAIN writing[p] /\ writing[p][1] \in SnapshotState
  /\ snapshot' = [snapshot EXCEPT ![p] = writing[p][1]]
  /\ writing' \in [Pair -> Seq(SnapshotState)]
  /\ \A q \in Pair \ {p} : writing'[q] = writing[q]
  /\ Shorter(writing[p], writing'[p])
  /\ OneBook(p) /\ SameBut(book[p], book'[p])
  /\ book[p].state = "off" => book'[p] = book[p]
  /\ book[p].state # "off" =>
       Longer(book[p].mailbox, book'[p].mailbox, [type |-> "saved", nr |-> writing[p][1].nr])

\* The snapshot store writes one snapshot and answers.
LEMMA WriteSnapshotIs ==
  ASSUME TypeOK, NEW p \in Pair, WriteSnapshot(p)
  PROVE  SnapshotWritten(p)
<1> DEFINE w == writing[p]
           m == [type |-> "saved", nr |-> w[1].nr]
<1>0. /\ book \in [Pair -> BookState] /\ writing \in [Pair -> Seq(SnapshotState)]
      /\ w \in Seq(SnapshotState) /\ w # <<>>
  BY DEF TypeOK, BookTypes, WriteSnapshot
<1>1. /\ Tail(w) \in Seq(SnapshotState) /\ Shorter(w, Tail(w)) /\ Head(w) = w[1]
      /\ w[1] \in SnapshotState /\ 1 \in DOMAIN w
  <2> HIDE DEF w
  <2> QED
    BY <1>0, TailIs
<1>2. m \in Message
  BY <1>1 DEF Message, SnapshotState
<1>3. /\ snapshot' = [snapshot EXCEPT ![p] = w[1]] /\ writing' = [writing EXCEPT ![p] = Tail(w)]
      /\ book' = Tell(p, book, <<m>>)
  BY <1>1 DEF WriteSnapshot
<1>4. /\ writing' \in [Pair -> Seq(SnapshotState)] /\ writing'[p] = Tail(w)
      /\ \A q \in Pair \ {p} : writing'[q] = writing[q]
  BY <1>0, <1>1, <1>3
<1>5. /\ OneBook(p) /\ SameBut(book[p], book'[p])
      /\ book[p].state = "off" => book'[p] = book[p]
      /\ book[p].state # "off" => Longer(book[p].mailbox, book'[p].mailbox, m)
  <2> HIDE DEF m
  <2>1. /\ book' \in [Pair -> BookState]
        /\ \A q \in Pair \ {p} : book'[q] = book[q]
        /\ book[p].state = "off" => book' = book
        /\ book[p].state # "off" => Longer(book[p].mailbox, book'[p].mailbox, m)
        /\ SameBut(book[p], book'[p])
    BY <1>0, <1>2, <1>3, TellIs
  <2> QED
    BY <2>1 DEF OneBook
<1> QED
  BY <1>0, <1>1, <1>3, <1>4, <1>5 DEF SnapshotWritten

\* The snapshot on its way is lost, and the book hears of it.
SnapshotFailed(p) ==
  /\ writing[p] # <<>>
  /\ writing' \in [Pair -> Seq(SnapshotState)]
  /\ \A q \in Pair \ {p} : writing'[q] = writing[q]
  /\ Shorter(writing[p], writing'[p])
  /\ OneBook(p) /\ SameBut(book[p], book'[p])
  /\ book[p].state = "off" => book'[p] = book[p]
  /\ book[p].state # "off" =>
       \E n \in Int : Longer(book[p].mailbox, book'[p].mailbox, [type |-> "failed", nr |-> n])
  /\ unsaved' = unsaved \cup {p}
  /\ UNCHANGED <<log, stored, adding, inMemQueue, startInMem, seenStart, lastUnread, lost,
                 actorVars, events, updates, snapshot, toJournal, journal, orphans, misnumbered>>

\* The snapshot store cannot write a snapshot and answers.
LEMMA SnapshotFailsIs ==
  ASSUME TypeOK, NEW p \in Pair, SnapshotFails(p)
  PROVE  SnapshotFailed(p) /\ faults' \in [FaultKind -> Nat]
<1> DEFINE w == writing[p]
           m == [type |-> "failed", nr |-> w[1].nr]
<1>0. /\ book \in [Pair -> BookState] /\ writing \in [Pair -> Seq(SnapshotState)]
      /\ w \in Seq(SnapshotState) /\ w # <<>>
  BY DEF TypeOK, BookTypes, SnapshotFails
<1>1. /\ Tail(w) \in Seq(SnapshotState) /\ Shorter(w, Tail(w)) /\ Head(w) = w[1]
      /\ w[1] \in SnapshotState /\ 1 \in DOMAIN w
  <2> HIDE DEF w
  <2> QED
    BY <1>0, TailIs
<1>2. m \in Message /\ w[1].nr \in Int
  BY <1>1 DEF Message, SnapshotState
<1>3. /\ writing' = [writing EXCEPT ![p] = Tail(w)] /\ book' = Tell(p, book, <<m>>)
      /\ unsaved' = unsaved \cup {p}
      /\ UNCHANGED <<log, stored, adding, inMemQueue, startInMem, seenStart, lastUnread, lost,
                     actorVars, events, updates, snapshot, toJournal, journal, orphans, misnumbered>>
  BY <1>1 DEF SnapshotFails, queueVars
<1>4. /\ writing' \in [Pair -> Seq(SnapshotState)] /\ writing'[p] = Tail(w)
      /\ \A q \in Pair \ {p} : writing'[q] = writing[q]
  BY <1>0, <1>1, <1>3
<1>5. /\ OneBook(p) /\ SameBut(book[p], book'[p])
      /\ book[p].state = "off" => book'[p] = book[p]
      /\ book[p].state # "off" => Longer(book[p].mailbox, book'[p].mailbox, m)
  <2> HIDE DEF m
  <2>1. /\ book' \in [Pair -> BookState]
        /\ \A q \in Pair \ {p} : book'[q] = book[q]
        /\ book[p].state = "off" => book' = book
        /\ book[p].state # "off" => Longer(book[p].mailbox, book'[p].mailbox, m)
        /\ SameBut(book[p], book'[p])
    BY <1>0, <1>2, <1>3, TellIs
  <2> QED
    BY <2>1 DEF OneBook
<1>6. faults' \in [FaultKind -> Nat]
  BY DEF TypeOK, BookTypes, SnapshotFails, Fault, FaultKind
<1> QED
  BY <1>0, <1>1, <1>2, <1>3, <1>4, <1>5, <1>6 DEF SnapshotFailed

\* The book p stops and MatcherActor hears of it.
LEMMA BookFailsIs ==
  ASSUME TypeOK, NEW p \in Pair, BookFails(p)
  PROVE  /\ OneBook(p) /\ book[p].state # "off" /\ book'[p] = NoBook /\ Reports(p, Terminated)
         /\ faults' \in [FaultKind -> Nat]
<1>1. /\ book \in [Pair -> BookState] /\ book[p].state # "off" /\ book' = [book EXCEPT ![p] = NoBook]
      /\ updates' = [updates EXCEPT ![p] = Append(@, Terminated)]
  BY DEF TypeOK, BookTypes, BookFails
<1>2. NoBook \in BookState
  BY StartingIs
<1>3. Reports(p, Terminated)
  <2> Terminated \in Int
    BY DEF Terminated
  <2> QED
    BY <1>1, ReportsIs
<1>4. faults' \in [FaultKind -> Nat]
  BY DEF TypeOK, BookTypes, BookFails, Fault, FaultKind
<1> QED
  BY <1>1, <1>2, <1>3, <1>4 DEF OneBook

\* MatcherActor takes what the book p has reported first.
Takes(p) ==
  /\ updates[p] # <<>> /\ 1 \in DOMAIN updates[p] /\ updates[p][1] \in Int
  /\ updates' \in [Pair -> Seq(Int)]
  /\ \A q \in Pair \ {p} : updates'[q] = updates[q]
  /\ Shorter(updates[p], updates'[p])

----------------------------------------------------------------------------
(* What the steps of MatcherActor do *)

\* MatcherActor takes the first report of a book.
LEMMA TakesIs ==
  ASSUME TypeOK, NEW p \in Pair, updates[p] # <<>>, updates' = [updates EXCEPT ![p] = Tail(@)]
  PROVE  Takes(p) /\ Head(updates[p]) = updates[p][1]
<1> DEFINE u == updates[p]
<1>1. updates \in [Pair -> Seq(Int)] /\ u \in Seq(Int)
  BY DEF TypeOK, ActorTypes
<1>2. Tail(u) \in Seq(Int) /\ Shorter(u, Tail(u)) /\ Head(u) = u[1] /\ u[1] \in Int /\ 1 \in DOMAIN u
  <2> HIDE DEF u
  <2> QED
    BY <1>1, TailIs DEF u
<1>3. updates' \in [Pair -> Seq(Int)] /\ updates'[p] = Tail(u) /\ \A q \in Pair \ {p} : updates'[q] = updates[q]
  BY <1>1, <1>2
<1> QED
  BY <1>1, <1>2, <1>3 DEF Takes

EventAt(o) == [type |-> "event", nr |-> o]
SaveAt(o) == [type |-> "save", nr |-> o]

\* The book r becomes t when it is sent m.
Posts(r, t, m) ==
  /\ SameBut(r, t)
  /\ r.state = "off" => t = r
  /\ r.state # "off" => Longer(r.mailbox, t.mailbox, m)

IsTold(q, o) == orderBooks[q] = "up" /\ \E x \in RequiredSnapshots(o) : x[2] = q

\* An event for a book that exists, and a request to save
PassedOn(p, o, sent) ==
  /\ orderBooks[p] = "up" /\ orderBooks' = orderBooks /\ toJournal' = toJournal
  /\ sent \in [Pair -> BookState]
  /\ Posts(book[p], sent[p], EventAt(o)) /\ \A q \in Pair \ {p} : sent[q] = book[q]
  /\ nearest' = nearest \ RequiredSnapshots(o)
  /\ \A q \in Pair : IF IsTold(q, o) THEN Posts(sent[q], book'[q], SaveAt(o)) ELSE book'[q] = sent[q]
  /\ misnumbered' = misnumbered \cup {q \in Pair : IsTold(q, o) /\ IsAhead(sent[q], o)}

\* An event for a book that has failed
Refused(p) ==
  /\ orderBooks[p] = "failed"
  /\ UNCHANGED <<orderBooks, toJournal, nearest, book, misnumbered>>

\* An event for a book that has to be created
Created(p, o) ==
  /\ orderBooks[p] = "none" /\ orderBooks' = [orderBooks EXCEPT ![p] = "up"]
  /\ toJournal' \in Seq(Pair) /\ Longer(toJournal, toJournal', p)
  /\ OneBook(p) /\ Posts(StartingBook, book'[p], EventAt(o))
  /\ UNCHANGED <<nearest, misnumbered>>

\* An event is passed on, refused because its book has failed, or creates its book.
LEMMA ForwardIs ==
  ASSUME TypeOK, NEW o \in Int, NEW p \in Pair, p = PairOf(o), Forward(o)
  PROVE  /\ book' \in [Pair -> BookState]
         /\ (\E sent : PassedOn(p, o, sent)) \/ Refused(p) \/ Created(p, o)
<1>0. /\ book \in [Pair -> BookState] /\ toJournal \in Seq(Pair)
      /\ orderBooks \in [Pair -> {"none", "up", "failed"}]
  BY DEF TypeOK, BookTypes, ActorTypes
<1>1. EventAt(o) \in Message /\ SaveAt(o) \in Message
  BY DEF Message, EventAt, SaveAt
<1>2. book' \in [Pair -> BookState]
  BY ForwardTypes
<1>3. CASE orderBooks[p] = "up"
  <2> DEFINE sent == Tell(p, book, <<EventAt(o)>>)
             due == RequiredSnapshots(o)
             told == {q \in Pair : orderBooks[q] = "up" /\ \E x \in due : x[2] = q}
  <2>1. /\ nearest' = NearestWithout(due) /\ orderBooks' = orderBooks /\ toJournal' = toJournal
        /\ book' = [q \in Pair |-> IF q \in told THEN Tell(q, sent, <<SaveAt(o)>>)[q] ELSE sent[q]]
        /\ misnumbered' = misnumbered \cup {q \in told : IsAhead(sent[q], o)}
    BY <1>3 DEF Forward, EventAt, SaveAt
  <2>2. /\ sent \in [Pair -> BookState] /\ Posts(book[p], sent[p], EventAt(o))
        /\ \A q \in Pair \ {p} : sent[q] = book[q]
    BY <1>0, <1>1, TellIs DEF Posts
  <2>3. ASSUME NEW q \in Pair
        PROVE  IF IsTold(q, o) THEN Posts(sent[q], book'[q], SaveAt(o)) ELSE book'[q] = sent[q]
    <3> HIDE DEF sent
    <3>1. CASE IsTold(q, o)
      <4>1. book'[q] = Tell(q, sent, <<SaveAt(o)>>)[q]
        BY <2>1, <3>1 DEF IsTold
      <4>2. Posts(sent[q], Tell(q, sent, <<SaveAt(o)>>)[q], SaveAt(o))
        BY <2>2, <1>1, TellIs DEF Posts
      <4> QED
        BY <3>1, <4>1, <4>2
    <3>2. CASE ~IsTold(q, o)
      BY <2>1, <3>2 DEF IsTold
    <3> QED
      BY <3>1, <3>2
  <2>4. misnumbered' = misnumbered \cup {q \in Pair : IsTold(q, o) /\ IsAhead(sent[q], o)}
    <3> HIDE DEF sent, due
    <3>1. {q \in told : IsAhead(sent[q], o)} = {q \in Pair : IsTold(q, o) /\ IsAhead(sent[q], o)}
      BY DEF IsTold, due
    <3> QED
      BY <2>1, <3>1
  <2>5. nearest' = nearest \ RequiredSnapshots(o)
    BY <2>1 DEF NearestWithout
  <2> HIDE DEF sent
  <2>6. PassedOn(p, o, sent)
    BY <1>3, <2>1, <2>2, <2>3, <2>4, <2>5 DEF PassedOn
  <2> QED
    BY <1>2, <2>6
<1>4. CASE orderBooks[p] = "failed"
  BY <1>2, <1>4 DEF Forward, Refused
<1>5. CASE orderBooks[p] = "none"
  <2> DEFINE new == [book EXCEPT ![p] = StartingBook]
  <2>1. new \in [Pair -> BookState] /\ new[p] = StartingBook /\ \A q \in Pair \ {p} : new[q] = book[q]
    <3> StartingBook \in BookState
      BY StartingIs
    <3> QED
      BY <1>0
  <2>2. book' = Tell(p, new, <<EventAt(o)>>) /\ orderBooks' = [orderBooks EXCEPT ![p] = "up"]
        /\ toJournal' = Append(toJournal, p) /\ nearest' = nearest /\ misnumbered' = misnumbered
    BY <1>5 DEF Forward, EventAt
  <2>3. toJournal' \in Seq(Pair) /\ Longer(toJournal, toJournal', p)
    BY <1>0, <2>2, AppendIs
  <2>4. Posts(StartingBook, book'[p], EventAt(o)) /\ \A q \in Pair \ {p} : book'[q] = book[q]
    <3> HIDE DEF new
    <3>1. LET t == Tell(p, new, <<EventAt(o)>>)
          IN  /\ \A q \in Pair \ {p} : t[q] = new[q]
              /\ new[p].state = "off" => t = new
              /\ new[p].state # "off" => Longer(new[p].mailbox, t[p].mailbox, EventAt(o))
              /\ SameBut(new[p], t[p])
      BY <2>1, <1>1, TellIs
    <3> QED
      BY <2>1, <2>2, <3>1 DEF Posts
  <2> QED
    BY <1>2, <1>5, <2>2, <2>3, <2>4 DEF Created, OneBook
<1> QED
  BY <1>0, <1>2, <1>3, <1>4, <1>5

\* What the step changes apart from the books
EventTaken ==
  /\ status = "working"
  /\ events # <<>> /\ 1 \in DOMAIN events
  /\ events' \in Seq(Int) /\ Shorter(events, events')
  /\ events[1] \in stored /\ events[1] \in 0 .. Len(log) - 1 /\ PairOf(events[1]) \in Pair
  /\ lastProcessedNr' = MaxOf(events[1], lastProcessedNr)
  /\ UNCHANGED <<queueVars, status, collected, startOffset, updates, writing, snapshot,
                 journal, orphans, unsaved, faults>>

\* MatcherActor takes the first event on its way.
LEMMA HandleEventIs ==
  ASSUME TypeOK, StoreInv, HandleEvent
  PROVE  /\ EventTaken
         /\ book' \in [Pair -> BookState]
         /\ \/ \E sent : PassedOn(PairOf(events[1]), events[1], sent)
            \/ Refused(PairOf(events[1]))
            \/ Created(PairOf(events[1]), events[1])
<1>1. events # <<>> /\ status = "working" /\ Forward(Head(events)) /\ events' = Tail(events)
      /\ lastProcessedNr' = MaxOf(Head(events), lastProcessedNr)
      /\ UNCHANGED <<queueVars, status, collected, startOffset, updates, writing, snapshot,
                     journal, orphans, unsaved, faults>>
  BY DEF HandleEvent
<1>2. /\ Head(events) = events[1] /\ 1 \in DOMAIN events /\ Head(events) \in stored
      /\ Head(events) \in 0 .. Len(log) - 1 /\ PairOf(Head(events)) \in Pair
      /\ Tail(events) \in Seq(Int) /\ Shorter(events, Tail(events))
  BY <1>1, HeadOfEvents
<1>3. EventTaken
  BY <1>1, <1>2 DEF EventTaken
<1>4. events[1] \in Int
  BY <1>2
<1> QED
  BY <1>1, <1>2, <1>3, <1>4, ForwardIs

\* MatcherActor goes on waiting, or starts to work and consumes the queue.
CollectedOne(p) ==
  /\ status = "collecting" /\ Takes(p) /\ updates[p][1] # Terminated
  /\ collected' = [collected EXCEPT ![p] = updates[p][1]]
  /\ UNCHANGED <<log, adding, inMemQueue, startInMem, seenStart, orderBooks, lastProcessedNr,
                 events, bookVars, journalVars, misnumbered, faults>>

GoesOnWaiting ==
  /\ \E q \in Pair : orderBooks[q] = "up" /\ collected'[q] = None
  /\ UNCHANGED <<status, startOffset, nearest, lastUnread, stored, lost>>

StartsWorking ==
  /\ \A q \in Pair : orderBooks[q] = "up" => collected'[q] # None
  /\ status' = "working"
  /\ startOffset' = lastProcessedNr
  /\ nearest' = NearestAtStart(collected')
  /\ StartConsume(OldestOf(collected') + 1)

\* A report is collected, and is the last or not.
LEMMA CollectIs ==
  ASSUME TypeOK, NEW p \in Pair, Collect(p)
  PROVE  CollectedOne(p) /\ (GoesOnWaiting \/ StartsWorking)
<1>1. /\ status = "collecting" /\ updates[p] # <<>> /\ Head(updates[p]) # Terminated
      /\ updates' = [updates EXCEPT ![p] = Tail(@)]
      /\ collected' = [collected EXCEPT ![p] = Head(updates[p])]
      /\ UNCHANGED <<log, adding, inMemQueue, startInMem, seenStart, orderBooks, lastProcessedNr,
                     events, bookVars, journalVars, misnumbered, faults>>
  BY DEF Collect
<1>2. Takes(p) /\ Head(updates[p]) = updates[p][1]
  BY <1>1, TakesIs
<1>3. CollectedOne(p)
  BY <1>1, <1>2 DEF CollectedOne
<1>4. GoesOnWaiting \/ StartsWorking
  BY DEF Collect, GoesOnWaiting, StartsWorking
<1> QED
  BY <1>3, <1>4

\* The next number on a pair's grid
LEMMA NextIsLater ==
  ASSUME NEW p \in Pair, NEW nr \in Int, NEW last \in Nat
  PROVE  NextSnapshotOffset(p, nr, last) \in Int /\ NextSnapshotOffset(p, nr, last) > last
<1> DEFINE n == (IF nr < 0 THEN 0 ELSE nr \div Interval)
           z == n * Interval + Shift[p]
           k == (last - z) \div Interval
<1>1. Interval \in Nat \ {0} /\ Shift[p] \in Int
  BY MatcherAssumption
<1>2. n \in Int
  <2> HIDE DEF n
  <2>1. nr >= 0 => nr \div Interval \in Int
    BY <1>1
  <2> QED
    BY <2>1 DEF n
<1>3. z \in Int
  <2> HIDE DEF n
  <2> QED
    BY <1>1, <1>2
<1> HIDE DEF n, z
<1>4. CASE z > last
  BY <1>3, <1>4 DEF NextSnapshotOffset, z, n
<1>5. CASE ~(z > last)
  <2>1. NextSnapshotOffset(p, nr, last) = z + (k + 1) * Interval
    BY <1>3, <1>5 DEF NextSnapshotOffset, z, n
  <2>2. last - z \in Nat
    BY <1>3, <1>5
  <2>3. /\ k \in Int /\ k * Interval <= last - z /\ last - z < k * Interval + Interval
    <3> DEFINE d == last - z
    <3> HIDE DEF d
    <3>0. d \in Nat
      BY <2>2 DEF d
    <3>1. d = Interval * (d \div Interval) + (d % Interval)
      BY <3>0, <1>1
    <3>2. d % Interval < Interval /\ d % Interval >= 0 /\ d % Interval \in Int
      BY <3>0, <1>1
    <3>3. d \div Interval \in Int
      BY <3>0, <1>1
    <3> DEFINE e == d \div Interval
               f == d % Interval
    <3> HIDE DEF e, f
    <3>4. Interval * e = e * Interval /\ e * Interval \in Int
      BY <3>3, <1>1 DEF e
    <3>5. d = Interval * e + f /\ f < Interval /\ f >= 0 /\ f \in Int
      BY <3>1, <3>2 DEF e, f
    <3>6. e * Interval <= d /\ d < e * Interval + Interval
      BY <3>4, <3>5, <3>0, <1>1
    <3> QED
      BY <3>3, <3>6 DEF d, e
  <2> HIDE DEF k
  <2>4. (k + 1) * Interval = k * Interval + Interval /\ k * Interval \in Int
    BY <2>3, <1>1
  <2> QED
    BY <2>1, <2>3, <2>4, <1>1, <1>3
<1> QED
  BY <1>4, <1>5

\* A poll reads at least one event and goes on behind the last of them.
LEMMA PollIs ==
  ASSUME TypeOK, StoreInv, Poll
  PROVE  \E start \in {seenStart, startInMem}, read \in Seq(Int) :
           /\ read # <<>> /\ Len(read) \in Nat \ {0}
           /\ seenStart' = start
           /\ lastUnread # None /\ lastUnread' = read[Len(read)] + 1
           /\ events' = events \o read
           /\ \/ /\ FromMemory(start) /\ read = PollMemory
                 /\ inMemQueue' = SubSeq(inMemQueue, Len(read) + 1, Len(inMemQueue))
              \/ /\ ~FromMemory(start) /\ Lists(read, Unread)
                 /\ inMemQueue' = inMemQueue
           /\ UNCHANGED <<log, stored, adding, startInMem, lost, actorVars, updates, bookVars,
                          journalVars, misnumbered, faults>>
<1> DEFINE Reads(start, read) ==
             /\ read # <<>>
             /\ seenStart' = start
             /\ inMemQueue' = IF FromMemory(start)
                                THEN SubSeq(inMemQueue, Len(read) + 1, Len(inMemQueue))
                                ELSE inMemQueue
             /\ lastUnread' = Last(read) + 1
             /\ events' = events \o read
<1>0. PICK start \in {seenStart, startInMem} :
        \E read \in IF FromMemory(start) THEN {PollMemory} ELSE PollDatabase : Reads(start, read)
  BY DEF Poll
<1>1. PICK read \in IF FromMemory(start) THEN {PollMemory} ELSE PollDatabase : Reads(start, read)
  BY <1>0
<1>2. read \in Seq(Int) /\ Last(read) \in Int /\ Len(read) \in Nat \ {0} /\ Last(read) = read[Len(read)]
  BY <1>1, ReadTypes
<1>3. /\ lastUnread # None
      /\ UNCHANGED <<log, stored, adding, startInMem, lost, actorVars, updates, bookVars,
                     journalVars, misnumbered, faults>>
  BY DEF Poll
<1>4. CASE FromMemory(start)
  BY <1>1, <1>2, <1>3, <1>4
<1>5. CASE ~FromMemory(start)
  <2>1. Lists(read, Unread)
    BY <1>1, <1>5 DEF PollDatabase
  <2> QED
    BY <1>1, <1>2, <1>3, <1>5, <2>1
<1> QED
  BY <1>4, <1>5

----------------------------------------------------------------------------
(* Types are preserved *)

\* The initial values have their types.
LEMMA TypeInit == MatcherInit => TypeOK
<1> SUFFICES ASSUME MatcherInit PROVE TypeOK
  OBVIOUS
<1>1. /\ None \in Int /\ NoBook \in BookState /\ EmptySnapshot \in SnapshotState
      /\ <<>> \in Seq(Int) /\ <<>> \in Seq(Pair) /\ <<>> \in Seq(SnapshotState)
  <2>1. <<>> \in Seq(Int)
    OBVIOUS
  <2>2. EmptySnapshot \in SnapshotState
    BY <2>1 DEF EmptySnapshot, SnapshotState
  <2> QED
    BY <2>2, StartingIs DEF None
<1>2. QueueTypes
  BY <1>1 DEF MatcherInit, QueueTypes
<1>3. ActorTypes
  BY <1>1 DEF MatcherInit, ActorTypes
<1>4. BookTypes
  BY <1>1 DEF MatcherInit, BookTypes
<1> QED
  BY <1>2, <1>3, <1>4 DEF TypeOK

\* The oldest of the snapshots that have been reported
LEMMA OldestIs ==
  ASSUME NEW nrs \in [Pair -> Int], NEW q \in Pair, nrs[q] # None,
         \A p \in Pair : nrs[p] # None => nrs[p] >= -1
  PROVE  /\ OldestOf(nrs) \in Int /\ OldestOf(nrs) >= -1
         /\ \E p \in Pair : nrs[p] # None /\ nrs[p] = OldestOf(nrs)
         /\ \A p \in Pair : nrs[p] # None => OldestOf(nrs) <= nrs[p]
<1> DEFINE T == {nrs[p] : p \in Pair} \ {None}
           U == {n + 1 : n \in T}
<1>1. U \subseteq Nat /\ U # {}
  <2>1. \A n \in T : n \in Int /\ n >= -1
    OBVIOUS
  <2>2. nrs[q] \in T
    OBVIOUS
  <2> QED
    BY <2>1, <2>2
<1>2. PICK m \in U : \A k \in U : m <= k
  BY <1>1, NatLeast
<1>3. PICK n \in T : m = n + 1
  BY <1>2
<1>4. n \in Int /\ \A p \in Pair : nrs[p] # None => n <= nrs[p]
  <2>1. ASSUME NEW p \in Pair, nrs[p] # None PROVE n <= nrs[p]
    <3>1. nrs[p] + 1 \in U
      BY <2>1
    <3> QED
      BY <1>2, <1>3, <3>1
  <2> QED
    BY <2>1
<1>5. OldestOf(nrs) \in T /\ \A p \in Pair : nrs[p] # None => OldestOf(nrs) <= nrs[p]
  BY <1>4 DEF OldestOf
<1> QED
  BY <1>5

\* What a restart makes of everything
Started ==
  /\ inMemQueue' = <<>> /\ startInMem' = None /\ seenStart' = None /\ adding' = None
  /\ events' = <<>> /\ toJournal' = <<>>
  /\ orphans' = orphans \cup ToSet(toJournal) /\ unsaved' = {}
  /\ \A p \in Pair :
       /\ updates'[p] = <<>> /\ writing'[p] = <<>> /\ collected'[p] = None
       /\ book'[p] = (IF p \in journal THEN StartingBook ELSE NoBook)
       /\ orderBooks'[p] = (IF p \in journal THEN "up" ELSE "none")
  /\ lastProcessedNr' = 0 /\ nearest' = {}
  /\ UNCHANGED <<log, snapshot, journal, misnumbered>>
  /\ stored' = stored /\ lost' = lost
  /\ \/ journal = {} /\ status' = "working" /\ lastUnread' = 0
     \/ journal # {} /\ status' = "collecting" /\ lastUnread' = None

StartTypes ==
  /\ book' \in [Pair -> BookState] /\ orderBooks' \in [Pair -> {"none", "up", "failed"}]
  /\ updates' \in [Pair -> Seq(Int)] /\ writing' \in [Pair -> Seq(SnapshotState)]
  /\ collected' \in [Pair -> Int] /\ startOffset' \in Int

\* StartUp, value by value
LEMMA StartUpIs ==
  ASSUME TypeOK, StoreInv, StartUp
  PROVE  Started /\ StartTypes
<1>1. StartingBook \in BookState /\ NoBook \in BookState /\ None \in Int
  BY StartingIs DEF None
<1>2. StartTypes
  <2>1. book' \in [Pair -> BookState]
    BY <1>1 DEF StartUp
  <2>2. orderBooks' \in [Pair -> {"none", "up", "failed"}]
    BY DEF StartUp
  <2>3. updates' \in [Pair -> Seq(Int)] /\ writing' \in [Pair -> Seq(SnapshotState)]
    BY DEF StartUp
  <2>4. collected' \in [Pair -> Int] /\ startOffset' \in Int
    BY <1>1 DEF StartUp
  <2> QED
    BY <2>1, <2>2, <2>3, <2>4 DEF StartTypes
<1>3. /\ stored' = stored /\ lost' = lost
      /\ \/ journal = {} /\ status' = "working" /\ lastUnread' = 0
         \/ journal # {} /\ status' = "collecting" /\ lastUnread' = None
  <2>1. CASE journal = {}
    <3>1. StartConsume(0) /\ status' = "working"
      BY <2>1 DEF StartUp
    <3>2. {o \in stored : o < 0} = {}
      <4>1. stored \subseteq 0 .. Len(log) - 1
        BY DEF StoreInv
      <4>2. \A o \in stored : o \in Int /\ o >= 0
        BY <4>1
      <4> QED
        BY <4>2
    <3> DEFINE dropped == IF CleanBeforeConsume THEN {o \in stored : o < 0} ELSE {}
    <3>3. dropped = {}
      BY <3>2
    <3>4. lastUnread' = 0 /\ stored' = stored \ dropped
          /\ lost' = lost \cup {o \in dropped : o > snapshot[PairOf(o)].nr}
      BY <3>1 DEF StartConsume
    <3> HIDE DEF dropped
    <3> QED
      BY <2>1, <3>1, <3>3, <3>4
  <2>2. CASE journal # {}
    BY <2>2 DEF StartUp
  <2> QED
    BY <2>1, <2>2
<1>4. \A p \in Pair :
       /\ updates'[p] = <<>> /\ writing'[p] = <<>> /\ collected'[p] = None
       /\ book'[p] = (IF p \in journal THEN StartingBook ELSE NoBook)
       /\ orderBooks'[p] = (IF p \in journal THEN "up" ELSE "none")
  BY DEF StartUp
<1>5. /\ inMemQueue' = <<>> /\ startInMem' = None /\ seenStart' = None /\ adding' = None
      /\ events' = <<>> /\ toJournal' = <<>>
      /\ orphans' = orphans \cup ToSet(toJournal) /\ unsaved' = {}
      /\ lastProcessedNr' = 0 /\ nearest' = {}
      /\ UNCHANGED <<log, snapshot, journal, misnumbered>>
  BY DEF StartUp
<1> QED
  BY <1>2, <1>3, <1>4, <1>5 DEF Started

\* A crash and a forced stop restart the same way.
LEMMA RestartIs ==
  ASSUME TypeOK, StoreInv, Crash \/ ForcedStop
  PROVE  Started /\ StartTypes /\ faults' \in [FaultKind -> Nat]
<1>1. StartUp
  BY DEF Crash, ForcedStop
<1>2. faults' \in [FaultKind -> Nat]
  BY DEF Crash, ForcedStop, Fault, TypeOK, BookTypes
<1> QED
  BY <1>1, <1>2, StartUpIs

-----------------------------------------------------------------------------

\* The least of the journal, of type and of names that a step of MatcherActor needs
LEMMA TypeStep ==
  ASSUME TypeOK, StoreInv, CollectInv, NumbersInv, MatcherNext
  PROVE  TypeOK'
<1> USE DEF TypeOK
<1>0. QueueTypes /\ ActorTypes /\ BookTypes
  OBVIOUS
<1>1. ASSUME NEW p \in Pair, StoreEvent(p) PROVE TypeOK'
  <2>0. log \in Seq(Pair) /\ Len(log) \in Nat /\ log' = Append(log, p)
        /\ stored' = stored \cup {Len(log)} /\ adding' = Len(log)
    BY <1>1 DEF QueueTypes, StoreEvent
  <2>1. QueueTypes'
    <3>1. log' \in Seq(Pair)
      BY <2>0
    <3>2. stored' \subseteq Int /\ adding' \in Int
      <4>1. stored \subseteq Int /\ Len(log) \in Int
        BY <2>0 DEF QueueTypes
      <4> QED
        BY ONLY <4>1, <2>0
    <3> QED
      BY <1>1, <3>1, <3>2 DEF QueueTypes, StoreEvent
  <2>2. ActorTypes' /\ BookTypes'
    BY <1>1 DEF ActorTypes, BookTypes, StoreEvent, actorVars, bookVars, journalVars
  <2> QED
    BY <2>1, <2>2
<1>2. CASE AddToMemory
  <2>1. QueueTypes'
    BY <1>2 DEF QueueTypes, AddToMemory, None
  <2>2. ActorTypes' /\ BookTypes'
    BY <1>2 DEF ActorTypes, BookTypes, AddToMemory, actorVars, bookVars, journalVars
  <2> QED
    BY <2>1, <2>2
<1>3. CASE Poll
  <2>1. PICK start \in {seenStart, startInMem}, read \in Seq(Int) :
           /\ read # <<>> /\ Len(read) \in Nat \ {0}
           /\ seenStart' = start
           /\ lastUnread # None /\ lastUnread' = read[Len(read)] + 1
           /\ events' = events \o read
           /\ \/ /\ FromMemory(start) /\ read = PollMemory
                 /\ inMemQueue' = SubSeq(inMemQueue, Len(read) + 1, Len(inMemQueue))
              \/ /\ ~FromMemory(start) /\ Lists(read, Unread)
                 /\ inMemQueue' = inMemQueue
           /\ UNCHANGED <<log, stored, adding, startInMem, lost, actorVars, updates, bookVars,
                          journalVars, misnumbered, faults>>
    BY <1>3, PollIs
  <2>2. lastUnread' \in Int
    BY <2>1
  <2>3. events' \in Seq(Int) /\ seenStart' \in Int
    BY <2>1 DEF QueueTypes
  <2>4. inMemQueue' \in Seq(Int)
    <3>1. inMemQueue \in Seq(Int) /\ Len(inMemQueue) \in Nat
      BY DEF QueueTypes
    <3>2. SubSeq(inMemQueue, Len(read) + 1, Len(inMemQueue)) \in Seq(Int)
      BY <2>1, <3>1
    <3> QED
      BY <2>1, <3>1, <3>2
  <2>5. QueueTypes'
    BY <2>1, <2>2, <2>3, <2>4 DEF QueueTypes
  <2>6. ActorTypes' /\ BookTypes'
    BY <2>1 DEF ActorTypes, BookTypes, actorVars, bookVars, journalVars
  <2> QED
    BY <2>5, <2>6
<1>4. CASE HandleEvent
  <2>1. EventTaken
    BY <1>4, HandleEventIs
  <2>2. /\ book' \in [Pair -> BookState] /\ orderBooks' \in [Pair -> {"none", "up", "failed"}]
        /\ nearest' \subseteq Int \X Pair /\ toJournal' \in Seq(Pair)
        /\ misnumbered' \subseteq Pair
    <3>1. Forward(Head(events)) /\ Head(events) \in Int /\ PairOf(Head(events)) \in Pair
      <4>1. events # <<>> /\ Forward(Head(events))
        BY <1>4 DEF HandleEvent
      <4> QED
        BY <4>1, HeadOfEvents
    <3> QED
      BY <3>1, ForwardTypes
  <2>3. lastProcessedNr' \in Nat
    BY <2>1 DEF EventTaken, MaxOf, ActorTypes
  <2>4. QueueTypes'
    BY <2>1 DEF EventTaken, QueueTypes, queueVars
  <2>5. ActorTypes'
    BY <2>1, <2>2, <2>3 DEF EventTaken, ActorTypes
  <2>6. BookTypes'
    BY <2>1, <2>2 DEF EventTaken, BookTypes
  <2> QED
    BY <2>4, <2>5, <2>6
<1>5. ASSUME NEW p \in Pair, HandleUpdated(p) PROVE TypeOK'
  <2>1. updates[p] # <<>> /\ updates' = [updates EXCEPT ![p] = Tail(@)]
        /\ nearest' = nearest \cup {<<NextSnapshotOffset(p, Head(updates[p]), lastProcessedNr), p>>}
    BY <1>5 DEF HandleUpdated
  <2>2. Takes(p) /\ Head(updates[p]) = updates[p][1]
    BY <2>1, TakesIs
  <2>3. NextSnapshotOffset(p, Head(updates[p]), lastProcessedNr) \in Int
    BY <2>2, NextIsLater DEF Takes, ActorTypes
  <2>4. nearest' \subseteq Int \X Pair
    BY <2>1, <2>3 DEF ActorTypes
  <2>5. ActorTypes'
    BY <1>5, <2>2, <2>4 DEF ActorTypes, HandleUpdated, Takes
  <2>6. QueueTypes' /\ BookTypes'
    BY <1>5 DEF QueueTypes, BookTypes, HandleUpdated, queueVars, bookVars, journalVars
  <2> QED
    BY <2>5, <2>6
<1>6. ASSUME NEW p \in Pair, HandleTerminated(p) PROVE TypeOK'
  <2>1. updates[p] # <<>> /\ updates' = [updates EXCEPT ![p] = Tail(@)]
        /\ orderBooks' = [orderBooks EXCEPT ![p] = "failed"]
    BY <1>6 DEF HandleTerminated
  <2>2. Takes(p)
    BY <2>1, TakesIs
  <2>3. orderBooks' \in [Pair -> {"none", "up", "failed"}]
    BY <2>1 DEF ActorTypes
  <2>5. ActorTypes'
    BY <1>6, <2>2, <2>3 DEF ActorTypes, HandleTerminated, Takes
  <2>6. QueueTypes' /\ BookTypes'
    BY <1>6 DEF QueueTypes, BookTypes, HandleTerminated, queueVars, bookVars, journalVars
  <2> QED
    BY <2>5, <2>6
<1>7. ASSUME NEW p \in Pair, Collect(p) PROVE TypeOK'
  <2>1. CollectedOne(p) /\ (GoesOnWaiting \/ StartsWorking)
    BY <1>7, CollectIs
  <2>2. collected' \in [Pair -> Int]
    BY <2>1 DEF CollectedOne, ActorTypes, Takes
  <2>3. BookTypes'
    BY <2>1 DEF CollectedOne, BookTypes, bookVars, journalVars
  <2>4. CASE GoesOnWaiting
    <3>1. ActorTypes'
      BY <2>1, <2>2, <2>4 DEF CollectedOne, ActorTypes, Takes, GoesOnWaiting
    <3>2. QueueTypes'
      BY <2>1, <2>4 DEF CollectedOne, QueueTypes, GoesOnWaiting
    <3> QED
      BY <2>3, <3>1, <3>2
  <2>5. CASE StartsWorking
    <3>1. nearest' \subseteq Int \X Pair
      <4>1. ASSUME NEW q \in Pair
            PROVE  collected'[q] + NextSnapshotOffset(q, collected'[q], lastProcessedNr) \in Int
        <5>1. collected'[q] \in Int /\ lastProcessedNr \in Nat
          BY <2>2 DEF ActorTypes
        <5>2. NextSnapshotOffset(q, collected'[q], lastProcessedNr) \in Int
          BY <5>1, NextIsLater
        <5> QED
          BY <5>1, <5>2
      <4>2. nearest' = NearestAtStart(collected') /\ lastProcessedNr' = lastProcessedNr
        BY <2>1, <2>5 DEF StartsWorking, CollectedOne
      <4> QED
        BY <4>1, <4>2 DEF NearestAtStart
    <3>2. ActorTypes'
      <4>1. startOffset' \in Int /\ status' \in {"collecting", "working"}
        BY <2>5 DEF StartsWorking, ActorTypes
      <4>2. UNCHANGED <<orderBooks, lastProcessedNr>> /\ updates' \in [Pair -> Seq(Int)]
        BY <2>1 DEF CollectedOne, Takes
      <4> QED
        BY <2>2, <3>1, <4>1, <4>2 DEF ActorTypes
    <3>3. lastUnread' \in Int
      <4>1. \A q \in Pair : collected'[q] # None => collected'[q] >= -1
        <5>1. \A q \in Pair : collected[q] \in {None, snapshot[q].nr} /\ snapshot[q].nr >= -1
          BY <2>1 DEF CollectInv, CollectsFrom, Waiting, NumbersInv, NumbersOf, Covered, CollectedOne
        <5>2. updates[p][1] = snapshot[p].nr
          BY <2>1 DEF CollectInv, CollectsFrom, Waiting, CollectedOne, Takes
        <5> QED
          BY <2>1, <5>1, <5>2 DEF CollectedOne, ActorTypes
      <4>2. collected'[p] # None
        <5>1. updates[p][1] = snapshot[p].nr /\ snapshot[p].nr >= -1
          BY <2>1 DEF CollectInv, CollectsFrom, Waiting, CollectedOne, Takes, NumbersInv, NumbersOf, Covered
        <5> QED
          BY <2>1, <5>1 DEF CollectedOne, ActorTypes, None
      <4>3. OldestOf(collected') \in Int
        BY <2>2, <4>1, <4>2, OldestIs
      <4>4. lastUnread' = OldestOf(collected') + 1
        BY <2>5 DEF StartsWorking, StartConsume
      <4> QED
        BY <4>3, <4>4
    <3>4. stored' \subseteq Int /\ lost' \subseteq Int
      BY <2>5 DEF StartsWorking, StartConsume, QueueTypes
    <3>5. QueueTypes'
      BY <2>1, <3>3, <3>4 DEF CollectedOne, QueueTypes
    <3> QED
      BY <2>3, <3>2, <3>5
  <2> QED
    BY <2>1, <2>4, <2>5
<1>8. CASE WriteJournal
  <2>1. toJournal \in Seq(Pair) /\ toJournal # <<>>
    BY <1>8 DEF WriteJournal, BookTypes
  <2>2. Tail(toJournal) \in Seq(Pair) /\ Head(toJournal) \in Pair
    BY <2>1, TailIs
  <2>3. BookTypes'
    BY <1>8, <2>2 DEF WriteJournal, BookTypes, bookVars
  <2>4. QueueTypes' /\ ActorTypes'
    BY <1>8 DEF WriteJournal, QueueTypes, ActorTypes, queueVars, actorVars
  <2> QED
    BY <2>3, <2>4
<1>9. ASSUME NEW p \in Pair, BookRecovers(p) PROVE TypeOK'
  <2>1. BookRecovered(p)
    BY <1>9, BookRecoversIs
  <2>2. BookTypes' /\ ActorTypes' /\ QueueTypes'
    BY <1>9, <2>1 DEF BookRecovers, BookRecovered, OneBook, Reports, BookTypes, ActorTypes,
                      QueueTypes, queueVars, actorVars, journalVars
  <2> QED
    BY <2>2
<1>10. ASSUME NEW p \in Pair, BookHandles(p) PROVE TypeOK'
  <2>1. OneMessage(p) /\ (EventHandled(p) \/ SaveHandled(p) \/ SavedHandled(p)
                         \/ FailureHandled(p))
    BY <1>10, BookHandlesIs
  <2>2. QueueTypes'
    BY <1>10 DEF BookHandles, QueueTypes, queueVars
  <2>3. book' \in [Pair -> BookState] /\ writing' \in [Pair -> Seq(SnapshotState)]
        /\ updates' \in [Pair -> Seq(Int)]
    BY <2>1 DEF OneMessage, OneBook, EventHandled, SaveHandled, SavedHandled, FailureHandled,
                Reports, BookTypes, ActorTypes
  <2>4. ActorTypes' /\ BookTypes'
    BY <1>10, <2>3 DEF BookHandles, ActorTypes, BookTypes, actorVars, journalVars
  <2> QED
    BY <2>2, <2>4
<1>11. ASSUME NEW p \in Pair, WriteSnapshot(p) PROVE TypeOK'
  <2>1. SnapshotWritten(p)
    BY <1>11, WriteSnapshotIs
  <2>2. snapshot' \in [Pair -> SnapshotState]
    BY <2>1 DEF SnapshotWritten, BookTypes
  <2>3. QueueTypes' /\ ActorTypes'
    BY <1>11 DEF WriteSnapshot, QueueTypes, ActorTypes, queueVars, actorVars
  <2>4. BookTypes'
    BY <1>11, <2>1, <2>2 DEF WriteSnapshot, BookTypes, SnapshotWritten, OneBook, journalVars
  <2> QED
    BY <2>3, <2>4
<1>12. ASSUME NEW p \in Pair, BookFails(p) PROVE TypeOK'
  <2>1. OneBook(p) /\ Reports(p, Terminated) /\ faults' \in [FaultKind -> Nat]
    BY <1>12, BookFailsIs
  <2>2. QueueTypes' /\ ActorTypes' /\ BookTypes'
    BY <1>12, <2>1 DEF BookFails, OneBook, Reports, QueueTypes, ActorTypes, BookTypes, queueVars,
                       actorVars, journalVars
  <2> QED
    BY <2>2
<1>13. CASE Crash \/ ForcedStop
  <2>1. Started /\ StartTypes /\ faults' \in [FaultKind -> Nat]
    BY <1>13, RestartIs
  <2>2. /\ None \in Int /\ <<>> \in Seq(Int) /\ <<>> \in Seq(Pair)
        /\ ToSet(toJournal) \subseteq Pair
    BY DEF None, BookTypes, ToSet
  <2>3. QueueTypes'
    BY <2>1, <2>2 DEF Started, QueueTypes
  <2>4. ActorTypes'
    BY <2>1 DEF Started, StartTypes, ActorTypes
  <2>5. BookTypes'
    BY <2>1, <2>2 DEF Started, StartTypes, BookTypes
  <2> QED
    BY <2>3, <2>4, <2>5
<1>14. ASSUME NEW p \in Pair, SnapshotFails(p) PROVE TypeOK'
  <2>1. SnapshotFailed(p) /\ faults' \in [FaultKind -> Nat]
    BY <1>14, SnapshotFailsIs
  <2>2. QueueTypes' /\ ActorTypes' /\ BookTypes'
    BY <2>1 DEF SnapshotFailed, OneBook, QueueTypes, ActorTypes, BookTypes, actorVars
  <2> QED
    BY <2>2
<1> QED
  BY <1>1, <1>2, <1>3, <1>4, <1>5, <1>6, <1>7, <1>8, <1>9, <1>10, <1>11, <1>12, <1>13, <1>14
  DEF MatcherNext, MatcherStep

----------------------------------------------------------------------------
(* The memory *)

\* What is read from memory
LEMMA MemoryRead ==
  ASSUME TypeOK, MemoryInv, StoreInv, NEW start \in {seenStart, startInMem}, FromMemory(start),
         lastUnread # None, NEW read, read = PollMemory, Len(read) \in Nat \ {0}
  PROVE  /\ MemStart \in Int /\ MemStart <= lastUnread
         /\ Len(read) <= Len(inMemQueue)
         /\ \A i \in 1 .. Len(read) : read[i] = MemStart + i - 1 /\ read[i] \in stored
<1>1. /\ inMemQueue \in Seq(Int) /\ log \in Seq(Pair) /\ adding \in Int /\ lastUnread \in Int
      /\ Len(inMemQueue) \in Nat /\ Len(log) \in Nat
  BY DEF TypeOK, QueueTypes
<1>2. MemStart \in Int
  BY <1>1 DEF MemStart, End
<1>3. start = startInMem /\ start # None /\ start <= lastUnread
  BY DEF FromMemory, MemoryInv
<1>4. MemStart <= lastUnread
  BY <1>1, <1>2, <1>3 DEF MemoryInv
<1>5. PICK n \in Nat : n <= Len(inMemQueue) /\ PollMemory = SubSeq(inMemQueue, 1, n)
  BY <1>1, MatcherAssumption DEF PollMemory
<1>6. Len(read) = n /\ \A i \in 1 .. n : read[i] = inMemQueue[i]
  BY <1>1, <1>5
<1>7. ASSUME NEW i \in 1 .. n PROVE read[i] = MemStart + i - 1 /\ read[i] \in stored
  <2>1. i \in DOMAIN inMemQueue
    BY <1>1, <1>5
  <2>2. inMemQueue[i] = MemStart + i - 1
    BY <2>1 DEF MemoryInv
  <2>3. inMemQueue[i] \in stored
    BY <2>1 DEF StoreInv, ToSet
  <2> QED
    BY <1>6, <2>2, <2>3
<1> QED
  BY <1>2, <1>4, <1>5, <1>6, <1>7

\* What is read from the database
LEMMA DatabaseRead ==
  ASSUME TypeOK, NEW read \in Seq(Int), Lists(read, Unread), Len(read) \in Nat \ {0}
  PROVE  /\ \A i \in 1 .. Len(read) : read[i] \in stored /\ read[i] >= lastUnread
         /\ \A o \in stored : o >= lastUnread => \E i \in 1 .. Len(read) : read[i] = o
         /\ \A i, j \in 1 .. Len(read) : i < j => read[i] < read[j]
<1>1. DOMAIN read = 1 .. Len(read)
  OBVIOUS
<1>2. ASSUME NEW i \in 1 .. Len(read) PROVE read[i] \in Unread
  BY <1>1 DEF Lists, ToSet
<1>3. ASSUME NEW o \in Unread PROVE \E i \in 1 .. Len(read) : read[i] = o
  <2>1. o \in ToSet(read)
    BY DEF Lists
  <2> QED
    BY <2>1, <1>1 DEF ToSet
<1> QED
  BY <1>1, <1>2, <1>3 DEF Lists, Unread

\* A poll reads up to some offset, and then the events in between have been read.
Reads(read) ==
  /\ read \in Seq(Int) /\ Len(read) \in Nat \ {0}
  /\ \A i \in 1 .. Len(read) : read[i] \in stored
  /\ \A o \in stored : \A i \in 1 .. Len(read) :
       lastUnread <= o /\ o < read[i] => \E j \in 1 .. i - 1 : read[j] = o
  /\ lastUnread # None /\ lastUnread' = read[Len(read)] + 1
  /\ events' = events \o read
  /\ UNCHANGED <<log, stored, adding, startInMem, lost, actorVars, updates, bookVars,
                 journalVars, misnumbered, faults>>

\* A sequence of consecutive numbers, after some of the first have been taken
LEMMA RestOf ==
  ASSUME NEW s \in Seq(Int), NEW n \in Nat, n <= Len(s), NEW a \in Int,
         \A i \in DOMAIN s : s[i] = a + i - 1
  PROVE  LET t == SubSeq(s, n + 1, Len(s))
         IN  Len(t) = Len(s) - n /\ \A i \in DOMAIN t : s[n + i] = t[i] /\ t[i] = (a + n) + i - 1
<1> DEFINE t == SubSeq(s, n + 1, Len(s))
<1>1. Len(s) \in Nat
  OBVIOUS
<1>2. t \in Seq(Int) /\ Len(t) = Len(s) - n /\ \A i \in 1 .. Len(s) - n : t[i] = s[n + i]
  BY <1>1
<1>3. DOMAIN t = 1 .. Len(s) - n
  BY <1>2
<1> HIDE DEF t
<1>4. ASSUME NEW i \in DOMAIN t PROVE s[n + i] = t[i] /\ t[i] = (a + n) + i - 1
  <2>1. i \in 1 .. Len(s) - n /\ n + i \in DOMAIN s
    BY <1>1, <1>3
  <2>2. t[i] = s[n + i] /\ s[n + i] = a + (n + i) - 1
    BY <1>2, <2>1
  <2> QED
    BY <2>1, <2>2, <1>1
<1> QED
  BY <1>2, <1>4 DEF t

\* A poll reads the next offsets that are in the database, without a gap, and leaves the
\* memory consecutive: whichever start of the memory its thread has seen.
LEMMA PollReads ==
  ASSUME TypeOK, MemoryInv, StoreInv, Poll
  PROVE  MemoryInv' /\ ToSet(inMemQueue') \subseteq stored /\ \E read : Reads(read)
<1> DEFINE Same == UNCHANGED <<log, stored, adding, startInMem, lost, actorVars, updates, bookVars,
                               journalVars, misnumbered, faults>>
<1>0. PICK start \in {seenStart, startInMem}, read \in Seq(Int) :
           /\ read # <<>> /\ Len(read) \in Nat \ {0}
           /\ seenStart' = start
           /\ lastUnread # None /\ lastUnread' = read[Len(read)] + 1
           /\ events' = events \o read
           /\ \/ /\ FromMemory(start) /\ read = PollMemory
                 /\ inMemQueue' = SubSeq(inMemQueue, Len(read) + 1, Len(inMemQueue))
              \/ /\ ~FromMemory(start) /\ Lists(read, Unread)
                 /\ inMemQueue' = inMemQueue
           /\ Same
  BY PollIs
<1>1. /\ inMemQueue \in Seq(Int) /\ log \in Seq(Pair) /\ adding \in Int /\ lastUnread \in Int
      /\ Len(inMemQueue) \in Nat /\ Len(log) \in Nat /\ startInMem \in Int /\ stored \subseteq Int
      /\ lastUnread \in 0 .. Len(log)
  BY <1>0 DEF TypeOK, QueueTypes, MemoryInv
<1>2. MemStart \in Int
  BY <1>1 DEF MemStart, End
<1>3. End' = End /\ log' = log /\ startInMem' = startInMem /\ adding' = adding
  BY <1>0 DEF End
<1>4. Len(read) \in 1 .. Len(read)
  BY <1>0
<1>5. CASE /\ FromMemory(start) /\ read = PollMemory
           /\ inMemQueue' = SubSeq(inMemQueue, Len(read) + 1, Len(inMemQueue))
  <2>1. /\ MemStart <= lastUnread /\ Len(read) <= Len(inMemQueue)
        /\ \A i \in 1 .. Len(read) : read[i] = MemStart + i - 1 /\ read[i] \in stored
    BY <1>0, <1>5, MemoryRead
  <2>2. Len(inMemQueue') = Len(inMemQueue) - Len(read)
        /\ \A i \in DOMAIN inMemQueue' : /\ inMemQueue[Len(read) + i] = inMemQueue'[i]
                                         /\ inMemQueue'[i] = (MemStart + Len(read)) + i - 1
    <3>1. \A i \in DOMAIN inMemQueue : inMemQueue[i] = MemStart + i - 1
      BY DEF MemoryInv
    <3>2. Len(read) \in Nat
      BY <1>0
    <3> DEFINE t == SubSeq(inMemQueue, Len(read) + 1, Len(inMemQueue))
    <3>3. /\ Len(t) = Len(inMemQueue) - Len(read)
          /\ \A i \in DOMAIN t : /\ inMemQueue[Len(read) + i] = t[i]
                                /\ t[i] = (MemStart + Len(read)) + i - 1
      BY ONLY <1>1, <1>2, <2>1, <3>1, <3>2, RestOf
    <3>4. inMemQueue' = t
      BY <1>5
    <3> HIDE DEF t
    <3> QED
      BY <3>3, <3>4
  <2>3. MemStart' = MemStart + Len(read)
    BY <1>0, <1>1, <1>2, <1>3, <2>2 DEF MemStart, End
  <2>4. lastUnread' = MemStart' /\ lastUnread' \in 0 .. Len(log)
    <3>1. read[Len(read)] = MemStart + Len(read) - 1 /\ read[Len(read)] \in stored
      BY <1>4, <2>1
    <3>2. read[Len(read)] \in 0 .. Len(log) - 1
      BY <3>1 DEF StoreInv
    <3> QED
      BY <1>0, <1>1, <1>2, <2>3, <3>1, <3>2
  <2>5. MemoryInv'
    <3>1. inMemQueue' # <<>> => inMemQueue # <<>>
      BY <1>0, <1>1, <2>2
    <3>2. startInMem # None
      BY <1>0, <1>5 DEF FromMemory, MemoryInv
    <3>3. MemStart' <= lastUnread' /\ lastUnread' # None
      BY <1>0, <1>1, <1>2, <2>3, <2>4 DEF None
    <3>4. \A i \in DOMAIN inMemQueue' : inMemQueue'[i] = MemStart' + i - 1
      BY <2>2, <2>3
    <3>5. adding' # None => adding' = Len(log') - 1
      BY <1>3 DEF MemoryInv
    <3>6. seenStart' \in {None, startInMem'} /\ (startInMem' = None \/ startInMem' >= 0)
      BY <1>0, <1>3 DEF MemoryInv
    <3>7. lastUnread' \in 0 .. Len(log')
      BY <2>4, <1>3
    <3> QED
      BY <1>3, <3>2, <3>3, <3>4, <3>5, <3>6, <3>7 DEF MemoryInv
  <2>6. ASSUME NEW o \in stored, NEW i \in 1 .. Len(read), lastUnread <= o, o < read[i]
        PROVE  \E j \in 1 .. i - 1 : read[j] = o
    <3>0. o \in Int
      BY <1>1
    <3>1. (o - MemStart) + 1 \in 1 .. i - 1
      BY <1>0, <1>1, <1>2, <2>1, <2>6, <3>0
    <3>2. (o - MemStart) + 1 \in 1 .. Len(read)
      BY <1>0, <3>1
    <3>3. read[(o - MemStart) + 1] = MemStart + ((o - MemStart) + 1) - 1
      BY <2>1, <3>2
    <3>4. read[(o - MemStart) + 1] = o
      BY <3>0, <3>3, <1>2
    <3> QED
      BY <3>1, <3>4
  <2>7. Reads(read)
    BY <1>0, <2>1, <2>6 DEF Reads
  <2>8. ToSet(inMemQueue') \subseteq stored
    <3>1. inMemQueue' \in Seq(Int) /\ Len(read) \in Nat
      BY <1>0, <1>1, <1>5
    <3>2. ASSUME NEW i \in DOMAIN inMemQueue' PROVE inMemQueue'[i] \in stored
      <4>1. Len(read) + i \in DOMAIN inMemQueue
        BY <1>1, <2>1, <2>2, <3>1
      <4> QED
        BY <4>1, <2>2 DEF StoreInv, ToSet
    <3> QED
      BY <3>2 DEF ToSet
  <2> QED
    BY <2>5, <2>7, <2>8
<1>6. CASE ~FromMemory(start) /\ Lists(read, Unread) /\ inMemQueue' = inMemQueue
  <2>1. /\ \A i \in 1 .. Len(read) : read[i] \in stored /\ read[i] >= lastUnread
        /\ \A o \in stored : o >= lastUnread => \E i \in 1 .. Len(read) : read[i] = o
        /\ \A i, j \in 1 .. Len(read) : i < j => read[i] < read[j]
    BY <1>0, <1>6, DatabaseRead
  <2>2. lastUnread' \in 0 .. Len(log) /\ lastUnread' >= lastUnread
    <3>1. read[Len(read)] \in 0 .. Len(log) - 1 /\ read[Len(read)] >= lastUnread
      BY <1>4, <2>1 DEF StoreInv
    <3> QED
      BY <1>0, <1>1, <3>1
  <2>3. MemStart' = MemStart
    BY <1>3, <1>6 DEF MemStart
  <2>5. MemoryInv'
    <3>1. lastUnread' # None
      BY <1>1, <2>2 DEF None
    <3>2. adding' # None => adding' = Len(log') - 1
      BY <1>3 DEF MemoryInv
    <3>3. \A i \in DOMAIN inMemQueue' : inMemQueue'[i] = MemStart' + i - 1
      BY <1>6, <2>3 DEF MemoryInv
    <3>4. seenStart' \in {None, startInMem'} /\ (startInMem' = None \/ startInMem' >= 0)
      BY <1>0, <1>3 DEF MemoryInv
    <3>5. startInMem' # None => startInMem' = MemStart' \/ MemStart' <= lastUnread'
      BY <1>0, <1>1, <1>2, <1>3, <2>2, <2>3 DEF MemoryInv
    <3>6. startInMem' = None => inMemQueue' = <<>>
      BY <1>3, <1>6 DEF MemoryInv
    <3>7. lastUnread' \in 0 .. Len(log')
      BY <2>2, <1>3
    <3> QED
      BY <3>1, <3>2, <3>3, <3>4, <3>5, <3>6, <3>7 DEF MemoryInv
  <2>6. ASSUME NEW o \in stored, NEW i \in 1 .. Len(read), lastUnread <= o, o < read[i]
        PROVE  \E j \in 1 .. i - 1 : read[j] = o
    <3>1. PICK k \in 1 .. Len(read) : read[k] = o
      BY <2>1, <2>6, <1>1
    <3>2. k # i /\ ~(i < k)
      <4>1. read[i] \in Int /\ o \in Int
        BY <2>1, <1>1
      <4> QED
        BY <4>1, <2>1, <2>6, <3>1
    <3>3. k \in 1 .. i - 1
      BY <3>2, <1>0
    <3> QED
      BY <3>1, <3>3
  <2>7. Reads(read)
    BY <1>0, <2>1, <2>6 DEF Reads
  <2>8. ToSet(inMemQueue') \subseteq stored
    BY <1>6 DEF StoreInv
  <2> QED
    BY <2>5, <2>7, <2>8
<1> QED
  BY <1>0, <1>5, <1>6

\* Where MatcherActor starts to consume the queue: after the oldest snapshot n of the books
\* it has created
StartsAt(n) ==
  /\ n \in Int /\ Covered(n) /\ n < MemStart
  /\ lastUnread' = n + 1
  /\ \A q \in journal : n <= snapshot[q].nr /\ collected'[q] = snapshot[q].nr
  /\ \A q \in Pair \ journal : collected'[q] = None
  /\ stored' \subseteq stored
  /\ \A o \in stored \ stored' : o <= n
  /\ lost' = lost \cup {o \in stored \ stored' : o > snapshot[PairOf(o)].nr}

\* The oldest snapshot of the books in the journal is where consuming starts.
LEMMA StartsAtIs ==
  ASSUME TypeOK, NumbersInv, CollectInv, PresenceInv, NEW p \in Pair, CollectedOne(p), StartsWorking
  PROVE  \E n : StartsAt(n)
<1>0. /\ collected \in [Pair -> Int] /\ updates[p][1] \in Int /\ stored \subseteq Int
      /\ snapshot \in [Pair -> SnapshotState] /\ status = "collecting"
      /\ collected' = [collected EXCEPT ![p] = updates[p][1]]
      /\ updates[p][1] # Terminated /\ 1 \in DOMAIN updates[p]
  BY DEF TypeOK, QueueTypes, ActorTypes, BookTypes, CollectedOne, Takes
<1>1. /\ \A q \in Pair : collected[q] \in {None, snapshot[q].nr} /\ (q \notin journal => collected[q] = None)
      /\ \A q \in Pair : orderBooks[q] = (IF q \in journal THEN "up" ELSE "none")
      /\ \A q \in Pair : snapshot[q].nr < MemStart
      /\ updates[p][1] = snapshot[p].nr
  BY <1>0 DEF CollectInv, CollectsFrom, Waiting
<1>2. \A q \in Pair : Covered(snapshot[q].nr) /\ snapshot[q].nr \in Int /\ snapshot[q].nr # None
  BY <1>0 DEF NumbersInv, NumbersOf, Covered, SnapshotState, None
<1>3. \A q \in Pair : collected'[q] \in {None, snapshot[q].nr}
  BY <1>0, <1>1
<1>4. ASSUME NEW q \in journal PROVE q \in Pair /\ collected'[q] = snapshot[q].nr
  <2>1. q \in Pair
    BY DEF TypeOK, BookTypes
  <2>2. collected'[q] # None
    BY <2>1, <1>1 DEF StartsWorking
  <2> QED
    BY <2>1, <2>2, <1>3
<1>5. PICK j : j \in journal
  BY <1>0 DEF CollectInv, CollectsFrom, Waiting
<1> DEFINE n == OldestOf(collected')
<1>6. /\ n \in Int /\ n >= -1
      /\ \E q \in Pair : collected'[q] # None /\ collected'[q] = n
      /\ \A q \in Pair : collected'[q] # None => n <= collected'[q]
  <2>1. collected' \in [Pair -> Int]
    BY <1>0
  <2>2. \A q \in Pair : collected'[q] # None => collected'[q] >= -1
    BY <1>2, <1>3 DEF Covered
  <2>3. j \in Pair /\ collected'[j] # None
    BY <1>2, <1>4, <1>5
  <2> QED
    BY ONLY <2>1, <2>2, <2>3, OldestIs
<1>7. /\ lastUnread' = n + 1
      /\ stored' = stored \ (IF CleanBeforeConsume THEN {o \in stored : o < n + 1} ELSE {})
      /\ lost' = lost \cup {o \in IF CleanBeforeConsume THEN {o \in stored : o < n + 1} ELSE {} :
                              o > snapshot[PairOf(o)].nr}
  BY DEF StartsWorking, StartConsume
<1> HIDE DEF n
<1>8. PICK q \in Pair : collected'[q] # None /\ collected'[q] = n
  BY <1>6
<1>9. n = snapshot[q].nr
  BY <1>3, <1>8
<1>10. Covered(n) /\ n < MemStart
  BY <1>9, <1>1, <1>2
<1>11. \A k \in journal : n <= snapshot[k].nr /\ collected'[k] = snapshot[k].nr
  BY <1>2, <1>4, <1>6
<1>12. \A k \in Pair \ journal : collected'[k] = None
  <2> SUFFICES ASSUME NEW k \in Pair \ journal PROVE collected'[k] = None
    OBVIOUS
  <2>1. CASE k = p
    <3>1. updates[p] = <<>>
      BY <2>1, <1>1 DEF PresenceInv, PresenceOf
    <3> QED
      BY <3>1, <1>0
  <2>2. CASE k # p
    BY <2>2, <1>0, <1>1
  <2> QED
    BY <2>1, <2>2
<1>13. /\ stored' \subseteq stored /\ \A o \in stored \ stored' : o <= n
       /\ lost' = lost \cup {o \in stored \ stored' : o > snapshot[PairOf(o)].nr}
  <2> DEFINE d == IF CleanBeforeConsume THEN {o \in stored : o < n + 1} ELSE {}
  <2>1. stored' = stored \ d /\ lost' = lost \cup {o \in d : o > snapshot[PairOf(o)].nr}
    BY <1>7
  <2>2. d \subseteq stored /\ \A o \in d : o <= n
    BY <1>0, <1>6
  <2>3. stored \ stored' = d
    BY <2>1, <2>2
  <2> HIDE DEF d
  <2> QED
    BY <2>1, <2>2, <2>3
<1> QED
  BY <1>6, <1>7, <1>10, <1>11, <1>12, <1>13 DEF StartsAt

----------------------------------------------------------------------------
(* The steps that leave the queue alone *)

SameQueue == UNCHANGED queueVars

\* Actors do not touch the queue.
LEMMA QueueLeftAlone ==
  ASSUME TypeOK, StoreInv,
         \/ HandleEvent \/ WriteJournal
         \/ \E p \in Pair : \/ HandleUpdated(p) \/ HandleTerminated(p) \/ BookRecovers(p)
                            \/ BookHandles(p) \/ WriteSnapshot(p) \/ SnapshotFails(p)
                            \/ BookFails(p)
  PROVE  SameQueue
<1>1. CASE HandleEvent
  BY <1>1 DEF HandleEvent, SameQueue
<1>2. CASE WriteJournal
  BY <1>2 DEF WriteJournal, SameQueue
<1>3. ASSUME NEW p \in Pair, HandleUpdated(p) PROVE SameQueue
  BY <1>3 DEF HandleUpdated, SameQueue
<1>4. ASSUME NEW p \in Pair, HandleTerminated(p) PROVE SameQueue
  BY <1>4 DEF HandleTerminated, SameQueue
<1>5. ASSUME NEW p \in Pair, BookRecovers(p) PROVE SameQueue
  BY <1>5 DEF BookRecovers, SameQueue
<1>6. ASSUME NEW p \in Pair, BookHandles(p) PROVE SameQueue
  BY <1>6 DEF BookHandles, SameQueue
<1>7. ASSUME NEW p \in Pair, WriteSnapshot(p) PROVE SameQueue
  BY <1>7 DEF WriteSnapshot, SameQueue
<1>8. ASSUME NEW p \in Pair, BookFails(p) PROVE SameQueue
  BY <1>8 DEF BookFails, SameQueue
<1>9. ASSUME NEW p \in Pair, SnapshotFails(p) PROVE SameQueue
  BY <1>9 DEF SnapshotFails, SameQueue
<1> QED
  BY <1>1, <1>2, <1>3, <1>4, <1>5, <1>6, <1>7, <1>8, <1>9

\* What the clients and the timer may add to the log, and how long it gets
LEMMA LogGrows ==
  ASSUME TypeOK, MatcherNext
  PROVE  /\ Len(log) \in Nat /\ Len(log') \in Nat /\ Len(log) <= Len(log')
         /\ \A o \in 0 .. Len(log) - 1 : PairOf(o)' = PairOf(o)
<1>0. log \in Seq(Pair) /\ Len(log) \in Nat
  BY DEF TypeOK, QueueTypes
<1>1. ASSUME NEW p \in Pair, StoreEvent(p)
      PROVE  /\ Len(log') \in Nat /\ Len(log) <= Len(log')
             /\ \A o \in 0 .. Len(log) - 1 : PairOf(o)' = PairOf(o)
  <2>1. log' = Append(log, p)
    BY <1>1 DEF StoreEvent
  <2>2. Longer(log, log', p)
    BY <1>0, <2>1, AppendIs
  <2> QED
    BY <1>0, <2>2 DEF Longer, PairOf
<1>2. ASSUME \A p \in Pair : ~StoreEvent(p)
      PROVE  log' = log
  <2>1. CASE \E p \in Pair : Collect(p)
    BY <2>1 DEF Collect
  <2>2. CASE AddToMemory
    BY <2>2 DEF AddToMemory
  <2>3. CASE Poll
    BY <2>3 DEF Poll
  <2>4. CASE Crash \/ ForcedStop
    BY <2>4 DEF Crash, ForcedStop, StartUp
  <2>5. CASE HandleEvent
    BY <2>5 DEF HandleEvent, queueVars
  <2>6. CASE WriteJournal
    BY <2>6 DEF WriteJournal, queueVars
  <2>7. CASE \E p \in Pair : \/ HandleUpdated(p) \/ HandleTerminated(p) \/ BookRecovers(p)
    BY <2>7 DEF HandleUpdated, HandleTerminated, BookRecovers, queueVars
  <2>8. CASE \E p \in Pair : BookHandles(p)
    BY <2>8 DEF BookHandles, queueVars
  <2>9. CASE \E p \in Pair : WriteSnapshot(p) \/ SnapshotFails(p) \/ BookFails(p)
    BY <2>9 DEF WriteSnapshot, SnapshotFails, BookFails, queueVars
  <2> QED
    BY <1>2, <2>1, <2>2, <2>3, <2>4, <2>5, <2>6, <2>7, <2>8, <2>9 DEF MatcherNext, MatcherStep
<1>3. CASE \E p \in Pair : StoreEvent(p)
  BY <1>0, <1>1, <1>3
<1>4. CASE \A p \in Pair : ~StoreEvent(p)
  <2>1. log' = log
    BY <1>2, <1>4
  <2> QED
    BY <1>0, <2>1 DEF PairOf
<1> QED
  BY <1>0, <1>3, <1>4

\* MemoryInv is preserved.
LEMMA MemoryStep ==
  ASSUME TypeOK, StoreInv, MemoryInv, NumbersInv, CollectInv, PresenceInv, MatcherNext
  PROVE  MemoryInv'
<1>0. /\ inMemQueue \in Seq(Int) /\ log \in Seq(Pair) /\ adding \in Int /\ lastUnread \in Int
      /\ Len(inMemQueue) \in Nat /\ Len(log) \in Nat /\ startInMem \in Int /\ stored \subseteq Int
      /\ MemStart \in Int
  BY DEF TypeOK, QueueTypes, MemStart, End
<1>1. ASSUME NEW p \in Pair, StoreEvent(p) PROVE MemoryInv'
  <2>1. /\ adding = None /\ adding' = Len(log)
        /\ UNCHANGED <<inMemQueue, startInMem, seenStart, lastUnread>> /\ log' = Append(log, p)
    BY <1>1 DEF StoreEvent
  <2>2. Len(log') = Len(log) + 1
    BY <1>0, <2>1
  <2>3. MemStart' = MemStart
    BY <1>0, <2>1, <2>2 DEF MemStart, End, None
  <2> QED
    BY <1>0, <2>1, <2>2, <2>3 DEF MemoryInv
<1>2. CASE AddToMemory
  <2>1. /\ adding # None /\ adding' = None /\ inMemQueue' = Append(inMemQueue, adding)
        /\ startInMem' = (IF startInMem = None THEN adding ELSE startInMem)
        /\ UNCHANGED <<log, seenStart, lastUnread>>
    BY <1>2 DEF AddToMemory
  <2>2. adding = Len(log) - 1 /\ adding >= 0
    BY <2>1, <1>0 DEF MemoryInv, StoreInv
  <2>3. Longer(inMemQueue, inMemQueue', adding)
    BY <1>0, <2>1, AppendIs
  <2>4. MemStart' = MemStart /\ MemStart = adding - Len(inMemQueue)
    <3>1. End = adding /\ End' = Len(log)
      BY <2>1 DEF End
    <3> QED
      BY <1>0, <2>2, <2>3, <3>1 DEF MemStart, Longer
  <2>5. \A i \in DOMAIN inMemQueue' : inMemQueue'[i] = MemStart + i - 1
    <3> SUFFICES ASSUME NEW i \in DOMAIN inMemQueue' PROVE inMemQueue'[i] = MemStart + i - 1
      OBVIOUS
    <3>1. i \in 1 .. Len(inMemQueue) + 1
      BY <2>3 DEF Longer
    <3>2. CASE i = Len(inMemQueue) + 1
      BY <2>3, <2>4, <3>2, <1>0 DEF Longer
    <3>3. CASE i \in 1 .. Len(inMemQueue)
      <4>1. inMemQueue'[i] = inMemQueue[i] /\ i \in DOMAIN inMemQueue
        BY <2>3, <3>3, <1>0 DEF Longer
      <4> QED
        BY <4>1 DEF MemoryInv
    <3> QED
      BY <3>1, <3>2, <3>3, <1>0
  <2>6. CASE startInMem = None
    <3>1. Len(inMemQueue) = 0
      BY <2>6 DEF MemoryInv
    <3>2. startInMem' = MemStart /\ startInMem' = adding
      BY <2>1, <2>4, <2>6, <3>1, <1>0
    <3> QED
      BY <1>0, <2>1, <2>2, <2>4, <2>5, <2>6, <3>2 DEF MemoryInv, None
  <2>7. CASE startInMem # None
    <3>1. startInMem' = startInMem
      BY <2>1, <2>7
    <3> QED
      BY <1>0, <2>1, <2>2, <2>4, <2>5, <2>7, <3>1 DEF MemoryInv
  <2> QED
    BY <2>6, <2>7
<1>3. CASE Poll
  BY <1>3, PollReads
<1>4. ASSUME NEW p \in Pair, Collect(p) PROVE MemoryInv'
  <2>1. CollectedOne(p) /\ (GoesOnWaiting \/ StartsWorking)
    BY <1>4, CollectIs
  <2>2. UNCHANGED <<log, adding, inMemQueue, startInMem, seenStart>> /\ status = "collecting"
    BY <2>1 DEF CollectedOne
  <2>3. MemStart' = MemStart
    BY <2>2 DEF MemStart, End
  <2>4. CASE GoesOnWaiting
    BY <2>2, <2>3, <2>4 DEF GoesOnWaiting, MemoryInv
  <2>5. CASE StartsWorking
    <3>1. PICK n : StartsAt(n)
      BY <2>1, <2>5, StartsAtIs
    <3>2. lastUnread' \in 0 .. Len(log) /\ lastUnread' # None
      BY <1>0, <3>1 DEF StartsAt, Covered, None
    <3>3. startInMem # None => startInMem = MemStart
      BY <2>2 DEF MemoryInv, CollectInv, CollectsFrom, Waiting
    <3> QED
      BY <2>2, <2>3, <3>2, <3>3 DEF MemoryInv
  <2> QED
    BY <2>1, <2>4, <2>5
<1>5. CASE Crash \/ ForcedStop
  <2>1. Started
    BY <1>5, RestartIs
  <2> QED
    BY <1>0, <2>1 DEF Started, MemoryInv, None
<1>6. ASSUME SameQueue PROVE MemoryInv'
  BY <1>6 DEF SameQueue, queueVars, MemoryInv, MemStart, End
<1> QED
  BY <1>1, <1>2, <1>3, <1>4, <1>5, <1>6, QueueLeftAlone DEF MatcherNext, MatcherStep

----------------------------------------------------------------------------
(* Which books are remembered *)

\* The elements of a sequence with one more
LEMMA Appended ==
  ASSUME NEW S, NEW s \in Seq(S), NEW t, NEW x \in S, Longer(s, t, x)
  PROVE  ToSet(t) = ToSet(s) \cup {x}
<1>1. Len(s) \in Nat /\ DOMAIN s = 1 .. Len(s) /\ DOMAIN t = 1 .. Len(s) + 1
  BY DEF Longer
<1>2. ASSUME NEW i \in DOMAIN s PROVE i \in DOMAIN t /\ t[i] = s[i]
  BY <1>1 DEF Longer
<1>3. Len(s) + 1 \in DOMAIN t /\ t[Len(s) + 1] = x
  BY <1>1 DEF Longer
<1>4. ASSUME NEW i \in DOMAIN t PROVE i \in DOMAIN s \/ i = Len(s) + 1
  BY <1>1
<1> QED
  BY <1>2, <1>3, <1>4 DEF ToSet

\* The elements of a sequence without its first
LEMMA Shortened ==
  ASSUME NEW S, NEW s \in Seq(S), NEW t, Shorter(s, t), s # <<>>
  PROVE  ToSet(s) = ToSet(t) \cup {s[1]}
<1>1. Len(s) \in Nat \ {0} /\ DOMAIN s = 1 .. Len(s) /\ DOMAIN t = 1 .. Len(s) - 1
  BY DEF Shorter
<1>2. ASSUME NEW i \in DOMAIN t PROVE i + 1 \in DOMAIN s /\ t[i] = s[i + 1]
  BY <1>1 DEF Shorter
<1>3. ASSUME NEW i \in DOMAIN s, i # 1 PROVE i - 1 \in DOMAIN t /\ t[i - 1] = s[i]
  <2>1. i - 1 \in DOMAIN t /\ (i - 1) + 1 = i
    BY <1>1, <1>3
  <2> QED
    BY <2>1, <1>2
<1>4. 1 \in DOMAIN s
  BY <1>1
<1> QED
  BY <1>2, <1>3, <1>4 DEF ToSet

\* No step forgets a book, and a book that gets an event is remembered.
LEMMA RememberedGrows ==
  ASSUME TypeOK, StoreInv, MatcherNext
  PROVE  Remembered \subseteq Remembered' /\ journal \subseteq journal' /\ orphans \subseteq orphans'
<1>0. toJournal \in Seq(Pair)
  BY DEF TypeOK, BookTypes
<1>1. CASE HandleEvent
  <2>1. EventTaken
    BY <1>1, HandleEventIs
  <2>2. ToSet(toJournal) \subseteq ToSet(toJournal')
    <3>1. CASE toJournal' = toJournal
      BY <3>1
    <3>2. ASSUME Created(PairOf(events[1]), events[1]) PROVE ToSet(toJournal) \subseteq ToSet(toJournal')
      <4>1. PairOf(events[1]) \in Pair /\ Longer(toJournal, toJournal', PairOf(events[1]))
        BY <2>1, <3>2 DEF EventTaken, Created
      <4>2. ToSet(toJournal') = ToSet(toJournal) \cup {PairOf(events[1])}
        BY ONLY <4>1, <1>0, Appended
      <4> QED
        BY <4>2
    <3> QED
      BY <1>1, <3>1, <3>2, HandleEventIs DEF PassedOn, Refused
  <2> QED
    BY <2>1, <2>2 DEF EventTaken, Remembered
<1>2. CASE WriteJournal
  <2>1. toJournal # <<>> /\ journal' = journal \cup {Head(toJournal)} /\ toJournal' = Tail(toJournal)
        /\ orphans' = orphans
    BY <1>2 DEF WriteJournal
  <2>2. Shorter(toJournal, toJournal') /\ Head(toJournal) = toJournal[1]
    BY <1>0, <2>1, TailIs
  <2>3. ToSet(toJournal) = ToSet(toJournal') \cup {toJournal[1]}
    BY ONLY <1>0, <2>1, <2>2, Shortened
  <2> QED
    BY <2>1, <2>2, <2>3 DEF Remembered
<1>3. CASE Crash \/ ForcedStop
  <2>1. Started
    BY <1>3, RestartIs
  <2> QED
    BY <2>1 DEF Started, Remembered
<1>4. ASSUME NEW p \in Pair, \/ StoreEvent(p) \/ HandleUpdated(p) \/ HandleTerminated(p) \/ Collect(p)
                             \/ BookRecovers(p) \/ BookHandles(p) \/ WriteSnapshot(p) \/ BookFails(p)
      PROVE  UNCHANGED <<toJournal, journal, orphans>>
  BY <1>4 DEF StoreEvent, HandleUpdated, HandleTerminated, Collect, BookRecovers, BookHandles,
              WriteSnapshot, BookFails, journalVars
<1>7. ASSUME NEW p \in Pair, SnapshotFails(p) PROVE UNCHANGED <<toJournal, journal, orphans>>
  BY <1>7 DEF SnapshotFails
<1>5. CASE AddToMemory \/ Poll
  BY <1>5 DEF AddToMemory, Poll, Remembered, journalVars
<1>6. CASE UNCHANGED <<toJournal, journal, orphans>>
  BY <1>6 DEF Remembered
<1> QED
  BY <1>1, <1>2, <1>3, <1>4, <1>5, <1>6, <1>7 DEF MatcherNext, MatcherStep

\* The pair of an event that is handled has had a book.
LEMMA HeadRemembered ==
  ASSUME TypeOK, StoreInv, JournalInv, HandleEvent
  PROVE  PairOf(events[1]) \in Remembered'
<1>1. EventTaken /\ PairOf(events[1]) \in Pair
  BY HandleEventIs DEF EventTaken
<1>2. Remembered \subseteq Remembered'
  BY RememberedGrows DEF MatcherNext, MatcherStep
<1>3. CASE orderBooks[PairOf(events[1])] # "none"
  BY <1>1, <1>2, <1>3 DEF JournalInv
<1>4. CASE Created(PairOf(events[1]), events[1])
  <2>1. Longer(toJournal, toJournal', PairOf(events[1])) /\ toJournal \in Seq(Pair)
    BY <1>4 DEF Created, TypeOK, BookTypes
  <2>2. ToSet(toJournal') = ToSet(toJournal) \cup {PairOf(events[1])}
    BY ONLY <1>1, <2>1, Appended
  <2> QED
    BY <2>2 DEF Remembered
<1> QED
  BY <1>3, <1>4, HandleEventIs DEF PassedOn, Refused

\* What is known stays known.
LEMMA KnownStays ==
  ASSUME TypeOK, StoreInv, MatcherNext, NEW o \in 0 .. Len(log) - 1, Known(o)
  PROVE  Known(o)'
BY RememberedGrows, LogGrows DEF Known

\* What is covered stays covered.
LEMMA CoveredStays ==
  ASSUME TypeOK, StoreInv, MatcherNext, NEW n \in Int, Covered(n)
  PROVE  Covered(n)'
<1>1. /\ Len(log) \in Nat /\ Len(log') \in Nat /\ Len(log) <= Len(log')
  BY LogGrows
<1>2. n >= -1 /\ n < Len(log) /\ \A o \in 0 .. n : Known(o)
  BY DEF Covered
<1>3. ASSUME NEW o \in 0 .. n PROVE Known(o)'
  BY <1>1, <1>2, KnownStays
<1> QED
  BY <1>1, <1>2, <1>3 DEF Covered

----------------------------------------------------------------------------
(* The snapshots on the disk *)

\* The number of a snapshot on the disk never falls.
LEMMA SnapshotGrows ==
  ASSUME TypeOK, StoreInv, NumbersInv, MatcherNext, NEW p \in Pair
  PROVE  snapshot[p].nr \in Int /\ snapshot'[p].nr \in Int /\ snapshot[p].nr <= snapshot'[p].nr
<1>0. snapshot \in [Pair -> SnapshotState] /\ snapshot[p].nr \in Int
  BY DEF TypeOK, BookTypes, SnapshotState
<1>1. ASSUME NEW q \in Pair, WriteSnapshot(q) PROVE snapshot'[p].nr \in Int /\ snapshot[p].nr <= snapshot'[p].nr
  <2>1. SnapshotWritten(q)
    BY <1>1, WriteSnapshotIs
  <2>2. CASE p = q
    <3>1. snapshot'[p] = writing[q][1] /\ writing[q][1] \in SnapshotState /\ 1 \in DOMAIN writing[q]
      BY <1>0, <2>1, <2>2 DEF SnapshotWritten
    <3>2. writing[q][1].nr > snapshot[q].nr
      BY <3>1 DEF NumbersInv, NumbersOf
    <3>3. writing[q][1].nr \in Int
      BY <3>1 DEF SnapshotState
    <3> QED
      BY <1>0, <2>2, <3>1, <3>2, <3>3
  <2>3. CASE p # q
    <3>1. snapshot'[p] = snapshot[p]
      BY <1>0, <2>1, <2>3 DEF SnapshotWritten
    <3> QED
      BY <1>0, <3>1
  <2> QED
    BY <2>2, <2>3
<1>2. CASE Crash \/ ForcedStop
  BY <1>0, <1>2 DEF Crash, ForcedStop, StartUp
<1>3. ASSUME NEW q \in Pair, \/ StoreEvent(q) \/ HandleUpdated(q) \/ HandleTerminated(q) \/ Collect(q)
                             \/ BookRecovers(q) \/ BookHandles(q) \/ SnapshotFails(q) \/ BookFails(q)
      PROVE  snapshot' = snapshot
  BY <1>3 DEF StoreEvent, HandleUpdated, HandleTerminated, Collect, BookRecovers, BookHandles,
              SnapshotFails, BookFails, bookVars
<1>4. CASE AddToMemory \/ Poll \/ HandleEvent \/ WriteJournal
  BY <1>0, <1>4 DEF AddToMemory, Poll, HandleEvent, WriteJournal, bookVars
<1>5. CASE snapshot' = snapshot
  BY <1>0, <1>5
<1> QED
  BY <1>0, <1>1, <1>2, <1>3, <1>4, <1>5 DEF MatcherNext, MatcherStep

----------------------------------------------------------------------------
(* The order of the events *)

\* Concatenation, index by index
LEMMA ConcatIs ==
  ASSUME NEW S, NEW s \in Seq(S), NEW t \in Seq(S)
  PROVE  /\ s \o t \in Seq(S) /\ Len(s \o t) = Len(s) + Len(t) /\ DOMAIN (s \o t) = 1 .. Len(s) + Len(t)
         /\ \A i \in 1 .. Len(s) : (s \o t)[i] = s[i]
         /\ \A i \in 1 .. Len(t) : (s \o t)[Len(s) + i] = t[i]
<1>1. /\ s \o t \in Seq(S)
      /\ Len(s \o t) = Len(s) + Len(t)
      /\ \A i \in 1 .. Len(s) + Len(t) :
           (s \o t)[i] = IF i <= Len(s) THEN s[i] ELSE t[i - Len(s)]
  BY ConcatProperties
<1>2. Len(s) \in Nat /\ Len(t) \in Nat
  OBVIOUS
<1>3. DOMAIN (s \o t) = 1 .. Len(s) + Len(t)
  BY <1>1
<1>4. ASSUME NEW i \in 1 .. Len(s) PROVE (s \o t)[i] = s[i]
  BY <1>1, <1>2
<1>5. ASSUME NEW i \in 1 .. Len(t) PROVE (s \o t)[Len(s) + i] = t[i]
  <2>1. Len(s) + i \in 1 .. Len(s) + Len(t) /\ ~(Len(s) + i <= Len(s)) /\ (Len(s) + i) - Len(s) = i
    BY <1>2
  <2> QED
    BY <1>1, <2>1
<1> QED
  BY <1>1, <1>3, <1>4, <1>5

\* A poll keeps the order.
LEMMA OrderPoll ==
  ASSUME TypeOK, StoreInv, MemoryInv, OrderInv, Poll
  PROVE  OrderInv'
<1>0. PICK read : Reads(read)
  BY PollReads
<1>1. /\ events \in Seq(Int) /\ read \in Seq(Int) /\ Len(read) \in Nat \ {0} /\ Len(events) \in Nat
      /\ stored \subseteq 0 .. Len(log) - 1 /\ Len(log) \in Nat /\ lastUnread \in Int /\ lastUnread # None
  BY <1>0 DEF Reads, TypeOK, QueueTypes, StoreInv
<1> DEFINE t == events \o read
           m == Len(events)
<1>2. /\ Len(t) = m + Len(read) /\ DOMAIN t = 1 .. m + Len(read)
      /\ \A i \in 1 .. m : t[i] = events[i]
      /\ \A i \in 1 .. Len(read) : t[m + i] = read[i]
  BY ONLY <1>1, ConcatIs
<1>3. events' = t /\ lastUnread' = read[Len(read)] + 1
  BY <1>0 DEF Reads
<1>4. ASSUME NEW o, Known(o) PROVE Known(o)'
  BY <1>0, <1>4 DEF Reads, Known, PairOf, Remembered, journalVars
<1> HIDE DEF t
<1>5. ASSUME NEW o, NEW n \in Nat, n <= m, Among(o, events, n) PROVE Among(o, t, n)
  <2>1. PICK j \in 1 .. n : events[j] = o
    BY <1>5 DEF Among
  <2>2. j \in 1 .. m
    BY <1>1, <1>5
  <2> QED
    BY <2>1, <2>2, <1>2 DEF Among
<1>6. ASSUME NEW k \in 1 .. Len(read), NEW o \in 0 .. read[k] - 1
      PROVE  Known(o) \/ Among(o, t, (m + k) - 1)
  <2>0. read[k] \in 0 .. Len(log) - 1 /\ o \in 0 .. Len(log) - 1
    <3>1. read[k] \in 0 .. Len(log) - 1
      BY <1>0, <1>1 DEF Reads
    <3> QED
      BY <1>1, <3>1
  <2>1. CASE o < lastUnread
    <3>1. o \in 0 .. lastUnread - 1
      BY <1>1, <2>0, <2>1
    <3>2. Known(o) \/ Among(o, events, m)
      BY <3>1, <1>1 DEF OrderInv
    <3>3. Among(o, t, m) => Among(o, t, (m + k) - 1)
      BY <1>1 DEF Among
    <3> QED
      BY <1>1, <1>5, <3>2, <3>3
  <2>2. CASE ~(o < lastUnread) /\ o \in stored
    <3>1. lastUnread <= o /\ o < read[k]
      BY <1>1, <2>0, <2>2
    <3>2. PICK j \in 1 .. k - 1 : read[j] = o
      BY <1>0, <2>2, <3>1 DEF Reads
    <3>3. j \in 1 .. Len(read) /\ m + j \in 1 .. (m + k) - 1
      BY <1>1, <3>2
    <3>4. t[m + j] = o
      BY <1>2, <3>2, <3>3
    <3> QED
      BY <3>3, <3>4 DEF Among
  <2>3. CASE o \notin stored
    BY <2>0, <2>3 DEF StoreInv
  <2> QED
    BY <2>1, <2>2, <2>3
<1>7. ASSUME NEW i \in DOMAIN t, NEW o \in 0 .. t[i] - 1
      PROVE  Known(o)' \/ Among(o, t, i - 1)
  <2>1. CASE i \in 1 .. m
    <3>1. t[i] = events[i] /\ i \in DOMAIN events
      BY <1>2, <2>1, <1>1
    <3>2. Known(o) \/ Among(o, events, i - 1)
      BY <3>1 DEF OrderInv
    <3>3. i - 1 \in Nat /\ i - 1 <= m
      BY <2>1, <1>1
    <3> QED
      BY <1>4, <1>5, <3>2, <3>3
  <2>2. CASE i \notin 1 .. m
    <3>1. i - m \in 1 .. Len(read) /\ m + (i - m) = i
      BY <1>1, <1>2, <2>2
    <3>2. t[i] = read[i - m]
      BY <1>2, <3>1
    <3>3. Known(o) \/ Among(o, t, (m + (i - m)) - 1)
      BY <3>1, <3>2, <1>6
    <3> QED
      BY <3>1, <3>3, <1>4
  <2> QED
    BY <2>1, <2>2
<1>8. ASSUME NEW o \in 0 .. lastUnread' - 1
      PROVE  Known(o)' \/ Among(o, t, Len(t))
  <2> DEFINE k == Len(read)
  <2>1. k \in 1 .. k /\ read[k] \in 0 .. Len(log) - 1
    <3>1. k \in 1 .. k
      BY <1>1
    <3>2. read[k] \in stored
      BY <3>1, <1>0 DEF Reads
    <3> QED
      BY <3>1, <3>2, <1>1
  <2>2. CASE o = read[k]
    <3>1. m + k \in 1 .. Len(t) /\ t[m + k] = o
      BY <1>1, <1>2, <2>1, <2>2
    <3> QED
      BY <3>1 DEF Among
  <2>3. CASE o # read[k]
    <3>1. o \in 0 .. read[k] - 1
      BY <1>3, <2>1, <2>3
    <3>2. Known(o) \/ Among(o, t, (m + k) - 1)
      BY <2>1, <3>1, <1>6
    <3>3. Among(o, t, (m + k) - 1) => Among(o, t, Len(t))
      BY <1>1, <1>2 DEF Among
    <3> QED
      BY <3>2, <3>3, <1>4
  <2> QED
    BY <2>2, <2>3
<1>9. OrderInv' = /\ \A i \in DOMAIN t : \A o \in 0 .. t[i] - 1 : Known(o)' \/ Among(o, t, i - 1)
                  /\ lastUnread' # None =>
                       \A o \in 0 .. lastUnread' - 1 : Known(o)' \/ Among(o, t, Len(t))
  BY <1>3 DEF OrderInv, Among
<1> QED
  BY <1>7, <1>8, <1>9

\* The events on their way are in the database.
LEMMA EventsStored ==
  ASSUME TypeOK, StoreInv
  PROVE  /\ events \in Seq(Int) /\ Len(events) \in Nat /\ Len(log) \in Nat
         /\ DOMAIN events = 1 .. Len(events)
         /\ \A i \in DOMAIN events : events[i] \in stored /\ events[i] \in 0 .. Len(log) - 1
<1>1. events \in Seq(Int) /\ log \in Seq(Pair)
  BY DEF TypeOK, QueueTypes
<1>2. ASSUME NEW i \in DOMAIN events PROVE events[i] \in stored
  BY DEF StoreInv, ToSet
<1>3. stored \subseteq 0 .. Len(log) - 1
  BY DEF StoreInv
<1> QED
  BY <1>1, <1>2, <1>3

\* OrderInv is preserved.
LEMMA OrderStep ==
  ASSUME TypeOK, StoreInv, MemoryInv, OrderInv, JournalInv, NumbersInv, CollectInv, PresenceInv, MatcherNext
  PROVE  OrderInv'
<1>0. events \in Seq(Int) /\ Len(events) \in Nat /\ Len(log) \in Nat
      /\ DOMAIN events = 1 .. Len(events)
      /\ \A i \in DOMAIN events : events[i] \in 0 .. Len(log) - 1
  BY EventsStored
<1>1. ASSUME NEW o \in 0 .. Len(log) - 1, Known(o) PROVE Known(o)'
  BY <1>1, KnownStays
<1>2. CASE UNCHANGED <<events, lastUnread>>
  <2>1. ASSUME NEW i \in DOMAIN events, NEW o \in 0 .. events[i] - 1
        PROVE  Known(o)' \/ Among(o, events, i - 1)
    <3>1. o \in 0 .. Len(log) - 1
      BY <1>0
    <3> QED
      BY <3>1, <1>1 DEF OrderInv
  <2>2. ASSUME lastUnread # None, NEW o \in 0 .. lastUnread - 1
        PROVE  Known(o)' \/ Among(o, events, Len(events))
    <3>1. lastUnread \in 0 .. Len(log)
      BY <2>2 DEF MemoryInv
    <3>2. o \in 0 .. Len(log) - 1
      BY <1>0, <3>1
    <3> QED
      BY <3>2, <2>2, <1>1 DEF OrderInv
  <2>3. OrderInv' = /\ \A i \in DOMAIN events : \A o \in 0 .. events[i] - 1 : Known(o)' \/ Among(o, events, i - 1)
                    /\ lastUnread # None =>
                         \A o \in 0 .. lastUnread - 1 : Known(o)' \/ Among(o, events, Len(events))
    BY <1>2 DEF OrderInv, Among
  <2> QED
    BY <2>1, <2>2, <2>3
<1>3. CASE Poll
  BY <1>3, OrderPoll
<1>4. CASE HandleEvent
  <2>1. /\ events # <<>> /\ 1 \in DOMAIN events /\ events' \in Seq(Int) /\ Shorter(events, events')
        /\ events[1] \in 0 .. Len(log) - 1 /\ UNCHANGED <<log, lastUnread>>
    BY <1>4, HandleEventIs DEF EventTaken, queueVars
  <2>2. ASSUME NEW o, o = events[1] PROVE Known(o)'
    <3>1. PairOf(o)' = PairOf(events[1])
      BY <2>1, <2>2 DEF PairOf
    <3> QED
      BY <3>1, <1>4, HeadRemembered DEF Known
  <2>3. ASSUME NEW n \in Nat, n <= Len(events), NEW o \in 0 .. Len(log) - 1, Known(o) \/ Among(o, events, n)
        PROVE  Known(o)' \/ Among(o, events', n - 1)
    <3>1. CASE Known(o)
      BY <3>1, <1>1
    <3>2. CASE Among(o, events, n)
      <4>1. PICK j \in 1 .. n : events[j] = o
        BY <3>2 DEF Among
      <4>2. CASE j = 1
        BY <2>2, <4>1, <4>2
      <4>3. CASE j # 1
        <5>1. j - 1 \in 1 .. n - 1 /\ j - 1 \in 1 .. Len(events) - 1 /\ (j - 1) + 1 = j
          BY <1>0, <2>3, <4>1, <4>3
        <5>2. events'[j - 1] = o
          BY <4>1, <5>1, <2>1 DEF Shorter
        <5> QED
          BY <5>1, <5>2 DEF Among
      <4> QED
        BY <4>2, <4>3
    <3> QED
      BY <2>3, <3>1, <3>2
  <2> DEFINE t == events'
  <2>4. ASSUME NEW i \in DOMAIN t, NEW o \in 0 .. t[i] - 1 PROVE Known(o)' \/ Among(o, t, i - 1)
    <3>1. i \in 1 .. Len(events) - 1 /\ i + 1 \in DOMAIN events /\ t[i] = events[i + 1]
      BY <1>0, <2>1 DEF Shorter
    <3>2. Known(o) \/ Among(o, events, (i + 1) - 1)
      BY <3>1 DEF OrderInv
    <3>3. i \in Nat /\ i <= Len(events) /\ (i + 1) - 1 = i /\ o \in 0 .. Len(log) - 1
      BY <1>0, <3>1
    <3> QED
      BY <2>3, <3>2, <3>3
  <2>5. ASSUME lastUnread # None, NEW o \in 0 .. lastUnread - 1 PROVE Known(o)' \/ Among(o, t, Len(t))
    <3>1. o \in 0 .. Len(log) - 1
      BY <1>0, <2>5 DEF MemoryInv
    <3>2. Known(o) \/ Among(o, events, Len(events))
      BY <2>5 DEF OrderInv
    <3>3. Len(t) = Len(events) - 1
      BY <2>1 DEF Shorter
    <3> QED
      BY <1>0, <2>3, <3>1, <3>2, <3>3
  <2>6. OrderInv' = /\ \A i \in DOMAIN t : \A o \in 0 .. t[i] - 1 : Known(o)' \/ Among(o, t, i - 1)
                    /\ lastUnread # None =>
                         \A o \in 0 .. lastUnread - 1 : Known(o)' \/ Among(o, t, Len(t))
    BY <2>1 DEF OrderInv, Among
  <2> HIDE DEF t
  <2> QED
    BY <2>4, <2>5, <2>6
<1>5. ASSUME NEW p \in Pair, Collect(p) PROVE OrderInv'
  <2>1. CollectedOne(p) /\ (GoesOnWaiting \/ StartsWorking)
    BY <1>5, CollectIs
  <2>2. events' = <<>> /\ events = <<>>
    BY <2>1 DEF CollectedOne, CollectInv, CollectsFrom, Waiting
  <2>3. CASE GoesOnWaiting
    BY <1>2, <2>1, <2>3 DEF CollectedOne, GoesOnWaiting
  <2>4. CASE StartsWorking
    <3>1. PICK n : StartsAt(n)
      BY <2>1, <2>4, StartsAtIs
    <3>2. ASSUME NEW o \in 0 .. lastUnread' - 1 PROVE Known(o)'
      <4>1. o \in 0 .. n /\ o \in 0 .. Len(log) - 1
        BY <1>0, <3>1 DEF StartsAt, Covered
      <4> QED
        BY <1>1, <3>1, <4>1 DEF StartsAt, Covered
    <3> QED
      BY <2>2, <3>2 DEF OrderInv
  <2> QED
    BY <2>1, <2>3, <2>4
<1>6. CASE Crash \/ ForcedStop
  <2>1. events' = <<>> /\ lastUnread' \in {None, 0}
    BY <1>6, RestartIs DEF Started
  <2> QED
    BY <2>1 DEF OrderInv
<1>7. ASSUME NEW p \in Pair, StoreEvent(p) PROVE UNCHANGED <<events, lastUnread>>
  BY <1>7 DEF StoreEvent
<1>8. CASE AddToMemory
  BY <1>2, <1>8 DEF AddToMemory
<1>9. CASE WriteJournal
  BY <1>2, <1>9 DEF WriteJournal, queueVars
<1>10. ASSUME NEW p \in Pair, \/ HandleUpdated(p) \/ HandleTerminated(p) \/ BookRecovers(p)
                              \/ BookHandles(p) \/ WriteSnapshot(p) \/ SnapshotFails(p) \/ BookFails(p)
       PROVE  UNCHANGED <<events, lastUnread>>
  BY <1>10 DEF HandleUpdated, HandleTerminated, BookRecovers, BookHandles, WriteSnapshot,
               SnapshotFails, BookFails, queueVars
<1> QED
  BY <1>2, <1>3, <1>4, <1>5, <1>6, <1>7, <1>8, <1>9, <1>10 DEF MatcherNext, MatcherStep

----------------------------------------------------------------------------
(* What has been deleted *)

\* The events that are not in the database any more, and the part of the snapshots in it
LEMMA GoneStays ==
  ASSUME TypeOK, StoreInv, NumbersInv, MatcherNext, lost \subseteq lost',
         NEW o \in 0 .. Len(log) - 1, o \notin stored
  PROVE  Known(o)' /\ (o \in lost' \/ o <= snapshot'[PairOf(o)].nr)
<1>1. Known(o) /\ (o \in lost \/ o <= snapshot[PairOf(o)].nr)
  BY DEF StoreInv
<1>2. PairOf(o) \in Pair /\ PairOf(o)' = PairOf(o)
  BY PairsKnown, LogGrows
<1>3. /\ snapshot[PairOf(o)].nr \in Int /\ snapshot'[PairOf(o)].nr \in Int
      /\ snapshot[PairOf(o)].nr <= snapshot'[PairOf(o)].nr
  BY <1>2, SnapshotGrows
<1>4. o \in Int
  BY LogGrows
<1> QED
  BY <1>1, <1>3, <1>4, KnownStays

\* StoreInv is preserved: only the start of consuming deletes, and only what the oldest
\* snapshot covers.
LEMMA StoreStep ==
  ASSUME TypeOK, StoreInv, MemoryInv, JournalInv, NumbersInv, CollectInv, PresenceInv, MatcherNext
  PROVE  StoreInv'
<1>0. /\ events \in Seq(Int) /\ inMemQueue \in Seq(Int) /\ log \in Seq(Pair) /\ Len(log) \in Nat
      /\ stored \subseteq 0 .. Len(log) - 1 /\ lost \subseteq 0 .. Len(log) - 1
      /\ stored \cap lost = {} /\ \A o \in lost : PairOf(o) \in orphans
      /\ ToSet(inMemQueue) \subseteq stored /\ ToSet(events) \subseteq stored
      /\ adding # None => adding \in stored
  BY DEF TypeOK, QueueTypes, StoreInv
<1>1. /\ Len(log) \in Nat /\ Len(log') \in Nat /\ Len(log) <= Len(log')
      /\ \A o \in 0 .. Len(log) - 1 : PairOf(o)' = PairOf(o)
      /\ orphans \subseteq orphans'
  BY LogGrows, RememberedGrows
\* what does not depend on the step, as long as nothing is dropped
<1>2. ASSUME lost' = lost PROVE \A o \in lost : PairOf(o)' \in orphans'
  BY <1>0, <1>1
<1>3. ASSUME lost' = lost, log' = log, stored' = stored
      PROVE  /\ stored' \subseteq 0 .. Len(log') - 1 /\ lost' \subseteq 0 .. Len(log') - 1
             /\ stored' \cap lost' = {} /\ \A o \in lost' : PairOf(o)' \in orphans'
             /\ \A o \in 0 .. Len(log') - 1 : o \notin stored' =>
                   Known(o)' /\ (o \in lost' \/ o <= snapshot'[PairOf(o)'].nr)
  <2>1. ASSUME NEW o \in 0 .. Len(log) - 1, o \notin stored
        PROVE  Known(o)' /\ (o \in lost' \/ o <= snapshot'[PairOf(o)'].nr)
    BY <1>1, <1>3, <2>1, GoneStays
  <2> QED
    BY <1>0, <1>1, <1>2, <1>3, <2>1
<1>4. ASSUME lost' = lost, log' = log, stored' = stored,
             ToSet(inMemQueue') \subseteq stored', ToSet(events') \subseteq stored',
             adding' # None => adding' \in stored'
      PROVE  StoreInv'
  BY <1>3, <1>4 DEF StoreInv
<1>5. ASSUME NEW p \in Pair, StoreEvent(p) PROVE StoreInv'
  <2>1. /\ log' = Append(log, p) /\ stored' = stored \cup {Len(log)} /\ adding' = Len(log)
        /\ UNCHANGED <<inMemQueue, events, lost>>
    BY <1>5 DEF StoreEvent
  <2>2. Len(log') = Len(log) + 1
    BY <1>0, <2>1
  <2>3. stored' \subseteq 0 .. Len(log') - 1 /\ lost' \subseteq 0 .. Len(log') - 1
    <3> DEFINE n == Len(log)
    <3>1. n \in Nat /\ stored \subseteq 0 .. n - 1 /\ lost \subseteq 0 .. n - 1
      BY <1>0
    <3>2. stored' = stored \cup {n} /\ Len(log') = n + 1 /\ lost' = lost
      BY <2>1, <2>2
    <3> HIDE DEF n
    <3>3. 0 .. n - 1 \subseteq 0 .. n /\ n \in 0 .. n /\ (n + 1) - 1 = n
      BY <3>1
    <3> QED
      BY <3>1, <3>2, <3>3
  <2>4. stored' \cap lost' = {}
    <3>1. Len(log) \notin lost
      BY <1>0
    <3> QED
      BY <1>0, <2>1, <3>1
  <2>5. ASSUME NEW o \in 0 .. Len(log') - 1, o \notin stored'
        PROVE  Known(o)' /\ (o \in lost' \/ o <= snapshot'[PairOf(o)'].nr)
    <3>1. o \in 0 .. Len(log) - 1 /\ o \notin stored
      BY <1>0, <2>1, <2>2, <2>5
    <3> QED
      BY <1>1, <2>1, <3>1, GoneStays
  <2>6. \A o \in lost' : PairOf(o)' \in orphans'
    BY <1>2, <2>1
  <2> QED
    BY <1>0, <2>1, <2>3, <2>4, <2>5, <2>6 DEF StoreInv
<1>6. CASE AddToMemory
  <2>1. /\ adding # None /\ inMemQueue' = Append(inMemQueue, adding) /\ adding' = None
        /\ UNCHANGED <<log, stored, lost, events>>
    BY <1>6 DEF AddToMemory
  <2>2. adding \in Int /\ Longer(inMemQueue, inMemQueue', adding)
    BY <1>0, <2>1, AppendIs DEF TypeOK, QueueTypes
  <2>3. ToSet(inMemQueue') = ToSet(inMemQueue) \cup {adding}
    <3>1. inMemQueue \in Seq(Int)
      BY <1>0
    <3> QED
      BY ONLY <3>1, <2>2, Appended
  <2> QED
    BY <1>0, <1>4, <2>1, <2>3
<1>7. CASE Poll
  <2>1. ToSet(inMemQueue') \subseteq stored /\ \E read : Reads(read)
    BY <1>7, PollReads
  <2>2. PICK read : Reads(read)
    BY <2>1
  <2>3. UNCHANGED <<log, stored, lost, adding>> /\ events' = events \o read
    BY <2>2 DEF Reads
  <2>4. ToSet(events') \subseteq stored
    <3>1. read \in Seq(Int) /\ \A i \in 1 .. Len(read) : read[i] \in stored
      BY <2>2 DEF Reads
    <3> DEFINE t == events \o read
    <3>2. /\ DOMAIN t = 1 .. Len(events) + Len(read)
          /\ \A i \in 1 .. Len(events) : t[i] = events[i]
          /\ \A i \in 1 .. Len(read) : t[Len(events) + i] = read[i]
      BY ONLY <1>0, <3>1, ConcatIs
    <3> HIDE DEF t
    <3>3. ASSUME NEW i \in DOMAIN t PROVE t[i] \in stored
      <4>0. Len(events) \in Nat /\ Len(read) \in Nat
        BY <1>0, <3>1
      <4>1. CASE i \in 1 .. Len(events)
        <5>1. i \in DOMAIN events /\ t[i] = events[i]
          BY <4>1, <1>0, <3>2
        <5> QED
          BY <5>1, EventsStored
      <4>2. CASE i \notin 1 .. Len(events)
        <5>1. i - Len(events) \in 1 .. Len(read) /\ Len(events) + (i - Len(events)) = i
          BY <4>0, <4>2, <3>2
        <5> QED
          BY <5>1, <3>1, <3>2
      <4> QED
        BY <4>1, <4>2
    <3> QED
      BY <2>3, <3>3 DEF ToSet, t
  <2> QED
    BY <1>0, <1>4, <2>1, <2>3, <2>4
<1>8. CASE HandleEvent
  <2>1. events # <<>> /\ Shorter(events, events') /\ UNCHANGED <<log, stored, lost, adding, inMemQueue>>
    BY <1>8, HandleEventIs DEF EventTaken, queueVars
  <2>2. ToSet(events) = ToSet(events') \cup {events[1]}
    BY ONLY <1>0, <2>1, Shortened
  <2> QED
    BY <1>0, <1>4, <2>1, <2>2
<1>9. ASSUME NEW p \in Pair, Collect(p) PROVE StoreInv'
  <2>1. CollectedOne(p) /\ (GoesOnWaiting \/ StartsWorking)
    BY <1>9, CollectIs
  <2>2. UNCHANGED <<log, adding, inMemQueue, events, snapshot, toJournal, journal, orphans>>
        /\ status = "collecting"
    BY <2>1 DEF CollectedOne, bookVars, journalVars
  <2>3. CASE GoesOnWaiting
    BY <1>0, <1>4, <2>2, <2>3 DEF GoesOnWaiting
  <2>4. CASE StartsWorking
    <3>1. PICK n : StartsAt(n)
      BY <2>1, <2>4, StartsAtIs
    <3>2. /\ n \in Int /\ n < MemStart /\ stored' \subseteq stored /\ \A o \in stored \ stored' : o <= n
          /\ lost' = lost \cup {o \in stored \ stored' : o > snapshot[PairOf(o)].nr}
          /\ Covered(n) /\ \A q \in journal : n <= snapshot[q].nr
      BY <3>1 DEF StartsAt
    <3>3. ASSUME NEW o \in stored, o >= MemStart PROVE o \in stored'
      <4>1. o \in Int /\ MemStart \in Int /\ ~(o <= n)
        BY <1>0, <3>2, <3>3 DEF MemStart, End, TypeOK, QueueTypes
      <4> QED
        BY <3>2, <4>1
    <3>4. ToSet(inMemQueue') \subseteq stored' /\ (adding' # None => adding' \in stored')
      <4>1. ASSUME NEW i \in DOMAIN inMemQueue PROVE inMemQueue[i] \in stored'
        <5>1. inMemQueue[i] \in stored /\ inMemQueue[i] = MemStart + i - 1 /\ i \in Nat \ {0}
          BY <1>0 DEF MemoryInv, ToSet
        <5>2. MemStart \in Int
          BY <1>0 DEF MemStart, End, TypeOK, QueueTypes
        <5> QED
          BY <3>3, <5>1, <5>2
      <4>2. ASSUME adding # None PROVE adding \in stored'
        <5>1. MemStart = adding - Len(inMemQueue) /\ Len(inMemQueue) \in Nat /\ adding \in Int
          BY <1>0, <4>2 DEF MemStart, End, TypeOK, QueueTypes
        <5> QED
          BY <1>0, <3>3, <4>2, <5>1
      <4> QED
        BY <2>2, <4>1, <4>2 DEF ToSet
    <3>5. ASSUME NEW o \in 0 .. Len(log) - 1, o \notin stored'
          PROVE  Known(o)' /\ (o \in lost' \/ o <= snapshot'[PairOf(o)].nr)
      <4>1. CASE o \in stored
        <5>1. o \in 0 .. n /\ n < Len(log)
          BY <1>0, <3>2, <3>5, <4>1 DEF Covered
        <5>2. Known(o)
          BY <5>1, <3>2 DEF Covered
        <5>3. Known(o)'
          BY <5>2, KnownStays
        <5>4. o \in lost' \/ ~(o > snapshot[PairOf(o)].nr)
          BY <3>2, <3>5, <4>1
        <5>5. snapshot[PairOf(o)].nr \in Int /\ o \in Int
          <6>1. PairOf(o) \in Pair
            BY PairsKnown
          <6> QED
            BY <1>0, <6>1, SnapshotGrows
        <5> QED
          BY <2>2, <5>3, <5>4, <5>5
      <4>2. CASE o \notin stored
        BY <3>2, <4>2, GoneStays
      <4> QED
        BY <4>1, <4>2
    <3>6. ASSUME NEW o \in lost' PROVE PairOf(o) \in orphans
      <4>1. CASE o \in lost
        BY <1>0, <4>1
      <4>2. CASE o \notin lost
        <5>1. o \in stored /\ o <= n /\ o > snapshot[PairOf(o)].nr /\ o \in 0 .. Len(log) - 1
          BY <1>0, <3>2, <4>2
        <5>2. PairOf(o) \in Pair /\ o \in 0 .. n
          BY <1>0, <3>2, <5>1, PairsKnown
        <5>3. PairOf(o) \notin journal
          <6>1. snapshot[PairOf(o)].nr \in Int
            BY <5>2, SnapshotGrows
          <6> QED
            BY <3>2, <5>1, <5>2, <6>1
        <5>4. PairOf(o) \in journal \cup ToSet(toJournal) \cup orphans
          BY <3>2, <5>2 DEF Covered, Known, Remembered
        <5>5. ToSet(toJournal) = {}
          BY <2>2 DEF CollectInv, CollectsFrom, Waiting, ToSet
        <5> QED
          BY <5>3, <5>4, <5>5
      <4> QED
        BY <4>1, <4>2
    <3>7. lost' \subseteq 0 .. Len(log) - 1 /\ stored' \subseteq 0 .. Len(log) - 1 /\ stored' \cap lost' = {}
      BY <1>0, <3>2
    <3>8. ToSet(events') \subseteq stored'
      BY <2>2 DEF CollectInv, CollectsFrom, Waiting, ToSet
    <3>9. \A o : PairOf(o)' = PairOf(o)
      BY <2>2 DEF PairOf
    <3> QED
      BY <2>2, <3>4, <3>5, <3>6, <3>7, <3>8, <3>9 DEF StoreInv
  <2> QED
    BY <2>1, <2>3, <2>4
<1>10. CASE Crash \/ ForcedStop
  <2>1. /\ inMemQueue' = <<>> /\ events' = <<>> /\ adding' = None
        /\ UNCHANGED <<log, stored, lost>>
    BY <1>10, RestartIs DEF Started
  <2>2. ToSet(inMemQueue') \subseteq stored' /\ ToSet(events') \subseteq stored'
    BY <2>1 DEF ToSet
  <2> QED
    BY <1>4, <2>1, <2>2
<1>11. CASE WriteJournal
  <2>1. UNCHANGED <<log, stored, lost, adding, inMemQueue, events>>
    BY <1>11 DEF WriteJournal, queueVars
  <2> QED
    BY <1>0, <1>4, <2>1
<1>12. ASSUME NEW p \in Pair, \/ HandleUpdated(p) \/ HandleTerminated(p) \/ BookRecovers(p)
                              \/ BookHandles(p) \/ WriteSnapshot(p) \/ SnapshotFails(p) \/ BookFails(p)
       PROVE  StoreInv'
  <2>1. UNCHANGED <<log, stored, lost, adding, inMemQueue, events>>
    BY <1>12 DEF HandleUpdated, HandleTerminated, BookRecovers, BookHandles, WriteSnapshot, SnapshotFails,
                 BookFails, queueVars
  <2> QED
    BY <1>0, <1>4, <2>1
<1> QED
  BY <1>5, <1>6, <1>7, <1>8, <1>9, <1>10, <1>11, <1>12 DEF MatcherNext, MatcherStep

----------------------------------------------------------------------------
(* The books of MatcherActor and its journal *)

\* JournalInv is preserved.
LEMMA JournalStep ==
  ASSUME TypeOK, StoreInv, JournalInv, NumbersInv, PresenceInv, MatcherNext
  PROVE  JournalInv'
<1>0. orderBooks \in [Pair -> {"none", "up", "failed"}] /\ toJournal \in Seq(Pair)
  BY DEF TypeOK, ActorTypes, BookTypes
<1>1. Remembered \subseteq Remembered'
  BY RememberedGrows
<1>2. CASE UNCHANGED <<orderBooks, snapshot, journal, toJournal, orphans>>
  BY <1>2 DEF JournalInv, Remembered
<1>3. CASE HandleEvent
  <2>1. EventTaken
    BY <1>3, HandleEventIs
  <2>2. CASE Created(PairOf(events[1]), events[1])
    <3> DEFINE p == PairOf(events[1])
    <3>1. /\ p \in Pair /\ orderBooks' = [orderBooks EXCEPT ![p] = "up"]
          /\ Longer(toJournal, toJournal', p) /\ UNCHANGED <<snapshot, journal, orphans>>
      BY <2>1, <2>2 DEF EventTaken, Created
    <3> HIDE DEF p
    <3>2. ToSet(toJournal') = ToSet(toJournal) \cup {p}
      BY ONLY <1>0, <3>1, Appended
    <3>3. ASSUME NEW q \in Pair
          PROVE  /\ orderBooks'[q] # "none" => q \in Remembered'
                 /\ q \in journal' \cup ToSet(toJournal') => orderBooks'[q] # "none"
                 /\ q \notin Remembered' => snapshot'[q] = EmptySnapshot
      BY <1>0, <3>1, <3>2 DEF JournalInv, Remembered
    <3> QED
      BY <3>3 DEF JournalInv
  <2>3. CASE UNCHANGED <<orderBooks, toJournal>>
    BY <1>2, <2>1, <2>3 DEF EventTaken
  <2> QED
    BY <1>3, <2>2, <2>3, HandleEventIs DEF PassedOn, Refused
<1>4. ASSUME NEW p \in Pair, HandleTerminated(p) PROVE JournalInv'
  <2>1. updates[p] # <<>> /\ orderBooks' = [orderBooks EXCEPT ![p] = "failed"]
        /\ UNCHANGED <<snapshot, journal, toJournal, orphans>>
    BY <1>4 DEF HandleTerminated, bookVars, journalVars
  <2>2. orderBooks[p] # "none"
    BY <2>1 DEF PresenceInv, PresenceOf
  <2> QED
    BY <1>0, <2>1, <2>2 DEF JournalInv, Remembered
<1>5. CASE WriteJournal
  <2>1. toJournal # <<>> /\ journal' = journal \cup {Head(toJournal)} /\ toJournal' = Tail(toJournal)
        /\ UNCHANGED <<orphans, orderBooks, snapshot>>
    BY <1>5 DEF WriteJournal, actorVars, bookVars
  <2>2. Shorter(toJournal, toJournal') /\ Head(toJournal) = toJournal[1]
    BY <1>0, <2>1, TailIs
  <2>3. ToSet(toJournal) = ToSet(toJournal') \cup {toJournal[1]}
    BY ONLY <1>0, <2>1, <2>2, Shortened
  <2>4. journal' \cup ToSet(toJournal') = journal \cup ToSet(toJournal) /\ Remembered' = Remembered
    BY <2>1, <2>2, <2>3 DEF Remembered
  <2> QED
    BY <2>1, <2>4 DEF JournalInv
<1>6. ASSUME NEW p \in Pair, WriteSnapshot(p) PROVE JournalInv'
  <2>1. SnapshotWritten(p) /\ UNCHANGED <<journal, toJournal, orphans, orderBooks>>
    BY <1>6, WriteSnapshotIs DEF WriteSnapshot, actorVars, journalVars
  <2>2. p \in Remembered
    BY <2>1 DEF SnapshotWritten, PresenceInv, PresenceOf, JournalInv
  <2>3. \A q \in Pair \ {p} : snapshot'[q] = snapshot[q]
    BY <2>1 DEF SnapshotWritten, TypeOK, BookTypes
  <2> QED
    BY <2>1, <2>2, <2>3 DEF JournalInv, Remembered
<1>7. CASE Crash \/ ForcedStop
  <2>1. Started
    BY <1>7, RestartIs
  <2>2. ToSet(toJournal') = {} /\ journal' = journal /\ snapshot' = snapshot
        /\ orphans' = orphans \cup ToSet(toJournal)
    BY <2>1 DEF Started, ToSet
  <2>3. ASSUME NEW q \in Pair
        PROVE  /\ orderBooks'[q] # "none" => q \in Remembered'
               /\ q \in journal' \cup ToSet(toJournal') => orderBooks'[q] # "none"
               /\ q \notin Remembered' => snapshot'[q] = EmptySnapshot
    BY <2>1, <2>2 DEF Started, JournalInv, Remembered
  <2> QED
    BY <2>3 DEF JournalInv
<1>8. ASSUME NEW p \in Pair, \/ StoreEvent(p) \/ HandleUpdated(p) \/ Collect(p) \/ BookRecovers(p)
                             \/ BookHandles(p) \/ SnapshotFails(p) \/ BookFails(p)
      PROVE  UNCHANGED <<orderBooks, snapshot, journal, toJournal, orphans>>
  BY <1>8 DEF StoreEvent, HandleUpdated, Collect, BookRecovers, BookHandles, SnapshotFails, BookFails,
              actorVars, bookVars, journalVars
<1>9. CASE AddToMemory \/ Poll
  BY <1>2, <1>9 DEF AddToMemory, Poll, actorVars, bookVars, journalVars
<1> QED
  BY <1>2, <1>3, <1>4, <1>5, <1>6, <1>7, <1>8, <1>9 DEF MatcherNext, MatcherStep

----------------------------------------------------------------------------
(* What HandleEvent does to one book *)

Mailbox(r) == r.mailbox \in Seq(Message) /\ Len(r.mailbox) \in Nat /\ DOMAIN r.mailbox = 1 .. Len(r.mailbox)

\* A mailbox is a sequence of messages.
LEMMA MailboxIs ==
  ASSUME NEW r \in BookState
  PROVE  Mailbox(r)
BY DEF BookState, Mailbox

\* A message in a mailbox was there before or has been sent.
LEMMA Posted ==
  ASSUME NEW r \in BookState, NEW t, NEW m, Posts(r, t, m), NEW i \in DOMAIN t.mailbox
  PROVE  \/ i \in DOMAIN r.mailbox /\ t.mailbox[i] = r.mailbox[i]
         \/ r.state # "off" /\ i = Len(r.mailbox) + 1 /\ t.mailbox[i] = m
<1>1. Mailbox(r)
  BY MailboxIs
<1>2. CASE r.state = "off"
  BY <1>2 DEF Posts
<1>3. CASE r.state # "off"
  <2>1. Longer(r.mailbox, t.mailbox, m)
    BY <1>3 DEF Posts
  <2>2. i \in 1 .. Len(r.mailbox) \/ i = Len(r.mailbox) + 1
    BY <1>1, <2>1 DEF Mailbox, Longer
  <2> QED
    BY <1>1, <1>3, <2>1, <2>2 DEF Mailbox, Longer
<1> QED
  BY <1>2, <1>3

\* The answer to a snapshot that could not be written
FailureAt(n) == [type |-> "failed", nr |-> n]

\* A book has one snapshot on its way at most.
LEMMA FailedIs ==
  ASSUME TypeOK, PresenceInv, NEW p \in Pair, SnapshotFails(p)
  PROVE  /\ SnapshotFailed(p) /\ writing[p] # <<>> /\ writing'[p] = <<>>
         /\ \E n \in Int : Posts(book[p], book'[p], FailureAt(n))
<1>1. SnapshotFailed(p)
  BY SnapshotFailsIs
<1>2. /\ writing[p] \in Seq(SnapshotState) /\ Len(writing[p]) <= 1 /\ writing'[p] \in Seq(SnapshotState)
  BY <1>1 DEF TypeOK, BookTypes, PresenceInv, PresenceOf, SnapshotFailed
<1>3. writing'[p] = <<>>
  BY <1>1, <1>2 DEF SnapshotFailed, Shorter
<1>4. CASE book[p].state = "off"
  BY <1>1, <1>3, <1>4 DEF SnapshotFailed, Posts
<1>5. CASE book[p].state # "off"
  BY <1>1, <1>3, <1>5 DEF SnapshotFailed, Posts, FailureAt
<1> QED
  BY <1>4, <1>5

\* The book q before the event o is sent to it
Before(q, o) == IF q = PairOf(o) /\ orderBooks[q] = "none" THEN StartingBook ELSE book[q]

\* The book q is told to save at the event o.
Told(q, o) == orderBooks[PairOf(o)] = "up" /\ IsTold(q, o)

\* The book q gets the event o if it is of its pair, which makes it s, and then is told to save.
Gets(q, o, s) ==
  /\ s \in BookState
  /\ IF q = PairOf(o) THEN Posts(Before(q, o), s, EventAt(o)) ELSE s = book[q]
  /\ IF Told(q, o) THEN Posts(s, book'[q], SaveAt(o)) ELSE book'[q] = s
  /\ (q \in misnumbered' <=> q \in misnumbered \/ (Told(q, o) /\ IsAhead(s, o)))

\* What handling an event does to one book
LEMMA HandledIs ==
  ASSUME TypeOK, StoreInv, PresenceInv, HandleEvent, NEW q \in Pair
  PROVE  /\ \E s : Gets(q, events[1], s)
         /\ book'[q] \in BookState
         /\ orderBooks'[q] = (IF q = PairOf(events[1]) /\ orderBooks[q] = "none" THEN "up" ELSE orderBooks[q])
         /\ nearest' = (IF orderBooks[PairOf(events[1])] = "up" THEN nearest \ RequiredSnapshots(events[1])
                                                               ELSE nearest)
<1> DEFINE o == events[1]
           p == PairOf(o)
<1>0. /\ book \in [Pair -> BookState] /\ book' \in [Pair -> BookState]
      /\ orderBooks \in [Pair -> {"none", "up", "failed"}] /\ p \in Pair
      /\ \/ \E sent : PassedOn(p, o, sent)
         \/ Refused(p)
         \/ Created(p, o)
      /\ misnumbered \subseteq Pair
  BY HandleEventIs DEF TypeOK, BookTypes, ActorTypes, EventTaken
<1>1. StartingBook \in BookState /\ StartingBook.state # "off"
  BY StartingIs
<1>2. Before(q, o) \in BookState
  BY <1>0, <1>1 DEF Before
<1>3. CASE \E sent : PassedOn(p, o, sent)
  <2>1. PICK sent : PassedOn(p, o, sent)
    BY <1>3
  <2>2. orderBooks[p] = "up" /\ nearest' = nearest \ RequiredSnapshots(o) /\ orderBooks' = orderBooks
    BY <2>1 DEF PassedOn
  <2>3. sent[q] \in BookState
    BY <2>1 DEF PassedOn
  <2>4. IF q = p THEN Posts(Before(q, o), sent[q], EventAt(o)) ELSE sent[q] = book[q]
    BY <2>1, <2>2 DEF PassedOn, Before
  <2>5. Told(q, o) <=> IsTold(q, o)
    BY <2>2 DEF Told
  <2>6. IF IsTold(q, o) THEN Posts(sent[q], book'[q], SaveAt(o)) ELSE book'[q] = sent[q]
    BY <2>1 DEF PassedOn
  <2>7. q \in misnumbered' <=> q \in misnumbered \/ (IsTold(q, o) /\ IsAhead(sent[q], o))
    BY <2>1 DEF PassedOn
  <2>8. Gets(q, o, sent[q])
    BY <2>3, <2>4, <2>5, <2>6, <2>7 DEF Gets
  <2> QED
    BY <1>0, <2>2, <2>8
<1>4. CASE Refused(p)
  <2>1. /\ orderBooks[p] = "failed" /\ UNCHANGED <<orderBooks, nearest, book, misnumbered>>
    BY <1>4 DEF Refused
  <2>2. ~Told(q, o)
    BY <2>1 DEF Told
  <2>3. q = p => Posts(book[q], book[q], EventAt(o)) /\ Before(q, o) = book[q]
    <3>1. book[p].state = "off"
      BY <1>0, <2>1 DEF PresenceInv, PresenceOf
    <3> QED
      BY <2>1, <3>1 DEF Posts, SameBut, Before
  <2>4. Gets(q, o, book[q])
    BY <1>0, <2>1, <2>2, <2>3 DEF Gets
  <2> QED
    BY <1>0, <2>1, <2>4
<1>5. CASE Created(p, o)
  <2>1. /\ orderBooks[p] = "none" /\ orderBooks' = [orderBooks EXCEPT ![p] = "up"]
        /\ OneBook(p) /\ Posts(StartingBook, book'[p], EventAt(o)) /\ UNCHANGED <<nearest, misnumbered>>
    BY <1>5 DEF Created
  <2>2. ~Told(q, o)
    BY <2>1 DEF Told
  <2>3. IF q = p THEN Posts(Before(q, o), book'[q], EventAt(o)) ELSE book'[q] = book[q]
    BY <1>0, <2>1 DEF OneBook, Before
  <2>4. Gets(q, o, book'[q])
    BY <1>0, <2>1, <2>2, <2>3 DEF Gets
  <2> QED
    BY <1>0, <2>1, <2>4
<1> QED
  BY <1>0, <1>3, <1>4, <1>5

\* The event at the head and everything before it has been seen, once it is handled.
LEMMA HeadCovered ==
  ASSUME TypeOK, StoreInv, OrderInv, JournalInv, HandleEvent, NEW o, o = events[1]
  PROVE  o \in Int /\ Covered(o)'
<1>1. events # <<>> /\ 1 \in DOMAIN events /\ events[1] \in 0 .. Len(log) - 1 /\ UNCHANGED log
  BY HandleEventIs DEF EventTaken, queueVars
<1>2. MatcherNext
  BY DEF MatcherNext, MatcherStep
<1>3. ASSUME NEW k \in 0 .. o PROVE Known(k)'
  <2>1. CASE k = o
    <3>1. PairOf(k)' = PairOf(events[1])
      BY <1>1, <2>1 DEF PairOf
    <3> QED
      BY <3>1, HeadRemembered DEF Known
  <2>2. CASE k # o
    <3>1. k \in 0 .. events[1] - 1 /\ k \in 0 .. Len(log) - 1 /\ Len(log) \in Nat
      BY <1>1, <2>2, EventsStored
    <3>2. ~Among(k, events, 1 - 1)
      BY DEF Among
    <3>3. Known(k)
      BY <1>1, <3>1, <3>2 DEF OrderInv
    <3> QED
      BY <1>2, <3>1, <3>3, KnownStays
  <2> QED
    BY <2>1, <2>2
<1> QED
  BY <1>1, <1>3 DEF Covered

----------------------------------------------------------------------------
(* The numbers of the snapshots *)

\* The invariant, pair by pair
LEMMA NumbersIs == NumbersInv <=> \A p \in Pair : NumbersOf(p)
BY DEF NumbersInv

\* The pair's numbers, and that they are numbers
LEMMA NumbersTyped ==
  ASSUME TypeOK, NEW p \in Pair
  PROVE  /\ snapshot[p] \in SnapshotState /\ snapshot[p].nr \in Int
         /\ writing[p] \in Seq(SnapshotState) /\ Len(writing[p]) \in Nat /\ DOMAIN writing[p] = 1 .. Len(writing[p])
         /\ \A i \in DOMAIN writing[p] : writing[p][i] \in SnapshotState /\ writing[p][i].nr \in Int
         /\ book[p] \in BookState /\ Mailbox(book[p])
         /\ \A i \in DOMAIN book[p].mailbox : book[p].mailbox[i] \in Message /\ book[p].mailbox[i].nr \in Int
<1>1. /\ snapshot[p] \in SnapshotState /\ writing[p] \in Seq(SnapshotState) /\ book[p] \in BookState
  BY DEF TypeOK, BookTypes
<1>2. Mailbox(book[p])
  BY <1>1, MailboxIs
<1>3. ASSUME NEW S, NEW s \in Seq(S), NEW i \in DOMAIN s PROVE s[i] \in S
  OBVIOUS
<1>4. ASSUME NEW i \in DOMAIN writing[p] PROVE writing[p][i] \in SnapshotState /\ writing[p][i].nr \in Int
  <2>1. writing[p][i] \in SnapshotState
    BY ONLY <1>1, <1>3, <1>4
  <2> QED
    BY <2>1 DEF SnapshotState
<1>5. ASSUME NEW i \in DOMAIN book[p].mailbox PROVE book[p].mailbox[i] \in Message /\ book[p].mailbox[i].nr \in Int
  <2>1. book[p].mailbox \in Seq(Message)
    BY <1>2 DEF Mailbox
  <2>2. book[p].mailbox[i] \in Message
    BY ONLY <2>1, <1>3, <1>5
  <2> QED
    BY <2>2 DEF Message
<1>6. snapshot[p].nr \in Int
  BY <1>1 DEF SnapshotState
<1> QED
  BY <1>1, <1>2, <1>4, <1>5, <1>6

\* Everything up to n has been seen when the step is done.
CoveredNext(n) == n >= -1 /\ n < Len(log') /\ \A o \in 0 .. n : Known(o)'

\* NumbersOf in the next state, in a form without nested primes
LEMMA NumbersNext ==
  ASSUME NEW p,
         CoveredNext(snapshot'[p].nr),
         \A i \in DOMAIN writing'[p] : CoveredNext(writing'[p][i].nr) /\ writing'[p][i].nr > snapshot'[p].nr,
         \A i \in DOMAIN book'[p].mailbox :
           book'[p].mailbox[i].type = "save" => CoveredNext(book'[p].mailbox[i].nr)
  PROVE  NumbersOf(p)'
BY DEF NumbersOf, Covered, CoveredNext

\* The messages that stay or are new
LEMMA NumbersKept ==
  ASSUME TypeOK, StoreInv, NumbersInv, MatcherNext, NEW q \in Pair,
         snapshot'[q] = snapshot[q], writing'[q] = writing[q] \/ writing'[q] = <<>>,
         \A i \in DOMAIN book'[q].mailbox : book'[q].mailbox[i].type = "save" =>
           \/ \E j \in DOMAIN book[q].mailbox : book'[q].mailbox[i] = book[q].mailbox[j]
           \/ CoveredNext(book'[q].mailbox[i].nr)
  PROVE  NumbersOf(q)'
<1>0. ASSUME NEW n \in Int, Covered(n) PROVE CoveredNext(n)
  BY <1>0, CoveredStays DEF CoveredNext, Covered
<1>1. NumbersOf(q)
  BY NumbersIs
<1>2. CoveredNext(snapshot'[q].nr)
  BY <1>0, <1>1, NumbersTyped DEF NumbersOf
<1>3. ASSUME NEW i \in DOMAIN writing'[q]
      PROVE  CoveredNext(writing'[q][i].nr) /\ writing'[q][i].nr > snapshot'[q].nr
  <2>1. writing'[q] = writing[q] /\ i \in DOMAIN writing[q]
    BY <1>3
  <2> QED
    BY <1>0, <1>1, <2>1, NumbersTyped DEF NumbersOf
<1>4. ASSUME NEW i \in DOMAIN book'[q].mailbox, book'[q].mailbox[i].type = "save"
      PROVE  CoveredNext(book'[q].mailbox[i].nr)
  <2>1. CASE \E j \in DOMAIN book[q].mailbox : book'[q].mailbox[i] = book[q].mailbox[j]
    <3>1. PICK j \in DOMAIN book[q].mailbox : book'[q].mailbox[i] = book[q].mailbox[j]
      BY <2>1
    <3>2. book[q].mailbox[j].nr \in Int /\ Covered(book[q].mailbox[j].nr)
      BY <1>1, <1>4, <3>1, NumbersTyped DEF NumbersOf
    <3> QED
      BY <1>0, <3>1, <3>2
  <2> QED
    BY <1>4, <2>1
<1> QED
  BY <1>2, <1>3, <1>4, NumbersNext

\* NumbersInv is preserved.
LEMMA NumbersStep ==
  ASSUME TypeOK, StoreInv, OrderInv, JournalInv, NumbersInv, PresenceInv, MatcherNext
  PROVE  NumbersInv'
<1>0. ASSUME NEW n \in Int, Covered(n) PROVE CoveredNext(n)
  BY <1>0, CoveredStays DEF CoveredNext, Covered
<1>a. ASSUME NEW q \in Pair, UNCHANGED <<snapshot[q], writing[q], book[q]>> PROVE NumbersOf(q)'
  BY <1>a, NumbersKept
<1>1. CASE HandleEvent
  <2>1. UNCHANGED <<snapshot, writing>>
    BY <1>1, HandleEventIs DEF EventTaken
  <2>2. ASSUME NEW q \in Pair PROVE NumbersOf(q)'
    <3>1. PICK s : Gets(q, events[1], s)
      BY <1>1, HandledIs
    <3>2. s \in BookState /\ Before(q, events[1]) \in BookState /\ book[q] \in BookState
      BY <3>1, NumbersTyped, StartingIs DEF Gets, Before
    <3>3. CoveredNext(events[1])
      BY <1>1, HeadCovered DEF CoveredNext, Covered
    <3>4. ASSUME NEW i \in DOMAIN s.mailbox, s.mailbox[i].type = "save"
          PROVE  \E j \in DOMAIN book[q].mailbox : s.mailbox[i] = book[q].mailbox[j]
      <4>1. CASE q = PairOf(events[1])
        <5>1. Posts(Before(q, events[1]), s, EventAt(events[1]))
          BY <3>1, <4>1 DEF Gets
        <5>2. s.mailbox[i] # EventAt(events[1])
          BY <3>4 DEF EventAt
        <5>3. i \in DOMAIN Before(q, events[1]).mailbox /\ s.mailbox[i] = Before(q, events[1]).mailbox[i]
          BY <3>2, <5>1, <5>2, Posted
        <5>4. Before(q, events[1]) # StartingBook
          BY <5>3, StartingIs
        <5> QED
          BY <5>3, <5>4 DEF Before
      <4>2. CASE q # PairOf(events[1])
        BY <3>1, <4>2 DEF Gets
      <4> QED
        BY <4>1, <4>2
    <3>5. ASSUME NEW i \in DOMAIN book'[q].mailbox, book'[q].mailbox[i].type = "save"
          PROVE  \/ \E j \in DOMAIN book[q].mailbox : book'[q].mailbox[i] = book[q].mailbox[j]
                 \/ CoveredNext(book'[q].mailbox[i].nr)
      <4>1. CASE Told(q, events[1])
        <5>1. Posts(s, book'[q], SaveAt(events[1]))
          BY <3>1, <4>1 DEF Gets
        <5>2. \/ i \in DOMAIN s.mailbox /\ book'[q].mailbox[i] = s.mailbox[i]
              \/ book'[q].mailbox[i] = SaveAt(events[1])
          BY <3>2, <5>1, Posted
        <5> QED
          BY <3>3, <3>4, <3>5, <5>2 DEF SaveAt
      <4>2. CASE ~Told(q, events[1])
        BY <3>1, <3>4, <3>5, <4>2 DEF Gets
      <4> QED
        BY <4>1, <4>2
    <3> QED
      BY <2>1, <3>5, NumbersKept
  <2> QED
    BY <2>2, NumbersIs DEF NumbersInv, NumbersOf
<1>2. ASSUME NEW p \in Pair, BookRecovers(p) PROVE NumbersInv'
  <2>1. BookRecovered(p) /\ UNCHANGED <<snapshot, writing>>
    BY <1>2, BookRecoversIs DEF BookRecovers
  <2>2. ASSUME NEW q \in Pair PROVE NumbersOf(q)'
    <3>1. book'[q].mailbox = book[q].mailbox
      BY <2>1 DEF BookRecovered, OneBook
    <3> QED
      BY <2>1, <3>1, NumbersKept
  <2> QED
    BY <2>2 DEF NumbersInv, NumbersOf
<1>3. ASSUME NEW p \in Pair, BookHandles(p) PROVE NumbersInv'
  <2>1. OneMessage(p) /\ (EventHandled(p) \/ SaveHandled(p) \/ SavedHandled(p) \/ FailureHandled(p))
        /\ UNCHANGED snapshot
    BY <1>3, BookHandlesIs DEF BookHandles
  <2>2. ASSUME NEW q \in Pair PROVE NumbersOf(q)'
    <3>0. book[q] \in BookState /\ Mailbox(book[q]) /\ NumbersOf(q)
      BY NumbersTyped, NumbersIs
    <3>1. CASE q # p
      <4>1. book'[q] = book[q] /\ writing'[q] = writing[q]
        BY <2>1, <3>1 DEF OneMessage, OneBook, EventHandled, SaveHandled, SavedHandled,
                                  FailureHandled
      <4> QED
        BY <1>a, <2>1, <4>1
    <3>2. CASE q = p
      <4>1. ASSUME NEW i \in DOMAIN book'[q].mailbox
            PROVE  i + 1 \in DOMAIN book[q].mailbox /\ book'[q].mailbox[i] = book[q].mailbox[i + 1]
        <5>1. Shorter(book[q].mailbox, book'[q].mailbox)
          BY <2>1, <3>2 DEF OneMessage
        <5> QED
          BY <3>0, <5>1 DEF Shorter, Mailbox
      <4>2. CASE writing' = writing
        BY <2>1, <4>1, <4>2, NumbersKept
      <4>3. CASE writing' # writing
        <5>1. /\ SaveHandled(p) /\ book[p].saving = None /\ book[p].lastSaved < FirstOf(p).nr
              /\ FirstOf(p).type = "save"
              /\ Longer(writing[p], writing'[p], [nr |-> FirstOf(p).nr, applied |-> book[p].applied])
          BY <2>1, <4>3 DEF EventHandled, SaveHandled, SavedHandled, FailureHandled
        <5>2. book[p].state = "ready" /\ 1 \in DOMAIN book[p].mailbox
          BY <2>1 DEF OneMessage
        <5>3. snapshot[p].nr = book[p].lastSaved
          BY <5>1, <5>2 DEF PresenceInv, PresenceOf
        <5>4. FirstOf(p).nr \in Int /\ Covered(FirstOf(p).nr)
          BY <3>0, <3>2, <5>1, <5>2, NumbersTyped DEF NumbersOf, FirstOf
        <5>5. CoveredNext(FirstOf(p).nr) /\ FirstOf(p).nr > snapshot[p].nr
          BY <1>0, <5>1, <5>3, <5>4
        <5>6. ASSUME NEW i \in DOMAIN writing'[q]
              PROVE  CoveredNext(writing'[q][i].nr) /\ writing'[q][i].nr > snapshot'[q].nr
          <6>1. CASE i \in 1 .. Len(writing[p])
            <7>1. writing'[q][i] = writing[p][i] /\ i \in DOMAIN writing[p]
              BY <3>2, <5>1, <6>1, NumbersTyped DEF Longer
            <7> QED
              BY <1>0, <2>1, <3>0, <3>2, <7>1, NumbersTyped DEF NumbersOf
          <6>2. CASE i = Len(writing[p]) + 1
            <7>1. writing'[q][i].nr = FirstOf(p).nr
              BY <3>2, <5>1, <6>2 DEF Longer
            <7> QED
              BY <2>1, <3>2, <5>5, <7>1
          <6>3. i \in 1 .. Len(writing[p]) + 1 /\ Len(writing[p]) \in Nat
            BY <3>2, <5>1, NumbersTyped DEF Longer
          <6> QED
            BY <6>1, <6>2, <6>3
        <5>7. CoveredNext(snapshot'[q].nr)
          BY <1>0, <2>1, <3>0, NumbersTyped DEF NumbersOf
        <5>8. ASSUME NEW i \in DOMAIN book'[q].mailbox, book'[q].mailbox[i].type = "save"
              PROVE  CoveredNext(book'[q].mailbox[i].nr)
          <6>1. i + 1 \in DOMAIN book[q].mailbox /\ book'[q].mailbox[i] = book[q].mailbox[i + 1]
            BY <4>1
          <6>2. Covered(book[q].mailbox[i + 1].nr) /\ book[q].mailbox[i + 1].nr \in Int
            BY <3>0, <5>8, <6>1, NumbersTyped DEF NumbersOf
          <6> QED
            BY <1>0, <6>1, <6>2
        <5> QED
          BY <5>6, <5>7, <5>8, NumbersNext
      <4> QED
        BY <4>2, <4>3
    <3> QED
      BY <3>1, <3>2
  <2> QED
    BY <2>2 DEF NumbersInv, NumbersOf
<1>4. ASSUME NEW p \in Pair, WriteSnapshot(p) PROVE NumbersInv'
  <2>1. SnapshotWritten(p)
    BY <1>4, WriteSnapshotIs
  <2>2. ASSUME NEW q \in Pair PROVE NumbersOf(q)'
    <3>0. book[q] \in BookState /\ Mailbox(book[q]) /\ NumbersOf(q)
      BY NumbersTyped, NumbersIs
    <3>1. CASE q # p
      <4>1. UNCHANGED <<snapshot[q], writing[q], book[q]>>
        BY <2>1, <3>1 DEF SnapshotWritten, OneBook, TypeOK, BookTypes
      <4> QED
        BY <1>a, <4>1
    <3>2. CASE q = p
      <4>1. Posts(book[q], book'[q], [type |-> "saved", nr |-> writing[p][1].nr])
        BY <2>1, <3>2 DEF SnapshotWritten, Posts
      <4>2. ASSUME NEW i \in DOMAIN book'[q].mailbox, book'[q].mailbox[i].type = "save"
            PROVE  CoveredNext(book'[q].mailbox[i].nr)
        <5>1. i \in DOMAIN book[q].mailbox /\ book'[q].mailbox[i] = book[q].mailbox[i]
          BY <3>0, <4>1, <4>2, Posted
        <5> QED
          BY <1>0, <3>0, <4>2, <5>1, NumbersTyped DEF NumbersOf
      <4>3. snapshot'[q] = writing[p][1] /\ 1 \in DOMAIN writing[p]
        BY <2>1, <3>2 DEF SnapshotWritten, TypeOK, BookTypes
      <4>4. CoveredNext(snapshot'[q].nr)
        BY <1>0, <3>0, <3>2, <4>3, NumbersTyped DEF NumbersOf
      <4>5. DOMAIN writing'[q] = {}
        <5>1. Len(writing[p]) <= 1 /\ Len(writing[p]) \in Nat
          BY NumbersTyped DEF PresenceInv, PresenceOf
        <5>2. DOMAIN writing'[q] = 1 .. Len(writing[p]) - 1
          BY <2>1, <3>2 DEF SnapshotWritten, Shorter
        <5> QED
          BY <5>1, <5>2
      <4> QED
        BY <4>2, <4>4, <4>5, NumbersNext
    <3> QED
      BY <3>1, <3>2
  <2> QED
    BY <2>2 DEF NumbersInv, NumbersOf
<1>5. ASSUME NEW p \in Pair, BookFails(p) PROVE NumbersInv'
  <2>1. OneBook(p) /\ book'[p] = NoBook /\ UNCHANGED <<snapshot, writing>>
    BY <1>5, BookFailsIs DEF BookFails
  <2>2. ASSUME NEW q \in Pair PROVE NumbersOf(q)'
    <3>1. CASE q # p
      BY <1>a, <2>1, <3>1 DEF OneBook
    <3>2. CASE q = p
      BY <2>1, <3>2, StartingIs, NumbersKept
    <3> QED
      BY <3>1, <3>2
  <2> QED
    BY <2>2 DEF NumbersInv, NumbersOf
<1>6. CASE Crash \/ ForcedStop
  <2>1. Started
    BY <1>6, RestartIs
  <2>2. ASSUME NEW q \in Pair PROVE NumbersOf(q)'
    <3>1. book'[q].mailbox = <<>> /\ writing'[q] = <<>> /\ snapshot'[q] = snapshot[q]
      BY <2>1, StartingIs DEF Started
    <3> QED
      BY <3>1, NumbersKept
  <2> QED
    BY <2>2 DEF NumbersInv, NumbersOf
<1>7. CASE UNCHANGED bookVars
  <2>1. ASSUME NEW q \in Pair PROVE NumbersOf(q)'
    BY <1>7, <1>a DEF bookVars
  <2> QED
    BY <2>1 DEF NumbersInv, NumbersOf
<1>8. ASSUME NEW p \in Pair, \/ StoreEvent(p) \/ HandleUpdated(p) \/ HandleTerminated(p) \/ Collect(p)
      PROVE  UNCHANGED bookVars
  BY <1>8 DEF StoreEvent, HandleUpdated, HandleTerminated, Collect
<1>9. CASE AddToMemory \/ Poll \/ WriteJournal
  BY <1>7, <1>9 DEF AddToMemory, Poll, WriteJournal
<1>10. ASSUME NEW p \in Pair, SnapshotFails(p) PROVE NumbersInv'
  <2>1. SnapshotFailed(p) /\ writing'[p] = <<>> /\ UNCHANGED snapshot
    BY <1>10, FailedIs DEF SnapshotFailed
  <2>2. PICK n \in Int : Posts(book[p], book'[p], FailureAt(n))
    BY <1>10, FailedIs
  <2>3. ASSUME NEW q \in Pair PROVE NumbersOf(q)'
    <3>1. CASE q # p
      BY <1>a, <2>1, <3>1 DEF SnapshotFailed, OneBook
    <3>2. CASE q = p
      <4>1. ASSUME NEW i \in DOMAIN book'[q].mailbox, book'[q].mailbox[i].type = "save"
            PROVE  \E j \in DOMAIN book[q].mailbox : book'[q].mailbox[i] = book[q].mailbox[j]
        <5>1. book[q] \in BookState /\ FailureAt(n).type # "save"
          BY NumbersTyped DEF FailureAt
        <5> QED
          BY <2>2, <3>2, <4>1, <5>1, Posted
      <4> QED
        BY <2>1, <3>2, <4>1, NumbersKept
    <3> QED
      BY <3>1, <3>2
  <2> QED
    BY <2>3 DEF NumbersInv, NumbersOf
<1> QED
  BY <1>1, <1>2, <1>3, <1>4, <1>5, <1>6, <1>7, <1>8, <1>9, <1>10 DEF MatcherNext, MatcherStep

----------------------------------------------------------------------------
(* While MatcherActor waits for its books *)

\* The invariant, pair by pair
LEMMA CollectInvIs == CollectInv <=> (status = "collecting" => Waiting /\ \A p \in Pair : CollectsFrom(p))
BY DEF CollectInv

\* CollectInv is preserved.
LEMMA CollectStep ==
  ASSUME TypeOK, StoreInv, MemoryInv, NumbersInv, CollectInv, PresenceInv, MatcherNext
  PROVE  CollectInv'
<1> SUFFICES ASSUME status' = "collecting"
             PROVE  Waiting' /\ \A p \in Pair : CollectsFrom(p)'
  BY CollectInvIs DEF CollectInv, CollectsFrom, Waiting
<1>0. /\ inMemQueue \in Seq(Int) /\ log \in Seq(Pair) /\ adding \in Int /\ Len(log) \in Nat
      /\ collected \in [Pair -> Int] /\ updates \in [Pair -> Seq(Int)]
  BY DEF TypeOK, QueueTypes, ActorTypes
<1>1. ASSUME status = "collecting" PROVE Waiting /\ \A p \in Pair : CollectsFrom(p)
  BY <1>1, CollectInvIs
<1>2. CASE Crash \/ ForcedStop
  <2>1. Started
    BY <1>2, RestartIs
  <2>2. Waiting'
    BY <2>1 DEF Started, Waiting
  <2>3. ASSUME NEW p \in Pair PROVE CollectsFrom(p)'
    <3>1. MemStart' = Len(log)
      BY <1>0, <2>1 DEF Started, MemStart, End
    <3>2. snapshot'[p].nr < Len(log)
      BY <2>1, NumbersIs DEF Started, NumbersOf, Covered
    <3>3. book'[p].mailbox = <<>> /\ book'[p].saving = None
      BY <2>1, StartingIs DEF Started
    <3>4. DOMAIN updates'[p] = {}
      BY <2>1 DEF Started
    <3> QED
      BY <2>1, <3>1, <3>2, <3>3, <3>4 DEF Started, CollectsFrom
  <2> QED
    BY <2>2, <2>3
<1>3. ASSUME NEW p \in Pair, Collect(p)
      PROVE  Waiting' /\ \A q \in Pair : CollectsFrom(q)'
  <2>1. CollectedOne(p) /\ (GoesOnWaiting \/ StartsWorking)
    BY <1>3, CollectIs
  <2>2. GoesOnWaiting
    BY <2>1 DEF StartsWorking
  <2>3. /\ status = "collecting" /\ Takes(p) /\ updates[p][1] # Terminated
        /\ collected' = [collected EXCEPT ![p] = updates[p][1]]
        /\ UNCHANGED <<log, adding, inMemQueue, orderBooks, events, book, writing, snapshot, toJournal,
                       journal, lastUnread, nearest>>
    BY <2>1, <2>2 DEF CollectedOne, GoesOnWaiting, bookVars, journalVars
  <2>4. Waiting'
    BY <1>1, <2>3 DEF Waiting
  <2>5. MemStart' = MemStart
    BY <2>3 DEF MemStart, End
  <2>6. ASSUME NEW q \in Pair PROVE CollectsFrom(q)'
    <3>1. CollectsFrom(q)
      BY <1>1, <2>3
    <3>2. CASE q # p
      <4>1. collected'[q] = collected[q] /\ updates'[q] = updates[q]
        BY <1>0, <2>3, <3>2 DEF Takes
      <4> QED
        BY <2>3, <2>5, <3>1, <4>1 DEF CollectsFrom
    <3>3. CASE q = p
      <4>1. /\ collected'[p] = updates[p][1] /\ updates[p][1] = snapshot[p].nr
        BY <1>0, <2>3, <3>1, <3>3 DEF CollectsFrom, Takes
      <4>2. \A i \in DOMAIN updates'[p] : updates'[p][i] \in {snapshot[p].nr, Terminated}
        <5> SUFFICES ASSUME NEW i \in DOMAIN updates'[p] PROVE updates'[p][i] \in {snapshot[p].nr, Terminated}
          OBVIOUS
        <5>1. updates[p] \in Seq(Int)
          BY <1>0
        <5>2. i \in 1 .. Len(updates[p]) - 1 /\ i + 1 \in DOMAIN updates[p]
          BY <2>3, <5>1 DEF Takes, Shorter
        <5>3. updates'[p][i] = updates[p][i + 1]
          BY <2>3, <5>2 DEF Takes, Shorter
        <5> QED
          BY <3>1, <3>3, <5>2, <5>3 DEF CollectsFrom
      <4>3. p \in journal
        BY <2>3, <3>1, <3>3 DEF CollectsFrom, PresenceInv, PresenceOf, Takes
      <4> QED
        BY <2>3, <2>5, <3>1, <3>3, <4>1, <4>2, <4>3 DEF CollectsFrom
    <3> QED
      BY <3>2, <3>3
  <2> QED
    BY <2>4, <2>6
<1>4. ASSUME status = "collecting", MemStart' = MemStart,
             UNCHANGED <<events, toJournal, lastUnread, nearest, journal, orderBooks, writing, book,
                         collected, snapshot, updates>>
      PROVE  Waiting' /\ \A q \in Pair : CollectsFrom(q)'
  <2>1. Waiting /\ \A p \in Pair : CollectsFrom(p)
    BY <1>1, <1>4
  <2> QED
    BY <2>1, <1>4 DEF Waiting, CollectsFrom
<1>5. ASSUME NEW p \in Pair, StoreEvent(p)
      PROVE  Waiting' /\ \A q \in Pair : CollectsFrom(q)'
  <2>1. /\ adding = None /\ adding' = Len(log) /\ log' = Append(log, p) /\ inMemQueue' = inMemQueue
        /\ UNCHANGED <<status, events, toJournal, lastUnread, nearest, journal, orderBooks, writing, book,
                         collected, snapshot, updates>>
    BY <1>5 DEF StoreEvent, actorVars, bookVars, journalVars
  <2>2. MemStart' = MemStart
    <3>1. End = Len(log) /\ End' = Len(log)
      BY <1>0, <2>1 DEF End, None
    <3> QED
      BY <2>1, <3>1 DEF MemStart
  <2> QED
    BY <1>4, <2>1, <2>2
<1>6. ASSUME AddToMemory
      PROVE  Waiting' /\ \A q \in Pair : CollectsFrom(q)'
  <2>1. /\ adding # None /\ adding' = None /\ inMemQueue' = Append(inMemQueue, adding)
        /\ UNCHANGED <<log, status, events, toJournal, lastUnread, nearest, journal, orderBooks, writing, book,
                         collected, snapshot, updates>>
    BY <1>6 DEF AddToMemory, actorVars, bookVars, journalVars
  <2>2. MemStart' = MemStart
    <3>1. End = adding /\ End' = Len(log) /\ adding = Len(log) - 1
      BY <2>1 DEF End, MemoryInv
    <3>2. Len(inMemQueue') = Len(inMemQueue) + 1 /\ Len(inMemQueue) \in Nat
      BY <1>0, <2>1
    <3> QED
      BY <1>0, <3>1, <3>2 DEF MemStart
  <2> QED
    BY <1>4, <2>1, <2>2
<1>7. ASSUME NEW p \in Pair, BookRecovers(p) \/ BookFails(p)
      PROVE  Waiting' /\ \A q \in Pair : CollectsFrom(q)'
  <2>1. UNCHANGED <<log, adding, inMemQueue, status, events, toJournal, lastUnread, nearest, journal,
                    orderBooks, writing, collected, snapshot>>
    BY <1>7 DEF BookRecovers, BookFails, queueVars, actorVars, journalVars
  <2>2. \E n \in {snapshot[p].nr, Terminated} : Reports(p, n)
    BY <1>7, BookRecoversIs, BookFailsIs DEF BookRecovered
  <2>3. /\ OneBook(p)
        /\ \/ book'[p].mailbox = book[p].mailbox /\ book'[p].saving = book[p].saving
           \/ book'[p].mailbox = <<>> /\ book'[p].saving = None
    BY <1>7, BookRecoversIs, BookFailsIs, StartingIs DEF BookRecovered
  <2>4. MemStart' = MemStart
    BY <2>1 DEF MemStart, End
  <2>5. Waiting'
    BY <1>1, <2>1 DEF Waiting
  <2>6. ASSUME NEW q \in Pair PROVE CollectsFrom(q)'
    <3>1. CollectsFrom(q)
      BY <1>1, <2>1
    <3>2. CASE q # p
      <4>1. book'[q] = book[q] /\ updates'[q] = updates[q]
        BY <2>2, <2>3, <3>2 DEF OneBook, Reports
      <4> QED
        BY <2>1, <2>4, <3>1, <4>1 DEF CollectsFrom
    <3>3. CASE q = p
      <4>1. ASSUME NEW i \in DOMAIN updates'[p] PROVE updates'[p][i] \in {snapshot[p].nr, Terminated}
        <5>1. updates[p] \in Seq(Int)
          BY <1>0
        <5>2. PICK n \in {snapshot[p].nr, Terminated} : Longer(updates[p], updates'[p], n)
          BY <2>2 DEF Reports
        <5>3. (i \in DOMAIN updates[p] /\ updates'[p][i] = updates[p][i]) \/ updates'[p][i] = n
          BY <5>1, <5>2 DEF Longer
        <5> QED
          BY <3>1, <3>3, <5>3 DEF CollectsFrom
      <4>2. book'[p].mailbox = <<>> /\ book'[p].saving = None
        BY <2>3, <3>1, <3>3 DEF CollectsFrom
      <4> QED
        BY <2>1, <2>4, <3>1, <3>3, <4>1, <4>2 DEF CollectsFrom
    <3> QED
      BY <3>2, <3>3
  <2> QED
    BY <2>5, <2>6
\* the others do not happen then
<1>8. CASE Poll
  BY <1>1, <1>8 DEF Poll, Waiting, actorVars
<1>9. CASE HandleEvent
  BY <1>9 DEF HandleEvent
<1>10. CASE WriteJournal
  BY <1>1, <1>10 DEF WriteJournal, Waiting, actorVars
<1>11. ASSUME NEW p \in Pair, HandleUpdated(p) \/ HandleTerminated(p) PROVE FALSE
  BY <1>11 DEF HandleUpdated, HandleTerminated
<1>12. ASSUME NEW p \in Pair, BookHandles(p) \/ WriteSnapshot(p) \/ SnapshotFails(p) PROVE FALSE
  <2>1. status = "collecting"
    BY <1>12 DEF BookHandles, WriteSnapshot, SnapshotFails, actorVars
  <2>2. CollectsFrom(p)
    BY <1>1, <2>1
  <2> QED
    BY <1>12, <2>2 DEF CollectsFrom, BookHandles, WriteSnapshot, SnapshotFails
<1> QED
  BY <1>2, <1>3, <1>5, <1>6, <1>7, <1>8, <1>9, <1>10, <1>11, <1>12 DEF MatcherNext, MatcherStep

----------------------------------------------------------------------------
(* Messages of a type, and reports *)

HasType(r, t) == {i \in DOMAIN r.mailbox : r.mailbox[i].type = t}

\* OfType in terms of the book
LEMMA OfTypeIs == \A p, t : OfType(p, t) = HasType(book[p], t)
BY DEF OfType, HasType

\* The messages of a type after one is sent
LEMMA PostedType ==
  ASSUME NEW r \in BookState, NEW u, NEW m, Posts(r, u, m), NEW t
  PROVE  /\ m.type # t => HasType(u, t) = HasType(r, t)
         /\ m.type = t /\ r.state # "off" => /\ HasType(u, t) = HasType(r, t) \cup {Len(r.mailbox) + 1}
                                            /\ u.mailbox[Len(r.mailbox) + 1] = m
         /\ \A i \in HasType(r, t) : u.mailbox[i] = r.mailbox[i]
<1>1. Mailbox(r)
  BY MailboxIs
<1>2. CASE r.state = "off"
  BY <1>2 DEF Posts
<1>3. CASE r.state # "off"
  <2>1. Longer(r.mailbox, u.mailbox, m)
    BY <1>3 DEF Posts
  <2>2. /\ DOMAIN u.mailbox = 1 .. Len(r.mailbox) + 1 /\ u.mailbox[Len(r.mailbox) + 1] = m
        /\ \A i \in DOMAIN r.mailbox : i \in DOMAIN u.mailbox /\ u.mailbox[i] = r.mailbox[i]
    BY <1>1, <2>1 DEF Longer, Mailbox
  <2>3. \A i \in DOMAIN u.mailbox : i \in DOMAIN r.mailbox \/ i = Len(r.mailbox) + 1
    BY <1>1, <2>2 DEF Mailbox
  <2>4. Len(r.mailbox) + 1 \in DOMAIN u.mailbox
    BY <1>1, <2>2 DEF Mailbox
  <2> QED
    BY <2>2, <2>3, <2>4, <1>3 DEF HasType
<1> QED
  BY <1>2, <1>3

\* The messages of a type after the first is taken
LEMMA ShorterType ==
  ASSUME NEW r \in BookState, NEW u, Shorter(r.mailbox, u.mailbox), r.mailbox # <<>>, NEW t
  PROVE  /\ \A i \in HasType(u, t) : i + 1 \in HasType(r, t) /\ i + 1 # 1 /\ u.mailbox[i] = r.mailbox[i + 1]
         /\ \A i \in HasType(r, t) : i # 1 => i - 1 \in HasType(u, t) /\ u.mailbox[i - 1] = r.mailbox[i]
         /\ HasType(u, t) \subseteq Nat
         /\ r.mailbox[1].type = t => 1 \in HasType(r, t)
         /\ r.mailbox[1].type # t => 1 \notin HasType(r, t)
<1>1. Mailbox(r) /\ Len(r.mailbox) # 0
  BY MailboxIs DEF Mailbox
<1>2. /\ DOMAIN u.mailbox = 1 .. Len(r.mailbox) - 1
      /\ \A i \in 1 .. Len(r.mailbox) - 1 : u.mailbox[i] = r.mailbox[i + 1]
  BY DEF Shorter
<1>3. ASSUME NEW i \in HasType(u, t) PROVE i + 1 \in HasType(r, t) /\ i + 1 # 1 /\ u.mailbox[i] = r.mailbox[i + 1]
                                           /\ i \in Nat
  BY <1>1, <1>2 DEF HasType, Mailbox
<1>4. ASSUME NEW i \in HasType(r, t), i # 1 PROVE i - 1 \in HasType(u, t) /\ u.mailbox[i - 1] = r.mailbox[i]
  <2>1. i - 1 \in 1 .. Len(r.mailbox) - 1 /\ (i - 1) + 1 = i
    BY <1>1, <1>4 DEF HasType, Mailbox
  <2> QED
    BY <1>2, <1>4, <2>1 DEF HasType
<1>5. 1 \in DOMAIN r.mailbox
  BY <1>1 DEF Mailbox
<1> QED
  BY <1>3, <1>4, <1>5 DEF HasType

\* The message at the head was the only one of its type, or is of another.
LEMMA TypeTaken ==
  ASSUME NEW r \in BookState, NEW u, Shorter(r.mailbox, u.mailbox), r.mailbox # <<>>, NEW t,
         AtMostOne(HasType(r, t))
  PROVE  /\ AtMostOne(HasType(u, t))
         /\ r.mailbox[1].type = t => HasType(u, t) = {}
         /\ r.mailbox[1].type # t => (HasType(u, t) = {} <=> HasType(r, t) = {})
<1>1. /\ \A i \in HasType(u, t) : i + 1 \in HasType(r, t) /\ i + 1 # 1
      /\ \A i \in HasType(r, t) : i # 1 => i - 1 \in HasType(u, t)
      /\ HasType(u, t) \subseteq Nat
      /\ r.mailbox[1].type = t => 1 \in HasType(r, t)
      /\ r.mailbox[1].type # t => 1 \notin HasType(r, t)
  BY ShorterType
<1>2. ASSUME NEW i \in HasType(u, t), NEW j \in HasType(u, t) PROVE i = j
  <2>1. i + 1 = j + 1 /\ i \in Nat /\ j \in Nat
    BY <1>1 DEF AtMostOne
  <2> QED
    BY <2>1
<1>3. ASSUME r.mailbox[1].type = t, NEW i \in HasType(u, t) PROVE FALSE
  BY <1>1, <1>3 DEF AtMostOne
<1> QED
  BY <1>1, <1>2, <1>3 DEF AtMostOne

Nums(s) == {i \in DOMAIN s : s[i] # Terminated}
Stops(s) == {i \in DOMAIN s : s[i] = Terminated}

\* Numbers and Ends in terms of the reports
LEMMA NumsAre == \A p : Numbers(p) = Nums(updates[p]) /\ Ends(p) = Stops(updates[p])
BY DEF Numbers, Ends, Nums, Stops

\* The reports after one is added
LEMMA NumsLonger ==
  ASSUME NEW s \in Seq(Int), NEW t, NEW n, Longer(s, t, n)
  PROVE  /\ n # Terminated => Nums(t) = Nums(s) \cup {Len(s) + 1} /\ Stops(t) = Stops(s)
         /\ n = Terminated => Nums(t) = Nums(s) /\ Stops(t) # {}
         /\ \A i \in Nums(s) : t[i] = s[i]
         /\ t[Len(s) + 1] = n
<1>1. Len(s) \in Nat /\ DOMAIN s = 1 .. Len(s)
  OBVIOUS
<1>2. /\ \A i \in DOMAIN s : i \in DOMAIN t /\ t[i] = s[i]
      /\ \A i \in DOMAIN t : i \in DOMAIN s \/ i = Len(s) + 1
      /\ Len(s) + 1 \in DOMAIN t /\ t[Len(s) + 1] = n
  BY <1>1 DEF Longer
<1> QED
  BY <1>2 DEF Nums, Stops

\* The reports after the first is taken
LEMMA NumsShorter ==
  ASSUME NEW s \in Seq(Int), NEW t, s # <<>>, Shorter(s, t)
  PROVE  /\ s[1] # Terminated /\ AtMostOne(Nums(s)) => Nums(t) = {}
         /\ s[1] # Terminated => (Stops(s) = {} <=> Stops(t) = {})
         /\ s[1] = Terminated => Stops(s) # {}
         /\ AtMostOne(Nums(s)) => AtMostOne(Nums(t))
<1>1. Len(s) \in Nat \ {0} /\ DOMAIN s = 1 .. Len(s)
  OBVIOUS
<1>2. \A i \in DOMAIN t : i \in Nat /\ i + 1 \in DOMAIN s /\ i + 1 # 1 /\ t[i] = s[i + 1]
  BY <1>1 DEF Shorter
<1>3. \A i \in DOMAIN s : i # 1 => i - 1 \in DOMAIN t /\ t[i - 1] = s[i]
  <2> SUFFICES ASSUME NEW i \in DOMAIN s, i # 1 PROVE i - 1 \in DOMAIN t /\ t[i - 1] = s[i]
    OBVIOUS
  <2>1. i - 1 \in 1 .. Len(s) - 1 /\ (i - 1) + 1 = i
    BY <1>1
  <2> QED
    BY <2>1 DEF Shorter
<1>4. 1 \in DOMAIN s
  BY <1>1
<1>5. ASSUME s[1] # Terminated, AtMostOne(Nums(s)), NEW i \in Nums(t) PROVE FALSE
  BY <1>2, <1>4, <1>5 DEF Nums, AtMostOne
<1>6. ASSUME s[1] # Terminated PROVE Stops(s) = {} <=> Stops(t) = {}
  BY <1>2, <1>3, <1>6 DEF Stops
<1>7. ASSUME AtMostOne(Nums(s)), NEW i \in Nums(t), NEW j \in Nums(t) PROVE i = j
  <2>1. i + 1 \in Nums(s) /\ j + 1 \in Nums(s) /\ i \in Nat /\ j \in Nat
    BY <1>2 DEF Nums
  <2>2. i + 1 = j + 1
    BY <2>1, <1>7 DEF AtMostOne
  <2> QED
    BY <2>1, <2>2
<1> QED
  BY <1>4, <1>5, <1>6, <1>7 DEF Stops, AtMostOne

----------------------------------------------------------------------------
(* Which books are there and what they have on their way *)

\* The invariant, pair by pair
LEMMA PresenceIs == PresenceInv <=> \A p \in Pair : PresenceOf(p)
BY DEF PresenceInv

\* The same for FailureInv
LEMMA FailureIs == FailureInv <=> \A p \in Pair : FailureOf(p)
BY DEF FailureInv

\* A book that starts is empty but for its mail.
LEMMA LoadingMail ==
  ASSUME NEW r \in BookState
  PROVE  r = [StartingBook EXCEPT !.mailbox = r.mailbox]
         <=> SameBut(StartingBook, r)
<1>1. r.mailbox \in Seq(Message)
  BY DEF BookState
<1> DEFINE k == r.mailbox
           s == StartingBook
           t == [s EXCEPT !.mailbox = k]
<1>2. s \in BookState
  BY StartingIs
<1>3. /\ t \in BookState /\ t.mailbox = k /\ t.state = s.state /\ t.lastProcessed = s.lastProcessed
      /\ t.lastSaved = s.lastSaved /\ t.saving = s.saving /\ t.applied = s.applied
  <2> HIDE DEF k, s
  <2> QED
    BY <1>1, <1>2, WithMailbox DEF k
<1> HIDE DEF t, s
<1>4. ASSUME SameBut(s, r) PROVE r = t
  BY <1>3, <1>4 DEF SameBut, BookState
<1>5. ASSUME r = t PROVE SameBut(s, r)
  BY <1>3, <1>5 DEF SameBut
<1> QED
  BY <1>4, <1>5 DEF t, s

\* A book whose only change is a message that is no answer of the snapshot store
LEMMA PresencePosted ==
  ASSUME NEW p \in Pair, NEW r \in BookState, NEW t \in BookState, NEW m, Posts(r, t, m), m.type # "saved"
  PROVE  /\ t.state = r.state /\ t.saving = r.saving /\ t.lastSaved = r.lastSaved
         /\ HasType(t, "saved") = HasType(r, "saved")
         /\ t.state = "off" => t = r
         /\ t.state = "loading" /\ r = [StartingBook EXCEPT !.mailbox = r.mailbox]
              => t = [StartingBook EXCEPT !.mailbox = t.mailbox]
<1>1. SameBut(r, t) /\ (r.state = "off" => t = r)
  BY DEF Posts
<1>2. HasType(t, "saved") = HasType(r, "saved")
  BY PostedType
<1>3. ASSUME r = [StartingBook EXCEPT !.mailbox = r.mailbox]
      PROVE  t = [StartingBook EXCEPT !.mailbox = t.mailbox]
  <2>1. SameBut(StartingBook, r)
    BY <1>3, LoadingMail
  <2>2. SameBut(StartingBook, t)
    BY <2>1, <1>1 DEF SameBut
  <2> QED
    BY <2>2, LoadingMail
<1> QED
  BY <1>1, <1>2, <1>3 DEF SameBut

\* A pair that the step does not concern
LEMMA PresenceFrame ==
  ASSUME NEW p \in Pair, PresenceOf(p),
         orderBooks'[p] = orderBooks[p], book'[p] = book[p], writing'[p] = writing[p],
         updates'[p] = updates[p], snapshot'[p] = snapshot[p],
         orderBooks[p] = "none" => Due(p)' \subseteq Due(p)
  PROVE  PresenceOf(p)'
BY DEF PresenceOf, OfType, Ends

\* What is due for a pair, when less is due
LEMMA DueSubset ==
  ASSUME nearest' \subseteq nearest, NEW p
  PROVE  Due(p)' \subseteq Due(p)
BY DEF Due

\* The events for a book
LEMMA PresenceHandle ==
  ASSUME TypeOK, StoreInv, JournalInv, PresenceInv, HandleEvent, NEW q \in Pair
  PROVE  PresenceOf(q)'
<1>0. PresenceOf(q) /\ book[q] \in BookState /\ book'[q] \in BookState
  BY PresenceIs, NumbersTyped, HandledIs
<1>1. UNCHANGED <<writing, updates, snapshot>>
  BY HandleEventIs DEF EventTaken
<1>2. nearest' \subseteq nearest
  BY HandledIs
<1> DEFINE o == events[1]
<1>3. PICK s : Gets(q, o, s)
  BY HandledIs
<1>4. orderBooks'[q] = (IF q = PairOf(o) /\ orderBooks[q] = "none" THEN "up" ELSE orderBooks[q])
  BY HandledIs
<1> HIDE DEF o
<1> DEFINE r == Before(q, o)
<1>5. r \in BookState /\ s \in BookState
  BY <1>0, <1>3, StartingIs DEF Gets, Before
<1>6. CASE q = PairOf(o) /\ orderBooks[q] = "none"
  <2>1. r = StartingBook /\ Posts(r, s, EventAt(o)) /\ ~Told(q, o) /\ book'[q] = s
    BY <1>3, <1>6 DEF Before, Gets, Told
  <2>2. /\ s.state = "loading" /\ s.saving = None /\ s.lastSaved = -1
        /\ HasType(s, "saved") = {} /\ SameBut(StartingBook, s)
    <3>1. EventAt(o).type # "saved"
      BY DEF EventAt
    <3>2. HasType(StartingBook, "saved") = {}
      BY StartingIs DEF HasType
    <3>3. SameBut(StartingBook, s)
      BY <2>1 DEF Posts
    <3>4. s.state = StartingBook.state /\ s.saving = StartingBook.saving /\ s.lastSaved = StartingBook.lastSaved
          /\ HasType(s, "saved") = HasType(StartingBook, "saved")
      BY ONLY <1>5, <2>1, <3>1, PresencePosted
    <3> QED
      BY <3>2, <3>3, <3>4, StartingIs
  <2>3. s = [StartingBook EXCEPT !.mailbox = s.mailbox]
    BY <1>5, <2>2, LoadingMail
  <2>4. /\ orderBooks'[q] = "up" /\ writing'[q] = <<>> /\ updates'[q] = <<>>
        /\ Len(writing'[q]) <= 1 /\ Ends(q)' = {} /\ OfType(q, "saved")' = {}
    BY <1>0, <1>1, <1>4, <1>6, <2>1, <2>2 DEF PresenceOf, Ends, OfType, HasType
  <2>5. AtMostOne({})
    BY DEF AtMostOne
  <2> QED
    BY <2>1, <2>2, <2>3, <2>4, <2>5 DEF PresenceOf
<1>7. CASE ~(q = PairOf(o) /\ orderBooks[q] = "none")
  <2>1. r = book[q] /\ orderBooks'[q] = orderBooks[q]
    BY <1>4, <1>7 DEF Before
  <2> DEFINE Alike(u, t) ==
               /\ t.state = u.state /\ t.saving = u.saving /\ t.lastSaved = u.lastSaved
               /\ HasType(t, "saved") = HasType(u, "saved")
               /\ t.state = "off" => t = u
               /\ t.state = "loading" /\ u = [StartingBook EXCEPT !.mailbox = u.mailbox]
                     => t = [StartingBook EXCEPT !.mailbox = t.mailbox]
  <2>2. Alike(book[q], s)
    <3>1. EventAt(o).type # "saved"
      BY DEF EventAt
    <3>2. CASE q = PairOf(o)
      <4>1. Posts(book[q], s, EventAt(o))
        BY <1>3, <2>1, <3>2 DEF Gets
      <4> QED
        BY <1>0, <1>5, <3>1, <4>1, PresencePosted
    <3>3. CASE q # PairOf(o)
      <4>1. s = book[q]
        BY <1>3, <3>3 DEF Gets
      <4> QED
        BY <4>1
    <3> QED
      BY <3>2, <3>3
  <2>3. Alike(s, book'[q])
    <3>1. SaveAt(o).type # "saved"
      BY DEF SaveAt
    <3>2. CASE Told(q, o)
      <4>1. Posts(s, book'[q], SaveAt(o))
        BY <1>3, <3>2 DEF Gets
      <4> QED
        BY <1>0, <1>5, <3>1, <4>1, PresencePosted
    <3>3. CASE ~Told(q, o)
      <4>1. book'[q] = s
        BY <1>3, <3>3 DEF Gets
      <4> QED
        BY <4>1
    <3> QED
      BY <3>2, <3>3
  <2>4. Alike(book[q], book'[q])
    BY <2>2, <2>3
  <2>5. OfType(q, "saved")' = OfType(q, "saved") /\ Ends(q)' = Ends(q)
    BY <1>1, <2>4 DEF OfType, HasType, Ends
  <2>6. orderBooks[q] = "none" => book'[q] = book[q] /\ Due(q)' = {}
    <3>1. orderBooks[q] = "none" => book[q].state = "off" /\ Due(q) = {}
      BY <1>0, StartingIs DEF PresenceOf
    <3>2. Due(q)' \subseteq Due(q)
      BY <1>2, DueSubset
    <3> QED
      BY <2>4, <3>1, <3>2
  <2> QED
    BY <1>0, <1>1, <2>1, <2>4, <2>5, <2>6 DEF PresenceOf
<1> QED
  BY <1>6, <1>7

\* After a restart
LEMMA PresenceRestart ==
  ASSUME TypeOK, StoreInv, Crash \/ ForcedStop, NEW q \in Pair
  PROVE  PresenceOf(q)'
<1>1. Started
  BY RestartIs
<1>2. /\ updates'[q] = <<>> /\ writing'[q] = <<>> /\ nearest' = {} /\ snapshot'[q] = snapshot[q]
      /\ book'[q] = (IF q \in journal THEN StartingBook ELSE NoBook)
      /\ orderBooks'[q] = (IF q \in journal THEN "up" ELSE "none")
  BY <1>1 DEF Started
<1>3. Ends(q)' = {} /\ OfType(q, "saved")' = {} /\ Len(writing'[q]) <= 1 /\ Due(q)' = {}
  BY <1>2, StartingIs DEF Ends, OfType, Due
<1>4. AtMostOne({})
  BY DEF AtMostOne
<1>5. SameBut(StartingBook, StartingBook) /\ StartingBook \in BookState
  BY StartingIs DEF SameBut
<1>6. StartingBook = [StartingBook EXCEPT !.mailbox = StartingBook.mailbox]
  BY <1>5, LoadingMail
<1>7. CASE q \in journal
  BY <1>2, <1>3, <1>4, <1>6, <1>7, StartingIs DEF PresenceOf
<1>8. CASE q \notin journal
  BY <1>2, <1>3, <1>4, <1>8, StartingIs DEF PresenceOf
<1> QED
  BY <1>7, <1>8

\* MatcherActor hears from a book.
LEMMA PresenceReports ==
  ASSUME TypeOK, StoreInv, MemoryInv, NumbersInv, CollectInv, PresenceInv, NEW p \in Pair,
         HandleUpdated(p) \/ HandleTerminated(p) \/ Collect(p), NEW q \in Pair
  PROVE  PresenceOf(q)'
<1>0. PresenceOf(q) /\ PresenceOf(p) /\ updates \in [Pair -> Seq(Int)]
      /\ orderBooks \in [Pair -> {"none", "up", "failed"}] /\ nearest \subseteq Int \X Pair
  BY PresenceIs DEF TypeOK, ActorTypes
<1>1. Takes(p) /\ UNCHANGED <<book, writing, snapshot>>
  <2>1. updates[p] # <<>> /\ updates' = [updates EXCEPT ![p] = Tail(@)] /\ UNCHANGED <<book, writing, snapshot>>
    BY DEF HandleUpdated, HandleTerminated, Collect, bookVars
  <2> QED
    BY <2>1, TakesIs
<1>2. orderBooks[p] # "none"
  BY <1>0, <1>1 DEF PresenceOf, Takes
<1>3. updates[p] \in Seq(Int) /\ updates[p] # <<>> /\ Shorter(updates[p], updates'[p]) /\ Head(updates[p]) = updates[p][1]
  BY <1>0, <1>1 DEF Takes
<1>4. CASE HandleUpdated(p)
  <2>1. updates[p][1] # Terminated /\ orderBooks' = orderBooks
        /\ nearest' = nearest \cup {<<NextSnapshotOffset(p, Head(updates[p]), lastProcessedNr), p>>}
    BY <1>3, <1>4 DEF HandleUpdated
  <2>2. Stops(updates[p]) = {} <=> Stops(updates'[p]) = {}
    BY <1>3, <2>1, NumsShorter
  <2>3. CASE q = p
    <3>1. Ends(p) = {} <=> Ends(p)' = {}
      BY <2>2 DEF Ends, Stops
    <3> QED
      BY <1>0, <1>1, <1>2, <2>1, <2>3, <3>1 DEF PresenceOf, OfType
  <2>4. CASE q # p
    <3>1. updates'[q] = updates[q]
      BY <1>1, <2>4 DEF Takes
    <3>2. Due(q)' \subseteq Due(q)
      BY <2>1, <2>4 DEF Due
    <3> QED
      BY <1>0, <1>1, <2>1, <3>1, <3>2, PresenceFrame
  <2> QED
    BY <2>3, <2>4
<1>5. CASE HandleTerminated(p)
  <2>1. updates[p][1] = Terminated /\ orderBooks' = [orderBooks EXCEPT ![p] = "failed"] /\ nearest' = nearest
    BY <1>3, <1>5 DEF HandleTerminated
  <2>2. Stops(updates[p]) # {}
    BY <1>3, <2>1, NumsShorter
  <2>3. CASE q = p
    <3>1. Ends(p) # {}
      BY <2>2 DEF Ends, Stops
    <3>2. orderBooks'[p] = "failed"
      BY <1>0, <2>1
    <3> QED
      BY <1>0, <1>1, <2>3, <3>1, <3>2 DEF PresenceOf, OfType
  <2>4. CASE q # p
    <3>1. updates'[q] = updates[q] /\ orderBooks'[q] = orderBooks[q]
      BY <1>0, <1>1, <2>1, <2>4 DEF Takes
    <3>2. Due(q)' \subseteq Due(q)
      BY <2>1 DEF Due
    <3> QED
      BY <1>0, <1>1, <3>1, <3>2, PresenceFrame
  <2> QED
    BY <2>3, <2>4
<1>6. CASE Collect(p)
  <2>0. CollectedOne(p) /\ (GoesOnWaiting \/ StartsWorking)
    BY <1>6, CollectIs
  <2>1. updates[p][1] # Terminated /\ orderBooks' = orderBooks /\ status = "collecting"
    BY <2>0 DEF CollectedOne
  <2>2. Stops(updates[p]) = {} <=> Stops(updates'[p]) = {}
    BY <1>3, <2>1, NumsShorter
  <2>3. CASE q = p
    <3>1. Ends(p) = {} <=> Ends(p)' = {}
      BY <2>2 DEF Ends, Stops
    <3> QED
      BY <1>0, <1>1, <1>2, <2>1, <2>3, <3>1 DEF PresenceOf, OfType
  <2>4. CASE q # p
    <3>1. updates'[q] = updates[q]
      BY <1>1, <2>4 DEF Takes
    <3>2. ASSUME orderBooks[q] = "none" PROVE Due(q)' \subseteq Due(q)
      <4>1. CASE GoesOnWaiting
        BY <4>1, DueSubset DEF GoesOnWaiting
      <4>2. CASE StartsWorking
        <5>1. PICK n : StartsAt(n)
          BY <2>0, <4>2, StartsAtIs
        <5>2. q \notin journal
          BY <2>1, <3>2 DEF CollectInv, CollectsFrom, Waiting
        <5>3. collected'[q] = None
          BY <5>1, <5>2 DEF StartsAt
        <5>4. \A x \in NearestAtStart(collected') : x[2] # q
          BY <5>3 DEF NearestAtStart
        <5>5. nearest' = NearestAtStart(collected')
          BY <4>2 DEF StartsWorking
        <5> QED
          BY <5>4, <5>5 DEF Due
      <4> QED
        BY <2>0, <4>1, <4>2
    <3> QED
      BY <1>0, <1>1, <2>1, <3>1, <3>2, PresenceFrame
  <2> QED
    BY <2>3, <2>4
<1> QED
  BY <1>4, <1>5, <1>6

\* A book recovers.
LEMMA PresenceRecovers ==
  ASSUME TypeOK, NumbersInv, PresenceInv, NEW p \in Pair, BookRecovers(p)
  PROVE  PresenceOf(p)'
<1>0. PresenceOf(p) /\ book[p] \in BookState /\ updates[p] \in Seq(Int)
  BY PresenceIs, NumbersTyped DEF TypeOK, ActorTypes
<1>1. BookRecovered(p) /\ UNCHANGED <<orderBooks, writing, snapshot, nearest>>
  BY BookRecoversIs DEF BookRecovers, actorVars
<1>2. /\ book[p].state = "loading" /\ book'[p].state = "ready"
      /\ book'[p].saving = book[p].saving /\ book'[p].mailbox = book[p].mailbox
      /\ book'[p].lastSaved = snapshot[p].nr /\ Longer(updates[p], updates'[p], snapshot[p].nr)
  BY <1>1 DEF BookRecovered, Reports
<1>3. SameBut(StartingBook, book[p])
  BY <1>0, <1>2, LoadingMail DEF PresenceOf
<1>4. book[p].saving = None
  BY <1>3, StartingIs DEF SameBut
<1>5. snapshot[p].nr # Terminated
  <2>1. snapshot[p].nr >= -1 /\ snapshot[p].nr \in Int
    BY NumbersIs, NumbersTyped DEF NumbersOf, Covered
  <2> QED
    BY <2>1 DEF Terminated
<1>6. Stops(updates'[p]) = Stops(updates[p])
  BY <1>0, <1>2, <1>5, NumsLonger
<1>7. Ends(p)' = Ends(p) /\ OfType(p, "saved")' = OfType(p, "saved")
  BY <1>2, <1>6 DEF Ends, Stops, OfType
<1>8. orderBooks[p] = "up" /\ Ends(p) = {} /\ writing[p] = <<>> /\ OfType(p, "saved") = {}
  BY <1>0, <1>2 DEF PresenceOf
<1>9. AtMostOne({}) /\ Len(<<>>) <= 1
  BY DEF AtMostOne
<1> QED
  BY <1>1, <1>2, <1>4, <1>7, <1>8, <1>9 DEF PresenceOf

\* A book takes a message.
LEMMA PresenceMessage ==
  ASSUME TypeOK, NumbersInv, PresenceInv, FailureInv, NEW p \in Pair, BookHandles(p)
  PROVE  PresenceOf(p)'
<1>0. /\ PresenceOf(p) /\ book[p] \in BookState /\ updates[p] \in Seq(Int) /\ writing[p] \in Seq(SnapshotState)
      /\ book[p].saving \in Int
  <2>1. book[p] \in BookState
    BY NumbersTyped
  <2> QED
    BY <2>1, PresenceIs, NumbersTyped DEF TypeOK, ActorTypes, BookState
<1>1. OneMessage(p) /\ (EventHandled(p) \/ SaveHandled(p) \/ SavedHandled(p) \/ FailureHandled(p))
      /\ UNCHANGED <<orderBooks, snapshot, nearest>>
  BY BookHandlesIs DEF BookHandles, actorVars
<1>2. /\ book[p].state = "ready" /\ book'[p].state = "ready" /\ book[p].mailbox # <<>>
      /\ Shorter(book[p].mailbox, book'[p].mailbox)
  BY <1>1 DEF OneMessage
<1>3. /\ orderBooks[p] = "up" /\ Ends(p) = {} /\ AtMostOne(OfType(p, "saved")) /\ Len(writing[p]) <= 1
  BY <1>0, <1>2 DEF PresenceOf
<1>4. /\ AtMostOne(HasType(book'[p], "saved"))
      /\ FirstOf(p).type = "saved" => HasType(book'[p], "saved") = {}
      /\ FirstOf(p).type # "saved" => (HasType(book'[p], "saved") = {} <=> HasType(book[p], "saved") = {})
  <2>1. AtMostOne(HasType(book[p], "saved"))
    BY <1>3, OfTypeIs
  <2> QED
    BY <1>0, <1>2, <2>1, TypeTaken DEF FirstOf
<1>5. OfType(p, "saved")' = HasType(book'[p], "saved") /\ OfType(p, "saved") = HasType(book[p], "saved")
  BY DEF OfType, HasType
<1>6. CASE EventHandled(p)
  <2>1. /\ FirstOf(p).type # "saved" /\ book'[p].saving = book[p].saving /\ book'[p].lastSaved = book[p].lastSaved
        /\ writing' = writing /\ updates' = updates
    BY <1>6 DEF EventHandled
  <2>2. Ends(p)' = Ends(p)
    BY <2>1 DEF Ends
  <2> QED
    BY <1>0, <1>1, <1>2, <1>3, <1>4, <1>5, <2>1, <2>2 DEF PresenceOf
<1>7. CASE SaveHandled(p)
  <2>1. /\ FirstOf(p).type # "saved" /\ book'[p].lastSaved = book[p].lastSaved /\ updates' = updates
    BY <1>7 DEF SaveHandled
  <2>2. Ends(p)' = Ends(p)
    BY <2>1 DEF Ends
  <2>3. CASE /\ book[p].saving = None /\ book[p].lastSaved < FirstOf(p).nr
             /\ book'[p].saving = FirstOf(p).nr
             /\ Longer(writing[p], writing'[p], [nr |-> FirstOf(p).nr, applied |-> book[p].applied])
    <3>1. writing[p] = <<>> /\ OfType(p, "saved") = {}
      BY <1>0, <1>2, <2>3 DEF PresenceOf
    <3>2. /\ Len(writing'[p]) = 1 /\ writing'[p] # <<>>
          /\ writing'[p][1].nr = FirstOf(p).nr
      BY <2>3, <3>1 DEF Longer
    <3>3. FirstOf(p).nr # None
      <4>1. FirstOf(p).nr \in Int /\ FirstOf(p).nr >= -1
        <5>1. 1 \in DOMAIN book[p].mailbox /\ FirstOf(p).type = "save"
          BY <1>1, <1>7 DEF OneMessage, SaveHandled
        <5> QED
          BY <5>1, NumbersIs, NumbersTyped DEF NumbersOf, Covered, FirstOf
      <4> QED
        BY <4>1 DEF None
    <3> QED
      BY <1>0, <1>1, <1>2, <1>3, <1>4, <1>5, <2>1, <2>2, <2>3, <3>1, <3>2, <3>3 DEF PresenceOf
  <2>4. CASE book'[p].saving = book[p].saving /\ writing' = writing
    BY <1>0, <1>1, <1>2, <1>3, <1>4, <1>5, <2>1, <2>2, <2>4 DEF PresenceOf
  <2> QED
    BY <1>7, <2>3, <2>4 DEF SaveHandled
<1>8. CASE SavedHandled(p)
  <2>1. /\ FirstOf(p).type = "saved" /\ book'[p].lastSaved = book[p].saving /\ book'[p].saving = None
        /\ writing' = writing /\ Longer(updates[p], updates'[p], book[p].saving)
    BY <1>8 DEF SavedHandled, Reports
  <2>2. OfType(p, "saved") # {}
    <3>1. 1 \in DOMAIN book[p].mailbox
      BY <1>1 DEF OneMessage
    <3> QED
      BY <2>1, <3>1 DEF OfType, FirstOf
  <2>3. snapshot[p].nr = book[p].saving /\ writing[p] = <<>>
    BY <1>0, <1>2, <2>2 DEF PresenceOf
  <2>4. book[p].saving # Terminated
    <3>1. snapshot[p].nr >= -1 /\ snapshot[p].nr \in Int
      BY NumbersIs, NumbersTyped DEF NumbersOf, Covered
    <3> QED
      BY <2>3, <3>1 DEF Terminated
  <2>5. Stops(updates'[p]) = Stops(updates[p])
    BY <1>0, <2>1, <2>4, NumsLonger
  <2>6. Ends(p)' = Ends(p)
    BY <2>5 DEF Ends, Stops
  <2> QED
    BY <1>1, <1>2, <1>3, <1>4, <1>5, <2>1, <2>3, <2>6 DEF PresenceOf
<1>9. CASE FailureHandled(p)
  <2>1. /\ FirstOf(p).type = "failed" /\ book'[p].lastSaved = book[p].lastSaved /\ book'[p].saving = None
        /\ writing' = writing /\ updates' = updates
    BY <1>9 DEF FailureHandled
  <2>2. OfType(p, "failed") # {}
    <3>1. 1 \in DOMAIN book[p].mailbox
      BY <1>1 DEF OneMessage
    <3> QED
      BY <2>1, <3>1 DEF OfType, FirstOf
  <2>3. writing[p] = <<>> /\ OfType(p, "saved") = {} /\ snapshot[p].nr = book[p].lastSaved
    BY <1>2, <2>2, FailureIs DEF FailureOf
  <2>4. Ends(p)' = Ends(p)
    BY <2>1 DEF Ends
  <2> QED
    BY <1>0, <1>1, <1>2, <1>3, <1>4, <1>5, <2>1, <2>3, <2>4 DEF PresenceOf
<1> QED
  BY <1>1, <1>6, <1>7, <1>8, <1>9

\* A snapshot is written.
LEMMA PresenceWritten ==
  ASSUME TypeOK, NumbersInv, PresenceInv, NEW p \in Pair, WriteSnapshot(p)
  PROVE  PresenceOf(p)'
<1>0. /\ PresenceOf(p) /\ book[p] \in BookState /\ writing[p] \in Seq(SnapshotState)
      /\ snapshot \in [Pair -> SnapshotState]
  BY PresenceIs, NumbersTyped DEF TypeOK, BookTypes
<1>1. SnapshotWritten(p) /\ UNCHANGED <<orderBooks, updates, nearest>>
  BY WriteSnapshotIs DEF WriteSnapshot, actorVars
<1> DEFINE m == [type |-> "saved", nr |-> writing[p][1].nr]
<1>2. /\ writing[p] # <<>> /\ snapshot'[p] = writing[p][1] /\ SameBut(book[p], book'[p])
      /\ Shorter(writing[p], writing'[p])
      /\ Posts(book[p], book'[p], m) /\ book'[p] \in BookState
      /\ writing'[p] \in Seq(SnapshotState)
  BY <1>0, <1>1 DEF SnapshotWritten, Posts, OneBook
<1>3. writing'[p] = <<>> /\ Len(writing'[p]) <= 1
  <2>1. Len(writing'[p]) = Len(writing[p]) - 1 /\ Len(writing[p]) <= 1 /\ Len(writing[p]) \in Nat \ {0}
    BY <1>0, <1>2 DEF Shorter, PresenceOf
  <2>2. Len(writing'[p]) = 0
    <3> DEFINE n == Len(writing[p])
    <3>1. Len(writing'[p]) = n - 1 /\ n <= 1 /\ n \in Nat /\ n # 0
      BY <2>1
    <3> HIDE DEF n
    <3>2. n = 1
      BY <3>1
    <3> QED
      BY <3>1, <3>2
  <2> QED
    BY <1>2, <2>2
<1>4. Ends(p)' = Ends(p)
  BY <1>1 DEF Ends
<1>5. CASE book[p].state = "off"
  <2>1. book'[p] = book[p]
    BY <1>1, <1>5 DEF SnapshotWritten
  <2>2. orderBooks[p] # "none"
    BY <1>0, <1>2 DEF PresenceOf
  <2> QED
    BY <1>0, <1>1, <1>3, <1>4, <1>5, <2>1, <2>2 DEF PresenceOf
<1>6. CASE book[p].state # "off"
  <2>1. HasType(book'[p], "saved") = HasType(book[p], "saved") \cup {Len(book[p].mailbox) + 1}
    <3>1. m.type = "saved"
      OBVIOUS
    <3>2. book[p] \in BookState /\ book[p].state # "off"
      BY <1>0, <1>6
    <3>3. Posts(book[p], book'[p], m)
      BY <1>2
    <3>4. ASSUME NEW r \in BookState, NEW u, NEW k, Posts(r, u, k), k.type = "saved", r.state # "off"
          PROVE  HasType(u, "saved") = HasType(r, "saved") \cup {Len(r.mailbox) + 1}
      BY <3>4, PostedType
    <3> HIDE DEF m
    <3> QED
      BY ONLY <3>1, <3>2, <3>3, <3>4
  <2>2. OfType(p, "saved") = {} /\ writing[p][1].nr = book[p].saving /\ orderBooks[p] = "up" /\ Ends(p) = {}
    BY <1>0, <1>2, <1>6 DEF PresenceOf
  <2>3. OfType(p, "saved")' = {Len(book[p].mailbox) + 1}
    BY <2>1, <2>2 DEF OfType, HasType
  <2>4. AtMostOne(OfType(p, "saved")')
    BY <2>3 DEF AtMostOne
  <2>5. book'[p].state = book[p].state /\ book'[p].saving = book[p].saving /\ book[p].state # "loading"
    BY <1>0, <1>2 DEF SameBut, PresenceOf
  <2>6. book[p].saving # None
    BY <1>0, <1>2, <1>6 DEF PresenceOf
  <2> QED
    BY <1>1, <1>2, <1>3, <1>4, <1>6, <2>2, <2>3, <2>4, <2>5, <2>6 DEF PresenceOf
<1> QED
  BY <1>5, <1>6

\* A snapshot is not written.
LEMMA PresenceUnwritten ==
  ASSUME TypeOK, PresenceInv, NEW p \in Pair, SnapshotFails(p)
  PROVE  PresenceOf(p)'
<1>0. PresenceOf(p) /\ book[p] \in BookState
  BY PresenceIs, NumbersTyped
<1>1. /\ SnapshotFailed(p) /\ writing[p] # <<>> /\ writing'[p] = <<>>
      /\ UNCHANGED <<orderBooks, updates, nearest, snapshot>> /\ book'[p] \in BookState
  BY FailedIs DEF SnapshotFailed, OneBook, actorVars
<1>2. PICK n \in Int : Posts(book[p], book'[p], FailureAt(n))
  BY FailedIs
<1>3. /\ book'[p].state = book[p].state /\ book'[p].saving = book[p].saving
      /\ book'[p].lastSaved = book[p].lastSaved /\ HasType(book'[p], "saved") = HasType(book[p], "saved")
      /\ book'[p].state = "off" => book'[p] = book[p]
  BY <1>0, <1>1, <1>2, PresencePosted DEF FailureAt
<1>4. orderBooks[p] # "none" /\ book[p].state # "loading"
  BY <1>0, <1>1 DEF PresenceOf
<1>5. Ends(p)' = Ends(p) /\ OfType(p, "saved")' = OfType(p, "saved") /\ Len(writing'[p]) <= 1
  BY <1>1, <1>3 DEF Ends, OfType, HasType
<1> QED
  BY <1>0, <1>1, <1>3, <1>4, <1>5 DEF PresenceOf

\* A book fails.
LEMMA PresenceFails ==
  ASSUME TypeOK, PresenceInv, NEW p \in Pair, BookFails(p)
  PROVE  PresenceOf(p)'
<1>0. PresenceOf(p) /\ updates[p] \in Seq(Int)
  BY PresenceIs DEF TypeOK, ActorTypes
<1>1. /\ book[p].state # "off" /\ book'[p] = NoBook /\ Longer(updates[p], updates'[p], Terminated)
      /\ UNCHANGED <<orderBooks, writing, snapshot, nearest>>
  BY BookFailsIs DEF BookFails, Reports, actorVars
<1>2. Stops(updates'[p]) # {}
  BY <1>0, <1>1, NumsLonger
<1>3. Ends(p)' # {} /\ orderBooks[p] = "up"
  BY <1>0, <1>1, <1>2 DEF Ends, Stops, PresenceOf
<1> QED
  BY <1>0, <1>1, <1>3, StartingIs DEF PresenceOf

\* PresenceInv is preserved.
LEMMA PresenceStep ==
  ASSUME TypeOK, StoreInv, MemoryInv, JournalInv, NumbersInv, CollectInv, PresenceInv, FailureInv,
         MatcherNext
  PROVE  PresenceInv'
<1> SUFFICES ASSUME NEW q \in Pair PROVE PresenceOf(q)'
  BY DEF PresenceInv, PresenceOf
<1>0. PresenceOf(q)
  BY PresenceIs
<1>1. ASSUME NEW p \in Pair, \/ BookRecovers(p) \/ BookHandles(p) \/ WriteSnapshot(p)
                             \/ SnapshotFails(p) \/ BookFails(p), p # q
      PROVE  PresenceOf(q)'
  <2>1. OneBook(p) /\ writing'[q] = writing[q] /\ updates'[q] = updates[q] /\ UNCHANGED <<orderBooks, nearest>>
    <3>1. CASE BookRecovers(p)
      BY <1>1, <3>1, BookRecoversIs DEF BookRecovers, BookRecovered, Reports, actorVars
    <3>2. CASE BookHandles(p)
      BY <1>1, <3>2, BookHandlesIs DEF BookHandles, OneMessage, EventHandled, SaveHandled, SavedHandled,
                                     FailureHandled, Reports, actorVars
    <3>3. CASE WriteSnapshot(p)
      BY <1>1, <3>3, WriteSnapshotIs DEF WriteSnapshot, SnapshotWritten, actorVars
    <3>4. CASE BookFails(p)
      BY <1>1, <3>4, BookFailsIs DEF BookFails, Reports, actorVars
    <3>5. CASE SnapshotFails(p)
      BY <1>1, <3>5, SnapshotFailsIs DEF SnapshotFailed, actorVars
    <3> QED
      BY <1>1, <3>1, <3>2, <3>3, <3>4, <3>5
  <2>2. snapshot'[q] = snapshot[q]
    BY <1>1, WriteSnapshotIs DEF BookRecovers, BookHandles, SnapshotFails, BookFails, SnapshotWritten, TypeOK, BookTypes
  <2> QED
    BY <1>0, <1>1, <2>1, <2>2, PresenceFrame, DueSubset DEF OneBook
<1>2. CASE UNCHANGED <<orderBooks, updates, nearest, bookVars>>
  BY <1>0, <1>2, PresenceFrame, DueSubset DEF bookVars
<1>3. ASSUME NEW p \in Pair, StoreEvent(p) PROVE UNCHANGED <<orderBooks, updates, nearest, bookVars>>
  BY <1>3 DEF StoreEvent, actorVars
<1>4. CASE AddToMemory \/ Poll \/ WriteJournal
  BY <1>2, <1>4 DEF AddToMemory, Poll, WriteJournal, actorVars
<1> QED
  BY <1>1, <1>2, <1>3, <1>4, PresenceHandle, PresenceRestart, PresenceReports, PresenceRecovers,
     PresenceMessage, PresenceWritten, PresenceUnwritten, PresenceFails DEF MatcherNext, MatcherStep

----------------------------------------------------------------------------
(* Snapshots that could not be written *)

\* The parts of a book that FailureOf speaks of
SavesAlike(r, t) ==
  /\ t.state = r.state /\ t.saving = r.saving /\ t.lastSaved = r.lastSaved
  /\ HasType(t, "saved") = HasType(r, "saved") /\ HasType(t, "failed") = HasType(r, "failed")

\* A message that is no answer of the snapshot store changes none of them.
LEMMA AlikePosted ==
  ASSUME NEW r \in BookState, NEW t, NEW m, Posts(r, t, m), m.type \notin {"saved", "failed"}
  PROVE  SavesAlike(r, t)
<1>1. HasType(t, "saved") = HasType(r, "saved") /\ HasType(t, "failed") = HasType(r, "failed")
  BY PostedType
<1> QED
  BY <1>1 DEF Posts, SameBut, SavesAlike

\* A pair that the step does not concern
LEMMA FailureFrame ==
  ASSUME NEW p \in Pair, FailureOf(p), SavesAlike(book[p], book'[p]), writing'[p] = writing[p],
         snapshot'[p] = snapshot[p], unsaved \subseteq unsaved'
  PROVE  FailureOf(p)'
BY DEF FailureOf, SavesAlike, OfType, HasType

\* The events for a book
LEMMA FailureHandle ==
  ASSUME TypeOK, StoreInv, PresenceInv, FailureInv, HandleEvent, NEW q \in Pair
  PROVE  FailureOf(q)'
<1>0. /\ FailureOf(q) /\ PresenceOf(q) /\ book[q] \in BookState /\ UNCHANGED <<writing, snapshot, unsaved>>
  BY FailureIs, PresenceIs, NumbersTyped, HandleEventIs DEF EventTaken
<1> DEFINE o == events[1]
<1>1. PICK s : Gets(q, o, s)
  BY HandledIs
<1> HIDE DEF o
<1> DEFINE r == Before(q, o)
<1>2. r \in BookState /\ s \in BookState
  BY <1>0, <1>1, StartingIs DEF Gets, Before
<1>3. q = PairOf(o) => SavesAlike(r, s)
  <2>1. ASSUME q = PairOf(o) PROVE Posts(r, s, EventAt(o))
    BY <1>1, <2>1 DEF Gets
  <2>2. EventAt(o).type \notin {"saved", "failed"}
    BY DEF EventAt
  <2> HIDE DEF r
  <2> QED
    BY <1>2, <2>1, <2>2, AlikePosted
<1>4. SavesAlike(s, book'[q])
  <2>1. CASE Told(q, o)
    <3>1. Posts(s, book'[q], SaveAt(o)) /\ SaveAt(o).type \notin {"saved", "failed"}
      BY <1>1, <2>1 DEF Gets, SaveAt
    <3> QED
      BY <1>2, <3>1, AlikePosted
  <2>2. CASE ~Told(q, o)
    BY <1>1, <2>2 DEF Gets, SavesAlike
  <2> QED
    BY <2>1, <2>2
<1>5. CASE q = PairOf(o) /\ orderBooks[q] = "none"
  <2>1. r = StartingBook /\ SavesAlike(StartingBook, book'[q])
    BY <1>3, <1>4, <1>5 DEF SavesAlike, Before
  <2>2. HasType(book'[q], "failed") = {} /\ writing'[q] = <<>>
    BY <1>0, <1>5, <2>1, StartingIs DEF SavesAlike, HasType, PresenceOf
  <2> QED
    BY <2>2 DEF FailureOf, OfType, HasType, AtMostOne
<1>6. CASE ~(q = PairOf(o) /\ orderBooks[q] = "none")
  <2>1. r = book[q]
    BY <1>6 DEF Before
  <2>2. SavesAlike(book[q], s)
    <3>1. CASE q = PairOf(o)
      BY <1>3, <2>1, <3>1
    <3>2. CASE q # PairOf(o)
      BY <1>1, <3>2 DEF Gets, SavesAlike
    <3> QED
      BY <3>1, <3>2
  <2>3. SavesAlike(book[q], book'[q])
    BY <1>4, <2>2 DEF SavesAlike
  <2> QED
    BY <1>0, <2>3, FailureFrame
<1> QED
  BY <1>5, <1>6

\* A book takes a message.
LEMMA FailureMessage ==
  ASSUME TypeOK, PresenceInv, FailureInv, NEW p \in Pair, BookHandles(p)
  PROVE  FailureOf(p)'
<1>0. FailureOf(p) /\ PresenceOf(p) /\ book[p] \in BookState
  BY FailureIs, PresenceIs, NumbersTyped
<1>1. /\ OneMessage(p) /\ snapshot' = snapshot /\ unsaved' = unsaved
      /\ EventHandled(p) \/ SaveHandled(p) \/ SavedHandled(p) \/ FailureHandled(p)
  BY BookHandlesIs DEF BookHandles, journalVars
<1>2. /\ book[p].state = "ready" /\ book'[p].state = "ready" /\ book[p].mailbox # <<>>
      /\ Shorter(book[p].mailbox, book'[p].mailbox) /\ 1 \in DOMAIN book[p].mailbox
  BY <1>1 DEF OneMessage
<1> DEFINE Had(t) == HasType(book[p], t)
           Has(t) == HasType(book'[p], t)
<1>3. ASSUME NEW t, AtMostOne(Had(t))
      PROVE  /\ AtMostOne(Has(t))
             /\ FirstOf(p).type = t => Has(t) = {} /\ Had(t) # {}
             /\ FirstOf(p).type # t => (Has(t) = {} <=> Had(t) = {})
  <2>1. FirstOf(p).type = t => 1 \in Had(t)
    BY <1>2 DEF HasType, FirstOf
  <2> QED
    BY <1>0, <1>2, <1>3, <2>1, TypeTaken DEF FirstOf
<1>4. AtMostOne(Had("failed")) /\ AtMostOne(Had("saved"))
  BY <1>0, <1>2 DEF FailureOf, PresenceOf, OfType, HasType
<1>5. /\ Had("failed") # {} => book[p].saving # None /\ writing[p] = <<>> /\ Had("saved") = {}
                              /\ p \in unsaved
      /\ writing[p] # <<>> \/ Had("failed") # {} => snapshot[p].nr = book[p].lastSaved
      /\ book[p].saving = None => snapshot[p].nr = book[p].lastSaved
      /\ Had("saved") # {} => writing[p] = <<>>
  BY <1>0, <1>2 DEF FailureOf, PresenceOf, OfType, HasType
<1>6. SUFFICES /\ AtMostOne(Has("failed"))
               /\ Has("failed") # {} =>
                    book'[p].saving # None /\ writing'[p] = <<>> /\ Has("saved") = {}
                    /\ p \in unsaved'
               /\ writing'[p] # <<>> \/ Has("failed") # {} => snapshot'[p].nr = book'[p].lastSaved
  BY <1>2 DEF FailureOf, OfType, HasType
<1>f. /\ AtMostOne(Has("failed"))
      /\ FirstOf(p).type = "failed" => Has("failed") = {} /\ Had("failed") # {}
      /\ FirstOf(p).type # "failed" => (Has("failed") = {} <=> Had("failed") = {})
  BY <1>3, <1>4
<1>s. /\ FirstOf(p).type = "saved" => Has("saved") = {} /\ Had("saved") # {}
      /\ FirstOf(p).type # "saved" => (Has("saved") = {} <=> Had("saved") = {})
  BY <1>3, <1>4
<1> HIDE DEF Had, Has
<1>7. CASE EventHandled(p)
  BY <1>1, <1>5, <1>f, <1>s, <1>7 DEF EventHandled
<1>8. CASE SaveHandled(p)
  BY <1>1, <1>5, <1>f, <1>s, <1>8 DEF SaveHandled
<1>9. CASE SavedHandled(p)
  BY <1>1, <1>5, <1>f, <1>s, <1>9 DEF SavedHandled
<1>10. CASE FailureHandled(p)
  BY <1>1, <1>5, <1>f, <1>s, <1>10 DEF FailureHandled
<1> QED
  BY <1>1, <1>7, <1>8, <1>9, <1>10

\* The snapshot store answers.
LEMMA FailureAnswered ==
  ASSUME TypeOK, PresenceInv, FailureInv, NEW p \in Pair, WriteSnapshot(p) \/ SnapshotFails(p)
  PROVE  FailureOf(p)'
<1>0. FailureOf(p) /\ PresenceOf(p) /\ book[p] \in BookState
  BY FailureIs, PresenceIs, NumbersTyped
<1>1. /\ writing[p] # <<>> /\ writing'[p] = <<>>
      /\ \E n \in Int : \/ WriteSnapshot(p) /\ Posts(book[p], book'[p], [type |-> "saved", nr |-> n])
                       \/ /\ SnapshotFails(p) /\ snapshot' = snapshot
                          /\ Posts(book[p], book'[p], FailureAt(n))
  <2>1. CASE WriteSnapshot(p)
    <3>1. SnapshotWritten(p) /\ writing[p][1].nr \in Int
      BY <2>1, WriteSnapshotIs, NumbersTyped DEF SnapshotWritten
    <3>2. Posts(book[p], book'[p], [type |-> "saved", nr |-> writing[p][1].nr])
      BY <3>1 DEF SnapshotWritten, Posts
    <3>3. writing[p] \in Seq(SnapshotState) /\ Len(writing[p]) <= 1 /\ writing'[p] \in Seq(SnapshotState)
      BY <1>0, <3>1 DEF SnapshotWritten, TypeOK, BookTypes, PresenceOf
    <3>4. writing'[p] = <<>>
      BY <3>1, <3>3 DEF SnapshotWritten, Shorter
    <3> QED
      BY <2>1, <3>1, <3>2, <3>4 DEF SnapshotWritten
  <2>2. CASE SnapshotFails(p)
    BY <2>2, FailedIs DEF SnapshotFailed
  <2> QED
    BY <2>1, <2>2
<1>2. book'[p].state = book[p].state /\ book'[p].saving = book[p].saving /\ book'[p].lastSaved = book[p].lastSaved
  BY <1>1 DEF Posts, SameBut
<1>3. CASE book[p].state = "off"
  BY <1>2, <1>3 DEF FailureOf
<1>4. ASSUME book[p].state # "off"
      PROVE  /\ HasType(book[p], "failed") = {} /\ HasType(book[p], "saved") = {}
             /\ book[p].saving # None /\ book[p].state = "ready" /\ snapshot[p].nr = book[p].lastSaved
  BY <1>0, <1>1, <1>4 DEF FailureOf, PresenceOf, OfType, HasType
<1>5. CASE book[p].state # "off" /\ WriteSnapshot(p) /\ ~SnapshotFails(p)
  <2>1. HasType(book'[p], "failed") = {}
    <3>1. PICK n \in Int : Posts(book[p], book'[p], [type |-> "saved", nr |-> n])
      BY <1>1, <1>5
    <3>2. HasType(book'[p], "failed") = HasType(book[p], "failed")
      BY <1>0, <3>1, PostedType
    <3> QED
      BY <1>4, <1>5, <3>2
  <2> QED
    BY <1>1, <2>1 DEF FailureOf, OfType, HasType, AtMostOne
<1>6. CASE book[p].state # "off" /\ SnapshotFails(p)
  <2>1. PICK n \in Int : Posts(book[p], book'[p], FailureAt(n)) /\ snapshot' = snapshot /\ p \in unsaved'
    BY <1>6, FailedIs DEF SnapshotFailed
  <2>2. /\ HasType(book'[p], "saved") = HasType(book[p], "saved")
        /\ HasType(book'[p], "failed") = HasType(book[p], "failed") \cup {Len(book[p].mailbox) + 1}
    <3>1. FailureAt(n).type = "failed"
      BY DEF FailureAt
    <3> QED
      BY <1>0, <1>6, <2>1, <3>1, PostedType
  <2> QED
    BY <1>1, <1>2, <1>4, <1>6, <2>1, <2>2 DEF FailureOf, OfType, HasType, AtMostOne
<1> QED
  BY <1>3, <1>5, <1>6

\* FailureInv is preserved.
LEMMA FailureStep ==
  ASSUME TypeOK, StoreInv, PresenceInv, FailureInv, MatcherNext
  PROVE  FailureInv'
<1> SUFFICES ASSUME NEW q \in Pair PROVE FailureOf(q)'
  BY DEF FailureInv, FailureOf
<1>0. FailureOf(q) /\ PresenceOf(q)
  BY FailureIs, PresenceIs
<1>1. ASSUME UNCHANGED <<book[q], writing[q], snapshot[q]>>, unsaved \subseteq unsaved' PROVE FailureOf(q)'
  <2>1. SavesAlike(book[q], book'[q])
    BY <1>1 DEF SavesAlike
  <2> QED
    BY <1>0, <1>1, <2>1, FailureFrame
<1>2. ASSUME NEW p \in Pair, p # q, \/ BookRecovers(p) \/ BookHandles(p) \/ WriteSnapshot(p)
                                     \/ SnapshotFails(p) \/ BookFails(p)
      PROVE  UNCHANGED <<book[q], writing[q], snapshot[q]>> /\ unsaved \subseteq unsaved'
  <2>1. CASE BookRecovers(p)
    BY <1>2, <2>1, BookRecoversIs DEF BookRecovers, BookRecovered, OneBook, journalVars
  <2>2. CASE BookHandles(p)
    BY <1>2, <2>2, BookHandlesIs DEF BookHandles, OneMessage, OneBook, EventHandled, SaveHandled,
                                   SavedHandled, FailureHandled, journalVars
  <2>3. CASE WriteSnapshot(p)
    BY <1>2, <2>3, WriteSnapshotIs DEF WriteSnapshot, SnapshotWritten, OneBook, TypeOK, BookTypes, journalVars
  <2>4. CASE SnapshotFails(p)
    BY <1>2, <2>4, SnapshotFailsIs DEF SnapshotFailed, OneBook
  <2>5. CASE BookFails(p)
    BY <1>2, <2>5, BookFailsIs DEF BookFails, OneBook, journalVars
  <2> QED
    BY <1>2, <2>1, <2>2, <2>3, <2>4, <2>5
<1>3. CASE BookRecovers(q)
  <2>1. /\ book[q].state = "loading" /\ book'[q].mailbox = book[q].mailbox /\ UNCHANGED <<writing, snapshot, unsaved>>
    BY <1>3, BookRecoversIs DEF BookRecovered, BookRecovers, journalVars
  <2>2. OfType(q, "failed") = {} /\ writing[q] = <<>>
    BY <1>0, <2>1 DEF FailureOf
  <2> QED
    BY <2>1, <2>2 DEF FailureOf, OfType, AtMostOne
<1>4. CASE BookFails(q)
  BY <1>4, BookFailsIs, StartingIs DEF FailureOf
<1>5. CASE Crash \/ ForcedStop
  <2>1. Started
    BY <1>5, RestartIs
  <2>2. OfType(q, "failed")' = {} /\ writing'[q] = <<>>
    BY <2>1, StartingIs DEF Started, OfType
  <2> QED
    BY <2>2 DEF FailureOf, AtMostOne
<1>6. ASSUME NEW p \in Pair, StoreEvent(p) \/ HandleUpdated(p) \/ HandleTerminated(p) \/ Collect(p)
      PROVE  UNCHANGED <<book[q], writing[q], snapshot[q]>> /\ unsaved \subseteq unsaved'
  BY <1>6 DEF StoreEvent, HandleUpdated, HandleTerminated, Collect, bookVars, journalVars
<1>7. CASE AddToMemory \/ Poll \/ WriteJournal
  BY <1>1, <1>7 DEF AddToMemory, Poll, WriteJournal, bookVars, journalVars
<1> QED
  BY <1>1, <1>2, <1>3, <1>4, <1>5, <1>6, <1>7, FailureHandle, FailureMessage, FailureAnswered
  DEF MatcherNext, MatcherStep

----------------------------------------------------------------------------
(* Whose turn it is *)

\* The two invariants, pair by pair
LEMMA GoesRoundIs == (TurnInv /\ ProgressInv) <=> \A p \in Pair : GoesRound(p)
BY DEF TurnInv, ProgressInv, GoesRound

\* A pair that the step does not concern
LEMMA RoundFrame ==
  ASSUME TypeOK, TypeOK', NEW q \in Pair, GoesRound(q),
         book'[q] = book[q], updates'[q] = updates[q], Due(q)' = Due(q), snapshot'[q] = snapshot[q],
         status' = status, collected'[q] = collected[q], lastProcessedNr' >= lastProcessedNr,
         Excused \subseteq Excused'
  PROVE  GoesRound(q)'
<1>1. /\ OfType(q, "save")' = OfType(q, "save") /\ Numbers(q)' = Numbers(q)
      /\ (Asked(q) <=> Asked(q)') /\ (Saving(q) <=> Saving(q)') /\ (Reported(q) <=> Reported(q)')
      /\ (Loading(q) <=> Loading(q)') /\ (Scheduled(q) <=> Scheduled(q)')
  BY DEF OfType, Numbers, Asked, Saving, Reported, Loading, Scheduled
<1>2. TurnOf(q)'
  BY <1>1 DEF GoesRound, TurnOf
<1>3. ASSUME q \notin Excused' PROVE ProgressOf(q)'
  <2>1. ProgressOf(q)
    BY <1>3 DEF GoesRound
  <2>2. lastProcessedNr \in Int /\ lastProcessedNr' \in Int
    BY DEF TypeOK, ActorTypes
  <2>3. ASSUME NumbersFit(q) PROVE NumbersFit(q)'
    <3>1. ASSUME NEW i \in OfType(q, "save") PROVE book[q].mailbox[i].nr \in Int
      BY NumbersTyped DEF OfType
    <3>2. book[q].saving \in Int
      BY NumbersTyped DEF BookState
    <3>3. ASSUME NEW i \in Numbers(q) PROVE updates[q][i] \in Int
      <4>1. updates[q] \in Seq(Int) /\ i \in DOMAIN updates[q]
        BY DEF TypeOK, ActorTypes, Numbers
      <4> QED
        BY <4>1
    <3> QED
      BY <1>1, <2>2, <2>3, <3>1, <3>2, <3>3 DEF NumbersFit
  <2> QED
    BY <1>1, <2>1, <2>3 DEF ProgressOf
<1> QED
  BY <1>2, <1>3 DEF GoesRound

\* The book q, which the step leaves, off
LEMMA RoundOff ==
  ASSUME NEW q, book'[q].state = "off"
  PROVE  GoesRound(q)'
BY DEF GoesRound, TurnOf, ProgressOf

\* A book that is starting and has not been asked for anything
LEMMA RoundLoads ==
  ASSUME NEW q, book'[q].state = "loading", book'[q].saving = None,
         HasType(book'[q], "save") = {}, updates'[q] = <<>>, Due(q)' = {},
         status' = "working" \/ collected'[q] = None,
         q \notin Excused' /\ status' = "working" => snapshot'[q].nr = -1
  PROVE  GoesRound(q)'
<1>1. OfType(q, "save")' = {} /\ Numbers(q)' = {}
  BY DEF OfType, HasType, Numbers
<1>2. Loading(q)' /\ ~Asked(q)' /\ ~Saving(q)' /\ ~Reported(q)' /\ ~Scheduled(q)'
  BY <1>1 DEF Loading, Asked, Saving, Reported, Scheduled
<1>3. AtMostOne({})
  BY DEF AtMostOne
<1> QED
  BY <1>1, <1>2, <1>3 DEF GoesRound, TurnOf, ProgressOf

----------------------------------------------------------------------------

\* An event, and the request to save that follows it
LEMMA RoundHandle ==
  ASSUME TypeOK, TypeOK', StoreInv, JournalInv, PresenceInv, TurnInv, ProgressInv, HandleEvent, NEW q \in Pair
  PROVE  GoesRound(q)'
<1>0. GoesRound(q) /\ PresenceOf(q) /\ book[q] \in BookState /\ book'[q] \in BookState
  BY GoesRoundIs, PresenceIs, NumbersTyped, HandledIs
<1>1. /\ UNCHANGED <<status, collected, updates, snapshot, writing, journal, orphans, unsaved>> /\ status = "working"
      /\ lastProcessedNr' = MaxOf(events[1], lastProcessedNr) /\ events[1] \in Int
      /\ lastProcessedNr \in Int /\ PairOf(events[1]) \in Pair
  <2>1. EventTaken
    BY HandleEventIs
  <2>2. lastProcessedNr \in Int
    BY DEF TypeOK, ActorTypes
  <2>3. events[1] \in 0 .. Len(log) - 1
    BY <2>1 DEF EventTaken
  <2> QED
    BY <2>1, <2>2, <2>3 DEF EventTaken
<1>2. lastProcessedNr' >= lastProcessedNr /\ lastProcessedNr' >= events[1] /\ lastProcessedNr' \in Int
  BY <1>1 DEF MaxOf
<1> DEFINE o == events[1]
<1>3. PICK s : Gets(q, o, s)
  BY HandledIs
<1>4. nearest' = (IF orderBooks[PairOf(o)] = "up" THEN nearest \ RequiredSnapshots(o) ELSE nearest)
  BY HandledIs
<1>5. o \in Int /\ lastProcessedNr' >= o
  BY <1>1, <1>2
<1> HIDE DEF o
<1> DEFINE r == Before(q, o)
<1>6. r \in BookState /\ s \in BookState
  BY <1>0, <1>3, StartingIs DEF Gets, Before
<1>7. /\ SameBut(r, s) /\ HasType(s, "save") = HasType(r, "save")
      /\ \A i \in HasType(r, "save") : s.mailbox[i] = r.mailbox[i]
  <2>1. CASE q = PairOf(o)
    <3>1. Posts(r, s, EventAt(o)) /\ EventAt(o).type # "save"
      BY <1>3, <2>1 DEF Gets, EventAt
    <3> QED
      BY <1>6, <3>1, PostedType DEF Posts
  <2>2. CASE q # PairOf(o)
    BY <1>3, <2>2 DEF Gets, Before, SameBut
  <2> QED
    BY <2>1, <2>2
<1>8. CASE q = PairOf(o) /\ orderBooks[q] = "none"
  <2>1. r = StartingBook /\ ~Told(q, o) /\ book'[q] = s
    BY <1>3, <1>8 DEF Before, Gets, Told
  <2>2. /\ book'[q].state = "loading" /\ book'[q].saving = None /\ HasType(book'[q], "save") = {}
    BY <1>7, <2>1, StartingIs DEF SameBut, HasType
  <2>3. updates'[q] = <<>> /\ Due(q)' = {}
    <3>1. Due(q) = {} /\ updates[q] = <<>>
      BY <1>0, <1>8 DEF PresenceOf
    <3>2. nearest' \subseteq nearest
      BY <1>4
    <3> QED
      BY <1>1, <3>1, <3>2, DueSubset
  <2>4. q \notin Excused' => snapshot'[q].nr = -1
    BY <1>1, <1>8 DEF JournalInv, Remembered, EmptySnapshot, Excused
  <2> QED
    BY <1>1, <2>2, <2>3, <2>4, RoundLoads
<1>9. CASE ~(q = PairOf(o) /\ orderBooks[q] = "none") /\ book[q].state = "off"
  <2>1. r.state = "off" /\ s.state = "off"
    BY <1>7, <1>9 DEF Before, SameBut
  <2>2. book'[q].state = "off"
    <3>1. CASE Told(q, o)
      BY <1>3, <2>1, <3>1 DEF Gets, Posts
    <3>2. CASE ~Told(q, o)
      BY <1>3, <2>1, <3>2 DEF Gets
    <3> QED
      BY <3>1, <3>2
  <2> QED
    BY <2>2, RoundOff
<1>10. CASE ~(q = PairOf(o) /\ orderBooks[q] = "none") /\ book[q].state # "off"
  <2>0. orderBooks[q] = "up" /\ r = book[q]
    BY <1>0, <1>10 DEF PresenceOf, Before
  <2>1. Numbers(q)' = Numbers(q) /\ (Reported(q)' <=> Reported(q))
    BY <1>1 DEF Numbers, Reported
  <2>2. CASE ~Told(q, o)
    <3>1. book'[q] = s
      BY <1>3, <2>2 DEF Gets
    <3>2. Due(q)' = Due(q)
      <4>1. CASE orderBooks[PairOf(o)] = "up"
        <5>1. \A x \in RequiredSnapshots(o) : x[2] # q
          BY <2>0, <2>2, <4>1 DEF Told, IsTold
        <5> QED
          BY <1>4, <4>1, <5>1 DEF Due
      <4>2. CASE orderBooks[PairOf(o)] # "up"
        BY <1>4, <4>2 DEF Due
      <4> QED
        BY <4>1, <4>2
    <3>3. /\ OfType(q, "save")' = OfType(q, "save")
          /\ \A i \in OfType(q, "save") : book'[q].mailbox[i] = book[q].mailbox[i]
      BY <1>7, <2>0, <3>1 DEF OfType, HasType
    <3>4. /\ book'[q].state = book[q].state /\ book'[q].saving = book[q].saving
          /\ book'[q].lastSaved = book[q].lastSaved
      BY <1>7, <2>0, <3>1 DEF SameBut
    <3>5. /\ (Asked(q)' <=> Asked(q)) /\ (Saving(q)' <=> Saving(q)) /\ (Loading(q)' <=> Loading(q))
          /\ (Scheduled(q)' <=> Scheduled(q))
      BY <1>1, <3>2, <3>3, <3>4 DEF Asked, Saving, Loading, Scheduled
    <3>6. TurnOf(q)'
      BY <1>0, <2>1, <3>2, <3>3, <3>4, <3>5 DEF GoesRound, TurnOf
    <3>7. ASSUME q \notin Excused' PROVE ProgressOf(q)'
      <4>1. ProgressOf(q)
        BY <1>0, <1>1, <3>7 DEF GoesRound, Excused
      <4>2. ASSUME NumbersFit(q) PROVE NumbersFit(q)'
        <5>1. ASSUME NEW i \in OfType(q, "save") PROVE book[q].mailbox[i].nr \in Int
          BY NumbersTyped DEF OfType
        <5>2. book[q].saving \in Int
          BY <1>0 DEF BookState
        <5>3. ASSUME NEW i \in Numbers(q) PROVE updates[q][i] \in Int
          <6>1. updates[q] \in Seq(Int) /\ i \in DOMAIN updates[q]
            BY DEF TypeOK, ActorTypes, Numbers
          <6> QED
            BY <6>1
        <5> QED
          BY <1>1, <1>2, <2>1, <3>2, <3>3, <3>4, <3>5, <4>2, <5>1, <5>2, <5>3 DEF NumbersFit
      <4> QED
        BY <1>1, <2>1, <3>4, <3>5, <4>1, <4>2 DEF ProgressOf
    <3> QED
      BY <3>6, <3>7 DEF GoesRound
  <2>3. CASE Told(q, o)
    <3>1. Posts(s, book'[q], SaveAt(o)) /\ SaveAt(o).type = "save" /\ SaveAt(o).nr = o
      BY <1>3, <2>3 DEF Gets, SaveAt
    <3>2. PICK x \in RequiredSnapshots(o) : x[2] = q
      BY <2>3 DEF Told, IsTold
    <3>3. x \in Due(q) /\ x[1] <= o
      BY <3>2 DEF RequiredSnapshots, Due
    <3>4. Scheduled(q) /\ AtMostOne(Due(q)) /\ ~Asked(q) /\ ~Saving(q) /\ ~Reported(q) /\ ~Loading(q)
      BY <1>0, <1>10, <3>3 DEF GoesRound, TurnOf, Scheduled
    <3>5. Due(q)' = {}
      <4>1. nearest' = nearest \ RequiredSnapshots(o)
        BY <1>4, <2>3 DEF Told
      <4>2. \A y \in Due(q) : y = x
        BY <3>3, <3>4 DEF AtMostOne
      <4> QED
        BY <3>2, <4>1, <4>2 DEF Due
    <3>6. /\ s.state = book[q].state /\ s.saving = book[q].saving /\ s.lastSaved = book[q].lastSaved
          /\ book'[q].state = book[q].state /\ book'[q].saving = book[q].saving
          /\ book'[q].lastSaved = book[q].lastSaved
      BY <1>7, <2>0, <3>1 DEF SameBut, Posts
    <3>7. HasType(book'[q], "save") = {Len(s.mailbox) + 1} /\ book'[q].mailbox[Len(s.mailbox) + 1] = SaveAt(o)
      <4>1. HasType(s, "save") = {}
        BY <1>7, <2>0, <3>4 DEF Asked, OfType, HasType
      <4>2. s.state # "off"
        BY <1>10, <3>6
      <4>3. ASSUME NEW k, k.type = "save", NEW u, Posts(s, u, k)
            PROVE  HasType(u, "save") = HasType(s, "save") \cup {Len(s.mailbox) + 1}
                   /\ u.mailbox[Len(s.mailbox) + 1] = k
        BY <1>6, <4>2, <4>3, PostedType
      <4> QED
        BY <3>1, <4>1, <4>3
    <3>8. OfType(q, "save")' = {Len(s.mailbox) + 1}
      BY <3>7 DEF OfType, HasType
    <3>9. /\ Asked(q)' /\ ~Saving(q)' /\ ~Reported(q)' /\ ~Loading(q)' /\ ~Scheduled(q)'
          /\ Numbers(q)' = {}
      BY <1>1, <2>1, <3>4, <3>5, <3>6, <3>8 DEF Asked, Saving, Reported, Loading, Scheduled
    <3>10. AtMostOne({}) /\ AtMostOne({Len(s.mailbox) + 1})
      BY DEF AtMostOne
    <3>11. TurnOf(q)'
      BY <3>5, <3>8, <3>9, <3>10 DEF TurnOf
    <3>12. ASSUME q \notin Excused' PROVE ProgressOf(q)'
      <4>1. ProgressOf(q)
        BY <1>0, <1>1, <3>12 DEF GoesRound, Excused
      <4>2. ASSUME book'[q].state = "ready" PROVE NumbersFit(q)'
        <5>1. x[1] > book[q].lastSaved /\ book[q].lastSaved \in Int
          BY <1>0, <4>1, <4>2, <3>3, <3>6 DEF ProgressOf, NumbersFit, BookState
        <5>2. x[1] \in Int
          <6>1. nearest \subseteq Int \X Pair /\ x \in nearest
            BY <3>3 DEF Due, TypeOK, ActorTypes
          <6> QED
            BY <6>1
        <5>3. book[q].lastSaved < o
          BY <1>5, <3>3, <5>1, <5>2
        <5> QED
          BY <1>5, <3>1, <3>5, <3>6, <3>7, <3>8, <3>9, <5>3 DEF NumbersFit
      <4> QED
        BY <3>9, <4>2 DEF ProgressOf
    <3> QED
      BY <3>11, <3>12 DEF GoesRound
  <2> QED
    BY <2>2, <2>3
<1> QED
  BY <1>8, <1>9, <1>10

\* A book that has reported is scheduled anew, at a later offset.
LEMMA RoundUpdated ==
  ASSUME TypeOK, TypeOK', StoreInv, PresenceInv, TurnInv, ProgressInv, NEW p \in Pair, HandleUpdated(p),
         NEW q \in Pair
  PROVE  GoesRound(q)'
<1>0. /\ GoesRound(q) /\ updates \in [Pair -> Seq(Int)] /\ updates[p] \in Seq(Int) /\ lastProcessedNr \in Nat
      /\ nearest \subseteq Int \X Pair
  BY GoesRoundIs DEF TypeOK, ActorTypes
<1>1. /\ updates[p] # <<>> /\ updates' = [updates EXCEPT ![p] = Tail(@)] /\ status = "working"
      /\ Head(updates[p]) # Terminated
      /\ nearest' = nearest \cup {<<NextSnapshotOffset(p, Head(updates[p]), lastProcessedNr), p>>}
      /\ UNCHANGED <<status, collected, lastProcessedNr, book, snapshot, orphans, unsaved>>
  BY DEF HandleUpdated, bookVars, journalVars
<1>2. Takes(p) /\ Head(updates[p]) = updates[p][1]
  BY <1>1, TakesIs
<1> DEFINE n == updates[p][1]
           x == <<NextSnapshotOffset(p, n, lastProcessedNr), p>>
<1>3. n \in Int /\ n # Terminated /\ 1 \in DOMAIN updates[p] /\ Shorter(updates[p], updates'[p])
      /\ nearest' = nearest \cup {x}
  BY <1>1, <1>2 DEF Takes
<1>4. x[1] \in Int /\ x[1] > lastProcessedNr /\ x[2] = p
  BY <1>0, <1>3, NextIsLater
<1> HIDE DEF x
<1>5. CASE q # p
  <2>1. updates'[q] = updates[q]
    BY <1>2, <1>5 DEF Takes
  <2>2. Due(q)' = Due(q)
    BY <1>3, <1>4, <1>5 DEF Due
  <2>3. lastProcessedNr' >= lastProcessedNr
    BY <1>0, <1>1
  <2> QED
    BY <1>0, <1>1, <2>1, <2>2, <2>3, RoundFrame DEF Excused
<1>6. CASE q = p /\ book[p].state = "off"
  BY <1>1, <1>6, RoundOff
<1>7. CASE q = p /\ book[p].state # "off"
  <2>1. 1 \in Numbers(p) /\ Reported(p)
    BY <1>3 DEF Numbers, Reported
  <2>2. /\ AtMostOne(Numbers(p)) /\ ~Asked(p) /\ ~Saving(p) /\ ~Loading(p) /\ ~Scheduled(p)
    BY <1>0, <1>7, <2>1 DEF GoesRound, TurnOf
  <2>3. Numbers(p)' = {}
    <3>1. Nums(updates'[p]) = {}
      <4>1. AtMostOne(Nums(updates[p]))
        BY <2>2, NumsAre
      <4> QED
        BY <1>0, <1>1, <1>3, <4>1, NumsShorter
    <3> QED
      BY <3>1 DEF Numbers, Nums
  <2>4. Due(p)' = {x}
    <3>1. Due(p) = {}
      BY <2>2 DEF Scheduled
    <3> QED
      BY <1>3, <1>4, <3>1 DEF Due
  <2>5. OfType(p, "save")' = {}
    BY <1>1, <2>2 DEF OfType, Asked
  <2>6. ~Asked(p)' /\ ~Saving(p)' /\ ~Reported(p)' /\ ~Loading(p)' /\ Scheduled(p)'
    BY <1>1, <2>2, <2>3, <2>4, <2>5 DEF Asked, Saving, Reported, Loading, Scheduled
  <2>7. AtMostOne({}) /\ AtMostOne({x})
    BY DEF AtMostOne
  <2>8. TurnOf(p)'
    BY <2>3, <2>4, <2>5, <2>6, <2>7 DEF TurnOf
  <2>9. ASSUME p \notin Excused' PROVE ProgressOf(p)'
    <3>1. ProgressOf(p)
      BY <1>0, <1>1, <1>7, <2>9 DEF GoesRound, Excused
    <3>2. ASSUME book'[p].state = "ready" PROVE NumbersFit(p)'
      <4>1. n = book[p].lastSaved /\ n <= lastProcessedNr
        BY <1>1, <1>7, <2>1, <3>1, <3>2 DEF ProgressOf, NumbersFit
      <4>2. x[1] > book'[p].lastSaved
        BY <1>0, <1>1, <1>3, <1>4, <4>1
      <4> QED
        BY <2>3, <2>4, <2>5, <2>6, <4>2 DEF NumbersFit
    <3> QED
      BY <2>6, <3>2 DEF ProgressOf
  <2> QED
    BY <1>7, <2>8, <2>9 DEF GoesRound
<1> QED
  BY <1>5, <1>6, <1>7

\* A book that has failed leaves the round.
LEMMA RoundTerminated ==
  ASSUME TypeOK, TypeOK', StoreInv, PresenceInv, TurnInv, ProgressInv, NEW p \in Pair, HandleTerminated(p),
         NEW q \in Pair
  PROVE  GoesRound(q)'
<1>0. GoesRound(q) /\ PresenceOf(p) /\ updates[p] \in Seq(Int) /\ lastProcessedNr \in Nat
  BY GoesRoundIs, PresenceIs DEF TypeOK, ActorTypes
<1>1. /\ updates[p] # <<>> /\ updates' = [updates EXCEPT ![p] = Tail(@)]
      /\ Head(updates[p]) = Terminated
      /\ UNCHANGED <<status, collected, lastProcessedNr, nearest, book, snapshot, orphans, unsaved>>
  BY DEF HandleTerminated, bookVars, journalVars
<1>2. Takes(p) /\ Head(updates[p]) = updates[p][1]
  BY <1>1, TakesIs
<1>3. CASE q = p
  <2>1. Stops(updates[p]) # {}
    BY <1>0, <1>1, <1>2, NumsShorter DEF Takes
  <2>2. book[p].state = "off"
    BY <1>0, <2>1 DEF PresenceOf, Ends, Stops
  <2> QED
    BY <1>1, <1>3, <2>2, RoundOff
<1>4. CASE q # p
  <2>1. updates'[q] = updates[q] /\ Due(q)' = Due(q) /\ lastProcessedNr' >= lastProcessedNr
    BY <1>0, <1>1, <1>2, <1>4 DEF Takes, Due
  <2> QED
    BY <1>0, <1>1, <2>1, RoundFrame DEF Excused
<1> QED
  BY <1>3, <1>4

\* When all books have reported, every one of them has its next snapshot set.
LEMMA RoundStarts ==
  ASSUME TypeOK, TypeOK', StoreInv, MemoryInv, NumbersInv, CollectInv, PresenceInv, TurnInv, ProgressInv,
         NEW p \in Pair, CollectedOne(p), StartsWorking, NEW q \in Pair
  PROVE  GoesRound(q)'
<1>0. /\ GoesRound(q) /\ PresenceOf(q) /\ updates \in [Pair -> Seq(Int)] /\ updates[p] \in Seq(Int)
      /\ lastProcessedNr \in Nat /\ collected \in [Pair -> Int]
      /\ snapshot[q].nr \in Int /\ snapshot[q].nr >= -1 /\ book[q] \in BookState
  <2>1. snapshot[q].nr \in Int /\ snapshot[q].nr >= -1
    BY NumbersIs, NumbersTyped DEF NumbersOf, Covered
  <2> QED
    BY <2>1, GoesRoundIs, PresenceIs, NumbersTyped DEF TypeOK, ActorTypes
<1>1. /\ status = "collecting" /\ Takes(p) /\ updates[p][1] # Terminated
      /\ collected' = [collected EXCEPT ![p] = updates[p][1]]
      /\ UNCHANGED <<lastProcessedNr, book, snapshot, orphans, unsaved>>
      /\ status' = "working" /\ nearest' = NearestAtStart(collected')
  BY DEF CollectedOne, StartsWorking, bookVars, journalVars
<1>2. CASE book[q].state = "off"
  BY <1>1, <1>2, RoundOff
<1>3. CASE book[q].state # "off"
  <2>1. PICK n : StartsAt(n)
    BY StartsAtIs
  <2>2. q \in journal
    BY <1>0, <1>1, <1>3 DEF PresenceOf, CollectInv, CollectsFrom, Waiting
  <2>3. collected'[q] = snapshot[q].nr
    BY <2>1, <2>2 DEF StartsAt
  <2>4. book[q].mailbox = <<>> /\ book[q].saving = None
    BY <1>1 DEF CollectInv, CollectsFrom, Waiting
  \* the book has no report left on its way
  <2>5. Numbers(q)' = {} /\ ~Loading(q)
    <3>1. CASE q = p
      <4>1. 1 \in Numbers(p) /\ Reported(p)
        BY <1>1 DEF Takes, Numbers, Reported
      <4>2. AtMostOne(Numbers(p)) /\ ~Loading(p)
        BY <1>0, <1>3, <3>1, <4>1 DEF GoesRound, TurnOf
      <4>3. Nums(updates'[p]) = {}
        <5>1. AtMostOne(Nums(updates[p]))
          BY <4>2, NumsAre
        <5> QED
          BY <1>0, <1>1, <5>1, NumsShorter DEF Takes
      <4> QED
        BY <3>1, <4>2, <4>3 DEF Numbers, Nums
    <3>2. CASE q # p
      <4>1. collected[q] # None
        BY <1>0, <1>1, <2>3, <3>2 DEF None
      <4>2. ~Reported(q) /\ ~Loading(q)
        BY <1>0, <1>1, <1>3, <4>1 DEF GoesRound, TurnOf, Scheduled
      <4>3. updates'[q] = updates[q]
        BY <1>1, <3>2 DEF Takes
      <4> QED
        BY <4>2, <4>3 DEF Reported, Numbers
    <3> QED
      BY <3>1, <3>2
  <2> DEFINE d == snapshot[q].nr + NextSnapshotOffset(q, snapshot[q].nr, lastProcessedNr)
  <2>6. Due(q)' = {<<d, q>>}
    <3>1. collected'[q] # None
      BY <1>0, <2>3 DEF None
    <3> QED
      BY <1>1, <2>3, <3>1 DEF Due, NearestAtStart
  <2>7. d > snapshot[q].nr
    <3>1. NextSnapshotOffset(q, snapshot[q].nr, lastProcessedNr) \in Int
          /\ NextSnapshotOffset(q, snapshot[q].nr, lastProcessedNr) > lastProcessedNr
      BY <1>0, NextIsLater
    <3> DEFINE k == NextSnapshotOffset(q, snapshot[q].nr, lastProcessedNr)
    <3> HIDE DEF k
    <3>2. k \in Int /\ k > 0
      BY <1>0, <3>1 DEF k
    <3> QED
      BY <1>0, <3>2 DEF k
  <2> HIDE DEF d
  <2>8. OfType(q, "save")' = {}
    BY <1>1, <2>4 DEF OfType
  <2>9. ~Asked(q)' /\ ~Saving(q)' /\ ~Reported(q)' /\ ~Loading(q)' /\ Scheduled(q)'
    BY <1>1, <2>4, <2>5, <2>6, <2>8 DEF Asked, Saving, Reported, Loading, Scheduled
  <2>10. AtMostOne({}) /\ AtMostOne({<<d, q>>})
    BY DEF AtMostOne
  <2>11. TurnOf(q)'
    BY <2>5, <2>6, <2>8, <2>9, <2>10 DEF TurnOf
  <2>12. ProgressOf(q)'
    <3>1. ASSUME book'[q].state = "ready" PROVE NumbersFit(q)'
      <4>1. book[q].lastSaved = snapshot[q].nr
        BY <1>0, <1>1, <2>4, <3>1 DEF PresenceOf
      <4> QED
        BY <1>1, <2>5, <2>6, <2>7, <2>8, <2>9, <4>1 DEF NumbersFit
    <3> QED
      BY <2>9, <3>1 DEF ProgressOf
  <2> QED
    BY <2>11, <2>12 DEF GoesRound
<1> QED
  BY <1>2, <1>3

\* While MatcherActor collects, a book that has reported counts as scheduled.
LEMMA RoundWaits ==
  ASSUME TypeOK, TypeOK', StoreInv, NumbersInv, CollectInv, PresenceInv, TurnInv, ProgressInv,
         NEW p \in Pair, CollectedOne(p), GoesOnWaiting, NEW q \in Pair
  PROVE  GoesRound(q)'
<1>0. /\ GoesRound(q) /\ PresenceOf(p) /\ updates \in [Pair -> Seq(Int)] /\ updates[p] \in Seq(Int)
      /\ lastProcessedNr \in Nat /\ collected \in [Pair -> Int]
      /\ snapshot[p].nr \in Int /\ snapshot[p].nr >= -1
  <2>1. snapshot[p].nr \in Int /\ snapshot[p].nr >= -1
    BY NumbersIs, NumbersTyped DEF NumbersOf, Covered
  <2> QED
    BY <2>1, GoesRoundIs, PresenceIs DEF TypeOK, ActorTypes
<1>1. /\ status = "collecting" /\ Takes(p) /\ updates[p][1] # Terminated
      /\ collected' = [collected EXCEPT ![p] = updates[p][1]]
      /\ UNCHANGED <<lastProcessedNr, book, snapshot, orphans, unsaved, status, nearest>>
  BY DEF CollectedOne, GoesOnWaiting, bookVars, journalVars
<1>2. Due(q)' = Due(q) /\ lastProcessedNr' >= lastProcessedNr
  BY <1>0, <1>1 DEF Due
<1>3. CASE q # p
  <2>1. updates'[q] = updates[q] /\ collected'[q] = collected[q]
    BY <1>0, <1>1, <1>3 DEF Takes
  <2> QED
    BY <1>0, <1>1, <1>2, <2>1, RoundFrame DEF Excused
<1>4. CASE q = p /\ book[p].state = "off"
  BY <1>1, <1>4, RoundOff
<1>5. CASE q = p /\ book[p].state # "off"
  <2>1. 1 \in Numbers(p) /\ Reported(p)
    BY <1>1 DEF Takes, Numbers, Reported
  <2>2. AtMostOne(Numbers(p)) /\ ~Asked(p) /\ ~Saving(p) /\ ~Loading(p) /\ ~Scheduled(p)
    BY <1>0, <1>5, <2>1 DEF GoesRound, TurnOf
  <2>3. Numbers(p)' = {}
    <3>1. Nums(updates'[p]) = {}
      <4>1. AtMostOne(Nums(updates[p]))
        BY <2>2, NumsAre
      <4> QED
        BY <1>0, <1>1, <4>1, NumsShorter DEF Takes
    <3> QED
      BY <3>1 DEF Numbers, Nums
  <2>4. collected'[p] # None
    <3>1. updates[p][1] = snapshot[p].nr
      BY <1>1 DEF CollectInv, CollectsFrom, Waiting, Takes
    <3> QED
      BY <1>0, <1>1, <3>1 DEF None
  <2>5. Due(p)' = {} /\ OfType(p, "save")' = {}
    BY <1>1, <2>2 DEF Scheduled, Due, Asked, OfType
  <2>6. ~Asked(p)' /\ ~Saving(p)' /\ ~Reported(p)' /\ ~Loading(p)' /\ Scheduled(p)'
    BY <1>1, <2>2, <2>3, <2>4, <2>5 DEF Asked, Saving, Reported, Loading, Scheduled
  <2>7. AtMostOne({})
    BY DEF AtMostOne
  <2>8. TurnOf(p)'
    BY <2>3, <2>5, <2>6, <2>7 DEF TurnOf
  <2>9. ProgressOf(p)'
    BY <2>3, <2>5, <2>6 DEF ProgressOf, NumbersFit
  <2> QED
    BY <1>5, <2>8, <2>9 DEF GoesRound
<1> QED
  BY <1>3, <1>4, <1>5

\* What the round keeps of a report that is added
LEMMA OneMore ==
  ASSUME NEW s \in Seq(Int), NEW t, NEW n, Longer(s, t, n), n # Terminated, Nums(s) = {}
  PROVE  Nums(t) = {Len(s) + 1} /\ t[Len(s) + 1] = n /\ AtMostOne(Nums(t))
<1>1. Nums(t) = {Len(s) + 1} /\ t[Len(s) + 1] = n
  BY NumsLonger
<1> QED
  BY <1>1 DEF AtMostOne

\* A book that has recovered reports.
LEMMA RoundRecovers ==
  ASSUME TypeOK, TypeOK', StoreInv, NumbersInv, PresenceInv, TurnInv, ProgressInv, NEW p \in Pair,
         BookRecovers(p)
  PROVE  GoesRound(p)'
<1>0. /\ GoesRound(p) /\ updates[p] \in Seq(Int) /\ lastProcessedNr \in Nat
      /\ snapshot[p].nr \in Int /\ snapshot[p].nr >= -1
  <2>1. snapshot[p].nr \in Int /\ snapshot[p].nr >= -1
    BY NumbersIs, NumbersTyped DEF NumbersOf, Covered
  <2> QED
    BY <2>1, GoesRoundIs DEF TypeOK, ActorTypes
<1>1. /\ BookRecovered(p)
      /\ UNCHANGED <<status, collected, lastProcessedNr, nearest, snapshot, orphans, unsaved>>
  BY BookRecoversIs DEF BookRecovers, actorVars, journalVars
<1>2. /\ book[p].state = "loading" /\ book'[p].state = "ready" /\ book'[p].lastSaved = snapshot[p].nr
      /\ book'[p].saving = book[p].saving /\ book'[p].mailbox = book[p].mailbox
      /\ Longer(updates[p], updates'[p], snapshot[p].nr)
  BY <1>1 DEF BookRecovered, Reports
<1>3. ~Asked(p) /\ ~Saving(p) /\ ~Reported(p) /\ ~Scheduled(p) /\ Loading(p)
  BY <1>0, <1>2 DEF GoesRound, TurnOf, Loading
<1>4. /\ Nums(updates'[p]) = {Len(updates[p]) + 1} /\ updates'[p][Len(updates[p]) + 1] = snapshot[p].nr
      /\ AtMostOne(Nums(updates'[p]))
  <2>1. snapshot[p].nr # Terminated
    BY <1>0 DEF Terminated
  <2>2. Nums(updates[p]) = {}
    BY <1>3, NumsAre DEF Reported
  <2> QED
    BY <1>0, <1>2, <2>1, <2>2, OneMore
<1>5. Numbers(p)' = {Len(updates[p]) + 1} /\ AtMostOne(Numbers(p)')
  BY <1>4 DEF Numbers, Nums
<1>6. Due(p)' = {} /\ OfType(p, "save")' = {}
  BY <1>1, <1>2, <1>3 DEF Due, OfType, Asked, Scheduled
<1>7. ~Asked(p)' /\ ~Saving(p)' /\ Reported(p)' /\ ~Loading(p)' /\ ~Scheduled(p)'
  BY <1>1, <1>2, <1>3, <1>5, <1>6 DEF Asked, Saving, Reported, Loading, Scheduled
<1>8. AtMostOne({})
  BY DEF AtMostOne
<1>9. TurnOf(p)'
  BY <1>5, <1>6, <1>7, <1>8 DEF TurnOf
<1>10. ASSUME p \notin Excused' PROVE ProgressOf(p)'
  <2>1. ProgressOf(p)
    BY <1>0, <1>1, <1>10 DEF GoesRound, Excused
  <2>2. status = "working" => snapshot[p].nr <= lastProcessedNr
    BY <1>0, <1>2, <1>3, <2>1 DEF ProgressOf
  <2>3. NumbersFit(p)'
    BY <1>1, <1>2, <1>4, <1>5, <1>6, <1>7, <2>2 DEF NumbersFit
  <2> QED
    BY <1>7, <2>3 DEF ProgressOf
<1> QED
  BY <1>9, <1>10 DEF GoesRound

\* A snapshot on the disk leaves the book saving until it hears of it.
LEMMA RoundWritten ==
  ASSUME TypeOK, TypeOK', StoreInv, NumbersInv, PresenceInv, TurnInv, ProgressInv, NEW p \in Pair,
         WriteSnapshot(p)
  PROVE  GoesRound(p)'
<1>0. /\ GoesRound(p) /\ PresenceOf(p) /\ lastProcessedNr \in Nat /\ book[p] \in BookState /\ book'[p] \in BookState
  BY GoesRoundIs, PresenceIs, NumbersTyped, WriteSnapshotIs DEF TypeOK, ActorTypes, SnapshotWritten, OneBook
<1>1. /\ SnapshotWritten(p)
      /\ UNCHANGED <<status, collected, lastProcessedNr, nearest, updates, orphans, unsaved>>
  BY WriteSnapshotIs DEF WriteSnapshot, actorVars, journalVars
<1>2. CASE book[p].state = "off"
  BY <1>1, <1>2, RoundOff DEF SnapshotWritten
<1>3. CASE book[p].state # "off"
  <2> DEFINE m == [type |-> "saved", nr |-> writing[p][1].nr]
  <2>1. SameBut(book[p], book'[p]) /\ Posts(book[p], book'[p], m) /\ m.type # "save"
    BY <1>1, <1>3 DEF SnapshotWritten, Posts
  <2>2. /\ HasType(book'[p], "save") = HasType(book[p], "save")
        /\ \A i \in HasType(book[p], "save") : book'[p].mailbox[i] = book[p].mailbox[i]
    <3> HIDE DEF m
    <3> QED
      BY <1>0, <2>1, PostedType
  <2>3. /\ OfType(p, "save")' = OfType(p, "save") /\ Numbers(p)' = Numbers(p) /\ Due(p)' = Due(p)
        /\ \A i \in OfType(p, "save") : book'[p].mailbox[i] = book[p].mailbox[i]
    BY <1>1, <2>2 DEF OfType, HasType, Numbers, Due
  <2>4. /\ book'[p].state = book[p].state /\ book'[p].saving = book[p].saving
        /\ book'[p].lastSaved = book[p].lastSaved /\ book[p].state # "loading"
    BY <1>0, <1>1, <2>1 DEF SameBut, PresenceOf, SnapshotWritten
  <2>5. /\ (Asked(p)' <=> Asked(p)) /\ (Saving(p)' <=> Saving(p)) /\ (Loading(p)' <=> Loading(p))
        /\ (Scheduled(p)' <=> Scheduled(p)) /\ (Reported(p)' <=> Reported(p))
    BY <1>1, <2>3, <2>4 DEF Asked, Saving, Loading, Scheduled, Reported
  <2>6. TurnOf(p)'
    BY <1>0, <2>3, <2>4, <2>5 DEF GoesRound, TurnOf
  <2>7. ASSUME p \notin Excused' PROVE ProgressOf(p)'
    <3>1. ProgressOf(p) /\ ~Loading(p)
      BY <1>0, <1>1, <2>4, <2>7 DEF GoesRound, Loading, Excused
    <3>2. ASSUME NumbersFit(p) PROVE NumbersFit(p)'
      BY <1>1, <2>3, <2>4, <2>5, <3>2 DEF NumbersFit
    <3> QED
      BY <2>4, <2>5, <3>1, <3>2 DEF ProgressOf
  <2> QED
    BY <2>6, <2>7 DEF GoesRound
<1> QED
  BY <1>2, <1>3

\* A book whose snapshot has failed is one of the exceptions.
LEMMA RoundUnwritten ==
  ASSUME TypeOK, PresenceInv, TurnInv, ProgressInv, NEW p \in Pair, SnapshotFails(p)
  PROVE  GoesRound(p)'
<1>0. GoesRound(p) /\ book[p] \in BookState
  BY GoesRoundIs, NumbersTyped
<1>1. /\ UNCHANGED <<status, collected, lastProcessedNr, nearest, updates>> /\ p \in Excused'
  BY SnapshotFailsIs DEF SnapshotFailed, Excused, actorVars
<1>2. PICK n \in Int : Posts(book[p], book'[p], FailureAt(n))
  BY FailedIs
<1>3. HasType(book'[p], "save") = HasType(book[p], "save") /\ SameBut(book[p], book'[p])
  BY <1>0, <1>2, PostedType DEF FailureAt, Posts
<1>4. OfType(p, "save")' = OfType(p, "save") /\ Numbers(p)' = Numbers(p) /\ Due(p)' = Due(p)
  BY <1>1, <1>3 DEF OfType, HasType, Numbers, Due
<1>5. /\ (Asked(p)' <=> Asked(p)) /\ (Saving(p)' <=> Saving(p)) /\ (Loading(p)' <=> Loading(p))
      /\ (Scheduled(p)' <=> Scheduled(p)) /\ (Reported(p)' <=> Reported(p))
  BY <1>1, <1>3, <1>4 DEF Asked, Saving, Loading, Scheduled, Reported, SameBut
<1>6. TurnOf(p)'
  BY <1>0, <1>3, <1>4, <1>5 DEF GoesRound, TurnOf, SameBut
<1> QED
  BY <1>1, <1>6 DEF GoesRound

\* A book that works takes the first of its messages.
LEMMA RoundMessage ==
  ASSUME TypeOK, TypeOK', StoreInv, NumbersInv, PresenceInv, FailureInv, TurnInv, ProgressInv,
         NEW p \in Pair, BookHandles(p)
  PROVE  GoesRound(p)'
<1>0. /\ GoesRound(p) /\ PresenceOf(p) /\ updates[p] \in Seq(Int) /\ lastProcessedNr \in Nat
      /\ book[p] \in BookState /\ book[p].saving \in Int /\ book[p].lastSaved \in Int
  <2>1. book[p] \in BookState
    BY NumbersTyped
  <2> QED
    BY <2>1, GoesRoundIs, PresenceIs DEF TypeOK, ActorTypes, BookState
<1>1. /\ OneMessage(p) /\ (EventHandled(p) \/ SaveHandled(p) \/ SavedHandled(p) \/ FailureHandled(p))
      /\ UNCHANGED <<status, collected, lastProcessedNr, nearest, snapshot, orphans, unsaved>>
  BY BookHandlesIs DEF BookHandles, actorVars, journalVars
<1>2. /\ book[p].state = "ready" /\ book'[p].state = "ready" /\ book[p].mailbox # <<>>
      /\ Shorter(book[p].mailbox, book'[p].mailbox) /\ 1 \in DOMAIN book[p].mailbox
      /\ FirstOf(p) = book[p].mailbox[1]
  BY <1>1 DEF OneMessage, FirstOf
<1>3. TurnOf(p) /\ (p \notin Excused => ProgressOf(p)) /\ ~Loading(p) /\ ~Loading(p)'
  BY <1>0, <1>2 DEF GoesRound, Loading
<1>4. AtMostOne(HasType(book[p], "save")) /\ OfType(p, "save") = HasType(book[p], "save")
      /\ OfType(p, "save")' = HasType(book'[p], "save")
  BY <1>2, <1>3 DEF TurnOf, OfType, HasType
<1>5. /\ AtMostOne(HasType(book'[p], "save"))
      /\ FirstOf(p).type = "save" => HasType(book'[p], "save") = {} /\ HasType(book[p], "save") # {}
      /\ FirstOf(p).type # "save" => (HasType(book'[p], "save") = {} <=> HasType(book[p], "save") = {})
  <2>1. /\ AtMostOne(HasType(book'[p], "save"))
        /\ book[p].mailbox[1].type = "save" => HasType(book'[p], "save") = {}
        /\ book[p].mailbox[1].type # "save" => (HasType(book'[p], "save") = {} <=> HasType(book[p], "save") = {})
    BY <1>0, <1>2, <1>4, TypeTaken
  <2>2. book[p].mailbox[1].type = "save" => HasType(book[p], "save") # {}
    BY <1>2 DEF HasType
  <2> QED
    BY <1>2, <2>1, <2>2
<1>6. \A i \in HasType(book'[p], "save") :
        i + 1 \in HasType(book[p], "save") /\ book'[p].mailbox[i] = book[p].mailbox[i + 1]
  BY <1>0, <1>2, ShorterType
<1>7. Due(p)' = Due(p) /\ (Scheduled(p)' <=> Scheduled(p))
  BY <1>1 DEF Due, Scheduled
<1>8. CASE EventHandled(p) \/ (SaveHandled(p) /\ p \in Excused /\ book'[p].saving = book[p].saving)
  <2>1. /\ book'[p].saving = book[p].saving /\ book'[p].lastSaved = book[p].lastSaved
        /\ updates' = updates
    BY <1>8 DEF EventHandled, SaveHandled
  <2>2. /\ Numbers(p)' = Numbers(p) /\ (Saving(p)' <=> Saving(p)) /\ (Reported(p)' <=> Reported(p))
        /\ (Asked(p)' => Asked(p))
    <3>1. Asked(p)' => Asked(p)
      BY <1>4, <1>5 DEF Asked
    <3> QED
      BY <2>1, <3>1 DEF Numbers, Saving, Reported
  <2>3. TurnOf(p)'
    BY <1>2, <1>3, <1>4, <1>5, <1>7, <2>2 DEF TurnOf
  <2>4. ASSUME p \notin Excused' PROVE ProgressOf(p)'
    <3>1. ProgressOf(p) /\ EventHandled(p) /\ NumbersFit(p)
      BY <1>1, <1>2, <1>3, <1>8, <2>4 DEF ProgressOf, Excused
    <3>2. Asked(p) => Asked(p)'
      <4>1. FirstOf(p).type # "save"
        BY <3>1 DEF EventHandled
      <4> QED
        BY <1>4, <1>5, <4>1 DEF Asked
    <3>3. \A i \in OfType(p, "save")' : book'[p].lastSaved < book'[p].mailbox[i].nr
                                         /\ book'[p].mailbox[i].nr <= lastProcessedNr'
      BY <1>1, <1>4, <1>6, <2>1, <3>1 DEF NumbersFit
    <3>4. NumbersFit(p)'
      BY <1>1, <1>7, <2>1, <2>2, <3>1, <3>3 DEF NumbersFit
    <3> QED
      BY <1>2, <1>3, <1>7, <2>2, <3>1, <3>2, <3>4 DEF ProgressOf
  <2> QED
    BY <2>3, <2>4 DEF GoesRound
\* the message to save: nothing is being saved
<1>9. CASE SaveHandled(p) /\ ~(p \in Excused /\ book'[p].saving = book[p].saving)
  <2>1. /\ FirstOf(p).type = "save" /\ book'[p].lastSaved = book[p].lastSaved /\ updates' = updates
    BY <1>9 DEF SaveHandled
  <2>2. Asked(p) /\ 1 \in OfType(p, "save")
    BY <1>2, <2>1 DEF Asked, OfType
  <2>3. ~Saving(p) /\ ~Reported(p) /\ ~Scheduled(p)
    BY <1>2, <1>3, <2>2 DEF TurnOf
  <2>4. book'[p].saving = FirstOf(p).nr
    <3>1. CASE p \in Excused
      BY <1>9, <3>1 DEF SaveHandled
    <3>2. CASE p \notin Excused
      <4>1. book[p].lastSaved < FirstOf(p).nr
        BY <1>2, <1>3, <2>2, <3>2 DEF ProgressOf, NumbersFit
      <4> QED
        BY <1>9, <2>3, <4>1 DEF SaveHandled, Saving
    <3> QED
      BY <3>1, <3>2
  <2>5. FirstOf(p).nr # None
    <3>1. FirstOf(p).nr \in Int /\ FirstOf(p).nr >= -1
      BY <1>2, <2>1, NumbersIs, NumbersTyped DEF NumbersOf, Covered
    <3> QED
      BY <3>1 DEF None
  <2>6. OfType(p, "save")' = {} /\ Numbers(p)' = {} /\ Due(p)' = {}
    BY <1>4, <1>5, <1>7, <2>1, <2>3 DEF Numbers, Reported, Scheduled
  <2>7. ~Asked(p)' /\ Saving(p)' /\ ~Reported(p)' /\ ~Scheduled(p)'
    BY <1>7, <2>3, <2>4, <2>5, <2>6 DEF Asked, Saving, Reported
  <2>8. AtMostOne({})
    BY DEF AtMostOne
  <2>9. TurnOf(p)'
    BY <1>3, <2>6, <2>7, <2>8 DEF TurnOf
  <2>10. ASSUME p \notin Excused' PROVE ProgressOf(p)'
    <3>1. FirstOf(p).nr <= lastProcessedNr
      BY <1>1, <1>2, <1>3, <2>2, <2>10 DEF ProgressOf, NumbersFit, Excused
    <3>2. NumbersFit(p)'
      BY <1>1, <2>4, <2>6, <3>1 DEF NumbersFit
    <3> QED
      BY <1>3, <2>7, <3>2 DEF ProgressOf
  <2> QED
    BY <2>9, <2>10 DEF GoesRound
<1>10. CASE SavedHandled(p)
  <2>1. /\ FirstOf(p).type = "saved" /\ book'[p].lastSaved = book[p].saving /\ book'[p].saving = None
        /\ Longer(updates[p], updates'[p], book[p].saving)
    BY <1>10 DEF SavedHandled, Reports
  <2>2. OfType(p, "saved") # {}
    BY <1>2, <2>1 DEF OfType
  <2>3. book[p].saving # None /\ snapshot[p].nr = book[p].saving
    BY <1>0, <1>2, <2>2 DEF PresenceOf
  <2>4. book[p].saving # Terminated
    <3>1. snapshot[p].nr \in Int /\ snapshot[p].nr >= -1
      BY NumbersIs, NumbersTyped DEF NumbersOf, Covered
    <3> QED
      BY <2>3, <3>1 DEF Terminated
  <2>5. Saving(p) /\ ~Asked(p) /\ ~Reported(p) /\ ~Scheduled(p)
    BY <1>2, <1>3, <2>3 DEF Saving, TurnOf
  <2>6. /\ Nums(updates'[p]) = {Len(updates[p]) + 1} /\ updates'[p][Len(updates[p]) + 1] = book[p].saving
        /\ AtMostOne(Nums(updates'[p]))
    <3>1. Nums(updates[p]) = {}
      BY <2>5, NumsAre DEF Reported
    <3> QED
      BY <1>0, <2>1, <2>4, <3>1, OneMore
  <2>7. /\ Numbers(p)' = {Len(updates[p]) + 1} /\ AtMostOne(Numbers(p)') /\ Due(p)' = {}
        /\ OfType(p, "save")' = {}
    BY <1>4, <1>5, <1>7, <2>1, <2>5, <2>6 DEF Numbers, Nums, Scheduled, Asked
  <2>8. ~Asked(p)' /\ ~Saving(p)' /\ Reported(p)' /\ ~Scheduled(p)'
    BY <1>7, <2>1, <2>5, <2>7 DEF Asked, Saving, Reported
  <2>9. AtMostOne({})
    BY DEF AtMostOne
  <2>10. TurnOf(p)'
    BY <1>3, <2>7, <2>8, <2>9 DEF TurnOf
  <2>11. ASSUME p \notin Excused' PROVE ProgressOf(p)'
    <3>1. book[p].saving <= lastProcessedNr
      BY <1>1, <1>2, <1>3, <2>5, <2>11 DEF ProgressOf, NumbersFit, Excused
    <3>2. NumbersFit(p)'
      BY <1>1, <2>1, <2>6, <2>7, <2>8, <3>1 DEF NumbersFit
    <3> QED
      BY <1>3, <2>8, <3>2 DEF ProgressOf
  <2> QED
    BY <2>10, <2>11 DEF GoesRound
\* the book leaves the round until the next start
<1>11. CASE FailureHandled(p)
  <2>1. FirstOf(p).type = "failed" /\ book'[p].saving = None /\ updates' = updates
    BY <1>11 DEF FailureHandled
  <2>2. OfType(p, "failed") # {}
    BY <1>2, <2>1 DEF OfType
  <2>3. p \in Excused' /\ Saving(p)
    BY <1>1, <1>2, <2>2, FailureIs DEF FailureOf, Excused, Saving
  <2>4. ~Asked(p)' /\ ~Saving(p)' /\ ~Reported(p)' /\ ~Scheduled(p)'
    BY <1>2, <1>3, <1>4, <1>5, <1>7, <2>1, <2>3 DEF TurnOf, Asked, Saving, Reported, Numbers
  <2>5. TurnOf(p)'
    BY <1>3, <1>7, <2>1, <2>4, <1>4, <1>5, <1>2 DEF TurnOf, Numbers
  <2> QED
    BY <2>3, <2>5 DEF GoesRound
<1> QED
  BY <1>1, <1>8, <1>9, <1>10, <1>11

\* After a restart all books are loading.
LEMMA RoundRestart ==
  ASSUME TypeOK, StoreInv, Crash \/ ForcedStop, NEW q \in Pair
  PROVE  GoesRound(q)'
<1>1. Started
  BY RestartIs
<1>2. /\ updates'[q] = <<>> /\ nearest' = {} /\ collected'[q] = None
      /\ book'[q] = (IF q \in journal THEN StartingBook ELSE NoBook)
      /\ (journal = {} \/ status' = "collecting")
  BY <1>1 DEF Started
<1>3. CASE q \notin journal
  BY <1>2, <1>3, RoundOff, StartingIs
<1>4. CASE q \in journal
  <2>1. /\ status' = "collecting" /\ Due(q)' = {} /\ book'[q].state = "loading" /\ book'[q].saving = None
        /\ HasType(book'[q], "save") = {}
    BY <1>2, <1>4, StartingIs DEF Due, HasType
  <2> QED
    BY <1>2, <2>1, RoundLoads
<1> QED
  BY <1>3, <1>4

\* One message goes round between a book and MatcherActor.
LEMMA RoundStep ==
  ASSUME TypeOK, TypeOK', StoreInv, MemoryInv, JournalInv, NumbersInv, CollectInv, PresenceInv, FailureInv,
         TurnInv, ProgressInv, MatcherNext
  PROVE  TurnInv' /\ ProgressInv'
<1> SUFFICES ASSUME NEW q \in Pair PROVE GoesRound(q)'
  BY DEF GoesRound, TurnOf, ProgressOf, NumbersFit, TurnInv, ProgressInv
<1>0. GoesRound(q) /\ lastProcessedNr \in Nat
  BY GoesRoundIs DEF TypeOK, ActorTypes
<1>1. ASSUME NEW p \in Pair, \/ BookRecovers(p) \/ BookHandles(p) \/ WriteSnapshot(p)
                             \/ SnapshotFails(p) \/ BookFails(p), p # q
      PROVE  GoesRound(q)'
  <2>1. OneBook(p) /\ updates'[q] = updates[q] /\ snapshot'[q] = snapshot[q]
        /\ UNCHANGED <<status, collected, lastProcessedNr, nearest>> /\ Excused \subseteq Excused'
    <3>1. CASE BookRecovers(p)
      BY <1>1, <3>1, BookRecoversIs DEF BookRecovers, BookRecovered, Reports, actorVars, journalVars, Excused
    <3>2. CASE BookHandles(p)
      BY <1>1, <3>2, BookHandlesIs DEF BookHandles, OneMessage, EventHandled, SaveHandled, SavedHandled,
                                     FailureHandled, Reports, actorVars, journalVars, Excused
    <3>3. CASE WriteSnapshot(p)
      BY <1>1, <3>3, WriteSnapshotIs DEF WriteSnapshot, SnapshotWritten, actorVars, journalVars, TypeOK, BookTypes,
                                       Excused
    <3>4. CASE BookFails(p)
      BY <1>1, <3>4, BookFailsIs DEF BookFails, Reports, actorVars, journalVars, Excused
    <3>5. CASE SnapshotFails(p)
      BY <1>1, <3>5, SnapshotFailsIs DEF SnapshotFailed, actorVars, Excused
    <3> QED
      BY <1>1, <3>1, <3>2, <3>3, <3>4, <3>5
  <2>2. book'[q] = book[q] /\ Due(q)' = Due(q) /\ lastProcessedNr' >= lastProcessedNr
    BY <1>0, <1>1, <2>1 DEF OneBook, Due
  <2> QED
    BY <1>0, <2>1, <2>2, RoundFrame
<1>2. CASE UNCHANGED <<actorVars, updates, bookVars>> /\ Excused \subseteq Excused'
  <2>1. Due(q)' = Due(q) /\ lastProcessedNr' >= lastProcessedNr
    BY <1>0, <1>2 DEF Due, actorVars
  <2> QED
    BY <1>0, <1>2, <2>1, RoundFrame DEF actorVars, bookVars
<1>3. ASSUME NEW p \in Pair, StoreEvent(p) PROVE UNCHANGED <<actorVars, updates, bookVars>> /\ Excused \subseteq Excused'
  BY <1>3 DEF StoreEvent, journalVars, Excused
<1>4. CASE AddToMemory \/ Poll \/ WriteJournal
  BY <1>2, <1>4 DEF AddToMemory, Poll, WriteJournal, journalVars, Excused
<1>5. ASSUME NEW p \in Pair, Collect(p) PROVE GoesRound(q)'
  BY <1>5, CollectIs, RoundStarts, RoundWaits
<1>6. ASSUME NEW p \in Pair, BookFails(p) PROVE GoesRound(p)'
  <2>1. book'[p].state = "off"
    BY <1>6, BookFailsIs, StartingIs
  <2> QED
    BY <2>1, RoundOff
<1> QED
  BY <1>1, <1>2, <1>3, <1>4, <1>5, <1>6, RoundHandle, RoundRestart, RoundUpdated, RoundTerminated,
     RoundRecovers, RoundMessage, RoundWritten, RoundUnwritten DEF MatcherNext, MatcherStep

----------------------------------------------------------------------------
(* What is in the mail, and what has been deleted *)

\* Sendable in the next state
SendableNext(o, p) == o \in stored' /\ log'[o + 1] = p

\* The invariant, pair by pair
LEMMA MailIs == MailInv <=> \A p \in Pair : MailOf(p)
BY DEF MailInv

\* Nothing is deleted.
NothingDeleted ==
  /\ stored \subseteq stored' /\ lost' = lost
  /\ \A o \in 0 .. Len(log') - 1 : o \in stored' \/ (o \in 0 .. Len(log) - 1 /\ o \notin stored)

\* Events are deleted only when MatcherActor starts to consume the queue.
LEMMA OnlyAtStart ==
  ASSUME TypeOK, StoreInv, MatcherNext, \A p \in Pair : ~(Collect(p) /\ StartsWorking)
  PROVE  NothingDeleted
<1>0. log \in Seq(Pair) /\ Len(log) \in Nat
  BY DEF TypeOK, QueueTypes
<1>1. CASE UNCHANGED <<log, stored, lost>>
  BY <1>1 DEF NothingDeleted
<1>2. ASSUME NEW p \in Pair, StoreEvent(p) PROVE NothingDeleted
  <2>1. log' = Append(log, p) /\ stored' = stored \cup {Len(log)} /\ lost' = lost
    BY <1>2 DEF StoreEvent
  <2>2. Len(log') = Len(log) + 1
    BY <1>0, <2>1
  <2> QED
    BY <1>0, <2>1, <2>2 DEF NothingDeleted
<1>3. CASE AddToMemory \/ Poll
  BY <1>1, <1>3 DEF AddToMemory, Poll
<1>4. CASE Crash \/ ForcedStop
  <2>1. Started
    BY <1>4, RestartIs
  <2> QED
    BY <1>1, <2>1 DEF Started
<1>5. ASSUME NEW p \in Pair, Collect(p) PROVE NothingDeleted
  <2>1. CollectedOne(p) /\ GoesOnWaiting
    BY <1>5, CollectIs
  <2> QED
    BY <1>1, <2>1 DEF CollectedOne, GoesOnWaiting
<1>6. CASE HandleEvent \/ WriteJournal
  BY <1>1, <1>6 DEF HandleEvent, WriteJournal, queueVars
<1>7. ASSUME NEW p \in Pair, \/ HandleUpdated(p) \/ HandleTerminated(p) \/ BookRecovers(p)
                             \/ BookHandles(p) \/ WriteSnapshot(p) \/ SnapshotFails(p) \/ BookFails(p)
      PROVE  UNCHANGED <<log, stored, lost>>
  BY <1>7 DEF HandleUpdated, HandleTerminated, BookRecovers, BookHandles, WriteSnapshot, SnapshotFails, BookFails,
              queueVars
<1> QED
  BY <1>1, <1>2, <1>3, <1>4, <1>5, <1>6, <1>7 DEF MatcherNext, MatcherStep

\* A step that deletes nothing
LEMMA MailKept ==
  ASSUME TypeOK, TypeOK', StoreInv, MailInv, MatcherNext, NothingDeleted, NEW q \in Pair,
         book'[q].lastProcessed >= -1, book'[q].lastProcessed < Len(log),
         \A i \in DOMAIN book'[q].mailbox : book'[q].mailbox[i].type = "event" =>
           \/ \E j \in DOMAIN book[q].mailbox : book'[q].mailbox[i] = book[q].mailbox[j]
           \/ Sendable(book'[q].mailbox[i].nr, q),
         book'[q].state = "ready" =>
           /\ status' = "collecting" => book'[q].lastProcessed = snapshot'[q].nr
           /\ \/ book[q].state = "ready" /\ book'[q].lastProcessed >= book[q].lastProcessed
              \/ book'[q].lastProcessed = snapshot[q].nr
  PROVE  MailOf(q)'
<1>0. /\ MailOf(q) /\ book[q] \in BookState /\ book'[q] \in BookState /\ snapshot[q].nr \in Int
      /\ book[q].lastProcessed \in Int /\ book'[q].lastProcessed \in Int
  <2>1. book[q] \in BookState /\ book'[q] \in BookState /\ snapshot[q].nr \in Int
    BY NumbersTyped DEF TypeOK, BookTypes
  <2> QED
    BY <2>1, MailIs DEF BookState
<1>1. /\ Len(log) \in Nat /\ Len(log') \in Nat /\ Len(log) <= Len(log')
      /\ \A o \in 0 .. Len(log) - 1 : PairOf(o)' = PairOf(o)
  BY LogGrows
<1>2. Bound(q)'
  BY <1>0, <1>1 DEF Bound
<1>4. ASSUME NEW i \in DOMAIN book'[q].mailbox, book'[q].mailbox[i].type = "event"
      PROVE  SendableNext(book'[q].mailbox[i].nr, q)
  <2>1. Sendable(book'[q].mailbox[i].nr, q)
    BY <1>0, <1>4 DEF MailOf
  <2>2. ASSUME NEW n, Sendable(n, q) PROVE SendableNext(n, q)
    <3>1. n \in stored /\ PairOf(n) = q /\ n \in 0 .. Len(log) - 1
      BY <2>2 DEF Sendable, StoreInv
    <3>2. n \in stored' /\ PairOf(n)' = q
      BY <1>1, <3>1 DEF NothingDeleted
    <3> QED
      BY <3>2 DEF PairOf, SendableNext
  <2> QED
    BY <2>1, <2>2
<1>5. ASSUME book'[q].state = "ready", NEW o \in 0 .. Len(log') - 1, Gone(o, q)'
      PROVE  o <= book'[q].lastProcessed
  <2>1. o \in 0 .. Len(log) - 1 /\ o \notin stored /\ o \notin lost
    BY <1>5 DEF Gone, NothingDeleted
  <2>2. PairOf(o) = q /\ o \in Int
    BY <1>1, <1>5, <2>1 DEF Gone
  <2>3. CASE book[q].state = "ready" /\ book'[q].lastProcessed >= book[q].lastProcessed
    <3>1. o <= book[q].lastProcessed
      BY <1>0, <2>1, <2>2, <2>3 DEF MailOf, Gone
    <3> QED
      BY <1>0, <2>2, <2>3, <3>1
  <2>4. CASE book'[q].lastProcessed = snapshot[q].nr
    BY <2>1, <2>2, <2>4 DEF StoreInv
  <2> QED
    BY <1>5, <2>3, <2>4
<1> QED
  BY <1>2, <1>4, <1>5 DEF MailOf, Sendable, SendableNext, PairOf

\* A book that stays as it is
LEMMA MailFrame ==
  ASSUME TypeOK, TypeOK', StoreInv, MailInv, MatcherNext, NothingDeleted, NEW q \in Pair,
         book'[q] = book[q], snapshot'[q] = snapshot[q], status' = status
  PROVE  MailOf(q)'
<1>0. /\ MailOf(q) /\ book[q].lastProcessed \in Int
  <2>1. book[q] \in BookState
    BY NumbersTyped
  <2> QED
    BY <2>1, MailIs DEF BookState
<1> QED
  BY <1>0, MailKept DEF MailOf, Bound

\* A book that takes no message
LEMMA MailHandle ==
  ASSUME TypeOK, TypeOK', StoreInv, PresenceInv, MailInv, HandleEvent, NothingDeleted, NEW q \in Pair
  PROVE  MailOf(q)'
<1>0. /\ MailOf(q) /\ book[q] \in BookState /\ book'[q] \in BookState /\ book[q].lastProcessed \in Int
      /\ MatcherNext
  <2>1. book[q] \in BookState
    BY NumbersTyped
  <2> QED
    BY <2>1, MailIs, HandledIs DEF BookState, MatcherNext, MatcherStep
<1>1. /\ UNCHANGED <<status, snapshot>> /\ status = "working" /\ events[1] \in stored
      /\ Len(log) \in Nat
  BY HandleEventIs DEF EventTaken, TypeOK, QueueTypes
<1> DEFINE o == events[1]
<1>2. PICK s : Gets(q, o, s)
  BY HandledIs
<1>3. o \in stored
  BY <1>1
<1> HIDE DEF o
<1> DEFINE r == Before(q, o)
<1>4. /\ r \in BookState /\ s \in BookState /\ SameBut(r, s) /\ SameBut(s, book'[q])
      /\ r = book[q] \/ r = StartingBook
  BY <1>0, <1>2, StartingIs DEF Gets, Before, Posts, SameBut
<1>5. book'[q].lastProcessed >= -1 /\ book'[q].lastProcessed < Len(log)
  BY <1>0, <1>1, <1>4, StartingIs DEF SameBut, MailOf, Bound
<1>6. book'[q].state = "ready" => book[q].state = "ready" /\ book'[q].lastProcessed >= book[q].lastProcessed
  <2>1. book'[q].state = r.state /\ book'[q].lastProcessed = r.lastProcessed
    BY <1>4 DEF SameBut
  <2>2. CASE r = book[q]
    BY <1>0, <2>1, <2>2
  <2>3. CASE r = StartingBook
    BY <2>1, <2>3, StartingIs
  <2> QED
    BY <1>4, <2>2, <2>3
<1>7. ASSUME NEW i \in DOMAIN s.mailbox, s.mailbox[i].type = "event"
      PROVE  \/ \E j \in DOMAIN book[q].mailbox : s.mailbox[i] = book[q].mailbox[j]
             \/ Sendable(s.mailbox[i].nr, q)
  <2>1. CASE q = PairOf(o)
    <3>1. Posts(r, s, EventAt(o))
      BY <1>2, <2>1 DEF Gets
    <3>2. \/ i \in DOMAIN r.mailbox /\ s.mailbox[i] = r.mailbox[i]
          \/ s.mailbox[i] = EventAt(o)
      <4> HIDE DEF r
      <4> QED
        BY <1>4, <1>7, <3>1, Posted
    <3>3. CASE s.mailbox[i] = EventAt(o)
      BY <1>3, <2>1, <3>3 DEF EventAt, Sendable
    <3>4. CASE i \in DOMAIN r.mailbox /\ s.mailbox[i] = r.mailbox[i]
      BY <1>4, <3>4, StartingIs
    <3> QED
      BY <3>2, <3>3, <3>4
  <2>2. CASE q # PairOf(o)
    BY <1>2, <1>7, <2>2 DEF Gets
  <2> QED
    BY <2>1, <2>2
<1>8. ASSUME NEW i \in DOMAIN book'[q].mailbox, book'[q].mailbox[i].type = "event"
      PROVE  i \in DOMAIN s.mailbox /\ book'[q].mailbox[i] = s.mailbox[i]
  <2>1. CASE Told(q, o)
    <3>1. Posts(s, book'[q], SaveAt(o)) /\ SaveAt(o).type = "save"
      BY <1>2, <2>1 DEF Gets, SaveAt
    <3> QED
      BY <1>4, <1>8, <3>1, Posted
  <2>2. CASE ~Told(q, o)
    BY <1>2, <1>8, <2>2 DEF Gets
  <2> QED
    BY <2>1, <2>2
<1> QED
  BY <1>0, <1>1, <1>5, <1>6, <1>7, <1>8, MailKept

\* A book recovers, takes a message, hears of its snapshot or fails.
LEMMA MailBook ==
  ASSUME TypeOK, TypeOK', StoreInv, NumbersInv, CollectInv, PresenceInv, MailInv, NEW p \in Pair,
         BookRecovers(p) \/ BookHandles(p) \/ WriteSnapshot(p) \/ SnapshotFails(p) \/ BookFails(p), NothingDeleted,
         NEW q \in Pair
  PROVE  MailOf(q)'
<1>0. /\ MailOf(q) /\ MailOf(p) /\ book[p] \in BookState /\ book'[p] \in BookState /\ book[p].lastProcessed \in Int
      /\ MatcherNext /\ Mailbox(book[p]) /\ snapshot[p].nr \in Int
      /\ snapshot[p].nr >= -1 /\ snapshot[p].nr < Len(log) /\ Len(log) \in Nat
  <2>1. book[p] \in BookState /\ book'[p] \in BookState /\ Mailbox(book[p]) /\ snapshot[p].nr \in Int
    BY NumbersTyped DEF TypeOK, BookTypes
  <2>2. snapshot[p].nr >= -1 /\ snapshot[p].nr < Len(log)
    BY NumbersIs DEF NumbersOf, Covered
  <2>3. MatcherNext
    BY DEF MatcherNext, MatcherStep
  <2>4. Len(log) \in Nat
    BY DEF TypeOK, QueueTypes
  <2>5. MailOf(q) /\ MailOf(p) /\ book[p].lastProcessed \in Int
    BY <2>1, MailIs DEF BookState
  <2> QED
    BY <2>1, <2>2, <2>3, <2>4, <2>5
<1>1. status' = status
  BY DEF BookRecovers, BookHandles, WriteSnapshot, SnapshotFails, BookFails, actorVars
<1>2. CASE BookRecovers(p)
  <2>1. BookRecovered(p) /\ snapshot' = snapshot
    BY <1>2, BookRecoversIs DEF BookRecovers
  <2>2. CASE q # p
    BY <1>0, <1>1, <2>1, <2>2, MailFrame DEF BookRecovered, OneBook
  <2>3. CASE q = p
    BY <1>0, <1>1, <2>1, <2>3, MailKept DEF BookRecovered
  <2> QED
    BY <2>2, <2>3
<1>3. CASE BookHandles(p)
  <2>1. OneMessage(p) /\ (EventHandled(p) \/ SaveHandled(p) \/ SavedHandled(p) \/ FailureHandled(p)) /\ UNCHANGED snapshot
    BY <1>3, BookHandlesIs DEF BookHandles
  <2>2. CASE q # p
    BY <1>0, <1>1, <2>1, <2>2, MailFrame DEF OneMessage, OneBook
  <2>3. CASE q = p
    <3>1. status = "working"
      <4>1. book[p].mailbox # <<>>
        BY <2>1 DEF OneMessage
      <4>2. status \in {"collecting", "working"}
        BY DEF TypeOK, ActorTypes
      <4> QED
        BY <4>1, <4>2 DEF CollectInv, CollectsFrom, Waiting
    <3>2. \A i \in DOMAIN book'[p].mailbox : \E j \in DOMAIN book[p].mailbox : book'[p].mailbox[i] = book[p].mailbox[j]
      <4> SUFFICES ASSUME NEW i \in DOMAIN book'[p].mailbox
                   PROVE  i + 1 \in DOMAIN book[p].mailbox /\ book'[p].mailbox[i] = book[p].mailbox[i + 1]
        OBVIOUS
      <4>1. Shorter(book[p].mailbox, book'[p].mailbox)
        BY <2>1 DEF OneMessage
      <4> QED
        BY <1>0, <4>1 DEF Shorter, Mailbox
    <3>3. /\ book'[p].lastProcessed >= book[p].lastProcessed
          /\ book'[p].lastProcessed >= -1 /\ book'[p].lastProcessed < Len(log)
      <4>1. CASE book'[p].lastProcessed = book[p].lastProcessed
        BY <1>0, <4>1 DEF MailOf, Bound
      <4>2. CASE book'[p].lastProcessed # book[p].lastProcessed
        <5>1. /\ FirstOf(p).type = "event" /\ FirstOf(p).nr > book[p].lastProcessed
              /\ book'[p].lastProcessed = FirstOf(p).nr
          BY <2>1, <4>2 DEF EventHandled, SaveHandled, SavedHandled, FailureHandled
        <5>2. FirstOf(p).nr \in stored
          BY <1>0, <2>1, <5>1 DEF MailOf, OneMessage, FirstOf, Sendable
        <5>3. FirstOf(p).nr \in 0 .. Len(log) - 1
          BY <5>2 DEF StoreInv
        <5> QED
          BY <1>0, <5>1, <5>3
      <4> QED
        BY <4>1, <4>2
    <3>4. book[p].state = "ready"
      BY <2>1 DEF OneMessage
    <3> QED
      BY <1>0, <1>1, <2>3, <3>1, <3>2, <3>3, <3>4, MailKept
  <2> QED
    BY <2>2, <2>3
<1>4. CASE WriteSnapshot(p)
  <2>1. SnapshotWritten(p)
    BY <1>4, WriteSnapshotIs
  <2>2. CASE q # p
    <3>1. book'[q] = book[q] /\ snapshot'[q] = snapshot[q]
      BY <2>1, <2>2 DEF SnapshotWritten, OneBook, TypeOK, BookTypes
    <3> QED
      BY <1>0, <1>1, <3>1, MailFrame
  <2>3. CASE q = p
    <3>1. status = "working"
      <4>1. writing[p] # <<>>
        BY <2>1 DEF SnapshotWritten
      <4>2. status \in {"collecting", "working"}
        BY DEF TypeOK, ActorTypes
      <4> QED
        BY <4>1, <4>2 DEF CollectInv, CollectsFrom, Waiting
    <3>2. SameBut(book[p], book'[p])
      BY <2>1 DEF SnapshotWritten
    <3>3. ASSUME NEW i \in DOMAIN book'[p].mailbox, book'[p].mailbox[i].type = "event"
          PROVE  \E j \in DOMAIN book[p].mailbox : book'[p].mailbox[i] = book[p].mailbox[j]
      <4> DEFINE m == [type |-> "saved", nr |-> writing[p][1].nr]
      <4>1. Posts(book[p], book'[p], m) /\ m.type = "saved"
        BY <2>1 DEF SnapshotWritten, Posts
      <4> HIDE DEF m
      <4>2. \/ i \in DOMAIN book[p].mailbox /\ book'[p].mailbox[i] = book[p].mailbox[i]
            \/ book'[p].mailbox[i] = m
        BY <1>0, <3>3, <4>1, Posted
      <4> QED
        BY <3>3, <4>1, <4>2
    <3> QED
      BY <1>0, <1>1, <2>3, <3>1, <3>2, <3>3, MailKept DEF SameBut, MailOf, Bound
  <2> QED
    BY <2>2, <2>3
<1>5. CASE BookFails(p)
  <2>1. OneBook(p) /\ book'[p] = NoBook /\ snapshot' = snapshot
    BY <1>5, BookFailsIs DEF BookFails
  <2>2. CASE q # p
    BY <1>0, <1>1, <2>1, <2>2, MailFrame DEF OneBook
  <2>3. CASE q = p
    BY <1>0, <1>1, <2>1, <2>3, MailKept, StartingIs
  <2> QED
    BY <2>2, <2>3
<1>6. CASE SnapshotFails(p)
  <2>1. SnapshotFailed(p)
    BY <1>6, SnapshotFailsIs
  <2>2. CASE q # p
    <3>1. book'[q] = book[q] /\ snapshot'[q] = snapshot[q]
      BY <2>1, <2>2 DEF SnapshotFailed, OneBook
    <3> QED
      BY <1>0, <1>1, <3>1, MailFrame
  <2>3. CASE q = p
    <3>1. status = "working"
      <4>1. writing[p] # <<>>
        BY <2>1 DEF SnapshotFailed
      <4>2. status \in {"collecting", "working"}
        BY DEF TypeOK, ActorTypes
      <4> QED
        BY <4>1, <4>2 DEF CollectInv, CollectsFrom, Waiting
    <3>2. SameBut(book[p], book'[p])
      BY <2>1 DEF SnapshotFailed
    <3>3. ASSUME NEW i \in DOMAIN book'[p].mailbox, book'[p].mailbox[i].type = "event"
          PROVE  \E j \in DOMAIN book[p].mailbox : book'[p].mailbox[i] = book[p].mailbox[j]
      <4>1. PICK n \in Int : Posts(book[p], book'[p], FailureAt(n))
        BY <1>6, FailedIs
      <4> DEFINE m == FailureAt(n)
      <4>2. m.type = "failed"
        BY DEF FailureAt
      <4> HIDE DEF m
      <4>3. \/ i \in DOMAIN book[p].mailbox /\ book'[p].mailbox[i] = book[p].mailbox[i]
            \/ book'[p].mailbox[i] = m
        BY <1>0, <3>3, <4>1, Posted DEF m
      <4> QED
        BY <3>3, <4>2, <4>3
    <3> QED
      BY <1>0, <1>1, <2>3, <3>1, <3>2, <3>3, MailKept DEF SameBut, MailOf, Bound
  <2> QED
    BY <2>2, <2>3
<1> QED
  BY <1>2, <1>3, <1>4, <1>5, <1>6

\* Nobody has mail when MatcherActor starts to work.
LEMMA MailStarts ==
  ASSUME TypeOK, TypeOK', StoreInv, NumbersInv, CollectInv, PresenceInv, MailInv, MatcherNext,
         NEW p \in Pair, CollectedOne(p), StartsWorking, NEW q \in Pair
  PROVE  MailOf(q)'
<1>0. /\ MailOf(q) /\ snapshot[q].nr \in Int /\ stored \subseteq 0 .. Len(log) - 1
  BY MailIs, NumbersTyped DEF StoreInv
<1>1. /\ status = "collecting" /\ status' = "working" /\ UNCHANGED <<log, book, snapshot>>
  BY DEF CollectedOne, StartsWorking, bookVars
<1>2. PICK n : StartsAt(n)
  BY StartsAtIs
<1>3. book'[q].mailbox = <<>>
  BY <1>1 DEF CollectInv, CollectsFrom, Waiting
<1>4. Bound(q)'
  BY <1>0, <1>1 DEF MailOf, Bound
<1>5. ASSUME book'[q].state = "ready", NEW o \in 0 .. Len(log') - 1, Gone(o, q)'
      PROVE  o <= book'[q].lastProcessed
  <2>1. PairOf(o) = q /\ o \notin stored' /\ o \notin lost' /\ o \in Int /\ o \in 0 .. Len(log) - 1
    BY <1>1, <1>5 DEF Gone, PairOf
  <2>2. lost' = lost \cup {u \in stored \ stored' : u > snapshot[PairOf(u)].nr}
    BY <1>2 DEF StartsAt
  <2>3. CASE o \notin stored
    BY <1>0, <1>1, <1>5, <2>1, <2>2, <2>3 DEF MailOf, Gone
  <2>4. CASE o \in stored
    <3>1. ~(o > snapshot[q].nr)
      BY <2>1, <2>2, <2>4
    <3>2. book[q].lastProcessed = snapshot[q].nr
      BY <1>0, <1>1, <1>5 DEF MailOf
    <3> QED
      BY <1>0, <1>1, <2>1, <3>1, <3>2
  <2> QED
    BY <2>3, <2>4
<1> QED
  BY <1>1, <1>3, <1>4, <1>5 DEF MailOf

\* MailInv is preserved.
LEMMA MailStep ==
  ASSUME TypeOK, TypeOK', StoreInv, NumbersInv, CollectInv, PresenceInv, MailInv, MatcherNext
  PROVE  MailInv'
<1> SUFFICES ASSUME NEW q \in Pair PROVE MailOf(q)'
  BY DEF MailInv, MailOf, OfType, Sendable
<1>1. ASSUME NEW p \in Pair, Collect(p), StartsWorking PROVE MailOf(q)'
  BY <1>1, CollectIs, MailStarts
<1>2. CASE \A p \in Pair : ~(Collect(p) /\ StartsWorking)
  <2>1. NothingDeleted
    BY <1>2, OnlyAtStart
  <2>2. CASE UNCHANGED <<status, book, snapshot>>
    BY <2>1, <2>2, MailFrame
  <2>3. CASE HandleEvent
    BY <2>1, <2>3, MailHandle
  <2>4. ASSUME NEW p \in Pair, BookRecovers(p) \/ BookHandles(p) \/ WriteSnapshot(p) \/ SnapshotFails(p) \/ BookFails(p)
        PROVE  MailOf(q)'
    BY <2>1, <2>4, MailBook
  <2>5. CASE Crash \/ ForcedStop
    <3>1. Started
      BY <2>5, RestartIs
    <3>2. book'[q] = StartingBook \/ book'[q] = NoBook
      BY <3>1 DEF Started
    <3>3. Len(log') \in Nat
      BY LogGrows
    <3>4. /\ book'[q].lastProcessed = -1 /\ book'[q].mailbox = <<>> /\ book'[q].state # "ready"
      BY <3>2, StartingIs
    <3> QED
      BY <3>3, <3>4 DEF MailOf, Bound
  <2>6. ASSUME NEW p \in Pair, Collect(p) PROVE MailOf(q)'
    <3>1. CollectedOne(p) /\ GoesOnWaiting
      BY <1>2, <2>6, CollectIs
    <3> QED
      BY <2>2, <3>1 DEF CollectedOne, GoesOnWaiting, bookVars
  <2>7. ASSUME NEW p \in Pair, StoreEvent(p) \/ HandleUpdated(p) \/ HandleTerminated(p)
        PROVE  UNCHANGED <<status, book, snapshot>>
    BY <2>7 DEF StoreEvent, HandleUpdated, HandleTerminated, actorVars, bookVars
  <2>8. CASE AddToMemory \/ Poll \/ WriteJournal
    BY <2>2, <2>8 DEF AddToMemory, Poll, WriteJournal, actorVars, bookVars
  <2> QED
    BY <2>2, <2>3, <2>4, <2>5, <2>6, <2>7, <2>8 DEF MatcherNext, MatcherStep
<1> QED
  BY <1>1, <1>2

----------------------------------------------------------------------------
(* What a book has been sent and is still to be sent, of the events M of its pair: mb is its
   mailbox, ev what is on its way to MatcherActor, u the next offset to be polled, f the last
   event that the book has applied, or will have when it has recovered. *)

Has(mb, o, n) == \E j \in 1 .. n : mb[j].type = "event" /\ mb[j].nr = o

EventsIn(mb, M, f) ==
  \A i \in DOMAIN mb : mb[i].type = "event" =>
    \A o \in M : o < mb[i].nr => o <= f \/ Has(mb, o, i - 1)

SavesIn(mb, M, f, last) ==
  \A i \in DOMAIN mb : mb[i].type = "save" =>
    /\ \A o \in M : o <= mb[i].nr => o <= f \/ Has(mb, o, i - 1)
    /\ last <= mb[i].nr
    /\ \A j \in DOMAIN mb : mb[j].type = "event" /\ j < i => mb[j].nr <= mb[i].nr

ComingIn(mb, ev, M, f) ==
  \A i \in DOMAIN ev : \A o \in M :
    o < ev[i] => o <= f \/ Has(mb, o, Len(mb)) \/ Among(o, ev, i - 1)

RestIn(mb, ev, u, M, f) ==
  u # None => \A o \in M :
    o < u => o <= f \/ Has(mb, o, Len(mb)) \/ Among(o, ev, Len(ev))

NoGap(mb, ev, u, M, f, last) ==
  EventsIn(mb, M, f) /\ SavesIn(mb, M, f, last) /\ ComingIn(mb, ev, M, f) /\ RestIn(mb, ev, u, M, f)

\* Delivered in terms of the values it is about
LEMMA DeliveredIs ==
  ASSUME NEW p
  PROVE  Delivered(p) <=> NoGap(book[p].mailbox, events, lastUnread, Mine(p), Floor(p), book[p].lastProcessed)
BY DEF Delivered, NoGap, EventsIn, SavesIn, ComingIn, RestIn, Has, MailAmong, OfType

\* As long as only later events join those of the pair
LEMMA GapFrame ==
  ASSUME NEW mb, NEW ev, NEW u, NEW M, NEW f, NEW last, NoGap(mb, ev, u, M, f, last),
         NEW M2, M2 \subseteq Int, NEW N \in Int, \A o \in M2 : o \in M \/ o >= N,
         \A i \in DOMAIN mb : mb[i].nr \in Int /\ (mb[i].type \in {"event", "save"} => mb[i].nr < N),
         \A i \in DOMAIN ev : ev[i] \in Int /\ ev[i] < N,
         u \in Int, u <= N
  PROVE  NoGap(mb, ev, u, M2, f, last)
<1>1. ASSUME NEW o \in M2, NEW k \in Int, o < k, k <= N PROVE o \in M
  BY <1>1
<1>2. EventsIn(mb, M2, f)
  <2> SUFFICES ASSUME NEW i \in DOMAIN mb, mb[i].type = "event", NEW o \in M2, o < mb[i].nr
               PROVE  o <= f \/ Has(mb, o, i - 1)
    BY DEF EventsIn
  <2>1. o \in M
    BY <1>1
  <2> QED
    BY <2>1 DEF NoGap, EventsIn
<1>3. SavesIn(mb, M2, f, last)
  <2> SUFFICES ASSUME NEW i \in DOMAIN mb, mb[i].type = "save"
               PROVE  /\ \A o \in M2 : o <= mb[i].nr => o <= f \/ Has(mb, o, i - 1)
                      /\ last <= mb[i].nr
                      /\ \A j \in DOMAIN mb : mb[j].type = "event" /\ j < i => mb[j].nr <= mb[i].nr
    BY DEF SavesIn
  <2>1. ASSUME NEW o \in M2, o <= mb[i].nr PROVE o \in M
    BY <2>1
  <2> QED
    BY <2>1 DEF NoGap, SavesIn
<1>4. ComingIn(mb, ev, M2, f)
  <2> SUFFICES ASSUME NEW i \in DOMAIN ev, NEW o \in M2, o < ev[i]
               PROVE  o <= f \/ Has(mb, o, Len(mb)) \/ Among(o, ev, i - 1)
    BY DEF ComingIn
  <2>1. o \in M
    BY <1>1
  <2> QED
    BY <2>1 DEF NoGap, ComingIn
<1>5. RestIn(mb, ev, u, M2, f)
  BY <1>1 DEF NoGap, RestIn
<1> QED
  BY <1>2, <1>3, <1>4, <1>5 DEF NoGap

\* What is found in a mailbox that gets one message more
LEMMA HasLonger ==
  ASSUME NEW mb \in Seq(Message), NEW mb2, NEW m, Longer(mb, mb2, m)
  PROVE  /\ \A o : \A n \in 0 .. Len(mb) : Has(mb, o, n) => Has(mb2, o, n)
         /\ \A o : Has(mb, o, Len(mb)) => Has(mb2, o, Len(mb2))
         /\ m.type = "event" => Has(mb2, m.nr, Len(mb2))
<1>1. /\ Len(mb) \in Nat /\ DOMAIN mb = 1 .. Len(mb) /\ Len(mb2) = Len(mb) + 1
      /\ mb2[Len(mb) + 1] = m /\ \A i \in 1 .. Len(mb) : mb2[i] = mb[i]
  BY DEF Longer
<1>2. ASSUME NEW o, NEW n \in 0 .. Len(mb), Has(mb, o, n) PROVE Has(mb2, o, n)
  <2>1. PICK j \in 1 .. n : mb[j].type = "event" /\ mb[j].nr = o
    BY <1>2 DEF Has
  <2>2. j \in 1 .. Len(mb)
    BY <1>1
  <2> QED
    BY <1>1, <2>1, <2>2 DEF Has
<1>3. ASSUME NEW o, Has(mb, o, Len(mb)) PROVE Has(mb2, o, Len(mb2))
  <2>1. PICK j \in 1 .. Len(mb) : mb[j].type = "event" /\ mb[j].nr = o
    BY <1>3 DEF Has
  <2>2. j \in 1 .. Len(mb2)
    BY <1>1
  <2> QED
    BY <1>1, <2>1, <2>2 DEF Has
<1>4. Len(mb) + 1 \in 1 .. Len(mb2)
  BY <1>1
<1> QED
  BY <1>1, <1>2, <1>3, <1>4 DEF Has

\* All events of the pair up to o have reached the book.
Reached(mb, M, f, o) == \A k \in M : k <= o => k <= f \/ Has(mb, k, Len(mb))

\* The book gets a message that goes with what it has been sent before.
LEMMA GapPosted ==
  ASSUME NEW mb \in Seq(Message), NEW ev, NEW u, NEW M, NEW f, NEW last,
         NoGap(mb, ev, u, M, f, last), NEW mb2, NEW m, Longer(mb, mb2, m),
         m.type = "event" => \A k \in M : k < m.nr => k <= f \/ Has(mb, k, Len(mb)),
         m.type = "save" =>
           /\ Reached(mb, M, f, m.nr) /\ last <= m.nr
           /\ \A j \in DOMAIN mb : mb[j].type = "event" => mb[j].nr <= m.nr
  PROVE  NoGap(mb2, ev, u, M, f, last)
<1>1. /\ Len(mb) \in Nat /\ DOMAIN mb = 1 .. Len(mb) /\ DOMAIN mb2 = 1 .. Len(mb) + 1
      /\ mb2[Len(mb) + 1] = m /\ \A i \in 1 .. Len(mb) : mb2[i] = mb[i]
  BY DEF Longer
<1> DEFINE n == Len(mb)
<1>2. /\ \A o : \A k \in 0 .. n : Has(mb, o, k) => Has(mb2, o, k)
      /\ \A o : Has(mb, o, n) => Has(mb2, o, Len(mb2))
  BY HasLonger
<1>3. n \in Nat /\ \A i \in DOMAIN mb2 : i = n + 1 \/ (i \in 1 .. n /\ i - 1 \in 0 .. n)
  BY <1>1
<1>4. EventsIn(mb2, M, f)
  <2> SUFFICES ASSUME NEW i \in DOMAIN mb2, mb2[i].type = "event", NEW o \in M, o < mb2[i].nr
               PROVE  o <= f \/ Has(mb2, o, i - 1)
    BY DEF EventsIn
  <2>1. CASE i = n + 1
    <3>1. i - 1 = n /\ n \in 0 .. n
      BY <1>3, <2>1
    <3> QED
      BY <1>1, <1>2, <2>1, <3>1
  <2>2. CASE i \in 1 .. n /\ i - 1 \in 0 .. n
    BY <1>1, <1>2, <2>2 DEF NoGap, EventsIn
  <2> QED
    BY <1>3, <2>1, <2>2
<1>5. SavesIn(mb2, M, f, last)
  <2> SUFFICES ASSUME NEW i \in DOMAIN mb2, mb2[i].type = "save"
               PROVE  /\ \A o \in M : o <= mb2[i].nr => o <= f \/ Has(mb2, o, i - 1)
                      /\ last <= mb2[i].nr
                      /\ \A j \in DOMAIN mb2 : mb2[j].type = "event" /\ j < i => mb2[j].nr <= mb2[i].nr
    BY DEF SavesIn
  <2>1. CASE i = n + 1
    <3>1. i - 1 = n /\ n \in 0 .. n /\ mb2[i] = m
      BY <1>1, <1>3, <2>1
    <3>2. ASSUME NEW j \in DOMAIN mb2, j < i PROVE j \in DOMAIN mb /\ mb2[j] = mb[j]
      BY <1>1, <1>3, <2>1, <3>2
    <3> QED
      BY <1>2, <3>1, <3>2 DEF Reached
  <2>2. CASE i \in 1 .. n /\ i - 1 \in 0 .. n
    <3>1. mb2[i] = mb[i] /\ i \in DOMAIN mb
      BY <1>1, <2>2
    <3>2. ASSUME NEW j \in DOMAIN mb2, j < i PROVE j \in DOMAIN mb /\ mb2[j] = mb[j]
      BY <1>1, <2>2, <3>2
    <3>3. /\ \A o \in M : o <= mb[i].nr => o <= f \/ Has(mb, o, i - 1)
          /\ last <= mb[i].nr
          /\ \A j \in DOMAIN mb : mb[j].type = "event" /\ j < i => mb[j].nr <= mb[i].nr
      BY <3>1 DEF NoGap, SavesIn
    <3> QED
      BY <1>2, <2>2, <3>1, <3>2, <3>3
  <2> QED
    BY <1>3, <2>1, <2>2
<1>6. ComingIn(mb2, ev, M, f) /\ RestIn(mb2, ev, u, M, f)
  BY <1>2 DEF NoGap, ComingIn, RestIn
<1> QED
  BY <1>4, <1>5, <1>6 DEF NoGap

\* The first event on its way
LEMMA FirstReached ==
  ASSUME NEW mb, NEW ev \in Seq(Int), ev # <<>>, NEW u, NEW M, M \subseteq Int, NEW f, NEW last,
         NoGap(mb, ev, u, M, f, last)
  PROVE  /\ \A k \in M : k < ev[1] => k <= f \/ Has(mb, k, Len(mb))
         /\ ev[1] \notin M \/ Has(mb, ev[1], Len(mb)) => Reached(mb, M, f, ev[1])
<1>1. 1 \in DOMAIN ev /\ ev[1] \in Int
  OBVIOUS
<1>2. ASSUME NEW k \in M, k < ev[1] PROVE k <= f \/ Has(mb, k, Len(mb))
  <2>1. k <= f \/ Has(mb, k, Len(mb)) \/ Among(k, ev, 1 - 1)
    BY <1>1, <1>2 DEF NoGap, ComingIn
  <2> QED
    BY <2>1 DEF Among
<1>3. \A k \in M : k <= ev[1] => k < ev[1] \/ k = ev[1]
  BY <1>1
<1> QED
  BY <1>2, <1>3 DEF Reached

\* MatcherActor takes an event that has reached the book or is for another.
LEMMA GapTaken ==
  ASSUME NEW mb, NEW ev \in Seq(Int), ev # <<>>, NEW u, NEW M, NEW f, NEW last,
         NoGap(mb, ev, u, M, f, last), ev[1] \notin M \/ Has(mb, ev[1], Len(mb)),
         NEW ev2, Shorter(ev, ev2)
  PROVE  NoGap(mb, ev2, u, M, f, last)
<1>1. /\ Len(ev) \in Nat /\ DOMAIN ev = 1 .. Len(ev) /\ Len(ev2) = Len(ev) - 1
      /\ DOMAIN ev2 = 1 .. Len(ev) - 1 /\ \A i \in 1 .. Len(ev) - 1 : ev2[i] = ev[i + 1]
  BY DEF Shorter
<1>2. ASSUME NEW o \in M, NEW n \in 0 .. Len(ev) - 1, Among(o, ev, n + 1)
      PROVE  Has(mb, o, Len(mb)) \/ Among(o, ev2, n)
  <2>1. PICK j \in 1 .. n + 1 : ev[j] = o
    BY <1>2 DEF Among
  <2>2. CASE j = 1
    BY <2>1, <2>2
  <2>3. CASE j # 1
    <3>1. j - 1 \in 1 .. n /\ j - 1 \in 1 .. Len(ev) - 1 /\ (j - 1) + 1 = j
      BY <1>1, <2>3
    <3>2. ev2[j - 1] = o
      BY <1>1, <2>1, <3>1
    <3> QED
      BY <3>1, <3>2 DEF Among
  <2> QED
    BY <2>2, <2>3
<1>3. ComingIn(mb, ev2, M, f)
  <2> SUFFICES ASSUME NEW i \in DOMAIN ev2, NEW o \in M, o < ev2[i]
               PROVE  o <= f \/ Has(mb, o, Len(mb)) \/ Among(o, ev2, i - 1)
    BY DEF ComingIn
  <2>1. i + 1 \in DOMAIN ev /\ ev2[i] = ev[i + 1] /\ (i + 1) - 1 = (i - 1) + 1 /\ i - 1 \in 0 .. Len(ev) - 1
    BY <1>1
  <2>2. o <= f \/ Has(mb, o, Len(mb)) \/ Among(o, ev, (i + 1) - 1)
    BY <2>1 DEF NoGap, ComingIn
  <2> QED
    BY <1>2, <2>1, <2>2
<1>4. RestIn(mb, ev2, u, M, f)
  <2> SUFFICES ASSUME u # None, NEW o \in M, o < u
               PROVE  o <= f \/ Has(mb, o, Len(mb)) \/ Among(o, ev2, Len(ev2))
    BY DEF RestIn
  <2>1. o <= f \/ Has(mb, o, Len(mb)) \/ Among(o, ev, Len(ev))
    BY DEF NoGap, RestIn
  <2>2. Len(ev) = Len(ev2) + 1 /\ Len(ev2) \in 0 .. Len(ev) - 1
    BY <1>1
  <2> QED
    BY <1>2, <2>1, <2>2
<1> QED
  BY <1>3, <1>4 DEF NoGap

\* The book takes its first message.
LEMMA GapConsumed ==
  ASSUME NEW mb \in Seq(Message), mb # <<>>, NEW ev, NEW u, NEW M, M \subseteq Int, NEW f \in Int, NEW last \in Int,
         NoGap(mb, ev, u, M, f, last), NEW mb2, Shorter(mb, mb2),
         NEW f2 \in Int, f <= f2, mb[1].type = "event" => mb[1].nr <= f2,
         NEW last2, last2 = last \/ (mb[1].type = "event" /\ last2 = mb[1].nr)
  PROVE  NoGap(mb2, ev, u, M, f2, last2)
<1>1. /\ Len(mb) \in Nat /\ DOMAIN mb = 1 .. Len(mb) /\ Len(mb2) = Len(mb) - 1 /\ 1 \in DOMAIN mb
      /\ DOMAIN mb2 = 1 .. Len(mb) - 1 /\ \A i \in 1 .. Len(mb) - 1 : mb2[i] = mb[i + 1]
  BY DEF Shorter
<1>2. ASSUME NEW o \in M, NEW n \in 0 .. Len(mb) - 1, o <= f \/ Has(mb, o, n + 1)
      PROVE  o <= f2 \/ Has(mb2, o, n)
  <2>1. CASE o <= f
    <3>1. o \in Int /\ f \in Int /\ f2 \in Int /\ f <= f2
      OBVIOUS
    <3> QED
      BY <2>1, <3>1
  <2>2. CASE Has(mb, o, n + 1)
    <3>1. PICK j \in 1 .. n + 1 : mb[j].type = "event" /\ mb[j].nr = o
      BY <2>2 DEF Has
    <3>2. CASE j = 1
      BY <3>1, <3>2
    <3>3. CASE j # 1
      <4>1. j - 1 \in 1 .. n /\ j - 1 \in 1 .. Len(mb) - 1 /\ (j - 1) + 1 = j
        BY <1>1, <3>3
      <4>2. mb2[j - 1] = mb[j]
        BY <1>1, <4>1
      <4> QED
        BY <3>1, <4>1, <4>2 DEF Has
    <3> QED
      BY <3>2, <3>3
  <2> QED
    BY <1>2, <2>1, <2>2
<1>3. ASSUME NEW i \in DOMAIN mb2
      PROVE  i + 1 \in DOMAIN mb /\ mb2[i] = mb[i + 1] /\ (i + 1) - 1 = (i - 1) + 1 /\ i - 1 \in 0 .. Len(mb) - 1
             /\ i \in Nat
  BY <1>1
<1>4. EventsIn(mb2, M, f2)
  <2> SUFFICES ASSUME NEW i \in DOMAIN mb2, mb2[i].type = "event", NEW o \in M, o < mb2[i].nr
               PROVE  o <= f2 \/ Has(mb2, o, i - 1)
    BY DEF EventsIn
  <2>1. o <= f \/ Has(mb, o, (i + 1) - 1)
    BY <1>3 DEF NoGap, EventsIn
  <2> QED
    BY <1>2, <1>3, <2>1
<1>5. SavesIn(mb2, M, f2, last2)
  <2> SUFFICES ASSUME NEW i \in DOMAIN mb2, mb2[i].type = "save"
               PROVE  /\ \A o \in M : o <= mb2[i].nr => o <= f2 \/ Has(mb2, o, i - 1)
                      /\ last2 <= mb2[i].nr
                      /\ \A j \in DOMAIN mb2 : mb2[j].type = "event" /\ j < i => mb2[j].nr <= mb2[i].nr
    BY DEF SavesIn
  <2>1. /\ \A o \in M : o <= mb[i + 1].nr => o <= f \/ Has(mb, o, (i + 1) - 1)
        /\ last <= mb[i + 1].nr
        /\ \A j \in DOMAIN mb : mb[j].type = "event" /\ j < i + 1 => mb[j].nr <= mb[i + 1].nr
    BY <1>3 DEF NoGap, SavesIn
  <2>2. ASSUME NEW j \in DOMAIN mb2, mb2[j].type = "event", j < i PROVE mb2[j].nr <= mb2[i].nr
    <3>1. j + 1 \in DOMAIN mb /\ mb2[j] = mb[j + 1] /\ j + 1 < i + 1
      BY <1>3, <2>2
    <3> QED
      BY <1>3, <2>1, <2>2, <3>1
  <2>3. last2 <= mb2[i].nr
    <3>1. 1 < i + 1
      BY <1>1
    <3> QED
      BY <1>1, <1>3, <2>1, <3>1
  <2> QED
    BY <1>2, <1>3, <2>1, <2>2, <2>3
<1>6. Len(mb) = Len(mb2) + 1 /\ Len(mb2) \in 0 .. Len(mb) - 1
  BY <1>1
<1>7. ComingIn(mb2, ev, M, f2) /\ RestIn(mb2, ev, u, M, f2)
  BY <1>2, <1>6 DEF NoGap, ComingIn, RestIn
<1> QED
  BY <1>4, <1>5, <1>7 DEF NoGap

\* A poll
LEMMA GapPolled ==
  ASSUME NEW mb, NEW ev \in Seq(Int), NEW u \in Int, u # None, NEW M, M \subseteq Int, NEW f, NEW last,
         NoGap(mb, ev, u, M, f, last), NEW read \in Seq(Int), Len(read) \in Nat \ {0},
         \A i \in 1 .. Len(read) : \A o \in M :
           u <= o /\ o < read[i] => o <= f \/ \E j \in 1 .. i - 1 : read[j] = o
  PROVE  NoGap(mb, ev \o read, read[Len(read)] + 1, M, f, last)
<1> DEFINE t == ev \o read
           m == Len(ev)
<1>1. /\ Len(t) = m + Len(read) /\ DOMAIN t = 1 .. m + Len(read)
      /\ \A i \in 1 .. m : t[i] = ev[i]
      /\ \A i \in 1 .. Len(read) : t[m + i] = read[i]
  BY ConcatIs
<1>2. m \in Nat /\ DOMAIN ev = 1 .. m /\ \A i \in 1 .. Len(read) : read[i] \in Int
  OBVIOUS
<1> HIDE DEF t
<1>3. ASSUME NEW o, NEW n \in 0 .. m, Among(o, ev, n) PROVE Among(o, t, n)
  <2>1. PICK j \in 1 .. n : ev[j] = o
    BY <1>3 DEF Among
  <2>2. j \in 1 .. m
    BY <1>2
  <2> QED
    BY <2>1, <2>2, <1>1 DEF Among
<1>4. ASSUME NEW k \in 1 .. Len(read), NEW o \in M, o < read[k]
      PROVE  o <= f \/ Has(mb, o, Len(mb)) \/ Among(o, t, (m + k) - 1)
  <2>1. CASE o < u
    <3>1. o <= f \/ Has(mb, o, Len(mb)) \/ Among(o, ev, m)
      BY <2>1 DEF NoGap, RestIn
    <3>2. Among(o, t, m) => Among(o, t, (m + k) - 1)
      BY <1>2 DEF Among
    <3>3. m \in 0 .. m
      BY <1>2
    <3> QED
      BY <1>3, <3>1, <3>2, <3>3
  <2>2. CASE u <= o
    <3>1. o <= f \/ \E j \in 1 .. k - 1 : read[j] = o
      BY <1>4, <2>2
    <3>2. ASSUME NEW j \in 1 .. k - 1, read[j] = o PROVE Among(o, t, (m + k) - 1)
      <4>1. j \in 1 .. Len(read) /\ m + j \in 1 .. (m + k) - 1
        BY <1>2
      <4> QED
        BY <1>1, <3>2, <4>1 DEF Among
    <3> QED
      BY <3>1, <3>2
  <2>3. o \in Int
    OBVIOUS
  <2> QED
    BY <2>1, <2>2, <2>3
<1>5. ComingIn(mb, t, M, f)
  <2> SUFFICES ASSUME NEW i \in DOMAIN t, NEW o \in M, o < t[i]
               PROVE  o <= f \/ Has(mb, o, Len(mb)) \/ Among(o, t, i - 1)
    BY DEF ComingIn
  <2>1. CASE i \in 1 .. m
    <3>1. t[i] = ev[i] /\ i \in DOMAIN ev /\ i - 1 \in 0 .. m
      BY <1>1, <1>2, <2>1
    <3>2. o <= f \/ Has(mb, o, Len(mb)) \/ Among(o, ev, i - 1)
      BY <3>1 DEF NoGap, ComingIn
    <3> QED
      BY <1>3, <3>1, <3>2
  <2>2. CASE i \notin 1 .. m
    <3>1. i - m \in 1 .. Len(read) /\ m + (i - m) = i
      BY <1>1, <1>2, <2>2
    <3>2. t[i] = read[i - m]
      BY <1>1, <3>1
    <3>3. o <= f \/ Has(mb, o, Len(mb)) \/ Among(o, t, (m + (i - m)) - 1)
      BY <1>4, <3>1, <3>2
    <3> QED
      BY <3>1, <3>3
  <2> QED
    BY <2>1, <2>2
<1>6. RestIn(mb, t, read[Len(read)] + 1, M, f)
  <2> DEFINE k == Len(read)
  <2> SUFFICES ASSUME NEW o \in M, o < read[k] + 1
               PROVE  o <= f \/ Has(mb, o, Len(mb)) \/ Among(o, t, Len(t))
    BY DEF RestIn
  <2>1. k \in 1 .. k /\ read[k] \in Int /\ o \in Int
    BY <1>2
  <2>2. CASE o = read[k]
    <3>1. m + k \in 1 .. Len(t) /\ t[m + k] = o
      BY <1>1, <1>2, <2>1, <2>2
    <3> QED
      BY <3>1 DEF Among
  <2>3. CASE o < read[k]
    <3>1. o <= f \/ Has(mb, o, Len(mb)) \/ Among(o, t, (m + k) - 1)
      BY <1>4, <2>1, <2>3
    <3>2. Among(o, t, (m + k) - 1) => Among(o, t, Len(t))
      BY <1>1, <1>2 DEF Among
    <3> QED
      BY <3>1, <3>2
  <2> QED
    BY <2>1, <2>2, <2>3
<1> QED
  BY <1>5, <1>6 DEF NoGap, t

----------------------------------------------------------------------------
(* No event of a pair is left out on the way to its book *)

\* The invariant, pair by pair
LEMMA LogIs == LogInv <=> \A p \in Pair : LogOf(p)
BY DEF LogInv

\* What was irregular once stays so.
LEMMA RegularStays ==
  ASSUME TypeOK, StoreInv, MatcherNext, NEW q \in Pair, Regular(q)'
  PROVE  Regular(q)
<1>1. orphans \subseteq orphans'
  BY RememberedGrows
<1>2. misnumbered \subseteq misnumbered'
  <2>1. CASE HandleEvent
    BY <2>1 DEF HandleEvent, Forward
  <2>2. CASE Crash \/ ForcedStop
    BY <2>2, RestartIs DEF Started
  <2>3. CASE AddToMemory \/ Poll \/ WriteJournal
    BY <2>3 DEF AddToMemory, Poll, WriteJournal
  <2>4. ASSUME NEW p \in Pair, \/ StoreEvent(p) \/ HandleUpdated(p) \/ HandleTerminated(p) \/ Collect(p)
                               \/ BookRecovers(p) \/ BookHandles(p) \/ WriteSnapshot(p) \/ SnapshotFails(p)
                               \/ BookFails(p)
        PROVE  misnumbered \subseteq misnumbered'
    BY <2>4 DEF StoreEvent, HandleUpdated, HandleTerminated, Collect, BookRecovers, BookHandles,
                WriteSnapshot, SnapshotFails, BookFails
  <2> QED
    BY <2>1, <2>2, <2>3, <2>4 DEF MatcherNext, MatcherStep
<1> QED
  BY <1>1, <1>2 DEF Regular

\* A step that concerns neither the book nor the queue
LEMMA DeliveredSame ==
  ASSUME NEW q \in Pair, Delivered(q), book'[q] = book[q], snapshot'[q] = snapshot[q],
         UNCHANGED <<log, lost, events, lastUnread>>
  PROVE  Delivered(q)'
BY DEF Delivered, OfType, Mine, PairOf, MailAmong, Among, Floor

\* The events of a pair are offsets of the log.
LEMMA MineIs ==
  ASSUME TypeOK, NEW q
  PROVE  Mine(q) \subseteq Int /\ Mine(q) \subseteq 0 .. Len(log) - 1 /\ Len(log) \in Nat
BY DEF Mine, TypeOK, QueueTypes

\* An event that is stored is later than all before it.
LEMMA DeliveredStored ==
  ASSUME TypeOK, TypeOK', StoreInv, MemoryInv, NumbersInv, MailInv, NEW p \in Pair, StoreEvent(p),
         NEW q \in Pair, Delivered(q)
  PROVE  Delivered(q)'
<1>1. UNCHANGED <<book, snapshot, events, lastUnread, lost>> /\ log' = Append(log, p)
  BY DEF StoreEvent, bookVars
<1>2. Len(log) \in Nat /\ log \in Seq(Pair) /\ Len(log') = Len(log) + 1
  BY <1>1 DEF TypeOK, QueueTypes
<1>3. \A o \in 0 .. Len(log) - 1 : PairOf(o)' = PairOf(o)
  BY LogGrows DEF MatcherNext
<1>4. Mine(q)' \subseteq Int
  BY <1>2 DEF Mine
<1>5. \A o \in Mine(q)' : o \in Mine(q) \/ o >= Len(log)
  BY <1>1, <1>2, <1>3 DEF Mine
<1>6. \A i \in DOMAIN book[q].mailbox : /\ book[q].mailbox[i].nr \in Int
                                        /\ book[q].mailbox[i].type \in {"event", "save"} => book[q].mailbox[i].nr < Len(log)
  <2> SUFFICES ASSUME NEW i \in DOMAIN book[q].mailbox
               PROVE  /\ book[q].mailbox[i].nr \in Int
                      /\ book[q].mailbox[i].type \in {"event", "save"} => book[q].mailbox[i].nr < Len(log)
    OBVIOUS
  <2>1. book[q].mailbox[i].nr \in Int
    BY NumbersTyped
  <2>2. CASE book[q].mailbox[i].type = "event"
    <3>1. Sendable(book[q].mailbox[i].nr, q)
      BY <2>2, MailIs DEF MailOf
    <3> QED
      BY <1>2, <2>1, <3>1 DEF Sendable, StoreInv
  <2>3. CASE book[q].mailbox[i].type = "save"
    BY <2>1, <2>3, NumbersIs DEF NumbersOf, Covered
  <2> QED
    BY <2>1, <2>2, <2>3
<1>7. \A i \in DOMAIN events : events[i] \in Int /\ events[i] < Len(log)
  BY <1>2, EventsStored
<1>8. lastUnread \in Int /\ lastUnread <= Len(log)
  BY <1>2 DEF TypeOK, QueueTypes, MemoryInv, None
<1>9. NoGap(book[q].mailbox, events, lastUnread, Mine(q), Floor(q), book[q].lastProcessed)
  BY DeliveredIs
<1> DEFINE M2 == Mine(q)'
           N == Len(log)
<1>10. NoGap(book[q].mailbox, events, lastUnread, M2, Floor(q), book[q].lastProcessed)
  <2>1. M2 \subseteq Int /\ N \in Int /\ \A o \in M2 : o \in Mine(q) \/ o >= N
    BY <1>2, <1>4, <1>5
  <2> HIDE DEF M2
  <2> QED
    BY <1>6, <1>7, <1>8, <1>9, <2>1, GapFrame
<1>11. Floor(q)' = Floor(q)
  BY <1>1 DEF Floor
<1> QED
  BY <1>1, <1>10, <1>11 DEF Delivered, NoGap, EventsIn, SavesIn, ComingIn, RestIn, Has, MailAmong, OfType, Among

\* In what was deleted nothing is missing: a poll passes over it.
LEMMA DeliveredPoll ==
  ASSUME TypeOK, TypeOK', StoreInv, MemoryInv, NumbersInv, MailInv, Poll, NEW q \in Pair, Delivered(q)
  PROVE  Delivered(q)'
<1>0. PICK read : Reads(read)
  BY PollReads
<1>1. /\ UNCHANGED <<book, snapshot, log, lost>> /\ events' = events \o read /\ lastUnread' = read[Len(read)] + 1
      /\ read \in Seq(Int) /\ Len(read) \in Nat \ {0} /\ lastUnread # None
      /\ events \in Seq(Int) /\ lastUnread \in Int /\ stored \subseteq 0 .. Len(log) - 1 /\ lastUnread \in 0 .. Len(log)
  BY <1>0 DEF Reads, bookVars, TypeOK, QueueTypes, StoreInv, MemoryInv
<1>2. NoGap(book[q].mailbox, events, lastUnread, Mine(q), Floor(q), book[q].lastProcessed)
  BY DeliveredIs
<1>3. Mine(q) \subseteq Int /\ Mine(q) \subseteq 0 .. Len(log) - 1
  BY MineIs
<1>4. ASSUME NEW o \in Mine(q), o \notin stored PROVE o <= Floor(q)
  <2>1. PairOf(o) = q /\ o \notin lost /\ o \in 0 .. Len(log) - 1
    BY DEF Mine
  <2>2. CASE book[q].state = "ready"
    BY <1>4, <2>1, <2>2, MailIs DEF MailOf, Gone, Floor
  <2>3. CASE book[q].state # "ready"
    BY <1>4, <2>1, <2>3 DEF StoreInv, Floor
  <2> QED
    BY <2>2, <2>3
<1>5. ASSUME NEW i \in 1 .. Len(read), NEW o \in Mine(q), lastUnread <= o, o < read[i]
      PROVE  o <= Floor(q) \/ \E j \in 1 .. i - 1 : read[j] = o
  BY <1>0, <1>4, <1>5 DEF Reads
<1>6. NoGap(book[q].mailbox, events \o read, read[Len(read)] + 1, Mine(q), Floor(q), book[q].lastProcessed)
  <2> DEFINE M == Mine(q)
             f == Floor(q)
             u == lastUnread
             last == book[q].lastProcessed
             mb == book[q].mailbox
  <2>1. /\ events \in Seq(Int) /\ u \in Int /\ u # None /\ M \subseteq Int
        /\ read \in Seq(Int) /\ Len(read) \in Nat \ {0} /\ NoGap(mb, events, u, M, f, last)
    BY <1>1, <1>2, <1>3
  <2>2. \A i \in 1 .. Len(read) : \A o \in M :
          u <= o /\ o < read[i] => o <= f \/ \E j \in 1 .. i - 1 : read[j] = o
    BY <1>5
  <2> HIDE DEF M, f, u, last, mb
  <2>3. NoGap(mb, events \o read, read[Len(read)] + 1, M, f, last)
    BY ONLY <2>1, <2>2, GapPolled
  <2> QED
    BY <2>3 DEF M, f, last, mb
<1>7. Floor(q)' = Floor(q) /\ Mine(q)' = Mine(q)
  BY <1>1 DEF Floor, Mine, PairOf
<1>8. NoGap(book'[q].mailbox, events', lastUnread', Mine(q)', Floor(q)', book'[q].lastProcessed)
  BY <1>1, <1>6, <1>7
<1> QED
  BY <1>8 DEF Delivered, NoGap, EventsIn, SavesIn, ComingIn, RestIn, Has, MailAmong, OfType, Among

\* Every book has what comes before the oldest snapshot, or it was deleted.
LEMMA DeliveredStarts ==
  ASSUME TypeOK, TypeOK', StoreInv, MemoryInv, NumbersInv, CollectInv, PresenceInv, MailInv, MatcherNext,
         NEW p \in Pair, CollectedOne(p), StartsWorking, NEW q \in Pair, Regular(q)
  PROVE  Delivered(q)'
<1>1. /\ status = "collecting" /\ UNCHANGED <<log, book, snapshot, events>>
  BY DEF CollectedOne, StartsWorking, bookVars
<1>2. PICK n : StartsAt(n)
  BY StartsAtIs
<1>3. book'[q].mailbox = <<>> /\ events' = <<>>
  BY <1>1 DEF CollectInv, CollectsFrom, Waiting
<1>4. /\ lastUnread' = n + 1 /\ n \in Int /\ Covered(n) /\ snapshot[q].nr \in Int
      /\ lost' = lost \cup {u \in stored \ stored' : u > snapshot[PairOf(u)].nr}
      /\ \A u \in journal : n <= snapshot[u].nr
  BY <1>2, NumbersTyped DEF StartsAt
<1>5. Floor(q)' = snapshot[q].nr \/ Floor(q)' >= snapshot[q].nr
  BY <1>1, <1>4, MailIs DEF MailOf, Floor
<1>6. ASSUME NEW o \in Mine(q)', o < lastUnread' PROVE o <= snapshot[q].nr
  <2>1. o \in 0 .. Len(log) - 1 /\ PairOf(o) = q /\ o \notin lost' /\ o \notin lost /\ o <= n /\ o \in Int /\ o \in 0 .. n
    BY <1>1, <1>4, <1>6 DEF Mine, PairOf
  <2>2. CASE q \in journal
    BY <1>4, <2>1, <2>2
  <2>3. CASE q \notin journal
    <3>1. Known(o)
      BY <1>4, <2>1 DEF Covered
    <3>2. q \in orphans
      BY <1>1, <2>1, <2>3, <3>1 DEF Known, Remembered, CollectInv, CollectsFrom, Waiting, ToSet
    <3>3. CleanBeforeConsume
      BY <3>2 DEF Regular
    <3>4. CASE o \in stored
      <4>1. stored' = stored \ {u \in stored : u < lastUnread'}
        BY <3>3 DEF StartsWorking, StartConsume
      <4>2. o \in stored \ stored'
        BY <1>6, <3>4, <4>1
      <4> QED
        BY <1>4, <2>1, <4>2
    <3>5. CASE o \notin stored
      BY <2>1, <3>5 DEF StoreInv
    <3> QED
      BY <3>4, <3>5
  <2> QED
    BY <2>2, <2>3
<1>7. Floor(q)' = snapshot[q].nr
  BY <1>1, MailIs DEF MailOf, Floor
<1> DEFINE M2 == Mine(q)'
<1>8. NoGap(<<>>, <<>>, n + 1, M2, snapshot[q].nr, book[q].lastProcessed)
  <2>1. \A o \in M2 : o < n + 1 => o <= snapshot[q].nr
    BY <1>4, <1>6
  <2> HIDE DEF M2
  <2>2. DOMAIN <<>> = {}
    OBVIOUS
  <2> QED
    BY <2>1, <2>2 DEF NoGap, EventsIn, SavesIn, ComingIn, RestIn
<1> QED
  BY <1>1, <1>3, <1>4, <1>7, <1>8 DEF Delivered, NoGap, EventsIn, SavesIn, ComingIn, RestIn, Has, MailAmong,
     OfType, Among

\* After a restart nothing is on its way.
LEMMA DeliveredRestart ==
  ASSUME TypeOK, StoreInv, Crash \/ ForcedStop, NEW q \in Pair
  PROVE  Delivered(q)'
<1>1. Started
  BY RestartIs
<1>2. /\ book'[q].mailbox = <<>> /\ events' = <<>> /\ (lastUnread' = None \/ lastUnread' = 0)
  BY <1>1, StartingIs DEF Started
<1>3. \A o \in Mine(q)' : ~(o < 0)
  BY DEF Mine
<1> QED
  BY <1>2, <1>3 DEF Delivered, OfType

\* What the next state has to satisfy, in a form without nested primes
LEMMA DeliveredNext ==
  ASSUME NEW q, NEW mb, NEW ev, NEW u, NEW M, NEW f, NEW last, NoGap(mb, ev, u, M, f, last),
         book'[q].mailbox = mb, events' = ev, lastUnread' = u, Mine(q)' = M, Floor(q)' = f,
         book'[q].lastProcessed = last
  PROVE  Delivered(q)'
BY DEF Delivered, NoGap, EventsIn, SavesIn, ComingIn, RestIn, Has, MailAmong, OfType, Among

\* MatcherActor passes on an event, and perhaps a request to save at it.
LEMMA DeliveredHandle ==
  ASSUME TypeOK, TypeOK', StoreInv, PresenceInv, MailInv, HandleEvent, NEW q \in Pair, Delivered(q),
         q \notin misnumbered', Follows(q)'
  PROVE  Delivered(q)'
<1>1. /\ UNCHANGED <<log, lost, lastUnread, snapshot>> /\ events \in Seq(Int) /\ events # <<>>
      /\ Shorter(events, events') /\ events[1] \in 0 .. Len(log) - 1
  BY HandleEventIs DEF EventTaken, queueVars, TypeOK, QueueTypes
<1> DEFINE o == events[1]
<1>2. PICK s : Gets(q, o, s)
  BY HandledIs
<1>3. o \in Int
  BY <1>1
<1>4. book[q] \in BookState /\ book'[q] \in BookState /\ PresenceOf(q)
      /\ orderBooks'[q] = (IF q = PairOf(o) /\ orderBooks[q] = "none" THEN "up" ELSE orderBooks[q])
  BY NumbersTyped, HandledIs, PresenceIs
<1> DEFINE r == Before(q, o)
<1>5. r \in BookState /\ s \in BookState /\ s.mailbox \in Seq(Message) /\ r.mailbox \in Seq(Message)
  <2>1. r \in BookState /\ s \in BookState
    BY <1>2, <1>4, StartingIs DEF Gets, Before
  <2> QED
    BY <2>1 DEF BookState
<1> DEFINE M == Mine(q)
           f == Floor(q)
           u == lastUnread
           ev == events
           last == r.lastProcessed
<1>6. NoGap(r.mailbox, ev, u, M, f, last)
  <2>1. r.mailbox = book[q].mailbox /\ r.lastProcessed = book[q].lastProcessed
    BY <1>4, StartingIs DEF Before, PresenceOf
  <2> QED
    BY <2>1, DeliveredIs
<1>7. M \subseteq Int /\ ev \in Seq(Int) /\ ev # <<>> /\ o = ev[1] /\ Shorter(ev, events')
  BY <1>1, MineIs
<1>8. SameBut(r, s) /\ SameBut(s, book'[q])
  BY <1>2 DEF Gets, Posts, SameBut, Before
<1>9. r.state # "off" \/ (r = book[q] /\ q # PairOf(o))
  <2>1. CASE r.state = "off"
    <3>1. book'[q].state = "off"
      BY <1>8, <2>1 DEF SameBut
    <3>2. orderBooks'[q] = "none"
      BY <3>1 DEF Follows
    <3> QED
      BY <1>4, <3>2 DEF Before
  <2> QED
    BY <2>1
<1>10. Floor(q)' = f
  <2>1. CASE r = book[q]
    BY <1>1, <1>8, <2>1 DEF SameBut, Floor
  <2>2. CASE r # book[q]
    <3>1. r = StartingBook /\ book[q] = NoBook
      BY <1>4, <2>2 DEF Before, PresenceOf
    <3>2. book'[q].state = "loading" /\ book[q].state = "off"
      BY <1>8, <3>1, StartingIs DEF SameBut
    <3> QED
      BY <1>1, <3>2 DEF Floor
  <2> QED
    BY <2>1, <2>2
<1>11. Mine(q)' = M
  BY <1>1 DEF Mine, PairOf
<1>12. o \in M => q = PairOf(o)
  BY DEF Mine
<1>13. book'[q].lastProcessed = last
  BY <1>8 DEF SameBut
<1>14. Told(q, o) => ~IsAhead(s, o)
  BY <1>2 DEF Gets
<1> HIDE DEF M, f, u, ev, last, o, r
\* the event
<1>15. NoGap(s.mailbox, ev, u, M, f, last) /\ (o \notin M \/ Has(s.mailbox, o, Len(s.mailbox)))
  <2>1. CASE q = PairOf(o)
    <3> DEFINE m == EventAt(o)
               mb == r.mailbox
               mb2 == s.mailbox
    <3>1. Longer(mb, mb2, m) /\ m.type = "event" /\ m.nr = o
      BY <1>2, <1>9, <2>1 DEF Gets, Posts, EventAt, r
    <3>2. \A k \in M : k < o => k <= f \/ Has(mb, k, Len(mb))
      BY ONLY <1>6, <1>7, FirstReached
    <3>3. mb \in Seq(Message)
      BY <1>5
    <3> HIDE DEF m, mb, mb2
    <3>4. NoGap(mb2, ev, u, M, f, last)
      <4>1. NoGap(mb, ev, u, M, f, last)
        BY <1>6 DEF mb
      <4>2. m.type = "event" => \A k \in M : k < m.nr => k <= f \/ Has(mb, k, Len(mb))
        BY <3>1, <3>2
      <4>3. m.type # "save"
        BY <3>1
      <4> QED
        BY ONLY <3>1, <3>3, <4>1, <4>2, <4>3, GapPosted
    <3>5. Has(mb2, o, Len(mb2))
      BY <3>1, <3>3, HasLonger
    <3> QED
      BY <3>4, <3>5 DEF mb2
  <2>2. CASE q # PairOf(o)
    <3>1. s = r
      BY <1>2, <2>2 DEF Gets, Before, r
    <3> QED
      BY <1>6, <1>12, <2>2, <3>1
  <2> QED
    BY <2>1, <2>2
<1>16. NoGap(s.mailbox, events', u, M, f, last) /\ Reached(s.mailbox, M, f, o)
  <2> DEFINE mb == s.mailbox
             ev2 == events'
  <2>1. NoGap(mb, ev, u, M, f, last) /\ (ev[1] \notin M \/ Has(mb, ev[1], Len(mb)))
    BY <1>7, <1>15
  <2>2. Shorter(ev, ev2)
    BY <1>7
  <2> HIDE DEF mb, ev2
  <2>3. NoGap(mb, ev2, u, M, f, last) /\ Reached(mb, M, f, ev[1])
    BY ONLY <1>7, <2>1, <2>2, GapTaken, FirstReached
  <2> QED
    BY <1>7, <2>3 DEF mb, ev2
\* the message to save
<1>17. NoGap(book'[q].mailbox, events', u, M, f, last)
  <2>1. CASE Told(q, o)
    <3> DEFINE m == SaveAt(o)
               mb == s.mailbox
               mb2 == book'[q].mailbox
               ev2 == events'
    <3>1. s.state # "off"
      <4>1. CASE s.state = "off"
        <5>1. book'[q].state = "off"
          BY <1>8, <4>1 DEF SameBut
        <5>2. orderBooks'[q] = "none" /\ orderBooks[q] = "up"
          BY <2>1, <5>1 DEF Follows, Told, IsTold
        <5> QED
          BY <1>4, <5>2
      <4> QED
        BY <4>1
    <3>2. Longer(mb, mb2, m) /\ m.type = "save" /\ m.nr = o
      BY <1>2, <2>1, <3>1 DEF Gets, Posts, SaveAt
    <3>3. last <= o /\ \A j \in DOMAIN mb : mb[j].type = "event" => mb[j].nr <= o
      <4>1. ~IsAhead(s, o)
        BY <1>14, <2>1
      <4>2. s.lastProcessed = last /\ s.lastProcessed \in Int
        BY <1>5, <1>8 DEF SameBut, BookState, last
      <4>3. ASSUME NEW j \in DOMAIN mb PROVE mb[j].nr \in Int
        <5>1. mb[j] \in Message
          BY <1>5
        <5> QED
          BY <5>1 DEF Message
      <4> QED
        BY <1>3, <4>1, <4>2, <4>3 DEF IsAhead
    <3>4. mb \in Seq(Message)
      BY <1>5
    <3>5. NoGap(mb, ev2, u, M, f, last) /\ Reached(mb, M, f, o)
      BY <1>16
    <3> HIDE DEF m, mb, mb2, ev2
    <3>6. NoGap(mb2, ev2, u, M, f, last)
      <4>1. m.type = "save" =>
              /\ Reached(mb, M, f, m.nr) /\ last <= m.nr
              /\ \A j \in DOMAIN mb : mb[j].type = "event" => mb[j].nr <= m.nr
        BY <3>2, <3>3, <3>5
      <4>2. m.type # "event"
        BY <3>2
      <4>3. NoGap(mb, ev2, u, M, f, last) /\ Longer(mb, mb2, m)
        BY <3>2, <3>5
      <4> QED
        BY ONLY <3>4, <4>1, <4>2, <4>3, GapPosted
    <3> QED
      BY <3>6 DEF mb2, ev2
  <2>2. CASE ~Told(q, o)
    <3>1. book'[q] = s
      BY <1>2, <2>2 DEF Gets
    <3> QED
      BY <1>16, <3>1
  <2> QED
    BY <2>1, <2>2
<1>18. lastUnread' = u
  BY <1>1 DEF u
<1> QED
  BY <1>10, <1>11, <1>13, <1>17, <1>18, DeliveredNext

\* A book that recovers, takes a message or hears of its snapshot
LEMMA DeliveredBook ==
  ASSUME TypeOK, TypeOK', StoreInv, NumbersInv, PresenceInv, TurnInv, MailInv, NEW q \in Pair,
         BookRecovers(q) \/ BookHandles(q) \/ WriteSnapshot(q) \/ SnapshotFails(q), Delivered(q), Follows(q)'
  PROVE  Delivered(q)'
<1>0. /\ book[q] \in BookState /\ book'[q] \in BookState /\ snapshot[q].nr \in Int /\ PresenceOf(q) /\ TurnOf(q)
      /\ book[q].mailbox \in Seq(Message) /\ book[q].lastProcessed \in Int
  <2>1. book[q] \in BookState /\ book'[q] \in BookState /\ snapshot[q].nr \in Int
    BY NumbersTyped DEF TypeOK, BookTypes
  <2>2. TurnOf(q)
    BY DEF TurnInv, TurnOf
  <2> QED
    BY <2>1, <2>2, PresenceIs DEF BookState
<1>1. UNCHANGED <<log, lost, lastUnread, events>>
  BY DEF BookRecovers, BookHandles, WriteSnapshot, SnapshotFails, queueVars
<1> DEFINE M == Mine(q)
           f == Floor(q)
           last == book[q].lastProcessed
           mb == book[q].mailbox
<1>2. NoGap(mb, events, lastUnread, M, f, last)
  BY DeliveredIs
<1>3. Mine(q)' = M /\ M \subseteq Int
  BY <1>1, MineIs DEF Mine, PairOf
<1>4. f \in Int
  BY <1>0 DEF Floor
<1>5. CASE BookRecovers(q)
  <2>1. BookRecovered(q) /\ snapshot' = snapshot
    BY <1>5, BookRecoversIs DEF BookRecovers
  <2>2. book[q].state = "loading" /\ book'[q].state = "ready" /\ book'[q].mailbox = mb
        /\ book'[q].lastProcessed = snapshot[q].nr
    BY <2>1 DEF BookRecovered
  <2>3. Floor(q)' = f /\ f = snapshot[q].nr
    BY <2>1, <2>2 DEF Floor
  \* nothing has been asked of it yet
  <2>4. \A i \in DOMAIN mb : mb[i].type # "save"
    BY <1>0, <2>2 DEF TurnOf, Loading, Asked, OfType
  <2>5. NoGap(mb, events, lastUnread, M, f, snapshot[q].nr)
    <3> HIDE DEF M, f, last, mb
    <3> QED
      BY <1>2, <2>4 DEF NoGap, SavesIn
  <2> QED
    BY <1>1, <1>3, <2>2, <2>3, <2>5, DeliveredNext
<1>6. CASE BookHandles(q)
  <2>1. OneMessage(q) /\ (EventHandled(q) \/ SaveHandled(q) \/ SavedHandled(q) \/ FailureHandled(q)) /\ UNCHANGED snapshot
    BY <1>6, BookHandlesIs DEF BookHandles
  <2>2. /\ book[q].state = "ready" /\ book'[q].state = "ready" /\ mb # <<>>
        /\ Shorter(mb, book'[q].mailbox) /\ FirstOf(q) = mb[1] /\ FirstOf(q) \in Message
    BY <2>1 DEF OneMessage, FirstOf
  <2> DEFINE f2 == book'[q].lastProcessed
  <2>3. f = last /\ Floor(q)' = f2 /\ f2 \in Int
    BY <1>0, <2>2 DEF Floor, BookState
  <2>4. /\ f <= f2 /\ (mb[1].type = "event" => mb[1].nr <= f2)
        /\ f2 = last \/ (mb[1].type = "event" /\ f2 = mb[1].nr)
    <3>1. mb[1].nr \in Int
      BY <2>2 DEF Message
    <3>2. CASE EventHandled(q)
      BY <1>0, <2>2, <2>3, <3>1, <3>2 DEF EventHandled
    <3>3. CASE SaveHandled(q) \/ SavedHandled(q) \/ FailureHandled(q)
      BY <1>0, <2>2, <2>3, <3>3 DEF SaveHandled, SavedHandled, FailureHandled
    <3> QED
      BY <2>1, <3>2, <3>3
  <2>5. NoGap(book'[q].mailbox, events, lastUnread, M, f2, f2)
    <3> DEFINE mb2 == book'[q].mailbox
               ev == events
               u == lastUnread
    <3>1. mb \in Seq(Message) /\ mb # <<>> /\ M \subseteq Int /\ f \in Int /\ last \in Int /\ f2 \in Int
          /\ NoGap(mb, ev, u, M, f, last) /\ Shorter(mb, mb2)
      BY <1>0, <1>2, <1>3, <1>4, <2>2, <2>3
    <3> HIDE DEF M, f, last, mb, mb2, ev, u, f2
    <3>2. NoGap(mb2, ev, u, M, f2, f2)
      BY ONLY <3>1, <2>4, GapConsumed
    <3> QED
      BY <3>2 DEF mb2, ev, u
  <2> QED
    BY <1>1, <1>3, <2>3, <2>5, DeliveredNext
<1>7. CASE WriteSnapshot(q)
  <2>1. SnapshotWritten(q) /\ orderBooks' = orderBooks
    BY <1>7, WriteSnapshotIs DEF WriteSnapshot, actorVars
  <2> DEFINE m == [type |-> "saved", nr |-> writing[q][1].nr]
             mb2 == book'[q].mailbox
  <2>2. SameBut(book[q], book'[q]) /\ m.type = "saved" /\ writing[q] # <<>>
    BY <2>1 DEF SnapshotWritten
  <2>3. book[q].state # "off" /\ book[q].state # "loading"
    <3>1. orderBooks[q] # "none" /\ book[q].state # "loading"
      BY <1>0, <2>2 DEF PresenceOf
    <3>2. book'[q].state # "off"
      BY <2>1, <3>1 DEF Follows
    <3> QED
      BY <2>2, <3>1, <3>2 DEF SameBut
  <2>4. Longer(mb, mb2, m)
    BY <2>1, <2>3 DEF SnapshotWritten
  <2>5. book[q].state = "ready" /\ Floor(q)' = f /\ book'[q].lastProcessed = last
    <3>1. book[q].state \in {"off", "loading", "ready"}
      BY <1>0 DEF BookState
    <3> QED
      BY <2>2, <2>3, <3>1 DEF SameBut, Floor
  <2>6. NoGap(mb2, events, lastUnread, M, f, last)
    <3> DEFINE ev == events
               u == lastUnread
    <3>1. mb \in Seq(Message) /\ NoGap(mb, ev, u, M, f, last) /\ Longer(mb, mb2, m)
          /\ m.type # "event" /\ m.type # "save"
      BY <1>0, <1>2, <2>2, <2>4
    <3> HIDE DEF M, f, last, mb, mb2, ev, u, m
    <3>2. NoGap(mb2, ev, u, M, f, last)
      BY ONLY <3>1, GapPosted
    <3> QED
      BY <3>2 DEF ev, u
  <2> QED
    BY <1>1, <1>3, <2>5, <2>6, DeliveredNext
<1>8. CASE SnapshotFails(q)
  <2>1. SnapshotFailed(q) /\ orderBooks' = orderBooks
    BY <1>8, FailedIs DEF SnapshotFails, actorVars
  <2> DEFINE mb2 == book'[q].mailbox
  <2>2. PICK n \in Int : Posts(book[q], book'[q], FailureAt(n))
    BY <1>8, FailedIs
  <2> DEFINE m == FailureAt(n)
  <2>7. SameBut(book[q], book'[q]) /\ m.type = "failed" /\ writing[q] # <<>>
    BY <2>1 DEF SnapshotFailed, FailureAt
  <2>3. book[q].state # "off" /\ book[q].state # "loading"
    <3>1. orderBooks[q] # "none" /\ book[q].state # "loading"
      BY <1>0, <2>7 DEF PresenceOf
    <3>2. book'[q].state # "off"
      BY <2>1, <3>1 DEF Follows
    <3> QED
      BY <2>7, <3>1, <3>2 DEF SameBut
  <2>4. Longer(mb, mb2, m)
    BY <2>2, <2>3 DEF Posts
  <2>5. book[q].state = "ready" /\ Floor(q)' = f /\ book'[q].lastProcessed = last
    <3>1. book[q].state \in {"off", "loading", "ready"}
      BY <1>0 DEF BookState
    <3> QED
      BY <2>3, <2>7, <3>1 DEF SameBut, Floor
  <2>6. NoGap(mb2, events, lastUnread, M, f, last)
    <3> DEFINE ev == events
               u == lastUnread
    <3>1. mb \in Seq(Message) /\ NoGap(mb, ev, u, M, f, last) /\ Longer(mb, mb2, m)
          /\ m.type # "event" /\ m.type # "save"
      BY <1>0, <1>2, <2>4, <2>7
    <3> HIDE DEF M, f, last, mb, mb2, ev, u, m
    <3>2. NoGap(mb2, ev, u, M, f, last)
      BY ONLY <3>1, GapPosted
    <3> QED
      BY <3>2 DEF ev, u
  <2> QED
    BY <1>1, <1>3, <2>5, <2>6, DeliveredNext
<1> QED
  BY <1>5, <1>6, <1>7, <1>8

\* An event of its pair that a book has not applied is still on its way to it.
LEMMA DeliveredStep ==
  ASSUME TypeOK, TypeOK', StoreInv, MemoryInv, JournalInv, NumbersInv, CollectInv, PresenceInv, TurnInv,
         MailInv, LogInv, MatcherNext, NEW q \in Pair, Regular(q)', Follows(q)'
  PROVE  Delivered(q)'
<1>1. Regular(q) /\ LogOf(q) /\ PresenceOf(q)
  BY RegularStays, LogIs, PresenceIs
<1>2. Follows(q) => Delivered(q)
  BY <1>1 DEF LogOf
<1>3. CASE Crash \/ ForcedStop
  BY <1>3, DeliveredRestart
<1>4. CASE HandleEvent
  <2>1. Follows(q)
    <3>1. CASE orderBooks[q] = "none"
      BY <3>1 DEF Follows
    <3>2. CASE orderBooks[q] # "none"
      <4>1. orderBooks'[q] = orderBooks[q]
        BY <1>4, <3>2, HandledIs
      <4>2. book'[q].state # "off"
        BY <3>2, <4>1 DEF Follows
      <4>3. PICK s : Gets(q, events[1], s)
        BY <1>4, HandledIs
      <4>4. book'[q].state = book[q].state
        BY <3>2, <4>3 DEF Gets, Posts, SameBut, Before
      <4> QED
        BY <4>2, <4>4 DEF Follows
    <3> QED
      BY <3>1, <3>2
  <2>2. q \notin misnumbered'
    BY DEF Regular
  <2> QED
    BY <1>2, <1>4, <2>1, <2>2, DeliveredHandle
<1>5. ASSUME NEW p \in Pair, StoreEvent(p) PROVE Delivered(q)'
  <2>1. Follows(q)
    BY <1>5 DEF StoreEvent, Follows, actorVars, bookVars
  <2> QED
    BY <1>2, <1>5, <2>1, DeliveredStored
<1>6. CASE Poll
  <2>1. Follows(q)
    BY <1>6 DEF Poll, Follows, actorVars, bookVars
  <2> QED
    BY <1>2, <1>6, <2>1, DeliveredPoll
<1>7. CASE UNCHANGED <<log, lost, events, lastUnread, bookVars, orderBooks>>
  BY <1>2, <1>7, DeliveredSame DEF Follows, bookVars
<1>8. CASE AddToMemory \/ WriteJournal
  BY <1>7, <1>8 DEF AddToMemory, WriteJournal, queueVars, actorVars
<1>9. ASSUME NEW p \in Pair, HandleUpdated(p) PROVE Delivered(q)'
  BY <1>7, <1>9 DEF HandleUpdated, queueVars
<1>10. ASSUME NEW p \in Pair, HandleTerminated(p) PROVE Delivered(q)'
  <2>1. /\ UNCHANGED <<log, lost, events, lastUnread, bookVars>>
        /\ orderBooks' = [orderBooks EXCEPT ![p] = "failed"] /\ orderBooks \in [Pair -> {"none", "up", "failed"}]
    BY <1>10 DEF HandleTerminated, queueVars, TypeOK, ActorTypes
  <2>2. Follows(q)
    BY <2>1 DEF Follows, bookVars
  <2> QED
    BY <1>2, <2>1, <2>2, DeliveredSame DEF bookVars
<1>11. ASSUME NEW p \in Pair, Collect(p) PROVE Delivered(q)'
  <2>1. CollectedOne(p) /\ (GoesOnWaiting \/ StartsWorking)
    BY <1>11, CollectIs
  <2>2. CASE GoesOnWaiting
    BY <1>7, <2>1, <2>2 DEF CollectedOne, GoesOnWaiting
  <2>3. CASE StartsWorking
    BY <1>1, <2>1, <2>3, DeliveredStarts
  <2> QED
    BY <2>1, <2>2, <2>3
<1>12. ASSUME NEW p \in Pair, p # q,
              BookRecovers(p) \/ BookHandles(p) \/ WriteSnapshot(p) \/ SnapshotFails(p) \/ BookFails(p)
       PROVE  Delivered(q)'
  <2>1. OneBook(p) /\ snapshot'[q] = snapshot[q] /\ UNCHANGED <<orderBooks, log, lost, events, lastUnread>>
    <3>1. CASE BookRecovers(p)
      BY <1>12, <3>1, BookRecoversIs DEF BookRecovers, BookRecovered, actorVars, queueVars
    <3>2. CASE BookHandles(p)
      BY <1>12, <3>2, BookHandlesIs DEF BookHandles, OneMessage, actorVars, queueVars
    <3>3. CASE WriteSnapshot(p)
      BY <1>12, <3>3, WriteSnapshotIs DEF WriteSnapshot, SnapshotWritten, actorVars, queueVars, TypeOK, BookTypes
    <3>4. CASE BookFails(p)
      BY <1>12, <3>4, BookFailsIs DEF BookFails, actorVars, queueVars
    <3>5. CASE SnapshotFails(p)
      BY <1>12, <3>5, SnapshotFailsIs DEF SnapshotFailed, actorVars
    <3> QED
      BY <1>12, <3>1, <3>2, <3>3, <3>4, <3>5
  <2>2. book'[q] = book[q] /\ Follows(q)
    BY <1>12, <2>1 DEF OneBook, Follows
  <2> QED
    BY <1>2, <2>1, <2>2, DeliveredSame
<1>13. ASSUME BookRecovers(q) \/ BookHandles(q) \/ WriteSnapshot(q) \/ SnapshotFails(q) PROVE Delivered(q)'
  <2>1. Follows(q)
    <3>1. orderBooks' = orderBooks /\ (book[q].state = "off" => book'[q].state = "off")
      BY <1>13, WriteSnapshotIs, SnapshotFailsIs
         DEF BookRecovers, BookHandles, WriteSnapshot, SnapshotFails, actorVars, SnapshotWritten, SnapshotFailed
    <3> QED
      BY <3>1 DEF Follows
  <2> QED
    BY <1>2, <1>13, <2>1, DeliveredBook
<1>14. ASSUME BookFails(q) PROVE FALSE
  <2>1. book'[q].state = "off" /\ orderBooks' = orderBooks /\ book[q].state # "off"
    BY <1>14, BookFailsIs, StartingIs DEF BookFails, actorVars
  <2>2. orderBooks[q] = "up"
    BY <1>1, <2>1 DEF PresenceOf
  <2> QED
    BY <2>1, <2>2 DEF Follows
<1> QED
  BY <1>3, <1>4, <1>5, <1>6, <1>8, <1>9, <1>10, <1>11, <1>12, <1>13, <1>14 DEF MatcherNext, MatcherStep

----------------------------------------------------------------------------
(* What a book and its snapshots contain *)

\* s contains the events of the pair up to n, and n has been stored.
Includes(s, q, n) == n \in Int /\ n < Len(log) /\ Lists(s, EventsUpTo(q, n))

\* EventsUpTo in the next state
UpToNext(q, n) == {o \in 0 .. Len(log') - 1 : o <= n /\ log'[o + 1] = q /\ o \notin lost'}

\* Applied in the next state, in a form without nested primes
LEMMA AppliedIs ==
  ASSUME NEW q, Lists(book'[q].applied, UpToNext(q, book'[q].lastProcessed)),
         Lists(snapshot'[q].applied, UpToNext(q, snapshot'[q].nr)),
         \A i \in DOMAIN writing'[q] : Lists(writing'[q][i].applied, UpToNext(q, writing'[q][i].nr))
  PROVE  Applied(q)'
BY DEF Applied, EventsUpTo, UpToNext, PairOf, Lists

\* As long as nothing is deleted, the events up to a stored offset stay the same.
LEMMA EventsKept ==
  ASSUME TypeOK, MatcherNext, NothingDeleted, NEW q, NEW n \in Int, n < Len(log)
  PROVE  UpToNext(q, n) = EventsUpTo(q, n)
<1>1. /\ Len(log) \in Nat /\ Len(log') \in Nat /\ Len(log) <= Len(log')
      /\ \A o \in 0 .. Len(log) - 1 : log'[o + 1] = log[o + 1]
  BY LogGrows DEF PairOf
<1>2. lost' = lost
  BY DEF NothingDeleted
<1> QED
  BY <1>1, <1>2 DEF UpToNext, EventsUpTo, PairOf

\* As long as nothing is deleted
LEMMA AppliedKept ==
  ASSUME TypeOK, MatcherNext, NothingDeleted, NEW q,
         Includes(book'[q].applied, q, book'[q].lastProcessed),
         Includes(snapshot'[q].applied, q, snapshot'[q].nr),
         \A i \in DOMAIN writing'[q] : Includes(writing'[q][i].applied, q, writing'[q][i].nr)
  PROVE  Applied(q)'
<1>1. ASSUME NEW s, NEW n, Includes(s, q, n) PROVE Lists(s, UpToNext(q, n))
  BY <1>1, EventsKept DEF Includes
<1> QED
  BY <1>1, AppliedIs

\* What the books, the snapshots on the disk and those on their way contain
LEMMA ContainsWhat ==
  ASSUME TypeOK, NumbersInv, MailInv, NEW q \in Pair, Applied(q)
  PROVE  /\ Includes(book[q].applied, q, book[q].lastProcessed)
         /\ Includes(snapshot[q].applied, q, snapshot[q].nr)
         /\ \A i \in DOMAIN writing[q] : Includes(writing[q][i].applied, q, writing[q][i].nr)
<1>1. /\ book[q] \in BookState /\ snapshot[q].nr \in Int
      /\ \A i \in DOMAIN writing[q] : writing[q][i].nr \in Int
  BY NumbersTyped
<1>2. book[q].lastProcessed \in Int
  BY <1>1 DEF BookState
<1>3. Bound(q) /\ NumbersOf(q)
  BY MailIs, NumbersIs DEF MailOf
<1> QED
  BY <1>1, <1>2, <1>3 DEF Includes, Applied, Bound, NumbersOf, Covered

\* A book that starts contains nothing, which is all up to -1.
LEMMA ContainsNothing ==
  ASSUME TypeOK, NEW q
  PROVE  Includes(<<>>, q, -1)
<1>1. Len(log) \in Nat
  BY DEF TypeOK, QueueTypes
<1>2. EventsUpTo(q, -1) = {}
  BY <1>1 DEF EventsUpTo
<1>3. DOMAIN <<>> = {} /\ ToSet(<<>>) = {}
  BY DEF ToSet
<1>4. Lists(<<>>, {})
  BY <1>3 DEF Lists
<1>5. -1 \in Int /\ -1 < Len(log)
  BY <1>1
<1>6. Lists(<<>>, EventsUpTo(q, -1))
  BY <1>2, <1>4
<1> QED
  BY <1>5, <1>6 DEF Includes

\* One event more
LEMMA ListsAppend ==
  ASSUME NEW s \in Seq(Int), NEW S, Lists(s, S), NEW n \in Int, \A o \in S : o < n, NEW t, Longer(s, t, n)
  PROVE  Lists(t, S \cup {n})
<1>1. /\ Len(s) \in Nat /\ DOMAIN s = 1 .. Len(s) /\ DOMAIN t = 1 .. Len(s) + 1
      /\ t[Len(s) + 1] = n /\ \A i \in 1 .. Len(s) : t[i] = s[i]
  BY DEF Longer
<1>2. \A i \in 1 .. Len(s) : s[i] \in S
  BY <1>1 DEF Lists, ToSet
<1>3. ToSet(t) = S \cup {n}
  <2>1. \A o \in S : \E i \in 1 .. Len(s) : s[i] = o
    BY <1>1 DEF Lists, ToSet
  <2>2. ASSUME NEW o \in S \cup {n} PROVE \E i \in DOMAIN t : t[i] = o
    BY <1>1, <2>1
  <2>3. ASSUME NEW i \in DOMAIN t PROVE t[i] \in S \cup {n}
    BY <1>1, <1>2
  <2> QED
    BY <2>2, <2>3 DEF ToSet
<1>4. ASSUME NEW i \in DOMAIN t, NEW j \in DOMAIN t, i < j PROVE t[i] < t[j]
  <2>1. i \in 1 .. Len(s)
    BY <1>1, <1>4
  <2>2. CASE j = Len(s) + 1
    BY <1>1, <1>2, <2>1, <2>2
  <2>3. CASE j \in 1 .. Len(s)
    BY <1>1, <1>4, <2>1, <2>3 DEF Lists
  <2> QED
    BY <1>1, <2>2, <2>3
<1> QED
  BY <1>3, <1>4 DEF Lists

\* What the first event in the mail adds to the book, and what a snapshot has to contain
LEMMA EventsNext ==
  ASSUME TypeOK, StoreInv, NumbersInv, MailInv, NEW q \in Pair, Applied(q), Delivered(q),
         book[q].state = "ready", book[q].mailbox # <<>>, 1 \in DOMAIN book[q].mailbox
  PROVE  /\ FirstOf(q).type = "event" /\ FirstOf(q).nr > book[q].lastProcessed =>
              /\ FirstOf(q).nr < Len(log)
              /\ EventsUpTo(q, FirstOf(q).nr) = EventsUpTo(q, book[q].lastProcessed) \cup {FirstOf(q).nr}
              /\ \A o \in EventsUpTo(q, book[q].lastProcessed) : o < FirstOf(q).nr
         /\ FirstOf(q).type = "save" =>
              Includes(book[q].applied, q, FirstOf(q).nr)
<1> DEFINE n == FirstOf(q).nr
           last == book[q].lastProcessed
<1>1. /\ n \in Int /\ last \in Int /\ Len(log) \in Nat /\ book[q] \in BookState
  <2>1. n \in Int /\ book[q] \in BookState
    BY NumbersTyped DEF FirstOf
  <2> QED
    BY <2>1 DEF BookState, TypeOK, QueueTypes
<1>2. Floor(q) = last /\ 1 - 1 = 0 /\ ~ \E j \in 1 .. 0 : TRUE
  BY DEF Floor
<1>3. \A o : ~MailAmong(o, q, 1 - 1)
  BY <1>2 DEF MailAmong
<1>4. /\ FirstOf(q).type = "event" => \A o \in Mine(q) : o < n => o <= last
      /\ FirstOf(q).type = "save" => last <= n /\ \A o \in Mine(q) : o <= n => o <= last
  <2>1. FirstOf(q).type = "event" => 1 \in OfType(q, "event")
    BY DEF FirstOf, OfType
  <2>2. FirstOf(q).type = "save" => 1 \in OfType(q, "save")
    BY DEF FirstOf, OfType
  <2>3. 1 \in OfType(q, "event") => \A o \in Mine(q) : o < n => o <= last
    BY <1>2, <1>3 DEF Delivered, FirstOf
  <2>4. 1 \in OfType(q, "save") => last <= n /\ \A o \in Mine(q) : o <= n => o <= last
    BY <1>2, <1>3 DEF Delivered, FirstOf
  <2> QED
    BY <2>1, <2>2, <2>3, <2>4
<1>5. \A m : EventsUpTo(q, m) = {o \in Mine(q) : o <= m}
  BY DEF EventsUpTo, Mine
<1>6. Mine(q) \subseteq Int
  BY MineIs
<1>7. ASSUME FirstOf(q).type = "event" PROVE n \in Mine(q) /\ n < Len(log)
  <2>1. Sendable(n, q)
    BY <1>7, MailIs DEF MailOf, FirstOf
  <2>2. n \in stored /\ PairOf(n) = q /\ n \in 0 .. Len(log) - 1 /\ n \notin lost
    BY <2>1 DEF Sendable, StoreInv
  <2> QED
    BY <1>1, <2>2 DEF Mine
<1>8. FirstOf(q).type = "event" /\ n > last =>
        /\ n < Len(log) /\ EventsUpTo(q, n) = EventsUpTo(q, last) \cup {n}
        /\ \A o \in EventsUpTo(q, last) : o < n
  BY <1>1, <1>4, <1>5, <1>6, <1>7
<1>9. ASSUME FirstOf(q).type = "save" PROVE Includes(book[q].applied, q, n)
  <2>1. EventsUpTo(q, n) = EventsUpTo(q, last)
    BY <1>1, <1>4, <1>5, <1>6, <1>9
  <2>2. n < Len(log)
    BY <1>9, NumbersIs DEF NumbersOf, Covered, FirstOf
  <2> QED
    BY <1>1, <2>1, <2>2 DEF Applied, Includes
<1> QED
  BY <1>8, <1>9

\* The book applies an event or makes a snapshot of itself.
LEMMA AppliedMessage ==
  ASSUME TypeOK, TypeOK', StoreInv, NumbersInv, MailInv, MatcherNext, NothingDeleted, NEW q \in Pair,
         Applied(q), Delivered(q), BookHandles(q)
  PROVE  Applied(q)'
<1>1. OneMessage(q) /\ (EventHandled(q) \/ SaveHandled(q) \/ SavedHandled(q) \/ FailureHandled(q)) /\ UNCHANGED snapshot
  BY BookHandlesIs DEF BookHandles
<1>2. /\ Includes(book[q].applied, q, book[q].lastProcessed)
      /\ Includes(snapshot'[q].applied, q, snapshot'[q].nr)
      /\ \A i \in DOMAIN writing[q] : Includes(writing[q][i].applied, q, writing[q][i].nr)
  BY <1>1, ContainsWhat
<1>3. book[q].applied \in Seq(Int) /\ FirstOf(q).nr \in Int /\ book[q].lastProcessed \in Int
  <2>1. book[q] \in BookState
    BY NumbersTyped
  <2> QED
    BY <1>1, <2>1 DEF BookState, OneMessage, Message
<1> DEFINE last == book[q].lastProcessed
           n == FirstOf(q).nr
<1>4. /\ FirstOf(q).type = "event" /\ n > last =>
           /\ n < Len(log)
           /\ EventsUpTo(q, n) = EventsUpTo(q, last) \cup {n}
           /\ \A o \in EventsUpTo(q, last) : o < n
      /\ FirstOf(q).type = "save" => Includes(book[q].applied, q, n)
  BY <1>1, EventsNext DEF OneMessage
<1>5. CASE book'[q].applied = book[q].applied /\ book'[q].lastProcessed = last /\ writing' = writing
  BY <1>2, <1>5, AppliedKept
<1>6. CASE EventHandled(q)
  <2>1. CASE n <= last
    BY <1>3, <1>5, <1>6, <2>1 DEF EventHandled
  <2>2. CASE n > last
    <3>1. book'[q].lastProcessed = n /\ book'[q].applied = Append(book[q].applied, n) /\ writing' = writing
      BY <1>3, <1>6, <2>2 DEF EventHandled
    <3>2. FirstOf(q).type = "event"
      BY <1>6 DEF EventHandled
    <3> DEFINE S == EventsUpTo(q, last)
               a == book[q].applied
               t == Append(a, n)
    <3>3. a \in Seq(Int) /\ Lists(a, S) /\ n \in Int /\ \A o \in S : o < n
      BY <1>2, <1>3, <1>4, <2>2, <3>2 DEF Includes
    <3>4. Longer(a, t, n)
      BY <1>3, AppendIs
    <3> HIDE DEF S, a, t, n
    <3>5. Lists(t, S \cup {n})
      BY ONLY <3>3, <3>4, ListsAppend
    <3>6. Includes(t, q, n)
      <4>1. n < Len(log) /\ EventsUpTo(q, n) = S \cup {n}
        BY <1>4, <2>2, <3>2 DEF S
      <4> QED
        BY <3>3, <3>5, <4>1 DEF Includes
    <3>7. Includes(book'[q].applied, q, book'[q].lastProcessed)
      BY <3>1, <3>6 DEF t, a, n
    <3> QED
      BY <1>2, <3>1, <3>7, AppliedKept
  <2> QED
    BY <1>3, <2>1, <2>2
<1>7. CASE SaveHandled(q)
  <2>1. book'[q].applied = book[q].applied /\ book'[q].lastProcessed = last /\ FirstOf(q).type = "save"
    BY <1>7 DEF SaveHandled
  <2>2. CASE writing' = writing
    BY <1>5, <2>1, <2>2
  <2>3. CASE Longer(writing[q], writing'[q], [nr |-> n, applied |-> book[q].applied])
    <3>1. Len(writing[q]) \in Nat /\ DOMAIN writing[q] = 1 .. Len(writing[q])
      BY NumbersTyped
    <3> DEFINE w == [nr |-> n, applied |-> book[q].applied]
    <3>2. w.nr = n /\ w.applied = book[q].applied
      OBVIOUS
    <3> HIDE DEF w, n
    <3>3. /\ DOMAIN writing'[q] = 1 .. Len(writing[q]) + 1 /\ writing'[q][Len(writing[q]) + 1] = w
          /\ \A i \in 1 .. Len(writing[q]) : writing'[q][i] = writing[q][i]
      BY <2>3 DEF Longer, w
    <3>4. ASSUME NEW i \in DOMAIN writing'[q]
          PROVE  Includes(writing'[q][i].applied, q, writing'[q][i].nr)
      <4>1. CASE i = Len(writing[q]) + 1
        BY <1>4, <2>1, <3>2, <3>3, <4>1
      <4>2. CASE i \in 1 .. Len(writing[q])
        BY <1>2, <3>1, <3>3, <4>2
      <4> QED
        BY <3>1, <3>3, <4>1, <4>2
    <3> QED
      BY <1>2, <2>1, <3>4, AppliedKept
  <2> QED
    BY <1>7, <2>2, <2>3 DEF SaveHandled
<1>8. CASE SavedHandled(q) \/ FailureHandled(q)
  BY <1>5, <1>8 DEF SavedHandled, FailureHandled
<1> QED
  BY <1>1, <1>6, <1>7, <1>8

\* What is deleted when the queue is consumed is in no book and in no snapshot, or is no loss.
LEMMA AppliedStarts ==
  ASSUME TypeOK, StoreInv, MemoryInv, NumbersInv, CollectInv, PresenceInv, MailInv,
         NEW p \in Pair, CollectedOne(p), StartsWorking, NEW q \in Pair, Applied(q)
  PROVE  Applied(q)'
<1>1. status = "collecting" /\ UNCHANGED <<log, book, snapshot, writing>>
  BY DEF CollectedOne, bookVars
<1>2. PICK n : StartsAt(n)
  BY StartsAtIs
<1>3. lost' = lost \cup {u \in stored \ stored' : u > snapshot[PairOf(u)].nr} /\ Len(log) \in Nat
  BY <1>2 DEF StartsAt, TypeOK, QueueTypes
<1>4. snapshot[q].nr \in Int /\ snapshot[q].nr >= -1 /\ book[q] \in BookState
  BY NumbersTyped, NumbersIs DEF NumbersOf, Covered
<1>5. ASSUME NEW m \in Int, m <= snapshot[q].nr PROVE UpToNext(q, m) = EventsUpTo(q, m)
  <2>1. ASSUME NEW o \in 0 .. Len(log) - 1, o <= m, log[o + 1] = q PROVE o \in lost' <=> o \in lost
    BY <1>3, <1>4, <1>5, <2>1 DEF PairOf
  <2> QED
    BY <1>1, <2>1 DEF UpToNext, EventsUpTo, PairOf
<1>6. book[q].lastProcessed \in Int /\ book[q].lastProcessed <= snapshot[q].nr
  <2>1. PresenceOf(q) /\ MailOf(q) /\ book[q].state \in {"off", "loading", "ready"}
    BY <1>4, PresenceIs, MailIs DEF BookState
  <2>2. CASE book[q].state = "ready"
    BY <1>1, <1>4, <2>1, <2>2 DEF MailOf
  <2>3. CASE book[q].state = "off"
    BY <1>4, <2>1, <2>3, StartingIs DEF PresenceOf
  <2>4. CASE book[q].state = "loading"
    <3> DEFINE k == book[q].mailbox
    <3> HIDE DEF k
    <3>1. book[q] = [StartingBook EXCEPT !.mailbox = k]
      BY <2>1, <2>4 DEF PresenceOf, k
    <3>2. [StartingBook EXCEPT !.mailbox = k].lastProcessed = StartingBook.lastProcessed
      BY StartingIs DEF BookState
    <3> QED
      BY <1>4, <3>1, <3>2, StartingIs
  <2> QED
    BY <2>1, <2>2, <2>3, <2>4
<1>7. writing[q] = <<>>
  BY <1>1 DEF CollectInv, CollectsFrom, Waiting
<1>8. Lists(book'[q].applied, UpToNext(q, book'[q].lastProcessed))
  BY <1>1, <1>5, <1>6 DEF Applied
<1>9. Lists(snapshot'[q].applied, UpToNext(q, snapshot'[q].nr))
  BY <1>1, <1>4, <1>5 DEF Applied
<1>10. DOMAIN writing'[q] = {}
  BY <1>1, <1>7
<1> QED
  BY <1>8, <1>9, <1>10, AppliedIs

\* A book contains its events up to the last it has processed, a snapshot those up to its number.
LEMMA AppliedStep ==
  ASSUME TypeOK, TypeOK', StoreInv, MemoryInv, NumbersInv, CollectInv, PresenceInv,
         MailInv, LogInv, MatcherNext, NEW q \in Pair, Regular(q)'
  PROVE  Applied(q)'
<1>1. Regular(q) /\ LogOf(q) /\ PresenceOf(q) /\ book[q] \in BookState /\ book'[q] \in BookState
  BY RegularStays, LogIs, PresenceIs, NumbersTyped DEF TypeOK, BookTypes
<1>2. Applied(q) /\ (Follows(q) => Delivered(q))
  BY <1>1 DEF LogOf
<1>3. ASSUME NEW p \in Pair, Collect(p), StartsWorking PROVE Applied(q)'
  <2>1. CollectedOne(p)
    BY <1>3, CollectIs
  <2> QED
    BY <1>2, <1>3, <2>1, AppliedStarts
<1> SUFFICES ASSUME \A p \in Pair : ~(Collect(p) /\ StartsWorking) PROVE Applied(q)'
  BY <1>3
<1>4. NothingDeleted
  BY OnlyAtStart
<1>5. /\ Includes(book[q].applied, q, book[q].lastProcessed)
      /\ Includes(snapshot[q].applied, q, snapshot[q].nr)
      /\ \A i \in DOMAIN writing[q] : Includes(writing[q][i].applied, q, writing[q][i].nr)
  BY <1>2, ContainsWhat
<1>6. Includes(<<>>, q, -1)
  BY ContainsNothing
<1>7. NoBook.applied = <<>> /\ NoBook.lastProcessed = -1
      /\ StartingBook.applied = <<>> /\ StartingBook.lastProcessed = -1
  BY StartingIs DEF StartingBook
<1>8. CASE book'[q] = book[q] /\ snapshot'[q] = snapshot[q] /\ writing'[q] = writing[q]
  BY <1>4, <1>5, <1>8, AppliedKept
<1>9. CASE Crash \/ ForcedStop
  <2>1. snapshot' = snapshot /\ writing'[q] = <<>> /\ (book'[q] = StartingBook \/ book'[q] = NoBook)
    BY <1>9, RestartIs DEF Started
  <2> QED
    BY <1>4, <1>5, <1>6, <1>7, <2>1, AppliedKept
<1>10. CASE HandleEvent
  <2>1. writing' = writing /\ snapshot' = snapshot
    BY <1>10 DEF HandleEvent
  <2>2. PICK s : Gets(q, events[1], s)
    BY <1>10, HandledIs
  <2> DEFINE r == Before(q, events[1])
  <2>3. book'[q].applied = r.applied /\ book'[q].lastProcessed = r.lastProcessed
    BY <2>2 DEF Gets, Posts, SameBut, Before
  <2>4. Includes(r.applied, q, r.lastProcessed)
    BY <1>5, <1>6, <1>7 DEF Before
  <2> HIDE DEF r
  <2> QED
    BY <1>4, <1>5, <2>1, <2>3, <2>4, AppliedKept
<1>11. CASE BookRecovers(q)
  <2>1. BookRecovered(q) /\ snapshot' = snapshot /\ writing' = writing
    BY <1>11, BookRecoversIs DEF BookRecovers
  <2>2. book'[q].applied = snapshot[q].applied /\ book'[q].lastProcessed = snapshot[q].nr
    BY <2>1 DEF BookRecovered
  <2> QED
    BY <1>4, <1>5, <2>1, <2>2, AppliedKept
<1>12. CASE BookHandles(q)
  <2>1. book[q].state # "off"
    BY <1>12 DEF BookHandles
  <2>2. Delivered(q)
    BY <1>2, <2>1 DEF Follows
  <2> QED
    BY <1>2, <1>4, <1>12, <2>2, AppliedMessage
<1>13. CASE WriteSnapshot(q)
  <2>1. SnapshotWritten(q)
    BY <1>13, WriteSnapshotIs
  <2>2. book'[q].applied = book[q].applied /\ book'[q].lastProcessed = book[q].lastProcessed
    BY <2>1 DEF SnapshotWritten, SameBut
  <2>3. snapshot'[q] = writing[q][1] /\ 1 \in DOMAIN writing[q]
    BY <2>1 DEF SnapshotWritten, TypeOK, BookTypes
  <2>4. ASSUME NEW i \in DOMAIN writing'[q] PROVE \E j \in DOMAIN writing[q] : writing'[q][i] = writing[q][j]
    <3>1. Len(writing[q]) \in Nat /\ DOMAIN writing[q] = 1 .. Len(writing[q])
      BY NumbersTyped
    <3>2. i \in 1 .. Len(writing[q]) - 1 /\ writing'[q][i] = writing[q][i + 1]
      BY <2>1, <2>4 DEF SnapshotWritten, Shorter
    <3>3. i + 1 \in DOMAIN writing[q]
      BY <3>1, <3>2
    <3> QED
      BY <3>2, <3>3
  <2> QED
    BY <1>4, <1>5, <2>2, <2>3, <2>4, AppliedKept
<1>18. CASE SnapshotFails(q)
  <2>1. SnapshotFailed(q) /\ writing'[q] = <<>>
    BY <1>18, FailedIs
  <2>2. book'[q].applied = book[q].applied /\ book'[q].lastProcessed = book[q].lastProcessed /\ snapshot' = snapshot
    BY <2>1 DEF SnapshotFailed, SameBut
  <2> QED
    BY <1>4, <1>5, <2>1, <2>2, AppliedKept
<1>14. CASE BookFails(q)
  <2>1. book'[q] = NoBook /\ writing' = writing /\ snapshot' = snapshot
    BY <1>14, BookFailsIs DEF BookFails
  <2> QED
    BY <1>4, <1>5, <1>6, <1>7, <2>1, AppliedKept
<1>15. CASE AddToMemory \/ Poll \/ WriteJournal
  BY <1>8, <1>15 DEF AddToMemory, Poll, WriteJournal, bookVars
<1>16. ASSUME NEW p \in Pair, StoreEvent(p) \/ HandleUpdated(p) \/ HandleTerminated(p) \/ Collect(p)
       PROVE  Applied(q)'
  BY <1>8, <1>16 DEF StoreEvent, HandleUpdated, HandleTerminated, Collect, bookVars
<1>17. ASSUME NEW p \in Pair, p # q,
              BookRecovers(p) \/ BookHandles(p) \/ WriteSnapshot(p) \/ SnapshotFails(p) \/ BookFails(p)
       PROVE  Applied(q)'
  <2>1. CASE BookRecovers(p)
    BY <1>8, <1>17, <2>1, BookRecoversIs DEF BookRecovers, BookRecovered, OneBook
  <2>2. CASE BookHandles(p)
    BY <1>8, <1>17, <2>2, BookHandlesIs DEF BookHandles, OneMessage, OneBook, EventHandled, SaveHandled, SavedHandled,
                                            FailureHandled
  <2>3. CASE WriteSnapshot(p)
    BY <1>8, <1>17, <2>3, WriteSnapshotIs DEF SnapshotWritten, OneBook, TypeOK, BookTypes
  <2>4. CASE BookFails(p)
    BY <1>8, <1>17, <2>4, BookFailsIs DEF BookFails, OneBook
  <2>5. CASE SnapshotFails(p)
    BY <1>8, <1>17, <2>5, SnapshotFailsIs DEF SnapshotFailed, OneBook
  <2> QED
    BY <1>17, <2>1, <2>2, <2>3, <2>4, <2>5
<1> QED
  BY <1>9, <1>10, <1>11, <1>12, <1>13, <1>14, <1>15, <1>16, <1>17, <1>18 DEF MatcherNext, MatcherStep

\* LogInv is preserved.
LEMMA LogStep ==
  ASSUME TypeOK, TypeOK', StoreInv, MemoryInv, JournalInv, NumbersInv, CollectInv, PresenceInv, TurnInv,
         MailInv, LogInv, MatcherNext
  PROVE  LogInv'
BY AppliedStep, DeliveredStep DEF LogInv, LogOf

----------------------------------------------------------------------------
(* The invariant and the theorems *)

\* The invariant holds at first.
LEMMA InvInit == MatcherInit => MatcherInv
<1> SUFFICES ASSUME MatcherInit PROVE MatcherInv
  OBVIOUS
<1>1. TypeOK
  BY TypeInit
<1>2. /\ log = <<>> /\ stored = {} /\ adding = None /\ lost = {} /\ inMemQueue = <<>> /\ events = <<>>
      /\ startInMem = None /\ seenStart = None /\ lastUnread = 0 /\ status = "working"
      /\ toJournal = <<>> /\ journal = {} /\ orphans = {} /\ nearest = {}
      /\ \A p \in Pair : /\ orderBooks[p] = "none" /\ updates[p] = <<>> /\ book[p] = NoBook
                         /\ writing[p] = <<>> /\ snapshot[p] = EmptySnapshot /\ collected[p] = None
  BY DEF MatcherInit
<1>3. Len(log) = 0 /\ DOMAIN inMemQueue = {} /\ DOMAIN events = {} /\ Len(inMemQueue) = 0 /\ Len(events) = 0
      /\ DOMAIN toJournal = {}
  BY <1>2
<1>4. /\ NoBook.state = "off" /\ DOMAIN NoBook.mailbox = {} /\ NoBook.lastProcessed = -1
      /\ NoBook.applied = <<>> /\ EmptySnapshot.nr = -1 /\ EmptySnapshot.applied = <<>>
  BY StartingIs DEF EmptySnapshot
<1>5. ToSet(inMemQueue) = {} /\ ToSet(events) = {} /\ ToSet(toJournal) = {}
  BY <1>3 DEF ToSet
<1>6. MemoryInv
  BY <1>2, <1>3 DEF MemoryInv, None
<1>7. OrderInv
  BY <1>2, <1>3 DEF OrderInv
<1>8. StoreInv
  BY <1>2, <1>3, <1>5 DEF StoreInv
<1>9. \A p \in Pair : /\ DOMAIN updates[p] = {} /\ DOMAIN writing[p] = {} /\ DOMAIN book[p].mailbox = {}
                      /\ Len(writing[p]) = 0
  BY <1>2, <1>4
<1>10. JournalInv
  BY <1>2, <1>5 DEF JournalInv, Remembered
<1>11. NumbersInv
  <2>1. Covered(-1)
    BY <1>3 DEF Covered
  <2> QED
    BY <1>2, <1>4, <1>9, <2>1 DEF NumbersInv, NumbersOf
<1>12. CollectInv
  BY <1>2 DEF CollectInv, CollectsFrom, Waiting
<1>13. PresenceInv
  <2> SUFFICES ASSUME NEW p \in Pair PROVE PresenceOf(p)
    BY PresenceIs
  <2>1. Due(p) = {}
    BY <1>2 DEF Due
  <2> QED
    BY <1>2, <1>4, <1>9, <2>1 DEF PresenceOf
<1>14. TurnInv /\ ProgressInv
  BY <1>2, <1>4 DEF TurnInv, TurnOf, ProgressInv, ProgressOf, NumbersFit
<1>15. MailInv
  <2> SUFFICES ASSUME NEW p \in Pair PROVE MailOf(p)
    BY MailIs
  <2> QED
    BY <1>2, <1>3, <1>4, <1>9 DEF MailOf, Bound
<1>16. LogInv
  <2> SUFFICES ASSUME NEW p \in Pair PROVE Applied(p) /\ Delivered(p)
    BY DEF LogInv, LogOf
  <2>1. \A n : EventsUpTo(p, n) = {}
    BY <1>3 DEF EventsUpTo
  <2>2. Lists(<<>>, {})
    BY DEF Lists, ToSet
  <2>3. Applied(p)
    BY <1>2, <1>4, <1>9, <2>1, <2>2 DEF Applied
  <2>4. Mine(p) = {} /\ OfType(p, "event") = {} /\ OfType(p, "save") = {}
    BY <1>3, <1>9 DEF Mine, OfType
  <2>5. Delivered(p)
    BY <1>3, <2>4 DEF Delivered
  <2> QED
    BY <2>3, <2>5
<1>17. FailureInv
  BY <1>2, <1>4 DEF FailureInv, FailureOf
<1> QED
  BY <1>1, <1>6, <1>7, <1>8, <1>10, <1>11, <1>12, <1>13, <1>14, <1>15, <1>16, <1>17 DEF MatcherInv

\* Every step preserves the invariant.
LEMMA InvStep == MatcherInv /\ [MatcherNext]_matcherVars => MatcherInv'
<1> SUFFICES ASSUME MatcherInv, [MatcherNext]_matcherVars PROVE MatcherInv'
  OBVIOUS
<1>1. CASE MatcherNext
  <2>1. /\ TypeOK /\ MemoryInv /\ OrderInv /\ StoreInv /\ JournalInv /\ NumbersInv /\ CollectInv /\ PresenceInv
        /\ FailureInv /\ TurnInv /\ ProgressInv /\ MailInv /\ LogInv
    BY DEF MatcherInv
  <2>2. TypeOK'
    BY <1>1, <2>1, TypeStep
  <2>3. MemoryInv' /\ OrderInv' /\ StoreInv'
    BY <1>1, <2>1, MemoryStep, OrderStep, StoreStep
  <2>4. JournalInv' /\ NumbersInv' /\ CollectInv' /\ PresenceInv' /\ FailureInv'
    BY <1>1, <2>1, JournalStep, NumbersStep, CollectStep, PresenceStep, FailureStep
  <2>5. TurnInv' /\ ProgressInv'
    BY <1>1, <2>1, <2>2, RoundStep
  <2>6. MailInv' /\ LogInv'
    BY <1>1, <2>1, <2>2, MailStep, LogStep
  <2> QED
    BY <2>2, <2>3, <2>4, <2>5, <2>6 DEF MatcherInv
<1>2. CASE UNCHANGED matcherVars
  <2> USE <1>2 DEF matcherVars, queueVars, actorVars, bookVars, journalVars
  <2>1. TypeOK'
    BY DEF MatcherInv, TypeOK, QueueTypes, ActorTypes, BookTypes
  <2>2. MemoryInv'
    BY DEF MatcherInv, MemoryInv, End, MemStart
  <2>3. OrderInv' /\ StoreInv'
    BY DEF MatcherInv, OrderInv, StoreInv, Known, Remembered, Among, PairOf
  <2>4. JournalInv' /\ NumbersInv'
    BY DEF MatcherInv, JournalInv, NumbersInv, NumbersOf, Covered, Known, Remembered, PairOf
  <2>5. CollectInv'
    BY DEF MatcherInv, CollectInv, CollectsFrom, Waiting, End, MemStart
  <2>6. PresenceInv'
    <3>1. PresenceInv
      BY DEF MatcherInv
    <3>2. ASSUME NEW p \in Pair
          PROVE  PresenceOf(p)'
      <4>1. PresenceOf(p)
        BY <3>1 DEF PresenceInv
      <4>2. Due(p)' = Due(p) /\ Ends(p)' = Ends(p) /\ \A t : OfType(p, t)' = OfType(p, t)
        BY DEF Due, Ends, OfType
      <4> QED
        BY <4>1, <4>2 DEF PresenceOf
    <3> QED
      BY <3>2 DEF PresenceInv
  <2>10. FailureInv'
    BY DEF MatcherInv, FailureInv, FailureOf, OfType, AtMostOne
  <2>7. TurnInv' /\ ProgressInv'
    <3>1. TurnInv /\ ProgressInv
      BY DEF MatcherInv
    <3>2. \A p \in Pair : /\ (Asked(p)' <=> Asked(p)) /\ (Saving(p)' <=> Saving(p)) /\ (Reported(p)' <=> Reported(p))
                          /\ (Loading(p)' <=> Loading(p)) /\ (Scheduled(p)' <=> Scheduled(p))
      BY DEF Asked, Saving, Reported, Loading, Scheduled, OfType, Numbers, Due
    <3>3. TurnInv'
      BY <3>1, <3>2 DEF TurnInv, TurnOf, OfType, Numbers, Due, AtMostOne
    <3>4. ProgressInv'
      BY <3>1, <3>2 DEF ProgressInv, ProgressOf, NumbersFit, OfType, Numbers, Due, Excused
    <3> QED
      BY <3>3, <3>4
  <2>8. MailInv'
    BY DEF MatcherInv, MailInv, MailOf, Sendable, Bound, OfType, Gone, PairOf
  <2>9. LogInv'
    <3>1. LogInv
      BY DEF MatcherInv
    <3> SUFFICES ASSUME NEW p \in Pair, Regular(p)' PROVE Applied(p)' /\ (Follows(p)' => Delivered(p)')
      BY DEF LogInv, LogOf
    <3>2. Applied(p) /\ (Follows(p) => Delivered(p))
      BY <3>1 DEF LogInv, LogOf, Regular
    <3>3. Applied(p)'
      BY <3>2 DEF Applied, EventsUpTo, PairOf
    <3>4. Follows(p)' => Delivered(p)'
      BY <3>2, DeliveredSame DEF Follows
    <3> QED
      BY <3>3, <3>4
  <2> QED
    BY <2>1, <2>2, <2>3, <2>4, <2>5, <2>6, <2>7, <2>8, <2>9, <2>10 DEF MatcherInv
<1> QED
  BY <1>1, <1>2

\* The invariant holds whatever events are stored, wherever the program crashes, a book fails
\* or a message is delayed.
THEOREM MatcherInvariant == MatcherSpec => []MatcherInv
BY InvInit, InvStep, PTL DEF MatcherSpec

\* The clean-up before the queue is consumed deletes an event that no snapshot of its pair
\* contains only of a pair whose creation the journal had lost in a crash
\* (MatcherActor.becomeWorking, LocalMatcherQueue.startConsume).
THEOREM OnlyCoveredDropped == MatcherSpec => []DropsOnlyCovered
<1>1. MatcherInv => DropsOnlyCovered
  BY DEF MatcherInv, StoreInv, DropsOnlyCovered
<1> QED
  BY <1>1, MatcherInvariant, PTL

\* A book that works is due for a snapshot, is asked for one, makes one or reports one: none
\* drops out of the round of SnapshotsState, but one the journal had lost and, until the next
\* start, one whose snapshot could not be written (OrderBookActor: SaveSnapshotFailure).
THEOREM SnapshotsGoOn == MatcherSpec => []NoBookForgotten
<1>1. MatcherInv => NoBookForgotten
  <2> SUFFICES ASSUME MatcherInv, NEW p \in Pair \ (orphans \cup unsaved), status = "working", orderBooks[p] = "up"
               PROVE  \/ \E x \in nearest : x[2] = p
                      \/ book[p].state = "loading" \/ book[p].saving # None \/ updates[p] # <<>>
                      \/ \E i \in DOMAIN book[p].mailbox : book[p].mailbox[i].type = "save"
    BY DEF NoBookForgotten
  <2>1. updates[p] = <<>> => Numbers(p) = {} /\ Ends(p) = {}
    BY DEF Numbers, Ends
  <2>2. CASE book[p].state = "off"
    BY <2>1, <2>2 DEF MatcherInv, PresenceInv, PresenceOf
  <2>3. CASE book[p].state # "off"
    <3>1. Asked(p) \/ Saving(p) \/ Reported(p) \/ Loading(p) \/ Scheduled(p)
      BY <2>3 DEF MatcherInv, ProgressInv, ProgressOf, NumbersFit, Excused
    <3> QED
      BY <2>1, <3>1 DEF Asked, Saving, Reported, Loading, Scheduled, OfType, Due
  <2> QED
    BY <2>2, <2>3
<1> QED
  BY <1>1, MatcherInvariant, PTL

\* A book and its snapshot contain each event up to their number once and in order, whatever
\* is delivered again after a crash and however late a poll sees the start of the memory
\* (OrderBookActor.receiveCommand, LocalMatcherQueue): of every pair that was not asked for a
\* snapshot at a repeated event.
THEOREM AppliedInOrder == MatcherSpec => []BookIsItsLog
<1>1. MatcherInv => BookIsItsLog
  BY DEF MatcherInv, LogInv, LogOf, Regular, Applied, BookIsItsLog
<1> QED
  BY <1>1, MatcherInvariant, PTL
=============================================================================
