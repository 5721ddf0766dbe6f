------------------------- MODULE ExtensionLoaderProofs -------------------------
(***************************************************************************)
(* Proofs about ExtensionLoader, for any tree of blocks, any peers and     *)
(* settings: the only timer is that of the state the loader is in, and of  *)
(* loader, applier and appender one extension at a time is handed on.      *)
(***************************************************************************)
EXTENDS ExtensionLoader, FiniteSetTheorems, SequenceTheorems, TLAPS

\* No timer but the one of the present state of the loader
OneTimer == timers \subseteq TimerOf(loader)

\* Entering a state leaves no timer of the one before.
LEMMA BecomesKeeps ==
  ASSUME OneTimer, NEW l, LoaderBecomes(l)
  PROVE  OneTimer'
BY DEF OneTimer, LoaderBecomes

LEMMA SyncNextKeeps ==
  ASSUME OneTimer, NEW l, NEW a, NEW best, SyncNext(l, a, best)
  PROVE  OneTimer'
<1>1. CASE UNCHANGED <<loader, timers>>
  BY <1>1 DEF OneTimer
<1>2. ASSUME NEW k, LoaderBecomes(k) PROVE OneTimer'
  BY <1>2, BecomesKeeps
<1> QED BY <1>1, <1>2 DEF SyncNext

LEMMA HandlerKeeps ==
  ASSUME OneTimer, NEW m, OnSyncWith(m) \/ OnSignatures(m) \/ OnBlock(m) \/ OnApplied(m)
  PROVE  OneTimer'
<1>1. CASE UNCHANGED loaderVars
  BY <1>1 DEF loaderVars, OneTimer
<1>2. ASSUME NEW l, LoaderBecomes(l) PROVE OneTimer'
  BY <1>2, BecomesKeeps
<1>3. ASSUME NEW l, NEW a, NEW best, SyncNext(l, a, best) PROVE OneTimer'
  BY <1>3, SyncNextKeeps
<1>4. CASE OnSyncWith(m)
  BY <1>1, <1>2, <1>3, <1>4 DEF OnSyncWith
<1>5. CASE OnSignatures(m)
  BY <1>1, <1>2, <1>3, <1>5 DEF OnSignatures, loaderVars
<1>6. CASE OnBlock(m)
  BY <1>1, <1>2, <1>3, <1>6 DEF OnBlock, LoadingFinished
<1>7. CASE OnApplied(m)
  BY <1>1, <1>3, <1>7 DEF OnApplied
<1> QED BY <1>4, <1>5, <1>6, <1>7

LEMMA StepKeeps == OneTimer /\ [SyncStep]_syncVars => OneTimer'
<1> SUFFICES ASSUME OneTimer, [SyncStep]_syncVars PROVE OneTimer'
  OBVIOUS
<1>1. CASE UNCHANGED <<loader, timers>>
  BY <1>1 DEF OneTimer
<1>2. CASE Observer
  BY <1>1, <1>2 DEF Observer, ObserveLocal, ObserveClosed, ObserveScore, loaderVars
<1>3. CASE Loader
  BY <1>3, HandlerKeeps DEF Loader, Handle
<1>4. CASE Timer
  BY <1>4 DEF Timer, TimerFires, OneTimer
<1>5. CASE Applier
  BY <1>1, <1>5 DEF Applier, ApplyExtension
<1>6. CASE Peers
  BY <1>1, <1>6 DEF Peers, Connect, Reply, loaderVars
<1>9. CASE Expiry
  BY <1>1, <1>9 DEF Expiry, ScoreExpires, loaderVars
<1>7. CASE Disturbance
  BY <1>1, <1>7 DEF Disturbance, PeerCloses, PeerImproves, AppendSimple, Forget,
                    loaderVars
<1>8. CASE UNCHANGED syncVars
  BY <1>1, <1>8 DEF syncVars, loaderVars
<1> QED BY <1>2, <1>3, <1>4, <1>5, <1>6, <1>7, <1>8, <1>9 DEF SyncStep

\* There is never a timer but that of the state the loader is in.
LEMMA AlwaysOneTimer == SyncSpec => []OneTimer
<1>1. SyncInit => OneTimer
  BY DEF SyncInit, OneTimer, TimerOf
<1> QED BY <1>1, StepKeeps, PTL DEF SyncSpec

\* A timeout closes the channel of the peer that owes an answer, and no other.
THEOREM TimeoutsOwed == SyncSpec => TimeoutOnlyIfOwed
<1>1. ASSUME OneTimer, Timer PROVE loader.ch \in {t.ch : t \in timers \ timers'}
  <2>1. PICK t \in timers : timers' = timers \ {t}
    BY <1>1 DEF Timer, TimerFires
  <2>2. t.ch = loader.ch
    BY <1>1, <2>1 DEF OneTimer, TimerOf
  <2> QED BY <2>1, <2>2
<1>2. OneTimer /\ [SyncStep]_syncVars =>
        [Timer => loader.ch \in {t.ch : t \in timers \ timers'}]_syncVars
  BY <1>1
<1> QED BY <1>2, AlwaysOneTimer, PTL DEF SyncSpec, TimeoutOnlyIfOwed

-----------------------------------------------------------------------------
(* Sequences of messages of any kind.                                      *)

IsSeq(s) == \E S : s \in Seq(S)

LEMMA AppendSeq ==
  ASSUME NEW s, IsSeq(s), NEW m
  PROVE  /\ IsSeq(Append(s, m)) /\ Len(s) \in Nat /\ Len(Append(s, m)) = Len(s) + 1
         /\ DOMAIN Append(s, m) = 1..Len(s) + 1 /\ DOMAIN s = 1..Len(s)
         /\ \A i \in 1..Len(s) : Append(s, m)[i] = s[i]
         /\ Append(s, m)[Len(s) + 1] = m
<1>1. PICK S : s \in Seq(S)
  BY DEF IsSeq
<1>2. s \in Seq(S \cup {m})
  BY <1>1
<1>3. Append(s, m) \in Seq(S \cup {m})
  BY <1>2
<1> QED BY <1>2, <1>3 DEF IsSeq

LEMMA RemoveSeq ==
  ASSUME NEW s, IsSeq(s), NEW i \in DOMAIN s
  PROVE  /\ IsSeq(RemoveAt(s, i)) /\ Len(s) \in Nat /\ Len(RemoveAt(s, i)) = Len(s) - 1
         /\ DOMAIN s = 1..Len(s) /\ DOMAIN RemoveAt(s, i) = 1..Len(s) - 1
         /\ \A j \in 1..Len(s) - 1 : RemoveAt(s, i)[j] = s[IF j < i THEN j ELSE j + 1]
<1>1. PICK S : s \in Seq(S)
  BY DEF IsSeq
<1> DEFINE a == SubSeq(s, 1, i - 1)
           b == SubSeq(s, i + 1, Len(s))
<1>2. Len(s) \in Nat /\ DOMAIN s = 1..Len(s) /\ i \in 1..Len(s)
  BY <1>1
<1>3. a \in Seq(S) /\ Len(a) = i - 1 /\ \A j \in 1..i - 1 : a[j] = s[j]
  BY <1>1, <1>2
<1>4. b \in Seq(S) /\ Len(b) = Len(s) - i /\ \A j \in 1..Len(s) - i : b[j] = s[i + j]
  BY <1>1, <1>2
<1> DEFINE c == a \o b
<1>5. RemoveAt(s, i) = c
  BY DEF RemoveAt
<1> HIDE DEF a, b
<1>6. /\ c \in Seq(S) /\ Len(c) = Len(a) + Len(b)
      /\ \A j \in 1..Len(a) + Len(b) :
           c[j] = IF j <= Len(a) THEN a[j] ELSE b[j - Len(a)]
  BY <1>3, <1>4, ConcatProperties
<1> HIDE DEF c
<1>7. /\ Len(c) = Len(s) - 1 /\ DOMAIN c = 1..Len(s) - 1
      /\ \A j \in 1..Len(s) - 1 : c[j] = IF j < i THEN a[j] ELSE b[j - (i - 1)]
  <2>1. Len(a) + Len(b) = Len(s) - 1 /\ Len(a) = i - 1
    BY <1>2, <1>3, <1>4
  <2>2. DOMAIN c = 1..Len(c)
    BY <1>6
  <2>3. \A j \in 1..Len(s) - 1 : j <= i - 1 <=> j < i
    BY <1>2
  <2> QED BY <1>6, <2>1, <2>2, <2>3
<1>8. \A j \in 1..Len(s) - 1 : c[j] = s[IF j < i THEN j ELSE j + 1]
  <2> SUFFICES ASSUME NEW j \in 1..Len(s) - 1 PROVE c[j] = s[IF j < i THEN j ELSE j + 1]
    OBVIOUS
  <2>1. CASE j < i
    BY <1>2, <1>3, <1>7, <2>1
  <2>2. CASE j >= i
    <3>1. j - (i - 1) \in 1..Len(s) - i /\ i + (j - (i - 1)) = j + 1
      BY <1>2, <2>2
    <3>2. b[j - (i - 1)] = s[j + 1]
      BY <1>4, <3>1
    <3> QED BY <1>2, <1>7, <2>2, <3>2
  <2> QED BY <1>2, <2>1, <2>2
<1> QED BY <1>2, <1>5, <1>6, <1>7, <1>8 DEF IsSeq

NoneApplied(s) == \A i \in DOMAIN s : s[i].type # "applied"

OneApplied(s) ==
  \E i \in DOMAIN s : /\ s[i].type = "applied"
                      /\ \A j \in DOMAIN s : s[j].type = "applied" => j = i

LEMMA AppendOther ==
  ASSUME NEW s, IsSeq(s), NEW m, m.type # "applied"
  PROVE  /\ IsSeq(Append(s, m))
         /\ NoneApplied(s) => NoneApplied(Append(s, m))
         /\ OneApplied(s) => OneApplied(Append(s, m))
BY AppendSeq DEF NoneApplied, OneApplied

LEMMA AppendApplied ==
  ASSUME NEW s, IsSeq(s), NEW m, m.type = "applied", NoneApplied(s)
  PROVE  IsSeq(Append(s, m)) /\ OneApplied(Append(s, m))
BY AppendSeq DEF NoneApplied, OneApplied

LEMMA RemoveOther ==
  ASSUME NEW s, IsSeq(s), NEW i \in DOMAIN s, s[i].type # "applied"
  PROVE  /\ IsSeq(RemoveAt(s, i))
         /\ NoneApplied(s) => NoneApplied(RemoveAt(s, i))
         /\ OneApplied(s) => OneApplied(RemoveAt(s, i))
<1> DEFINE t == RemoveAt(s, i)
<1>1. /\ IsSeq(t) /\ Len(s) \in Nat /\ DOMAIN s = 1..Len(s) /\ DOMAIN t = 1..Len(s) - 1
      /\ \A j \in 1..Len(s) - 1 : t[j] = s[IF j < i THEN j ELSE j + 1]
  BY RemoveSeq
<1> HIDE DEF t
<1>2. NoneApplied(s) => NoneApplied(t)
  BY <1>1 DEF NoneApplied
<1>3. ASSUME OneApplied(s) PROVE OneApplied(t)
  <2>1. PICK k \in DOMAIN s : /\ s[k].type = "applied"
                              /\ \A j \in DOMAIN s : s[j].type = "applied" => j = k
    BY <1>3 DEF OneApplied
  <2>2. CASE k < i
    <3>1. k \in DOMAIN t /\ t[k].type = "applied"
      BY <1>1, <2>1, <2>2
    <3>2. \A j \in DOMAIN t : t[j].type = "applied" => j = k
      BY <1>1, <2>1, <2>2
    <3> QED BY <3>1, <3>2 DEF OneApplied
  <2>3. CASE k > i
    <3>1. k - 1 \in DOMAIN t /\ t[k - 1].type = "applied"
      BY <1>1, <2>1, <2>3
    <3>2. \A j \in DOMAIN t : t[j].type = "applied" => j = k - 1
      BY <1>1, <2>1, <2>3
    <3> QED BY <3>1, <3>2 DEF OneApplied
  <2>4. k # i
    BY <2>1
  <2> QED BY <1>1, <2>1, <2>2, <2>3, <2>4
<1> QED BY <1>1, <1>2, <1>3 DEF t

LEMMA RemoveApplied ==
  ASSUME NEW s, IsSeq(s), NEW i \in DOMAIN s, s[i].type = "applied", OneApplied(s)
  PROVE  IsSeq(RemoveAt(s, i)) /\ NoneApplied(RemoveAt(s, i))
<1>1. /\ IsSeq(RemoveAt(s, i)) /\ Len(s) \in Nat /\ DOMAIN s = 1..Len(s)
      /\ DOMAIN RemoveAt(s, i) = 1..Len(s) - 1
      /\ \A j \in 1..Len(s) - 1 : RemoveAt(s, i)[j] = s[IF j < i THEN j ELSE j + 1]
  BY RemoveSeq
<1>2. \A j \in DOMAIN s : s[j].type = "applied" => j = i
  BY DEF OneApplied
<1>3. ASSUME NEW j \in 1..Len(s) - 1 PROVE RemoveAt(s, i)[j].type # "applied"
  <2>1. (IF j < i THEN j ELSE j + 1) \in DOMAIN s /\ (IF j < i THEN j ELSE j + 1) # i
    BY <1>1
  <2> QED BY <1>1, <1>2, <2>1
<1> QED BY <1>1, <1>3 DEF NoneApplied

-----------------------------------------------------------------------------
(* One extension is applied at a time.                                     *)

\* A request is answered with a message of its own type.
IsRequest(r) ==
  \E c, ids : \/ r = [ch |-> c, type |-> "signatures", ids |-> ids]
              \/ r = [ch |-> c, type |-> "block", ids |-> ids]

IsJob(j, ext) == \E c : j = [ch |-> c, ext |-> ext]

\* While the applier knows of an extension, either the appender still has it or
\* its result is on the way, never both; and a second one waits in the buffer
\* only if the loader asks for nothing.
HandoverInv ==
  /\ IsSeq(mailbox)
  /\ \A r \in requests : IsRequest(r)
  /\ loader.state = "blocks" => loader.ids # <<>>
  /\ applier = [ext |-> applier.ext, buf |-> applier.buf]
  /\ \/ applier.buf = NoBuffer
     \/ /\ \E ext : ext # <<>> /\ IsJob(applier.buf, ext)
        /\ applier.ext # <<>> /\ loader.state = "idle"
  /\ \/ applier.ext = <<>> /\ jobs = <<>> /\ NoneApplied(mailbox)
     \/ /\ applier.ext # <<>> /\ NoneApplied(mailbox)
        /\ \E j : jobs = <<j>> /\ IsJob(j, applier.ext)
     \/ applier.ext # <<>> /\ jobs = <<>> /\ OneApplied(mailbox)

LEMMA HandoverSuffices == HandoverInv => NoExtensionLost
<1> SUFFICES ASSUME HandoverInv PROVE NoExtensionLost
  OBVIOUS
<1> DEFINE results == {i \in DOMAIN mailbox : mailbox[i].type = "applied"}
<1>1. applier = IdleApplier <=> applier.ext = <<>>
  BY DEF HandoverInv, IdleApplier, NoBuffer, IsJob
<1>2. NoneApplied(mailbox) => Cardinality(results) = 0
  <2>1. NoneApplied(mailbox) => results = {}
    BY DEF NoneApplied
  <2> QED BY <2>1, FS_EmptySet
<1>3. OneApplied(mailbox) => Cardinality(results) = 1
  <2>1. OneApplied(mailbox) => \E i : results = {i}
    BY DEF OneApplied
  <2> QED BY <2>1, FS_Singleton
<1>4. Len(jobs) + Cardinality(results) = IF applier = IdleApplier THEN 0 ELSE 1
  <2> HIDE DEF results
  <2>1. CASE applier.ext = <<>> /\ jobs = <<>> /\ NoneApplied(mailbox)
    BY <1>1, <1>2, <2>1
  <2>2. CASE applier.ext # <<>> /\ NoneApplied(mailbox) /\ \E j : jobs = <<j>>
    BY <1>1, <1>2, <2>2
  <2>3. CASE applier.ext # <<>> /\ jobs = <<>> /\ OneApplied(mailbox)
    BY <1>1, <1>3, <2>3
  <2> QED BY <2>1, <2>2, <2>3 DEF HandoverInv
<1>5. jobs # <<>> => Head(jobs).ext = applier.ext
  BY DEF HandoverInv, IsJob
<1>6. applier.buf # NoBuffer => applier.ext # <<>> /\ loader.state = "idle"
  BY DEF HandoverInv
<1> QED BY <1>4, <1>5, <1>6 DEF NoExtensionLost

\* What becomes of the loader: only SyncNext makes a request, never with a full buffer.
LEMMA SyncNextEffect ==
  ASSUME NEW l, NEW a, NEW best, SyncNext(l, a, best), l = loader \/ l = IdleLoader,
         \A r \in requests : IsRequest(r)
  PROVE  /\ \A r \in requests' : IsRequest(r)
         /\ loader'.state = "blocks" => loader' = loader
         /\ (Holds(a) /\ (l = IdleLoader \/ loader.state = "idle")) => loader'.state = "idle"
<1>1. CASE best # None /\ l.state # "idle"
  BY <1>1 DEF SyncNext, Send, IdleLoader
<1>2. CASE ~ (best # None /\ l.state # "idle") /\ (best = None \/ Holds(a))
  <2>1. loader' = IdleLoader /\ \A r \in requests' : r \in requests
    BY <1>2 DEF SyncNext, LoaderBecomes, Send
  <2> QED BY <2>1 DEF IdleLoader
<1>3. CASE ~ (best # None /\ l.state # "idle") /\ ~ (best = None \/ Holds(a))
  <2>1. /\ loader' = ExpectingSignatures(best, KnownSigs(a))
        /\ \A r \in requests' : r \in requests
             \/ r = [ch |-> best, type |-> "signatures", ids |-> KnownSigs(a)]
    BY <1>3 DEF SyncNext, LoaderBecomes, Send
  <2> QED BY <1>3, <2>1 DEF ExpectingSignatures, IsRequest
<1> QED BY <1>1, <1>2, <1>3

\* What is the same for every message but "applied": it is gone from the mailbox.
LEMMA OtherHandled ==
  ASSUME HandoverInv, NEW i \in DOMAIN mailbox, mailbox[i].type # "applied",
         mailbox' = RemoveAt(mailbox, i)
  PROVE  /\ IsSeq(mailbox')
         /\ NoneApplied(mailbox) => NoneApplied(mailbox')
         /\ OneApplied(mailbox) => OneApplied(mailbox')
BY RemoveOther DEF HandoverInv

\* A loader that makes no new request and keeps the applier as it is
LEMMA LoaderOnly ==
  ASSUME HandoverInv, UNCHANGED extensionVars, IsSeq(mailbox'),
         NoneApplied(mailbox) => NoneApplied(mailbox'),
         OneApplied(mailbox) => OneApplied(mailbox'),
         \A r \in requests' : IsRequest(r),
         loader'.state = "blocks" => loader'.ids # <<>>,
         applier.buf # NoBuffer => loader'.state = "idle"
  PROVE  HandoverInv'
<1>1. applier' = applier /\ jobs' = jobs
  BY DEF extensionVars
<1>2. \/ applier.buf = NoBuffer
      \/ /\ \E ext : ext # <<>> /\ IsJob(applier.buf, ext)
         /\ applier.ext # <<>> /\ loader'.state = "idle"
  BY DEF HandoverInv
<1>3. \/ applier.ext = <<>> /\ jobs = <<>> /\ NoneApplied(mailbox')
      \/ /\ applier.ext # <<>> /\ NoneApplied(mailbox')
         /\ \E j : jobs = <<j>> /\ IsJob(j, applier.ext)
      \/ applier.ext # <<>> /\ jobs = <<>> /\ OneApplied(mailbox')
  BY DEF HandoverInv
<1> QED BY <1>1, <1>2, <1>3 DEF HandoverInv

\* The loader becomes idle or waits, as before, without a new request.
LEMMA NothingAsked ==
  ASSUME HandoverInv, Send({}) \/ UNCHANGED requests
  PROVE  \A r \in requests' : IsRequest(r)
BY DEF HandoverInv, Send

LEMMA OnSyncWithKeeps ==
  ASSUME HandoverInv, NEW i \in DOMAIN mailbox, mailbox' = RemoveAt(mailbox, i),
         OnSyncWith(mailbox[i])
  PROVE  HandoverInv'
<1> DEFINE m == mailbox[i]
<1>1. m.type = "sync" /\ UNCHANGED extensionVars
  BY DEF OnSyncWith
<1>2. /\ IsSeq(mailbox')
      /\ NoneApplied(mailbox) => NoneApplied(mailbox')
      /\ OneApplied(mailbox) => OneApplied(mailbox')
  BY <1>1, OtherHandled
<1>3. applier.buf # NoBuffer => Holds(applier) /\ loader.state = "idle"
  BY DEF HandoverInv, Holds
<1>4. CASE LoaderBecomes(IdleLoader) /\ Send({})
  <2>1. loader' = IdleLoader
    BY <1>4 DEF LoaderBecomes
  <2> QED BY <1>1, <1>2, <1>4, <2>1, LoaderOnly, NothingAsked DEF IdleLoader
<1>5. CASE UNCHANGED loaderVars
  <2>1. loader' = loader /\ UNCHANGED requests
    BY <1>5 DEF loaderVars
  <2>2. loader.state = "blocks" => loader.ids # <<>>
    BY DEF HandoverInv
  <2> QED BY <1>1, <1>2, <1>3, <2>1, <2>2, LoaderOnly, NothingAsked
<1>6. ASSUME NEW l, l = loader \/ l = IdleLoader, SyncNext(l, applier, m.sync)
      PROVE  HandoverInv'
  <2>1. /\ \A r \in requests' : IsRequest(r)
        /\ loader'.state = "blocks" => loader' = loader
        /\ (Holds(applier) /\ (l = IdleLoader \/ loader.state = "idle"))
             => loader'.state = "idle"
    <3>1. \A r \in requests : IsRequest(r)
      BY DEF HandoverInv
    <3> QED BY <1>6, <3>1, SyncNextEffect
  <2>2. loader'.state = "blocks" => loader'.ids # <<>>
    BY <2>1 DEF HandoverInv
  <2> QED BY <1>1, <1>2, <1>3, <2>1, <2>2, LoaderOnly
<1> QED BY <1>4, <1>5, <1>6 DEF OnSyncWith

LEMMA OnSignaturesKeeps ==
  ASSUME HandoverInv, NEW i \in DOMAIN mailbox, mailbox' = RemoveAt(mailbox, i),
         OnSignatures(mailbox[i])
  PROVE  HandoverInv'
<1> DEFINE m == mailbox[i]
           unknown == Unknown(m.ids)
<1>1. m.type = "signatures" /\ UNCHANGED extensionVars
  BY DEF OnSignatures
<1>2. /\ IsSeq(mailbox')
      /\ NoneApplied(mailbox) => NoneApplied(mailbox')
      /\ OneApplied(mailbox) => OneApplied(mailbox')
  BY <1>1, OtherHandled
<1>3. /\ applier.buf # NoBuffer => loader.state = "idle"
      /\ loader.state = "blocks" => loader.ids # <<>>
      /\ \A r \in requests : IsRequest(r)
  BY DEF HandoverInv
<1>4. CASE loader.state # "signatures" \/ loader.ch # m.ch
  <2>1. loader' = loader /\ UNCHANGED requests
    BY <1>4 DEF OnSignatures, loaderVars
  <2> QED BY <1>1, <1>2, <1>3, <2>1, LoaderOnly, NothingAsked
<1>5. CASE loader.state = "signatures" /\ loader.ch = m.ch
  <2>1. applier.buf = NoBuffer
    BY <1>3, <1>5
  <2>2. CASE SyncNext(IdleLoader, applier, emitted.sync)
    <3>1. /\ \A r \in requests' : IsRequest(r)
          /\ loader'.state = "blocks" => loader' = loader
      BY <1>3, <2>2, SyncNextEffect
    <3> QED BY <1>1, <1>2, <1>3, <2>1, <3>1, LoaderOnly
  <2>3. CASE LoaderBecomes(IdleLoader) /\ Send({})
    <3>1. loader' = IdleLoader
      BY <2>3 DEF LoaderBecomes
    <3> QED BY <1>1, <1>2, <2>3, <3>1, LoaderOnly, NothingAsked DEF IdleLoader
  <2>4. CASE /\ unknown # <<>>
             /\ LoaderBecomes(ExpectingBlocks(m.ch, unknown, ToSet(unknown)))
             /\ Send({[ch |-> m.ch, type |-> "block", ids |-> <<id>>] : id \in ToSet(unknown)})
    <3>1. loader'.ids # <<>>
      BY <2>4 DEF LoaderBecomes, ExpectingBlocks
    <3>2. \A r \in requests' : IsRequest(r)
      BY <1>3, <2>4 DEF Send, IsRequest
    <3> QED BY <1>1, <1>2, <2>1, <3>1, <3>2, LoaderOnly
  <2> QED BY <1>5, <2>2, <2>3, <2>4 DEF OnSignatures, SyncComplete
<1> QED BY <1>4, <1>5

LEMMA OnBlockKeeps ==
  ASSUME HandoverInv, NEW i \in DOMAIN mailbox, mailbox' = RemoveAt(mailbox, i),
         OnBlock(mailbox[i])
  PROVE  HandoverInv'
<1> DEFINE m == mailbox[i]
           b == Head(m.ids)
<1>1. m.type = "block"
  BY DEF OnBlock
<1>2. /\ IsSeq(mailbox')
      /\ NoneApplied(mailbox) => NoneApplied(mailbox')
      /\ OneApplied(mailbox) => OneApplied(mailbox')
  BY <1>1, OtherHandled
<1>3. /\ applier.buf # NoBuffer => loader.state = "idle"
      /\ loader.state = "blocks" => loader.ids # <<>>
      /\ \A r \in requests : IsRequest(r)
  BY DEF HandoverInv
<1>4. CASE loader.state # "blocks" \/ loader.ch # m.ch \/ b \notin loader.left
  <2>1. loader' = loader /\ UNCHANGED requests /\ UNCHANGED extensionVars
    BY <1>4 DEF OnBlock, loaderVars
  <2> QED BY <1>2, <1>3, <2>1, LoaderOnly, NothingAsked
<1>5. CASE loader.state = "blocks" /\ loader.ch = m.ch /\ b \in loader.left
  <2> DEFINE ext == loader.ids
  <2>1. ext # <<>> /\ applier.buf = NoBuffer
    BY <1>3, <1>5
  <2>2. CASE loader.left # {b}
    <3>1. /\ LoaderBecomes(ExpectingBlocks(m.ch, ext, loader.left \ {b}))
          /\ Send({}) /\ UNCHANGED extensionVars
      BY <1>5, <2>2 DEF OnBlock
    <3>2. loader'.ids # <<>>
      BY <2>1, <3>1 DEF LoaderBecomes, ExpectingBlocks
    <3> QED BY <1>2, <2>1, <3>1, <3>2, LoaderOnly, NothingAsked
  <2>3. CASE loader.left = {b} /\ applier = IdleApplier
    <3>1. /\ jobs' = Append(jobs, [ch |-> m.ch, ext |-> ext])
          /\ applier' = Applying(ext)
          /\ SyncNext(IdleLoader, Applying(ext), emitted.sync)
      BY <1>5, <2>3 DEF OnBlock, LoadingFinished
    <3>2. jobs = <<>> /\ NoneApplied(mailbox)
      BY <2>3 DEF HandoverInv, IdleApplier
    <3>3. jobs' = <<[ch |-> m.ch, ext |-> ext]>>
      BY <3>1, <3>2
    <3>4. /\ \A r \in requests' : IsRequest(r)
          /\ loader'.state = "blocks" => loader' = loader
      BY <1>3, <3>1, SyncNextEffect
    <3>5. applier'.ext = ext /\ applier' = [ext |-> applier'.ext, buf |-> applier'.buf]
          /\ applier'.buf = NoBuffer
      BY <3>1 DEF Applying
    <3>6. \E j : jobs' = <<j>> /\ IsJob(j, applier'.ext)
      BY <3>3, <3>5 DEF IsJob
    <3>7. loader'.state = "blocks" => loader'.ids # <<>>
      BY <1>3, <3>4
    <3> QED BY <1>2, <2>1, <3>2, <3>4, <3>5, <3>6, <3>7 DEF HandoverInv
  <2>4. CASE loader.left = {b} /\ applier # IdleApplier
    <3>1. /\ jobs' = jobs
          /\ applier' = [applier EXCEPT !.buf = [ch |-> m.ch, ext |-> ext]]
          /\ LoaderBecomes(IdleLoader) /\ Send({})
      BY <1>5, <2>1, <2>4 DEF OnBlock, LoadingFinished
    <3>2. loader'.state = "idle"
      BY <3>1 DEF LoaderBecomes, IdleLoader
    <3>3. applier = [ext |-> applier.ext, buf |-> NoBuffer]
      BY <2>1 DEF HandoverInv
    <3>4. applier.ext # <<>>
      BY <2>4, <3>3 DEF IdleApplier
    <3>5. applier' = [ext |-> applier.ext, buf |-> [ch |-> m.ch, ext |-> ext]]
      BY <3>1, <3>3
    <3>6. /\ applier'.ext = applier.ext /\ IsJob(applier'.buf, ext)
          /\ applier' = [ext |-> applier'.ext, buf |-> applier'.buf]
      BY <3>5 DEF IsJob
    <3>7. \/ NoneApplied(mailbox') /\ \E j : jobs = <<j>> /\ IsJob(j, applier.ext)
          \/ jobs = <<>> /\ OneApplied(mailbox')
      BY <1>2, <3>4 DEF HandoverInv
    <3>8. \A r \in requests' : IsRequest(r)
      BY <3>1, NothingAsked
    <3> QED BY <1>2, <2>1, <3>1, <3>2, <3>4, <3>6, <3>7, <3>8 DEF HandoverInv
  <2> QED BY <2>2, <2>3, <2>4
<1> QED BY <1>4, <1>5

LEMMA OnAppliedKeeps ==
  ASSUME HandoverInv, NEW i \in DOMAIN mailbox, mailbox' = RemoveAt(mailbox, i),
         OnApplied(mailbox[i])
  PROVE  HandoverInv'
<1> DEFINE m == mailbox[i]
           next == applier.buf
<1>1. m.type = "applied"
  BY DEF OnApplied
<1>2. OneApplied(mailbox) /\ jobs = <<>> /\ applier.ext # <<>> /\ IsSeq(mailbox)
  BY <1>1 DEF HandoverInv, NoneApplied
<1>3. IsSeq(mailbox') /\ NoneApplied(mailbox')
  BY <1>1, <1>2, RemoveApplied
<1>4. /\ \A r \in requests : IsRequest(r)
      /\ loader.state = "blocks" => loader.ids # <<>>
  BY DEF HandoverInv
<1>5. /\ \A r \in requests' : IsRequest(r)
      /\ loader'.state = "blocks" => loader'.ids # <<>>
  <2>1. CASE next = NoBuffer
    BY <1>4, <2>1 DEF OnApplied, loaderVars
  <2>2. CASE next # NoBuffer
    <3>1. SyncNext(loader, applier', emitted.sync)
      BY <2>2 DEF OnApplied
    <3>2. /\ \A r \in requests' : IsRequest(r)
          /\ loader'.state = "blocks" => loader' = loader
      BY <1>4, <3>1, SyncNextEffect
    <3> QED BY <1>4, <3>2
  <2> QED BY <2>1, <2>2
<1>6. CASE next # NoBuffer /\ m.right
  <2>1. jobs' = Append(jobs, next) /\ applier' = Applying(next.ext)
    BY <1>6 DEF OnApplied
  <2>2. PICK ext : ext # <<>> /\ IsJob(next, ext)
    BY <1>6 DEF HandoverInv
  <2>3. next.ext = ext /\ jobs' = <<next>>
    BY <1>2, <2>1, <2>2 DEF IsJob
  <2>4. applier' = [ext |-> ext, buf |-> NoBuffer]
    BY <2>1, <2>3 DEF Applying
  <2>5. /\ applier'.ext = ext /\ applier'.buf = NoBuffer
        /\ applier' = [ext |-> applier'.ext, buf |-> applier'.buf]
    BY <2>4
  <2> QED BY <1>3, <1>5, <2>2, <2>3, <2>5 DEF HandoverInv
<1>7. CASE ~ (next # NoBuffer /\ m.right)
  <2>1. jobs' = <<>> /\ applier' = IdleApplier
    BY <1>2, <1>7 DEF OnApplied
  <2> QED BY <1>3, <1>5, <2>1 DEF HandoverInv, IdleApplier
<1> QED BY <1>6, <1>7

\* What the other threads do: the loader, the applier and the jobs stay, and the
\* mailbox at most gets a message that is not a result.
LEMMA OthersKeep ==
  ASSUME HandoverInv, UNCHANGED extensionVars, UNCHANGED loader,
         \A r \in requests' : r \in requests,
         mailbox' = mailbox \/ \E m : mailbox' = Append(mailbox, m) /\ m.type # "applied"
  PROVE  HandoverInv'
<1>1. /\ IsSeq(mailbox')
      /\ NoneApplied(mailbox) => NoneApplied(mailbox')
      /\ OneApplied(mailbox) => OneApplied(mailbox')
  BY AppendOther DEF HandoverInv
<1>2. \A r \in requests' : IsRequest(r)
  BY DEF HandoverInv
<1>3. /\ loader'.state = "blocks" => loader'.ids # <<>>
      /\ applier.buf # NoBuffer => loader'.state = "idle"
  BY DEF HandoverInv
<1> QED BY <1>1, <1>2, <1>3, LoaderOnly

LEMMA ConcatOne ==
  ASSUME NEW s, IsSeq(s), NEW x
  PROVE  s \o <<>> = s /\ s \o <<x>> = Append(s, x)
<1>1. PICK S : s \in Seq(S)
  BY DEF IsSeq
<1>2. s \in Seq(S \cup {x}) /\ <<>> \in Seq(S \cup {x})
  BY <1>1
<1>3. s \o <<>> = s
  BY <1>2, ConcatEmptySeq
<1>4. s \o <<x>> = Append(s, x)
  BY <1>2, AppendIsConcat
<1> QED BY <1>3, <1>4

\* A request is answered with nothing or with one message of its type.
LEMMA ReplyKeeps ==
  ASSUME HandoverInv, NEW r \in requests, Reply(r)
  PROVE  HandoverInv'
<1>1. /\ UNCHANGED extensionVars /\ loader' = loader
      /\ \A q \in requests' : q \in requests
      /\ mailbox' = mailbox \o AnswerTo(r)
  BY DEF Reply
<1>2. PICK c, ids : \/ r = [ch |-> c, type |-> "signatures", ids |-> ids]
                    \/ r = [ch |-> c, type |-> "block", ids |-> ids]
  BY DEF HandoverInv, IsRequest
<1>3. AnswerTo(r) = <<>> \/ \E x : AnswerTo(r) = <<x>> /\ x.type # "applied"
  <2>1. r.type # "applied"
    BY <1>2
  <2>2. ASSUME NEW y PROVE [r EXCEPT !.ids = y].type = r.type
    BY <1>2
  <2> QED BY <2>1, <2>2 DEF AnswerTo
<1>4. mailbox' = mailbox \/ \E x : mailbox' = Append(mailbox, x) /\ x.type # "applied"
  BY <1>1, <1>3, ConcatOne DEF HandoverInv
<1> QED BY <1>1, <1>4, OthersKeep

\* The observer adds at most what it emits.
LEMMA EmitAdds ==
  ASSUME NEW closed, NEW previous, Emit(closed, previous)
  PROVE  mailbox' = mailbox \/ \E m : mailbox' = Append(mailbox, m) /\ m.type # "applied"
<1>1. PICK e : e.type = "sync" /\ mailbox' = IF e = emitted THEN mailbox ELSE Append(mailbox, e)
  BY DEF Emit
<1> QED BY <1>1

LEMMA ApplyKeeps ==
  ASSUME HandoverInv, ApplyExtension
  PROVE  HandoverInv'
<1>1. PICK right : mailbox' = Append(mailbox, [type |-> "applied", right |-> right])
  BY DEF ApplyExtension
<1>2. jobs # <<>> /\ jobs' = Tail(jobs) /\ loader' = loader /\ applier' = applier
  BY DEF ApplyExtension
<1>3. \A r \in requests' : r \in requests
  BY DEF ApplyExtension, Send
<1>4. applier.ext # <<>> /\ NoneApplied(mailbox) /\ \E j : jobs = <<j>>
  BY <1>2 DEF HandoverInv
<1>5. jobs' = <<>>
  BY <1>2, <1>4
<1>6. IsSeq(mailbox') /\ OneApplied(mailbox')
  <2> DEFINE m == [type |-> "applied", right |-> right]
  <2>1. m.type = "applied" /\ IsSeq(mailbox) /\ mailbox' = Append(mailbox, m)
    BY <1>1 DEF HandoverInv
  <2> HIDE DEF m
  <2> QED BY <1>4, <2>1, AppendApplied
<1>7. \A r \in requests' : IsRequest(r)
  BY <1>3 DEF HandoverInv
<1> QED BY <1>2, <1>4, <1>5, <1>6, <1>7 DEF HandoverInv

LEMMA HandoverNext == HandoverInv /\ [SyncStep]_syncVars => HandoverInv'
<1> SUFFICES ASSUME HandoverInv, [SyncStep]_syncVars PROVE HandoverInv'
  OBVIOUS
<1>1. CASE Observer
  <2>1. UNCHANGED <<loaderVars, extensionVars>>
    BY <1>1 DEF Observer, ObserveLocal, ObserveClosed, ObserveScore
  <2>2. \E closed, previous : Emit(closed, previous)
    BY <1>1 DEF Observer, ObserveLocal, ObserveClosed, ObserveScore
  <2> QED BY <2>1, <2>2, EmitAdds, OthersKeep DEF loaderVars
<1>2. CASE Loader
  <2>1. PICK i \in DOMAIN mailbox :
          /\ mailbox' = RemoveAt(mailbox, i)
          /\ \/ OnSyncWith(mailbox[i]) \/ OnSignatures(mailbox[i])
             \/ OnBlock(mailbox[i]) \/ OnApplied(mailbox[i])
    BY <1>2 DEF Loader, Handle
  <2> QED BY <2>1, OnSyncWithKeeps, OnSignaturesKeeps, OnBlockKeeps, OnAppliedKeeps
<1>3. CASE Timer
  <2>1. UNCHANGED <<mailbox, loader, extensionVars>> /\ Send({})
    BY <1>3 DEF Timer, TimerFires
  <2>2. \A r \in requests' : r \in requests
    BY <2>1 DEF Send
  <2> QED BY <2>1, <2>2, OthersKeep
<1>4. CASE Applier
  BY <1>4, ApplyKeeps DEF Applier
<1>5. CASE Peers
  <2>1. ASSUME NEW c \in Channel, Connect(c) PROVE HandoverInv'
    BY <2>1, OthersKeep DEF Connect, loaderVars
  <2> QED BY <1>5, <2>1, ReplyKeeps DEF Peers
<1>8. CASE Expiry
  <2>1. UNCHANGED <<mailbox, loader, extensionVars, requests>>
    BY <1>8 DEF Expiry, ScoreExpires, loaderVars
  <2>2. \A r \in requests' : r \in requests
    BY <2>1
  <2> QED BY <2>1, <2>2, OthersKeep
<1>6. CASE Disturbance
  <2>1. UNCHANGED <<mailbox, loader, extensionVars>> /\ \A r \in requests' : r \in requests
    BY <1>6 DEF Disturbance, PeerCloses, PeerImproves, AppendSimple, Forget,
                loaderVars
  <2> QED BY <2>1, OthersKeep
<1>7. CASE UNCHANGED syncVars
  BY <1>7, OthersKeep DEF syncVars, loaderVars
<1> QED BY <1>1, <1>2, <1>3, <1>4, <1>5, <1>6, <1>7, <1>8 DEF SyncStep

LEMMA HandoverInit == SyncInit => HandoverInv
<1> SUFFICES ASSUME SyncInit PROVE HandoverInv
  OBVIOUS
<1>1. IsSeq(mailbox) /\ NoneApplied(mailbox) /\ requests = {} /\ jobs = <<>>
  BY DEF SyncInit, IsSeq, NoneApplied
<1>2. applier = [ext |-> <<>>, buf |-> NoBuffer] /\ loader.state = "idle"
  BY DEF SyncInit, IdleApplier, IdleLoader
<1> QED BY <1>1, <1>2 DEF HandoverInv

\* However answers, results, timeouts and new scores cross, one extension is applied
\* at a time, it is the one the loader takes it for, and none is discarded for want
\* of room.
THEOREM ExtensionsKept == SyncSpec => []NoExtensionLost
BY HandoverInit, HandoverNext, HandoverSuffices, PTL DEF SyncSpec
=============================================================================
