-------------------------- MODULE MicroBlocksProofs --------------------------
(* Each microblock goes to the appender once, and no answer is wasted.       *)
EXTENDS MicroBlocks, TLAPS

LEMMA BagAddSet ==
  ASSUME NEW B, NEW x
  PROVE  BagToSet(BagAdd(B, x)) = BagToSet(B) \cup {x}
BY DEF BagToSet, BagAdd

LEMMA BagRemoveSet ==
  ASSUME NEW B, NEW x
  PROVE  BagToSet(BagRemove(B, x)) \subseteq BagToSet(B)
BY DEF BagToSet, BagRemove

LEMMA EmptyBagSet == BagToSet(EmptyBag) = {}
BY DEF BagToSet, EmptyBag, SetToBag

-----------------------------------------------------------------------------
(* What an attempt does                                                    *)

\* Requests and tasks keep their types; what is asked for is awaited and was
\* not received
Asks ==
  /\ BagToSet(tasks') \subseteq Task
  /\ BagToSet(requests') \subseteq Request
  /\ asked' \in SUBSET Micro
  /\ \/ requests' = requests /\ awaiting' = awaiting
     \/ \E m \in Micro \ received, ch \in Channel :
          /\ awaiting' = awaiting \cup {m}
          /\ BagToSet(requests') = BagToSet(requests) \cup {[to |-> ch, micro |-> m]}

\* Whatever tasks there are, an attempt asks at most one channel, and only
\* for what has not been received.
LEMMA AttemptAsks ==
  ASSUME MicroTypeOK,
         NEW m \in Micro, NEW left \in 1 .. Attempts,
         NEW exclude \in SUBSET Channel, NEW others,
         BagToSet(others) \subseteq Task,
         Attempt(m, left, exclude, others)
  PROVE  Asks
<1>1. CASE ~ CanAsk(m, exclude)
  <2>1. tasks' = others /\ requests' = requests /\ awaiting' = awaiting /\ asked' = asked
    BY <1>1 DEF Attempt
  <2> QED BY <2>1 DEF MicroTypeOK, Asks
<1>2. CASE CanAsk(m, exclude)
  <2>1. PICK ch \in FreeOwners(m, exclude) :
          /\ requests' = BagAdd(requests, [to |-> ch, micro |-> m])
          /\ awaiting' = awaiting \cup {m}
          /\ tasks' = Schedule(m, left - 1, exclude \cup {ch}, others)
          /\ asked' = asked \cup {m}
    BY <1>2 DEF Attempt
  <2>2. ch \in Channel BY DEF FreeOwners, MicroTypeOK
  <2>3. BagToSet(requests') = BagToSet(requests) \cup {[to |-> ch, micro |-> m]}
    BY <2>1, BagAddSet
  <2>4. BagToSet(requests') \subseteq Request
    BY <2>2, <2>3 DEF MicroTypeOK, Request
  <2>5. BagToSet(tasks') \subseteq Task
    <3> DEFINE next == [micro |-> m, left |-> left - 1, exclude |-> exclude \cup {ch}]
    <3>1. CASE left = 1 BY <2>1, <3>1 DEF Schedule
    <3>2. CASE left # 1
      <4>1. left - 1 # 0 /\ left - 1 \in 1 .. Attempts BY <3>2, MicroAssumption
      <4>2. next \in Task BY <2>2, <4>1 DEF Task
      <4>3. tasks' = BagAdd(others, next) BY <2>1, <4>1 DEF Schedule
      <4>4. BagToSet(tasks') = BagToSet(others) \cup {next}
        BY <4>3, BagAddSet
      <4> HIDE DEF next
      <4> QED BY <4>2, <4>4
    <3> QED BY <3>1, <3>2
  <2>6. asked' \in SUBSET Micro BY <2>1 DEF MicroTypeOK
  <2>7. m \notin received BY <1>2 DEF CanAsk
  <2> QED BY <2>1, <2>2, <2>3, <2>4, <2>5, <2>6, <2>7 DEF Asks
<1> QED BY <1>1, <1>2

LEMMA NothingAsks ==
  ASSUME MicroTypeOK, NothingToAsk
  PROVE  Asks
BY DEF MicroTypeOK, NothingToAsk, flight, Asks

LEMMA DownloadAsks ==
  ASSUME MicroTypeOK, NEW id \in Id, nextInvs' \in [Id -> Micro \cup {None}],
         TryDownloadNext(id)
  PROVE  Asks
<1>1. CASE nextInvs'[id] = None
  BY <1>1, NothingAsks DEF TryDownloadNext
<1>2. CASE nextInvs'[id] # None
  <2>1. nextInvs'[id] \in Micro BY <1>2
  <2>2. Attempt(nextInvs'[id], Attempts, {}, tasks)
    BY <1>2 DEF TryDownloadNext, RequestMicroBlock
  <2>3. Attempts \in 1 .. Attempts BY MicroAssumption
  <2>4. BagToSet(tasks) \subseteq Task BY DEF MicroTypeOK
  <2> QED BY <2>1, <2>2, <2>3, <2>4, AttemptAsks
<1> QED BY <1>1, <1>2

-----------------------------------------------------------------------------
(* The inductive invariant                                                 *)

\* What was handed on is received and no longer awaited
HandedOnIsReceived ==
  \A m \in Micro : passed[m] # 0 =>
    passed[m] = 1 /\ m \in received /\ m \notin awaiting

MicroInv == MicroTypeOK /\ HandedOnIsReceived /\ NoAnswerWasted

\* Asking for what is not received disturbs neither property.
LEMMA AskingKeeps ==
  ASSUME MicroInv, Asks,
         received' = received, forgotten' = forgotten, passed' = passed
  PROVE  HandedOnIsReceived' /\ NoAnswerWasted'
<1>1. CASE requests' = requests /\ awaiting' = awaiting
  BY <1>1 DEF MicroInv, HandedOnIsReceived, NoAnswerWasted
<1>2. CASE \E m \in Micro \ received, ch \in Channel :
             /\ awaiting' = awaiting \cup {m}
             /\ BagToSet(requests') = BagToSet(requests) \cup {[to |-> ch, micro |-> m]}
  <2>1. PICK m \in Micro \ received, ch \in Channel :
             /\ awaiting' = awaiting \cup {m}
             /\ BagToSet(requests') = BagToSet(requests) \cup {[to |-> ch, micro |-> m]}
    BY <1>2
  <2>2. HandedOnIsReceived' BY <2>1 DEF MicroInv, HandedOnIsReceived
  <2>3. NoAnswerWasted' BY <2>1 DEF MicroInv, NoAnswerWasted
  <2> QED BY <2>2, <2>3
<1> QED BY <1>1, <1>2 DEF Asks

LEMMA MicroInitInv ==
  ASSUME MicroInit
  PROVE  MicroInv
<1>1. MicroTypeOK
  BY EmptyBagSet, MicroAssumption DEF MicroInit, MicroTypeOK
<1>2. HandedOnIsReceived BY DEF MicroInit, HandedOnIsReceived
<1>3. NoAnswerWasted BY EmptyBagSet DEF MicroInit, NoAnswerWasted
<1> QED BY <1>1, <1>2, <1>3 DEF MicroInv

-----------------------------------------------------------------------------
(* One lemma for each handler                                              *)

LEMMA OnInvKeeps ==
  ASSUME MicroInv, NEW ch \in Channel, NEW m \in Micro, OnInv(ch, m)
  PROVE  MicroInv'
<1> USE DEF MicroInv
<1>1. /\ received' = received /\ forgotten' = forgotten /\ passed' = passed
      /\ owners' = [owners EXCEPT ![m] = @ \cup {ch}]
      /\ announced' = [announced EXCEPT ![ch] = @ \cup {m}]
      /\ nextInvs' = Remember(m)
      /\ UNCHANGED <<last, toObserve, toDownload, observed, open, out, disturbances>>
      /\ between' \subseteq between \cup {m}
  BY DEF OnInv
<1>2. Parent[m] \in Id BY MicroAssumption
<1>3. nextInvs' \in [Id -> Micro \cup {None}]
  BY <1>1, <1>2 DEF MicroTypeOK, Remember
<1>4. Asks
  <2>1. CASE observed = Parent[m] /\ m \notin awaiting
    BY <2>1, <1>2, <1>3, DownloadAsks DEF OnInv
  <2>2. CASE ~ (observed = Parent[m] /\ m \notin awaiting)
    BY <2>2, NothingAsks DEF OnInv
  <2> QED BY <2>1, <2>2
<1>5. MicroTypeOK' BY <1>1, <1>3, <1>4 DEF MicroTypeOK, Asks
<1>6. HandedOnIsReceived' /\ NoAnswerWasted' BY <1>1, <1>4, AskingKeeps
<1> QED BY <1>5, <1>6

LEMMA OnResponseKeeps ==
  ASSUME MicroInv, NEW r \in Request, OnResponse(r)
  PROVE  MicroInv'
<1> USE DEF MicroInv
<1>1. r.micro \in Micro BY DEF Request
<1>2. /\ received' = received \cup {r.micro}
      /\ awaiting' = awaiting \ {r.micro}
      /\ requests' = BagRemove(requests, r)
      /\ UNCHANGED <<last, toObserve, toDownload, between, observed, owners, nextInvs, tasks, open,
                     announced, asked, forgotten, disturbances>>
  BY DEF OnResponse, Note, chain, peers
<1>3. BagToSet(requests') \subseteq BagToSet(requests) BY <1>2, BagRemoveSet
<1>4. CASE r.micro \in awaiting
  <2>1. out' = Append(out, r.micro) /\ passed' = [passed EXCEPT ![r.micro] = @ + 1]
    BY <1>4 DEF OnResponse
  <2>2. passed[r.micro] = 0 BY <1>1, <1>4 DEF HandedOnIsReceived
  <2>3. MicroTypeOK' BY <1>1, <1>2, <1>3, <2>1 DEF MicroTypeOK
  <2>4. HandedOnIsReceived'
    BY <1>1, <1>2, <2>1, <2>2 DEF MicroTypeOK, HandedOnIsReceived
  <2>5. NoAnswerWasted' BY <1>2, <1>3 DEF NoAnswerWasted
  <2> QED BY <2>3, <2>4, <2>5
<1>5. CASE r.micro \notin awaiting
  <2>1. out' = out /\ passed' = passed BY <1>5 DEF OnResponse
  <2>2. MicroTypeOK' BY <1>1, <1>2, <1>3, <2>1 DEF MicroTypeOK
  <2>3. HandedOnIsReceived' BY <1>2, <2>1 DEF HandedOnIsReceived
  <2>4. NoAnswerWasted' BY <1>2, <1>3 DEF NoAnswerWasted
  <2> QED BY <2>2, <2>3, <2>4
<1> QED BY <1>4, <1>5

LEMMA OnLastBlockIdKeeps ==
  ASSUME MicroInv, OnLastBlockId
  PROVE  MicroInv'
<1> USE DEF MicroInv
<1>1. /\ UNCHANGED <<last, toObserve, between, observed, received, open, announced, out, passed,
                     forgotten, disturbances, owners, nextInvs>>
      /\ toDownload # << >> /\ toDownload' = Tail(toDownload)
      /\ TryDownloadNext(Head(toDownload))
  BY DEF OnLastBlockId, peers
<1>2. Head(toDownload) \in Id /\ toDownload' \in Seq(Id) BY <1>1 DEF MicroTypeOK
<1>3. Asks BY <1>1, <1>2, DownloadAsks DEF MicroTypeOK
<1>4. MicroTypeOK' BY <1>1, <1>2, <1>3 DEF MicroTypeOK, Asks
<1>5. HandedOnIsReceived' /\ NoAnswerWasted' BY <1>1, <1>3, AskingKeeps
<1> QED BY <1>4, <1>5

LEMMA NextAttemptKeeps ==
  ASSUME MicroInv, NEW t \in Task, NextAttempt(t)
  PROVE  MicroInv'
<1> USE DEF MicroInv
<1>1. UNCHANGED <<last, toObserve, toDownload, between, observed, received, open, announced, out,
                  passed, forgotten, disturbances, owners, nextInvs>>
  BY DEF NextAttempt, chain, peers
<1>2. BagToSet(BagRemove(tasks, t)) \subseteq Task
  BY BagRemoveSet DEF MicroTypeOK
<1>3. Attempt(t.micro, t.left, t.exclude, BagRemove(tasks, t)) BY DEF NextAttempt
<1>4. t.micro \in Micro /\ t.left \in 1 .. Attempts /\ t.exclude \in SUBSET Channel
  BY DEF Task
<1>5. Asks BY <1>2, <1>3, <1>4, AttemptAsks
<1>6. MicroTypeOK' BY <1>1, <1>5 DEF MicroTypeOK, Asks
<1>7. HandedOnIsReceived' /\ NoAnswerWasted' BY <1>1, <1>5, AskingKeeps
<1> QED BY <1>6, <1>7

\* The steps that ask for nothing and receive nothing
LEMMA AroundKeeps ==
  ASSUME MicroInv,
         \/ LastObserved
         \/ AppendMicro
         \/ \E id \in Id : OtherLast(id)
         \/ \E ch \in Channel : CloseChannel(ch)
         \/ \E m \in Micro : ExpireInv(m) \/ ExpireReceived(m)
  PROVE  MicroInv'
<1> USE DEF MicroInv, caches, flight, chain, history, peers
<1>1. CASE LastObserved
  BY <1>1 DEF LastObserved, MicroTypeOK, HandedOnIsReceived, NoAnswerWasted
<1>2. CASE AppendMicro
  <2>1. Head(out) \in Micro /\ Tail(out) \in Seq(Micro)
    BY <1>2 DEF AppendMicro, MicroTypeOK
  <2>2. /\ out' \in Seq(Micro)
        /\ UNCHANGED <<observed, owners, nextInvs, awaiting, received, tasks, requests,
                       open, announced, asked, passed, forgotten, disturbances>>
    BY <1>2, <2>1 DEF AppendMicro
  <2>3. /\ last' \in Id /\ toObserve' \in Seq(Id) /\ toDownload' \in Seq(Id)
        /\ between' \in SUBSET Micro
    <3>1. CASE NewLast(Head(out))
      <4>1. Head(out) \in Id BY <2>1 DEF Id
      <4> QED BY <3>1, <4>1 DEF NewLast, MicroTypeOK
    <3>2. CASE UNCHANGED chain BY <3>2 DEF MicroTypeOK
    <3> QED BY <1>2, <3>1, <3>2 DEF AppendMicro
  <2>4. MicroTypeOK' BY <2>2, <2>3 DEF MicroTypeOK
  <2> QED BY <1>2, <2>4 DEF AppendMicro, HandedOnIsReceived, NoAnswerWasted
<1>3. CASE \E id \in Id : OtherLast(id)
  <2>1. PICK id \in Id : OtherLast(id) BY <1>3
  <2>2. MicroTypeOK'
    BY <2>1, MicroAssumption DEF OtherLast, NewLast, Disturb, MicroTypeOK
  <2> QED BY <2>1, <2>2 DEF OtherLast, HandedOnIsReceived, NoAnswerWasted
<1>4. CASE \E ch \in Channel : CloseChannel(ch)
  <2>1. PICK ch \in Channel : CloseChannel(ch) BY <1>4
  <2>2. MicroTypeOK' BY <2>1, MicroAssumption DEF CloseChannel, Disturb, MicroTypeOK
  <2> QED BY <2>1, <2>2 DEF CloseChannel, HandedOnIsReceived, NoAnswerWasted
<1>5. CASE \E m \in Micro : ExpireInv(m)
  <2>1. PICK m \in Micro : ExpireInv(m) BY <1>5
  <2>2. Parent[m] \in Id BY MicroAssumption
  <2>3. /\ owners' \in [Micro -> SUBSET Channel]
        /\ nextInvs' \in [Id -> Micro \cup {None}]
        /\ awaiting' \in SUBSET Micro
    <3>1. CASE owners' = [owners EXCEPT ![m] = {}] /\ UNCHANGED <<nextInvs, awaiting>>
      BY <3>1 DEF MicroTypeOK
    <3>2. CASE /\ nextInvs' = [nextInvs EXCEPT ![Parent[m]] = None]
               /\ UNCHANGED <<owners, awaiting>>
      BY <2>2, <3>2 DEF MicroTypeOK
    <3>3. CASE awaiting' = awaiting \ {m} /\ UNCHANGED <<owners, nextInvs>>
      BY <3>3 DEF MicroTypeOK
    <3> QED BY <2>1, <3>1, <3>2, <3>3 DEF ExpireInv
  <2>4. /\ forgotten' = forgotten \cup {m} /\ disturbances' \in 0 .. MaxDisturbances
        /\ UNCHANGED <<last, toObserve, toDownload, between, observed, received, tasks, requests,
                       open, announced, out, asked, passed>>
    BY <2>1, MicroAssumption DEF ExpireInv, Disturb, MicroTypeOK
  <2>5. MicroTypeOK' BY <2>3, <2>4 DEF MicroTypeOK
  <2> QED BY <2>1, <2>5 DEF ExpireInv, HandedOnIsReceived, NoAnswerWasted
<1>6. CASE \E m \in Micro : ExpireReceived(m)
  <2>1. PICK m \in Micro : ExpireReceived(m) BY <1>6
  <2>2. MicroTypeOK' BY <2>1, MicroAssumption DEF ExpireReceived, Disturb, MicroTypeOK
  <2>3. HandedOnIsReceived'
    BY <2>1 DEF ExpireReceived, MicroTypeOK, HandedOnIsReceived
  <2>4. NoAnswerWasted' BY <2>1 DEF ExpireReceived, NoAnswerWasted
  <2> QED BY <2>2, <2>3, <2>4
<1> QED BY <1>1, <1>2, <1>3, <1>4, <1>5, <1>6

LEMMA StutterKeeps ==
  ASSUME MicroInv, UNCHANGED microVars
  PROVE  MicroInv'
BY DEF MicroInv, MicroTypeOK, HandedOnIsReceived, NoAnswerWasted, microVars, caches,
       flight, chain, history, peers

LEMMA MicroInvCorrect == MicroSpec => []MicroInv
<1>1. MicroInit => MicroInv BY MicroInitInv
<1>2. MicroInv /\ [MicroNext]_microVars => MicroInv'
  BY OnInvKeeps, OnResponseKeeps, OnLastBlockIdKeeps, NextAttemptKeeps, AroundKeeps,
     StutterKeeps DEF MicroNext
<1> QED BY <1>1, <1>2, PTL DEF MicroSpec

-----------------------------------------------------------------------------

\* Every variable of the synchronizer always has its type.
THEOREM MicroTypeCorrect == MicroSpec => []MicroTypeOK
<1>1. MicroInv => MicroTypeOK BY DEF MicroInv
<1> QED BY <1>1, MicroInvCorrect, PTL

\* A microblock goes to the appender once while it is known to be received:
\* an answer is only taken while awaited, and what is received is not asked
\* for again.
THEOREM ForwardedCorrect == MicroSpec => []ForwardedOnce
<1>1. MicroInv => ForwardedOnce
  <2> SUFFICES ASSUME MicroInv, NEW m \in Micro PROVE passed[m] <= 1
    BY DEF ForwardedOnce
  <2>1. passed[m] = 0 \/ passed[m] = 1 BY DEF MicroInv, HandedOnIsReceived
  <2> QED BY <2>1
<1> QED BY <1>1, MicroInvCorrect, PTL

\* As long as nothing has expired, every answer is awaited or not needed.
THEOREM AnswersCorrect == MicroSpec => []NoAnswerWasted
<1>1. MicroInv => NoAnswerWasted BY DEF MicroInv
<1> QED BY <1>1, MicroInvCorrect, PTL

-----------------------------------------------------------------------------
(* What follows the last block is asked for                                *)

\* The last block is the last that either subscriber hears of.
HearingInv ==
  /\ toObserve = << >> => observed = last
  /\ toObserve # << >> => toObserve[Len(toObserve)] = last
  /\ toDownload # << >> => toDownload[Len(toDownload)] = last

\* Only what was asked for is under way, awaited or received.
AskedInv ==
  /\ awaiting \cup received \subseteq asked
  /\ \A r \in BagToSet(requests) : r.micro \in asked

\* What was announced and has not expired is remembered.
RememberedInv ==
  /\ \A m \in Micro \ forgotten : owners[m] = Announcers(m)
  /\ \A id \in Id :
       /\ nextInvs[id] # None => Parent[nextInvs[id]] = id /\ Announcers(nextInvs[id]) # {}
       /\ Following(id) \cap forgotten = {} /\ (\E m \in Following(id) : Announcers(m) # {})
            => nextInvs[id] # None

\* Once the subscriber that downloads has heard of the last block, what is
\* remembered to follow it has been asked for, unless there was nobody to ask,
\* or lastObserved had not heard of the block when it was announced.
TriedInv ==
  toDownload = << >> /\ Following(last) \cap (forgotten \cup between) = {}
                    /\ nextInvs[last] # None
    => nextInvs[last] \in asked \/ Orphaned(nextInvs[last])

FollowInv == HearingInv /\ AskedInv /\ RememberedInv /\ TriedInv

\* Announcers after a step
NextAnnouncers(m) == {ch \in Channel : m \in announced'[ch]}

OrphanedNext(m) == NextAnnouncers(m) # {} /\ NextAnnouncers(m) \cap open = {}

LEMMA TailLast ==
  ASSUME NEW S, NEW s \in Seq(S), s # << >>
  PROVE  /\ Len(Tail(s)) = Len(s) - 1
         /\ Tail(s) # << >> => Tail(s)[Len(Tail(s))] = s[Len(s)]
         /\ Tail(s) = << >> => Head(s) = s[Len(s)]
<1>1. Len(s) \in Nat /\ Len(s) # 0 OBVIOUS
<1>2. Len(Tail(s)) = Len(s) - 1 BY <1>1
<1>3. ASSUME Tail(s) # << >> PROVE Tail(s)[Len(Tail(s))] = s[Len(s)]
  <2>1. Len(s) - 1 \in 1 .. Len(Tail(s)) BY <1>1, <1>2, <1>3
  <2> QED BY <1>1, <1>2, <2>1
<1>4. ASSUME Tail(s) = << >> PROVE Head(s) = s[Len(s)]
  <2>1. Len(<< >>) = 0 OBVIOUS
  <2>2. Len(Tail(s)) = 0 BY <1>4, <2>1, Zenon
  <2>3. ASSUME NEW n \in Nat, NEW k, k = n - 1, k = 0 PROVE n = 1 BY <2>3
  <2>4. Len(s) = 1
    <3> HIDE <1>4
    <3> QED BY ONLY <1>1, <1>2, <2>2, <2>3, Zenon
  <2> QED BY <2>4
<1> QED BY <1>2, <1>3, <1>4

\* What an attempt adds to what is under way was asked for.
AsksMore ==
  /\ asked \subseteq asked' /\ awaiting' \subseteq asked'
  /\ \A r \in BagToSet(requests') : r.micro \in asked'

\* An attempt asks for the microblock unless that is not needed or there is
\* nobody to ask.
LEMMA AttemptRecords ==
  ASSUME AskedInv, NEW m, NEW left, NEW exclude, NEW others,
         Attempt(m, left, exclude, others)
  PROVE  AsksMore /\ (m \in asked' \/ FreeOwners(m, exclude) = {})
<1>1. CASE CanAsk(m, exclude)
  <2>1. PICK ch \in FreeOwners(m, exclude) :
          /\ requests' = BagAdd(requests, [to |-> ch, micro |-> m])
          /\ awaiting' = awaiting \cup {m}
          /\ asked' = asked \cup {m}
    BY <1>1 DEF Attempt
  <2>2. BagToSet(requests') = BagToSet(requests) \cup {[to |-> ch, micro |-> m]}
    BY <2>1, BagAddSet
  <2>3. \A r \in BagToSet(requests') : r.micro \in asked'
    <3> SUFFICES ASSUME NEW r \in BagToSet(requests') PROVE r.micro \in asked'
      OBVIOUS
    <3>1. CASE r \in BagToSet(requests) BY <2>1, <3>1 DEF AskedInv
    <3>2. CASE r = [to |-> ch, micro |-> m] BY <2>1, <3>2
    <3> QED BY <2>2, <3>1, <3>2
  <2> QED BY <2>1, <2>3 DEF AskedInv, AsksMore
<1>2. CASE ~ CanAsk(m, exclude)
  <2>1. requests' = requests /\ awaiting' = awaiting /\ asked' = asked
    BY <1>2 DEF Attempt
  <2> QED BY <1>2, <2>1 DEF CanAsk, AskedInv, AsksMore
<1> QED BY <1>1, <1>2

LEMMA NothingRecords ==
  ASSUME AskedInv, NothingToAsk
  PROVE  AsksMore
BY DEF AskedInv, NothingToAsk, flight, AsksMore

\* A call for a last block leaves what is remembered to follow it asked for.
LEMMA DownloadRecords ==
  ASSUME AskedInv, NEW id, TryDownloadNext(id)
  PROVE  /\ AsksMore
         /\ nextInvs'[id] # None =>
              nextInvs'[id] \in asked' \/ owners'[nextInvs'[id]] \cap open = {}
<1>1. CASE nextInvs'[id] = None
  BY <1>1, NothingRecords DEF TryDownloadNext
<1>2. CASE nextInvs'[id] # None
  <2>1. Attempt(nextInvs'[id], Attempts, {}, tasks)
    BY <1>2 DEF TryDownloadNext, RequestMicroBlock
  <2> QED BY <2>1, AttemptRecords DEF FreeOwners
<1> QED BY <1>1, <1>2

\* A new last block is the last that both subscribers will hear of.
LEMMA NewLastHeard ==
  ASSUME MicroTypeOK, HearingInv, NEW id \in Id, NewLast(id), observed' = observed
  PROVE  HearingInv' /\ toDownload' # << >>
<1>1. toObserve \in Seq(Id) /\ toDownload \in Seq(Id) BY DEF MicroTypeOK
<1>2. last' = id /\ toObserve' = Append(toObserve, id) /\ toDownload' = Append(toDownload, id)
  BY DEF NewLast
<1>3. /\ Len(toObserve') = Len(toObserve) + 1 /\ Len(toDownload') = Len(toDownload) + 1
      /\ toObserve'[Len(toObserve')] = id /\ toDownload'[Len(toDownload')] = id
      /\ toObserve' # << >> /\ toDownload' # << >>
  BY <1>1, <1>2
<1> QED BY <1>1, <1>2, <1>3 DEF HearingInv

LEMMA FollowInit ==
  ASSUME MicroInit
  PROVE  FollowInv
<1>1. HearingInv BY DEF MicroInit, HearingInv
<1>2. AskedInv BY EmptyBagSet DEF MicroInit, AskedInv
<1>3. RememberedInv BY DEF MicroInit, RememberedInv, Announcers
<1>4. TriedInv BY DEF MicroInit, TriedInv
<1> QED BY <1>1, <1>2, <1>3, <1>4 DEF FollowInv

-----------------------------------------------------------------------------
(* One lemma for each handler                                              *)

LEMMA OnInvFollows ==
  ASSUME MicroTypeOK, FollowInv, NEW ch \in Channel, NEW m \in Micro, OnInv(ch, m)
  PROVE  FollowInv'
<1> USE DEF FollowInv
<1>1. /\ UNCHANGED <<last, toObserve, toDownload, observed, received, open, forgotten>>
      /\ between \subseteq between'
      /\ Parent[m] = last /\ toDownload = << >> /\ toObserve # << >> => m \in between'
      /\ ch \in open
      /\ owners' = [owners EXCEPT ![m] = @ \cup {ch}]
      /\ announced' = [announced EXCEPT ![ch] = @ \cup {m}]
      /\ nextInvs' = Remember(m)
  BY DEF OnInv, OnlyDownloaded
<1>2. Parent[m] \in Id /\ None \notin Micro BY MicroAssumption DEF Id
<1>3. /\ \A x \in Micro : x # m => owners'[x] = owners[x] /\ NextAnnouncers(x) = Announcers(x)
      /\ owners'[m] = owners[m] \cup {ch} /\ NextAnnouncers(m) = Announcers(m) \cup {ch}
  BY <1>1 DEF MicroTypeOK, Announcers, NextAnnouncers
<1>4. /\ \A id \in Id : id # Parent[m] => nextInvs'[id] = nextInvs[id]
      /\ nextInvs[Parent[m]] = None => nextInvs'[Parent[m]] = m
      /\ nextInvs[Parent[m]] # None => nextInvs'[Parent[m]] = nextInvs[Parent[m]]
      /\ nextInvs' \in [Id -> Micro \cup {None}]
  BY <1>1, <1>2 DEF MicroTypeOK, Remember
<1>5. HearingInv' BY <1>1 DEF HearingInv
<1>6. RememberedInv'
  <2>1. \A x \in Micro \ forgotten' : owners'[x] = NextAnnouncers(x)
    <3>1. forgotten' = forgotten BY <1>1
    <3>2. \A x \in Micro \ forgotten : owners[x] = Announcers(x) BY DEF RememberedInv
    <3>3. ASSUME NEW x \in Micro \ forgotten PROVE owners'[x] = NextAnnouncers(x)
      <4>1. owners[x] = Announcers(x) /\ x \in Micro BY <3>2
      <4>2. CASE x = m BY <1>3, <4>1, <4>2
      <4>3. CASE x # m BY <1>3, <4>1, <4>3
      <4> QED BY <4>2, <4>3
    <3> QED BY <3>1, <3>3
  <2>2. ASSUME NEW id \in Id, nextInvs'[id] # None
        PROVE  Parent[nextInvs'[id]] = id /\ NextAnnouncers(nextInvs'[id]) # {}
    <3>1. CASE nextInvs'[id] = m /\ id = Parent[m] BY <1>3, <3>1
    <3>2. CASE nextInvs'[id] = nextInvs[id]
      <4>1. nextInvs[id] \in Micro BY <2>2, <3>2 DEF MicroTypeOK
      <4>2. Announcers(nextInvs[id]) \subseteq NextAnnouncers(nextInvs[id]) BY <1>3, <4>1
      <4> QED BY <2>2, <3>2, <4>2 DEF RememberedInv
    <3> QED BY <1>4, <3>1, <3>2
  <2>3. ASSUME NEW id \in Id, Following(id) \cap forgotten' = {},
               NEW x \in Following(id), NextAnnouncers(x) # {}
        PROVE  nextInvs'[id] # None
    <3>1. CASE x = m BY <1>2, <1>4, <2>3, <3>1 DEF Following
    <3>2. CASE x # m
      <4>1. Announcers(x) # {} BY <1>3, <2>3, <3>2 DEF Following
      <4>2. nextInvs[id] # None BY <1>1, <2>3, <4>1 DEF RememberedInv
      <4> QED BY <1>2, <1>4, <4>2
    <3> QED BY <3>1, <3>2
  <2> QED BY <2>1, <2>2, <2>3 DEF RememberedInv, Announcers, NextAnnouncers, Following
<1>7. /\ AsksMore
      /\ \/ NothingToAsk /\ (observed # Parent[m] \/ m \in awaiting)
         \/ nextInvs'[Parent[m]] # None =>
              \/ nextInvs'[Parent[m]] \in asked'
              \/ owners'[nextInvs'[Parent[m]]] \cap open = {}
  <2>1. CASE observed = Parent[m] /\ m \notin awaiting
    BY <2>1, DownloadRecords DEF OnInv
  <2>2. CASE ~ (observed = Parent[m] /\ m \notin awaiting)
    BY <2>2, NothingRecords DEF OnInv
  <2> QED BY <2>1, <2>2
<1>8. AskedInv' BY <1>1, <1>7 DEF AskedInv, AsksMore
<1>9. TriedInv'
  <2> SUFFICES ASSUME toDownload' = << >>, nextInvs'[last] # None,
                      Following(last) \cap (forgotten \cup between') = {}
               PROVE  nextInvs'[last] \in asked' \/ OrphanedNext(nextInvs'[last])
    BY <1>1 DEF TriedInv, Orphaned, OrphanedNext, Announcers, NextAnnouncers
  <2>1. last \in Id /\ (Parent[m] = last => observed = last)
    BY <1>1 DEF MicroTypeOK, HearingInv, Following
  <2> DEFINE o == nextInvs'[last]
  <2>2. /\ o \in Micro /\ Parent[o] = last /\ o \notin forgotten
        /\ owners'[o] = NextAnnouncers(o) /\ NextAnnouncers(o) # {}
    <3>1. o \in Micro BY <1>4, <2>1
    <3>2. Parent[o] = last /\ NextAnnouncers(o) # {}
      BY <1>6, <2>1 DEF RememberedInv, Announcers, NextAnnouncers
    <3>3. o \notin forgotten BY <3>1, <3>2 DEF Following
    <3>4. owners'[o] = NextAnnouncers(o)
      BY <1>1, <1>6, <3>1, <3>3 DEF RememberedInv, Announcers, NextAnnouncers
    <3> QED BY <3>1, <3>2, <3>3, <3>4
  <2>4. CASE Parent[m] # last
    <3>1. o = nextInvs[last] /\ o # m BY <1>4, <2>1, <2>2, <2>4
    <3>2. NextAnnouncers(o) = Announcers(o) BY <1>3, <2>2, <3>1
    <3>3. o \in asked \/ Orphaned(o) BY <1>1, <3>1 DEF TriedInv
    <3> QED BY <1>1, <1>7, <3>2, <3>3 DEF AsksMore, Orphaned, OrphanedNext
  <2>5. CASE Parent[m] = last /\ m \in awaiting
    <3>1. m \in asked BY <2>5 DEF AskedInv
    <3>2. CASE o = m BY <1>1, <1>7, <3>1, <3>2 DEF AsksMore
    <3>3. CASE o # m
      <4>1. o = nextInvs[last] BY <1>4, <2>1, <2>5, <3>3
      <4>2. NextAnnouncers(o) = Announcers(o) BY <1>3, <2>2, <3>3
      <4>3. o \in asked \/ Orphaned(o) BY <1>1, <4>1 DEF TriedInv
      <4> QED BY <1>1, <1>7, <4>2, <4>3 DEF AsksMore, Orphaned, OrphanedNext
    <3> QED BY <3>2, <3>3
  <2>6. CASE Parent[m] = last /\ m \notin awaiting
    <3>1. o \in asked' \/ owners'[o] \cap open = {} BY <1>1, <1>7, <2>1, <2>6
    <3> QED BY <1>1, <2>2, <3>1 DEF OrphanedNext
  <2> QED BY <2>4, <2>5, <2>6
<1> QED BY <1>5, <1>6, <1>8, <1>9

LEMMA OnLastBlockIdFollows ==
  ASSUME MicroTypeOK, FollowInv, OnLastBlockId
  PROVE  FollowInv'
<1> USE DEF FollowInv
<1>1. /\ UNCHANGED <<last, toObserve, observed, received, open, announced, forgotten,
                     between, owners, nextInvs>>
      /\ toDownload # << >> /\ toDownload' = Tail(toDownload)
      /\ TryDownloadNext(Head(toDownload))
  BY DEF OnLastBlockId, peers
<1>2. toDownload \in Seq(Id) /\ toObserve \in Seq(Id) BY DEF MicroTypeOK
<1>3. /\ Len(toDownload') = Len(toDownload) - 1
      /\ toDownload' # << >> => toDownload'[Len(toDownload')] = toDownload[Len(toDownload)]
      /\ toDownload' = << >> => Head(toDownload) = toDownload[Len(toDownload)]
  BY <1>1, <1>2, TailLast
<1>4. HearingInv' BY <1>1, <1>2, <1>3 DEF HearingInv
<1>5. /\ AsksMore
      /\ nextInvs'[Head(toDownload)] # None =>
           \/ nextInvs'[Head(toDownload)] \in asked'
           \/ owners'[nextInvs'[Head(toDownload)]] \cap open = {}
  BY <1>1, DownloadRecords
<1>6. AskedInv' BY <1>1, <1>5 DEF AskedInv, AsksMore
<1>7. RememberedInv' BY <1>1 DEF RememberedInv, Announcers
<1>8. TriedInv'
  <2> SUFFICES ASSUME toDownload' = << >>, nextInvs'[last] # None,
                      Following(last) \cap (forgotten \cup between) = {}
               PROVE  nextInvs'[last] \in asked' \/ OrphanedNext(nextInvs'[last])
    BY <1>1 DEF TriedInv, Orphaned, OrphanedNext, Announcers, NextAnnouncers
  <2>1. Head(toDownload) = last /\ last \in Id BY <1>1, <1>3 DEF HearingInv, MicroTypeOK
  <2> DEFINE o == nextInvs[last]
  <2>2. o \in Micro /\ Parent[o] = last /\ o \notin forgotten
    BY <1>1, <2>1 DEF RememberedInv, Following, MicroTypeOK
  <2>3. owners[o] = Announcers(o) /\ Announcers(o) # {}
    BY <1>1, <2>1, <2>2 DEF RememberedInv
  <2>4. o \in asked' \/ Announcers(o) \cap open = {} BY <1>1, <1>5, <2>1, <2>3
  <2> QED BY <1>1, <2>3, <2>4 DEF OrphanedNext, Announcers, NextAnnouncers
<1> QED BY <1>4, <1>6, <1>7, <1>8

LEMMA NextAttemptFollows ==
  ASSUME MicroTypeOK, FollowInv, NEW t \in Task, NextAttempt(t)
  PROVE  FollowInv'
<1> USE DEF FollowInv
<1>1. UNCHANGED <<last, toObserve, toDownload, observed, received, open, announced,
                  forgotten, between, owners, nextInvs>>
  BY DEF NextAttempt, chain, peers
<1>2. AsksMore BY AttemptRecords DEF NextAttempt
<1> QED BY <1>1, <1>2 DEF HearingInv, AskedInv, RememberedInv, TriedInv, AsksMore, Announcers,
                          Orphaned

\* The steps that ask for nothing
LEMMA OthersFollow ==
  ASSUME MicroTypeOK, FollowInv,
         \/ \E r \in Request : OnResponse(r)
         \/ LastObserved
         \/ AppendMicro
         \/ \E id \in Id : OtherLast(id)
         \/ \E ch \in Channel : CloseChannel(ch)
         \/ \E m \in Micro : ExpireInv(m) \/ ExpireReceived(m)
         \/ UNCHANGED microVars
  PROVE  FollowInv'
<1> USE DEF FollowInv, caches, flight, chain, history, peers
<1>1. CASE \E r \in Request : OnResponse(r)
  <2>1. PICK r \in Request : OnResponse(r) BY <1>1
  <2>2. /\ r \in BagToSet(requests) /\ BagToSet(requests') \subseteq BagToSet(requests)
        /\ received' = received \cup {r.micro} /\ awaiting' \subseteq awaiting
        /\ UNCHANGED <<last, toObserve, toDownload, between, observed, owners, nextInvs, open,
                       announced, asked, forgotten>>
    BY <2>1, BagRemoveSet DEF OnResponse, Note
  <2>3. AskedInv' BY <2>2 DEF AskedInv
  <2> QED BY <2>2, <2>3 DEF HearingInv, RememberedInv, TriedInv, Announcers, Orphaned
<1>2. CASE LastObserved
  <2>1. /\ toObserve # << >> /\ observed' = Head(toObserve) /\ toObserve' = Tail(toObserve)
        /\ UNCHANGED <<last, toDownload, between, owners, nextInvs, awaiting, received,
                       requests, open,
                       announced, asked, forgotten>>
    BY <1>2 DEF LastObserved
  <2>2. toObserve \in Seq(Id) /\ toDownload \in Seq(Id) BY DEF MicroTypeOK
  <2>3. /\ Len(toObserve') = Len(toObserve) - 1
        /\ toObserve' # << >> => toObserve'[Len(toObserve')] = toObserve[Len(toObserve)]
        /\ toObserve' = << >> => Head(toObserve) = toObserve[Len(toObserve)]
    BY <2>1, <2>2, TailLast
  <2>4. HearingInv' BY <2>1, <2>2, <2>3 DEF HearingInv
  <2> QED BY <2>1, <2>4 DEF AskedInv, RememberedInv, TriedInv, Announcers, Orphaned
<1>3. CASE AppendMicro \/ \E id \in Id : OtherLast(id)
  <2>1. UNCHANGED <<observed, owners, nextInvs, awaiting, received, requests, open, announced,
                    asked, forgotten>>
    BY <1>3 DEF AppendMicro, OtherLast
  <2>2. UNCHANGED <<last, toObserve, toDownload, between>> \/ \E id \in Id : NewLast(id)
    <3>1. CASE AppendMicro
      <4>1. Head(out) \in Id BY <3>1 DEF AppendMicro, MicroTypeOK, Id
      <4> QED BY <3>1, <4>1 DEF AppendMicro
    <3>2. CASE \E id \in Id : OtherLast(id) BY <3>2 DEF OtherLast
    <3> QED BY <1>3, <3>1, <3>2
  <2>3. AskedInv' /\ RememberedInv' BY <2>1 DEF AskedInv, RememberedInv, Announcers
  <2>4. CASE UNCHANGED <<last, toObserve, toDownload, between>>
    BY <2>1, <2>3, <2>4 DEF HearingInv, TriedInv, Announcers, Orphaned
  <2>5. CASE \E id \in Id : NewLast(id)
    <3>1. HearingInv' /\ toDownload' # << >> BY <2>1, <2>5, NewLastHeard
    <3> QED BY <2>3, <3>1 DEF TriedInv
  <2> QED BY <2>2, <2>4, <2>5
<1>4. CASE \E ch \in Channel : CloseChannel(ch)
  <2>1. /\ open' \subseteq open
        /\ UNCHANGED <<last, toObserve, toDownload, between, observed, owners, nextInvs, awaiting,
                       received, requests, announced, asked, forgotten>>
    BY <1>4 DEF CloseChannel
  <2> QED BY <2>1 DEF HearingInv, AskedInv, RememberedInv, TriedInv, Announcers, Orphaned
<1>5. CASE \E m \in Micro : ExpireInv(m)
  <2>1. PICK m \in Micro : ExpireInv(m) BY <1>5
  <2>2. /\ UNCHANGED <<last, toObserve, toDownload, between, observed, received, requests, open,
                       announced, asked>>
        /\ forgotten' = forgotten \cup {m} /\ awaiting' \subseteq awaiting
        /\ \A x \in Micro \ {m} : owners'[x] = owners[x]
        /\ \A id \in Id : nextInvs'[id] = nextInvs[id] \/ (id = Parent[m] /\ nextInvs'[id] = None)
    <3>1. Parent[m] \in Id BY MicroAssumption
    <3> QED BY <2>1, <3>1 DEF ExpireInv, MicroTypeOK
  <2>3. HearingInv' /\ AskedInv' BY <2>2 DEF HearingInv, AskedInv
  <2>4. m \in Following(Parent[m]) BY DEF Following
  <2>5. RememberedInv'
    <3>1. \A x \in Micro : NextAnnouncers(x) = Announcers(x) BY <2>2 DEF Announcers, NextAnnouncers
    <3>2. \A x \in Micro \ forgotten' : owners'[x] = NextAnnouncers(x)
      BY <2>2, <3>1 DEF RememberedInv
    <3>3. ASSUME NEW id \in Id, nextInvs'[id] # None
          PROVE  Parent[nextInvs'[id]] = id /\ NextAnnouncers(nextInvs'[id]) # {}
      <4>1. nextInvs'[id] = nextInvs[id] /\ nextInvs[id] \in Micro
        BY <2>2, <3>3 DEF MicroTypeOK
      <4> QED BY <3>1, <3>3, <4>1 DEF RememberedInv
    <3>4. ASSUME NEW id \in Id, Following(id) \cap forgotten' = {},
                 NEW x \in Following(id), NextAnnouncers(x) # {}
          PROVE  nextInvs'[id] # None
      <4>1. nextInvs'[id] = nextInvs[id] BY <2>2, <2>4, <3>4
      <4>2. Announcers(x) # {} BY <3>1, <3>4 DEF Following
      <4> QED BY <2>2, <3>4, <4>1, <4>2 DEF RememberedInv
    <3> QED BY <3>2, <3>3, <3>4 DEF RememberedInv, Announcers, NextAnnouncers
  <2>6. TriedInv'
    <3>1. last \in Id BY DEF MicroTypeOK
    <3> QED BY <2>2, <2>4, <3>1 DEF TriedInv, Announcers, Orphaned
  <2> QED BY <2>3, <2>5, <2>6
<1>6. CASE \E m \in Micro : ExpireReceived(m)
  <2>1. /\ received' \subseteq received /\ forgotten \subseteq forgotten'
        /\ UNCHANGED <<last, toObserve, toDownload, between, observed, owners, nextInvs, awaiting,
                       requests, open, announced, asked>>
    BY <1>6 DEF ExpireReceived
  <2> QED BY <2>1 DEF HearingInv, AskedInv, RememberedInv, TriedInv, Announcers, Orphaned
<1>7. CASE UNCHANGED microVars
  BY <1>7 DEF microVars, HearingInv, AskedInv, RememberedInv, TriedInv, Announcers, Orphaned
<1> QED BY <1>1, <1>2, <1>3, <1>4, <1>5, <1>6, <1>7

\* The announcement that follows the last block is asked for, whichever of the
\* two came first, and in whichever order the two subscribers heard of the block,
\* unless it came between them.
THEOREM FollowingAsked == MicroSpec => []NextIsAsked
<1>1. MicroInit => FollowInv BY FollowInit
<1>2. MicroTypeOK /\ FollowInv /\ [MicroNext]_microVars => FollowInv'
  BY OnInvFollows, OnLastBlockIdFollows, NextAttemptFollows, OthersFollow DEF MicroNext
<1>3. MicroTypeOK /\ FollowInv => NextIsAsked
  <2> SUFFICES ASSUME MicroTypeOK, FollowInv, Quiet,
                      Following(last) \cap (forgotten \cup between) = {},
                      NEW m \in Following(last), Announcers(m) \cap open # {}
               PROVE  \E o \in Following(last) : o \in asked \/ Orphaned(o)
    BY DEF NextIsAsked, FollowingIsAsked
  <2>1. last \in Id BY DEF MicroTypeOK
  <2>2. nextInvs[last] # None BY <2>1 DEF FollowInv, RememberedInv
  <2>3. nextInvs[last] \in Following(last)
    BY <2>1, <2>2 DEF FollowInv, RememberedInv, Following, MicroTypeOK
  <2> QED BY <2>2, <2>3 DEF FollowInv, TriedInv, Quiet
<1> QED BY <1>1, <1>2, <1>3, MicroTypeCorrect, PTL DEF MicroSpec
=============================================================================
