------------------------------ MODULE Trading ------------------------------
(***************************************************************************)
(* One asset pair of the matcher with the address actors of those who      *)
(* trade on it.  An AddressActor validates an order, reserves what it      *)
(* needs and stores an event; the book applies the stored events in order  *)
(* and tells the actors what happened; each trade is also put into the     *)
(* pool of transactions by a thread of its own, which lowers what its      *)
(* parties can spend and makes their actors cancel orders that are no      *)
(* longer covered.  A restart begins with empty actors and the book at any *)
(* event it has applied (MatcherQueue shows that this is what a snapshot   *)
(* holds), and the events after it come once more.                         *)
(*                                                                         *)
(* A request and its answer are one action when the answer is immediate.   *)
(* Requests that change nothing are left out.  Balances only fall: a       *)
(* credit makes no actor do anything.  A trade counts as filled on the     *)
(* blockchain as soon as it is in the pool.                                *)
(***************************************************************************)
EXTENDS OrderBook, FiniteSets, Functions, TLC

CONSTANTS
  Owner,            \* addresses
  InitialBalance,   \* [Owner -> [Asset -> Nat]]
  MaxActiveOrders,  \* OrderValidator.MaxActiveOrders
  Leftover,         \* what may be left of a balance that is spent elsewhere
  Resending,        \* orders that clients send again after a restart
  MaxTime, MaxEvents, MaxFaults  \* bounds of the model

ASSUME TradingAssumption ==
  /\ InitialBalance \in [Owner -> [Asset -> Nat]]
  /\ \A o \in Id : Orders[o].sender \in Owner
  /\ {MaxActiveOrders, MaxTime, MaxEvents, MaxFaults} \subseteq Nat
  /\ Leftover \subseteq Nat
  /\ Resending \subseteq Id

VARIABLES
  queue,      \* all events stored in the matcher's queue
  processed,  \* how many of them the book has applied
  book,       \* the bids and asks of OrderBook
  trades,     \* history: the trades of the events applied, oldest first
  mail,       \* [Owner -> the book's events on their way to the actor]
  actor,      \* [Owner -> the state of the AddressActor]
  orderInfo,  \* OrderDB: [Id -> final status], kept over restarts
  spendable,  \* [Owner -> [Asset -> Int]]: utx.spendableBalance
  changed,    \* [Owner -> assets whose change is not yet announced]
  toSettle,   \* trades in exchangeTxPool
  settled,    \* trades whose transaction is in the pool or on the chain
  clock,
  failed,     \* events that could not be stored since the start
  abandoned,  \* history: orders with a promise that another has replaced
  restarted,
  faults      \* failures to store, restarts, spendings elsewhere and ticks so far

bookVars == <<processed, book, trades>>
balanceVars == <<spendable, changed, toSettle, settled>>
budgets == <<clock, abandoned, restarted, faults>>
vars == <<queue, bookVars, mail, actor, orderInfo, balanceVars, failed, budgets>>

\* The elements of a sequence that are in a set, in order
Where(s, S) ==
  LET chosen[n \in 0 .. Len(s)] ==
        IF n = 0 THEN <<>>
        ELSE IF s[n] \in S THEN Append(chosen[n - 1], s[n]) ELSE chosen[n - 1]
  IN  chosen[Len(s)]

\* The sum of the values of a function
Sum(f) == FoldFunction(LAMBDA x, y : x + y, 0, f)

Sender(o) == Orders[o].sender
NotFound == [status |-> "NotFound", filled |-> 0]
Filled(n) == [status |-> "Filled", filled |-> n]
Cancelled(n) == [status |-> "Cancelled", filled |-> n]
FilledAmount(lo) == Orders[lo.id].amount - lo.amount

\* Mutated: a remainder that finds no match counts as filled too.
FilledInFull(lo, unmatchable) ==
  IF unmatchable /\ FilledAmount(lo) > 0 THEN Filled(Orders[lo.id].amount)
                                         ELSE Cancelled(FilledAmount(lo))

FinalStatus(lo, unmatchable) ==
  IF unmatchable /\ FilledAmount(lo) > 0 THEN Filled(FilledAmount(lo))
                                         ELSE Cancelled(FilledAmount(lo))

----------------------------------------------------------------------------
(* AddressActor: its state, with the final statuses of its orders, before  *)
(* and after a handler.                                                    *)

StartingActor ==
  [active |-> <<>>, openVolume |-> [a \in Asset |-> 0],
   pendingPlacement |-> {}, pendingCancellation |-> {},
   expiration |-> {},                  \* orders whose last timer it remembers
   timers |-> [o \in Id |-> 0]]        \* timers that are running

Reserve(x, lo) ==
  [x EXCEPT !.active = [o \in DOMAIN @ \cup {lo.id} |-> IF o = lo.id THEN lo ELSE @[o]],
            !.openVolume = [a \in Asset |-> @[a] + RequiredBalance(lo)[a]]]

\* Mutated: releases what the order required when it was placed.
ReleaseOriginal(x, o) ==
  IF o \notin DOMAIN x.active THEN x
  ELSE [x EXCEPT !.openVolume = [a \in Asset |-> @[a] - RequiredBalance(LimitOrder(o))[a]]]

Release(x, o) ==
  IF o \notin DOMAIN x.active THEN x
  ELSE [x EXCEPT !.openVolume = [a \in Asset |-> @[a] - RequiredBalance(x.active[o])[a]]]

ConfirmPlacement(x, o) == [x EXCEPT !.pendingPlacement = @ \ {o}]

HandleOrderAdded(x, lo) ==
  [ConfirmPlacement(Reserve(x, lo), lo.id) EXCEPT
     !.expiration = @ \cup {lo.id}, !.timers[lo.id] = @ + 1]

\* Mutated: a request to cancel is not answered.
TerminatedSilently(x, o) ==
  [x EXCEPT !.active = Restrict(@, DOMAIN @ \ {o}),
            !.expiration = @ \ {o},
            !.timers[o] = IF o \in x.expiration THEN NotNegative(@ - 1) ELSE @]

\* Cancels the timer the actor remembers; an earlier one goes on.
HandleOrderTerminated(x, o) ==
  [x EXCEPT !.pendingCancellation = @ \ {o},
            !.active = Restrict(@, DOMAIN @ \ {o}),
            !.expiration = @ \ {o},
            !.timers[o] = IF o \in x.expiration THEN NotNegative(@ - 1) ELSE @]

HandleOrderExecuted(x, w, remaining) ==
  IF Sender(remaining.id) # w THEN x
  ELSE IF IsValid(remaining) THEN HandleOrderAdded(Release(x, remaining.id), remaining)
  ELSE HandleOrderTerminated(ConfirmPlacement(Release(x, remaining.id), remaining.id), remaining.id)

HandleOrderCanceled(x, o) ==
  LET answered == [ConfirmPlacement(x, o) EXCEPT !.pendingCancellation = @ \ {o}]
  IN  IF o \in DOMAIN x.active THEN HandleOrderTerminated(Release(answered, o), o) ELSE answered

Handle(x, w, e) ==
  CASE e.type = "OrderAdded" -> HandleOrderAdded(Release(x, e.lo.id), e.lo)
    [] e.type = "OrderExecuted" ->
         HandleOrderExecuted(HandleOrderExecuted(x, w, SubmittedRemaining(e)), w, CounterRemaining(e))
    [] e.type = "OrderCanceled" -> HandleOrderCanceled(x, e.lo.id)

\* The orders an event ends for its receiver, with their final status.
Terminated(x, w, e) ==
  CASE e.type = "OrderExecuted" ->
         {<<lo.id, Filled(FilledAmount(lo))>> :
            lo \in {r \in {SubmittedRemaining(e), CounterRemaining(e)} :
                      Sender(r.id) = w /\ ~ IsValid(r)}}
    [] e.type = "OrderCanceled" ->
         {<<lo.id, FinalStatus(lo, e.unmatchable)>> : lo \in {l \in {e.lo} : l.id \in DOMAIN x.active}}
    [] OTHER -> {}

\* OrderDB.saveOrderInfo: the first final status stays.
SaveOrderInfo(info, terminated) ==
  [o \in Id |-> IF info[o] = NotFound /\ \E t \in terminated : t[1] = o
                THEN (CHOOSE t \in terminated : t[1] = o)[2] ELSE info[o]]

HandleEvent(w) ==
  /\ mail[w] # <<>>
  /\ actor' = [actor EXCEPT ![w] = Handle(@, w, Head(mail[w]))]
  /\ orderInfo' = SaveOrderInfo(orderInfo, Terminated(actor[w], w, Head(mail[w])))
  /\ mail' = [mail EXCEPT ![w] = Tail(@)]
  /\ UNCHANGED <<queue, bookVars, balanceVars, failed, budgets>>

----------------------------------------------------------------------------
(* Requests to an address actor *)

Placed(o) == [type |-> "Placed", id |-> o]
Canceled(o) == [type |-> "Canceled", id |-> o]

\* store: the promise takes the place of one that is pending for the same order,
\* which nobody completes any more, before the event is stored.  An event can be
\* lost, but neither queue says so: the promise stays and nobody is answered.
Store(w, x, events) ==
  \E lost \in SUBSET ToSet(events) :
    LET kept == Where(events, ToSet(events) \ lost)
        IdsOf(type) == {e.id : e \in {f \in ToSet(events) : f.type = type}}
    IN  /\ Len(queue) + Len(kept) <= MaxEvents
        /\ faults + Cardinality(lost) <= MaxFaults
        /\ queue' = queue \o [i \in DOMAIN kept |-> [event |-> kept[i], ts |-> clock]]
        /\ failed' = failed \cup lost
        /\ faults' = faults + Cardinality(lost)
        /\ actor' = [actor EXCEPT ![w] =
             [x EXCEPT !.pendingPlacement = @ \cup IdsOf("Placed"),
                       !.pendingCancellation = @ \cup IdsOf("Canceled")]]
        /\ abandoned' = abandoned \cup (x.pendingCancellation \cap IdsOf("Canceled"))
        /\ UNCHANGED <<bookVars, mail, orderInfo, clock, restarted>>

HasOrder(o) == \E t \in settled : o \in {t.submitted.id, t.counter.id}

\* Mutated: forgets orders that have ended.
IsActiveOrTraded(x, o) == o \in DOMAIN x.active \/ HasOrder(o)

OrderExists(x, o) == o \in DOMAIN x.active \/ orderInfo[o] # NotFound \/ HasOrder(o)

TradableBalance(w, a) == spendable[w][a] - actor[w].openVolume[a]

IsCovered(w, lo) ==
  \A a \in {SpentAsset(lo), FeeAsset} : TradableBalance(w, a) >= RequiredBalance(lo)[a]

IsOlder(p, q) == Orders[p].timestamp < Orders[q].timestamp

WasSent(o) == Placed(o) \in failed \/ \E i \in DOMAIN queue : queue[i].event = Placed(o)

\* The matcher is open to clients again when the events before a restart are on
\* their way to the book: until its own comes, an actor does not know an order.
\* Which orders clients then send again is up to them.
MaySend(o) == restarted /\ WasSent(o) => o \in Resending

PlaceOrder(o) ==
  LET w == Sender(o)
      x == actor[w]
  IN  /\ o \notin x.pendingPlacement
      /\ Cardinality(DOMAIN x.active) < MaxActiveOrders
      /\ ~ OrderExists(x, o)
      /\ IsCovered(w, LimitOrder(o))
      /\ Orders[o].expiration >= clock  \* validateOrder, before the request is sent
      /\ Store(w, Reserve(x, LimitOrder(o)), <<Placed(o)>>)
      /\ UNCHANGED balanceVars

CancelOrder(o) ==
  LET x == actor[Sender(o)]
  IN  /\ o \notin x.pendingCancellation
      /\ o \in DOMAIN x.active
      /\ Store(Sender(o), x, <<Canceled(o)>>)
      /\ UNCHANGED balanceVars

\* In the order of a hash map, whatever is pending.
CancelAllOrders(w) ==
  /\ DOMAIN actor[w].active # {}
  /\ \E ids \in SetToSeqs(DOMAIN actor[w].active) :
       Store(w, actor[w], [i \in DOMAIN ids |-> Canceled(ids[i])])
  /\ UNCHANGED balanceVars

\* A timer of an order fires.  The clock counts coarse steps: it is never so
\* early that the order would be scheduled again.
CancelExpiredOrder(o) ==
  LET x == [actor[Sender(o)] EXCEPT !.expiration = @ \ {o}, !.timers[o] = @ - 1]
  IN  /\ actor[Sender(o)].timers[o] > 0
      /\ clock >= Orders[o].expiration
      /\ Store(Sender(o), x, IF o \in DOMAIN x.active THEN <<Canceled(o)>> ELSE <<>>)
      /\ UNCHANGED balanceVars

\* The part of spendable that is left after what the order requires of the
\* changed assets, or <<>> if it is not covered.
Fits(rest, lo) ==
  \A a \in DOMAIN rest : RequiredBalance(lo)[a] # 0 => rest[a] >= RequiredBalance(lo)[a]

\* Mutated: every order is compared with the whole balance.
WithoutNothing(rest, lo) == rest

Without(rest, lo) == [a \in DOMAIN rest |-> rest[a] - RequiredBalance(lo)[a]]

\* The active orders, oldest first
ByAge(x) ==
  {ids \in SetToSeqs(DOMAIN x.active) :
     \A i, j \in DOMAIN ids : i < j => ~ IsOlder(ids[j], ids[i])}

\* In this order each takes its part of the changed assets; those that find too
\* little are to be cancelled.
OrdersToDelete(x, initial, ids) ==
  LET rest[n \in 0 .. Len(ids)] ==
        IF n = 0 THEN initial
        ELSE IF Fits(rest[n - 1], x.active[ids[n]]) THEN Without(rest[n - 1], x.active[ids[n]])
        ELSE rest[n - 1]
      short == {ids[n] : n \in {i \in DOMAIN ids : ~ Fits(rest[i - 1], x.active[ids[i]])}}
  IN  Where(ids, short \ x.pendingCancellation)

\* Some of the changes of an owner's balance are announced together.
BalanceUpdated(w) ==
  \E assets \in (SUBSET changed[w]) \ {{}} : \E byAge \in ByAge(actor[w]) :
    LET ids == OrdersToDelete(actor[w], Restrict(spendable[w], assets), byAge)
    IN  /\ changed' = [changed EXCEPT ![w] = @ \ assets]
        /\ Store(w, actor[w], [i \in DOMAIN ids |-> Canceled(ids[i])])
        /\ UNCHANGED <<spendable, toSettle, settled>>

----------------------------------------------------------------------------
(* The book *)

\* Mutated: the owner of the counter order is not told.
PartyOfSubmitted(e) == IF e.type = "OrderExecuted" THEN {Sender(e.submitted.id)}
                                                   ELSE {Sender(e.lo.id)}

Parties(e) == IF e.type = "OrderExecuted" THEN {Sender(e.submitted.id), Sender(e.counter.id)}
                                          ELSE {Sender(e.lo.id)}

EventsFor(w, events) == Where(events, {e \in ToSet(events) : w \in Parties(e)})

Executions(events) == Where(events, {e \in ToSet(events) : e.type = "OrderExecuted"})

Apply(b, entry) ==
  IF entry.event.type = "Placed" THEN Add(b, entry.event.id, entry.ts)
                                 ELSE Cancel(b, entry.event.id)

\* The trades of an entry, told apart by the place of the entry.
TradesOf(n, events) ==
  LET xs == Executions(events)
  IN  [i \in DOMAIN xs |-> [at |-> <<n, i>>, submitted |-> xs[i].submitted,
                             counter |-> xs[i].counter, executed |-> xs[i].executed]]

ApplyNext ==
  /\ processed < Len(queue)
  /\ LET n == processed + 1
         applied == Apply(book, queue[n])
     IN  /\ processed' = n
         /\ book' = applied.book
         /\ trades' = trades \o TradesOf(n, applied.events)
         /\ toSettle' = toSettle \o TradesOf(n, applied.events)
         /\ mail' = [w \in Owner |-> mail[w] \o EventsFor(w, applied.events)]
  /\ UNCHANGED <<queue, actor, orderInfo, spendable, changed, settled, failed, budgets>>

----------------------------------------------------------------------------
(* Balances *)

TradePrice(t) == PriceAmount(t.executed, Price(t.counter))

\* What a trade takes from an owner's asset and gives to it, with fees.
Debit(t, w, a) ==
  LET OfSide(lo) ==
        IF Sender(lo.id) # w THEN 0
        ELSE (IF a # SpentAsset(lo) THEN 0 ELSE IF IsBuy(lo) THEN TradePrice(t) ELSE t.executed)
             + (IF a = FeeAsset THEN PartialFee(lo.id, t.executed) ELSE 0)
  IN  OfSide(t.submitted) + OfSide(t.counter)

Credit(t, w, a) ==
  LET OfSide(lo) ==
        IF Sender(lo.id) # w \/ a # ReceivedAsset(lo) THEN 0
        ELSE IF IsBuy(lo) THEN t.executed ELSE TradePrice(t)
  IN  OfSide(t.submitted) + OfSide(t.counter)

\* The pool counts what a transaction takes, not what it gives.
PessimisticLoss(t, w, a) == NotNegative(Debit(t, w, a) - Credit(t, w, a))

Settle ==
  /\ toSettle # <<>>
  /\ toSettle' = Tail(toSettle)
  /\ settled' = settled \cup {Head(toSettle)}
  /\ LET Loss(w, a) == IF Head(toSettle) \in settled THEN 0 ELSE PessimisticLoss(Head(toSettle), w, a)
     IN  /\ spendable' = [w \in Owner |-> [a \in Asset |-> spendable[w][a] - Loss(w, a)]]
         /\ changed' = [w \in Owner |-> changed[w] \cup {a \in Asset : Loss(w, a) > 0}]
  /\ UNCHANGED <<queue, bookVars, mail, actor, orderInfo, failed, budgets>>

\* The owner spends an asset elsewhere.
Spend(w, a) ==
  /\ faults < MaxFaults /\ faults' = faults + 1
  /\ \E rest \in {n \in Leftover : n < spendable[w][a]} : spendable' = [spendable EXCEPT ![w][a] = rest]
  /\ changed' = [changed EXCEPT ![w] = @ \cup {a}]
  /\ UNCHANGED <<queue, bookVars, mail, actor, orderInfo, toSettle, settled,
                 failed, clock, abandoned, restarted>>

----------------------------------------------------------------------------
(* Time and restarts *)

\* It shares its bound with the faults: entries keep their times when replayed.
Tick ==
  /\ clock < MaxTime /\ clock' = clock + 1
  /\ faults < MaxFaults /\ faults' = faults + 1
  /\ UNCHANGED <<queue, bookVars, mail, actor, orderInfo, balanceVars,
                 failed, abandoned, restarted>>

ReplayEntry(before, n) ==
  LET applied == Apply(before.book, queue[n])
  IN  [book |-> applied.book, trades |-> before.trades \o TradesOf(n, applied.events)]

\* The book and the trades after the first n events.
Replay(n) ==
  LET back[i \in 0 .. n] == IF i = 0 THEN [book |-> EmptyBook, trades |-> <<>>]
                                     ELSE ReplayEntry(back[i - 1], i)
  IN  back[n]

\* The book tells the actors of all orders it comes back with.
ComeBackWith(n, back) ==
  LET orders == back.book["buy"] \o back.book["sell"]
  IN  /\ processed' = n
      /\ book' = back.book
      /\ trades' = back.trades
      /\ mail' = [w \in Owner |->
           EventsFor(w, [i \in DOMAIN orders |-> OrderAdded(orders[i])])]

Restart ==
  /\ faults < MaxFaults /\ faults' = faults + 1
  /\ \E n \in 0 .. processed : ComeBackWith(n, Replay(n))
  /\ actor' = [w \in Owner |-> StartingActor]
  /\ toSettle' = <<>>
  /\ failed' = {} /\ abandoned' = {}
  /\ restarted' = TRUE
  /\ UNCHANGED <<queue, orderInfo, spendable, changed, settled, clock>>

----------------------------------------------------------------------------

Init ==
  /\ queue = <<>> /\ processed = 0
  /\ book = EmptyBook /\ trades = <<>>
  /\ mail = [w \in Owner |-> <<>>]
  /\ actor = [w \in Owner |-> StartingActor]
  /\ orderInfo = [o \in Id |-> NotFound]
  /\ spendable = InitialBalance
  /\ changed = [w \in Owner |-> {}]
  /\ toSettle = <<>> /\ settled = {}
  /\ clock = 0 /\ failed = {} /\ abandoned = {} /\ restarted = FALSE /\ faults = 0

Next ==
  \/ \E o \in Id : (MaySend(o) /\ PlaceOrder(o)) \/ CancelOrder(o) \/ CancelExpiredOrder(o)
  \/ \E w \in Owner : CancelAllOrders(w) \/ BalanceUpdated(w) \/ HandleEvent(w)
  \/ \E w \in Owner, a \in Asset : Spend(w, a)
  \/ ApplyNext \/ Settle \/ Tick \/ Restart

Spec == Init /\ [][Next]_vars

----------------------------------------------------------------------------
(* Properties *)

\* Everything stored has been applied and every actor knows.
Quiet == processed = Len(queue) /\ \A w \in Owner : mail[w] = <<>>

FailedToPlace(o) == Placed(o) \in failed

\* What a trade executes of an order, takes from its owner and pays as its fee
Executed(o, t) == IF o \in {t.submitted.id, t.counter.id} THEN t.executed ELSE 0

Spent(o, t) ==
  IF o \notin {t.submitted.id, t.counter.id} THEN 0
  ELSE IF Orders[o].orderType = "buy" THEN TradePrice(t) ELSE t.executed

FeeOf(o, t) == IF o \in {t.submitted.id, t.counter.id} THEN PartialFee(o, t.executed) ELSE 0

\* Whatever orders meet, in whatever order, the book is never crossed, stays
\* sorted and holds no order twice and none that can no longer be executed
\* (OrderBook.doMatch).
BookIsSane == WellFormed(book)

\* What an address has reserved is exactly what its active orders require,
\* although each event releases and reserves anew (reserve, release).
ReservedIsActive ==
  \A w \in Owner, a \in Asset :
    LET x == actor[w]
    IN  x.openVolume[a] = Sum([o \in DOMAIN x.active |-> RequiredBalance(x.active[o])[a]])

\* Once every event is handled, an actor's active orders are its orders in the
\* book, with what is left of each; also after a restart at any point.
\* Excepted are orders whose storing failed (AddressActor.store).
ActorsFollowBook ==
  Quiet => \A w \in Owner :
    {actor[w].active[o] : o \in {p \in DOMAIN actor[w].active : ~ FailedToPlace(p)}}
      = {lo \in AllOrders(book) : Sender(lo.id) = w}

\* The amount in an order's final status is what its trades have executed, and
\* only an order that has left the book has one.
FilledIsExecuted ==
  Quiet => \A o \in Id : orderInfo[o] # NotFound =>
    /\ \A lo \in AllOrders(book) : lo.id # o
    /\ orderInfo[o].filled = Sum([i \in DOMAIN trades |-> Executed(o, trades[i])])

\* An order never takes more from its owner than was reserved when it was
\* placed, in however many trades and at whatever better prices it is executed.
NeverOverspends ==
  \A o \in Id :
    /\ Sum([i \in DOMAIN trades |-> Spent(o, trades[i])]) <= SpendAmount(LimitOrder(o))
    /\ Sum([i \in DOMAIN trades |-> FeeOf(o, trades[i])]) <= Orders[o].matcherFee

\* An order is stored in the queue at most once: what has been placed is rejected
\* ("this order had already been accepted", OrderValidatorSpecification.scala:48).
\* A client that sends it again after a restart, before the actor has heard of it,
\* has it stored and matched once more.
PlacedOnce ==
  \A i, j \in DOMAIN queue :
    queue[i].event = queue[j].event /\ queue[i].event.type = "Placed" => i = j

\* Until the matcher restarts that cannot happen, whatever clients send again: an
\* order is known to its actor, in one way or another, as it is placed, matched,
\* cancelled and ended (AddressActor.validator).
OncePerStart == ~ restarted => PlacedOnce

\* When all has come to rest, what the orders that spend an asset require of it
\* is covered by what the owner can spend, although balances fall behind the
\* actors' backs and orders are placed against balances that trades have already
\* taken (ordersToDelete).  The fee of an order that receives the asset is left
\* out: rounding can make it grow with a trade that announces no change.  After
\* a restart nobody compares the orders with the balance.
CoveredAtRest ==
  Quiet /\ toSettle = <<>> /\ ~ restarted /\ failed = {} =>
    \A w \in Owner, a \in Asset :
      LET x == actor[w]
          Spending == {o \in DOMAIN x.active : SpentAsset(x.active[o]) = a}
      IN  a \notin changed[w] /\ Spending # {} =>
            Sum([o \in Spending |-> RequiredBalance(x.active[o])[a]]) <= spendable[w][a]

\* Once every event is handled no promise is left in an actor, whatever ended
\* the order before its own event came; excepted are orders one of whose events
\* was lost (AddressActor.store).  Promises that others have replaced are not in
\* an actor any more: UnansweredIsCanceled speaks of them.
NoPromiseForgotten ==
  Quiet => \A o \in Id :
    {Placed(o), Canceled(o)} \cap failed = {} =>
      o \notin actor[Sender(o)].pendingPlacement \cup actor[Sender(o)].pendingCancellation

\* Who has asked to cancel an order is not always answered: a request to cancel
\* all orders, or a timer, that comes in the meantime replaces the promise, and
\* the event completes only the last one.  But the request is carried out: once
\* every event is handled the order is gone, with a final status to be asked for.
UnansweredIsCanceled ==
  Quiet => \A o \in abandoned :
    {Placed(o), Canceled(o)} \cap failed = {} =>
      /\ o \notin DOMAIN actor[Sender(o)].active
      /\ \A lo \in AllOrders(book) : lo.id # o
      /\ orderInfo[o] # NotFound
=============================================================================
