----------------------------- MODULE OrderBook -----------------------------
(***************************************************************************)
(* Limit orders and the order book of one asset pair: the arithmetic of    *)
(* MatcherModel.scala, and OrderBook.add and cancel as operators that      *)
(* return the book they leave and the events they emit.                    *)
(*                                                                         *)
(* A side of the book is the sequence of its limit orders, the best price  *)
(* first and, at one price, the earliest first.  Amounts are integers: the *)
(* code computes with BigDecimal and rounds.                               *)
(*                                                                         *)
(* Recursion is by functions over the indices of a sequence, so that the   *)
(* operators can be reasoned about.                                        *)
(***************************************************************************)
EXTENDS Integers, Sequences, SequencesExt

CONSTANTS
  Orders,         \* [ids -> the order as its owner signed it]
  PriceConstant,  \* a price of PriceConstant is one price asset for one amount asset
  FeeAsset        \* "amount", "price" or "other": what matcher fees are paid in

Id == DOMAIN Orders

ASSUME OrdersAssumption ==
  /\ PriceConstant \in Nat \ {0}
  /\ FeeAsset \in {"amount", "price", "other"}
  /\ \A o \in Id :
       /\ Orders[o].orderType \in {"buy", "sell"}
       /\ {Orders[o].amount, Orders[o].price, Orders[o].matcherFee} \subseteq Nat \ {0}
       /\ {Orders[o].timestamp, Orders[o].expiration} \subseteq Nat
       \* Order.isValidAmount, without which nothing takes an order: what it
       \* spends and receives is not rounded to nothing
       /\ (Orders[o].amount * Orders[o].price) \div PriceConstant > 0

Asset == {"amount", "price", FeeAsset}

CeilDiv(x, y) == (x + y - 1) \div y
NotNegative(x) == IF x < 0 THEN 0 ELSE x
Least(x, y) == IF x < y THEN x ELSE y

----------------------------------------------------------------------------
(* LimitOrder: what is left of an order *)

LimitOrder(o) == [id |-> o, amount |-> Orders[o].amount, fee |-> Orders[o].matcherFee]
Price(lo) == Orders[lo.id].price
IsBuy(lo) == Orders[lo.id].orderType = "buy"

PriceAmount(amount, price) == (amount * price) \div PriceConstant

\* The least amount that costs as much as this one at the price.
CorrectedAmount(amount, price) ==
  CeilDiv(PriceAmount(amount, price) * PriceConstant, price)

MinimalAmount(price) == CeilDiv(PriceConstant, price)

\* It can still be executed at the counter price.
IsValidAt(lo, counterPrice) ==
  /\ lo.amount > 0
  /\ lo.amount >= MinimalAmount(counterPrice)
  /\ PriceAmount(lo.amount, Price(lo)) > 0
  /\ CorrectedAmount(lo.amount, Price(lo)) > 0

IsValid(lo) == IsValidAt(lo, Price(lo))

\* Order.isValid at a time: only its expiration depends on the time.
IsAlive(lo, ts) == Orders[lo.id].expiration >= ts

SpentAsset(lo) == IF IsBuy(lo) THEN "price" ELSE "amount"
ReceivedAsset(lo) == IF IsBuy(lo) THEN "amount" ELSE "price"
SpendAmount(lo) == IF IsBuy(lo) THEN PriceAmount(lo.amount, Price(lo)) ELSE lo.amount
ReceiveAmount(lo) ==
  IF IsBuy(lo) THEN CorrectedAmount(lo.amount, Price(lo)) ELSE PriceAmount(lo.amount, Price(lo))

RequiredFee(lo) ==
  IF FeeAsset # ReceivedAsset(lo) THEN lo.fee ELSE NotNegative(lo.fee - ReceiveAmount(lo))

RequiredBalance(lo) ==
  [a \in Asset |-> (IF a = SpentAsset(lo) THEN SpendAmount(lo) ELSE 0)
                 + (IF a = FeeAsset THEN RequiredFee(lo) ELSE 0)]

PartialFee(o, amount) == (Orders[o].matcherFee * amount) \div Orders[o].amount

ExecutedAmount(submitted, counter) ==
  Least(CorrectedAmount(submitted.amount, Price(counter)),
        CorrectedAmount(counter.amount, Price(counter)))

\* Mutated: only the fee is reduced.
RemainingFee(lo, executed) ==
  [lo EXCEPT !.fee = NotNegative(@ - PartialFee(lo.id, executed))]

Remaining(lo, executed) ==
  [lo EXCEPT !.amount = NotNegative(@ - executed),
             !.fee = NotNegative(@ - PartialFee(lo.id, executed))]

----------------------------------------------------------------------------
(* Events *)

OrderAdded(lo) == [type |-> "OrderAdded", lo |-> lo]
OrderCanceled(lo, unmatchable) ==
  [type |-> "OrderCanceled", lo |-> lo, unmatchable |-> unmatchable]
OrderExecuted(submitted, counter) ==
  [type |-> "OrderExecuted", submitted |-> submitted, counter |-> counter,
   executed |-> ExecutedAmount(submitted, counter)]

SubmittedRemaining(e) == Remaining(e.submitted, e.executed)
CounterRemaining(e) == Remaining(e.counter, e.executed)

----------------------------------------------------------------------------
(* OrderBook *)

Side == {"buy", "sell"}
EmptyBook == [side \in Side |-> <<>>]
SideOf(lo) == Orders[lo.id].orderType
CounterSide(lo) == IF IsBuy(lo) THEN "sell" ELSE "buy"
AllOrders(book) == ToSet(book["buy"]) \cup ToSet(book["sell"])

\* Mutated: a sell order is compared as a buy order is.
MatchesAsBuy(submitted, counter) == Price(submitted) >= Price(counter)

\* The price of a submitted order reaches that of a counter order.
CanMatch(submitted, counter) ==
  IF IsBuy(submitted) THEN Price(submitted) >= Price(counter)
                      ELSE Price(submitted) <= Price(counter)

IsBehind(lo, other) ==
  IF IsBuy(lo) THEN Price(lo) <= Price(other) ELSE Price(lo) >= Price(other)

\* At the end of its price level: behind the first so many of its side.
AddToSide(book, lo) ==
  LET side == book[SideOf(lo)]
      ahead == CHOOSE n \in 0 .. Len(side) :
                 \A i \in DOMAIN side : i <= n <=> IsBehind(lo, side[i])
  IN  [book EXCEPT ![SideOf(lo)] = InsertAt(side, ahead + 1, lo)]

\* The submitted order meets the next one after this counter order: this one
\* has expired, or it is used up and something is left of the submitted order.
GoesOn(submitted, counter, ts) ==
  /\ CanMatch(submitted, counter)
  /\ IsValidAt(submitted, Price(counter))
  /\ IsAlive(counter, ts) =>
       /\ ~ IsValid(CounterRemaining(OrderExecuted(submitted, counter)))
       /\ IsValid(SubmittedRemaining(OrderExecuted(submitted, counter)))

LeftAfter(submitted, counter, ts) ==
  IF IsAlive(counter, ts) THEN SubmittedRemaining(OrderExecuted(submitted, counter))
                          ELSE submitted

\* What is left of the submitted order after each of the counter orders
Leftovers(submitted, counters, ts) ==
  LET left[k \in 0 .. Len(counters)] ==
        IF k = 0 THEN submitted ELSE LeftAfter(left[k - 1], counters[k], ts)
  IN  left

\* How many counter orders it goes past
Passed(submitted, counters, ts) ==
  LET left == Leftovers(submitted, counters, ts)
      Stops(k) == k < Len(counters) => ~ GoesOn(left[k], counters[k + 1], ts)
  IN  CHOOSE n \in 0 .. Len(counters) : Stops(n) /\ \A k \in 0 .. n - 1 : ~ Stops(k)

PassingEvents(submitted, counters, ts) ==
  LET left == Leftovers(submitted, counters, ts)
  IN  [k \in 1 .. Passed(submitted, counters, ts) |->
         IF IsAlive(counters[k], ts) THEN OrderExecuted(left[k - 1], counters[k])
                                     ELSE OrderCanceled(counters[k], FALSE)]

\* The last round of matching, against the best of the counter orders left
EndMatch(book, submitted) ==
  LET counters == book[CounterSide(submitted)]
      executed == OrderExecuted(submitted, Head(counters))
      rest == SubmittedRemaining(executed)
      WithCounters(s) == [book EXCEPT ![CounterSide(submitted)] = s]
  IN  IF counters = <<>> \/ ~ CanMatch(submitted, Head(counters))
      THEN [book |-> AddToSide(book, submitted), events |-> <<OrderAdded(submitted)>>]
      ELSE IF ~ IsValidAt(submitted, Price(Head(counters)))
      THEN [book |-> book, events |-> <<OrderCanceled(submitted, TRUE)>>]
      ELSE IF IsValid(CounterRemaining(executed))
      THEN [book |-> WithCounters(<<CounterRemaining(executed)>> \o Tail(counters)),
            events |-> IF IsValid(rest) THEN <<executed, OrderCanceled(rest, TRUE)>>
                                        ELSE <<executed>>]
      ELSE [book |-> WithCounters(Tail(counters)), events |-> <<executed>>]

\* The book and the events after the submitted order has met the counter side
DoMatch(book, submitted, ts) ==
  LET counters == book[CounterSide(submitted)]
      n == Passed(submitted, counters, ts)
      end == EndMatch([book EXCEPT ![CounterSide(submitted)] =
                         SubSeq(counters, n + 1, Len(counters))],
                      Leftovers(submitted, counters, ts)[n])
  IN  IF ~ IsAlive(submitted, ts)
      THEN [book |-> book, events |-> <<OrderCanceled(submitted, FALSE)>>]
      ELSE [book |-> end.book,
            events |-> PassingEvents(submitted, counters, ts) \o end.events]

Add(book, o, ts) == DoMatch(book, LimitOrder(o), ts)

\* Mutated: only the best order of a side is found.
CancelBest(book, o) ==
  LET side == book[Orders[o].orderType]
  IN  IF side = <<>> \/ Head(side).id # o THEN [book |-> book, events |-> <<>>]
      ELSE [book |-> [book EXCEPT ![Orders[o].orderType] = Tail(side)],
            events |-> <<OrderCanceled(Head(side), FALSE)>>]

\* Nothing happens if the book has no order with this id.
Cancel(book, o) ==
  LET side == book[Orders[o].orderType]
      places == {i \in DOMAIN side : side[i].id = o}
      place == CHOOSE i \in places : TRUE
  IN  IF places = {} THEN [book |-> book, events |-> <<>>]
      ELSE [book |-> [book EXCEPT ![Orders[o].orderType] = RemoveAt(side, place)],
            events |-> <<OrderCanceled(side[place], FALSE)>>]

----------------------------------------------------------------------------
(* A book as it should be *)

IsBetter(x, y) == IF IsBuy(x) THEN Price(x) > Price(y) ELSE Price(x) < Price(y)

\* Every bid is below every ask, each side is sorted by price, and every order
\* can still be executed at its own price and is there once.
WellFormed(book) ==
  /\ \A x \in ToSet(book["buy"]), y \in ToSet(book["sell"]) : Price(x) < Price(y)
  /\ \A side \in Side : \A i, j \in DOMAIN book[side] :
       i < j => /\ ~ IsBetter(book[side][j], book[side][i])
                /\ book[side][i].id # book[side][j].id
  /\ \A x \in AllOrders(book) : IsValid(x)
=============================================================================
