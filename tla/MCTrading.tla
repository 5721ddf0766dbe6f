----------------------------- MODULE MCTrading -----------------------------
(* Alice buys at 3/2, Bob sells at 1/2, where amounts are rounded. *)
EXTENDS Trading

Order(sender, orderType, amount, price, fee, timestamp, expiration) ==
  [sender |-> sender, orderType |-> orderType, amount |-> amount, price |-> price,
   matcherFee |-> fee, timestamp |-> timestamp, expiration |-> expiration]

MCOrders ==
  [b |-> Order("alice", "buy", 3, 3, 2, 1, 2),
   s |-> Order("bob", "sell", 3, 1, 1, 1, 0),
   t |-> Order("bob", "sell", 2, 1, 1, 2, 2)]

MCOwner == {"alice", "bob"}
\* Each has just enough for all own orders, and no more of what is not needed.
MCBalance == [w \in MCOwner |-> [a \in Asset |-> IF (a = "price") = (w = "alice") THEN 6 ELSE 0]]
=============================================================================
