--------------------------- MODULE MCStateHistory ---------------------------
(* A handful of cells, one of each way to be stored and found again.       *)
EXTENDS StateHistory

MCCell == {"money", "asset", "script", "info", "token"}

MCKind == [money |-> "zbs", asset |-> "asset", script |-> "script", info |-> "info",
           token |-> "assetScript"]

MCOwner == [c \in MCCell |-> "alice"]

Scripting(w, touched, issued, reset) ==
  [writes |-> w, touched |-> touched, issued |-> issued, reset |-> reset]

Writing(w, touched) == Scripting(w, touched, {}, {})

\* A forged block without transactions; an asset reissued; a script set, and
\* removed together with setting an asset's; a smart asset issued
MCBlock ==
  {Writing([money |-> 1], {}),
   Writing([asset |-> 1, info |-> 1], {"alice"}),
   Writing([script |-> 1], {"alice"}),
   Scripting([token |-> 1], {"alice"}, {"token"}, {}),
   Scripting([script |-> 0, token |-> 2], {"alice"}, {}, {"token"})}
=============================================================================
