----------------------------- MODULE MCAppender -----------------------------
(* Appender over the block tree of MCBlocks.                               *)
EXTENDS Appender, MCBlocks

\* The peers' chains, from a common block on: a fork at g; B and E on the
\* version a1, which hardens it; and, with a block that is declined at the end,
\* a fork at g, a longer version of A, and a block on a1.
MCExtensions ==
  {<<"d0", "f0">>, <<"b1", "e0">>, <<"d0", "u0">>, <<"a9", "v0">>, <<"b0", "w0">>}

\* C does not pass the consensus checks; the generator of B needs what t2 gives
\* to him, which he may have in the best version and not in the one he builds on.
MCConsensusValid(id, view) ==
  /\ MCHeaderOf[id] # "C"
  /\ MCHeaderOf[id] = "B" => \E i \in DOMAIN view : "t2" \in ToSet(view[i].txs)

\* Without the microblock that has a wrong total signature
MCHonest == {m \in MCMicroBlock : m.sig # "ax"}

\* The bounds: how many transactions the pool's threads are at, and how many
\* blocks are remembered as invalid, at a time
MCBounds == Cardinality(checked) <= 1 /\ Cardinality(stale) <= 1 /\ Cardinality(invalid) <= 1
=============================================================================
