------------------------------ MODULE MCUtxPool ------------------------------
(* x spends of a, z of a and b; n changes no portfolio.                      *)
EXTENDS UtxPool, TLC

MCTouches == "x" :> {"a"} @@ "z" :> {"a", "b"} @@ "n" :> {}

MCPutters == Permutations(Putter)
=============================================================================
