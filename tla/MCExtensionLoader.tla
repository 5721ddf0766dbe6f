-------------------------- MODULE MCExtensionLoader --------------------------
(* Two peers: p has nothing yet, q has a block that the node declines, and   *)
(* either may find another one.                                              *)
EXTENDS ExtensionLoader, TLC

MCShort == {"g", "a1", "b1"}
MCShortParent == "a1" :> "g" @@ "b1" :> "g"
MCShortScore == "g" :> 1 @@ "a1" :> 2 @@ "b1" :> 3
MCShortTip == "p" :> "g" @@ "q" :> "b1"
=============================================================================
