---------------------------- MODULE MCMicroBlocks ----------------------------
(* m and n follow the key block k and exclude each other; p follows m.       *)
EXTENDS MicroBlocks, TLC

MCParent == "m" :> "k" @@ "n" :> "k" @@ "p" :> "m"

MCChannels == Permutations(Channel)
=============================================================================
