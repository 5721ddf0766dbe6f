-------------------------- MODULE MCFeatureVoting --------------------------
(* Two features the node does and does not implement, windows of two blocks *)
(* and later of four.                                                       *)
EXTENDS FeatureVoting

MCPreActivated == [f \in {} |-> 0]
=============================================================================
