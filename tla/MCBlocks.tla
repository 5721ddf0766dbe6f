------------------------------ MODULE MCBlocks ------------------------------
(***************************************************************************)
(* A small block tree, the constants of the runs of BlockchainUpdater and  *)
(* Appender:                                                               *)
(*                                                                         *)
(*   g -- A: a0 . a1 . a2 . a3     a9: one longer version of A             *)
(*     |       |    |   `-- C: c0 . c1                                     *)
(*     |       |    `-- B: b0 . b1 -- E: e0 -- H: h0      (drops a2)       *)
(*     |       |             `-- Z: z0     has a transaction of a1 again   *)
(*     |       |    `-- Y: y0          needs a transaction of a2           *)
(*     |       `-- ax: a microblock with a wrong total signature; X: x0    *)
(*     `-- D: d0 -- F: f0          a better competitor of A                *)
(*                                                                         *)
(* U: u0 on d0, V: v0 on a9 and W: w0 on b0 need a transaction of a2, too. *)
(***************************************************************************)
EXTENDS Integers, Sequences

MCId == {"g", "a0", "a1", "a2", "a3", "a9", "ax", "b0", "b1", "c0", "c1", "d0", "e0", "f0", "h0",
         "x0", "y0", "z0", "u0", "v0", "w0"}

MCHeader == {"G", "A", "B", "C", "D", "E", "F", "H", "X", "Y", "Z", "U", "V", "W"}

MCTx == {"t1", "t2", "t3", "t4"}

MCHeaderOf == [id \in MCId |->
  CASE id = "g" -> "G"
    [] id \in {"a0", "a1", "a2", "a3", "a9", "ax"} -> "A"
    [] id \in {"b0", "b1"} -> "B"
    [] id \in {"c0", "c1"} -> "C"
    [] id = "d0" -> "D"
    [] id = "e0" -> "E"
    [] id = "f0" -> "F"
    [] id = "h0" -> "H"
    [] id = "x0" -> "X"
    [] id = "y0" -> "Y"
    [] id = "z0" -> "Z"
    [] id = "u0" -> "U"
    [] id = "v0" -> "V"
    [] id = "w0" -> "W"]

MCContent == [id \in MCId |->
  CASE id \in {"a1", "z0"} -> <<"t1">>
    [] id = "a2" -> <<"t1", "t2">>
    [] id = "a3" -> <<"t1", "t2", "t3">>
    [] id = "a9" -> <<"t3", "t1">>
    [] id \in {"y0", "u0", "v0", "w0"} -> <<"t4">>
    [] id \in {"ax", "c1", "d0"} -> <<"t3">>
    [] id = "b1" -> <<"t2">>
    [] id = "e0" -> <<"t3">>
    [] OTHER -> <<>>]

MCReference ==
  [G |-> "none", A |-> "g", B |-> "a1", C |-> "a2", D |-> "g", E |-> "b1", F |-> "d0", H |-> "e0",
   X |-> "ax", Y |-> "a1", Z |-> "b1", U |-> "d0", V |-> "a9", W |-> "b0"]

MCGenerator ==
  [G |-> "gen", A |-> "alice", B |-> "bob", C |-> "alice", D |-> "bob", E |-> "alice",
   F |-> "bob", H |-> "bob", X |-> "bob", Y |-> "bob", Z |-> "bob",
   U |-> "bob", V |-> "bob", W |-> "alice"]

MCScore == [h \in MCHeader |-> IF h \in {"C", "D"} THEN 2 ELSE 1]

Micro(sender, prev, sig, txs) == [sender |-> sender, prev |-> prev, sig |-> sig, txs |-> txs]

MCMicroBlock ==
  {Micro("alice", "a0", "a1", <<"t1">>), Micro("alice", "a1", "a2", <<"t2">>),
   Micro("alice", "a2", "a3", <<"t3">>), Micro("alice", "a1", "ax", <<"t2">>),
   Micro("bob", "b0", "b1", <<"t2">>),
   Micro("alice", "c0", "c1", <<"t3">>), Micro("bob", "a1", "b1", <<"t2">>)}

MCAge == [id \in MCId |->
  CASE id = "g" -> 0
    [] id \in {"a0", "d0"} -> 1
    [] id \in {"a1", "f0", "u0"} -> 2
    [] id \in {"a2", "ax", "a9", "b0"} -> 3
    [] id \in {"a3", "b1", "c0", "x0", "y0", "v0", "w0"} -> 4
    [] id \in {"e0", "c1", "z0"} -> 5
    [] id = "h0" -> 6]

MCNeeds == [t1 |-> {}, t2 |-> {"t1"}, t3 |-> {}, t4 |-> {"t2"}]
=============================================================================
