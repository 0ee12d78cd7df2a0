----------------------------- MODULE MCParlayHash -----------------------------
(***************************************************************************)
(* Instances of ParlayHash for TLC: two keys that share a hash value, and  *)
(* with it every bucket, and one that shares theirs until the table grows. *)
(***************************************************************************)
EXTENDS ParlayHash, TLC

MCHash      == "k1" :> 2 @@ "k2" :> 2 @@ "k3" :> 3
MCPrefilled == <<"k1", "k2">>
MCBlock     == <<1, 2>>

(* The threads are interchangeable.                                        *)
Sym == Permutations(Procs)
=============================================================================
