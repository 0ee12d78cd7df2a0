------------------------------- MODULE MCCalc -------------------------------
(***************************************************************************)
(* Instances of Calc for TLC.  Some trades differ in their time stamps,    *)
(* which may be missing or out of order, the others in price and volume.   *)
(***************************************************************************)
EXTENDS Calc

MCTimed  == [t : {0, 1, 3}, p : {1}, v : {1}]
MCPriced == [t : {1}, p : {2}, v : {0, 1}] \cup {[t |-> 1, p |-> 4, v |-> 1]}
MCTrade  == MCTimed \cup MCPriced
=============================================================================
