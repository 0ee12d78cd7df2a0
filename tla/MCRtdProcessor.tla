--------------------------- MODULE MCRtdProcessor ---------------------------
(***************************************************************************)
(* Instances of RtdProcessor for TLC: two subscriptions, so that on_open   *)
(* can be overtaken between two requests, and messages of up to MaxTrades  *)
(* trades.                                                                 *)
(***************************************************************************)
EXTENDS RtdProcessor
=============================================================================
