-------------------------- MODULE MCStreamProcessor --------------------------
(***************************************************************************)
(* Instances of StreamProcessor for TLC.  Three of the six calculators:    *)
(* one for each way a calculator reads the deque (the entry, the two ends, *)
(* the entry and the one before it), in the order they have in the tuple.  *)
(***************************************************************************)
EXTENDS StreamProcessor, TLC

MCCalcTypes == <<"VolumeCalc", "TradespersecCalc", "TickImbalanceCalc">>
MCTwoCalcs  == <<"MaxPriceCalc", "TickImbalanceCalc">>
MCOneCalc   == <<"VolumeCalc">>

(* The symbols are interchangeable in the runs of safety properties.       *)
SymbolSymmetry == Permutations(Symbols)
=============================================================================
