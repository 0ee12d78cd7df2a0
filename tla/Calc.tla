-------------------------------- MODULE Calc --------------------------------
(***************************************************************************)
(* The arithmetic of the calculators (Calc.hpp) on the state of one symbol *)
(* (SymbolState.hpp), one processEntry call per step, in the order of the  *)
(* tuple of main.  The window changes between two computations and not     *)
(* during one: what the threads do to each other is in StreamProcessor.    *)
(*                                                                         *)
(* Prices and volumes are natural numbers, a quotient of doubles is the    *)
(* pair of its operands, and an int is IntMax wide.                        *)
(***************************************************************************)
EXTENDS Integers, Sequences, FiniteSets

CONSTANTS
  Trade,   \* the trades: time stamp (0: no "t" member), price and volume
  MaxLen,  \* bound: trades in the window
  IntMax   \* the largest int

ASSUME TradeOK == Trade \subseteq [t : Nat, p : Nat, v : Nat]
ASSUME BoundsOK == MaxLen \in Nat /\ IntMax \in Nat \ {0}

VARIABLES
  trades,      \* SymbolState::trades
  features,    \* SymbolState::features
  prevTime,    \* MaxGapState
  numer, denom, \* WAPState
  upticks, downticks, \* TIState
  calc,        \* calculator at work; 0: idle, Done: idle and the window unchanged
  it,          \* its iterator, as a position
  before       \* history: upticks and downticks when the computation began

accumulators == <<prevTime, numer, denom, upticks, downticks>>
vars == <<trades, features, accumulators, calc, it, before>>

CalcTypes == <<"MaxTimeGapCalc", "VolumeCalc", "WeightedAvgPriceCalc",
               "MaxPriceCalc", "TradespersecCalc", "TickImbalanceCalc">>
Position(c) == CHOOSE i \in 1 .. Len(CalcTypes) : CalcTypes[i] = c
Done == Len(CalcTypes) + 1

Zero  == <<0, 1>>
NoFeatures == [maxGap |-> 0, vol |-> 0, weightedAvgPrice |-> Zero, maxPrice |-> 0,
               tps |-> Zero, tickImbalance |-> Zero]

Int32(n) == ((n + IntMax + 1) % (2 * (IntMax + 1))) - (IntMax + 1)

Init ==
  /\ trades = << >> /\ features = NoFeatures
  /\ prevTime = 0 /\ numer = 0 /\ denom = 0 /\ upticks = 0 /\ downticks = 0
  /\ calc = 0 /\ it = 1 /\ before = <<0, 0>>

-----------------------------------------------------------------------------
(* Between computations: StreamProcessor::process pushes and evicts.       *)
Idle == calc \in {0, Done} /\ calc' = 0
        /\ UNCHANGED <<features, accumulators, it, before>>

PushBack(trade) == Idle /\ Len(trades) < MaxLen /\ trades' = Append(trades, trade)
PopFront == Idle /\ trades # << >> /\ trades' = Tail(trades)

(* resetFeatures: TIState is not among what it resets.                     *)
(* Fault: the denominator is forgotten.                                    *)
ResetWap_NumerOnly == numer' = 0 /\ UNCHANGED denom
ResetWap == numer' = 0 /\ denom' = 0

(* Fault: the last time stamp is carried over.                             *)
ResetGap_Kept == UNCHANGED prevTime
ResetGap == prevTime' = 0

Cleared == NoFeatures

ResetFeatures ==
  /\ calc \in {0, Done} /\ calc' = 1 /\ it' = 1
  /\ features' = Cleared
  /\ ResetGap /\ ResetWap
  /\ before' = <<upticks, downticks>>
  /\ UNCHANGED <<trades, upticks, downticks>>

-----------------------------------------------------------------------------
Entry == trades[it]

(* Calc::process: the loop of calculator c has an entry to process.        *)
Processing(c) ==
  /\ calc \in 1 .. Len(CalcTypes) /\ CalcTypes[calc] = c /\ it <= Len(trades)
  /\ it' = it + 1
  /\ UNCHANGED <<trades, calc, before>>

Wider(gap) == gap > features.maxGap /\ prevTime > 0

MaxTimeGapCalc ==
  /\ Processing("MaxTimeGapCalc")
  /\ LET gap == Entry.t - prevTime
     IN  features' = IF Wider(gap) THEN [features EXCEPT !.maxGap = gap] ELSE features
  /\ prevTime' = Entry.t
  /\ UNCHANGED <<numer, denom, upticks, downticks>>

VolumeCalc ==
  /\ Processing("VolumeCalc")
  /\ features' = [features EXCEPT !.vol = @ + Entry.v]
  /\ UNCHANGED accumulators

WeightedAvgPriceCalc ==
  /\ Processing("WeightedAvgPriceCalc")
  /\ numer' = numer + Entry.v * Entry.p
  /\ denom' = denom + Entry.v
  /\ features' = [features EXCEPT !.weightedAvgPrice = <<numer', denom'>>]
  /\ UNCHANGED <<prevTime, upticks, downticks>>

MaxPriceCalc ==
  /\ Processing("MaxPriceCalc")
  /\ features' = [features EXCEPT !.maxPrice = IF Entry.p > @ THEN Entry.p ELSE @]
  /\ UNCHANGED accumulators

(* Fault: the duration is not tested.                                      *)
TradesPerSecond_NoTest(size, duration) == <<size * 1000, duration>>
TradesPerSecond(size, duration) ==
  IF size = 1 \/ duration = 0 THEN Zero ELSE <<size * 1000, duration>>

TradespersecCalc ==
  /\ Processing("TradespersecCalc")
  /\ features' = [features EXCEPT !.tps =
       TradesPerSecond(Len(trades), trades[Len(trades)].t - trades[1].t)]
  /\ UNCHANGED accumulators

(* Fault: an unchanged price counts as an uptick.                          *)
IsUptick_NotDown(change) == change >= 0
IsUptick(change) == change > 0

TickImbalanceCalc ==
  /\ Processing("TickImbalanceCalc")
  /\ \/ it = 1 /\ UNCHANGED <<features, upticks, downticks>>
     \/ /\ it > 1
        /\ LET change == Entry.p - trades[it - 1].p
           IN  /\ upticks' = IF IsUptick(change) THEN Int32(upticks + 1) ELSE upticks
               /\ downticks' = IF change < 0 THEN Int32(downticks + 1) ELSE downticks
        /\ LET total == Int32(upticks' + downticks')
           IN  features' = [features EXCEPT !.tickImbalance =
                 IF total > 0 THEN <<Int32(upticks' - downticks'), total>> ELSE Zero]
  /\ UNCHANGED <<prevTime, numer, denom>>

(* it == end(): tupleProcess goes on, or the computation is over.          *)
NextCalc ==
  /\ calc \in 1 .. Len(CalcTypes) /\ it > Len(trades)
  /\ calc' = calc + 1 /\ it' = 1
  /\ UNCHANGED <<trades, features, accumulators, before>>

Next ==
  \/ (\E trade \in Trade : PushBack(trade)) \/ PopFront \/ ResetFeatures
  \/ MaxTimeGapCalc \/ VolumeCalc \/ WeightedAvgPriceCalc
  \/ MaxPriceCalc \/ TradespersecCalc \/ TickImbalanceCalc \/ NextCalc

Spec == Init /\ [][Next]_vars

-----------------------------------------------------------------------------
(* Calculator c has run to its end on the present window.                  *)
Ran(c) == calc > Position(c)

(* The maximum gap is the largest distance between consecutive trades with *)
(* a time stamp, and 0 if there is none: an earlier computation's last     *)
(* time stamp is never measured against this window's first.               *)
Gaps == {trades[i].t - trades[i - 1].t : i \in {j \in 2 .. Len(trades) : trades[j - 1].t > 0}}

MaxGapExact ==
  Ran("MaxTimeGapCalc") =>
    /\ \A g \in Gaps : g <= features.maxGap
    /\ features.maxGap \in Gaps \cup {0}

(* The average price and the volume are computed by two calculators in two *)
(* loops: the weights of the one add up to the other.                      *)
WapWeighsVolume ==
  Ran("WeightedAvgPriceCalc") /\ trades # << >> =>
    features.weightedAvgPrice[2] = features.vol

(* Trades per second is never a division by zero, and it is negative only  *)
(* for a window whose trades are not in time order.                        *)
TpsSound ==
  Ran("TradespersecCalc") =>
    /\ features.tps[2] # 0
    /\ features.tps[2] < 0 => \E i, j \in 1 .. Len(trades) : i < j /\ trades[i].t > trades[j].t

Rises == {i \in 2 .. Len(trades) : trades[i].p > trades[i - 1].p}
Falls == {i \in 2 .. Len(trades) : trades[i].p < trades[i - 1].p}

(* A computation adds the price rises and falls of the window to the tick  *)
(* counts it found, as ints: each pair of neighbours is compared once.     *)
TickCountsAdd ==
  Ran("TickImbalanceCalc") =>
    /\ upticks = Int32(before[1] + Cardinality(Rises))
    /\ downticks = Int32(before[2] + Cardinality(Falls))

(* The tick counts are the upticks and downticks of the trades looped      *)
(* through, as Calc.hpp:85 says.                                           *)
TickCountsOfWindow ==
  Ran("TickImbalanceCalc") =>
    upticks = Cardinality(Rises) /\ downticks = Cardinality(Falls)
=============================================================================
