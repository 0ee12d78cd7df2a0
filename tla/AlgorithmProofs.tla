--------------------------- MODULE AlgorithmProofs ---------------------------
(***************************************************************************)
(* Theorems about Calc, for all trades, windows of any length and ints of  *)
(* any width, and about SequenceStorage, for any values, capacity of the   *)
(* object itself, chunks and lengths.                                      *)
(***************************************************************************)
EXTENDS Calc, SequenceStorage, FiniteSetTheorems, WellFoundedInduction, TLAPS

Ints == -(IntMax + 1) .. IntMax

Types ==
  /\ trades \in Seq(Trade)
  /\ features \in [maxGap : Int, vol : Nat, weightedAvgPrice : Nat \X Nat, maxPrice : Nat,
                   tps : Int \X Int, tickImbalance : Int \X Int]
  /\ prevTime \in Nat /\ numer \in Nat /\ denom \in Nat
  /\ upticks \in Ints /\ downticks \in Ints
  /\ calc \in 0 .. 7 /\ it \in Nat \ {0}
  /\ before \in Ints \X Ints
  /\ calc \in 1 .. 6 => it <= Len(trades) + 1

(* The loops, by their position in the tuple.                              *)
LEMMA Positions ==
  /\ Len(CalcTypes) = 6 /\ Done = 7
  /\ CalcTypes[1] = "MaxTimeGapCalc" /\ CalcTypes[2] = "VolumeCalc"
  /\ CalcTypes[3] = "WeightedAvgPriceCalc" /\ CalcTypes[4] = "MaxPriceCalc"
  /\ CalcTypes[5] = "TradespersecCalc" /\ CalcTypes[6] = "TickImbalanceCalc"
  /\ Position("MaxTimeGapCalc") = 1 /\ Position("WeightedAvgPriceCalc") = 3
  /\ Position("TradespersecCalc") = 5 /\ Position("TickImbalanceCalc") = 6
<1>1. /\ Len(CalcTypes) = 6
      /\ CalcTypes[1] = "MaxTimeGapCalc" /\ CalcTypes[2] = "VolumeCalc"
      /\ CalcTypes[3] = "WeightedAvgPriceCalc" /\ CalcTypes[4] = "MaxPriceCalc"
      /\ CalcTypes[5] = "TradespersecCalc" /\ CalcTypes[6] = "TickImbalanceCalc"
  BY DEF CalcTypes
<1>2. \A i \in 1 .. 6 : i = 1 \/ i = 2 \/ i = 3 \/ i = 4 \/ i = 5 \/ i = 6
  OBVIOUS
<1>3. Position("MaxTimeGapCalc") = 1
  BY <1>1, <1>2 DEF Position
<1>4. Position("WeightedAvgPriceCalc") = 3
  BY <1>1, <1>2 DEF Position
<1>5. Position("TradespersecCalc") = 5
  BY <1>1, <1>2 DEF Position
<1>6. Position("TickImbalanceCalc") = 6
  BY <1>1, <1>2 DEF Position
<1> QED BY <1>1, <1>3, <1>4, <1>5, <1>6 DEF Done

LEMMA WorkingOn ==
  ASSUME NEW c, Processing(c)
  PROVE  /\ calc \in 1 .. 6 /\ it' = it + 1 /\ it <= Len(trades)
         /\ trades' = trades /\ calc' = calc /\ before' = before
         /\ c = "MaxTimeGapCalc" => calc = 1
         /\ c = "VolumeCalc" => calc = 2
         /\ c = "WeightedAvgPriceCalc" => calc = 3
         /\ c = "MaxPriceCalc" => calc = 4
         /\ c = "TradespersecCalc" => calc = 5
         /\ c = "TickImbalanceCalc" => calc = 6
<1>1. calc \in 1 .. 6 /\ CalcTypes[calc] = c
  BY Positions DEF Processing
<1>2. calc = 1 \/ calc = 2 \/ calc = 3 \/ calc = 4 \/ calc = 5 \/ calc = 6
  BY <1>1
<1>3. /\ c = "MaxTimeGapCalc" => calc = 1
      /\ c = "VolumeCalc" => calc = 2
      /\ c = "WeightedAvgPriceCalc" => calc = 3
  BY <1>1, <1>2, Positions
<1>4. /\ c = "MaxPriceCalc" => calc = 4
      /\ c = "TradespersecCalc" => calc = 5
      /\ c = "TickImbalanceCalc" => calc = 6
  BY <1>1, <1>2, Positions
<1> QED BY <1>1, <1>3, <1>4 DEF Processing

-----------------------------------------------------------------------------
(* Ints: what overflows comes back at the other end.                       *)
LEMMA IntType == ASSUME NEW n \in Int PROVE Int32(n) \in Ints
BY BoundsOK DEF Int32, Ints

LEMMA IntKept == ASSUME NEW n \in Ints PROVE Int32(n) = n
BY BoundsOK DEF Int32, Ints

LEMMA IntSuccessor == ASSUME NEW n \in Int PROVE Int32(Int32(n) + 1) = Int32(n + 1)
BY BoundsOK DEF Int32

-----------------------------------------------------------------------------
LEMMA TypesStep == Types /\ [Next]_vars => Types'
<1> SUFFICES ASSUME Types, [Next]_vars PROVE Types'
  OBVIOUS
<1> USE TradeOK DEF accumulators
<1>1. CASE \E trade \in Trade : PushBack(trade)
  <2>1. PICK trade \in Trade : PushBack(trade)
    BY <1>1
  <2>2. trades' \in Seq(Trade)
    BY <2>1 DEF PushBack, Types
  <2> QED BY <2>1, <2>2 DEF PushBack, Idle, Types
<1>2. CASE PopFront
  <2>1. trades' \in Seq(Trade)
    BY <1>2 DEF PopFront, Types
  <2> QED BY <1>2, <2>1 DEF PopFront, Idle, Types
<1>3. CASE ResetFeatures
  <2>1. features' \in [maxGap : Int, vol : Nat, weightedAvgPrice : Nat \X Nat, maxPrice : Nat,
                       tps : Int \X Int, tickImbalance : Int \X Int]
    BY <1>3 DEF ResetFeatures, Cleared, NoFeatures, Zero
  <2>2. Len(trades) \in Nat
    BY DEF Types
  <2> QED BY <1>3, <2>1, <2>2 DEF ResetFeatures, ResetGap, ResetWap, Types
<1>4. ASSUME NEW c, Processing(c)
      PROVE  /\ trades' \in Seq(Trade) /\ calc' \in 0 .. 7 /\ it' \in Nat \ {0}
             /\ before' \in Ints \X Ints /\ it' <= Len(trades') + 1
             /\ it \in 1 .. Len(trades)
             /\ Entry.t \in Nat /\ Entry.p \in Nat /\ Entry.v \in Nat
  <2>1. it \in 1 .. Len(trades) /\ it' = it + 1 /\ UNCHANGED <<trades, calc, before>>
    BY <1>4, WorkingOn DEF Types
  <2>2. trades[it] \in Trade
    BY <2>1 DEF Types
  <2>3. Entry \in [t : Nat, p : Nat, v : Nat]
    BY <2>2 DEF Entry
  <2> QED BY <2>1, <2>3 DEF Types
<1>5. CASE MaxTimeGapCalc
  <2>1. Processing("MaxTimeGapCalc")
    BY <1>5 DEF MaxTimeGapCalc
  <2>2. Entry.t \in Nat /\ prevTime \in Nat
    BY <1>4, <2>1 DEF Types
  <2>3. Entry.t - prevTime \in Int
    BY <2>2
  <2>4. \/ features' = features
        \/ features' = [features EXCEPT !.maxGap = Entry.t - prevTime]
    BY <1>5 DEF MaxTimeGapCalc
  <2>5. prevTime' \in Nat /\ UNCHANGED <<numer, denom, upticks, downticks>>
    BY <1>5, <2>2 DEF MaxTimeGapCalc
  <2> QED BY <1>4, <2>1, <2>3, <2>4, <2>5 DEF Types
<1>6. CASE VolumeCalc
  <2>1. Processing("VolumeCalc")
    BY <1>6 DEF VolumeCalc
  <2>2. Entry.v \in Nat /\ features.vol \in Nat
    BY <1>4, <2>1 DEF Types
  <2>3. features.vol + Entry.v \in Nat
    BY <2>2
  <2>4. features' = [features EXCEPT !.vol = features.vol + Entry.v]
        /\ UNCHANGED <<prevTime, numer, denom, upticks, downticks>>
    BY <1>6 DEF VolumeCalc, Types
  <2> QED BY <1>4, <2>1, <2>3, <2>4 DEF Types
<1>7. CASE WeightedAvgPriceCalc
  <2>1. Processing("WeightedAvgPriceCalc")
    BY <1>7 DEF WeightedAvgPriceCalc
  <2>2. Entry.v \in Nat /\ Entry.p \in Nat /\ numer \in Nat /\ denom \in Nat
    BY <1>4, <2>1 DEF Types
  <2>a. \A a, b, c \in Nat : c + a * b \in Nat /\ c + a \in Nat
    OBVIOUS
  <2>b. numer + Entry.v * Entry.p \in Nat /\ denom + Entry.v \in Nat
    BY <2>2, <2>a
  <2>3. numer' \in Nat /\ denom' \in Nat
    BY <1>7, <2>b DEF WeightedAvgPriceCalc
  <2>4. features' = [features EXCEPT !.weightedAvgPrice = <<numer', denom'>>]
        /\ UNCHANGED <<prevTime, upticks, downticks>>
    BY <1>7 DEF WeightedAvgPriceCalc
  <2> HIDE DEF WeightedAvgPriceCalc
  <2> QED BY <1>4, <2>1, <2>3, <2>4 DEF Types
<1>8. CASE MaxPriceCalc
  <2>1. Processing("MaxPriceCalc")
    BY <1>8 DEF MaxPriceCalc
  <2> QED BY <1>4, <1>8, <2>1 DEF MaxPriceCalc, Types
<1>9. CASE TradespersecCalc
  <2>1. Processing("TradespersecCalc")
    BY <1>9 DEF TradespersecCalc
  <2>a. trades \in Seq(Trade) /\ Len(trades) \in Nat /\ 1 \in 1 .. Len(trades)
        /\ Len(trades) \in 1 .. Len(trades)
    <3>1. trades \in Seq(Trade) /\ it \in 1 .. Len(trades)
      BY <1>4, <2>1 DEF Types
    <3>2. Len(trades) \in Nat
      BY <3>1
    <3> QED BY <3>1, <3>2
  <2>2. trades[1] \in Trade /\ trades[Len(trades)] \in Trade /\ Len(trades) \in Nat
    BY <2>a
  <2>3. trades[Len(trades)].t - trades[1].t \in Int
    BY <2>2
  <2>4. TradesPerSecond(Len(trades), trades[Len(trades)].t - trades[1].t) \in Int \X Int
    BY <2>2, <2>3 DEF TradesPerSecond, Zero
  <2> QED BY <1>4, <1>9, <2>1, <2>4 DEF TradespersecCalc, Types
<1>10. CASE TickImbalanceCalc
  <2>1. Processing("TickImbalanceCalc")
    BY <1>10 DEF TickImbalanceCalc
  <2>a. upticks + 1 \in Int /\ downticks + 1 \in Int
    BY BoundsOK DEF Types, Ints
  <2>b. \A n \in Ints : n \in Int
    BY BoundsOK DEF Ints
  <2>2. /\ Int32(upticks + 1) \in Ints /\ Int32(downticks + 1) \in Ints
        /\ \A n \in Int : Int32(n) \in Int
    BY <2>a, <2>b, IntType
  <2>3. upticks' \in Ints /\ downticks' \in Ints
    BY <1>10, <2>2 DEF TickImbalanceCalc, Types
  <2>4. Int32(upticks' - downticks') \in Int /\ Int32(upticks' + downticks') \in Int
    BY <2>2, <2>3, BoundsOK DEF Ints
  <2>5. \/ features' = features
        \/ \E p \in Int \X Int : features' = [features EXCEPT !.tickImbalance = p]
    <3>1. CASE it = 1
      BY <1>10, <3>1 DEF TickImbalanceCalc
    <3>2. CASE it # 1
      <4>1. features' = [features EXCEPT !.tickImbalance =
              IF Int32(upticks' + downticks') > 0
                THEN <<Int32(upticks' - downticks'), Int32(upticks' + downticks')>> ELSE Zero]
        BY <1>10, <3>2 DEF TickImbalanceCalc
      <4>2. CASE Int32(upticks' + downticks') > 0
        <5>1. <<Int32(upticks' - downticks'), Int32(upticks' + downticks')>> \in Int \X Int
          BY <2>4
        <5> QED BY <4>1, <4>2, <5>1
      <4>3. CASE ~(Int32(upticks' + downticks') > 0)
        <5>1. Zero \in Int \X Int
          BY DEF Zero
        <5> QED BY <4>1, <4>3, <5>1
      <4> QED BY <4>2, <4>3
    <3> QED BY <3>1, <3>2
  <2>6. features' \in [maxGap : Int, vol : Nat, weightedAvgPrice : Nat \X Nat, maxPrice : Nat,
                       tps : Int \X Int, tickImbalance : Int \X Int]
    BY <2>5 DEF Types
  <2>7. UNCHANGED <<prevTime, numer, denom>>
    BY <1>10 DEF TickImbalanceCalc
  <2> QED BY <1>4, <2>1, <2>3, <2>6, <2>7 DEF Types
<1>11. CASE NextCalc
  <2>1. Len(trades) \in Nat
    BY DEF Types
  <2> QED BY <1>11, <2>1, Positions DEF NextCalc, Types
<1>12. CASE UNCHANGED vars
  BY <1>12 DEF vars, Types
<1> QED
  BY <1>1, <1>2, <1>3, <1>5, <1>6, <1>7, <1>8, <1>9, <1>10, <1>11, <1>12 DEF Next

LEMMA TypesHold == Spec => []Types
<1>1. Init => Types
  BY BoundsOK DEF Init, Types, NoFeatures, Zero, Ints
<1> QED BY <1>1, TypesStep, PTL DEF Spec

-----------------------------------------------------------------------------
(* The inductive invariants: what a loop has made of the first k trades.   *)
GapsTo(k) == {trades[i].t - trades[i - 1].t : i \in {j \in 2 .. k : trades[j - 1].t > 0}}
WidestOf(gaps) == (\A g \in gaps : g <= features.maxGap) /\ features.maxGap \in gaps \cup {0}

GapInv ==
  /\ calc = 1 =>
       /\ prevTime = IF it = 1 THEN 0 ELSE trades[it - 1].t
       /\ WidestOf(GapsTo(it - 1))
  /\ calc > 1 => WidestOf(GapsTo(Len(trades)))

(* S[i] is the volume of the first i trades.                               *)
Sums(S, k) ==
  S \in [0 .. k -> Nat] /\ S[0] = 0 /\ \A i \in 1 .. k : S[i] = S[i - 1] + trades[i].v

VolumeInv ==
  /\ calc \in {1, 2} => denom = 0
  /\ calc = 1 => features.vol = 0
  /\ calc = 2 => \E S : Sums(S, it - 1) /\ features.vol = S[it - 1]
  /\ calc = 3 => \E S : /\ Sums(S, Len(trades))
                        /\ features.vol = S[Len(trades)] /\ denom = S[it - 1]
                        /\ it > 1 => features.weightedAvgPrice[2] = denom
  /\ calc > 3 /\ trades # << >> => features.weightedAvgPrice[2] = features.vol

TpsInv ==
  calc > 0 =>
    /\ features.tps[2] # 0
    /\ features.tps[2] < 0 => \E i, j \in 1 .. Len(trades) : i < j /\ trades[i].t > trades[j].t

RisesTo(k) == {i \in 2 .. k : trades[i].p > trades[i - 1].p}
FallsTo(k) == {i \in 2 .. k : trades[i].p < trades[i - 1].p}
TicksAre(k) == /\ upticks = Int32(before[1] + Cardinality(RisesTo(k)))
               /\ downticks = Int32(before[2] + Cardinality(FallsTo(k)))

TickInv ==
  /\ calc \in 1 .. 5 => upticks = before[1] /\ downticks = before[2]
  /\ calc = 6 => TicksAre(it - 1)
  /\ calc = 7 => TicksAre(Len(trades))

-----------------------------------------------------------------------------
(* What a calculator finds in its loop, and what the other steps leave.    *)
LEMMA Looping ==
  ASSUME Types, NEW c, Processing(c)
  PROVE  /\ it \in 1 .. Len(trades) /\ Len(trades) \in Nat /\ Entry = trades[it]
         /\ Entry.t \in Nat /\ Entry.p \in Nat /\ Entry.v \in Nat
         /\ it > 1 => trades[it - 1].t \in Nat /\ trades[it - 1].p \in Nat
<1>1. it \in 1 .. Len(trades) /\ Len(trades) \in Nat /\ trades \in Seq(Trade)
  BY WorkingOn DEF Types
<1>2. trades[it] \in Trade /\ (it > 1 => trades[it - 1] \in Trade)
  BY <1>1
<1>3. \A trade \in Trade : trade.t \in Nat /\ trade.p \in Nat /\ trade.v \in Nat
  BY TradeOK
<1> QED BY <1>1, <1>2, <1>3 DEF Entry

LEMMA Emptied ==
  ASSUME (\E trade \in Trade : PushBack(trade)) \/ PopFront
  PROVE  calc' = 0
BY DEF PushBack, PopFront, Idle

LEMMA NextLoop ==
  ASSUME Types, NextCalc
  PROVE  /\ calc \in 1 .. 6 /\ it - 1 = Len(trades) /\ Len(trades) \in Nat
         /\ calc' = calc + 1 /\ it' = 1
         /\ UNCHANGED <<trades, features, prevTime, numer, denom, upticks, downticks, before>>
<1>1. Len(trades) \in Nat /\ calc \in 1 .. 6
  BY Positions DEF Types, NextCalc
<1> QED BY <1>1 DEF Types, NextCalc, accumulators

LEMMA ResetAll ==
  ASSUME ResetFeatures
  PROVE  /\ calc' = 1 /\ it' = 1 /\ trades' = trades
         /\ features'.maxGap = 0 /\ features'.vol = 0 /\ features'.tps = <<0, 1>>
         /\ prevTime' = 0 /\ denom' = 0
         /\ before' = <<upticks, downticks>> /\ UNCHANGED <<upticks, downticks>>
BY DEF ResetFeatures, ResetGap, ResetWap, Cleared, NoFeatures, Zero

-----------------------------------------------------------------------------
LEMMA GapsGrow ==
  ASSUME NEW k \in Nat, k >= 2
  PROVE  GapsTo(k) = GapsTo(k - 1) \cup
           (IF trades[k - 1].t > 0 THEN {trades[k].t - trades[k - 1].t} ELSE {})
<1>1. \A j : j \in 2 .. k <=> j \in 2 .. (k - 1) \/ j = k
  OBVIOUS
<1>2. ASSUME NEW g \in GapsTo(k)
      PROVE  g \in GapsTo(k - 1) \/ (trades[k - 1].t > 0 /\ g = trades[k].t - trades[k - 1].t)
  <2>1. PICK i \in 2 .. k : trades[i - 1].t > 0 /\ g = trades[i].t - trades[i - 1].t
    BY DEF GapsTo
  <2> QED BY <1>1, <2>1 DEF GapsTo
<1>3. \A g \in GapsTo(k - 1) : g \in GapsTo(k)
  BY <1>1 DEF GapsTo
<1>4. trades[k - 1].t > 0 => trades[k].t - trades[k - 1].t \in GapsTo(k)
  BY <1>1 DEF GapsTo
<1> QED BY <1>2, <1>3, <1>4

LEMMA NoGaps == GapsTo(0) = {} /\ GapsTo(1) = {}
BY DEF GapsTo

LEMMA GapStep == Types /\ GapInv /\ [Next]_vars => GapInv'
<1> SUFFICES ASSUME Types, GapInv, [Next]_vars PROVE GapInv'
  OBVIOUS
<1>1. CASE (\E trade \in Trade : PushBack(trade)) \/ PopFront
  BY <1>1, Emptied DEF GapInv
<1>2. CASE ResetFeatures
  <2>1. GapsTo(it - 1)' = {}
    BY <1>2, ResetAll DEF GapsTo
  <2> QED BY <1>2, <2>1, ResetAll DEF GapInv, WidestOf
<1>3. CASE MaxTimeGapCalc
  <2>1. Processing("MaxTimeGapCalc")
    BY <1>3 DEF MaxTimeGapCalc
  <2>2. calc = 1 /\ calc' = 1 /\ it' = it + 1 /\ trades' = trades /\ it \in Nat \ {0}
    BY <2>1, WorkingOn DEF Types
  <2>3. prevTime' = Entry.t /\ Entry = trades[it] /\ Entry.t \in Nat
    BY <1>3, <2>1, Looping DEF MaxTimeGapCalc
  <2>4. GapsTo(it - 1)' = GapsTo(it)
    BY <2>2 DEF GapsTo
  <2>5. prevTime = (IF it = 1 THEN 0 ELSE trades[it - 1].t) /\ WidestOf(GapsTo(it - 1))
    BY <2>2 DEF GapInv
  <2>6. features.maxGap \in Int /\ features'.maxGap \in Int
    BY TypesStep DEF Types
  <2>7. features'.maxGap = IF Wider(Entry.t - prevTime) THEN Entry.t - prevTime ELSE features.maxGap
    BY <1>3 DEF MaxTimeGapCalc, Types
  <2>8. (\A g \in GapsTo(it) : g <= features'.maxGap) /\ features'.maxGap \in GapsTo(it) \cup {0}
    <3>1. CASE it = 1
      BY <2>5, <2>7, <3>1, NoGaps DEF Wider, WidestOf
    <3>2. CASE it > 1
      <4>1. prevTime = trades[it - 1].t /\ prevTime \in Nat
        BY <2>5, <3>2 DEF Types
      <4>2. GapsTo(it) = GapsTo(it - 1) \cup (IF prevTime > 0 THEN {Entry.t - prevTime} ELSE {})
        BY <2>2, <2>3, <3>2, <4>1, GapsGrow
      <4>3. Entry.t - prevTime \in Int /\ \A g \in GapsTo(it - 1) : g <= features.maxGap
        BY <2>3, <2>5, <4>1 DEF WidestOf
      <4>4. CASE prevTime > 0 /\ Entry.t - prevTime > features.maxGap
        <5>1. features'.maxGap = Entry.t - prevTime
          BY <2>7, <4>4 DEF Wider
        <5>2. \A g \in GapsTo(it - 1) : g \in Int
          <6>1. \A i \in 2 .. it - 1 : trades[i].t \in Int /\ trades[i - 1].t \in Int
            <7>1. trades \in Seq(Trade) /\ Len(trades) \in Nat /\ it \in 1 .. Len(trades)
              BY <2>1, Looping DEF Types
            <7>2. \A i \in 2 .. it - 1 : trades[i] \in Trade /\ trades[i - 1] \in Trade
              BY <7>1
            <7>3. \A trade \in Trade : trade.t \in Int
              BY TradeOK
            <7> QED BY <7>2, <7>3
          <6> QED BY <6>1 DEF GapsTo
        <5> QED BY <2>6, <4>2, <4>3, <4>4, <5>1, <5>2
      <4>5. CASE ~(prevTime > 0 /\ Entry.t - prevTime > features.maxGap)
        <5>1. features'.maxGap = features.maxGap
          BY <2>7, <4>5 DEF Wider
        <5> QED BY <2>5, <2>6, <4>2, <4>3, <4>5, <5>1 DEF WidestOf
      <4> QED BY <4>4, <4>5
    <3> QED BY <2>2, <3>1, <3>2
  <2> QED BY <2>2, <2>3, <2>4, <2>8 DEF GapInv, WidestOf
<1>4. ASSUME NEW c, Processing(c), c # "MaxTimeGapCalc",
             features'.maxGap = features.maxGap
      PROVE  GapInv'
  <2>1. calc \in 1 .. 6 /\ calc # 1 /\ trades' = trades /\ calc' = calc
    BY <1>4, WorkingOn, Positions DEF Processing
  <2> QED BY <1>4, <2>1 DEF GapInv, WidestOf, GapsTo
<1>5. CASE VolumeCalc
  BY <1>4, <1>5 DEF VolumeCalc, Types
<1>6. CASE WeightedAvgPriceCalc
  BY <1>4, <1>6 DEF WeightedAvgPriceCalc, Types
<1>7. CASE MaxPriceCalc
  BY <1>4, <1>7 DEF MaxPriceCalc, Types
<1>8. CASE TradespersecCalc
  BY <1>4, <1>8 DEF TradespersecCalc, Types
<1>9. CASE TickImbalanceCalc
  BY <1>4, <1>9 DEF TickImbalanceCalc, Types
<1>10. CASE NextCalc
  BY <1>10, NextLoop DEF GapInv, WidestOf, GapsTo
<1>11. CASE UNCHANGED vars
  BY <1>11 DEF vars, accumulators, GapInv, WidestOf, GapsTo
<1> QED
  BY <1>1, <1>2, <1>3, <1>5, <1>6, <1>7, <1>8, <1>9, <1>10, <1>11 DEF Next

(* MaxGapExact: the maximum gap of a window is the largest distance        *)
(* between neighbours with a time stamp, for every window and whatever     *)
(* computations came before (MaxTimeGapCalc, resetFeatures).               *)
THEOREM GapsExact == Spec => []MaxGapExact
<1>1. Init => GapInv
  BY DEF Init, GapInv
<1>2. Types /\ GapInv => MaxGapExact
  BY Positions DEF Types, GapInv, WidestOf, GapsTo, MaxGapExact, Ran, Gaps
<1> QED BY <1>1, <1>2, GapStep, TypesHold, PTL DEF Spec

-----------------------------------------------------------------------------
LEMMA SumsGrow ==
  ASSUME NEW k \in Nat, NEW S, Sums(S, k), trades[k + 1].v \in Nat
  PROVE  \E T : Sums(T, k + 1) /\ T[k + 1] = S[k] + trades[k + 1].v
<1> DEFINE T == [i \in 0 .. k + 1 |-> IF i = k + 1 THEN S[k] + trades[k + 1].v ELSE S[i]]
<1>1. S \in [0 .. k -> Nat] /\ S[k] \in Nat
  BY DEF Sums
<1>2. T \in [0 .. k + 1 -> Nat]
  BY <1>1
<1>3. \A i \in 0 .. k : T[i] = S[i]
  OBVIOUS
<1>4. T[0] = 0 /\ T[k + 1] = S[k] + trades[k + 1].v
  BY <1>3 DEF Sums
<1>5. \A i \in 1 .. k + 1 : T[i] = T[i - 1] + trades[i].v
  <2>1. ASSUME NEW i \in 1 .. k PROVE T[i] = T[i - 1] + trades[i].v
    <3>1. i \in 0 .. k /\ i - 1 \in 0 .. k /\ S[i] = S[i - 1] + trades[i].v
      BY DEF Sums
    <3>2. T[i] = S[i] /\ T[i - 1] = S[i - 1]
      BY <1>3, <3>1
    <3> QED BY <3>1, <3>2
  <2>2. T[k + 1] = T[k] + trades[k + 1].v
    BY <1>3, <1>4
  <2>3. \A i \in 1 .. k + 1 : i \in 1 .. k \/ i = k + 1
    OBVIOUS
  <2> HIDE DEF T
  <2>4. (k + 1) - 1 = k
    OBVIOUS
  <2> QED BY <2>1, <2>2, <2>3, <2>4
<1> QED BY <1>2, <1>4, <1>5 DEF Sums

LEMMA NoSum == \E S : Sums(S, 0) /\ S[0] = 0
<1> DEFINE S == [i \in 0 .. 0 |-> 0]
<1>1. Sums(S, 0) /\ S[0] = 0
  BY DEF Sums
<1> QED BY <1>1

LEMMA VolumeStep == Types /\ VolumeInv /\ [Next]_vars => VolumeInv'
<1> SUFFICES ASSUME Types, VolumeInv, [Next]_vars PROVE VolumeInv'
  OBVIOUS
<1>1. CASE (\E trade \in Trade : PushBack(trade)) \/ PopFront
  BY <1>1, Emptied DEF VolumeInv
<1>2. CASE ResetFeatures
  BY <1>2, ResetAll DEF VolumeInv
<1>3. CASE VolumeCalc
  <2>1. Processing("VolumeCalc")
    BY <1>3 DEF VolumeCalc
  <2>2. calc = 2 /\ calc' = 2 /\ it' = it + 1 /\ trades' = trades /\ it \in Nat \ {0}
    BY <2>1, WorkingOn DEF Types
  <2>3. Entry = trades[it] /\ Entry.v \in Nat
    BY <2>1, Looping
  <2>4. features'.vol = features.vol + Entry.v /\ denom' = denom
    BY <1>3 DEF VolumeCalc, Types, accumulators
  <2>5. PICK S : Sums(S, it - 1) /\ features.vol = S[it - 1]
    BY <2>2 DEF VolumeInv
  <2>6. it - 1 \in Nat /\ (it - 1) + 1 = it /\ it' - 1 = it
    BY <2>2
  <2>7. \E T : Sums(T, it) /\ T[it] = S[it - 1] + trades[it].v
    BY <2>3, <2>5, <2>6, SumsGrow
  <2>8. PICK T : Sums(T, it) /\ T[it] = S[it - 1] + trades[it].v
    BY <2>7
  <2>9. Sums(T, it - 1)' /\ features'.vol = T[it' - 1]
    BY <2>2, <2>3, <2>4, <2>5, <2>6, <2>8 DEF Sums
  <2> QED BY <2>2, <2>4, <2>9 DEF VolumeInv
<1>4. CASE WeightedAvgPriceCalc
  <2>1. Processing("WeightedAvgPriceCalc")
    BY <1>4 DEF WeightedAvgPriceCalc
  <2>2. calc = 3 /\ calc' = 3 /\ it' = it + 1 /\ trades' = trades /\ it \in Nat \ {0}
    BY <2>1, WorkingOn DEF Types
  <2>3. Entry = trades[it] /\ Entry.v \in Nat /\ it \in 1 .. Len(trades) /\ Len(trades) \in Nat
    BY <2>1, Looping
  <2>4. denom' = denom + Entry.v /\ features'.vol = features.vol
        /\ features'.weightedAvgPrice[2] = denom'
    BY <1>4 DEF WeightedAvgPriceCalc, Types
  <2>5. PICK S : /\ Sums(S, Len(trades))
                 /\ features.vol = S[Len(trades)] /\ denom = S[it - 1]
    BY <2>2 DEF VolumeInv
  <2>6. S[it] = S[it - 1] + trades[it].v
    BY <2>3, <2>5 DEF Sums
  <2>7. it' - 1 = it
    BY <2>2
  <2>8. Sums(S, Len(trades))' /\ features'.vol = S[Len(trades')] /\ denom' = S[it' - 1]
    BY <2>2, <2>3, <2>4, <2>5, <2>6, <2>7 DEF Sums
  <2> QED BY <2>2, <2>4, <2>8 DEF VolumeInv
<1>5. ASSUME NEW c, Processing(c), c # "VolumeCalc", c # "WeightedAvgPriceCalc",
             features'.vol = features.vol, denom' = denom,
             features'.weightedAvgPrice = features.weightedAvgPrice
      PROVE  VolumeInv'
  <2>1. calc \in 1 .. 6 /\ calc # 2 /\ calc # 3 /\ trades' = trades /\ calc' = calc
    BY <1>5, WorkingOn, Positions DEF Processing
  <2> QED BY <1>5, <2>1 DEF VolumeInv
<1>6. CASE MaxTimeGapCalc
  BY <1>5, <1>6 DEF MaxTimeGapCalc, Types
<1>7. CASE MaxPriceCalc
  BY <1>5, <1>7 DEF MaxPriceCalc, Types, accumulators
<1>8. CASE TradespersecCalc
  BY <1>5, <1>8 DEF TradespersecCalc, Types, accumulators
<1>9. CASE TickImbalanceCalc
  BY <1>5, <1>9 DEF TickImbalanceCalc, Types
<1>10. CASE NextCalc
  <2>1. /\ calc \in 1 .. 6 /\ it - 1 = Len(trades) /\ Len(trades) \in Nat
        /\ calc' = calc + 1 /\ it' = 1 /\ it' - 1 = 0
        /\ UNCHANGED <<trades, features, denom>>
    BY <1>10, NextLoop
  <2>2. CASE calc = 1
    BY <2>1, <2>2, NoSum DEF VolumeInv, Sums
  <2>3. CASE calc = 2
    <3>1. PICK S : Sums(S, Len(trades)) /\ features.vol = S[Len(trades)] /\ denom = 0
      BY <2>1, <2>3 DEF VolumeInv
    <3>2. S[it' - 1] = 0 /\ Sums(S, Len(trades))'
      BY <2>1, <3>1 DEF Sums
    <3> QED BY <2>1, <2>3, <3>1, <3>2 DEF VolumeInv
  <2>4. CASE calc = 3
    <3>1. PICK S : /\ Sums(S, Len(trades))
                   /\ features.vol = S[Len(trades)] /\ denom = S[it - 1]
                   /\ it > 1 => features.weightedAvgPrice[2] = denom
      BY <2>4 DEF VolumeInv
    <3>2. trades # << >> => it > 1
      <4>1. trades \in Seq(Trade) /\ it \in Nat
        BY DEF Types
      <4>2. trades # << >> => Len(trades) > 0
        BY <4>1
      <4> QED BY <2>1, <4>1, <4>2
    <3> QED BY <2>1, <2>4, <3>1, <3>2 DEF VolumeInv
  <2>5. CASE calc > 3
    BY <2>1, <2>5 DEF VolumeInv
  <2> QED BY <2>1, <2>2, <2>3, <2>4, <2>5
<1>11. CASE UNCHANGED vars
  BY <1>11 DEF vars, accumulators, VolumeInv, Sums
<1> QED
  BY <1>1, <1>2, <1>3, <1>4, <1>6, <1>7, <1>8, <1>9, <1>10, <1>11 DEF Next

(* WapWeighsVolume: the volume and the weights of the average price, added *)
(* up in two loops over the window, are the same number (VolumeCalc,       *)
(* WeightedAvgPriceCalc).                                                  *)
THEOREM WeightsAreVolume == Spec => []WapWeighsVolume
<1>1. Init => VolumeInv
  BY DEF Init, VolumeInv
<1>2. Types /\ VolumeInv => WapWeighsVolume
  BY Positions DEF Types, VolumeInv, WapWeighsVolume, Ran
<1> QED BY <1>1, <1>2, VolumeStep, TypesHold, PTL DEF Spec

-----------------------------------------------------------------------------
LEMMA TpsStep == Types /\ TpsInv /\ [Next]_vars => TpsInv'
<1> SUFFICES ASSUME Types, TpsInv, [Next]_vars PROVE TpsInv'
  OBVIOUS
<1>1. CASE (\E trade \in Trade : PushBack(trade)) \/ PopFront
  BY <1>1, Emptied DEF TpsInv
<1>2. CASE ResetFeatures
  BY <1>2, ResetAll DEF TpsInv
<1>3. CASE TradespersecCalc
  <2>1. Processing("TradespersecCalc")
    BY <1>3 DEF TradespersecCalc
  <2>2. trades' = trades /\ Len(trades) \in Nat /\ it \in 1 .. Len(trades)
    BY <2>1, WorkingOn, Looping
  <2> DEFINE n == Len(trades)
             duration == trades[n].t - trades[1].t
  <2>3. trades[n].t \in Nat /\ trades[1].t \in Nat
    <3>1. trades \in Seq(Trade) /\ n \in 1 .. n /\ 1 \in 1 .. n
      BY <2>2 DEF Types
    <3>2. trades[n] \in Trade /\ trades[1] \in Trade
      BY <3>1
    <3> QED BY <3>2, TradeOK
  <2>4. features'.tps = TradesPerSecond(n, duration)
    BY <1>3 DEF TradespersecCalc, Types
  <2>5. CASE n = 1 \/ duration = 0
    BY <2>4, <2>5 DEF TradesPerSecond, Zero, TpsInv
  <2>6. CASE n # 1 /\ duration # 0
    <3>1. features'.tps[2] = duration
      BY <2>4, <2>6 DEF TradesPerSecond
    <3>2. 1 \in 1 .. n /\ n \in 1 .. n /\ 1 < n
      <4>1. n \in Nat /\ n >= 1 /\ n # 1
        BY <2>2, <2>6
      <4> QED BY <4>1
    <3>3. duration < 0 => trades[1].t > trades[n].t
      BY <2>3
    <3> QED BY <2>2, <2>6, <3>1, <3>2, <3>3 DEF TpsInv
  <2> QED BY <2>5, <2>6
<1>4. ASSUME UNCHANGED trades, features'.tps = features.tps, calc > 0
      PROVE  TpsInv'
  BY <1>4 DEF TpsInv
<1>5. \A c : Processing(c) => calc > 0 /\ UNCHANGED trades
  BY WorkingOn
<1>6. CASE MaxTimeGapCalc
  BY <1>4, <1>5, <1>6 DEF MaxTimeGapCalc, Types
<1>7. CASE VolumeCalc
  BY <1>4, <1>5, <1>7 DEF VolumeCalc, Types
<1>8. CASE WeightedAvgPriceCalc
  BY <1>4, <1>5, <1>8 DEF WeightedAvgPriceCalc, Types
<1>9. CASE MaxPriceCalc
  BY <1>4, <1>5, <1>9 DEF MaxPriceCalc, Types
<1>10. CASE TickImbalanceCalc
  BY <1>4, <1>5, <1>10 DEF TickImbalanceCalc, Types
<1>11. CASE NextCalc
  BY <1>4, <1>11, NextLoop
<1>12. CASE UNCHANGED vars
  BY <1>12 DEF vars, TpsInv
<1> QED
  BY <1>1, <1>2, <1>3, <1>6, <1>7, <1>8, <1>9, <1>10, <1>11, <1>12 DEF Next

(* TpsSound: no window makes Tradespersec divide by zero, and only one     *)
(* whose trades are out of time order gives a negative rate.               *)
THEOREM RateIsSound == Spec => []TpsSound
<1>1. Init => TpsInv
  BY DEF Init, TpsInv
<1>2. Types /\ TpsInv => TpsSound
  BY Positions DEF Types, TpsInv, TpsSound, Ran
<1> QED BY <1>1, <1>2, TpsStep, TypesHold, PTL DEF Spec

-----------------------------------------------------------------------------
(* One more position of an interval is in the set or not.                  *)
LEMMA OneMore ==
  ASSUME NEW k \in Nat, k >= 2, NEW S, NEW T,
         S \subseteq 2 .. (k - 1), T \subseteq 2 .. k, T \ {k} = S
  PROVE  /\ Cardinality(S) \in Nat
         /\ Cardinality(T) = IF k \in T THEN Cardinality(S) + 1 ELSE Cardinality(S)
<1>1. IsFiniteSet(2 .. (k - 1))
  BY FS_Interval
<1>2. IsFiniteSet(S) /\ Cardinality(S) \in Nat
  BY <1>1, FS_Subset, FS_CardinalityType
<1>3. k \notin S
  OBVIOUS
<1>4. CASE k \in T
  <2>1. T = S \cup {k}
    BY <1>4
  <2> QED BY <1>2, <1>3, <1>4, <2>1, FS_AddElement
<1>5. CASE k \notin T
  <2>1. T = S
    BY <1>5
  <2> QED BY <1>2, <1>5, <2>1
<1> QED BY <1>4, <1>5

LEMMA CountsGrow ==
  ASSUME NEW k \in Nat, k >= 2
  PROVE  /\ Cardinality(RisesTo(k - 1)) \in Nat /\ Cardinality(FallsTo(k - 1)) \in Nat
         /\ Cardinality(RisesTo(k)) = IF trades[k].p > trades[k - 1].p
              THEN Cardinality(RisesTo(k - 1)) + 1 ELSE Cardinality(RisesTo(k - 1))
         /\ Cardinality(FallsTo(k)) = IF trades[k].p < trades[k - 1].p
              THEN Cardinality(FallsTo(k - 1)) + 1 ELSE Cardinality(FallsTo(k - 1))
<1>1. \A i : i \in 2 .. (k - 1) <=> i \in 2 .. k /\ i # k
  OBVIOUS
<1>2. /\ RisesTo(k - 1) \subseteq 2 .. (k - 1) /\ RisesTo(k) \subseteq 2 .. k
      /\ FallsTo(k - 1) \subseteq 2 .. (k - 1) /\ FallsTo(k) \subseteq 2 .. k
  BY DEF RisesTo, FallsTo
<1>3. RisesTo(k) \ {k} = RisesTo(k - 1) /\ FallsTo(k) \ {k} = FallsTo(k - 1)
  BY <1>1 DEF RisesTo, FallsTo
<1>4. k \in 2 .. k
  OBVIOUS
<1>5. /\ k \in RisesTo(k) <=> trades[k].p > trades[k - 1].p
      /\ k \in FallsTo(k) <=> trades[k].p < trades[k - 1].p
  BY <1>4 DEF RisesTo, FallsTo
<1>6. /\ Cardinality(RisesTo(k - 1)) \in Nat
      /\ Cardinality(RisesTo(k)) = IF k \in RisesTo(k)
           THEN Cardinality(RisesTo(k - 1)) + 1 ELSE Cardinality(RisesTo(k - 1))
  BY <1>2, <1>3, OneMore
<1>7. /\ Cardinality(FallsTo(k - 1)) \in Nat
      /\ Cardinality(FallsTo(k)) = IF k \in FallsTo(k)
           THEN Cardinality(FallsTo(k - 1)) + 1 ELSE Cardinality(FallsTo(k - 1))
  BY <1>2, <1>3, OneMore
<1> QED BY <1>5, <1>6, <1>7

LEMMA NoCounts ==
  /\ Cardinality(RisesTo(0)) = 0 /\ Cardinality(FallsTo(0)) = 0
  /\ Cardinality(RisesTo(1)) = 0 /\ Cardinality(FallsTo(1)) = 0
<1>1. RisesTo(0) = {} /\ FallsTo(0) = {} /\ RisesTo(1) = {} /\ FallsTo(1) = {}
  BY DEF RisesTo, FallsTo
<1> QED BY <1>1, FS_EmptySet

LEMMA TickStep == Types /\ TickInv /\ [Next]_vars => TickInv'
<1> SUFFICES ASSUME Types, TickInv, [Next]_vars PROVE TickInv'
  OBVIOUS
<1>1. CASE (\E trade \in Trade : PushBack(trade)) \/ PopFront
  BY <1>1, Emptied DEF TickInv
<1>2. CASE ResetFeatures
  BY <1>2, ResetAll DEF TickInv
<1>3. CASE TickImbalanceCalc
  <2>1. Processing("TickImbalanceCalc")
    BY <1>3 DEF TickImbalanceCalc
  <2>2. /\ calc = 6 /\ calc' = 6 /\ it' = it + 1 /\ it' - 1 = it /\ it \in Nat \ {0}
        /\ trades' = trades /\ before' = before
    BY <2>1, WorkingOn DEF Types
  <2>3. TicksAre(it - 1)
    BY <2>2 DEF TickInv
  <2>4. /\ Entry = trades[it] /\ Entry.p \in Nat
        /\ it > 1 => trades[it - 1].p \in Nat
    BY <2>1, Looping
  <2>5. before[1] \in Int /\ before[2] \in Int
    BY BoundsOK DEF Types, Ints
  <2>6. /\ upticks' = Int32(before[1] + Cardinality(RisesTo(it)))
        /\ downticks' = Int32(before[2] + Cardinality(FallsTo(it)))
    <3>1. CASE it = 1
      <4>1. upticks' = upticks /\ downticks' = downticks
        BY <1>3, <3>1 DEF TickImbalanceCalc
      <4> QED BY <2>3, <3>1, <4>1, NoCounts DEF TicksAre
    <3>2. CASE it > 1
      <4> DEFINE r == Cardinality(RisesTo(it - 1))
                 f == Cardinality(FallsTo(it - 1))
      <4>1. /\ r \in Nat /\ f \in Nat
            /\ Cardinality(RisesTo(it)) = IF trades[it].p > trades[it - 1].p THEN r + 1 ELSE r
            /\ Cardinality(FallsTo(it)) = IF trades[it].p < trades[it - 1].p THEN f + 1 ELSE f
        BY <2>2, <3>2, CountsGrow
      <4>2. /\ upticks' = IF trades[it].p > trades[it - 1].p THEN Int32(upticks + 1) ELSE upticks
            /\ downticks' = IF trades[it].p < trades[it - 1].p THEN Int32(downticks + 1) ELSE downticks
        <5>1. /\ upticks' = IF Entry.p - trades[it - 1].p > 0 THEN Int32(upticks + 1) ELSE upticks
              /\ downticks' = IF Entry.p - trades[it - 1].p < 0 THEN Int32(downticks + 1) ELSE downticks
          BY <1>3, <3>2 DEF TickImbalanceCalc, IsUptick
        <5> QED BY <2>4, <3>2, <5>1
      <4>3. upticks = Int32(before[1] + r) /\ downticks = Int32(before[2] + f)
        BY <2>3 DEF TicksAre
      <4> HIDE DEF r, f
      <4>4. before[1] + r \in Int /\ before[2] + f \in Int
        BY <2>5, <4>1
      <4>5. /\ Int32(upticks + 1) = Int32((before[1] + r) + 1)
            /\ Int32(downticks + 1) = Int32((before[2] + f) + 1)
        BY <4>3, <4>4, IntSuccessor
      <4>6. (before[1] + r) + 1 = before[1] + (r + 1) /\ (before[2] + f) + 1 = before[2] + (f + 1)
        BY <2>5, <4>1
      <4> QED BY <4>1, <4>2, <4>3, <4>5, <4>6
    <3> QED BY <2>2, <3>1, <3>2
  <2>7. TicksAre(it - 1)'
    BY <2>2, <2>6 DEF TicksAre, RisesTo, FallsTo
  <2> QED BY <2>2, <2>7 DEF TickInv
<1>4. ASSUME NEW c, Processing(c), c # "TickImbalanceCalc",
             UNCHANGED <<upticks, downticks>>
      PROVE  TickInv'
  <2>1. calc \in 1 .. 6 /\ calc # 6 /\ calc' = calc /\ before' = before
    BY <1>4, WorkingOn, Positions DEF Processing
  <2> QED BY <1>4, <2>1 DEF TickInv
<1>5. CASE MaxTimeGapCalc
  BY <1>4, <1>5 DEF MaxTimeGapCalc
<1>6. CASE VolumeCalc
  BY <1>4, <1>6 DEF VolumeCalc, accumulators
<1>7. CASE WeightedAvgPriceCalc
  BY <1>4, <1>7 DEF WeightedAvgPriceCalc
<1>8. CASE MaxPriceCalc
  BY <1>4, <1>8 DEF MaxPriceCalc, accumulators
<1>9. CASE TradespersecCalc
  BY <1>4, <1>9 DEF TradespersecCalc, accumulators
<1>10. CASE NextCalc
  <2>1. /\ calc \in 1 .. 6 /\ it - 1 = Len(trades)
        /\ calc' = calc + 1 /\ it' - 1 = 0
        /\ UNCHANGED <<trades, upticks, downticks, before>>
    BY <1>10, NextLoop
  <2>2. CASE calc \in 1 .. 4
    BY <2>1, <2>2 DEF TickInv
  <2>3. CASE calc = 5
    <3>1. before[1] \in Ints /\ before[2] \in Ints /\ before[1] + 0 = before[1] /\ before[2] + 0 = before[2]
      BY BoundsOK DEF Types, Ints
    <3>2. upticks = Int32(before[1] + 0) /\ downticks = Int32(before[2] + 0)
      BY <2>3, <3>1, IntKept DEF TickInv
    <3>3. TicksAre(0)
      BY <3>2, NoCounts DEF TicksAre
    <3>4. TicksAre(it - 1)'
      BY <2>1, <3>3 DEF TicksAre, RisesTo, FallsTo
    <3> QED BY <2>1, <2>3, <3>4 DEF TickInv
  <2>4. CASE calc = 6
    <3>1. TicksAre(Len(trades))
      BY <2>1, <2>4 DEF TickInv
    <3>2. TicksAre(Len(trades))'
      BY <2>1, <3>1 DEF TicksAre, RisesTo, FallsTo
    <3> QED BY <2>1, <2>4, <3>2 DEF TickInv
  <2> QED BY <2>1, <2>2, <2>3, <2>4
<1>11. CASE UNCHANGED vars
  BY <1>11 DEF vars, accumulators, TickInv, TicksAre, RisesTo, FallsTo
<1> QED
  BY <1>1, <1>2, <1>3, <1>5, <1>6, <1>7, <1>8, <1>9, <1>10, <1>11 DEF Next

(* TickCountsAdd: one computation adds each rise and each fall of the      *)
(* window once to the counts it found, in ints of any width and across     *)
(* their overflow (TickImbalanceCalc).                                     *)
THEOREM TicksAddUp == Spec => []TickCountsAdd
<1>1. Init => TickInv
  BY DEF Init, TickInv
<1>2. Types /\ TickInv => TickCountsAdd
  <2> SUFFICES ASSUME Types, TickInv, calc = 7
               PROVE  /\ upticks = Int32(before[1] + Cardinality(Rises))
                      /\ downticks = Int32(before[2] + Cardinality(Falls))
    BY Positions DEF Types, TickCountsAdd, Ran
  <2>1. Rises = RisesTo(Len(trades)) /\ Falls = FallsTo(Len(trades))
    BY DEF Rises, Falls, RisesTo, FallsTo
  <2> QED BY <2>1 DEF TickInv, TicksAre
<1> QED BY <1>1, <1>2, TickStep, TypesHold, PTL DEF Spec

-----------------------------------------------------------------------------
(* Induction on the naturals, of sets: there is a least element, because   *)
(* the intervals below the elements are finite sets and so one of them     *)
(* contains no other.                                                      *)
LEMMA Least ==
  ASSUME NEW T \in SUBSET Nat, T # {}
  PROVE  \E i \in T : \A m \in T : i <= m
<1> DEFINE below == {0 .. i : i \in T}
           R == StrictSubsetOrdering(Nat)
<1>1. IsWellFoundedOn(R, FiniteSubsetsOf(Nat))
  BY FS_StrictSubsetOrderingWellFounded
<1>2. below \subseteq FiniteSubsetsOf(Nat) /\ below # {}
  <2>1. ASSUME NEW m \in T PROVE 0 .. m \in FiniteSubsetsOf(Nat)
    <3>1. m \in Nat
      OBVIOUS
    <3>2. 0 .. m \subseteq Nat /\ IsFiniteSet(0 .. m)
      BY <3>1, FS_Interval
    <3> QED BY <3>2 DEF FiniteSubsetsOf
  <2> QED BY <2>1, Zenon
<1>3. \E x \in below : \A y \in below : ~ (<<y, x>> \in R)
  BY <1>1, <1>2, WFMin, Zenon
<1>4. PICK i \in T : \A m \in T : ~ (<<0 .. m, 0 .. i>> \in R)
  BY <1>3, Zenon
<1>5. ASSUME NEW m \in T PROVE i <= m
  <2>0. i \in Nat /\ m \in Nat
    OBVIOUS
  <2> SUFFICES ASSUME m < i PROVE FALSE
    BY <2>0
  <2>1. 0 .. m \subseteq 0 .. i /\ i \in 0 .. i /\ i \notin 0 .. m
    BY <2>0
  <2>2. <<0 .. m, 0 .. i>> \in R
    <3>1. 0 .. m \subseteq Nat /\ 0 .. i \subseteq Nat
      BY <2>0
    <3> QED BY <2>1, <3>1 DEF StrictSubsetOrdering
  <2> QED BY <1>4, <2>2
<1> QED BY <1>5

LEMMA SetInduction ==
  ASSUME NEW T, 0 \in T, \A i \in Nat : i \in T => i + 1 \in T
  PROVE  Nat \subseteq T
<1> DEFINE missing == Nat \ T
<1> SUFFICES ASSUME missing # {} PROVE FALSE
  OBVIOUS
<1>1. PICK i \in missing : \A m \in missing : i <= m
  BY Least, Zenon
<1>2. i # 0 /\ i - 1 \in Nat /\ i - 1 \notin missing /\ (i - 1) + 1 = i
  BY <1>1
<1> QED BY <1>1, <1>2

-----------------------------------------------------------------------------
(* The memory: objects, buffers with cells.                                *)
Elems   == Values \cup {Moved}
Cells   == Elems \cup {Raw}
Objects == 1 .. 3
Shapes  == [flag : BOOLEAN, inline : Seq(Cells), buffer : 0 .. 4, n : Nat]
Heaps   == {Unallocated} \cup {<<c>> : c \in Seq(Cells)}
Memory  == [seqs : [Objects -> Shapes], heap : [HeapBuffers -> Heaps], misused : BOOLEAN]

(* A large object has a buffer, a small one has none.                      *)
ObjectOK(m, i) ==
  LET o == m.seqs[i] IN
  /\ Len(o.inline) = ShortCapacity
  /\ o.flag => sso
  /\ sso => (o.flag <=> o.buffer # Null)
  /\ o.buffer # Null => m.heap[o.buffer] # Unallocated

(* Object i holds xs; what is not an element is raw, unless trivial.       *)
Holds(m, i, xs) ==
  /\ xs \in Seq(Elems) /\ m.seqs[i].n = Len(xs) /\ Len(xs) <= Len(data(m, i))
  /\ \A k \in 1 .. Len(xs) : data(m, i)[k] = xs[k]
  /\ ~sso => \A k \in 1 .. Len(data(m, i)) : k > Len(xs) => data(m, i)[k] = Raw

(* The objects other than i hold what f says, and have buffers of their    *)
(* own; there are no more buffers, but for b.                              *)
Rest(m, f, i, b) ==
  /\ m \in Memory /\ m.misused = FALSE
  /\ \A j \in Objects \ {i} : ObjectOK(m, j) /\ Holds(m, j, f[j]) /\ (b # Null => m.seqs[j].buffer # b)
  /\ \A j, k \in Objects \ {i} : j # k /\ m.seqs[j].buffer # Null => m.seqs[j].buffer # m.seqs[k].buffer
  /\ \A c \in HeapBuffers : m.heap[c] # Unallocated => c = b \/ \E j \in Objects \ {i} : m.seqs[j].buffer = c

Good(m, f) ==
  /\ f \in [Objects -> Seq(Elems)]
  /\ m \in Memory /\ m.misused = FALSE
  /\ \A j \in Objects : ObjectOK(m, j) /\ Holds(m, j, f[j])
  /\ \A j, k \in Objects : j # k /\ m.seqs[j].buffer # Null => m.seqs[j].buffer # m.seqs[k].buffer
  /\ \A c \in HeapBuffers : m.heap[c] # Unallocated => \E j \in Objects : m.seqs[j].buffer = c

(* What a function on object i gives.                                      *)
Gives(m, t, f, i, xs) ==
  /\ Good(t, [f EXCEPT ![i] = xs])
  /\ \A j \in Objects \ {i} : t.seqs[j] = m.seqs[j]

LEMMA BufferNotFree == \A c \in Seq(Cells) : <<c>> # Unallocated /\ <<c>>[1] = c
<1> SUFFICES ASSUME NEW c \in Seq(Cells) PROVE <<c>> # Unallocated /\ <<c>>[1] = c
  OBVIOUS
<1>1. <<c>> \in Seq({c}) /\ Len(<<c>>) = 1
  OBVIOUS
<1>2. Len(<< >>) = 0
  OBVIOUS
<1>3. <<c>> = << >> => Len(<<c>>) = 0
  BY <1>2
<1> QED BY <1>1, <1>3 DEF Unallocated

LEMMA HeapFacts ==
  ASSUME NEW h \in Heaps, h # Unallocated
  PROVE  h[1] \in Seq(Cells) /\ h = <<h[1]>>
<1>1. PICK c \in Seq(Cells) : h = <<c>>
  BY DEF Heaps
<1> QED BY <1>1, BufferNotFree

LEMMA RecordFacts ==
  ASSUME NEW m \in Memory
  PROVE  /\ m.seqs \in [Objects -> Shapes] /\ m.heap \in [HeapBuffers -> Heaps] /\ m.misused \in BOOLEAN
         /\ \A i \in Objects : /\ m.seqs[i] \in Shapes /\ m.seqs[i].flag \in BOOLEAN
                               /\ m.seqs[i].inline \in Seq(Cells)
                               /\ m.seqs[i].buffer \in 0 .. 4 /\ m.seqs[i].n \in Nat
         /\ \A b \in HeapBuffers : m.heap[b] \in Heaps
BY DEF Memory, Shapes

LEMMA DataType ==
  ASSUME NEW m \in Memory, NEW i \in Objects, sso \in BOOLEAN, ObjectOK(m, i)
  PROVE  data(m, i) \in Seq(Cells) /\ capacity(m, i) = Len(data(m, i)) /\ capacity(m, i) \in Nat
<1>1. m.seqs[i].inline \in Seq(Cells) /\ m.seqs[i].buffer \in 0 .. 4
  BY RecordFacts
<1>2. ASSUME m.seqs[i].buffer # Null PROVE m.heap[m.seqs[i].buffer][1] \in Seq(Cells)
  <2>1. m.seqs[i].buffer \in HeapBuffers
    BY <1>1, <1>2 DEF HeapBuffers, Null
  <2> QED BY <1>2, <2>1, RecordFacts, HeapFacts DEF ObjectOK
<1>3. data(m, i) \in Seq(Cells)
  BY <1>1, <1>2 DEF data
<1> QED BY <1>3 DEF capacity

(* What an object holds depends on itself and its buffer.                  *)
LEMMA Unchanged ==
  ASSUME NEW m, NEW t, NEW j \in Objects, t.seqs[j] = m.seqs[j],
         m.seqs[j].buffer # Null => t.heap[m.seqs[j].buffer] = m.heap[m.seqs[j].buffer]
  PROVE  /\ data(t, j) = data(m, j)
         /\ ObjectOK(m, j) => ObjectOK(t, j)
         /\ \A xs : Holds(m, j, xs) => Holds(t, j, xs)
<1>1. data(t, j) = data(m, j)
  BY DEF data, is_small
<1> QED BY <1>1 DEF ObjectOK, Holds

LEMMA GoodRest ==
  ASSUME NEW m, NEW f, Good(m, f), NEW i \in Objects
  PROVE  /\ Rest(m, f, i, m.seqs[i].buffer) /\ m \in Memory /\ ObjectOK(m, i) /\ Holds(m, i, f[i])
         /\ m.misused = FALSE /\ m.seqs[i] \in Shapes /\ m.seqs[i].buffer \in HeapBuffers \cup {Null}
<1>1. m \in Memory /\ m.seqs[i] \in Shapes /\ m.seqs[i].buffer \in HeapBuffers \cup {Null}
  BY RecordFacts DEF Good, HeapBuffers, Null
<1>2. Rest(m, f, i, m.seqs[i].buffer)
  BY <1>1 DEF Rest, Good
<1> QED BY <1>1, <1>2 DEF Good

LEMMA Whole ==
  ASSUME NEW m, NEW t \in Memory, NEW f \in [Objects -> Seq(Elems)], NEW i \in Objects,
         NEW b \in HeapBuffers \cup {Null}, Rest(m, f, i, b),
         t.misused = FALSE, t.seqs[i].buffer = b,
         \A j \in Objects \ {i} : t.seqs[j] = m.seqs[j],
         \A c \in HeapBuffers \ {b} : t.heap[c] = m.heap[c],
         ObjectOK(t, i), NEW xs, Holds(t, i, xs)
  PROVE  Gives(m, t, f, i, xs)
<1> DEFINE g == [f EXCEPT ![i] = xs]
<1>1. ASSUME NEW j \in Objects \ {i} PROVE ObjectOK(t, j) /\ Holds(t, j, f[j]) /\ t.seqs[j].buffer = m.seqs[j].buffer
                                          /\ (b # Null => t.seqs[j].buffer # b)
  <2>1. m.seqs[j].buffer # Null => m.seqs[j].buffer \in HeapBuffers \ {b}
    BY RecordFacts DEF Rest, HeapBuffers, Null
  <2>2. ObjectOK(m, j) /\ Holds(m, j, f[j]) /\ (b # Null => m.seqs[j].buffer # b)
    BY DEF Rest
  <2>3. m.seqs[j].buffer # Null => t.heap[m.seqs[j].buffer] = m.heap[m.seqs[j].buffer]
    BY <2>1
  <2>4. ObjectOK(t, j) /\ Holds(t, j, f[j])
    BY <2>2, <2>3, Unchanged, Zenon
  <2> QED BY <2>2, <2>4
<1>2. g \in [Objects -> Seq(Elems)] /\ g[i] = xs /\ \A j \in Objects \ {i} : g[j] = f[j]
  BY DEF Holds
<1>3. \A j \in Objects : ObjectOK(t, j) /\ Holds(t, j, g[j])
  BY <1>1, <1>2
<1>4. \A j, k \in Objects : j # k /\ t.seqs[j].buffer # Null => t.seqs[j].buffer # t.seqs[k].buffer
  BY <1>1 DEF Rest
<1>5. ASSUME NEW c \in HeapBuffers, t.heap[c] # Unallocated PROVE \E j \in Objects : t.seqs[j].buffer = c
  <2>1. CASE c = b
    BY <2>1
  <2>2. CASE c # b
    <3>1. m.heap[c] # Unallocated
      BY <1>5, <2>2
    <3> QED BY <2>2, <3>1 DEF Rest
  <2> QED BY <2>1, <2>2
<1> QED BY <1>2, <1>3, <1>4, <1>5 DEF Gives, Good

-----------------------------------------------------------------------------
(* Writing cells, and the size.                                            *)
Edited(m, t, i, cells) ==
  /\ t \in Memory /\ t.misused = FALSE /\ ObjectOK(t, i) /\ data(t, i) = cells
  /\ \A j \in Objects \ {i} : t.seqs[j] = m.seqs[j]
  /\ t.seqs[i].buffer = m.seqs[i].buffer /\ t.seqs[i].n = m.seqs[i].n
  /\ t.seqs[i].flag = m.seqs[i].flag
  /\ \A c \in HeapBuffers \ {m.seqs[i].buffer} : t.heap[c] = m.heap[c]

LEMMA SameRecord ==
  ASSUME NEW m \in Memory, m.misused = FALSE
  PROVE  [m EXCEPT !.misused = FALSE] = m
BY DEF Memory

LEMMA WrittenFacts ==
  ASSUME NEW m \in Memory, m.misused = FALSE, NEW i \in Objects, sso \in BOOLEAN, ObjectOK(m, i),
         NEW cells \in Seq(Cells), Len(cells) = Len(data(m, i)),
         NEW t, t = Written(m, i, cells)
  PROVE  Edited(m, t, i, cells)
<1> USE DEF Edited
<1>0. m.seqs \in [Objects -> Shapes] /\ m.heap \in [HeapBuffers -> Heaps] /\ m.seqs[i] \in Shapes
  BY RecordFacts
<1>1. CASE is_small(m, i)
  <2>1. t = [m EXCEPT !.seqs[i].inline = cells]
    BY <1>1 DEF Written
  <2>2. t.seqs = [m.seqs EXCEPT ![i] = [m.seqs[i] EXCEPT !.inline = cells]]
        /\ t.heap = m.heap /\ t.misused = FALSE
    BY <2>1 DEF Memory
  <2>3. t.seqs[i] = [m.seqs[i] EXCEPT !.inline = cells] /\ t.seqs[i] \in Shapes
        /\ \A j \in Objects \ {i} : t.seqs[j] = m.seqs[j]
    BY <1>0, <2>2, Zenon DEF Shapes
  <2>4. t \in Memory
    <3>1. t.seqs \in [Objects -> Shapes]
      BY <1>0, <2>2, <2>3
    <3> QED BY <2>1, <2>2, <3>1, Zenon DEF Memory
  <2>5. /\ t.seqs[i].inline = cells /\ t.seqs[i].buffer = m.seqs[i].buffer
        /\ t.seqs[i].n = m.seqs[i].n /\ t.seqs[i].flag = m.seqs[i].flag
    BY <1>0, <2>3 DEF Shapes
  <2>6. data(t, i) = cells /\ Len(cells) = ShortCapacity
    BY <1>1, <2>5 DEF data, is_small, ObjectOK
  <2> QED BY <2>2, <2>3, <2>4, <2>5, <2>6 DEF ObjectOK
<1>2. CASE ~is_small(m, i) /\ m.seqs[i].buffer = Null
  <2>1. t = m /\ data(m, i) = << >>
    BY <1>2 DEF Written, data
  <2>2. cells = << >>
    BY <2>1
  <2> QED BY <2>1, <2>2
<1>3. CASE ~is_small(m, i) /\ m.seqs[i].buffer # Null
  <2> DEFINE b == m.seqs[i].buffer
  <2>1. t = [m EXCEPT !.heap[b] = <<cells>>] /\ b \in HeapBuffers
    BY <1>3, RecordFacts DEF Written, HeapBuffers, Null
  <2>2. t.seqs = m.seqs /\ t.misused = FALSE /\ t.heap = [m.heap EXCEPT ![b] = <<cells>>]
    BY <2>1 DEF Memory
  <2>3. <<cells>> \in Heaps /\ <<cells>> # Unallocated /\ <<cells>>[1] = cells
    BY BufferNotFree DEF Heaps
  <2>4. t.heap \in [HeapBuffers -> Heaps] /\ t.heap[b] = <<cells>> /\ \A c \in HeapBuffers \ {b} : t.heap[c] = m.heap[c]
    BY <1>0, <2>1, <2>2, <2>3
  <2>5. t \in Memory
    BY <2>1, <2>2, <2>4, Zenon DEF Memory
  <2>6. data(t, i) = cells
    BY <1>3, <2>2, <2>3, <2>4 DEF data, is_small
  <2> QED BY <2>2, <2>3, <2>4, <2>5, <2>6 DEF ObjectOK
<1> QED BY <1>1, <1>2, <1>3, Zenon

Resized(m, t, i, n) ==
  /\ t \in Memory /\ t.misused = FALSE /\ ObjectOK(t, i) /\ data(t, i) = data(m, i)
  /\ \A j \in Objects \ {i} : t.seqs[j] = m.seqs[j]
  /\ t.seqs[i].buffer = m.seqs[i].buffer /\ t.seqs[i].n = n /\ t.heap = m.heap

LEMMA Sized ==
  ASSUME NEW m \in Memory, m.misused = FALSE, NEW i \in Objects, sso \in BOOLEAN, ObjectOK(m, i),
         NEW n \in Nat, n <= Len(data(m, i))
  PROVE  Resized(m, set_size(m, i, n), i, n)
<1> DEFINE t == set_size(m, i, n)
<1>0. m.seqs \in [Objects -> Shapes] /\ m.heap \in [HeapBuffers -> Heaps] /\ m.seqs[i] \in Shapes
  BY RecordFacts
<1>1. capacity(m, i) = Len(data(m, i)) /\ capacity(m, i) \in Nat
  BY DataType
<1>2. (m.misused \/ n > capacity(m, i)) = FALSE
  BY <1>1
<1>3. t = [m EXCEPT !.seqs[i].n = n, !.misused = FALSE]
  BY <1>2, Zenon DEF set_size
<1>4. t.seqs = [m.seqs EXCEPT ![i] = [m.seqs[i] EXCEPT !.n = n]] /\ t.heap = m.heap /\ t.misused = FALSE
  BY <1>3 DEF Memory
<1>5. t.seqs[i] = [m.seqs[i] EXCEPT !.n = n] /\ t.seqs[i] \in Shapes
      /\ \A j \in Objects \ {i} : t.seqs[j] = m.seqs[j]
  BY <1>0, <1>4, Zenon DEF Shapes
<1>6. t \in Memory
  <2>1. t.seqs \in [Objects -> Shapes]
    BY <1>0, <1>4, <1>5
  <2> QED BY <1>3, <1>4, <2>1, Zenon DEF Memory
<1>7. /\ t.seqs[i].inline = m.seqs[i].inline /\ t.seqs[i].buffer = m.seqs[i].buffer
      /\ t.seqs[i].n = n /\ t.seqs[i].flag = m.seqs[i].flag
  BY <1>0, <1>5 DEF Shapes
<1>8. data(t, i) = data(m, i)
  BY <1>4, <1>7 DEF data, is_small
<1> QED BY <1>4, <1>5, <1>6, <1>7, <1>8 DEF ObjectOK, Resized

(* Cells that begin with xs, the others raw unless trivial.                *)
Fills(cells, xs) ==
  /\ xs \in Seq(Elems) /\ Len(xs) <= Len(cells)
  /\ \A k \in 1 .. Len(xs) : cells[k] = xs[k]
  /\ ~sso => \A k \in 1 .. Len(cells) : k > Len(xs) => cells[k] = Raw

LEMMA EditGives ==
  ASSUME sso \in BOOLEAN, NEW m, NEW f, Good(m, f), NEW i \in Objects,
         NEW cells \in Seq(Cells), NEW t, Edited(m, t, i, cells),
         NEW xs, Fills(cells, xs)
  PROVE  /\ Gives(m, set_size(t, i, Len(xs)), f, i, xs)
         /\ Len(data(set_size(t, i, Len(xs)), i)) = Len(cells)
<1> DEFINE u == set_size(t, i, Len(xs))
<1>1. /\ t \in Memory /\ t.misused = FALSE /\ ObjectOK(t, i) /\ data(t, i) = cells
      /\ \A j \in Objects \ {i} : t.seqs[j] = m.seqs[j]
      /\ t.seqs[i].buffer = m.seqs[i].buffer
      /\ \A c \in HeapBuffers \ {m.seqs[i].buffer} : t.heap[c] = m.heap[c]
  BY DEF Edited
<1>2. Len(xs) \in Nat /\ Len(xs) <= Len(data(t, i))
  BY <1>1 DEF Fills
<1>3. /\ u \in Memory /\ u.misused = FALSE /\ ObjectOK(u, i) /\ data(u, i) = cells
      /\ \A j \in Objects \ {i} : u.seqs[j] = t.seqs[j]
      /\ u.seqs[i].buffer = t.seqs[i].buffer /\ u.seqs[i].n = Len(xs) /\ u.heap = t.heap
  <2>1. Resized(t, u, i, Len(xs))
    BY <1>1, <1>2, Sized, Zenon
  <2> QED BY <1>1, <2>1 DEF Resized
<1> HIDE DEF u
<1>4. Holds(u, i, xs)
  BY <1>3 DEF Holds, Fills
<1>5. /\ Rest(m, f, i, m.seqs[i].buffer) /\ m.seqs[i].buffer \in HeapBuffers \cup {Null}
      /\ f \in [Objects -> Seq(Elems)]
  BY GoodRest, Zenon DEF Good
<1>6. /\ u.seqs[i].buffer = m.seqs[i].buffer
      /\ \A j \in Objects \ {i} : u.seqs[j] = m.seqs[j]
      /\ \A c \in HeapBuffers \ {m.seqs[i].buffer} : u.heap[c] = m.heap[c]
  BY <1>1, <1>3
<1>7. Gives(m, u, f, i, xs)
  BY <1>3, <1>4, <1>5, <1>6, Whole, Zenon
<1> QED BY <1>3, <1>7 DEF u

(* To build elements in raw cells is no misuse.                            *)
LEMMA InitializeFacts ==
  ASSUME Params, sso \in BOOLEAN, NEW m \in Memory, m.misused = FALSE, NEW i \in Objects, ObjectOK(m, i),
         NEW p \in Nat, NEW xs \in Seq(Elems), p + Len(xs) <= Len(data(m, i)),
         ~sso => \A k \in p + 1 .. p + Len(xs) : data(m, i)[k] = Raw,
         NEW cells, cells = [k \in DOMAIN data(m, i) |-> IF k \in p + 1 .. p + Len(xs) THEN xs[k - p] ELSE data(m, i)[k]]
  PROVE  cells \in Seq(Cells) /\ Len(cells) = Len(data(m, i)) /\ Edited(m, initialize(m, i, p, xs), i, cells)
<1> DEFINE d == data(m, i)
           range == p + 1 .. p + Len(xs)
           wrong == ~(range \subseteq DOMAIN d) \/ \E k \in range : d[k] # Raw \/ xs[k - p] = Raw
<1>1. d \in Seq(Cells) /\ Len(d) \in Nat /\ DOMAIN d = 1 .. Len(d) /\ Len(xs) \in Nat
  BY DataType
<1>2. \A k \in range : k - p \in 1 .. Len(xs) /\ xs[k - p] \in Elems /\ xs[k - p] # Raw
  <2>1. Raw \notin Elems
    BY DEF Params, Elems
  <2>2. \A k \in range : k - p \in 1 .. Len(xs)
    BY <1>1
  <2>3. \A k \in 1 .. Len(xs) : xs[k] \in Elems
    OBVIOUS
  <2> QED BY <2>1, <2>2, <2>3
<1>3. cells \in Seq(Cells) /\ Len(cells) = Len(d)
  <2>1. \A k \in 1 .. Len(d) : cells[k] \in Cells
    <3>1. \A k \in 1 .. Len(d) : d[k] \in Cells
      BY <1>1
    <3> QED BY <1>1, <1>2, <3>1 DEF Cells
  <2>2. cells \in [1 .. Len(d) -> Cells]
    BY <1>1, <2>1
  <2> QED BY <1>1, <2>2
<1>4. Edited(m, Written(m, i, cells), i, cells)
  BY <1>3, WrittenFacts, Zenon
<1>5. range \subseteq DOMAIN d
  BY <1>1
<1>6. ~sso => ~wrong
  BY <1>2, <1>5, Zenon
<1>7. initialize(m, i, p, xs) = Misuse(Written(m, i, cells), wrong)
  BY Zenon DEF initialize
<1> HIDE DEF wrong
<1>8. Misuse(Written(m, i, cells), wrong) = Written(m, i, cells)
  <2> DEFINE w == Written(m, i, cells)
  <2>1. w \in Memory /\ w.misused = FALSE
    BY <1>4 DEF Edited
  <2>2. (w.misused \/ (~sso /\ wrong)) = FALSE
    BY <1>6, <2>1
  <2>3. Misuse(w, wrong) = [w EXCEPT !.misused = FALSE]
    BY <2>2, Zenon DEF Misuse
  <2> QED BY <2>1, <2>3, SameRecord, Zenon
<1> QED BY <1>3, <1>4, <1>7, <1>8

LEMMA DestroyFacts ==
  ASSUME Params, sso \in BOOLEAN, NEW m \in Memory, m.misused = FALSE, NEW i \in Objects, ObjectOK(m, i),
         NEW p \in Nat, NEW q \in Nat, q <= Len(data(m, i)),
         ~sso => \A k \in p + 1 .. q : data(m, i)[k] # Raw,
         NEW cells, cells = [k \in DOMAIN data(m, i) |-> IF k \in p + 1 .. q THEN Raw ELSE data(m, i)[k]]
  PROVE  cells \in Seq(Cells) /\ Len(cells) = Len(data(m, i)) /\ Edited(m, destroy(m, i, p, q), i, cells)
<1> DEFINE d == data(m, i)
           wrong == \E k \in p + 1 .. q : d[k] = Raw
<1>1. d \in Seq(Cells) /\ Len(d) \in Nat /\ DOMAIN d = 1 .. Len(d)
  BY DataType
<1>3. cells \in Seq(Cells) /\ Len(cells) = Len(d)
  <2>1. cells \in [1 .. Len(d) -> Cells]
    BY <1>1 DEF Cells
  <2> QED BY <1>1, <2>1
<1>4. Edited(m, Written(m, i, cells), i, cells)
  BY <1>3, WrittenFacts, Zenon
<1>6. ~sso => ~wrong
  OBVIOUS
<1>7. destroy(m, i, p, q) = Misuse(Written(m, i, cells), wrong)
  BY DEF destroy
<1> HIDE DEF wrong
<1>8. Misuse(Written(m, i, cells), wrong) = Written(m, i, cells)
  <2> DEFINE w == Written(m, i, cells)
  <2>1. w \in Memory /\ w.misused = FALSE
    BY <1>4 DEF Edited
  <2>2. (w.misused \/ (~sso /\ wrong)) = FALSE
    BY <1>6, <2>1
  <2>3. Misuse(w, wrong) = [w EXCEPT !.misused = FALSE]
    BY <2>2, Zenon DEF Misuse
  <2> QED BY <2>1, <2>3, SameRecord, Zenon
<1> QED BY <1>3, <1>4, <1>7, <1>8

(* An object that holds xs.                                                *)
Facts(m, i, xs) ==
  /\ xs \in Seq(Elems) /\ Len(xs) \in Nat /\ size(m, i) = Len(xs) /\ m.seqs[i].n = Len(xs)
  /\ data(m, i) \in Seq(Cells) /\ Len(data(m, i)) \in Nat /\ DOMAIN data(m, i) = 1 .. Len(data(m, i))
  /\ capacity(m, i) = Len(data(m, i)) /\ Len(xs) <= Len(data(m, i))
  /\ \A k \in 1 .. Len(xs) : data(m, i)[k] = xs[k] /\ xs[k] \in Elems /\ xs[k] # Raw
  /\ ~sso => \A k \in 1 .. Len(data(m, i)) : k > Len(xs) => data(m, i)[k] = Raw
  /\ contents(m, i) = xs
  /\ m \in Memory /\ m.misused = FALSE /\ ObjectOK(m, i)

LEMMA HoldsFacts ==
  ASSUME Params, sso \in BOOLEAN, NEW m, NEW f, Good(m, f), NEW i \in Objects
  PROVE  Facts(m, i, f[i])
<1>1. m \in Memory /\ ObjectOK(m, i) /\ Holds(m, i, f[i]) /\ m.misused = FALSE
  BY GoodRest, Zenon
<1>2. data(m, i) \in Seq(Cells) /\ capacity(m, i) = Len(data(m, i))
  BY <1>1, DataType
<1>3. f[i] \in Seq(Elems) /\ Len(f[i]) \in Nat /\ \A k \in 1 .. Len(f[i]) : f[i][k] \in Elems
  BY <1>1 DEF Holds
<1>4. Raw \notin Elems
  BY DEF Params, Elems
<1>5. contents(m, i) = f[i]
  <2>1. contents(m, i) = SubSeq(data(m, i), 1, Len(f[i]))
    BY <1>1 DEF contents, size, Holds
  <2>2. \A k \in 1 .. Len(f[i]) : data(m, i)[k] = f[i][k]
    BY <1>1 DEF Holds
  <2>3. Len(f[i]) <= Len(data(m, i))
    BY <1>1 DEF Holds
  <2> HIDE DEF contents
  <2> QED BY <1>2, <1>3, <2>1, <2>2, <2>3
<1> QED BY <1>1, <1>2, <1>3, <1>4, <1>5 DEF Holds, size, Facts

(* Building elements after the last, and destroying the last ones.         *)
Built(m, i, n, xs) == set_size(initialize(m, i, n, xs), i, n + Len(xs))

LEMMA Grows ==
  ASSUME Params, sso \in BOOLEAN, NEW m, NEW f, Good(m, f), NEW i \in Objects, NEW xs \in Seq(Elems),
         NEW n, n = Len(f[i]), n + Len(xs) <= Len(data(m, i))
  PROVE  Gives(m, Built(m, i, n, xs), f, i, f[i] \o xs) /\ Len(data(Built(m, i, n, xs), i)) = Len(data(m, i))
<1> DEFINE d == data(m, i)
           cells == [k \in DOMAIN d |-> IF k \in n + 1 .. n + Len(xs) THEN xs[k - n] ELSE d[k]]
           ys == f[i] \o xs
<1>0. Facts(m, i, f[i])
  BY HoldsFacts
<1>1. /\ f[i] \in Seq(Elems) /\ n \in Nat /\ d \in Seq(Cells) /\ Len(d) \in Nat /\ DOMAIN d = 1 .. Len(d)
      /\ \A k \in 1 .. n : d[k] = f[i][k]
      /\ ~sso => \A k \in 1 .. Len(d) : k > n => d[k] = Raw
      /\ m \in Memory /\ m.misused = FALSE /\ ObjectOK(m, i) /\ Len(xs) \in Nat
  BY <1>0 DEF Facts
<1>2. cells \in Seq(Cells) /\ Len(cells) = Len(d) /\ Edited(m, initialize(m, i, n, xs), i, cells)
  <2>1. ~sso => \A k \in n + 1 .. n + Len(xs) : d[k] = Raw
    BY <1>1
  <2> QED BY <1>1, <2>1, InitializeFacts, Zenon
<1>3. ys \in Seq(Elems) /\ Len(ys) = n + Len(xs)
      /\ \A k \in 1 .. n + Len(xs) : ys[k] = IF k <= n THEN f[i][k] ELSE xs[k - n]
  BY <1>1
<1>4. \A k \in 1 .. Len(ys) : cells[k] = ys[k]
  <2>1. \A k \in 1 .. n + Len(xs) : cells[k] = IF k <= n THEN f[i][k] ELSE xs[k - n]
    BY <1>1
  <2> HIDE DEF cells, ys
  <2> QED BY <1>3, <2>1
<1>5. ~sso => \A k \in 1 .. Len(cells) : k > Len(ys) => cells[k] = Raw
  BY <1>1, <1>2, <1>3
<1> HIDE DEF cells, ys
<1>6. Len(ys) <= Len(cells)
  BY <1>1, <1>2, <1>3
<1> DEFINE e == initialize(m, i, n, xs)
           u == set_size(e, i, Len(ys))
<1> HIDE DEF e
<1>7. Edited(m, e, i, cells)
  BY <1>2 DEF e
<1>8. Gives(m, u, f, i, ys) /\ Len(data(u, i)) = Len(cells)
  <2>1. Fills(cells, ys)
    BY <1>3, <1>4, <1>5, <1>6, Zenon DEF Fills
  <2> QED BY <1>2, <1>7, <2>1, EditGives
<1>9. u = Built(m, i, n, xs)
  BY <1>3 DEF e, Built
<1> HIDE DEF u
<1> QED BY <1>2, <1>8, <1>9 DEF ys

LEMMA Shrinks ==
  ASSUME Params, sso \in BOOLEAN, NEW m, NEW f, Good(m, f), NEW i \in Objects,
         NEW n, n = Len(f[i]), NEW p \in 0 .. n
  PROVE  Gives(m, set_size(destroy(m, i, p, n), i, p), f, i, SubSeq(f[i], 1, p))
<1> DEFINE d == data(m, i)
           cells == [k \in DOMAIN d |-> IF k \in p + 1 .. n THEN Raw ELSE d[k]]
           ys == SubSeq(f[i], 1, p)
<1>0. Facts(m, i, f[i])
  BY HoldsFacts
<1>1. /\ f[i] \in Seq(Elems) /\ n \in Nat /\ d \in Seq(Cells) /\ Len(d) \in Nat /\ DOMAIN d = 1 .. Len(d)
      /\ \A k \in 1 .. n : d[k] = f[i][k] /\ f[i][k] # Raw
      /\ ~sso => \A k \in 1 .. Len(d) : k > n => d[k] = Raw
      /\ m \in Memory /\ m.misused = FALSE /\ ObjectOK(m, i) /\ n <= Len(d) /\ p \in Nat
  BY <1>0 DEF Facts
<1>2. cells \in Seq(Cells) /\ Len(cells) = Len(d) /\ Edited(m, destroy(m, i, p, n), i, cells)
  <2>1. \A k \in p + 1 .. n : d[k] # Raw
    BY <1>1
  <2> QED BY <1>1, <2>1, DestroyFacts, Zenon
<1>3. ys \in Seq(Elems) /\ Len(ys) = p /\ \A k \in 1 .. p : ys[k] = f[i][k]
  BY <1>1
<1>4. \A k \in 1 .. Len(ys) : cells[k] = ys[k]
  <2>1. \A k \in 1 .. p : cells[k] = f[i][k]
    BY <1>1
  <2> HIDE DEF cells, ys
  <2> QED BY <1>3, <2>1
<1>5. ~sso => \A k \in 1 .. Len(cells) : k > Len(ys) => cells[k] = Raw
  <2>1. \A k \in 1 .. Len(d) : k > p => cells[k] = IF k <= n THEN Raw ELSE d[k]
    BY <1>1
  <2> HIDE DEF cells, ys
  <2> QED BY <1>1, <1>2, <1>3, <2>1
<1>6. Len(ys) <= Len(cells)
  <2> HIDE DEF cells, ys
  <2> QED BY <1>1, <1>2, <1>3
<1> DEFINE e == destroy(m, i, p, n)
<1> HIDE DEF cells, ys, e
<1>7. Gives(m, set_size(e, i, Len(ys)), f, i, ys)
  <2>1. Fills(cells, ys)
    BY <1>3, <1>4, <1>5, <1>6 DEF Fills
  <2>2. Edited(m, e, i, cells)
    BY <1>2 DEF e
  <2> QED BY <1>2, <2>1, <2>2, EditGives
<1> QED BY <1>3, <1>7 DEF e, ys

(* Moving from elements, which leaves others in their places.              *)
LEMMA EditKeeps ==
  ASSUME sso \in BOOLEAN, NEW m, NEW f, Good(m, f), NEW i \in Objects,
         NEW cells \in Seq(Cells), NEW t, Edited(m, t, i, cells),
         NEW xs \in Seq(Elems), Len(xs) = Len(f[i]), Len(xs) <= Len(cells),
         \A k \in 1 .. Len(xs) : cells[k] = xs[k],
         ~sso => \A k \in 1 .. Len(cells) : k > Len(xs) => cells[k] = Raw
  PROVE  Gives(m, t, f, i, xs)
<1>1. /\ t \in Memory /\ t.misused = FALSE /\ ObjectOK(t, i) /\ data(t, i) = cells
      /\ \A j \in Objects \ {i} : t.seqs[j] = m.seqs[j]
      /\ t.seqs[i].buffer = m.seqs[i].buffer /\ t.seqs[i].n = m.seqs[i].n
      /\ \A c \in HeapBuffers \ {m.seqs[i].buffer} : t.heap[c] = m.heap[c]
  BY DEF Edited
<1>2. m.seqs[i].n = Len(f[i])
  BY GoodRest, Zenon DEF Holds
<1>3. Holds(t, i, xs)
  BY <1>1, <1>2 DEF Holds
<1>4. /\ Rest(m, f, i, m.seqs[i].buffer) /\ m.seqs[i].buffer \in HeapBuffers \cup {Null}
      /\ f \in [Objects -> Seq(Elems)]
  BY GoodRest, Zenon DEF Good
<1> QED BY <1>1, <1>3, <1>4, Whole, Zenon

LEMMA GivesSame ==
  ASSUME NEW m, NEW f, Good(m, f), NEW i \in Objects
  PROVE  Gives(m, m, f, i, f[i])
<1>1. f \in [Objects -> Seq(Elems)]
  BY DEF Good
<1>2. [f EXCEPT ![i] = f[i]] = f
  BY <1>1
<1> QED BY <1>2 DEF Gives

LEMMA MovedOut ==
  ASSUME Params, sso \in BOOLEAN, NEW m, NEW f, Good(m, f), NEW i \in Objects,
         NEW n, n = Len(f[i]), NEW p \in 0 .. n
  PROVE  \E ys \in Seq(Elems) :
           /\ Len(ys) = n /\ SubSeq(ys, 1, p) = SubSeq(f[i], 1, p)
           /\ Gives(m, moved(m, i, p, n), f, i, ys)
<1>0. Facts(m, i, f[i])
  BY HoldsFacts
<1>1. CASE sso
  <2>1. moved(m, i, p, n) = m
    BY <1>1 DEF moved
  <2> QED BY <1>0, <2>1, GivesSame DEF Facts
<1>2. CASE ~sso
  <2> DEFINE d == data(m, i)
             cells == [k \in DOMAIN d |-> IF k \in p + 1 .. n THEN Moved ELSE d[k]]
             ys == [k \in 1 .. n |-> IF k \in p + 1 .. n THEN Moved ELSE f[i][k]]
  <2>1. /\ f[i] \in Seq(Elems) /\ n \in Nat /\ d \in Seq(Cells) /\ Len(d) \in Nat /\ DOMAIN d = 1 .. Len(d)
        /\ \A k \in 1 .. n : d[k] = f[i][k] /\ f[i][k] \in Elems
        /\ \A k \in 1 .. Len(d) : k > n => d[k] = Raw
        /\ m \in Memory /\ m.misused = FALSE /\ ObjectOK(m, i) /\ n <= Len(d) /\ p \in Nat /\ p <= n
    BY <1>0, <1>2 DEF Facts
  <2>2. cells \in Seq(Cells) /\ Len(cells) = Len(d)
    <3>1. cells \in [1 .. Len(d) -> Cells]
      BY <2>1 DEF Cells, Elems
    <3> QED BY <2>1, <3>1
  <2>3. ys \in Seq(Elems) /\ Len(ys) = n
    <3>1. ys \in [1 .. n -> Elems]
      BY <2>1 DEF Elems
    <3> QED BY <2>1, <3>1
  <2>4. moved(m, i, p, n) = Written(m, i, cells)
    BY <1>2 DEF moved
  <2>5. Edited(m, Written(m, i, cells), i, cells)
    BY <2>1, <2>2, WrittenFacts, Zenon
  <2>6. \A k \in 1 .. Len(ys) : cells[k] = ys[k]
    <3>1. \A k \in 1 .. n : cells[k] = ys[k]
      BY <2>1
    <3> HIDE DEF cells, ys
    <3> QED BY <2>3, <3>1
  <2>7. \A k \in 1 .. Len(cells) : k > Len(ys) => cells[k] = Raw
    <3>1. \A k \in 1 .. Len(d) : k > n => cells[k] = Raw
      BY <2>1
    <3> HIDE DEF cells, ys
    <3> QED BY <2>2, <2>3, <3>1
  <2>8. SubSeq(ys, 1, p) = SubSeq(f[i], 1, p)
    <3>1. \A k \in 1 .. p : ys[k] = f[i][k]
      BY <2>1
    <3> HIDE DEF ys
    <3> QED BY <2>1, <2>3, <3>1
  <2>9. Gives(m, moved(m, i, p, n), f, i, ys)
    <3>1. Len(ys) <= Len(cells)
      BY <2>1, <2>2, <2>3
    <3> HIDE DEF cells, ys
    <3> QED BY <2>2, <2>3, <2>4, <2>5, <2>6, <2>7, <3>1, EditKeeps
  <2> QED BY <2>3, <2>8, <2>9
<1> QED BY <1>1, <1>2

-----------------------------------------------------------------------------
(* Giving a buffer back, and taking one.                                   *)
LEMMA RestKept ==
  ASSUME NEW m, NEW f, NEW i \in Objects, NEW b \in HeapBuffers \cup {Null}, Rest(m, f, i, b),
         NEW t \in Memory, t.misused = FALSE,
         \A j \in Objects \ {i} : t.seqs[j] = m.seqs[j],
         \A c \in HeapBuffers \ {b} : t.heap[c] = m.heap[c]
  PROVE  Rest(t, f, i, b) /\ (b # Null /\ t.heap[b] = Unallocated => Rest(t, f, i, Null))
<1>1. ASSUME NEW j \in Objects \ {i} PROVE ObjectOK(t, j) /\ Holds(t, j, f[j]) /\ t.seqs[j].buffer = m.seqs[j].buffer
                                          /\ (b # Null => t.seqs[j].buffer # b)
  <2>1. m.seqs[j].buffer # Null => m.seqs[j].buffer \in HeapBuffers \ {b}
    BY RecordFacts DEF Rest, HeapBuffers, Null
  <2>2. ObjectOK(m, j) /\ Holds(m, j, f[j]) /\ (b # Null => m.seqs[j].buffer # b)
    BY DEF Rest
  <2>3. m.seqs[j].buffer # Null => t.heap[m.seqs[j].buffer] = m.heap[m.seqs[j].buffer]
    BY <2>1
  <2>4. ObjectOK(t, j) /\ Holds(t, j, f[j])
    BY <2>2, <2>3, Unchanged
  <2> QED BY <2>2, <2>4
<1>2. \A j, k \in Objects \ {i} : j # k /\ t.seqs[j].buffer # Null => t.seqs[j].buffer # t.seqs[k].buffer
  BY <1>1 DEF Rest
<1>3. ASSUME NEW c \in HeapBuffers, t.heap[c] # Unallocated, c # b PROVE \E j \in Objects \ {i} : t.seqs[j].buffer = c
  <2>1. m.heap[c] # Unallocated
    BY <1>3
  <2> QED BY <1>1, <1>3, <2>1 DEF Rest
<1>4. Rest(t, f, i, b)
  BY <1>1, <1>2, <1>3 DEF Rest
<1>5. ASSUME b # Null, t.heap[b] = Unallocated PROVE Rest(t, f, i, Null)
  <2>1. ASSUME NEW c \in HeapBuffers, t.heap[c] # Unallocated PROVE \E j \in Objects \ {i} : t.seqs[j].buffer = c
    BY <1>3, <1>5, <2>1
  <2> QED BY <1>1, <1>2, <2>1 DEF Rest
<1> QED BY <1>4, <1>5

LEMMA RawsType ==
  ASSUME NEW n \in Nat
  PROVE  /\ Raws(n) \in Seq(Cells) /\ Len(Raws(n)) = n /\ DOMAIN Raws(n) = 1 .. n
         /\ \A k \in 1 .. n : Raws(n)[k] = Raw
<1>1. Raws(n) \in [1 .. n -> Cells]
  BY DEF Raws, Cells
<1> QED BY <1>1 DEF Raws

LEMMA EmptyType ==
  ASSUME Params
  PROVE  /\ Empty \in Shapes /\ Empty.flag = FALSE /\ Empty.buffer = Null /\ Empty.n = 0
         /\ Len(Empty.inline) = ShortCapacity
<1>1. Raws(ShortCapacity) \in Seq(Cells) /\ Len(Raws(ShortCapacity)) = ShortCapacity
  BY RawsType DEF Params
<1> QED BY <1>1 DEF Empty, Shapes, Null

(* Two other objects cannot have all the buffers.                          *)
LEMMA BufferLeft ==
  ASSUME NEW m, NEW f, NEW i \in Objects, Rest(m, f, i, Null)
  PROVE  LET b == CHOOSE b \in HeapBuffers : m.heap[b] = Unallocated /\ \A c \in 1 .. b - 1 : m.heap[c] # Unallocated
         IN  b \in HeapBuffers /\ m.heap[b] = Unallocated
<1>1. \E b \in HeapBuffers : m.heap[b] = Unallocated
  <2> SUFFICES ASSUME \A b \in HeapBuffers : m.heap[b] # Unallocated PROVE FALSE
    OBVIOUS
  <2>1. \A c \in HeapBuffers : \E j \in Objects \ {i} : m.seqs[j].buffer = c
    BY DEF Rest, HeapBuffers, Null
  <2>2. PICK j1 \in Objects \ {i} : m.seqs[j1].buffer = 1
    BY <2>1 DEF HeapBuffers
  <2>3. PICK j2 \in Objects \ {i} : m.seqs[j2].buffer = 2
    BY <2>1 DEF HeapBuffers
  <2>4. PICK j3 \in Objects \ {i} : m.seqs[j3].buffer = 3
    BY <2>1 DEF HeapBuffers
  <2>5. j1 # j2 /\ j1 # j3 /\ j2 # j3
    BY <2>2, <2>3, <2>4
  <2> QED BY <2>5 DEF Objects
<1>2. \E b \in HeapBuffers : m.heap[b] = Unallocated /\ \A c \in 1 .. b - 1 : m.heap[c] # Unallocated
  <2>1. CASE m.heap[1] = Unallocated
    BY <2>1 DEF HeapBuffers
  <2>2. CASE m.heap[1] # Unallocated /\ m.heap[2] = Unallocated
    <3>1. \A c \in 1 .. 2 - 1 : m.heap[c] # Unallocated
      BY <2>2
    <3> QED BY <2>2, <3>1 DEF HeapBuffers
  <2>3. CASE m.heap[1] # Unallocated /\ m.heap[2] # Unallocated /\ m.heap[3] = Unallocated
    <3>1. \A c \in 1 .. 3 - 1 : m.heap[c] # Unallocated
      BY <2>3
    <3> QED BY <2>3, <3>1 DEF HeapBuffers
  <2>4. CASE m.heap[1] # Unallocated /\ m.heap[2] # Unallocated /\ m.heap[3] # Unallocated
    <3>1. m.heap[4] = Unallocated
      BY <1>1, <2>4 DEF HeapBuffers
    <3>2. \A c \in 1 .. 4 - 1 : m.heap[c] # Unallocated
      BY <2>4
    <3> QED BY <3>1, <3>2 DEF HeapBuffers
  <2> QED BY <2>1, <2>2, <2>3, <2>4
<1> QED BY <1>2

LEMMA Freed ==
  ASSUME Params, sso \in BOOLEAN, NEW m, NEW f, Good(m, f), NEW i \in Objects, ~is_small(m, i),
         NEW t, t = free_buffer(destroy(m, i, 0, size(m, i)), i)
  PROVE  Rest(t, f, i, Null) /\ \A j \in Objects \ {i} : t.seqs[j] = m.seqs[j]
<1> DEFINE d == data(m, i)
           n == Len(f[i])
           cells == [k \in DOMAIN d |-> IF k \in 0 + 1 .. n THEN Raw ELSE d[k]]
           e == destroy(m, i, 0, n)
           b == m.seqs[i].buffer
<1>0. Facts(m, i, f[i])
  BY HoldsFacts
<1>1. /\ f[i] \in Seq(Elems) /\ n \in Nat /\ d \in Seq(Cells) /\ Len(d) \in Nat /\ DOMAIN d = 1 .. Len(d)
      /\ \A k \in 1 .. n : d[k] # Raw
      /\ ~sso => \A k \in 1 .. Len(d) : k > n => d[k] = Raw
      /\ m \in Memory /\ m.misused = FALSE /\ ObjectOK(m, i) /\ n <= Len(d) /\ size(m, i) = n
  BY <1>0 DEF Facts
<1>2. cells \in Seq(Cells) /\ Len(cells) = Len(d) /\ Edited(m, e, i, cells)
  <2>1. 0 \in Nat /\ \A k \in 0 + 1 .. n : d[k] # Raw
    BY <1>1
  <2> QED BY <1>1, <2>1, DestroyFacts, Zenon
<1>3. ~sso => \A k \in 1 .. Len(d) : cells[k] = Raw
  BY <1>1
<1> HIDE DEF cells, e
<1>4. /\ e \in Memory /\ e.misused = FALSE /\ ObjectOK(e, i) /\ data(e, i) = cells
      /\ \A j \in Objects \ {i} : e.seqs[j] = m.seqs[j]
      /\ e.seqs[i].buffer = b /\ e.seqs[i].flag = m.seqs[i].flag
      /\ \A c \in HeapBuffers \ {b} : e.heap[c] = m.heap[c]
  BY <1>2 DEF Edited
<1>5. Rest(m, f, i, b) /\ b \in HeapBuffers \cup {Null}
  BY GoodRest, Zenon
<1>6. t = free_buffer(e, i)
  BY <1>1 DEF e
<1>7. CASE b = Null
  <2>1. t = e
    BY <1>4, <1>6, <1>7, Zenon DEF free_buffer
  <2>2. Rest(e, f, i, b)
    BY <1>4, <1>5, RestKept, Zenon
  <2> QED BY <1>4, <1>7, <2>1, <2>2
<1>8. CASE b # Null
  <2> DEFINE g == [e EXCEPT !.heap[b] = Unallocated, !.seqs[i].buffer = Null]
             wrong == \E k \in DOMAIN e.heap[b][1] : e.heap[b][1][k] # Raw
  <2>0. b \in HeapBuffers /\ e.seqs \in [Objects -> Shapes] /\ e.heap \in [HeapBuffers -> Heaps] /\ e.seqs[i] \in Shapes
    BY <1>4, <1>5, <1>8, RecordFacts
  <2>1. e.heap[b][1] = cells
    BY <1>4, <1>8 DEF data, is_small
  <2>2. ~sso => ~wrong
    BY <1>2, <1>3, <2>1
  <2>3. t = Misuse(g, wrong)
    BY <1>4, <1>6, <1>8, Zenon DEF free_buffer
  <2>4. g = [[e EXCEPT !.heap = [e.heap EXCEPT ![b] = Unallocated]]
               EXCEPT !.seqs = [e.seqs EXCEPT ![i] = [e.seqs[i] EXCEPT !.buffer = Null]]]
    BY <1>4, <2>0 DEF Memory
  <2>5. /\ g.heap = [e.heap EXCEPT ![b] = Unallocated] /\ g.misused = FALSE
        /\ g.seqs = [e.seqs EXCEPT ![i] = [e.seqs[i] EXCEPT !.buffer = Null]]
    BY <1>4, <2>4 DEF Memory
  <2>6. Unallocated \in Heaps /\ [e.seqs[i] EXCEPT !.buffer = Null] \in Shapes
    BY <2>0 DEF Heaps, Shapes, Null
  <2>7. g.heap \in [HeapBuffers -> Heaps] /\ g.seqs \in [Objects -> Shapes]
    BY <2>0, <2>5, <2>6
  <2>8. g \in Memory
    BY <1>4, <2>4, <2>5, <2>7, Zenon DEF Memory
  <2>9. /\ \A j \in Objects \ {i} : g.seqs[j] = m.seqs[j]
        /\ \A c \in HeapBuffers \ {b} : g.heap[c] = m.heap[c]
        /\ g.heap[b] = Unallocated
    BY <1>4, <2>0, <2>5
  <2> HIDE DEF g, wrong
  <2>10. t = g
    <3>1. (g.misused \/ (~sso /\ wrong)) = FALSE
      BY <2>2, <2>5
    <3>2. Misuse(g, wrong) = [g EXCEPT !.misused = FALSE]
      BY <3>1, Zenon DEF Misuse
    <3> QED BY <2>3, <2>5, <2>8, <3>2, SameRecord, Zenon
  <2>11. Rest(g, f, i, Null)
    BY <1>5, <1>8, <2>5, <2>8, <2>9, RestKept, Zenon
  <2> QED BY <2>9, <2>10, <2>11
<1> QED BY <1>7, <1>8

LEMMA Created ==
  ASSUME Params, sso \in BOOLEAN, NEW m, NEW f \in [Objects -> Seq(Elems)], NEW i \in Objects,
         Rest(m, f, i, Null), NEW cap \in Nat
  PROVE  /\ Gives(m, create(m, i, cap), f, i, << >>)
         /\ Len(data(create(m, i, cap), i)) = cap
<1> DEFINE b == CHOOSE b \in HeapBuffers : m.heap[b] = Unallocated /\ \A c \in 1 .. b - 1 : m.heap[c] # Unallocated
           t == create(m, i, cap)
           o == [Empty EXCEPT !.flag = sso, !.buffer = b]
<1>1. b \in HeapBuffers /\ m.heap[b] = Unallocated
  BY BufferLeft, Zenon
<1>2. t = [m EXCEPT !.heap[b] = <<Raws(cap)>>, !.seqs[i] = o]
  BY DEF create
<1> HIDE DEF b, t
<1>3. m \in Memory /\ m.misused = FALSE /\ m.seqs \in [Objects -> Shapes] /\ m.heap \in [HeapBuffers -> Heaps]
  BY RecordFacts DEF Rest
<1>4. /\ o \in Shapes /\ o.flag = sso /\ o.buffer = b /\ o.n = 0 /\ Len(o.inline) = ShortCapacity
  <2>1. b \in 0 .. 4
    BY <1>1 DEF HeapBuffers
  <2> HIDE DEF o
  <2>2. o = [[Empty EXCEPT !.flag = sso] EXCEPT !.buffer = b]
    BY DEF o
  <2> QED BY <2>1, <2>2, EmptyType, Zenon DEF Shapes
<1> HIDE DEF o
<1>5. t = [[m EXCEPT !.heap = [m.heap EXCEPT ![b] = <<Raws(cap)>>]] EXCEPT !.seqs = [m.seqs EXCEPT ![i] = o]]
  BY <1>1, <1>2, <1>3 DEF Memory
<1>6. /\ t.heap = [m.heap EXCEPT ![b] = <<Raws(cap)>>] /\ t.misused = FALSE
      /\ t.seqs = [m.seqs EXCEPT ![i] = o]
  BY <1>3, <1>5 DEF Memory
<1>7. <<Raws(cap)>> \in Heaps /\ <<Raws(cap)>> # Unallocated /\ <<Raws(cap)>>[1] = Raws(cap)
  BY RawsType, BufferNotFree DEF Heaps
<1>8. t \in Memory
  <2>1. t.heap \in [HeapBuffers -> Heaps] /\ t.seqs \in [Objects -> Shapes]
    BY <1>1, <1>3, <1>4, <1>6, <1>7
  <2> QED BY <1>3, <1>5, <1>6, <2>1, Zenon DEF Memory
<1>9. /\ t.seqs[i] = o /\ \A j \in Objects \ {i} : t.seqs[j] = m.seqs[j]
      /\ t.heap[b] = <<Raws(cap)>> /\ \A c \in HeapBuffers \ {b} : t.heap[c] = m.heap[c]
  BY <1>1, <1>3, <1>6
<1>10. b # Null
  BY <1>1 DEF HeapBuffers, Null
<1>11. data(t, i) = Raws(cap)
  BY <1>4, <1>7, <1>9, <1>10 DEF data, is_small
<1>12. ObjectOK(t, i)
  BY <1>4, <1>7, <1>9, <1>10, Zenon DEF ObjectOK
<1>13. Holds(t, i, << >>)
  <2>1. << >> \in Seq(Elems) /\ Len(<< >>) = 0
    OBVIOUS
  <2> QED BY <1>4, <1>9, <1>11, <2>1, RawsType DEF Holds
<1>14. Rest(m, f, i, b)
  <2>1. \A j \in Objects \ {i} : m.seqs[j].buffer # b
    <3>1. \A j \in Objects \ {i} : m.seqs[j].buffer # Null => m.heap[m.seqs[j].buffer] # Unallocated
      BY DEF Rest, ObjectOK
    <3> QED BY <1>1, <1>10, <3>1
  <2>2. ASSUME NEW c \in HeapBuffers, m.heap[c] # Unallocated PROVE \E j \in Objects \ {i} : m.seqs[j].buffer = c
    <3>1. c # Null
      BY DEF HeapBuffers, Null
    <3> QED BY <2>2, <3>1 DEF Rest
  <2>3. \A j \in Objects \ {i} : ObjectOK(m, j) /\ Holds(m, j, f[j])
    BY DEF Rest
  <2>4. \A j, k \in Objects \ {i} : j # k /\ m.seqs[j].buffer # Null => m.seqs[j].buffer # m.seqs[k].buffer
    BY DEF Rest
  <2> QED BY <1>3, <2>1, <2>2, <2>3, <2>4 DEF Rest
<1>15. Gives(m, t, f, i, << >>)
  BY <1>1, <1>4, <1>6, <1>8, <1>9, <1>12, <1>13, <1>14, Whole, Zenon
<1> QED BY <1>11, <1>15, RawsType DEF t

LEMMA GivesTrans ==
  ASSUME NEW m, NEW t, NEW u, NEW f \in [Objects -> Seq(Elems)], NEW i \in Objects, NEW xs, NEW ys,
         Gives(m, t, f, i, xs), Gives(t, u, [f EXCEPT ![i] = xs], i, ys)
  PROVE  Gives(m, u, f, i, ys)
<1>1. [[f EXCEPT ![i] = xs] EXCEPT ![i] = ys] = [f EXCEPT ![i] = ys]
  BY Zenon
<1> QED BY <1>1 DEF Gives

Vacated(m, i) == [m EXCEPT !.seqs[i] = Empty]

LEMMA DestroyGives ==
  ASSUME Params, sso \in BOOLEAN, NEW m, NEW f \in [Objects -> Seq(Elems)], NEW i \in Objects,
         Rest(m, f, i, Null)
  PROVE  Gives(m, Vacated(m, i), f, i, << >>) /\ Vacated(m, i).seqs[i] = Empty
<1> DEFINE t == Vacated(m, i)
<1>0. t = [m EXCEPT !.seqs[i] = Empty]
  BY DEF Vacated
<1> HIDE DEF t
<1>1. m \in Memory /\ m.misused = FALSE /\ m.seqs \in [Objects -> Shapes]
  BY RecordFacts DEF Rest
<1>2. t.seqs = [m.seqs EXCEPT ![i] = Empty] /\ t.heap = m.heap /\ t.misused = FALSE
  BY <1>0, <1>1 DEF Memory
<1>3. t \in Memory
  <2>1. t.seqs \in [Objects -> Shapes]
    BY <1>1, <1>2, EmptyType
  <2> QED BY <1>0, <1>1, <1>2, <2>1, Zenon DEF Memory
<1>4. t.seqs[i] = Empty /\ \A j \in Objects \ {i} : t.seqs[j] = m.seqs[j]
  BY <1>1, <1>2
<1>5. ObjectOK(t, i)
  BY <1>4, EmptyType, Zenon DEF ObjectOK
<1>6. Holds(t, i, << >>)
  <2>1. << >> \in Seq(Elems) /\ Len(<< >>) = 0
    OBVIOUS
  <2>2. data(t, i) \in Seq(Cells)
    BY <1>3, <1>5, DataType
  <2>3. ~sso => data(t, i) = << >>
    BY <1>4, EmptyType DEF data, is_small
  <2>4. t.seqs[i].n = 0
    BY <1>4, EmptyType
  <2>5. \A k \in 1 .. Len(<< >>) : FALSE
    BY <2>1
  <2>6. ~sso => \A k \in 1 .. Len(data(t, i)) : FALSE
    BY <2>1, <2>3
  <2>7. 0 <= Len(data(t, i))
    BY <2>2
  <2> HIDE DEF t
  <2> QED BY <2>1, <2>4, <2>5, <2>6, <2>7 DEF Holds
<1>7. t.seqs[i].buffer = Null /\ Null \in HeapBuffers \cup {Null}
  BY <1>4, EmptyType
<1>8. \A c \in HeapBuffers \ {Null} : t.heap[c] = m.heap[c]
  BY <1>2
<1>9. Gives(m, t, f, i, << >>)
  BY <1>2, <1>3, <1>4, <1>5, <1>6, <1>7, <1>8, Whole, Zenon
<1> QED BY <1>4, <1>9 DEF t

LEMMA ClearGives ==
  ASSUME Params, sso \in BOOLEAN, NEW m, NEW f, Good(m, f), NEW i \in Objects
  PROVE  Gives(m, clear(m, i), f, i, << >>) /\ clear(m, i).seqs[i] = Empty
<1>0. f \in [Objects -> Seq(Elems)]
  BY DEF Good
<1>1. CASE is_small(m, i)
  <2>1. m.seqs[i].buffer = Null
    BY <1>1, GoodRest, Zenon DEF is_small, ObjectOK
  <2>2. Rest(m, f, i, Null)
    BY <2>1, GoodRest, Zenon
  <2>3. clear(m, i) = Vacated(m, i)
    BY <1>1 DEF clear, Vacated
  <2> QED BY <1>0, <2>2, <2>3, DestroyGives
<1>2. CASE ~is_small(m, i)
  <2> DEFINE t == free_buffer(destroy(m, i, 0, size(m, i)), i)
  <2>1. Rest(t, f, i, Null) /\ \A j \in Objects \ {i} : t.seqs[j] = m.seqs[j]
    BY <1>2, Freed
  <2>2. clear(m, i) = Vacated(t, i)
    BY <1>2 DEF clear, Vacated
  <2> HIDE DEF t
  <2>3. Gives(t, clear(m, i), f, i, << >>) /\ clear(m, i).seqs[i] = Empty
    BY <1>0, <2>1, <2>2, DestroyGives
  <2> QED BY <2>1, <2>3 DEF Gives
<1> QED BY <1>1, <1>2

(* An empty object given a capacity, and elements.                         *)
LEMMA HoldsNothing ==
  ASSUME Params, NEW m, NEW f, Good(m, f), NEW i \in Objects, m.seqs[i] = Empty
  PROVE  f[i] = << >>
<1>1. f[i] \in Seq(Elems) /\ m.seqs[i].n = Len(f[i])
  BY GoodRest, Zenon DEF Holds
<1> QED BY <1>1, EmptyType

LEMMA CapacityInitialized ==
  ASSUME Params, sso \in BOOLEAN, NEW m, NEW f, Good(m, f), NEW i \in Objects, m.seqs[i] = Empty,
         NEW desired \in Nat
  PROVE  /\ Gives(m, initialize_capacity(m, i, desired), f, i, << >>)
         /\ Len(data(initialize_capacity(m, i, desired), i)) >= desired
<1>0. f \in [Objects -> Seq(Elems)] /\ f[i] = << >>
  <2>1. f[i] = << >>
    BY HoldsNothing
  <2> QED BY <2>1 DEF Good
<1>1. CASE sso /\ desired <= ShortCapacity
  <2>1. m \in Memory /\ m.seqs \in [Objects -> Shapes]
    BY GoodRest, RecordFacts, Zenon
  <2>2. [m.seqs[i] EXCEPT !.flag = FALSE] = m.seqs[i]
    BY <2>1, EmptyType, Zenon DEF Shapes
  <2>3. [m EXCEPT !.seqs[i].flag = FALSE] = m
    BY <2>1, <2>2 DEF Memory
  <2>4. initialize_capacity(m, i, desired) = m
    BY <1>1, <2>3 DEF initialize_capacity
  <2>5. data(m, i) = Empty.inline
    BY <1>1, EmptyType, Zenon DEF data, is_small
  <2>6. Gives(m, m, f, i, << >>)
    BY <1>0, GivesSame
  <2> QED BY <1>1, <2>4, <2>5, <2>6, EmptyType DEF Params
<1>2. CASE ~(sso /\ desired <= ShortCapacity)
  <2>1. initialize_capacity(m, i, desired) = create(m, i, desired)
    BY <1>2 DEF initialize_capacity
  <2>2. Rest(m, f, i, Null)
    BY GoodRest, EmptyType, Zenon
  <2>3. /\ Gives(m, create(m, i, desired), f, i, << >>)
        /\ Len(data(create(m, i, desired), i)) = desired
    BY <1>0, <2>2, Created, Zenon
  <2> QED BY <2>1, <2>3
<1> QED BY <1>1, <1>2

Filled(m, i, xs) == set_size(initialize(m, i, 0, xs), i, Len(xs))

LEMMA FilledGives ==
  ASSUME Params, sso \in BOOLEAN, NEW m, NEW f, Good(m, f), NEW i \in Objects, Len(f[i]) = 0,
         NEW xs \in Seq(Elems), Len(xs) <= Len(data(m, i))
  PROVE  Gives(m, Filled(m, i, xs), f, i, xs) /\ Len(data(Filled(m, i, xs), i)) = Len(data(m, i))
<1> DEFINE n == Len(f[i])
           u == Built(m, i, n, xs)
<1>1. n = 0 /\ n + Len(xs) = Len(xs) /\ f[i] \o xs = xs
  <2>1. f[i] \in Seq(Elems)
    BY DEF Good
  <2>2. Len(xs) \in Nat
    OBVIOUS
  <2> QED BY <2>1, <2>2
<1> HIDE DEF n
<1>2. n = Len(f[i])
  BY DEF n
<1>3. Gives(m, u, f, i, f[i] \o xs) /\ Len(data(u, i)) = Len(data(m, i))
  <2>1. n + Len(xs) <= Len(data(m, i))
    BY <1>1
  <2> QED BY <1>2, <2>1, Grows
<1>4. u = Filled(m, i, xs)
  BY <1>1 DEF Filled, Built
<1> HIDE DEF u
<1> QED BY <1>1, <1>3, <1>4

LEMMA Initialized ==
  ASSUME Params, sso \in BOOLEAN, NEW m, NEW f, Good(m, f), NEW i \in Objects, m.seqs[i] = Empty,
         NEW xs \in Seq(Elems)
  PROVE  Gives(m, initialized(m, i, xs), f, i, xs)
<1> DEFINE t == initialize_capacity(m, i, Len(xs))
           g == [f EXCEPT ![i] = << >>]
<1>0. f \in [Objects -> Seq(Elems)] /\ Len(xs) \in Nat /\ initialized(m, i, xs) = Filled(t, i, xs)
  BY DEF Good, initialized, Filled
<1>1. Gives(m, t, f, i, << >>) /\ Len(data(t, i)) >= Len(xs)
  BY <1>0, CapacityInitialized
<1> HIDE DEF t
<1>2. Good(t, g) /\ Len(g[i]) = 0
  BY <1>0, <1>1 DEF Gives
<1> HIDE DEF g
<1>3. Gives(t, Filled(t, i, xs), g, i, xs)
  <2>1. Len(xs) <= Len(data(t, i))
    <3>1. t \in Memory /\ ObjectOK(t, i)
      BY <1>2, GoodRest, Zenon
    <3>2. data(t, i) \in Seq(Cells)
      BY <3>1, DataType
    <3> QED BY <1>0, <1>1, <3>2
  <2> QED BY <1>2, <2>1, FilledGives
<1> QED BY <1>0, <1>1, <1>3, GivesTrans, Zenon DEF g

-----------------------------------------------------------------------------
(* A relocation leaves nothing out.                                        *)
LEMMA Division ==
  ASSUME NEW a \in Nat, NEW b \in Nat, b > 0
  PROVE  a \div b \in Nat /\ b * (a \div b) <= a /\ a < b * (a \div b) + b
OBVIOUS

LEMMA Chunk ==
  ASSUME NEW c \in Nat, NEW N \in Nat, NEW b \in Nat, b > 0, b * c < b * N
  PROVE  c < N
<1> SUFFICES ASSUME N <= c PROVE FALSE
  OBVIOUS
<1>1. PICK d \in Nat : c = N + d
  <2>1. c - N \in Nat /\ c = N + (c - N)
    OBVIOUS
  <2> QED BY <2>1
<1>2. b * c = b * N + b * d /\ b * d \in Nat
  BY <1>1
<1>3. b * N \in Nat /\ b * c \in Nat
  OBVIOUS
<1> DEFINE x == b * c
           y == b * N
           z == b * d
<1> HIDE DEF x, y, z
<1>4. x = y + z /\ z \in Nat /\ y \in Nat /\ x \in Nat /\ x < y
  BY <1>2, <1>3 DEF x, y, z
<1> QED BY <1>4

LEMMA Relocated ==
  ASSUME Params, NEW S, NEW xs \in Seq(S)
  PROVE  uninitialized_relocate_n(xs) = xs
<1> DEFINE L == Len(xs)
           N == (L + ChunkSize - 1) \div ChunkSize
           chunk(c) == {c * ChunkSize + k : k \in 1 .. SmallerOf(ChunkSize, L - c * ChunkSize)}
           those == UNION {chunk(c) : c \in 0 .. N - 1}
<1>1. L \in Nat /\ ChunkSize \in Nat /\ ChunkSize > 0 /\ DOMAIN xs = 1 .. L
  BY DEF Params
<1>2. N \in Nat /\ ChunkSize * N >= L
  <2>1. L + ChunkSize - 1 \in Nat
    BY <1>1
  <2>2. N \in Nat /\ L + ChunkSize - 1 < ChunkSize * N + ChunkSize
    BY <1>1, <2>1, Division
  <2> HIDE DEF N
  <2> DEFINE x == ChunkSize * N
  <2>3. x \in Nat
    BY <1>1, <2>2
  <2> HIDE DEF x
  <2>4. L + ChunkSize - 1 < x + ChunkSize
    BY <2>2 DEF x
  <2>5. x >= L
    BY <1>1, <2>3, <2>4
  <2> QED BY <2>2, <2>5 DEF x
<1>3. ASSUME NEW k \in 1 .. L PROVE k \in those
  <2> DEFINE c == (k - 1) \div ChunkSize
             x == c * ChunkSize
             r == k - x
  <2>1. k - 1 \in Nat
    OBVIOUS
  <2>2. c \in Nat /\ ChunkSize * c <= k - 1 /\ k - 1 < ChunkSize * c + ChunkSize
    BY <1>1, <2>1, Division
  <2> HIDE DEF c, N
  <2>3. x \in Nat /\ ChunkSize * c = x
    BY <1>1, <2>2
  <2>4. x <= k - 1 /\ k - 1 < x + ChunkSize
    BY <2>2, <2>3
  <2>5. c < N
    <3>1. ChunkSize * N \in Nat /\ ChunkSize * c \in Nat
      BY <1>1, <1>2, <2>2
    <3>2. ChunkSize * c < ChunkSize * N
      BY <1>1, <1>2, <2>2, <3>1
    <3> QED BY <1>1, <1>2, <2>2, <3>2, Chunk
  <2> HIDE DEF x
  <2>6. r \in 1 .. SmallerOf(ChunkSize, L - x) /\ k = x + r
    <3>1. r \in Nat /\ 1 <= r /\ r <= ChunkSize /\ r <= L - x /\ k = x + r
      BY <1>1, <2>3, <2>4
    <3> QED BY <1>1, <2>3, <3>1 DEF SmallerOf
  <2>7. k \in chunk(c)
    BY <2>6 DEF x
  <2>8. c \in 0 .. N - 1
    BY <1>2, <2>2, <2>5
  <2> HIDE DEF chunk
  <2> QED BY <2>7, <2>8
<1> HIDE DEF those
<1>4. uninitialized_relocate_n(xs) = [k \in DOMAIN xs |-> IF k \in those THEN xs[k] ELSE Raw]
  BY DEF uninitialized_relocate_n, those
<1>5. \A k \in DOMAIN xs : k \in those
  BY <1>1, <1>3
<1>6. uninitialized_relocate_n(xs) = [k \in DOMAIN xs |-> xs[k]]
  BY <1>4, <1>5
<1> QED BY <1>6

LEMMA Ensured ==
  ASSUME Params, sso \in BOOLEAN, NEW m, NEW f, Good(m, f), NEW i \in Objects, NEW desired \in Nat
  PROVE  /\ Gives(m, ensure_capacity(m, i, desired), f, i, f[i])
         /\ Len(data(ensure_capacity(m, i, desired), i)) >= desired
<1> DEFINE n == Len(f[i])
           e == destroy(m, i, 0, n)
           released == FreedOld(e, i)
           cap == BiggerOf(desired, (5 * capacity(m, i)) \div 2)
           grown == create(released, i, cap)
           g == [f EXCEPT ![i] = << >>]
           u == Filled(grown, i, f[i])
<1>0. Facts(m, i, f[i]) /\ f \in [Objects -> Seq(Elems)]
  BY HoldsFacts, Zenon DEF Good
<1>1. /\ f[i] \in Seq(Elems) /\ n \in Nat /\ size(m, i) = n /\ contents(m, i) = f[i]
      /\ capacity(m, i) = Len(data(m, i)) /\ capacity(m, i) \in Nat /\ n <= Len(data(m, i))
  BY <1>0 DEF Facts
<1>4. Edited(m, e, i, [k \in DOMAIN data(m, i) |-> IF k \in 0 + 1 .. n THEN Raw ELSE data(m, i)[k]])
  <2> DEFINE d == data(m, i)
             cells == [k \in DOMAIN d |-> IF k \in 0 + 1 .. n THEN Raw ELSE d[k]]
  <2>1. m \in Memory /\ m.misused = FALSE /\ ObjectOK(m, i) /\ n \in Nat /\ n <= Len(d) /\ 0 \in Nat
    BY <1>0 DEF Facts
  <2>2. ~sso => \A k \in 0 + 1 .. n : d[k] # Raw
    BY <1>0 DEF Facts
  <2> HIDE DEF n
  <2>3. cells \in Seq(Cells) /\ Len(cells) = Len(d) /\ Edited(m, e, i, cells)
    BY <2>1, <2>2, DestroyFacts, Zenon
  <2> QED BY <2>3
<1>2. CASE capacity(m, i) >= desired
  <2>1. ensure_capacity(m, i, desired) = m
    BY <1>2 DEF ensure_capacity
  <2> QED BY <1>1, <1>2, <2>1, GivesSame
<1>3. CASE ~(capacity(m, i) >= desired)
  <2>1. ensure_capacity(m, i, desired) = u
    <3>1. uninitialized_relocate_n(f[i]) = f[i]
      BY <1>1, Relocated
    <3> QED BY <1>1, <1>3, <3>1 DEF ensure_capacity, Filled
  <2>2. Rest(released, f, i, Null) /\ \A j \in Objects \ {i} : released.seqs[j] = m.seqs[j]
    <3>1. CASE is_small(m, i)
      <4>2. /\ e \in Memory /\ e.misused = FALSE
            /\ \A j \in Objects \ {i} : e.seqs[j] = m.seqs[j]
            /\ e.seqs[i].buffer = m.seqs[i].buffer /\ e.seqs[i].flag = m.seqs[i].flag
            /\ \A c \in HeapBuffers \ {m.seqs[i].buffer} : e.heap[c] = m.heap[c]
        BY <1>4 DEF Edited
      <4>3. m.seqs[i].buffer = Null
        BY <3>1, GoodRest, Zenon DEF is_small, ObjectOK
      <4>4. Rest(m, f, i, Null) /\ Null \in HeapBuffers \cup {Null}
        BY <4>3, GoodRest, Zenon
      <4>5. Rest(e, f, i, Null)
        BY <4>2, <4>3, <4>4, RestKept, Zenon
      <4>6. released = e
        BY <3>1, <4>2 DEF FreedOld, is_small
      <4> QED BY <4>2, <4>5, <4>6
    <3>2. CASE ~is_small(m, i)
      <4>1. is_small(e, i) = is_small(m, i)
        BY <1>4 DEF Edited, is_small
      <4>2. released = free_buffer(destroy(m, i, 0, size(m, i)), i)
        BY <1>1, <3>2, <4>1 DEF FreedOld
      <4> HIDE DEF released
      <4> QED BY <3>2, <4>2, Freed
    <3> QED BY <3>1, <3>2
  <2> HIDE DEF released
  <2>3. cap \in Nat /\ cap >= desired /\ cap >= n
    <3>1. (5 * capacity(m, i)) \div 2 \in Nat
      BY <1>1
    <3>2. n <= desired
      BY <1>1, <1>3
    <3> HIDE DEF n
    <3> QED BY <1>1, <3>1, <3>2 DEF BiggerOf
  <2> HIDE DEF cap
  <2>4. Gives(released, grown, f, i, << >>) /\ Len(data(grown, i)) = cap
    BY <1>0, <2>2, <2>3, Created, Zenon
  <2> HIDE DEF grown
  <2>5. Good(grown, g) /\ Len(g[i]) = 0
    BY <1>0, <2>4 DEF Gives
  <2> HIDE DEF g
  <2>8. Gives(grown, u, g, i, f[i]) /\ Len(data(u, i)) = cap
    <3>1. Len(f[i]) <= Len(data(grown, i))
      BY <2>3, <2>4
    <3> QED BY <1>1, <2>4, <2>5, <3>1, FilledGives
  <2> HIDE DEF u
  <2>9. Gives(released, u, f, i, f[i])
    BY <1>0, <2>4, <2>8, GivesTrans, Zenon DEF g
  <2>10. Gives(m, u, f, i, f[i])
    BY <2>2, <2>9 DEF Gives
  <2> QED BY <2>1, <2>3, <2>8, <2>10
<1> QED BY <1>2, <1>3

-----------------------------------------------------------------------------
(* The functions that leave the other objects as they are.                 *)
LEMMA EnsuredSame ==
  ASSUME Params, sso \in BOOLEAN, NEW m, NEW f, Good(m, f), NEW i \in Objects, NEW desired \in Nat
  PROVE  /\ Good(ensure_capacity(m, i, desired), f)
         /\ \A j \in Objects \ {i} : ensure_capacity(m, i, desired).seqs[j] = m.seqs[j]
         /\ Len(data(ensure_capacity(m, i, desired), i)) >= desired
<1>1. f \in [Objects -> Seq(Elems)]
  BY DEF Good
<1>2. [f EXCEPT ![i] = f[i]] = f
  BY <1>1
<1> QED BY <1>2, Ensured DEF Gives

LEMMA SizeIs ==
  ASSUME Params, sso \in BOOLEAN, NEW m, NEW f, Good(m, f), NEW i \in Objects
  PROVE  size(m, i) = Len(f[i]) /\ contents(m, i) = f[i] /\ f[i] \in Seq(Elems) /\ Len(f[i]) \in Nat
<1>1. Facts(m, i, f[i])
  BY HoldsFacts
<1> QED BY <1>1 DEF Facts

LEMMA BuiltMore ==
  ASSUME Params, sso \in BOOLEAN, NEW m, NEW f, Good(m, f), NEW i \in Objects, NEW xs \in Seq(Elems),
         NEW n, n = Len(f[i]), NEW k, k = n + Len(xs)
  PROVE  Gives(m, Built(ensure_capacity(m, i, k), i, n, xs), f, i, f[i] \o xs)
<1> DEFINE t == ensure_capacity(m, i, k)
<1>1. n \in Nat /\ k \in Nat
  BY SizeIs
<1>2. Good(t, f) /\ (\A j \in Objects \ {i} : t.seqs[j] = m.seqs[j]) /\ Len(data(t, i)) >= k
  BY <1>1, EnsuredSame
<1> HIDE DEF t
<1>3. n + Len(xs) <= Len(data(t, i))
  <2>1. data(t, i) \in Seq(Cells)
    BY <1>2, GoodRest, DataType, Zenon
  <2> QED BY <1>1, <1>2, <2>1
<1>4. Gives(t, Built(t, i, n, xs), f, i, f[i] \o xs)
  BY <1>2, <1>3, Grows
<1> QED BY <1>2, <1>4 DEF Gives, t

LEMMA RangeAppended ==
  ASSUME Params, sso \in BOOLEAN, NEW m, NEW f, Good(m, f), NEW i \in Objects, NEW xs \in Seq(Elems)
  PROVE  Gives(m, append_range(m, i, xs), f, i, f[i] \o xs)
<1> DEFINE n == Len(f[i])
<1>1. size(m, i) = n
  BY SizeIs
<1>2. append_range(m, i, xs) = Built(ensure_capacity(m, i, n + Len(xs)), i, n, xs)
  BY <1>1 DEF append_range, Built
<1> QED BY <1>2, BuiltMore

LEMMA ManyType ==
  ASSUME NEW n \in Nat, NEW v, v \in Elems \/ n = 0
  PROVE  Many(n, v) \in Seq(Elems) /\ Len(Many(n, v)) = n
<1>1. Many(n, v) \in [1 .. n -> Elems]
  BY DEF Many
<1> QED BY <1>1

LEMMA NAppended ==
  ASSUME Params, sso \in BOOLEAN, NEW m, NEW f, Good(m, f), NEW i \in Objects,
         NEW n \in Nat, NEW v \in Elems
  PROVE  Gives(m, append_n(m, i, n, v), f, i, f[i] \o Many(n, v))
<1>1. append_n(m, i, n, v) = append_range(m, i, Many(n, v))
  BY DEF append_n, Many
<1> QED BY <1>1, ManyType, RangeAppended

LEMMA BackEmplaced ==
  ASSUME Params, sso \in BOOLEAN, NEW m, NEW f, Good(m, f), NEW i \in Objects, NEW v \in Elems
  PROVE  Gives(m, emplace_back(m, i, v), f, i, Append(f[i], v))
<1> DEFINE n == Len(f[i])
<1>1. size(m, i) = n /\ f[i] \in Seq(Elems)
  BY SizeIs
<1>2. <<v>> \in Seq(Elems) /\ Len(<<v>>) = 1 /\ f[i] \o <<v>> = Append(f[i], v)
  BY <1>1
<1>3. emplace_back(m, i, v) = Built(ensure_capacity(m, i, n + 1), i, n, <<v>>)
  BY <1>1, <1>2 DEF emplace_back, Built
<1> DEFINE xs == <<v>>
<1> HIDE DEF xs
<1>4. Gives(m, Built(ensure_capacity(m, i, n + 1), i, n, xs), f, i, f[i] \o xs)
  <2>1. n + 1 = n + Len(xs) /\ xs \in Seq(Elems)
    BY <1>2 DEF xs
  <2> QED BY <2>1, BuiltMore
<1> QED BY <1>2, <1>3, <1>4, Zenon DEF xs

LEMMA BackPopped ==
  ASSUME Params, sso \in BOOLEAN, NEW m, NEW f, Good(m, f), NEW i \in Objects, Len(f[i]) > 0
  PROVE  Gives(m, pop_back(m, i), f, i, SubSeq(f[i], 1, Len(f[i]) - 1))
<1> DEFINE n == Len(f[i])
<1>1. size(m, i) = n /\ n \in Nat
  BY SizeIs
<1>2. pop_back(m, i) = set_size(destroy(m, i, n - 1, n), i, n - 1)
  BY <1>1 DEF pop_back
<1>3. n - 1 \in 0 .. n
  BY <1>1
<1> QED BY <1>2, <1>3, Shrinks

LEMMA SizeChanged ==
  ASSUME Params, sso \in BOOLEAN, NEW m, NEW f, Good(m, f), NEW i \in Objects, NEW n \in Nat,
         NEW v, v \in Elems \/ n <= Len(f[i])
  PROVE  Gives(m, resize(m, i, n, v), f, i,
               IF n < Len(f[i]) THEN SubSeq(f[i], 1, n) ELSE f[i] \o Many(n - Len(f[i]), v))
<1> DEFINE c == Len(f[i])
<1>1. size(m, i) = c /\ c \in Nat
  BY SizeIs
<1>2. CASE n < c
  <2>1. resize(m, i, n, v) = set_size(destroy(m, i, n, c), i, n)
    BY <1>1, <1>2 DEF resize
  <2>2. n \in 0 .. c
    BY <1>1, <1>2
  <2>3. Gives(m, resize(m, i, n, v), f, i, SubSeq(f[i], 1, n))
    BY <2>1, <2>2, Shrinks
  <2> QED BY <1>2, <2>3
<1>3. CASE ~(n < c)
  <2> DEFINE xs == Many(n - c, v)
  <2>1. n - c \in Nat /\ (v \in Elems \/ n - c = 0)
    BY <1>1, <1>3
  <2>2. xs \in Seq(Elems) /\ Len(xs) = n - c
    BY <2>1, ManyType, Zenon
  <2>3. n = c + Len(xs)
    <3> HIDE DEF xs
    <3> QED BY <1>1, <2>1, <2>2
  <2>4. resize(m, i, n, v) = set_size(initialize(ensure_capacity(m, i, n), i, c, xs), i, n)
    BY <1>1, <1>3 DEF resize, Many
  <2> HIDE DEF xs
  <2>5. resize(m, i, n, v) = Built(ensure_capacity(m, i, n), i, c, xs)
    BY <2>3, <2>4 DEF Built
  <2>6. Gives(m, resize(m, i, n, v), f, i, f[i] \o xs)
    BY <2>2, <2>3, <2>5, BuiltMore
  <2> QED BY <1>3, <2>6 DEF xs
<1> QED BY <1>2, <1>3

(* append_each as a recursive function.                                    *)
EachBy(m, i, xs, g, k) == IF k = 0 THEN m ELSE emplace_back(g[k - 1], i, xs[k])
EachOf(m, i, xs) == CHOOSE g : g = [k \in 0 .. Len(xs) |-> EachBy(m, i, xs, g, k)]

LEMMA EachExists ==
  ASSUME NEW m, NEW i, NEW xs, NEW N \in Nat, N = Len(xs)
  PROVE  EachOf(m, i, xs) = [k \in 0 .. N |-> EachBy(m, i, xs, EachOf(m, i, xs), k)]
<1> DEFINE D(j) == {n \in 0 .. N : n <= j}
           Lists(f, j) == f = [n \in D(j) |-> EachBy(m, i, xs, f, n)]
           T == {j \in Nat : \E f : Lists(f, j)}
<1>1. 0 \in T
  <2> DEFINE f == [n \in D(0) |-> m]
  <2>1. \A n \in D(0) : n = 0
    OBVIOUS
  <2>2. f = [n \in D(0) |-> EachBy(m, i, xs, f, n)]
    BY <2>1 DEF EachBy
  <2> QED BY <2>2, Zenon
<1>2. ASSUME NEW j \in Nat, j \in T PROVE j + 1 \in T
  <2>1. PICK f : Lists(f, j)
    BY <1>2, Zenon
  <2> DEFINE g == [n \in D(j + 1) |-> EachBy(m, i, xs, f, n)]
  <2>2. ASSUME NEW n \in D(j + 1) PROVE EachBy(m, i, xs, g, n) = EachBy(m, i, xs, f, n)
    <3>1. CASE n = 0
      BY <3>1 DEF EachBy
    <3>2. CASE n # 0
      <4>1. n - 1 \in D(j) /\ n - 1 \in D(j + 1)
        BY <3>2
      <4>2. g[n - 1] = EachBy(m, i, xs, f, n - 1) /\ f[n - 1] = EachBy(m, i, xs, f, n - 1)
        <5> HIDE DEF D
        <5> QED BY <2>1, <4>1
      <4> HIDE DEF g
      <4> QED BY <3>2, <4>2 DEF EachBy
    <3> QED BY <3>1, <3>2
  <2>3. Lists(g, j + 1)
    BY <2>2
  <2> HIDE DEF g
  <2> HIDE DEF Lists
  <2> QED BY <2>3
<1>3. Nat \subseteq T
  <2> HIDE DEF T
  <2> QED BY <1>1, <1>2, SetInduction
<1>4. N \in T
  BY <1>3, Zenon
<1>5. D(N) = 0 .. N
  OBVIOUS
<1>6. \E f : f = [n \in 0 .. N |-> EachBy(m, i, xs, f, n)]
  BY <1>4, <1>5, Zenon
<1> QED BY <1>6, Zenon DEF EachOf

LEMMA AppendLast ==
  ASSUME NEW S, NEW a \in Seq(S), NEW b \in Seq(S), NEW x \in S
  PROVE  a \o Append(b, x) = Append(a \o b, x)
<1> DEFINE ys == a \o Append(b, x)
           zs == Append(a \o b, x)
<1>1. /\ ys \in Seq(S) /\ zs \in Seq(S)
      /\ Len(ys) = Len(a) + Len(b) + 1 /\ Len(zs) = Len(a) + Len(b) + 1
  OBVIOUS
<1>2. ASSUME NEW k \in 1 .. Len(a) + Len(b) + 1 PROVE ys[k] = zs[k]
  <2>1. CASE k <= Len(a)
    BY <2>1
  <2>2. CASE k > Len(a) /\ k <= Len(a) + Len(b)
    BY <2>2
  <2>3. CASE k = Len(a) + Len(b) + 1
    BY <2>3
  <2> QED BY <2>1, <2>2, <2>3
<1> HIDE DEF ys, zs
<1> QED BY <1>1, <1>2

LEMMA EachAppended ==
  ASSUME Params, sso \in BOOLEAN, NEW m, NEW f, Good(m, f), NEW i \in Objects, NEW xs \in Seq(Elems)
  PROVE  Gives(m, append_each(m, i, xs), f, i, f[i] \o xs)
<1> DEFINE N == Len(xs)
           upto == EachOf(m, i, xs)
           first(k) == f[i] \o SubSeq(xs, 1, k)
           T == {k \in Nat : k <= N => Gives(m, upto[k], f, i, first(k))}
<1>0. f \in [Objects -> Seq(Elems)] /\ f[i] \in Seq(Elems) /\ N \in Nat
  BY DEF Good
<1>1. upto = [k \in 0 .. N |-> EachBy(m, i, xs, upto, k)]
  BY <1>0, EachExists
<1>2. append_each(m, i, xs) = upto[N]
  BY DEF append_each, EachOf, EachBy
<1> HIDE DEF upto
<1>3. 0 \in T
  <2>1. upto[0] = m
    BY <1>0, <1>1 DEF EachBy
  <2>2. first(0) = f[i]
    BY <1>0
  <2>3. Gives(m, m, f, i, f[i])
    BY GivesSame
  <2> QED BY <2>1, <2>2, <2>3, Zenon
<1>4. ASSUME NEW k \in Nat, k \in T PROVE k + 1 \in T
  <2> SUFFICES ASSUME k + 1 <= N PROVE Gives(m, upto[k + 1], f, i, first(k + 1))
    OBVIOUS
  <2> DEFINE t == upto[k]
             ys == first(k)
             g == [f EXCEPT ![i] = ys]
  <2>1. Gives(m, t, f, i, ys)
    BY <1>0, <1>4
  <2>2. upto[k + 1] = emplace_back(t, i, xs[k + 1])
    <3>1. k + 1 \in 0 .. N /\ k + 1 # 0 /\ (k + 1) - 1 = k
      BY <1>0
    <3> QED BY <1>1, <3>1 DEF EachBy
  <2>3. xs[k + 1] \in Elems
    BY <1>0
  <2>4. Append(ys, xs[k + 1]) = first(k + 1)
    <3>1. SubSeq(xs, 1, k) \in Seq(Elems) /\ SubSeq(xs, 1, k + 1) = Append(SubSeq(xs, 1, k), xs[k + 1])
      BY <1>0
    <3> DEFINE zs == SubSeq(xs, 1, k)
    <3> HIDE DEF zs
    <3>2. zs \in Seq(Elems) /\ first(k + 1) = f[i] \o Append(zs, xs[k + 1]) /\ ys = f[i] \o zs
      BY <3>1, Zenon DEF zs
    <3>3. f[i] \o Append(zs, xs[k + 1]) = Append(f[i] \o zs, xs[k + 1])
      BY <1>0, <2>3, <3>2, AppendLast
    <3> HIDE DEF first, ys
    <3> QED BY <3>2, <3>3
  <2> HIDE DEF ys, t
  <2>5. Good(t, g) /\ g[i] = ys
    BY <1>0, <2>1 DEF Gives
  <2> HIDE DEF g
  <2>6. Gives(t, emplace_back(t, i, xs[k + 1]), g, i, Append(ys, xs[k + 1]))
    BY <2>3, <2>5, BackEmplaced
  <2>7. Gives(t, upto[k + 1], g, i, first(k + 1))
    BY <2>2, <2>4, <2>6
  <2> DEFINE u == upto[k + 1]
             ws == first(k + 1)
  <2> HIDE DEF u, ws, first
  <2>8. Gives(t, u, [f EXCEPT ![i] = ys], i, ws)
    BY <2>7 DEF g, u, ws
  <2>9. Gives(m, u, f, i, ws)
    BY <1>0, <2>1, <2>8, GivesTrans, Zenon
  <2> QED BY <2>9 DEF u, ws
<1>5. Nat \subseteq T
  <2> HIDE DEF T
  <2> QED BY <1>3, <1>4, SetInduction
<1>6. Gives(m, upto[N], f, i, first(N))
  BY <1>0, <1>5
<1>7. first(N) = f[i] \o xs
  BY <1>0
<1> QED BY <1>2, <1>6, <1>7, Zenon

-----------------------------------------------------------------------------
(* The functions with a tail.                                              *)
Pair(f, i, a, b) == [k \in Objects |-> IF k = tmp THEN b ELSE IF k = i THEN a ELSE f[k]]
Quiet(m, f) == Good(m, f) /\ m.seqs[tmp] = Empty

LEMMA SeqsObjects == Seqs \subseteq Objects /\ tmp \in Objects /\ tmp \notin Seqs
BY DEF Seqs, Objects, tmp

LEMMA PairFacts ==
  ASSUME NEW f \in [Objects -> Seq(Elems)], NEW i \in Seqs, NEW a, NEW b
  PROVE  /\ Pair(f, i, a, b)[i] = a /\ Pair(f, i, a, b)[tmp] = b
         /\ [[f EXCEPT ![tmp] = b] EXCEPT ![i] = a] = Pair(f, i, a, b)
         /\ f[tmp] = b => [f EXCEPT ![i] = a] = Pair(f, i, a, b)
<1>1. i \in Objects /\ tmp \in Objects /\ i # tmp
  BY SeqsObjects
<1>2. Pair(f, i, a, b)[i] = a /\ Pair(f, i, a, b)[tmp] = b
  BY <1>1 DEF Pair
<1>3. [[f EXCEPT ![tmp] = b] EXCEPT ![i] = a] = Pair(f, i, a, b)
  BY <1>1, Zenon DEF Pair
<1>4. f[tmp] = b => [f EXCEPT ![i] = a] = Pair(f, i, a, b)
  BY <1>1, Zenon DEF Pair
<1> QED BY <1>2, <1>3, <1>4

LEMMA PairTop ==
  ASSUME NEW f, NEW i \in Seqs, NEW a, NEW b, NEW c
  PROVE  [Pair(f, i, a, b) EXCEPT ![i] = c] = Pair(f, i, c, b)
<1>1. i \in Objects /\ tmp \in Objects /\ i # tmp
  BY SeqsObjects
<1> QED BY <1>1, Zenon DEF Pair

LEMMA PairTail ==
  ASSUME NEW f, NEW i \in Seqs, NEW a, NEW b, NEW c
  PROVE  [Pair(f, i, a, b) EXCEPT ![tmp] = c] = Pair(f, i, a, c)
<1>1. i \in Objects /\ tmp \in Objects /\ i # tmp
  BY SeqsObjects
<1> QED BY <1>1, Zenon DEF Pair

LEMMA GivesTop ==
  ASSUME NEW m, NEW t, NEW f, NEW i \in Seqs, NEW a, NEW b, NEW c, Gives(m, t, Pair(f, i, a, b), i, c)
  PROVE  Good(t, Pair(f, i, c, b))
<1>1. Good(t, [Pair(f, i, a, b) EXCEPT ![i] = c])
  BY DEF Gives
<1> QED BY <1>1, PairTop

LEMMA GivesTail ==
  ASSUME NEW m, NEW t, NEW f, NEW i \in Seqs, NEW a, NEW b, NEW c, Gives(m, t, Pair(f, i, a, b), tmp, c)
  PROVE  Good(t, Pair(f, i, a, c))
<1>1. Good(t, [Pair(f, i, a, b) EXCEPT ![tmp] = c])
  BY DEF Gives
<1> QED BY <1>1, PairTail

LEMMA QuietFacts ==
  ASSUME Params, NEW m, NEW f, Quiet(m, f)
  PROVE  f \in [Objects -> Seq(Elems)] /\ f[tmp] = << >> /\ Good(m, f)
<1>1. Good(m, f) /\ m.seqs[tmp] = Empty /\ tmp \in Objects
  BY SeqsObjects DEF Quiet
<1>2. f[tmp] = << >>
  BY <1>1, HoldsNothing
<1> QED BY <1>1, <1>2 DEF Good

LEMMA GivesQuiet ==
  ASSUME NEW m, NEW t, NEW f, NEW i \in Seqs, NEW xs, Quiet(m, f), Gives(m, t, f, i, xs)
  PROVE  Quiet(t, [f EXCEPT ![i] = xs])
BY SeqsObjects DEF Quiet, Gives

LEMMA SameSequence ==
  ASSUME NEW S, NEW T, NEW a \in Seq(S), NEW b \in Seq(T), NEW n, Len(a) = n, Len(b) = n,
         \A k \in 1 .. n : a[k] = b[k]
  PROVE  a = b
OBVIOUS

LEMMA TailPopped ==
  ASSUME Params, sso \in BOOLEAN, NEW m, NEW f, Quiet(m, f), NEW i \in Seqs,
         NEW n, n = Len(f[i]), NEW p \in 0 .. n
  PROVE  Good(pop_tail(m, i, p), Pair(f, i, SubSeq(f[i], 1, p), SubSeq(f[i], p + 1, n)))
<1> DEFINE ys == SubSeq(f[i], p + 1, n)
           top == SubSeq(f[i], 1, p)
           tail == initialized(m, tmp, ys)
           t == moved(tail, i, p, n)
           g == [f EXCEPT ![tmp] = ys]
<1>0. i \in Objects /\ tmp \in Objects /\ i # tmp
  BY SeqsObjects
<1>1. f \in [Objects -> Seq(Elems)] /\ f[tmp] = << >> /\ Good(m, f) /\ m.seqs[tmp] = Empty
  BY QuietFacts DEF Quiet
<1>2. Facts(m, i, f[i])
  BY <1>0, <1>1, HoldsFacts
<1>3. /\ f[i] \in Seq(Elems) /\ n \in Nat /\ size(m, i) = n /\ data(m, i) \in Seq(Cells)
      /\ n <= Len(data(m, i)) /\ \A k \in 1 .. n : data(m, i)[k] = f[i][k]
  BY <1>2, Zenon DEF Facts
<1>4. CASE p = n
  <2>1. pop_tail(m, i, p) = m
    BY <1>3, <1>4 DEF pop_tail
  <2>2. ys = << >> /\ top = f[i]
    BY <1>3, <1>4
  <2>3. Pair(f, i, f[i], << >>) = [f EXCEPT ![i] = f[i]]
    BY <1>0, <1>1, Zenon DEF Pair
  <2>4. [f EXCEPT ![i] = f[i]] = f
    BY <1>1
  <2> QED BY <1>1, <2>1, <2>2, <2>3, <2>4, Zenon
<1>5. CASE p # n
  <2>1. SubSeq(data(m, i), p + 1, n) = ys
    <3> DEFINE d == data(m, i)
               zs == SubSeq(d, p + 1, n)
    <3>1. p \in Nat /\ p <= n
      BY <1>3
    <3>2. zs \in Seq(Cells) /\ Len(zs) = n - p /\ \A k \in 1 .. n - p : zs[k] = d[p + k]
      BY <1>3, <3>1
    <3>3. ys \in Seq(Elems) /\ Len(ys) = n - p /\ \A k \in 1 .. n - p : ys[k] = f[i][p + k]
      BY <1>3, <3>1
    <3>4. \A k \in 1 .. n - p : d[p + k] = f[i][p + k]
      BY <1>3, <3>1
    <3> HIDE DEF zs, ys
    <3>5. zs = ys
      <4>1. \A k \in 1 .. n - p : zs[k] = ys[k]
        BY <3>2, <3>3, <3>4
      <4> QED BY <3>2, <3>3, <4>1, SameSequence
    <3> QED BY <3>5 DEF zs
  <2>2. pop_tail(m, i, p) = set_size(destroy(t, i, p, n), i, p)
    BY <1>3, <1>5, <2>1, Zenon DEF pop_tail
  <2>3. ys \in Seq(Elems)
    BY <1>3
  <2> HIDE DEF ys
  <2>4. Gives(m, tail, f, tmp, ys)
    BY <1>0, <1>1, <2>3, Initialized
  <2> HIDE DEF tail
  <2>5. Good(tail, g) /\ g[i] = f[i] /\ g \in [Objects -> Seq(Elems)]
    BY <1>0, <1>1, <2>3, <2>4 DEF Gives
  <2> HIDE DEF g
  <2>6. PICK zs \in Seq(Elems) : Len(zs) = n /\ SubSeq(zs, 1, p) = top /\ Gives(tail, t, g, i, zs)
    <3>1. n = Len(g[i])
      BY <2>5
    <3> QED BY <1>0, <2>5, <3>1, MovedOut, Zenon
  <2> HIDE DEF t, top
  <2> DEFINE h == [g EXCEPT ![i] = zs]
  <2>7. Good(t, h) /\ h[i] = zs
    BY <1>0, <2>5, <2>6 DEF Gives
  <2> HIDE DEF h
  <2>8. Gives(t, set_size(destroy(t, i, p, n), i, p), h, i, top)
    <3>1. n = Len(h[i]) /\ SubSeq(h[i], 1, p) = top
      BY <2>6, <2>7
    <3> QED BY <1>0, <2>7, <3>1, Shrinks, Zenon
  <2>9. Good(pop_tail(m, i, p), [h EXCEPT ![i] = top])
    BY <2>2, <2>8 DEF Gives
  <2>10. [h EXCEPT ![i] = top] = [g EXCEPT ![i] = top]
    BY <2>5, Zenon DEF h
  <2>11. [g EXCEPT ![i] = top] = Pair(f, i, top, ys)
    BY <1>1, PairFacts DEF g
  <2> QED BY <2>9, <2>10, <2>11 DEF top, ys
<1> QED BY <1>4, <1>5

LEMMA MoveAppended ==
  ASSUME Params, sso \in BOOLEAN, NEW m, NEW f \in [Objects -> Seq(Elems)], NEW i \in Seqs,
         NEW a, NEW b, Good(m, Pair(f, i, a, b))
  PROVE  Quiet(move_append(m, i), Pair(f, i, a \o b, << >>))
<1> DEFINE g == Pair(f, i, a, b)
           n == Len(b)
           t == moved(m, tmp, 0, n)
           u == append_range(t, i, b)
<1>0. i \in Objects /\ tmp \in Objects /\ i # tmp
  BY SeqsObjects
<1>1. g[i] = a /\ g[tmp] = b /\ Good(m, g)
  BY PairFacts
<1>2. size(m, tmp) = n /\ contents(m, tmp) = b /\ b \in Seq(Elems) /\ n \in Nat
  BY <1>0, <1>1, SizeIs
<1>3. move_append(m, i) = clear(u, tmp)
  BY <1>2 DEF move_append
<1>4. PICK zs \in Seq(Elems) : Gives(m, t, g, tmp, zs)
  <2>1. n = Len(g[tmp]) /\ 0 \in 0 .. n
    BY <1>1, <1>2
  <2> HIDE DEF g
  <2> QED BY <1>0, <1>1, <2>1, MovedOut, Zenon
<1> HIDE DEF t
<1>5. Good(t, Pair(f, i, a, zs)) /\ Pair(f, i, a, zs)[i] = a
  BY <1>4, GivesTail, PairFacts
<1> HIDE DEF g
<1>6. Gives(t, u, Pair(f, i, a, zs), i, a \o b)
  BY <1>0, <1>2, <1>5, RangeAppended
<1> HIDE DEF u
<1>7. Good(u, Pair(f, i, a \o b, zs))
  BY <1>6, GivesTop
<1>8. Gives(u, clear(u, tmp), Pair(f, i, a \o b, zs), tmp, << >>) /\ clear(u, tmp).seqs[tmp] = Empty
  BY <1>0, <1>7, ClearGives
<1>9. Good(clear(u, tmp), Pair(f, i, a \o b, << >>))
  BY <1>8, GivesTail
<1> QED BY <1>3, <1>8, <1>9 DEF Quiet

LEMMA CatNothing ==
  ASSUME NEW S, NEW a \in Seq(S), NEW b \in Seq(S), Len(b) = 0
  PROVE  a \o b = a
OBVIOUS

LEMMA NothingCat ==
  ASSUME NEW S, NEW a \in Seq(S), NEW b \in Seq(S), Len(a) = 0
  PROVE  a \o b = b
OBVIOUS

LEMMA Quietly ==
  ASSUME Params, NEW m, NEW f, Quiet(m, f), NEW i \in Seqs, NEW a
  PROVE  Pair(f, i, a, << >>) = [f EXCEPT ![i] = a]
BY QuietFacts, PairFacts

(* What is appended between popping a tail and appending it.               *)
LEMMA Between ==
  ASSUME Params, sso \in BOOLEAN, NEW m, NEW f, Quiet(m, f), NEW i \in Seqs, NEW a, NEW b, NEW c,
         NEW t, NEW u, Gives(t, u, Pair(f, i, a, b), i, c)
  PROVE  Quiet(move_append(u, i), [f EXCEPT ![i] = c \o b])
<1>1. Good(u, Pair(f, i, c, b)) /\ f \in [Objects -> Seq(Elems)]
  BY GivesTop, QuietFacts
<1>2. Quiet(move_append(u, i), Pair(f, i, c \o b, << >>))
  BY <1>1, MoveAppended
<1> QED BY <1>2, Quietly, Zenon

LEMMA EnsuredQuiet ==
  ASSUME Params, sso \in BOOLEAN, NEW m, NEW f, Quiet(m, f), NEW i \in Seqs, NEW desired \in Nat
  PROVE  Quiet(ensure_capacity(m, i, desired), f)
<1>1. i \in Objects /\ tmp \in Objects \ {i} /\ Good(m, f) /\ m.seqs[tmp] = Empty
  BY SeqsObjects DEF Quiet
<1> QED BY <1>1, EnsuredSame DEF Quiet

LEMMA Emplaced ==
  ASSUME Params, sso \in BOOLEAN, NEW m, NEW f, Quiet(m, f), NEW i \in Seqs,
         NEW p \in 0 .. Len(f[i]), NEW v \in Elems
  PROVE  Quiet(emplace(m, i, p, v),
               [f EXCEPT ![i] = SubSeq(f[i], 1, p) \o <<v>> \o SubSeq(f[i], p + 1, Len(f[i]))])
<1> DEFINE n == Len(f[i])
           top == SubSeq(f[i], 1, p)
           ys == SubSeq(f[i], p + 1, n)
           e == ensure_capacity(m, i, n + 1)
           t == pop_tail(e, i, p)
           u == emplace_back(t, i, v)
<1>0. i \in Objects /\ Good(m, f) /\ size(m, i) = n /\ n \in Nat /\ f[i] \in Seq(Elems)
  BY SeqsObjects, SizeIs DEF Quiet
<1>1. top \in Seq(Elems) /\ ys \in Seq(Elems) /\ Append(top, v) = top \o <<v>> /\ p \in Nat
  BY <1>0
<1>2. CASE p = n
  <2>1. emplace(m, i, p, v) = emplace_back(m, i, v)
    BY <1>0, <1>2 DEF emplace
  <2>2. Quiet(emplace(m, i, p, v), [f EXCEPT ![i] = Append(f[i], v)])
    <3>1. Gives(m, emplace_back(m, i, v), f, i, Append(f[i], v))
      BY <1>0, BackEmplaced
    <3> QED BY <2>1, <3>1, GivesQuiet, Zenon
  <2>3. top = f[i] /\ ys \in Seq(Elems) /\ Len(ys) = 0
    BY <1>0, <1>2
  <2> HIDE DEF ys, top
  <2>4. top \o <<v>> \o ys = Append(f[i], v)
    <3>1. Append(f[i], v) \in Seq(Elems)
      BY <1>0
    <3> QED BY <1>1, <2>3, <3>1, CatNothing
  <2> QED BY <2>2, <2>4, Zenon DEF ys, top
<1>3. CASE p # n
  <2>1. emplace(m, i, p, v) = move_append(u, i)
    BY <1>0, <1>3 DEF emplace
  <2>2. Quiet(e, f)
    BY <1>0, EnsuredQuiet
  <2> HIDE DEF e
  <2>3. Good(t, Pair(f, i, top, ys))
    BY <2>2, TailPopped
  <2> HIDE DEF t, top, ys
  <2>4. Pair(f, i, top, ys)[i] = top
    BY <2>2, PairFacts, QuietFacts
  <2>5. Gives(t, u, Pair(f, i, top, ys), i, Append(top, v))
    BY <1>0, <2>3, <2>4, BackEmplaced
  <2> HIDE DEF u
  <2>6. Quiet(move_append(u, i), [f EXCEPT ![i] = Append(top, v) \o ys])
    BY <2>5, Between, Zenon
  <2> QED BY <1>1, <2>1, <2>6, Zenon DEF top, ys
<1> QED BY <1>2, <1>3

LEMMA NInserted ==
  ASSUME Params, sso \in BOOLEAN, NEW m, NEW f, Quiet(m, f), NEW i \in Seqs,
         NEW p \in 0 .. Len(f[i]), NEW k \in Nat, NEW v \in Elems
  PROVE  Quiet(insert_n(m, i, p, k, v),
               [f EXCEPT ![i] = SubSeq(f[i], 1, p) \o Many(k, v) \o SubSeq(f[i], p + 1, Len(f[i]))])
<1> DEFINE n == Len(f[i])
           top == SubSeq(f[i], 1, p)
           ys == SubSeq(f[i], p + 1, n)
           e == ensure_capacity(m, i, n + k)
           t == pop_tail(e, i, p)
           u == append_n(t, i, k, v)
<1>0. i \in Objects /\ Good(m, f) /\ size(m, i) = n /\ n \in Nat
  BY SeqsObjects, SizeIs DEF Quiet
<1>1. insert_n(m, i, p, k, v) = move_append(u, i)
  BY <1>0 DEF insert_n
<1>2. Quiet(e, f)
  BY <1>0, EnsuredQuiet
<1> HIDE DEF e
<1>3. Good(t, Pair(f, i, top, ys))
  BY <1>2, TailPopped
<1> HIDE DEF t, top, ys
<1>4. Pair(f, i, top, ys)[i] = top
  BY <1>2, PairFacts, QuietFacts
<1>5. Gives(t, u, Pair(f, i, top, ys), i, top \o Many(k, v))
  BY <1>0, <1>3, <1>4, NAppended
<1> HIDE DEF u
<1>6. Quiet(move_append(u, i), [f EXCEPT ![i] = (top \o Many(k, v)) \o ys])
  BY <1>5, Between, Zenon
<1> QED BY <1>1, <1>6 DEF top, ys

LEMMA RangeInserted ==
  ASSUME Params, sso \in BOOLEAN, NEW m, NEW f, Quiet(m, f), NEW i \in Seqs,
         NEW p \in 0 .. Len(f[i]), NEW xs \in Seq(Elems)
  PROVE  Quiet(insert_range(m, i, p, xs),
               [f EXCEPT ![i] = SubSeq(f[i], 1, p) \o xs \o SubSeq(f[i], p + 1, Len(f[i]))])
<1> DEFINE n == Len(f[i])
           top == SubSeq(f[i], 1, p)
           ys == SubSeq(f[i], p + 1, n)
           t == pop_tail(m, i, p)
           u == append_range(t, i, xs)
<1>0. i \in Objects
  BY SeqsObjects
<1>1. insert_range(m, i, p, xs) = move_append(u, i)
  BY DEF insert_range
<1>3. Good(t, Pair(f, i, top, ys))
  BY TailPopped
<1> HIDE DEF t, top, ys
<1>4. Pair(f, i, top, ys)[i] = top
  BY PairFacts, QuietFacts
<1>5. Gives(t, u, Pair(f, i, top, ys), i, top \o xs)
  BY <1>0, <1>3, <1>4, RangeAppended
<1> HIDE DEF u
<1>6. Quiet(move_append(u, i), [f EXCEPT ![i] = (top \o xs) \o ys])
  BY <1>5, Between, Zenon
<1> QED BY <1>1, <1>6 DEF top, ys

LEMMA Erased ==
  ASSUME Params, sso \in BOOLEAN, NEW m, NEW f, Quiet(m, f), NEW i \in Seqs,
         NEW q \in Nat, q < Len(f[i])
  PROVE  Quiet(erase(m, i, q),
               [f EXCEPT ![i] = SubSeq(f[i], 1, q) \o SubSeq(f[i], q + 1 + 1, Len(f[i]))])
<1> DEFINE n == Len(f[i])
           top == SubSeq(f[i], 1, q + 1)
           ys == SubSeq(f[i], q + 1 + 1, n)
           t == pop_tail(m, i, q + 1)
           u == pop_back(t, i)
<1>0. i \in Objects /\ Good(m, f) /\ size(m, i) = n /\ n \in Nat /\ f[i] \in Seq(Elems) /\ q < n
  BY SeqsObjects, SizeIs DEF Quiet
<1>1. top \in Seq(Elems) /\ Len(top) = q + 1 /\ SubSeq(top, 1, q) = SubSeq(f[i], 1, q)
  <2>1. top \in Seq(Elems) /\ Len(top) = q + 1 /\ \A k \in 1 .. q + 1 : top[k] = f[i][k]
    BY <1>0
  <2> HIDE DEF top
  <2> QED BY <1>0, <2>1
<1>2. CASE q = n - 1
  <2>1. erase(m, i, q) = pop_back(m, i)
    BY <1>0, <1>2 DEF erase
  <2>2. Gives(m, pop_back(m, i), f, i, SubSeq(f[i], 1, n - 1))
    BY <1>0, BackPopped
  <2>3. Quiet(erase(m, i, q), [f EXCEPT ![i] = SubSeq(f[i], 1, q)])
    BY <1>2, <2>1, <2>2, GivesQuiet, Zenon
  <2>4. ys \in Seq(Elems) /\ Len(ys) = 0 /\ SubSeq(f[i], 1, q) \in Seq(Elems)
    BY <1>0, <1>2
  <2> HIDE DEF ys
  <2>5. SubSeq(f[i], 1, q) \o ys = SubSeq(f[i], 1, q)
    BY <2>4, CatNothing
  <2> QED BY <2>3, <2>5, Zenon DEF ys
<1>3. CASE q # n - 1
  <2>1. erase(m, i, q) = move_append(u, i)
    BY <1>0, <1>3 DEF erase
  <2>3. Good(t, Pair(f, i, top, ys))
    <3>1. q + 1 \in 0 .. n
      BY <1>0
    <3> QED BY <3>1, TailPopped
  <2> HIDE DEF t, top, ys
  <2>4. Pair(f, i, top, ys)[i] = top
    BY PairFacts, QuietFacts
  <2>5. Gives(t, u, Pair(f, i, top, ys), i, SubSeq(top, 1, q))
    <3>1. Len(top) > 0 /\ Len(top) - 1 = q
      BY <1>1
    <3> QED BY <1>0, <2>3, <2>4, <3>1, BackPopped
  <2> HIDE DEF u
  <2>6. Quiet(move_append(u, i), [f EXCEPT ![i] = SubSeq(top, 1, q) \o ys])
    BY <2>5, Between, Zenon
  <2> QED BY <1>1, <2>1, <2>6, Zenon DEF ys
<1> QED BY <1>2, <1>3

LEMMA RangeErased ==
  ASSUME Params, sso \in BOOLEAN, NEW m, NEW f, Quiet(m, f), NEW i \in Seqs,
         NEW q2 \in 0 .. Len(f[i]), NEW q1 \in 0 .. q2
  PROVE  Quiet(erase_range(m, i, q1, q2),
               [f EXCEPT ![i] = SubSeq(f[i], 1, q1) \o SubSeq(f[i], q2 + 1, Len(f[i]))])
<1> DEFINE n == Len(f[i])
           top == SubSeq(f[i], 1, q2)
           ys == SubSeq(f[i], q2 + 1, n)
           t == pop_tail(m, i, q2)
           u == resize(t, i, q1, 0)
<1>0. i \in Objects /\ Good(m, f) /\ size(m, i) = n /\ n \in Nat /\ f[i] \in Seq(Elems) /\ q2 <= n /\ q2 \in Nat
      /\ q1 \in Nat /\ q1 <= q2
  BY SeqsObjects, SizeIs DEF Quiet
<1>1. top \in Seq(Elems) /\ Len(top) = q2 /\ SubSeq(top, 1, q1) = SubSeq(f[i], 1, q1)
  <2>1. top \in Seq(Elems) /\ Len(top) = q2 /\ \A k \in 1 .. q2 : top[k] = f[i][k]
    BY <1>0
  <2> HIDE DEF top
  <2> QED BY <1>0, <2>1
<1>3. Good(t, Pair(f, i, top, ys))
  BY <1>0, TailPopped
<1> HIDE DEF t, top, ys
<1>4. Pair(f, i, top, ys)[i] = top
  BY PairFacts, QuietFacts
<1>2. erase_range(m, i, q1, q2) = move_append(u, i)
  <2>1. size(t, i) = q2
    BY <1>0, <1>1, <1>3, <1>4, SizeIs
  <2>2. q2 - (q2 - q1) = q1
    BY <1>0
  <2> QED BY <2>1, <2>2 DEF erase_range, t
<1>5. Gives(t, u, Pair(f, i, top, ys), i, SubSeq(top, 1, q1))
  <2>1. Gives(t, u, Pair(f, i, top, ys), i,
              IF q1 < Len(top) THEN SubSeq(top, 1, q1) ELSE top \o Many(q1 - Len(top), 0))
    <3>1. q1 <= Len(top)
      BY <1>0, <1>1
    <3> QED BY <1>0, <1>3, <1>4, <3>1, SizeChanged
  <2>2. CASE q1 < q2
    BY <1>1, <2>1, <2>2
  <2>3. CASE q1 = q2
    <3>1. q1 - Len(top) = 0 /\ SubSeq(top, 1, q1) = top
      BY <1>0, <1>1, <2>3
    <3>2. Many(0, 0) = << >>
      BY DEF Many
    <3>3. top \o Many(q1 - Len(top), 0) = top
      BY <1>1, <3>1, <3>2
    <3> QED BY <1>0, <1>1, <2>1, <2>3, <3>1, <3>3, Zenon
  <2> QED BY <1>0, <2>2, <2>3
<1> HIDE DEF u
<1>6. Quiet(move_append(u, i), [f EXCEPT ![i] = SubSeq(top, 1, q1) \o ys])
  BY <1>5, Between, Zenon
<1> QED BY <1>1, <1>2, <1>6, Zenon DEF ys

-----------------------------------------------------------------------------
(* Exchanging objects.                                                     *)
Exch(i, j, k) == IF k = i THEN j ELSE IF k = j THEN i ELSE k
Exchanged(f, i, j) == [k \in Objects |-> f[Exch(i, j, k)]]

LEMMA ExchFacts ==
  ASSUME NEW i \in Objects, NEW j \in Objects
  PROVE  \A k \in Objects : Exch(i, j, k) \in Objects /\ Exch(i, j, Exch(i, j, k)) = k
BY DEF Exch

LEMMA SwapFacts ==
  ASSUME NEW m \in Memory, NEW i \in Objects, NEW j \in Objects
  PROVE  /\ swap(m, i, j) \in Memory /\ swap(m, i, j).heap = m.heap /\ swap(m, i, j).misused = m.misused
         /\ \A k \in Objects : swap(m, i, j).seqs[k] = m.seqs[Exch(i, j, k)]
<1> DEFINE t == swap(m, i, j)
<1>1. m.seqs \in [Objects -> Shapes]
  BY RecordFacts
<1>2. t = [m EXCEPT !.seqs = [[m.seqs EXCEPT ![i] = m.seqs[j]] EXCEPT ![j] = m.seqs[i]]]
  BY <1>1, Zenon DEF swap, Memory
<1> HIDE DEF t
<1>3. t.seqs = [[m.seqs EXCEPT ![i] = m.seqs[j]] EXCEPT ![j] = m.seqs[i]] /\ t.heap = m.heap /\ t.misused = m.misused
  BY <1>2 DEF Memory
<1>4. t \in Memory
  <2>1. t.seqs \in [Objects -> Shapes]
    BY <1>1, <1>3
  <2> QED BY <1>2, <1>3, <2>1 DEF Memory
<1>5. \A k \in Objects : t.seqs[k] = m.seqs[Exch(i, j, k)]
  BY <1>1, <1>3 DEF Exch
<1> QED BY <1>3, <1>4, <1>5 DEF t

LEMMA Elsewhere ==
  ASSUME NEW m, NEW t, NEW j, NEW k, t.seqs[j] = m.seqs[k], t.heap = m.heap
  PROVE  /\ ObjectOK(m, k) => ObjectOK(t, j)
         /\ \A xs : Holds(m, k, xs) => Holds(t, j, xs)
<1>1. data(t, j) = data(m, k)
  BY DEF data, is_small
<1> QED BY <1>1 DEF ObjectOK, Holds

LEMMA Swapped ==
  ASSUME NEW m, NEW f, Good(m, f), NEW i \in Objects, NEW j \in Objects
  PROVE  Good(swap(m, i, j), Exchanged(f, i, j))
<1> DEFINE t == swap(m, i, j)
           g == Exchanged(f, i, j)
           e(k) == Exch(i, j, k)
<1>0. m \in Memory /\ m.misused = FALSE /\ f \in [Objects -> Seq(Elems)]
  BY DEF Good
<1>1. \A k \in Objects : e(k) \in Objects /\ e(e(k)) = k
  BY ExchFacts
<1>2. /\ t \in Memory /\ t.heap = m.heap /\ t.misused = FALSE
      /\ \A k \in Objects : t.seqs[k] = m.seqs[e(k)]
  BY <1>0, SwapFacts
<1> HIDE DEF t, e
<1>3. g \in [Objects -> Seq(Elems)] /\ \A k \in Objects : g[k] = f[e(k)]
  BY <1>0, <1>1 DEF Exchanged, e
<1> HIDE DEF g
<1>4. ASSUME NEW k \in Objects PROVE ObjectOK(t, k) /\ Holds(t, k, g[k])
  <2>1. ObjectOK(m, e(k)) /\ Holds(m, e(k), f[e(k)])
    BY <1>1 DEF Good
  <2> QED BY <1>2, <1>3, <2>1, Elsewhere, Zenon
<1>5. \A k, l \in Objects : k # l /\ t.seqs[k].buffer # Null => t.seqs[k].buffer # t.seqs[l].buffer
  <2> SUFFICES ASSUME NEW k \in Objects, NEW l \in Objects, k # l, t.seqs[k].buffer # Null
               PROVE  t.seqs[k].buffer # t.seqs[l].buffer
    OBVIOUS
  <2>1. e(k) \in Objects /\ e(l) \in Objects /\ e(k) # e(l)
    BY <1>1
  <2>2. \A a, b \in Objects : a # b /\ m.seqs[a].buffer # Null => m.seqs[a].buffer # m.seqs[b].buffer
    BY DEF Good
  <2> QED BY <1>2, <2>1, <2>2
<1>6. \A c \in HeapBuffers : t.heap[c] # Unallocated => \E k \in Objects : t.seqs[k].buffer = c
  <2> SUFFICES ASSUME NEW c \in HeapBuffers, t.heap[c] # Unallocated PROVE \E k \in Objects : t.seqs[k].buffer = c
    OBVIOUS
  <2>1. PICK k \in Objects : m.seqs[k].buffer = c
    BY <1>2 DEF Good
  <2>2. e(k) \in Objects /\ t.seqs[e(k)].buffer = c
    BY <1>1, <1>2, <2>1
  <2> QED BY <2>2
<1>7. Good(t, g)
  BY <1>2, <1>3, <1>4, <1>5, <1>6 DEF Good
<1> QED BY <1>7 DEF t, g

LEMMA MoveFrom ==
  ASSUME NEW m, NEW f, Quiet(m, f), NEW j \in Seqs
  PROVE  move_from(m, tmp, j) = swap(m, tmp, j)
BY DEF Quiet, move_from, swap

(* What is in tmp goes to i, and what was there goes.                      *)
LEMMA SwappedIn ==
  ASSUME Params, sso \in BOOLEAN, NEW m, NEW f, Good(m, f), NEW i \in Seqs
  PROVE  Quiet(clear(swap(m, i, tmp), tmp), Pair(f, i, f[tmp], << >>))
<1> DEFINE t == swap(m, i, tmp)
           g == Exchanged(f, i, tmp)
<1>0. i \in Objects /\ tmp \in Objects /\ i # tmp
  BY SeqsObjects
<1>1. Good(t, g)
  BY <1>0, Swapped
<1> HIDE DEF t
<1>2. Gives(t, clear(t, tmp), g, tmp, << >>) /\ clear(t, tmp).seqs[tmp] = Empty
  BY <1>0, <1>1, ClearGives
<1>3. [g EXCEPT ![tmp] = << >>] = Pair(f, i, f[tmp], << >>)
  BY <1>0, Zenon DEF Exchanged, Exch, Pair
<1> HIDE DEF g
<1>4. Good(clear(t, tmp), Pair(f, i, f[tmp], << >>))
  BY <1>2, <1>3 DEF Gives
<1> QED BY <1>2, <1>4 DEF Quiet, t

(* A copy in the temporary object.                                         *)
LEMMA Copied ==
  ASSUME Params, sso \in BOOLEAN, NEW m, NEW f, Quiet(m, f), NEW j \in Seqs
  PROVE  Gives(m, copied(m, tmp, j), f, tmp, f[j])
<1> DEFINE t == copied(m, tmp, j)
<1>0. j \in Objects /\ tmp \in Objects /\ j # tmp /\ Good(m, f) /\ m.seqs[tmp] = Empty
  BY SeqsObjects DEF Quiet
<1>1. contents(m, j) = f[j] /\ f[j] \in Seq(Elems)
  BY <1>0, SizeIs
<1>2. CASE ~is_small(m, j)
  <2>1. t = initialized(m, tmp, f[j])
    BY <1>1, <1>2 DEF copied
  <2> QED BY <1>0, <1>1, <2>1, Initialized
<1>3. CASE is_small(m, j)
  <2>1. m \in Memory /\ m.misused = FALSE /\ m.seqs \in [Objects -> Shapes] /\ f \in [Objects -> Seq(Elems)]
    BY <1>0, RecordFacts DEF Good
  <2>2. t = [m EXCEPT !.seqs[tmp] = m.seqs[j]]
    BY <1>3 DEF copied
  <2> HIDE DEF t
  <2>3. t.seqs = [m.seqs EXCEPT ![tmp] = m.seqs[j]] /\ t.heap = m.heap /\ t.misused = FALSE
    BY <2>1, <2>2 DEF Memory
  <2>4. t \in Memory
    <3>1. t.seqs \in [Objects -> Shapes]
      BY <1>0, <2>1, <2>3
    <3> QED BY <2>1, <2>2, <2>3, <3>1, Zenon DEF Memory
  <2>5. t.seqs[tmp] = m.seqs[j] /\ \A k \in Objects \ {tmp} : t.seqs[k] = m.seqs[k]
    BY <1>0, <2>1, <2>3
  <2>6. ObjectOK(t, tmp) /\ Holds(t, tmp, f[j])
    <3>1. ObjectOK(m, j) /\ Holds(m, j, f[j])
      BY <1>0 DEF Good
    <3> QED BY <2>3, <2>5, <3>1, Elsewhere, Zenon
  <2>7. t.seqs[tmp].buffer = Null /\ Rest(m, f, tmp, Null)
    <3>1. m.seqs[j].buffer = Null
      BY <1>0, <1>3, GoodRest, Zenon DEF is_small, ObjectOK
    <3>2. m.seqs[tmp].buffer = Null
      BY <1>0, EmptyType
    <3> QED BY <1>0, <2>5, <3>1, <3>2, GoodRest, Zenon
  <2>8. \A c \in HeapBuffers \ {Null} : t.heap[c] = m.heap[c]
    BY <2>3
  <2>9. Null \in HeapBuffers \cup {Null}
    OBVIOUS
  <2>10. Gives(m, t, f, tmp, f[j])
    BY <1>0, <2>1, <2>3, <2>4, <2>5, <2>6, <2>7, <2>8, <2>9, Whole, Zenon
  <2> QED BY <2>10 DEF t
<1> QED BY <1>2, <1>3

LEMMA CopyAssigned ==
  ASSUME Params, sso \in BOOLEAN, NEW m, NEW f, Quiet(m, f), NEW i \in Seqs, NEW j \in Seqs
  PROVE  Quiet(assign_copy(m, i, j), [f EXCEPT ![i] = f[j]])
<1> DEFINE t == copied(m, tmp, j)
           g == [f EXCEPT ![tmp] = f[j]]
<1>0. i \in Objects /\ tmp \in Objects /\ i # tmp /\ f \in [Objects -> Seq(Elems)]
  BY SeqsObjects, QuietFacts
<1>1. Good(t, g)
  BY Copied DEF Gives
<1>2. assign_copy(m, i, j) = clear(swap(t, i, tmp), tmp)
  BY DEF assign_copy
<1>3. g[tmp] = f[j] /\ Pair(g, i, f[j], << >>) = Pair(f, i, f[j], << >>)
  BY <1>0 DEF Pair
<1> HIDE DEF t, g
<1>4. Quiet(clear(swap(t, i, tmp), tmp), Pair(g, i, g[tmp], << >>))
  BY <1>1, SwappedIn
<1> QED BY <1>2, <1>3, <1>4, Quietly

LEMMA MoveAssigned ==
  ASSUME Params, sso \in BOOLEAN, NEW m, NEW f, Quiet(m, f), NEW i \in Seqs, NEW j \in Seqs, i # j
  PROVE  Quiet(assign_moved(m, i, j), [[f EXCEPT ![i] = f[j]] EXCEPT ![j] = << >>])
<1> DEFINE t == swap(m, tmp, j)
           g == Exchanged(f, tmp, j)
<1>0. /\ i \in Objects /\ j \in Objects /\ tmp \in Objects /\ i # tmp /\ j # tmp
      /\ f \in [Objects -> Seq(Elems)] /\ f[tmp] = << >> /\ Good(m, f)
  BY SeqsObjects, QuietFacts
<1>1. Good(t, g)
  BY <1>0, Swapped
<1>2. assign_moved(m, i, j) = clear(swap(t, i, tmp), tmp)
  BY MoveFrom DEF assign_moved
<1>3. g[tmp] = f[j] /\ Pair(g, i, f[j], << >>) = [[f EXCEPT ![i] = f[j]] EXCEPT ![j] = << >>]
  <2>1. g = [k \in Objects |-> IF k = tmp THEN f[j] ELSE IF k = j THEN << >> ELSE f[k]]
    BY <1>0 DEF Exchanged, Exch
  <2> HIDE DEF g
  <2>2. g[tmp] = f[j]
    BY <1>0, <2>1
  <2>3. Pair(g, i, f[j], << >>) = [k \in Objects |-> IF k = tmp THEN << >> ELSE IF k = i THEN f[j] ELSE g[k]]
    BY DEF Pair
  <2>4. \A k \in Objects : (IF k = tmp THEN << >> ELSE IF k = i THEN f[j] ELSE g[k])
                           = [[f EXCEPT ![i] = f[j]] EXCEPT ![j] = << >>][k]
    BY <1>0, <2>1
  <2>5. [[f EXCEPT ![i] = f[j]] EXCEPT ![j] = << >>]
        = [k \in Objects |-> [[f EXCEPT ![i] = f[j]] EXCEPT ![j] = << >>][k]]
    BY <1>0, Zenon
  <2> QED BY <2>2, <2>3, <2>4, <2>5, Zenon
<1> HIDE DEF t, g
<1>4. Quiet(clear(swap(t, i, tmp), tmp), Pair(g, i, g[tmp], << >>))
  BY <1>1, SwappedIn
<1> QED BY <1>2, <1>3, <1>4

JoinedTo(t, f, i, j) ==
  \E zs \in Seq(Elems) : Quiet(t, [[f EXCEPT ![i] = f[i] \o f[j]] EXCEPT ![j] = zs])

LEMMA MovedAppended ==
  ASSUME Params, sso \in BOOLEAN, NEW m, NEW f, Quiet(m, f), NEW i \in Seqs, NEW j \in Seqs, i # j
  PROVE  JoinedTo(append_moved(m, i, j), f, i, j)
<1> USE DEF JoinedTo
<1>0. /\ i \in Objects /\ j \in Objects /\ tmp \in Objects /\ i # tmp /\ j # tmp
      /\ f \in [Objects -> Seq(Elems)] /\ Good(m, f) /\ m.seqs[tmp] = Empty
  BY SeqsObjects, QuietFacts DEF Quiet
<1>1. /\ size(m, i) = Len(f[i]) /\ f[i] \in Seq(Elems)
      /\ size(m, j) = Len(f[j]) /\ contents(m, j) = f[j] /\ f[j] \in Seq(Elems) /\ Len(f[j]) \in Nat
  BY <1>0, SizeIs
<1>2. CASE size(m, i) = 0 /\ capacity(m, i) <= size(m, j)
  <2>1. append_moved(m, i, j) = assign_moved(m, i, j)
    BY <1>2 DEF append_moved
  <2>2. f[i] \o f[j] = f[j]
    <3>1. Len(f[i]) = 0
      BY <1>1, <1>2
    <3> QED BY <1>1, <3>1, NothingCat, Zenon
  <2>3. << >> \in Seq(Elems)
    OBVIOUS
  <2>4. Quiet(append_moved(m, i, j), [[f EXCEPT ![i] = f[i] \o f[j]] EXCEPT ![j] = << >>])
    BY <2>1, <2>2, MoveAssigned
  <2> QED BY <2>3, <2>4, Zenon
<1>3. CASE ~(size(m, i) = 0 /\ capacity(m, i) <= size(m, j))
  <2> DEFINE n == Len(f[j])
             t == moved(m, j, 0, n)
             u == append_range(t, i, f[j])
  <2>1. append_moved(m, i, j) = u
    BY <1>1, <1>3 DEF append_moved
  <2>2. PICK zs \in Seq(Elems) : Gives(m, t, f, j, zs)
    <3>1. 0 \in 0 .. n
      BY <1>1
    <3> QED BY <1>0, <3>1, MovedOut
  <2> HIDE DEF t
  <2> DEFINE g == [f EXCEPT ![j] = zs]
  <2>3. Good(t, g) /\ t.seqs[tmp] = Empty /\ g[i] = f[i]
    BY <1>0, <2>2 DEF Gives
  <2> HIDE DEF g
  <2>4. Gives(t, u, g, i, f[i] \o f[j])
    BY <1>0, <1>1, <2>3, RangeAppended
  <2>5. Quiet(u, [g EXCEPT ![i] = f[i] \o f[j]])
    <3> HIDE DEF u
    <3>1. Quiet(t, g)
      BY <2>3 DEF Quiet
    <3> QED BY <2>4, <3>1, GivesQuiet, Zenon
  <2>6. [g EXCEPT ![i] = f[i] \o f[j]] = [[f EXCEPT ![i] = f[i] \o f[j]] EXCEPT ![j] = zs]
    BY <1>0, Zenon DEF g
  <2> QED BY <2>1, <2>5, <2>6, Zenon
<1> QED BY <1>2, <1>3, Zenon

-----------------------------------------------------------------------------
(* Comparing block by block compares all.                                  *)
StartBy(g, f, r) == IF r = 0 THEN 0 ELSE 2 * f[r - 1] + g
StartOf(N, g) == CHOOSE f : f = [r \in 0 .. N |-> StartBy(g, f, r)]

LEMMA StartExists ==
  ASSUME NEW N \in Nat, NEW g
  PROVE  StartOf(N, g) = [r \in 0 .. N |-> StartBy(g, StartOf(N, g), r)]
<1> DEFINE D(j) == {n \in 0 .. N : n <= j}
           Lists(f, j) == f = [n \in D(j) |-> StartBy(g, f, n)]
           T == {j \in Nat : \E f : Lists(f, j)}
<1>1. 0 \in T
  <2> DEFINE f == [n \in D(0) |-> 0]
  <2>1. \A n \in D(0) : n = 0
    OBVIOUS
  <2>2. f = [n \in D(0) |-> StartBy(g, f, n)]
    BY <2>1 DEF StartBy
  <2> QED BY <2>2, Zenon
<1>2. ASSUME NEW j \in Nat, j \in T PROVE j + 1 \in T
  <2>1. PICK f : Lists(f, j)
    BY <1>2
  <2> DEFINE h == [n \in D(j + 1) |-> StartBy(g, f, n)]
  <2>2. ASSUME NEW n \in D(j + 1) PROVE StartBy(g, h, n) = StartBy(g, f, n)
    <3>1. CASE n = 0
      BY <3>1 DEF StartBy
    <3>2. CASE n # 0
      <4>1. n - 1 \in D(j) /\ n - 1 \in D(j + 1)
        BY <3>2
      <4>2. h[n - 1] = StartBy(g, f, n - 1) /\ f[n - 1] = StartBy(g, f, n - 1)
        <5> HIDE DEF D
        <5> QED BY <2>1, <4>1
      <4> HIDE DEF h
      <4> QED BY <3>2, <4>2 DEF StartBy
    <3> QED BY <3>1, <3>2
  <2>3. Lists(h, j + 1)
    BY <2>2
  <2> HIDE DEF h
  <2> HIDE DEF Lists
  <2> QED BY <2>3
<1>3. Nat \subseteq T
  <2> HIDE DEF T
  <2> QED BY <1>1, <1>2, SetInduction
<1>4. N \in T
  BY <1>3
<1>5. D(N) = 0 .. N
  OBVIOUS
<1>6. \E f : f = [n \in 0 .. N |-> StartBy(g, f, n)]
  BY <1>4, <1>5, Zenon
<1> QED BY <1>6 DEF StartOf

LEMMA BlocksCover ==
  ASSUME NEW N \in Nat, NEW g \in Nat \ {0}, NEW starts, starts = [r \in 0 .. N |-> StartBy(g, starts, r)],
         NEW k \in 1 .. N
  PROVE  \E r \in 1 .. N : k \in starts[r - 1] + 1 .. starts[r]
<1> DEFINE Covered(j) == \E r \in 1 .. N : j \in starts[r - 1] + 1 .. starts[r]
           Below(n) == \A j \in 1 .. n : Covered(j)
           Right(r) == r <= N => starts[r] \in Nat /\ starts[r] >= r /\ Below(starts[r])
           T == {r \in Nat : Right(r)}
<1> HIDE DEF Covered
<1>1. 0 \in T
  <2>1. starts[0] = 0
    BY DEF StartBy
  <2>2. Right(0)
    BY <2>1
  <2> QED BY <2>2
<1>2. ASSUME NEW r \in Nat, r \in T PROVE r + 1 \in T
  <2>0. Right(r)
    BY <1>2
  <2> SUFFICES Right(r + 1)
    OBVIOUS
  <2> SUFFICES ASSUME r + 1 <= N
               PROVE  starts[r + 1] \in Nat /\ starts[r + 1] >= r + 1 /\ Below(starts[r + 1])
    BY Zenon
  <2>1. starts[r] \in Nat /\ starts[r] >= r /\ \A j \in 1 .. starts[r] : Covered(j)
    <3>1. r <= N
      OBVIOUS
    <3>2. starts[r] \in Nat /\ starts[r] >= r /\ Below(starts[r])
      <4> HIDE DEF Below
      <4> QED BY <2>0, <3>1
    <3> QED BY <3>2, Zenon
  <2>2. starts[r + 1] = 2 * starts[r] + g
    <3>1. r + 1 \in 0 .. N /\ r + 1 # 0 /\ (r + 1) - 1 = r
      OBVIOUS
    <3> QED BY <3>1 DEF StartBy
  <2>3. starts[r + 1] \in Nat /\ starts[r + 1] >= r + 1
    BY <2>1, <2>2
  <2>4. ASSUME NEW j \in 1 .. starts[r + 1] PROVE Covered(j)
    <3>1. CASE j <= starts[r]
      <4>1. j \in 1 .. starts[r]
        BY <2>1, <2>3, <3>1
      <4> QED BY <2>1, <4>1, Zenon
    <3>2. CASE j > starts[r]
      <4>1. r + 1 \in 1 .. N /\ (r + 1) - 1 = r
        OBVIOUS
      <4>2. j \in starts[r] + 1 .. starts[r + 1]
        BY <2>1, <2>3, <3>2
      <4> QED BY <4>1, <4>2 DEF Covered
    <3> QED BY <2>1, <2>3, <3>1, <3>2
  <2> QED BY <2>3, <2>4, Zenon
<1>3. Nat \subseteq T
  <2> HIDE DEF T
  <2> QED BY <1>1, <1>2, SetInduction
<1>4. starts[N] \in Nat /\ starts[N] >= N /\ \A j \in 1 .. starts[N] : Covered(j)
  <2>1. N \in T
    BY <1>3, Zenon
  <2>2. Right(N)
    BY <2>1
  <2> QED BY <2>2
<1>5. k \in 1 .. starts[N]
  BY <1>4
<1>6. Covered(k)
  BY <1>4, <1>5
<1> QED BY <1>6 DEF Covered

LEMMA CompareEqual ==
  ASSUME NEW S, NEW a \in Seq(S), NEW b \in Seq(S), Len(a) = Len(b), NEW g \in Nat \ {0}
  PROVE  compare_equal(a, b, g) <=> a = b
<1> DEFINE N == Len(a)
           starts == StartOf(N, g)
<1>0. N \in Nat /\ starts = [r \in 0 .. N |-> StartBy(g, starts, r)]
  BY StartExists
<1>1. compare_equal(a, b, g)
      <=> \A r \in 1 .. N : \A k \in starts[r - 1] + 1 .. starts[r] : k <= N => a[k] = b[k]
  BY DEF compare_equal, StartOf, StartBy
<1> HIDE DEF starts
<1>2. ASSUME a = b PROVE compare_equal(a, b, g)
  BY <1>1, <1>2
<1>3. ASSUME compare_equal(a, b, g) PROVE a = b
  <2>1. ASSUME NEW k \in 1 .. N PROVE a[k] = b[k]
    <3>1. PICK r \in 1 .. N : k \in starts[r - 1] + 1 .. starts[r]
      BY <1>0, BlocksCover, Zenon
    <3>2. k <= N
      BY <1>0
    <3> QED BY <1>1, <1>3, <3>1, <3>2
  <2> HIDE DEF N
  <2>2. Len(a) = N /\ Len(b) = N
    BY DEF N
  <2> QED BY <2>1, <2>2, SameSequence
<1> QED BY <1>2, <1>3

LEMMA EqualExact ==
  ASSUME Params, sso \in BOOLEAN, NEW m, NEW f, Good(m, f), NEW i \in Objects, NEW j \in Objects
  PROVE  Equal(m, i, j) <=> f[i] = f[j]
<1>1. /\ size(m, i) = Len(f[i]) /\ contents(m, i) = f[i] /\ f[i] \in Seq(Elems)
      /\ size(m, j) = Len(f[j]) /\ contents(m, j) = f[j] /\ f[j] \in Seq(Elems)
  BY SizeIs
<1>2. Equal(m, i, j) <=> Len(f[i]) = Len(f[j]) /\ compare_equal(f[i], f[j], 1)
  BY <1>1 DEF Equal
<1>3. CASE Len(f[i]) = Len(f[j])
  <2>1. compare_equal(f[i], f[j], 1) <=> f[i] = f[j]
    BY <1>1, <1>3, CompareEqual
  <2> QED BY <1>2, <1>3, <2>1
<1>4. CASE Len(f[i]) # Len(f[j])
  BY <1>2, <1>4
<1> QED BY <1>3, <1>4

-----------------------------------------------------------------------------
(* The inductive invariant: the memory holds what the history tells, and   *)
(* the temporary object nothing.                                           *)
Model(x) == [k \in Objects |-> IF k \in Seqs THEN x[k] ELSE << >>]
StorageInv ==
  /\ sso \in BOOLEAN /\ expect \in [Seqs -> Seq(Elems)]
  /\ Quiet(memory, Model(expect))

LEMMA ModelFacts ==
  ASSUME NEW x \in [Seqs -> Seq(Elems)]
  PROVE  Model(x) \in [Objects -> Seq(Elems)] /\ Model(x)[tmp] = << >> /\ \A i \in Seqs : Model(x)[i] = x[i]
<1>1. << >> \in Seq(Elems)
  OBVIOUS
<1> QED BY <1>1, SeqsObjects DEF Model

LEMMA InitInv == ASSUME Params, StorageInit PROVE StorageInv
<1> DEFINE m == memory
           f == Model(expect)
<1>1. << >> \in Seq(Elems) /\ Len(<< >>) = 0
  OBVIOUS
<1>2. expect \in [Seqs -> Seq(Elems)] /\ sso \in BOOLEAN /\ \A i \in Seqs : expect[i] = << >>
  BY <1>1 DEF StorageInit
<1>3. f \in [Objects -> Seq(Elems)] /\ \A i \in Objects : f[i] = << >>
  BY <1>2, ModelFacts DEF Model
<1> HIDE DEF f
<1>4. m \in Memory /\ m.misused = FALSE /\ (\A i \in Objects : m.seqs[i] = Empty) /\ \A b \in HeapBuffers : m.heap[b] = Unallocated
  <2>1. Empty \in Shapes /\ Unallocated \in Heaps
    BY EmptyType DEF Heaps
  <2>2. [i \in 1 .. 3 |-> Empty] \in [Objects -> Shapes]
    BY <2>1 DEF Objects
  <2>3. [b \in HeapBuffers |-> Unallocated] \in [HeapBuffers -> Heaps]
    BY <2>1
  <2> QED BY <2>2, <2>3 DEF StorageInit, Memory, Objects
<1> HIDE DEF m
<1>5. ASSUME NEW i \in Objects PROVE ObjectOK(m, i) /\ Holds(m, i, f[i])
  <2>1. ObjectOK(m, i)
    BY <1>4, EmptyType, Zenon DEF ObjectOK
  <2>2. data(m, i) \in Seq(Cells)
    BY <1>2, <1>4, <2>1, DataType
  <2>3. ~sso => data(m, i) = << >>
    BY <1>4, EmptyType DEF data, is_small
  <2>4. m.seqs[i].n = 0
    BY <1>4, EmptyType
  <2>5. \A k \in 1 .. Len(<< >>) : FALSE
    BY <1>1
  <2>6. ~sso => \A k \in 1 .. Len(data(m, i)) : FALSE
    BY <1>1, <2>3
  <2>7. 0 <= Len(data(m, i))
    BY <2>2
  <2> QED BY <1>1, <1>3, <2>1, <2>4, <2>5, <2>6, <2>7 DEF Holds
<1>6. \A j \in Objects : m.seqs[j].buffer = Null
  BY <1>4, EmptyType
<1>7. Good(m, f)
  BY <1>3, <1>4, <1>5, <1>6 DEF Good
<1>8. m.seqs[tmp] = Empty
  BY <1>4, SeqsObjects
<1> QED BY <1>2, <1>7, <1>8 DEF StorageInv, Quiet, m, f

(* The invariant of the next state.                                        *)
LEMMA Carried ==
  ASSUME sso \in BOOLEAN, UNCHANGED sso, NEW m, memory' = m, NEW x \in [Seqs -> Seq(Elems)], expect' = x,
         Quiet(m, Model(x))
  PROVE  StorageInv'
<1>1. Quiet(memory, Model(expect))'
  BY DEF Quiet, Good, ObjectOK, Holds, data, is_small, Model
<1> QED BY <1>1 DEF StorageInv

LEMMA DoneKeeps ==
  ASSUME Params, StorageInv, NEW i \in Seqs, NEW m, NEW xs, Called(i, m, xs),
         Quiet(m, [Model(expect) EXCEPT ![i] = xs])
  PROVE  StorageInv'
<1> DEFINE f == Model(expect)
<1>0. /\ sso \in BOOLEAN /\ expect \in [Seqs -> Seq(Elems)] /\ f \in [Objects -> Seq(Elems)]
      /\ i \in Objects
  BY ModelFacts, SeqsObjects DEF StorageInv
<1>1. xs \in Seq(Elems)
  <2>1. [f EXCEPT ![i] = xs] \in [Objects -> Seq(Elems)]
    BY DEF Quiet, Good
  <2>2. [f EXCEPT ![i] = xs][i] = xs
    BY <1>0
  <2> QED BY <1>0, <2>1, <2>2
<1>2. PICK x : x = [expect EXCEPT ![i] = xs]
  BY Zenon
<1>3. x \in [Seqs -> Seq(Elems)]
  BY <1>0, <1>1, <1>2
<1>4. Model(x) = [f EXCEPT ![i] = xs]
  BY <1>0, <1>2, Zenon DEF Model
<1> HIDE DEF f
<1>5. Quiet(m, Model(x))
  BY <1>4 DEF f
<1>6. memory' = m /\ expect' = x /\ UNCHANGED sso
  BY <1>2 DEF Called
<1> QED BY <1>0, <1>3, <1>5, <1>6, Carried

LEMMA InvFacts ==
  ASSUME Params, StorageInv
  PROVE  /\ sso \in BOOLEAN /\ expect \in [Seqs -> Seq(Elems)]
         /\ Quiet(memory, Model(expect)) /\ Good(memory, Model(expect))
         /\ Model(expect) \in [Objects -> Seq(Elems)]
         /\ \A i \in Seqs : Model(expect)[i] = expect[i] /\ Len(expect[i]) \in Nat
         /\ 1 \in Seqs /\ 2 \in Seqs /\ Other(1) = 2 /\ 1 \in Objects
BY ModelFacts DEF StorageInv, Quiet, Seqs, Other, Objects

LEMMA StorageExact == ASSUME Params, StorageInv PROVE SequencesExact
<1> DEFINE m == memory
           f == Model(expect)
<1>0. /\ sso \in BOOLEAN /\ Good(m, f) /\ m.seqs[tmp] = Empty
      /\ \A i \in Seqs : f[i] = expect[i] /\ i \in Objects
  BY InvFacts, SeqsObjects DEF StorageInv, Quiet
<1>1. \A i \in Seqs : contents(m, i) = expect[i]
  BY <1>0, SizeIs
<1>2. Equal(m, 1, 2) <=> expect[1] = expect[2]
  <2>1. 1 \in Seqs /\ 2 \in Seqs
    BY DEF Seqs
  <2>2. 1 \in Objects /\ 2 \in Objects /\ f[1] = expect[1] /\ f[2] = expect[2]
    BY <1>0, <2>1
  <2> HIDE DEF f, m
  <2> QED BY <1>0, <2>2, EqualExact
<1>3. ~m.misused
  BY <1>0 DEF Good
<1>4. ASSUME NEW b \in HeapBuffers, m.heap[b] # Unallocated
      PROVE  \E i \in Seqs : m.seqs[i].buffer = b /\ m.seqs[Other(i)].buffer # b
  <2>1. PICK i \in Objects : m.seqs[i].buffer = b
    BY <1>0, <1>4 DEF Good
  <2>2. b # Null
    BY DEF HeapBuffers, Null
  <2>3. i # tmp
    BY <1>0, <2>1, <2>2, EmptyType
  <2>4. i \in Seqs /\ Other(i) \in Objects /\ i # Other(i)
    BY <2>3 DEF Seqs, Objects, Other, tmp
  <2>5. \A j, k \in Objects : j # k /\ m.seqs[j].buffer # Null => m.seqs[j].buffer # m.seqs[k].buffer
    BY <1>0 DEF Good
  <2>6. m.seqs[Other(i)].buffer # b
    BY <2>1, <2>2, <2>4, <2>5
  <2> QED BY <2>1, <2>4, <2>6
<1> QED BY <1>0, <1>1, <1>2, <1>3, <1>4 DEF SequencesExact

-----------------------------------------------------------------------------
(* One lemma for the steps of every kind.                                  *)
LEMMA SwapKeeps == ASSUME Params, StorageInv, Swap PROVE StorageInv'
<1> DEFINE f == Model(expect)
<1>0. /\ sso \in BOOLEAN /\ expect \in [Seqs -> Seq(Elems)] /\ Good(memory, f) /\ memory.seqs[tmp] = Empty
      /\ f \in [Objects -> Seq(Elems)] /\ 1 \in Objects /\ 2 \in Objects /\ tmp \in Objects /\ tmp \notin {1, 2}
  BY InvFacts DEF Quiet, Objects, tmp
<1>1. PICK m : m = swap(memory, 1, 2)
  OBVIOUS
<1>2. PICK x : x = [i \in Seqs |-> expect[Other(i)]]
  BY Zenon
<1>3. x \in [Seqs -> Seq(Elems)]
  <2>1. \A i \in Seqs : Other(i) \in Seqs
    BY DEF Seqs, Other
  <2> QED BY <1>0, <1>2, <2>1
<1>4. Good(m, Exchanged(f, 1, 2))
  BY <1>0, <1>1, Swapped
<1>5. Exchanged(f, 1, 2) = Model(x)
  BY <1>2 DEF Exchanged, Exch, Model, Seqs, Objects, Other
<1>6. m.seqs[tmp] = Empty
  <2>1. memory \in Memory
    BY <1>0 DEF Good
  <2>2. Exch(1, 2, tmp) = tmp
    BY <1>0 DEF Exch
  <2>3. \A k \in Objects : m.seqs[k] = memory.seqs[Exch(1, 2, k)]
    BY <1>0, <1>1, <2>1, SwapFacts, Zenon
  <2> HIDE DEF f
  <2> QED BY <1>0, <2>2, <2>3
<1>7. Quiet(m, Model(x))
  BY <1>4, <1>5, <1>6 DEF Quiet
<1>8. memory' = m /\ expect' = x /\ UNCHANGED sso
  BY <1>1, <1>2 DEF Swap
<1> QED BY <1>0, <1>3, <1>7, <1>8, Carried

(* A function that leaves the other objects as they are.                   *)
LEMMA GivesKeeps ==
  ASSUME Params, StorageInv, NEW m, NEW xs, Called(1, m, xs), Gives(memory, m, Model(expect), 1, xs)
  PROVE  StorageInv'
<1>1. Quiet(m, [Model(expect) EXCEPT ![1] = xs])
  BY InvFacts, GivesQuiet, Zenon
<1> QED BY <1>1, InvFacts, DoneKeeps, Zenon

LEMMA PopBackKeeps == ASSUME Params, StorageInv, PopBack(1) PROVE StorageInv'
<1> DEFINE f == Model(expect)
           m == pop_back(memory, 1)
           xs == SubSeq(expect[1], 1, Len(expect[1]) - 1)
<1>0. /\ sso \in BOOLEAN /\ Good(memory, f) /\ f[1] = expect[1] /\ 1 \in Objects
      /\ expect[1] \in Seq(Elems)
  BY InvFacts
<1>1. Len(f[1]) > 0 /\ Called(1, m, xs)
  BY <1>0 DEF PopBack, Before
<1> HIDE DEF f
<1>2. Gives(memory, m, f, 1, xs)
  BY <1>0, <1>1, BackPopped
<1> HIDE DEF m, xs
<1> QED BY <1>1, <1>2, GivesKeeps DEF f

LEMMA ClearKeeps == ASSUME Params, StorageInv, Clear(1) PROVE StorageInv'
<1> DEFINE m == clear(memory, 1)
           xs == << >>
<1>1. Called(1, m, xs)
  BY DEF Clear
<1>2. Gives(memory, m, Model(expect), 1, xs)
  BY InvFacts, ClearGives
<1> HIDE DEF m, xs
<1> QED BY <1>1, <1>2, GivesKeeps

LEMMA ReserveKeeps == ASSUME Params, StorageInv, Reserve(1, MaxReserve) PROVE StorageInv'
<1> DEFINE f == Model(expect)
           m == ensure_capacity(memory, 1, MaxReserve)
           xs == expect[1]
<1>0. /\ sso \in BOOLEAN /\ Good(memory, f) /\ f[1] = xs /\ 1 \in Objects
  BY InvFacts
<1>1. Called(1, m, xs)
  BY DEF Reserve
<1>2. Gives(memory, m, f, 1, f[1])
  BY <1>0, Ensured DEF Params
<1> HIDE DEF m, xs
<1> QED BY <1>0, <1>1, <1>2, GivesKeeps

LEMMA EmplaceBackKeeps == ASSUME Params, StorageInv, NEW v \in Values, EmplaceBack(1, v) PROVE StorageInv'
<1> DEFINE m == emplace_back(memory, 1, v)
           xs == Append(expect[1], v)
<1>1. Called(1, m, xs)
  BY DEF EmplaceBack
<1>2. Gives(memory, m, Model(expect), 1, xs)
  <2>1. v \in Elems
    BY DEF Elems
  <2> QED BY <2>1, InvFacts, BackEmplaced
<1> HIDE DEF m, xs
<1> QED BY <1>1, <1>2, GivesKeeps

LEMMA RangesType == \A xs \in Ranges : xs \in Seq(Elems)
<1>1. ASSUME NEW xs \in {<<v, w>> : v, w \in Values} PROVE xs \in Seq(Elems)
  <2>1. PICK v \in Values, w \in Values : xs = <<v, w>>
    OBVIOUS
  <2>2. v \in Elems /\ w \in Elems
    BY DEF Elems
  <2> QED BY <2>1, <2>2
<1> QED BY <1>1 DEF Ranges

LEMMA AppendKeeps ==
  ASSUME Params, StorageInv, NEW xs \in Ranges, AppendEach(1, xs) \/ AppendRange(1, xs)
  PROVE  StorageInv'
<1>0. xs \in Seq(Elems)
  BY RangesType
<1>1. CASE AppendEach(1, xs)
  <2> DEFINE m == append_each(memory, 1, xs)
             ys == expect[1] \o xs
  <2>1. Called(1, m, ys)
    BY <1>1 DEF AppendEach
  <2>2. Gives(memory, m, Model(expect), 1, ys)
    BY <1>0, InvFacts, EachAppended
  <2> HIDE DEF m, ys
  <2> QED BY <2>1, <2>2, GivesKeeps
<1>2. CASE AppendRange(1, xs)
  <2> DEFINE m == append_range(memory, 1, xs)
             ys == expect[1] \o xs
  <2>1. Called(1, m, ys)
    BY <1>2 DEF AppendRange
  <2>2. Gives(memory, m, Model(expect), 1, ys)
    BY <1>0, InvFacts, RangeAppended
  <2> HIDE DEF m, ys
  <2> QED BY <2>1, <2>2, GivesKeeps
<1> QED BY <1>1, <1>2

LEMMA AssignKeeps == ASSUME Params, StorageInv, NEW xs \in Ranges, Assign(1, xs) PROVE StorageInv'
<1> DEFINE f == Model(expect)
           t == clear(memory, 1)
           g == [f EXCEPT ![1] = << >>]
           m == initialized(t, 1, xs)
<1>0. sso \in BOOLEAN /\ Good(memory, f) /\ f \in [Objects -> Seq(Elems)] /\ 1 \in Objects /\ xs \in Seq(Elems)
  BY InvFacts, RangesType
<1> HIDE DEF f
<1>1. Called(1, m, xs)
  BY DEF Assign
<1>2. Gives(memory, t, f, 1, << >>) /\ t.seqs[1] = Empty
  BY <1>0, ClearGives
<1> HIDE DEF t
<1>3. Good(t, g)
  BY <1>2 DEF Gives
<1> HIDE DEF g
<1>4. Gives(t, m, g, 1, xs)
  BY <1>0, <1>2, <1>3, Initialized
<1> HIDE DEF m
<1>5. Gives(memory, m, f, 1, xs)
  BY <1>0, <1>2, <1>4, GivesTrans, Zenon DEF g
<1> QED BY <1>1, <1>5, GivesKeeps DEF f

LEMMA ResizeKeeps ==
  ASSUME Params, StorageInv, NEW v \in Values, NEW n \in Nat, Resize(1, n, v) PROVE StorageInv'
<1> DEFINE f == Model(expect)
           m == resize(memory, 1, n, v)
           xs == IF n < Len(f[1]) THEN SubSeq(f[1], 1, n) ELSE f[1] \o Many(n - Len(f[1]), v)
<1>0. sso \in BOOLEAN /\ Good(memory, f) /\ 1 \in Objects /\ f[1] = expect[1] /\ v \in Elems
  BY InvFacts DEF Elems
<1>1. Called(1, m, xs)
  <2> HIDE DEF f
  <2> QED BY <1>0 DEF Resize, Before
<1>2. Gives(memory, m, f, 1, xs)
  <2> HIDE DEF f
  <2> QED BY <1>0, SizeChanged
<1> HIDE DEF m, xs
<1> QED BY <1>1, <1>2, GivesKeeps

LEMMA InsertKeeps ==
  ASSUME Params, StorageInv, NEW p \in 0 .. Len(expect[1]), NEW v \in Values, Insert(1, p, v) \/ InsertN(1, p, 2, v)
  PROVE  StorageInv'
<1> DEFINE f == Model(expect)
<1>0. sso \in BOOLEAN /\ Quiet(memory, f) /\ f[1] = expect[1] /\ 1 \in Seqs /\ v \in Elems
  BY InvFacts DEF Elems
<1> HIDE DEF f
<1>1. CASE Insert(1, p, v)
  <2> DEFINE m == emplace(memory, 1, p, v)
             xs == SubSeq(f[1], 1, p) \o <<v>> \o SubSeq(f[1], p + 1, Len(f[1]))
  <2>1. Called(1, m, xs)
    BY <1>0, <1>1 DEF Insert, Before, From
  <2>2. Quiet(m, [f EXCEPT ![1] = xs])
    BY <1>0, Emplaced, Zenon
  <2> HIDE DEF m, xs
  <2> QED BY <1>0, <2>1, <2>2, DoneKeeps DEF f
<1>2. CASE InsertN(1, p, 2, v)
  <2> DEFINE m == insert_n(memory, 1, p, 2, v)
             xs == SubSeq(f[1], 1, p) \o Many(2, v) \o SubSeq(f[1], p + 1, Len(f[1]))
  <2>1. Called(1, m, xs)
    BY <1>0, <1>2 DEF InsertN, Before, From
  <2>2. Quiet(m, [f EXCEPT ![1] = xs])
    BY <1>0, NInserted, Zenon
  <2> HIDE DEF m, xs
  <2> QED BY <1>0, <2>1, <2>2, DoneKeeps DEF f
<1> QED BY <1>1, <1>2

LEMMA InsertRangeKeeps ==
  ASSUME Params, StorageInv, NEW p \in 0 .. Len(expect[1]), NEW xs \in Ranges, InsertRange(1, p, xs)
  PROVE  StorageInv'
<1> DEFINE f == Model(expect)
           m == insert_range(memory, 1, p, xs)
           ys == SubSeq(f[1], 1, p) \o xs \o SubSeq(f[1], p + 1, Len(f[1]))
<1>0. sso \in BOOLEAN /\ Quiet(memory, f) /\ f[1] = expect[1] /\ 1 \in Seqs /\ xs \in Seq(Elems)
  BY InvFacts, RangesType
<1> HIDE DEF f
<1>1. Called(1, m, ys)
  BY <1>0 DEF InsertRange, Before, From
<1>2. Quiet(m, [f EXCEPT ![1] = ys])
  BY <1>0, RangeInserted, Zenon
<1> HIDE DEF m, ys
<1> QED BY <1>0, <1>1, <1>2, DoneKeeps DEF f

LEMMA EraseKeeps ==
  ASSUME Params, StorageInv, NEW q \in 0 .. Len(expect[1]), Erase(1, q)
  PROVE  StorageInv'
<1> DEFINE f == Model(expect)
           m == erase(memory, 1, q)
           ys == SubSeq(f[1], 1, q) \o SubSeq(f[1], q + 1 + 1, Len(f[1]))
<1>0. sso \in BOOLEAN /\ Quiet(memory, f) /\ f[1] = expect[1] /\ 1 \in Seqs /\ q \in Nat
  BY InvFacts
<1> HIDE DEF f
<1>1. Called(1, m, ys) /\ q < Len(f[1])
  BY <1>0 DEF Erase, Before, From
<1>2. Quiet(m, [f EXCEPT ![1] = ys])
  BY <1>0, <1>1, Erased, Zenon
<1> HIDE DEF m, ys
<1> QED BY <1>0, <1>1, <1>2, DoneKeeps DEF f

LEMMA EraseRangeKeeps ==
  ASSUME Params, StorageInv, NEW p \in 0 .. Len(expect[1]), NEW q \in p .. Len(expect[1]), EraseRange(1, p, q)
  PROVE  StorageInv'
<1> DEFINE f == Model(expect)
           m == erase_range(memory, 1, p, q)
           ys == SubSeq(f[1], 1, p) \o SubSeq(f[1], q + 1, Len(f[1]))
<1>0. sso \in BOOLEAN /\ Quiet(memory, f) /\ f[1] = expect[1] /\ 1 \in Seqs /\ Len(expect[1]) \in Nat
  BY InvFacts
<1>3. q \in 0 .. Len(f[1]) /\ p \in 0 .. q
  BY <1>0
<1> HIDE DEF f
<1>1. Called(1, m, ys)
  BY <1>0 DEF EraseRange, Before, From
<1>2. Quiet(m, [f EXCEPT ![1] = ys])
  BY <1>0, <1>3, RangeErased, Zenon
<1> HIDE DEF m, ys
<1> QED BY <1>0, <1>1, <1>2, DoneKeeps DEF f

LEMMA PopTailKeeps ==
  ASSUME Params, StorageInv, NEW p \in 0 .. Len(expect[1]), PopTail(1, p)
  PROVE  StorageInv'
<1> DEFINE f == Model(expect)
           t == pop_tail(memory, 1, p)
           m == clear(t, tmp)
           top == SubSeq(f[1], 1, p)
           ys == SubSeq(f[1], p + 1, Len(f[1]))
<1>0. sso \in BOOLEAN /\ Quiet(memory, f) /\ f[1] = expect[1] /\ 1 \in Seqs /\ tmp \in Objects
  BY InvFacts, SeqsObjects
<1> HIDE DEF f
<1>1. Called(1, m, top)
  BY <1>0 DEF PopTail, Before
<1>2. Good(t, Pair(f, 1, top, ys))
  BY <1>0, TailPopped
<1> HIDE DEF t, top, ys
<1>3. Gives(t, m, Pair(f, 1, top, ys), tmp, << >>) /\ m.seqs[tmp] = Empty
  BY <1>0, <1>2, ClearGives
<1> HIDE DEF m
<1>4. Good(m, Pair(f, 1, top, << >>))
  BY <1>0, <1>3, GivesTail
<1>5. Quiet(m, [f EXCEPT ![1] = top])
  <2>1. Pair(f, 1, top, << >>) = [f EXCEPT ![1] = top]
    BY <1>0, Quietly
  <2> QED BY <1>3, <1>4, <2>1, Zenon DEF Quiet
<1> QED BY <1>0, <1>1, <1>5, DoneKeeps DEF f

LEMMA AssignCopyKeeps == ASSUME Params, StorageInv, AssignCopy(1) PROVE StorageInv'
<1> DEFINE f == Model(expect)
           m == assign_copy(memory, 1, 2)
           xs == f[2]
<1>0. /\ sso \in BOOLEAN /\ Quiet(memory, f) /\ f[2] = expect[2] /\ 1 \in Seqs /\ 2 \in Seqs
      /\ Other(1) = 2
  BY InvFacts
<1> HIDE DEF f
<1>1. Called(1, m, xs)
  BY <1>0 DEF AssignCopy
<1>2. Quiet(m, [f EXCEPT ![1] = xs])
  BY <1>0, CopyAssigned
<1> HIDE DEF m, xs
<1> QED BY <1>0, <1>1, <1>2, DoneKeeps DEF f

LEMMA TakenKeeps ==
  ASSUME Params, StorageInv, NEW m, NEW xs, NEW zs, Taken(1, m, xs),
         Quiet(m, [[Model(expect) EXCEPT ![1] = xs] EXCEPT ![2] = zs])
  PROVE  StorageInv'
<1> DEFINE f == Model(expect)
           g == [[f EXCEPT ![1] = xs] EXCEPT ![2] = zs]
<1>0. /\ sso \in BOOLEAN /\ expect \in [Seqs -> Seq(Elems)] /\ f \in [Objects -> Seq(Elems)]
      /\ 1 \in Objects /\ 2 \in Objects /\ tmp \in Objects /\ f[tmp] = << >> /\ Seqs = {1, 2} /\ tmp \notin {1, 2}
  BY InvFacts, ModelFacts DEF Objects, tmp, Seqs
<1> HIDE DEF f
<1>1. Good(m, g) /\ g \in [Objects -> Seq(Elems)]
  BY Zenon DEF Quiet, Good, f
<1>2. g[1] = xs /\ g[2] = zs
  BY <1>0
<1>3. contents(m, 2) = zs /\ xs \in Seq(Elems) /\ zs \in Seq(Elems)
  <2>1. contents(m, 2) = g[2]
    <3> HIDE DEF g
    <3> QED BY <1>0, <1>1, SizeIs
  <2>2. g[1] \in Seq(Elems) /\ g[2] \in Seq(Elems)
    <3> HIDE DEF g
    <3> QED BY <1>0, <1>1
  <2> QED BY <1>2, <2>1, <2>2
<1>4. PICK x : x = [k \in Seqs |-> IF k = 1 THEN xs ELSE contents(m, k)]
  BY Zenon
<1>5. x \in [Seqs -> Seq(Elems)] /\ x[1] = xs /\ x[2] = zs
  BY <1>0, <1>3, <1>4
<1>6. Model(x) = g
  <2>1. Model(x) = [k \in Objects |-> IF k \in Seqs THEN x[k] ELSE << >>]
    BY DEF Model
  <2>2. \A k \in Objects : g[k] = IF k \in Seqs THEN x[k] ELSE << >>
    <3>1. \A k \in Objects : k = 1 \/ k = 2 \/ k = tmp
      BY DEF Objects, tmp
    <3>2. g[tmp] = << >>
      BY <1>0
    <3> HIDE DEF g
    <3> QED BY <1>0, <1>2, <1>5, <3>1, <3>2
  <2> HIDE DEF g
  <2> QED BY <1>1, <2>1, <2>2
<1>7. Quiet(m, Model(x))
  <2>1. Quiet(m, g)
    BY DEF f
  <2> HIDE DEF g
  <2> QED BY <1>6, <2>1
<1>8. memory' = m /\ expect' = x /\ UNCHANGED sso
  BY <1>4 DEF Taken
<1> QED BY <1>0, <1>5, <1>7, <1>8, Carried

LEMMA AssignMovedKeeps == ASSUME Params, StorageInv, AssignMoved(1) PROVE StorageInv'
<1> DEFINE f == Model(expect)
           m == assign_moved(memory, 1, 2)
           xs == f[2]
<1>0. /\ sso \in BOOLEAN /\ Quiet(memory, f) /\ f[2] = expect[2] /\ 1 \in Seqs /\ 2 \in Seqs
      /\ Other(1) = 2
  BY InvFacts
<1> HIDE DEF f
<1>1. Taken(1, m, xs)
  BY <1>0 DEF AssignMoved
<1>2. Quiet(m, [[f EXCEPT ![1] = xs] EXCEPT ![2] = << >>])
  BY <1>0, MoveAssigned
<1> HIDE DEF m, xs
<1> QED BY <1>1, <1>2, TakenKeeps, Zenon DEF f

LEMMA AppendMovedKeeps == ASSUME Params, StorageInv, AppendMoved(1) PROVE StorageInv'
<1> DEFINE f == Model(expect)
           m == append_moved(memory, 1, 2)
           xs == f[1] \o f[2]
<1>0. /\ sso \in BOOLEAN /\ Quiet(memory, f) /\ f[1] = expect[1] /\ f[2] = expect[2] /\ 1 \in Seqs /\ 2 \in Seqs
      /\ Other(1) = 2
  BY InvFacts
<1> HIDE DEF f
<1>1. Taken(1, m, xs)
  BY <1>0 DEF AppendMoved
<1>2. PICK zs \in Seq(Elems) : Quiet(m, [[f EXCEPT ![1] = xs] EXCEPT ![2] = zs])
  <2>1. JoinedTo(m, f, 1, 2)
    BY <1>0, MovedAppended
  <2> QED BY <2>1, Zenon DEF JoinedTo
<1> HIDE DEF m, xs
<1> QED BY <1>1, <1>2, TakenKeeps, Zenon DEF f

LEMMA NextInv == ASSUME Params, StorageInv, StorageNext PROVE StorageInv'
<1>1. Swap => StorageInv'
  BY SwapKeeps
<1>2. PopBack(1) \/ Clear(1) \/ Reserve(1, MaxReserve) => StorageInv'
  BY PopBackKeeps, ClearKeeps, ReserveKeeps
<1>3. AssignCopy(1) \/ AssignMoved(1) \/ AppendMoved(1) => StorageInv'
  BY AssignCopyKeeps, AssignMovedKeeps, AppendMovedKeeps
<1>4. ASSUME NEW xs \in Ranges, AppendEach(1, xs) \/ AppendRange(1, xs) \/ Assign(1, xs) PROVE StorageInv'
  BY <1>4, AppendKeeps, AssignKeeps
<1>5. ASSUME NEW v \in Values, EmplaceBack(1, v) \/ \E n \in 0 .. MaxStored : Resize(1, n, v) PROVE StorageInv'
  <2>1. \A n \in 0 .. MaxStored : n \in Nat
    OBVIOUS
  <2> QED BY <1>5, <2>1, EmplaceBackKeeps, ResizeKeeps
<1>6. ASSUME NEW p \in 0 .. Len(expect[1]), Erase(1, p) \/ PopTail(1, p) PROVE StorageInv'
  BY <1>6, EraseKeeps, PopTailKeeps
<1>7. ASSUME NEW p \in 0 .. Len(expect[1]), NEW q \in p .. Len(expect[1]), EraseRange(1, p, q) PROVE StorageInv'
  BY <1>7, EraseRangeKeeps
<1>8. ASSUME NEW p \in 0 .. Len(expect[1]), NEW v \in Values, Insert(1, p, v) \/ InsertN(1, p, 2, v)
      PROVE  StorageInv'
  BY <1>8, InsertKeeps
<1>9. ASSUME NEW p \in 0 .. Len(expect[1]), NEW xs \in Ranges, InsertRange(1, p, xs) PROVE StorageInv'
  BY <1>9, InsertRangeKeeps
<1> QED BY <1>1, <1>2, <1>3, <1>4, <1>5, <1>6, <1>7, <1>8, <1>9 DEF StorageNext

LEMMA StutterInv == ASSUME StorageInv, UNCHANGED storageVars PROVE StorageInv'
<1>1. sso \in BOOLEAN /\ expect \in [Seqs -> Seq(Elems)] /\ Quiet(memory, Model(expect))
  BY DEF StorageInv
<1>2. PICK m : memory' = m
  OBVIOUS
<1>3. PICK x : expect' = x
  OBVIOUS
<1>4. m = memory /\ x = expect /\ UNCHANGED sso
  BY <1>2, <1>3 DEF storageVars
<1> QED BY <1>1, <1>2, <1>3, <1>4, Carried

(* The sequences hold what a vector would, whatever was called, and their  *)
(* storage is sound.                                                       *)
THEOREM StorageSound == StorageSpec => []SequencesExact
<1>1. StorageInit => StorageInv
  BY StorageOK, InitInv
<1>2. StorageInv /\ [StorageNext]_storageVars => StorageInv'
  BY StorageOK, NextInv, StutterInv
<1>3. StorageInv => SequencesExact
  BY StorageOK, StorageExact
<1> QED BY <1>1, <1>2, <1>3, PTL DEF StorageSpec

=============================================================================
