--------------------------- MODULE Validation_proofs ---------------------------
(***************************************************************************)
(* Proofs about what the detector asks before it accepts an opportunity:   *)
(* CheckPair and Precision, for every pair of books and every              *)
(* configuration of the detector and its validators, and Inventory, for    *)
(* any number of tasks and exchanges.                                      *)
(***************************************************************************)
EXTENDS CheckPair, Precision, Inventory, SumTheorems

-----------------------------------------------------------------------------
(* CheckPair *)

\* The stages at which a quantity has been computed.
Sized == DepthStages \cup VwapStages \cup {"profit", "accepted"}

\* Both books have levels on both sides, and the best level of each side that is
\* traded covers the quantity, at a higher price where it is sold.
QuantityCovered ==
  stage \in Sized =>
    /\ Len(buy_snapshot.asks) >= 1
    /\ Len(sell_snapshot.bids) >= 1 /\ Len(sell_snapshot.asks) >= 1
    /\ 0 < quantity
    /\ quantity <= Scaled(Ask)
    /\ quantity <= Scaled(Bid)
    /\ quantity <= config.max_position_size
    /\ Ask.price < Bid.price

\* Where the best level covers the quantity, the loop over levels takes it all from
\* that level.
WalkAtBestLevel ==
  stage \in DepthStages \cup {"vwap_buy"} =>
    \/ index = 1 /\ remaining = quantity /\ value = 0 /\ taken = 0
    \/ index = 2 /\ remaining = 0 /\ value = quantity * Walked[1].price /\ taken = quantity

\* Past validate_depth on the buy side, the liquidity asked for is at most the
\* quantity (scaled, which is the value of the trade at the best ask).
LiquidityBelowQuantity ==
  stage \in Sized \ {"depth_buy"} => MinTotalLiquidity <= quantity

PairIInv ==
  /\ CheckPairTypeOK
  /\ QuantityCovered
  /\ WalkAtBestLevel
  /\ LiquidityBelowQuantity
  /\ BestLevelSuffices

-----------------------------------------------------------------------------
(* Arithmetic *)

\* Natural numbers are closed under multiplication, and products of positive
\* numbers are positive.
LEMMA Products == \A a, b \in Nat : a * b \in Nat /\ (a > 0 /\ b > 0 => a * b > 0)
BY SMT

\* A positive factor cancels.
LEMMA Cancel == \A a, b \in Nat, p \in Nat \ {0} : a * p >= b * p => a >= b
BY SMT

\* The position cap is a natural number.
LEMMA ConfigType == ASSUME CheckPairTypeOK PROVE config.max_position_size \in Nat
<1>1. config \in ArbitrageConfig
  BY CheckPairAssumption DEF CheckPairTypeOK
<1> QED BY <1>1 DEF ArbitrageConfig

\* The level the loop looks at, and the best levels, are levels.
LEMMA LevelTypes ==
  ASSUME CheckPairTypeOK, QuantityCovered, stage \in Sized
  PROVE  /\ Ask \in Level /\ Bid \in Level
         /\ Scaled(Ask) \in Nat /\ Scaled(Bid) \in Nat
         /\ stage \in DepthStages \cup VwapStages =>
               /\ Walked \in Seq(Level)
               /\ Len(Walked) >= 1
               /\ stage \in {"depth_buy", "vwap_buy"} => Walked[1] = Ask
               /\ stage = "depth_sell" => Walked[1] = Bid
<1>1. buy_snapshot.asks \in Seq(Level) /\ sell_snapshot.bids \in Seq(Level) /\ sell_snapshot.asks \in Seq(Level)
  BY DEF CheckPairTypeOK, OrderBookSnapshot
<1>2. Ask \in Level /\ Bid \in Level
  BY <1>1 DEF QuantityCovered, Ask, Bid
<1>3. Scaled(Ask) \in Nat /\ Scaled(Bid) \in Nat
  BY <1>2, Products DEF Scaled, Level
<1> QED BY <1>1, <1>2, <1>3 DEF QuantityCovered, Walked, DepthStages, VwapStages, Ask, Bid

\* A level taken by the loop adds a natural number to each counter.
LEMMA TakeLevelType ==
  ASSUME PairIInv, TakeLevel
  PROVE  /\ index' \in Nat \ {0} /\ value' \in Nat /\ taken' \in Nat /\ remaining' \in Nat
         /\ index = 1 => LET qty == Least(remaining, Scaled(Walked[1]))
                         IN  /\ index' = 2 /\ value' = value + qty * Walked[1].price
                             /\ taken' = taken + qty /\ remaining' = remaining - qty
<1> USE CheckPairAssumption
<1> DEFINE level == Walked[index]
           qty == Least(remaining, Scaled(level))
<1>1. stage \in DepthStages \cup VwapStages /\ ~TooShallow /\ ~WalkOver
  BY DEF TakeLevel, Taken
<1>2. /\ Walked \in Seq(Level) /\ Ask \in Level
  BY <1>1, LevelTypes DEF PairIInv, Sized
<1>3. index \in 1..Len(Walked)
  BY <1>1, <1>2 DEF PairIInv, CheckPairTypeOK, TooShallow, WalkOver, LastLevel
<1>4. level \in Level
  BY <1>2, <1>3
<1>5. Scaled(level) \in Nat
  BY <1>2, <1>4, Products DEF Scaled, Level
<1>6. qty \in Nat /\ remaining - qty \in Nat
  BY <1>5 DEF Least, PairIInv, CheckPairTypeOK
<1>7. qty * level.price \in Nat
  BY <1>4, <1>6, Products DEF Level
<1> QED BY <1>6, <1>7 DEF TakeLevel, Taken, PairIInv, CheckPairTypeOK

-----------------------------------------------------------------------------
(* The invariant is inductive *)

\* A check starts with nothing computed.
LEMMA PairInitIInv == CheckPairInit => PairIInv
BY DEF CheckPairInit, PairIInv, CheckPairTypeOK, QuantityCovered, WalkAtBestLevel, LiquidityBelowQuantity,
       BestLevelSuffices, Stages, Reasons, Sized, DepthStages, VwapStages, EmptyBook,
       OrderBookSnapshot, Zero

\* A new check forgets the last one.
LEMMA GetSnapshotsIInv == PairIInv /\ GetSnapshots => PairIInv'
BY CheckPairAssumption
   DEF GetSnapshots, StartWalk, PairIInv, CheckPairTypeOK, QuantityCovered, WalkAtBestLevel,
       LiquidityBelowQuantity, BestLevelSuffices, Stages, Reasons, Sized,
       DepthStages, VwapStages, Zero

\* A refusal for any reason but the dead one keeps the invariant.
LEMMA RejectIInv ==
  ASSUME PairIInv, NEW why \in Reasons \ {"insufficient_quantity"}, Reject(why)
  PROVE  PairIInv'
BY DEF Reject, inputs, walk, slippages, PairIInv, CheckPairTypeOK, QuantityCovered, WalkAtBestLevel,
       LiquidityBelowQuantity, BestLevelSuffices, Stages, Sized, DepthStages, VwapStages

\* The quantity is the smallest of three amounts, and positive.
LEMMA ComputeQuantityIInv == PairIInv /\ ComputeQuantity => PairIInv'
<1> SUFFICES ASSUME PairIInv, ComputeQuantity PROVE PairIInv'
  OBVIOUS
<1> USE CheckPairAssumption
<1>1. /\ HasSufficientDepth(buy_snapshot) /\ HasSufficientDepth(sell_snapshot) /\ ~(MaxQuantity <= 0)
      /\ ~(Bid.price <= Ask.price)
  BY DEF ComputeQuantity, Refusal
<1>2. /\ buy_snapshot.asks \in Seq(Level)
      /\ sell_snapshot.bids \in Seq(Level) /\ sell_snapshot.asks \in Seq(Level)
      /\ Len(buy_snapshot.asks) >= 1 /\ Len(sell_snapshot.bids) >= 1 /\ Len(sell_snapshot.asks) >= 1
  BY <1>1 DEF HasSufficientDepth, PairIInv, CheckPairTypeOK, OrderBookSnapshot
<1>3. Ask \in Level /\ Bid \in Level
  BY <1>2 DEF Ask, Bid
<1>4. config.max_position_size \in Nat
  BY ConfigType DEF PairIInv
<1>5. Scaled(Ask) \in Nat /\ Scaled(Bid) \in Nat
  BY <1>3, Products DEF Scaled, Level
<1>6. /\ MaxQuantity \in Nat /\ 0 < MaxQuantity /\ MaxQuantity <= Scaled(Ask)
      /\ MaxQuantity <= Scaled(Bid) /\ MaxQuantity <= config.max_position_size
  BY <1>1, <1>5, <1>4 DEF MaxQuantity, Least
<1>7. /\ Scaled(Ask)' = Scaled(Ask) /\ Scaled(Bid)' = Scaled(Bid) /\ UNCHANGED inputs
      /\ Ask' = Ask /\ Bid' = Bid
  BY DEF ComputeQuantity, inputs, Scaled, Ask, Bid
<1>8. QuantityCovered'
  BY <1>1, <1>2, <1>3, <1>6, <1>7 DEF Level, ComputeQuantity, QuantityCovered, inputs
<1> QED BY <1>6, <1>8
        DEF ComputeQuantity, StartWalk, inputs, slippages, PairIInv, CheckPairTypeOK, WalkAtBestLevel,
            LiquidityBelowQuantity, BestLevelSuffices, Stages, Sized, DepthStages, VwapStages

\* The loop takes the whole quantity from the best level where that covers it.
LEMMA TakeLevelIInv == PairIInv /\ TakeLevel => PairIInv'
<1> SUFFICES ASSUME PairIInv, TakeLevel PROVE PairIInv'
  OBVIOUS
<1>1. /\ stage \in DepthStages \cup VwapStages /\ stage \in Sized /\ ~(remaining <= 0)
      /\ stage' = stage /\ UNCHANGED <<reason, inputs, quantity, slippages>>
  BY DEF TakeLevel, Taken, WalkOver, Sized
<1>2. Walked' = Walked /\ Ask' = Ask /\ Bid' = Bid
  BY <1>1 DEF Walked, Ask, Bid, inputs
<1>3. CheckPairTypeOK'
  BY <1>1, TakeLevelType DEF PairIInv, CheckPairTypeOK, inputs, slippages
<1>4. WalkAtBestLevel'
  <2>1. CASE stage \in DepthStages \cup {"vwap_buy"}
    <3>1. index = 1 /\ remaining = quantity /\ value = 0 /\ taken = 0
      BY <1>1, <2>1 DEF PairIInv, WalkAtBestLevel
    <3>2. quantity <= Scaled(Walked[1]) /\ Walked[1] \in Level /\ Scaled(Walked[1]) \in Nat
      BY <1>1, <2>1, LevelTypes DEF PairIInv, QuantityCovered, DepthStages, VwapStages
    <3>3. Least(remaining, Scaled(Walked[1])) = quantity
      BY <3>1, <3>2 DEF Least
    <3>4. quantity * Walked[1].price \in Nat /\ quantity \in Nat
      BY <3>2, Products DEF PairIInv, CheckPairTypeOK, Level
    <3>5. index' = 2 /\ remaining' = 0 /\ value' = quantity * Walked[1].price /\ taken' = quantity
      BY <3>1, <3>3, <3>4, TakeLevelType
    <3> QED BY <1>1, <1>2, <3>5 DEF WalkAtBestLevel
  <2>2. CASE stage = "vwap_sell"
    BY <1>1, <2>2 DEF WalkAtBestLevel, DepthStages
  <2> QED BY <1>1, <2>1, <2>2 DEF VwapStages
<1>5. QuantityCovered'
  BY <1>1, <1>2 DEF PairIInv, QuantityCovered, Scaled, inputs
<1> QED BY <1>1, <1>3, <1>4, <1>5
        DEF PairIInv, LiquidityBelowQuantity, BestLevelSuffices, slippages

\* At the end of validate_depth's loop the whole quantity has been taken.
LEMMA DepthWalkOver ==
  ASSUME PairIInv, stage \in DepthStages, WalkOver
  PROVE  remaining = 0 /\ value = quantity * Walked[1].price
<1>1. CASE index = 1 /\ remaining = quantity /\ value = 0
  <2>1. 0 < quantity /\ quantity \in Nat
    BY DEF PairIInv, QuantityCovered, Sized, CheckPairTypeOK
  <2> QED BY <1>1, <2>1, CheckPairAssumption DEF WalkOver, LastLevel
<1>2. CASE index = 2 /\ remaining = 0 /\ value = quantity * Walked[1].price
  BY <1>2
<1> QED BY <1>1, <1>2 DEF PairIInv, WalkAtBestLevel

\* validate_depth never refuses for lack of quantity.
LEMMA RefuseDepthIInv == PairIInv /\ RefuseDepth => PairIInv'
<1> SUFFICES ASSUME PairIInv, RefuseDepth PROVE PairIInv'
  OBVIOUS
<1>1. ~InsufficientQuantity
  BY DepthWalkOver DEF RefuseDepth, InsufficientQuantity
<1>2. Reject("insufficient_value")
  BY <1>1 DEF RefuseDepth
<1> QED BY <1>2, RejectIInv DEF Reasons

\* Passing validate_depth on the buy side bounds the liquidity asked for.
LEMMA PassDepthIInv == PairIInv /\ PassDepth => PairIInv'
<1> SUFFICES ASSUME PairIInv, PassDepth PROVE PairIInv'
  OBVIOUS
<1>1. /\ stage \in DepthStages /\ WalkOver /\ ~InsufficientValue /\ stage \in Sized
      /\ UNCHANGED <<reason, inputs, quantity, slippages>>
  BY DEF PassDepth, Sized
<1>2. /\ Ask' = Ask /\ Bid' = Bid /\ Scaled(Ask)' = Scaled(Ask) /\ Scaled(Bid)' = Scaled(Bid)
  BY <1>1 DEF Ask, Bid, Scaled, inputs
<1>3. stage = "depth_buy" => MinTotalLiquidity <= quantity
  <2> SUFFICES ASSUME stage = "depth_buy" PROVE MinTotalLiquidity <= quantity
    OBVIOUS
  <2>1. value = quantity * Ask.price /\ Ask.price \in Nat \ {0}
    BY <1>1, DepthWalkOver, LevelTypes DEF PairIInv, DepthStages, Level
  <2>2. quantity \in Nat /\ MinTotalLiquidity \in Nat
    BY CheckPairAssumption DEF PairIInv, CheckPairTypeOK
  <2>3. quantity * Ask.price \in Nat /\ MinTotalLiquidity * Ask.price \in Nat
    BY <2>1, <2>2, Products
  <2>4. quantity * Ask.price >= MinTotalLiquidity * Ask.price
    BY <1>1, <2>1, <2>3 DEF InsufficientValue
  <2> QED BY <2>1, <2>2, <2>4, Cancel
<1>4. QuantityCovered'
  BY <1>1, <1>2 DEF PairIInv, QuantityCovered, inputs
<1> QED BY <1>1, <1>3, <1>4
        DEF PassDepth, StartWalk, inputs, slippages, PairIInv, CheckPairTypeOK, WalkAtBestLevel,
            LiquidityBelowQuantity, BestLevelSuffices, Stages, Sized, DepthStages, VwapStages

\* The estimate is a ratio of natural numbers, and 0 on the buy side.
LEMMA EstimateSlippageIInv == PairIInv /\ EstimateSlippage => PairIInv'
<1> SUFFICES ASSUME PairIInv, EstimateSlippage PROVE PairIInv'
  OBVIOUS
<1>1. /\ stage \in VwapStages /\ WalkOver /\ stage \in Sized
      /\ UNCHANGED <<reason, inputs, quantity>>
  BY DEF EstimateSlippage, Sized
<1>2. /\ Ask' = Ask /\ Bid' = Bid /\ Scaled(Ask)' = Scaled(Ask) /\ Scaled(Bid)' = Scaled(Bid)
  BY <1>1 DEF Ask, Bid, Scaled, inputs
<1>3. Walked[1] \in Level
  BY <1>1, LevelTypes DEF PairIInv
<1>4. Slippage \in Nat \X (Nat \ {0})
  <2> DEFINE best == Walked[1].price * taken
  <2>1. best \in Nat /\ (taken > 0 => best > 0)
    BY <1>3, Products DEF Level, PairIInv, CheckPairTypeOK
  <2>2. Distance(value, best) \in Nat
    BY <2>1 DEF Distance, PairIInv, CheckPairTypeOK
  <2> QED BY <2>1, <2>2 DEF Slippage, Zero
<1>5. stage = "vwap_buy" => Slippage = Zero
  <2> SUFFICES ASSUME stage = "vwap_buy" PROVE Slippage = Zero
    OBVIOUS
  <2>1. taken = 0 \/ value = taken * Walked[1].price
    BY DEF PairIInv, WalkAtBestLevel
  <2>2. taken \in Nat /\ Walked[1].price \in Nat
    BY <1>3 DEF Level, PairIInv, CheckPairTypeOK
  <2>3. taken * Walked[1].price = Walked[1].price * taken
    BY <2>2
  <2> QED BY <2>1, <2>3 DEF Slippage
<1>6. QuantityCovered'
  BY <1>1, <1>2 DEF EstimateSlippage, PairIInv, QuantityCovered, inputs, Sized, VwapStages
<1>7. CheckPairTypeOK'
  BY <1>1, <1>4 DEF EstimateSlippage, StartWalk, PairIInv, CheckPairTypeOK, inputs, Stages, VwapStages
<1> QED BY <1>1, <1>5, <1>6, <1>7
        DEF EstimateSlippage, StartWalk, inputs, PairIInv, WalkAtBestLevel,
            LiquidityBelowQuantity, BestLevelSuffices, Sized, DepthStages, VwapStages

\* The invariant is preserved by every step.
LEMMA NextIInv == PairIInv /\ [CheckPairNext]_checkPairVars => PairIInv'
<1> SUFFICES ASSUME PairIInv, [CheckPairNext]_checkPairVars PROVE PairIInv'
  OBVIOUS
<1>1. CASE RefuseBooks
  <2>1. Refusal \in Reasons \ {"insufficient_quantity"}
    BY DEF Refusal, Reasons
  <2> QED BY <1>1, <2>1, RejectIInv DEF RefuseBooks
<1>2. CASE RefuseShallow \/ RefuseSlippage \/ RefuseProfit
  BY <1>2, RejectIInv DEF RefuseShallow, RefuseSlippage, RefuseProfit, Reasons
<1>3. CASE Accept
  <2>1. /\ stage = "profit" /\ stage' = "accepted"
        /\ UNCHANGED <<reason, inputs, quantity, walk, slippages>>
    BY <1>3 DEF Accept
  <2>2. /\ Ask' = Ask /\ Bid' = Bid /\ Scaled(Ask)' = Scaled(Ask) /\ Scaled(Bid)' = Scaled(Bid)
    BY <2>1 DEF Ask, Bid, Scaled, inputs
  <2>3. QuantityCovered'
    BY <2>1, <2>2 DEF PairIInv, QuantityCovered, inputs, Sized
  <2> QED BY <2>1, <2>3 DEF inputs, walk, slippages, PairIInv, CheckPairTypeOK, WalkAtBestLevel,
       LiquidityBelowQuantity, BestLevelSuffices, Stages, Sized, DepthStages, VwapStages
<1>4. CASE UNCHANGED checkPairVars
  <2>1. UNCHANGED <<stage, reason, inputs, quantity, walk, slippages>>
    BY <1>4 DEF checkPairVars
  <2>2. /\ Ask' = Ask /\ Bid' = Bid /\ Scaled(Ask)' = Scaled(Ask) /\ Scaled(Bid)' = Scaled(Bid)
        /\ Walked' = Walked
    BY <2>1 DEF Ask, Bid, Scaled, Walked, inputs
  <2> QED BY <2>1, <2>2 DEF inputs, walk, slippages, PairIInv, CheckPairTypeOK, QuantityCovered,
       WalkAtBestLevel, LiquidityBelowQuantity, BestLevelSuffices
<1> QED BY <1>1, <1>2, <1>3, <1>4, GetSnapshotsIInv, ComputeQuantityIInv, TakeLevelIInv,
           RefuseDepthIInv, PassDepthIInv, EstimateSlippageIInv DEF CheckPairNext

\* The inductive invariant holds of every behaviour.
LEMMA SpecIInv == CheckPairSpec => []PairIInv
BY PairInitIInv, NextIInv, PTL DEF CheckPairSpec

-----------------------------------------------------------------------------
(* Theorems *)

\* Every variable keeps its type: no quantity, value or slippage goes negative.
THEOREM TypeCorrect == CheckPairSpec => []CheckPairTypeOK
BY SpecIInv, PTL DEF PairIInv

\* Two checks of the detector never reject anything: the quantity check of
\* validate_depth and the slippage limit on the buy leg.
THEOREM BestLevelAlwaysSuffices == CheckPairSpec => []BestLevelSuffices
BY SpecIInv, PTL DEF PairIInv

\* validate_depth compares the value of the trade with min_total_liquidity.
CapBelowLiquidityAcceptsNothing ==
  config.max_position_size < MinTotalLiquidity => stage # "accepted"

\* Why RefusedLacksLiquidity fails, whatever the books hold: a configuration that caps a
\* trade below the liquidity it asks for accepts nothing. The defaults are one.
THEOREM CapBelowLiquidity == CheckPairSpec => []CapBelowLiquidityAcceptsNothing
<1>1. PairIInv => config.max_position_size \in Nat /\ quantity \in Nat /\ MinTotalLiquidity \in Nat
  BY ConfigType, CheckPairAssumption DEF PairIInv, CheckPairTypeOK
<1>2. PairIInv => CapBelowLiquidityAcceptsNothing
  BY <1>1 DEF PairIInv, CheckPairTypeOK, QuantityCovered, LiquidityBelowQuantity,
     CapBelowLiquidityAcceptsNothing, Sized
<1> QED BY <1>2, SpecIInv, PTL

-----------------------------------------------------------------------------
(* What the levels hold *)

\* Where the best level covers what is taken, all of it is taken from that level.
LEMMA FilledAtBest ==
  ASSUME NEW levels \in Seq(Level), Len(levels) >= 1, Ask \in Level,
         NEW q \in Nat, 0 < q, q <= Scaled(levels[1])
  PROVE  /\ IsFiniteSet(DOMAIN levels) /\ 1 \in DOMAIN levels
         /\ \A i \in DOMAIN levels : Held(levels)[i] \in Nat /\ levels[i].price \in Nat
         /\ Filled(levels, q)[1] = q
         /\ \A i \in DOMAIN levels \ {1} : Filled(levels, q)[i] = 0
<1> DEFINE before(i) == SumFunctionOnSet(Held(levels), 1..(i - 1))
<1>1. DOMAIN levels = 1..Len(levels) /\ Len(levels) \in Nat /\ 1 \in DOMAIN levels
  OBVIOUS
<1>2. IsFiniteSet(DOMAIN levels)
  BY <1>1, FS_Interval
<1>3. \A i \in DOMAIN levels : levels[i] \in Level
  BY <1>1
<1>4. \A i \in DOMAIN levels : Held(levels)[i] \in Nat /\ levels[i].price \in Nat
  BY <1>3, Products DEF Held, Scaled, Level
<1>5. Held(levels)[1] = Scaled(levels[1])
  BY <1>1 DEF Held
<1>6. Filled(levels, q)[1] = q
  <2>1. 1..(1 - 1) = {}
    OBVIOUS
  <2>2. before(1) = 0
    BY <2>1, SumEmpty
  <2>3. Filled(levels, q)[1] = IF before(1) >= q THEN 0 ELSE Least(q - before(1), Held(levels)[1])
    BY <1>1 DEF Filled
  <2>4. Scaled(levels[1]) \in Nat
    BY <1>1, <1>4, <1>5
  <2> QED
    BY ONLY <1>5, <2>2, <2>3, <2>4, q \in Nat, 0 < q, q <= Scaled(levels[1]) DEF Least
<1>7. ASSUME NEW i \in DOMAIN levels \ {1} PROVE Filled(levels, q)[i] = 0
  <2>1. i \in Nat /\ i > 1 /\ i <= Len(levels)
    BY <1>1
  <2>a. IsFiniteSet(1..(i - 1))
    <3>1. i - 1 \in Int /\ 1 \in Int
      BY <2>1
    <3> QED
      BY ONLY <3>1, FS_Interval
  <2>b. 1 \in 1..(i - 1) /\ 1..(i - 1) \subseteq DOMAIN levels
    BY <1>1, <2>1
  <2>2. \A j \in 1..(i - 1) : Held(levels)[j] \in Nat
    BY <1>4, <2>b
  <2>3. before(i) \in Nat /\ Held(levels)[1] <= before(i)
    BY <2>a, <2>b, <2>2, SumAtLeast
  <2>4. before(i) >= q
    BY <1>1, <1>4, <1>5, <2>3
  <2> QED
    BY <2>4 DEF Filled
<1> QED
  BY <1>1, <1>2, <1>4, <1>6, <1>7

\* Then the quantity taken is what was asked for, at the best price.
LEMMA FillAtBest ==
  ASSUME NEW levels \in Seq(Level), Len(levels) >= 1, Ask \in Level,
         NEW q \in Nat, 0 < q, q <= Scaled(levels[1])
  PROVE  FillQuantity(levels, q) = q /\ FillValue(levels, q) = q * levels[1].price
<1> DEFINE filled == Filled(levels, q)
           valued == Valued(levels, filled)
<1>1. /\ IsFiniteSet(DOMAIN levels) /\ 1 \in DOMAIN levels
      /\ \A i \in DOMAIN levels : levels[i].price \in Nat
      /\ filled[1] = q
      /\ \A i \in DOMAIN levels \ {1} : filled[i] = 0
  BY FilledAtBest
<1>2. \A i \in DOMAIN levels : valued[i] = filled[i] * levels[i].price
  BY DEF Valued
<1> HIDE DEF filled, valued
<1>3. SumFunctionOnSet(filled, DOMAIN levels) = filled[1]
  BY <1>1, SumSingle
<1>4. valued[1] = q * levels[1].price /\ valued[1] \in Int
  BY <1>1, <1>2, Products
<1>5. \A i \in DOMAIN levels \ {1} : valued[i] = 0
  BY <1>1, <1>2
<1>6. SumFunctionOnSet(valued, DOMAIN levels) = valued[1]
  BY <1>1, <1>4, <1>5, SumSingle
<1> QED
  BY <1>1, <1>3, <1>4, <1>6 DEF FillQuantity, FillValue, filled, valued

\* The first levels are worth no less than the best one.
LEMMA LiquidityOfBest ==
  ASSUME NEW levels \in Seq(Level), Len(levels) >= 1, Ask \in Level
  PROVE  /\ Liquidity(levels) \in Nat
         /\ Scaled(levels[1]) * levels[1].price <= Liquidity(levels)
<1> DEFINE S == 1..Least(MinDepthLevels, Len(levels))
           valued == Valued(levels, Held(levels))
<1>1. DOMAIN levels = 1..Len(levels) /\ Len(levels) \in Nat
  OBVIOUS
<1>a. Least(MinDepthLevels, Len(levels)) \in 1..Len(levels)
  BY <1>1, CheckPairAssumption DEF Least
<1>b. IsFiniteSet(S)
  BY <1>a, FS_Interval
<1>2. IsFiniteSet(S) /\ 1 \in S /\ S \subseteq DOMAIN levels
  BY <1>1, <1>a, <1>b
<1>3. \A i \in DOMAIN levels : levels[i] \in Level
  BY <1>1
<1>4. \A i \in DOMAIN levels : Scaled(levels[i]) \in Nat /\ levels[i].price \in Nat
  BY <1>3, Products DEF Scaled, Level
<1>5. \A i \in DOMAIN levels : valued[i] = Scaled(levels[i]) * levels[i].price /\ valued[i] \in Nat
  BY <1>4, Products DEF Valued, Held
<1> HIDE DEF S, valued
<1>6. SumFunctionOnSet(valued, S) \in Nat /\ valued[1] <= SumFunctionOnSet(valued, S)
  BY <1>2, <1>5, SumAtLeast
<1> QED
  BY <1>2, <1>5, <1>6 DEF Liquidity, S, valued

\* A product of two numbers is no less than that of two that are no greater.
LEMMA ProductOrder ==
  \A a, b, c, d \in Nat : a <= c /\ b <= d => a * b <= c * d
<1> SUFFICES ASSUME NEW a \in Nat, NEW b \in Nat, NEW c \in Nat, NEW d \in Nat, a <= c, b <= d
             PROVE  a * b <= c * d
  OBVIOUS
<1>1. a * b <= a * d
  BY SMT
<1>2. a * d <= c * d
  BY SMT
<1>3. a * b \in Nat /\ a * d \in Nat /\ c * d \in Nat
  BY Products
<1> QED
  BY <1>1, <1>2, <1>3

\* An accepted opportunity has the liquidity asked for behind it on both sides: the
\* value of the trade has passed for it, and the levels hold at least that.
THEOREM Backed == CheckPairSpec => []AcceptedIsBacked
<1>1. PairIInv => AcceptedIsBacked
  <2> SUFFICES ASSUME PairIInv, stage = "accepted"
               PROVE  /\ Liquidity(buy_snapshot.asks) >= MinTotalLiquidity * Ask.price
                      /\ Liquidity(sell_snapshot.bids) >= MinTotalLiquidity * Ask.price
    BY DEF AcceptedIsBacked
  <2>1. /\ buy_snapshot.asks \in Seq(Level) /\ sell_snapshot.bids \in Seq(Level)
        /\ Len(buy_snapshot.asks) >= 1 /\ Len(sell_snapshot.bids) >= 1
    BY DEF PairIInv, CheckPairTypeOK, OrderBookSnapshot, QuantityCovered, Sized
  <2>2. /\ Ask \in Level /\ Bid \in Level
        /\ Scaled(Ask) \in Nat /\ Scaled(Bid) \in Nat
    BY LevelTypes DEF PairIInv, Sized
  <2>3. /\ quantity \in Nat /\ quantity <= Scaled(Ask) /\ quantity <= Scaled(Bid)
        /\ MinTotalLiquidity <= quantity /\ MinTotalLiquidity \in Nat /\ Ask.price < Bid.price
    BY CheckPairAssumption
       DEF PairIInv, CheckPairTypeOK, QuantityCovered, LiquidityBelowQuantity, Sized, DepthStages
  <2>4. Ask.price \in Nat /\ Bid.price \in Nat
    BY <2>2 DEF Level
  <2>5. /\ MinTotalLiquidity * Ask.price <= Scaled(Ask) * Ask.price
        /\ MinTotalLiquidity * Ask.price <= Scaled(Bid) * Bid.price
    BY <2>2, <2>3, <2>4, ProductOrder
  <2>6. /\ Scaled(Ask) * Ask.price <= Liquidity(buy_snapshot.asks) /\ Liquidity(buy_snapshot.asks) \in Nat
        /\ Scaled(Bid) * Bid.price <= Liquidity(sell_snapshot.bids) /\ Liquidity(sell_snapshot.bids) \in Nat
    BY <2>1, <2>2, LiquidityOfBest DEF Ask, Bid
  <2>7. /\ MinTotalLiquidity * Ask.price \in Nat
        /\ Scaled(Ask) * Ask.price \in Nat /\ Scaled(Bid) * Bid.price \in Nat
    BY <2>2, <2>3, <2>4, Products
  <2> QED
    BY <2>5, <2>6, <2>7
<1> QED
  BY <1>1, SpecIInv, PTL

\* The arithmetic of a trade that is filled at the best prices A and B: the estimated
\* slippage n / d of the sell leg is all that the estimate of the profit takes off.
LEMMA ProfitArithmetic ==
  ASSUME NEW q \in Nat, NEW A \in Nat, NEW B \in Nat, NEW s \in Nat,
         NEW n \in Nat, NEW d \in Nat, NEW f \in Nat, NEW g \in Nat
  PROVE  q * (B * (d - n) * 1 * s - A * (1 + 0) * d * s - (A * f + B * g) * (1 * d))
           <= (s * (q * B - q * A) - q * A * f - q * B * g) * (1 * d)
<1>1. q * B * n * s \in Nat
  BY Products
<1>2. q * (B * (d - n) * 1 * s - A * (1 + 0) * d * s - (A * f + B * g) * (1 * d))
        = (s * (q * B - q * A) - q * A * f - q * B * g) * (1 * d) - q * B * n * s
  BY SMT
<1>3. (s * (q * B - q * A) - q * A * f - q * B * g) * (1 * d) \in Int
  BY SMT
<1> QED
  BY <1>1, <1>2, <1>3

\* Fees at the best prices and a sell slippage from the wrong side of the book never
\* make more of a trade than the levels it is filled from leave of it.
THEOREM ProfitIsThere == CheckPairSpec => []ProfitNotOverstated
<1>1. PairIInv => ProfitNotOverstated
  <2> SUFFICES ASSUME PairIInv, stage = "accepted"
               PROVE  ProfitNotOverstated
    BY DEF ProfitNotOverstated
  <2>1. /\ buy_snapshot.asks \in Seq(Level) /\ sell_snapshot.bids \in Seq(Level)
        /\ Len(buy_snapshot.asks) >= 1 /\ Len(sell_snapshot.bids) >= 1
    BY DEF PairIInv, CheckPairTypeOK, OrderBookSnapshot, QuantityCovered, Sized
  <2>2. Ask \in Level /\ Bid \in Level
    BY LevelTypes DEF PairIInv, Sized
  <2>3. /\ quantity \in Nat /\ 0 < quantity
        /\ quantity <= Scaled(Ask) /\ quantity <= Scaled(Bid)
    BY DEF PairIInv, CheckPairTypeOK, QuantityCovered, Sized
  <2>4. /\ FillQuantity(buy_snapshot.asks, quantity) = quantity
        /\ FillValue(buy_snapshot.asks, quantity) = quantity * Ask.price
    BY <2>1, <2>2, <2>3, FillAtBest DEF Ask
  <2>5. /\ FillQuantity(sell_snapshot.bids, quantity) = quantity
        /\ FillValue(sell_snapshot.bids, quantity) = quantity * Bid.price
    BY <2>1, <2>2, <2>3, FillAtBest DEF Bid
  <2> DEFINE n == sell_slippage[1]
             d == sell_slippage[2]
  <2>6. n \in Nat /\ d \in Nat /\ Scale \in Nat /\ BuyFee \in Nat /\ SellFee \in Nat
    BY CheckPairAssumption DEF PairIInv, CheckPairTypeOK
  <2>7. buy_slippage[1] = 0 /\ buy_slippage[2] = 1
    BY DEF PairIInv, BestLevelSuffices, Zero
  <2>8. Ask.price \in Nat /\ Bid.price \in Nat
    BY <2>2 DEF Level
  <2>9. /\ SellProceeds = Bid.price * (d - n) * 1 * Scale
        /\ BuyCost = Ask.price * (1 + 0) * d * Scale
        /\ TotalFees = (Ask.price * BuyFee + Bid.price * SellFee) * (1 * d)
        /\ Denominator = 1 * d
    BY <2>7 DEF SellProceeds, BuyCost, TotalFees, Denominator
  <2> HIDE DEF n, d
  <2>10. quantity * NetProfit
           <= (Scale * (quantity * Bid.price - quantity * Ask.price)
                 - quantity * Ask.price * BuyFee - quantity * Bid.price * SellFee) * Denominator
    BY <2>3, <2>6, <2>8, <2>9, ProfitArithmetic DEF NetProfit
  <2> QED
    BY <2>4, <2>5, <2>10 DEF ProfitNotOverstated
<1> QED
  BY <1>1, SpecIInv, PTL

-----------------------------------------------------------------------------
(* The rules of the markets *)

\* Division by a unit, and its remainder.
LEMMA DivisionParts ==
  ASSUME NEW x \in Nat, NEW u \in Nat \ {0}
  PROVE  /\ x \div u \in Nat /\ x % u \in Nat /\ x % u < u
         /\ x = u * (x \div u) + (x % u)
         /\ u * (x \div u) = (x \div u) * u /\ u * (x \div u) \in Nat
BY SMT

\* A multiple of the unit divides without a remainder.
LEMMA DivisionExact ==
  ASSUME NEW k \in Nat, NEW u \in Nat \ {0}
  PROVE  (k * u) \div u = k /\ (k * u) % u = 0 /\ k * u \in Nat
<1>1. k * u \in Nat
  BY Products
<1> DEFINE j == (k * u) \div u
           rest == (k * u) % u
<1>2. j \in Nat /\ rest \in Nat /\ rest < u /\ k * u = u * j + rest
  BY <1>1, DivisionParts
<1> HIDE DEF j, rest
<1>3. u * (k - j) = rest
  BY <1>2
<1>4. ~(k - j >= 1)
  <2>1. SUFFICES ASSUME k - j >= 1 PROVE FALSE
    OBVIOUS
  <2>2. u * (k - j) >= u * 1
    BY <1>2, <2>1, SMT
  <2> QED
    BY <1>2, <1>3, <2>2
<1>5. ~(k - j <= -1)
  <2>1. SUFFICES ASSUME k - j <= -1 PROVE FALSE
    OBVIOUS
  <2>2. u * (k - j) <= u * (-1)
    BY <1>2, <2>1, SMT
  <2> QED
    BY <1>2, <1>3, <2>2
<1>6. k = j
  BY <1>2, <1>4, <1>5
<1> QED
  BY <1>1, <1>2, <1>6 DEF j, rest

\* Rounding to a unit gives a multiple of it, and leaves a multiple as it is.
LEMMA RoundToUnit ==
  ASSUME NEW x \in Nat, NEW u \in Nat \ {0}
  PROVE  /\ RoundTo(u, x) \in Nat /\ RoundTo(u, x) % u = 0
         /\ x % u = 0 => RoundTo(u, x) = x
<1>1. PICK k \in Nat : /\ RoundTo(u, x) = u * k
                       /\ x % u = 0 => k = x \div u
  <2>1. x \div u \in Nat /\ x \div u + 1 \in Nat
    BY DivisionParts
  <2>2. x % u = 0 => ~(2 * (x % u) > u) /\ 2 * (x % u) # u
    OBVIOUS
  <2> QED
    BY <2>1, <2>2 DEF RoundTo
<1>2. u * k = k * u
  OBVIOUS
<1> QED
  BY <1>1, <1>2, DivisionExact, DivisionParts

\* The lot and the precision of the quantity are the same in every market of the table.
LEMMA RulesTypes ==
  ASSUME NEW m \in Market
  PROVE  /\ Rules(m).quantity_step \in Nat \ {0}
         /\ Rules(m).quantity_unit = Rules(m).quantity_step
         /\ Rules(m).price_unit \in Nat \ {0}
         /\ Rules(m).min_quantity \in Nat /\ Rules(m).max_quantity \in Nat
         /\ Rules(m).min_notional \in Nat
         /\ m # Bybit => Rules(m).price_tick = Rules(m).price_unit
<1>1. /\ PriceUnits \in Nat /\ QuantityUnits \in Nat
      /\ PriceUnits \div 10 \in Nat \ {0} /\ PriceUnits \div 100 \in Nat \ {0}
      /\ QuantityUnits \div 1000 \in Nat \ {0} /\ QuantityUnits \div 10000 \in Nat \ {0}
      /\ QuantityUnits \div 1 \in Nat /\ PriceUnits * QuantityUnits \in Nat
  BY PrecisionAssumption, Products
<1> USE <1>1 DEF Rules, QuantityOf, PriceOf, NotionalOf, Bybit
<1>2. CASE m = <<"Binance", "BTC/USDT">>
  BY <1>2
<1>3. CASE m = <<"Binance", "ETH/USDT">>
  BY <1>3
<1>4. CASE m = Bybit
  BY <1>4
<1>5. CASE m = <<"OKX", "BTC/USDT">>
  BY <1>5
<1> QED
  BY <1>2, <1>3, <1>4, <1>5 DEF Market

\* What becomes of a quantity: the lots it holds, and no more once it is whole lots.
LEMMA Adjusted ==
  ASSUME NEW m \in Market, NEW q \in Nat
  PROVE  LET r == Rules(m)
             adjusted == AdjustToLotSize(r, q)
         IN  /\ adjusted \in Nat /\ adjusted % r.quantity_step = 0
             /\ adjusted <= q /\ q - adjusted < r.quantity_step
             /\ q % r.quantity_step = 0 => adjusted = q
<1> DEFINE step == Rules(m).quantity_step
           lots == q \div step
<1>1. step \in Nat \ {0} /\ Rules(m).quantity_unit = step
  BY RulesTypes
<1> HIDE DEF step
<1>2. /\ lots \in Nat /\ q % step \in Nat /\ q % step < step
      /\ q = lots * step + (q % step)
  BY <1>1, DivisionParts
<1> HIDE DEF lots
<1>3. lots * step \in Nat /\ (lots * step) % step = 0
  BY <1>1, <1>2, DivisionExact
<1>4. RoundTo(step, lots * step) = lots * step
  BY <1>1, <1>3, RoundToUnit
<1>5. AdjustToLotSize(Rules(m), q) = lots * step
  BY <1>1, <1>4 DEF AdjustToLotSize, lots, step
<1> QED
  BY <1>2, <1>3, <1>5 DEF step

\* A call of validate_order with any market and any order leaves a result that keeps
\* to the rules.
LEMMA ValidateMeetsRules ==
  ASSUME NEW market, NEW asked \in Nat \X Nat, Validate(market, asked)
  PROVE  AcceptedOrdersMeetRules'
<1> DEFINE result == ValidateOrder(market, asked[1], asked[2])
<1>1. validation'.market = market /\ validation'.asked = asked /\ validation'.result = result
  BY DEF Validate
<1>2. CASE market \notin Market
  BY <1>1, <1>2 DEF AcceptedOrdersMeetRules, ValidateOrder
<1>3. CASE market \in Market
  <2> DEFINE r == Rules(market)
             price == asked[1]
             q == asked[2]
             p1 == RoundTo(r.price_unit, price)
             q1 == AdjustToLotSize(r, q)
             q2 == AdjustToLotSize(r, q1)
  <2>1. price \in Nat /\ q \in Nat
    OBVIOUS
  <2>2. /\ q1 \in Nat /\ q1 % r.quantity_step = 0
        /\ q1 <= q /\ q - q1 < r.quantity_step
        /\ q % r.quantity_step = 0 => q1 = q
    BY <1>3, <2>1, Adjusted
  <2>3. q2 = q1
    BY <1>3, <2>2, Adjusted
  <2>4. p1 \in Nat /\ p1 % r.price_unit = 0 /\ (price % r.price_unit = 0 => p1 = price)
    BY <1>3, <2>1, RoundToUnit, RulesTypes
  <2>5. result = [error |-> OrderError(r, p1, q1), price |-> p1, quantity |-> q1]
    BY <1>3 DEF ValidateOrder
  <2>6. /\ r.min_quantity \in Nat /\ r.max_quantity \in Nat /\ r.min_notional \in Nat
        /\ market # Bybit => r.price_tick = r.price_unit
    BY <1>3, RulesTypes
  <2> HIDE DEF r, p1, q1
  <2>7. OrderError(r, p1, q1) = "none" <=>
          q1 >= r.min_quantity /\ q1 <= r.max_quantity /\ p1 * q1 >= r.min_notional
    <3>1. p1 * q1 \in Nat
      BY <2>2, <2>4, Products
    <3> DEFINE notional == p1 * q1
    <3>2. OrderError(r, p1, q1) = CASE q1 < r.min_quantity -> "QuantityTooSmall"
                                    [] q1 > r.max_quantity -> "QuantityTooLarge"
                                    [] notional < r.min_notional -> "NotionalTooSmall"
                                    [] OTHER -> "none"
      BY <2>3 DEF OrderError
    <3> HIDE DEF notional
    <3>3. OrderError(r, p1, q1) = "none" <=>
            q1 >= r.min_quantity /\ q1 <= r.max_quantity /\ notional >= r.min_notional
      BY <2>2, <2>6, <3>1, <3>2 DEF notional
    <3> QED
      BY <3>3 DEF notional
  <2>8. result.error = "none" =>
          /\ Meets(r, result.price, result.quantity)
          /\ result.quantity <= q /\ q - result.quantity < r.quantity_step
          /\ market # Bybit => result.price % r.price_tick = 0
    BY <2>2, <2>4, <2>5, <2>6, <2>7 DEF Meets
  <2>9. Meets(r, price, q) => result = [error |-> "none", price |-> price, quantity |-> q]
    BY <2>2, <2>4, <2>5, <2>7 DEF Meets
  <2> QED
    BY <1>1, <1>3, <2>8, <2>9 DEF AcceptedOrdersMeetRules, r
<1> QED
  BY <1>2, <1>3

\* Calls of validate_order, one after the other, with any markets and any orders.
ValidateSpec ==
  /\ validation = NoValidation
  /\ [][\/ \E market \in STRING \X STRING, asked \in Nat \X Nat : Validate(market, asked)
        \/ validation' = NoValidation]_validation

\* For the four markets of the table and any order: an accepted order meets the rules that
\* are enforced, with the price tick on all but Bybit, and stays close to what was asked
\* for; an order that meets them is accepted unchanged; no other market is served.
THEOREM OrdersMeetRules == ValidateSpec => []AcceptedOrdersMeetRules
<1> DEFINE NextCall ==
      \/ \E market \in STRING \X STRING, asked \in Nat \X Nat : Validate(market, asked)
      \/ validation' = NoValidation
<1>1. validation = NoValidation => AcceptedOrdersMeetRules
  BY DEF AcceptedOrdersMeetRules
<1>2. AcceptedOrdersMeetRules /\ [NextCall]_validation => AcceptedOrdersMeetRules'
  <2>1. ASSUME NEW market \in STRING \X STRING, NEW asked \in Nat \X Nat, Validate(market, asked)
        PROVE  AcceptedOrdersMeetRules'
    BY <2>1, ValidateMeetsRules
  <2>2. validation' = NoValidation => AcceptedOrdersMeetRules'
    BY DEF AcceptedOrdersMeetRules
  <2>3. AcceptedOrdersMeetRules /\ validation' = validation => AcceptedOrdersMeetRules'
    BY DEF AcceptedOrdersMeetRules
  <2> QED
    BY <2>1, <2>2, <2>3
<1> QED
  BY <1>1, <1>2, PTL DEF ValidateSpec

-----------------------------------------------------------------------------
(* The types *)

Plans == [buy : Exchange \cup {None}, sell : Exchange \cup {None}, quantity : Nat]
Tops == [exchange : Exchange \cup {None}, quantity : Int]

\* Plans and largest inventories have the fields they should.
LEMMA PlanFields ==
  /\ NoPlan \in Plans /\ NoTop \in Tops
  /\ \A b, s \in Exchange, q \in Quantity : [buy |-> b, sell |-> s, quantity |-> q] \in Plans
  /\ \A e \in Exchange, q \in Int : [exchange |-> e, quantity |-> q] \in Tops
  /\ \A p \in Plans : /\ p.quantity \in Nat
                      /\ p.buy \in Exchange \cup {None} /\ p.sell \in Exchange \cup {None}
  /\ \A t \in Tops : t.quantity \in Int /\ t.exchange \in Exchange \cup {None}
<1>1. Quantity \subseteq Nat /\ 0 \in Nat
  BY InventoryAssumption
<1>2. NoPlan \in Plans /\ NoTop \in Tops
  BY <1>1 DEF NoPlan, NoTop, Plans, Tops
<1>3. \A b, s \in Exchange, q \in Quantity : [buy |-> b, sell |-> s, quantity |-> q] \in Plans
  BY <1>1 DEF Plans
<1>4. \A e \in Exchange, q \in Int : [exchange |-> e, quantity |-> q] \in Tops
  BY DEF Tops
<1>5. \A p \in Plans : /\ p.quantity \in Nat
                       /\ p.buy \in Exchange \cup {None} /\ p.sell \in Exchange \cup {None}
  BY DEF Plans
<1>6. \A t \in Tops : t.quantity \in Int /\ t.exchange \in Exchange \cup {None}
  BY DEF Tops
<1> QED
  BY <1>2, <1>3, <1>4, <1>5, <1>6

\* The type invariant, conjunct by conjunct.
Typed ==
  /\ inventory \in [Exchange -> Int] /\ held \in [Exchange -> Int]
  /\ at \in [Caller -> InventoryPlaces]
  /\ plan \in [Caller -> Plans]
  /\ \A c \in Caller : at[c] = "hedge" => plan[c].buy # None \/ plan[c].sell # None
  /\ read \in [Caller -> Int]
  /\ left \in [Caller -> SUBSET Exchange]
  /\ top \in [Caller -> Tops]
  /\ askers \subseteq Caller /\ hedged \in BOOLEAN /\ midCall \in BOOLEAN
  /\ disturbed \subseteq Caller

\* It is the type invariant.
LEMMA TypedIsTypeOK == Typed <=> InventoryTypeOK
<1>1. ASSUME NEW c \in Caller
      PROVE  Legs(c) # {} <=> plan[c].buy # None \/ plan[c].sell # None
  BY DEF Legs
<1> QED
  BY <1>1, Zenon DEF Typed, InventoryTypeOK, Plans, Tops

\* A hedge has its type and names an exchange.
LEMMA HedgeTyped ==
  ASSUME Typed, NEW c \in Caller, Found(c)
  PROVE  Hedge(c) \in Plans /\ (Hedge(c).buy # None \/ Hedge(c).sell # None)
<1>1. top[c].exchange \in Exchange /\ top[c].exchange # None
  BY PlanFields DEF Typed, Found
<1>2. Deviation(c) \in Int
  BY DEF Typed, Deviation, TargetInventory
<1>3. CASE Deviation(c) > 0
  <2>1. Hedge(c) = [buy |-> None, sell |-> top[c].exchange, quantity |-> Deviation(c)]
    BY <1>3 DEF Hedge, NoPlan
  <2> QED
    BY <1>1, <1>2, <1>3, <2>1 DEF Plans
<1>4. CASE ~(Deviation(c) > 0)
  <2>1. Hedge(c) = [buy |-> top[c].exchange, sell |-> None, quantity |-> -Deviation(c)]
    BY <1>4 DEF Hedge, NoPlan
  <2>2. -Deviation(c) \in Nat
    BY <1>2, <1>4
  <2> QED
    BY <1>1, <2>1, <2>2 DEF Plans
<1> QED
  BY <1>3, <1>4

\* The initial state is typed.
LEMMA InventoryInitTyped == InventoryInit => Typed
<1> SUFFICES ASSUME InventoryInit PROVE Typed
  OBVIOUS
<1>1. NoPlan \in Plans /\ NoTop \in Tops
  BY PlanFields
<1>2. /\ inventory \in [Exchange -> Int] /\ held \in [Exchange -> Int]
      /\ read \in [Caller -> Int] /\ left \in [Caller -> SUBSET Exchange]
  BY DEF InventoryInit
<1>3. /\ at \in [Caller -> InventoryPlaces] /\ \A c \in Caller : at[c] # "hedge"
  BY DEF InventoryInit, InventoryPlaces
<1>4. plan \in [Caller -> Plans] /\ top \in [Caller -> Tops]
  BY <1>1 DEF InventoryInit
<1>5. /\ askers \subseteq Caller /\ hedged \in BOOLEAN /\ midCall \in BOOLEAN
      /\ disturbed \subseteq Caller
  BY DEF InventoryInit
<1> QED
  BY <1>2, <1>3, <1>4, <1>5 DEF Typed

\* Every step keeps the types.
LEMMA InventoryStepTyped == Typed /\ [InventoryNext]_inventoryVars => Typed'
<1> SUFFICES ASSUME Typed, [InventoryNext]_inventoryVars PROVE Typed'
  OBVIOUS
<1> USE PlanFields DEF Typed, InventoryPlaces, Move, Reading, history
<1>1. ASSUME NEW c \in Caller, NEW b \in Exchange, NEW s \in Exchange, NEW q \in Quantity,
             CanTradePair(c, b, s, q)
      PROVE  Typed'
  BY <1>1 DEF CanTradePair, Begin
<1>2. ASSUME NEW c \in Caller, CheckExchanges(c) PROVE Typed'
  <2>1. CASE Refuse(c) /\ UNCHANGED left
    BY <1>2, <2>1 DEF CheckExchanges, Refuse, Return
  <2>2. CASE /\ StartIteration(c, "net")
             /\ read' = [read EXCEPT ![c] = 0]
             /\ UNCHANGED <<plan, top, disturbed>>
    BY <1>2, <2>2 DEF CheckExchanges, StartIteration
  <2> QED
    BY <1>2, <2>1, <2>2 DEF CheckExchanges
<1>3. ASSUME NEW c \in Caller, CheckNet(c) PROVE Typed'
  <2>1. CASE Refuse(c)
    BY <1>3, <2>1 DEF CheckNet, Refuse, Return
  <2>2. CASE Return(c, "approved", plan[c])
    BY <1>3, <2>2 DEF CheckNet, Return
  <2> QED
    BY <1>3, <2>1, <2>2 DEF CheckNet
<1>4. ASSUME NEW c \in Caller, CalculateHedge(c) PROVE Typed'
  BY <1>4 DEF CalculateHedge, Begin, StartIteration
<1>5. ASSUME NEW c \in Caller, CheckDeviation(c) PROVE Typed'
  <2>1. CASE Refuse(c) /\ UNCHANGED left
    BY <1>5, <2>1 DEF CheckDeviation, Refuse, Return
  <2>2. CASE StartIteration(c, "largest") /\ UNCHANGED <<plan, read, top, disturbed>>
    BY <1>5, <2>2 DEF CheckDeviation, StartIteration
  <2> QED
    BY <1>5, <2>1, <2>2 DEF CheckDeviation
<1>6. ASSUME NEW c \in Caller, Recommend(c) PROVE Typed'
  <2>1. CASE Found(c) /\ Return(c, "hedge", Hedge(c))
    <3>1. Hedge(c) \in Plans /\ (Hedge(c).buy # None \/ Hedge(c).sell # None)
      BY <2>1, HedgeTyped
    <3> QED
      BY <1>6, <2>1, <3>1 DEF Recommend, Return
  <2>2. CASE Refuse(c)
    BY <1>6, <2>2 DEF Recommend, Refuse, Return
  <2> QED
    BY <1>6, <2>1, <2>2 DEF Recommend
<1>7. ASSUME NEW c \in Caller, NEW e \in Exchange, ReadInventory(c, e) PROVE Typed'
  BY <1>7 DEF ReadInventory
<1>8. ASSUME NEW c \in Caller, NEW e \in Exchange, FindEntry(c, e) PROVE Typed'
  BY <1>8 DEF FindEntry
<1>9. ASSUME NEW c \in Caller, NEW e \in Exchange, FetchPosition(c, e) PROVE Typed'
  <2>1. [exchange |-> e, quantity |-> held[e]] \in Tops
    OBVIOUS
  <2> QED
    BY <1>9, <2>1 DEF FetchPosition
<1>13. ASSUME NEW c \in Caller, UpdateInventory(c) PROVE Typed'
  <2>1. top[c].quantity \in Int /\ left[c] \ {top[c].exchange} \in SUBSET Exchange
    OBVIOUS
  <2>2. inventory' \in [Exchange -> Int] /\ top' \in [Caller -> Tops]
    BY <1>13, <2>1 DEF UpdateInventory
  <2>3. left' \in [Caller -> SUBSET Exchange] /\ disturbed' \subseteq Caller
    BY <1>13, <2>1 DEF UpdateInventory, Calling
  <2>4. at' \in [Caller -> InventoryPlaces] /\ \A d \in Caller : at'[d] = "hedge" => at[d] = "hedge"
    BY <1>13 DEF UpdateInventory
  <2> QED
    BY <1>13, <2>2, <2>3, <2>4 DEF UpdateInventory
<1>10. ASSUME NEW c \in Caller, NEW filled \in SUBSET Exchange, Trade(c, filled) PROVE Typed'
  <2>1. \A e \in Exchange : HeldAfter(c, filled, e) \in Int
    BY DEF HeldAfter
  <2> QED
    BY <1>10, <2>1 DEF Trade
<1>11. CASE Reset
  <2>1. midCall' \in BOOLEAN
    BY <1>11, Zenon DEF Reset
  <2>2. inventory' \in [Exchange -> Int] /\ held' \in [Exchange -> Int]
    BY <1>11 DEF Reset
  <2>3. disturbed' \subseteq Caller /\ hedged' \in BOOLEAN
    BY <1>11 DEF Reset, Calling
  <2>4. UNCHANGED <<at, plan, read, left, top, askers>>
    BY <1>11 DEF Reset
  <2> QED
    BY <2>1, <2>2, <2>3, <2>4
<1>12. CASE UNCHANGED inventoryVars
  BY <1>12 DEF inventoryVars
<1> QED
  BY <1>1, <1>2, <1>3, <1>4, <1>5, <1>6, <1>7, <1>8, <1>9, <1>10, <1>11, <1>12,
     <1>13 DEF InventoryNext

\* Every variable has its type, for any number of tasks and exchanges, any quantities
\* and any limit.
THEOREM InventoryTypes == InventorySpec => []InventoryTypeOK
BY InventoryInitTyped, InventoryStepTyped, TypedIsTypeOK, PTL DEF InventorySpec

-----------------------------------------------------------------------------
(* Calls that no update overlaps with are exact *)

\* Outside a call nothing is left of what was read, but for a position that was
\* fetched to be reported, and the plan of a trade is one of
\* two different exchanges. Who is somewhere has called.
Tidy ==
  \A c \in Caller :
    /\ at[c] \notin {"largest", "insert"} => top[c] = NoTop
    /\ at[c] = "insert" => top[c].exchange \in left[c]
    /\ at[c] \notin {"sell", "net", "deviation", "largest"} => read[c] = 0
    /\ at[c] \in {"sell", "net", "approved"} =>
         /\ plan[c].buy \in Exchange /\ plan[c].sell \in Exchange
         /\ plan[c].buy # plan[c].sell /\ plan[c].quantity \in Quantity
    /\ at[c] # "idle" => c \in askers

\* Both exchanges of a trade stay within the limit.
WithinLimits(c) == /\ ~Exceeds(inventory[plan[c].buy] + plan[c].quantity)
                   /\ ~Exceeds(inventory[plan[c].sell] - plan[c].quantity)

\* What c has found is the largest of the inventories it has visited.
LargestOfVisited(c) ==
  /\ top[c].exchange = None => top[c].quantity = 0
  /\ top[c].exchange # None => top[c].quantity = inventory[top[c].exchange]
  /\ \A e \in Exchange \ left[c] : Abs(inventory[e]) <= Abs(top[c].quantity)

\* What a call that no update overlaps with has read is what the map holds.
ExactFor(c) ==
  /\ at[c] = "sell" => read[c] = inventory[plan[c].buy]
  /\ at[c] = "net" => WithinLimits(c)
  /\ at[c] \in {"net", "deviation"} => read[c] = SumFunctionOnSet(inventory, Exchange \ left[c])
  /\ at[c] = "largest" => /\ read[c] = Net(inventory) /\ Threshold <= Abs(read[c])
                          /\ LargestOfVisited(c)

Exactness == \A c \in Calling \ disturbed : ExactFor(c)

\* A step of c that leaves the inventory as it is, and the other tasks.
Private(c) ==
  /\ UNCHANGED inventory
  /\ disturbed \ {c} \subseteq disturbed'
  /\ \A d \in Caller \ {c} : /\ at'[d] = at[d] /\ plan'[d] = plan[d] /\ read'[d] = read[d]
                             /\ left'[d] = left[d] /\ top'[d] = top[d]

\* What c answers for the inventory there is.
AnswersExactly(c) ==
  /\ at'[c] = "approved" => Allowed(plan[c])
  /\ at[c] \in {"sell", "net"} /\ at'[c] = "idle" => ~Allowed(plan[c])
  /\ at'[c] = "hedge" => BringsToTarget(plan'[c])
  /\ at[c] \in {"deviation", "largest"} /\ at'[c] = "idle" =>
       Abs(Net(inventory) - TargetInventory) < Threshold

\* Sums of inventories are integers, and a visit adds one.
LEMMA SumOfVisited ==
  ASSUME Typed, NEW T \in SUBSET Exchange
  PROVE  /\ SumFunctionOnSet(inventory, Exchange \ T) \in Int
         /\ \A e \in T : SumFunctionOnSet(inventory, Exchange \ (T \ {e}))
                           = SumFunctionOnSet(inventory, Exchange \ T) + inventory[e]
<1>1. IsFiniteSet(Exchange \ T) /\ \A x \in Exchange : inventory[x] \in Int
  BY InventoryAssumption, FS_Subset DEF Typed
<1>2. SumFunctionOnSet(inventory, Exchange \ T) \in Int
  BY <1>1, SumType
<1>3. ASSUME NEW e \in T
      PROVE  SumFunctionOnSet(inventory, Exchange \ (T \ {e}))
               = SumFunctionOnSet(inventory, Exchange \ T) + inventory[e]
  <2>1. Exchange \ (T \ {e}) = (Exchange \ T) \cup {e} /\ e \notin Exchange \ T
    OBVIOUS
  <2>2. \A x \in (Exchange \ T) \cup {e} : inventory[x] \in Int
    BY <1>1
  <2>3. SumFunctionOnSet(inventory, (Exchange \ T) \cup {e})
          = SumFunctionOnSet(inventory, Exchange \ T) + inventory[e]
    BY <1>1, <2>1, <2>2, SumAdd
  <2> QED
    BY <2>1, <2>3
<1> QED
  BY <1>2, <1>3

\* Nothing has been visited at the start, everything at the end.
LEMMA SumAtEnds ==
  /\ SumFunctionOnSet(inventory, Exchange \ Exchange) = 0
  /\ SumFunctionOnSet(inventory, Exchange \ {}) = Net(inventory)
<1>1. Exchange \ Exchange = {} /\ Exchange \ {} = Exchange
  OBVIOUS
<1> QED
  BY <1>1, SumEmpty DEF Net

\* A private step of one task leaves what the others have read as exact as it was.
LEMMA OthersStayExact ==
  ASSUME NEW c \in Caller, Private(c), Exactness,
         c \in Calling' \ disturbed' => ExactFor(c)'
  PROVE  Exactness'
<1> SUFFICES ASSUME NEW d \in (Calling \ disturbed)' PROVE ExactFor(d)'
  BY DEF Exactness
<1>1. CASE d = c
  BY <1>1
<1>2. CASE d # c
  <2>1. d \in Calling \ disturbed /\ d \in Caller \ {c}
    BY <1>2 DEF Private, Calling
  <2>2. ExactFor(d)
    BY <2>1 DEF Exactness
  <2> QED
    BY <2>1, <2>2 DEF Private, ExactFor, WithinLimits, LargestOfVisited, Net
<1> QED
  BY <1>1, <1>2

\* So only c can answer, and its answer is exact if what it has read is.
LEMMA OthersDoNotAnswer ==
  ASSUME NEW c \in Caller, Private(c), c \in Calling \ disturbed => AnswersExactly(c)
  PROVE  \A d \in Calling \ disturbed : AnswersExactly(d)
<1> SUFFICES ASSUME NEW d \in Calling \ disturbed, d # c PROVE AnswersExactly(d)
  OBVIOUS
<1>1. d \in Caller \ {c} /\ at[d] \in {"sell", "net", "deviation", "largest"} /\ at'[d] = at[d]
  BY DEF Calling, Private
<1> QED
  BY <1>1 DEF AnswersExactly

\* Every step keeps things tidy.
LEMMA TidyStep == Typed /\ Tidy /\ [InventoryNext]_inventoryVars => Tidy'
<1> SUFFICES ASSUME Typed, Tidy, [InventoryNext]_inventoryVars PROVE Tidy'
  OBVIOUS
<1> USE DEF Typed, Tidy, Move, Reading, history
<1>1. ASSUME NEW c \in Caller, NEW b \in Exchange, NEW s \in Exchange, NEW q \in Quantity,
             CanTradePair(c, b, s, q)
      PROVE  Tidy'
  BY <1>1 DEF CanTradePair, Begin
<1>2. ASSUME NEW c \in Caller, CheckExchanges(c) PROVE Tidy'
  BY <1>2 DEF CheckExchanges, Refuse, Return, StartIteration
<1>3. ASSUME NEW c \in Caller, CheckNet(c) PROVE Tidy'
  BY <1>3 DEF CheckNet, Refuse, Return
<1>4. ASSUME NEW c \in Caller, CalculateHedge(c) PROVE Tidy'
  BY <1>4 DEF CalculateHedge, Begin, StartIteration
<1>5. ASSUME NEW c \in Caller, CheckDeviation(c) PROVE Tidy'
  BY <1>5 DEF CheckDeviation, Refuse, Return, StartIteration
<1>6. ASSUME NEW c \in Caller, Recommend(c) PROVE Tidy'
  BY <1>6 DEF Recommend, Refuse, Return
<1>7. ASSUME NEW c \in Caller, NEW e \in Exchange, ReadInventory(c, e) PROVE Tidy'
  BY <1>7 DEF ReadInventory
<1>8. ASSUME NEW c \in Caller, NEW e \in Exchange, FindEntry(c, e) PROVE Tidy'
  BY <1>8 DEF FindEntry
<1>9. ASSUME NEW c \in Caller, NEW e \in Exchange, FetchPosition(c, e) PROVE Tidy'
  BY <1>9 DEF FetchPosition
<1>13. ASSUME NEW c \in Caller, UpdateInventory(c) PROVE Tidy'
  BY <1>13 DEF UpdateInventory
<1>10. ASSUME NEW c \in Caller, NEW filled \in SUBSET Exchange, Trade(c, filled) PROVE Tidy'
  BY <1>10 DEF Trade
<1>11. CASE Reset
  BY <1>11 DEF Reset
<1>12. CASE UNCHANGED inventoryVars
  BY <1>12 DEF inventoryVars
<1> QED
  BY <1>1, <1>2, <1>3, <1>4, <1>5, <1>6, <1>7, <1>8, <1>9, <1>10, <1>11, <1>12,
     <1>13 DEF InventoryNext

\* What is said of the step of a task in a call.
ExactStep(c) ==
  /\ Private(c)
  /\ c \in Calling' \ disturbed' => ExactFor(c)'
  /\ c \in Calling \ disturbed => AnswersExactly(c)

\* can_trade.
LEMMA CanTradeExact ==
  ASSUME Typed, NEW c \in Caller, NEW b \in Exchange, NEW s \in Exchange, NEW q \in Quantity,
         CanTradePair(c, b, s, q)
  PROVE  ExactStep(c)
<1>1. /\ at[c] = "idle" /\ at' = [at EXCEPT ![c] = "sell"]
      /\ plan' = [plan EXCEPT ![c] = [buy |-> b, sell |-> s, quantity |-> q]]
      /\ read' = [read EXCEPT ![c] = inventory[b]]
      /\ UNCHANGED <<inventory, top, disturbed, left>>
  BY DEF CanTradePair, Begin, Move
<1>2. Private(c)
  BY <1>1 DEF Private, Typed
<1>3. ExactFor(c)'
  BY <1>1 DEF ExactFor, Typed
<1> QED
  BY <1>1, <1>2, <1>3 DEF ExactStep, Calling

\* The second get: c goes on only if both exchanges stay within the limit.
LEMMA CheckExchangesExact ==
  ASSUME Typed, Tidy, Exactness, NEW c \in Caller, CheckExchanges(c)
  PROVE  ExactStep(c)
<1>1. /\ at[c] = "sell" /\ UNCHANGED inventory
      /\ plan[c].buy \in Exchange /\ plan[c].sell \in Exchange /\ plan[c].quantity \in Nat
  BY InventoryAssumption DEF CheckExchanges, Reading, Tidy
<1>2. CASE Refuse(c) /\ UNCHANGED left /\ ~(/\ ~Exceeds(read[c] + plan[c].quantity)
                                            /\ ~Exceeds(inventory[plan[c].sell] - plan[c].quantity))
  <2>1. Private(c) /\ at'[c] = "idle"
    BY <1>1, <1>2 DEF Refuse, Return, Move, Private, Typed
  <2>2. c \in Calling \ disturbed => ~Allowed(plan[c])
    <3>1. SUFFICES ASSUME c \in Calling \ disturbed PROVE ~Allowed(plan[c])
      OBVIOUS
    <3>2. read[c] = inventory[plan[c].buy]
      BY <1>1, <3>1 DEF Exactness, ExactFor
    <3>3. /\ inventory[plan[c].buy] + plan[c].quantity \in Int
          /\ inventory[plan[c].sell] - plan[c].quantity \in Int
      BY <1>1 DEF Typed
    <3>4. \A q \in Int : ~Exceeds(q) <=> Abs(q) <= MaxInventory
      BY InventoryAssumption DEF Exceeds, Abs
    <3> QED
      BY <1>2, <3>2, <3>3, <3>4 DEF Allowed
  <2> QED
    BY <1>1, <2>1, <2>2 DEF ExactStep, Calling, AnswersExactly
<1>3. CASE /\ ~Exceeds(read[c] + plan[c].quantity)
           /\ ~Exceeds(inventory[plan[c].sell] - plan[c].quantity)
           /\ StartIteration(c, "net")
           /\ read' = [read EXCEPT ![c] = 0]
           /\ UNCHANGED <<plan, top, disturbed>>
  <2>1. /\ Private(c) /\ at'[c] = "net" /\ left'[c] = Exchange /\ read'[c] = 0
        /\ UNCHANGED <<inventory, plan, disturbed>>
    BY <1>1, <1>3 DEF StartIteration, Move, Private, Typed
  <2>2. c \in Calling \ disturbed => WithinLimits(c)
    BY <1>1, <1>3 DEF Exactness, ExactFor, WithinLimits, Calling
  <2>3. c \in Calling' \ disturbed' => ExactFor(c)'
    <3>1. c \in Calling
      BY <1>1 DEF Calling
    <3>2. c \notin disturbed' => WithinLimits(c)'
      BY <2>1, <2>2, <3>1 DEF WithinLimits
    <3>3. read'[c] = SumFunctionOnSet(inventory', Exchange \ left'[c])
      BY <2>1, SumAtEnds
    <3> QED
      BY <2>1, <3>2, <3>3 DEF ExactFor
  <2> QED
    BY <1>1, <2>1, <2>3 DEF ExactStep, AnswersExactly
<1> QED
  BY <1>2, <1>3 DEF CheckExchanges

\* An entry is added to the sum of those visited before.
LEMMA ReadEntryExact ==
  ASSUME Typed, Exactness, NEW c \in Caller, NEW e \in Exchange, ReadInventory(c, e)
  PROVE  ExactStep(c)
<1>1. /\ at[c] \in {"net", "deviation"} /\ e \in left[c]
      /\ left'[c] = left[c] \ {e} /\ read'[c] = read[c] + inventory[e] /\ left[c] \in SUBSET Exchange
      /\ UNCHANGED <<at, plan, top, inventory, disturbed>> /\ Private(c)
  BY DEF ReadInventory, Reading, Typed, Private
<1>2. c \in Calling' \ disturbed' => ExactFor(c)'
  <2>1. SUFFICES ASSUME c \notin disturbed PROVE ExactFor(c)'
    BY <1>1
  <2>2. ExactFor(c)
    BY <1>1, <2>1 DEF Exactness, Calling
  <2>3. read'[c] = SumFunctionOnSet(inventory, Exchange \ left'[c])
    BY <1>1, <2>2, SumOfVisited DEF ExactFor
  <2> QED
    BY <1>1, <2>2, <2>3 DEF ExactFor, WithinLimits
<1> QED
  BY <1>1, <1>2 DEF ExactStep, AnswersExactly

\* Where nothing is left to visit, what c has read is the net.
LEMMA CheckNetExact ==
  ASSUME Typed, Tidy, Exactness, NEW c \in Caller, CheckNet(c)
  PROVE  ExactStep(c)
<1>1. /\ at[c] = "net" /\ left[c] = {} /\ UNCHANGED <<inventory, left>>
      /\ plan[c].buy \in Exchange /\ plan[c].sell \in Exchange
  BY DEF CheckNet, Reading, Tidy
<1>2. ASSUME c \notin disturbed
      PROVE  read[c] = Net(inventory) /\ WithinLimits(c)
  <2>1. ExactFor(c)
    BY <1>1, <1>2 DEF Exactness, Calling
  <2> QED
    BY <1>1, <2>1, SumAtEnds DEF ExactFor
<1>3. ASSUME c \notin disturbed
      PROVE  Allowed(plan[c]) <=> ~Exceeds(read[c])
  <2>1. Net(inventory) \in Int
    BY SumOfVisited, SumAtEnds
  <2>2. /\ inventory[plan[c].buy] \in Int /\ inventory[plan[c].sell] \in Int
        /\ plan[c].quantity \in Int
    BY <1>1, PlanFields DEF Typed
  <2> QED
    BY <1>2, <1>3, <2>1, <2>2, InventoryAssumption DEF Allowed, WithinLimits, Exceeds, Abs
<1>4. CASE Exceeds(read[c]) /\ Refuse(c)
  <2>1. Private(c) /\ at'[c] = "idle"
    BY <1>1, <1>4 DEF Refuse, Return, Move, Private, Typed
  <2> QED
    BY <1>1, <1>3, <1>4, <2>1 DEF ExactStep, Calling, AnswersExactly
<1>5. CASE ~Exceeds(read[c]) /\ Return(c, "approved", plan[c])
  <2>1. Private(c) /\ at'[c] = "approved"
    BY <1>1, <1>5 DEF Return, Move, Private, Typed
  <2> QED
    BY <1>1, <1>3, <1>5, <2>1 DEF ExactStep, Calling, AnswersExactly
<1> QED
  BY <1>4, <1>5 DEF CheckNet

\* calculate_hedge.
LEMMA CalculateHedgeExact ==
  ASSUME Typed, Tidy, NEW c \in Caller, CalculateHedge(c)
  PROVE  ExactStep(c)
<1>1. /\ at[c] = "idle" /\ at' = [at EXCEPT ![c] = "deviation"]
      /\ left' = [left EXCEPT ![c] = Exchange]
      /\ UNCHANGED <<inventory, top, disturbed, plan, read>>
      /\ read[c] = 0
  BY DEF CalculateHedge, Begin, StartIteration, Move, Tidy
<1>2. Private(c)
  BY <1>1 DEF Private, Typed
<1>3. ExactFor(c)'
  BY <1>1, SumAtEnds DEF ExactFor, Typed
<1> QED
  BY <1>1, <1>2, <1>3 DEF ExactStep, Calling

\* The second iteration starts only if the net is off the target.
LEMMA CheckDeviationExact ==
  ASSUME Typed, Tidy, Exactness, NEW c \in Caller, CheckDeviation(c)
  PROVE  ExactStep(c)
<1>1. /\ at[c] = "deviation" /\ left[c] = {} /\ UNCHANGED <<inventory>>
      /\ top[c] = NoTop
  BY DEF CheckDeviation, Reading, Tidy
<1>2. ASSUME c \notin disturbed PROVE read[c] = Net(inventory)
  <2>1. ExactFor(c)
    BY <1>1, <1>2 DEF Exactness, Calling
  <2> QED
    BY <1>1, <2>1, SumAtEnds DEF ExactFor
<1>3. CASE Abs(Deviation(c)) < Threshold /\ Refuse(c) /\ UNCHANGED left
  <2>1. Private(c) /\ at'[c] = "idle"
    BY <1>1, <1>3 DEF Refuse, Return, Move, Private, Typed
  <2> QED
    BY <1>1, <1>2, <1>3, <2>1 DEF ExactStep, Calling, AnswersExactly, Deviation
<1>4. CASE /\ ~(Abs(Deviation(c)) < Threshold) /\ StartIteration(c, "largest")
           /\ UNCHANGED <<plan, read, top, disturbed>>
  <2>1. /\ Private(c) /\ at'[c] = "largest" /\ left'[c] = Exchange
        /\ UNCHANGED <<inventory, read, top, disturbed>>
    BY <1>1, <1>4 DEF StartIteration, Move, Private, Typed
  <2>2. Threshold <= Abs(read[c])
    BY <1>4, InventoryAssumption DEF Deviation, TargetInventory, Typed, Abs
  <2>3. LargestOfVisited(c)'
    BY <1>1, <2>1 DEF LargestOfVisited, NoTop
  <2>4. c \in Calling' \ disturbed' => ExactFor(c)'
    BY <1>2, <2>1, <2>2, <2>3 DEF ExactFor
  <2> QED
    BY <1>1, <2>1, <2>4 DEF ExactStep, AnswersExactly
<1> QED
  BY <1>3, <1>4 DEF CheckDeviation

\* The larger of what c has found and the next entry is the largest visited.
LEMMA FindEntryExact ==
  ASSUME Typed, Exactness, NEW c \in Caller, NEW e \in Exchange, FindEntry(c, e)
  PROVE  ExactStep(c)
<1>1. /\ at[c] = "largest" /\ e \in left[c] /\ left'[c] = left[c] \ {e}
      /\ left[c] \in SUBSET Exchange
      /\ UNCHANGED <<at, plan, read, inventory, disturbed>> /\ Private(c)
      /\ top'[c] = IF IsLarger(inventory[e], top[c].quantity)
                   THEN [exchange |-> e, quantity |-> inventory[e]] ELSE top[c]
  BY DEF FindEntry, Reading, Typed, Private
<1>2. c \in Calling' \ disturbed' => ExactFor(c)'
  <2>1. SUFFICES ASSUME c \notin disturbed PROVE ExactFor(c)'
    BY <1>1
  <2>2. ExactFor(c)
    BY <1>1, <2>1 DEF Exactness, Calling
  <2>3. LargestOfVisited(c)
    BY <1>1, <2>2 DEF ExactFor
  <2>4. /\ top[c].quantity \in Int /\ \A x \in Exchange : inventory[x] \in Int
    BY PlanFields DEF Typed
  <2>5. e # None
    BY InventoryAssumption
  <2>6. LargestOfVisited(c)'
    <3>1. CASE IsLarger(inventory[e], top[c].quantity)
      <4>1. top'[c].exchange = e /\ top'[c].quantity = inventory[e]
        BY <1>1, <3>1
      <4>2. ASSUME NEW x \in Exchange \ left'[c] PROVE Abs(inventory[x]) <= Abs(inventory[e])
        <5>1. x = e \/ Abs(inventory[x]) <= Abs(top[c].quantity)
          BY <1>1, <2>3 DEF LargestOfVisited
        <5> QED
          BY <2>4, <3>1, <5>1 DEF IsLarger, Abs
      <4> QED
        BY <1>1, <2>5, <4>1, <4>2 DEF LargestOfVisited
    <3>2. CASE ~IsLarger(inventory[e], top[c].quantity)
      <4>1. top'[c] = top[c]
        BY <1>1, <3>2
      <4>2. ASSUME NEW x \in Exchange \ left'[c]
            PROVE  Abs(inventory[x]) <= Abs(top[c].quantity)
        <5>1. x = e \/ Abs(inventory[x]) <= Abs(top[c].quantity)
          BY <1>1, <2>3 DEF LargestOfVisited
        <5> QED
          BY <2>4, <3>2, <5>1 DEF IsLarger, Abs
      <4> QED
        BY <1>1, <2>3, <4>1, <4>2 DEF LargestOfVisited
    <3> QED
      BY <3>1, <3>2
  <2> QED
    BY <1>1, <2>2, <2>6 DEF ExactFor
<1> QED
  BY <1>1, <1>2 DEF ExactStep, AnswersExactly

\* The hedge is on the exchange found, for the net; if none was found, nothing is held.
LEMMA RecommendExact ==
  ASSUME Typed, Tidy, Exactness, NEW c \in Caller, Recommend(c)
  PROVE  ExactStep(c)
<1>1. /\ at[c] = "largest" /\ left[c] = {} /\ UNCHANGED <<inventory, left>>
  BY DEF Recommend, Reading
<1>2. ASSUME c \notin disturbed
      PROVE  /\ read[c] = Net(inventory) /\ Threshold <= Abs(read[c]) /\ LargestOfVisited(c)
  <2>1. ExactFor(c)
    BY <1>1, <1>2 DEF Exactness, Calling
  <2> QED
    BY <1>1, <2>1 DEF ExactFor
<1>3. /\ read[c] \in Int /\ top[c].quantity \in Int /\ top[c].exchange \in Exchange \cup {None}
      /\ \A x \in Exchange : inventory[x] \in Int
  BY PlanFields DEF Typed
<1>4. CASE Found(c) /\ Return(c, "hedge", Hedge(c))
  <2>1. Private(c) /\ at'[c] = "hedge" /\ plan'[c] = Hedge(c)
    BY <1>1, <1>4 DEF Return, Move, Private, Typed
  <2>0. Deviation(c) = read[c]
    BY <1>3 DEF Deviation, TargetInventory
  <2>2. ASSUME c \notin disturbed PROVE BringsToTarget(Hedge(c))
    <3> DEFINE e == top[c].exchange
    <3>1. e \in Exchange /\ e # None /\ top[c].quantity = inventory[e]
      BY <1>2, <1>3, <1>4, <2>2 DEF Found, LargestOfVisited
    <3>2. \A x \in Exchange : Abs(inventory[x]) <= Abs(inventory[e])
      BY <1>1, <1>2, <2>2, <3>1 DEF LargestOfVisited
    <3>3. CASE Deviation(c) > 0
      <4>1. Hedge(c) = [buy |-> None, sell |-> e, quantity |-> read[c]]
        BY <2>0, <3>3 DEF Hedge, NoPlan
      <4>2. {Hedge(c).buy, Hedge(c).sell} \ {None} = {e} /\ e # Hedge(c).buy
        BY <3>1, <4>1
      <4>3. Net(inventory) + (-Hedge(c).quantity) = TargetInventory
        BY <1>2, <1>3, <2>2, <4>1 DEF TargetInventory
      <4> HIDE DEF e
      <4>4. ASSUME NEW x \in {Hedge(c).buy, Hedge(c).sell} \ {None}
            PROVE  /\ Net(inventory) + (IF x = Hedge(c).buy THEN Hedge(c).quantity
                                        ELSE -Hedge(c).quantity) = TargetInventory
                   /\ \A other \in Exchange : Abs(inventory[other]) <= Abs(inventory[x])
        BY <3>2, <4>2, <4>3
      <4> QED
        BY ONLY <4>4 DEF BringsToTarget
    <3>4. CASE ~(Deviation(c) > 0)
      <4>1. Hedge(c) = [buy |-> e, sell |-> None, quantity |-> -read[c]]
        BY <2>0, <3>4 DEF Hedge, NoPlan
      <4>2. {Hedge(c).buy, Hedge(c).sell} \ {None} = {e} /\ e = Hedge(c).buy
        BY <3>1, <4>1
      <4>3. Net(inventory) + Hedge(c).quantity = TargetInventory
        BY <1>2, <1>3, <2>2, <4>1 DEF TargetInventory
      <4> HIDE DEF e
      <4>4. ASSUME NEW x \in {Hedge(c).buy, Hedge(c).sell} \ {None}
            PROVE  /\ Net(inventory) + (IF x = Hedge(c).buy THEN Hedge(c).quantity
                                        ELSE -Hedge(c).quantity) = TargetInventory
                   /\ \A other \in Exchange : Abs(inventory[other]) <= Abs(inventory[x])
        BY <3>2, <4>2, <4>3
      <4> QED
        BY ONLY <4>4 DEF BringsToTarget
    <3> QED
      BY <3>3, <3>4
  <2> QED
    BY <1>1, <2>1, <2>2 DEF ExactStep, Calling, AnswersExactly
<1>5. CASE ~Found(c) /\ Refuse(c)
  <2>1. Private(c) /\ at'[c] = "idle"
    BY <1>1, <1>5 DEF Refuse, Return, Move, Private, Typed
  <2>2. c \in disturbed
    <3>1. SUFFICES ASSUME c \notin disturbed PROVE FALSE
      OBVIOUS
    <3>2. top[c].quantity = 0 /\ \A x \in Exchange : Abs(inventory[x]) <= 0
      BY <1>1, <1>2, <1>5, <3>1 DEF Found, LargestOfVisited, Abs
    <3>3. \A x \in Exchange : inventory[x] = 0
      BY <1>3, <3>2 DEF Abs
    <3>4. Net(inventory) = 0
      BY <3>3, InventoryAssumption, SumZero DEF Net
    <3> QED
      BY <1>2, <3>1, <3>4, InventoryAssumption DEF Abs
  <2> QED
    BY <1>1, <2>1, <2>2 DEF ExactStep, Calling
<1> QED
  BY <1>4, <1>5 DEF Recommend

\* Trades and fetched positions.
LEMMA TradeExact ==
  ASSUME Typed, NEW c \in Caller, NEW filled \in SUBSET Exchange, Trade(c, filled)
  PROVE  ExactStep(c)
<1>1. /\ at[c] \in {"approved", "hedge"} /\ at'[c] \in {"idle", "report"} /\ Private(c)
  BY DEF Trade, Move, Private, Typed
<1> QED
  BY <1>1 DEF ExactStep, Calling

\* What is fetched is not yet in the map.
LEMMA FetchExact ==
  ASSUME Typed, NEW c \in Caller, NEW e \in Exchange, FetchPosition(c, e)
  PROVE  ExactStep(c)
<1>1. /\ at[c] = "report" /\ at'[c] = "insert" /\ Private(c)
  BY DEF FetchPosition, Move, Private, Typed
<1> QED
  BY <1>1 DEF ExactStep, Calling

\* An update disturbs every call in progress, and leaves none to be exact about.
LEMMA UpdateDisturbs ==
  ASSUME disturbed' = disturbed \cup Calling, Calling' \subseteq Calling
  PROVE  Exactness'
BY DEF Exactness

\* Every step keeps what undisturbed calls have read exact, and answers exactly.
LEMMA ExactnessStep ==
  ASSUME Typed, Tidy, Exactness, [InventoryNext]_inventoryVars
  PROVE  Exactness' /\ \A d \in Calling \ disturbed : AnswersExactly(d)
<1> DEFINE Goal == Exactness' /\ \A d \in Calling \ disturbed : AnswersExactly(d)
<1>1. ASSUME NEW c \in Caller, ExactStep(c) PROVE Goal
  BY <1>1, OthersStayExact, OthersDoNotAnswer DEF ExactStep
<1>2. ASSUME NEW c \in Caller, UpdateInventory(c) PROVE Goal
  <2>1. /\ disturbed' = disturbed \cup Calling /\ at[c] = "insert"
        /\ \A d \in Caller : IF d = c THEN at'[d] \in {"idle", "report"} ELSE at'[d] = at[d]
    BY <1>2 DEF UpdateInventory, Move, Typed
  <2>2. Exactness'
    BY <2>1, UpdateDisturbs DEF Calling
  <2>3. \A d \in Calling : at'[d] = at[d]
    BY <2>1 DEF Calling
  <2> QED
    BY <2>2, <2>3 DEF AnswersExactly, Calling
<1>3. ASSUME Reset PROVE Goal
  <2>1. disturbed' = disturbed \cup Calling /\ UNCHANGED at
    BY <1>3 DEF Reset
  <2>2. Exactness'
    BY <2>1, UpdateDisturbs DEF Calling
  <2> QED
    BY <2>1, <2>2 DEF AnswersExactly, Calling
<1>4. ASSUME UNCHANGED inventoryVars PROVE Goal
  <2>1. UNCHANGED <<inventory, at, plan, read, left, top, disturbed>>
    BY <1>4 DEF inventoryVars
  <2> QED
    BY <2>1 DEF AnswersExactly, Calling, Exactness, ExactFor, WithinLimits, LargestOfVisited, Net
<1>5. ASSUME NEW c \in Caller, NEW b \in Exchange, NEW s \in Exchange, NEW q \in Quantity,
             CanTradePair(c, b, s, q)
      PROVE  Goal
  BY <1>1, <1>5, CanTradeExact
<1>6. ASSUME NEW c \in Caller, CheckExchanges(c) \/ CheckNet(c) PROVE Goal
  BY <1>1, <1>6, CheckExchangesExact, CheckNetExact
<1>7. ASSUME NEW c \in Caller, CalculateHedge(c) \/ CheckDeviation(c) \/ Recommend(c) PROVE Goal
  BY <1>1, <1>7, CalculateHedgeExact, CheckDeviationExact, RecommendExact
<1>8. ASSUME NEW c \in Caller, NEW e \in Exchange, ReadInventory(c, e) \/ FindEntry(c, e) PROVE Goal
  BY <1>1, <1>8, ReadEntryExact, FindEntryExact
<1>9. ASSUME NEW c \in Caller, NEW filled \in SUBSET Exchange, Trade(c, filled) PROVE Goal
  BY <1>1, <1>9, TradeExact
<1>11. ASSUME NEW c \in Caller, NEW e \in Exchange, FetchPosition(c, e) PROVE Goal
  BY <1>1, <1>11, FetchExact
<1> HIDE DEF Goal
<1>10. Goal
  BY <1>2, <1>3, <1>4, <1>5, <1>6, <1>7, <1>8, <1>9, <1>11 DEF InventoryNext
<1> QED
  BY <1>10 DEF Goal

\* Nothing has been read at the start.
LEMMA TidyInit == InventoryInit => Tidy /\ Exactness
BY DEF InventoryInit, Tidy, Exactness, Calling

\* However many tasks call, trade and report: a call that no update overlaps with
\* answers for the inventory there is. can_trade approves exactly what is allowed;
\* calculate_hedge recommends what brings the net to the target, unless it is there.
THEOREM CallsExact == InventorySpec => UndisturbedCallsExact
<1> DEFINE Answers == \A c \in Calling \ disturbed : AnswersExactly(c)
           IExact == Typed /\ Tidy /\ Exactness
<1>1. InventoryInit => IExact
  BY InventoryInitTyped, TidyInit
<1>2. IExact /\ [InventoryNext]_inventoryVars => IExact' /\ Answers
  BY InventoryStepTyped, TidyStep, ExactnessStep
<1>3. Answers => \A c \in Calling \ disturbed :
                   /\ at'[c] = "approved" => Allowed(plan[c])
                   /\ at[c] \in {"sell", "net"} /\ at'[c] = "idle" => ~Allowed(plan[c])
                   /\ at'[c] = "hedge" => BringsToTarget(plan'[c])
                   /\ at[c] \in {"deviation", "largest"} /\ at'[c] = "idle" =>
                        Abs(Net(inventory) - TargetInventory) < Threshold
  BY DEF AnswersExactly
<1> HIDE DEF Answers, IExact
<1> QED
  BY <1>1, <1>2, <1>3, PTL DEF InventorySpec, UndisturbedCallsExact

-----------------------------------------------------------------------------
(* What a single task that does not hedge makes an exchange hold *)

\* As long as c alone has called, the map is what is held but for what c has yet to
\* report, and c is about to trade what the limits allow.
Mirrors(c) ==
  /\ \A e \in Exchange :
       ~(at[c] \in {"report", "insert"} /\ e \in left[c]) => inventory[e] = held[e]
  /\ at[c] = "insert" => top[c].quantity = held[top[c].exchange]

Intends(c) == at[c] = "approved" => WithinLimits(c)

Within == ~hedged => \A e \in Exchange : Abs(held[e]) <= MaxInventory

Alone(c) == disturbed = {} /\ Mirrors(c) /\ Intends(c) /\ Within

Single == \A c \in Caller : askers \subseteq {c} /\ ~midCall => Alone(c)

\* A step of c that leaves the other tasks where they are.
Apart(c) ==
  \A d \in Caller \ {c} : /\ at'[d] = at[d] /\ plan'[d] = plan[d] /\ read'[d] = read[d]
                          /\ left'[d] = left[d]

\* A step of a call: nothing is traded or reported.
CallStep(c) ==
  /\ Apart(c) /\ at[c] \notin {"report", "insert"} /\ at'[c] \notin {"report", "insert"}
  /\ UNCHANGED <<inventory, held, hedged, midCall>> /\ askers \subseteq askers'

\* Only a call can be disturbed.
LEMMA DisturbedStep ==
  ASSUME Typed, disturbed \subseteq Calling, [InventoryNext]_inventoryVars
  PROVE  (disturbed \subseteq Calling)'
<1> USE DEF Typed, Calling, Move, Reading, history
<1>1. ASSUME NEW c \in Caller, NEW b \in Exchange, NEW s \in Exchange, NEW q \in Quantity,
             CanTradePair(c, b, s, q)
      PROVE  (disturbed \subseteq Calling)'
  BY <1>1 DEF CanTradePair, Begin
<1>2. ASSUME NEW c \in Caller, CheckExchanges(c) PROVE (disturbed \subseteq Calling)'
  BY <1>2 DEF CheckExchanges, Refuse, Return, StartIteration
<1>3. ASSUME NEW c \in Caller, CheckNet(c) PROVE (disturbed \subseteq Calling)'
  BY <1>3 DEF CheckNet, Refuse, Return
<1>4. ASSUME NEW c \in Caller, CalculateHedge(c) PROVE (disturbed \subseteq Calling)'
  BY <1>4 DEF CalculateHedge, Begin, StartIteration
<1>5. ASSUME NEW c \in Caller, CheckDeviation(c) PROVE (disturbed \subseteq Calling)'
  BY <1>5 DEF CheckDeviation, Refuse, Return, StartIteration
<1>6. ASSUME NEW c \in Caller, Recommend(c) PROVE (disturbed \subseteq Calling)'
  BY <1>6 DEF Recommend, Refuse, Return
<1>7. ASSUME NEW c \in Caller, NEW e \in Exchange, ReadInventory(c, e)
      PROVE  (disturbed \subseteq Calling)'
  BY <1>7 DEF ReadInventory
<1>8. ASSUME NEW c \in Caller, NEW e \in Exchange, FindEntry(c, e)
      PROVE  (disturbed \subseteq Calling)'
  BY <1>8 DEF FindEntry
<1>9. ASSUME NEW c \in Caller, NEW e \in Exchange, FetchPosition(c, e)
      PROVE  (disturbed \subseteq Calling)'
  BY <1>9 DEF FetchPosition
<1>13. ASSUME NEW c \in Caller, UpdateInventory(c) PROVE (disturbed \subseteq Calling)'
  BY <1>13 DEF UpdateInventory
<1>10. ASSUME NEW c \in Caller, NEW filled \in SUBSET Exchange, Trade(c, filled)
       PROVE  (disturbed \subseteq Calling)'
  BY <1>10 DEF Trade
<1>11. CASE Reset
  BY <1>11 DEF Reset
<1>12. CASE UNCHANGED inventoryVars
  BY <1>12 DEF inventoryVars
<1> QED
  BY <1>1, <1>2, <1>3, <1>4, <1>5, <1>6, <1>7, <1>8, <1>9, <1>10, <1>11, <1>12,
     <1>13 DEF InventoryNext

\* A step of a call, which answers exactly.
LEMMA CallStepAlone ==
  ASSUME Typed, Tidy, Typed', Tidy', NEW c \in Caller, CallStep(c), Alone(c), disturbed' = {},
         at'[c] = "approved" => Allowed(plan[c]) /\ plan'[c] = plan[c]
  PROVE  Alone(c)'
<1>1. Mirrors(c)' /\ Within'
  BY DEF CallStep, Alone, Mirrors, Within
<1>2. ASSUME at'[c] = "approved" PROVE WithinLimits(c)'
  <2>1. /\ Abs(inventory[plan[c].buy] + plan[c].quantity) <= MaxInventory
        /\ Abs(inventory[plan[c].sell] - plan[c].quantity) <= MaxInventory
        /\ plan'[c] = plan[c] /\ inventory' = inventory
    BY <1>2 DEF Allowed, CallStep
  <2>2. plan[c].buy \in Exchange /\ plan[c].sell \in Exchange /\ plan[c].quantity \in Quantity
    BY <1>2, <2>1 DEF Tidy
  <2>3. /\ inventory[plan[c].buy] + plan[c].quantity \in Int
        /\ inventory[plan[c].sell] - plan[c].quantity \in Int
    <3>1. plan[c] \in Plans
      BY DEF Typed
    <3>2. plan[c].quantity \in Int
      BY ONLY <3>1, PlanFields
    <3> QED
      BY <2>2, <3>2 DEF Typed
  <2>4. \A q \in Int : Abs(q) <= MaxInventory => ~Exceeds(q)
    BY InventoryAssumption DEF Exceeds, Abs
  <2> QED
    BY <2>1, <2>3, <2>4 DEF WithinLimits
<1> QED
  BY <1>1, <1>2 DEF Alone, Intends

\* A trade that was approved keeps what is held within the limit; one that hedges is
\* not spoken of.
LEMMA TradeAlone ==
  ASSUME Typed, Tidy, Typed', Tidy', NEW c \in Caller, NEW filled \in SUBSET Exchange,
         Trade(c, filled), Alone(c)
  PROVE  Alone(c)'
<1>1. /\ at[c] \in {"approved", "hedge"} /\ at'[c] \in {"idle", "report"}
      /\ left'[c] = filled /\ UNCHANGED <<inventory, disturbed>>
      /\ \A e \in Exchange : held'[e] = HeldAfter(c, filled, e)
      /\ filled # {} => at'[c] = "report"
      /\ hedged' = (hedged \/ at[c] = "hedge")
      /\ filled \subseteq {plan[c].buy, plan[c].sell}
  BY DEF Trade, Move, Typed, Legs
<1>2. /\ \A e \in Exchange : inventory[e] = held[e] /\ held[e] \in Int
      /\ disturbed = {} /\ Within
  BY <1>1 DEF Alone, Mirrors, Typed
<1>3. \A e \in Exchange \ filled : held'[e] = held[e]
  BY <1>1 DEF HeldAfter
<1>4. ASSUME at[c] = "approved", NEW e \in filled PROVE Abs(held'[e]) <= MaxInventory
  <2>1. /\ ~Exceeds(inventory[plan[c].buy] + plan[c].quantity)
        /\ ~Exceeds(inventory[plan[c].sell] - plan[c].quantity)
    BY <1>4 DEF Alone, Intends, WithinLimits
  <2>2. ~Exceeds(held'[e]) /\ held'[e] \in Int
    BY <1>1, <1>2, <1>4, <2>1 DEF HeldAfter, Typed
  <2> QED
    BY <2>2, InventoryAssumption DEF Exceeds, Abs
<1>5. Mirrors(c)'
  BY <1>1, <1>2, <1>3 DEF Mirrors
<1>6. Within'
  <2>1. SUFFICES ASSUME ~hedged', NEW e \in Exchange PROVE Abs(held'[e]) <= MaxInventory
    BY DEF Within
  <2>2. ~hedged /\ at[c] = "approved"
    BY <1>1, <2>1
  <2> QED
    BY <1>2, <1>3, <1>4, <2>2 DEF Within
<1> QED
  BY <1>1, <1>2, <1>5, <1>6 DEF Alone, Intends

\* The answer of an exchange is what it holds: nobody else trades.
LEMMA FetchAlone ==
  ASSUME Typed, Tidy, Typed', Tidy', NEW c \in Caller, Alone(c),
         NEW e \in Exchange, FetchPosition(c, e)
  PROVE  Alone(c)'
<1>1. /\ at[c] = "report" /\ at'[c] = "insert" /\ e \in left[c]
      /\ UNCHANGED <<inventory, held, left, disturbed, hedged>>
      /\ top'[c] = [exchange |-> e, quantity |-> held[e]]
  BY DEF FetchPosition, Move, Typed, history
<1>2. Mirrors(c)'
  BY <1>1 DEF Alone, Mirrors
<1> QED
  BY <1>1, <1>2 DEF Alone, Intends, Within

\* A report makes the map what the exchange holds, and disturbs no call of another task.
LEMMA UpdateAlone ==
  ASSUME Typed, Tidy, Typed', Tidy', NEW c \in Caller, askers \subseteq {c}, Alone(c),
         UpdateInventory(c)
  PROVE  Alone(c)'
<1> DEFINE e == top[c].exchange
<1>1. /\ at[c] = "insert" /\ at'[c] \in {"idle", "report"} /\ left'[c] = left[c] \ {e}
      /\ left'[c] # {} => at'[c] = "report"
      /\ UNCHANGED <<held, hedged>> /\ disturbed' = disturbed \cup Calling
      /\ inventory' = [inventory EXCEPT ![e] = top[c].quantity]
  BY DEF UpdateInventory, Move, Typed, history
<1>2. Calling = {}
  BY <1>1 DEF Calling, Tidy
<1>3. Mirrors(c)'
  <2>1. e \in Exchange /\ top[c].quantity = held[e]
    BY <1>1 DEF Alone, Mirrors, Tidy, Typed
  <2> HIDE DEF e
  <2>2. \A x \in Exchange : inventory'[x] = IF x = e THEN held[e] ELSE inventory[x]
    BY <1>1, <2>1 DEF Typed
  <2> QED
    BY <1>1, <2>1, <2>2 DEF Alone, Mirrors
<1>4. Within'
  BY <1>1 DEF Alone, Within
<1> QED
  BY <1>1, <1>2, <1>3, <1>4 DEF Alone, Intends

\* A reset while no call is in progress makes everything zero.
LEMMA ResetAlone ==
  ASSUME Typed, disturbed \subseteq Calling, Reset, ~midCall', NEW c \in Caller
  PROVE  Alone(c)'
<1>1. /\ UNCHANGED at /\ disturbed' = disturbed \cup Calling
      /\ at[c] \notin {"approved", "hedge", "report", "insert"}
      /\ \A e \in Exchange : held'[e] = 0 /\ inventory'[e] = 0
  BY DEF Reset
<1>2. Calling = {}
  BY Zenon DEF Reset
<1>3. disturbed' = {}
  BY <1>1, <1>2
<1>4. Within'
  BY <1>1, InventoryAssumption DEF Within, Abs
<1> QED
  BY <1>1, <1>3, <1>4 DEF Alone, Mirrors, Intends

\* Every step keeps what is said of a task that has called alone.
LEMMA SingleStep ==
  ASSUME Typed, Tidy, Exactness, disturbed \subseteq Calling, Single, Typed', Tidy',
         [InventoryNext]_inventoryVars
  PROVE  Single'
<1> SUFFICES ASSUME NEW c \in Caller, askers' \subseteq {c}, ~midCall' PROVE Alone(c)'
  BY DEF Single
<1>1. CASE Reset
  BY <1>1, ResetAlone
<1>2. ASSUME askers \subseteq askers', midCall' = midCall PROVE askers \subseteq {c} /\ Alone(c)
  BY <1>2 DEF Single
\* Only c takes a step, since who does has called.
<1>3. ASSUME NEW d \in Caller, d \in askers' PROVE d = c
  BY <1>3
<1>4. ASSUME Alone(c), c \in Calling PROVE AnswersExactly(c)
  BY <1>4, ExactnessStep DEF Alone
<1> USE DEF Reading, history
<1>5. ASSUME NEW d \in Caller, NEW b \in Exchange, NEW s \in Exchange, NEW q \in Quantity,
             CanTradePair(d, b, s, q)
      PROVE  Alone(c)'
  <2>1. d = c /\ Alone(c)
    BY <1>2, <1>3, <1>5 DEF CanTradePair, Begin
  <2>2. CallStep(c) /\ at'[c] = "sell" /\ disturbed' = {}
    BY <1>5, <2>1 DEF CanTradePair, Begin, Move, CallStep, Apart, Typed, Alone
  <2> QED
    BY <2>1, <2>2, CallStepAlone
<1>6. ASSUME NEW d \in Caller, CheckExchanges(d) PROVE Alone(c)'
  <2>1. d = c /\ Alone(c)
    BY <1>2, <1>3, <1>6 DEF CheckExchanges, Tidy
  <2>2. CallStep(c) /\ at'[c] \in {"idle", "net"} /\ disturbed' = {}
    <3>1. CASE Refuse(c) /\ UNCHANGED left
      BY <1>6, <2>1, <3>1 DEF CheckExchanges, Refuse, Return, Move, CallStep, Apart, Typed, Alone
    <3>2. CASE /\ StartIteration(c, "net")
               /\ read' = [read EXCEPT ![c] = 0]
               /\ UNCHANGED <<plan, top, disturbed>>
      BY <1>6, <2>1, <3>2 DEF CheckExchanges, StartIteration, Move, CallStep, Apart, Typed, Alone
    <3> QED
      BY <1>6, <2>1, <3>1, <3>2 DEF CheckExchanges
  <2> QED
    BY <2>1, <2>2, CallStepAlone
<1>7. ASSUME NEW d \in Caller, CheckNet(d) PROVE Alone(c)'
  <2>1. d = c /\ Alone(c) /\ at[c] = "net"
    BY <1>2, <1>3, <1>7 DEF CheckNet, Tidy
  <2>2. CASE Refuse(c)
    <3>1. CallStep(c) /\ at'[c] = "idle" /\ disturbed' = {}
      BY <1>7, <2>1, <2>2 DEF CheckNet, Refuse, Return, Move, CallStep, Apart, Typed, Alone
    <3> QED
      BY <2>1, <3>1, CallStepAlone
  <2>3. CASE Return(c, "approved", plan[c])
    <3>1. /\ CallStep(c) /\ at'[c] = "approved" /\ disturbed' = {} /\ plan'[c] = plan[c]
      BY <1>7, <2>1, <2>3 DEF CheckNet, Return, Move, CallStep, Apart, Typed, Alone
    <3>2. Allowed(plan[c])
      BY <1>4, <2>1, <3>1 DEF Calling, AnswersExactly
    <3> QED
      BY <2>1, <3>1, <3>2, CallStepAlone
  <2> QED
    BY <1>7, <2>1, <2>2, <2>3 DEF CheckNet
<1>8. ASSUME NEW d \in Caller, CalculateHedge(d) PROVE Alone(c)'
  <2>1. d = c /\ Alone(c)
    BY <1>2, <1>3, <1>8 DEF CalculateHedge, Begin
  <2>2. CallStep(c) /\ at'[c] = "deviation" /\ disturbed' = {}
    BY <1>8, <2>1 DEF CalculateHedge, Begin, StartIteration, Move, CallStep, Apart, Typed, Alone
  <2> QED
    BY <2>1, <2>2, CallStepAlone
<1>9. ASSUME NEW d \in Caller, CheckDeviation(d) PROVE Alone(c)'
  <2>1. d = c /\ Alone(c)
    BY <1>2, <1>3, <1>9 DEF CheckDeviation, Tidy
  <2>2. CallStep(c) /\ at'[c] \in {"idle", "largest"} /\ disturbed' = {}
    <3>1. CASE Refuse(c) /\ UNCHANGED left
      BY <1>9, <2>1, <3>1 DEF CheckDeviation, Refuse, Return, Move, CallStep, Apart, Typed, Alone
    <3>2. CASE StartIteration(c, "largest") /\ UNCHANGED <<plan, read, top, disturbed>>
      BY <1>9, <2>1, <3>2 DEF CheckDeviation, StartIteration, Move, CallStep, Apart, Typed, Alone
    <3> QED
      BY <1>9, <2>1, <3>1, <3>2 DEF CheckDeviation
  <2> QED
    BY <2>1, <2>2, CallStepAlone
<1>10. ASSUME NEW d \in Caller, Recommend(d) PROVE Alone(c)'
  <2>1. d = c /\ Alone(c) /\ at[c] = "largest"
    BY <1>2, <1>3, <1>10 DEF Recommend, Tidy
  <2>2. CASE Refuse(c)
    <3>1. CallStep(c) /\ at'[c] = "idle" /\ disturbed' = {}
      BY <1>10, <2>1, <2>2 DEF Recommend, Refuse, Return, Move, CallStep, Apart, Typed, Alone
    <3> QED
      BY <2>1, <3>1, CallStepAlone
  <2>3. CASE Return(c, "hedge", Hedge(c))
    <3>1. /\ CallStep(c) /\ at'[c] = "hedge" /\ disturbed' = {} /\ plan'[c] = Hedge(c)
      BY <1>10, <2>1, <2>3 DEF Recommend, Return, Move, CallStep, Apart, Typed, Alone
    <3> QED
      BY <2>1, <3>1, CallStepAlone
  <2> QED
    BY <1>10, <2>1, <2>2, <2>3 DEF Recommend
<1>11. ASSUME NEW d \in Caller, NEW e \in Exchange, ReadInventory(d, e) PROVE Alone(c)'
  <2>1. d = c /\ Alone(c)
    BY <1>2, <1>3, <1>11 DEF ReadInventory, Tidy
  <2>2. CallStep(c) /\ at'[c] \in {"net", "deviation"} /\ disturbed' = {}
    BY <1>11, <2>1 DEF ReadInventory, CallStep, Apart, Typed, Alone
  <2> QED
    BY <2>1, <2>2, CallStepAlone
<1>12. ASSUME NEW d \in Caller, NEW e \in Exchange, FindEntry(d, e) PROVE Alone(c)'
  <2>1. d = c /\ Alone(c)
    BY <1>2, <1>3, <1>12 DEF FindEntry, Tidy
  <2>2. CallStep(c) /\ at'[c] = "largest" /\ disturbed' = {}
    BY <1>12, <2>1 DEF FindEntry, CallStep, Apart, Typed, Alone
  <2> QED
    BY <2>1, <2>2, CallStepAlone
<1>16. ASSUME NEW d \in Caller, NEW e \in Exchange, FetchPosition(d, e) PROVE Alone(c)'
  <2>1. d = c /\ Alone(c)
    BY <1>2, <1>3, <1>16 DEF FetchPosition, Tidy
  <2> QED
    BY <1>16, <2>1, FetchAlone
<1>13. ASSUME NEW d \in Caller, UpdateInventory(d) PROVE Alone(c)'
  <2>1. d = c /\ Alone(c) /\ askers \subseteq {c}
    BY <1>2, <1>3, <1>13 DEF UpdateInventory, Tidy
  <2> QED
    BY <1>13, <2>1, UpdateAlone
<1>14. ASSUME NEW d \in Caller, NEW filled \in SUBSET Exchange, Trade(d, filled) PROVE Alone(c)'
  <2>1. d = c /\ Alone(c)
    BY <1>2, <1>3, <1>14 DEF Trade, Tidy
  <2> QED
    BY <1>14, <2>1, TradeAlone
<1>15. CASE UNCHANGED inventoryVars
  <2>1. UNCHANGED <<inventory, held, at, plan, left, top, askers, hedged, midCall, disturbed>>
    BY <1>15 DEF inventoryVars
  <2>2. Alone(c)
    BY <1>2, <2>1
  <2> QED
    BY <2>1, <2>2 DEF Alone, Mirrors, Intends, Within, WithinLimits
<1> QED
  BY <1>1, <1>5, <1>6, <1>7, <1>8, <1>9, <1>10, <1>11, <1>12, <1>13, <1>14, <1>15, <1>16
  DEF InventoryNext

\* At the start nothing is held and nobody has called.
LEMMA SingleInit == InventoryInit => disturbed \subseteq Calling /\ Single
<1> SUFFICES ASSUME InventoryInit, NEW c \in Caller PROVE Alone(c) /\ disturbed \subseteq Calling
  BY DEF InventoryInit, Single
<1>1. /\ at[c] = "idle" /\ disturbed = {}
      /\ \A e \in Exchange : held[e] = 0 /\ inventory[e] = 0
  BY DEF InventoryInit
<1>2. Within
  BY <1>1, InventoryAssumption DEF Within, Abs
<1> QED
  BY <1>1, <1>2 DEF Alone, Mirrors, Intends

\* For a single task the bound follows.
LEMMA SingleBounds ==
  ASSUME Typed, Single, ~midCall, ~hedged, Cardinality(askers) = 1, NEW e \in Exchange
  PROVE  Abs(held[e]) <= MaxInventory
<1>1. IsFiniteSet(askers)
  BY InventoryAssumption, FS_Subset DEF Typed
<1>2. PICK c \in askers : askers = {c}
  BY <1>1, FS_Singleton
<1> QED
  BY <1>2 DEF Typed, Single, Alone, Within

\* What an exchange holds stays within the limit as long as a single task trades, reports
\* what it has traded and does not hedge, for any number of exchanges and any limit.
THEOREM InventoryBound == InventorySpec => []InventoryBounded
<1> DEFINE IBounded == Typed /\ Tidy /\ Exactness /\ disturbed \subseteq Calling /\ Single
<1>1. InventoryInit => IBounded
  BY InventoryInitTyped, TidyInit, SingleInit
<1>2. IBounded /\ [InventoryNext]_inventoryVars => IBounded'
  <2> SUFFICES ASSUME IBounded, [InventoryNext]_inventoryVars PROVE IBounded'
    OBVIOUS
  <2>1. Typed' /\ Tidy' /\ Exactness'
    BY InventoryStepTyped, TidyStep, ExactnessStep
  <2>2. (disturbed \subseteq Calling)'
    BY DisturbedStep
  <2>3. Single'
    BY <2>1, SingleStep
  <2> QED
    BY <2>1, <2>2, <2>3
<1>3. IBounded => InventoryBounded
  BY SingleBounds DEF InventoryBounded
<1> HIDE DEF IBounded
<1> QED
  BY <1>1, <1>2, <1>3, PTL DEF InventorySpec
=============================================================================
