------------------------------ MODULE CheckPair ------------------------------
(***************************************************************************)
(* check_pair_with_validation (crates/arbitrage/src/enhanced_detector.rs)  *)
(* up to the point where an opportunity is known to be profitable: the     *)
(* validations of two order books, the quantity, the loops over price      *)
(* levels (validate_depth and calculate_vwap) and the profit.              *)
(*                                                                         *)
(* Decimals are exact. A quantity is kept multiplied by the best ask price *)
(* of the buy side ("scaled"), which makes max_position_size / price a     *)
(* whole number; a ratio is a pair <<n, d>>; basis points are 1/Scale.     *)
(***************************************************************************)
EXTENDS Integers, Sequences, FiniteSetsExt

CONSTANTS BuyBooks, SellBooks, \* snapshots the two exchanges' books may hold
          Scale,               \* basis points in one: 10000 in the code
          Config,              \* configurations the operator sets
          MinDepth, MaxSpreadBps,                         \* OrderBookValidator
          MinDepthLevels, MinTotalLiquidity,              \* LiquidityValidator
          BuyFee, SellFee      \* taker fees of the two exchanges, per Scale

ArbitrageConfig ==
  [max_position_size : Nat, min_profit_bps : Nat, max_slippage_bps : Nat]

Level == [price : Nat \ {0}, quantity : Nat]

\* What the store returns: levels best price first (OrderBooks), and whether
\* the local timestamp is within max_age_ms of the scan's clock reading.
OrderBookSnapshot == [bids : Seq(Level), asks : Seq(Level), fresh : BOOLEAN]

ASSUME CheckPairAssumption ==
  /\ BuyBooks \subseteq OrderBookSnapshot
  /\ SellBooks \subseteq OrderBookSnapshot
  /\ Scale \in Nat \ {0} /\ MinDepth \in Nat \ {0} /\ MinDepthLevels \in Nat \ {0}
  /\ Config \subseteq ArbitrageConfig /\ Config # {}
  /\ MaxSpreadBps \in Nat /\ MinTotalLiquidity \in Nat
  /\ BuyFee \in Nat /\ SellFee \in Nat

VARIABLES stage,      \* the stage of the check
          reason,     \* why the check returned None
          config,     \* the configuration, read-locked for the whole scan
          buy_snapshot, sell_snapshot,
          quantity,   \* the quantity to trade, scaled
          index,      \* the loop over levels: the level it looks at next,
          remaining,  \* what it still has to take (scaled),
          value,      \* what the quantity taken costs (scaled),
          taken,      \* and the quantity taken (scaled)
          buy_slippage, sell_slippage

inputs == <<config, buy_snapshot, sell_snapshot>>
walk == <<index, remaining, value, taken>>
slippages == <<buy_slippage, sell_slippage>>
checkPairVars == <<stage, reason, inputs, quantity, walk, slippages>>

-----------------------------------------------------------------------------
Zero == <<0, 1>>

EmptyBook == [bids |-> <<>>, asks |-> <<>>, fresh |-> FALSE]

\* best_ask of the buy side and best_bid of the sell side.
Ask == buy_snapshot.asks[1]
Bid == sell_snapshot.bids[1]

Least(a, b) == IF a <= b THEN a ELSE b
Distance(a, b) == IF a <= b THEN b - a ELSE a - b

\* A level's quantity in scaled units.
Scaled(level) == level.quantity * Ask.price

Reject(why) == /\ stage' = "rejected"
               /\ reason' = why
               /\ UNCHANGED <<inputs, quantity, walk, slippages>>

\* A loop over levels starts with q to take.
StartWalk(q) == index' = 1 /\ remaining' = q /\ value' = 0 /\ taken' = 0

CheckPairInit ==
  /\ stage = "snapshots" /\ reason = "none"
  /\ config \in Config
  /\ buy_snapshot = EmptyBook /\ sell_snapshot = EmptyBook
  /\ quantity = 0
  /\ index = 1 /\ remaining = 0 /\ value = 0 /\ taken = 0
  /\ buy_slippage = Zero /\ sell_slippage = Zero

\* The configuration as update_config last left it, and get_snapshot on both sides.
GetSnapshots ==
  /\ stage \in {"snapshots", "accepted", "rejected"}
  /\ stage' = "validate" /\ reason' = "none"
  /\ config' \in Config
  /\ buy_snapshot' \in BuyBooks /\ sell_snapshot' \in SellBooks
  /\ quantity' = 0
  /\ StartWalk(0)
  /\ buy_slippage' = Zero /\ sell_slippage' = Zero

-----------------------------------------------------------------------------
(* VALIDATION 1 to 4 and the quantity *)

HasSufficientDepth(b) == Len(b.bids) >= MinDepth /\ Len(b.asks) >= MinDepth

\* (spread / mid) * 10000 <= max_spread_bps, mid being the mean of both prices.
IsSpreadAcceptable(b) ==
  2 * (b.asks[1].price - b.bids[1].price) * Scale
     <= MaxSpreadBps * (b.asks[1].price + b.bids[1].price)

\* Faulty variant: the best quantities are ignored.
CapOnly == config.max_position_size

\* The smaller best quantity, capped by max_position_size / best_ask.price.
MaxQuantity == Least(Least(Scaled(Ask), Scaled(Bid)), config.max_position_size)

\* Why the two books are refused, first reason first.
Refusal ==
  CASE ~buy_snapshot.fresh \/ ~sell_snapshot.fresh -> "stale_orderbook"
    [] \/ ~HasSufficientDepth(buy_snapshot)
       \/ ~HasSufficientDepth(sell_snapshot) -> "insufficient_depth"
    [] Bid.price <= Ask.price -> "no_discrepancy"
    [] ~IsSpreadAcceptable(buy_snapshot) -> "abnormal_spread"
    [] MaxQuantity <= 0 -> "no_quantity"
    [] OTHER -> "none"

RefuseBooks == stage = "validate" /\ Refusal # "none" /\ Reject(Refusal)

ComputeQuantity ==
  /\ stage = "validate" /\ Refusal = "none"
  /\ quantity' = MaxQuantity
  /\ StartWalk(MaxQuantity)
  /\ stage' = "depth_buy"
  /\ UNCHANGED <<reason, inputs, slippages>>

-----------------------------------------------------------------------------
(* The loops over levels *)

DepthStages == {"depth_buy", "depth_sell"}
VwapStages == {"vwap_buy", "vwap_sell"}

\* The levels a stage walks: slippage is estimated on the asks of both sides.
Walked == CASE stage \in {"depth_buy", "vwap_buy"} -> buy_snapshot.asks
            [] stage = "depth_sell" -> sell_snapshot.bids
            [] stage = "vwap_sell" -> sell_snapshot.asks

\* validate_depth looks at the first min_depth_levels, calculate_vwap at all.
LastLevel == IF stage \in DepthStages THEN MinDepthLevels ELSE Len(Walked)

TooShallow == stage \in DepthStages /\ Len(Walked) < MinDepthLevels

WalkOver == ~TooShallow /\ (remaining <= 0 \/ index > LastLevel)

RefuseShallow == TooShallow /\ Reject("insufficient_depth")

\* Faulty variant: the whole level, however little remains.
WholeLevel(level) == Scaled(level)

\* remaining.min(level.quantity).
Taken(level) == Least(remaining, Scaled(level))

TakeLevel ==
  /\ stage \in DepthStages \cup VwapStages
  /\ ~TooShallow /\ ~WalkOver
  /\ LET qty == Taken(Walked[index])
     IN  /\ value' = value + qty * Walked[index].price
         /\ taken' = taken + qty
         /\ remaining' = remaining - qty
  /\ index' = index + 1
  /\ UNCHANGED <<stage, reason, inputs, quantity, slippages>>

\* validate_depth after its loop. total_value is what the quantity costs, not
\* what the levels hold.
InsufficientQuantity == remaining > 0

\* Faulty variant: no such check.
NoValueCheck == FALSE

InsufficientValue == value < MinTotalLiquidity * Ask.price

RefuseDepth ==
  /\ stage \in DepthStages /\ WalkOver
  /\ InsufficientQuantity \/ InsufficientValue
  /\ Reject(IF InsufficientQuantity THEN "insufficient_quantity"
                                    ELSE "insufficient_value")

PassDepth ==
  /\ stage \in DepthStages /\ WalkOver
  /\ ~InsufficientQuantity /\ ~InsufficientValue
  /\ stage' = IF stage = "depth_buy" THEN "depth_sell" ELSE "vwap_buy"
  /\ StartWalk(quantity)
  /\ UNCHANGED <<reason, inputs, quantity, slippages>>

\* estimate_slippage: |vwap - best| / best, vwap being value / taken.
Slippage ==
  LET best == Walked[1].price
  IN  IF taken > 0 /\ value # best * taken
      THEN <<Distance(value, best * taken), best * taken>>
      ELSE Zero

EstimateSlippage ==
  /\ stage \in VwapStages /\ WalkOver
  /\ \/ stage = "vwap_buy" /\ stage' = "vwap_sell" /\ buy_slippage' = Slippage
        /\ UNCHANGED sell_slippage
     \/ stage = "vwap_sell" /\ stage' = "profit" /\ sell_slippage' = Slippage
        /\ UNCHANGED buy_slippage
  /\ StartWalk(quantity)
  /\ UNCHANGED <<reason, inputs, quantity>>

-----------------------------------------------------------------------------
(* VALIDATION 6 and 7: slippage and profit, per unit of quantity and over the *)
(* common denominator buy_slippage[2] * sell_slippage[2] * Scale              *)

Denominator == buy_slippage[2] * sell_slippage[2]

\* buy_price * (1 + buy_slippage) and sell_price * (1 - sell_slippage).
BuyCost ==
  Ask.price * (buy_slippage[2] + buy_slippage[1]) * sell_slippage[2] * Scale
SellProceeds ==
  Bid.price * (sell_slippage[2] - sell_slippage[1]) * buy_slippage[2] * Scale

\* Faulty variant: no fee on the sell leg.
BuyFeeOnly == Ask.price * BuyFee * Denominator

\* Taker fees on both legs, at the best prices.
TotalFees == (Ask.price * BuyFee + Bid.price * SellFee) * Denominator

NetProfit == SellProceeds - BuyCost - TotalFees

IsProfitable == NetProfit > 0 /\ NetProfit * Scale >= config.min_profit_bps * BuyCost

IsTooHigh(slippage) == slippage[1] * Scale > config.max_slippage_bps * slippage[2]

RefuseSlippage ==
  /\ stage = "profit"
  /\ IsTooHigh(buy_slippage) \/ IsTooHigh(sell_slippage)
  /\ Reject("slippage_too_high")

RefuseProfit ==
  /\ stage = "profit"
  /\ ~IsTooHigh(buy_slippage) /\ ~IsTooHigh(sell_slippage)
  /\ ~IsProfitable
  /\ Reject("not_profitable")

Accept ==
  /\ stage = "profit"
  /\ ~IsTooHigh(buy_slippage) /\ ~IsTooHigh(sell_slippage)
  /\ IsProfitable
  /\ stage' = "accepted"
  /\ UNCHANGED <<reason, inputs, quantity, walk, slippages>>

CheckPairNext ==
  \/ GetSnapshots
  \/ RefuseBooks \/ ComputeQuantity
  \/ RefuseShallow \/ TakeLevel \/ RefuseDepth \/ PassDepth
  \/ EstimateSlippage
  \/ RefuseSlippage \/ RefuseProfit \/ Accept

CheckPairSpec == CheckPairInit /\ [][CheckPairNext]_checkPairVars

-----------------------------------------------------------------------------
(* Properties *)

Stages == {"snapshots", "validate"} \cup DepthStages \cup VwapStages
             \cup {"profit", "accepted", "rejected"}

Reasons == {"none", "stale_orderbook", "insufficient_depth", "no_discrepancy",
            "abnormal_spread", "no_quantity", "insufficient_quantity",
            "insufficient_value", "slippage_too_high", "not_profitable"}

\* Every variable has its type; no remaining quantity and no slippage is negative.
CheckPairTypeOK ==
  /\ stage \in Stages /\ reason \in Reasons
  /\ config \in Config
  /\ buy_snapshot \in OrderBookSnapshot /\ sell_snapshot \in OrderBookSnapshot
  /\ quantity \in Nat /\ remaining \in Nat /\ value \in Nat /\ taken \in Nat
  /\ index \in Nat \ {0}
  /\ buy_slippage \in Nat \X (Nat \ {0}) /\ sell_slippage \in Nat \X (Nat \ {0})

\* What levels hold (scaled), what taking q from them takes from each, and the quantity
\* taken and its cost in all.
Held(levels) == [i \in DOMAIN levels |-> Scaled(levels[i])]
Filled(levels, q) ==
  [i \in DOMAIN levels |->
     LET before == SumFunctionOnSet(Held(levels), 1..(i - 1))
     IN  IF before >= q THEN 0 ELSE Least(q - before, Held(levels)[i])]
Valued(levels, quantities) == [i \in DOMAIN levels |-> quantities[i] * levels[i].price]

FillQuantity(levels, q) == SumFunctionOnSet(Filled(levels, q), DOMAIN levels)
FillValue(levels, q) == SumFunctionOnSet(Valued(levels, Filled(levels, q)), DOMAIN levels)

\* The reported net profit never exceeds what selling into the sell side's bids and
\* buying from the buy side's asks leaves after both taker fees, although fees are
\* computed at the best prices and sell slippage on the wrong side of the book.
ProfitNotOverstated ==
  stage = "accepted" =>
    LET cost == FillValue(buy_snapshot.asks, quantity)
        proceeds == FillValue(sell_snapshot.bids, quantity)
    IN  /\ FillQuantity(buy_snapshot.asks, quantity) = quantity
        /\ FillQuantity(sell_snapshot.bids, quantity) = quantity
        /\ quantity * NetProfit <=
             (Scale * (proceeds - cost) - cost * BuyFee - proceeds * SellFee) * Denominator

\* The best level of each side covers the quantity, so two of the checks are dead:
\* validate_depth never finds too little quantity, and estimate_slippage is 0 on the
\* buy side, so max_slippage_bps never rejects the buy leg.
BestLevelSuffices ==
  /\ reason # "insufficient_quantity"
  /\ stage \in {"vwap_sell", "profit", "accepted"} => buy_slippage = Zero

\* What the first min_depth_levels hold is worth (scaled).
Liquidity(levels) ==
  SumFunctionOnSet(Valued(levels, Held(levels)), 1..Least(MinDepthLevels, Len(levels)))

\* An accepted opportunity has min_total_liquidity behind it on both sides.
AcceptedIsBacked ==
  stage = "accepted" => /\ Liquidity(buy_snapshot.asks) >= MinTotalLiquidity * Ask.price
                        /\ Liquidity(sell_snapshot.bids) >= MinTotalLiquidity * Ask.price

\* Claimed, and false: whoever is refused for too little liquidity has less than
\* min_total_liquidity on one of the two sides. The value that is compared is that of
\* the trade, which max_position_size caps: under the defaults, 10000 against 100000,
\* every pair is refused.
RefusedLacksLiquidity ==
  reason = "insufficient_value" =>
    \/ Liquidity(buy_snapshot.asks) < MinTotalLiquidity * Ask.price
    \/ Liquidity(sell_snapshot.bids) < MinTotalLiquidity * Ask.price
=============================================================================
