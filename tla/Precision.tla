------------------------------- MODULE Precision -------------------------------
(***************************************************************************)
(* ExchangeRulesManager (crates/core/src/precision.rs): the rules of the   *)
(* markets it knows and what they make of an order.                        *)
(*                                                                         *)
(* A Decimal is counted in the smallest unit that occurs: there are        *)
(* PriceUnits in a price of 1 and QuantityUnits in a quantity of 1, both   *)
(* finer than any precision of the rules.                                  *)
(***************************************************************************)
EXTENDS Integers

CONSTANTS PriceUnits, QuantityUnits,
          Orders \* <<price, quantity>>: what validate_order is asked, in these units

ASSUME PrecisionAssumption ==
  /\ PriceUnits \in Nat \ {0} /\ PriceUnits % 100 = 0
  /\ QuantityUnits \in Nat \ {0} /\ QuantityUnits % 10000 = 0
  /\ Orders \subseteq Nat \X Nat

VARIABLE validation \* the last call of validate_order: what was asked, and its result

Bybit == <<"Bybit", "BTC/USDT">>

Market == {<<"Binance", "BTC/USDT">>, <<"Binance", "ETH/USDT">>,
           Bybit, <<"OKX", "BTC/USDT">>}

\* Decimal::new(n, digits) as a price and as a quantity, where parts is 10^digits, and
\* as their product, where digits is 0.
PriceOf(n, parts) == n * (PriceUnits \div parts)
QuantityOf(n, parts) == n * (QuantityUnits \div parts)
NotionalOf(n) == n * (PriceUnits * QuantityUnits)

\* ExchangeRules, with the precisions as the units they round to.
Rules(market) ==
  CASE market = <<"Binance", "BTC/USDT">> ->
         [min_quantity |-> QuantityOf(1, 1000), max_quantity |-> QuantityOf(1000, 1),
          quantity_step |-> QuantityOf(1, 1000), min_notional |-> NotionalOf(5),
          quantity_unit |-> QuantityOf(1, 1000), price_unit |-> PriceOf(1, 10),
          price_tick |-> PriceOf(1, 10)]
    [] market = <<"Binance", "ETH/USDT">> ->
         [min_quantity |-> QuantityOf(1, 1000), max_quantity |-> QuantityOf(10000, 1),
          quantity_step |-> QuantityOf(1, 1000), min_notional |-> NotionalOf(5),
          quantity_unit |-> QuantityOf(1, 1000), price_unit |-> PriceOf(1, 100),
          price_tick |-> PriceOf(1, 100)]
    [] market = Bybit ->
         [min_quantity |-> QuantityOf(1, 10000), max_quantity |-> QuantityOf(500, 1),
          quantity_step |-> QuantityOf(1, 10000), min_notional |-> NotionalOf(10),
          quantity_unit |-> QuantityOf(1, 10000), price_unit |-> PriceOf(1, 10),
          price_tick |-> PriceOf(5, 10)]
    [] market = <<"OKX", "BTC/USDT">> ->
         [min_quantity |-> QuantityOf(1, 10000), max_quantity |-> QuantityOf(1000, 1),
          quantity_step |-> QuantityOf(1, 10000), min_notional |-> NotionalOf(1),
          quantity_unit |-> QuantityOf(1, 10000), price_unit |-> PriceOf(1, 10),
          price_tick |-> PriceOf(1, 10)]

NoMarket == <<"none", "none">>
NoResult == [error |-> "none", price |-> 0, quantity |-> 0]
NoValidation == [market |-> NoMarket, asked |-> <<0, 0>>, result |-> NoResult]

-----------------------------------------------------------------------------
\* Decimal::round to a unit: a half goes to the even multiple.
RoundTo(unit, x) ==
  LET below == x \div unit
      rest == 2 * (x % unit)
  IN  unit * IF rest > unit \/ (rest = unit /\ below % 2 = 1) THEN below + 1 ELSE below

\* Faulty variant: to the nearest lot.
NearestLot(r, q) == RoundTo(r.quantity_step, q)

\* adjust_to_lot_size, with its round_quantity. No step of the table is zero.
AdjustToLotSize(r, q) == RoundTo(r.quantity_unit, (q \div r.quantity_step) * r.quantity_step)

\* ExchangeRules::validate_order: the first error.
OrderError(r, price, q) ==
  LET adjusted == AdjustToLotSize(r, q)
  IN  CASE adjusted < r.min_quantity -> "QuantityTooSmall"
        [] adjusted > r.max_quantity -> "QuantityTooLarge"
        [] price * adjusted < r.min_notional -> "NotionalTooSmall"
        [] OTHER -> "none"

\* ExchangeRulesManager::validate_order. A market not in the table has no rules.
ValidateOrder(market, price, q) ==
  IF market \notin Market
  THEN [error |-> "InvalidLotSize", price |-> 0, quantity |-> 0]
  ELSE LET r == Rules(market)
           adjusted_price == RoundTo(r.price_unit, price)
           adjusted == AdjustToLotSize(r, q)
       IN  [error |-> OrderError(r, adjusted_price, adjusted),
            price |-> adjusted_price, quantity |-> adjusted]

-----------------------------------------------------------------------------
\* A call of ExchangeRulesManager::validate_order.
Validate(market, asked) ==
  validation' = [market |-> market, asked |-> asked,
            result |-> ValidateOrder(market, asked[1], asked[2])]

-----------------------------------------------------------------------------
(* Properties *)

\* The rules that validate_order enforces, stated without rounding. price_tick is not one
\* of them: no code reads it.
Meets(r, price, quantity) ==
  /\ quantity % r.quantity_step = 0 /\ price % r.price_unit = 0
  /\ quantity >= r.min_quantity /\ quantity <= r.max_quantity
  /\ price * quantity >= r.min_notional

\* The quantity is cut and rounded twice before it is compared. An order that is
\* accepted meets the enforced rules all the same, with no more than the quantity asked
\* for and less than a lot less; and an order that meets them is accepted as it is, so
\* what was accepted may be validated again. No market outside the table is accepted.
\* An accepted price is on the market's price_tick as well, but for Bybit.
AcceptedOrdersMeetRules ==
  validation # NoValidation =>
    LET price == validation.asked[1]
        quantity == validation.asked[2]
        result == validation.result
    IN  IF validation.market \notin Market THEN result.error # "none"
        ELSE LET r == Rules(validation.market)
             IN  /\ result.error = "none" =>
                      /\ Meets(r, result.price, result.quantity)
                      /\ result.quantity <= quantity
                      /\ quantity - result.quantity < r.quantity_step
                      /\ validation.market # Bybit => result.price % r.price_tick = 0
                 /\ Meets(r, price, quantity) =>
                      result = [error |-> "none", price |-> price, quantity |-> quantity]

\* SAFETY_AND_OPTIMIZATIONS.md:137, "Validate order meets all requirements", and the
\* table at its line 150, where Bybit's price tick is $0.5: no order is accepted at a price
\* between two ticks of its market.
AcceptedPricesOnTick ==
  validation.result.error = "none" /\ validation # NoValidation =>
    validation.result.price % Rules(validation.market).price_tick = 0
=============================================================================
