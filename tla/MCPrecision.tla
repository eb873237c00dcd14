----------------------------- MODULE MCPrecision -----------------------------
(* Calls of validate_order for TLC, one after the other. *)
EXTENDS Precision

\* Prices in 0.001 and quantities in 0.00001, on both sides of every boundary of the
\* rules: around one lot and two at 5000, where the notional value is near 5 and 10;
\* quantities from a lot at the price that makes it worth 1; the largest quantities.
MCOrders ==
  {<<5000000 + 10 * d, q>> : d \in -11..11, q \in 90..210}
    \cup {<<10000000 + 25 * d, q>> : d \in -5..5, q \in 0..40}
    \cup {<<p, 50000000 + q>> : p \in 0..30, q \in -2..12}
    \cup {<<1 + p, 100000000 + q>> : p \in 0..15, q \in -2..12}

\* The symbol's own name, as Display writes it, is not in the table.
MCMarket == Market \cup {<<"Binance", "BTC/USDT-PERP">>}

ValidateNext ==
  \/ /\ validation = NoValidation
     /\ \E market \in MCMarket, asked \in Orders : Validate(market, asked)
  \/ validation # NoValidation /\ validation' = NoValidation

ValidateCalls == validation = NoValidation /\ [][ValidateNext]_validation
=============================================================================
