----------------------------- MODULE MCCheckPair -----------------------------
(* Small instances of CheckPair for TLC. *)
EXTENDS CheckPair

L(p, q) == [price |-> p, quantity |-> q]

\* The buy side: one or two asks from 10 up, a bid side that makes the spread
\* ordinary or abnormal, an empty side, and a stale book.
MCBuyBooks ==
  [bids : {<<L(9, 1)>>, <<L(5, 1)>>, <<>>},
   asks : {<<L(10, q), L(p, 2)>> : q \in 0..2, p \in {11, 13}}
            \cup {<<L(10, 2)>>, <<L(10, 1), L(11, 0)>>},
   fresh : {TRUE}]
  \cup {[bids |-> <<L(9, 1)>>, asks |-> <<L(10, 2), L(11, 2)>>, fresh |-> FALSE]}

\* The sell side: bids below, at and above the buy side's ask, and asks whose best
\* level is thinner than the best bid, with a near or a far next level.
MCSellBooks ==
  [bids : {<<L(p, q), L(9, 2)>> : p \in {10, 11, 13}, q \in 1..3} \cup {<<L(12, 2)>>},
   asks : {<<L(13, q), L(p, 3)>> : q \in 1..2, p \in {14, 20}},
   fresh : {TRUE}]

\* A position cap above and one below the liquidity asked for, 12.
MCConfig == {[max_position_size |-> cap, min_profit_bps |-> 5, max_slippage_bps |-> 5] :
               cap \in {11, 15}}
=============================================================================
