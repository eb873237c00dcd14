---------------------------- MODULE MCRiskManager ----------------------------
(* Small instances of RiskManager for TLC. *)
EXTENDS RiskManager, TLC

\* The caps on position size, exposure and open positions; the daily loss and the
\* drawdown percentage.
Caps(one, total, open, loss, pct) ==
  [max_position_size |-> one, max_total_exposure |-> total,
   max_open_positions |-> open, max_daily_loss |-> loss, max_drawdown_pct |-> pct]

\* Exposure and open positions bind, and so do daily loss and drawdown; the operator
\* tightens the caps under open positions and loosens them again.
MCLimits == {Caps(1, 2, 2, 3, 50), Caps(1, 1, 1, 11, 25)}

\* A loss beyond the daily loss and the initial equity.
MCProfits == {-11}
=============================================================================
