------------------------------ MODULE RiskManager ------------------------------
(***************************************************************************)
(* RiskManager and PnLTracker (crates/risk/src/manager.rs and pnl.rs):     *)
(* tasks that ask can_trade and, once allowed, open a position, close it   *)
(* and record the result, while an operator changes limits, resets and     *)
(* triggers the circuit breaker and starts a new day.                      *)
(*                                                                         *)
(* can_trade takes its locks one at a time, so every read of shared state  *)
(* in it is a step; only the limits stay locked to its end. The trading    *)
(* that follows an approval is the calls the manager offers for it: the    *)
(* sources have no caller of can_trade.                                    *)
(***************************************************************************)
EXTENDS Integers, FiniteSetsExt

CONSTANTS Trader,         \* tasks that trade
          Key,            \* the (exchange, symbol) pairs of positions
          Size,           \* position sizes asked for, in quote currency
          Profit,         \* results of trades
          Limits,         \* RiskLimits the operator sets
          InitialEquity,
          MaxPnl          \* bound: the realized profit or loss

NoPosition == -1

RiskLimits == [max_position_size : Nat, max_total_exposure : Nat,
               max_open_positions : Nat, max_daily_loss : Nat, max_drawdown_pct : Nat]

ASSUME RiskManagerAssumption ==
  /\ IsFiniteSet(Key) /\ IsFiniteSet(Limits)
  /\ Size \subseteq Nat
  /\ Profit \subseteq Int
  /\ Limits \subseteq RiskLimits /\ Limits # {}
  /\ InitialEquity \in Nat \ {0}
  /\ MaxPnl \in Nat

VARIABLES limits,
          breaker,   \* circuit_breaker_active
          positions, \* positions[k]: |quantity| * price, or NoPosition
          realized, daily, peak, \* realized_pnl, daily_pnl, peak_equity
          drawdown,  \* current_drawdown, the ratio <<n, d>>
          highest,   \* history: the highest the realized profit has been
          pc,        \* pc[t]: where t is in can_trade or in trading
          callers,   \* history: the tasks that have called can_trade
          key, size, \* what t asks for
          todo,      \* todo[t]: map entries the iteration has still to visit
          sum        \* sum[t]: what it has added up

pnl == <<realized, daily, peak, drawdown, highest>>
asked == <<callers, key, size>>
locals == <<asked, todo, sum>>
vars == <<limits, breaker, positions, pnl, pc, locals>>

Init == /\ limits \in Limits
        /\ breaker = FALSE
        /\ positions = [k \in Key |-> NoPosition]
        /\ realized = 0 /\ daily = 0 /\ peak = InitialEquity
        /\ drawdown = <<0, 1>>
        /\ highest = 0
        /\ pc = [t \in Trader |-> "idle"]
        /\ callers = {}
        /\ key \in [Trader -> Key]
        /\ size = [t \in Trader |-> 0]
        /\ todo = [t \in Trader |-> {}]
        /\ sum = [t \in Trader |-> 0]

Goto(t, place) == pc' = [pc EXCEPT ![t] = place]

Open == {k \in Key : positions[k] # NoPosition}

-----------------------------------------------------------------------------
(* can_trade *)

\* The call. An active breaker refuses at once.
CanTrade(t, k, s) ==
  /\ pc[t] = "idle"
  /\ ~breaker
  /\ Goto(t, "size")
  /\ callers' = callers \cup {t}
  /\ key' = [key EXCEPT ![t] = k]
  /\ size' = [size EXCEPT ![t] = s]
  /\ UNCHANGED <<limits, breaker, positions, pnl, todo, sum>>

\* limits.read() is held from here on. An iteration over the map follows.
CheckSize(t) ==
  /\ pc[t] = "size"
  /\ IF size[t] > limits.max_position_size
     THEN Goto(t, "idle") /\ UNCHANGED <<todo, sum>>
     ELSE /\ Goto(t, "exposure")
          /\ todo' = [todo EXCEPT ![t] = Key]
          /\ sum' = [sum EXCEPT ![t] = 0]
  /\ UNCHANGED <<limits, breaker, positions, pnl, asked>>

\* Faulty variant: entries that are not there are added as well.
ReadEntryUnchecked(t, k) ==
  /\ pc[t] \in {"exposure", "count"}
  /\ k \in todo[t]
  /\ todo' = [todo EXCEPT ![t] = @ \ {k}]
  /\ sum' = [sum EXCEPT ![t] = @ + positions[k]]
  /\ UNCHANGED <<limits, breaker, positions, pnl, pc, asked>>

\* calculate_total_exposure and positions.len() lock one shard at a time: other
\* tasks change the map between two entries.
ReadEntry(t, k) ==
  /\ pc[t] \in {"exposure", "count"}
  /\ k \in todo[t]
  /\ todo' = [todo EXCEPT ![t] = @ \ {k}]
  /\ sum' = [sum EXCEPT ![t] = @ + CASE k \notin Open -> 0
                                     [] k \in Open /\ pc[t] = "exposure" -> positions[k]
                                     [] k \in Open /\ pc[t] = "count" -> 1]
  /\ UNCHANGED <<limits, breaker, positions, pnl, pc, asked>>

\* Faulty variant: the exposure without the trade asked for.
CurrentExposure(t) == sum[t]

NewExposure(t) == sum[t] + size[t]

CheckExposure(t) ==
  /\ pc[t] = "exposure" /\ todo[t] = {}
  /\ IF NewExposure(t) > limits.max_total_exposure
     THEN Goto(t, "idle") /\ UNCHANGED <<todo, sum>>
     ELSE /\ Goto(t, "count")
          /\ todo' = [todo EXCEPT ![t] = Key]
          /\ sum' = [sum EXCEPT ![t] = 0]
  /\ UNCHANGED <<limits, breaker, positions, pnl, asked>>

OpenPositionsReached(t) == sum[t] >= limits.max_open_positions

CheckOpenPositions(t) ==
  /\ pc[t] = "count" /\ todo[t] = {}
  /\ Goto(t, IF OpenPositionsReached(t) THEN "idle" ELSE "daily")
  /\ UNCHANGED <<limits, breaker, positions, pnl, locals>>

DailyLossExceeded == daily < -limits.max_daily_loss

CheckDailyLoss(t) ==
  /\ pc[t] = "daily"
  /\ Goto(t, IF DailyLossExceeded THEN "trip" ELSE "drawdown")
  /\ UNCHANGED <<limits, breaker, positions, pnl, locals>>

DrawdownExceeded == drawdown[1] * 100 > limits.max_drawdown_pct * drawdown[2]

CheckDrawdown(t) ==
  /\ pc[t] = "drawdown"
  /\ Goto(t, IF DrawdownExceeded THEN "trip" ELSE "approved")
  /\ UNCHANGED <<limits, breaker, positions, pnl, locals>>

\* trigger_circuit_breaker, then the error.
Trip(t) ==
  /\ pc[t] = "trip"
  /\ breaker' = TRUE
  /\ Goto(t, "idle")
  /\ UNCHANGED <<limits, positions, pnl, locals>>

-----------------------------------------------------------------------------
(* Trading *)

\* update_position with what the exchange reports after the approved trade: the
\* position of the key grown by the size.
UpdatePosition(t) ==
  /\ pc[t] = "approved"
  /\ positions' = [positions EXCEPT ![key[t]] =
                     IF @ = NoPosition THEN size[t] ELSE @ + size[t]]
  /\ Goto(t, "idle")
  /\ UNCHANGED <<limits, breaker, pnl, locals>>

\* remove_position once a position is closed; the result is recorded next.
RemovePosition(t, k) ==
  /\ pc[t] = "idle"
  /\ k \in Open
  /\ positions' = [positions EXCEPT ![k] = NoPosition]
  /\ Goto(t, "closed")
  /\ UNCHANGED <<limits, breaker, pnl, locals>>

\* update_drawdown: the equity is the realized profit (unrealized_pnl is never set
\* through the manager), while the peak starts at the initial equity.
UpdateDrawdown(equity) ==
  IF equity > peak
  THEN peak' = equity /\ drawdown' = <<0, 1>>
  ELSE peak' = peak /\ drawdown' = <<peak - equity, peak>>

RecordTrade(t, profit) ==
  /\ pc[t] = "closed"
  /\ realized + profit \in -MaxPnl..MaxPnl
  /\ realized' = realized + profit
  /\ highest' = IF realized' > highest THEN realized' ELSE highest
  /\ daily' = daily + profit
  /\ UpdateDrawdown(realized + profit)
  /\ Goto(t, "idle")
  /\ UNCHANGED <<limits, breaker, positions, locals>>

-----------------------------------------------------------------------------
(* The operator *)

\* Traders inside can_trade past the breaker hold the limits' read lock.
HoldsLimits(t) == pc[t] \in {"exposure", "count", "daily", "drawdown", "trip"}

UpdateLimits ==
  /\ ~\E t \in Trader : HoldsLimits(t)
  /\ limits' \in Limits \ {limits}
  /\ UNCHANGED <<breaker, positions, pnl, pc, locals>>

TriggerCircuitBreaker ==
  /\ breaker' = TRUE
  /\ UNCHANGED <<limits, positions, pnl, pc, locals>>

ResetCircuitBreaker ==
  /\ breaker' = FALSE
  /\ UNCHANGED <<limits, positions, pnl, pc, locals>>

ResetDailyPnl ==
  /\ daily' = 0
  /\ UNCHANGED <<limits, breaker, positions, realized, peak, drawdown, highest, pc, locals>>

-----------------------------------------------------------------------------
Step(t) == \/ CheckSize(t)
           \/ \E k \in Key : ReadEntry(t, k)
           \/ CheckExposure(t) \/ CheckOpenPositions(t)
           \/ CheckDailyLoss(t) \/ CheckDrawdown(t) \/ Trip(t)

Next == \/ \E t \in Trader : \/ \E k \in Key, s \in Size : CanTrade(t, k, s)
                             \/ Step(t)
                             \/ UpdatePosition(t)
                             \/ \E k \in Key : RemovePosition(t, k)
                             \/ \E p \in Profit : RecordTrade(t, p)
        \/ UpdateLimits \/ TriggerCircuitBreaker \/ ResetCircuitBreaker \/ ResetDailyPnl

Spec == Init /\ [][Next]_vars

-----------------------------------------------------------------------------
(* Properties *)

Places == {"idle", "size", "exposure", "count", "daily", "drawdown", "trip",
           "approved", "closed"}

\* Every variable has its type; a sum over the positions is never negative.
TypeOK ==
  /\ limits \in Limits
  /\ breaker \in BOOLEAN
  /\ positions \in [Key -> Nat \cup {NoPosition}]
  /\ realized \in Int /\ daily \in Int
  /\ peak \in Nat \ {0}
  /\ drawdown \in Nat \X (Nat \ {0})
  /\ highest \in Nat
  /\ pc \in [Trader -> Places]
  /\ callers \subseteq Trader
  /\ key \in [Trader -> Key] /\ size \in [Trader -> Nat]
  /\ todo \in [Trader -> SUBSET Key] /\ sum \in [Trader -> Nat]

\* What is open on each key, and the sum that can_trade limits.
Value == [k \in Key |-> IF k \in Open THEN positions[k] ELSE 0]

Exposure == SumFunctionOnSet(Value, Key)

\* The loosest setting of a limit: limits may be tightened under positions that are
\* open and under trades that are approved.
Loosest(field) == Max({l[field] : l \in Limits})

\* Tasks that call can_trade at the same time all see the positions as they were.
\* The limits of limits.rs:10 and :22 are overshot all the same by no more than one
\* trade of each task but one, however the map changes under the iterations that add
\* it up; they hold exactly as long as only one task has called can_trade.
Others == Cardinality(callers) - 1

OvershootBounded ==
  callers # {} =>
    /\ Exposure <= Loosest("max_total_exposure") + Others * Loosest("max_position_size")
    /\ Cardinality(Open) <= Loosest("max_open_positions") + Others

\* README.md:157, trading halts when the "Drawdown exceeds threshold": the drawdown
\* check trips the breaker only if the equity, the initial one and the realized profit,
\* has fallen from its highest by more than the percentage allowed.
DrawdownTripsAreDrawdowns ==
  [][\A t \in Trader :
        pc[t] = "drawdown" /\ pc'[t] = "trip" =>
          (highest - realized) * 100
            > limits.max_drawdown_pct * (InitialEquity + highest)]_vars
=============================================================================
