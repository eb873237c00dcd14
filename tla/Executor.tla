------------------------------- MODULE Executor -------------------------------
(***************************************************************************)
(* ArbitrageExecutor::execute (crates/arbitrage/src/executor.rs) called by *)
(* any number of tasks: the balance is read, then an order is placed on    *)
(* each of two exchanges and both replies are awaited.                     *)
(*                                                                         *)
(* External: the exchanges. A request may be lost, or arrive after its     *)
(* connection has failed; a market order is accepted, and then executed,   *)
(* or refused; a reply may be lost or unreadable. The executor sees each   *)
(* failure as the same error. What an exchange answers get_balance and     *)
(* what it then accepts are unrelated: the orders are market orders, which *)
(* carry no price, and the balance asked for is that of the wallet, or 0   *)
(* where the asset is missing from the answer.                             *)
(***************************************************************************)
EXTENDS Integers, FiniteSets

CONSTANTS Task,
          Venue,
          Registered,  \* exchanges with an API (add_exchange)
          Plan,        \* execution plans of opportunities
          Balance      \* what an exchange may answer get_balance

Leg == {"buy", "sell"}

\* needed: price * quantity of the buy leg.
ExecutionPlan == [buy : Venue, sell : Venue, needed : Nat]

ASSUME ExecutorAssumption ==
  /\ Registered \subseteq Venue
  /\ Plan \subseteq ExecutionPlan /\ Plan # {}
  /\ Balance \subseteq Nat

VARIABLES place,     \* place[t]: where t is in execute
          executing, \* executing[t]: what t executes
          balance,   \* balance[t]: the reply to get_balance
          order,     \* order[t][l]: what has become of the order of leg l
          reply,     \* reply[t][l]: what place_market_order returned
          result     \* result[t]: what t's last execute returned

executorVars == <<place, executing, balance, order, reply, result>>

OrderStatus == {"none", "sent", "accepted", "refused", "lost"}

Error == {"ExchangeError", "InsufficientBalance", "OrderFailed"}

NoLegs == [l \in Leg |-> "none"]

ExecutorInit ==
  /\ place = [t \in Task |-> "idle"]
  /\ executing \in [Task -> Plan]
  /\ balance = [t \in Task |-> 0]
  /\ order = [t \in Task |-> NoLegs]
  /\ reply = [t \in Task |-> NoLegs]
  /\ result = [t \in Task |-> "none"]

Finish(t, r) == /\ place' = [place EXCEPT ![t] = "idle"]
                /\ result' = [result EXCEPT ![t] = r]

-----------------------------------------------------------------------------
(* validate_balances: only the exchange of the buy leg is looked at *)

\* Orders of the last call that are still on their way are followed no further.
Execute(t, p) ==
  /\ place[t] = "idle"
  /\ executing' = [executing EXCEPT ![t] = p]
  /\ order' = [order EXCEPT ![t] = NoLegs]
  /\ reply' = [reply EXCEPT ![t] = NoLegs]
  /\ IF p.buy \in Registered
     THEN /\ place' = [place EXCEPT ![t] = "get_balance"]
          /\ result' = [result EXCEPT ![t] = "none"]
     ELSE Finish(t, "ExchangeError")
  /\ UNCHANGED balance

\* The exchange answers get_balance; the reply is on its way.
AnswerBalance(t) ==
  /\ place[t] = "get_balance"
  /\ \E b \in Balance : balance' = [balance EXCEPT ![t] = b]
  /\ place' = [place EXCEPT ![t] = "validate"]
  /\ UNCHANGED <<executing, order, reply, result>>

BalanceError(t) ==
  /\ place[t] = "get_balance"
  /\ Finish(t, "ExchangeError")
  /\ UNCHANGED <<executing, balance, order, reply>>

Validated(t) == balance[t] >= executing[t].needed

RefuseBalance(t) ==
  /\ place[t] = "validate" /\ ~Validated(t)
  /\ Finish(t, "InsufficientBalance")
  /\ UNCHANGED <<executing, balance, order, reply>>

-----------------------------------------------------------------------------
(* The two legs *)

\* Faulty variant: a leg is sent whether or not its exchange has an API.
SendAny(x) == TRUE

HasApi(x) == x \in Registered

\* Both legs are polled at once: each is sent, or fails at once for want of an API.
ExecuteLegs(t) ==
  /\ place[t] = "validate" /\ Validated(t)
  /\ order' = [order EXCEPT ![t] =
                 [l \in Leg |-> IF HasApi(executing[t][l]) THEN "sent" ELSE "none"]]
  /\ reply' = [reply EXCEPT ![t] =
                 [l \in Leg |-> IF HasApi(executing[t][l]) THEN "none" ELSE "ExchangeError"]]
  /\ place' = [place EXCEPT ![t] = "legs"]
  /\ UNCHANGED <<executing, balance, result>>

\* The exchange accepts an order that arrives, or refuses it.
AcceptOrder(t, l) ==
  /\ order[t][l] = "sent"
  /\ order' = [order EXCEPT ![t][l] = "accepted"]
  /\ UNCHANGED <<place, executing, balance, reply, result>>

RefuseOrder(t, l) ==
  /\ order[t][l] = "sent"
  /\ order' = [order EXCEPT ![t][l] = "refused"]
  /\ UNCHANGED <<place, executing, balance, reply, result>>

\* The request does not arrive.
LoseOrder(t, l) ==
  /\ order[t][l] = "sent"
  /\ order' = [order EXCEPT ![t][l] = "lost"]
  /\ UNCHANGED <<place, executing, balance, reply, result>>

\* Faulty variant: the variant of the balance check.
LegErrorUntyped == "ExchangeError"

LegError == "OrderFailed"

\* place_market_order returns: an order id only if the order was accepted, but an
\* error in every case: also while the order is on its way.
PlaceMarketOrder(t, l) ==
  /\ place[t] = "legs"
  /\ order[t][l] # "none" /\ reply[t][l] = "none"
  /\ \/ order[t][l] = "accepted" /\ reply' = [reply EXCEPT ![t][l] = "ok"]
     \/ reply' = [reply EXCEPT ![t][l] = LegError]
  /\ UNCHANGED <<place, executing, balance, order, result>>

\* Faulty variant: try_join!, which returns the first error.
AnyFailed(t) == \/ \A l \in Leg : reply[t][l] # "none"
                \/ \E l \in Leg : reply[t][l] \in Error

\* tokio::join! waits for both.
Joined(t) == \A l \in Leg : reply[t][l] # "none"

\* Faulty variant: the result of the buy leg alone.
BuyResult(t) == IF reply[t]["buy"] = "ok" THEN "Ok" ELSE reply[t]["buy"]

\* buy_result? before sell_result?.
Result(t) == CASE reply[t]["buy"] # "ok" -> reply[t]["buy"]
               [] reply[t]["buy"] = "ok" /\ reply[t]["sell"] # "ok" -> reply[t]["sell"]
               [] OTHER -> "Ok"

EndExecute(t) ==
  /\ place[t] = "legs" /\ Joined(t)
  /\ Finish(t, Result(t))
  /\ UNCHANGED <<executing, balance, order, reply>>

-----------------------------------------------------------------------------
ExecuteStep(t) ==
  \/ AnswerBalance(t) \/ BalanceError(t) \/ RefuseBalance(t)
  \/ ExecuteLegs(t) \/ EndExecute(t)
  \/ \E l \in Leg : \/ AcceptOrder(t, l) \/ RefuseOrder(t, l) \/ LoseOrder(t, l)
                    \/ PlaceMarketOrder(t, l)

ExecutorNext == \E t \in Task : (\E p \in Plan : Execute(t, p)) \/ ExecuteStep(t)

ExecutorSpec == ExecutorInit /\ [][ExecutorNext]_executorVars

-----------------------------------------------------------------------------
(* Properties *)

\* Every variable has its type; no exchange without an API gets an order.
ExecutorTypeOK ==
  /\ place \in [Task -> {"idle", "get_balance", "validate", "legs"}]
  /\ executing \in [Task -> Plan]
  /\ balance \in [Task -> Nat]
  /\ order \in [Task -> [Leg -> OrderStatus]]
  /\ reply \in [Task -> [Leg -> {"none", "ok"} \cup Error]]
  /\ result \in [Task -> {"none", "Ok"} \cup Error]
  /\ \A t \in Task, l \in Leg : order[t][l] # "none" => executing[t][l] \in Registered

\* An execute that returns Ok has an order accepted on both exchanges, whatever is
\* lost or refused: a leg alone is only ever left behind with an error.
OkMeansHedged ==
  \A t \in Task : result[t] = "Ok" => \A l \in Leg : order[t][l] = "accepted"

\* When execute returns, an order is still on its way only if its own reply has
\* failed, never because the other leg's has.
NoOrderOutlivesExecute ==
  \A t \in Task : place[t] = "idle" =>
    \A l \in Leg : order[t][l] = "sent" => reply[t][l] \in Error

\* The errors of the balance check mean that nothing was traded, or will be: the
\* caller may try again. An ExchangeError means it only if the exchange of the sell
\* leg has an API, since that is found missing when the buy has been sent.
RefusalsTradeNothing ==
  \A t \in Task :
    \/ result[t] = "InsufficientBalance"
    \/ result[t] = "ExchangeError" /\ executing[t].sell \in Registered
    => \A l \in Leg : order[t][l] = "none"

\* What ARCHITECTURE.md says of a failed order, that the opposite leg is cancelled:
\* when execute returns an error, no order it knows to be accepted is left standing.
OppositeLegCancelled ==
  \A t \in Task : result[t] \in Error =>
    \A l \in Leg : reply[t][l] = "ok" => order[t][l] # "accepted"
=============================================================================
