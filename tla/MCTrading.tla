------------------------------- MODULE MCTrading -------------------------------
(***************************************************************************)
(* Validation of pairs and of orders, limits and execution for TLC: what   *)
(* opportunities and orders have to pass, none of which waits for another  *)
(* task. They share no state, so every behaviour is one of one part, with  *)
(* the others at rest.                                                     *)
(***************************************************************************)
EXTENDS MCCheckPair, MCPrecision, MCRiskManager, MCInventory, RateLimiter, MCExecutor

VARIABLE part

pairVars == <<checkPairVars, validation>>
limitVars == <<vars, inventoryVars, limiterVars>>
tradingVars == <<part, pairVars, limitVars, executorVars>>

\* One of the configurations, limits, keys and plans, where they do not matter.
OneConfig == CHOOSE c \in Config : TRUE
OneLimit == CHOOSE l \in Limits : TRUE
OnePlan == CHOOSE p \in Plan : TRUE

TradingInit ==
  /\ part \in {"pairs", "orders", "risk", "inventory", "limiter", "executor"}
  /\ CheckPairInit /\ (part # "pairs" => config = OneConfig)
  /\ validation = NoValidation
  /\ Init
  /\ part # "risk" => limits = OneLimit /\ \E k \in Key : key = [t \in Trader |-> k]
  /\ InventoryInit /\ LimiterInit
  /\ ExecutorInit /\ (part # "executor" => executing = [t \in Task |-> OnePlan])

\* A check starts with a clean slate: one in a behaviour is as good as many.
SingleCheck == stage \in {"accepted", "rejected"} => UNCHANGED checkPairVars

TradingNext ==
  \/ /\ part = "pairs" /\ CheckPairNext /\ SingleCheck
     /\ UNCHANGED <<part, validation, limitVars, executorVars>>
  \/ /\ part = "orders" /\ ValidateNext
     /\ UNCHANGED <<part, checkPairVars, limitVars, executorVars>>
  \/ /\ part = "risk" /\ Next
     /\ UNCHANGED <<part, pairVars, inventoryVars, limiterVars, executorVars>>
  \/ /\ part = "inventory" /\ InventoryNext /\ LessHeldByTwo
     /\ UNCHANGED <<part, pairVars, vars, limiterVars, executorVars>>
  \/ /\ part = "limiter" /\ LimiterNext
     /\ UNCHANGED <<part, pairVars, vars, inventoryVars, executorVars>>
  \/ part = "executor" /\ ExecutorNext /\ UNCHANGED <<part, pairVars, limitVars>>

TradingSpec == TradingInit /\ [][TradingNext]_tradingVars

\* No definition tells two tasks (Trader, Caller and Client are the same) or two keys
\* apart.
TaskKeySymmetry == Permutations(Trader) \cup Permutations(Key)
=============================================================================
