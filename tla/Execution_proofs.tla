---------------------------- MODULE Execution_proofs ----------------------------
(***************************************************************************)
(* Proofs about the execution of trades, for any number of tasks,          *)
(* exchanges, plans, keys, orders, callers and worker threads.             *)
(*                                                                         *)
(* Executor: what a result says of the two orders follows from what every  *)
(* reply says of its order and from where the task was when it returned    *)
(* (Told).                                                                 *)
(*                                                                         *)
(* Reconciler: how far a tracked position can be from what the exchange    *)
(* holds is a sum of what each order has still to tell (DriftInv).         *)
(***************************************************************************)
EXTENDS Executor, Reconciler, SumTheorems

-----------------------------------------------------------------------------
(* Executor *)

\* What replies and results say.
ToldOf(t) ==
  /\ place[t] # "idle" => result[t] = "none" /\ executing[t].buy \in Registered
  /\ place[t] \in {"get_balance", "validate"} =>
       \A l \in Leg : order[t][l] = "none" /\ reply[t][l] = "none"
  /\ \A l \in Leg :
       /\ reply[t][l] = "ok" => order[t][l] = "accepted"
       /\ reply[t][l] = "ExchangeError" => executing[t][l] \notin Registered
       /\ reply[t][l] # "InsufficientBalance"
       /\ place[t] = "idle" /\ order[t][l] # "none" => reply[t][l] # "none"
  /\ result[t] = "Ok" => \A l \in Leg : reply[t][l] = "ok"
  /\ result[t] = "InsufficientBalance" => \A l \in Leg : order[t][l] = "none"
  /\ result[t] = "ExchangeError" /\ executing[t].sell \in Registered =>
       \A l \in Leg : order[t][l] = "none"

Told == \A t \in Task : ToldOf(t)

-----------------------------------------------------------------------------
\* Type correctness.

\* A plan trades on two exchanges a natural quantity.
LEMMA PlanType == \A p \in Plan : p.buy \in Venue /\ p.sell \in Venue /\ p.needed \in Nat
BY ExecutorAssumption DEF ExecutionPlan

\* The two ways to write a leg's exchange.
LEMMA PlanLeg == \A p \in Plan : p["buy"] = p.buy /\ p["sell"] = p.sell
OBVIOUS

\* Updates of one leg of one task, and of one entry of a function.
LEMMA UpdateLeg ==
  ASSUME NEW V, NEW f \in [Task -> [Leg -> V]], NEW t \in Task, NEW l \in Leg, NEW v \in V
  PROVE  /\ [f EXCEPT ![t][l] = v] \in [Task -> [Leg -> V]]
         /\ \A u \in Task, m \in Leg :
              [f EXCEPT ![t][l] = v][u][m] = IF u = t /\ m = l THEN v ELSE f[u][m]
OBVIOUS

\* The first state has its types.
LEMMA TypeInit == ExecutorInit => ExecutorTypeOK
BY ExecutorAssumption DEF ExecutorInit, ExecutorTypeOK, NoLegs, Leg, Error, OrderStatus

\* Every step keeps the types.
LEMMA TypeStep == ExecutorTypeOK /\ [ExecutorNext]_executorVars => ExecutorTypeOK'
<1> SUFFICES ASSUME ExecutorTypeOK, [ExecutorNext]_executorVars PROVE ExecutorTypeOK'
  OBVIOUS
<1> USE DEF ExecutorTypeOK
<1>1. ASSUME NEW t \in Task, NEW p \in Plan, Execute(t, p) PROVE ExecutorTypeOK'
  <2>1. /\ executing' \in [Task -> Plan] /\ executing' = [executing EXCEPT ![t] = p]
        /\ order' = [order EXCEPT ![t] = NoLegs] /\ reply' = [reply EXCEPT ![t] = NoLegs]
        /\ UNCHANGED balance
    BY <1>1 DEF Execute
  <2>2. /\ place' \in [Task -> {"idle", "get_balance", "validate", "legs"}]
        /\ result' \in [Task -> {"none", "Ok"} \cup Error]
    BY <1>1 DEF Execute, Finish, Error
  <2>4. /\ order' \in [Task -> [Leg -> OrderStatus]]
        /\ reply' \in [Task -> [Leg -> {"none", "ok"} \cup Error]]
    BY <2>1 DEF NoLegs, OrderStatus
  <2>5. \A u \in Task, l \in Leg : order'[u][l] # "none" => executing'[u][l] \in Registered
    BY <2>1 DEF NoLegs
  <2> QED
    BY <2>1, <2>2, <2>4, <2>5
<1>2. ASSUME NEW t \in Task, AnswerBalance(t) PROVE ExecutorTypeOK'
  BY <1>2, ExecutorAssumption DEF AnswerBalance
<1>3. ASSUME NEW t \in Task, BalanceError(t) \/ RefuseBalance(t) PROVE ExecutorTypeOK'
  BY <1>3 DEF BalanceError, RefuseBalance, Finish, Error
<1>4. ASSUME NEW t \in Task, ExecuteLegs(t) PROVE ExecutorTypeOK'
  <2>1. /\ order' = [order EXCEPT ![t] =
                       [l \in Leg |-> IF HasApi(executing[t][l]) THEN "sent" ELSE "none"]]
        /\ reply' = [reply EXCEPT ![t] =
                       [l \in Leg |-> IF HasApi(executing[t][l]) THEN "none" ELSE "ExchangeError"]]
        /\ place' = [place EXCEPT ![t] = "legs"]
        /\ UNCHANGED <<executing, balance, result>>
    BY <1>4 DEF ExecuteLegs
  <2>2. order' \in [Task -> [Leg -> OrderStatus]]
    BY <2>1 DEF OrderStatus
  <2>3. reply' \in [Task -> [Leg -> {"none", "ok"} \cup Error]]
    BY <2>1 DEF Error
  <2>4. \A u \in Task, l \in Leg : order'[u][l] # "none" => executing'[u][l] \in Registered
    BY <2>1 DEF HasApi
  <2> QED
    BY <2>1, <2>2, <2>3, <2>4
<1>5. ASSUME NEW t \in Task, EndExecute(t) PROVE ExecutorTypeOK'
  <2>1. Result(t) \in {"none", "Ok"} \cup Error
    BY DEF Result, Leg
  <2> QED
    BY <1>5, <2>1 DEF EndExecute, Finish
<1>6. ASSUME NEW t \in Task, NEW l \in Leg, AcceptOrder(t, l) PROVE ExecutorTypeOK'
  <2>3. order' \in [Task -> [Leg -> OrderStatus]]
    BY <1>6, UpdateLeg DEF AcceptOrder, OrderStatus
  <2>4. \A u \in Task, m \in Leg : order'[u][m] # "none" => order[u][m] # "none"
    BY <1>6, UpdateLeg DEF AcceptOrder, OrderStatus
  <2> QED
    BY <1>6, <2>3, <2>4 DEF AcceptOrder
<1>7. ASSUME NEW t \in Task, NEW l \in Leg, RefuseOrder(t, l) \/ LoseOrder(t, l) PROVE ExecutorTypeOK'
  <2>1. order[t][l] = "sent" /\ \E v \in OrderStatus : order' = [order EXCEPT ![t][l] = v]
    BY <1>7 DEF RefuseOrder, LoseOrder, OrderStatus
  <2>2. order' \in [Task -> [Leg -> OrderStatus]]
    BY <2>1, UpdateLeg
  <2>3. \A u \in Task, m \in Leg : order'[u][m] # "none" => order[u][m] # "none"
    BY <2>1, UpdateLeg
  <2> QED
    BY <1>7, <2>2, <2>3 DEF RefuseOrder, LoseOrder
<1>8. ASSUME NEW t \in Task, NEW l \in Leg, PlaceMarketOrder(t, l) PROVE ExecutorTypeOK'
  <2>1. \E v \in {"none", "ok"} \cup Error : reply' = [reply EXCEPT ![t][l] = v]
    BY <1>8 DEF PlaceMarketOrder, LegError, Error
  <2>2. reply' \in [Task -> [Leg -> {"none", "ok"} \cup Error]]
    BY <2>1, UpdateLeg
  <2> QED
    BY <1>8, <2>2 DEF PlaceMarketOrder
<1>9. CASE UNCHANGED executorVars
  BY <1>9 DEF executorVars
<1> QED
  BY <1>1, <1>2, <1>3, <1>4, <1>5, <1>6, <1>7, <1>8, <1>9 DEF ExecutorNext, ExecuteStep

\* ExecutorTypeOK, the type invariant of Executor, holds in every reachable state: no exchange
\* without an API is ever sent an order.
THEOREM ExecutorTypes == ExecutorSpec => []ExecutorTypeOK
BY TypeInit, TypeStep, PTL DEF ExecutorSpec

-----------------------------------------------------------------------------
\* What a result of execute says.

\* No task knows of any leg at first.
LEMMA ToldInit == ExecutorInit => Told
BY DEF ExecutorInit, Told, ToldOf, NoLegs, Leg

\* A step of the exchange on orders that were sent leaves what was said true.
LEMMA OrderMoves ==
  ASSUME ExecutorTypeOK, Told, UNCHANGED <<place, executing, reply, result>>,
         \A u \in Task, m \in Leg : /\ order'[u][m] = "none" <=> order[u][m] = "none"
                                    /\ order[u][m] = "accepted" => order'[u][m] = "accepted"
  PROVE  Told'
<1> SUFFICES ASSUME NEW u \in Task PROVE ToldOf(u)'
  BY DEF Told
<1>1. ToldOf(u)
  BY DEF Told
<1> QED
  BY <1>1 DEF ToldOf

\* Every step keeps what a task knows of its legs.
LEMMA ToldStep == ExecutorTypeOK /\ ExecutorTypeOK' /\ Told /\ [ExecutorNext]_executorVars => Told'
<1> SUFFICES ASSUME ExecutorTypeOK, ExecutorTypeOK', Told, [ExecutorNext]_executorVars PROVE Told'
  OBVIOUS
<1> USE DEF ExecutorTypeOK, Told, ToldOf
<1>1. ASSUME NEW t \in Task, NEW p \in Plan, Execute(t, p) PROVE Told'
  BY <1>1 DEF Execute, Finish, NoLegs, Leg
<1>2. ASSUME NEW t \in Task, AnswerBalance(t) PROVE Told'
  BY <1>2 DEF AnswerBalance
<1>3. ASSUME NEW t \in Task, BalanceError(t) \/ RefuseBalance(t) PROVE Told'
  <2>1. /\ place[t] \in {"get_balance", "validate"} /\ place' = [place EXCEPT ![t] = "idle"]
        /\ UNCHANGED <<executing, order, reply>>
        /\ \E e \in {"ExchangeError", "InsufficientBalance"} : result' = [result EXCEPT ![t] = e]
    BY <1>3 DEF BalanceError, RefuseBalance, Finish
  <2>2. \A l \in Leg : order[t][l] = "none" /\ reply[t][l] = "none"
    BY <2>1
  <2> QED
    BY <2>1, <2>2
<1>4. ASSUME NEW t \in Task, ExecuteLegs(t) PROVE Told'
  BY <1>4 DEF ExecuteLegs, HasApi
<1>5. ASSUME NEW t \in Task, EndExecute(t) PROVE Told'
  <2>1. \A l \in Leg : reply[t][l] \in {"none", "ok"} \cup Error
    OBVIOUS
  <2>2. Result(t) = "Ok" => \A l \in Leg : reply[t][l] = "ok"
    BY <2>1 DEF Result, Leg, Error
  <2>3. Result(t) # "InsufficientBalance"
    BY DEF Result, Leg
  <2>4. Result(t) = "ExchangeError" => executing[t].sell \notin Registered
    <3>1. executing[t] \in Plan /\ executing[t].buy \in Registered
      BY <1>5 DEF EndExecute
    <3>2. reply[t]["buy"] # "ExchangeError"
      BY <3>1, PlanLeg DEF Leg
    <3>3. Result(t) = "ExchangeError" => reply[t]["sell"] = "ExchangeError"
      BY <3>2 DEF Result
    <3> QED
      BY <3>1, <3>3, PlanLeg DEF Leg
  <2> QED
    BY <1>5, <2>2, <2>3, <2>4 DEF EndExecute, Finish, Joined
<1>6. ASSUME NEW t \in Task, NEW l \in Leg,
             AcceptOrder(t, l) \/ RefuseOrder(t, l) \/ LoseOrder(t, l)
      PROVE Told'
  <2>1. /\ order[t][l] = "sent" /\ UNCHANGED <<place, executing, reply, result>>
        /\ \E v \in OrderStatus \ {"none"} : order' = [order EXCEPT ![t][l] = v]
    BY <1>6 DEF AcceptOrder, RefuseOrder, LoseOrder, OrderStatus
  <2>2. \A u \in Task, m \in Leg : /\ order'[u][m] = "none" <=> order[u][m] = "none"
                                   /\ order[u][m] = "accepted" => order'[u][m] = "accepted"
    BY <2>1, UpdateLeg
  <2> QED
    BY <2>1, <2>2, OrderMoves
<1>7. ASSUME NEW t \in Task, NEW l \in Leg, PlaceMarketOrder(t, l) PROVE Told'
  <2>1. /\ place[t] = "legs" /\ order[t][l] # "none" /\ reply[t][l] = "none"
        /\ UNCHANGED <<place, executing, order, result>>
    BY <1>7 DEF PlaceMarketOrder
  <2>2. PICK v \in {"ok", "OrderFailed"} :
          /\ reply' = [reply EXCEPT ![t][l] = v]
          /\ v = "ok" => order[t][l] = "accepted"
    BY <1>7 DEF PlaceMarketOrder, LegError
  <2>3. \A u \in Task, m \in Leg : reply'[u][m] = IF u = t /\ m = l THEN v ELSE reply[u][m]
    BY <2>2, UpdateLeg DEF Error
  <2> SUFFICES ASSUME NEW u \in Task PROVE ToldOf(u)'
    OBVIOUS
  <2>4. ToldOf(u) /\ result[t] = "none"
    BY <2>1
  <2>5. CASE u = t
    BY <2>1, <2>2, <2>3, <2>4, <2>5
  <2>6. CASE u # t
    <3>1. \A m \in Leg : reply'[u][m] = reply[u][m]
      BY <2>3, <2>6
    <3> QED
      BY <2>1, <2>4, <3>1
  <2> QED
    BY <2>5, <2>6
<1>8. CASE UNCHANGED executorVars
  BY <1>8 DEF executorVars
<1> QED
  BY <1>1, <1>2, <1>3, <1>4, <1>5, <1>6, <1>7, <1>8 DEF ExecutorNext, ExecuteStep

\* Both invariants hold in every behaviour.
LEMMA SpecTold == ExecutorSpec => [](ExecutorTypeOK /\ Told)
BY TypeInit, TypeStep, ToldInit, ToldStep, PTL DEF ExecutorSpec

\* OkMeansHedged: Ok is returned only when both orders were accepted.
THEOREM OkHedged == ExecutorSpec => []OkMeansHedged
<1>1. Told => OkMeansHedged
  BY DEF Told, ToldOf, OkMeansHedged
<1> QED
  BY <1>1, SpecTold, PTL

\* NoOrderOutlivesExecute: no order is left on its way by the failure of the other.
THEOREM OrdersAwaited == ExecutorSpec => []NoOrderOutlivesExecute
<1>1. ExecutorTypeOK /\ Told => NoOrderOutlivesExecute
  BY DEF ExecutorTypeOK, Told, ToldOf, NoOrderOutlivesExecute
<1> QED
  BY <1>1, SpecTold, PTL

\* RefusalsTradeNothing: after the errors of the balance check nothing was sent.
THEOREM RefusalsSafe == ExecutorSpec => []RefusalsTradeNothing
<1>1. Told => RefusalsTradeNothing
  BY DEF Told, ToldOf, RefusalsTradeNothing
<1> QED
  BY <1>1, SpecTold, PTL

-----------------------------------------------------------------------------
(* Reconciler *)

USE DEF exchange, history, entries, iteration

\* What TypeOK needs besides itself: the entry that is visited exists, and only
\* placed orders are executed.
VisitInv ==
  /\ stage \in {"fetch", "answer"} => entry \in tracked
  /\ \A o \in Order : executed[o] # 0 => o \in placed

\* The first state has its types, no entry is visited and nothing is executed.
LEMMA InitTypeOK == ReconcilerInit => ReconcilerTypeOK /\ VisitInv
<1> SUFFICES ASSUME ReconcilerInit PROVE ReconcilerTypeOK /\ VisitInv
  OBVIOUS
<1> USE ReconcilerAssumption DEF ReconcilerInit
<1>1. /\ executed \in [Order -> Int] /\ placed \subseteq Order /\ closed \subseteq placed
      /\ events \subseteq Event /\ repeated \subseteq placed
      /\ call \in [Reporter -> Event \cup {NoCall}]
  OBVIOUS
<1>2. /\ tracked \subseteq Key
      /\ quantity \in [Key -> Int] /\ failing \subseteq tracked
      /\ status \in [Order -> Status \cup {"unknown"}]
  OBVIOUS
<1>3. /\ stage \in {"idle", "next", "fetch", "answer"} /\ unvisited \subseteq Key /\ entry \in Key
      /\ answer \in [ok : BOOLEAN, positions : [Key -> Int]]
  BY DEF NoAnswer
<1>4. unsettled \in [Key -> SUBSET Order] /\ counted \subseteq Order /\ again \in [Key -> Nat]
  BY DEF OrdersOf
<1>5. \A k \in Key \ tracked : quantity[k] = 0 /\ \A o \in OrdersOf(k) : status[o] = "unknown"
  BY DEF OrdersOf
<1> QED
  BY <1>1, <1>2, <1>3, <1>4, <1>5 DEF ReconcilerTypeOK, VisitInv

\* The calls in progress are of events.
LEMMA CallType ==
  ASSUME ReconcilerTypeOK, NEW c \in Reporter, call[c] # NoCall
  PROVE  /\ call[c] \in Event
         /\ call[c].order \in Order /\ call[c].status \in Status
         /\ KeyOf[call[c].order] \in Key /\ Quantity[call[c].order] \in Int
BY ReconcilerAssumption DEF ReconcilerTypeOK, Event

\* An account is a whole number.
LEMMA AccountType ==
  ASSUME ReconcilerTypeOK, NEW k
  PROVE  IsFiniteSet(OrdersOf(k)) /\ OrdersOf(k) \subseteq Order /\ Account(k) \in Int
<1>1. IsFiniteSet(OrdersOf(k)) /\ OrdersOf(k) \subseteq Order
  BY ReconcilerAssumption, FS_Subset DEF OrdersOf
<1>2. \A o \in OrdersOf(k) : executed[o] \in Int
  BY <1>1 DEF ReconcilerTypeOK
<1> QED
  BY <1>1, <1>2, SumType DEF Account

\* Every step keeps the types, and visits only entries that exist.
LEMMA NextTypeOK ==
  ReconcilerTypeOK /\ VisitInv /\ [ReconcilerNext]_reconcilerVars => ReconcilerTypeOK' /\ VisitInv'
<1> SUFFICES ASSUME ReconcilerTypeOK, VisitInv, [ReconcilerNext]_reconcilerVars PROVE ReconcilerTypeOK' /\ VisitInv'
  OBVIOUS
<1> USE ReconcilerAssumption DEF VisitInv
<1>1. ASSUME NEW o \in Order, Place(o) \/ Cancel(o)
      PROVE  ReconcilerTypeOK' /\ VisitInv'
  <2>1. events' \subseteq Event
    BY <1>1 DEF Place, Cancel, Tell, Event, Status, Final, ReconcilerTypeOK
  <2> QED
    BY <1>1, <2>1 DEF Place, Cancel, ReconcilerTypeOK
<1>2. ASSUME NEW o \in Order, FillPartly(o) \/ Fill(o)
      PROVE  ReconcilerTypeOK' /\ VisitInv'
  <2>1. events' \subseteq Event
    BY <1>2 DEF FillPartly, Fill, Tell, Event, Status, Final, ReconcilerTypeOK
  <2>2. PICK n \in Int : executed' = [executed EXCEPT ![o] = n]
    <3>1. Quantity[o] \in Int
      OBVIOUS
    <3> QED
      BY <1>2, <3>1 DEF FillPartly, Fill
  <2>3. o \in placed /\ closed' \subseteq placed' /\ UNCHANGED <<placed, repeated, call, entries, iteration>>
    BY <1>2 DEF FillPartly, Fill, ReconcilerTypeOK
  <2> QED
    BY <2>1, <2>2, <2>3 DEF ReconcilerTypeOK
<1>3. ASSUME NEW o \in Order, Repeat(o)
      PROVE  ReconcilerTypeOK' /\ VisitInv'
  <2>1. events' \subseteq Event
    BY <1>3 DEF Repeat, Tell, Event, Status, Final, ReconcilerTypeOK
  <2>2. o \in placed
    BY <1>3 DEF Repeat
  <2> QED
    BY <1>3, <2>1, <2>2 DEF Repeat, ReconcilerTypeOK
<1>4. ASSUME NEW c \in Reporter, NEW e \in Event, BeginCall(c, e)
      PROVE  ReconcilerTypeOK' /\ VisitInv'
  BY <1>4 DEF BeginCall, ReconcilerTypeOK
<1>5. ASSUME NEW c \in Reporter, TrackOrder(c)
      PROVE  ReconcilerTypeOK' /\ VisitInv'
  <2>1. call[c].order \in Order /\ KeyOf[call[c].order] \in Key
    BY <1>5, CallType DEF TrackOrder
  <2>2. status' = [status EXCEPT ![call[c].order] = "pending"]
        /\ tracked' = tracked \cup {KeyOf[call[c].order]}
    BY <1>5 DEF TrackOrder
  <2>3. status' \in [Order -> Status \cup {"unknown"}]
    BY <2>1, <2>2 DEF ReconcilerTypeOK, Status
  <2>4. \A k \in Key \ tracked' : quantity'[k] = 0 /\ \A o \in OrdersOf(k) : status'[o] = "unknown"
    BY <1>5, <2>1, <2>2 DEF TrackOrder, ReconcilerTypeOK, OrdersOf
  <2>5. call' \in [Reporter -> Event \cup {NoCall}]
    BY <1>5 DEF TrackOrder, ReconcilerTypeOK
  <2> QED
    BY <1>5, <2>1, <2>2, <2>3, <2>4, <2>5 DEF TrackOrder, ReconcilerTypeOK, OrdersOf
<1>6. ASSUME NEW c \in Reporter, UpdateOrderFill(c)
      PROVE  ReconcilerTypeOK' /\ VisitInv'
  <2> DEFINE o == call[c].order
             k == KeyOf[o]
  <2>1. /\ o \in Order /\ k \in Key /\ Quantity[o] \in Int /\ call[c].status \in Status
        /\ Abs(Quantity[o]) \in Nat /\ Counted(o, call[c].status) \in Int
    BY <1>6, CallType DEF UpdateOrderFill, Abs, Counted
  <2>2. call' \in [Reporter -> Event \cup {NoCall}]
    BY <1>6 DEF UpdateOrderFill, ReconcilerTypeOK
  <2>3. CASE status[o] = "unknown"
    BY <1>6, <2>2, <2>3 DEF UpdateOrderFill, ReconcilerTypeOK, OrdersOf
  <2>4. CASE status[o] # "unknown"
    <3>1. /\ status' = [status EXCEPT ![o] = call[c].status]
          /\ quantity' = [quantity EXCEPT ![k] = @ + Counted(o, call[c].status)]
          /\ counted' \in {counted, counted \cup {o}}
          /\ again' \in {again, [again EXCEPT ![k] = @ + Abs(Quantity[o])]}
          /\ UNCHANGED <<exchange, events, repeated, tracked, failing, unsettled, iteration>>
      BY <1>6, <2>4 DEF UpdateOrderFill
    <3>2. k \in tracked
      BY <2>1, <2>4 DEF ReconcilerTypeOK, OrdersOf
    <3> HIDE DEF o, k
    <3>3. status' \in [Order -> Status \cup {"unknown"}]
      BY <2>1, <3>1 DEF ReconcilerTypeOK
    <3>4. quantity' \in [Key -> Int] /\ again' \in [Key -> Nat] /\ counted' \subseteq Order
      BY <2>1, <3>1 DEF ReconcilerTypeOK
    <3>5. ASSUME NEW x \in Key \ tracked'
          PROVE  quantity'[x] = 0 /\ \A y \in OrdersOf(x) : status'[y] = "unknown"
      BY <2>1, <3>1, <3>2, <3>5 DEF ReconcilerTypeOK, OrdersOf, k
    <3> QED
      BY <2>2, <3>1, <3>3, <3>4, <3>5 DEF ReconcilerTypeOK, OrdersOf
  <2> QED
    BY <2>3, <2>4
<1>7. ASSUME StartIteration \/ (\E k \in Key : Visit(k)) \/ Report
      PROVE  ReconcilerTypeOK' /\ VisitInv'
  BY <1>7 DEF StartIteration, Visit, Report, ReconcilerTypeOK, OrdersOf
<1>8. CASE FetchOk
  <2>1. [k \in Key |-> Account(k)] \in [Key -> Int]
    BY AccountType
  <2>2. answer' \in [ok : BOOLEAN, positions : [Key -> Int]]
    BY <1>8, <2>1 DEF FetchOk
  <2> QED
    BY <1>8, <2>2 DEF FetchOk, ReconcilerTypeOK, OrdersOf
<1>9. CASE FetchError
  BY <1>9 DEF FetchError, ReconcilerTypeOK, OrdersOf, NoAnswer
<1>10. CASE Reconcile
  <2>1. answer.positions[entry] \in Int /\ entry \in tracked /\ entry \in Key
    BY <1>10 DEF Reconcile, EndVisit, ReconcilerTypeOK
  <2>2. PICK n \in Int : quantity' = [quantity EXCEPT ![entry] = n]
    BY <1>10, <2>1 DEF Reconcile, ReconcilerTypeOK
  <2>3. unsettled' \in [Key -> SUBSET Order] /\ again' \in [Key -> Nat]
    BY <1>10, <2>1 DEF Reconcile, ReconcilerTypeOK, OrdersOf
  <2>4. answer' \in [ok : BOOLEAN, positions : [Key -> Int]]
    BY <1>10 DEF Reconcile, EndVisit, NoAnswer
  <2>5. \A x \in Key \ tracked' :
           quantity'[x] = 0 /\ \A y \in OrdersOf(x) : status'[y] = "unknown"
    BY <1>10, <2>1, <2>2 DEF Reconcile, EndVisit, ReconcilerTypeOK, OrdersOf
  <2> QED
    BY <1>10, <2>1, <2>2, <2>3, <2>4, <2>5 DEF Reconcile, EndVisit, ReconcilerTypeOK, OrdersOf
<1>11. CASE ReconcileFailed
  BY <1>11 DEF ReconcileFailed, EndVisit, ReconcilerTypeOK, OrdersOf, NoAnswer
<1>12. CASE UNCHANGED reconcilerVars
  BY <1>12 DEF reconcilerVars, ReconcilerTypeOK, OrdersOf
<1> QED
  BY <1>1, <1>2, <1>3, <1>4, <1>5, <1>6, <1>7, <1>8, <1>9, <1>10, <1>11, <1>12
     DEF ReconcilerNext, ExchangeStep, Deliver, Loop

\* Type correctness of the reconciler, the exchange and the calls in progress.
THEOREM TypeCorrect == ReconcilerSpec => []ReconcilerTypeOK
<1>1. ReconcilerInit => ReconcilerTypeOK /\ VisitInv
  BY InitTypeOK
<1>2. ReconcilerTypeOK /\ VisitInv /\ [ReconcilerNext]_reconcilerVars => ReconcilerTypeOK' /\ VisitInv'
  BY NextTypeOK
<1> QED
  BY <1>1, <1>2, PTL DEF ReconcilerSpec

-----------------------------------------------------------------------------
(* The drift *)

\* x is between 0 and y.
Within(x, y) == \/ 0 <= x /\ x <= y
                \/ y <= x /\ x <= 0

\* What callers tell, and what the reconciler has noted, is so: a fill of an order
\* that is executed, a cancellation of one that never will be, and only fills of
\* executed orders have been counted.
ToldInv ==
  /\ \A o \in Order : /\ Within(executed[o], Quantity[o])
                      /\ executed[o] = Quantity[o] => o \in closed
                      /\ o \in counted => executed[o] = Quantity[o]
                      /\ status[o] = "filled" => o \in counted
                      /\ status[o] = "cancelled" => o \in closed /\ executed[o] # Quantity[o]
  /\ \A e \in events \cup {call[c] : c \in Reporter} :
        /\ e.status = "filled" => executed[e.order] = Quantity[e.order]
        /\ e.status = "cancelled" => /\ e.order \in closed
                                     /\ executed[e.order] # Quantity[e.order]

\* Nothing has been told at first.
LEMMA InitTold == ReconcilerInit => ToldInv
<1> SUFFICES ASSUME ReconcilerInit PROVE ToldInv
  OBVIOUS
<1>1. \A o \in Order : Quantity[o] \in Int \ {0}
  BY ReconcilerAssumption
<1> QED
  BY <1>1 DEF ReconcilerInit, ToldInv, Within, NoCall

\* The exchange executes more of an order that is not closed.
LEMMA Executed ==
  ASSUME ReconcilerTypeOK, ToldInv, NEW o \in Order, FillPartly(o) \/ Fill(o)
  PROVE  \E n \in Int : /\ executed' = [executed EXCEPT ![o] = n]
                        /\ o \notin closed /\ executed[o] # Quantity[o]
                        /\ Within(executed[o], n) /\ Within(n, Quantity[o])
                        /\ n = Quantity[o] => o \in closed'
                        /\ closed \subseteq closed'
                        /\ UNCHANGED <<placed, repeated, call, entries, iteration>>
<1>1. Quantity[o] \in Int \ {0} /\ executed[o] \in Int /\ Within(executed[o], Quantity[o])
  BY ReconcilerAssumption DEF ReconcilerTypeOK, ToldInv
<1>2. o \notin closed /\ executed[o] # Quantity[o]
  BY DEF FillPartly, Fill, ToldInv
<1>3. CASE Fill(o)
  <2>1. /\ executed' = [executed EXCEPT ![o] = Quantity[o]]
        /\ closed' = closed \cup {o} /\ UNCHANGED <<placed, repeated, call, entries, iteration>>
    BY <1>3 DEF Fill
  <2>2. Within(Quantity[o], Quantity[o])
    BY <1>1 DEF Within
  <2> QED
    BY <1>1, <1>2, <2>1, <2>2
<1>4. CASE FillPartly(o)
  <2>1. PICK n \in (IF Quantity[o] > 0 THEN 1..(Quantity[o] - 1) ELSE (Quantity[o] + 1)..(-1)) :
          Abs(n) > Abs(executed[o]) /\ executed' = [executed EXCEPT ![o] = n]
    BY <1>4 DEF FillPartly
  <2>2. n \in Int /\ Within(executed[o], n) /\ Within(n, Quantity[o]) /\ n # Quantity[o]
    BY <1>1, <2>1 DEF Within, Abs
  <2> QED
    BY <1>2, <1>4, <2>1, <2>2 DEF FillPartly
<1> QED
  BY <1>3, <1>4

\* Every step keeps what callers tell and what has been noted true.
LEMMA NextTold == ReconcilerTypeOK /\ ToldInv /\ [ReconcilerNext]_reconcilerVars => ToldInv'
<1> SUFFICES ASSUME ReconcilerTypeOK, ToldInv, [ReconcilerNext]_reconcilerVars PROVE ToldInv'
  OBVIOUS
<1> USE DEF Tell
<1>1. ASSUME NEW o \in Order, Place(o) \/ Repeat(o)
      PROVE  ToldInv'
  BY <1>1 DEF Place, Repeat, ToldInv
<1>2. ASSUME NEW o \in Order, Cancel(o)
      PROVE  ToldInv'
  BY <1>2 DEF Cancel, ToldInv
<1>3. ASSUME NEW o \in Order, FillPartly(o) \/ Fill(o)
      PROVE  ToldInv'
  <2>1. PICK n \in Int : /\ executed' = [executed EXCEPT ![o] = n]
                         /\ o \notin closed /\ executed[o] # Quantity[o]
                         /\ Within(n, Quantity[o])
                         /\ n = Quantity[o] => o \in closed'
                         /\ closed \subseteq closed'
                         /\ UNCHANGED <<call, counted, status>>
    BY <1>3, Executed
  <2>2. \A x \in Order : x # o => executed'[x] = executed[x]
    BY <2>1 DEF ReconcilerTypeOK
  <2>3. executed'[o] = n
    BY <2>1 DEF ReconcilerTypeOK
  <2>4. ASSUME NEW x \in Order
        PROVE  /\ Within(executed'[x], Quantity[x])
               /\ executed'[x] = Quantity[x] => x \in closed'
               /\ x \in counted' => executed'[x] = Quantity[x]
               /\ status'[x] = "filled" => x \in counted'
               /\ status'[x] = "cancelled" => x \in closed' /\ executed'[x] # Quantity[x]
    BY <2>1, <2>2, <2>3 DEF ToldInv
  <2>5. ASSUME NEW e \in events' \cup {call'[c] : c \in Reporter}
        PROVE  /\ e.status = "filled" => executed'[e.order] = Quantity[e.order]
               /\ e.status = "cancelled" => /\ e.order \in closed'
                                            /\ executed'[e.order] # Quantity[e.order]
    <3>1. CASE e \in events \cup {call[c] : c \in Reporter}
      <4>1. e.status \in {"filled", "cancelled"} => e.order \in Order /\ e.order # o
        BY <2>1, <3>1 DEF ToldInv, ReconcilerTypeOK, Event, NoCall
      <4> QED
        BY <2>1, <2>2, <3>1, <4>1 DEF ToldInv
    <3>2. CASE e \notin events \cup {call[c] : c \in Reporter}
      <4>1. \/ e.status = "partially_filled"
            \/ e = [order |-> o, status |-> "filled"] /\ Fill(o)
        <5>1. e \in events'
          BY <2>1, <3>2
        <5>2. CASE FillPartly(o)
          <6>1. events' = events \cup {[order |-> o, status |-> "partially_filled"]}
            BY <5>2 DEF FillPartly
          <6>2. e = [order |-> o, status |-> "partially_filled"]
            BY <3>2, <5>1, <6>1
          <6> QED
            BY <6>2
        <5>3. CASE Fill(o)
          <6>1. events' = events \cup {[order |-> o, status |-> "filled"]}
            BY <5>3 DEF Fill
          <6>2. e = [order |-> o, status |-> "filled"]
            BY <3>2, <5>1, <6>1
          <6> QED
            BY <5>3, <6>2
        <5> QED
          BY <1>3, <5>2, <5>3
      <4>2. Fill(o) => n = Quantity[o]
        BY <2>3 DEF Fill, ReconcilerTypeOK
      <4> QED
        BY <2>3, <4>1, <4>2
    <3> QED
      BY <3>1, <3>2
  <2> QED
    BY <2>4, <2>5 DEF ToldInv
<1>4. ASSUME NEW c \in Reporter, NEW e \in Event, BeginCall(c, e)
      PROVE  ToldInv'
  <2>1. events' \cup {call'[x] : x \in Reporter} \subseteq events \cup {call[x] : x \in Reporter}
    BY <1>4 DEF BeginCall, ReconcilerTypeOK
  <2>2. UNCHANGED <<executed, closed, counted, status>>
    BY <1>4 DEF BeginCall
  <2> QED
    BY <2>1, <2>2 DEF ToldInv
<1>5. ASSUME NEW c \in Reporter, call' = [call EXCEPT ![c] = NoCall], events' = events
      PROVE  \A e \in events' \cup {call'[x] : x \in Reporter} :
                e \in events \cup {call[x] : x \in Reporter} \/ e = NoCall
  BY <1>5 DEF ReconcilerTypeOK
<1>6. ASSUME NEW c \in Reporter, TrackOrder(c)
      PROVE  ToldInv'
  <2>1. /\ status' = [status EXCEPT ![call[c].order] = "pending"]
        /\ UNCHANGED <<executed, closed, counted, events>>
        /\ call' = [call EXCEPT ![c] = NoCall]
    BY <1>6 DEF TrackOrder
  <2> QED
    BY <1>5, <2>1 DEF ToldInv, ReconcilerTypeOK, NoCall
<1>7. ASSUME NEW c \in Reporter, UpdateOrderFill(c)
      PROVE  ToldInv'
  <2> DEFINE o == call[c].order
  <2>1. /\ UNCHANGED <<executed, closed, events>>
        /\ call' = [call EXCEPT ![c] = NoCall]
        /\ o \in Order /\ call[c].status \in Status
    BY <1>7, CallType DEF UpdateOrderFill
  <2>2. \A e \in events' \cup {call'[x] : x \in Reporter} :
          /\ e.status = "filled" => executed'[e.order] = Quantity[e.order]
          /\ e.status = "cancelled" => /\ e.order \in closed'
                                       /\ executed'[e.order] # Quantity[e.order]
    BY <1>5, <2>1 DEF ToldInv, NoCall
  <2>3. ASSUME NEW x \in Order
        PROVE  /\ x \in counted' => executed[x] = Quantity[x]
               /\ status'[x] = "filled" => x \in counted'
               /\ status'[x] = "cancelled" => x \in closed /\ executed[x] # Quantity[x]
    <3>1. /\ call[c].status = "filled" => executed[o] = Quantity[o]
          /\ call[c].status = "cancelled" => o \in closed /\ executed[o] # Quantity[o]
      BY DEF ToldInv
    <3>2. CASE status[o] = "unknown"
      BY <1>7, <3>2 DEF UpdateOrderFill, ToldInv
    <3>3. CASE status[o] # "unknown"
      <4>1. /\ status' = [status EXCEPT ![o] = call[c].status]
            /\ counted' = IF call[c].status = "filled" THEN counted \cup {o} ELSE counted
        BY <1>7, <3>3 DEF UpdateOrderFill
      <4> HIDE DEF o
      <4> QED
        BY <2>1, <3>1, <4>1 DEF ToldInv, ReconcilerTypeOK
    <3> QED
      BY <3>2, <3>3
  <2> QED
    BY <2>1, <2>2, <2>3 DEF ToldInv
<1>8. CASE Loop \/ FetchOk \/ FetchError \/ UNCHANGED reconcilerVars
  <2>1. UNCHANGED <<executed, closed, counted, status, events, call>>
    BY <1>8 DEF Loop, StartIteration, Visit, Reconcile, ReconcileFailed, Report, EndVisit, FetchOk,
       FetchError, reconcilerVars
  <2> QED
    BY <2>1 DEF ToldInv
<1> QED
  BY <1>1, <1>2, <1>3, <1>4, <1>6, <1>7, <1>8 DEF ReconcilerNext, ExchangeStep, Deliver

\* How a position is off, order by order: off[o] is what is wrong for o, and twice[k]
\* what fills of k counted once more have added. An order whose fill is not counted
\* can be off by what was executed of it since the last comparison, one whose fill is
\* counted by all of it, and one that was settled by nothing.
Off(off, twice) ==
  /\ off \in [Order -> Int] /\ twice \in [Key -> Int]
  /\ \A k \in Key : /\ quantity[k] = Account(k) + SumFunctionOnSet(off, OrdersOf(k)) + twice[k]
                    /\ Abs(twice[k]) <= again[k]
  /\ \A o \in Order :
        /\ o \in counted => Within(off[o], Quantity[o])
        /\ o \notin counted => Within(-off[o], executed[o])
        /\ o \notin unsettled[KeyOf[o]] =>
              off[o] = 0 /\ o \in closed /\ (executed[o] = Quantity[o] => o \in counted)

\* What the exchange had executed when it answered the fetch: what it has now, for an
\* order the reconciler knew to be final. The lock keeps it from learning more.
Fetched(seen) ==
  /\ seen \in [Order -> Int]
  /\ answer.positions[entry] = SumFunctionOnSet(seen, OrdersOf(entry))
  /\ \A o \in OrdersOf(entry) :
        /\ Within(seen[o], executed[o])
        /\ o \in counted \/ status[o] \in Final => seen[o] = executed[o]

DriftInv ==
  /\ \A k \in Key : unsettled[k] \subseteq OrdersOf(k)
  /\ \E off, twice : Off(off, twice)
  /\ stage = "answer" /\ answer.ok => \E seen : Fetched(seen)

\* A sum over the orders of a key when one order changes.
LEMMA OneOrder ==
  ASSUME NEW f \in [Order -> Int], NEW g \in [Order -> Int], NEW o \in Order, NEW k,
         \A x \in Order \ {o} : g[x] = f[x]
  PROVE  /\ SumFunctionOnSet(f, OrdersOf(k)) \in Int
         /\ SumFunctionOnSet(g, OrdersOf(k)) =
              SumFunctionOnSet(f, OrdersOf(k)) + (IF KeyOf[o] = k THEN g[o] - f[o] ELSE 0)
<1>1. IsFiniteSet(OrdersOf(k)) /\ OrdersOf(k) \subseteq Order
  BY ReconcilerAssumption, FS_Subset DEF OrdersOf
<1>2. SumFunctionOnSet(f, OrdersOf(k)) \in Int
  BY <1>1, SumType
<1>3. CASE KeyOf[o] = k
  <2>1. o \in OrdersOf(k)
    BY <1>3 DEF OrdersOf
  <2>2. /\ \A x \in OrdersOf(k) : f[x] \in Int /\ g[x] \in Int
        /\ \A x \in OrdersOf(k) \ {o} : g[x] = f[x]
    BY <1>1
  <2>3. SumFunctionOnSet(g, OrdersOf(k)) = SumFunctionOnSet(f, OrdersOf(k)) + (g[o] - f[o])
    BY <1>1, <2>1, <2>2, SumChange
  <2> QED
    BY <1>2, <1>3, <2>3
<1>4. CASE KeyOf[o] # k
  <2>1. o \notin OrdersOf(k)
    BY <1>4 DEF OrdersOf
  <2>2. \A x \in OrdersOf(k) : f[x] \in Int /\ g[x] = f[x]
    BY <1>1, <2>1
  <2>3. SumFunctionOnSet(g, OrdersOf(k)) = SumFunctionOnSet(f, OrdersOf(k))
    BY <1>1, <2>2, SumSame
  <2> QED
    BY <1>2, <1>4, <2>3
<1> QED
  BY <1>3, <1>4

\* Steps that change nothing Off is about.
LEMMA OffKept ==
  ASSUME NEW off, NEW twice, Off(off, twice), closed \subseteq closed',
         UNCHANGED <<executed, quantity, unsettled, counted, again>>
  PROVE  Off(off, twice)'
BY DEF Off, Account

\* The exchange executes more: the position is off by as much more.
LEMMA OffExecuted ==
  ASSUME ReconcilerTypeOK, ToldInv, NEW off, NEW twice, Off(off, twice),
         NEW o \in Order, FillPartly(o) \/ Fill(o)
  PROVE  \E off1 : Off(off1, twice)'
<1>1. PICK n \in Int : /\ executed' = [executed EXCEPT ![o] = n]
                       /\ o \notin closed /\ executed[o] # Quantity[o]
                       /\ Within(executed[o], n) /\ Within(n, Quantity[o])
                       /\ n = Quantity[o] => o \in closed'
                       /\ closed \subseteq closed'
                       /\ UNCHANGED <<quantity, unsettled, counted, again>>
  BY Executed
<1>2. /\ off \in [Order -> Int] /\ twice \in [Key -> Int] /\ executed \in [Order -> Int]
      /\ executed[o] \in Int /\ off[o] \in Int
  BY DEF Off, ReconcilerTypeOK
<1>a. PICK off1 \in [Order -> Int] : /\ off1[o] = off[o] - (n - executed[o])
                                     /\ \A x \in Order \ {o} : off1[x] = off[x]
  <2>1. [off EXCEPT ![o] = @ - (n - executed[o])] \in [Order -> Int]
    BY <1>2
  <2> QED
    BY <1>2, <2>1
<1>3. /\ off1 \in [Order -> Int] /\ executed' \in [Order -> Int]
      /\ off1[o] = off[o] - (n - executed[o]) /\ executed'[o] = n
      /\ \A x \in Order \ {o} : off1[x] = off[x] /\ executed'[x] = executed[x]
  BY <1>1, <1>2, <1>a
<1>4. ASSUME NEW k \in Key
      PROVE  /\ quantity'[k] = Account(k)' + SumFunctionOnSet(off1, OrdersOf(k)) + twice[k]
             /\ Abs(twice[k]) <= again'[k]
  <2>1. /\ quantity[k] = Account(k) + SumFunctionOnSet(off, OrdersOf(k)) + twice[k]
        /\ Abs(twice[k]) <= again[k]
    BY DEF Off
  <2>2. /\ Account(k) \in Int
        /\ Account(k)' = Account(k) + (IF KeyOf[o] = k THEN n - executed[o] ELSE 0)
    BY <1>2, <1>3, OneOrder DEF Account
  <2>3. /\ SumFunctionOnSet(off, OrdersOf(k)) \in Int
        /\ SumFunctionOnSet(off1, OrdersOf(k)) =
             SumFunctionOnSet(off, OrdersOf(k)) + (IF KeyOf[o] = k THEN -(n - executed[o]) ELSE 0)
    <3>1. /\ SumFunctionOnSet(off, OrdersOf(k)) \in Int
          /\ SumFunctionOnSet(off1, OrdersOf(k)) =
               SumFunctionOnSet(off, OrdersOf(k)) + (IF KeyOf[o] = k THEN off1[o] - off[o] ELSE 0)
      <4>1. \A x \in Order \ {o} : off1[x] = off[x]
        BY <1>3
      <4> QED
        BY ONLY <1>2, <1>3, <4>1, OneOrder
    <3>2. off1[o] - off[o] = -(n - executed[o])
      BY <1>2, <1>3
    <3> QED
      BY <3>1, <3>2
  <2>4. twice[k] \in Int
    BY <1>2
  <2> QED
    BY <1>1, <1>2, <2>1, <2>2, <2>3, <2>4
<1>5. o \notin counted /\ o \in unsettled[KeyOf[o]]
  BY <1>1 DEF ToldInv, Off
<1>6. Within(-off1[o], executed'[o])
  <2>1. Within(-off[o], executed[o])
    BY <1>5 DEF Off
  <2>2. Quantity[o] \in Int
    BY ReconcilerAssumption
  <2> QED
    BY <1>1, <1>2, <1>3, <2>1, <2>2 DEF Within
<1>7. ASSUME NEW x \in Order
      PROVE  /\ x \in counted' => Within(off1[x], Quantity[x])
             /\ x \notin counted' => Within(-off1[x], executed'[x])
             /\ x \notin unsettled'[KeyOf[x]] =>
                  /\ off1[x] = 0 /\ x \in closed'
                  /\ executed'[x] = Quantity[x] => x \in counted'
  <2>1. CASE x = o
    BY <1>1, <1>5, <1>6, <2>1
  <2>2. CASE x # o
    BY <1>1, <1>3, <2>2 DEF Off
  <2> QED
    BY <2>1, <2>2
<1>8. Off(off1, twice)'
  BY <1>2, <1>3, <1>4, <1>7 DEF Off
<1> QED
  BY <1>8

\* A fill is counted, for the first time or once more.
LEMMA OffCounted ==
  ASSUME ReconcilerTypeOK, ToldInv, NEW off, NEW twice, Off(off, twice),
         NEW c \in Reporter, UpdateOrderFill(c),
         call[c].status = "filled", status[call[c].order] # "unknown"
  PROVE  \E off1, twice1 : Off(off1, twice1)'
<1> DEFINE o == call[c].order
           k == KeyOf[o]
<1>1. /\ o \in Order /\ k \in Key /\ Quantity[o] \in Int
      /\ executed[o] = Quantity[o]
  BY CallType DEF UpdateOrderFill, ToldInv
<1>2. /\ quantity' = [quantity EXCEPT ![k] = @ + Quantity[o]]
      /\ counted' = counted \cup {o}
      /\ again' = IF o \in counted THEN [again EXCEPT ![k] = @ + Abs(Quantity[o])] ELSE again
      /\ UNCHANGED <<executed, closed, unsettled>>
  BY DEF UpdateOrderFill, Counted
<1>3. /\ off \in [Order -> Int] /\ twice \in [Key -> Int]
      /\ quantity \in [Key -> Int] /\ again \in [Key -> Nat]
      /\ off[o] \in Int /\ twice[k] \in Int
  BY <1>1 DEF Off, ReconcilerTypeOK
<1>4. \A x \in Key : /\ Account(x) \in Int /\ Account(x)' = Account(x)
                     /\ SumFunctionOnSet(off, OrdersOf(x)) \in Int
                     /\ quantity[x] = Account(x) + SumFunctionOnSet(off, OrdersOf(x)) + twice[x]
                     /\ Abs(twice[x]) <= again[x]
  BY <1>1, <1>2, <1>3, AccountType, OneOrder DEF Off, Account
<1>5. CASE o \notin counted
  <2>1. PICK off1 \in [Order -> Int] : /\ off1[o] = off[o] + Quantity[o]
                                       /\ \A x \in Order \ {o} : off1[x] = off[x]
    <3>1. [off EXCEPT ![o] = @ + Quantity[o]] \in [Order -> Int]
      BY <1>1, <1>3
    <3> QED
      BY <1>1, <1>3, <3>1
  <2> HIDE DEF o
  <2>2. ASSUME NEW x \in Key
        PROVE  /\ quantity'[x] = Account(x)' + SumFunctionOnSet(off1, OrdersOf(x)) + twice[x]
               /\ Abs(twice[x]) <= again'[x]
    <3>1. SumFunctionOnSet(off1, OrdersOf(x)) =
            SumFunctionOnSet(off, OrdersOf(x)) + (IF k = x THEN off1[o] - off[o] ELSE 0)
      BY <1>1, <1>3, <2>1, OneOrder
    <3>2. off1[o] - off[o] = Quantity[o]
      BY <1>1, <1>3, <2>1
    <3>3. quantity'[x] = quantity[x] + (IF k = x THEN Quantity[o] ELSE 0)
      BY <1>1, <1>2, <1>3
    <3>4. again'[x] = again[x] /\ twice[x] \in Int
      BY <1>2, <1>3, <1>5
    <3> HIDE DEF k
    <3> QED
      BY <1>1, <1>4, <3>1, <3>2, <3>3, <3>4
  <2>3. Within(off1[o], Quantity[o]) /\ o \in unsettled[KeyOf[o]]
    <3>1. Within(-off[o], Quantity[o])
      BY <1>1, <1>5 DEF Off
    <3> QED
      BY <1>1, <1>3, <1>5, <2>1, <3>1 DEF Off, Within
  <2>4. ASSUME NEW x \in Order
        PROVE  /\ x \in counted' => Within(off1[x], Quantity[x])
               /\ x \notin counted' => Within(-off1[x], executed'[x])
               /\ x \notin unsettled'[KeyOf[x]] =>
                    /\ off1[x] = 0 /\ x \in closed'
                    /\ executed'[x] = Quantity[x] => x \in counted'
    <3>1. CASE x = o
      BY <1>2, <2>3, <3>1
    <3>2. CASE x # o
      BY <1>2, <2>1, <3>2 DEF Off
    <3> QED
      BY <3>1, <3>2
  <2>5. Off(off1, twice)'
    BY <1>3, <2>1, <2>2, <2>4 DEF Off
  <2> QED
    BY <2>5
<1>6. CASE o \in counted
  <2>1. PICK twice1 \in [Key -> Int] : /\ twice1[k] = twice[k] + Quantity[o]
                                       /\ \A x \in Key \ {k} : twice1[x] = twice[x]
    <3>1. [twice EXCEPT ![k] = @ + Quantity[o]] \in [Key -> Int]
      BY <1>1, <1>3
    <3> QED
      BY <1>1, <1>3, <3>1
  <2> HIDE DEF o, k
  <2>2. ASSUME NEW x \in Key
        PROVE  /\ quantity'[x] = Account(x)' + SumFunctionOnSet(off, OrdersOf(x)) + twice1[x]
               /\ Abs(twice1[x]) <= again'[x]
    <3>1. CASE x = k
      <4>1. quantity'[x] = quantity[x] + Quantity[o] /\ again'[x] = again[x] + Abs(Quantity[o])
        BY <1>1, <1>2, <1>3, <1>6, <3>1
      <4>2. Abs(twice1[x]) <= Abs(twice[x]) + Abs(Quantity[o])
            /\ Abs(twice[x]) \in Int /\ Abs(twice1[x]) \in Int /\ Abs(Quantity[o]) \in Int
        BY <1>1, <1>3, <2>1, <3>1 DEF Abs
      <4>3. again[x] \in Int
        BY <1>3
      <4>4. quantity'[x] = Account(x)' + SumFunctionOnSet(off, OrdersOf(x)) + twice1[x]
        BY <1>1, <1>3, <1>4, <2>1, <3>1, <4>1
      <4>5. Abs(twice[x]) <= again[x]
        BY <1>4
      <4> QED
        BY <4>1, <4>2, <4>3, <4>4, <4>5
    <3>2. CASE x # k
      BY <1>2, <1>3, <1>4, <1>6, <2>1, <3>2
    <3> QED
      BY <3>1, <3>2
  <2>3. counted' = counted
    BY <1>2, <1>6
  <2>4. Off(off, twice1)'
    BY <1>2, <1>3, <2>1, <2>2, <2>3 DEF Off
  <2> QED
    BY <2>4
<1> QED
  BY <1>5, <1>6

\* A comparison with the exchange replaces what is off for the orders of the key by
\* what the exchange executed since it answered.
LEMMA OffReconciled ==
  ASSUME ReconcilerTypeOK, ToldInv, NEW off, NEW twice, Off(off, twice),
         NEW seen, Fetched(seen), Reconcile
  PROVE  \E off1, twice1 : Off(off1, twice1)'
<1>1. /\ UNCHANGED <<executed, closed, counted>> /\ entry \in Key
      /\ quantity' = [quantity EXCEPT ![entry] =
                        IF Reported /\ Discrepancy THEN answer.positions[entry] ELSE @]
      /\ unsettled' = [unsettled EXCEPT ![entry] =
                         IF Reported THEN {o \in OrdersOf(entry) : status[o] \notin Final} ELSE @]
      /\ again' = [again EXCEPT ![entry] = IF Reported THEN 0 ELSE @]
  BY DEF Reconcile, EndVisit, ReconcilerTypeOK
<1>2. /\ off \in [Order -> Int] /\ twice \in [Key -> Int] /\ seen \in [Order -> Int]
      /\ executed \in [Order -> Int] /\ quantity \in [Key -> Int]
      /\ unsettled \in [Key -> SUBSET Order] /\ again \in [Key -> Nat]
      /\ answer.positions[entry] \in Int
  BY <1>1 DEF Off, Fetched, ReconcilerTypeOK
<1>3. CASE ~Reported
  <2>1. quantity' = quantity /\ unsettled' = unsettled /\ again' = again
    BY <1>1, <1>2, <1>3
  <2> QED
    BY <1>1, <2>1, OffKept
<1>4. CASE Reported
  <2>1. PICK off1 \in [Order -> Int] :
           \A o \in Order : off1[o] = IF KeyOf[o] = entry THEN seen[o] - executed[o] ELSE off[o]
    <3>1. [o \in Order |-> IF KeyOf[o] = entry THEN seen[o] - executed[o] ELSE off[o]]
            \in [Order -> Int]
      BY <1>2
    <3> QED
      BY <3>1
  <2>2. PICK twice1 \in [Key -> Int] :
           \A k \in Key : twice1[k] = IF k = entry THEN 0 ELSE twice[k]
    <3>1. [k \in Key |-> IF k = entry THEN 0 ELSE twice[k]] \in [Key -> Int]
      BY <1>2
    <3> QED
      BY <3>1
  <2>3. quantity'[entry] = answer.positions[entry]
    BY <1>1, <1>2, <1>4 DEF Discrepancy, Abs
  <2>4. ASSUME NEW k \in Key
        PROVE  /\ quantity'[k] = Account(k)' + SumFunctionOnSet(off1, OrdersOf(k)) + twice1[k]
               /\ Abs(twice1[k]) <= again'[k]
    <3>1. Account(k)' = Account(k) /\ Account(k) \in Int
      BY <1>1, AccountType DEF Account
    <3>2. IsFiniteSet(OrdersOf(k)) /\ OrdersOf(k) \subseteq Order
      BY AccountType
    <3>3. CASE k = entry
      <4>1. \A o \in OrdersOf(k) : /\ seen[o] \in Int /\ executed[o] \in Int
                                   /\ off1[o] = seen[o] - executed[o]
        BY <1>2, <2>1, <3>2, <3>3 DEF OrdersOf
      <4>2. SumFunctionOnSet(off1, OrdersOf(k)) =
              SumFunctionOnSet(seen, OrdersOf(k)) - SumFunctionOnSet(executed, OrdersOf(k))
        BY <3>2, <4>1, SumDifference
      <4>3. SumFunctionOnSet(seen, OrdersOf(k)) = quantity'[k]
        BY <2>3, <3>3 DEF Fetched
      <4>4. quantity'[k] \in Int /\ twice1[k] = 0 /\ again'[k] = 0
        BY <1>1, <1>2, <1>4, <2>2, <2>3, <3>3
      <4> QED
        BY <3>1, <4>2, <4>3, <4>4 DEF Account, Abs
    <3>4. CASE k # entry
      <4>1. \A o \in OrdersOf(k) : off[o] \in Int /\ off1[o] = off[o]
        BY <1>2, <2>1, <3>2, <3>4 DEF OrdersOf
      <4>2. SumFunctionOnSet(off1, OrdersOf(k)) = SumFunctionOnSet(off, OrdersOf(k))
        BY <3>2, <4>1, SumSame
      <4>3. quantity'[k] = quantity[k] /\ again'[k] = again[k] /\ twice1[k] = twice[k]
        BY <1>1, <1>2, <2>2, <3>4
      <4> QED
        BY <3>1, <4>2, <4>3 DEF Off
    <3> QED
      BY <3>3, <3>4
  <2>5. ASSUME NEW o \in Order
        PROVE  /\ o \in counted' => Within(off1[o], Quantity[o])
               /\ o \notin counted' => Within(-off1[o], executed'[o])
               /\ o \notin unsettled'[KeyOf[o]] =>
                    /\ off1[o] = 0 /\ o \in closed'
                    /\ executed'[o] = Quantity[o] => o \in counted'
    <3>0. Quantity[o] \in Int /\ executed[o] \in Int /\ seen[o] \in Int /\ KeyOf[o] \in Key
      BY <1>2, ReconcilerAssumption
    <3>1. CASE KeyOf[o] = entry
      <4>1. /\ o \in OrdersOf(entry) /\ off1[o] = seen[o] - executed[o]
            /\ Within(seen[o], executed[o])
            /\ o \in counted \/ status[o] \in Final => seen[o] = executed[o]
        BY <2>1, <3>1 DEF OrdersOf, Fetched
      <4>2. o \notin unsettled'[KeyOf[o]] => status[o] \in Final
        BY <1>1, <1>2, <1>4, <3>1, <4>1
      <4>3. o \in counted => off1[o] = 0
        BY <3>0, <4>1
      <4>4. Within(0, Quantity[o])
        BY <3>0 DEF Within
      <4>5. Within(-off1[o], executed[o])
        BY <3>0, <4>1 DEF Within
      <4>6. status[o] \in Final =>
              off1[o] = 0 /\ o \in closed /\ (executed[o] = Quantity[o] => o \in counted)
        BY <3>0, <4>1 DEF ToldInv, Final
      <4> QED
        BY <1>1, <4>2, <4>3, <4>4, <4>5, <4>6
    <3>2. CASE KeyOf[o] # entry
      <4>1. unsettled'[KeyOf[o]] = unsettled[KeyOf[o]] /\ off1[o] = off[o]
        BY <1>1, <1>2, <2>1, <3>0, <3>2
      <4> QED
        BY <1>1, <4>1 DEF Off
    <3> QED
      BY <3>1, <3>2
  <2>6. Off(off1, twice1)'
    BY <2>1, <2>2, <2>4, <2>5 DEF Off
  <2> QED
    BY <2>6
<1> QED
  BY <1>3, <1>4

\* Nothing has been executed.
LEMMA InitDrift == ReconcilerInit => DriftInv
<1> SUFFICES ASSUME ReconcilerInit PROVE DriftInv
  OBVIOUS
<1>1. PICK off \in [Order -> Int], twice \in [Key -> Int] :
         (\A o \in Order : off[o] = 0) /\ (\A k \in Key : twice[k] = 0)
  <2>1. /\ [o \in Order |-> 0] \in [Order -> Int] /\ [k \in Key |-> 0] \in [Key -> Int]
    OBVIOUS
  <2> QED
    BY <2>1
<1>2. ASSUME NEW k \in Key
      PROVE  /\ quantity[k] = Account(k) + SumFunctionOnSet(off, OrdersOf(k)) + twice[k]
             /\ Abs(twice[k]) <= again[k]
  <2>1. IsFiniteSet(OrdersOf(k)) /\ OrdersOf(k) \subseteq Order
    BY ReconcilerAssumption, FS_Subset DEF OrdersOf
  <2>2. \A o \in OrdersOf(k) : executed[o] = 0 /\ off[o] = 0
    BY <1>1, <2>1 DEF ReconcilerInit
  <2>3. Account(k) = 0 /\ SumFunctionOnSet(off, OrdersOf(k)) = 0
    BY <2>1, <2>2, SumZero DEF Account
  <2>4. quantity[k] = 0 /\ again[k] = 0 /\ twice[k] = 0
    BY <1>1 DEF ReconcilerInit
  <2> QED
    BY <2>3, <2>4 DEF Abs
<1>3. \A o \in Order : /\ o \notin counted /\ Within(-off[o], executed[o])
                       /\ o \in unsettled[KeyOf[o]]
  BY <1>1, ReconcilerAssumption DEF ReconcilerInit, Within, OrdersOf
<1>4. Off(off, twice)
  BY <1>1, <1>2, <1>3 DEF Off
<1> QED
  BY <1>4 DEF ReconcilerInit, DriftInv

\* Every step moves some order's offset by what it adds to the drift.
LEMMA NextDrift ==
  ReconcilerTypeOK /\ ToldInv /\ DriftInv /\ [ReconcilerNext]_reconcilerVars => DriftInv'
<1> SUFFICES ASSUME ReconcilerTypeOK, ToldInv, DriftInv, [ReconcilerNext]_reconcilerVars PROVE DriftInv'
  OBVIOUS
<1>1. (\A k \in Key : unsettled[k] \subseteq OrdersOf(k))'
  <2>1. \A k \in Key : unsettled'[k] \subseteq unsettled[k] \/ unsettled'[k] \subseteq OrdersOf(k)
    <3>1. CASE Reconcile
      BY <3>1 DEF Reconcile, ReconcilerTypeOK
    <3>2. CASE ~Reconcile
      <4>1. unsettled' = unsettled
        BY <3>2 DEF ReconcilerNext, ExchangeStep, Place, FillPartly, Fill, Cancel, Repeat, BeginCall, Deliver,
           TrackOrder, UpdateOrderFill, Loop, StartIteration, Visit, ReconcileFailed, Report, FetchOk,
           FetchError, reconcilerVars
      <4> QED
        BY <4>1
    <3> QED
      BY <3>1, <3>2
  <2> QED
    BY <2>1 DEF DriftInv, OrdersOf
<1>2. PICK off, twice : Off(off, twice)
  BY DEF DriftInv
<1>3. \E off1, twice1 : Off(off1, twice1)'
  <2>1. ASSUME NEW o \in Order, FillPartly(o) \/ Fill(o)
        PROVE  \E off1, twice1 : Off(off1, twice1)'
    BY <1>2, <2>1, OffExecuted
  <2>2. ASSUME NEW c \in Reporter, UpdateOrderFill(c)
        PROVE  \E off1, twice1 : Off(off1, twice1)'
    <3>1. CASE call[c].status = "filled" /\ status[call[c].order] # "unknown"
      BY <1>2, <2>2, <3>1, OffCounted
    <3>2. CASE ~(call[c].status = "filled" /\ status[call[c].order] # "unknown")
      <4>1. UNCHANGED <<executed, closed, unsettled, counted, again>>
        BY <2>2, <3>2 DEF UpdateOrderFill
      <4>2. quantity' = quantity
        <5>1. \A k \in Key : quantity[k] \in Int /\ quantity[k] + 0 = quantity[k]
          BY DEF ReconcilerTypeOK
        <5>2. CASE status[call[c].order] = "unknown"
          BY <2>2, <5>2 DEF UpdateOrderFill
        <5>3. CASE status[call[c].order] # "unknown"
          <6>1. quantity' = [quantity EXCEPT ![KeyOf[call[c].order]] = @ + 0]
            BY <2>2, <3>2, <5>3 DEF UpdateOrderFill, Counted
          <6>2. KeyOf[call[c].order] \in Key
            BY <2>2, CallType DEF UpdateOrderFill
          <6> QED
            BY <5>1, <6>1, <6>2 DEF ReconcilerTypeOK
        <5> QED
          BY <5>2, <5>3
      <4> QED
        BY <1>2, <4>1, <4>2, OffKept
    <3> QED
      BY <3>1, <3>2
  <2>3. CASE Reconcile
    <3>1. PICK seen : Fetched(seen)
      BY <2>3 DEF DriftInv, Reconcile, EndVisit
    <3> QED
      BY <1>2, <2>3, <3>1, OffReconciled
  <2>4. ASSUME closed \subseteq closed',
               UNCHANGED <<executed, quantity, unsettled, counted, again>>
        PROVE  \E off1, twice1 : Off(off1, twice1)'
    BY <1>2, <2>4, OffKept
  <2>5. ASSUME NEW o \in Order, Place(o) \/ Cancel(o) \/ Repeat(o)
        PROVE  \E off1, twice1 : Off(off1, twice1)'
    BY <2>4, <2>5 DEF Place, Cancel, Repeat
  <2>6. ASSUME NEW c \in Reporter, TrackOrder(c) \/ \E e \in Event : BeginCall(c, e)
        PROVE  \E off1, twice1 : Off(off1, twice1)'
    BY <2>4, <2>6 DEF TrackOrder, BeginCall
  <2>7. CASE \/ StartIteration \/ (\E k \in Key : Visit(k)) \/ ReconcileFailed \/ Report
             \/ FetchOk \/ FetchError \/ UNCHANGED reconcilerVars
    BY <2>4, <2>7 DEF StartIteration, Visit, ReconcileFailed, EndVisit, Report, FetchOk, FetchError, reconcilerVars
  <2> QED
    BY <2>1, <2>2, <2>3, <2>5, <2>6, <2>7 DEF ReconcilerNext, ExchangeStep, Deliver, Loop
<1>4. (stage = "answer" /\ answer.ok => \E seen : Fetched(seen))'
  <2> SUFFICES ASSUME stage' = "answer", answer'.ok PROVE \E seen : Fetched(seen)'
    OBVIOUS
  <2>1. CASE FetchOk
    <3>1. PICK seen \in [Order -> Int] : seen = executed
      BY DEF ReconcilerTypeOK
    <3>2. answer'.positions[entry] = Account(entry)
      BY <2>1 DEF FetchOk, ReconcilerTypeOK
    <3>3. \A o \in Order : executed[o] \in Int /\ Within(executed[o], executed[o])
      BY DEF Within, ReconcilerTypeOK
    <3>4. UNCHANGED <<executed, status, counted, entry>>
      BY <2>1 DEF FetchOk
    <3>5. Fetched(seen)'
      BY <3>1, <3>2, <3>3, <3>4 DEF Fetched, Account, OrdersOf
    <3> QED
      BY <3>5
  <2>2. CASE ~FetchOk
    <3>1. stage = "answer" /\ UNCHANGED <<answer, entry>>
      BY <2>2 DEF ReconcilerNext, ExchangeStep, Place, FillPartly, Fill, Cancel, Repeat, BeginCall, Deliver,
         TrackOrder, UpdateOrderFill, Loop, StartIteration, Visit, Reconcile, ReconcileFailed, EndVisit,
         Report, FetchError, NoAnswer, reconcilerVars
    <3>2. PICK seen : Fetched(seen)
      BY <3>1 DEF DriftInv
    <3>3. \A o \in OrdersOf(entry) :
             /\ Within(seen[o], executed'[o])
             /\ o \in counted' \/ status'[o] \in Final => seen[o] = executed'[o]
      <4>1. ASSUME NEW o \in OrdersOf(entry), UNCHANGED <<executed, counted, status>>
            PROVE  /\ Within(seen[o], executed'[o])
                   /\ o \in counted' \/ status'[o] \in Final => seen[o] = executed'[o]
        BY <3>2, <4>1 DEF Fetched
      <4>2. ASSUME NEW x \in Order, FillPartly(x) \/ Fill(x), NEW o \in OrdersOf(entry)
            PROVE  /\ Within(seen[o], executed'[o])
                   /\ o \in counted' \/ status'[o] \in Final => seen[o] = executed'[o]
        <5>1. PICK n \in Int : /\ executed' = [executed EXCEPT ![x] = n]
                               /\ x \notin closed /\ executed[x] # Quantity[x]
                               /\ Within(executed[x], n) /\ UNCHANGED <<status, counted>>
          BY <4>2, Executed
        <5>2. /\ o \in Order /\ executed[o] \in Int /\ seen[o] \in Int
              /\ Within(seen[o], executed[o])
              /\ o \in counted \/ status[o] \in Final => seen[o] = executed[o]
          BY <3>2 DEF Fetched, ReconcilerTypeOK, OrdersOf
        <5>3. CASE o = x
          <6>1. o \notin counted /\ status[o] \notin Final
            BY <5>1, <5>3 DEF ToldInv, Final
          <6>2. executed'[o] = n
            BY <5>1, <5>3 DEF ReconcilerTypeOK
          <6>3. Within(seen[o], n)
            BY <5>1, <5>2, <5>3 DEF Within
          <6> QED
            BY <5>1, <6>1, <6>2, <6>3
        <5>4. CASE o # x
          BY <5>1, <5>2, <5>4 DEF ReconcilerTypeOK
        <5> QED
          BY <5>3, <5>4
      <4>3. ASSUME NEW c \in Reporter, TrackOrder(c) \/ UpdateOrderFill(c), NEW o \in OrdersOf(entry)
            PROVE  /\ Within(seen[o], executed'[o])
                   /\ o \in counted' \/ status'[o] \in Final => seen[o] = executed'[o]
        <5>1. /\ executed' = executed /\ ~Locked(KeyOf[call[c].order])
              /\ status' = status \/ \E s : status' = [status EXCEPT ![call[c].order] = s]
              /\ counted' \subseteq counted \cup {call[c].order}
          BY <4>3 DEF TrackOrder, UpdateOrderFill
        <5>2. KeyOf[call[c].order] # entry
          BY <3>1, <5>1 DEF Locked
        <5>3. o # call[c].order
          BY <5>2 DEF OrdersOf
        <5>4. status'[o] = status[o] /\ (o \in counted' => o \in counted)
          BY <5>1, <5>3 DEF ReconcilerTypeOK, OrdersOf
        <5> QED
          BY <3>2, <5>1, <5>4 DEF Fetched
      <4>4. CASE UNCHANGED <<executed, counted, status>>
        BY <4>1, <4>4
      <4>5. CASE \/ \E o \in Order : Place(o) \/ Cancel(o) \/ Repeat(o)
                 \/ \E c \in Reporter, e \in Event : BeginCall(c, e)
                 \/ Loop \/ FetchOk \/ FetchError \/ UNCHANGED reconcilerVars
        <5>1. UNCHANGED <<executed, counted, status>>
          BY <4>5 DEF Place, Cancel, Repeat, BeginCall, Loop, StartIteration, Visit, Reconcile,
             ReconcileFailed, EndVisit, Report, FetchOk, FetchError, reconcilerVars
        <5> QED
          BY <4>4, <5>1
      <4> QED
        BY <4>2, <4>3, <4>5 DEF ReconcilerNext, ExchangeStep, Deliver
    <3>4. Fetched(seen)'
      BY <3>1, <3>2, <3>3 DEF Fetched, OrdersOf
    <3> QED
      BY <3>4
  <2> QED
    BY <2>1, <2>2
<1> QED
  BY <1>1, <1>3, <1>4 DEF DriftInv

\* Only what is placed is executed.
PlacedInv == \A o \in Order \ placed : executed[o] = 0

\* The exchange executes parts of placed orders.
LEMMA NextPlaced == ReconcilerTypeOK /\ PlacedInv /\ [ReconcilerNext]_reconcilerVars => PlacedInv'
<1> SUFFICES ASSUME ReconcilerTypeOK, PlacedInv, [ReconcilerNext]_reconcilerVars PROVE PlacedInv'
  OBVIOUS
<1>1. CASE \E o \in Order : FillPartly(o) \/ Fill(o)
  <2> PICK o \in Order : FillPartly(o) \/ Fill(o)
    BY <1>1
  <2>1. /\ o \in placed /\ placed' = placed
        /\ \E n : executed' = [executed EXCEPT ![o] = n]
    BY DEF FillPartly, Fill
  <2>2. \A x \in Order \ {o} : executed'[x] = executed[x]
    BY <2>1 DEF ReconcilerTypeOK
  <2> QED
    BY <2>1, <2>2 DEF PlacedInv
<1>2. ASSUME placed \subseteq placed', executed' = executed PROVE PlacedInv'
  BY <1>2 DEF PlacedInv
<1>3. CASE \E o \in Order : Place(o) \/ Cancel(o) \/ Repeat(o)
  BY <1>2, <1>3 DEF Place, Cancel, Repeat, exchange
<1>4. CASE \E c \in Reporter : (\E e \in Event : BeginCall(c, e)) \/ Deliver(c)
  BY <1>2, <1>4 DEF BeginCall, Deliver, TrackOrder, UpdateOrderFill, exchange
<1>5. CASE Loop \/ FetchOk \/ FetchError \/ UNCHANGED reconcilerVars
  BY <1>2, <1>5 DEF Loop, StartIteration, Visit, Reconcile, ReconcileFailed, Report, EndVisit,
     FetchOk, FetchError, reconcilerVars, exchange
<1> QED
  BY <1>1, <1>3, <1>4, <1>5 DEF ReconcilerNext, ExchangeStep

\* What the invariant bounds.
LEMMA DriftBound == ReconcilerTypeOK /\ PlacedInv /\ ToldInv /\ DriftInv => DriftBounded
<1> SUFFICES ASSUME ReconcilerTypeOK, PlacedInv, ToldInv, DriftInv, NEW k \in Key
             PROVE  Abs(quantity[k] - Account(k))
                      <= SumFunctionOnSet(Size, unsettled[k] \cap placed) + again[k]
  BY DEF DriftBounded
<1> DEFINE open == unsettled[k] \cap placed
<1>1. PICK off, twice : Off(off, twice)
  BY DEF DriftInv
<1>2. /\ IsFiniteSet(OrdersOf(k)) /\ OrdersOf(k) \subseteq Order /\ Account(k) \in Int
      /\ unsettled[k] \subseteq OrdersOf(k)
  BY AccountType DEF DriftInv
<1>3. open \subseteq OrdersOf(k) /\ IsFiniteSet(open)
  BY <1>2, FS_Subset
<1>4. \A o \in Order : off[o] \in Int /\ Size[o] \in Nat /\ Size[o] = Abs(Quantity[o])
                       /\ Quantity[o] \in Int /\ executed[o] \in Int
  BY <1>1, ReconcilerAssumption DEF Off, Size, Abs, ReconcilerTypeOK
<1>5. SumFunctionOnSet(off, OrdersOf(k)) = SumFunctionOnSet(off, open)
  <2>1. ASSUME NEW o \in OrdersOf(k) \ open PROVE off[o] = 0
    <3>1. CASE o \notin unsettled[k]
      BY <1>1, <1>2, <3>1 DEF Off, OrdersOf
    <3>2. CASE o \notin placed
      <4>1. executed[o] = 0 /\ Quantity[o] # 0
        BY <1>2, <3>2, ReconcilerAssumption DEF PlacedInv
      <4>2. o \notin counted
        BY <1>2, <4>1 DEF ToldInv
      <4>3. Within(-off[o], 0)
        BY <1>1, <1>2, <4>1, <4>2 DEF Off
      <4> QED
        BY <1>2, <1>4, <4>3 DEF Within
    <3> QED
      BY <3>1, <3>2
  <2>2. \A o \in OrdersOf(k) : off[o] \in Int
    BY <1>2, <1>4
  <2> QED
    BY <1>2, <1>3, <2>1, <2>2, SumSupport
<1>6. \A o \in Order : -Size[o] <= off[o] /\ off[o] <= Size[o]
  <2> SUFFICES ASSUME NEW o \in Order PROVE -Size[o] <= off[o] /\ off[o] <= Size[o]
    OBVIOUS
  <2>1. CASE o \in counted
    BY <1>1, <1>4, <2>1 DEF Off, Within, Abs
  <2>2. CASE o \notin counted
    <3>1. Within(-off[o], executed[o]) /\ Within(executed[o], Quantity[o])
      BY <1>1, <2>2 DEF Off, ToldInv
    <3> QED
      BY <1>4, <3>1 DEF Within, Abs
  <2> QED
    BY <2>1, <2>2
<1> DEFINE zero == [o \in Order |-> 0]
           minus == [o \in Order |-> -Size[o]]
           total == SumFunctionOnSet(off, open)
           bound == SumFunctionOnSet(Size, open)
<1>7. \A o \in open : /\ off[o] \in Int /\ Size[o] \in Int /\ minus[o] \in Int
                              /\ zero[o] = 0 /\ minus[o] = zero[o] - Size[o]
                              /\ minus[o] <= off[o] /\ off[o] <= Size[o]
  BY <1>2, <1>3, <1>4, <1>6
<1> HIDE DEF zero, minus, open
<1>8. total <= bound /\ SumFunctionOnSet(minus, open) <= total
  BY <1>3, <1>7, SumMonotone
<1>9. /\ SumFunctionOnSet(minus, open) = SumFunctionOnSet(zero, open) - bound
      /\ SumFunctionOnSet(zero, open) = 0
  BY <1>3, <1>7, SumDifference, SumZero
<1>10. total \in Int /\ bound \in Int
  BY <1>3, <1>7, SumType
<1>11. /\ quantity[k] = Account(k) + total + twice[k]
       /\ Abs(twice[k]) <= again[k] /\ twice[k] \in Int /\ again[k] \in Int
  BY <1>1, <1>5 DEF Off, ReconcilerTypeOK
<1> HIDE DEF total, bound
<1>12. Abs(quantity[k] - Account(k)) <= bound + again[k]
  BY <1>2, <1>8, <1>9, <1>10, <1>11 DEF Abs
<1> QED
  BY <1>12 DEF bound, open

\* However orders are executed, reported, fetched and compared: a tracked position is
\* off by no more than the orders placed that were not final when it was last compared
\* with the exchange, and the fills counted again since.
THEOREM Drift == ReconcilerSpec => []DriftBounded
<1>1. ReconcilerInit => ReconcilerTypeOK /\ VisitInv /\ PlacedInv /\ ToldInv /\ DriftInv
  BY InitTypeOK, InitTold, InitDrift DEF ReconcilerInit, PlacedInv
<1>2. ReconcilerTypeOK /\ VisitInv /\ PlacedInv /\ ToldInv /\ DriftInv /\ [ReconcilerNext]_reconcilerVars
        => (ReconcilerTypeOK /\ VisitInv /\ PlacedInv /\ ToldInv /\ DriftInv)'
  BY NextTypeOK, NextPlaced, NextTold, NextDrift
<1>3. ReconcilerTypeOK /\ PlacedInv /\ ToldInv /\ DriftInv => DriftBounded
  BY DriftBound
<1> QED
  BY <1>1, <1>2, <1>3, PTL DEF ReconcilerSpec
=============================================================================
