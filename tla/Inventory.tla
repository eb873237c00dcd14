------------------------------- MODULE Inventory -------------------------------
(***************************************************************************)
(* InventoryManager (crates/risk/src/inventory.rs) for one symbol: tasks   *)
(* that ask can_trade before they buy on one exchange and sell on another, *)
(* or calculate_hedge before they hedge, and report with update_position   *)
(* what an exchange holds once they have traded there.                     *)
(*                                                                         *)
(* Every get and every entry of an iteration locks one shard of the        *)
(* DashMap for itself, so each is a step. An entry that is missing counts  *)
(* as zero everywhere. What tasks do with an answer is external: the       *)
(* detector asks can_trade and nothing in the sources trades or reports.   *)
(***************************************************************************)
EXTENDS Integers, FiniteSetsExt, Functions

CONSTANTS Caller,       \* tasks that ask and trade
          Exchange,
          Quantity,     \* quantities of trades
          MaxInventory, \* max_inventory
          Threshold,    \* 0.01 in the code
          MaxHeld       \* bound: what an exchange may come to hold

None == "none"

ASSUME InventoryAssumption ==
  /\ IsFiniteSet(Caller) /\ IsFiniteSet(Exchange) /\ None \notin Exchange
  /\ IsFiniteSet(Quantity) /\ Quantity \subseteq Nat
  /\ MaxInventory \in Nat /\ Threshold \in Nat \ {0} /\ MaxHeld \in Nat

VARIABLES inventory,  \* positions: the inventory of each exchange
          held,       \* what each exchange really holds
          at,         \* at[c]: where c is in a call or in trading
          plan,       \* plan[c]: where and how much c buys and sells
          read,       \* read[c]: the buy side's inventory, then the net added up
          left,       \* left[c]: entries still to visit, or positions to report
          top,        \* top[c]: the exchange of the largest inventory seen, and it; or the
                      \*   exchange asked what it holds, and the answer
          askers, hedged, \* history: who has called, a hedge since the last reset
          midCall,  \* history: the last reset came in the middle of a call
          disturbed   \* history: the askers whose call an update overlaps with

history == <<askers, hedged, midCall>>
inventoryVars == <<inventory, held, at, plan, read, left, top, history, disturbed>>

\* target_inventory is zero in every constructor.
TargetInventory == 0

NoPlan == [buy |-> None, sell |-> None, quantity |-> 0]
NoTop == [exchange |-> None, quantity |-> 0]

Abs(q) == IF q < 0 THEN -q ELSE q

InventoryInit ==
  /\ inventory = [e \in Exchange |-> 0] /\ held = [e \in Exchange |-> 0]
  /\ at = [c \in Caller |-> "idle"]
  /\ plan = [c \in Caller |-> NoPlan]
  /\ read = [c \in Caller |-> 0]
  /\ left = [c \in Caller |-> {}]
  /\ top = [c \in Caller |-> NoTop]
  /\ askers = {} /\ hedged = FALSE /\ midCall = FALSE
  /\ disturbed = {}

Move(c, place) == at' = [at EXCEPT ![c] = place]

Begin(c) == /\ at[c] = "idle"
            /\ askers' = askers \cup {c}
            /\ UNCHANGED <<inventory, held, top, hedged, midCall, disturbed>>

\* An iteration over the map.
StartIteration(c, place) == /\ Move(c, place)
                            /\ left' = [left EXCEPT ![c] = Exchange]

\* A step of a call that only reads.
Reading == UNCHANGED <<inventory, held, history>>

Calling == {c \in Caller : at[c] \in {"sell", "net", "deviation", "largest"}}

\* The call returns what c trades, or nothing, and what c read goes with it.
Return(c, place, traded) ==
  /\ Move(c, place)
  /\ plan' = [plan EXCEPT ![c] = traded]
  /\ read' = [read EXCEPT ![c] = 0]
  /\ top' = [top EXCEPT ![c] = NoTop]
  /\ disturbed' = disturbed \ {c}

Refuse(c) == Return(c, "idle", NoPlan)

-----------------------------------------------------------------------------
(* can_trade *)

\* The call and its first get.
CanTradePair(c, b, s, q) ==
  /\ Begin(c)
  /\ b # s
  /\ plan' = [plan EXCEPT ![c] = [buy |-> b, sell |-> s, quantity |-> q]]
  /\ read' = [read EXCEPT ![c] = inventory[b]]
  /\ Move(c, "sell")
  /\ UNCHANGED left

\* Faulty variant: only a long inventory counts.
ExceedsLong(q) == q > MaxInventory

Exceeds(q) == Abs(q) > MaxInventory

\* The second get, and the limits of both exchanges.
CheckExchanges(c) ==
  /\ at[c] = "sell"
  /\ IF \/ Exceeds(read[c] + plan[c].quantity)
        \/ Exceeds(inventory[plan[c].sell] - plan[c].quantity)
     THEN Refuse(c) /\ UNCHANGED left
     ELSE /\ StartIteration(c, "net")
          /\ read' = [read EXCEPT ![c] = 0]
          /\ UNCHANGED <<plan, top, disturbed>>
  /\ Reading

\* get_net_inventory, for can_trade and for calculate_hedge.
ReadInventory(c, e) ==
  /\ at[c] \in {"net", "deviation"}
  /\ e \in left[c]
  /\ read' = [read EXCEPT ![c] = @ + inventory[e]]
  /\ left' = [left EXCEPT ![c] = @ \ {e}]
  /\ Reading
  /\ UNCHANGED <<at, plan, top, disturbed>>

\* The trade itself is taken to be net-neutral.
CheckNet(c) ==
  /\ at[c] = "net" /\ left[c] = {}
  /\ IF Exceeds(read[c]) THEN Refuse(c) ELSE Return(c, "approved", plan[c])
  /\ Reading
  /\ UNCHANGED left

-----------------------------------------------------------------------------
(* calculate_hedge, with auto_hedge_enabled *)

CalculateHedge(c) ==
  /\ Begin(c)
  /\ StartIteration(c, "deviation")
  /\ UNCHANGED <<plan, read>>

Deviation(c) == read[c] - TargetInventory

CheckDeviation(c) ==
  /\ at[c] = "deviation" /\ left[c] = {}
  /\ IF Abs(Deviation(c)) < Threshold
     THEN Refuse(c) /\ UNCHANGED left
     ELSE StartIteration(c, "largest") /\ UNCHANGED <<plan, read, top, disturbed>>
  /\ Reading

\* Faulty variant: signed comparison.
IsLargerSigned(q, best) == q > best

IsLarger(q, best) == Abs(q) > Abs(best)

\* The second iteration, for the exchange with most inventory.
FindEntry(c, e) ==
  /\ at[c] = "largest"
  /\ e \in left[c]
  /\ top' = IF IsLarger(inventory[e], top[c].quantity)
            THEN [top EXCEPT ![c] = [exchange |-> e, quantity |-> inventory[e]]]
            ELSE top
  /\ left' = [left EXCEPT ![c] = @ \ {e}]
  /\ Reading
  /\ UNCHANGED <<at, plan, read, disturbed>>

\* Faulty variant: an exchange is taken to have been found.
FoundAlways(c) == TRUE

\* hedge_exchange is still None if every inventory has become zero meanwhile.
Found(c) == top[c].exchange # None

\* Sell what is too much, or buy what is missing.
Hedge(c) ==
  IF Deviation(c) > 0
  THEN [NoPlan EXCEPT !.sell = top[c].exchange, !.quantity = Deviation(c)]
  ELSE [NoPlan EXCEPT !.buy = top[c].exchange, !.quantity = -Deviation(c)]

Recommend(c) ==
  /\ at[c] = "largest" /\ left[c] = {}
  /\ IF Found(c) THEN Return(c, "hedge", Hedge(c)) ELSE Refuse(c)
  /\ Reading
  /\ UNCHANGED left

-----------------------------------------------------------------------------
(* Trades and reports *)

Legs(c) == {plan[c].buy, plan[c].sell} \ {None}

\* What exchange e holds after the legs on the exchanges of filled.
HeldAfter(c, filled, e) ==
  IF e \notin filled THEN held[e]
  ELSE IF e = plan[c].buy THEN held[e] + plan[c].quantity ELSE held[e] - plan[c].quantity

\* What an approval or a hedge is for. One leg of a trade, or both, may fail.
Trade(c, filled) ==
  /\ at[c] \in {"approved", "hedge"}
  /\ filled \subseteq Legs(c)
  /\ \A e \in filled : Abs(HeldAfter(c, filled, e)) <= MaxHeld
  /\ held' = [e \in Exchange |-> HeldAfter(c, filled, e)]
  /\ hedged' = (hedged \/ at[c] = "hedge")
  /\ left' = [left EXCEPT ![c] = filled]
  /\ plan' = [plan EXCEPT ![c] = NoPlan]
  /\ Move(c, IF filled = {} THEN "idle" ELSE "report")
  /\ UNCHANGED <<inventory, read, top, askers, midCall, disturbed>>

\* c asks the exchange what it holds,
FetchPosition(c, e) ==
  /\ at[c] = "report"
  /\ e \in left[c]
  /\ top' = [top EXCEPT ![c] = [exchange |-> e, quantity |-> held[e]]]
  /\ Move(c, "insert")
  /\ UNCHANGED <<inventory, held, plan, read, left, history, disturbed>>

\* and calls update_position with the answer, which others may have outdated.
UpdateInventory(c) ==
  /\ at[c] = "insert"
  /\ inventory' = [inventory EXCEPT ![top[c].exchange] = top[c].quantity]
  /\ left' = [left EXCEPT ![c] = @ \ {top[c].exchange}]
  /\ Move(c, IF left'[c] = {} THEN "idle" ELSE "report")
  /\ top' = [top EXCEPT ![c] = NoTop]
  /\ disturbed' = disturbed \cup Calling
  /\ UNCHANGED <<held, plan, read, history>>

\* reset, by an operator who has closed all positions while nobody trades. Calls may
\* be in progress.
Reset ==
  /\ \A c \in Caller : at[c] \notin {"approved", "hedge", "report", "insert"}
  /\ held' = [e \in Exchange |-> 0]
  /\ inventory' = [e \in Exchange |-> 0]
  /\ hedged' = FALSE /\ midCall' = (Calling # {})
  /\ disturbed' = disturbed \cup Calling
  /\ UNCHANGED <<at, plan, read, left, top, askers>>

-----------------------------------------------------------------------------
InventoryNext ==
  \/ \E c \in Caller :
       \/ \E b, s \in Exchange, q \in Quantity : CanTradePair(c, b, s, q)
       \/ CheckExchanges(c) \/ CheckNet(c)
       \/ CalculateHedge(c) \/ CheckDeviation(c) \/ Recommend(c)
       \/ \E e \in Exchange : ReadInventory(c, e) \/ FindEntry(c, e) \/ FetchPosition(c, e)
       \/ UpdateInventory(c)
       \/ \E filled \in SUBSET Exchange : Trade(c, filled)
  \/ Reset

InventorySpec == InventoryInit /\ [][InventoryNext]_inventoryVars

-----------------------------------------------------------------------------
(* Properties *)

InventoryPlaces == {"idle", "sell", "net", "deviation", "largest", "approved", "hedge",
                    "report", "insert"}

\* Every variable has its type; a hedge names an exchange.
InventoryTypeOK ==
  /\ inventory \in [Exchange -> Int] /\ held \in [Exchange -> Int]
  /\ at \in [Caller -> InventoryPlaces]
  /\ plan \in [Caller -> [buy : Exchange \cup {None}, sell : Exchange \cup {None},
                          quantity : Nat]]
  /\ \A c \in Caller : at[c] = "hedge" => Legs(c) # {}
  /\ read \in [Caller -> Int]
  /\ left \in [Caller -> SUBSET Exchange]
  /\ top \in [Caller -> [exchange : Exchange \cup {None}, quantity : Int]]
  /\ askers \subseteq Caller /\ hedged \in BOOLEAN /\ midCall \in BOOLEAN
  /\ disturbed \subseteq Caller

Net(quantities) == SumFunctionOnSet(quantities, Exchange)

\* What can_trade is asked: the trade keeps both exchanges within the limit, and the
\* net is within it.
Allowed(p) == /\ Abs(inventory[p.buy] + p.quantity) <= MaxInventory
              /\ Abs(inventory[p.sell] - p.quantity) <= MaxInventory
              /\ Abs(Net(inventory)) <= MaxInventory

\* A hedge brings the net to the target, on an exchange that holds most.
BringsToTarget(p) ==
  LET change(e) == IF e = p.buy THEN p.quantity ELSE -p.quantity
  IN  \A e \in {p.buy, p.sell} \ {None} :
        /\ Net(inventory) + change(e) = TargetInventory
        /\ \A other \in Exchange : Abs(inventory[other]) <= Abs(inventory[e])

\* can_trade reads the map in three goes and calculate_hedge in two, entry by entry. A
\* call that no update overlaps with is exact all the same: can_trade approves what
\* is allowed and nothing else, and calculate_hedge recommends what brings the net
\* to the target unless it is there already.
UndisturbedCallsExact ==
  [][\A c \in Calling \ disturbed :
       /\ at'[c] = "approved" => Allowed(plan[c])
       /\ at[c] \in {"sell", "net"} /\ at'[c] = "idle" => ~Allowed(plan[c])
       /\ at'[c] = "hedge" => BringsToTarget(plan'[c])
       /\ at[c] \in {"deviation", "largest"} /\ at'[c] = "idle" =>
            Abs(Net(inventory) - TargetInventory) < Threshold]_inventoryVars

\* SAFETY_AND_OPTIMIZATIONS.md:241, "Accumulating inventory on one exchange" is what
\* the limits are for: they hold for what each exchange really holds as long as a single
\* task trades, reports before it asks again and does not hedge, and its calls are not
\* reset while they run.
InventoryBounded ==
  Cardinality(askers) = 1 /\ ~hedged /\ ~midCall =>
    \A e \in Exchange : Abs(held[e]) <= MaxInventory

\* SAFETY_AND_OPTIMIZATIONS.md:246, "Maximum per exchange: 10 BTC equivalent": the same
\* also when the task does what calculate_hedge recommends.
LimitPerExchange ==
  Cardinality(askers) = 1 /\ ~midCall =>
    \A e \in Exchange : Abs(held[e]) <= MaxInventory
=============================================================================
