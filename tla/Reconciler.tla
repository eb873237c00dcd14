------------------------------ MODULE Reconciler ------------------------------
(***************************************************************************)
(* PositionReconciler (crates/exchanges/src/reconciliation.rs): positions  *)
(* tracked from the orders and fills it is told of, and compared again and *)
(* again with what the exchange reports (start_auto_reconciliation).       *)
(*                                                                         *)
(* External: the exchange, which executes orders and answers               *)
(* position_fetcher; the tasks that tell the reconciler of orders and      *)
(* fills, in any order, each event once, or a fill twice; and the DashMap, *)
(* whose iter_mut keeps a shard's write lock while the entries of the      *)
(* shard are visited, across the await of the fetch, so that every other   *)
(* call on the shard blocks the worker thread it runs on.                  *)
(***************************************************************************)
EXTENDS Integers, FiniteSetsExt

CONSTANTS Key,             \* (exchange, symbol) pairs
          MapShard,        \* shards of the DashMap,
          MapShardOf,      \* MapShardOf[k]: the one k hashes to
          Order,           \* orders the exchange may execute
          KeyOf,           \* KeyOf[o]: what o trades
          Quantity,        \* Quantity[o]: positive for a buy, negative for a sell
          Reporter,        \* tasks that call the reconciler
          Workers          \* worker threads of the tokio runtime

ASSUME ReconcilerAssumption ==
  /\ MapShardOf \in [Key -> MapShard]
  /\ IsFiniteSet(Order)
  /\ KeyOf \in [Order -> Key]
  /\ Quantity \in [Order -> Int \ {0}]
  /\ Workers \in Nat

VARIABLES executed,   \* the exchange: executed[o], the part of Quantity[o] executed
          placed,     \* the exchange: orders placed
          closed,     \* the exchange: orders filled or cancelled
          events,     \* what callers have still to tell the reconciler
          call,       \* call[c]: the event c is telling it of, or NoCall
          tracked,    \* keys with an entry in local_positions
          quantity,   \* quantity[k]: position.quantity
          status,     \* status[o]: the status of o in pending_orders, or "unknown"
          failing,    \* keys whose reconciliation_errors are not 0
          stage,      \* where reconcile_all is: "idle", "next", "fetch", "answer"
          unvisited,  \* keys the iteration has still to visit
          entry,      \* the key of the entry being visited
          answer,     \* what position_fetcher returned
          repeated,   \* orders whose fill somebody reports again
          unsettled,  \* history: unsettled[k], k's orders not final when k was last compared
          counted,    \* history: orders whose fill has been counted
          again       \* history: again[k], what was counted again since k was last compared

exchange == <<executed, placed, closed>>
history == <<unsettled, counted, again>>
entries == <<tracked, quantity, status, failing, history>>
iteration == <<stage, unvisited, entry, answer>>
reconcilerVars == <<exchange, events, repeated, call, entries, iteration>>

-----------------------------------------------------------------------------
\* Failed is handled as Cancelled is.
Final == {"filled", "cancelled"}
Status == {"pending", "partially_filled"} \cup Final

\* What a call tells the reconciler: a new order, or a new status of an order.
Event == [order : Order, status : Status]

NoCall == [order |-> "none", status |-> "none"]
NoAnswer == [ok |-> FALSE, positions |-> [k \in Key |-> 0]]

Abs(n) == IF n < 0 THEN -n ELSE n

OrdersOf(k) == {o \in Order : KeyOf[o] = k}

\* What the exchange holds of k.
Account(k) == SumFunctionOnSet(executed, OrdersOf(k))

ReconcilerInit ==
  /\ executed = [o \in Order |-> 0]
  /\ placed = {} /\ closed = {}
  /\ events = {}
  /\ call = [c \in Reporter |-> NoCall]
  /\ tracked = {}
  /\ quantity = [k \in Key |-> 0]
  /\ status = [o \in Order |-> "unknown"]
  /\ failing = {}
  /\ stage = "idle" /\ unvisited = {} /\ entry \in Key
  /\ answer = NoAnswer
  /\ repeated = {}
  /\ unsettled = [k \in Key |-> OrdersOf(k)]
  /\ counted = {} /\ again = [k \in Key |-> 0]

-----------------------------------------------------------------------------
(* The exchange *)

Tell(o, s) == events' = events \cup {[order |-> o, status |-> s]}

Place(o) == /\ o \notin placed
            /\ placed' = placed \cup {o}
            /\ Tell(o, "pending")
            /\ UNCHANGED <<executed, closed, repeated, call, entries, iteration>>

\* A part of the order is executed.
FillPartly(o) ==
  /\ o \in placed \ closed
  /\ \E n \in (IF Quantity[o] > 0 THEN 1..(Quantity[o] - 1) ELSE (Quantity[o] + 1)..(-1)) :
       /\ Abs(n) > Abs(executed[o])
       /\ executed' = [executed EXCEPT ![o] = n]
  /\ Tell(o, "partially_filled")
  /\ UNCHANGED <<placed, closed, repeated, call, entries, iteration>>

Fill(o) == /\ o \in placed \ closed
           /\ executed' = [executed EXCEPT ![o] = Quantity[o]]
           /\ closed' = closed \cup {o}
           /\ Tell(o, "filled")
           /\ UNCHANGED <<placed, repeated, call, entries, iteration>>

\* With what was executed of it.
Cancel(o) == /\ o \in placed \ closed
             /\ closed' = closed \cup {o}
             /\ Tell(o, "cancelled")
             /\ UNCHANGED <<executed, placed, repeated, call, entries, iteration>>

-----------------------------------------------------------------------------
(* track_order and update_order_fill *)

\* Faulty variant: no lock is kept across the await of the fetch.
NotLocked(k) == FALSE

\* The shard whose write lock reconcile_all holds is that of the entry it visits.
Locked(k) == stage \in {"fetch", "answer"} /\ MapShardOf[k] = MapShardOf[entry]

\* A task takes an event and calls the reconciler.
BeginCall(c, e) ==
  /\ call[c] = NoCall
  /\ e \in events
  /\ events' = events \ {e}
  /\ call' = [call EXCEPT ![c] = e]
  /\ UNCHANGED <<exchange, repeated, entries, iteration>>

\* A fill is reported again, after or beside the first report.
Repeat(o) ==
  /\ o \notin repeated
  /\ executed[o] = Quantity[o]
  /\ repeated' = repeated \cup {o}
  /\ Tell(o, "filled")
  /\ UNCHANGED <<exchange, call, entries, iteration>>

\* track_order: pushed to pending_orders of a new or an existing entry.
TrackOrder(c) ==
  LET o == call[c].order
  IN  /\ call[c] # NoCall /\ call[c].status = "pending"
      /\ ~Locked(KeyOf[o])
      /\ tracked' = tracked \cup {KeyOf[o]}
      /\ status' = [status EXCEPT ![o] = "pending"]
      /\ call' = [call EXCEPT ![c] = NoCall]
      /\ UNCHANGED <<exchange, events, repeated, quantity, failing, history, iteration>>

\* By how much a new status changes the position.
Counted(o, s) == IF s = "filled" THEN Quantity[o] ELSE 0

\* An order that is not tracked, or not yet, is not found, and nothing changes.
UpdateOrderFill(c) ==
  LET o == call[c].order
      k == KeyOf[o]
  IN  /\ call[c] # NoCall /\ call[c].status # "pending"
      /\ ~Locked(k)
      /\ IF status[o] = "unknown"
         THEN UNCHANGED <<status, quantity, counted, again>>
         ELSE /\ status' = [status EXCEPT ![o] = call[c].status]
              /\ quantity' = [quantity EXCEPT ![k] = @ + Counted(o, call[c].status)]
              /\ counted' = IF call[c].status = "filled" THEN counted \cup {o} ELSE counted
              /\ again' = IF call[c].status = "filled" /\ o \in counted
                          THEN [again EXCEPT ![k] = @ + Abs(Quantity[o])] ELSE again
      /\ call' = [call EXCEPT ![c] = NoCall]
      /\ UNCHANGED <<exchange, events, repeated, tracked, failing, unsettled, iteration>>

-----------------------------------------------------------------------------
(* start_auto_reconciliation and reconcile_all *)

\* The reconciliation task runs only where a worker is not blocked by a caller.
Blocked == {c \in Reporter : call[c] # NoCall /\ Locked(KeyOf[call[c].order])}

\* Faulty variant: the runtime has the one thread the caller blocks.
NobodyBlocked == Blocked = {}

WorkerFree == Cardinality(Blocked) < Workers

\* The interval's tick.
StartIteration == /\ stage = "idle"
                  /\ stage' = "next" /\ unvisited' = Key
                  /\ UNCHANGED <<exchange, events, repeated, call, entries, entry, answer>>

\* Faulty variant: a key without an entry is not passed over.
VisitAny(k) ==
  /\ stage = "next" /\ WorkerFree
  /\ k \in unvisited
  /\ unvisited' = unvisited \ {k} /\ stage' = "fetch" /\ entry' = k
  /\ UNCHANGED <<exchange, events, repeated, call, entries, answer>>

\* The iteration reaches the entry of k: all entries of a shard are visited before
\* the next shard is locked. A key without an entry is passed over.
Visit(k) ==
  /\ stage = "next" /\ WorkerFree
  /\ k \in unvisited
  /\ unvisited' = unvisited \ {k}
  /\ IF k \in tracked THEN stage' = "fetch" /\ entry' = k
                      ELSE UNCHANGED <<stage, entry>>
  /\ UNCHANGED <<exchange, events, repeated, call, entries, answer>>

\* position_fetcher is answered: the positions at this instant, without those that
\* are zero (Binance get_positions), or an error. The task has still to be woken.
FetchOk ==
  /\ stage = "fetch"
  /\ answer' = [ok |-> TRUE, positions |-> [k \in Key |-> Account(k)]]
  /\ stage' = "answer"
  /\ UNCHANGED <<exchange, events, repeated, call, entries, unvisited, entry>>

FetchError ==
  /\ stage = "fetch"
  /\ answer' = NoAnswer
  /\ stage' = "answer"
  /\ UNCHANGED <<exchange, events, repeated, call, entries, unvisited, entry>>

\* The lock is released once the entry has been handled.
EndVisit == /\ stage = "answer" /\ WorkerFree
            /\ stage' = "next" /\ answer' = NoAnswer
            /\ UNCHANGED <<exchange, events, repeated, call, tracked, status, counted,
                           unvisited, entry>>

\* A position of the symbol was reported.
Reported == answer.positions[entry] # 0

\* Faulty variant: only a local position that is too large is a discrepancy.
TooLarge == quantity[entry] - answer.positions[entry] > 0

Discrepancy == Abs(quantity[entry] - answer.positions[entry]) > 0

\* A reported position that differs replaces the local one.
Reconcile ==
  /\ EndVisit /\ answer.ok
  /\ quantity' = [quantity EXCEPT ![entry] =
                    IF Reported /\ Discrepancy THEN answer.positions[entry] ELSE @]
  /\ unsettled' = [unsettled EXCEPT ![entry] =
                     IF Reported THEN {o \in OrdersOf(entry) : status[o] \notin Final} ELSE @]
  /\ again' = [again EXCEPT ![entry] = IF Reported THEN 0 ELSE @]
  /\ failing' = failing \ {entry}

ReconcileFailed ==
  /\ EndVisit /\ ~answer.ok
  /\ failing' = failing \cup {entry}
  /\ UNCHANGED <<quantity, unsettled, again>>

\* The report is returned and the task waits for the next tick.
Report == /\ stage = "next" /\ unvisited = {}
          /\ stage' = "idle"
          /\ UNCHANGED <<exchange, events, repeated, call, entries, unvisited, entry, answer>>

-----------------------------------------------------------------------------
ExchangeStep == \E o \in Order : Place(o) \/ FillPartly(o) \/ Fill(o) \/ Cancel(o) \/ Repeat(o)

Deliver(c) == TrackOrder(c) \/ UpdateOrderFill(c)

Loop == StartIteration \/ (\E k \in Key : Visit(k)) \/ Reconcile \/ ReconcileFailed \/ Report

ReconcilerNext ==
  \/ ExchangeStep
  \/ \E c \in Reporter : (\E e \in Event : BeginCall(c, e)) \/ Deliver(c)
  \/ Loop \/ FetchOk \/ FetchError

ReconcilerSpec == ReconcilerInit /\ [][ReconcilerNext]_reconcilerVars

\* The reconciliation task runs; every fetch is answered, and not with errors for
\* ever; every event is told, and a call waiting for a lock gets it some time, since
\* the task sleeps 30 s between two iterations. The exchange need not do anything.
ReconcilerFairSpec ==
  /\ ReconcilerSpec
  /\ WF_reconcilerVars(Loop) /\ WF_reconcilerVars(FetchOk \/ FetchError)
  /\ \A k \in Key : SF_reconcilerVars(FetchOk /\ entry = k)
  /\ \A c \in Reporter : SF_reconcilerVars(Deliver(c))
  /\ WF_reconcilerVars(\E c \in Reporter, e \in Event : BeginCall(c, e))

-----------------------------------------------------------------------------
(* Properties *)

\* Every variable has its type; a key without an entry has no quantity and no
\* known orders.
ReconcilerTypeOK ==
  /\ executed \in [Order -> Int] /\ placed \subseteq Order /\ closed \subseteq placed
  /\ events \subseteq Event /\ repeated \subseteq placed
  /\ call \in [Reporter -> Event \cup {NoCall}]
  /\ tracked \subseteq Key
  /\ quantity \in [Key -> Int] /\ failing \subseteq tracked
  /\ status \in [Order -> Status \cup {"unknown"}]
  /\ stage \in {"idle", "next", "fetch", "answer"} /\ unvisited \subseteq Key /\ entry \in Key
  /\ answer \in [ok : BOOLEAN, positions : [Key -> Int]]
  /\ unsettled \in [Key -> SUBSET Order] /\ counted \subseteq Order /\ again \in [Key -> Nat]
  /\ \A k \in Key \ tracked :
       quantity[k] = 0 /\ \A o \in OrdersOf(k) : status[o] = "unknown"

Size == [o \in Order |-> Abs(Quantity[o])]

\* A tracked position is off by no more than the orders placed that were not final when
\* it was last compared with the exchange, and the fills counted again since: whatever
\* order fills, reports, fetches and their answers come in, the comparison settles
\* what was counted by then, once or twice.
DriftBounded ==
  \A k \in Key : Abs(quantity[k] - Account(k))
                   <= SumFunctionOnSet(Size, unsettled[k] \cap placed) + again[k]

\* Callers that wait for the lock occupy every worker thread: the task that holds it is
\* never resumed. Nothing bounds the number of callers.
AllWorkersBlocked == Cardinality(Blocked) >= Workers

\* Once the exchange executes nothing more, every position it still reports is
\* tracked exactly, or not at all, unless callers have come to block every worker.
ReportedPositionsConverge ==
  \A k \in Key :
    <>[](AllWorkersBlocked \/ (k \in tracked /\ Account(k) # 0 => quantity[k] = Account(k)))

\* A call that waits behind a fetch is not blocked for ever, unless callers have come
\* to block every worker.
CallsReturn ==
  \A c \in Reporter : call[c] # NoCall ~> call[c] = NoCall \/ AllWorkersBlocked

\* ENHANCEMENTS_V2.md:39, "Eliminates phantom positions and tracking errors": the
\* same also where the exchange holds nothing.
PositionsConverge ==
  \A k \in Key : <>[](k \in tracked => quantity[k] = Account(k))
=============================================================================
