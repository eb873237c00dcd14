# A TLA+ model of the cross-venue arbitrage bot

This directory holds TLA+ modules that model the bot's core in `src/crates`, the
TLC configurations that check them on small instances, and theorems about them
that TLAPS proves for every value of the constants. Every definition is
translated from the Rust code; `PROJECT.json` maps each one to its lines, lists
the runs, the mutants that show each property can fail, the findings, the
hazards and the theorems.

Check a module with `tlc -config MCDetection_all.cfg MCDetection.tla`, prove
one with `tlapm MarketData_proofs.tla`.

## Inventory: the parts of the system

| Part | State | Operations | Talks to | Hard part | What makes it correct |
|---|---|---|---|---|---|
| Depth stream and reader tasks (`exchanges/binance.rs`) | one task per call of `start_websocket`: its stream, the message in hand | connect, receive, drop what does not parse, hand over, close | the venue; calls the handler | several tasks for one symbol, messages lost or malformed | no bad message stops or delays the ones behind it |
| `OrderBookManager` (`core/orderbook.rs`) | a DashMap of books, each with bids, asks, timestamp, sequence | `update` (newer sequence only, then sort), `get_snapshot` and derived getters | written by reader tasks, read by scanner and GUI | concurrent writers in any order, readers in between | the newest update handled wins; a snapshot is one message, sorted; reads never go back |
| `EnhancedArbitrageDetector` (`arbitrage/enhanced_detector.rs`, `core/validation.rs`, `arbitrage/opportunity.rs`) | configuration; validators; the deduplicator; optionally an inventory manager | `scan_opportunities`: nine validations of every ordered pair of exchanges | reads the store; calls deduplicator and inventory | two snapshots of different moments; arithmetic over levels, caps, fees and slippage | what is accepted earns what it says and is backed by liquidity; what is refused deserves it |
| `OpportunityDeduplicator` (`core/deduplication.rs`) | fingerprint -> instant, in a DashMap | `check_and_mark`, cleanup above 1000 entries, `clear` | called by every scan | get and insert are two critical sections, guards held across calls | one grant per cooldown unless calls overlap; refusals justified; calls return |
| `RiskManager`, `PnLTracker` (`risk/manager.rs`, `risk/pnl.rs`) | limits, tracker, positions, circuit breaker, each behind its own lock | `can_trade`, positions, `record_trade`, breaker, limits, daily reset | trading tasks, the operator's commands | checks that reserve nothing, sums over a map that changes | positions within limits; the breaker trips on losses and only then |
| `InventoryManager` (`risk/inventory.rs`) | (exchange, symbol) -> quantity | `can_trade`, `update_position`, `calculate_hedge`, `reset` | called by the detector | three reads at three moments; two iterations | limits hold; a hedge brings the net to target |
| `ArbitrageExecutor` (`arbitrage/executor.rs`) | table of exchange clients | `execute`: balance, then both legs joined | exchanges | one leg fails, a request or reply is lost or late, others spend the same balance | Ok means hedged; a leg alone is never silent; a refusal trades nothing |
| `PositionReconciler` (`exchanges/reconciliation.rs`) | tracked positions and orders | `track_order`, `update_order_fill`, `reconcile_all`, the 30 s loop | exchanges | fills during the pass, a lock held across an await, reports before the order is tracked | the drift is bounded; local position = exchange position once quiet; calls return |
| `WebSocketManager` (`exchanges/websocket.rs`) | attempt counter, connected flag | connect with retry and backoff, heartbeat | the venue | disconnects over a long life | it reconnects; the flag tells the truth |
| `TokenBucketRateLimiter` (`core/deduplication.rs`) | tokens, last refill, two locks | `try_acquire`, refill | exchange clients | refill racing with acquire, clock read before the lock | what any window grants is bounded; time credited once |
| Scanner task and GUI commands (`gui/main.rs`) | opportunities, price and spread history, trading flag | scan every 100 ms for three symbols; dashboard | all of the above | shared vectors overwritten by each symbol | what is shown exists |
| Precision rules (`core/precision.rs`) | tables | rounding and validation of orders | none yet | rounding at boundaries | a rounded order is valid |

Not part of the core: `arbitrage/detector.rs` (the first detector, used by the demo
binary only), `core/optimized.rs` and `core/benchmarks.rs` (not exported, not
called), metrics, the Bybit and OKX clients (`unimplemented!`), and the HTML
dashboards.

How they are connected in the code as it stands: the GUI binary creates store,
detector, inventory manager and risk manager and spawns the scanner. Nothing
starts a websocket, calls `RiskManager::can_trade`, or uses the executor, the
reconciler, the websocket manager or the rate limiter. Those parts are modelled
as the interfaces they are, with callers that use them as their names and
documentation say.

Some lines do not type-check as committed: `core/validation.rs:24` (an integer
for a `Decimal`), `risk/inventory.rs:42` (`.1` of a `Decimal`; the key's symbol is
meant), `exchanges/websocket.rs:111,138` (`write` used after it was moved),
`exchanges/reconciliation.rs:145-146` (key and mutable value borrowed together) and
the test module of `enhanced_detector.rs`. The models follow their evident intent.

## Modules

    NewestWins   <--implements--  OrderBooks    <-- MCOrderBooks,   MarketData_proofs
    CooldownGate <--implements--  Deduplicator  <-- MCDeduplicator, Deduplicator_proofs
                                  CheckPair     <-- MCCheckPair,    Validation_proofs
                                  Precision     <-- MCPrecision,    Validation_proofs
                                  Inventory     <-- MCInventory,    Validation_proofs
    Deduplicator <--composed in-  Scanner       <-- MCScanner,      Scanner_proofs
                                  RiskManager   <-- MCRiskManager,  RiskManager_proofs
                                  Executor      <-- MCExecutor,     Execution_proofs
                                  Reconciler    <-- MCReconciler,   Execution_proofs
                                  Connection    <-- MCConnection,   MarketData_proofs
                                  RateLimiter   <-- MCTrading,      RateLimiter_proofs

    MCDetection = MCOrderBooks + MCConnection + MCScanner
    MCMaps      = MCDeduplicator + MCReconciler
    MCTrading   = MCCheckPair + MCPrecision + MCRiskManager + MCInventory
                    + RateLimiter + MCExecutor

An `MCx` module names the messages, books and limits of TLC's instances of `x`. The last
three put several parts into one run. These parts share no state, in the code or in the
models, so nothing is learnt from interleaving them: a variable `part` picks one, the
others stay as they were initialised, and the states are the disjoint union of those of
the parts. The `_proofs` modules hold the theorems, and `SumTheorems` what they need of
sums over finite sets. Names that would clash in a module that extends several have the
part in them (`InventorySpec`, `ConnectionSpec`, `limiterVars`). The definitions
introduced with "Faulty variant" are not part of any specification: each is the mutated
form that shows that a property notices the corresponding mistake.

**OrderBooks** is the way of a depth message from the venue to a reader. `feed` is
what the venue publishes; a connection is a position in it (`next`) and the
snapshot its task has in hand (`held`). `ReceiveDepth` is `handle_depth_message` up to
the handler call, `HandleOrderbookUpdate` the call itself: between the two
any other task runs. `OrderBook::update` is one step for an update that is dropped
(`SkipUpdate`) and three for one that is newer (`ReplaceBids`, `ReplaceAsks`, `SortBook`),
with the DashMap entry locked (`Locked`) from the first to the last, so that a reader or
another update of the key waits. Venue and connections are external; a message is a set of
levels, some of which may not parse, and its sides are stored in any order before they are
sorted. **NewestWins** is the store as its users see it: a register that returns the newest
version offered.

**CheckPair** is calls of `check_pair_with_validation` up to the profit check, one after the other. The
conditions on the two books are one definition (`Refusal`), in the order of the code;
the loops over price levels of `validate_depth` and `calculate_vwap` share the action
`TakeLevel`. `config` is the configuration the scan has read-locked. Decimals are
exact: quantities are multiplied by the best ask price, ratios are pairs, so all
arithmetic is on integers. Rounding of `Decimal` at 28 digits is not modelled.
Freshness is a Boolean of the snapshot.

**Deduplicator** is `check_and_mark` and `clear`, split where DashMap takes and releases its
shard locks. The guard that `get` returns lives through the arm that inserts, so a
caller in "insert_expired" is a reader of its own shard (`ReadGuards`). What
`Instant::now()` returned is read once, at the call. `granted` and `overlapped` are history
variables. **CooldownGate** is the promise: a refusal is always justified by a grant
no more than a cooldown before the time of the check, and a grant is always
outside the cooldown unless the call overlapped with another one. `Grant` and
`Refuse` are about the fingerprint and the time of the call they end, so the
implementation cannot answer one call with another's data.

**RiskManager** is `can_trade` with one step for each lock it takes (the iterations over
the positions one step per entry), then what follows an approval: `update_position`,
`remove_position`, `record_trade`. The limits' read lock is held from the size check
on, so `UpdateLimits` waits. A position is its exposure, |quantity| x price. An
approved trade makes the position of its key grow; this is external, as no code in
the repository calls `can_trade`. `callers` remembers which tasks have called it: the
limits are exact for one, and each further one may overshoot them by one trade. The
operator may tighten the limits under open positions, so the bound is the loosest
limit of those the operator ever sets. `update_position` overwrites an entry; the model
assumes of its external caller that what it writes is the key's position grown by its own
trade, read and written in one step, and that it writes nothing else. `highest`, the highest
the realized profit has been, is history.

**Executor** is `execute`: `Execute` (the lookup of the buy exchange and the request for
its balance), the answer or error, the comparison, both legs sent, and
`EndExecute` once `tokio::join!` has both results. The exchanges are external. An order is
sent, then accepted, refused or lost; `PlaceMarketOrder` returns an error in each of these
states, also while the order is still on its way, since a connection may fail at any time.
What an exchange answers `get_balance` (any of `Balance`) and whether it then accepts an order
are unrelated: the answer is the wallet's balance, or 0 where the asset is missing, and a
market order carries no price, so the code gives no relation between the two. Tasks share
nothing: any number of them are so many copies of one.

**Reconciler** is `track_order`, `update_order_fill` and the loop that calls
`reconcile_all`, one step per map entry and one for each side of the fetch. `Locked`
is the DashMap write lock that the iteration keeps across the await; a caller that
needs it blocks a worker thread (`Blocked`), and the reconciliation task runs only
while a worker is left (`WorkerFree`). Nothing bounds the callers: as soon as they block every
worker (`AllWorkersBlocked`) the task that holds the lock is never resumed. The exchange, and the tasks that report
its events in any order, are external; each event is reported once, but a fill also
twice (`Repeat`), which the code counts twice. `unsettled`, `counted` and `again` are
history: what the next comparison has still to settle.

**Inventory** is the manager for one symbol: `can_trade` with its two gets and the iteration
of `get_net_inventory`, `calculate_hedge` with its two iterations, one step for each
shard lock. `held` is what the exchanges really hold and `inventory` what the manager
was told. What tasks do with an answer is external: they trade, one leg or both may
fail, and for one exchange after the other they ask what it holds (`FetchPosition`) and
call `update_position` with the answer (`UpdateInventory`), which another task may have outdated. `disturbed` remembers which calls an
update has overlapped with, and `midCall` whether the last `reset` came in the middle of
a call: such a call goes on with what it read before and may then trade, from zero, a
quantity that exceeds the limit.

**Connection** is `connect_with_retry` by tasks that share a manager, with `connect_once` as
the actions `ConnectFails`, `Open` and `Lose`. `connect_once` has no path that returns
`Ok`, so the arm that resets the counter is not in the model and only
`reset_reconnect_counter` (`Reset`) is. A connection starts a heartbeat, which owns half of
the socket and may outlive the reader (`orphans`). The base of the backoff is positive
and its cap at least twice that, as the constants 500 and 30000 of the code are. `failures`
(in a row) and `waited` are history.

**Scanner** is the task that `main` spawns: a tick, the scan of each symbol over all
ordered pairs with the two reads of books as steps of their own, `check_and_mark`,
the inventory check, the sort, and the vector the dashboard reads. Readers change
books and the operator changes the configuration, unless a scan keeps it read-locked.
The deduplicator is not abstracted: `D` is an instance of Deduplicator with the
scanner as its caller, on fingerprints made of rounded prices as
`OpportunityFingerprint::new` makes them. What the sort compares (profit after fees and
slippage over the adjusted cost) is not in this model, so a step picks any order (`Sorted`). At most three
exchanges are enabled, those for which the code has a name. Validations 1 to 7 and 9 may answer either way;
CheckPair and Inventory have their detail.

**Precision** is the table of markets and `ExchangeRulesManager::validate_order` in
integers, with rounding of halves to even. `PriceUnits` and `QuantityUnits` say how
many of the counted units make one: any numbers fine enough for the table. Its only action
is a call, and nothing else in the code makes one; `MCPrecision` makes them one after the
other. `price_tick` is in the table, and no code reads it.

**RateLimiter** is `try_acquire` and `available_tokens`: the clock is read, then
`Refill` runs under the locks of `last_refill` and `tokens`, then `tokens` is locked again to
`Acquire`, `Deny` or report. Tokens are counted in units of 1/`UnitsPerToken`. `OpenWindow`
marks any instant as the beginning of a window, for which the history variables
count what is acquired.

## Runs

Three passing runs, for what holds, and one for each statement of the repository that
the code does not keep.

| Run | Expected | What it shows |
|---|---|---|
| `Detection_all` | pass | *Books*: two connections of one key, two readers, three kinds of message (ordinary, other prices with an unparsable best ask, malformed): snapshots are whole, `NewestWins` is implemented, so the newest update handled wins and reads never go back; every well-formed message queued on a connection lands, or a newer one does, unless the connection ends. *Connections*: two tasks on one manager: attempts are bounded, waits grow to the cap, nobody reconnects for ever. *Scanner*: two exchanges, two symbols: a price found was held during the scan, what passed every check is on the dashboard at the end of the pass unless a later symbol replaced it, passes end unless an expired mark is met |
| `Maps_all` | pass | *Deduplicator*: two callers that check, clean up and clear: `CooldownGate` is implemented, marks live for two cooldowns, calls that meet no expired entry return. *Reconciler*: a buy and a sell, or a buy in two parts, filled in parts, reported by two callers in any order and fills also twice, during fetches, with two worker threads: bounded drift; convergence of reported positions and return of calls unless callers block both workers |
| `Trading_all` | pass | *Pairs*: 700 pairs of books, one cap above and one below the required liquidity: reported profit is not overstated, accepted pairs are backed, the quantity check and the buy slippage limit are dead. *Orders* for four markets and one unknown: what is accepted meets the enforced rules, and what meets them is accepted as it is. *Risk*: two tasks, three keys, limits tightened and loosened: exposure and open positions stay within the loosest limits for one task that has called `can_trade` and overshoot them by at most one trade with a second. *Inventory*: two tasks, two exchanges, failing legs, hedges, resets: the limit holds for one task that does not hedge, and a call that no update overlaps with is exact. *Limiter*: two tasks: the bound on every window, time credited once. *Executor*: plans in both directions and with a missing API: what each result of `execute` says of the two orders |
| `Deduplicator_hang` | violation | A check of an expired entry never returns |
| `Reconciler_phantom` | violation | A position the exchange has flattened stays in the local table |
| `RiskManager_drawdown` | violation | The breaker trips after a trade that gained |
| `Connection_gives_up` | violation | A manager gives up although no two failures came in a row |
| `Connection_first_wait` | violation | The first wait is twice the base |
| `Inventory_limit` | violation | A hedge takes an exchange beyond the limit |
| `Executor_cancel` | violation | `execute` fails with the order of the other leg accepted |
| `CheckPair_liquidity` | violation | Books with enough liquidity are refused for lack of it |
| `Precision_tick` | violation | A Bybit order is accepted at a price between two ticks |

### Bounds and why they are enough

* *OrderBooks*: `MaxSeq` messages per key (the id of a message is its place in the
  feed). Overtaking needs two connections and two messages; a third lets a stale one arrive
  between two newer ones. Each of the three messages is published once, in any order
  (`EachMessageOnce`): the two well-formed ones differ in both sides, so sides of two messages
  would show.
* *CheckPair*: best levels thinner, equal and thicker than the cap; a second level near
  and far, empty sides and zero quantities; prices below, at and above each other.
  `Scale` is 100 rather than 10000, which changes no comparison's form. A behaviour is one
  check (`SingleCheck`): a check keeps nothing of an earlier one.
* *Deduplicator*: `MaxTime` clock readings, a cooldown of one, and a `CleanupSize` small
  enough for the cleanup to run and to drop an entry; two fingerprints on two shards
  for the pass, on one shard for the violation. Of the two callers the second only checks,
  and only the first fingerprint (`SecondChecksOnly`); cleanups, checks of either fingerprint
  and clears of the first overlap with it in every way.
* *RiskManager*: `MaxPnl` 11 bounds the realized profit or loss, with an initial equity of
  10 and a loss of 11. Caps are such that two trades fit and a third does not; the operator
  switches between limits under which the daily loss trips first and others under which the
  drawdown does. A new peak, after a gain, is in the violation run and in the proofs only.
* *Executor*: one task, since tasks share nothing. Plans cost 2, and an exchange may answer
  0, 1 or 2.
* *Reconciler*: one key, and either a buy and a sell of 1 that flatten the position or a buy
  of 2 in one part or two (`FlatOrParts`), two callers, two workers: the callers may block every
  worker, or one of them. Keys interact only through the lock of a shard, which one key
  shows; partial fills and cancellations make the account differ from every report. Each fill
  is repeated at most once, before, during or after any comparison.
* *RateLimiter*: `MaxInstant` 3 with a capacity of 2 tokens and half a token per unit of
  time: long enough to drain, to refill a token and to refill past the brim.
* *Scanner*: prices such that both directions of the pair occur, an opportunity of
  either may vanish between the two reads, and two different prices share a rounded
  one. Two ticks and a cooldown of zero let a mark expire; a `CleanupSize` of one lets the
  cleanup run. Two symbols are enough for one to replace the other, and the second needs
  only one direction (`SecondSymbolOneWay`).
* *Connection*: `MaxReconnectAttempts` 3 with a cap between the second and the third
  backoff; `MaxOrphans` 3 heartbeats without a reader.
* *Inventory*: a limit, a threshold and a trade of one unit, two exchanges, and `MaxHeld` 2,
  beyond the limit; while two tasks have asked, one unit (`LessHeldByTwo`). `Inventory_limit`
  has three exchanges, the fewest on which a hedge overshoots.
* *Precision*: the real table, prices in 0.001 and quantities in 0.00001 (finer than
  any unit of the table), orders just below, at and just above each step, half step
  and limit.

`Trading_all` uses the symmetry of tasks and of the keys of `RiskManager`: no definition
tells two of them apart, and there is no liveness in the run.

`CHECK_DEADLOCK FALSE` stands where the system may really stop: a deduplicator caller
waits for its own guard (in Scanner too, where the ticks end as well), the bound on a clock
ends time, a feed is complete and nobody calls or loses a connection again, a trade result
beyond `MaxPnl` or a trade beyond `MaxHeld` is not made, a reconciler's workers are all
blocked, and a behaviour of `SingleCheck` is over.

### Fairness

* `BooksFairSpec` gives every reader task weak fairness: a spawned tokio task that
  has a message, or waits for a lock that is let go of, is polled. Venue, clock, readers and connections have none.
* `Deduplicator!FairSpec` gives it to a caller inside a function, as neither function
  awaits. A caller blocked on its own guard is never enabled, so fairness does not free it.
* `ReconcilerFairSpec`: the loop is a spawned task with a timer (weak fairness). A caller
  waiting for the shard lock gets it some time (strong fairness): the loop sleeps
  30 s between passes, far longer than a call. Reports are delivered (weak). That a fetch is
  answered, and not with errors for ever, is an assumption about the exchange.
* `Scanner!FairSpec`: the spawned task goes on once it has a tick; its scans await
  nothing. Ticks, readers and the operator have no fairness.
* `ConnectionFairSpec`: a task's sleep ends and its attempt to connect ends one way
  or the other. Connections need not be lost, and nobody has to call.
* `DetectionSpec` and `MapsSpec` repeat the fairness of their parts; a part at rest has no step
  that it could be obliged to take.
* The other specifications state safety only. In particular nothing makes `execute`
  return: the HTTP client is built without a timeout (`exchanges/binance.rs:41`).

## Proofs

All theorems hold for any number of keys, connections, readers, callers, shards,
traders, tasks, exchanges and symbols, and for any books, limits, plans, orders and
rates, under the `ASSUME` of the module they are about (Scanner's lets at most three
exchanges be enabled at a time). Every safety invariant and every action property of the
passing runs is proved, the refinements `Refines` and `RefinesGate` too. The type invariants
come first in each module; below is what the others rest on.

* `SumTheorems`: sums over finite sets, which the models take from the community modules
  as a fold that picks its elements with CHOOSE. A minimal subset for which a claim
  fails takes the place of induction over sets (`MinimalSubset`): the folds of two sets
  agree where both are defined, so any element may be taken out of a sum first
  (`SumRemove`). From this follow what a sum changes by when one term does
  (`SumChange`), its bounds, its linearity and that it counts.
* `MarketData_proofs`, books: the inductive invariant relates the sequence of every stored
  book and every view to the ids delivered, says that a snapshot in hand is the message
  before `next`, where an update that has the lock has got (`UpdatesInProgress`), and that a
  book nobody has locked is one message parsed and sorted (`BooksAreOneMessage`); one that is
  locked may be anything, and nobody reads it. Whether a sorted arrangement of a side exists
  is not needed: `SortBook` picks one. From it follow `NewestHandledWins`,
  `SnapshotsAreOneMessage`, `ReadsNeverRegress` and the refinement of `NewestWins`.
* `MarketData_proofs`, connections: the counter and the tasks past the check that have not
  been counted yet are bounded together (`Budget`): each of them was let past below the
  maximum, so only the other tasks can take the counter beyond it (`AttemptsBound`). A
  task's last wait was the backoff of an earlier count (`WaitedFor`), and a backoff grows
  with the count: a power of two is the number of subsets of a set (`PowerOfTwo`).
* `Validation_proofs`, pairs: the quantity is at most the best level on both sides, so a
  walk ends within the first level. This makes two checks dead
  (`BestLevelAlwaysSuffices`), gives the backing of an accepted pair (`Backed`), and makes
  what it earns a closed formula, which is compared with the reported profit
  (`ProfitIsThere`). It also bounds the value by the cap, so that with a cap below the
  required liquidity nothing is accepted (`CapBelowLiquidity`, no property of a run): the
  reason behind the violation of `CheckPair_liquidity`, for every configuration of this kind.
* `Validation_proofs`, orders: rounding gives a multiple of the unit and leaves a multiple as
  it is, and lots are the units quantities are rounded to in each of the four markets of
  the table, so a second adjustment changes nothing (`OrdersMeetRules`). The theorem is about
  the table as it is, any order, and the rules that the code enforces, which leave
  `price_tick` out. `ValidateSpec` makes any calls, one after the other; TLC's orders are a
  sample of them.
* `Validation_proofs`, inventory: as long as no update overlaps with a call, what it has
  read is what the map holds, summed over what it has visited (`Exactness`, `CallsExact`).
  `InventoryBounded` is about one task that has asked, no hedge and no reset in the middle
  of its call: then the map mirrors what the exchanges hold, but for the trade
  that the task has still to report (`Single`).
* `Execution_proofs`, executor: `Told` says what every reply and every result says of its
  order, given where the task is; `OkHedged`, `OrdersAwaited` and `RefusalsSafe` follow.
* `Execution_proofs`, reconciler: how far a position is off is the sum of how far each of
  its orders is (`Off`), and an order that the last comparison settled, or that was never
  placed, is off by nothing. An answer on its way tells, of each order, no more than what is
  executed of it now, and exactly that for an order known to be final (`Fetched`); the lock
  keeps the reconciler from learning of fills meanwhile, so a correction leaves each order
  off by what happened since.
* `RiskManager_proofs`: `Overshoot` is a lemma about tasks that add up a changing map
  entry by entry and then put a weight into it (`Ledger`): of the tasks in between, each
  knows which it found there; only they may have weights to put that its sum misses.
  Exposure and number of positions are two instances of it.
* `Deduplicator_proofs`: a mark is the last grant of its fingerprint, a grant whose mark was
  cleaned up is two cooldowns old, and what a caller read is still true when it acts
  if no call has overlapped with its own (`AloneIsExact`). That gives `MarksOutlive` and
  `ImplementsGate`, for any number of callers.
* `RateLimiter_proofs`: the bound on a window is split at the first refill with a time in
  it (`Bound`). Before it only calls already in progress can acquire, each at most
  one capacity; from it on grants and tokens grow together at the refill rate. Until
  the bucket is full this is an equality (`CreditedOnce`).
* `Scanner_proofs`: the books of the scanned symbol are among those remembered since its
  scan began (`Books`), so a price read at any time of the scan was held (`Honest`); what
  passed is in the scan's result or, from an earlier symbol, shown or replaced (`Kept`).
  The deduplicator's own inductive invariant is one conjunct, through an instance of
  `Deduplicator_proofs`: a step of the scanner inside `check_and_mark` is one of
  Deduplicator, and any other leaves it alone.

`NewestHandledWins` and `ReadsNeverRegress` follow from `Refines` too, which is the one TLC
checks; `AvailableIsPromised` (what `available_tokens` returned can be acquired until
somebody acquires) is proved for every instance and not run on a small one. A composite's
specification is not a theorem's: the theorems are about the parts, whose behaviours the
composites' are, part by part.

Only model-checked: liveness (`QueuedMessagesLand`, `UnexpiredCallsReturn`, `CallsReturn`,
`ReportedPositionsConverge`, `PassesEnd`, `Settles`), which is out of the prover's reach,
and the nine violations, two of which (`ChecksReturn`, `PositionsConverge`) are of liveness.

## Findings

Each violation run is a disagreement between the code and a document or a test of the
repository; `PROJECT.json` has the lines.

* `Deduplicator_hang` (`core/deduplication.rs:37`): a check after the cooldown waits for its
  own read guard. The test at line 174 says "After cooldown, should pass again".
* `Reconciler_phantom` (`exchanges/reconciliation.rs:154`): a position that the exchange no
  longer holds is never corrected. `ENHANCEMENTS_V2.md:39`: "Eliminates phantom positions".
* `RiskManager_drawdown` (`risk/pnl.rs:83`): the peak starts at the initial equity and the
  current equity at zero, so the breaker trips at the first question after the first trade,
  a profitable one too. `README.md:155`: it halts when "Drawdown exceeds threshold".
* `Connection_gives_up` (`exchanges/websocket.rs:89`): losses are counted over the life of
  the manager, since the arm that resets the counter is never taken; the fifth ends
  reconnection. `ENHANCEMENTS_V2.md:67`: "No manual intervention needed".
* `Connection_first_wait` (`exchanges/websocket.rs:44`): the first wait is 1000 ms.
  `SAFETY_AND_OPTIMIZATIONS.md:167`: "Start delay: 500ms".
* `Inventory_limit` (`risk/inventory.rs:127`): a hedge sells on the exchange with most
  inventory in absolute value, which may be short, and goes beyond `max_inventory` there.
  `ENHANCEMENTS_V2.md:47`: "Maximum 10 BTC per exchange".
* `Executor_cancel` (`arbitrage/executor.rs:64`): when one leg fails, the other is left as
  the exchange has it. `ARCHITECTURE.md:206`: "Order Failed → Cancel opposite leg".
* `CheckPair_liquidity` (`core/validation.rs:106`): what is compared with the required
  liquidity is the value of the trade, which a cap bounds, and not that of the book; under
  the default configuration every pair is refused. `SAFETY_AND_OPTIMIZATIONS.md:324`:
  "Verify $100k+ available".
* `Precision_tick` (`core/precision.rs:146`): the tick of 0.5 that the table has for Bybit is
  read by nothing, so an order at 5000.1 is accepted. `SAFETY_AND_OPTIMIZATIONS.md:137`:
  "Validate order meets all requirements".

Seen while modelling, and not the subject of a run:

* Two overlapping checks may both be granted one fingerprint (`core/deduplication.rs:33`;
  `CooldownGate` says when), where `SAFETY_AND_OPTIMIZATIONS.md:13` and `:33` exclude it. "Never
  exceed rate limits" (`SAFETY_AND_OPTIMIZATIONS.md:308`) holds of a window only if no
  call is in progress when it opens (`WindowBounded`).
* `max_position_size` is compared with each trade and not with the position of the key
  (`risk/manager.rs:69`), where `risk/limits.rs:6` says "Maximum position size per symbol".
* Callers of the reconciler that occupy every worker thread while a fetch is under way stop
  the runtime for good (`exchanges/reconciliation.rs:144`): the lock they wait for is held by
  a task that no thread is left to resume. `Maps_all` reaches this (`AllWorkersBlocked`).
* What the inventory check drops has been marked as seen and is suppressed for the cooldown
  (`enhanced_detector.rs:247`). The scan of a later symbol replaces an earlier one's
  opportunities in the same pass (`gui/main.rs:393`), which the deduplicator then suppresses
  too. A check that hangs does so while the scan keeps `config.read()`.
* The sell leg's slippage is computed from the asks (`enhanced_detector.rs:201`;
  `orderbook.rs:219` takes the side into account); the books of the detector's own test
  have fewer levels than the ten it requires.
* `max_net_inventory` (`default.toml:64`) is read by nothing; `set_auto_hedge` needs
  `&mut self` of a manager that is shared.
* `is_connected` never returns true, a failed heartbeat is not told to the reader, and a
  connection attempt has no timeout, although `default.toml:86` sets one.
* The table of rules has "BTC/USDT" where a `Symbol` prints "BTC/USDT-PERP", and nobody
  validates an order.
* Each exchange has one price series for all symbols, which grows faster than its axis
  (`gui/main.rs:51`), and the dashboard's best bid and ask are taken across symbols
  (`gui/main.rs:272`).

## Not modelled

* `arbitrage/detector.rs` and the demo binary: a subset of the enhanced detector, one
  pass, no concurrency.
* `core/optimized.rs`, `core/benchmarks.rs`: not exported, not called.
* Bybit and OKX clients: every trading method is `unimplemented!()`.
* Metrics, logging, HTML; getters and book metrics (spread, mid price, liquidity), which
  read one book and change nothing; `get_summary`, `get_dashboard_data`.
* The timestamps of books: freshness is a Boolean where a snapshot is validated.
* The price and spread history of the dashboard: nothing decides on it.
* Unrealized profit, fees and counts of trades: no decision reads them.

## Plan

1. Done, in this order: books and deduplicator with their abstract specifications; pairs and
   risk; scanner over the deduplicator; reconciler, executor, limiter, inventory,
   connections and orders; then, for each, its theorems.
2. Next: the two abstract promises still missing. A risk gate (no approval of a call that
   began after the breaker was tripped) with RiskManager as its implementation, and the
   executor as an atomic pair of legs that may be left half done. What a refusal of
   `can_trade` is justified by belongs to the first.
3. Then the proofs these call for. The hazards of `PROJECT.json` without a property say why
   they have none; liveness stays with TLC.
