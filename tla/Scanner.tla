-------------------------------- MODULE Scanner --------------------------------
(***************************************************************************)
(* The task that main of crates/gui/src/main.rs spawns: on every tick it   *)
(* calls scan_opportunities (crates/arbitrage/src/enhanced_detector.rs)    *)
(* for one symbol after the other and publishes what a scan found. Reader  *)
(* tasks change the books and the operator changes the configuration while *)
(* it runs.                                                                *)
(*                                                                         *)
(* The deduplicator is Deduplicator with the scanner as its only caller.   *)
(* Validations 1 to 7 may refuse any pair of books and pass none that has  *)
(* no discrepancy; CheckPair has their detail. The inventory check may     *)
(* answer either way; Inventory has its detail. A book is its best prices, *)
(* in half dollars.                                                        *)
(***************************************************************************)
EXTENDS Integers, Sequences, Functions

CONSTANTS Exchange,
          Symbols,      \* how many symbols the loop goes through, in the order 1, 2, ...
          Tops,         \* Tops[x]: the best prices that books of x may have
          Configs,      \* the sequences of enabled_exchanges the operator sets
          Cooldown, CleanupSize, \* see Deduplicator
          MaxTime       \* bound: ticks of the interval

Symbol == 1..Symbols
NoBook == [bid |-> 0, ask |-> 0]
Top == [bid : Nat \ {0}, ask : Nat \ {0}]

ASSUME ScannerAssumption ==
  /\ Symbols \in Nat \ {0}
  /\ Tops \in [Exchange -> SUBSET Top]
  /\ \A c \in Configs : /\ c \in Seq(Exchange) /\ Len(c) <= 3
                        /\ \A i, j \in DOMAIN c : c[i] = c[j] => i = j
  /\ Cooldown \in Nat /\ CleanupSize \in Nat /\ MaxTime \in Nat

\* Decimal::round of a price in half dollars: a half goes to the even dollar.
Dollars(price) == CASE price % 4 = 1 -> (price - 1) \div 2
                    [] price % 4 = 3 -> (price + 1) \div 2
                    [] OTHER -> price \div 2

\* OpportunityFingerprint::new.
FingerprintOf(o) == [buy |-> o.buy, sell |-> o.sell, symbol |-> o.symbol,
                     buy_price |-> Dollars(o.ask), sell_price |-> Dollars(o.bid)]

Opportunity ==
  UNION {UNION {{[buy |-> x, sell |-> y, symbol |-> s, ask |-> a.ask, bid |-> b.bid] :
                   a \in Tops[x], b \in Tops[y], s \in Symbol} : y \in Exchange \ {x}} :
           x \in Exchange}

Fingerprint == {FingerprintOf(o) : o \in Opportunity}

VARIABLES book,          \* OrderBookManager: the best prices of x for s, or NoBook
          enabled,       \* config.enabled_exchanges
          due,           \* ticks of the interval not yet taken
          pc,            \* where the scanner is
          symbol,        \* the symbol it scans
          pairs,         \* <<buy, sell>>: the pairs it has still to check
          buy,           \* buy_snapshot
          opp,           \* the opportunity in hand
          found,         \* what the scan has found so far
          opportunities, \* what the dashboard reads
          recent,        \* history: what the books were since the scan began
          passed,        \* history: fingerprints that passed every check in this pass
          published      \* history: the symbol last published in this pass, or 0

\* The deduplicator's.
VARIABLES clock, seen, dpc, fp, now, todo, verdict, granted, overlapped

Me == "scanner"

D == INSTANCE Deduplicator WITH Caller <- {Me}, Shard <- {"shard"},
       ShardOf <- [f \in Fingerprint |-> "shard"], pc <- dpc

scan == <<symbol, pairs, buy, opp, found>>
history == <<recent, passed, published>>
market == <<book, enabled, due>>
dedup == <<clock, seen, dpc, fp, now, todo, verdict, granted, overlapped>>
vars == <<market, pc, scan, opportunities, history, dedup>>

NoOpportunity == [buy |-> "none", sell |-> "none", symbol |-> 0, ask |-> 0, bid |-> 0]

Init == /\ book = [x \in Exchange |-> [s \in Symbol |-> NoBook]]
        /\ enabled \in Configs
        /\ due = 0
        /\ pc = "waiting"
        /\ symbol = 1 /\ pairs = <<>> /\ buy = NoBook /\ opp = NoOpportunity
        /\ found = <<>> /\ opportunities = <<>>
        /\ recent = [x \in Exchange |-> {}]
        /\ passed = {} /\ published = 0
        /\ D!Init

-----------------------------------------------------------------------------
(* The other tasks *)

Scanning == pc \notin {"waiting", "start", "publish"}

\* A reader task updates a book.
Update(x, s, top) ==
  /\ top # book[x][s]
  /\ book' = [book EXCEPT ![x][s] = top]
  /\ recent' = [recent EXCEPT ![x] = IF Scanning /\ s = symbol THEN @ \cup {top} ELSE @]
  /\ UNCHANGED <<enabled, due, pc, scan, opportunities, passed, published, dedup>>

\* scan_opportunities keeps config.read().
ConfigLocked == Scanning

UpdateConfig == /\ ~ConfigLocked
                /\ enabled' \in Configs \ {enabled}
                /\ UNCHANGED <<book, due, pc, scan, opportunities, history, dedup>>

\* The interval ticks, whether or not the scanner has taken the last tick.
Tick == /\ D!Tick
        /\ due' = due + 1
        /\ UNCHANGED <<book, enabled, pc, scan, opportunities, history>>

-----------------------------------------------------------------------------
(* scan_opportunities *)

\* Both directions of each pair of enabled exchanges.
Pairs ==
  LET last == Len(enabled)
      both(i, j) == <<<<enabled[i], enabled[j]>>, <<enabled[j], enabled[i]>>>>
  IN  CASE last < 2 -> <<>>
        [] last = 2 -> both(1, 2)
        [] last = 3 -> both(1, 2) \o both(1, 3) \o both(2, 3)

Buy == pairs[1][1]
Sell == pairs[1][2]

TakeTick ==
  /\ pc = "waiting" /\ due > 0
  /\ due' = due - 1
  /\ pc' = "start" /\ symbol' = 1
  /\ passed' = {} /\ published' = 0
  /\ UNCHANGED <<book, enabled, pairs, buy, opp, found, opportunities, recent, dedup>>

StartScan ==
  /\ pc = "start"
  /\ pc' = IF Pairs = <<>> THEN "publish" ELSE "buy"
  /\ pairs' = Pairs
  /\ recent' = [x \in Exchange |-> {book[x][symbol]}]
  /\ UNCHANGED <<market, symbol, buy, opp, found, opportunities, passed, published, dedup>>

\* Faulty variant: one pair more than there are.
OnePairMore == pairs # <<>>

MorePairs == Len(pairs) > 1

\* On to the next pair, or out of the loops.
NextPair == /\ pc' = IF MorePairs THEN "buy" ELSE "publish"
            /\ pairs' = Tail(pairs)
            /\ buy' = NoBook /\ opp' = NoOpportunity

GetBuySnapshot ==
  /\ pc = "buy"
  /\ IF book[Buy][symbol] = NoBook
     THEN NextPair
     ELSE buy' = book[Buy][symbol] /\ pc' = "sell" /\ UNCHANGED <<pairs, opp>>
  /\ UNCHANGED <<market, symbol, found, opportunities, history, dedup>>

\* Faulty variant: once validated, the books are read again for their prices.
ReadAgain == [buy |-> Buy, sell |-> Sell, symbol |-> symbol,
              ask |-> book[Buy][symbol].ask, bid |-> book[Sell][symbol].bid]

\* What ArbitrageOpportunity::new gets.
Quoted == [buy |-> Buy, sell |-> Sell, symbol |-> symbol,
           ask |-> buy.ask, bid |-> book[Sell][symbol].bid]

\* The second snapshot and validations 1 to 7.
GetSellSnapshot ==
  /\ pc = "sell"
  /\ \/ NextPair
     \/ /\ book[Sell][symbol] # NoBook /\ book[Sell][symbol].bid > buy.ask
        /\ opp' = Quoted
        /\ pc' = "mark"
        /\ UNCHANGED <<pairs, buy>>
  /\ UNCHANGED <<market, symbol, found, opportunities, history, dedup>>

\* Validation 8: check_and_mark is called,
CheckAndMark ==
  /\ pc = "mark"
  /\ D!Check(Me, FingerprintOf(opp))
  /\ pc' = "marking"
  /\ UNCHANGED <<market, scan, opportunities, history>>

\* runs,
Marking ==
  /\ pc = "marking"
  /\ D!Step(Me)
  /\ UNCHANGED <<market, pc, scan, opportunities, history>>

\* and has returned false,
Duplicate ==
  /\ pc = "marking" /\ verdict[Me] = "duplicate"
  /\ NextPair
  /\ UNCHANGED <<market, symbol, found, opportunities, history, dedup>>

\* or true: validation 9, and the push.
CheckInventory ==
  /\ pc = "marking" /\ verdict[Me] = "new"
  /\ NextPair
  /\ \/ found' = Append(found, opp) /\ passed' = passed \cup {FingerprintOf(opp)}
     \/ UNCHANGED <<found, passed>>
  /\ UNCHANGED <<market, symbol, opportunities, recent, published, dedup>>

\* The orders a sort may give the opportunities of a sequence.
Permuted(s) == {[i \in DOMAIN s |-> s[p[i]]] : p \in Bijection(DOMAIN s, DOMAIN s)}

\* Faulty variant: only the best opportunity is kept.
BestOnly == {SubSeq(s, 1, 1) : s \in Permuted(found)}

\* sort_by profit_bps, which the fees, the slippage and the adjusted quantity of each
\* opportunity decide: CheckPair has them, and any order is possible here.
Sorted == Permuted(found)

\* Faulty variant: a scan that found nothing is repeated.
RepeatEmpty == IF found = <<>> THEN symbol ELSE symbol + 1

\* The loop goes on with the next symbol.
NextSymbol == symbol + 1

\* The scan's result replaces the vector unless it is empty.
Publish ==
  /\ pc = "publish"
  /\ IF found = <<>> THEN UNCHANGED <<opportunities, published>>
                     ELSE opportunities' \in Sorted /\ published' = symbol
  /\ found' = <<>>
  /\ recent' = [x \in Exchange |-> {}]
  /\ IF NextSymbol \in Symbol THEN pc' = "start" /\ symbol' = NextSymbol
                              ELSE pc' = "waiting" /\ symbol' = 1
  /\ UNCHANGED <<market, pairs, buy, opp, passed, dedup>>

-----------------------------------------------------------------------------
Step == \/ TakeTick \/ StartScan \/ GetBuySnapshot \/ GetSellSnapshot
        \/ CheckAndMark \/ Marking \/ Duplicate \/ CheckInventory
        \/ Publish

Next == \/ \E x \in Exchange, s \in Symbol : \E top \in Tops[x] : Update(x, s, top)
        \/ UpdateConfig \/ Tick
        \/ Step

Spec == Init /\ [][Next]_vars

\* The scanner is a spawned task; its scans await nothing.
FairSpec == Spec /\ WF_vars(Step)
-----------------------------------------------------------------------------
(* Properties *)

Offers == {opportunities[i] : i \in DOMAIN opportunities}

\* Every variable has its type; the loops stay within the pairs and the symbols.
TypeOK ==
  /\ book \in [Exchange -> [Symbol -> Top \cup {NoBook}]]
  /\ enabled \in Configs
  /\ due \in 0..MaxTime
  /\ pc \in {"waiting", "start", "buy", "sell", "mark", "marking", "publish"}
  /\ symbol \in Symbol
  /\ pairs \in Seq(Exchange \X Exchange) /\ (Scanning => pairs # <<>>)
  /\ buy \in Top \cup {NoBook}
  /\ pc \in {"mark", "marking"} => opp \in Opportunity
  /\ found \in Seq(Opportunity) /\ opportunities \in Seq(Opportunity)
  /\ D!TypeOK

\* Readers change books between the two reads of a pair, and between one pair and the
\* next. Whatever is found has a bid above its ask all the same, and each of the two is
\* a price its exchange had since the scan of the symbol began.
PricesWereHeld ==
  \A i \in DOMAIN found :
    /\ found[i].bid > found[i].ask
    /\ \E top \in recent[found[i].buy] : top.ask = found[i].ask
    /\ \E top \in recent[found[i].sell] : top.bid = found[i].bid

\* A fingerprint is marked before the dashboard has the opportunity, which nobody will
\* see again for a cooldown. At the end of a pass the dashboard has whatever passed
\* every check, but for what the scan of a later symbol has replaced.
PassedIsPublished ==
  pc = "waiting" => \A f \in passed : \/ \E o \in Offers : FingerprintOf(o) = f
                                      \/ f.symbol < published

\* Every pass ends, through all symbols, unless check_and_mark finds the entry of its
\* fingerprint expired.
PassesEnd == pc # "waiting" ~> pc = "waiting" \/ dpc[Me] = "insert_expired"
=============================================================================
