---------------------------- MODULE Scanner_proofs ----------------------------
(***************************************************************************)
(* Proofs about Scanner, for any number of exchanges, symbols, prices and  *)
(* configurations, any cooldown and any size of the cache.                 *)
(*                                                                         *)
(* What is found was held (Honest) because the books of the scanned        *)
(* symbol are among those remembered since the scan began; what passed is  *)
(* shown (Kept) because a scan's result replaces only results of symbols   *)
(* before it. The deduplicator's part of the invariant is proved in        *)
(* Deduplicator_proofs and used here as an instance.                       *)
(***************************************************************************)
EXTENDS Scanner, TLAPS

DP == INSTANCE Deduplicator_proofs WITH Caller <- {Me}, Shard <- {"shard"},
        ShardOf <- [f \in Fingerprint |-> "shard"], pc <- dpc

-----------------------------------------------------------------------------
(* The deduplicator with one caller and one shard *)

\* The instance's assumption.
LEMMA DedupAssumption ==
  /\ [f \in Fingerprint |-> "shard"] \in [Fingerprint -> {"shard"}]
  /\ Cooldown \in Nat /\ CleanupSize \in Nat /\ MaxTime \in Nat
BY ScannerAssumption

\* Every step that the scanner or the clock takes in it is a step of its specification.
LEMMA DedupStep ==
  ASSUME \/ D!Tick \/ D!Step(Me) \/ UNCHANGED dedup
         \/ \E f \in Fingerprint : D!Check(Me, f)
  PROVE  [DP!Next]_(DP!vars)
<1>1. ASSUME NEW f \in Fingerprint, D!Check(Me, f) PROVE DP!Next
  <2>1. DP!Check(Me, f)
    BY <1>1 DEF D!Check, DP!Check, D!Begin, DP!Begin, D!Calling, DP!Calling
  <2> QED
    BY <2>1 DEF DP!Next
<1>2. CASE D!CheckSize(Me)
  <2>1. DP!CheckSize(Me)
    BY <1>2 DEF D!CheckSize, DP!CheckSize, D!Cached, DP!Cached, D!Never, DP!Never,
                D!Cardinality, DP!Cardinality
  <2> QED
    BY <2>1 DEF DP!Next, DP!Step
<1>3. ASSUME NEW s \in {"shard"}, D!CleanupShard(Me, s) PROVE DP!Next
  <2>1. DP!CleanupShard(Me, s)
    BY <1>3 DEF D!CleanupShard, DP!CleanupShard, D!ReadGuards, DP!ReadGuards, D!Retained,
                DP!Retained, D!Elapsed, DP!Elapsed, D!Never, DP!Never
  <2> QED
    BY <2>1 DEF DP!Next, DP!Step
<1>4. ASSUME NEW s \in {"shard"}, D!ClearShard(Me, s) PROVE DP!Next
  <2>1. DP!ClearShard(Me, s)
    BY <1>4 DEF D!ClearShard, DP!ClearShard, D!ReadGuards, DP!ReadGuards, D!Never, DP!Never
  <2> QED
    BY <2>1 DEF DP!Next, DP!Step
<1>5. CASE D!CleanupDone(Me) \/ D!ClearDone(Me)
  BY <1>5 DEF D!CleanupDone, DP!CleanupDone, D!ClearDone, DP!ClearDone, DP!Next, DP!Step
<1>6. CASE D!Get(Me)
  BY <1>6 DEF D!Get, DP!Get, D!InCooldown, DP!InCooldown, D!Elapsed, DP!Elapsed,
              D!Never, DP!Never, DP!Next, DP!Step
<1>7. CASE D!Insert(Me)
  BY <1>7 DEF D!Insert, DP!Insert, D!Mark, DP!Mark, D!ReadGuards, DP!ReadGuards,
              DP!Next, DP!Step
<1>8. CASE D!Tick
  BY <1>8 DEF D!Tick, DP!Tick, DP!Next
<1>9. CASE UNCHANGED dedup
  BY <1>9 DEF dedup, DP!vars
<1> QED
  BY <1>1, <1>2, <1>3, <1>4, <1>5, <1>6, <1>7, <1>8, <1>9 DEF D!Step

\* Its invariant holds at the start, is kept, and has its types.
LEMMA DedupInvariant ==
  /\ D!Init => DP!IInv
  /\ DP!IInv /\ [DP!Next]_(DP!vars) => DP!IInv'
  /\ DP!IInv => D!TypeOK
<1>1. D!Init => DP!IInv
  BY DP!InitIInv, DedupAssumption DEF D!Init, DP!Init, D!Never, DP!Never
<1>2. DP!IInv /\ [DP!Next]_(DP!vars) => DP!IInv'
  BY DP!NextIInv, DedupAssumption
<1>3. DP!IInv => D!TypeOK
  BY DEF DP!IInv, DP!TypeOK, D!TypeOK, D!Time, DP!Time, D!Never, DP!Never, D!Places, DP!Places
<1> QED
  BY <1>1, <1>2, <1>3

-----------------------------------------------------------------------------
(* The inductive invariant *)

Pair == {xy \in Exchange \X Exchange : xy[1] # xy[2]}

\* A book is one its exchange may have, and the books of the scanned symbol are among
\* those remembered.
Books ==
  /\ book \in [Exchange -> [Symbol -> Top \cup {NoBook}]]
  /\ \A x \in Exchange, s \in Symbol : book[x][s] \in Tops[x] \cup {NoBook}
  /\ recent \in [Exchange -> SUBSET (Top \cup {NoBook})]
  /\ Scanning => \A x \in Exchange : book[x][symbol] \in recent[x]

\* The loops stay within the pairs and the symbols.
Loops ==
  /\ enabled \in Configs
  /\ due \in Nat /\ due <= clock
  /\ pc \in {"waiting", "start", "buy", "sell", "mark", "marking", "publish"}
  /\ symbol \in Symbol
  /\ pairs \in Seq(Pair) /\ (Scanning => pairs # <<>>)
  /\ buy \in Top \cup {NoBook}
  /\ pc = "sell" => buy \in Tops[Buy] /\ buy \in recent[Buy]

\* Both prices of an opportunity were those of a remembered book.
WasHeld(o) ==
  /\ o.symbol = symbol /\ o.bid > o.ask
  /\ \E top \in recent[o.buy] : top.ask = o.ask
  /\ \E top \in recent[o.sell] : top.bid = o.bid

Honest ==
  /\ pc \in {"mark", "marking"} => opp \in Opportunity /\ WasHeld(opp)
  /\ found \in Seq(Opportunity) /\ \A i \in DOMAIN found : WasHeld(found[i])
  /\ opportunities \in Seq(Opportunity)
  /\ pc \in {"waiting", "start"} => found = <<>>

Shown(f) == (\E o \in Offers : FingerprintOf(o) = f) \/ f.symbol < published

\* What passed is in the scan's result or, since the scan of an earlier symbol, shown.
Kept ==
  /\ published \in Nat /\ passed \subseteq Fingerprint
  /\ pc = "waiting" => \A f \in passed : Shown(f)
  /\ pc # "waiting" =>
       /\ published <= symbol
       /\ \A f \in passed : \/ \E i \in DOMAIN found : FingerprintOf(found[i]) = f
                            \/ f.symbol < symbol /\ Shown(f)

IScan == Books /\ Loops /\ Honest /\ Kept /\ DP!IInv

-----------------------------------------------------------------------------
(* Operators *)

\* An opportunity is one of two exchanges, at prices of their books.
LEMMA OpportunityIs ==
  /\ \A x \in Exchange, y \in Exchange, s \in Symbol : \A a \in Tops[x], b \in Tops[y] :
       x # y => [buy |-> x, sell |-> y, symbol |-> s, ask |-> a.ask, bid |-> b.bid] \in Opportunity
  /\ \A o \in Opportunity : /\ o.buy \in Exchange /\ o.sell \in Exchange /\ o.symbol \in Symbol
                            /\ FingerprintOf(o) \in Fingerprint
<1>1. ASSUME NEW x \in Exchange, NEW y \in Exchange, NEW s \in Symbol,
             NEW a \in Tops[x], NEW b \in Tops[y], x # y
      PROVE  [buy |-> x, sell |-> y, symbol |-> s, ask |-> a.ask, bid |-> b.bid] \in Opportunity
  <2>1. y \in Exchange \ {x}
    BY <1>1
  <2> QED
    BY <2>1 DEF Opportunity
<1>2. ASSUME NEW o \in Opportunity
      PROVE  /\ o.buy \in Exchange /\ o.sell \in Exchange /\ o.symbol \in Symbol
             /\ FingerprintOf(o) \in Fingerprint
  BY DEF Opportunity, Fingerprint
<1> QED
  BY <1>1, <1>2

\* A fingerprint keeps the symbol.
LEMMA FingerprintSymbol ==
  /\ \A o : FingerprintOf(o).symbol = o.symbol
  /\ \A f \in Fingerprint : f.symbol \in Symbol
BY OpportunityIs DEF FingerprintOf, Fingerprint

\* The loops go through pairs of two different exchanges.
LEMMA PairsType == enabled \in Configs => Pairs \in Seq(Pair)
<1> SUFFICES ASSUME enabled \in Configs PROVE Pairs \in Seq(Pair)
  OBVIOUS
<1>1. /\ enabled \in Seq(Exchange) /\ Len(enabled) <= 3 /\ Len(enabled) \in Nat
      /\ \A i, j \in 1..Len(enabled) : enabled[i] = enabled[j] => i = j
  BY ScannerAssumption
<1> DEFINE both(i, j) == <<<<enabled[i], enabled[j]>>, <<enabled[j], enabled[i]>>>>
<1>2. ASSUME NEW i \in 1..Len(enabled), NEW j \in 1..Len(enabled), i # j
      PROVE  both(i, j) \in Seq(Pair)
  <2>1. <<enabled[i], enabled[j]>> \in Pair /\ <<enabled[j], enabled[i]>> \in Pair
    BY <1>1, <1>2 DEF Pair
  <2> QED
    BY <2>1
<1>3. CASE Len(enabled) < 2
  BY <1>3 DEF Pairs
<1>4. CASE Len(enabled) = 2
  <2>1. both(1, 2) \in Seq(Pair)
    BY <1>2, <1>4
  <2> QED
    BY <1>4, <2>1 DEF Pairs
<1>5. CASE Len(enabled) = 3
  <2>1. both(1, 2) \in Seq(Pair) /\ both(1, 3) \in Seq(Pair) /\ both(2, 3) \in Seq(Pair)
    BY <1>2, <1>5
  <2>2. Pairs = both(1, 2) \o both(1, 3) \o both(2, 3)
    BY <1>5 DEF Pairs
  <2> HIDE DEF both
  <2> QED
    BY <2>1, <2>2
<1>6. Len(enabled) < 2 \/ Len(enabled) = 2 \/ Len(enabled) = 3
  <2> DEFINE n == Len(enabled)
  <2>1. n \in Nat /\ n <= 3
    BY <1>1
  <2> HIDE DEF n
  <2>2. n < 2 \/ n = 2 \/ n = 3
    BY <2>1
  <2> QED
    BY <2>2 DEF n
<1> QED
  BY ONLY <1>3, <1>4, <1>5, <1>6

\* A sorted sequence has the elements of the one that is sorted.
LEMMA SortedKeeps ==
  ASSUME NEW S, NEW s \in Seq(S), NEW r \in Permuted(s)
  PROVE  /\ r \in Seq(S) /\ DOMAIN r = DOMAIN s
         /\ \A i \in DOMAIN s : \E j \in DOMAIN r : r[j] = s[i]
<1>1. PICK p \in Bijection(DOMAIN s, DOMAIN s) : r = [i \in DOMAIN s |-> s[p[i]]]
  BY DEF Permuted
<1>2. /\ p \in [DOMAIN s -> DOMAIN s]
      /\ \A i \in DOMAIN s : \E j \in DOMAIN s : p[j] = i
  BY DEF Bijection, Injection, Surjection
<1>3. r \in Seq(S)
  <2>1. DOMAIN s = 1..Len(s) /\ Len(s) \in Nat /\ \A i \in 1..Len(s) : s[i] \in S
    OBVIOUS
  <2>2. r \in [1..Len(s) -> S]
    BY <1>1, <1>2, <2>1
  <2> QED
    BY <2>1, <2>2
<1> QED
  BY <1>1, <1>2, <1>3

-----------------------------------------------------------------------------
(* The steps *)

\* A scan that begins remembers the books as they are, and every update while it runs.
LEMMA BooksStep ==
  ASSUME IScan, Next
  PROVE  Books'
<1> USE DEF IScan
<1>1. Books /\ symbol \in Symbol /\ Symbol # {}
  BY DEF Loops
<1>2. \A x \in Exchange : Tops[x] \in SUBSET Top
  BY ScannerAssumption
<1>3. ASSUME NEW x \in Exchange, NEW s \in Symbol, NEW top \in Tops[x], Update(x, s, top)
      PROVE  Books'
  <2>1. /\ book' = [book EXCEPT ![x][s] = top] /\ UNCHANGED <<pc, symbol>>
        /\ recent' = [recent EXCEPT ![x] = IF Scanning /\ s = symbol THEN @ \cup {top} ELSE @]
        /\ top \in Top
    BY <1>2, <1>3 DEF Update, scan
  <2>2. /\ book' \in [Exchange -> [Symbol -> Top \cup {NoBook}]]
        /\ \A y \in Exchange, r \in Symbol :
             book'[y][r] = IF y = x /\ r = s THEN top ELSE book[y][r]
    BY <1>1, <2>1 DEF Books
  <2>3. /\ recent' \in [Exchange -> SUBSET (Top \cup {NoBook})]
        /\ \A y \in Exchange : recent[y] \subseteq recent'[y]
        /\ Scanning /\ s = symbol => top \in recent'[x]
    BY <1>1, <2>1 DEF Books
  <2>4. Scanning' = Scanning
    BY <2>1 DEF Scanning
  <2>5. \A y \in Exchange, r \in Symbol : book'[y][r] \in Tops[y] \cup {NoBook}
    BY <1>1, <2>2 DEF Books
  <2>6. ASSUME Scanning, NEW y \in Exchange PROVE book'[y][symbol'] \in recent'[y]
    BY <1>1, <2>1, <2>2, <2>3, <2>6 DEF Books
  <2> QED
    BY <2>2, <2>3, <2>4, <2>5, <2>6 DEF Books
<1>4. CASE StartScan
  <2>1. /\ UNCHANGED <<book, symbol>> /\ recent' = [x \in Exchange |-> {book[x][symbol]}]
    BY <1>4 DEF StartScan, market
  <2>2. \A x \in Exchange : book[x][symbol] \in Top \cup {NoBook}
    BY <1>1 DEF Books
  <2>3. recent' \in [Exchange -> SUBSET (Top \cup {NoBook})]
    BY <2>1, <2>2
  <2> QED
    BY <1>1, <2>1, <2>3 DEF Books
<1>5. CASE Publish
  <2>1. UNCHANGED book /\ recent' = [x \in Exchange |-> {}] /\ ~Scanning'
    BY <1>5 DEF Publish, market, Scanning
  <2> QED
    BY <1>1, <2>1 DEF Books
<1>6. CASE TakeTick
  <2>1. UNCHANGED <<book, recent>> /\ ~Scanning'
    BY <1>6 DEF TakeTick, Scanning
  <2> QED
    BY <1>1, <2>1 DEF Books
<1>7. ASSUME UNCHANGED <<book, recent, symbol>>, Scanning' => Scanning
      PROVE  Books'
  BY <1>1, <1>7 DEF Books
<1>8. CASE UpdateConfig \/ Tick
  BY <1>7, <1>8 DEF UpdateConfig, Tick, scan, history, Scanning
<1>9. CASE GetBuySnapshot \/ GetSellSnapshot
  BY <1>7, <1>9 DEF GetBuySnapshot, GetSellSnapshot, market, history, Scanning
<1>10. CASE CheckAndMark \/ Marking
  BY <1>7, <1>10 DEF CheckAndMark, Marking, market, history, scan, Scanning
<1>11. CASE Duplicate \/ CheckInventory
  BY <1>7, <1>11 DEF Duplicate, CheckInventory, market, history, Scanning
<1> QED
  BY <1>3, <1>4, <1>5, <1>6, <1>8, <1>9, <1>10, <1>11 DEF Next, Step

\* On to the next pair: the loops stay within the pairs.
LEMMA NextPairType ==
  ASSUME pairs \in Seq(Pair), pairs # <<>>, NextPair
  PROVE  /\ pairs' \in Seq(Pair) /\ pc' \in {"buy", "publish"}
         /\ pc' = "buy" => pairs' # <<>>
         /\ buy' = NoBook
<1>1. pairs' = Tail(pairs) /\ Len(pairs) \in Nat /\ Len(pairs) > 0
  BY DEF NextPair
<1>2. Tail(pairs) \in Seq(Pair) /\ Len(Tail(pairs)) = Len(pairs) - 1
  BY <1>1
<1>3. Len(pairs) > 1 => Tail(pairs) # <<>>
  <2> DEFINE rest == Tail(pairs)
             n == Len(pairs)
             m == Len(rest)
  <2>1. n \in Nat /\ m = n - 1
    BY <1>1, <1>2
  <2> HIDE DEF n, rest
  <2>2. rest = <<>> => m = 0
    OBVIOUS
  <2> HIDE DEF m
  <2>3. n > 1 => m # 0
    BY <2>1
  <2> QED
    BY <2>2, <2>3 DEF n, rest
<1> QED
  BY <1>1, <1>2, <1>3 DEF NextPair, MorePairs

\* The pair in hand.
LEMMA PairInHand ==
  ASSUME pairs \in Seq(Pair), pairs # <<>>
  PROVE  Buy \in Exchange /\ Sell \in Exchange /\ Buy # Sell
<1>1. pairs[1] \in Pair
  OBVIOUS
<1> QED
  BY <1>1 DEF Pair, Buy, Sell

\* The loops stay within the pairs and the symbols.
LEMMA LoopsStep ==
  ASSUME IScan, Next
  PROVE  Loops'
<1> USE DEF IScan
<1>1. clock \in Nat
  BY DedupInvariant DEF D!TypeOK, D!Time
<1>2. Loops /\ Books
  OBVIOUS
<1>3. ASSUME NEW x \in Exchange, NEW s \in Symbol, NEW top \in Tops[x], Update(x, s, top)
      PROVE  Loops'
  <2>1. /\ UNCHANGED <<enabled, due, clock, pc, symbol, pairs, buy>>
        /\ recent' = [recent EXCEPT ![x] = IF Scanning /\ s = symbol THEN @ \cup {top} ELSE @]
    BY <1>3 DEF Update, scan, dedup
  <2>2. \A y \in Exchange : recent[y] \subseteq recent'[y]
    BY <1>2, <2>1 DEF Books
  <2>3. Scanning' = Scanning /\ Buy' = Buy
    BY <2>1 DEF Scanning, Buy
  <2>4. pc = "sell" => Buy \in Exchange
    BY <1>2, PairInHand DEF Loops, Scanning
  <2> QED
    BY <1>2, <2>1, <2>2, <2>3, <2>4 DEF Loops
<1>4. CASE UpdateConfig
  BY <1>2, <1>4 DEF UpdateConfig, Loops, ConfigLocked, scan, dedup, history, Scanning, Buy
<1>5. CASE Tick
  <2>1. /\ due' = due + 1 /\ clock' = clock + 1
        /\ UNCHANGED <<enabled, pc, symbol, pairs, buy, recent>>
    BY <1>5 DEF Tick, D!Tick, scan, history
  <2>2. due + 1 \in Nat /\ due + 1 <= clock + 1
    BY <1>1, <1>2 DEF Loops
  <2>3. Scanning' = Scanning /\ Buy' = Buy
    BY <2>1 DEF Scanning, Buy
  <2> QED
    BY <1>2, <2>1, <2>2, <2>3 DEF Loops
<1>6. CASE TakeTick
  <2>1. due - 1 \in Nat /\ due - 1 <= clock /\ 1 \in Symbol
    BY <1>1, <1>2, <1>6, ScannerAssumption DEF Loops, TakeTick, Symbol
  <2> QED
    BY <1>2, <1>6, <2>1 DEF Loops, TakeTick, dedup, Scanning
<1>7. CASE StartScan
  <2>1. /\ UNCHANGED <<enabled, due, clock, symbol, buy>> /\ pairs' = Pairs
        /\ pc' = IF Pairs = <<>> THEN "publish" ELSE "buy"
    BY <1>7 DEF StartScan, market, dedup
  <2>2. Pairs \in Seq(Pair)
    BY <1>2, PairsType DEF Loops
  <2> QED
    BY <1>2, <2>1, <2>2 DEF Loops, Scanning
<1>8. CASE GetBuySnapshot
  <2>1. UNCHANGED <<enabled, due, clock, symbol, book, recent>> /\ pc = "buy" /\ pairs # <<>>
    BY <1>2, <1>8 DEF GetBuySnapshot, market, dedup, history, Loops, Scanning
  <2>2. CASE NextPair
    BY <1>2, <2>1, <2>2, NextPairType DEF Loops, Scanning
  <2>3. CASE /\ book[Buy][symbol] # NoBook /\ buy' = book[Buy][symbol] /\ pc' = "sell"
             /\ pairs' = pairs
    <3>1. Buy \in Exchange /\ Buy' = Buy
      BY <1>2, <2>1, <2>3, PairInHand DEF Loops, Buy
    <3>2. book[Buy][symbol] \in Tops[Buy] /\ book[Buy][symbol] \in recent[Buy]
      BY <1>2, <2>1, <2>3, <3>1 DEF Books, Loops, Scanning
    <3>3. book[Buy][symbol] \in Top
      BY <3>1, <3>2, ScannerAssumption
    <3> QED
      BY <1>2, <2>1, <2>3, <3>1, <3>2, <3>3 DEF Loops
  <2> QED
    BY <1>8, <2>2, <2>3 DEF GetBuySnapshot
<1>9. CASE GetSellSnapshot
  <2>1. UNCHANGED <<enabled, due, clock, symbol>> /\ pc = "sell" /\ pairs # <<>>
    BY <1>2, <1>9 DEF GetSellSnapshot, market, dedup, Loops, Scanning
  <2>2. CASE NextPair
    BY <1>2, <2>1, <2>2, NextPairType DEF Loops, Scanning
  <2>3. CASE pc' = "mark" /\ UNCHANGED <<pairs, buy>>
    BY <1>2, <2>1, <2>3 DEF Loops, Scanning
  <2> QED
    BY <1>9, <2>2, <2>3 DEF GetSellSnapshot
<1>10. CASE CheckAndMark
  BY <1>2, <1>10 DEF CheckAndMark, D!Check, market, scan, Loops, Scanning
<1>11. CASE Marking
  <2>1. UNCHANGED clock
    BY <1>11 DEF Marking, D!Step, D!CheckSize, D!CleanupShard, D!ClearShard, D!CleanupDone,
                 D!ClearDone, D!Get, D!Insert
  <2> QED
    BY <1>2, <1>11, <2>1 DEF Marking, market, scan, Loops, Scanning
<1>12. CASE Duplicate \/ CheckInventory
  <2>1. /\ UNCHANGED <<enabled, due, clock, symbol>> /\ pairs # <<>> /\ NextPair
    BY <1>2, <1>12 DEF Duplicate, CheckInventory, market, dedup, Loops, Scanning
  <2> QED
    BY <1>2, <2>1, NextPairType DEF Loops, Scanning
<1>13. CASE Publish
  <2>1. /\ UNCHANGED <<enabled, due, clock, pairs, buy>> /\ pc' \in {"start", "waiting"}
        /\ symbol' \in Symbol
    BY <1>13, ScannerAssumption DEF Publish, market, dedup, NextSymbol, Symbol
  <2> QED
    BY <1>2, <2>1 DEF Loops, Scanning
<1> QED
  BY <1>3, <1>4, <1>5, <1>6, <1>7, <1>8, <1>9, <1>10, <1>11, <1>12, <1>13 DEF Next, Step

\* A step that changes none of what is found, and forgets no book that is remembered
\* and no opportunity, leaves what is found honest.
LEMMA HeldStays ==
  ASSUME NEW o \in Opportunity, WasHeld(o), symbol' = symbol,
         \A x \in Exchange : recent[x] \subseteq recent'[x]
  PROVE  WasHeld(o)'
<1>1. o.buy \in Exchange /\ o.sell \in Exchange
  BY OpportunityIs
<1> QED
  BY <1>1 DEF WasHeld

\* What is found was held, whoever updates the books in the meantime.
LEMMA HonestStep ==
  ASSUME IScan, Next
  PROVE  Honest'
<1>1. Honest /\ Loops /\ Books
  BY DEF IScan
<1>2. /\ found \in Seq(Opportunity) /\ \A i \in DOMAIN found : found[i] \in Opportunity
      /\ \A i \in DOMAIN found : WasHeld(found[i])
  BY <1>1 DEF Honest
<1>3. ASSUME UNCHANGED <<pc, symbol, opp, found, opportunities>>,
             \A x \in Exchange : recent[x] \subseteq recent'[x]
      PROVE  Honest'
  BY <1>1, <1>2, <1>3, HeldStays DEF Honest
<1>4. ASSUME NEW x \in Exchange, NEW s \in Symbol, NEW top \in Tops[x], Update(x, s, top)
      PROVE  Honest'
  <2>1. \A y \in Exchange : recent[y] \subseteq recent'[y]
    BY <1>1, <1>4 DEF Update, Books
  <2> QED
    BY <1>3, <1>4, <2>1 DEF Update, scan
<1>5. CASE UpdateConfig \/ Tick
  BY <1>3, <1>5 DEF UpdateConfig, Tick, scan, history
<1>6. CASE TakeTick
  BY <1>1, <1>6 DEF TakeTick, Honest
<1>7. CASE StartScan
  BY <1>1, <1>7 DEF StartScan, Honest
\* A scan that goes on to the next pair with what it has found.
<1>8. ASSUME UNCHANGED <<symbol, found, opportunities, recent>>, pc' \in {"buy", "sell", "publish"}
      PROVE  Honest'
  BY <1>1, <1>2, <1>8 DEF Honest, WasHeld
<1>9. CASE GetBuySnapshot
  BY <1>8, <1>9 DEF GetBuySnapshot, NextPair, history
<1>10. CASE GetSellSnapshot
  <2>1. UNCHANGED <<symbol, found, opportunities, recent>> /\ pc = "sell" /\ pairs # <<>>
    BY <1>1, <1>10 DEF GetSellSnapshot, history, Loops, Scanning
  <2>2. CASE NextPair
    BY <1>8, <2>1, <2>2 DEF NextPair
  <2>3. CASE /\ book[Sell][symbol] # NoBook /\ book[Sell][symbol].bid > buy.ask
             /\ opp' = Quoted /\ pc' = "mark"
    <3>1. /\ Buy \in Exchange /\ Sell \in Exchange /\ Buy # Sell
          /\ buy \in Tops[Buy] /\ buy \in recent[Buy] /\ symbol \in Symbol
      BY <1>1, <2>1, PairInHand DEF Loops
    <3>2. book[Sell][symbol] \in Tops[Sell] /\ book[Sell][symbol] \in recent[Sell]
      BY <1>1, <2>1, <2>3, <3>1 DEF Books, Scanning
    <3>3. Quoted \in Opportunity
      BY <3>1, <3>2, OpportunityIs DEF Quoted
    <3>4. WasHeld(Quoted)
      BY <2>3, <3>1, <3>2 DEF WasHeld, Quoted
    <3>5. opp' \in Opportunity /\ WasHeld(opp)'
      BY <2>1, <2>3, <3>3, <3>4 DEF WasHeld
    <3> QED
      BY <1>1, <1>2, <2>1, <2>3, <3>5 DEF Honest, WasHeld
  <2> QED
    BY <1>10, <2>2, <2>3 DEF GetSellSnapshot
<1>11. CASE CheckAndMark \/ Marking
  <2>1. /\ UNCHANGED <<symbol, found, opportunities, recent, opp>>
        /\ pc \in {"mark", "marking"} /\ pc' = "marking"
    BY <1>11 DEF CheckAndMark, Marking, history, scan
  <2> QED
    BY <1>1, <1>2, <2>1 DEF Honest, WasHeld
<1>12. CASE Duplicate
  BY <1>8, <1>12 DEF Duplicate, NextPair, history
<1>13. CASE CheckInventory
  <2>1. /\ UNCHANGED <<symbol, opportunities, recent>> /\ pc = "marking" /\ pc' \in {"buy", "publish"}
    BY <1>13 DEF CheckInventory, NextPair
  <2>2. CASE found' = found
    BY <1>8, <2>1, <2>2
  <2>3. CASE found' = Append(found, opp)
    <3>1. opp \in Opportunity /\ WasHeld(opp)
      BY <1>1, <2>1 DEF Honest
    <3>2. /\ found' \in Seq(Opportunity)
          /\ \A i \in DOMAIN found' : (i \in DOMAIN found /\ found'[i] = found[i]) \/ found'[i] = opp
      BY <1>2, <2>3, <3>1
    <3>3. \A i \in DOMAIN found' : WasHeld(found'[i])
      BY <1>2, <3>1, <3>2
    <3>4. \A o : WasHeld(o) => WasHeld(o)'
      BY <2>1 DEF WasHeld
    <3>5. \A i \in DOMAIN found' : WasHeld(found[i])'
      BY <2>1, <3>3 DEF WasHeld
    <3> QED
      BY <1>1, <2>1, <3>2, <3>5 DEF Honest
  <2> QED
    BY <1>13, <2>2, <2>3 DEF CheckInventory
<1>14. CASE Publish
  <2>1. found' = <<>> /\ pc' \in {"start", "waiting"}
    BY <1>14 DEF Publish
  <2>2. opportunities' \in Seq(Opportunity)
    BY <1>1, <1>2, <1>14, SortedKeeps DEF Publish, Sorted, Honest
  <2> QED
    BY <2>1, <2>2 DEF Honest
<1> QED
  BY <1>4, <1>5, <1>6, <1>7, <1>9, <1>10, <1>11, <1>12, <1>13, <1>14 DEF Next, Step

\* What has passed every check is kept until it is shown.
LEMMA KeptStep ==
  ASSUME IScan, Next
  PROVE  Kept'
<1>1. Kept /\ Honest /\ Loops
  BY DEF IScan
<1>2. /\ symbol \in Nat /\ published \in Nat /\ \A f \in passed : f.symbol \in Int
      /\ passed \subseteq Fingerprint
  <2>1. \A s \in Symbol : s \in Nat
    BY ScannerAssumption DEF Symbol
  <2>2. passed \subseteq Fingerprint
    BY <1>1 DEF Kept
  <2>3. \A f \in passed : f.symbol \in Symbol
    BY <2>2, FingerprintSymbol
  <2> QED
    BY <1>1, <2>1, <2>2, <2>3 DEF Kept, Loops
<1>3. ASSUME UNCHANGED <<symbol, found, opportunities, passed, published>>,
             pc' = "waiting" <=> pc = "waiting"
      PROVE  Kept'
  BY <1>1, <1>3 DEF Kept, Shown, Offers
<1>4. ASSUME NEW x \in Exchange, NEW s \in Symbol, NEW top \in Tops[x], Update(x, s, top)
      PROVE  Kept'
  BY <1>3, <1>4 DEF Update, scan
<1>5. CASE UpdateConfig \/ Tick
  BY <1>3, <1>5 DEF UpdateConfig, Tick, scan, history
<1>6. CASE TakeTick
  BY <1>6 DEF TakeTick, Kept
<1>7. CASE StartScan \/ GetBuySnapshot
  BY <1>3, <1>7 DEF StartScan, GetBuySnapshot, NextPair, history
<1>8. CASE GetSellSnapshot \/ Duplicate
  BY <1>3, <1>8 DEF GetSellSnapshot, Duplicate, NextPair, history
<1>9. CASE CheckAndMark \/ Marking
  BY <1>3, <1>9 DEF CheckAndMark, Marking, history, scan
<1>10. CASE CheckInventory
  <2>1. /\ UNCHANGED <<symbol, opportunities, published>> /\ pc = "marking" /\ pc' # "waiting"
    BY <1>10 DEF CheckInventory, NextPair
  <2>2. CASE UNCHANGED <<found, passed>>
    BY <1>3, <2>1, <2>2
  <2>3. CASE found' = Append(found, opp) /\ passed' = passed \cup {FingerprintOf(opp)}
    <3>1. opp \in Opportunity /\ FingerprintOf(opp) \in Fingerprint /\ found \in Seq(Opportunity)
      BY <1>1, <2>1, OpportunityIs DEF Honest
    <3>2. /\ \A i \in DOMAIN found : i \in DOMAIN found' /\ found'[i] = found[i]
          /\ \E i \in DOMAIN found' : found'[i] = opp
      <4>1. Len(found) + 1 \in DOMAIN found' /\ found'[Len(found) + 1] = opp
        BY <2>3, <3>1
      <4>2. \A i \in DOMAIN found : i \in DOMAIN found' /\ found'[i] = found[i]
        BY <2>3, <3>1
      <4> QED
        BY <4>1, <4>2
    <3>3. ASSUME NEW f \in passed'
          PROVE  \/ \E i \in DOMAIN found' : FingerprintOf(found'[i]) = f
                 \/ f.symbol < symbol /\ Shown(f)
      <4>1. CASE f \in passed
        <5>1. \/ \E i \in DOMAIN found : FingerprintOf(found[i]) = f
              \/ f.symbol < symbol /\ Shown(f)
          BY <1>1, <2>1, <4>1 DEF Kept
        <5> QED
          BY <3>2, <5>1
      <4>2. CASE f = FingerprintOf(opp)
        BY <3>2, <4>2
      <4> QED
        BY <2>3, <4>1, <4>2
    <3>4. /\ \A f : Shown(f)' <=> Shown(f)
          /\ \A i \in DOMAIN found' : FingerprintOf(found[i])' = FingerprintOf(found'[i])
      BY <2>1 DEF Shown, Offers, FingerprintOf
    <3>5. /\ published' \in Nat /\ passed' \subseteq Fingerprint /\ published' <= symbol'
      BY <1>1, <1>2, <2>1, <2>3, <3>1 DEF Kept
    <3> QED
      BY <2>1, <3>3, <3>4, <3>5 DEF Kept, Shown, Offers, FingerprintOf
  <2> QED
    BY <1>10, <2>2, <2>3 DEF CheckInventory
<1>11. CASE Publish
  <2>1. /\ pc = "publish" /\ passed' = passed /\ found' = <<>>
        /\ \/ pc' = "start" /\ symbol' = symbol + 1
           \/ pc' = "waiting"
    BY <1>11 DEF Publish, NextSymbol
  <2>2. /\ published <= symbol
        /\ \A f \in passed : \/ \E i \in DOMAIN found : FingerprintOf(found[i]) = f
                             \/ f.symbol < symbol /\ Shown(f)
    BY <1>1, <2>1 DEF Kept
  <2>3. \A i \in DOMAIN found : FingerprintOf(found[i]).symbol = symbol
    BY <1>1, FingerprintSymbol DEF Honest, WasHeld
  <2>4. published' \in Nat /\ published' <= symbol
    BY <1>2, <1>11, <2>2 DEF Publish
  <2>5. ASSUME NEW f \in passed PROVE Shown(f)' /\ f.symbol < symbol + 1
    <3>1. CASE found = <<>>
      <4>1. f.symbol < symbol /\ Shown(f)
        BY <2>2, <3>1
      <4>2. UNCHANGED <<opportunities, published>>
        BY <1>11, <3>1 DEF Publish
      <4> QED
        BY <1>2, <4>1, <4>2 DEF Shown, Offers
    <3>2. CASE found # <<>>
      <4>1. opportunities' \in Sorted /\ published' = symbol
        BY <1>11, <3>2 DEF Publish
      <4>2. CASE f.symbol < symbol
        BY <1>2, <4>1, <4>2 DEF Shown
      <4>3. ASSUME NEW i \in DOMAIN found, FingerprintOf(found[i]) = f
            PROVE  Shown(f)' /\ f.symbol < symbol + 1
        <5>1. found \in Seq(Opportunity)
          BY <1>1 DEF Honest
        <5>2. \E j \in DOMAIN opportunities' : opportunities'[j] = found[i]
          BY <4>1, <5>1, SortedKeeps DEF Sorted
        <5>3. \E o \in Offers' : FingerprintOf(o) = f
          BY <4>3, <5>2 DEF Offers
        <5>4. f.symbol = symbol
          BY <2>3, <4>3
        <5> QED
          BY <1>2, <5>3, <5>4 DEF Shown, FingerprintOf
      <4> QED
        BY <2>2, <4>2, <4>3
    <3> QED
      BY <3>1, <3>2
  <2>6. CASE pc' = "start" /\ symbol' = symbol + 1
    <3>1. published' <= symbol + 1
      <4> DEFINE last == published'
      <4>1. last \in Nat /\ last <= symbol
        BY <2>4
      <4> HIDE DEF last
      <4>2. last <= symbol + 1
        BY <1>2, <4>1
      <4> QED
        BY <4>2 DEF last
    <3> QED
      BY <1>2, <2>1, <2>4, <2>5, <2>6, <3>1 DEF Kept
  <2>7. CASE pc' = "waiting"
    BY <1>2, <2>1, <2>4, <2>5, <2>7 DEF Kept
  <2> QED
    BY <2>1, <2>6, <2>7
<1> QED
  BY <1>4, <1>5, <1>6, <1>7, <1>8, <1>9, <1>10, <1>11 DEF Next, Step

\* The scanner's calls are steps of the deduplicator.
LEMMA DedupKept ==
  ASSUME IScan, Next
  PROVE  DP!IInv'
<1>1. ASSUME D!Tick \/ D!Step(Me) \/ UNCHANGED dedup \/ \E f \in Fingerprint : D!Check(Me, f)
      PROVE  DP!IInv'
  BY <1>1, DedupStep, DedupInvariant DEF IScan
<1>2. ASSUME NEW x \in Exchange, NEW s \in Symbol, NEW top \in Tops[x], Update(x, s, top)
      PROVE  DP!IInv'
  BY <1>1, <1>2 DEF Update
<1>3. CASE UpdateConfig \/ TakeTick \/ StartScan \/ GetBuySnapshot \/ GetSellSnapshot
  BY <1>1, <1>3 DEF UpdateConfig, TakeTick, StartScan, GetBuySnapshot, GetSellSnapshot
<1>4. CASE Duplicate \/ CheckInventory \/ Publish
  BY <1>1, <1>4 DEF Duplicate, CheckInventory, Publish
<1>5. CASE Tick
  BY <1>1, <1>5 DEF Tick
<1>6. CASE Marking
  BY <1>1, <1>6 DEF Marking
<1>7. CASE CheckAndMark
  <2>1. FingerprintOf(opp) \in Fingerprint
    BY <1>7, OpportunityIs DEF CheckAndMark, IScan, Honest
  <2> QED
    BY <1>1, <1>7, <2>1 DEF CheckAndMark
<1> QED
  BY <1>2, <1>3, <1>4, <1>5, <1>6, <1>7 DEF Next, Step

\* Nothing is found, passed or remembered at the start.
LEMMA IScanInit == Init => IScan
<1> SUFFICES ASSUME Init PROVE IScan
  OBVIOUS
<1>1. DP!IInv /\ clock = 0
  BY DedupInvariant DEF Init, D!Init
<1>2. 1 \in Symbol
  BY ScannerAssumption DEF Symbol
<1>3. Books
  BY DEF Init, Books, Scanning
<1>4. Loops
  BY <1>1, <1>2 DEF Init, Loops, Scanning
<1>5. Honest
  BY DEF Init, Honest
<1>6. Kept
  BY DEF Init, Kept
<1> QED
  BY <1>1, <1>3, <1>4, <1>5, <1>6 DEF IScan

\* The invariant holds of every behaviour.
LEMMA SpecIScan == Spec => []IScan
<1>1. IScan /\ UNCHANGED vars => IScan'
  <2> SUFFICES ASSUME IScan, UNCHANGED vars PROVE IScan'
    OBVIOUS
  <2>1. DP!IInv'
    BY DedupStep, DedupInvariant DEF IScan, vars
  <2>2. /\ UNCHANGED <<book, enabled, due, pc, symbol, pairs, buy, opp, found, opportunities>>
        /\ UNCHANGED <<recent, passed, published, clock>>
    BY DEF vars, market, scan, history, dedup
  <2> QED
    BY <2>1, <2>2 DEF IScan, Books, Loops, Honest, Kept, WasHeld, Shown, Offers, Scanning, Buy
<1>2. IScan /\ [Next]_vars => IScan'
  BY <1>1, BooksStep, LoopsStep, HonestStep, KeptStep, DedupKept DEF IScan
<1> QED
  BY <1>2, IScanInit, PTL DEF Spec

-----------------------------------------------------------------------------
(* Theorems *)

\* Every variable keeps its type: the two nested loops never run past the pairs of the
\* configuration they started with or past the symbols.
THEOREM TypeCorrect == Spec => []TypeOK
<1>1. IScan => TypeOK
  <2> SUFFICES ASSUME IScan PROVE TypeOK
    OBVIOUS
  <2>1. D!TypeOK /\ clock \in 0..MaxTime
    BY DedupInvariant DEF IScan, D!TypeOK, D!Time
  <2>2. due \in 0..MaxTime
    BY <2>1, ScannerAssumption DEF IScan, Loops
  <2>3. pairs \in Seq(Exchange \X Exchange)
    <3>1. pairs \in Seq(Pair) /\ Pair \subseteq Exchange \X Exchange
      BY DEF IScan, Loops, Pair
    <3> QED
      BY <3>1
  <2> QED
    BY <2>1, <2>2, <2>3 DEF IScan, Books, Loops, Honest, TypeOK
<1> QED
  BY <1>1, SpecIScan, PTL

\* Whatever is found has a bid above its ask, and each of the two is a price that its
\* exchange had since the scan of the symbol began.
THEOREM FoundWereHeld == Spec => []PricesWereHeld
<1>1. IScan => PricesWereHeld
  BY DEF IScan, Honest, WasHeld, PricesWereHeld
<1> QED
  BY <1>1, SpecIScan, PTL

\* At the end of a pass the dashboard has whatever passed every check, but for what the
\* scan of a later symbol has replaced.
THEOREM PassedIsShown == Spec => []PassedIsPublished
<1>1. IScan => PassedIsPublished
  BY DEF IScan, Kept, Shown, PassedIsPublished
<1> QED
  BY <1>1, SpecIScan, PTL
=============================================================================
