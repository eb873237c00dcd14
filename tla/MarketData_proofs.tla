--------------------------- MODULE MarketData_proofs ---------------------------
(***************************************************************************)
(* Proofs about the way market data comes in, for any number of exchanges, *)
(* symbols, connections, readers, payloads and attempts and any backoff.   *)
(*                                                                         *)
(* OrderBooks: a book that is not locked is the newest message handled,    *)
(* whole; while it is locked, one connection has replaced as much of it as *)
(* it has come to; and nobody reads an older one after a newer (IInv).     *)
(*                                                                         *)
(* Connection: every attempt let past the check of the counter is counted  *)
(* or will be (Budget); every backoff is that of an attempt counted before *)
(* (WaitedFor), and the powers of two grow, since a set of n elements has  *)
(* 2^n subsets.                                                            *)
(***************************************************************************)
EXTENDS OrderBooks, Connection, FiniteSetTheorems, TLAPS

-----------------------------------------------------------------------------
(* OrderBooks *)

\* What a connection holds is the message its sequence names, and it never
\* runs ahead of the feed.
ConnectionsFollowFeed ==
  \A c \in Conn :
    /\ next[c] <= Len(feed[KeyOf[c]]) + 1
    /\ held[c] # NoSnapshot =>
         LET h == held[c]
             m == feed[KeyOf[c]][h.sequence]
         IN  /\ h.sequence \in 1..Len(feed[KeyOf[c]])
             /\ m.well_formed
             /\ h.bids = Parsed(m.bids)
             /\ h.asks = Parsed(m.asks)

\* Only published updates are delivered, and no more than MaxSeq are published.
DeliveredArePublished ==
  \A k \in Key : /\ Len(feed[k]) <= MaxSeq
                 /\ delivered[k] \subseteq 1..Len(feed[k])

\* One connection at a time updates a book, with the levels of what it holds; the
\* sequence follows the asks.
UpdatesInProgress ==
  \A c \in Conn :
    writing[c] # "no" =>
      LET b == books[KeyOf[c]]
      IN  /\ held[c] # NoSnapshot
          /\ \A d \in Conn : KeyOf[d] = KeyOf[c] /\ writing[d] # "no" => d = c
          /\ Levels(b.bids) = held[c].bids
          /\ writing[c] = "asks" => held[c].sequence > b.sequence
          /\ writing[c] = "sort" => Levels(b.asks) = held[c].asks /\ held[c].sequence = b.sequence

\* No book is older than what was delivered to it, locked or not.
DeliveredBehindBooks == \A k \in Key : \A s \in delivered[k] : s <= books[k].sequence

\* An unlocked book is as new as one delivered.
UnlockedDelivered == \A k \in Key : ~Locked(k) => books[k].sequence \in delivered[k] \cup {0}

BooksAreOneMessage == \A k \in Key : ~Locked(k) => IsOneMessage(books[k], k)

\* A reader's last snapshot is at most as new as the book.
ViewsBehindBooks ==
  \A r \in Reader, k \in Key : view[r][k].sequence <= books[k].sequence

IInv == /\ BooksTypeOK
        /\ ConnectionsFollowFeed
        /\ DeliveredArePublished
        /\ UpdatesInProgress
        /\ DeliveredBehindBooks
        /\ UnlockedDelivered
        /\ BooksAreOneMessage
        /\ SnapshotsAreOneMessage
        /\ ViewsBehindBooks

-----------------------------------------------------------------------------
(* The data operators *)

\* Dropping the levels that do not parse leaves a finite set of price levels.
LEMMA ParsedType ==
  ASSUME NEW side \in FiniteSubsets(RawLevel)
  PROVE  Parsed(side) \in FiniteSubsets(PriceLevel)
<1> DEFINE f == [l \in side |-> [price |-> l.price, quantity |-> l.quantity]]
           kept == {m \in side : m.parses}
<1>1. Parsed(side) \subseteq PriceLevel
  BY DEF Parsed, FiniteSubsets, RawLevel, PriceLevel
<1>2. IsFiniteSet(kept)
  BY FS_Subset DEF FiniteSubsets
<1>3. Parsed(side) = {f[l] : l \in kept}
  BY DEF Parsed
<1>4. IsFiniteSet({f[l] : l \in kept})
  <2> DEFINE g == [l \in kept |-> [price |-> l.price, quantity |-> l.quantity]]
             img == {g[l] : l \in kept}
  <2>1. g \in [kept -> img]
    OBVIOUS
  <2>2. g \in Surjection(kept, img)
    BY <2>1 DEF Surjection
  <2>3. IsFiniteSet(img)
    BY <1>2, <2>2, FS_Surjection
  <2>4. img = {f[l] : l \in kept}
    OBVIOUS
  <2> QED BY <2>3, <2>4
<1> QED BY <1>1, <1>3, <1>4 DEF FiniteSubsets

\* An arrangement is a vector of exactly the levels of the set.
LEMMA ArrangementsType ==
  ASSUME NEW side \in FiniteSubsets(PriceLevel), NEW t \in Arrangements(side)
  PROVE  t \in Seq(PriceLevel) /\ Levels(t) = side
<1>1. Cardinality(side) \in Nat
  BY FS_CardinalityType DEF FiniteSubsets
<1> QED BY <1>1 DEF Arrangements, FiniteSubsets

\* The levels of a vector are finitely many.
LEMMA LevelsType ==
  ASSUME NEW t \in Seq(PriceLevel)
  PROVE  Levels(t) \in FiniteSubsets(PriceLevel)
<1> DEFINE n == Len(t)
<1>1. n \in Nat /\ DOMAIN t = 1..n /\ t \in [1..n -> PriceLevel]
  OBVIOUS
<1>2. IsFiniteSet(1..n)
  BY <1>1, FS_Interval
<1>3. Levels(t) \subseteq PriceLevel /\ t \in [1..n -> Levels(t)]
  BY <1>1 DEF Levels
<1>4. t \in Surjection(1..n, Levels(t))
  BY <1>1, <1>3 DEF Surjection, Levels
<1>5. IsFiniteSet(Levels(t))
  BY <1>2, <1>4, FS_Surjection
<1> QED BY <1>3, <1>5 DEF FiniteSubsets

\* The empty book and the empty snapshot have their types.
LEMMA EmptyTypes == NewOrderBook \in OrderBook /\ NoSnapshot \in Snapshot
<1>1. {} \in FiniteSubsets(PriceLevel)
  BY FS_EmptySet DEF FiniteSubsets
<1> QED BY <1>1 DEF NewOrderBook, OrderBook, NoSnapshot, Snapshot

\* A step of an update changes the lock of its own key at most.
LEMMA OtherLocks ==
  ASSUME BooksTypeOK, NEW c \in Conn, NEW w, writing' = [writing EXCEPT ![c] = w],
         NEW k \in Key, k # KeyOf[c]
  PROVE  Locked(k)' = Locked(k)
BY DEF BooksTypeOK, Locked

-----------------------------------------------------------------------------
(* Type correctness *)

\* The initial state has the right types.
LEMMA InitTypeOK == BooksInit => BooksTypeOK
BY EmptyTypes, OrderBooksAssumption DEF BooksInit, BooksTypeOK

\* The end of an update keeps the types of what it touches.
LEMMA ReturnTyped ==
  ASSUME BooksTypeOK, NEW c \in Conn, Return(c)
  PROVE  /\ held' \in [Conn -> Snapshot]
         /\ writing' \in [Conn -> {"no", "asks", "sort"}]
         /\ delivered' \in [Key -> SUBSET Nat]
<1>1. held' \in [Conn -> Snapshot]
  BY EmptyTypes DEF BooksTypeOK, Return
<1>2. writing' \in [Conn -> {"no", "asks", "sort"}]
  BY DEF BooksTypeOK, Return
<1>3. held[c].sequence \in Nat /\ KeyOf[c] \in Key
  BY OrderBooksAssumption DEF BooksTypeOK, Snapshot
<1>4. delivered' \in [Key -> SUBSET Nat]
  BY <1>3 DEF BooksTypeOK, Return
<1> QED BY <1>1, <1>2, <1>4

\* Every step keeps the types: in particular what is stored is a vector of price
\* levels however the levels of a message parse.
LEMMA NextTypeOK == BooksTypeOK /\ [BooksNext]_bookVars => BooksTypeOK'
<1> SUFFICES ASSUME BooksTypeOK, [BooksNext]_bookVars PROVE BooksTypeOK'
  OBVIOUS
<1> USE OrderBooksAssumption
<1>1. ASSUME NEW k \in Key, PublishDepth(k) PROVE BooksTypeOK'
  BY <1>1 DEF BooksTypeOK, PublishDepth, connVars
<1>2. ASSUME NEW c \in Conn, StartWebsocket(c) PROVE BooksTypeOK'
  BY <1>2 DEF BooksTypeOK, StartWebsocket
<1>3. ASSUME NEW c \in Conn, ReceiveDepth(c) PROVE BooksTypeOK'
  <2>1. next[c] \in 1..Len(feed[KeyOf[c]])
    BY <1>3 DEF BooksTypeOK, ReceiveDepth, HasMessage
  <2>2. Message(c) \in DepthUpdate
    BY <2>1 DEF BooksTypeOK, Message
  <2>3. /\ Parsed(Message(c).bids) \in FiniteSubsets(PriceLevel)
        /\ Parsed(Message(c).asks) \in FiniteSubsets(PriceLevel)
    BY <2>2, ParsedType DEF DepthUpdate
  <2>4. held' \in [Conn -> Snapshot]
    BY <1>3, <2>3 DEF BooksTypeOK, Snapshot, ReceiveDepth
  <2> QED BY <1>3, <2>4 DEF BooksTypeOK, ReceiveDepth
<1>4. ASSUME NEW c \in Conn, DropMessage(c) PROVE BooksTypeOK'
  BY <1>4 DEF BooksTypeOK, DropMessage
<1>5. ASSUME NEW c \in Conn, SkipUpdate(c) PROVE BooksTypeOK'
  BY <1>5, ReturnTyped DEF BooksTypeOK, SkipUpdate
<1>6. ASSUME NEW c \in Conn, ReplaceBids(c) PROVE BooksTypeOK'
  <2>1. PICK b \in Arrangements(held[c].bids) : books' = [books EXCEPT ![KeyOf[c]].bids = b]
    BY <1>6 DEF ReplaceBids
  <2>2. b \in Seq(PriceLevel)
    BY <2>1, ArrangementsType DEF BooksTypeOK, Snapshot
  <2>3. books' \in [Key -> OrderBook]
    BY <2>1, <2>2 DEF BooksTypeOK, OrderBook
  <2> QED BY <1>6, <2>3 DEF BooksTypeOK, ReplaceBids, connVars
<1>7. ASSUME NEW c \in Conn, ReplaceAsks(c) PROVE BooksTypeOK'
  <2>1. PICK a \in Arrangements(held[c].asks) :
          books' = [books EXCEPT ![KeyOf[c]].asks = a, ![KeyOf[c]].sequence = held[c].sequence]
    BY <1>7 DEF ReplaceAsks
  <2>2. a \in Seq(PriceLevel) /\ held[c].sequence \in Nat
    BY <2>1, ArrangementsType DEF BooksTypeOK, Snapshot
  <2>3. books' \in [Key -> OrderBook]
    BY <2>1, <2>2 DEF BooksTypeOK, OrderBook
  <2> QED BY <1>7, <2>3 DEF BooksTypeOK, ReplaceAsks, connVars
<1>8. ASSUME NEW c \in Conn, SortBook(c) PROVE BooksTypeOK'
  <2>1. PICK b \in SortedBids(Levels(books[KeyOf[c]].bids)),
             a \in SortedAsks(Levels(books[KeyOf[c]].asks)) :
          books' = [books EXCEPT ![KeyOf[c]].bids = b, ![KeyOf[c]].asks = a]
    BY <1>8 DEF SortBook
  <2>2. books[KeyOf[c]].bids \in Seq(PriceLevel) /\ books[KeyOf[c]].asks \in Seq(PriceLevel)
    BY DEF BooksTypeOK, OrderBook
  <2>3. b \in Seq(PriceLevel) /\ a \in Seq(PriceLevel)
    BY <2>1, <2>2, LevelsType, ArrangementsType DEF SortedBids, SortedAsks
  <2>4. books' \in [Key -> OrderBook]
    BY <2>1, <2>3 DEF BooksTypeOK, OrderBook
  <2> QED BY <1>8, <2>4, ReturnTyped DEF BooksTypeOK, SortBook
<1>9. ASSUME NEW c \in Conn, CloseWebsocket(c) PROVE BooksTypeOK'
  BY <1>9 DEF BooksTypeOK, CloseWebsocket
<1>10. ASSUME NEW r \in Reader, NEW k \in Key, GetSnapshot(r, k) PROVE BooksTypeOK'
  BY <1>10 DEF BooksTypeOK, GetSnapshot, connVars
<1>11. CASE UNCHANGED bookVars
  BY <1>11 DEF BooksTypeOK, bookVars, connVars
<1> QED BY <1>1, <1>2, <1>3, <1>4, <1>5, <1>6, <1>7, <1>8, <1>9, <1>10, <1>11
        DEF BooksNext, ReaderTask, HandleOrderbookUpdate

\* The system never leaves its types.
THEOREM TypeCorrect == BooksSpec => []BooksTypeOK
<1>1. BooksInit => BooksTypeOK
  BY InitTypeOK
<1>2. BooksTypeOK /\ [BooksNext]_bookVars => BooksTypeOK'
  BY NextTypeOK
<1> QED BY <1>1, <1>2, PTL DEF BooksSpec

-----------------------------------------------------------------------------
(* The invariant is inductive *)

\* Nothing is held, stored or read at the start.
LEMMA InitIInv == BooksInit => IInv
<1> SUFFICES ASSUME BooksInit PROVE IInv
  OBVIOUS
<1>1. NewOrderBook.sequence = 0
  BY DEF NewOrderBook
<1> QED
  BY <1>1, InitTypeOK, OrderBooksAssumption
     DEF BooksInit, IInv, ConnectionsFollowFeed, DeliveredArePublished, UpdatesInProgress,
         DeliveredBehindBooks, UnlockedDelivered, BooksAreOneMessage, SnapshotsAreOneMessage,
         IsOneMessage, ViewsBehindBooks

\* A message appended to a feed changes none of those before it.
LEMMA PublishIInv ==
  ASSUME IInv, BooksTypeOK', NEW k \in Key, PublishDepth(k)
  PROVE  IInv'
<1> USE OrderBooksAssumption DEF IInv
<1>1. PICK p \in Payload : feed' = [feed EXCEPT ![k] = Append(@, p)]
  BY DEF PublishDepth
<1>2. ASSUME NEW q \in Key
      PROVE  /\ Len(feed'[q]) >= Len(feed[q])
             /\ Len(feed'[q]) <= MaxSeq
             /\ \A i \in 1..Len(feed[q]) : feed'[q][i] = feed[q][i]
  BY <1>1 DEF BooksTypeOK, PublishDepth, DeliveredArePublished
<1>3. ASSUME NEW q \in Key, NEW b \in OrderBook, IsOneMessage(b, q)
      PROVE  IsOneMessage(b, q)'
  <2>1. CASE b.sequence = 0
    BY <2>1 DEF IsOneMessage
  <2>2. CASE b.sequence # 0
    <3>1. b.sequence \in 1..Len(feed[q])
      BY <1>3, <2>2 DEF IsOneMessage, OrderBook
    <3>2. feed'[q][b.sequence] = feed[q][b.sequence] /\ b.sequence <= Len(feed'[q])
      BY <3>1, <1>2 DEF BooksTypeOK
    <3> QED BY <1>3, <2>2, <3>2 DEF IsOneMessage
  <2> QED BY <2>1, <2>2
<1>4. ConnectionsFollowFeed'
  BY <1>2 DEF ConnectionsFollowFeed, PublishDepth, connVars, BooksTypeOK
<1>5. DeliveredArePublished'
  BY <1>2 DEF DeliveredArePublished, PublishDepth, BooksTypeOK
<1>6. /\ \A q \in Key : books'[q] = books[q] /\ books[q] \in OrderBook
      /\ \A q \in Key : Locked(q)' = Locked(q)
  BY DEF PublishDepth, BooksTypeOK, Locked
<1>7. BooksAreOneMessage'
  BY <1>3, <1>6 DEF BooksAreOneMessage
<1>8. \A r \in Reader, q \in Key : view'[r][q] = view[r][q] /\ view[r][q] \in OrderBook
  BY DEF PublishDepth, BooksTypeOK
<1>9. SnapshotsAreOneMessage'
  BY <1>3, <1>8 DEF SnapshotsAreOneMessage
<1>10. UpdatesInProgress'
  BY DEF PublishDepth, connVars, UpdatesInProgress
<1>11. DeliveredBehindBooks' /\ UnlockedDelivered' /\ ViewsBehindBooks'
  BY <1>6 DEF PublishDepth, DeliveredBehindBooks, UnlockedDelivered, ViewsBehindBooks
<1> QED BY <1>4, <1>5, <1>7, <1>9, <1>10, <1>11

\* Opening a connection, receiving or dropping a message and closing touch only
\* connections that are not updating a book.
LEMMA BooksUntouched ==
  ASSUME IInv, BooksTypeOK', UNCHANGED <<feed, writing, books, delivered, view>>,
         ConnectionsFollowFeed',
         \A c \in Conn : writing[c] # "no" => held'[c] = held[c]
  PROVE  IInv'
<1> USE DEF IInv
<1>1. UpdatesInProgress'
  BY DEF UpdatesInProgress
<1> QED
  BY <1>1 DEF DeliveredArePublished, DeliveredBehindBooks, UnlockedDelivered, Locked,
              BooksAreOneMessage, SnapshotsAreOneMessage, IsOneMessage, ViewsBehindBooks

\* The reader task holds what the feed says and moves on by one message.
LEMMA ConnectionIInv ==
  ASSUME IInv, BooksTypeOK', NEW c \in Conn,
         \/ StartWebsocket(c)
         \/ ReceiveDepth(c)
         \/ DropMessage(c)
         \/ CloseWebsocket(c)
  PROVE  IInv'
<1> USE OrderBooksAssumption DEF IInv, ConnectionsFollowFeed
<1>1. Len(feed[KeyOf[c]]) \in Nat /\ next[c] \in Nat
  BY DEF BooksTypeOK
<1>2. CASE StartWebsocket(c)
  <2>1. ConnectionsFollowFeed'
    BY <1>1, <1>2 DEF StartWebsocket, BooksTypeOK
  <2> QED BY <1>2, <2>1, BooksUntouched DEF StartWebsocket
<1>3. CASE ReceiveDepth(c)
  <2>1. ConnectionsFollowFeed'
    BY <1>1, <1>3 DEF ReceiveDepth, HasMessage, Message, BooksTypeOK
  <2>2. held[c] = NoSnapshot
    BY <1>3 DEF ReceiveDepth, HasMessage, AtReadNext
  <2>3. \A d \in Conn : writing[d] # "no" => held'[d] = held[d]
    BY <1>3, <2>2 DEF ReceiveDepth, UpdatesInProgress, BooksTypeOK
  <2> QED BY <1>3, <2>1, <2>3, BooksUntouched DEF ReceiveDepth
<1>4. CASE DropMessage(c)
  <2>1. ConnectionsFollowFeed'
    BY <1>1, <1>4 DEF DropMessage, HasMessage, BooksTypeOK
  <2> QED BY <1>4, <2>1, BooksUntouched DEF DropMessage
<1>5. CASE CloseWebsocket(c)
  <2>1. ConnectionsFollowFeed'
    BY <1>5 DEF CloseWebsocket, BooksTypeOK
  <2> QED BY <1>5, <2>1, BooksUntouched DEF CloseWebsocket
<1> QED BY <1>2, <1>3, <1>4, <1>5

\* What the connection that handles a snapshot knows of it.
LEMMA HeldFacts ==
  ASSUME IInv, NEW c \in Conn, held[c] # NoSnapshot
  PROVE  LET k == KeyOf[c]
             h == held[c]
         IN  /\ k \in Key /\ h \in Snapshot /\ books[k] \in OrderBook
             /\ h.sequence \in 1..Len(feed[k]) /\ h.sequence \in Nat /\ Len(feed[k]) \in Nat
             /\ feed[k][h.sequence].well_formed
             /\ h.bids = Parsed(feed[k][h.sequence].bids)
             /\ h.asks = Parsed(feed[k][h.sequence].asks)
             /\ h.bids \in FiniteSubsets(PriceLevel) /\ h.asks \in FiniteSubsets(PriceLevel)
BY OrderBooksAssumption DEF IInv, BooksTypeOK, Snapshot, ConnectionsFollowFeed

\* Everybody's numbers are numbers.
LEMMA SequencesAreNumbers ==
  ASSUME BooksTypeOK
  PROVE  /\ \A q \in Key : books[q].sequence \in Nat /\ delivered[q] \subseteq Nat
         /\ \A r \in Reader, q \in Key : view[r][q].sequence \in Nat
BY DEF BooksTypeOK, OrderBook

\* The sequence guard: what is not newer changes nothing but the history.
LEMMA SkipUpdateIInv ==
  ASSUME IInv, BooksTypeOK', NEW c \in Conn, SkipUpdate(c)
  PROVE  IInv'
<1> DEFINE k == KeyOf[c]
           h == held[c]
<1>0. BooksTypeOK
  BY DEF IInv
<1>1. /\ k \in Key /\ h.sequence \in 1..Len(feed[k]) /\ h.sequence \in Nat
      /\ h.sequence <= books[k].sequence /\ books[k].sequence \in Nat
  BY <1>0, HeldFacts, SequencesAreNumbers DEF SkipUpdate, Newer
<1>2. \A q \in Key : delivered'[q] = IF q = k THEN delivered[q] \cup {h.sequence} ELSE delivered[q]
  BY <1>0 DEF SkipUpdate, Return, BooksTypeOK
<1>3. writing' = writing
  BY <1>0, OrderBooksAssumption DEF SkipUpdate, Return, Locked, BooksTypeOK
<1>4. \A d \in Conn : d # c => held'[d] = held[d]
  BY <1>0 DEF SkipUpdate, Return, BooksTypeOK
<1>5. writing[c] = "no"
  BY <1>0, OrderBooksAssumption DEF SkipUpdate, Locked
<1>6. held'[c] = NoSnapshot
  BY <1>0 DEF SkipUpdate, Return, BooksTypeOK
<1>7. UNCHANGED <<feed, next, books, view>>
  BY DEF SkipUpdate
<1> HIDE DEF k, h
<1>8. ConnectionsFollowFeed'
  BY <1>4, <1>6, <1>7 DEF IInv, ConnectionsFollowFeed
<1>9. DeliveredArePublished'
  BY <1>1, <1>2, <1>7 DEF IInv, DeliveredArePublished
<1>10. UpdatesInProgress'
  BY <1>3, <1>4, <1>5, <1>7 DEF IInv, UpdatesInProgress
<1>11. DeliveredBehindBooks' /\ UnlockedDelivered'
  BY <1>1, <1>2, <1>3, <1>7 DEF IInv, DeliveredBehindBooks, UnlockedDelivered, Locked
<1>12. BooksAreOneMessage' /\ SnapshotsAreOneMessage' /\ ViewsBehindBooks'
  BY <1>3, <1>7 DEF IInv, BooksAreOneMessage, SnapshotsAreOneMessage, IsOneMessage,
                    ViewsBehindBooks, Locked
<1> QED BY <1>8, <1>9, <1>10, <1>11, <1>12 DEF IInv

\* An update that starts locks the entry, so that nobody sees its book half new.
LEMMA ReplaceBidsIInv ==
  ASSUME IInv, BooksTypeOK', NEW c \in Conn, ReplaceBids(c)
  PROVE  IInv'
<1> DEFINE k == KeyOf[c]
           h == held[c]
<1>0. BooksTypeOK
  BY DEF IInv
<1>1. /\ k \in Key /\ h \in Snapshot /\ books[k] \in OrderBook
      /\ h.bids \in FiniteSubsets(PriceLevel) /\ h # NoSnapshot
      /\ h.sequence > books[k].sequence
  BY HeldFacts DEF ReplaceBids, Newer
<1>2. PICK b \in Arrangements(h.bids) : books' = [books EXCEPT ![k].bids = b]
  BY DEF ReplaceBids
<1>3. Levels(b) = h.bids
  BY <1>1, <1>2, ArrangementsType
<1>4. /\ \A q \in Key : books'[q].sequence = books[q].sequence /\ books'[q].asks = books[q].asks
      /\ \A q \in Key : q # k => books'[q] = books[q]
      /\ books'[k].bids = b
  BY <1>0, <1>1, <1>2 DEF BooksTypeOK, OrderBook
<1>5. /\ writing' = [writing EXCEPT ![c] = "asks"]
      /\ UNCHANGED <<feed, up, next, held, delivered, view>>
      /\ \A d \in Conn : KeyOf[d] = k => writing[d] = "no"
  BY DEF ReplaceBids, connVars, Locked
<1>6. /\ \A q \in Key : q # k => Locked(q)' = Locked(q)
      /\ Locked(k)' /\ ~Locked(k)
  <2>1. writing'[c] = "asks"
    BY <1>0, <1>5 DEF BooksTypeOK
  <2> QED BY <1>0, <1>5, <2>1, OtherLocks DEF Locked, ReplaceBids
<1>7. \A d \in Conn : writing'[d] = IF d = c THEN "asks" ELSE writing[d]
  BY <1>0, <1>5 DEF BooksTypeOK
<1>8. ConnectionsFollowFeed' /\ DeliveredArePublished'
  BY <1>5 DEF IInv, ConnectionsFollowFeed, DeliveredArePublished
<1>9. UpdatesInProgress'
  <2> SUFFICES ASSUME NEW d \in Conn, writing'[d] # "no"
               PROVE  LET e == books'[KeyOf[d]]
                      IN  /\ held[d] # NoSnapshot
                          /\ \A f \in Conn : KeyOf[f] = KeyOf[d] /\ writing'[f] # "no" => f = d
                          /\ Levels(e.bids) = held[d].bids
                          /\ writing'[d] = "asks" => held[d].sequence > e.sequence
                          /\ writing'[d] = "sort" => /\ Levels(e.asks) = held[d].asks
                                                     /\ held[d].sequence = e.sequence
    BY <1>5 DEF UpdatesInProgress, Levels
  <2>1. CASE d = c
    BY <1>1, <1>3, <1>4, <1>5, <1>7, <2>1
  <2>2. CASE d # c
    <3>1. writing[d] # "no" /\ KeyOf[d] # k /\ KeyOf[d] \in Key
      BY <1>5, <1>7, <2>2, OrderBooksAssumption
    <3> QED BY <1>4, <1>7, <2>2, <3>1 DEF IInv, UpdatesInProgress
  <2> QED BY <2>1, <2>2
<1> HIDE DEF k, h
<1>10. DeliveredBehindBooks' /\ UnlockedDelivered' /\ ViewsBehindBooks'
  BY <1>4, <1>5, <1>6 DEF IInv, DeliveredBehindBooks, UnlockedDelivered, ViewsBehindBooks
<1>11. BooksAreOneMessage' /\ SnapshotsAreOneMessage'
  BY <1>4, <1>5, <1>6 DEF IInv, BooksAreOneMessage, SnapshotsAreOneMessage, IsOneMessage
<1> QED BY <1>8, <1>9, <1>10, <1>11 DEF IInv

\* The asks follow the bids, and the sequence is that of the new message.
LEMMA ReplaceAsksIInv ==
  ASSUME IInv, BooksTypeOK', NEW c \in Conn, ReplaceAsks(c)
  PROVE  IInv'
<1> DEFINE k == KeyOf[c]
           h == held[c]
<1>0. BooksTypeOK /\ writing[c] = "asks"
  BY DEF IInv, ReplaceAsks
<1>1. /\ h # NoSnapshot /\ Levels(books[k].bids) = h.bids /\ h.sequence > books[k].sequence
      /\ \A d \in Conn : KeyOf[d] = k /\ writing[d] # "no" => d = c
  BY <1>0 DEF IInv, UpdatesInProgress
<1>2. /\ k \in Key /\ books[k] \in OrderBook /\ h.sequence \in Nat
      /\ h.asks \in FiniteSubsets(PriceLevel)
  BY <1>1, HeldFacts
<1>3. PICK a \in Arrangements(h.asks) :
        books' = [books EXCEPT ![k].asks = a, ![k].sequence = h.sequence]
  BY DEF ReplaceAsks
<1>4. Levels(a) = h.asks
  BY <1>2, <1>3, ArrangementsType
<1>5. /\ \A q \in Key : q # k => books'[q] = books[q]
      /\ books'[k].bids = books[k].bids /\ books'[k].asks = a /\ books'[k].sequence = h.sequence
  BY <1>0, <1>2, <1>3 DEF BooksTypeOK, OrderBook
<1>6. /\ writing' = [writing EXCEPT ![c] = "sort"]
      /\ UNCHANGED <<feed, up, next, held, delivered, view>>
  BY DEF ReplaceAsks, connVars
<1>7. \A d \in Conn : writing'[d] = IF d = c THEN "sort" ELSE writing[d]
  BY <1>0, <1>6 DEF BooksTypeOK
<1>8. (\A q \in Key : q # k => Locked(q)' = Locked(q)) /\ Locked(k)'
  BY <1>0, <1>6, <1>7, OtherLocks DEF Locked
<1>9. ConnectionsFollowFeed' /\ DeliveredArePublished'
  BY <1>6 DEF IInv, ConnectionsFollowFeed, DeliveredArePublished
<1>10. UpdatesInProgress'
  <2> SUFFICES ASSUME NEW d \in Conn, writing'[d] # "no"
               PROVE  LET e == books'[KeyOf[d]]
                      IN  /\ held[d] # NoSnapshot
                          /\ \A f \in Conn : KeyOf[f] = KeyOf[d] /\ writing'[f] # "no" => f = d
                          /\ Levels(e.bids) = held[d].bids
                          /\ writing'[d] = "asks" => held[d].sequence > e.sequence
                          /\ writing'[d] = "sort" => /\ Levels(e.asks) = held[d].asks
                                                     /\ held[d].sequence = e.sequence
    BY <1>6 DEF UpdatesInProgress, Levels
  <2>1. CASE d = c
    BY <1>1, <1>4, <1>5, <1>7, <2>1, <1>0
  <2>2. CASE d # c
    <3>1. writing[d] # "no" /\ KeyOf[d] # k /\ KeyOf[d] \in Key
      BY <1>1, <1>7, <2>2, OrderBooksAssumption
    <3> QED BY <1>5, <1>7, <2>2, <3>1 DEF IInv, UpdatesInProgress
  <2> QED BY <2>1, <2>2
<1> HIDE DEF k, h
<1>11. \A q \in Key : books'[q].sequence >= books[q].sequence
  <2>1. \A q \in Key : books[q].sequence \in Nat
    BY <1>0, SequencesAreNumbers
  <2> QED BY <1>1, <1>2, <1>5, <2>1
<1>12. DeliveredBehindBooks' /\ ViewsBehindBooks'
  <2> DEFINE new(q) == books'[q].sequence
             old(q) == books[q].sequence
  <2>1. \A q \in Key : new(q) \in Nat /\ old(q) \in Nat /\ new(q) >= old(q)
    <3>1. \A q \in Key : books'[q].sequence \in Nat
      BY DEF BooksTypeOK, OrderBook
    <3> QED BY <1>0, <1>11, <3>1, SequencesAreNumbers
  <2>2. /\ \A q \in Key : delivered[q] \subseteq Nat /\ \A s \in delivered[q] : s <= old(q)
        /\ \A r \in Reader, q \in Key : view[r][q].sequence \in Nat /\ view[r][q].sequence <= old(q)
    BY <1>0, SequencesAreNumbers DEF IInv, DeliveredBehindBooks, ViewsBehindBooks
  <2> HIDE DEF new, old
  <2>3. /\ \A q \in Key : \A s \in delivered[q] : s <= new(q)
        /\ \A r \in Reader, q \in Key : view[r][q].sequence <= new(q)
    BY <2>1, <2>2
  <2> QED BY <1>6, <2>3 DEF DeliveredBehindBooks, ViewsBehindBooks, new
<1>13. UnlockedDelivered' /\ BooksAreOneMessage' /\ SnapshotsAreOneMessage'
  BY <1>5, <1>6, <1>8 DEF IInv, UnlockedDelivered, BooksAreOneMessage, SnapshotsAreOneMessage,
                          IsOneMessage
<1> QED BY <1>9, <1>10, <1>12, <1>13 DEF IInv

\* An update that ends leaves the levels of one message, sorted, and lets go of the lock.
LEMMA SortBookIInv ==
  ASSUME IInv, BooksTypeOK', NEW c \in Conn, SortBook(c)
  PROVE  IInv'
<1> DEFINE k == KeyOf[c]
           h == held[c]
<1>0. BooksTypeOK /\ writing[c] = "sort"
  BY DEF IInv, SortBook
<1>1. /\ h # NoSnapshot
      /\ Levels(books[k].bids) = h.bids /\ Levels(books[k].asks) = h.asks
      /\ h.sequence = books[k].sequence
      /\ \A d \in Conn : KeyOf[d] = k /\ writing[d] # "no" => d = c
  BY <1>0 DEF IInv, UpdatesInProgress
<1>2. /\ k \in Key /\ books[k] \in OrderBook
      /\ h.sequence \in 1..Len(feed[k]) /\ h.sequence \in Nat /\ Len(feed[k]) \in Nat
      /\ feed[k][h.sequence].well_formed
      /\ h.bids = Parsed(feed[k][h.sequence].bids)
      /\ h.asks = Parsed(feed[k][h.sequence].asks)
      /\ h.bids \in FiniteSubsets(PriceLevel) /\ h.asks \in FiniteSubsets(PriceLevel)
  BY <1>1, HeldFacts
<1>3. PICK b \in SortedBids(h.bids), a \in SortedAsks(h.asks) :
        books' = [books EXCEPT ![k].bids = b, ![k].asks = a]
  BY <1>1 DEF SortBook
<1>4. Levels(b) = h.bids /\ Descending(b) /\ Levels(a) = h.asks /\ Ascending(a)
  BY <1>2, <1>3, ArrangementsType DEF SortedBids, SortedAsks
<1>5. /\ \A q \in Key : q # k => books'[q] = books[q]
      /\ \A q \in Key : books'[q].sequence = books[q].sequence
      /\ books'[k].bids = b /\ books'[k].asks = a
  BY <1>0, <1>2, <1>3 DEF BooksTypeOK, OrderBook
<1>6. /\ writing' = [writing EXCEPT ![c] = "no"] /\ UNCHANGED <<feed, next, view>>
      /\ \A q \in Key : delivered'[q] = IF q = k THEN delivered[q] \cup {h.sequence} ELSE delivered[q]
      /\ \A d \in Conn : held'[d] = IF d = c THEN NoSnapshot ELSE held[d]
  BY <1>0 DEF SortBook, Return, BooksTypeOK
<1>7. \A d \in Conn : writing'[d] = IF d = c THEN "no" ELSE writing[d]
  BY <1>0, <1>6 DEF BooksTypeOK
<1>8. (\A q \in Key : q # k => Locked(q)' = Locked(q))
  BY <1>0, <1>6, OtherLocks
<1>9. ASSUME NEW e \in OrderBook, e.sequence = h.sequence, e.bids = b, e.asks = a
       PROVE  IsOneMessage(e, k)
  <2>1. /\ e.sequence <= Len(feed[k])
        /\ feed[k][e.sequence].well_formed
    BY <1>2, <1>9
  <2>2. Levels(e.bids) = Parsed(feed[k][e.sequence].bids) /\ Descending(e.bids)
    BY <1>2, <1>4, <1>9
  <2>3. Levels(e.asks) = Parsed(feed[k][e.sequence].asks) /\ Ascending(e.asks)
    BY <1>2, <1>4, <1>9
  <2> QED BY <2>1, <2>2, <2>3 DEF IsOneMessage
<1>10. UpdatesInProgress'
  <2> SUFFICES ASSUME NEW d \in Conn, writing'[d] # "no"
               PROVE  LET e == books'[KeyOf[d]]
                      IN  /\ held'[d] # NoSnapshot
                          /\ \A f \in Conn : KeyOf[f] = KeyOf[d] /\ writing'[f] # "no" => f = d
                          /\ Levels(e.bids) = held'[d].bids
                          /\ writing'[d] = "asks" => held'[d].sequence > e.sequence
                          /\ writing'[d] = "sort" => /\ Levels(e.asks) = held'[d].asks
                                                     /\ held'[d].sequence = e.sequence
    BY DEF UpdatesInProgress, Levels
  <2>1. d # c /\ writing[d] # "no" /\ KeyOf[d] # k /\ KeyOf[d] \in Key /\ held'[d] = held[d]
    BY <1>1, <1>6, <1>7, OrderBooksAssumption
  <2> QED BY <1>5, <1>7, <2>1 DEF IInv, UpdatesInProgress
<1> HIDE DEF k, h
<1>11. ConnectionsFollowFeed'
  BY <1>6 DEF IInv, ConnectionsFollowFeed
<1>12. DeliveredArePublished'
  BY <1>2, <1>6 DEF IInv, DeliveredArePublished
<1>13. DeliveredBehindBooks'
  <2> SUFFICES ASSUME NEW q \in Key, NEW s \in delivered'[q] PROVE s <= books'[q].sequence
    BY DEF DeliveredBehindBooks
  <2>1. CASE s \in delivered[q]
    BY <1>5, <2>1 DEF IInv, DeliveredBehindBooks
  <2>2. CASE s \notin delivered[q]
    <3>1. q = k /\ s = h.sequence
      BY <1>6, <2>2
    <3>2. books'[q].sequence = h.sequence
      BY <1>1, <1>5, <3>1
    <3> QED BY <1>2, <3>1, <3>2
  <2> QED BY <2>1, <2>2
<1>14. UnlockedDelivered'
  <2> SUFFICES ASSUME NEW q \in Key, ~Locked(q)'
               PROVE  books'[q].sequence \in delivered'[q] \cup {0}
    BY DEF UnlockedDelivered
  <2>1. CASE q = k
    BY <1>1, <1>5, <1>6, <2>1
  <2>2. CASE q # k
    BY <1>5, <1>6, <1>8, <2>2 DEF IInv, UnlockedDelivered
  <2> QED BY <2>1, <2>2
<1>15. ViewsBehindBooks'
  BY <1>5, <1>6 DEF IInv, ViewsBehindBooks
<1>16. BooksAreOneMessage' /\ SnapshotsAreOneMessage'
  <2>1. ASSUME NEW q \in Key, ~Locked(q)' PROVE IsOneMessage(books'[q], q)
    <3>1. CASE q = k
      <4>1. /\ books'[k] \in OrderBook
            /\ books'[k].sequence = h.sequence /\ books'[k].bids = b /\ books'[k].asks = a
        BY <1>1, <1>2, <1>5 DEF BooksTypeOK
      <4> QED BY <1>9, <3>1, <4>1
    <3>2. CASE q # k
      BY <1>5, <1>8, <2>1, <3>2 DEF IInv, BooksAreOneMessage
    <3> QED BY <3>1, <3>2
  <2> QED BY <1>6, <2>1 DEF IInv, BooksAreOneMessage, SnapshotsAreOneMessage, IsOneMessage
<1> QED BY <1>10, <1>11, <1>12, <1>13, <1>14, <1>15, <1>16 DEF IInv

\* A read copies a book that nobody updates.
LEMMA GetSnapshotIInv ==
  ASSUME IInv, BooksTypeOK', NEW r \in Reader, NEW k \in Key, GetSnapshot(r, k)
  PROVE  IInv'
<1> USE DEF IInv
<1>1. \A q \in Reader, j \in Key :
        view'[q][j] = IF q = r /\ j = k THEN books[k] ELSE view[q][j]
  BY DEF GetSnapshot, BooksTypeOK
<1>2. UNCHANGED <<feed, up, next, held, writing, books, delivered>> /\ ~Locked(k)
  BY DEF GetSnapshot, connVars
<1>3. SnapshotsAreOneMessage'
  BY <1>1, <1>2 DEF SnapshotsAreOneMessage, BooksAreOneMessage, IsOneMessage
<1>4. ViewsBehindBooks'
  <2>1. \A q \in Key : books[q].sequence \in Nat
    BY DEF BooksTypeOK, OrderBook
  <2> QED BY <1>1, <1>2, <2>1 DEF ViewsBehindBooks
<1>5. UpdatesInProgress'
  BY <1>2 DEF UpdatesInProgress
<1> QED BY <1>2, <1>3, <1>4, <1>5
        DEF ConnectionsFollowFeed, DeliveredArePublished, DeliveredBehindBooks,
            UnlockedDelivered, Locked, BooksAreOneMessage, IsOneMessage

\* The invariant is preserved by every step.
LEMMA NextIInv == IInv /\ [BooksNext]_bookVars => IInv'
<1> SUFFICES ASSUME IInv, [BooksNext]_bookVars PROVE IInv'
  OBVIOUS
<1>1. BooksTypeOK'
  BY NextTypeOK DEF IInv
<1>2. CASE \E k \in Key : PublishDepth(k)
  BY <1>1, <1>2, PublishIInv
<1>3. CASE UNCHANGED bookVars
  BY <1>1, <1>3, BooksUntouched DEF bookVars, connVars, IInv, ConnectionsFollowFeed
<1>4. CASE \E c \in Conn : StartWebsocket(c) \/ ReceiveDepth(c) \/ DropMessage(c) \/ CloseWebsocket(c)
  BY <1>1, <1>4, ConnectionIInv
<1>5. CASE \E c \in Conn : HandleOrderbookUpdate(c)
  BY <1>1, <1>5, SkipUpdateIInv, ReplaceBidsIInv, ReplaceAsksIInv, SortBookIInv
     DEF HandleOrderbookUpdate
<1>6. CASE \E r \in Reader, k \in Key : GetSnapshot(r, k)
  BY <1>1, <1>6, GetSnapshotIInv
<1> QED BY <1>2, <1>3, <1>4, <1>5, <1>6 DEF BooksNext, ReaderTask

\* The inductive invariant holds of every behaviour.
LEMMA SpecIInv == BooksSpec => []IInv
BY InitIInv, NextIInv, PTL DEF BooksSpec

-----------------------------------------------------------------------------
(* Theorems *)

\* Whenever a book can be read, it is the newest update handed to the store, in whatever
\* order and however often the connections deliver.
THEOREM StoreHoldsNewest == BooksSpec => []NewestHandledWins
<1>1. IInv => NewestHandledWins
  BY DEF IInv, NewestHandledWins, DeliveredBehindBooks, UnlockedDelivered
<1> QED BY <1>1, SpecIInv, PTL

\* No snapshot mixes two messages, whatever is published and however reads and the steps
\* of updates interleave.
THEOREM SnapshotsWhole == BooksSpec => []SnapshotsAreOneMessage
BY SpecIInv, PTL DEF IInv

\* No reader is given an older version than one any reader was given before.
THEOREM ReadsMonotone == BooksSpec => ReadsNeverRegress
<1>1. IInv /\ [BooksNext]_bookVars =>
        [\A r, q \in Reader, k \in Key :
            view'[r][k] # view[r][k] => view'[r][k].sequence >= view[q][k].sequence]_bookVars
  <2> SUFFICES ASSUME IInv, [BooksNext]_bookVars, NEW r \in Reader, NEW q \in Reader, NEW k \in Key,
                      view'[r][k] # view[r][k]
               PROVE  view'[r][k].sequence >= view[q][k].sequence
    OBVIOUS
  <2>1. PICK r0 \in Reader, k0 \in Key : GetSnapshot(r0, k0)
    BY DEF BooksNext, bookVars, connVars, ReaderTask, PublishDepth, StartWebsocket, ReceiveDepth,
           DropMessage, HandleOrderbookUpdate, SkipUpdate, ReplaceBids, ReplaceAsks, SortBook,
           CloseWebsocket
  <2>2. r = r0 /\ k = k0
    BY <2>1 DEF GetSnapshot, IInv, BooksTypeOK
  <2>3. view'[r][k] = books[k]
    BY <2>1, <2>2 DEF GetSnapshot, IInv, BooksTypeOK
  <2>4. view[q][k].sequence <= books[k].sequence
    BY DEF IInv, ViewsBehindBooks
  <2>5. view'[r][k].sequence >= view[q][k].sequence
    <3>1. books[k].sequence \in Nat /\ view[q][k].sequence \in Nat
      BY SequencesAreNumbers DEF IInv
    <3> QED BY <2>3, <2>4, <3>1
  <2> QED BY <2>5
<1> QED BY <1>1, SpecIInv, PTL DEF BooksSpec, ReadsNeverRegress

\* One guarded book per key implements a store that keeps every version and
\* answers each read with the newest.
THEOREM BooksRefineNewestWins == BooksSpec => Refines
<1> DEFINE seen == [r \in Reader |-> [k \in Key |-> view[r][k].sequence]]
<1>1. BooksInit => Store!Init
  BY DEF BooksInit, Store!Init, NewOrderBook
<1>2. IInv /\ IInv' /\ [BooksNext]_bookVars => [Store!Next]_(Store!vars)
  <2> SUFFICES ASSUME IInv, IInv', [BooksNext]_bookVars, ~UNCHANGED <<delivered, seen>>
               PROVE  Store!Next
    BY DEF Store!vars
  <2>1. CASE \E c \in Conn : SkipUpdate(c) \/ SortBook(c)
    <3>1. PICK c \in Conn : SkipUpdate(c) \/ SortBook(c)
      BY <2>1
    <3>2. held[c] # NoSnapshot
      BY <3>1 DEF IInv, UpdatesInProgress, SkipUpdate, SortBook
    <3>3. /\ KeyOf[c] \in Key
          /\ held[c].sequence \in 1..Len(feed[KeyOf[c]])
          /\ Len(feed[KeyOf[c]]) \in Nat /\ Len(feed[KeyOf[c]]) <= MaxSeq
      BY <3>2, HeldFacts DEF IInv, DeliveredArePublished
    <3>4. held[c].sequence \in 1..MaxSeq
      BY <3>3, OrderBooksAssumption
    <3>5. Store!Offer(KeyOf[c], held[c].sequence)
      BY <3>1 DEF Store!Offer, SkipUpdate, SortBook, Return
    <3> QED BY <3>3, <3>4, <3>5 DEF Store!Next
  <2>2. CASE \E r \in Reader, k \in Key : GetSnapshot(r, k)
    <3>1. PICK r \in Reader, k \in Key : GetSnapshot(r, k)
      BY <2>2
    <3>2. Store!IsNewest(books[k].sequence, k)
      BY <3>1 DEF Store!IsNewest, IInv, DeliveredBehindBooks, UnlockedDelivered, GetSnapshot
    <3>3. seen' = [seen EXCEPT ![r][k] = books[k].sequence]
      BY <3>1 DEF GetSnapshot, IInv, BooksTypeOK
    <3>4. Store!Read(r, k)
      BY <3>1, <3>2, <3>3 DEF Store!Read, Store!IsNewest, GetSnapshot
    <3> QED BY <3>4 DEF Store!Next
  <2>3. ASSUME ~\E c \in Conn : SkipUpdate(c) \/ SortBook(c),
               ~\E r \in Reader, k \in Key : GetSnapshot(r, k)
        PROVE  UNCHANGED <<delivered, view>>
    BY <2>3 DEF BooksNext, bookVars, connVars, ReaderTask, PublishDepth, StartWebsocket,
                ReceiveDepth, DropMessage, HandleOrderbookUpdate, ReplaceBids, ReplaceAsks,
                CloseWebsocket
  <2> QED BY <2>1, <2>2, <2>3
<1> QED BY <1>1, <1>2, SpecIInv, PTL DEF BooksSpec, Refines, Store!Spec

-----------------------------------------------------------------------------
(* Connection: the counter of attempts and the backoff *)

\* A power of two is how many subsets a set has, so the powers grow.
LEMMA PowerOfTwo ==
  /\ \A n \in Nat : 2^n \in Nat /\ 2^n >= 1 /\ (n >= 1 => 2^n >= 2)
  /\ \A m, n \in Nat : m < n => 2^m < 2^n
<1>1. ASSUME NEW n \in Nat
      PROVE  /\ IsFiniteSet(1..n) /\ Cardinality(1..n) = n
             /\ IsFiniteSet(SUBSET (1..n)) /\ Cardinality(SUBSET (1..n)) = 2^n
             /\ 2^n \in Nat
  <2>1. 1 \in Int /\ n \in Int
    OBVIOUS
  <2>2. IsFiniteSet(1..n) /\ Cardinality(1..n) = IF 1 > n THEN 0 ELSE n - 1 + 1
    BY ONLY <2>1, FS_Interval
  <2>3. Cardinality(1..n) = n
    BY <2>2
  <2>4. IsFiniteSet(SUBSET (1..n)) /\ Cardinality(SUBSET (1..n)) = 2^Cardinality(1..n)
    BY <2>2, FS_SUBSET
  <2>5. Cardinality(SUBSET (1..n)) \in Nat
    BY <2>4, FS_CardinalityType
  <2> QED
    BY <2>2, <2>3, <2>4, <2>5
<1>2. ASSUME NEW m \in Nat, NEW n \in Nat, m < n
      PROVE  2^m < 2^n
  <2>1. SUBSET (1..m) \in SUBSET (SUBSET (1..n)) /\ SUBSET (1..m) # SUBSET (1..n)
    <3>1. 1..m \subseteq 1..n /\ n \in 1..n /\ n \notin 1..m
      BY <1>2
    <3> QED
      BY <3>1
  <2>2. /\ Cardinality(SUBSET (1..m)) <= Cardinality(SUBSET (1..n))
        /\ Cardinality(SUBSET (1..m)) # Cardinality(SUBSET (1..n))
    BY <1>1, <2>1, FS_Subset
  <2> DEFINE a == 2^m
             b == 2^n
  <2>3. a \in Nat /\ b \in Nat /\ a <= b /\ a # b
    BY <1>1, <2>2
  <2> HIDE DEF a, b
  <2>4. a < b
    BY <2>3
  <2> QED
    BY <2>4 DEF a, b
<1>3. 2^0 >= 1
  <2>1. {} \in SUBSET (1..0) /\ SUBSET (1..0) # {}
    OBVIOUS
  <2>2. Cardinality(SUBSET (1..0)) # 0 /\ Cardinality(SUBSET (1..0)) \in Nat
    BY <1>1, <2>1, FS_EmptySet, FS_CardinalityType
  <2> DEFINE a == 2^0
  <2>3. a # 0 /\ a \in Nat
    BY <1>1, <2>2
  <2> HIDE DEF a
  <2>4. a >= 1
    BY <2>3
  <2> QED
    BY <2>4 DEF a
<1>4. ASSUME NEW n \in Nat, n >= 1
      PROVE  2^n >= 2
  <2> DEFINE a == 2^0
             b == 2^n
  <2>0. 0 \in Nat /\ 0 < n
    BY <1>4
  <2>1. a \in Nat /\ b \in Nat /\ a >= 1 /\ a < b
    BY <1>1, <1>2, <1>3, <2>0
  <2> HIDE DEF a, b
  <2>2. b >= 2
    BY <2>1
  <2> QED
    BY <2>2 DEF b
<1>5. ASSUME NEW n \in Nat
      PROVE  2^n >= 1
  <2>1. CASE n = 0
    BY <1>3, <2>1
  <2>2. CASE n >= 1
    <3> DEFINE b == 2^n
    <3>1. b >= 2 /\ b \in Nat
      BY <1>1, <1>4, <2>2
    <3> HIDE DEF b
    <3>2. b >= 1
      BY <3>1
    <3> QED
      BY <3>2 DEF b
  <2> QED
    BY <2>1, <2>2
<1> QED
  BY <1>1, <1>2, <1>4, <1>5

\* The backoff is a number up to the cap, at least twice the base after the first
\* attempt, and a later one is longer unless it has reached the cap.
LEMMA BackoffIs ==
  /\ \A n \in Nat : Backoff(n) \in 0..MaxBackoff /\ (n >= 1 => Backoff(n) >= 2 * BaseBackoff)
  /\ \A m, n \in Nat : m < n => Backoff(n) > Backoff(m) \/ Backoff(n) = MaxBackoff
<1>1. /\ BaseBackoff \in Nat /\ BaseBackoff > 0 /\ MaxBackoff \in Nat
      /\ 2 * BaseBackoff <= MaxBackoff /\ 2 * BaseBackoff \in Nat
  BY ConnectionAssumption
<1>2. \A p, q \in Nat : p < q => BaseBackoff * p < BaseBackoff * q
  <2> SUFFICES ASSUME NEW p \in Nat, NEW q \in Nat, p < q PROVE BaseBackoff * p < BaseBackoff * q
    OBVIOUS
  <2>1. PICK d \in Nat : q = p + 1 + d
    <3>1. q - p - 1 \in Nat /\ q = p + 1 + (q - p - 1)
      OBVIOUS
    <3> QED
      BY <3>1
  <2>2. BaseBackoff * (p + 1 + d) = BaseBackoff * p + BaseBackoff + BaseBackoff * d
    BY <1>1, SMT
  <2>3. BaseBackoff * p \in Nat /\ BaseBackoff * d \in Nat
    BY <1>1, SMT
  <2> QED
    BY <1>1, <2>1, <2>2, <2>3
<1>3. \A p \in Nat : BaseBackoff * p \in Nat
  BY <1>1, SMT
<1>4. ASSUME NEW n \in Nat
      PROVE  Backoff(n) \in 0..MaxBackoff /\ (n >= 1 => Backoff(n) >= 2 * BaseBackoff)
  <2> DEFINE p == 2^n
             a == BaseBackoff * p
  <2>1. p \in Nat /\ (n >= 1 => p >= 2)
    BY PowerOfTwo
  <2>2. a \in Nat /\ (n >= 1 => a >= BaseBackoff * 2)
    <3> HIDE DEF p
    <3>1. n >= 1 => p = 2 \/ 2 < p
      BY <2>1
    <3>2. a \in Nat /\ (2 < p => BaseBackoff * 2 < a) /\ BaseBackoff * 2 \in Nat
      BY <1>1, <1>2, <1>3, <2>1
    <3>3. p = 2 => a = BaseBackoff * 2
      OBVIOUS
    <3> HIDE DEF a
    <3> QED
      BY <3>1, <3>2, <3>3
  <2>3. Backoff(n) = IF a <= MaxBackoff THEN a ELSE MaxBackoff
    BY DEF Backoff
  <2>4. BaseBackoff * 2 = 2 * BaseBackoff
    BY <1>1
  <2> HIDE DEF a, p
  <2> QED
    BY <1>1, <2>2, <2>3, <2>4
<1>5. ASSUME NEW m \in Nat, NEW n \in Nat, m < n
      PROVE  Backoff(n) > Backoff(m) \/ Backoff(n) = MaxBackoff
  <2> DEFINE a == BaseBackoff * 2^m
             b == BaseBackoff * 2^n
  <2>1. a < b
    BY <1>2, <1>5, PowerOfTwo
  <2>2. a \in Nat /\ b \in Nat
    BY <1>3, PowerOfTwo
  <2>3. /\ Backoff(m) = IF a <= MaxBackoff THEN a ELSE MaxBackoff
        /\ Backoff(n) = IF b <= MaxBackoff THEN b ELSE MaxBackoff
    BY DEF Backoff
  <2> HIDE DEF a, b
  <2> QED
    BY <1>1, <2>1, <2>2, <2>3
<1> QED
  BY <1>4, <1>5

\* Where t has passed the check of the counter and its attempt is not counted yet.
Past == {t \in Task : phase[t] \in {"backoff", "connecting", "reading", "failed"}}

\* Every attempt that was let past the check was let past it below the maximum.
Budget == attempts + Cardinality(Past) <= MaxReconnectAttempts + Cardinality(Task) - 1

\* The last backoff of t was that of an earlier attempt than the counter stands at.
WaitedFor(t) ==
  waited[t] = 0 \/ \E k \in 0..attempts : waited[t] = Backoff(k) /\ (t \notin Past => k < attempts)

\* The head of the loop as three cases.
LEMMA CheckCases ==
  ASSUME ConnectionTypeOK, NEW t \in Task, Check(t)
  PROVE  /\ phase[t] = "check" /\ UNCHANGED <<attempts, heartbeat, orphans, failures>>
         /\ \/ /\ AttemptsReached
               /\ phase' = [phase EXCEPT ![t] = "gave_up"] /\ waited' = waited
            \/ /\ ~AttemptsReached /\ attempts = 0
               /\ phase' = [phase EXCEPT ![t] = "connecting"] /\ waited' = waited
            \/ /\ ~AttemptsReached /\ attempts > 0
               /\ phase' = [phase EXCEPT ![t] = "backoff"]
               /\ waited' = [waited EXCEPT ![t] = Backoff(attempts)]
<1>1. phase[t] = "check" /\ UNCHANGED <<attempts, heartbeat, orphans, failures>>
  BY DEF Check
<1>2. attempts = 0 \/ attempts > 0
  BY DEF ConnectionTypeOK
<1>3. CASE AttemptsReached
  BY <1>1, <1>3 DEF Check, Goto
<1>4. CASE ~AttemptsReached /\ attempts = 0
  <2>1. ~(attempts > 0)
    BY <1>4
  <2> QED
    BY <1>1, <1>4, <2>1 DEF Check, Goto
<1>5. CASE ~AttemptsReached /\ attempts > 0
  <2>1. attempts # 0
    BY <1>5 DEF ConnectionTypeOK
  <2> QED
    BY <1>1, <1>5, <2>1 DEF Check, Goto
<1> QED
  BY <1>2, <1>3, <1>4, <1>5

\* Every step keeps the types.
LEMMA ConnectionStepTyped ==
  ConnectionTypeOK /\ [ConnectionNext]_connectionVars => ConnectionTypeOK'
<1> SUFFICES ASSUME ConnectionTypeOK, [ConnectionNext]_connectionVars PROVE ConnectionTypeOK'
  OBVIOUS
<1> USE DEF ConnectionTypeOK
\* A task moves to another place, and keeps its heartbeat only as a reader.
<1>0. ASSUME NEW t \in Task,
             NEW place \in {"idle", "check", "backoff", "connecting", "reading", "failed", "gave_up"},
             Goto(t, place), heartbeat' \in [Task -> BOOLEAN],
             \A u \in Task \ {t} : heartbeat'[u] = heartbeat[u],
             heartbeat'[t] => place = "reading",
             attempts' \in Nat, failures' \in Nat, orphans' \in 0..MaxOrphans,
             waited' \in [Task -> 0..MaxBackoff]
      PROVE  ConnectionTypeOK'
  <2>1. /\ phase' \in [Task -> {"idle", "check", "backoff", "connecting", "reading", "failed", "gave_up"}]
        /\ phase'[t] = place /\ \A u \in Task \ {t} : phase'[u] = phase[u]
    BY <1>0 DEF Goto
  <2>2. \A u \in Task : heartbeat'[u] => phase'[u] = "reading"
    BY <1>0, <2>1
  <2> QED
    BY <1>0, <2>1, <2>2
<1>1. ASSUME NEW t \in Task, Check(t) PROVE ConnectionTypeOK'
  <2>1. Backoff(attempts) \in 0..MaxBackoff
    BY BackoffIs
  <2>2. /\ waited' \in [Task -> 0..MaxBackoff]
        /\ Goto(t, "gave_up") \/ Goto(t, "connecting") \/ Goto(t, "backoff")
        /\ UNCHANGED <<attempts, heartbeat, orphans, failures>> /\ ~heartbeat[t]
    BY <1>1, <2>1, CheckCases DEF Goto
  <2> QED
    BY <1>0, <2>2
<1>2. ASSUME NEW t \in Task, Call(t) \/ Wake(t) \/ ConnectFails(t) PROVE ConnectionTypeOK'
  <2>1. /\ Goto(t, "check") \/ Goto(t, "connecting") \/ Goto(t, "failed")
        /\ failures' \in Nat /\ UNCHANGED <<attempts, heartbeat, orphans, waited>> /\ ~heartbeat[t]
    BY <1>2 DEF Call, Wake, ConnectFails
  <2> QED
    BY <1>0, <2>1
<1>3. ASSUME NEW t \in Task, Open(t) PROVE ConnectionTypeOK'
  <2>1. /\ Goto(t, "reading") /\ heartbeat' = [heartbeat EXCEPT ![t] = TRUE]
        /\ failures' \in Nat /\ UNCHANGED <<attempts, orphans, waited>>
    BY <1>3 DEF Open
  <2> QED
    BY <1>0, <2>1
<1>4. ASSUME NEW t \in Task, Count(t) PROVE ConnectionTypeOK'
  <2>1. /\ Goto(t, "check") /\ attempts' \in Nat /\ ~heartbeat[t]
        /\ UNCHANGED <<heartbeat, orphans, failures, waited>>
    BY <1>4 DEF Count
  <2> QED
    BY <1>0, <2>1
<1>5. ASSUME NEW t \in Task, Lose(t) PROVE ConnectionTypeOK'
  <2>1. MaxOrphans \in Nat /\ orphans \in 0..MaxOrphans
    BY ConnectionAssumption
  <2>2. /\ Goto(t, "failed") /\ heartbeat' = [heartbeat EXCEPT ![t] = FALSE]
        /\ orphans' \in 0..MaxOrphans /\ failures' \in Nat /\ UNCHANGED <<attempts, waited>>
    BY <1>5, <2>1 DEF Lose
  <2> QED
    BY <1>0, <2>2
<1>6. ASSUME NEW t \in Task, PingFails(t) PROVE ConnectionTypeOK'
  BY <1>6 DEF PingFails
<1>7. CASE Reset
  <2>1. waited' \in [Task -> 0..MaxBackoff]
    BY <1>7, ConnectionAssumption DEF Reset
  <2> QED
    BY <1>7, <2>1 DEF Reset
<1>8. CASE OrphanPingFails
  <2>1. MaxOrphans \in Nat /\ orphans \in 0..MaxOrphans
    BY ConnectionAssumption
  <2>2. orphans' \in 0..MaxOrphans
    BY <1>8, <2>1 DEF OrphanPingFails
  <2> QED
    BY <1>8, <2>2 DEF OrphanPingFails
<1>9. CASE UNCHANGED connectionVars
  BY <1>9 DEF connectionVars
<1> QED
  BY <1>1, <1>2, <1>3, <1>4, <1>5, <1>6, <1>7, <1>8, <1>9 DEF ConnectionNext, ConnectionStep

\* Every variable has its type, for any number of tasks, attempts and backoffs.
THEOREM ConnectionTypes == ConnectionSpec => []ConnectionTypeOK
<1>1. ConnectionInit => ConnectionTypeOK
  BY ConnectionAssumption DEF ConnectionInit, ConnectionTypeOK
<1> QED
  BY <1>1, ConnectionStepTyped, PTL DEF ConnectionSpec

\* Counting, where one task comes or goes.
LEMMA TaskCounts ==
  ASSUME NEW S \in SUBSET Task, NEW t \in Task
  PROVE  /\ Cardinality(S) \in Nat /\ Cardinality(Task) \in Nat
         /\ Cardinality(S) <= Cardinality(Task)
         /\ Cardinality(S \cup {t}) \in Nat /\ Cardinality(S \ {t}) \in Nat
         /\ Cardinality(S \cup {t}) <= Cardinality(Task)
         /\ t \notin S => Cardinality(S \cup {t}) = Cardinality(S) + 1
         /\ t \in S => Cardinality(S \ {t}) = Cardinality(S) - 1
<1>1. IsFiniteSet(Task) /\ IsFiniteSet(S) /\ IsFiniteSet(S \cup {t}) /\ IsFiniteSet(S \ {t})
  BY ConnectionAssumption, FS_Subset
<1>2. S \cup {t} \in SUBSET Task
  OBVIOUS
<1> QED
  BY <1>1, <1>2, FS_Subset, FS_CardinalityType, FS_AddElement, FS_RemoveElement

\* Every step keeps within the budget.
LEMMA BudgetStep ==
  ASSUME ConnectionTypeOK, Budget, [ConnectionNext]_connectionVars
  PROVE  Budget'
<1>0. /\ MaxReconnectAttempts \in Nat /\ MaxReconnectAttempts > 0
      /\ attempts \in Nat
  BY ConnectionAssumption DEF ConnectionTypeOK
<1>1. ASSUME NEW t \in Task, Check(t) PROVE Budget'
  <2>1. phase[t] = "check" /\ UNCHANGED attempts /\ t \notin Past
    BY <1>1 DEF Check, Past
  <2>2. CASE AttemptsReached /\ Goto(t, "gave_up")
    <3>1. Past' = Past
      BY <2>1, <2>2 DEF Goto, Past, ConnectionTypeOK
    <3> QED
      BY <2>1, <3>1 DEF Budget
  <2>3. CASE ~AttemptsReached /\ (Goto(t, "connecting") \/ Goto(t, "backoff"))
    <3>1. Past' = Past \cup {t}
      BY <2>1, <2>3 DEF Goto, Past, ConnectionTypeOK
    <3>2. attempts <= MaxReconnectAttempts - 1
      BY <1>0, <2>3 DEF AttemptsReached
    <3>3. Past \in SUBSET Task
      BY DEF Past
    <3>4. /\ Cardinality(Past \cup {t}) <= Cardinality(Task)
          /\ Cardinality(Past \cup {t}) \in Nat /\ Cardinality(Task) \in Nat
      BY <3>3, TaskCounts
    <3>5. attempts + Cardinality(Past \cup {t}) <= MaxReconnectAttempts + Cardinality(Task) - 1
      BY <1>0, <3>2, <3>4
    <3> QED
      BY <2>1, <3>1, <3>5 DEF Budget
  <2> QED
    BY <1>1, <2>2, <2>3, CheckCases DEF Goto
<1>2. ASSUME NEW t \in Task,
             Call(t) \/ Wake(t) \/ ConnectFails(t) \/ Open(t) \/ Lose(t) \/ PingFails(t)
      PROVE  Budget'
  <2>1. attempts' = attempts
    BY <1>2 DEF Call, Wake, ConnectFails, Open, Lose, PingFails
  <2>2. Past' = Past
    <3>1. CASE Call(t)
      BY <3>1 DEF Call, Goto, Past, ConnectionTypeOK
    <3>2. CASE Wake(t) \/ ConnectFails(t)
      BY <3>2 DEF Wake, ConnectFails, Goto, Past, ConnectionTypeOK
    <3>3. CASE Open(t) \/ Lose(t)
      BY <3>3 DEF Open, Lose, Goto, Past, ConnectionTypeOK
    <3>4. CASE PingFails(t)
      BY <3>4 DEF PingFails, Past
    <3> QED
      BY <1>2, <3>1, <3>2, <3>3, <3>4
  <2> QED
    BY <2>1, <2>2 DEF Budget
<1>3. ASSUME NEW t \in Task, Count(t) PROVE Budget'
  <2>1. attempts' = attempts + 1 /\ t \in Past /\ Past' = Past \ {t}
    BY <1>3 DEF Count, Goto, Past, ConnectionTypeOK
  <2>2. Past \in SUBSET Task
    BY DEF Past
  <2>3. /\ Cardinality(Past \ {t}) = Cardinality(Past) - 1
        /\ Cardinality(Past) \in Nat /\ Cardinality(Task) \in Nat
    BY <2>1, <2>2, TaskCounts
  <2>4. (attempts + 1) + Cardinality(Past \ {t}) <= MaxReconnectAttempts + Cardinality(Task) - 1
    BY <1>0, <2>3 DEF Budget
  <2> QED
    BY <2>1, <2>4 DEF Budget
<1>4. CASE Reset
  <2>1. attempts' = 0 /\ Past' = Past
    BY <1>4 DEF Reset, Past
  <2>2. Past \in SUBSET Task /\ IsFiniteSet(Task)
    BY ConnectionAssumption DEF Past
  <2>3. /\ Cardinality(Past) \in Nat /\ Cardinality(Task) \in Nat
        /\ Cardinality(Past) <= Cardinality(Task)
    BY <2>2, FS_Subset, FS_CardinalityType
  <2>4. 0 + Cardinality(Past) <= MaxReconnectAttempts + Cardinality(Task) - 1
    BY <1>0, <2>3
  <2> QED
    BY <2>1, <2>4 DEF Budget
<1>5. CASE OrphanPingFails \/ UNCHANGED connectionVars
  <2>1. UNCHANGED <<attempts, phase>>
    BY <1>5 DEF OrphanPingFails, connectionVars
  <2> QED
    BY <2>1 DEF Budget, Past
<1> QED
  BY <1>1, <1>2, <1>3, <1>4, <1>5 DEF ConnectionNext, ConnectionStep

\* At the start nobody has passed the check.
LEMMA BudgetInit == ConnectionInit => Budget
<1> SUFFICES ASSUME ConnectionInit PROVE Budget
  OBVIOUS
<1>1. attempts = 0 /\ Past = {}
  BY DEF ConnectionInit, Past
<1>2. Cardinality({}) = 0 /\ Cardinality(Task) \in Nat
  BY ConnectionAssumption, FS_EmptySet, FS_CardinalityType
<1> QED
  BY <1>1, <1>2, ConnectionAssumption DEF Budget

\* However the tasks of a manager interleave the check of the counter with adding to it,
\* they pass the maximum by one attempt for each task but one at most.
THEOREM AttemptsBound == ConnectionSpec => []AttemptsBounded
<1> DEFINE IBudget == ConnectionTypeOK /\ Budget
<1>1. ConnectionInit => IBudget
  BY BudgetInit, ConnectionAssumption DEF ConnectionInit, ConnectionTypeOK
<1>2. IBudget /\ [ConnectionNext]_connectionVars => IBudget'
  BY ConnectionStepTyped, BudgetStep
<1>3. IBudget => AttemptsBounded
  <2> SUFFICES ASSUME IBudget PROVE AttemptsBounded
    OBVIOUS
  <2>1. Past \in SUBSET Task /\ IsFiniteSet(Task)
    BY ConnectionAssumption DEF Past
  <2>2. Cardinality(Past) \in Nat /\ Cardinality(Task) \in Nat
    BY <2>1, FS_Subset, FS_CardinalityType
  <2> QED
    BY <2>2, ConnectionAssumption DEF Budget, AttemptsBounded, ConnectionTypeOK
<1> HIDE DEF IBudget
<1> QED
  BY <1>1, <1>2, <1>3, PTL DEF ConnectionSpec

\* Every step keeps what the last backoffs were.
LEMMA WaitedStep ==
  ASSUME ConnectionTypeOK, \A t \in Task : WaitedFor(t), [ConnectionNext]_connectionVars
  PROVE  (\A t \in Task : WaitedFor(t))'
<1>0. attempts \in Nat
  BY DEF ConnectionTypeOK
\* An older backoff stays one when the counter does not fall.
<1>1. ASSUME NEW u \in Task, waited'[u] = waited[u], attempts' \in Nat, attempts' >= attempts,
             u \in Past /\ u \notin Past' => attempts' > attempts
      PROVE  WaitedFor(u)'
  <2>1. CASE waited[u] = 0
    BY <1>1, <2>1 DEF WaitedFor
  <2>2. CASE waited[u] # 0
    <3>1. PICK k \in 0..attempts : waited[u] = Backoff(k) /\ (u \notin Past => k < attempts)
      BY <2>2 DEF WaitedFor
    <3> DEFINE later == attempts'
    <3>2. later \in Nat /\ later >= attempts /\ (u \notin Past' => k < attempts \/ later > attempts)
      BY <1>1, <3>1
    <3> HIDE DEF later
    <3>3. k \in 0..later /\ (u \notin Past' => k < later)
      BY <1>0, <3>1, <3>2
    <3>4. Backoff(k)' = Backoff(k)
      BY DEF Backoff
    <3> QED
      BY <1>1, <3>1, <3>3 DEF WaitedFor, later
  <2> QED
    BY <2>1, <2>2
<1>2. ASSUME NEW t \in Task, Check(t) PROVE (\A u \in Task : WaitedFor(u))'
  <2>1. ASSUME NEW u \in Task, waited'[u] = waited[u] PROVE WaitedFor(u)'
    <3>1. attempts' = attempts /\ (u \in Past => u \in Past')
      BY <1>2, CheckCases DEF Past, ConnectionTypeOK
    <3> QED
      BY <1>0, <1>1, <2>1, <3>1
  <2>2. CASE waited' = waited
    BY <2>1, <2>2
  <2>3. CASE waited' = [waited EXCEPT ![t] = Backoff(attempts)] /\ phase' = [phase EXCEPT ![t] = "backoff"]
    <3>1. waited'[t] = Backoff(attempts) /\ t \in Past' /\ attempts' = attempts
      BY <1>2, <2>3, CheckCases DEF Past, ConnectionTypeOK
    <3>2. attempts \in 0..attempts
      BY <1>0
    <3>3. WaitedFor(t)'
      BY <3>1, <3>2 DEF WaitedFor, Backoff
    <3>4. \A u \in Task \ {t} : waited'[u] = waited[u]
      BY <2>3 DEF ConnectionTypeOK
    <3> QED
      BY <2>1, <3>3, <3>4
  <2> QED
    BY <1>2, <2>2, <2>3, CheckCases
<1>3. ASSUME NEW t \in Task, Call(t) \/ Wake(t) \/ ConnectFails(t)
      PROVE  (\A u \in Task : WaitedFor(u))'
  <2>1. /\ waited' = waited /\ attempts' = attempts
        /\ \A u \in Task : u \in Past => u \in Past'
    BY <1>3 DEF Call, Wake, ConnectFails, Goto, Past, ConnectionTypeOK
  <2> QED
    BY <1>0, <1>1, <2>1
<1>4. ASSUME NEW t \in Task, Open(t) \/ Lose(t) \/ PingFails(t)
      PROVE  (\A u \in Task : WaitedFor(u))'
  <2>1. /\ waited' = waited /\ attempts' = attempts
        /\ \A u \in Task : u \in Past => u \in Past'
    BY <1>4 DEF Open, Lose, PingFails, Goto, Past, ConnectionTypeOK
  <2> QED
    BY <1>0, <1>1, <2>1
<1>5. ASSUME NEW t \in Task, Count(t) PROVE (\A u \in Task : WaitedFor(u))'
  <2>1. waited' = waited /\ attempts' = attempts + 1
    BY <1>5 DEF Count
  <2>2. attempts + 1 \in Nat /\ attempts + 1 >= attempts /\ attempts + 1 > attempts
    BY <1>0
  <2> QED
    BY <1>1, <2>1, <2>2
<1>6. CASE Reset
  BY <1>6 DEF Reset, WaitedFor
<1>7. CASE OrphanPingFails \/ UNCHANGED connectionVars
  <2>1. UNCHANGED <<attempts, phase, waited>>
    BY <1>7 DEF OrphanPingFails, connectionVars
  <2>2. \A u \in Task : u \in Past => u \in Past'
    BY <2>1 DEF Past
  <2> QED
    BY <1>0, <1>1, <2>1, <2>2
<1> QED
  BY <1>2, <1>3, <1>4, <1>5, <1>6, <1>7 DEF ConnectionNext, ConnectionStep

\* Between two resets the waits of a task grow until they reach the cap, whatever the
\* base, the cap and the other tasks that count on the same counter.
THEOREM BackoffsGrow == ConnectionSpec => BackoffGrows
<1> DEFINE IWaited == ConnectionTypeOK /\ \A t \in Task : WaitedFor(t)
           Grows(t) == phase[t] = "check" /\ phase'[t] = "backoff" =>
                         /\ waited'[t] <= MaxBackoff
                         /\ waited'[t] > waited[t] \/ waited'[t] = MaxBackoff
<1>1. ConnectionInit => IWaited
  BY ConnectionAssumption DEF ConnectionInit, ConnectionTypeOK, WaitedFor
<1>2. IWaited /\ [ConnectionNext]_connectionVars => IWaited'
  BY ConnectionStepTyped, WaitedStep
<1>3. IWaited /\ [ConnectionNext]_connectionVars => [\A t \in Task : Grows(t)]_connectionVars
  <2> SUFFICES ASSUME IWaited, ConnectionNext, NEW t \in Task,
                      phase[t] = "check", phase'[t] = "backoff"
               PROVE  /\ waited'[t] <= MaxBackoff
                      /\ waited'[t] > waited[t] \/ waited'[t] = MaxBackoff
    BY DEF connectionVars
  <2>1. Check(t)
    <3>1. ASSUME NEW u \in Task, Call(u) \/ Wake(u) \/ ConnectFails(u) \/ Open(u) PROVE FALSE
      BY <3>1 DEF Call, Wake, ConnectFails, Open, Goto, ConnectionTypeOK
    <3>2. ASSUME NEW u \in Task, Count(u) \/ Lose(u) \/ PingFails(u) PROVE FALSE
      BY <3>2 DEF Count, Lose, PingFails, Goto, ConnectionTypeOK
    <3>3. ASSUME NEW u \in Task, Check(u) PROVE u = t
      BY <3>3, CheckCases DEF ConnectionTypeOK
    <3>4. ~Reset /\ ~OrphanPingFails
      BY DEF Reset, OrphanPingFails
    <3> QED
      BY <3>1, <3>2, <3>3, <3>4 DEF ConnectionNext, ConnectionStep
  <2>2. waited'[t] = Backoff(attempts) /\ attempts > 0 /\ attempts \in Nat /\ t \notin Past
    BY <2>1, CheckCases DEF ConnectionTypeOK, Past
  <2> DEFINE wait == Backoff(attempts)
  <2>3. /\ wait \in 0..MaxBackoff /\ wait >= 2 * BaseBackoff
        /\ \A k \in Nat : k < attempts => wait > Backoff(k) \/ wait = MaxBackoff
    BY <2>2, BackoffIs
  <2>4. waited[t] = 0 \/ \E k \in 0..attempts : waited[t] = Backoff(k) /\ k < attempts
    BY <2>2 DEF WaitedFor
  <2> HIDE DEF wait
  <2>5. wait <= MaxBackoff /\ wait > 0
    BY <2>3, ConnectionAssumption
  <2>6. wait > waited[t] \/ wait = MaxBackoff
    BY <2>2, <2>3, <2>4, <2>5
  <2> QED
    BY <2>2, <2>3, <2>5, <2>6 DEF wait
<1> HIDE DEF IWaited
<1> QED
  BY <1>1, <1>2, <1>3, PTL DEF ConnectionSpec, BackoffGrows
=============================================================================
