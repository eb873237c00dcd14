----------------------------- MODULE OrderBooks -----------------------------
(***************************************************************************)
(* The market data path: the venue's depth stream, one websocket reader    *)
(* task per connection (crates/exchanges/src/binance.rs), the handler that *)
(* forwards a snapshot (crates/gui/src/main.rs) and the shared             *)
(* OrderBookManager (crates/core/src/orderbook.rs) that every other part   *)
(* of the program reads.                                                   *)
(*                                                                         *)
(* Several connections may serve one key: start_websocket opens a new one  *)
(* each time it is called and never looks for an older one.                *)
(***************************************************************************)
EXTENDS Integers, Sequences, FiniteSets

CONSTANTS Key,       \* the (exchange, symbol) pairs
          Conn,      \* websocket connections
          KeyOf,     \* KeyOf[c]: the key connection c was opened for
          Reader,    \* tasks that call get_snapshot
          Payload,   \* depth messages the venue may publish
          MaxSeq     \* bound: messages published per key

\* A price level as the text of a message gives it: a level whose price or
\* quantity is not a number does not parse.
RawLevel == [price : Nat \ {0}, quantity : Nat, parses : BOOLEAN]

FiniteSubsets(S) == {T \in SUBSET S : IsFiniteSet(T)}

\* A depth message. serde rejects the whole text unless it is well formed.
DepthUpdate == [bids : FiniteSubsets(RawLevel), asks : FiniteSubsets(RawLevel),
                well_formed : BOOLEAN]

\* A venue quotes each price once per side, so sorting leaves no choice.
OneLevelPerPrice(side) == \A l, m \in side : l.price = m.price => l = m

ASSUME OrderBooksAssumption ==
  /\ KeyOf \in [Conn -> Key]
  /\ Payload \subseteq DepthUpdate
  /\ \A p \in Payload : OneLevelPerPrice(p.bids) /\ OneLevelPerPrice(p.asks)
  /\ MaxSeq \in Nat

VARIABLES feed,      \* feed[k]: the messages published; the s-th has update id s
          up,        \* up[c]: connection c is open and its reader task loops
          next,      \* next[c]: the id of the message read.next() returns next
          held,      \* held[c]: the snapshot being handled, if any
          writing,   \* writing[c]: what OrderBook::update does next in c's call, or "no"
          books,     \* books[k]: the stored OrderBook
          delivered, \* history: the update ids OrderBookManager::update has returned from
          view       \* view[r][k]: the last snapshot r got

connVars == <<up, next, held>>
bookVars == <<feed, connVars, writing, books, delivered, view>>

-----------------------------------------------------------------------------
(* Data *)

PriceLevel == [price : Nat \ {0}, quantity : Nat]

\* An OrderBookSnapshot on its way to the store. Its levels are kept as a set: the
\* store sorts them, so their order in the message is immaterial.
Snapshot == [bids : FiniteSubsets(PriceLevel), asks : FiniteSubsets(PriceLevel),
             sequence : Nat]

\* timestamp_ns, which goes the way of the sequence, is left out.
OrderBook == [bids : Seq(PriceLevel), asks : Seq(PriceLevel), sequence : Nat]

\* OrderBook::new. A key the map has no entry for is read as this book:
\* update ids start at 1, so neither is distinguished by any later update.
NewOrderBook == [bids |-> <<>>, asks |-> <<>>, sequence |-> 0]

\* The reader task is between messages.
NoSnapshot == [bids |-> {}, asks |-> {}, sequence |-> 0]

Levels(s) == {s[i] : i \in DOMAIN s}

\* Faulty variant: unwrap_or_default in place of .ok()?.
ParsedWithDefaults(side) ==
  {[price |-> IF l.parses THEN l.price ELSE 0, quantity |-> l.quantity] : l \in side}

\* The levels of a side that parse, as filter_map collects them.
Parsed(side) == {[price |-> l.price, quantity |-> l.quantity] :
                    l \in {m \in side : m.parses}}

\* The arrangements of a set of levels as a vector.
Arrangements(side) == {t \in [1..Cardinality(side) -> side] : Levels(t) = side}

Descending(t) == \A i, j \in DOMAIN t : i < j => t[i].price > t[j].price
Ascending(t) == \A i, j \in DOMAIN t : i < j => t[i].price < t[j].price

SortedBids(side) == {t \in Arrangements(side) : Descending(t)}
SortedAsks(side) == {t \in Arrangements(side) : Ascending(t)}

-----------------------------------------------------------------------------
(* Behaviour *)

BooksInit ==
  /\ feed = [k \in Key |-> <<>>]
  /\ up = [c \in Conn |-> FALSE]
  /\ next = [c \in Conn |-> 1]
  /\ held = [c \in Conn |-> NoSnapshot]
  /\ writing = [c \in Conn |-> "no"]
  /\ books = [k \in Key |-> NewOrderBook]
  /\ delivered = [k \in Key |-> {}]
  /\ view = [r \in Reader |-> [k \in Key |-> NewOrderBook]]

\* The venue publishes the next depth message of a key.
PublishDepth(k) ==
  /\ Len(feed[k]) < MaxSeq
  /\ \E p \in Payload : feed' = [feed EXCEPT ![k] = Append(@, p)]
  /\ UNCHANGED <<connVars, writing, books, delivered, view>>

\* start_websocket connects and spawns the reader: the stream carries what the
\* venue publishes from now on.
StartWebsocket(c) ==
  /\ ~up[c]
  /\ up' = [up EXCEPT ![c] = TRUE]
  /\ next' = [next EXCEPT ![c] = Len(feed[KeyOf[c]]) + 1]
  /\ UNCHANGED <<feed, held, writing, books, delivered, view>>

\* The reader task is at read.next().
AtReadNext(c) == up[c] /\ held[c] = NoSnapshot

HasMessage(c) == AtReadNext(c) /\ next[c] <= Len(feed[KeyOf[c]])

Message(c) == feed[KeyOf[c]][next[c]]

\* handle_depth_message up to the handler call: the text parses, the levels
\* that are numbers are kept.
ReceiveDepth(c) ==
  /\ HasMessage(c)
  /\ Message(c).well_formed
  /\ next' = [next EXCEPT ![c] = @ + 1]
  /\ held' = [held EXCEPT ![c] = [bids |-> Parsed(Message(c).bids),
                                  asks |-> Parsed(Message(c).asks),
                                  sequence |-> next[c]]]
  /\ UNCHANGED <<feed, up, writing, books, delivered, view>>

\* Faulty variant: the reader keeps retrying a text it cannot parse.
DropMessageRetried(c) ==
  /\ HasMessage(c)
  /\ ~Message(c).well_formed
  /\ UNCHANGED bookVars

\* handle_depth_message returns the serde error, which the loop only logs.
DropMessage(c) ==
  /\ HasMessage(c)
  /\ ~Message(c).well_formed
  /\ next' = [next EXCEPT ![c] = @ + 1]
  /\ UNCHANGED <<feed, up, held, writing, books, delivered, view>>

\* Faulty variant: the fields of a book are locked one by one.
NeverLocked(k) == FALSE

\* An update holds the lock of its DashMap entry from first to last.
Locked(k) == \E c \in Conn : KeyOf[c] = k /\ writing[c] # "no"

\* Faulty variant: a guard that skips the next update.
FarAhead(snapshot, b) == snapshot.sequence > b.sequence + 1

\* Only update if newer sequence number.
Newer(snapshot, b) == snapshot.sequence > b.sequence

\* The update of c's snapshot returns and the reader goes back to read.next().
Return(c) ==
  /\ delivered' = [delivered EXCEPT ![KeyOf[c]] = @ \cup {held[c].sequence}]
  /\ held' = [held EXCEPT ![c] = NoSnapshot]
  /\ writing' = [writing EXCEPT ![c] = "no"]

\* handle_orderbook_update calls OrderBookManager::update, which locks the entry. An
\* update that is not newer is dropped,
SkipUpdate(c) ==
  /\ held[c] # NoSnapshot /\ ~Locked(KeyOf[c])
  /\ ~Newer(held[c], books[KeyOf[c]])
  /\ Return(c)
  /\ UNCHANGED <<feed, up, next, books, view>>

\* of a newer one the bids are stored, in whatever order the message gave them,
ReplaceBids(c) ==
  /\ held[c] # NoSnapshot /\ ~Locked(KeyOf[c])
  /\ Newer(held[c], books[KeyOf[c]])
  /\ \E b \in Arrangements(held[c].bids) : books' = [books EXCEPT ![KeyOf[c]].bids = b]
  /\ writing' = [writing EXCEPT ![c] = "asks"]
  /\ UNCHANGED <<feed, connVars, delivered, view>>

\* then the asks and the sequence,
ReplaceAsks(c) ==
  /\ writing[c] = "asks"
  /\ \E a \in Arrangements(held[c].asks) :
        books' = [books EXCEPT ![KeyOf[c]].asks = a,
                               ![KeyOf[c]].sequence = held[c].sequence]
  /\ writing' = [writing EXCEPT ![c] = "sort"]
  /\ UNCHANGED <<feed, connVars, delivered, view>>

\* and both sides are sorted. A side has one sorted arrangement.
SortBook(c) ==
  /\ writing[c] = "sort"
  /\ \E b \in SortedBids(Levels(books[KeyOf[c]].bids)),
        a \in SortedAsks(Levels(books[KeyOf[c]].asks)) :
        books' = [books EXCEPT ![KeyOf[c]].bids = b, ![KeyOf[c]].asks = a]
  /\ Return(c)
  /\ UNCHANGED <<feed, up, next, view>>

\* The stream ends: a Close frame, an error or the end of the stream breaks the
\* loop, and what was still queued on the connection is lost.
CloseWebsocket(c) ==
  /\ AtReadNext(c)
  /\ up' = [up EXCEPT ![c] = FALSE]
  /\ UNCHANGED <<feed, next, held, writing, books, delivered, view>>

\* get_snapshot: a copy of the entry, which is locked for as long.
GetSnapshot(r, k) ==
  /\ ~Locked(k)
  /\ view' = [view EXCEPT ![r][k] = books[k]]
  /\ UNCHANGED <<feed, connVars, writing, books, delivered>>

HandleOrderbookUpdate(c) == SkipUpdate(c) \/ ReplaceBids(c) \/ ReplaceAsks(c) \/ SortBook(c)

ReaderTask(c) == ReceiveDepth(c) \/ DropMessage(c) \/ HandleOrderbookUpdate(c)

BooksNext == \/ \E k \in Key : PublishDepth(k)
             \/ \E c \in Conn : StartWebsocket(c) \/ ReaderTask(c) \/ CloseWebsocket(c)
             \/ \E r \in Reader, k \in Key : GetSnapshot(r, k)

BooksSpec == BooksInit /\ [][BooksNext]_bookVars

\* A spawned reader task that has a message, or waits for a lock that is let go of, is
\* eventually scheduled. Nothing makes the venue publish, a caller read or a connection stay open.
BooksFairSpec == BooksSpec /\ \A c \in Conn : WF_bookVars(ReaderTask(c))

-----------------------------------------------------------------------------
(* Properties *)

\* Every variable has its type: a stored book is a vector of parsed levels.
BooksTypeOK ==
  /\ feed \in [Key -> Seq(Payload)]
  /\ up \in [Conn -> BOOLEAN]
  /\ next \in [Conn -> Nat \ {0}]
  /\ held \in [Conn -> Snapshot]
  /\ writing \in [Conn -> {"no", "asks", "sort"}]
  /\ books \in [Key -> OrderBook]
  /\ delivered \in [Key -> SUBSET Nat]
  /\ view \in [Reader -> [Key -> OrderBook]]

\* Whatever order the connections of a key deliver in, and however often, the
\* store holds the newest update handed to it and nothing else whenever its entry
\* can be locked (the sequence guard of OrderBook::update).
NewestHandledWins ==
  \A k \in Key : ~Locked(k) => /\ books[k].sequence \in delivered[k] \cup {0}
                               /\ \A s \in delivered[k] : s <= books[k].sequence

\* b is the message with its update id: both sides, complete but for the levels
\* that do not parse, best price first.
IsOneMessage(b, k) ==
  b.sequence # 0 => LET m == feed[k][b.sequence]
                    IN  /\ b.sequence <= Len(feed[k])
                        /\ m.well_formed
                        /\ Levels(b.bids) = Parsed(m.bids) /\ Descending(b.bids)
                        /\ Levels(b.asks) = Parsed(m.asks) /\ Ascending(b.asks)

\* A reader never gets sides of two messages, a side that is not sorted best
\* price first or levels no message carried, although connections replace the
\* book field by field while it reads (OrderBook::update under the entry's lock).
SnapshotsAreOneMessage ==
  \A r \in Reader, k \in Key : IsOneMessage(view[r][k], k)

\* Once any task has read a version of a book, no task reads an older one.
ReadsNeverRegress ==
  [][\A r, q \in Reader, k \in Key :
        view'[r][k] # view[r][k] => view'[r][k].sequence >= view[q][k].sequence]_bookVars

\* A well-formed message queued on a connection reaches the book, or a newer one
\* does, unless the connection ends: a message the reader fails to parse, or one
\* that another connection has overtaken, does not hold up the messages behind it.
QueuedMessagesLand ==
  \A c \in Conn : \A s \in 1..MaxSeq :
    (/\ up[c] /\ next[c] <= s /\ s <= Len(feed[KeyOf[c]])
     /\ feed[KeyOf[c]][s].well_formed)
      ~> (books[KeyOf[c]].sequence >= s \/ ~up[c])

\* The abstract store: what is offered is what the handlers deliver.
Store == INSTANCE NewestWins WITH
           Version <- 1..MaxSeq,
           offered <- delivered,
           seen <- [r \in Reader |-> [k \in Key |-> view[r][k].sequence]]

\* Keeping one book per key, guarded by its sequence, is as good as keeping
\* every update and searching for the newest at each read.
Refines == Store!Spec
=============================================================================
