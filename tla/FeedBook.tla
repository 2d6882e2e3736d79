------------------------------ MODULE FeedBook ------------------------------
(***************************************************************************)
(* Whether the book a market is quoted on can be trusted.  The orderbook   *)
(* subscription of one market: the sequence check                          *)
(* (WebSocketClient::sequence_intact), the resync it forces by closing the *)
(* connection, the handlers that apply what passes it to the local book    *)
(* (TradingSession::on_snapshot, on_delta), and the rotation thread that   *)
(* seeds the book from a REST read taken outside the engine lock           *)
(* (rotate_markets, net/websocket_client.cpp, engine/trading_session.cpp,  *)
(* app/app_modes.cpp).                                                     *)
(*                                                                         *)
(* The server numbers the messages of a subscription from 1, the snapshot; *)
(* a message may be lost on the way, and the client must notice.           *)
(***************************************************************************)
EXTENDS Orderbook

CONSTANTS
    Prices,         \* the price levels of either side
    MaxQty,         \* bound: contracts resting at a level
    MaxChanges,     \* bound: changes of the exchange's book in a behaviour
    MaxLosses,      \* bound: messages lost in a behaviour
    MaxDrops,       \* bound: connections lost of themselves in a behaviour
    LoseSnapshot,   \* the snapshot itself may be lost
    DrainOnClose,   \* messages already received are dispatched after close()
    Readopt         \* a market dropped by the rotation may be adopted again

ASSUME BoundsAssumption ==
    /\ Prices \subseteq 1..99
    /\ {MaxQty, MaxChanges, MaxLosses, MaxDrops} \subseteq Nat
ASSUME FaultsAssumption == {LoseSnapshot, DrainOnClose, Readopt} \subseteq BOOLEAN

VARIABLES
    ladder,     \* the exchange's book: the size of every level
    shown,      \* history: every book the exchange has had
    conn,       \* the connection: "down", "up" or "closing"
    srvSeq,     \* the last sequence number the server used, 0: nothing sent
    subscribed, \* the market is in subscribed_tickers_
    chan,       \* messages on their way
    lost,       \* history: the numbers of this connection's lost messages
    lastSeq,    \* last_seq_by_sid_ for this subscription: 0 when absent
    tracked,    \* the session trades the market
    book,       \* ob_map_ of the market
    rotation,   \* the rotation thread: "idle", "fetched" or "added"
    fetched,    \* what it read over REST
    changes, losses, drops  \* how many of each so far

server == <<ladder, shown, changes>>
feed == <<conn, srvSeq, subscribed, chan, lost, lastSeq>>
session == <<tracked, book, rotation, fetched>>
vars == <<server, feed, session, losses, drops>>

(* What the exchange lists of a book: the levels with something on them,   *)
(* worst price first, as a REST answer and a snapshot message have them.   *)
Listing(sizes) ==
    [s \in Sides |->
        LET used == {p \in Prices : sizes[s][p] > 0}
            nth == [i \in 1..Cardinality(used) |->
                        CHOOSE p \in used : Cardinality({q \in used : q <= p}) = i]
        IN  [i \in DOMAIN nth |-> Level(nth[i], sizes[s][nth[i]])]]

(* The book a client has that missed nothing.                              *)
BookOf(sizes) == LET listing == Listing(sizes) IN [s \in Sides |-> BestFirst(listing[s])]
TrueBook == BookOf(ladder)

Crossed(sizes) ==
    \E y, n \in Prices : sizes["yes"][y] > 0 /\ sizes["no"][n] > 0 /\ y + n >= 100

Snapshot == [seq |-> 1, type |-> "snapshot", snap |-> Listing(ladder)]
Delta(seq, side, price, delta) ==
    [seq |-> seq, type |-> "delta", side |-> side, price |-> price, delta |-> delta]

Subscribing == conn = "up" /\ subscribed /\ srvSeq = 0
Streaming == conn = "up" /\ srvSeq > 0

(* A message on its way, or lost.                                          *)
Send(msg) ==
    \/ chan' = Append(chan, msg) /\ UNCHANGED <<lost, losses>>
    \/ /\ losses < MaxLosses
       /\ LoseSnapshot \/ msg.seq > 1
       /\ losses' = losses + 1
       /\ lost' = lost \cup {msg.seq}
       /\ UNCHANGED chan

-----------------------------------------------------------------------------
(* The exchange (external): it answers a subscription with a snapshot, and *)
(* sends every later change of a level.                                    *)
ServerSnapshot ==
    /\ Subscribing
    /\ srvSeq' = 1
    /\ Send(Snapshot)
    /\ UNCHANGED <<server, conn, subscribed, lastSeq, session, drops>>

ServerChange ==
    /\ changes < MaxChanges
    /\ \E s \in Sides, p \in Prices, q \in 0..MaxQty :
          LET sizes == [ladder EXCEPT ![s][p] = q]
          IN  /\ q # ladder[s][p] /\ ~Crossed(sizes)
              /\ ladder' = sizes
              /\ IF Streaming
                   THEN /\ srvSeq' = srvSeq + 1
                        /\ Send(Delta(srvSeq + 1, s, p, q - ladder[s][p]))
                   ELSE UNCHANGED <<srvSeq, chan, lost, losses>>
    /\ changes' = changes + 1
    /\ shown' = shown \cup {BookOf(ladder')}
    /\ UNCHANGED <<conn, subscribed, lastSeq, session, drops>>

-----------------------------------------------------------------------------
(* The feed thread.                                                        *)

(* Mutant: a sequence number that jumps ahead is taken as it comes.        *)
MutSequenceIntact(seq) == lastSeq = 0 \/ seq > lastSeq

(* The first message of a subscription starts the count.                   *)
SequenceIntact(seq) == lastSeq = 0 \/ seq = lastSeq + 1

(* The handlers write ob_map_ whether or not the market is tracked.        *)
OnSnapshot(snap) == book' = ApplySnapshot(snap)
OnDelta(m) == book' = ApplyDelta(book, m.side, m.price, m.delta)

Dispatch(m) ==
    \/ m.type = "snapshot" /\ OnSnapshot(m.snap)
    \/ m.type = "delta" /\ OnDelta(m)

(* Mutant: a gap is dropped and logged, and the connection kept.           *)
MutGapFound == lastSeq' = 0 /\ UNCHANGED <<conn, book>>

(* A gap: the message is dropped, the counts are forgotten, and the socket *)
(* is asked to close, which it does after a while.                         *)
GapFound == lastSeq' = 0 /\ conn' = "closing" /\ UNCHANGED book

HandleMessage ==
    /\ conn = "up" \/ (conn = "closing" /\ DrainOnClose)
    /\ chan # <<>>
    /\ chan' = Tail(chan)
    /\ \/ /\ SequenceIntact(Head(chan).seq)
          /\ lastSeq' = Head(chan).seq
          /\ Dispatch(Head(chan))
          /\ UNCHANGED conn
       \/ ~SequenceIntact(Head(chan).seq) /\ GapFound
    /\ UNCHANGED <<server, srvSeq, subscribed, lost, tracked, rotation, fetched, losses, drops>>

(* The close, asked for or not.                                            *)
OnDisconnect ==
    /\ \/ conn = "closing" /\ UNCHANGED drops
       \/ conn = "up" /\ drops < MaxDrops /\ drops' = drops + 1
    /\ conn' = "down" /\ srvSeq' = 0 /\ lost' = {}
    /\ chan' = <<>>
    /\ UNCHANGED <<server, subscribed, lastSeq, session, losses>>

(* Mutant: the counts of the old connection are kept.                      *)
MutHandleConnect ==
    /\ conn = "down"
    /\ conn' = "up"
    /\ UNCHANGED <<server, srvSeq, subscribed, chan, lost, lastSeq, session, losses, drops>>

(* handle_connect: the counts are cleared and every subscribed ticker is   *)
(* subscribed anew, which the server answers with a snapshot.              *)
HandleConnect ==
    /\ conn = "down"
    /\ conn' = "up"
    /\ lastSeq' = 0
    /\ UNCHANGED <<server, srvSeq, subscribed, chan, lost, session, losses, drops>>

-----------------------------------------------------------------------------
(* The rotation thread adopts a market in three steps: the REST read       *)
(* without the lock, the session change under it, the subscription; the    *)
(* start of the session takes the same steps.                              *)
FetchBook ==
    /\ rotation = "idle" /\ ~tracked
    /\ Readopt \/ ~subscribed
    /\ rotation' = "fetched"
    /\ fetched' = Listing(ladder)
    /\ UNCHANGED <<server, feed, tracked, book, losses, drops>>

(* add_market, seed_orderbook: the read replaces the book.                 *)
AddMarket ==
    /\ rotation = "fetched"
    /\ rotation' = "added"
    /\ tracked' = TRUE
    /\ book' = ApplySnapshot(fetched)
    /\ fetched' = EmptyBook
    /\ UNCHANGED <<server, feed, losses, drops>>

(* Mutant: the ticker is remembered for the next connection only.          *)
MutSubscribe ==
    /\ rotation = "added"
    /\ rotation' = "idle"
    /\ subscribed' = (conn # "up")
    /\ UNCHANGED <<server, conn, srvSeq, chan, lost, lastSeq, tracked, book, fetched, losses, drops>>

(* A ticker subscribed before is not subscribed again.                     *)
Subscribe ==
    /\ rotation = "added"
    /\ rotation' = "idle"
    /\ subscribed' = TRUE
    /\ UNCHANGED <<server, conn, srvSeq, chan, lost, lastSeq, tracked, book, fetched, losses, drops>>

(* remove_market_if_idle: the book is erased, the subscription stays.      *)
DropMarket ==
    /\ rotation = "idle" /\ tracked
    /\ tracked' = FALSE /\ book' = EmptyBook
    /\ UNCHANGED <<server, feed, rotation, fetched, losses, drops>>

-----------------------------------------------------------------------------
Init ==
    /\ ladder \in [Sides -> [Prices -> 0..MaxQty]] /\ ~Crossed(ladder)
    /\ shown = {TrueBook}
    /\ conn = "down" /\ srvSeq = 0 /\ subscribed = FALSE
    /\ chan = <<>> /\ lost = {} /\ lastSeq = 0
    /\ tracked = FALSE /\ book = EmptyBook
    /\ rotation = "idle" /\ fetched = EmptyBook
    /\ changes = 0 /\ losses = 0 /\ drops = 0

Next ==
    \/ ServerSnapshot \/ ServerChange
    \/ HandleMessage \/ OnDisconnect \/ HandleConnect
    \/ FetchBook \/ AddMarket \/ Subscribe \/ DropMarket

Spec == Init /\ [][Next]_vars

(* Messages that arrive are dispatched, a close asked for happens, the     *)
(* client reconnects, the server answers a subscription, and an adoption   *)
(* once begun is finished.                                                 *)
FairSpec ==
    /\ Spec
    /\ WF_vars(HandleMessage)
    /\ WF_vars(conn = "closing" /\ OnDisconnect)
    /\ WF_vars(HandleConnect)
    /\ WF_vars(ServerSnapshot)
    /\ WF_vars(AddMarket) /\ WF_vars(Subscribe)

-----------------------------------------------------------------------------
(* Properties.                                                             *)

(* The quoter never prices a market on a book the exchange never had: what *)
(* seed_orderbook, on_snapshot and on_delta made of the messages is, at    *)
(* every moment, a book the exchange had at some moment.                   *)
BookWasReal == tracked => book \in shown

(* The local book is the exchange's book, level for level, whenever every  *)
(* message of the subscription has been handled: no sort, insertion,       *)
(* removal or seed has left it different.                                  *)
BookMirrorsExchange ==
    (tracked /\ conn = "up" /\ lastSeq > 0 /\ lastSeq = srvSeq) => book = TrueBook

(* A market the session trades gets a book of its own feed: once adopted,  *)
(* unless it is dropped again, a snapshot of a subscription arrives.       *)
AdoptedIsFed ==
    (tracked /\ rotation = "added")
        ~> (~tracked \/ lastSeq > 0 \/ conn = "closing")

(* A lost message that a later one follows forces a resync: the connection *)
(* is closed, which pulls the quotes and brings a new snapshot.            *)
GapForcesResync ==
    \A i \in 2..(MaxChanges + 1) :
        (conn = "up" /\ i \in lost /\ \E k \in 1..Len(chan) : chan[k].seq > i)
            ~> (conn = "down")

(* A resync is forced by a message lost on this connection only, never by  *)
(* the renumbering of a new one.                                           *)
NoFalseGap == [][(conn = "up" /\ conn' = "closing") => lost # {}]_vars

(* On a book with one level a side, the full-depth clearing price with no  *)
(* decay is the micro-price, as clearing_price_cents documents; and decay  *)
(* or not, both lie between the best bid and the best ask.                 *)
ClearingIsMicro ==
    LET flat == [d \in 0..200 |-> 1]
        halving == [d \in 0..200 |-> IF d = 0 THEN 4 ELSE IF d = 1 THEN 2 ELSE 1]
        at(f, p) == p * f[2]
        micro == MicroPrice(book)
        clearing == ClearingPrice(book, 0, flat)
        best == ClearingPrice(book, 1, halving)
    IN  TwoSided(book) =>
            /\ (Len(book.yes) = 1 /\ Len(book.no) = 1)
                    => clearing[1] * micro[2] = micro[1] * clearing[2]
            /\ at(micro, BestBid(book).price) <= micro[1]
            /\ micro[1] <= at(micro, BestAsk(book).price)
            /\ at(best, BestBid(book).price) <= best[1]
            /\ best[1] <= at(best, BestAsk(book).price)
=============================================================================
