-------------------------------- MODULE Listings --------------------------------
(***************************************************************************)
(* What OrderService and WatchService list: the order book of a watch, the *)
(* orders that can fill a request, and the watches, sorted, filtered and   *)
(* in pages.                                                               *)
(*                                                                         *)
(* Orders are taken as a load of the book finds them, stored ones and then *)
(* those still in the queue (OrderBook has the loads, OrderLifecycle the   *)
(* rest of an order's life).  What a fill request or an event writes about *)
(* an order is computed from a document it read before.  Watches are       *)
(* numbered in the order they were created; MarketStats has the one that   *)
(* is traded.                                                              *)
(***************************************************************************)
EXTENDS MarketStats

CONSTANTS
  Makers,
  MaxShares,   \* bound: shares of an order
  Sizes,       \* bound: shares an order is posted with
  MaxOrders,   \* bound: orders
  Fills,       \* fill requests in progress at once
  OrdersCount, \* ORDERS_COUNT
  Costs,       \* initialPrice of each watch
  Traded,      \* the watch of MarketStats
  Limit,       \* watches of a page
  Parts        \* bound: the parts of the state that move

ASSUME ListingAssumption ==
  /\ MaxShares \in Nat \ {0} /\ Sizes \subseteq 1 .. MaxShares /\ MaxOrders \in Nat
  /\ OrdersCount \in Nat \ {0, 1} /\ Limit \in Nat \ {0}
  /\ Costs \in Seq(Nat) /\ Traded \in DOMAIN Costs

VARIABLES
  orders,   \* orders collection and behind it the queue, in the order they were
            \* posted: an order moves from the one to the other and keeps its place
  fill,     \* what each fill request has read
  landing,  \* the save of an event that is not awaited
  asked,    \* history: shares requests have asked of each order
  raced,    \* history: orders to which a write computed from an old read gave
            \* back shares that were gone
  cached,   \* watches of watchesCache
  reader,   \* a client that reads the list page by page
  stirred,  \* history: the list was sorted or loaded since its first page
  part      \* bound: the one of Parts that moves in a behaviour

fills == <<fill, landing, raced>>
listings == <<orders, fills, asked, cached, reader, stirred, part>>
allVars == <<stats, listings>>

-----------------------------------------------------------------------------
(* Orders. *)

Sides == {"sell", "buy"}

\* remainingShares, remainingSharesEvent, and whether remainingSharesUpdatedAt
\* is at most ten minutes ago.
NewOrder(side, maker, price, shares) ==
  [side |-> side, maker |-> maker, price |-> price,
   remaining |-> shares, event |-> shares, fresh |-> FALSE]

Atleast0(n) == IF n < 0 THEN 0 ELSE n
Lesser(a, b) == IF a < b THEN a ELSE b

\* What moves besides the orders: nothing in a step of theirs.
Apart == <<now, chart, watch, saving, priced, dealt, cached, reader, stirred, part>>

PostOrder(side, maker, price, shares) ==
  /\ CountWrite
  /\ Len(orders) < MaxOrders
  /\ orders' = Append(orders, NewOrder(side, maker, price, shares))
  /\ asked' = Append(asked, 0)
  /\ UNCHANGED <<Apart, fills>>

NoFill == [order |-> 0, read |-> 0]
NoSave == [order |-> 0, read |-> 0, left |-> 0]

\* remainingShares of o becomes n, computed when it was read.
RacedBy(o, read, n) ==
  IF read # orders[o].remaining /\ n > orders[o].remaining THEN raced \cup {o} ELSE raced

\* getOderByHash: the order is read, checked, and the deal is stored.
FillRead(r, o) ==
  /\ fill[r] = NoFill
  /\ CountWrite
  /\ fill' = [fill EXCEPT ![r] = [order |-> o, read |-> orders[o].remaining]]
  /\ UNCHANGED <<Apart, orders, landing, asked, raced>>

\* Mutant of LeftFor: the order is closed to others.
LeftForNobody(read, shares) == 0

\* fillOrder
LeftFor(read, shares) == Atleast0(read - shares)

\* updateOrderRemaining
AskShares(r, shares) ==
  LET o == fill[r].order
      n == LeftFor(fill[r].read, shares)
  IN /\ fill[r] # NoFill
     /\ orders' = [orders EXCEPT ![o].remaining = n, ![o].fresh = TRUE]
     /\ asked' = [asked EXCEPT ![o] = @ + shares]
     /\ raced' = RacedBy(o, fill[r].read, n)
     /\ fill' = [fill EXCEPT ![r] = NoFill]
     /\ UNCHANGED <<stats, landing, cached, reader, stirred, part>>

\* handleOrderFilledEvent reads the order and begins a save that is not awaited;
\* the next event is handled only after the book was loaded.
OrderFilled(o, left) ==
  /\ landing = NoSave
  /\ CountWrite
  /\ left < orders[o].event
  /\ landing' = [order |-> o, read |-> orders[o].remaining, left |-> left]
  /\ UNCHANGED <<Apart, orders, fill, asked, raced>>

\* Mutant of AfterFill: the greater of the two remains.
AfterFillGreater(order, read, left) ==
  [order EXCEPT !.event = left, !.remaining = IF left < read THEN @ ELSE left]

\* The save writes remainingShares only if it was lowered (Math.min).
AfterFill(order, read, left) ==
  [order EXCEPT !.event = left, !.remaining = IF left < read THEN left ELSE @]

FilledSaved ==
  LET o == landing.order IN
  /\ landing # NoSave
  /\ orders' = [orders EXCEPT ![o] = AfterFill(@, landing.read, landing.left)]
  /\ raced' = IF landing.left < landing.read
              THEN RacedBy(o, landing.read, landing.left) ELSE raced
  /\ landing' = NoSave
  /\ UNCHANGED <<stats, fill, asked, cached, reader, stirred, part>>

TenMinutes(o) ==
  /\ orders[o].fresh
  /\ orders' = [orders EXCEPT ![o].fresh = FALSE]
  /\ UNCHANGED <<stats, fills, asked, cached, reader, stirred, part>>

-----------------------------------------------------------------------------
(* Reads of the order book. *)

First(s, n) == SubSeq(s, 1, Lesser(n, Len(s)))

\* An order is FILLED, and no longer ACTIVE, with the event that leaves nothing.
Open(order) == order.event > 0 /\ order.remaining > 0

\* _loadOrdersFromDbByWathId: dearest first, on both sides.
Book(side) ==
  LET open == Only(orders, LAMBDA x : x.side = side /\ Open(x))
  IN Sorted(open, [i \in DOMAIN open |-> - open[i].price])

\* getRemainingShares
Remaining(order) == IF order.fresh THEN order.remaining ELSE order.event

\* Mutant of Listed: counted from the other end.
ListedLast(side, min) ==
  LET enough == Only(Book(side), LAMBDA x : Remaining(x) >= min)
  IN SubSeq(enough, Len(enough) - Lesser(OrdersCount - 1, Len(enough)) + 1, Len(enough))

\* convertToOrderBook, with at least one share asked for.
Listed(side, min) ==
  First(Only(Book(side), LAMBDA x : Remaining(x) >= min), OrdersCount - 1)

BestBuyPrice(min) ==
  LET sells == Listed("sell", min) IN IF sells = <<>> THEN One ELSE Last(sells).price

BestSellPrice(min) ==
  LET buys == Listed("buy", min) IN IF buys = <<>> THEN One ELSE buys[1].price

\* A request of user for shares at price finds orders of the other side.
Fits(order, user, shares, price) ==
  /\ order.maker # user
  /\ IF order.side = "sell" THEN order.price <= price ELSE order.price >= price
  /\ order.remaining >= shares

FindOrderToFill(side, user, shares, price) ==
  LET fit == Only(Book(side), LAMBDA x : Fits(x, user, shares, price))
      rank(x) == IF side = "sell" THEN x.price ELSE - x.price
  IN First(Sorted(fit, [i \in DOMAIN fit |-> rank(fit[i])]), OrdersCount - 1)

-----------------------------------------------------------------------------
(* The list of watches. *)

Keys == {"none", "cheapest", "dearest", "oldest", "newest"}

\* currentPrice: of the traded watch it follows the price of its shares.
Worth(w) == IF w = Traded THEN Costs[w] * watch.price ELSE Costs[w]

\* Loaded with the last created first.
Loaded ==
  [i \in DOMAIN Costs |-> LET w == Len(Costs) + 1 - i IN [id |-> w, worth |-> Worth(w)]]

SortWatches(s, key) ==
  LET rank(x) == CASE key = "cheapest" -> x.worth
                   [] key = "dearest"  -> - x.worth
                   [] key = "oldest"   -> x.id
                   [] key = "newest"   -> - x.id
                   [] OTHER            -> 0
  IN Sorted(s, [i \in DOMAIN s |-> rank(s[i])])

\* Mutant of Page: the last watch of a page is also the first of the next.
PageOverlapping(s, k) == SubSeq(s, k * Limit + 1, Lesser((k + 1) * Limit + 1, Len(s)))

Page(s, k) == SubSeq(s, k * Limit + 1, Lesser((k + 1) * Limit, Len(s)))

\* The cached list is loaded anew: ten seconds are over, or an event was handled.
LoadWatches ==
  /\ cached # Loaded
  /\ cached' = Loaded
  /\ stirred' = (stirred \/ reader.pages # <<>>)
  /\ UNCHANGED <<stats, orders, fills, asked, reader, part>>

\* getFilteredWatches sorts the cached list itself.
ListWatches(key) ==
  /\ SortWatches(cached, key) # cached
  /\ cached' = SortWatches(cached, key)
  /\ stirred' = (stirred \/ reader.pages # <<>>)
  /\ UNCHANGED <<stats, orders, fills, asked, reader, part>>

NoReader == [key |-> "none", ids |-> {}, pages |-> <<>>, seen |-> <<>>]

\* The reader's requests have the same key and the same watches (bookmarks, say).
ReadPage(key, ids) ==
  LET list == SortWatches(cached, key)
      page == Page(Only(list, LAMBDA x : x.id \in ids), Len(reader.pages))
  IN /\ Len(reader.pages) < 2
     /\ reader.pages # <<>> => key = reader.key /\ ids = reader.ids
     /\ cached' = list
     /\ reader' = [key |-> key, ids |-> ids, pages |-> Append(reader.pages, page),
                   seen |-> Append(reader.seen, {cached[i] : i \in DOMAIN cached})]
     /\ UNCHANGED <<stats, orders, fills, asked, stirred, part>>

-----------------------------------------------------------------------------
Init ==
  /\ StatsInit
  /\ orders = <<>>
  /\ fill = [r \in Fills |-> NoFill]
  /\ landing = NoSave
  /\ asked = <<>>
  /\ raced = {}
  /\ cached = Loaded
  /\ reader = NoReader
  /\ stirred = FALSE
  /\ part \in Parts

Trade ==
  \/ \E side \in Sides, m \in Makers, p \in Prices, n \in Sizes :
       PostOrder(side, m, p, n)
  \/ \E o \in DOMAIN orders :
       \/ \E r \in Fills : FillRead(r, o)
       \/ \E n \in 0 .. MaxShares : OrderFilled(o, n)
       \/ TenMinutes(o)
  \/ \E r \in Fills, n \in 1 .. MaxShares : AskShares(r, n)
  \/ FilledSaved

Browse ==
  \/ LoadWatches
  \/ \E key \in Keys : ListWatches(key)
  \/ \E key \in Keys, ids \in SUBSET DOMAIN Costs : ReadPage(key, ids)

\* The parts share the price of the traded watch and nothing else, so that one
\* moves at a time; the list of watches moves with that price.
Next ==
  \/ part = "statistics" /\ StatsNext /\ UNCHANGED listings
  \/ part = "orders" /\ Trade
  \/ part = "watches" /\ Browse
  \/ /\ part = "watches"
     /\ (\E p \in Prices : AddChartTick(p)) \/ AddPrice24
     /\ UNCHANGED listings

Spec == Init /\ [][Next]_allVars

-----------------------------------------------------------------------------
(* Properties. *)

OrderSet == {orders[o] : o \in DOMAIN orders}

\* The order book says the highest price there is to sell at, and the lowest to
\* buy at unless more orders to sell are open than it lists: it counts from the
\* dearest on both sides.
BestPrices ==
  \A min \in 1 .. MaxShares :
    LET enough(side) == {x \in OrderSet : x.side = side /\ Open(x) /\ Remaining(x) >= min}
        few == Len(Only(Book("sell"), LAMBDA x : Remaining(x) >= min)) < OrdersCount
    IN /\ enough("buy") # {} =>
            /\ \E x \in enough("buy") : x.price = BestSellPrice(min)
            /\ \A x \in enough("buy") : x.price <= BestSellPrice(min)
       /\ few /\ enough("sell") # {} =>
            /\ \E x \in enough("sell") : x.price = BestBuyPrice(min)
            /\ \A x \in enough("sell") : x.price >= BestBuyPrice(min)

\* The orders found to fill a request are not the user's own and have as many
\* shares left, by requests and by the last event saved, although the search
\* looks only at what requests have left, fills and saves of events are computed
\* from older documents, and the save that lowers the one may leave the other;
\* except for orders whose shares were given back by a write computed from an old
\* read: these are found for more than they have.  An order of as many shares
\* that no request has asked for is left out only for better ones: more shares
\* are never hidden than were asked for, whatever was read when, although the
\* trades may not be mined, and those that are count twice when their events come.
FoundCanFill ==
  \A side \in Sides, user \in Makers, n \in 1 .. MaxShares, p \in Prices :
    LET found == FindOrderToFill(side, user, n, p)
        chosen == {found[i] : i \in DOMAIN found}
        better(x, y) == IF side = "sell" THEN x.price < y.price ELSE x.price > y.price
    IN /\ \A x \in chosen : x.maker # user
       /\ \A o \in DOMAIN orders :
            orders[o] \in chosen /\ o \notin raced =>
              orders[o].event >= n /\ Remaining(orders[o]) >= n
       /\ \A o \in DOMAIN orders :
            /\ orders[o].side = side /\ orders[o] \notin chosen
            /\ Fits([orders[o] EXCEPT !.remaining = orders[o].event - asked[o]], user, n, p)
            => /\ Len(found) = OrdersCount - 1
               /\ \A y \in chosen : ~ better(orders[o], y)

Distinct(list) == \A a, b \in list : a.worth = b.worth => a = b

\* A client that reads the list page by page sees every watch once, although
\* all requests sort the same cached list in place: when sorted by date always,
\* by price if prices differ and stay, and unsorted if nobody else sorts it.
PagesCover ==
  Len(reader.pages) = 2 /\ Cardinality(reader.ids) <= 2 * Limit =>
    LET both == reader.pages[1] \o reader.pages[2]
        steady == \/ reader.key \in {"oldest", "newest"}
                  \/ /\ reader.key \in {"cheapest", "dearest"}
                     /\ reader.seen[1] = reader.seen[2] /\ Distinct(reader.seen[1])
                  \/ ~ stirred
    IN steady => /\ {both[i].id : i \in DOMAIN both} = reader.ids
                 /\ Len(both) = Cardinality(reader.ids)
=============================================================================
