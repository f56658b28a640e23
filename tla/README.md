# Verification of dex-api

dex-api is the backend of an exchange for fractional shares of watches. A
contract (the exchange, "WCN") holds the truth about shares, orders, watches and
auctions. This program follows the contract by polling its logs, keeps a Mongo
database that mirrors it, lets makers post signed orders and takers ask for
approval to fill them, and serves order books, prices, deals and charts over
HTTP.

It is one Node process (NestJS). Nothing runs in parallel, but everything is
asynchronous: a cron job that fires every five seconds *without waiting for its
previous run*, HTTP requests, saves that nobody awaits, and queue consumers all
interleave at every `await`, over documents read before an `await` and written
after it. That interleaving, together with crashes, failing nodes and the
contract moving on its own, is what this project models.

Paths below are relative to `src/src/`.

## 1. Inventory

| Component | State | Operations | Talks to |
|---|---|---|---|
| `BcLoopService` (`blockchain/bc-loop.service.ts`) | flag that boot is over | boot, `startBcLoop` every 5 s, optional rescan of average prices | `BcEventService`, `OrdersCheckerService`, `ShareService` |
| `BcEventService` (`blockchain/event`) | cursor `eventOptions` in memory, collection `bcevents` | `init`, `getEvents`, `updateEventOptions`, `processEvent` | the node through `BCProvider`; every event handler |
| `BCProvider` (`blockchain/provider`) | none | `getLastBlock`, `getWcnEvents`, `checkOrder`, `checkOrders` | the node |
| `OrdersCheckerService` (`blockchain/order-checker`) | queue `create-order` (Redis) | `addCreateOrder`, `checkActiveOrders`, `checkCreatedOrders`, `getCreatedOrdersByWatchId` | `orders` collection, `BCProvider` |
| `OrderService` and controllers (`order`) | none | create, find, fill, cancel | checker, cache, shares, deals |
| `OrdersCacheService` (`order/orders-cache.service.ts`) | `ordersCache` in memory, `orders` collection | load of a book, average price, handlers of `OrderFilled` and `OrderCanceled`, `checkOrder`, `cancelOrder`, `updateOrderRemaining` | watches, chart, checker |
| `ShareService` (`share`) | `shares` collection | `handleBuySharesEvent`, `handleOrderFilledEvent`, `updateHandleShares`, average prices | called by events and by fill requests |
| `DealService` (`deal`) | `deals` collection | `canUserCreateDeal`, `createDealWithTxHash`, `updateDeal` | orders, watches |
| `WatchesCacheService`, `WatchService` (`watch`) | `watches` collection and its cache | status, funding, prices of 24 h | contract events, `OrdersCacheService`, CMS |
| `AuctionService` (`auction`) | `proposals` collection | proposal created, cancelled, accepted | contract events, watches |
| `UserService`, `NotificationService`, `EmailService`, `TelegramService`, `queue` | `users`, `confirmationEmailCache` in memory, queues for mail and Telegram | profile, settings, names, bookmarks, confirmation, start of the bot, notifications | event emitter |
| `ChartService` (`chart`) | `charts` collection | `addChartTick`, `getChartData` | `OrdersCacheService` |
| authentication, guards, Sentry, DTOs, bootstrap | none | framework wiring | |

What makes each of them correct:

* **Ingestion.** No event is skipped, none is handled twice, none is handled
  that a reorganisation takes back, events are handled in chain order. Hard
  because the cursor is shared by overlapping ticks, the insert comes before the
  handler, handlers throw, the node fails, and a restart resumes from the
  collection.
* **Orders.** An accepted order does not vanish; an order dead on the contract
  leaves the book and never returns, and stale writes do not list shares that are
  gone for long; remaining shares follow the contract. Hard because the cron job,
  event handlers and requests each read an order, call the node, and write a stale
  document.
* **Shares.** Booked amounts equal the contract's balances although requests
  write the same documents from older reads and documents are created on demand.
* **Order book.** The cached book lists each open order once and catches up with
  the collection although loads overlap; prices follow the book.
* **Deals.** The limit per user is kept as far as requests do not overlap; a
  deal is confirmed by its event and counted once in the volume of its watch,
  although ticks and other writers save the same watch.
* **Watches and auctions.** Status, shares, auction and proposals follow the
  events although many writers save the same document, and a loss puts wrong
  what it touched and nothing else. The cached list catches up.
* **Users.** An address counts as confirmed, and is written to, only when its
  owner has shown the code mailed to it; unlinking Telegram lasts; a request
  leaves alone the fields it is not about. Hard because a request saves an
  account it read before, codes live in memory and outlive the address they were
  mailed to, and the bot links a chat in two reads.
* **Notifications and queues.** What a user wants to be told is not left out and
  goes out once. Hard because the handler decides from an account read before it
  waits for the queue, adds two jobs one after the other, and jobs outlive the
  process.
* **Charts, statistics of a day, order book, list of watches.** Algorithms over
  what was stored earlier and is read now: a chart shows no price that was not
  in force, change and volume of a day are those of the day, the best price is
  the best, an order that is found can be filled, and pages cover the list. Hard
  at the edges: nothing stored yet, lists pruned at another time, limits, and a
  cached list that every request sorts in place.
* **Fees, average prices of shares.** Not modelled.

`PROJECT.json` lists under `hazards` every place where one of these is at risk,
with the line where it bites and the property that watches it.

## 2. Modules

| Module | Models | State that matters |
|---|---|---|
| `EventLedger` | abstract promise of the ingestion for one event | stage (unseen, recorded, begun, applied) and handler calls of each event |
| `BcEventService` | cron loop, cursor, pages, recording and dispatch of events, boot, crash, reorganisations | `fromBlock`, `toBlock` = `eventOptions`; `db` = `bcevents`; `pc`, `range`, `pending`, `cur` = one run of `getEvents` |
| `BcEventServiceProofs` | theorems about the ingestion and its ledger | |
| `OrderLifecycle` | `createOrder` and the queue, `checkActiveOrders`, `checkCreatedOrders`, handlers of `OrderFilled` and `OrderCanceled`, fill and cancel requests | `doc` = `orders`; `jobs` = the queue; `left`, `closed`, `error` = the contract; `seen`, `fill`, `cancel` = documents held across awaits |
| `OrderLifecycleProofs` | theorems about `OrderLifecycle` | |
| `ShareService` | event side and handle side of shares | `share` = `shares`; `balance` = the contract; `task` = a worker between two awaits |
| `ShareServiceProofs` | theorems about `ShareService` | |
| `OrderBook` | loads of the cached book and its average price, `addPrice24` | `cache` = `ordersCache[watchId]`; `load` = one run of `_loadOrdersFromDbByWathId`; `watch` = share prices of the watch |
| `OrderBookProofs` | theorems about `OrderBook` | |
| `DealService` | `canUserCreateDeal` and `createDealWithTxHash` of a fill request, `updateDeal` of `OrderFilled` | `deal` = `deals`; `watch` = `volumeTotal` and `deals24`; `request`, `tick` = workers between two awaits |
| `DealServiceProofs` | theorems about `DealService` | |
| `WatchEvents` | handlers of `AddWatch` to `RevertFunding` and of the three proposal events, `addPrice24`, the cached list of watches | `watch`, `proposal` = the collections; `cache` = `watchesCache`; `phase`, `left`, `bids` = the contract; `worker` = the tick or a request between two awaits |
| `WatchEventsProofs` | theorems about `WatchEvents` | |
| `UserService` | every request on an account, the code of an e-mail address and its hour, the start of the bot | `user` = `users`; `confirmation` = `confirmationEmailCache`; `request` = what a request is going to save |
| `NotificationService` | handlers of the emitter's events, the queues `tg` and `mail` and their consumers, restart, over `UserService` | `notice` = a handler and what it has read; `queue`, `working` = the queues; `sent`, `failed` = what the bot and the mail service took |
| `NotificationServiceProofs` | theorems about `UserService`, and about `NotificationService` over it | |
| `MarketStats` | `addChartTick`, `addPrice24` and `updateDeal` on one watch; `getChartData`, change and volume of a day | `chart` = `charts`; `watch` = `prices24`, `deals24`, `quarterChart` |
| `Listings` | `convertToOrderBook`, `findOrderToFill` over the orders a load finds; sorting and pages of the list of watches; over `MarketStats` | `orders`; `cached` = watches of `watchesCache`; `reader` = a client that reads page by page |
| `ListingsProofs` | theorems about `MarketStats` and `Listings` | |
| `MC...` | instances for TLC | |

**Steps.** A step is what runs between two awaits. The `pc` of a worker names
the call it waits for; the answer, the code up to the next await and that call
are one action. So for `BcEventService`: `StartTick` (the job fires and asks for
the head), `LastBlock` or `LastBlockFails` (the answer, the early return, the
new `toBlock`, `getPastLogs`), `Fetch`, then for each log `FindEvent`,
`SaveEvent` or `DuplicateKey` (the unique index), `BeginHandler`,
`HandlerReturns`; `TickFails` is the `catch` reached from any of them; `Finish`
is `updateEventOptions` after the loop. `SaveEvent` and `BeginHandler` are two
steps because a crash, or an answer that is lost, can fall between the insert
and the call of the handler.

**Documents.** A mongoose document that was read and is saved later writes only
the fields the code changed, onto what is stored by then
(`OrderLifecycle!SaveDelta`, `WatchEvents!Merge`). `updateOne` writes the fields it names
(`ShareService!Updated`). A save that assigns an array is refused when the
version of the document moved since it was read (`OrderBook!StaleWatch`,
`DealService!StaleWatch`).

**The contract** is outside `src/`: mined blocks and reorganisations, fills,
cancellations, purchases, transfers, and errors such as a missing allowance are
actions free to happen at any time, marked external in the map.

**Accounts.** A request of `UserService` is two steps or three: what it reads,
and the fields it is going to write, kept as a record (`Changes`); then the
save. `updateOne` writes whole maps, so its record names the map. `addEmail`
saves before it stores the code, and the answer to that save may be lost.

**The order book's query** takes orders that are ACTIVE without an error
(`Standing`) and have remaining shares (`Open`). `fillOrder` writes remaining
shares computed from what it read before the check and the deal, and the save of
a filled event writes the lesser of what it read and what the event says.
`raced` has the orders to which such a write was put over a value other than the
one it was computed from.

**History variables** (`begun`, `applied`, `orphans`; `lost`, `accepted`,
`refused`, `dropped`, `raced`; `strayed`; `missed`, `late`; the `lost` of `WatchEvents`;
`proven`, `mixed`, `halfway`, `straddled`, `cut`, `redone`; `priced`, `asked`, the
`raced` of `Listings`, `stirred`)
are read by properties only. They name, per
event, order or user, the losses that the code accepts, so that a property can
exclude exactly these and no more.

**Reads.** `MarketStats` and `Listings` state what an algorithm answers in every
state its writers can leave. Prices, charts and deals have one writer at a time;
those that overlap are in `OrderBook`, `DealService` and `WatchEvents`. Orders
have overlapping writers here too, because what a search finds depends on them:
`fill` is what each request has read, and `landing` the save of an event that is
not awaited; a write uses what was read, not what is stored by then, and `raced`
has the orders to which it gave shares back. `orders` are those of the collection
and behind them those of the queue, which a load merges in: an order keeps its
place when it moves from the one to the other.

**Between the modules.** `BcEventService` proves that each event is taken at
most once; `OrderLifecycle`, `ShareService`, `DealService` and `WatchEvents` take events off their `log` in
order and each once, which is that promise, and may lose one at any point, as
the ingestion may. `OrderBook` takes from `OrderLifecycle` that an order only
moves on: posted, queued, between queue and collection, open, gone; it assumes
that an order is posted once (posted twice it is listed in both, which the
unique index on the order's hash settles when the second job is taken).

## 3. Runs

Each run in `PROJECT.json` has one `.cfg`; every bound is a CONSTANT.

| Run | What it shows | Bounds |
|---|---|---|
| `ingest_one_tick` | `CursorSafe` no event below the cursor is missing; `RecordedIsHandled`; `RecordedIsFinal`; `InChainOrder` from `START_BLOCK` on; under fairness `EventuallyRecorded` | 3 events, one of them older than `START_BLOCK` (3), pages of 2, head up to 6, 1 confirmation, 1 crash |
| `ingest_overlapping_ticks` | `AtMostOnce`, and the service implements `EventLedger` | 2 ticks, 3 events, 1 crash |
| `ingest_before_start` | violation: events before `START_BLOCK` are handled | 2 events |
| `orders_requests` | `DeadOrdersRetired`, `ListedWithinEvents`, `NeverReopened` | 1 order of 2 shares, 2 fill requests and a cancel request of which 2 overlap, 1 tick, 1 event, all contract moves |
| `orders_progress` | `AcceptedAccountedFor`, `RemainingAgrees`; `DeadOrdersLeaveBook`, `OverstatedOrdersLeaveBook`, `GhostsCorrected` under fairness | 1 order of 2 shares, a fill request, 2 posts, 2 events, 1 crash |
| `shares` | `MirrorsChain`, non-negative amounts | 2 users, 2 shares, 3 events, a fill request, a transfer, one crash, failure or skipped event |
| `book_overlap` | `ListedOnce`; under fairness `BookCatchesUp` | 2 orders, 2 overlapping loads, a failure |
| `book_price` | `PriceCatchesUp` under fairness | 3 orders, 1 load, a crash |
| `deals` | `LimitNearlyKept`, `VolumeCounts`, `OpenOnlyIfLate` | 3 transactions of one taker, 2 overlapping ticks, 2 requests, a limit of 1, a day of 1 tick of a clock that reaches 2, 2 losses |
| `watch_events` | `WatchAgrees`, `ProposalsAgree`, `NeverBack`; under fairness `ListCatchesUp` | 2 shares, 1 edit, 2 proposals with bids up to 2, 1 request, a clock of two instants, 1 event that waits besides the one handled, 1 loss |
| `accounts` | `OnlyProvenAddresses`, `LinkedHasCode`, `DeliveredOnce`, `OwnFieldsOnly` | 2 users, of whom 1 does all and the other chooses a name, 2 addresses, 2 overlapping requests, 1 event, 1 crash or failed call |
| `market_reads` | `ChartTrue`, `DayAgrees`; `BestPrices`, `FoundCanFill`; `PagesCover` | a clock of 5 instants, days of 2, 4 writes, 2 prices; 2 makers, 3 orders of 1 or 3 shares, 2 orders in an answer, 2 fill requests, 1 event save under way; 3 watches, pages of 2 |

**Why the bounds are enough.** Two confirmations or pages more change numbers
and no branch: with pages of 2 and a head of 6 the ingestion reads pages that
are full, cut by the head and skipped (`TooClose`), two events share a block and
are split over a crash. Two ticks are the least that overlap; a third adds no
new pair of steps on the shared cursor or the unique index. An order of two
shares is partly filled, filled, and over-asked. Two fill requests that read it
together can leave one share or none, in either order, and an event can be
handled between read and write or have its save land after: the order comes back
and has more than its event left (`NeverReopened`, `ListedWithinEvents` and
`FoundCanFill` are violated when their exceptions are dropped). At most two
requests of users are in progress at once (`MaxRequests`), two fills or a fill and
a cancel. In `orders_progress` an order is listed for more than the contract has
left because events are late or lost; a stale write does that from three shares
on, and what the cron job reads is the same then. Two users are a maker and a
taker, and symmetric. In the order-book runs the average uses one order a side where
the code uses five (`Count`): with two sells, retiring the nearer one changes
the average and retiring the only buy removes it. In `deals` the limit is 1 where the code
has 10: two requests pass it together and a third finds it exceeded; a clock of
three instants has deals of one day, of two, and just a day apart. Limits of
different takers do not meet, so one taker is enough. In `watch_events` a second
proposal follows a canceled one, a second bid outbids the first, and an edit
changes price and start; one request is enough to hold a watch read before any
write of the tick. In `accounts` the account begins as earlier requests have
left it (none, set up, with an address that waits for its code, or one deleted
while it did), so that two more requests overlap in each of these states
(`MaxRequests`); with one request after the other in `Init`, a third would only
be a further start. In `market_reads` days, weeks and months are 2, 3 and 4
instants long, so that a tick, a price or a deal is within each, at its edge and
past it, and four writes (`MaxWrites`) fill and expire a list. `OrdersCount` 3
stands for 20: answers are full with two orders and a third is dropped. A fill
request's read counts as a write (`MaxWrites`), so that an order, two reads of it
and an event are within the bound, in every order; of three shares one can be left
by an event while a request writes two. One save of an event is under
way at a time. The three parts of that run share the price of the traded watch and
nothing else, so each behaviour moves one of them (`part`) and the states add up
instead of multiplying.

**Deadlock** is switched off only where the outside world is bounded (orders,
events and requests run out) and the system then rightly has nothing to do.

**Fairness** is stated in the modules. The cron job keeps firing, the process is
restarted, the event loop resumes every await: weak fairness. Calls to the node
and the database may fail any finite number of times in a row, so an answer that
can come again and again is assumed to come in the end: strong fairness, per
call. Nothing is assumed of users or of the contract, except that somebody keeps
asking for the book in `OrderBook` and for the list in `WatchEvents`, without
which nobody would see them either (strong fairness in `WatchEvents`, whose
requests also do other work).

### Overlapping ticks

`startBcLoop` does not wait for its previous run, and some properties hold only
when runs do not overlap. They are checked for one tick at a time, that is, for
runs that take less than five seconds:

* `CursorSafe`. `updateFromBlock` uses the `toBlock` of the moment, not of the
  range that was read. Tick A fetches a range; tick B reads a newer head and
  moves `toBlock`; A ends and sets `fromBlock` past B's `toBlock`; B fails. The
  blocks of B's range are not read again until a restart.
* `InChainOrder`. Both ticks work on the same page, and one enters a handler
  while the other goes on to the next log. With one tick it still speaks only of
  events from `START_BLOCK` on (see Findings).
* `DeadOrdersRetired` and `RemainingAgrees`. One tick handles the last event of
  an order while the other is creating it, and the order stays as it was posted.
* All of `WatchEvents`, which has one tick: two ticks lose a sum of shares, or
  handle an auction's events out of order.
* `MirrorsChain`. Both ticks book a trade of one user from the same old amount,
  and one booking is lost for good.

What holds however many ticks overlap, and is proved so: `AtMostOnce` and the
ledger, `RecordedIsHandled`, `RecordedIsFinal`, `AcceptedAccountedFor`,
`NeverReopened`, `ListedWithinEvents`, everything about deals, and that booked amounts are not
negative. For deals: assigning `deals24` makes mongoose compare the version of
the watch, and the tick that read it before another save is refused. Its deal
then stays confirmed and out of the volume (`missed`). `deals24` itself may have
a deal twice: while it is empty one tick lists it from the collection, where the
deal of another is confirmed already, and that one adds its deal to the list.

### Other assumptions of the runs

* `PromptSaves`: `handleOrderFilledEvent` does not await its save. The run
  assumes that this save lands before the tick reads its next event; without it
  the next event of the order reads the older remaining shares. Of the
  theorems only `RemainingSharesAgree` assumes it.
* Fills that overlap write remaining shares from reads that no longer hold. Two
  requests read that two shares are left; one takes both and the order leaves the
  book; the other takes one, writes one, and the order is back. Or one reads
  three, an event leaves one, and it writes two: the order is found for two and
  has one. `NeverReopened` (its part about the order book), `ListedWithinEvents`
  and `FoundCanFill` exclude the orders this happened to (`raced`) and no others;
  that an ended order stays out, and that no more is hidden than was asked for,
  hold for these too, and `OverstatedOrdersLeaveBook` says that the cron job takes
  an order out that is listed with more than the contract has left.
* The code for one address can confirm another in two cases, which
  `OnlyProvenAddresses` excludes (`Doubtful`): two e-mail requests of the user
  overlapped (`mixed`), or `addEmail` failed after it had saved the address and
  before it stored the code, while the code for another address was kept
  (`halfway`). A chat that is being linked while Telegram is unlinked stays linked
  (`straddled`), which `LinkedHasCode` excludes.
* `DayAgrees` excludes the volumes that are not a number: the reduce returns
  nothing for an expired deal, so an expired deal before a newer one spoils the
  sum until the next deal prunes the list. `BestPrices` excludes the price to buy
  at while more orders to sell are open than an answer lists: both sides are cut
  from the dearest down. `PagesCover` excludes lists sorted by nothing, or by
  equal prices, after another client sorted the cached list in place.
* Reorganisations reach no deeper than the confirmations
  (`FinalityAssumption`), and the node answers consistently: the head and the
  logs come from one view of the chain.
* `PriceCatchesUp` is for loads that do not overlap and do not fail (a crash may
  fall anywhere). Two overlapping loads can leave the older of two prices in the
  watch. A load that fails after `addPrice24` and before it stores the book
  leaves a price in the watch that the book does not know of: when the average
  of the open orders then returns to the book's price, nothing is written and
  the watch keeps the other one.

### Findings

* `ingest_before_start`: when the first `getLastBlock` after a boot without
  recorded events fails, the tick goes on with `toBlock` 0 and sets `fromBlock`
  to 1. Events before `START_BLOCK` are then handled, which the repository's
  README says are not. The same failure after a later boot handles them after
  newer ones, so `InChainOrder` leaves them out.

## 4. Proofs

The runs show a property for a few nodes, orders or users; the theorems show it
for every value of the constants. Each proof module states an inductive
invariant, proves that the initial states have it and that every action keeps
it, action by action, and reads the property off it. Each property is checked by a
run as well, but for the types of `DealService` and `WatchEvents`, which are only
proved. Where a theorem needs that runs of the
cron job do not overlap (`OneTick`: any two ticks are the same) or that saves are
prompt (`PromptSaves`), its statement assumes it; every other theorem holds for
any number of ticks and requests, and all of them for any number of failures and
crashes. `Max...` constants bound the runs and appear in the proofs as arbitrary
numbers.

| Module | Theorem | States | Assumes besides the constants' assumptions |
|---|---|---|---|
| `BcEventServiceProofs` | `TypeCorrect`, `HandledAtMostOnce`, `RecordedStaysFinal`, `RecordedNotForgotten`, `RefinesLedger` | `TypeOK`, `AtMostOnce`, `RecordedIsFinal`, `RecordedIsHandled`, `LedgerSpec` | |
| | `CursorPassesNothing`, `HandledInOrder` | `CursorSafe`, `InChainOrder` | `OneTick` |
| `OrderLifecycleProofs` | `LifeTypes`, `NoOrderVanishes`, `OrdersStayOut` | `TypeOK`, `AcceptedAccountedFor`, `NeverReopened` | |
| | `FillsOnlyHide` | `ListedWithinEvents` | |
| | `DeadOrdersAreRetired` | `DeadOrdersRetired` | `OneTick` |
| | `RemainingSharesAgree` | `RemainingAgrees` | `OneTick`, `PromptSaves` |
| `ShareServiceProofs` | `ShareTypes` | `TypeOK` | |
| | `BookedIsHeld` | `MirrorsChain` | `OneTick` |
| `DealServiceProofs` | `DealTypes`, `VolumeIsRight`, `OnlyLateDealsStayOpen`, `LimitIsNearlyKept` | `TypeOK`, `VolumeCounts`, `OpenOnlyIfLate`, `LimitNearlyKept` | |
| `OrderBookProofs` | `OnePlace`, `NeverListedTwice` | `TypeOK`, `ListedOnce` | |
| `WatchEventsProofs` | `WatchTypes`, `WatchIsRight`, `ProposalsAreRight`, `WatchNeverGoesBack` | `TypeOK`, `WatchAgrees`, `ProposalsAgree`, `NeverBack` | one tick, as the module has |
| `NotificationServiceProofs` | `AccountTypes`, `ConfirmedAddressesAreProven`, `ChatsHaveCodes`, `FieldsAreOwned` | `TypeOK`, `ConfirmedIsProven`, `LinkedHasCode`, `OwnFieldsOnly` of `UserService` | |
| | `NotificationTypes`, `MailsGoToProvenAddresses`, `MessagesAreDeliveredOnce`, `NotifiedChatsHaveCodes`, `NotifiedFieldsAreOwned` | `NTypeOK`, `OnlyProvenAddresses`, `DeliveredOnce`, `LinkedHasCode`, `OwnFieldsOnly` | |
| `ListingsProofs` | `FoundOrdersCanFill`, `BestPricesAreBest`, `PagesCoverTheList`, `ChartsAreTrue`, `DaysAgree` | `FoundCanFill`, `BestPrices`, `PagesCover`, `ChartTrue`, `DayAgrees` | one writer of prices and deals, one event save under way, as the modules have |

The assumptions on constants are those of the modules (`NumbersAssumption`,
`ChainAssumption`, `OrderAssumption`, and so on): numbers are natural, bounds
are not negative, events are in blocks the chain has, names of ticks are no
names of requests, an address is no chat (`AddressAssumption`), requests are
finitely many where they are counted (`DealAssumption`), prices, amounts and
spans of time are natural numbers and a day is shorter than a week
(`StatsAssumption`), an answer has room for more than one order
(`ListingAssumption`: `ORDERS_COUNT` is 20). Only
`FinalityAssumption` (reorganisations no deeper than the confirmations) says
something of the outside world; `RecordedIsFinal`, `CursorSafe` and
`InChainOrder` rest on it.

**Ingestion.** `TypeOK` is inductive by itself. `AtMostOnce` is not: nothing in
it ties a tick about to call a handler to an event no handler has seen.
`LedgerInv` adds `Mined` (a tick holds only mined logs), `Owned` (a tick between
insert and handler is the only one there for its event, and the event is
recorded and not begun) and `Traced` (begun events are recorded, applied ones
begun). The unique index decides which of two ticks owns an event. Under
`LedgerInv` every step moves one event one stage up in `EventLedger` or leaves
every stage and the count of handler calls alone, so a second call of a handler
is no step of the ledger, whatever the stage. `FinalInv` adds that the cursor
and the ranges asked for stay `Confirmations` below the head
(`CursorConfirmed`) and that logs in a tick's hands or in the collection are
where the chain has them, below every reorganisation (`LogsSettled`).

`CursorSafe` and `InChainOrder` need `PageInv`: a page in work is complete, that
is, what it does not have recorded is at hand or pending (`Complete`); it is
worked off in order (`Sorted`); and so what is recorded has no gap in front of it
(`NoGap`). That last part is what makes it safe to resume from the newest
recorded block after a crash, and it is what a second tick breaks.

**Orders.** `LifeInv` holds for whatever stale document is saved over which
(`SaveDelta` of two orders onto a third is an order). A tick that removes the
jobs it took up must know what it does with each: `TickOK` says that what it has
still to create is among the jobs it read, and that while it is about to remove
them every job it will not create was refused by the contract. `NeverReopened`
needs `RetiredInv`: an order with no share left for the contract is not standing, a
save under way that was read from an order not standing finds it so, and an event
in hand is in one pair of hands (`EventInv`). `ListedWithinEvents` needs
`ListedInv`: the event's save may leave remaining shares alone because they were
low when it read the order, so they must not have grown since, and of an order
that is not `raced` they have not.
`DeadOrdersRetired` needs two facts more (`DeadInv`): the end of an open, dead
order is still in the log, in hand or landing (`EndUnderWay`); and the end of an
order that died while the cron job was about to create it is still in the log
(`EndToCome`), because the same run creates orders before it reads events. With
two ticks that is false, one takes the event while the other creates the order.
`RemainingInv` says the same of fills, and that what lands last is the last fill
(`FillsArrive`), which is where `PromptSaves` is used.

**Shares.** `MirrorInv` has for each user whom no loss touched a trail (`Trail`):
a sequence of amounts, one per event not taken, that begins with what is booked
(or will be, once the event in hand is written), ends with what the contract
says, follows the events between, and stays in the natural numbers. What a tick has
read of a user still holds when it writes (`ReadHolds`, `WritesDelta`), since
fill requests write the other field; so every booking takes the amount one step
along the trail.

**Deals.** `DealInv` says which tick has the event of a deal and in which state
the deal then is (`Placed`, `Confirmations`), that the sum has the confirmed
deals no tick is at, and that what a tick has read of the sum is still the sum
while no array of the watch was saved since (`Volume`): a stale sum always comes
with a stale version, which mongoose refuses. `LimitInv` counts open deals
together with the requests that have passed the check and not yet stored one.

**Order book.** An order is in one place at most, and every step that adds it
to a place takes it from the one before. `BookInv` adds that what a load found
open in the collection is past the queue from then on (`PastQueue`), since
orders never go back; so when the load reads the queue, none of the orders it
already holds is in it. Reading the queue first would make this false.

**Watches and auctions.** `WatchInv` has a trail of states of the contract, from
the one the collections have been brought to up to the one of now; each event
that waits leads from one to the next (`Follows`) and changes only what it has
to write (`Todo`). The tick at work is between two of them: what it has still to
write is that of the earlier, the rest that of the later (`Mixed`), and the
documents it holds are those stored and what the event makes of them
(`Prepared`). What is lost is left out of the comparison field by field
(`Agrees`), but never what keeps a watch from going back (`Reached`): a status
the watch has is one the contract has been in.

**Accounts and notifications.** A code stands for one address (`CodeInv`); for a
user who is not `Doubtful`, a confirmed address was proven, and
what waits for its code and what a request is about to write keep it so
(`Proven`, `MailJob`). `LinkInv` does the same for chats. `NInv` adds the queues
(`QueueInv`: a message is in one place, in work, sent as often as it was counted)
and the handlers (`NoticeInv`: only messages the account read asks for are
touched, and those it wants are handled before the handler is through). The step
lemmas of accounts are used unchanged, because handlers write to no
account.

**Reads.** `Array.filter` and `Array.sort` are stated without recursion: `Only`
and `Sorted` take the places of a sequence in the order of `InOrder`, which
counts, for each place, those that come before it. `InOrderArranges` proves that
this numbers the places without gap or repetition and by rank, places of one
rank as they come; `KeptReturns` and `SortedReturns` say what follows for a
filter and a sort. Induction is over a set of numbers (`Least`, `Inductive`).
Four invariants carry the theorems:

* *Orders* (`OrdersInv`): what requests have hidden of an order is at most what
  they asked for, and unless shares were given back no order has more left for
  requests than by its last event. Both are carried through what a request has
  read (`Reading`: it hides no more than was asked for by now) and through the
  save of an event under way (`Landing`: the order has no more left than when it
  was read). So an order that fits has the shares, and one that is left out was
  asked for or is worse than a full answer. `BestPrices` reads the ends of the sorted book.
* *Charts* (`ChartInv`): ticks are in the order of time and none is of the
  future. Every point a chart adds to them (the start, the second before the
  first tick, now) then shows the price in force.
* *Lists* (`ReaderInv`): every page comes from a list that has each watch once
  (`IsList`), in the order asked for. Two lists in the order of one key whose
  ranks differ are the same list (`SameSteps`: two rising sequences with the same
  members are equal), so the second page goes on where the first ended, whoever
  sorted the list between them.
* *The last day.* `DealsInv`: `deals24` is the end of all deals, and what it
  leaves out is over a day old. `KeptInv`: `prices24` is the end of all prices and
  in front of it, repeated, the price in force before them; what it leaves out is
  over a day old. Neither is inductive without the order of times, since the lists
  are pruned by time and not by place (`OldComeFirst`). The price from which the
  change starts is then the one in force a day ago. The sum of the reduce is
  taken turn by turn (`TurnsExist`, `VolumeReturns`): a sum, nothing, or, exactly
  when an expired deal comes before a recent one, not a number.

**Left to TLC.** All liveness (`EventuallyRecorded`, `DeadOrdersLeaveBook`,
`OverstatedOrdersLeaveBook`, `GhostsCorrected`, `BookCatchesUp`, `PriceCatchesUp`, `ListCatchesUp`): the
prover does not treat fairness and `ENABLED`. Every other property of the
passing runs is a theorem, except that one about ticks is a theorem for the
number of ticks its row names.

## 5. Not modelled

* Decoding of logs and call data, signatures, validation of DTOs, HTTP, JWT,
  throttling, Sentry, the CMS client: no state of the protocol.
* Average prices of shares and fees: arithmetic in decimals, on amounts that
  `ShareService` has without prices.
* The rescan at boot (`RESCAN_ALL_AVGSHAREPRICE`, off by default): it drops the
  collection of shares and inserts it again from the recorded events, while the
  cron job may book events already. It is about average prices for the most
  part.
* Reads that only select and page: `getOrders`, last deals, sums of
  `getWatchesByOrders`.
* The thinning of chart points by `SimplifyTo`, a library.
* In `OrderBook`: chart points, the cache of watches from which the share price
  is read before the first load, and the price that `TradeAllowed` adds to a
  watch.
* In `WatchEvents`: the initial price (it is written with `shares`), proposers,
  the shares recorded with a canceled proposal, values of prices, totals of the
  list, the content system. The contract is taken to edit a sale only before the
  first purchase, and to run one auction at a time.
* In `UserService`: signatures and tokens of a login, and the formats of names
  and addresses. That two users do not share a name is not a property: both can
  find it free before either saves it, and no index forbids it. Two requests
  that write the same map keep the later one's.
* In `NotificationService`: texts, and the throttling of the bot. A job in work
  when the process dies is handed out again by the queue, which is external.
* In `Listings`: the ten seconds a cached book may be behind, which `OrderBook`
  has; filters by bookmark are sets of watches.
* In `MarketStats`: ticks that overlap, and chart points in another order than
  they were saved.
* In `DealService`: reads of last deals and of the last price, user names and
  amounts of a deal.
* In `OrderLifecycle`: the limit of 200 orders a maker, notifications, and the
  deal and shares that a fill request writes (`DealService`, `ShareService`).

## 6. Plan

Done: ingestion with its ledger, orders, shares, order book, deals, watches and
auctions, accounts and notifications, charts, statistics and lists, each with
proofs of its safety properties.

Next modules, in this order:

1. `FillOrder`: the whole fill request over orders, deals and shares, composed.
2. The rescan of `BcLoopService` against `ShareService`.
3. Average share price and fees as a pure algorithm.

Abstract specifications worth stating: a share ledger that `ShareService`
implements for one tick; an order register (absent, open, closed) that
`OrderLifecycle` implements; a deal register.

Theorems worth proving next: that the registers above are implemented;
`WatchAgrees` for two ticks, less the fields in which two of them can meet.
