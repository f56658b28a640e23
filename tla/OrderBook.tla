------------------------------ MODULE OrderBook ------------------------------
(***************************************************************************)
(* The order book of a watch that OrdersCacheService keeps in memory: open *)
(* orders of the collection and orders waiting in the create-order queue,  *)
(* with the average price of the orders nearest the spread, which is also  *)
(* stored in the watch.                                                    *)
(*                                                                         *)
(* Any number of loads of the book may overlap: requests start one when    *)
(* the book is older than ten seconds, cancellations, fills and new orders *)
(* start one at once.  A step is what runs between two awaits.  An order   *)
(* only moves on: posted, queued, created, gone (OrderLifecycle).  Points  *)
(* of the price chart are not here.                                        *)
(***************************************************************************)
EXTENDS Integers, FiniteSets, FiniteSetsExt

CONSTANTS
  Orders,      \* orders a maker may post, each once
  Sells,       \* the sell orders among them
  Price,       \* price of each order
  Count,       \* COUNT_ORDERS_FOR_AVG_PRICE
  StartPrice,  \* the watch's share price before any order, times 2 * Count
  Loaders,     \* loads that may be in progress at once
  MaxFailures, \* bound: loads that fail
  MaxCrashes   \* bound: crashes of the process

ASSUME BookAssumption ==
  /\ Sells \subseteq Orders
  /\ Price \in [Orders -> Nat \ {0}]
  /\ \A o, p \in Orders : Price[o] = Price[p] => o = p
  /\ Count \in Nat \ {0} /\ StartPrice \in Nat \ {0}
  /\ MaxFailures \in Nat /\ MaxCrashes \in Nat

VARIABLES
  new,      \* orders nobody has posted yet
  jobs,     \* orders waiting in the create-order queue
  moving,   \* orders out of the queue and not yet in the collection
  open,     \* orders of the collection that the book lists
  saving,   \* orders whose save is under way and takes them out of open
  watch,    \* the watch: its share prices
  cache,    \* ordersCache[watchId]
  old,      \* updateTimestamp is ten seconds ago
  load,     \* what each load is at
  failures, \* loads that failed so far
  crashes   \* crashes so far

orders == <<new, jobs, moving, open, saving>>
bounds == <<failures, crashes>>
vars == <<orders, watch, cache, old, load, bounds>>

NoCache == [stored |-> {}, queued |-> {}, avgPrice |-> 0, previousAvgPrice |-> 0]

Idle == [pc |-> "idle", stored |-> {}, queued |-> {}, avgPrice |-> 0,
         previousAvgPrice |-> 0, clean |-> FALSE]

-----------------------------------------------------------------------------
(* The average price, times 2 * Count: of the Count cheapest sells and the  *)
(* Count dearest buys, 0 when there are not that many.                      *)

Nearest(S) ==
  LET sells == S \cap Sells
      buys  == S \ Sells
  IN {o \in sells : Cardinality({p \in sells : Price[p] < Price[o]}) < Count}
       \cup {o \in buys : Cardinality({p \in buys : Price[p] > Price[o]}) < Count}

AvgPrice(S) ==
  IF Cardinality(Nearest(S)) = 2 * Count
  THEN MapThenSumSet(LAMBDA o : Price[o], Nearest(S))
  ELSE 0

-----------------------------------------------------------------------------
Init ==
  /\ new = Orders
  /\ jobs = {} /\ moving = {} /\ open = {} /\ saving = {}
  /\ watch = [current |-> StartPrice, previous |-> StartPrice]
  /\ cache = NoCache
  /\ old = FALSE
  /\ load = [l \in Loaders |-> Idle]
  /\ failures = 0 /\ crashes = 0

-----------------------------------------------------------------------------
(* What happens to orders (OrderLifecycle), and the loads it starts. *)

BeginLoad(l) ==
  /\ load[l].pc = "idle"
  /\ load' = [load EXCEPT ![l].pc = "find"]

\* createOrder queues the order and loads the book.
PostOrder(l, o) ==
  /\ o \in new
  /\ new' = new \ {o}
  /\ jobs' = jobs \cup {o}
  /\ BeginLoad(l)
  /\ UNCHANGED <<moving, open, saving, watch, cache, old, bounds>>

\* Mutant of RemoveJob: orders are created before their jobs are removed.
RemoveJobLater(o) ==
  /\ o \in jobs
  /\ moving' = moving \cup {o}
  /\ UNCHANGED <<new, jobs, open, saving, watch, cache, old, load, bounds>>

\* checkCreatedOrders takes jobs out of the queue, and the orders the contract
\* accepts go on to the collection.
RemoveJob(o) ==
  /\ o \in jobs
  /\ jobs' = jobs \ {o}
  /\ moving' = moving \cup {o} \/ UNCHANGED moving
  /\ UNCHANGED <<new, open, saving, watch, cache, old, load, bounds>>

CreateOrder(o) ==
  /\ o \in moving
  /\ moving' = moving \ {o}
  /\ open' = open \cup {o}
  /\ UNCHANGED <<new, jobs, saving, watch, cache, old, load, bounds>>

\* A cancellation or a fill takes the order out of the book and loads it.
CloseOrder(l, o) ==
  /\ o \in open
  /\ open' = open \ {o}
  /\ BeginLoad(l)
  /\ UNCHANGED <<new, jobs, moving, saving, watch, cache, old, bounds>>

\* handleOrderFilledEvent does not wait for its save when it loads the book.
FilledEvent(l, o) ==
  /\ o \in open \ saving
  /\ saving' = saving \cup {o}
  /\ BeginLoad(l)
  /\ UNCHANGED <<new, jobs, moving, open, watch, cache, old, bounds>>

SaveLands(o) ==
  /\ o \in saving
  /\ saving' = saving \ {o}
  /\ open' = open \ {o}
  /\ UNCHANGED <<new, jobs, moving, watch, cache, old, load, bounds>>

\* checkActiveOrders retires an order and loads nothing.
RetireOrder(o) ==
  /\ o \in open
  /\ open' = open \ {o}
  /\ UNCHANGED <<new, jobs, moving, saving, watch, cache, old, load, bounds>>

-----------------------------------------------------------------------------
(* One run of _loadOrdersFromDbByWathId. *)

\* Mutant of ReadBook: a book that was loaded is never loaded again.
ReadBookOnce(l) ==
  /\ cache = NoCache
  /\ BeginLoad(l)
  /\ UNCHANGED <<orders, watch, cache, old, bounds>>

\* A request for the book; a book of less than ten seconds is served as it is.
ReadBook(l) ==
  /\ cache = NoCache \/ old
  /\ BeginLoad(l)
  /\ UNCHANGED <<orders, watch, cache, old, bounds>>

FindOrders(l) ==
  /\ load[l].pc = "find"
  /\ load' = [load EXCEPT ![l].pc = "prices", ![l].stored = open]
  /\ UNCHANGED <<orders, watch, cache, old, bounds>>

\* getStartupPrices, then calcAvgPrice up to its first await.
StartupPrices(l) ==
  /\ load[l].pc = "prices"
  /\ LET current  == IF cache # NoCache THEN cache.avgPrice ELSE watch.current
         previous == IF cache # NoCache THEN cache.previousAvgPrice
                     ELSE watch.previous
         updated  == AvgPrice(load[l].stored)
         changed  == updated # current /\ updated > 0
     IN load' = [load EXCEPT
                   ![l].pc = IF changed THEN "watch" ELSE "queue",
                   ![l].avgPrice = IF changed THEN updated ELSE current,
                   ![l].previousAvgPrice = IF changed THEN current ELSE previous]
  /\ UNCHANGED <<orders, watch, cache, old, bounds>>

\* addPrice24: findOne of the watch.  clean says that the version of the watch
\* is still the one that was read.
ReadWatch(l) ==
  /\ load[l].pc = "watch"
  /\ load' = [load EXCEPT ![l].pc = "saveWatch", ![l].clean = TRUE]
  /\ UNCHANGED <<orders, watch, cache, old, bounds>>

\* Mutant of SaveWatch: the two prices are swapped.
SaveWatchSwapped(l) ==
  /\ load[l].pc = "saveWatch"
  /\ load[l].clean
  /\ watch' = [current |-> watch.current, previous |-> load[l].avgPrice]
  /\ load' = [m \in Loaders |->
                IF m = l THEN [load[m] EXCEPT !.pc = "queue", !.clean = FALSE]
                ELSE [load[m] EXCEPT !.clean = FALSE]]
  /\ UNCHANGED <<orders, cache, old, bounds>>

\* addPrice24: save.  It assigns the array prices24, so mongoose saves only onto
\* the version that was read, and throws otherwise (StaleWatch).
SaveWatch(l) ==
  /\ load[l].pc = "saveWatch"
  /\ load[l].clean
  /\ watch' = [current |-> load[l].avgPrice, previous |-> watch.current]
  /\ load' = [m \in Loaders |->
                IF m = l THEN [load[m] EXCEPT !.pc = "queue", !.clean = FALSE]
                ELSE [load[m] EXCEPT !.clean = FALSE]]
  /\ UNCHANGED <<orders, cache, old, bounds>>

\* getCreatedOrdersByWatchId: getWaiting.
ReadQueue(l) ==
  /\ load[l].pc = "queue"
  /\ load' = [load EXCEPT ![l].pc = "store", ![l].queued = jobs]
  /\ UNCHANGED <<orders, watch, cache, old, bounds>>

\* Mutant of StoreCache: the open orders are read after the queue.
StoreCacheReread(l) ==
  /\ load[l].pc = "store"
  /\ cache' = [stored |-> open, queued |-> load[l].queued,
               avgPrice |-> load[l].avgPrice,
               previousAvgPrice |-> load[l].previousAvgPrice]
  /\ old' = FALSE
  /\ load' = [load EXCEPT ![l] = Idle]
  /\ UNCHANGED <<orders, watch, bounds>>

StoreCache(l) ==
  /\ load[l].pc = "store"
  /\ cache' = [stored |-> load[l].stored, queued |-> load[l].queued,
               avgPrice |-> load[l].avgPrice,
               previousAvgPrice |-> load[l].previousAvgPrice]
  /\ old' = FALSE
  /\ load' = [load EXCEPT ![l] = Idle]
  /\ UNCHANGED <<orders, watch, bounds>>

\* A read or a save throws; the book stays what it was.
LoadFails(l) ==
  /\ load[l].pc # "idle"
  /\ failures < MaxFailures
  /\ failures' = failures + 1
  /\ load' = [load EXCEPT ![l] = Idle]
  /\ UNCHANGED <<orders, watch, cache, old, crashes>>

\* save throws a VersionError.
StaleWatch(l) ==
  /\ load[l].pc = "saveWatch"
  /\ ~ load[l].clean
  /\ load' = [load EXCEPT ![l] = Idle]
  /\ UNCHANGED <<orders, watch, cache, old, bounds>>

-----------------------------------------------------------------------------
(* Time and the process. *)

TenSeconds ==
  /\ cache # NoCache /\ ~ old
  /\ old' = TRUE
  /\ UNCHANGED <<orders, watch, cache, load, bounds>>

Crash ==
  /\ crashes < MaxCrashes
  /\ crashes' = crashes + 1
  /\ cache' = NoCache
  /\ old' = FALSE
  /\ load' = [l \in Loaders |-> Idle]
  /\ moving' = {}
  /\ saving' = {}
  /\ UNCHANGED <<new, jobs, open, watch, failures>>

Load(l) ==
  \/ FindOrders(l) \/ StartupPrices(l) \/ ReadWatch(l) \/ SaveWatch(l)
  \/ StaleWatch(l) \/ ReadQueue(l) \/ StoreCache(l)

Next ==
  \/ \E l \in Loaders, o \in Orders :
       PostOrder(l, o) \/ CloseOrder(l, o) \/ FilledEvent(l, o)
  \/ \E o \in Orders :
       RemoveJob(o) \/ CreateOrder(o) \/ SaveLands(o) \/ RetireOrder(o)
  \/ \E l \in Loaders : ReadBook(l) \/ Load(l) \/ LoadFails(l)
  \/ TenSeconds \/ Crash

Spec == Init /\ [][Next]_vars

(***************************************************************************)
(* Fairness.  Time passes, somebody keeps asking for the book and the      *)
(* event loop resumes every await; MaxFailures bounds the reads and saves  *)
(* that throw.  The cron job goes on with orders it has taken out of the   *)
(* queue, and saves under way land.                                        *)
(***************************************************************************)
Fairness ==
  /\ WF_vars(TenSeconds)
  /\ WF_vars(\E o \in Orders : RemoveJob(o) \/ CreateOrder(o) \/ SaveLands(o))
  /\ \A l \in Loaders : WF_vars(ReadBook(l) \/ Load(l))

FairSpec == Spec /\ Fairness

-----------------------------------------------------------------------------
(* Properties. *)

\* Types; an order is in one place at most.
TypeOK ==
  /\ \A S \in {new, jobs, moving, open, saving} : S \subseteq Orders
  /\ new \cap (jobs \cup moving \cup open) = {}
  /\ jobs \cap (moving \cup open) = {} /\ moving \cap open = {}
  /\ {cache.stored, cache.queued} \subseteq SUBSET Orders
  /\ old \in BOOLEAN
  /\ \A l \in Loaders : load[l].pc \in {"idle", "find", "prices", "watch",
                                        "saveWatch", "queue", "store"}

\* An order that was posted once is listed at most once, although it moves from the
\* queue to the collection while the book is loaded: a load reads the
\* collection first, and a job leaves the queue before its order is created.
ListedOnce == cache.stored \cap cache.queued = {}

\* Once orders stop changing the book comes to list exactly the open orders,
\* whichever of several overlapping loads wrote last.
BookCatchesUp ==
  <>[](cache # NoCache => cache.stored = open /\ cache.queued = jobs)

\* ... and, loads not overlapping, the book's average price and the watch's
\* share price come to be that of the open orders, when there are enough.
PriceCatchesUp ==
  <>[](cache # NoCache /\ AvgPrice(open) > 0
         => cache.avgPrice = AvgPrice(open) /\ watch.current = AvgPrice(open))
=============================================================================
