--------------------------- MODULE OrderBookProofs ---------------------------
(***************************************************************************)
(* Proofs about OrderBook, for every set of orders and prices, any number  *)
(* of overlapping loads, failures and crashes.                             *)
(***************************************************************************)
EXTENDS OrderBook, TLAPS

-----------------------------------------------------------------------------
(* The inductive invariant. *)

\* load is a function to records of the fields of Idle; what the prices are
\* does not matter here.
IsLoad(r) ==
  r = [pc |-> r.pc, stored |-> r.stored, queued |-> r.queued,
       avgPrice |-> r.avgPrice, previousAvgPrice |-> r.previousAvgPrice,
       clean |-> r.clean]

Shapes ==
  /\ load = [l \in Loaders |-> load[l]]
  /\ \A l \in Loaders : IsLoad(load[l])

\* What a load has found in the collection is past the queue for good, so it
\* is not among the jobs it goes on to read.
PastQueue(r) ==
  /\ r.stored \subseteq Orders
  /\ r.queued \subseteq Orders
  /\ r.stored \cap (new \cup jobs \cup moving) = {}
  /\ r.stored \cap r.queued = {}
  /\ r.pc \in {"idle", "find"} => r.queued = {}

BookInv ==
  /\ TypeOK
  /\ Shapes
  /\ \A l \in Loaders : PastQueue(load[l])
  /\ ListedOnce

LEMMA BookInit == Init => BookInv
<1> SUFFICES ASSUME Init PROVE BookInv
  OBVIOUS
<1>1. \A l \in Loaders : load[l] = Idle
  BY DEF Init
<1>2. TypeOK
  BY <1>1 DEF Init, TypeOK, Idle, NoCache
<1>3. Shapes
  BY <1>1 DEF Init, Shapes, IsLoad, Idle
<1>4. \A l \in Loaders : PastQueue(load[l])
  BY <1>1 DEF PastQueue, Idle
<1>5. ListedOnce
  BY DEF Init, ListedOnce, NoCache
<1> QED
  BY <1>2, <1>3, <1>4, <1>5 DEF BookInv

-----------------------------------------------------------------------------
(* Steps of loads. *)

\* A load that goes to another await and keeps what it has read.
LEMMA LoadMoves ==
  ASSUME BookInv, UNCHANGED <<orders, cache, old>>,
         load' = [m \in Loaders |-> load'[m]],
         \A m \in Loaders :
           /\ IsLoad(load'[m])
           /\ load'[m].stored = load[m].stored
           /\ load'[m].queued = load[m].queued
           /\ load'[m].pc \in {"idle", "find", "prices", "watch", "saveWatch",
                               "queue", "store"}
           /\ load'[m].pc \in {"idle", "find"} => load[m].pc \in {"idle", "find"}
  PROVE  BookInv'
  BY DEF BookInv, TypeOK, Shapes, PastQueue, ListedOnce, orders

\* A load that ends.
LEMMA LoadEnds ==
  ASSUME BookInv, NEW l \in Loaders, load' = [load EXCEPT ![l] = Idle],
         UNCHANGED orders,
         {cache.stored, cache.queued}' \subseteq SUBSET Orders,
         old' \in BOOLEAN, ListedOnce'
  PROVE  BookInv'
<1>1. load' = [m \in Loaders |-> IF m = l THEN Idle ELSE load[m]]
  BY DEF BookInv, Shapes
<1>2. Shapes'
  BY <1>1 DEF BookInv, Shapes, IsLoad, Idle
<1>3. \A m \in Loaders : PastQueue(load[m])'
  BY <1>1 DEF BookInv, PastQueue, Idle, orders
<1>4. TypeOK'
  BY <1>1 DEF BookInv, TypeOK, Idle, orders
<1> QED
  BY <1>2, <1>3, <1>4 DEF BookInv

LEMMA LoadKeeps ==
  ASSUME BookInv, NEW l \in Loaders, Load(l)
  PROVE  BookInv'
<1> USE DEF BookInv
<1>1. CASE FindOrders(l)
  <2>1. load' = [m \in Loaders |->
                   IF m = l THEN [load[m] EXCEPT !.pc = "prices", !.stored = open]
                   ELSE load[m]]
    BY <1>1 DEF FindOrders, Shapes
  <2>2. /\ load'[l] = [load[l] EXCEPT !.pc = "prices", !.stored = open]
        /\ \A m \in Loaders \ {l} : load'[m] = load[m]
    BY <2>1
  <2>3. /\ IsLoad(load'[l])
        /\ load'[l].pc = "prices" /\ load'[l].stored = open
        /\ load'[l].queued = {}
    BY <1>1, <2>2 DEF FindOrders, Shapes, IsLoad, PastQueue
  <2>4. Shapes'
    BY <2>1, <2>2, <2>3 DEF Shapes
  <2>5. \A m \in Loaders : PastQueue(load[m])'
    BY <1>1, <2>2, <2>3 DEF FindOrders, PastQueue, TypeOK, orders
  <2>6. TypeOK' /\ ListedOnce'
    BY <1>1, <2>2, <2>3 DEF FindOrders, TypeOK, ListedOnce, orders
  <2> QED
    BY <2>4, <2>5, <2>6
<1>2. CASE StartupPrices(l)
  <2>1. PICK p \in {"watch", "queue"} : \E a, b :
          load' = [load EXCEPT ![l].pc = p, ![l].avgPrice = a,
                               ![l].previousAvgPrice = b]
    BY <1>2 DEF StartupPrices
  <2>2. PICK a, b :
          load' = [load EXCEPT ![l].pc = p, ![l].avgPrice = a,
                               ![l].previousAvgPrice = b]
    BY <2>1
  <2>3. \A m \in Loaders :
          load'[m] = IF m = l
                     THEN [load[m] EXCEPT !.pc = p, !.avgPrice = a,
                                          !.previousAvgPrice = b]
                     ELSE load[m]
    BY <2>2 DEF Shapes
  <2>4. load' = [m \in Loaders |-> load'[m]]
    BY <2>2 DEF Shapes
  <2>5. \A m \in Loaders :
          /\ IsLoad(load'[m])
          /\ load'[m].stored = load[m].stored
          /\ load'[m].queued = load[m].queued
          /\ load'[m].pc \in {"watch", "queue"} \cup {load[m].pc}
    BY <2>3 DEF Shapes, IsLoad
  <2> QED
    BY <1>2, <2>4, <2>5, LoadMoves DEF StartupPrices, TypeOK
<1>3. CASE ReadWatch(l)
  <2>1. \A m \in Loaders :
          load'[m] = IF m = l
                     THEN [load[m] EXCEPT !.pc = "saveWatch", !.clean = TRUE]
                     ELSE load[m]
    BY <1>3 DEF ReadWatch, Shapes
  <2>2. load' = [m \in Loaders |-> load'[m]]
    BY <1>3 DEF ReadWatch, Shapes
  <2>3. \A m \in Loaders :
          /\ IsLoad(load'[m])
          /\ load'[m].stored = load[m].stored
          /\ load'[m].queued = load[m].queued
          /\ load'[m].pc \in {"saveWatch"} \cup {load[m].pc}
    BY <2>1 DEF Shapes, IsLoad
  <2> QED
    BY <1>3, <2>2, <2>3, LoadMoves DEF ReadWatch, TypeOK
<1>4. CASE SaveWatch(l)
  <2>1. \A m \in Loaders :
          load'[m] = IF m = l
                     THEN [load[m] EXCEPT !.pc = "queue", !.clean = FALSE]
                     ELSE [load[m] EXCEPT !.clean = FALSE]
    BY <1>4 DEF SaveWatch
  <2>2. load' = [m \in Loaders |-> load'[m]]
    BY <1>4 DEF SaveWatch
  <2>3. \A m \in Loaders :
          /\ IsLoad(load'[m])
          /\ load'[m].stored = load[m].stored
          /\ load'[m].queued = load[m].queued
          /\ load'[m].pc \in {"queue"} \cup {load[m].pc}
    BY <2>1 DEF Shapes, IsLoad
  <2> QED
    BY <1>4, <2>2, <2>3, LoadMoves DEF SaveWatch, TypeOK
<1>5. CASE StaleWatch(l)
  BY <1>5, LoadEnds DEF StaleWatch, TypeOK, ListedOnce
<1>6. CASE ReadQueue(l)
  <2>1. load' = [m \in Loaders |->
                   IF m = l THEN [load[m] EXCEPT !.pc = "store", !.queued = jobs]
                   ELSE load[m]]
    BY <1>6 DEF ReadQueue, Shapes
  <2>2. /\ load'[l] = [load[l] EXCEPT !.pc = "store", !.queued = jobs]
        /\ \A m \in Loaders \ {l} : load'[m] = load[m]
    BY <2>1
  <2>3. /\ IsLoad(load'[l])
        /\ load'[l].pc = "store" /\ load'[l].stored = load[l].stored
        /\ load'[l].queued = jobs
    BY <2>2 DEF Shapes, IsLoad
  <2>4. Shapes'
    BY <2>1, <2>2, <2>3 DEF Shapes
  <2>5. \A m \in Loaders : PastQueue(load[m])'
    BY <1>6, <2>2, <2>3 DEF ReadQueue, PastQueue, TypeOK, orders
  <2>6. TypeOK' /\ ListedOnce'
    BY <1>6, <2>2, <2>3 DEF ReadQueue, TypeOK, ListedOnce, orders
  <2> QED
    BY <2>4, <2>5, <2>6
<1>7. CASE StoreCache(l)
  <2>1. cache'.stored = load[l].stored /\ cache'.queued = load[l].queued
    BY <1>7 DEF StoreCache
  <2>2. ListedOnce' /\ {cache.stored, cache.queued}' \subseteq SUBSET Orders
    BY <2>1 DEF ListedOnce, PastQueue
  <2> QED
    BY <1>7, <2>2, LoadEnds DEF StoreCache
<1> QED
  BY <1>1, <1>2, <1>3, <1>4, <1>5, <1>6, <1>7 DEF Load

-----------------------------------------------------------------------------
(* Steps of orders. *)

\* A load begins, or none does, while orders move on: nothing enters new, what
\* enters jobs was new and what enters moving was new or a job.
LEMMA OrdersMove ==
  ASSUME BookInv, UNCHANGED <<cache, old>>,
         \/ UNCHANGED load
         \/ \E l \in Loaders : BeginLoad(l),
         new' \subseteq new,
         jobs' \subseteq new \cup jobs,
         moving' \subseteq new \cup jobs \cup moving,
         {open, saving}' \subseteq SUBSET Orders,
         new' \cap (jobs' \cup moving' \cup open') = {},
         jobs' \cap (moving' \cup open') = {},
         moving' \cap open' = {}
  PROVE  BookInv'
<1>1. /\ load' = [m \in Loaders |-> load'[m]]
      /\ \A m \in Loaders :
           /\ IsLoad(load'[m])
           /\ load'[m].stored = load[m].stored
           /\ load'[m].queued = load[m].queued
           /\ load'[m].pc \in {"idle", "find", "prices", "watch", "saveWatch",
                               "queue", "store"}
           /\ load'[m].pc \in {"idle", "find"} => load[m].pc \in {"idle", "find"}
  <2>1. CASE UNCHANGED load
    BY <2>1 DEF BookInv, TypeOK, Shapes
  <2>2. ASSUME NEW l \in Loaders, BeginLoad(l)
        PROVE  /\ load' = [m \in Loaders |-> load'[m]]
               /\ \A m \in Loaders :
                    load'[m] = IF m = l THEN [load[m] EXCEPT !.pc = "find"]
                               ELSE load[m]
    BY <2>2 DEF BeginLoad, BookInv, Shapes
  <2>3. ASSUME NEW l \in Loaders, BeginLoad(l), NEW m \in Loaders
        PROVE  /\ IsLoad(load'[m])
               /\ load'[m].stored = load[m].stored
               /\ load'[m].queued = load[m].queued
               /\ load'[m].pc = IF m = l THEN "find" ELSE load[m].pc
    BY <2>2, <2>3 DEF BookInv, Shapes, IsLoad
  <2> QED
    BY <2>1, <2>2, <2>3 DEF BeginLoad, BookInv, TypeOK
<1>2. \A m \in Loaders : PastQueue(load[m])'
  BY <1>1 DEF BookInv, PastQueue
<1>3. TypeOK'
  BY <1>1 DEF BookInv, TypeOK
<1> QED
  BY <1>1, <1>2, <1>3 DEF BookInv, Shapes, ListedOnce

LEMMA BookStep == BookInv /\ [Next]_vars => BookInv'
<1> SUFFICES ASSUME BookInv, [Next]_vars PROVE BookInv'
  OBVIOUS
<1> USE DEF BookInv
<1>1. ASSUME NEW l \in Loaders, NEW o \in Orders,
             PostOrder(l, o) \/ CloseOrder(l, o) \/ FilledEvent(l, o)
      PROVE  BookInv'
  <2>1. CASE PostOrder(l, o)
    BY <2>1, OrdersMove DEF PostOrder, TypeOK
  <2>2. CASE CloseOrder(l, o)
    BY <2>2, OrdersMove DEF CloseOrder, TypeOK
  <2>3. CASE FilledEvent(l, o)
    BY <2>3, OrdersMove DEF FilledEvent, TypeOK
  <2> QED
    BY <1>1, <2>1, <2>2, <2>3
<1>2. ASSUME NEW o \in Orders,
             RemoveJob(o) \/ CreateOrder(o) \/ SaveLands(o) \/ RetireOrder(o)
      PROVE  BookInv'
  <2>1. CASE RemoveJob(o)
    BY <2>1, OrdersMove DEF RemoveJob, TypeOK
  <2>2. CASE CreateOrder(o)
    BY <2>2, OrdersMove DEF CreateOrder, TypeOK
  <2>3. CASE SaveLands(o)
    BY <2>3, OrdersMove DEF SaveLands, TypeOK
  <2>4. CASE RetireOrder(o)
    BY <2>4, OrdersMove DEF RetireOrder, TypeOK
  <2> QED
    BY <1>2, <2>1, <2>2, <2>3, <2>4
<1>3. ASSUME NEW l \in Loaders, ReadBook(l) PROVE BookInv'
  BY <1>3, OrdersMove DEF ReadBook, TypeOK, orders
<1>4. ASSUME NEW l \in Loaders, Load(l) PROVE BookInv'
  BY <1>4, LoadKeeps
<1>5. ASSUME NEW l \in Loaders, LoadFails(l) PROVE BookInv'
  BY <1>5, LoadEnds DEF LoadFails, TypeOK, ListedOnce
<1>6. CASE TenSeconds
  BY <1>6 DEF TenSeconds, TypeOK, Shapes, PastQueue, ListedOnce, orders
<1>7. CASE Crash
  <2>1. load' = [l \in Loaders |-> Idle]
    BY <1>7 DEF Crash
  <2>2. Shapes'
    BY <2>1 DEF Shapes, IsLoad, Idle
  <2>3. \A l \in Loaders : PastQueue(load[l])'
    BY <2>1 DEF PastQueue, Idle
  <2>4. TypeOK'
    <3>1. \A l \in Loaders : load'[l].pc = "idle"
      BY <2>1 DEF Idle
    <3>2. cache'.stored = {} /\ cache'.queued = {} /\ old' \in BOOLEAN
      BY <1>7 DEF Crash, NoCache
    <3>3. /\ UNCHANGED <<new, jobs, open>>
          /\ moving' = {} /\ saving' = {}
      BY <1>7 DEF Crash
    <3> QED
      BY <3>1, <3>2, <3>3 DEF TypeOK
  <2>5. ListedOnce'
    BY <1>7 DEF Crash, ListedOnce, NoCache
  <2> QED
    BY <2>2, <2>3, <2>4, <2>5
<1>8. CASE UNCHANGED vars
  BY <1>8 DEF vars, TypeOK, Shapes, PastQueue, ListedOnce, orders
<1> QED
  BY <1>1, <1>2, <1>3, <1>4, <1>5, <1>6, <1>7, <1>8 DEF Next

LEMMA BookInvariant == Spec => []BookInv
  BY BookInit, BookStep, PTL DEF Spec

\* An order is in one place at most: waiting, on its way, or open.
THEOREM OnePlace == Spec => []TypeOK
<1>1. BookInv => TypeOK
  BY DEF BookInv
<1> QED
  BY <1>1, BookInvariant, PTL

\* However many loads of the book overlap, fail or die with the process, an
\* order posted once is never listed both from the queue and from the
\* collection: every load reads the collection first.
THEOREM NeverListedTwice == Spec => []ListedOnce
<1>1. BookInv => ListedOnce
  BY DEF BookInv
<1> QED
  BY <1>1, BookInvariant, PTL
=============================================================================
