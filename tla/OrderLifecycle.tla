--------------------------- MODULE OrderLifecycle ---------------------------
(***************************************************************************)
(* The life of an order: posted to the create-order queue (OrderService),  *)
(* moved to the orders collection and checked against the contract by the  *)
(* cron job (OrdersCheckerService), filled and cancelled by contract       *)
(* events (OrdersCacheService) and by requests of users.                   *)
(*                                                                         *)
(* A step is what runs between two awaits.  A mongoose document read by    *)
(* findOne and saved later writes only the fields the code changed, onto   *)
(* whatever the stored document has become: SaveDelta.  Reloads of the     *)
(* order book cache, deals, balances and notifications are not here.       *)
(***************************************************************************)
EXTENDS Integers, Sequences, FiniteSets

CONSTANTS
  Orders,       \* orders of a watch
  Shares,       \* shares each order is signed for
  Ticks,        \* runs of the cron job that may be in progress at once
  Fills,        \* fill requests in progress at once
  Cancels,      \* cancel requests in progress at once
  Conditions,   \* further errors the contract may report for an order
  PromptSaves,  \* TRUE: the save a filled event does not await lands before
                \* the tick reads its next event
  MaxLog,       \* bound: events of the contract
  MaxPosts,     \* bound: create requests
  MaxRequests,  \* bound: fill and cancel requests in progress at once
  MaxTurns,     \* bound: changes of an order's further error
  MaxCrashes    \* bound: crashes of the process

ASSUME OrderAssumption ==
  /\ Shares \in Nat \ {0}
  /\ PromptSaves \in BOOLEAN
  /\ Conditions \cap {"NoError", "Closed", "NotEnoughRemaining"} = {}
  /\ MaxLog \in Nat /\ MaxPosts \in Nat /\ MaxRequests \in Nat
  /\ MaxTurns \in Nat /\ MaxCrashes \in Nat

VARIABLES
  left,     \* contract: shares of each order not filled yet
  closed,   \* contract: orders cancelled by their maker
  error,    \* contract: further error of each order, "NoError" when none
  log,      \* contract: OrderFilled and OrderCanceled events, in order
  doc,      \* orders collection
  jobs,     \* create-order queue, waiting jobs
  posts,    \* create requests so far
  turns,    \* changes of error so far
  crashes,  \* crashes so far
  next,     \* events recorded so far: each is taken once (BcEventService)
  saves,    \* saves under way
  tpc,      \* the await each tick stands at
  seen,     \* what each tick read: documents by order
  todo,     \* orders each tick has still to update or create
  batch,    \* jobs each tick read
  visible,  \* events that were confirmed when each tick began
  fpc,      \* the await each fill request stands at
  fill,     \* order, document read and check result of each fill request
  cancel,   \* order and document read by each cancel request
  lost,     \* history: orders with an event whose handling was cut short
  accepted, \* history: orders added to the queue
  refused,  \* history: orders the contract turned down at creation
  dropped,  \* history: orders lost between queue and collection
  raced     \* history: orders whose remainingShares was written from a read
            \* that no longer held

contract == <<left, closed, error, log, turns>>
store    == <<doc, jobs, posts>>
tick     == <<tpc, seen, todo, batch, visible>>
requests == <<fpc, fill, cancel>>
history  == <<lost, accepted, refused, dropped, raced>>
vars == <<contract, store, crashes, next, saves, tick, requests, history>>

States == {"ACTIVE", "CANCELLED", "FILLED", "CLOSED", "EXPIRED", "ERROR"}
Errors == {"NoError", "Closed", "NotEnoughRemaining"} \cup Conditions

\* getOrderStateFromOrderError
StateOf(e) ==
  CASE e = "NoError" -> "ACTIVE"
    [] e = "Expired" -> "EXPIRED"
    [] e = "Closed"  -> "CLOSED"
    [] OTHER         -> "ERROR"

\* The contract's checkOrderError for filling n shares of an order.
CheckOrderError(o, n) ==
  IF o \in closed \/ left[o] = 0 THEN "Closed"
  ELSE IF error[o] # "NoError" THEN error[o]
  ELSE IF n > left[o] THEN "NotEnoughRemaining"
  ELSE "NoError"

Order == [state : States, orderError : Errors, remainingShares : 0 .. Shares,
          remainingSharesEvent : 0 .. Shares]

NoDoc == [state |-> "none", orderError |-> "NoError", remainingShares |-> 0,
          remainingSharesEvent |-> 0]

\* The order createOrder builds.
NewOrder == [state |-> "ACTIVE", orderError |-> "NoError",
             remainingShares |-> Shares, remainingSharesEvent |-> Shares]

Stored == {o \in Orders : doc[o] # NoDoc}

NoFill == [order |-> "none", old |-> NoDoc, result |-> "NoError"]
NoCancel == [order |-> "none", old |-> NoDoc]

InProgress == {r \in Fills : fpc[r] # "idle"} \cup {c \in Cancels : cancel[c] # NoCancel}

\* Neither ended nor in error.
Standing(o) == doc[o].state = "ACTIVE" /\ doc[o].orderError = "NoError"

\* The part of the collection the order book is loaded from (an expiration that
\* is near only takes orders out).
Open(o) == Standing(o) /\ doc[o].remainingShares > 0

\* Mutant of SaveDelta: the whole document is written.
SaveWhole(stored, old, new) == new

\* save of a document that was read as old and is now new, onto stored.
SaveDelta(stored, old, new) ==
  [f \in DOMAIN stored |-> IF new[f] # old[f] THEN new[f] ELSE stored[f]]

\* remainingShares of o is written with a value computed from the document read.
RacedWith(o, read) ==
  IF doc[o].remainingShares = read.remainingShares THEN raced ELSE raced \cup {o}

Lesser(m, n) == IF m < n THEN m ELSE n

-----------------------------------------------------------------------------
Init ==
  /\ left = [o \in Orders |-> Shares]
  /\ closed = {}
  /\ error = [o \in Orders |-> "NoError"]
  /\ log = <<>>
  /\ doc = [o \in Orders |-> NoDoc]
  /\ jobs = {}
  /\ posts = 0 /\ turns = 0 /\ crashes = 0 /\ next = 0
  /\ saves = {}
  /\ tpc = [t \in Ticks |-> "idle"]
  /\ seen = [t \in Ticks |-> [o \in Orders |-> NoDoc]]
  /\ todo = [t \in Ticks |-> {}]
  /\ batch = [t \in Ticks |-> {}]
  /\ visible = [t \in Ticks |-> 0]
  /\ fpc = [r \in Fills |-> "idle"]
  /\ fill = [r \in Fills |-> NoFill]
  /\ cancel = [c \in Cancels |-> NoCancel]
  /\ lost = {} /\ accepted = {} /\ refused = {} /\ dropped = {} /\ raced = {}

-----------------------------------------------------------------------------
(* The contract. *)

ChainFill(o, n) ==
  /\ Len(log) < MaxLog
  /\ CheckOrderError(o, n) = "NoError"
  /\ left' = [left EXCEPT ![o] = @ - n]
  /\ log' = Append(log, [type |-> "OrderFilled", order |-> o,
                         remaining |-> left[o] - n])
  /\ UNCHANGED <<closed, error, turns, store, crashes, next, saves, tick,
                 requests, history>>

ChainCancel(o) ==
  /\ Len(log) < MaxLog
  /\ o \notin closed /\ left[o] > 0
  /\ closed' = closed \cup {o}
  /\ log' = Append(log, [type |-> "OrderCanceled", order |-> o, remaining |-> 0])
  /\ UNCHANGED <<left, error, turns, store, crashes, next, saves, tick,
                 requests, history>>

\* An order expires, its maker spends the tokens it offers or gets them back.
ChainTurn(o) ==
  /\ turns < MaxTurns
  /\ turns' = turns + 1
  /\ error[o] # "Expired"
  /\ \E e \in ({"NoError"} \cup Conditions) \ {error[o]} :
       error' = [error EXCEPT ![o] = e]
  /\ UNCHANGED <<left, closed, log, store, crashes, next, saves, tick,
                 requests, history>>

-----------------------------------------------------------------------------
(* Create requests.  A request that is refused (signature, more than 200    *)
(* active orders of the maker) changes nothing.                            *)

CreateOrder(o) ==
  /\ posts < MaxPosts
  /\ posts' = posts + 1
  /\ jobs' = jobs \cup {[id |-> posts + 1, order |-> o]}
  /\ accepted' = accepted \cup {o}
  /\ UNCHANGED <<contract, doc, crashes, next, saves, tick, requests, lost,
                 refused, dropped, raced>>

-----------------------------------------------------------------------------
(* The cron job, first part: checkActiveOrders. *)

EndTick(t) ==
  /\ tpc' = [tpc EXCEPT ![t] = "idle"]
  /\ seen' = [seen EXCEPT ![t] = [o \in Orders |-> NoDoc]]
  /\ todo' = [todo EXCEPT ![t] = {}]
  /\ batch' = [batch EXCEPT ![t] = {}]
  /\ visible' = [visible EXCEPT ![t] = 0]

\* Mutant of ActiveOrders: only what the order book lists.
OpenOrders == {o \in Orders : Standing(o)}

\* Mutant of ActiveOrders: orders that requests have used up are left out.
UnfilledOrders ==
  {o \in Orders : doc[o].state = "ACTIVE" /\ doc[o].remainingShares > 0}

ActiveOrders == {o \in Orders : doc[o].state = "ACTIVE"}

\* find reads the active orders; without any the multicall is skipped.
ReadActiveOrders(t) ==
  /\ tpc[t] = "idle"
  /\ seen' = [seen EXCEPT ![t] = [o \in Orders |->
                IF o \in ActiveOrders THEN doc[o] ELSE NoDoc]]
  /\ tpc' = [tpc EXCEPT ![t] = IF ActiveOrders = {} THEN "queue" ELSE "check"]
  /\ visible' = [visible EXCEPT ![t] = Len(log)]
  /\ UNCHANGED <<contract, store, crashes, next, saves, todo, batch, requests,
                 history>>

\* Mutant of CheckActiveOrders: only orders that ended are taken out.
CheckEndedOrders(t) ==
  /\ tpc[t] = "check"
  /\ LET verdict(o) == CheckOrderError(o, seen[t][o].remainingShares)
         checked(o) == IF seen[t][o] = NoDoc \/ verdict(o) \notin {"Closed", "Expired"}
                       THEN seen[t][o]
                       ELSE [seen[t][o] EXCEPT !.orderError = verdict(o),
                                               !.state = StateOf(verdict(o))]
     IN /\ seen' = [seen EXCEPT ![t] = [o \in Orders |-> checked(o)]]
        /\ todo' = [todo EXCEPT ![t] =
                      {o \in Orders : checked(o).orderError # "NoError"}]
  /\ tpc' = [tpc EXCEPT ![t] = "update"]
  /\ UNCHANGED <<contract, store, crashes, next, saves, batch, visible,
                 requests, history>>

\* checkOrders overwrites error and state of an order only when the contract
\* reports an error; the loop then updates every order whose error is set.
CheckActiveOrders(t) ==
  /\ tpc[t] = "check"
  /\ LET verdict(o) == CheckOrderError(o, seen[t][o].remainingShares)
         checked(o) == IF seen[t][o] = NoDoc \/ verdict(o) = "NoError"
                       THEN seen[t][o]
                       ELSE [seen[t][o] EXCEPT !.orderError = verdict(o),
                                               !.state = StateOf(verdict(o))]
     IN /\ seen' = [seen EXCEPT ![t] = [o \in Orders |-> checked(o)]]
        /\ todo' = [todo EXCEPT ![t] =
                      {o \in Orders : checked(o).orderError # "NoError"}]
  /\ tpc' = [tpc EXCEPT ![t] = "update"]
  /\ UNCHANGED <<contract, store, crashes, next, saves, batch, visible,
                 requests, history>>

UpdateActiveOrder(t) ==
  /\ tpc[t] = "update"
  /\ \E o \in todo[t] :
       /\ doc' = [doc EXCEPT ![o].orderError = seen[t][o].orderError,
                             ![o].state = seen[t][o].state]
       /\ todo' = [todo EXCEPT ![t] = @ \ {o}]
  /\ UNCHANGED <<contract, jobs, posts, crashes, next, saves, tpc, seen, batch,
                 visible, requests, history>>

ActiveOrdersDone(t) ==
  /\ tpc[t] = "update"
  /\ todo[t] = {}
  /\ tpc' = [tpc EXCEPT ![t] = "queue"]
  /\ seen' = [seen EXCEPT ![t] = [o \in Orders |-> NoDoc]]
  /\ UNCHANGED <<contract, store, crashes, next, saves, todo, batch, visible,
                 requests, history>>

-----------------------------------------------------------------------------
(* The cron job, second part: checkCreatedOrders. *)

ReadQueue(t) ==
  /\ tpc[t] = "queue"
  /\ batch' = [batch EXCEPT ![t] = jobs]
  /\ tpc' = [tpc EXCEPT ![t] = IF jobs = {} THEN "events" ELSE "checkJobs"]
  /\ UNCHANGED <<contract, store, crashes, next, saves, seen, todo, visible,
                 requests, history>>

\* Only orders the contract accepts in full go on.
CheckCreatedOrders(t) ==
  /\ tpc[t] = "checkJobs"
  /\ LET good == {j \in batch[t] : CheckOrderError(j.order, Shares) = "NoError"}
     IN /\ todo' = [todo EXCEPT ![t] = good]
        /\ refused' = refused \cup {j.order : j \in batch[t] \ good}
  /\ tpc' = [tpc EXCEPT ![t] = "remove"]
  /\ UNCHANGED <<contract, store, crashes, next, saves, seen, batch, visible,
                 requests, lost, accepted, dropped, raced>>

RemoveJobs(t) ==
  /\ tpc[t] = "remove"
  /\ jobs' = jobs \ batch[t]
  /\ tpc' = [tpc EXCEPT ![t] = IF todo[t] = {} THEN "events" ELSE "create"]
  /\ UNCHANGED <<contract, doc, posts, crashes, next, saves, seen, todo, batch,
                 visible, requests, history>>

\* Some of the removals fail: the jobs of the others are gone and the orders
\* are not created.
RemoveJobsFails(t) ==
  /\ tpc[t] = "remove"
  /\ \E gone \in SUBSET batch[t] :
       /\ jobs' = jobs \ gone
       /\ dropped' = dropped \cup {j.order : j \in gone \cap todo[t]}
  /\ EndTick(t)
  /\ UNCHANGED <<contract, doc, posts, crashes, next, saves, requests, lost,
                 accepted, refused, raced>>

\* Mutant of CreateOrders: all the orders are saved or none is.
CreateAllOrNone(t) ==
  /\ tpc[t] = "create"
  /\ LET created == {j.order : j \in todo[t]}
         clash == \/ created \cap Stored # {}
                  \/ \E i, j \in todo[t] : i # j /\ i.order = j.order
     IN doc' = [o \in Orders |-> IF o \in created /\ ~ clash THEN NewOrder ELSE doc[o]]
  /\ EndTick(t)
  /\ UNCHANGED <<contract, jobs, posts, crashes, next, saves, requests, history>>

\* create saves the orders side by side; one that meets the unique orderHash, or
\* one the database fails to store, makes it throw after the others are saved.
CreateOrders(t) ==
  /\ tpc[t] = "create"
  /\ LET created == {j.order : j \in todo[t]}
         clash == \/ created \cap Stored # {}
                  \/ \E i, j \in todo[t] : i # j /\ i.order = j.order
     IN \E failed \in SUBSET (created \ Stored) :
          /\ doc' = [o \in Orders |-> IF o \in created \ (Stored \cup failed)
                                      THEN NewOrder ELSE doc[o]]
          /\ dropped' = dropped \cup failed
          /\ \/ ~ clash /\ failed = {}
                /\ tpc' = [tpc EXCEPT ![t] = "events"]
                /\ todo' = [todo EXCEPT ![t] = {}]
                /\ batch' = [batch EXCEPT ![t] = {}]
                /\ UNCHANGED <<seen, visible>>
             \/ (clash \/ failed # {}) /\ EndTick(t)
  /\ UNCHANGED <<contract, jobs, posts, crashes, next, saves, requests, lost,
                 accepted, refused, raced>>

-----------------------------------------------------------------------------
(* The cron job, third part: the events getEvents hands over. *)

\* What getEvents fetches was confirmed when the tick began: confirmations
\* take minutes, the checks before it seconds.
NextEvent(t) ==
  /\ tpc[t] = "events"
  /\ next < visible[t]
  /\ PromptSaves => saves = {}
  /\ next' = next + 1
  /\ tpc' = [tpc EXCEPT ![t] = log[next + 1].type]
  /\ todo' = [todo EXCEPT ![t] = {next + 1}]
  /\ UNCHANGED <<contract, store, crashes, saves, seen, batch, visible,
                 requests, history>>

NoMoreEvents(t) ==
  /\ tpc[t] = "events"
  /\ next >= visible[t]
  /\ EndTick(t)
  /\ UNCHANGED <<contract, store, crashes, next, saves, requests, history>>

\* Mutant of FilledDoc: the event's remaining shares never grow.
FilledDocLesser(old, remaining) ==
  [old EXCEPT !.state = IF remaining > 0 THEN @ ELSE "FILLED",
              !.remainingSharesEvent = Lesser(old.remainingShares, remaining),
              !.remainingShares = Lesser(@, remaining)]

\* Mutant of FilledDoc: the shares listed stay as they are.
FilledDocUnlisted(old, remaining) ==
  [old EXCEPT !.state = IF remaining > 0 THEN @ ELSE "FILLED",
              !.remainingSharesEvent = remaining]

FilledDoc(old, remaining) ==
  [old EXCEPT !.state = IF remaining > 0 THEN @ ELSE "FILLED",
              !.remainingSharesEvent = remaining,
              !.remainingShares = Lesser(@, remaining)]

\* handleOrderFilledEvent: findOne skips an order that already has this
\* remaining; the save is started and not awaited.
HandleOrderFilled(t) ==
  /\ tpc[t] = "OrderFilled"
  /\ \E i \in todo[t] :
       LET o == log[i].order
           old == doc[o]
           new == FilledDoc(old, log[i].remaining)
       IN saves' = IF o \in Stored /\ old.remainingSharesEvent # log[i].remaining
                   THEN saves \cup {[id |-> i, order |-> o, old |-> old,
                                     new |-> new]}
                   ELSE saves
  /\ tpc' = [tpc EXCEPT ![t] = "events"]
  /\ todo' = [todo EXCEPT ![t] = {}]
  /\ UNCHANGED <<contract, store, crashes, next, seen, batch, visible, requests,
                 history>>

\* handleOrderCanceledEvent reads the order; its save is awaited.
HandleOrderCanceled(t) ==
  /\ tpc[t] = "OrderCanceled"
  /\ \E i \in todo[t] :
       LET o == log[i].order
           old == doc[o]
           new == [old EXCEPT !.orderError = "Closed", !.state = "CANCELLED"]
       IN IF o \in Stored
          THEN /\ saves' = saves \cup {[id |-> i, order |-> o, old |-> old,
                                        new |-> new]}
               /\ tpc' = [tpc EXCEPT ![t] = "saving"]
               /\ UNCHANGED todo
          ELSE /\ tpc' = [tpc EXCEPT ![t] = "events"]
               /\ todo' = [todo EXCEPT ![t] = {}]
               /\ UNCHANGED saves
  /\ UNCHANGED <<contract, store, crashes, next, seen, batch, visible, requests,
                 history>>

\* Its read or its save throws: the error is caught and the tick goes on.
CanceledFails(t) ==
  /\ tpc[t] \in {"OrderCanceled", "saving"}
  /\ saves' = {s \in saves : s.id \notin todo[t]}
  /\ lost' = lost \cup {log[i].order : i \in todo[t]}
  /\ tpc' = [tpc EXCEPT ![t] = "events"]
  /\ todo' = [todo EXCEPT ![t] = {}]
  /\ UNCHANGED <<contract, store, crashes, next, seen, batch, visible, requests,
                 accepted, refused, dropped, raced>>

CanceledSaved(t) ==
  /\ tpc[t] = "saving"
  /\ \A s \in saves : s.id \notin todo[t]
  /\ tpc' = [tpc EXCEPT ![t] = "events"]
  /\ todo' = [todo EXCEPT ![t] = {}]
  /\ UNCHANGED <<contract, store, crashes, next, saves, seen, batch, visible,
                 requests, history>>

\* A save reaches the database.
SaveLands(s) ==
  /\ s \in saves
  /\ doc' = [doc EXCEPT ![s.order] = SaveDelta(@, s.old, s.new)]
  /\ raced' = IF s.new.remainingShares = s.old.remainingShares THEN raced
              ELSE RacedWith(s.order, s.old)
  /\ saves' = saves \ {s}
  /\ UNCHANGED <<contract, jobs, posts, crashes, next, tick, requests, lost,
                 accepted, refused, dropped>>

\* A read, a multicall or an update throws and ends the tick, before the first
\* write of an event handler; a multicall that fails yields no list to loop on.
TickFails(t) ==
  /\ tpc[t] \in {"check", "update", "queue", "checkJobs", "events", "OrderFilled"}
  /\ lost' = IF tpc[t] = "OrderFilled"
             THEN lost \cup {log[i].order : i \in todo[t]}
             ELSE lost
  /\ EndTick(t)
  /\ UNCHANGED <<contract, store, crashes, next, saves, requests, accepted,
                 refused, dropped, raced>>

-----------------------------------------------------------------------------
(* Fill requests: getOderByHash, checkOrder, fillOrder. *)

\* findOne; the request of an order that is not stored fails.
FillRead(r, o) ==
  /\ fpc[r] = "idle"
  /\ Cardinality(InProgress) < MaxRequests
  /\ o \in Stored
  /\ fpc' = [fpc EXCEPT ![r] = "check"]
  /\ fill' = [fill EXCEPT ![r] = [order |-> o, old |-> doc[o],
                                  result |-> "NoError"]]
  /\ UNCHANGED <<contract, store, crashes, next, saves, tick, cancel, history>>

FillCheck(r) ==
  /\ fpc[r] = "check"
  /\ LET e == CheckOrderError(fill[r].order, fill[r].old.remainingShares) IN
       /\ fill' = [fill EXCEPT ![r].result = e]
       /\ fpc' = [fpc EXCEPT ![r] = IF e = "NoError" THEN "fill" ELSE "reject"]
  /\ UNCHANGED <<contract, store, crashes, next, saves, tick, cancel, history>>

EndFill(r) ==
  /\ fpc' = [fpc EXCEPT ![r] = "idle"]
  /\ fill' = [fill EXCEPT ![r] = NoFill]

\* Mutant of FillRejected: the error it got is not stored.
FillRejectedSilently(r) ==
  /\ fpc[r] = "reject"
  /\ doc' = [doc EXCEPT ![fill[r].order].state = StateOf(fill[r].old.orderError)]
  /\ EndFill(r)
  /\ UNCHANGED <<contract, jobs, posts, crashes, next, saves, tick, cancel,
                 history>>

\* checkOrder stores the error it got and the state of the error it had read.
FillRejected(r) ==
  /\ fpc[r] = "reject"
  /\ doc' = [doc EXCEPT ![fill[r].order].orderError = fill[r].result,
                        ![fill[r].order].state = StateOf(fill[r].old.orderError)]
  /\ EndFill(r)
  /\ UNCHANGED <<contract, jobs, posts, crashes, next, saves, tick, cancel,
                 history>>

\* Mutant of FillAmount: not stopped at zero.
FillAmountBelowZero(remaining, n) == remaining - n

FillAmount(remaining, n) == IF n <= remaining THEN remaining - n ELSE 0

\* fillOrder subtracts the shares of the request from what it had read.
FillOrder(r, n) ==
  /\ fpc[r] = "fill"
  /\ doc' = [doc EXCEPT ![fill[r].order].remainingShares =
                FillAmount(fill[r].old.remainingShares, n)]
  /\ raced' = RacedWith(fill[r].order, fill[r].old)
  /\ EndFill(r)
  /\ UNCHANGED <<contract, jobs, posts, crashes, next, saves, tick, cancel, lost,
                 accepted, refused, dropped>>

\* The check, the deal or the update throws; the request is answered with false.
FillFails(r) ==
  /\ fpc[r] # "idle"
  /\ EndFill(r)
  /\ UNCHANGED <<contract, store, crashes, next, saves, tick, cancel, history>>

-----------------------------------------------------------------------------
(* Cancel requests of the maker. *)

CancelRead(c, o) ==
  /\ cancel[c] = NoCancel
  /\ Cardinality(InProgress) < MaxRequests
  /\ o \in Stored
  /\ cancel' = [cancel EXCEPT ![c] = [order |-> o, old |-> doc[o]]]
  /\ UNCHANGED <<contract, store, crashes, next, saves, tick, fpc, fill, history>>

CancelSave(c) ==
  /\ cancel[c] # NoCancel
  /\ LET old == cancel[c].old IN
       doc' = [doc EXCEPT ![cancel[c].order] =
                 SaveDelta(@, old, [old EXCEPT !.state = "CANCELLED"])]
  /\ cancel' = [cancel EXCEPT ![c] = NoCancel]
  /\ UNCHANGED <<contract, jobs, posts, crashes, next, saves, tick, fpc, fill,
                 history>>

-----------------------------------------------------------------------------
(* The process dies and is restarted: what is under way is gone. *)

Crash ==
  /\ crashes < MaxCrashes
  /\ crashes' = crashes + 1
  /\ tpc' = [t \in Ticks |-> "idle"]
  /\ seen' = [t \in Ticks |-> [o \in Orders |-> NoDoc]]
  /\ todo' = [t \in Ticks |-> {}]
  /\ batch' = [t \in Ticks |-> {}]
  /\ visible' = [t \in Ticks |-> 0]
  /\ fpc' = [r \in Fills |-> "idle"]
  /\ fill' = [r \in Fills |-> NoFill]
  /\ cancel' = [c \in Cancels |-> NoCancel]
  /\ saves' = {}
  /\ lost' = lost \cup {s.order : s \in saves}
       \cup UNION {{log[i].order : i \in todo[t]} :
                   t \in {u \in Ticks : tpc[u] \in {"OrderFilled", "OrderCanceled"}}}
  /\ dropped' = dropped \cup UNION {{j.order : j \in todo[t]} :
                                   t \in {u \in Ticks : tpc[u] = "create"}}
  /\ UNCHANGED <<contract, store, next, accepted, refused, raced>>

-----------------------------------------------------------------------------
Tick(t) ==
  \/ ReadActiveOrders(t)
  \/ CheckActiveOrders(t)
  \/ UpdateActiveOrder(t)
  \/ ActiveOrdersDone(t)
  \/ ReadQueue(t)
  \/ CheckCreatedOrders(t)
  \/ RemoveJobs(t)
  \/ RemoveJobsFails(t)
  \/ CreateOrders(t)
  \/ NextEvent(t)
  \/ NoMoreEvents(t)
  \/ HandleOrderFilled(t)
  \/ HandleOrderCanceled(t)
  \/ CanceledFails(t)
  \/ CanceledSaved(t)
  \/ TickFails(t)

FillRequest(r) ==
  \/ \E o \in Orders : FillRead(r, o)
  \/ FillCheck(r)
  \/ FillRejected(r)
  \/ \E n \in 1 .. Shares : FillOrder(r, n)
  \/ FillFails(r)

CancelRequest(c) == (\E o \in Orders : CancelRead(c, o)) \/ CancelSave(c)

Contract ==
  \E o \in Orders :
    \/ \E n \in 1 .. Shares : ChainFill(o, n)
    \/ ChainCancel(o)
    \/ ChainTurn(o)

Next ==
  \/ Contract
  \/ \E o \in Orders : CreateOrder(o)
  \/ \E t \in Ticks : Tick(t)
  \/ \E s \in saves : SaveLands(s)
  \/ \E r \in Fills : FillRequest(r)
  \/ \E c \in Cancels : CancelRequest(c)
  \/ Crash

Spec == Init /\ [][Next]_vars

(***************************************************************************)
(* Fairness.  The cron job keeps firing and the event loop resumes every   *)
(* await; the multicall fails at times but not for ever, and neither does  *)
(* an update of the database.  Nothing is assumed of users.                *)
(***************************************************************************)
Fairness ==
  /\ \A t \in Ticks :
       /\ WF_vars(ReadActiveOrders(t))
       /\ SF_vars(CheckActiveOrders(t))
       /\ SF_vars(UpdateActiveOrder(t))
  /\ \A t \in Ticks : WF_vars(Tick(t))
  /\ WF_vars(\E s \in saves : SaveLands(s))

FairSpec == Spec /\ Fairness

-----------------------------------------------------------------------------
(* Properties. *)

\* Types of the variables.
TypeOK ==
  /\ left \in [Orders -> 0 .. Shares]
  /\ closed \subseteq Orders
  /\ error \in [Orders -> Errors]
  /\ doc \in [Orders -> Order \cup {NoDoc}]
  /\ jobs \subseteq [id : 1 .. MaxPosts, order : Orders]
  /\ next \in 0 .. Len(log)
  /\ \A s \in saves : s.order \in Stored /\ s.id \in 1 .. next
  /\ seen \in [Ticks -> [Orders -> Order \cup {NoDoc}]]
  /\ \A t \in Ticks : visible[t] <= Len(log)
  /\ \A r \in Fills : fpc[r] # "idle" => fill[r].order \in Stored
  /\ \A c \in Cancels : cancel[c] # NoCancel => cancel[c].order \in Stored

\* An order that ended or is in error never stands again, whatever stale document
\* is written afterwards: checkOrder does write ACTIVE over a final state, but
\* only together with an error.  And an order that left the order book does not
\* come back to it, but for one that fills had used up: there a fill that read
\* the order before the others, or a late save of an event, writes what was left
\* of its own read (order.service.ts:147), and raced names these orders.
NeverReopened ==
  [][\A o \in Orders : o \in Stored =>
       /\ ~ Standing(o) => ~ Standing(o)'
       /\ ~ Open(o) /\ o \notin raced' => ~ Open(o)']_vars

\* Fill requests only hide shares: an order is never listed with more shares
\* than its handled events left, whatever fills, saves and cancels overlap; but
\* for the orders a stale read was written over.
ListedWithinEvents ==
  \A o \in Stored \ raced : doc[o].remainingShares <= doc[o].remainingSharesEvent

\* Nothing is under way for an order: no event, no save, no loss.
Quiet(o) ==
  /\ o \notin lost
  /\ \A i \in next + 1 .. Len(log) : log[i].order # o
  /\ \A s \in saves : s.order # o
  /\ \A t \in Ticks : tpc[t] \in {"OrderFilled", "OrderCanceled"} =>
       \A i \in todo[t] : log[i].order # o

\* Once its events are handled the stored remaining shares are the contract's,
\* in spite of fill requests and orders created while they are filled.
RemainingAgrees ==
  \A o \in Stored : Quiet(o) => doc[o].remainingSharesEvent = left[o]

\* ... and an order that was filled or cancelled on the contract is out of the
\* order book.
DeadOrdersRetired ==
  \A o \in Stored : Quiet(o) /\ (left[o] = 0 \/ o \in closed) => ~ Standing(o)

\* An order that was accepted is waiting, on its way, stored or turned down by
\* the contract, unless its job was removed and the order not created; no
\* overlap of ticks loses it otherwise.
AcceptedAccountedFor ==
  \A o \in accepted :
    \/ o \in Stored \cup refused \cup dropped
    \/ \E j \in jobs : j.order = o
    \/ \E t \in Ticks : tpc[t] = "create" /\ \E j \in todo[t] : j.order = o

\* The cron job retires an order that is dead on the contract even when its
\* event was lost.
DeadOrdersLeaveBook ==
  \A o \in Orders :
    (Standing(o) /\ (left[o] = 0 \/ o \in closed)) ~> ~ Standing(o)

Overstated(o) == Open(o) /\ doc[o].remainingShares > left[o]

\* An order listed with more shares than the contract has left, because the event
\* was lost or a fill wrote what was left of a stale read, does not stay so: the
\* cron job checks the order for the shares listed and takes it out.
OverstatedOrdersLeaveBook ==
  \A o \in Orders : Overstated(o) ~> ~ Overstated(o)

\* checkOrder can leave a dead order ACTIVE with an error, listed and counted
\* as the maker's; the cron job corrects it.
GhostsCorrected ==
  \A o \in Orders :
    (doc[o].state = "ACTIVE" /\ ~ Standing(o) /\ (left[o] = 0 \/ o \in closed))
      ~> (doc[o].state # "ACTIVE")
=============================================================================
