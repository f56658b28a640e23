----------------------------- MODULE DealService -----------------------------
(***************************************************************************)
(* DealService: a fill request stores a deal under the hash of its         *)
(* transaction, and OrderFilled confirms it and adds it to the volume and  *)
(* to the deals of the last day of its watch.                              *)
(*                                                                         *)
(* Requests and ticks interleave at every await.  The watch is saved by    *)
(* other writers too; assigning one of its arrays, every save is refused   *)
(* whose document was read before the last save of an array.  One watch;   *)
(* volumeTotal is how often the amount of each deal is in the sum.         *)
(***************************************************************************)
EXTENDS Integers, Sequences, FiniteSets

CONSTANTS
  Hashes,     \* transactions that fill an order
  Users,      \* takers
  Limit,      \* COUNT_DEALS_FOR_USER
  Day,        \* DAY_IN_SECONDS
  Ticks,      \* runs of the cron job that may be handling an event at once
  Requests,   \* fill requests in progress at once
  MaxTime,    \* bound: the clock
  MaxLosses   \* bound: events skipped, ticks and requests that fail, crashes

ASSUME DealAssumption ==
  /\ Limit \in Nat \ {0} /\ Day \in Nat \ {0}
  /\ MaxTime \in Nat /\ MaxLosses \in Nat
  /\ Ticks \cap Requests = {} /\ IsFiniteSet(Requests)

VARIABLES
  now,      \* the clock
  trade,    \* contract: taker and time of the trade of each transaction
  log,      \* OrderFilled events not taken yet, in order
  deal,     \* deals collection: taker, state and timestamp by transaction hash
  watch,    \* the watch: volumeTotal and deals24
  losses,   \* events skipped, failures and crashes so far
  request,  \* what each fill request is at
  tick,     \* what each run of the cron job is at
  missed,   \* history: hashes an event of which was cut short
  late      \* history: hashes whose deal was not there for their event

chain   == <<now, trade>>
history == <<missed, late>>
vars == <<chain, log, deal, watch, losses, request, tick, history>>

NoDeal == [taker |-> "none", state |-> "none", timestamp |-> -1]

NoTrade == [taker |-> "none", timestamp |-> -1]   \* not mined

Time(h) == trade[h].timestamp

Stored == {h \in Hashes : deal[h] # NoDeal}

Confirmed == {h \in Hashes : deal[h].state = "CONFIRMED"}

\* Deals of a taker that wait for their event.
OpenDeals(u) == {h \in Hashes : deal[h].taker = u /\ deal[h].state = "CREATED"}

None == [h \in Hashes |-> 0]

NoWatch == [volumeTotal |-> None, deals24 |-> None]

NoRequest == [pc |-> "idle", taker |-> "none", hash |-> "none"]

\* clean says that no array of the watch was saved since the tick read it.
NoTick == [pc |-> "idle", hash |-> "none", watch |-> NoWatch, clean |-> FALSE]

-----------------------------------------------------------------------------
Init ==
  /\ now = 0
  /\ trade = [h \in Hashes |-> NoTrade]
  /\ log = <<>>
  /\ deal = [h \in Hashes |-> NoDeal]
  /\ watch = NoWatch
  /\ losses = 0
  /\ request = [r \in Requests |-> NoRequest]
  /\ tick = [t \in Ticks |-> NoTick]
  /\ missed = {} /\ late = {}

CountLoss == losses < MaxLosses /\ losses' = losses + 1

-----------------------------------------------------------------------------
(* The contract. *)

ChainFill(h, u) ==
  /\ trade[h] = NoTrade
  /\ trade' = [trade EXCEPT ![h] = [taker |-> u, timestamp |-> now]]
  /\ log' = Append(log, h)
  /\ UNCHANGED <<now, deal, watch, losses, request, tick, history>>

Tock ==
  /\ now < MaxTime
  /\ now' = now + 1
  /\ UNCHANGED <<trade, log, deal, watch, losses, request, tick, history>>

-----------------------------------------------------------------------------
(* Fill requests. *)

\* Mutant of CanUserCreateDeal: one deal more.
CanUserCreateOneMore(u) == Cardinality(OpenDeals(u)) <= Limit

CanUserCreateDeal(u) == Cardinality(OpenDeals(u)) < Limit

\* The limit is checked, and the order looked up and checked after it.  The
\* hash is what the client says it is.
BeginRequest(r, u, h) ==
  /\ request[r] = NoRequest
  /\ CanUserCreateDeal(u)
  /\ request' = [request EXCEPT ![r] = [pc |-> "order", taker |-> u, hash |-> h]]
  /\ UNCHANGED <<chain, log, deal, watch, losses, tick, history>>

\* Every tick that has an event has looked for its deal, save those at "find".
Sought(h) ==
  /\ trade[h] # NoTrade
  /\ \A i \in DOMAIN log : log[i] # h
  /\ \A t \in Ticks : ~ (tick[t].pc = "find" /\ tick[t].hash = h)

\* createDealWithTxHash.
CreateDeal(r) ==
  /\ request[r] # NoRequest
  /\ LET h == request[r].hash IN
       /\ h \notin Stored
       /\ deal' = [deal EXCEPT ![h] = [taker |-> request[r].taker,
                                       state |-> "CREATED", timestamp |-> -1]]
       /\ late' = IF Sought(h) THEN late \cup {h} ELSE late
  /\ request' = [request EXCEPT ![r] = NoRequest]
  /\ UNCHANGED <<chain, log, watch, losses, tick, missed>>

\* The order is refused, the hash is there already, or a call throws.
RequestFails(r) ==
  /\ request[r] # NoRequest
  /\ request' = [request EXCEPT ![r] = NoRequest]
  /\ UNCHANGED <<chain, log, deal, watch, losses, tick, history>>

-----------------------------------------------------------------------------
(* updateDeal. *)

\* An event is handed over, once its order and shares are handled.
BeginEvent(t) ==
  /\ tick[t] = NoTick
  /\ log # <<>>
  /\ log' = Tail(log)
  /\ tick' = [tick EXCEPT ![t] = [NoTick EXCEPT !.pc = "find", !.hash = Head(log)]]
  /\ UNCHANGED <<chain, deal, watch, losses, request, history>>

\* ... or it is not, because the order is not stored or a handler before throws.
SkipEvent(t) ==
  /\ tick[t] = NoTick
  /\ log # <<>>
  /\ CountLoss
  /\ log' = Tail(log)
  /\ missed' = missed \cup {Head(log)}
  /\ UNCHANGED <<chain, deal, watch, request, tick, late>>

FindDeal(t) ==
  /\ tick[t].pc = "find"
  /\ tick' = [tick EXCEPT ![t] = IF tick[t].hash \in Stored
                                 THEN [@ EXCEPT !.pc = "update"] ELSE NoTick]
  /\ UNCHANGED <<chain, log, deal, watch, losses, request, history>>

\* Mutant of UpdateDeal: the deal keeps its state.
UpdateDealTime(t) ==
  /\ tick[t].pc = "update"
  /\ LET h == tick[t].hash IN
       deal' = [deal EXCEPT ![h].taker = trade[h].taker, ![h].timestamp = Time(h)]
  /\ tick' = [tick EXCEPT ![t].pc = "watch"]
  /\ UNCHANGED <<chain, log, watch, losses, request, history>>

UpdateDeal(t) ==
  /\ tick[t].pc = "update"
  /\ LET h == tick[t].hash IN
       deal' = [deal EXCEPT ![h] = [taker |-> trade[h].taker,
                                    state |-> "CONFIRMED", timestamp |-> Time(h)]]
  /\ tick' = [tick EXCEPT ![t].pc = "watch"]
  /\ UNCHANGED <<chain, log, watch, losses, request, history>>

WithDeal(deals24, h) ==
  [g \in Hashes |-> (IF Time(h) - Time(g) < Day THEN deals24[g] ELSE 0)
                      + (IF g = h THEN 1 ELSE 0)]

\* deals24 from the collection, when the watch has none.
FoundDeals(h) ==
  [g \in Hashes |-> IF deal[g].timestamp # -1
                       /\ deal[g].timestamp >= Time(h) - Day
                    THEN 1 ELSE 0]

\* findOne of the watch.
ReadWatch(t) ==
  /\ tick[t].pc = "watch"
  /\ LET h == tick[t].hash IN
       tick' = [tick EXCEPT
                  ![t].pc = IF watch.deals24 = None THEN "list" ELSE "save",
                  ![t].clean = TRUE,
                  ![t].watch =
                    [volumeTotal |-> watch.volumeTotal,
                     deals24 |-> IF watch.deals24 = None THEN None
                                 ELSE WithDeal(watch.deals24, h)]]
  /\ UNCHANGED <<chain, log, deal, watch, losses, request, history>>

ListDeals(t) ==
  /\ tick[t].pc = "list"
  /\ tick' = [tick EXCEPT ![t].pc = "save",
                          ![t].watch.deals24 = FoundDeals(tick[t].hash)]
  /\ UNCHANGED <<chain, log, deal, watch, losses, request, history>>

\* Every other tick that has read the watch has read an older version now.
Outdate(T) ==
  [t \in Ticks |-> [IF t \in T THEN NoTick ELSE tick[t] EXCEPT !.clean = FALSE]]

\* Mutant of SaveWatch: the version is not compared.
SaveWatchAnyway(t) ==
  /\ tick[t].pc = "save"
  /\ watch' = [tick[t].watch EXCEPT !.volumeTotal[tick[t].hash] = @ + 1]
  /\ tick' = Outdate({t})
  /\ UNCHANGED <<chain, log, deal, losses, request, history>>

SaveWatch(t) ==
  /\ tick[t].pc = "save"
  /\ tick[t].clean
  /\ watch' = [tick[t].watch EXCEPT !.volumeTotal[tick[t].hash] = @ + 1]
  /\ tick' = Outdate({t})
  /\ UNCHANGED <<chain, log, deal, losses, request, history>>

GiveUp(t) ==
  /\ missed' = missed \cup {tick[t].hash}
  /\ tick' = [tick EXCEPT ![t] = NoTick]
  /\ UNCHANGED <<chain, log, deal, watch, request, late>>

\* save throws a VersionError: the deal stays confirmed and uncounted.
StaleWatch(t) ==
  /\ tick[t].pc = "save"
  /\ ~ tick[t].clean
  /\ GiveUp(t)
  /\ UNCHANGED losses

\* Any call to the database throws.
TickFails(t) ==
  /\ tick[t].pc # "idle"
  /\ CountLoss
  /\ GiveUp(t)

\* addPrice24 saves the watch with its prices.
AddPrice24 ==
  /\ \E t \in Ticks : tick[t].clean
  /\ tick' = Outdate({})
  /\ UNCHANGED <<chain, log, deal, watch, losses, request, history>>

Crash ==
  /\ CountLoss
  /\ missed' = missed \cup {tick[t].hash : t \in {s \in Ticks : tick[s] # NoTick}}
  /\ tick' = [t \in Ticks |-> NoTick]
  /\ request' = [r \in Requests |-> NoRequest]
  /\ UNCHANGED <<chain, log, deal, watch, late>>

Next ==
  \/ \E h \in Hashes, u \in Users : ChainFill(h, u)
  \/ \E r \in Requests, u \in Users, h \in Hashes : BeginRequest(r, u, h)
  \/ \E r \in Requests : CreateDeal(r) \/ RequestFails(r)
  \/ \E t \in Ticks :
       \/ BeginEvent(t) \/ SkipEvent(t) \/ FindDeal(t) \/ UpdateDeal(t)
       \/ ReadWatch(t) \/ ListDeals(t) \/ SaveWatch(t) \/ StaleWatch(t)
       \/ TickFails(t)
  \/ Tock \/ AddPrice24 \/ Crash

Spec == Init /\ [][Next]_vars

-----------------------------------------------------------------------------
(* Properties. *)

\* Types; deals of the last day are confirmed deals.
TypeOK ==
  /\ trade \in [Hashes -> {NoTrade} \cup [taker : Users, timestamp : 0 .. now]]
  /\ \A h \in Hashes : deal[h].state \in {"none", "CREATED", "CONFIRMED"}
  /\ \A t \in Ticks : tick[t].pc \in {"idle", "find", "update", "watch", "list",
                                      "save"}
  /\ \A h \in Hashes : watch.deals24[h] > 0 => deal[h].state = "CONFIRMED"

\* The limit is checked long before the deal is stored, so concurrent requests
\* pass it together; it is exceeded by no more than those.
LimitNearlyKept ==
  \A u \in Users :
    Cardinality(OpenDeals(u)) <= Limit - 1 + Cardinality(Requests)

\* No tick works for the deal, and none was cut short.
Settled(h) == h \notin missed /\ \A t \in Ticks : tick[t].hash # h

\* volumeTotal has each confirmed deal once and no other, although ticks and
\* other writers save the same watch from documents read before: the version
\* of the watch's arrays protects the sum too.  A deal that is in the volume is
\* among the deals of the last day, unless a deal a day later is.
VolumeCounts ==
  \A h \in Hashes :
    /\ watch.volumeTotal[h] <= 1
    /\ Settled(h) => (watch.volumeTotal[h] = 1 <=> h \in Confirmed)
    /\ watch.volumeTotal[h] = 1 =>
         \/ watch.deals24[h] > 0
         \/ \E g \in Hashes : watch.volumeTotal[g] > 0 /\ Time(g) - Time(h) >= Day

\* A deal stays open, and counts against its taker's limit, after its event
\* only when it was stored too late for it or the event was cut short.
OpenOnlyIfLate ==
  \A h \in Stored \ Confirmed :
    Sought(h) /\ Settled(h) => h \in late
=============================================================================
