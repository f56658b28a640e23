-------------------------- MODULE DealServiceProofs --------------------------
(***************************************************************************)
(* Proofs about DealService, for every set of transactions, takers, ticks  *)
(* and requests, whatever the limits, failures and crashes.                *)
(***************************************************************************)
EXTENDS DealService, FiniteSetTheorems, TLAPS

-----------------------------------------------------------------------------
(* The inductive invariant. *)

Deals == [taker : Users \cup {"none"}, state : {"none", "CREATED", "CONFIRMED"},
          timestamp : Nat \cup {-1}]
Counts == [Hashes -> Nat]
Watches == [volumeTotal : Counts, deals24 : Counts]
Pcs == {"idle", "find", "update", "watch", "list", "save"}
TickRecords == [pc : Pcs, hash : Hashes \cup {"none"}, watch : Watches, clean : BOOLEAN]
Waiting == [pc : {"order"}, taker : Users, hash : Hashes]

Busy(t) == tick[t].pc # "idle"

ChainOK ==
  /\ now \in Nat
  /\ trade \in [Hashes -> {NoTrade} \cup [taker : Users, timestamp : 0 .. now]]
  /\ log \in Seq(Hashes)

StoreOK ==
  /\ deal \in [Hashes -> Deals]
  /\ watch \in Watches

WorkersOK ==
  /\ request \in [Requests -> {NoRequest} \cup Waiting]
  /\ tick \in [Ticks -> TickRecords]
  /\ \A t \in Ticks : IF Busy(t) THEN tick[t].hash \in Hashes ELSE tick[t] = NoTick

Shapes == ChainOK /\ StoreOK /\ WorkersOK

InLog(h) == \E i \in 1 .. Len(log) : log[i] = h

\* An event of a mined trade is in the log or with one tick or with none.
Placed ==
  /\ \A i, j \in 1 .. Len(log) : log[i] = log[j] => i = j
  /\ \A h \in Hashes : InLog(h) => trade[h] # NoTrade
  /\ \A t \in Ticks : Busy(t) => trade[tick[t].hash] # NoTrade /\ ~ InLog(tick[t].hash)
  /\ \A t, s \in Ticks : Busy(t) /\ Busy(s) /\ tick[t].hash = tick[s].hash => t = s

\* A deal is confirmed with the time of its trade, by the tick that has its event.
Confirmations ==
  /\ \A h \in Hashes :
       IF h \in Confirmed
       THEN trade[h] # NoTrade /\ ~ InLog(h) /\ deal[h].timestamp = Time(h)
       ELSE deal[h].timestamp = -1
  /\ \A t \in Ticks : Busy(t) =>
       (tick[t].hash \in Confirmed <=> tick[t].pc \in {"watch", "list", "save"})

Free(h) == \A t \in Ticks : Busy(t) => tick[t].hash # h

\* The sum has the confirmed deals no tick is at; and what a tick has read of it
\* is the sum while no array of the watch was saved since.
Volume ==
  /\ \A h \in Hashes :
       /\ watch.volumeTotal[h] \in {0, 1}
       /\ watch.volumeTotal[h] = 1 => h \in Confirmed /\ Free(h)
       /\ h \in Confirmed /\ Free(h) /\ h \notin missed => watch.volumeTotal[h] = 1
  /\ \A t \in Ticks : tick[t].clean => tick[t].watch.volumeTotal = watch.volumeTotal

Overtaken(h) ==
  \E g \in Hashes : watch.volumeTotal[g] > 0 /\ Time(g) - Time(h) >= Day

\* The deals of the last day are confirmed; a tick that is about to save them
\* drops none that is in the sum, but for a deal a day later.
LastDay ==
  /\ \A h \in Hashes :
       /\ watch.deals24[h] > 0 => h \in Confirmed
       /\ \A t \in Ticks : tick[t].watch.deals24[h] > 0 => h \in Confirmed
       /\ watch.volumeTotal[h] = 1 => watch.deals24[h] > 0 \/ Overtaken(h)
  /\ watch.deals24 = None => watch.volumeTotal = None
  /\ \A t \in Ticks : tick[t].clean /\ tick[t].pc = "list" => watch.deals24 = None
  /\ \A t \in Ticks : tick[t].clean /\ tick[t].pc = "save" =>
       /\ tick[t].watch.deals24[tick[t].hash] > 0
       /\ \A h \in Hashes : watch.volumeTotal[h] = 1 =>
            \/ tick[t].watch.deals24[h] > 0
            \/ Time(tick[t].hash) - Time(h) >= Day
            \/ Overtaken(h)

\* A deal whose event has gone by is open only when it came too late.
Lateness ==
  \A h \in Stored \ Confirmed : Sought(h) /\ Free(h) /\ h \notin missed => h \in late

DealInv == Shapes /\ Placed /\ Confirmations /\ Volume /\ LastDay /\ Lateness

-----------------------------------------------------------------------------
(* Lemmas about the operators. *)

LEMMA EmptyTypes ==
  /\ None \in Counts /\ NoWatch \in Watches /\ NoTick \in TickRecords
  /\ NoDeal \in Deals /\ NoDeal.state = "none" /\ NoTick.pc = "idle"
  /\ NoTick.watch = NoWatch /\ NoWatch.deals24 = None /\ NoWatch.volumeTotal = None
  /\ \A h \in Hashes : None[h] = 0
BY DEF None, Counts, NoWatch, Watches, NoTick, TickRecords, Pcs, NoDeal, Deals

\* What a list of deals gains and loses by a deal.
LEMMA WithDealCounts ==
  ASSUME ChainOK, NEW d \in Counts, NEW h \in Hashes, trade[h] # NoTrade
  PROVE  /\ WithDeal(d, h) \in Counts
         /\ WithDeal(d, h)[h] > 0
         /\ \A g \in Hashes : WithDeal(d, h)[g] > 0 => d[g] > 0 \/ g = h
         /\ \A g \in Hashes : d[g] > 0 =>
              WithDeal(d, h)[g] > 0 \/ Time(h) - Time(g) >= Day
<1>1. /\ \A g \in Hashes : Time(g) \in Int /\ d[g] \in Nat
      /\ Day \in Nat
  BY DealAssumption DEF ChainOK, NoTrade, Time, Counts
<1>2. \A g \in Hashes : WithDeal(d, h)[g] = (IF Time(h) - Time(g) < Day THEN d[g] ELSE 0)
                                             + (IF g = h THEN 1 ELSE 0)
  BY DEF WithDeal
<1>3. WithDeal(d, h) = [g \in Hashes |-> WithDeal(d, h)[g]]
  BY DEF WithDeal
<1>4. \A g \in Hashes : WithDeal(d, h)[g] \in Nat
  BY <1>1, <1>2
<1> QED
  BY <1>1, <1>2, <1>3, <1>4 DEF Counts

LEMMA FoundDealsCounts ==
  ASSUME ChainOK, StoreOK, Confirmations, NEW h \in Hashes, h \in Confirmed
  PROVE  /\ FoundDeals(h) \in Counts
         /\ FoundDeals(h)[h] > 0
         /\ \A g \in Hashes : FoundDeals(h)[g] > 0 => g \in Confirmed
<1>1. deal[h].timestamp = Time(h) /\ Time(h) \in Nat /\ Day \in Nat
  BY DealAssumption DEF ChainOK, NoTrade, Time, Confirmations
<1>2. \A g \in Hashes : FoundDeals(h)[g] = IF deal[g].timestamp # -1
                                             /\ deal[g].timestamp >= Time(h) - Day
                                           THEN 1 ELSE 0
  BY DEF FoundDeals
<1>3. FoundDeals(h) \in Counts
  BY DEF FoundDeals, Counts
<1>4. FoundDeals(h)[h] > 0
  BY <1>1, <1>2
<1>5. \A g \in Hashes : FoundDeals(h)[g] > 0 => g \in Confirmed
  BY <1>2 DEF Confirmations
<1> QED
  BY <1>3, <1>4, <1>5

\* Taking an event off the log.
LEMMA TakesHead ==
  ASSUME Shapes, Placed, log # <<>>, log' = Tail(log)
  PROVE  /\ Head(log) \in Hashes /\ log' \in Seq(Hashes) /\ InLog(Head(log))
         /\ \A h : InLog(h)' <=> InLog(h) /\ h # Head(log)
         /\ \A i, j \in 1 .. Len(log') : log'[i] = log'[j] => i = j
<1>1. log \in Seq(Hashes) /\ Len(log) \in Nat /\ Len(log) > 0
  BY DEF Shapes, ChainOK
<1>2. /\ log' \in Seq(Hashes) /\ Len(log') = Len(log) - 1 /\ Head(log) = log[1]
      /\ \A i \in 1 .. Len(log') : log'[i] = log[i + 1]
  BY <1>1
<1>3. Head(log) \in Hashes /\ InLog(Head(log))
  BY <1>1, <1>2 DEF InLog
<1>4. \A i, j \in 1 .. Len(log') : log'[i] = log'[j] => i = j
  BY <1>1, <1>2 DEF Placed
<1>5. ASSUME NEW h, InLog(h)' PROVE InLog(h) /\ h # Head(log)
  <2>1. PICK i \in 1 .. Len(log') : log'[i] = h
    BY <1>5 DEF InLog
  <2>2. i + 1 \in 1 .. Len(log) /\ i + 1 # 1 /\ log[i + 1] = h
    BY <1>1, <1>2, <2>1
  <2> QED
    BY <1>1, <1>2, <2>2 DEF InLog, Placed
<1>6. ASSUME NEW h, InLog(h), h # Head(log) PROVE InLog(h)'
  <2>1. PICK i \in 1 .. Len(log) : log[i] = h
    BY <1>6 DEF InLog
  <2>2. i - 1 \in 1 .. Len(log') /\ log'[i - 1] = h
    BY <1>1, <1>2, <1>6, <2>1
  <2> QED
    BY <2>2 DEF InLog
<1> QED
  BY <1>2, <1>3, <1>4, <1>5, <1>6

\* Putting one on it.
LEMMA PutsLast ==
  ASSUME Shapes, Placed, NEW h \in Hashes, ~ InLog(h), log' = Append(log, h)
  PROVE  /\ log' \in Seq(Hashes)
         /\ \A g : InLog(g)' <=> InLog(g) \/ g = h
         /\ \A i, j \in 1 .. Len(log') : log'[i] = log'[j] => i = j
<1>1. log \in Seq(Hashes) /\ Len(log) \in Nat
  BY DEF Shapes, ChainOK
<1>2. /\ log' \in Seq(Hashes) /\ Len(log') = Len(log) + 1 /\ log'[Len(log) + 1] = h
      /\ \A i \in 1 .. Len(log) : log'[i] = log[i]
  BY <1>1
<1>3. ASSUME NEW i \in 1 .. Len(log'), NEW j \in 1 .. Len(log'), log'[i] = log'[j]
      PROVE  i = j
  BY <1>1, <1>2, <1>3 DEF InLog, Placed
<1>4. ASSUME NEW g, InLog(g) \/ g = h PROVE InLog(g)'
  BY <1>1, <1>2, <1>4 DEF InLog
<1>5. ASSUME NEW g, InLog(g)' PROVE InLog(g) \/ g = h
  BY <1>1, <1>2, <1>5 DEF InLog
<1> QED
  BY <1>2, <1>3, <1>4, <1>5

LEMMA DealInit == Init => DealInv
<1> SUFFICES ASSUME Init PROVE DealInv
  OBVIOUS
<1> USE DEF Init
<1>1. Shapes
  BY EmptyTypes DEF Shapes, ChainOK, StoreOK, WorkersOK, Busy
<1>2. Len(log) = 0
  OBVIOUS
<1>3. Stored = {} /\ Confirmed = {}
  BY EmptyTypes DEF Stored, Confirmed
<1>4. Placed
  BY <1>2, EmptyTypes DEF Placed, InLog, Busy
<1>5. Confirmations
  BY <1>3, EmptyTypes DEF Confirmations, Busy, NoDeal
<1>6. Volume
  BY <1>3, EmptyTypes DEF Volume, NoTick
<1>7. LastDay
  BY <1>3, EmptyTypes DEF LastDay, NoTick
<1> QED
  BY <1>1, <1>3, <1>4, <1>5, <1>6, <1>7 DEF DealInv, Lateness

-----------------------------------------------------------------------------
(* Steps. *)

LEMMA SoughtInLog ==
  /\ \A h : Sought(h) <=> /\ trade[h] # NoTrade /\ ~ InLog(h)
                          /\ \A t \in Ticks : ~ (tick[t].pc = "find" /\ tick[t].hash = h)
  /\ \A h : Sought(h)' <=>
       /\ trade'[h] # NoTrade /\ ~ InLog(h)'
       /\ \A t \in Ticks : ~ (tick'[t].pc = "find" /\ tick'[t].hash = h)
BY DEF Sought, InLog

\* Ticks that go on as they were, perhaps with a watch that is older now, or end
\* and leave their event cut short.
LEMMA TicksEnd ==
  ASSUME DealInv, UNCHANGED <<chain, log, deal, watch, late>>, missed \subseteq missed',
         WorkersOK',
         \A t \in Ticks : Busy(t)' =>
           /\ Busy(t) /\ tick'[t].pc = tick[t].pc /\ tick'[t].hash = tick[t].hash
           /\ tick'[t].watch = tick[t].watch /\ (tick'[t].clean => tick[t].clean),
         \A t \in Ticks : Busy(t) /\ ~ Busy(t)' => tick[t].hash \in missed'
  PROVE  DealInv'
<1> USE DEF DealInv, chain
<1>1. Shapes'
  BY DEF Shapes, ChainOK, StoreOK
<1>2. /\ Confirmed' = Confirmed /\ Stored' = Stored
      /\ \A h : (InLog(h)' <=> InLog(h)) /\ Time(h)' = Time(h)
      /\ \A t \in Ticks : ~ Busy(t)' => tick'[t] = NoTick
  BY <1>1 DEF Confirmed, Stored, InLog, Time, Shapes, WorkersOK
<1>3. Placed'
  BY <1>2 DEF Placed
<1>4. Confirmations'
  BY <1>2 DEF Confirmations
<1>5. \A h \in Hashes : /\ Free(h) => Free(h)'
                        /\ Free(h)' => Free(h) \/ h \in missed'
  BY DEF Free
<1>6. Volume'
  <2>1. \A t \in Ticks : tick'[t].clean => tick'[t].watch.volumeTotal = watch.volumeTotal
    BY <1>2, EmptyTypes DEF Volume, NoTick
  <2> QED
    BY <1>2, <1>5, <2>1 DEF Volume
<1>7. LastDay'
  <2>1. \A h \in Hashes, t \in Ticks : tick'[t].watch.deals24[h] > 0 => h \in Confirmed
    BY <1>2, EmptyTypes DEF LastDay
  <2>2. \A t \in Ticks : tick'[t].clean => Busy(t)'
    BY <1>2 DEF NoTick
  <2>3. \A h : Overtaken(h)' <=> Overtaken(h)
    BY <1>2 DEF Overtaken
  <2> QED
    BY <1>2, <2>1, <2>2, <2>3 DEF LastDay
<1>8. Lateness'
  <2>1. \A h \in Hashes : Sought(h)' /\ Free(h)' /\ h \notin missed' => Sought(h)
    BY <1>2, SoughtInLog DEF Free, Busy
  <2> QED
    BY <1>2, <1>5, <2>1 DEF Lateness, Stored
<1> QED
  BY <1>1, <1>3, <1>4, <1>6, <1>7, <1>8

\* One tick moves.
LEMMA TickSets ==
  ASSUME WorkersOK, NEW t \in Ticks, NEW x \in TickRecords,
         IF x.pc # "idle" THEN x.hash \in Hashes ELSE x = NoTick,
         tick' = [tick EXCEPT ![t] = x], request' = request
  PROVE  /\ WorkersOK' /\ tick'[t] = x
         /\ \A m \in Ticks : m # t => tick'[m] = tick[m]
<1>1. tick'[t] = x /\ \A m \in Ticks : m # t => tick'[m] = tick[m]
  BY DEF WorkersOK
<1>2. tick' \in [Ticks -> TickRecords]
  BY DEF WorkersOK
<1>3. \A m \in Ticks : IF Busy(m)' THEN tick'[m].hash \in Hashes ELSE tick'[m] = NoTick
  BY <1>1 DEF WorkersOK, Busy
<1> QED
  BY <1>1, <1>2, <1>3 DEF WorkersOK

\* All ticks but those of T go on with an older watch.
LEMMA OutdateSets ==
  ASSUME WorkersOK, NEW T, tick' = Outdate(T), request' = request
  PROVE  /\ WorkersOK'
         /\ \A t \in Ticks : IF t \in T THEN tick'[t] = NoTick
                            ELSE /\ tick'[t].pc = tick[t].pc
                                 /\ tick'[t].hash = tick[t].hash
                                 /\ tick'[t].watch = tick[t].watch
         /\ \A t \in Ticks : ~ tick'[t].clean
<1>1. \A t \in Ticks : tick[t] \in TickRecords
  BY DEF WorkersOK
<1>2. tick' = [t \in Ticks |-> [IF t \in T THEN NoTick ELSE tick[t]
                               EXCEPT !.clean = FALSE]]
  BY DEF Outdate
<1>3. \A t \in Ticks : tick'[t] = [IF t \in T THEN NoTick ELSE tick[t]
                                 EXCEPT !.clean = FALSE]
  BY <1>2
<1>4. [NoTick EXCEPT !.clean = FALSE] = NoTick
  <2>1. \A x \in TickRecords : ~ x.clean => [x EXCEPT !.clean = FALSE] = x
    BY DEF TickRecords
  <2>2. NoTick \in TickRecords /\ ~ NoTick.clean
    BY EmptyTypes DEF NoTick
  <2> QED
    BY <2>1, <2>2
<1>5. \A x \in TickRecords :
        LET y == [x EXCEPT !.clean = FALSE]
        IN  y \in TickRecords /\ y.pc = x.pc /\ y.hash = x.hash /\ y.watch = x.watch
              /\ ~ y.clean
  BY DEF TickRecords
<1>6. ASSUME NEW t \in Ticks
      PROVE  IF t \in T THEN tick'[t] = NoTick
             ELSE /\ tick'[t] \in TickRecords
                  /\ tick'[t].pc = tick[t].pc
                  /\ tick'[t].hash = tick[t].hash
                  /\ tick'[t].watch = tick[t].watch
                  /\ ~ tick'[t].clean
  <2>1. CASE t \in T
    BY <1>3, <1>4, <2>1
  <2>2. CASE t \notin T
    <3>1. tick'[t] = [tick[t] EXCEPT !.clean = FALSE]
      BY <1>3, <2>2
    <3> QED
      BY <1>1, <1>5, <2>2, <3>1
  <2> QED
    BY <2>1, <2>2
<1>7. tick' \in [Ticks -> TickRecords]
  <2>1. \A t \in Ticks : tick'[t] \in TickRecords
    BY <1>6, EmptyTypes
  <2> QED
    BY <1>2, <2>1
<1>8. \A t \in Ticks : IF Busy(t)' THEN tick'[t].hash \in Hashes ELSE tick'[t] = NoTick
  BY <1>3, <1>4, <1>6, EmptyTypes DEF WorkersOK, Busy
<1> QED
  BY <1>6, <1>7, <1>8 DEF WorkersOK, NoTick

LEMMA EndsKeep ==
  ASSUME DealInv, NEW t \in Ticks, StaleWatch(t) \/ TickFails(t)
  PROVE  DealInv'
<1>1. GiveUp(t) /\ request' = request /\ WorkersOK /\ Busy(t)
  BY DEF StaleWatch, TickFails, GiveUp, DealInv, Shapes, Busy
<1>2. WorkersOK' /\ tick'[t] = NoTick /\ \A m \in Ticks : m # t => tick'[m] = tick[m]
  BY <1>1, TickSets, EmptyTypes DEF GiveUp
<1>3. tick[t].hash \in missed' /\ missed \subseteq missed'
  BY <1>1 DEF GiveUp
<1> QED
  BY <1>1, <1>2, <1>3, TicksEnd, EmptyTypes DEF GiveUp, Busy

LEMMA AddPrice24Keeps ==
  ASSUME DealInv, AddPrice24
  PROVE  DealInv'
<1>1. WorkersOK /\ request' = request /\ tick' = Outdate({})
  BY DEF DealInv, Shapes, AddPrice24
<1> QED
  BY <1>1, OutdateSets, TicksEnd DEF AddPrice24, Busy, history

LEMMA CrashKeeps ==
  ASSUME DealInv, Crash
  PROVE  DealInv'
<1>1. /\ request' = [r \in Requests |-> NoRequest]
      /\ tick' = [t \in Ticks |-> NoTick] /\ missed \subseteq missed'
      /\ \A t \in Ticks : tick[t] # NoTick => tick[t].hash \in missed'
  BY DEF Crash
<1>2. WorkersOK'
  BY <1>1, EmptyTypes DEF WorkersOK, Busy
<1> QED
  BY <1>1, <1>2, TicksEnd, EmptyTypes DEF Crash, Busy

LEMMA RequestsKeep ==
  ASSUME DealInv, NEW r \in Requests,
         RequestFails(r) \/ \E u \in Users, h \in Hashes : BeginRequest(r, u, h)
  PROVE  DealInv'
<1>1. /\ tick' = tick /\ request' \in [Requests -> {NoRequest} \cup Waiting]
      /\ WorkersOK
  BY DEF RequestFails, BeginRequest, DealInv, Shapes, WorkersOK, Waiting
<1>2. WorkersOK'
  BY <1>1 DEF WorkersOK, Busy
<1> QED
  BY <1>1, <1>2, TicksEnd DEF RequestFails, BeginRequest, Busy, history

LEMMA TockKeeps ==
  ASSUME DealInv, Tock
  PROVE  DealInv'
<1> USE DEF DealInv
<1>1. /\ UNCHANGED <<trade, log, deal, watch, request, tick, history>>
      /\ now' = now + 1
  BY DEF Tock
<1>2. Shapes'
  <2>1. ChainOK'
    BY <1>1 DEF Shapes, ChainOK
  <2> QED
    BY <1>1, <2>1 DEF Shapes, StoreOK, WorkersOK, Busy
<1>3. Placed' /\ Confirmations' /\ Volume' /\ LastDay' /\ Lateness'
  BY <1>1
  DEF Placed, Confirmations, Volume, LastDay, Lateness, InLog, Busy, Confirmed, Stored,
      Time, Free, Overtaken, Sought, history
<1> QED
  BY <1>2, <1>3

LEMMA ChainFillKeeps ==
  ASSUME DealInv, NEW h \in Hashes, NEW u \in Users, ChainFill(h, u)
  PROVE  DealInv'
<1> USE DEF DealInv
<1>1. /\ UNCHANGED <<now, deal, watch, request, tick, history>>
      /\ trade[h] = NoTrade /\ log' = Append(log, h)
      /\ trade' = [trade EXCEPT ![h] = [taker |-> u, timestamp |-> now]]
  BY DEF ChainFill
<1>2. ~ InLog(h)
  BY <1>1 DEF Placed
<1>3. /\ log' \in Seq(Hashes) /\ \A g : InLog(g)' <=> InLog(g) \/ g = h
      /\ \A i, j \in 1 .. Len(log') : log'[i] = log'[j] => i = j
  BY <1>1, <1>2, PutsLast
<1>4. /\ trade'[h] # NoTrade /\ \A g \in Hashes \ {h} : trade'[g] = trade[g]
      /\ ChainOK'
  <2>1. now \in Nat /\ trade \in [Hashes -> {NoTrade} \cup [taker : Users, timestamp : 0 .. now]]
    BY DEF Shapes, ChainOK
  <2>2. [taker |-> u, timestamp |-> now] \in [taker : Users, timestamp : 0 .. now]
    BY <2>1
  <2>3. [taker |-> u, timestamp |-> now] # NoTrade
    BY <2>1 DEF NoTrade
  <2> QED
    BY <1>1, <1>3, <2>1, <2>2, <2>3 DEF ChainOK
<1>5. Shapes'
  BY <1>1, <1>4 DEF Shapes, StoreOK, WorkersOK, Busy
<1>6. \A t \in Ticks : Busy(t) => tick[t].hash # h
  BY <1>1 DEF Placed
<1>7. h \notin Confirmed
  BY <1>1 DEF Confirmations
<1>8. Placed'
  BY <1>1, <1>3, <1>4, <1>6 DEF Placed, Busy, Shapes, WorkersOK
<1>9. Confirmations'
  BY <1>1, <1>3, <1>4, <1>7 DEF Confirmations, Busy, Confirmed, Time
<1>10. Volume'
  BY <1>1 DEF Volume, Free, Busy, Confirmed, history
<1>11. LastDay'
  <2>1. \A g \in Hashes : watch.volumeTotal[g] > 0 => g # h /\ Time(g)' = Time(g)
    BY <1>4, <1>7 DEF Volume, Time
  <2>2. ASSUME NEW g \in Hashes, watch.volumeTotal[g] = 1, Overtaken(g) PROVE Overtaken(g)'
    BY <1>1, <2>1, <2>2 DEF Overtaken
  <2>3. \A t \in Ticks : tick[t].clean /\ tick[t].pc = "save" =>
          Time(tick[t].hash)' = Time(tick[t].hash)
    BY <1>1, <1>4, <1>6 DEF Busy, Time, Shapes, WorkersOK
  <2> QED
    BY <1>1, <2>1, <2>2, <2>3 DEF LastDay, Confirmed
<1>12. Lateness'
  <2>1. \A g \in Hashes : Sought(g)' => Sought(g)
    BY <1>1, <1>3, <1>4, SoughtInLog
  <2> QED
    BY <1>1, <2>1 DEF Lateness, Stored, Confirmed, Free, Busy, history
<1> QED
  BY <1>5, <1>8, <1>9, <1>10, <1>11, <1>12

LEMMA CreateDealKeeps ==
  ASSUME DealInv, NEW r \in Requests, CreateDeal(r)
  PROVE  DealInv'
<1> USE DEF DealInv
<1> DEFINE h == request[r].hash
           d == [taker |-> request[r].taker, state |-> "CREATED", timestamp |-> -1]
<1>1. /\ UNCHANGED <<chain, log, watch, tick, missed>>
      /\ h \notin Stored /\ deal' = [deal EXCEPT ![h] = d]
      /\ late' = IF Sought(h) THEN late \cup {h} ELSE late
      /\ request' = [request EXCEPT ![r] = NoRequest] /\ request[r] # NoRequest
  BY DEF CreateDeal
<1>2. request[r] \in Waiting /\ h \in Hashes /\ d \in Deals
  BY <1>1 DEF Shapes, WorkersOK, Waiting, Deals
<1>3. deal'[h] = d /\ d.state = "CREATED" /\ d.timestamp = -1
      /\ \A g \in Hashes \ {h} : deal'[g] = deal[g]
  BY <1>1, <1>2 DEF Shapes, StoreOK
<1> HIDE DEF d, h
<1>4. h \notin Confirmed /\ d # NoDeal
  BY <1>1, <1>3 DEF Stored, Confirmed, NoDeal
<1>5. Confirmed' = Confirmed /\ Stored' = Stored \cup {h}
  BY <1>2, <1>3, <1>4 DEF Confirmed, Stored
<1>6. Shapes'
  BY <1>1, <1>2 DEF Shapes, ChainOK, StoreOK, WorkersOK, Busy, chain
<1>7. Placed' /\ Volume'
  BY <1>1, <1>5 DEF Placed, Volume, InLog, Busy, Free, chain
<1>8. Confirmations'
  <2>1. \A g \in Hashes : deal'[g].timestamp = IF g = h THEN -1 ELSE deal[g].timestamp
    BY <1>3
  <2> QED
    BY <1>1, <1>4, <1>5, <2>1 DEF Confirmations, InLog, Busy, Time, chain
<1>9. LastDay'
  BY <1>1, <1>5 DEF LastDay, Overtaken, Time, chain
<1>10. Lateness'
  BY <1>1, <1>5 DEF Lateness, Sought, Free, Busy, chain
<1> QED
  BY <1>6, <1>7, <1>8, <1>9, <1>10

\* A tick moves on with the same event and the watch it had.
LEMMA PcMoves ==
  ASSUME DealInv, NEW t \in Ticks, Busy(t), NEW pc \in {"update", "watch"},
         tick' = [tick EXCEPT ![t] = [tick[t] EXCEPT !.pc = pc]], request' = request
  PROVE  /\ WorkersOK'
         /\ tick'[t].pc = pc /\ tick'[t].hash = tick[t].hash
         /\ tick'[t].watch = tick[t].watch /\ tick'[t].clean = tick[t].clean
         /\ \A m \in Ticks : m # t => tick'[m] = tick[m]
<1>1. WorkersOK /\ tick[t] \in TickRecords /\ tick[t].hash \in Hashes
  BY DEF DealInv, Shapes, WorkersOK
<1>2. \A x \in TickRecords :
        LET y == [x EXCEPT !.pc = pc]
        IN  y \in TickRecords /\ y.pc = pc /\ y.hash = x.hash /\ y.watch = x.watch
              /\ y.clean = x.clean
  BY DEF TickRecords, Pcs
<1>3. PICK y \in TickRecords :
        /\ tick' = [tick EXCEPT ![t] = y]
        /\ y.pc = pc /\ y.hash = tick[t].hash /\ y.watch = tick[t].watch
        /\ y.clean = tick[t].clean
  BY <1>1, <1>2
<1> QED
  BY <1>1, <1>3, TickSets

LEMMA BeginEventKeeps ==
  ASSUME DealInv, NEW t \in Ticks, BeginEvent(t)
  PROVE  DealInv'
<1> USE DEF DealInv
<1> DEFINE h == Head(log)
           x == [NoTick EXCEPT !.pc = "find", !.hash = h]
<1>1. /\ UNCHANGED <<chain, deal, watch, request, history>>
      /\ tick[t] = NoTick /\ log # <<>> /\ log' = Tail(log)
      /\ tick' = [tick EXCEPT ![t] = x]
  BY DEF BeginEvent
<1>2. /\ h \in Hashes /\ log' \in Seq(Hashes) /\ InLog(h)
      /\ \A g : InLog(g)' <=> InLog(g) /\ g # h
      /\ \A i, j \in 1 .. Len(log') : log'[i] = log'[j] => i = j
  BY <1>1, TakesHead
<1> HIDE DEF h
<1>3. \A y \in TickRecords :
        LET z == [y EXCEPT !.pc = "find", !.hash = h]
        IN  z \in TickRecords /\ z.pc = "find" /\ z.hash = h /\ z.watch = y.watch
              /\ z.clean = y.clean
  BY <1>2 DEF TickRecords, Pcs
<1>4. /\ x \in TickRecords /\ x.pc = "find" /\ x.hash = h /\ ~ x.clean
      /\ \A g \in Hashes : x.watch.deals24[g] = 0
  <2>1. NoTick \in TickRecords /\ ~ NoTick.clean
    BY EmptyTypes DEF NoTick
  <2>2. /\ x \in TickRecords /\ x.pc = "find" /\ x.hash = h
        /\ x.watch = NoTick.watch /\ x.clean = NoTick.clean
    BY <1>3, <2>1
  <2> QED
    BY <2>1, <2>2, EmptyTypes
<1> HIDE DEF x
<1>5. /\ WorkersOK' /\ tick'[t] = x
      /\ \A m \in Ticks : m # t => tick'[m] = tick[m]
  BY <1>1, <1>2, <1>4, TickSets DEF Shapes
<1>6. Confirmed' = Confirmed /\ Stored' = Stored /\ \A g : Time(g)' = Time(g)
  BY <1>1 DEF Confirmed, Stored, Time, chain
<1>7. ~ Busy(t) /\ trade[h] # NoTrade /\ h \notin Confirmed /\ Free(h)
  BY <1>1, <1>2, EmptyTypes DEF Placed, Confirmations, Busy, Free
<1>8. \A g : Free(g)' <=> Free(g) /\ g # h
  BY <1>4, <1>5, <1>7 DEF Free, Busy
<1>9. Shapes'
  BY <1>1, <1>2, <1>5 DEF Shapes, ChainOK, StoreOK, chain
<1>10. Placed'
  BY <1>1, <1>2, <1>4, <1>5, <1>7 DEF Placed, Busy, Free, chain
<1>11. Confirmations'
  BY <1>1, <1>2, <1>4, <1>5, <1>6, <1>7 DEF Confirmations, Busy, chain
<1>12. Volume'
  BY <1>1, <1>4, <1>5, <1>6, <1>7, <1>8 DEF Volume, history
<1>13. LastDay'
  <2>1. \A g : Overtaken(g)' <=> Overtaken(g)
    BY <1>1, <1>6 DEF Overtaken
  <2>2. \A m \in Ticks : tick'[m].clean => m # t /\ Time(tick[m].hash)' = Time(tick[m].hash)
    BY <1>4, <1>5, <1>6 DEF Time
  <2> QED
    BY <1>1, <1>4, <1>5, <1>6, <2>1, <2>2 DEF LastDay
<1>14. Lateness'
  <2>1. \A g \in Hashes : Sought(g)' => Sought(g)
    BY <1>1, <1>2, <1>4, <1>5, <1>7, SoughtInLog DEF chain, Busy
  <2> QED
    BY <1>1, <1>6, <1>8, <2>1 DEF Lateness, Stored, history
<1> QED
  BY <1>9, <1>10, <1>11, <1>12, <1>13, <1>14

LEMMA SkipEventKeeps ==
  ASSUME DealInv, NEW t \in Ticks, SkipEvent(t)
  PROVE  DealInv'
<1> USE DEF DealInv
<1> DEFINE h == Head(log)
<1>1. /\ UNCHANGED <<chain, deal, watch, request, tick, late>>
      /\ log # <<>> /\ log' = Tail(log) /\ missed' = missed \cup {h}
  BY DEF SkipEvent
<1>2. /\ h \in Hashes /\ log' \in Seq(Hashes) /\ InLog(h)
      /\ \A g : InLog(g)' <=> InLog(g) /\ g # h
      /\ \A i, j \in 1 .. Len(log') : log'[i] = log'[j] => i = j
  BY <1>1, TakesHead
<1> HIDE DEF h
<1>3. Shapes'
  BY <1>1, <1>2 DEF Shapes, ChainOK, StoreOK, WorkersOK, Busy, chain
<1>4. Placed' /\ Confirmations'
  BY <1>1, <1>2 DEF Placed, Confirmations, Busy, Confirmed, Time, chain
<1>5. Volume' /\ LastDay'
  BY <1>1 DEF Volume, LastDay, Confirmed, Free, Busy, Overtaken, Time, chain
<1>6. Lateness'
  <2>1. \A g \in Hashes : Sought(g)' => Sought(g) \/ g = h
    BY <1>1, <1>2, SoughtInLog DEF chain
  <2> QED
    BY <1>1, <2>1 DEF Lateness, Stored, Confirmed, Free, Busy
<1> QED
  BY <1>3, <1>4, <1>5, <1>6

LEMMA FindDealKeeps ==
  ASSUME DealInv, NEW t \in Ticks, FindDeal(t)
  PROVE  DealInv'
<1> USE DEF DealInv
<1> DEFINE h == tick[t].hash
<1>1. /\ UNCHANGED <<chain, log, deal, watch, request, history>>
      /\ tick[t].pc = "find"
      /\ tick' = [tick EXCEPT ![t] = IF h \in Stored THEN [tick[t] EXCEPT !.pc = "update"]
                                     ELSE NoTick]
  BY DEF FindDeal
<1>2. /\ WorkersOK'
      /\ IF h \in Stored
         THEN /\ tick'[t].pc = "update" /\ tick'[t].hash = h
              /\ tick'[t].watch = tick[t].watch /\ tick'[t].clean = tick[t].clean
         ELSE tick'[t] = NoTick
      /\ \A m \in Ticks : m # t => tick'[m] = tick[m]
  <2>1. CASE h \in Stored
    BY <1>1, <2>1, PcMoves DEF Busy
  <2>2. CASE h \notin Stored
    BY <1>1, <2>2, TickSets, EmptyTypes DEF Shapes
  <2> QED
    BY <2>1, <2>2
<1>3. Shapes'
  BY <1>1, <1>2 DEF Shapes, ChainOK, StoreOK, chain
<1>4. h \in Hashes /\ h \notin Confirmed /\ trade[h] # NoTrade /\ ~ InLog(h)
  BY <1>1 DEF Placed, Confirmations, Shapes, WorkersOK, Busy
<1> HIDE DEF h
<1>5. /\ Confirmed' = Confirmed /\ Stored' = Stored
      /\ \A g : Time(g)' = Time(g) /\ (InLog(g)' <=> InLog(g))
  BY <1>1 DEF Confirmed, Stored, Time, InLog, chain
<1>6. /\ \A m \in Ticks : Busy(m)' => Busy(m) /\ tick'[m].hash = tick[m].hash
      /\ \A m \in Ticks : tick'[m].clean => tick[m].clean
      /\ \A m \in Ticks : tick'[m].clean => tick'[m].watch = tick[m].watch
      /\ \A m \in Ticks : tick'[m].pc \in {"watch", "list", "save"} => m # t
  BY <1>1, <1>2, EmptyTypes DEF Busy, NoTick, h
<1>7. \A g : Free(g)' => Free(g) \/ (g = h /\ h \notin Stored)
  BY <1>1, <1>2 DEF Free, Busy, h
<1>8. \A g : Free(g) => Free(g)'
  BY <1>6 DEF Free
<1>9. Placed'
  BY <1>1, <1>5, <1>6 DEF Placed, chain
<1>10. Confirmations'
  <2>1. \A m \in Ticks : Busy(m)' =>
          (tick[m].hash \in Confirmed <=> tick'[m].pc \in {"watch", "list", "save"})
    BY <1>1, <1>2, <1>4, <1>6 DEF Confirmations, Busy, h
  <2> QED
    BY <1>1, <1>5, <1>6, <2>1 DEF Confirmations, chain
<1>11. Volume'
  BY <1>1, <1>4, <1>5, <1>6, <1>7, <1>8 DEF Volume, history
<1>12. LastDay'
  <2>1. \A g : Overtaken(g)' <=> Overtaken(g)
    BY <1>1, <1>5 DEF Overtaken
  <2>2. \A g \in Hashes, m \in Ticks : tick'[m].watch.deals24[g] > 0 => g \in Confirmed
    BY <1>2, EmptyTypes DEF LastDay
  <2>3. \A m \in Ticks : tick'[m].pc \in {"list", "save"} =>
          tick'[m] = tick[m] /\ Time(tick[m].hash)' = Time(tick[m].hash)
    BY <1>2, <1>5, <1>6 DEF Time
  <2> QED
    BY <1>1, <1>5, <2>1, <2>2, <2>3 DEF LastDay
<1>13. Lateness'
  <2>1. \A g : Sought(g)' => Sought(g) \/ g = h
    BY <1>1, <1>2, <1>5, SoughtInLog DEF chain, h
  <2>2. ~ Free(h)
    BY <1>1 DEF Free, Busy, h
  <2> QED
    BY <1>1, <1>5, <1>7, <2>1, <2>2 DEF Lateness, Stored, history
<1> QED
  BY <1>3, <1>9, <1>10, <1>11, <1>12, <1>13

LEMMA UpdateDealKeeps ==
  ASSUME DealInv, NEW t \in Ticks, UpdateDeal(t)
  PROVE  DealInv'
<1> USE DEF DealInv
<1> DEFINE h == tick[t].hash
           d == [taker |-> trade[h].taker, state |-> "CONFIRMED", timestamp |-> Time(h)]
<1>1. /\ UNCHANGED <<chain, log, watch, request, history>>
      /\ tick[t].pc = "update" /\ deal' = [deal EXCEPT ![h] = d]
      /\ tick' = [tick EXCEPT ![t] = [tick[t] EXCEPT !.pc = "watch"]]
  BY DEF UpdateDeal
<1>2. /\ h \in Hashes /\ h \notin Confirmed /\ trade[h] # NoTrade /\ ~ InLog(h)
      /\ Busy(t) /\ ~ Free(h)
  BY <1>1 DEF Placed, Confirmations, Shapes, WorkersOK, Busy, Free
<1>3. /\ WorkersOK'
      /\ tick'[t].pc = "watch" /\ tick'[t].hash = h
      /\ tick'[t].watch = tick[t].watch /\ tick'[t].clean = tick[t].clean
      /\ \A m \in Ticks : m # t => tick'[m] = tick[m]
  BY <1>1, <1>2, PcMoves
<1>4. d \in Deals /\ d.state = "CONFIRMED" /\ d.timestamp = Time(h)
  <2>1. trade[h] \in [taker : Users, timestamp : 0 .. now] /\ now \in Nat
    BY <1>2 DEF Shapes, ChainOK
  <2> QED
    BY <2>1 DEF Deals, Time
<1> HIDE DEF d
<1>5. deal'[h] = d /\ \A g \in Hashes \ {h} : deal'[g] = deal[g]
  BY <1>1, <1>2 DEF Shapes, StoreOK
<1>6. Confirmed' = Confirmed \cup {h} /\ \A g : Time(g)' = Time(g)
  BY <1>1, <1>2, <1>4, <1>5 DEF Confirmed, Time, chain
<1>7. Stored' = Stored \cup {h}
  BY <1>2, <1>4, <1>5 DEF Stored, NoDeal
<1>8. /\ \A m \in Ticks : (Busy(m)' <=> Busy(m)) /\ tick'[m].hash = tick[m].hash
      /\ \A m \in Ticks : tick'[m].clean = tick[m].clean /\ tick'[m].watch = tick[m].watch
      /\ \A m \in Ticks : m # t /\ Busy(m) => tick[m].hash # h
  BY <1>1, <1>2, <1>3 DEF Busy, Placed
<1>9. \A g : (Free(g)' <=> Free(g)) /\ (InLog(g)' <=> InLog(g))
  BY <1>1, <1>8 DEF Free, InLog
<1> HIDE DEF h
<1>10. Shapes'
  BY <1>1, <1>3, <1>4 DEF Shapes, ChainOK, StoreOK, chain
<1>11. Placed'
  BY <1>1, <1>8, <1>9 DEF Placed, chain
<1>12. Confirmations'
  <2>1. \A g \in Hashes : IF g \in Confirmed'
                          THEN trade[g] # NoTrade /\ ~ InLog(g) /\ deal'[g].timestamp = Time(g)
                          ELSE deal'[g].timestamp = -1
    BY <1>2, <1>4, <1>5, <1>6 DEF Confirmations
  <2>2. \A m \in Ticks : Busy(m)' =>
          (tick'[m].hash \in Confirmed' <=> tick'[m].pc \in {"watch", "list", "save"})
    BY <1>3, <1>6, <1>8 DEF Confirmations, Busy
  <2> QED
    BY <1>1, <1>6, <1>9, <2>1, <2>2 DEF Confirmations, chain
<1>13. Volume'
  BY <1>1, <1>2, <1>6, <1>8, <1>9 DEF Volume, history
<1>14. LastDay'
  <2>1. \A g : Overtaken(g)' <=> Overtaken(g)
    BY <1>1, <1>6 DEF Overtaken
  <2>2. \A m \in Ticks : tick'[m].pc \in {"list", "save"} =>
          tick'[m] = tick[m] /\ Time(tick[m].hash)' = Time(tick[m].hash)
    BY <1>3, <1>6, <1>8 DEF Time
  <2> QED
    BY <1>1, <1>6, <1>8, <2>1, <2>2 DEF LastDay
<1>15. Lateness'
  <2>1. \A g : Sought(g)' => Sought(g) \/ g = h
    BY <1>1, <1>3, <1>9, SoughtInLog DEF chain
  <2> QED
    BY <1>1, <1>6, <1>7, <1>9, <2>1 DEF Lateness, history
<1> QED
  BY <1>10, <1>11, <1>12, <1>13, <1>14, <1>15

\* A tick that has its deal confirmed reads the watch or lists the deals.
LEMMA WatchMoves ==
  ASSUME DealInv, NEW t \in Ticks, NEW x \in TickRecords,
         tick[t].pc \in {"watch", "list"}, x.pc \in {"list", "save"},
         x.hash = tick[t].hash, x.clean => x.watch.volumeTotal = watch.volumeTotal,
         \A g \in Hashes : x.watch.deals24[g] > 0 => g \in Confirmed,
         x.clean /\ x.pc = "list" => watch.deals24 = None,
         x.clean /\ x.pc = "save" =>
           /\ x.watch.deals24[x.hash] > 0
           /\ \A g \in Hashes : watch.volumeTotal[g] = 1 =>
                \/ x.watch.deals24[g] > 0
                \/ Time(x.hash) - Time(g) >= Day
                \/ Overtaken(g),
         tick' = [tick EXCEPT ![t] = x],
         UNCHANGED <<chain, log, deal, watch, request, history>>
  PROVE  DealInv'
<1> USE DEF DealInv
<1>1. tick[t].hash \in Hashes /\ Busy(t)
  BY DEF Shapes, WorkersOK, Busy
<1>2. WorkersOK' /\ tick'[t] = x /\ \A m \in Ticks : m # t => tick'[m] = tick[m]
  BY <1>1, TickSets DEF Shapes
<1>3. Shapes'
  BY <1>2 DEF Shapes, ChainOK, StoreOK, chain
<1>4. /\ Confirmed' = Confirmed /\ Stored' = Stored
      /\ \A g : Time(g)' = Time(g) /\ (InLog(g)' <=> InLog(g))
  BY DEF Confirmed, Stored, Time, InLog, chain
<1>5. \A m \in Ticks : (Busy(m)' <=> Busy(m)) /\ tick'[m].hash = tick[m].hash
  BY <1>1, <1>2 DEF Busy
<1>6. \A g : (Free(g)' <=> Free(g)) /\ (Overtaken(g)' <=> Overtaken(g))
  BY <1>4, <1>5 DEF Free, Overtaken
<1>7. Placed'
  BY <1>4, <1>5 DEF Placed, chain
<1>8. Confirmations'
  <2>1. tick[t].hash \in Confirmed
    BY <1>1 DEF Confirmations
  <2>2. \A m \in Ticks : Busy(m)' =>
          (tick'[m].hash \in Confirmed <=> tick'[m].pc \in {"watch", "list", "save"})
    BY <1>2, <1>5, <2>1 DEF Confirmations
  <2> QED
    BY <1>4, <2>2 DEF Confirmations, chain
<1>9. Volume'
  BY <1>2, <1>4, <1>6 DEF Volume, history
<1>10. LastDay'
  <2>1. \A m \in Ticks, g \in Hashes : tick'[m].watch.deals24[g] > 0 => g \in Confirmed
    BY <1>2 DEF LastDay
  <2>2. \A m \in Ticks : tick'[m].clean /\ tick'[m].pc = "list" => watch.deals24 = None
    BY <1>2 DEF LastDay
  <2>3. ASSUME NEW m \in Ticks, tick'[m].clean, tick'[m].pc = "save"
        PROVE  /\ tick'[m].watch.deals24[tick'[m].hash] > 0
               /\ \A g \in Hashes : watch.volumeTotal[g] = 1 =>
                    \/ tick'[m].watch.deals24[g] > 0
                    \/ Time(tick'[m].hash) - Time(g) >= Day
                    \/ Overtaken(g)
    BY <1>2, <2>3 DEF LastDay
  <2>4. \A m \in Ticks : Time(tick[m].hash)' = Time(tick'[m].hash)
    BY DEF Time, chain
  <2> QED
    BY <1>4, <1>6, <2>1, <2>2, <2>3, <2>4 DEF LastDay
<1>11. Lateness'
  <2>1. \A g : Sought(g)' => Sought(g)
    BY <1>2, <1>4, SoughtInLog DEF chain
  <2> QED
    BY <1>4, <1>6, <2>1 DEF Lateness, Stored, history
<1> QED
  BY <1>3, <1>7, <1>8, <1>9, <1>10, <1>11

LEMMA ReadWatchKeeps ==
  ASSUME DealInv, NEW t \in Ticks, ReadWatch(t)
  PROVE  DealInv'
<1> USE DEF DealInv
<1> DEFINE h == tick[t].hash
           empty == watch.deals24 = None
           pc == IF empty THEN "list" ELSE "save"
           w == [volumeTotal |-> watch.volumeTotal,
                 deals24 |-> IF empty THEN None ELSE WithDeal(watch.deals24, h)]
           x == [[[tick[t] EXCEPT !.pc = pc] EXCEPT !.clean = TRUE] EXCEPT !.watch = w]
<1>1. /\ tick[t].pc = "watch" /\ UNCHANGED <<chain, log, deal, watch, request, history>>
      /\ tick' = [tick EXCEPT ![t] = x]
  BY DEF ReadWatch
<1>2. h \in Hashes /\ trade[h] # NoTrade /\ h \in Confirmed /\ tick[t] \in TickRecords
  BY <1>1 DEF Placed, Confirmations, Shapes, WorkersOK, Busy
<1>3. watch \in Watches /\ watch.volumeTotal \in Counts /\ watch.deals24 \in Counts
  BY DEF Shapes, StoreOK, Watches
<1>4. w.deals24 \in Counts
  BY <1>2, <1>3, WithDealCounts, EmptyTypes DEF Shapes
<1>5. /\ \A g \in Hashes : w.deals24[g] > 0 => g \in Confirmed
      /\ ~ empty => /\ w.deals24[h] > 0
                    /\ \A g \in Hashes : watch.deals24[g] > 0 =>
                         w.deals24[g] > 0 \/ Time(h) - Time(g) >= Day
  BY <1>2, <1>3, WithDealCounts, EmptyTypes DEF Shapes, LastDay
<1>6. w \in Watches /\ w.volumeTotal = watch.volumeTotal
  BY <1>3, <1>4 DEF Watches
<1> HIDE DEF w
<1>7. pc \in {"list", "save"} /\ (pc = "list" <=> empty)
  OBVIOUS
<1> HIDE DEF pc
<1>8. x \in TickRecords /\ x.pc = pc /\ x.hash = h /\ x.watch = w /\ x.clean
  BY <1>2, <1>6, <1>7 DEF TickRecords, Pcs
<1> HIDE DEF x
<1>9. ~ empty => \A g \in Hashes : watch.volumeTotal[g] = 1 =>
                   \/ w.deals24[g] > 0
                   \/ Time(h) - Time(g) >= Day
                   \/ Overtaken(g)
  BY <1>5 DEF LastDay
<1> QED
  BY <1>1, <1>5, <1>6, <1>7, <1>8, <1>9, WatchMoves

LEMMA ListDealsKeeps ==
  ASSUME DealInv, NEW t \in Ticks, ListDeals(t)
  PROVE  DealInv'
<1> USE DEF DealInv
<1> DEFINE h == tick[t].hash
           w == [tick[t].watch EXCEPT !.deals24 = FoundDeals(h)]
           x == [[tick[t] EXCEPT !.pc = "save"] EXCEPT !.watch = w]
<1>1. /\ tick[t].pc = "list" /\ UNCHANGED <<chain, log, deal, watch, request, history>>
      /\ tick' = [tick EXCEPT ![t] = x]
  BY DEF ListDeals
<1>2. h \in Hashes /\ h \in Confirmed /\ tick[t] \in TickRecords
  BY <1>1 DEF Confirmations, Shapes, WorkersOK, Busy
<1>3. /\ FoundDeals(h) \in Counts /\ FoundDeals(h)[h] > 0
      /\ \A g \in Hashes : FoundDeals(h)[g] > 0 => g \in Confirmed
  BY <1>2, FoundDealsCounts DEF Shapes
<1>4. w \in Watches /\ w.volumeTotal = tick[t].watch.volumeTotal /\ w.deals24 = FoundDeals(h)
  BY <1>2, <1>3 DEF TickRecords, Watches
<1> HIDE DEF w
<1>5. /\ x \in TickRecords /\ x.pc = "save" /\ x.hash = h /\ x.watch = w
      /\ x.clean = tick[t].clean
  BY <1>2, <1>4 DEF TickRecords, Pcs
<1> HIDE DEF x
<1>6. x.clean => \A g \in Hashes : watch.volumeTotal[g] # 1
  <2> SUFFICES ASSUME x.clean PROVE \A g \in Hashes : watch.volumeTotal[g] # 1
    OBVIOUS
  <2>1. tick[t].clean
    BY <1>5
  <2>2. watch.volumeTotal = None
    BY <1>1, <2>1 DEF LastDay
  <2> QED
    BY <2>2, EmptyTypes
<1>7. x.clean => x.watch.volumeTotal = watch.volumeTotal
  BY <1>4, <1>5 DEF Volume
<1>8. /\ x.watch.deals24[x.hash] > 0
      /\ \A g \in Hashes : x.watch.deals24[g] > 0 => g \in Confirmed
  BY <1>3, <1>4, <1>5
<1> QED
  BY <1>1, <1>5, <1>6, <1>7, <1>8, WatchMoves

LEMMA SaveWatchKeeps ==
  ASSUME DealInv, NEW t \in Ticks, SaveWatch(t)
  PROVE  DealInv'
<1> USE DEF DealInv
<1> DEFINE h == tick[t].hash
<1>1. /\ tick[t].pc = "save" /\ tick[t].clean /\ tick' = Outdate({t})
      /\ watch' = [tick[t].watch EXCEPT !.volumeTotal[h] = @ + 1]
      /\ UNCHANGED <<chain, log, deal, request, history>>
  BY DEF SaveWatch
<1>2. /\ h \in Hashes /\ h \in Confirmed /\ tick[t].watch \in Watches /\ Busy(t)
      /\ ~ Free(h) /\ trade[h] # NoTrade
  BY <1>1 DEF Placed, Confirmations, Shapes, WorkersOK, Busy, TickRecords, Free
<1>3. /\ WorkersOK' /\ \A m \in Ticks : ~ tick'[m].clean
      /\ tick'[t] = NoTick
      /\ \A m \in Ticks : m # t => /\ tick'[m].pc = tick[m].pc
                                  /\ tick'[m].hash = tick[m].hash
                                  /\ tick'[m].watch = tick[m].watch
  BY <1>1, OutdateSets DEF Shapes
<1>4. /\ watch.volumeTotal[h] = 0
      /\ tick[t].watch.volumeTotal = watch.volumeTotal
  BY <1>1, <1>2 DEF Volume
<1>5. /\ watch' \in Watches /\ watch'.deals24 = tick[t].watch.deals24
      /\ watch'.volumeTotal[h] = 1
      /\ \A g \in Hashes \ {h} : watch'.volumeTotal[g] = watch.volumeTotal[g]
  <2>1. tick[t].watch.volumeTotal \in Counts /\ tick[t].watch.deals24 \in Counts
    BY <1>2 DEF Watches
  <2>2. watch' = [volumeTotal |-> [watch.volumeTotal EXCEPT ![h] = watch.volumeTotal[h] + 1],
                  deals24 |-> tick[t].watch.deals24]
    BY <1>1, <1>2, <1>4 DEF Watches
  <2>3. [watch.volumeTotal EXCEPT ![h] = 1] \in Counts
    BY <1>4, <2>1 DEF Counts
  <2> QED
    BY <1>2, <1>4, <2>1, <2>2, <2>3 DEF Watches, Counts
<1>6. Shapes'
  BY <1>1, <1>3, <1>5 DEF Shapes, ChainOK, StoreOK, chain
<1>7. /\ Confirmed' = Confirmed /\ Stored' = Stored
      /\ \A g : Time(g)' = Time(g) /\ (InLog(g)' <=> InLog(g))
  BY <1>1 DEF Confirmed, Stored, Time, InLog, chain
<1>8. \A m \in Ticks : Busy(m)' <=> Busy(m) /\ m # t
  BY <1>3, EmptyTypes DEF Busy
<1>9. \A g : Free(g)' <=> Free(g) \/ g = h
  BY <1>2, <1>3, <1>8 DEF Free, Placed
<1>10. Placed'
  BY <1>1, <1>3, <1>7, <1>8 DEF Placed, chain
<1>11. Confirmations'
  <2>1. \A m \in Ticks : Busy(m)' =>
          (tick'[m].hash \in Confirmed <=> tick'[m].pc \in {"watch", "list", "save"})
    BY <1>3, <1>8 DEF Confirmations
  <2> QED
    BY <1>1, <1>7, <2>1 DEF Confirmations, chain
<1>12. Volume'
  BY <1>1, <1>2, <1>3, <1>5, <1>7, <1>9 DEF Volume, history
<1>13. LastDay'
  <2>1. \A g \in Hashes : watch'.deals24[g] > 0 => g \in Confirmed
    BY <1>5 DEF LastDay
  <2>2. \A g \in Hashes, m \in Ticks : tick'[m].watch.deals24[g] > 0 => g \in Confirmed
    BY <1>3, EmptyTypes DEF LastDay
  <2>3. watch'.deals24[h] > 0
    BY <1>1, <1>5 DEF LastDay
  <2>4. ASSUME NEW g \in Hashes, watch'.volumeTotal[g] = 1
        PROVE  watch'.deals24[g] > 0 \/ Overtaken(g)'
    <3>1. CASE g = h
      BY <2>3, <3>1
    <3>2. CASE g # h
      <4>1. \/ tick[t].watch.deals24[g] > 0
            \/ Time(h) - Time(g) >= Day
            \/ Overtaken(g)
        BY <1>1, <1>5, <2>4, <3>2 DEF LastDay
      <4>2. ASSUME Time(h) - Time(g) >= Day PROVE Overtaken(g)'
        BY <1>2, <1>5, <1>7, <4>2 DEF Overtaken
      <4>3. ASSUME Overtaken(g) PROVE Overtaken(g)'
        <5>1. PICK f \in Hashes : watch.volumeTotal[f] > 0 /\ Time(f) - Time(g) >= Day
          BY <4>3 DEF Overtaken
        <5>2. watch'.volumeTotal[f] > 0
          BY <1>4, <1>5, <5>1
        <5> QED
          BY <1>7, <5>1, <5>2 DEF Overtaken
      <4> QED
        BY <1>5, <4>1, <4>2, <4>3
    <3> QED
      BY <3>1, <3>2
  <2>5. watch'.deals24 # None
    BY <1>2, <2>3, EmptyTypes
  <2> QED
    BY <1>3, <1>7, <2>1, <2>2, <2>4, <2>5 DEF LastDay
<1>14. Lateness'
  <2>1. ASSUME NEW g, Sought(g)' PROVE Sought(g)
    <3>1. trade[g] # NoTrade /\ ~ InLog(g)
      BY <1>1, <1>7, <2>1, SoughtInLog DEF chain
    <3>2. ASSUME NEW m \in Ticks, tick[m].pc = "find" PROVE tick[m].hash # g
      <4>1. m # t
        BY <1>1, <3>2
      <4>2. tick'[m].pc = "find" /\ tick'[m].hash = tick[m].hash
        BY <1>3, <3>2, <4>1
      <4> QED
        BY <2>1, <4>2, SoughtInLog
    <3> QED
      BY <3>1, <3>2, SoughtInLog
  <2> QED
    BY <1>1, <1>2, <1>7, <1>9, <2>1 DEF Lateness, Stored, history
<1> QED
  BY <1>6, <1>10, <1>11, <1>12, <1>13, <1>14

LEMMA DealStep == DealInv /\ [Next]_vars => DealInv'
<1> SUFFICES ASSUME DealInv, [Next]_vars PROVE DealInv'
  OBVIOUS
<1>1. CASE UNCHANGED vars
  <2>1. WorkersOK'
    BY <1>1 DEF DealInv, Shapes, WorkersOK, Busy, vars
  <2> QED
    BY <1>1, <2>1, TicksEnd DEF vars, chain, history, Busy
<1>2. CASE \E h \in Hashes, u \in Users : ChainFill(h, u)
  BY <1>2, ChainFillKeeps
<1>3. CASE \E r \in Requests, u \in Users, h \in Hashes : BeginRequest(r, u, h)
  BY <1>3, RequestsKeep
<1>4. CASE \E r \in Requests : CreateDeal(r) \/ RequestFails(r)
  BY <1>4, CreateDealKeeps, RequestsKeep
<1>5. ASSUME NEW t \in Ticks,
             \/ BeginEvent(t) \/ SkipEvent(t) \/ FindDeal(t) \/ UpdateDeal(t)
             \/ ReadWatch(t) \/ ListDeals(t) \/ SaveWatch(t) \/ StaleWatch(t)
             \/ TickFails(t)
      PROVE  DealInv'
  BY <1>5, BeginEventKeeps, SkipEventKeeps, FindDealKeeps, UpdateDealKeeps, ReadWatchKeeps,
     ListDealsKeeps, SaveWatchKeeps, EndsKeep
<1>6. CASE Tock \/ AddPrice24 \/ Crash
  BY <1>6, TockKeeps, AddPrice24Keeps, CrashKeeps
<1> QED
  BY <1>1, <1>2, <1>3, <1>4, <1>5, <1>6 DEF Next

LEMMA DealInvariant == Spec => []DealInv
BY DealInit, DealStep, PTL DEF Spec

-----------------------------------------------------------------------------
(* Theorems. *)

\* The variables of DealService keep their types, and only confirmed deals are
\* among the deals of the last day.
THEOREM DealTypes == Spec => []TypeOK
<1>1. DealInv => TypeOK
  BY DEF DealInv, Shapes, ChainOK, StoreOK, WorkersOK, Deals, TickRecords, Pcs, LastDay,
         Confirmed, TypeOK
<1> QED
  BY <1>1, DealInvariant, PTL

\* volumeTotal counts each confirmed deal once and no other, for any number of
\* overlapping ticks and other writers of the watch: the version that is there
\* to protect its arrays protects the sum.
THEOREM VolumeIsRight == Spec => []VolumeCounts
<1>1. DealInv => VolumeCounts
  <2> SUFFICES ASSUME DealInv, NEW h \in Hashes
               PROVE  /\ watch.volumeTotal[h] <= 1
                      /\ Settled(h) => (watch.volumeTotal[h] = 1 <=> h \in Confirmed)
                      /\ watch.volumeTotal[h] = 1 => watch.deals24[h] > 0 \/ Overtaken(h)
    BY DEF VolumeCounts, Overtaken
  <2>1. Settled(h) => Free(h) /\ h \notin missed
    BY DEF Settled, Free
  <2> QED
    BY <2>1 DEF DealInv, Volume, LastDay
<1> QED
  BY <1>1, DealInvariant, PTL

\* A deal whose event has been looked up stays open only when the request stored
\* it after that, or the handling of the event was cut short.
THEOREM OnlyLateDealsStayOpen == Spec => []OpenOnlyIfLate
<1>1. DealInv => OpenOnlyIfLate
  BY DEF DealInv, Lateness, OpenOnlyIfLate, Settled, Free
<1> QED
  BY <1>1, DealInvariant, PTL

-----------------------------------------------------------------------------
(* The limit of open deals. *)

\* Requests of a taker that have passed the check.
Passed(u) == {r \in Requests : request[r] # NoRequest /\ request[r].taker = u}

\* What is open and what may still be opened.
LimitInv ==
  \A u \in Users :
    /\ IsFiniteSet(OpenDeals(u))
    /\ Cardinality(OpenDeals(u)) + Cardinality(Passed(u))
         <= Limit - 1 + Cardinality(Requests)

LEMMA PassedFinite ==
  ASSUME NEW u
  PROVE  /\ IsFiniteSet(Passed(u)) /\ Cardinality(Passed(u)) \in Nat
         /\ Cardinality(Requests) \in Nat
         /\ Cardinality(Passed(u)) <= Cardinality(Requests)
<1>1. IsFiniteSet(Requests) /\ Passed(u) \subseteq Requests
  BY DealAssumption DEF Passed
<1> QED
  BY <1>1, FS_Subset, FS_CardinalityType

LEMMA LimitInit == Init => LimitInv
<1> SUFFICES ASSUME Init, NEW u \in Users
             PROVE  /\ IsFiniteSet(OpenDeals(u))
                    /\ Cardinality(OpenDeals(u)) + Cardinality(Passed(u))
                         <= Limit - 1 + Cardinality(Requests)
  BY DEF LimitInv
<1>1. OpenDeals(u) = {} /\ Passed(u) = {}
  BY DEF Init, OpenDeals, Passed, NoDeal
<1> QED
  BY <1>1, FS_EmptySet, PassedFinite, DealAssumption

\* Fewer open deals, fewer requests.
LEMMA LimitShrinks ==
  ASSUME LimitInv, NEW u \in Users, OpenDeals(u)' \subseteq OpenDeals(u),
         Passed(u)' \subseteq Passed(u)
  PROVE  /\ IsFiniteSet(OpenDeals(u)')
         /\ Cardinality(OpenDeals(u)') + Cardinality(Passed(u)')
              <= Limit - 1 + Cardinality(Requests)
<1>1. /\ IsFiniteSet(OpenDeals(u)') /\ Cardinality(OpenDeals(u)') <= Cardinality(OpenDeals(u))
      /\ Cardinality(OpenDeals(u)') \in Nat /\ Cardinality(OpenDeals(u)) \in Nat
  BY FS_Subset, FS_CardinalityType DEF LimitInv
<1>2. /\ Cardinality(Passed(u)') <= Cardinality(Passed(u))
      /\ Cardinality(Passed(u)') \in Nat /\ Cardinality(Passed(u)) \in Nat
  BY PassedFinite, FS_Subset, FS_CardinalityType
<1> QED
  BY <1>1, <1>2, PassedFinite, DealAssumption DEF LimitInv

LEMMA BeginKeepsLimit ==
  ASSUME Shapes, LimitInv, NEW r \in Requests, NEW v \in Users, NEW h \in Hashes,
         BeginRequest(r, v, h), NEW u \in Users
  PROVE  /\ IsFiniteSet(OpenDeals(u)')
         /\ Cardinality(OpenDeals(u)') + Cardinality(Passed(u)')
              <= Limit - 1 + Cardinality(Requests)
<1>1. /\ deal' = deal /\ Cardinality(OpenDeals(v)) < Limit /\ request[r] = NoRequest
      /\ request' = [request EXCEPT ![r] = [pc |-> "order", taker |-> v, hash |-> h]]
  BY DEF BeginRequest, CanUserCreateDeal
<1>2. OpenDeals(u)' = OpenDeals(u)
  BY <1>1 DEF OpenDeals
<1>3. CASE u # v
  <2>1. Passed(u)' \subseteq Passed(u)
    BY <1>1, <1>3 DEF Passed, Shapes, WorkersOK
  <2> QED
    BY <1>2, <2>1, LimitShrinks
<1>4. CASE u = v
  <2>1. Passed(u)' \subseteq Requests /\ IsFiniteSet(Requests)
    BY DealAssumption DEF Passed
  <2>2. /\ Cardinality(Passed(u)') <= Cardinality(Requests)
        /\ Cardinality(Passed(u)') \in Nat /\ Cardinality(Requests) \in Nat
    BY <2>1, FS_Subset, FS_CardinalityType
  <2>3. IsFiniteSet(OpenDeals(u)) /\ Cardinality(OpenDeals(u)) \in Nat
    BY FS_CardinalityType DEF LimitInv
  <2> QED
    BY <1>1, <1>2, <1>4, <2>2, <2>3, DealAssumption
<1> QED
  BY <1>3, <1>4

LEMMA CreateKeepsLimit ==
  ASSUME Shapes, LimitInv, NEW r \in Requests, CreateDeal(r), NEW u \in Users
  PROVE  /\ IsFiniteSet(OpenDeals(u)')
         /\ Cardinality(OpenDeals(u)') + Cardinality(Passed(u)')
              <= Limit - 1 + Cardinality(Requests)
<1> DEFINE h == request[r].hash
           v == request[r].taker
           d == [taker |-> v, state |-> "CREATED", timestamp |-> -1]
<1>1. /\ request[r] # NoRequest /\ h \notin Stored /\ deal' = [deal EXCEPT ![h] = d]
      /\ request' = [request EXCEPT ![r] = NoRequest]
  BY DEF CreateDeal
<1>2. h \in Hashes /\ deal \in [Hashes -> Deals]
  BY <1>1 DEF Shapes, WorkersOK, StoreOK, Waiting
<1>3. /\ deal'[h] = d /\ \A g \in Hashes \ {h} : deal'[g] = deal[g]
      /\ d.taker = v /\ deal[h].state # "CREATED"
  BY <1>1, <1>2 DEF Stored, NoDeal
<1> HIDE DEF h, d
<1>4. Passed(u)' = Passed(u) \ {r} /\ (r \in Passed(u) <=> u = v)
  BY <1>1 DEF Passed, Shapes, WorkersOK
<1>5. CASE u # v
  <2>1. OpenDeals(u)' \subseteq OpenDeals(u)
    BY <1>3, <1>5 DEF OpenDeals
  <2> QED
    BY <1>4, <2>1, LimitShrinks
<1>6. CASE u = v
  <2>1. OpenDeals(u)' \subseteq OpenDeals(u) \cup {h} /\ h \notin OpenDeals(u)
    BY <1>3 DEF OpenDeals
  <2>2. IsFiniteSet(OpenDeals(u))
    BY DEF LimitInv
  <2>3. /\ IsFiniteSet(OpenDeals(u) \cup {h})
        /\ Cardinality(OpenDeals(u) \cup {h}) = Cardinality(OpenDeals(u)) + 1
    BY <2>1, <2>2, FS_AddElement
  <2>4. /\ IsFiniteSet(OpenDeals(u)') /\ Cardinality(OpenDeals(u)') \in Nat
        /\ Cardinality(OpenDeals(u)') <= Cardinality(OpenDeals(u)) + 1
    BY <2>1, <2>3, FS_Subset, FS_CardinalityType
  <2>5. Cardinality(Passed(u)') = Cardinality(Passed(u)) - 1
    BY <1>4, <1>6, PassedFinite, FS_RemoveElement
  <2>6. Cardinality(OpenDeals(u)) \in Nat
    BY <2>2, FS_CardinalityType
  <2> QED
    BY <2>4, <2>5, <2>6, PassedFinite, DealAssumption DEF LimitInv
<1> QED
  BY <1>5, <1>6

LEMMA LimitStep == Shapes /\ LimitInv /\ [Next]_vars => LimitInv'
<1> SUFFICES ASSUME Shapes, LimitInv, [Next]_vars, NEW u \in Users
             PROVE  /\ IsFiniteSet(OpenDeals(u)')
                    /\ Cardinality(OpenDeals(u)') + Cardinality(Passed(u)')
                         <= Limit - 1 + Cardinality(Requests)
  BY DEF LimitInv
<1>1. ASSUME NEW r \in Requests, RequestFails(r)
      PROVE  OpenDeals(u)' \subseteq OpenDeals(u) /\ Passed(u)' \subseteq Passed(u)
  BY <1>1 DEF RequestFails, OpenDeals, Passed, Shapes, WorkersOK
<1>2. CASE UNCHANGED <<deal, request>>
  <2>1. OpenDeals(u)' \subseteq OpenDeals(u) /\ Passed(u)' \subseteq Passed(u)
    BY <1>2 DEF OpenDeals, Passed
  <2> QED
    BY <2>1, LimitShrinks
<1>3. ASSUME NEW t \in Ticks, UpdateDeal(t)
      PROVE  OpenDeals(u)' \subseteq OpenDeals(u) /\ Passed(u)' \subseteq Passed(u)
  <2> DEFINE d == [taker |-> trade[tick[t].hash].taker, state |-> "CONFIRMED",
                   timestamp |-> Time(tick[t].hash)]
  <2>1. deal' = [deal EXCEPT ![tick[t].hash] = d] /\ request' = request
    BY <1>3 DEF UpdateDeal
  <2>2. d.state # "CREATED"
    OBVIOUS
  <2> HIDE DEF d
  <2> QED
    BY <2>1, <2>2 DEF OpenDeals, Passed, Shapes, StoreOK
<1>4. CASE Crash
  <2>1. OpenDeals(u)' \subseteq OpenDeals(u) /\ Passed(u)' \subseteq Passed(u)
    BY <1>4 DEF Crash, OpenDeals, Passed
  <2> QED
    BY <2>1, LimitShrinks
<1>5. \/ UNCHANGED <<deal, request>>
      \/ Crash
      \/ \E r \in Requests : CreateDeal(r) \/ RequestFails(r)
      \/ \E r \in Requests, v \in Users, h \in Hashes : BeginRequest(r, v, h)
      \/ \E t \in Ticks : UpdateDeal(t)
  BY DEF Next, vars, ChainFill, BeginEvent, SkipEvent, FindDeal, ReadWatch, ListDeals,
         SaveWatch, StaleWatch, TickFails, GiveUp, Tock, AddPrice24
<1> QED
  BY <1>1, <1>2, <1>3, <1>4, <1>5, BeginKeepsLimit, CreateKeepsLimit, LimitShrinks

\* A taker's open deals exceed the limit by no more than the requests that can
\* have passed the check together.
THEOREM LimitIsNearlyKept == Spec => []LimitNearlyKept
<1>1. DealInv => Shapes
  BY DEF DealInv
<1>2. LimitInv => LimitNearlyKept
  <2> SUFFICES ASSUME LimitInv, NEW u \in Users
               PROVE  Cardinality(OpenDeals(u)) <= Limit - 1 + Cardinality(Requests)
    BY DEF LimitNearlyKept
  <2>1. Cardinality(OpenDeals(u)) \in Nat
    BY FS_CardinalityType DEF LimitInv
  <2> QED
    BY <2>1, PassedFinite, DealAssumption DEF LimitInv
<1> QED
  BY <1>1, <1>2, LimitInit, LimitStep, DealInvariant, PTL DEF Spec
=============================================================================
