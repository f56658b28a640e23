------------------------------ MODULE MarketStats ------------------------------
(***************************************************************************)
(* ChartService and the statistics of a watch: the ticks of its chart, its *)
(* prices and deals of the last day, and what is computed from them for    *)
(* whoever asks.                                                           *)
(*                                                                         *)
(* One watch in trading and one tick at a time; DealService and OrderBook  *)
(* have the writers that overlap.                                          *)
(***************************************************************************)
EXTENDS Integers, Sequences, SequencesExt, FiniteSets

CONSTANTS
  Prices,     \* average prices of the order book
  Amounts,    \* usdAmount of deals
  Day,        \* DAY_IN_SECONDS
  Week, Month,
  Gap,        \* 1000 seconds
  Quarter,    \* 90 days
  StartTime,  \* start of the sale of the watch
  Horizon,    \* bound: how far time goes
  MaxWrites   \* bound: ticks, deals and orders, and requests that write

ASSUME StatsAssumption ==
  /\ Prices \subseteq Nat /\ Amounts \subseteq Nat
  /\ {Gap, Day, Week, Month, StartTime} \subseteq Nat
  /\ 0 < Gap /\ Gap < Day /\ Day < Week /\ Week < Month
  /\ Month <= StartTime /\ Quarter \in Nat /\ MaxWrites \in Nat

VARIABLES
  now,      \* the clock, in seconds
  chart,    \* ticks of the chart, in the order they were saved
  watch,    \* prices24, deals24, currentSharePrice and quarterChart
  saving,   \* the price that addPrice24 is about to save
  priced,   \* history: prices saved so far, after the one of the sale
  dealt,    \* confirmed deals
  writes    \* writes so far

stats == <<now, chart, watch, saving, priced, dealt, writes>>

One == 1         \* the price of a share in the sale
NoPrice == [at |-> 0, price |-> 0]
At(t, p) == [at |-> t, price |-> p]

\* handleAddWatchEvent gives a watch its first price; it is added on the day its
\* sale starts.
StatsInit ==
  /\ now = StartTime
  /\ chart = <<>>
  /\ watch = [prices24 |-> <<At(StartTime, One)>>, deals24 |-> <<>>, price |-> One,
              quarter |-> <<[day |-> StartTime \div Day, price |-> One]>>]
  /\ saving = NoPrice
  /\ priced = <<>>
  /\ dealt = <<>>
  /\ writes = 0

CountWrite == writes < MaxWrites /\ writes' = writes + 1

-----------------------------------------------------------------------------
(* Filters and sorts: Array.filter and Array.sort keep the order of what the *)
(* test, or the comparison, does not tell apart.                             *)

\* The places of I by rank, and those of one rank as they come.
InOrder(I, rank) ==
  LET ahead == [i \in I |-> Cardinality(
        {j \in I : rank[j] < rank[i] \/ (j < i /\ rank[j] = rank[i])})]
  IN [k \in 1 .. Cardinality(I) |-> CHOOSE i \in I : ahead[i] = k - 1]

Taken(s, I, rank) ==
  LET place == InOrder(I, rank) IN [k \in 1 .. Cardinality(I) |-> s[place[k]]]

\* SelectSeq, without its recursion.
Only(s, Test(_)) ==
  LET I == {i \in DOMAIN s : Test(s[i])} IN Taken(s, I, [i \in I |-> 0])

\* A stable sort by ascending rank.
Sorted(s, rank) == Taken(s, DOMAIN s, rank)

Recent(s, t) == Only(s, LAMBDA x : t - x.at < Day)

-----------------------------------------------------------------------------
(* Writers. *)

Tock ==
  /\ now < Horizon
  /\ now' = now + 1
  /\ UNCHANGED <<chart, watch, saving, priced, dealt, writes>>

\* calcAvgPrice: a new average price is added to the chart, and then to the watch.
AddChartTick(p) ==
  /\ saving = NoPrice
  /\ CountWrite
  /\ p # watch.price
  /\ chart' = Append(chart, At(now, p))
  /\ saving' = At(now, p)
  /\ UNCHANGED <<now, watch, priced, dealt>>

\* TradeAllowed comes before any trade, and has no tick in the chart.
TradeAllowed ==
  /\ saving = NoPrice
  /\ Len(watch.prices24) = 1
  /\ saving' = At(now, One)
  /\ UNCHANGED <<now, chart, watch, priced, dealt, writes>>

\* Mutant of KeptPrices: the price of a day ago is not kept.
KeptRecentPrices(prices, t) == Recent(prices, t)

\* One price older than a day is kept, or that of the sale.
KeptPrices(prices, t) ==
  LET recent == Recent(prices, t)
      i == Len(prices) - Len(recent)
  IN <<IF i > 0 THEN prices[i] ELSE At(StartTime, One)>> \o recent

\* dateDiffInDays
QuarterIsOver == now \div Day - Last(watch.quarter).day > Quarter

AddPrice24 ==
  /\ saving # NoPrice
  /\ watch' = [watch EXCEPT
       !.prices24 = Append(KeptPrices(@, now), saving),
       !.price = saving.price,
       !.quarter = IF QuarterIsOver
                   THEN Append(@, [day |-> now \div Day, price |-> saving.price])
                   ELSE @]
  /\ priced' = Append(priced, saving)
  /\ saving' = NoPrice
  /\ UNCHANGED <<now, chart, dealt, writes>>

\* The process ends, or the save throws, between tick and price.
PriceLost ==
  /\ saving # NoPrice
  /\ saving' = NoPrice
  /\ UNCHANGED <<now, chart, watch, priced, dealt, writes>>

\* updateDeal: deals24 with the deal of an event.
DealsWith(deal) ==
  IF watch.deals24 = <<>>
  THEN Only(Append(dealt, deal), LAMBDA d : d.at >= deal.at - Day)
  ELSE Append(Recent(watch.deals24, deal.at), deal)

\* An event is handled late, after its block was confirmed.
UpdateDeal(usd, t) ==
  LET deal == [at |-> t, usd |-> usd] IN
  /\ CountWrite
  /\ dealt # <<>> => Last(dealt).at <= t
  /\ dealt' = Append(dealt, deal)
  /\ watch' = [watch EXCEPT !.deals24 = DealsWith(deal)]
  /\ UNCHANGED <<now, chart, saving, priced>>

StatsNext ==
  \/ Tock
  \/ \E p \in Prices : AddChartTick(p)
  \/ TradeAllowed
  \/ AddPrice24
  \/ PriceLost
  \/ \E usd \in Amounts, t \in {now - 1, now} : UpdateDeal(usd, t)

-----------------------------------------------------------------------------
(* What is computed for a request. *)

Frames == [day |-> Day, week |-> Week, month |-> Month]

StartOf(frame) == IF frame = "all" THEN 0 ELSE now - Frames[frame]

\* Mutant of GetChartData: the first tick of the frame is left out.
ChartDataAfter(frame) ==
  LET first == SelectInSeq(chart, LAMBDA x : x.at > StartOf(frame))
      still == Last(chart).price
  IN IF chart = <<>> THEN <<At(now - Gap, One), At(now, One)>>
     ELSE IF first = 0 THEN <<At(now - Gap, still), At(now, still)>>
     ELSE (IF first = 1 THEN <<At(chart[1].at - Gap, One)>> ELSE <<>>)
            \o SubSeq(chart, first, Len(chart)) \o <<At(now, still)>>

\* getChartData before SimplifyTo thins it to 20 points.
GetChartData(frame) ==
  LET first == SelectInSeq(chart, LAMBDA x : x.at >= StartOf(frame))
      still == Last(chart).price
  IN IF chart = <<>> THEN <<At(now - Gap, One), At(now, One)>>
     ELSE IF first = 0 THEN <<At(now - Gap, still), At(now, still)>>
     ELSE (IF first = 1 THEN <<At(chart[1].at - Gap, One)>> ELSE <<>>)
            \o SubSeq(chart, first, Len(chart)) \o <<At(now, still)>>

\* transformWatchDataFromRepo: the two prices that price24change compares.
PriceChange ==
  LET prices == watch.prices24
      recent == Recent(prices, now)
      i == Len(prices) - Len(recent)
  IN IF recent = <<>> THEN [from |-> 0, to |-> 0]
     ELSE [from |-> prices[IF i < 1 THEN 1 ELSE i].price, to |-> Last(recent).price]

Undefined == -1
NaN == -2

\* One turn of the reduce: a deal older than a day returns nothing.
AddVolume(acc, deal) ==
  IF now - deal.at >= Day THEN Undefined
  ELSE IF acc < 0 THEN NaN
  ELSE acc + deal.usd

Volume24 ==
  LET deals == watch.deals24
      sum[n \in 0 .. Len(deals)] == IF n = 0 THEN 0 ELSE AddVolume(sum[n - 1], deals[n])
  IN IF sum[Len(deals)] = Undefined THEN 0 ELSE sum[Len(deals)]

-----------------------------------------------------------------------------
(* Properties. *)

\* The price in force at t, according to a history of prices.
PriceAt(s, t) ==
  LET i == SelectLastInSeq(s, LAMBDA x : x.at <= t)
  IN IF i = 0 THEN One ELSE s[i].price

\* Whatever the frame and however long ago the last trade was, a chart ends at
\* the price of now, has every tick of its frame, and no point of it shows a
\* price that was not in force at that time.
ChartTrue ==
  \A frame \in DOMAIN Frames \cup {"all"} :
    LET shown == GetChartData(frame)
        ticks == {chart[i] : i \in DOMAIN chart}
        points == {shown[i] : i \in DOMAIN shown}
    IN /\ Last(shown) = At(now, IF chart = <<>> THEN One ELSE Last(chart).price)
       /\ {t \in ticks : t.at >= StartOf(frame)} \subseteq points
       /\ \A p \in points : p \in ticks \/ p.price = PriceAt(chart, p.at)

VolumeOf(deals) ==
  LET sum[n \in 0 .. Len(deals)] == IF n = 0 THEN 0 ELSE sum[n - 1] + deals[n].usd
  IN sum[Len(deals)]

\* The change of a day compares the price of now with the one in force a day
\* ago, although most older prices are forgotten with each new one and the time
\* of the request is another; it is zero when there was none of that day.  The
\* volume of a day is the sum of its deals, although deals are dropped from the
\* list at the time of the next one; or it is not a number, and only so while
\* the list keeps a deal that has expired since.
DayAgrees ==
  /\ IF \E i \in DOMAIN priced : now - priced[i].at < Day
     THEN PriceChange = [from |-> PriceAt(priced, now - Day), to |-> Last(priced).price]
     ELSE PriceChange.from = PriceChange.to
  /\ \/ Volume24 = VolumeOf(Recent(dealt, now))
     \/ Volume24 = NaN /\ \E i \in DOMAIN watch.deals24 : now - watch.deals24[i].at >= Day
=============================================================================
