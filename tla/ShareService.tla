---------------------------- MODULE ShareService ----------------------------
(***************************************************************************)
(* ShareService: how many shares of a watch each user holds, booked from   *)
(* the contract's events (event side) and, for ten minutes after a fill    *)
(* request, from the request itself (handle side).                         *)
(*                                                                         *)
(* A worker is a tick of the cron job handling an event, or a fill request *)
(* at updateHandleShares.  Both look the users' shares up one after the    *)
(* other, create those that are absent, compute the new amounts without    *)
(* awaiting and write them one user after the other.  A step is what runs  *)
(* between two awaits.  Average prices are not here.                       *)
(***************************************************************************)
EXTENDS Integers, Sequences, SequencesExt

CONSTANTS
  Users,
  Supply,        \* shares the watch is sold in
  Ticks,         \* runs of the cron job that may be handling an event at once
  Requests,      \* fill requests in progress at once
  MaxLog,        \* bound: events of the contract
  MaxAsked,      \* bound: fill requests
  MaxTransfers,  \* bound: transfers outside the exchange
  MaxLosses      \* bound: events skipped, workers that fail, crashes

ASSUME ShareAssumption ==
  /\ Supply \in Nat
  /\ MaxLog \in Nat /\ MaxAsked \in Nat /\ MaxTransfers \in Nat /\ MaxLosses \in Nat
  /\ Ticks \cap Requests = {}

VARIABLES
  unsold,     \* contract: shares nobody has bought yet
  balance,    \* contract: shares of each user
  transfers,  \* contract: transfers so far
  mined,      \* contract: events so far
  log,        \* BuyShares and OrderFilled events not taken yet, in order; a
              \* tick takes each once (BcEventService)
  share,      \* shares collection
  asked,      \* fill requests so far
  losses,     \* events skipped, failures and crashes so far
  task,       \* what each worker is at
  strayed     \* history: users an event of whom was not booked, or who moved
              \* shares outside the exchange

contract == <<unsold, balance, transfers, mined>>
vars == <<contract, log, share, asked, losses, task, strayed>>

Workers == Ticks \cup Requests

Job == [kind : {"BuyShares", "OrderFilled", "handle"}, maker : Users,
        taker : Users, orderType : {"BuyLimit", "SellLimit"}, shares : 1 .. Supply]

NoShare == [eventAmount |-> -1, handleAmount |-> -1, fresh |-> FALSE]

\* The schema's defaults; handleUpdatedAt defaults to the time the process
\* loaded the schema, which may or may not be less than ten minutes ago.
NewShares == [eventAmount : {0}, handleAmount : {0}, fresh : BOOLEAN]

Stored == {u \in Users : share[u] # NoShare}

\* Where a job is: the users whose shares are still looked up, the shares got,
\* the updates left.
At(pc, job, todo, got, writes) ==
  [pc |-> pc, job |-> job, todo |-> todo, got |-> got, writes |-> writes]

Idle == At("idle", {}, <<>>, <<>>, <<>>)

\* Users whose shares a job looks up, in order.
Parties(job) ==
  IF job.kind = "BuyShares" THEN <<job.taker>> ELSE <<job.maker, job.taker>>

-----------------------------------------------------------------------------
(* Amounts. *)

AddShare(amount, shares) == amount + shares

\* Mutant of SubShare: selling more than is booked is not stopped at zero.
SubShareBelowZero(amount, shares) == amount - shares

SubShare(amount, shares) == IF shares >= amount THEN 0 ELSE amount - shares

\* getHandleOrEventAvgSharePrice: what a fill request starts from.
GetHandleOrEvent(s) == IF s.fresh THEN s.handleAmount ELSE s.eventAmount

\* The maker of a buy order buys, the maker of a sell order sells.
GetNewShareFromEvent(job, makerAmount, takerAmount) ==
  IF job.orderType = "BuyLimit"
  THEN [maker |-> AddShare(makerAmount, job.shares),
        taker |-> SubShare(takerAmount, job.shares)]
  ELSE [maker |-> SubShare(makerAmount, job.shares),
        taker |-> AddShare(takerAmount, job.shares)]

\* The updateOne calls of a job, given the shares it read in Parties' order.
Updates(job, got) ==
  CASE job.kind = "BuyShares" ->
         <<[user |-> job.taker, side |-> "both",
            amount |-> AddShare(got[1].eventAmount, job.shares)]>>
    [] job.kind = "OrderFilled" ->
         LET new == GetNewShareFromEvent(job, got[1].eventAmount, got[2].eventAmount)
         IN <<[user |-> job.maker, side |-> "event", amount |-> new.maker],
              [user |-> job.taker, side |-> "event", amount |-> new.taker]>>
    [] job.kind = "handle" ->
         LET new == GetNewShareFromEvent(job, GetHandleOrEvent(got[1]),
                                         GetHandleOrEvent(got[2]))
         IN <<[user |-> job.maker, side |-> "handle", amount |-> new.maker],
              [user |-> job.taker, side |-> "handle", amount |-> new.taker]>>

\* Mutant of Updated: a fill request writes the event side too.
UpdatedBoth(s, w) ==
  CASE w.side = "event"  -> [s EXCEPT !.eventAmount = w.amount]
    [] w.side = "both"   -> [s EXCEPT !.eventAmount = w.amount,
                                      !.handleAmount = w.amount]
    [] w.side = "handle" -> [s EXCEPT !.eventAmount = w.amount,
                                      !.handleAmount = w.amount, !.fresh = TRUE]

\* A share after an updateOne; only updateHandleShares sets handleUpdatedAt.
Updated(s, w) ==
  CASE w.side = "event"  -> [s EXCEPT !.eventAmount = w.amount]
    [] w.side = "both"   -> [s EXCEPT !.eventAmount = w.amount,
                                      !.handleAmount = w.amount]
    [] w.side = "handle" -> [s EXCEPT !.handleAmount = w.amount, !.fresh = TRUE]

-----------------------------------------------------------------------------
Init ==
  /\ unsold = Supply
  /\ balance = [u \in Users |-> 0]
  /\ transfers = 0
  /\ mined = 0 /\ log = <<>>
  /\ share = [u \in Users |-> NoShare]
  /\ asked = 0 /\ losses = 0
  /\ task = [w \in Workers |-> Idle]
  /\ strayed = {}

-----------------------------------------------------------------------------
(* The contract.  Maker and taker of a trade differ. *)

ChainBuyShares(u, n) ==
  /\ mined < MaxLog /\ mined' = mined + 1
  /\ n <= unsold
  /\ unsold' = unsold - n
  /\ balance' = [balance EXCEPT ![u] = @ + n]
  /\ log' = Append(log, [kind |-> "BuyShares", maker |-> u, taker |-> u,
                         orderType |-> "BuyLimit", shares |-> n])
  /\ UNCHANGED <<transfers, share, asked, losses, task, strayed>>

ChainFill(maker, taker, orderType, n) ==
  LET buyer  == IF orderType = "BuyLimit" THEN maker ELSE taker
      seller == IF orderType = "BuyLimit" THEN taker ELSE maker
  IN /\ mined < MaxLog /\ mined' = mined + 1
     /\ maker # taker
     /\ n <= balance[seller]
     /\ balance' = [balance EXCEPT ![buyer] = @ + n, ![seller] = @ - n]
     /\ log' = Append(log, [kind |-> "OrderFilled", maker |-> maker,
                            taker |-> taker, orderType |-> orderType, shares |-> n])
     /\ UNCHANGED <<unsold, transfers, share, asked, losses, task,
                    strayed>>

\* Shares are tokens and can be sent to anyone; the service does not see it.
ChainTransfer(u, v) ==
  /\ transfers < MaxTransfers
  /\ u # v /\ balance[u] > 0
  /\ transfers' = transfers + 1
  /\ balance' = [balance EXCEPT ![u] = @ - 1, ![v] = @ + 1]
  /\ strayed' = strayed \cup {u, v}
  /\ UNCHANGED <<unsold, mined, log, share, asked, losses, task>>

-----------------------------------------------------------------------------
(* What workers do. *)

CountLoss == losses < MaxLosses /\ losses' = losses + 1

\* processEvent hands the next event over to ShareService.
BeginEvent(t) ==
  /\ task[t].pc = "idle"
  /\ log # <<>>
  /\ log' = Tail(log)
  /\ task' = [task EXCEPT ![t] =
                At("read", Head(log), Parties(Head(log)), <<>>, <<>>)]
  /\ UNCHANGED <<contract, share, asked, losses, strayed>>

\* ... unless the filled order is not in the orders collection, or what runs
\* before it throws.
SkipEvent(t) ==
  /\ task[t].pc = "idle"
  /\ log # <<>>
  /\ log' = Tail(log)
  /\ CountLoss
  /\ strayed' = strayed \cup ToSet(Parties(Head(log)))
  /\ UNCHANGED <<contract, share, asked, task>>

\* A fill request arrives at updateHandleShares; its trade may not be mined.
BeginRequest(r, job) ==
  /\ asked < MaxAsked
  /\ asked' = asked + 1
  /\ task[r].pc = "idle"
  /\ job.kind = "handle"
  /\ task' = [task EXCEPT ![r] = At("read", job, Parties(job), <<>>, <<>>)]
  /\ UNCHANGED <<contract, log, share, losses, strayed>>

\* A share has been read: look up the next one, or compute the updates.
Got(w, s) ==
  LET k   == task[w]
      got == Append(k.got, s)
  IN task' = [task EXCEPT ![w] =
                IF Len(k.todo) > 1
                THEN At("read", k.job, Tail(k.todo), got, <<>>)
                ELSE At("write", k.job, <<>>, <<>>, Updates(k.job, got))]

\* getShareFromDB: findOne.
ReadShare(w) ==
  /\ task[w].pc = "read"
  /\ LET k == task[w]
         u == Head(k.todo)
     IN \/ u \in Stored /\ Got(w, share[u])
        \/ /\ u \notin Stored
           /\ task' = [task EXCEPT ![w] = At("create", k.job, k.todo, k.got, <<>>)]
  /\ UNCHANGED <<contract, log, share, asked, losses, strayed>>

\* getShareFromDB: save of a new share.
CreateShare(w) ==
  /\ task[w].pc = "create"
  /\ LET u == Head(task[w].todo) IN
       /\ u \notin Stored
       /\ \E new \in NewShares :
            /\ share' = [share EXCEPT ![u] = new]
            /\ Got(w, new)
  /\ UNCHANGED <<contract, log, asked, losses, strayed>>

\* updateOne of one user after the other.
WriteShare(w) ==
  /\ task[w].pc = "write"
  /\ LET k == task[w]
         u == Head(k.writes).user
     IN /\ share' = [share EXCEPT ![u] = Updated(@, Head(k.writes))]
        /\ task' = [task EXCEPT ![w] =
                      IF Len(k.writes) > 1
                      THEN At("write", k.job, <<>>, <<>>, Tail(k.writes))
                      ELSE Idle]
  /\ UNCHANGED <<contract, log, asked, losses, strayed>>

\* Users whose event a worker has still to book.
Unbooked(w) ==
  IF w \in Requests \/ task[w].pc = "idle" THEN {}
  ELSE IF task[w].pc = "write"
       THEN {task[w].writes[i].user : i \in DOMAIN task[w].writes}
       ELSE ToSet(Parties(task[w].job))

GiveUp(w) ==
  /\ strayed' = strayed \cup Unbooked(w)
  /\ task' = [task EXCEPT ![w] = Idle]
  /\ UNCHANGED <<contract, log, share, asked>>

\* getShareFromDB: the save meets the unique index on watchId and address,
\* because another worker created the share since it was looked up.
DuplicateShare(w) ==
  /\ task[w].pc = "create"
  /\ Head(task[w].todo) \in Stored
  /\ GiveUp(w)
  /\ UNCHANGED losses

\* Any call to the database throws.
TaskFails(w) ==
  /\ task[w].pc # "idle"
  /\ CountLoss
  /\ GiveUp(w)

-----------------------------------------------------------------------------
(* Time and the process. *)

\* Ten minutes have passed since handleUpdatedAt.
Expire(u) ==
  /\ share[u].fresh
  /\ share' = [share EXCEPT ![u].fresh = FALSE]
  /\ UNCHANGED <<contract, log, asked, losses, task, strayed>>

Crash ==
  /\ CountLoss
  /\ strayed' = strayed \cup UNION {Unbooked(w) : w \in Workers}
  /\ task' = [w \in Workers |-> Idle]
  /\ UNCHANGED <<contract, log, share, asked>>

Contract ==
  \/ \E u \in Users, n \in 1 .. Supply : ChainBuyShares(u, n)
  \/ \E u, v \in Users, o \in {"BuyLimit", "SellLimit"}, n \in 1 .. Supply :
       ChainFill(u, v, o, n)
  \/ \E u, v \in Users : ChainTransfer(u, v)

Work(w) ==
  \/ ReadShare(w) \/ CreateShare(w) \/ DuplicateShare(w)
  \/ WriteShare(w) \/ TaskFails(w)

Next ==
  \/ Contract
  \/ \E t \in Ticks : BeginEvent(t) \/ SkipEvent(t)
  \/ \E r \in Requests, job \in Job : BeginRequest(r, job)
  \/ \E w \in Workers : Work(w)
  \/ \E u \in Users : Expire(u)
  \/ Crash

Spec == Init /\ [][Next]_vars

-----------------------------------------------------------------------------
(* Properties. *)

\* Types; amounts are never negative.
TypeOK ==
  /\ unsold \in 0 .. Supply
  /\ balance \in [Users -> 0 .. Supply]
  /\ log \in Seq(Job)
  /\ share \in [Users -> [eventAmount : Nat, handleAmount : Nat,
                          fresh : BOOLEAN] \cup {NoShare}]
  /\ \A w \in Workers : task[w].pc \in {"idle", "read", "create", "write"}
  /\ strayed \subseteq Users

EventAmount(u) == IF u \in Stored THEN share[u].eventAmount ELSE 0

\* No event of the user is still to be taken or in the hands of a tick.
Settled(u) ==
  /\ u \notin strayed
  /\ \A i \in DOMAIN log : u \notin ToSet(Parties(log[i]))
  /\ \A t \in Ticks : u \notin Unbooked(t)

\* What is booked for a user from events is what the user holds, whatever fill
\* requests read and write meanwhile, as long as no event of the user was lost
\* and the user traded on the exchange only.
MirrorsChain == \A u \in Users : Settled(u) => EventAmount(u) = balance[u]
=============================================================================
