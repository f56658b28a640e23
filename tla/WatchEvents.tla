----------------------------- MODULE WatchEvents -----------------------------
(***************************************************************************)
(* WatchesCacheService and AuctionService: the events that change a watch  *)
(* and its proposals, and the cached list of watches.                      *)
(*                                                                         *)
(* One watch, and one run of the cron job at a time: runs that overlap can *)
(* handle events out of order and lose a sum (README).  Requests load the  *)
(* list and save the prices of the watch between any two steps.            *)
(***************************************************************************)
EXTENDS Integers, Sequences

CONSTANTS
  Tick,          \* the run of the cron job
  Requests,      \* requests that load the list or store a price at once
  MaxProposals,  \* bound: auctions of the watch
  MaxPrice,      \* bound: shares the watch is sold for, and bids
  MaxEdits,      \* bound: EditWatch events
  Window,        \* how long after its start a watch on sale is shown
  MaxTime,       \* bound: the clock
  MaxLog,        \* bound: events not taken yet
  MaxLosses      \* bound: events skipped, failures and crashes

ASSUME WatchAssumption ==
  /\ Tick \notin Requests
  /\ {MaxProposals, MaxPrice, MaxLog, Window} \subseteq Nat \ {0}
  /\ {MaxTime, MaxEdits, MaxLosses} \subseteq Nat

VARIABLES
  now,       \* the clock
  phase,     \* contract: none, funding, trading, sold, canceled
  left,      \* contract: shares not sold yet
  bids,      \* contract: state and price of each proposal
  edits,     \* contract: EditWatch events so far
  log,       \* events not taken yet, in order
  watch,     \* watches collection
  proposal,  \* proposals collection
  cache,     \* watchesCache: status shown, and proposals accepted
  old,       \* the cache is older than ten seconds
  worker,    \* what the tick and each request are at
  losses,    \* events skipped, failures and crashes so far
  lost       \* history: what events cut short had still to write

chain  == <<phase, left, bids, edits, log>>
stored == <<watch, proposal>>
cached == <<cache, old>>
vars == <<now, chain, stored, cached, worker, losses, lost>>

Proposals == 1 .. MaxProposals
Workers == {Tick} \cup Requests

NoWatch == [status |-> "none", shares |-> 0, tradeAllowed |-> FALSE,
            auctionStatus |-> "none", startTime |-> -1]
NoProposal == [state |-> "none", price |-> 0]
NoCache == [status |-> "none", sold |-> {}]
NoEvent == [kind |-> "none"]

\* read and changed are a document before and after the code changed it; clean
\* says that no array of the watch was saved since it was read.
Idle == [pc |-> "idle", event |-> NoEvent, todo |-> {}, read |-> NoWatch,
         changed |-> NoWatch, clean |-> FALSE, status |-> "none"]

CountLoss == losses < MaxLosses /\ losses' = losses + 1

Init ==
  /\ now = 0
  /\ phase = "none" /\ left = 0 /\ edits = 0 /\ log = <<>>
  /\ bids = [p \in Proposals |-> NoProposal]
  /\ watch = NoWatch
  /\ proposal = [p \in Proposals |-> NoProposal]
  /\ cache = NoCache /\ old = FALSE
  /\ worker = [w \in Workers |-> Idle]
  /\ losses = 0 /\ lost = {}

-----------------------------------------------------------------------------
(* The contract. *)

Emit(e) ==
  /\ Len(log) < MaxLog
  /\ log' = Append(log, e)
  /\ UNCHANGED <<now, stored, cached, worker, losses, lost>>

ChainSale(kind, price, start) ==
  /\ phase' = "funding" /\ left' = price
  /\ Emit([kind |-> kind, price |-> price, startTime |-> start])
  /\ UNCHANGED bids

ChainAddWatch(price, start) ==
  /\ phase = "none"
  /\ ChainSale("AddWatch", price, start)
  /\ UNCHANGED edits

\* A sale is edited before the first share is bought.
ChainEditWatch(price, start) ==
  /\ phase = "funding"
  /\ left # 0 /\ edits \in 0 .. MaxEdits - 1
  /\ ChainSale("EditWatch", price, start)
  /\ edits' = edits + 1

\* After the first purchase there are no more edits.
ChainBuyShares(amount) ==
  /\ phase = "funding" /\ amount <= left
  /\ left' = left - amount /\ edits' = MaxEdits
  /\ Emit([kind |-> "BuyShares", amount |-> amount])
  /\ UNCHANGED <<phase, bids>>

ChainTradeAllowed ==
  /\ phase = "funding" /\ left = 0
  /\ phase' = "trading"
  /\ Emit([kind |-> "TradeAllowed"])
  /\ UNCHANGED <<left, bids, edits>>

ChainRevertFunding ==
  /\ phase = "funding"
  /\ phase' = "canceled"
  /\ Emit([kind |-> "RevertFunding"])
  /\ UNCHANGED <<left, bids, edits>>

Bid(p, state, price, kind) ==
  /\ bids' = [bids EXCEPT ![p] = [state |-> state, price |-> price]]
  /\ Emit([kind |-> kind, proposalId |-> p, price |-> price])
  /\ UNCHANGED <<left, edits>>

\* One proposal at a time; a higher bid takes it over.
ChainProposalCreated(p, price) ==
  /\ phase = "trading"
  /\ \A q \in Proposals : q < p => bids[q].state = "CANCELLED"
  /\ bids[p].state \in {"none", "ACTIVE"} /\ price > bids[p].price
  /\ Bid(p, "ACTIVE", price, "ProposalCreated")
  /\ UNCHANGED phase

ChainProposalCanceled(p) ==
  /\ bids[p].state = "ACTIVE"
  /\ Bid(p, "CANCELLED", bids[p].price, "ProposalCanceled")
  /\ UNCHANGED phase

ChainProposalAccepted(p) ==
  /\ bids[p].state = "ACTIVE"
  /\ Bid(p, "ACCEPTED", bids[p].price, "ProposalAccepted")
  /\ phase' = "sold"

Tock ==
  /\ now < MaxTime
  /\ now' = now + 1
  /\ UNCHANGED <<chain, stored, cached, worker, losses, lost>>

-----------------------------------------------------------------------------
(* The collections. *)

\* Mutant of Merge: the document is written as a whole.
Whole(read, changed) == changed

\* save writes the fields that the code changed.
Merge(read, changed) ==
  [f \in DOMAIN watch |-> IF changed[f] = read[f] THEN watch[f] ELSE changed[f]]

Remaining(shares, amount) == shares - amount

\* The status of a watch on sale is that of the moment the event is handled.
OnSale(start) == IF start > now THEN "Waiting" ELSE "Presale"

NewWatch(e) ==
  [status |-> OnSale(e.startTime), shares |-> e.price, tradeAllowed |-> FALSE,
   auctionStatus |-> "NOT_STARTED", startTime |-> e.startTime]

\* What the handler of an event makes of the watch it has read.
Handled(doc, e) ==
  CASE e.kind = "EditWatch" ->
         [doc EXCEPT !.status = OnSale(e.startTime), !.shares = e.price]
    [] e.kind = "BuyShares" ->
         [doc EXCEPT !.shares = Remaining(@, e.amount)]
    [] e.kind = "TradeAllowed" ->
         [doc EXCEPT !.status = "Trading", !.tradeAllowed = TRUE]
    [] e.kind = "RevertFunding" -> [doc EXCEPT !.status = "Canceled"]
    [] e.kind = "ProposalCanceled" -> [doc EXCEPT !.auctionStatus = "CANCELED"]

-----------------------------------------------------------------------------
(* Handlers. *)

OfWatch == {"AddWatch", "EditWatch", "BuyShares", "TradeAllowed",
            "RevertFunding", "ProposalCanceled"}

\* What an event has to write.
Todo(e) ==
  CASE e.kind = "AddWatch" -> {"status", "shares", "auction", "proposal"}
    [] e.kind = "EditWatch" -> {"status", "shares"}
    [] e.kind = "BuyShares" -> {"shares"}
    [] e.kind \in {"TradeAllowed", "RevertFunding"} -> {"status"}
    [] e.kind \in {"ProposalCreated", "ProposalCanceled"} -> {"auction", "proposal"}
    [] e.kind = "ProposalAccepted" -> {"status", "auction", "proposal"}

At(w, pc) == worker[w].pc = pc

To(w, pc, todo) == worker' = [worker EXCEPT ![w].pc = pc, ![w].todo = todo]

Ends(w) == worker' = [worker EXCEPT ![w] = Idle]

BeginEvent ==
  /\ worker[Tick] = Idle /\ log # <<>>
  /\ log' = Tail(log)
  /\ LET e == Head(log) IN
       worker' = [worker EXCEPT ![Tick] =
         [Idle EXCEPT !.event = e, !.todo = Todo(e),
            !.pc = IF e.kind \in OfWatch THEN "findWatch"
                   ELSE IF e.kind = "ProposalCreated" THEN "findProposal"
                   ELSE "acceptWatch"]]
  /\ UNCHANGED <<now, phase, left, bids, edits, stored, cached, losses, lost>>

\* An event that is recorded and not handed over (a crash, an answer lost).
SkipEvent ==
  /\ worker[Tick] = Idle /\ log # <<>>
  /\ CountLoss
  /\ log' = Tail(log)
  /\ lost' = lost \cup Todo(Head(log))
  /\ UNCHANGED <<now, phase, left, bids, edits, stored, cached, worker>>

\* findOne of the watch: without one the handler returns or, the document
\* being null, throws; AddWatch returns with one.
NothingToDo ==
  /\ At(Tick, "findWatch")
  /\ (watch = NoWatch) # (worker[Tick].event.kind = "AddWatch")
  /\ Ends(Tick)
  /\ UNCHANGED <<now, chain, stored, cached, losses, lost>>

FindWatch ==
  /\ At(Tick, "findWatch")
  /\ (watch = NoWatch) = (worker[Tick].event.kind = "AddWatch")
  /\ LET e == worker[Tick].event IN
       worker' = [worker EXCEPT
         ![Tick].pc = CASE e.kind = "AddWatch" -> "insertWatch"
                        [] e.kind = "ProposalCanceled" -> "findProposal"
                        [] OTHER -> "saveWatch",
         ![Tick].read = watch,
         ![Tick].changed = IF e.kind = "AddWatch" THEN NewWatch(e)
                           ELSE Handled(watch, e)]
  /\ UNCHANGED <<now, chain, stored, cached, losses, lost>>

InsertWatch ==
  /\ At(Tick, "insertWatch")
  /\ watch' = worker[Tick].changed
  /\ To(Tick, "reload", {})
  /\ UNCHANGED <<now, chain, proposal, cached, losses, lost>>

\* EditWatch ends here without a reload of the list, TradeAllowed goes on to
\* addPrice24, and ProposalCanceled to the proposal.
SaveWatch ==
  /\ At(Tick, "saveWatch")
  /\ LET kind == worker[Tick].event.kind IN
       /\ watch' = Merge(worker[Tick].read, worker[Tick].changed)
       /\ CASE kind = "EditWatch" -> Ends(Tick)
            [] kind = "TradeAllowed" -> To(Tick, "findPrices", {})
            [] kind = "ProposalCanceled" -> To(Tick, "saveProposal", {"proposal"})
            [] OTHER -> To(Tick, "reload", {})
  /\ UNCHANGED <<now, chain, proposal, cached, losses, lost>>

\* findOne of the proposal.  An accepted one that is missing is null and throws.
FindProposal ==
  /\ At(Tick, "findProposal")
  /\ LET e      == worker[Tick].event
         exists == proposal[e.proposalId] # NoProposal
     IN \/ /\ exists
           /\ CASE e.kind = "ProposalCanceled" ->
                     To(Tick, "saveWatch", {"auction", "proposal"})
                [] OTHER -> To(Tick, "saveProposal", {"proposal"})
        \/ /\ ~ exists /\ e.kind = "ProposalCreated"
           /\ To(Tick, "insertProposal", {"auction", "proposal"})
        \/ /\ ~ exists /\ e.kind # "ProposalCreated"
           /\ Ends(Tick)
  /\ UNCHANGED <<now, chain, stored, cached, losses, lost>>

InsertProposal ==
  /\ At(Tick, "insertProposal")
  /\ LET e == worker[Tick].event IN
       proposal' = [proposal EXCEPT
                      ![e.proposalId] = [state |-> "ACTIVE", price |-> e.price]]
  /\ To(Tick, "activate", {"auction"})
  /\ UNCHANGED <<now, chain, watch, cached, losses, lost>>

\* updateOne of the watch, which may not be there.
Update(status, auctionStatus) ==
  watch' = IF watch = NoWatch THEN NoWatch
           ELSE [watch EXCEPT !.status = status, !.auctionStatus = auctionStatus]

Activate ==
  /\ At(Tick, "activate")
  /\ Update(watch.status, "ACTIVE")
  /\ Ends(Tick)
  /\ UNCHANGED <<now, chain, proposal, cached, losses, lost>>

\* Mutant of AcceptWatch: the auction is accepted and the watch not sold.
AcceptAuction ==
  /\ At(Tick, "acceptWatch")
  /\ Update(watch.status, "ACCEPTED")
  /\ To(Tick, "findProposal", {"proposal"})
  /\ UNCHANGED <<now, chain, proposal, cached, losses, lost>>

AcceptWatch ==
  /\ At(Tick, "acceptWatch")
  /\ Update("Sold", "ACCEPTED")
  /\ To(Tick, "findProposal", {"proposal"})
  /\ UNCHANGED <<now, chain, proposal, cached, losses, lost>>

\* Mutant of Saved: a proposal that was outbid keeps its price.
SavedState(doc, e) ==
  [doc EXCEPT !.state = CASE e.kind = "ProposalCreated" -> @
                          [] e.kind = "ProposalCanceled" -> "CANCELLED"
                          [] e.kind = "ProposalAccepted" -> "ACCEPTED"]

\* Outbid, canceled (which leaves the price) or accepted.
Saved(doc, e) ==
  [doc EXCEPT !.state = CASE e.kind = "ProposalCreated" -> @
                          [] e.kind = "ProposalCanceled" -> "CANCELLED"
                          [] e.kind = "ProposalAccepted" -> "ACCEPTED",
              !.price = IF e.kind = "ProposalCanceled" THEN @ ELSE e.price]

SaveProposal ==
  /\ At(Tick, "saveProposal")
  /\ LET e == worker[Tick].event IN
       proposal' = [proposal EXCEPT ![e.proposalId] = Saved(@, e)]
  /\ Ends(Tick)
  /\ UNCHANGED <<now, chain, watch, cached, losses, lost>>

-----------------------------------------------------------------------------
(* addPrice24, called by TradeAllowed and by loads of an order book. *)

BeginPrice(r) ==
  /\ worker[r] = Idle
  /\ watch # NoWatch
  /\ To(r, "findPrices", {})
  /\ UNCHANGED <<now, chain, stored, cached, losses, lost>>

FindPrices(w) ==
  /\ At(w, "findPrices")
  /\ worker' = [worker EXCEPT ![w].pc = "savePrices", ![w].clean = TRUE,
                              ![w].read = watch, ![w].changed = watch]
  /\ UNCHANGED <<now, chain, stored, cached, losses, lost>>

\* save assigns prices24, so the documents others have read are outdated now.
SavePrices(w) ==
  /\ At(w, "savePrices")
  /\ worker[w].clean
  /\ watch' = Merge(worker[w].read, worker[w].changed)
  /\ worker' = [v \in Workers |->
       IF v # w THEN [worker[v] EXCEPT !.clean = FALSE]
       ELSE IF w = Tick THEN [worker[w] EXCEPT !.pc = "reload", !.clean = FALSE]
       ELSE Idle]
  /\ UNCHANGED <<now, chain, proposal, cached, losses, lost>>

\* VersionError: the list is not loaded either.
StalePrices(w) ==
  /\ At(w, "savePrices")
  /\ ~ worker[w].clean
  /\ Ends(w)
  /\ UNCHANGED <<now, chain, stored, cached, losses, lost>>

-----------------------------------------------------------------------------
(* The cached list. *)

\* Mutant of ReadList: a list that shows something is not loaded again.
ReadListOnce(r) ==
  /\ worker[r] = Idle
  /\ cache.status = "none"
  /\ To(r, "reload", {})
  /\ UNCHANGED <<now, chain, stored, cached, losses, lost>>

\* A request finds the list empty or older than ten seconds.
ReadList(r) ==
  /\ worker[r] = Idle
  /\ cache.status = "none" \/ old
  /\ To(r, "reload", {})
  /\ UNCHANGED <<now, chain, stored, cached, losses, lost>>

\* Canceled sales are never shown, sales for a time after their start.
Shown ==
  IF \/ watch.status \in {"Trading", "Sold"}
     \/ watch.status \in {"Waiting", "Presale"} /\ watch.startTime > now - Window
  THEN watch.status ELSE "none"

Sales == {p \in Proposals : proposal[p].state = "ACCEPTED"}

LoadWatches(w) ==
  /\ At(w, "reload")
  /\ worker' = [worker EXCEPT ![w].pc = "sales", ![w].status = Shown]
  /\ UNCHANGED <<now, chain, stored, cached, losses, lost>>

StoreList(w) ==
  /\ At(w, "sales")
  /\ cache' = [status |-> worker[w].status, sold |-> Sales]
  /\ old' = FALSE
  /\ Ends(w)
  /\ UNCHANGED <<now, chain, stored, losses, lost>>

TenSeconds ==
  /\ ~ old /\ old' = TRUE
  /\ UNCHANGED <<now, chain, stored, cache, worker, losses, lost>>

-----------------------------------------------------------------------------
\* A call to the database throws.
WorkerFails(w) ==
  /\ worker[w] # Idle
  /\ CountLoss
  /\ Ends(w)
  /\ lost' = lost \cup worker[w].todo
  /\ UNCHANGED <<now, chain, stored, cached>>

Crash ==
  /\ CountLoss
  /\ lost' = lost \cup worker[Tick].todo
  /\ worker' = [w \in Workers |-> Idle]
  /\ cache' = NoCache /\ old' = FALSE
  /\ UNCHANGED <<now, chain, stored>>

Chain ==
  \/ \E price \in 1 .. MaxPrice, start \in 0 .. 1 :
       ChainAddWatch(price, start) \/ ChainEditWatch(price, start)
  \/ \E amount \in 1 .. MaxPrice : ChainBuyShares(amount)
  \/ ChainTradeAllowed \/ ChainRevertFunding
  \/ \E p \in Proposals :
       \/ \E price \in 1 .. MaxPrice : ChainProposalCreated(p, price)
       \/ ChainProposalCanceled(p) \/ ChainProposalAccepted(p)

Handle ==
  \/ NothingToDo \/ FindWatch \/ InsertWatch \/ SaveWatch
  \/ FindProposal \/ InsertProposal \/ Activate \/ AcceptWatch \/ SaveProposal

Step(w) ==
  FindPrices(w) \/ SavePrices(w) \/ StalePrices(w) \/ LoadWatches(w) \/ StoreList(w)

Next ==
  \/ Chain \/ Tock
  \/ BeginEvent \/ SkipEvent \/ Handle
  \/ \E r \in Requests : BeginPrice(r) \/ ReadList(r)
  \/ \E w \in Workers : Step(w) \/ WorkerFails(w)
  \/ TenSeconds \/ Crash

Spec == Init /\ [][Next]_vars

\* The cron job keeps firing, the event loop resumes every await, ten seconds
\* pass, and somebody asks for the list whenever it is too old.
Fairness ==
  /\ WF_vars(BeginEvent \/ Handle \/ Step(Tick))
  /\ \A r \in Requests : WF_vars(Step(r)) /\ SF_vars(ReadList(r))
  /\ WF_vars(TenSeconds)

FairSpec == Spec /\ Fairness

-----------------------------------------------------------------------------
(* Properties. *)

Statuses == {"none", "Waiting", "Presale", "Trading", "Sold", "Canceled"}

\* Types; shares may be oversold in the collection when an EditWatch is lost.
TypeOK ==
  /\ watch.status \in Statuses
  /\ watch.shares \in -MaxPrice .. MaxPrice
  /\ watch.tradeAllowed => watch.status \in {"Trading", "Sold"}
  /\ cache.status \in Statuses
  /\ lost \subseteq {"status", "shares", "auction", "proposal"}

\* No event has this still to write, and none was cut short before it did.
Settled(what) ==
  /\ what \notin lost \cup worker[Tick].todo
  /\ \A i \in DOMAIN log : what \notin Todo(log[i])

StatusOf ==
  CASE phase = "none" -> {"none"}
    [] phase = "funding" -> {"Waiting", "Presale"}
    [] phase = "trading" -> {"Trading"}
    [] phase = "sold" -> {"Sold"}
    [] phase = "canceled" -> {"Canceled"}

AuctionOf ==
  LET made == {p \in Proposals : bids[p] # NoProposal}
  IN IF made = {} THEN "NOT_STARTED"
     ELSE CASE \E p \in made : bids[p].state = "ACTIVE" -> "ACTIVE"
            [] \E p \in made : bids[p].state = "ACCEPTED" -> "ACCEPTED"
            [] OTHER -> "CANCELED"

\* Each field of the watch is what the contract says, as soon as the events
\* that write this field are handled, unless one of them was cut short before
\* it wrote it; whatever was cut short elsewhere, and whatever prices other
\* requests save from documents read before.
WatchAgrees ==
  /\ Settled("status") => watch.status \in StatusOf
  /\ Settled("shares") => watch.shares = left
  /\ Settled("auction") /\ watch # NoWatch => watch.auctionStatus = AuctionOf

\* So is each proposal: state, and price of the last bid.
ProposalsAgree == Settled("proposal") => proposal = bids

Rank(status) ==
  CASE status = "none" -> 0 [] status \in {"Waiting", "Presale"} -> 1
    [] status \in {"Trading", "Canceled"} -> 2 [] status = "Sold" -> 3

\* A watch that trades, is sold or was canceled never goes back, even when
\* events are lost: a price saved from an older document must not undo it.
NeverBack ==
  [][/\ Rank(watch'.status) >= Rank(watch.status)
     /\ watch.status = "Canceled" => watch'.status = "Canceled"]_watch

\* Loads overlap, fail, and read watches and proposals one after the other, and
\* EditWatch and auctions do not load the list at all; when the collections
\* rest the list comes to show them.
ListCatchesUp == <>[](cache = [status |-> Shown, sold |-> Sales])
=============================================================================
