--------------------------- MODULE WatchEventsProofs ---------------------------
(***************************************************************************)
(* Proofs about WatchEvents, for any number of proposals and requests, any *)
(* prices, edits, losses and crashes, and one run of the cron job.         *)
(***************************************************************************)
EXTENDS WatchEvents, SequenceTheorems, TLAPS

-----------------------------------------------------------------------------
(* Shapes. *)

Whats == {"status", "shares", "auction", "proposal"}

Phases == {"none", "funding", "trading", "sold", "canceled"}

Auctions == {"none", "NOT_STARTED", "ACTIVE", "CANCELED", "ACCEPTED"}

Bids == [state : {"none", "ACTIVE", "CANCELLED", "ACCEPTED"}, price : 0 .. MaxPrice]

Watches == [status : Statuses, shares : Int, tradeAllowed : BOOLEAN,
            auctionStatus : Auctions, startTime : Int]

OfAuction == {"ProposalCreated", "ProposalCanceled", "ProposalAccepted"}

Event ==
  [kind : {"AddWatch", "EditWatch"}, price : 1 .. MaxPrice, startTime : 0 .. 1]
    \cup [kind : {"BuyShares"}, amount : 1 .. MaxPrice]
    \cup [kind : {"TradeAllowed", "RevertFunding"}]
    \cup [kind : OfAuction, proposalId : Proposals, price : 0 .. MaxPrice]

Calm == {"idle", "findPrices", "savePrices", "reload", "sales"}

Pcs == Calm \cup {"findWatch", "insertWatch", "saveWatch", "findProposal", "insertProposal",
                  "activate", "acceptWatch", "saveProposal"}

Work == [pc : Pcs, event : Event \cup {NoEvent}, todo : SUBSET Whats, read : Watches,
         changed : Watches, clean : BOOLEAN, status : Statuses]

WellFormed(b) == b.state = "none" => b = NoProposal

Shapes ==
  /\ log \in Seq(Event)
  /\ watch \in Watches
  /\ proposal \in [Proposals -> Bids]
  /\ \A p \in Proposals : WellFormed(proposal[p])
  /\ cache.status \in Statuses
  /\ worker \in [Workers -> Work]
  /\ lost \subseteq Whats

\* One auction at a time, and none before the watch trades.
ContractOK ==
  /\ phase \in Phases /\ left \in 0 .. MaxPrice /\ edits \in 0 .. MaxEdits
  /\ bids \in [Proposals -> Bids]
  /\ \A p \in Proposals :
       /\ WellFormed(bids[p])
       /\ bids[p].state = "ACTIVE" => phase = "trading"
       /\ bids[p] # NoProposal => phase \in {"trading", "sold"}
       /\ \A q \in Proposals : q < p /\ bids[p] # NoProposal => bids[q].state = "CANCELLED"

-----------------------------------------------------------------------------
(* What the contract goes through from event to event. *)

NoBids == [p \in Proposals |-> NoProposal]

Bidden(b, p, state, price) == [b EXCEPT ![p] = [state |-> state, price |-> price]]

StatusIn(ph) ==
  CASE ph = "none" -> {"none"}
    [] ph = "funding" -> {"Waiting", "Presale"}
    [] ph = "trading" -> {"Trading"}
    [] ph = "sold" -> {"Sold"}
    [] ph = "canceled" -> {"Canceled"}

AuctionIn(b) ==
  LET made == {p \in Proposals : b[p] # NoProposal}
  IN IF made = {} THEN "NOT_STARTED"
     ELSE CASE \E p \in made : b[p].state = "ACTIVE" -> "ACTIVE"
            [] \E p \in made : b[p].state = "ACCEPTED" -> "ACCEPTED"
            [] OTHER -> "CANCELED"

States == [phase : Phases, left : 0 .. MaxPrice, edits : 0 .. MaxEdits,
           bids : [Proposals -> Bids], auction : Auctions]

Contract == [phase |-> phase, left |-> left, edits |-> edits, bids |-> bids,
             auction |-> AuctionIn(bids)]

\* s and t agree on what a field of the collections is about.
Same(what, s, t) ==
  /\ what = "status" => s.phase = t.phase
  /\ what = "shares" => s.left = t.left /\ s.edits = t.edits
  /\ what = "auction" => s.auction = t.auction
  /\ what = "proposal" => s.bids = t.bids

\* The contract is at s, emits e, and is at t.
Emits(s, e, t) ==
  \/ /\ e.kind = "AddWatch"
     /\ s.phase = "none" /\ t.phase = "funding" /\ t.left = e.price
     /\ s.bids = NoBids /\ t.bids = NoBids /\ t.auction = "NOT_STARTED"
  \/ /\ e.kind = "EditWatch"
     /\ s.phase = "funding" /\ t.phase = "funding"
     /\ t.left = e.price /\ s.edits # MaxEdits
  \/ /\ e.kind = "BuyShares"
     /\ s.phase = "funding"
     /\ t.left = s.left - e.amount /\ t.edits = MaxEdits
  \/ e.kind = "TradeAllowed" /\ s.phase = "funding" /\ t.phase = "trading"
  \/ e.kind = "RevertFunding" /\ s.phase = "funding" /\ t.phase = "canceled"
  \/ /\ e.kind = "ProposalCreated"
     /\ s.phase = "trading" /\ t.auction = "ACTIVE"
     /\ \/ s.bids[e.proposalId] = NoProposal
        \/ s.bids[e.proposalId].state = "ACTIVE" /\ s.auction = "ACTIVE"
     /\ t.bids = Bidden(s.bids, e.proposalId, "ACTIVE", e.price)
  \/ /\ e.kind = "ProposalCanceled"
     /\ s.phase = "trading" /\ t.auction = "CANCELED"
     /\ s.bids[e.proposalId].state = "ACTIVE"
     /\ t.bids = Bidden(s.bids, e.proposalId, "CANCELLED", s.bids[e.proposalId].price)
  \/ /\ e.kind = "ProposalAccepted"
     /\ s.phase = "trading" /\ t.phase = "sold" /\ t.auction = "ACCEPTED"
     /\ s.bids[e.proposalId].state = "ACTIVE"
     /\ t.bids = Bidden(s.bids, e.proposalId, "ACCEPTED", e.price)

Follows(s, e, t) ==
  /\ Emits(s, e, t)
  /\ \A what \in Whats \ Todo(e) : Same(what, s, t)

\* f is where the contract was before each event that waits, and is now.
Flat(f) ==
  \A what \in Whats : \A i, j \in 1 .. Len(log) + 1 :
    i <= j /\ (\A k \in i .. j - 1 : what \notin Todo(log[k])) => Same(what, f[i], f[j])

Leads(f) ==
  /\ f \in [1 .. Len(log) + 1 -> States]
  /\ f[Len(log) + 1] = Contract
  /\ \A i \in 1 .. Len(log) : Follows(f[i], log[i], f[i + 1])
  /\ Flat(f)

-----------------------------------------------------------------------------
(* What the collections have of it. *)

\* What is still to be written is that of s, the rest is that of t.
Mixed(s, t, todo) ==
  [phase   |-> IF "status" \in todo THEN s.phase ELSE t.phase,
   left    |-> IF "shares" \in todo THEN s.left ELSE t.left,
   edits   |-> IF "shares" \in todo THEN s.edits ELSE t.edits,
   auction |-> IF "auction" \in todo THEN s.auction ELSE t.auction,
   bids    |-> IF "proposal" \in todo THEN s.bids ELSE t.bids]

\* A status the watch can have by then, whatever was lost.
Reached(status, ph) ==
  /\ status # "none" => ph # "none"
  /\ status = "Trading" => ph \in {"trading", "sold"}
  /\ status = "Sold" => ph = "sold"
  /\ status = "Canceled" => ph = "canceled"

Within(w, l, m) ==
  /\ Reached(w.status, m.phase)
  /\ w.shares \in m.left - MaxPrice .. MaxPrice
  /\ m.edits # MaxEdits => w.shares >= 0
  /\ w.tradeAllowed => w.status \in {"Trading", "Sold"}
  /\ w.status = "none" => w = NoWatch
  /\ w = NoWatch => m.phase = "none" \/ Whats \subseteq l

Made(pr, l, m) ==
  \A p \in Proposals :
    /\ pr[p] # NoProposal => m.bids[p] # NoProposal
    /\ m.bids[p] # NoProposal /\ pr[p] = NoProposal => {"auction", "proposal"} \subseteq l

Agrees(w, pr, l, m) ==
  /\ "status" \notin l => w.status \in StatusIn(m.phase)
  /\ "shares" \notin l => w.shares = m.left
  /\ "auction" \notin l /\ w # NoWatch => w.auctionStatus = m.auction
  /\ "proposal" \notin l => pr = m.bids

Kept(w, pr, l, m) == Within(w, l, m) /\ Made(pr, l, m) /\ Agrees(w, pr, l, m)

\* The watch that an event makes of w.
Prepared(c, e, w) ==
  /\ e.kind \in {"AddWatch", "EditWatch"} =>
       c.status \in {"Waiting", "Presale"} /\ c.shares = e.price
  /\ e.kind = "AddWatch" => ~ c.tradeAllowed /\ c.auctionStatus = "NOT_STARTED"
  /\ e.kind = "BuyShares" => c.shares = w.shares - e.amount
  /\ e.kind = "TradeAllowed" => c.status = "Trading" /\ c.tradeAllowed
  /\ e.kind = "RevertFunding" => c.status = "Canceled"
  /\ e.kind = "ProposalCanceled" => c.auctionStatus = "CANCELED"
  /\ "status" \notin Todo(e) => c.status = w.status
  /\ "shares" \notin Todo(e) => c.shares = w.shares
  /\ "auction" \notin Todo(e) => c.auctionStatus = w.auctionStatus
  /\ e.kind \notin {"AddWatch", "TradeAllowed"} => c.tradeAllowed = w.tradeAllowed

\* What the tick holds at each of its awaits.
Doing(k, w, pr) ==
  /\ k.pc \in Calm => k.todo = {}
  /\ k.pc \notin Calm => k.event \in Event
  /\ k.pc = "savePrices" => k.read = k.changed
  /\ k.pc \in {"findWatch", "insertWatch", "saveWatch", "insertProposal", "acceptWatch"} =>
       k.todo = Todo(k.event)
  /\ k.pc = "findWatch" => k.event.kind \in OfWatch
  /\ k.pc = "insertWatch" =>
       k.event.kind = "AddWatch" /\ w = NoWatch /\ Prepared(k.changed, k.event, w)
  /\ k.pc = "saveWatch" =>
       /\ k.event.kind \in OfWatch \ {"AddWatch"}
       /\ w # NoWatch /\ k.read = w /\ Prepared(k.changed, k.event, w)
       /\ k.event.kind = "ProposalCanceled" => pr[k.event.proposalId] # NoProposal
  /\ k.pc = "findProposal" =>
       /\ k.event.kind \in OfAuction
       /\ k.event.kind = "ProposalCanceled" =>
            w # NoWatch /\ k.read = w /\ Prepared(k.changed, k.event, w)
       /\ k.todo = IF k.event.kind = "ProposalAccepted" THEN {"proposal"} ELSE Todo(k.event)
  /\ k.pc = "insertProposal" =>
       k.event.kind = "ProposalCreated" /\ pr[k.event.proposalId] = NoProposal
  /\ k.pc = "activate" => k.event.kind = "ProposalCreated" /\ k.todo = {"auction"}
  /\ k.pc = "acceptWatch" => k.event.kind = "ProposalAccepted"
  /\ k.pc = "saveProposal" =>
       /\ k.event.kind \in OfAuction /\ k.todo = {"proposal"}
       /\ pr[k.event.proposalId] # NoProposal

Asks(k) ==
  k.pc \in Calm /\ k.todo = {} /\ (k.pc = "savePrices" => k.read = k.changed)

WorkersOK ==
  /\ Doing(worker[Tick], watch, proposal)
  /\ \A r \in Requests : Asks(worker[r])

Working(s, t) ==
  /\ Kept(watch, proposal, lost, Mixed(s, t, worker[Tick].todo))
  /\ worker[Tick].todo # {} =>
       worker[Tick].todo \subseteq Todo(worker[Tick].event) /\ Follows(s, worker[Tick].event, t)

Holds == \E f : \E s \in States : Leads(f) /\ Working(s, f[1])

WatchInv == Shapes /\ ContractOK /\ WorkersOK /\ Holds

-----------------------------------------------------------------------------
(* Lemmas about the operators. *)

LEMMA EventFields ==
  ASSUME NEW e \in Event
  PROVE  /\ e.kind \in OfWatch \cup OfAuction /\ e # NoEvent
         /\ e.kind \in {"AddWatch", "EditWatch"} =>
              e.price \in 1 .. MaxPrice /\ e.startTime \in 0 .. 1
         /\ e.kind = "BuyShares" => e.amount \in 1 .. MaxPrice
         /\ e.kind \in OfAuction => e.proposalId \in Proposals /\ e.price \in 0 .. MaxPrice
BY DEF Event, OfWatch, OfAuction, NoEvent

LEMMA TodoOf ==
  ASSUME NEW e
  PROVE  /\ e.kind = "AddWatch" => Todo(e) = Whats
         /\ e.kind = "EditWatch" => Todo(e) = {"status", "shares"}
         /\ e.kind = "BuyShares" => Todo(e) = {"shares"}
         /\ e.kind = "TradeAllowed" => Todo(e) = {"status"}
         /\ e.kind = "RevertFunding" => Todo(e) = {"status"}
         /\ e.kind = "ProposalCreated" => Todo(e) = {"auction", "proposal"}
         /\ e.kind = "ProposalCanceled" => Todo(e) = {"auction", "proposal"}
         /\ e.kind = "ProposalAccepted" => Todo(e) = {"status", "auction", "proposal"}
BY DEF Todo, Whats

LEMMA StatusesIn ==
  /\ StatusIn("none") = {"none"} /\ StatusIn("funding") = {"Waiting", "Presale"}
  /\ StatusIn("trading") = {"Trading"} /\ StatusIn("sold") = {"Sold"}
  /\ StatusIn("canceled") = {"Canceled"}
BY DEF StatusIn

LEMMA AuctionTypes == ASSUME NEW b PROVE AuctionIn(b) \in Auctions
BY DEF AuctionIn, Auctions

LEMMA AuctionNone == ASSUME NEW b, \A p \in Proposals : b[p] = NoProposal
                     PROVE  AuctionIn(b) = "NOT_STARTED"
BY DEF AuctionIn

LEMMA AuctionOne ==
  ASSUME NEW b, NEW p \in Proposals, b[p] # NoProposal,
         \A q \in Proposals : q # p => b[q] = NoProposal \/ b[q].state = "CANCELLED"
  PROVE  /\ b[p].state = "ACTIVE" => AuctionIn(b) = "ACTIVE"
         /\ b[p].state = "ACCEPTED" => AuctionIn(b) = "ACCEPTED"
         /\ b[p].state = "CANCELLED" => AuctionIn(b) = "CANCELED"
BY DEF AuctionIn

LEMMA MixedNothing == ASSUME NEW s, NEW t, t \in States PROVE Mixed(s, t, {}) = t
BY DEF Mixed, States

LEMMA MixedAll ==
  ASSUME NEW s \in States, NEW t, NEW e, Follows(s, e, t)
  PROVE  Mixed(s, t, Todo(e)) = s
<1>1. \A what \in Whats : what \in Todo(e) \/ Same(what, s, t)
  BY DEF Follows
<1>2. /\ "status" \in Todo(e) \/ s.phase = t.phase
      /\ "shares" \in Todo(e) \/ (s.left = t.left /\ s.edits = t.edits)
      /\ "auction" \in Todo(e) \/ s.auction = t.auction
      /\ "proposal" \in Todo(e) \/ s.bids = t.bids
  BY <1>1 DEF Whats, Same
<1> QED
  BY <1>2 DEF Mixed, States

-----------------------------------------------------------------------------
(* What stays true of the collections, event by event.                     *)

\* The contract moves on and the watch keeps a status it can have.
LEMMA MovesOn ==
  ASSUME NEW s \in States, NEW t \in States, NEW e \in Event, Follows(s, e, t)
  PROVE  /\ \A status : Reached(status, s.phase) => Reached(status, t.phase)
         /\ t.phase # "none"
         /\ s.phase = "none" => e.kind = "AddWatch"
         /\ t.edits # MaxEdits => s.edits # MaxEdits \/ e.kind = "AddWatch"
         /\ t.left <= s.left \/ s.edits # MaxEdits \/ e.kind = "AddWatch"
         /\ \A p \in Proposals : s.bids[p] # NoProposal => t.bids[p] # NoProposal
         /\ \A p \in Proposals : s.bids[p] = NoProposal /\ t.bids[p] # NoProposal =>
              e.kind = "ProposalCreated" /\ p = e.proposalId
<1>1. \A what \in Whats : what \in Todo(e) \/ Same(what, s, t)
  BY DEF Follows
<1>2. /\ "status" \in Todo(e) \/ s.phase = t.phase
      /\ "shares" \in Todo(e) \/ (s.left = t.left /\ s.edits = t.edits)
      /\ "auction" \in Todo(e) \/ s.auction = t.auction
      /\ "proposal" \in Todo(e) \/ s.bids = t.bids
  BY <1>1 DEF Whats, Same
<1>3. Emits(s, e, t)
  BY DEF Follows
<1>4. /\ s.left \in 0 .. MaxPrice /\ t.left \in 0 .. MaxPrice /\ MaxPrice \in Nat
      /\ s.phase \in Phases /\ t.phase \in Phases
      /\ s.bids \in [Proposals -> Bids] /\ t.bids \in [Proposals -> Bids]
  BY WatchAssumption DEF States
<1>5. /\ \A status : Reached(status, s.phase) => Reached(status, t.phase)
      /\ t.phase # "none"
      /\ s.phase = "none" => e.kind = "AddWatch"
  BY <1>2, <1>3, <1>4, TodoOf DEF Emits, Reached, Phases
<1>6. /\ t.edits # MaxEdits => s.edits # MaxEdits \/ e.kind = "AddWatch"
      /\ t.left <= s.left \/ s.edits # MaxEdits \/ e.kind = "AddWatch"
  BY <1>2, <1>3, <1>4, TodoOf, EventFields DEF Emits
<1>7. ASSUME NEW p \in Proposals
      PROVE  /\ s.bids[p] # NoProposal => t.bids[p] # NoProposal
             /\ s.bids[p] = NoProposal /\ t.bids[p] # NoProposal =>
                  e.kind = "ProposalCreated" /\ p = e.proposalId
  <2>1. CASE e.kind = "AddWatch"
    BY <1>3, <2>1 DEF Emits, NoBids
  <2>2. CASE "proposal" \notin Todo(e)
    BY <1>2, <2>2
  <2>3. CASE e.kind \in OfAuction
    <3>1. e.proposalId \in Proposals
      BY <2>3, EventFields
    <3>2. PICK state, price : /\ state \in {"ACTIVE", "CANCELLED", "ACCEPTED"}
                              /\ t.bids = Bidden(s.bids, e.proposalId, state, price)
      BY <1>3, <2>3 DEF Emits, OfAuction
    <3>3. /\ t.bids[p] = IF p = e.proposalId THEN [state |-> state, price |-> price]
                         ELSE s.bids[p]
      BY <1>4, <3>1, <3>2 DEF Bidden
    <3>4. e.kind = "ProposalCreated" \/ s.bids[e.proposalId].state = "ACTIVE"
      BY <1>3, <2>3 DEF Emits, OfAuction
    <3> QED
      BY <3>2, <3>3, <3>4 DEF NoProposal
  <2> QED
    BY <2>1, <2>2, <2>3, EventFields, TodoOf DEF OfWatch, OfAuction
<1> QED
  BY <1>5, <1>6, <1>7

\* When the rest of an event is lost, the collections are behind in this and
\* nothing else.
LEMMA CutShort ==
  ASSUME NEW s \in States, NEW t \in States, NEW e \in Event, Follows(s, e, t),
         NEW w \in Watches, NEW pr, NEW l, NEW todo, todo \subseteq Todo(e),
         Kept(w, pr, l, Mixed(s, t, todo)),
         e.kind = "AddWatch" => todo = Whats /\ w = NoWatch,
         e.kind = "ProposalCreated" /\ "proposal" \in todo =>
           "auction" \in todo \/ pr[e.proposalId] # NoProposal
  PROVE  Kept(w, pr, l \cup todo, t)
<1> DEFINE m == Mixed(s, t, todo)
<1>1. /\ m.phase = IF "status" \in todo THEN s.phase ELSE t.phase
      /\ m.left = IF "shares" \in todo THEN s.left ELSE t.left
      /\ m.edits = IF "shares" \in todo THEN s.edits ELSE t.edits
      /\ m.auction = IF "auction" \in todo THEN s.auction ELSE t.auction
      /\ m.bids = IF "proposal" \in todo THEN s.bids ELSE t.bids
  BY DEF Mixed
<1>2. Within(w, l, m) /\ Made(pr, l, m) /\ Agrees(w, pr, l, m)
  BY DEF Kept
<1> HIDE DEF m
<1>3. /\ s.left \in 0 .. MaxPrice /\ t.left \in 0 .. MaxPrice /\ MaxPrice \in Nat
      /\ w.shares \in Int
  BY WatchAssumption DEF States, Watches
<1>4. Within(w, l \cup todo, t)
  <2>1. Reached(w.status, t.phase)
    BY <1>1, <1>2, MovesOn DEF Within
  <2>2. w.shares \in t.left - MaxPrice .. MaxPrice /\ (t.edits # MaxEdits => w.shares >= 0)
    <3>1. CASE e.kind = "AddWatch"
      BY <1>3, <3>1 DEF NoWatch
    <3>2. CASE e.kind # "AddWatch"
      BY <1>1, <1>2, <1>3, <3>2, MovesOn DEF Within
    <3> QED
      BY <3>1, <3>2
  <2>3. w = NoWatch => t.phase = "none" \/ Whats \subseteq l \cup todo
    BY <1>1, <1>2, MovesOn DEF Within
  <2> QED
    BY <1>2, <2>1, <2>2, <2>3 DEF Within
<1>5. Made(pr, l \cup todo, t)
  <2> SUFFICES ASSUME NEW p \in Proposals
               PROVE  /\ pr[p] # NoProposal => t.bids[p] # NoProposal
                      /\ t.bids[p] # NoProposal /\ pr[p] = NoProposal =>
                           {"auction", "proposal"} \subseteq l \cup todo
    BY DEF Made
  <2> QED
    BY <1>1, <1>2, MovesOn DEF Made
<1>6. Agrees(w, pr, l \cup todo, t)
  BY <1>1, <1>2 DEF Agrees
<1> QED
  BY <1>4, <1>5, <1>6 DEF Kept

\* The watch is inserted or saved.
LEMMA WatchWritten ==
  ASSUME NEW s \in States, NEW t \in States, NEW e \in Event, Follows(s, e, t),
         e.kind \in OfWatch, NEW w \in Watches, NEW c \in Watches, NEW pr, NEW l,
         Kept(w, pr, l, s), (w = NoWatch) = (e.kind = "AddWatch"), Prepared(c, e, w)
  PROVE  /\ c # NoWatch
         /\ Kept(c, pr, l, Mixed(s, t, {"proposal"} \cap Todo(e)))
         /\ e.kind # "ProposalCanceled" => Kept(c, pr, l, t)
<1> DEFINE m == Mixed(s, t, {"proposal"} \cap Todo(e))
<1>1. /\ m.phase = t.phase /\ m.left = t.left /\ m.edits = t.edits
      /\ m.auction = t.auction
      /\ m.bids = s.bids
      /\ e.kind # "ProposalCanceled" => m.bids = t.bids
  <2>1. "proposal" \in Todo(e) \/ s.bids = t.bids
    BY DEF Follows, Whats, Same
  <2>2. e.kind \notin {"AddWatch", "ProposalCanceled"} => "proposal" \notin Todo(e)
    BY TodoOf DEF OfWatch
  <2>3. e.kind = "AddWatch" => s.bids = t.bids
    BY DEF Follows, Emits
  <2> QED
    BY <2>1, <2>2, <2>3 DEF Mixed
<1>2. Within(w, l, s) /\ Made(pr, l, s) /\ Agrees(w, pr, l, s)
  BY DEF Kept
<1> HIDE DEF m
<1>3. /\ s.left \in 0 .. MaxPrice /\ t.left \in 0 .. MaxPrice /\ MaxPrice \in Nat
      /\ w.shares \in Int /\ c.shares \in Int /\ s.phase \in Phases /\ t.phase \in Phases
  BY WatchAssumption DEF States, Watches
<1>4. Emits(s, e, t) /\ \A what \in Whats \ Todo(e) : Same(what, s, t)
  BY DEF Follows
<1>5. /\ "status" \in Todo(e) \/ (s.phase = t.phase /\ c.status = w.status)
      /\ "shares" \in Todo(e) \/ (s.left = t.left /\ s.edits = t.edits /\ c.shares = w.shares)
      /\ "auction" \in Todo(e) \/ (s.auction = t.auction /\ c.auctionStatus = w.auctionStatus)
  BY <1>4 DEF Whats, Same, Prepared
<1>6. c.status # "none"
  BY <1>2, <1>4, <1>5, TodoOf DEF Within, Prepared, OfWatch
<1>7. c # NoWatch
  BY <1>6 DEF NoWatch
<1>8. Reached(w.status, s.phase) /\ t.phase # "none"
  BY <1>2, MovesOn DEF Within
<1>9. Reached(c.status, t.phase) /\ (c.tradeAllowed => c.status \in {"Trading", "Sold"})
  <2>1. w.tradeAllowed => w.status \in {"Trading", "Sold"}
    BY <1>2 DEF Within
  <2> QED
    BY <1>4, <1>5, <1>8, <2>1, TodoOf DEF Reached, Emits, Prepared, OfWatch
<1>10. c.shares \in t.left - MaxPrice .. MaxPrice /\ (t.edits # MaxEdits => c.shares >= 0)
  <2>1. w.shares \in s.left - MaxPrice .. MaxPrice /\ (s.edits # MaxEdits => w.shares >= 0)
    BY <1>2 DEF Within
  <2> QED
    BY <1>3, <1>4, <1>5, <2>1, TodoOf, EventFields DEF Emits, Prepared, OfWatch
<1>11. Within(c, l, m)
  BY <1>1, <1>6, <1>7, <1>9, <1>10 DEF Within
<1>12. Made(pr, l, m)
  BY <1>1, <1>2 DEF Made
<1>13. "status" \notin l => c.status \in StatusIn(t.phase)
  BY <1>2, <1>4, <1>5, TodoOf, StatusesIn DEF Emits, Prepared, OfWatch, Agrees
<1>14. "shares" \notin l => c.shares = t.left
  BY <1>2, <1>3, <1>4, <1>5, TodoOf DEF Emits, Prepared, OfWatch, Agrees
<1>15. "auction" \notin l => c.auctionStatus = t.auction
  BY <1>2, <1>4, <1>5, TodoOf DEF Emits, Prepared, OfWatch, Agrees
<1>16. Agrees(c, pr, l, m)
  BY <1>1, <1>2, <1>13, <1>14, <1>15 DEF Agrees
<1>17. Kept(c, pr, l, m)
  BY <1>11, <1>12, <1>16 DEF Kept
<1>18. ASSUME e.kind # "ProposalCanceled" PROVE Kept(c, pr, l, t)
  BY <1>1, <1>11, <1>12, <1>16, <1>18 DEF Kept, Within, Made, Agrees
<1> QED
  BY <1>7, <1>17, <1>18 DEF m

\* updateOne of the watch for a proposal.
LEMMA WatchUpdated ==
  ASSUME NEW s \in States, NEW t \in States, NEW e \in Event, Follows(s, e, t),
         NEW w \in Watches, NEW c \in Watches, NEW pr, NEW l, NEW todo, NEW rest,
         Kept(w, pr, l, Mixed(s, t, todo)),
         w = NoWatch => c = w,
         \/ e.kind = "ProposalCreated" /\ todo = {"auction"} /\ rest = {}
              /\ c.status = w.status
         \/ e.kind = "ProposalAccepted" /\ todo = {"status", "auction", "proposal"}
              /\ rest = {"proposal"} /\ (w # NoWatch => c.status = "Sold"),
         w # NoWatch => /\ c.shares = w.shares /\ c.tradeAllowed = w.tradeAllowed
                        /\ c.auctionStatus = t.auction
  PROVE  Kept(c, pr, l, Mixed(s, t, rest))
<1> DEFINE m == Mixed(s, t, todo)
           n == Mixed(s, t, rest)
<1>1. /\ m.phase = s.phase \/ e.kind = "ProposalCreated"
      /\ n.phase = t.phase /\ n.left = m.left /\ n.edits = m.edits
      /\ n.bids = m.bids /\ n.auction = t.auction
      /\ e.kind = "ProposalCreated" => n.phase = m.phase
  BY DEF Mixed
<1>2. Within(w, l, m) /\ Made(pr, l, m) /\ Agrees(w, pr, l, m)
  BY DEF Kept
<1> HIDE DEF m, n
<1>3. e.kind = "ProposalAccepted" => s.phase = "trading" /\ t.phase = "sold"
  BY DEF Follows, Emits
<1>4. e.kind = "ProposalAccepted" => m.phase = "trading" /\ n.phase = "sold"
  BY <1>1, <1>3
<1>5. CASE w = NoWatch
  <2>1. c = NoWatch /\ w.status = "none" /\ c.status = "none"
    BY <1>5 DEF NoWatch
  <2>2. m.phase = "none" \/ Whats \subseteq l
    BY <1>2, <1>5 DEF Within
  <2>3. e.kind \in {"ProposalCreated", "ProposalAccepted"}
    OBVIOUS
  <2>4. e.kind = "ProposalCreated" => s.phase = "trading" /\ t.phase = s.phase
    BY TodoOf DEF Follows, Emits, Whats, Same
  <2>5. Whats \subseteq l
    BY <1>1, <1>4, <2>2, <2>3, <2>4
  <2>6. Within(c, l, n)
    BY <1>1, <1>2, <1>5, <2>1, <2>5 DEF Within, Reached
  <2>7. Made(pr, l, n) /\ Agrees(c, pr, l, n)
    BY <2>5, <1>1, <1>2 DEF Made, Agrees, Whats
  <2> QED
    BY <2>6, <2>7 DEF Kept, n
<1>6. CASE w # NoWatch
  <2>1. c.status # "none" /\ c # NoWatch
    BY <1>2, <1>6 DEF Within, NoWatch
  <2>2. Reached(c.status, n.phase)
    BY <1>1, <1>2, <1>4, <1>6 DEF Within, Reached
  <2>3. c.tradeAllowed => c.status \in {"Trading", "Sold"}
    BY <1>2, <1>6 DEF Within
  <2>4. Within(c, l, n)
    BY <1>1, <1>2, <1>6, <2>1, <2>2, <2>3 DEF Within
  <2>5. Made(pr, l, n)
    BY <1>1, <1>2 DEF Made
  <2>6. Agrees(c, pr, l, n)
    BY <1>1, <1>2, <1>4, <1>6, StatusesIn DEF Agrees
  <2> QED
    BY <2>4, <2>5, <2>6 DEF Kept, n
<1> QED
  BY <1>5, <1>6

\* A proposal is inserted or saved.
LEMMA ProposalWritten ==
  ASSUME NEW s \in States, NEW t \in States, NEW e \in Event, Follows(s, e, t),
         e.kind \in OfAuction, NEW w, NEW l,
         NEW pr \in [Proposals -> Bids], NEW d \in Bids, NEW todo, NEW rest,
         "proposal" \in todo, rest = todo \ {"proposal"},
         Kept(w, pr, l, Mixed(s, t, todo)), d # NoProposal,
         pr[e.proposalId] = s.bids[e.proposalId] => d = t.bids[e.proposalId]
  PROVE  Kept(w, [pr EXCEPT ![e.proposalId] = d], l, Mixed(s, t, rest))
<1> DEFINE m == Mixed(s, t, todo)
           n == Mixed(s, t, rest)
           c == [pr EXCEPT ![e.proposalId] = d]
<1>1. /\ n.phase = m.phase /\ n.left = m.left /\ n.edits = m.edits /\ n.auction = m.auction
      /\ m.bids = s.bids /\ n.bids = t.bids
  BY DEF Mixed
<1>2. Within(w, l, m) /\ Made(pr, l, m) /\ Agrees(w, pr, l, m)
  BY DEF Kept
<1> HIDE DEF m, n
<1>3. e.proposalId \in Proposals
  BY EventFields
<1>4. PICK state, price : t.bids = Bidden(s.bids, e.proposalId, state, price)
                          /\ state \in {"ACTIVE", "CANCELLED", "ACCEPTED"}
  BY DEF Follows, Emits, OfAuction
<1>5. s.bids \in [Proposals -> Bids] /\ t.bids \in [Proposals -> Bids]
  BY DEF States
<1>6. /\ t.bids[e.proposalId] # NoProposal
      /\ \A p \in Proposals : p # e.proposalId => t.bids[p] = s.bids[p] /\ c[p] = pr[p]
      /\ c[e.proposalId] = d
  BY <1>3, <1>4, <1>5 DEF Bidden, NoProposal
<1>7. Made(c, l, n)
  BY <1>1, <1>2, <1>6 DEF Made
<1>8. "proposal" \notin l => c = t.bids
  <2> SUFFICES ASSUME "proposal" \notin l PROVE c = t.bids
    OBVIOUS
  <2>1. pr = s.bids
    BY <1>1, <1>2 DEF Agrees
  <2>2. \A p \in Proposals : c[p] = t.bids[p]
    BY <1>3, <1>6, <2>1
  <2>3. c \in [Proposals -> Bids]
    BY <1>3
  <2> QED
    BY <1>5, <2>2, <2>3
<1>9. Within(w, l, n) /\ Agrees(w, c, l, n)
  BY <1>1, <1>2, <1>8 DEF Within, Agrees
<1> QED
  BY <1>7, <1>9 DEF Kept, n

\* A bid on a proposal that is stored: the auction is active already.
LEMMA Outbid ==
  ASSUME NEW s \in States, NEW t \in States, NEW e \in Event, Follows(s, e, t),
         e.kind = "ProposalCreated", NEW w, NEW pr, NEW l,
         Kept(w, pr, l, Mixed(s, t, {"auction", "proposal"})),
         pr[e.proposalId] # NoProposal
  PROVE  Kept(w, pr, l, Mixed(s, t, {"proposal"}))
<1> DEFINE m == Mixed(s, t, {"auction", "proposal"})
           n == Mixed(s, t, {"proposal"})
<1>1. /\ n.phase = m.phase /\ n.left = m.left /\ n.edits = m.edits
      /\ m.auction = s.auction /\ n.auction = t.auction
      /\ m.bids = s.bids /\ n.bids = s.bids
  BY DEF Mixed
<1>2. Within(w, l, m) /\ Made(pr, l, m) /\ Agrees(w, pr, l, m)
  BY DEF Kept
<1> HIDE DEF m, n
<1>3. s.auction = "ACTIVE" /\ t.auction = "ACTIVE"
  <2>1. e.proposalId \in Proposals
    BY EventFields DEF OfAuction
  <2>2. s.bids[e.proposalId] # NoProposal
    BY <1>1, <1>2, <2>1 DEF Made
  <2> QED
    BY <2>2 DEF Follows, Emits
<1> QED
  BY <1>1, <1>2, <1>3 DEF Kept, Within, Made, Agrees, n

-----------------------------------------------------------------------------
(* Events are emitted and taken.                                           *)

LEMMA Logged ==
  ASSUME log \in Seq(Event), NEW e \in Event, log' = Append(log, e)
  PROVE  /\ log' \in Seq(Event) /\ Len(log) \in Nat
         /\ Len(log') = Len(log) + 1 /\ log'[Len(log) + 1] = e
         /\ \A i \in 1 .. Len(log) : log'[i] = log[i]
BY AppendProperties

LEMMA Taken ==
  ASSUME log \in Seq(Event), log # <<>>, log' = Tail(log)
  PROVE  /\ log' \in Seq(Event) /\ Len(log') = Len(log) - 1 /\ Len(log) \in Nat \ {0}
         /\ \A i \in 1 .. Len(log) - 1 : log'[i] = log[i + 1]
         /\ Head(log) = log[1] /\ Head(log) \in Event
BY HeadTailProperties, EmptySeq

LEMMA SameEvent ==
  ASSUME NEW s, NEW e, NEW t, Follows(s, e, t), NEW what \in Whats, what \notin Todo(e)
  PROVE  Same(what, s, t)
BY DEF Follows

LEMMA SameTwice ==
  ASSUME NEW what, NEW s, NEW t, NEW u, Same(what, s, t), Same(what, t, u)
  PROVE  Same(what, s, u)
BY DEF Same

LEMMA TrailLogged ==
  ASSUME log \in Seq(Event), NEW f, Leads(f), NEW e \in Event, log' = Append(log, e),
         Contract' \in States, Follows(Contract, e, Contract')
  PROVE  \E g : Leads(g)' /\ g[1] = f[1]
<1> DEFINE L == Len(log)
           C == Contract'
<1>1. /\ L \in Nat /\ Len(log') = L + 1 /\ log'[L + 1] = e
      /\ \A i \in 1 .. L : log'[i] = log[i]
  BY Logged
<1>2. /\ f \in [1 .. L + 1 -> States] /\ f[L + 1] = Contract
      /\ \A i \in 1 .. L : Follows(f[i], log[i], f[i + 1])
      /\ \A what \in Whats : \A i, j \in 1 .. L + 1 :
           i <= j /\ (\A k \in i .. j - 1 : what \notin Todo(log[k])) => Same(what, f[i], f[j])
  BY DEF Leads, Flat
<1>3. C \in States /\ Follows(f[L + 1], e, C)
  BY <1>2
<1> HIDE DEF L, C
<1>4. PICK g \in [1 .. L + 2 -> States] : g[L + 2] = C /\ \A i \in 1 .. L + 1 : g[i] = f[i]
  <2> DEFINE h == [i \in 1 .. L + 2 |-> IF i = L + 2 THEN C ELSE f[i]]
  <2>1. /\ h \in [1 .. L + 2 -> States] /\ h[L + 2] = C
        /\ \A i \in 1 .. L + 1 : h[i] = f[i]
    BY <1>1, <1>2, <1>3
  <2> HIDE DEF h
  <2> QED
    BY <2>1
<1>5. \A i \in 1 .. L + 1 : Follows(g[i], log'[i], g[i + 1])
  <2>1. TAKE i \in 1 .. L + 1
  <2>2. CASE i = L + 1
    BY <1>1, <1>3, <1>4, <2>2
  <2>3. CASE i \in 1 .. L
    BY <1>1, <1>2, <1>4, <2>3
  <2> QED
    BY <1>1, <2>2, <2>3
<1>6. ASSUME NEW what \in Whats, NEW i \in 1 .. L + 2, NEW j \in 1 .. L + 2, i <= j,
             \A k \in i .. j - 1 : what \notin Todo(log'[k])
      PROVE  Same(what, g[i], g[j])
  <2>1. CASE j \in 1 .. L + 1
    <3>1. i \in 1 .. L + 1 /\ \A k \in i .. j - 1 : what \notin Todo(log[k])
      BY <1>1, <1>6, <2>1
    <3> QED
      BY <1>2, <1>4, <1>6, <2>1, <3>1
  <2>2. CASE j = L + 2 /\ i # L + 2
    <3>1. i \in 1 .. L + 1 /\ \A k \in i .. L : what \notin Todo(log[k])
      BY <1>1, <1>6, <2>2
    <3>2. Same(what, f[i], f[L + 1])
      BY <1>1, <1>2, <3>1
    <3>3. what \notin Todo(e)
      BY <1>1, <1>6, <2>2
    <3>4. Same(what, f[L + 1], C)
      BY <1>3, <3>3, SameEvent
    <3> QED
      BY <1>4, <2>2, <3>1, <3>2, <3>4, SameTwice
  <2>3. CASE i = L + 2 /\ j = L + 2
    BY <2>3 DEF Same
  <2> QED
    BY <1>1, <1>6, <2>1, <2>2, <2>3
<1>7. Leads(g)'
  <2>1. Len(log') + 1 = L + 2
    BY <1>1
  <2>2. Flat(g)'
    <3> SUFFICES ASSUME NEW what \in Whats,
                        NEW i \in 1 .. Len(log') + 1, NEW j \in 1 .. Len(log') + 1,
                        i <= j, \A k \in i .. j - 1 : what \notin Todo(log'[k])
                 PROVE  Same(what, g[i], g[j])
      BY DEF Flat
    <3> QED
      BY <1>6, <2>1
  <2>3. g[Len(log') + 1] = Contract'
    BY <1>4, <2>1 DEF C
  <2> QED
    BY <1>1, <1>4, <1>5, <2>1, <2>2, <2>3 DEF Leads
<1> QED
  BY <1>1, <1>4, <1>7

LEMMA TrailTaken ==
  ASSUME log \in Seq(Event), NEW f, Leads(f), log # <<>>, log' = Tail(log),
         Contract' = Contract
  PROVE  /\ f[1] \in States /\ f[2] \in States /\ Head(log) \in Event
         /\ Follows(f[1], Head(log), f[2])
         /\ \E g : Leads(g)' /\ g[1] = f[2]
<1> DEFINE L == Len(log)
           C == Contract
<1>1. /\ L \in Nat \ {0} /\ Len(log') = L - 1 /\ Head(log) = log[1] /\ Head(log) \in Event
      /\ \A i \in 1 .. L - 1 : log'[i] = log[i + 1]
  BY Taken
<1>2. /\ f \in [1 .. L + 1 -> States] /\ f[L + 1] = C
      /\ \A i \in 1 .. L : Follows(f[i], log[i], f[i + 1])
      /\ \A what \in Whats : \A i, j \in 1 .. L + 1 :
           i <= j /\ (\A k \in i .. j - 1 : what \notin Todo(log[k])) => Same(what, f[i], f[j])
  BY DEF Leads, Flat
<1>3. Contract' = C
  OBVIOUS
<1> HIDE DEF L, C
<1>4. PICK g \in [1 .. L -> States] : \A i \in 1 .. L : g[i] = f[i + 1]
  <2> DEFINE h == [i \in 1 .. L |-> f[i + 1]]
  <2>1. h \in [1 .. L -> States] /\ \A i \in 1 .. L : h[i] = f[i + 1]
    BY <1>1, <1>2
  <2> HIDE DEF h
  <2> QED
    BY <2>1
<1>5. \A i \in 1 .. L - 1 : Follows(g[i], log'[i], g[i + 1])
  <2>1. TAKE i \in 1 .. L - 1
  <2>2. Follows(f[i + 1], log[i + 1], f[(i + 1) + 1])
    BY <1>1, <1>2
  <2>3. g[i] = f[i + 1] /\ g[i + 1] = f[(i + 1) + 1] /\ log'[i] = log[i + 1]
    BY <1>1, <1>4
  <2> QED
    BY <2>2, <2>3
<1>6. ASSUME NEW what \in Whats, NEW i \in 1 .. L, NEW j \in 1 .. L, i <= j,
             \A k \in i .. j - 1 : what \notin Todo(log'[k])
      PROVE  Same(what, g[i], g[j])
  <2>1. i + 1 \in 1 .. L + 1 /\ j + 1 \in 1 .. L + 1 /\ i + 1 <= j + 1
    BY <1>1, <1>6
  <2>2. \A k \in i + 1 .. (j + 1) - 1 : what \notin Todo(log[k])
    <3>1. TAKE k \in i + 1 .. (j + 1) - 1
    <3>2. k - 1 \in i .. j - 1 /\ k - 1 \in 1 .. L - 1 /\ (k - 1) + 1 = k
      BY <1>1, <3>1
    <3> QED
      BY <1>1, <1>6, <3>2
  <2>3. Same(what, f[i + 1], f[j + 1])
    BY <1>2, <2>1, <2>2
  <2> QED
    BY <1>4, <2>3
<1>7. Leads(g)'
  <2>1. Len(log') + 1 = L
    BY <1>1
  <2>2. Flat(g)'
    <3> SUFFICES ASSUME NEW what \in Whats,
                        NEW i \in 1 .. Len(log') + 1, NEW j \in 1 .. Len(log') + 1,
                        i <= j, \A k \in i .. j - 1 : what \notin Todo(log'[k])
                 PROVE  Same(what, g[i], g[j])
      BY DEF Flat
    <3> QED
      BY <1>6, <2>1
  <2>3. g[Len(log') + 1] = Contract'
    <3>1. g[L] = f[L + 1]
      BY <1>1, <1>4
    <3> QED
      BY <1>2, <1>3, <2>1, <3>1
  <2> QED
    BY <1>1, <1>4, <1>5, <2>1, <2>2, <2>3 DEF Leads
<1>8. g[1] = f[2] /\ f[1] \in States /\ f[2] \in States
  BY <1>1, <1>2, <1>4
<1>9. Follows(f[1], Head(log), f[2])
  BY <1>1, <1>2
<1> QED
  BY <1>1, <1>7, <1>8, <1>9

\* What no event that waits is about is what the contract has.
LEMMA TrailSettled ==
  ASSUME log \in Seq(Event), NEW f, Leads(f), NEW what \in Whats,
         \A i \in DOMAIN log : what \notin Todo(log[i])
  PROVE  Same(what, f[1], Contract)
<1>1. Len(log) \in Nat /\ DOMAIN log = 1 .. Len(log)
  BY LenProperties
<1>2. /\ 1 \in 1 .. Len(log) + 1 /\ Len(log) + 1 \in 1 .. Len(log) + 1
      /\ \A k \in 1 .. (Len(log) + 1) - 1 : what \notin Todo(log[k])
  BY <1>1
<1>3. Same(what, f[1], f[Len(log) + 1])
  BY <1>1, <1>2 DEF Leads, Flat
<1> QED
  BY <1>3 DEF Leads

-----------------------------------------------------------------------------
(* The contract.                                                           *)

LEMMA ContractState == ASSUME ContractOK PROVE Contract \in States
BY AuctionTypes DEF ContractOK, Contract, States

\* A bid is made on the only proposal that is neither canceled nor to come.
LEMMA BidMade ==
  ASSUME ContractOK, NEW p \in Proposals, NEW price \in 0 .. MaxPrice,
         NEW state \in {"ACTIVE", "CANCELLED", "ACCEPTED"},
         bids' = [bids EXCEPT ![p] = [state |-> state, price |-> price]],
         phase = "trading", phase' = IF state = "ACCEPTED" THEN "sold" ELSE "trading",
         left' = left, edits' = edits,
         \/ bids[p].state = "ACTIVE"
         \/ bids[p] = NoProposal /\ \A q \in Proposals : q < p => bids[q].state = "CANCELLED"
  PROVE  /\ ContractOK'
         /\ bids' = Bidden(bids, p, state, price)
         /\ state = "ACTIVE" => AuctionIn(bids') = "ACTIVE"
         /\ state = "ACCEPTED" => AuctionIn(bids') = "ACCEPTED"
         /\ state = "CANCELLED" => AuctionIn(bids') = "CANCELED"
         /\ bids[p].state = "ACTIVE" => AuctionIn(bids) = "ACTIVE"
<1>1. \A q \in Proposals : q < p \/ q = p \/ p < q
  BY DEF Proposals
<1>2. \A q \in Proposals : q < p => bids[q].state = "CANCELLED"
  BY DEF ContractOK, NoProposal
<1>3. \A q \in Proposals : p < q => bids[q] = NoProposal
  BY DEF ContractOK, NoProposal
<1>4. /\ bids' \in [Proposals -> Bids] /\ bids'[p] = [state |-> state, price |-> price]
      /\ \A q \in Proposals : q # p => bids'[q] = bids[q]
  BY DEF ContractOK, Bids
<1>5. /\ bids'[p] # NoProposal /\ bids'[p].state = state
      /\ \A q \in Proposals : q # p => bids'[q] = NoProposal \/ bids'[q].state = "CANCELLED"
  BY <1>1, <1>2, <1>3, <1>4 DEF NoProposal
<1>6. ContractOK'
  <2>1. ASSUME NEW q \in Proposals
        PROVE  /\ WellFormed(bids'[q])
               /\ bids'[q].state = "ACTIVE" => phase' = "trading"
               /\ bids'[q] # NoProposal => phase' \in {"trading", "sold"}
    BY <1>4, <1>5 DEF ContractOK, WellFormed, NoProposal
  <2>2. ASSUME NEW q \in Proposals, NEW r \in Proposals, r < q, bids'[q] # NoProposal
        PROVE  bids'[r].state = "CANCELLED"
    <3>1. q = p \/ q < p
      BY <1>1, <1>3, <1>4, <2>2 DEF Proposals
    <3>2. r # p /\ r < p
      BY <2>2, <3>1 DEF Proposals
    <3> QED
      BY <1>2, <1>4, <3>2
  <2>3. phase' \in Phases /\ left' \in 0 .. MaxPrice /\ edits' \in 0 .. MaxEdits
    BY DEF ContractOK, Phases
  <2> QED
    BY <1>4, <2>1, <2>2, <2>3 DEF ContractOK
<1>7. /\ state = "ACTIVE" => AuctionIn(bids') = "ACTIVE"
      /\ state = "ACCEPTED" => AuctionIn(bids') = "ACCEPTED"
      /\ state = "CANCELLED" => AuctionIn(bids') = "CANCELED"
  BY <1>5, AuctionOne
<1>8. ASSUME bids[p].state = "ACTIVE" PROVE AuctionIn(bids) = "ACTIVE"
  <2>1. bids[p] # NoProposal
    BY <1>8 DEF NoProposal
  <2> QED
    BY <1>1, <1>2, <1>3, <1>8, <2>1, AuctionOne
<1> QED
  BY <1>4, <1>6, <1>7, <1>8 DEF Bidden

LEMMA EmptyBids ==
  ASSUME ContractOK, phase \in {"none", "funding"}
  PROVE  bids = NoBids /\ AuctionIn(bids) = "NOT_STARTED"
<1>1. \A p \in Proposals : bids[p] = NoProposal
  BY DEF ContractOK
<1>2. bids = NoBids
  BY <1>1 DEF ContractOK, NoBids
<1> QED
  BY <1>1, <1>2, AuctionNone

LEMMA BidEmits ==
  ASSUME ContractOK, NEW p \in Proposals, NEW kind, NEW state, NEW price \in 0 .. MaxPrice,
         Bid(p, state, price, kind),
         \/ /\ kind = "ProposalCreated" /\ state = "ACTIVE" /\ phase = "trading"
            /\ bids[p].state \in {"none", "ACTIVE"}
            /\ \A q \in Proposals : q < p => bids[q].state = "CANCELLED"
         \/ /\ kind = "ProposalCanceled" /\ state = "CANCELLED"
            /\ price = bids[p].price /\ bids[p].state = "ACTIVE"
         \/ /\ kind = "ProposalAccepted" /\ state = "ACCEPTED"
            /\ price = bids[p].price /\ bids[p].state = "ACTIVE",
         phase' = IF state = "ACCEPTED" THEN "sold" ELSE phase
  PROVE  ContractOK' /\ \E e \in Event : Emit(e) /\ Follows(Contract, e, Contract')
<1> DEFINE e == [kind |-> kind, proposalId |-> p, price |-> price]
           s == Contract
           t == Contract'
<1>1. /\ s.phase = phase /\ s.left = left /\ s.edits = edits /\ s.bids = bids
      /\ s.auction = AuctionIn(bids)
      /\ t.phase = phase' /\ t.left = left' /\ t.edits = edits' /\ t.bids = bids'
      /\ t.auction = AuctionIn(bids')
  BY DEF Contract
<1>2. /\ bids' = [bids EXCEPT ![p] = [state |-> state, price |-> price]]
      /\ left' = left /\ edits' = edits /\ Emit(e)
  BY DEF Bid
<1>3. kind \in OfAuction /\ state \in {"ACTIVE", "CANCELLED", "ACCEPTED"}
  BY DEF OfAuction
<1>4. /\ e \in Event /\ e.kind = kind /\ e.proposalId = p /\ e.price = price
  BY <1>3 DEF Event
<1> HIDE DEF s, t, e
<1>5. phase = "trading" /\ phase' = IF state = "ACCEPTED" THEN "sold" ELSE "trading"
  BY DEF ContractOK
<1>6. bids[p].state = "ACTIVE" \/
        (bids[p] = NoProposal /\ \A q \in Proposals : q < p => bids[q].state = "CANCELLED")
  BY DEF ContractOK, WellFormed
<1>7. /\ ContractOK'
      /\ bids' = Bidden(bids, p, state, price)
      /\ state = "ACTIVE" => AuctionIn(bids') = "ACTIVE"
      /\ state = "ACCEPTED" => AuctionIn(bids') = "ACCEPTED"
      /\ state = "CANCELLED" => AuctionIn(bids') = "CANCELED"
      /\ bids[p].state = "ACTIVE" => AuctionIn(bids) = "ACTIVE"
  BY ONLY <1>2, <1>3, <1>5, <1>6, ContractOK, p \in Proposals, price \in 0 .. MaxPrice, BidMade
<1>8. Emits(s, e, t)
  BY <1>1, <1>4, <1>5, <1>6, <1>7 DEF Emits
<1>9. \A what \in Whats \ Todo(e) : Same(what, s, t)
  BY <1>1, <1>2, <1>4, <1>5, TodoOf DEF Whats, Same
<1> QED
  BY <1>2, <1>4, <1>7, <1>8, <1>9 DEF Follows, s, t

\* Every step of the contract emits an event that tells of it.
LEMMA ChainEmits ==
  ASSUME ContractOK, Chain
  PROVE  /\ ContractOK'
         /\ \E e \in Event : Emit(e) /\ Follows(Contract, e, Contract')
<1> DEFINE s == Contract
           t == Contract'
<1>1. /\ s.phase = phase /\ s.left = left /\ s.edits = edits /\ s.bids = bids
      /\ s.auction = AuctionIn(bids)
      /\ t.phase = phase' /\ t.left = left' /\ t.edits = edits' /\ t.bids = bids'
      /\ t.auction = AuctionIn(bids')
  BY DEF Contract
<1> HIDE DEF s, t
<1>2. MaxPrice \in Nat /\ MaxEdits \in Nat
  BY WatchAssumption
<1>3. ASSUME NEW price \in 1 .. MaxPrice, NEW start \in 0 .. 1, ChainAddWatch(price, start)
      PROVE  ContractOK' /\ \E e \in Event : Emit(e) /\ Follows(s, e, t)
  <2> DEFINE e == [kind |-> "AddWatch", price |-> price, startTime |-> start]
  <2>1. /\ phase = "none" /\ phase' = "funding" /\ left' = price /\ edits' = edits
        /\ bids' = bids /\ Emit(e)
    BY <1>3 DEF ChainAddWatch, ChainSale
  <2>2. bids = NoBids /\ AuctionIn(bids) = "NOT_STARTED"
    BY <2>1, EmptyBids
  <2>3. ContractOK'
    BY <1>2, <2>1 DEF ContractOK, Phases
  <2>4. e \in Event /\ e.kind = "AddWatch" /\ e.price = price
    BY DEF Event
  <2>5. Emits(s, e, t)
    BY <1>1, <2>1, <2>2, <2>4, Zenon DEF Emits
  <2>6. Follows(s, e, t)
    BY <2>4, <2>5, TodoOf DEF Follows
  <2> QED
    BY <2>1, <2>3, <2>4, <2>6
<1>4. ASSUME NEW price \in 1 .. MaxPrice, NEW start \in 0 .. 1, ChainEditWatch(price, start)
      PROVE  ContractOK' /\ \E e \in Event : Emit(e) /\ Follows(s, e, t)
  <2> DEFINE e == [kind |-> "EditWatch", price |-> price, startTime |-> start]
  <2>1. /\ phase = "funding" /\ phase' = "funding" /\ left' = price /\ edits' = edits + 1
        /\ bids' = bids /\ edits \in 0 .. MaxEdits - 1 /\ Emit(e)
    BY <1>4 DEF ChainEditWatch, ChainSale
  <2>2. edits # MaxEdits /\ edits' \in 0 .. MaxEdits
    BY <1>2, <2>1
  <2>3. ContractOK'
    BY <1>2, <2>1, <2>2 DEF ContractOK, Phases
  <2>4. e \in Event /\ e.kind = "EditWatch" /\ e.price = price
    BY DEF Event
  <2>5. Emits(s, e, t)
    BY <1>1, <2>1, <2>2, <2>4, Zenon DEF Emits
  <2>6. \A what \in Whats \ Todo(e) : Same(what, s, t)
    BY <1>1, <2>1, <2>4, TodoOf DEF Whats, Same
  <2> QED
    BY <2>1, <2>3, <2>4, <2>5, <2>6 DEF Follows
<1>5. ASSUME NEW amount \in 1 .. MaxPrice, ChainBuyShares(amount)
      PROVE  ContractOK' /\ \E e \in Event : Emit(e) /\ Follows(s, e, t)
  <2> DEFINE e == [kind |-> "BuyShares", amount |-> amount]
  <2>1. /\ phase = "funding" /\ phase' = "funding" /\ left' = left - amount
        /\ edits' = MaxEdits /\ bids' = bids /\ amount <= left /\ Emit(e)
    BY <1>5 DEF ChainBuyShares
  <2>2. left' \in 0 .. MaxPrice
    BY <1>2, <2>1 DEF ContractOK
  <2>3. ContractOK'
    BY <1>2, <2>1, <2>2 DEF ContractOK, Phases
  <2>4. e \in Event /\ e.kind = "BuyShares" /\ e.amount = amount
    BY DEF Event
  <2>5. Emits(s, e, t)
    BY <1>1, <2>1, <2>4, Zenon DEF Emits
  <2>6. \A what \in Whats \ Todo(e) : Same(what, s, t)
    BY <1>1, <2>1, <2>4, TodoOf DEF Whats, Same
  <2> QED
    BY <2>1, <2>3, <2>4, <2>5, <2>6 DEF Follows
<1>6. ASSUME ChainTradeAllowed \/ ChainRevertFunding
      PROVE  ContractOK' /\ \E e \in Event : Emit(e) /\ Follows(s, e, t)
  <2>1. PICK kind \in {"TradeAllowed", "RevertFunding"} :
          /\ Emit([kind |-> kind]) /\ phase = "funding"
          /\ phase' = IF kind = "TradeAllowed" THEN "trading" ELSE "canceled"
          /\ left' = left /\ edits' = edits /\ bids' = bids
    BY <1>6 DEF ChainTradeAllowed, ChainRevertFunding
  <2> DEFINE e == [kind |-> kind]
  <2>2. \A p \in Proposals : bids[p] = NoProposal
    BY <2>1 DEF ContractOK
  <2>3. ContractOK'
    BY <1>2, <2>1, <2>2 DEF ContractOK, Phases, NoProposal
  <2>4. e \in Event /\ e.kind = kind
    BY DEF Event
  <2>5. Emits(s, e, t)
    BY <1>1, <2>1, <2>4 DEF Emits
  <2>6. \A what \in Whats \ Todo(e) : Same(what, s, t)
    BY <1>1, <2>1, <2>4, TodoOf DEF Whats, Same
  <2> QED
    BY <2>1, <2>3, <2>4, <2>5, <2>6 DEF Follows
<1>7. ASSUME NEW p \in Proposals,
             \/ \E price \in 1 .. MaxPrice : ChainProposalCreated(p, price)
             \/ ChainProposalCanceled(p)
             \/ ChainProposalAccepted(p)
      PROVE  ContractOK' /\ \E e \in Event : Emit(e) /\ Follows(s, e, t)
  <2>1. bids[p] \in Bids
    BY DEF ContractOK
  <2>2. ASSUME NEW price \in 1 .. MaxPrice, ChainProposalCreated(p, price)
        PROVE  ContractOK' /\ \E e \in Event : Emit(e) /\ Follows(Contract, e, Contract')
    BY <1>2, <2>2, BidEmits DEF ChainProposalCreated
  <2>3. ASSUME ChainProposalCanceled(p)
        PROVE  ContractOK' /\ \E e \in Event : Emit(e) /\ Follows(Contract, e, Contract')
    BY <1>2, <2>1, <2>3, BidEmits DEF ChainProposalCanceled, Bids
  <2>4. ASSUME ChainProposalAccepted(p)
        PROVE  ContractOK' /\ \E e \in Event : Emit(e) /\ Follows(Contract, e, Contract')
    BY <1>2, <2>1, <2>4, BidEmits DEF ChainProposalAccepted, Bids, Bid
  <2> QED
    BY <1>7, <2>2, <2>3, <2>4 DEF s, t
<1> QED
  BY <1>3, <1>4, <1>5, <1>6, <1>7 DEF Chain, s, t

-----------------------------------------------------------------------------
(* The invariant, step by step.                                            *)

LEMMA IdleWorks ==
  /\ Idle \in Work /\ NoWatch \in Watches
  /\ Idle.pc = "idle" /\ Idle.todo = {} /\ Idle.event = NoEvent
  /\ Idle.read = NoWatch /\ Idle.changed = NoWatch
  /\ \A w, pr : Doing(Idle, w, pr)
  /\ Asks(Idle)
<1>1. NoWatch \in Watches
  BY DEF NoWatch, Watches, Statuses, Auctions
<1>2. /\ Idle.pc = "idle" /\ Idle.todo = {} /\ Idle.event = NoEvent
      /\ Idle.read = NoWatch /\ Idle.changed = NoWatch
  BY DEF Idle
<1>3. Idle \in Work
  BY <1>1 DEF Idle, Work, Pcs, Calm, Statuses
<1> QED
  BY <1>1, <1>2, <1>3 DEF Doing, Asks, Calm

LEMMA TickIn == Tick \in Workers /\ Requests \subseteq Workers /\ Tick \notin Requests
BY WatchAssumption DEF Workers

LEMMA HoldsStill ==
  ASSUME NEW f, NEW s \in States, Leads(f), UNCHANGED chain, Working(s, f[1])'
  PROVE  Holds'
<1>1. Leads(f)'
  BY DEF Leads, Flat, chain, Contract
<1> QED
  BY <1>1 DEF Holds

\* Where the trail begins.
LEMMA TrailBegins ==
  ASSUME Shapes, NEW f, Leads(f)
  PROVE  f[1] \in States
<1>1. Len(log) \in Nat
  BY LenProperties DEF Shapes
<1> QED
  BY <1>1 DEF Leads

\* Steps that leave the collections and the tick's event alone.
LEMMA CollectionsRest ==
  ASSUME WatchInv, UNCHANGED <<chain, stored, lost>>, cache'.status \in Statuses,
         worker' \in [Workers -> Work], Doing(worker'[Tick], watch, proposal),
         \A r \in Requests : Asks(worker'[r]),
         worker'[Tick].todo = worker[Tick].todo,
         worker'[Tick].todo # {} => worker'[Tick].event = worker[Tick].event
  PROVE  WatchInv'
<1>1. PICK f, s : s \in States /\ Leads(f) /\ Working(s, f[1])
  BY DEF WatchInv, Holds
<1>2. /\ watch' = watch /\ proposal' = proposal /\ lost' = lost
      /\ phase' = phase /\ left' = left /\ edits' = edits /\ bids' = bids /\ log' = log
  BY DEF stored, chain
<1>3. Working(s, f[1])'
  BY <1>1, <1>2 DEF Working
<1>4. Holds'
  BY <1>1, <1>3, HoldsStill DEF WatchInv
<1>5. Shapes' /\ ContractOK' /\ WorkersOK'
  BY <1>2 DEF WatchInv, Shapes, ContractOK, WorkersOK
<1> QED
  BY <1>4, <1>5 DEF WatchInv

LEMMA WatchInit == Init => WatchInv
<1> SUFFICES ASSUME Init PROVE WatchInv
  OBVIOUS
<1>1. MaxPrice \in Nat /\ MaxEdits \in Nat
  BY WatchAssumption
<1>2. NoProposal \in Bids /\ NoProposal.state = "none"
  BY <1>1 DEF NoProposal, Bids
<1>3. \A w \in Workers : worker[w] = Idle
  BY DEF Init
<1>4. Shapes
  BY <1>2, IdleWorks, EmptySeq DEF Init, Shapes, WellFormed, NoCache, Statuses
<1>5. ContractOK
  BY <1>1, <1>2 DEF Init, ContractOK, Phases, WellFormed, NoProposal
<1>6. WorkersOK
  BY <1>3, IdleWorks, TickIn DEF WorkersOK
<1>7. Len(log) = 0
  BY EmptySeq DEF Init
<1>8. Contract \in States
  BY <1>5, ContractState
<1> DEFINE f == [i \in 1 .. 1 |-> Contract]
<1>9. f \in [1 .. 1 -> States] /\ f[1] = Contract
  BY <1>8
<1> HIDE DEF f
<1>10. Leads(f)
  BY <1>7, <1>9 DEF Leads, Flat, Same
<1>11. Kept(watch, proposal, lost, Contract)
  <2>1. /\ Contract.phase = "none" /\ Contract.left = 0 /\ Contract.edits = 0
        /\ Contract.bids = proposal /\ \A p \in Proposals : proposal[p] = NoProposal
    BY DEF Init, Contract
  <2>2. Within(watch, lost, Contract) /\ Made(proposal, lost, Contract)
    BY <1>1, <2>1 DEF Init, NoWatch, Within, Reached, Made
  <2>3. Agrees(watch, proposal, lost, Contract)
    BY <2>1, StatusesIn DEF Init, NoWatch, Agrees
  <2> QED
    BY <2>2, <2>3 DEF Kept
<1>12. Working(f[1], f[1])
  BY <1>3, <1>8, <1>9, <1>11, IdleWorks, TickIn, MixedNothing DEF Working
<1> QED
  BY <1>4, <1>5, <1>6, <1>8, <1>9, <1>10, <1>12 DEF WatchInv, Holds

LEMMA ChainKeeps ==
  ASSUME WatchInv, Chain
  PROVE  WatchInv'
<1>1. PICK f, s : s \in States /\ Leads(f) /\ Working(s, f[1])
  BY DEF WatchInv, Holds
<1>2. PICK e \in Event : Emit(e) /\ Follows(Contract, e, Contract')
  BY ChainEmits DEF WatchInv
<1>3. ContractOK'
  BY ChainEmits DEF WatchInv
<1>4. Contract' \in States
  BY <1>3, AuctionTypes DEF ContractOK, Contract, States
<1>5. /\ log' = Append(log, e) /\ watch' = watch /\ proposal' = proposal /\ cache' = cache
      /\ worker' = worker /\ lost' = lost
  BY <1>2 DEF Emit, stored, cached
<1>6. PICK g : Leads(g)' /\ g[1] = f[1]
  BY <1>1, <1>2, <1>4, <1>5, TrailLogged DEF WatchInv, Shapes
<1>7. Working(s, g[1])'
  BY <1>1, <1>5, <1>6 DEF Working
<1>8. Holds'
  BY <1>1, <1>6, <1>7 DEF Holds
<1>9. Shapes' /\ WorkersOK'
  BY <1>5, Logged DEF WatchInv, Shapes, WorkersOK
<1> QED
  BY <1>3, <1>8, <1>9 DEF WatchInv

LEMMA TodoTypes == ASSUME NEW e \in Event PROVE Todo(e) \subseteq Whats /\ Todo(e) # {}
BY EventFields, TodoOf DEF Whats, OfWatch, OfAuction

LEMMA BeginKeeps ==
  ASSUME WatchInv, BeginEvent
  PROVE  WatchInv'
<1>1. PICK f, s : s \in States /\ Leads(f) /\ Working(s, f[1])
  BY DEF WatchInv, Holds
<1> DEFINE e == Head(log)
<1>2. /\ worker[Tick] = Idle /\ log # <<>> /\ log' = Tail(log) /\ Contract' = Contract
      /\ UNCHANGED <<phase, left, bids, edits, watch, proposal, cache, lost>>
      /\ log \in Seq(Event)
  BY DEF BeginEvent, stored, cached, Contract, WatchInv, Shapes
<1>3. /\ f[1] \in States /\ f[2] \in States /\ e \in Event /\ Follows(f[1], e, f[2])
      /\ \E g : Leads(g)' /\ g[1] = f[2]
  BY <1>1, <1>2, TrailTaken
<1>4. PICK g : Leads(g)' /\ g[1] = f[2]
  BY <1>3
<1>5. log' \in Seq(Event)
  BY <1>2, Taken
<1> DEFINE pc == IF e.kind \in OfWatch THEN "findWatch"
                 ELSE IF e.kind = "ProposalCreated" THEN "findProposal" ELSE "acceptWatch"
<1>6. /\ worker' = [worker EXCEPT ![Tick] = [Idle EXCEPT !.event = e, !.todo = Todo(e),
                                                       !.pc = pc]]
  BY DEF BeginEvent
<1>7. /\ pc \in Pcs \ Calm /\ Todo(e) \subseteq Whats
      /\ pc = "findWatch" => e.kind \in OfWatch
      /\ pc = "findProposal" => e.kind = "ProposalCreated"
      /\ pc = "acceptWatch" => e.kind = "ProposalAccepted"
      /\ pc \in {"findWatch", "findProposal", "acceptWatch"}
  <2> HIDE DEF e
  <2>1. e.kind \in OfWatch \cup OfAuction /\ Todo(e) \subseteq Whats
    BY <1>3, EventFields, TodoTypes
  <2>2. e.kind \notin OfWatch =>
          e.kind \in OfAuction \ {"ProposalCanceled"}
    BY <2>1 DEF OfWatch, OfAuction
  <2> QED
    BY <2>1, <2>2 DEF Pcs, Calm, OfAuction
<1> HIDE DEF e, pc
<1>8. /\ worker' \in [Workers -> Work]
      /\ worker'[Tick].pc = pc /\ worker'[Tick].todo = Todo(e) /\ worker'[Tick].event = e
      /\ \A r \in Requests : worker'[r] = worker[r]
  BY <1>3, <1>6, <1>7, IdleWorks, TickIn DEF WatchInv, Shapes, Work
<1>9. Doing(worker'[Tick], watch, proposal)
  BY <1>3, <1>7, <1>8 DEF Doing, Calm, OfAuction
<1>10. Working(f[1], g[1])'
  <2>1. Kept(watch, proposal, lost, f[1])
    BY <1>1, <1>2, <1>3, IdleWorks, MixedNothing DEF Working
  <2>2. Mixed(f[1], g[1], Todo(e)) = f[1]
    BY <1>3, <1>4, MixedAll
  <2> QED
    BY <1>2, <1>3, <1>4, <1>8, <2>1, <2>2 DEF Working
<1>11. Holds'
  BY <1>3, <1>4, <1>10 DEF Holds
<1>12. Shapes' /\ ContractOK' /\ WorkersOK'
  BY <1>2, <1>5, <1>8, <1>9 DEF WatchInv, Shapes, ContractOK, WorkersOK
<1> QED
  BY <1>11, <1>12 DEF WatchInv

LEMMA SkipKeeps ==
  ASSUME WatchInv, SkipEvent
  PROVE  WatchInv'
<1>1. PICK f, s : s \in States /\ Leads(f) /\ Working(s, f[1])
  BY DEF WatchInv, Holds
<1> DEFINE e == Head(log)
<1>2. /\ worker[Tick] = Idle /\ log # <<>> /\ log' = Tail(log) /\ Contract' = Contract
      /\ UNCHANGED <<phase, left, bids, edits, watch, proposal, cache, worker>>
      /\ lost' = lost \cup Todo(e)
      /\ log \in Seq(Event)
  BY DEF SkipEvent, stored, cached, Contract, WatchInv, Shapes
<1>3. /\ f[1] \in States /\ f[2] \in States /\ e \in Event /\ Follows(f[1], e, f[2])
      /\ \E g : Leads(g)' /\ g[1] = f[2]
  BY <1>1, <1>2, TrailTaken
<1>4. PICK g : Leads(g)' /\ g[1] = f[2]
  BY <1>3
<1>5. log' \in Seq(Event) /\ Todo(e) \subseteq Whats
  BY <1>2, <1>3, Taken, TodoTypes
<1> HIDE DEF e
<1>6. Kept(watch, proposal, lost, f[1]) /\ Mixed(f[1], f[2], Todo(e)) = f[1]
  BY <1>1, <1>2, <1>3, IdleWorks, MixedNothing, MixedAll DEF Working
<1>7. /\ e.kind = "AddWatch" => Todo(e) = Whats /\ watch = NoWatch
      /\ e.kind = "ProposalCreated" => "auction" \in Todo(e)
  BY <1>3, <1>6, TodoOf DEF Kept, Within, Reached, Follows, Emits
<1>8. Kept(watch, proposal, lost \cup Todo(e), f[2])
  BY <1>3, <1>6, <1>7, CutShort DEF WatchInv, Shapes
<1>9. Working(g[1], g[1])'
  BY <1>2, <1>3, <1>4, <1>8, IdleWorks, MixedNothing DEF Working
<1>10. Holds'
  BY <1>3, <1>4, <1>9 DEF Holds
<1>11. Shapes' /\ ContractOK' /\ WorkersOK'
  BY <1>2, <1>5 DEF WatchInv, Shapes, ContractOK, WorkersOK
<1> QED
  BY <1>10, <1>11 DEF WatchInv

-----------------------------------------------------------------------------
(* Documents that are saved.                                               *)

LEMMA WatchFields ==
  ASSUME NEW w \in Watches
  PROVE  /\ DOMAIN w = {"status", "shares", "tradeAllowed", "auctionStatus", "startTime"}
         /\ w = [f \in DOMAIN w |-> w[f]]
BY DEF Watches

\* A save that changes nothing changes nothing.
LEMMA MergeNothing ==
  ASSUME watch \in Watches, NEW d
  PROVE  Merge(d, d) = watch
BY WatchFields DEF Merge

\* A document that nobody else saved in between is saved as it is.
LEMMA MergeAll ==
  ASSUME watch \in Watches, NEW c \in Watches
  PROVE  Merge(watch, c) = c
<1>1. DOMAIN c = DOMAIN watch /\ c = [f \in DOMAIN c |-> c[f]]
  BY WatchFields
<1>2. \A f \in DOMAIN watch : (IF c[f] = watch[f] THEN watch[f] ELSE c[f]) = c[f]
  OBVIOUS
<1>3. Merge(watch, c) = [f \in DOMAIN watch |-> c[f]]
  BY <1>2 DEF Merge
<1> QED
  BY <1>1, <1>3

LEMMA WorkerMoves ==
  ASSUME worker \in [Workers -> Work], NEW w \in Workers, NEW pc \in Pcs,
         NEW todo \in SUBSET Whats, To(w, pc, todo)
  PROVE  /\ worker' \in [Workers -> Work]
         /\ worker'[w].pc = pc /\ worker'[w].todo = todo
         /\ worker'[w].event = worker[w].event /\ worker'[w].read = worker[w].read
         /\ worker'[w].changed = worker[w].changed
         /\ \A v \in Workers : v # w => worker'[v] = worker[v]
BY DEF To, Work

LEMMA WorkerEnds ==
  ASSUME worker \in [Workers -> Work], NEW w \in Workers, Ends(w)
  PROVE  /\ worker' \in [Workers -> Work] /\ worker'[w] = Idle
         /\ \A v \in Workers : v # w => worker'[v] = worker[v]
BY IdleWorks DEF Ends

-----------------------------------------------------------------------------
(* Prices and lists.                                                       *)

\* What a worker that does not handle an event does.
LEMMA CalmMoves ==
  ASSUME WatchInv, UNCHANGED <<chain, stored, lost>>, cache'.status \in Statuses,
         worker' \in [Workers -> Work], NEW w \in Workers, Asks(worker[w]), Asks(worker'[w]),
         \A v \in Workers : v # w =>
           /\ worker'[v].pc = worker[v].pc /\ worker'[v].event = worker[v].event
           /\ worker'[v].todo = worker[v].todo /\ worker'[v].read = worker[v].read
           /\ worker'[v].changed = worker[v].changed
  PROVE  WatchInv'
<1>1. Doing(worker[Tick], watch, proposal) /\ \A r \in Requests : Asks(worker[r])
  BY DEF WatchInv, WorkersOK
<1>2. Doing(worker'[Tick], watch, proposal)
  <2>1. CASE w = Tick
    BY <2>1 DEF Asks, Doing, Calm
  <2>2. CASE w # Tick
    BY <1>1, <2>2, TickIn DEF Doing
  <2> QED
    BY <2>1, <2>2
<1>3. \A r \in Requests : Asks(worker'[r])
  BY <1>1, TickIn DEF Asks
<1>4. /\ worker'[Tick].todo = worker[Tick].todo
      /\ worker'[Tick].todo # {} => worker'[Tick].event = worker[Tick].event
  BY TickIn DEF Asks
<1> QED
  BY <1>2, <1>3, <1>4, CollectionsRest

LEMMA StatusShown == ASSUME WatchInv PROVE Shown \in Statuses
BY DEF WatchInv, Shapes, Watches, Shown, Statuses

LEMMA Calms == Calm \subseteq Pcs /\ {} \in SUBSET Whats
BY DEF Calm, Pcs

LEMMA AsksWhenCalm ==
  ASSUME WatchInv, NEW w \in Workers, worker[w].pc \in Calm
  PROVE  Asks(worker[w])
BY TickIn DEF WatchInv, WorkersOK, Doing, Asks, Workers

LEMMA Outdated ==
  ASSUME NEW k \in Work, NEW j, j = [k EXCEPT !.clean = FALSE]
  PROVE  /\ j \in Work /\ j.pc = k.pc /\ j.event = k.event /\ j.todo = k.todo
         /\ j.read = k.read /\ j.changed = k.changed
BY DEF Work

LEMMA RequestKeeps ==
  ASSUME WatchInv, NEW r \in Requests, BeginPrice(r) \/ ReadList(r)
  PROVE  WatchInv'
<1>1. /\ UNCHANGED <<chain, stored, cached, lost>> /\ worker[r] = Idle
      /\ To(r, "findPrices", {}) \/ To(r, "reload", {})
  BY DEF BeginPrice, ReadList
<1>2. r \in Workers /\ Asks(worker[r])
  BY <1>1, IdleWorks, TickIn
<1>3. /\ worker' \in [Workers -> Work] /\ Asks(worker'[r])
      /\ \A v \in Workers : v # r => worker'[v] = worker[v]
  BY <1>1, <1>2, WorkerMoves, Calms DEF WatchInv, Shapes, Asks, Calm
<1>4. cache'.status \in Statuses
  BY <1>1 DEF cached, WatchInv, Shapes
<1> QED
  BY <1>1, <1>2, <1>3, <1>4, CalmMoves

LEMMA StepKeeps ==
  ASSUME WatchInv, NEW w \in Workers, Step(w)
  PROVE  WatchInv' /\ watch' = watch
<1>1. worker \in [Workers -> Work] /\ watch \in Watches /\ cache.status \in Statuses
  BY DEF WatchInv, Shapes
<1>2. worker[w].pc \in Calm
  BY DEF Step, FindPrices, SavePrices, StalePrices, LoadWatches, StoreList, At, Calm
<1>3. Asks(worker[w]) /\ worker[w] \in Work
  BY <1>1, <1>2, AsksWhenCalm
<1>4. ASSUME FindPrices(w) PROVE WatchInv' /\ watch' = watch
  <2>1. /\ UNCHANGED <<chain, stored, cached, lost>>
        /\ worker' = [worker EXCEPT ![w].pc = "savePrices", ![w].clean = TRUE,
                                    ![w].read = watch, ![w].changed = watch]
    BY <1>4 DEF FindPrices
  <2>2. /\ worker' \in [Workers -> Work]
        /\ worker'[w].pc = "savePrices" /\ worker'[w].todo = worker[w].todo
        /\ worker'[w].read = watch /\ worker'[w].changed = watch
        /\ \A v \in Workers : v # w => worker'[v] = worker[v]
    <3>1. "savePrices" \in Pcs
      BY DEF Pcs, Calm
    <3>2. /\ worker'[w].pc = "savePrices" /\ worker'[w].todo = worker[w].todo
          /\ worker'[w].read = watch /\ worker'[w].changed = watch
      BY <1>1, <2>1 DEF Work
    <3>3. \A v \in Workers : v # w => worker'[v] = worker[v]
      BY <1>1, <2>1
    <3>4. worker' \in [Workers -> Work]
      <4> DEFINE a == [worker[w] EXCEPT !.pc = "savePrices"]
                 b == [a EXCEPT !.clean = TRUE]
                 c == [b EXCEPT !.read = watch]
                 d == [c EXCEPT !.changed = watch]
      <4>1. worker'[w] = d
        BY <1>1, <2>1
      <4>2. a \in Work
        BY <1>3, <3>1 DEF Work
      <4> HIDE DEF a
      <4>3. b \in Work
        BY <4>2 DEF Work
      <4> HIDE DEF b
      <4>4. c \in Work
        BY <1>1, <4>3 DEF Work
      <4> HIDE DEF c
      <4>5. d \in Work
        BY <1>1, <4>4 DEF Work
      <4> HIDE DEF d
      <4>6. worker' = [v \in Workers |-> worker'[v]]
        BY <1>1, <2>1
      <4> QED
        BY <1>1, <3>3, <4>1, <4>5, <4>6
    <3> QED
      BY <3>2, <3>3, <3>4
  <2>3. Asks(worker'[w])
    BY <1>3, <2>2 DEF Asks, Calm
  <2>4. cache'.status \in Statuses /\ watch' = watch
    BY <1>1, <2>1 DEF cached, stored
  <2> QED
    BY <1>3, <2>1, <2>2, <2>3, <2>4, CalmMoves
<1>5. ASSUME SavePrices(w) PROVE WatchInv' /\ watch' = watch
  <2>1. /\ worker[w].pc = "savePrices"
        /\ watch' = Merge(worker[w].read, worker[w].changed)
        /\ UNCHANGED <<chain, proposal, cached, lost>>
        /\ worker' = [v \in Workers |->
             IF v # w THEN [worker[v] EXCEPT !.clean = FALSE]
             ELSE IF w = Tick THEN [worker[w] EXCEPT !.pc = "reload", !.clean = FALSE]
             ELSE Idle]
    BY <1>5 DEF SavePrices, At
  <2>2. watch' = watch
    BY <1>1, <1>3, <2>1, MergeNothing DEF Asks
  <2>3. \A v \in Workers : v # w => worker'[v] = [worker[v] EXCEPT !.clean = FALSE]
    BY <2>1
  <2>4. \A v \in Workers : v # w =>
          /\ worker'[v] \in Work
          /\ worker'[v].pc = worker[v].pc /\ worker'[v].event = worker[v].event
          /\ worker'[v].todo = worker[v].todo /\ worker'[v].read = worker[v].read
          /\ worker'[v].changed = worker[v].changed
    <3> SUFFICES ASSUME NEW v \in Workers, v # w
                 PROVE  /\ worker'[v] \in Work
                        /\ worker'[v].pc = worker[v].pc /\ worker'[v].event = worker[v].event
                        /\ worker'[v].todo = worker[v].todo /\ worker'[v].read = worker[v].read
                        /\ worker'[v].changed = worker[v].changed
      OBVIOUS
    <3>1. worker[v] \in Work /\ worker'[v] = [worker[v] EXCEPT !.clean = FALSE]
      BY <1>1, <2>3
    <3> QED
      BY <3>1, Outdated
  <2>5. worker'[w] \in Work /\ Asks(worker'[w])
    <3>1. worker'[w] = IF w = Tick THEN [worker[w] EXCEPT !.pc = "reload", !.clean = FALSE]
                       ELSE Idle
      BY <2>1
    <3>2. CASE w # Tick
      BY <3>1, <3>2, IdleWorks
    <3>3. CASE w = Tick
      <4>1. worker'[w] = [worker[w] EXCEPT !.pc = "reload", !.clean = FALSE]
        BY <3>1, <3>3
      <4>2. worker'[w] \in Work /\ worker'[w].pc = "reload" /\ worker'[w].todo = worker[w].todo
        BY <1>3, <4>1 DEF Work, Pcs, Calm
      <4> QED
        BY <1>3, <4>2 DEF Asks, Calm
    <3> QED
      BY <3>2, <3>3
  <2>6. worker' \in [Workers -> Work]
    BY <2>1, <2>4, <2>5
  <2>7. UNCHANGED <<chain, stored, lost>> /\ cache'.status \in Statuses
    BY <1>1, <2>1, <2>2 DEF stored, cached
  <2> QED
    BY <1>3, <2>2, <2>4, <2>5, <2>6, <2>7, CalmMoves
<1>6. ASSUME StalePrices(w) \/ StoreList(w) PROVE WatchInv' /\ watch' = watch
  <2>1. /\ UNCHANGED <<chain, stored, lost>> /\ Ends(w)
        /\ cache' = cache \/ cache'.status = worker[w].status
    BY <1>6 DEF StalePrices, StoreList, cached
  <2>2. /\ worker' \in [Workers -> Work] /\ worker'[w] = Idle
        /\ \A v \in Workers : v # w => worker'[v] = worker[v]
    BY <1>1, <2>1, WorkerEnds
  <2>3. cache'.status \in Statuses /\ watch' = watch
    BY <1>1, <1>3, <2>1 DEF stored, Work
  <2> QED
    BY <1>3, <2>1, <2>2, <2>3, IdleWorks, CalmMoves
<1>7. ASSUME LoadWatches(w) PROVE WatchInv' /\ watch' = watch
  <2>1. /\ UNCHANGED <<chain, stored, cached, lost>>
        /\ worker' = [worker EXCEPT ![w].pc = "sales", ![w].status = Shown]
    BY <1>7 DEF LoadWatches
  <2>2. /\ worker' \in [Workers -> Work]
        /\ worker'[w].pc = "sales" /\ worker'[w].todo = worker[w].todo
        /\ \A v \in Workers : v # w => worker'[v] = worker[v]
    BY <1>1, <2>1, StatusShown DEF Work, Pcs, Calm
  <2>3. Asks(worker'[w])
    BY <1>3, <2>2 DEF Asks, Calm
  <2>4. cache'.status \in Statuses /\ watch' = watch
    BY <1>1, <2>1 DEF cached, stored
  <2> QED
    BY <1>3, <2>1, <2>2, <2>3, <2>4, CalmMoves
<1> QED
  BY <1>4, <1>5, <1>6, <1>7 DEF Step

LEMMA RestKeeps ==
  ASSUME WatchInv, Tock \/ TenSeconds \/ UNCHANGED vars
  PROVE  WatchInv'
<1>1. UNCHANGED <<chain, stored, lost, worker, cache>>
  BY DEF Tock, TenSeconds, vars, cached
<1> QED
  BY <1>1, CollectionsRest DEF WatchInv, WorkersOK, Shapes

-----------------------------------------------------------------------------
(* Losses.                                                                 *)

LEMMA TickCut ==
  ASSUME WatchInv, UNCHANGED <<chain, stored>>, cache'.status \in Statuses,
         lost' = lost \cup worker[Tick].todo, worker' \in [Workers -> Work],
         worker'[Tick] = Idle, \A r \in Requests : Asks(worker'[r])
  PROVE  WatchInv'
<1>1. PICK f, s : s \in States /\ Leads(f) /\ Working(s, f[1])
  BY DEF WatchInv, Holds
<1> DEFINE k == worker[Tick]
           t == f[1]
<1>2. /\ watch' = watch /\ proposal' = proposal
      /\ phase' = phase /\ left' = left /\ edits' = edits /\ bids' = bids /\ log' = log
  BY DEF stored, chain
<1>3. t \in States /\ k \in Work /\ watch \in Watches /\ Doing(k, watch, proposal)
  BY <1>1, TrailBegins, TickIn DEF WatchInv, Shapes, WorkersOK
<1>4. /\ Kept(watch, proposal, lost, Mixed(s, t, k.todo))
      /\ k.todo # {} => k.todo \subseteq Todo(k.event) /\ Follows(s, k.event, t)
  BY <1>1 DEF Working
<1> HIDE DEF k, t
<1>5. Kept(watch, proposal, lost', t)
  <2>1. lost' = lost \cup k.todo
    BY DEF k
  <2>2. CASE k.todo = {}
    BY <1>3, <1>4, <2>1, <2>2, MixedNothing
  <2>3. CASE k.todo # {}
    <3>1. k.pc \notin Calm /\ k.event \in Event /\ k.pc \in Pcs
      BY <1>3, <2>3 DEF Doing, Work
    <3>2. /\ k.event.kind = "AddWatch" => k.todo = Whats
          /\ k.event.kind = "ProposalCreated" /\ "proposal" \in k.todo =>
               "auction" \in k.todo \/ proposal[k.event.proposalId] # NoProposal
      BY <1>3, <3>1, TodoOf DEF Doing, Pcs, OfAuction
    <3>3. k.event.kind = "AddWatch" => watch = NoWatch
      <4> SUFFICES ASSUME k.event.kind = "AddWatch" PROVE watch = NoWatch
        OBVIOUS
      <4>1. Mixed(s, t, k.todo).phase = s.phase
        BY <3>2 DEF Mixed, Whats
      <4>2. s.phase = "none"
        BY <1>4, <2>3 DEF Follows, Emits
      <4> QED
        BY <1>4, <4>1, <4>2 DEF Kept, Within, Reached
    <3> QED
      BY <1>1, <1>3, <1>4, <2>1, <2>3, <3>1, <3>2, <3>3, CutShort
  <2> QED
    BY <2>2, <2>3
<1>6. Working(t, t)'
  BY <1>2, <1>3, <1>5, IdleWorks, MixedNothing DEF Working
<1>7. Holds'
  BY <1>1, <1>3, <1>6, HoldsStill DEF t
<1>8. lost' \subseteq Whats
  BY <1>3 DEF Work, WatchInv, Shapes, k
<1>9. Shapes' /\ ContractOK' /\ WorkersOK'
  BY <1>2, <1>8, IdleWorks DEF WatchInv, Shapes, ContractOK, WorkersOK
<1> QED
  BY <1>7, <1>9 DEF WatchInv

LEMMA FailKeeps ==
  ASSUME WatchInv, Crash \/ \E w \in Workers : WorkerFails(w)
  PROVE  WatchInv'
<1>1. worker \in [Workers -> Work] /\ cache.status \in Statuses
      /\ \A r \in Requests : Asks(worker[r])
  BY DEF WatchInv, Shapes, WorkersOK
<1>2. CASE Crash
  <2>1. /\ UNCHANGED <<chain, stored>> /\ cache' = NoCache
        /\ lost' = lost \cup worker[Tick].todo /\ worker' = [w \in Workers |-> Idle]
    BY <1>2 DEF Crash
  <2>2. /\ worker' \in [Workers -> Work] /\ worker'[Tick] = Idle
        /\ \A r \in Requests : worker'[r] = Idle
    BY <2>1, IdleWorks, TickIn
  <2>3. cache'.status \in Statuses
    BY <2>1 DEF NoCache, Statuses
  <2> QED
    BY <2>1, <2>2, <2>3, IdleWorks, TickCut
<1>3. ASSUME NEW w \in Workers, WorkerFails(w)
      PROVE  WatchInv'
  <2>1. /\ UNCHANGED <<chain, stored, cached>> /\ Ends(w)
        /\ lost' = lost \cup worker[w].todo
    BY <1>3 DEF WorkerFails
  <2>2. /\ worker' \in [Workers -> Work] /\ worker'[w] = Idle
        /\ \A v \in Workers : v # w => worker'[v] = worker[v]
    BY <1>1, <2>1, WorkerEnds
  <2>3. cache'.status \in Statuses
    BY <1>1, <2>1 DEF cached
  <2>4. CASE w = Tick
    BY <1>1, <2>1, <2>2, <2>3, <2>4, TickIn, TickCut
  <2>5. CASE w # Tick
    <3>1. Asks(worker[w])
      BY <1>1, <2>5 DEF Workers
    <3>2. lost' = lost
      BY <2>1, <3>1 DEF Asks
    <3> QED
      BY <2>1, <2>2, <2>3, <3>1, <3>2, IdleWorks, CalmMoves
  <2> QED
    BY <2>4, <2>5
<1> QED
  BY <1>2, <1>3

-----------------------------------------------------------------------------
(* Handlers.                                                               *)

\* A step of the tick that goes from one await of its handler to the next.
LEMMA HandlerMoves ==
  ASSUME WatchInv, UNCHANGED <<chain, cached, lost>>,
         NEW f, NEW s \in States, Leads(f), Working(s, f[1]),
         watch' \in Watches, proposal' \in [Proposals -> Bids],
         \A p \in Proposals : WellFormed(proposal'[p]),
         worker' \in [Workers -> Work],
         \A v \in Workers : v # Tick => worker'[v] = worker[v],
         Doing(worker'[Tick], watch', proposal'),
         worker'[Tick].todo \subseteq worker[Tick].todo,
         worker'[Tick].todo # {} => worker'[Tick].event = worker[Tick].event,
         Kept(watch', proposal', lost, Mixed(s, f[1], worker'[Tick].todo))
  PROVE  WatchInv'
<1>1. /\ cache' = cache /\ lost' = lost
      /\ phase' = phase /\ left' = left /\ edits' = edits /\ bids' = bids /\ log' = log
  BY DEF cached, chain
<1>2. Working(s, f[1])'
  BY <1>1 DEF Working
<1>3. Holds'
  BY <1>2, HoldsStill
<1>4. \A r \in Requests : worker'[r] = worker[r]
  BY TickIn
<1>5. Shapes' /\ ContractOK' /\ WorkersOK'
  BY <1>1, <1>4 DEF WatchInv, Shapes, ContractOK, WorkersOK
<1> QED
  BY <1>3, <1>5 DEF WatchInv

\* What is known while the tick handles an event.
LEMMA Handling ==
  ASSUME WatchInv, worker[Tick].pc \notin Calm
  PROVE  \E f, s :
           /\ s \in States /\ f[1] \in States /\ Leads(f) /\ Working(s, f[1])
           /\ worker[Tick].event \in Event
           /\ worker[Tick].todo # {} =>
                /\ worker[Tick].todo \subseteq Todo(worker[Tick].event)
                /\ Follows(s, worker[Tick].event, f[1])
<1>1. PICK f, s : s \in States /\ Leads(f) /\ Working(s, f[1])
  BY DEF WatchInv, Holds
<1>2. f[1] \in States
  BY <1>1, TrailBegins DEF WatchInv
<1>3. worker[Tick].event \in Event
  BY DEF WatchInv, WorkersOK, Doing
<1> QED
  BY <1>1, <1>2, <1>3 DEF Working

\* A handler that ends with nothing to do has nothing to do, or what it leaves
\* was lost before.
LEMMA HandlerEnds ==
  ASSUME WatchInv, UNCHANGED <<chain, stored, cached, lost>>, Ends(Tick),
         worker[Tick].pc \notin Calm,
         worker[Tick].todo # {} => worker[Tick].todo \subseteq lost,
         worker[Tick].event.kind = "AddWatch" =>
           worker[Tick].todo = Whats /\ watch = NoWatch,
         worker[Tick].event.kind = "ProposalCreated" /\ "proposal" \in worker[Tick].todo =>
           "auction" \in worker[Tick].todo
             \/ proposal[worker[Tick].event.proposalId] # NoProposal
  PROVE  WatchInv'
<1> DEFINE k == worker[Tick]
<1>1. PICK f, s :
        /\ s \in States /\ f[1] \in States /\ Leads(f) /\ Working(s, f[1])
        /\ k.event \in Event
        /\ k.todo # {} => k.todo \subseteq Todo(k.event) /\ Follows(s, k.event, f[1])
  BY Handling
<1>2. Kept(watch, proposal, lost, Mixed(s, f[1], k.todo))
  BY <1>1 DEF Working
<1>3. watch \in Watches /\ worker \in [Workers -> Work] /\ proposal \in [Proposals -> Bids]
      /\ \A p \in Proposals : WellFormed(proposal[p])
  BY DEF WatchInv, Shapes
<1>4. Kept(watch, proposal, lost, f[1])
  <2>1. CASE k.todo = {}
    BY <1>1, <1>2, <2>1, MixedNothing
  <2>2. CASE k.todo # {}
    <3>1. lost \cup k.todo = lost
      BY <2>2
    <3> HIDE DEF k
    <3>2. Kept(watch, proposal, lost \cup k.todo, f[1])
      BY <1>1, <1>2, <1>3, <2>2, CutShort DEF k
    <3> QED
      BY <3>1, <3>2
  <2> QED
    BY <2>1, <2>2
<1>5. /\ worker' \in [Workers -> Work] /\ worker'[Tick] = Idle
      /\ \A v \in Workers : v # Tick => worker'[v] = worker[v]
  BY <1>3, TickIn, WorkerEnds
<1>6. Kept(watch, proposal, lost, Mixed(s, f[1], worker'[Tick].todo))
  BY <1>1, <1>4, <1>5, IdleWorks, MixedNothing
<1>7. watch' = watch /\ proposal' = proposal
  BY DEF stored
<1>8. Doing(worker'[Tick], watch', proposal') /\ worker'[Tick].todo = {}
  BY <1>5, IdleWorks
<1> QED
  BY <1>1, <1>3, <1>5, <1>6, <1>7, <1>8, HandlerMoves

LEMMA NothingKeeps ==
  ASSUME WatchInv, NothingToDo
  PROVE  WatchInv'
<1> DEFINE k == worker[Tick]
<1>1. /\ k.pc = "findWatch" /\ (watch = NoWatch) # (k.event.kind = "AddWatch")
      /\ Ends(Tick) /\ UNCHANGED <<chain, stored, cached, lost>>
  BY DEF NothingToDo, At
<1>2. k.pc \notin Calm /\ k.todo = Todo(k.event) /\ k.event.kind \in OfWatch
  BY <1>1 DEF WatchInv, WorkersOK, Doing, Calm
<1>3. PICK f, s :
        /\ s \in States /\ f[1] \in States /\ Leads(f) /\ Working(s, f[1])
        /\ k.event \in Event
        /\ k.todo # {} => k.todo \subseteq Todo(k.event) /\ Follows(s, k.event, f[1])
  BY <1>2, Handling
<1> HIDE DEF k
<1>4. k.todo # {} /\ k.todo \subseteq Whats /\ Follows(s, k.event, f[1])
  BY <1>2, <1>3, TodoTypes
<1>5. Kept(watch, proposal, lost, s)
  BY <1>2, <1>3, <1>4, MixedAll DEF Working, k
<1>6. k.event.kind = "AddWatch" => watch = NoWatch
  BY <1>4, <1>5 DEF Kept, Within, Reached, Follows, Emits
<1>7. watch = NoWatch /\ k.event.kind # "AddWatch"
  BY <1>1, <1>6
<1>8. Whats \subseteq lost
  BY <1>3, <1>4, <1>5, <1>7, MovesOn DEF Kept, Within
<1>9. k.event.kind # "ProposalCreated"
  BY <1>2 DEF OfWatch
<1> QED
  BY <1>1, <1>2, <1>4, <1>7, <1>8, <1>9, HandlerEnds DEF k

LEMMA OnSaleIs ==
  ASSUME NEW st \in Statuses, NEW price \in Int, NEW start \in Int
  PROVE  [status |-> st, shares |-> price, tradeAllowed |-> FALSE,
          auctionStatus |-> "NOT_STARTED", startTime |-> start] \in Watches
BY DEF Watches, Auctions

\* What the handler makes of the watch it has found.
LEMMA WatchHandled ==
  ASSUME NEW w \in Watches, NEW e \in Event, e.kind \in OfWatch, NEW c,
         c = IF e.kind = "AddWatch" THEN NewWatch(e) ELSE Handled(w, e)
  PROVE  c \in Watches /\ Prepared(c, e, w)
<1>1. \A start : OnSale(start) \in {"Waiting", "Presale"}
  BY DEF OnSale
<1>2. {"Waiting", "Presale", "Trading", "Canceled"} \subseteq Statuses
  BY DEF Statuses
<1>3. 1 .. MaxPrice \subseteq Int /\ 0 .. 1 \subseteq Int
  OBVIOUS
<1>4. CASE e.kind = "AddWatch"
  <2> DEFINE st == OnSale(e.startTime)
  <2>1. c = [status |-> st, shares |-> e.price, tradeAllowed |-> FALSE,
             auctionStatus |-> "NOT_STARTED", startTime |-> e.startTime]
    BY <1>4 DEF NewWatch
  <2>2. e.price \in Int /\ e.startTime \in Int
    BY <1>3, <1>4, EventFields
  <2>3. st \in {"Waiting", "Presale"} /\ st \in Statuses
    BY <1>1, <1>2
  <2> HIDE DEF st
  <2>4. c \in Watches
    BY <2>1, <2>2, <2>3, OnSaleIs
  <2> QED
    BY <1>4, <2>1, <2>3, <2>4, TodoOf DEF Prepared, Whats
<1>5. CASE e.kind = "EditWatch"
  <2> DEFINE st == OnSale(e.startTime)
             x == [w EXCEPT !.status = st]
  <2>1. c = [x EXCEPT !.shares = e.price]
    BY <1>5 DEF Handled
  <2>2. e.price \in Int
    BY <1>3, <1>5, EventFields
  <2>3. st \in {"Waiting", "Presale"} /\ st \in Statuses
    BY <1>1, <1>2
  <2> HIDE DEF st
  <2>4. /\ x \in Watches /\ x.status = st
        /\ x.tradeAllowed = w.tradeAllowed /\ x.auctionStatus = w.auctionStatus
    BY <2>3 DEF Watches
  <2> HIDE DEF x
  <2>5. /\ c \in Watches /\ c.status = st /\ c.shares = e.price
        /\ c.tradeAllowed = w.tradeAllowed /\ c.auctionStatus = w.auctionStatus
    BY <2>1, <2>2, <2>4 DEF Watches
  <2> QED
    BY <1>5, <2>3, <2>5, TodoOf DEF Prepared
<1>6. CASE e.kind = "BuyShares"
  <2>1. c = [w EXCEPT !.shares = w.shares - e.amount]
    BY <1>6 DEF Handled, Remaining
  <2>2. w.shares - e.amount \in Int
    BY <1>3, <1>6, EventFields DEF Watches
  <2> QED
    BY <1>6, <2>1, <2>2, TodoOf DEF Prepared, Watches
<1>7. CASE e.kind = "TradeAllowed"
  <2>1. c = [w EXCEPT !.status = "Trading", !.tradeAllowed = TRUE]
    BY <1>7 DEF Handled
  <2> QED
    BY <1>2, <1>7, <2>1, TodoOf DEF Prepared, Watches
<1>8. CASE e.kind = "RevertFunding"
  <2>1. c = [w EXCEPT !.status = "Canceled"]
    BY <1>8 DEF Handled
  <2> QED
    BY <1>2, <1>8, <2>1, TodoOf DEF Prepared, Watches
<1>9. CASE e.kind = "ProposalCanceled"
  <2>1. c = [w EXCEPT !.auctionStatus = "CANCELED"]
    BY <1>9 DEF Handled
  <2> QED
    BY <1>9, <2>1, TodoOf DEF Prepared, Watches, Auctions
<1> QED
  BY <1>4, <1>5, <1>6, <1>7, <1>8, <1>9 DEF OfWatch

LEMMA FindWatchKeeps ==
  ASSUME WatchInv, FindWatch
  PROVE  WatchInv' /\ watch' = watch
<1> DEFINE k == worker[Tick]
           j == worker'[Tick]
           e == k.event
           pc == CASE e.kind = "AddWatch" -> "insertWatch"
                   [] e.kind = "ProposalCanceled" -> "findProposal"
                   [] OTHER -> "saveWatch"
           c == IF e.kind = "AddWatch" THEN NewWatch(e) ELSE Handled(watch, e)
<1>1. /\ k.pc = "findWatch" /\ (watch = NoWatch) = (e.kind = "AddWatch")
      /\ UNCHANGED <<chain, stored, cached, lost>>
      /\ worker' = [worker EXCEPT ![Tick].pc = pc, ![Tick].read = watch, ![Tick].changed = c]
  BY DEF FindWatch, At
<1>2. k.pc \notin Calm /\ k.todo = Todo(e) /\ e.kind \in OfWatch
  BY <1>1 DEF WatchInv, WorkersOK, Doing, Calm
<1>3. PICK f, s :
        /\ s \in States /\ f[1] \in States /\ Leads(f) /\ Working(s, f[1])
        /\ e \in Event
  BY <1>2, Handling
<1>4. watch \in Watches /\ worker \in [Workers -> Work] /\ proposal \in [Proposals -> Bids]
      /\ \A p \in Proposals : WellFormed(proposal[p])
  BY DEF WatchInv, Shapes
<1>5. c \in Watches /\ Prepared(c, e, watch)
  <2> HIDE DEF e
  <2> QED
    BY <1>2, <1>3, <1>4, WatchHandled
<1>6. /\ pc = IF e.kind = "AddWatch" THEN "insertWatch"
              ELSE IF e.kind = "ProposalCanceled" THEN "findProposal" ELSE "saveWatch"
      /\ pc \in Pcs
  BY DEF Pcs
<1> HIDE DEF c, pc
<1>7. j.pc = pc /\ j.read = watch /\ j.changed = c /\ j.event = e /\ j.todo = k.todo
  BY <1>1, <1>4, TickIn DEF Work
<1>8. \A v \in Workers : v # Tick => worker'[v] = worker[v]
  BY <1>1, <1>4
<1>9. worker' \in [Workers -> Work]
  <2> DEFINE x == [k EXCEPT !.pc = pc]
             y == [x EXCEPT !.read = watch]
             z == [y EXCEPT !.changed = c]
  <2>1. j = z
    BY <1>1, <1>4, TickIn
  <2>2. x \in Work
    BY <1>4, <1>6, TickIn DEF Work
  <2> HIDE DEF x
  <2>3. y \in Work
    BY <1>4, <2>2 DEF Work
  <2> HIDE DEF y
  <2>4. z \in Work
    BY <1>5, <2>3 DEF Work
  <2> HIDE DEF z
  <2>5. worker' = [v \in Workers |-> worker'[v]]
    BY <1>1, <1>4
  <2> QED
    BY <1>4, <1>8, <2>1, <2>4, <2>5
<1> HIDE DEF j
<1>10. Doing(j, watch, proposal)
  BY <1>1, <1>2, <1>3, <1>5, <1>6, <1>7 DEF Doing, Calm, OfWatch, OfAuction
<1>11. watch' = watch /\ proposal' = proposal
  BY <1>1 DEF stored
<1>12. Kept(watch, proposal, lost, Mixed(s, f[1], j.todo))
  BY <1>3, <1>7 DEF Working
<1> QED
  BY <1>1, <1>3, <1>4, <1>7, <1>8, <1>9, <1>10, <1>11, <1>12, HandlerMoves DEF j

LEMMA WatchesIn ==
  ASSUME WatchInv
  PROVE  /\ watch \in Watches /\ worker \in [Workers -> Work] /\ worker[Tick] \in Work
         /\ proposal \in [Proposals -> Bids]
         /\ \A p \in Proposals : WellFormed(proposal[p])
         /\ Doing(worker[Tick], watch, proposal)
BY TickIn DEF WatchInv, Shapes, WorkersOK

\* What a status may become: a watch never goes back.
Forward(status, next) ==
  /\ Rank(next) >= Rank(status)
  /\ status = "Canceled" => next = "Canceled"

LEMMA ForwardTo ==
  /\ \A st \in Statuses : Forward(st, st) /\ Forward("none", st)
  /\ \A st \in {"Waiting", "Presale"} :
       \A next \in Statuses \ {"none"} : Forward(st, next)
  /\ Forward("Trading", "Trading") /\ Forward("Trading", "Sold")
BY DEF Forward, Rank, Statuses

LEMMA InsertKeeps ==
  ASSUME WatchInv, InsertWatch
  PROVE  WatchInv' /\ Forward(watch.status, watch'.status)
<1> DEFINE k == worker[Tick]
           c == k.changed
<1>1. /\ k.pc = "insertWatch" /\ watch' = c /\ To(Tick, "reload", {})
      /\ UNCHANGED <<chain, proposal, cached, lost>>
  BY DEF InsertWatch, At
<1>2. k.pc \notin Calm /\ k.todo = Todo(k.event)
      /\ k.event.kind = "AddWatch" /\ watch = NoWatch /\ Prepared(c, k.event, watch)
  BY <1>1, WatchesIn DEF Doing, Calm
<1>3. PICK f, s :
        /\ s \in States /\ f[1] \in States /\ Leads(f) /\ Working(s, f[1])
        /\ k.event \in Event
        /\ k.todo # {} => k.todo \subseteq Todo(k.event) /\ Follows(s, k.event, f[1])
  BY <1>2, Handling
<1>4. k \in Work /\ c \in Watches
  BY WatchesIn DEF Work
<1>5. /\ worker' \in [Workers -> Work] /\ worker'[Tick].pc = "reload"
      /\ worker'[Tick].todo = {}
      /\ \A v \in Workers : v # Tick => worker'[v] = worker[v]
  BY <1>1, WatchesIn, WorkerMoves, TickIn, Calms DEF Calm
<1> HIDE DEF k, c
<1>6. Follows(s, k.event, f[1])
  BY <1>2, <1>3, TodoTypes
<1>7. Kept(watch, proposal, lost, s)
  BY <1>2, <1>3, <1>6, MixedAll DEF Working, k
<1>8. Kept(c, proposal, lost, f[1])
  BY <1>2, <1>3, <1>4, <1>6, <1>7, WatchWritten, WatchesIn DEF OfWatch
<1>9. Kept(watch', proposal', lost, Mixed(s, f[1], worker'[Tick].todo))
  BY <1>1, <1>3, <1>5, <1>8, MixedNothing
<1>10. Doing(worker'[Tick], watch', proposal')
  BY <1>5 DEF Doing, Calm
<1>11. WatchInv'
  BY <1>1, <1>3, <1>4, <1>5, <1>9, <1>10, HandlerMoves, WatchesIn
<1>12. Forward(watch.status, watch'.status)
  BY <1>1, <1>2, <1>4, ForwardTo DEF NoWatch, Watches
<1> QED
  BY <1>11, <1>12

LEMMA SaveWatchKeeps ==
  ASSUME WatchInv, SaveWatch
  PROVE  WatchInv' /\ Forward(watch.status, watch'.status)
<1> DEFINE k == worker[Tick]
           c == k.changed
           rest == {"proposal"} \cap Todo(k.event)
<1>1. /\ k.pc = "saveWatch" /\ watch' = Merge(k.read, c)
      /\ UNCHANGED <<chain, proposal, cached, lost>>
      /\ CASE k.event.kind = "EditWatch" -> Ends(Tick)
           [] k.event.kind = "TradeAllowed" -> To(Tick, "findPrices", {})
           [] k.event.kind = "ProposalCanceled" -> To(Tick, "saveProposal", {"proposal"})
           [] OTHER -> To(Tick, "reload", {})
  BY DEF SaveWatch, At
<1>2. /\ k.pc \notin Calm /\ k.todo = Todo(k.event)
      /\ k.event.kind \in OfWatch \ {"AddWatch"}
      /\ watch # NoWatch /\ k.read = watch /\ Prepared(c, k.event, watch)
      /\ k.event.kind = "ProposalCanceled" => proposal[k.event.proposalId] # NoProposal
  BY <1>1, WatchesIn DEF Doing, Calm
<1>3. PICK f, s :
        /\ s \in States /\ f[1] \in States /\ Leads(f) /\ Working(s, f[1])
        /\ k.event \in Event
        /\ k.todo # {} => k.todo \subseteq Todo(k.event) /\ Follows(s, k.event, f[1])
  BY <1>2, Handling
<1>4. k \in Work /\ c \in Watches
  BY WatchesIn DEF Work
<1>5. watch' = c
  BY <1>1, <1>2, <1>4, WatchesIn, MergeAll
<1>6. /\ rest = IF k.event.kind = "ProposalCanceled" THEN {"proposal"} ELSE {}
      /\ rest \subseteq k.todo
  BY <1>2, TodoOf DEF OfWatch
<1>7. /\ worker' \in [Workers -> Work] /\ worker'[Tick].todo = rest
      /\ \A v \in Workers : v # Tick => worker'[v] = worker[v]
      /\ \/ worker'[Tick].pc \in Calm /\ rest = {}
         \/ /\ worker'[Tick].pc = "saveProposal" /\ k.event.kind = "ProposalCanceled"
            /\ worker'[Tick].event = k.event
      /\ worker'[Tick].pc = "savePrices" => worker'[Tick].read = worker'[Tick].changed
      /\ worker'[Tick].todo # {} => worker'[Tick].event = k.event
  <2>1. CASE k.event.kind = "EditWatch"
    BY <1>1, <1>6, <2>1, WatchesIn, WorkerEnds, TickIn, IdleWorks DEF Calm
  <2>2. CASE k.event.kind = "ProposalCanceled"
    BY <1>1, <1>6, <2>2, WatchesIn, WorkerMoves, TickIn DEF Pcs, Whats
  <2>3. CASE k.event.kind \notin {"EditWatch", "ProposalCanceled"}
    <3>1. To(Tick, "findPrices", {}) \/ To(Tick, "reload", {})
      BY <1>1, <2>3
    <3> QED
      BY <1>6, <2>3, <3>1, WatchesIn, WorkerMoves, TickIn, Calms DEF Calm
  <2> QED
    BY <2>1, <2>2, <2>3
<1> HIDE DEF k, c, rest
<1>8. Follows(s, k.event, f[1])
  BY <1>2, <1>3, TodoTypes
<1>9. Kept(watch, proposal, lost, s)
  BY <1>2, <1>3, <1>8, MixedAll DEF Working, k
<1>10. Kept(c, proposal, lost, Mixed(s, f[1], rest)) /\ c # NoWatch
  BY <1>2, <1>3, <1>4, <1>8, <1>9, WatchWritten, WatchesIn DEF OfWatch, rest
<1>11. Doing(worker'[Tick], c, proposal)
  BY <1>2, <1>3, <1>6, <1>7 DEF Doing, Calm, OfAuction
<1>12. WatchInv'
  BY <1>1, <1>3, <1>4, <1>5, <1>6, <1>7, <1>10, <1>11, HandlerMoves, WatchesIn DEF k
<1>13. Forward(watch.status, c.status)
  <2>1. Reached(watch.status, s.phase) /\ watch.status \in Statuses /\ c.status \in Statuses
        /\ watch.status # "none" /\ c.status # "none"
    <3>1. Kept(c, proposal, lost, Mixed(s, f[1], rest)) /\ Kept(watch, proposal, lost, s)
      BY <1>9, <1>10
    <3> QED
      BY <1>2, <1>4, <1>10, <3>1, WatchesIn DEF Kept, Within, Watches
  <2>2. CASE k.event.kind \in {"BuyShares", "ProposalCanceled"}
    <3>1. c.status = watch.status
      BY <1>2, <2>2, TodoOf DEF Prepared
    <3> QED
      BY <2>1, <3>1, ForwardTo
  <2>3. CASE k.event.kind \in {"EditWatch", "TradeAllowed", "RevertFunding"}
    <3>1. s.phase = "funding"
      BY <1>8, <2>3 DEF Follows, Emits
    <3>2. watch.status \in {"Waiting", "Presale"}
      BY <2>1, <3>1 DEF Reached, Statuses
    <3> QED
      BY <2>1, <3>2, ForwardTo
  <2> QED
    BY <1>2, <2>2, <2>3 DEF OfWatch
<1> QED
  BY <1>5, <1>12, <1>13

LEMMA FindProposalKeeps ==
  ASSUME WatchInv, FindProposal
  PROVE  WatchInv' /\ watch' = watch
<1> DEFINE k == worker[Tick]
           e == k.event
           exists == proposal[e.proposalId] # NoProposal
<1>1. /\ k.pc = "findProposal" /\ UNCHANGED <<chain, stored, cached, lost>>
      /\ \/ /\ exists /\ e.kind = "ProposalCanceled"
            /\ To(Tick, "saveWatch", {"auction", "proposal"})
         \/ /\ exists /\ e.kind # "ProposalCanceled"
            /\ To(Tick, "saveProposal", {"proposal"})
         \/ /\ ~ exists /\ e.kind = "ProposalCreated"
            /\ To(Tick, "insertProposal", {"auction", "proposal"})
         \/ ~ exists /\ e.kind # "ProposalCreated" /\ Ends(Tick)
  BY DEF FindProposal, At
<1>2. /\ k.pc \notin Calm /\ e.kind \in OfAuction
      /\ e.kind = "ProposalCanceled" =>
            watch # NoWatch /\ k.read = watch /\ Prepared(k.changed, e, watch)
      /\ k.todo = IF e.kind = "ProposalAccepted" THEN {"proposal"} ELSE Todo(e)
  BY <1>1, WatchesIn DEF Doing, Calm
<1>3. /\ e.kind = "ProposalCreated" => k.todo = {"auction", "proposal"}
      /\ e.kind = "ProposalCanceled" => k.todo = {"auction", "proposal"}
      /\ e.kind = "ProposalAccepted" => k.todo = {"proposal"}
      /\ Todo(e) # {}
  BY <1>2, TodoOf DEF OfAuction
<1>4. PICK f, s :
        /\ s \in States /\ f[1] \in States /\ Leads(f) /\ Working(s, f[1])
        /\ e \in Event
        /\ k.todo # {} => k.todo \subseteq Todo(e) /\ Follows(s, e, f[1])
  BY <1>2, Handling
<1>5. watch' = watch /\ proposal' = proposal
  BY <1>1 DEF stored
<1>6. ASSUME NEW pc \in {"saveWatch", "saveProposal", "insertProposal"},
             NEW todo \in SUBSET k.todo, To(Tick, pc, todo),
             Kept(watch, proposal, lost, Mixed(s, f[1], todo)),
             ASSUME NEW j, j.pc = pc, j.todo = todo, j.event = e, j.read = k.read,
                    j.changed = k.changed
             PROVE  Doing(j, watch, proposal)
      PROVE  WatchInv'
  <2>1. pc \in Pcs /\ todo \in SUBSET Whats
    BY <1>6, WatchesIn DEF Pcs, Work
  <2>2. /\ worker' \in [Workers -> Work]
        /\ worker'[Tick].pc = pc /\ worker'[Tick].todo = todo
        /\ worker'[Tick].event = e /\ worker'[Tick].read = k.read
        /\ worker'[Tick].changed = k.changed
        /\ \A v \in Workers : v # Tick => worker'[v] = worker[v]
    BY <1>6, <2>1, WorkerMoves, WatchesIn, TickIn
  <2>3. Doing(worker'[Tick], watch, proposal)
    BY <1>6, <2>2
  <2> QED
    BY <1>1, <1>4, <1>5, <1>6, <2>2, <2>3, HandlerMoves, WatchesIn
<1>7. Kept(watch, proposal, lost, Mixed(s, f[1], k.todo))
  BY <1>4 DEF Working
<1>8. CASE e.kind = "ProposalCanceled" /\ exists
  <2>1. To(Tick, "saveWatch", {"auction", "proposal"})
    BY <1>1, <1>8
  <2>2. ASSUME NEW j, j.pc = "saveWatch", j.todo = {"auction", "proposal"}, j.event = e,
               j.read = k.read, j.changed = k.changed
        PROVE  Doing(j, watch, proposal)
    <3> HIDE DEF k, e
    <3> QED
      BY <1>2, <1>3, <1>4, <1>8, <2>2, TodoOf DEF Doing, Calm, OfWatch, OfAuction
  <2> QED
    BY <1>3, <1>5, <1>6, <1>7, <1>8, <2>1, <2>2
<1>9. CASE e.kind # "ProposalCanceled" /\ exists
  <2>1. To(Tick, "saveProposal", {"proposal"})
    BY <1>1, <1>9
  <2>2. ASSUME NEW j, j.pc = "saveProposal", j.todo = {"proposal"}, j.event = e,
               j.read = k.read, j.changed = k.changed
        PROVE  Doing(j, watch, proposal)
    <3> HIDE DEF k, e
    <3> QED
      BY <1>2, <1>4, <1>9, <2>2 DEF Doing, Calm
  <2>3. Kept(watch, proposal, lost, Mixed(s, f[1], {"proposal"}))
    <3> HIDE DEF k, e
    <3>1. CASE e.kind = "ProposalCreated"
      BY <1>3, <1>4, <1>7, <1>9, <3>1, Outbid DEF e
    <3>2. CASE e.kind = "ProposalAccepted"
      BY <1>3, <1>7, <3>2
    <3> QED
      BY <1>2, <1>9, <3>1, <3>2 DEF OfAuction
  <2>4. {"proposal"} \in SUBSET k.todo
    BY <1>2, <1>3 DEF OfAuction
  <2> QED
    BY <1>5, <1>6, <2>1, <2>2, <2>3, <2>4
<1>10. CASE e.kind = "ProposalCreated" /\ ~ exists
  <2>1. To(Tick, "insertProposal", {"auction", "proposal"})
    BY <1>1, <1>10
  <2>2. ASSUME NEW j, j.pc = "insertProposal", j.todo = {"auction", "proposal"}, j.event = e,
               j.read = k.read, j.changed = k.changed
        PROVE  Doing(j, watch, proposal)
    <3> HIDE DEF k, e
    <3> QED
      BY <1>2, <1>3, <1>4, <1>10, <2>2, TodoOf DEF Doing, Calm
  <2> QED
    BY <1>3, <1>5, <1>6, <1>7, <1>10, <2>1, <2>2
<1>11. CASE e.kind # "ProposalCreated" /\ ~ exists
  <2>1. Ends(Tick)
    BY <1>1, <1>11
  <2> HIDE DEF k, e
  <2>2. Follows(s, e, f[1]) /\ e.proposalId \in Proposals
    BY <1>2, <1>3, <1>4, <1>11, EventFields DEF OfAuction
  <2>3. /\ s.bids[e.proposalId].state = "ACTIVE"
        /\ Mixed(s, f[1], k.todo).bids = s.bids
    BY <1>2, <1>3, <1>11, <2>2 DEF Follows, Emits, OfAuction, Mixed
  <2>4. Mixed(s, f[1], k.todo).bids[e.proposalId] # NoProposal
    BY <2>3 DEF NoProposal
  <2>5. {"auction", "proposal"} \subseteq lost
    BY <1>7, <1>11, <2>2, <2>4 DEF Kept, Made
  <2>6. k.todo \subseteq lost
    BY <1>2, <1>3, <1>11, <2>5 DEF OfAuction
  <2> QED
    BY <1>1, <1>2, <1>5, <1>11, <2>1, <2>6, HandlerEnds DEF k, e, OfAuction
<1> QED
  BY <1>5, <1>8, <1>9, <1>10, <1>11

LEMMA UpdateFields ==
  ASSUME watch \in Watches, NEW status \in Statuses, NEW auctionStatus \in Auctions,
         Update(status, auctionStatus)
  PROVE  /\ watch' \in Watches
         /\ watch = NoWatch => watch' = watch
         /\ watch # NoWatch =>
              /\ watch'.status = status /\ watch'.auctionStatus = auctionStatus
              /\ watch'.shares = watch.shares /\ watch'.tradeAllowed = watch.tradeAllowed
<1>1. CASE watch = NoWatch
  BY <1>1 DEF Update
<1>2. CASE watch # NoWatch
  <2> DEFINE x == [watch EXCEPT !.status = status]
  <2>1. watch' = [x EXCEPT !.auctionStatus = auctionStatus]
    BY <1>2 DEF Update
  <2>2. /\ x \in Watches /\ x.status = status
        /\ x.shares = watch.shares /\ x.tradeAllowed = watch.tradeAllowed
    BY DEF Watches
  <2> HIDE DEF x
  <2>3. /\ watch' \in Watches /\ watch'.status = x.status
        /\ watch'.auctionStatus = auctionStatus
        /\ watch'.shares = x.shares /\ watch'.tradeAllowed = x.tradeAllowed
    BY <2>1, <2>2 DEF Watches
  <2> QED
    BY <1>2, <2>2, <2>3
<1> QED
  BY <1>1, <1>2

LEMMA ActivateKeeps ==
  ASSUME WatchInv, Activate
  PROVE  WatchInv' /\ Forward(watch.status, watch'.status)
<1> DEFINE k == worker[Tick]
<1>1. /\ k.pc = "activate" /\ Update(watch.status, "ACTIVE") /\ Ends(Tick)
      /\ UNCHANGED <<chain, proposal, cached, lost>>
  BY DEF Activate, At
<1>2. k.pc \notin Calm /\ k.event.kind = "ProposalCreated" /\ k.todo = {"auction"}
  BY <1>1, WatchesIn DEF Doing, Calm
<1>3. PICK f, s :
        /\ s \in States /\ f[1] \in States /\ Leads(f) /\ Working(s, f[1])
        /\ k.event \in Event
        /\ k.todo # {} => k.todo \subseteq Todo(k.event) /\ Follows(s, k.event, f[1])
  BY <1>2, Handling
<1>4. watch \in Watches /\ watch.status \in Statuses /\ "ACTIVE" \in Auctions
  BY WatchesIn DEF Watches, Auctions
<1>5. /\ watch' \in Watches /\ watch'.status = watch.status
      /\ watch = NoWatch => watch' = watch
      /\ watch # NoWatch =>
           /\ watch'.shares = watch.shares /\ watch'.tradeAllowed = watch.tradeAllowed
           /\ watch'.auctionStatus = "ACTIVE"
  BY <1>1, <1>4, UpdateFields
<1>6. /\ worker' \in [Workers -> Work] /\ worker'[Tick] = Idle
      /\ \A v \in Workers : v # Tick => worker'[v] = worker[v]
  BY <1>1, WatchesIn, WorkerEnds, TickIn
<1> HIDE DEF k
<1>7. Follows(s, k.event, f[1]) /\ f[1].auction = "ACTIVE"
  BY <1>2, <1>3 DEF Follows, Emits
<1>8. Kept(watch, proposal, lost, Mixed(s, f[1], k.todo))
  BY <1>3 DEF Working, k
<1>9. Kept(watch', proposal, lost, Mixed(s, f[1], {}))
  BY <1>2, <1>3, <1>4, <1>5, <1>7, <1>8, WatchUpdated
<1>10. WatchInv'
  BY <1>1, <1>3, <1>5, <1>6, <1>9, IdleWorks, HandlerMoves, WatchesIn
<1> QED
  BY <1>4, <1>5, <1>10, ForwardTo

LEMMA AcceptKeeps ==
  ASSUME WatchInv, AcceptWatch
  PROVE  WatchInv' /\ Forward(watch.status, watch'.status)
<1> DEFINE k == worker[Tick]
<1>1. /\ k.pc = "acceptWatch" /\ Update("Sold", "ACCEPTED")
      /\ To(Tick, "findProposal", {"proposal"})
      /\ UNCHANGED <<chain, proposal, cached, lost>>
  BY DEF AcceptWatch, At
<1>2. k.pc \notin Calm /\ k.event.kind = "ProposalAccepted"
      /\ k.todo = {"status", "auction", "proposal"} /\ k.todo = Todo(k.event)
  BY <1>1, WatchesIn, TodoOf DEF Doing, Calm
<1>3. PICK f, s :
        /\ s \in States /\ f[1] \in States /\ Leads(f) /\ Working(s, f[1])
        /\ k.event \in Event
        /\ k.todo # {} => k.todo \subseteq Todo(k.event) /\ Follows(s, k.event, f[1])
  BY <1>2, Handling
<1>4. watch \in Watches /\ "Sold" \in Statuses /\ "ACCEPTED" \in Auctions
  BY WatchesIn DEF Statuses, Auctions
<1>5. /\ watch' \in Watches
      /\ watch = NoWatch => watch' = watch
      /\ watch # NoWatch =>
           /\ watch'.status = "Sold" /\ watch'.auctionStatus = "ACCEPTED"
           /\ watch'.shares = watch.shares /\ watch'.tradeAllowed = watch.tradeAllowed
  BY <1>1, <1>4, UpdateFields
<1>6. /\ worker' \in [Workers -> Work] /\ worker'[Tick].pc = "findProposal"
      /\ worker'[Tick].todo = {"proposal"} /\ worker'[Tick].event = k.event
      /\ \A v \in Workers : v # Tick => worker'[v] = worker[v]
  BY <1>1, WatchesIn, WorkerMoves, TickIn DEF Pcs, Whats
<1> HIDE DEF k
<1>7. /\ Follows(s, k.event, f[1])
      /\ f[1].auction = "ACCEPTED" /\ s.phase = "trading"
  BY <1>2, <1>3 DEF Follows, Emits
<1>8. Kept(watch, proposal, lost, Mixed(s, f[1], k.todo))
  BY <1>3 DEF Working, k
<1>9. Kept(watch', proposal, lost, Mixed(s, f[1], {"proposal"}))
  BY <1>2, <1>3, <1>4, <1>5, <1>7, <1>8, WatchUpdated
<1>10. proposal' = proposal /\ Doing(worker'[Tick], watch', proposal)
  BY <1>1, <1>2, <1>3, <1>6 DEF Doing, Calm, OfAuction
<1>11. WatchInv'
  BY <1>1, <1>2, <1>3, <1>5, <1>6, <1>9, <1>10, HandlerMoves, WatchesIn DEF k
<1>12. Forward(watch.status, watch'.status)
  <2>1. Mixed(s, f[1], k.todo).phase = "trading"
    BY <1>2, <1>7 DEF Mixed
  <2>2. Reached(watch.status, "trading") /\ watch.status \in Statuses
    BY <1>4, <1>8, <2>1 DEF Kept, Within, Watches
  <2>3. watch.status \in {"none", "Waiting", "Presale", "Trading"}
    BY <2>2 DEF Reached, Statuses
  <2>4. CASE watch = NoWatch
    BY <1>5, <2>2, <2>4, ForwardTo
  <2>5. CASE watch # NoWatch
    BY <1>4, <1>5, <2>3, <2>5, ForwardTo
  <2> QED
    BY <2>4, <2>5
<1> QED
  BY <1>11, <1>12

\* The proposal of an event is written.
LEMMA ProposalMoves ==
  ASSUME WatchInv, UNCHANGED <<chain, watch, cached, lost>>,
         worker[Tick].pc \notin Calm, worker[Tick].event.kind \in OfAuction,
         "proposal" \in worker[Tick].todo,
         NEW d \in Bids, WellFormed(d), d # NoProposal,
         proposal' = [proposal EXCEPT ![worker[Tick].event.proposalId] = d],
         \A s, t \in States :
           Follows(s, worker[Tick].event, t)
             /\ proposal[worker[Tick].event.proposalId] = s.bids[worker[Tick].event.proposalId]
             => d = t.bids[worker[Tick].event.proposalId],
         worker' \in [Workers -> Work],
         \A v \in Workers : v # Tick => worker'[v] = worker[v],
         Doing(worker'[Tick], watch, proposal'),
         worker'[Tick].todo = worker[Tick].todo \ {"proposal"},
         worker'[Tick].todo # {} => worker'[Tick].event = worker[Tick].event
  PROVE  WatchInv'
<1> DEFINE k == worker[Tick]
           e == k.event
<1>1. PICK f, s :
        /\ s \in States /\ f[1] \in States /\ Leads(f) /\ Working(s, f[1])
        /\ e \in Event
        /\ k.todo # {} => k.todo \subseteq Todo(e) /\ Follows(s, e, f[1])
  BY Handling
<1>2. Follows(s, e, f[1]) /\ Kept(watch, proposal, lost, Mixed(s, f[1], k.todo))
  BY <1>1 DEF Working
<1>3. e.proposalId \in Proposals
  BY <1>1, EventFields
<1>4. proposal[e.proposalId] = s.bids[e.proposalId] => d = f[1].bids[e.proposalId]
  BY <1>1, <1>2
<1>5. /\ proposal' \in [Proposals -> Bids]
      /\ \A p \in Proposals : WellFormed(proposal'[p])
  BY <1>3, WatchesIn
<1> HIDE DEF k, e
<1>6. Kept(watch, proposal', lost, Mixed(s, f[1], worker'[Tick].todo))
  <2>1. Kept(watch, [proposal EXCEPT ![e.proposalId] = d], lost,
             Mixed(s, f[1], k.todo \ {"proposal"}))
    BY <1>1, <1>2, <1>4, ProposalWritten, WatchesIn DEF k, e
  <2> QED
    BY <2>1 DEF k, e
<1> QED
  BY <1>1, <1>5, <1>6, HandlerMoves, WatchesIn

LEMMA InsertProposalKeeps ==
  ASSUME WatchInv, InsertProposal
  PROVE  WatchInv' /\ watch' = watch
<1> DEFINE k == worker[Tick]
           e == k.event
           d == [state |-> "ACTIVE", price |-> e.price]
<1>1. /\ k.pc = "insertProposal" /\ To(Tick, "activate", {"auction"})
      /\ UNCHANGED <<chain, watch, cached, lost>>
      /\ proposal' = [proposal EXCEPT ![e.proposalId] = d]
  BY DEF InsertProposal, At
<1>2. k.pc \notin Calm /\ e.kind = "ProposalCreated" /\ k.todo = {"auction", "proposal"}
      /\ e \in Event
  BY <1>1, WatchesIn, TodoOf DEF Doing, Calm
<1>3. /\ worker' \in [Workers -> Work] /\ worker'[Tick].pc = "activate"
      /\ worker'[Tick].todo = {"auction"} /\ worker'[Tick].event = e
      /\ \A v \in Workers : v # Tick => worker'[v] = worker[v]
  BY <1>1, WatchesIn, WorkerMoves, TickIn DEF Pcs, Whats
<1> HIDE DEF k, e
<1>4. d \in Bids /\ d # NoProposal /\ WellFormed(d) /\ e.proposalId \in Proposals
  BY <1>2, EventFields DEF OfAuction, Bids, NoProposal, WellFormed
<1>5. \A s, t \in States : Follows(s, e, t) => d = t.bids[e.proposalId]
  BY <1>2, <1>4 DEF Follows, Emits, Bidden, States
<1>6. Doing(worker'[Tick], watch, proposal')
  BY <1>2, <1>3 DEF Doing, Calm
<1>7. k.event.kind \in OfAuction /\ {"auction"} = k.todo \ {"proposal"}
  BY <1>2 DEF OfAuction, e
<1> HIDE DEF d
<1>8. WatchInv'
  BY <1>1, <1>2, <1>3, <1>4, <1>5, <1>6, <1>7, ProposalMoves DEF k, e
<1> QED
  BY <1>1, <1>8

LEMMA SameBid ==
  ASSUME NEW a \in Bids, NEW b \in Bids, a.state = b.state, a.price = b.price
  PROVE  a = b
BY DEF Bids

LEMMA SaveProposalKeeps ==
  ASSUME WatchInv, SaveProposal
  PROVE  WatchInv' /\ watch' = watch
<1> DEFINE k == worker[Tick]
           e == k.event
           b == proposal[e.proposalId]
           d == Saved(b, e)
<1>1. /\ k.pc = "saveProposal" /\ Ends(Tick)
      /\ UNCHANGED <<chain, watch, cached, lost>>
      /\ proposal' = [proposal EXCEPT ![e.proposalId] = d]
  BY DEF SaveProposal, At
<1>2. k.pc \notin Calm /\ e.kind \in OfAuction /\ k.todo = {"proposal"}
      /\ e \in Event /\ b # NoProposal
  BY <1>1, WatchesIn DEF Doing, Calm
<1>3. /\ worker' \in [Workers -> Work] /\ worker'[Tick] = Idle
      /\ \A v \in Workers : v # Tick => worker'[v] = worker[v]
  BY <1>1, WatchesIn, WorkerEnds, TickIn
<1>4. e.proposalId \in Proposals /\ e.price \in 0 .. MaxPrice
  BY <1>2, EventFields
<1>5. b \in Bids /\ WellFormed(b)
  BY <1>4, WatchesIn
<1> HIDE DEF k, e, b
<1>6. /\ d \in Bids
      /\ d.state = CASE e.kind = "ProposalCreated" -> b.state
                     [] e.kind = "ProposalCanceled" -> "CANCELLED"
                     [] e.kind = "ProposalAccepted" -> "ACCEPTED"
      /\ d.price = IF e.kind = "ProposalCanceled" THEN b.price ELSE e.price
  BY <1>2, <1>4, <1>5 DEF Saved, Bids, OfAuction
<1> HIDE DEF d
<1>7. d.state # "none" /\ d # NoProposal /\ WellFormed(d)
  BY <1>2, <1>5, <1>6 DEF WellFormed, OfAuction, NoProposal
<1>8. ASSUME NEW s \in States, NEW t \in States, Follows(s, e, t), b = s.bids[e.proposalId]
      PROVE  d = t.bids[e.proposalId]
  <2>1. t.bids[e.proposalId].state = d.state /\ t.bids[e.proposalId].price = d.price
    <3>1. Emits(s, e, t)
      BY <1>8 DEF Follows
    <3>2. s.bids \in [Proposals -> Bids]
      BY DEF States
    <3>3. CASE e.kind = "ProposalCreated"
      <4>1. t.bids = Bidden(s.bids, e.proposalId, "ACTIVE", e.price)
        BY <3>1, <3>3 DEF Emits
      <4>2. d.state = "ACTIVE" /\ d.price = e.price
        BY <1>2, <1>6, <1>8, <3>1, <3>3 DEF Emits
      <4> QED
        BY <1>4, <3>2, <4>1, <4>2 DEF Bidden
    <3>4. CASE e.kind = "ProposalCanceled"
      <4>1. t.bids = Bidden(s.bids, e.proposalId, "CANCELLED", b.price)
        BY <1>8, <3>1, <3>4 DEF Emits
      <4>2. d.state = "CANCELLED" /\ d.price = b.price
        BY <1>6, <3>4
      <4> QED
        BY <1>4, <3>2, <4>1, <4>2 DEF Bidden
    <3>5. CASE e.kind = "ProposalAccepted"
      <4>1. t.bids = Bidden(s.bids, e.proposalId, "ACCEPTED", e.price)
        BY <3>1, <3>5 DEF Emits
      <4>2. d.state = "ACCEPTED" /\ d.price = e.price
        BY <1>6, <3>5
      <4> QED
        BY <1>4, <3>2, <4>1, <4>2 DEF Bidden
    <3> QED
      BY <1>2, <3>3, <3>4, <3>5 DEF OfAuction
  <2>2. t.bids[e.proposalId] \in Bids
    BY <1>4 DEF States
  <2> QED
    BY <1>6, <2>1, <2>2, SameBid
<1>9. Doing(worker'[Tick], watch, proposal') /\ worker'[Tick].todo = {}
      /\ k.todo \ {"proposal"} = {}
  BY <1>2, <1>3, IdleWorks
<1>10. WatchInv'
  BY <1>1, <1>2, <1>3, <1>6, <1>7, <1>8, <1>9, ProposalMoves DEF k, e, b
<1> QED
  BY <1>1, <1>10

-----------------------------------------------------------------------------
(* Every step.                                                             *)

\* A step keeps the invariant, and takes the watch forward or leaves it.
LEMMA WatchStep ==
  ASSUME WatchInv, [Next]_vars
  PROVE  WatchInv' /\ (watch' = watch \/ Forward(watch.status, watch'.status))
<1>1. CASE Chain
  <2>1. watch' = watch
    BY <1>1 DEF Chain, ChainAddWatch, ChainEditWatch, ChainSale, ChainBuyShares,
                ChainTradeAllowed, ChainRevertFunding, ChainProposalCreated,
                ChainProposalCanceled, ChainProposalAccepted, Bid, Emit, stored
  <2> QED
    BY <1>1, <2>1, ChainKeeps
<1>2. CASE Tock \/ TenSeconds \/ UNCHANGED vars
  BY <1>2, RestKeeps DEF Tock, TenSeconds, stored, vars
<1>3. CASE BeginEvent
  BY <1>3, BeginKeeps DEF BeginEvent, stored
<1>4. CASE SkipEvent
  BY <1>4, SkipKeeps DEF SkipEvent, stored
<1>5. CASE Handle
  <2>1. CASE NothingToDo
    BY <2>1, NothingKeeps DEF NothingToDo, stored
  <2>2. CASE FindWatch
    BY <2>2, FindWatchKeeps
  <2>3. CASE InsertWatch
    BY <2>3, InsertKeeps
  <2>4. CASE SaveWatch
    BY <2>4, SaveWatchKeeps
  <2>5. CASE FindProposal
    BY <2>5, FindProposalKeeps
  <2>6. CASE InsertProposal
    BY <2>6, InsertProposalKeeps
  <2>7. CASE Activate
    BY <2>7, ActivateKeeps
  <2>8. CASE AcceptWatch
    BY <2>8, AcceptKeeps
  <2>9. CASE SaveProposal
    BY <2>9, SaveProposalKeeps
  <2> QED
    BY <1>5, <2>1, <2>2, <2>3, <2>4, <2>5, <2>6, <2>7, <2>8, <2>9 DEF Handle
<1>6. CASE \E r \in Requests : BeginPrice(r) \/ ReadList(r)
  BY <1>6, RequestKeeps DEF BeginPrice, ReadList, stored
<1>7. CASE \E w \in Workers : Step(w)
  BY <1>7, StepKeeps
<1>8. CASE Crash \/ \E w \in Workers : WorkerFails(w)
  BY <1>8, FailKeeps DEF Crash, WorkerFails, stored
<1> QED
  BY <1>1, <1>2, <1>3, <1>4, <1>5, <1>6, <1>7, <1>8 DEF Next

LEMMA WatchInvariant == Spec => []WatchInv
<1>1. WatchInv /\ [Next]_vars => WatchInv'
  BY WatchStep
<1> QED
  BY <1>1, WatchInit, PTL DEF Spec

-----------------------------------------------------------------------------
(* Theorems. *)

\* The status of the watch and of the cached list is one of those the code
\* knows, the shares left stay within a sale, and only a watch that trades or
\* is sold is traded, whatever events are lost.
THEOREM WatchTypes == Spec => []TypeOK
<1>1. ASSUME WatchInv PROVE TypeOK
  <2>1. PICK f, s : s \in States /\ Leads(f) /\ Working(s, f[1])
    BY <1>1 DEF WatchInv, Holds
  <2> DEFINE m == Mixed(s, f[1], worker[Tick].todo)
  <2>2. f[1] \in States
    BY <1>1, <2>1, TrailBegins DEF WatchInv
  <2>3. Within(watch, lost, m)
    BY <2>1 DEF Working, Kept
  <2>4. m.left \in 0 .. MaxPrice
    BY <2>1, <2>2 DEF Mixed, States
  <2> HIDE DEF m
  <2>5. watch.shares \in -MaxPrice .. MaxPrice
    BY <1>1, <2>3, <2>4, WatchAssumption, WatchesIn DEF Within, Watches
  <2>6. watch.tradeAllowed => watch.status \in {"Trading", "Sold"}
    BY <2>3 DEF Within
  <2> QED
    BY <1>1, <2>5, <2>6 DEF WatchInv, Shapes, TypeOK, Watches, Whats
<1> QED
  BY <1>1, WatchInvariant, PTL

\* What is settled is where the contract is.
LEMMA SettledAgrees ==
  ASSUME WatchInv
  PROVE  /\ Settled("status") => watch.status \in StatusIn(phase)
         /\ Settled("shares") => watch.shares = left
         /\ Settled("auction") /\ watch # NoWatch => watch.auctionStatus = AuctionIn(bids)
         /\ Settled("proposal") => proposal = bids
<1>1. PICK f, s : s \in States /\ Leads(f) /\ Working(s, f[1])
  BY DEF WatchInv, Holds
<1> DEFINE todo == worker[Tick].todo
           m == Mixed(s, f[1], todo)
<1>2. Agrees(watch, proposal, lost, m)
  BY <1>1 DEF Working, Kept
<1>3. ASSUME NEW what \in Whats, Settled(what)
      PROVE  what \notin todo /\ what \notin lost /\ Same(what, f[1], Contract)
  BY <1>1, <1>3, TrailSettled DEF Settled, WatchInv, Shapes
<1>4. /\ "status" \notin todo => m.phase = f[1].phase
      /\ "shares" \notin todo => m.left = f[1].left
      /\ "auction" \notin todo => m.auction = f[1].auction
      /\ "proposal" \notin todo => m.bids = f[1].bids
  BY DEF Mixed
<1>5. /\ Contract.phase = phase /\ Contract.left = left /\ Contract.bids = bids
      /\ Contract.auction = AuctionIn(bids)
  BY DEF Contract
<1> HIDE DEF m, todo
<1>6. /\ Settled("status") => watch.status \in StatusIn(phase)
      /\ Settled("shares") => watch.shares = left
  BY <1>2, <1>3, <1>4, <1>5 DEF Agrees, Same, Whats
<1>7. /\ Settled("auction") /\ watch # NoWatch => watch.auctionStatus = AuctionIn(bids)
      /\ Settled("proposal") => proposal = bids
  BY <1>2, <1>3, <1>4, <1>5 DEF Agrees, Same, Whats
<1> QED
  BY <1>6, <1>7

\* The status, the shares left and the auction of the watch are those of the
\* contract, each as soon as the events that write it are handled, unless one of
\* them was cut short; whatever was cut short elsewhere, and whatever prices
\* requests save from documents read before.
THEOREM WatchIsRight == Spec => []WatchAgrees
<1>1. ASSUME WatchInv PROVE WatchAgrees
  <2>1. StatusOf = StatusIn(phase) /\ AuctionOf = AuctionIn(bids)
    BY DEF StatusOf, StatusIn, AuctionOf, AuctionIn
  <2> QED
    BY <1>1, <2>1, SettledAgrees DEF WatchAgrees
<1> QED
  BY <1>1, WatchInvariant, PTL

\* So are the proposals: the state and the price of the last bid of each.
THEOREM ProposalsAreRight == Spec => []ProposalsAgree
<1>1. ASSUME WatchInv PROVE ProposalsAgree
  BY <1>1, SettledAgrees DEF ProposalsAgree
<1> QED
  BY <1>1, WatchInvariant, PTL

\* A watch that trades, is sold or was canceled never goes back, whatever
\* events are lost and whatever prices are saved from older documents.
THEOREM WatchNeverGoesBack == Spec => NeverBack
<1>1. ASSUME WatchInv, [Next]_vars
      PROVE  [/\ Rank(watch'.status) >= Rank(watch.status)
              /\ watch.status = "Canceled" => watch'.status = "Canceled"]_watch
  BY <1>1, WatchStep DEF Forward
<1> QED
  BY <1>1, WatchInvariant, PTL DEF Spec, NeverBack
=============================================================================
