------------------------ MODULE OrderLifecycleProofs ------------------------
(***************************************************************************)
(* Proofs about OrderLifecycle, for every set of orders, any number of     *)
(* overlapping ticks, requests and saves, failures and crashes.  Where a   *)
(* theorem needs runs of the cron job that do not overlap (OneTick) or     *)
(* saves that land before the next event is read (PromptSaves) it says so. *)
(***************************************************************************)
EXTENDS OrderLifecycle, TLAPS

-----------------------------------------------------------------------------
(* The inductive invariant. *)

Docs == Order \cup {NoDoc}
Jobs == [id : 1 .. MaxPosts, order : Orders]
Events == [type : {"OrderFilled", "OrderCanceled"}, order : Orders,
           remaining : 0 .. Shares]
Saves == [id : Nat, order : Orders, old : Order, new : Order]

ContractOK ==
  /\ left \in [Orders -> 0 .. Shares]
  /\ closed \subseteq Orders
  /\ error \in [Orders -> Errors]
  /\ log \in Seq(Events)

StoreOK ==
  /\ doc \in [Orders -> Docs]
  /\ jobs \subseteq Jobs
  /\ posts \in Nat
  /\ accepted \subseteq Orders

SavesOK ==
  /\ next \in 0 .. Len(log)
  /\ \A s \in saves : s \in Saves /\ s.order \in Stored /\ s.id \in 1 .. next

\* What a tick at an await has still to do; todo holds orders, jobs or events.
TickOK(t) ==
  /\ visible[t] \in 0 .. Len(log)
  /\ tpc[t] = "update" =>
       \A o \in todo[t] : o \in Orders /\ seen[t][o].orderError # "NoError"
  /\ tpc[t] \in {"remove", "create"} => todo[t] \subseteq batch[t]
  /\ tpc[t] = "remove" => {j.order : j \in batch[t] \ todo[t]} \subseteq refused
  /\ tpc[t] \in {"OrderFilled", "OrderCanceled", "saving"} => todo[t] \subseteq 1 .. next

TickShapes ==
  /\ tpc = [t \in Ticks |-> tpc[t]]
  /\ seen \in [Ticks -> [Orders -> Docs]]
  /\ todo = [t \in Ticks |-> todo[t]]
  /\ batch \in [Ticks -> SUBSET Jobs]
  /\ visible = [t \in Ticks |-> visible[t]]

TicksOK == TickShapes /\ \A t \in Ticks : TickOK(t)

RequestsOK ==
  /\ fpc = [r \in Fills |-> fpc[r]]
  /\ fill = [r \in Fills |-> fill[r]]
  /\ \A r \in Fills : fpc[r] # "idle" =>
       /\ fill[r] \in [order : Orders, old : Order, result : Errors]
       /\ fill[r].order \in Stored
       /\ fpc[r] = "reject" => fill[r].result # "NoError"
  /\ cancel = [c \in Cancels |-> cancel[c]]
  /\ \A c \in Cancels : cancel[c] # NoCancel =>
       /\ cancel[c] \in [order : Orders, old : Order]
       /\ cancel[c].order \in Stored

LifeInv ==
  /\ ContractOK
  /\ StoreOK
  /\ SavesOK
  /\ TicksOK
  /\ RequestsOK
  /\ AcceptedAccountedFor

-----------------------------------------------------------------------------
(* Lemmas about the operators. *)

LEMMA StateOfType == \A e : StateOf(e) \in States
  BY DEF StateOf, States

LEMMA VerdictType ==
  ASSUME ContractOK, NEW o \in Orders, NEW n
  PROVE  CheckOrderError(o, n) \in Errors
  BY DEF ContractOK, CheckOrderError, Errors

LEMMA SaveDeltaType ==
  ASSUME NEW stored \in Order, NEW old \in Order, NEW new \in Order
  PROVE  SaveDelta(stored, old, new) \in Order
<1>1. DOMAIN stored = {"state", "orderError", "remainingShares", "remainingSharesEvent"}
  BY DEF Order
<1>2. SaveDelta(stored, old, new) =
        [state |-> SaveDelta(stored, old, new).state,
         orderError |-> SaveDelta(stored, old, new).orderError,
         remainingShares |-> SaveDelta(stored, old, new).remainingShares,
         remainingSharesEvent |-> SaveDelta(stored, old, new).remainingSharesEvent]
  BY <1>1 DEF SaveDelta
<1>3. /\ SaveDelta(stored, old, new).state \in States
      /\ SaveDelta(stored, old, new).orderError \in Errors
      /\ SaveDelta(stored, old, new).remainingShares \in 0 .. Shares
      /\ SaveDelta(stored, old, new).remainingSharesEvent \in 0 .. Shares
  BY <1>1 DEF SaveDelta, Order
<1> QED
  BY <1>2, <1>3 DEF Order

LEMMA FilledDocType ==
  ASSUME NEW old \in Order, NEW n \in 0 .. Shares
  PROVE  FilledDoc(old, n) \in Order
  BY OrderAssumption DEF FilledDoc, Order, Lesser, States

LEMMA RealIsNotNoDoc == \A d \in Order : d # NoDoc
  BY DEF Order, NoDoc, States

LEMMA LifeInit == Init => LifeInv
<1> SUFFICES ASSUME Init PROVE LifeInv
  OBVIOUS
<1>1. ContractOK
  BY OrderAssumption DEF Init, ContractOK, Errors
<1>2. StoreOK
  BY DEF Init, StoreOK, Docs
<1>3. SavesOK
  BY <1>1 DEF Init, SavesOK
<1>4. TicksOK
  BY DEF Init, TicksOK, TickShapes, TickOK, Docs
<1>5. RequestsOK
  BY DEF Init, RequestsOK
<1>6. AcceptedAccountedFor
  BY DEF Init, AcceptedAccountedFor
<1> QED
  BY <1>1, <1>2, <1>3, <1>4, <1>5, <1>6 DEF LifeInv

-----------------------------------------------------------------------------
(* What a step leaves alone. *)

LEMMA RequestsKept ==
  ASSUME RequestsOK, UNCHANGED requests, Stored \subseteq Stored'
  PROVE  RequestsOK'
  BY DEF RequestsOK, requests

LEMMA SavesKept ==
  ASSUME SavesOK, UNCHANGED <<saves, next>>, Stored \subseteq Stored',
         Len(log') \in Nat, Len(log) <= Len(log')
  PROVE  SavesOK'
  BY DEF SavesOK

LEMMA TicksKept ==
  ASSUME TicksOK, UNCHANGED <<tick, refused>>, next \in Nat, next' \in Nat, next <= next',
         Len(log') \in Nat, Len(log) \in Nat, Len(log) <= Len(log')
  PROVE  TicksOK'
<1>1. \A t \in Ticks : TickOK(t)'
  BY DEF TicksOK, TickOK, tick
<1> QED
  BY <1>1 DEF TicksOK, TickShapes, tick

LEMMA AccountedKept ==
  ASSUME AcceptedAccountedFor, UNCHANGED <<accepted, refused, dropped, jobs, tpc, todo>>,
         Stored \subseteq Stored'
  PROVE  AcceptedAccountedFor'
  BY DEF AcceptedAccountedFor

-----------------------------------------------------------------------------
(* Steps of the contract and of create requests. *)

LEMMA ContractKeeps ==
  ASSUME LifeInv, NEW o \in Orders,
         (\E n \in 1 .. Shares : ChainFill(o, n)) \/ ChainCancel(o) \/ ChainTurn(o)
  PROVE  LifeInv'
<1> USE DEF LifeInv
<1>1. ContractOK' /\ Len(log') \in Nat /\ Len(log) \in Nat /\ Len(log) <= Len(log')
  <2>1. CASE \E n \in 1 .. Shares : ChainFill(o, n)
    <3>1. PICK n \in 1 .. Shares : ChainFill(o, n)
      BY <2>1
    <3>2. left[o] - n \in 0 .. Shares
      BY <3>1, OrderAssumption DEF ChainFill, CheckOrderError, ContractOK
    <3>3. [type |-> "OrderFilled", order |-> o, remaining |-> left[o] - n] \in Events
      BY <3>2 DEF Events
    <3> QED
      BY <3>1, <3>2, <3>3 DEF ChainFill, ContractOK
  <2>2. CASE ChainCancel(o)
    <3>1. [type |-> "OrderCanceled", order |-> o, remaining |-> 0] \in Events
      BY OrderAssumption DEF Events
    <3> QED
      BY <2>2, <3>1 DEF ChainCancel, ContractOK
  <2>3. CASE ChainTurn(o)
    BY <2>3 DEF ChainTurn, ContractOK, Errors
  <2> QED
    BY <2>1, <2>2, <2>3
<1>2. UNCHANGED <<store, saves, next, tick, requests, history>>
  BY DEF ChainFill, ChainCancel, ChainTurn
<1>3. Stored' = Stored /\ next \in Nat /\ next' = next
  BY <1>2 DEF Stored, store, SavesOK
<1> QED
  BY <1>1, <1>2, <1>3, RequestsKept, SavesKept, TicksKept, AccountedKept
     DEF StoreOK, store, tick, history

LEMMA CreateOrderKeeps ==
  ASSUME LifeInv, NEW o \in Orders, CreateOrder(o)
  PROVE  LifeInv'
<1> USE DEF LifeInv
<1>1. ContractOK'
  BY DEF CreateOrder, contract, ContractOK
<1>2. [id |-> posts + 1, order |-> o] \in Jobs
  BY OrderAssumption DEF CreateOrder, StoreOK, Jobs
<1>3. StoreOK'
  BY <1>2 DEF CreateOrder, StoreOK
<1>4. Stored' = Stored /\ Len(log') = Len(log) /\ Len(log) \in Nat /\ next' = next
      /\ next \in Nat
  BY DEF CreateOrder, Stored, contract, SavesOK, ContractOK
<1>5. SavesOK' /\ TicksOK' /\ RequestsOK'
  BY <1>4, SavesKept, TicksKept, RequestsKept DEF CreateOrder
<1>6. AcceptedAccountedFor'
  <2> DEFINE j == [id |-> posts + 1, order |-> o]
  <2>1. j \in jobs' /\ j.order = o
    BY DEF CreateOrder
  <2> HIDE DEF j
  <2>2. /\ jobs \subseteq jobs' /\ accepted' = accepted \cup {o}
        /\ UNCHANGED <<refused, dropped, tpc, todo>>
    BY DEF CreateOrder, tick
  <2> QED
    BY <1>4, <2>1, <2>2 DEF AcceptedAccountedFor
<1> QED
  BY <1>1, <1>3, <1>5, <1>6

-----------------------------------------------------------------------------
(* Steps of requests. *)

\* A document that gets other fields stays a document.
LEMMA DocChanges ==
  ASSUME StoreOK, NEW o \in Orders, NEW d \in Order, doc' = [doc EXCEPT ![o] = d],
         UNCHANGED <<jobs, posts, accepted>>
  PROVE  StoreOK' /\ Stored' = Stored \cup {o}
<1>1. doc' = [p \in Orders |-> IF p = o THEN d ELSE doc[p]]
  BY DEF StoreOK
<1>2. StoreOK'
  BY <1>1 DEF StoreOK, Docs
<1>3. d # NoDoc
  BY RealIsNotNoDoc
<1> QED
  BY <1>1, <1>2, <1>3 DEF Stored

\* A step of requests that leaves everything else to the documents.
LEMMA OthersKept ==
  ASSUME LifeInv, StoreOK', Stored' = Stored, RequestsOK',
         UNCHANGED <<contract, jobs, next, saves, tick, accepted, refused, dropped>>
  PROVE  LifeInv'
<1> USE DEF LifeInv
<1>1. ContractOK'
  BY DEF contract, ContractOK
<1>2. /\ Len(log') = Len(log) /\ Len(log) \in Nat
      /\ next' = next /\ next \in Nat
  BY DEF contract, ContractOK, SavesOK
<1>3. SavesOK' /\ TicksOK' /\ AcceptedAccountedFor'
  BY <1>2, SavesKept, TicksKept, AccountedKept DEF tick
<1> QED
  BY <1>1, <1>3

LEMMA RequestKeeps ==
  ASSUME LifeInv,
         (\E r \in Fills : FillRequest(r)) \/ (\E c \in Cancels : CancelRequest(c))
  PROVE  LifeInv'
<1> USE DEF LifeInv
<1>1. ASSUME NEW r \in Fills, NEW o \in Orders, FillRead(r, o)
      PROVE  LifeInv'
  <2>1. [order |-> o, old |-> doc[o], result |-> "NoError"]
          \in [order : Orders, old : Order, result : Errors]
    BY <1>1 DEF FillRead, Stored, StoreOK, Docs, Errors
  <2>2. StoreOK' /\ Stored' = Stored
    BY <1>1 DEF FillRead, StoreOK, Stored, store, history
  <2>3. RequestsOK'
    BY <1>1, <2>1, <2>2 DEF FillRead, RequestsOK
  <2> QED
    BY <1>1, <2>2, <2>3, OthersKept DEF FillRead, store, history
<1>2. ASSUME NEW r \in Fills, FillCheck(r)
      PROVE  LifeInv'
  <2> DEFINE e == CheckOrderError(fill[r].order, fill[r].old.remainingShares)
  <2>1. /\ fpc[r] = "check"
        /\ fill' = [fill EXCEPT ![r].result = e]
        /\ fpc' = [fpc EXCEPT ![r] = IF e = "NoError" THEN "fill" ELSE "reject"]
    BY <1>2 DEF FillCheck
  <2>2. fill[r] \in [order : Orders, old : Order, result : Errors]
    BY <2>1 DEF RequestsOK
  <2>3. e \in Errors
    BY <2>2, VerdictType
  <2>4. StoreOK' /\ Stored' = Stored
    BY <1>2 DEF FillCheck, StoreOK, Stored, store, history
  <2> HIDE DEF e
  <2>5. RequestsOK'
    <3>1. fill' = [s \in Fills |-> IF s = r THEN [fill[r] EXCEPT !.result = e] ELSE fill[s]]
      BY <2>1 DEF RequestsOK
    <3>2. /\ fill'[r] \in [order : Orders, old : Order, result : Errors]
          /\ fill'[r].order = fill[r].order /\ fill'[r].result = e
      BY <2>2, <2>3, <3>1
    <3>3. fpc' = [s \in Fills |-> IF s = r THEN (IF e = "NoError" THEN "fill" ELSE "reject")
                                 ELSE fpc[s]]
      BY <2>1 DEF RequestsOK
    <3> QED
      BY <1>2, <2>1, <2>4, <3>1, <3>2, <3>3 DEF FillCheck, RequestsOK
  <2> QED
    BY <1>2, <2>4, <2>5, OthersKept DEF FillCheck, store, history
<1>3. ASSUME NEW r \in Fills, FillRejected(r)
      PROVE  LifeInv'
  <2> DEFINE o == fill[r].order
             d == [doc[o] EXCEPT !.orderError = fill[r].result,
                                 !.state = StateOf(fill[r].old.orderError)]
  <2>1. o \in Stored /\ doc[o] \in Order /\ fill[r].result \in Errors
    BY <1>3 DEF FillRejected, RequestsOK, Stored, StoreOK, Docs
  <2>2. d \in Order /\ doc' = [doc EXCEPT ![o] = d]
    BY <1>3, <2>1, StateOfType DEF FillRejected, Order
  <2> HIDE DEF d
  <2>3. StoreOK' /\ Stored' = Stored
    BY <1>3, <2>1, <2>2, DocChanges DEF FillRejected, history, Stored
  <2>4. RequestsOK'
    BY <1>3, <2>3 DEF FillRejected, EndFill, RequestsOK
  <2> QED
    BY <1>3, <2>3, <2>4, OthersKept DEF FillRejected, history
<1>4. ASSUME NEW r \in Fills, NEW n \in 1 .. Shares, FillOrder(r, n)
      PROVE  LifeInv'
  <2> DEFINE o == fill[r].order
             d == [doc[o] EXCEPT !.remainingShares =
                                    FillAmount(fill[r].old.remainingShares, n)]
  <2>1. o \in Stored /\ doc[o] \in Order /\ fill[r].old \in Order
    BY <1>4 DEF FillOrder, RequestsOK, Stored, StoreOK, Docs
  <2>2. FillAmount(fill[r].old.remainingShares, n) \in 0 .. Shares
    BY <2>1, OrderAssumption DEF FillAmount, Order
  <2>3. d \in Order /\ doc' = [doc EXCEPT ![o] = d]
    BY <1>4, <2>1, <2>2 DEF FillOrder, Order
  <2> HIDE DEF d
  <2>4. StoreOK' /\ Stored' = Stored
    BY <1>4, <2>1, <2>3, DocChanges DEF FillOrder, Stored
  <2>5. RequestsOK'
    BY <1>4, <2>4 DEF FillOrder, EndFill, RequestsOK
  <2> QED
    BY <1>4, <2>4, <2>5, OthersKept DEF FillOrder
<1>5. ASSUME NEW r \in Fills, FillFails(r)
      PROVE  LifeInv'
  <2>1. StoreOK' /\ Stored' = Stored
    BY <1>5 DEF FillFails, StoreOK, Stored, store, history
  <2>2. RequestsOK'
    BY <1>5, <2>1 DEF FillFails, EndFill, RequestsOK
  <2> QED
    BY <1>5, <2>1, <2>2, OthersKept DEF FillFails, store, history
<1>6. ASSUME NEW c \in Cancels, NEW o \in Orders, CancelRead(c, o)
      PROVE  LifeInv'
  <2>1. [order |-> o, old |-> doc[o]] \in [order : Orders, old : Order]
    BY <1>6 DEF CancelRead, Stored, StoreOK, Docs
  <2>2. StoreOK' /\ Stored' = Stored
    BY <1>6 DEF CancelRead, StoreOK, Stored, store, history
  <2>3. RequestsOK'
    BY <1>6, <2>1, <2>2 DEF CancelRead, RequestsOK
  <2> QED
    BY <1>6, <2>2, <2>3, OthersKept DEF CancelRead, store, history
<1>7. ASSUME NEW c \in Cancels, CancelSave(c)
      PROVE  LifeInv'
  <2> DEFINE o == cancel[c].order
             old == cancel[c].old
             new == [old EXCEPT !.state = "CANCELLED"]
             d == SaveDelta(doc[o], old, new)
  <2>1. o \in Stored /\ doc[o] \in Order /\ old \in Order
    BY <1>7 DEF CancelSave, RequestsOK, Stored, StoreOK, Docs
  <2>2. new \in Order
    BY <2>1 DEF Order, States
  <2>3. doc' = [doc EXCEPT ![o] = d]
    BY <1>7 DEF CancelSave
  <2>4. d \in Order
    BY <2>1, <2>2, SaveDeltaType
  <2> HIDE DEF d
  <2>5. StoreOK' /\ Stored' = Stored
    BY <1>7, <2>1, <2>3, <2>4, DocChanges DEF CancelSave, history, Stored
  <2>6. RequestsOK'
    BY <1>7, <2>5 DEF CancelSave, RequestsOK
  <2> QED
    BY <1>7, <2>5, <2>6, OthersKept DEF CancelSave, history
<1> QED
  BY <1>1, <1>2, <1>3, <1>4, <1>5, <1>6, <1>7 DEF FillRequest, CancelRequest

-----------------------------------------------------------------------------
(* Steps of the cron job. *)

LEMMA Bounds ==
  ASSUME LifeInv
  PROVE  next \in Nat /\ Len(log) \in Nat /\ next <= Len(log)
  BY DEF LifeInv, SavesOK, ContractOK

\* The other ticks stay where they are.
OnlyMoves(t) ==
  \A m \in Ticks : m # t => /\ tpc'[m] = tpc[m] /\ seen'[m] = seen[m]
                           /\ todo'[m] = todo[m] /\ batch'[m] = batch[m]
                           /\ visible'[m] = visible[m]

LEMMA TickMoves ==
  ASSUME LifeInv, NEW t \in Ticks, OnlyMoves(t), TickShapes', TickOK(t)',
         refused \subseteq refused', log' = log, next' \in Nat, next <= next'
  PROVE  TicksOK'
<1>1. \A m \in Ticks : m # t => TickOK(m)'
  BY Bounds DEF OnlyMoves, LifeInv, TicksOK, TickOK
<1> QED
  BY <1>1 DEF TicksOK

\* No order is lost by a step that is not about jobs.
LEMMA AccountedMoves ==
  ASSUME AcceptedAccountedFor, accepted' = accepted, Stored \subseteq Stored',
         jobs \subseteq jobs', refused \subseteq refused', dropped \subseteq dropped',
         \A m \in Ticks : tpc[m] = "create" => tpc'[m] = "create" /\ todo'[m] = todo[m]
  PROVE  AcceptedAccountedFor'
  BY DEF AcceptedAccountedFor

\* A tick that goes on to another await, and changes no document and no save.
LEMMA TickGoesOn ==
  ASSUME LifeInv, NEW t \in Ticks, OnlyMoves(t), TickShapes', TickOK(t)', tpc[t] # "create",
         UNCHANGED <<contract, store, requests, saves, accepted, dropped>>,
         refused \subseteq refused', next' \in 0 .. Len(log), next <= next'
  PROVE  LifeInv'
<1>1. ContractOK' /\ StoreOK' /\ Stored' = Stored /\ log' = log /\ jobs' = jobs
  BY DEF LifeInv, contract, store, ContractOK, StoreOK, Stored
<1>2. SavesOK'
  BY <1>1, Bounds DEF LifeInv, SavesOK
<1>3. RequestsOK'
  BY <1>1, RequestsKept DEF LifeInv
<1>4. AcceptedAccountedFor'
  BY <1>1, AccountedMoves DEF OnlyMoves, LifeInv
<1>5. TicksOK'
  BY <1>1, Bounds, TickMoves
<1> QED
  BY <1>1, <1>2, <1>3, <1>4, <1>5 DEF LifeInv

LEMMA EndTickMoves ==
  ASSUME LifeInv, NEW t \in Ticks, EndTick(t)
  PROVE  /\ OnlyMoves(t) /\ TickShapes' /\ TickOK(t)'
         /\ tpc'[t] = "idle" /\ todo'[t] = {}
<1>1. /\ tpc'[t] = "idle" /\ todo'[t] = {} /\ visible'[t] = 0
      /\ OnlyMoves(t)
  BY DEF EndTick, LifeInv, TicksOK, TickShapes, OnlyMoves
<1>2. TickShapes'
  BY DEF EndTick, LifeInv, TicksOK, TickShapes, Docs
<1>3. TickOK(t)'
  BY <1>1 DEF TickOK
<1> QED
  BY <1>1, <1>2, <1>3

LEMMA CheckOrdersKeeps ==
  ASSUME LifeInv, NEW t \in Ticks,
         ReadActiveOrders(t) \/ CheckActiveOrders(t) \/ ActiveOrdersDone(t)
  PROVE  LifeInv'
<1> USE Bounds
<1>1. TickShapes /\ TickOK(t)
  BY DEF LifeInv, TicksOK
<1>2. CASE ReadActiveOrders(t)
  <2>1. /\ UNCHANGED <<contract, store, requests, saves, next, history>>
        /\ tpc[t] # "create"
    BY <1>2 DEF ReadActiveOrders
  <2>2. OnlyMoves(t) /\ tpc'[t] \in {"queue", "check"} /\ visible'[t] = Len(log)
    BY <1>1, <1>2 DEF ReadActiveOrders, OnlyMoves, TickShapes
  <2>3. [o \in Orders |-> IF o \in ActiveOrders THEN doc[o] ELSE NoDoc] \in [Orders -> Docs]
    BY DEF LifeInv, StoreOK, Docs
  <2>4. TickShapes'
    BY <1>1, <1>2, <2>3 DEF ReadActiveOrders, TickShapes
  <2>5. TickOK(t)'
    BY <2>1, <2>2 DEF TickOK, contract
  <2> QED
    BY <2>1, <2>2, <2>4, <2>5, TickGoesOn DEF history
<1>3. CASE CheckActiveOrders(t)
  <2> DEFINE verdict(o) == CheckOrderError(o, seen[t][o].remainingShares)
             checked(o) == IF seen[t][o] = NoDoc \/ verdict(o) = "NoError"
                           THEN seen[t][o]
                           ELSE [seen[t][o] EXCEPT !.orderError = verdict(o),
                                                   !.state = StateOf(verdict(o))]
  <2>1. /\ tpc[t] # "create"
        /\ seen' = [seen EXCEPT ![t] = [o \in Orders |-> checked(o)]]
        /\ todo' = [todo EXCEPT ![t] = {o \in Orders : checked(o).orderError # "NoError"}]
        /\ tpc' = [tpc EXCEPT ![t] = "update"]
        /\ UNCHANGED <<contract, store, saves, next, batch, visible, requests, history>>
    BY <1>3 DEF CheckActiveOrders
  <2>2. ASSUME NEW o \in Orders PROVE checked(o) \in Docs
    <3>1. seen[t][o] \in Docs
      BY <1>1 DEF TickShapes
    <3>2. verdict(o) \in Errors /\ StateOf(verdict(o)) \in States
      BY VerdictType, StateOfType DEF LifeInv
    <3> HIDE DEF verdict
    <3> QED
      BY <3>1, <3>2 DEF Docs, Order
  <2> HIDE DEF verdict, checked
  <2>3. /\ tpc'[t] = "update" /\ seen'[t] = [o \in Orders |-> checked(o)]
        /\ todo'[t] = {o \in Orders : checked(o).orderError # "NoError"}
        /\ visible'[t] = visible[t] /\ OnlyMoves(t)
    BY <1>1, <2>1 DEF TickShapes, OnlyMoves
  <2>4. TickShapes'
    <3>1. [o \in Orders |-> checked(o)] \in [Orders -> Docs]
      BY <2>2
    <3> QED
      BY <1>1, <2>1, <3>1 DEF TickShapes
  <2>5. TickOK(t)'
    BY <1>1, <2>1, <2>3 DEF TickOK, contract
  <2> QED
    BY <2>1, <2>3, <2>4, <2>5, TickGoesOn DEF history
<1>4. CASE ActiveOrdersDone(t)
  <2>1. /\ UNCHANGED <<contract, store, requests, saves, next, history>>
        /\ tpc[t] # "create"
    BY <1>4 DEF ActiveOrdersDone
  <2>2. OnlyMoves(t) /\ tpc'[t] = "queue" /\ visible'[t] = visible[t]
    BY <1>1, <1>4 DEF ActiveOrdersDone, OnlyMoves, TickShapes
  <2>3. TickShapes'
    BY <1>1, <1>4 DEF ActiveOrdersDone, TickShapes, Docs
  <2>4. TickOK(t)'
    BY <1>1, <2>1, <2>2 DEF TickOK, contract
  <2> QED
    BY <2>1, <2>2, <2>3, <2>4, TickGoesOn DEF history
<1> QED
  BY <1>2, <1>3, <1>4

LEMMA UpdateKeeps ==
  ASSUME LifeInv, NEW t \in Ticks, UpdateActiveOrder(t)
  PROVE  LifeInv'
<1> USE Bounds
<1>1. TickShapes /\ TickOK(t) /\ SavesOK /\ RequestsOK /\ StoreOK /\ ContractOK
  BY DEF LifeInv, TicksOK
<1>2. PICK o \in todo[t] :
        /\ doc' = [doc EXCEPT ![o].orderError = seen[t][o].orderError,
                              ![o].state = seen[t][o].state]
        /\ todo' = [todo EXCEPT ![t] = @ \ {o}]
  BY DEF UpdateActiveOrder
<1>3. /\ tpc[t] = "update"
      /\ UNCHANGED <<contract, jobs, posts, next, saves, tpc, seen, batch, visible,
                     requests, history>>
  BY DEF UpdateActiveOrder
<1> DEFINE d == [doc[o] EXCEPT !.orderError = seen[t][o].orderError,
                               !.state = seen[t][o].state]
<1>4. o \in Orders /\ seen[t][o] \in Order /\ doc[o] \in Docs
  <2>1. o \in Orders /\ seen[t][o].orderError # "NoError"
    BY <1>1, <1>3 DEF TickOK
  <2>2. seen[t][o] \in Docs
    BY <1>1, <2>1 DEF TickShapes
  <2> QED
    BY <1>1, <2>1, <2>2 DEF Docs, NoDoc, StoreOK
<1>5. d \in Order /\ doc' = [doc EXCEPT ![o] = d]
  <2>1. doc' = [doc EXCEPT ![o] = d]
    BY <1>1, <1>2, <1>4 DEF StoreOK
  <2>2. NoDoc \in [state : {"none"} \cup States, orderError : Errors,
                   remainingShares : 0 .. Shares, remainingSharesEvent : 0 .. Shares]
    BY OrderAssumption DEF NoDoc, Errors
  <2>3. doc[o] \in [state : {"none"} \cup States, orderError : Errors,
                    remainingShares : 0 .. Shares, remainingSharesEvent : 0 .. Shares]
    BY <1>4, <2>2 DEF Docs, Order
  <2>4. d \in Order
    BY <1>4, <2>3 DEF Order
  <2> QED
    BY <2>1, <2>4
<1> HIDE DEF d
<1>6. StoreOK' /\ Stored' = Stored \cup {o}
  BY <1>1, <1>3, <1>4, <1>5, DocChanges DEF history
<1>7. OnlyMoves(t) /\ tpc'[t] = "update" /\ todo'[t] = todo[t] \ {o}
  BY <1>1, <1>2, <1>3 DEF OnlyMoves, TickShapes
<1>8. TickShapes'
  BY <1>1, <1>2, <1>3 DEF TickShapes
<1>9. TickOK(t)'
  BY <1>1, <1>3, <1>7 DEF TickOK, contract
<1>10. TicksOK'
  BY <1>3, <1>7, <1>8, <1>9, TickMoves DEF contract, history
<1>11. SavesOK' /\ RequestsOK' /\ ContractOK'
  BY <1>1, <1>3, <1>6, SavesKept, RequestsKept DEF contract, ContractOK
<1>12. AcceptedAccountedFor'
  BY <1>3, <1>6, <1>7, AccountedMoves DEF LifeInv, OnlyMoves, history
<1> QED
  BY <1>6, <1>10, <1>11, <1>12 DEF LifeInv

\* Reading and checking the queue, taking events, and the ends of a tick.
LEMMA MovesKeep ==
  ASSUME LifeInv, NEW t \in Ticks,
         \/ ReadQueue(t) \/ CheckCreatedOrders(t) \/ NextEvent(t) \/ NoMoreEvents(t)
         \/ CanceledSaved(t) \/ TickFails(t)
  PROVE  LifeInv'
<1> USE Bounds
<1>1. TickShapes /\ TickOK(t)
  BY DEF LifeInv, TicksOK
<1>2. CASE ReadQueue(t)
  <2>1. /\ UNCHANGED <<contract, store, requests, saves, next, history>>
        /\ tpc[t] # "create"
    BY <1>2 DEF ReadQueue
  <2>2. /\ OnlyMoves(t) /\ tpc'[t] \in {"events", "checkJobs"} /\ visible'[t] = visible[t]
    BY <1>1, <1>2 DEF ReadQueue, OnlyMoves, TickShapes
  <2>3. TickShapes'
    BY <1>1, <1>2 DEF ReadQueue, TickShapes, LifeInv, StoreOK
  <2>4. TickOK(t)'
    BY <1>1, <2>1, <2>2 DEF TickOK, contract
  <2> QED
    BY <2>1, <2>2, <2>3, <2>4, TickGoesOn DEF history
<1>3. CASE CheckCreatedOrders(t)
  <2> DEFINE good == {j \in batch[t] : CheckOrderError(j.order, Shares) = "NoError"}
  <2>1. /\ UNCHANGED <<contract, store, requests, saves, next, accepted, dropped>>
        /\ tpc[t] # "create"
        /\ refused' = refused \cup {j.order : j \in batch[t] \ good}
    BY <1>3 DEF CheckCreatedOrders
  <2>2. /\ OnlyMoves(t) /\ tpc'[t] = "remove" /\ visible'[t] = visible[t]
        /\ todo'[t] = good /\ batch'[t] = batch[t]
    BY <1>1, <1>3 DEF CheckCreatedOrders, OnlyMoves, TickShapes
  <2>3. TickShapes'
    BY <1>1, <1>3 DEF CheckCreatedOrders, TickShapes
  <2>4. TickOK(t)'
    BY <1>1, <2>1, <2>2 DEF TickOK, contract
  <2> QED
    BY <2>1, <2>2, <2>3, <2>4, TickGoesOn
<1>4. CASE NextEvent(t)
  <2>1. /\ UNCHANGED <<contract, store, requests, saves, history>>
        /\ tpc[t] # "create" /\ next' = next + 1 /\ next < visible[t]
    BY <1>4 DEF NextEvent
  <2>2. log[next + 1] \in Events /\ next + 1 <= Len(log)
    BY <1>1, <2>1 DEF TickOK, LifeInv, ContractOK
  <2>3. /\ OnlyMoves(t) /\ tpc'[t] \in {"OrderFilled", "OrderCanceled"}
        /\ visible'[t] = visible[t] /\ todo'[t] = {next + 1}
    BY <1>1, <1>4, <2>2 DEF NextEvent, OnlyMoves, TickShapes, Events
  <2>4. TickShapes'
    BY <1>1, <1>4 DEF NextEvent, TickShapes
  <2>5. TickOK(t)'
    BY <1>1, <2>1, <2>3 DEF TickOK, contract
  <2> QED
    BY <2>1, <2>2, <2>3, <2>4, <2>5, TickGoesOn DEF history
<1>5. CASE NoMoreEvents(t)
  <2>1. /\ UNCHANGED <<contract, store, requests, saves, next, history>>
        /\ tpc[t] # "create" /\ EndTick(t)
    BY <1>5 DEF NoMoreEvents
  <2> QED
    BY <2>1, EndTickMoves, TickGoesOn DEF history
<1>6. CASE CanceledSaved(t)
  <2>1. /\ UNCHANGED <<contract, store, requests, saves, next, history>>
        /\ tpc[t] # "create"
    BY <1>6 DEF CanceledSaved
  <2>2. OnlyMoves(t) /\ tpc'[t] = "events" /\ visible'[t] = visible[t]
    BY <1>1, <1>6 DEF CanceledSaved, OnlyMoves, TickShapes
  <2>3. TickShapes'
    BY <1>1, <1>6 DEF CanceledSaved, TickShapes
  <2>4. TickOK(t)'
    BY <1>1, <2>1, <2>2 DEF TickOK, contract
  <2> QED
    BY <2>1, <2>2, <2>3, <2>4, TickGoesOn DEF history
<1>7. CASE TickFails(t)
  <2>1. /\ UNCHANGED <<contract, store, requests, saves, next, accepted, refused, dropped>>
        /\ tpc[t] # "create" /\ EndTick(t)
    BY <1>7 DEF TickFails
  <2> QED
    BY <2>1, EndTickMoves, TickGoesOn
<1> QED
  BY <1>2, <1>3, <1>4, <1>5, <1>6, <1>7

\* A job that is removed is one whose order the contract refused, or one the
\* tick goes on to create.
LEMMA RemoveJobsKeeps ==
  ASSUME LifeInv, NEW t \in Ticks, RemoveJobs(t) \/ RemoveJobsFails(t)
  PROVE  LifeInv'
<1> USE Bounds
<1>1. TickShapes /\ TickOK(t) /\ SavesOK /\ RequestsOK /\ StoreOK /\ ContractOK
  BY DEF LifeInv, TicksOK
<1>2. /\ UNCHANGED <<contract, doc, posts, next, saves, requests, accepted, refused>>
      /\ tpc[t] = "remove" /\ jobs' \subseteq jobs
  BY DEF RemoveJobs, RemoveJobsFails, history
<1>3. StoreOK' /\ Stored' = Stored
  BY <1>1, <1>2 DEF StoreOK, Stored
<1>4. SavesOK' /\ RequestsOK' /\ ContractOK'
  BY <1>1, <1>2, <1>3, SavesKept, RequestsKept DEF contract, ContractOK
<1>5. \A j \in batch[t] : j \in todo[t] \/ j.order \in refused
  BY <1>1, <1>2 DEF TickOK
<1>6. CASE RemoveJobs(t)
  <2>1. /\ OnlyMoves(t) /\ todo' = todo /\ batch' = batch /\ visible' = visible
        /\ tpc'[t] = IF todo[t] = {} THEN "events" ELSE "create"
    BY <1>1, <1>6 DEF RemoveJobs, OnlyMoves, TickShapes
  <2>2. TickShapes'
    BY <1>1, <1>6 DEF RemoveJobs, TickShapes
  <2>3. TickOK(t)'
    BY <1>1, <1>2, <2>1 DEF TickOK, contract
  <2>4. TicksOK'
    BY <1>2, <2>1, <2>2, <2>3, TickMoves DEF contract
  <2>5. AcceptedAccountedFor'
    <3> SUFFICES ASSUME NEW o \in accepted, o \notin Stored \cup refused \cup dropped
                 PROVE  \/ \E j \in jobs' : j.order = o
                        \/ \E m \in Ticks : tpc'[m] = "create" /\ \E j \in todo[m] : j.order = o
      BY <1>2, <1>3, <1>6, <2>1 DEF AcceptedAccountedFor, RemoveJobs, history
    <3>1. CASE \E j \in jobs : j.order = o
      BY <1>5, <1>6, <2>1, <3>1 DEF RemoveJobs
    <3>2. CASE \E m \in Ticks : tpc[m] = "create" /\ \E j \in todo[m] : j.order = o
      BY <1>2, <2>1, <3>2 DEF OnlyMoves
    <3> QED
      BY <3>1, <3>2 DEF LifeInv, AcceptedAccountedFor
  <2> QED
    BY <1>3, <1>4, <2>4, <2>5 DEF LifeInv
<1>7. CASE RemoveJobsFails(t)
  <2>1. PICK gone \in SUBSET batch[t] :
          /\ jobs' = jobs \ gone
          /\ dropped' = dropped \cup {j.order : j \in gone \cap todo[t]}
    BY <1>7 DEF RemoveJobsFails
  <2>2. /\ OnlyMoves(t) /\ TickShapes' /\ TickOK(t)'
    BY <1>7, EndTickMoves DEF RemoveJobsFails
  <2>3. TicksOK'
    BY <1>2, <2>2, TickMoves DEF contract
  <2>4. AcceptedAccountedFor'
    <3> SUFFICES ASSUME NEW o \in accepted, o \notin Stored \cup refused \cup dropped'
                 PROVE  \/ \E j \in jobs' : j.order = o
                        \/ \E m \in Ticks : tpc'[m] = "create" /\ \E j \in todo'[m] : j.order = o
      BY <1>2, <1>3 DEF AcceptedAccountedFor
    <3>1. o \notin dropped
      BY <2>1
    <3>2. CASE \E j \in jobs : j.order = o
      BY <1>5, <2>1, <3>2
    <3>3. CASE \E m \in Ticks : tpc[m] = "create" /\ \E j \in todo[m] : j.order = o
      BY <1>2, <2>2, <3>3 DEF OnlyMoves
    <3> QED
      BY <3>1, <3>2, <3>3 DEF LifeInv, AcceptedAccountedFor
  <2> QED
    BY <1>3, <1>4, <2>3, <2>4 DEF LifeInv
<1> QED
  BY <1>6, <1>7

LEMMA CreateOrdersKeeps ==
  ASSUME LifeInv, NEW t \in Ticks, CreateOrders(t)
  PROVE  LifeInv'
<1> USE Bounds
<1>1. TickShapes /\ TickOK(t) /\ SavesOK /\ RequestsOK /\ StoreOK /\ ContractOK
  BY DEF LifeInv, TicksOK
<1> DEFINE created == {j.order : j \in todo[t]}
<1>2. /\ tpc[t] = "create"
      /\ UNCHANGED <<contract, jobs, posts, next, saves, requests, accepted, refused>>
  BY DEF CreateOrders
<1>12. PICK failed \in SUBSET (created \ Stored) :
         /\ doc' = [o \in Orders |-> IF o \in created \ (Stored \cup failed)
                                     THEN NewOrder ELSE doc[o]]
         /\ dropped' = dropped \cup failed
  BY DEF CreateOrders
<1>3. created \subseteq Orders
  BY <1>1, <1>2 DEF TickOK, TickShapes, Jobs
<1>4. NewOrder \in Order
  BY OrderAssumption DEF NewOrder, Order, States, Errors
<1>5. NewOrder # NoDoc
  BY <1>4, RealIsNotNoDoc
<1>6. StoreOK'
  BY <1>1, <1>2, <1>4, <1>12 DEF StoreOK, Docs
<1>7. Stored' = Stored \cup (created \ failed)
  BY <1>3, <1>5, <1>12 DEF Stored
<1>8. SavesOK' /\ RequestsOK' /\ ContractOK'
  BY <1>1, <1>2, <1>7, SavesKept, RequestsKept DEF contract, ContractOK
<1>9. OnlyMoves(t) /\ TickShapes' /\ TickOK(t)'
  <2>1. CASE EndTick(t)
    BY <2>1, EndTickMoves
  <2>2. CASE /\ tpc' = [tpc EXCEPT ![t] = "events"]
             /\ todo' = [todo EXCEPT ![t] = {}]
             /\ batch' = [batch EXCEPT ![t] = {}]
             /\ UNCHANGED <<seen, visible>>
    <3>1. OnlyMoves(t) /\ TickShapes' /\ tpc'[t] = "events" /\ visible' = visible
      BY <1>1, <2>2 DEF OnlyMoves, TickShapes
    <3> QED
      BY <1>1, <1>2, <3>1 DEF TickOK, contract
  <2> QED
    BY <2>1, <2>2 DEF CreateOrders
<1>10. TicksOK'
  BY <1>2, <1>9, TickMoves DEF contract
<1>11. AcceptedAccountedFor'
  <2> SUFFICES ASSUME NEW o \in accepted, o \notin Stored' \cup refused \cup dropped'
               PROVE  \/ \E j \in jobs : j.order = o
                      \/ \E m \in Ticks : tpc'[m] = "create" /\ \E j \in todo'[m] : j.order = o
    BY <1>2 DEF AcceptedAccountedFor
  <2>1. o \notin dropped /\ ~ \E j \in todo[t] : j.order = o
    BY <1>7, <1>12
  <2>2. CASE \E m \in Ticks : tpc[m] = "create" /\ \E j \in todo[m] : j.order = o
    BY <1>9, <2>1, <2>2 DEF OnlyMoves
  <2> QED
    BY <1>7, <2>1, <2>2 DEF LifeInv, AcceptedAccountedFor
<1> QED
  BY <1>6, <1>8, <1>10, <1>11 DEF LifeInv

\* A tick that handles an event, and starts or drops saves.
LEMMA HandlerMoves ==
  ASSUME LifeInv, NEW t \in Ticks, OnlyMoves(t), TickShapes', TickOK(t)', tpc[t] # "create",
         UNCHANGED <<contract, store, requests, next, accepted, refused, dropped>>,
         \A s \in saves' : s \in saves \/ (s \in Saves /\ s.order \in Stored /\ s.id \in 1 .. next)
  PROVE  LifeInv'
<1>1. ContractOK' /\ StoreOK' /\ Stored' = Stored /\ log' = log /\ jobs' = jobs
  BY DEF LifeInv, contract, store, ContractOK, StoreOK, Stored
<1>2. SavesOK'
  BY <1>1, Bounds DEF LifeInv, SavesOK
<1>3. RequestsOK'
  BY <1>1, RequestsKept DEF LifeInv
<1>4. AcceptedAccountedFor'
  BY <1>1, AccountedMoves DEF OnlyMoves, LifeInv
<1>5. TicksOK'
  BY <1>1, Bounds, TickMoves
<1> QED
  BY <1>1, <1>2, <1>3, <1>4, <1>5 DEF LifeInv

LEMMA HandlersKeep ==
  ASSUME LifeInv, NEW t \in Ticks,
         HandleOrderFilled(t) \/ HandleOrderCanceled(t) \/ CanceledFails(t)
  PROVE  LifeInv'
<1> USE Bounds
<1>1. TickShapes /\ TickOK(t) /\ StoreOK /\ ContractOK
  BY DEF LifeInv, TicksOK
<1>2. ASSUME NEW i \in todo[t], todo[t] \subseteq 1 .. next
      PROVE  log[i] \in Events /\ i \in 1 .. next
  BY <1>1, <1>2 DEF ContractOK
<1>3. CASE HandleOrderFilled(t)
  <2>1. PICK i \in todo[t] :
          saves' = IF log[i].order \in Stored
                        /\ doc[log[i].order].remainingSharesEvent # log[i].remaining
                   THEN saves \cup {[id |-> i, order |-> log[i].order,
                                     old |-> doc[log[i].order],
                                     new |-> FilledDoc(doc[log[i].order], log[i].remaining)]}
                   ELSE saves
    BY <1>3 DEF HandleOrderFilled
  <2>2. /\ tpc[t] # "create" /\ todo[t] \subseteq 1 .. next
        /\ UNCHANGED <<contract, store, requests, next, history>>
    BY <1>1, <1>3 DEF HandleOrderFilled, TickOK
  <2>3. OnlyMoves(t) /\ tpc'[t] = "events" /\ visible'[t] = visible[t]
    BY <1>1, <1>3 DEF HandleOrderFilled, OnlyMoves, TickShapes
  <2>4. TickShapes'
    BY <1>1, <1>3 DEF HandleOrderFilled, TickShapes
  <2>5. TickOK(t)'
    BY <1>1, <2>2, <2>3 DEF TickOK, contract
  <2>6. ASSUME log[i].order \in Stored
        PROVE  [id |-> i, order |-> log[i].order, old |-> doc[log[i].order],
                new |-> FilledDoc(doc[log[i].order], log[i].remaining)] \in Saves
    <3>1. log[i].order \in Orders /\ log[i].remaining \in 0 .. Shares /\ i \in Nat
      BY <1>2, <2>2 DEF Events
    <3>2. doc[log[i].order] \in Order
      BY <1>1, <2>6, <3>1 DEF Stored, StoreOK, Docs
    <3> QED
      BY <3>1, <3>2, FilledDocType DEF Saves
  <2>7. \A s \in saves' :
          s \in saves \/ (s \in Saves /\ s.order \in Stored /\ s.id \in 1 .. next)
    BY <1>2, <2>1, <2>2, <2>6
  <2> QED
    BY <2>2, <2>3, <2>4, <2>5, <2>7, HandlerMoves DEF history
<1>4. CASE HandleOrderCanceled(t)
  <2> DEFINE new(d) == [d EXCEPT !.orderError = "Closed", !.state = "CANCELLED"]
  <2>1. PICK i \in todo[t] :
          IF log[i].order \in Stored
          THEN /\ saves' = saves \cup {[id |-> i, order |-> log[i].order,
                                        old |-> doc[log[i].order],
                                        new |-> new(doc[log[i].order])]}
               /\ tpc' = [tpc EXCEPT ![t] = "saving"]
               /\ UNCHANGED todo
          ELSE /\ tpc' = [tpc EXCEPT ![t] = "events"]
               /\ todo' = [todo EXCEPT ![t] = {}]
               /\ UNCHANGED saves
    BY <1>4 DEF HandleOrderCanceled
  <2>2. /\ tpc[t] # "create" /\ todo[t] \subseteq 1 .. next
        /\ UNCHANGED <<contract, store, requests, next, seen, batch, visible, history>>
    BY <1>1, <1>4 DEF HandleOrderCanceled, TickOK
  <2>3. /\ OnlyMoves(t) /\ tpc'[t] \in {"events", "saving"} /\ visible'[t] = visible[t]
        /\ tpc'[t] = "saving" => todo'[t] = todo[t]
    BY <1>1, <2>1, <2>2 DEF OnlyMoves, TickShapes
  <2>4. TickShapes'
    BY <1>1, <2>1, <2>2 DEF TickShapes
  <2>5. TickOK(t)'
    BY <1>1, <2>2, <2>3 DEF TickOK, contract
  <2>6. ASSUME log[i].order \in Stored
        PROVE  [id |-> i, order |-> log[i].order, old |-> doc[log[i].order],
                new |-> new(doc[log[i].order])] \in Saves
    <3>1. log[i].order \in Orders /\ i \in Nat
      BY <1>2, <2>2 DEF Events
    <3>2. doc[log[i].order] \in Order
      BY <1>1, <2>6, <3>1 DEF Stored, StoreOK, Docs
    <3>3. new(doc[log[i].order]) \in Order
      BY <3>2 DEF Order, States, Errors
    <3> QED
      BY <3>1, <3>2, <3>3 DEF Saves
  <2>7. \A s \in saves' :
          s \in saves \/ (s \in Saves /\ s.order \in Stored /\ s.id \in 1 .. next)
    BY <1>2, <2>1, <2>2, <2>6
  <2> QED
    BY <2>2, <2>3, <2>4, <2>5, <2>7, HandlerMoves DEF history
<1>5. CASE CanceledFails(t)
  <2>1. /\ UNCHANGED <<contract, store, requests, next, accepted, refused, dropped>>
        /\ tpc[t] # "create" /\ saves' \subseteq saves
    BY <1>5 DEF CanceledFails
  <2>2. OnlyMoves(t) /\ tpc'[t] = "events" /\ visible'[t] = visible[t]
    BY <1>1, <1>5 DEF CanceledFails, OnlyMoves, TickShapes
  <2>3. TickShapes'
    BY <1>1, <1>5 DEF CanceledFails, TickShapes
  <2>4. TickOK(t)'
    BY <1>1, <2>1, <2>2 DEF TickOK, contract
  <2> QED
    BY <2>1, <2>2, <2>3, <2>4, HandlerMoves
<1> QED
  BY <1>3, <1>4, <1>5

-----------------------------------------------------------------------------
(* Saves that land, and crashes. *)

LEMMA SaveLandsKeeps ==
  ASSUME LifeInv, NEW s \in saves, SaveLands(s)
  PROVE  LifeInv'
<1> USE Bounds
<1>1. StoreOK /\ SavesOK /\ TicksOK /\ RequestsOK /\ ContractOK
  BY DEF LifeInv
<1> DEFINE d == SaveDelta(doc[s.order], s.old, s.new)
<1>2. s \in Saves /\ s.order \in Stored
  BY <1>1 DEF SavesOK
<1>3. s.order \in Orders /\ doc[s.order] \in Order
  BY <1>1, <1>2 DEF Stored, StoreOK, Docs
<1>4. /\ doc' = [doc EXCEPT ![s.order] = d] /\ saves' \subseteq saves
      /\ UNCHANGED <<contract, jobs, posts, next, tick, requests, accepted, refused,
                     dropped>>
  BY DEF SaveLands
<1>5. d \in Order
  BY <1>2, <1>3, SaveDeltaType DEF Saves
<1> HIDE DEF d
<1>6. StoreOK' /\ Stored' = Stored
  BY <1>1, <1>2, <1>3, <1>4, <1>5, DocChanges
<1>7. SavesOK'
  BY <1>1, <1>4, <1>6 DEF SavesOK, contract
<1>8. RequestsOK' /\ TicksOK' /\ ContractOK'
  BY <1>1, <1>4, <1>6, RequestsKept, TicksKept DEF contract, ContractOK
<1>9. AcceptedAccountedFor'
  BY <1>4, <1>6, AccountedKept DEF LifeInv, tick
<1> QED
  BY <1>6, <1>7, <1>8, <1>9 DEF LifeInv

LEMMA CrashKeeps ==
  ASSUME LifeInv, Crash
  PROVE  LifeInv'
<1> USE Bounds
<1>1. ContractOK' /\ StoreOK' /\ Stored' = Stored
  BY DEF Crash, LifeInv, contract, store, ContractOK, StoreOK, Stored
<1>2. SavesOK'
  BY DEF Crash, LifeInv, contract, SavesOK
<1>3. TicksOK'
  <2>1. TickShapes'
    BY DEF Crash, TickShapes, Docs
  <2>2. \A t \in Ticks : tpc'[t] = "idle" /\ visible'[t] = 0
    BY DEF Crash
  <2> QED
    BY <2>1, <2>2 DEF TicksOK, TickOK
<1>4. RequestsOK'
  BY DEF Crash, RequestsOK
<1>5. AcceptedAccountedFor'
  <2> SUFFICES ASSUME NEW o \in accepted, o \notin Stored \cup refused \cup dropped'
               PROVE  \E j \in jobs : j.order = o
    BY <1>1 DEF Crash, AcceptedAccountedFor, store
  <2>1. o \notin dropped /\ ~ \E t \in Ticks : tpc[t] = "create" /\ \E j \in todo[t] : j.order = o
    BY DEF Crash
  <2> QED
    BY <2>1 DEF LifeInv, AcceptedAccountedFor
<1> QED
  BY <1>1, <1>2, <1>3, <1>4, <1>5 DEF LifeInv

-----------------------------------------------------------------------------
(* The theorems. *)

LEMMA LifeStep == LifeInv /\ [Next]_vars => LifeInv'
<1> SUFFICES ASSUME LifeInv, [Next]_vars PROVE LifeInv'
  OBVIOUS
<1>1. CASE Contract
  BY <1>1, ContractKeeps DEF Contract
<1>2. CASE \E o \in Orders : CreateOrder(o)
  BY <1>2, CreateOrderKeeps
<1>3. CASE \E t \in Ticks : Tick(t)
  BY <1>3, CheckOrdersKeeps, UpdateKeeps, MovesKeep, RemoveJobsKeeps, CreateOrdersKeeps,
     HandlersKeep DEF Tick
<1>4. CASE \E s \in saves : SaveLands(s)
  BY <1>4, SaveLandsKeeps
<1>5. CASE (\E r \in Fills : FillRequest(r)) \/ (\E c \in Cancels : CancelRequest(c))
  BY <1>5, RequestKeeps
<1>6. CASE Crash
  BY <1>6, CrashKeeps
<1>7. CASE UNCHANGED vars
  <2>1. UNCHANGED <<contract, store, next, saves, tick, requests, history>>
    BY <1>7 DEF vars
  <2>2. StoreOK' /\ Stored' = Stored
    BY <2>1 DEF LifeInv, StoreOK, Stored, store, history
  <2>3. RequestsOK'
    BY <2>1, <2>2, RequestsKept DEF LifeInv
  <2> QED
    BY <2>1, <2>2, <2>3, OthersKept DEF store, history
<1> QED
  BY <1>1, <1>2, <1>3, <1>4, <1>5, <1>6, <1>7 DEF Next

\* Every variable keeps its type: documents only get the states, errors and
\* shares the schema has, whatever stale document is written over them, and
\* requests and saves are of stored orders.
THEOREM LifeTypes == Spec => []TypeOK
<1>1. LifeInv => TypeOK
  <2> SUFFICES ASSUME LifeInv PROVE TypeOK
    OBVIOUS
  <2>1. \A s \in saves : s.order \in Stored /\ s.id \in 1 .. next
    BY DEF LifeInv, SavesOK
  <2>2. \A t \in Ticks : visible[t] <= Len(log)
    BY DEF LifeInv, TicksOK, TickOK
  <2>3. /\ \A r \in Fills : fpc[r] # "idle" => fill[r].order \in Stored
        /\ \A c \in Cancels : cancel[c] # NoCancel => cancel[c].order \in Stored
    BY DEF LifeInv, RequestsOK
  <2>4. seen \in [Ticks -> [Orders -> Order \cup {NoDoc}]]
    BY DEF LifeInv, TicksOK, TickShapes, Docs
  <2>5. /\ left \in [Orders -> 0 .. Shares] /\ closed \subseteq Orders
        /\ error \in [Orders -> Errors] /\ doc \in [Orders -> Order \cup {NoDoc}]
        /\ jobs \subseteq [id : 1 .. MaxPosts, order : Orders] /\ next \in 0 .. Len(log)
    BY DEF LifeInv, ContractOK, StoreOK, SavesOK, Docs, Jobs
  <2> QED
    BY <2>1, <2>2, <2>3, <2>4, <2>5 DEF TypeOK
<1> QED
  BY <1>1, LifeInit, LifeStep, PTL DEF Spec

\* An accepted order is waiting, being created, stored, turned down by the
\* contract, or its job was removed by a tick that failed or died before it
\* created the order.
THEOREM NoOrderVanishes == Spec => []AcceptedAccountedFor
<1>1. LifeInv => AcceptedAccountedFor
  BY DEF LifeInv
<1> QED
  BY <1>1, LifeInit, LifeStep, PTL DEF Spec

-----------------------------------------------------------------------------
(* Nothing brings an order back.                                           *)
(*                                                                         *)
(* What is written over an order that left the book carries an error, or   *)
(* changes neither its error nor its state, or changes them away from an   *)
(* open order.  For the saves this is a fact about the event they come     *)
(* from, and for the event a tick holds about the log.                     *)

OpenDoc(d) == d.state = "ACTIVE" /\ d.orderError = "NoError"

Handling == {"OrderFilled", "OrderCanceled", "saving"}

\* A tick in a handler holds one event, of the kind of the handler.
OneInHand(t) ==
  tpc[t] \in Handling =>
    \E i \in 1 .. next :
      /\ todo[t] = {i}
      /\ log[i].type = IF tpc[t] = "OrderFilled" THEN "OrderFilled" ELSE "OrderCanceled"

\* A save writes what its event makes of the order.
FromEvent(s) ==
  /\ s.order = log[s.id].order
  /\ s.new = IF log[s.id].type = "OrderFilled"
             THEN FilledDoc(s.old, log[s.id].remaining)
             ELSE [s.old EXCEPT !.orderError = "Closed", !.state = "CANCELLED"]
  /\ log[s.id].type = "OrderFilled" => s.new.remainingSharesEvent # s.old.remainingSharesEvent

EventInv ==
  /\ LifeInv
  /\ \A t \in Ticks : OneInHand(t)
  /\ \A s \in saves : FromEvent(s)

\* Once no share is left for the contract, or what was read had left the book,
\* the order is not open; and what a tick has read is stored.
RetiredInv ==
  /\ EventInv
  /\ \A o \in Stored : doc[o].remainingSharesEvent = 0 => ~ Standing(o)
  /\ \A s \in saves : ~ OpenDoc(s.old) => ~ Standing(s.order)
  /\ \A t \in Ticks, o \in Orders : seen[t][o] # NoDoc => o \in Stored

\* What a step of a tick does to the events and saves under way.
LEMMA TickEffects ==
  ASSUME LifeInv, NEW t \in Ticks, Tick(t)
  PROVE  /\ \A m \in Ticks : m # t => tpc'[m] = tpc[m] /\ todo'[m] = todo[m]
         /\ log' = log
         /\ \/ NextEvent(t) \/ HandleOrderFilled(t) \/ HandleOrderCanceled(t)
            \/ CanceledFails(t)
            \/ UNCHANGED <<next, saves>> /\ tpc'[t] \notin Handling
<1> USE DEF Handling, contract
<1>1. TickShapes
  BY DEF LifeInv, TicksOK
<1>2. CASE EndTick(t) /\ UNCHANGED <<contract, next, saves>>
  BY <1>1, <1>2 DEF EndTick, TickShapes
<1>3. CASE ReadActiveOrders(t) \/ CheckActiveOrders(t) \/ UpdateActiveOrder(t)
  BY <1>1, <1>3
  DEF ReadActiveOrders, CheckActiveOrders, UpdateActiveOrder, TickShapes
<1>4. CASE ActiveOrdersDone(t) \/ ReadQueue(t) \/ CheckCreatedOrders(t) \/ RemoveJobs(t)
  BY <1>1, <1>4
  DEF ActiveOrdersDone, ReadQueue, CheckCreatedOrders, RemoveJobs, TickShapes
<1>5. CASE RemoveJobsFails(t) \/ NoMoreEvents(t) \/ TickFails(t)
  BY <1>2, <1>5 DEF RemoveJobsFails, NoMoreEvents, TickFails
<1>6. CASE CreateOrders(t)
  BY <1>1, <1>2, <1>6 DEF CreateOrders, TickShapes
<1>7. CASE NextEvent(t) \/ HandleOrderFilled(t) \/ HandleOrderCanceled(t)
  BY <1>1, <1>7
  DEF NextEvent, HandleOrderFilled, HandleOrderCanceled, TickShapes
<1>8. CASE CanceledFails(t) \/ CanceledSaved(t)
  BY <1>1, <1>8 DEF CanceledFails, CanceledSaved, TickShapes
<1> QED
  BY <1>3, <1>4, <1>5, <1>6, <1>7, <1>8 DEF Tick

\* The log only grows.
LEMMA LogGrows ==
  ASSUME LifeInv, [Next]_vars
  PROVE  /\ Len(log) \in Nat /\ Len(log') \in Nat /\ Len(log) <= Len(log')
         /\ \A i \in 1 .. Len(log) : log[i] \in Events /\ log'[i] = log[i]
<1>1. log \in Seq(Events)
  BY DEF LifeInv, ContractOK
<1>2. CASE log' = log
  BY <1>1, <1>2
<1>3. CASE Contract
  <2>1. PICK o \in Orders :
          (\E n \in 1 .. Shares : ChainFill(o, n)) \/ ChainCancel(o) \/ ChainTurn(o)
    BY <1>3 DEF Contract
  <2>2. CASE \E n \in 1 .. Shares : ChainFill(o, n)
    <3>1. PICK n \in 1 .. Shares : ChainFill(o, n)
      BY <2>2
    <3>2. left[o] - n \in 0 .. Shares
      BY <3>1, OrderAssumption DEF ChainFill, CheckOrderError, LifeInv, ContractOK
    <3>3. [type |-> "OrderFilled", order |-> o, remaining |-> left[o] - n] \in Events
      BY <3>2 DEF Events
    <3> QED
      BY <1>1, <3>1, <3>3 DEF ChainFill
  <2>3. CASE ChainCancel(o)
    <3>1. [type |-> "OrderCanceled", order |-> o, remaining |-> 0] \in Events
      BY OrderAssumption DEF Events
    <3> QED
      BY <1>1, <2>3, <3>1 DEF ChainCancel
  <2> QED
    BY <1>2, <2>1, <2>2, <2>3 DEF ChainTurn
<1>4. ASSUME NEW t \in Ticks, Tick(t) PROVE log' = log
  BY <1>4, TickEffects
<1> QED
  BY <1>2, <1>3, <1>4
  DEF Next, CreateOrder, SaveLands, FillRequest, FillRead, FillCheck,
      FillRejected, FillOrder, FillFails, CancelRequest, CancelRead, CancelSave,
      Crash, contract, vars

\* A step of the contract, of a request, or none.
LEMMA OtherEffects ==
  ASSUME LifeInv, [Next]_vars
  PROVE  \/ \E t \in Ticks : Tick(t)
         \/ \E s \in saves : SaveLands(s)
         \/ Crash
         \/ UNCHANGED <<next, saves, tpc, todo, lost>>
  BY DEF Next, Contract, ChainFill, ChainCancel, ChainTurn, CreateOrder,
         FillRequest, FillRead, FillCheck, FillRejected, FillOrder, FillFails,
         CancelRequest, CancelRead, CancelSave, vars, tick, history

LEMMA EventStep ==
  ASSUME EventInv, [Next]_vars
  PROVE  EventInv'
<1> USE DEF EventInv
<1>1. LifeInv' /\ SavesOK /\ StoreOK
  BY LifeStep DEF LifeInv
<1>2. /\ next \in Nat /\ next <= Len(log) /\ Len(log) \in Nat
      /\ \A i \in 1 .. Len(log) : log[i] \in Events /\ log'[i] = log[i]
  BY Bounds, LogGrows
<1>3. ASSUME NEW s \in saves PROVE FromEvent(s)'
  <2>1. s.id \in 1 .. Len(log) /\ FromEvent(s)
    BY <1>1, <1>2 DEF SavesOK
  <2>2. log'[s.id] = log[s.id]
    BY <1>2, <2>1
  <2> QED
    BY <2>1, <2>2 DEF FromEvent, FilledDoc
<1>4. ASSUME NEW t \in Ticks, tpc'[t] = tpc[t], todo'[t] = todo[t],
             next' \in Nat, next <= next'
      PROVE  OneInHand(t)'
  BY <1>2, <1>4 DEF OneInHand, Handling
<1>5. ASSUME NEW t \in Ticks, Tick(t) PROVE EventInv'
  <2>1. /\ \A m \in Ticks : m # t => tpc'[m] = tpc[m] /\ todo'[m] = todo[m]
        /\ log' = log
    BY <1>5, TickEffects
  <2>2. TickShapes /\ TickOK(t)
    BY DEF LifeInv, TicksOK
  <2>3. CASE UNCHANGED <<next, saves>> /\ tpc'[t] \notin Handling
    BY <1>1, <1>2, <1>3, <1>4, <2>1, <2>3 DEF OneInHand
  <2>4. CASE NextEvent(t)
    <3>1. /\ tpc'[t] = log[next + 1].type /\ todo'[t] = {next + 1}
          /\ next' = next + 1 /\ saves' = saves /\ next + 1 \in 1 .. Len(log)
      BY <1>2, <2>2, <2>4 DEF NextEvent, TickShapes, TickOK
    <3>2. log[next + 1].type \in {"OrderFilled", "OrderCanceled"}
      BY <1>2, <3>1 DEF Events
    <3>3. OneInHand(t)'
      BY <1>2, <2>1, <3>1, <3>2 DEF OneInHand
    <3> QED
      BY <1>1, <1>2, <1>3, <1>4, <2>1, <3>1, <3>3
  <2>5. CASE HandleOrderFilled(t)
    <3>1. PICK i \in 1 .. next : todo[t] = {i} /\ log[i].type = "OrderFilled"
      BY <2>5 DEF HandleOrderFilled, OneInHand, Handling
    <3>2. /\ saves' = IF /\ log[i].order \in Stored
                         /\ doc[log[i].order].remainingSharesEvent # log[i].remaining
                      THEN saves \cup {[id |-> i, order |-> log[i].order,
                                        old |-> doc[log[i].order],
                                        new |-> FilledDoc(doc[log[i].order],
                                                          log[i].remaining)]}
                      ELSE saves
          /\ tpc'[t] = "events" /\ next' = next
      BY <2>2, <2>5, <3>1 DEF HandleOrderFilled, TickShapes
    <3>3. ASSUME NEW s \in saves', s \notin saves PROVE FromEvent(s)'
      <4>1. doc[log[i].order] \in Order
        BY <1>1, <3>2, <3>3 DEF StoreOK, Stored, Docs
      <4>2. FilledDoc(doc[log[i].order], log[i].remaining).remainingSharesEvent
              = log[i].remaining
        BY <4>1 DEF FilledDoc, Order
      <4> QED
        <5>1. /\ s.id = i /\ s.order = log[i].order /\ s.old = doc[log[i].order]
              /\ s.new = FilledDoc(s.old, log[i].remaining)
              /\ s.old.remainingSharesEvent # log[i].remaining
          BY <3>2, <3>3
        <5>2. s.new.remainingSharesEvent # s.old.remainingSharesEvent
          BY <4>2, <5>1
        <5> QED
          BY <2>1, <3>1, <5>1, <5>2 DEF FromEvent, FilledDoc
    <3> QED
      BY <1>1, <1>2, <1>3, <1>4, <2>1, <3>2, <3>3 DEF OneInHand, Handling
  <2>6. CASE HandleOrderCanceled(t)
    <3>1. PICK i \in 1 .. next : todo[t] = {i} /\ log[i].type = "OrderCanceled"
      BY <2>6 DEF HandleOrderCanceled, OneInHand, Handling
    <3>2. /\ \A s \in saves' : s \in saves \/
               s = [id |-> i, order |-> log[i].order, old |-> doc[log[i].order],
                    new |-> [doc[log[i].order] EXCEPT !.orderError = "Closed",
                                                      !.state = "CANCELLED"]]
          /\ \/ tpc'[t] = "saving" /\ todo'[t] = todo[t]
             \/ tpc'[t] = "events"
          /\ next' = next
      BY <2>2, <2>6, <3>1 DEF HandleOrderCanceled, TickShapes
    <3>3. ASSUME NEW s \in saves', s \notin saves PROVE FromEvent(s)'
      <4> DEFINE d == doc[log[i].order]
      <4>1. s = [id |-> i, order |-> log[i].order, old |-> d,
                 new |-> [d EXCEPT !.orderError = "Closed", !.state = "CANCELLED"]]
        BY <3>2, <3>3
      <4> HIDE DEF d
      <4>2. /\ s.id = i /\ s.order = log[i].order /\ s.old = d
            /\ s.new = [d EXCEPT !.orderError = "Closed", !.state = "CANCELLED"]
        BY <4>1
      <4> QED
        BY <2>1, <3>1, <4>2 DEF FromEvent
    <3>4. OneInHand(t)'
      BY <2>1, <3>1, <3>2 DEF OneInHand, Handling
    <3> QED
      BY <1>1, <1>2, <1>3, <1>4, <2>1, <3>2, <3>3, <3>4
  <2>7. CASE CanceledFails(t)
    <3>1. tpc'[t] = "events" /\ next' = next /\ saves' \subseteq saves
      BY <2>2, <2>7 DEF CanceledFails, TickShapes
    <3> QED
      BY <1>1, <1>2, <1>3, <1>4, <2>1, <3>1 DEF OneInHand, Handling
  <2> QED
    BY <1>5, <2>3, <2>4, <2>5, <2>6, <2>7, TickEffects
<1>6. CASE \E s \in saves : SaveLands(s)
  BY <1>1, <1>2, <1>3, <1>4, <1>6 DEF SaveLands, tick
<1>7. CASE Crash
  BY <1>1, <1>7 DEF Crash, OneInHand, Handling
<1>8. CASE UNCHANGED <<next, saves, tpc, todo>>
  BY <1>1, <1>2, <1>3, <1>4, <1>8
<1> QED
  BY <1>5, <1>6, <1>7, <1>8, OtherEffects

\* What a save that lands leaves of an order.
LEMMA LandedDoc ==
  ASSUME EventInv, NEW s \in saves, SaveLands(s)
  PROVE  /\ s.order \in Stored /\ doc[s.order] \in Order
         /\ s.old \in Order /\ s.new \in Order
         /\ doc' = [doc EXCEPT ![s.order] = SaveDelta(doc[s.order], s.old, s.new)]
         /\ \A o \in Orders \ {s.order} : doc'[o] = doc[o]
         /\ \A f \in {"state", "orderError", "remainingShares", "remainingSharesEvent"} :
              doc'[s.order][f] = IF s.new[f] # s.old[f] THEN s.new[f]
                                 ELSE doc[s.order][f]
<1>1. s \in Saves /\ s.order \in Stored /\ doc \in [Orders -> Docs]
  BY DEF EventInv, LifeInv, SavesOK, StoreOK
<1>2. doc[s.order] \in Order /\ s.order \in Orders /\ s.old \in Order /\ s.new \in Order
  BY <1>1 DEF Stored, Docs, Saves
<1>3. DOMAIN doc[s.order]
        = {"state", "orderError", "remainingShares", "remainingSharesEvent"}
  BY <1>2 DEF Order
<1>4. doc' = [doc EXCEPT ![s.order] = SaveDelta(doc[s.order], s.old, s.new)]
  BY DEF SaveLands
<1>5. doc'[s.order] = SaveDelta(doc[s.order], s.old, s.new)
  BY <1>1, <1>2, <1>4
<1>6. \A f \in {"state", "orderError", "remainingShares", "remainingSharesEvent"} :
        doc'[s.order][f] = IF s.new[f] # s.old[f] THEN s.new[f]
                           ELSE doc[s.order][f]
  BY <1>3, <1>5 DEF SaveDelta
<1> QED
  BY <1>1, <1>2, <1>4, <1>6

\* What an event makes of an order opens nothing.
LEMMA FromEventCloses ==
  ASSUME EventInv, NEW s \in saves
  PROVE  /\ s.new.state \in {s.old.state, "FILLED", "CANCELLED"}
         /\ s.new.orderError \in {s.old.orderError, "Closed"}
         /\ s.new.remainingShares <= s.old.remainingShares
         /\ s.new.remainingSharesEvent # s.old.remainingSharesEvent =>
              /\ log[s.id].type = "OrderFilled"
              /\ s.new.remainingSharesEvent = log[s.id].remaining
              /\ s.new.remainingShares <= log[s.id].remaining
              /\ log[s.id].remaining = 0 => s.new.state = "FILLED"
<1>1. FromEvent(s) /\ s.old \in Order /\ s.old.remainingShares \in Int
  BY OrderAssumption DEF EventInv, LifeInv, SavesOK, Saves, Order
<1>2. CASE log[s.id].type = "OrderFilled"
  <2>1. s.new = FilledDoc(s.old, log[s.id].remaining)
    BY <1>1, <1>2 DEF FromEvent
  <2>2. s.id \in 1 .. Len(log) /\ log \in Seq(Events)
    BY Bounds DEF EventInv, LifeInv, SavesOK, ContractOK
  <2>3. log[s.id].remaining \in Int
    <3>1. log[s.id] \in Events
      BY <2>2
    <3> QED
      BY <3>1, OrderAssumption DEF Events
  <2>4. s.new.remainingShares = Lesser(s.old.remainingShares, log[s.id].remaining)
    BY <1>1, <2>1 DEF FilledDoc, Order
  <2>5. /\ s.new.remainingShares <= s.old.remainingShares
        /\ s.new.remainingShares <= log[s.id].remaining
    BY <1>1, <2>3, <2>4 DEF Lesser
  <2>6. /\ s.new.state = IF log[s.id].remaining > 0 THEN s.old.state ELSE "FILLED"
        /\ s.new.orderError = s.old.orderError
        /\ s.new.remainingSharesEvent = log[s.id].remaining
    BY <1>1, <2>1 DEF FilledDoc, Order
  <2> QED
    BY <1>2, <2>5, <2>6
<1>3. CASE log[s.id].type # "OrderFilled"
  <2>1. s.new = [s.old EXCEPT !.orderError = "Closed", !.state = "CANCELLED"]
    BY <1>1, <1>3 DEF FromEvent
  <2> QED
    BY <1>1, <2>1 DEF Order
<1> QED
  BY <1>2, <1>3

\* A step marks no order as written from a stale read, or marks more.
LEMMA RacedGrows ==
  ASSUME [Next]_vars
  PROVE  raced \subseteq raced'
  BY DEF Next, Contract, ChainFill, ChainCancel, ChainTurn, CreateOrder, Tick,
         ReadActiveOrders, CheckActiveOrders, UpdateActiveOrder, ActiveOrdersDone,
         ReadQueue, CheckCreatedOrders, RemoveJobs, RemoveJobsFails, CreateOrders,
         NextEvent, NoMoreEvents, HandleOrderFilled, HandleOrderCanceled,
         CanceledFails, CanceledSaved, TickFails, SaveLands, FillRequest, FillRead,
         FillCheck, FillRejected, FillOrder, FillFails, CancelRequest, CancelRead,
         CancelSave, Crash, RacedWith, history, vars

\* How a step writes a stored order: it raises none, only a save of a filled
\* event changes the event's remaining shares, and the shares listed only grow
\* when they are written from a stale read.
StaysOut(o) == ~ Standing(o) => ~ Standing(o)'

SameRest(o) == doc'[o].remainingSharesEvent = doc[o].remainingSharesEvent

Falls(o) ==
  o \notin raced' => doc'[o].remainingShares <= doc[o].remainingShares

LEMMA DocWritten ==
  ASSUME EventInv, [Next]_vars, NEW o \in Stored
  PROVE  /\ o \in Stored' /\ StaysOut(o) /\ Falls(o)
         /\ SameRest(o) \/ \E s \in saves : SaveLands(s) /\ s.order = o
<1>1. /\ o \in Orders /\ doc[o] \in Order /\ doc \in [Orders -> Docs]
      /\ RequestsOK /\ TicksOK /\ StoreOK
  BY DEF EventInv, LifeInv, StoreOK, Stored, Docs
<1>10. doc[o].remainingShares \in Int
  BY <1>1, OrderAssumption DEF Order
<1>2. CASE doc'[o] = doc[o]
  BY <1>1, <1>2, <1>10 DEF StaysOut, SameRest, Falls, Standing, Stored
<1>3. CASE \E t \in Ticks : UpdateActiveOrder(t)
  <2>1. PICK t \in Ticks : UpdateActiveOrder(t)
    BY <1>3
  <2>2. PICK p \in todo[t] :
          doc' = [doc EXCEPT ![p].orderError = seen[t][p].orderError,
                             ![p].state = seen[t][p].state]
    BY <2>1 DEF UpdateActiveOrder
  <2>3. p \in Orders /\ seen[t][p].orderError # "NoError"
    BY <1>1, <2>1 DEF UpdateActiveOrder, TicksOK, TickOK
  <2>4. CASE p = o
    <3>1. doc'[o] = [doc[o] EXCEPT !.orderError = seen[t][o].orderError,
                                   !.state = seen[t][o].state]
      BY <1>1, <2>2, <2>4
    <3>2. doc'[o].orderError # "NoError" /\ SameRest(o) /\ Falls(o)
      BY <1>1, <1>10, <2>3, <2>4, <3>1 DEF SameRest, Falls, Order
    <3> QED
      BY <1>1, <3>2 DEF StaysOut, Standing, Stored, NoDoc
  <2> QED
    BY <1>1, <1>2, <2>2, <2>3, <2>4
<1>4. CASE \E t \in Ticks : CreateOrders(t)
  <2>1. doc'[o] = doc[o]
    BY <1>1, <1>4 DEF CreateOrders
  <2> QED
    BY <1>2, <2>1
<1>5. CASE \E s \in saves : SaveLands(s)
  <2>1. PICK s \in saves : SaveLands(s)
    BY <1>5
  <2>2. CASE s.order = o
    <3>1. /\ doc'[o].state \in {doc[o].state, "FILLED", "CANCELLED"}
          /\ doc'[o].orderError \in {doc[o].orderError, "Closed"}
          /\ doc'[o] \in Order
      <4>1. /\ doc'[o].state = IF s.new.state # s.old.state THEN s.new.state
                               ELSE doc[o].state
            /\ doc'[o].orderError = IF s.new.orderError # s.old.orderError
                                    THEN s.new.orderError ELSE doc[o].orderError
        BY <2>1, <2>2, LandedDoc
      <4>2. doc'[o] \in Order
        BY <1>1, <2>1, <2>2, LandedDoc, SaveDeltaType
      <4> QED
        BY <4>1, <4>2, FromEventCloses
    <3>2. Falls(o)
      <4> SUFFICES ASSUME o \notin raced'
                   PROVE  doc'[o].remainingShares <= doc[o].remainingShares
        BY DEF Falls
      <4>1. CASE s.new.remainingShares = s.old.remainingShares
        BY <1>10, <2>1, <2>2, <4>1, LandedDoc
      <4>2. CASE s.new.remainingShares # s.old.remainingShares
        <5>1. doc[o].remainingShares = s.old.remainingShares
          BY <2>1, <2>2, <4>2 DEF SaveLands, RacedWith
        <5>2. s.new.remainingShares <= s.old.remainingShares
          BY <2>1, FromEventCloses
        <5> QED
          BY <2>1, <2>2, <4>2, <5>1, <5>2, LandedDoc
      <4> QED
        BY <4>1, <4>2
    <3> QED
      BY <1>1, <2>1, <2>2, <3>1, <3>2, RealIsNotNoDoc DEF StaysOut, Standing, Stored
  <2> QED
    BY <1>1, <1>2, <2>1, <2>2, LandedDoc
<1>6. CASE \E r \in Fills : FillRejected(r)
  <2>1. PICK r \in Fills : FillRejected(r)
    BY <1>6
  <2>2. /\ fill[r].order \in Orders /\ fill[r].result # "NoError"
        /\ doc' = [doc EXCEPT ![fill[r].order].orderError = fill[r].result,
                              ![fill[r].order].state = StateOf(fill[r].old.orderError)]
    BY <1>1, <2>1 DEF FillRejected, RequestsOK
  <2>3. CASE fill[r].order = o
    <3>1. doc'[o] = [doc[o] EXCEPT !.orderError = fill[r].result,
                                   !.state = StateOf(fill[r].old.orderError)]
      BY <1>1, <2>2, <2>3
    <3>2. /\ doc'[o].orderError = fill[r].result
          /\ doc'[o].remainingShares = doc[o].remainingShares
          /\ doc'[o].remainingSharesEvent = doc[o].remainingSharesEvent
      BY <1>1, <3>1 DEF Order
    <3>3. doc'[o].orderError # "NoError" /\ SameRest(o) /\ Falls(o)
      BY <1>10, <2>2, <3>2 DEF SameRest, Falls
    <3> QED
      BY <1>1, <3>3 DEF StaysOut, Standing, Stored, NoDoc
  <2> QED
    BY <1>1, <1>2, <2>2, <2>3
<1>7. CASE \E r \in Fills, n \in 1 .. Shares : FillOrder(r, n)
  <2>1. PICK r \in Fills, n \in 1 .. Shares : FillOrder(r, n)
    BY <1>7
  <2>2. /\ fill[r].order \in Orders
        /\ doc' = [doc EXCEPT ![fill[r].order].remainingShares =
                     FillAmount(fill[r].old.remainingShares, n)]
    BY <1>1, <2>1 DEF FillOrder, RequestsOK
  <2>3. CASE fill[r].order = o
    <3>1. doc'[o] = [doc[o] EXCEPT !.remainingShares =
                       FillAmount(fill[r].old.remainingShares, n)]
      BY <1>1, <2>2, <2>3
    <3>2. /\ doc'[o].state = doc[o].state /\ doc'[o].orderError = doc[o].orderError
          /\ SameRest(o)
      BY <1>1, <3>1 DEF SameRest, Order
    <3>3. doc'[o] # NoDoc
      BY <1>1, <3>2 DEF Order, States, NoDoc
    <3>4. Falls(o)
      <4>1. o \notin raced' => doc[o].remainingShares = fill[r].old.remainingShares
        BY <2>1, <2>3 DEF FillOrder, RacedWith
      <4>2. doc[o].remainingShares \in Nat
        BY <1>1, OrderAssumption DEF Order
      <4>3. FillAmount(doc[o].remainingShares, n) <= doc[o].remainingShares
        BY <4>2 DEF FillAmount
      <4>4. doc'[o].remainingShares = FillAmount(fill[r].old.remainingShares, n)
        BY <1>1, <3>1 DEF Order
      <4> QED
        BY <4>1, <4>3, <4>4 DEF Falls
    <3> QED
      BY <1>1, <3>2, <3>3, <3>4 DEF StaysOut, Standing, Stored
  <2> QED
    BY <1>1, <1>2, <2>2, <2>3
<1>8. CASE \E c \in Cancels : CancelSave(c)
  <2>1. PICK c \in Cancels : CancelSave(c)
    BY <1>8
  <2> DEFINE old == cancel[c].old
             new == [old EXCEPT !.state = "CANCELLED"]
  <2>2. /\ cancel[c].order \in Orders /\ old \in Order /\ new \in Order
        /\ doc' = [doc EXCEPT ![cancel[c].order] =
                     SaveDelta(doc[cancel[c].order], old, new)]
    BY <1>1, <2>1 DEF CancelSave, RequestsOK, Order, States
  <2>3. CASE cancel[c].order = o
    <3>1. doc'[o] = SaveDelta(doc[o], old, new) /\ doc'[o] \in Order
      BY <1>1, <2>2, <2>3, SaveDeltaType
    <3>2. DOMAIN doc[o]
            = {"state", "orderError", "remainingShares", "remainingSharesEvent"}
      BY <1>1 DEF Order
    <3>3. /\ doc'[o].state \in {doc[o].state, "CANCELLED"}
          /\ doc'[o].orderError = doc[o].orderError
          /\ SameRest(o)
          /\ doc'[o].remainingShares = doc[o].remainingShares
      BY <2>2, <3>1, <3>2 DEF SaveDelta, SameRest, Order
    <3>4. Falls(o)
      BY <1>10, <3>3 DEF Falls
    <3> QED
      BY <1>1, <3>1, <3>3, <3>4, RealIsNotNoDoc DEF StaysOut, Standing, Stored
  <2> QED
    BY <1>1, <1>2, <2>2, <2>3
<1>9. CASE UNCHANGED doc
  BY <1>2, <1>9
<1> QED
  BY <1>3, <1>4, <1>5, <1>6, <1>7, <1>8, <1>9
  DEF Next, Contract, ChainFill, ChainCancel, ChainTurn, CreateOrder, Tick,
      ReadActiveOrders, CheckActiveOrders, ActiveOrdersDone, ReadQueue,
      CheckCreatedOrders, RemoveJobs, RemoveJobsFails, NextEvent, NoMoreEvents,
      HandleOrderFilled, HandleOrderCanceled, CanceledFails, CanceledSaved,
      TickFails, FillRequest, FillRead, FillCheck, FillFails, CancelRequest,
      CancelRead, Crash, store, vars

LEMMA EventInit == Init => EventInv
  BY LifeInit DEF Init, EventInv, OneInHand, Handling

LEMMA EventInvariant == Spec => []EventInv
<1>1. EventInv /\ [Next]_vars => EventInv'
  BY EventStep
<1> QED
  BY <1>1, EventInit, PTL DEF Spec

\* No write raises an order that ended or is in error, with any number of ticks,
\* requests and saves whose documents are stale; and an order comes back to the
\* order book only where fills had used it up and what is written of its shares
\* was computed from a stale read.
THEOREM OrdersStayOut == Spec => NeverReopened
<1>1. ASSUME EventInv, [Next]_vars, NEW o \in Orders, o \in Stored
      PROVE  /\ ~ Standing(o) => ~ Standing(o)'
             /\ ~ Open(o) /\ o \notin raced' => ~ Open(o)'
  <2>1. StaysOut(o) /\ Falls(o) /\ EventInv' /\ o \in Stored'
    BY <1>1, DocWritten, EventStep
  <2>2. doc[o].remainingShares \in Nat /\ doc'[o].remainingShares \in Nat
    BY <1>1, <2>1, OrderAssumption DEF EventInv, LifeInv, StoreOK, Stored, Docs, Order
  <2> QED
    BY <2>1, <2>2 DEF StaysOut, Falls, Open
<1>2. EventInv /\ [Next]_vars =>
        [\A o \in Orders : o \in Stored =>
           /\ ~ Standing(o) => ~ Standing(o)'
           /\ ~ Open(o) /\ o \notin raced' => ~ Open(o)']_vars
  BY <1>1
<1> QED
  BY <1>2, EventInvariant, PTL DEF Spec, NeverReopened

\* Saves are started from the document a handler has just read.
LEMMA SavesStarted ==
  ASSUME EventInv, [Next]_vars, NEW s \in saves', s \notin saves
  PROVE  /\ doc' = doc /\ s.order \in Stored /\ s.old = doc[s.order]
         /\ \E t \in Ticks : HandleOrderFilled(t) \/ HandleOrderCanceled(t)
<1>1. PICK t \in Ticks : Tick(t)
  BY OtherEffects DEF EventInv, SaveLands, Crash
<1>2. HandleOrderFilled(t) \/ HandleOrderCanceled(t)
  BY <1>1, TickEffects DEF EventInv, NextEvent, CanceledFails
<1>3. PICK i \in todo[t] :
        s.order = log[i].order /\ s.old = doc[log[i].order] /\ log[i].order \in Stored
  <2>1. CASE HandleOrderFilled(t)
    <3>1. PICK i \in todo[t] :
            saves' = IF /\ log[i].order \in Stored
                        /\ doc[log[i].order].remainingSharesEvent # log[i].remaining
                     THEN saves \cup {[id |-> i, order |-> log[i].order,
                                       old |-> doc[log[i].order],
                                       new |-> FilledDoc(doc[log[i].order],
                                                         log[i].remaining)]}
                     ELSE saves
      BY <2>1 DEF HandleOrderFilled
    <3> QED
      BY <3>1
  <2>2. CASE HandleOrderCanceled(t)
    <3>1. PICK i \in todo[t] :
            /\ log[i].order \in Stored
            /\ saves' = saves \cup
                 {[id |-> i, order |-> log[i].order, old |-> doc[log[i].order],
                   new |-> [doc[log[i].order] EXCEPT !.orderError = "Closed",
                                                     !.state = "CANCELLED"]]}
      BY <2>2 DEF HandleOrderCanceled
    <3> DEFINE n == [doc[log[i].order] EXCEPT !.orderError = "Closed",
                                              !.state = "CANCELLED"]
    <3>2. s = [id |-> i, order |-> log[i].order, old |-> doc[log[i].order], new |-> n]
      BY <3>1
    <3> HIDE DEF n
    <3> QED
      BY <3>1, <3>2
  <2> QED
    BY <1>2, <2>1, <2>2
<1> QED
  BY <1>2, <1>3 DEF HandleOrderFilled, HandleOrderCanceled, store

\* A tick sees what is stored.
LEMMA SeenStored ==
  ASSUME RetiredInv, [Next]_vars, NEW t \in Ticks, NEW o \in Orders,
         seen'[t][o] # NoDoc
  PROVE  o \in Stored
<1>1. TickShapes
  BY DEF RetiredInv, EventInv, LifeInv, TicksOK
<1>2. CASE seen'[t][o] = seen[t][o]
  BY <1>2 DEF RetiredInv
<1>3. ASSUME NEW u \in Ticks, EndTick(u) \/ ActiveOrdersDone(u)
      PROVE  seen'[t][o] \in {seen[t][o], NoDoc}
  BY <1>1, <1>3 DEF EndTick, ActiveOrdersDone, TickShapes
<1>4. ASSUME NEW u \in Ticks, ReadActiveOrders(u)
      PROVE  seen'[t][o] \in {seen[t][o], NoDoc, doc[o]}
  BY <1>1, <1>4 DEF ReadActiveOrders, TickShapes
<1>5. ASSUME NEW u \in Ticks, CheckActiveOrders(u)
      PROVE  o \in Stored
  <2> DEFINE verdict == CheckOrderError(o, seen[u][o].remainingShares)
             checked == IF seen[u][o] = NoDoc \/ verdict = "NoError"
                        THEN seen[u][o]
                        ELSE [seen[u][o] EXCEPT !.orderError = verdict,
                                                !.state = StateOf(verdict)]
  <2>1. CASE u = t
    <3>1. seen'[t][o] = checked
      BY <1>1, <1>5, <2>1 DEF CheckActiveOrders, TickShapes
    <3>2. seen[t][o] # NoDoc
      BY <2>1, <3>1
    <3> QED
      BY <3>2 DEF RetiredInv
  <2>2. CASE u # t
    BY <1>1, <1>2, <1>5, <2>2 DEF CheckActiveOrders, TickShapes
  <2> QED
    BY <2>1, <2>2
<1>6. CASE UNCHANGED seen
  BY <1>2, <1>6
<1>7. CASE Crash
  BY <1>7 DEF Crash
<1>8. ASSUME NEW u \in Ticks, Tick(u) PROVE o \in Stored
  BY <1>2, <1>3, <1>4, <1>5, <1>6, <1>8
  DEF Stored, Tick, UpdateActiveOrder, ReadQueue, CheckCreatedOrders, RemoveJobs,
      RemoveJobsFails, CreateOrders, NextEvent, NoMoreEvents, HandleOrderFilled,
      HandleOrderCanceled, CanceledFails, CanceledSaved, TickFails
<1> QED
  BY <1>6, <1>7, <1>8
  DEF Next, Contract, ChainFill, ChainCancel, ChainTurn, CreateOrder, SaveLands,
      FillRequest, FillRead, FillCheck, FillRejected, FillOrder, FillFails,
      CancelRequest, CancelRead, CancelSave, tick, vars

\* Only CreateOrders adds an order to the collection.
LEMMA NewlyStored ==
  ASSUME RetiredInv, [Next]_vars, NEW o \in Stored', o \notin Stored
  PROVE  /\ doc'[o] = NewOrder
         /\ \E t \in Ticks : /\ CreateOrders(t)
                             /\ \E j \in todo[t] : j.order = o
<1>1. /\ o \in Orders /\ doc[o] = NoDoc /\ doc'[o] # doc[o]
      /\ doc \in [Orders -> Docs] /\ RequestsOK /\ TicksOK
  BY DEF RetiredInv, EventInv, LifeInv, StoreOK, Stored
<1>2. ASSUME NEW t \in Ticks, UpdateActiveOrder(t) PROVE FALSE
  <2>1. PICK p \in todo[t] :
          doc' = [doc EXCEPT ![p].orderError = seen[t][p].orderError,
                             ![p].state = seen[t][p].state]
    BY <1>2 DEF UpdateActiveOrder
  <2>2. p = o /\ seen[t][o].orderError # "NoError"
    BY <1>1, <1>2, <2>1 DEF UpdateActiveOrder, TicksOK, TickOK
  <2> QED
    BY <1>1, <2>2 DEF RetiredInv, Stored, NoDoc
<1>3. ASSUME NEW s \in saves, SaveLands(s) PROVE FALSE
  BY <1>1, <1>3, LandedDoc DEF RetiredInv, Stored
<1>4. ASSUME NEW r \in Fills, FillRejected(r) PROVE FALSE
  BY <1>1, <1>4 DEF FillRejected, RequestsOK, Stored
<1>5. ASSUME NEW r \in Fills, NEW n \in 1 .. Shares, FillOrder(r, n) PROVE FALSE
  BY <1>1, <1>5 DEF FillOrder, RequestsOK, Stored
<1>6. ASSUME NEW c \in Cancels, CancelSave(c) PROVE FALSE
  BY <1>1, <1>6 DEF CancelSave, RequestsOK, Stored
<1>7. PICK t \in Ticks : CreateOrders(t)
  BY <1>1, <1>2, <1>3, <1>4, <1>5, <1>6
  DEF Next, Contract, ChainFill, ChainCancel, ChainTurn, CreateOrder, Tick,
      ReadActiveOrders, CheckActiveOrders, ActiveOrdersDone, ReadQueue,
      CheckCreatedOrders, RemoveJobs, RemoveJobsFails, NextEvent, NoMoreEvents,
      HandleOrderFilled, HandleOrderCanceled, CanceledFails, CanceledSaved,
      TickFails, FillRequest, FillRead, FillCheck, FillFails, CancelRequest,
      CancelRead, Crash, store, vars
<1> QED
  BY <1>1, <1>7 DEF CreateOrders

LEMMA RetiredStep ==
  ASSUME RetiredInv, [Next]_vars
  PROVE  RetiredInv'
<1>1. EventInv /\ EventInv'
  BY EventStep DEF RetiredInv
<1>2. ASSUME NEW o \in Stored', doc'[o].remainingSharesEvent = 0
      PROVE  ~ Standing(o)'
  <2>1. CASE o \notin Stored
    <3>1. doc'[o] = NewOrder
      BY <2>1, NewlyStored
    <3> QED
      BY <1>2, <3>1, OrderAssumption DEF NewOrder
  <2>2. CASE o \in Stored
    <3>1. StaysOut(o) /\ (SameRest(o) \/ \E s \in saves : SaveLands(s) /\ s.order = o)
      BY <1>1, <2>2, DocWritten
    <3>2. CASE SameRest(o)
      BY <1>2, <2>2, <3>1, <3>2 DEF SameRest, StaysOut, RetiredInv
    <3>3. ASSUME NEW s \in saves, SaveLands(s), s.order = o
          PROVE  ~ Standing(o)'
      <4>1. /\ doc'[o].remainingSharesEvent
                 = IF s.new.remainingSharesEvent # s.old.remainingSharesEvent
                   THEN s.new.remainingSharesEvent ELSE doc[o].remainingSharesEvent
            /\ doc'[o].state = IF s.new.state # s.old.state THEN s.new.state
                               ELSE doc[o].state
        BY <1>1, <3>3, LandedDoc
      <4>2. CASE s.new.remainingSharesEvent = s.old.remainingSharesEvent
        BY <1>2, <2>2, <3>1, <4>1, <4>2 DEF RetiredInv, StaysOut
      <4>3. CASE s.new.remainingSharesEvent # s.old.remainingSharesEvent
        <5>1. s.new.state = "FILLED"
          BY <1>1, <1>2, <4>1, <4>3, FromEventCloses
        <5>2. CASE s.old.state # "FILLED"
          BY <4>1, <5>1, <5>2 DEF Standing
        <5>3. CASE s.old.state = "FILLED"
          BY <3>1, <3>3, <5>3 DEF RetiredInv, OpenDoc, StaysOut
        <5> QED
          BY <5>2, <5>3
      <4> QED
        BY <4>2, <4>3
    <3> QED
      BY <3>1, <3>2, <3>3
  <2> QED
    BY <2>1, <2>2
<1>3. ASSUME NEW s \in saves', ~ OpenDoc(s.old) PROVE ~ Standing(s.order)'
  <2>1. CASE s \in saves
    BY <1>1, <1>3, <2>1, DocWritten
    DEF RetiredInv, StaysOut, EventInv, LifeInv, SavesOK
  <2>2. CASE s \notin saves
    BY <1>1, <1>3, <2>2, SavesStarted DEF Standing, OpenDoc
  <2> QED
    BY <2>1, <2>2
<1>4. ASSUME NEW t \in Ticks, NEW o \in Orders, seen'[t][o] # NoDoc
      PROVE  o \in Stored'
  BY <1>1, <1>4, SeenStored, DocWritten
<1> QED
  BY <1>1, <1>2, <1>3, <1>4 DEF RetiredInv

LEMMA RetiredInit == Init => RetiredInv
  BY EventInit DEF Init, RetiredInv, Stored

-----------------------------------------------------------------------------
(* The shares that are listed.                                             *)
(*                                                                         *)
(* An event's save that leaves remainingShares alone may follow fills that *)
(* lowered it, never one that raised it: what its document had is still an *)
(* upper bound, unless a stale read was written meanwhile.                 *)

ListedInv ==
  /\ RetiredInv
  /\ ListedWithinEvents
  /\ \A s \in saves : s.order \notin raced =>
       doc[s.order].remainingShares <= s.old.remainingShares

LEMMA ListedStep ==
  ASSUME ListedInv, [Next]_vars
  PROVE  ListedInv'
<1>1. RetiredInv /\ RetiredInv' /\ EventInv /\ EventInv' /\ raced \subseteq raced'
  BY RetiredStep, RacedGrows DEF ListedInv, RetiredInv
<1>2. ASSUME NEW o \in Stored
      PROVE  doc[o].remainingShares \in Int /\ doc[o].remainingSharesEvent \in Int
  BY <1>1, OrderAssumption DEF EventInv, LifeInv, StoreOK, Stored, Docs, Order
<1>3. ASSUME NEW o \in Stored'
      PROVE  doc'[o].remainingShares \in Int /\ doc'[o].remainingSharesEvent \in Int
  BY <1>1, OrderAssumption DEF EventInv, LifeInv, StoreOK, Stored, Docs, Order
<1>4. ASSUME NEW o \in Stored', o \notin raced'
      PROVE  doc'[o].remainingShares <= doc'[o].remainingSharesEvent
  <2>1. CASE o \notin Stored
    <3>1. doc'[o] = NewOrder
      BY <1>1, <2>1, NewlyStored
    <3> QED
      BY <3>1, OrderAssumption DEF NewOrder
  <2>2. CASE o \in Stored
    <3>1. /\ Falls(o) /\ doc[o].remainingShares <= doc[o].remainingSharesEvent
          /\ SameRest(o) \/ \E s \in saves : SaveLands(s) /\ s.order = o
      BY <1>1, <1>4, <2>2, DocWritten DEF ListedInv, ListedWithinEvents
    <3>2. CASE SameRest(o)
      BY <1>2, <1>3, <1>4, <2>2, <3>1, <3>2 DEF Falls, SameRest
    <3>3. ASSUME NEW s \in saves, SaveLands(s), s.order = o, ~ SameRest(o)
          PROVE  doc'[o].remainingShares <= doc'[o].remainingSharesEvent
      <4>1. /\ s.new.remainingSharesEvent # s.old.remainingSharesEvent
            /\ doc'[o].remainingSharesEvent = s.new.remainingSharesEvent
            /\ doc'[o].remainingShares =
                 IF s.new.remainingShares # s.old.remainingShares
                 THEN s.new.remainingShares ELSE doc[o].remainingShares
            /\ s.old \in Order /\ s.new \in Order
        BY <1>1, <3>3, LandedDoc DEF SameRest
      <4>2. /\ s.new.remainingSharesEvent = log[s.id].remaining
            /\ s.new.remainingShares <= log[s.id].remaining
        BY <1>1, <4>1, FromEventCloses
      <4>3. doc[o].remainingShares <= s.old.remainingShares
        BY <1>1, <1>4, <3>3 DEF ListedInv
      <4>4. s.old.remainingShares \in Int /\ s.new.remainingShares \in Int
              /\ s.new.remainingSharesEvent \in Int
        BY <4>1, OrderAssumption DEF Order
      <4> QED
        BY <1>2, <2>2, <4>1, <4>2, <4>3, <4>4
    <3> QED
      BY <3>1, <3>2, <3>3
  <2> QED
    BY <2>1, <2>2
<1>5. ASSUME NEW s \in saves', s.order \notin raced'
      PROVE  doc'[s.order].remainingShares <= s.old.remainingShares
  <2>1. CASE s \in saves
    <3>1. s.order \in Stored /\ s.old \in Order
      BY <1>1, <2>1 DEF EventInv, LifeInv, SavesOK, Saves
    <3>2. doc'[s.order].remainingShares <= doc[s.order].remainingShares
            /\ s.order \in Stored'
      BY <1>1, <1>5, <3>1, DocWritten DEF Falls
    <3>3. doc[s.order].remainingShares <= s.old.remainingShares
      BY <1>1, <1>5, <2>1 DEF ListedInv
    <3>4. s.old.remainingShares \in Int
      BY <3>1, OrderAssumption DEF Order
    <3> QED
      BY <1>2, <1>3, <3>1, <3>2, <3>3, <3>4
  <2>2. CASE s \notin saves
    BY <1>1, <1>2, <2>2, SavesStarted
  <2> QED
    BY <2>1, <2>2
<1> QED
  BY <1>1, <1>4, <1>5 DEF ListedInv, ListedWithinEvents

\* Whatever fills, late saves, cancels and ticks overlap, an order is listed with
\* no more shares than its handled events left, unless a value computed from a
\* stale read was written over it.
THEOREM FillsOnlyHide == Spec => []ListedWithinEvents
<1>1. Init => ListedInv
  BY RetiredInit DEF Init, ListedInv, ListedWithinEvents, Stored
<1>2. ListedInv /\ [Next]_vars => ListedInv'
  BY ListedStep
<1>3. ListedInv => ListedWithinEvents
  BY DEF ListedInv
<1> QED
  BY <1>1, <1>2, <1>3, PTL DEF Spec

-----------------------------------------------------------------------------
(* One tick at a time. *)

OneTick == \A t, u \in Ticks : t = u

Dead(o) == left[o] = 0 \/ o \in closed

\* The event that ends the order.
Final(i, o) ==
  log[i].order = o /\ (log[i].type = "OrderCanceled" \/ log[i].remaining = 0)

Ahead(o) == \E i \in next + 1 .. Len(log) : Final(i, o)

InHand(o) ==
  \E t \in Ticks : /\ tpc[t] \in {"OrderFilled", "OrderCanceled"}
                   /\ \E i \in todo[t] : Final(i, o)

Landing(o) ==
  \E s \in saves : s.order = o /\ s.old.state = "ACTIVE" /\ s.new.state # "ACTIVE"

\* The end of an open order is on its way to the collection ...
EndUnderWay ==
  \A o \in Stored :
    Dead(o) /\ Standing(o) /\ o \notin lost => Ahead(o) \/ InHand(o) \/ Landing(o)

\* ... and of one about to be created it is still to come.
EndToCome ==
  \A t \in Ticks : tpc[t] \in {"remove", "create"} =>
    \A j \in todo[t] : Dead(j.order) => Ahead(j.order)

DeadInv == RetiredInv /\ EndUnderWay /\ EndToCome

\* What is lost stays lost.
LEMMA LostGrows ==
  ASSUME LifeInv, [Next]_vars
  PROVE  lost \subseteq lost'
<1>1. CASE Crash
  BY <1>1 DEF Crash
<1>2. ASSUME NEW t \in Ticks, Tick(t) PROVE lost \subseteq lost'
  BY <1>2
  DEF Tick, ReadActiveOrders, CheckActiveOrders, UpdateActiveOrder,
      ActiveOrdersDone, ReadQueue, CheckCreatedOrders, RemoveJobs,
      RemoveJobsFails, CreateOrders, NextEvent, NoMoreEvents, HandleOrderFilled,
      HandleOrderCanceled, CanceledFails, CanceledSaved, TickFails, history
<1> QED
  BY <1>1, <1>2, OtherEffects DEF SaveLands, history

\* A tick is about to create orders only after it checked them.
LEMMA CheckedFirst ==
  ASSUME LifeInv, [Next]_vars, NEW t \in Ticks, tpc'[t] \in {"remove", "create"}
  PROVE  \/ CheckCreatedOrders(t)
         \/ tpc[t] \in {"remove", "create"} /\ todo'[t] = todo[t]
<1>1. TickShapes /\ log \in Seq(Events)
  BY DEF LifeInv, TicksOK, ContractOK
<1>2. ASSUME NEW u \in Ticks, Tick(u), u # t
      PROVE  tpc[t] = tpc'[t] /\ todo'[t] = todo[t]
  BY <1>2, TickEffects
<1>3. ASSUME EndTick(t) PROVE FALSE
  BY <1>1, <1>3 DEF EndTick, TickShapes
<1>4. ASSUME NextEvent(t) PROVE FALSE
  <2>1. log[next + 1] \in Events /\ tpc'[t] = log[next + 1].type
    BY <1>1, <1>4, Bounds DEF NextEvent, LifeInv, TicksOK, TickOK, TickShapes
  <2> QED
    BY <2>1 DEF Events
<1>5. CASE Tick(t)
  BY <1>1, <1>3, <1>4, <1>5
  DEF Tick, ReadActiveOrders, CheckActiveOrders, UpdateActiveOrder,
      ActiveOrdersDone, ReadQueue, RemoveJobs,
      RemoveJobsFails, CreateOrders, NoMoreEvents, HandleOrderFilled,
      HandleOrderCanceled, CanceledFails, CanceledSaved, TickFails, TickShapes
<1>6. CASE Crash
  BY <1>6 DEF Crash
<1> QED
  BY <1>2, <1>5, <1>6, OtherEffects DEF SaveLands, tick

\* While a tick creates orders no event is taken.
LEMMA NextWaits ==
  ASSUME OneTick, LifeInv, [Next]_vars, NEW t \in Ticks,
         tpc[t] \in {"remove", "create"}
  PROVE  next' = next
<1>1. ASSUME NEW u \in Ticks, Tick(u) PROVE next' = next
  <2>1. u = t
    BY DEF OneTick
  <2> QED
    BY <1>1, <2>1, TickEffects
    DEF NextEvent, HandleOrderFilled, HandleOrderCanceled, CanceledFails
<1> QED
  BY <1>1, OtherEffects DEF SaveLands, Crash

\* Only the contract moves shares and writes the log.
LEMMA ContractMoves ==
  ASSUME LifeInv, [Next]_vars
  PROVE  \/ UNCHANGED <<left, closed, log>>
         \/ \E o \in Orders :
              (\E n \in 1 .. Shares : ChainFill(o, n)) \/ ChainCancel(o)
<1>1. ASSUME NEW t \in Ticks, Tick(t) PROVE UNCHANGED <<left, closed, log>>
  BY <1>1
  DEF Tick, ReadActiveOrders, CheckActiveOrders, UpdateActiveOrder,
      ActiveOrdersDone, ReadQueue, CheckCreatedOrders, RemoveJobs,
      RemoveJobsFails, CreateOrders, NextEvent, NoMoreEvents, HandleOrderFilled,
      HandleOrderCanceled, CanceledFails, CanceledSaved, TickFails, contract
<1> QED
  BY <1>1
  DEF Next, Contract, ChainTurn, CreateOrder, SaveLands, FillRequest, FillRead,
      FillCheck, FillRejected, FillOrder, FillFails, CancelRequest, CancelRead,
      CancelSave, Crash, contract, vars

\* The end of an order is in the log.
LEMMA EndLogged ==
  ASSUME LifeInv, [Next]_vars, NEW o \in Orders, Dead(o)', ~ Dead(o)
  PROVE  Ahead(o)'
<1>1. log \in Seq(Events) /\ next \in Nat /\ next <= Len(log)
  BY Bounds DEF LifeInv, ContractOK
<1>2. PICK p \in Orders :
        (\E n \in 1 .. Shares : ChainFill(p, n)) \/ ChainCancel(p)
  BY ContractMoves DEF Dead
<1>3. CASE \E n \in 1 .. Shares : ChainFill(p, n)
  <2>1. PICK n \in 1 .. Shares : ChainFill(p, n)
    BY <1>3
  <2> DEFINE e == [type |-> "OrderFilled", order |-> p, remaining |-> left[p] - n]
  <2>2. log' = Append(log, e) /\ next' = next
    BY <2>1 DEF ChainFill
  <2>3. p = o /\ left[p] - n = 0
    BY <2>1 DEF ChainFill, Dead, LifeInv, ContractOK
  <2>4. e.order = o /\ e.remaining = 0
    BY <2>3
  <2> HIDE DEF e
  <2>5. Len(log') = Len(log) + 1 /\ log'[Len(log) + 1] = e /\ Len(log) \in Nat
    BY <1>1, <2>2
  <2> QED
    BY <1>1, <2>2, <2>4, <2>5 DEF Ahead, Final
<1>4. CASE ChainCancel(p)
  <2> DEFINE e == [type |-> "OrderCanceled", order |-> p, remaining |-> 0]
  <2>1. log' = Append(log, e) /\ next' = next
    BY <1>4 DEF ChainCancel
  <2>2. p = o
    BY <1>4 DEF ChainCancel, Dead
  <2>3. e.order = o /\ e.type = "OrderCanceled"
    BY <2>2
  <2> HIDE DEF e
  <2>4. Len(log') = Len(log) + 1 /\ log'[Len(log) + 1] = e /\ Len(log) \in Nat
    BY <1>1, <2>1
  <2> QED
    BY <1>1, <2>1, <2>3, <2>4 DEF Ahead, Final
<1> QED
  BY <1>2, <1>3, <1>4

\* The end of an order stays ahead until a tick takes it.
LEMMA AheadStays ==
  ASSUME LifeInv, [Next]_vars, NEW o \in Orders, Ahead(o)
  PROVE  Ahead(o)' \/ InHand(o)'
<1>1. PICK i \in next + 1 .. Len(log) : Final(i, o)
  BY DEF Ahead
<1>2. /\ Final(i, o)' /\ i \in 1 .. Len(log') /\ next \in Nat /\ i \in Nat
      /\ log[i] \in Events
  BY <1>1, Bounds, LogGrows DEF Final
<1>3. CASE next' = next
  BY <1>1, <1>2, <1>3 DEF Ahead
<1>4. ASSUME NEW t \in Ticks, NextEvent(t) PROVE Ahead(o)' \/ InHand(o)'
  <2>1. TickShapes
    BY DEF LifeInv, TicksOK
  <2>2. next' = next + 1 /\ tpc'[t] = log[next + 1].type /\ todo'[t] = {next + 1}
    BY <1>4, <2>1 DEF NextEvent, TickShapes
  <2>3. CASE i = next + 1
    BY <1>2, <2>2, <2>3 DEF InHand, Events
  <2>4. CASE i # next + 1
    BY <1>1, <1>2, <2>2, <2>4 DEF Ahead
  <2> QED
    BY <2>3, <2>4
<1>5. ASSUME NEW t \in Ticks, Tick(t) PROVE Ahead(o)' \/ InHand(o)'
  BY <1>3, <1>4, <1>5, TickEffects
  DEF HandleOrderFilled, HandleOrderCanceled, CanceledFails
<1> QED
  BY <1>3, <1>5, OtherEffects DEF SaveLands, Crash

\* The end that a tick has in hand of an open order is saved, or lost.
LEMMA InHandStays ==
  ASSUME RetiredInv, [Next]_vars, NEW o \in Stored, Standing(o), InHand(o)
  PROVE  InHand(o)' \/ Landing(o)' \/ o \in lost'
<1> USE DEF RetiredInv, EventInv
<1>0. PICK t \in Ticks : /\ tpc[t] \in {"OrderFilled", "OrderCanceled"}
                         /\ \E i \in todo[t] : Final(i, o)
  BY DEF InHand
<1>1. PICK i \in todo[t] : /\ tpc[t] \in {"OrderFilled", "OrderCanceled"}
                          /\ Final(i, o)
  BY <1>0
<1>2. /\ todo[t] = {i} /\ log[i].order = o /\ i \in 1 .. Len(log)
      /\ log[i].type = tpc[t]
  BY <1>1, Bounds DEF OneInHand, Handling, Final
<1>3. Final(i, o)'
  BY <1>1, <1>2, LogGrows DEF Final
<1>4. CASE tpc'[t] = tpc[t] /\ todo'[t] = todo[t]
  BY <1>1, <1>3, <1>4 DEF InHand
<1>5. doc[o].state = "ACTIVE" /\ doc[o].remainingSharesEvent # 0
  BY DEF Standing
<1>6. CASE HandleOrderFilled(t)
  <2>1. log[i].remaining = 0 /\ tpc[t] = "OrderFilled"
    BY <1>1, <1>2, <1>6 DEF HandleOrderFilled, Final
  <2> DEFINE s == [id |-> i, order |-> o, old |-> doc[o], new |-> FilledDoc(doc[o], 0)]
  <2>2. s \in saves'
    BY <1>2, <1>5, <1>6, <2>1 DEF HandleOrderFilled
  <2>3. doc[o] \in Order
    BY DEF LifeInv, StoreOK, Stored, Docs
  <2>4. s.order = o /\ s.old.state = "ACTIVE" /\ s.new.state = "FILLED"
    <3>1. FilledDoc(doc[o], 0).state = "FILLED"
      BY <2>3 DEF FilledDoc, Order
    <3> QED
      BY <1>5, <3>1
  <2> HIDE DEF s
  <2> QED
    BY <2>2, <2>4 DEF Landing
<1>7. CASE HandleOrderCanceled(t)
  <2> DEFINE s == [id |-> i, order |-> o, old |-> doc[o],
                   new |-> [doc[o] EXCEPT !.orderError = "Closed",
                                          !.state = "CANCELLED"]]
  <2>1. s \in saves'
    BY <1>2, <1>7 DEF HandleOrderCanceled
  <2>2. doc[o] \in Order
    BY DEF LifeInv, StoreOK, Stored, Docs
  <2>3. s.order = o /\ s.old.state = "ACTIVE" /\ s.new.state = "CANCELLED"
    BY <1>5, <2>2 DEF Order
  <2> HIDE DEF s
  <2> QED
    BY <2>1, <2>3 DEF Landing
<1>8. CASE CanceledFails(t)
  BY <1>2, <1>8 DEF CanceledFails
<1>9. CASE TickFails(t)
  BY <1>1, <1>2, <1>9 DEF TickFails
<1>10. CASE Crash
  BY <1>1, <1>2, <1>10 DEF Crash
<1>11. CASE Tick(t)
  BY <1>1, <1>6, <1>7, <1>8, <1>9, <1>11
  DEF Tick, ReadActiveOrders, CheckActiveOrders, UpdateActiveOrder,
      ActiveOrdersDone, ReadQueue, CheckCreatedOrders, RemoveJobs,
      RemoveJobsFails, CreateOrders, NextEvent, NoMoreEvents, CanceledSaved
<1>12. ASSUME NEW u \in Ticks, Tick(u), u # t
       PROVE  tpc'[t] = tpc[t] /\ todo'[t] = todo[t]
  BY <1>12, TickEffects
<1> QED
  BY <1>4, <1>10, <1>11, <1>12, OtherEffects DEF SaveLands, tick

\* A save that ends an open order lands, or is lost.
LEMMA LandingStays ==
  ASSUME RetiredInv, [Next]_vars, NEW o \in Stored, Landing(o)
  PROVE  Landing(o)' \/ ~ Standing(o)' \/ o \in lost'
<1> USE DEF RetiredInv, EventInv
<1>1. PICK s \in saves : /\ s.order = o
                         /\ s.old.state = "ACTIVE" /\ s.new.state # "ACTIVE"
  BY DEF Landing
<1>2. CASE s \in saves'
  BY <1>1, <1>2 DEF Landing
<1>3. CASE SaveLands(s)
  <2>1. doc'[o].state = s.new.state
    BY <1>1, <1>3, LandedDoc
  <2> QED
    BY <1>1, <2>1 DEF Standing
<1>4. ASSUME NEW t \in Ticks, CanceledFails(t), s \notin saves'
      PROVE  o \in lost'
  <2>1. s.id \in todo[t] /\ log[s.id].order = o
    BY <1>1, <1>4 DEF CanceledFails, FromEvent
  <2> QED
    BY <1>4, <2>1 DEF CanceledFails
<1>5. CASE Crash
  BY <1>1, <1>5 DEF Crash
<1>6. ASSUME NEW t \in Ticks, Tick(t), s \notin saves' PROVE o \in lost'
  BY <1>4, <1>6, TickEffects DEF NextEvent, HandleOrderFilled, HandleOrderCanceled
<1> QED
  BY <1>2, <1>3, <1>5, <1>6, OtherEffects DEF SaveLands

LEMMA DeadStep ==
  ASSUME OneTick, DeadInv, [Next]_vars
  PROVE  DeadInv'
<1>1. /\ RetiredInv /\ RetiredInv' /\ EventInv /\ LifeInv
  BY RetiredStep DEF DeadInv, RetiredInv, EventInv
<1>2. EndUnderWay'
  <2> SUFFICES ASSUME NEW o \in Stored', Dead(o)', Standing(o)', o \notin lost'
               PROVE  Ahead(o)' \/ InHand(o)' \/ Landing(o)'
    BY DEF EndUnderWay
  <2>1. o \in Orders /\ o \notin lost
    BY <1>1, LostGrows DEF Stored
  <2>2. CASE ~ Dead(o)
    BY <1>1, <2>1, <2>2, EndLogged
  <2>3. CASE Dead(o) /\ o \notin Stored
    <3>1. \E t \in Ticks : CreateOrders(t) /\ \E j \in todo[t] : j.order = o
      BY <1>1, <2>3, NewlyStored
    <3>2. Ahead(o)
      BY <2>3, <3>1 DEF CreateOrders, DeadInv, EndToCome
    <3> QED
      BY <1>1, <2>1, <3>2, AheadStays
  <2>4. CASE Dead(o) /\ o \in Stored
    <3>1. Standing(o)
      BY <1>1, <2>4, DocWritten DEF StaysOut
    <3>2. Ahead(o) \/ InHand(o) \/ Landing(o)
      BY <2>1, <2>4, <3>1 DEF DeadInv, EndUnderWay
    <3> QED
      BY <1>1, <2>1, <2>4, <3>1, <3>2, AheadStays, InHandStays, LandingStays
  <2> QED
    BY <2>2, <2>3, <2>4
<1>3. EndToCome'
  <2> SUFFICES ASSUME NEW t \in Ticks, tpc'[t] \in {"remove", "create"},
                      NEW j \in todo'[t], Dead(j.order)'
               PROVE  Ahead(j.order)'
    BY DEF EndToCome
  <2>1. j.order \in Orders
    BY <1>1 DEF RetiredInv, EventInv, LifeInv, TicksOK, TickOK, TickShapes, Jobs
  <2>2. CASE ~ Dead(j.order)
    BY <1>1, <2>1, <2>2, EndLogged
  <2>3. CASE CheckCreatedOrders(t)
    <3>1. CheckOrderError(j.order, Shares) = "NoError"
      BY <1>1, <2>3 DEF CheckCreatedOrders, LifeInv, TicksOK, TickShapes
    <3> QED
      BY <2>2, <3>1 DEF CheckOrderError, Dead
  <2>4. CASE /\ tpc[t] \in {"remove", "create"} /\ todo'[t] = todo[t]
             /\ Dead(j.order)
    <3>1. PICK i \in next + 1 .. Len(log) : Final(i, j.order)
      BY <2>4 DEF DeadInv, EndToCome, Ahead
    <3>2. next' = next /\ Final(i, j.order)' /\ i \in 1 .. Len(log')
      BY <1>1, <2>4, <3>1, NextWaits, LogGrows, Bounds DEF Final
    <3> QED
      BY <1>1, <3>1, <3>2, Bounds DEF Ahead
  <2> QED
    BY <1>1, <2>2, <2>3, <2>4, CheckedFirst
<1> QED
  BY <1>1, <1>2, <1>3 DEF DeadInv

\* While ticks do not overlap, an order that was filled or cancelled on the
\* contract is out of the order book as soon as its events are handled: also
\* when it was filled while the cron job was creating it, and although saves
\* are not awaited and requests write stale documents.
THEOREM DeadOrdersAreRetired ==
  ASSUME OneTick
  PROVE  Spec => []DeadOrdersRetired
<1>1. Init => DeadInv
  BY RetiredInit DEF Init, DeadInv, EndUnderWay, EndToCome, Stored
<1>2. DeadInv /\ [Next]_vars => DeadInv'
  BY DeadStep
<1>3. DeadInv => DeadOrdersRetired
  <2> SUFFICES ASSUME DeadInv, NEW o \in Stored, Quiet(o), Dead(o), Standing(o)
               PROVE  FALSE
    BY DEF DeadOrdersRetired, Dead
  <2>1. Ahead(o) \/ InHand(o) \/ Landing(o)
    BY DEF DeadInv, EndUnderWay, Quiet
  <2> QED
    BY <2>1 DEF Quiet, Ahead, InHand, Landing, Final
<1> QED
  BY <1>1, <1>2, <1>3, PTL DEF Spec

-----------------------------------------------------------------------------
(* One tick whose saves are prompt. *)

Filling(i, o) == log[i].type = "OrderFilled" /\ log[i].order = o

FillAhead(o) == \E i \in next + 1 .. Len(log) : Filling(i, o)

FillInHand(o) ==
  \E t \in Ticks : tpc[t] = "OrderFilled" /\ \E i \in todo[t] : Filling(i, o)

FillLanding(o) == \E s \in saves : s.order = o /\ log[s.id].type = "OrderFilled"

\* The last fill in the log says what is left.
LastFill ==
  \A i \in 1 .. Len(log) :
    \/ log[i].type # "OrderFilled"
    \/ \E k \in i + 1 .. Len(log) : Filling(k, log[i].order)
    \/ log[i].remaining = left[log[i].order]

\* One save at a time, none while a handler runs, and the event in hand is the
\* last one taken.
SavesPrompt ==
  /\ \A s, r \in saves : s = r
  /\ \A t \in Ticks : tpc[t] \in Handling => todo[t] = {next}
  /\ \A t \in Ticks : tpc[t] \in {"OrderFilled", "OrderCanceled"} => saves = {}

FillsArrive ==
  \A o \in Stored : o \notin lost /\ ~ FillAhead(o) /\ ~ FillInHand(o) =>
    IF FillLanding(o)
    THEN \A s \in saves : s.new.remainingSharesEvent = left[o]
    ELSE doc[o].remainingSharesEvent = left[o]

FillsToCome ==
  \A t \in Ticks : tpc[t] \in {"remove", "create"} =>
    \A j \in todo[t] : FillAhead(j.order) \/ left[j.order] = Shares

RemainingInv == RetiredInv /\ LastFill /\ SavesPrompt /\ FillsArrive /\ FillsToCome

LEMMA PromptStep ==
  ASSUME OneTick, PromptSaves, LifeInv, SavesPrompt, [Next]_vars
  PROVE  SavesPrompt'
<1> USE DEF SavesPrompt, Handling
<1>1. ASSUME NEW t \in Ticks, Tick(t) PROVE SavesPrompt'
  <2>1. \A u \in Ticks : u = t
    BY DEF OneTick
  <2>2. TickShapes
    BY DEF LifeInv, TicksOK
  <2>3. CASE NextEvent(t)
    BY <2>1, <2>2, <2>3 DEF NextEvent, TickShapes
  <2>4. CASE HandleOrderFilled(t)
    <3>1. tpc'[t] = "events" /\ saves = {} /\ \A s, r \in saves' : s = r
      BY <2>2, <2>4 DEF HandleOrderFilled, TickShapes
    <3> QED
      BY <2>1, <3>1
  <2>5. CASE HandleOrderCanceled(t)
    <3>1. /\ tpc'[t] = "events" \/ (tpc'[t] = "saving" /\ todo'[t] = todo[t])
          /\ next' = next /\ \A s, r \in saves' : s = r
      <4>1. PICK i \in todo[t] :
              IF log[i].order \in Stored
              THEN /\ \E s : saves' = saves \cup {s}
                   /\ tpc' = [tpc EXCEPT ![t] = "saving"]
                   /\ UNCHANGED todo
              ELSE tpc' = [tpc EXCEPT ![t] = "events"] /\ UNCHANGED saves
        BY <2>5 DEF HandleOrderCanceled
      <4>2. saves = {} /\ next' = next
        BY <2>5 DEF HandleOrderCanceled
      <4> QED
        BY <2>2, <4>1, <4>2 DEF TickShapes
    <3>2. todo[t] = {next}
      BY <2>5 DEF HandleOrderCanceled
    <3> QED
      BY <2>1, <3>1, <3>2
  <2>6. CASE CanceledFails(t)
    <3>1. tpc'[t] = "events" /\ saves' \subseteq saves
      BY <2>2, <2>6 DEF CanceledFails, TickShapes
    <3> QED
      BY <2>1, <3>1
  <2> QED
    BY <1>1, <2>1, <2>3, <2>4, <2>5, <2>6, TickEffects
<1> QED
  BY <1>1, OtherEffects DEF SaveLands, Crash, tick

LEMMA LastFillStep ==
  ASSUME LifeInv, LastFill, [Next]_vars
  PROVE  LastFill'
<1>1. log \in Seq(Events) /\ left \in [Orders -> 0 .. Shares]
  BY DEF LifeInv, ContractOK
<1>2. CASE UNCHANGED <<left, closed, log>>
  BY <1>2 DEF LastFill, Filling
<1>3. ASSUME NEW o \in Orders, NEW n \in 1 .. Shares, ChainFill(o, n)
      PROVE  LastFill'
  <2> DEFINE e == [type |-> "OrderFilled", order |-> o, remaining |-> left[o] - n]
  <2>1. log' = Append(log, e) /\ left' = [left EXCEPT ![o] = left[o] - n]
    BY <1>3 DEF ChainFill
  <2>2. e.type = "OrderFilled" /\ e.order = o /\ e.remaining = left'[o]
    BY <1>1, <2>1
  <2> HIDE DEF e
  <2>3. /\ Len(log) \in Nat /\ Len(log') = Len(log) + 1 /\ log'[Len(log) + 1] = e
        /\ \A i \in 1 .. Len(log) : log'[i] = log[i]
    BY <1>1, <2>1
  <2>4. ASSUME NEW i \in 1 .. Len(log'), log'[i].type = "OrderFilled",
               \A k \in i + 1 .. Len(log') :
                 log'[k].type # "OrderFilled" \/ log'[k].order # log'[i].order
        PROVE  log'[i].remaining = left'[log'[i].order]
    <3>1. CASE i = Len(log) + 1
      BY <2>2, <2>3, <3>1
    <3>2. CASE i # Len(log) + 1
      <4>1. i \in 1 .. Len(log) /\ log'[i] = log[i]
        BY <2>3, <3>2
      <4>2. log'[Len(log) + 1].type # "OrderFilled"
              \/ log'[Len(log) + 1].order # log'[i].order
        BY <2>3, <2>4, <4>1
      <4>3. log[i].order # o
        BY <2>2, <2>3, <4>1, <4>2
      <4>4. \A k \in i + 1 .. Len(log) :
              log[k].type # "OrderFilled" \/ log[k].order # log[i].order
        BY <2>3, <2>4, <4>1
      <4>5. log[i].order \in Orders
        BY <4>1, LogGrows DEF Events
      <4>6. log[i].remaining = left[log[i].order]
        BY <2>4, <4>1, <4>4 DEF LastFill, Filling
      <4> QED
        BY <1>1, <2>1, <4>1, <4>3, <4>5, <4>6
    <3> QED
      BY <3>1, <3>2
  <2> QED
    BY <2>4 DEF LastFill, Filling
<1>4. ASSUME NEW o \in Orders, ChainCancel(o)
      PROVE  LastFill'
  <2> DEFINE e == [type |-> "OrderCanceled", order |-> o, remaining |-> 0]
  <2>1. log' = Append(log, e) /\ left' = left
    BY <1>4 DEF ChainCancel
  <2>2. e.type = "OrderCanceled"
    OBVIOUS
  <2> HIDE DEF e
  <2>3. /\ Len(log) \in Nat /\ Len(log') = Len(log) + 1 /\ log'[Len(log) + 1] = e
        /\ \A i \in 1 .. Len(log) : log'[i] = log[i]
    BY <1>1, <2>1
  <2>4. ASSUME NEW i \in 1 .. Len(log'), log'[i].type = "OrderFilled",
               \A k \in i + 1 .. Len(log') :
                 log'[k].type # "OrderFilled" \/ log'[k].order # log'[i].order
        PROVE  log'[i].remaining = left'[log'[i].order]
    <3>1. i \in 1 .. Len(log) /\ log'[i] = log[i]
      BY <2>2, <2>3, <2>4
    <3>2. \A k \in i + 1 .. Len(log) :
            log[k].type # "OrderFilled" \/ log[k].order # log[i].order
      BY <2>3, <2>4, <3>1
    <3> QED
      BY <2>1, <2>4, <3>1, <3>2 DEF LastFill, Filling
  <2> QED
    BY <2>4 DEF LastFill, Filling
<1> QED
  BY <1>2, <1>3, <1>4, ContractMoves

\* A fill stays ahead until a tick takes it ...
LEMMA FillAheadStays ==
  ASSUME LifeInv, [Next]_vars, NEW o \in Orders, FillAhead(o)
  PROVE  FillAhead(o)' \/ FillInHand(o)'
<1>1. PICK i \in next + 1 .. Len(log) : Filling(i, o)
  BY DEF FillAhead
<1>2. /\ Filling(i, o)' /\ i \in 1 .. Len(log') /\ next \in Nat /\ i \in Nat
  BY <1>1, Bounds, LogGrows DEF Filling
<1>3. CASE next' = next
  BY <1>1, <1>2, <1>3 DEF FillAhead
<1>4. ASSUME NEW t \in Ticks, NextEvent(t) PROVE FillAhead(o)' \/ FillInHand(o)'
  <2>1. TickShapes
    BY DEF LifeInv, TicksOK
  <2>2. next' = next + 1 /\ tpc'[t] = log[next + 1].type /\ todo'[t] = {next + 1}
    BY <1>4, <2>1 DEF NextEvent, TickShapes
  <2>3. CASE i = next + 1
    BY <1>1, <1>2, <2>2, <2>3 DEF FillInHand, Filling
  <2>4. CASE i # next + 1
    BY <1>1, <1>2, <2>2, <2>4 DEF FillAhead
  <2> QED
    BY <2>3, <2>4
<1>5. ASSUME NEW t \in Ticks, Tick(t) PROVE FillAhead(o)' \/ FillInHand(o)'
  BY <1>3, <1>4, <1>5, TickEffects
  DEF HandleOrderFilled, HandleOrderCanceled, CanceledFails
<1> QED
  BY <1>3, <1>5, OtherEffects DEF SaveLands, Crash

\* ... and in hand until it is handled, or lost.
LEMMA FillInHandStays ==
  ASSUME EventInv, [Next]_vars, NEW o \in Orders, FillInHand(o)
  PROVE  \/ FillInHand(o)' \/ o \in lost'
         \/ \E t \in Ticks : HandleOrderFilled(t)
<1> USE DEF EventInv
<1>1. PICK t \in Ticks : tpc[t] = "OrderFilled" /\ \E i \in todo[t] : Filling(i, o)
  BY DEF FillInHand
<1>2. PICK i \in 1 .. Len(log) : todo[t] = {i} /\ Filling(i, o)
  BY <1>1, Bounds DEF OneInHand, Handling
<1>3. CASE tpc'[t] = tpc[t] /\ todo'[t] = todo[t]
  BY <1>1, <1>2, <1>3, LogGrows DEF FillInHand, Filling
<1>4. CASE TickFails(t)
  BY <1>1, <1>2, <1>4 DEF TickFails, Filling
<1>5. CASE Crash
  BY <1>1, <1>2, <1>5 DEF Crash, Filling
<1>6. CASE Tick(t)
  BY <1>1, <1>4, <1>6
  DEF Tick, ReadActiveOrders, CheckActiveOrders, UpdateActiveOrder,
      ActiveOrdersDone, ReadQueue, CheckCreatedOrders, RemoveJobs,
      RemoveJobsFails, CreateOrders, NextEvent, NoMoreEvents, HandleOrderCanceled,
      CanceledFails, CanceledSaved
<1>7. ASSUME NEW u \in Ticks, Tick(u), u # t
      PROVE  tpc'[t] = tpc[t] /\ todo'[t] = todo[t]
  BY <1>7, TickEffects
<1> QED
  BY <1>3, <1>5, <1>6, <1>7, OtherEffects DEF SaveLands, tick

\* What the handler of a fill leaves is what the contract has left, unless a
\* later fill is to come.
LEMMA FilledArrives ==
  ASSUME EventInv, LastFill, SavesPrompt, NEW t \in Ticks, HandleOrderFilled(t),
         NEW o \in Stored, FillInHand(o), ~ FillAhead(o), OneTick
  PROVE  \/ /\ \E s : saves' = {s} /\ s.order = o /\ log[s.id].type = "OrderFilled"
                                 /\ s.new.remainingSharesEvent = left[o]
         \/ saves' = {} /\ doc[o].remainingSharesEvent = left[o]
<1> USE DEF EventInv
<1>1. tpc[t] = "OrderFilled" /\ todo[t] = {next} /\ saves = {}
  BY DEF HandleOrderFilled, SavesPrompt, Handling
<1>2. Filling(next, o)
  BY <1>1 DEF FillInHand, OneTick
<1>3. next \in 1 .. Len(log)
  BY <1>1, Bounds DEF OneInHand, Handling
<1>4. log[next].remaining = left[o]
  BY <1>2, <1>3 DEF LastFill, FillAhead, Filling
<1>5. saves' = IF o \in Stored /\ doc[o].remainingSharesEvent # left[o]
               THEN saves \cup {[id |-> next, order |-> o, old |-> doc[o],
                                 new |-> FilledDoc(doc[o], left[o])]}
               ELSE saves
  BY <1>1, <1>2, <1>4 DEF HandleOrderFilled, Filling
<1>6. doc[o] \in Order
  BY DEF LifeInv, StoreOK, Docs, Stored
<1>7. CASE doc[o].remainingSharesEvent = left[o]
  BY <1>1, <1>5, <1>7
<1>8. CASE doc[o].remainingSharesEvent # left[o]
  <2> DEFINE s == [id |-> next, order |-> o, old |-> doc[o],
                   new |-> FilledDoc(doc[o], left[o])]
  <2>1. saves' = {s}
    BY <1>1, <1>5, <1>8
  <2>2. s.order = o /\ log[s.id].type = "OrderFilled"
    BY <1>2 DEF Filling
  <2>3. s.new.remainingSharesEvent = left[o]
    BY <1>6 DEF FilledDoc, Order
  <2> QED
    BY <2>1, <2>2, <2>3
<1> QED
  BY <1>7, <1>8

\* Handling a fill of one order leaves the others, and a step of another kind
\* starts no save of a fill.
LEMMA FillSavesStart ==
  ASSUME EventInv, [Next]_vars, NEW s \in saves', s \notin saves,
         log[s.id].type = "OrderFilled"
  PROVE  \E t \in Ticks : HandleOrderFilled(t) /\ \E i \in todo[t] : Filling(i, s.order)
<1> USE DEF EventInv
<1>1. PICK t \in Ticks : HandleOrderFilled(t) \/ HandleOrderCanceled(t)
  BY SavesStarted
<1>2. CASE HandleOrderFilled(t)
  <2>1. PICK i \in todo[t] : \/ saves' = saves
                             \/ \E r : /\ saves' = saves \cup {r}
                                      /\ r.id = i /\ r.order = log[i].order
    BY <1>2 DEF HandleOrderFilled
  <2>2. s.id = i /\ s.order = log[i].order
    BY <2>1
  <2> QED
    BY <1>2, <2>2 DEF Filling
<1>3. CASE HandleOrderCanceled(t)
  <2>1. PICK i \in todo[t] : \/ saves' = saves
                             \/ \E r : saves' = saves \cup {r} /\ r.id = i
    BY <1>3 DEF HandleOrderCanceled
  <2>2. tpc[t] = "OrderCanceled" /\ s.id = i
    BY <1>3, <2>1 DEF HandleOrderCanceled
  <2>3. log[i].type = "OrderCanceled"
    BY <2>2 DEF OneInHand, Handling
  <2> QED
    BY <2>2, <2>3
<1> QED
  BY <1>1, <1>2, <1>3

LEMMA SavesEnd ==
  ASSUME EventInv, SavesPrompt, [Next]_vars, NEW s \in saves, s \notin saves'
  PROVE  SaveLands(s) \/ s.order \in lost'
<1> USE DEF EventInv, FromEvent
<1>1. CASE Crash
  BY <1>1 DEF Crash
<1>2. ASSUME NEW r \in saves, SaveLands(r) PROVE SaveLands(s)
  BY <1>2 DEF SavesPrompt
<1>3. ASSUME NEW t \in Ticks, Tick(t) PROVE s.order \in lost'
  <2>1. CASE CanceledFails(t)
    BY <2>1 DEF CanceledFails
  <2>2. CASE HandleOrderCanceled(t)
    BY <2>2 DEF HandleOrderCanceled
  <2>3. CASE HandleOrderFilled(t)
    BY <2>3 DEF HandleOrderFilled
  <2>4. CASE NextEvent(t)
    BY <2>4 DEF NextEvent
  <2> QED
    BY <1>3, <2>1, <2>2, <2>3, <2>4, TickEffects
<1> QED
  BY <1>1, <1>2, <1>3, OtherEffects

\* Shares of an order are filled with an event.
LEMMA FillLogged ==
  ASSUME LifeInv, [Next]_vars, NEW o \in Orders
  PROVE  left'[o] = left[o] \/ FillAhead(o)'
<1>1. ASSUME NEW n \in 1 .. Shares, ChainFill(o, n) PROVE FillAhead(o)'
  <2>1. log' = Append(log, [type |-> "OrderFilled", order |-> o,
                            remaining |-> left[o] - n]) /\ next' = next
    BY <1>1 DEF ChainFill
  <2>2. log \in Seq(Events)
    BY DEF LifeInv, ContractOK
  <2>3. /\ Len(log') = Len(log) + 1 /\ log'[Len(log) + 1].type = "OrderFilled"
        /\ log'[Len(log) + 1].order = o
    BY <2>1, <2>2
  <2>4. Len(log) + 1 \in next' + 1 .. Len(log')
    BY <2>1, <2>3, Bounds
  <2> QED
    BY <2>3, <2>4 DEF FillAhead, Filling
<1>2. left \in [Orders -> 0 .. Shares]
  BY DEF LifeInv, ContractOK
<1>3. ASSUME NEW p \in Orders, p # o, NEW n \in 1 .. Shares, ChainFill(p, n)
      PROVE  left'[o] = left[o]
  BY <1>2, <1>3 DEF ChainFill
<1> QED
  BY <1>1, <1>3, ContractMoves DEF ChainCancel

LEMMA FillsArriveStep ==
  ASSUME OneTick, PromptSaves, RemainingInv, [Next]_vars
  PROVE  FillsArrive'
<1>1. /\ RetiredInv /\ EventInv /\ LifeInv /\ LastFill /\ SavesPrompt /\ SavesPrompt'
      /\ EventInv' /\ LifeInv'
  BY PromptStep, EventStep DEF RemainingInv, RetiredInv, EventInv
<1> SUFFICES ASSUME NEW o \in Stored', o \notin lost', ~ FillAhead(o)', ~ FillInHand(o)'
             PROVE  IF FillLanding(o)'
                    THEN \A s \in saves' : s.new.remainingSharesEvent = left'[o]
                    ELSE doc'[o].remainingSharesEvent = left'[o]
  BY DEF FillsArrive
<1>2. o \in Orders /\ o \notin lost
  BY <1>1, LostGrows DEF Stored
<1>3. ~ FillAhead(o)
  BY <1>1, <1>2, FillAheadStays
<1>4. left'[o] = left[o]
  BY <1>1, <1>2, FillLogged
<1>5. CASE o \notin Stored
  <2>1. PICK t \in Ticks : CreateOrders(t) /\ \E j \in todo[t] : j.order = o
    BY <1>1, <1>5, NewlyStored
  <2>2. doc'[o].remainingSharesEvent = Shares
    BY <1>1, <1>5, NewlyStored DEF NewOrder
  <2>3. left[o] = Shares
    BY <1>3, <2>1 DEF RemainingInv, FillsToCome, CreateOrders
  <2>4. saves' = saves
    BY <2>1 DEF CreateOrders
  <2>5. ~ FillLanding(o)'
    BY <1>1, <1>5, <2>4 DEF FillLanding, LifeInv, SavesOK
  <2> QED
    BY <1>4, <2>2, <2>3, <2>5
<1>6. CASE o \in Stored /\ FillInHand(o)
  <2>1. PICK t \in Ticks : HandleOrderFilled(t)
    BY <1>1, <1>2, <1>6, FillInHandStays
  <2>2. log' = log /\ doc' = doc
    BY <2>1 DEF HandleOrderFilled, contract, store
  <2> QED
    BY <1>1, <1>3, <1>4, <1>6, <2>1, <2>2, FilledArrives DEF FillLanding
<1>7. CASE o \in Stored /\ ~ FillInHand(o) /\ FillLanding(o)
  <2>1. PICK s \in saves : s.order = o /\ log[s.id].type = "OrderFilled"
    BY <1>7 DEF FillLanding
  <2>2. s.new.remainingSharesEvent = left[o]
    BY <1>2, <1>3, <1>7 DEF RemainingInv, FillsArrive
  <2>3. CASE s \in saves'
    <3>1. log'[s.id] = log[s.id]
      BY <1>1, LogGrows, Bounds DEF LifeInv, SavesOK
    <3> QED
      BY <1>1, <1>4, <2>1, <2>2, <2>3, <3>1 DEF FillLanding, SavesPrompt
  <2>4. CASE s \notin saves'
    <3>1. SaveLands(s)
      BY <1>1, <2>1, <2>4, SavesEnd
    <3>2. saves' = {}
      BY <1>1, <3>1 DEF SaveLands, SavesPrompt
    <3>3. doc'[o].remainingSharesEvent = s.new.remainingSharesEvent
      BY <1>1, <2>1, <3>1, LandedDoc DEF EventInv, FromEvent
    <3> QED
      BY <1>4, <2>2, <3>2, <3>3 DEF FillLanding
  <2> QED
    BY <2>3, <2>4
<1>8. CASE o \in Stored /\ ~ FillInHand(o) /\ ~ FillLanding(o)
  <2>1. doc[o].remainingSharesEvent = left[o]
    BY <1>2, <1>3, <1>8 DEF RemainingInv, FillsArrive
  <2>2. ASSUME NEW s \in saves', s.order = o PROVE log'[s.id].type # "OrderFilled"
    <3>1. CASE s \in saves
      <4>1. log'[s.id] = log[s.id]
        BY <1>1, <3>1, LogGrows, Bounds DEF LifeInv, SavesOK
      <4> QED
        BY <1>8, <2>2, <3>1, <4>1 DEF FillLanding
    <3>2. CASE s \notin saves
      <4>1. log' = log
        BY <1>1, <3>2, SavesStarted
        DEF HandleOrderFilled, HandleOrderCanceled, contract
      <4>2. ASSUME log[s.id].type = "OrderFilled" PROVE FALSE
        BY <1>1, <1>8, <2>2, <3>2, <4>2, FillSavesStart
        DEF FillInHand, HandleOrderFilled
      <4> QED
        BY <4>1, <4>2
    <3> QED
      BY <3>1, <3>2
  <2>3. SameRest(o)
    <3>1. ASSUME NEW s \in saves, SaveLands(s), s.order = o PROVE SameRest(o)
      <4>1. s.new.remainingSharesEvent = s.old.remainingSharesEvent
        BY <1>1, <1>8, <3>1, FromEventCloses DEF FillLanding
      <4> QED
        BY <1>1, <3>1, <4>1, LandedDoc DEF SameRest
    <3> QED
      BY <1>1, <1>8, <3>1, DocWritten
  <2> QED
    BY <1>4, <2>1, <2>2, <2>3 DEF FillLanding, SameRest
<1> QED
  BY <1>5, <1>6, <1>7, <1>8

LEMMA FillsToComeStep ==
  ASSUME OneTick, RemainingInv, [Next]_vars
  PROVE  FillsToCome'
<1>1. LifeInv /\ LifeInv' /\ FillsToCome
  BY LifeStep DEF RemainingInv, RetiredInv, EventInv
<1> SUFFICES ASSUME NEW t \in Ticks, tpc'[t] \in {"remove", "create"},
                    NEW j \in todo'[t], ~ FillAhead(j.order)'
             PROVE  left'[j.order] = Shares
  BY DEF FillsToCome
<1>2. j.order \in Orders
  BY <1>1 DEF LifeInv, TicksOK, TickOK, TickShapes, Jobs
<1>3. left'[j.order] = left[j.order]
  BY <1>1, <1>2, FillLogged
<1>4. CASE CheckCreatedOrders(t)
  <2>1. CheckOrderError(j.order, Shares) = "NoError"
    BY <1>1, <1>4 DEF CheckCreatedOrders, LifeInv, TicksOK, TickShapes
  <2>2. left[j.order] \in 0 .. Shares /\ ~ Shares > left[j.order]
    BY <1>1, <1>2, <2>1 DEF CheckOrderError, LifeInv, ContractOK
  <2> QED
    BY <1>3, <2>2, OrderAssumption
<1>5. CASE tpc[t] \in {"remove", "create"} /\ todo'[t] = todo[t]
  <2>1. next' = next
    BY <1>1, <1>5, NextWaits
  <2>2. ASSUME FillAhead(j.order) PROVE FALSE
    <3>1. PICK i \in next + 1 .. Len(log) : Filling(i, j.order)
      BY <2>2 DEF FillAhead
    <3>2. i \in next' + 1 .. Len(log') /\ Filling(i, j.order)'
      BY <1>1, <2>1, <3>1, LogGrows, Bounds DEF Filling
    <3> QED
      BY <3>2 DEF FillAhead
  <2> QED
    BY <1>1, <1>3, <1>5, <2>2 DEF FillsToCome
<1> QED
  BY <1>1, <1>4, <1>5, CheckedFirst

\* While ticks do not overlap and the save of a fill lands before the tick reads
\* its next event, the remaining shares that are stored are the contract's as
\* soon as the events of the order are handled: also for an order filled while
\* the cron job was creating it, and whatever requests write.
THEOREM RemainingSharesAgree ==
  ASSUME OneTick, PromptSaves
  PROVE  Spec => []RemainingAgrees
<1>1. Init => RemainingInv
  BY RetiredInit
  DEF Init, RemainingInv, LastFill, SavesPrompt, Handling, FillsArrive, FillsToCome,
      Stored
<1>2. RemainingInv /\ [Next]_vars => RemainingInv'
  BY RetiredStep, LastFillStep, PromptStep, FillsArriveStep, FillsToComeStep
  DEF RemainingInv, RetiredInv, EventInv
<1>3. RemainingInv => RemainingAgrees
  <2> SUFFICES ASSUME RemainingInv, NEW o \in Stored, Quiet(o)
               PROVE  doc[o].remainingSharesEvent = left[o]
    BY DEF RemainingAgrees
  <2>1. ~ FillAhead(o) /\ ~ FillInHand(o) /\ ~ FillLanding(o) /\ o \notin lost
    BY DEF Quiet, FillAhead, FillInHand, FillLanding, Filling
  <2> QED
    BY <2>1 DEF RemainingInv, FillsArrive
<1> QED
  BY <1>1, <1>2, <1>3, PTL DEF Spec
=============================================================================
