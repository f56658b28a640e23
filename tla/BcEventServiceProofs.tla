------------------------ MODULE BcEventServiceProofs ------------------------
(***************************************************************************)
(* Proofs about BcEventService, for every set of events and ticks, every   *)
(* chain, page size and number of crashes.  Where a theorem needs runs of  *)
(* the cron job that do not overlap (OneTick) it says so.                  *)
(***************************************************************************)
EXTENDS BcEventService, TLAPS

-----------------------------------------------------------------------------
(* Type correctness. *)

\* Counting one more occurrence of an element.
LEMMA CountUp ==
  ASSUME NEW S, NEW f \in [S -> Nat], NEW x \in S
  PROVE  [f EXCEPT ![x] = @ + 1] \in [S -> Nat]
OBVIOUS

LEMMA TypeInit == Init => TypeOK
  BY NumbersAssumption, ChainAssumption DEF Init, TypeOK

LEMMA TypeStep == TypeOK /\ [Next]_vars => TypeOK'
<1> SUFFICES ASSUME TypeOK, [Next]_vars PROVE TypeOK'
  OBVIOUS
<1> USE NumbersAssumption
<1>1. CASE MineBlock
  BY <1>1 DEF TypeOK, MineBlock, process, cursor, tickVars, history
<1>2. CASE Reorg
  BY <1>2 DEF TypeOK, Reorg, process, cursor, tickVars, history
<1>3. CASE InitLoaded
  BY <1>3 DEF TypeOK, InitLoaded, Recorded, external, tickVars, history
<1>4. CASE Crash
  <2>1. {cur[t].ev : t \in {u \in Ticks : pc[u] = "begin"}}
          \in SUBSET Events
    BY DEF TypeOK, Entry
  <2>2. orphans' \in SUBSET Events
    BY <1>4, <2>1 DEF TypeOK, Crash
  <2> QED
    BY <1>4, <2>2 DEF TypeOK, Crash, external, cursor
<1>5. CASE Restart
  BY <1>5 DEF TypeOK, Restart, external, tickVars, history
<1>6. ASSUME NEW t \in Ticks, Tick(t) PROVE TypeOK'
  <2>1. CASE StartTick(t)
    BY <2>1 DEF TypeOK, StartTick, external, process, cursor, history
  <2>2. CASE LastBlock(t)
    <3>1. PageEnd(LastConfirmed) \in Int
      BY DEF TypeOK, PageEnd, LastConfirmed
    <3>2. toBlock' \in Int /\ range' \in [Ticks -> Int \X Int]
      BY <2>2, <3>1 DEF TypeOK, LastBlock, Request, EndTick
    <3>3. /\ pending' \in [Ticks -> SUBSET Entry]
          /\ cur' \in [Ticks -> Entry \cup {NoEntry}]
          /\ pc' \in [Ticks -> {"idle", "head", "fetch", "find", "save",
                                "begin", "handling"}]
          /\ \A u \in Ticks : pc'[u] \in {"save", "begin", "handling"}
                                => cur'[u] \in Entry
      BY <2>2 DEF TypeOK, LastBlock, Request, EndTick
    <3> QED
      BY <2>2, <3>2, <3>3 DEF TypeOK, LastBlock, external, process, history
  <2>3. CASE LastBlockFails(t)
    BY <2>3
    DEF TypeOK, LastBlockFails, Request, external, process, cursor, history
  <2>4. CASE Fetch(t)
    <3>1. LogsIn(range[t][1], range[t][2]) \in SUBSET Entry
      BY DEF TypeOK, LogsIn, Entry
    <3> QED
      BY <2>4, <3>1 DEF TypeOK, Fetch, external, process, cursor, history
  <2>5. ASSUME NEW e \in Events, FindEvent(t, e) PROVE TypeOK'
    BY <2>5 DEF TypeOK, FindEvent, external, process, cursor, history
  <2>6. CASE SaveEvent(t)
    BY <2>6 DEF TypeOK, SaveEvent, Entry, external, process, cursor, history
  <2>7. CASE DuplicateKey(t)
    BY <2>7 DEF TypeOK, DuplicateKey, EndTick, external, process, cursor,
                history
  <2>8. CASE BeginHandler(t)
    <3>1. cur[t].ev \in Events
      BY <2>8 DEF TypeOK, BeginHandler, Entry
    <3>2. begun' \in [Events -> Nat]
      BY <2>8, <3>1, CountUp DEF TypeOK, BeginHandler
    <3> QED
      BY <2>8, <3>2 DEF TypeOK, BeginHandler, external, process, cursor
  <2>9. CASE HandlerReturns(t)
    BY <2>9 DEF TypeOK, HandlerReturns, Entry, external, process, cursor
  <2>10. CASE TickFails(t)
    <3>1. orphans' \in SUBSET Events
      BY <2>10 DEF TypeOK, TickFails, Entry
    <3> QED
      BY <2>10, <3>1 DEF TypeOK, TickFails, EndTick, external, process, cursor
  <2>11. CASE Finish(t)
    BY <2>11 DEF TypeOK, Finish, EndTick, external, process, history
  <2> QED
    BY <1>6, <2>1, <2>2, <2>3, <2>4, <2>5, <2>6, <2>7, <2>8, <2>9, <2>10,
       <2>11 DEF Tick
<1>7. CASE UNCHANGED vars
  BY <1>7 DEF TypeOK, vars, external, process, cursor, tickVars, history
<1> QED
  BY <1>1, <1>2, <1>3, <1>4, <1>5, <1>6, <1>7 DEF Next

\* Every variable keeps its type: in particular a cursor that is rewound or a
\* range that is inverted stays a number.
THEOREM TypeCorrect == Spec => []TypeOK
  BY TypeInit, TypeStep, PTL DEF Spec

-----------------------------------------------------------------------------
(* At most once.                                                           *)
(*                                                                         *)
(* AtMostOnce is not inductive: two ticks that both hold an event they     *)
(* have saved would both handle it.  The unique index admits one of them,  *)
(* so the tick that stands between its insert and its handler is the only  *)
(* one for that event, and the event has not been handled yet.             *)

\* A log that is or will be inserted has a block number, so inserting it
\* really makes it present.
Mined ==
  /\ \A t \in Ticks : \A x \in pending[t] : x.blk > 0
  /\ \A t \in Ticks : pc[t] = "save" => cur[t].blk > 0

\* The tick between insert and handler owns its event.
Owned ==
  /\ \A t \in Ticks :
       pc[t] = "begin" => db[cur[t].ev] # 0 /\ begun[cur[t].ev] = 0
  /\ \A t, u \in Ticks :
       pc[t] = "begin" /\ pc[u] = "begin" /\ cur[t].ev = cur[u].ev => t = u

\* What is handled was recorded, what is applied was handled.
Traced ==
  /\ \A t \in Ticks : pc[t] = "handling" => begun[cur[t].ev] > 0
  /\ \A e \in Events : begun[e] > 0 => db[e] # 0
  /\ \A e \in applied : begun[e] > 0

LedgerInv == TypeOK /\ Mined /\ Owned /\ Traced /\ AtMostOnce

LEMMA LedgerInit == Init => LedgerInv
  BY TypeInit DEF Init, LedgerInv, Mined, Owned, Traced, AtMostOnce

\* Ending a tick disturbs nothing.
LEMMA EndTickKeeps ==
  ASSUME LedgerInv, NEW t \in Ticks, EndTick(t), UNCHANGED <<db, begun, applied>>
  PROVE  (Mined /\ Owned /\ Traced /\ AtMostOnce)'
  BY DEF LedgerInv, TypeOK, Mined, Owned, Traced, AtMostOnce, EndTick

LEMMA LedgerTick ==
  ASSUME LedgerInv, NEW t \in Ticks, Tick(t)
  PROVE  (Mined /\ Owned /\ Traced /\ AtMostOnce)'
<1> USE DEF LedgerInv, TypeOK
<1>1. CASE StartTick(t)
  BY <1>1 DEF StartTick, Mined, Owned, Traced, AtMostOnce, history
<1>2. CASE LastBlock(t)
  <2>1. CASE EndTick(t)
    BY <1>2, <2>1, EndTickKeeps DEF LastBlock, history
  <2>2. CASE pc' = [pc EXCEPT ![t] = "fetch"] /\ UNCHANGED <<pending, cur>>
    BY <1>2, <2>2 DEF LastBlock, Mined, Owned, Traced, AtMostOnce, history
  <2> QED
    BY <1>2, <2>1, <2>2 DEF LastBlock, Request
<1>3. CASE LastBlockFails(t)
  BY <1>3 DEF LastBlockFails, Request, Mined, Owned, Traced, AtMostOnce, history
<1>4. CASE Fetch(t)
  <2>1. \A x \in LogsIn(range[t][1], range[t][2]) : x.blk > 0
    BY DEF LogsIn
  <2> QED
    BY <1>4, <2>1 DEF Fetch, Mined, Owned, Traced, AtMostOnce, history
<1>5. ASSUME NEW e \in Events, FindEvent(t, e)
      PROVE  (Mined /\ Owned /\ Traced /\ AtMostOnce)'
  BY <1>5 DEF FindEvent, Mined, Owned, Traced, AtMostOnce, history
<1>6. CASE SaveEvent(t)
  <2>1. cur[t] \in Entry /\ cur[t].ev \in Events /\ cur[t].blk > 0
    BY <1>6 DEF SaveEvent, Mined, Entry
  <2>2. begun[cur[t].ev] = 0
    BY <1>6, <2>1 DEF SaveEvent, Traced
  <2>3. db'[cur[t].ev] # 0 /\ \A e \in Events : db[e] # 0 => db'[e] # 0
    BY <1>6, <2>1 DEF SaveEvent
  <2>4. \A u \in Ticks : pc[u] = "begin" => cur[u].ev # cur[t].ev
    BY <1>6 DEF SaveEvent, Owned
  <2>5. \A u \in Ticks : pc[u] = "begin" => cur[u].ev \in Events
    BY DEF Entry
  <2>6. Mined'
    BY <1>6 DEF SaveEvent, Mined
  <2>7. Owned'
    BY <1>6, <2>2, <2>3, <2>4, <2>5 DEF SaveEvent, Owned, history
  <2>8. Traced' /\ AtMostOnce'
    BY <1>6, <2>3 DEF SaveEvent, Traced, AtMostOnce, history
  <2> QED
    BY <2>6, <2>7, <2>8
<1>7. CASE DuplicateKey(t)
  BY <1>7, EndTickKeeps DEF DuplicateKey, history
<1>8. CASE BeginHandler(t)
  <2>1. cur[t].ev \in Events
    BY <1>8 DEF BeginHandler, Entry
  <2>2. begun[cur[t].ev] = 0 /\ db[cur[t].ev] # 0
    BY <1>8 DEF BeginHandler, Owned
  <2>3. begun' = [begun EXCEPT ![cur[t].ev] = 1]
    BY <1>8, <2>2 DEF BeginHandler
  <2>4. Mined' /\ Traced' /\ AtMostOnce'
    BY <1>8, <2>1, <2>2, <2>3 DEF BeginHandler, Mined, Traced, AtMostOnce
  <2>5. Owned'
    BY <1>8, <2>1, <2>3 DEF BeginHandler, Owned
  <2> QED
    BY <2>4, <2>5
<1>9. CASE HandlerReturns(t)
  BY <1>9 DEF HandlerReturns, Mined, Owned, Traced, AtMostOnce
<1>10. CASE TickFails(t)
  BY <1>10, EndTickKeeps DEF TickFails
<1>11. CASE Finish(t)
  BY <1>11, EndTickKeeps DEF Finish, history
<1> QED
  BY <1>1, <1>2, <1>3, <1>4, <1>5, <1>6, <1>7, <1>8, <1>9, <1>10, <1>11 DEF Tick

LEMMA LedgerStep == LedgerInv /\ [Next]_vars => LedgerInv'
<1> SUFFICES ASSUME LedgerInv, [Next]_vars
             PROVE  (Mined /\ Owned /\ Traced /\ AtMostOnce)'
  BY TypeStep DEF LedgerInv
<1> USE DEF LedgerInv, Mined, Owned, Traced, AtMostOnce
<1>1. CASE MineBlock
  BY <1>1 DEF MineBlock, tickVars, history
<1>2. CASE Reorg
  BY <1>2 DEF Reorg, tickVars, history
<1>3. CASE InitLoaded
  BY <1>3 DEF InitLoaded, tickVars, history
<1>4. CASE Crash
  BY <1>4 DEF Crash
<1>5. CASE Restart
  BY <1>5 DEF Restart, tickVars, history
<1>6. ASSUME NEW t \in Ticks, Tick(t)
      PROVE  (Mined /\ Owned /\ Traced /\ AtMostOnce)'
  BY <1>6, LedgerTick
<1>7. CASE UNCHANGED vars
  BY <1>7 DEF vars, tickVars, history
<1> QED
  BY <1>1, <1>2, <1>3, <1>4, <1>5, <1>6, <1>7 DEF Next

LEMMA LedgerInvariant == Spec => []LedgerInv
  BY LedgerInit, LedgerStep, PTL DEF Spec

\* processEvent is called at most once for an event, with any number of
\* overlapping ticks, restarts and failures: the unique index decides.
THEOREM HandledAtMostOnce == Spec => []AtMostOnce
<1>1. LedgerInv => AtMostOnce
  BY DEF LedgerInv
<1> QED
  BY <1>1, LedgerInvariant, PTL

-----------------------------------------------------------------------------
(* Finality.                                                               *)
(*                                                                         *)
(* The invariant behind RecordedIsFinal: every block number a tick carries *)
(* from the node to the database is Confirmations below the head.  toBlock *)
(* may also be 0, its value after a boot, and a range that ends there      *)
(* holds no log.                                                           *)

\* The end of a requested range that can hold logs is confirmed.
Confirmed(b) == b + Confirmations <= head \/ b <= 0

\* A log that is confirmed and where the chain has it.
Settled(x) == x.blk + Confirmations <= head /\ chain[x.ev] = x.blk /\ x.blk > 0

CursorConfirmed ==
  /\ Confirmed(toBlock)
  /\ \A t \in Ticks : Confirmed(range[t][2])

LogsSettled ==
  /\ \A t \in Ticks : \A x \in pending[t] : Settled(x)
  /\ \A t \in Ticks : pc[t] = "save" => Settled(cur[t])
  /\ \A e \in Recorded : Settled([ev |-> e, blk |-> db[e]])

FinalInv == TypeOK /\ CursorConfirmed /\ LogsSettled

\* What is settled stays settled: blocks are added above it and a
\* reorganisation does not reach it.
LEMMA SettledStays ==
  ASSUME TypeOK, NEW x \in Entry, Settled(x), MineBlock \/ Reorg
  PROVE  Settled(x)'
<1> USE NumbersAssumption, FinalityAssumption DEF TypeOK, Entry, Settled
<1>1. CASE MineBlock
  <2>1. chain[x.ev] # 0
    OBVIOUS
  <2>2. chain'[x.ev] = chain[x.ev]
    BY <1>1, <2>1 DEF MineBlock
  <2> QED
    BY <1>1, <2>2 DEF MineBlock
<1>2. CASE Reorg
  <2>1. chain[x.ev] <= head - ReorgDepth
    OBVIOUS
  <2>2. chain'[x.ev] = chain[x.ev]
    BY <1>2, <2>1 DEF Reorg
  <2> QED
    BY <1>2, <2>2 DEF Reorg
<1> QED
  BY <1>1, <1>2

LEMMA FinalChain ==
  ASSUME FinalInv, MineBlock \/ Reorg
  PROVE  (CursorConfirmed /\ LogsSettled)'
<1> USE DEF FinalInv
<1>1. UNCHANGED <<db, cursor, tickVars>> /\ head' \in Nat /\ head' >= head
  BY DEF MineBlock, Reorg, TypeOK
<1>2. CursorConfirmed'
  <2>1. ASSUME NEW b \in Int, Confirmed(b) PROVE Confirmed(b)'
    <3>1. head \in Int /\ head' \in Int /\ head <= head' /\ Confirmations \in Int
      BY <1>1, NumbersAssumption DEF TypeOK
    <3> QED
      BY <2>1, <3>1 DEF Confirmed
  <2>2. Confirmed(toBlock)'
    BY <1>1, <2>1 DEF CursorConfirmed, cursor, TypeOK, Confirmed
  <2>3. ASSUME NEW t \in Ticks PROVE Confirmed(range[t][2])'
    BY <1>1, <2>1 DEF CursorConfirmed, tickVars, TypeOK, Confirmed
  <2> QED
    BY <2>2, <2>3 DEF CursorConfirmed
<1>3. \A t \in Ticks : \A x \in pending'[t] : Settled(x)'
  BY <1>1, SettledStays DEF LogsSettled, tickVars, TypeOK
<1>4. \A t \in Ticks : pc'[t] = "save" => Settled(cur[t])'
  BY <1>1, SettledStays DEF LogsSettled, tickVars, TypeOK
<1>5. ASSUME NEW e \in Events, db[e] # 0
      PROVE  Settled([ev |-> e, blk |-> db[e]])'
  <2>1. [ev |-> e, blk |-> db[e]] \in Entry
    BY DEF TypeOK, Entry
  <2>2. Settled([ev |-> e, blk |-> db[e]])
    BY <1>5 DEF LogsSettled, Recorded
  <2> QED
    BY <1>1, <2>1, <2>2, SettledStays
<1> QED
  BY <1>1, <1>2, <1>3, <1>4, <1>5 DEF LogsSettled, Recorded, tickVars

LEMMA FinalTick ==
  ASSUME FinalInv, NEW t \in Ticks, Tick(t)
  PROVE  (CursorConfirmed /\ LogsSettled)'
<1> USE DEF FinalInv, TypeOK
<1>0. UNCHANGED <<head, chain>>
  BY DEF Tick, StartTick, LastBlock, LastBlockFails, Fetch, FindEvent, SaveEvent,
         DuplicateKey, BeginHandler, HandlerReturns, TickFails, Finish, external
<1>1. ASSUME NEW b, Confirmed(b) PROVE Confirmed(b)'
  BY <1>0, <1>1 DEF Confirmed
<1>2. ASSUME NEW x, Settled(x) PROVE Settled(x)'
  BY <1>0, <1>2 DEF Settled
<1>3. Confirmed(0)
  BY DEF Confirmed
<1> HIDE DEF FinalInv
<1>4. CursorConfirmed'
  <2>1. CASE LastBlock(t)
    <3>1. Confirmed(PageEnd(LastConfirmed))
      BY NumbersAssumption DEF FinalInv, PageEnd, LastConfirmed, Confirmed
    <3> QED
      BY <1>1, <1>3, <2>1, <3>1
      DEF FinalInv, CursorConfirmed, LastBlock, Request, EndTick
  <2>2. CASE LastBlockFails(t)
    BY <1>1, <2>2 DEF FinalInv, CursorConfirmed, LastBlockFails, Request, cursor
  <2>3. CASE \/ Fetch(t) \/ DuplicateKey(t) \/ TickFails(t) \/ Finish(t)
    BY <1>1, <1>3, <2>3
    DEF FinalInv, CursorConfirmed, Fetch, DuplicateKey, TickFails, Finish,
        EndTick, cursor
  <2>4. CASE UNCHANGED <<toBlock, range>>
    BY <1>1, <2>4 DEF FinalInv, CursorConfirmed
  <2> QED
    BY <2>1, <2>2, <2>3, <2>4
    DEF Tick, StartTick, FindEvent, SaveEvent, BeginHandler, HandlerReturns, cursor
<1>5. LogsSettled'
  <2> USE DEF FinalInv, LogsSettled, Recorded
  <2>1. CASE Fetch(t)
    <3>1. \A x \in LogsIn(range[t][1], range[t][2]) : Settled(x)
      BY NumbersAssumption DEF LogsIn, Settled, CursorConfirmed, Confirmed
    <3> QED
      BY <1>2, <2>1, <3>1 DEF Fetch
  <2>2. ASSUME NEW e \in Events, FindEvent(t, e) PROVE LogsSettled'
    BY <1>2, <2>2 DEF FindEvent
  <2>3. CASE SaveEvent(t)
    <3>1. cur[t] \in Entry /\ Settled(cur[t])
      BY <2>3 DEF SaveEvent
    <3>2. [ev |-> cur[t].ev, blk |-> cur[t].blk] = cur[t]
      BY <3>1 DEF Entry
    <3>3. ASSUME NEW e \in Events, db'[e] # 0
          PROVE  Settled([ev |-> e, blk |-> db'[e]])
      BY <2>3, <3>1, <3>2, <3>3 DEF SaveEvent
    <3> QED
      BY <1>2, <2>3, <3>3 DEF SaveEvent
  <2>4. CASE EndTick(t) /\ UNCHANGED db
    BY <1>2, <2>4 DEF EndTick
  <2>5. CASE pc' \in [Ticks -> {"idle", "head", "fetch", "find", "save", "begin",
                                "handling"}]
             /\ (\A u \in Ticks : pc'[u] = "save" => pc[u] = "save" /\ cur'[u] = cur[u])
             /\ UNCHANGED <<pending, db>>
    BY <1>2, <2>5
  <2> QED
    BY <2>1, <2>2, <2>3, <2>4, <2>5
    DEF Tick, StartTick, LastBlock, LastBlockFails, Request, DuplicateKey,
        BeginHandler, HandlerReturns, TickFails, Finish
<1> QED
  BY <1>4, <1>5

LEMMA FinalStep == FinalInv /\ [Next]_vars => FinalInv'
<1> SUFFICES ASSUME FinalInv, [Next]_vars PROVE (CursorConfirmed /\ LogsSettled)'
  BY TypeStep DEF FinalInv
<1>1. CASE MineBlock \/ Reorg
  BY <1>1, FinalChain
<1>2. CASE InitLoaded \/ Crash \/ Restart
  <2>1. UNCHANGED <<head, chain, db>>
    BY <1>2 DEF InitLoaded, Crash, Restart, external
  <2>2. /\ toBlock' = toBlock \/ toBlock' = 0
        /\ UNCHANGED tickVars \/ Crash
    BY <1>2 DEF InitLoaded, Crash, Restart, cursor
  <2>3. /\ \A b : Confirmed(b) => Confirmed(b)'
        /\ \A x : Settled(x) => Settled(x)'
        /\ Confirmed(0)'
    BY <2>1 DEF Confirmed, Settled
  <2>4. CursorConfirmed'
    BY <2>2, <2>3 DEF FinalInv, CursorConfirmed, Crash, tickVars
  <2>5. LogsSettled'
    BY <2>1, <2>2, <2>3 DEF FinalInv, LogsSettled, Recorded, Crash, tickVars
  <2> QED
    BY <2>4, <2>5
<1>3. CASE \E t \in Ticks : Tick(t)
  BY <1>3, FinalTick
<1>4. CASE UNCHANGED vars
  BY <1>4 DEF vars, FinalInv, TypeOK, CursorConfirmed, Confirmed, LogsSettled,
     Settled, Recorded, external, cursor, tickVars
<1> QED
  BY <1>1, <1>2, <1>3, <1>4 DEF Next

\* What is recorded stays where the chain has it, because getEvents asks only
\* for blocks that a reorganisation no longer reaches.
THEOREM RecordedStaysFinal == Spec => []RecordedIsFinal
<1>1. Init => FinalInv
  BY TypeInit DEF Init, FinalInv, CursorConfirmed, Confirmed, LogsSettled, Recorded
<1>2. FinalInv => RecordedIsFinal
  BY DEF FinalInv, LogsSettled, Settled, RecordedIsFinal
<1> QED
  BY <1>1, <1>2, FinalStep, PTL DEF Spec

-----------------------------------------------------------------------------
(* Refinement: every step of the service is a step of the ledger for one   *)
(* event, or leaves every event at its stage and its handler uncalled.     *)

LEMMA StageInit == Init => Ledger!Init
  BY DEF Init, Stage, StageOf, Ledger!Init

LEMMA StageMoves ==
  ASSUME NEW e \in Events, NEW s, StageOf(e)' = s,
         \A f \in Events \ {e} : StageOf(f)' = StageOf(f)
  PROVE  Stage' = [Stage EXCEPT ![e] = s]
  BY DEF Stage

LEMMA StageTick ==
  ASSUME LedgerInv, NEW t \in Ticks, Tick(t)
  PROVE  Ledger!Next \/ UNCHANGED <<Stage, begun>>
<1> USE DEF LedgerInv, TypeOK
<1>1. CASE SaveEvent(t)
  <2>1. PICK e \in Events : e = cur[t].ev
    BY <1>1 DEF SaveEvent, Entry
  <2>2. cur[t].blk > 0 /\ db[e] = 0 /\ begun[e] = 0
    BY <1>1, <2>1 DEF SaveEvent, Mined, Traced
  <2>3. e \notin applied
    BY <2>2 DEF Traced
  <2>4. StageOf(e) = "unseen"
    BY <2>2, <2>3 DEF StageOf
  <2>5. StageOf(e)' = "recorded"
    BY <1>1, <2>1, <2>2, <2>3 DEF SaveEvent, StageOf, history
  <2>6. \A f \in Events \ {e} : StageOf(f)' = StageOf(f)
    BY <1>1, <2>1 DEF SaveEvent, StageOf, history
  <2>7. Stage' = [Stage EXCEPT ![e] = "recorded"]
    BY <2>5, <2>6, StageMoves
  <2> QED
    BY <1>1, <2>4, <2>7
    DEF SaveEvent, history, Stage, Ledger!Next, Ledger!Record, Ledger!Move
<1>2. CASE BeginHandler(t)
  <2>1. PICK e \in Events : e = cur[t].ev
    BY <1>2 DEF BeginHandler, Entry
  <2>2. db[e] # 0 /\ begun[e] = 0 /\ begun' = [begun EXCEPT ![e] = 1]
    <3>1. db[e] # 0 /\ begun[e] = 0
      BY <1>2, <2>1 DEF BeginHandler, Owned
    <3>2. begun' = [begun EXCEPT ![e] = begun[e] + 1]
      BY <1>2, <2>1 DEF BeginHandler
    <3> QED
      BY <3>1, <3>2
  <2>3. e \notin applied
    BY <2>2 DEF Traced
  <2>4. StageOf(e) = "recorded"
    BY <2>2, <2>3 DEF StageOf
  <2>5. StageOf(e)' = "begun"
    BY <1>2, <2>2, <2>3 DEF BeginHandler, StageOf
  <2>6. \A f \in Events \ {e} : StageOf(f)' = StageOf(f)
    BY <1>2, <2>2 DEF BeginHandler, StageOf
  <2>7. Stage' = [Stage EXCEPT ![e] = "begun"]
    BY <2>5, <2>6, StageMoves
  <2> QED
    <3>1. Stage[e] = "recorded"
      BY <2>4 DEF Stage
    <3>2. begun' = [begun EXCEPT ![e] = begun[e] + 1]
      BY <2>2
    <3>3. Ledger!Begin(e)
      BY <2>7, <3>1, <3>2 DEF Ledger!Begin, Ledger!Move
    <3> QED
      BY <3>3 DEF Ledger!Next
<1>3. CASE HandlerReturns(t)
  <2>1. cur[t].ev \in Events /\ begun[cur[t].ev] > 0
    BY <1>3 DEF HandlerReturns, Traced, Entry
  <2>2. CASE cur[t].ev \in applied
    BY <1>3, <2>2 DEF HandlerReturns, Stage, StageOf
  <2>3. CASE cur[t].ev \notin applied
    <3>1. Stage[cur[t].ev] = "begun"
      BY <2>1, <2>3 DEF Stage, StageOf
    <3>2. Stage' = [Stage EXCEPT ![cur[t].ev] = "applied"]
      BY <1>3, <2>1 DEF HandlerReturns, Stage, StageOf
    <3> QED
      BY <1>3, <2>1, <3>1, <3>2
      DEF HandlerReturns, Ledger!Next, Ledger!Apply, Ledger!Move
  <2> QED
    BY <2>2, <2>3
<1>4. CASE UNCHANGED <<db, begun, applied>>
  BY <1>4 DEF Stage, StageOf
<1> QED
  BY <1>1, <1>2, <1>3, <1>4
  DEF Tick, StartTick, LastBlock, LastBlockFails, Fetch, FindEvent, DuplicateKey,
      TickFails, Finish, history

\* For every number of ticks, crashes and failures the service implements the
\* ledger: an event is recorded, then handled, then applied, each at most once.
THEOREM RefinesLedger == Spec => LedgerSpec
<1>1. LedgerInv /\ [Next]_vars => [Ledger!Next]_<<Stage, begun>>
  <2> SUFFICES ASSUME LedgerInv, [Next]_vars
               PROVE  Ledger!Next \/ UNCHANGED <<Stage, begun>>
    OBVIOUS
  <2>1. CASE \E t \in Ticks : Tick(t)
    BY <2>1, StageTick
  <2>2. CASE UNCHANGED <<db, begun, applied>>
    BY <2>2 DEF Stage, StageOf
  <2> QED
    BY <2>1, <2>2
    DEF Next, MineBlock, Reorg, InitLoaded, Crash, Restart, history, vars
<1> QED
  BY <1>1, StageInit, LedgerInvariant, PTL DEF Spec, LedgerSpec, Ledger!Spec

-----------------------------------------------------------------------------
(* Nothing recorded is forgotten.                                          *)

\* Only an insert makes an event wait for its handler, and only its tick ends that.
LEMMA HandledTick ==
  ASSUME TypeOK, RecordedIsHandled, NEW t \in Ticks, Tick(t)
  PROVE  RecordedIsHandled'
<1> USE DEF TypeOK, RecordedIsHandled, Recorded
<1>1. CASE SaveEvent(t)
  BY <1>1 DEF SaveEvent, history, Entry
<1>2. CASE BeginHandler(t)
  <2>1. cur[t].ev \in Events
    BY <1>2 DEF BeginHandler, Entry
  <2>2. begun'[cur[t].ev] > 0 /\ \A e \in Events : begun[e] > 0 => begun'[e] > 0
    BY <1>2, <2>1 DEF BeginHandler
  <2> QED
    BY <1>2, <2>1, <2>2 DEF BeginHandler
<1>3. CASE TickFails(t)
  BY <1>3 DEF TickFails, EndTick
<1>4. CASE /\ UNCHANGED <<db, begun, orphans>>
           /\ pc[t] # "begin"
           /\ \A u \in Ticks \ {t} : pc'[u] = pc[u] /\ cur'[u] = cur[u]
  BY <1>4
<1> QED
  BY <1>1, <1>2, <1>3, <1>4
  DEF Tick, StartTick, LastBlock, LastBlockFails, Request, Fetch, FindEvent,
      DuplicateKey, HandlerReturns, Finish, EndTick, history

\* An event is inserted before its handler is called; what is found recorded is
\* never looked at again.  It is lost for its handler only when the tick ended
\* between the two, by a crash or a lost answer.
THEOREM RecordedNotForgotten == Spec => []RecordedIsHandled
<1>1. Init => RecordedIsHandled
  BY DEF Init, RecordedIsHandled, Recorded
<1>2. TypeOK /\ RecordedIsHandled /\ [Next]_vars => RecordedIsHandled'
  <2> SUFFICES ASSUME TypeOK, RecordedIsHandled, [Next]_vars
               PROVE  RecordedIsHandled'
    OBVIOUS
  <2>1. CASE Crash
    BY <2>1 DEF Crash, RecordedIsHandled, Recorded, external
  <2>2. CASE \E t \in Ticks : Tick(t)
    BY <2>2, HandledTick
  <2>3. CASE UNCHANGED <<db, begun, orphans, pc, cur>>
    BY <2>3 DEF RecordedIsHandled, Recorded
  <2> QED
    BY <2>1, <2>2, <2>3
    DEF Next, MineBlock, Reorg, InitLoaded, Restart, vars, history, tickVars
<1> QED
  BY <1>1, <1>2, TypeCorrect, PTL DEF Spec

-----------------------------------------------------------------------------
(* One tick at a time.                                                     *)
(*                                                                         *)
(* While runs of getEvents do not overlap, the cursor passes no event and  *)
(* handlers are entered in chain order.  Neither is inductive.  A page is  *)
(* complete: what it does not have recorded is still pending.  It is       *)
(* worked off in order: the log at hand is before all that is pending, so  *)
(* what is recorded has no gap in front of it, and that is what makes it   *)
(* safe to resume from the newest recorded block after a restart.          *)

OneTick == \A t, u \in Ticks : t = u

\* Everything from StartBlock up to the block before b is recorded.
RecordedBelow(b) ==
  \A e \in Events : StartBlock <= chain[e] /\ chain[e] < b => e \in Recorded

\* No event can still appear in a block from StartBlock to the one before b.
Behind(b) == b <= StartBlock \/ Confirmed(b - 1)

At(e, b) == [ev |-> e, blk |-> b]

\* What is recorded has no gap in front of it.
NoGap ==
  \A e \in Events, r \in Recorded :
    StartBlock <= chain[e] /\ Before(At(e, chain[e]), At(r, db[r]))
      => e \in Recorded

OnPage == {"find", "save", "begin", "handling"}

Running(t) == pc[t] # "idle" => phase # "down"

Asked(t) ==
  pc[t] = "fetch" =>
    /\ range[t][2] = toBlock
    /\ Behind(range[t][1])
    /\ RecordedBelow(range[t][1])

\* The log is with the tick.
AtHand(t, e) ==
  \/ At(e, chain[e]) \in pending[t]
  \/ pc[t] = "save" /\ cur[t].ev = e

Complete(t) ==
  pc[t] \in OnPage =>
    \A e \in Events :
      StartBlock <= chain[e] /\ chain[e] <= toBlock
        => e \in Recorded \/ AtHand(t, e)

Sorted(t) ==
  pc[t] = "save" =>
    /\ cur[t].blk <= toBlock
    /\ \A y \in pending[t] : Before(cur[t], y)

OfPage(t) == pc[t] \in OnPage => \A y \in pending[t] : y.blk <= toBlock

\* The event whose handler comes next is the last one recorded.
Newcomer(t) ==
  pc[t] = "begin" =>
    \A f \in Recorded :
      StartBlock <= db[cur[t].ev]
        => ~ Before(At(cur[t].ev, db[cur[t].ev]), At(f, db[f]))

PageOf(t) ==
  Running(t) /\ Asked(t) /\ Complete(t) /\ Sorted(t) /\ OfPage(t) /\ Newcomer(t)

PageInv ==
  /\ FinalInv
  /\ Behind(fromBlock)
  /\ CursorSafe
  /\ NoGap
  /\ \A t \in Ticks : PageOf(t)

\* The parts of PageInv beside FinalInv.
PageParts ==
  Behind(fromBlock) /\ CursorSafe /\ NoGap /\ \A t \in Ticks : PageOf(t)

\* New logs appear only above what is confirmed.
LEMMA ChainBelow ==
  ASSUME TypeOK, MineBlock \/ Reorg, NEW e \in Events, NEW b \in Int,
         Confirmed(b), 0 < chain'[e], chain'[e] <= b
  PROVE  chain'[e] = chain[e]
<1> USE NumbersAssumption, FinalityAssumption DEF TypeOK, Confirmed
<1>1. CASE MineBlock
  BY <1>1 DEF MineBlock
<1>2. CASE Reorg
  <2>1. PICK f \in Events, c \in {0} \cup (head - ReorgDepth + 1 .. head) :
          chain' = [chain EXCEPT ![f] = c]
    BY <1>2 DEF Reorg
  <2>2. c = 0 \/ c > b
    BY <2>1
  <2> QED
    BY <2>1, <2>2
<1> QED
  BY <1>1, <1>2

LEMMA BehindStays ==
  ASSUME TypeOK, MineBlock \/ Reorg, NEW b \in Int, Behind(b)
  PROVE  Behind(b)'
<1>1. head \in Int /\ head' \in Int /\ head' >= head /\ Confirmations \in Int
  BY NumbersAssumption DEF TypeOK, MineBlock, Reorg
<1> QED
  BY <1>1, NumbersAssumption DEF Behind, Confirmed

LEMMA BelowStays ==
  ASSUME TypeOK, MineBlock \/ Reorg, NEW b \in Int, Behind(b), RecordedBelow(b)
  PROVE  RecordedBelow(b)'
<1> SUFFICES ASSUME NEW e \in Events, StartBlock <= chain'[e], chain'[e] < b
             PROVE  e \in Recorded'
  BY DEF RecordedBelow
<1>1. chain' \in [Events -> Nat] /\ db' = db
  BY NumbersAssumption DEF TypeOK, MineBlock, Reorg
<1>2. chain'[e] = chain[e]
  <2>1. Confirmed(b - 1) /\ 0 < chain'[e] /\ chain'[e] <= b - 1
    BY <1>1, NumbersAssumption DEF Behind
  <2> QED
    BY <2>1, ChainBelow
<1> QED
  BY <1>1, <1>2 DEF RecordedBelow, Recorded

LEMMA PageChain ==
  ASSUME PageInv, MineBlock \/ Reorg
  PROVE  PageParts'
<1> USE DEF PageInv, FinalInv
<1>1. /\ UNCHANGED <<db, phase, fromBlock, toBlock, pc, range, pending, cur>>
      /\ chain' \in [Events -> Nat]
  BY NumbersAssumption
  DEF TypeOK, MineBlock, Reorg, process, cursor, tickVars
<1>2. Behind(fromBlock)'
  BY <1>1, BehindStays DEF TypeOK, Behind, Confirmed
<1>3. CursorSafe'
  BY <1>1, BelowStays DEF TypeOK, CursorSafe, RecordedBelow
<1>4. NoGap'
  <2> SUFFICES ASSUME NEW e \in Events, NEW r \in Recorded,
                      StartBlock <= chain'[e],
                      Before(At(e, chain'[e]), At(r, db[r]))
               PROVE  e \in Recorded
    BY <1>1 DEF NoGap, Recorded
  <2>1. Confirmed(db[r]) /\ db[r] \in Int /\ 0 < chain'[e] /\ chain'[e] <= db[r]
    BY <1>1, NumbersAssumption
    DEF LogsSettled, Settled, Confirmed, TypeOK, Before, At, Recorded
  <2>2. chain'[e] = chain[e]
    BY <2>1, ChainBelow
  <2> QED
    BY <2>2 DEF NoGap
<1>5. ASSUME NEW t \in Ticks PROVE PageOf(t)'
  <2>1. PageOf(t) /\ Confirmed(toBlock) /\ toBlock \in Int
    BY DEF CursorConfirmed, TypeOK
  <2>2. Asked(t)'
    BY <1>1, <2>1, BehindStays, BelowStays
    DEF PageOf, Asked, TypeOK, Behind, Confirmed, RecordedBelow
  <2>3. Complete(t)'
    <3> SUFFICES ASSUME pc[t] \in OnPage, NEW e \in Events,
                        StartBlock <= chain'[e], chain'[e] <= toBlock
                 PROVE  e \in Recorded \/ AtHand(t, e)'
      BY <1>1 DEF Complete, Recorded
    <3>1. chain'[e] = chain[e]
      BY <1>1, <2>1, ChainBelow, NumbersAssumption
    <3> QED
      BY <1>1, <2>1, <3>1 DEF PageOf, Complete, AtHand
  <2> QED
    BY <1>1, <2>1, <2>2, <2>3
    DEF PageOf, Running, Sorted, OfPage, Newcomer, Recorded
<1> QED
  BY <1>2, <1>3, <1>4, <1>5 DEF PageParts

\* Ending the only tick leaves the cursor and the records.
LEMMA PageEnded ==
  ASSUME OneTick, PageInv, NEW t \in Ticks, EndTick(t), UNCHANGED <<chain, db>>,
         Behind(fromBlock)', CursorSafe'
  PROVE  PageParts'
<1>1. NoGap'
  BY DEF PageInv, NoGap, Recorded
<1>2. ASSUME NEW u \in Ticks PROVE PageOf(u)'
  <2>1. u = t
    BY DEF OneTick
  <2>2. pc'[t] = "idle"
    BY DEF PageInv, FinalInv, TypeOK, EndTick
  <2> QED
    BY <2>1, <2>2
    DEF PageOf, Running, Asked, Complete, Sorted, OfPage, Newcomer, OnPage
<1> QED
  BY <1>1, <1>2 DEF PageParts

\* A tick that leaves the cursor and the records has only its page to account
\* for.
LEMMA PageKept ==
  ASSUME OneTick, PageInv, NEW t \in Ticks,
         UNCHANGED <<head, chain, db, fromBlock>>, PageOf(t)'
  PROVE  PageParts'
<1>1. Behind(fromBlock)' /\ CursorSafe' /\ NoGap'
  BY DEF PageInv, Behind, Confirmed, CursorSafe, NoGap, Recorded
<1> QED
  BY <1>1 DEF PageParts, OneTick

LEMMA PageSave ==
  ASSUME OneTick, PageInv, NEW t \in Ticks, SaveEvent(t)
  PROVE  PageParts'
<1> USE DEF PageInv, FinalInv
<1>1. PICK x \in Entry : cur[t] = x
  BY DEF TypeOK, SaveEvent
<1>2. /\ x.ev \in Events /\ x.blk \in Nat /\ x = At(x.ev, x.blk)
      /\ x.blk > 0 /\ chain[x.ev] = x.blk
  BY <1>1 DEF LogsSettled, Settled, SaveEvent, Entry, At
<1>3. /\ db[x.ev] = 0 /\ pc[t] = "save"
      /\ db' = [db EXCEPT ![x.ev] = x.blk]
      /\ Recorded' = Recorded \cup {x.ev}
      /\ x.ev \notin Recorded
  BY <1>1, <1>2 DEF SaveEvent, Recorded, TypeOK
<1>4. /\ UNCHANGED <<head, chain, fromBlock, toBlock, phase, range, pending, cur>>
      /\ pc' = [pc EXCEPT ![t] = "begin"]
  BY DEF SaveEvent, external, process, cursor
<1>5. \A r \in Recorded : r \in Events /\ db'[r] = db[r]
  BY <1>2, <1>3 DEF TypeOK, Recorded
<1>6. /\ x.blk <= toBlock
      /\ \A y \in pending[t] : Before(x, y)
      /\ \A e \in Events :
           StartBlock <= chain[e] /\ chain[e] <= toBlock
             => e \in Recorded \/ At(e, chain[e]) \in pending[t] \/ e = x.ev
  <2>1. Sorted(t) /\ Complete(t)
    BY DEF PageOf
  <2> QED
    BY <1>1, <1>3, <2>1 DEF Sorted, Complete, OnPage, AtHand
<1>7. Behind(fromBlock)' /\ CursorSafe'
  BY <1>3, <1>4 DEF Behind, Confirmed, CursorSafe
<1>8. NoGap'
  <2> SUFFICES ASSUME NEW e \in Events, NEW r \in Recorded',
                      StartBlock <= chain[e],
                      Before(At(e, chain[e]), At(r, db'[r]))
               PROVE  e \in Recorded'
    BY <1>4 DEF NoGap
  <2>1. CASE r \in Recorded
    BY <1>3, <1>5, <2>1 DEF NoGap
  <2>2. CASE r = x.ev
    <3>1. Before(At(e, chain[e]), x) /\ chain[e] \in Nat
      BY <1>2, <1>3, <2>2 DEF TypeOK
    <3>2. e \in Events /\ Events \subseteq Nat /\ toBlock \in Int
      BY NumbersAssumption DEF TypeOK
    <3>3. chain[e] <= toBlock
      BY <1>2, <1>6, <3>1, <3>2 DEF Before, At
    <3>4. ~ Before(x, At(e, chain[e]))
      BY <1>2, <3>1, <3>2 DEF Before, At
    <3> QED
      BY <1>3, <1>6, <3>3, <3>4
  <2> QED
    BY <1>3, <2>1, <2>2
<1>9. PageOf(t)'
  <2>1. Complete(t)'
    BY <1>3, <1>4, <1>6 DEF Complete, AtHand
  <2>2. Newcomer(t)'
    <3> SUFFICES ASSUME NEW f \in Recorded', StartBlock <= x.blk
                 PROVE  ~ Before(x, At(f, db'[f]))
      BY <1>1, <1>2, <1>3, <1>4 DEF Newcomer, TypeOK
    <3>1. CASE f \in Recorded
      BY <1>2, <1>3, <1>5, <3>1 DEF NoGap
    <3>2. CASE f = x.ev
      BY <1>2, <1>3, <3>2, NumbersAssumption DEF Before, At, TypeOK
    <3> QED
      BY <1>3, <3>1, <3>2
  <2>3. (Running(t) /\ Asked(t) /\ Sorted(t) /\ OfPage(t))'
    BY <1>3, <1>4 DEF PageOf, Running, Asked, Sorted, OfPage, TypeOK, OnPage
  <2> QED
    BY <2>1, <2>2, <2>3 DEF PageOf
<1> QED
  BY <1>7, <1>8, <1>9 DEF PageParts, OneTick

LEMMA PageTick ==
  ASSUME OneTick, PageInv, NEW t \in Ticks, Tick(t)
  PROVE  PageParts'
<1> USE DEF PageInv, FinalInv
<1>1. CASE StartTick(t)
  <2>1. pc' = [pc EXCEPT ![t] = "head"] /\ phase' # "down"
    BY <1>1 DEF StartTick, process
  <2>2. PageOf(t)'
    BY <2>1
    DEF TypeOK, PageOf, Running, Asked, Complete, Sorted, OfPage, Newcomer, OnPage
  <2> QED
    BY <1>1, <2>2, PageKept DEF StartTick, external, cursor
<1>2. ASSUME NEW hi \in Int, Request(t, fromBlock, hi), pc[t] = "head",
             toBlock' = hi, UNCHANGED <<external, db, process, fromBlock>>
      PROVE  PageParts'
  <2>1. /\ pc' = [pc EXCEPT ![t] = "fetch"]
        /\ range'[t][1] = fromBlock /\ range'[t][2] = toBlock'
        /\ UNCHANGED <<phase, head, chain>>
    BY <1>2 DEF Request, TypeOK, process, external
  <2>2. Running(t)'
    BY <1>2, <2>1 DEF PageOf, Running
  <2>3. Asked(t)'
    BY <1>2, <2>1
    DEF Asked, Behind, Confirmed, RecordedBelow, CursorSafe, Recorded
  <2>4. (Complete(t) /\ Sorted(t) /\ OfPage(t) /\ Newcomer(t))'
    BY <2>1 DEF TypeOK, Complete, Sorted, OfPage, Newcomer, OnPage
  <2> QED
    BY <1>2, <2>1, <2>2, <2>3, <2>4, PageKept DEF PageOf
<1>3. ASSUME EndTick(t), UNCHANGED <<head, chain, db, fromBlock>>
      PROVE  PageParts'
  BY <1>3, PageEnded DEF Behind, Confirmed, CursorSafe, Recorded
<1>4. CASE LastBlock(t)
  <2>1. PageEnd(LastConfirmed) \in Int
    BY NumbersAssumption DEF TypeOK, PageEnd, LastConfirmed
  <2> QED
    BY <1>2, <1>3, <1>4, <2>1 DEF LastBlock, external
<1>5. CASE LastBlockFails(t)
  BY <1>2, <1>5 DEF LastBlockFails, TypeOK, cursor
<1>6. CASE Fetch(t)
  <2>1. /\ pc' = [pc EXCEPT ![t] = "find"] /\ pc[t] = "fetch"
        /\ pending' = [pending EXCEPT ![t] = LogsIn(range[t][1], toBlock)]
        /\ UNCHANGED <<head, chain, db, phase, fromBlock, toBlock>>
    BY <1>6 DEF Fetch, PageOf, Asked, external, process, cursor
  <2>2. Complete(t)'
    <3> SUFFICES ASSUME NEW e \in Events, StartBlock <= chain[e],
                        chain[e] <= toBlock, e \notin Recorded
                 PROVE  At(e, chain[e]) \in pending'[t]
      BY <2>1 DEF Complete, AtHand, Recorded
    <3>1. ~ chain[e] < range[t][1]
      BY <2>1 DEF PageOf, Asked, RecordedBelow
    <3>2. /\ chain[e] \in Int /\ chain[e] > 0
          /\ toBlock \in Int /\ range[t][1] \in Int
      BY NumbersAssumption DEF TypeOK
    <3>3. At(e, chain[e]) \in LogsIn(range[t][1], toBlock)
      BY <3>1, <3>2 DEF LogsIn, At
    <3> QED
      BY <2>1, <3>3 DEF TypeOK
  <2>3. OfPage(t)'
    BY <2>1 DEF OfPage, LogsIn, TypeOK
  <2>4. (Running(t) /\ Asked(t) /\ Sorted(t) /\ Newcomer(t))'
    BY <2>1 DEF PageOf, Running, Asked, Sorted, Newcomer, TypeOK
  <2> QED
    BY <2>1, <2>2, <2>3, <2>4, PageKept DEF PageOf
<1>7. ASSUME NEW e \in Events, FindEvent(t, e) PROVE PageParts'
  <2>1. PICK x \in pending[t] :
          /\ x.ev = e /\ IsFirst(x, pending[t])
          /\ pending' = [pending EXCEPT ![t] = @ \ {x}]
          /\ \/ db[e] = x.blk /\ UNCHANGED <<pc, cur>>
             \/ /\ db[e] # x.blk
                /\ pc' = [pc EXCEPT ![t] = "save"]
                /\ cur' = [cur EXCEPT ![t] = x]
    BY <1>7 DEF FindEvent
  <2>2. /\ pc[t] = "find" /\ x \in Entry
        /\ UNCHANGED <<head, chain, db, phase, fromBlock, toBlock>>
    BY <1>7 DEF FindEvent, TypeOK, external, process, cursor
  <2>3. x.blk > 0 /\ x.blk <= toBlock
    BY <2>2 DEF LogsSettled, Settled, PageOf, OfPage, OnPage
  <2>4. \A y \in pending'[t] : y \in pending[t] /\ Before(x, y)
    BY <2>1 DEF IsFirst, TypeOK
  <2>5. Complete(t)'
    <3> SUFFICES ASSUME NEW f \in Events, StartBlock <= chain[f],
                        chain[f] <= toBlock, f \notin Recorded
                 PROVE  AtHand(t, f)'
      BY <2>2 DEF Complete, Recorded
    <3>1. At(f, chain[f]) \in pending[t]
      BY <2>2 DEF PageOf, Complete, AtHand, OnPage
    <3>2. CASE At(f, chain[f]) = x
      <4>1. f = e /\ db[e] = 0
        BY <2>1, <3>2 DEF At, Recorded
      <4>2. pc'[t] = "save" /\ cur'[t] = x
        BY <2>1, <2>3, <4>1 DEF TypeOK
      <4> QED
        BY <2>1, <4>1, <4>2 DEF AtHand
    <3>3. CASE At(f, chain[f]) # x
      BY <2>1, <2>2, <3>1, <3>3 DEF AtHand, TypeOK
    <3> QED
      BY <3>2, <3>3
  <2>6. Sorted(t)' /\ OfPage(t)'
    BY <2>1, <2>2, <2>3, <2>4 DEF Sorted, OfPage, PageOf, TypeOK, OnPage
  <2>7. (Running(t) /\ Asked(t) /\ Newcomer(t))'
    BY <2>1, <2>2 DEF PageOf, Running, Asked, Newcomer, TypeOK
  <2> QED
    BY <2>2, <2>5, <2>6, <2>7, PageKept DEF PageOf
<1>8. CASE SaveEvent(t)
  BY <1>8, PageSave
<1>9. CASE DuplicateKey(t)
  BY <1>3, <1>9 DEF DuplicateKey, external, cursor
<1>10. CASE BeginHandler(t) \/ HandlerReturns(t)
  <2>1. /\ pc' = [pc EXCEPT ![t] = "handling"] \/ pc' = [pc EXCEPT ![t] = "find"]
        /\ pc[t] \in {"begin", "handling"} /\ (pc'[t] = "find" => pc[t] = "handling")
        /\ UNCHANGED <<head, chain, db, phase, fromBlock, toBlock, range, pending>>
    BY <1>10 DEF BeginHandler, HandlerReturns, TypeOK, external, process, cursor
  <2>2. (Running(t) /\ Asked(t) /\ Complete(t) /\ Sorted(t) /\ Newcomer(t))'
    BY <2>1
    DEF PageOf, Running, Asked, Complete, AtHand, OnPage, Sorted, Newcomer,
        Recorded, TypeOK
  <2>3. OfPage(t)'
    BY <2>1 DEF PageOf, OfPage, OnPage, TypeOK
  <2> QED
    BY <2>1, <2>2, <2>3, PageKept DEF PageOf
<1>11. CASE TickFails(t)
  BY <1>3, <1>11 DEF TickFails, external, cursor
<1>12. CASE Finish(t)
  <2>1. /\ pc[t] = "find" /\ pending[t] = {} /\ fromBlock' = toBlock + 1
        /\ UNCHANGED <<head, chain, db>> /\ EndTick(t)
    BY <1>12 DEF Finish, external
  <2>2. CursorSafe'
    BY <2>1, NumbersAssumption
    DEF PageOf, Complete, AtHand, OnPage, CursorSafe, Recorded, TypeOK
  <2>3. Behind(fromBlock)'
    BY <2>1 DEF Behind, Confirmed, CursorConfirmed, TypeOK
  <2> QED
    BY <2>1, <2>2, <2>3, PageEnded
<1> QED
  BY <1>1, <1>4, <1>5, <1>6, <1>7, <1>8, <1>9, <1>10, <1>11, <1>12 DEF Tick

\* Boot and crash: what is resumed from has no gap in front of it.
LEMMA PageProcess ==
  ASSUME PageInv, InitLoaded \/ Crash \/ Restart
  PROVE  PageParts'
<1> USE DEF PageInv, FinalInv
<1>1. UNCHANGED <<head, chain, db>>
  BY DEF InitLoaded, Crash, Restart, external
<1>2. NoGap'
  BY <1>1 DEF NoGap, Recorded
<1>3. CASE InitLoaded
  <2>1. UNCHANGED <<toBlock, pc, range, pending, cur>> /\ phase' # "down"
    BY <1>3 DEF InitLoaded, tickVars
  <2>2. \A t \in Ticks : PageOf(t)'
    BY <1>1, <2>1
    DEF PageOf, Running, Asked, Behind, Confirmed, RecordedBelow, Complete,
        AtHand, Sorted, OfPage, Newcomer, Recorded
  <2>3. ASSUME NEW e \in Recorded, fromBlock' = db[e]
        PROVE  (Behind(fromBlock) /\ CursorSafe)'
    <3>1. db[e] + Confirmations <= head /\ db[e] \in Int
      BY DEF LogsSettled, Settled, Recorded, TypeOK
    <3>2. Behind(fromBlock)'
      BY <1>1, <2>3, <3>1, NumbersAssumption DEF Behind, Confirmed, TypeOK
    <3>3. CursorSafe'
      BY <1>1, <2>3 DEF CursorSafe, NoGap, Before, At, Recorded
    <3> QED
      BY <3>2, <3>3
  <2>4. (Behind(fromBlock) /\ CursorSafe)'
    <3>1. CASE UNCHANGED fromBlock
      BY <1>1, <3>1 DEF Behind, Confirmed, CursorSafe, Recorded
    <3> QED
      BY <1>3, <2>3, <3>1 DEF InitLoaded
  <2> QED
    BY <1>2, <2>2, <2>4 DEF PageParts
<1>4. CASE Crash
  <2>1. UNCHANGED <<fromBlock, toBlock>> /\ \A t \in Ticks : pc'[t] = "idle"
    BY <1>4 DEF Crash, cursor
  <2> QED
    BY <1>1, <1>2, <2>1
    DEF PageParts, Behind, Confirmed, CursorSafe, Recorded, PageOf, Running,
        Asked, Complete, Sorted, OfPage, Newcomer, OnPage
<1>5. CASE Restart
  <2>1. fromBlock' = StartBlock /\ \A t \in Ticks : pc'[t] = "idle"
    BY <1>5 DEF Restart, tickVars, PageOf, Running
  <2>2. (Behind(fromBlock) /\ CursorSafe)'
    BY <1>1, <2>1, NumbersAssumption DEF Behind, CursorSafe, Recorded, TypeOK
  <2> QED
    BY <1>2, <2>1, <2>2
    DEF PageParts, PageOf, Running, Asked, Complete, Sorted, OfPage, Newcomer,
        OnPage
<1> QED
  BY <1>3, <1>4, <1>5

LEMMA PageInit == Init => PageInv
<1> SUFFICES ASSUME Init PROVE PageInv
  OBVIOUS
<1> USE DEF Init
<1>1. FinalInv
  BY TypeInit DEF FinalInv, CursorConfirmed, Confirmed, LogsSettled, Recorded
<1>2. Behind(fromBlock) /\ CursorSafe /\ NoGap
  BY NumbersAssumption, ChainAssumption DEF Behind, CursorSafe, NoGap, Recorded
<1>3. \A t \in Ticks : PageOf(t)
  BY DEF PageOf, Running, Asked, Complete, Sorted, OfPage, Newcomer, OnPage
<1> QED
  BY <1>1, <1>2, <1>3 DEF PageInv

LEMMA PageStep ==
  ASSUME OneTick
  PROVE  PageInv /\ [Next]_vars => PageInv'
<1> SUFFICES ASSUME PageInv, [Next]_vars PROVE PageParts'
  BY FinalStep DEF PageInv, PageParts
<1>1. CASE MineBlock \/ Reorg
  BY <1>1, PageChain
<1>2. CASE InitLoaded \/ Crash \/ Restart
  BY <1>2, PageProcess
<1>3. CASE \E t \in Ticks : Tick(t)
  BY <1>3, PageTick
<1>4. CASE UNCHANGED vars
  BY <1>4
  DEF vars, external, process, cursor, tickVars, PageInv, PageParts, Behind,
      Confirmed, CursorSafe, NoGap, Recorded, PageOf, Running, Asked,
      RecordedBelow, Complete, AtHand, Sorted, OfPage, Newcomer
<1> QED
  BY <1>1, <1>2, <1>3, <1>4 DEF Next

LEMMA PageInvariant ==
  ASSUME OneTick
  PROVE  Spec => []PageInv
<1>1. PageInv /\ [Next]_vars => PageInv'
  BY PageStep
<1> QED
  BY <1>1, PageInit, PTL DEF Spec

\* While ticks do not overlap the cursor passes no event that was not recorded:
\* whatever fails, wherever the process crashes, and although a failed
\* getLastBlock makes a tick work on a range it did not compute.
THEOREM CursorPassesNothing ==
  ASSUME OneTick
  PROVE  Spec => []CursorSafe
<1>1. PageInv => CursorSafe
  BY DEF PageInv
<1> QED
  BY <1>1, PageInvariant, PTL

\* While ticks do not overlap, handlers are entered in chain order from
\* START_BLOCK on, over page ends, retries and restarts.
THEOREM HandledInOrder ==
  ASSUME OneTick
  PROVE  Spec => InChainOrder
<1>1. PageInv /\ LedgerInv /\ [Next]_vars =>
        [\A e, f \in Events :
           begun'[e] > begun[e] /\ begun[f] > 0 /\ db[e] >= StartBlock
             => ~ Before([ev |-> e, blk |-> db[e]], [ev |-> f, blk |-> db[f]])]_vars
  <2> SUFFICES ASSUME PageInv, LedgerInv, Next, NEW e \in Events, NEW f \in Events,
                      begun'[e] > begun[e], begun[f] > 0, db[e] >= StartBlock,
                      Before([ev |-> e, blk |-> db[e]], [ev |-> f, blk |-> db[f]])
               PROVE  FALSE
    BY DEF vars
  <2>1. PICK t \in Ticks : BeginHandler(t)
    BY DEF Next, MineBlock, Reorg, InitLoaded, Crash, Restart, Tick, StartTick,
           LastBlock, LastBlockFails, Fetch, FindEvent, SaveEvent, DuplicateKey,
           HandlerReturns, TickFails, Finish, history, LedgerInv, TypeOK
  <2>2. cur[t].ev = e
    BY <2>1 DEF BeginHandler, LedgerInv, TypeOK
  <2>3. f \in Recorded
    BY DEF LedgerInv, Traced, Recorded
  <2> QED
    BY <2>1, <2>2, <2>3, NumbersAssumption
    DEF BeginHandler, PageInv, PageOf, Newcomer, At, LedgerInv, TypeOK
<1> QED
  BY <1>1, PageInvariant, LedgerInvariant, PTL DEF Spec, InChainOrder
=============================================================================
