--------------------------- MODULE BcEventService ---------------------------
(***************************************************************************)
(* Ingestion of contract events: BcLoopService.startBcLoop (a cron job     *)
(* that does not wait for its previous run) and BcEventService.getEvents.  *)
(*                                                                         *)
(* Node runs one callback at a time, so a step is what happens between two *)
(* awaits.  A tick is one run of getEvents; Ticks is how many may overlap. *)
(* The cursor (eventOptions) is one object shared by every tick, the       *)
(* bcevents collection survives a crash, everything else does not.         *)
(* An event is a log of the contract: its transaction hash and log index.  *)
(* The block it sits in may change in a reorganisation until it is final.  *)
(***************************************************************************)
EXTENDS Integers, FiniteSets

CONSTANTS
  Events,         \* the logs of the contract, numbered in log order from 1
  Ticks,          \* runs of the cron job that may be in progress at once
  StartBlock,     \* START_BLOCK
  PageSize,       \* EVENT_REQ_PAGINATION
  Confirmations,  \* the 11 blocks getEvents stays behind the head
  ReorgDepth,     \* how many of the newest blocks a reorganisation can replace
  InitHead,       \* the head of the chain when the service first starts ...
  InitChain,      \* ... and the block of each event in it (0: not mined)
  MaxHead,        \* bound: blocks mined
  MaxCrashes      \* bound: crashes of the process

ASSUME NumbersAssumption ==
  /\ Events \subseteq Nat \ {0}
  /\ StartBlock \in Nat \ {0}
  /\ PageSize \in Nat
  /\ Confirmations \in Nat
  /\ ReorgDepth \in Nat
  /\ InitHead \in Nat
  /\ MaxHead \in Nat
  /\ MaxCrashes \in Nat

ASSUME ChainAssumption ==
  /\ InitChain \in [Events -> Nat]
  /\ \A e \in Events : InitChain[e] <= InitHead

\* A block with Confirmations blocks on top of it is final.
ASSUME FinalityAssumption == ReorgDepth <= Confirmations

VARIABLES
  head,       \* number of the newest block
  chain,      \* block of each event on the canonical chain, 0 when in none
  db,         \* bcevents collection: recorded blockNumber per event, 0: absent
  phase,      \* the process: "down", "loading" (inside init), "up"
  crashes,    \* crashes so far
  fromBlock,  \* eventOptions.fromBlock
  toBlock,    \* eventOptions.toBlock
  pc,         \* the await each tick stands at
  range,      \* block range each tick asked getPastLogs for
  pending,    \* rest of eventsArray of each tick
  cur,        \* log each tick is working on
  begun,      \* history: how often processEvent was called for each event
  applied,    \* history: events whose handler returned
  orphans     \* history: events recorded by a tick that ended before handling

external == <<head, chain>>
cursor   == <<fromBlock, toBlock>>
tickVars == <<pc, range, pending, cur>>
history  == <<begun, applied, orphans>>
process  == <<phase, crashes>>
vars == <<external, db, process, cursor, tickVars, history>>

Entry == [ev : Events, blk : Nat]

NoEntry == [ev |-> 0, blk |-> 0]

\* getPastLogs returns logs by block, then by their index in the block.
Before(x, y) == x.blk < y.blk \/ (x.blk = y.blk /\ x.ev < y.ev)

\* Mutant of IsFirst: the logs of a page are handled in any order.
IsAny(x, S) == x \in S

IsFirst(x, S) == x \in S /\ \A y \in S : y = x \/ Before(x, y)

\* Logs of the canonical chain in the blocks lo..hi.
LogsIn(lo, hi) ==
  {x \in [ev : Events, blk : lo .. hi] : x.blk > 0 /\ chain[x.ev] = x.blk}

Recorded == {e \in Events : db[e] # 0}

-----------------------------------------------------------------------------
Init ==
  /\ head = InitHead
  /\ chain = InitChain
  /\ db = [e \in Events |-> 0]
  /\ phase = "loading"
  /\ crashes = 0
  /\ fromBlock = StartBlock
  /\ toBlock = 0
  /\ pc = [t \in Ticks |-> "idle"]
  /\ range = [t \in Ticks |-> <<0, 0>>]
  /\ pending = [t \in Ticks |-> {}]
  /\ cur = [t \in Ticks |-> NoEntry]
  /\ begun = [e \in Events |-> 0]
  /\ applied = {}
  /\ orphans = {}

-----------------------------------------------------------------------------
(* The chain, seen through the RPC node. *)

\* A block is mined and includes some of the events not mined yet.
MineBlock ==
  /\ head < MaxHead
  /\ head' = head + 1
  /\ \E S \in SUBSET {e \in Events : chain[e] = 0} :
       chain' = [e \in Events |-> IF e \in S THEN head + 1 ELSE chain[e]]
  /\ UNCHANGED <<db, process, cursor, tickVars, history>>

\* An event of a block that is not final moves to another such block, or out
\* of the chain.
Reorg ==
  \E e \in Events, b \in {0} \cup (head - ReorgDepth + 1 .. head) :
    /\ chain[e] > head - ReorgDepth
    /\ chain[e] > 0
    /\ b >= 0
    /\ chain' = [chain EXCEPT ![e] = b]
    /\ UNCHANGED <<head, db, process, cursor, tickVars, history>>

-----------------------------------------------------------------------------
(* The process: bcEventService.init at boot, and crashes. *)

\* The event found by sorting on -blockNumber.
Newest(e) == e \in Recorded /\ \A f \in Recorded : db[f] <= db[e]

\* Mutant of InitLoaded: the service resumes after the newest recorded block.
InitLoadedAfter ==
  /\ phase = "loading"
  /\ phase' = "up"
  /\ \/ Recorded = {} /\ UNCHANGED fromBlock
     \/ \E e \in Recorded : Newest(e) /\ fromBlock' = db[e] + 1
  /\ UNCHANGED <<external, db, crashes, toBlock, tickVars, history>>

\* The read of the newest recorded block completes; the cron job may have
\* started a tick before it does.
InitLoaded ==
  /\ phase = "loading"
  /\ phase' = "up"
  /\ \/ Recorded = {} /\ UNCHANGED fromBlock
     \/ \E e \in Recorded : Newest(e) /\ fromBlock' = db[e]
  /\ UNCHANGED <<external, db, crashes, toBlock, tickVars, history>>

Crash ==
  /\ phase # "down"
  /\ crashes < MaxCrashes
  /\ crashes' = crashes + 1
  /\ phase' = "down"
  /\ pc' = [t \in Ticks |-> "idle"]
  /\ range' = [t \in Ticks |-> <<0, 0>>]
  /\ pending' = [t \in Ticks |-> {}]
  /\ cur' = [t \in Ticks |-> NoEntry]
  /\ orphans' = orphans \cup {cur[t].ev : t \in {u \in Ticks : pc[u] = "begin"}}
  /\ UNCHANGED <<external, db, cursor, begun, applied>>

\* onApplicationBootstrap calls init, which resets the cursor and then awaits.
Restart ==
  /\ phase = "down"
  /\ phase' = "loading"
  /\ fromBlock' = StartBlock
  /\ toBlock' = 0
  /\ UNCHANGED <<external, db, crashes, tickVars, history>>

-----------------------------------------------------------------------------
(* One run of getEvents. *)

EndTick(t) ==
  /\ pc' = [pc EXCEPT ![t] = "idle"]
  /\ range' = [range EXCEPT ![t] = <<0, 0>>]
  /\ pending' = [pending EXCEPT ![t] = {}]
  /\ cur' = [cur EXCEPT ![t] = NoEntry]

\* The cron job fires and its order checks pass; a run whose checks throw
\* never reaches getEvents.
StartTick(t) ==
  /\ phase # "down"
  /\ pc[t] = "idle"
  /\ pc' = [pc EXCEPT ![t] = "head"]
  /\ UNCHANGED <<external, db, process, cursor, range, pending, cur, history>>

\* getPastLogs copies the range out of the shared cursor when it is called.
Request(t, lo, hi) ==
  /\ pc' = [pc EXCEPT ![t] = "fetch"]
  /\ range' = [range EXCEPT ![t] = <<lo, hi>>]

\* toBlock as updateEventOptions computes it from the last confirmed block.
PageEnd(last) ==
  IF last - fromBlock > PageSize THEN fromBlock + PageSize ELSE last

\* Mutant of LastConfirmed: one confirmation short.
LastAlmostConfirmed == head - Confirmations + 1

\* The newest block getEvents takes for final.
LastConfirmed == head - Confirmations

\* Mutant of TooClose: one block more.
TooCloseByOne(last) == last - fromBlock < 3

TooClose(last) == last - fromBlock < 2

\* getLastBlock answers; fewer than two blocks ahead of the cursor the tick
\* returns, otherwise it extends the cursor and asks for logs.
LastBlock(t) ==
  /\ pc[t] = "head"
  /\ \/ /\ TooClose(LastConfirmed)
        /\ EndTick(t)
        /\ UNCHANGED toBlock
     \/ /\ ~ TooClose(LastConfirmed)
        /\ toBlock' = PageEnd(LastConfirmed)
        /\ Request(t, fromBlock, PageEnd(LastConfirmed))
        /\ UNCHANGED <<pending, cur>>
  /\ UNCHANGED <<external, db, process, fromBlock, history>>

\* getLastBlock throws: the error is logged and the tick goes on with the
\* range the cursor already holds.
LastBlockFails(t) ==
  /\ pc[t] = "head"
  /\ Request(t, fromBlock, toBlock)
  /\ UNCHANGED <<external, db, process, cursor, pending, cur, history>>

\* getPastLogs answers; the node is assumed to serve the canonical chain.
Fetch(t) ==
  /\ pc[t] = "fetch"
  /\ pending' = [pending EXCEPT ![t] = LogsIn(range[t][1], range[t][2])]
  /\ range' = [range EXCEPT ![t] = <<0, 0>>]
  /\ pc' = [pc EXCEPT ![t] = "find"]
  /\ UNCHANGED <<external, db, process, cursor, cur, history>>

\* Mutant of FindEvent: the tick forgets which log it looked up.
FindEventForgets(t, e) ==
  /\ pc[t] = "find"
  /\ \E x \in pending[t] :
       /\ x.ev = e
       /\ IsFirst(x, pending[t])
       /\ pending' = [pending EXCEPT ![t] = @ \ {x}]
       /\ pc' = [pc EXCEPT ![t] = IF db[e] = x.blk THEN "find" ELSE "save"]
  /\ UNCHANGED <<external, db, process, cursor, range, cur, history>>

\* findOne for the next event, e; one that is recorded is skipped.
FindEvent(t, e) ==
  /\ pc[t] = "find"
  /\ \E x \in pending[t] :
       /\ x.ev = e
       /\ IsFirst(x, pending[t])
       /\ pending' = [pending EXCEPT ![t] = @ \ {x}]
       /\ \/ /\ db[e] = x.blk
             /\ UNCHANGED <<pc, cur>>
          \/ /\ db[e] # x.blk
             /\ pc' = [pc EXCEPT ![t] = "save"]
             /\ cur' = [cur EXCEPT ![t] = x]
  /\ UNCHANGED <<external, db, process, cursor, range, history>>

\* Mutant of SaveEvent: the unique index is missing.
SaveAnyway(t) ==
  /\ pc[t] = "save"
  /\ db' = [db EXCEPT ![cur[t].ev] = cur[t].blk]
  /\ pc' = [pc EXCEPT ![t] = "begin"]
  /\ UNCHANGED <<external, process, cursor, range, pending, cur, history>>

\* Mutant of SaveEvent: the handler is not called.
SaveOnly(t) ==
  /\ pc[t] = "save"
  /\ db[cur[t].ev] = 0
  /\ db' = [db EXCEPT ![cur[t].ev] = cur[t].blk]
  /\ pc' = [pc EXCEPT ![t] = "find"]
  /\ UNCHANGED <<external, process, cursor, range, pending, cur, history>>

\* save inserts the event.
SaveEvent(t) ==
  /\ pc[t] = "save"
  /\ db[cur[t].ev] = 0
  /\ db' = [db EXCEPT ![cur[t].ev] = cur[t].blk]
  /\ pc' = [pc EXCEPT ![t] = "begin"]
  /\ UNCHANGED <<external, process, cursor, range, pending, cur, history>>

\* Mutant of DuplicateKey: the error is swallowed and the event handled.
DuplicateKeyIgnored(t) ==
  /\ pc[t] = "save"
  /\ db[cur[t].ev] # 0
  /\ pc' = [pc EXCEPT ![t] = "begin"]
  /\ UNCHANGED <<external, db, process, cursor, range, pending, cur, history>>

\* save meets the unique index on transactionHash and logIndex and throws.
DuplicateKey(t) ==
  /\ pc[t] = "save"
  /\ db[cur[t].ev] # 0
  /\ EndTick(t)
  /\ UNCHANGED <<external, db, process, cursor, history>>

\* save has resolved: processEvent dispatches the event to its handlers.
BeginHandler(t) ==
  /\ pc[t] = "begin"
  /\ pc' = [pc EXCEPT ![t] = "handling"]
  /\ begun' = [begun EXCEPT ![cur[t].ev] = @ + 1]
  /\ UNCHANGED <<external, db, process, cursor, range, pending, cur,
                 applied, orphans>>

HandlerReturns(t) ==
  /\ pc[t] = "handling"
  /\ pc' = [pc EXCEPT ![t] = "find"]
  /\ applied' = applied \cup {cur[t].ev}
  /\ cur' = [cur EXCEPT ![t] = NoEntry]
  /\ UNCHANGED <<external, db, process, cursor, range, pending, begun, orphans>>

\* getPastLogs, findOne, save or a handler throws: the error is logged, the
\* rest of the page is dropped and the cursor stays.  save may throw after its
\* insert was done, when the answer is lost.
TickFails(t) ==
  /\ pc[t] \in {"fetch", "find", "save", "begin", "handling"}
  /\ orphans' = IF pc[t] = "begin" THEN orphans \cup {cur[t].ev} ELSE orphans
  /\ EndTick(t)
  /\ UNCHANGED <<external, db, process, cursor, begun, applied>>

\* The page is done: the cursor moves past the toBlock it holds now.
Finish(t) ==
  /\ pc[t] = "find"
  /\ pending[t] = {}
  /\ fromBlock' = toBlock + 1
  /\ EndTick(t)
  /\ UNCHANGED <<external, db, process, toBlock, history>>

Tick(t) ==
  \/ StartTick(t)
  \/ LastBlock(t)
  \/ LastBlockFails(t)
  \/ Fetch(t)
  \/ \E e \in Events : FindEvent(t, e)
  \/ SaveEvent(t)
  \/ DuplicateKey(t)
  \/ BeginHandler(t)
  \/ HandlerReturns(t)
  \/ TickFails(t)
  \/ Finish(t)

Next ==
  \/ MineBlock \/ Reorg
  \/ InitLoaded \/ Crash \/ Restart
  \/ \E t \in Ticks : Tick(t)

Spec == Init /\ [][Next]_vars

(***************************************************************************)
(* Fairness.  The cron job keeps firing, the process is restarted and the  *)
(* event loop resumes every await (weak fairness).  The node, the database *)
(* and the handlers fail at times but not for ever: an answer that can     *)
(* arrive again and again arrives in the end (strong fairness), for the    *)
(* lookup of each event separately.                                        *)
(***************************************************************************)
Fairness ==
  /\ WF_vars(Restart)
  /\ WF_vars(InitLoaded)
  /\ \A t \in Ticks :
       /\ WF_vars(StartTick(t))
       /\ SF_vars(BeginHandler(t))
       /\ SF_vars(LastBlock(t))
       /\ SF_vars(Fetch(t))
       /\ \A e \in Events : SF_vars(FindEvent(t, e))
       /\ SF_vars(SaveEvent(t))
       /\ SF_vars(HandlerReturns(t))
       /\ SF_vars(Finish(t))

FairSpec == Spec /\ Fairness

-----------------------------------------------------------------------------
(* Properties. *)

\* Types of the variables; a tick past findOne holds the log it works on.
TypeOK ==
  /\ head \in Nat
  /\ chain \in [Events -> Nat]
  /\ db \in [Events -> Nat]
  /\ phase \in {"down", "loading", "up"}
  /\ crashes \in Nat
  /\ fromBlock \in Int
  /\ toBlock \in Int
  /\ pc \in [Ticks -> {"idle", "head", "fetch", "find", "save", "begin",
                       "handling"}]
  /\ range \in [Ticks -> Int \X Int]
  /\ pending \in [Ticks -> SUBSET Entry]
  /\ cur \in [Ticks -> Entry \cup {NoEntry}]
  /\ \A t \in Ticks : pc[t] \in {"save", "begin", "handling"} => cur[t] \in Entry
  /\ begun \in [Events -> Nat]
  /\ applied \in SUBSET Events
  /\ orphans \in SUBSET Events

\* processEvent is called at most once for an event, however ticks overlap,
\* pages are read again and the process restarts: handlers add to balances and
\* volumes and are not idempotent.
AtMostOnce == \A e \in Events : begun[e] <= 1

\* What is recorded is where the chain finally has it: the blocks getEvents
\* stays behind the head are enough for the reorganisations that happen.
RecordedIsFinal == \A e \in Recorded : chain[e] = db[e]

\* An event that was recorded and never handled is in the hands of a tick, or
\* was left by a crash or a lost answer between the insert and the handler.
RecordedIsHandled ==
  \A e \in Recorded :
    \/ begun[e] > 0
    \/ e \in orphans
    \/ \E t \in Ticks : pc[t] = "begin" /\ cur[t].ev = e

\* The cursor never passes an event that was not recorded, whatever fails and
\* wherever the process crashes and resumes.
CursorSafe ==
  \A e \in Events :
    StartBlock <= chain[e] /\ chain[e] < fromBlock => e \in Recorded

\* Handlers are entered in chain order from START_BLOCK on: never an event before
\* one that a handler has already seen.  Events older than START_BLOCK are met
\* when the cursor falls back to 0, after newer ones (NothingBeforeStart).
InChainOrder ==
  [][\A e, f \in Events :
       begun'[e] > begun[e] /\ begun[f] > 0 /\ db[e] >= StartBlock
         => ~ Before([ev |-> e, blk |-> db[e]], [ev |-> f, blk |-> db[f]])]_vars

\* Every event that becomes final, with two blocks above it, is recorded: the
\* cursor does not get stuck on failures, crashes or handlers that throw.
EventuallyRecorded ==
  \A e \in Events :
    (StartBlock <= chain[e] /\ chain[e] <= head - Confirmations - 2)
      ~> (e \in Recorded)

\* README.md says START_BLOCK is the first block handled.
NothingBeforeStart == \A e \in Recorded : db[e] >= StartBlock

-----------------------------------------------------------------------------
(* Refinement: the stage of each event in the ledger. *)

StageOf(e) ==
  IF e \in applied THEN "applied"
  ELSE IF begun[e] > 0 THEN "begun"
  ELSE IF db[e] # 0 THEN "recorded"
  ELSE "unseen"

Stage == [e \in Events |-> StageOf(e)]

Ledger == INSTANCE EventLedger WITH stage <- Stage, calls <- begun

\* The life of an event through the service is the life the ledger promises.
LedgerSpec == Ledger!Spec
=============================================================================
