----------------------------- MODULE EventLedger -----------------------------
(***************************************************************************)
(* What the ingestion of contract events promises for each single event,   *)
(* whatever ticks, crashes and node errors do: it is recorded once, its    *)
(* handler is called at most once and only after it was recorded, and the  *)
(* outcome of the handler is never taken back.  Nothing here promises that *)
(* a recorded event is applied: the code inserts before it handles.        *)
(***************************************************************************)
EXTENDS Naturals

CONSTANT Events

VARIABLES
  stage,  \* how far each event has come
  calls   \* calls of each event's handler

Stages == {"unseen", "recorded", "begun", "applied"}

TypeOK ==
  /\ stage \in [Events -> Stages]
  /\ calls \in [Events -> 0 .. 1]

Init ==
  /\ stage = [e \in Events |-> "unseen"]
  /\ calls = [e \in Events |-> 0]

Move(e, from, to) == stage[e] = from /\ stage' = [stage EXCEPT ![e] = to]

Record(e) == Move(e, "unseen", "recorded") /\ UNCHANGED calls
Begin(e)  == Move(e, "recorded", "begun") /\ calls' = [calls EXCEPT ![e] = @ + 1]
Apply(e)  == Move(e, "begun", "applied") /\ UNCHANGED calls

Next == \E e \in Events : Record(e) \/ Begin(e) \/ Apply(e)

Spec == Init /\ [][Next]_<<stage, calls>>
=============================================================================
