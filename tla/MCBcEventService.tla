-------------------------- MODULE MCBcEventService --------------------------
(* Instances of BcEventService for TLC. *)
EXTENDS BcEventService, TLC

\* Events 1 and 2 are mined before the service first starts, in one block;
\* event 3 comes later.
ChainTwoMined == (1 :> 1) @@ (2 :> 1) @@ (3 :> 0)

\* Event 1 is older than the start block, event 2 in the newest block; event 3
\* comes later.
ChainNewestMined == (1 :> 1) @@ (2 :> 3) @@ (3 :> 0)

\* One event older than the start block, one at it.
ChainOldEvent == (1 :> 1) @@ (2 :> 2)
=============================================================================
