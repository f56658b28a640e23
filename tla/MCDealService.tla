---------------------------- MODULE MCDealService ----------------------------
(* Instances of DealService for TLC. *)
EXTENDS DealService, TLC

Symmetric == Permutations(Hashes) \cup Permutations(Users)
             \cup Permutations(Requests) \cup Permutations(Ticks)
=============================================================================
