-------------------------- MODULE MCOrderLifecycle --------------------------
(* Instances of OrderLifecycle for TLC. *)
EXTENDS OrderLifecycle, TLC

\* Fill requests do the same.
FillSymmetry == Permutations(Fills)

=============================================================================
