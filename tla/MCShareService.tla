--------------------------- MODULE MCShareService ---------------------------
(* Instances of ShareService for TLC. *)
EXTENDS ShareService, TLC

UserSymmetry == Permutations(Users)
=============================================================================
