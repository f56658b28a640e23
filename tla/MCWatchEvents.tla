---------------------------- MODULE MCWatchEvents ----------------------------
(* Instances of WatchEvents for TLC. *)
EXTENDS WatchEvents
=============================================================================
