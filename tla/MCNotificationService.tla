----------------------- MODULE MCNotificationService -----------------------
(* Instances of NotificationService for TLC. *)
EXTENDS NotificationService, TLC

Symmetric == Permutations(Emails) \cup Permutations(Requests)
=============================================================================
