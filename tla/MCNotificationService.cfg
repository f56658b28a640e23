SPECIFICATION NSpec

CONSTANTS
  Users = {u1, u2}
  Active = {u1}
  Emails = {e1, e2}
  Notices = {n1}
  EventChannel = ec
  Chats = {c1}
  Names = {nn}
  Watches = {w1}
  Labels = {l1}
  Types = {"Trading", "Auction"}
  Requests = {r1, r2}
  MaxRequests = 2
  MaxLosses = 1

SYMMETRY Symmetric

INVARIANTS
  NTypeOK
  OnlyProvenAddresses
  LinkedHasCode
  DeliveredOnce

PROPERTIES
  OwnFieldsOnly

CHECK_DEADLOCK FALSE
