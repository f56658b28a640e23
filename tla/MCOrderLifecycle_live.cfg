SPECIFICATION FairSpec

CONSTANTS
  Orders = {o1}
  Shares = 2
  Ticks = {1}
  Fills = {r1}
  Cancels = {}
  Conditions = {"AmountExceedsBalance"}
  PromptSaves = TRUE
  MaxLog = 2
  MaxPosts = 2
  MaxRequests = 1
  MaxTurns = 0
  MaxCrashes = 1

INVARIANTS
  AcceptedAccountedFor
  RemainingAgrees

PROPERTIES
  DeadOrdersLeaveBook
  OverstatedOrdersLeaveBook
  GhostsCorrected
