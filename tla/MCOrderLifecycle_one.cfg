SPECIFICATION Spec

CONSTANTS
  Orders = {o1}
  Shares = 2
  Ticks = {1}
  Fills = {r1, r2}
  Cancels = {c1}
  Conditions = {"AmountExceedsBalance"}
  PromptSaves = TRUE
  MaxLog = 1
  MaxPosts = 1
  MaxRequests = 2
  MaxTurns = 1
  MaxCrashes = 0

SYMMETRY FillSymmetry

INVARIANTS
  TypeOK
  DeadOrdersRetired
  ListedWithinEvents

PROPERTIES
  NeverReopened
