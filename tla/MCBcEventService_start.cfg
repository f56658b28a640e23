SPECIFICATION Spec

CONSTANTS
  Events = {1, 2}
  Ticks = {1}
  StartBlock = 2
  PageSize = 2
  Confirmations = 1
  ReorgDepth = 1
  InitHead = 5
  InitChain <- ChainOldEvent
  MaxHead = 5
  MaxCrashes = 0

INVARIANTS
  NothingBeforeStart
