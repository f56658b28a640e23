SPECIFICATION Spec

CONSTANTS
  Events = {1, 2, 3}
  Ticks = {1, 2}
  StartBlock = 1
  PageSize = 2
  Confirmations = 1
  ReorgDepth = 1
  InitHead = 2
  InitChain <- ChainTwoMined
  MaxHead = 5
  MaxCrashes = 1

INVARIANTS
  AtMostOnce

PROPERTIES
  LedgerSpec
