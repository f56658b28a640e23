SPECIFICATION FairSpec

CONSTANTS
  Events = {1, 2, 3}
  Ticks = {1}
  StartBlock = 3
  PageSize = 2
  Confirmations = 1
  ReorgDepth = 1
  InitHead = 3
  InitChain <- ChainNewestMined
  MaxHead = 6
  MaxCrashes = 1

INVARIANTS
  TypeOK
  CursorSafe
  RecordedIsHandled
  RecordedIsFinal

PROPERTIES
  InChainOrder
  EventuallyRecorded
