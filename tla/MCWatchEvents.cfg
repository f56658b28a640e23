SPECIFICATION FairSpec

CONSTANTS
  Tick = tick
  Requests = {r}
  MaxProposals = 2
  MaxPrice = 2
  MaxEdits = 1
  Window = 1
  MaxTime = 1
  MaxLog = 1
  MaxLosses = 1

INVARIANTS
  WatchAgrees
  ProposalsAgree

PROPERTIES
  NeverBack
  ListCatchesUp

CHECK_DEADLOCK FALSE
