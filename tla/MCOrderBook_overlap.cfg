SPECIFICATION FairSpec

CONSTANTS
  Orders = {"s1", "b1"}
  Sells = {"s1"}
  Price <- TwoPrices
  Count = 1
  StartPrice = 2
  Loaders = {l1, l2}
  MaxFailures = 1
  MaxCrashes = 0

INVARIANTS
  TypeOK
  ListedOnce

PROPERTIES
  BookCatchesUp

CHECK_DEADLOCK FALSE
