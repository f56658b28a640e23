SPECIFICATION FairSpec

CONSTANTS
  Orders = {"s1", "s2", "b1"}
  Sells = {"s1", "s2"}
  Price <- Prices
  Count = 1
  StartPrice = 2
  Loaders = {l1}
  MaxFailures = 0
  MaxCrashes = 1

PROPERTIES
  PriceCatchesUp

CHECK_DEADLOCK FALSE
