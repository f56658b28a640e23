SPECIFICATION Spec

CONSTANTS
  Prices = {2, 3}
  Amounts = {1, 2}
  Day = 2
  Week = 3
  Month = 4
  Gap = 1
  Quarter = 1
  StartTime = 4
  Horizon = 8
  MaxWrites = 4
  Makers = {m1, m2}
  MaxShares = 3
  Sizes = {1, 3}
  MaxOrders = 3
  Fills = {f1, f2}
  OrdersCount = 3
  Costs <- ThreeWatches
  Traded = 1
  Limit = 2
  Parts = {"statistics", "orders", "watches"}

SYMMETRY Symmetric

INVARIANTS
  ChartTrue
  DayAgrees
  BestPrices
  FoundCanFill
  PagesCover

CHECK_DEADLOCK FALSE
