CONSTANTS
  BuyBooks <- MCBuyBooks
  SellBooks <- MCSellBooks
  Scale = 100
  Config <- MCConfig
  MinDepth = 1
  MaxSpreadBps = 20
  MinDepthLevels = 2
  MinTotalLiquidity = 12
  BuyFee = 1
  SellFee = 2
  PriceUnits = 1000
  QuantityUnits = 100000
  Orders <- MCOrders
  Trader = {t1, t2}
  Key = {k1, k2, k3}
  Size = {1, 2}
  Profit <- MCProfits
  Limits <- MCLimits
  InitialEquity = 10
  MaxPnl = 11
  Caller = {t1, t2}
  Exchange = {e1, e2}
  Quantity = {1}
  MaxInventory = 1
  Threshold = 1
  MaxHeld = 2
  Client = {t1, t2}
  Request = {1}
  Available = Available
  Capacity = 2
  UnitsPerToken = 2
  RefillRate = 1
  MaxInstant = 3
  x = x
  y = y
  z = z
  Task = {a1}
  Venue = {x, y, z}
  Registered = {x, y}
  Plan <- MCPlan
  Balance = {0, 1, 2}
SYMMETRY TaskKeySymmetry
SPECIFICATION TradingSpec
INVARIANTS CheckPairTypeOK ProfitNotOverstated BestLevelSuffices AcceptedIsBacked AcceptedOrdersMeetRules TypeOK OvershootBounded InventoryTypeOK InventoryBounded LimiterTypeOK WindowBounded TimeCreditedOnce ExecutorTypeOK OkMeansHedged NoOrderOutlivesExecute RefusalsTradeNothing
PROPERTIES UndisturbedCallsExact
CHECK_DEADLOCK FALSE
