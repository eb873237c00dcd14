CONSTANTS
  Trader = {t1}
  Key = {k1}
  Size = {1}
  Profit = {1}
  Limits <- MCLimits
  InitialEquity = 10
  MaxPnl = 3
SPECIFICATION Spec
PROPERTY DrawdownTripsAreDrawdowns
CHECK_DEADLOCK FALSE
