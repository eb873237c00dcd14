CONSTANTS
  BuyBooks <- MCBuyBooks
  SellBooks <- MCSellBooks
  Scale = 100
  Config <- MCConfig
  MinDepth = 1
  MaxSpreadBps = 20
  MinDepthLevels = 2
  MinTotalLiquidity = 12
  BuyFee = 1
  SellFee = 2
SPECIFICATION CheckPairSpec
INVARIANT RefusedLacksLiquidity
