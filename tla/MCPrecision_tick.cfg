CONSTANTS
  PriceUnits = 1000
  QuantityUnits = 100000
  Orders <- MCOrders
SPECIFICATION ValidateCalls
INVARIANT AcceptedPricesOnTick
