CONSTANTS
  Caller = {t1}
  Exchange = {e1, e2, e3}
  Quantity = {1}
  MaxInventory = 1
  Threshold = 1
  MaxHeld = 3
SPECIFICATION InventorySpec
INVARIANT LimitPerExchange
CHECK_DEADLOCK FALSE
