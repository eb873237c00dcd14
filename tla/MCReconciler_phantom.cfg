CONSTANTS
  k1 = k1
  m1 = m1
  o1 = o1
  o2 = o2
  Key = {k1}
  MapShard = {m1}
  MapShardOf <- OneMapShard
  Order = {o1, o2}
  KeyOf <- OneKey
  Quantity <- BuySell
  Reporter = {c1}
  Workers = 2
SPECIFICATION ReconcilerFairSpec
PROPERTIES PositionsConverge
CHECK_DEADLOCK FALSE
