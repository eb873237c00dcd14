CONSTANTS
  c1 = c1
  c2 = c2
  f1 = f1
  f2 = f2
  s1 = s1
  s2 = s2
  Caller = {c1, c2}
  Fingerprint = {f1, f2}
  Shard = {s1, s2}
  ShardOf <- ApartOn
  Cooldown = 1
  CleanupSize = 1
  MaxTime = 3
  k1 = k1
  m1 = m1
  o1 = o1
  o2 = o2
  o3 = o3
  Key = {k1}
  MapShard = {m1}
  MapShardOf <- OneMapShard
  Order = {o1, o2, o3}
  KeyOf <- OneKey
  Quantity <- Trades
  Reporter = {r1, r2}
  Workers = 2
SPECIFICATION MapsSpec
INVARIANTS TypeOK ReconcilerTypeOK DriftBounded
PROPERTIES RefinesGate MarksOutliveCooldown UnexpiredCallsReturn ReportedPositionsConverge CallsReturn
CHECK_DEADLOCK FALSE
