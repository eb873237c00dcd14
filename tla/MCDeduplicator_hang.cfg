CONSTANTS
  c1 = c1
  c2 = c2
  f1 = f1
  f2 = f2
  s1 = s1
  s2 = s2
  Caller = {c1}
  Fingerprint = {f1, f2}
  Shard = {s1}
  ShardOf <- SameOn
  Cooldown = 1
  CleanupSize = 1
  MaxTime = 3
SPECIFICATION FairSpec
PROPERTIES ChecksReturn
CHECK_DEADLOCK FALSE
