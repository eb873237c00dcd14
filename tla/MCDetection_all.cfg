CONSTANTS
  k1 = k1
  c1 = c1
  c2 = c2
  r1 = r1
  r2 = r2
  Key = {k1}
  Conn = {c1, c2}
  KeyOf <- SharedKeyOf
  Reader = {r1, r2}
  Payload <- MCPayload
  MaxSeq = 3
  Task = {t1, t2}
  MaxReconnectAttempts = 3
  BaseBackoff = 1
  MaxBackoff = 3
  MaxOrphans = 3
  e1 = e1
  e2 = e2
  Exchange = {e1, e2}
  Symbols = 2
  Tops <- MCTops
  Configs <- MCConfigs
  Cooldown = 0
  CleanupSize = 1
  MaxTime = 2
SPECIFICATION DetectionSpec
INVARIANTS BooksTypeOK SnapshotsAreOneMessage ConnectionTypeOK AttemptsBounded TypeOK PricesWereHeld PassedIsPublished
PROPERTIES Refines QueuedMessagesLand BackoffGrows Settles PassesEnd
CHECK_DEADLOCK FALSE
