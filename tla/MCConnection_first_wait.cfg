CONSTANTS
  Task = {t1}
  MaxReconnectAttempts = 3
  BaseBackoff = 1
  MaxBackoff = 3
  MaxOrphans = 3
SPECIFICATION ConnectionFairSpec
PROPERTY FirstWaitIsBase
CHECK_DEADLOCK FALSE
