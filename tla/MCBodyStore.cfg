SPECIFICATION Spec
CONSTANTS
  Entries = {1, 2}
  MaxHour = 2
  BatchSizes = {1, 2}
  RecentMaxAge = 0
  ArchiveMaxAge = 0
  MaxBytes = 1
  Faults = {"write", "insert", "put", "remove", "delete", "notify", "crash"}
  None = None
INVARIANTS
  KeptUntilRetention
  MissingMeansGone
PROPERTY
  ClearedOnlyIfDeleted
CHECK_DEADLOCK FALSE
