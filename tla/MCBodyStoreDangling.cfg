SPECIFICATION Spec
CONSTANTS
  Entries = {1, 2}
  MaxHour = 2
  BatchSizes = {1, 2}
  RecentMaxAge = 0
  ArchiveMaxAge = 0
  MaxBytes = 1
  Faults = {}
  None = None
INVARIANTS
  NoDanglingRefs
CHECK_DEADLOCK FALSE
