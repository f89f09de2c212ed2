SPECIFICATION Spec
CONSTANTS
  Unit = 2
  Throttle = 1
  Burst = 1
  InitRate = 1
  Rates = {0, 2}
  MinRate = 1
  MaxElapsed = 2
  Requests = {r1, r2, r3}
  Priorities = {0, 1}
  MaxDepth = 2
  MaxWait = 1
  None = None
SYMMETRY Symmetry
INVARIANTS NoLostWakeup Accounting OneTokenEach PriorityRespected
