\* A bucket with no burst starts empty, so that both requests may have to wait
\* and find the queue full; a response may announce a zero rate (floored).
SPECIFICATION FairSpec
CONSTANTS
  Unit = 1
  Throttle = 1
  Burst = 0
  InitRate = 1
  Rates = {0}
  MinRate = 1
  MaxElapsed = 1
  Requests = {r1, r2}
  Priorities = {1}
  MaxDepth = 1
  MaxWait = 1
  None = None
PROPERTIES ImplementsAdmission WaitersReturn StopEndsDispatcher
