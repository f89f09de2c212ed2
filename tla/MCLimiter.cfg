SPECIFICATION FairSpec
CONSTANTS
  Requests = {r1, r2}
  Keys = {k1}
  Known = {k1}
  AppLimited = {}
  App = App
  MaxEntries = 4
  Burst = 1
  MaxDepth = 1
  TTL = 1
  Modes = {"queue", "reject", "queue-timeout"}
  Announced = {TRUE, FALSE}
  None = None
INVARIANT NoLeakedDispatcher
PROPERTY EveryRequestAnswered
