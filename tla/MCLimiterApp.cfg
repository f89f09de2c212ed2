\* Under an application-wide limit, with a limit of its own only, and unknown.
SPECIFICATION Spec
CONSTANTS
  Requests = {r1, r2}
  Keys = {k1, k2, k3}
  Known = {k1, k2}
  AppLimited = {k1}
  App = App
  MaxEntries = 4
  Burst = 1
  MaxDepth = 1
  TTL = 1
  Modes = {"queue", "reject"}
  Announced = {FALSE}
  None = None
SYMMETRY Symmetry
INVARIANTS KeysKeptApart PaidInFull AnswersFit NoneRunAfterStop
