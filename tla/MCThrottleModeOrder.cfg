SPECIFICATION ThrottleSpec
CONSTANTS
  Timeouts = {0, 1, 2, 5}
  DefaultTimeout = 3
INVARIANTS DocumentedOrder
