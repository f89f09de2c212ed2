SPECIFICATION Spec
CONSTANTS
  Requests = {r1, r2, r3}
  Calls <- MCOneClient
  Restricted = {"SHIPPING"}
  Lifetimes = {2}
  Margin = 1
  TTL = 1
  MaxTokens = 3
  None = None
INVARIANT ConcurrentRequestsShare
SYMMETRY Symmetry
CHECK_DEADLOCK FALSE
