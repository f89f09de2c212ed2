SPECIFICATION Spec
CONSTANTS
  Requests = {r1, r2, r3}
  Calls <- MCCalls
  Restricted = {"SHIPPING"}
  Lifetimes = {0, 2}
  Margin = 1
  TTL = 1
  MaxTokens = 3
  None = None
INVARIANTS
  
  NoDuplicateMint
  RejectedStaysOut
  TrackedTypesTrue
SYMMETRY Symmetry
CHECK_DEADLOCK FALSE
