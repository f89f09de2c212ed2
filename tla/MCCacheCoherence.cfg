SPECIFICATION Spec
CONSTANTS
  Requests = {r1, r2, r3}
  Keys <- MCKeys
  Reads <- MCReads
  Writes <- MCWrites
  Begins <- MCBegins
  Values = {}
  Sizes = {1}
  TTLs = {1}
  MaxBytes = 0
  None = None
SYMMETRY Symmetry
INVARIANT FreshUnlessRaced
