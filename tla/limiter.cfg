CONSTANTS
  Sessions = {s1, s2}
  MaxRequests = 2
  Window = 2
  MaxTime = 5
SPECIFICATION Spec
INVARIANTS WindowBound RefusedOnlyWhenFull
