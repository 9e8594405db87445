\* The service thread of 2_2_2.htm:49, two sessions one after the other in one buffer.
SPECIFICATION Spec
CONSTANTS
  Sessions = {s1, s2}
  BUFFERS = 1
  Requests = {"data"}
  Failures = {}
  Outsider = Outsider
  None = None
CHECK_DEADLOCK FALSE
SYMMETRY SessionSymmetry
INVARIANT
  Isolation
