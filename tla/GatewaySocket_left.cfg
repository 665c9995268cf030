\* A socket that closes before its handler has set up the listener.
SPECIFICATION Spec
CONSTANTS
  s1 = s1
  i1 = i1
  r1 = r1
  Sockets = {s1}
  Identifies = {i1}
  Resumes = {r1}
  MaxLosses = 1
  MaxDisturbances = 3
INVARIANT ClosedLeavesNothing
CHECK_DEADLOCK FALSE
