\* A PATCH that races with an acknowledgement.
SPECIFICATION Spec
CONSTANTS
  r1 = r1
  r2 = r2
  r3 = r3
  Requests = {r1, r2, r3}
  LastMessage = 3
  NoRow = NoRow
SYMMETRY Callers
PROPERTY CursorForwardsOnly
CHECK_DEADLOCK FALSE
