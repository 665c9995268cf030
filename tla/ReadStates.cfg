\* Any three requests at a time on one row.
SPECIFICATION Spec
CONSTANTS
  r1 = r1
  r2 = r2
  r3 = r3
  Requests = {r1, r2, r3}
  LastMessage = 3
  NoRow = NoRow
SYMMETRY Callers
INVARIANTS
  TypeOK
  AcksRecorded
  MarkerWithinCursor
  NothingUnacknowledged
PROPERTY ForwardsUnlessPatched
CHECK_DEADLOCK FALSE
