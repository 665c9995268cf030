\* Any three of two messages, two lost connections and a stop on a socket.
SPECIFICATION MCSpec
CONSTANTS
  s1 = s1
  i1 = i1
  r1 = r1
  Sockets = {s1}
  Identifies = {i1}
  Resumes = {r1}
  MaxLosses = 2
  MaxDisturbances = 3
INVARIANTS
  TypeOK
  StopAwaitsCleanups
  OnTimeCleaned
  HeardOnce
PROPERTIES
  ImplementsSocketLife
  AuthenticatedOrClosed
  ResubscribedOrClosed
  StopEnds
CHECK_DEADLOCK FALSE
