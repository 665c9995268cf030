\* Three faults, so at most four connections; two callers beside connect.
SPECIFICATION FairSpec
CONSTANTS
  c1 = c1
  c2 = c2
  c3 = c3
  c4 = c4
  p1 = p1
  p2 = p2
  Connections = {c1, c2, c3, c4}
  Callers = {p1, p2}
  MaxFaults = 3
  None = None
INVARIANTS
  TypeOK
  OneReconnection
  CachedChannelUsable
PROPERTIES
  Reconnects
  ImplementsBus
CHECK_DEADLOCK FALSE
