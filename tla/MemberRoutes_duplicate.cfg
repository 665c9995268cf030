\* A friend and a list member at once.
SPECIFICATION Spec
CONSTANTS
  u1 = u1
  u2 = u2
  g1 = g1
  g2 = g2
  Users = {u1}
  Guilds = {g1}
  Direct = Direct
  Lists = {}
  Events = {e1, e2}
  Setups = {s1}
  MaxLosses = 0
INVARIANT NoDuplicateListener
CHECK_DEADLOCK FALSE
