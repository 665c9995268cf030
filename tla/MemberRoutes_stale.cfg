\* Two lazy requests whose handlers overlap.
SPECIFICATION Spec
CONSTANTS
  u1 = u1
  u2 = u2
  g1 = g1
  g2 = g2
  Users = {u1, u2}
  Guilds = {g1}
  Direct = Direct
  Lists = {1, 2}
  Events = {e1}
  Setups = {s1}
  MaxLosses = 0
PROPERTY LaterListKept
CHECK_DEADLOCK FALSE
