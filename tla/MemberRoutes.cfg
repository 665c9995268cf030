\* One user in two lists: every handler against every other, two lazy requests,
\* two events and two setups at a time, a connection that is lost twice.
SPECIFICATION Spec
CONSTANTS
  u1 = u1
  u2 = u2
  g1 = g1
  g2 = g2
  Users = {u1}
  Guilds = {g1, g2}
  Direct = Direct
  Lists = {1, 2}
  Events = {e1, e2}
  Setups = {s1, s2}
  MaxLosses = 2
SYMMETRY Symmetry
INVARIANTS
  TypeOK
  NoLeak
  IndexesAgree
  MemberTracked
  Covered
PROPERTY NeverInterrupted
CHECK_DEADLOCK FALSE
