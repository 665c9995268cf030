\* A guild with a channel, and a DM: two handlers at a time, a setup after a
\* connection is lost, and the one before it; the connection is lost twice.
SPECIFICATION Spec
CONSTANTS
  g1 = g1
  g2 = g2
  c1 = c1
  c2 = c2
  d1 = d1
  Guilds = {g1}
  Channels = {c1, d1}
  NoGuild = NoGuild
  GuildOf <- MCGuildOf
  Events = {e1, e2}
  Setups = {s1, s2}
  MaxLosses = 2
SYMMETRY Handlers
INVARIANTS
  TypeOK
  NoLeak
  RouteNeedsPermission
  RoutesRecorded
  GuildHeard
CHECK_DEADLOCK FALSE
