---------------------------- MODULE MCGuildRoutes ----------------------------
(* Small instances of GuildRoutes for TLC. *)
EXTENDS GuildRoutes, TLC

CONSTANTS g1, g2, c1, c2, d1

(* c1 and c2 are channels of g1, d1 is a direct-message channel. *)
MCGuildOf ==
  [x \in Routes |-> IF x \in Guilds THEN x ELSE IF x = d1 THEN NoGuild ELSE g1]

(* Handlers are only told apart, and setups likewise. *)
Handlers == Permutations(Events) \cup Permutations(Setups)

=============================================================================
