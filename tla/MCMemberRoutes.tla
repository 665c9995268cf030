--------------------------- MODULE MCMemberRoutes ---------------------------
(* Small instances of MemberRoutes for TLC. *)
EXTENDS MemberRoutes, TLC

CONSTANTS u1, u2, g1, g2

(* Users, guilds and handlers are only compared for equality, so they may  *)
(* be permuted in runs of safety properties.                               *)
Symmetry ==
  UNION {Permutations({u1, u2}), Permutations({g1, g2}), Permutations(Events), Permutations(Setups)}

=============================================================================
