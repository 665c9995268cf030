--------------------------- MODULE MCGatewaySocket ---------------------------
(* Small instances of GatewaySocket for TLC. *)
EXTENDS GatewaySocket, FiniteSets

CONSTANTS s1, i1, r1, MaxDisturbances

(* What comes from outside: messages, lost connections and the stop.  The   *)
(* bound takes any of them in any order, MaxDisturbances together; no step  *)
(* that is fair counts as one, so the bound blocks none.                    *)
Disturbances ==
  Cardinality({m \in Messages : sock[m] # NoSocket}) + losses
    + (IF server = "up" THEN 0 ELSE 1)

MCNext == Next /\ Disturbances' <= MaxDisturbances

MCSpec == Init /\ [][MCNext]_vars /\ Fairness

=============================================================================
