------------------------- MODULE MCRabbitConnection -------------------------
(* A small instance of RabbitConnection for TLC. *)
EXTENDS RabbitConnection

CONSTANTS c1, c2, c3, c4, p1, p2

=============================================================================
