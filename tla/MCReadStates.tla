---------------------------- MODULE MCReadStates ----------------------------
(* Small instances of ReadStates for TLC. *)
EXTENDS ReadStates, TLC

CONSTANTS r1, r2, r3

(* Requests are only told apart. *)
Callers == Permutations(Requests)

=============================================================================
