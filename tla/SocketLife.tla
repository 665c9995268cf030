------------------------------ MODULE SocketLife ------------------------------
(***************************************************************************)
(* What a gateway process promises of its sockets to whoever stops it: a   *)
(* socket is opened only before the stop, is closed once, is cleaned up    *)
(* after it has closed and before the stop returns, and is never used      *)
(* again.  Sockets are independent: a step may advance several of them.    *)
(* GatewaySocket implements this.                                          *)
(***************************************************************************)
CONSTANT Sockets

VARIABLES
  phase,  \* "none", "open", "closing", "cleaning" or "clean"
  stop    \* "up", "stopping" or "stopped"

lifeVars == <<phase, stop>>

Init ==
  /\ phase = [s \in Sockets |-> "none"]
  /\ stop = "up"

Open(s) == stop = "up" /\ phase[s] = "none" /\ phase'[s] = "open"

Close(s) == phase[s] = "open" /\ phase'[s] = "closing"

(* A socket nobody had authenticated on may have nothing to clean up. *)
Leave(s) == phase[s] = "closing" /\ phase'[s] \in {"cleaning", "clean"}

Clean(s) == phase[s] = "cleaning" /\ phase'[s] = "clean"

Step(s) == Open(s) \/ Close(s) \/ Leave(s) \/ Clean(s)

Ask == stop = "up" /\ stop' = "stopping"

(* The stop returns: nothing is open and nothing is being cleaned up. *)
Return ==
  /\ stop = "stopping"
  /\ \A s \in Sockets : phase[s] \in {"none", "clean"}
  /\ stop' = "stopped"

Next ==
  /\ phase' = [s \in Sockets |-> phase'[s]]
  /\ \A s \in Sockets : Step(s) \/ phase'[s] = phase[s]
  /\ Ask \/ Return \/ UNCHANGED stop

Spec == Init /\ [][Next]_lifeVars

=============================================================================
