----------------------------- MODULE BusStatus ------------------------------
(***************************************************************************)
(* What RabbitMQ.ts promises the subscribers of its two events: there is   *)
(* one connection at a time, its channel is set up before "reconnected" is *)
(* announced, and a connection that was announced is not lost without      *)
(* "disconnected".  GuildRoutes and MemberRoutes take these steps, each    *)
(* with what the handlers of a socket do at it.                            *)
(***************************************************************************)

VARIABLES
  bus,    \* of the current connection
  heard   \* the event announced last

busVars == <<bus, heard>>

Init == bus = "down" /\ heard = "none"

Connect == bus = "down" /\ bus' = "connecting" /\ UNCHANGED heard

Announce == bus = "connecting" /\ bus' = "up" /\ heard' = "reconnected"

Lose == bus # "down" /\ bus' = "down" /\ heard' = "disconnected"

(* A connection without a channel is given up; nobody had heard of it. *)
Abandon == bus = "connecting" /\ bus' = "down" /\ UNCHANGED heard

(* The reply that ends the setup and the loss of the connection came at    *)
(* once: the loss is announced first.                                      *)
AnnounceLate ==
  /\ bus = "down" /\ heard = "disconnected"
  /\ heard' = "reconnected"
  /\ UNCHANGED bus

Next == Connect \/ Announce \/ Lose \/ Abandon \/ AnnounceLate

Spec == Init /\ [][Next]_busVars

=============================================================================
