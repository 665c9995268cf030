------------------------ MODULE GatewaySocket_proofs ------------------------
(* Theorems about GatewaySocket, for any sockets, messages and losses. *)
EXTENDS GatewaySocket, TLAPS

(* A lost connection has been counted. *)
LossInv == ~connection => losses >= 1

(* TypeOK, the booleans apart. *)
FlagsOK == connection \in BOOLEAN /\ user \in [Sockets -> BOOLEAN]

SocketsOK ==
  /\ ws \in [Sockets -> {"none", "open", "closing", "closed"}]
  /\ readyTimeout \in [Sockets -> {"hello", "armed", "off"}]
  /\ losses \in 0 .. MaxLosses
  /\ server \in {"up", "notifying", "closing", "draining", "stopped"}
  /\ snapshot \subseteq Sockets

HandlersOK ==
  /\ pc \in [Messages -> {"unsent", "token", "reject", "setup", "failed", "done"}]
  /\ sock \in [Messages -> Sockets \cup {NoSocket}]
  /\ stage \in [Setups -> {"none", "load", "channel", "user", "reads", "guild",
                           "rejected", "failed", "over", "late"}]

Slots == Setups \cup {NoSetup, Dead, Gone}

ListenersOK ==
  /\ channel \in [Messages -> Setups \cup {NoSetup}]
  /\ events \in [Sockets -> [Groups -> Slots]]
  /\ channels \subseteq Setups
  /\ listening \subseteq Listen
  /\ consumers \subseteq Listen
  /\ hooks \subseteq Messages

CleanupsOK ==
  /\ unfinished \subseteq Sockets \X Parts
  /\ closeCleanup \in [Sockets -> SUBSET Parts]

LEMMA TypeParts ==
  TypeOK <=> FlagsOK /\ SocketsOK /\ HandlersOK /\ ListenersOK /\ CleanupsOK
BY Zenon DEF TypeOK, FlagsOK, SocketsOK, HandlersOK, ListenersOK, Slots, CleanupsOK

LEMMA SetupType == \A x \in Setups : x[1] \in Messages /\ x[2] \in 0 .. MaxLosses /\ x = <<x[1], x[2]>>
BY DEF Setups

(* Closing sockets changes no socket but open ones. *)
LEMMA ClosedType ==
  ASSUME SocketsOK, NEW S
  PROVE  /\ Closed(S) \in [Sockets -> {"none", "open", "closing", "closed"}]
         /\ \A s \in Sockets : Closed(S)[s] = ws[s] \/ (ws[s] = "open" /\ Closed(S)[s] = "closing")
BY DEF Closed, SocketsOK

LEMMA ReconnectionsType ==
  FlagsOK /\ SocketsOK /\ LossInv => Reconnections \in 0 .. MaxLosses
<1>. SUFFICES ASSUME FlagsOK, SocketsOK, LossInv PROVE Reconnections \in 0 .. MaxLosses
  OBVIOUS
<1>. USE ConstantsAssumption DEF SocketsOK
<1>1. CASE connection
  BY <1>1 DEF Reconnections
<1>2. CASE ~connection
  BY <1>2 DEF Reconnections, LossInv
<1>. QED  BY <1>1, <1>2

-----------------------------------------------------------------------------
(* What the step of a setup may be, as far as its control goes. *)
Running == {"load", "channel", "user", "reads", "guild", "rejected"}

GoesOn(x) ==
  /\ \E t \in Running : stage' = [stage EXCEPT ![x] = t]
  /\ UNCHANGED <<pc, hooks, ws>>

Ends(x) == EndSetup(x) /\ UNCHANGED ws

Fails(x) ==
  /\ stage' = [stage EXCEPT ![x] = IF ws[SocketOf(x)] = "closed" THEN "late" ELSE "failed"]
  /\ pc' = [pc EXCEPT ![x[1]] = IF @ = "setup" THEN "failed" ELSE @]
  /\ ws' = Closed({SocketOf(x)})
  /\ UNCHANGED <<hooks, events, consumers>>

Straggles(x) ==
  /\ stage[x] \in {"failed", "late"}
  /\ stage' = [stage EXCEPT ![x] = IF ws[SocketOf(x)] = "closed" THEN "late" ELSE @]
  /\ UNCHANGED <<pc, hooks, ws>>

LEMMA GuildsSubscribed ==
  ASSUME NEW x, NEW E, NEW L, SubscribeGuilds(x, E, L), UNCHANGED ws
  PROVE  /\ GoesOn(x) \/ Ends(x)
         /\ events' = E \/ (/\ ~(connection /\ Free(SocketOf(x), "guild"))
                            /\ events' = [E EXCEPT ![SocketOf(x)]["guild"] = IF @ = NoSetup THEN Dead ELSE @])
         /\ listening' = L \/ listening' = L \cup {[by |-> x, group |-> "guild", channel |-> channel'[x[1]]]}
BY DEF SubscribeGuilds, GoesOn, Ends, Running

LEMMA UsersSubscribed ==
  ASSUME NEW x, NEW E, NEW L, UserSubscribed(x, E, L), UNCHANGED ws
  PROVE  /\ GoesOn(x) \/ Ends(x)
         /\ events' = E \/ (/\ ~(connection /\ Free(SocketOf(x), "guild"))
                            /\ events' = [E EXCEPT ![SocketOf(x)]["guild"] = IF @ = NoSetup THEN Dead ELSE @])
         /\ listening' = L \/ listening' = L \cup {[by |-> x, group |-> "guild", channel |-> channel'[x[1]]]}
<1>1. CASE AtHand(x)
  BY <1>1, GuildsSubscribed DEF UserSubscribed
<1>2. CASE ~AtHand(x)
  BY <1>2 DEF UserSubscribed, GoesOn, Running
<1>. QED  BY <1>1, <1>2

LEMMA SetupRest ==
  ASSUME NEW x \in Setups, SetupStep(x)
  PROVE  /\ UNCHANGED <<readyTimeout, user, sock, connection, losses, unfinished, closeCleanup,
                        server, snapshot>>
         /\ ws' = ws \/ ws' = Closed({SocketOf(x)})
BY DEF SetupStep, Loaded, PermissionsRead, ChannelCreated, Listened, SetupFails, ClosedByFailure,
   busVars, cleanupVars, serverVars

LEMMA SetupControl ==
  ASSUME NEW x \in Setups, SetupStep(x)
  PROVE  \/ stage[x] \in Running /\ (GoesOn(x) \/ Ends(x) \/ Fails(x))
         \/ Straggles(x)
<1>1. CASE Loaded(x)
  <2>1. stage[x] \in Running /\ UNCHANGED ws
    BY <1>1 DEF Loaded, Running
  <2>2. CASE connection
    BY <1>1, <2>1, <2>2 DEF Loaded, GoesOn, Running
  <2>3. CASE ~connection
    BY <1>1, <2>1, <2>3, UsersSubscribed DEF Loaded
  <2>. QED  BY <2>2, <2>3
<1>2. CASE ChannelCreated(x)
  <2>1. stage[x] \in Running /\ UNCHANGED ws
    BY <1>2 DEF ChannelCreated, Running
  <2>2. CASE Free(SocketOf(x), "user")
    BY <1>2, <2>1, <2>2 DEF ChannelCreated, GoesOn, Running
  <2>3. CASE ~Free(SocketOf(x), "user")
    BY <1>2, <2>1, <2>3, UsersSubscribed DEF ChannelCreated
  <2>. QED  BY <2>2, <2>3
<1>3. CASE PermissionsRead(x)
  BY <1>3, GuildsSubscribed DEF PermissionsRead, Running
<1>4. CASE SetupFails(x)
  BY <1>4 DEF SetupFails, Fails, ClosedByFailure, Running
<1>5. ASSUME NEW l \in listening, l.by = x, Listened(l)
      PROVE  (stage[x] \in Running /\ (GoesOn(x) \/ Ends(x))) \/ Straggles(x)
  <2>1. UNCHANGED ws
    BY <1>5 DEF Listened
  <2>2. CASE stage[x] = "user"
    BY <1>5, <2>1, <2>2, UsersSubscribed DEF Listened, Running
  <2>3. CASE stage[x] = "guild"
    BY <1>5, <2>1, <2>3 DEF Listened, Ends, Running
  <2>4. CASE stage[x] \in {"failed", "late"}
    BY <1>5, <2>1, <2>4 DEF Listened, Straggles
  <2>. QED  BY <1>5, <2>2, <2>3, <2>4 DEF Listened
<1>. QED  BY <1>1, <1>2, <1>3, <1>4, <1>5 DEF SetupStep

(* The steps of the broker, as far as sockets and cleanups go. *)
LEMMA BrokerRest ==
  ASSUME Disconnected \/ Reconnected \/ \E x \in Setups : ChannelClosed(x)
  PROVE  UNCHANGED <<ws, readyTimeout, user, pc, sock, hooks, unfinished, closeCleanup,
                     server, snapshot>>
BY DEF Disconnected, Reconnected, ChannelClosed, handlerVars, cleanupVars, serverVars

-----------------------------------------------------------------------------
LEMMA FlagsStep == TypeOK /\ LossInv /\ [Next]_vars => FlagsOK' /\ LossInv'
<1>. SUFFICES ASSUME TypeOK, LossInv, [Next]_vars PROVE FlagsOK' /\ LossInv'
  OBVIOUS
<1>0. FlagsOK /\ losses \in 0 .. MaxLosses /\ MaxLosses \in Nat
  BY ConstantsAssumption DEF TypeOK, FlagsOK
<1>1. CASE UNCHANGED <<connection, losses, user>>
  <2>1. FlagsOK'
    BY <1>0, <1>1, Zenon DEF FlagsOK
  <2>2. LossInv'
    BY <1>1, Zenon DEF LossInv
  <2>. QED  BY <2>1, <2>2
<1>2. ASSUME NEW m \in Messages, TokenAccepted(m) PROVE FlagsOK' /\ LossInv'
  <2>1. FlagsOK'
    BY <1>0, <1>2, Zenon DEF FlagsOK, TokenAccepted, busVars
  <2>2. LossInv'
    BY <1>2, Zenon DEF LossInv, TokenAccepted, busVars
  <2>. QED  BY <2>1, <2>2
<1>3. CASE Disconnected
  <2>1. FlagsOK'
    BY <1>0, <1>3, Zenon DEF FlagsOK, Disconnected
  <2>2. LossInv'
    BY <1>0, <1>3 DEF LossInv, Disconnected
  <2>. QED  BY <2>1, <2>2
<1>4. CASE Reconnected
  BY <1>0, <1>4, Zenon DEF FlagsOK, LossInv, Reconnected
<1>5. ASSUME NEW s \in Sockets, SocketStep(s) PROVE UNCHANGED <<connection, losses, user>>
  BY <1>5 DEF SocketStep, Connect, HelloSent, ReadyTimeout, HeartbeatTimeout, SocketClosed,
              SessionCleaned, busVars
<1>6. ASSUME NEW m \in Messages, MessageStep(m), ~TokenAccepted(m)
      PROVE  UNCHANGED <<connection, losses, user>>
  BY <1>6 DEF MessageStep, Receive, TokenRejected, InvalidSessionSent, ListenerCleaned, busVars
<1>7. ASSUME NEW x \in Setups, SetupStep(x) \/ ChannelClosed(x)
      PROVE  UNCHANGED <<connection, losses, user>>
  BY <1>7, SetupRest DEF ChannelClosed, busVars
<1>8. CASE ServerStep
  BY <1>1, <1>8 DEF ServerStep, StopBegins, CloseClients, ClientsClosed, Stopped, busVars
<1>9. CASE UNCHANGED vars
  BY <1>1, <1>9 DEF vars, busVars
<1>. QED  BY <1>1, <1>2, <1>3, <1>4, <1>5, <1>6, <1>7, <1>8, <1>9 DEF Next

LEMMA SocketsStep == TypeOK /\ [Next]_vars => SocketsOK'
<1>. SUFFICES ASSUME TypeOK, [Next]_vars PROVE SocketsOK'
  OBVIOUS
<1>0. SocketsOK /\ HandlersOK /\ MaxLosses \in Nat
  BY TypeParts, ConstantsAssumption
<1>. DEFINE Rest == UNCHANGED <<losses, server, snapshot>>
<1>1. ASSUME NEW s \in Sockets, SocketStep(s) PROVE SocketsOK'
  <2>1. ws' \in [Sockets -> {"none", "open", "closing", "closed"}]
    BY <1>0, <1>1, ClosedType DEF SocketsOK, SocketStep, Connect, HelloSent, ReadyTimeout,
       HeartbeatTimeout, SocketClosed, SessionCleaned
  <2>2. readyTimeout' \in [Sockets -> {"hello", "armed", "off"}]
    BY <1>0, <1>1 DEF SocketsOK, SocketStep, Connect, HelloSent, ReadyTimeout,
       HeartbeatTimeout, SocketClosed, SessionCleaned
  <2>3. Rest
    BY <1>1 DEF SocketStep, Connect, HelloSent, ReadyTimeout, HeartbeatTimeout, SocketClosed,
       SessionCleaned, busVars, serverVars
  <2>. QED  BY <1>0, <2>1, <2>2, <2>3 DEF SocketsOK
<1>2. ASSUME NEW m \in Messages, MessageStep(m) PROVE SocketsOK'
  <2>1. ws' \in [Sockets -> {"none", "open", "closing", "closed"}]
    <3>1. UNCHANGED ws \/ \E s \in Sockets \cup {NoSocket} : ws' = Closed({s})
      BY <1>0, <1>2 DEF HandlersOK, MessageStep, Receive, TokenAccepted, TokenRejected,
         InvalidSessionSent, ClosedAfterAnswer, ListenerCleaned
    <3>. QED  BY <1>0, <3>1, ClosedType DEF SocketsOK
  <2>2. readyTimeout' \in [Sockets -> {"hello", "armed", "off"}]
    BY <1>0, <1>2 DEF SocketsOK, MessageStep, Receive, TokenAccepted, TokenRejected,
       InvalidSessionSent, ListenerCleaned
  <2>3. Rest
    BY <1>2 DEF MessageStep, Receive, TokenAccepted, TokenRejected, InvalidSessionSent,
       ListenerCleaned, busVars, serverVars
  <2>. QED  BY <1>0, <2>1, <2>2, <2>3 DEF SocketsOK
<1>3. ASSUME NEW x \in Setups, SetupStep(x) PROVE SocketsOK'
  <2>1. Rest /\ readyTimeout' = readyTimeout /\ (ws' = ws \/ ws' = Closed({SocketOf(x)}))
    BY <1>3, SetupRest
  <2>. QED  BY <1>0, <2>1, ClosedType DEF SocketsOK
<1>4. CASE Disconnected \/ Reconnected \/ \E x \in Setups : ChannelClosed(x)
  <2>1. losses' \in 0 .. MaxLosses
    BY <1>0, <1>4 DEF SocketsOK, Disconnected, Reconnected, ChannelClosed, busVars
  <2>. QED  BY <1>0, <1>4, <2>1, BrokerRest DEF SocketsOK
<1>5. CASE ServerStep
  <2>1. ws' = ws \/ ws' = Closed(Clients)
    BY <1>5 DEF ServerStep, StopBegins, CloseClients, ClientsTold, ClientsClosed, Stopped
  <2>2. /\ server' \in {"up", "notifying", "closing", "draining", "stopped"}
        /\ snapshot' = snapshot \/ snapshot' = Clients
        /\ UNCHANGED <<readyTimeout, losses>>
    BY <1>5 DEF ServerStep, StopBegins, CloseClients, ClientsClosed, Stopped, busVars
  <2>. QED  BY <1>0, <2>1, <2>2, ClosedType DEF SocketsOK, Clients
<1>6. CASE UNCHANGED vars
  BY <1>0, <1>6 DEF SocketsOK, vars, busVars, serverVars
<1>. QED  BY <1>1, <1>2, <1>3, <1>4, <1>5, <1>6 DEF Next

LEMMA HandlersStep == TypeOK /\ LossInv /\ [Next]_vars => HandlersOK'
<1>. SUFFICES ASSUME TypeOK, LossInv, [Next]_vars PROVE HandlersOK'
  OBVIOUS
<1>0. FlagsOK /\ SocketsOK /\ HandlersOK
  BY TypeParts
<1>. DEFINE Stages == {"none", "load", "channel", "user", "reads", "guild", "rejected",
                       "failed", "over", "late"}
<1>1. ASSUME NEW s \in Sockets, SocketStep(s) PROVE HandlersOK'
  BY <1>0, <1>1 DEF HandlersOK, SocketStep, Connect, HelloSent, ReadyTimeout, HeartbeatTimeout,
     SocketClosed, SessionCleaned, handlerVars
<1>2. ASSUME NEW m \in Messages, MessageStep(m) PROVE HandlersOK'
  <2>1. pc' \in [Messages -> {"unsent", "token", "reject", "setup", "failed", "done"}]
    BY <1>0, <1>2 DEF HandlersOK, MessageStep, Receive, TokenAccepted, TokenRejected,
       InvalidSessionSent, ListenerCleaned, handlerVars
  <2>2. sock' \in [Messages -> Sockets \cup {NoSocket}]
    BY <1>0, <1>2 DEF HandlersOK, MessageStep, Receive, TokenAccepted, TokenRejected,
       InvalidSessionSent, ListenerCleaned, handlerVars
  <2>3. stage' = stage \/ stage' = [stage EXCEPT ![<<m, Reconnections>>] = "load"]
    BY <1>2 DEF MessageStep, Receive, TokenAccepted, TokenRejected, InvalidSessionSent,
       ListenerCleaned, handlerVars
  <2>4. stage' \in [Setups -> Stages]
    BY <1>0, <2>3, ReconnectionsType DEF HandlersOK
  <2>. QED  BY <2>1, <2>2, <2>4 DEF HandlersOK
<1>3. ASSUME NEW x \in Setups, SetupStep(x) PROVE HandlersOK'
  <2>1. \/ pc' = pc
        \/ \E p \in {"done", "failed", pc[x[1]]} : pc' = [pc EXCEPT ![x[1]] = p]
    BY <1>3, SetupControl DEF GoesOn, Ends, EndSetup, Fails, Straggles
  <2>2. \E t \in Stages : stage' = [stage EXCEPT ![x] = t]
    BY <1>0, <1>3, SetupControl DEF HandlersOK, GoesOn, Running, Ends, EndSetup, Fails, Straggles
  <2>3. sock' = sock
    BY <1>3, SetupRest
  <2>4. x[1] \in Messages
    BY SetupType
  <2>5. pc' \in [Messages -> {"unsent", "token", "reject", "setup", "failed", "done"}]
    BY <1>0, <2>1, <2>4 DEF HandlersOK
  <2>. QED  BY <1>0, <2>2, <2>3, <2>5 DEF HandlersOK
<1>4. CASE Disconnected \/ Reconnected \/ \E x \in Setups : ChannelClosed(x)
  <2>1. stage' \in [Setups -> Stages]
    BY <1>0, <1>4 DEF HandlersOK, Disconnected, Reconnected, ChannelClosed, handlerVars
  <2>. QED  BY <1>0, <1>4, <2>1, BrokerRest DEF HandlersOK
<1>5. CASE ServerStep
  BY <1>0, <1>5 DEF HandlersOK, ServerStep, StopBegins, CloseClients, ClientsClosed, Stopped,
     handlerVars
<1>6. CASE UNCHANGED vars
  BY <1>0, <1>6 DEF HandlersOK, vars, handlerVars
<1>. QED  BY <1>1, <1>2, <1>3, <1>4, <1>5, <1>6 DEF Next

(* What a setup stores and asks for is typed. *)
LEMMA TakingType ==
  ASSUME ListenersOK, NEW s, NEW g, NEW y \in Slots
  PROVE  Taking(s, g, y) \in [Sockets -> [Groups -> Slots]]
BY DEF Taking, ListenersOK

LEMMA SubscribedType ==
  ASSUME NEW x \in Setups, NEW E, NEW L, UserSubscribed(x, E, L) \/ SubscribeGuilds(x, E, L),
         UNCHANGED ws,
         E \in [Sockets -> [Groups -> Slots]], L \subseteq Listen,
         channel' \in [Messages -> Setups \cup {NoSetup}]
  PROVE  events' \in [Sockets -> [Groups -> Slots]] /\ listening' \subseteq Listen
<1>1. channel'[x[1]] \in Setups \cup {NoSetup}
  BY SetupType
<1>2. [by |-> x, group |-> "guild", channel |-> channel'[x[1]]] \in Listen
  BY <1>1 DEF Listen, Groups
<1>3. [E EXCEPT ![SocketOf(x)]["guild"] = IF @ = NoSetup THEN Dead ELSE @]
        \in [Sockets -> [Groups -> Slots]]
  BY DEF Slots
<1>4. /\ \/ events' = E
         \/ events' = [E EXCEPT ![SocketOf(x)]["guild"] = IF @ = NoSetup THEN Dead ELSE @]
      /\ \/ listening' = L
         \/ listening' = L \cup {[by |-> x, group |-> "guild", channel |-> channel'[x[1]]]}
  <2>1. CASE UserSubscribed(x, E, L)
    BY <2>1, UsersSubscribed
  <2>2. CASE SubscribeGuilds(x, E, L)
    BY <2>2, GuildsSubscribed
  <2>. QED  BY <2>1, <2>2
<1>. QED  BY <1>2, <1>3, <1>4

LEMMA SetupListens ==
  ASSUME ListenersOK, NEW x \in Setups, SetupStep(x)
  PROVE  /\ channel' \in [Messages -> Setups \cup {NoSetup}]
         /\ channels' \subseteq Setups
         /\ events' \in [Sockets -> [Groups -> Slots]]
         /\ listening' \subseteq Listen
         /\ consumers' \subseteq Listen
<1>. USE DEF ListenersOK
<1>0. x[1] \in Messages /\ x \in Slots /\ Dead \in Slots
  BY SetupType DEF Slots
<1>1. CASE Loaded(x)
  <2>1. UNCHANGED <<ws, channel, channels, consumers>>
    BY <1>1 DEF Loaded
  <2>2. events' \in [Sockets -> [Groups -> Slots]] /\ listening' \subseteq Listen
    <3>1. CASE connection
      BY <1>1, <3>1 DEF Loaded
    <3>2. CASE ~connection
      BY <1>0, <1>1, <2>1, <3>2, TakingType, SubscribedType DEF Loaded
    <3>. QED  BY <3>1, <3>2
  <2>. QED  BY <2>1, <2>2
<1>2. CASE ChannelCreated(x)
  <2>1. /\ channel' = [channel EXCEPT ![x[1]] = x] /\ channels' = channels \cup {x}
        /\ UNCHANGED <<ws, consumers>>
    BY <1>2 DEF ChannelCreated
  <2>2. channel' \in [Messages -> Setups \cup {NoSetup}] /\ channels' \subseteq Setups
    BY <1>0, <2>1
  <2>3. events' \in [Sockets -> [Groups -> Slots]] /\ listening' \subseteq Listen
    <3>1. CASE Free(SocketOf(x), "user")
      <4>1. [by |-> x, group |-> "user", channel |-> x] \in Listen
        BY DEF Listen, Groups
      <4>. QED  BY <1>2, <3>1, <4>1 DEF ChannelCreated
    <3>2. CASE ~Free(SocketOf(x), "user")
      BY <1>2, <2>1, <2>2, <3>2, SubscribedType DEF ChannelCreated
    <3>. QED  BY <3>1, <3>2
  <2>. QED  BY <2>1, <2>2, <2>3
<1>3. CASE PermissionsRead(x)
  BY <1>3, SubscribedType DEF PermissionsRead
<1>4. CASE SetupFails(x)
  BY <1>4 DEF SetupFails
<1>5. ASSUME NEW l \in listening, l.by = x, Listened(l)
      PROVE  /\ UNCHANGED <<channel, channels>>
             /\ events' \in [Sockets -> [Groups -> Slots]]
             /\ listening' \subseteq Listen
             /\ consumers' \subseteq Listen
  <2>1. UNCHANGED <<ws, channel, channels>> /\ (consumers' = consumers \/ consumers' = consumers \cup {l})
    BY <1>5 DEF Listened
  <2>2. Taking(SocketOf(x), l.group, x) \in [Sockets -> [Groups -> Slots]]
    BY <1>0, TakingType
  <2>3. CASE stage[x] = "user"
    BY <1>5, <2>1, <2>2, <2>3, SubscribedType DEF Listened
  <2>4. CASE stage[x] # "user"
    BY <1>5, <2>1, <2>2, <2>4 DEF Listened
  <2>. QED  BY <2>1, <2>3, <2>4
<1>. QED  BY <1>1, <1>2, <1>3, <1>4, <1>5 DEF SetupStep

LEMMA ListenersStep == TypeOK /\ [Next]_vars => ListenersOK'
<1>. SUFFICES ASSUME TypeOK, [Next]_vars PROVE ListenersOK'
  OBVIOUS
<1>0. HandlersOK /\ ListenersOK
  BY TypeParts
<1>1. ASSUME NEW s \in Sockets, SocketStep(s) PROVE ListenersOK'
  <2>1. CASE SocketClosed(s)
    BY <1>0, <2>1 DEF ListenersOK, SocketClosed, HooksLeft, CancelledStored
  <2>2. CASE ~SocketClosed(s)
    BY <1>0, <1>1, <2>2 DEF ListenersOK, SocketStep, Connect, HelloSent, ReadyTimeout,
       HeartbeatTimeout, SessionCleaned, listenerVars
  <2>. QED  BY <2>1, <2>2
<1>2. ASSUME NEW m \in Messages, MessageStep(m) PROVE ListenersOK'
  BY <1>0, <1>2 DEF ListenersOK, MessageStep, Receive, TokenAccepted, TokenRejected,
     InvalidSessionSent, ListenerCleaned, listenerVars
<1>3. ASSUME NEW x \in Setups, SetupStep(x) PROVE ListenersOK'
  <2>1. hooks' \subseteq Messages
    BY <1>0, <1>3, SetupType, SetupControl DEF ListenersOK, GoesOn, Ends, EndSetup, Fails, Straggles
  <2>. QED  BY <1>0, <1>3, <2>1, SetupListens DEF ListenersOK
<1>4. CASE Disconnected \/ Reconnected
  <2>1. [g \in Groups |-> NoSetup] \in [Groups -> Slots]
    BY DEF Slots
  <2>. QED  BY <1>0, <1>4, <2>1 DEF ListenersOK, Disconnected, Reconnected
<1>7. ASSUME NEW x \in Setups, ChannelClosed(x) PROVE ListenersOK'
  <2>1. events' \in [Sockets -> [Groups -> Slots]]
    BY <1>0, <1>7 DEF ListenersOK, ChannelClosed, Slots
  <2>. QED  BY <1>0, <1>7, <2>1 DEF ListenersOK, ChannelClosed
<1>5. CASE ServerStep
  BY <1>0, <1>5 DEF ListenersOK, ServerStep, StopBegins, CloseClients, ClientsClosed, Stopped,
     listenerVars
<1>6. CASE UNCHANGED vars
  BY <1>0, <1>6 DEF ListenersOK, vars, listenerVars
<1>. QED  BY <1>1, <1>2, <1>3, <1>4, <1>5, <1>6, <1>7 DEF Next

LEMMA CleanupsStep == TypeOK /\ [Next]_vars => CleanupsOK'
<1>. SUFFICES ASSUME TypeOK, [Next]_vars PROVE CleanupsOK'
  OBVIOUS
<1>0. HandlersOK /\ ListenersOK /\ CleanupsOK
  BY TypeParts
<1>1. ASSUME NEW s \in Sockets, SocketStep(s) PROVE CleanupsOK'
  <2>1. CASE SocketClosed(s)
    <3>. DEFINE listeners == {m \in hooks : sock[m] = s}
                session == IF user[s] THEN {"session"} ELSE {}
    <3>1. listeners \subseteq Parts /\ session \subseteq Parts
      BY <1>0 DEF ListenersOK, Parts
    <3>2. unfinished' = unfinished \cup ({s} \X (session \cup listeners))
      BY <2>1 DEF SocketClosed
    <3>3. closeCleanup' = [closeCleanup EXCEPT ![s] =
                             IF listeners = {} THEN session ELSE listeners \cup session]
      BY <2>1 DEF SocketClosed, Joining
    <3>. HIDE DEF listeners, session
    <3>. QED  BY <1>0, <3>1, <3>2, <3>3 DEF CleanupsOK
  <2>2. CASE ~SocketClosed(s)
    BY <1>0, <1>1, <2>2 DEF CleanupsOK, SocketStep, Connect, HelloSent, ReadyTimeout,
       HeartbeatTimeout, SessionCleaned, cleanupVars
  <2>. QED  BY <2>1, <2>2
<1>2. ASSUME NEW m \in Messages, MessageStep(m) PROVE CleanupsOK'
  BY <1>0, <1>2 DEF CleanupsOK, MessageStep, Receive, TokenAccepted, TokenRejected,
     InvalidSessionSent, ListenerCleaned, cleanupVars
<1>3. ASSUME NEW x \in Setups, SetupStep(x) PROVE CleanupsOK'
  BY <1>0, <1>3, SetupRest DEF CleanupsOK
<1>4. CASE Disconnected \/ Reconnected \/ \E x \in Setups : ChannelClosed(x)
  BY <1>0, <1>4, BrokerRest DEF CleanupsOK
<1>5. CASE ServerStep
  BY <1>0, <1>5 DEF CleanupsOK, ServerStep, StopBegins, CloseClients, ClientsClosed, Stopped,
     cleanupVars
<1>6. CASE UNCHANGED vars
  BY <1>0, <1>6 DEF CleanupsOK, vars, cleanupVars
<1>. QED  BY <1>1, <1>2, <1>3, <1>4, <1>5, <1>6 DEF Next

LEMMA TypeInit == Init => TypeOK /\ LossInv
<1>. SUFFICES ASSUME Init PROVE TypeOK /\ LossInv
  OBVIOUS
<1>. USE ConstantsAssumption DEF Init
<1>1. FlagsOK /\ LossInv
  BY DEF FlagsOK, LossInv
<1>2. SocketsOK /\ HandlersOK
  BY DEF SocketsOK, HandlersOK
<1>3. ListenersOK /\ CleanupsOK
  BY DEF ListenersOK, CleanupsOK, Slots
<1>. QED  BY <1>1, <1>2, <1>3, TypeParts

LEMMA TypeInvariance == Spec => [](TypeOK /\ LossInv)
<1>1. TypeOK /\ LossInv /\ [Next]_vars => (TypeOK /\ LossInv)'
  <2>. SUFFICES ASSUME TypeOK, LossInv, [Next]_vars PROVE TypeOK' /\ LossInv'
    OBVIOUS
  <2>1. FlagsOK' /\ LossInv' /\ SocketsOK' /\ HandlersOK' /\ ListenersOK' /\ CleanupsOK'
    BY FlagsStep, SocketsStep, HandlersStep, ListenersStep, CleanupsStep
  <2>2. TypeOK'
    BY <2>1, Zenon DEF TypeOK, FlagsOK, SocketsOK, HandlersOK, ListenersOK, Slots, CleanupsOK
  <2>. QED  BY <2>1, <2>2
<1>. QED  BY TypeInit, <1>1, PTL DEF Spec

(* The state of sockets, handlers and listeners is always typed. *)
THEOREM TypeCorrect == Spec => []TypeOK
BY TypeInvariance, PTL

-----------------------------------------------------------------------------
(* What is unfinished belongs to a closed socket whose promise waits for   *)
(* it; from the moment clients are told to go, stop() knows those that     *)
(* remain, then there is none, then nothing is left to wait for.           *)
StopInv ==
  /\ \A s \in Sockets, q \in Parts :
       <<s, q>> \in unfinished => ws[s] = "closed" /\ q \in closeCleanup[s]
  /\ server = "closing" => Clients \subseteq snapshot
  /\ server \in {"draining", "stopped"} => Clients = {}
  /\ server = "stopped" => unfinished = {}

(* Where sockets are only told to close, StopInv is kept. *)
LEMMA StopKept ==
  ASSUME TypeOK, StopInv, UNCHANGED <<unfinished, closeCleanup, server, snapshot>>,
         \/ UNCHANGED ws
         \/ \E S : ws' = Closed(S)
  PROVE  StopInv'
BY TypeParts, ClosedType DEF StopInv, SocketsOK, Clients

LEMMA StopStep == TypeOK /\ StopInv /\ [Next]_vars => StopInv'
<1>. SUFFICES ASSUME TypeOK, StopInv, [Next]_vars PROVE StopInv'
  OBVIOUS
<1>0. SocketsOK /\ HandlersOK /\ ListenersOK /\ CleanupsOK
  BY TypeParts
<1>1. ASSUME NEW s \in Sockets, SocketStep(s) PROVE StopInv'
  <2>1. CASE Connect(s)
    BY <1>0, <2>1 DEF Connect, StopInv, SocketsOK, Clients, cleanupVars, serverVars
  <2>2. CASE SocketClosed(s)
    <3>. DEFINE listeners == {m \in hooks : sock[m] = s}
                session == IF user[s] THEN {"session"} ELSE {}
    <3>1. unfinished' = unfinished \cup ({s} \X (session \cup listeners))
      BY <2>2 DEF SocketClosed
    <3>2. closeCleanup' = [closeCleanup EXCEPT ![s] =
                             IF listeners = {} THEN session ELSE listeners \cup session]
      BY <2>2 DEF SocketClosed, Joining
    <3>3. ws[s] = "closing" /\ ws' = [ws EXCEPT ![s] = "closed"] /\ UNCHANGED <<server, snapshot>>
      BY <2>2 DEF SocketClosed, serverVars
    <3>. HIDE DEF listeners, session
    <3>4. ASSUME NEW t \in Sockets, NEW q \in Parts, <<t, q>> \in unfinished'
          PROVE  ws'[t] = "closed" /\ q \in closeCleanup'[t]
      BY <1>0, <3>1, <3>2, <3>3, <3>4 DEF StopInv, SocketsOK, CleanupsOK
    <3>5. Clients' \subseteq Clients /\ server # "stopped" /\ s \in Clients
      BY <1>0, <3>3 DEF StopInv, SocketsOK, Clients
    <3>. QED  BY <3>3, <3>4, <3>5 DEF StopInv
  <2>3. CASE SessionCleaned(s)
    BY <1>0, <2>3 DEF SessionCleaned, StopInv, SocketsOK, Clients, serverVars
  <2>4. CASE HelloSent(s) \/ ReadyTimeout(s) \/ HeartbeatTimeout(s)
    BY <2>4, StopKept DEF HelloSent, ReadyTimeout, HeartbeatTimeout, cleanupVars, serverVars
  <2>. QED  BY <1>1, <2>1, <2>2, <2>3, <2>4 DEF SocketStep
<1>2. ASSUME NEW m \in Messages, MessageStep(m) PROVE StopInv'
  <2>1. CASE ListenerCleaned(m)
    BY <1>0, <2>1 DEF ListenerCleaned, StopInv, SocketsOK, Clients, serverVars
  <2>2. CASE ~ListenerCleaned(m)
    <3>1. UNCHANGED ws \/ \E S : ws' = Closed(S)
      BY <1>2, <2>2 DEF MessageStep, Receive, TokenAccepted, TokenRejected, InvalidSessionSent,
         ClosedAfterAnswer
    <3>2. UNCHANGED <<unfinished, closeCleanup, server, snapshot>>
      BY <1>2, <2>2 DEF MessageStep, Receive, TokenAccepted, TokenRejected, InvalidSessionSent,
         cleanupVars, serverVars
    <3>. QED  BY <3>1, <3>2, StopKept
  <2>. QED  BY <2>1, <2>2
<1>3. ASSUME NEW x \in Setups, SetupStep(x) PROVE StopInv'
  BY <1>3, SetupRest, StopKept
<1>4. CASE Disconnected \/ Reconnected \/ \E x \in Setups : ChannelClosed(x)
  BY <1>4, BrokerRest, StopKept
<1>5. CASE StopBegins
  BY <1>0, <1>5 DEF StopBegins, StopInv, SocketsOK, Clients, cleanupVars
<1>6. CASE CloseClients
  <2>1. /\ server = "notifying" /\ server' = "closing" /\ snapshot' = Clients
        /\ ws' = Closed(Clients) /\ UNCHANGED <<unfinished, closeCleanup>>
    BY <1>6 DEF CloseClients, ClientsTold, cleanupVars
  <2>2. Clients' \subseteq Clients
    BY <1>0, <2>1, ClosedType DEF SocketsOK, Clients
  <2>3. \A s \in Sockets : ws[s] = "closed" => ws'[s] = "closed"
    BY <1>0, <2>1, ClosedType DEF SocketsOK
  <2>. QED  BY <2>1, <2>2, <2>3 DEF StopInv
<1>7. CASE ClientsClosed
  BY <1>0, <1>7 DEF ClientsClosed, StopInv, SocketsOK, Clients, cleanupVars
<1>8. CASE Stopped
  <2>1. ASSUME NEW u \in unfinished PROVE FALSE
    <3>1. PICK s \in Sockets, q \in Parts : u = <<s, q>>
      BY <1>0, <2>1 DEF CleanupsOK
    <3>2. ws[s] = "closed" /\ q \in closeCleanup[s] /\ <<s, q>> \in unfinished
      BY <2>1, <3>1 DEF StopInv
    <3>. QED  BY <1>8, <3>2 DEF Stopped, CleanupsDrained, Settled
  <2>. QED  BY <1>0, <1>8, <2>1 DEF Stopped, StopInv, SocketsOK, Clients, cleanupVars
<1>9. CASE UNCHANGED vars
  BY <1>9, StopKept DEF vars, cleanupVars, serverVars
<1>. QED  BY <1>1, <1>2, <1>3, <1>4, <1>5, <1>6, <1>7, <1>8, <1>9 DEF Next, ServerStep

(* stop() returns to no client and no running cleanup                      *)
(* (Server.stopGateway, waitForConnectionCloseCleanups).                   *)
THEOREM StopIsClean == Spec => []StopAwaitsCleanups
<1>1. Init => StopInv
  BY DEF Init, StopInv, Clients
<1>2. TypeOK /\ StopInv => StopAwaitsCleanups
  BY TypeParts DEF StopInv, StopAwaitsCleanups, SocketsOK, Clients
<1>. QED  BY <1>1, <1>2, StopStep, TypeInvariance, PTL DEF Spec

-----------------------------------------------------------------------------
(* Setups belong to messages whose token was accepted, and are numbered by *)
(* the reconnections there were: the next reconnection's are new.          *)
HandlerInv ==
  /\ \A m \in Messages : pc[m] # "unsent" => sock[m] \in Sockets
  /\ \A m \in hooks : pc[m] = "done"
  /\ \A x \in Setups :
       stage[x] # "none" => pc[x[1]] \in {"setup", "failed", "done"} /\ x[2] <= Reconnections

(* A message's initial setup is its only one until the hooks are there: no *)
(* other runs while it does, and none once it has failed.                  *)
SetupInv ==
  /\ \A x \in Setups :
       stage[x] # "none" /\ ws[SocketOf(x)] # "closed" =>
         x[1] \in hooks \/ pc[x[1]] \in {"setup", "failed"}
  /\ \A x, y \in Setups :
       x[1] = y[1] /\ pc[x[1]] = "setup" /\ stage[x] # "none" /\ stage[y] # "none" => x = y
  /\ \A x \in Setups :
       /\ pc[x[1]] = "setup" => stage[x] \in Running \cup {"none"}
       /\ pc[x[1]] = "failed" => stage[x] \notin Running

(* A live consumer is the one its socket has stored for the group; of a    *)
(* closed socket, those are left that came too late or have no hook.       *)
ConsumerInv ==
  /\ connection \/ consumers = {}
  /\ \A c \in consumers :
       /\ events[SocketOf(c.by)][c.group] = c.by
       /\ stage[c.by] # "none"
       /\ ws[SocketOf(c.by)] = "closed" =>
            stage[c.by] \notin {"over", "failed"} \/ pc[c.by[1]] = "failed"
  /\ HeardOnce

HookInv ==
  \A m \in hooks : ws[sock[m]] = "closed" => \E x \in Setups : x[1] = m /\ stage[x] = "late"

CleanInv == TypeOK /\ LossInv /\ HandlerInv /\ SetupInv /\ ConsumerInv /\ HookInv

LEMMA CleanParts ==
  CleanInv => /\ FlagsOK /\ SocketsOK /\ HandlersOK /\ ListenersOK /\ CleanupsOK
              /\ HandlerInv /\ SetupInv /\ ConsumerInv /\ HookInv
BY TypeParts DEF CleanInv

(* A setup that has begun has a socket. *)
LEMMA SetupHasSocket ==
  ASSUME CleanInv, NEW x \in Setups, stage[x] # "none"
  PROVE  x[1] \in Messages /\ SocketOf(x) \in Sockets /\ pc[x[1]] \in {"setup", "failed", "done"}
BY CleanParts, SetupType DEF HandlerInv, SocketOf

(* Consumers belong to setups, whose sockets are known. *)
LEMMA ConsumerType ==
  CleanInv => \A c \in consumers :
    /\ c.by \in Setups /\ c.group \in Groups /\ c.by[1] \in Messages
    /\ SocketOf(c.by) \in Sockets /\ stage[c.by] # "none"
    /\ pc[c.by[1]] \in {"setup", "failed", "done"}
<1>. SUFFICES ASSUME CleanInv, NEW c \in consumers
              PROVE  /\ c.by \in Setups /\ c.group \in Groups /\ c.by[1] \in Messages
                     /\ SocketOf(c.by) \in Sockets /\ stage[c.by] # "none"
                     /\ pc[c.by[1]] \in {"setup", "failed", "done"}
  OBVIOUS
<1>1. c.by \in Setups /\ c.group \in Groups
  BY CleanParts DEF ListenersOK, Listen
<1>2. stage[c.by] # "none"
  BY CleanParts DEF ConsumerInv
<1>. QED  BY <1>1, <1>2, SetupHasSocket

(* Where setups, sockets' messages and what they have stored stay as they  *)
(* are, consumers may only go.                                             *)
LEMMA ConsumersKept ==
  ASSUME CleanInv, UNCHANGED connection, consumers' \subseteq consumers,
         \A c \in consumers' :
           /\ SocketOf(c.by)' = SocketOf(c.by) /\ stage'[c.by] = stage[c.by]
           /\ pc'[c.by[1]] = pc[c.by[1]]
           /\ events'[SocketOf(c.by)][c.group] = events[SocketOf(c.by)][c.group]
           /\ ws'[SocketOf(c.by)] = "closed" <=> ws[SocketOf(c.by)] = "closed"
  PROVE  ConsumerInv'
<1>. USE CleanParts
<1>1. connection' \/ consumers' = {}
  <2>1. CASE consumers = {}
    BY <2>1
  <2>2. CASE consumers # {}
    BY <2>2, Zenon DEF ConsumerInv
  <2>. QED  BY <2>1, <2>2
<1>2. ASSUME NEW c \in consumers'
      PROVE  /\ events'[SocketOf(c.by)'][c.group] = c.by
             /\ stage'[c.by] # "none"
             /\ ws'[SocketOf(c.by)'] = "closed" =>
                  stage'[c.by] \notin {"over", "failed"} \/ pc'[c.by[1]] = "failed"
  BY <1>2 DEF ConsumerInv
<1>3. HeardOnce'
  <2>1. HeardOnce
    BY DEF ConsumerInv
  <2>2. \A c, d \in consumers' : SocketOf(c.by)' = SocketOf(d.by)' => SocketOf(c.by) = SocketOf(d.by)
    OBVIOUS
  <2>. QED  BY <2>1, <2>2 DEF HeardOnce
<1>. QED  BY <1>1, <1>2, <1>3, Zenon DEF ConsumerInv

(* Nothing that ends, and nothing that only tells sockets to close,        *)
(* disturbs the invariant.                                                 *)
LEMMA CleanKept ==
  ASSUME CleanInv, UNCHANGED <<pc, sock, stage, connection, losses, hooks>>,
         consumers' \subseteq consumers,
         \A c \in consumers' :
           events'[SocketOf(c.by)][c.group] = events[SocketOf(c.by)][c.group],
         \A s \in Sockets : ws'[s] = "closed" <=> ws[s] = "closed"
  PROVE  HandlerInv' /\ SetupInv' /\ ConsumerInv' /\ HookInv'
<1>1. Reconnections' = Reconnections
  BY DEF Reconnections
<1>2. HandlerInv'
  BY <1>1, CleanParts DEF HandlerInv
<1>3. \A m \in Messages : pc[m] # "unsent" => (ws'[sock[m]] = "closed" <=> ws[sock[m]] = "closed")
  BY CleanParts DEF HandlerInv
<1>4. SetupInv'
  <2>1. \A x \in Setups : stage[x] # "none" => pc[x[1]] # "unsent" /\ x[1] \in Messages
    BY CleanParts, SetupType DEF HandlerInv
  <2>. QED  BY <1>3, <2>1, CleanParts DEF SetupInv, SocketOf
<1>5. ConsumerInv'
  BY ConsumersKept, ConsumerType DEF SocketOf
<1>6. HookInv'
  BY <1>3, CleanParts DEF HookInv, HandlerInv, ListenersOK
<1>. QED  BY <1>2, <1>4, <1>5, <1>6

(* A message arrives, on a socket nothing of it is known of. *)
LEMMA CleanReceive ==
  ASSUME CleanInv, NEW m \in Messages, NEW s \in Sockets, Receive(m, s)
  PROVE  HandlerInv' /\ SetupInv' /\ ConsumerInv' /\ HookInv'
<1>. USE CleanParts
<1>1. /\ pc[m] = "unsent"
      /\ sock' = [sock EXCEPT ![m] = s]
      /\ pc' = [pc EXCEPT ![m] = "done"] \/ pc' = [pc EXCEPT ![m] = "token"]
      /\ UNCHANGED <<stage, events, connection, losses, hooks, consumers>>
      /\ \A t \in Sockets : ws'[t] = "closed" <=> ws[t] = "closed"
  BY ClosedType DEF Receive, listenerVars, busVars
<1>2. m \notin hooks /\ \A x \in Setups : stage[x] # "none" => x[1] # m
  BY <1>1 DEF HandlerInv
<1>3. Reconnections' = Reconnections
  BY <1>1 DEF Reconnections
<1>4. \A n \in Messages : n # m => pc'[n] = pc[n] /\ sock'[n] = sock[n]
  BY <1>1 DEF HandlersOK
<1>5. sock'[m] \in Sockets /\ pc'[m] \in {"done", "token"}
  BY <1>1 DEF HandlersOK
<1>6. HandlerInv'
  BY <1>1, <1>2, <1>3, <1>4, <1>5, SetupType DEF HandlerInv, ListenersOK
<1>7. \A n \in Messages : n # m /\ pc[n] # "unsent" => (ws'[sock[n]] = "closed" <=> ws[sock[n]] = "closed")
  BY <1>1 DEF HandlerInv
<1>8. SetupInv'
  <2>1. \A x \in Setups : stage[x] # "none" =>
          /\ pc'[x[1]] = pc[x[1]]
          /\ ws'[SocketOf(x)'] = "closed" <=> ws[SocketOf(x)] = "closed"
    BY <1>2, <1>4, <1>7, SetupHasSocket DEF SocketOf
  <2>2. \A x \in Setups : stage[x] = "none" => stage'[x] \notin Running /\ stage'[x] = "none"
    BY <1>1 DEF Running
  <2>. QED  BY <1>1, <2>1, <2>2 DEF SetupInv
<1>9. ConsumerInv'
  <2>1. \A c \in consumers : c.by[1] # m
    BY <1>2, ConsumerType
  <2>2. \A c \in consumers : SocketOf(c.by)' = SocketOf(c.by) /\ pc'[c.by[1]] = pc[c.by[1]]
    BY <1>4, <2>1, ConsumerType DEF SocketOf
  <2>. QED  BY <1>1, <2>2, ConsumersKept, ConsumerType
<1>10. HookInv'
  BY <1>1, <1>2, <1>4, <1>7 DEF HookInv, HandlerInv, ListenersOK
<1>. QED  BY <1>6, <1>8, <1>9, <1>10

(* A token is accepted: the message's first setup begins. *)
LEMMA CleanAccepted ==
  ASSUME CleanInv, NEW m \in Messages, TokenAccepted(m)
  PROVE  HandlerInv' /\ SetupInv' /\ ConsumerInv' /\ HookInv'
<1>. USE CleanParts
<1>. DEFINE n == <<m, Reconnections>>
<1>1. n \in Setups /\ n[1] = m /\ n[2] = Reconnections
  BY ReconnectionsType DEF Setups, CleanInv
<1>2. /\ pc[m] = "token"
      /\ pc' = [pc EXCEPT ![m] = "setup"]
      /\ stage' = [stage EXCEPT ![n] = "load"]
      /\ UNCHANGED <<ws, sock, events, connection, losses, hooks, consumers>>
  BY DEF TokenAccepted, listenerVars, busVars
<1>3. m \notin hooks /\ \A x \in Setups : x[1] = m => stage[x] = "none"
  BY <1>2 DEF HandlerInv
<1>4. Reconnections' = Reconnections
  BY <1>2 DEF Reconnections
<1>. HIDE DEF n
<1>5. \A x \in Setups : x # n => stage'[x] = stage[x]
  BY <1>1, <1>2 DEF HandlersOK
<1>6. stage'[n] = "load" /\ pc'[m] = "setup" /\ \A k \in Messages : k # m => pc'[k] = pc[k]
  BY <1>1, <1>2 DEF HandlersOK
<1>7. HandlerInv'
  <2>1. Reconnections <= Reconnections
    BY ReconnectionsType DEF CleanInv
  <2>. QED  BY <1>1, <1>2, <1>3, <1>4, <1>5, <1>6, <2>1, SetupType DEF HandlerInv, ListenersOK
<1>8. SetupInv'
  <2>1. \A x \in Setups : x # n /\ stage'[x] # "none" =>
          stage'[x] = stage[x] /\ x[1] # m /\ pc'[x[1]] = pc[x[1]]
    BY <1>3, <1>5, <1>6, SetupType
  <2>2. \A x \in Setups : SocketOf(x)' = SocketOf(x)
    BY <1>2 DEF SocketOf
  <2>3. n[1] = m /\ stage'[n] = "load" /\ "load" \in Running /\ pc'[m] = "setup"
    BY <1>1, <1>6 DEF Running
  <2>4. "none" \notin Running
    BY DEF Running
  <2>5. ASSUME NEW x \in Setups
        PROVE  /\ stage'[x] # "none" /\ ws'[SocketOf(x)'] # "closed" =>
                    x[1] \in hooks' \/ pc'[x[1]] \in {"setup", "failed"}
               /\ pc'[x[1]] = "setup" => stage'[x] \in Running \cup {"none"}
               /\ pc'[x[1]] = "failed" => stage'[x] \notin Running
    BY <1>2, <2>1, <2>2, <2>3, <2>4 DEF SetupInv
  <2>6. ASSUME NEW x \in Setups, NEW y \in Setups, x[1] = y[1], pc'[x[1]] = "setup",
               stage'[x] # "none", stage'[y] # "none"
        PROVE  x = y
    BY <1>1, <2>1, <2>6 DEF SetupInv
  <2>. QED  BY <2>5, <2>6 DEF SetupInv
<1>9. ConsumerInv'
  <2>1. \A c \in consumers : c.by[1] # m
    BY <1>3, ConsumerType
  <2>2. \A c \in consumers : c.by # n /\ stage'[c.by] = stage[c.by]
    BY <1>1, <1>5, <2>1, ConsumerType
  <2>3. \A c \in consumers : SocketOf(c.by)' = SocketOf(c.by) /\ pc'[c.by[1]] = pc[c.by[1]]
    BY <1>2, <1>6, <2>1, ConsumerType DEF SocketOf
  <2>. QED  BY <1>2, <2>2, <2>3, ConsumersKept
<1>10. HookInv'
  BY <1>2, <1>1, <1>3, <1>5 DEF HookInv
<1>. QED  BY <1>7, <1>8, <1>9, <1>10

(* A rejected token ends the message. *)
LEMMA CleanRejected ==
  ASSUME CleanInv, NEW m \in Messages, TokenRejected(m) \/ InvalidSessionSent(m)
  PROVE  HandlerInv' /\ SetupInv' /\ ConsumerInv' /\ HookInv'
<1>. USE CleanParts
<1>1. /\ pc[m] \in {"token", "reject"}
      /\ pc' = [pc EXCEPT ![m] = "done"] \/ pc' = [pc EXCEPT ![m] = "reject"]
      /\ UNCHANGED <<sock, stage, events, connection, losses, hooks, consumers>>
  BY DEF TokenRejected, InvalidSessionSent, listenerVars, busVars
<1>2. \A t \in Sockets : ws'[t] = "closed" <=> ws[t] = "closed"
  <2>1. UNCHANGED ws \/ ws' = Closed({sock[m]})
    BY DEF TokenRejected, InvalidSessionSent, ClosedAfterAnswer
  <2>. QED  BY <2>1, ClosedType
<1>3. m \notin hooks /\ \A x \in Setups : stage[x] # "none" => x[1] # m
  BY <1>1 DEF HandlerInv
<1>4. \A n \in Messages : n # m => pc'[n] = pc[n]
  BY <1>1 DEF HandlersOK
<1>5. pc'[m] \in {"done", "reject"}
  BY <1>1 DEF HandlersOK
<1>6. Reconnections' = Reconnections
  BY <1>1 DEF Reconnections
<1>7. HandlerInv'
  BY <1>1, <1>3, <1>4, <1>6, SetupType DEF HandlerInv, ListenersOK
<1>8. SetupInv'
  <2>1. \A x \in Setups : stage[x] # "none" =>
          /\ pc'[x[1]] = pc[x[1]]
          /\ SocketOf(x)' = SocketOf(x) /\ SocketOf(x) \in Sockets
    BY <1>1, <1>3, <1>4, SetupHasSocket DEF SocketOf
  <2>2. \A x \in Setups : stage[x] = "none" => stage'[x] \notin Running /\ stage'[x] = "none"
    BY <1>1 DEF Running
  <2>. QED  BY <1>1, <1>2, <2>1, <2>2 DEF SetupInv
<1>9. ConsumerInv'
  <2>1. \A c \in consumers : SocketOf(c.by)' = SocketOf(c.by) /\ pc'[c.by[1]] = pc[c.by[1]]
    BY <1>1, <1>3, <1>4, ConsumerType DEF SocketOf
  <2>. QED  BY <1>1, <1>2, <2>1, ConsumersKept, ConsumerType
<1>10. HookInv'
  BY <1>1, <1>2 DEF HookInv, HandlerInv, ListenersOK
<1>. QED  BY <1>7, <1>8, <1>9, <1>10

-----------------------------------------------------------------------------
(* What the step of a setup does to consumers: none comes or goes, or its  *)
(* own is stored where its socket had none.                                *)
KeepsConsumers ==
  /\ UNCHANGED consumers
  /\ \A c \in consumers : events'[SocketOf(c.by)][c.group] = events[SocketOf(c.by)][c.group]

AddsConsumer(x) ==
  /\ connection
  /\ \E l \in listening :
       /\ l.by = x
       /\ Free(SocketOf(x), l.group)
       /\ consumers' = consumers \cup {l}
       /\ events'[SocketOf(x)][l.group] = x
       /\ \A c \in consumers : events'[SocketOf(c.by)][c.group] = events[SocketOf(c.by)][c.group]

(* No consumer is where its socket has nothing stored. *)
LEMMA FreeHasNone ==
  ASSUME CleanInv, NEW s, NEW g, Free(s, g), NEW c \in consumers
  PROVE  ~(SocketOf(c.by) = s /\ c.group = g)
<1>1. c.by # NoSetup
  BY ConsumerType DEF Setups, NoSetup
<1>. QED  BY <1>1, CleanParts DEF ConsumerInv, Free

(* The marks of groups without a route concern no consumer. *)
LEMMA MarksNone ==
  ASSUME CleanInv, NEW x \in Setups, NEW E \in [Sockets -> [Groups -> Slots]],
         \A c \in consumers : E[SocketOf(c.by)][c.group] = events[SocketOf(c.by)][c.group],
         \/ events' = E
         \/ /\ ~(connection /\ Free(SocketOf(x), "guild"))
            /\ events' = [E EXCEPT ![SocketOf(x)]["guild"] = IF @ = NoSetup THEN Dead ELSE @]
  PROVE  \A c \in consumers : events'[SocketOf(c.by)][c.group] = events[SocketOf(c.by)][c.group]
<1>. SUFFICES ASSUME NEW c \in consumers
              PROVE  events'[SocketOf(c.by)][c.group] = events[SocketOf(c.by)][c.group]
  OBVIOUS
<1>1. /\ SocketOf(c.by) \in Sockets /\ c.group \in Groups
      /\ E[SocketOf(c.by)][c.group] # NoSetup
  BY ConsumerType, CleanParts DEF ConsumerInv, Setups, NoSetup
<1>2. CASE events' = E
  BY <1>2
<1>3. CASE events' = [E EXCEPT ![SocketOf(x)]["guild"] = IF @ = NoSetup THEN Dead ELSE @]
  BY <1>1, <1>3
<1>. QED  BY <1>2, <1>3

LEMMA SetupConsumers ==
  ASSUME CleanInv, NEW x \in Setups, SetupStep(x), SocketOf(x) \in Sockets
  PROVE  KeepsConsumers \/ AddsConsumer(x)
<1>. USE CleanParts
<1>0. events \in [Sockets -> [Groups -> Slots]] /\ x \in Slots /\ Dead \in Slots
  BY DEF ListenersOK, Slots
<1>1. CASE Loaded(x)
  <2>1. UNCHANGED <<consumers, ws>>
    BY <1>1 DEF Loaded
  <2>2. CASE connection
    BY <1>1, <2>1, <2>2 DEF Loaded, KeepsConsumers
  <2>3. CASE ~connection
    <3>1. consumers = {}
      BY <2>3 DEF ConsumerInv
    <3>. QED  BY <2>1, <3>1 DEF KeepsConsumers
  <2>. QED  BY <2>2, <2>3
<1>2. CASE ChannelCreated(x)
  <2>1. UNCHANGED <<consumers, ws>>
    BY <1>2 DEF ChannelCreated
  <2>2. CASE Free(SocketOf(x), "user")
    BY <1>2, <2>1, <2>2 DEF ChannelCreated, KeepsConsumers
  <2>3. CASE ~Free(SocketOf(x), "user")
    BY <1>0, <1>2, <2>1, <2>3, UsersSubscribed, MarksNone DEF ChannelCreated, KeepsConsumers
  <2>. QED  BY <2>2, <2>3
<1>3. CASE PermissionsRead(x)
  <2>1. UNCHANGED <<ws, consumers>> /\ SubscribeGuilds(x, events, listening)
    BY <1>3 DEF PermissionsRead
  <2>2. \/ events' = events
        \/ /\ ~(connection /\ Free(SocketOf(x), "guild"))
           /\ events' = [events EXCEPT ![SocketOf(x)]["guild"] = IF @ = NoSetup THEN Dead ELSE @]
    BY <2>1, GuildsSubscribed
  <2>3. \A c \in consumers : events'[SocketOf(c.by)][c.group] = events[SocketOf(c.by)][c.group]
    BY <1>0, <2>2, MarksNone
  <2>. QED  BY <2>1, <2>3 DEF KeepsConsumers
<1>4. CASE SetupFails(x)
  BY <1>4 DEF SetupFails, KeepsConsumers
<1>5. ASSUME NEW l \in listening, l.by = x, Listened(l)
      PROVE  KeepsConsumers \/ AddsConsumer(x)
  <2>. DEFINE stored == Taking(SocketOf(x), l.group, x)
  <2>0. l.group \in Groups /\ x # NoSetup
    <3>1. l \in Listen
      BY DEF ListenersOK
    <3>2. l.group \in Groups
      BY <3>1 DEF Listen
    <3>3. x # NoSetup
      BY DEF Setups, NoSetup
    <3>. QED  BY <3>2, <3>3
  <2>1. /\ connection /\ UNCHANGED ws
        /\ consumers' = IF Free(SocketOf(x), l.group) THEN consumers \cup {l} ELSE consumers
    BY <1>5 DEF Listened
  <2>2. stored \in [Sockets -> [Groups -> Slots]]
    BY <1>0, TakingType
  <2>3. \A c \in consumers : stored[SocketOf(c.by)][c.group] = events[SocketOf(c.by)][c.group]
    <3>1. CASE Free(SocketOf(x), l.group)
      BY <1>0, <2>0, <3>1, FreeHasNone, ConsumerType DEF Taking
    <3>2. CASE ~Free(SocketOf(x), l.group)
      BY <1>0, <2>0, <3>2, ConsumerType DEF Taking
    <3>. QED  BY <3>1, <3>2
  <2>4. Free(SocketOf(x), l.group) => stored[SocketOf(x)][l.group] = x
    BY <1>0, <2>0 DEF Taking
  <2>. HIDE DEF stored
  <2>5. \/ events' = stored
        \/ /\ ~(connection /\ Free(SocketOf(x), "guild"))
           /\ events' = [stored EXCEPT ![SocketOf(x)]["guild"] = IF @ = NoSetup THEN Dead ELSE @]
    <3>1. CASE stage[x] = "user"
      BY <1>5, <2>1, <3>1, UsersSubscribed DEF Listened, stored
    <3>2. CASE stage[x] # "user"
      BY <1>5, <3>2 DEF Listened, stored
    <3>. QED  BY <3>1, <3>2
  <2>6. \A c \in consumers : events'[SocketOf(c.by)][c.group] = events[SocketOf(c.by)][c.group]
    BY <2>2, <2>3, <2>5, MarksNone
  <2>7. Free(SocketOf(x), l.group) => events'[SocketOf(x)][l.group] = x
    BY <2>0, <2>2, <2>4, <2>5
  <2>8. CASE Free(SocketOf(x), l.group)
    BY <1>5, <2>1, <2>6, <2>7, <2>8 DEF AddsConsumer
  <2>9. CASE ~Free(SocketOf(x), l.group)
    BY <2>1, <2>6, <2>9 DEF KeepsConsumers
  <2>. QED  BY <2>8, <2>9
<1>. QED  BY <1>1, <1>2, <1>3, <1>4, <1>5 DEF SetupStep

(* A setup's step leaves what it is not, and ends it with its hook.  What  *)
(* becomes of it once the socket has closed is late.                       *)
LEMMA SetupFacts ==
  ASSUME CleanInv, NEW x \in Setups, SetupStep(x)
  PROVE  /\ stage[x] # "none" /\ x[1] \in Messages /\ SocketOf(x) \in Sockets
         /\ UNCHANGED <<sock, connection, losses>>
         /\ \A y \in Setups : SocketOf(y)' = SocketOf(y) /\ (y # x => stage'[y] = stage[y])
         /\ stage[x] = "late" => stage'[x] = "late"
         /\ \A s \in Sockets : ws'[s] = "closed" <=> ws[s] = "closed"
<1>. USE CleanParts
<1>1. stage[x] # "none"
  BY SetupControl DEF Running, Straggles
<1>2. x[1] \in Messages /\ SocketOf(x) \in Sockets
  BY <1>1, SetupHasSocket
<1>3. UNCHANGED <<sock, connection, losses>>
  BY SetupRest
<1>4. \A y \in Setups : SocketOf(y)' = SocketOf(y)
  BY <1>3 DEF SocketOf
<1>5. \A y \in Setups : y # x => stage'[y] = stage[y]
  BY SetupControl DEF HandlersOK, GoesOn, Ends, EndSetup, Fails, Straggles
<1>6. stage[x] = "late" => stage'[x] = "late"
  BY SetupControl DEF Running, Straggles, HandlersOK
<1>7. \A s \in Sockets : ws'[s] = "closed" <=> ws[s] = "closed"
  BY SetupRest, ClosedType
<1>. QED  BY <1>1, <1>2, <1>3, <1>4, <1>5, <1>6, <1>7

(* What a setup and its message have become. *)
SetupOutcome(x) ==
  \/ stage[x] \in Running /\ stage'[x] \in Running /\ UNCHANGED <<pc, hooks>>
  \/ /\ stage[x] \in Running /\ stage'[x] = IF ws[SocketOf(x)] = "closed" THEN "late" ELSE "over"
     /\ pc' = [pc EXCEPT ![x[1]] = "done"]
     /\ hooks' = IF pc[x[1]] = "setup" THEN hooks \cup {x[1]} ELSE hooks
  \/ /\ stage[x] \in Running /\ stage'[x] = IF ws[SocketOf(x)] = "closed" THEN "late" ELSE "failed"
     /\ pc' = [pc EXCEPT ![x[1]] = IF @ = "setup" THEN "failed" ELSE @]
     /\ UNCHANGED hooks
  \/ /\ stage[x] \in {"failed", "late"}
     /\ stage'[x] = IF ws[SocketOf(x)] = "closed" THEN "late" ELSE stage[x]
     /\ UNCHANGED <<pc, hooks>>

LEMMA SetupEnding ==
  ASSUME CleanInv, NEW x \in Setups, SetupStep(x)
  PROVE  SetupOutcome(x)
<1>. USE CleanParts
<1>1. ASSUME NEW t, stage' = [stage EXCEPT ![x] = t] PROVE stage'[x] = t
  BY <1>1 DEF HandlersOK
<1>2. GoesOn(x) => stage'[x] \in Running /\ UNCHANGED <<pc, hooks>>
  BY <1>1 DEF GoesOn
<1>3. Straggles(x) => /\ stage[x] \in {"failed", "late"}
                      /\ stage'[x] = IF ws[SocketOf(x)] = "closed" THEN "late" ELSE stage[x]
                      /\ UNCHANGED <<pc, hooks>>
  BY DEF Straggles, HandlersOK
<1>4. Ends(x) => /\ stage'[x] = IF ws[SocketOf(x)] = "closed" THEN "late" ELSE "over"
                 /\ pc' = [pc EXCEPT ![x[1]] = "done"]
                 /\ hooks' = IF pc[x[1]] = "setup" THEN hooks \cup {x[1]} ELSE hooks
  BY <1>1 DEF Ends, EndSetup
<1>5. Fails(x) => /\ stage'[x] = IF ws[SocketOf(x)] = "closed" THEN "late" ELSE "failed"
                  /\ pc' = [pc EXCEPT ![x[1]] = IF @ = "setup" THEN "failed" ELSE @]
                  /\ UNCHANGED hooks
  BY <1>1 DEF Fails
<1>. QED  BY <1>2, <1>3, <1>4, <1>5, SetupControl DEF SetupOutcome

LEMMA CleanSetup ==
  ASSUME CleanInv, NEW x \in Setups, SetupStep(x)
  PROVE  HandlerInv' /\ SetupInv' /\ ConsumerInv' /\ HookInv'
<1>. USE CleanParts
<1>0. /\ stage[x] # "none" /\ x[1] \in Messages /\ SocketOf(x) \in Sockets
      /\ pc[x[1]] \in {"setup", "failed", "done"}
      /\ UNCHANGED <<sock, connection, losses>>
      /\ \A y \in Setups : SocketOf(y)' = SocketOf(y) /\ (y # x => stage'[y] = stage[y])
      /\ stage[x] = "late" => stage'[x] = "late"
      /\ \A s \in Sockets : ws'[s] = "closed" <=> ws[s] = "closed"
  BY SetupFacts, SetupHasSocket
<1>1. Reconnections' = Reconnections
  BY <1>0 DEF Reconnections
<1>2. /\ stage'[x] # "none"
      /\ \A m \in Messages : m # x[1] => pc'[m] = pc[m]
      /\ hooks \subseteq hooks'
      /\ \A m \in hooks' : m \notin hooks => m = x[1] /\ pc'[m] = "done"
      /\ pc'[x[1]] \in {pc[x[1]], "failed", "done"}
      /\ pc[x[1]] # "setup" => pc'[x[1]] \in {pc[x[1]], "done"}
  BY <1>0, SetupEnding DEF SetupOutcome, HandlersOK, Running
<1>3. stage[x] \in Running => pc[x[1]] # "failed"
  BY DEF SetupInv
<1>4. HandlerInv'
  <2>1. \A m \in Messages : pc'[m] # "unsent" => sock'[m] \in Sockets
    BY <1>0, <1>2 DEF HandlerInv
  <2>2. \A m \in hooks' : pc'[m] = "done"
    BY <1>0, <1>2 DEF HandlerInv, ListenersOK
  <2>3. ASSUME NEW y \in Setups, stage'[y] # "none"
        PROVE  pc'[y[1]] \in {"setup", "failed", "done"} /\ y[2] <= Reconnections'
    <3>1. stage[y] # "none" /\ y[1] \in Messages
      BY <1>0, <2>3, SetupType
    <3>. QED  BY <1>0, <1>1, <1>2, <3>1 DEF HandlerInv
  <2>. QED  BY <2>1, <2>2, <2>3 DEF HandlerInv
<1>5. SetupInv'
  <2>1. ASSUME NEW y \in Setups, stage'[y] # "none", ws'[SocketOf(y)'] # "closed"
        PROVE  y[1] \in hooks' \/ pc'[y[1]] \in {"setup", "failed"}
    <3>1. stage[y] # "none" /\ y[1] \in Messages /\ ws[SocketOf(y)] # "closed"
      BY <1>0, <2>1, SetupHasSocket
    <3>2. y[1] \in hooks \/ pc[y[1]] \in {"setup", "failed"}
      BY <3>1 DEF SetupInv
    <3>3. CASE y[1] # x[1] \/ y[1] \in hooks
      BY <1>2, <3>1, <3>2, <3>3
    <3>4. CASE y[1] = x[1] /\ pc[x[1]] \in {"setup", "failed"}
      BY <1>0, <1>3, <3>4, SetupEnding DEF SetupOutcome, HandlersOK
    <3>. QED  BY <3>2, <3>3, <3>4
  <2>2. ASSUME NEW y \in Setups, NEW z \in Setups, y[1] = z[1], pc'[y[1]] = "setup",
               stage'[y] # "none", stage'[z] # "none"
        PROVE  y = z
    <3>1. pc[y[1]] = "setup" /\ stage[y] # "none" /\ stage[z] # "none"
      BY <1>0, <1>2, <2>2, SetupType
    <3>. QED  BY <2>2, <3>1 DEF SetupInv
  <2>3. ASSUME NEW y \in Setups, pc'[y[1]] = "setup"
        PROVE  stage'[y] \in Running \cup {"none"}
    <3>1. pc[y[1]] = "setup"
      BY <1>0, <1>2, <2>3, SetupType
    <3>2. CASE y = x
      BY <1>0, <2>3, <3>1, <3>2, SetupEnding DEF SetupInv, SetupOutcome, HandlersOK, Running
    <3>3. CASE y # x
      BY <1>0, <3>1, <3>3 DEF SetupInv
    <3>. QED  BY <3>2, <3>3
  <2>4. ASSUME NEW y \in Setups, pc'[y[1]] = "failed"
        PROVE  stage'[y] \notin Running
    <3>1. CASE pc[y[1]] = "failed"
      <4>1. stage[y] \notin Running
        BY <3>1 DEF SetupInv
      <4>2. CASE y # x
        BY <1>0, <4>1, <4>2
      <4>3. CASE y = x
        BY <4>1, <4>3, SetupEnding DEF SetupOutcome, Running
      <4>. QED  BY <4>2, <4>3
    <3>2. CASE pc[y[1]] # "failed"
      <4>1. y[1] = x[1] /\ pc[x[1]] = "setup" /\ stage'[x] \in {"late", "failed"}
        BY <1>0, <1>2, <2>4, <3>2, SetupType, SetupEnding DEF SetupOutcome, HandlersOK
      <4>2. CASE y = x
        BY <4>1, <4>2 DEF Running
      <4>3. CASE y # x
        <5>1. stage[y] = "none"
          BY <1>0, <4>1, <4>3 DEF SetupInv
        <5>. QED  BY <1>0, <4>3, <5>1 DEF Running
      <4>. QED  BY <4>2, <4>3
    <3>. QED  BY <3>1, <3>2
  <2>. QED  BY <2>1, <2>2, <2>3, <2>4 DEF SetupInv
<1>6. ConsumerInv'
  <2>1. ASSUME NEW c \in consumers
        PROVE  /\ stage'[c.by] # "none"
               /\ ws'[SocketOf(c.by)'] = "closed" =>
                    stage'[c.by] \notin {"over", "failed"} \/ pc'[c.by[1]] = "failed"
    <3>1. /\ c.by \in Setups /\ c.by[1] \in Messages /\ SocketOf(c.by) \in Sockets
          /\ stage[c.by] # "none" /\ SocketOf(c.by)' = SocketOf(c.by)
      BY <1>0, ConsumerType
    <3>2. CASE c.by = x
      BY <1>0, <1>2, <3>1, <3>2, SetupEnding DEF SetupOutcome, Running
    <3>3. CASE c.by # x
      <4>1. stage'[c.by] = stage[c.by]
        BY <1>0, <3>1, <3>3
      <4>2. pc[c.by[1]] = "failed" => pc'[c.by[1]] = "failed"
        BY <1>0, <1>2, <1>3, <3>1, SetupEnding DEF SetupOutcome, HandlersOK
      <4>. QED  BY <1>0, <3>1, <4>1, <4>2 DEF ConsumerInv
    <3>. QED  BY <3>2, <3>3
  <2>2. CASE KeepsConsumers
    <3>1. \A c \in consumers : events'[SocketOf(c.by)'][c.group] = c.by
      BY <1>0, <2>2, ConsumerType DEF KeepsConsumers, ConsumerInv
    <3>2. HeardOnce'
      BY <1>0, <2>2, ConsumerType DEF KeepsConsumers, ConsumerInv, HeardOnce
    <3>3. connection' \/ consumers' = {}
      BY <1>0, <2>2, Zenon DEF KeepsConsumers, ConsumerInv
    <3>. QED  BY <2>1, <2>2, <3>1, <3>2, <3>3 DEF KeepsConsumers, ConsumerInv
  <2>3. CASE AddsConsumer(x)
    <3>1. PICK l \in listening :
            /\ l.by = x
            /\ Free(SocketOf(x), l.group)
            /\ consumers' = consumers \cup {l}
            /\ events'[SocketOf(x)][l.group] = x
            /\ \A c \in consumers : events'[SocketOf(c.by)][c.group] = events[SocketOf(c.by)][c.group]
      BY <2>3 DEF AddsConsumer
    <3>2. connection'
      BY <1>0, <2>3, Zenon DEF AddsConsumer
    <3>3. ASSUME NEW c \in consumers'
          PROVE  /\ events'[SocketOf(c.by)'][c.group] = c.by
                 /\ stage'[c.by] # "none"
                 /\ ws'[SocketOf(c.by)'] = "closed" =>
                      stage'[c.by] \notin {"over", "failed"} \/ pc'[c.by[1]] = "failed"
      <4>1. CASE c \in consumers
        <5>1. events'[SocketOf(c.by)'][c.group] = c.by
          BY <1>0, <3>1, <4>1, ConsumerType DEF ConsumerInv
        <5>. QED  BY <2>1, <4>1, <5>1
      <4>2. CASE c = l
        BY <1>0, <1>2, <3>1, <4>2, SetupEnding DEF SetupOutcome, Running
      <4>. QED  BY <3>1, <4>1, <4>2
    <3>4. HeardOnce'
      <4>1. \A c \in consumers : SocketOf(c.by)' = SocketOf(c.by)
        BY <1>0, ConsumerType
      <4>2. \A c \in consumers : ~(SocketOf(c.by)' = SocketOf(l.by)' /\ c.group = l.group)
        BY <1>0, <3>1, <4>1, FreeHasNone
      <4>3. HeardOnce
        BY DEF ConsumerInv
      <4>. QED  BY <3>1, <4>1, <4>2, <4>3 DEF HeardOnce
    <3>. QED  BY <3>2, <3>3, <3>4 DEF ConsumerInv
  <2>. QED  BY <1>0, <2>2, <2>3, SetupConsumers
<1>7. HookInv'
  <2>1. \A y \in Setups : stage[y] = "late" => stage'[y] = "late"
    BY <1>0
  <2>2. ASSUME NEW m \in hooks', ws'[sock'[m]] = "closed"
        PROVE  \E y \in Setups : y[1] = m /\ stage'[y] = "late"
    <3>1. CASE m \in hooks
      <4>1. ws[sock[m]] = "closed"
        BY <1>0, <2>2, <3>1 DEF HandlerInv, ListenersOK
      <4>. QED  BY <2>1, <3>1, <4>1 DEF HookInv
    <3>2. CASE m \notin hooks
      <4>1. m = x[1] /\ ws[SocketOf(x)] = "closed"
        BY <1>0, <1>2, <2>2, <3>2 DEF SocketOf
      <4>2. stage'[x] = "late"
        BY <2>2, <3>2, <4>1, SetupEnding DEF SetupOutcome
      <4>. QED  BY <4>1, <4>2
    <3>. QED  BY <3>1, <3>2
  <2>. QED  BY <2>2 DEF HookInv
<1>. QED  BY <1>4, <1>5, <1>6, <1>7

(* The close event: a hook has the stored consumers cancelled. *)
LEMMA CleanClosed ==
  ASSUME CleanInv, NEW s \in Sockets, SocketClosed(s)
  PROVE  HandlerInv' /\ SetupInv' /\ ConsumerInv' /\ HookInv'
<1>. USE CleanParts
<1>1. /\ ws[s] = "closing" /\ ws' = [ws EXCEPT ![s] = "closed"]
      /\ hooks' = {m \in hooks : sock[m] # s}
      /\ consumers' = CancelledStored(s)
      /\ UNCHANGED <<pc, sock, stage, events, connection, losses>>
  BY DEF SocketClosed, HooksLeft, handlerVars, busVars
<1>2. Reconnections' = Reconnections
  BY <1>1 DEF Reconnections
<1>3. ws'[s] = "closed" /\ \A t \in Sockets : t # s => ws'[t] = ws[t]
  BY <1>1 DEF SocketsOK
<1>4. HandlerInv'
  BY <1>1, <1>2 DEF HandlerInv
<1>5. SetupInv'
  <2>1. \A x \in Setups : SocketOf(x)' = SocketOf(x) /\ SocketOf(x) = sock[x[1]]
    BY <1>1 DEF SocketOf
  <2>2. \A x \in Setups : stage[x] # "none" => SocketOf(x) \in Sockets
    BY SetupHasSocket
  <2>. QED  BY <1>1, <1>3, <2>1, <2>2 DEF SetupInv
<1>6. ConsumerInv'
  <2>1. consumers' \subseteq consumers
    BY <1>1 DEF CancelledStored
  <2>2. connection' \/ consumers' = {}
    <3>1. connection \/ consumers = {}
      BY Zenon DEF ConsumerInv
    <3>2. CASE consumers = {}
      BY <2>1, <3>2
    <3>3. CASE connection
      BY <1>1, <3>3, Zenon
    <3>. QED  BY <3>1, <3>2, <3>3, Zenon
  <2>3. \A c \in consumers : SocketOf(c.by)' = SocketOf(c.by) /\ SocketOf(c.by) = sock[c.by[1]]
    BY <1>1 DEF SocketOf
  <2>4. ASSUME NEW c \in consumers', stage[c.by] \in {"over", "failed"}, pc[c.by[1]] # "failed"
        PROVE  SocketOf(c.by) # s
    <3>. SUFFICES ASSUME SocketOf(c.by) = s PROVE FALSE
      OBVIOUS
    <3>1. c \in consumers /\ c.by \in Setups /\ events[s][c.group] = c.by
      BY <2>1, ConsumerType DEF ConsumerInv
    <3>2. c.by[1] \in hooks \/ pc[c.by[1]] \in {"setup", "failed"}
      BY <1>1, <2>4, <3>1 DEF SetupInv
    <3>3. pc[c.by[1]] # "setup"
      BY <2>4, <3>1 DEF SetupInv, Running
    <3>4. c.by[1] \in hooks /\ sock[c.by[1]] = s
      BY <2>3, <2>4, <3>1, <3>2, <3>3
    <3>5. consumers' = {d \in consumers : d.by # events[s][d.group]}
      BY <1>1, <3>4 DEF CancelledStored
    <3>. QED  BY <3>1, <3>5
  <2>5. \A c \in consumers' : SocketOf(c.by) \in Sockets
    BY <2>1, ConsumerType
  <2>6. HeardOnce'
    BY <2>1, <2>3 DEF ConsumerInv, HeardOnce
  <2>. QED  BY <1>1, <1>3, <2>1, <2>2, <2>3, <2>4, <2>5, <2>6 DEF ConsumerInv
<1>7. HookInv'
  BY <1>1, <1>3 DEF HookInv, HandlerInv, ListenersOK
<1>. QED  BY <1>4, <1>5, <1>6, <1>7

(* A channel closes alone: the slots it empties are those of consumers     *)
(* that go with it.                                                        *)
LEMMA CleanChannel ==
  ASSUME CleanInv, NEW x \in Setups, ChannelClosed(x)
  PROVE  HandlerInv' /\ SetupInv' /\ ConsumerInv' /\ HookInv'
<1>. USE CleanParts
<1>1. /\ UNCHANGED <<ws, pc, sock, stage, connection, losses, hooks>>
      /\ consumers' \subseteq consumers
      /\ events' = [s \in Sockets |-> [g \in Groups |->
           IF \E c \in consumers \ consumers' : SocketOf(c.by) = s /\ c.group = g THEN Gone
           ELSE events[s][g]]]
  BY DEF ChannelClosed, handlerVars, busVars
<1>2. ASSUME NEW c \in consumers'
      PROVE  events'[SocketOf(c.by)][c.group] = events[SocketOf(c.by)][c.group]
  <2>1. c \in consumers /\ SocketOf(c.by) \in Sockets /\ c.group \in Groups
    BY <1>1, ConsumerType
  <2>2. ~\E d \in consumers \ consumers' : SocketOf(d.by) = SocketOf(c.by) /\ d.group = c.group
    BY <2>1 DEF ConsumerInv, HeardOnce
  <2>. QED  BY <1>1, <2>1, <2>2
<1>. QED  BY <1>1, <1>2, CleanKept

(* The broker connection is lost, with every consumer, and comes back. *)
LEMMA CleanBroker ==
  ASSUME CleanInv, Disconnected \/ Reconnected
  PROVE  HandlerInv' /\ SetupInv' /\ ConsumerInv' /\ HookInv'
<1>. USE CleanParts
<1>0. losses \in Nat /\ Reconnections \in Nat
  BY ReconnectionsType, ConstantsAssumption DEF SocketsOK, CleanInv
<1>1. CASE Disconnected
  <2>1. /\ connection /\ ~connection' /\ losses' = losses + 1 /\ consumers' = {}
        /\ UNCHANGED <<ws, pc, sock, hooks>>
    BY <1>1, Zenon DEF Disconnected
  <2>2. Reconnections' = Reconnections
    BY <1>0, <2>1 DEF Reconnections
  <2>3. \A x \in Setups : /\ stage'[x] \in Running <=> stage[x] \in Running
                          /\ stage'[x] \notin Running => stage'[x] = stage[x]
                          /\ stage[x] = "none" <=> stage'[x] = "none"
                          /\ stage[x] = "late" => stage'[x] = "late"
    BY <1>1 DEF Disconnected, Running
  <2>4. HandlerInv'
    BY <2>1, <2>2, <2>3 DEF HandlerInv
  <2>5. SetupInv' /\ HookInv'
    BY <2>1, <2>3 DEF SetupInv, HookInv, SocketOf
  <2>6. ConsumerInv'
    BY <2>1 DEF ConsumerInv, HeardOnce
  <2>. QED  BY <2>4, <2>5, <2>6
<1>2. CASE Reconnected
  <2>1. /\ ~connection /\ connection' /\ losses' = losses
        /\ UNCHANGED <<ws, pc, sock, hooks, consumers>>
    BY <1>2, Zenon DEF Reconnected
  <2>2. Reconnections = losses - 1 /\ Reconnections' = losses
    BY <2>1 DEF Reconnections
  <2>3. consumers = {}
    BY <2>1 DEF ConsumerInv
  <2>4. \A x \in Setups : x[2] = losses => stage[x] = "none"
    BY <1>0, <2>2 DEF HandlerInv
  <2>5. \A x \in Setups : \/ stage'[x] = stage[x]
                          \/ x[1] \in hooks /\ x[2] = losses /\ stage[x] = "none" /\ stage'[x] = "load"
    BY <1>2, <2>4 DEF Reconnected
  <2>6. \A x \in Setups : stage[x] = "late" => stage'[x] = "late"
    BY <2>5
  <2>7. HandlerInv'
    <3>1. \A x \in Setups : stage'[x] # "none" => pc'[x[1]] \in {"setup", "failed", "done"}
      BY <2>1, <2>5 DEF HandlerInv
    <3>2. \A x \in Setups : stage'[x] # "none" => x[2] <= Reconnections'
      BY <1>0, <2>2, <2>5, SetupType, ConstantsAssumption DEF HandlerInv
    <3>. QED  BY <2>1, <3>1, <3>2 DEF HandlerInv
  <2>8. SetupInv'
    <3>1. \A x \in Setups : pc[x[1]] \in {"setup", "failed"} => stage'[x] = stage[x]
      BY <2>5 DEF HandlerInv
    <3>2. \A x \in Setups : SocketOf(x)' = SocketOf(x)
      BY <2>1 DEF SocketOf
    <3>. QED  BY <2>1, <2>5, <3>1, <3>2 DEF SetupInv
  <2>9. ConsumerInv' /\ HookInv'
    BY <2>1, <2>3, <2>6 DEF ConsumerInv, HeardOnce, HookInv
  <2>. QED  BY <2>7, <2>8, <2>9
<1>. QED  BY <1>1, <1>2

LEMMA CleanStep == CleanInv /\ [Next]_vars => CleanInv'
<1>. SUFFICES ASSUME CleanInv, [Next]_vars PROVE CleanInv'
  OBVIOUS
<1>. USE CleanParts
<1>0. TypeOK' /\ LossInv'
  <2>1. TypeOK /\ LossInv
    BY DEF CleanInv
  <2>2. FlagsOK' /\ LossInv' /\ SocketsOK' /\ HandlersOK' /\ ListenersOK' /\ CleanupsOK'
    BY <2>1, FlagsStep, SocketsStep, HandlersStep, ListenersStep, CleanupsStep
  <2>. QED  BY <2>2, Zenon DEF TypeOK, FlagsOK, SocketsOK, HandlersOK, ListenersOK, Slots, CleanupsOK
<1>1. SUFFICES HandlerInv' /\ SetupInv' /\ ConsumerInv' /\ HookInv'
  BY <1>0 DEF CleanInv
<1>2. ASSUME NEW s \in Sockets, SocketStep(s)
      PROVE  HandlerInv' /\ SetupInv' /\ ConsumerInv' /\ HookInv'
  <2>1. CASE Connect(s) \/ HelloSent(s) \/ ReadyTimeout(s) \/ HeartbeatTimeout(s) \/ SessionCleaned(s)
    <3>1. UNCHANGED <<pc, sock, stage, events, connection, losses, hooks, consumers>>
      BY <2>1 DEF Connect, HelloSent, ReadyTimeout, HeartbeatTimeout, SessionCleaned, handlerVars,
         listenerVars, busVars
    <3>2. \A t \in Sockets : ws'[t] = "closed" <=> ws[t] = "closed"
      BY <2>1, ClosedType DEF Connect, HelloSent, ReadyTimeout, HeartbeatTimeout, SessionCleaned,
         SocketsOK
    <3>. QED  BY <3>1, <3>2, CleanKept
  <2>2. CASE SocketClosed(s)
    BY <2>2, CleanClosed
  <2>. QED  BY <1>2, <2>1, <2>2 DEF SocketStep
<1>3. ASSUME NEW m \in Messages, MessageStep(m)
      PROVE  HandlerInv' /\ SetupInv' /\ ConsumerInv' /\ HookInv'
  <2>1. ASSUME NEW s \in Sockets, Receive(m, s)
        PROVE  HandlerInv' /\ SetupInv' /\ ConsumerInv' /\ HookInv'
    BY <2>1, CleanReceive
  <2>2. CASE TokenAccepted(m)
    BY <2>2, CleanAccepted
  <2>3. CASE TokenRejected(m) \/ InvalidSessionSent(m)
    BY <2>3, CleanRejected
  <2>4. CASE ListenerCleaned(m)
    <3>1. UNCHANGED <<pc, sock, stage, events, connection, losses, hooks, ws>> /\ consumers' \subseteq consumers
      BY <2>4 DEF ListenerCleaned, handlerVars, busVars
    <3>. QED  BY <3>1, CleanKept
  <2>. QED  BY <1>3, <2>1, <2>2, <2>3, <2>4 DEF MessageStep
<1>4. ASSUME NEW x \in Setups, SetupStep(x)
      PROVE  HandlerInv' /\ SetupInv' /\ ConsumerInv' /\ HookInv'
  BY <1>4, CleanSetup
<1>5. CASE Disconnected \/ Reconnected
  BY <1>5, CleanBroker
<1>8. ASSUME NEW x \in Setups, ChannelClosed(x)
      PROVE  HandlerInv' /\ SetupInv' /\ ConsumerInv' /\ HookInv'
  BY <1>8, CleanChannel
<1>6. CASE ServerStep
  <2>1. UNCHANGED <<pc, sock, stage, events, connection, losses, hooks, consumers>>
    BY <1>6 DEF ServerStep, StopBegins, CloseClients, ClientsClosed, Stopped, handlerVars,
       listenerVars, busVars
  <2>2. \A t \in Sockets : ws'[t] = "closed" <=> ws[t] = "closed"
    BY <1>6, ClosedType DEF ServerStep, StopBegins, CloseClients, ClientsTold, ClientsClosed, Stopped
  <2>. QED  BY <2>1, <2>2, CleanKept
<1>7. CASE UNCHANGED vars
  BY <1>7, CleanKept DEF vars, handlerVars, listenerVars, busVars
<1>. QED  BY <1>2, <1>3, <1>4, <1>5, <1>6, <1>7, <1>8 DEF Next

LEMMA InitClean == Init => CleanInv
<1>. SUFFICES ASSUME Init PROVE CleanInv
  OBVIOUS
<1>1. HandlerInv /\ SetupInv /\ ConsumerInv /\ HookInv
  BY DEF Init, HandlerInv, SetupInv, ConsumerInv, HeardOnce, HookInv, Running
<1>. QED  BY <1>1, TypeInit DEF CleanInv

(* Once a socket's cleanup has ended, no consumer is left of a setup that  *)
(* ended or failed before the close event, unless it was the first of its  *)
(* message and failed, and no hook but of one that ended after it          *)
(* (cleanupListener).                                                      *)
THEOREM OnTimeIsCleaned == Spec => []OnTimeCleaned
<1>1. Init => CleanInv
  BY InitClean
<1>2. CleanInv => OnTimeCleaned
  BY CleanParts DEF OnTimeCleaned, ConsumerInv, HookInv
<1>. QED  BY <1>1, <1>2, CleanStep, PTL DEF Spec

(* However messages, reconnections, failing setups and the close race, a   *)
(* socket has at most one live consumer of a group of routes: the one it   *)
(* has stored (subscribeEvent).                                            *)
THEOREM ConsumerIsSingle == Spec => []HeardOnce
<1>1. Init => CleanInv
  BY InitClean
<1>2. CleanInv => HeardOnce
  BY CleanParts, Zenon DEF ConsumerInv
<1>. QED  BY <1>1, <1>2, CleanStep, PTL DEF Spec

-----------------------------------------------------------------------------
(* What one step may do to a socket and to what of it is unfinished. *)
SocketMoves(s) ==
  /\ \/ ws'[s] = ws[s]
     \/ ws[s] = "none" /\ ws'[s] = "open" /\ server = "up"
     \/ ws[s] = "open" /\ ws'[s] = "closing"
     \/ ws[s] = "closing" /\ ws'[s] = "closed"
  /\ ws[s] = "closed" => \A q \in Parts : <<s, q>> \in unfinished' => <<s, q>> \in unfinished

LEMMA TellingMoves ==
  ASSUME TypeOK, NEW s \in Sockets, unfinished' \subseteq unfinished,
         UNCHANGED ws \/ \E S : ws' = Closed(S)
  PROVE  SocketMoves(s)
BY TypeParts, ClosedType DEF SocketMoves, SocketsOK

LEMMA EverySocketMoves ==
  ASSUME TypeOK, [Next]_vars, NEW s \in Sockets
  PROVE  SocketMoves(s)
<1>0. SocketsOK
  BY TypeParts
<1>1. ASSUME NEW t \in Sockets, SocketStep(t) PROVE SocketMoves(s)
  <2>1. CASE Connect(t)
    BY <1>0, <2>1 DEF Connect, SocketMoves, SocketsOK, cleanupVars
  <2>2. CASE SocketClosed(t)
    <3>1. ws[t] = "closing" /\ ws' = [ws EXCEPT ![t] = "closed"]
      BY <2>2 DEF SocketClosed
    <3>2. \E P : unfinished' = unfinished \cup ({t} \X P)
      BY <2>2, Zenon DEF SocketClosed
    <3>. QED  BY <1>0, <3>1, <3>2 DEF SocketMoves, SocketsOK
  <2>3. CASE SessionCleaned(t) \/ HelloSent(t) \/ ReadyTimeout(t) \/ HeartbeatTimeout(t)
    BY <2>3, TellingMoves DEF SessionCleaned, HelloSent, ReadyTimeout, HeartbeatTimeout, cleanupVars
  <2>. QED  BY <1>1, <2>1, <2>2, <2>3 DEF SocketStep
<1>2. ASSUME NEW m \in Messages, MessageStep(m) PROVE SocketMoves(s)
  <2>1. UNCHANGED ws \/ \E S : ws' = Closed(S)
    BY <1>2 DEF MessageStep, Receive, TokenAccepted, TokenRejected, InvalidSessionSent,
       ClosedAfterAnswer, ListenerCleaned
  <2>2. unfinished' \subseteq unfinished
    BY <1>2 DEF MessageStep, Receive, TokenAccepted, TokenRejected, InvalidSessionSent,
       ListenerCleaned, cleanupVars
  <2>. QED  BY <2>1, <2>2, TellingMoves
<1>3. ASSUME NEW x \in Setups, SetupStep(x) PROVE SocketMoves(s)
  BY <1>3, SetupRest, TellingMoves
<1>4. CASE Disconnected \/ Reconnected \/ \E x \in Setups : ChannelClosed(x)
  BY <1>4, BrokerRest, TellingMoves
<1>5. CASE ServerStep
  <2>1. UNCHANGED ws \/ ws' = Closed(Clients)
    BY <1>5 DEF ServerStep, StopBegins, CloseClients, ClientsTold, ClientsClosed, Stopped
  <2>2. unfinished' = unfinished
    BY <1>5 DEF ServerStep, StopBegins, CloseClients, ClientsClosed, Stopped, cleanupVars
  <2>. QED  BY <2>1, <2>2, TellingMoves
<1>6. CASE UNCHANGED vars
  BY <1>6, TellingMoves DEF vars, cleanupVars
<1>. QED  BY <1>1, <1>2, <1>3, <1>4, <1>5, <1>6 DEF Next

(* A move of a socket is a step of its life, or none: what is unfinished   *)
(* before the close event would belong to no closed socket.                *)
LEMMA EverySocketLives ==
  ASSUME TypeOK, StopInv, [Next]_vars, NEW s \in Sockets
  PROVE  Life!Step(s) \/ LifePhase'[s] = LifePhase[s]
<1>1. LifePhase[s] = PhaseOf(s) /\ LifePhase'[s] = PhaseOf(s)'
  BY DEF LifePhase
<1>2. /\ ws[s] # "closed" => PhaseOf(s) = ws[s]
      /\ ws'[s] # "closed" => PhaseOf(s)' = ws'[s]
      /\ ws'[s] = "closed" => PhaseOf(s)' \in {"cleaning", "clean"}
  BY DEF PhaseOf
<1>3. CASE ws[s] = "closed"
  <2>1. /\ ws'[s] = "closed"
        /\ \A q \in Parts : <<s, q>> \in unfinished' => <<s, q>> \in unfinished
    BY <1>3, EverySocketMoves DEF SocketMoves
  <2>2. PhaseOf(s)' = PhaseOf(s) \/ (PhaseOf(s) = "cleaning" /\ PhaseOf(s)' = "clean")
    BY <1>3, <2>1 DEF PhaseOf
  <2>. QED  BY <1>1, <2>2 DEF Life!Step, Life!Clean
<1>4. CASE ws[s] # "closed"
  <2>1. \/ ws'[s] = ws[s]
        \/ ws[s] = "none" /\ ws'[s] = "open" /\ server = "up"
        \/ ws[s] = "open" /\ ws'[s] = "closing"
        \/ ws[s] = "closing" /\ ws'[s] = "closed"
    BY EverySocketMoves DEF SocketMoves
  <2>. QED  BY <1>1, <1>2, <1>4, <2>1
            DEF LifeStop, Life!Step, Life!Open, Life!Close, Life!Leave
<1>. QED  BY <1>3, <1>4

LEMMA StopLives ==
  ASSUME TypeOK, StopInv, [Next]_vars
  PROVE  Life!Ask \/ Life!Return \/ LifeStop' = LifeStop
<1>0. SocketsOK
  BY TypeParts
<1>1. CASE Stopped
  <2>1. ASSUME NEW s \in Sockets PROVE PhaseOf(s) \in {"none", "clean"}
    <3>1. ws[s] \in {"none", "closed"}
      BY <1>0, <1>1 DEF Stopped, StopInv, Clients, SocketsOK
    <3>2. ws[s] = "closed" => \A q \in Parts : <<s, q>> \notin unfinished
      BY <1>1 DEF Stopped, CleanupsDrained, Settled, StopInv
    <3>. QED  BY <3>1, <3>2 DEF PhaseOf
  <2>2. \A s \in Sockets : LifePhase[s] \in {"none", "clean"}
    BY <2>1 DEF LifePhase
  <2>3. LifeStop = "stopping" /\ LifeStop' = "stopped"
    BY <1>1 DEF Stopped, LifeStop
  <2>. QED  BY <2>2, <2>3 DEF Life!Return
<1>2. CASE StopBegins
  BY <1>2 DEF StopBegins, LifeStop, Life!Ask
<1>3. CASE CloseClients \/ ClientsClosed
  BY <1>3 DEF CloseClients, ClientsClosed, LifeStop
<1>4. CASE UNCHANGED server
  BY <1>4 DEF LifeStop
<1>5. ASSUME NEW s \in Sockets, SocketStep(s) PROVE UNCHANGED server
  BY <1>5 DEF SocketStep, Connect, HelloSent, ReadyTimeout, HeartbeatTimeout, SocketClosed,
     SessionCleaned, serverVars
<1>6. ASSUME NEW m \in Messages, MessageStep(m) PROVE UNCHANGED server
  BY <1>6 DEF MessageStep, Receive, TokenAccepted, TokenRejected, InvalidSessionSent,
     ListenerCleaned, serverVars
<1>7. ASSUME NEW x \in Setups, SetupStep(x) PROVE UNCHANGED server
  BY <1>7, SetupRest
<1>8. Disconnected \/ Reconnected \/ (\E x \in Setups : ChannelClosed(x)) \/ UNCHANGED vars
        => UNCHANGED server
  BY BrokerRest DEF vars, serverVars
<1>. QED  BY <1>1, <1>2, <1>3, <1>4, <1>5, <1>6, <1>7, <1>8 DEF Next, ServerStep

(* Sockets, cleanups and stop together keep what SocketLife promises to    *)
(* whoever stops the process, for any sockets, messages and losses.        *)
THEOREM RefinesSocketLife == Spec => ImplementsSocketLife
<1>1. Init => Life!Init
  BY DEF Init, Life!Init, LifePhase, LifeStop, PhaseOf
<1>2. TypeOK /\ StopInv /\ [Next]_vars => [Life!Next]_(Life!lifeVars)
  <2>. SUFFICES ASSUME TypeOK, StopInv, [Next]_vars PROVE Life!Next
    OBVIOUS
  <2>1. \A s \in Sockets : Life!Step(s) \/ LifePhase'[s] = LifePhase[s]
    BY EverySocketLives
  <2>2. LifePhase' = [s \in Sockets |-> LifePhase'[s]]
    BY DEF LifePhase
  <2>. QED  BY <2>1, <2>2, StopLives DEF Life!Next
<1>3. Init => StopInv
  BY DEF Init, StopInv, Clients
<1>. QED
  BY <1>1, <1>2, <1>3, StopStep, TypeInvariance, PTL DEF Spec, ImplementsSocketLife, Life!Spec

=============================================================================
