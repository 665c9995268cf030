---------------------------- MODULE GatewaySocket ----------------------------
(***************************************************************************)
(* The life of the gateway's sockets: the identify timeout, Identify and   *)
(* Resume, setupListener with its consumers, its reconnection hook and its *)
(* close hook, the close handlers and their joined cleanup promise, and    *)
(* the server's stop, which waits for every cleanup.                       *)
(*                                                                         *)
(* Handlers are not cancelled by a close.  What one does between two       *)
(* awaits is one step.  The routes of a socket are subscribed in two       *)
(* groups, with the guilds' permissions read in between: one consumer      *)
(* stands for a group (GuildRoutes and MemberRoutes have each).            *)
(***************************************************************************)
EXTENDS Integers, FiniteSets

CONSTANTS
  Sockets,
  Identifies, Resumes,  \* the messages that may arrive, on any socket
  MaxLosses             \* bounds how often the broker connection is lost

ASSUME ConstantsAssumption ==
  /\ Identifies \cap Resumes = {}
  /\ "session" \notin Identifies \cup Resumes
  /\ MaxLosses \in Nat

Messages == Identifies \cup Resumes

(* A call of setupEventListeners: by the handler of a message, or by its   *)
(* reconnection hook, after so many reconnections.                         *)
Setups == Messages \X (0 .. MaxLosses)

NoSetup == <<>>

(* What socket.events may hold besides: a registration on the process's    *)
(* own emitter, or a consumer that went with its channel.                  *)
Dead == <<"dead">>
Gone == <<"gone">>

(* The routes of the user, the session, friends and direct messages; and   *)
(* those of guilds and their channels.                                     *)
Groups == {"user", "guild"}

(* A listenEvent call, and the consumer it returns.  NoSetup stands for    *)
(* the process's shared channel, used while opts has none.                 *)
Listen == [by : Setups, group : Groups, channel : Setups \cup {NoSetup}]

NoSocket == "none"

(* What a closed socket's closeCleanup stands for: Close itself, and the   *)
(* cleanupListener of each message that had set up the listener.           *)
Parts == {"session"} \cup Messages

VARIABLES
  ws,            \* readyState; "none" before the upgrade
  readyTimeout,  \* socket.readyTimeout; "hello" until it is armed
  user,          \* socket.user_id is set
  pc,            \* where the handler of a message is
  sock,          \* the socket a message came on
  stage,         \* where a setupEventListeners call is
  channel,       \* opts.channel of a message's setupListener call
  events,        \* socket.events: the setup whose consumer it holds, by group
  connection,    \* RabbitMQ.connection is set
  losses,
  channels,      \* open channels at the broker, by the setup that made them
  listening,     \* listenEvent calls in flight
  consumers,     \* live consumers
  hooks,         \* messages whose handleReconnect is registered
  unfinished,    \* cleanups that have not ended
  closeCleanup,  \* what socket.closeCleanup waits for
  server,        \* how far stopGateway has come
  snapshot       \* the clients waitForGatewayClientsClose waits for

handlerVars == <<pc, sock, stage>>
listenerVars == <<channel, events, channels, listening, consumers, hooks>>
serverVars == <<server, snapshot>>
cleanupVars == <<unfinished, closeCleanup>>
busVars == <<connection, losses>>
vars == <<ws, readyTimeout, user, handlerVars, listenerVars, busVars,
          cleanupVars, serverVars>>

TypeOK ==
  /\ ws \in [Sockets -> {"none", "open", "closing", "closed"}]
  /\ readyTimeout \in [Sockets -> {"hello", "armed", "off"}]
  /\ user \in [Sockets -> BOOLEAN]
  /\ pc \in [Messages -> {"unsent", "token", "reject", "setup", "failed", "done"}]
  /\ sock \in [Messages -> Sockets \cup {NoSocket}]
  /\ stage \in [Setups -> {"none", "load", "channel", "user", "reads", "guild",
                           "rejected", "failed", "over", "late"}]
  /\ channel \in [Messages -> Setups \cup {NoSetup}]
  /\ events \in [Sockets -> [Groups -> Setups \cup {NoSetup, Dead, Gone}]]
  /\ connection \in BOOLEAN
  /\ losses \in 0 .. MaxLosses
  /\ channels \subseteq Setups
  /\ listening \subseteq Listen
  /\ consumers \subseteq Listen
  /\ hooks \subseteq Messages
  /\ unfinished \subseteq Sockets \X Parts
  /\ closeCleanup \in [Sockets -> SUBSET Parts]
  /\ server \in {"up", "notifying", "closing", "draining", "stopped"}
  /\ snapshot \subseteq Sockets

Init ==
  /\ ws = [s \in Sockets |-> "none"]
  /\ readyTimeout = [s \in Sockets |-> "hello"]
  /\ user = [s \in Sockets |-> FALSE]
  /\ pc = [m \in Messages |-> "unsent"]
  /\ sock = [m \in Messages |-> NoSocket]
  /\ stage = [x \in Setups |-> "none"]
  /\ channel = [m \in Messages |-> NoSetup]
  /\ events = [s \in Sockets |-> [g \in Groups |-> NoSetup]]
  /\ connection = TRUE
  /\ losses = 0
  /\ channels = {}
  /\ listening = {}
  /\ consumers = {}
  /\ hooks = {}
  /\ unfinished = {}
  /\ closeCleanup = [s \in Sockets |-> {}]
  /\ server = "up"
  /\ snapshot = {}

SocketOf(x) == sock[x[1]]
SetupsOf(s) == {x \in Setups : SocketOf(x) = s}

Reconnections == IF connection THEN losses ELSE losses - 1

(* Mutants carry the name of the slip they make; no specification uses them. *)
ClosedForGood(S) == [s \in Sockets |-> IF s \in S /\ ws[s] = "open" THEN "terminated" ELSE ws[s]]

(* socket.close(): nothing when it is closing or closed already. *)
Closed(S) == [s \in Sockets |-> IF s \in S /\ ws[s] = "open" THEN "closing" ELSE ws[s]]

-----------------------------------------------------------------------------
(* Connection, and what closes a socket from outside its handlers. *)

Connect(s) ==
  /\ server = "up" /\ ws[s] = "none"
  /\ ws' = [ws EXCEPT ![s] = "open"]
  /\ UNCHANGED <<readyTimeout, user, handlerVars, listenerVars, busVars,
                 cleanupVars, serverVars>>

(* await Send(Hello) returns.  On a socket that has closed the timer would *)
(* do nothing.                                                             *)
HelloSent(s) ==
  /\ ws[s] # "none" /\ readyTimeout[s] = "hello"
  /\ readyTimeout' = [readyTimeout EXCEPT ![s] = IF ws[s] = "open" THEN "armed" ELSE "off"]
  /\ UNCHANGED <<ws, user, handlerVars, listenerVars, busVars, cleanupVars, serverVars>>

ReadyTimeout(s) ==
  /\ readyTimeout[s] = "armed"
  /\ readyTimeout' = [readyTimeout EXCEPT ![s] = "off"]
  /\ ws' = Closed({s})
  /\ UNCHANGED <<user, handlerVars, listenerVars, busVars, cleanupVars, serverVars>>

(* The client goes away, or sends no heartbeat in time. *)
HeartbeatTimeout(s) ==
  /\ ws[s] = "open"
  /\ ws' = Closed({s})
  /\ UNCHANGED <<readyTimeout, user, handlerVars, listenerVars, busVars,
                 cleanupVars, serverVars>>

-----------------------------------------------------------------------------
(* Identify and Resume up to setupListener.  Messages still arrive while   *)
(* the closing handshake is under way.                                     *)

Receive(m, s) ==
  /\ pc[m] = "unsent" /\ ws[s] \in {"open", "closing"}
  /\ sock' = [sock EXCEPT ![m] = s]
  /\ \/ user[s] /\ UNCHANGED readyTimeout
     \/ ~user[s] /\ readyTimeout' = [readyTimeout EXCEPT ![s] = IF @ = "armed" THEN "off" ELSE @]
  /\ \/ \* already authenticated, or not a valid payload
        /\ pc' = [pc EXCEPT ![m] = "done"]
        /\ ws' = Closed({s})
     \/ /\ ~user[s]
        /\ pc' = [pc EXCEPT ![m] = "token"]
        /\ UNCHANGED ws
  /\ UNCHANGED <<user, stage, listenerVars, busVars, cleanupVars, serverVars>>

TokenAccepted(m) ==
  /\ pc[m] = "token" /\ server # "stopped"
  /\ pc' = [pc EXCEPT ![m] = "setup"]
  /\ user' = [user EXCEPT ![sock[m]] = TRUE]
  /\ stage' = [stage EXCEPT ![<<m, Reconnections>>] = "load"]
  /\ UNCHANGED <<ws, readyTimeout, sock, listenerVars, busVars, cleanupVars, serverVars>>

(* Resume answers before it closes. *)
AnswersFirst(m) == m \in Resumes

TokenRejected(m) ==
  /\ pc[m] = "token"
  /\ IF AnswersFirst(m)
       THEN pc' = [pc EXCEPT ![m] = "reject"] /\ UNCHANGED ws
       ELSE pc' = [pc EXCEPT ![m] = "done"] /\ ws' = Closed({sock[m]})
  /\ UNCHANGED <<readyTimeout, user, sock, stage, listenerVars, busVars,
                 cleanupVars, serverVars>>

ClosedUnlessSent(s) == ws

(* Sent or not, the socket is closed. *)
ClosedAfterAnswer(s) == Closed({s})

InvalidSessionSent(m) ==
  /\ pc[m] = "reject"
  /\ pc' = [pc EXCEPT ![m] = "done"]
  /\ ws' = ClosedAfterAnswer(sock[m])
  /\ UNCHANGED <<readyTimeout, user, sock, stage, listenerVars, busVars,
                 cleanupVars, serverVars>>

-----------------------------------------------------------------------------
(* setupListener: the user's routes on a channel of its own, the           *)
(* permissions, the guilds' routes.  With no connection routes go to the   *)
(* process's own emitter, where nothing will arrive.                       *)

(* The first setup registers the hooks, on a socket that has closed too.   *)
EndSetup(x) ==
  /\ stage' = [stage EXCEPT ![x] = IF ws[SocketOf(x)] = "closed" THEN "late" ELSE "over"]
  /\ pc' = [pc EXCEPT ![x[1]] = "done"]
  /\ hooks' = IF pc[x[1]] = "setup" THEN hooks \cup {x[1]} ELSE hooks

FreeAnyway(s, g) == TRUE

Free(s, g) == events[s][g] = NoSetup

(* socket.events with a group of s taken by y. *)
Taking(s, g, y) == [events EXCEPT ![s][g] = IF Free(s, g) THEN y ELSE @]

(* The guilds' routes, once the user's are in E and other calls in L.      *)
SubscribeGuilds(x, E, L) ==
  \/ /\ connection /\ Free(SocketOf(x), "guild")
     /\ stage' = [stage EXCEPT ![x] = "guild"]
     /\ events' = E
     /\ listening' = L \cup {[by |-> x, group |-> "guild", channel |-> channel'[x[1]]]}
     /\ UNCHANGED <<pc, hooks>>
  \/ /\ ~(connection /\ Free(SocketOf(x), "guild"))
     /\ events' = [E EXCEPT ![SocketOf(x)]["guild"] = IF @ = NoSetup THEN Dead ELSE @]
     /\ listening' = L
     /\ EndSetup(x)

(* Identify has the permissions, and goes on without an await. *)
AtHand(x) == x[1] \in Identifies /\ pc[x[1]] = "setup"

UserSubscribed(x, E, L) ==
  \/ AtHand(x) /\ SubscribeGuilds(x, E, L)
  \/ /\ ~AtHand(x)
     /\ stage' = [stage EXCEPT ![x] = "reads"]
     /\ events' = E
     /\ listening' = L
     /\ UNCHANGED <<pc, hooks>>

Loaded(x) ==
  /\ stage[x] = "load" /\ server # "stopped"
  /\ UNCHANGED channel
  /\ \/ /\ connection
        /\ stage' = [stage EXCEPT ![x] = "channel"]
        /\ UNCHANGED <<pc, events, listening, hooks>>
     \/ ~connection /\ UserSubscribed(x, Taking(SocketOf(x), "user", Dead), listening)
  /\ UNCHANGED <<ws, readyTimeout, user, sock, channels, consumers, busVars,
                 cleanupVars, serverVars>>

ChannelCreated(x) ==
  /\ stage[x] = "channel" /\ connection
  /\ channels' = channels \cup {x}
  /\ channel' = [channel EXCEPT ![x[1]] = x]
  /\ \/ /\ Free(SocketOf(x), "user")
        /\ stage' = [stage EXCEPT ![x] = "user"]
        /\ listening' = listening \cup {[by |-> x, group |-> "user", channel |-> x]}
        /\ UNCHANGED <<pc, events, hooks>>
     \/ ~Free(SocketOf(x), "user") /\ UserSubscribed(x, events, listening)
  /\ UNCHANGED <<ws, readyTimeout, user, sock, consumers, busVars, cleanupVars, serverVars>>

PermissionsRead(x) ==
  /\ stage[x] = "reads" /\ server # "stopped"
  /\ UNCHANGED channel
  /\ SubscribeGuilds(x, events, listening)
  /\ UNCHANGED <<ws, readyTimeout, user, sock, channels, consumers, busVars,
                 cleanupVars, serverVars>>

(* listenEvent returns on an open channel; a consumer of the same group    *)
(* may have been stored meanwhile, and the setup may have failed by then.  *)
Listened(l) ==
  LET x == l.by
      s == SocketOf(x)
      stored == Taking(s, l.group, x)
      others == listening \ {l}
  IN /\ l \in listening /\ connection
     /\ l.channel \in channels \cup {NoSetup}
     /\ consumers' = IF Free(s, l.group) THEN consumers \cup {l} ELSE consumers
     /\ UNCHANGED channel
     /\ \/ stage[x] = "user" /\ UserSubscribed(x, stored, others)
        \/ stage[x] = "guild" /\ EndSetup(x) /\ events' = stored /\ listening' = others
        \/ /\ stage[x] \in {"failed", "late"}
           /\ stage' = [stage EXCEPT ![x] = IF ws[s] = "closed" THEN "late" ELSE @]
           /\ events' = stored /\ listening' = others
           /\ UNCHANGED <<pc, hooks>>
     /\ UNCHANGED <<ws, readyTimeout, user, sock, channels, busVars, cleanupVars, serverVars>>

ClosedByMessage(x) ==
  IF pc[x[1]] = "setup" THEN Closed({SocketOf(x)}) ELSE ws

(* Message closes a socket whose handler throws, handleReconnect one whose *)
(* setup does.                                                             *)
ClosedByFailure(x) == Closed({SocketOf(x)})

(* A read, the channel or a consumer is refused.  What was stored stays,   *)
(* and the listens of a Promise.all go on; if it was the first setup of    *)
(* its message, the hooks are never registered.                            *)
SetupFails(x) ==
  /\ stage[x] \in {"load", "channel", "user", "reads", "guild", "rejected"}
  /\ stage' = [stage EXCEPT ![x] = IF ws[SocketOf(x)] = "closed" THEN "late" ELSE "failed"]
  /\ pc' = [pc EXCEPT ![x[1]] = IF @ = "setup" THEN "failed" ELSE @]
  /\ ws' = ClosedByFailure(x)
  /\ listening' \in {listening, {l \in listening : l.by # x}}
  /\ UNCHANGED <<readyTimeout, user, sock, channel, events, channels, consumers, hooks,
                 busVars, cleanupVars, serverVars>>

-----------------------------------------------------------------------------
(* The broker.  A setup that begins between the new connection and its     *)
(* announcement has its replies after it, so both are one step.            *)

Disconnected ==
  /\ connection /\ losses < MaxLosses
  /\ connection' = FALSE
  /\ losses' = losses + 1
  /\ channels' = {}
  /\ listening' = {}
  /\ consumers' = {}
  /\ channel' = [m \in Messages |-> IF m \in hooks THEN NoSetup ELSE channel[m]]
  /\ stage' = [x \in Setups |-> IF stage[x] \in {"channel", "user", "guild"} THEN "rejected"
                              ELSE stage[x]]
  /\ UNCHANGED <<ws, readyTimeout, user, pc, sock, events, hooks, cleanupVars, serverVars>>

Reconnected ==
  /\ ~connection
  /\ connection' = TRUE
  /\ channel' = [m \in Messages |-> IF m \in hooks THEN NoSetup ELSE channel[m]]
  /\ events' = [s \in Sockets |-> IF \E m \in hooks : sock[m] = s THEN [g \in Groups |-> NoSetup]
                                  ELSE events[s]]
  /\ stage' = [x \in Setups |-> IF x[1] \in hooks /\ x[2] = losses THEN "load" ELSE stage[x]]
  /\ UNCHANGED <<ws, readyTimeout, user, pc, sock, losses, channels, listening,
                 consumers, hooks, cleanupVars, serverVars>>

(* handleChannelError logs: nobody is told. *)
ChannelClosed(x) ==
  /\ x \in channels
  /\ channels' = channels \ {x}
  /\ consumers' = {c \in consumers : c.channel # x}
  /\ events' = [s \in Sockets |-> [g \in Groups |->
       IF \E c \in consumers \ consumers' : SocketOf(c.by) = s /\ c.group = g THEN Gone
       ELSE events[s][g]]]
  /\ UNCHANGED <<ws, readyTimeout, user, handlerVars, channel, listening, hooks, busVars,
                 cleanupVars, serverVars>>

-----------------------------------------------------------------------------
(* The close event.  Its listeners run in one emit, in the order they were *)
(* registered: Close, then the close hook of each setupListener, which     *)
(* joins the promise it finds.                                             *)

Replacing(part, promise) == part

Joining(part, promise) == part \cup promise

HooksKept(s) == hooks

HooksLeft(s) == {m \in hooks : sock[m] # s}

(* cleanupListener calls the unsubscribe functions in socket.events. *)
CancelledStored(s) ==
  IF \E m \in hooks : sock[m] = s
    THEN {c \in consumers : c.by # events[s][c.group]}
    ELSE consumers

SocketClosed(s) ==
  LET listeners == {m \in hooks : sock[m] = s}
      session == IF user[s] THEN {"session"} ELSE {}
  IN /\ ws[s] = "closing"
     /\ ws' = [ws EXCEPT ![s] = "closed"]
     /\ readyTimeout' = [readyTimeout EXCEPT ![s] = IF @ = "armed" THEN "off" ELSE @]
     /\ hooks' = HooksLeft(s)
     /\ consumers' = CancelledStored(s)
     /\ unfinished' = unfinished \cup ({s} \X (session \cup listeners))
     /\ closeCleanup' = [closeCleanup EXCEPT ![s] =
          IF listeners = {} THEN session ELSE Joining(listeners, session)]
     /\ UNCHANGED <<user, handlerVars, channel, events, channels, listening,
                    busVars, serverVars>>

(* Close: the voice state, and the delayed presence cleanup. *)
SessionCleaned(s) ==
  /\ <<s, "session">> \in unfinished
  /\ unfinished' = unfinished \ {<<s, "session">>}
  /\ UNCHANGED <<ws, readyTimeout, user, handlerVars, listenerVars, busVars,
                 closeCleanup, serverVars>>

(* cleanupListener has its cancellations answered, and closes the channel  *)
(* opts holds by now.                                                      *)
ListenerCleaned(m) ==
  /\ <<sock[m], m>> \in unfinished
  /\ unfinished' = unfinished \ {<<sock[m], m>>}
  /\ channels' = channels \ {channel[m]}
  /\ consumers' = {c \in consumers : c.channel \notin {channel[m]} \ {NoSetup}}
  /\ UNCHANGED <<ws, readyTimeout, user, handlerVars, channel, events, listening, hooks,
                 busVars, closeCleanup, serverVars>>

-----------------------------------------------------------------------------
(* stopGateway. *)

Settled(s) == \A p \in closeCleanup[s] : <<s, p>> \notin unfinished

Clients == {s \in Sockets : ws[s] \in {"open", "closing"}}

StopBegins ==
  /\ server = "up"
  /\ server' = "notifying"
  /\ UNCHANGED <<ws, readyTimeout, user, handlerVars, listenerVars, busVars,
                 cleanupVars, snapshot>>

AuthenticatedClosed == Closed({s \in Clients : user[s]})

(* waitForGatewayClientClose closes the clients that are not closing yet.  *)
ClientsTold == Closed(Clients)

(* broadcastReconnect settles. *)
CloseClients ==
  /\ server = "notifying"
  /\ server' = "closing"
  /\ snapshot' = Clients
  /\ ws' = ClientsTold
  /\ UNCHANGED <<readyTimeout, user, handlerVars, listenerVars, busVars, cleanupVars>>

ClientsClosed ==
  /\ server = "closing"
  /\ \A s \in snapshot : ws[s] = "closed" /\ Settled(s)
  /\ server' = "draining"
  /\ UNCHANGED <<ws, readyTimeout, user, handlerVars, listenerVars, busVars,
                 cleanupVars, snapshot>>

UndrainedAllowed == TRUE

(* connectionCloseCleanups is empty: those of clients gone before the stop *)
(* as well.                                                                *)
CleanupsDrained == \A s \in Sockets : ws[s] = "closed" => Settled(s)

Stopped ==
  /\ server = "draining"
  /\ CleanupsDrained
  /\ server' = "stopped"
  /\ UNCHANGED <<ws, readyTimeout, user, handlerVars, listenerVars, busVars,
                 cleanupVars, snapshot>>

-----------------------------------------------------------------------------
SocketStep(s) ==
  \/ Connect(s) \/ HelloSent(s) \/ ReadyTimeout(s) \/ HeartbeatTimeout(s)
  \/ SocketClosed(s) \/ SessionCleaned(s)

MessageStep(m) ==
  \/ \E s \in Sockets : Receive(m, s)
  \/ TokenAccepted(m) \/ TokenRejected(m) \/ InvalidSessionSent(m)
  \/ ListenerCleaned(m)

SetupStep(x) ==
  \/ Loaded(x) \/ ChannelCreated(x) \/ PermissionsRead(x) \/ SetupFails(x)
  \/ \E l \in listening : l.by = x /\ Listened(l)

ServerStep == StopBegins \/ CloseClients \/ ClientsClosed \/ Stopped

Next ==
  \/ \E s \in Sockets : SocketStep(s)
  \/ \E m \in Messages : MessageStep(m)
  \/ \E x \in Setups : SetupStep(x) \/ ChannelClosed(x)
  \/ Disconnected \/ Reconnected
  \/ ServerStep

Spec == Init /\ [][Next]_vars

(* Timers fire, the closing handshake ends (ws gives it thirty seconds),   *)
(* the database and the broker answer or fail, promises settle.  Nothing   *)
(* is assumed of clients, of losses or of a stop being asked for.          *)
Fairness ==
  /\ \A s \in Sockets :
       /\ WF_vars(HelloSent(s)) /\ WF_vars(ReadyTimeout(s))
       /\ WF_vars(SocketClosed(s)) /\ WF_vars(SessionCleaned(s))
  /\ \A m \in Messages :
       /\ WF_vars(TokenAccepted(m) \/ TokenRejected(m))
       /\ WF_vars(InvalidSessionSent(m)) /\ WF_vars(ListenerCleaned(m))
  /\ \A x \in Setups : WF_vars(SetupStep(x))
  /\ WF_vars(CloseClients) /\ WF_vars(ClientsClosed) /\ WF_vars(Stopped)

FairSpec == Spec /\ Fairness

-----------------------------------------------------------------------------
(* When stop() returns, and the process may close its database, every      *)
(* client is closed and no cleanup of one is still running, those of       *)
(* clients that had gone before the stop included (Server.stopGateway).    *)
StopAwaitsCleanups ==
  server = "stopped" =>
    unfinished = {} /\ \A s \in Sockets : ws[s] \in {"none", "closed"}

(* No event reaches a client twice: a socket has at most one live consumer *)
(* of a route, whatever messages and reconnections set up its listener at  *)
(* the same time (subscribeEvent).                                         *)
HeardOnce ==
  \A c, d \in consumers : SocketOf(c.by) = SocketOf(d.by) /\ c.group = d.group => c = d

(* What the operator who stops the process may rely on (SocketLife): no    *)
(* socket opens once a stop has begun, each is closed and cleaned up once, *)
(* and when the stop returns none is left in between (Server.stopGateway,  *)
(* trackConnectionCloseCleanup).                                           *)
PhaseOf(s) ==
  IF ws[s] # "closed" THEN ws[s]
  ELSE IF \E q \in Parts : <<s, q>> \in unfinished THEN "cleaning" ELSE "clean"

LifePhase == [s \in Sockets |-> PhaseOf(s)]

LifeStop == IF server \in {"up", "stopped"} THEN server ELSE "stopping"

Life == INSTANCE SocketLife WITH phase <- LifePhase, stop <- LifeStop

ImplementsSocketLife == Life!Spec

(* What the setups that ended before the close event registered, their    *)
(* consumers and the reconnection hook, is gone when the socket's cleanup  *)
(* has ended, of those that failed half-way on a reconnection too.  It is  *)
(* not when the first setup of a message fails, which leaves its consumers *)
(* without a close hook (cleanupListener).                                 *)
OnTimeCleaned ==
  \A s \in Sockets :
    ws[s] = "closed" /\ Settled(s) =>
      /\ \A c \in consumers : SocketOf(c.by) = s =>
           stage[c.by] \notin {"over", "failed"} \/ pc[c.by[1]] = "failed"
      /\ \A m \in hooks : sock[m] = s =>
           \E x \in Setups : x[1] = m /\ stage[x] = "late"

(* The same of every setup: once a socket's cleanup and its handlers have  *)
(* ended, nothing of it is left at the broker or among the hooks.          *)
ClosedLeavesNothing ==
  \A s \in Sockets :
    /\ ws[s] = "closed" /\ Settled(s)
    /\ \A m \in Messages : sock[m] = s => pc[m] \in {"failed", "done"}
    /\ \A x \in SetupsOf(s) : stage[x] \in {"none", "failed", "over", "late"}
    /\ \A l \in listening : SocketOf(l.by) # s
    => /\ \A m \in hooks : sock[m] # s
       /\ \A c \in consumers : SocketOf(c.by) # s

(* A socket is authenticated or closed in the end: no rejected, repeated   *)
(* or malformed message leaves it open without a timer (readyTimeout).     *)
AuthenticatedOrClosed ==
  \A s \in Sockets : ws[s] = "open" ~> user[s] \/ ws[s] # "open"

(* A setup begun by a reconnection ends with a live consumer for each     *)
(* group of routes or a closing socket, unless the connection is lost      *)
(* again: the client never stays connected and deaf because the setup      *)
(* failed (handleReconnect).  A consumer that was there and went with its  *)
(* channel is not made up for.                                             *)
Hears(s, g) ==
  events[s][g] = Gone \/ \E c \in consumers : SocketOf(c.by) = s /\ c.group = g

ResubscribedOrClosed ==
  \A s \in Sockets :
    (\E x \in SetupsOf(s) : stage[x] = "load" /\ x[1] \in hooks) ~>
      (~connection \/ ws[s] # "open" \/ \A g \in Groups : Hears(s, g))

(* A stop that was asked for ends, whatever clients and handlers do.       *)
StopEnds == server = "notifying" ~> server = "stopped"

=============================================================================
