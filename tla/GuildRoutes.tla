------------------------------ MODULE GuildRoutes ------------------------------
(***************************************************************************)
(* The guild and channel routes of one gateway socket that has every guild *)
(* intent (src/src/gateway/listener): socket.permissions, a consumer on    *)
(* the event bus per guild and per visible channel in socket.events, and   *)
(* socket.guild_event_ids, by which leaving a guild finds its routes.      *)
(*                                                                         *)
(* What a handler does between two awaits is one step.  The awaits that    *)
(* matter are listenEvent, which may be refused, the unsubscribe call of a *)
(* listen that was not needed, and the setup's database reads.             *)
(***************************************************************************)
EXTENDS Integers, FiniteSets

CONSTANTS
  Guilds,
  Channels,
  NoGuild,      \* of a direct-message channel
  GuildOf,      \* the guild a route belongs to
  Events,       \* consumeListenerEvent calls: bounds those in flight
  Setups,       \* setupEventListeners calls, likewise
  MaxLosses     \* bounds how often the connection is lost

Routes == Guilds \cup Channels

ASSUME ConstantsAssumption ==
  /\ Guilds \cap Channels = {}
  /\ NoGuild \notin Guilds
  /\ GuildOf \in [Routes -> Guilds \cup {NoGuild}]
  /\ \A g \in Guilds : GuildOf[g] = g
  /\ Events \cap Setups = {}
  /\ MaxLosses \in Nat

VARIABLES
  permissions,  \* socket.permissions: the guilds it has an entry for
  events,       \* socket.events, guild and channel ids
  tracked,      \* socket.guild_event_ids
  listening,    \* subscribeEvent calls that await listenEvent
  cancelling,   \* those that await the end of a consumer they did not need
  live,         \* consumers of this socket at the broker, per route
  refused,      \* history: joined guilds whose listen was rejected, with no
                \* consumer stored for them since
  loading,      \* guilds each setup has read and not yet subscribed
  bus,          \* RabbitMQ.connection
  heard,        \* what RabbitMQ.events announced last
  hooked,       \* handleReconnect is registered: the initial setup has ended
  losses,
  open          \* FALSE once the gateway has closed the socket

vars == <<permissions, events, tracked, listening, cancelling, live, refused, loading,
          bus, heard, hooked, losses, open>>

Bus == INSTANCE BusStatus

Calls == Events \cup Setups

(* An unsubscribe function: of a consumer at the broker; of one that died  *)
(* with its connection or was registered while there was none ("dead"); or *)
(* of one that died with its channel alone ("closed").                     *)
Handle == {"none", "live", "dead", "closed"}
Subscribe == [call : Calls, route : Routes]

TypeOK ==
  /\ permissions \subseteq Guilds
  /\ events \in [Routes -> Handle]
  /\ tracked \in [Guilds -> SUBSET Routes]
  /\ listening \subseteq Subscribe
  /\ cancelling \subseteq Subscribe
  /\ live \in [Routes -> Nat]
  /\ refused \subseteq Guilds
  /\ loading \in [Setups -> SUBSET Guilds]
  /\ bus \in {"up", "down", "connecting"}
  /\ heard \in {"reconnected", "disconnected"}
  /\ hooked \in BOOLEAN
  /\ losses \in Nat
  /\ open \in BOOLEAN

(* The initial setup has the user's guilds from Identify. *)
Init ==
  /\ permissions = {}
  /\ events = [x \in Routes |-> "none"]
  /\ tracked = [g \in Guilds |-> {}]
  /\ listening = {}
  /\ cancelling = {}
  /\ live = [x \in Routes |-> 0]
  /\ refused = {}
  /\ \E s \in Setups, G \in SUBSET Guilds :
       loading = [t \in Setups |-> IF t = s THEN G ELSE {}]
  /\ bus = "up"
  /\ heard = "reconnected"
  /\ hooked = FALSE
  /\ losses = 0
  /\ open = TRUE

RoutesOf(g) == {x \in Routes : GuildOf[x] = g}
Visible(g) == {c \in Channels : GuildOf[c] = g}

(* Mutants carry the name of the slip they make; no specification uses them. *)
CountAny(h) == 1

(* Consumers at the broker that a handle stands for. *)
Count(h) == IF h = "live" THEN 1 ELSE 0

Busy(c) == \E s \in listening \cup cancelling : s.call = c

-----------------------------------------------------------------------------
(* subscribeEvent up to its first await, for several routes of one call.   *)
(* With no connection listenEvent falls back to the process's own emitter  *)
(* and returns at once; nothing will ever arrive there.                    *)

TrackGuildOnly(X) == [g \in Guilds |-> tracked[g] \cup (X \cap {g})]

Track(X) == [g \in Guilds |-> tracked[g] \cup {x \in X : GuildOf[x] = g}]

SubscribeRoutes(c, X) ==
  LET new == {x \in X : events[x] = "none"}
  IN IF bus = "down"
       THEN /\ events' = [x \in Routes |-> IF x \in new THEN "dead" ELSE events[x]]
            /\ tracked' = Track(X)
            /\ UNCHANGED listening
       ELSE /\ listening' = listening \cup [call : {c}, route : new]
            /\ tracked' = Track(X \ new)
            /\ UNCHANGED events

(* unsubscribeEventIds *)
UnsubscribeRoutes(X) ==
  /\ live' = [x \in Routes |-> IF x \in X THEN live[x] - Count(events[x]) ELSE live[x]]
  /\ events' = [x \in Routes |-> IF x \in X THEN "none" ELSE events[x]]

-----------------------------------------------------------------------------
(* listenEvent returns: the socket may have left the guild, or another     *)
(* call may have stored a consumer of the same route.                      *)

PermittedAnyway(x) == TRUE

Permitted(x) == GuildOf[x] \in permissions \cup {NoGuild}

TakenNever(x) == FALSE

TakenByRecord(x) == GuildOf[x] # NoGuild /\ x \in tracked[GuildOf[x]]

Taken(x) == events[x] # "none"

Listened(s) ==
  /\ s \in listening /\ bus = "up"
  /\ listening' = listening \ {s}
  /\ \/ ~Permitted(s.route) /\ UNCHANGED <<events, tracked, live, refused, cancelling>>
     \/ /\ Permitted(s.route) /\ Taken(s.route)
        /\ cancelling' = cancelling \cup {s}
        /\ UNCHANGED <<events, tracked, live, refused>>
     \/ /\ Permitted(s.route) /\ ~Taken(s.route)
        /\ events' = [events EXCEPT ![s.route] = "live"]
        /\ live' = [live EXCEPT ![s.route] = @ + 1]
        /\ tracked' = Track({s.route})
        /\ refused' = refused \ {s.route}
        /\ UNCHANGED cancelling
  /\ UNCHANGED <<permissions, loading, bus, heard, hooked, losses, open>>

(* It throws, because no channel could be opened or the socket's channel   *)
(* has closed.  The permission that was set before it was called stays.    *)
(* An event's handler leaves it at that; a setup's error closes the socket.*)
ListenRejected(s) ==
  /\ s \in listening /\ bus = "up"
  /\ listening' = listening \ {s}
  /\ refused' = refused \cup ({s.route} \cap permissions)
  /\ open' = (s.call \in Events)
  /\ UNCHANGED <<permissions, events, tracked, cancelling, live, loading, bus, heard, hooked, losses>>

(* The surplus consumer is gone; the route is tracked only now. *)
Cancelled(s) ==
  /\ s \in cancelling
  /\ cancelling' = cancelling \ {s}
  /\ tracked' = Track({s.route})
  /\ UNCHANGED <<permissions, events, listening, live, refused, loading, bus, heard, hooked,
                 losses, open>>

-----------------------------------------------------------------------------
(* consumeListenerEvent.  V is what the event's permissions let the user   *)
(* see; a channel of a guild without an entry counts as visible.           *)

GuildCreate(e, g, V) ==
  /\ ~Busy(e)
  /\ permissions' = permissions \cup {g}
  /\ SubscribeRoutes(e, {g} \cup V)
  /\ UNCHANGED <<cancelling, live, refused, loading, bus, heard, hooked, losses, open>>

(* unsubscribeGuildEventIds: with no record, the guild's own route. *)
RecordedRoutes(g) == IF tracked[g] = {} THEN {g} ELSE tracked[g]

GuildDelete(g) ==
  /\ permissions' = permissions \ {g}
  /\ UnsubscribeRoutes(RecordedRoutes(g))
  /\ tracked' = [tracked EXCEPT ![g] = {}]
  /\ refused' = refused \ {g}
  /\ UNCHANGED <<listening, cancelling, loading, bus, heard, hooked, losses, open>>

(* CHANNEL_CREATE, and CHANNEL_UPDATE of a channel that can be seen now. *)
ChannelShown(e, c) ==
  /\ ~Busy(e)
  /\ SubscribeRoutes(e, {c})
  /\ UNCHANGED <<permissions, cancelling, live, refused, loading, bus, heard, hooked, losses, open>>

(* CHANNEL_DELETE, and CHANNEL_UPDATE of a channel that is hidden now. *)
ChannelGone(c) ==
  /\ tracked' = [g \in Guilds |-> IF GuildOf[c] \in {g, NoGuild} THEN tracked[g] \ {c}
                                  ELSE tracked[g]]
  /\ UnsubscribeRoutes({c})
  /\ UNCHANGED <<permissions, listening, cancelling, refused, loading, bus, heard, hooked, losses,
                 open>>

-----------------------------------------------------------------------------
(* The connection takes the steps of BusStatus.  Losing it kills every     *)
(* consumer and rejects every listen; a rejected setup closes the socket.  *)

ConsumersLost ==
  /\ events' = [x \in Routes |-> IF events[x] = "none" THEN "none" ELSE "dead"]
  /\ live' = [x \in Routes |-> 0]
  /\ listening' = {}
  /\ \/ open' = FALSE /\ \E s \in Setups : loading[s] # {} \/ Busy(s)
     \/ open' = TRUE /\ \A s \in listening : s.call \in Events
  /\ UNCHANGED <<permissions, tracked, cancelling, refused, loading, hooked>>

(* handleChannelError logs: the consumers of a channel end with it and the *)
(* socket is not told.  Those asked for before the socket had a channel of *)
(* its own are on the process's, so X is any of the routes.                *)
ChannelClosed(X) ==
  /\ bus = "up"
  /\ events' = [x \in Routes |-> IF x \in X /\ events[x] = "live" THEN "closed" ELSE events[x]]
  /\ live' = [x \in Routes |-> live[x] - (Count(events[x]) - Count(events'[x]))]
  /\ UNCHANGED <<permissions, tracked, listening, cancelling, refused, loading, bus, heard, hooked,
                 losses, open>>

Disconnect ==
  /\ Bus!Lose
  /\ losses < MaxLosses
  /\ losses' = losses + 1
  /\ ConsumersLost

Abandon ==
  /\ Bus!Abandon
  /\ ConsumersLost
  /\ UNCHANGED losses

Connect ==
  /\ Bus!Connect
  /\ UNCHANGED <<permissions, events, tracked, listening, cancelling, live, refused,
                 loading, hooked, losses, open>>

(* handleReconnect forgets everything; its setup reads the guilds the user *)
(* is in at that time.  It does so too when the connection it is told of   *)
(* has gone again.                                                         *)
Reconnect(s, G) ==
  /\ Bus!Announce \/ Bus!AnnounceLate
  /\ hooked
  /\ loading[s] = {} /\ ~Busy(s)
  /\ permissions' = {}
  /\ events' = [x \in Routes |-> "none"]
  /\ tracked' = [g \in Guilds |-> {}]
  /\ refused' = {}
  /\ loading' = [loading EXCEPT ![s] = G]
  /\ UNCHANGED <<listening, cancelling, live, hooked, losses, open>>

(* The initial setup is told nothing: what it has left to ask for it asks  *)
(* on the channel of the lost connection, is rejected and closes the       *)
(* socket.                                                                 *)
ReconnectUnheard ==
  /\ ~hooked
  /\ \/ /\ Bus!Announce
        /\ \E s \in Setups : loading[s] # {}
        /\ open' = FALSE
     \/ Bus!AnnounceLate /\ UNCHANGED open
  /\ UNCHANGED <<permissions, events, tracked, listening, cancelling, live, refused,
                 loading, hooked, losses>>

(* The initial setup has subscribed to all it has read. *)
HookReconnect ==
  /\ ~hooked
  /\ \A s \in Setups : loading[s] = {} /\ ~Busy(s)
  /\ hooked' = TRUE
  /\ UNCHANGED <<permissions, events, tracked, listening, cancelling, live, refused,
                 loading, bus, heard, losses, open>>

(* One guild of a setup, once its permission is there. *)
SetupGuild(s, g, V) ==
  /\ g \in loading[s]
  /\ permissions' = permissions \cup {g}
  /\ SubscribeRoutes(s, {g} \cup V)
  /\ loading' = [loading EXCEPT ![s] = @ \ {g}]
  /\ UNCHANGED <<cancelling, live, refused, bus, heard, hooked, losses, open>>

(* The database refuses to read the guilds it has left, or their           *)
(* permissions: the socket is closed.                                      *)
SetupFails(s) ==
  /\ loading[s] # {}
  /\ open' = FALSE
  /\ UNCHANGED <<permissions, events, tracked, listening, cancelling, live, refused, loading,
                 bus, heard, hooked, losses>>

-----------------------------------------------------------------------------
(* Events arrive over the bus. *)
EventStep ==
  /\ bus = "up"
  /\ \/ \E e \in Events, g \in Guilds : \E V \in SUBSET Visible(g) : GuildCreate(e, g, V)
     \/ \E g \in Guilds : GuildDelete(g)
     \/ \E c \in Channels : ChannelGone(c) \/ \E e \in Events : ChannelShown(e, c)

BusStep ==
  \/ Disconnect \/ Abandon \/ Connect \/ ReconnectUnheard \/ HookReconnect
  \/ \E X \in SUBSET Routes : ChannelClosed(X)
  \/ \E s \in Setups :
       \/ SetupFails(s)
       \/ \E G \in SUBSET Guilds : Reconnect(s, G)
       \/ \E g \in Guilds : \E V \in SUBSET Visible(g) : SetupGuild(s, g, V)

AnswerStep(s) == Listened(s) \/ ListenRejected(s) \/ Cancelled(s)

Next ==
  /\ open
  /\ \/ \E s \in listening \cup cancelling : AnswerStep(s)
     \/ EventStep
     \/ BusStep

Spec == Init /\ [][Next]_vars

-----------------------------------------------------------------------------
(* Properties *)

(* Every consumer at the broker is held by socket.events, so it can be     *)
(* cancelled: concurrent handlers that subscribe to the same route neither *)
(* overwrite nor forget an unsubscribe function.                           *)
NoLeak == \A x \in Routes : live[x] = Count(events[x])

(* A socket that has left a guild receives none of its routes, even if the *)
(* guild was left while they were being asked for.                         *)
RouteNeedsPermission ==
  \A x \in Routes : events[x] # "none" => GuildOf[x] \in permissions \cup {NoGuild}

(* Leaving a guild finds its routes by socket.guild_event_ids: a route it  *)
(* does not list would stay subscribed for the life of the socket.         *)
RoutesRecorded ==
  \A x \in Routes : events[x] # "none" /\ GuildOf[x] # NoGuild => x \in tracked[GuildOf[x]]

(* A guild the socket has joined is heard from: with no listen in flight   *)
(* its route is subscribed, whatever joins and leaves overlapped.  Only a  *)
(* refusal of the broker makes it deaf: the channel its consumer was on    *)
(* has closed, or its listen was rejected and none has come back since.    *)
GuildHeard ==
  bus = "up" /\ open =>
    \A g \in permissions :
      (\A s \in listening : s.route # g) => events[g] \in {"live", "closed"} \/ g \in refused

=============================================================================
