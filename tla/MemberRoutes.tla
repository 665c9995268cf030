----------------------------- MODULE MemberRoutes -----------------------------
(***************************************************************************)
(* The presence routes of one gateway socket that has the GUILD_PRESENCES  *)
(* intent (src/src/gateway/listener): a consumer per user on the event     *)
(* bus, held in socket.events for friends and in socket.member_events for  *)
(* users of a lazy member list, with the two-way index of which guild's    *)
(* list wants which user.                                                  *)
(*                                                                         *)
(* Handlers of bus events and of client messages run concurrently: what a  *)
(* handler does between two awaits is one step, and the await of interest  *)
(* is listenEvent, which asks RabbitMQ for a consumer and may be refused.  *)
(* The connection takes the steps of BusStatus, each with what its         *)
(* handlers do here; a channel may also close while it stands.  Cancelling *)
(* a consumer takes effect at once.                                        *)
(***************************************************************************)
EXTENDS Integers, FiniteSets

CONSTANTS
  Users,
  Guilds,
  Direct,       \* in the place of a guild: a listen for socket.events
  Lists,        \* onLazyRequest calls, numbered as the client sent them
  Events,       \* consumeListenerEvent calls: bounds those that listen at a time
  Setups,       \* setupEventListeners calls, likewise
  MaxLosses     \* bounds how often the connection is lost

ASSUME ConstantsAssumption ==
  /\ IsFiniteSet(Users)
  /\ Direct \notin Guilds
  /\ Lists \subseteq Nat
  /\ Lists \cap Events = {} /\ Lists \cap Setups = {} /\ Events \cap Setups = {}
  /\ MaxLosses \in Nat

VARIABLES
  direct,       \* socket.events, user ids only
  member,       \* socket.member_events
  guildUsers,   \* socket.guild_member_event_ids
  userGuilds,   \* socket.member_event_guild_ids
  listening,    \* listenEvent calls in flight
  live,         \* consumers of this socket at the broker, per user
  refused,      \* history: tracked pairs whose listen was rejected, with no
                \* consumer opened for the user since
  list,         \* onLazyRequest calls
  loading,      \* setupEventListeners calls that await the database
  bus,          \* RabbitMQ.connection
  heard,        \* what RabbitMQ.events announced last
  losses,
  open          \* FALSE once the gateway has closed the socket

routes == <<direct, member, guildUsers, userGuilds, listening, live, refused>>
vars == <<direct, member, guildUsers, userGuilds, listening, live, refused, list,
          loading, bus, heard, losses, open>>

Calls == Lists \cup Events \cup Setups

(* An unsubscribe function: of a consumer at the broker; of one that died  *)
(* with its connection or was registered while there was none ("dead"); or *)
(* of one that died with its channel alone ("closed").                     *)
Handle == {"none", "live", "dead", "closed"}
Listen == [call : Calls, guild : Guilds \cup {Direct}, user : Users]

(* A lazy request subscribes the members it names, then those of its       *)
(* ranges, then drops what the guild's list no longer shows.               *)
ListPc == {"new", "members", "range", "done"}
List == [pc : ListPc, guild : Guilds \cup {Direct}, users : SUBSET Users]

(* "connecting": the connection is there, RabbitMQ.connect opens its first *)
(* channel and then announces it; the broker answers nobody else before.   *)
Bus == INSTANCE BusStatus

TypeOK ==
  /\ direct \in [Users -> Handle]
  /\ member \in [Users -> Handle]
  /\ guildUsers \in [Guilds -> SUBSET Users]
  /\ userGuilds \in [Users -> SUBSET Guilds]
  /\ listening \subseteq Listen
  /\ live \in [Users -> Nat]
  /\ refused \subseteq Guilds \X Users
  /\ list \in [Lists -> List]
  /\ loading \subseteq Setups
  /\ bus \in {"up", "down", "connecting"}
  /\ heard \in {"reconnected", "disconnected"}
  /\ losses \in Nat
  /\ open \in BOOLEAN

NewList == [pc |-> "new", guild |-> Direct, users |-> {}]

(* The initial setup has asked for the routes of the user's friends. *)
Init ==
  /\ direct = [u \in Users |-> "none"]
  /\ member = [u \in Users |-> "none"]
  /\ guildUsers = [g \in Guilds |-> {}]
  /\ userGuilds = [u \in Users |-> {}]
  /\ \E s \in Setups, F \in SUBSET Users :
       listening = [call : {s}, guild : {Direct}, user : F]
  /\ live = [u \in Users |-> 0]
  /\ refused = {}
  /\ list = [l \in Lists |-> NewList]
  /\ loading = {}
  /\ bus = "up"
  /\ heard = "reconnected"
  /\ losses = 0
  /\ open = TRUE

(* Mutants carry the name of the slip they make; no specification uses them. *)
CountAny(h) == 1

(* Consumers at the broker that a handle stands for. *)
Count(h) == IF h = "live" THEN 1 ELSE 0

OwnListens(c) == {l \in listening : l.call = c}

-----------------------------------------------------------------------------
(* listenEvent.  With no connection it falls back to the process's own     *)
(* emitter and returns at once; nothing will ever arrive there.            *)

BeginListens(c, g, U) ==
  listening' = IF bus = "down" THEN listening
               ELSE listening \cup [call : {c}, guild : {g}, user : U]

Store(slots, U) == [u \in Users |-> IF bus = "down" /\ u \in U THEN "dead" ELSE slots[u]]

-----------------------------------------------------------------------------
(* subscribeDirectUserEvent, for a friend or for all of them: the list's   *)
(* consumer is taken over if there is one, else a listen begins.           *)

SubscribeDirect(c, F) ==
  LET new == {u \in F : direct[u] = "none"}
      promoted == {u \in new : member[u] # "none"}
  IN /\ BeginListens(c, Direct, new \ promoted)
     /\ direct' = [u \in Users |-> IF u \in promoted THEN member[u]
                                   ELSE Store(direct, new)[u]]
     /\ member' = [u \in Users |-> IF u \in promoted THEN "none" ELSE member[u]]
     /\ UNCHANGED <<guildUsers, userGuilds, live, refused>>

(* subscribeGuildMemberEvent, for one user or for a list: it tracks them   *)
(* and listens for those that have no consumer yet.                        *)
SubscribeMembers(c, g, U) ==
  LET new == U \ guildUsers[g]
      uncovered == {u \in new : member[u] = "none" /\ direct[u] = "none"}
  IN /\ BeginListens(c, g, uncovered)
     /\ guildUsers' = [guildUsers EXCEPT ![g] = @ \cup U]
     /\ userGuilds' = [u \in Users |-> IF u \in new THEN userGuilds[u] \cup {g}
                                       ELSE userGuilds[u]]
     /\ member' = Store(member, uncovered)
     /\ UNCHANGED <<direct, live, refused>>

(* unsubscribeGuildMemberEventIds: users no guild wants lose their route. *)
GuildsStay(u, g) == userGuilds[u]

GuildsLeft(u, g) == userGuilds[u] \ {g}

UnsubscribeMembers(g, U) ==
  LET unreferenced == {u \in U : GuildsLeft(u, g) = {}}
  IN /\ guildUsers' = [guildUsers EXCEPT ![g] = @ \ U]
     /\ userGuilds' = [u \in Users |-> IF u \in U THEN GuildsLeft(u, g) ELSE userGuilds[u]]
     /\ live' = [u \in Users |-> IF u \in unreferenced THEN live[u] - Count(member[u])
                                 ELSE live[u]]
     /\ refused' = refused \ ({g} \X U)
     /\ member' = [u \in Users |-> IF u \in unreferenced THEN "none" ELSE member[u]]
     /\ UNCHANGED <<direct, listening>>

-----------------------------------------------------------------------------
(* listenEvent returns: the state has to be looked at again. *)

Heard(u) == refused' = refused \ (Guilds \X {u})

Answered(l) == l \in listening /\ bus = "up"

KeepUntracked(l) == member[l.user] = "none"
KeepAlways(l) == l.user \in guildUsers[l.guild]

(* Still tracked, and nobody else was faster. *)
KeepMember(l) == l.user \in guildUsers[l.guild] /\ member[l.user] = "none"

MemberListened(l) ==
  /\ Answered(l) /\ l.guild \in Guilds
  /\ listening' = listening \ {l}
  /\ IF KeepMember(l)
       THEN /\ member' = [member EXCEPT ![l.user] = "live"]
            /\ live' = [live EXCEPT ![l.user] = @ + 1]
            /\ Heard(l.user)
       ELSE UNCHANGED <<member, live, refused>>
  /\ UNCHANGED <<direct, guildUsers, userGuilds, list, loading, bus, heard, losses, open>>

DirectListened(l) ==
  /\ Answered(l) /\ l.guild = Direct
  /\ listening' = listening \ {l}
  /\ IF direct[l.user] = "none"
       THEN /\ direct' = [direct EXCEPT ![l.user] = "live"]
            /\ live' = [live EXCEPT ![l.user] = @ + 1]
            /\ Heard(l.user)
       ELSE UNCHANGED <<direct, live, refused>>
  /\ UNCHANGED <<member, guildUsers, userGuilds, list, loading, bus, heard, losses, open>>

(* It throws, because no channel could be opened or the socket's channel   *)
(* has closed.  What was tracked before it was called stays tracked.  An   *)
(* event's handler leaves it at that; a lazy request or a setup passes it  *)
(* on to code that closes the socket.                                      *)
TrackedPair(l) == {<<l.guild, l.user>>} \cap {p \in Guilds \X Users : p[2] \in guildUsers[p[1]]}

ListenRejected(l) ==
  /\ Answered(l)
  /\ listening' = listening \ {l}
  /\ refused' = refused \cup TrackedPair(l)
  /\ open' = (l.call \in Events)
  /\ UNCHANGED <<direct, member, guildUsers, userGuilds, live, list, loading, bus, heard, losses>>

-----------------------------------------------------------------------------
(* consumeListenerEvent *)

RelationshipAdd(e, u) ==
  /\ OwnListens(e) = {}
  /\ SubscribeDirect(e, {u})
  /\ UNCHANGED <<list, loading, bus, heard, losses, open>>

HandsOverNever(u) == FALSE

(* A list that wants the user takes the friend's consumer over. *)
HandsOver(u) == userGuilds[u] # {} /\ member[u] = "none"

RelationshipRemove(u) ==
  /\ direct[u] # "none"
  /\ direct' = [direct EXCEPT ![u] = "none"]
  /\ IF HandsOver(u)
       THEN member' = [member EXCEPT ![u] = direct[u]] /\ UNCHANGED live
       ELSE live' = [live EXCEPT ![u] = @ - Count(direct[u])] /\ UNCHANGED member
  /\ UNCHANGED <<guildUsers, userGuilds, listening, refused, list, loading, bus, heard, losses,
                 open>>

GuildMemberAdd(e, g, u) ==
  /\ OwnListens(e) = {}
  /\ SubscribeMembers(e, g, {u})
  /\ UNCHANGED <<list, loading, bus, heard, losses, open>>

GuildMemberRemove(g, u) ==
  /\ UnsubscribeMembers(g, {u})
  /\ UNCHANGED <<list, loading, bus, heard, losses, open>>

GuildDelete(g) ==
  /\ UnsubscribeMembers(g, guildUsers[g])
  /\ UNCHANGED <<list, loading, bus, heard, losses, open>>

-----------------------------------------------------------------------------
(* onLazyRequest.  What it shows is read from the database before it       *)
(* subscribes, so its users are any; each await lets other handlers in.    *)

ListMembers(l, g, U) ==
  /\ list[l].pc = "new"
  /\ SubscribeMembers(l, g, U)
  /\ list' = [list EXCEPT ![l] = [pc |-> "members", guild |-> g, users |-> U]]
  /\ UNCHANGED <<loading, bus, heard, losses, open>>

(* Without channels the request ends there. *)
ListMembersOnly(l) ==
  /\ list[l].pc = "members" /\ OwnListens(l) = {}
  /\ list' = [list EXCEPT ![l].pc = "done"]
  /\ UNCHANGED <<routes, loading, bus, heard, losses, open>>

ListRange(l, g, U) ==
  /\ OwnListens(l) = {}
  /\ \/ list[l].pc = "new"
     \/ list[l].pc = "members" /\ list[l].guild = g
  /\ SubscribeMembers(l, g, U \cup list[l].users)
  /\ list' = [list EXCEPT ![l] = [pc |-> "range", guild |-> g, users |-> U \cup list[l].users]]
  /\ UNCHANGED <<loading, bus, heard, losses, open>>

(* unsubscribeStaleGuildMemberEvents *)
ListReconcile(l) ==
  /\ list[l].pc = "range" /\ OwnListens(l) = {}
  /\ UnsubscribeMembers(list[l].guild, guildUsers[list[l].guild] \ list[l].users)
  /\ list' = [list EXCEPT ![l].pc = "done"]
  /\ UNCHANGED <<loading, bus, heard, losses, open>>

-----------------------------------------------------------------------------
(* The connection.  Losing it kills every consumer and rejects every       *)
(* listen; a rejected lazy request or setup closes the socket, and a setup *)
(* that has loaded may be opening its channel.                             *)

BusDead(slots) == [u \in Users |-> IF slots[u] = "none" THEN "none" ELSE "dead"]

ConsumersLost ==
  /\ direct' = BusDead(direct)
  /\ member' = BusDead(member)
  /\ live' = [u \in Users |-> 0]
  /\ listening' = {}
  /\ \/ open' = FALSE /\ (loading # {} \/ \E l \in listening : l.call \notin Events)
     \/ open' = TRUE /\ \A l \in listening : l.call \in Events
  /\ UNCHANGED <<guildUsers, userGuilds, refused, list, loading>>

(* handleChannelError logs: the consumers of a channel end with it and the *)
(* socket is not told.  Those asked for before the socket had a channel of *)
(* its own are on the process's, so D and M are any of them.               *)
Closed(slots, U) == [u \in Users |-> IF u \in U /\ slots[u] = "live" THEN "closed" ELSE slots[u]]

ChannelClosed(D, M) ==
  /\ bus = "up"
  /\ direct' = Closed(direct, D)
  /\ member' = Closed(member, M)
  /\ live' = [u \in Users |-> live[u] - (Count(direct[u]) - Count(direct'[u]))
                                      - (Count(member[u]) - Count(member'[u]))]
  /\ UNCHANGED <<guildUsers, userGuilds, listening, refused, list, loading, bus, heard, losses,
                 open>>

Disconnect ==
  /\ Bus!Lose
  /\ losses < MaxLosses
  /\ losses' = losses + 1
  /\ ConsumersLost

Abandon ==
  /\ Bus!Abandon
  /\ ConsumersLost
  /\ UNCHANGED losses

Connect ==
  /\ Bus!Connect
  /\ UNCHANGED <<routes, list, loading, losses, open>>

(* handleReconnect forgets every route and begins a setup, also when the   *)
(* connection it is told of has gone again.                                *)
Reconnect(s) ==
  /\ Bus!Announce \/ Bus!AnnounceLate
  /\ s \notin loading /\ OwnListens(s) = {}
  /\ direct' = [u \in Users |-> "none"]
  /\ member' = [u \in Users |-> "none"]
  /\ guildUsers' = [g \in Guilds |-> {}]
  /\ userGuilds' = [u \in Users |-> {}]
  /\ refused' = {}
  /\ loading' = loading \cup {s}
  /\ UNCHANGED <<listening, live, list, losses, open>>

(* The friends the database returned. *)
SetupFriends(s, F) ==
  /\ s \in loading
  /\ SubscribeDirect(s, F)
  /\ loading' = loading \ {s}
  /\ UNCHANGED <<list, bus, heard, losses, open>>

(* The database, or the broker asked for a channel, refuses: the socket is *)
(* closed.                                                                 *)
SetupFails(s) ==
  /\ s \in loading
  /\ open' = FALSE
  /\ UNCHANGED <<routes, list, loading, bus, heard, losses>>

-----------------------------------------------------------------------------
(* Events arrive over the bus; lazy requests come from the client. *)
EventStep ==
  /\ bus = "up"
  /\ \/ \E u \in Users : RelationshipRemove(u) \/ \E e \in Events : RelationshipAdd(e, u)
     \/ \E g \in Guilds, u \in Users :
          GuildMemberRemove(g, u) \/ \E e \in Events : GuildMemberAdd(e, g, u)
     \/ \E g \in Guilds : GuildDelete(g)

ListStep(l) ==
  \/ \E g \in Guilds, U \in SUBSET Users : ListMembers(l, g, U) \/ ListRange(l, g, U)
  \/ ListMembersOnly(l)
  \/ ListReconcile(l)

BusStep ==
  \/ Disconnect \/ Abandon \/ Connect
  \/ \E D, M \in SUBSET Users : ChannelClosed(D, M)
  \/ \E s \in Setups :
       Reconnect(s) \/ SetupFails(s) \/ \E F \in SUBSET Users : SetupFriends(s, F)

Next ==
  /\ open
  /\ \/ \E l \in listening : MemberListened(l) \/ DirectListened(l) \/ ListenRejected(l)
     \/ EventStep
     \/ \E l \in Lists : ListStep(l)
     \/ BusStep

Spec == Init /\ [][Next]_vars

-----------------------------------------------------------------------------
(* Properties *)

(* Every consumer at the broker is held by exactly one slot of the socket, *)
(* so closing the socket can cancel it and nothing is delivered for a      *)
(* subscription nobody remembers: no interleaving of subscribe and         *)
(* unsubscribe handlers overwrites or forgets an unsubscribe function.     *)
NoLeak == \A u \in Users : live[u] = Count(direct[u]) + Count(member[u])

(* socket.guild_member_event_ids and socket.member_event_guild_ids are     *)
(* each other's inverse: dispatch checks read one, unsubscribing the other.*)
IndexesAgree ==
  \A g \in Guilds, u \in Users : u \in guildUsers[g] <=> g \in userGuilds[u]

(* A list consumer goes with the last guild that wants its user, also when *)
(* that guild was left while the consumer was being asked for.             *)
MemberTracked == \A u \in Users : member[u] # "none" => userGuilds[u] # {}

(* A user some list wants is never left without presence updates by the    *)
(* way handlers interleave: with no listen in flight for the user there is *)
(* a consumer, whichever handler opened it and however it changed hands.   *)
(* Two refusals of the broker, both of which the code leaves at that, are  *)
(* all that can make it deaf: the channel of the consumer it had closed,   *)
(* or every guild that wants it had its listen rejected.                   *)
Covered ==
  bus = "up" /\ open =>
    \A u \in Users : userGuilds[u] # {} /\ (\A l \in listening : l.user # u) =>
      \/ {direct[u], member[u]} \cap {"live", "closed"} # {}
      \/ \A g \in userGuilds[u] : <<g, u>> \in refused

(* A presence that a list wants and that is being delivered goes on being  *)
(* delivered: while the connection lives, no step - a friendship that      *)
(* ends, another list that is left, a listen that comes back late or not   *)
(* at all - leaves a moment without a consumer in which an update would be *)
(* missed.  The user that loses a consumer with its channel is excepted.   *)
NeverInterrupted ==
  [][\A u \in Users :
       /\ live[u] >= 1 /\ userGuilds[u] # {}
       /\ bus = "up" /\ bus' = "up" /\ userGuilds'[u] # {}
       /\ direct'[u] # "closed" /\ member'[u] # "closed"
       => live'[u] >= 1]_vars

(* A friend's presence is not delivered twice: a list opens no second      *)
(* consumer beside a direct one.                                           *)
NoDuplicateListener ==
  \A u \in Users : ~(direct[u] # "none" /\ member[u] # "none")

(* What a lazy request drops as stale is not what a later request of the   *)
(* same guild shows.                                                       *)
LaterListKept ==
  [][\A l, k \in Lists :
       l < k /\ list[l].pc = "range" /\ list'[l].pc = "done"
         /\ list[k].pc \in {"range", "done"} /\ list[k].guild = list[l].guild
       => guildUsers[list[k].guild] \cap list[k].users \subseteq guildUsers'[list[k].guild]]_vars

=============================================================================
