-------------------------- MODULE MemberRoutes_proofs --------------------------
(* Theorems about MemberRoutes, for any users, guilds, handlers and lists. *)
EXTENDS MemberRoutes, TLAPS

(* The parts of TypeOK: the socket's routes, and everything else. *)
RoutesTyped ==
  /\ direct \in [Users -> Handle]
  /\ member \in [Users -> Handle]
  /\ guildUsers \in [Guilds -> SUBSET Users]
  /\ userGuilds \in [Users -> SUBSET Guilds]
  /\ listening \subseteq Listen
  /\ live \in [Users -> Nat]
  /\ refused \subseteq Guilds \X Users

RestTyped ==
  /\ list \in [Lists -> List]
  /\ \A l \in Lists : list[l].pc # "new" => list[l].guild \in Guilds
  /\ loading \subseteq Setups
  /\ bus \in {"up", "down", "connecting"}
  /\ heard \in {"reconnected", "disconnected"}
  /\ losses \in Nat
  /\ open \in BOOLEAN

(* No consumer outlives its connection, and while the connection stands    *)
(* the socket holds no handle of a dead consumer.                          *)
LiveWhileUp == bus # "up" => \A u \in Users : direct[u] # "live" /\ member[u] # "live"

Served(u) == {direct[u], member[u]} \cap {"live", "closed"} # {}

NoneDead == open /\ bus = "up" => \A u \in Users : direct[u] # "dead" /\ member[u] # "dead"

(* Covered while listens are in flight: a wanted user without a consumer   *)
(* has a listen for every guild that wants it, unless that was rejected,   *)
(* so that whichever guilds are left meanwhile, the listen of one that     *)
(* stays keeps its consumer.                                               *)
Asked(g, u) == \E l \in listening : l.user = u /\ l.guild = g

Wanted ==
  open /\ bus = "up" =>
    \A u \in Users : Served(u) \/ \A g \in userGuilds[u] : Asked(g, u) \/ <<g, u>> \in refused

RouteInv ==
  /\ RoutesTyped /\ NoLeak /\ IndexesAgree /\ MemberTracked
  /\ LiveWhileUp /\ NoneDead /\ Wanted

MemberInv == RouteInv /\ RestTyped

-----------------------------------------------------------------------------
LEMMA InitMember == ASSUME ConstantsAssumption, Init PROVE MemberInv
<1>1. RoutesTyped
  BY DEF Init, RoutesTyped, Handle, Listen, Calls
<1>2. RestTyped
  BY DEF Init, RestTyped, NewList, List, ListPc
<1>3. NoLeak /\ IndexesAgree /\ MemberTracked /\ LiveWhileUp /\ NoneDead /\ Wanted
  BY DEF Init, NoLeak, Count, IndexesAgree, MemberTracked, LiveWhileUp, NoneDead, Wanted, Served
<1>. QED  BY <1>1, <1>2, <1>3 DEF MemberInv, RouteInv

LEMMA Unserved ==
  ASSUME RouteInv, open, bus = "up", NEW u \in Users, NEW g \in userGuilds[u], ~Served(u)
  PROVE  /\ direct[u] = "none" /\ member[u] = "none"
         /\ Asked(g, u) \/ <<g, u>> \in refused
BY DEF RouteInv, RoutesTyped, Handle, NoneDead, Wanted, Served

(* Asking for friends, taking over what the lists have of them. *)
LEMMA SubscribingDirect ==
  ASSUME ConstantsAssumption, RouteInv, NEW c \in Calls, NEW F, F \subseteq Users,
         SubscribeDirect(c, F), UNCHANGED <<bus, open>>
  PROVE  RouteInv'
<1>1. /\ direct' \in [Users -> Handle] /\ member' \in [Users -> Handle]
      /\ listening' \subseteq Listen /\ listening \subseteq listening'
  <2>1. direct' \in [Users -> Handle]
    BY DEF SubscribeDirect, Store, RouteInv, RoutesTyped, Handle
  <2>2. member' \in [Users -> Handle]
    BY DEF SubscribeDirect, RouteInv, RoutesTyped, Handle
  <2>3. listening' \subseteq Listen /\ listening \subseteq listening'
    BY DEF SubscribeDirect, BeginListens, RouteInv, RoutesTyped, Listen
  <2>. QED  BY <2>1, <2>2, <2>3
<1>2. \A u \in Users :
        \/ direct'[u] = direct[u] /\ member'[u] = member[u]
        \/ direct[u] = "none" /\ direct'[u] = member[u] /\ member'[u] = "none"
        \/ bus = "down" /\ direct[u] = "none" /\ direct'[u] = "dead" /\ member'[u] = member[u]
  BY DEF SubscribeDirect, Store, RouteInv, RoutesTyped
<1>3. UNCHANGED <<guildUsers, userGuilds, live, refused>>
  BY DEF SubscribeDirect
<1>4. RoutesTyped'
  BY <1>1, <1>3 DEF RouteInv, RoutesTyped
<1>5. NoLeak'
  BY <1>2, <1>3 DEF RouteInv, NoLeak, Count
<1>6. IndexesAgree' /\ MemberTracked'
  BY <1>2, <1>3 DEF RouteInv, IndexesAgree, MemberTracked
<1>7. LiveWhileUp' /\ NoneDead'
  BY <1>2 DEF RouteInv, LiveWhileUp, NoneDead
<1>8. Wanted'
  <2>. SUFFICES ASSUME open, bus = "up", NEW u \in Users, NEW h \in userGuilds[u], ~Served(u)'
                PROVE  Asked(h, u)' \/ <<h, u>> \in refused
    BY <1>3 DEF Wanted
  <2>1. ~Served(u)
    BY <1>2 DEF Served
  <2>. QED  BY <1>1, <2>1, Unserved DEF Asked
<1>. QED  BY <1>4, <1>5, <1>6, <1>7, <1>8 DEF RouteInv

(* Tracking users for a guild and listening for those without a consumer.  *)
LEMMA SubscribingMembers ==
  ASSUME ConstantsAssumption, RouteInv, NEW c \in Calls, NEW g \in Guilds,
         NEW U, U \subseteq Users, SubscribeMembers(c, g, U), UNCHANGED <<bus, open>>
  PROVE  RouteInv'
<1>1. /\ member' \in [Users -> Handle]
      /\ guildUsers' \in [Guilds -> SUBSET Users]
      /\ userGuilds' \in [Users -> SUBSET Guilds]
      /\ listening' \subseteq Listen /\ listening \subseteq listening'
  <2>1. member' \in [Users -> Handle]
    BY DEF SubscribeMembers, Store, RouteInv, RoutesTyped, Handle
  <2>2. guildUsers' \in [Guilds -> SUBSET Users] /\ userGuilds' \in [Users -> SUBSET Guilds]
    BY DEF SubscribeMembers, RouteInv, RoutesTyped
  <2>3. listening' \subseteq Listen /\ listening \subseteq listening'
    BY DEF SubscribeMembers, BeginListens, RouteInv, RoutesTyped, Listen
  <2>. QED  BY <2>1, <2>2, <2>3
<1>2. /\ UNCHANGED <<direct, live, refused>>
      /\ \A u \in Users :
           \/ member'[u] = member[u]
           \/ /\ bus = "down" /\ member[u] = "none" /\ member'[u] = "dead"
              /\ g \in userGuilds'[u]
  BY DEF SubscribeMembers, Store, RouteInv, RoutesTyped
<1>3. /\ \A h \in Guilds : guildUsers'[h] = IF h = g THEN guildUsers[g] \cup U ELSE guildUsers[h]
      /\ \A u \in Users : userGuilds'[u] = IF u \in U \ guildUsers[g] THEN userGuilds[u] \cup {g}
                                           ELSE userGuilds[u]
  BY DEF SubscribeMembers, RouteInv, RoutesTyped
<1>4. bus # "down" =>
        \A u \in U \ guildUsers[g] :
          direct[u] # "none" \/ member[u] # "none" \/ [call |-> c, guild |-> g, user |-> u] \in listening'
  BY DEF SubscribeMembers, BeginListens
<1>5. RoutesTyped'
  BY <1>1, <1>2 DEF RouteInv, RoutesTyped
<1>6. NoLeak'
  BY <1>2 DEF RouteInv, NoLeak, Count
<1>7. IndexesAgree'
  <2>. SUFFICES ASSUME NEW h \in Guilds, NEW u \in Users
                PROVE  u \in guildUsers'[h] <=> h \in userGuilds'[u]
    BY DEF IndexesAgree
  <2>1. /\ u \in guildUsers[h] <=> h \in userGuilds[u]
        /\ u \in guildUsers[g] <=> g \in userGuilds[u]
    BY DEF RouteInv, IndexesAgree
  <2>2. CASE u \in U
    BY <1>3, <2>1, <2>2
  <2>3. CASE u \notin U
    BY <1>3, <2>1, <2>3
  <2>. QED  BY <2>2, <2>3
<1>8. MemberTracked'
  BY <1>2, <1>3 DEF RouteInv, MemberTracked
<1>9. LiveWhileUp' /\ NoneDead'
  BY <1>2 DEF RouteInv, LiveWhileUp, NoneDead
<1>10. Wanted'
  <2>. SUFFICES ASSUME open, bus = "up", NEW u \in Users, ~Served(u), NEW h \in userGuilds'[u]
                PROVE  Asked(h, u)' \/ <<h, u>> \in refused
    BY <1>2 DEF Wanted, Served
  <2>1. direct[u] = "none" /\ member[u] = "none"
    BY DEF RouteInv, NoneDead, RoutesTyped, Handle, Served
  <2>2. CASE h \in userGuilds[u]
    BY <1>1, <2>2, Unserved DEF Asked
  <2>3. CASE h \notin userGuilds[u]
    <3>1. h = g /\ u \in U \ guildUsers[g]
      BY <1>3, <2>3
    <3>2. [call |-> c, guild |-> g, user |-> u] \in listening'
      BY <1>4, <2>1, <3>1
    <3>. QED  BY <3>1, <3>2 DEF Asked
  <2>. QED  BY <2>2, <2>3
<1>. QED  BY <1>5, <1>6, <1>7, <1>8, <1>9, <1>10 DEF RouteInv

(* Untracking users, and cancelling for those no guild wants any more. *)
LEMMA UnsubscribingMembers ==
  ASSUME ConstantsAssumption, RouteInv, NEW g \in Guilds,
         NEW U, U \subseteq Users, UnsubscribeMembers(g, U), UNCHANGED <<bus, open>>
  PROVE  RouteInv'
<1>1. /\ UNCHANGED <<direct, listening>>
      /\ \A h \in Guilds : guildUsers'[h] = IF h = g THEN guildUsers[g] \ U ELSE guildUsers[h]
      /\ \A u \in Users : userGuilds'[u] = IF u \in U THEN userGuilds[u] \ {g} ELSE userGuilds[u]
      /\ \A u \in Users : IF u \in U /\ userGuilds'[u] = {}
                          THEN member'[u] = "none" /\ live'[u] = live[u] - Count(member[u])
                          ELSE member'[u] = member[u] /\ live'[u] = live[u]
      /\ refused' = refused \ ({g} \X U)
  BY DEF UnsubscribeMembers, GuildsLeft, RouteInv, RoutesTyped
<1>2. \A u \in Users : /\ Count(direct[u]) \in Nat /\ Count(member[u]) \in Nat
                       /\ live[u] - Count(member[u]) = Count(direct[u])
  BY DEF RouteInv, NoLeak, Count
<1>3. RoutesTyped'
  <2>1. member' \in [Users -> Handle]
    BY DEF UnsubscribeMembers, RouteInv, RoutesTyped, Handle
  <2>2. guildUsers' \in [Guilds -> SUBSET Users] /\ userGuilds' \in [Users -> SUBSET Guilds]
    BY DEF UnsubscribeMembers, GuildsLeft, RouteInv, RoutesTyped
  <2>3. live' \in [Users -> Nat]
    BY <1>2 DEF UnsubscribeMembers, RouteInv, RoutesTyped
  <2>. QED  BY <1>1, <2>1, <2>2, <2>3 DEF RouteInv, RoutesTyped
<1>4. NoLeak'
  BY <1>1, <1>2 DEF RouteInv, NoLeak, Count
<1>5. IndexesAgree'
  <2>. SUFFICES ASSUME NEW h \in Guilds, NEW u \in Users
                PROVE  u \in guildUsers'[h] <=> h \in userGuilds'[u]
    BY DEF IndexesAgree
  <2>1. u \in guildUsers[h] <=> h \in userGuilds[u]
    BY DEF RouteInv, IndexesAgree
  <2>2. CASE u \in U
    BY <1>1, <2>1, <2>2
  <2>3. CASE u \notin U
    BY <1>1, <2>1, <2>3
  <2>. QED  BY <2>2, <2>3
<1>6. MemberTracked'
  BY <1>1 DEF RouteInv, MemberTracked
<1>7. LiveWhileUp' /\ NoneDead'
  BY <1>1 DEF RouteInv, LiveWhileUp, NoneDead
<1>8. Wanted'
  <2>. SUFFICES ASSUME open, bus = "up", NEW u \in Users, NEW h \in userGuilds'[u], ~Served(u)'
                PROVE  Asked(h, u)' \/ <<h, u>> \in refused'
    BY DEF Wanted
  <2>1. member'[u] = member[u] /\ h \in userGuilds[u] /\ ~(h = g /\ u \in U)
    BY <1>1
  <2>2. Asked(h, u) \/ <<h, u>> \in refused
    BY <1>1, <2>1, Unserved DEF Served
  <2>. QED  BY <1>1, <2>1, <2>2 DEF Asked
<1>. QED  BY <1>3, <1>4, <1>5, <1>6, <1>7, <1>8 DEF RouteInv

-----------------------------------------------------------------------------
(* An answered listen takes the free slot, or is given up. *)
LEMMA Answering ==
  ASSUME ConstantsAssumption, RouteInv, open, NEW l \in listening,
         MemberListened(l) \/ DirectListened(l)
  PROVE  RouteInv'
<1>1. /\ l \in Listen /\ l.user \in Users /\ listening' = listening \ {l} /\ bus = "up"
      /\ UNCHANGED <<guildUsers, userGuilds, bus, open>>
  BY DEF RouteInv, RoutesTyped, Listen, MemberListened, DirectListened, Answered
<1>2. ASSUME MemberListened(l), KeepMember(l) PROVE RouteInv'
  <2>1. /\ l.guild \in Guilds /\ l.user \in guildUsers[l.guild] /\ member[l.user] = "none"
        /\ direct' = direct
        /\ member' = [member EXCEPT ![l.user] = "live"]
        /\ live' = [live EXCEPT ![l.user] = @ + 1]
        /\ refused' = refused \ (Guilds \X {l.user})
    BY <1>2 DEF MemberListened, KeepMember, Heard
  <2>2. RoutesTyped'
    BY <1>1, <2>1 DEF RouteInv, RoutesTyped, Handle
  <2>3. \A u \in Users : /\ member'[u] = IF u = l.user THEN "live" ELSE member[u]
                         /\ live'[u] = IF u = l.user THEN live[u] + 1 ELSE live[u]
    BY <2>1 DEF RouteInv, RoutesTyped
  <2>4. NoLeak'
    BY <2>1, <2>3 DEF RouteInv, NoLeak, Count
  <2>5. IndexesAgree' /\ MemberTracked'
    <3>1. l.guild \in userGuilds[l.user]
      BY <1>1, <2>1 DEF RouteInv, IndexesAgree
    <3>. QED  BY <1>1, <2>3, <3>1 DEF RouteInv, IndexesAgree, MemberTracked
  <2>6. LiveWhileUp' /\ NoneDead'
    BY <1>1, <2>1, <2>3 DEF RouteInv, LiveWhileUp, NoneDead
  <2>7. Wanted'
    <3>. SUFFICES ASSUME NEW u \in Users, NEW g \in userGuilds[u], ~Served(u)'
                  PROVE  Asked(g, u)' \/ <<g, u>> \in refused'
      BY <1>1 DEF Wanted
    <3>1. u # l.user /\ ~Served(u)
      BY <2>1, <2>3 DEF Served
    <3>2. Asked(g, u) \/ <<g, u>> \in refused
      BY <1>1, <3>1, Unserved
    <3>. QED  BY <1>1, <2>1, <3>1, <3>2 DEF Asked
  <2>. QED  BY <2>2, <2>4, <2>5, <2>6, <2>7 DEF RouteInv
<1>3. ASSUME MemberListened(l), ~KeepMember(l) PROVE RouteInv'
  <2>1. UNCHANGED <<direct, member, live, refused>>
    BY <1>3 DEF MemberListened
  <2>2. RoutesTyped' /\ NoLeak' /\ IndexesAgree' /\ MemberTracked' /\ LiveWhileUp' /\ NoneDead'
    BY <1>1, <2>1
    DEF RouteInv, RoutesTyped, NoLeak, IndexesAgree, MemberTracked, LiveWhileUp, NoneDead
  <2>3. Wanted'
    <3>. SUFFICES ASSUME NEW u \in Users, NEW g \in userGuilds[u], ~Served(u)
                  PROVE  Asked(g, u)' \/ <<g, u>> \in refused
      BY <1>1, <2>1 DEF Wanted, Served
    <3>1. member[u] = "none" /\ (Asked(g, u) \/ <<g, u>> \in refused)
      BY <1>1, Unserved
    <3>2. g \in Guilds /\ u \in guildUsers[g]
      BY <1>1 DEF RouteInv, RoutesTyped, IndexesAgree
    <3>3. ~(l.user = u /\ l.guild = g)
      BY <1>3, <3>1, <3>2 DEF KeepMember
    <3>. QED  BY <1>1, <3>1, <3>3 DEF Asked
  <2>. QED  BY <2>2, <2>3 DEF RouteInv
<1>4. ASSUME DirectListened(l) PROVE RouteInv'
  <2>1. /\ member' = member /\ l.guild = Direct
        /\ \/ /\ direct[l.user] = "none"
              /\ direct' = [direct EXCEPT ![l.user] = "live"]
              /\ live' = [live EXCEPT ![l.user] = @ + 1]
              /\ refused' = refused \ (Guilds \X {l.user})
           \/ UNCHANGED <<direct, live, refused>>
    BY <1>4 DEF DirectListened, Heard
  <2>2. RoutesTyped'
    BY <1>1, <2>1 DEF RouteInv, RoutesTyped, Handle
  <2>3. \A u \in Users : \/ direct'[u] = direct[u] /\ live'[u] = live[u]
                         \/ direct[u] = "none" /\ direct'[u] = "live" /\ live'[u] = live[u] + 1
    BY <2>1 DEF RouteInv, RoutesTyped
  <2>4. NoLeak'
    BY <2>1, <2>3 DEF RouteInv, NoLeak, Count, RoutesTyped
  <2>5. IndexesAgree' /\ MemberTracked' /\ LiveWhileUp' /\ NoneDead'
    BY <1>1, <2>1, <2>3
    DEF RouteInv, IndexesAgree, MemberTracked, LiveWhileUp, NoneDead
  <2>6. Wanted'
    <3>. SUFFICES ASSUME NEW u \in Users, NEW g \in userGuilds[u], ~Served(u)'
                  PROVE  Asked(g, u)' \/ <<g, u>> \in refused'
      BY <1>1 DEF Wanted
    <3>1. ~Served(u) /\ g \in Guilds
      BY <2>1, <2>3 DEF RouteInv, RoutesTyped, Served
    <3>2. Asked(g, u) \/ <<g, u>> \in refused
      BY <1>1, <3>1, Unserved
    <3>3. l.guild # g
      BY <2>1, <3>1 DEF ConstantsAssumption
    <3>4. <<g, u>> \in refused => <<g, u>> \in refused'
      <4>1. CASE u = l.user
        <5>1. direct'[u] # "live"
          BY DEF Served
        <5>2. direct' # [direct EXCEPT ![l.user] = "live"]
          BY <4>1, <5>1 DEF RouteInv, RoutesTyped
        <5>. QED  BY <2>1, <5>2
      <4>2. CASE u # l.user
        BY <2>1, <4>2
      <4>. QED  BY <4>1, <4>2
    <3>. QED  BY <1>1, <3>2, <3>3, <3>4 DEF Asked
  <2>. QED  BY <2>2, <2>4, <2>5, <2>6 DEF RouteInv
<1>. QED  BY <1>2, <1>3, <1>4

(* A rejected listen leaves its user tracked, and on the record of that.   *)
LEMMA Rejecting ==
  ASSUME ConstantsAssumption, MemberInv, open, NEW l \in listening, ListenRejected(l)
  PROVE  MemberInv'
<1>1. /\ l \in Listen /\ bus = "up" /\ listening' = listening \ {l}
      /\ refused' = refused \cup TrackedPair(l) /\ TrackedPair(l) \subseteq Guilds \X Users
      /\ UNCHANGED <<direct, member, guildUsers, userGuilds, live, list, loading, bus, heard, losses>>
      /\ open' \in BOOLEAN
  BY DEF MemberInv, RouteInv, RoutesTyped, ListenRejected, Answered, TrackedPair
<1>2. RoutesTyped' /\ RestTyped'
  BY <1>1 DEF MemberInv, RouteInv, RoutesTyped, RestTyped
<1>3. NoLeak' /\ IndexesAgree' /\ MemberTracked' /\ LiveWhileUp' /\ NoneDead'
  BY <1>1 DEF MemberInv, RouteInv, NoLeak, IndexesAgree, MemberTracked, LiveWhileUp, NoneDead
<1>4. Wanted'
  <2>. SUFFICES ASSUME NEW u \in Users, NEW g \in userGuilds[u], ~Served(u)
                PROVE  Asked(g, u)' \/ <<g, u>> \in refused'
    BY <1>1 DEF Wanted, Served
  <2>1. Asked(g, u) \/ <<g, u>> \in refused
    BY <1>1, Unserved DEF MemberInv
  <2>2. g \in Guilds /\ u \in guildUsers[g]
    BY DEF MemberInv, RouteInv, RoutesTyped, IndexesAgree
  <2>3. l.user = u /\ l.guild = g => <<g, u>> \in TrackedPair(l)
    BY <2>2 DEF TrackedPair
  <2>. QED  BY <1>1, <2>1, <2>3 DEF Asked
<1>. QED  BY <1>2, <1>3, <1>4 DEF MemberInv, RouteInv

(* The consumers of a channel that closes leave closed handles behind.     *)
LEMMA ClosingChannel ==
  ASSUME ConstantsAssumption, MemberInv, NEW D, NEW M, ChannelClosed(D, M)
  PROVE  MemberInv'
<1>1. /\ bus = "up"
      /\ UNCHANGED <<guildUsers, userGuilds, listening, refused, list, loading, bus, heard, losses, open>>
      /\ direct' \in [Users -> Handle] /\ member' \in [Users -> Handle]
      /\ \A u \in Users :
           /\ direct'[u] = direct[u] \/ (direct[u] = "live" /\ direct'[u] = "closed")
           /\ member'[u] = member[u] \/ (member[u] = "live" /\ member'[u] = "closed")
  BY DEF ChannelClosed, Closed, MemberInv, RouteInv, RoutesTyped, Handle
<1>2. \A u \in Users : live'[u] = Count(direct'[u]) + Count(member'[u])
  <2>. SUFFICES ASSUME NEW u \in Users PROVE live'[u] = Count(direct'[u]) + Count(member'[u])
    OBVIOUS
  <2>1. /\ live'[u] = live[u] - (Count(direct[u]) - Count(direct'[u]))
                             - (Count(member[u]) - Count(member'[u]))
        /\ live[u] = Count(direct[u]) + Count(member[u])
    BY DEF ChannelClosed, MemberInv, RouteInv, NoLeak
  <2>2. /\ Count(direct[u]) \in Nat /\ Count(member[u]) \in Nat
        /\ Count(direct'[u]) \in Nat /\ Count(member'[u]) \in Nat
    BY DEF Count
  <2>. QED  BY <2>1, <2>2
<1>3. live' \in [Users -> Nat]
  <2>1. \A u \in Users : live'[u] \in Nat
    BY <1>2 DEF Count
  <2>. QED  BY <2>1 DEF ChannelClosed
<1>4. RoutesTyped' /\ RestTyped'
  BY <1>1, <1>3 DEF MemberInv, RouteInv, RoutesTyped, RestTyped
<1>5. NoLeak'
  BY <1>2 DEF NoLeak, Count
<1>6. IndexesAgree' /\ MemberTracked' /\ LiveWhileUp' /\ NoneDead'
  BY <1>1 DEF MemberInv, RouteInv, IndexesAgree, MemberTracked, LiveWhileUp, NoneDead
<1>7. Wanted'
  <2>1. \A u \in Users : Served(u) => Served(u)'
    BY <1>1 DEF Served
  <2>. QED  BY <1>1, <2>1 DEF MemberInv, RouteInv, Wanted, Asked
<1>. QED  BY <1>4, <1>5, <1>6, <1>7 DEF MemberInv, RouteInv

(* A friend that is removed leaves its consumer to the lists or cancels it. *)
LEMMA Removing ==
  ASSUME ConstantsAssumption, RouteInv, NEW u \in Users, RelationshipRemove(u)
  PROVE  RouteInv'
<1>1. /\ UNCHANGED <<guildUsers, userGuilds, listening, refused, bus, open>>
      /\ direct[u] # "none"
      /\ \A w \in Users : direct'[w] = IF w = u THEN "none" ELSE direct[w]
  BY DEF RelationshipRemove, RouteInv, RoutesTyped
<1>2. \A w \in Users : Count(direct[w]) \in Nat /\ Count(member[w]) \in Nat
                       /\ live[w] = Count(direct[w]) + Count(member[w])
  BY DEF RouteInv, NoLeak, Count
<1>3. CASE HandsOver(u)
  <2>1. live' = live /\ member' = [member EXCEPT ![u] = direct[u]]
    BY <1>3 DEF RelationshipRemove
  <2>2. RoutesTyped'
    BY <1>1, <2>1 DEF RelationshipRemove, RouteInv, RoutesTyped, Handle
  <2>3. /\ userGuilds[u] # {} /\ member[u] = "none"
        /\ \A w \in Users : member'[w] = IF w = u THEN direct[u] ELSE member[w]
    BY <1>3, <2>1 DEF HandsOver, RouteInv, RoutesTyped
  <2>4. NoLeak'
    BY <1>1, <1>2, <2>1, <2>3 DEF NoLeak, Count
  <2>5. IndexesAgree' /\ MemberTracked' /\ LiveWhileUp' /\ NoneDead' /\ Wanted'
    BY <1>1, <2>3
    DEF RouteInv, IndexesAgree, MemberTracked, LiveWhileUp, NoneDead, Wanted, Served, Asked
  <2>. QED  BY <2>2, <2>4, <2>5 DEF RouteInv
<1>4. CASE ~HandsOver(u)
  <2>1. /\ member' = member
        /\ live' = [live EXCEPT ![u] = @ - Count(direct[u])]
    BY <1>4 DEF RelationshipRemove
  <2>2. /\ live[u] - Count(direct[u]) = Count(member[u])
        /\ \A w \in Users : live'[w] = IF w = u THEN Count(member[u]) ELSE live[w]
    BY <1>2, <2>1 DEF RouteInv, RoutesTyped
  <2>3. RoutesTyped'
    BY <1>1, <1>2, <2>1, <2>2 DEF RelationshipRemove, RouteInv, RoutesTyped, Handle
  <2>4. NoLeak'
    BY <1>1, <1>2, <2>1, <2>2 DEF NoLeak, Count
  <2>5. IndexesAgree' /\ MemberTracked' /\ LiveWhileUp' /\ NoneDead'
    BY <1>1, <2>1
    DEF RouteInv, IndexesAgree, MemberTracked, LiveWhileUp, NoneDead
  <2>6. Wanted'
    <3>1. userGuilds[u] = {} \/ member[u] # "none"
      BY <1>4 DEF HandsOver
    <3>2. open /\ bus = "up" => userGuilds[u] = {} \/ member[u] \in {"live", "closed"}
      BY <3>1 DEF RouteInv, NoneDead, RoutesTyped, Handle
    <3>. QED  BY <1>1, <2>1, <3>2 DEF RouteInv, Wanted, Served, Asked
  <2>. QED  BY <2>3, <2>4, <2>5, <2>6 DEF RouteInv
<1>. QED  BY <1>3, <1>4

-----------------------------------------------------------------------------
LEMMA EventKeeps == ASSUME ConstantsAssumption, MemberInv, EventStep PROVE MemberInv'
<1>. USE DEF MemberInv, RestTyped, Calls
<1>1. ASSUME NEW u \in Users, RelationshipRemove(u) PROVE MemberInv'
  BY <1>1, Removing DEF RelationshipRemove
<1>2. ASSUME NEW u \in Users, NEW e \in Events, RelationshipAdd(e, u) PROVE MemberInv'
  <2>1. RouteInv'
    BY <1>2, SubscribingDirect, {u} \subseteq Users DEF RelationshipAdd
  <2>. QED  BY <1>2, <2>1 DEF RelationshipAdd
<1>3. ASSUME NEW g \in Guilds, NEW u \in Users, GuildMemberRemove(g, u) PROVE MemberInv'
  <2>1. RouteInv'
    BY <1>3, UnsubscribingMembers, {u} \subseteq Users DEF GuildMemberRemove
  <2>. QED  BY <1>3, <2>1 DEF GuildMemberRemove
<1>4. ASSUME NEW g \in Guilds, NEW u \in Users, NEW e \in Events, GuildMemberAdd(e, g, u)
      PROVE  MemberInv'
  <2>0. PICK U : U = {u}
    OBVIOUS
  <2>1. RouteInv'
    <3>1. e \in Calls /\ U \subseteq Users /\ SubscribeMembers(e, g, U) /\ UNCHANGED <<bus, open>>
      BY <1>4, <2>0 DEF GuildMemberAdd
    <3>. QED  BY <3>1, SubscribingMembers
  <2>. QED  BY <1>4, <2>1 DEF GuildMemberAdd
<1>5. ASSUME NEW g \in Guilds, GuildDelete(g) PROVE MemberInv'
  <2>1. guildUsers[g] \subseteq Users
    BY DEF RouteInv, RoutesTyped
  <2>2. RouteInv'
    BY <1>5, <2>1, UnsubscribingMembers DEF GuildDelete
  <2>. QED  BY <1>5, <2>2 DEF GuildDelete
<1>. QED  BY <1>1, <1>2, <1>3, <1>4, <1>5 DEF EventStep

LEMMA ListKeeps ==
  ASSUME ConstantsAssumption, MemberInv, NEW l \in Lists, ListStep(l) PROVE MemberInv'
<1>1. l \in Calls /\ list[l] \in List /\ list[l].users \subseteq Users
  BY DEF MemberInv, RestTyped, List, Calls
<1>2. ASSUME NEW g \in Guilds, NEW U \in SUBSET Users, ListMembers(l, g, U) PROVE MemberInv'
  <2>1. RouteInv'
    BY <1>1, <1>2, SubscribingMembers DEF ListMembers, MemberInv
  <2>. QED  BY <1>2, <2>1 DEF ListMembers, MemberInv, RestTyped, List, ListPc
<1>3. ASSUME NEW g \in Guilds, NEW U \in SUBSET Users, ListRange(l, g, U) PROVE MemberInv'
  <2>1. PICK V : V = U \cup list[l].users
    OBVIOUS
  <2>2. V \subseteq Users /\ SubscribeMembers(l, g, V) /\ UNCHANGED <<bus, open>>
    BY <1>1, <1>3, <2>1 DEF ListRange
  <2>3. RouteInv'
    BY <1>1, <2>2, SubscribingMembers DEF MemberInv
  <2>. QED  BY <1>1, <1>3, <2>3 DEF ListRange, MemberInv, RestTyped, List, ListPc
<1>4. ASSUME ListMembersOnly(l) PROVE MemberInv'
  <2>0. UNCHANGED <<direct, member, guildUsers, userGuilds, listening, live, refused, bus, open>>
    BY <1>4 DEF ListMembersOnly, routes
  <2>1. RouteInv'
    BY <2>0
    DEF MemberInv, RouteInv, RoutesTyped, NoLeak, IndexesAgree, MemberTracked, LiveWhileUp,
        NoneDead, Wanted, Served, Asked
  <2>. QED  BY <1>4, <2>1 DEF ListMembersOnly, MemberInv, RestTyped, List, ListPc
<1>5. ASSUME ListReconcile(l) PROVE MemberInv'
  <2>1. PICK g \in Guilds : g = list[l].guild
    BY <1>5 DEF ListReconcile, MemberInv, RestTyped
  <2>2. PICK V : V = guildUsers[g] \ list[l].users
    OBVIOUS
  <2>3. V \subseteq Users /\ UnsubscribeMembers(g, V) /\ UNCHANGED <<bus, open>>
    BY <1>5, <2>1, <2>2 DEF ListReconcile, MemberInv, RouteInv, RoutesTyped
  <2>4. RouteInv'
    BY <2>3, UnsubscribingMembers DEF MemberInv
  <2>. QED  BY <1>5, <2>4 DEF ListReconcile, MemberInv, RestTyped, List, ListPc
<1>. QED  BY <1>2, <1>3, <1>4, <1>5 DEF ListStep

LEMMA BusKeeps == ASSUME ConstantsAssumption, MemberInv, open, BusStep PROVE MemberInv'
<1>1. ASSUME Disconnect \/ Abandon PROVE MemberInv'
  <2>0. ConsumersLost
    BY <1>1 DEF Disconnect, Abandon
  <2>1. /\ direct' \in [Users -> Handle] /\ member' \in [Users -> Handle] /\ live' \in [Users -> Nat]
        /\ \A u \in Users : direct'[u] # "live" /\ member'[u] # "live" /\ live'[u] = 0
        /\ \A u \in Users : member'[u] # "none" => member[u] # "none"
    BY <2>0 DEF ConsumersLost, BusDead, Handle
  <2>2. UNCHANGED <<guildUsers, userGuilds, refused, list, loading>> /\ listening' = {}
    BY <2>0 DEF ConsumersLost
  <2>3. open' \in BOOLEAN
    BY <2>0 DEF ConsumersLost
  <2>4. bus' = "down" /\ heard' \in {heard, "disconnected"} /\ losses' \in {losses, losses + 1}
    BY <1>1 DEF Disconnect, Abandon, Bus!Lose, Bus!Abandon
  <2>5. RoutesTyped' /\ RestTyped'
    BY <2>1, <2>2, <2>3, <2>4 DEF MemberInv, RouteInv, RoutesTyped, RestTyped
  <2>6. NoLeak'
    BY <2>1 DEF NoLeak, Count
  <2>. QED
    BY <2>1, <2>2, <2>4, <2>5, <2>6
    DEF MemberInv, RouteInv, IndexesAgree, MemberTracked, LiveWhileUp, NoneDead, Wanted
<1>2. ASSUME Connect PROVE MemberInv'
  <2>1. bus = "down" /\ bus' = "connecting" /\ heard' = heard
    BY <1>2 DEF Connect, Bus!Connect
  <2>. QED
    BY <1>2, <2>1
    DEF Connect, routes, MemberInv, RestTyped, RouteInv, RoutesTyped, NoLeak, IndexesAgree,
        MemberTracked, LiveWhileUp, NoneDead, Wanted
<1>3. ASSUME NEW s \in Setups, Reconnect(s) PROVE MemberInv'
  <2>0. refused' = {}
    BY <1>3 DEF Reconnect
  <2>1. /\ direct' \in [Users -> Handle] /\ member' \in [Users -> Handle]
        /\ guildUsers' \in [Guilds -> SUBSET Users] /\ userGuilds' \in [Users -> SUBSET Guilds]
        /\ \A u \in Users : direct'[u] = "none" /\ member'[u] = "none" /\ userGuilds'[u] = {}
        /\ \A g \in Guilds : guildUsers'[g] = {}
    BY <1>3 DEF Reconnect, Handle
  <2>2. UNCHANGED <<listening, live, list, losses, open>> /\ loading' \subseteq Setups
    BY <1>3 DEF Reconnect, MemberInv, RestTyped
  <2>3. bus # "up" /\ bus' \in {"up", "down"} /\ heard' = "reconnected"
    BY <1>3 DEF Reconnect, Bus!Announce, Bus!AnnounceLate
  <2>4. RoutesTyped' /\ RestTyped'
    BY <2>0, <2>1, <2>2, <2>3 DEF MemberInv, RouteInv, RoutesTyped, RestTyped
  <2>5. NoLeak'
    BY <2>1, <2>2, <2>3 DEF MemberInv, RouteInv, LiveWhileUp, NoLeak, Count
  <2>6. IndexesAgree' /\ MemberTracked' /\ LiveWhileUp' /\ NoneDead' /\ Wanted'
    BY <2>1, <2>2 DEF IndexesAgree, MemberTracked, LiveWhileUp, NoneDead, Wanted
  <2>. QED  BY <2>4, <2>5, <2>6 DEF MemberInv, RouteInv
<1>4. ASSUME NEW s \in Setups, NEW F \in SUBSET Users, SetupFriends(s, F) PROVE MemberInv'
  <2>1. s \in Calls /\ SubscribeDirect(s, F) /\ UNCHANGED <<bus, open>>
    BY <1>4 DEF SetupFriends, Calls
  <2>2. RouteInv'
    BY <2>1, SubscribingDirect DEF MemberInv
  <2>. QED  BY <1>4, <2>2 DEF SetupFriends, MemberInv, RestTyped
<1>5. ASSUME NEW s \in Setups, SetupFails(s) PROVE MemberInv'
  <2>1. open' = FALSE /\ UNCHANGED <<routes, list, loading, bus, heard, losses>>
    BY <1>5 DEF SetupFails
  <2>. QED
    BY <2>1
    DEF routes, MemberInv, RestTyped, RouteInv, RoutesTyped, NoLeak, IndexesAgree, MemberTracked,
        LiveWhileUp, NoneDead, Wanted
<1>. QED  BY <1>1, <1>2, <1>3, <1>4, <1>5, ClosingChannel DEF BusStep

LEMMA MemberStep == ASSUME ConstantsAssumption, MemberInv, [Next]_vars PROVE MemberInv'
<1>1. ASSUME open, NEW l \in listening, MemberListened(l) \/ DirectListened(l) PROVE MemberInv'
  <2>1. RouteInv'
    BY <1>1, Answering DEF MemberInv
  <2>. QED  BY <1>1, <2>1 DEF MemberListened, DirectListened, MemberInv, RestTyped
<1>2. CASE UNCHANGED vars
  BY <1>2
  DEF vars, MemberInv, RestTyped, RouteInv, RoutesTyped, NoLeak, IndexesAgree, MemberTracked,
      LiveWhileUp, NoneDead, Wanted, Served, Asked
<1>. QED  BY <1>1, <1>2, Rejecting, EventKeeps, ListKeeps, BusKeeps DEF Next

LEMMA MemberAlways == Spec => []MemberInv
<1>1. Init => MemberInv
  BY InitMember, ConstantsAssumption
<1>2. MemberInv /\ [Next]_vars => MemberInv'
  BY MemberStep, ConstantsAssumption
<1>. QED  BY <1>1, <1>2, PTL DEF Spec

(* Every consumer at the broker is held in exactly one slot, the two       *)
(* indexes are each other's inverse, and a list consumer has a list.       *)
THEOREM ConsumersAgree == Spec => [](TypeOK /\ NoLeak /\ IndexesAgree /\ MemberTracked)
<1>1. MemberInv => TypeOK /\ NoLeak /\ IndexesAgree /\ MemberTracked
  BY DEF MemberInv, RouteInv, RoutesTyped, RestTyped, TypeOK
<1>. QED  BY <1>1, MemberAlways, PTL

(* However friends, lists, guilds and connections come and go, a user some *)
(* list wants has a consumer once the pending listens are answered, unless *)
(* the broker closed its channel or rejected the listen of every list.     *)
THEOREM WantedAreCovered == Spec => []Covered
<1>1. MemberInv => Covered
  <2>. SUFFICES ASSUME MemberInv, bus = "up", open, NEW u \in Users, userGuilds[u] # {},
                       \A l \in listening : l.user # u
                PROVE  Served(u) \/ \A g \in userGuilds[u] : <<g, u>> \in refused
    BY DEF Covered, Served
  <2>. QED  BY DEF MemberInv, RouteInv, Wanted, Asked
<1>. QED  BY <1>1, MemberAlways, PTL

-----------------------------------------------------------------------------
(* What a step may do to the consumers of a user that is being heard. *)
HeardOn(u) ==
  /\ live[u] >= 1 /\ userGuilds[u] # {} /\ userGuilds'[u] # {}
  /\ direct'[u] # "closed" /\ member'[u] # "closed"
  => live'[u] >= 1

LEMMA AnsweredHeard ==
  ASSUME MemberInv, NEW l \in listening, MemberListened(l) \/ DirectListened(l), NEW u \in Users
  PROVE  HeardOn(u)
<1>1. live \in [Users -> Nat]
  BY DEF MemberInv, RouteInv, RoutesTyped
<1>2. live' = live \/ live' = [live EXCEPT ![l.user] = @ + 1]
  BY DEF MemberListened, DirectListened
<1>. QED  BY <1>1, <1>2 DEF HeardOn

(* A consumer is cancelled for the lists when the last of them is gone. *)
LEMMA UnsubscribingHeard ==
  ASSUME MemberInv, NEW g, NEW U, UnsubscribeMembers(g, U), NEW u \in Users
  PROVE  HeardOn(u)
<1>1. CASE u \in U /\ GuildsLeft(u, g) = {}
  BY <1>1 DEF UnsubscribeMembers, HeardOn
<1>2. CASE ~(u \in U /\ GuildsLeft(u, g) = {})
  <2>1. live'[u] = live[u]
    BY <1>2 DEF UnsubscribeMembers
  <2>. QED  BY <2>1 DEF HeardOn
<1>. QED  BY <1>1, <1>2

(* A friend's consumer is cancelled if the lists have one of their own or  *)
(* none of them wants it.                                                  *)
LEMMA RemovingHeard ==
  ASSUME MemberInv, open, bus = "up", NEW w \in Users, RelationshipRemove(w), NEW u \in Users
  PROVE  HeardOn(u)
<1>1. live \in [Users -> Nat] /\ direct \in [Users -> Handle] /\ member \in [Users -> Handle]
  BY DEF MemberInv, RouteInv, RoutesTyped
<1>2. CASE HandsOver(w) \/ u # w
  <2>1. live'[u] = live[u]
    BY <1>1, <1>2 DEF RelationshipRemove
  <2>. QED  BY <2>1 DEF HeardOn
<1>3. CASE ~HandsOver(w) /\ u = w
  <2>1. live'[u] = live[u] - Count(direct[u])
    BY <1>1, <1>3 DEF RelationshipRemove
  <2>2. live[u] = Count(direct[u]) + Count(member[u])
    BY DEF MemberInv, RouteInv, NoLeak
  <2>3. Count(direct[u]) \in {0, 1} /\ Count(member[u]) \in {0, 1}
    BY DEF Count
  <2>4. userGuilds[u] # {} /\ member'[u] # "closed" => member[u] = "live"
    BY <1>1, <1>3 DEF RelationshipRemove, HandsOver, MemberInv, RouteInv, NoneDead, Handle
  <2>5. userGuilds[u] # {} /\ member'[u] # "closed" => Count(member[u]) = 1
    BY <2>4 DEF Count
  <2>. QED  BY <2>1, <2>2, <2>3, <2>5 DEF HeardOn
<1>. QED  BY <1>2, <1>3

(* A channel that closes takes a user's consumers and leaves it a closed   *)
(* handle, or takes none of them.                                          *)
LEMMA ClosingHeard ==
  ASSUME MemberInv, NEW D, NEW M, ChannelClosed(D, M), NEW u \in Users
  PROVE  HeardOn(u)
<1>. SUFFICES ASSUME direct'[u] # "closed", member'[u] # "closed" PROVE live'[u] = live[u]
  BY DEF HeardOn
<1>1. direct'[u] = direct[u] /\ member'[u] = member[u]
  BY DEF ChannelClosed, Closed, MemberInv, RouteInv, RoutesTyped
<1>2. live'[u] = live[u] - (Count(direct[u]) - Count(direct[u])) - (Count(member[u]) - Count(member[u]))
  BY <1>1 DEF ChannelClosed
<1>3. Count(direct[u]) \in Nat /\ Count(member[u]) \in Nat /\ live[u] \in Nat
  BY DEF Count, MemberInv, RouteInv, RoutesTyped
<1>. QED  BY <1>2, <1>3

LEMMA StillHeard ==
  ASSUME MemberInv, [Next]_vars, bus = "up", bus' = "up", NEW u \in Users
  PROVE  HeardOn(u)
<1>. DEFINE Same == live' = live
<1>1. Same => HeardOn(u)
  BY DEF HeardOn
<1>2. ASSUME NEW l \in listening, MemberListened(l) \/ DirectListened(l) PROVE HeardOn(u)
  BY <1>2, AnsweredHeard
<1>3. ASSUME open, EventStep PROVE HeardOn(u)
  <2>1. ASSUME NEW w \in Users, RelationshipRemove(w) PROVE HeardOn(u)
    BY <1>3, <2>1, RemovingHeard
  <2>2. ASSUME NEW w \in Users, NEW e \in Events, RelationshipAdd(e, w) PROVE Same
    BY <2>2 DEF RelationshipAdd, SubscribeDirect
  <2>3. ASSUME NEW g \in Guilds, NEW w \in Users, GuildMemberRemove(g, w) PROVE HeardOn(u)
    BY <2>3, UnsubscribingHeard DEF GuildMemberRemove
  <2>4. ASSUME NEW g \in Guilds, NEW w \in Users, NEW e \in Events, GuildMemberAdd(e, g, w) PROVE Same
    BY <2>4 DEF GuildMemberAdd, SubscribeMembers
  <2>5. ASSUME NEW g \in Guilds, GuildDelete(g) PROVE HeardOn(u)
    BY <2>5, UnsubscribingHeard DEF GuildDelete
  <2>. QED  BY <1>1, <1>3, <2>1, <2>2, <2>3, <2>4, <2>5 DEF EventStep
<1>4. ASSUME NEW l \in Lists, ListStep(l) PROVE HeardOn(u)
  <2>1. ASSUME NEW g \in Guilds, NEW U \in SUBSET Users, ListMembers(l, g, U) \/ ListRange(l, g, U)
        PROVE  Same
    BY <2>1 DEF ListMembers, ListRange, SubscribeMembers
  <2>2. ListMembersOnly(l) => Same
    BY DEF ListMembersOnly, routes
  <2>3. ListReconcile(l) => HeardOn(u)
    BY UnsubscribingHeard DEF ListReconcile
  <2>. QED  BY <1>1, <1>4, <2>1, <2>2, <2>3 DEF ListStep
<1>5. ASSUME BusStep PROVE HeardOn(u)
  <2>1. ~(Disconnect \/ Abandon \/ Connect) /\ \A s \in Setups : ~Reconnect(s)
    BY DEF Disconnect, Abandon, Connect, Reconnect, Bus!Lose, Bus!Abandon, Bus!Connect,
       Bus!Announce, Bus!AnnounceLate
  <2>2. ASSUME NEW s \in Setups, SetupFails(s) \/ \E F \in SUBSET Users : SetupFriends(s, F)
        PROVE  Same
    BY <2>2 DEF SetupFails, routes, SetupFriends, SubscribeDirect
  <2>. QED  BY <1>1, <1>5, <2>1, <2>2, ClosingHeard DEF BusStep
<1>6. ASSUME UNCHANGED vars \/ \E l \in listening : ListenRejected(l) PROVE Same
  BY <1>6 DEF vars, ListenRejected
<1>. HIDE DEF Same
<1>. QED  BY <1>1, <1>2, <1>3, <1>4, <1>5, <1>6 DEF Next

(* No step of a handler, a lazy request or a late answer interrupts a      *)
(* presence that a list wants while the connection lives.                  *)
THEOREM HeardWithoutGap == Spec => NeverInterrupted
<1>1. MemberInv /\ [Next]_vars =>
        [\A u \in Users :
           /\ live[u] >= 1 /\ userGuilds[u] # {}
           /\ bus = "up" /\ bus' = "up" /\ userGuilds'[u] # {}
           /\ direct'[u] # "closed" /\ member'[u] # "closed"
           => live'[u] >= 1]_vars
  BY StillHeard DEF HeardOn
<1>. QED  BY <1>1, MemberAlways, PTL DEF Spec, NeverInterrupted

=============================================================================
