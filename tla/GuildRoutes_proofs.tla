--------------------------- MODULE GuildRoutes_proofs ---------------------------
(* Theorems about GuildRoutes, for any guilds, channels and handlers. *)
EXTENDS GuildRoutes, TLAPS

(* What subscribing and unsubscribing writes is typed. *)
LEMMA RouteUpdates ==
  ASSUME TypeOK, NEW X, X \subseteq Routes, NEW c \in Calls
  PROVE  /\ SubscribeRoutes(c, X) =>
              /\ events' \in [Routes -> Handle]
              /\ tracked' \in [Guilds -> SUBSET Routes]
              /\ listening' \subseteq Subscribe
         /\ (NoLeak /\ UnsubscribeRoutes(X)) =>
              /\ events' \in [Routes -> Handle]
              /\ live' \in [Routes -> Nat]
<1>1. Track(X) \in [Guilds -> SUBSET Routes] /\ (\A Y \in SUBSET X : Track(Y) \in [Guilds -> SUBSET Routes])
  BY DEF Track, TypeOK
<1>2. \A Y \in SUBSET X : [call : {c}, route : Y] \subseteq Subscribe
  BY DEF Subscribe
<1>3. ASSUME SubscribeRoutes(c, X)
      PROVE  /\ events' \in [Routes -> Handle]
             /\ tracked' \in [Guilds -> SUBSET Routes]
             /\ listening' \subseteq Subscribe
  <2>. DEFINE new == {x \in X : events[x] = "none"}
  <2>1. new \in SUBSET X /\ X \ new \in SUBSET X
    OBVIOUS
  <2>2. CASE bus = "down"
    BY <1>1, <1>3, <2>2 DEF SubscribeRoutes, TypeOK, Handle
  <2>3. CASE bus # "down"
    BY <1>1, <1>2, <1>3, <2>1, <2>3 DEF SubscribeRoutes, TypeOK, Handle
  <2>. QED  BY <2>2, <2>3
<1>4. ASSUME NoLeak, UnsubscribeRoutes(X)
      PROVE  events' \in [Routes -> Handle] /\ live' \in [Routes -> Nat]
  <2>1. events' \in [Routes -> Handle]
    BY <1>4 DEF UnsubscribeRoutes, TypeOK, Handle
  <2>2. \A x \in Routes : live[x] - Count(events[x]) \in Nat /\ live[x] \in Nat
    BY <1>4 DEF NoLeak, TypeOK, Count
  <2>3. live' \in [Routes -> Nat]
    BY <1>4, <2>2 DEF UnsubscribeRoutes
  <2>. QED  BY <2>1, <2>3
<1>. QED  BY <1>3, <1>4

(* What TypeOK says of the routes an action names. *)
LEMMA Named ==
  ASSUME ConstantsAssumption
  PROVE  /\ \A g \in Guilds : /\ g \in Routes /\ GuildOf[g] = g
                              /\ \A V \in SUBSET Visible(g) :
                                   /\ {g} \cup V \subseteq Routes
                                   /\ \A x \in {g} \cup V : GuildOf[x] = g
         /\ \A c \in Channels : c \in Routes
         /\ \A x \in Routes : GuildOf[x] \in Guilds \cup {NoGuild}
         /\ NoGuild \notin Guilds
BY DEF ConstantsAssumption, Routes, Visible

(* No consumer outlives its connection. *)
LiveWhileUp == bus # "up" => \A x \in Routes : events[x] # "live"

(* What keeps a socket's routes, records and consumers together. *)
RouteInv == TypeOK /\ NoLeak /\ RouteNeedsPermission /\ RoutesRecorded /\ LiveWhileUp

LEMMA InitRoutes == ASSUME ConstantsAssumption, Init PROVE RouteInv
<1>1. TypeOK
  BY DEF Init, TypeOK, Handle, Subscribe
<1>2. NoLeak /\ RouteNeedsPermission /\ RoutesRecorded /\ LiveWhileUp
  BY DEF Init, NoLeak, RouteNeedsPermission, RoutesRecorded, Count, LiveWhileUp
<1>. QED  BY <1>1, <1>2 DEF RouteInv

(* Subscribing to routes the socket may have keeps the invariant. *)
LEMMA Subscribing ==
  ASSUME ConstantsAssumption, RouteInv, NEW X, X \subseteq Routes, NEW c \in Calls,
         SubscribeRoutes(c, X), UNCHANGED <<live, bus>>,
         permissions \subseteq permissions', permissions' \subseteq Guilds,
         bus = "down" => \A x \in X : GuildOf[x] \in permissions'
  PROVE  /\ NoLeak' /\ RouteNeedsPermission' /\ RoutesRecorded' /\ LiveWhileUp'
         /\ events' \in [Routes -> Handle]
         /\ tracked' \in [Guilds -> SUBSET Routes]
         /\ listening' \subseteq Subscribe
<1>1. /\ events' \in [Routes -> Handle]
      /\ tracked' \in [Guilds -> SUBSET Routes]
      /\ listening' \subseteq Subscribe
  BY RouteUpdates DEF RouteInv
<1>2. \A x \in Routes : \/ events'[x] = events[x]
                        \/ bus = "down" /\ x \in X /\ events[x] = "none" /\ events'[x] = "dead"
  BY DEF SubscribeRoutes, RouteInv, TypeOK
<1>3. \A g \in Guilds : tracked[g] \subseteq tracked'[g]
  BY DEF SubscribeRoutes, Track
<1>4. bus = "down" => \A x \in X : GuildOf[x] # NoGuild => x \in tracked'[GuildOf[x]]
  BY Named DEF SubscribeRoutes, Track
<1>5. NoLeak'
  BY <1>2 DEF RouteInv, NoLeak, Count
<1>6. RouteNeedsPermission'
  BY <1>2 DEF RouteInv, RouteNeedsPermission, Permitted
<1>7. RoutesRecorded'
  BY <1>2, <1>3, <1>4, Named DEF RouteInv, RoutesRecorded
<1>8. LiveWhileUp'
  BY <1>2 DEF RouteInv, LiveWhileUp
<1>. QED  BY <1>1, <1>5, <1>6, <1>7, <1>8

(* So does dropping routes, if the records that go are theirs. *)
LEMMA Unsubscribing ==
  ASSUME ConstantsAssumption, RouteInv, NEW X, UnsubscribeRoutes(X), UNCHANGED bus,
         tracked' \in [Guilds -> SUBSET Routes],
         \A x \in Routes : events'[x] # "none" =>
           /\ GuildOf[x] \in permissions => GuildOf[x] \in permissions'
           /\ GuildOf[x] # NoGuild /\ x \in tracked[GuildOf[x]] => x \in tracked'[GuildOf[x]]
  PROVE  /\ NoLeak' /\ RouteNeedsPermission' /\ RoutesRecorded' /\ LiveWhileUp'
         /\ events' \in [Routes -> Handle]
         /\ live' \in [Routes -> Nat]
<1>1. events' \in [Routes -> Handle]
  BY DEF UnsubscribeRoutes, RouteInv, TypeOK, Handle
<1>2. \A x \in Routes : /\ live[x] = Count(events[x])
                         /\ Count(events[x]) \in Nat
                         /\ live[x] - Count(events[x]) = 0
  BY DEF RouteInv, NoLeak, Count
<1>3. live' \in [Routes -> Nat]
  BY <1>2 DEF UnsubscribeRoutes, RouteInv, TypeOK
<1>4. \A x \in Routes : IF x \in X THEN events'[x] = "none" /\ live'[x] = 0
                        ELSE events'[x] = events[x] /\ live'[x] = live[x]
  BY <1>2 DEF UnsubscribeRoutes
<1>5. NoLeak'
  BY <1>2, <1>4 DEF NoLeak, Count
<1>6. RouteNeedsPermission'
  BY <1>4 DEF RouteInv, RouteNeedsPermission, Permitted
<1>7. RoutesRecorded'
  BY <1>4 DEF RouteInv, RoutesRecorded
<1>8. LiveWhileUp'
  BY <1>4 DEF RouteInv, LiveWhileUp
<1>. QED  BY <1>1, <1>3, <1>5, <1>6, <1>7, <1>8

LEMMA RouteStep == ASSUME ConstantsAssumption, RouteInv, [Next]_vars PROVE RouteInv'
<1>. USE Named
<1>1. ASSUME NEW s \in listening, Listened(s) PROVE RouteInv'
  <2>. s \in Subscribe /\ s.route \in Routes /\ live[s.route] \in Nat /\ s \in listening
    BY DEF RouteInv, TypeOK, Subscribe
  <2>1. /\ listening' \subseteq Subscribe /\ cancelling' \subseteq Subscribe
    BY <1>1 DEF Listened, RouteInv, TypeOK
  <2>2. CASE UNCHANGED <<events, tracked, live>>
    BY <1>1, <2>1, <2>2
    DEF Listened, RouteInv, TypeOK, NoLeak, RouteNeedsPermission, Permitted, RoutesRecorded, LiveWhileUp
  <2>3. CASE /\ Permitted(s.route) /\ ~Taken(s.route)
             /\ events' = [events EXCEPT ![s.route] = "live"]
             /\ live' = [live EXCEPT ![s.route] = @ + 1]
             /\ tracked' = Track({s.route})
    <3>1. /\ events' \in [Routes -> Handle] /\ live' \in [Routes -> Nat]
          /\ tracked' \in [Guilds -> SUBSET Routes]
      BY <2>3 DEF RouteInv, TypeOK, Handle, Track
    <3>2. \A x \in Routes : IF x = s.route
              THEN events[x] = "none" /\ events'[x] = "live" /\ live'[x] = live[x] + 1
              ELSE events'[x] = events[x] /\ live'[x] = live[x]
      BY <2>3 DEF RouteInv, TypeOK, Taken
    <3>3. /\ \A g \in Guilds : tracked[g] \subseteq tracked'[g]
          /\ GuildOf[s.route] # NoGuild => s.route \in tracked'[GuildOf[s.route]]
      BY <2>3 DEF Track
    <3>4. TypeOK'
      BY <1>1, <2>1, <3>1 DEF Listened, RouteInv, TypeOK
    <3>5. NoLeak'
      BY <3>2 DEF RouteInv, NoLeak, Count
    <3>6. permissions' = permissions
      BY <1>1 DEF Listened
    <3>7. RouteNeedsPermission'
      BY <2>3, <3>2, <3>6 DEF RouteInv, RouteNeedsPermission, Permitted
    <3>8. RoutesRecorded'
      BY <3>2, <3>3 DEF RouteInv, RoutesRecorded
    <3>9. LiveWhileUp'
      BY <1>1 DEF Listened, LiveWhileUp
    <3>. QED  BY <3>4, <3>5, <3>7, <3>8, <3>9 DEF RouteInv
  <2>. QED  BY <1>1, <2>2, <2>3 DEF Listened
<1>2. ASSUME NEW s \in cancelling, Cancelled(s) PROVE RouteInv'
  <2>1. /\ tracked' \in [Guilds -> SUBSET Routes]
        /\ \A g \in Guilds : tracked[g] \subseteq tracked'[g]
    BY <1>2 DEF Cancelled, Track, RouteInv, TypeOK, Subscribe
  <2>2. RoutesRecorded'
    BY <1>2, <2>1 DEF Cancelled, RouteInv, RoutesRecorded
  <2>. QED
    BY <1>2, <2>1, <2>2
    DEF Cancelled, RouteInv, TypeOK, NoLeak, RouteNeedsPermission, Permitted, LiveWhileUp
<1>3. ASSUME bus = "up", NEW e \in Events, NEW g \in Guilds, NEW V \in SUBSET Visible(g),
             GuildCreate(e, g, V)
      PROVE RouteInv'
  <2>0. PICK X : X = {g} \cup V
    OBVIOUS
  <2>1. /\ e \in Calls /\ X \subseteq Routes /\ SubscribeRoutes(e, X)
        /\ permissions' = permissions \cup {g} /\ permissions' \subseteq Guilds
        /\ permissions \subseteq permissions' /\ UNCHANGED <<live, bus>> /\ bus # "down"
    BY <1>3, <2>0 DEF Calls, GuildCreate, RouteInv, TypeOK
  <2>2. /\ NoLeak' /\ RouteNeedsPermission' /\ RoutesRecorded' /\ LiveWhileUp'
        /\ events' \in [Routes -> Handle]
        /\ tracked' \in [Guilds -> SUBSET Routes]
        /\ listening' \subseteq Subscribe
    BY <2>1, Subscribing
  <2>. QED  BY <1>3, <2>1, <2>2 DEF GuildCreate, RouteInv, TypeOK
<1>4. ASSUME NEW g \in Guilds, GuildDelete(g) PROVE RouteInv'
  <2>1. tracked' \in [Guilds -> SUBSET Routes]
    BY <1>4 DEF GuildDelete, RouteInv, TypeOK
  <2>2. \A x \in Routes : events'[x] # "none" => GuildOf[x] # g
    BY <1>4 DEF GuildDelete, UnsubscribeRoutes, RecordedRoutes, RouteInv, RoutesRecorded
  <2>3. \A x \in Routes : events'[x] # "none" =>
           /\ GuildOf[x] \in permissions => GuildOf[x] \in permissions'
           /\ GuildOf[x] # NoGuild /\ x \in tracked[GuildOf[x]] => x \in tracked'[GuildOf[x]]
    BY <1>4, <2>2 DEF GuildDelete, RouteInv, TypeOK
  <2>4. /\ NoLeak' /\ RouteNeedsPermission' /\ RoutesRecorded' /\ LiveWhileUp'
        /\ events' \in [Routes -> Handle]
        /\ live' \in [Routes -> Nat]
    BY <1>4, <2>1, <2>3, Unsubscribing DEF GuildDelete
  <2>. QED  BY <1>4, <2>1, <2>4 DEF GuildDelete, RouteInv, TypeOK
<1>5. ASSUME bus = "up", NEW e \in Events, NEW c \in Channels, ChannelShown(e, c)
      PROVE RouteInv'
  <2>1. e \in Calls /\ {c} \subseteq Routes /\ permissions' = permissions
        /\ permissions' \subseteq Guilds
    BY <1>5 DEF Calls, ChannelShown, RouteInv, TypeOK
  <2>2. /\ NoLeak' /\ RouteNeedsPermission' /\ RoutesRecorded' /\ LiveWhileUp'
        /\ events' \in [Routes -> Handle]
        /\ tracked' \in [Guilds -> SUBSET Routes]
        /\ listening' \subseteq Subscribe
    BY <1>5, <2>1, Subscribing DEF ChannelShown
  <2>. QED  BY <1>5, <2>1, <2>2 DEF ChannelShown, RouteInv, TypeOK
<1>6. ASSUME NEW c \in Channels, ChannelGone(c) PROVE RouteInv'
  <2>1. tracked' \in [Guilds -> SUBSET Routes]
    BY <1>6 DEF ChannelGone, RouteInv, TypeOK
  <2>2. \A x \in Routes : events'[x] # "none" => x # c
    BY <1>6 DEF ChannelGone, UnsubscribeRoutes
  <2>3. \A x \in Routes : events'[x] # "none" =>
           /\ GuildOf[x] \in permissions => GuildOf[x] \in permissions'
           /\ GuildOf[x] # NoGuild /\ x \in tracked[GuildOf[x]] => x \in tracked'[GuildOf[x]]
    BY <1>6, <2>2 DEF ChannelGone
  <2>4. /\ NoLeak' /\ RouteNeedsPermission' /\ RoutesRecorded' /\ LiveWhileUp'
        /\ events' \in [Routes -> Handle]
        /\ live' \in [Routes -> Nat]
    BY <1>6, <2>1, <2>3, Unsubscribing DEF ChannelGone
  <2>. QED  BY <1>6, <2>1, <2>4 DEF ChannelGone, RouteInv, TypeOK
<1>7. ASSUME Disconnect \/ Abandon PROVE RouteInv'
  <2>0. ConsumersLost
    BY <1>7 DEF Disconnect, Abandon
  <2>1. /\ events' \in [Routes -> Handle] /\ live' \in [Routes -> Nat]
        /\ \A x \in Routes : events'[x] # "live" /\ live'[x] = 0
        /\ \A x \in Routes : events'[x] # "none" => events[x] # "none"
    BY <2>0 DEF ConsumersLost, Handle
  <2>4. open' \in BOOLEAN
    BY <2>0 DEF ConsumersLost
  <2>5. bus' = "down" /\ heard' \in {heard, "disconnected"} /\ losses' \in {losses, losses + 1}
    BY <1>7 DEF Disconnect, Abandon, Bus!Lose, Bus!Abandon
  <2>2. TypeOK'
    BY <2>0, <2>1, <2>4, <2>5 DEF ConsumersLost, RouteInv, TypeOK
  <2>3. NoLeak'
    BY <2>1 DEF NoLeak, Count
  <2>. QED
    BY <2>0, <2>1, <2>2, <2>3
    DEF ConsumersLost, RouteInv, RouteNeedsPermission, Permitted, RoutesRecorded, LiveWhileUp
<1>8. ASSUME Connect PROVE RouteInv'
  <2>1. bus = "down" /\ bus' = "connecting" /\ heard' = heard
    BY <1>8 DEF Connect, Bus!Connect
  <2>. QED
    BY <1>8, <2>1
    DEF Connect, RouteInv, TypeOK, NoLeak, RouteNeedsPermission, Permitted, RoutesRecorded,
        LiveWhileUp
<1>9. ASSUME NEW s \in Setups, NEW G \in SUBSET Guilds, Reconnect(s, G) PROVE RouteInv'
  <2>1. events' \in [Routes -> Handle] /\ \A x \in Routes : events'[x] = "none"
    BY <1>9 DEF Reconnect, Handle
  <2>5. bus # "up" /\ bus' \in {"up", "down"} /\ heard' = "reconnected"
    BY <1>9 DEF Reconnect, Bus!Announce, Bus!AnnounceLate
  <2>2. TypeOK'
    BY <1>9, <2>1, <2>5 DEF Reconnect, RouteInv, TypeOK
  <2>3. \A x \in Routes : events[x] # "live"
    BY <2>5 DEF RouteInv, LiveWhileUp
  <2>4. NoLeak'
    BY <1>9, <2>1, <2>3 DEF Reconnect, RouteInv, NoLeak, Count
  <2>. QED
    BY <1>9, <2>1, <2>2, <2>4
    DEF Reconnect, RouteInv, RouteNeedsPermission, RoutesRecorded, LiveWhileUp
<1>10. ASSUME NEW s \in Setups, NEW g \in Guilds, NEW V \in SUBSET Visible(g),
              SetupGuild(s, g, V)
       PROVE RouteInv'
  <2>0. PICK X : X = {g} \cup V
    OBVIOUS
  <2>1. /\ s \in Calls /\ X \subseteq Routes /\ SubscribeRoutes(s, X)
        /\ permissions' = permissions \cup {g} /\ permissions' \subseteq Guilds
        /\ permissions \subseteq permissions' /\ UNCHANGED <<live, bus>>
        /\ \A x \in X : GuildOf[x] \in permissions'
    BY <1>10, <2>0 DEF Calls, SetupGuild, RouteInv, TypeOK
  <2>2. /\ NoLeak' /\ RouteNeedsPermission' /\ RoutesRecorded' /\ LiveWhileUp'
        /\ events' \in [Routes -> Handle]
        /\ tracked' \in [Guilds -> SUBSET Routes]
        /\ listening' \subseteq Subscribe
    BY <2>1, Subscribing
  <2>. QED  BY <1>10, <2>1, <2>2 DEF SetupGuild, RouteInv, TypeOK
<1>11. ASSUME ReconnectUnheard PROVE RouteInv'
  <2>1. bus # "up" /\ bus' \in {"up", "down"} /\ heard' = "reconnected" /\ open' \in {open, FALSE}
    BY <1>11 DEF ReconnectUnheard, Bus!Announce, Bus!AnnounceLate
  <2>2. \A x \in Routes : events[x] # "live"
    BY <2>1 DEF RouteInv, LiveWhileUp
  <2>. QED
    BY <1>11, <2>1, <2>2
    DEF ReconnectUnheard, RouteInv, TypeOK, NoLeak, RouteNeedsPermission, RoutesRecorded,
        LiveWhileUp
<1>12. ASSUME HookReconnect PROVE RouteInv'
  BY <1>12
  DEF HookReconnect, RouteInv, TypeOK, NoLeak, RouteNeedsPermission, RoutesRecorded, LiveWhileUp
<1>13. ASSUME NEW s \in listening, ListenRejected(s) PROVE RouteInv'
  BY <1>13
  DEF ListenRejected, RouteInv, TypeOK, NoLeak, RouteNeedsPermission, RoutesRecorded, LiveWhileUp
<1>14. ASSUME NEW X, ChannelClosed(X) PROVE RouteInv'
  <2>1. /\ events' \in [Routes -> Handle]
        /\ \A x \in Routes : events'[x] # "none" => events[x] # "none"
    BY <1>14 DEF ChannelClosed, RouteInv, TypeOK, Handle
  <2>2. \A x \in Routes : live'[x] = Count(events'[x])
    <3>1. \A x \in Routes : /\ Count(events[x]) \in Nat /\ Count(events'[x]) \in Nat
                             /\ live[x] = Count(events[x])
                             /\ live'[x] = live[x] - (Count(events[x]) - Count(events'[x]))
      BY <1>14 DEF ChannelClosed, RouteInv, NoLeak, Count
    <3>. QED  BY <3>1
  <2>3. live' \in [Routes -> Nat]
    <3>1. \A x \in Routes : live'[x] \in Nat
      BY <2>2 DEF Count
    <3>. QED  BY <1>14, <3>1 DEF ChannelClosed
  <2>4. TypeOK' /\ NoLeak'
    BY <1>14, <2>1, <2>2, <2>3 DEF ChannelClosed, RouteInv, TypeOK, NoLeak
  <2>. QED
    BY <1>14, <2>1, <2>4
    DEF ChannelClosed, RouteInv, RouteNeedsPermission, RoutesRecorded, LiveWhileUp
<1>15. ASSUME NEW s \in Setups, SetupFails(s) PROVE RouteInv'
  BY <1>15
  DEF SetupFails, RouteInv, TypeOK, NoLeak, RouteNeedsPermission, RoutesRecorded, LiveWhileUp
<1>16. CASE UNCHANGED vars
  BY <1>16 DEF vars, RouteInv, TypeOK, NoLeak, RouteNeedsPermission, Permitted, RoutesRecorded, LiveWhileUp
<1>. QED
  BY <1>1, <1>2, <1>3, <1>4, <1>5, <1>6, <1>7, <1>8, <1>9, <1>10, <1>11, <1>12, <1>13, <1>14,
     <1>15, <1>16
  DEF Next, AnswerStep, EventStep, BusStep, Listened, ListenRejected, Cancelled

(* The socket's maps and the broker agree, a guild that was left is not    *)
(* heard, and leaving a guild finds every route of it.                     *)
THEOREM RoutesAgree == Spec => [](TypeOK /\ NoLeak /\ RouteNeedsPermission /\ RoutesRecorded)
<1>1. Init => RouteInv
  BY InitRoutes, ConstantsAssumption
<1>2. RouteInv /\ [Next]_vars => RouteInv'
  BY RouteStep, ConstantsAssumption
<1>3. RouteInv => TypeOK /\ NoLeak /\ RouteNeedsPermission /\ RoutesRecorded
  BY DEF RouteInv
<1>. QED  BY <1>1, <1>2, <1>3, PTL DEF Spec

-----------------------------------------------------------------------------
(* While the connection stands no handle is of a dead consumer: handles    *)
(* die with it, and what is registered without it is forgotten when it     *)
(* comes back.  (A socket that is closed then is of no interest.)          *)
NoneDead == open /\ bus = "up" => \A x \in Routes : events[x] # "dead"

(* A guild's record lists routes of that guild only, so that leaving it    *)
(* does not touch another.                                                 *)
RecordsOwn == \A g \in Guilds : \A x \in tracked[g] : GuildOf[x] = g

HeardInv == NoneDead /\ RecordsOwn /\ GuildHeard

LEMMA InitHeard == ASSUME ConstantsAssumption, Init PROVE HeardInv
BY DEF Init, HeardInv, NoneDead, RecordsOwn, GuildHeard

(* A guild whose route was asked for is heard or listened for. *)
LEMMA SubscribingHeard ==
  ASSUME ConstantsAssumption, RouteInv, HeardInv, NEW X, X \subseteq Routes, NEW c \in Calls,
         SubscribeRoutes(c, X), UNCHANGED <<bus, open, refused>>,
         permissions' \subseteq Guilds, permissions' \ permissions \subseteq X
  PROVE  HeardInv'
<1>1. RecordsOwn'
  BY Named DEF SubscribeRoutes, Track, HeardInv, RecordsOwn
<1>2. CASE open /\ bus = "up"
  <2>1. events' = events /\ listening' = listening \cup [call : {c}, route : {x \in X : events[x] = "none"}]
    BY <1>2 DEF SubscribeRoutes
  <2>2. NoneDead'
    BY <2>1 DEF HeardInv, NoneDead
  <2>3. ASSUME NEW g \in Guilds, g \in permissions', \A s \in listening' : s.route # g
        PROVE  events[g] \in {"live", "closed"} \/ g \in refused
    <3>1. g \in Routes /\ events[g] \in {"none", "live", "closed"}
      BY <1>2, Named DEF HeardInv, NoneDead, RouteInv, TypeOK, Handle
    <3>2. CASE g \in X
      <4>1. ASSUME events[g] = "none" PROVE FALSE
        <5>1. [call |-> c, route |-> g] \in listening'
          BY <2>1, <3>2, <4>1
        <5>. QED  BY <2>3, <5>1
      <4>. QED  BY <3>1, <4>1
    <3>3. CASE g \in permissions
      BY <1>2, <2>1, <2>3, <3>3 DEF HeardInv, GuildHeard
    <3>. QED  BY <2>3, <3>2, <3>3
  <2>4. GuildHeard'
    BY <2>1, <2>3 DEF GuildHeard
  <2>. QED  BY <1>1, <2>2, <2>4 DEF HeardInv
<1>3. CASE ~(open /\ bus = "up")
  BY <1>1, <1>3 DEF HeardInv, NoneDead, GuildHeard
<1>. QED  BY <1>2, <1>3

LEMMA HeardStep ==
  ASSUME ConstantsAssumption, RouteInv, HeardInv, [Next]_vars PROVE HeardInv'
<1>. USE Named
<1>1. ASSUME open, NEW s \in listening, Listened(s) PROVE HeardInv'
  <2>. /\ s \in Subscribe /\ s.route \in Routes /\ bus = "up" /\ UNCHANGED <<bus, open, permissions>>
       /\ listening' = listening \ {s}
    BY <1>1 DEF Listened, RouteInv, TypeOK, Subscribe
  <2>1. RecordsOwn'
    BY <1>1 DEF Listened, Track, HeardInv, RecordsOwn
  <2>2. \A x \in Routes : events'[x] = events[x] \/ (x = s.route /\ events'[x] = "live")
    BY <1>1 DEF Listened, RouteInv, TypeOK
  <2>3. NoneDead'
    BY <1>1, <2>2 DEF HeardInv, NoneDead
  <2>4. s.route \in permissions => events'[s.route] \in {"live", "closed"}
    <3>1. s.route \in permissions => Permitted(s.route)
      BY DEF Permitted, RouteInv, TypeOK
    <3>2. events[s.route] \in {"none", "live", "closed"}
      BY <1>1 DEF HeardInv, NoneDead, RouteInv, TypeOK, Handle
    <3>. QED  BY <1>1, <3>1, <3>2 DEF Listened, Taken, RouteInv, TypeOK
  <2>5. ASSUME NEW g \in permissions, \A t \in listening' : t.route # g
        PROVE  events'[g] \in {"live", "closed"} \/ g \in refused'
    <3>1. CASE g = s.route
      BY <2>4, <3>1
    <3>2. CASE g # s.route
      <4>1. \A t \in listening : t.route # g
        BY <2>5, <3>2
      <4>2. g \in Routes /\ (events[g] \in {"live", "closed"} \/ g \in refused)
        BY <1>1, <4>1 DEF HeardInv, GuildHeard, RouteInv, TypeOK
      <4>3. g \in refused => g \in refused'
        BY <1>1, <3>2 DEF Listened
      <4>. QED  BY <2>2, <4>2, <4>3
    <3>. QED  BY <3>1, <3>2
  <2>6. GuildHeard'
    BY <2>5 DEF GuildHeard
  <2>. QED  BY <2>1, <2>3, <2>6 DEF HeardInv
<1>2. ASSUME NEW s \in cancelling, Cancelled(s) PROVE HeardInv'
  BY <1>2 DEF Cancelled, Track, HeardInv, NoneDead, RecordsOwn, GuildHeard
<1>3. ASSUME NEW e \in Events, NEW g \in Guilds, NEW V \in SUBSET Visible(g), GuildCreate(e, g, V)
      PROVE HeardInv'
  <2>0. PICK X : X = {g} \cup V
    OBVIOUS
  <2>1. /\ e \in Calls /\ X \subseteq Routes /\ SubscribeRoutes(e, X) /\ UNCHANGED <<bus, open, refused>>
        /\ permissions' \subseteq Guilds /\ permissions' \ permissions \subseteq X
    BY <1>3, <2>0 DEF Calls, GuildCreate, RouteInv, TypeOK
  <2>. QED  BY <2>1, SubscribingHeard
<1>4. ASSUME NEW g \in Guilds, GuildDelete(g) PROVE HeardInv'
  <2>1. \A x \in RecordedRoutes(g) : GuildOf[x] = g
    BY DEF RecordedRoutes, HeardInv, RecordsOwn
  <2>2. \A x \in Routes : events'[x] = "none" \/ events'[x] = events[x]
    BY <1>4 DEF GuildDelete, UnsubscribeRoutes
  <2>3. \A h \in Guilds \ {g} : events'[h] = events[h]
    BY <1>4, <2>1 DEF GuildDelete, UnsubscribeRoutes
  <2>4. GuildHeard'
    BY <1>4, <2>3 DEF GuildDelete, HeardInv, GuildHeard, RouteInv, TypeOK
  <2>5. NoneDead' /\ RecordsOwn'
    BY <1>4, <2>2 DEF GuildDelete, HeardInv, NoneDead, RecordsOwn, RouteInv, TypeOK
  <2>. QED  BY <2>4, <2>5 DEF HeardInv
<1>5. ASSUME NEW e \in Events, NEW c \in Channels, ChannelShown(e, c) PROVE HeardInv'
  <2>1. /\ e \in Calls /\ {c} \subseteq Routes /\ UNCHANGED <<bus, open, refused, permissions>>
        /\ permissions' \subseteq Guilds
    BY <1>5 DEF Calls, ChannelShown, RouteInv, TypeOK
  <2>. QED  BY <1>5, <2>1, SubscribingHeard DEF ChannelShown
<1>6. ASSUME NEW c \in Channels, ChannelGone(c) PROVE HeardInv'
  <2>1. \A x \in Routes : events'[x] = "none" \/ events'[x] = events[x]
    BY <1>6 DEF ChannelGone, UnsubscribeRoutes
  <2>2. \A g \in Guilds : events'[g] = events[g]
    BY <1>6 DEF ChannelGone, UnsubscribeRoutes, ConstantsAssumption
  <2>3. RecordsOwn'
    BY <1>6 DEF ChannelGone, HeardInv, RecordsOwn
  <2>. QED
    BY <1>6, <2>1, <2>2, <2>3 DEF ChannelGone, HeardInv, NoneDead, GuildHeard, RouteInv, TypeOK
<1>7. ASSUME Disconnect \/ Abandon \/ Connect PROVE HeardInv'
  <2>1. bus' # "up" /\ tracked' = tracked
    BY <1>7 DEF Disconnect, Abandon, ConsumersLost, Connect, Bus!Lose, Bus!Abandon, Bus!Connect
  <2>. QED  BY <2>1 DEF HeardInv, NoneDead, RecordsOwn, GuildHeard
<1>8. ASSUME NEW s \in Setups, NEW G \in SUBSET Guilds, Reconnect(s, G) PROVE HeardInv'
  BY <1>8 DEF Reconnect, HeardInv, NoneDead, RecordsOwn, GuildHeard
<1>9. ASSUME NEW s \in Setups, NEW g \in Guilds, NEW V \in SUBSET Visible(g), SetupGuild(s, g, V)
       PROVE HeardInv'
  <2>0. PICK X : X = {g} \cup V
    OBVIOUS
  <2>1. /\ s \in Calls /\ X \subseteq Routes /\ SubscribeRoutes(s, X) /\ UNCHANGED <<bus, open, refused>>
        /\ permissions' \subseteq Guilds /\ permissions' \ permissions \subseteq X
    BY <1>9, <2>0 DEF Calls, SetupGuild, RouteInv, TypeOK
  <2>. QED  BY <2>1, SubscribingHeard
<1>10. ASSUME ReconnectUnheard PROVE HeardInv'
  <2>1. ~open' \/ bus' # "up"
    BY <1>10 DEF ReconnectUnheard, Bus!Announce, Bus!AnnounceLate
  <2>. QED  BY <1>10, <2>1 DEF ReconnectUnheard, HeardInv, NoneDead, RecordsOwn, GuildHeard
<1>11. ASSUME HookReconnect PROVE HeardInv'
  BY <1>11 DEF HookReconnect, HeardInv, NoneDead, RecordsOwn, GuildHeard
<1>12. ASSUME open, NEW s \in listening, ListenRejected(s) PROVE HeardInv'
  <2>1. /\ bus = "up" /\ listening' = listening \ {s}
        /\ UNCHANGED <<permissions, events, tracked, bus>>
        /\ refused' = refused \cup ({s.route} \cap permissions)
    BY <1>12 DEF ListenRejected
  <2>2. ASSUME NEW g \in permissions, \A t \in listening' : t.route # g
        PROVE  events[g] \in {"live", "closed"} \/ g \in refused'
    <3>1. CASE g = s.route
      BY <2>1, <3>1
    <3>2. CASE g # s.route
      <4>1. \A t \in listening : t.route # g
        BY <2>1, <2>2, <3>2
      <4>. QED  BY <1>12, <2>1, <4>1 DEF HeardInv, GuildHeard
    <3>. QED  BY <3>1, <3>2
  <2>. QED  BY <1>12, <2>1, <2>2 DEF HeardInv, NoneDead, RecordsOwn, GuildHeard
<1>13. ASSUME NEW X, ChannelClosed(X) PROVE HeardInv'
  <2>1. \A x \in Routes : events'[x] = events[x] \/ (events[x] = "live" /\ events'[x] = "closed")
    BY <1>13 DEF ChannelClosed
  <2>2. UNCHANGED <<permissions, tracked, listening, refused, bus, open>> /\ permissions \subseteq Routes
    BY <1>13 DEF ChannelClosed, RouteInv, TypeOK, Routes
  <2>. QED  BY <2>1, <2>2 DEF HeardInv, NoneDead, RecordsOwn, GuildHeard
<1>14. ASSUME NEW s \in Setups, SetupFails(s) PROVE HeardInv'
  BY <1>14 DEF SetupFails, HeardInv, NoneDead, RecordsOwn, GuildHeard
<1>15. CASE UNCHANGED vars
  BY <1>15 DEF vars, HeardInv, NoneDead, RecordsOwn, GuildHeard
<1>. QED
  BY <1>1, <1>2, <1>3, <1>4, <1>5, <1>6, <1>7, <1>8, <1>9, <1>10, <1>11, <1>12, <1>13, <1>14,
     <1>15
  DEF Next, AnswerStep, EventStep, BusStep, Listened, ListenRejected, Cancelled

(* Whatever joins, leaves, reloads and losses of the connection overlap,   *)
(* a guild the socket is in is heard once the pending listens are answered,*)
(* unless the broker rejected its listen or closed its channel.            *)
THEOREM GuildsAreHeard == Spec => []GuildHeard
<1>1. Init => RouteInv /\ HeardInv
  BY InitRoutes, InitHeard, ConstantsAssumption
<1>2. RouteInv /\ HeardInv /\ [Next]_vars => RouteInv' /\ HeardInv'
  BY RouteStep, HeardStep, ConstantsAssumption
<1>3. HeardInv => GuildHeard
  BY DEF HeardInv
<1>. QED  BY <1>1, <1>2, <1>3, PTL DEF Spec

(* Leaving a guild, whatever its record lists by now, takes the routes of  *)
(* that guild and of no other: another guild's consumers, and those of     *)
(* direct messages, are the same before and after (unsubscribeGuildEventIds). *)
LeavesOnlyItsOwn ==
  [][\A g \in Guilds : GuildDelete(g) =>
       \A x \in Routes : IF GuildOf[x] = g THEN events'[x] = "none" /\ live'[x] = 0
                         ELSE events'[x] = events[x] /\ live'[x] = live[x]]_vars

LEMMA LeavingOne ==
  ASSUME ConstantsAssumption, RouteInv, HeardInv, NEW g \in Guilds, GuildDelete(g), NEW x \in Routes
  PROVE  IF GuildOf[x] = g THEN events'[x] = "none" /\ live'[x] = 0
         ELSE events'[x] = events[x] /\ live'[x] = live[x]
<1>. /\ UnsubscribeRoutes(RecordedRoutes(g)) /\ live[x] \in Nat
     /\ live[x] = Count(events[x]) /\ Count(events[x]) \in Nat /\ GuildOf[g] = g
  BY Named DEF GuildDelete, RouteInv, TypeOK, NoLeak, Count
<1>1. CASE x \in RecordedRoutes(g)
  <2>1. GuildOf[x] = g
    BY <1>1 DEF RecordedRoutes, HeardInv, RecordsOwn
  <2>2. events'[x] = "none" /\ live'[x] = live[x] - Count(events[x])
    BY <1>1 DEF UnsubscribeRoutes
  <2>. QED  BY <2>1, <2>2
<1>2. CASE x \notin RecordedRoutes(g)
  <2>1. events'[x] = events[x] /\ live'[x] = live[x]
    BY <1>2 DEF UnsubscribeRoutes
  <2>2. CASE GuildOf[x] = g
    <3>1. x \notin tracked[GuildOf[x]] /\ GuildOf[x] # NoGuild
      BY <1>2, <2>2, Named DEF RecordedRoutes
    <3>2. events[x] = "none"
      BY <3>1 DEF RouteInv, RoutesRecorded
    <3>. QED  BY <2>1, <2>2, <3>2 DEF Count
  <2>. QED  BY <2>1, <2>2
<1>. QED  BY <1>1, <1>2

THEOREM LeavingIsLocal == Spec => LeavesOnlyItsOwn
<1>1. Init => RouteInv /\ HeardInv
  BY InitRoutes, InitHeard, ConstantsAssumption
<1>2. RouteInv /\ HeardInv /\ [Next]_vars => RouteInv' /\ HeardInv'
  BY RouteStep, HeardStep, ConstantsAssumption
<1>3. RouteInv /\ HeardInv =>
        [\A g \in Guilds : GuildDelete(g) =>
           \A x \in Routes : IF GuildOf[x] = g THEN events'[x] = "none" /\ live'[x] = 0
                             ELSE events'[x] = events[x] /\ live'[x] = live[x]]_vars
  BY LeavingOne, ConstantsAssumption
<1>. QED  BY <1>1, <1>2, <1>3, PTL DEF Spec, LeavesOnlyItsOwn

=============================================================================
