----------------------- MODULE RabbitConnection_proofs ----------------------
(* Theorems about RabbitConnection, for any connections, callers and bound. *)
EXTENDS RabbitConnection, TLAPS

(* A call that was made, and a channel that was opened, has a connection;  *)
(* a settled one has the current connection, or there is none.             *)
ChannelsInv ==
  \A x \in Channels :
    /\ state[x] \in {"requested", "replied", "refused", "open"} => on[x] \in Connections
    /\ state[x] = "replied" => connection = None \/ on[x] = connection

(* A connection is open exactly while it is the current one. *)
CurrentInv == \A c \in Connections : conn[c] = "open" <=> connection = c

(* connect awaits the channel of the current connection, or its promise    *)
(* has settled, the connection has closed and its close event was handled. *)
OpeningInv ==
  \A x \in opening :
    /\ on[x] = x
    /\ \/ connection = x /\ state[x] \in {"requested", "replied", "refused"}
       \/ /\ connection = None
          /\ conn[x] = "closed"
          /\ state[x] \in {"replied", "refused"}
          /\ isReconnecting = TRUE
          /\ heard = "disconnected"

OneOpening == \A x, y \in opening : x = y

IInv == /\ TypeOK /\ ChannelsInv /\ CurrentInv /\ OpeningInv /\ OneOpening
        /\ OneReconnection /\ CachedChannelUsable

(* scheduleReconnect starts at most one timer, and none while one is due. *)
LEMMA ScheduleFacts ==
  TypeOK /\ Schedule =>
    /\ isReconnecting' \in BOOLEAN
    /\ isReconnecting' = TRUE
    /\ timers' \in Nat
    /\ timers' = timers \/ timers' = timers + 1
    /\ isReconnecting = TRUE => timers' = timers
<1>. SUFFICES ASSUME TypeOK, Schedule
              PROVE  /\ isReconnecting' \in BOOLEAN
                     /\ isReconnecting' = TRUE
                     /\ timers' \in Nat
                     /\ timers' = timers \/ timers' = timers + 1
                     /\ isReconnecting = TRUE => timers' = timers
  OBVIOUS
<1>1. CASE isReconnecting
  <2>1. isReconnecting' = isReconnecting /\ timers' = timers
    BY <1>1, Zenon DEF Schedule
  <2>2. isReconnecting \in BOOLEAN /\ timers \in Nat
    BY DEF TypeOK
  <2>. QED  BY <1>1, <2>1, <2>2
<1>2. CASE ~isReconnecting
  <2>1. isReconnecting' = TRUE /\ timers' = timers + 1
    BY <1>2, Zenon DEF Schedule
  <2>2. timers \in Nat
    BY DEF TypeOK
  <2>. QED  BY <1>2, <2>1, <2>2
<1>. QED  BY <1>1, <1>2

(* A typed state steps to a typed state. *)
LEMMA TypeStep == TypeOK /\ ChannelsInv /\ [Next]_vars => TypeOK'
<1>. SUFFICES ASSUME TypeOK, ChannelsInv, [Next]_vars PROVE TypeOK'
  OBVIOUS
<1>. USE ConstantsAssumption DEF Channels
<1>0. Schedule => isReconnecting' \in BOOLEAN /\ timers' \in Nat
  BY ScheduleFacts
<1>1. CASE TimerFires
  <2>1. isReconnecting' \in BOOLEAN
    BY <1>1 DEF TimerFires
  <2>. QED  BY <1>1, <2>1 DEF TypeOK, TimerFires
<1>2. CASE DialFails
  <2>1. isReconnecting' \in BOOLEAN /\ timers' \in Nat
    BY <1>0, <1>2 DEF DialFails
  <2>. QED  BY <1>2, <2>1 DEF TypeOK, DialFails, Fault
<1>3. ASSUME NEW c \in Connections, DialSucceeds(c) PROVE TypeOK'
  BY <1>3 DEF TypeOK, DialSucceeds
<1>4. ASSUME NEW c \in Connections, ConnectionCloses(c) PROVE TypeOK'
  <2>1. state' \in [Channels -> {"unused", "requested", "replied", "refused",
                                 "open", "closed", "served", "failed"}]
    BY <1>4 DEF TypeOK, ConnectionCloses, ChannelsClosed
  <2>2. channel' \in Channels \cup {None}
    BY <1>4 DEF TypeOK, ConnectionCloses, CacheLeft
  <2>3. isReconnecting' \in BOOLEAN /\ timers' \in Nat
    BY <1>0, <1>4 DEF TypeOK, ConnectionCloses
  <2>4. faults' \in 0 .. MaxFaults
    BY <1>4 DEF TypeOK, ConnectionCloses, Fault
  <2>5. /\ conn' \in [Connections -> {"unused", "open", "closing", "closed"}]
        /\ connection' \in Connections \cup {None}
        /\ heard' \in {"none", "reconnected", "disconnected"}
        /\ UNCHANGED <<dialing, opening, on>>
    BY <1>4 DEF TypeOK, ConnectionCloses
  <2>. QED  BY <2>1, <2>2, <2>3, <2>4, <2>5 DEF TypeOK
<1>5. ASSUME NEW p \in Callers, Acquire(p) PROVE TypeOK'
  BY <1>5 DEF TypeOK, Acquire
<1>6. ASSUME NEW x \in Channels, ChannelStep(x) PROVE TypeOK'
  <2>1. CASE Reply(x) \/ Refuse(x)
    BY <2>1 DEF TypeOK, Reply, Refuse, Answered, Fault
  <2>2. CASE Continue(x)
    BY <2>2 DEF TypeOK, Continue
  <2>3. CASE ContinueRejected(x)
    <3>1. isReconnecting' \in BOOLEAN /\ timers' \in Nat
      BY <1>0, <2>3 DEF TypeOK, ContinueRejected, GiveUp
    <3>. QED  BY <2>3, <3>1 DEF TypeOK, ContinueRejected, GiveUp
  <2>4. CASE ChannelCloses(x)
    BY <2>4 DEF TypeOK, ChannelCloses, Fault
  <2>. QED  BY <1>6, <2>1, <2>2, <2>3, <2>4 DEF ChannelStep
<1>7. CASE UNCHANGED vars
  BY <1>7 DEF TypeOK, vars
<1>. QED  BY <1>1, <1>2, <1>3, <1>4, <1>5, <1>6, <1>7 DEF Next, ConnectStep

(* While a dial or a timer is pending and nothing has settled, no connect  *)
(* awaits its channel.                                                     *)
LEMMA NoneOpening ==
  IInv /\ Idle /\ dialing + timers > 0 => opening = {} /\ connection = None
<1>. SUFFICES ASSUME IInv, Idle, dialing + timers > 0
              PROVE  opening = {} /\ connection = None
  OBVIOUS
<1>1. connection = None
  BY DEF IInv, TypeOK, OneReconnection
<1>2. \A x \in opening : x \in Channels /\ state[x] \notin {"replied", "refused"}
  BY DEF IInv, TypeOK, Idle, Settled, Channels
<1>3. \A x \in opening : connection = x \/ state[x] \in {"replied", "refused"}
  BY DEF IInv, OpeningInv
<1>4. \A x \in opening : x # None
  BY ConstantsAssumption DEF IInv, TypeOK
<1>. QED  BY <1>1, <1>2, <1>3, <1>4

(* The current connection closes, or a stale one. *)
LEMMA CloseStep ==
  ASSUME IInv, TypeOK', NEW c \in Connections, ConnectionCloses(c)
  PROVE  IInv'
<1>. USE ConstantsAssumption DEF Channels
<1>1. \A x \in Channels : state'[x] = IF on[x] # c THEN state[x]
                                     ELSE IF state[x] = "requested" THEN "refused"
                                     ELSE IF state[x] = "open" THEN "closed" ELSE state[x]
  BY DEF ConnectionCloses, ChannelsClosed
<1>2. ChannelsInv'
  BY <1>1 DEF IInv, ChannelsInv, ConnectionCloses
<1>3. CurrentInv'
  BY DEF IInv, TypeOK, CurrentInv, ConnectionCloses
<1>4. OpeningInv'
  BY <1>1, ScheduleFacts DEF IInv, TypeOK, OpeningInv, CurrentInv, ConnectionCloses
<1>5. OneOpening'
  BY DEF IInv, OneOpening, ConnectionCloses
<1>6. OneReconnection'
  <2>1. CASE connection = c
    <3>1. dialing' = dialing /\ connection' = None /\ (timers' = timers \/ timers' = timers + 1)
      BY <2>1, ScheduleFacts DEF IInv, ConnectionCloses
    <3>2. dialing \in Nat /\ timers \in Nat /\ dialing + timers = 0
      BY <2>1 DEF IInv, TypeOK, OneReconnection
    <3>3. dialing' + timers' <= 1
      BY <3>1, <3>2
    <3>. QED  BY <3>1, <3>3 DEF OneReconnection
  <2>2. CASE connection # c
    BY <2>2 DEF IInv, OneReconnection, ConnectionCloses
  <2>. QED  BY <2>1, <2>2
<1>7. CachedChannelUsable'
  BY <1>1 DEF IInv, TypeOK, CachedChannelUsable, CurrentInv, ConnectionCloses, CacheLeft
<1>. QED  BY <1>2, <1>3, <1>4, <1>5, <1>6, <1>7 DEF IInv

(* A step of a call of getSafeChannel. *)
LEMMA CallStep ==
  ASSUME IInv, TypeOK', NEW x \in Channels, ChannelStep(x)
  PROVE  IInv'
<1>. USE ConstantsAssumption DEF Channels, IInv
<1>1. CASE Reply(x) \/ Refuse(x)
  <2>. USE <1>1 DEF Reply, Refuse, Answered
  <2>1. ChannelsInv'
    BY DEF TypeOK, ChannelsInv, CurrentInv
  <2>2. CurrentInv' /\ OneOpening' /\ OneReconnection'
    BY DEF CurrentInv, OneOpening, OneReconnection
  <2>3. OpeningInv'
    BY DEF TypeOK, OpeningInv
  <2>4. CachedChannelUsable'
    BY DEF TypeOK, CachedChannelUsable
  <2>. QED  BY <2>1, <2>2, <2>3, <2>4
<1>2. CASE Continue(x)
  <2>. USE <1>2 DEF Continue
  <2>1. ChannelsInv'
    BY DEF TypeOK, ChannelsInv
  <2>2. CurrentInv' /\ OneOpening' /\ OneReconnection'
    BY DEF CurrentInv, OneOpening, OneReconnection
  <2>3. OpeningInv'
    BY DEF TypeOK, OpeningInv, OneOpening
  <2>4. CachedChannelUsable'
    BY DEF TypeOK, CachedChannelUsable, ChannelsInv, CurrentInv
  <2>. QED  BY <2>1, <2>2, <2>3, <2>4
<1>3. CASE ContinueRejected(x)
  <2>. USE <1>3 DEF ContinueRejected, GiveUp
  <2>1. ChannelsInv'
    BY DEF TypeOK, ChannelsInv
  <2>2. CurrentInv'
    BY DEF TypeOK, CurrentInv, OpeningInv
  <2>3. OpeningInv' /\ OneOpening'
    BY DEF TypeOK, OpeningInv, OneOpening
  <2>4. OneReconnection'
    <3>1. CASE x \notin opening
      BY <3>1 DEF OneReconnection
    <3>2. CASE x \in opening
      <4>1. /\ dialing' = dialing
            /\ timers' = timers \/ timers' = timers + 1
            /\ isReconnecting = TRUE => timers' = timers
            /\ connection' = IF connection = x THEN None ELSE connection
        BY <3>2, ScheduleFacts
      <4>2. connection = x \/ (connection = None /\ isReconnecting = TRUE)
        BY <3>2 DEF OpeningInv
      <4>3. x # None /\ dialing \in Nat /\ timers \in Nat
        BY <3>2 DEF TypeOK
      <4>4. dialing' + timers' <= 1
        BY <4>1, <4>2, <4>3 DEF OneReconnection
      <4>5. connection' = None
        BY <4>1, <4>2
      <4>. QED  BY <4>4, <4>5 DEF OneReconnection
    <3>. QED  BY <3>1, <3>2
  <2>5. CachedChannelUsable'
    BY DEF CachedChannelUsable
  <2>. QED  BY <2>1, <2>2, <2>3, <2>4, <2>5
<1>4. CASE ChannelCloses(x)
  <2>. USE <1>4 DEF ChannelCloses
  <2>1. ChannelsInv'
    BY DEF TypeOK, ChannelsInv
  <2>2. CurrentInv' /\ OneOpening' /\ OneReconnection' /\ CachedChannelUsable'
    BY DEF CurrentInv, OneOpening, OneReconnection, CachedChannelUsable
  <2>3. OpeningInv'
    BY DEF TypeOK, OpeningInv
  <2>. QED  BY <2>1, <2>2, <2>3
<1>. QED  BY <1>1, <1>2, <1>3, <1>4 DEF ChannelStep

LEMMA Inductive == IInv /\ [Next]_vars => IInv'
<1>. SUFFICES ASSUME IInv, [Next]_vars PROVE IInv'
  OBVIOUS
<1>. USE ConstantsAssumption DEF Channels
<1>0. TypeOK'
  BY TypeStep DEF IInv
<1>1. CASE TimerFires
  <2>1. opening = {} /\ connection = None
    BY <1>1, NoneOpening DEF TimerFires, IInv, TypeOK
  <2>2. OneReconnection'
    BY <1>1 DEF TimerFires, IInv, TypeOK, OneReconnection
  <2>. QED  BY <1>0, <1>1, <2>1, <2>2 DEF TimerFires, IInv, TypeOK, ChannelsInv, CurrentInv,
                 OpeningInv, OneOpening, CachedChannelUsable
<1>2. CASE DialFails
  <2>1. opening = {} /\ connection = None
    BY <1>2, NoneOpening DEF DialFails, IInv, TypeOK
  <2>2. dialing' = dialing - 1 /\ (timers' = timers \/ timers' = timers + 1)
    BY <1>2, ScheduleFacts DEF DialFails, IInv
  <2>3. OneReconnection'
    BY <1>2, <2>1, <2>2 DEF DialFails, IInv, TypeOK, OneReconnection
  <2>. QED  BY <1>0, <1>2, <2>1, <2>3 DEF DialFails, IInv, TypeOK, ChannelsInv, CurrentInv,
                 OpeningInv, OneOpening, CachedChannelUsable
<1>3. ASSUME NEW c \in Connections, DialSucceeds(c) PROVE IInv'
  <2>1. opening = {} /\ connection = None
    BY <1>3, NoneOpening DEF DialSucceeds, IInv, TypeOK
  <2>2. ChannelsInv'
    BY <1>3, <2>1 DEF DialSucceeds, Idle, Settled, IInv, TypeOK, ChannelsInv
  <2>3. CurrentInv' /\ OpeningInv' /\ OneOpening' /\ CachedChannelUsable'
    BY <1>3, <2>1 DEF DialSucceeds, IInv, TypeOK, CurrentInv, OpeningInv, OneOpening,
                      CachedChannelUsable
  <2>4. OneReconnection'
    BY <1>3 DEF DialSucceeds, IInv, TypeOK, OneReconnection
  <2>. QED  BY <1>0, <2>2, <2>3, <2>4 DEF IInv
<1>4. ASSUME NEW p \in Callers, Acquire(p) PROVE IInv'
  <2>1. ChannelsInv'
    BY <1>4 DEF Acquire, IInv, TypeOK, ChannelsInv
  <2>2. CurrentInv' /\ OneOpening' /\ OneReconnection'
    BY <1>4 DEF Acquire, IInv, CurrentInv, OneOpening, OneReconnection
  <2>3. OpeningInv'
    BY <1>4 DEF Acquire, IInv, TypeOK, OpeningInv
  <2>4. CachedChannelUsable'
    BY <1>4 DEF Acquire, IInv, TypeOK, CachedChannelUsable
  <2>. QED  BY <1>0, <2>1, <2>2, <2>3, <2>4 DEF IInv
<1>5. CASE UNCHANGED vars
  BY <1>5 DEF vars, IInv, TypeOK, ChannelsInv, CurrentInv, OpeningInv, OneOpening,
              OneReconnection, CachedChannelUsable
<1>. QED  BY <1>0, <1>1, <1>2, <1>3, <1>4, <1>5, CloseStep, CallStep DEF Next, ConnectStep

LEMMA Initially == Init => IInv
<1>. SUFFICES ASSUME Init PROVE IInv
  OBVIOUS
<1>. USE ConstantsAssumption DEF Init, Channels
<1>1. TypeOK
  <2>1. isReconnecting \in BOOLEAN
    OBVIOUS
  <2>2. faults \in 0 .. MaxFaults /\ dialing \in Nat /\ timers \in Nat
    OBVIOUS
  <2>3. conn \in [Connections -> {"unused", "open", "closing", "closed"}]
    OBVIOUS
  <2>4. on \in [Channels -> Connections \cup {None}]
    OBVIOUS
  <2>5. state \in [Channels -> {"unused", "requested", "replied", "refused",
                                "open", "closed", "served", "failed"}]
    OBVIOUS
  <2>. QED  BY <2>1, <2>2, <2>3, <2>4, <2>5 DEF TypeOK
<1>2. ChannelsInv /\ CurrentInv /\ OpeningInv /\ OneOpening
  BY DEF ChannelsInv, CurrentInv, OpeningInv, OneOpening
<1>3. OneReconnection /\ CachedChannelUsable
  BY DEF OneReconnection, CachedChannelUsable
<1>. QED  BY <1>1, <1>2, <1>3 DEF IInv

LEMMA Invariance == Spec => []IInv
BY Initially, Inductive, PTL DEF Spec

(* The variables of RabbitMQ.ts are always typed. *)
THEOREM TypeCorrect == Spec => []TypeOK
BY Invariance, PTL DEF IInv

(* At most one reconnection is under way, and none beside a connection     *)
(* (scheduleReconnect).                                                    *)
THEOREM AtMostOneReconnection == Spec => []OneReconnection
BY Invariance, PTL DEF IInv

(* The cached channel is open and on the current connection                *)
(* (getSafeChannel).                                                       *)
THEOREM CacheIsUsable == Spec => []CachedChannelUsable
BY Invariance, PTL DEF IInv

(* A step of RabbitMQ.ts is a step of the bus or leaves it as it is. *)
LEMMA BusStep == IInv /\ IInv' /\ [Next]_vars => [Bus!Next]_(Bus!busVars)
<1>. SUFFICES ASSUME IInv, IInv', [Next]_vars PROVE [Bus!Next]_(Bus!busVars)
  OBVIOUS
<1>. USE ConstantsAssumption DEF Channels, Bus!Next, Bus!busVars
<1>1. CASE TimerFires
  BY <1>1 DEF TimerFires
<1>2. CASE DialFails
  BY <1>2 DEF DialFails
<1>3. ASSUME NEW c \in Connections, DialSucceeds(c) PROVE Bus!Connect
  <2>1. connection = None
    BY <1>3, NoneOpening DEF DialSucceeds, IInv, TypeOK
  <2>. QED  BY <1>3, <2>1 DEF DialSucceeds, Bus!Connect
<1>4. ASSUME NEW c \in Connections, ConnectionCloses(c) PROVE Bus!Lose \/ UNCHANGED Bus!busVars
  BY <1>4 DEF ConnectionCloses, Bus!Lose
<1>5. ASSUME NEW p \in Callers, Acquire(p) PROVE UNCHANGED Bus!busVars
  BY <1>5 DEF Acquire
<1>6. ASSUME NEW x \in Channels, ChannelStep(x)
      PROVE  Bus!Announce \/ Bus!AnnounceLate \/ Bus!Abandon \/ UNCHANGED Bus!busVars
  <2>1. CASE Reply(x) \/ Refuse(x) \/ ChannelCloses(x)
    BY <2>1 DEF Reply, Refuse, Answered, ChannelCloses
  <2>2. CASE Continue(x)
    BY <2>2 DEF Continue, IInv, TypeOK, OpeningInv, OneOpening, Bus!Announce, Bus!AnnounceLate
  <2>3. CASE ContinueRejected(x)
    BY <2>3 DEF ContinueRejected, GiveUp, IInv, TypeOK, OpeningInv, OneOpening, Bus!Abandon
  <2>. QED  BY <1>6, <2>1, <2>2, <2>3 DEF ChannelStep
<1>7. CASE UNCHANGED vars
  BY <1>7 DEF vars
<1>. QED  BY <1>1, <1>2, <1>3, <1>4, <1>5, <1>6, <1>7 DEF Next, ConnectStep

(* Subscribers are told what BusStatus promises, for any number of         *)
(* connections, calls and faults (the comment of RabbitMQ.on).             *)
THEOREM RefinesBus == Spec => ImplementsBus
<1>1. Init => Bus!Init
  BY DEF Init, Bus!Init
<1>. QED  BY <1>1, BusStep, Invariance, PTL DEF Spec, ImplementsBus, Bus!Spec

=============================================================================
