-------------------------- MODULE RabbitConnection --------------------------
(***************************************************************************)
(* The connection to RabbitMQ of one process (RabbitMQ.ts): connect,       *)
(* scheduleReconnect, and getSafeChannel as connect, emitEvent and         *)
(* listenEvent call it.  Events and continuations interleave; what amqplib *)
(* promises is taken from how RabbitMQ.ts uses it.                         *)
(***************************************************************************)
EXTENDS Integers

CONSTANTS
  Connections,  \* the connections amqplib may open, each once
  Callers,      \* the calls of getSafeChannel other than connect's
  MaxFaults,    \* bound on what fails: dials, connections, channels
  None

ASSUME ConstantsAssumption ==
  /\ MaxFaults \in Nat
  /\ Connections \cap Callers = {}
  /\ None \notin Connections \cup Callers

(* A channel bears the name of the call that requests it: a connection's   *)
(* own setup, or a caller.                                                 *)
Channels == Connections \cup Callers

VARIABLES
  conn,           \* the state of each connection
  connection,     \* RabbitMQ.connection
  channel,        \* RabbitMQ.channel
  dialing,        \* calls of connect that await amqp.connect
  opening,        \* connections whose connect awaits getSafeChannel
  timers,         \* reconnection timers
  isReconnecting,
  state,          \* the state of each call, then of its channel
  on,             \* the connection a channel is on
  heard,          \* the event announced last
  faults

vars == <<conn, connection, channel, dialing, opening, timers, isReconnecting,
          state, on, heard, faults>>

TypeOK ==
  /\ conn \in [Connections -> {"unused", "open", "closing", "closed"}]
  /\ connection \in Connections \cup {None}
  /\ channel \in Channels \cup {None}
  /\ dialing \in Nat
  /\ opening \subseteq Connections
  /\ timers \in Nat
  /\ isReconnecting \in BOOLEAN
  /\ state \in [Channels -> {"unused", "requested", "replied", "refused",
                             "open", "closed", "served", "failed"}]
  /\ on \in [Channels -> Connections \cup {None}]
  /\ heard \in {"none", "reconnected", "disconnected"}
  /\ faults \in 0 .. MaxFaults

(* init has called connect. *)
Init ==
  /\ conn = [c \in Connections |-> "unused"]
  /\ connection = None
  /\ channel = None
  /\ dialing = 1
  /\ opening = {}
  /\ timers = 0
  /\ isReconnecting = FALSE
  /\ state = [x \in Channels |-> "unused"]
  /\ on = [x \in Channels |-> None]
  /\ heard = "none"
  /\ faults = 0

(* Promises that have settled continue before the next event; the frames   *)
(* one read has brought are all handled before that.                       *)
Settled == {x \in Channels : state[x] \in {"replied", "refused"}}
Idle == Settled = {}
SameRead(c) == \A x \in Settled : on[x] = c

Fault == faults < MaxFaults /\ faults' = faults + 1

-----------------------------------------------------------------------------
(* Mutants carry the name of the slip they make; no specification uses them. *)

AlwaysSchedules == isReconnecting' = TRUE /\ timers' = timers + 1

(* scheduleReconnect *)
Schedule ==
  IF isReconnecting THEN UNCHANGED <<isReconnecting, timers>>
  ELSE isReconnecting' = TRUE /\ timers' = timers + 1

FiresCleared ==
  /\ Idle
  /\ timers' = timers - 1
  /\ isReconnecting' = FALSE
  /\ dialing' = dialing + 1
  /\ UNCHANGED <<conn, connection, channel, opening, state, on, heard, faults>>

ForgetsReset ==
  /\ timers > 0 /\ Idle
  /\ timers' = timers - 1
  /\ dialing' = dialing + 1
  /\ UNCHANGED <<conn, connection, channel, opening, isReconnecting, state, on, heard, faults>>

TimerFires ==
  /\ timers > 0 /\ Idle
  /\ timers' = timers - 1
  /\ isReconnecting' = FALSE
  /\ dialing' = dialing + 1
  /\ UNCHANGED <<conn, connection, channel, opening, state, on, heard, faults>>

KeepsOldChannel(c) ==
  /\ dialing > 0 /\ Idle
  /\ conn[c] = "unused"
  /\ dialing' = dialing - 1
  /\ conn' = [conn EXCEPT ![c] = "open"]
  /\ connection' = c
  /\ opening' = opening \cup {c}
  /\ state' = [state EXCEPT ![c] = "requested"]
  /\ on' = [on EXCEPT ![c] = c]
  /\ UNCHANGED <<channel, timers, isReconnecting, heard, faults>>

(* connect, up to its getSafeChannel: a new connection has no channel yet. *)
DialSucceeds(c) ==
  /\ dialing > 0 /\ Idle
  /\ conn[c] = "unused"
  /\ dialing' = dialing - 1
  /\ conn' = [conn EXCEPT ![c] = "open"]
  /\ connection' = c
  /\ channel' = None
  /\ opening' = opening \cup {c}
  /\ state' = [state EXCEPT ![c] = "requested"]
  /\ on' = [on EXCEPT ![c] = c]
  /\ UNCHANGED <<timers, isReconnecting, heard, faults>>

DialFails ==
  /\ dialing > 0 /\ Idle
  /\ Fault
  /\ dialing' = dialing - 1
  /\ Schedule
  /\ UNCHANGED <<conn, connection, channel, opening, state, on, heard>>

-----------------------------------------------------------------------------
(* getSafeChannel *)

(* A cached channel is usable until it is closed. *)
Cached == channel # None /\ state[channel] # "closed"

Acquire(p) ==
  /\ state[p] = "unused"
  /\ \/ /\ connection = None
        /\ state' = [state EXCEPT ![p] = "failed"]
        /\ UNCHANGED <<channel, on>>
     \/ /\ connection # None /\ Cached
        /\ state' = [state EXCEPT ![p] = "served"]
        /\ UNCHANGED <<channel, on>>
     \/ /\ connection # None /\ ~Cached
        /\ state' = [state EXCEPT ![p] = "requested"]
        /\ on' = [on EXCEPT ![p] = connection]
        /\ channel' = None
  /\ UNCHANGED <<conn, connection, dialing, opening, timers, isReconnecting, heard, faults>>

Answered(x, s) ==
  /\ state[x] = "requested"
  /\ conn[on[x]] = "open" /\ SameRead(on[x])
  /\ state' = [state EXCEPT ![x] = s]
  /\ UNCHANGED <<conn, connection, channel, dialing, opening, timers, isReconnecting, on, heard>>

Reply(x) == Answered(x, "replied") /\ UNCHANGED faults

Refuse(x) == Answered(x, "refused") /\ Fault

(* The channel is cached, its close handler attached, even when its        *)
(* connection has closed meanwhile.  In connect, the events follow.        *)
Continue(x) ==
  /\ state[x] = "replied"
  /\ channel' = x
  /\ state' = [state EXCEPT ![x] = IF conn[on[x]] = "closed" THEN "closed" ELSE "open"]
  /\ IF x \in opening
       THEN /\ opening' = opening \ {x}
            /\ isReconnecting' = FALSE
            /\ heard' = "reconnected"
       ELSE UNCHANGED <<opening, isReconnecting, heard>>
  /\ UNCHANGED <<conn, connection, dialing, timers, on, faults>>

KeepsConnection(x) == opening' = opening \ {x} /\ Schedule /\ UNCHANGED <<conn, connection>>

(* cleanupFailedConnection, then scheduleReconnect. *)
GiveUp(x) ==
  /\ opening' = opening \ {x}
  /\ connection' = IF connection = x THEN None ELSE connection
  /\ conn' = [conn EXCEPT ![x] = IF @ = "open" THEN "closing" ELSE @]
  /\ Schedule

ContinueRejected(x) ==
  /\ state[x] = "refused"
  /\ channel' = None
  /\ state' = [state EXCEPT ![x] = "failed"]
  /\ IF x \in opening
       THEN GiveUp(x)
       ELSE UNCHANGED <<opening, connection, conn, isReconnecting, timers>>
  /\ UNCHANGED <<dialing, on, heard, faults>>

-----------------------------------------------------------------------------
(* The server closes a channel in use; its handler clears the cache,       *)
(* whichever channel that holds.                                           *)
ChannelCloses(x) ==
  /\ state[x] = "open"
  /\ conn[on[x]] = "open" /\ SameRead(on[x])
  /\ Fault
  /\ state' = [state EXCEPT ![x] = "closed"]
  /\ channel' = None
  /\ UNCHANGED <<conn, connection, dialing, opening, timers, isReconnecting, on, heard>>

(* What awaits a channel of c is rejected, and its open channels close. *)
ChannelsClosed(c) ==
  [x \in Channels |->
     IF on[x] # c THEN state[x]
     ELSE IF state[x] = "requested" THEN "refused"
     ELSE IF state[x] = "open" THEN "closed"
     ELSE state[x]]

(* The cache, once the close handlers of c's channels have run. *)
CacheLeft(c) ==
  IF connection = c \/ \E x \in Channels : on[x] = c /\ state[x] = "open"
    THEN None ELSE channel

(* "close": nothing more is done for a stale connection. *)
ConnectionCloses(c) ==
  /\ SameRead(c)
  /\ \/ conn[c] = "open" /\ Fault
     \/ conn[c] = "closing" /\ UNCHANGED faults
  /\ conn' = [conn EXCEPT ![c] = "closed"]
  /\ state' = ChannelsClosed(c)
  /\ channel' = CacheLeft(c)
  /\ IF connection = c
       THEN /\ connection' = None
            /\ heard' = "disconnected"
            /\ Schedule
       ELSE UNCHANGED <<connection, heard, isReconnecting, timers>>
  /\ UNCHANGED <<dialing, opening, on>>

-----------------------------------------------------------------------------
ConnectStep(c) == DialSucceeds(c) \/ ConnectionCloses(c)

ChannelStep(x) ==
  Reply(x) \/ Refuse(x) \/ Continue(x) \/ ContinueRejected(x) \/ ChannelCloses(x)

Next ==
  \/ TimerFires \/ DialFails
  \/ \E c \in Connections : ConnectStep(c)
  \/ \E p \in Callers : Acquire(p)
  \/ \E x \in Channels : ChannelStep(x)

Spec == Init /\ [][Next]_vars

(* Timers fire, amqp.connect settles within its timeout, the broker        *)
(* answers what a living connection asks, and settled promises continue.   *)
Fairness ==
  /\ WF_vars(TimerFires)
  /\ WF_vars(DialFails \/ \E c \in Connections : DialSucceeds(c))
  /\ \A x \in Channels : WF_vars(Reply(x) \/ Refuse(x))
  /\ \A x \in Channels : WF_vars(Continue(x) \/ ContinueRejected(x))

FairSpec == Spec /\ Fairness

-----------------------------------------------------------------------------
(* However the failures of a connection and of its setup coincide, at most *)
(* one reconnection is under way, and none while there is a connection     *)
(* (scheduleReconnect, called by the close handler and by connect).        *)
OneReconnection ==
  /\ dialing + timers <= 1
  /\ connection # None => dialing + timers = 0

(* The cached channel is open and belongs to the current connection,       *)
(* though any call may overwrite it and any close handler clear it.        *)
CachedChannelUsable ==
  connection # None /\ channel # None =>
    state[channel] = "open" /\ on[channel] = connection

(* After every loss, failed dial or failed setup the process connects      *)
(* again and tells its subscribers (connect, scheduleReconnect).           *)
Reconnects ==
  connection = None ~> connection # None /\ connection \notin opening /\ heard = "reconnected"

Bus == INSTANCE BusStatus WITH
  bus <- IF connection = None THEN "down"
         ELSE IF connection \in opening THEN "connecting" ELSE "up"

(* The subscribers of "reconnected" and "disconnected" are told what       *)
(* BusStatus promises (the comment of RabbitMQ.on).                        *)
ImplementsBus == Bus!Spec

=============================================================================
