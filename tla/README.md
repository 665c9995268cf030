# TLA+ models of the Spacebar server

Spacebar is a Discord backend in TypeScript: an HTTP API, a websocket gateway, a
CDN, a WebRTC signalling server and an admin API, all over one PostgreSQL
database and one event bus. This directory holds TLA+ modules for the parts of
it that are concurrent, the TLC configurations that check them on small
instances, and theorems about them that TLAPS checks for every instance.
Paths below are relative to the repository root, which itself has a directory
`src/`: the server's own code is `src/{admin,api,bundle,cdn,connections,gateway,schemas,util,webrtc}`.

1. [The system](#the-system)
2. [Modules](#modules)
3. [Runs](#runs)
4. [Where code and documents disagree](#where-code-and-documents-disagree)
5. [Proofs](#proofs)
6. [Simplifications](#simplifications)
7. [Plan](#plan)

Commands, in this directory:

    tlc -config AdminJobs_jobs.cfg MCAdminJobs        # any row of "Runs"
    tlapm AdminJobs_proofs.tla                        # any *_proofs module

## The system

Every process is a Node.js event loop: code between two `await`s is atomic,
and everything else interleaves, within a process (handlers of different
requests, messages and bus events) and between processes that share the
database and the bus.

| Component | State | Operations | Hard because | Correct when |
|---|---|---|---|---|
| **Persisted admin jobs** `src/admin/jobs.ts`, `src/admin/index.ts` | rows of `admin_jobs`; per process the scheduled executions, the running contexts and the recovery in flight | create (idempotent), claim, run, progress, record errors, complete, fail, request cancellation, recover | several processes share the table by conditional updates and leases; processes crash, statements fail with or without effect, leases expire | one execution runs a job at a time; a settled job stays settled; a cancellation is neither lost nor invented; one job per idempotency key; every job ends |
| **In-memory admin jobs** `src/admin/jobs.ts:186-265` | a map in one process | the same without leases and recovery | cancellation against completion | the same promises while the process lives |
| **Presence routes of a socket** `src/gateway/listener/*`, `src/gateway/opcodes/LazyRequest.ts` | `events`, `member_events`, `guild_member_event_ids`, `member_event_guild_ids` of a websocket | friend added or removed, member added or removed, guild left, lazy request, connection lost and restored | handlers await consumers of the same user, a consumer changes hands between friend and lists | no consumer is forgotten or delivered twice, no wanted user is unheard |
| **Guild and channel routes of a socket** `src/gateway/listener/*` | `permissions`, `events`, `guild_event_ids` | guild joined or left, channel shown, hidden or deleted, setup, connection lost and restored | a guild is left or joined again while its routes are being asked for | routes, permissions and records agree |
| **Gateway socket** `src/gateway/Server.ts`, `src/gateway/events`, `opcodes/{Identify,Resume}.ts`, `listener/listener.ts:466-610`, `util/{Heartbeat,Shutdown}.ts` | `readyState`, `readyTimeout`, `user_id`, the stages of `setupListener`, hooks, `closeCleanup` | upgrade, hello, identify, resume, timeouts, set up the listener, close and clean up, stop the server | timers, failing setups, reconnections and late continuations race the close event and the stop | a client is authenticated or closed; what a socket opened is closed; a stop waits for it and ends |
| **Event bus** `src/util/util/Event.ts` | unix socket clients, backlog, replay and broadcast locks, local emitter | emit, listen, replay, broadcast | promise locks that are awaited and replaced in two steps; failed publishes | events reach listeners once, in order |
| **RabbitMQ connection** `src/util/util/RabbitMQ.ts` | connection, shared channel, retry timer | connect, close, reconnect, get channel | concurrent channel creation, close between an answer and its continuation | one reconnection at a time, a usable channel, loss is announced and repaired |
| **Read states** `src/util/util/ReadState*.ts` | a row per user and channel | acknowledge, advance, pin, mention, delete, patch | update, insert, update again, racing others; an entity saved after others wrote | what was acknowledged stays so, the cursor never goes back |
| **Rate limits** `src/api/middlewares/RateLimit.ts` | buckets per executor | hit, expire, block | windows and their boundaries | never more than the limit per window |
| **Snowflakes** `src/util/util/Snowflake.ts` | an increment | generate | fixed width fields | ids differ |
| **Voice states, streams** `src/gateway/opcodes/{VoiceStateUpdate,Stream*}.ts` | rows and sessions | join, leave, watch | read, await, save on shared rows | one voice state per user and guild |
| Permissions, dispatch filter | none (pure) | compute | bit arithmetic | documented precedence |
| REST routes, entities, CDN, connections, schemas, audit, configuration | database rows, files | one request each | little shared state outside the database | validation, serialisation |

How they meet. API routes and entities change the database and `emitEvent` on
the bus. A gateway socket holds a consumer per user, guild and channel it may
hear (the two route components); `consumeListenerEvent` both changes those
consumers and sends the event to the client. `setupListener` opens them at
Identify and again whenever `RabbitMQ` announces `reconnected`; the socket's
close event cancels them. The admin routes create jobs and cancel them; each
API process runs `recoverAdminJobs` at start and from a timer.

`PROJECT.json` lists all components with their sources and status, and the
hazards of this code line by line with the properties that answer them.

## Modules

| Module | What it is |
|---|---|
| `JobLifecycle` | abstract: what an operator may rely on about an admin job |
| `AdminJobs` | persisted jobs: table, executions, create and cancel requests, recovery, faults |
| `MCAdminJobs` | small instances: which execution belongs to which process and job |
| `AdminJobs_proofs`, `AdminJobs_life_proofs` | theorems about `AdminJobs`; the second has the refinement of `JobLifecycle` |
| `MemberRoutes`, `MCMemberRoutes`, `MemberRoutes_proofs` | presence routes of one socket |
| `GuildRoutes`, `MCGuildRoutes`, `GuildRoutes_proofs` | guild and channel routes of one socket |
| `SocketLife` | abstract: what whoever stops a gateway process may rely on about its sockets |
| `GatewaySocket`, `MCGatewaySocket`, `GatewaySocket_proofs` | the life of sockets, their listener's setup and cleanup, the server's stop, implementing `SocketLife` |
| `BusStatus` | abstract: what subscribers of the bus connection are told |
| `RabbitConnection`, `MCRabbitConnection`, `RabbitConnection_proofs` | the connection to RabbitMQ and its shared channel, implementing `BusStatus` |
| `ReadStates`, `MCReadStates`, `ReadStates_proofs` | one row of `read_states` under concurrent requests |

How they fit. `RabbitConnection` implements `BusStatus`, and `GuildRoutes` and
`MemberRoutes` take the connection from there: they instantiate `BusStatus`,
and each of its steps is conjoined with what the handlers of a socket do at
it, the announcement that comes too late and the connection that is given up
before it was announced included. They have the routes of a socket in detail
and end with its close; `GatewaySocket` has two consumers for all of them, the
user's and the guilds', and what happens before, around and after the close,
over a connection that is up or down. In all three a listen may be rejected,
and the socket's channel may close, while the connection lives. `AdminJobs` implements `JobLifecycle`, `GatewaySocket` implements `SocketLife`.

Operators whose name says what is wrong with them (`ClaimableAnyStatus`,
`TakenNever`, ...) are mutants: each stands before the definition of which it
is a slip, and shows that a property would notice it. No specification uses them.

### AdminJobs

`row` is the table. A row keeps what the properties tell apart: `status`
(`"absent"` for an id not yet inserted), the `(type, idempotencyKey)` pair,
`cancelRequested`, the length of the error list, and `claimed_at` as recovery's
cutoff sees it (`"null"`, `"fresh"`, `"stale"`).

`exec` holds the calls of `runPersistedJob`. Its program counter names the
database statement the call will execute next, so one action is one statement
together with the code up to the next `await`:

| pc | statement, source in `src/admin/jobs.ts` |
|---|---|
| `scheduled` | the `findOne` of `claimPersistedJob`, 281-290 |
| `claimCancel`, `claimUpdate`, `claimFetch` | cancel instead of claiming 287-290, conditional `UPDATE` 292-308, read back 309 |
| `noRunner` | `failPersistedJob` for a type without a factory, 403-408 |
| `running` | the runner, which calls `setProgress`, `addError`, `throwIfCancellationRequested` and ends, 364-392, 411-413 |
| `completeRead`, `completeWrite` | `completePersistedJob`, 331-353 |
| `catchRead`, `catchCancel`, `failWrite` | the catch block, 414-422 |

`cancel` and `errors` are `context.job`'s copies, which `addError` and
`completePersistedJob` write back whole. `req` holds the calls of
`createAdminJob` (451-497: lookup, insert, unique violation, second lookup),
`cancelling` those of `requestAdminJobCancellation` between read and write
(560-575), and `recovery` whether a process is between the two statements of
`recoverAdminJobs` (425-449). `ClaimExpires` is time passing
`ADMIN_JOB_CLAIM_TIMEOUT_MS`. Faults: `Crash` empties one process; the
`...Rejected` actions are statements that fail without effect, the
`...ReplyLost` ones statements that take effect and are reported as failed.

`SlowRuns` is the one assumption about time. With `FALSE`, an execution that
holds a claim reaches its next statement before the lease runs out. The code
cannot guarantee it; the run `jobs_zombie` and the [findings](#where-code-and-documents-disagree)
show what follows when it fails, and `jobs_create`, with `SettledStaysSettled`, and the theorems that do not
assume `~SlowRuns` what holds all the same.

`LifePhase`, `LifeAsked` and `LifeRunner` are the refinement mapping to
`JobLifecycle`: the runner of a running job is whichever execution holds its
claim.

### MemberRoutes

One socket with the `GUILD_PRESENCES` intent. `direct` is `socket.events`
restricted to user ids, `member` is `socket.member_events`; a slot is
`"none"`, `"live"` (its unsubscribe function cancels a consumer the broker
has), `"dead"` (the consumer went down with its connection, or was
registered on the process's local emitter while there was none) or `"closed"`
(it went down with its channel alone, which `listener.ts:476` only logs). `guildUsers`
and `userGuilds` are the two indexes. `live` counts the broker's consumers,
which the code cannot see; `NoLeak` compares it with the slots.

`listening` holds the `listenEvent` calls in flight; `MemberListened` and
`DirectListened` are their continuations with the checks made again after the
`await` (`listener.ts:292-307`, `349-363`). `ListenRejected` is `listenEvent`
throwing although the connection lives: `getSafeChannel` fails (`Event.ts:150`) or the
channel has closed. The user was tracked before the call (`listener.ts:345`) and
stays tracked; the history variable `refused` keeps these pairs of guild and
user until a consumer of the user is stored. An event's handler leaves it at
that, as unhandled rejections are only logged (`src/gateway/start.ts`,
`src/bundle/Server.ts`); a lazy request's or a setup's error closes the socket. A lazy request (`list`) goes
through its member subscriptions, its ranges and `unsubscribeStaleGuildMemberEvents`,
awaiting its own listens in between; `Events` bounds the bus events that listen
at a time, `Setups` the setups. `Disconnect`, `Connect` and `Reconnect` are
the loss of the connection, the new connection before it is announced, and
`handleReconnect`; `Abandon` is the new connection being given up
(`RabbitMQ.ts:113-120`), of which no subscriber is told. They are the steps of
`BusStatus`: `heard` is the event announced last, and `Reconnect` may come
while the connection is down again (`AnnounceLate`). The socket then registers
its routes on the process's own emitter, and hears nothing until the next announcement.

### GuildRoutes

One socket that has every guild intent. `permissions` is the set of guilds
`socket.permissions` has an entry for, `events` and `tracked` are
`socket.events` and `socket.guild_event_ids`, `listening` and `cancelling` the
`subscribeEvent` calls awaiting a consumer, or the end of a surplus one.
`GuildCreate`, `GuildDelete`, `ChannelShown`, `ChannelGone` are the branches of
`consumeListenerEvent`; what the user can see (`V`) is an input. `loading` holds
the guilds a setup has read and not subscribed; `hooked` says that
`handleReconnect` is registered, which happens after the initial setup, so
that an outage that ends before it is never heard of (`ReconnectUnheard`).
`ListenRejected`, `ChannelClosed` and `refused` are as in `MemberRoutes`: a
guild's permission is written before its listen (`listener.ts:672`, 521) and stays
when that is rejected. The connection is that of `BusStatus`, as in `MemberRoutes`.

### GatewaySocket

`ws`, `readyTimeout` and `user` are `readyState`, the identify timer and
`user_id` of each socket. A message (Identify or Resume) has a program counter
`pc`: it awaits its token (`Identify.ts:133`, `Resume.ts:35`), the answer to a
rejected resume, or its `setupListener`. A setup is named by its message and
by the number of reconnections there had been, and goes through `stage`:

| stage | awaits, source in `src/gateway/listener/listener.ts` |
|---|---|
| `load` | the guilds, channels and relationships, 432-493 |
| `channel` | the channel of its routes, 486-496 |
| `user` | the consumers of the user's routes: user, session, friends, direct messages, 495-512 |
| `reads` | the guilds' permissions, 518-521; Identify's first setup has them at hand |
| `guild` | the consumers of the guilds' and channels' routes, 523-537 |
| `rejected` | the rejection that a lost connection brings |
| `over`, `failed` | ended, or failed with what it had stored, before the close event |
| `late` | ended, failed, or given a consumer after it failed, when the socket had closed |

`events[s]` is the setup whose consumer is stored for each of the two groups of routes
(`Groups`), or a mark that it is the process's own emitter (`Dead`) or went with its channel
(`Gone`); `listening` holds the `listenEvent` calls, which a setup that fails may
leave in flight, and `consumers` what the broker has. A setup may fail at any of
its awaits (`SetupFails`), and what it has stored stays. If it is the first of its
message the handler ends with `pc` `"failed"`: `Message.ts:111-117` closes the
socket, and no hook was registered.

`hooks` are the messages whose `handleReconnect` and close hook are registered
(577, 603). `SocketClosed` is the close event: `Close`, then each close hook,
in one emit; `unfinished` and `closeCleanup` are the cleanups that run and those
the joined promise waits for (607-608). `StopBegins`, `CloseClients`,
`ClientsClosed` and `Stopped` are the awaits of `stopGateway` (`Server.ts:295-309`).
Handlers are not cancelled by a close: every stage can meet a closed socket.

`LifePhase` and `LifeStop` are the refinement mapping to `SocketLife`: a closed
socket is `"cleaning"` while any part of its cleanup runs, also one that its joined promise
has forgotten, and the three awaits of `stopGateway` are one `"stopping"`.

### RabbitConnection

`connection`, `channel`, `isReconnecting` are the static fields of
`RabbitMQ.ts`, `timers` and `dialing` the retry timers and calls of `connect`
under way, `opening` the connections whose `connect` awaits `getSafeChannel`.
`state` follows a call of `getSafeChannel` and then the channel it opened. An
answer and its continuation are two steps, as other frames of the same read
may be handled between them (`SameRead`): the connection may close between
`Reply` and `Continue`. `amqplib` itself is not in the repository:
`ChannelsClosed` and the order of its close events are taken from how
`RabbitMQ.ts` uses them, and marked external.

`BusStatus` allows `AnnounceLate`: in that very interleaving `connect` says
"reconnected" after "disconnected" (`RabbitMQ.ts:74-79`). The retry timer is
pending then, and `Reconnects` shows that another announcement follows.

### ReadStates

One row, `row`, with its id, so that a row created again is not the one found.
Requests are the acknowledgement routes (`"ack"`), the author's own message
(`"advance"`), pins, the PATCH of `/messages/ack`, the mention of a user by
`handleMessage` and the DELETE; `at` is the statement a request awaits. The
upserts are update, insert, update again (`ReadStatePersistence.ts:120-154`);
`Updated` has `GREATEST(...)` for the cursor and plain assignment for the marker.
A PATCH finds or creates an entity and saves it: `save()` loads the row by id
(`Load`) and writes the columns in which the entity differs (`Written`), or inserts it.
`patched` and `undone` are history variables: that a PATCH wrote stale columns,
and that a deletion overtook an acknowledgement.

## Runs

Safety runs need no fairness. `CHECK_DEADLOCK FALSE` is set where the system
may stop: a closed socket (`MemberRoutes`, `GuildRoutes`, `GatewaySocket`), all
requests answered (`ReadStates`), a connection that stays up (`RabbitConnection`).

| Run | Question | Bounds | Distinct states |
|---|---|---|---|
| `jobs` | Does one execution run a job; do outcome, errors and cancellation agree with what happened; does it all implement the operator's view; does every job end? `TypeOK`, `ExclusiveRun`, `CancelledWasRequested`, `OutcomeFinal`, `ErrorsKept`, `CancelledNeverStarts`, `CancellationSurvives`, `ImplementsLifecycle`, `JobsFinish` under `FairSpec` | 1 job that every process can run, 2 processes with 3 executions, a create request, a canceller, 2 faults, 1 error | 140k |
| `jobs_create` | Do concurrent, failing and retried creates with one key agree, and does a settled job stay so with executions that outlive their lease? `SameKeySameJob`, `SettledStaysSettled` | 2 requests in 2 processes, 1 key or none, 2 ids, an execution of the first per process, a runner with its creator only, `SlowRuns`, 2 faults | 205k |
| `jobs_zombie` | violation of `ExclusiveRun` with `SlowRuns` | 1 job, no fault | |
| `member_routes` | Do slots, indexes and consumers agree, and is who is wanted heard without a gap? `TypeOK`, `NoLeak`, `IndexesAgree`, `MemberTracked`, `Covered`, `NeverInterrupted` | 1 user, 2 guilds, 2 lazy requests, 2 events, 2 setups, 2 losses, any refusal | 1.2M |
| `member_duplicate` | violation of `NoDuplicateListener` | 1 user, 1 guild, 2 events | |
| `member_stale` | violation of `LaterListKept` | 2 users, 1 guild, 2 lazy requests | |
| `guild_routes` | Do routes, permissions, records and consumers agree? `TypeOK`, `NoLeak`, `RouteNeedsPermission`, `RoutesRecorded`, `GuildHeard` | a guild with a channel, a DM, 2 events, 2 setups, 2 losses, any refusal | 734k |
| `socket` | Does a stop wait for every cleanup and end; is what was set up in time and has a close hook removed; does a client hear an event once; do sockets live as `SocketLife` says; is a client authenticated or closed, and closed when it cannot be resubscribed? `TypeOK`, `StopAwaitsCleanups`, `OnTimeCleaned`, `HeardOnce`, `ImplementsSocketLife`, and `AuthenticatedOrClosed`, `ResubscribedOrClosed`, `StopEnds` under fairness | 1 socket; any three of an Identify, a Resume, 2 losses and a stop; any refusal and any close | 327k |
| `socket_left` | violation of `ClosedLeavesNothing` | 1 socket, an Identify, a Resume, 1 loss | |
| `read_states` | Do acknowledgements last, do cursors go forwards, is nothing marked read that nobody acknowledged? `TypeOK`, `AcksRecorded`, `MarkerWithinCursor`, `NothingUnacknowledged`, `ForwardsUnlessPatched` | any 3 requests, 3 messages | 333k |
| `read_states_patch` | violation of `CursorForwardsOnly` | the same | |
| `rabbit` | Is there one reconnection at a time and always another one, a usable cached channel, and are subscribers told? `TypeOK`, `OneReconnection`, `CachedChannelUsable`, `ImplementsBus`, `Reconnects` under `FairSpec` | 4 connections, 2 callers besides `connect`, 3 faults | 580k |

Why the bounds are enough to meet the interesting cases. A job changes hands
when an execution dies or loses its lease: two processes, and two executions
in one of them for a job that a recovery scheduled beside another. Two faults
allow one to be lost in claiming and one in settling. A second job id matters
where ids meet keys; recovery's update and schedule treat each row by itself.
Users of a socket only meet in the set a lazy request names, which its handlers
treat user by user, so `member_routes` has one user and two lists that want
it; the overtaken request needs a second user. Two handlers and two setups at a time let a
listen be in flight while its guild is left and joined again by others. Two losses let a
setup be interrupted by the next outage. Two messages on one socket are what
sets a listener up twice. Sockets only meet in the
stop, which takes them one by one. Three things from outside (`MaxDisturbances`)
let two messages race through a loss or a stop, a stop meet a reconnection, and
a second loss interrupt the setup of a reconnection, which belongs to one
message; two messages, a loss and a stop together (1.0 million states) satisfy the
safety properties too, which the theorems state for any number. The
bound only refuses steps of clients, broker and operator, so every fair step stays
possible. An upsert has three
statements, so one request can delete the row and one insert it between them;
four requests over two messages (6.9 million states) hold too. Three faults
are a lost connection, a failed dial and a failed setup, and the fourth
connection is the one that stays. The theorems below do not depend on these bounds.

Symmetry is used in the runs of the routes and of `ReadStates` only, which have no
liveness property: users, guilds, handlers and requests are compared for equality and nothing else.

**Fairness** is weak fairness throughout, of steps the program or its
environment cannot withhold.

* `AdminJobs`: of an execution's owed statements, as what is on the event loop
  runs. Of `RunnerReturns \/ RunnerThrows`: runners end (those of
  `src/admin/userDeletion.ts` and `src/admin/cdnJobs.ts` walk finite lists). Of
  recovery in each process: `src/admin/index.ts:27-59` calls it at start and from
  an interval timer that a failed recovery does not stop. Of `ClaimExpires`: the
  clock runs. `JobsFinish` needs all four: an abandoned job is found by its
  stale lease, requeued, scheduled and run. Create and cancel requests need not
  come, and faults are bounded, as an unlimited number of crashes can keep any
  job from ending.
* `GatewaySocket`: timers fire (`HelloSent`, `ReadyTimeout`), `ws` ends a closing
  handshake after thirty seconds at the latest (`SocketClosed`), the database and the broker
  answer or fail (`TokenAccepted \/ TokenRejected`, the steps of a setup and of the cleanups),
  and a stop goes on when what it awaits has settled. Nothing is
  assumed of clients, of losses or of a reconnection.
* `RabbitConnection`: the retry timer fires (it is `unref`ed, but the
  process is kept alive by its servers), `amqp.connect` settles within its
  timeout, the broker answers on a connection that lives, settled promises
  continue. Faults are bounded, as a broker that never answers is never reconnected to.

## Where code and documents disagree

* **`jobs_zombie`** - `docs/admin-api-next-dashboard-plan.md:104` asks for
  "Worker-safe job claiming so multiple API workers do not run the same job".
  Only `setProgress` and `addError` refresh `claimed_at`; a live runner that
  calls neither for the claim timeout is requeued (`jobs.ts:440`) while it runs
  and a second worker runs the job beside it. Nothing in the settling updates
  compares the claim, so the slower of the two also writes the outcome.
* **`member_duplicate`** - after its `await`, `subscribeGuildMemberEvent`
  (`listener.ts:359`) checks `member_events` and not `events`, and
  `subscribeEvent` (`:299`) the other way round. When a RELATIONSHIP_ADD and a
  member event or lazy request of one user listen at the same time, both
  consumers stay and every PRESENCE_UPDATE of that user is sent twice, which the code
  before the `await` (`:347`) and `listener.test.ts:260` mean to exclude.
* **`member_stale`** - lazy requests of one client are handled concurrently. A
  request that is overtaken by a later one of the same guild drops, when it
  reconciles, the members the later one shows (`LazyRequest.ts:296`), although
  `listener.ts:383-386` keeps subscriptions "alive for future presence updates"
  until the client asks for something new.

* **`socket_left`** - the comments of `cleanupListener` (`listener.ts:580`
  "Unsubscribe from RabbitMQ events", `:584` "wait for event consumer
  cancellation") say that a closed socket leaves neither hooks nor consumers. The
  close hook is registered after the initial setup (`:603`) and without a look at
  `readyState`: a socket that closes during Identify or Resume keeps its consumers
  and its `handleReconnect`, which subscribes for the dead socket at every
  reconnection; one that closes during a reconnection's setup keeps what is
  stored afterwards; and one whose first setup fails half-way (a permission read at
  `:520`, or a listen after the first) is closed by `Message.ts` with its
  consumers and its channel left, as the hook was never registered. Consumers
  of a setup that ended or failed before the close event are removed in every other case: this is
  `OnTimeCleaned`, which leaves out the first setups that failed.
* **`read_states_patch`** - `src/util/entities/ReadState.ts:25` says "notification
  cursor and public read receipt need to be forwards-only". PATCH
  `/messages/ack` with local fields finds the entity, changes it and saves it
  (`messages/index.ts:157`); `save()` compares it with the row as loaded again,
  so a cursor that another request advanced in between is written back.

## Proofs

Every theorem is proved for all values of the constants that satisfy the
module's `ConstantsAssumption` (which TLC evaluates in the runs); nothing else
is assumed, except where the statement itself says `~SlowRuns`.

**`AdminJobs_proofs`**

* `TypeCorrect`: `TypeOK` is inductive.
* `ExclusiveClaims` (`~SlowRuns`): `ClaimInv` and `ExclusiveRun`. Exclusive
  runs are not inductive: that a job is free when it is claimed rests on the
  row, so `ClaimInv` says that whoever is between claim and settlement has the row
  to itself, `running` under a fresh lease, except in the catch block after a
  completion whose reply was lost. There a cancellation in the catch block
  must not meet a succeeded row whose flag was withdrawn, hence the invariant
  that is inductive is `RunInv`, `ClaimInv` with `CancelInv`. `ClaimInv`, `CancelInv`,
  `ErrorsInv` and `KeyInv` stand beside the proofs that need them, which
  establish them too.
* `CancelledWasAskedFor` (`~SlowRuns`): a cancelled job carries a request.
* `SettledForever`, `CancelledStaysUnstarted`: action properties, with leases
  kept or not. Their argument is local: `RowUpdate` lists what one step may do
  to one row (`RowUpdates`, `RowStep`), and none of it queues or runs a settled row
  or starts one with the flag set.
* `OneJobPerKey`: `KeyInv` and `SameKeySameJob`, from `KeysInv`, which adds
  that absent rows have no key and that only keyed requests look keys up.

**`MemberRoutes_proofs`**

* `ConsumersAgree`: `TypeOK`, `NoLeak`, `IndexesAgree`, `MemberTracked`.
* `WantedAreCovered`: `Covered`. A user whom a list wants, with no listen in flight, has a
  consumer, but for what the broker refuses: the channel it was on closed, or the listen of
  every guild that wants the user was rejected and none has come back since.
* `HeardWithoutGap`: `NeverInterrupted`, an action property: while the connection and
  the socket's channel live, no step takes the last consumer of a user whom a list wants before
  and after it. It is stronger than `Covered`, which allows a gap while a listen is
  in flight. The argument is one lemma for each way a consumer is cancelled:
  the lists cancel theirs when the last of them is gone (`UnsubscribingHeard`), and a friend's is
  cancelled only if the lists hold a live one or want none (`RemovingHeard`).

All three follow from `MemberInv`. `NoLeak` needs to know what a slot stands for
when the connection is gone (`LiveWhileUp`: no slot is live) and back
(`NoneDead`: none is dead). `Covered` speaks of states without a listen in
flight only, and one listen in flight would not be enough for it to be
inductive: its guild may be left before it returns, and it then keeps nothing.
`Wanted` therefore says that a user without a consumer has a listen in flight, or
one rejected, for *every* guild that wants it.

**`GuildRoutes_proofs`**

* `RoutesAgree`: `TypeOK`, `NoLeak`, `RouteNeedsPermission`, `RoutesRecorded`,
  with `LiveWhileUp` as for members.
* `GuildsAreHeard`: `GuildHeard`, but for what the broker refuses, as above. It needs `RecordsOwn` (a guild's record
  names routes of that guild only, so leaving one guild does not silence
  another) and `NoneDead`. A connection that is announced late leaves the socket
  open with dead handles; the invariant says nothing of it until the connection is up.
* `LeavingIsLocal`: leaving a guild takes the consumers of all its routes, and
  of no other guild's or direct channel's, whatever joins and listens overlapped: `RoutesRecorded`
  gives the first half, `RecordsOwn` the second. The run has one guild; the theorem
  is about any number.

**`AdminJobs_life_proofs`**

* `RequestsSurvive`: `CancellationSurvives`, with leases kept or not; only a
  completion withdraws a request. It needs `AskInv`: a cancellation in flight
  is for a row that exists.
* `RequestsStand`, `ErrorsKnown`, `ErrorsStay`, `OutcomeStays`
  (`~SlowRuns`): `CancelInv`, `ErrorsInv`, `ErrorsKept`, `OutcomeFinal`.
* `RefinesLifecycle` (`~SlowRuns`): `ImplementsLifecycle`. From `LifeInv`
  (`TypeOK`, `RunInv`, `AskInv`, `ListInv`), `EveryJobLives` shows for each job that a
  step of `AdminJobs` is a step of its lifecycle or leaves it as it is; the same lemma
  gives the errors and the outcome. `ListInv`, that the execution's copy of the error
  list is not behind the row's, is what makes writing the whole list back safe.

**`GatewaySocket_proofs`**

* `TypeCorrect`: `TypeOK`, with `LossInv` (a connection that is down has been
  lost), which the numbering of setups needs.
* `StopIsClean`: `StopAwaitsCleanups`, from `StopInv`: what is unfinished
  belongs to a closed socket whose promise waits for it, and each phase of the stop knows
  the clients that remain.
* `OnTimeIsCleaned`: `OnTimeCleaned`, from `CleanInv`: a message's initial setup is its
  only one until the hooks are there, and has none after it when it failed (`SetupInv`),
  so that a setup that has ended or failed on an open socket has a hook or is a first one
  that failed; every live consumer is the one its socket has stored, which is
  what the hook cancels (`ConsumerInv`, `HookInv`).
* `ConsumerIsSingle`: `HeardOnce`, part of `ConsumerInv`: a consumer is only kept where its
  socket had none stored for the group, and a channel that closes marks only slots whose consumer
  went with it.
* `RefinesSocketLife`: `ImplementsSocketLife`. `EverySocketLives` shows for each socket that
  a step of `GatewaySocket` is a step of its life or leaves it as it is: only `SocketClosed`
  adds unfinished cleanups, so a clean socket stays clean. `StopLives` shows that the stop
  returns at `StopAwaitsCleanups` and no earlier. Both rest on `TypeOK` and `StopInv`.

**`ReadStates_proofs`**

* `TypeCorrect`, `AcksAreRecorded`, `MarkerStaysWithin`: the three invariants, from
  `IInv`: the row an insert has met is there when it updates again, but for a
  deletion (`ConflictInv`), and an entity that will be saved had its cursor at or past its
  marker when it was found (`EntityInv`).
* `CursorForwards`: `ForwardsUnlessPatched`.
* `OnlyAcknowledged`: `NothingUnacknowledged`, with no exception for PATCHes or
  deletions. It needs the same of every entity a PATCH has found (`FoundInv`) and that mentions
  carry no message (`MentionInv`); the set of acknowledged messages only grows (`AcknowledgedGrows`).
* `RetryIsHarmless`, `CursorOrderIndependent`, `FirstRowOrderIndependent`: what clients
  that retry and servers that race rely on, about the operators themselves. Sending an
  acknowledgement again changes nothing; two upserts leave the same cursor in either
  order, on a row that is there and on one that the first of them inserts. (The marker is
  the last one written, as the code assigns it.)

**`RabbitConnection_proofs`**

* `TypeCorrect`, `AtMostOneReconnection`, `CacheIsUsable`, from `IInv`: a
  connection is open exactly while it is the current one (`CurrentInv`), and a `connect`
  that awaits its channel has the current connection, or its close has
  been handled and the retry is scheduled (`OpeningInv`) - which is why resetting `isReconnecting`
  late starts no second one.
* `RefinesBus`: `ImplementsBus`.

**Model-checked only.** The liveness properties `JobsFinish`,
`AuthenticatedOrClosed`, `ResubscribedOrClosed`, `StopEnds` and `Reconnects`:
liveness under fairness is beyond TLAPS. Every other property of a passing run is
proved.

## Simplifications

* A database statement is atomic and is one TypeORM call. Times, progress texts,
  results and error texts of jobs are left out; a runner is any sequence of context calls.
* A request that was answered is not sent again by the same entry of `req`;
  a retry after an error is (`CreateRejected`, `SaveReplyLost`).
* Cancelling a consumer takes effect at once. Events that arrive on a consumer
  already cancelled but not yet confirmed are not modelled.
* The properties of the routes count the broker's consumers. A route registered while there is
  no connection goes to the process's own emitter and counts as unheard (`"dead"`),
  although in the bundle, where everything is one process, `emitEvent` falls back to the
  same emitter (`Event.ts:83`) during the outage; `handleReconnect` forgets such a
  registration without removing it (`listener.ts:548`), so one emitter may keep
  several of a socket.
* A listen is rejected by itself, and the closing of a channel takes any of a socket's
  consumers (`ChannelClosed` of the route modules): those asked for before `opts.channel`
  was set are on the process's shared channel. On a closed channel the code's
  listens all fail; the models let each fail or succeed.
* A connection that is down when Identify starts is not modelled: both
  route modules start with the initial setup and the connection up.
* That a lost connection during the initial setup goes unheard is modelled in
  `GuildRoutes` only; `MemberRoutes` has the friends of the initial setup in
  flight and hears every reconnection.
* Lazy requests answered by the offload service (`LazyRequest.ts:195-209`)
  and sockets with only some of the guild intents are left out.
* In the route modules closing a socket is the end of its behaviour (`open`); what
  the close cleans up, and what it misses, is in `GatewaySocket`.
* `GatewaySocket` has one consumer for each of the two groups of a socket's routes, and every
  user in some guild, with the guild intents. A new broker connection and its announcement are one step, as what a setup
  asks of the broker in between is answered afterwards, and setups are numbered by the losses
  before them: the late announcement of `BusStatus`, which would begin two setups after
  one loss, is in the route modules only. The voice state, the session row and
  the offline cleanup of `Close` are one cleanup (`SessionCleaned`) that ends at some time.
* Messages after the setup, other opcodes and heartbeats change none of
  `GatewaySocket`'s state; a missed heartbeat and the client's own close are
  `HeartbeatTimeout`.
* Read states other than a channel's (`ReadStatePersistence.ts:164-177`), flags, `last_viewed` and
  the pins timestamp are left out.
* Per-route consumers carry no messages: what is delivered, and the filter by
  intents, are not modelled.

Not modelled at all, with the reasons, are the components marked so in
`PROJECT.json`: pure functions (permissions, intents, rate limit windows,
snowflakes), single requests over the database (REST routes, entities, audit), pure I/O (CDN,
connections, process start), type declarations, other programs. Three parts
have concurrency of their own and are left out so far, see the plan.

## Plan

What is next, in this order; each item is one module with its MC module, a run and proofs.

1. `SessionPresence`: sockets that share a session row, the offline cleanup ten
   seconds after a close (`Close.ts`, `Shutdown.ts:24`), `last_seen` as
   `checkToken` and the heartbeat bump it, and saves of an entity read before.
   *Proof: a session some live socket uses is not marked offline by another's cleanup.*
2. `EventBus`: `emitEvent` over the unix socket writer with backlog, replay lock and
   broadcast lock; abstract specification: a queue that delivers once, in
   order, which two emits in one turn already break.
3. `VoiceStates`: joining, moving and leaving as read, await, save on shared rows.
4. Memberships and relationships as tables beside `MemberRoutes` and
   `GuildRoutes`, for the hazards whose properties need them.

The runs stay few: a module's safety and liveness share one instance where it fits.
