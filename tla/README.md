# TLA+ models of WokiBrain

WokiBrain is a restaurant booking service: Node processes behind a load
balancer, a MongoDB-compatible database, Kafka for domain events and Redis for
caches. This directory models the parts of it that keep state (the bookings and
the lock that protects them, the search for seats, the events and what their
consumers store, webhooks, the event store, Redis locks, flags and caches,
migrations, the catalogue, and the life of a server process), model-checks them
with TLC and proves their main safety properties with TLAPS.

Paths below are relative to the repository; `CB` stands for
`src/application/use-cases/create-booking.use-case.ts`.

## Contents

| file | what it is |
|---|---|
| `Mutex.tla` | what a keyed lock promises |
| `LockService.tla` | the in-memory lock, with its invariants and its refinement of `Mutex` |
| `Seating.tla` | the pure functions from a request to a chosen seat |
| `DiscoverSeats.tla`, `MCDiscoverSeats*` | discover and the choice of create against a reference of the free seats |
| `Reservations.tla` | what the bookings collection promises |
| `Booking.tla`, `MCBooking*` | create and cancel over several processes; composes `LockService` and `Seating` |
| `EventBus.tla` | the Kafka topic, its consumer group and the handlers of each process |
| `EventWorkers.tla`, `MCEventWorkers*` | from a command's write to the read model, the audit log and the analytics; extends `EventBus` |
| `WebhookRegistry.tla` | create, update and delete of webhooks |
| `WebhookDelivery.tla`, `MCWebhooks*` | announcing, posting and retrying; extends `WebhookRegistry` |
| `EventLog.tla` | what an event store promises |
| `EventStore.tla` | the MongoDB event store, and its refinement of `EventLog` |
| `DistributedLock.tla` | the Redis lock |
| `FeatureFlags.tla` | flags and their copies in the processes |
| `Cache.tla` | `remember`, invalidation, and the invalidation worker |
| `Migrations.tla` | runs and rollbacks of migrations |
| `Catalogue.tla` | restaurants, sectors, tables and the seed, beside create calls |
| `Rooms.tla`, `MCRooms*` | WebSocket rooms and broadcasts |
| `Server.tla` | one process from bootstrap to `process.exit` |
| `MCServices*` | the lock, the seats and the webhook deliveries, checked in one run |
| `MCPlatform*` | the nine components that share no state, checked in one run |
| `LockService_proof`, `EventWorkers_proof` | the theorems about the module of that name |
| `Seating_proof` | those about the functions of `Seating` |
| `DiscoverSeats_proof`, `Booking_proof` | those about the module of that name; both rest on `Seating_proof` |
| `Webhooks_proof` | those about `WebhookRegistry` and `WebhookDelivery` |
| `Stores_proof` | those about `EventStore`, `Catalogue`, `DistributedLock`, `Cache` and `FeatureFlags` |
| `Platform_proof` | those about `Migrations`, `Server` and `Rooms`, and about the sum of the nine components in `MCPlatform` |

## The system

### Parts, state, operations, correctness

| part | state | operations | what makes it correct | here |
|---|---|---|---|---|
| Lock service (`domain/services/lock.service.ts`) | a Map from key to promise, per process | acquire with its wait loop and finally | exclusion, no lost wake-up, no entry left behind | modelled, proved |
| Booking commands (`create-`, `delete-booking.use-case.ts`, booking repository, event publisher) | bookings, idempotency keys | create, cancel | no double booking, one booking per key, durable answers, every call answered | modelled, proved |
| Seat discovery and selection (gap and WokiBrain services, value objects) | none | discover, generate and select candidates | complete, determined, available | modelled, proved |
| Booking queries | none | get, list | agree with the collection | `get` over the read model |
| Events: bus and Kafka client | handlers, consumer offsets | publish, subscribe, consume | at least once, in order per booking | modelled |
| Read model and event workers (projection, audit, analytics) | `bookings_read`, `audit_logs`, `analytics_events` | start, stop, handle | never ahead, converges, no gaps | modelled but for events nobody publishes; proved |
| Event store | events with (aggregate, version) | append | a gap-free log, one writer per version | append modelled, proved |
| Webhook registry | webhooks | create, update, delete | requests serialise, one webhook per URL | modelled, proved |
| Webhook delivery: service, queue | none that lasts | deliver, retry, enqueue | subscribers are served, retries are bounded | modelled but for the unreachable worker; proved |
| Redis lock | keys with a time to live | withLock, acquire, release | exclusion while no entry is lost | modelled, proved; not wired in `server.ts` |
| Cache and invalidation worker | cached values | remember, set, invalidate, invalidatePattern | stale values have a known cause | modelled, proved |
| WebSocket rooms | rooms of sockets | subscribe, unsubscribe, broadcast | subscribers of the consuming process hear | modelled, proved |
| Feature flags | Redis and a copy per process | get, set, delete | copies never go back | copies modelled, proved |
| Migrations | applied versions | run, roll back | what is recorded is in effect | modelled, proved |
| Restaurants, sectors, tables, seed | three collections | the admin routes, the seed | parents exist, no table booked twice by moving | modelled, proved |
| Server process | connections, listeners | start, stop on a signal | no request without a database, none cut off, shutdown ends | modelled, proved |
| Command and query buses | handler maps | execute | one lookup; nothing interleaves | not modelled |
| Auth, i18n, CDN, logging, metrics, configuration, gRPC, GraphQL | none of their own | parsing, wiring, output | – | not modelled |

### Interactions

A create call reads restaurant, sector, tables and the bookings of the day,
chooses a seat (Seating), takes a lock in its own process (LockService), reads
the bookings again, writes the booking and, with an `Idempotency-Key`, the key's
document, publishes `BookingCreated`, releases and answers. A cancel call reads
the booking, sets its status on the copy, saves it and publishes
`BookingCancelled`, without a lock. One topic carries the events, partitioned by
booking; all processes are one consumer group, and each runs the handlers of its
workers (projection, audit, analytics, cache invalidation, WebSocket) for one
message at a time. The read model they write is what `GET /bookings/:id` answers
from. Webhooks are announced by the use cases without being awaited, and posted
by the same process. Processes share the database, broker and Redis, and nothing
else: in particular not the lock map, the flag copies or the rooms.

### Hard behaviours

- between any two awaits another call of the process runs; calls of other
  processes run at any time;
- a waiter of the lock wakes to a map that may already have a new entry;
- what was read before the lock, or before an await, is stale when used: seats,
  webhooks, cached values, versions, migration records;
- a booking and its key are two writes, a migration and its record are two, a
  batch of events is many, and a process may die in between;
- a write may be applied although the call that made it failed, and the client
  retries;
- events are lost when a publication is rejected, repeated after a crash, handled
  by two processes at a rebalance, and overtaken by a faster command;
- a signal may arrive at any await of the start, and a second one during the stop.

`PROJECT.json` lists each hazard at its line, with the properties that would
catch it.

## What the modules model

### LockService, against `Mutex`

`locks` is the Map; a promise is identified by the call that stored it. `phase`
is where a call stands in `acquire`: `waiting` on the promise it found,
`woken` when that promise has resolved and its continuation is queued, `inside`
the function it passed. `Acquire` is the call up to its first await or to the
start of the function, `Retry` another turn of the `while`, `Release` the
`finally` block. `Abandon` is the death of a process. Under the refinement
mapping `inside` is the set of pairs of a call inside and its key, and
waiting and waking are stutters.

Keys are trimmed keys: `acquire` trims and refuses an empty key before anything
else happens, and no caller in the repository passes one.

`LockService` is instantiated once by `Booking`, with keys that are pairs of a
process and a name: the maps of all processes side by side.

### Seating and DiscoverSeats

The functions of `gap-discovery.service.ts` and
`wokibrain-selection.service.ts` as set operators: `GapsOfTable`
(findGapsForTable), `SharedGaps` (intersectAllGaps), `SlotsIn`
(findSlotsInGap), `Candidates` (generateCandidates), `Precedes` and
`BestCandidates` (selectBestCandidate), `Before` and `Listings` (the sorted and
cut list of discover). `GapsOfTable` keeps the order in which the code lays out
its list: the two sentinels first, then the sorted bookings. The whole window is
therefore always a gap.

Abstractions: times are minutes of one day and one time zone, the end of the day
(23:59:59) is minute 1439; scores are compared as exact fractions, where the code
compares doubles; candidates that compare equal come in the order in which the
database lists the tables, which the query leaves open, so any of them may be
first; restaurants and the reads of reference data are constants.

`DiscoverSeats` applies the functions to one request and one day: `Discover` is
the use case with its refusals in the code's order, `Choose` the choice that
create makes before it locks.

### Booking, against `Reservations`

State: `bookings` and `idempotency` are the two collections; `events` is what the
broker accepted, per booking; `pc`, `at`, `seat`, `target`, `result` are the
local state of each call; `crashes` and `faults` count against their bounds.
A request names a restaurant and a sector. Both are looked up (`Found`), the
restaurant goes into the lock's name (`LockName`), and nothing compares it with
the sector's; the restaurant written into the document is read by nobody, and is
left out.

| action | code |
|---|---|
| `Arrive` | the call reaches some process |
| `CheckKey` | CB:38-46, the key outside the lock |
| `SelectSeat` | CB:48-91, reads and the choice; refusals |
| `TakeLock` | CB:93-104 with one test of the lock's loop |
| `RecheckKey` | CB:105-112, the key inside the lock |
| `ReadLatest` | CB:114-129, the conflict check |
| `SaveBooking`, `SaveKey` | repository `save`, `saveWithIdempotencyKey` (two writes) |
| `PublishCreated` | CB:147-173; the publisher swallows a failure |
| `Finish` | the `finally` of the lock, then the answer or the error |
| `FindBooking`, `SaveCancelled`, `PublishCancelled` | `delete-booking.use-case.ts` |
| `DatabaseFails`, `AcknowledgementLost` | external: a failing call, without or with effect |
| `Crash` | external: a process dies and is replaced |

A step is the code between two awaits, with the database call it ends in.
Consecutive reads whose separate results nothing distinguishes are one step: the
reads of reference data, which does not change, and the two reads of
`findByIdempotencyKey` (a key's document, once there, leads to a booking and
neither is deleted). A write that a dying process had issued was either applied
before the crash (the write step, then `Crash`) or never is. The webhook a
command starts is not awaited and its delivery has no effect on the collections;
`WebhookDelivery` takes it up. Keys never expire: their TTL index is on a string
field (`mongodb.client.ts:136`) and MongoDB expires only dates. All reads are of
the latest data (see below for lagging replicas).

`Reservations` is the promise to the rest of the system: one step books a seat
that conflicts with no confirmed booking, or cancels a booking; nothing is
removed or rebooked. `ledger` is refined by `bookings` itself.

### EventBus and EventWorkers

`EventBus` is kafkajs and the broker as `event-bus.ts` and `kafka-client.ts` use
them: `topic` per booking, the group's `committed` offset, the `position` and
`owner` of each partition, the `handlers` registered in each process and the
message a process is handling (`task`). `fromBeginning: false` makes a group
without an offset start at the end (`Assign`); the offset is committed with the
message or with a later one (`Complete`); a process that has lost its partition
finishes its message and changes nothing.

| action of `EventWorkers` | code |
|---|---|
| `SaveBooking`, `SaveCancelled`, `Publish`, `RejectPublication` | the commands, as in `Booking`, with the write and its publication apart |
| `StartWorker` | `initializeWorkers` and `initializeWebSocketServer`, one worker after the other |
| `TakePartition`, `Receive` | the group assigns a partition; `eachMessage` |
| `Project` | the projection worker and `mongodb-booking-projection.ts` |
| `StoreAudit`, `StoreAnalytics` | the other two workers that write |
| `FailHandler` | a handler's error, swallowed |
| `Acknowledge` | `Promise.all` of the handlers has resolved |
| `StopServer`, `Exit` | `server.stop` without the database; the end of the process |

The configured handlers are the three that write to the database; the handlers of
the cache worker and of the WebSocket worker are in `Cache` and `Rooms`. `excused`
is a history variable: the workers that missed a message of a booking, or may
have run twice at once on one. The properties say that nothing else makes a view
stale or leaves a gap in the trail. A booking is cancelled once here: of two
cancellations that overlap the second writes the same status and publishes a second
`BookingCancelled`, which `Booking` has and `EventWorkers` leaves out; the projection
of that event repeats what is there, and `CountedOnce` is about each publication.
`StopServer` has two outcomes: with the
webhook worker enabled its stop also disconnects the Kafka client that all
workers share. (`docker-compose.yml` sets `WEBHOOK_WORKER_ENABLED` to `'false'`,
which `z.coerce.boolean` at `config/env.ts:33` reads as true.)

### WebhookRegistry and WebhookDelivery

Each request of the registry is a read and a write (`CheckUrl`, `FindHook`,
`FindDoomed`, then `SaveNew`, `SaveHook`, `DeleteHook`), on a copy of the webhook.
`serial` is a history variable: the webhooks as they would be if each write
changed only what its request names; `overlapped` are the webhooks with requests
that overlapped. Delivery is `DeliverEvent` (`findByEvent` and one delivery per
webhook) and `Post`: 4xx (`client_error`) and 5xx, timeouts and network errors
(`failed`) are retried, other statuses and errors are not. With Kafka a delivery is enqueued, which always throws, because
the message has no `version` (`kafka-client.ts:85`); the worker behind the queue
can therefore receive nothing, and is not modelled.

### EventStore, against `EventLog`

`appendEvents` as `Check` (findOne and comparison) and one `Insert` per event of
the ordered `insertMany`, beside other calls; `EnsureIndex` is the index that the
constructor requests and does not await. Callers are external: nothing under
`src/` appends, so a caller is anyone who loads a version and appends to it.
`EventLog` promises, per aggregate, slots 1, 2, ... that only grow at the end,
with one writer per slot once the log is strict; it is refined by the writers of
each version and by `indexed`.

### DistributedLock, Cache, FeatureFlags

The three users of Redis, command by command. Entries with a time to live may
expire at any time. In `DistributedLock`, `stray` are the calls that run without
their entry and `late` those that lost it to time: `release` deletes the entry of
the key, whoever's it is. In `Cache`, `remember` is three awaits (`Miss`,
`Compute`, `Store`) and `invalidatePattern` two (`FindKeys`, `DeleteFound`), and
the invalidation worker deletes names without the prefix (`WorkerDeletes`). In
`FeatureFlags` a process has one connection, so that its commands are executed,
and their callers resume, in the order they were sent.

### Migrations, Catalogue, Rooms, Server

`Migrations`: `Plan` reads what is pending; `RunUp` and `Record`, `RunDown` and
`EraseRecord` are separate awaits, and `Kill` may come between them. `Catalogue`:
the admin routes look a parent up and then upsert, so that creating a sector or a
table again moves it; the seed writes its documents one by one; create calls
select, lock, check and reserve meanwhile, for one start time. `Rooms`: rooms of
the sockets of each process; an event is broadcast, by a process that consumes it, to
the rooms its payload names (`PayloadRooms`), which for a cancellation are none of
those of its booking (`BookingRooms`).
`Server`: `boot` walks through `initialize` and `start`, `stopping` through `stop`
for each signal; `app.close` waits for requests and for WebSocket clients, and a
second signal meets a Redis client that refuses to quit twice.

## What the runs check

| run | expected | bounds | shows |
|---|---|---|---|
| `services` | pass | below | below |
| `slot` | pass | 3 creates for one table, 1 cancel, 1 process, 1 crash, 1 fault | `NoDoubleBooking`, `CheckedSeatStaysFree`, `ImplementsReservations`, `CallsAreAnswered` |
| `calls` | pass | 2 processes, 1 crash, 1 fault; a create, its retry, a refused create and 1 cancel, or 3 creates that name 2 restaurants, 2 table sets and 2 starts | `DoubleBookingsHaveACause`, `KeyRepeatsHaveACause`, `RefusalsLeaveNothing`, `KeysLeadToBookings`, `AnswersAreDurable`, `EventsFollowWrites` |
| `events` | pass | 1 booking created and cancelled, 2 processes, 3 workers, 1 failure, 1 end of a process, 1 rebalance | `ViewIsNeverAhead`, `StaleViewsHaveACause`, `TrailHasNoGaps`, `CountedOnce`, `EventsAreConsumed` |
| `platform` | pass | below | below |
| `seats_chosen` | violation | as `DiscoverSeats` below | the chosen seat may be booked already |
| `ownkeys` | violation | 2 creates with different keys, 1 process | a double booking |
| `crashkey` | violation | a create and its retry, 1 crash | two bookings for one key |
| `events_get` | violation | as `events`, without failures | a projected booking cannot be read |
| `webhooks_4xx` | violation | as `WebhookDelivery` below | a 4xx answer is followed by another post |
| `webhooks_kafka` | violation | as `WebhookDelivery` below | with Kafka no webhook is called |
| `rooms` | violation | 2 processes, 1 socket, a creation and a cancellation | a subscriber hears of neither |

The runs `services` and `platform` are sums: in each of their behaviours one
component moves and the others rest, so their states are those of the components
side by side, not multiplied. The three of `services`:

| component | bounds | properties |
|---|---|---|
| `LockService` | 3 callers, 2 keys | `MutualExclusion`, `MapMatchesHolders`, `WaitersAreWoken`, `ImplementsMutex` |
| `DiscoverSeats` | 29 requests, every conflict-free set of 5 bookings, 3 tables | `RefusedOnlyWhenFull`, `ChoiceIsDetermined`, `ShownSeatsIncludeTheBest` |
| `WebhookDelivery` | 2 webhooks, 2 URLs, 1 request, 1 event, 3 posts, 1 death, with and without Kafka | `RetriesFollowFailures`, `SubscribersAreServed` |

The nine of `platform`:

| component | bounds | properties |
|---|---|---|
| `EventStore` | 1 aggregate, 3 calls of 2, 1 and 2 events, with the index or before it | `AppendsAreWhole`, `ImplementsEventLog` |
| `DistributedLock` | 3 calls, 2 keys | `OverlapNeedsLostEntry` |
| `FeatureFlags` | 2 processes, 3 changes, 2 commands in flight each | `CopiesNeverGoBack` |
| `Cache` | 2 readers, 4 versions of one value | `StaleEntriesHaveACause` |
| `Migrations` | 3 migrations, 3 runners, 1 rollback | `RecordedAreEffective` |
| `WebhookRegistry` | 2 webhooks and URLs, 2 requests | `RequestsAreSerial` |
| `Server` | 2 requests, 1 WebSocket client, 2 signals, 1 failing connection | `CutRequestsHaveACause`, `ShutdownEnds` |
| `Rooms` | 2 processes, 2 sockets, 2 rooms, 2 events | `SubscribersHear` |
| `Catalogue` | 2 restaurants, sectors, tables, admin requests and create calls | `DoubledTablesHaveACause` |

`slot`, `events` and `platform` check a type invariant as well, `services` those of
the lock and of the seats.

Why the bounds are enough for the cases of interest: the lock needs a holder, a
waiter and a call that takes the key between the waiter's wake-up and its next
test, hence three; a second key lets two locks be held at once. The booking runs
have two creates for every race between a check and a write, and a third where a
waiter can be overtaken; one crash or one fault at any step covers each single
failure, and a retry after it. The windows are short so that seats collide.
`CallsNext` bounds the run `calls` to calls of one sector: in the first a call, its
retry and a cancellation meet, and in the second each of restaurant, tables and
start makes locks of conflicting calls differ, within a process too. The
seats have single tables, combinations of two and three, exact fits at both
ends of a gap, ties between a single table and a combination, a window off the
15-minute grid, an empty sector and an unknown one. Bookings are independent on
the bus (a partition of its own each, handlers that touch one booking), so one
booking with two events shows every order of two events; two processes are what
a rebalance or a takeover after a crash needs. Two registry requests overlap, and
a third would only meet what two can leave. Three lock calls have one that
outlives its entry, one that takes it and one that finds it deleted; three calls
of the event store have a batch that fails half-way on another's event and one
that builds on what it left; three runners leave a dead one, a late one and a
rollback's victim.

Every cfg sets `CHECK_DEADLOCK FALSE`; that calls of the lock are never all stuck is
`WaitersAreWoken`. A finite set of calls,
requests, events or migrations ends, and what remains waits for the next one; a
server process that has exited does nothing.

### Fairness

- `LockService!Fairness`: Node runs every queued continuation (`Retry`), and the
  functions passed to `acquire` finish (`Release`), since they await only database
  and broker calls, which return or throw.
- `Booking!Fairness`: weak fairness of each create and each cancel call as a
  whole, for the same reason. Arrivals, faults and crashes are never fair. A
  waiter is promised to be woken, not to enter: under an endless stream of calls
  for one key it can be overtaken for ever, and the code does nothing against
  that. `CallsAreAnswered` concerns finite load, in which overtaking ends.
- `EventWorkers!Fairness`: publications and handlers await calls that return or
  throw; a running process starts its workers and goes on to its next message;
  the group assigns a partition nobody has; a process that has disconnected its
  database goes on to exit. Nothing makes a command run, or a process end.
- `WebhookDelivery!WebhookFairness`: the database answers, and `fetch` answers or
  is aborted after its ten seconds (`webhook.service.ts`).
- `Rooms!RoomsFairness`: each event is consumed by some process of the group. Which
  one is the broker's choice; that a second does as well is not assumed.
- `Server!ServerFairness`: every await of the start, of a stop and of a request
  returns or throws. WebSocket clients need not ever leave, which is why
  `ShutdownEnds` excepts them: `stop` does not close the WebSocket server.

### What the violations say

Each is a disagreement between the code and a sentence of its documentation,
quoted under `findings`.

`ownkeys` shows one of four sides of a common cause: the lock name
does not cover what conflicts. With an `Idempotency-Key` it names the key and not the
tables; without one it names the restaurant of the request, which may be another than
the sector's; it is private to a process (`server.ts:179`; `README.md:1150` speaks of Redis
locks, which are not wired); and it names the exact start and the exact set of
tables, so that overlapping seats with different starts, or {t1} and {t1, t2},
use different locks (`lock.service.ts:53`). `DoubleBookingsHaveACause`
says that two bookings of one table come from different locks and from nothing
else; `LockCoversConflicts` is the condition that is missing, and
`FixedSittingsBookOnce` below says which deployments and requests meet it.

`crashkey` is a booking without its key, `events_get` a date that went through
JSON and is no `Date` any more, `webhooks_kafka` a message without a version,
`seats_chosen` a list of intervals that is walked as if it were sorted.

`webhooks_4xx` concerns `README.md:604` and `:671`: 4xx answers are retried like 5xx
ones. `RetriesFollowFailures` leaves open whether a 4xx is final and states what code
and documentation agree on, with the limit of `README.md:597`.

`rooms` concerns `asyncapi.yaml:9`, `:24` and `:150`. An event is sent to the sockets
of the process that consumes it, not to all subscribers, and a cancellation names no
room, so nobody hears it. `SubscribersLearnOfBookings` follows from either promise,
and its counterexample breaks both: the creation is consumed elsewhere, the
cancellation by the subscriber's own process. `SubscribersHear` is what remains: a
broadcast reaches the sockets of its process that subscribe to a room it names, and
nobody without a subscription for the booking.

Further disagreements met on the way, for which there is no run:

- `openapi.yaml:12` and `README.md:1087` have the lock prevent double bookings; two
  creates of one process that name two restaurants for one sector, one table and one
  start take two locks and both book (CB:48-53, `lock.service.ts:53`). `calls` and
  `platform` reach these double bookings and accept the restaurants as their cause.
- `README.md:602` lists a fourth post after the third retry, where `:597` and the
  code stop at three; `:661` has no retries without Kafka, where the code retries
  (`webhook.service.ts:168`).
- `README.md:1115` prefers a single table at equal scores; the comparator
  (`wokibrain-selection.service.ts:31`) prefers the combination.
- `openapi.yaml:429-430` answers 409 to a second cancellation; two that overlap
  both succeed (`delete-booking.use-case.ts:18`).
- `openapi.yaml:338` lists the refusal of a window outside service hours for
  create, which never compares them; only discover does.
- The comment at `cqrs-projection-worker.service.ts:79` leaves retries to Kafka;
  the swallowed error commits the message, so there are none. For the same reason
  the audit trail of `README.md:877` and `:1146` is not complete.
- `README.md:1151` has read models rebuilt from the event store, which nothing
  fills.

## What is proved

For every value of the constants that satisfies the named assumptions of the
modules that declare them. They say that a null value (`None`, `NoOne`, `Nobody`, `Missing`,
`NoHook`, `Absent`, `Nowhere`) is no value of the system; that bounds are numbers;
that asks, bookings, capacities, keys, streams, rooms and sizes have their types;
that the tables are finitely many (`SeatingAssumption`); that a request has whole
minutes and a whole party (`DiscoverAssumption`); and that the three workers that
write to the database are among those a process may start, in any order
(`WorkersAssumption`). TLC evaluates them in the runs.

| theorem | statement |
|---|---|
| `LockService_proof!Typing` | `Spec => []TypeOK` |
| `HoldersInvariant`, `MutualExclusionHolds`, `NoLostWakeupHolds` | `Spec => []` of `MapMatchesHolders`, `MutualExclusion`, `NoLostWakeup` |
| `Implementation` | `Spec => ImplementsMutex` |
| `Booking_proof!Typing` | `Spec => []TypeOK` |
| `OneCallPerLockHolds` | `Spec => []OneCallPerLock` |
| `DoubleBookingsHaveACauseHolds` | `Spec => []DoubleBookingsHaveACause` |
| `CheckedSeatStaysFreeHolds` | `Spec /\ []LockCoversConflicts => []CheckedSeatStaysFree` |
| `NoDoubleBookingHolds` | `Spec /\ []LockCoversConflicts => []NoDoubleBooking` |
| `ReservationsImplemented` | `Spec /\ []LockCoversConflicts => ImplementsReservations` |
| `LockCoversAlignedChoices`, `AlignedChoicesBookOnce` | with one process, no keys and one restaurant named with each sector, `Spec /\ []ConflictsAlign` gives `[]LockCoversConflicts` and `[]NoDoubleBooking` |
| `FixedSittingsBookOnce` | under conditions on the constants alone, `Spec` gives `[]NoDoubleBooking`, `[]CheckedSeatStaysFree` and `ImplementsReservations` |
| `RetriesBookOnce` | with one process, `Spec => [](crashes = 0 /\ faults = 0 => OneBookingPerKey)` |
| `SeatsIgnoreBookingsHolds` | `Spec => []SeatsIgnoreBookings`: a call tries a seat of an empty day |
| `RefusalsAreTrueHolds` | `Spec => []RefusalsAreTrue`: the reason of each refusal is so |
| `KeysLeadToBookingsHolds`, `AnswersAreDurableHolds`, `RefusalsLeaveNothingHolds`, `EventsFollowWritesHolds`, `KeyRepeatsHaveACauseHolds` | `Spec => []` of each, without hypotheses |
| `Seating_proof!ChoiceIgnoresBookings` | the best candidates of a request are the same for any two days' bookings |
| `CapacityIgnoresBookings` | there is no candidate exactly if no set of tables seats the party or the window is too short |
| `DiscoverSeats_proof!SeatTyping` | `SeatsSpec => []SeatsTypeOK` |
| `RefusedOnlyWhenFullHolds`, `ChoiceIsDeterminedHolds`, `ShownSeatsIncludeTheBestHolds` | `SeatsSpec => []` of each |
| `EventWorkers_proof!Typing` | `Spec => []TypeOK` |
| `ViewIsNeverAheadHolds`, `StaleViewsHaveACauseHolds`, `TrailHasNoGapsHolds`, `CountedOnceHolds` | `Spec => []` of each |
| `Webhooks_proof!RequestsAreSerialHolds`, `SharedUrlsHaveACauseHolds` | `RegistrySpec => []` of each |
| `RetriesFollowFailuresHolds` | `WebhookSpec => []RetriesFollowFailures` |
| `DeliveriesLeaveTheRegistry` | `WebhookSpec => RegistrySpec` |
| `Stores_proof!OverlapNeedsLostEntryHolds` | `LeaseSpec => []OverlapNeedsLostEntry` |
| `TimelyCallsKeepEntriesHolds`, `TimelyCallsExclude` | while no call outlives its time to live, no entry is lost and the lock excludes |
| `StaleEntriesHaveACauseHolds` | `CacheSpec => []StaleEntriesHaveACause` |
| `CopiesNeverGoBackHolds` | `FlagSpec => CopiesNeverGoBack` |
| `VersionsHaveNoGapsHolds`, `VersionsAreUniqueHolds`, `AppendsAreWholeHolds` | `StoreSpec => []` of each |
| `LogImplemented` | `StoreSpec => ImplementsEventLog` |
| `ParentsExistHolds`, `DoubledTablesHaveACauseHolds` | `CatalogueSpec => []` of each |
| `Platform_proof!RecordedAreEffectiveHolds`, `RecordedInOrderHolds`, `SuccessMeansAllHolds` | `MigrationSpec => []` of each |
| `RequestsHaveADatabaseHolds`, `CutRequestsHaveACauseHolds` | `ServerSpec => []` of each |
| `SubscribersHearHolds` | `RoomsSpec => SubscribersHear` |
| `ComponentsBehave` | `MCPlatform!Spec` implies the specification of each component but the server |
| `PlatformTyping`, `PlatformSafety` | `MCPlatform!Spec` implies the nine type invariants and the run's ten safety properties |
| `LeaseTyping`, `CacheTyping`, `FlagTyping`, `StoreTyping`, `CatalogueTyping`, `RegistryTyping`, `ServerTyping`, `RoomsTyping` | type correctness |

**The lock.** `MutualExclusion` is not inductive: what keeps a second call out
is the map. The invariant is `LockInv`: every call inside owns the entry of its
key and every entry belongs to a call inside (`MapMatchesHolders`), a waiter's
promise is one of those (`NoLostWakeup`), and a call has a key exactly when it
is in `acquire` (`PendingCallsHaveKeys`). Each action is taken through each part.

**The bookings.** Four layers, each resting on the one before:

1. `Formed`: types, and what each step presupposes (a call past the choice has a
   seat, a call past the lock has a process, a cancel call past its read has a
   booking to cancel, and so on).
2. Every step of `Booking` is a step or a stutter of `LockService` (`LockSpec`),
   so the lock's theorems hold of the lock inside `Booking`.
3. `LockLink` ties `pc` to the lock's `phase`: a call in its critical section is
   `inside` its process's lock under `LockName`. With the lock's exclusion this
   is `OneCallPerLock`.
4. `LockedSavesAreFree`: a booking that conflicts with the seat of a call at `save`
   was made under another lock. The call has seen its seat free, another call books
   only from `save`, and by 3 two calls at `save` with one lock are one call. So a
   write conflicts with bookings of other locks only (`DoubleBookingsHaveACause`),
   whatever the requests, the processes and the failures are.

Where the lock covers every conflict (`LockCoversConflicts`), other locks are none:
the seat found free stays free, no table is booked twice, and each write maps to a
`Book` of `Reservations`. The code does not ensure this condition, and the runs
`ownkeys` and `calls` reach double bookings when a part of it fails. Which deployments and
loads meet it is proved in two steps. `LockCoversAlignedChoices`: one process, no
idempotency keys, one restaurant named with each sector (`OneRestaurantPerSector`,
which the clients must see to, since the code does not), and conflicting requests that choose the same tables and start
(`ConflictsAlign`). That is still about choices; but by `SeatsIgnoreBookings` a
choice depends on the request alone, it starts with the asked window, and its tables
seat the party. Hence `FixedSittingsBookOnce`, whose conditions are about constants:
one process, no keys, one restaurant named with each sector, stays in a sector that
overlap start together, and sets of
tables that seat the parties are equal or disjoint. (Tables for two to four meet the
last one when parties are of two or three: two tables together seat four at least.)
The constants of the run `slot` meet them all, and there TLC finds the same
conclusions without the theorem.

The other properties of `Booking` need no hypothesis. `CallsRecorded` says, for each
create call, what stands in the collection when it is at a step and when it has
an answer: a call past `save` has its booking, a refused one has none, a replayed
one names a stored booking with its key. `Announcing` adds that a cancel call about
to publish has cancelled. `KeyLedger` is what makes a repeated key traceable: a
booking made with a key is either followed by the key's document, about to be, or
of a call that died or failed; hence a call that has looked the key up under the
lock and found nothing knows that of every booking with its key in its process.
With `FailuresLeaveTraces` (a call dies only in a crash and errs only after a failed
call) this gives `RetriesBookOnce`.

`RefusalsAreTrue` compares each refusal with what it claims. The refusals before the
lock are functions of the request, by `CapacityIgnoresBookings` even "no capacity";
a conflict names a booking that can be cancelled later but never disappears. A day
that is full is therefore never answered with "no capacity".

**Seat selection.** The answers are functions of the request and the day's bookings
(`AnswersInv`), so the theorems are about those functions, for any finite set of
tables, any capacities and windows:

1. A combination's capacity is a sum over a set, defined by recursion. Its
   existence and uniqueness are shown by induction over the naturals, stated as a
   fact about a set of naturals (`EveryNumber`), which needs no operator parameter:
   `SumHasUnfolding`, `UnfoldingIsUnique`, `SumOfSizes`.
2. `GapsLieInWindow`, `SharedGapsLieInWindow`, `SlotsLieInGap` bound what is
   generated, and say which slots must be there; together `CandidatesFit` and
   `EverySlotIsACandidate`. The second rests on the whole window being a gap of
   every table: no candidate is missed because the sentinels come first, which is
   also why a candidate may be booked already (`seats_chosen`).
3. Scores are fractions, compared by cross products. `Ratios` makes them an order,
   so `Precedes` is irreflexive and transitive (`PrecedesIsAnOrder`), a finite set of
   candidates has a best one (`BestExists`), two best ones agree in all that is
   compared (`BestAreAlike`), and the list of discover, sorted by another
   comparator, holds one that scores as high (`ListingsHoldTheBest`).
4. A score does not depend on the start, and every set of tables that seats the
   party has a candidate at the start of the window, whatever is booked
   (`TablesAreTriedFirst`). A best candidate therefore starts the window
   (`BestStartsTheWindow`) and stays the best when the bookings change
   (`BestStaysBest`): the bookings that create reads before it chooses have no part
   in the choice. This is the cause behind `seats_chosen`.

**The event workers.** `WorkersOK`: types; a committed offset is no further than what
was handled, and the owner of a partition handles its next message (`Offsets`);
each event of a command is on the topic once, rejected or still to be sent, exactly
when its write is stored (`Ledger`). On top of it one invariant per consumer, for each
booking: `TrailOf` (the audit trail has what is consumed and what the worker is done
with), `ViewOf` (the read model shows the events up to the last one consumed, or the
one being handled, in their order) and `CountsOf` (an event is counted once at most, and
only when analytics are done with it). The first two are conditional on `excused`, the last on
no exit and no rebalance: that they are nevertheless kept by a partition's change of
hands is what the proofs are about.

**The Redis lock.** `LeaseInv`: types, an entry belongs to a call that runs under
its key unless that call has lost it (`EntriesFollowRuns`), and the first entry to
be lost is lost to time (`TimelyCallsKeepEntries`). The exclusion of calls that end
in time follows from the two.

**The event store.** `StoreInv`: types, versions are positive, without gaps and,
with the index, unique; a call that has checked builds on a log that reaches at
least to its version (`CallsBuildOnTheLog`) and what it says it has inserted is
there (`CallsKeepCount`). The third is what makes the next `Insert` leave no gap even
when two calls raced. The refinement then takes each `Insert` to a `Write` of the
slot it extends or shares, `EnsureIndex` to `Seal`, and all else to a stutter.

**The registry.** `RegistryInv`: besides the property itself, the copy of a request
on a webhook without overlap is still what is stored (`CopiesAreFresh`), there is
one such request (`OneWorker`), ids are used once (`OnlyIssued`), and a URL that
nobody contested is exclusive among webhooks and creations (`UrlsAreExclusive`).

**Migrations.** `MigrationInv`: while runs and rollbacks are not mixed, a rollback is
alone (`RollbacksAreAlone`), what a runner has to do is a tail of the list that
covers what is not recorded (`PlansAreTails`), what it is about to record is in
effect (`UpsComeFirst`), what a rollback undoes is the last record
(`TargetsAreLast`) and all before it stays in effect (`RestIsEffective`).

**The catalogue.** `CatalogueInv`: what requests under way have looked up still
exists (`AdminsKnow`, `GuestsKnow`), an unmoved table's bookings and holders are in
its sector (`BookingsInPlace`), one seat has one holder of its lock
(`LockExcludes`), a seat found free under its lock is not taken until it is
reserved (`CheckedStaysFree`), and so no two create calls book one seat
(`SeatsDiffer`). A seat is restaurant, sector and table: two bookings of one table
that differ in the sector have seen it moved, and the other two causes are the
remaining ways to differ.

**The cache.** `CacheInv`: a value computed and older than the database's has been
straddled by a change, and an entry that was not is still going to be found by the
invalidation of every later change.

**The flags.** `FlagInv`: the commands of a process are executed in the order sent, so
that the values its callers wait for never decrease (`CommandsInOrder`), its copy is
no newer than any of them, and none is newer than Redis (`SeenBy`).

**Webhook deliveries.** `DeliveryInv` counts the posts of each delivery by where it is:
all answers but the last are failures or 4xx, and one under way has posts left. The
registry's variables are never touched (`DeliveriesLeaveTheRegistry`), so the
registry's theorems hold of the whole.

**The rooms.** `RoomsInv`: a socket has been told exactly of the rooms it is in, so
that a broadcast to rooms is one to subscriptions.

**The server.** `ServerInv`: past `connect` the database is connected or the
application is closing (`DatabaseOrClosing`), requests are open only where they can
be served (`RequestsAreServed`), and Redis is closed only by a signal's stop
(`RedisClosedBySignal`), so that a second refusal takes a second signal.

**The sum.** In `MCPlatform` one component moves and the others rest. A component at
rest is in its initial state and stutters, so that the sum implies its specification
(`ComponentsBehave`) and its theorems carry over. The server is the exception: it
rests in the state of a process that has exited, and its invariant is proved of the
sum directly.

### Only model-checked

Liveness (`WaitersAreWoken`, `CallsAreAnswered`, `EventsAreConsumed`,
`SubscribersAreServed`, `ShutdownEnds`), which is out of the prover's reach, and the
seven violations, which are counterexamples. Every other property of a run is stated
by a theorem, `NoDoubleBooking`, `CheckedSeatStaysFree` and `ImplementsReservations`
under the conditions above, which the code does not provide for all deployments.

Conversely some invariants are proved without being a run's property, since their
component is in a run through a stronger one: `NoLostWakeup`, `OneCallPerLock`,
`VersionsHaveNoGaps`, `VersionsAreUnique`, `TimelyCallsKeepEntries`, `RecordedInOrder`,
`SuccessMeansAll`, `ParentsExist`, `RequestsHaveADatabase`, `SharedUrlsHaveACause`,
`SeatsIgnoreBookings`, `RefusalsAreTrue`.

## Not modelled

- The lag of replicas. `mongodb.client.ts:52` prefers secondaries for DocumentDB;
  a read inside the lock may then miss the last write. The code bounds no lag, so
  with it `CheckedSeatStaysFree` simply does not hold.
- `webhook-worker.service.ts` and the webhook event listener: no message can reach
  the one, and nothing constructs the other.
- `BookingModified`, `publishBatch`, `rebuild`, the projection's list, `appendBatch`,
  snapshots and replay: they have no caller outside the tests, or are loops over
  what is modelled.
- The list queries, the health, metrics and docs routes: they read and answer.
- The rollout decision of `isEnabled`, a pure hash of a user and a flag.
- The command and query buses: one lookup in a map per call, nothing to interleave.
- gRPC and GraphQL are not wired by `server.ts`; the gRPC handler of a cancellation
  answers without cancelling anything.
- Authentication, rate limits, i18n, CDN, logging, metrics, and the reading of the
  environment. Times are minutes of one day in one time zone, while
  `gap-discovery.service.ts:94` uses the server's zone.

## Plan

1. `EventBus` against an abstract log with at-least-once delivery, as a refinement
   that `EventWorkers` and other consumers could rest on.
2. Overlapping cancellations in `EventWorkers`, with events told apart by their ids.
3. `Booking` with reads that lag, if a bound on the lag is ever stated.

## Running

    tlc -workers 2 -config MCBooking_slot.cfg MCBooking
    tlc -workers 2 -config MCPlatform.cfg MCPlatform
    tlapm Booking_proof.tla

The longest runs are `calls` and `events` (about two minutes each), then `slot` and
`services`; the others take less than a minute.
