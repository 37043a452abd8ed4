# Formal models of the GNSS system backend

TLA+ models of the NestJS backend in `src/src`: modules that TLC checks on small
instances and theorems that the TLA+ proof system (TLAPS) proves for every value
of the constants. Line numbers are in `PROJECT.json` ("map" for the definitions,
"hazards" for the places where the code is hard to test).

## 1. The system

Devices report over MQTT; the backend forwards each report to Kafka, consumes it
again, stores it in PostgreSQL (TimescaleDB, PostGIS), keeps short-lived state in
Redis and shows changes to browsers over WebSockets. Users work over HTTP. It is
one Node process: one thread, but every `await` is a point at which any other
handler may run, and nothing but the database, Redis and Kafka survives a restart.
No handler wraps several calls in a database transaction or takes a lock around a
read and its write.

| component (`src/src/...`) | state | operations | talks to | what is hard, and what makes it correct |
|---|---|---|---|---|
| Telemetry ingestion: `services/mqtt/mqtt.service.ts`, `services/kafka/kafka.service.ts`, `modules/telemetry` | topic log, group offsets, `telemetry` rows, checks in memory | forward, read a batch, save it in one INSERT, spawn checks, commit, rejoin | Kafka, PostgreSQL, gateway, the three checks | crash or refused commit between INSERT and commit, one bad row failing the batch, `fromBeginning: false`; nothing committed is unaccounted for, duplicates only by redelivery |
| Speeding check: `modules/telemetry/telemetry.consumer.ts` | Redis keys `device:limit:*`, `speeding:*` | read or cache the limit, read the cooldown, alert, set the cooldown | Redis, devices, alerts | un-awaited checks overlap, Redis reads answer null on error, cached limit never invalidated; alerts per cooldown cycle are bounded |
| Geofence check: the same file and `modules/geofences` | `geofence_device_state`, assignments, types, polygons, cooldown keys | evaluate transitions, alert, assign, retype, redraw | PostGIS, Redis, alerts | presence saved before alerts, checks out of order, polygons lost at boot; every entry into violation is answered once |
| Route plans: `modules/route-plans/route-plans.service.ts` | `route_plans` rows and geometry | create, activate, complete, cancel, remove | PostGIS, routing provider | several statements per request, guards checked only before them; at most one ACTIVE plan per device, with geometry |
| Route deviation check: `modules/route-plans/route-deviation.service.ts` | Redis keys `trajectory_deviation:*` | find the active plan, compare, alert, cooldown | PostGIS, Redis, alerts | reads plans while requests change them; alerts only for a plan that was active |
| Device status: `modules/device-status` | `device_status` rows, a timer | heartbeat upsert, sweep every 60 s, default row on a status request | Kafka, gateway | three writers that read, wait and save; the row shows the last heartbeat, or OFFLINE after a silence |
| Alerts and their snapshots: `modules/alerts`, `modules/media-logs/media-logs.consumer.ts` | `alerts`, `media_logs`, two topics and groups | consume an alert, consume an image, confirm an upload, resolve | Kafka, storage, mail, gateway | alert and image arrive in either order and look for each other once; copies saved late; a pair ends up linked, and no message is lost silently |
| Media logs and storage: `modules/media-logs`, `services/storage` | `media_logs` rows, objects of the bucket, optical-flow jobs | upload, confirm, analyse, take a result, delete, sweep orphans daily | S3-compatible store, Kafka, a worker outside | the sweep against a confirmation, late results, deletions in several calls; a visible row leads to an object |
| Live streams: `modules/live-streams`, `services/mqtt`, `services/media-server` | a session key in Redis, the path of the media server | start, stop, status from the device, expiry | MQTT, HTTP | the session is read and written as a whole around HTTP calls; READY means there is a path |
| Users and registration: `modules/users`, `modules/auth` | `user` rows, pending session, attempts and rate counters in Redis | register, resend, verify, sign up through better-auth | Redis, mail, better-auth | counters read and written by two calls, account inserted and activated by two more; the mailed code works, guesses are bounded |
| Rate limit: `commons/guards/rate-limit.guard.ts` | a counter per route and client in Redis | count a request, let it pass or refuse it | Redis | INCR and EXPIRE are two calls |
| Devices, credentials, groups: `modules/devices`, `modules/device-groups`, `services/mqtt` | `devices` rows with the MQTT password hash, `device_groups` | create, update, regenerate, remove, list by pages, assign, answer the broker's authentication callback | EMQX, PostgreSQL | rows read by one query and saved by another; a password a response carried works |
| Geofence administration: `modules/geofences` | `geofences`, their polygons, `device_geofence` | create, update, assign, unassign, remove | PostGIS | lists of devices saved as read |
| What users read: the `find*` operations, `modules/dashboard`, statistics | none | list, open, count | PostgreSQL | a page and its total, a list and its detail endpoint, and the figures of a dashboard are separate queries |
| Gateway: `gateways/gnss.gateway.ts`, `commons/guards/ws-auth.guard.ts` | sockets, rooms, the user found once per socket | connect, subscribe, unsubscribe, join, broadcast | browsers, better-auth | memberships outlive what they were checked against, messages of one socket overlap |
| Kafka service, Redis service, mail: `services/kafka`, `services/redis`, `services/mail` | consumers, offsets; keys with a time to live | produce, consume per message or batch; get, set, expire; send | Kafka, Redis, SMTP | modelled where they are used |

The routing provider client (one HTTP request), DTOs, entities, migrations, logging
and configuration keep no state that several actors change in steps; `PROJECT.json`
lists them with that reason.

## 2. The modules

| module | models | checked by |
|---|---|---|
| `TelemetryIngest` | from an MQTT point to the committed offset | `MCTelemetryIngest` |
| `SpeedCheck` | `checkSpeedViolation`, call by call | `MCSpeedCheck` |
| `GeofenceMonitor` | `checkGeofenceViolation` and `evaluateGeofenceTransitions`, call by call | `MCGeofenceMonitor`, two configurations |
| `GeofenceEdge` | what geofence monitoring promises: an abstract edge-triggered monitor | refined by `GeofenceMonitor` |
| `RoutePlans` | `RoutePlansService`, statement by statement | through `RouteDeviation` |
| `RouteDeviation` | `checkDeviation`, call by call, composed with `RoutePlans` | `MCRouteDeviation` |
| `DeviceStatus` | heartbeats, the offline sweep and the default row | `MCDeviceStatus` |
| `AlertPipeline` | alerts and snapshots through two topics, `resolve`, dead letters | `MCAlertPipeline` |
| `MediaLibrary` | objects, rows and optical-flow jobs | `MCMediaLibrary` |
| `LiveStream` | the session of a stream between requests and the device | `MCLiveStream` |
| `Registration` | signing up one address, with its rate limits and the sign-up hook | `MCRegistration` |
| `Fleet` | devices, credentials and groups of a user under concurrent handlers | through `Zones` |
| `Zones` | geofences and their assignment by the same handlers; extends `Fleet` | `MCFleet` |
| `Readers` | lists, detail endpoints, dashboard | through `Viewers` |
| `Viewers` | the WebSocket gateway over the rows of `Readers`, which it extends | `MCViewers` |
| `TelemetryProofs` | theorems of `TelemetryIngest` and `SpeedCheck` | TLAPS |
| `GeofenceMonitorProofs`, `AlertPipelineProofs`, `RegistrationProofs` | theorems of the module each extends | TLAPS |
| `RouteProofs` | theorems of `RoutePlans` and `RouteDeviation` | TLAPS |
| `MediaProofs` | theorems of `LiveStream` and `MediaLibrary` | TLAPS |
| `FleetProofs` | theorems of `Fleet`, `Zones` and `DeviceStatus` | TLAPS |
| `ViewersProofs` | theorems of `Readers` and `Viewers` | TLAPS |

Conventions. An action is one uninterrupted stretch of the code: it starts after
an `await` and ends at the next one, so a handler is a chain of actions and
anything may happen between two of them. A record per slot (`chk`, `req`, `job`,
`handler`, `request`, `call`) holds the call a handler is about to make and its
local variables; the number of slots is how many handlers may overlap. Failing
calls are actions or disjuncts of their own, bounded by `MaxFaults` or
`MaxOutages`. Times are ticks, or a flag where only "old enough" matters; a Redis
key holds the ticks it has left and 0 means it is absent. TypeORM's `save` is
modelled by what version 0.3.28 does: it reads the row again, writes only the
columns in which the copy differs, and inserts the row when it is gone. Variables
called history are read by properties only. A definition whose comment begins with
"Mutant of" is a plausible bug in the definition after it, used to see that a
property can fail; no specification uses one. Every module has one `TypeOK`
(`SpeedTypeOK`, `DeviationTypeOK`, `StatusTypeOK`, `MediaTypeOK` where a module of
proofs extends two of them); it was checked on the instance of the module's run,
is proved, and stands in no configuration.
`ChecksFollowSave` and `StoredWasBroadcast` of `TelemetryIngest`,
`SuppressionHasAnAlert` of `GeofenceMonitor` and the bounds that theorems derive
from an account are likewise stated without a run of their own; all are proved
(section 4).

### TelemetryIngest

`log`, `committed` and `position` are the topic, the group's offsets and the
running consumer's place. `batch` is the state of `handleBatch`: `ReadMessage` is
one turn of its loop (broadcast of a valid point), `SaveBatch` or `SaveBatchFails`
its INSERT, `SpawnChecks` the un-awaited `runAsyncChecks`, `CommitBatch` kafkajs's
commit. A failed INSERT covers three cases: refused by the foreign key, not
executed, or executed with its reply lost. `CommitRefused` is a batch that
outlived the session timeout (the handler sends no heartbeat), `Crash` a restart.

- `CommittedIsAccounted`: a committed offset covers only messages that were
  invalid, stored, in a failed INSERT, skipped at a first start, or of a deleted
  device. `LossHasACause`: without an outage or a deletion no point is lost.
- `DuplicatesComeFromRedelivery`: copies of a row are bounded by the number of
  crashes and refused commits (the INSERT has no unique key).
- `EveryMessageIsReached`: liveness; faults delay the consumer but never stop it.

### SpeedCheck

`chk[c]` walks through `getLimit`, `findDevice`, `cacheLimit`, `getCooldown`,
`create`, `setCooldown`. `cycle[d]` counts the alerts created since the cooldown
key of a device last expired. `CycleAccount` bounds them by the checks in flight
and the failed calls, in the inductive form section 4 proves. `LimitTakesEffect`:
once a limit stays, the cached limit ends up equal to it, though no update ever
touches the cache.

### GeofenceEdge and GeofenceMonitor

`GeofenceEdge` is the promise in the comments of `evaluateGeofenceTransitions`:
points are seen in order and an alert (or the cooldown that holds it back)
answers exactly the transitions into violation. `GeofenceMonitor` has the whole
check: the PostGIS query, the previous presence, `find` and `save` of the state
row with its primary-key conflict, then one cooldown and alert per collected
violation. `Assign` is `assignDevice` and `removeDevice`; `Retype` and `Redraw` are
the two writes of `update`; `Restart` is the boot, which drops the polygons with
the postgis extension. A check keeps what its query said of each row (`inside`,
`forbidden`), so edits meet it at any of its calls.

`since[g]` is the point whose check last changed the row of `g`, and `excused` has
the geofences whose row need not be answered. `Lost`, `Differs` and `Overtaken`
name the causes: a check that a failed call, a conflicting first INSERT or a
restart cuts short; a check that overtakes another or is overtaken; a point that
crossed the fence while the device was not assigned; a change of type. The next
undisturbed change of the row ends the excuse.

- `ViolationIsAnswered`, with two slots: a row that stands for a violation of the
  type the geofence has now was answered at the very point that brought it, by an
  alert, a cooldown or a check still at work; and no later point was on the other
  side, unless its check has still to say so.
- `FalseAlertsNeedARestart`, with two slots: an entry alert is true of its point;
  an exit alert is, until a restart.
- `OneAlertPerStay` and `ImplementsEdge`, with one slot, while assignments, types
  and polygons change. The mapping to `GeofenceEdge` takes `zone` from the types as
  the check read them (`TypeInUse`), `seen` from the stored rows, `last` from
  `since`, and `raised` from alerts, held-back alerts and collected violations.

### RoutePlans and RouteDeviation

A request (`req[r]`) is a chain of statements: `activate` checks its guard
(`ActivateBegin`), cancels the other plans (`ActivateCancelOthers`) and sets its
own (`ActivateSet`), with no transaction. `ActivePlusClaims`: ACTIVE plans plus
activations about to set one never outnumber the requests in flight.

`RouteDeviation` extends `RoutePlans`: `chk[c]` walks through `query`,
`getCooldown`, `create`, `setCooldown`, and `ServiceStep` is any step of the
requests, which may change the plans between two calls of a check; a restart ends
the checks too. `kept` and `met` are the plans that were
monitored (`Monitored`, the WHERE clause of the query) during all or some of a
check. `ActiveRouteIsWatched`: a check that ends without an alert or a failure
overlooked no plan that was monitored throughout, except by that plan's own
cooldown or because another plan was monitored too (of two ACTIVE plans the query
takes the newest). `DeviationAccount`: the alerts of a cooldown cycle are bounded by the
check slots, once more for each restart, plus the failed calls.

### DeviceStatus

`job[w]` is the save that the consumer, the sweep or a status request has under
way, with the copy it read earlier; `todo` is the sweep's list. `raced[d]` says
that writers of the device overlapped since a heartbeat last changed its row.
Without that: `ReportSurvives` (the row is the last heartbeat, or a justified
OFFLINE; MAINTENANCE is never swept) and `ClientsSeeTheRow`; and in every
interleaving the liveness `ExpiredIsSwept`.

### AlertPipeline

Two topics and two consumer groups of one device and one `snapshotId`. An alert's
handler looks for its image (`StartAlert`), inserts the row (`StoreAlert`), looks
the owner up and tells it (`NotifyOwner`); an image's handler uploads
(`UploadMedia`), inserts (`StoreMedia`) and links the alerts stored so far
(`LinkMedia`), and `ConfirmInsert`, `ConfirmLink` do the same for the API. A
failed handler produces a dead letter, which may fail too. `ResolveRead` and
`ResolveSave` are `resolve` with the copy it holds; `Commit` is kafkajs's,
whenever it likes; `Crash` starts again at the committed offsets.

- `UnlinkedHasACause`: an alert and an image that are both stored are linked,
  unless the image linked between the alert's lookup and its INSERT, the link step
  failed, or `resolve` saved an older copy. These are all the ways.
- `MessageAccount`: a message the consumer is done with was stored, dead-lettered,
  skipped for its type or lost with its dead letter, and only one of these
  without a redelivery.
- `OwnerIsTold`: a stored alert whose offset is committed has reached its owner by
  event, and by mail when urgent.
- `EveryMessageIsSettled`: both consumers keep up.

### MediaLibrary

Objects and rows are separate: `ConfirmHead` asks the bucket, `SaveLog` inserts the
row; `DeleteRead`, one `DeleteObject` for each key and `DeleteRow` are a deletion; `SweepList`,
`SweepLookup`, `SweepDelete` the daily sweep, a page of the listing at a time.
`AnalyzeRead`, `AnalyzeSave`, `AnalyzeProduce` request an analysis, `WorkerAnswer`
is the worker outside this program, `ResultRead` and `ResultSave` take its result.
`torn` are keys whose object a race named in the comment of `RowHasObject` took,
`strayed` rows whose job or result a fault took.

- `RowHasObject`: what a visible row refers to exists, up to exactly those races.
- `PendingHasAJob`: a row shows pending only while its job is somewhere, up to faults.
- `OrphanIsSwept`: an unreferenced object of the first page goes or is taken into
  a row; of the first page only, because the sweep never asks for the second.

### LiveStream

`StartSet`, `Publish` start a session; `StopRead`, `StopSet`, `Publish`,
`RemovePath` stop it; `StatusRead`, `RemovePath`, `AddPath`, `StatusSet` take a
status of the device, which may come late or twice; the path is registered for a
READY that carries an `rtspUrl`, and the session is READY either way. `excuses` collects what
happened since a start that met no other call. `ReadyHasAPath` and
`CommandIsOfTheSession` compare the session with the media server and with the
last command the device got, the first also up to a READY without an `rtspUrl`
(`ReadyWithoutSource`); `StatusIsOfThisRequest` holds without any excuse: no
interleaving puts the status of one request on the session of another.

### Registration

`register`, `resend` and `verifyRegistration` of one address, one awaited call per
action, over the pending session, the attempts and the rate counters. `window` has
the counter of the address and, for each route in `Throttled`, the counter of the
guard (`Throttle`, `ThrottleExpire`, `ThrottleFails`: the guard lets a request pass
when Redis fails). `HookRead`, `HookDelete`, `DirectInsert` are the sign-up hook
and the insert of better-auth. `MailedCodeWorks`, `GuessesAreBounded`,
`WindowCloses`, `UnverifiedHasACause` and `VerifiedAccountIsKept` each name the
interleavings or faults under which the promise fails and hold otherwise.

### Fleet and Zones

Handlers (`req[q]`) create, update, regenerate and remove devices, create, rename,
fill, empty and remove groups, and read a listing page by page; `Zones` adds the
geofences to the same handlers. A handler is stale once another has written a row
it holds. `HandedPasswordWorks`: the password of the last response admits the
device to every topic it was told to use (`Told` against `Acl`) and to the REST
guard (`Admits`). `GroupIsAsAsked` and `AssignmentIsAsAsked`: membership and
assignment are as last asked unless a stale handler wrote.
`ListingMissesOnlyTheShifted`: paging by OFFSET misses at most one device per
device removed meanwhile.

### Readers and Viewers

A request (`reading[q]`) lists, opens, or counts, one query per step, while rows,
roles and statuses change around it. `WhatIsListedOpens`: the eight lists and
their detail endpoints, each with its own WHERE clause, agree on who may see what.
`FiguresAgree`: page and total, online and all devices, agree up to rows that moved.

`Viewers` adds sockets: `Connect` begins the early authentication, which Nest does
not wait for; `Subscribe` and `JoinUser` pass the guard (`GuardLookup`) and a check
of the device (`CheckDevice`) before `JoinRoom`. `HearsOnlyItsOwn`: a socket gets
events of its user's devices only, unless the user was an administrator since it
connected. `LastWordHolds`: an unsubscribe holds unless it overtook its subscribe.
`NoAlertIsMissed`: joining the room and then listing leaves no announced alert out.

## 3. The runs

All runs are expected to pass. Times are with two workers.

| run | what it shows | instance | distinct states, time |
|---|---|---|---|
| `telemetry` | safety and liveness of `TelemetryIngest` | one partition, 3 messages of 2 devices, batches of up to 2, one crash, refused commit, outage and deleted device | 611 082, 2.5 min |
| `speed_check` | safety and liveness of the speed check; deadlock is checked | two overlapping checks, two changes of the limit, two failing calls | 97 126, 10 s |
| `geofence_monitor` | what overlapping checks keep | two checks, an allowed and a forbidden zone, at most three of: 3 points, an edit, a failing call, a restart | 777 517, 1.5 min |
| `geofence_serial` | the documented rules and the refinement of `GeofenceEdge` | one check at a time, 3 points, 2 edits | 413 108, 40 s |
| `route_deviation` | plans under concurrent requests and checks over them | two plans, two requests (5 in all), two checks, at most 2 of the four under way, a failing call, a restart | 1 728 778, 2 min |
| `device_status` | safety and liveness of the status table | two devices, 2 heartbeats, default rows, sweeps, a failed save | 343 678, 1 min |
| `alert_pipeline` | linking, losses, notification, both consumers' progress | 2 alerts, an image of the topic and a confirmed one, a failing call, a crash | 964 753, 2 min |
| `media_library` | rows, objects and jobs, liveness of the sweep | one file key and the output of one job, 2 rows, 2 uploads, a failing call, a crash | 617 844, 2.5 min |
| `live_stream` | session, path and device agree | two overlapping calls, 2 starts, 2 reports, a failing call, a crash | 1 327 294, 40 s |
| `registration` | codes, guesses, windows, account | two overlapping requests (4 in all), 2 attempts, the guard of `register`, one sign-up, one error or crash | 3 167 880, 3 min |
| `fleet` | credentials, groups, listing, assignment | two handlers (4 requests), 2 devices, 2 groups, a geofence, pages of one, one failure | 1 599 306, 1.5 min |
| `viewers` | lists, figures, rooms and alerts | two users, nine rows, one request slot (2 requests), one socket with 2 overlapping messages (3 in all), 2 changes, one lost broadcast | 741 114, 2.5 min |

Bounds and why they are enough. Every race in this code is between two handlers
on one device, address or row, and needs two slots and two or three events; with
three points or messages there is one before and one after the one that goes wrong.
A single crash, restart or failing call, placed anywhere by TLC, reaches every
state a handler can be interrupted in; a second one only repeats it, and the
accounts that grow with the number of faults (`DuplicatesComeFromRedelivery`,
`CycleAccount`, `DeviationAccount`) are stated with the counters in them. Timeouts
of one or two ticks are enough to be before, at and after expiry. `device_status`
uses two devices because one failing save ends the sweep for the devices behind
it, `fleet` two because a listing needs one that shifts and one that is missed.
Five requests in `route_deviation` create two plans, activate both in turn and end
one while a check that read the other is under way; `BoundedSpec` there lets two
handlers be under way at a time, be they requests, checks or one of each. `CONSTRAINT ThreeEvents` in `geofence_monitor` allows
three points, edits, failing calls and restarts in all: three points that pass one
another, two with one disturbance, one with two; the theorems have no such limit.
`CONSTRAINT OneFailure` in
`registration` takes one error or one crash, not both. Of the three guarded routes
only `register` is taken through its guard step by step; the three differ in their
numbers only. `media_library` has one job; that its two invariants hold for several
jobs of a row is what their theorems say. In `viewers` a behaviour uses the requests or the sockets (`side`),
and neither reads what the other writes; where only sockets are used, the rows
no socket asks for stay as they are. Symmetry is used for interchangeable slots,
plans and groups, in runs without liveness properties only
(`ActiveRouteIsWatched` and `VerifiedAccountIsKept` are action properties that
treat all slots and plans alike). Deadlock checking is off where the bounds let
every event be used up.

Fairness. The runtime keeps going with a handler whose awaited call settles, and
kafkajs calls a handler as long as there is a message, so each consumer is weakly
fair (`ConsumerStep` of `TelemetryIngest`, one condition for each consumer of
`AlertPipeline`), as are checks (`CheckStep`, `FinishChecks`), saves (`SaveStep`)
and the loops of the interval timers (`SweepStep` of `DeviceStatus` and of
`MediaLibrary`), and so is the passing of time (`Tick`, `Age`). Nothing is assumed
of devices, users, workers or faults: points and heartbeats need not come, and a
fault may or may not happen. Modules without a liveness property have no fairness.

## 4. The theorems

TLAPS proves, for any sets of devices, users, checks, plans, requests, sockets and
messages and all bounds (with the assumptions on constants each module names). An
invariant that a proof carries along was first checked by TLC on the instance of
the module's run.

- Types: `TypeCorrect` (in all but `FleetProofs`), and `SpeedTypesCorrect`,
  `DeviationTypesCorrect`, `MediaTypesCorrect`, `FleetTypesCorrect` and
  `StatusTypesCorrect`. Where later proofs need it, what a handler's place in its
  code says of its locals goes with it (`Shapes`, `Holding`, `FleetInv`, `SaveShapes`).

Telemetry and the speed check (`TelemetryProofs`):

- `NothingIsPassedOver` (`CommittedIsAccounted`). A committed offset says nothing of
  a batch that is saved but not committed, so the inductive invariant
  `DoneIsAccounted` speaks of every message the consumer is done with: those up to
  its position and those of a batch whose INSERT was tried (`Done`). It rests on
  `Reading`: a committed offset is the position, and the batch begins right after
  it. What accounts for a message stays (`AccountedStays`): rows go only with
  their device.
- `CopiesAreOfRedelivery` (`DuplicatesComeFromRedelivery`). `CopyAccount` keeps one
  copy in hand for a message the consumer is not done with; a crash or a refused
  commit takes a message back from done, and is counted.
- `HistoryWasBroadcast` (`StoredWasBroadcast`) and `ChecksAreOfStoredPoints`
  (`ChecksFollowSave`), from what the loop has sent so far (`SentSoFar`) and what a
  saved batch has stored (`SavedSoFar`); `LossesHaveACause` (`LossHasACause`).
- `CycleAccountHolds`, and from it `AlertsPerCycle`: the alerts of a cooldown
  cycle never exceed the checks in flight plus the failed calls. The bound alone
  is not inductive: a check that has seen no key will still alert. `CycleAccount`
  adds these claims: while the key lives, alerts plus admitted checks stay within
  the bound; while it does not, every alert of the cycle is of a check that is
  about to set the key, or of one that failed to. Checks outside `create` and
  `setCooldown` hold no claim, so a step changes the account by its own slot
  (`OneCheckMoves`).
- `OneAlertWhenSerial`: with one check at a time and no failing call a cycle has
  one alert, which is the comment of `checkSpeedViolation`.
- `CooldownIsJustified`: a live cooldown key stands for an alert.

Routes (`RouteProofs`):

- `ClaimAccountHolds`, and from it `ActiveBounded`: ACTIVE plans never outnumber
  the requests. The inductive invariant `ActivePlusClaims` counts a request
  between the bulk cancel and its own update as a claim: the bulk cancel takes the
  count of ACTIVE plans to zero, so a claim can be added, and `ActivateSet` turns
  the claim into a plan.
- `OneActiveWhenSerial`: with one request at a time a device has at most one
  ACTIVE plan, which is the comment of `activate`.
- `ChecksOnlyRead`: the composition implements `RoutePlans`; a step of a check is a
  stutter of the requests. So `ClaimsWhileChecked` (`ActivePlusClaims` of the
  composition, which is what the run checks) and the types follow from the
  theorems about requests alone.
- `DeviationAccountHolds`, and from it `DeviationsPerCycle`: the account of
  deviation alerts, while the plans change in any way a step of `RoutePlans`
  allows. Only two facts of `RoutePlans` are needed: its steps leave the checks'
  calls and plans alone, or they are a restart, which ends all checks
  (`ServiceMoves`). A restart writes off the alerts whose key is still to be set,
  at most one per slot, so the account grows by the number of slots.
- `RoutesAreWatched` (`ActiveRouteIsWatched`), from `WatchSoFar`: while a check is
  at its query, what was monitored all along is monitored now and what is
  monitored now was met, and the plan it has judged was met. A query that returns
  nothing, or another plan than the only one met, contradicts this; a step of the
  requests between two calls moves both sides alike (`ServiceKeepsWatch`).

Live streams and media (`MediaProofs`):

- `StatusOfTheRequest` (`StatusIsOfThisRequest`), from `CopiesBacked`: every status
  a handler holds, or is about to write, was reported for the request of the copy
  it goes with. The session alone says nothing of the copies that will overwrite it.
- `ReadyStreamHasAPath` (`ReadyHasAPath`) and `LastCommandIsOfTheSession`
  (`CommandIsOfTheSession`), from `Undisturbed`: as long as nothing excuses the
  session, at most one call is under way, and what it has done so far is known
  at each of its steps. A status call that goes straight to its `set` with READY
  knows the message without an `rtspUrl` it was called with.
- `RowsHaveObjects` (`RowHasObject`) is inductive with `Holding`: a call in progress
  holds rows and jobs that are there, and a key the sweep is about to delete was
  found free by its lookup. Each action that takes an object away then either took
  the row before, or enters the key in `torn`.
- `PendingIsAnswered` (`PendingHasAJob`), from `PendingSoFar`. The property counts an
  analysis from its read on; that is too weak to be kept, since an analysis that
  has only read the row may stop. `Answering` counts it from the write of the row,
  and a result from its arrival to the save that takes the row out of `pending`.

Geofences (`GeofenceMonitorProofs`):

- `AlertsNeedNoRestart` (`FalseAlertsNeedARestart`), from `TruthSoFar`: whom the
  query of a check found inside a row it has still to visit is inside, whom it
  found outside is outside until a restart, and every violation it has collected
  is as true.
- `StoredViolationIsAnswered` (`ViolationIsAnswered`), from `AnswersSoFar`, which says
  of every row not excused, violated or not, that no later point contradicts it.
  A presence that is no violation now may be one for the next type, so the claim
  about violated rows alone would not be kept. A row is excused in the very step
  in which its answer, or the check of a point that contradicts it, is lost
  (`CutAnswer`, `RowChanges`).
- `OneAlertWhenSerial` (`OneAlertPerStay`, for one slot and no restart), from
  `InOrder` and `StaysSoFar`: every alert of a geofence is of the stay that goes
  on, or the device has left in between, as the stored row or a check at work says.
- `EdgeWhenSerial` (`ImplementsEdge`, for one slot, no failing call and no
  restart): every step, an edit included, maps to a step of `GeofenceEdge` or to a
  stutter (`EdgeStep`).
  The abstract step is taken where the row is saved; the later `create` and
  `setCooldown` move an answer from the collected violations to the alerts, which
  the mapping does not tell apart.
- `KeysHaveAlerts` (`SuppressionHasAnAlert`).

Alerts (`AlertPipelineProofs`):

- `LinksAreMade` (`UnlinkedHasACause`). The causes are exact because of `Shapes`: a
  handler that found no image has counted the rows it saw, so any image there is
  now is newer, and one that has linked since crossed it. Links are made for all
  unlinked alerts at once (`LinkIs`).
- `MessagesAccountedFor` (`MessageAccount`), from `Settled` (the message of a call
  that has stored its row has its outcome already) and `Once`: an alert that no
  restart delivered again has no outcome and no row before the consumer reaches it
  (`Ahead`). A crash hands back exactly the messages between the offset it resumes
  at and those a handler was called with, and they are what `redelivered` gains.
- `OwnersAreTold` (`OwnerIsTold`), from `ToldSoFar`: the same of every message the
  consumer is done with, committed or not; the owner is told before the position moves.

Devices, groups and geofence assignments (`FleetProofs`):

- All four rest on `UpToDate`: what a handler that is not stale has read of its
  devices, group or geofence is still so. A handler becomes stale in the very step
  in which another writes something it relies on (`Overtakes`), so an overtaken
  write, the only one that can undo another, is always counted.
- `PasswordsWork` (`HandedPasswordWorks`), from `Credentials`: a device for which no
  password is being issued has the hash of the one last handed out.
- `GroupsAreAsAsked` (`GroupIsAsAsked`) and `AssignmentsAreAsAsked`
  (`AssignmentIsAsAsked`), from `GroupKept` and `Assigned` at every step.
- `ListingsMissLittle` (`ListingMissesOnlyTheShifted`), from `ListingSoFar`: of the
  devices there all along, those that stand in front of the place the listing has
  reached and were not shown (`Skipped`) are at most as many as were removed. A
  removal moves every device behind it up by one place, so it brings one device at
  most in front (`SkipsOneMore`); an insert is listed first and only moves the
  others down; and when the last page is read none is behind (`PagesSuffice`).

`FleetAssumption` says of the constants that device ids are natural numbers, which
stands for the creation times the listing is sorted by, finitely many, and none of
them a group.

Device status (`FleetProofs`):

- `ReportsSurvive` (`ReportSurvives`) and `ClientsAreUpToDate` (`ClientsSeeTheRow`),
  from `StatusSoFar`, for each device: two writers that meet there are marked, and
  so is the device (`Meetings`); a consumer that met none still holds the row it
  read (`ConsumerAlone`); where nothing raced, the sweep works only on a silent
  device and on its row as it is, and a status request found none
  (`OthersOrderly`); and then the row is the last heartbeat or a justified OFFLINE,
  and what was broadcast is the row (`LastKept`). A heartbeat that meets nobody
  clears the race, which is why the consumer's part has to hold in a raced device too.

Registration (`RegistrationProofs`):

- `WindowsClose` (`WindowCloses`) and `UnverifiedExplained` (`UnverifiedHasACause`)
  are inductive with the types; `VerifiedIsKept` (`VerifiedAccountIsKept`) is
  proved action by action.
- `GuessesBounded` (`GuessesAreBounded`), from `Guesses`: as long as nothing raced,
  at most one request is counting a wrong code, and it knows how many there were.
- `NewestCodeWorks` (`MailedCodeWorks`), from `Sends`: a request that has stored its
  code and not mailed it, or the other way round in `resend`, is alone, and its own
  code is in the place it has already written.

Readers and viewers (`ViewersProofs`):

- `AnswersAgree` (`FiguresAgree`) from `Agrees`, `ListedRowsOpen` (`WhatIsListedOpens`)
  from `Opened`: each query of an answer so far agrees with the rows as they are
  now, up to those that moved since the request began. That the eight lists and
  their detail endpoints select the same rows is the lemma `ListOpens`.
- `LastWordIsKept` (`LastWordHolds`), from `LastWords`: a subscribe under way was
  the last word, or was overtaken.
- `OwnRoomsOnly` (`HearsOnlyItsOwn`), from `OwnUser`: a socket, and every handler of
  its messages, acts for the user that connected it, and a handler about to join a
  device's room has checked that device. The exception follows the user for as long
  as the socket lives (`ruled`).
- `NoneIsMissed` (`NoAlertIsMissed`), from `Watched`: who watches is in the room.

Only model-checked: the five liveness properties (`EveryMessageIsReached`,
`LimitTakesEffect`, `ExpiredIsSwept`, `EveryMessageIsSettled`, `OrphanIsSwept`), as
they need fairness and ENABLED, which TLAPS does not do. Every invariant and every
action property of the runs is proved, those of `geofence_serial` under the
assumptions its configuration makes (one slot, no failing call, no restart). The library's induction
theorems take an operator as a parameter and cannot be used; where a proof needs
induction over numbers it takes the least counterexample (`LeastNumber` of
`AlertPipelineProofs`, from `WFMin`), which is first-order. No module with a
theorem uses a RECURSIVE operator.

## 5. Where code and documentation disagree

Met while modelling; the properties above say how far the code does go.

- A failed telemetry batch is logged and committed without a dead letter
  (`telemetry.consumer.ts:103`; `kafka.enum.ts:23` names a dead-letter topic for
  it). `LossHasACause` says when it happens.
- A point is broadcast before its batch is saved, also when the save then fails
  (`gnss.gateway.ts:123` says after); `StoredWasBroadcast` is the direction that holds.
- A boot drops the polygons, so a device inside its allowed zone is reported as
  outside (`geofences.service.ts:370`); `FalseAlertsNeedARestart`.
- A forbidden zone "means device must stay outside" (`geofence.entity.ts:36`), but a
  change of type leaves the presences as they are, so a device that is where the
  new type forbids it raises no alert until it has left and come back
  (`geofences.service.ts:381`); `ViolationIsAnswered` names the change of type.
- A READY status without an `rtspUrl` registers no path and still gives the session
  its `webrtcUrl` (`mqtt.service.ts:353`, `:361`); `ReadyHasAPath` names it.
- Two activations leave two ACTIVE plans (`route-plans.service.ts:178`);
  `ActivePlusClaims` bounds them. An activation that passed its guard can also make
  a plan ACTIVE that was completed meanwhile (`:175`). A plan can be ACTIVE without
  geometry, and the deviation check then ignores it.
- Equal heartbeats write nothing, so a live device goes OFFLINE
  (`offline-detector.service.ts:15`), and the telemetry a device sends is not looked
  at by the sweep either; `ReportSurvives` says "changed nothing for longer than the
  timeout". A sweep or a default row can overwrite a heartbeat that arrived after
  they read the row, and an equal heartbeat afterwards does not repair the stamp.
- Overlapping speed checks alert more than once per cooldown cycle
  (`telemetry.consumer.ts:139`); `CycleAccount` says how often.
- Overlapping geofence checks can alert twice for one stay, and an older point's
  presence can overwrite a newer one's (`geofences.service.ts:330`, `:367`);
  `geofence_serial` shows both rules for checks that do not overlap.
- Alerts of the server's own checks are stored but never broadcast: the only caller
  of `broadcastAlert` is `alerts.consumer.ts:147`. `NoAlertIsMissed` excludes them.
- A stream status that was being registered while a new stream started overwrites
  the newer session with its copy (`mqtt.service.ts:343`).
- A room outlives the demotion or sign-out of its user, and an unsubscribe sent
  while the subscribe is still being checked has no effect (`gnss.gateway.ts:66`).
- The sign-up hook can delete an account that was verified between its two
  statements (`auth.ts:168`).
- Saving a row that was removed meanwhile inserts it again, without the columns the
  copy does not have (`devices.service.ts:149`, geofences and groups alike).

## 6. What is not modelled, and the plan

Left out on purpose: wording and formatting, validation rules (a message is valid
or not), geometry (a point is inside a zone or not), time series of the statistics
page (single queries), several backend processes at once, overlapping sweeps (a
sweep longer than its interval), and the libraries beyond what the code relies on.

Without effect as built, so without a model: `createFirstAdmin`, `updateKycStatus`,
`withLock` and the rest of `RedisLockService`, Redis `publish` and `subscribe`,
`waitForEvent` have no caller; `getProfile` and `updateProfile` read relations the
user entity does not have and always throw, and with them goes the queued upload
of `storage.service.ts`; `main.ts` enables no shutdown hooks, so the shutdown
order of `kafka.service.ts` is never run and the process ends as in `Crash`. The
rest of `users.service.ts` are single queries. Sessions and sign-in belong to
better-auth; the consumer of `auth.mail` keeps no state and ignores a mail that
could not be sent.

What could still be added: several partitions and processes (a rebalance between
two of them), and the composition of `TelemetryIngest` with the checks it spawns.

Every safety property the runs check is proved; what is left to prove is liveness.
