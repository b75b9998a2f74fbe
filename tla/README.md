# Verification of trips-api

trips-api keeps the trip history of DIMO vehicles. It consumes two Kafka topics
(mints of vehicles; beginnings and completions of trips), stores vehicles and
trips in Postgres, archives the telemetry of completed trips, encrypted, on the
Bundlr network, and serves the history over HTTP. This directory holds TLA+
modules that model it, TLC configurations that check them on small instances,
and TLAPS proofs for every instance.

## The system

| part | source | state | operations |
|---|---|---|---|
| consumer | `internal/services/consumer` | none of its own; a `models.Trip` in the memory of each running handler | `VehicleEvent`, `BeginSegment`, `CompleteSegment` |
| Postgres store | `internal/services/pg`, `models` (generated), `migrations` | tables `vehicles`, `trips` | one SQL statement per call, no transactions |
| geo | `internal/geo` | none | `InterpolateTripStart`, a distance threshold |
| Bundlr client | `internal/services/bundlr` | none; the network keeps the items | `PrepareData`, `Upload` |
| generated models | `models` (sqlboiler) | caches of built statements, one set per process | `Insert`, `Update`, `Upsert` |
| Elasticsearch client | `internal/services/es` | a buffer per call | `FetchData`, a loop of searches |
| API | `internal/api` | none | `GetVehicleTrips`, a count and a list |
| process | `cmd/trips-api` | clients, subscriptions, HTTP servers, a signal channel | start, consume, serve, shut down |
| migrations | `internal/database`, `migrations` | the schema and its version table | nine scripts up and down, run by goose |
| settings, swagger, chart | `internal/config`, `docs`, `charts` | - | - |

Kafka delivers a message to one handler at a time per partition, at least once.
Two replicas run in production, and each has a goroutine per partition, so
handlers run side by side and meet in the database only. Within a handler,
nothing ties its calls together: between the read of a row and its update lie an
Elasticsearch fetch of many pages and an HTTP upload, and the process may be
killed at any point of it. `main` does not wait for handlers when it is told to
stop.

What makes the system hard, each item at its line, is the list `hazards` of
PROJECT.json. In short: redelivered and overlapping completions of one trip;
beginnings that race with the completion of the previous trip; mints that arrive
after the first trip; uploads whose row is never stored; pages of a search or of
the history that shift while they are read; statements cached for one call and
used by another; a start and an end of the process that overlap with its work;
init containers that migrate the same database at once.

What makes each part correct:

- consumer: no message is taken for consumed before what it says is stored, if
  failed ones are delivered again; what is stored was reported; key and archive of a row belong
  together and the archive exists; a trip begins once and is never reopened;
  archives are lost only to faults; an estimate of a start is plausible;
  `droppedData` reflects the trip before; every completed trip is stored.
- store: a pairing of device and token is permanent, and one to one.
- Elasticsearch client: nothing twice, nothing out of order, nothing missed, an end.
- archive: what a row's archive id and key open is the whole trip.
- generated models: a cached statement is the one the call would have built.
- API: a walk through the pages shows everything that was there.
- process: nothing runs before what it uses, a ready pod consumes and serves, a
  signal ends it, and in order.
- migrations: the schema is what the version says; whoever is told that the
  migration succeeded finds the columns; no stored trip is lost.

## Modules

```
TripsDB     <-- Consumer    <-- MCConsumer (TLC)
                            <-- ConsumerProofs <-- DeliveryProofs <-- EstimateProofs (TLAPS)
            <-- Statements  <-- MCStatements (TLC), StatementsProofs (TLAPS)
TripLifecycle, TripHistory  <-- Consumer (INSTANCE: what it implements)
TripHistory <-- TripsAPI    <-- MCTripsAPI (TLC), TripsAPIProofs (TLAPS)
ESFetch     <-- Archive     <-- MCArchive (TLC), ArchiveProofs (TLAPS, of both)
Process     <-- ProcessProofs (TLAPS)
Migrations  <-- MCMigrations (TLC), MigrationsProofs (TLAPS)
```

**TripsDB** has one operator per SQL statement of the service, from the contents
of a table to the result or to the next contents. `vehicles[k]` and `trips[t]`
are functions of the primary key. `UpdateTrip` sets the five columns
`CompleteSegment` whitelists and no other. `UpsertVehicle` and `DeviceTaken` are
`ON CONFLICT (token_id) DO NOTHING` and the `UNIQUE` constraint it does not
cover. `LastEnds` is the eager load of the last completed trip; where several
trips end at the same instant it allows any of them. The reader and the writer
connection are taken to be the same database.

**Consumer** models the handlers. `pc[w]`, `ev[w]`, `veh[w]`, `seg[w]` are the
step, the event, the vehicle and the in-memory trip of the handler worker `w`
runs. The actions, in the order of the code:

| handler | actions | code (`consumer.go`) |
|---|---|---|
| `VehicleEvent` | `StoreVehicle` | 195-205 |
| `BeginSegment` | `ReadVehicle`, `LoadLast`, `Insert` | 77-91 (two statements), 93-117, 119 |
| `CompleteSegment` | `ReadTrip` (with the key and the end of the trip), `EstVehicle`, `EstLoad`, `Fetch`, `Upload`, `Update` | 123-142, 143-151, 153-159, 161-170, 172-178, 182-192 |

Every error path returns through `ReturnErr`. `CallFails` is any call that fails
without effect; `AnswerLost` a write that took effect but whose answer the
handler never sees; `EstimateFails` the one error that is only logged; `Crash`
the death of a replica or its shutdown; `Rebalance(e)` the move of a partition,
which delivers everything from `e` on again while a handler still at work there
runs on. A key is a fresh element of `Keys`: `rand.Read` never repeats. An
archive is the record of what its tags and its key say; its id is a hash of
signed contents with a fresh nonce, so the record stands for the id.

What Kafka does is external, and the model keeps it open: `Pred[e]` is the set of
events ahead of `e` in its partition (no assumption about how the producer
assigns partitions), and `SkipOnError` says whether a failed message is skipped
or delivered again, because the shared Kafka library is not in this repository.

**TripLifecycle** is what the consumer promises, without workers, handlers and
faults: devices pair once, trips open once under a paired vehicle, close, and
are kept with an archive that exists and fits the key. `Consumer!TL` is the
refinement mapping: a row without an end time is an open trip, the columns
`key` and `bundlr` are the key and the archive.

**ESFetch** models `FetchData`: `pages` is the buffer, `after` the
`search_after` cursor. A search answers with the earliest hits after the cursor
and cuts ties anywhere; other processes index documents (`Ingest`) between any
two searches. Times are milliseconds, the window is compared in whole seconds as
the formatted bounds demand. A range filter whose `lte` bound has no
fraction is taken to include that whole second.

**Archive** puts `CompleteSegment` around that fetch: a delivery draws a key,
the documents are fetched, `PrepareData` zips, seals, tags and signs what was
read, `Upload` makes it public, `Store` writes key and id to the row. Every step
can fail or lose its answer (`Stop`), and the completion is delivered again with
another key while documents go on being indexed. Cryptography is symbolic: a box
opens with the key and nonce it was sealed with, and the id stands for exactly
the contents signed. Consumer abstracts all this to one record; Archive says why
the record is right.

**Statements** models the generated `Insert`, `Update` and `Upsert`: which
columns a call names (of those with a default only the ones that are not zero),
the key its statement is cached under (`makeCacheKey`: names run together
without separators), and the caches, shared by all handlers of a process, read
and written under separate locks. `LookUp`, `Execute` and `Store` are the three
parts of a call; a statement may fail with or without effect. What must come out
is what TripsDB, and so Consumer, takes for granted.

**TripHistory** is what the consumer does to one vehicle's trips as a reader by
end time can see it: they begin, they end, an end may be moved by a completion
published again. `Consumer!TH(k)` maps the rows of token `k` to it, and TripsAPI
extends it, so that the API is checked against what the consumer was shown to do.

**TripsAPI** models `GetVehicleTrips` called for page after page by a client
that follows `totalPages`, from a page parameter of its choice. `Count` and
`List` are the two queries of a request; `TripBegins` and `TripEnds` are the
consumer's. `Pages(p)` is every answer `ORDER BY end_time DESC LIMIT OFFSET` may
give when trips end at the same instant, and `Offset` an int of a few bits that
wraps as Go's does; a negative one is refused by Postgres (`NegativeOffset`).

**Process** is one replica's `main`, statement by statement (`main` is the one
that comes next), with the goroutines it starts: the handlers of each topic from
the moment of its subscription, the monitoring server, the API server, requests.
`Term` ends the process before `signal.Notify` and fills the channel `c`, which
holds one signal, after it; `Kill` is SIGKILL after a SIGTERM; `Restart` is
Kubernetes. `Drain` shows what the shutdown of `main` really waits for: requests.
A `Fatal().Err(err)` that is never sent is the branch `"failed"` of `ListenAPI`.

**Migrations** holds the nine scripts as data: a record for each file with its
statements up and down over tables, columns, NOT NULL and the one index.
`Runnable` and `Effect` are Postgres, `Script` a transaction. Each process in
`Runs` (init containers, or an operator who runs scripts up and
down in any order) reads the version,
then runs one script, and in between the others run; that is how goose 2.7.0
works, which takes no lock. The version is the row last inserted; a script down
deletes its row; the first script's way down always fails because it drops the
table that row is in. `StoreTrip` is the service, which stores rows as soon as
the schema fits its models. `KnownAt(v)` are the few databases a version can have
(rows or none, `start` with or without its NOT NULL), and two assumptions that
TLC evaluates, `KnownAssumption` and `ScriptsAssumption`, say what each script
makes of each of them.

## Runs

| run | question | bounds |
|---|---|---|
| `races` | any delivery order: is what is stored what was reported, do key and archive fit, who pays for orphans, what do contradictory mints do | 2 trips of 1 vehicle, 4 events of theirs, 3 mints, 2 workers, 1 failed call, 1 crash or move |
| `revised` | two completions with different ends, one under an unregistered device, failed messages delivered again: is a message ever taken for consumed before its trip is stored, does the consumer implement `TripLifecycle` and `TripHistory` | 1 trip, 4 events, 2 workers, 1 failed call, 2 crashes or moves |
| `ordered` | production settings, each device's events in order, failed messages skipped: is a beginning or an estimate ever computed from outdated rows, is everything consumed and every trip completed in the end | 2 vehicles, 3 trips, 2 workers, 2 failed calls, 1 crash or move |
| `archive` | does a fetch see the whole trip while documents arrive, does a row's archive hold it, whatever failed | 6 documents, pages of 2, 2 deliveries, 2 keys, 2 nonces |
| `statements` | does a cached statement fit the call that finds it | 2 handlers, 13 calls, 1 failure |
| `paging` | a walk through a history that grows and is revised: what it misses, what it repeats, what is refused | 5 trips, 4 instants, pages of 2, 3 completions during the walk, 1 failed request |
| `process` | start, work and end of a replica | 2 requests, 2 failures, 2 SIGTERMs, 1 SIGKILL |
| `migrate` | init containers on an existing database; up and down by hand, with rows | 3 containers, versions 6 to 9, or 1 operator from no schema; 2 deaths or failures |
| `selfestimate` | (violation) estimates after a redelivery | 1 trip, 1 partition move, production settings |
| `graceful` | (violation) what the shutdown waits for | as `process` |
| `ready` | (violation) does a ready pod serve | as `process` |
| `freshrace` | (violation) two init containers on a fresh database | 2 containers, no failure |

Why these bounds are enough to be interesting: two workers are the smallest
number with an overlap, and no property relates three. Two trips of a vehicle
make "the last completed trip" change between a read and a write; `gate` is near
`home`, `work` is far, so estimates are both taken and refused, and one beginning
has no position. `Keys` has one key for each run of a completion the budgets
allow, so that no handler waits for one. `MaxErrors` and `MaxCrashes` bound the
faults; `MaxFails` the failed API requests. Pages of two have boundaries inside
and outside ties. Workers, keys and trips of the API are symmetric; the liveness
runs use no symmetry. Five trips fill two pages and a half, so that a completion
can push a trip over a page boundary twice. An int of four bits wraps to a
negative offset as one of 64 bits does for pages from 2^63/100 on. The calls of
`statements` are every row `BeginSegment` can build (with or without a position,
an estimate, the flag), so every cache key meets every other. Three containers
and two failures let one be two scripts behind another. The operator of `migrate`
has no bound on commands: the states are finite. He starts from nothing and is
alone; with one process there is nobody to race with.

`migrate` starts from versions 6 and later. From version 5 or before, containers
that race can run script 6 twice with script 7 in between (finding 4); from 6 on
a script that is run again fails, its transaction is undone, and the container,
started again, finds the work done. That is the point of the pair of runs.

`races` and `revised` start without any registered vehicle; where the question is
not about mints, `Registered` holds the vehicles already. `ordered` and
`selfestimate` have both switches off, as `values-prod.yaml` has them; `races` and
`revised` have them on, as the chart's defaults do. `archive` has a key for each
of its two deliveries.

The properties, by hazard:

- `TripFromEvents`, `BundleMatchesTrip`, `TripNeverReset`: a row is never a
  mixture. All five columns of a completion are written by one statement, and no
  other statement writes them; this is what makes overlapping completions
  harmless to the row.
- `ConsumedIsStored`: where failed messages are delivered again, a trip that begins
  before its mint is stored, or ends before its beginning is, waits. It is an
  invariant, so it holds however long the wait. Where they are skipped such
  a trip is lost, and `TripsComplete` has to ask for registered vehicles and for
  beginnings ahead of their completions.
- `OrphansPaidByFaults`: an upload that nobody can decrypt appears only after a
  fault, at most one per fault. It does happen: a crash between `Upload` and
  `Update` is enough.
- `EstimateNearStart` holds always; `EstimateFromPreviousTrip` only while no
  completion is delivered twice (finding 1), which is `EstimateWhenHandledOnce`.
- `DroppedDataCurrent` needs the segment events of a device in one partition, in
  order; otherwise a beginning may read the last trip before the previous
  completion is stored. In order, it still takes a rebalance and a failed call
  together: the completion that runs on without its partition is stored between
  the load and the insert of the next beginning, because its second delivery has
  failed and been skipped.
- `DeviceTripsTogether`, `PairingPermanent`: contradictory mints change nothing
  once a device is paired.
- `TripsComplete` and `Drained` are the liveness properties of the consumer. A
  failed call may cost a trip its end (its message is skipped); crashes and
  partition moves may not.
- `ArchivedTrip`: an archive is never the part of a trip that a fetch had read
  before it failed, never under a key or a nonce other than the stored ones.
- `CacheFits` and `WritesWhatItHolds`: the first call of a kind decides the text
  every later one uses. `KeysTellApart`, an assumption TLC evaluates over all
  sets of columns, says that no two sets run together to the same key.
- `NothingMissed` and `RepeatsPaidByCompletions`: a walk misses only trips tied
  with another and one trip for each end that is moved, and repeats one for each
  completion. Open trips in `totalPages` are what keeps a walk from stopping too
  early. The antecedent `~rushed` leaves out trips that begin and end between the
  two queries of the last request.
- `RefusedPastTheIntsOnly`: of all page parameters, among them 0, negative ones and
  those near the end of the ints, only one whose offset is past the ints makes
  Postgres refuse a request.
- `FeedsHistories`: the environment of TripsAPI is the consumer, not a guess.
- `HandlersHaveTheirClients`, `ReadyMeansConsuming`, `RequestsCutByForceOnly`,
  `SignalsEndTheProcess`, `ConsumesInTheEnd`: what start, probes, shutdown and
  restart promise each other.
- `SchemaAsRecorded`, `ServiceFindsItsColumns`, `MigratedInTheEnd`,
  `TripsSurvive`: see Migrations. At versions 3 and 4 `SchemaAsRecorded` allows one
  difference and no other: a way down has lost the NOT NULL of `start`, and the
  next way up restores it.

### Fairness

`Fairness` is weak fairness of each worker's own steps: a goroutine that can run
does, a call to the outside answers or fails, and an idle claim takes the next
message. No fairness is assumed of faults. Weak fairness is enough because a
worker's next step stays enabled while others move. The liveness properties hold
for a Kafka library that skips failed messages (`SkipOnError = TRUE`). With
redelivery on failure they are false in the model: a beginning delivered twice
violates the primary key for ever and holds up its partition. In `Archive`,
`FetchEnds` assumes that a fetch goes on and nothing about indexing or the other
steps.

In `Process`, weak fairness of `Main` and of the two `Listen` calls says that
the goroutines run, of `Answer` that a request is answered (handlers have no
unbounded loop), of `Restart` that Kubernetes starts what has exited. Requests,
messages, signals, failures and SIGKILL are owed by nobody. In `Migrations`, each
init container's `Start` and `Step` are weakly fair: a container that exits with
an error is started again, which the pod's restart policy does; `Stop` is not,
and bounded. An operator owes nothing.

## Findings

1. `selfestimate`: a completion delivered again after it was stored loads, as
   "the last completed trip", the trip itself (`consumer.go:143-157` has no
   condition on the id). A round trip that ends within a quarter mile of its
   late-reported start then has its own end as start estimate.
2. `graceful`: the shutdown that is announced as graceful waits for requests and
   not for message handlers: nothing is ever added to the wait group, no context is
   cancelled.
3. `ready`: an API server that cannot listen leaves a process that looks ready,
   because its fatal log event is never sent.
4. `freshrace`: on a fresh database one of two init containers may repeat script 6
   after the other has run script 7, and drop the position columns for good.
   Databases past version 5 are not affected.

Met while modelling, without a run of their own: archives
orphaned by a crash; a trip lost when it begins before its mint is stored and
failed messages are skipped; `migrate down-to N` and `up-to N`, which goose gets as
one word and refuses; `(p.Page-1)*pageSize`, which wraps, so that page 2^62+1 is
page 1 again; the metric `requests_total`, documented as the number of queries,
which counts fetches; `totalPages` counting open trips, which leaves an
empty last page at times but is also what keeps a walk from missing trips
(`NothingMissed` fails if only completed trips are counted).

## Proofs

`ConsumerProofs` proves, for any sets of workers, devices, tokens, trips, keys
and events, any `Pred`, any number of faults and either value of each setting:

| theorem | property |
|---|---|
| `TypeCorrect` | `TypeOK` |
| `TripsAsReported` | `TripFromEvents` |
| `BundlesMatch` | `BundleMatchesTrip` |
| `TripsNeverReset` | `TripNeverReset` |
| `PairingsPermanent` | `PairingPermanent` |
| `ImplementsTripLifecycle` | `ImplementsLifecycle` |

The assumptions are the named ASSUMEs of `TripsDB` and `Consumer`: `Null` is no
value, events are well-formed records, the settings are Booleans, the vehicles
registered at the start are a table that satisfies the schema.

The argument: none of the properties is inductive, because a handler writes what
it worked out from reads of several steps ago. The inductive invariant `IInv`
adds to types and rows `HandlerOK(w)`: what handler `w` knows at each of its
steps. At `insert`, the vehicle it found is still registered for the event's
device, and the row in memory is the one `NewTrip` builds. From `estVehicle` on,
the trip is stored, and its token and start are those of the row in memory. At
`update`, the archive in memory carries the key, the token and the times of the
same row, and has been uploaded. The last of these is what makes
`BundleMatchesTrip` hold although the row is read several calls before it is
written: the columns the archive depends on and `UpdateTrip` does not write
cannot change meanwhile. Hence the second half of the induction, `StoresGrow`:
pairings, starts of trips and uploads are never taken back. `Frame` turns it
into "what a handler knows stays true while others write", so that each
action is examined for the worker that moves only (`GoodStep`).
`StoresGrow` is also, directly, `TripsNeverReset` and `PairingsPermanent`, and,
with `IInv`, the step part of the refinement.

`ConsumerProofs` also proves `FeedsEveryHistory` (`FeedsHistories`): for every
token, each step of the consumer is a step of TripHistory or a stutter. It needs
`IInv` only for the trip of an update, which is stored and stays with its token.

`DeliveryProofs` and `EstimateProofs` go on from `IInv`. Most of what they prove is
not true of every stream of events, so each theorem names what it asks of the
producer:

| module | theorem | property | hypotheses |
|---|---|---|---|
| `DeliveryProofs` | `ConsumedAreStored` | `ConsumedIsStored` | none |
| | `DeviceTripsFiledTogether` | `DeviceTripsTogether` | `BegunByOneDevice` |
| | `OrphansPaid` | `OrphansPaidByFaults` | `OneBeginningAtATime`, `OneCompletionPerTrip` |
| `EstimateProofs` | `EstimatesNearStart` | `EstimateNearStart` | none |
| | `EstimatesFromPreviousTrip` | `EstimateWhenHandledOnce` | `SkipOnError`, `OneDevicePerTrip`, `OneCompletionPerTrip`, `InOrderOfDrive`, `TripsDoNotOverlap` |
| | `DroppedDataIsCurrent` | `DroppedDataCurrent` | `OnePartitionPerDevice`, `OneDevicePerTrip`, `OneCompletionPerTrip`, `BeginningsFirst`, `AllRegistered` |

The hypotheses are formulas about the constants `Events`, `Pred` and
`Registered`, defined in Consumer. The producer is not in this repository, so
nothing here can show that it keeps them; they are what the consumer relies on
without saying so. `InstanceAssumption` in MCConsumer has TLC evaluate, on every
run of the consumer, that the runs which check a property satisfy the hypotheses
of its theorem, so none of them is empty.

*Consumed and stored.* With `IInv` the property is inductive: a handler that
succeeds has just written what its message says, or found it written
(`HandlerConsumes`), one that fails leaves the message in the queue, and what is
stored is never taken back (`StoresGrow`).

*Filed together.* `PairedOnce`, the UNIQUE constraint: with `TripFromEvents`, the
token of a stored trip is the one its device is paired with.

*Orphans.* Counting the archives is not inductive: whether the next upload will be
lost depends on who is at work. `Paid(t)` is an account. In it are the archives
that are lost, the runs that have lost their event to a rebalance and go on, the
message if it is still to be consumed, and the stored archive, which an update
may overwrite; together they are at most one more than the faults so far. The
one is the completion itself. An update without a fault closes its own entry
when it overwrites an archive; a rebalance opens at most one. What makes
this hold for any number of workers is `OwnedOnce`: an event has one owner.
`OneBeginningAtATime` is needed because the tags of an archive name token and
start: two trips with the same start would claim each other's archives; and
`OneCompletionPerTrip` because a second completion replaces the archive of the
first without any fault, as it should.

*Estimates near the start.* `RowEstimates` and `MemoryEstimates` say once what a
step may do to an estimate, stored or in memory; `NearInv` says of both that they
are within the threshold of a start reported for that trip.

*Estimates from the previous trip.* `SourceInv` says where each estimate comes
from, stored or in memory. The source is another trip, and stays: its
end is written once, since a completion that is stored is not delivered again
(`OnceInv`; here `crashes = 0` and `SkipOnError` are needed). That it ended before
this trip began is the order of the drive: while a completion runs, what its
partition has ahead of it is consumed, what is behind it has not begun. Finding
1 is what the first move of a partition can do.

*droppedData.* Between `LoadLast` and `Insert` of a beginning, no completion of the
same vehicle may be stored (`BeginsCurrent`). A completion that could is in the
same partition, ahead or behind. If no partition ever moved, neither runs beside
the beginning (`RunsInOrder`). If no call ever failed, whatever is ahead of a run
has had its effect (`AheadDone`): a completion ahead is stored already, and one
behind runs only after the beginning is. This is why it takes faults of both
kinds to break the property, and why `DropInv` has a case for each kind absent.
`BeginningsFirst` and `AllRegistered` are what makes an event that no call of its
own fails have its effect: a completion finds its trip, a beginning its vehicle.

| module | theorem | property |
|---|---|---|
| `StatementsProofs` | `StatementsTypeCorrect` | `TypeOK` |
| | `CachesFit` | `CacheFits` |
| | `WritesAreWhatTheyHold` | `WritesWhatItHolds` |
| `ArchiveProofs` | `FetchTypeCorrect` | `TypeOK` of ESFetch, which is part of `ArchiveTypeOK` |
| | `FetchedInTimeOrder` | `InTimeOrder` |
| | `FetchMissesOnlyTies` | `OnlyTiesMissed` |
| | `StoredArchivesComplete` | `ArchivedTrip` |
| | `EveryFetch` | `OnlyTiesMissed` and the other two of ESFetch, within Archive |
| | `ArchiveTypeCorrect` | `ArchiveTypeOK` |
| `TripsAPIProofs` | `WalkTypeCorrect` | `TypeOK` |
| | `RefusedPastTheInts` | `RefusedPastTheIntsOnly` |
| | `RepeatsPaid` | `RepeatsPaidByCompletions` |
| | `NothingIsMissed` (assuming `FromTheFirstPage`) | `NothingMissed` |
| `ProcessProofs` | `TypeCorrect` | `TypeOK` |
| | `ClientsBeforeHandlers` | `HandlersHaveTheirClients` |
| | `ReadyAfterSubscribing` | `ReadyMeansConsuming` |
| | `RequestsCutByForce` | `RequestsCutByForceOnly` |
| `MigrationsProofs` (assuming `RolloutOrAlone`) | `MigrationTypeCorrect` | `TypeOK` |
| | `SchemasAreAsRecorded` | `SchemaAsRecorded` |
| | `ColumnsAreThere` | `ServiceFindsItsColumns` |
| | `TripsAreKept` | `TripsSurvive` |

*Statements.* For any workers, calls and failures. `CacheFits` is kept because a
worker that has built a statement holds that of its own call (`HoldsItsOwn`), and
a key determines what `Build` makes of a call (`SameKeySameStatement`), which
rests on `KeysTellApart`. `WritesWhatItHolds` adds that a column an insert leaves
out has a zero value equal to its default (`InsertsTheRow`), and that nobody
deletes the trip of an update. `KeysTellApart` is an assumption of the proof: it
is a closed formula over the seven columns, and TLC evaluates it.

*ESFetch.* For any documents, page size and window. The invariant: everything
read is at most as late as `search_after` (`ReadSoFar`), hence the order and the
absence of repeats; and a document due from the beginning is read, or ahead of
`search_after`, or was cut off from a full page by a tie (`Accounted`). That
formatting the bounds widens the window and never narrows it is
`SecondMonotone`. `CutOff` is why `OnlyTiesMissed` cannot be stronger.

*Archive.* `ArchiveInv` is the invariant of the fetch, that the item in memory is
made of what this very fetch has read (`Prepared`), and `ArchivedTrip`. A row, once
stored, keeps its meaning because items are never taken off the network.
`ArchiveTypes` needs one fact more, that every item carries the id of what was
signed (`WellFormed`).

*TripsAPI.* For any history, page size, width of int and number of failures. The
pages are sets, so the proofs count: the `Rank` of a completed trip is the number of
trips that ended later, and a page is, up to ties, the trips whose rank lies
between its offset and the next (`PageRank`). A completion moves one trip to
another rank and every other rank by at most one, and at one place of the history
only one trip can cross a given rank (`OneMovesUp`, `OneMovesDown`).
`RepeatInv`: the trips that were shown and have a rank on the pages to come are
counted with the repeats, and completions pay for both. `MissInv`: the wanted
trips that were not shown and have a rank on the pages already read are at most
the ends that were moved; a first completion moves no wanted trip forward. At the
end of the walk, `total` counts every row, so no rank is left on a page that was not
asked for (`PagesHoldRows`). `NothingMissed` is about a walk from the first page, so
its theorem assumes that the client begins there or where Postgres refuses
(`FromTheFirstPage`, which TLC evaluates for the run `paging`). Go's ints are in the
proofs as well: that a page parameter as large as the ints themselves cannot make
a walk go on past them is part of `WalkTypeCorrect`, and needs what
`PagingAssumption` says, that the number of a vehicle's trips is an int.

*Process.* The position of `main` says which clients exist and which topics are
subscribed (`MadeInOrder`); whatever ends the process resets all of it.

*Migrations.* The work is divided. What one script makes of a database is a fold
over its statements, and what a fold computes is an induction over data, which
the provers cannot do. But the nine scripts and the databases known at each
version are given, so it is a closed formula, and TLC evaluates it
(`KnownAssumption`, `ScriptsAssumption`): a script up leads from the databases
known at one version to those of the next, a script down back, neither loses
trips, and from version 6 on a script that is run again fails. What is proved
from there is what depends on who runs: any number of init containers, dying
and failing any number of times, each with a version it read some time ago; or
one process, up and down in any order, from any version.

None of the properties is inductive: a process writes the row of the version
after the one it has *read*. `MigrationInv` says that the version rows are
those of one version and the tables are known at it (`Recorded`), and of the
processes one of two things. A process that is alone has read the
version that is current (`KnowsAlone`). Beside others, a container has read a
version from 6 up to the current one (`KnowsBeside`); if it is an older one,
its script fails (`UpLeads`). The same lemma says that a script which does
run leads on from the recorded version, and with `DownLeads`, that trips are
kept. `RolloutOrAlone` leaves out several processes with a database before
version 6, where `ServiceFindsItsColumns` is false: the run `freshrace` is such an
instance (finding 4), `migrate` is not (`InstanceAssumption`, which TLC evaluates).

Only model-checked are the liveness properties `TripsComplete`, `Drained`,
`FetchEnds`, `SignalsEndTheProcess`, `ConsumesInTheEnd` and `MigratedInTheEnd`: the
prover has no liveness under fairness.

## Left out

- The settings are the same for all workers. A deployment that switches
  `DATA_FETCH_ENABLED` while completions are redelivered can leave an old
  `bundlr_id` beside a new key; the model does not show it.
- Contents of payloads: the bytes of compression and encryption, the JSON text of
  an archive (which is never closed with `]`), formatting of tags.
- The generated operations nobody calls; hooks, of which none is registered.
- Column types and foreign keys in the migrations; migrations by an operator while
  containers migrate; goose's other commands (redo, reset, up-by-one and the like),
  any of which `migrate` passes on.
- What Elasticsearch and Postgres make of ties, beyond what they may: the
  properties bound what is lost or repeated to the tied documents and trips.
- Half-written entries of a statement cache: an entry is one map assignment under
  the mutex, and one step of the model. The look-up and the store are two.
- Documents without end: a trip has finitely many, and `FetchEnds` is about those.
- Authorisation, metrics, swagger (a generated text) and
  the chart, whose replicas, init container and probes are in the constants and
  properties of Migrations and Process.
- `WORKER_COUNT`, which nothing reads.

## Plan

1. (done) TripsDB, Consumer, TripLifecycle: the core, its runs and proofs.
2. (done) ESFetch and TripsAPI: paging on both sides, with ties, moved ends and
   ints that wrap; TripHistory between the consumer and the API.
3. (done) Migrations, Process, Statements, Archive.
4. Consumer: settings per worker, for the time of a rollout.
5. (done) Proofs of every safety property that the runs check.
6. Proofs: the hypotheses on the producer, each weakened as far as its theorem
   allows.
