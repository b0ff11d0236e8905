# A TLA+ model of the NAS flight-data pipeline

This directory holds TLA+ modules of the pipeline's services, the TLC runs that
check them on small instances, and TLAPS proofs of their main safety properties
for every instance. `PROJECT.json` lists components, runs, mutants, findings,
hazards and theorems, and maps every definition to the lines it models.

## 1. The system

```
FAA SWIM (Solace/JMS) -> bridge -> [fixm.raw] -> normalizer -> [normalized]
   -> filter (LADD) -> [filtered] -> cache-writer    -> Redis    -> api -> web
                                  -> database-writer -> Postgres -> api -> web
   operator -> ladd-admin -> Kubernetes Secret -> filter's list directory
```

Brackets are Kafka topics, each with one partition; every service runs as one
replica and is restarted by Kubernetes. What does not parse goes to a
dead-letter topic.

| Component | State it keeps | Operations | Hard parts | Must hold |
|---|---|---|---|---|
| normalizer (`normalizer/internal/pipeline`) | reader position, batch, worker pool, failure flag | readBatch, process (parse, encode, publish or dead-letter), commit | workers in parallel, partial writes, crash or rebalance in a batch, a record that cannot be read | nothing is committed unprocessed; an envelope is never half published and taken for done; per-flight order |
| filter (`filter/internal/pipeline`) | the same, and the list in force | gate, readBatch, process (parse, block, publish or dead-letter), commit | the list is swapped under the workers; it may expire while Fetch blocks | a listed flight is never forwarded; fail closed |
| list store and lifecycle (`filter/internal/ladd`) | staging, active and archived directories, snapshot in memory | Promote, LoadLatest, Reload, Swap | copies cut off, crash between moves, drops out of order or in the middle of a promotion | no list is lost, the list never goes back, a new list takes effect |
| cache-writer | reader position, Redis hashes with TTL | upsert, delete, skip, dead-letter, commit | ambiguous writes, failed deletes, replays, HSET that merges, start at the end of the topic | a key is as new as the reader; its heading is not outdated |
| database-writer | reader position, batch, transaction; tables airports, flights, positions | readBatch, parse, RecordBatch with retries, commit | ambiguous commits, replays, tied and backward timestamps | committed means recorded; status is the newest; counters count episodes |
| migrations | schema_migrations, advisory lock | Run | two starts at once, death in the middle | each migration once, in order |
| bridge (Java) | JMS session, sends under way; in dev mode the place in the seed files | onMessage: send, wait 30 s, acknowledge; replay line by line | late answers, redelivery, deaths | acknowledged means in Kafka; first copies keep the queue's order; a replay sends the seed's records |
| ladd-admin | the Secret | upload: decode, verify, decrypt, validate, Get, Update | concurrent and old uploads, a mount that changes under the reader | only genuine lists get into force; an accepted list is not overwritten unseen |
| api | none (reads Redis and Postgres) | ListFlights, GetFlight, GetRecord | SCAN against a changing keyspace | a flight cached throughout is in the answer; the track covers the row |
| web | polled state | useFlights, useFlightRecord | overlapping requests | the panel shows the flight selected; the map goes back only by overlap, and catches up |
| census tool | accumulator, snapshot file | Observe, SaveFile, Commit | snapshot and offset taken at different moments | what is committed is counted; the snapshot can be read |
| flight parsing (both writers) | none | Parse, velocity, parsePos | times compared as text, angles at north | the latest position is kept, whole; its heading is right |
| platform | none | dead-letter publish, probes, logging | a publish that fails may have been stored | - |

The hazards that follow from this are in `PROJECT.json`, each at its line with
the properties that would catch it.

## 2. Modules

| Module | Models | Built on |
|---|---|---|
| `StageContract` | what a consumer owes its input topic, without batches, workers, transactions and restarts | implemented by `BatchLoop`, `Filter`, `Normalizer`, `CacheWriter`, `DatabaseWriter` |
| `BatchLoop` | the consume loop that normalizer and filter share, line for line; what a worker does is left open (`Finish`) | |
| `Filter` | gate, process, list snapshot, reloader, start | extends `BatchLoop` |
| `Normalizer` | process of envelopes, partial publishes | extends `BatchLoop` |
| `LaddLifecycle` | Promote, moves, LoadLatest, Reload on a failing disk | |
| `CacheWriter` | loop, Redis, expiry | |
| `DatabaseWriter` | batch, transaction, upsert, retry | |
| `RawTopic` | the topic `fixm.raw` | |
| `Bridge` | `FixmListener.onMessage` and the JMS session | extends `RawTopic` |
| `Replay` | `ReplayRunner`, the bridge in dev mode | |
| `Census` | the census tool: fetch loop, ticker, `SaveFile`, `LoadFile`, one field of the accumulator | extends `RawTopic` |
| `Ingest` | the head of the pipeline: bridge (live or replaying) and census on one topic | composes `Bridge`, `Replay`, `Census` |
| `ListDelivery` | ladd-admin's upload handler, the Secret, the kubelet's mount, the filter's reloader on it | |
| `Migrate` | `migrate.Run` of several writers on one database | |
| `Records` | a flight's record: writers, the API's `GetRecord`, the web's `useFlightRecord` and `App` | extends `Migrate` |
| `LiveMap` | the live map: Redis, the API's `ListFlights`, the web's `useFlights` | |
| `FlightParse` | the choice of a position and its heading, in both writers | |
| `MC...` | the TLC instances: constants, and, in `MCInputs`, `MCLive` and `MCDurable`, several components in one run | |
| `BatchLoop_proofs`, `Filter_proofs`, `Normalizer_proofs`, `DatabaseWriter_proofs` | theorems of the component | extend it and `TLAPS`; the filter's and the normalizer's also `BatchLoop_proofs` |
| `Ingest_proofs` | theorems of the bridge, the replay, the census and of the three together | extends `Ingest` |
| `Records_proofs` | theorems of the migrations and of the way of a record to the screen | extends `Records` |
| `Live_proofs` | theorems of the cache-writer, the live map and flight parsing | extends `CacheWriter`, `LiveMap`, `FlightParse` |
| `Ladd_proofs` | theorems of the two ways a list gets into force | extends `LaddLifecycle`, `ListDelivery` |

An action is one step between two points where another goroutine, Kafka, Redis,
Postgres, Kubernetes or the disk can act.

- `BatchLoop`: `pc` says where `Run` is: `top` (the filter's gate), `fetch` (the
  blocking first Fetch), `drain`, `dispatch` (the send into the channel), `wait`
  (`wg.Wait`), `down`. The jobs channel is `batch[taken+1..sent]`, a worker's job is
  `held[w]`, the WaitGroup is the set `pending`. `Filter` and `Normalizer` split
  `Finish` into the steps of `process`.
- `DatabaseWriter`: the transaction is a private copy of the tables (`tx`) that
  `EndTx` publishes.
- `LaddLifecycle`: a move is a rename or the three steps create, copy, remove.
- `Bridge`: `sends` are the sends the producer has not ended, `waiting` and
  `confirmed` say where `onMessage` is, `acked` and `consumed` are the session's
  view of the queue. A wait that times out leaves its send in `sends`.
- `Replay`: a step reads one line; a record is named by its file and the lines that
  `strip` leaves, so that the order and the bounds of records are visible.
- `Census`: `Run` and the ticker are two processes, each with its place in
  `SaveFile` (`save`), its marshalled snapshot (`data`) and its open file
  (`handle`), as at shutdown both may be in it. The ghost component `counts` of the
  accumulator says which records were folded into it, and how often.
- `ListDelivery`: a handler's `status` is where it is, or what it answered; `base`
  is the resourceVersion its Get returned, `history` the lists the Secret has held,
  whose length is its resourceVersion. The reloader's choice of a name (`chosen`)
  and its reading of the file are two steps, with the kubelet's `Sync` between them.
- `Migrate`: `at` is where a writer is in `Run`, `lock` who holds the advisory lock.
  A writer that dies leaves a session behind (`Ghost`) that keeps the lock, and
  perhaps carries out the script it was sent (`ghost`), until Postgres ends it.
- `Records`, `LiveMap`: requests are in slots; a slot says where the API is in
  answering. In `Records`, `mine` says that the effect that sent it was not
  cancelled; `points` are the updates of a flight whose position is in the table: not
  every update has one (`postgres.go:115-118`), and `Retention` drops old ones. `Select`
  is a click with the render and the effect that follow it: the one render in between,
  with the data of the flight before and `loading` still false, is left out.
- `CacheWriter`: a hash is the offsets of the messages its position and its heading
  are from, as `HSET` leaves fields alone that an update does not bring.
- `FlightParse`: `next` is the index of the loop over positions; fields are numbers
  or `None`; a time is its seconds, the digits written of their fraction, and what they
  say. `Text` gives the order of the strings, `Moment` that of the times.

Data is abstracted to what the properties tell apart. A message is a member of
`Msg`; constants say whether it parses, which flight it is about, and so on. A
list file is its date and its identifiers (`Filter`), its date and whether it
is whole (`LaddLifecycle`), or an upload with its date, entries, signature and
encryption (`ListDelivery`). `normalize` is a function on identifiers with the two
facts that matter (idempotent, blank stays blank). A database row keeps status,
timestamp, origin, destination and counters; the other identity fields behave as
origin does. A message of the database-writer is stamped by its timestamp: one whose
timestamp does not parse is stamped with `time.Now()` at every attempt
(`postgres.go:106`) and is not modelled, so what is said of status and counters is said
of stamped messages. Metrics and logs are left out; *logged error* in a comment means
that the code logs the loss, modelled by `missed`.

External parts are modelled from how the code uses them:

- Kafka: a reader returns the message after its position; a restart or rebalance
  puts the position back to the committed offset, or, for the two writers
  (`StartOffset: LastOffset`), to the end of the topic while the group has none.
  A write or commit that returns an error may have been carried out. A record whose
  bytes have rotted at rest is fetched again and again, without an error
  (`docs/post-mortems/2026-09-03-corrupt-batch.md:24-25,50-53`, and again
  `2026-09-18-bridge-sigill-and-ram-corruption.md`; `docs/roadmap.md:8-10` plans to skip
  such records): `Corrupt` in `BatchLoop` and `DatabaseWriter`. A record is corrupt from
  the start, one that rots after it was read is not modelled, and neither is the
  operator who moves the offset past it by hand.
- Redis and Postgres: the same about errors; a transaction is all or nothing. SCAN
  lists every key that is there throughout, perhaps others, and perhaps one twice.
- JMS: one session in CLIENT_ACKNOWLEDGE; an exception out of the listener makes it
  deliver again from the oldest message that is not acknowledged.
- Kubernetes: restarts the container; replaces the mounted list at any moment;
  refuses an Update whose resourceVersion is not the current one.

History variables (`done`, `missed`, `skipped`, `recorded`, `dropped`, `loaded`,
`gate`, `judged`, `delivered`, `swept`, `cutoff`, `wrote`, `lost`, a row's `first`, a
poll's `always`, `ever` and `fresh`, the accumulator's `counts`) record what happened for the properties and
guard no action.

Definitions commented *Mutant* are wrong variants of the definition that
follows. No specification uses them; each shows that a property can fail.

## 3. Runs

| Run | Part | Checks | Size |
|---|---|---|---|
| `filter` | | `ForwardedWasUnlisted`, `CommittedAccounted`, `SettledWhileUsable` | 2 workers, 2 messages, one of them perhaps corrupt, 3 days, 1 fault |
| `inputs` | messages | loop: `NoSilentLoss`, `ImplementsContract`, `EverySettled`; normalizer: `NormTypeOK`, `CommittedComplete`, `OvertakenInBatchOrFailed` | 2 workers, 2 envelopes, one of them perhaps corrupt, 1 fault |
| | volume | `DeliveredKept`, `NewestNeverBack`, `StagedTakesEffect` | 3 dates, 3 drops, 1 death; both parts 291 thousand states |
| `ingest` | | bridge: `BridgeInv`, with `AckedIsStored`, `FirstCopiesInOrder` and `CopiesAccounted` in it, `LiveForwards`; replay: `ReplaysTheSeed`; census: `FieldIsItsObservations`, `CommittedCounted`, `SnapshotReadable`, `SnapshotCatchesUp`, `CensusTypeOK` | 3 messages, 2 faults of both together; two seeds, replayed more than once: 366 thousand states |
| `live` | cache | `KeyFollowsReader`, `HeadingIsLastGiven` | 2 flights, 3 messages, 1 fault |
| | map | `AnswerComplete`, `BackOnlyByOverlap`, `MapCatchesUp` | 2 flights, 2 polls at once, 2 writes |
| | parse | `BestIsLatest`, `HeadingIsDirection` | 9 positions, up to 3 in an update |
| | delivery | `DeliveryInv`, with `OnlyGenuine`, `RejectedUntouched`, `AcceptedOnce` and `DateOfForce` in it, `StoredTakesEffect` | 4 uploads, 4 days, 2 errors, 2 restarts; all parts 1.05 million states |
| `durable` | writer | `CommittedRecorded`, `StatusIsNewest`, `CountersCountEpisodes`, `RowsAccounted`, `EveryRecorded` | 1 flight, 3 messages, one of them perhaps corrupt, 1 fault, 1 failed transaction |
| | records | migrations: `MigrateInv`, with `AppliedInOrder` and `ReadyIsMigrated` in it, `WritersReady`; panel: `PanelShowsSelected`, `TrackCoversRow`, `LoadingEnds` | 2 releases, 2 flights, 2 writes, 2 clicks, 1 death; both parts 456 thousand states |

Where a run has parts, they are components that share no variable: `part` is chosen in
the initial state and says which of them takes steps, so the run explores the behaviours
of each, one after the other, and a property says of each part what it says of that
component alone. The others stand still. In the records part the panel's requests begin
when all writers are migrated: all they have to do with the migrations is that a writer
must be ready before a row is written.

Each property says in its comment what it states and why it is in doubt. In
short: the stages commit nothing that was not handled and miss nothing without
saying so; the list in force is a genuine list and only gets newer; the two
stores follow the topic through retries and replays; what the bridge acknowledges
is in Kafka; and what the user sees belongs to the flight selected and is as new
as the cache once that is quiet.

### Where the code and the words about it part

Seven runs each refute a statement of the repository. For most of them a property of the
passing runs, in the last column, says what holds all the same.

| Run, property | Statement | What happens | What holds |
|---|---|---|---|
| `batch_loop_at_least_once`, `AtLeastOnce` | `filter.go:119`, `normalizer.go:110` "Commit the batch only if nothing failed; otherwise reprocess on restart." | the loop goes on, and the next batch's commit covers the failed one | what is committed was processed or its failure logged (`NoSilentLoss`, `CommittedAccounted`, `CommittedComplete`) |
| `filter_fail_closed`, `FailClosed` | `filter/README.md:21-24` with a stale list it "stops processing entirely instead of forwarding" | the list is checked before Fetch, which blocks; the batch that comes then is judged by a list that has become stale | it is the list the batch was admitted under or a newer one (`ForwardedWasUnlisted`) |
| `normalizer_order`, `PerFlightOrder` | `normalizer/README.md:44-46` "preserving per-flight order for everything downstream" | two workers publish two updates of a flight in either order | only within a batch, or past an envelope whose processing failed (`OvertakenInBatchOrFailed`) |
| `ladd_newest`, `NewestWins` | `promote.go:15`, `filter/README.md:98-100` "newest date wins" | a list dropped while an older one is being promoted is archived with what is left in staging, and never takes effect | that sweep is the only way to be passed over (`StagedTakesEffect`) |
| `database_writer_episodes`, `RealEpisodes` | `database-writer/README.md:73-75` "count real episodes", `:88-90` "a replayed batch is safe" | `DROPPED` and `ACTIVE` with one timestamp, written again, count the same episode again | without such ties no row counts more drops than there were episodes, and never more reactivations than drops (`CountersCountEpisodes`) |
| `database_writer_drops`, `NeverDropsGoodData` | `database-writer/internal/pipeline/pipeline.go:87-88` "a brief Postgres outage never drops good data", `README.md:88` "At-least-once holds" | until the group has committed once, a restart begins at the end of the topic, past the batch the writer was retrying | everything else is recorded (`EveryRecorded`, `CommittedRecorded`) |
| `live_map_stale`, `NeverStale` | `web/README.md:50-51` "no overlapping or stale responses" | polls overlap, one controller serves them all, and an old answer replaces a newer one | only while they overlap (`BackOnlyByOverlap`), and the map catches up (`MapCatchesUp`) |

Four more statements are not true of the code as they stand, and have no run of their
own, because the property that takes their place states the exception:

- `docs/data-model.md:43-44`, `cache-writer/README.md:59-60`: the position with the
  newest `positionTime` is kept. Times are compared as strings, in which `10:00:00.5Z` is
  before `10:00:00Z`: within one second, of two times with different numbers of digits
  the earlier one may be kept (`BestIsLatest`).
- `cache-writer/README.md:61-62`, `cache-writer/internal/pipeline/pipeline.go:89-90,111-112`:
  on a Redis error "the message isn't committed and is retried". The loop reads on and
  the next commit covers the message, as in `AtLeastOnce`; `KeyFollowsReader` and
  `HeadingIsLastGiven` except such messages (`missed`).
- `database-writer/README.md:88-90`: "a replayed batch is safe". A replayed batch inserts
  its positions again, as often as there were failures (`RowsAccounted`).
- `cache-writer/README.md:64`: "Re-processing is harmless". A replay leaves a hash with an
  older position beside a newer heading until the reader is past that again
  (`HeadingIsLastGiven`).

Other limits of the code can be read off the models:

- A record that has rotted in Kafka stops a stage for good. What is before it is
  processed, and nothing behind it is taken in its place (`Frozen` in `EverySettled`,
  `SettledWhileUsable` and `EveryRecorded`); nothing claims that the stage gets past it.
- A failed promotion leaves a prefix of a list in active, and Reload swaps it in: the
  exception `cutoff` of `StagedTakesEffect`. No delivered list is lost by it
  (`DeliveredKept`).
- `HSET` keeps the heading of an earlier position when the new one has none. It is the
  last heading the flight gave (`HeadingIsLastGiven`), however long ago that was.
- A flight first seen `DROPPED` has no drop counted (the extra one in `Entered`).
- At shutdown the ticker and `Run` may be in `SaveFile` at once and share the temporary
  file, so the snapshot is sure to be readable only until a signal
  (`SnapshotReadable`). Records observed between the save and the commit are committed
  and not in the snapshot, and a death at that point loses their counts (`lost`).
- A message of a type the listener cannot read is redelivered for ever and holds up all
  behind it (`LiveForwards`).
- A corrected list with the date of the one in force waits for a restart
  (`SwapsOnlyForward`).

### Bounds

Every bound is a constant named `Max...` and sits in the guard of the action it
limits. Two workers and batches of two are the least at which workers
interleave, the channel holds a job while another is processed, and a batch has
a first and a last message. A batch need not be full, so two messages (`filter`,
`inputs`) are also two batches, and a commit can cover an earlier failure; three (the
writers) are a full batch and the start of the next. One fault is a crash, a
rebalance or a signal; that two leave the safety properties of the stages true is
proved (section 4). Three days with a maximal age of one let a list become stale. Three dates
give a list older than, equal to and newer than the one being promoted. The
timestamps of the database-writer are 1 and 2: tie, advance and step back.

In `ingest` three messages and two faults let a send time out, end late and be
repeated behind its first copy, with a death of either process in between; the
third message is one the listener cannot read. The seeds have records that end with
a separator and with the file, blank records, and a file without a separator; seven
records are more than one round. In the delivery part of `live` the uploads are two lists of one
date, one that is ahead of the clock at first, and one that is forged and empty; four
days let lists become too old. In `durable` one writer's binary has a
migration more than the other's. Two polls are the least that overlap, and two
writes let a flight come, and change or go, while both are under way. The positions of
the parse part have no time, equal times, times that differ in their fraction or in its
length, an unparsable place, no velocity, and directions around north and south.

Deadlock is checked in every run: when there is nothing to do, a reader can fail
and retry, a ticker fire, an update arrive at Parse, or the kubelet, the user or the
interval act.

### Fairness

- The goroutine scheduler runs `Run` and the workers; Kubernetes restarts the
  container; the reloader's ticker fires: weak fairness of those steps.
- A blocked Fetch returns when there is a message, although transient errors or
  rebalances may come in between: strong fairness of the fetch, where an error
  leads away from it. A corrupt record is the exception, on which Fetch stays for ever:
  `FetchFirst` is not enabled at one, so its fairness asks for nothing there. `Census`
  has no corrupt records, so the fairness of its fetch loop assumes that there are none
  in `fixm.raw` (`SnapshotCatchesUp`).
- After SIGTERM the cancelled context makes Fetch fail: weak fairness of
  `FetchError /\ stopping`.
- A mounted list is loaded by some start (`Start(TRUE)`), and a disk operation
  that is retried every tick does not fail for ever: strong fairness.
- `ingest`: the producer ends every send within `delivery.timeout.ms`; listener,
  fetch loop and ticker are scheduled and the census is restarted: weak fairness.
- Delivery of lists: handlers run, the kubelet syncs the mount, the ticker fires.
- Records: `migrate.Run` goes on, Postgres ends the session of a dead writer, and a
  request is answered or times out: weak fairness. The lock's queue need not be assumed:
  as writers die finitely often, the lock is free in the end for as long as anyone
  waits.
- The map: the interval goes on and a request is answered or times out.

The parts of one run share their fairness conjuncts: in each the steps are of different
parts, or of phases of one part that are never enabled together, so that it is as fair
to each as a conjunct of its own.

No arrival, fault, error or delivery of a list is assumed to happen; faults and
failed transactions are finite by their bounds, which is what "a brief outage"
says.

## 4. Proofs

Each is by an inductive invariant, named in the table. Every one was first checked by
TLC on the instance of its run; `BridgeInv`, `DeliveryInv` and `MigrateInv` are
invariants of a run for good.
`AccumulatorsSound` and the stage contract of the two writers were also checked on the
instances of `ingest`, `live` and `durable`, and the cache part with two faults (2.0
million states); as they are proved, they are not repeated in the listed runs. The constants are arbitrary but for the
assumptions stated in each module (bounds are naturals, a batch is not empty, lists
have dates after zero, normalizing twice is normalizing once, a binary that has a
migration has all before it, a seed is a list of files of lines, the value for no
position is not a position, absent text is not a value of an enumeration, and what the
census reads of a message is a sequence of texts). Fairness is not used.

| Module | Theorems | Argument |
|---|---|---|
| `BatchLoop_proofs` | `LoopSpecInv`, `NoSilentLossHolds`, `CommitAtBarrierHolds`, `LoopTypeCorrect`, `LoopImplementsContract` | `LoopInv`, for type correctness with the two Boolean flags. `NoSilentLoss` alone says nothing of the batch in hand. `PosCovered` and `BatchCovered` say that every offset before the reader, or before a member of the batch, is settled or in the batch: a rebalance moves the reader while a batch is in hand, so the batch is not simply the interval before the reader. `JobsAccounted` says that an unsettled job is pending, and a pending one in the channel or with exactly one worker |
| `Filter_proofs` | `FilterSpecInv`, `FilterTypeCorrect`, `ForwardedWasUnlistedHolds`, `CommittedAccountedHolds`, `EffectiveDateNeverBackHolds`, `FilterImplementsContract` | `FilterInv` adds to `LoopInv` that past the gate the list in force is the one the batch was admitted under or a newer one, that a worker that decided to forward did so by a list of which that is true and which does not name its flight (`Cleared`), and that the topic holds only such forwards. Every filter step is a loop step or leaves the loop alone, so the loop's lemmas are reused |
| `Ladd_proofs` (`LaddLifecycle`) | `LifeSpecInv`, `LifeTypeCorrect`, `DeliveredKeptHolds`, `InForceOnDiskHolds`, `NewestNeverBackHolds` | `LifeInv`: while a file is being promoted it is the newest in active, and its source is removed only after the copy is whole |
| `Live_proofs` (`CacheWriter`) | `CacheSpecInv`, `CacheTypeCorrect`, `CacheNoSilentLoss`, `CacheImplementsContract`, `KeyFollowsReaderHolds`, `HeadingIsLastGivenHolds` | `CacheInv`, as in the batch loop, with the message in hand for the batch; for the types, that a key holds an offset of the topic. `FollowInv`: `KeyFollowsReader` holds up to the group's offset too, which is where a restart puts the reader, and the message in hand is the last one read; a rebalance breaks the latter, hence the condition in the property. `HeadingInv`: `HashOK` says what the property says of one hash, and holds of it when the reader starts again from the group's offset too, so that a heading that a replay leaves ahead of its position lies ahead of the reader as well |
| `DatabaseWriter_proofs` | `DbSpecInv`, `DbTypeCorrect`, `ForeignKeysHolds`, `CommittedRecordedHolds`, `DbImplementsContract`, `StatusIsNewestHolds`, `CountersCountEpisodesHolds`, `RowsOnlyGrowHolds`, `RowsAccountedHolds` | `DbInv`: counters and times hold of the transaction's view as well, which is ahead of the table, so that its commit preserves them. For the foreign keys, `KeysInv`: the transaction's rows refer to airports of the table or of the batch, and both are committed together. `HistoryInv`: the tables hold exactly what the recorded messages say, and the transaction's view what the executed part of the batch says as well, so that a commit, also one reported as failed, keeps it. `CoverInv`, as in the batch loop: what is before the reader or a message of the batch is handled or in the batch. `SiftInv` says what becomes of a message of the batch that parsing has been through: it is in `dropped`, or the transaction will record it; so the offset covers only what is recorded, dropped or skipped, which is the step of the contract that a commit takes. `RowsInv` keeps an account of each message: it can have been read once and once more for each fault, less a reading that is still to come (`Readings`); it is in the batch at most that often; and its rows, with those the batch in hand will add, are at most the readings times the attempts. A reading adds one to both sides or more to the right, a failed transaction adds at most the readings to both, a crash or a rebalance pays for the reading it causes |
| `Ingest_proofs` (`Bridge`) | `BridgeInvHolds`, `AckedIsStoredHolds`, `FirstCopiesInOrderHolds`, `CopiesAccountedHolds` | `BridgeInv`: the one message consumed and not acknowledged is in hand, and no send under way is of a later one; so a send that ends late, after its message was redelivered, stores a message whose predecessors are stored |
| `Ladd_proofs` (`ListDelivery`) | `DeliveryInvHolds`, `OnlyGenuineHolds`, `RejectedUntouchedHolds`, `AcceptedOnceHolds`, `DateOfForceHolds`, `SwapsOnlyForwardHolds` | `DeliveryInv`: a handler past validation has a genuine upload, and each version of the Secret was written by the one request whose Get returned the version before; so no two requests that read the same version both wrote |
| `Records_proofs` (`Migrate`) | `MigrateInvHolds`, `AppliedInOrderHolds`, `ReadyIsMigratedHolds` | `MigrateInv`: only the holder of the lock is between lock and unlock, it knows the newest version that is applied, and a script that a dead writer's session may still carry out is the next in order, with nobody else at work until the session is gone |
| `Normalizer_proofs` | `NormSpecInv`, `NormTypeCorrect`, `CommittedCompleteHolds`, `OvertakenInBatchOrFailedHolds`, `NormImplementsContract` | `NormInv` adds to `LoopInv` that a worker publishes only what its envelope holds, that every message of the topic is a flight of the envelope it names, and that an envelope that is done is complete. `OvertakenInBatchOrFailed` then is `BatchCovered` for the envelope in a worker's hand: a rebalance may have moved the reader back, so it does not follow from the reader's position |
| `Ingest_proofs` (`Ingest`, `Census`, `Replay`) | `IngestInvHolds`, `IngestBridgeInv`, `CensusTypeCorrect`, `CommittedCountedHolds`, `SnapshotReadableHolds`, `ReplaysTheSeedHolds`, `FieldIsItsObservationsHolds` | `IngestInv`: the bridge's invariant and `CensusInv` together, as the census leaves the topic alone and the bridge only appends to it. `CensusInv`: what `Run` will commit next, what each snapshot under way holds and what the file holds cover the group's offset or are listed as lost (`CountsOK`); before the first signal only the ticker is in `SaveFile` (`OneSaver`), so the file is replaced whole. `ReplayInv`: the buffer begins behind a separator or with the file and holds no separator, so its first and last line of text bound a record (`BufferOK`); and what was sent is so many whole rounds and the records that end before the buffer (`Passed`, `CountOK`), to which a record sent adds exactly itself, as no other record lies between it and the buffer. A record's place (`Rank`) is the number of records up to it, so no sorting is needed. `AccumulatorsSound`: every accumulator, in memory, marshalled or in a file, is what the set of its observations (`Seen`, named by record, time and element) says (`Tallied`). One `Touch` adds one observation to both sides (`TouchTallied`); for a whole record the elements are taken one by one, and that the claim holds after the last of them is had from the least element at which it would fail (`UpTo`, `TouchAllIs`), without an induction principle |
| `Records_proofs` (`Records`) | `RecordsInvHolds`, `RecordsMigrateInv`, `PanelShowsSelectedHolds`, `TrackCoversRowHolds` | `RecordsInv`: `MigrateInv` and `WebInv`, of which the second says that a request whose effect was not cancelled is for the flight selected, and that what it read as the row is no more than what was written, and its track holds what of that is still stored |
| `Live_proofs` (`LiveMap`) | `LiveInvHolds`, `AnswerCompleteHolds`, `BackOnlyByOverlapHolds` | `LiveInv`: of the flights cached since a poll began, those it has not read are still in its key list (`PollOK`), and until the last key is read they are cached now; so the HGETALL finds them. Nothing that was read is newer than the cache, and what a fresh poll read is no older than what is shown (`ValuesOK`) |
| `Live_proofs` (`FlightParse`) | `ParseInvHolds`, `BestIsLatestHolds`, `HeadingIsDirectionHolds` | `ParseInv`: the loop's best is the last of the latest, as strings, among the positions examined so far, which needs that comparing them so is a total order up to equality (`EarlierOrders`). What that says of the times is then arithmetic on the digits (`TextIs`, `EarlierIsEarlier`): with equally many digits the orders are the same. The heading is arithmetic on the angle |

Only model-checked: everything under fairness (`EverySettled`,
`SettledWhileUsable`, `StagedTakesEffect`, `EveryRecorded`,
`LiveForwards`, `SnapshotCatchesUp`, `StoredTakesEffect`, `WritersReady`,
`LoadingEnds`, `MapCatchesUp`), since the prover does not treat fairness and
`ENABLED`. Every safety property the passing runs check is proved.

## 5. Plan

1. A record that rots after it was read, and the operator who moves the offset past it.
2. A class of messages that Postgres rejects in every retry, which stops the
   database-writer.
3. Two partitions per topic, should the deployment come to use them.

## 6. Not modelled

Left out for good: metrics, logging, configuration and probes (no behaviour depends
on them), cryptography and XML or JSON decoding (modelled by whether they succeed),
map rendering, the API's probes, CORS and its GET of one live flight (a single
HGETALL), the page that shows the census, the one-shot developer reports (they read
a topic and print, keeping no state), and deployment manifests, of which the modules
assume one partition per topic, one replica per service and a restart after exit.
