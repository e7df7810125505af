# Streamliner HA in TLA+

Streamliner moves VM availability events from Azure Event Hubs to Azure Event
Grid. The sample `src/samples/ha` is the program: a process that runs in two
roles, `Primary` and `Secondary` (below: backup), each possibly replicated. The
primaries consume; the backups watch a heartbeat blob and take over when it
falls silent. This directory holds the specifications of that program, the TLC
configurations that check them, and TLAPS proofs. All paths below are relative
to `src/samples/ha/pkg/v1` unless they start with `src/`.

## 1. Inventory

| Component | State | Operations | Talks to |
|---|---|---|---|
| Health heartbeat, `tasks/health/health.go`, `tasks/health/store/store.go` | `myHealth`, `peerHealth` with a lock each, `isStarted`, a ticker; the blob `checkpoint/latest` shared by all replicas | `Start` (loop of a writer or of a reader), `WriteCheckpointHealth`, `ReadCheckpointHealth`, `SetMyHealth`, `SetPeerHealth`, `Stop` | blob store; sends `TakeoverOn`/`TakeoverOff` on the health channel |
| Monitor, `tasks/monitor/monitor.go` | `consumer` handle, `isEHConsumerStarted`, the select loop | `Start`, `startMonitor`, `startEventHubConsumer`, `stopEventHubConsumer`, `Stop` | receives from the health channel; owns the consumer; sets `myHealth` |
| Event Hub consumer, `consumers/eventhub/consumer/consumer.go` | `cancel`, the SDK's processor, one goroutine per partition; checkpoints in a blob container | `New`, `Start`, `Stop`, `dispatchPartitionClients`, `processEventsForPartition` | Event Hub, blob store, calls the translator |
| Translator, `tasks/translate/translate.go` | `loggingStarted`, a channel to the logging goroutine | `Next`, `startLogging`, `Stop` | looks up VMs in the cache, calls the publisher |
| Event Grid publisher, `publishers/eventgrid/publisher/publisher.go` | clients of a primary and a secondary grid | `Next`, `publishToGrid`, `sendToGrid`, `Start`, `Stop` | Event Grid; reports `Success`/`Failover` on the health channel |
| VM cache, `tasks/cache/adx/cache.go`, `tasks/cache/store/memory/memory.go` | `store`, `tempStore`, a `sync.Pool`, two locks, a stop channel | `New`, `Start`, `UpdateCacheFromAdx`, `Get`, `Stop` | Azure Data Explorer |
| Metrics registry, `metrics/metrics.go`, `metrics/runtime.go` | three maps with a mutex each (`hm`, `gm`, `cm`), `isStarted` | counters, gauges, `Snapshot`, `Reset`, `Start`, `Stop` | called by all; calls the gauge functions of the health task |
| Chaos service, `publishers/eventgrid/chaos/chaos.go` | `isServiceStarted`, an outage that lasts a while | `Start`, `Stop`, `Fn` | the publisher |
| Application lifecycle, `app/app.go`, `src/samples/ha/cmd/run.go` | an errgroup and its context | `Run`, `Stop` | the `Start` and `Stop` of every task |
| ADX ingestion and logging, `logger/adxIngest/adx.go`, `logger/logger.go` | a map of ingestors, filled lazily and without a lock | `Write` with retries, `getDataIngestor`, `pushData`, `Close` | Azure Data Explorer; called by whoever logs, by the translator's logging goroutine and by the metrics |
| Configuration, `src/samples/ha/pkg/config` | none after start | | all constructors |

The goroutines of a process share one unbuffered health channel: the health
loop and every partition goroutine send, the monitor alone receives. The
replicas share the heartbeat blob, the checkpoint of each partition, and the
partition ownership of the SDK's load balancer.

What is hard here, and what makes each part correct:

* **Heartbeat.** Time: a heartbeat may be written late, read late, and judged
  with a clock that runs ahead; any error ends the loop for good. *Correct*: a
  silence is noticed within a bounded time; a healthy primary is trusted again
  within a bounded time; no false takeover.
* **Monitor.** Takeover messages go out on a change of belief only, so creation
  and stopping of the consumer are correct only if they alternate through every
  interleaving of failures. *Correct*: no live consumer is lost from sight; a
  backup's consumer follows its belief; no two roles stay active together;
  take-over and hand-back happen.
* **Translator.** One error flag for all events of a message; ids looked up
  one by one in a cache that may be swapped in between; every translated event
  handed over a channel to one logging goroutine, which may be writing or gone.
  *Correct*: what is known leaves translated, what is unknown does not leave; a
  message may be cut but not holed; nothing leaves unlogged; the batch ends, unless
  the shutdown has taken away the logger or the receiver of the publisher's reports.
* **Consumer, publisher.** A batch is received, translated,
  published to one grid or the other, possibly cut short, and then
  checkpointed; the client may lose the partition, its process, or the
  checkpoint write at any step, and goes on with `context.TODO()` after losing
  its partition. *Correct*: the checkpoint passes nothing that was not dealt
  with; order is kept; everything is dealt with eventually.
* **VM cache.** Readers look up while an updater refills a second map that the
  pool may have handed out with old rows in it; a query may fail after some
  rows. *Correct*: lookups see one complete query result; failures change
  nothing; refreshes go on; `Stop` works.
* **Registry.** Snapshot calls foreign code with all mutexes held, and that
  code takes locks that are held across channel sends. *Correct*: no circular
  wait; every call returns.
* **ADX ingestion.** The map of ingestors has no lock, and every goroutine that
  logs uses it; each step may fail, possibly after it has taken effect, and is
  retried. *Correct*: no data go out before their table and mapping exist; nobody
  races for the map unless every `Write` before the tasks start has failed; the
  data of a successful `Write` are accepted; every `Write` ends.
* **Lifecycle.** `Stop` reads a flag and then sends on an unbuffered channel,
  while the loop may not have begun or may end by itself. *Correct*: the
  monitor is there as long as someone sends to it; every `Stop` returns.

PROJECT.json lists the hazards one by one, each at its line, with the
properties that would catch it.

## 2. Modules

| Module | Models | Built on |
|---|---|---|
| `HealthCheckpoint` | the health loops of all replicas and the blob | |
| `Failover` | monitors, life of the consumers, publishers' reports | extends `HealthCheckpoint`: composes them with the heartbeat |
| `AtomicCache` | abstract: what the cache promises | |
| `CacheRefresh` | store, pool, updater | `INSTANCE AtomicCache` with a refinement mapping |
| `Translate` | the translator's Next, logging goroutine and Stop, event by event | assumes of the cache what `AtomicCache` says |
| `PartitionLog` | abstract: what becomes of the events of a partition, whoever works on it | |
| `Delivery` | the events of a partition from Event Hub to Event Grid | `INSTANCE PartitionLog` with a refinement mapping |
| `AdxWrite` | abstract: what a Write to ADX promises | |
| `Ingest` | Write, retries, the map of ingestors, tables and mappings | `INSTANCE AdxWrite` with a refinement mapping |
| `MetricsLocks` | locks of registry and health task, health channel | |
| `Shutdown` | all tasks' loops and Stops at the end of `AppBase.Run` | |
| `MCHealthCheckpoint` | symmetry of the replicas for TLC | `HealthCheckpoint` |
| `MCTranslate` | events, two sets of batches and the symmetry of the partitions for TLC | `Translate` |
| `*_proofs` | TLAPS proofs | the modules above |

### HealthCheckpoint

`loop[r]` is where the goroutine of replica `r` is: `select`, inside a blob
call (`write` before and `written` after the store has applied it, `read` before
the store has answered, `judge` after), `send` while it waits for the monitor,
`exited` after an error, `down` when there is no process. `timer` and `pending`
are the `time.Ticker` with its one-slot channel: a tick that finds it full is
lost. Instead of a clock the module keeps ages: `age` of the blob, `readAge` of
the `LastModified` a backup has got and not yet judged. Only comparisons with
the hold time matter, so ages saturate at `Cap` and runs need no length bound;
`Cap` is also the age of a missing blob, as the zero time of
`GetCheckpointLastModify` is. `steady` is a history variable: the ticks a
replica has been Ok without interruption.

A heartbeat is three steps (tick taken and `myHealth` read; blob touched; call
returned), a reading too (tick; `LastModified` taken; verdict and message).
`SetCheckpointFails` may follow the application of the write. `Init` allows a blob of
any age, left by an earlier run, or none; `FreshInit` is the deployment without one.

Assumptions that appear as guards of `Tick`: a runnable goroutine takes a
pending tick before time passes, and a blob call lasts at most `CallTime`, less
than an interval. `ClockSkew` is how far a backup's clock is ahead. The
properties about living primaries are conditional on
`HoldIsLongEnough == Interval + 2*CallTime + ClockSkew <= PreemptionHoldTime`:
the defaults (60 s and 180 s) satisfy it with calls of up to 60 s in total.

### Failover

Adds per replica `starter` (the caller of `startEventHubConsumer`: creating the
consumer, then setting `isEHConsumerStarted`), `held` (`t.consumer # nil`),
`started`, `goroutine` (the one that runs `consumer.Start`: `launched`,
`running`, `ended`), `part` (each partition goroutine: waiting for events,
running the pipeline, or waiting with a report for the monitor). A send on the
unbuffered channel and its reception are one joint step, possible only when the
monitor is in its select (`starter = "idle"` for a backup, whose monitor itself
creates the consumer; always for a primary, whose creation runs beside its
monitor). `stopEventHubConsumer` clears handle and flag in every case, and only
stops what is held and flagged; when closing the stopped consumer fails (`AfterStop`)
the handle is dropped all the same. A batch has a report for every message in it, at
which the partition waits again, and ends after a `Failover`. `TakeoverOffPanics` is the nil `cancel`.
`orphan` is history: a consumer that is live and no longer referred to. `lost`
is history too: the consumer asked for last could not be created, or ended by
itself (an error of one partition cancels all, and `Start` returns nil). The
code repairs neither, so that `ConsumesUnlessLost` and `TakesOver` name them as
the exceptions, and nothing else is one.

### CacheRefresh and AtomicCache

Go maps are references, so the module has a heap: `store`, `tempStore`, `pool`
name maps, `heap` holds their rows. `PoolDrops` is the garbage collector
emptying a `sync.Pool`; a map nothing refers to can be allocated again, zeroed,
like a recycled one, which `CreateBufferStore` clears. `Get` and `GetReturns`
are the begin and end of a lookup under the read lock. `LockStore` is the call
of `locker.Lock`, which holds back new lookups; the swap follows when those in
progress have returned. An update is a sequence of steps (query, rows, completion
information, swap), each of which may fail, with `Attempts` tries. The first
update runs in `New`; nothing is served before it has succeeded.

`AtomicCache` has three variables, the source, the query result at hand and the
view of the readers. The mapping is `taken <- result, view <- heap[store]`: the
swap is the only step that changes the view, and a map in the hands of the
updater must never be the live one.

### Translate

Partition goroutines call `Next`; `pc[p]` is where each is: between messages,
between events, between two lookups of one event, waiting for the logger, in
the publisher. `errs`, `array` and `output` are `errs`, `aa` and
`translatedMsgs`; an event that has been kept is the number of its place. An
event is what the control tells apart: whether `isScheduleEventExpired` rejects
it, and the ids the traversal comes upon, so the regular expression, the JSON
and the fields removed are left out. Ids are looked up one step at a time, and
`Refresh` may come between any two of them, with any table but the empty one;
that is what `AtomicCache` allows and `ViewsAreTables` proves of `CacheRefresh`.
`known` and `ever` are history: the ids every view has held since the call, and
those some view has. The send to the logger is a joint step that needs the
logging goroutine in its select, as `Stop`'s is. The publisher returns only while the
monitor receives its reports: `MonitorEnds` is the step of `Monitor.Stop` that takes the
receiver away while partitions go on. In `Delivery` the translator is
one nondeterministic step that lets any subset through, which covers this.

### AdxWrite and Ingest

`AdxWrite` has, per writer, `busy`, `copies` and `ok`: a Write may ingest
its data up to once per attempt, and reports success only if it has. Ingested
means, for queued ingestion, taken into the queue (`Accepted`). `Ingest`
has the steps of one attempt in `pc` and the number of the attempt of `retry.Do`.
The lookup in the map of ingestors and the assignment are steps of
different times, the assignment with a begin and an end: a lookup beside it finds
either value, or the runtime ends the process (`alive`). A command that fails may
have been carried out, and data may be queued although the call reports an error.
With `CreateTables` off, an earlier deployment has made table and mapping.
`phase` is that of the program: the main goroutine (`Main`) logs while it constructs the
tasks (`health.New` calls `SetMyHealth`, which logs), and only then, with the ingestor in
the map (`stored`) or without, because all of its Writes failed (`missing`), does
`StartTasks` let the others in.
`Write`'s deadline is the reason that every call in it returns.

### PartitionLog and Delivery

`PartitionLog` forgets who works on a partition and where in its batch it is.
Its events are published or skipped; it publishes an event only when every
earlier one is settled, gives up events at most a batch ahead of the first
unsettled one, and puts the checkpoint only behind settled events. The mapping is
`published <- {i : "published" \in outcome[i]}`, `skipped <- {i : outcome[i] \cap
GivenUp # {}}`; an event may be in both, as it may be published twice. The
checkpoint may go back: a client that has lost the partition overwrites the new
owner's at the end of its last batch, or the new owner overwrites that one. Nothing
is skipped by that; events are published again.

One partition. Actors are partition clients, of any consumer of any replica of
a role; a new client starts behind the checkpoint, or at `Latest` without one.
`outcome` is history: what has become of each event. What the translator can
translate is any subset, as the data decides it. `Sent` takes the next event
only. After a double failure the publisher reports `Failover` and drops the rest of the
batch, as `Next` returns. `UpdateCheckpoint` overwrites the blob whoever owns
the partition by then.

### MetricsLocks

A call is the sequence of locks, unlocks and channel sends it performs; `todo`
is what is left of the call each goroutine is in. Values are left out, because
no order of waiting depends on them. The monitor is in its select when it has
nothing left to do. Callers are any number of pipeline goroutines.

### Shutdown

Each task has loops that its `Stop` stops one after the other (`StopOrder`).
`flag` is `isStarted`, `loggingStarted`, `isServiceStarted`. A Stop reads the
flag in one step (`Check`) and is then committed to a rendezvous (`Deliver`),
which needs the loop in its select; the cache has a buffered channel and thus a
`token`. A loop may begin late, may be busy, and the health loop may end by
itself, since its blob calls fail once the context is cancelled; a primary that is BAD
makes none, so that its loop may go on.

## 3. Runs

| Run | Bounds | Question |
|---|---|---|
| `heartbeat` | 2 primaries, 1 backup, interval 2, hold 5, call 1, skew 1, all faults | are verdicts timely, and none false? |
| `fresh_deployment` | the same replicas, hold 4, no skew, no faults; no blob | finding: does a backup take over only after a failure? |
| `failover` | 1 primary, 1 backup, 1 partition, interval 1, hold 1, calls instantaneous, all seven faults | consumer never lost from sight, never undue, missing only where the code gives up; take-over within a bounded silence; take-over and hand-back happen |
| `stop_race` | the same replicas, crashes only | finding: is only a started consumer stopped? |
| `cache` | 2 keys, 1 datum, 3 maps, 2 readers, 2 attempts, 3 kinds of failure | is the cache atomic, does it converge, does Stop work? |
| `delivery` | 2 clients, 2 events, batches of up to 2, all faults | nothing lost, nothing overtaken, a `PartitionLog`, everything dealt with |
| `locks` | 2 pipeline goroutines, gatherer, health loop, monitor | no circular wait, no deadlock, every call returns |
| `shutdown` | monitor, cache, publisher with one chaos loop; role backup | no message and no signal without a receiver; Stops return; the one way in which Monitor.Stop hangs |
| `shutdown_metrics` | metrics, publisher; role primary | finding: is a running collection stopped? |
| `translate` | 2 partitions, 2 ids, 1 datum, 2 batches with good, expired and unparsable parts, logging on | what is known leaves translated, the unknown never; cut, not holed |
| `translate_ends` | 2 partitions, 1 id, 1 datum, the same batches with that id only, logging on | Next returns but for two ways out, both of the shutdown; Stop returns |
| `ingest` | 3 writers, one of them the main goroutine, 2 attempts, tables created, all three kinds of failure | tables before data, no race without an earlier failure, the promise of a Write, an end of it |

Why the bounds are enough to be interesting. *heartbeat*: an interval of two
ticks and calls of one let a write, a read and a verdict overlap with ticks in
every order; the hold time is exactly the smallest that `HoldIsLongEnough`
admits (2 + 2·1 + 1), so an off-by-one in any of them shows; two primaries let one
heartbeat cover for another. *failover*: message, creation and stop interleave
in the single backup; the heartbeat itself is checked with longer calls in
`heartbeat` and its theorems hold in `Failover` for all values (below), so here
calls may be instantaneous. *cache*: a
third map is needed for one to be in the pool while another is filled and a
third is live; with two keys and one datum the four tables differ by which rows
are there, so a row left over from another result shows. *delivery*: with two
events a batch can be of one or two, be cut short after its first event, and be
read again by the other client; with two events in batches of two, the bound of
`PartitionLog` on how far ahead events are given up is never binding, and longer histories
are covered by the theorems, which hold for any number of events, clients and batch sizes. *locks*: two callers are the least that can wait for each other
besides the three special goroutines; the theorems hold for any number.
*shutdown*: tasks stop independently of each other, so a chaos loop that
works for a while, the cache with its buffered channel, and the pair of monitor
and health loop show every kind; the translator's Stop is in `translate_ends`. *translate*: one batch
has an event that may fail before one that cannot, and a message behind both, so
an error that is dropped or kept too long shows; the other has nothing to
pass on; two partitions are the least that contend for the logger; the theorems
hold for any batches. *translate_ends*: with one id the batches still
come to the logger, to the publisher and to nothing to pass on, which is what can keep a
call or not, and the state graph is small enough for liveness. *ingest*: when
the main goroutine has failed, two writers race for the map while a third
comes upon what they have stored; two attempts let the second find what the first has left.

Runs that may stop by design
(everything stopped, failed, or all events delivered) switch off the deadlock
check; `locks`, where nothing may ever stop, keeps it.

Symmetry is used for primaries and backups in the two runs of
`MCHealthCheckpoint`, and for partitions in `translate`; these runs have no liveness, and no property there tells them apart.

### Fairness

* `Failover`: the clock runs, blob calls and creations return, every runnable
  goroutine runs, the monitor gets back to its select. Crashes, errors,
  restarts and traffic are never required.
* `CacheRefresh`: weak fairness of the update and of lookups. The swap waits in
  `lock` for lookups to return while new ones wait, as Go's `RWMutex` does, so
  the writer needs nothing more. Strong fairness of the stop case of the select: Go
  picks among ready cases at random.
* `Delivery`: weak fairness of each client's pipeline and of claiming an
  unowned partition, which the SDK's load balancer does periodically; that a grid
  answers at last, and that the monitor is there to take reports.
* `MetricsLocks`: strong fairness of each goroutine, as Go's mutexes hand over
  to starving waiters and channels queue theirs.
* `Translate`: weak fairness of each call of `Next`, of the logging goroutine's
  begin and of its Write (which returns: `WritesReturn`), the publisher's return only
  while the monitor receives its reports; strong fairness of
  each sender on the two channels, as channels queue their senders and a
  select picks among ready cases at random. Nothing forces a refresh, a call, a Stop
  or the end of the monitor.
* `Ingest`: weak fairness of each Write in progress, whose calls end by its
  deadline.
* `Shutdown`: loops that were launched run, handlers return, and a rendezvous
  that is possible again and again takes place (random select). Nothing forces
  a loop to have work or a call to fail.

Every liveness property is conditional where the code needs help from outside:
`TakesOver` and `HandsBack` on backups that stay up and primaries that stay as
they are; `Converges` on a source that stays put and calls that stop failing;
`Handled` on clients that stop being disturbed. `BatchesEnd`, `WritesReturn` and
`StopsReturn` name the ways out they have: the logger stopped or the monitor ended; the
process dead; the health loop ended before `Monitor.Stop` could signal it. `Stops`,
`StopReturns` and `CallsReturn` are not conditional.

## 4. What the code does otherwise than it says

Three runs are expected to violate their property; each is a statement of a
comment or an error message of the repository.

1. `fresh_deployment`: `tasks/monitor/monitor.go:210` says a takeover happens
   only when the primary fails to write. A backup that ticks before the first
   heartbeat ever, when there is no blob yet, takes over without any failure. A blob
   left by an earlier run is excluded here (`FreshSpec`): that one is a primary's silence.
2. `stop_race`: `isEHConsumerStarted` is set beside the goroutine that starts
   the consumer; a stop in between calls a nil function.
3. `shutdown_metrics`: `Metrics.Stop` is said to signal a running collection;
   `isStarted` is set only when the collection has ended.

Three more things the properties name as exceptions rather than as violations. The map of
ingestors has no lock: if every log Write before the tasks start has failed, they race for
it, two ingestors may be made, and Go may end the process; `RaceNeedsFailure` says that they race only then. A
failed creation of the consumer is logged and never repeated, so that a backup
may never take over (`lost`). `StopsReturn` is stated with the one exception the code has: the health loop
may end on its cancelled context after `health.Stop` has seen `isStarted`, and
then `Monitor.Stop` waits for ever.

Read but not run: `app.New` dereferences its `*Options` whether or not it is
nil; the tasks that `cmd/run.go` hands to `app.Task` lack methods of the task interface
at this commit; some YAML keys are not bound to flags, so that the defaults hold
for them (interval 60 s, hold time 3 min, expiration 5 min).

## 5. Theorems

All are proved for every value of the constants, under the ASSUMEs of the
modules: replicas of different roles differ, times are natural numbers, an
interval is positive and longer than a call, a map is not nil, a client is not
nobody, at least one attempt and a batch of at least one event, and so on. TLC
evaluates each of them.

**HealthCheckpoint_proofs** — `TypeCorrect`, `SilenceIsDetected`
(`DetectsSilence`), `LivingAreTrusted` (`TrustsTheLiving`),
`TakeoverIsNeverFalse` (`NoFalseTakeover`). The properties speak of `steady` and
of a belief that was formed earlier, so none is inductive. `IInv` adds:
`RolesOK`, which loop positions a role can be in and that stopped loops have no
timer; `WriterInv`, which bounds `age` by how long a steady primary's timer,
pending tick and call have been running; `ReaderInv`, which relates `readAge`,
the verdict and `steady[b]` of a backup to the current `age`. From it each
property follows by arithmetic, `NoFalseTakeover` as an action property of the
one step that changes `peerHealth`.

**Failover_proofs** — `Implements`: `FailoverSpec => Spec` of the heartbeat, so
the theorems above hold of the composition too. `FailoverTypeCorrect`;
`NeverOrphans` (`NoOrphan`), `BackupsFollowBelief` (`FollowsBelief`) and
`OnlyOneActive` (`SingleActive`) and `ConsumersAreAsked` (`ConsumesUnlessLost`) rest on an invariant that relates handle, flag,
goroutine and starter of a replica, and, for a backup, these to `peerHealth`
and to whether its loop is in the middle of a message: the alternation of
`TakeoverOn` and `TakeoverOff` is this relation. `OnlyOneActive` combines it with
`TrustsTheLiving`, and `TakeoverIsTimely` (`TimelyTakeover`) combines it with
`DetectsSilence`: within hold time, interval and call time of the last heartbeat,
belief and consumer have both followed. The link is `SteadyIsNotSending`: a backup
whose loop was undisturbed is not in the middle of a message.

**CacheRefresh_proofs** — `TypeCorrect`, `MapsNeverAlias` (`OneOwner`),
`ResultsNeverMix` (`BufferIsOneResult`), and `Refinement`
(`ImplementsAtomicCache`). The strengthening is `UpdaterInv`, which says in
which positions of the updater there is a buffer, a result and unread rows, and
`NoRowLost`: when no buffer exists while rows are read, none has been consumed. From it follow,
besides: `NeverWrittenWhileRead`, as an action property, that no map is written while a lookup is in
it, which Go answers by ending the process; `NothingMissingAtSwap`, that the
buffer at the swap is the whole result; `UpdatesOnlyAdvance` (below).

**Delivery_proofs** — `TypeCorrect`, `NothingIsLost` (`NothingLost`),
`NoneOvertakes` (`NoOvertaking`). The strengthening is per client: whatever is
at or before its cursor and not in its batch has an outcome, its batch lies
between checkpointed and received, and only positions inside the pipeline have
one. It does not mention the owner: the two properties hold because no client,
owner or not, writes a checkpoint before it is through with its batch.
`Refinement` (`ImplementsPartitionLog`) needs one fact more, that what is in hand
lies within `MaxBatch` of the cursor, so that whatever a client gives up is within a
batch of the first event that is not settled. The abstract log alone keeps
`WithinOneBatch`, and so does the detailed one (`GapsWithinOneBatch`). A step of the
pipeline is one of the log or a stutter according to what it records
(`GivingUpImplements`, `SentImplements`, `CheckpointImplements`).
`NothingIsPublishedFromNothing`: a publisher with something left has a first message.

**Shutdown_proofs** — `TypeCorrect` and `MessagesHaveAReceiver`
(`SendersHaveAReceiver`): the health flag is up whenever the loop could send,
and once the monitor's Stop is past the health loop, that loop is not there,
has ended, or goes on without a message: a backup's ends on its cancelled context, a
BAD primary's has none to send (`Quiet`). For the signals of the Stops: a loop other than those of health and
metrics ends only by its own Stop, which is then past it (`EndedByItsStop`,
with the lemma that the places of `StopOrder` are distinct); so a Stop that has
read a flag and sends later still finds its loop.

**Ingest_proofs** — `TypeCorrect`, `TablesBeforeData` (`PushOnlyIntoTable`) and
`Refinement` (`ImplementsAdxWrite`). The strengthening says that an ingestor in
the map, or a writer past the creation of the tables, means table and mapping
exist and one that makes the mapping finds the table (`TablesFirst`: nothing ever drops one, so the race is harmless here), and
that each attempt ingests at most once (`OncePerAttempt`). The mapping is
`busy <- pc # "idle"`. `RacesNeedAFailure` (`RaceNeedsFailure`) rests on `OneMaker`: until the
tasks start nobody but the main goroutine is at work, and an ingestor of its in the map
means that it is past making one; from then on a lookup finds that one, as nothing removes it.

**Translate_proofs** — `TypeCorrect`, `KnownAreTranslated`
(`KnownIsTranslated`), `UnknownAreNotSent` (`UnknownIsNotSent`), `NeverHoled`
(`CutNotHoled`), `AllAreLogged` (`LoggedBeforeSent`, defined beside it: with logging on,
what is passed on has been taken by the logger), for any partitions, ids,
tables and batches. None is inductive: they speak of messages that are done,
and what matters is the one in hand. The invariant is per partition: where it is
(`PlaceInv`); that the events kept so far are a prefix of the unexpired ones, the
whole of it as long as `errs` is down, while `errs` up means that some id was
missing from a view (`ArrayInv`); the same for the messages behind it
(`OutputInv`, `DoneInv`); and `known` below, `ever` above the present view
(`ViewInv`). `LoggerOutlivesItsSenders`: until Stop has returned, the logging goroutine
is there for whoever sends to it, or about to begin.

**MetricsLocks_proofs** — `TypeCorrect` and `NoDeadlock` (`NoCircularWait`), for
any number of callers. Locks and channel have ranks, hm < gm < cm <
peerHealthLock < channel < myHealthLock. What is left of a call is `Good` if it
locks and sends only above what it holds; every call of the code is, as a
lemma about nesting (`WithIsWhole`) and one about sequencing
(`ConcatIsWhole`) show. A circle of waiting goroutines would rise for ever.
`Good` also says that after an unlock the call does not hold the lock any more,
and that none is held at the end. Hence `OnlyHoldersUnlock`: no mutex is unlocked by
a goroutine that does not hold it, which would end the process. And hence
`NobodyIsStuck`, which is more than the absence of circles: whichever goroutines
depend on each other only, one of them can take its next step, because whoever is waited for
is in a call (`WaitedForIsBusy`), and whoever cannot step waits for somebody
(`BlockedWaits`). `NoGlobalDeadlock` is the case of all of them.

`ViewsAreTables` in **CacheRefresh_proofs** says that what lookups see changes
only to complete, non-empty tables: it is the assumption of `Translate`, so the
two modules fit together.

### Liveness, as far as it is proved

Fairness and ENABLED are out of the prover's reach, so no liveness property is a
theorem. What is one is the part of the argument that a larger instance
could break. For calls that take several steps an action property says that no
step of their own leaves them where they are or leads back, and that no step of
anybody else moves them:

* `WritesOnlyAdvance` for a Write to ADX: each step lessens the number
  9 · (attempts left) + (steps left in the attempt), which `WritersNeverWait`
  bounds; the one step with a further guard, the creation of a mapping, has it true;
* `NextOnlyAdvances` for a call of the translator's Next: by message, event,
  ids left to look up, and the place among them;
* `UpdatesOnlyAdvance` for an update of the cache: by attempt, place, unread rows;
* `BatchesOnlyAdvance` for a batch of a partition client: by messages left and
  place, whoever owns the partition by then.

Waiting on others is the other half: `NobodyIsStuck`, `LoggerOutlivesItsSenders`,
`MessagesHaveAReceiver` say that somebody is there. What remains for TLC is that
runnable goroutines run.

These orders are well founded, which is not itself part of the theorems except where a
number is given. The library's induction theorems take operators as parameters and cannot be
instantiated; `LeastElement` (in `Delivery_proofs`), that a non-empty set of natural
numbers has a least element, stands in for them. It follows from the library's theory of well-founded
relations, which needs no such parameter, and induction over a fixed statement can be had from it
by a least counterexample.

Only model-checked: the liveness properties (`TakesOver`, `HandsBack`,
`Converges`, `Stops`, `Handled`, `CallsReturn`, `BatchesEnd`, `StopReturns`,
`WritesReturn`, `StopsReturn`), and the violations. Every invariant and action
property that a run checks is stated by a theorem. The theorems without a property of
a run (`GapsWithinOneBatch`, `NobodyIsStuck` and so on) define theirs in the
module of their proofs.

## 6. Not modelled

* The text of things: JSON, regular expression and removed fields of the
  translator, Kusto statements (`logger/adxIngest/kusto.go`), encodings. An event whose
  time cannot be parsed is one of the expired ones; every event is assumed to have an
  `eventTime` and an `id`, as the code assumes.
* Event Hub's processor, load balancer and ownership; blob store, Event Grid,
  ADX, `sync`, maps under concurrent use and channels: external, by what the
  code relies on.
* The retries of a single HTTP call of the publisher: success or failure at the
  end.
* Values of metrics. A flush replaces its buffers whether or not it could be
  written, but counters are cumulative and nothing promises that every gauge
  arrives: no state a property could be about.
* `AzureDataExplorer.Close`, which the program never calls.
* The closing of the consumer at the end of `Monitor.Stop`, after which the
  process ends, and a panic that ends a process during a shutdown.
* Sick replicas behind a healthy one: reports of all partitions and heartbeats of all
  primaries overwrite each other. `Failover` has these steps; the
  code promises nothing about them beyond what the heartbeat's properties say.
* Configuration and flags, whose values are the modules' constants; test doubles
  and option plumbing, which the program does not run.

## 7. Order of the modules

Written, and best read, in this order: `HealthCheckpoint` (the verdict everything
else rests on), `Failover` (its composition with the consumers),
`AtomicCache` and `CacheRefresh`, `Translate` on top of what they promise,
`PartitionLog` and `Delivery`, `AdxWrite` and `Ingest` (under the translator's logger and all logging),
`MetricsLocks`, `Shutdown`; each with its `_proofs`. What a next step could add is
a composition of `Translate` with `Delivery`, in which the translator's cuts
decide what is handled, and, for `Failover`, an abstract role that is active when its
belief says so.
