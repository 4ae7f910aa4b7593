# A TLA+ verification of logstream

Modules, TLC configurations and TLAPS proofs kept beside the Go code of
`logstream`, the log ingestion and alerting system of this repository. Paths
below are relative to the repository's root. Every definition that stands for
code is listed with its lines in `PROJECT.json` under `map`.

## 1. The system

| Component | Code | State | Operations |
|---|---|---|---|
| Duplicate filter | `internal/ingestion/pipeline.go` (`checkAndStoreDedup`) | map key → second it was stored, second of the last sweep, a mutex | check and store, with a sweep inside |
| Ingestion pipeline | `internal/ingestion/pipeline.go` | bounded channel, one batch per worker, three atomic counters, a wait group, a context | `Submit`, `SubmitBatch`, workers, `depthScraper`, `Stats`, `Stop` |
| Handlers | `internal/processor/handlers.go` | none of their own | `Ingest`, `IngestSingle`, `PipelineStats`; reads: `Query`, `Stats`, `Throughput`, `Health`, `Ready` |
| Configuration | `internal/config/config.go` | none once read | `Default`, `Load`, `applyEnvOverrides` |
| Ingestor process | `cmd/ingestor/main.go` | where `main` is, the shutdown deadline | start-up, serving, signal, `Shutdown`, `cancel`, `Stop` |
| Middleware | `internal/middleware/middleware.go` | none | `Recover`, `Metrics`, `CORS` |
| Store | `internal/storage/mongo.go` | MongoDB | `New` with the creation of collection and indexes; `BulkInsert`, `WatchErrors`, `LoadRules`; reads `Query`, `AggregateStats`, `BucketByMinute` |
| Alert dispatcher | `internal/alert/dispatcher.go` | the rules under a lock, the circuit breaker | `Run`, `rulesRefresher`, `refreshRules`, `evaluate`, `fire`, `post` |
| Alerter process | `cmd/alerter/main.go` | where `main` is | start-up, select, exit |
| Models | `internal/models/log.go` | none | validation, levels |
| The rest | `internal/metrics`, `pkg/logger`, `cmd/loadgen`, `demo`, `deployments`, `scripts` | | not modelled, see section 7 |

**How they interact.** HTTP handlers, one goroutine per request, call `Submit`
concurrently. `Submit` validates, asks the duplicate filter and tries a
non-blocking send on the channel. A pool of workers receives from the channel;
each collects a batch of its own and calls `BulkInsert` when the batch is full,
when a ticker fires, when the context is done or when the channel is closed and
empty. `main` owns the pipeline: after a signal it shuts the server down with a
deadline, cancels the context and calls `Stop`. The alerter is another process;
the database is all it shares with the ingestors, of which the manifests run
several behind a load balancer. Every process reads its configuration and
creates the logs collection if it finds none; an error ends it and it is
restarted. A goroutine of `WatchErrors`
forwards ERROR and FATAL documents from a change stream over a channel of 256
to `Run`, the only goroutine that evaluates rules and posts alerts, while
`rulesRefresher` replaces the rules every 30 seconds.

**What is hard.** The clock is read before the filter's mutex is taken. The key
is stored before the send is tried. A full channel, a closed channel and a done
context meet in two `select` statements. A flush can store some documents, all
or none, and can hide what it stored behind a timeout. Shutdown has an order
(`Shutdown`, `cancel`, `Stop`) in which each step must be able to return.
The counters are read without a lock. In the alerter a slow webhook, a full
channel, a refresh of the rules, a breaker whose clock is looked at only when
it is asked, a broken stream and a restart overlap. Between ingestors a client
that got no answer sends again, to a process that never saw the event or has
crashed since; processes race for the collection; a query reads a clock, then
a database that changes. `PROJECT.json` lists each
of these at its line under `hazards`, with the properties that cover it.

**What makes each component correct.**

- Filter: a key is let through once per window, remembered long enough, and
  forgotten in the end, whatever the interleaving of readings and sweeps.
- Pipeline: a queued event is in exactly one place until a flush has stored or
  lost it; `Submit` never blocks; every queued event is flushed; `Stop` returns,
  and drains when the context is live.
- Ingestor: an answer means what it says about the events of the request; a
  panic needs a missed deadline; the process exits once signalled.
- Alerter: no event is passed over while the process serves, each event is
  judged by one version of the rules, the breaker cannot get stuck, and a dead
  stream ends the process unless a stalled request to the metrics server keeps
  it.
- Start-up: the environment has the last word, the collection is created by a
  process and with its kind, and coming second costs at most one restart.
- Cluster: a copy of an event too many needs a lost answer, an accepted event
  that is missing needs a crash, a failed write or a full channel before, and a
  client that keeps trying succeeds.
- Reads: a page is the newest there is; the numbers of an answer agree.

## 2. The modules

| Module | Models | Uses |
|---|---|---|
| `DedupeMap` | state and critical section of `checkAndStoreDedup` | |
| `DedupeCache` | the same called by concurrent goroutines: `Read` the clock, `Lock` | `DedupeMap` |
| `Pipeline` | `Submit`, channel, workers, `BulkInsert`, scraper, `Stop` | `DedupeMap`; instances of `DedupeCache`, `Delivery` |
| `Delivery` | abstract: what the pipeline promises its callers | |
| `PipelineStats` | `GET /api/v1/pipeline` over the running pipeline | `Pipeline` |
| `Ingestor` | handlers, `Recover` and the shutdown of `main` over the pipeline | `Pipeline` |
| `Breaker` | the circuit breaker with the settings of `New` | |
| `Alerter` | change stream, dispatcher, refresher, `main` of the alerter, restarts | `Breaker` |
| `Config` | defaults, file, environment and their precedence | |
| `Startup` | both `main`s up to serving, `New` and `ensureCollections`, restarts | `Config` |
| `Cluster` | ingestors with a pipeline each, clients that retry, crashes, one database | `Startup` |
| `Queries` | `Query`, `Stats`, `Throughput` and what they ask of MongoDB | |
| `MC*` | small instances for TLC | |
| `Abstract_proofs` | theorems of the two specifications the pipeline implements | `DedupeCache`; an instance of `Delivery` |
| `Pipeline_proofs`, `PipelineStats_proofs`, `Ingestor_proofs`, `Cluster_proofs`, `Alerter_proofs`, `Queries_proofs` | theorems of the module named before the underscore | that module; `PipelineStats_proofs` and `Ingestor_proofs` also `Pipeline_proofs` |
| `Induction_proofs` | induction over numbers and finite sets, sums | used by `Cluster_proofs`, `Alerter_proofs` and `Queries_proofs` |

**State and actions.** A variable has the name of the field or local it stands
for (`in`, `closed`, `dedupe`, `dedupeAt`, `batch`, `accepted`, `rules`, `out`);
`pc`, `wpc`, `run`, `watch` and `main` are the places goroutines have reached.
One action is one step other goroutines can observe: a clock reading, a
critical section, a channel operation, a write, an answer of the webhook.
Operators such as `Grown` or `Iterated` name single expressions of the code.

- `Pipeline`: a call goes `Reject`, or `ReadClock` (or `SkipDedupe` without a
  key), `Dedupe`, and then `Send`, `Drop` or `SendOnClosed`. A worker's `select`
  is `CtxDone`, `Receive`, `ChannelClosed` and `Interval`; `Flush` is the end of
  `BulkInsert` and of the closure `flush`. `Cancel`, `Close` and `StopReturn`
  are the owner's steps. An event is the call that carries it; two calls with
  one key are an event and its retry.
- `Flush` chooses what the database kept (any subset of the batch) and whether
  the driver failed. `Inserted` is what `BulkInsert` then returns: the number
  kept, or 0 after an error that is not a bulk write exception, even if
  documents were stored.
- `Ingestor`: requests are constants, batches with the calls they make. `Submit`
  takes a request's calls in order, `Respond` and `RecoverPanic` answer. `main`
  goes `serving`, `draining`, `cancel`, `stop`, `wait`, `exited`. `expired`
  records that the deadline ended `srv.Shutdown` with handlers running;
  net/http then still serves open connections until the process ends.
- `Alerter`: `oplog` is the order of inserts, `versions` the contents the rules
  collection has had; `rules`, `fresh` and `snap` are positions in it.
  `evaluate` is `Receive` (with its copy of the rules), one `Fire...` per match
  and `EvaluateReturns`; a post is `FirePost` and `PostReturns`. `Scrape` and
  `ScrapeEnds` are a request to `/metrics` or `/healthz`, of which only matters
  whether there is one (`scraping`): `Exit`, the return of `srv.Shutdown` and
  the end of `main`, waits until there is none, and empties the memory of the
  process. `Restart` begins again.
- `Breaker` is external (sony/gobreaker), reduced to what one caller at a time
  can tell: counters are kept in the states that read them, and a generation
  that ended during a call shows as an expired one when the call reports.

- `Startup`: a process goes `start`, `list`, `create`, `listen`, `serving` or
  `exited`. `List` and `Create` are two steps, so another process can come
  between. `CreateUnanswered` and `Die` are faults, `Restart` begins again; an
  ingestor that cannot listen takes `Die`, an alerter ignores that error.
  Connecting works if the URI is that of a server, `connect_timeout` is longer
  than `New` takes there (`Latency`) and the driver accepts the sizes of the
  pool; the indexes only warn of errors. `losses` only records how often a
  process exited because another had created its collection first.
- `Cluster`: a request is one call of `Submit` in one step (`Pipeline` shows
  what its interleavings come to), the channel and the batches of an ingestor
  are one bag (`held`), the filter the set of keys in its window (`memory`). A
  full channel with room in the batches makes both `Queue` and `Drop` possible.
  `Crash` empties all three. `HandleUnanswered` loses the answer, `GiveUp`
  leaves a request behind that `HandleAbandoned` still handles. `silences` and
  `fate` only record what happened.
- `Queries`: a request reads the clock (`Ask`), MongoDB begins its scan
  (`Begin`), and the answer is of a set of documents between those there at the
  beginning and those there at the end. One aggregation is one scan, whatever
  its facets. A sort leaves ties in any order, so `Pages`, `Tops` and `Buckets`
  are the sets of answers MongoDB may give.

Some operators are headed "Mutant of". They are plausible bugs of the operator
that follows, no specification uses them, and each property of a passing run is
violated when its mutant takes the operator's place (`mutants` in
`PROJECT.json`).

**Abstract specifications.** `DedupeCache` says what the filter does on its
own; `Pipeline!ImplementsCache` maps each call in `Submit` to one caller.
`Delivery` says what callers may rely on without channel, workers or clock:
answers, a bounded set of held events, writes that store or lose them, and a
clean finish; `Pipeline!ImplementsDelivery` maps channel and batches to `held`
and gives the bound `BufferSize + BatchSize * Workers`.

## 3. The runs

| Run | Question | Instance | Distinct states |
|---|---|---|---|
| `DedupeCache` | how long is a key remembered? | 2 callers, 2 keys, window 4, sweep 2, 12 clock values | 617 k |
| `Pipeline` | is every event in one place, and are `DedupeCache` and `Delivery` implemented? | an event, its retry, a plain and an invalid event; 2 workers, buffer 2, batch 2, clock 2..4 | 272 k |
| `PipelineLive` | do calls, events and `Stop` get to their end, does `Stop` drain, can a snapshot count an event twice? | 3 plain events, no collectors, 2 workers, buffer 1, batch 2, one `GET /api/v1/pipeline` | 125 k |
| `Ingestor` | what do answers and an exit mean? | a batch of 2, a single retry, a garbled and a too large request; 1 worker | 31 k |
| `Alerter` | is every event evaluated once, in order, by one rule version? | 3 documents, 2 contents of the rules, 1 edit, channel of 1, restarts | 2.8 M |
| `AlerterLive` | is a delivered event evaluated, is a dead stream noticed? | 2 documents, no edits | 126 k |
| `Cluster` | when is an event stored twice or not at all, who creates the collection and what does it cost the others, do clients and processes succeed in the end? | 2 ingestors and an alerter in 2 deployments, an event with a key and one without, 2 faults, buffer 1, 2 held | 362 k |
| `Queries` | is a page the newest, do the numbers agree? | 5 documents, 9 requests, limits that are exceeded, clock 0..3 | 101 k |
| `PipelineDuplicate` | violated: a duplicate's twin was queued | as `Pipeline`, buffer 1 | |
| `IngestorExit` | violated: the exit leaves the channel empty | as `Ingestor` | |
| `AlerterRestart` | violated: no event is missed over a graceful restart | as `Alerter` | |
| `AlerterFatal` | violated: every FATAL event fires an alert | as `Alerter` | |

**Why the bounds are enough.** Two callers, two keys and times beyond a window
and two sweeps let a slow caller act before, between and after sweeps of a fast
one. A buffer no larger than the number of events makes it fill and drain, a
batch of two makes both the size and the ticker flush, two workers compete for
the last event and for the exit. One pair of twins is every retry the filter
can tell apart; a clock of three values lets a key expire. `MaxEvents = 2` lets
one request be too large. In `Alerter` `Trip = 2`, `MaxRequests = 2`,
`Interval = Timeout = 1` and four posts take the breaker through all its states
and back; `MaxVersions = 2` gives a refresh that is late and a newer one;
`Buffer = 1` makes the stream wait. In `Cluster` two faults are a lost answer
and a crash, or either twice, which is what a second copy or a loss takes; two
ingestors are a retry that reaches the same process and one that does not; the
deployments have a pair that agrees on the kind of the collection, a pair that
does not, a missing file, one that does not parse and one whose timeout is too
short. In `Queries` five documents exceed the default page, the largest page,
the services and the minutes, all scaled to 2 or 3. Seconds are scaled; only
their order matters. The bounds are the constants `MaxTime` (the clock stops), `MaxVersions`
(edits), `MaxFaults` (crashes, lost or late answers, expired keys), the finite
sets of calls, requests and documents, and `MaxStall`: how
long a goroutine may be held up between reading the clock and locking, which
the code does not bound and the filter's guarantees depend on.

`CHECK_DEADLOCK FALSE` is set where the system ends: calls, requests and
documents are used up, or the process has exited. `DedupeCache` never ends
before its clock does and its callers go on, so there deadlock is checked.

**Fairness.** `Pipeline!Fairness` is weak fairness of each goroutine that can
run: `Submit` once it has begun, each worker (as a whole: its `select` may
prefer any ready case), the scraper, and the return of `Stop`. The Go scheduler
gives that, and the 10 second timeout of a flush ends every `BulkInsert`. Nobody
owes a call, a cancellation or a stop. The receive of a closed channel is not
fair on its own, yet a worker that keeps choosing the ticker with an empty batch
does not exist in the model: such a tick changes nothing and is no step.
`Ingestor` adds that `srv.Shutdown` has a deadline. `Alerter` assumes the same
of `Run` and the stream goroutine; `client.Timeout` ends a post. Its `main` has
no deadline: `srv.Shutdown` gets `context.Background()` and waits for the
requests the metrics server is busy with, which has no timeouts either. So
`Exit` is fair only once no request is left, and `ScrapeEnds` is not owed, for a
client may stall. `DeadStreamEndsProcess` therefore assumes that the server is
without a request again and again (`[]<>(~scraping)`); that new requests cannot
hold `main` up follows, for `Shutdown` closes the listener. Broken streams,
signals, edits, refreshes, inserts and restarts are not owed. `Cluster`
assumes that processes run and are restarted (the Deployments of
`deployments/kubernetes` restart their pods), that handlers and flush tickers
run, and that a client without an answer, or with a 503, tries again: the README
asks for that with its 503 and its idempotency keys. Faults, abandoned requests
and expired keys are not owed. `StartupSucceeds` and `RetriesSucceed` depend on
faults being finitely many; the model has at most `MaxFaults`. A port that stays
occupied is thus outside of what they say, and so is a file whose timeout or
pool sizes nothing can connect with (`Connectable`): no variable overrides
those. To serve means that `New` has returned and the process listens.
`StartupSucceeds` allows any number of restarts on the way; `RaceLostOnce` says
how many of them a race for the collection costs: one at most, none with time
series, and none to at least one of the processes that use the collection.

## 4. What the checks found

- **A dropped event swallows its retry** (`PipelineDuplicate`). `Submit` stores
  the key at line 81 before the send at line 86. After a drop the client is told
  503; its retry within the window is told 202 and discarded. The comment
  promises at-least-once.
- **The shutdown does not drain** (`IngestorExit`). `main` cancels the context
  before `Stop`; a worker may take `ctx.Done()` while the channel holds events
  that were answered 202. What workers hold is flushed (`ExitFlushesBatches`).
- **A restart loses events** (`AlerterRestart`). The README says a resume token
  is persisted; `WatchErrors` uses none.
- **A FATAL event can alert nobody** (`AlerterFatal`). The default rule counts
  rules instead of matches.

Seen while reading, without a run of their own.

*Pipeline and alerter.* With collectors `Stop` also waits for `depthScraper`,
which only the context ends: called first, it hangs. So neither order of
`cancel` and `Stop` drains and returns (`StopDrains` needs a live context,
`StopReturns` a cancelled one or no collectors). An event can be refused as a
duplicate up to 300 + 60 seconds after its twin, for sweeps are 60 seconds apart
(the README says 5 minutes; `DuplicateIsRecent` states the bound that holds); a
batch of which some events were dropped is answered 202 (README: 503 when the
buffer is full); the rules are refreshed every 30 seconds (README: 60); the
circuit breaker forgets failures every 30 seconds, so five consecutive failures
need not open it; `threshold` and `window_secs` of a rule are not used; MongoDB
opens no change stream on a time-series collection, the default kind, in which
case `OpenFails` is the step `Run` takes.

*Exit of the alerter.* `main` shuts its metrics server down without a deadline
(`cmd/alerter/main.go:82`), and that server has no timeouts. After the change
stream broke, or after a signal, a request that stalls keeps the process from
ending, so that it is not restarted and watches nothing. The manifest has a
liveness probe, which fails once the listener is closed and has Kubernetes kill
the container; other ways to run the alerter have nothing of the kind. The
probe is not modelled.

*Ingestion through several replicas.* The README's deduplication is one of each
process: a retry that reaches another replica, or comes after a restart, is
stored again, key or no key (`CopiesNeedSilence` says when). The
`idempotency_key` of the request in the README's example is not a field of
`IngestRequest` and is ignored. `/readyz` does not look at MongoDB or the
pipeline, although its comment says so.

*Configuration.* "All settings can be [...] overridden with environment
variables" (README, likewise `configs/config.yaml`):
only the seven variables of `Config!Replaces` are looked up, so that
`METRICS_PORT`, `BATCH_SIZE`, `BATCH_TIMEOUT_MS`, `WORKERS` and `BUFFER_SIZE`
have no effect. A configuration file that does not exist is no error.

*Reads.* `since` takes a duration; the RFC 3339 time the README shows does not
parse and is ignored. A limit above 5000 gives 200 documents. Windows have no
upper end, although the statistics report one, and include documents whose time
lies ahead. Of more than 120 minutes the oldest are kept. Every bucket of the
throughput carries the zero time, for the driver hands out `primitive.DateTime`
and line 330 of `mongo.go` asserts `time.Time`; `Bucket` models this.

## 5. What is proved

TLAPS proves the theorems below for all values of the constants that satisfy
the assumptions named in the modules:

- `DedupeAssumption`: times are natural numbers and `MaxStall <= Window`; having
  no key is not a key.
- `PipelineAssumption`: finite sets of calls and workers, at least one worker,
  positive sizes. `IngestorAssumption`: a call belongs to one request, at one
  position of its body.
- `StartupAssumption`, `ClusterAssumption`: every deployment configures every
  process, times and faults are numbers; there are finitely many ingestors and
  events; the channel is part of what an ingestor can hold.
- `BreakerAssumption`, `AlerterAssumption`: positive settings and sizes; the
  collection holds sequences of rules, and the rule `fatal-default` is not one
  of them.
- `QueriesAssumption`: times are numbers up to the bound of the clock; a limit
  that parses is an integer, of any sign; the default page is neither empty nor
  larger than the largest. Which documents, requests and filters there are, how
  long a window is and how many services and minutes an answer has room for is
  left open.

**`Abstract_proofs`**, on `DedupeCache`: `TypeOK`, `EntryKept`, `EntryFresh`,
`NoEarlyReadmission`, `DuplicateIsRecent`. The inductive invariant adds to
types that a reading of the clock is at most `MaxStall` old, that an entry and
the moment its key was let through differ by at most that, and that sweep
times relate to entry times. Types alone say nothing of how late a caller
locks, and a late caller is what could delete a young entry or move `dedupeAt`
back. On `Delivery`: types, `TakenOnce`, `CleanFinish`, what every
implementation gives its callers.

**`Pipeline_proofs`**: `TypeOK`, `NothingVanishes`, `NothingTwice`,
`BatchDiscipline`, `StopDrains`, `AcceptedIsStored`, `DuplicateHasTwin` and the
refinements `ImplementsCache` and `ImplementsDelivery`. The first lemma
(`Typing`) fixes types; the second (`PlacesInvariant`) is the joint invariant of
the two place properties, for neither is inductive alone: that a received event
is new to a batch needs that the channel holds it once. The discipline of
batches and `StopDrains` build on them: a worker that exited with a live context
saw the channel closed and empty, and nothing is sent after that. In
`ImplementsCache` each step of a call maps to `Read` or `Lock` of
`DedupeCache`, `Tick` to `Tick`, every other step to a stutter, so that the
filter's theorems hold inside `Submit`. In `ImplementsDelivery` a send takes an
event, a flush stores or loses each event of a batch, the return of `Stop`
finishes, and the capacity comes from counting: the batches together hold at
most `BatchSize` events for each worker, by the pairs of a worker and a position.

**`PipelineStats_proofs`**: `SnapshotCountsOnce`. The loads of one snapshot are
at different times, so the sum is bounded by what happened until the last of
them: each counter already read is at most the number of calls that have
reached its place (`SeenIsCounted`, `RefusalsCounted`), these sets only grow
(`PlacesGrow`), the depth is read last, and at any one time the four places are
disjoint sets of calls that have begun (`FourPlaces`, from `PlacesInvariant`).

**`Ingestor_proofs`**: `EmbedsPipeline` shows that the pipeline inside the
process is a pipeline, so that all of the above holds there. `AnsweredBeforeExit`
and `ExitFlushesBatches` need where `main` is together with the channel, the
deadline and the requests (`Phases`): once `main` has left `draining` without
the deadline no request is open. `PanicNeedsDeadline` and `Refused503` follow
from the joint invariant `Answers`: a request answered 503 had all its calls
rejected or dropped, and a call belongs to one request only.

**`Cluster_proofs`**: `ClusterTypeOK`, `CopiesNeedSilence`, `AcceptedIsKept`,
`ConfiguredKind`, `RaceLostOnce`. The inductive invariant is `Accounts`.
`CopiesNeedSilence` is not inductive: a request whose client gave up is no copy
yet and becomes one after the client has sent again. The invariant counts these
too (`Counted`): copies and abandoned requests together are at most the times
the client was left without an answer, one more once it was accepted (`Credit`),
and those times are at most the faults. `AcceptedIsKept` has to say the same of
every key an ingestor remembers (`Trusted`), for a remembered key is what turns
a retry into an acceptance without a copy. `ConfiguredKind` needs that a serving
process has found the collection (`ServingFound`). `RaceLostOnce` needs more
than its two parts (`Raced`): a process that lost has found its collection and
is not about to create it (`Beaten`), and a collection that is there has a
process that never lost and does not come to create it any more (`Won`). Every
step of a process is one of three kinds (`WaysOut`): it goes on, it loses, or it
creates the collection and so is the one that has not lost; no insert creates it
(`ServingFound`).

**`Alerter_proofs`**: `TypeOK`, `StreamIsKept`, `OneVersionPerEvent`,
`ProbesSuffice`, `RulesMoveForward`. The inductive invariant is `Works`.
Beside types it says that a process without a stream has nothing from one
(`Early`); that a half-open breaker has made as many requests as it has counted
successes, one more during a post (`Probed`); that only the loader whose turn
it is holds a version, none older than the rules in use (`Ordered`); that a
delivered document is in one of the three places and only once (`OnePlace`); and
that what was fired for the document at hand is the beginning of its matches in
the version `evaluate` copied (`FiredSoFar`). Without `OnePlace` a document
received again would add a second version's alerts to the first's. An edit of
the rules changes no version there was (`VersionsKept`).

**`Queries_proofs`**: `PageIsNewest`, `StatsAddUp`, `ThroughputAddsUp`. The
answers rest on counting. A list of as many different elements as a set has
leaves none out (`OrderIsComplete`), so that a document missing from a page comes
after the page's last one in the sorted list, and the page is full. Sets with
nothing in common have sizes that add up to the size of their union
(`SizesAddUp`, by induction over their number), which gives the counts by level
and service (`CountsAddUp`) and those by minute (`BucketsAddUp`). A scan sees at
least what was there when it began and at most what is there at the answer
(`SeenIsBetween`), which gives the bounds on totals. The inductive invariant adds
that nothing is said before the answer, for until then documents come and
`since` and `before` change under it. `AnswersExist` is the other half: every
finite set can be sorted (`OrderExists`, by induction, the element with the
largest key last), so that whatever a scan saw there is an answer.

**Induction over data.** The induction theorems of the library take the
statement as an operator, which the provers cannot instantiate. The lemmas of
`Induction_proofs` take it as a set: a set that holds 0 and with a number the
next one holds all numbers (`NumberInduction`, from the least element of a
non-empty set), and likewise for finite sets (`SetInduction`). With these
`Induction_proofs` shows how a sum over a function changes with one of its
values, `Queries_proofs` that disjoint sets have sizes that add up, and
`Alerter_proofs` what `Selected`, the loop that appends what passes a test, does
to `Append`. `Alerter` defines `Selected` for that reason, as a recursive
function with a set for its test; `SelectSeq` takes an operator.

Every conjunct of `Accounts`, `Works` and the invariant of `Queries_proofs` was
also checked by TLC on the instance of the run before it was proved.

**Only model-checked.** All liveness under fairness (`SubmitReturns`,
`QueuedSettles`, `StopReturns`, `ShutdownCompletes`, `DeadStreamEndsProcess`,
`DeliveredIsEvaluated`, `RetriesSucceed`, `StartupSucceeds`), which is out of the
prover's reach. Every other property of a passing run has a theorem. The runs
that end in a violation state what the code does not do.

## 6. How to run

    tlc -config Pipeline.cfg MCPipeline.tla
    tlapm Pipeline_proofs.tla

Each configuration belongs to the module named in `PROJECT.json` under `runs`.

## 7. What is not modelled

- `Health` and `Ready`: a ping and a constant answer.
- The indexes: their creation only warns of errors, and what MongoDB answers
  does not depend on them. Documents older than the collection's TTL.
- `Metrics` and `CORS`, the Prometheus collectors, the logger, the dashboard,
  the load generator: output, or not part of the running system. The load
  generator never retries, so it is not the client that `Cluster` models.
- Kafka and Redis are configured and documented but no code uses them.
- Payloads: an event is its key, its missing fields, its level and, for the
  alerter, the patterns that match it.

## 8. Plan

Done, in this order: `DedupeMap` and `DedupeCache` with proofs; `Pipeline` with
`Delivery` and proofs; `PipelineStats`; `Ingestor`; `Breaker` and `Alerter`;
`Config`, `Startup` and `Cluster`; `Queries`; the refinement of `Delivery` and the
proofs of `PipelineStats`, `Ingestor`, `Cluster`, `Alerter` and `Queries`.

Next: a bound on the posts to a dead webhook, from the breaker's interval and
timeout. It needs a counter over the breaker's generations, which `Breaker` does
not keep.
