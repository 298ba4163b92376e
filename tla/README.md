# Specifications of go-metrics-stas

TLA+ models of the metrics agent and the metrics server of this repository,
the TLC configurations that check them on small instances, and proofs that
TLAPS checks for every value of the constants. Paths below are relative to the
repository.

## 1. The system

An **agent** polls runtime and system metrics, and from time to time sends all
of them to a **server**, over HTTP or gRPC. The server keeps gauges (the last
value) and counters (the sum of all increments) in memory, in a file beside the
memory, or in PostgreSQL, and tells audit observers of updates.

| Component | State | Operations | Hard behaviour |
|---|---|---|---|
| Values and `MemStorage` (`internal/repository/storage.go`) | two maps under an RWMutex | `UpdateGauge`, `UpdateCounter`, `Get*`, `GetAllMetrics`, `UpdateBatch` | int64 overflow; one result map for two name spaces |
| File storage (`internal/repository/filestorage.go`) | `MemStorage`, a file and a `.tmp` file, a ticker goroutine | updates (which save if `StoreInterval` = 0), periodic save, start and stop hooks | savers overlap without a lock; crash between system calls; gauges JSON refuses; restart from what is there |
| Agent (`internal/agent/agent.go`) | current metrics, the channel `jobs`, a WaitGroup, a context | collect, dispatch, work, `Shutdown` | full channel, closing a channel others send on, stop before or during start |
| Delivery (`internal/agent/client.go`, `grpc_client.go`, `collector.go`) | attempts of a `SendBatch`, `PollCount` | send, time out, retry | lost answers, late requests, overtaking |
| Handlers, gRPC method, service (`internal/handler`, `internal/grpcserver`, `internal/service`) | one goroutine per request | single and batch updates, reads, list | read after write, half applied batches |
| Audit (`internal/audit`) | observers | `Notify` starts a goroutine per observer | no order, lost at exit |
| Server lifecycle (`internal/server`, `internal/grpcserver/run.go`, `internal/handler/health.go`, `cmd/server`) | fx hooks in order, two listeners, a channel of signals | start, listen, stop, wait for a signal | hooks that fail or hang, requests that outlive the HTTP shutdown, `GracefulStop` without a limit, a signal that meets the stop |
| PostgreSQL storage (`internal/repository/pgstorage.go`) | a table | upserts and queries with retries | retry of what was committed, swallowed errors |
| Middleware (`internal/middleware`, `grpcserver/interceptor.go`) | per request | subnet, decrypt, decompress, verify, compress and sign | order of the stages, keys that differ, cut bodies |
| Pools (`internal/pool`) | buffers and gzip readers that wait | get, put back | an object used by two, a text read after its buffer went back |
| Cryptography (`internal/crypto`) | none | encrypt, decrypt, load keys | a wrong key |
| Configuration (`internal/config`) | none | read flags, JSON file and environment | which source decides; durations that round to 0 |
| Tools (`cmd/reset`, `cmd/linter`) | none | | |

Interaction: the agent's dispatcher hands snapshots to workers over `jobs`;
workers and `Shutdown` call `SendBatch`; requests reach the handlers through the
middleware; handlers call the service, the service one `Storage` call per
metric; then `Publisher.Notify`. The stop hooks run in reverse order of
registration: signals, gRPC, HTTP, storage, logger.

What makes each part correct is in section 3; the list of hazards, each at its
line, is in `PROJECT.json`.

## 2. Modules

| Module | Models | Notes |
|---|---|---|
| `MetricsStore` | the maps and their operations, as pure operators | a missing key is `Missing`; counters have `2 * Half` values and wrap |
| `FoldProofs` | | lemmas: induction over a finite set, sums over one, two's complement; used by the proofs about counters |
| `FileStorage`, `MCFileStorage` | `filestorage.go` | extends `MetricsStore`; one step per critical section or system call |
| `DurableStore` | nothing: what the file storage promises | abstract; `FileStorage!Durable` instantiates it |
| `FileStorageProofs` | | theorems about `FileStorage` |
| `Agent` | `agent.go` | one step per critical section, channel operation or call of `SendBatch` |
| `AgentProofs` | | theorems about `Agent` |
| `Delivery` | `client.go`, `grpc_client.go`, `collector.go`, and what the server does with a batch | one step per attempt, loss, metric applied, answer |
| `DeliveryProofs` | | theorems about `Delivery` |
| `MetricsServer`, `MCMetricsServer` | handlers, gRPC method, service, audit, `MemStorage` with its lock | extends `MetricsStore` |
| `ServerProofs` | | theorems about `MetricsServer` |
| `ServerLifecycle` | the server's process: hooks, listeners, signals | one step per hook, signal, request step or timeout |
| `ServerLifecycleProofs` | | theorems about `ServerLifecycle` |
| `Config` | `internal/config` | pure operators, one per option or conversion |
| `Wire`, `MCWire` | encoding in `client.go`, `internal/crypto`, `internal/middleware`, `internal/pool` | extends `Config`; one step per stage of a request |
| `WireProofs` | | theorems about `Wire` |
| `PostgresStorage`, `MCPostgresStorage` | `pgstorage.go`, the table, the pool of `config/db` | extends `MetricsStore`; one step per statement, answer, error or timer |
| `PostgresProofs` | | theorems about `PostgresStorage` |

How state corresponds to code:

* **FileStorage.** `mem` is the `MemStorage`, `mu` its mutex where it is held
  across steps (`UpdateBatch`), `saver[g]` the local state of goroutine `g`
  inside an update or `saveToFile` (`pc`, the snapshot taken, the inode of its
  open file), `dir` the two directory entries, `data` the inodes, `phase` the fx
  lifecycle. A system call is a step: `Create` truncates the inode the tmp name
  has, whoever has it open; `Rename` moves whatever is there. `Fault` makes any of
  them fail, `Crash` ends the process between any two steps. `ver` and `upd` are
  history: the number of updates the store has seen.
* **Agent.** `jobs` is the channel (nil, open, closed, and its buffer), `wg` the
  workers added to `workersWG` that are not done, `run`, `sys`, `disp`, `worker`
  and `shut` the places of the goroutines. Go's channel rules are modelled: a
  parked select is woken by the first case that becomes ready, a receive from a
  full buffer lets the parked sender's value in, a closed channel yields what is
  buffered and then its end, a send on it panics, and among ready cases any is
  taken. A tick may come at any time. `sent`, `dropped` and `reports` are history.
* **Delivery.** `report[n]` is a snapshot and the state of its `SendBatch`,
  `attempt[n][k]` what has become of its `k`-th request. A timeout changes the
  client only.
* **MetricsServer.** `req[n]` is the goroutine of a request; an update is a load
  and a store under `mu`, a read is one step while `mu` is free; `pending` are the
  goroutines `Notify` started.
* **PostgresStorage.** `table` are the committed rows, `session[<<c, k>>]` what has
  become of attempt `k` of caller `c`, `owner` the row locks, `call[c]` the place of the
  caller in `retryPG` and in its closure, `conns` who holds a connection. A caller may
  lose its connection at any time (`Lost`), with an error that `isPGConnException`
  retries or not; what it had sent may still be committed. A `BIGINT` does not wrap:
  the statement fails. The database is modelled from what the code relies on:
  row locks until the end of a transaction, atomic commits, deadlock detection.

* **ServerLifecycle.** `started` are the hooks fx has started and not stopped, `Order`
  the order in which the parts register them while fx builds the parts, `phase` the
  process. `sig` is the signal handler: whether `signal.Notify` is in force, how many
  signals the channel holds (it has room for one), whether the hook has closed it, and
  the goroutine that waits on it. `listener[s]` are the HTTP and the gRPC server; the
  HTTP one listens in a goroutine, so `Bind` and `ListenFails` come at any time; a
  listener that fails once it is open is `"deaf"`, and open connections go on. A stop
  hook that drains a server is two steps, between which requests go on. `stored` and
  `disk` are sets of requests: FileStorage has the saves in detail. A database may fail an
  update while it is open, which the code drops (`ApplyDropped`); `dropped`, a history
  variable, has those requests. `StopExpires` is
  fx's 15 seconds.
* **Wire.** Texts are terms (`Gzip(JSON(c))`, its envelope under a key, an `HMAC`).
  `call[c]` is a goroutine in `SendBatch` or `SendMetric` with the two buffers it holds,
  `req[<<c, k>>]` its `k`-th request, on the server the middleware chain from `Enter`
  (buffer, subnet) over `Open` (decrypt, decompress) and `Verify` to `Handle` and
  `Reply`. `text`, `reply` and `input` are what the pooled objects hold, so that an object
  that two use would mix their texts up. `Transmit` may come after the call has
  returned. `Deploy` computes both configurations from their sources with
  `Config!NewAgentConfig` and `Config!NewServerConfig`.

The `UpdateBatch` of the storages is part of the `Storage` interface; the service has a
loop of its own and calls `UpdateGauge` and `UpdateCounter` one by one. `FileStorage` and
`PostgresStorage` cover both ways, `MetricsServer` and `Delivery` the one in use.

## 3. Runs

All runs use two TLC workers. "Violation" runs check one sentence of the
repository's documentation that the code does not keep; `PROJECT.json` quotes it.

| Run | Result | What it shows |
|---|---|---|
| `fs_periodic` | passes | With `StoreInterval` > 0: the file always decodes (`MainIntact`), is never replaced by an older one (`MainNeverOlder`), a clean stop and start keeps the metrics (`CleanRestart`), stopping ends (`StopCompletes`), updates reach the disk (`PeriodicSaveReachesDisk`), and all of it implements `DurableStore` (`DurableSpec`) |
| `fs_sync` | passes | With `StoreInterval` = 0 and three overlapping writers: the file decodes once all are done (`SettledFileDecodes`), is the store of one moment and never a half applied batch if it decodes (`FileIsSnapshot`), and an update that was alone is in it (`AloneUpdateOnDisk`) |
| `fs_sync_durable` | violation | "0 = synchronous write": an update that has returned may be missing from the file |
| `agent` | passes | every report is in one place once (`EachReportOnce`); no panic before a stop; no worker sends after a `Shutdown` that closed the channel is done (`QuietAfterShutdown`); a queued report is sent; `Shutdown` ends |
| `agent_panic` | violation | "graceful shutdown": the dispatcher may send on the closed channel |
| `delivery` | passes | bounds on how often reports are counted (`CounterInBounds`), which reports cannot overtake each other (`NoOvertaking`), `SendBatch` returns |
| `server` | passes | a counter is the sum of what was applied, in two's complement (`CounterIsSum`); the counter value in a reply is the sum of increments that were applied, the client's own and all earlier answered ones among them, and so is each counter of a list, which has all of them (`CounterReplyIsFresh`); OK means that all of an update is valid and applied, a refusal that it is applied up to its first invalid metric or, where the route refuses it, not at all (`OkMeansApplied`); observers hear at most once of an HTTP update that was applied in full, and of nothing else (`AuditIsTrue`), and of all of them if delivery does not fail (`AcceptedIsAudited`) |
| `postgres` | passes | the table holds whole batches and never a wrapped counter (`TableIsWholeCalls`); a call is committed again only if an answer was lost (`CountedOnceUnlessLost`); the counters of a list are of one moment (`ListIsOfOneMoment`); no error path keeps a connection (`NoConnLeak`); every call returns, deadlocks included (`CallReturns`) |
| `lifecycle` | passes | after an orderly stop, roll-backs included, every acknowledged update is in the table or the file unless an open database had failed it when it was applied (`OrderlyStopKeepsAcked`); the signal handler panics only if the HTTP server could not listen or accept (`PanicOnlyUnsignalled`); a signal always ends the process (`SignalEndsServer`) |
| `lifecycle_panic` | violation | "graceful shutdown": when the address is in use, the stop hook closes the channel under the goroutine that waits on it |
| `wire` | passes | a report that arrives whole is answered 200 if and only if it is applied, which it is if keys, subnet and hash fit, and only if those do that are checked on its path (`AnswerFollowsDeployment`); what is applied, answered and signed is each call's own text (`TextsAreOwn`); every option is what its first source says, intervals with their unit, and bad intervals are refused (`ConfigAsDocumented`) |
| `wire_hash` | violation | "checks the header HashSHA256 of POST requests to /update and /updates": on /update it is not checked |

Where the code contradicts its documentation and no run says so, the properties
except just these cases, and nothing is asserted of them:

* a gauge that has the name of a counter is in no list, page or file of `MemStorage`
  (`storage.go:103`, against "returns all metrics", `storage.go:90`): `CleanRestart`
  excepts it, and `CounterReplyIsFresh` is about the counters of a list;
* `UpdateGauge` and `UpdateCounter` of the Postgres storage drop the error of a database
  that fails while it is open (`pgstorage.go:88`, 102), and the update is acknowledged
  (against "increases the value", `storage.go:24`): `OrderlyStopKeepsAcked` excepts it;
* a `RateLimit` of 0 becomes 1 (`config/agent.go:154`, against "0 = unlimited" at 34 and
  51), and a bad `RATE_LIMIT` is ignored (147, against "returns an error" at 43):
  `ConfigAsDocumented` says nothing of them;
* `Shutdown` sends its report beside those of the workers, one more than the limit
  (`agent.go:147`, against "maximum number of concurrent outgoing requests",
  `config/agent.go:51`): no property is about the number of requests under way.

Bounds, and why they are enough:

* `fs_periodic`: two writers (one in a batch while another updates), one metric
  name used as gauge and counter, a gauge value with JSON form and one without,
  `Half` = 2 so that three increments wrap, three updates, one failing system
  call, any number of crashes and restarts. An inode is needed per name and per
  file a saver has open, so they never run out. The proofs remove
  the bounds on writers, names, values, updates and faults for the safety
  properties.
* `fs_sync`: three writers, so that one save can be overtaken, truncated or robbed of
  its tmp file by two others that overlap each other; no crash: in this mode a crash may
  leave an empty file, which follows from the same overlap as `fs_sync_durable`.
* `agent`: limits of -1, 0, 1 and 2, four reports: two in the channel, one in the
  dispatcher's hand and one with a worker, so that the channel is full with
  the dispatcher parked.
* `delivery`: two reports from two senders or a sender and `Shutdown`, two polls,
  one retry: the second attempt is the one that meets a late first one.
* `postgres`: three callers over two connections, so that one waits for the pool
  while two wait for each other's rows; two attempts each; two faults, which let one
  batch be committed twice or two calls once more each; `Half` = 3, so that the third
  increment is out of range. `TableIsWholeCalls` and `ListIsOfOneMoment` compare the
  counters; gauge rows are in the model but no sum says what they should be.
* `lifecycle`: two requests, of which one keeps a server busy while the other comes at any
  step of the stop; two signals, so that one finds the channel full or closed; every
  storage, with and without gRPC, any listener or database failure. The proofs remove
  the bounds for the safety properties.
* `wire`: two calls and two requests, which are two overlapping calls or a call, its late
  first attempt and a second call that takes its buffers; four buffers, so that
  the pools never run out. 13 HTTP and 4 gRPC deployments run; every option is varied over
  all of its sources on its own, with a value for each and the bad ones.
* `server`: three requests of ten kinds, so that two overlap and a third reads;
  `Half` = 4 lets 3 + 1 wrap.

`CHECK_DEADLOCK FALSE` is used where the program ends: the agent after its stop
hook, the server after its exit, a process that does not start, a bounded number of
reports or requests. The file
storage can always start again and is checked for deadlock.

## 4. Fairness

* System calls return and runnable goroutines run: weak fairness of the steps of
  a goroutine that has begun.
* A Go `select` takes one of its ready cases at random, so a goroutine that meets
  a closed `stopCh` or `ctx.Done` again and again takes it in the end: strong
  fairness of `TickerExit` and `WorkerExit`, and of `PeriodicSave` and `FinalSave`,
  which wait for each other's goroutine or for the mutex.
* `SendBatch` returns because its clients have timeouts; `Delivery` shows that
  for the retry loop from the timers alone, with no assumption on the network.
* PostgreSQL works: it answers, resolves deadlocks and gives up transactions whose
  client is gone (weak fairness of `Commit` and of `Abort` in those cases). `Exec` has
  no timeout in the code, so without this a call may wait for ever.
* `ServerLifecycle`: fx runs its hooks and its timers fire (`StartStep`, `StopStep`), and the
  goroutine that waits for a signal runs (`WaiterReceives`). That requests end, that the
  listener opens or that anybody sends signals is not assumed: `StopExpires` ends a
  stop that hangs.
* Nothing is assumed of ticks that the agent takes, of requests or of crashes.

## 5. Proofs

TLAPS checks these from the modules' own assumptions: those about the file
storage for every number of writers, names, values, updates and faults, those
about the agent for every rate limit and number of reports, those about the
delivery for every number of senders, retries, polls and reports, those about the
server's process for every set of requests and number of signals, those about
requests for every number and set of them, those about PostgreSQL for every
finite set of callers and number of connections, retries and failures, and those about
the texts of reports for every set of calls, attempts, buffers, readers and
configurations. Every safety property of the passing runs, invariant or action
property, is the statement of a theorem here, and so is the refinement of
`DurableStore`; what the runs alone show is liveness.

`FoldProofs`: the provers cannot instantiate the library's induction theorems, which
take a formula as a parameter. `SetInduction` and `NatSetInduction` take the *set* of
the arguments for which the formula holds instead, and follow from the least element
of a well-founded relation (`WFMin`). With them the recursion behind the folds of the
community modules is shown to have one solution, and `SumOver` (`MapThenSumSet`)
the laws of a sum: it can be taken apart at any element, split, compared term by
term, changed in one term. `TwosComplementAdd` says that wrapping around after each
addition or once at the end is the same.

`FileStorageProofs`:

* `TypeCorrect`: `Spec => []TypeOK`.
* `PeriodicFileIntact`: `Spec => []MainIntact`. `MainIntact` alone is not
  inductive: a rename makes the tmp file the main one. `PeriodicInv` adds that
  at most one goroutine is saving (`OneSaver`: only the ticker or, after it has
  ended, the stop hook) and that what a saver has finished writing is whole
  (`TmpIsPrivate`).
* `FileHoldsSnapshot`: `Spec => []FileIsSnapshot`, in every mode. `SnapshotInv`
  says of every inode and every snapshot in a saver's hand what the property says
  of the file, since a saver's tmp file may be taken over by another.
* `FileNeverOlder`: `Spec => MainNeverOlder`, from `ForwardInv`: the snapshot of
  the one saver is at least as new as the file.
* `SettledFileIsWhole`: `Spec => []SettledFileDecodes`. Savers of the synchronous mode
  truncate and rename each other's tmp file, so nothing keeps one apart from the rest.
  But a file that does not decode always has a saver that is about to write a whole
  list to it, under whichever name it then is (`TornIsWritten`), and no saver is cut
  short by an orderly stop (`StopsInOrder`).
* `CleanStopLosesNothing`: `Spec => CleanRestart`. `CleanInv`: updates end before the
  storage stops and the periodic saver before the final save (`StopsInOrder`), so that
  nobody disturbs the final save, which is of what the store holds (`FinalSaveOK`);
  and once it has succeeded the file has that until the next start (`CleanFileOK`).
  `SavedAndLoaded` says what `loadFromFile` makes of a list of `GetAllMetrics`.
* `AloneUpdateIsSaved`: `Spec => AloneUpdateOnDisk`. `AloneInv` follows an update that
  nobody has overlapped so far: the tmp file is its own, and what it is about to write
  or rename reflects it.
* `PeriodicRefinement`: the periodic mode with a stop that is not cut short implements
  `DurableStore`. The refinement mapping (at the end of `FileStorage`) shows the list
  the file decodes to as `disk` and the snapshot of a running saver as `pending`;
  `CommitInv` relates the finished tmp file to that snapshot, which is what makes a
  rename a `Commit`.

`AgentProofs`, each from `TypeInv` (`TypeOK`, and a goroutine that carries a report
has one in its hand):

* `TypeCorrect`: `Spec => []TypeOK`.
* `NothingSentAfterShutdown`: `Spec => []QuietAfterShutdown`. By `StartInv` `wg` holds
  just the workers that have started and not ended, and the channel is empty
  until all have been started; so after the `Wait` of a `Shutdown` that closed it either
  nothing is left in the channel, and a worker started late finds it closed and empty,
  or all workers have ended and none will start (`QuietInv`). A `Shutdown` that read a nil `jobs`,
  before `Run` made it, closes nothing and is left out: workers may send after it.
* `RunningAgentDoesNotPanic`: `Spec => []NoPanicWhileRunning`, from `CancelInv`: only
  `Shutdown` closes the channel, which `startWorkers` has made, and the context is
  cancelled before it.
* `ReportsAreOnce`: `Spec => []EachReportOnce`. `PlaceInv` says that the reports taken
  so far are those in the channel, in the dispatcher's hand, with a worker, sent
  or dropped, each in one of these; `OnceInv` that no two workers and no two slots
  of the channel share one, and that who neither waits nor sends holds none.

`DeliveryProofs`, from `DInv`:

* `TypeCorrect`: `Spec => []TypeOK`; `TriesInv` bounds the attempts.
* `NeverOvertaken`: `Spec => []NoOvertaking`. `NoOvertaking` alone is not inductive:
  it speaks of acknowledged reports, and what matters is what their attempts did
  before the answer. `GaugeInv` says that no attempt of the later report has
  written the gauge while it is the earlier one's; `TriesInv`, that the one attempt
  of the earlier report is done with and that a report is acknowledged after an
  attempt that was applied in full.
* `CounterStaysInBounds`: `Spec => []CounterInBounds`. The bounds are sums over other
  reports at every step. `CounterInv` says what the counter *is*: the sum, over all
  reports, of the attempts that have passed their counter, times the value; and such
  an attempt counts at least one for an acknowledged report and is one that was made.

`ServerLifecycleProofs`:

* `TypeCorrect`: `Spec => []TypeOK`.
* `SignalledStopDoesNotPanic`: `Spec => []PanicOnlyUnsignalled`. `SignalInv`: until the
  signal hook has stopped, a shutdown that was asked for is announced, by a
  `ListenAndServe` that failed at once or later, by a signal in the channel or by one
  the goroutine has received.
  It needs that a start that fails does so before the signal hook, the last
  one, has started.
* `OrderlyStopIsSafe`: `Spec => []OrderlyStopKeepsAcked`. `KeepInv`: requests are under way
  at a server only while its hook has not stopped, unless a stop has failed; once the
  storage's hook has stopped, neither server's is left, so nothing is applied after the
  last save or after the database was closed: what was applied is in `stored` or, where
  the database failed while it was open, in `dropped`. That such an update is
  acknowledged at all contradicts `storage.go:24`, see section 3.

`ServerProofs`:

* `OkIsApplied`: `Spec => []OkMeansApplied`. `Sound(n)` says of each request what the
  answer will rest on: the items it has passed are valid, one that its route
  refuses has passed none, one under the lock is at a valid item, and (`Fulfilled`) one
  with an answer has either passed all of them or stands at an invalid one. `InOrder`, that
  requests arrive in the order of their numbers, keeps a number from arriving twice.
* `AuditHolds`: `Spec => []AuditIsTrue`. `AuditInv` adds the deliveries under way to what
  the observers have received: both are of updates, never reads, that were audited and so
  applied in full (`Heard`), and no request is among both.
* `TypeCorrect`: `Spec => []TypeOK`, from both and `TypeInv`.
* `CountersAreSums`: `Spec => []CounterIsSum`. `SumInv` adds that a request under the lock
  has loaded the counter as it still is (`Locks`), without which an addition could be
  lost, and that what was applied are items of requests that have arrived (`Inside`).
* `RepliesAreFresh`: `Spec => []CounterReplyIsFresh`. The service reads the counter
  after it has released the lock, so the reply is no sum of a fixed set; `FreshInv` says
  from when the value is read to the end that *some* set of applied increments gives
  it, which has the request's own and those of all requests answered before it began;
  and the same of each counter of a list (`ListFresh`).

`PostgresProofs`:

* `HoldersAreTrying`: `Spec => []NoConnLeak`, from `ControlInv`: where in the loop of
  `retryPG` a caller can be, with how many attempts made.
* `CountedOnce`: `Spec => []CountedOnceUnlessLost`. The property counts committed
  attempts and is not inductive: an abandoned attempt may be committed later. `Counted(c)`
  bounds those that *may still be* committed: besides the latest they are no more than
  were charged to `lost`. A pause follows an attempt that is charged or known to be
  rolled back, and only `Connect` adds one.
* `TypeCorrect`: `Spec => []TypeOK`, from `TypeInv`, which adds to `ControlInv` how far a
  caller is in its list and that attempts charged to `lost` are among those made.
* `WholeCalls`: `Spec => []TableIsWholeCalls`. A commit adds a whole batch at once, to a
  table others have changed since its statements ran. `WholeInv` says that every open
  session has the locks of the rows it has changed (`Held`), so no other commit changes
  them, and that what it has executed still fits into the columns (`Fits`), so its
  commit adds what its list says with no wrap-around; `Tried`, that only attempts
  made are sessions, so that each commit counts once. Assumed: finitely many callers.
* `ListsAreOfOneMoment`: `Spec => []ListIsOfOneMoment`. `Moment(c)`: rows read and rows to
  come are those of one table, which was the outcome of whole calls; no commit is
  undone later (`Grows`).

`WireProofs`:

* `TextsStayOwn`: `Spec => []TextsAreOwn`, from a part for each process. `AgentInv`: the
  buffers of a call in progress are its own, out of the pool, the first holds its
  text, and what it sends is that text under the agent's key (`Sealed`). `ServerInv`:
  the same of the buffers and readers of the requests being served, and all they have
  read or will read of a body is the text of its call or a cut end. Only `Attempt`
  relates the two: the request it sends finds its body sealed, and the body does not
  change when the call returns. Assumed: the value for "no object" is no object.
* `AnswerIsDecided`: `Spec => []AnswerFollowsDeployment`. `AnswerInv` says of each request
  which checks it has passed where it is and that it is answered 200 exactly if the
  configurations fit in them (`FateInv`), and that attempts are numbered as
  they are made. That the checks tell the right thing rests on `OpenedIs` (what the
  server can open is what the agent sealed) and on two hashes of one text being equal
  only if the keys are.
* `TypeCorrect`: `Spec => []TypeOK`, from `TypeInv` on top of the two: a part for the
  configurations, the pools, the calls, the requests and what was applied.
* `ConfigIsAsDocumented`: `Spec => []ConfigAsDocumented`. No induction: `FirstIs` and
  `LayeredIs` go through the sources of one option, `WholeSecondsIs` is the rounding,
  `AgentReads` and `ServerReads` go through the options. Assumed: `Unset` is none of the
  values an option has, a bad text is no number, and the sources of a
  number are numbers or say nothing, or, where they are texts, may be malformed
  (`IsTyped`, from the types of the structs they are read into).

Only model-checked: all liveness (`StopCompletes`, `PeriodicSaveReachesDisk`,
`QueuedReportIsSent`, `ShutdownEnds`, `SendBatchReturns`, `AcceptedIsAudited`,
`CallReturns`, `SignalEndsServer`), since fairness and ENABLED are beyond the prover.

## 6. Not modelled, and the plan

All parts that keep state or decide something are modelled, and every safety property
that is checked is proved. What is left to do: an abstract store of atomic calls for
`MetricsServer` and `PostgresStorage` to implement, as `DurableStore` is for
`FileStorage`.

Left out for good: the code generator `cmd/reset` and the linter (sequential, no
state), generated protobuf code, logging, the formats of metrics, events and
pages, and the cryptographic primitives. `SendMetrics` and the generic `Pool` have no
caller; gzip writers are used by one goroutine between taking and putting back. Of
`internal/config`: flags that do not parse (the process ends) and seconds that overflow
a duration. Of PostgreSQL: the migrations, `GetGauge` and `GetCounter`. That `UpdateGauge` and
`UpdateCounter` drop their errors is in `ServerLifecycle` (`ApplyDropped`); in
`PostgresStorage` such a call returns with nothing committed.
