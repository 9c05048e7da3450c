# RedBench: models, checks and proofs

RedBench (`src/redbench`) loads a Redis server with a growing number of
concurrent clients.  One *controller* hands a job to several *workers*; each
worker is an HTTP service that runs one benchmark and reports its end.  This
directory holds TLA+ specifications of the controller, of a worker, of the
benchmark loop and its operations on a shared Redis server, of a worker's
registration, of the way the settings of a job take, and of the controller and a
worker together, configurations that check them with TLC, and proofs that TLAPS
checks.

Paths below are relative to `src/redbench/internal` unless they say otherwise.

## 1. Inventory

| Part | Code | State | Operations | Modelled in |
|---|---|---|---|---|
| Job manager | `controller/job_manager.go`, `types.go` | jobs and their assignments, a counter, one lock | `CreateJob`, `StartJob`, `StopJob`, `MarkJobStopped`, `HandleWorkerCompletion`, the goroutines that post `/start` and `/stop` | `JobManager`, `JobLifecycle` |
| Worker registry | `controller/registry.go` | worker -> status, current job, address | register, unregister, update status, update job | in `JobManager` |
| Controller's handlers | `controller/handlers.go` | none of their own: what a handler knows between two locks | start, stop, completion, exit, delete | in `JobManager`; the job status in `JobSelection`; list of workers and health left out |
| Worker service | `service/handlers.go`, `state.go` | status, job, cancel function, under two locks | `/start`, `/stop`, `/exit`, `runBenchmark` | `WorkerService` |
| Benchmark runner | `benchmark/benchmark.go` | stage, semaphore channel, goroutines | `Run`, one goroutine for each operation | `Runner`, and inside an operation `Operations` |
| Registration | `worker/worker.go`, `registration.go` | retry counter, back-off, contexts | register with retries, refresh, unregister, shutdown | `Registration` |
| Completion notifier | `worker/worker.go` | none | one POST, best effort | `WorkerService` (`Notify`), `JobManager` (`HandleWorkerCompletion`), the way between them in `Cluster` |
| Settings of a request | `service/config.go`, payload in `job_manager.go` | the base configuration, shared by pointer | parse, merge, make a connection | `Configuration` |
| Configuration loading | `config/config.go` | none | URLs, environment, YAML | URLs and the environment's connection in `Configuration`; YAML and reflection not |
| Redis client and operations | `redis/`, `../pkg/utils/random.go` | connection; the server's keys | dial, commands, names of keys | `NewRedisClient` in `Configuration`, the commands in `Operations`, the names in `Keys` |
| Runtime configuration | `controller/runtime.go` | none, a view | selects a job, rebuilds its targets | `JobSelection` |
| Metrics | `metrics/metrics.go` | gauges, histograms | observe | only the stage gauge, in `Runner` |
| Command line, UI, dashboards, scripts | `../cmd`, `controller/ui`, `compose-example.yaml` | - | - | not modelled: wiring, clients of the API, assets |

**How they interact.**  The controller calls workers (`POST /start`, `DELETE
/stop`, `POST /exit`) while it holds the job manager's lock.  Workers call the
controller (`POST /workers/register` at the start and every so often, `DELETE
/workers/{id}` at a signal, `POST /workers/{id}/completed` at the end of a run).
Nothing is persisted and no request carries a sequence number or an epoch: a
late one is taken for a current one.  Inside a worker, handlers and the
goroutine of a run share a state under one lock and a cancel function under
another.

**What is hard.**  (1) Locks released between a check and its use: `CreateJob`
and `StartJob`; the list a stop handler chose from; two writes of one registry
entry.  (2) Late, repeated and lost reports.  (3) Requests to workers that fail
or time out after they took effect.  (4) A stop that takes the cancel function
of another run; a stopped run that lives on beside its successor.  (5) The
semaphore and the stages that overlap.  (6) The shutdown of a worker against
its periodic registration.  (7) A controller that restarts and forgets.
(8) Settings translated five times between a client and a run.  (9) Requests that
are given up and handled all the same, on either side of the controller and on the
Redis server.  (10) Keys and leaderboards that several operations write, trim and
give a lifetime to, each in several commands.  Every hazard is
listed at its line in `PROJECT.json`, with the property that watches it or the
reason why none does.

**What makes each part correct.**  Job manager: one running job; no worker tied
to a job that is over; the status of a job agrees with its assignments; ended
jobs stay ended; requests are answered.  Worker: a status of running means a run
at work; a stop reaches the run it is for and ends it; a run reports its own
job.  Runner: never more operations than the stage allows, no stage skipped, no
goroutine left behind.  Registration: a serving worker is known to the
controller again whatever it forgot, a signal ends it.  Settings:
what was asked for is what runs, and no request leaves a trace in the next.
Operations: what they leave on the server does not grow with their number, and goes
away if it should.  Together: the controller starts and stops the runs it means to,
the end of either side's job reaches the other, and a load that outlives its job does
so only because a message was late or lost, a process died, or a run that was stopped
met its successor.

## 2. Modules

| Module | What it is |
|---|---|
| `JobLifecycle` | Abstract: the statuses a job goes through, given which assignments are open. Knows no locks, workers' states or messages. |
| `JobManager` | The controller. Implements `JobLifecycle` (`ImplementsLifecycle`). |
| `JobManagerProofs` | Theorems of `JobManager`, the refinement included. |
| `WorkerService`, `WorkerServiceProofs` | One worker process, and its theorems. |
| `Runner`, `RunnerProofs` | One call of `Run`, and its theorems. |
| `Registration`, `RegistrationProofs` | One worker and its entry in the controller's registry. |
| `Configuration`, `ConfigurationProofs` | One request at a time, from a client to the Redis client of its run, and its theorems. |
| `Keys` | Constant operators: the names of keys and fields, and the batches made of them. Extended by `Operations`. |
| `Operations`, `OperationsProofs` | The commands of several operations on one Redis server, and its theorems. |
| `JobSelection`, `JobSelectionProofs` | Extends `JobManager` by the requests that read the jobs. |
| `Cluster`, `ClusterProofs` | Instantiates `JobManager` and `WorkerService` and adds the messages between them; implements `JobManager` (`ImplementsController`). |
| `MCJobManager`, `MCWorkerService`, `MCOperations`, `MCConfiguration` | Instances for TLC: symmetry, and the sets of inputs. |

### JobManager

`wStatus` and `wJob` are the registry, `jobStatus` and `asg` the jobs map, `lock`,
`lockJob` and `task` say who holds `JobManager.mu` across steps and how far it is
with each worker.  `starting`, `stopping` and `marking` hold the jobs that a
handler chose before it let go of the lock.  `delivered` records which `/start`
requests may have reached their worker, whatever their answer was: from then on
the worker may report.

The registry's lock is held for one map access, so each registry operation is a
step; the job manager's is held for a whole `StartJob` or `StopJob`, HTTP calls
included, so these are several steps (`StartMarkBusy`, `StartMarkJob`,
`SendJobToWorker`, `StartJobReturn`; `StopJob`, `StopJobOnWorker`,
`StopJobReturn`) between which the registry changes and the jobs do not.  The
final loop of `StopJob` and the two registry calls of `HandleWorkerCompletion`
are one step each, because while the lock is held the registry's only other
writers set the values these calls set.  A request to a worker is answered,
fails without effect, or takes effect and is not answered.  The team of a job is
any set of idle workers, since the registry is a Go map.

A worker may report on any job it was ever handed, at any time and repeatedly.
`LateReport` names the reports on an assignment that is not open, which the code
applies like any other; the action properties say that nothing else does what
they do.

### WorkerService

Each access to the shared state or to the cancel function is a step.  A run
carries the identifier of the `/start` request that began it, which the code does
not have; `cancelFn` is the run whose context the stored function cancels, and
`owner` the run that wrote the current state.
Requests come at any time, and a `/start` may come before the end of the run that was
stopped last; no property excludes that.  Two history variables let the properties say
what becomes of such overlaps.  `client` is `"waits"` as long as each request was sent
after the answer to the one before, as the job manager does while no request times out,
and `"any"` after that.  `meddled` holds the runs that lost something to another while
they were at work: their place in the state (a new `StartBenchmark`, or the outcome of
an older run written over it), their cancel function (taken over by the launch of
another run, or cleared by its end), or the stop that was for them (it came before they
were launched).  Neither variable guards a step.

So `StopReachesRun` holds for all clients and all overlaps, of every run that is not in
`meddled`; `EachRunReportsItsJob` says what is reported of a run that owns the state and
of one that has lost it.  How bad it can get is bounded as well: `OneRunPerStop`, a
second run is at work only because of a stop, and each stop makes room for one.

### Runner

`clients` is the number of elements in each stage's channel, `op` and `stageOf`
the goroutines.  A stage has a new channel and does not wait for the operations
of the one before, so their stages overlap.  An operation ends early on a
cancelled context, at each of the places the code looks at it, or on a Redis
error; `StageLimit` and the set of operations bound a behaviour.

### Registration

The main goroutine, the one that waits for a signal, the one that registers
periodically, and one registration at a time on the wire.  A request may take
effect and lose its answer, or take effect after the worker has given up on it.  A
process that ended may be started again (`Restart`): its name is made of host and port,
so that the entry it left, and requests of its last life that arrive only now, are taken
for its own.  `known` is history: has a registration arrived since the process began?
Back-off is counted in units of 200 ms.  The context that `Start` is given is
never cancelled by the program's main function, so only a signal ends the loop.

### Configuration

Settings are functions from names to values; JSON objects and structs of pointers
are partial ones, so that *absent* and *zero* differ where the code tells them
apart and are the same where it does not.  One name stands for each group of
settings the code treats alike.  A URL is a record, and what parsing and rewriting
do to its scheme, host and port is modelled; certificates for mutual TLS and the
target label are left out.  Requests follow each other on one worker, whose base
configuration they share.  `Asks` gives, for each configuration and environment a
worker may have loaded, what its clients ask for.

### Operations and Keys

Between the second look at the context and the release of its slot, an operation
sends commands through `internal/redis`: write, give a lifetime, read, and for
leaderboards trim, union, trim the union, give it a lifetime.  `pc` is the command an
operation is at, `db` the server.  `After` is the control flow of the goroutine and of
the functions it calls: an error ends the function that met it, a cancelled context
the operation, but only where the code looks.  Each command has a timeout, so an
operation may go on while its command is still to be done (`late`); the client library
repeats a command whose connection breaks (`Resent`); an error may hide a success
(`Errs`); a pipeline of `EXPIRE`s may be done in part; keys expire.  `hurt` records the
operations that met an error or the cancellation, and the properties say how far the
damage goes.

The server's commands are external: a key that does not exist is an empty one,
`ZUNIONSTORE` replaces its destination and its lifetime, `MSET` takes lifetimes away,
`ZREMRANGEBYRANK` counts from the lowest score.  A member is its place in the order of
scores; batches of different operations are different, as their nonces are.  In `Keys`
a random string is any string, a counter is cut to its width, and the body of a tag is
one value, because the key size leaves the same room for it in all keys of a batch.
`Quotients` are the repeated divisions by which a number's digits, and their count, are
found.

### JobSelection

`GET /api/v1/runtime-config` lists the jobs twice, each time under the lock:
`ReadConfig` and `ReadTargets`, between which jobs may start, stop and be
relabelled.  `times` is the order of the times that the code writes with each status.
`GET /job/status` is `ReadConfig` alone.

### Cluster

The steps of the two processes are those of their own modules; `Cluster` says when a
message makes them happen.  `start` and `stop` say where a job's requests are: posted,
taken by the worker, given up by the controller and still on their way (`late`),
handled after that (`strayed`), failed.  `faults` counts what went wrong, and `Fault`
guards those steps.  A job sends one `/start` and at most one `/stop` to the worker, so
its identifier names requests and run alike.  `mistaken` is history: the jobs to which
the report of another job's run was applied, which the controller cannot tell.

`ImplementsController` joins the two ways of modelling the network: with `taskSeen` and
`deliveredSeen` for the controller's view, every step of the pair is a step of
`JobManager` or none.  So the reports which `JobManager` reckons with include all that
a real worker sends, and what holds of `JobManager` holds of the controller here.

The worker gets its requests from this controller only, and one worker stands for all,
because workers meet only through the controller, where `JobManager` has several.  The
`/exit` request is left out: its effect, a process that ends, may come at any moment.

## 3. Runs

| Run | Bounds | States | What it shows |
|---|---|---|---|
| `JobManager_late` | 2 workers, 2 jobs | 158 000 | `SingleRunningJob`, `NoLeakedWorker`, `RunningJobAwaitsReport`, `EndedMeansClosed`, refinement of `JobLifecycle`, `TerminalIsFinal`, `FreedOnlyWhenDone` |
| `WorkerService_safe` | 3 runs, 2 stops, 2 job names | 1 802 000 | what a worker keeps to whatever its clients do (`ReportedJobWasAccepted`, `RunningIsBacked`, `OneRunPerStop`, `StopReachesRun`), and as long as they wait for answers (`RunningMeansRunning`, `CancelledMeansStopped`, `EachRunReportsItsJob`) |
| `Runner_run` | stages of 1 and 2 clients, 3 operations, the leaderboard workload | 30 000 | `SlotsMatchOperations`, `CompletedMeansEveryStageRan`, `OnlyWindDownAfterReturn`, `RunEnds`, `GoroutinesStop` |
| `Registration_all` | the code's own 5 attempts and limit of the back-off | 1 200 | `ServesOnlyIfKnown`, `ComesBack`, `ShutdownEnds` |
| `Configuration_requests` | every partial set of 5 settings, 2 values, 4 workloads, over 6 base configurations; 6 URLs and none for each kind of target, 10 TLS sections, over 48 environments | 158 000 | `OverridesReachTheWorker`, `RunsDoNotLeak`, `DialsTheTarget`, `SecureAsTheSchemeSays` |
| `Cluster_safe` | 1 worker, 2 jobs, 1 fault | 361 000 | `ControllerWaits`, `StartsRunningJobsOnly`, `StopsItsOwnRun`, `NoOrphanRun`, refinement of `JobManager` (`ImplementsController`) |
| `Cluster_live` | 1 worker, 2 jobs, no fault | 17 000 | `EndedRunEndsItsJob`, `StoppedJobsRunEnds` |
| `Operations_all` | 2 operations of each workload, batches of 3, 2 boards, `TopK` 1, an alphabet of 2 digits, 1 hurt operation besides a cancellation, 1 late command at a time | 365 000 | `BoundedBoards`, `BoundedUnion`, `NothingImmortal`, `FullBatches` |
| `JobSelection_views` | 1 worker, 2 jobs, 1 reader | 19 000 | `SteadyJobIsShown`, `RequestsAreAnswered`, `ReadsAreAnswered` |

The bounds are small but reach the interesting cases.  Two jobs and two workers
are what a race between jobs takes: an old job and a new one, and within a job a
worker that is done and one that is not; a third job meets the controller's code only
through `hasRunningJob`, which asks for one other.  For liveness one worker is enough,
because the critical sections treat workers alike and wait for each.  Three runs
are what a worker needs for a stopped run, its successor, and a stop that reaches
neither.  Three operations are all that can be in flight with stages of one and two
clients, so the set of operations bounds nothing there; and a request to a worker
meets only the base configuration, which every earlier request has left, so one
request after another is enough.

In `Cluster_safe` one fault is enough for each way in which a load can outlive its job,
since each takes at most one thing to go wrong, and two jobs for what the next job meets.
The ways named by `r \in mistaken` and `r \in meddled` take no fault at all: the run of a
stopped job is still at work when the next job is given to the worker, and then ends by
itself.  It clears the cancel function of its successor, writes its outcome over the
successor's state, and reports under the successor's job, which ends that job for the
controller while its run goes on.  When the controller then starts a third job, the
worker answers 409.  `ControllerWaits` and `StopsItsOwnRun` are stated for these cases
too, and name them: no refusal unless a report was mistaken before, and a stop meets the
run of its job unless the `/start` of that job was refused.  The invariants were also
checked with 3 jobs and no fault, where the refusals occur, and with 2 jobs and 2 faults;
these runs take longer and show nothing that the theorems, which hold for any number of
jobs and faults, do not.  Two operations with `TopK` 1 are the least that can trim what the other has just added; an
alphabet of two digits makes a batch of three need a second digit, and makes random
keys coincide.  `Registration_all` is bounded by the code's own constants.  The
properties with theorems hold for all values of the constants.

`Runner`, `Cluster` and `Operations` are checked without deadlock
checking, because there the behaviour really ends: `Run` returns and its goroutines
end; all identifiers are drawn and all messages dealt with; all operations are done.

### Runs that refute what the code or its documents say

| Run | What is said | What happens |
|---|---|---|
| `JobManager_stopped` | a test: "Verify job is stopped" | a report under way during the stop turns the job to completed or failed |
| `Operations_trim` | "trims the sorted set to keep only top K" | ranks count from the lowest score: the top is cut off and the bottom stays |
| `JobSelection_targets` | "the most recent job if none are running" | the last of a list in map order, which may be any job |

`PROJECT.json` quotes each with its line.  Each passing property has a mutant, an
operator marked `Bug:` in the modules, that changes the code's model the way a
mistake would and breaks the property.

Other comments that the code does not live up to, seen while reading it and visible
in the models, without a run of their own:

* `job_manager.go:172`, "all workers receive their assignments before we consider the
  job started": a failed or skipped `/start` is only logged (`SendJobToWorker`).
* `job_manager.go:212`, "all workers receive stop signals before we mark them as
  idle": workers whose `/stop` failed are marked too (`StopJobReturn`).
* `controller/handlers.go:264`, "If latest job exists and is already completed": the
  last element of a list in map order is any job (`StopMarkPick`).
* `controller/registry.go:100`, "returns workers that are currently idle": the report of a
  run that was stopped as it ended comes when its worker runs the next job, and marks the
  worker idle whatever job it is about (`ApplyReport`; `FreedOnlyWhenDone` names the
  exception).
* `service/state.go:21`, "the singleton benchmark instance": a start after a stop runs
  beside the run that was stopped (`StartBegin`).
* `service/handlers.go:260`, "notify controller of failure if jobId set": a run that
  outlived its stop reports under the job of its successor, or not at all (`Report`;
  `ReportsAsOwner` in `EachRunReportsItsJob`, and `mistaken` in `Cluster`).
* `worker/worker.go:123`, "Unregister from controller on shutdown": a periodic
  registration under way brings the worker back, and the entry of a process that is gone
  is given jobs until it is removed or the process is started again (`RefreshTick` while
  the watcher is at `Unregister`, or a registration in `late`).  No property excludes it,
  since nothing in the code does.
* `../CONTROLLER_USAGE.md:103`, "preserving TLS intent": the scheme of a cluster URL is
  cut off by the controller and nothing else says TLS (`Target`; `SecureAsTheSchemeSays`
  states that such a run never has TLS).
* `../README.md:76`, "rediss:// for TLS": settings read from the environment overwrite
  what the URL had set, at `config/config.go:324` (`LoadRedisConnection`).
* `redis/operations.go:121`, "Guarantee uniqueness for non-tagged case": the replacement
  digit may make the key equal to another one (`UntaggedKeys`), so `FullBatches` is
  stated for tagged keys; a key size of 0 makes that line panic (`KeysAssumption`).
* `metrics/metrics.go:248`, the stage is the "number of clients": operations of the
  stage before are still in flight (`Spawn`).
* `config/config.go:102`, "0 disables unions": a zero is not sent (`Propagated`).
* `../README.md:111`, request over environment over file: a target in the request
  discards the environment's TLS settings (`Connection`).

## 4. Fairness

Liveness is checked under fairness of the program's own steps only; nobody is
assumed to send a request, a signal or a stop, or to start a process again.

* `JobManager`, `JobSelection`: weak fairness of the loops and of the requests to workers, because
  each has the HTTP client's timeout (`config.Controller.HTTPTimeout()`), which turns
  no answer into the failed branch.
  Strong fairness of the handlers that wait for the lock: it is taken and released
  in between, and Go's mutexes hand over to a waiter that starves.  A reader waits for
  the same lock and gets it likewise.
* `Cluster`: as fair to the controller as `JobManager`; weak fairness of the worker's
  handlers and of its runs' goroutines, but not of `RunReturns`: a run need not end by
  itself.  A request that the controller waits for arrives, fails or times out; a report
  that is not lost is handled, with strong fairness, since it waits for the lock.
  Liveness is checked without faults, and its properties say so (`faults > 0`): with
  them neither is promised, a lost report is never sent again.
* `Runner`: weak fairness of the loop, the stage's timer, the poller and the
  operations, which have a timeout for each command.  `1 <= MinClients <=
  MaxClients` is assumed; the code checks neither (see the hazards).
* `Registration`: weak fairness of retries, ticks and the shutdown; strong fairness
  of a successful registration, that is, of a controller that is not unreachable
  for ever.  `ShutdownEnds` does not need the latter.

## 5. Proofs

The theorems hold for every value of the constants, from the assumptions named in
the modules (`MaxJobs \in Nat`, `NoRun` is not a run, the first stage is
within the last one looked at, ...).

* **Controller** (`JobManagerProofs`).  `SingleRunningJob` and the rest are not
  inductive: that the job the lock is held for is running, what the assignments of
  a job in its middle look like, that a job reaches a worker only once it runs, is
  what makes a step keep them.  `IInv` adds these (`LockInv`, `AssignmentInv`,
  `DeliveryInv`); `Invariant` proves `Spec => []IInv` action by action, and
  `TypeCorrect`, `AtMostOneRunningJob`, `WorkersAreNotLeaked`,
  `RunningJobsAwaitAReport` and `EndedJobsAreClosed` follow.
  `JobsFollowTheLifecycle` proves the refinement: each step maps to one of
  `JobLifecycle`, or to none.  `EndedJobsStayEnded` and `WorkersAreFreedWhenDone` are
  the action properties: what only a late report can do.
* **Worker** (`WorkerServiceProofs`).  Two invariants, the second over the first.
  `FreeInv`, for any client: a run at work that nothing meddled with owns the state, and
  until it is cancelled it can be (the status says "running" or a stop is at work, and
  once it is launched the cancel function is its own); hence `StopsReachTheirRun`.
  `RunsWaitForStops` is proved by counting: the two sets of `OneRunPerStop` grow and
  shrink by one element at a time.  `SerialInv`, for clients that have waited so far, says
  where handlers can be together with which runs, however many runs there are.  The
  action properties rest on a lemma for one step (`CancelledStep`, `ReportStep`), which
  the composition cites too.
* **Controller and worker** (`ClusterProofs`).  The invariants of the two modules hold
  here as they are: each step of the pair is a step of `JobManager` or none
  (`RefinementStep`), and a step of `WorkerService` or one that takes reports away
  (`WorkerSees`), so that their own step lemmas are cited through instances.
  `ClusterInv` adds what joins them.  `RequestInv`: none is out for a job that has not
  started, and one that the controller waits for is of the job it holds the lock for.
  `ReachedInv`: the worker knows only what has reached it; this lets each report be one
  that `JobManager` reckons with, and so gives the refinement,
  `ControllerIsImplemented`, and with that of `JobLifecycle` by `JobManager` the
  composed one, `JobsFollowTheLifecycle`.  `PhaseInv`: how far a request is at the
  controller and at the worker.  `EachForItself`: a report is the last thing a run does,
  an answered stop has reached its run or the run was meddled with, and a job ends by the
  report of its run, by a `/stop` for it, or by a report that was mistaken; hence
  `NoRunOutlivesItsJob`, with its list of ways in which a load escapes, whatever the
  number of faults and however the runs overlap.  `QuietInv`, without faults: what
  a handler of the worker is busy with is what the controller waits for; the run of a job
  that is running, or about to be stopped, owns the worker's state; and, until a report is
  mistaken, a worker that says "running" runs that job; hence `TheControllerWaits` and
  `AStopFindsItsRun`.  `ControllerKeepsItsPromises`,
  `OnlyLateReportsDisturb`, `WorkerKeepsItsPromises` and `RunsReportTheirOwnJobs` say
  that what is proved of the two parts is true of them together.
* **Readers** (`JobSelectionProofs`).  `ReadersDoNotDisturb`: every step is one of
  `JobManager` or none, so its theorems hold here too; with them `AnswersAreOfOneJob`.
* **Runner** (`RunnerProofs`).  `RunnerInv` relates the counters of the channels to
  the sets of operations that hold a slot, by their cardinalities; from it slots are
  not leaked, no stage is skipped, and nothing but winding down follows the return.
* **Operations** (`OperationsProofs`).  `ServerInv` says that a late command belongs to
  an operation that was hurt, and that boards are finite.  Over it
  `LeaderboardsAreBounded` is proved by what each command does to the members that no
  operation still owes a trim: an addition adds only owed ones, a trim leaves at most
  `TopK`, and the last step of an operation comes after its own trim.  `UnionIsBounded`
  and `KeysAreMortal` go the same way, by the command that an operation is at.
  `BatchesAreFull` is about numbers: `Base36WidthForMax` leaves room for every counter
  of a batch, and numbers that fit have different names (`WidthSuffices`,
  `PaddedIsInjective`).  Its inductions go over sets of numbers (`SetInduction`, from the
  well-foundedness of `<`), and that the recursive function `Quotients` exists is proved
  as well (`IterationExists`).
* **Registration** (`RegistrationProofs`).  `RegistrationInv` says which goroutine can
  be where together with which, in every life of the process; a serving worker has been
  heard of.
* **Settings** (`ConfigurationProofs`).  `ConfigurationInv` says what the request on its
  way, the body at the worker and the run have to do with what the client asked for, for
  any sets of settings and values and any URLs.  `SettingsArrive` follows a setting
  through the controller's decoding, its payload, the worker's merge and its last
  correction; `TheTargetIsDialled` and `TLSFollowsTheScheme` follow a URL.
  `AsksAssumption` says that clients send URLs, TLS sections and settings and not
  something else.

Only model-checked: the liveness properties (`RunEnds`, `GoroutinesStop`, `ComesBack`,
`ShutdownEnds`, `EndedRunEndsItsJob`, `StoppedJobsRunEnds`, `RequestsAreAnswered`,
`ReadsAreAnswered`), since fairness and ENABLED are beyond the prover.  Every other
property of a passing run is stated by a theorem.  What the three runs of the second
table refute is shown by a counterexample and needs no proof.

## 6. Not modelled

* The UI, the command line, dashboards, compose files and scripts: clients of the
  API, start-up glue and assets.  Logging, latency histograms, failure counters and
  pool statistics: output that nothing in the program reads.  Of two runs that share
  the stage gauge after a stop, which one shows is not modelled.
* YAML and overrides by reflection: any configuration may be loaded.  Certificates.
* `LastSeen` (no decision reads it), addresses and ports of workers, the list of
  workers, the health answers, the text of answers and errors.
* Functions of `redis/` and `pkg/utils` that no workload calls: `ZIncrMember`,
  `ZRange`, `ComposeTaggedKey`, `NewRedisClientLegacy`.
* Identifiers of jobs that repeat because a controller restarted within the second
  (`job_manager.go:77`); stages that are configured empty or the wrong way round
  (`benchmark.go:53`).  Both are among the hazards, with the reason.
* Liveness in the presence of faults: nothing in the code sends a report or a request
  to a worker again, so nothing is promised that could be checked.
