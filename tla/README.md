# Formal models of queue-worker-kit

TLA+ models of the kit (`src/` in the repository: a TypeScript layer over BullMQ and
Redis with an API process that enqueues jobs and worker processes that run them), the
TLC runs that check them on small instances, and TLAPS proofs of the results that matter
most.  Paths below are relative to the repository; `worker/processor.ts` is
`src/worker/processor.ts`.

BullMQ, ioredis and Fastify are dependencies and not in the repository.  Where a model
needs a part of them, that part is written from how the kit uses it, and is marked
external.

To reproduce: `tlc -config JobLifecycle_one_job.cfg MCJobLifecycle.tla` (each `X_run.cfg`
belongs to `MCX.tla`), and `tlapm X_proofs.tla`.

## 1. The system: inventory

| Component | State it keeps | Operations | Hard behaviour |
|---|---|---|---|
| Job processing: `worker/processor.ts`, `worker/create-worker.ts`, `queue/defaults.ts` | In Redis: each job's state, attempts made, stalled counter, lock. In a process: the run in each concurrency slot, its abort signal | fetch, `processJob` (race of handler, deadline and lock loss), classification of the error, `moveToCompleted` / `moveToFailed`, `'failed'` and `'stalled'` listeners | handlers that outlive their attempt, locks that expire under a live process, deaths at any point, two runs of one job at once |
| Dead-letter writer: `worker/dead-letter.ts` | the `dead-letter` queue in Redis, the set of writes in flight, two counters | `record`, `write`, `trim`, `drain` | trims of several processes interleave; adds are sent again after a reconnect; any round trip may fail |
| Shutdown controller: `worker/graceful-shutdown.ts` | whether it runs, the current step, the exit timer | `shutdown()`, signal and last-resort handlers, which report what was thrown (`utils/serialize-error.ts`) | signals arriving again, steps that throw or hang, a deadline over all of them, thrown values that cannot be reported naively |
| Worker process: `worker/server.ts`, `queue/scheduler.ts` | its workers, its writers, the shared client | bootstrap, consumption, six to eight ordered shutdown steps | signals during the bootstrap, Redis away during boot or shutdown |
| Producer: `queue/enqueue.ts`, `api/routes/jobs.routes.ts` (POST) | deduplication keys and jobs in Redis, `jobs_enqueued_total` | validate, add, answer | concurrent requests on one key, adds sent again after a reconnect, an add refused after an earlier sending of it landed |
| API process: `api/server.ts`, `api/app.ts`, `api/routes/health.routes.ts` | `shuttingDown`, requests and probes in flight | bootstrap, POST, readiness probe, four ordered shutdown steps | a flag read before an await and used after it; closing under a running handler |
| Job status route: `api/routes/jobs.routes.ts` (GET) | none of its own | read job, read state, read job again | the job moves on between the reads; the connection drops |
| Redis connection: `queue/connection.ts` | the client, `closing` | build, ping, bounded waits, close | commands queued offline without limit; a hung connection is noticed only when its socket breaks; QUIT is awaited without limit |
| Metrics: `observability/metrics.ts`, `api/routes/metrics.routes.ts` | counters, the depth gauge | increments, sampling at scrape | concurrent scrapes share the gauge; sampling some queues fails |
| Errors: `api/errors.ts`, `utils/serialize-error.ts` | none | error to reply, error to record | circular causes; whose fault a failure is |
| Definitions, configuration, logging, dashboard | none, or parsed once | | |

How they interact: the API process and the workers share nothing but Redis.  A request
becomes a job by one `Queue.add`; a worker fetches it under a lock; an attempt's end is
one atomic script in Redis (`moveToCompleted`, `moveToFailed`), whose reply the process
turns into a `'failed'` event; the listener hands a final failure to the dead-letter
writer, which is again a `Queue.add` and then a trim of three kinds of round trip.  Both
processes build their shutdown from the same controller with steps of their own.

What makes each component correct:

* *Job processing*: an attempt that lost its job cannot finish it; a job's runs are
  bounded; exactly the final failures are reported, each under an id of its own; the
  counters and logs say what BullMQ decides.
* *Dead-letter writer*: the queue stays within its limit; every call settles and is
  counted; a record is evicted only for a newer one.
* *Controller*: each step once and in order; a failed step strands no other; the process
  ends.
* *Worker process*: what a step closes is not in use by what has still to end.
* *Producer*: one job per lifetime of a key; an accepted request has its job; a refused
  one has none.
* *API process*: accepted requests finish; no probe blocks; a draining process is not
  ready.
* *Job status*: a reply's state and its fields are of the same run.
* *Metrics*: a sample that is reported was taken for this scrape, one that is missing is
  missing for a reason.
* *Errors*: a caller is blamed for what validation finds and for nothing else, whatever
  Redis does; an error is always reported, whatever its causes are.

The hazards behind these (the lines where they bite, the properties that cover them) are
the `hazards` of `PROJECT.json`.

## 2. The modules

| Module | Models | Uses |
|---|---|---|
| `JobContract` | what the kit promises about a job: it succeeds or fails for good, once; a new final failure has a larger attempt number; only final failures are recorded | |
| `JobLifecycle` | one queue, its workers, `processJob`, the `'failed'` listener | instantiates `JobContract` |
| `JobLifecycle_proofs` | theorems about it | |
| `DeadLetterContract` | what the writer promises: a write lands or is lost, once, and a landed record is never taken for a lost one | |
| `DeadLetter` | the writer in several processes, each round trip a step | instantiates `DeadLetterContract` |
| `DeadLetter_proofs` | theorems about it | |
| `Shutdown` | the controller, for any list of steps | |
| `Shutdown_proofs` | theorems about it | |
| `SignalHandlers` | the listeners for signals, rejections and exceptions, with `serializeError` | extends `Shutdown` |
| `SignalHandlers_proofs` | theorems about it | extends `Shutdown_proofs` |
| `RedisConnection` | a process's client and the handle's `close()`, with or without an offline queue | |
| `WorkerProcess` | a worker process from boot to exit | instantiates `Shutdown`, `RedisConnection` |
| `WorkerProcess_proofs` | theorems about it | instantiates `Shutdown_proofs` |
| `ApiProcess` | an API process from boot to exit | instantiates `Shutdown`, `RedisConnection` |
| `ApiProcess_proofs` | theorems about it | instantiates `Shutdown_proofs` |
| `Enqueue` | the producer over a client that may start without Redis, drops and reconnects, and its replies | |
| `Enqueue_proofs` | theorems about it | |
| `JobStatus` | `GET /jobs/:queue/:id` beside a job that moves | |
| `QueueDepth` | the queue-depth gauge and its collector under concurrent scrapes | |
| `ApiReads` | both reading routes side by side on one client | extends `JobStatus`, instantiates `QueueDepth` |
| `ApiReads_proofs` | theorems about both routes | |

`MCX` gives `X` its values for TLC (`MCShutdown` those of `SignalHandlers`, which extends
`Shutdown`).  In the modules, an operator `Op_Word` under the
comment "Fault:" is a broken form of `Op` (a dropped guard, a swapped order).  No
next-state relation uses it; `PROJECT.json` names it as a mutant, and with it in place of
`Op` TLC finds the property the mutant belongs to violated.  The lines each definition
stands for are in the `map` of `PROJECT.json`.

### JobLifecycle

Per job: `state` (a delayed job is "waiting"), `attemptsMade`, `stalls`, `deferred` (a
job that stalled too often is failed when next fetched), `lock`.  Per slot: the run in
it, with its attempt, how it ended, the error's kind, and what the catch block predicted.
`abandoned` holds the handlers that ignore the abort signal and run on; `pending` the
dead-letter writes in flight; `terminal` the final failures so far (history), `lost`
those taken by a fault the kit has no answer to.

The actions follow one attempt: `Fetch`, then `Start`, `Reject` (unknown name, invalid
payload) or `FailDeferred`; the end of the race in `processJob` (the handler's return or
throw, `Timeout`, or the loss of the lock being noticed); then `MoveToCompleted`,
`MoveToFailed` or, for a run whose lock is gone, `FinishRefused`; then `OnFailed`, the
listener; and `WriteDeadLetter` or `WriteFails`.  Beside them: lock expiry, the stalled
checker, a process's death, the operator's retry from the dashboard, removal by
retention.  Data is abstracted to an error's kind: what `instanceof
UnrecoverableError` sees, what only the name check of `isNonRetryableError` sees, and
everything else.

The writer is a single step here.  `DeadLetter` models its round trips, and
`ImplementsContract` there is what justifies the single step.

### DeadLetter

`phase[f]` is where the `write()` of failure `f` is: adding, counting, listing, removing,
settled.  `before` is the order of the wait list; `excess` and `victims` are `trim()`'s
two local variables, which are stale as soon as another call's trim runs.  `AddLands`
may land twice (`AddReplyLost`: the client drops the connection after the add landed and
sends it again; the record's id makes the second a duplicate).  `missed` remembers that a
trim failed or died after its record landed; any later successful count clears it.

### Shutdown, WorkerProcess, ApiProcess

`Shutdown` has the steps, the resources that keep Node's event loop alive
(`Holders`), and the deadline as parameters.  Its two ends differ: `ExitTimer` calls
`process.exit` with 0 or 1, `LoopEmpties` lets the process end by itself with 0 because
the timer is unref'd.  The process modules give it their steps and decide when a step may
end: the workers' close waits for their active jobs; the drain waits for a snapshot of the
writes in flight or its own limit; the last step waits for `connection.close()`.

`RedisConnection` separates whether Redis can be reached (`redis`) from what the client
believes (`status`): between the two, commands are sent and not answered, until the
socket breaks.  `Close` sends QUIT on a ready connection.  While the client reconnects, a
worker's QUIT joins the offline queue if a command is there before it, and otherwise the
client just disconnects; a producer's fails at once, and `close()` disconnects.  Nothing
but its reply or a broken socket ends the wait for a QUIT that was sent, although the
comment at `queue/connection.ts:77` says the handle "forces the socket shut if that
hangs": only the deadline of the shutdown ends it on a connection that hangs for good.

`SignalHandlers` puts the listeners in front of the controller.  Those of last resort
first serialize what was thrown.  A thrown value is abstracted to what its cause is: a
value, nothing, or a getter that throws; `serializeError` is the recursive function that
walks it, and returns nothing where the recursion would exhaust the stack, which in the
listener for uncaught exceptions would be the end of the process.

In `ApiProcess` a probe's time limit and the drain's pause both last
`READINESS_TIMEOUT_MS`.  Node fires timers of one duration in the order they were armed,
so they are one queue, `timers`.

### Enqueue and JobStatus

`Enqueue` keeps, per request, how far its add is (`adding`: sent or to be sent again;
`landed`; `done`) and per key the job it stands for.  It starts with the connection up or
down, as the API does.  When the connection drops, every command without a reply is sent
again, and `lost` (history) counts the replies that went with it.  Redis may refuse an add
on a live connection (`AddFails`; `docs/reliability.md:195` recommends `noeviction`), and
a client that has never been connected refuses an add or lets it wait: the offline queue
is off, but BullMQ's own wait for its client is not in the repository.  `validationError`
is the first thing wrong with a request in the order in which Fastify and `enqueue()` find
out, `errorOf` adds what `queue.add` refuses at once, and `statusCode` is what
`buildErrorResponse` makes of either.  `JobStatus` keeps the snapshot and the state the
handler has read; `reported` (history) is what settled runs really left.

### QueueDepth and ApiReads

A scrape resets the gauge and asks for the counts of every queue on the one client;
replies come in the order asked, and what is to be set is set as each arrives, so the
scrapes share a gauge and a queue of commands, `asked`.  A sample is known by the scrape
that asked for it.  `overtaken` and `refused` (history) are the reasons a report may have.
`ApiReads` interleaves scrapes and status requests, and lets the same connection drop
under both.

## 3. The runs

Runs with the result "holds":

| Run | Instance | Question |
|---|---|---|
| `one_job` | 1 job, 2 processes of 1 slot, 2 attempts, 1 stall, 1 death, 2 lost locks, 1 operator retry, writes may fail | are runs bounded, are exactly the final failures recorded, with fresh ids, do counters and prediction agree; is `LifecycleInv` an invariant; does the module implement `JobContract` |
| `job_liveness` | 2 jobs (one invalid), 2 processes, 1 death | does every job settle and every final failure get recorded or lost to a fault |
| `dead_letter_writes` | 3 failures in 2 processes, limit 1, 1 death, 1 resend, any command may be refused | is the queue bounded at rest, does every call settle and count; does the module implement `DeadLetterContract` |
| `shutdown_controller` | the API's 4 steps, 3 signals or last-resort events, 12 thrown values (causes circular, deep, unreadable, of plain objects) | is each step run once and in order, none stranded; is everything thrown reported along its causes; does the process end, through the controller only |
| `worker_life` | 3 jobs, 2 slots, all servers on, 1 outage, steps and boot may fail, 2 signals | does the connection outlive the work, has every loss of a job or a write a reason, do the ordered steps ever wait for one another |
| `enqueue_requests` | 2 sound requests on one key and 1 without, one too large on the same key, one with a bad and too large payload, one of a content type nobody parses; connection up or down at first, 2 drops, 1 expiry, any add may be refused by Redis | do keys collapse, are answers true, are duplicates bounded by lost replies, what may a refused request leave behind, is a 4xx given exactly for what validation finds, is every request answered |
| `api_life` | 2 requests, 2 probes, 1 outage, steps and boot may fail, 2 signals | do accepted requests finish, do probes settle before the server closes, is anything cut off, is every probe answered |
| `status_reads` | 1 GET, 3 runs of the job, 2 scrapes of 2 queues, 1 drop | do state and fields agree, unless the job was removed or retried under the request; is a queue missing or another scrape's sample reported only for a reason |

Why these bounds are enough for what they ask: the hazards are races of two parties, so
two processes, two slots or two calls, and a third party for what happens while they
race (three failures with a limit of one give two overlapping trims and a bystander;
two requests on one key give a first and a concurrent one, and an add sent again after the
key expired a later one).  Two
attempts give one that is retried and one that is final; one stall is BullMQ's default
limit, and reaching the limit takes a death and a lost lock.  `one_job` has one job only
because nothing in the processing of a job reads another job's state; slots shared by
jobs are in `job_liveness`.  An operator's retry after a final failure is what makes a
second final failure, and so a second id, of one job.  `status_reads` has one GET
because a status request reads no state of another one, and two scrapes because they
share the gauge.  Every fault is bounded by a
constant named `Max...`; for the modules with proofs the theorems remove the bounds.
Symmetry is used in the two runs without liveness properties that have interchangeable
values, `one_job` and `status_reads`.

Deadlock checking is off in every run: the systems really stop, because jobs end, faults
are bounded and processes exit.  That nothing waits forever is what the liveness
properties say.

Runs with the result "violated": each checks one statement of the repository that the
code does not keep.

| Run | The statement | What the code does |
|---|---|---|
| `slots` | work that ignores the signal holds a concurrency slot (`worker/processor.ts:69`) | the race rejects at the deadline, so the slot takes the next job beside it |
| `classification` | `isNonRetryableError` is true when BullMQ will refuse to retry (`errors/errors.ts:90`) | BullMQ retries an error that only has the name; it was logged as final |
| `overtrim` | oldest records are evicted past this count (`worker/dead-letter.ts:72`) | two trims count the same excess and evict twice |
| `boot` | processes boot with Redis down (`queue/connection.ts:149`) | the worker's schedules are awaited first, without limit |

`one_job` and `classification` check the same invariant: it holds for the errors the kit
itself throws, and fails for an error that shares only their name.

Other behaviours that a reader of the docs would not expect are part of the models, and
show as exceptions in the properties:

* A death between `moveToFailed` and the dead-letter write leaves a final failure without
  a record, which `worker/dead-letter.ts:87` ("exactly one record per terminal failure")
  does not say: `lost` in `NoFailureDropped`.
* A failed trim counts as a write failure of a record that landed: `NeverSilent` lets a
  call be in both counters.
* After an exceeded deadline the loop may empty before the unref'd exit timer fires, and
  the process exits 0, not 1 as `docs/operations.md:271` has it: `LoopEmpties`.
* Workers consume before the signal handlers are installed, and a worker whose metrics
  port is taken never installs them but goes on consuming: `KilledBySignal` abandons jobs
  and dead-letter writes, one of the reasons `LossesHaveReasons` allows.
* While Redis is away an enqueue request is answered 500, though `queue/connection.ts:56`
  speaks of a 503 and `api/errors.ts:30` has a code for it that nothing produces:
  `statusCode`.
* A job over BullMQ's `sizeLimit` (16 KiB, in a body of up to 64 KiB) is answered 500: the
  caller's fault is taken for the kit's, which `BlameIsStable` leaves out of what a 4xx
  tells.
* An add whose reply was lost and that is refused when it is sent again is answered 500,
  though its job is in the queue: `lost` in `RefusedNotQueued`.  Likewise two calls with
  one key may get the same id although both made a job, if the key expired between the
  sendings of one of them, which `docs/reliability.md:46` ("the second created no work")
  does not say: `lost` in `AcceptedIsQueued`.
* Scrapes that overlap each reset the gauge the other is filling, so a scrape may lack
  queues or report the samples of the later one: `overtaken` in `SamplesAccountedFor`.
* A socket that times out while its handler awaits Redis no longer holds the server open,
  so the queues are closed under the add: "timed out" in `AcceptedFinishes`.
* A probe that awaits its ping when the shutdown begins answers 200 while draining:
  `PingAnswered` does not look at `shuttingDown`.
* If the settled job is gone before its second read, the status route answers the stale
  snapshot: `moved` in `SettledRepliesAgree`.

## 4. Fairness

Safety runs assume none.  For liveness, each assumption and its reason:

* An idle slot that can fetch keeps fetching, and a live process executes what is due:
  BullMQ's loop and Node's event loop.  A *handler's* end is not assumed, only its
  deadline's (`Timeout`), because `raceWithAbort` rejects whether or not the handler
  heeds the signal.
* Dead locks expire and the stalled checker runs: both are timers in Redis and BullMQ.
  A lock is not assumed to expire under a live process.
* A command in flight is answered or refused in the end (`DeadLetter`, `Enqueue`,
  `JobLifecycle`'s dead-letter writes): ioredis reconnects without limit.
* `Shutdown` assumes that its deadline and exit timer fire and that nothing else does:
  `ShutdownEnds` holds although any step may hang.
* `SignalHandlers` assumes the same two timers.
* `WorkerProcess` assumes that jobs end (their deadline), that what a step waits for
  resolves it, that the drain's own timer fires, that while Redis can be reached the
  client reconnects and its QUIT is answered, and that Redis comes back where the run's
  `RedisRecovers` says so.  It does *not* assume the shutdown's deadline, so
  `GracefulShutdownFinishes` says the steps get through without it.
* `ApiProcess` assumes that the pings' timers fire and that steps whose condition holds
  resolve; Redis is not assumed to answer.

All of it is weak fairness.

## 5. The proofs

Proved for every value of the constants that satisfies the module's assumption (limits
positive where the configuration's schema requires it, the model values distinct, queues
named by strings, and in `DeadLetter` finitely many failures).  Every safety invariant and
every action property that a passing run checks is the statement of a theorem, for
any number of jobs, processes, requests, scrapes, steps and faults.

**JobLifecycle_proofs.**  `NoFailureDropped` and `RecordsAreFailures` are not inductive:
nothing in them says why the id under which the listener reports a failure is that of the
failure that landed.  `LifecycleInv` adds it: a slot holding a job's lock runs that job on
the attempt Redis will count next (`HoldersRun`); a locked job is active; a slot has
`finishedOn` only after a landed final failure; all final failures so far are at attempts
already counted (`TerminalIsPast`).  The lemmas take the actions in groups (`RunStepInv`
for what happens inside a run, then fetching, finishing, failing, emitting, writing,
Redis's own steps, a death) and `StepInv` joins them.  From it: `TypeCorrect`,
`OnlyFailuresRecorded`, `FailuresAccountedFor`; `FreshIds`, because a new final failure is
at `attemptsMade + 1` and all earlier ones are at most at `attemptsMade`; and
`Implementation`, each action mapped to a step or a stutter of `JobContract`.

Three more invariants of `JobLifecycle` are about numbers, and `CountsInv` adds what they
need.  `StartsInv`: every fetch but the first is paid for by an attempt counted in Redis
or by a stall (`Paid`), so the starts, with the runs that have yet to call their handler
(`Fetched`, a set whose cardinality falls as `started` rises), are at most `Attempts +
MaxStalledCount` until an operator retries.  It rests on `StalledInv`, that a job past the
stalled limit can only be fetched to be failed.  `PredictionInv`: what a failing run
predicted follows from its error and its attempt, which no later step changes.
`CoverInv`: a final failure still to come has been counted already, by the run that holds
the lock (`CountedFinal`) or as the stall that condemned the job, and landing moves it
from the ones owed to the ones recorded.  From it: `StartsAreBounded`,
`FailuresAreCounted`, and `PredictionsAgree`.  The last has a hypothesis, that no handler
throws an error which only `isNonRetryableError`'s name check recognizes: with one the
prediction is wrong, which is what the run `classification` shows.

**DeadLetter_proofs.**  That the queue is within its limit *at rest* needs to know who will
bring it there.  `TrimPending`: while it is over the limit (and no trim went wrong since
the last count), some call has yet to count, or is about to list at least the excess, or
holds enough victims.  The argument is that a call never loses this charge but to the
shrinking of the queue itself: entries other trims remove only help, and an add that
raises the count brings a call that has yet to count.  `TypeOK` carries that the wait list
is totally ordered, which is what makes the listed entries distinct and their number
`excess`.  From it: `Bounded`, `Counted`, `TypeCorrect`, `Implementation` of
`DeadLetterContract`.

**Shutdown_proofs.**  `ShutdownInv` ties `begun` to `current`: before a request nothing has
begun, and afterwards exactly the steps up to the current one have, once.  From it:
`OnceInOrder` and `AllStepsFirst`, for any list of distinct steps and any number of
signals.

**SignalHandlers_proofs.**  What `serializeError` returns is a fact about a recursive
function, of which TLA+ says only that it is the function its equation describes *if there
is one*.  `Unrolling` shows that there is, from the exhausted stack up, and
`SerializesChain` what it returns, from the deepest cause up: both by induction on the depth
left, on sets of numbers (`SetInduction`, the least number outside such a set has a
predecessor inside).  So a report is never empty, `Abort` never happens, and the listeners
implement the controller (`DrivesController`), whose theorems then hold of them
(`StepsBeforeExit`); `ChainsReported` says what they log.  For this the recursion is on
the depth alone, each depth being a function of the values.

**WorkerProcess_proofs, ApiProcess_proofs.**  Both instantiate `Shutdown_proofs` with the
process's own list of steps, after showing that each configuration's list satisfies what
the controller assumes of it (`StepsAssumption`); the controller's invariant is then the
part of `ProcessInv` that needs no second proof.  For a worker, `ProcessInv` adds how far
the bootstrap got when work could start, that closing the workers leaves nothing active
and no write to come, so that the drain's `snapshot` holds every write still in flight
(`DrainInv`), and that a lost write has one of the named reasons.  From it:
`WorkBeforeConnection`, `LossesExcused`.  For an API process, `TimersInv` is the argument:
each timer is armed once, and those of the pings that started before the shutdown stand
before the pause's, so that all have fired by the time it does (`ProbesFirst`).  It rests
on lemmas on what arming and clearing a timer do to the order of the others (`Appended`,
`Removed`).  From it too: `HandlersFirst`, `CutsExcused`.

**Enqueue_proofs.**  `EnqueueInv` counts a request's jobs by its phase: an add that is
still to be sent has landed at most once for each reply lost, one that landed once more,
and one that was refused or answered with another request's job no more.  For a key,
the live job is one that its expiries do not account for (`KeyInv`).  From it: `OneJobPerLifetime`, `AnswersAreQueued`, `RefusedLeavesNothing`,
`OneJobMorePerLoss`, `BlameOnRequestAlone`.

**ApiReads_proofs.**  Of a status request, `StatusInv` says what its phase knows: a
snapshot without `finishedOn` was taken before its run settled, so a request that saw the
job settled and rereads it finds what that run left, or the job has been moved under it
(`OneRereadIsEnough`).  Of the gauge, `DepthInv` says that scrapes which sample at the same time
overlap, and that for each of them a queue's label is explained or its command still has
no reply: what is in the gauge was set by the scrape itself or one that overlaps it, what
is missing was refused or reset by one that does (`SamplesExplained`).  The two routes
share only the connection, and each keeps the other's invariant.

Only model-checked: every liveness property, liveness under fairness and ENABLED being
out of the prover's reach, and what the violation runs show, which are counterexamples.

## 6. What is not modelled

* Message texts, log lines, correlation ids, security headers, metric labels: no state
  depends on them.
* The demo handlers and definitions: an adopter replaces them, and `JobLifecycle` lets a
  handler do anything a handler can.
* Configuration parsing: it happens once, before anything else exists, and a table of
  inputs tests it completely; its limits are the assumptions on the constants.
* The life of a schedule in Redis: it is one key that BullMQ's upsert overwrites, and the
  last replica to boot wins, with its pattern and the payload of that moment
  (`queue/scheduler.ts:83`).  The code orders nothing there that a property could be
  about; that the upsert is awaited during the bootstrap is modelled.
* The dashboard: third-party; its one relevant act, retrying a failed job, is modelled.
* Backoff durations and rate limits: time is abstracted, a delayed job is a waiting one.
* Codes and messages of error replies, the truncation of stacks, `formatErrorReason`: the
  statuses of refused requests and the chain of causes are modelled.
* Histograms and Node's default metrics; the routes of the worker's metrics server.
* `listSchedules` and `removeSchedule`: nothing calls them.
* Four corners of modelled code, each named at its definition or here: a thrown value
  whose `instanceof` check throws (`utils/serialize-error.ts:50`); the handler of a run
  whose signal is aborted before its race starts, and which rejects later
  (`worker/processor.ts:170`); a record that another trim removes between the two reads
  of `getWaiting` (`worker/dead-letter.ts:177`); an error reply to an add which the
  connection loses in turn, which is the same as an add that was not answered.

## 7. Plan

The first stage was the life of a job and its failure record with their proofs, then the
two processes and the API's writes and reads; the second added the connection, the
listeners of last resort, the queue-depth gauge, the replies of refused requests, and
composed them with the processes and routes that use them; the third proved the safety
invariants of all of them.  What is left, in the order of what matters most:

1. The safety half of the liveness properties, as theorems: that the steps they rest on
   are never disabled for good by another (for `RecordSettles` and `RequestAnswered`, that a
   call in flight keeps its place until the step that ends it).
2. A refinement between the two halves of the failure path: that a `pending` write of
   `JobLifecycle` is the abstraction of the writer's call in `DeadLetter`.

`JobLifecycle` with the writer's round trips in place of the single step would check end
to end what the two refinements check in two halves; its state space is the product of
both, and is left out.
