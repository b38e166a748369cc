---------------------------- MODULE WorkerProcess ---------------------------
(***************************************************************************)
(* One worker process from boot to exit (worker/server.ts): bootstrap,     *)
(* consumption, and the ordered shutdown, which instantiates Shutdown; its *)
(* client is a RedisConnection with an offline queue.                      *)
(* What one job goes through is JobLifecycle's subject; here a job is      *)
(* waiting, active or ended, and its dead-letter write is in flight or     *)
(* not.                                                                    *)
(***************************************************************************)
EXTENDS Naturals, Sequences, FiniteSets

CONSTANTS
  Jobs,            \* jobs this process may fetch
  Concurrency,     \* WORKER_CONCURRENCY
  MetricsServer,   \* ENABLE_WORKER_METRICS_SERVER
  QueueEvents,     \* ENABLE_QUEUE_EVENTS
  Schedulers,      \* ENABLE_JOB_SCHEDULERS
  RedisUpAtBoot,   \* whether Redis answers when the process starts
  RedisRecovers,   \* whether it answers again after it stopped
  MaxOutages,      \* bound: Redis outages after boot
  BootMayFail,     \* whether the schedules may be refused, or the port be taken
  StepsMayFail,    \* whether closing a BullMQ object or the server may reject
  MaxRequests      \* bound: signals and last-resort events

ASSUME WorkerProcessAssumption ==
  /\ IsFiniteSet(Jobs)
  /\ Concurrency \in Nat \ {0}
  /\ {MetricsServer, QueueEvents, Schedulers, RedisUpAtBoot, RedisRecovers} \subseteq BOOLEAN
  /\ {BootMayFail, StepsMayFail} \subseteq BOOLEAN
  /\ {MaxOutages, MaxRequests} \subseteq Nat

only(enabled, name) == IF enabled THEN <<name>> ELSE <<>>

servers == only(MetricsServer, "metrics-server") \o only(QueueEvents, "queue-events")

\* Faults: the dead-letter writes are drained before the jobs are, and the
\* connection goes first.
steps_DrainFirst ==
  <<"mark-draining", "dead-letter-drain", "workers">> \o servers \o <<"queues", "redis">>
steps_RedisFirst ==
  <<"mark-draining", "redis", "workers", "dead-letter-drain">> \o servers \o <<"queues">>

steps ==
  <<"mark-draining", "workers", "dead-letter-drain">> \o servers \o <<"queues", "redis">>

\* Sockets: BullMQ's blocking connections, the HTTP server, the shared client.
holders ==
  {"workers", "metrics-server", "queue-events", "redis"} \cap {steps[k] : k \in 1..Len(steps)}

VARIABLES
  \* the shutdown controller's
  running, current, begun, released, outcome, exit, requests,
  \* the process's
  boot,       \* where main() is; "up" once the signal handlers are installed
  jobs,       \* per job: "waiting", "active" in this process, or "ended"
  writes,     \* per job: its dead-letter write: "none", "pending", "written" or "lost"
  snapshot,   \* the writes drain() waits for
  drainTimer, \* the deadline of the drain: "off", "armed" or "expired"
  failed,     \* the steps that rejected
  killed,     \* whether a signal nobody handled ended the process
  \* the client's
  redis, outages, status, quit

Controller == INSTANCE Shutdown WITH Steps <- steps, Holders <- holders
Connection == INSTANCE RedisConnection WITH OfflineQueue <- TRUE

shutdownVars == <<running, current, begun, released, outcome, exit, requests>>
jobVars  == <<jobs, writes>>
stepVars == <<snapshot, drainTimer, failed>>
clientVars == <<redis, outages, status, quit>>
vars == <<shutdownVars, boot, jobVars, stepVars, killed, clientVars>>

Alive   == Controller!Alive /\ ~killed
Active  == {j \in Jobs : jobs[j] = "active"}
Pending == {j \in Jobs : writes[j] = "pending"}

\* The controller has started step s.
Started(s) == begun[s] > 0

Init ==
  /\ Controller!Init
  /\ boot = "connecting"
  /\ jobs = [j \in Jobs |-> "waiting"]
  /\ writes = [j \in Jobs |-> "none"]
  /\ snapshot = {}
  /\ drainTimer = "off"
  /\ failed = {}
  /\ killed = FALSE
  /\ Connection!Init
  /\ redis = RedisUpAtBoot

-----------------------------------------------------------------------------
(* main(): the bootstrap.                                                  *)

\* The workers start consuming as they are constructed; the metrics server is
\* awaited before the signal handlers are installed.
Constructed == IF MetricsServer THEN "binding" ELSE "up"

Boot(from, to) ==
  /\ Alive
  /\ boot = from
  /\ boot' = to
  /\ UNCHANGED <<shutdownVars, jobVars, stepVars, killed, clientVars>>

\* waitUntilRedisReady: ready, or its time is up; main() goes on either way.
RedisAwaited == Boot("connecting", IF Schedulers THEN "scheduling" ELSE Constructed)

\* upsertSchedules: the command waits in the client while Redis is down.
SchedulesUpserted == Connection!Connected /\ Boot("scheduling", Constructed)
SchedulesRefused  == BootMayFail /\ Connection!Connected /\ Boot("scheduling", "failed")

MetricsServerBound == Boot("binding", "up")

\* main() rejects and sets process.exitCode: the workers it made go on consuming.
MetricsServerFails == BootMayFail /\ Boot("binding", "headless")

-----------------------------------------------------------------------------
(* Consumption.                                                            *)

\* External: the workers fetch until close() is called.
Fetch(j) ==
  /\ Alive
  /\ boot \in {"binding", "up", "headless"}
  /\ ~Started("workers")
  /\ Connection!Connected
  /\ jobs[j] = "waiting"
  /\ Cardinality(Active) < Concurrency
  /\ jobs' = [jobs EXCEPT ![j] = "active"]
  /\ UNCHANGED <<shutdownVars, boot, writes, stepVars, killed, clientVars>>

\* The job is settled in Redis.  Its 'failed' event, before close() can resolve,
\* starts a dead-letter write if the failure was final.
Settle(j, failure) ==
  /\ Alive
  /\ Connection!Connected
  /\ jobs[j] = "active"
  /\ jobs' = [jobs EXCEPT ![j] = "ended"]
  /\ writes' = [writes EXCEPT ![j] = IF failure THEN "pending" ELSE @]
  /\ UNCHANGED <<shutdownVars, boot, stepVars, killed, clientVars>>

\* The write lands, or is rejected because the connection has been closed.
WriteEnds(j) ==
  /\ Alive
  /\ writes[j] = "pending"
  /\ Connection!Connected \/ status = "end"
  /\ writes' = [writes EXCEPT ![j] = IF status = "end" THEN "lost" ELSE "written"]
  /\ UNCHANGED <<shutdownVars, boot, jobs, stepVars, killed, clientVars>>

-----------------------------------------------------------------------------
(* Shutdown.                                                               *)

\* With its process a write in flight is gone; an active job is left to the
\* stalled checker of another process.
LoseWrites == writes' = [j \in Jobs |-> IF j \in Pending THEN "lost" ELSE writes[j]]

\* SIGTERM, SIGINT, an unhandled rejection or an uncaught exception.
RequestShutdown ==
  /\ Alive
  /\ boot = "up"
  /\ Controller!Request
  /\ UNCHANGED <<boot, jobVars, stepVars, killed, clientVars>>

\* Before the handlers are installed a signal has its default effect.
KilledBySignal ==
  /\ Alive
  /\ boot # "up"
  /\ killed' = TRUE
  /\ LoseWrites
  /\ UNCHANGED <<shutdownVars, boot, jobs, stepVars, clientVars>>

\* What the step now awaited waits for.
StepDone ==
  CASE steps[current] = "workers"           -> Active = {}
    [] steps[current] = "dead-letter-drain" -> snapshot \cap Pending = {} \/ drainTimer = "expired"
    [] steps[current] = "redis"             -> quit = "settled"
    [] OTHER                                -> TRUE

NextIs(s) == current < Len(steps) /\ steps[current + 1] = s

\* drain() returns at once when nothing is in flight, and arms its own deadline
\* otherwise.
DrainBegins ==
  IF NextIs("dead-letter-drain")
  THEN snapshot' = Pending /\ drainTimer' = IF Pending = {} THEN "off" ELSE "armed"
  ELSE UNCHANGED <<snapshot, drainTimer>>

\* connection.close(): a write in flight while the client reconnects is queued in it.
CloseBegins ==
  IF NextIs("redis")
  THEN \E behind \in BOOLEAN : (Pending # {} => behind) /\ Connection!Close(behind)
  ELSE UNCHANGED clientVars

StepResolves ==
  /\ Alive
  /\ Controller!StepEnds(TRUE)
  /\ StepDone
  /\ DrainBegins
  /\ CloseBegins
  /\ UNCHANGED <<boot, jobVars, failed, killed>>

\* Marking, draining and connection.close() catch everything; the rest may throw.
\* Promise.all over the workers rejects as soon as one close() does.
StepRejects ==
  /\ Alive
  /\ StepsMayFail
  /\ Controller!StepEnds(FALSE)
  /\ steps[current] \notin {"mark-draining", "dead-letter-drain", "redis"}
  /\ failed' = failed \cup {steps[current]}
  /\ DrainBegins
  /\ CloseBegins
  /\ UNCHANGED <<boot, jobVars, killed>>

DrainDeadline ==
  /\ Alive
  /\ drainTimer = "armed"
  /\ drainTimer' = "expired"
  /\ UNCHANGED <<shutdownVars, boot, jobVars, snapshot, failed, killed, clientVars>>

DeadlinePasses ==
  /\ Alive
  /\ Controller!Deadline
  /\ UNCHANGED <<boot, jobVars, stepVars, killed, clientVars>>

Exit ==
  /\ Alive
  /\ Controller!ExitTimer \/ Controller!LoopEmpties
  /\ LoseWrites
  /\ UNCHANGED <<boot, jobs, stepVars, killed, clientVars>>

\* QUIT is behind the writes that the drain waited for.
ClientNext ==
  /\ Alive
  /\ \/ Connection!Connects
     \/ Connection!Breaks
     \/ Connection!QuitAnswered /\ snapshot \cap Pending = {}
  /\ UNCHANGED <<shutdownVars, boot, jobVars, stepVars, killed>>

RedisNext ==
  /\ Connection!RedisFails \/ (RedisRecovers /\ Connection!RedisReturns)
  /\ UNCHANGED <<shutdownVars, boot, jobVars, stepVars, killed>>

-----------------------------------------------------------------------------
BootNext ==
  \/ RedisAwaited
  \/ SchedulesUpserted
  \/ SchedulesRefused
  \/ MetricsServerBound
  \/ MetricsServerFails

Next ==
  \/ BootNext
  \/ \E j \in Jobs : Fetch(j) \/ (\E failure \in BOOLEAN : Settle(j, failure)) \/ WriteEnds(j)
  \/ RequestShutdown
  \/ KilledBySignal
  \/ StepResolves
  \/ StepRejects
  \/ DrainDeadline
  \/ DeadlinePasses
  \/ Exit
  \/ ClientNext
  \/ RedisNext

Spec == Init /\ [][Next]_vars

\* main() goes on when what it awaits is done, handlers end (their own deadline
\* sees to it), the client reconnects and is answered while Redis can be reached,
\* Redis comes back if it ever does, and timers fire.  The deadline of the shutdown is not assumed.
FairSpec ==
  /\ Spec
  /\ WF_vars(RedisAwaited) /\ WF_vars(SchedulesUpserted \/ SchedulesRefused)
  /\ WF_vars(MetricsServerBound \/ MetricsServerFails)
  /\ \A j \in Jobs : WF_vars(\E failure \in BOOLEAN : Settle(j, failure)) /\ WF_vars(WriteEnds(j))
  /\ WF_vars(StepResolves)
  /\ WF_vars(DrainDeadline)
  /\ WF_vars(ClientNext /\ redis)
  /\ WF_vars(RedisNext /\ ~redis)

-----------------------------------------------------------------------------
(* Properties.                                                             *)

\* Every variable holds a value of its type: type correctness of the model of the
\* process.
TypeOK ==
  /\ Controller!TypeOK
  /\ boot \in {"connecting", "scheduling", "binding", "up", "failed", "headless"}
  /\ jobs \in [Jobs -> {"waiting", "active", "ended"}]
  /\ writes \in [Jobs -> {"none", "pending", "written", "lost"}]
  /\ snapshot \subseteq {j \in Jobs : jobs[j] = "ended"}
  /\ drainTimer \in {"off", "armed", "expired"}
  /\ failed \subseteq {steps[k] : k \in 1..Len(steps)}
  /\ killed \in BOOLEAN
  /\ Connection!TypeOK

\* No step but the drain's own deadline cut the shutdown short.
Orderly == failed = {} /\ drainTimer # "expired"

\* "Closing it earlier would make every other close fail against a dead socket":
\* when the shared connection starts to close no job is active and no dead-letter
\* write in flight.
ConnectionOutlivesWork ==
  Orderly /\ Started("redis") => Active = {} /\ Pending = {}

\* What a process leaves undone when it ends, it leaves for a reason: a job still
\* active, that the deadline passed, that closing the workers failed, or that a signal
\* came while they consumed without its handler installed; a dead-letter write, one of
\* these or the drain's own deadline.
LossesHaveReasons ==
  LET excused == outcome = "timeout" \/ "workers" \in failed
                 \/ (killed /\ boot \in {"binding", "headless"})
  IN  ~Alive =>
        /\ Active # {} => excused
        /\ (\E j \in Jobs : writes[j] = "lost") => excused \/ drainTimer = "expired"

\* The ordered steps never wait for one another: while jobs end and Redis comes
\* back, a shutdown gets through its steps without needing its deadline.
GracefulShutdownFinishes ==
  running ~> current > Len(steps) \/ ~Alive

-----------------------------------------------------------------------------
(* Claims of the repository that the code does not keep (violation runs).  *)

\* With Redis down "processes are designed to boot anyway": the bootstrap ends.
BootsWithoutRedis == <>(boot = "up" \/ ~Alive)

=============================================================================
