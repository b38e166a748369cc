------------------------ MODULE WorkerProcess_proofs ------------------------
(***************************************************************************)
(* The worker process for any jobs, concurrency and configuration: what    *)
(* its ordered shutdown waits for, and what it may leave undone.           *)
(***************************************************************************)
EXTENDS WorkerProcess, TLAPS

\* What is proved of the shutdown controller for any list of steps.
Proved == INSTANCE Shutdown_proofs WITH Steps <- steps, Holders <- holders

-----------------------------------------------------------------------------
(* The list of steps.                                                      *)

\* The steps in each configuration.
LEMMA StepsShape ==
  /\ Len(steps) \in 5..7
  /\ steps[1] = "mark-draining" /\ steps[2] = "workers" /\ steps[3] = "dead-letter-drain"
  /\ steps[Len(steps)] = "redis"
  /\ \A k, l \in 1..Len(steps) : steps[k] = steps[l] => k = l
<1>1. CASE MetricsServer /\ QueueEvents
  <2>1. servers = <<"metrics-server">> \o <<"queue-events">>
    BY <1>1 DEF servers, only
  <2>2. /\ Len(steps) = 7 /\ steps[1] = "mark-draining" /\ steps[2] = "workers"
        /\ steps[3] = "dead-letter-drain" /\ steps[4] = "metrics-server"
        /\ steps[5] = "queue-events" /\ steps[6] = "queues" /\ steps[7] = "redis"
    BY <2>1 DEF steps
  <2> QED BY <2>2
<1>2. CASE MetricsServer /\ ~QueueEvents
  <2>1. servers = <<"metrics-server">> \o <<>>
    BY <1>2 DEF servers, only
  <2>2. /\ Len(steps) = 6 /\ steps[1] = "mark-draining" /\ steps[2] = "workers"
        /\ steps[3] = "dead-letter-drain" /\ steps[4] = "metrics-server"
        /\ steps[5] = "queues" /\ steps[6] = "redis"
    BY <2>1 DEF steps
  <2> QED BY <2>2
<1>3. CASE ~MetricsServer /\ QueueEvents
  <2>1. servers = <<>> \o <<"queue-events">>
    BY <1>3 DEF servers, only
  <2>2. /\ Len(steps) = 6 /\ steps[1] = "mark-draining" /\ steps[2] = "workers"
        /\ steps[3] = "dead-letter-drain" /\ steps[4] = "queue-events"
        /\ steps[5] = "queues" /\ steps[6] = "redis"
    BY <2>1 DEF steps
  <2> QED BY <2>2
<1>4. CASE ~MetricsServer /\ ~QueueEvents
  <2>1. servers = <<>>
    <3>1. servers = <<>> \o <<>>
      BY <1>4 DEF servers, only
    <3> QED BY <3>1
  <2>2. /\ Len(steps) = 5 /\ steps[1] = "mark-draining" /\ steps[2] = "workers"
        /\ steps[3] = "dead-letter-drain" /\ steps[4] = "queues" /\ steps[5] = "redis"
    BY <2>1 DEF steps
  <2> QED BY <2>2
<1> QED BY <1>1, <1>2, <1>3, <1>4

\* The assumption of Shutdown holds of these steps.
LEMMA StepsAssumption == Proved!ShutdownAssumption
<1>1. Len(steps) \in Nat \ {0} /\ holders \subseteq Proved!StepNames
  BY StepsShape DEF holders, Proved!StepNames
<1>2. MaxRequests \in Nat
  BY WorkerProcessAssumption
<1> QED BY <1>1, <1>2, StepsShape DEF Proved!ShutdownAssumption

-----------------------------------------------------------------------------
(* The invariant.                                                          *)

Excused ==
  \/ outcome = "timeout"
  \/ "workers" \in failed
  \/ killed /\ boot \in {"binding", "headless"}

\* The signal handlers are installed last, and consumption starts after the schedules.
BootInv ==
  /\ boot # "up" => ~running /\ outcome = "none"
  /\ killed => boot # "up"
  /\ boot \in {"connecting", "scheduling", "failed"} => \A j \in Jobs : jobs[j] = "waiting"

\* Closing the workers leaves no job active and so no write to come; what was in
\* flight then is what the drain waits for.
DrainInv == "workers" \notin failed =>
  /\ current > 2 => Active = {} /\ Pending \subseteq snapshot
  /\ current > 3 /\ drainTimer # "expired" => Pending = {}

\* The drain is the third step and the connection the last.
ClientInv ==
  /\ drainTimer # "off" => current > 2
  /\ quit # "none" => current >= Len(steps)

WritesInv ==
  /\ \A j \in Jobs : writes[j] # "none" => jobs[j] = "ended"
  /\ (\E j \in Jobs : writes[j] = "lost") => Excused \/ drainTimer = "expired"

ProcessInv ==
  /\ Proved!ShutdownInv
  /\ TypeOK
  /\ BootInv
  /\ DrainInv
  /\ ClientInv
  /\ WritesInv

\* What the controller's invariant says of these steps.
LEMMA ControllerFacts ==
  ASSUME Proved!ShutdownInv
  PROVE  /\ Controller!TypeOK
         /\ current \in 0..(Len(steps) + 1)
         /\ outcome \in {"none", "complete", "timeout"}
         /\ exit \in {"none", "0", "1"}
         /\ running <=> current > 0
         /\ outcome = "complete" => current > Len(steps)
         /\ exit # "none" => outcome # "none"
         /\ Started("workers") <=> current >= 2
         /\ Started("redis") <=> current >= Len(steps)
<1>1. Controller!TypeOK
  BY DEF Proved!ShutdownInv, Proved!TypeOK, Controller!TypeOK, Proved!StepNames, Controller!StepNames
<1>2. /\ current \in 0..(Len(steps) + 1)
      /\ outcome \in {"none", "complete", "timeout"}
      /\ exit \in {"none", "0", "1"}
  BY DEF Proved!ShutdownInv, Proved!TypeOK
<1>3. \A k \in 1..Len(steps) : begun[steps[k]] = IF k <= current THEN 1 ELSE 0
  BY DEF Proved!ShutdownInv, Proved!StepsOnceInOrder
<1>4. /\ 2 \in 1..Len(steps) /\ steps[2] = "workers"
      /\ Len(steps) \in 1..Len(steps) /\ steps[Len(steps)] = "redis"
  BY StepsShape
<1>5. /\ begun["workers"] = IF 2 <= current THEN 1 ELSE 0
      /\ begun["redis"] = IF Len(steps) <= current THEN 1 ELSE 0
  BY <1>3, <1>4
<1>6. Len(steps) \in Nat
  BY StepsShape
<1>7. /\ Started("workers") <=> current >= 2
      /\ Started("redis") <=> current >= Len(steps)
  BY <1>2, <1>5, <1>6 DEF Started
<1> QED BY <1>1, <1>2, <1>7 DEF Proved!ShutdownInv

\* A step of the controller, or of anything else, keeps its invariant.
LEMMA ControllerStep ==
  ASSUME Proved!ShutdownInv,
         \/ Controller!Request
         \/ \E ok \in BOOLEAN : Controller!StepEnds(ok)
         \/ Controller!Deadline
         \/ Controller!ExitTimer \/ Controller!LoopEmpties
         \/ UNCHANGED shutdownVars
  PROVE  Proved!ShutdownInv'
<1>1. Controller!Request => Proved!Request
  BY DEF Controller!Request, Proved!Request, Controller!Alive, Proved!Alive
<1>2. \A ok \in BOOLEAN : Controller!StepEnds(ok) => Proved!StepEnds(ok)
  BY DEF Controller!StepEnds, Proved!StepEnds, Controller!Alive, Proved!Alive
<1>3. Controller!Deadline => Proved!Deadline
  BY DEF Controller!Deadline, Proved!Deadline, Controller!Alive, Proved!Alive
<1>4. Controller!ExitTimer \/ Controller!LoopEmpties => Proved!ExitTimer \/ Proved!LoopEmpties
  BY DEF Controller!ExitTimer, Proved!ExitTimer, Controller!LoopEmpties, Proved!LoopEmpties,
         Controller!Alive, Proved!Alive
<1>5. UNCHANGED shutdownVars => UNCHANGED Proved!shutdownVars
  BY DEF shutdownVars, Proved!shutdownVars
<1>6. [Proved!Next]_(Proved!shutdownVars)
  BY <1>1, <1>2, <1>3, <1>4, <1>5 DEF Proved!Next
<1> QED BY <1>6, StepsAssumption, Proved!NextInv

\* The client's own steps never start its close.
LEMMA ClientSteps ==
  ASSUME Connection!TypeOK,
         \/ Connection!Connects \/ Connection!Breaks \/ Connection!QuitAnswered
         \/ Connection!RedisFails \/ Connection!RedisReturns
  PROVE  Connection!TypeOK' /\ (quit' # "none" => quit # "none")
<1>1. /\ outages' \in Nat
      /\ status' \in {"connecting", "ready", "end"}
      /\ quit' \in {"none", "queued", "sent", "settled"}
      /\ status' = "end" <=> quit' = "settled"
      /\ quit' = "sent" => status' = "ready"
      /\ quit' = "queued" => status' = "connecting"
      /\ quit' # "none" => quit # "none"
  BY DEF Connection!TypeOK, Connection!Connects, Connection!Breaks, Connection!QuitAnswered,
         Connection!RedisFails, Connection!RedisReturns, Connection!Connected
<1>2. redis' \in BOOLEAN
  <2>1. redis \in BOOLEAN
    BY DEF Connection!TypeOK
  <2>2. redis' = redis \/ redis' = TRUE \/ redis' = FALSE
    BY Zenon DEF Connection!Connects, Connection!Breaks, Connection!QuitAnswered,
           Connection!RedisFails, Connection!RedisReturns
  <2> QED BY <2>1, <2>2, Zenon
<1> QED BY <1>1, <1>2 DEF Connection!TypeOK

\* close() of a client that nobody closed yet.
LEMMA ClientCloses ==
  ASSUME Connection!TypeOK, NEW behind \in BOOLEAN, Connection!Close(behind), quit = "none"
  PROVE  Connection!TypeOK'
BY DEF Connection!TypeOK, Connection!Close

-----------------------------------------------------------------------------
(* The steps of the process.                                               *)

\* The conjuncts of TypeOK that are not the controller's or the client's.
OwnTypes ==
  /\ boot \in {"connecting", "scheduling", "binding", "up", "failed", "headless"}
  /\ jobs \in [Jobs -> {"waiting", "active", "ended"}]
  /\ writes \in [Jobs -> {"none", "pending", "written", "lost"}]
  /\ snapshot \subseteq {j \in Jobs : jobs[j] = "ended"}
  /\ drainTimer \in {"off", "armed", "expired"}
  /\ failed \subseteq {steps[k] : k \in 1..Len(steps)}
  /\ killed \in BOOLEAN

\* Types are kept part by part.
LEMMA Types ==
  /\ ProcessInv => OwnTypes /\ Connection!TypeOK
  /\ Proved!ShutdownInv' /\ OwnTypes' /\ Connection!TypeOK' => TypeOK'
<1>1. ProcessInv => OwnTypes /\ Connection!TypeOK
  BY DEF ProcessInv, OwnTypes, TypeOK
<1>2. Proved!ShutdownInv' => Controller!TypeOK'
  BY DEF Proved!ShutdownInv, Proved!TypeOK, Controller!TypeOK, Proved!StepNames, Controller!StepNames
<1> QED BY <1>1, <1>2 DEF OwnTypes, TypeOK

\* Before main().
LEMMA InitInv == Init => ProcessInv
<1> SUFFICES ASSUME Init PROVE ProcessInv
  OBVIOUS
<1>1. Proved!ShutdownInv
  <2>1. Proved!Init
    BY DEF Init, Controller!Init, Proved!Init, Controller!StepNames, Proved!StepNames
  <2> QED BY <2>1, StepsAssumption, Proved!InitInv
<1>2. Controller!TypeOK /\ running = FALSE /\ current = 0 /\ outcome = "none"
  BY <1>1, ControllerFacts DEF Init, Controller!Init
<1>3. Connection!TypeOK
  BY DEF Init, Connection!Init, Connection!TypeOK
<1>4. OwnTypes
  <2>1. killed \in BOOLEAN
    BY Zenon DEF Init
  <2> QED BY <2>1 DEF Init, OwnTypes
<1>5. BootInv /\ DrainInv /\ ClientInv /\ WritesInv
  BY <1>2, StepsShape DEF Init, Connection!Init, BootInv, DrainInv, ClientInv, WritesInv, Pending
<1> QED BY <1>1, <1>2, <1>3, <1>4, <1>5 DEF ProcessInv, TypeOK, OwnTypes

\* main() goes on.
LEMMA BootNextInv ==
  ASSUME ProcessInv, BootNext
  PROVE  ProcessInv'
<1>u. UNCHANGED <<shutdownVars, jobVars, stepVars, killed, clientVars>>
  BY DEF BootNext, RedisAwaited, SchedulesUpserted, SchedulesRefused, MetricsServerBound,
         MetricsServerFails, Boot
<1>s. UNCHANGED <<running, current, begun, outcome, exit, jobs, writes, snapshot, drainTimer,
                  failed, killed, redis, outages, status, quit>>
  BY <1>u DEF shutdownVars, jobVars, stepVars, clientVars
<1>b. /\ boot' \in {"connecting", "scheduling", "binding", "up", "failed", "headless"}
      /\ boot \in {"connecting", "scheduling", "binding"}
      /\ boot' \in {"connecting", "scheduling", "failed"} => boot \in {"connecting", "scheduling"}
      /\ ~killed
  BY DEF BootNext, RedisAwaited, SchedulesUpserted, SchedulesRefused, MetricsServerBound,
         MetricsServerFails, Boot, Constructed, Alive
<1>1. Proved!ShutdownInv'
  BY <1>u, ControllerStep DEF ProcessInv
<1>2. Connection!TypeOK'
  BY <1>s, Types DEF Connection!TypeOK
<1>3. OwnTypes'
  BY <1>s, <1>b, Types DEF OwnTypes
<1>4. BootInv'
  BY <1>s, <1>b DEF ProcessInv, BootInv
<1>5. DrainInv' /\ ClientInv'
  BY <1>s DEF ProcessInv, DrainInv, ClientInv, Active, Pending
<1>6. WritesInv'
  BY <1>s, <1>b DEF ProcessInv, WritesInv, Excused
<1> QED BY <1>1, <1>2, <1>3, <1>4, <1>5, <1>6, Types DEF ProcessInv

\* Jobs are fetched only until the workers start to close.
LEMMA FetchInv ==
  ASSUME ProcessInv, NEW j \in Jobs, Fetch(j)
  PROVE  ProcessInv'
<1>u. UNCHANGED <<shutdownVars, boot, writes, stepVars, killed, clientVars>>
  BY DEF Fetch
<1>s. UNCHANGED <<running, current, begun, outcome, exit, boot, writes, snapshot, drainTimer,
                  failed, killed, redis, outages, status, quit>>
  BY <1>u DEF shutdownVars, stepVars, clientVars
<1>j. /\ jobs[j] = "waiting" /\ jobs' = [jobs EXCEPT ![j] = "active"]
      /\ boot \in {"binding", "up", "headless"} /\ ~Started("workers")
  BY DEF Fetch
<1>c. current \in Nat /\ current < 2
  BY <1>j, ControllerFacts, StepsShape DEF ProcessInv
<1>1. Proved!ShutdownInv'
  BY <1>u, ControllerStep DEF ProcessInv
<1>2. Connection!TypeOK'
  BY <1>s, Types DEF Connection!TypeOK
<1>3. OwnTypes'
  BY <1>s, <1>j, Types DEF OwnTypes
<1>4. BootInv' /\ DrainInv' /\ ClientInv'
  BY <1>s, <1>j, <1>c DEF ProcessInv, BootInv, DrainInv, ClientInv
<1>5. WritesInv'
  BY <1>s, <1>j, Types DEF ProcessInv, WritesInv, Excused, OwnTypes
<1> QED BY <1>1, <1>2, <1>3, <1>4, <1>5, Types DEF ProcessInv

\* A job ends, and may bring a write: none does once the workers have closed.
LEMMA SettleInv ==
  ASSUME ProcessInv, NEW j \in Jobs, NEW failure \in BOOLEAN, Settle(j, failure)
  PROVE  ProcessInv'
<1>u. UNCHANGED <<shutdownVars, boot, stepVars, killed, clientVars>>
  BY DEF Settle
<1>s. UNCHANGED <<running, current, begun, outcome, exit, boot, snapshot, drainTimer,
                  failed, killed, redis, outages, status, quit>>
  BY <1>u DEF shutdownVars, stepVars, clientVars
<1>j. /\ jobs[j] = "active" /\ jobs' = [jobs EXCEPT ![j] = "ended"]
      /\ writes' = [writes EXCEPT ![j] = IF failure THEN "pending" ELSE writes[j]]
  BY DEF Settle
<1>t. OwnTypes
  BY Types
<1>c. "workers" \in failed \/ ~(current > 2)
  BY <1>j DEF ProcessInv, DrainInv, Active
<1>d. current \in Nat
  BY ControllerFacts, StepsShape DEF ProcessInv
<1>1. Proved!ShutdownInv'
  BY <1>u, ControllerStep DEF ProcessInv
<1>2. Connection!TypeOK'
  BY <1>s, Types DEF Connection!TypeOK
<1>3. OwnTypes'
  BY <1>s, <1>j, <1>t DEF OwnTypes
<1>4. BootInv'
  BY <1>s, <1>j, <1>t DEF ProcessInv, BootInv, OwnTypes
<1>5. DrainInv' /\ ClientInv'
  BY <1>s, <1>c, <1>d DEF ProcessInv, DrainInv, ClientInv
<1>6. WritesInv'
  <2>1. \A i \in Jobs : writes'[i] # "none" => jobs'[i] = "ended"
    BY <1>j, <1>t DEF ProcessInv, WritesInv, OwnTypes
  <2>2. \A i \in Jobs : writes'[i] = "lost" => writes[i] = "lost"
    BY <1>j, <1>t DEF OwnTypes
  <2> QED BY <2>1, <2>2, <1>s DEF ProcessInv, WritesInv, Excused
<1> QED BY <1>1, <1>2, <1>3, <1>4, <1>5, <1>6, Types DEF ProcessInv

\* A write that finds the connection closed was not drained, or outlasted the drain.
LEMMA WriteEndsInv ==
  ASSUME ProcessInv, NEW j \in Jobs, WriteEnds(j)
  PROVE  ProcessInv'
<1>u. UNCHANGED <<shutdownVars, boot, jobs, stepVars, killed, clientVars>>
  BY DEF WriteEnds
<1>s. UNCHANGED <<running, current, begun, outcome, exit, boot, jobs, snapshot, drainTimer,
                  failed, killed, redis, outages, status, quit>>
  BY <1>u DEF shutdownVars, stepVars, clientVars
<1>j. /\ writes[j] = "pending"
      /\ writes' = [writes EXCEPT ![j] = IF status = "end" THEN "lost" ELSE "written"]
  BY DEF WriteEnds
<1>t. OwnTypes /\ Connection!TypeOK
  BY Types
<1>c. current \in Nat /\ Len(steps) \in 5..7
  BY ControllerFacts, StepsShape DEF ProcessInv
<1>e. ASSUME status = "end" PROVE "workers" \in failed \/ drainTimer = "expired"
  <2>1. quit # "none"
    BY <1>e, <1>t DEF Connection!TypeOK
  <2>2. current > 3
    <3>1. current >= Len(steps)
      BY <2>1 DEF ProcessInv, ClientInv
    <3> QED BY <3>1, ControllerFacts, StepsShape DEF ProcessInv
  <2>3. Pending # {}
    BY <1>j DEF Pending
  <2> QED BY <2>2, <2>3 DEF ProcessInv, DrainInv
<1>1. Proved!ShutdownInv'
  BY <1>u, ControllerStep DEF ProcessInv
<1>2. Connection!TypeOK'
  BY <1>s, <1>t DEF Connection!TypeOK
<1>3. OwnTypes'
  BY <1>s, <1>j, <1>t DEF OwnTypes
<1>4. BootInv' /\ ClientInv'
  BY <1>s DEF ProcessInv, BootInv, ClientInv
<1>5. DrainInv'
  <2>1. Pending' \subseteq Pending /\ Active' = Active
    BY <1>s, <1>j, <1>t DEF Pending, Active, OwnTypes
  <2> QED BY <2>1, <1>s DEF ProcessInv, DrainInv
<1>6. WritesInv'
  <2>1. \A i \in Jobs : writes'[i] # "none" => jobs'[i] = "ended"
    BY <1>s, <1>j, <1>t DEF ProcessInv, WritesInv, OwnTypes
  <2>2. \A i \in Jobs : writes'[i] = "lost" => writes[i] = "lost" \/ status = "end"
    BY <1>j, <1>t DEF OwnTypes
  <2> QED BY <2>1, <2>2, <1>e, <1>s DEF ProcessInv, WritesInv, Excused
<1> QED BY <1>1, <1>2, <1>3, <1>4, <1>5, <1>6, Types DEF ProcessInv

\* A signal: the controller's first step, or nothing.
LEMMA RequestShutdownInv ==
  ASSUME ProcessInv, RequestShutdown
  PROVE  ProcessInv'
<1>u. UNCHANGED <<boot, jobVars, stepVars, killed, clientVars>>
  BY DEF RequestShutdown
<1>s. UNCHANGED <<boot, jobs, writes, snapshot, drainTimer, failed, killed, redis, outages, status, quit>>
  BY <1>u DEF jobVars, stepVars, clientVars
<1>r. /\ boot = "up"
      /\ outcome' = outcome
      /\ current' = IF running THEN current ELSE 1
  BY DEF RequestShutdown, Controller!Request
<1>c. /\ current \in Nat /\ Len(steps) \in 5..7
      /\ running <=> current > 0
  BY ControllerFacts, StepsShape DEF ProcessInv
<1>1. Proved!ShutdownInv'
  BY ControllerStep DEF ProcessInv, RequestShutdown
<1>2. Connection!TypeOK' /\ OwnTypes'
  BY <1>s, Types DEF Connection!TypeOK, OwnTypes
<1>3. BootInv'
  BY <1>s, <1>r DEF ProcessInv, BootInv
<1>4. current' = current \/ (current = 0 /\ current' = 1)
  BY <1>r, <1>c
<1>5. DrainInv'
  BY <1>s, <1>4 DEF ProcessInv, DrainInv, Active, Pending
<1>6. ClientInv'
  BY <1>s, <1>4, <1>c DEF ProcessInv, ClientInv
<1>7. WritesInv'
  BY <1>s, <1>r DEF ProcessInv, WritesInv, Excused
<1> QED BY <1>1, <1>2, <1>3, <1>5, <1>6, <1>7, Types DEF ProcessInv

\* A signal before the handlers: it finds work only where jobs are fetched.
LEMMA KilledBySignalInv ==
  ASSUME ProcessInv, KilledBySignal
  PROVE  ProcessInv'
<1>u. UNCHANGED <<shutdownVars, boot, jobs, stepVars, clientVars>> /\ killed' = TRUE /\ boot # "up"
  BY DEF KilledBySignal
<1>s. UNCHANGED <<running, current, begun, outcome, exit, boot, jobs, snapshot, drainTimer,
                  failed, redis, outages, status, quit>>
  BY <1>u DEF shutdownVars, stepVars, clientVars
<1>w. writes' = [j \in Jobs |-> IF writes[j] = "pending" THEN "lost" ELSE writes[j]]
  BY DEF KilledBySignal, LoseWrites, Pending
<1>t. OwnTypes
  BY Types
<1>1. Proved!ShutdownInv'
  BY <1>u, ControllerStep DEF ProcessInv
<1>2. Connection!TypeOK'
  BY <1>s, Types DEF Connection!TypeOK
<1>3. OwnTypes'
  <2>1. killed' \in BOOLEAN
    BY <1>u, Zenon
  <2>2. writes' \in [Jobs -> {"none", "pending", "written", "lost"}]
    BY <1>w, <1>t DEF OwnTypes
  <2> QED BY <2>1, <2>2, <1>s, <1>t DEF OwnTypes
<1>4. BootInv' /\ ClientInv'
  BY <1>s, <1>u DEF ProcessInv, BootInv, ClientInv
<1>5. DrainInv'
  <2>1. Pending' = {} /\ Active' = Active
    BY <1>s, <1>w DEF Pending, Active
  <2> QED BY <2>1, <1>s DEF ProcessInv, DrainInv
<1>6. WritesInv'
  <2>1. \A j \in Jobs : writes'[j] # "none" => writes[j] # "none"
    BY <1>w
  <2>2. ASSUME NEW j \in Jobs, writes'[j] = "lost" PROVE Excused'
    <3>1. jobs[j] = "ended"
      BY <2>1, <2>2 DEF ProcessInv, WritesInv
    <3>2. boot \in {"binding", "headless"}
      BY <3>1, <1>u, <1>t DEF ProcessInv, BootInv, OwnTypes
    <3> QED BY <3>2, <1>u, <1>s DEF Excused
  <2> QED BY <2>1, <2>2, <1>s DEF ProcessInv, WritesInv
<1> QED BY <1>1, <1>2, <1>3, <1>4, <1>5, <1>6, Types DEF ProcessInv

\* The deadline of the drain and that of the whole shutdown.
LEMMA DeadlinesInv ==
  ASSUME ProcessInv, DrainDeadline \/ DeadlinePasses
  PROVE  ProcessInv'
<1>s. UNCHANGED <<running, current, begun, exit, boot, jobs, writes, snapshot, failed, killed,
                  redis, outages, status, quit>>
  BY DEF DrainDeadline, DeadlinePasses, Controller!Deadline, shutdownVars, jobVars, stepVars, clientVars
<1>d. /\ drainTimer' = drainTimer \/ (drainTimer = "armed" /\ drainTimer' = "expired")
      /\ outcome' = outcome \/ (running /\ outcome' = "timeout")
  BY DEF DrainDeadline, DeadlinePasses, Controller!Deadline, shutdownVars, stepVars
<1>1. Proved!ShutdownInv'
  BY ControllerStep DEF ProcessInv, DrainDeadline, DeadlinePasses
<1>2. Connection!TypeOK'
  BY <1>s, Types DEF Connection!TypeOK
<1>3. OwnTypes'
  BY <1>s, <1>d, Types DEF OwnTypes
<1>4. BootInv'
  BY <1>s, <1>d DEF ProcessInv, BootInv
<1>5. DrainInv' /\ ClientInv'
  BY <1>s, <1>d DEF ProcessInv, DrainInv, ClientInv, Active, Pending
<1>6. WritesInv'
  BY <1>s, <1>d DEF ProcessInv, WritesInv, Excused
<1> QED BY <1>1, <1>2, <1>3, <1>4, <1>5, <1>6, Types DEF ProcessInv

\* The client and Redis: QUIT is sent by close() alone.
LEMMA ClientInvariant ==
  ASSUME ProcessInv, ClientNext \/ RedisNext
  PROVE  ProcessInv'
<1>u. UNCHANGED <<shutdownVars, boot, jobVars, stepVars, killed>>
  BY DEF ClientNext, RedisNext
<1>s. UNCHANGED <<running, current, begun, outcome, exit, boot, jobs, writes, snapshot, drainTimer,
                  failed, killed>>
  BY <1>u DEF shutdownVars, jobVars, stepVars
<1>1. Proved!ShutdownInv'
  BY <1>u, ControllerStep DEF ProcessInv
<1>2. Connection!TypeOK' /\ (quit' # "none" => quit # "none")
  BY ClientSteps, Types DEF ClientNext, RedisNext
<1>3. OwnTypes'
  BY <1>s, Types DEF OwnTypes
<1>4. BootInv' /\ DrainInv' /\ WritesInv'
  BY <1>s DEF ProcessInv, BootInv, DrainInv, WritesInv, Excused, Active, Pending
<1>5. ClientInv'
  BY <1>s, <1>2 DEF ProcessInv, ClientInv
<1> QED BY <1>1, <1>2, <1>3, <1>4, <1>5, Types DEF ProcessInv

\* The end: a write in flight outlasted the steps, or one of its excuses is there.
LEMMA ExitInv ==
  ASSUME ProcessInv, Exit
  PROVE  ProcessInv'
<1>s. UNCHANGED <<running, current, begun, outcome, boot, jobs, snapshot, drainTimer, failed,
                  killed, redis, outages, status, quit>>
  BY DEF Exit, Controller!ExitTimer, Controller!LoopEmpties, stepVars, clientVars
<1>w. /\ writes' = [j \in Jobs |-> IF writes[j] = "pending" THEN "lost" ELSE writes[j]]
      /\ outcome # "none"
  BY DEF Exit, LoseWrites, Pending, Controller!ExitTimer, Controller!LoopEmpties
<1>t. OwnTypes
  BY Types
<1>1. Proved!ShutdownInv'
  BY ControllerStep DEF ProcessInv, Exit
<1>2. Connection!TypeOK'
  BY <1>s, Types DEF Connection!TypeOK
<1>3. OwnTypes'
  <2>1. writes' \in [Jobs -> {"none", "pending", "written", "lost"}]
    BY <1>w, <1>t DEF OwnTypes
  <2> QED BY <2>1, <1>s, <1>t DEF OwnTypes
<1>4. BootInv' /\ ClientInv'
  BY <1>s DEF ProcessInv, BootInv, ClientInv
<1>5. DrainInv'
  <2>1. Pending' = {} /\ Active' = Active
    BY <1>s, <1>w DEF Pending, Active
  <2> QED BY <2>1, <1>s DEF ProcessInv, DrainInv
<1>6. WritesInv'
  <2>1. \A j \in Jobs : writes'[j] # "none" => writes[j] # "none"
    BY <1>w
  <2>2. ASSUME NEW j \in Jobs, writes[j] = "pending" PROVE Excused \/ drainTimer = "expired"
    <3>1. CASE outcome = "timeout"
      BY <3>1 DEF Excused
    <3>2. CASE outcome = "complete"
      <4>1. current > 3
        BY <3>2, ControllerFacts, StepsShape DEF ProcessInv
      <4>2. Pending # {}
        BY <2>2 DEF Pending
      <4> QED BY <4>1, <4>2 DEF ProcessInv, DrainInv, Excused
    <3> QED BY <3>1, <3>2, <1>w, ControllerFacts DEF ProcessInv
  <2>3. \A j \in Jobs : writes'[j] = "lost" => writes[j] \in {"pending", "lost"}
    BY <1>w
  <2> QED BY <2>1, <2>2, <2>3, <1>s DEF ProcessInv, WritesInv, Excused
<1> QED BY <1>1, <1>2, <1>3, <1>4, <1>5, <1>6, Types DEF ProcessInv

\* What a step's end does to the controller, the drain and the client, whichever step.
LEMMA StepEndsFacts ==
  ASSUME ProcessInv, NEW ok \in BOOLEAN, Controller!StepEnds(ok), DrainBegins, CloseBegins
  PROVE  /\ Proved!ShutdownInv' /\ Connection!TypeOK' /\ ClientInv'
         /\ running /\ running' = running
         /\ current \in 1..Len(steps) /\ current' = current + 1
         /\ outcome = "timeout" => outcome' = "timeout"
         /\ IF current = 2
            THEN snapshot' = Pending /\ drainTimer = "off" /\ drainTimer' \in {"off", "armed"}
            ELSE UNCHANGED <<snapshot, drainTimer>>
<1>1. Proved!ShutdownInv'
  BY ControllerStep DEF ProcessInv
<1>2. /\ current \in 1..Len(steps) /\ current' = current + 1
      /\ running' = running
      /\ outcome = "timeout" => outcome' = "timeout"
  BY DEF Controller!StepEnds
<1>3. running
  BY <1>2, ControllerFacts, StepsShape DEF ProcessInv
<1>4. /\ NextIs("dead-letter-drain") <=> current = 2
      /\ NextIs("redis") <=> current + 1 = Len(steps)
  BY <1>2, StepsShape DEF NextIs
<1>5. /\ drainTimer # "off" => current > 2
      /\ quit # "none" => current >= Len(steps)
  BY DEF ProcessInv, ClientInv
<1>6. IF current = 2
      THEN snapshot' = Pending /\ drainTimer = "off" /\ drainTimer' \in {"off", "armed"}
      ELSE UNCHANGED <<snapshot, drainTimer>>
  BY <1>2, <1>4, <1>5, StepsShape DEF DrainBegins
<1>7. CASE current + 1 = Len(steps)
  <2>1. quit = "none"
    BY <1>2, <1>5, <1>7, StepsShape
  <2>2. Connection!TypeOK'
    BY <2>1, <1>4, <1>7, Types, ClientCloses DEF CloseBegins
  <2>3. ClientInv'
    BY <1>2, <1>5, <1>6, <1>7, StepsShape DEF ClientInv
  <2> QED BY <2>2, <2>3, <1>1, <1>2, <1>3, <1>6
<1>8. CASE current + 1 # Len(steps)
  <2>1. UNCHANGED <<redis, outages, status, quit>>
    BY <1>4, <1>8 DEF CloseBegins, clientVars
  <2>2. Connection!TypeOK'
    BY <2>1, Types DEF Connection!TypeOK
  <2>3. ClientInv'
    BY <2>1, <1>2, <1>5, <1>6, StepsShape DEF ClientInv
  <2> QED BY <2>2, <2>3, <1>1, <1>2, <1>3, <1>6
<1> QED BY <1>7, <1>8

\* The steps after the workers leave what that step established; it and the drain
\* establish it when they end well.
LEMMA StepEndsInv ==
  ASSUME ProcessInv, StepResolves \/ StepRejects
  PROVE  ProcessInv'
<1>s. UNCHANGED <<boot, jobs, writes, killed>>
  BY DEF StepResolves, StepRejects, jobVars
<1>f. /\ Proved!ShutdownInv' /\ Connection!TypeOK' /\ ClientInv'
      /\ running /\ running' = running
      /\ current \in 1..Len(steps) /\ current' = current + 1
      /\ outcome = "timeout" => outcome' = "timeout"
      /\ IF current = 2
         THEN snapshot' = Pending /\ drainTimer = "off" /\ drainTimer' \in {"off", "armed"}
         ELSE UNCHANGED <<snapshot, drainTimer>>
  BY StepEndsFacts DEF StepResolves, StepRejects
<1>g. failed \subseteq failed' /\ failed' \subseteq failed \cup {steps[current]}
  BY DEF StepResolves, StepRejects
<1>t. OwnTypes
  BY Types
<1>e. Pending \subseteq {j \in Jobs : jobs[j] = "ended"}
  BY DEF ProcessInv, WritesInv, Pending
<1>1. OwnTypes'
  <2>1. snapshot' \subseteq {j \in Jobs : jobs'[j] = "ended"} /\ drainTimer' \in {"off", "armed", "expired"}
    BY <1>f, <1>t, <1>e, <1>s DEF OwnTypes
  <2>2. failed' \subseteq {steps[k] : k \in 1..Len(steps)}
    BY <1>f, <1>g, <1>t DEF OwnTypes
  <2> QED BY <2>1, <2>2, <1>s, <1>t DEF OwnTypes
<1>2. BootInv'
  BY <1>s, <1>f DEF ProcessInv, BootInv
<1>3. DrainInv'
  <2> SUFFICES ASSUME "workers" \notin failed'
               PROVE  /\ current' > 2 => Active' = {} /\ Pending' \subseteq snapshot'
                      /\ current' > 3 /\ drainTimer' # "expired" => Pending' = {}
    BY DEF DrainInv
  <2>1. Active' = Active /\ Pending' = Pending
    BY <1>s DEF Active, Pending
  <2>2. "workers" \notin failed
    BY <1>g
  <2>3. steps[2] = "workers" /\ steps[3] = "dead-letter-drain"
    BY StepsShape
  <2>4. CASE current = 1
    BY <2>4, <1>f
  <2>5. CASE current = 2
    <3>1. StepResolves
      BY <2>3, <2>5 DEF StepRejects
    <3>2. Active = {}
      BY <3>1, <2>3, <2>5 DEF StepResolves, StepDone
    <3> QED BY <3>2, <2>1, <2>5, <1>f
  <2>6. CASE current = 3
    <3>1. StepResolves
      BY <2>3, <2>6 DEF StepRejects
    <3>2. snapshot \cap Pending = {} \/ drainTimer = "expired"
      BY <3>1, <2>3, <2>6 DEF StepResolves, StepDone
    <3>3. Active = {} /\ Pending \subseteq snapshot
      BY <2>2, <2>6 DEF ProcessInv, DrainInv
    <3> QED BY <3>2, <3>3, <2>1, <2>6, <1>f
  <2>7. CASE current > 3
    BY <2>1, <2>2, <2>7, <1>f DEF ProcessInv, DrainInv
  <2> QED BY <2>4, <2>5, <2>6, <2>7, <1>f, StepsShape
<1>4. WritesInv'
  <2>1. drainTimer = "expired" => drainTimer' = "expired"
    BY <1>f
  <2> QED BY <2>1, <1>s, <1>f, <1>g DEF ProcessInv, WritesInv, Excused
<1> QED BY <1>1, <1>2, <1>3, <1>4, <1>f, Types DEF ProcessInv

\* Every step of the process.
LEMMA NextInv == ProcessInv /\ [Next]_vars => ProcessInv'
<1> SUFFICES ASSUME ProcessInv, [Next]_vars PROVE ProcessInv'
  OBVIOUS
<1>1. CASE UNCHANGED vars
  <2>1. UNCHANGED shutdownVars
    BY <1>1 DEF vars
  <2>2. Proved!ShutdownInv'
    BY <2>1, ControllerStep DEF ProcessInv
  <2>3. UNCHANGED <<running, current, outcome, boot, jobs, writes, snapshot, drainTimer, failed,
                    killed, redis, outages, status, quit>>
    BY <1>1 DEF vars, shutdownVars, jobVars, stepVars, clientVars
  <2>4. Connection!TypeOK' /\ OwnTypes'
    BY <2>3, Types DEF Connection!TypeOK, OwnTypes
  <2>5. BootInv' /\ DrainInv' /\ ClientInv' /\ WritesInv'
    BY <2>3 DEF ProcessInv, BootInv, DrainInv, ClientInv, WritesInv, Excused, Active, Pending
  <2> QED BY <2>2, <2>4, <2>5, Types DEF ProcessInv
<1>2. CASE BootNext
  BY <1>2, BootNextInv
<1>3. ASSUME NEW j \in Jobs, Fetch(j) \/ (\E failure \in BOOLEAN : Settle(j, failure)) \/ WriteEnds(j)
      PROVE  ProcessInv'
  BY <1>3, FetchInv, SettleInv, WriteEndsInv
<1>4. CASE RequestShutdown \/ KilledBySignal
  BY <1>4, RequestShutdownInv, KilledBySignalInv
<1>5. CASE StepResolves \/ StepRejects
  BY <1>5, StepEndsInv
<1>6. CASE DrainDeadline \/ DeadlinePasses
  BY <1>6, DeadlinesInv
<1>7. CASE Exit
  BY <1>7, ExitInv
<1>8. CASE ClientNext \/ RedisNext
  BY <1>8, ClientInvariant
<1> QED BY <1>1, <1>2, <1>3, <1>4, <1>5, <1>6, <1>7, <1>8 DEF Next

-----------------------------------------------------------------------------
(* The theorems.                                                           *)

\* The invariant of every run of the process.
THEOREM ProcessInvariant == Spec => []ProcessInv
<1> QED BY InitInv, NextInv, PTL DEF Spec

\* Type correctness.
THEOREM TypeCorrect == Spec => []TypeOK
<1>1. ProcessInv => TypeOK
  BY DEF ProcessInv
<1> QED BY <1>1, ProcessInvariant, PTL

\* The shared connection starts to close when no job is active and no dead-letter
\* write in flight, unless a step failed or the drain ran out of time.
THEOREM WorkBeforeConnection == Spec => []ConnectionOutlivesWork
<1>1. ProcessInv => ConnectionOutlivesWork
  <2> SUFFICES ASSUME ProcessInv, Orderly, Started("redis") PROVE Active = {} /\ Pending = {}
    BY DEF ConnectionOutlivesWork
  <2>1. current \in Nat /\ current > 3
    BY ControllerFacts, StepsShape DEF ProcessInv
  <2> QED BY <2>1 DEF ProcessInv, DrainInv, Orderly
<1> QED BY <1>1, ProcessInvariant, PTL

\* A process that ends with a job active or a dead-letter write lost has one of the
\* reasons listed: no order of signals, outages and deadlines makes another.
THEOREM LossesExcused == Spec => []LossesHaveReasons
<1>1. ProcessInv => LossesHaveReasons
  <2> SUFFICES ASSUME ProcessInv, ~Alive
               PROVE  /\ Active # {} => Excused
                      /\ (\E j \in Jobs : writes[j] = "lost") => Excused \/ drainTimer = "expired"
    BY DEF LossesHaveReasons, Excused
  <2>1. (\E j \in Jobs : writes[j] = "lost") => Excused \/ drainTimer = "expired"
    BY DEF ProcessInv, WritesInv
  <2>2. ASSUME Active # {} PROVE Excused
    <3>1. PICK j \in Jobs : jobs[j] = "active"
      BY <2>2 DEF Active
    <3>2. CASE killed
      <4>1. boot \in {"binding", "headless"}
        BY <3>1, <3>2, Types DEF ProcessInv, BootInv, OwnTypes
      <4> QED BY <3>2, <4>1 DEF Excused
    <3>3. CASE exit # "none"
      <4>1. outcome # "none" /\ outcome \in {"none", "complete", "timeout"}
        BY <3>3, ControllerFacts DEF ProcessInv
      <4>2. CASE outcome = "timeout"
        BY <4>2 DEF Excused
      <4>3. CASE outcome = "complete"
        <5>1. current > 2
          BY <4>3, ControllerFacts, StepsShape DEF ProcessInv
        <5> QED BY <5>1, <2>2 DEF ProcessInv, DrainInv, Excused
      <4> QED BY <4>1, <4>2, <4>3
    <3> QED BY <3>2, <3>3 DEF Alive, Controller!Alive
  <2> QED BY <2>1, <2>2
<1> QED BY <1>1, ProcessInvariant, PTL

=============================================================================
