----------------------------- MODULE ApiProcess -----------------------------
(***************************************************************************)
(* One API process from boot to exit (api/server.ts): bootstrap, enqueue   *)
(* requests and readiness probes in flight, and the ordered shutdown,      *)
(* which instantiates Shutdown; its client is a RedisConnection without an *)
(* offline queue.  What enqueue() does with a request is Enqueue's         *)
(* subject; here an accepted request only awaits Redis.                    *)
(*                                                                         *)
(* A probe's time limit and the pause of the drain both last               *)
(* READINESS_TIMEOUT_MS, and timers of one duration fire in the order they *)
(* were armed: they form one queue.                                        *)
(***************************************************************************)
EXTENDS Naturals, Sequences, SequencesExt

CONSTANTS
  Posts,          \* POST requests
  Probes,         \* GET /health/ready requests
  Drain,          \* the drain's entry in the queue of timers
  BootMayFail,    \* whether the port may be taken
  StepsMayFail,   \* whether closing the server or a queue may reject
  MaxOutages,     \* bound: Redis outages
  MaxRequests     \* bound: signals and last-resort events

ASSUME ApiProcessAssumption ==
  /\ Drain \notin Probes
  /\ {BootMayFail, StepsMayFail} \subseteq BOOLEAN
  /\ {MaxOutages, MaxRequests} \subseteq Nat

\* Fault: the queues are closed while the server still accepts requests.
steps_QueuesFirst == <<"drain-readiness", "queues", "http-server", "redis">>

steps == <<"drain-readiness", "http-server", "queues", "redis">>

\* The pause's timer, the sockets of the server and of the shared client.
holders == {"drain-readiness", "http-server", "redis"}

VARIABLES
  \* the shutdown controller's
  running, current, begun, released, outcome, exit, requests,
  \* the process's
  boot,    \* where main() is; "up" once it listens
  sock,    \* per POST: "none", "open", "answered", "timed out" or "cut"
  work,    \* per POST: its handler: "none", "adding", "queued" or "failed"
  probe,   \* per probe: "none", "pinging", "200", "503" or "cut"
  timers,  \* the timers of READINESS_TIMEOUT_MS, oldest first
  failed,  \* the steps that rejected
  killed,  \* whether a signal nobody handled ended the process
  \* the client's
  redis, outages, status, quit

Controller == INSTANCE Shutdown WITH Steps <- steps, Holders <- holders
Connection == INSTANCE RedisConnection WITH OfflineQueue <- FALSE

shutdownVars == <<running, current, begun, released, outcome, exit, requests>>
postVars  == <<sock, work>>
probeVars == <<probe, timers>>
endVars   == <<failed, killed>>
clientVars == <<redis, outages, status, quit>>
vars == <<shutdownVars, boot, postVars, probeVars, endVars, clientVars>>

Alive == Controller!Alive /\ ~killed
Started(s) == begun[s] > 0

\* Set by the first step of the shutdown.
shuttingDown == Started("drain-readiness")

\* Whether the client sends a command now; otherwise the command fails at once.
Writable == status = "ready"

\* New requests are served until app.close() is called.
Listening == boot = "up" /\ ~Started("http-server")

Init ==
  /\ Controller!Init
  /\ boot = "connecting"
  /\ sock = [p \in Posts |-> "none"]
  /\ work = [p \in Posts |-> "none"]
  /\ probe = [q \in Probes |-> "none"]
  /\ timers = <<>>
  /\ failed = {}
  /\ killed = FALSE
  /\ Connection!Init

-----------------------------------------------------------------------------
(* main(): the bootstrap.                                                  *)

Boot(from, to) ==
  /\ Alive
  /\ boot = from
  /\ boot' = to
  /\ UNCHANGED <<shutdownVars, postVars, probeVars, endVars, clientVars>>

\* waitUntilRedisReady: ready, or its time is up; main() goes on either way.
RedisAwaited == Boot("connecting", "building")

\* The signal handlers are installed between buildApp() and listen().
Handled == boot \in {"binding", "up", "failed"}
AppBuilt == Boot("building", "binding")

Listens == ~Started("http-server") /\ Boot("binding", "up")

\* The port is taken, or the app is closed already: main() rejects and sets
\* process.exitCode; the Redis client keeps the process alive.
ListenFails == (BootMayFail \/ Started("http-server")) /\ Boot("binding", "failed")

-----------------------------------------------------------------------------
(* POST requests.                                                          *)

\* A request is accepted; its add is sent, or fails fast.
PostArrives(p) ==
  /\ Alive
  /\ Listening
  /\ sock[p] = "none"
  /\ sock' = [sock EXCEPT ![p] = IF Writable THEN "open" ELSE "answered"]
  /\ work' = [work EXCEPT ![p] = IF Writable THEN "adding" ELSE "failed"]
  /\ UNCHANGED <<shutdownVars, boot, probeVars, endVars, clientVars>>

\* The add, sent again after an outage, ends, or it is flushed by the closing of the
\* client.
AddEnds(p) ==
  /\ Alive
  /\ work[p] = "adding"
  /\ Connection!Connected \/ status = "end"
  /\ work' = [work EXCEPT ![p] = IF status # "end" THEN "queued" ELSE "failed"]
  /\ sock' = [sock EXCEPT ![p] = IF @ = "open" THEN "answered" ELSE @]
  /\ UNCHANGED <<shutdownVars, boot, probeVars, endVars, clientVars>>

\* connectionTimeout destroys a socket that has been idle for too long; the handler
\* runs on.
SocketTimesOut(p) ==
  /\ Alive
  /\ sock[p] = "open"
  /\ sock' = [sock EXCEPT ![p] = "timed out"]
  /\ UNCHANGED <<shutdownVars, boot, work, probeVars, endVars, clientVars>>

-----------------------------------------------------------------------------
(* GET /health/ready and pingRedis                                         *)

\* Fault: the ping has no time limit.
ProbeArrives_Unbounded(q) ==
  /\ Alive
  /\ Listening
  /\ probe[q] = "none"
  /\ probe' = [probe EXCEPT ![q] = IF shuttingDown \/ ~Writable THEN "503" ELSE "pinging"]
  /\ UNCHANGED <<shutdownVars, boot, postVars, timers, endVars, clientVars>>

\* 503 while draining; otherwise the ping is sent, with a time limit, or fails fast.
ProbeArrives(q) ==
  LET refused == shuttingDown \/ ~Writable
  IN  /\ Alive
      /\ Listening
      /\ probe[q] = "none"
      /\ probe' = [probe EXCEPT ![q] = IF refused THEN "503" ELSE "pinging"]
      /\ timers' = IF refused THEN timers ELSE Append(timers, q)
      /\ UNCHANGED <<shutdownVars, boot, postVars, endVars, clientVars>>

Replied(q, code) ==
  /\ probe' = [probe EXCEPT ![q] = code]
  /\ timers' = RemoveFirst(timers, q)
  /\ UNCHANGED <<shutdownVars, boot, postVars, endVars, clientVars>>

\* The ping is answered first: the handler does not look at shuttingDown again.
PingAnswered(q) ==
  /\ Alive
  /\ Connection!Connected
  /\ probe[q] = "pinging"
  /\ Replied(q, "200")

\* The time limit is reached first, or the client is closed.
PingFails(q) ==
  /\ Alive
  /\ probe[q] = "pinging"
  /\ status = "end" \/ (timers # <<>> /\ Head(timers) = q)
  /\ Replied(q, "503")

-----------------------------------------------------------------------------
(* Shutdown.                                                               *)

RequestShutdown ==
  /\ Alive
  /\ Handled
  /\ Controller!Request
  /\ timers' = IF running THEN timers ELSE Append(timers, Drain)
  /\ UNCHANGED <<boot, postVars, probe, endVars, clientVars>>

\* With its process every open socket is gone.
CutAll ==
  /\ sock' = [p \in Posts |-> IF sock[p] = "open" THEN "cut" ELSE sock[p]]
  /\ probe' = [q \in Probes |-> IF probe[q] = "pinging" THEN "cut" ELSE probe[q]]

\* Before the handlers are installed a signal has its default effect.
KilledBySignal ==
  /\ Alive
  /\ ~Handled
  /\ killed' = TRUE
  /\ CutAll
  /\ UNCHANGED <<shutdownVars, boot, work, timers, failed, clientVars>>

\* Faults: the first step marks the process and does not pause; the closing of the
\* app is not awaited.
StepDone_NoPause ==
  steps[current] = "http-server" =>
    /\ \A p \in Posts : sock[p] # "open"
    /\ \A q \in Probes : probe[q] # "pinging"

StepDone_CloseNotAwaited ==
  steps[current] = "drain-readiness" => timers # <<>> /\ Head(timers) = Drain

\* The pause ends with its timer, app.close() waits for every open connection, and
\* connection.close() for its QUIT.
StepDone ==
  /\ steps[current] = "drain-readiness" => timers # <<>> /\ Head(timers) = Drain
  /\ steps[current] = "http-server" =>
       /\ \A p \in Posts : sock[p] # "open"
       /\ \A q \in Probes : probe[q] # "pinging"
  /\ steps[current] = "redis" => quit = "settled"

CloseBegins ==
  IF current < Len(steps) /\ steps[current + 1] = "redis" THEN Connection!Close(FALSE)
  ELSE UNCHANGED clientVars

StepResolves ==
  /\ Alive
  /\ Controller!StepEnds(TRUE)
  /\ StepDone
  /\ CloseBegins
  /\ timers' = IF steps[current] = "drain-readiness" THEN RemoveFirst(timers, Drain)
               ELSE timers
  /\ UNCHANGED <<boot, postVars, probe, endVars>>

\* The pause and connection.close() throw nothing.
StepRejects ==
  /\ Alive
  /\ StepsMayFail
  /\ Controller!StepEnds(FALSE)
  /\ steps[current] \in {"http-server", "queues"}
  /\ failed' = failed \cup {steps[current]}
  /\ CloseBegins
  /\ UNCHANGED <<boot, postVars, probeVars, killed>>

DeadlinePasses ==
  /\ Alive
  /\ Controller!Deadline
  /\ UNCHANGED <<boot, postVars, probeVars, endVars, clientVars>>

\* A process whose main() failed has its exit code set.
LoopEmptiesAfterFailure ==
  /\ boot = "failed"
  /\ outcome # "none"
  /\ holders \subseteq released
  /\ exit' = "1"
  /\ UNCHANGED <<running, current, begun, released, outcome, requests>>

Exit ==
  /\ Alive
  /\ Controller!ExitTimer \/ (boot # "failed" /\ Controller!LoopEmpties) \/ LoopEmptiesAfterFailure
  /\ CutAll
  /\ UNCHANGED <<boot, work, timers, endVars, clientVars>>

ClientNext ==
  /\ Alive
  /\ Connection!Connects \/ Connection!Breaks \/ Connection!QuitAnswered
  /\ UNCHANGED <<shutdownVars, boot, postVars, probeVars, endVars>>

RedisNext ==
  /\ Connection!RedisFails \/ Connection!RedisReturns
  /\ UNCHANGED <<shutdownVars, boot, postVars, probeVars, endVars>>

-----------------------------------------------------------------------------
Next ==
  \/ RedisAwaited
  \/ AppBuilt
  \/ Listens
  \/ ListenFails
  \/ \E p \in Posts : PostArrives(p) \/ AddEnds(p) \/ SocketTimesOut(p)
  \/ \E q \in Probes : ProbeArrives(q) \/ PingAnswered(q) \/ PingFails(q)
  \/ RequestShutdown
  \/ KilledBySignal
  \/ StepResolves
  \/ StepRejects
  \/ DeadlinePasses
  \/ Exit
  \/ ClientNext
  \/ RedisNext

Spec == Init /\ [][Next]_vars

\* Timers fire.  Redis is not assumed to answer.
FairSpec ==
  /\ Spec
  /\ \A q \in Probes : WF_vars(PingFails(q))
  /\ WF_vars(StepResolves)

-----------------------------------------------------------------------------
(* Properties.                                                             *)

\* Every variable holds a value of its type: type correctness of the model of the
\* process.
TypeOK ==
  /\ Controller!TypeOK
  /\ boot \in {"connecting", "building", "binding", "up", "failed"}
  /\ sock \in [Posts -> {"none", "open", "answered", "timed out", "cut"}]
  /\ work \in [Posts -> {"none", "adding", "queued", "failed"}]
  /\ probe \in [Probes -> {"none", "pinging", "200", "503", "cut"}]
  /\ IsInjective(timers)
  /\ \A k \in 1..Len(timers) : timers[k] \in Probes \cup {Drain}
  /\ failed \subseteq {steps[k] : k \in 1..Len(steps)}
  /\ killed \in BOOLEAN
  /\ Connection!TypeOK

\* "a request that has already been accepted still gets to finish enqueueing its
\* job": when the queues start to close no handler awaits an add, but for one whose
\* socket timed out: app.close() waits for sockets, not for handlers.
AcceptedFinishes ==
  "http-server" \notin failed /\ Started("queues") =>
    \A p \in Posts : work[p] = "adding" => sock[p] = "timed out"

\* A probe that read shuttingDown before the shutdown began is answered before the
\* server closes: the pause is no shorter than the time limit of a ping.
ProbesSettleBeforeClose ==
  Started("http-server") => \A q \in Probes : probe[q] # "pinging"

\* A shutdown cuts no request off unless its deadline passes or the server's close()
\* fails; nor does a signal at any moment of the bootstrap.
OnlyDeadlineCuts ==
  (\E p \in Posts : sock[p] = "cut") => outcome = "timeout" \/ "http-server" \in failed

\* "A probe that can block for the driver's full retry budget is worse than no
\* probe at all": every probe is answered while the process lives, also while Redis
\* hangs and while the process drains.
ProbeAnswered == \A q \in Probes : probe[q] = "pinging" ~> probe[q] # "pinging"

=============================================================================
