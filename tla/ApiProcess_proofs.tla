-------------------------- MODULE ApiProcess_proofs -------------------------
(***************************************************************************)
(* The API process for any requests, probes, outages and signals: what its *)
(* ordered shutdown lets finish, and what it may cut off.                  *)
(***************************************************************************)
EXTENDS ApiProcess, SequenceTheorems, TLAPS

\* What is proved of the shutdown controller for any list of steps.
Proved == INSTANCE Shutdown_proofs WITH Steps <- steps, Holders <- holders

-----------------------------------------------------------------------------
(* The queue of timers.                                                    *)

In(s, t) == \E k \in 1..Len(s) : s[k] = t

Before(s, t, u) == \E k, l \in 1..Len(s) : k < l /\ s[k] = t /\ s[l] = u

\* A timer is armed behind the others.
LEMMA Appended ==
  ASSUME NEW S, NEW s \in Seq(S), IsInjective(s), NEW e \in S, ~In(s, e)
  PROVE  /\ Append(s, e) \in Seq(S)
         /\ IsInjective(Append(s, e))
         /\ \A t : In(Append(s, e), t) <=> In(s, t) \/ t = e
         /\ \A t : In(s, t) => Before(Append(s, e), t, e)
         /\ \A t, u : Before(s, t, u) => Before(Append(s, e), t, u)
<1> DEFINE r == Append(s, e)
           n == Len(s)
<1>1. /\ r \in Seq(S) /\ n \in Nat /\ Len(r) = n + 1 /\ DOMAIN s = 1..n /\ DOMAIN r = 1..(n + 1)
      /\ r[n + 1] = e
      /\ \A k \in 1..n : r[k] = s[k]
  OBVIOUS
<1>2. \A k \in 1..n : s[k] # e
  BY DEF In
<1> HIDE DEF r, n
<1>3. IsInjective(r)
  <2> SUFFICES ASSUME NEW a \in 1..(n + 1), NEW b \in 1..(n + 1), r[a] = r[b] PROVE a = b
    BY <1>1 DEF IsInjective
  <2>1. CASE a \in 1..n /\ b \in 1..n
    BY <2>1, <1>1 DEF IsInjective
  <2>2. CASE a = n + 1 \/ b = n + 1
    BY <2>2, <1>1, <1>2
  <2> QED BY <2>1, <2>2, <1>1
<1>l. Len(s) = n /\ n + 1 \in 1..(n + 1) /\ 1..n \subseteq 1..(n + 1)
  BY <1>1 DEF n
<1>4. \A t : In(r, t) <=> In(s, t) \/ t = e
  <2>1. ASSUME NEW t, NEW k \in 1..(n + 1), r[k] = t PROVE In(s, t) \/ t = e
    <3>1. CASE k \in 1..n
      BY <3>1, <2>1, <1>1, <1>l DEF In
    <3>2. CASE k = n + 1
      BY <3>2, <2>1, <1>1
    <3> QED BY <3>1, <3>2, <1>1
  <2>2. ASSUME NEW t, NEW k \in 1..n, s[k] = t PROVE In(r, t)
    BY <2>2, <1>1, <1>l DEF In
  <2>3. In(r, e)
    BY <1>1, <1>l DEF In
  <2> QED BY <2>1, <2>2, <2>3, <1>1, <1>l DEF In
<1>5. ASSUME NEW t, In(s, t) PROVE Before(r, t, e)
  <2>1. PICK k \in 1..n : s[k] = t
    BY <1>5, <1>l DEF In
  <2>2. k \in 1..(n + 1) /\ k < n + 1 /\ r[k] = t
    BY <2>1, <1>1
  <2> QED BY <2>2, <1>1, <1>l DEF Before
<1>6. ASSUME NEW t, NEW u, Before(s, t, u) PROVE Before(r, t, u)
  <2>1. PICK k \in 1..n, l \in 1..n : k < l /\ s[k] = t /\ s[l] = u
    BY <1>6, <1>l DEF Before
  <2>2. k \in 1..(n + 1) /\ l \in 1..(n + 1) /\ r[k] = t /\ r[l] = u
    BY <2>1, <1>1
  <2> QED BY <2>1, <2>2, <1>1 DEF Before
<1> QED BY <1>1, <1>3, <1>4, <1>5, <1>6 DEF r

\* The position removed closes up.
LEMMA RemovedAt ==
  ASSUME NEW S, NEW s \in Seq(S), NEW m \in 1..Len(s)
  PROVE  /\ RemoveAt(s, m) \in Seq(S)
         /\ Len(RemoveAt(s, m)) = Len(s) - 1
         /\ \A i \in 1..(Len(s) - 1) : RemoveAt(s, m)[i] = IF i < m THEN s[i] ELSE s[i + 1]
<1> DEFINE n == Len(s)
           a == SubSeq(s, 1, m - 1)
           b == SubSeq(s, m + 1, n)
<1>0. n \in Nat /\ m \in 1..n /\ \A i \in 1..n : s[i] \in S
  OBVIOUS
<1>1. /\ a \in Seq(S) /\ Len(a) = m - 1
      /\ \A i \in 1..(m - 1) : a[i] = s[i]
  BY <1>0
<1>2. /\ b \in Seq(S) /\ Len(b) = n - m
      /\ \A i \in 1..(n - m) : b[i] = s[m + i]
  OBVIOUS
<1>3. RemoveAt(s, m) = a \o b
  BY DEF RemoveAt
<1> HIDE DEF a, b
<1>4. /\ a \o b \in Seq(S)
      /\ Len(a \o b) = Len(a) + Len(b)
      /\ \A i \in 1..(Len(a) + Len(b)) : (a \o b)[i] = IF i <= Len(a) THEN a[i] ELSE b[i - Len(a)]
  BY <1>1, <1>2, ConcatProperties
<1>5. Len(a) + Len(b) = n - 1
  BY <1>0, <1>1, <1>2
<1>6. ASSUME NEW i \in 1..(n - 1) PROVE (a \o b)[i] = IF i < m THEN s[i] ELSE s[i + 1]
  <2>1. CASE i < m
    <3>1. i \in 1..(m - 1) /\ i <= Len(a)
      BY <2>1, <1>0, <1>1
    <3> QED BY <3>1, <2>1, <1>1, <1>4, <1>5
  <2>2. CASE ~(i < m)
    <3>1. ~(i <= Len(a)) /\ i - Len(a) \in 1..(n - m) /\ m + (i - Len(a)) = i + 1
      BY <2>2, <1>0, <1>1
    <3>2. (a \o b)[i] = b[i - Len(a)]
      BY <3>1, <1>4, <1>5
    <3> QED BY <3>1, <3>2, <2>2, <1>2
  <2> QED BY <2>1, <2>2
<1> QED BY <1>3, <1>4, <1>5, <1>6

\* A timer that fires or is cleared leaves the others in their order.
LEMMA Removed ==
  ASSUME NEW S, NEW s \in Seq(S), IsInjective(s), NEW e
  PROVE  /\ RemoveFirst(s, e) \in Seq(S)
         /\ IsInjective(RemoveFirst(s, e))
         /\ \A t : In(RemoveFirst(s, e), t) => In(s, t) /\ t # e
         /\ \A t : In(s, t) /\ t # e => In(RemoveFirst(s, e), t)
         /\ \A t, u : Before(s, t, u) /\ t # e /\ u # e => Before(RemoveFirst(s, e), t, u)
<1>0. Len(s) \in Nat /\ DOMAIN s = 1..Len(s)
  OBVIOUS
<1>1. CASE ~In(s, e)
  <2>1. RemoveFirst(s, e) = s
    BY <1>1 DEF RemoveFirst, In
  <2>2. \A t : In(s, t) => t # e
    BY <1>1
  <2> QED BY <2>1, <2>2
<1>2. CASE In(s, e)
  <2>1. PICK m \in 1..Len(s) : s[m] = e
    BY <1>2 DEF In
  <2>2. {i \in 1..Len(s) : s[i] = e} = {m}
    BY <2>1, <1>0 DEF IsInjective
  <2>3. Min({m}) = m
    BY <1>0 DEF Min
  <2>4. SelectInSeq(s, LAMBDA v : v = e) = m
    BY <2>2, <2>3 DEF SelectInSeq
  <2> DEFINE r == RemoveFirst(s, e)
             n == Len(s)
  <2>5. r = RemoveAt(s, m)
    BY <2>1, <2>4 DEF RemoveFirst
  <2>6. /\ r \in Seq(S) /\ Len(r) = n - 1 /\ DOMAIN r = 1..(n - 1) /\ n \in Nat /\ m \in 1..n
        /\ \A i \in 1..(n - 1) : r[i] = IF i < m THEN s[i] ELSE s[i + 1]
    <3> DEFINE q == RemoveAt(s, m)
    <3>1. /\ q \in Seq(S) /\ Len(q) = n - 1
          /\ \A i \in 1..(n - 1) : q[i] = IF i < m THEN s[i] ELSE s[i + 1]
      BY RemovedAt
    <3>2. r = q
      BY <2>5
    <3> HIDE DEF q, r
    <3>3. DOMAIN q = 1..(n - 1)
      BY <3>1
    <3> QED BY <3>1, <3>2, <3>3, <1>0
  <2>i. \A a, b \in 1..n : s[a] = s[b] => a = b
    BY <1>0 DEF IsInjective
  <2> HIDE DEF r, n
  <2>7. IsInjective(r)
    <3> SUFFICES ASSUME NEW a \in 1..(n - 1), NEW b \in 1..(n - 1), r[a] = r[b] PROVE a = b
      BY <2>6 DEF IsInjective
    <3> DEFINE f(i) == IF i < m THEN i ELSE i + 1
    <3>1. f(a) \in 1..n /\ f(b) \in 1..n /\ r[a] = s[f(a)] /\ r[b] = s[f(b)]
      BY <2>6
    <3>2. f(a) = f(b)
      BY <3>1, <2>i
    <3> QED BY <3>2, <2>6
  <2>8. ASSUME NEW t, In(r, t) PROVE In(s, t) /\ t # e
    <3>1. PICK i \in 1..(n - 1) : r[i] = t
      BY <2>8, <2>6 DEF In
    <3> DEFINE k == IF i < m THEN i ELSE i + 1
    <3>2. k \in 1..n /\ k # m /\ s[k] = t
      BY <3>1, <2>6
    <3> QED BY <3>2, <2>1, <2>i, <2>6 DEF In, n
  <2> DEFINE g(k) == IF k < m THEN k ELSE k - 1
  <2>9. ASSUME NEW k \in 1..n, s[k] # e PROVE g(k) \in 1..(n - 1) /\ r[g(k)] = s[k]
    <3>1. k # m
      BY <2>9, <2>1
    <3>2. CASE k < m
      BY <3>2, <2>6
    <3>3. CASE k > m
      <4>1. k - 1 \in 1..(n - 1) /\ ~(k - 1 < m) /\ (k - 1) + 1 = k /\ g(k) = k - 1
        BY <3>3, <2>6
      <4>2. r[k - 1] = s[(k - 1) + 1]
        BY <4>1, <2>6
      <4> QED BY <4>1, <4>2
    <3> QED BY <3>1, <3>2, <3>3, <2>6
  <2>10. ASSUME NEW t, In(s, t), t # e PROVE In(r, t)
    <3>1. PICK k \in 1..n : s[k] = t
      BY <2>10 DEF In, n
    <3> QED BY <3>1, <2>9, <2>10, <2>6 DEF In
  <2>11. ASSUME NEW t, NEW u, Before(s, t, u), t # e, u # e PROVE Before(r, t, u)
    <3>1. PICK k \in 1..n, l \in 1..n : k < l /\ s[k] = t /\ s[l] = u
      BY <2>11 DEF Before, n
    <3>2. k # m /\ l # m
      BY <3>1, <2>1, <2>11
    <3>3. g(k) < g(l)
      BY <3>1, <3>2, <2>6
    <3> QED BY <3>1, <3>3, <2>9, <2>11, <2>6 DEF Before
  <2> QED BY <2>6, <2>7, <2>8, <2>10, <2>11 DEF r
<1> QED BY <1>1, <1>2

-----------------------------------------------------------------------------
(* The invariant.                                                          *)

Excused == outcome = "timeout" \/ "http-server" \in failed

\* The conjuncts of TypeOK that are not the controller's, the client's or about timers.
OwnTypes ==
  /\ boot \in {"connecting", "building", "binding", "up", "failed"}
  /\ sock \in [Posts -> {"none", "open", "answered", "timed out", "cut"}]
  /\ work \in [Posts -> {"none", "adding", "queued", "failed"}]
  /\ probe \in [Probes -> {"none", "pinging", "200", "503", "cut"}]
  /\ failed \subseteq {steps[k] : k \in 1..Len(steps)}
  /\ killed \in BOOLEAN

\* Each timer is armed once; those of the pings under way were all armed before the
\* pause's, which nothing but the end of the pause takes away.
TimersInv ==
  /\ timers \in Seq(Probes \cup {Drain})
  /\ IsInjective(timers)
  /\ \A q \in Probes : probe[q] = "pinging" => In(timers, q)
  /\ \A q \in Probes : probe[q] = "none" => ~In(timers, q)
  /\ ~running => ~In(timers, Drain)
  /\ current = 1 => \A q \in Probes : probe[q] = "pinging" => Before(timers, q, Drain)
  /\ current >= 2 => \A q \in Probes : probe[q] # "pinging"

\* Requests come once the server listens; a handler outlives its socket only when that
\* times out; after the server has closed none is open.
PostsInv ==
  /\ boot # "up" => \A p \in Posts : sock[p] = "none"
  /\ \A p \in Posts : work[p] = "adding" => sock[p] \in {"open", "timed out", "cut"}
  /\ \A p \in Posts : sock[p] = "cut" => exit # "none" /\ Excused
  /\ current >= 3 /\ "http-server" \notin failed => \A p \in Posts : sock[p] \notin {"open", "cut"}

\* The connection is closed last.
ClientInv == quit # "none" => current >= 4

ProcessInv ==
  /\ Proved!ShutdownInv
  /\ OwnTypes
  /\ Connection!TypeOK
  /\ TimersInv
  /\ PostsInv
  /\ ClientInv

\* The list of steps.
LEMMA StepsShape ==
  /\ Len(steps) = 4
  /\ steps[1] = "drain-readiness" /\ steps[2] = "http-server"
  /\ steps[3] = "queues" /\ steps[4] = "redis"
BY DEF steps

\* The assumption of Shutdown holds of these steps.
LEMMA StepsAssumption == Proved!ShutdownAssumption
<1>1. \A k, l \in 1..Len(steps) : steps[k] = steps[l] => k = l
  BY StepsShape
<1>2. Len(steps) \in Nat \ {0} /\ MaxRequests \in Nat
  BY StepsShape, ApiProcessAssumption
<1>3. holders \subseteq Proved!StepNames
  <2>1. 1 \in 1..Len(steps) /\ 2 \in 1..Len(steps) /\ 4 \in 1..Len(steps)
    BY StepsShape
  <2> QED BY <2>1, StepsShape DEF holders, Proved!StepNames
<1> QED BY <1>1, <1>2, <1>3 DEF Proved!ShutdownAssumption

\* What the controller's invariant says of these steps.
LEMMA ControllerFacts ==
  ASSUME Proved!ShutdownInv
  PROVE  /\ Controller!TypeOK
         /\ current \in 0..5
         /\ outcome \in {"none", "complete", "timeout"}
         /\ running <=> current > 0
         /\ outcome = "complete" => current > 4
         /\ exit # "none" => outcome # "none"
         /\ shuttingDown <=> current >= 1
         /\ Started("http-server") <=> current >= 2
         /\ Started("queues") <=> current >= 3
<1>1. Controller!TypeOK
  BY DEF Proved!ShutdownInv, Proved!TypeOK, Controller!TypeOK, Proved!StepNames, Controller!StepNames
<1>2. /\ current \in 0..5
      /\ outcome \in {"none", "complete", "timeout"}
  BY StepsShape DEF Proved!ShutdownInv, Proved!TypeOK
<1>3. \A k \in 1..Len(steps) : begun[steps[k]] = IF k <= current THEN 1 ELSE 0
  BY DEF Proved!ShutdownInv, Proved!StepsOnceInOrder
<1>4. 1 \in 1..Len(steps) /\ 2 \in 1..Len(steps) /\ 3 \in 1..Len(steps)
  BY StepsShape
<1>5. /\ begun["drain-readiness"] = IF 1 <= current THEN 1 ELSE 0
      /\ begun["http-server"] = IF 2 <= current THEN 1 ELSE 0
      /\ begun["queues"] = IF 3 <= current THEN 1 ELSE 0
  BY <1>3, <1>4, StepsShape
<1>6. /\ shuttingDown <=> current >= 1
      /\ Started("http-server") <=> current >= 2
      /\ Started("queues") <=> current >= 3
  BY <1>2, <1>5 DEF Started, shuttingDown
<1> QED BY <1>1, <1>2, <1>6, StepsShape DEF Proved!ShutdownInv

\* A step of the controller, the end of a process whose main() failed, or a step of
\* anything else, keeps the controller's invariant.
LEMMA ControllerStep ==
  ASSUME Proved!ShutdownInv,
         \/ Controller!Request
         \/ \E ok \in BOOLEAN : Controller!StepEnds(ok)
         \/ Controller!Deadline
         \/ Controller!ExitTimer \/ Controller!LoopEmpties
         \/ LoopEmptiesAfterFailure
         \/ UNCHANGED shutdownVars
  PROVE  Proved!ShutdownInv'
<1>1. Controller!Request => Proved!Request
  BY DEF Controller!Request, Proved!Request, Controller!Alive, Proved!Alive
<1>2. \A ok \in BOOLEAN : Controller!StepEnds(ok) => Proved!StepEnds(ok)
  BY DEF Controller!StepEnds, Proved!StepEnds, Controller!Alive, Proved!Alive
<1>3. Controller!Deadline => Proved!Deadline
  BY DEF Controller!Deadline, Proved!Deadline, Controller!Alive, Proved!Alive
<1>4. Controller!ExitTimer \/ Controller!LoopEmpties => Proved!ExitTimer \/ Proved!LoopEmpties
  BY DEF Controller!ExitTimer, Proved!ExitTimer, Controller!LoopEmpties, Proved!LoopEmpties,
         Controller!Alive, Proved!Alive
<1>5. UNCHANGED shutdownVars => UNCHANGED Proved!shutdownVars
  BY DEF shutdownVars, Proved!shutdownVars
<1>6. CASE LoopEmptiesAfterFailure
  BY <1>6 DEF LoopEmptiesAfterFailure, Proved!ShutdownInv, Proved!TypeOK, Proved!StepsOnceInOrder
<1>7. CASE ~LoopEmptiesAfterFailure
  <2>1. [Proved!Next]_(Proved!shutdownVars)
    BY <1>1, <1>2, <1>3, <1>4, <1>5, <1>7 DEF Proved!Next
  <2> QED BY <2>1, StepsAssumption, Proved!NextInv
<1> QED BY <1>6, <1>7

\* The client's own steps never start its close.
LEMMA ClientSteps ==
  ASSUME Connection!TypeOK,
         \/ Connection!Connects \/ Connection!Breaks \/ Connection!QuitAnswered
         \/ Connection!RedisFails \/ Connection!RedisReturns
  PROVE  Connection!TypeOK' /\ (quit' # "none" => quit # "none")
<1>1. /\ outages' \in Nat
      /\ status' \in {"connecting", "ready", "end"}
      /\ quit' \in {"none", "queued", "sent", "settled"}
      /\ status' = "end" <=> quit' = "settled"
      /\ quit' = "sent" => status' = "ready"
      /\ quit' # "queued"
      /\ quit' # "none" => quit # "none"
  BY DEF Connection!TypeOK, Connection!Connects, Connection!Breaks, Connection!QuitAnswered,
         Connection!RedisFails, Connection!RedisReturns, Connection!Connected
<1>2. redis' \in BOOLEAN
  <2>1. redis \in BOOLEAN
    BY DEF Connection!TypeOK
  <2>2. redis' = redis \/ redis' = TRUE \/ redis' = FALSE
    BY Zenon DEF Connection!Connects, Connection!Breaks, Connection!QuitAnswered,
           Connection!RedisFails, Connection!RedisReturns
  <2> QED BY <2>1, <2>2, Zenon
<1> QED BY <1>1, <1>2 DEF Connection!TypeOK

\* close() of a client that nobody closed yet.
LEMMA ClientCloses ==
  ASSUME Connection!TypeOK, Connection!Close(FALSE), quit = "none"
  PROVE  Connection!TypeOK'
BY DEF Connection!TypeOK, Connection!Close

\* Steps that leave some of the variables alone keep what is said of them alone.
LEMMA Kept ==
  ASSUME ProcessInv
  PROVE  /\ UNCHANGED clientVars => Connection!TypeOK'
         /\ UNCHANGED <<boot, sock, work, probe, failed, killed>> => OwnTypes'
         /\ UNCHANGED <<probe, timers, running, current>> => TimersInv'
         /\ UNCHANGED <<boot, sock, work, exit, outcome, failed, current>> => PostsInv'
         /\ UNCHANGED <<quit, current>> => ClientInv'
<1>1. UNCHANGED clientVars => Connection!TypeOK'
  BY DEF clientVars, ProcessInv, Connection!TypeOK
<1>2. UNCHANGED <<boot, sock, work, probe, failed, killed>> => OwnTypes'
  BY DEF ProcessInv, OwnTypes
<1>3. UNCHANGED <<probe, timers, running, current>> => TimersInv'
  BY DEF ProcessInv, TimersInv
<1>4. UNCHANGED <<boot, sock, work, exit, outcome, failed, current>> => PostsInv'
  BY DEF ProcessInv, PostsInv, Excused
<1>5. UNCHANGED <<quit, current>> => ClientInv'
  BY DEF ProcessInv, ClientInv
<1> QED BY <1>1, <1>2, <1>3, <1>4, <1>5

-----------------------------------------------------------------------------
(* The steps of the process.                                               *)

\* Before main().
LEMMA InitInv == Init => ProcessInv
<1> SUFFICES ASSUME Init PROVE ProcessInv
  OBVIOUS
<1>1. Proved!ShutdownInv
  <2>1. Proved!Init
    BY DEF Init, Controller!Init, Proved!Init, Controller!StepNames, Proved!StepNames
  <2> QED BY <2>1, StepsAssumption, Proved!InitInv
<1>2. Connection!TypeOK /\ ClientInv
  BY DEF Init, Connection!Init, Connection!TypeOK, ClientInv
<1>3. OwnTypes
  <2>1. killed \in BOOLEAN
    BY Zenon DEF Init
  <2> QED BY <2>1 DEF Init, OwnTypes
<1>4. PostsInv
  BY DEF Init, Controller!Init, PostsInv
<1>5. TimersInv
  <2>1. timers = <<>> /\ current = 0 /\ \A q \in Probes : probe[q] = "none"
    BY DEF Init, Controller!Init
  <2>2. timers \in Seq(Probes \cup {Drain}) /\ IsInjective(timers) /\ \A t : ~In(timers, t)
    BY <2>1 DEF In, IsInjective
  <2> QED BY <2>1, <2>2 DEF TimersInv
<1> QED BY <1>1, <1>2, <1>3, <1>4, <1>5 DEF ProcessInv

\* main() goes on: requests come only after it.
LEMMA BootInv ==
  ASSUME ProcessInv, RedisAwaited \/ AppBuilt \/ Listens \/ ListenFails
  PROVE  ProcessInv'
<1>1. /\ UNCHANGED <<shutdownVars, postVars, probeVars, endVars, clientVars>>
      /\ boot # "up" /\ boot' \in {"connecting", "building", "binding", "up", "failed"}
  BY DEF RedisAwaited, AppBuilt, Listens, ListenFails, Boot
<1>2. UNCHANGED <<running, current, outcome, exit, sock, work, probe, timers, failed, killed, quit>>
  BY <1>1 DEF shutdownVars, postVars, probeVars, endVars, clientVars
<1>3. Proved!ShutdownInv'
  BY <1>1, ControllerStep DEF ProcessInv
<1>4. OwnTypes' /\ PostsInv'
  BY <1>1, <1>2 DEF ProcessInv, OwnTypes, PostsInv, Excused
<1> QED BY <1>1, <1>2, <1>3, <1>4, Kept DEF ProcessInv

\* POST requests come while the server listens; a handler's socket is answered with it.
LEMMA PostInv ==
  ASSUME ProcessInv, NEW p \in Posts, PostArrives(p) \/ AddEnds(p) \/ SocketTimesOut(p)
  PROVE  ProcessInv'
<1>1. UNCHANGED <<shutdownVars, boot, probeVars, endVars, clientVars>>
  BY DEF PostArrives, AddEnds, SocketTimesOut
<1>2. UNCHANGED <<running, current, outcome, exit, boot, probe, timers, failed, killed, quit>>
  BY <1>1 DEF shutdownVars, probeVars, endVars, clientVars
<1>3. Proved!ShutdownInv'
  BY <1>1, ControllerStep DEF ProcessInv
<1>t. OwnTypes /\ current \in Nat
  BY ControllerFacts DEF ProcessInv
<1>4. /\ sock' \in [Posts -> {"none", "open", "answered", "timed out", "cut"}]
      /\ work' \in [Posts -> {"none", "adding", "queued", "failed"}]
  BY <1>t DEF PostArrives, AddEnds, SocketTimesOut, OwnTypes
<1>5. OwnTypes'
  BY <1>2, <1>4, <1>t DEF OwnTypes
<1>6. PostsInv'
  <2>1. boot # "up" => \A r \in Posts : sock'[r] = "none"
    BY <1>t DEF PostArrives, AddEnds, SocketTimesOut, Listening, OwnTypes, ProcessInv, PostsInv
  <2>2. \A r \in Posts : work'[r] = "adding" => sock'[r] \in {"open", "timed out", "cut"}
    BY <1>t DEF PostArrives, AddEnds, SocketTimesOut, OwnTypes, ProcessInv, PostsInv
  <2>3. \A r \in Posts : sock'[r] = "cut" => sock[r] = "cut"
    BY <1>t DEF PostArrives, AddEnds, SocketTimesOut, OwnTypes
  <2>4. \A r \in Posts : sock'[r] = "open" => sock[r] = "open" \/ ~(current >= 3)
    <3>1. PostArrives(p) => ~(current >= 2)
      BY ControllerFacts DEF PostArrives, Listening, ProcessInv
    <3>2. ASSUME NEW r \in Posts, sock'[r] = "open", sock[r] # "open" PROVE PostArrives(p)
      BY <3>2, <1>t DEF AddEnds, SocketTimesOut, OwnTypes
    <3>3. ~(current >= 2) => ~(current >= 3)
      BY <1>t
    <3> QED BY <3>1, <3>2, <3>3
  <2> QED BY <2>1, <2>2, <2>3, <2>4, <1>2 DEF ProcessInv, PostsInv, Excused
<1> QED BY <1>1, <1>2, <1>3, <1>5, <1>6, Kept DEF ProcessInv

\* A probe's timer is armed before the pause's, or the probe is refused.
LEMMA ProbeArrivesInv ==
  ASSUME ProcessInv, NEW q \in Probes, ProbeArrives(q)
  PROVE  ProcessInv'
<1>1. UNCHANGED <<shutdownVars, boot, postVars, endVars, clientVars>>
  BY DEF ProbeArrives
<1>2. UNCHANGED <<running, current, outcome, exit, boot, sock, work, failed, killed, quit>>
  BY <1>1 DEF shutdownVars, postVars, endVars, clientVars
<1>3. Proved!ShutdownInv'
  BY <1>1, ControllerStep DEF ProcessInv
<1>t. OwnTypes /\ current \in 0..5 /\ probe[q] = "none"
  BY ControllerFacts DEF ProcessInv, ProbeArrives
<1>i. TimersInv
  BY DEF ProcessInv
<1>4. probe' = [probe EXCEPT ![q] = IF shuttingDown \/ ~Writable THEN "503" ELSE "pinging"]
  BY DEF ProbeArrives
<1>5. OwnTypes'
  BY <1>2, <1>4, <1>t DEF OwnTypes
<1>6. TimersInv'
  <2>1. CASE shuttingDown \/ ~Writable
    <3>1. timers' = timers /\ probe' = [probe EXCEPT ![q] = "503"]
      BY <2>1, <1>4 DEF ProbeArrives
    <3>2. \A r \in Probes : probe'[r] \in {"none", "pinging"} => probe'[r] = probe[r]
      BY <3>1, <1>t DEF OwnTypes
    <3> QED BY <3>1, <3>2, <1>2, <1>i DEF TimersInv
  <2>2. CASE ~(shuttingDown \/ ~Writable)
    <3>1. timers' = Append(timers, q) /\ probe' = [probe EXCEPT ![q] = "pinging"] /\ current = 0
      BY <2>2, <1>4, <1>t, ControllerFacts DEF ProbeArrives, ProcessInv
    <3>2. ~In(timers, q) /\ q # Drain
      BY <1>t, <1>i, ApiProcessAssumption DEF TimersInv
    <3>3. /\ timers' \in Seq(Probes \cup {Drain})
          /\ IsInjective(timers')
          /\ \A t : In(timers', t) <=> In(timers, t) \/ t = q
      BY <3>1, <3>2, <1>i, Appended DEF TimersInv
    <3>4. /\ \A r \in Probes : probe'[r] = "pinging" => probe[r] = "pinging" \/ r = q
          /\ \A r \in Probes : probe'[r] = "none" => probe[r] = "none" /\ r # q
      BY <3>1, <1>t DEF OwnTypes
    <3>5. ~running => ~In(timers', Drain)
      BY <3>2, <3>3, <1>i DEF TimersInv
    <3> QED BY <3>1, <3>3, <3>4, <3>5, <1>2, <1>i DEF TimersInv
  <2> QED BY <2>1, <2>2
<1> QED BY <1>1, <1>2, <1>3, <1>5, <1>6, Kept DEF ProcessInv

\* A probe that has been answered gives its timer back.
LEMMA ProbeEndsInv ==
  ASSUME ProcessInv, NEW q \in Probes, PingAnswered(q) \/ PingFails(q)
  PROVE  ProcessInv'
<1>0. PICK code \in {"200", "503"} : Replied(q, code)
  BY DEF PingAnswered, PingFails
<1>1. UNCHANGED <<shutdownVars, boot, postVars, endVars, clientVars>>
  BY <1>0 DEF Replied
<1>2. UNCHANGED <<running, current, outcome, exit, boot, sock, work, failed, killed, quit>>
  BY <1>1 DEF shutdownVars, postVars, endVars, clientVars
<1>3. Proved!ShutdownInv'
  BY <1>1, ControllerStep DEF ProcessInv
<1>4. probe' = [probe EXCEPT ![q] = code] /\ timers' = RemoveFirst(timers, q)
  BY <1>0 DEF Replied
<1>t. OwnTypes
  BY DEF ProcessInv
<1>i. TimersInv
  BY DEF ProcessInv
<1>5. OwnTypes'
  BY <1>2, <1>4, <1>t DEF OwnTypes
<1>6. TimersInv'
  <2>1. /\ timers' \in Seq(Probes \cup {Drain})
        /\ IsInjective(timers')
        /\ \A t : In(timers', t) => In(timers, t) /\ t # q
        /\ \A t : In(timers, t) /\ t # q => In(timers', t)
        /\ \A t, u : Before(timers, t, u) /\ t # q /\ u # q => Before(timers', t, u)
    BY <1>4, <1>i, Removed DEF TimersInv
  <2>2. \A r \in Probes : probe'[r] \in {"none", "pinging"} => probe'[r] = probe[r] /\ r # q
    BY <1>4, <1>t DEF OwnTypes
  <2>3. q # Drain
    BY ApiProcessAssumption
  <2> QED BY <2>1, <2>2, <2>3, <1>2, <1>i DEF TimersInv
<1> QED BY <1>1, <1>2, <1>3, <1>5, <1>6, Kept DEF ProcessInv

\* A signal: the first one arms the pause's timer behind those of the pings.
LEMMA RequestShutdownInv ==
  ASSUME ProcessInv, RequestShutdown
  PROVE  ProcessInv'
<1>1. UNCHANGED <<boot, postVars, probe, endVars, clientVars>>
  BY DEF RequestShutdown
<1>2. UNCHANGED <<outcome, exit, boot, sock, work, probe, failed, killed, quit>>
  BY <1>1 DEF RequestShutdown, Controller!Request, postVars, endVars, clientVars
<1>3. Proved!ShutdownInv'
  BY ControllerStep DEF ProcessInv, RequestShutdown
<1>c. current \in 0..5 /\ (running <=> current > 0)
  BY ControllerFacts DEF ProcessInv
<1>i. TimersInv
  BY DEF ProcessInv
<1>4. CASE running
  <2>1. timers' = timers /\ current' = current /\ running'
    BY <1>4 DEF RequestShutdown, Controller!Request
  <2>2. TimersInv'
    BY <2>1, <1>2, <1>i, <1>4 DEF TimersInv
  <2> QED BY <2>1, <2>2, <1>1, <1>2, <1>3, Kept DEF ProcessInv
<1>5. CASE ~running
  <2>1. timers' = Append(timers, Drain) /\ current' = 1 /\ running' /\ current = 0
    BY <1>5, <1>c DEF RequestShutdown, Controller!Request
  <2>2. ~In(timers, Drain)
    BY <1>5, <1>i DEF TimersInv
  <2>3. /\ timers' \in Seq(Probes \cup {Drain})
        /\ IsInjective(timers')
        /\ \A t : In(timers', t) <=> In(timers, t) \/ t = Drain
        /\ \A t : In(timers, t) => Before(timers', t, Drain)
    BY <2>1, <2>2, <1>i, Appended DEF TimersInv
  <2>4. \A q \in Probes : q # Drain
    BY ApiProcessAssumption
  <2>5. TimersInv'
    BY <2>1, <2>3, <2>4, <1>2, <1>i DEF TimersInv
  <2>6. PostsInv'
    <3>1. UNCHANGED <<boot, sock, work, exit, outcome, failed>>
      BY <1>1, <1>2 DEF postVars
    <3>2. ~(current' >= 3)
      BY <2>1
    <3>3. PostsInv
      BY DEF ProcessInv
    <3>4. \A p \in Posts : sock'[p] = "cut" => exit' # "none" /\ Excused'
      BY <3>1, <3>3 DEF PostsInv, Excused
    <3> QED BY <3>1, <3>2, <3>3, <3>4 DEF PostsInv
  <2>7. ClientInv'
    BY <2>1, <1>2 DEF ProcessInv, ClientInv
  <2> QED BY <2>5, <2>6, <2>7, <1>1, <1>2, <1>3, Kept DEF ProcessInv
<1> QED BY <1>4, <1>5

\* A signal before its handler is installed finds no request.
LEMMA KilledBySignalInv ==
  ASSUME ProcessInv, KilledBySignal
  PROVE  ProcessInv'
<1>1. UNCHANGED <<shutdownVars, boot, work, timers, failed, clientVars>> /\ killed' = TRUE /\ CutAll
  BY DEF KilledBySignal
<1>2. UNCHANGED <<running, current, outcome, exit, quit>>
  BY <1>1 DEF shutdownVars, clientVars
<1>3. Proved!ShutdownInv'
  BY <1>1, ControllerStep DEF ProcessInv
<1>4. \A p \in Posts : sock[p] = "none"
  BY DEF KilledBySignal, Handled, ProcessInv, PostsInv
<1>5. killed' \in BOOLEAN
  BY <1>1, Zenon
<1>6. \A p \in Posts : sock'[p] = "none"
  BY <1>1, <1>4 DEF CutAll
<1>7. OwnTypes'
  BY <1>1, <1>5 DEF ProcessInv, OwnTypes, CutAll
<1>8. PostsInv'
  BY <1>1, <1>2, <1>4, <1>6 DEF ProcessInv, PostsInv, Excused
<1>9. TimersInv'
  <2>1. \A q \in Probes : probe'[q] # "pinging" /\ (probe'[q] = "none" => probe[q] = "none")
    BY <1>1 DEF CutAll
  <2> QED BY <2>1, <1>1, <1>2 DEF ProcessInv, TimersInv
<1> QED BY <1>1, <1>2, <1>3, <1>7, <1>8, <1>9, Kept DEF ProcessInv

\* What a step's end does to the controller and the client, whichever step.
LEMMA StepEndsFacts ==
  ASSUME ProcessInv, NEW ok \in BOOLEAN, Controller!StepEnds(ok), CloseBegins
  PROVE  /\ Proved!ShutdownInv' /\ Connection!TypeOK' /\ ClientInv'
         /\ running /\ running' = running
         /\ current \in 1..4 /\ current' = current + 1
         /\ exit = "none"
<1>1. Proved!ShutdownInv'
  BY ControllerStep DEF ProcessInv
<1>2. /\ current \in 1..4 /\ current' = current + 1
      /\ running' = running
      /\ exit = "none"
  BY StepsShape DEF Controller!StepEnds, Controller!Alive
<1>3. running
  BY <1>2, ControllerFacts DEF ProcessInv
<1>4. current < Len(steps) /\ steps[current + 1] = "redis" <=> current = 3
  <2>1. CASE current = 1
    BY <2>1, StepsShape
  <2>2. CASE current = 2
    BY <2>2, StepsShape
  <2>3. CASE current = 3
    BY <2>3, StepsShape
  <2>4. CASE current = 4
    BY <2>4, StepsShape
  <2> QED BY <1>2, <2>1, <2>2, <2>3, <2>4
<1>5. CASE current = 3
  <2>1. quit = "none"
    BY <1>5 DEF ProcessInv, ClientInv
  <2>2. Connection!TypeOK'
    BY <2>1, <1>4, <1>5, ClientCloses DEF CloseBegins, ProcessInv
  <2>3. ClientInv'
    BY <1>2, <1>5 DEF ClientInv
  <2> QED BY <2>2, <2>3, <1>1, <1>2, <1>3
<1>6. CASE current # 3
  <2>1. UNCHANGED clientVars
    BY <1>4, <1>6 DEF CloseBegins
  <2>2. ClientInv'
    BY <2>1, <1>2 DEF ProcessInv, ClientInv, clientVars
  <2> QED BY <2>1, <2>2, <1>1, <1>2, <1>3, Kept
<1> QED BY <1>5, <1>6

\* The pause ends with its timer, which is then the oldest: no ping was armed before it.
LEMMA PauseEnds ==
  ASSUME TimersInv, current = 1, timers # <<>>, Head(timers) = Drain
  PROVE  \A q \in Probes : probe[q] # "pinging"
<1> SUFFICES ASSUME NEW q \in Probes, probe[q] = "pinging" PROVE FALSE
  OBVIOUS
<1>1. PICK k \in 1..Len(timers), l \in 1..Len(timers) :
        k < l /\ timers[k] = q /\ timers[l] = Drain
  BY DEF TimersInv, Before
<1>2. timers \in Seq(Probes \cup {Drain}) /\ IsInjective(timers)
  BY DEF TimersInv
<1>3. 1 \in 1..Len(timers) /\ timers[1] = Drain /\ DOMAIN timers = 1..Len(timers)
  BY <1>1, <1>2
<1>4. l = 1
  BY <1>1, <1>2, <1>3 DEF IsInjective
<1> QED BY <1>1, <1>4

\* A step ends: the pause when the pings are settled, the server's close() when the
\* requests are.
LEMMA StepEndsInv ==
  ASSUME ProcessInv, StepResolves \/ StepRejects
  PROVE  ProcessInv'
<1>1. UNCHANGED <<boot, postVars, probe, killed>>
  BY DEF StepResolves, StepRejects, probeVars, endVars
<1>2. UNCHANGED <<boot, sock, work, probe, killed>>
  BY <1>1 DEF postVars
<1>f. /\ Proved!ShutdownInv' /\ Connection!TypeOK' /\ ClientInv'
      /\ running /\ running' = running
      /\ current \in 1..4 /\ current' = current + 1
      /\ exit = "none"
  BY StepEndsFacts DEF StepResolves, StepRejects
<1>g. failed \subseteq failed' /\ failed' \subseteq failed \cup {steps[current]}
  BY DEF StepResolves, StepRejects, endVars
<1>3. OwnTypes'
  <2>1. failed' \subseteq {steps[k] : k \in 1..Len(steps)}
    BY <1>f, <1>g, StepsShape DEF ProcessInv, OwnTypes
  <2> QED BY <2>1, <1>2 DEF ProcessInv, OwnTypes
<1>i. TimersInv
  BY DEF ProcessInv
<1>4. TimersInv'
  <2>1. CASE current = 1
    <3>1. StepResolves
      BY <2>1, StepsShape DEF StepRejects
    <3>2. /\ timers # <<>> /\ Head(timers) = Drain
          /\ timers' = RemoveFirst(timers, Drain)
      BY <2>1, <3>1, StepsShape DEF StepResolves, StepDone
    <3>3. \A q \in Probes : probe[q] # "pinging"
      BY <2>1, <3>2, <1>i, PauseEnds
    <3>4. /\ timers' \in Seq(Probes \cup {Drain})
          /\ IsInjective(timers')
          /\ \A t : In(timers', t) => In(timers, t)
      BY <3>2, <1>i, Removed DEF TimersInv
    <3> QED BY <3>3, <3>4, <2>1, <1>2, <1>f, <1>i DEF TimersInv
  <2>2. CASE current # 1
    <3>1. steps[current] # "drain-readiness"
      <4>1. CASE current = 2
        BY <4>1, StepsShape
      <4>2. CASE current = 3
        BY <4>2, StepsShape
      <4>3. CASE current = 4
        BY <4>3, StepsShape
      <4> QED BY <4>1, <4>2, <4>3, <2>2, <1>f
    <3>2. timers' = timers
      BY <3>1 DEF StepResolves, StepRejects, probeVars
    <3>3. current >= 2 /\ current' # 1
      BY <2>2, <1>f
    <3> QED BY <3>2, <3>3, <1>2, <1>f, <1>i DEF TimersInv
  <2> QED BY <2>1, <2>2
<1>5. PostsInv'
  <2>1. PostsInv
    BY DEF ProcessInv
  <2>2. \A p \in Posts : sock[p] # "cut"
    BY <2>1, <1>f DEF PostsInv
  <2>3. ASSUME current' >= 3, "http-server" \notin failed'
        PROVE  \A p \in Posts : sock[p] # "open"
    <3>1. CASE current = 2
      <4>1. steps[current] = "http-server"
        BY <3>1, StepsShape
      <4>2. StepResolves
        BY <4>1, <2>3 DEF StepRejects
      <4> QED BY <4>1, <4>2 DEF StepResolves, StepDone
    <3>2. CASE current # 2
      <4>1. current >= 3 /\ "http-server" \notin failed
        BY <3>2, <2>3, <1>f, <1>g
      <4> QED BY <4>1, <2>1 DEF PostsInv
    <3> QED BY <3>1, <3>2
  <2> QED BY <2>1, <2>2, <2>3, <1>2 DEF PostsInv
<1> QED BY <1>3, <1>4, <1>5, <1>f DEF ProcessInv

\* The deadline.
LEMMA DeadlineInv ==
  ASSUME ProcessInv, DeadlinePasses
  PROVE  ProcessInv'
<1>1. UNCHANGED <<boot, postVars, probeVars, endVars, clientVars>> /\ Controller!Deadline
  BY DEF DeadlinePasses
<1>2. UNCHANGED <<running, current, exit, boot, sock, work, probe, timers, failed, killed, quit>>
  BY <1>1 DEF Controller!Deadline, postVars, probeVars, endVars, clientVars
<1>3. outcome' = "timeout"
  BY <1>1 DEF Controller!Deadline
<1>4. Proved!ShutdownInv'
  BY <1>1, ControllerStep DEF ProcessInv
<1>5. PostsInv'
  BY <1>2, <1>3 DEF ProcessInv, PostsInv, Excused
<1> QED BY <1>1, <1>2, <1>4, <1>5, Kept DEF ProcessInv

\* The end: what is cut off outlasted the deadline or the server's close().
LEMMA ExitInv ==
  ASSUME ProcessInv, Exit
  PROVE  ProcessInv'
<1>1. /\ UNCHANGED <<boot, work, timers, endVars, clientVars>> /\ CutAll
      /\ Controller!ExitTimer \/ Controller!LoopEmpties \/ LoopEmptiesAfterFailure
  BY DEF Exit
<1>2. UNCHANGED <<running, current, outcome, boot, work, timers, failed, killed, quit>>
  BY <1>1 DEF Controller!ExitTimer, Controller!LoopEmpties, LoopEmptiesAfterFailure, endVars, clientVars
<1>3. outcome # "none" /\ exit' # "none"
  BY <1>1 DEF Controller!ExitTimer, Controller!LoopEmpties, LoopEmptiesAfterFailure
<1>4. Proved!ShutdownInv'
  BY <1>1, ControllerStep DEF ProcessInv
<1>t. OwnTypes
  BY DEF ProcessInv
<1>5. OwnTypes'
  BY <1>1, <1>2, <1>t DEF OwnTypes, CutAll
<1>6. PostsInv'
  <2>1. PostsInv
    BY DEF ProcessInv
  <2>2. sock' = [p \in Posts |-> IF sock[p] = "open" THEN "cut" ELSE sock[p]]
    BY <1>1 DEF CutAll
  <2>3. ASSUME NEW p \in Posts, sock[p] = "open" PROVE Excused
    <3>1. CASE outcome = "complete"
      <4>1. current >= 3
        BY <3>1, ControllerFacts DEF ProcessInv
      <4> QED BY <4>1, <2>1, <2>3 DEF PostsInv, Excused
    <3>2. CASE outcome = "timeout"
      BY <3>2 DEF Excused
    <3> QED BY <3>1, <3>2, <1>3, ControllerFacts DEF ProcessInv
  <2>4. \A p \in Posts : sock'[p] = "cut" => exit' # "none" /\ Excused'
    BY <2>1, <2>2, <2>3, <1>2, <1>3 DEF PostsInv, Excused
  <2>5. boot' # "up" => \A p \in Posts : sock'[p] = "none"
    BY <2>1, <2>2, <1>2 DEF PostsInv
  <2>6. \A p \in Posts : work'[p] = "adding" => sock'[p] \in {"open", "timed out", "cut"}
    BY <2>1, <2>2, <1>2 DEF PostsInv
  <2>7. current' >= 3 /\ "http-server" \notin failed' =>
          \A p \in Posts : sock'[p] \notin {"open", "cut"}
    BY <2>1, <2>2, <1>2 DEF PostsInv
  <2> QED BY <2>4, <2>5, <2>6, <2>7 DEF PostsInv
<1>7. TimersInv'
  <2>1. \A q \in Probes : probe'[q] # "pinging" /\ (probe'[q] = "none" => probe[q] = "none")
    BY <1>1 DEF CutAll
  <2> QED BY <2>1, <1>2 DEF ProcessInv, TimersInv
<1> QED BY <1>1, <1>2, <1>4, <1>5, <1>6, <1>7, Kept DEF ProcessInv

\* The client and Redis: QUIT is sent by close() alone.
LEMMA ClientInvariant ==
  ASSUME ProcessInv, ClientNext \/ RedisNext
  PROVE  ProcessInv'
<1>1. UNCHANGED <<shutdownVars, boot, postVars, probeVars, endVars>>
  BY DEF ClientNext, RedisNext
<1>2. UNCHANGED <<running, current, outcome, exit, boot, sock, work, probe, timers, failed, killed>>
  BY <1>1 DEF shutdownVars, postVars, probeVars, endVars
<1>3. Proved!ShutdownInv'
  BY <1>1, ControllerStep DEF ProcessInv
<1>4. Connection!TypeOK' /\ (quit' # "none" => quit # "none")
  BY ClientSteps DEF ProcessInv, ClientNext, RedisNext
<1>5. ClientInv'
  BY <1>2, <1>4 DEF ProcessInv, ClientInv
<1> QED BY <1>2, <1>3, <1>4, <1>5, Kept DEF ProcessInv

\* Every step of the process.
LEMMA NextInv == ProcessInv /\ [Next]_vars => ProcessInv'
<1> SUFFICES ASSUME ProcessInv, [Next]_vars PROVE ProcessInv'
  OBVIOUS
<1>1. CASE UNCHANGED vars
  <2>1. UNCHANGED <<shutdownVars, clientVars>>
    BY <1>1 DEF vars
  <2>2. UNCHANGED <<running, current, outcome, exit, boot, sock, work, probe, timers, failed,
                    killed, quit>>
    BY <1>1 DEF vars, shutdownVars, postVars, probeVars, endVars, clientVars
  <2>3. Proved!ShutdownInv'
    BY <2>1, ControllerStep DEF ProcessInv
  <2> QED BY <2>1, <2>2, <2>3, Kept DEF ProcessInv
<1>2. CASE RedisAwaited \/ AppBuilt \/ Listens \/ ListenFails
  BY <1>2, BootInv
<1>3. ASSUME NEW p \in Posts, PostArrives(p) \/ AddEnds(p) \/ SocketTimesOut(p)
      PROVE  ProcessInv'
  BY <1>3, PostInv
<1>4. ASSUME NEW q \in Probes, ProbeArrives(q) \/ PingAnswered(q) \/ PingFails(q)
      PROVE  ProcessInv'
  BY <1>4, ProbeArrivesInv, ProbeEndsInv
<1>5. CASE RequestShutdown \/ KilledBySignal
  BY <1>5, RequestShutdownInv, KilledBySignalInv
<1>6. CASE StepResolves \/ StepRejects
  BY <1>6, StepEndsInv
<1>7. CASE DeadlinePasses \/ Exit
  BY <1>7, DeadlineInv, ExitInv
<1>8. CASE ClientNext \/ RedisNext
  BY <1>8, ClientInvariant
<1> QED BY <1>1, <1>2, <1>3, <1>4, <1>5, <1>6, <1>7, <1>8 DEF Next

-----------------------------------------------------------------------------
(* The theorems.                                                           *)

\* The invariant of every run of the process.
THEOREM ProcessInvariant == Spec => []ProcessInv
<1> QED BY InitInv, NextInv, PTL DEF Spec

\* Type correctness.
THEOREM TypeCorrect == Spec => []TypeOK
<1>1. ProcessInv => TypeOK
  <2> SUFFICES ASSUME ProcessInv PROVE TypeOK
    OBVIOUS
  <2>1. \A k \in 1..Len(timers) : timers[k] \in Probes \cup {Drain}
    BY DEF ProcessInv, TimersInv
  <2> QED BY <2>1, ControllerFacts DEF ProcessInv, OwnTypes, TimersInv, TypeOK
<1> QED BY <1>1, ProcessInvariant, PTL

\* Every probe is answered before the server closes: the pause's timer is armed after
\* those of the pings under way.
THEOREM ProbesFirst == Spec => []ProbesSettleBeforeClose
<1>1. ProcessInv => ProbesSettleBeforeClose
  BY ControllerFacts DEF ProcessInv, TimersInv, ProbesSettleBeforeClose
<1> QED BY <1>1, ProcessInvariant, PTL

\* The queues close when the handlers of accepted requests are done, but for one whose
\* socket timed out.
THEOREM HandlersFirst == Spec => []AcceptedFinishes
<1>1. ProcessInv => AcceptedFinishes
  <2> SUFFICES ASSUME ProcessInv, "http-server" \notin failed, Started("queues"),
                      NEW p \in Posts, work[p] = "adding"
               PROVE  sock[p] = "timed out"
    BY DEF AcceptedFinishes
  <2>1. current >= 3
    BY ControllerFacts DEF ProcessInv
  <2> QED BY <2>1 DEF ProcessInv, PostsInv
<1> QED BY <1>1, ProcessInvariant, PTL

\* No request is cut off before the deadline or a failed close(), whenever signals come.
THEOREM CutsExcused == Spec => []OnlyDeadlineCuts
<1>1. ProcessInv => OnlyDeadlineCuts
  BY DEF ProcessInv, PostsInv, Excused, OnlyDeadlineCuts
<1> QED BY <1>1, ProcessInvariant, PTL

=============================================================================
