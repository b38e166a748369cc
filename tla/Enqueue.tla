------------------------------ MODULE Enqueue -------------------------------
(***************************************************************************)
(* The producer side: requests that ask the enqueuer (queue/enqueue.ts,    *)
(* through the POST routes of api/routes/jobs.routes.ts) for a job, over   *)
(* one Redis client that may start without Redis, drops and reconnects.    *)
(* BullMQ's deduplication, and Redis refusing writes when its memory is    *)
(* full, are external.                                                     *)
(***************************************************************************)
EXTENDS Naturals, FiniteSets

CONSTANTS
  Requests,  \* calls of enqueue()
  Keys,      \* idempotency keys
  NoKey,     \* the key of a request without one
  Key,       \* per request: its idempotency key or NoKey
  Defects,   \* per request: what is wrong with it
  NoJob,     \* no job's id
  MaxDrops,  \* bound: connections lost
  MaxExpiries \* bound: keys that outlive idempotencyTtlMs, per key

\* In the order in which they are found out: by Fastify, enqueue() and BullMQ.
DefectKinds == {"content type", "body size", "body syntax", "body schema",
                "unknown name", "payload", "delay", "oversize"}

ASSUME EnqueueAssumption ==
  /\ IsFiniteSet(Requests)
  /\ NoKey \notin Keys
  /\ Key \in [Requests -> Keys \cup {NoKey}]
  /\ Defects \in [Requests -> SUBSET DefectKinds]
  /\ NoJob \notin Requests \X Nat
  /\ {MaxDrops, MaxExpiries} \subseteq Nat

VARIABLES
  \* Redis (external)
  jobs,     \* the ids of the jobs added: <<request, how manieth job of it>>
  dedup,    \* per key: the job it stands for while it is live, or NoJob
  \* the client
  link,     \* whether the connection is up
  \* the calls of enqueue()
  phase,    \* "none", "adding" (sent, or to be sent again), "landed", "done"
  answer,   \* the id Redis answered with, NoJob before it did
  status,   \* of the HTTP reply, 0 before it
  lost,     \* history: the replies of Redis that were lost with their connection
  \* bounds
  drops, expiries

redisVars == <<jobs, dedup>>
vars == <<redisVars, link, phase, answer, status, lost, drops, expiries>>

Init ==
  /\ jobs = {}
  /\ dedup = [k \in Keys |-> NoJob]
  /\ link \in BOOLEAN   \* the API also starts while Redis is down
  /\ phase = [r \in Requests |-> "none"]
  /\ answer = [r \in Requests |-> NoJob]
  /\ status = [r \in Requests |-> 0]
  /\ lost = [r \in Requests |-> 0]
  /\ drops = 0
  /\ expiries = [k \in Keys |-> 0]

JobsOf(r) == {j \in jobs : j[1] = r}

-----------------------------------------------------------------------------
(* The error a request meets, and the reply made of it.                    *)

has(r, defect) == defect \in Defects[r]

\* The first thing wrong with r that is found before Redis is asked: its headers
\* and body, by Fastify; its name, payload or delay, by enqueue().
validationError(r) ==
  IF has(r, "content type") THEN "FST_ERR_CTP_INVALID_MEDIA_TYPE"
  ELSE IF has(r, "body size") THEN "FST_ERR_CTP_BODY_TOO_LARGE"
  ELSE IF has(r, "body syntax") THEN "FST_ERR_CTP_INVALID_JSON_BODY"
  ELSE IF has(r, "body schema") THEN "FastifyValidationError"
  ELSE IF has(r, "unknown name") THEN "UnknownJobError"
  ELSE IF has(r, "payload") THEN "PayloadValidationError"
  ELSE IF has(r, "delay") THEN "NonRetryableError" ELSE "none"

\* Fault: whether the client is connected is asked first.
errorOf_LinkFirst(r) ==
  IF ~link \/ Defects[r] = {"oversize"} THEN "Error" ELSE validationError(r)

\* What validation finds, or the error of queue.add when it sends nothing: a job over
\* BullMQ's sizeLimit, or a client that is not connected and has no offline queue.
errorOf(r) ==
  IF validationError(r) # "none" THEN validationError(r)
  ELSE IF has(r, "oversize") \/ ~link THEN "Error" ELSE "none"

\* The errors that carry a status of their own: HttpError, which only the reading
\* route throws, and Fastify's.
readStatusCode ==
  [HttpError                      |-> 404,
   FST_ERR_CTP_BODY_TOO_LARGE     |-> 413,
   FST_ERR_CTP_INVALID_MEDIA_TYPE |-> 415,
   FST_ERR_CTP_INVALID_JSON_BODY  |-> 400]

\* buildErrorResponse: the status of the reply.
statusCode(error) ==
  CASE error = "none"                  -> 202
    [] error = "Error"                 -> 500
    [] error \in DOMAIN readStatusCode -> readStatusCode[error]
    [] OTHER                           -> 400

statusOf(r) == statusCode(errorOf(r))

-----------------------------------------------------------------------------
(* enqueue(), up to queue.add                                              *)

\* Fault: a key is not passed on.
dedupKey_Dropped(r) == NoKey

\* The deduplication id of the job options.
dedupKey(r) == Key[r]

\* Fault: the add is raced with a time limit, and 500 answered at it.
Refuse_AtTimeLimit(r) ==
  /\ \/ phase[r] = "none" /\ statusOf(r) # 202
     \/ phase[r] \in {"adding", "landed"}
  /\ phase' = [phase EXCEPT ![r] = "done"]
  /\ status' = [status EXCEPT ![r] = IF phase[r] = "none" THEN statusOf(r) ELSE 500]
  /\ UNCHANGED <<redisVars, link, answer, lost, drops, expiries>>

Refuse(r) ==
  /\ phase[r] = "none"
  /\ statusOf(r) # 202
  /\ phase' = [phase EXCEPT ![r] = "done"]
  /\ status' = [status EXCEPT ![r] = statusOf(r)]
  /\ UNCHANGED <<redisVars, link, answer, lost, drops, expiries>>

\* A client that has not been connected yet may also let the add wait.
Send(r) ==
  /\ phase[r] = "none"
  /\ Defects[r] = {}
  /\ link \/ drops = 0
  /\ phase' = [phase EXCEPT ![r] = "adding"]
  /\ UNCHANGED <<redisVars, link, answer, status, lost, drops, expiries>>

-----------------------------------------------------------------------------
(* queue.add                                                               *)

\* External: Redis adds the job, or finds the live key's.
AddLands(r) ==
  LET k     == dedupKey(r)
      fresh == <<r, Cardinality(JobsOf(r)) + 1>>
      found == k # NoKey /\ dedup[k] # NoJob
  IN  /\ phase[r] = "adding"
      /\ link
      /\ answer' = [answer EXCEPT ![r] = IF found THEN dedup[k] ELSE fresh]
      /\ jobs' = IF found THEN jobs ELSE jobs \cup {fresh}
      /\ dedup' = IF found \/ k = NoKey THEN dedup ELSE [dedup EXCEPT ![k] = fresh]
      /\ phase' = [phase EXCEPT ![r] = "landed"]
      /\ UNCHANGED <<link, status, lost, drops, expiries>>

\* External: Redis, although connected, refuses the add because its memory is full
\* (noeviction).  An earlier sending of it may have landed.
AddFails(r) ==
  /\ phase[r] = "adding"
  /\ link
  /\ phase' = [phase EXCEPT ![r] = "done"]
  /\ status' = [status EXCEPT ![r] = statusCode("Error")]
  /\ UNCHANGED <<redisVars, link, answer, lost, drops, expiries>>

\* Faults: the add is not awaited, and the id is the caller's own; the add is made
\* again after its reply.
Accepted_NotAwaited(r) ==
  /\ phase[r] \in {"adding", "landed"}
  /\ phase' = [phase EXCEPT ![r] = "done"]
  /\ answer' = [answer EXCEPT ![r] = <<r, 1>>]
  /\ status' = [status EXCEPT ![r] = 202]
  /\ UNCHANGED <<redisVars, link, lost, drops, expiries>>

Accepted_AddedAgain(r) ==
  /\ phase[r] = "landed"
  /\ link
  /\ LET again == Cardinality(JobsOf(r)) < 2
     IN  /\ phase' = [phase EXCEPT ![r] = IF again THEN "adding" ELSE "done"]
         /\ status' = [status EXCEPT ![r] = IF again THEN 0 ELSE 202]
  /\ UNCHANGED <<redisVars, link, answer, lost, drops, expiries>>

\* The reply arrives: 202 with the job's id.
Accepted(r) ==
  /\ phase[r] = "landed"
  /\ link
  /\ phase' = [phase EXCEPT ![r] = "done"]
  /\ status' = [status EXCEPT ![r] = 202]
  /\ UNCHANGED <<redisVars, link, answer, lost, drops, expiries>>

\* External: the connection drops.  The client keeps what it has no reply to and
\* sends it again once connected (maxRetriesPerRequest null), landed or not.
LinkDrops ==
  /\ link
  /\ drops < MaxDrops
  /\ drops' = drops + 1
  /\ link' = FALSE
  /\ phase' = [r \in Requests |-> IF phase[r] = "landed" THEN "adding" ELSE phase[r]]
  /\ answer' = [r \in Requests |-> IF phase[r] = "landed" THEN NoJob ELSE answer[r]]
  /\ lost' = [r \in Requests |-> IF phase[r] = "landed" THEN lost[r] + 1 ELSE lost[r]]
  /\ UNCHANGED <<redisVars, status, expiries>>

\* Fault: the retry strategy gives up after the second loss.
LinkReturns_GivesUp ==
  /\ ~link
  /\ drops < 2
  /\ link' = TRUE
  /\ UNCHANGED <<redisVars, phase, answer, status, lost, drops, expiries>>

LinkReturns ==
  /\ ~link
  /\ link' = TRUE
  /\ UNCHANGED <<redisVars, phase, answer, status, lost, drops, expiries>>

\* External: idempotencyTtlMs after it was set the key is gone.
KeyExpires(k) ==
  /\ dedup[k] # NoJob
  /\ expiries[k] < MaxExpiries
  /\ expiries' = [expiries EXCEPT ![k] = @ + 1]
  /\ dedup' = [dedup EXCEPT ![k] = NoJob]
  /\ UNCHANGED <<jobs, link, phase, answer, status, lost, drops>>

-----------------------------------------------------------------------------
RequestNext(r) == Refuse(r) \/ Send(r) \/ AddLands(r) \/ AddFails(r) \/ Accepted(r)

Next ==
  \/ \E r \in Requests : RequestNext(r)
  \/ LinkDrops
  \/ LinkReturns
  \/ \E k \in Keys : KeyExpires(k)

Spec == Init /\ [][Next]_vars

\* Commands are answered while the connection is up, and the client reconnects.
FairSpec ==
  /\ Spec
  /\ \A r \in Requests : WF_vars(AddLands(r) \/ AddFails(r) \/ Accepted(r))
  /\ WF_vars(LinkReturns)

-----------------------------------------------------------------------------
(* Properties.                                                             *)

Refusals == {400, 413, 415, 500}

\* Every variable holds a value of its type: type correctness of the model of the
\* producer.
TypeOK ==
  /\ jobs \subseteq Requests \X Nat
  /\ dedup \in [Keys -> jobs \cup {NoJob}]
  /\ link \in BOOLEAN
  /\ phase \in [Requests -> {"none", "adding", "landed", "done"}]
  /\ answer \in [Requests -> jobs \cup {NoJob}]
  /\ status \in [Requests -> {0, 202} \cup Refusals]
  /\ lost \in [Requests -> Nat]
  /\ drops \in Nat
  /\ expiries \in [Keys -> Nat]

\* "While the key is live, a second enqueue with the same key creates no new job":
\* concurrent requests, repeated ones and adds sent again after a reconnect make
\* one job for each lifetime of the key.
KeyCollapses ==
  \A k \in Keys : Cardinality({j \in jobs : Key[j[1]] = k}) <= 1 + expiries[k]

\* "If two calls return the same `id`, the second created no work": an accepted
\* request is answered with a job that is in the queue, its own or, with a key, one
\* of the same key; in the second case it has made no job, but for those whose
\* reply was lost with the connection.
AcceptedIsQueued ==
  \A r \in Requests : status[r] = 202 =>
    /\ answer[r] \in jobs
    /\ IF Key[r] = NoKey THEN answer[r][1] = r ELSE Key[answer[r][1]] = Key[r]
    /\ answer[r][1] # r => Cardinality(JobsOf(r)) <= lost[r]

\* "A payload that never enters the queue cannot fail five times and land in the
\* dead-letter queue": nothing of a defective request is ever in the queue.  Of a
\* sound one that was refused, because Redis was out of reach or refused the write,
\* there is at most what landed before a connection was lost with the reply: a
\* caller who retries it duplicates nothing else.
RefusedNotQueued ==
  \A r \in Requests :
    /\ Defects[r] # {} => JobsOf(r) = {}
    /\ status[r] \in Refusals => Cardinality(JobsOf(r)) <= lost[r]

\* A refused request is answered 4xx exactly if validation has something to object
\* to.  So a caller is never told to correct a request that only met Redis at a bad
\* moment (not reached yet, lost, out of memory, at whatever point of the add), nor
\* to try a malformed one again later.  A job over BullMQ's sizeLimit counts as sound
\* here: the kit does not validate it, and answers 5xx although the request is at
\* fault.
BlameIsStable ==
  \A r \in Requests : status[r] \in Refusals =>
    (status[r] < 500 <=> Defects[r] \ {"oversize"} # {})

\* A request, with or without a key, makes one job, and one more for each reply that was lost
\* with its connection.
DuplicatesBounded ==
  \A r \in Requests : Cardinality(JobsOf(r)) <= 1 + lost[r]

\* A request that was sent is answered.
RequestAnswered ==
  \A r \in Requests : phase[r] = "adding" ~> phase[r] = "done"

=============================================================================
