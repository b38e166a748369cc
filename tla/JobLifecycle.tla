---------------------------- MODULE JobLifecycle ----------------------------
(***************************************************************************)
(* One queue of the kit: the jobs BullMQ keeps in Redis, the worker        *)
(* processes that run them inside `processJob` (worker/processor.ts), and  *)
(* the 'failed' listener that hands terminal failures to the dead-letter   *)
(* writer (worker/create-worker.ts).                                       *)
(*                                                                         *)
(* BullMQ itself is not in the repository.  Its part (which job is active, *)
(* who holds its lock, whether a failure is retried) is modelled from the  *)
(* behaviour the kit relies on and is marked "external".                   *)
(***************************************************************************)
EXTENDS Naturals, FiniteSets

CONSTANTS
  Jobs,               \* the jobs of one queue
  Workers,            \* the worker processes consuming it
  Concurrency,        \* WORKER_CONCURRENCY, per process
  Attempts,           \* job.opts.attempts
  MaxStalledCount,    \* WORKER_MAX_STALLED_COUNT
  Unknown,            \* jobs whose name this build has no definition for
  Invalid,            \* jobs whose envelope or payload does not parse
  HandlerErrors,      \* the kinds of error a handler of this queue throws
  WritesMayFail,      \* whether Redis may refuse a dead-letter write
  MaxCrashes,         \* bound: process deaths
  MaxLockLosses,      \* bound: locks that expire under a live, stalled process
  MaxOperatorRetries, \* bound: manual retries of each failed job
  NoJob,              \* what an idle slot runs
  NoLock,             \* the lock of a job nobody holds
  Orphan              \* the lock token of a process that has died

\* The error kinds that matter: what `instanceof UnrecoverableError` sees, what
\* only the name check of isNonRetryableError sees, everything else, and the
\* failure BullMQ itself raises for a job that stalled too often.
ErrorKinds == {"plain", "unrecoverable", "named", "stalled limit"}

ASSUME LifecycleAssumption ==
  /\ Concurrency \in Nat \ {0}
  /\ Attempts \in Nat \ {0}
  /\ MaxStalledCount \in Nat
  /\ {MaxCrashes, MaxLockLosses, MaxOperatorRetries} \subseteq Nat
  /\ Unknown \subseteq Jobs
  /\ Invalid \subseteq Jobs
  /\ HandlerErrors \subseteq ErrorKinds \ {"stalled limit"}
  /\ WritesMayFail \in BOOLEAN
  /\ NoJob \notin Jobs
  /\ NoLock # Orphan
  /\ (Workers \X (1..Concurrency)) \cap {NoLock, Orphan} = {}

Slots    == Workers \X (1..Concurrency)
Owner(s) == s[1]

VARIABLES
  \* Redis (external, except that finishing a job follows what processJob did)
  state,         \* per job: "waiting" (also delayed), "active", "completed",
                 \* "failed", or "removed" by removeOnFail/removeOnComplete
  attemptsMade,  \* per job
  stalls,        \* per job: the stalled counter, and the jobsStalled metric
  deferred,      \* per job: to be failed unrun when it is next fetched
  lock,          \* per job: the slot holding the lock, NoLock or Orphan
  dlq,           \* the dead-letter ids <<job, attemptsMade>> written so far
  \* worker processes
  slot,          \* per concurrency slot: the run in it
  abandoned,     \* handlers that outlive their run: <<worker, job, run>>
  pending,       \* dead-letter writes in flight: <<worker, id>>
  metrics,       \* per job: the attempt counters, summed over the processes
  \* history and bounds
  terminal,      \* the terminal failures BullMQ decided: <<job, attemptsMade>>
  lost,          \* the ids a fault kept out of the dead-letter queue
  retries,       \* per job: operator retries
  crashes, lockLosses

redisVars == <<state, attemptsMade, stalls, deferred, lock>>
faultVars == <<retries, crashes, lockLosses>>
vars == <<redisVars, dlq, slot, abandoned, pending, metrics, terminal, lost, faultVars>>

\* A run occupies a slot from fetch to the 'failed'/'completed' event:
\*   fetched  -> the worker has the job and is about to call processJob, or
\*               (condemned) to fail it unrun
\*   running  -> the handler has been called
\*   resolved -> processJob returned         failing -> processJob threw
\*   emitting -> moveToFailed has landed, 'failed' not yet emitted
Phases == {"idle", "fetched", "condemned", "running", "resolved", "failing", "emitting"}

SlotType == [phase : Phases, job : Jobs \cup {NoJob}, attempt : Nat, error : ErrorKinds,
             willRetry : BOOLEAN, finishedOn : BOOLEAN]

IdleSlot == [phase |-> "idle", job |-> NoJob, attempt |-> 0, error |-> "plain",
             willRetry |-> FALSE, finishedOn |-> FALSE]

Init ==
  /\ state = [j \in Jobs |-> "waiting"]
  /\ attemptsMade = [j \in Jobs |-> 0]
  /\ stalls = [j \in Jobs |-> 0]
  /\ deferred = [j \in Jobs |-> FALSE]
  /\ lock = [j \in Jobs |-> NoLock]
  /\ dlq = {}
  /\ slot = [s \in Slots |-> IdleSlot]
  /\ abandoned = {}
  /\ pending = {}
  /\ metrics = [j \in Jobs |-> [started |-> 0, completed |-> 0, failed |-> 0, retrying |-> 0]]
  /\ terminal = {}
  /\ lost = {}
  /\ retries = [j \in Jobs |-> 0]
  /\ crashes = 0
  /\ lockLosses = 0

-----------------------------------------------------------------------------
(* Fetching and starting.                                                  *)

\* Fault: the attempt is numbered from zero.
attemptOf_FromZero(j) == attemptsMade[j]

\* processJob: const attempt = job.attemptsMade + 1
attemptOf(j) == attemptsMade[j] + 1

\* External: an idle slot takes a waiting job and its lock.  From here on the
\* worker goes by its own copy of the job.
Fetch(s, j) ==
  /\ slot[s].phase = "idle"
  /\ state[j] = "waiting"
  /\ state' = [state EXCEPT ![j] = "active"]
  /\ lock' = [lock EXCEPT ![j] = s]
  /\ slot' = [slot EXCEPT ![s] =
                [IdleSlot EXCEPT !.phase = IF deferred[j] THEN "condemned" ELSE "fetched",
                                 !.job = j, !.attempt = attemptOf(j)]]
  /\ UNCHANGED <<attemptsMade, stalls, deferred, dlq, abandoned, pending, metrics,
                 terminal, lost, faultVars>>

isNonRetryableError(e) == e # "plain"

\* Faults: a prediction off by one, and one that ignores the classification.
willRetry_OffByOne(s, e) == ~isNonRetryableError(e) /\ slot[s].attempt <= Attempts
willRetry_AnyError(s, e) == slot[s].attempt < Attempts

willRetry(s, e) == ~isNonRetryableError(e) /\ slot[s].attempt < Attempts

\* The catch block: count the failed attempt, predict the retry, rethrow.
Throw(s, e) ==
  /\ slot' = [slot EXCEPT ![s].phase = "failing", ![s].error = e,
                          ![s].willRetry = willRetry(s, e)]
  /\ metrics' = [metrics EXCEPT ![slot[s].job].failed = @ + 1,
                                ![slot[s].job].retrying = @ + IF willRetry(s, e) THEN 1 ELSE 0]

\* External: a job over maxStalledCount is failed without calling processJob.
FailDeferred(s) ==
  /\ slot[s].phase = "condemned"
  /\ slot' = [slot EXCEPT ![s].phase = "failing", ![s].error = "stalled limit"]
  /\ UNCHANGED <<redisVars, dlq, abandoned, pending, metrics, terminal, lost, faultVars>>

\* An unregistered name, or an envelope or payload that does not parse: thrown
\* before the handler is called, so no attempt counts as started.
Reject(s) ==
  /\ slot[s].phase = "fetched"
  /\ slot[s].job \in Unknown \cup Invalid
  /\ Throw(s, "unrecoverable")
  /\ UNCHANGED <<redisVars, dlq, abandoned, pending, terminal, lost, faultVars>>

\* invoke validated the envelope: count the start and call the handler.
Start(s) ==
  /\ slot[s].phase = "fetched"
  /\ slot[s].job \notin Unknown \cup Invalid
  /\ slot' = [slot EXCEPT ![s].phase = "running"]
  /\ metrics' = [metrics EXCEPT ![slot[s].job].started = @ + 1]
  /\ UNCHANGED <<redisVars, dlq, abandoned, pending, terminal, lost, faultVars>>

-----------------------------------------------------------------------------
(* The end of an attempt: raceWithAbort takes whichever comes first.       *)

HandlerReturns(s) ==
  /\ slot[s].phase = "running"
  /\ slot' = [slot EXCEPT ![s].phase = "resolved"]
  /\ metrics' = [metrics EXCEPT ![slot[s].job].completed = @ + 1]
  /\ UNCHANGED <<redisVars, dlq, abandoned, pending, terminal, lost, faultVars>>

HandlerThrows(s, e) ==
  /\ slot[s].phase = "running"
  /\ Throw(s, e)
  /\ UNCHANGED <<redisVars, dlq, abandoned, pending, terminal, lost, faultVars>>

\* The abort rejects the race at once.  A handler that heeds the signal unwinds;
\* one that does not goes on running after its attempt is over.  (A signal that is
\* aborted before the race starts ends the attempt likewise; that a later rejection of
\* such a handler is not swallowed is left out.)
Abort(s) ==
  /\ slot[s].phase = "running"
  /\ Throw(s, "plain")
  /\ LET j == slot[s].job
     IN  abandoned' \in {abandoned, abandoned \cup {<<Owner(s), j, metrics[j].started>>}}
  /\ UNCHANGED <<redisVars, dlq, pending, terminal, lost, faultVars>>

\* Fault: the deadline only signals the handler, nothing races it.
Timeout_NotRaced(s) == slot[s].phase = "running" /\ UNCHANGED vars

\* The deadline of the attempt (JobTimeoutError, retryable).
Timeout(s) == Abort(s)

\* BullMQ aborts the worker's signal once the lock is lost (JobCancelledError).
Cancel(s) == Abort(s) /\ lock[slot[s].job] # s

\* Abandoned work ends some day; its outcome is swallowed.
AbandonedEnds(h) ==
  /\ h \in abandoned
  /\ abandoned' = abandoned \ {h}
  /\ UNCHANGED <<redisVars, dlq, slot, pending, metrics, terminal, lost, faultVars>>

-----------------------------------------------------------------------------
(* Finishing the job in Redis (external), and the 'failed' listener.       *)

\* Without the lock BullMQ refuses to finish the job; the worker only logs it.
FinishRefused(s) ==
  /\ slot[s].phase \in {"resolved", "failing"}
  /\ lock[slot[s].job] # s
  /\ slot' = [slot EXCEPT ![s] = IdleSlot]
  /\ UNCHANGED <<redisVars, dlq, abandoned, pending, metrics, terminal, lost, faultVars>>

MoveToCompleted(s) ==
  LET j == slot[s].job
  IN  /\ slot[s].phase = "resolved"
      /\ lock[j] = s
      /\ state' = [state EXCEPT ![j] = "completed"]
      /\ lock' = [lock EXCEPT ![j] = NoLock]
      /\ slot' = [slot EXCEPT ![s] = IdleSlot]
      /\ UNCHANGED <<attemptsMade, stalls, deferred, dlq, abandoned, pending, metrics,
                     terminal, lost, faultVars>>

\* BullMQ's own retry rule, which the kit's classification mirrors.
BullRetries(s) == slot[s].error \in {"plain", "named"} /\ slot[s].attempt < Attempts

MoveToFailed(s) ==
  LET j == slot[s].job
  IN  /\ slot[s].phase = "failing"
      /\ lock[j] = s
      /\ state' = [state EXCEPT ![j] = IF BullRetries(s) THEN "waiting" ELSE "failed"]
      /\ attemptsMade' = [attemptsMade EXCEPT ![j] = @ + 1]
      /\ deferred' = [deferred EXCEPT ![j] = FALSE]
      /\ lock' = [lock EXCEPT ![j] = NoLock]
      /\ slot' = [slot EXCEPT ![s].phase = "emitting", ![s].finishedOn = ~BullRetries(s)]
      /\ terminal' = terminal \cup (IF BullRetries(s) THEN {} ELSE {<<j, attemptsMade[j] + 1>>})
      /\ UNCHANGED <<stalls, dlq, abandoned, pending, metrics, lost, faultVars>>

\* Faults: every failure is taken for final, and the hand-rolled check that the
\* comment in create-worker.ts warns of.
isTerminalFailure_Always(s)   == TRUE
isTerminalFailure_Attempts(s) == slot[s].attempt >= Attempts

isTerminalFailure(s) == slot[s].finishedOn

\* Faults: the attempt is left out of the id, or is always the same.
deadLetterJobId_Bare(s)  == <<slot[s].job>>
deadLetterJobId_Fixed(s) == <<slot[s].job, 1>>

\* What deadLetterJobId makes of the failure in slot s: attempt is what
\* job.attemptsMade is once moveToFailed has incremented the worker's copy.
deadLetterJobId(s) == <<slot[s].job, slot[s].attempt>>

\* BullMQ has no job to report when a job that stalled too often was already
\* removed by removeOnFail.
JobUndefined(s) == slot[s].error = "stalled limit" /\ state[slot[s].job] = "removed"

\* The 'failed' listener: start the dead-letter write of a terminal failure.
OnFailed(s) ==
  /\ slot[s].phase = "emitting"
  /\ pending' = pending \cup IF isTerminalFailure(s) /\ ~JobUndefined(s)
                             THEN {<<Owner(s), deadLetterJobId(s)>>} ELSE {}
  /\ lost' = lost \cup IF JobUndefined(s) THEN {deadLetterJobId(s)} ELSE {}
  /\ slot' = [slot EXCEPT ![s] = IdleSlot]
  /\ UNCHANGED <<redisVars, dlq, abandoned, metrics, terminal, faultVars>>

\* External: the reply to moveToFailed is lost with the connection.  ioredis sends
\* the command again, BullMQ refuses it because the lock is gone by now, and the
\* worker emits 'error' in place of 'failed'.
FailedReplyLost(s) ==
  /\ slot[s].phase = "emitting"
  /\ lost' = lost \cup IF isTerminalFailure(s) THEN {deadLetterJobId(s)} ELSE {}
  /\ slot' = [slot EXCEPT ![s] = IdleSlot]
  /\ UNCHANGED <<redisVars, dlq, abandoned, pending, metrics, terminal, faultVars>>

\* The write lands (adding an id that exists is a no-op), or fails and is counted.
WriteDeadLetter(p) ==
  /\ p \in pending
  /\ pending' = pending \ {p}
  /\ dlq' = dlq \cup {p[2]}
  /\ UNCHANGED <<redisVars, slot, abandoned, metrics, terminal, lost, faultVars>>

WriteFails(p) ==
  /\ WritesMayFail
  /\ p \in pending
  /\ pending' = pending \ {p}
  /\ lost' = lost \cup {p[2]}
  /\ UNCHANGED <<redisVars, dlq, slot, abandoned, metrics, terminal, faultVars>>

-----------------------------------------------------------------------------
(* Locks that expire, processes that die, and what happens to settled jobs. *)

\* External: the lock of a dead process expires; so may that of a live one whose
\* event loop is blocked or cut off from Redis for the lock duration.
LockExpires(j) ==
  /\ state[j] = "active"
  /\ \/ lock[j] = Orphan /\ UNCHANGED lockLosses
     \/ lock[j] \in Slots /\ lockLosses < MaxLockLosses /\ lockLosses' = lockLosses + 1
  /\ lock' = [lock EXCEPT ![j] = NoLock]
  /\ UNCHANGED <<state, attemptsMade, stalls, deferred, dlq, slot, abandoned, pending,
                 metrics, terminal, lost, retries, crashes>>

\* Fault: the limit is one too many.
OverStalledLimit_OffByOne(j) == stalls[j] > MaxStalledCount

OverStalledLimit(j) == stalls[j] >= MaxStalledCount

\* External: an active job without a lock goes back to wait; over the stalled
\* limit it does so only to be failed.  The 'stalled' listener counts it.
Stalled(j) ==
  /\ state[j] = "active"
  /\ lock[j] = NoLock
  /\ state' = [state EXCEPT ![j] = "waiting"]
  /\ stalls' = [stalls EXCEPT ![j] = @ + 1]
  /\ deferred' = [deferred EXCEPT ![j] = OverStalledLimit(j)]
  /\ UNCHANGED <<attemptsMade, lock, dlq, slot, abandoned, pending, metrics, terminal,
                 lost, faultVars>>

\* A process dies (SIGKILL, out of memory, a forced exit) and is started again.
\* Everything it held in memory is gone, dead-letter writes included.
Crash(w) ==
  LET own  == {s \in Slots : Owner(s) = w}
      dies == {s \in own : slot[s].phase = "emitting" /\ isTerminalFailure(s)}
  IN  /\ crashes < MaxCrashes
      /\ crashes' = crashes + 1
      /\ slot' = [s \in Slots |-> IF s \in own THEN IdleSlot ELSE slot[s]]
      /\ lock' = [j \in Jobs |-> IF lock[j] \in own THEN Orphan ELSE lock[j]]
      /\ abandoned' = {h \in abandoned : h[1] # w}
      /\ pending' = {p \in pending : p[1] # w}
      /\ lost' = lost \cup {deadLetterJobId(s) : s \in dies}
                      \cup {p[2] : p \in {q \in pending : q[1] = w}}
      /\ UNCHANGED <<state, attemptsMade, stalls, deferred, dlq, metrics, terminal,
                     retries, lockLosses>>

\* External: Bull Board's retry puts a failed job back, keeping attemptsMade.
OperatorRetry(j) ==
  /\ state[j] = "failed"
  /\ retries[j] < MaxOperatorRetries
  /\ retries' = [retries EXCEPT ![j] = @ + 1]
  /\ state' = [state EXCEPT ![j] = "waiting"]
  /\ UNCHANGED <<attemptsMade, stalls, deferred, lock, dlq, slot, abandoned, pending,
                 metrics, terminal, lost, crashes, lockLosses>>

\* removeOnComplete / removeOnFail: the retention counts push a settled job out.
Remove(j) ==
  /\ state[j] \in {"completed", "failed"}
  /\ state' = [state EXCEPT ![j] = "removed"]
  /\ UNCHANGED <<attemptsMade, stalls, deferred, lock, dlq, slot, abandoned, pending,
                 metrics, terminal, lost, faultVars>>

-----------------------------------------------------------------------------
SlotNext(s) ==
  \/ \E j \in Jobs : Fetch(s, j)
  \/ FailDeferred(s)
  \/ Reject(s)
  \/ Start(s)
  \/ HandlerReturns(s)
  \/ \E e \in HandlerErrors : HandlerThrows(s, e)
  \/ Timeout(s)
  \/ Cancel(s)
  \/ FinishRefused(s)
  \/ MoveToCompleted(s)
  \/ MoveToFailed(s)
  \/ OnFailed(s)
  \/ FailedReplyLost(s)

JobNext(j) == LockExpires(j) \/ Stalled(j) \/ OperatorRetry(j) \/ Remove(j)

Next ==
  \/ \E s \in Slots : SlotNext(s)
  \/ \E j \in Jobs : JobNext(j)
  \/ \E h \in abandoned : AbandonedEnds(h)
  \/ \E p \in pending : WriteDeadLetter(p) \/ WriteFails(p)
  \/ \E w \in Workers : Crash(w)

Spec == Init /\ [][Next]_vars

\* What the scheduling justifies: an idle slot keeps fetching, a process that is
\* up keeps executing what is due (a handler's own end is NOT assumed: only its
\* deadline is), dead locks expire, the stalled checker keeps running, and a
\* dead-letter write ends one way or the other.
Fairness ==
  /\ \A s \in Slots :
       /\ WF_vars(\E j \in Jobs : Fetch(s, j))
       /\ WF_vars(FailDeferred(s) \/ Reject(s) \/ Start(s))
       /\ WF_vars(Timeout(s))
       /\ WF_vars(FinishRefused(s) \/ MoveToCompleted(s) \/ MoveToFailed(s))
       /\ WF_vars(OnFailed(s))
  /\ \A j \in Jobs :
       /\ WF_vars(lock[j] = Orphan /\ LockExpires(j))
       /\ WF_vars(Stalled(j))
  /\ WF_vars(\E p \in pending : WriteDeadLetter(p) \/ WriteFails(p))

FairSpec == Spec /\ Fairness

-----------------------------------------------------------------------------
(* Properties.                                                             *)

JobStates == {"waiting", "active", "completed", "failed", "removed"}
Ids == Jobs \X Nat
Counters == [started : Nat, completed : Nat, failed : Nat, retrying : Nat]

\* Every variable holds a value of its type: type correctness of the model of
\* the queue, the processors and the 'failed' listener.
TypeOK ==
  /\ state \in [Jobs -> JobStates]
  /\ attemptsMade \in [Jobs -> Nat]
  /\ stalls \in [Jobs -> Nat]
  /\ deferred \in [Jobs -> BOOLEAN]
  /\ lock \in [Jobs -> Slots \cup {NoLock, Orphan}]
  /\ dlq \subseteq Ids
  /\ slot \in [Slots -> SlotType]
  /\ \A s \in Slots : slot[s].phase # "idle" => slot[s].job \in Jobs
  /\ abandoned \subseteq Workers \X Jobs \X Nat
  /\ pending \subseteq Workers \X Ids
  /\ metrics \in [Jobs -> Counters]
  /\ terminal \subseteq Ids
  /\ lost \subseteq Ids
  /\ retries \in [Jobs -> Nat]
  /\ crashes \in Nat
  /\ lockLosses \in Nat

\* A job is run at most Attempts + MaxStalledCount times before anybody retries
\* it by hand, whatever processes die and whatever locks are lost: "a job
\* recovered from stalled once may run again, but the second time it is failed
\* outright", and retries never restart the attempt count.
StartsBounded ==
  \A j \in Jobs : retries[j] = 0 => metrics[j].started <= Attempts + MaxStalledCount

\* Only a failure BullMQ made final is dead-lettered, under the attemptsMade it
\* was final at: never an attempt that is retried, nor one whose moveToFailed was
\* refused because the lock was lost (isTerminalFailure, deadLetterJobId).
RecordsAreFailures ==
  dlq \cup {p[2] : p \in pending} \subseteq terminal

\* Every final failure is in the dead-letter queue, on its way there, or was
\* taken by one of the faults the kit has no answer to (the process died, the
\* write or the reply to moveToFailed failed, BullMQ had no job to report): the
\* 'failed' listener itself drops none.
NoFailureDropped ==
  terminal \subseteq dlq \cup {p[2] : p \in pending} \cup lost
                      \cup {deadLetterJobId(s) : s \in {r \in Slots : slot[r].phase = "emitting"
                                                                  /\ isTerminalFailure(r)}}

\* The retry counted and logged by processJob's catch block is the retry BullMQ
\* decides on, for a run that still holds its lock.
RetryPredictionAgrees ==
  \A s \in Slots :
    slot[s].phase = "failing" /\ lock[slot[s].job] = s => slot[s].willRetry = BullRetries(s)

\* The counters never understate permanent failures: each of a job's final
\* failures shows as an attempt failed and not retrying, or as a stall.
CountersCoverFailures ==
  \A j \in Jobs :
    Cardinality({id \in terminal : id[1] = j}) + metrics[j].retrying
      <= metrics[j].failed + stalls[j]

\* A job's final failures have distinct dead-letter ids: one that fails for good
\* again after an operator's retry does so under an id not used before, so that
\* Queue.add does not swallow its record.
FreshFailureId ==
  [][\A s \in Slots :
       slot[s].phase = "failing" /\ slot'[s].phase = "emitting" /\ isTerminalFailure(s)' =>
         deadLetterJobId(s)' \notin terminal \cup dlq \cup {p[2] : p \in pending}]_vars

\* The queue, its workers and the dead-letter path implement JobContract: in
\* particular no slower run of a job that has completed (one that lost its lock,
\* or was started again by the stalled checker) runs it again or fails it, and what is
\* recorded is a failure that BullMQ has made final, though an operator may have
\* retried the job since.
ContractStatus(st) ==
  CASE st \in {"waiting", "active"} -> "pending"
    [] st = "completed" -> "succeeded"
    [] st = "failed"    -> "failed"
    [] st = "removed"   -> "forgotten"

Contract == INSTANCE JobContract WITH
  status <- [j \in Jobs |-> ContractStatus(state[j])], failures <- terminal, recorded <- dlq

ImplementsContract == Contract!Spec

\* Every waiting job completes or fails, even when handlers never return.
JobSettles ==
  \A j \in Jobs : state[j] = "waiting" ~> state[j] \in {"completed", "failed", "removed"}

\* Every final failure is eventually recorded or lost to a fault.
FailureRecorded ==
  \A j \in Jobs, n \in 1..(Attempts + MaxOperatorRetries) :
    <<j, n>> \in terminal ~> <<j, n>> \in dlq \cup lost

-----------------------------------------------------------------------------
(* The inductive invariant behind the theorems of JobLifecycle_proofs.      *)

\* A slot holding a job's lock runs that job, under the attempt Redis expects.
HoldersRun ==
  \A j \in Jobs, s \in Slots : lock[j] = s =>
    /\ slot[s].job = j
    /\ slot[s].phase \in {"fetched", "condemned", "running", "resolved", "failing"}
    /\ slot[s].attempt = attemptsMade[j] + 1

LockedIsActive == \A j \in Jobs : lock[j] # NoLock => state[j] = "active"

\* Only a landed final failure has finishedOn, and its id is known.
FinishedIsTerminal ==
  \A s \in Slots : slot[s].finishedOn =>
    slot[s].phase = "emitting" /\ deadLetterJobId(s) \in terminal

TerminalIsPast == \A id \in terminal : id[2] <= attemptsMade[id[1]]

\* A run that holds its job's lock works on the attempt Redis will count next,
\* and every final failure so far is at an attempt already counted: what makes
\* the ids of the dead-letter records those of real failures, and fresh.
LifecycleInv ==
  /\ TypeOK
  /\ HoldersRun
  /\ LockedIsActive
  /\ FinishedIsTerminal
  /\ TerminalIsPast
  /\ RecordsAreFailures
  /\ NoFailureDropped

-----------------------------------------------------------------------------
(* Claims of the repository that the code does not keep (violation runs).  *)

\* "Work that ignores the signal keeps running until it finishes, holding a
\* concurrency slot": a process never has more handlers running than slots.
HandlersWithinConcurrency ==
  \A w \in Workers :
    Cardinality({s \in Slots : Owner(s) = w /\ slot[s].phase = "running"})
      + Cardinality({h \in abandoned : h[1] = w}) <= Concurrency

=============================================================================
