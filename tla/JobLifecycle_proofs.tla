------------------------- MODULE JobLifecycle_proofs ------------------------
(***************************************************************************)
(* Theorems about JobLifecycle for any number of jobs, processes, slots,   *)
(* attempts and faults.  Two inductive invariants, each preserved action   *)
(* by action: LifecycleInv, of locks, attempts and records, and CountsInv, *)
(* which adds what is counted.                                             *)
(***************************************************************************)
EXTENDS JobLifecycle, FiniteSetTheorems, TLAPS

\* The lock tokens that stand for no live run are not slots.
LEMMA SlotsNotTokens ==
  \A s \in Slots : s # NoLock /\ s # Orphan
BY LifecycleAssumption DEF Slots

\* An idle slot is well typed.
LEMMA IdleSlotType == IdleSlot \in SlotType
BY DEF IdleSlot, SlotType, Phases, ErrorKinds

\* The updates the operations make to a slot and to a job's counters keep both
\* well typed.
LEMMA SlotUpdate ==
  ASSUME NEW r \in SlotType, NEW p \in Phases, NEW e \in ErrorKinds, NEW b \in BOOLEAN
  PROVE  /\ [r EXCEPT !.phase = p, !.error = e] \in SlotType
         /\ [r EXCEPT !.phase = p, !.error = e].job = r.job
         /\ [r EXCEPT !.phase = p, !.error = e, !.willRetry = b] \in SlotType
         /\ [r EXCEPT !.phase = p, !.finishedOn = b] \in SlotType
BY DEF SlotType

\* So is the slot of a run just fetched,
LEMMA FetchedSlot ==
  ASSUME NEW p \in Phases, NEW j \in Jobs, NEW n \in Nat
  PROVE  [IdleSlot EXCEPT !.phase = p, !.job = j, !.attempt = n] \in SlotType
BY IdleSlotType DEF SlotType

\* and the counters of a job whose failure processJob's catch block counts.
LEMMA CounterUpdate ==
  ASSUME NEW c \in Counters, NEW n \in Nat
  PROVE  [c EXCEPT !.failed = @ + 1, !.retrying = @ + n] \in Counters
<1>1. c.failed + 1 \in Nat /\ c.retrying + n \in Nat
  BY DEF Counters
<1>2. [c EXCEPT !.failed = c.failed + 1, !.retrying = c.retrying + n] \in Counters
  BY <1>1 DEF Counters
<1>3. QED
  BY <1>2

\* processJob's catch block leaves the slot and the counters well typed.
LEMMA ThrowType ==
  ASSUME TypeOK, NEW s \in Slots, slot[s].phase # "idle", NEW e \in ErrorKinds, Throw(s, e)
  PROVE  /\ slot' \in [Slots -> SlotType]
         /\ metrics' \in [Jobs -> Counters]
         /\ \A r \in Slots : slot'[r].job = slot[r].job
                            /\ (slot'[r].phase # "idle" => slot[r].phase # "idle")
<1> DEFINE j == slot[s].job
           n == IF willRetry(s, e) THEN 1 ELSE 0
<1>1. slot[s] \in SlotType /\ j \in Jobs /\ metrics[j] \in Counters /\ n \in Nat
  BY DEF TypeOK
<1>2. [slot[s] EXCEPT !.phase = "failing", !.error = e, !.willRetry = willRetry(s, e)] \in SlotType
  BY <1>1, SlotUpdate DEF Phases, willRetry
<1>3. slot' = [slot EXCEPT ![s] = [slot[s] EXCEPT !.phase = "failing", !.error = e,
                                                  !.willRetry = willRetry(s, e)]]
  BY <1>1 DEF Throw, TypeOK, SlotType
<1>4. slot'[s].job = slot[s].job
  BY <1>1, <1>3 DEF TypeOK, SlotType
<1>5. [metrics[j] EXCEPT !.failed = @ + 1, !.retrying = @ + n] \in Counters
  BY <1>1, CounterUpdate
<1>6. metrics' = [metrics EXCEPT ![j] = [metrics[j] EXCEPT !.failed = @ + 1, !.retrying = @ + n]]
  BY <1>1 DEF Throw, TypeOK, Counters
<1>7. QED
  BY <1>1, <1>2, <1>3, <1>4, <1>5, <1>6 DEF TypeOK

\* The queue at first.
LEMMA InitInv == Init => LifecycleInv
<1> SUFFICES ASSUME Init PROVE LifecycleInv
  OBVIOUS
<1>1. TypeOK
  BY IdleSlotType DEF Init, TypeOK, JobStates, Ids, IdleSlot, Counters
<1>2. HoldersRun
  BY SlotsNotTokens DEF Init, HoldersRun
<1>3. QED
  BY <1>1, <1>2 DEF Init, LifecycleInv, LockedIsActive, FinishedIsTerminal, IdleSlot,
     TerminalIsPast, RecordsAreFailures, NoFailureDropped

-----------------------------------------------------------------------------
\* Every operation of the model keeps every variable in its type.
LEMMA TypeStep ==
  ASSUME TypeOK, Next
  PROVE  TypeOK'
<1> USE DEF TypeOK
<1>1. ASSUME NEW s \in Slots, NEW j \in Jobs, Fetch(s, j) PROVE TypeOK'
  <2>1. attemptOf(j) \in Nat
    BY DEF attemptOf
  <2>2. slot' \in [Slots -> SlotType]
    BY <1>1, <2>1, FetchedSlot DEF Fetch, Phases
  <2>3. \A r \in Slots : slot'[r].phase # "idle" => slot'[r].job \in Jobs
    BY <1>1 DEF Fetch, IdleSlot
  <2>4. QED
    BY <1>1, <2>2, <2>3 DEF Fetch, JobStates, faultVars
<1>2. ASSUME NEW s \in Slots, FailDeferred(s) PROVE TypeOK'
  <2>1. slot' = [slot EXCEPT ![s] = [slot[s] EXCEPT !.phase = "failing", !.error = "stalled limit"]]
    BY <1>2 DEF FailDeferred
  <2>2. slot' \in [Slots -> SlotType]
    BY <2>1, SlotUpdate DEF Phases, ErrorKinds
  <2>3. slot'[s].job = slot[s].job /\ slot[s].job \in Jobs
    <3>1. slot[s] \in SlotType
      OBVIOUS
    <3>2. [slot[s] EXCEPT !.phase = "failing", !.error = "stalled limit"].job = slot[s].job
      BY <3>1, SlotUpdate DEF Phases, ErrorKinds
    <3>3. QED
      BY <1>2, <2>1, <3>2 DEF FailDeferred
  <2>4. QED
    BY <1>2, <2>1, <2>2, <2>3 DEF FailDeferred, redisVars, faultVars
<1>3. ASSUME NEW s \in Slots, Reject(s) PROVE TypeOK'
  <2>1. slot[s].phase # "idle" /\ Throw(s, "unrecoverable") /\ "unrecoverable" \in ErrorKinds
    BY <1>3, LifecycleAssumption DEF Reject, ErrorKinds
  <2>2. QED
    BY <1>3, <2>1, ThrowType DEF Reject, redisVars, faultVars
<1>4. ASSUME NEW s \in Slots, Start(s) PROVE TypeOK'
  BY <1>4 DEF Start, SlotType, Counters, Phases, redisVars, faultVars
<1>5. ASSUME NEW s \in Slots, HandlerReturns(s) PROVE TypeOK'
  BY <1>5 DEF HandlerReturns, SlotType, Counters, Phases, redisVars, faultVars
<1>6. ASSUME NEW s \in Slots, NEW e \in HandlerErrors, HandlerThrows(s, e) PROVE TypeOK'
  <2>1. slot[s].phase # "idle" /\ Throw(s, e) /\ e \in ErrorKinds
    BY <1>6, LifecycleAssumption DEF HandlerThrows, ErrorKinds
  <2>2. QED
    BY <1>6, <2>1, ThrowType DEF HandlerThrows, redisVars, faultVars
<1>7. ASSUME NEW s \in Slots, Timeout(s) PROVE TypeOK'
  <2>1. slot[s].phase # "idle" /\ Throw(s, "plain") /\ "plain" \in ErrorKinds
    BY <1>7 DEF Timeout, Abort, ErrorKinds
  <2>2. <<Owner(s), slot[s].job, metrics[slot[s].job].started>> \in Workers \X Jobs \X Nat
    BY <2>1 DEF Slots, Owner, Counters
  <2>3. abandoned' \subseteq Workers \X Jobs \X Nat
    BY <1>7, <2>2 DEF Timeout, Abort
  <2>4. QED
    BY <1>7, <2>1, <2>3, ThrowType DEF Timeout, Abort, redisVars, faultVars
<1>8. ASSUME NEW s \in Slots, Cancel(s) PROVE TypeOK'
  <2>1. slot[s].phase # "idle" /\ Throw(s, "plain") /\ "plain" \in ErrorKinds
    BY <1>8 DEF Cancel, Abort, ErrorKinds
  <2>2. <<Owner(s), slot[s].job, metrics[slot[s].job].started>> \in Workers \X Jobs \X Nat
    BY <2>1 DEF Slots, Owner, Counters
  <2>3. abandoned' \subseteq Workers \X Jobs \X Nat
    BY <1>8, <2>2 DEF Cancel, Abort
  <2>4. QED
    BY <1>8, <2>1, <2>3, ThrowType DEF Cancel, Abort, redisVars, faultVars
<1>9. ASSUME NEW s \in Slots, FinishRefused(s) PROVE TypeOK'
  BY <1>9, IdleSlotType DEF FinishRefused, redisVars, IdleSlot, faultVars
<1>10. ASSUME NEW s \in Slots, MoveToCompleted(s) PROVE TypeOK'
  BY <1>10, IdleSlotType DEF MoveToCompleted, JobStates, IdleSlot, faultVars
<1>11. ASSUME NEW s \in Slots, MoveToFailed(s) PROVE TypeOK'
  <2>1. slot' = [slot EXCEPT ![s] = [slot[s] EXCEPT !.phase = "emitting", !.finishedOn = ~BullRetries(s)]]
    BY <1>11 DEF MoveToFailed
  <2>2. slot' \in [Slots -> SlotType]
    <3>1. slot[s] \in SlotType /\ slot[s].error \in ErrorKinds /\ (~BullRetries(s)) \in BOOLEAN
      BY DEF SlotType, BullRetries
    <3>2. [slot[s] EXCEPT !.phase = "emitting", !.finishedOn = ~BullRetries(s)] \in SlotType
      BY <3>1, SlotUpdate DEF Phases
    <3>3. QED
      BY <2>1, <3>2
  <2>3. \A r \in Slots : slot'[r].phase # "idle" => slot'[r].job \in Jobs
    BY <1>11, <2>1 DEF MoveToFailed, SlotType
  <2>4. slot[s].job \in Jobs
    BY <1>11 DEF MoveToFailed
  <2>5. QED
    BY <1>11, <2>2, <2>3, <2>4 DEF MoveToFailed, JobStates, Ids, faultVars
<1>12. ASSUME NEW s \in Slots, OnFailed(s) PROVE TypeOK'
  BY <1>12, IdleSlotType DEF OnFailed, redisVars, IdleSlot, SlotType, deadLetterJobId, Owner, Slots, Ids, faultVars
<1>13. ASSUME NEW s \in Slots, FailedReplyLost(s) PROVE TypeOK'
  BY <1>13, IdleSlotType DEF FailedReplyLost, redisVars, IdleSlot, SlotType, deadLetterJobId, Ids, faultVars
<1>14. ASSUME NEW j \in Jobs, LockExpires(j) PROVE TypeOK'
  BY <1>14 DEF LockExpires, JobStates, faultVars
<1>15. ASSUME NEW j \in Jobs, Stalled(j) PROVE TypeOK'
  BY <1>15 DEF Stalled, JobStates, OverStalledLimit, faultVars
<1>16. ASSUME NEW j \in Jobs, OperatorRetry(j) PROVE TypeOK'
  BY <1>16 DEF OperatorRetry, JobStates, faultVars
<1>17. ASSUME NEW j \in Jobs, Remove(j) PROVE TypeOK'
  BY <1>17 DEF Remove, JobStates, faultVars
<1>18. ASSUME NEW h \in abandoned, AbandonedEnds(h) PROVE TypeOK'
  BY <1>18 DEF AbandonedEnds, redisVars, faultVars
<1>19. ASSUME NEW p \in pending, WriteDeadLetter(p) PROVE TypeOK'
  BY <1>19 DEF WriteDeadLetter, redisVars, Ids, faultVars
<1>20. ASSUME NEW p \in pending, WriteFails(p) PROVE TypeOK'
  BY <1>20 DEF WriteFails, redisVars, Ids, faultVars
<1>21. ASSUME NEW w \in Workers, Crash(w) PROVE TypeOK'
  BY <1>21, IdleSlotType DEF Crash, SlotType, deadLetterJobId, Ids, IdleSlot, faultVars
<1>22. QED
  BY <1>1, <1>2, <1>3, <1>4, <1>5, <1>6, <1>7, <1>8, <1>9, <1>10, <1>11, <1>12, <1>13, <1>14, <1>15, <1>16, <1>17, <1>18, <1>19, <1>20, <1>21 DEF Next, SlotNext, JobNext

-----------------------------------------------------------------------------
(* LifecycleInv is preserved.                                              *)

\* What the steps inside a run have in common: they move slot s towards its
\* end, keep its job and attempt, and touch neither Redis nor the records.
RunStep(s) ==
  /\ slot[s].phase \in {"fetched", "condemned", "running"}
  /\ slot'[s].phase \in {"running", "resolved", "failing"}
  /\ slot'[s].job = slot[s].job
  /\ slot'[s].attempt = slot[s].attempt
  /\ slot'[s].finishedOn = slot[s].finishedOn
  /\ \A r \in Slots \ {s} : slot'[r] = slot[r]
  /\ UNCHANGED <<redisVars, dlq, pending, terminal, lost>>

\* All steps between the fetch and the end of the handler are of that kind.
LEMMA RunSteps ==
  ASSUME TypeOK, NEW s \in Slots,
         \/ FailDeferred(s) \/ Reject(s) \/ Start(s) \/ HandlerReturns(s)
         \/ (\E e \in HandlerErrors : HandlerThrows(s, e)) \/ Timeout(s) \/ Cancel(s)
  PROVE  RunStep(s)
<1>1. slot \in [Slots -> SlotType] /\ slot[s] \in SlotType
  BY DEF TypeOK
<1>2. CASE FailDeferred(s)
  BY <1>1, <1>2 DEF FailDeferred, RunStep, SlotType
<1>3. CASE Start(s)
  BY <1>1, <1>3 DEF Start, RunStep, SlotType
<1>4. CASE HandlerReturns(s)
  BY <1>1, <1>4 DEF HandlerReturns, RunStep, SlotType
<1>5. ASSUME NEW e, Throw(s, e)
      PROVE  /\ slot'[s].phase = "failing"
             /\ slot'[s].job = slot[s].job
             /\ slot'[s].attempt = slot[s].attempt
             /\ slot'[s].finishedOn = slot[s].finishedOn
             /\ \A r \in Slots \ {s} : slot'[r] = slot[r]
  BY <1>1, <1>5 DEF Throw, SlotType
<1>6. CASE Reject(s)
  BY <1>5, <1>6 DEF Reject, RunStep
<1>7. ASSUME NEW e \in HandlerErrors, HandlerThrows(s, e) PROVE RunStep(s)
  BY <1>5, <1>7 DEF HandlerThrows, RunStep
<1>8. CASE Timeout(s) \/ Cancel(s)
  BY <1>5, <1>8 DEF Timeout, Cancel, Abort, RunStep
<1>9. QED
  BY <1>2, <1>3, <1>4, <1>6, <1>7, <1>8

\* A step inside a run.
LEMMA RunStepInv ==
  ASSUME LifecycleInv, TypeOK', NEW s \in Slots, RunStep(s)
  PROVE  LifecycleInv'
<1> USE DEF LifecycleInv, RunStep, redisVars
<1>1. HoldersRun' /\ LockedIsActive'
  BY DEF HoldersRun, LockedIsActive
<1>2. ~slot[s].finishedOn
  BY DEF FinishedIsTerminal
<1>3. FinishedIsTerminal'
  BY <1>2 DEF FinishedIsTerminal, deadLetterJobId
<1>4. TerminalIsPast' /\ RecordsAreFailures'
  BY DEF TerminalIsPast, RecordsAreFailures
<1>5. NoFailureDropped'
  BY <1>2 DEF NoFailureDropped, isTerminalFailure, deadLetterJobId
<1>6. QED
  BY <1>1, <1>3, <1>4, <1>5

\* A run is given a job and its lock.
LEMMA FetchInv ==
  ASSUME LifecycleInv, TypeOK', NEW s \in Slots, NEW j \in Jobs, Fetch(s, j)
  PROVE  LifecycleInv'
<1> USE DEF LifecycleInv, Fetch
<1>1. /\ slot'[s].phase \in {"fetched", "condemned"} /\ slot'[s].job = j
      /\ slot'[s].attempt = attemptsMade[j] + 1 /\ ~slot'[s].finishedOn
      /\ \A r \in Slots \ {s} : slot'[r] = slot[r]
  BY DEF TypeOK, IdleSlot, attemptOf
<1>2. HoldersRun'
  BY <1>1 DEF HoldersRun, TypeOK
<1>3. LockedIsActive'
  BY DEF LockedIsActive, TypeOK
<1>4. FinishedIsTerminal'
  BY <1>1 DEF FinishedIsTerminal, deadLetterJobId
<1>5. TerminalIsPast' /\ RecordsAreFailures'
  BY DEF TerminalIsPast, RecordsAreFailures
<1>6. NoFailureDropped'
  BY <1>1 DEF NoFailureDropped, isTerminalFailure, deadLetterJobId
<1>7. QED
  BY <1>2, <1>3, <1>4, <1>5, <1>6

\* A run ends without having failed in Redis.
LEMMA RunEndsInv ==
  ASSUME LifecycleInv, TypeOK', NEW s \in Slots, MoveToCompleted(s) \/ FinishRefused(s)
  PROVE  LifecycleInv'
<1> USE DEF LifecycleInv, MoveToCompleted, FinishRefused, redisVars
<1>1. slot' = [slot EXCEPT ![s] = IdleSlot] /\ slot[s].phase \in {"resolved", "failing"}
  OBVIOUS
<1>2. ~slot[s].finishedOn /\ ~slot'[s].finishedOn /\ slot[s].job \in Jobs
  BY <1>1 DEF TypeOK, FinishedIsTerminal, IdleSlot
<1>3. HoldersRun'
  BY <1>1, <1>2, SlotsNotTokens DEF HoldersRun, TypeOK
<1>4. LockedIsActive'
  BY <1>2 DEF LockedIsActive, TypeOK
<1>5. FinishedIsTerminal'
  BY <1>1, <1>2 DEF FinishedIsTerminal, deadLetterJobId, TypeOK
<1>6. TerminalIsPast' /\ RecordsAreFailures'
  BY DEF TerminalIsPast, RecordsAreFailures
<1>7. NoFailureDropped'
  BY <1>1, <1>2 DEF NoFailureDropped, isTerminalFailure, deadLetterJobId, TypeOK
<1>8. QED
  BY <1>3, <1>4, <1>5, <1>6, <1>7

\* The step that decides a failure: the lock makes the worker's attempt number
\* the next one Redis counts, so the id is that of this failure and is new.
LEMMA MoveToFailedInv ==
  ASSUME LifecycleInv, TypeOK', NEW s \in Slots, MoveToFailed(s)
  PROVE  /\ LifecycleInv'
         /\ deadLetterJobId(s)' = <<slot[s].job, attemptsMade[slot[s].job] + 1>>
<1> DEFINE j == slot[s].job
<1> USE DEF LifecycleInv, MoveToFailed
<1>1. j \in Jobs /\ slot[s].attempt = attemptsMade[j] + 1 /\ ~slot[s].finishedOn
  BY DEF TypeOK, HoldersRun, FinishedIsTerminal
<1>2. /\ slot'[s].phase = "emitting" /\ slot'[s].job = j
      /\ slot'[s].attempt = slot[s].attempt /\ slot'[s].finishedOn = ~BullRetries(s)
      /\ \A r \in Slots \ {s} : slot'[r] = slot[r]
  BY DEF TypeOK, SlotType
<1>3. attemptsMade'[j] = attemptsMade[j] + 1 /\ \A i \in Jobs \ {j} : attemptsMade'[i] = attemptsMade[i]
  BY <1>1 DEF TypeOK
<1>4. terminal' = terminal \cup IF slot'[s].finishedOn THEN {deadLetterJobId(s)'} ELSE {}
  BY <1>1, <1>2 DEF deadLetterJobId
<1>5. HoldersRun'
  BY <1>1, <1>2, <1>3, SlotsNotTokens DEF HoldersRun, TypeOK
<1>6. LockedIsActive'
  BY <1>1 DEF LockedIsActive, TypeOK
<1>7. FinishedIsTerminal'
  BY <1>2, <1>4 DEF FinishedIsTerminal, deadLetterJobId
<1>8. TerminalIsPast'
  BY <1>1, <1>3 DEF TerminalIsPast, TypeOK, Ids
<1>9. RecordsAreFailures'
  BY DEF RecordsAreFailures
<1>10. NoFailureDropped'
  <2> SUFFICES ASSUME NEW id \in terminal'
               PROVE  \/ id \in dlq \cup lost \/ \E p \in pending : id = p[2]
                      \/ \E r \in Slots : slot'[r].phase = "emitting" /\ slot'[r].finishedOn
                                          /\ id = deadLetterJobId(r)'
    BY DEF NoFailureDropped, isTerminalFailure
  <2>1. CASE id \in terminal
    <3>1. ASSUME NEW r \in Slots, slot[r].phase = "emitting"
          PROVE  /\ slot'[r].phase = "emitting" /\ slot'[r].finishedOn = slot[r].finishedOn
                 /\ deadLetterJobId(r)' = deadLetterJobId(r)
      BY <1>2, <3>1 DEF deadLetterJobId
    <3>2. \/ id \in dlq \cup lost \/ \E p \in pending : id = p[2]
          \/ \E r \in Slots : slot[r].phase = "emitting" /\ slot[r].finishedOn
                              /\ id = deadLetterJobId(r)
      BY <2>1 DEF NoFailureDropped, isTerminalFailure
    <3>3. QED
      BY <3>1, <3>2
  <2>2. CASE id \notin terminal
    BY <1>2, <1>4, <2>2
  <2>3. QED
    BY <2>1, <2>2
<1>11. QED
  BY <1>1, <1>2, <1>5, <1>6, <1>7, <1>8, <1>9, <1>10 DEF deadLetterJobId

\* The failure leaves its slot for the dead-letter path, or for `lost`.
LEMMA EmittedInv ==
  ASSUME LifecycleInv, TypeOK', NEW s \in Slots, OnFailed(s) \/ FailedReplyLost(s)
  PROVE  LifecycleInv'
<1> USE DEF LifecycleInv, OnFailed, FailedReplyLost, redisVars
<1>1. slot' = [slot EXCEPT ![s] = IdleSlot] /\ slot[s].phase = "emitting"
  OBVIOUS
<1>2. ~slot'[s].finishedOn /\ \A r \in Slots \ {s} : slot'[r] = slot[r]
  BY <1>1 DEF TypeOK, IdleSlot
<1>3. HoldersRun'
  BY <1>1, <1>2, SlotsNotTokens DEF HoldersRun
<1>4. LockedIsActive'
  BY DEF LockedIsActive
<1>5. FinishedIsTerminal'
  BY <1>2 DEF FinishedIsTerminal, deadLetterJobId
<1>6. TerminalIsPast'
  BY DEF TerminalIsPast
<1>7. RecordsAreFailures'
  BY DEF RecordsAreFailures, FinishedIsTerminal, isTerminalFailure
<1>8. NoFailureDropped'
  <2> SUFFICES ASSUME NEW id \in terminal
               PROVE  \/ id \in dlq \/ id \in lost' \/ \E p \in pending' : id = p[2]
                      \/ \E r \in Slots : slot'[r].phase = "emitting" /\ slot'[r].finishedOn
                                          /\ id = deadLetterJobId(r)'
    BY DEF NoFailureDropped, isTerminalFailure
  <2>1. CASE slot[s].finishedOn /\ id = deadLetterJobId(s)
    <3>1. CASE OnFailed(s) /\ ~JobUndefined(s)
      <4>1. <<Owner(s), id>> \in pending'
        BY <2>1, <3>1 DEF isTerminalFailure
      <4>2. QED
        BY <4>1
    <3>2. CASE OnFailed(s) /\ JobUndefined(s)
      BY <2>1, <3>2
    <3>3. CASE FailedReplyLost(s)
      BY <2>1, <3>3 DEF isTerminalFailure
    <3>4. QED
      BY <3>1, <3>2, <3>3
  <2>2. CASE ~(slot[s].finishedOn /\ id = deadLetterJobId(s))
    BY <1>2, <2>2 DEF NoFailureDropped, isTerminalFailure, deadLetterJobId
  <2>3. QED
    BY <2>1, <2>2
<1>9. QED
  BY <1>3, <1>4, <1>5, <1>6, <1>7, <1>8

\* A dead-letter write lands or fails.
LEMMA WriteInv ==
  ASSUME LifecycleInv, TypeOK', NEW p \in pending, WriteDeadLetter(p) \/ WriteFails(p)
  PROVE  LifecycleInv'
<1> USE DEF LifecycleInv, WriteDeadLetter, WriteFails, redisVars
<1>1. HoldersRun' /\ LockedIsActive'
  BY DEF HoldersRun, LockedIsActive
<1>2. FinishedIsTerminal' /\ TerminalIsPast'
  BY DEF FinishedIsTerminal, TerminalIsPast, deadLetterJobId
<1>3. RecordsAreFailures'
  BY DEF RecordsAreFailures
<1>4. NoFailureDropped'
  BY DEF NoFailureDropped, isTerminalFailure, deadLetterJobId
<1>5. QED
  BY <1>1, <1>2, <1>3, <1>4

\* Locks that expire, stalled jobs, operators, retention, abandoned handlers.
LEMMA RedisStepInv ==
  ASSUME LifecycleInv, TypeOK',
         \/ \E j \in Jobs : JobNext(j)
         \/ \E h \in abandoned : AbandonedEnds(h)
  PROVE  LifecycleInv'
<1> USE DEF LifecycleInv, JobNext, LockExpires, Stalled, OperatorRetry, Remove, AbandonedEnds, redisVars
<1>1. HoldersRun'
  BY SlotsNotTokens DEF HoldersRun, TypeOK
<1>2. LockedIsActive'
  BY DEF LockedIsActive, TypeOK
<1>3. FinishedIsTerminal' /\ TerminalIsPast'
  BY DEF FinishedIsTerminal, TerminalIsPast, deadLetterJobId
<1>4. RecordsAreFailures' /\ NoFailureDropped'
  BY DEF RecordsAreFailures, NoFailureDropped, isTerminalFailure, deadLetterJobId
<1>5. QED
  BY <1>1, <1>2, <1>3, <1>4

\* A process dies: what was on its way to the dead-letter queue is lost.
LEMMA CrashInv ==
  ASSUME LifecycleInv, TypeOK', NEW w \in Workers, Crash(w)
  PROVE  LifecycleInv'
<1> USE DEF LifecycleInv, Crash
<1>1. \A r \in Slots : IF Owner(r) = w THEN slot'[r] = IdleSlot ELSE slot'[r] = slot[r]
  OBVIOUS
<1>2. HoldersRun'
  BY <1>1, SlotsNotTokens DEF HoldersRun, TypeOK
<1>3. LockedIsActive'
  BY SlotsNotTokens DEF LockedIsActive, TypeOK
<1>4. FinishedIsTerminal' /\ TerminalIsPast'
  BY <1>1 DEF FinishedIsTerminal, TerminalIsPast, deadLetterJobId, IdleSlot
<1>5. RecordsAreFailures'
  BY DEF RecordsAreFailures
<1>6. NoFailureDropped'
  <2> SUFFICES ASSUME NEW id \in terminal
               PROVE  \/ id \in dlq \/ id \in lost' \/ \E p \in pending' : id = p[2]
                      \/ \E r \in Slots : slot'[r].phase = "emitting" /\ slot'[r].finishedOn
                                          /\ id = deadLetterJobId(r)'
    BY DEF NoFailureDropped, isTerminalFailure
  <2>1. CASE id \in dlq \cup lost
    BY <2>1
  <2>2. ASSUME NEW p \in pending, id = p[2]
        PROVE  id \in lost' \/ \E q \in pending' : id = q[2]
    BY <2>2
  <2>3. ASSUME NEW r \in Slots, slot[r].phase = "emitting", isTerminalFailure(r),
               id = deadLetterJobId(r)
        PROVE  id \in lost' \/ \E q \in Slots : slot'[q].phase = "emitting" /\ slot'[q].finishedOn
                                                /\ id = deadLetterJobId(q)'
    BY <1>1, <2>3 DEF isTerminalFailure, deadLetterJobId
  <2>4. QED
    BY <2>1, <2>2, <2>3 DEF NoFailureDropped
<1>7. QED
  BY <1>2, <1>3, <1>4, <1>5, <1>6

\* Every step.
LEMMA StepInv == LifecycleInv /\ [Next]_vars => LifecycleInv'
<1> SUFFICES ASSUME LifecycleInv, [Next]_vars PROVE LifecycleInv'
  OBVIOUS
<1>1. CASE UNCHANGED vars
  BY <1>1 DEF vars, redisVars, faultVars, LifecycleInv, TypeOK, HoldersRun, LockedIsActive,
     FinishedIsTerminal, TerminalIsPast, RecordsAreFailures, NoFailureDropped,
     isTerminalFailure, deadLetterJobId
<1>2. CASE Next
  <2>1. TypeOK'
    BY <1>2, TypeStep DEF LifecycleInv
  <2>2. ASSUME NEW s \in Slots, SlotNext(s) PROVE LifecycleInv'
    <3>1. TypeOK
      BY DEF LifecycleInv
    <3>2. QED
      BY <2>1, <2>2, <3>1, RunSteps, RunStepInv, FetchInv, RunEndsInv, MoveToFailedInv, EmittedInv
         DEF SlotNext
  <2>3. QED
    BY <1>2, <2>1, <2>2, WriteInv, RedisStepInv, CrashInv DEF Next
<1>3. QED
  BY <1>1, <1>2

\* LifecycleInv holds throughout: type correctness, lock holders working on the
\* attempt Redis counts next, and the accounting of every final failure.
THEOREM LifecycleInvariant == Spec => []LifecycleInv
<1>1. Init => LifecycleInv
  BY InitInv
<1>2. LifecycleInv /\ [Next]_vars => LifecycleInv'
  BY StepInv
<1>3. QED
  BY <1>1, <1>2, PTL DEF Spec

\* Type correctness of the queue, the processors and the dead-letter path.
THEOREM TypeCorrect == Spec => []TypeOK
<1>1. LifecycleInv => TypeOK
  BY DEF LifecycleInv
<1>2. QED
  BY <1>1, LifecycleInvariant, PTL

\* Whatever the faults, the dead-letter queue and the writes in flight hold
\* nothing but failures BullMQ made final (isTerminalFailure, deadLetterJobId).
THEOREM OnlyFailuresRecorded == Spec => []RecordsAreFailures
<1>1. LifecycleInv => RecordsAreFailures
  BY DEF LifecycleInv
<1>2. QED
  BY <1>1, LifecycleInvariant, PTL

\* No final failure disappears other than by one of the modelled faults.
THEOREM FailuresAccountedFor == Spec => []NoFailureDropped
<1>1. LifecycleInv => NoFailureDropped
  BY DEF LifecycleInv
<1>2. QED
  BY <1>1, LifecycleInvariant, PTL

-----------------------------------------------------------------------------
(* Fresh dead-letter ids, and the contract.                                *)

\* Only moveToFailed takes a slot from failing to emitting.
LEMMA FailingToEmitting ==
  ASSUME TypeOK, Next, NEW s \in Slots,
         slot[s].phase = "failing", slot'[s].phase = "emitting"
  PROVE  MoveToFailed(s)
<1>1. ASSUME NEW r \in Slots, SlotNext(r) PROVE MoveToFailed(s)
  <2>1. ASSUME RunStep(r) PROVE FALSE
    BY <2>1 DEF RunStep
  <2>2. ASSUME slot'[r].phase # "emitting", \A q \in Slots \ {r} : slot'[q] = slot[q] PROVE FALSE
    BY <2>2
  <2>3. ASSUME NEW j \in Jobs, Fetch(r, j) PROVE FALSE
    BY <2>3, <2>2 DEF Fetch, TypeOK, IdleSlot
  <2>4. ASSUME slot' = [slot EXCEPT ![r] = IdleSlot] PROVE FALSE
    BY <2>4, <2>2 DEF TypeOK, IdleSlot
  <2>5. CASE MoveToFailed(r)
    BY <2>5 DEF MoveToFailed, TypeOK
  <2>6. QED
    BY <1>1, <2>1, <2>3, <2>4, <2>5, RunSteps
       DEF SlotNext, FinishRefused, MoveToCompleted, OnFailed, FailedReplyLost
<1>2. ASSUME NEW w \in Workers, Crash(w) PROVE FALSE
  BY <1>2 DEF Crash, IdleSlot
<1>3. ASSUME slot' = slot PROVE FALSE
  BY <1>3
<1>4. QED
  BY <1>1, <1>2, <1>3 DEF Next, JobNext, LockExpires, Stalled, OperatorRetry, Remove,
     AbandonedEnds, WriteDeadLetter, WriteFails

\* A job that fails for good again does so under a dead-letter id that no earlier
\* failure, record or write in flight has, so Queue.add cannot swallow its record.
THEOREM FreshIds == Spec => FreshFailureId
<1> DEFINE Step == \A s \in Slots :
              slot[s].phase = "failing" /\ slot'[s].phase = "emitting" /\ isTerminalFailure(s)' =>
                deadLetterJobId(s)' \notin terminal \cup dlq \cup {p[2] : p \in pending}
<1>1. LifecycleInv /\ [Next]_vars => [Step]_vars
  <2> SUFFICES ASSUME LifecycleInv, Next, NEW s \in Slots,
                      slot[s].phase = "failing", slot'[s].phase = "emitting"
               PROVE  deadLetterJobId(s)' \notin terminal \cup dlq \cup {p[2] : p \in pending}
    OBVIOUS
  <2>1. MoveToFailed(s) /\ slot[s].job \in Jobs /\ TypeOK'
    BY FailingToEmitting, TypeStep DEF LifecycleInv, TypeOK
  <2>2. deadLetterJobId(s)' = <<slot[s].job, attemptsMade[slot[s].job] + 1>>
    BY <2>1, MoveToFailedInv
  <2>3. deadLetterJobId(s)' \notin terminal
    BY <2>1, <2>2 DEF LifecycleInv, TerminalIsPast, TypeOK
  <2>4. QED
    BY <2>3 DEF LifecycleInv, RecordsAreFailures
<1>2. QED
  BY <1>1, LifecycleInvariant, PTL DEF Spec, FreshFailureId

\* What JobContract sees of a job in each of its states.
LEMMA Statuses ==
  /\ ContractStatus("waiting") = "pending" /\ ContractStatus("active") = "pending"
  /\ ContractStatus("completed") = "succeeded" /\ ContractStatus("failed") = "failed"
  /\ ContractStatus("removed") = "forgotten"
BY DEF ContractStatus

\* A step that only takes jobs between waiting and active is no step of the contract.
LEMMA ContractStutter ==
  ASSUME TypeOK, TypeOK', terminal' = terminal, dlq' = dlq,
         \A j \in Jobs : \/ state'[j] = state[j]
                         \/ {state[j], state'[j]} \subseteq {"waiting", "active"}
  PROVE  UNCHANGED Contract!contractVars
<1>1. \A j \in Jobs : ContractStatus(state'[j]) = ContractStatus(state[j])
  <2> SUFFICES ASSUME NEW j \in Jobs, state'[j] # state[j]
               PROVE  ContractStatus(state'[j]) = ContractStatus(state[j])
    OBVIOUS
  <2>1. /\ state[j] = "waiting" \/ state[j] = "active"
        /\ state'[j] = "waiting" \/ state'[j] = "active"
    OBVIOUS
  <2>2. QED
    BY <2>1, Statuses
<1>2. [j \in Jobs |-> ContractStatus(state'[j])] = [j \in Jobs |-> ContractStatus(state[j])]
  BY <1>1
<1>3. QED
  BY <1>2 DEF Contract!contractVars

\* A step that takes one job to a new state, in the terms of the contract.
LEMMA ContractMove ==
  ASSUME TypeOK, NEW j \in Jobs, NEW st \in JobStates, state' = [state EXCEPT ![j] = st]
  PROVE  [i \in Jobs |-> ContractStatus(state[i])]'
           = [[i \in Jobs |-> ContractStatus(state[i])] EXCEPT ![j] = ContractStatus(st)]
<1> DEFINE old == [i \in Jobs |-> ContractStatus(state[i])]
           new == [i \in Jobs |-> ContractStatus(state'[i])]
<1>1. \A i \in Jobs : state'[i] = IF i = j THEN st ELSE state[i]
  BY DEF TypeOK
<1>2. \A i \in Jobs : new[i] = IF i = j THEN ContractStatus(st) ELSE old[i]
  BY <1>1
<1> HIDE DEF old
<1>3. old = [i \in Jobs |-> old[i]]
  BY DEF old
<1>4. [old EXCEPT ![j] = ContractStatus(st)]
        = [i \in Jobs |-> IF i = j THEN ContractStatus(st) ELSE old[i]]
  BY <1>3
<1>5. new = [i \in Jobs |-> IF i = j THEN ContractStatus(st) ELSE old[i]]
  BY <1>2
<1>6. QED
  BY <1>4, <1>5 DEF old

\* The steps of a run, in the terms of the contract.
LEMMA SlotContractStep ==
  ASSUME LifecycleInv, TypeOK', NEW s \in Slots, SlotNext(s)
  PROVE  Contract!Next \/ UNCHANGED Contract!contractVars
<1>1. TypeOK
  BY DEF LifecycleInv
<1>2. ASSUME RunStep(s) PROVE UNCHANGED Contract!contractVars
  BY <1>1, <1>2, ContractStutter DEF RunStep, redisVars
<1>3. ASSUME NEW j \in Jobs, Fetch(s, j) PROVE UNCHANGED Contract!contractVars
  <2>1. \A i \in Jobs : state[i] = state'[i] \/ (state[i] = "waiting" /\ state'[i] = "active")
    BY <1>1, <1>3 DEF Fetch, TypeOK
  <2>2. QED
    BY <1>1, <1>3, <2>1, ContractStutter DEF Fetch
<1>4. CASE FinishRefused(s) \/ OnFailed(s) \/ FailedReplyLost(s)
  BY <1>1, <1>4, ContractStutter DEF FinishRefused, OnFailed, FailedReplyLost, redisVars
<1>5. CASE MoveToCompleted(s)
  <2>1. slot[s].job \in Jobs /\ state[slot[s].job] = "active"
    BY <1>5, SlotsNotTokens DEF MoveToCompleted, LifecycleInv, TypeOK, LockedIsActive
  <2>2. Contract!Succeed(slot[s].job)
    BY <1>1, <1>5, <2>1, Statuses, ContractMove DEF Contract!Succeed, MoveToCompleted, JobStates
  <2>3. QED
    BY <2>1, <2>2 DEF Contract!Next
<1>6. CASE MoveToFailed(s) /\ BullRetries(s)
  <2>1. slot[s].job \in Jobs /\ state[slot[s].job] = "active"
    BY <1>6, SlotsNotTokens DEF MoveToFailed, LifecycleInv, TypeOK, LockedIsActive
  <2>2. \A i \in Jobs : state[i] = state'[i] \/ (state[i] = "active" /\ state'[i] = "waiting")
    BY <1>1, <1>6, <2>1 DEF MoveToFailed, TypeOK
  <2>3. terminal' = terminal /\ dlq' = dlq
    BY <1>6 DEF MoveToFailed
  <2>4. QED
    BY <1>1, <2>2, <2>3, ContractStutter
<1>7. CASE MoveToFailed(s) /\ ~BullRetries(s)
  <2> DEFINE j == slot[s].job
             new == <<j, attemptsMade[j] + 1>>
  <2>1. j \in Jobs /\ state[j] = "active"
    BY <1>7, SlotsNotTokens DEF MoveToFailed, LifecycleInv, TypeOK, LockedIsActive
  <2>2. state' = [state EXCEPT ![j] = "failed"] /\ terminal' = terminal \cup {new} /\ dlq' = dlq
    BY <1>7 DEF MoveToFailed
  <2>3. new \in {j} \X Nat /\ \A id \in terminal : id[1] = j => id[2] < new[2]
    BY <1>1, <2>1 DEF TypeOK, LifecycleInv, TerminalIsPast, Ids
  <2>4. [i \in Jobs |-> ContractStatus(state[i])]'
          = [[i \in Jobs |-> ContractStatus(state[i])] EXCEPT ![j] = "failed"]
    BY <1>1, <2>1, <2>2, Statuses, ContractMove DEF JobStates
  <2>5. [i \in Jobs |-> ContractStatus(state[i])][j] = "pending"
    BY <2>1, Statuses
  <2>6. Contract!FailForGood(j)
    <3>1. \E n \in terminal' : /\ terminal' = terminal \cup {n}
                               /\ n \in {j} \X Nat
                               /\ \A id \in terminal : id[1] = j => id[2] < n[2]
      BY <2>2, <2>3
    <3>2. QED
      BY <2>2, <2>4, <2>5, <3>1 DEF Contract!FailForGood
  <2>7. QED
    BY <2>1, <2>6 DEF Contract!Next
<1>8. QED
  BY <1>1, <1>2, <1>3, <1>4, <1>5, <1>6, <1>7, RunSteps DEF SlotNext

\* What happens to a job in Redis, in the terms of the contract.
LEMMA JobContractStep ==
  ASSUME LifecycleInv, TypeOK', NEW j \in Jobs, JobNext(j)
  PROVE  Contract!Next \/ UNCHANGED Contract!contractVars
<1>1. TypeOK
  BY DEF LifecycleInv
<1>2. CASE LockExpires(j)
  BY <1>1, <1>2, ContractStutter DEF LockExpires
<1>3. CASE Stalled(j)
  <2>1. \A i \in Jobs : state[i] = state'[i] \/ (state[i] = "active" /\ state'[i] = "waiting")
    BY <1>1, <1>3 DEF Stalled, TypeOK
  <2>2. QED
    BY <1>1, <1>3, <2>1, ContractStutter DEF Stalled
<1>4. CASE OperatorRetry(j)
  <2>1. Contract!Reopen(j)
    BY <1>1, <1>4, Statuses, ContractMove DEF OperatorRetry, Contract!Reopen, JobStates
  <2>2. QED
    BY <2>1 DEF Contract!Next
<1>5. CASE Remove(j)
  <2>1. [i \in Jobs |-> ContractStatus(state[i])][j] \in {"succeeded", "failed"}
    BY <1>5, Statuses DEF Remove
  <2>2. Contract!Forget(j)
    BY <1>1, <1>5, <2>1, Statuses, ContractMove DEF Remove, Contract!Forget, JobStates
  <2>3. QED
    BY <2>2 DEF Contract!Next
<1>6. QED
  BY <1>2, <1>3, <1>4, <1>5 DEF JobNext

\* The dead-letter writes, in the terms of the contract.
LEMMA WriteContractStep ==
  ASSUME LifecycleInv, TypeOK', NEW p \in pending, WriteDeadLetter(p) \/ WriteFails(p)
  PROVE  Contract!Next \/ UNCHANGED Contract!contractVars
<1>1. p[2] \in terminal /\ TypeOK
  BY DEF LifecycleInv, RecordsAreFailures
<1>2. state' = state /\ terminal' = terminal
  BY DEF WriteDeadLetter, WriteFails, redisVars
<1>3. CASE dlq' = dlq
  BY <1>1, <1>2, <1>3, ContractStutter
<1>4. CASE dlq' # dlq
  <2>1. dlq' = dlq \cup {p[2]} /\ p[2] \notin dlq
    BY <1>4 DEF WriteDeadLetter, WriteFails
  <2>2. Contract!Record(p[2])
    BY <1>1, <1>2, <2>1 DEF Contract!Record
  <2>3. QED
    BY <1>1, <2>2 DEF Contract!Next
<1>5. QED
  BY <1>3, <1>4

\* The queue, its workers and the dead-letter path implement JobContract: a job
\* that succeeded is never run or failed again, final failures have increasing
\* ids, and only they are recorded.
THEOREM Implementation == Spec => ImplementsContract
<1>1. Init => Contract!Init
  BY Statuses DEF Init, Contract!Init
<1>2. LifecycleInv /\ [Next]_vars => [Contract!Next]_Contract!contractVars
  <2>1. CASE UNCHANGED vars
    BY <2>1 DEF vars, redisVars, Contract!contractVars
  <2>2. ASSUME LifecycleInv, Next PROVE Contract!Next \/ UNCHANGED Contract!contractVars
    <3>1. TypeOK /\ TypeOK'
      BY <2>2, TypeStep DEF LifecycleInv
    <3>2. ASSUME \/ \E h \in abandoned : AbandonedEnds(h)
                 \/ \E w \in Workers : Crash(w)
          PROVE  UNCHANGED Contract!contractVars
      BY <3>1, <3>2, ContractStutter DEF AbandonedEnds, Crash, redisVars
    <3>3. QED
      BY <2>2, <3>1, <3>2, SlotContractStep, JobContractStep, WriteContractStep DEF Next
  <2>3. QED
    BY <2>1, <2>2
<1>3. QED
  BY <1>1, <1>2, LifecycleInvariant, PTL DEF Spec, ImplementsContract, Contract!Spec

-----------------------------------------------------------------------------
(* What is counted: how often a job is started, whether the retry that     *)
(* processJob predicts is the one BullMQ decides, and that the counters do *)
(* not understate final failures.  The invariants:                         *)

\* The runs that have a job and have yet to call its handler.
Fetched(j) == {s \in Slots : slot[s].phase = "fetched" /\ slot[s].job = j}

\* The run fails its job for having stalled too often.
Condemned(s) ==
  slot[s].phase = "condemned" \/ (slot[s].phase = "failing" /\ slot[s].error = "stalled limit")

\* The run holds the lock and has counted its failure as final.
CountedFinal(j, s) ==
  /\ lock[j] = s
  /\ slot[s].phase = "failing" /\ slot[s].error # "stalled limit" /\ ~slot[s].willRetry

\* A job over the limit of stalls is fetched to be failed only.
StalledOf(j) ==
  /\ \A s \in Slots : lock[j] = s /\ Condemned(s) => deferred[j]
  /\ stalls[j] > MaxStalledCount /\ retries[j] = 0 =>
       /\ state[j] = "waiting" => deferred[j]
       /\ \A s \in Slots : lock[j] = s => Condemned(s)

StalledInv == \A j \in Jobs : StalledOf(j)

\* The starts of a job, past and to come, of the runs that have it.
Starts(j) == metrics[j].started + Cardinality(Fetched(j))

\* Every fetch but the first is paid for by a failed attempt or a stall.
Paid(j) == attemptsMade[j] + stalls[j] + IF state[j] = "active" THEN 1 ELSE 0

StartsOf(j) ==
  /\ IsFiniteSet(Fetched(j))
  /\ retries[j] = 0 =>
       /\ Starts(j) <= Attempts + MaxStalledCount
       /\ state[j] \in {"waiting", "active"} =>
            /\ attemptsMade[j] < Attempts
            /\ stalls[j] <= MaxStalledCount => Starts(j) <= Paid(j)

StartsInv == \A j \in Jobs : StartsOf(j)

\* The prediction is settled when the failure is counted.
Predicts(r) ==
  /\ r.phase = "condemned" => ~r.willRetry
  /\ r.phase = "failing" => (r.willRetry <=> r.error = "plain" /\ r.attempt < Attempts)
  /\ r.error = "named" => "named" \in HandlerErrors

PredictionInv == \A s \in Slots : Predicts(slot[s])

FinalFailures(j) == {id \in terminal : id[1] = j}

\* A final failure still to be decided has been counted: by its run, or as the stall
\* that condemned the job.
CoverOf(j) ==
  /\ IsFiniteSet(FinalFailures(j))
  /\ Cardinality(FinalFailures(j)) + metrics[j].retrying
       + (IF \E s \in Slots : CountedFinal(j, s) THEN 1 ELSE 0) + (IF deferred[j] THEN 1 ELSE 0)
       <= metrics[j].failed + stalls[j]

CoverInv == \A j \in Jobs : CoverOf(j)

CountsInv ==
  /\ LifecycleInv
  /\ StalledInv
  /\ StartsInv
  /\ PredictionInv
  /\ CoverInv

-----------------------------------------------------------------------------
(* What the steps of a run do to its slot and to its job's counters.       *)

\* The catch block of processJob.
LEMMA ThrowEffect ==
  ASSUME TypeOK, NEW s \in Slots, slot[s].phase # "idle", NEW e \in ErrorKinds, Throw(s, e)
  PROVE  /\ slot[s].job \in Jobs
         /\ slot'[s].phase = "failing" /\ slot'[s].error = e
         /\ slot'[s].job = slot[s].job /\ slot'[s].attempt = slot[s].attempt
         /\ slot'[s].willRetry <=> willRetry(s, e)
         /\ \A r \in Slots \ {s} : slot'[r] = slot[r]
         /\ \A i \in Jobs \ {slot[s].job} : metrics'[i] = metrics[i]
         /\ metrics'[slot[s].job].started = metrics[slot[s].job].started
         /\ metrics'[slot[s].job].failed = metrics[slot[s].job].failed + 1
         /\ metrics'[slot[s].job].retrying
              = metrics[slot[s].job].retrying + IF willRetry(s, e) THEN 1 ELSE 0
<1> DEFINE j == slot[s].job
           n == IF willRetry(s, e) THEN 1 ELSE 0
           b == willRetry(s, e)
<1>1. slot[s] \in SlotType /\ j \in Jobs /\ metrics[j] \in Counters /\ n \in Nat
  BY DEF TypeOK
<1>2. slot' = [slot EXCEPT ![s] = [slot[s] EXCEPT !.phase = "failing", !.error = e, !.willRetry = b]]
  BY <1>1 DEF Throw, TypeOK, SlotType
<1>3. metrics' = [metrics EXCEPT ![j] = [metrics[j] EXCEPT !.failed = @ + 1, !.retrying = @ + n]]
  BY <1>1 DEF Throw, TypeOK, Counters
<1> HIDE DEF n, b
<1>4. /\ slot'[s] = [slot[s] EXCEPT !.phase = "failing", !.error = e, !.willRetry = b]
      /\ \A r \in Slots \ {s} : slot'[r] = slot[r]
  BY <1>2 DEF TypeOK
<1>5. /\ metrics'[j] = [metrics[j] EXCEPT !.failed = @ + 1, !.retrying = @ + n]
      /\ \A i \in Jobs \ {j} : metrics'[i] = metrics[i]
  BY <1>1, <1>3 DEF TypeOK
<1>6. /\ slot'[s].phase = "failing" /\ slot'[s].error = e
      /\ slot'[s].job = slot[s].job /\ slot'[s].attempt = slot[s].attempt
      /\ slot'[s].willRetry = b
  BY <1>1, <1>4 DEF SlotType
<1>7. /\ metrics'[j].started = metrics[j].started
      /\ metrics'[j].failed = metrics[j].failed + 1
      /\ metrics'[j].retrying = metrics[j].retrying + n
  BY <1>1, <1>5 DEF Counters
<1>8. slot'[s].willRetry <=> willRetry(s, e)
  BY <1>6, Zenon DEF b
<1> QED BY <1>1, <1>4, <1>5, <1>6, <1>7, <1>8 DEF n

\* The handler is called, or returns.
LEMMA RunEffect ==
  ASSUME TypeOK, NEW s \in Slots, Start(s) \/ HandlerReturns(s)
  PROVE  /\ slot[s].job \in Jobs
         /\ slot'[s].job = slot[s].job /\ slot'[s].error = slot[s].error
         /\ slot'[s].phase \in {"running", "resolved"}
         /\ \A r \in Slots \ {s} : slot'[r] = slot[r]
         /\ \A i \in Jobs \ {slot[s].job} : metrics'[i] = metrics[i]
         /\ metrics'[slot[s].job].failed = metrics[slot[s].job].failed
         /\ metrics'[slot[s].job].retrying = metrics[slot[s].job].retrying
         /\ metrics'[slot[s].job].started
              = metrics[slot[s].job].started + IF slot[s].phase = "fetched" THEN 1 ELSE 0
<1> DEFINE j == slot[s].job
<1>1. slot[s] \in SlotType /\ j \in Jobs /\ metrics[j] \in Counters
  BY DEF TypeOK, Start, HandlerReturns
<1>2. CASE Start(s)
  <2>1. /\ slot' = [slot EXCEPT ![s] = [slot[s] EXCEPT !.phase = "running"]]
        /\ metrics' = [metrics EXCEPT ![j] = [metrics[j] EXCEPT !.started = @ + 1]]
        /\ slot[s].phase = "fetched"
    BY <1>2 DEF Start
  <2> QED BY <1>1, <2>1 DEF TypeOK, SlotType, Counters
<1>3. CASE HandlerReturns(s)
  <2>1. /\ slot' = [slot EXCEPT ![s] = [slot[s] EXCEPT !.phase = "resolved"]]
        /\ metrics' = [metrics EXCEPT ![j] = [metrics[j] EXCEPT !.completed = @ + 1]]
        /\ slot[s].phase = "running"
    BY <1>3 DEF HandlerReturns
  <2> QED BY <1>1, <2>1 DEF TypeOK, SlotType, Counters
<1> QED BY <1>2, <1>3

\* A run is given a job, is failed unrun, or has its failure land.
LEMMA SlotEffect ==
  ASSUME TypeOK, NEW s \in Slots
  PROVE  /\ \A j \in Jobs : Fetch(s, j) =>
              /\ slot'[s].phase = IF deferred[j] THEN "condemned" ELSE "fetched"
              /\ slot'[s].job = j /\ slot'[s].error = "plain" /\ ~slot'[s].willRetry
              /\ \A r \in Slots \ {s} : slot'[r] = slot[r]
         /\ FailDeferred(s) =>
              /\ slot'[s].phase = "failing" /\ slot'[s].error = "stalled limit"
              /\ slot'[s].job = slot[s].job
              /\ slot'[s].willRetry = slot[s].willRetry
              /\ \A r \in Slots \ {s} : slot'[r] = slot[r]
         /\ MoveToFailed(s) =>
              /\ slot'[s].phase = "emitting" /\ slot'[s].error = slot[s].error
              /\ slot'[s].job = slot[s].job
              /\ \A r \in Slots \ {s} : slot'[r] = slot[r]
<1>1. slot[s] \in SlotType /\ slot \in [Slots -> SlotType]
  BY DEF TypeOK
<1>2. ASSUME NEW j \in Jobs, Fetch(s, j)
      PROVE  /\ slot'[s].phase = IF deferred[j] THEN "condemned" ELSE "fetched"
             /\ slot'[s].job = j /\ slot'[s].error = "plain" /\ ~slot'[s].willRetry
             /\ \A r \in Slots \ {s} : slot'[r] = slot[r]
  BY <1>1, <1>2 DEF Fetch, IdleSlot
<1>3. FailDeferred(s) =>
              /\ slot'[s].phase = "failing" /\ slot'[s].error = "stalled limit"
              /\ slot'[s].job = slot[s].job
              /\ slot'[s].willRetry = slot[s].willRetry
              /\ \A r \in Slots \ {s} : slot'[r] = slot[r]
  <2>1. FailDeferred(s) =>
          slot' = [slot EXCEPT ![s] = [slot[s] EXCEPT !.phase = "failing", !.error = "stalled limit"]]
    BY DEF FailDeferred
  <2> QED BY <1>1, <2>1 DEF SlotType
<1>4. MoveToFailed(s) =>
              /\ slot'[s].phase = "emitting" /\ slot'[s].error = slot[s].error
              /\ slot'[s].job = slot[s].job
              /\ \A r \in Slots \ {s} : slot'[r] = slot[r]
  BY <1>1 DEF MoveToFailed, SlotType
<1> QED BY <1>2, <1>3, <1>4

\* The steps of a run that throw, with what they throw.
LEMMA Throwing ==
  ASSUME NEW s \in Slots,
         \/ Reject(s) \/ (\E e \in HandlerErrors : HandlerThrows(s, e)) \/ Timeout(s) \/ Cancel(s)
  PROVE  /\ \E e \in ErrorKinds :
              /\ e # "stalled limit" /\ (e = "named" => "named" \in HandlerErrors)
              /\ Throw(s, e)
         /\ slot[s].phase \in {"fetched", "running"}
         /\ UNCHANGED <<redisVars, dlq, pending, terminal, lost, faultVars>>
BY LifecycleAssumption DEF Reject, HandlerThrows, Timeout, Cancel, Abort, ErrorKinds

\* The steps of a run after which its slot is idle again.
Idles(s) ==
  /\ slot' = [slot EXCEPT ![s] = IdleSlot]
  /\ metrics' = metrics

\* Those are all the steps of a run.
LEMMA SlotSteps ==
  ASSUME NEW s \in Slots, SlotNext(s)
  PROVE  \/ \E j \in Jobs : Fetch(s, j)
         \/ FailDeferred(s)
         \/ Reject(s) \/ (\E e \in HandlerErrors : HandlerThrows(s, e)) \/ Timeout(s) \/ Cancel(s)
         \/ Start(s) \/ HandlerReturns(s)
         \/ Idles(s) /\ (FinishRefused(s) \/ MoveToCompleted(s) \/ OnFailed(s) \/ FailedReplyLost(s))
         \/ MoveToFailed(s)
BY DEF SlotNext, Idles, FinishRefused, MoveToCompleted, OnFailed, FailedReplyLost

-----------------------------------------------------------------------------
(* Counts: the prediction.                                                 *)

\* The prediction of an idle slot, and of one whose failure has landed.
LEMMA NothingPredicted == Predicts(IdleSlot)
BY DEF Predicts, IdleSlot

\* Whatever a step does, what the runs predicted stays right.
LEMMA PredictionStep ==
  ASSUME TypeOK, PredictionInv, [Next]_vars
  PROVE  PredictionInv'
<1>1. ASSUME NEW s \in Slots, SlotNext(s) PROVE PredictionInv'
  <2> SUFFICES (\A r \in Slots \ {s} : slot'[r] = slot[r]) /\ Predicts(slot'[s])
    BY DEF PredictionInv
  <2>0. Predicts(slot[s])
    BY DEF PredictionInv
  <2>1. ASSUME NEW j \in Jobs, Fetch(s, j)
        PROVE  (\A r \in Slots \ {s} : slot'[r] = slot[r]) /\ Predicts(slot'[s])
    BY <2>1, SlotEffect DEF Predicts
  <2>2. CASE FailDeferred(s)
    <3>1. /\ slot'[s].phase = "failing" /\ slot'[s].error = "stalled limit"
          /\ slot'[s].willRetry = slot[s].willRetry
          /\ \A r \in Slots \ {s} : slot'[r] = slot[r]
      BY <2>2, SlotEffect
    <3>2. ~slot[s].willRetry
      BY <2>0, <2>2 DEF FailDeferred, Predicts
    <3>3. ~slot'[s].willRetry
      BY <3>1, <3>2, Zenon
    <3> QED BY <3>1, <3>3 DEF Predicts
  <2>3. CASE Reject(s) \/ (\E e \in HandlerErrors : HandlerThrows(s, e)) \/ Timeout(s) \/ Cancel(s)
    <3>1. PICK e \in ErrorKinds :
            e # "stalled limit" /\ (e = "named" => "named" \in HandlerErrors) /\ Throw(s, e)
      BY <2>3, Throwing
    <3>2. slot[s].phase # "idle"
      BY <2>3, Throwing
    <3>3. /\ slot'[s].phase = "failing" /\ slot'[s].error = e /\ slot'[s].attempt = slot[s].attempt
          /\ slot'[s].willRetry <=> willRetry(s, e)
          /\ \A r \in Slots \ {s} : slot'[r] = slot[r]
      BY <3>1, <3>2, ThrowEffect
    <3>4. slot'[s].willRetry <=> e = "plain" /\ slot'[s].attempt < Attempts
      BY <3>3 DEF willRetry, isNonRetryableError
    <3> QED BY <3>1, <3>3, <3>4 DEF Predicts
  <2>4. CASE Start(s) \/ HandlerReturns(s)
    BY <2>0, <2>4, RunEffect DEF Predicts
  <2>5. CASE Idles(s)
    BY <2>5, NothingPredicted DEF Idles, TypeOK
  <2>6. CASE MoveToFailed(s)
    BY <2>0, <2>6, SlotEffect DEF Predicts
  <2> QED BY <1>1, <2>1, <2>2, <2>3, <2>4, <2>5, <2>6, SlotSteps
<1>2. ASSUME NEW w \in Workers, Crash(w) PROVE PredictionInv'
  BY <1>2, NothingPredicted DEF Crash, PredictionInv
<1>3. CASE slot' = slot
  BY <1>3 DEF PredictionInv
<1> QED BY <1>1, <1>2, <1>3 DEF Next, vars, JobNext, LockExpires, Stalled, OperatorRetry, Remove,
           AbandonedEnds, WriteDeadLetter, WriteFails

-----------------------------------------------------------------------------
(* Counts: what keeps the other invariants of a job.                       *)

\* The counts are numbers.
LEMMA CountTypes ==
  ASSUME TypeOK
  PROVE  /\ \A j \in Jobs : /\ metrics[j].started \in Nat /\ metrics[j].failed \in Nat
                            /\ metrics[j].retrying \in Nat
                            /\ attemptsMade[j] \in Nat /\ stalls[j] \in Nat /\ retries[j] \in Nat
                            /\ deferred[j] \in BOOLEAN
         /\ Attempts \in Nat /\ MaxStalledCount \in Nat
<1>1. \A j \in Jobs : /\ metrics[j].started \in Nat /\ metrics[j].failed \in Nat
                      /\ metrics[j].retrying \in Nat
  BY DEF TypeOK, Counters
<1>2. \A j \in Jobs : /\ attemptsMade[j] \in Nat /\ stalls[j] \in Nat /\ retries[j] \in Nat
                      /\ deferred[j] \in BOOLEAN
  BY DEF TypeOK
<1> QED BY <1>1, <1>2, LifecycleAssumption

\* StalledOf is kept when the job's holder, if it stays, is condemned as before.
LEMMA StalledFrame ==
  ASSUME NEW j \in Jobs, StalledOf(j),
         \A s \in Slots : lock'[j] = s => lock[j] = s /\ (Condemned(s)' <=> Condemned(s)),
         stalls'[j] = stalls[j], retries'[j] = 0 => retries[j] = 0,
         deferred'[j] = deferred[j], state'[j] = "waiting" /\ retries'[j] = 0 => state[j] = "waiting"
  PROVE  StalledOf(j)'
BY DEF StalledOf

\* Starts does not grow when fetched runs go on, one that calls the handler counting it.
LEMMA StartsKept ==
  ASSUME TypeOK, TypeOK', NEW j \in Jobs, IsFiniteSet(Fetched(j)),
         Fetched(j)' \subseteq Fetched(j),
         \/ metrics'[j].started = metrics[j].started
         \/ /\ metrics'[j].started = metrics[j].started + 1
            /\ \E s \in Fetched(j) : s \notin Fetched(j)'
  PROVE  /\ IsFiniteSet(Fetched(j)')
         /\ Starts(j) \in Nat /\ Starts(j)' \in Nat /\ Starts(j)' <= Starts(j)
<1> DEFINE A == Fetched(j)
           B == Fetched(j)'
<1>1. IsFiniteSet(A) /\ B \subseteq A
  OBVIOUS
<1> HIDE DEF A, B
<1>2. IsFiniteSet(B) /\ Cardinality(B) <= Cardinality(A) /\ (Cardinality(A) = Cardinality(B) => A = B)
  BY <1>1, FS_Subset
<1>3. Cardinality(A) \in Nat /\ Cardinality(B) \in Nat
  BY <1>1, <1>2, FS_CardinalityType
<1>4. metrics[j].started \in Nat /\ metrics'[j].started \in Nat
  BY DEF TypeOK, Counters
<1>5. Starts(j) = metrics[j].started + Cardinality(A) /\ Starts(j)' = metrics'[j].started + Cardinality(B)
  BY DEF Starts, A, B
<1>6. CASE metrics'[j].started = metrics[j].started
  BY <1>2, <1>3, <1>4, <1>5, <1>6 DEF B
<1>7. CASE metrics'[j].started = metrics[j].started + 1 /\ \E s \in A : s \notin B
  <2>1. Cardinality(B) < Cardinality(A)
    BY <1>2, <1>3, <1>7
  <2> QED BY <2>1, <1>2, <1>3, <1>4, <1>5, <1>7 DEF B
<1> QED BY <1>6, <1>7 DEF A, B

\* StartsOf is kept when no start is added that was not paid for.
LEMMA StartsFrame ==
  ASSUME NEW j \in Jobs, StartsOf(j), IsFiniteSet(Fetched(j)'),
         Starts(j) \in Nat, Starts(j)' \in Nat, Starts(j)' <= Starts(j),
         TypeOK, TypeOK',
         retries'[j] = 0 =>
           /\ retries[j] = 0
           /\ state'[j] \in {"waiting", "active"} =>
                /\ state[j] \in {"waiting", "active"}
                /\ attemptsMade'[j] < Attempts
                /\ stalls'[j] <= MaxStalledCount => stalls[j] <= MaxStalledCount /\ Paid(j)' >= Paid(j)
  PROVE  StartsOf(j)'
<1>1. /\ attemptsMade[j] \in Nat /\ stalls[j] \in Nat /\ attemptsMade'[j] \in Nat /\ stalls'[j] \in Nat
      /\ Attempts \in Nat /\ MaxStalledCount \in Nat
  BY CountTypes DEF TypeOK
<1>2. Paid(j) \in Nat /\ Paid(j)' \in Nat
  BY <1>1 DEF Paid
<1> QED BY <1>1, <1>2 DEF StartsOf

\* What the job's counters have yet to cover.
Owed(j) == (IF \E s \in Slots : CountedFinal(j, s) THEN 1 ELSE 0) + (IF deferred[j] THEN 1 ELSE 0)

\* CoverOf is kept when the counters grow as much as what they have to cover.
LEMMA CoverFrame ==
  ASSUME NEW j \in Jobs, CoverOf(j), terminal' = terminal, TypeOK, TypeOK',
         metrics'[j].retrying + Owed(j)' + metrics[j].failed + stalls[j]
           <= metrics[j].retrying + Owed(j) + metrics'[j].failed + stalls'[j]
  PROVE  CoverOf(j)'
<1> DEFINE n == Cardinality(FinalFailures(j))
<1>1. FinalFailures(j)' = FinalFailures(j) /\ n \in Nat
  BY FS_CardinalityType DEF FinalFailures, CoverOf
<1>2. /\ metrics[j].failed \in Nat /\ metrics[j].retrying \in Nat /\ stalls[j] \in Nat
      /\ metrics'[j].failed \in Nat /\ metrics'[j].retrying \in Nat /\ stalls'[j] \in Nat
  BY CountTypes DEF TypeOK, Counters
<1>3. Owed(j) \in Nat /\ Owed(j)' \in Nat
  BY DEF Owed
<1>4. n + metrics[j].retrying + Owed(j) <= metrics[j].failed + stalls[j]
  BY <1>1, <1>2 DEF CoverOf, Owed
<1>5. n + metrics'[j].retrying + Owed(j)' <= metrics'[j].failed + stalls'[j]
  <2> HIDE DEF n
  <2> QED BY <1>1, <1>2, <1>3, <1>4
<1> QED BY <1>1, <1>2, <1>5 DEF CoverOf, Owed

\* Least work: a job whose holder, records and counters stay as they are.
LEMMA OwedKept ==
  ASSUME NEW j \in Jobs, deferred'[j] = deferred[j],
         \A s \in Slots : CountedFinal(j, s)' => CountedFinal(j, s)
  PROVE  Owed(j) \in Nat /\ Owed(j)' \in Nat /\ Owed(j)' <= Owed(j)
BY DEF Owed

-----------------------------------------------------------------------------
(* Counts: the steps.                                                      *)

\* The invariants of one job.
Counted(j) == StalledOf(j) /\ StartsOf(j) /\ CoverOf(j)

\* A step that leaves Redis and the records alone, and the other slots.
LEMMA OtherJobs ==
  ASSUME CountsInv, TypeOK', NEW s \in Slots, NEW j \in Jobs,
         \A r \in Slots \ {s} : slot'[r] = slot[r],
         slot[s].job # j, slot'[s].job # j, lock[j] # s, lock'[j] = lock[j],
         metrics'[j] = metrics[j], state'[j] = state[j], attemptsMade'[j] = attemptsMade[j],
         stalls'[j] = stalls[j], retries'[j] = retries[j], deferred'[j] = deferred[j],
         FinalFailures(j)' = FinalFailures(j)
  PROVE  Counted(j)'
<1>1. StalledOf(j) /\ StartsOf(j) /\ CoverOf(j)
  BY DEF CountsInv, StalledInv, StartsInv, CoverInv
<1>2. \A r \in Slots : lock'[j] = r => lock[j] = r /\ slot'[r] = slot[r]
  OBVIOUS
<1>3. StalledOf(j)'
  BY <1>1, <1>2 DEF StalledOf, Condemned
<1>4. Fetched(j)' = Fetched(j)
  BY DEF Fetched
<1>5. StartsOf(j)'
  BY <1>1, <1>4 DEF StartsOf, Starts, Paid
<1>6. (\E r \in Slots : CountedFinal(j, r)') <=> (\E r \in Slots : CountedFinal(j, r))
  BY <1>2 DEF CountedFinal
<1>7. CoverOf(j)'
  BY <1>1, <1>6 DEF CoverOf
<1> QED BY <1>3, <1>5, <1>7 DEF Counted

\* A slot that is idle, or whose failure has landed, holds no lock.
LEMMA NoLockHeld ==
  ASSUME LifecycleInv, NEW s \in Slots, slot[s].phase \in {"idle", "emitting"}, NEW j \in Jobs
  PROVE  lock[j] # s
BY DEF LifecycleInv, HoldersRun

\* The catch block counts a failure, and the retry it predicts if it predicts one.
LEMMA ThrowCounts ==
  ASSUME CountsInv, TypeOK', NEW s \in Slots, NEW j \in Jobs,
         \/ Reject(s) \/ (\E e \in HandlerErrors : HandlerThrows(s, e)) \/ Timeout(s) \/ Cancel(s)
  PROVE  Counted(j)'
<1>0. TypeOK
  BY DEF CountsInv, LifecycleInv
<1>1. PICK e \in ErrorKinds : e # "stalled limit" /\ Throw(s, e)
  BY Throwing
<1>2. /\ slot[s].phase \in {"fetched", "running"}
      /\ UNCHANGED <<redisVars, dlq, pending, terminal, lost, faultVars>>
  BY Throwing
<1>3. UNCHANGED <<state, attemptsMade, stalls, deferred, lock, terminal, retries>>
  BY <1>2 DEF redisVars, faultVars
<1>4. /\ slot[s].job \in Jobs
      /\ slot'[s].phase = "failing" /\ slot'[s].error = e /\ slot'[s].job = slot[s].job
      /\ slot'[s].willRetry <=> willRetry(s, e)
      /\ \A r \in Slots \ {s} : slot'[r] = slot[r]
      /\ \A i \in Jobs \ {slot[s].job} : metrics'[i] = metrics[i]
      /\ metrics'[slot[s].job].started = metrics[slot[s].job].started
      /\ metrics'[slot[s].job].failed = metrics[slot[s].job].failed + 1
      /\ metrics'[slot[s].job].retrying
           = metrics[slot[s].job].retrying + IF willRetry(s, e) THEN 1 ELSE 0
  BY <1>0, <1>1, <1>2, ThrowEffect
<1>5. CASE slot[s].job # j
  <2>1. lock[j] # s
    BY <1>5 DEF CountsInv, LifecycleInv, HoldersRun
  <2>2. FinalFailures(j)' = FinalFailures(j)
    BY <1>3 DEF FinalFailures
  <2> QED BY <1>3, <1>4, <1>5, <2>1, <2>2, OtherJobs
<1>6. CASE slot[s].job = j
  <2>1. StalledOf(j) /\ StartsOf(j) /\ CoverOf(j)
    BY DEF CountsInv, StalledInv, StartsInv, CoverInv
  <2>2. ~Condemned(s) /\ ~Condemned(s)'
    BY <1>1, <1>2, <1>4 DEF Condemned
  <2>3. \A r \in Slots : Condemned(r)' <=> Condemned(r)
    <3>1. \A r \in Slots \ {s} : Condemned(r)' <=> Condemned(r)
      BY <1>4 DEF Condemned
    <3> QED BY <2>2, <3>1
  <2>4. StalledOf(j)'
    BY <1>3, <2>1, <2>3, StalledFrame
  <2>5. Fetched(j)' \subseteq Fetched(j)
    BY <1>4 DEF Fetched
  <2>6. StartsOf(j)'
    <3>1. /\ IsFiniteSet(Fetched(j)')
          /\ Starts(j) \in Nat /\ Starts(j)' \in Nat /\ Starts(j)' <= Starts(j)
      BY <1>0, <1>4, <1>6, <2>1, <2>5, StartsKept DEF StartsOf
    <3>2. Paid(j)' = Paid(j) /\ Paid(j) \in Nat
      BY <1>0, <1>3, CountTypes DEF Paid
    <3>3. state[j] \in {"waiting", "active"} /\ retries[j] = 0 => attemptsMade[j] < Attempts
      BY <2>1 DEF StartsOf
    <3> QED BY <1>0, <1>3, <2>1, <3>1, <3>2, <3>3, StartsFrame
  <2>7. CoverOf(j)'
    <3> DEFINE n == IF willRetry(s, e) THEN 1 ELSE 0
    <3>1. Owed(j) \in Nat /\ Owed(j)' \in Nat /\ Owed(j)' + n <= Owed(j) + 1
      <4>1. CASE \E r \in Slots : CountedFinal(j, r)
        <5>1. PICK r \in Slots : CountedFinal(j, r)
          BY <4>1
        <5>2. r # s
          BY <5>1, <1>2 DEF CountedFinal
        <5>3. ~CountedFinal(j, s)' /\ \A q \in Slots : CountedFinal(j, q)' => q = r
          BY <5>1, <5>2, <1>3 DEF CountedFinal
        <5> QED BY <4>1, <1>3 DEF Owed
      <4>2. CASE ~\E r \in Slots : CountedFinal(j, r)
        <5>1. \A q \in Slots : CountedFinal(j, q)' => q = s /\ ~willRetry(s, e)
          <6>1. \A q \in Slots \ {s} : CountedFinal(j, q)' => CountedFinal(j, q)
            BY <1>3, <1>4 DEF CountedFinal
          <6>2. CountedFinal(j, s)' => ~willRetry(s, e)
            BY <1>4 DEF CountedFinal
          <6> QED BY <4>2, <6>1, <6>2
        <5> QED BY <4>2, <5>1, <1>3 DEF Owed
      <4> QED BY <4>1, <4>2
    <3>2. n \in Nat /\ metrics'[j].retrying = metrics[j].retrying + n
          /\ metrics'[j].failed = metrics[j].failed + 1 /\ stalls'[j] = stalls[j]
      BY <1>3, <1>4, <1>6
    <3>3. metrics[j].retrying \in Nat /\ metrics[j].failed \in Nat /\ stalls[j] \in Nat
      BY <1>0, CountTypes
    <3> HIDE DEF n
    <3>4. metrics'[j].retrying + Owed(j)' + metrics[j].failed + stalls[j]
           <= metrics[j].retrying + Owed(j) + metrics'[j].failed + stalls'[j]
      BY <3>1, <3>2, <3>3
    <3> QED BY <1>0, <1>3, <2>1, <3>4, CoverFrame
  <2> QED BY <2>4, <2>6, <2>7 DEF Counted
<1> QED BY <1>5, <1>6

\* The handler is called, or returns: a start moves from the runs to come to those past.
LEMMA RunCounts ==
  ASSUME CountsInv, TypeOK', NEW s \in Slots, NEW j \in Jobs, Start(s) \/ HandlerReturns(s)
  PROVE  Counted(j)'
<1>0. TypeOK
  BY DEF CountsInv, LifecycleInv
<1>1. /\ slot[s].job \in Jobs
      /\ slot'[s].job = slot[s].job /\ slot'[s].error = slot[s].error
      /\ slot'[s].phase \in {"running", "resolved"}
      /\ \A r \in Slots \ {s} : slot'[r] = slot[r]
      /\ \A i \in Jobs \ {slot[s].job} : metrics'[i] = metrics[i]
      /\ metrics'[slot[s].job].failed = metrics[slot[s].job].failed
      /\ metrics'[slot[s].job].retrying = metrics[slot[s].job].retrying
      /\ metrics'[slot[s].job].started
           = metrics[slot[s].job].started + IF slot[s].phase = "fetched" THEN 1 ELSE 0
  BY <1>0, RunEffect
<1>2. /\ UNCHANGED <<state, attemptsMade, stalls, deferred, lock, terminal, retries>>
      /\ slot[s].phase \in {"fetched", "running"}
  BY DEF Start, HandlerReturns, redisVars, faultVars
<1>3. CASE slot[s].job # j
  <2>1. lock[j] # s
    BY <1>3 DEF CountsInv, LifecycleInv, HoldersRun
  <2>2. FinalFailures(j)' = FinalFailures(j)
    BY <1>2 DEF FinalFailures
  <2> QED BY <1>1, <1>2, <1>3, <2>1, <2>2, OtherJobs
<1>4. CASE slot[s].job = j
  <2>1. StalledOf(j) /\ StartsOf(j) /\ CoverOf(j)
    BY DEF CountsInv, StalledInv, StartsInv, CoverInv
  <2>2. \A r \in Slots : Condemned(r)' <=> Condemned(r)
    <3>1. ~Condemned(s) /\ ~Condemned(s)'
      BY <1>1, <1>2 DEF Condemned
    <3>2. \A r \in Slots \ {s} : Condemned(r)' <=> Condemned(r)
      BY <1>1 DEF Condemned
    <3> QED BY <3>1, <3>2
  <2>3. StalledOf(j)'
    BY <1>2, <2>1, <2>2, StalledFrame
  <2>4. Fetched(j)' \subseteq Fetched(j) /\ s \notin Fetched(j)'
    BY <1>1 DEF Fetched
  <2>5. slot[s].phase = "fetched" => s \in Fetched(j)
    BY <1>4 DEF Fetched
  <2>6. metrics[j].started \in Nat
    BY <1>0, CountTypes
  <2>7. \/ metrics'[j].started = metrics[j].started
        \/ /\ metrics'[j].started = metrics[j].started + 1
           /\ \E r \in Fetched(j) : r \notin Fetched(j)'
    BY <1>1, <1>4, <2>4, <2>5, <2>6
  <2>8. StartsOf(j)'
    <3>1. /\ IsFiniteSet(Fetched(j)')
          /\ Starts(j) \in Nat /\ Starts(j)' \in Nat /\ Starts(j)' <= Starts(j)
      BY <1>0, <2>1, <2>4, <2>7, StartsKept DEF StartsOf
    <3>2. Paid(j)' = Paid(j) /\ Paid(j) \in Nat
      BY <1>0, <1>2, CountTypes DEF Paid
    <3>3. state[j] \in {"waiting", "active"} /\ retries[j] = 0 => attemptsMade[j] < Attempts
      BY <2>1 DEF StartsOf
    <3> QED BY <1>0, <1>2, <2>1, <3>1, <3>2, <3>3, StartsFrame
  <2>9. CoverOf(j)'
    <3>1. \A r \in Slots : CountedFinal(j, r)' => CountedFinal(j, r)
      BY <1>1, <1>2 DEF CountedFinal
    <3>2. Owed(j) \in Nat /\ Owed(j)' \in Nat /\ Owed(j)' <= Owed(j)
      BY <3>1, <1>2, OwedKept
    <3>3. /\ metrics'[j].failed = metrics[j].failed /\ metrics'[j].retrying = metrics[j].retrying
          /\ stalls'[j] = stalls[j]
          /\ metrics[j].retrying \in Nat /\ metrics[j].failed \in Nat /\ stalls[j] \in Nat
      BY <1>0, <1>1, <1>2, <1>4, CountTypes
    <3>4. metrics'[j].retrying + Owed(j)' + metrics[j].failed + stalls[j]
           <= metrics[j].retrying + Owed(j) + metrics'[j].failed + stalls'[j]
      BY <3>2, <3>3
    <3> QED BY <1>0, <1>2, <2>1, <3>4, CoverFrame
  <2> QED BY <2>3, <2>8, <2>9 DEF Counted
<1> QED BY <1>3, <1>4

\* A fetch is paid for: the job is waiting, and over the limit the run is condemned.
LEMMA FetchCounts ==
  ASSUME CountsInv, TypeOK', NEW s \in Slots, NEW j \in Jobs, NEW i \in Jobs, Fetch(s, i)
  PROVE  Counted(j)'
<1>0. TypeOK /\ LifecycleInv
  BY DEF CountsInv, LifecycleInv
<1>1. /\ slot'[s].phase = IF deferred[i] THEN "condemned" ELSE "fetched"
      /\ slot'[s].job = i
      /\ \A r \in Slots \ {s} : slot'[r] = slot[r]
  BY <1>0, SlotEffect
<1>2. /\ UNCHANGED <<attemptsMade, stalls, deferred, terminal, retries, metrics>>
      /\ slot[s].phase = "idle" /\ state[i] = "waiting"
      /\ state' = [state EXCEPT ![i] = "active"] /\ lock' = [lock EXCEPT ![i] = s]
  BY DEF Fetch, faultVars
<1>3. lock[j] # s
  BY <1>0, <1>2, NoLockHeld
<1>i. StalledOf(j) /\ StartsOf(j) /\ CoverOf(j)
  BY DEF CountsInv, StalledInv, StartsInv, CoverInv
<1>4. CASE i # j
  <2>1. lock'[j] = lock[j] /\ state'[j] = state[j]
    BY <1>0, <1>2, <1>4 DEF TypeOK
  <2>2. \A r \in Slots : lock'[j] = r => lock[j] = r /\ slot'[r] = slot[r]
    BY <1>1, <1>3, <2>1
  <2>3. StalledOf(j)'
    BY <1>2, <1>i, <2>1, <2>2 DEF StalledOf, Condemned
  <2>4. Fetched(j)' = Fetched(j)
    BY <1>1, <1>2, <1>4 DEF Fetched
  <2>5. StartsOf(j)'
    BY <1>2, <1>i, <2>1, <2>4 DEF StartsOf, Starts, Paid
  <2>6. (\E r \in Slots : CountedFinal(j, r)') <=> (\E r \in Slots : CountedFinal(j, r))
    BY <2>1, <2>2 DEF CountedFinal
  <2>7. FinalFailures(j)' = FinalFailures(j)
    BY <1>2 DEF FinalFailures
  <2>8. CoverOf(j)'
    BY <1>2, <1>i, <2>6, <2>7 DEF CoverOf
  <2> QED BY <2>3, <2>5, <2>8 DEF Counted
<1>5. CASE i = j
  <2>1. lock'[j] = s /\ state'[j] = "active"
    BY <1>0, <1>2, <1>5 DEF TypeOK
  <2>2. Condemned(s)' <=> deferred[j]
    BY <1>1, <1>5 DEF Condemned
  <2>3. StalledOf(j)'
    BY <1>2, <1>5, <1>i, <2>1, <2>2 DEF StalledOf
  <2>4. StartsOf(j)'
    <3> DEFINE A == Fetched(j)
               B == Fetched(j)'
    <3>1. IsFiniteSet(A) /\ Cardinality(A) \in Nat
      BY <1>i, FS_CardinalityType DEF StartsOf
    <3>2. /\ attemptsMade[j] \in Nat /\ stalls[j] \in Nat /\ retries[j] \in Nat
          /\ metrics[j].started \in Nat /\ Attempts \in Nat /\ MaxStalledCount \in Nat
      BY <1>0, CountTypes
    <3>3. CASE deferred[j]
      <4>1. B = A
        BY <1>1, <1>2, <1>5, <3>3 DEF Fetched
      <4>2. Starts(j)' = Starts(j) /\ Starts(j) \in Nat
        BY <4>1, <3>1, <3>2, <1>2 DEF Starts
      <4>3. Paid(j)' >= Paid(j)
        BY <1>2, <1>5, <2>1, <3>2 DEF Paid
      <4> QED BY <4>1, <4>2, <4>3, <1>0, <1>2, <1>5, <1>i, <2>1, <3>1, StartsFrame DEF StartsOf
    <3>4. CASE ~deferred[j]
      <4>1. B = A \cup {s} /\ s \notin A
        BY <1>1, <1>2, <1>5, <3>4 DEF Fetched
      <4> HIDE DEF A, B
      <4>2. IsFiniteSet(B) /\ Cardinality(B) = Cardinality(A) + 1
        BY <3>1, <4>1, FS_AddElement
      <4>3. Starts(j) = metrics[j].started + Cardinality(A)
            /\ Starts(j)' = metrics[j].started + Cardinality(B)
        BY <1>2 DEF Starts, A, B
      <4>4. Paid(j)' = Paid(j) + 1 /\ Paid(j) = attemptsMade[j] + stalls[j]
        BY <1>2, <1>5, <2>1, <3>2 DEF Paid
      <4>5. retries[j] = 0 => attemptsMade[j] < Attempts /\ stalls[j] <= MaxStalledCount
                              /\ Starts(j) <= Paid(j)
        BY <1>2, <1>5, <1>i, <3>2, <3>4 DEF StalledOf, StartsOf
      <4>6. retries[j] = 0 => Starts(j)' <= Paid(j)' /\ Starts(j)' <= Attempts + MaxStalledCount
        BY <3>1, <3>2, <4>2, <4>3, <4>4, <4>5
      <4> QED BY <4>2, <4>5, <4>6, <1>2 DEF StartsOf, B
    <3> QED BY <3>3, <3>4
  <2>5. CoverOf(j)'
    <3>1. \A r \in Slots : ~CountedFinal(j, r)'
      BY <1>1, <2>1 DEF CountedFinal
    <3>2. Owed(j) \in Nat /\ Owed(j)' \in Nat /\ Owed(j)' <= Owed(j)
      BY <3>1, <1>2, OwedKept
    <3>3. metrics[j].retrying \in Nat /\ metrics[j].failed \in Nat /\ stalls[j] \in Nat
      BY <1>0, CountTypes
    <3>4. metrics'[j].retrying + Owed(j)' + metrics[j].failed + stalls[j]
           <= metrics[j].retrying + Owed(j) + metrics'[j].failed + stalls'[j]
      BY <3>2, <3>3, <1>2
    <3> QED BY <1>0, <1>2, <1>i, <3>4, CoverFrame
  <2> QED BY <2>3, <2>4, <2>5 DEF Counted
<1> QED BY <1>4, <1>5

\* A job over the limit is failed unrun: its stall counts it.
LEMMA CondemnCounts ==
  ASSUME CountsInv, TypeOK', NEW s \in Slots, NEW j \in Jobs, FailDeferred(s)
  PROVE  Counted(j)'
<1>0. TypeOK /\ LifecycleInv
  BY DEF CountsInv, LifecycleInv
<1>1. /\ slot'[s].phase = "failing" /\ slot'[s].error = "stalled limit" /\ slot'[s].job = slot[s].job
      /\ \A r \in Slots \ {s} : slot'[r] = slot[r]
  BY <1>0, SlotEffect
<1>2. /\ UNCHANGED <<state, attemptsMade, stalls, deferred, lock, terminal, retries, metrics>>
      /\ slot[s].phase = "condemned"
  BY DEF FailDeferred, redisVars, faultVars
<1>i. StalledOf(j) /\ StartsOf(j) /\ CoverOf(j)
  BY DEF CountsInv, StalledInv, StartsInv, CoverInv
<1>3. \A r \in Slots : Condemned(r)' <=> Condemned(r)
  BY <1>1, <1>2 DEF Condemned
<1>4. StalledOf(j)'
  BY <1>2, <1>3, <1>i, StalledFrame
<1>5. Fetched(j)' = Fetched(j)
  BY <1>1, <1>2 DEF Fetched
<1>6. StartsOf(j)'
  BY <1>2, <1>5, <1>i DEF StartsOf, Starts, Paid
<1>7. (\E r \in Slots : CountedFinal(j, r)') <=> (\E r \in Slots : CountedFinal(j, r))
  <2>1. \A r \in Slots : CountedFinal(j, r)' <=> CountedFinal(j, r)
    BY <1>1, <1>2 DEF CountedFinal
  <2> QED BY <2>1
<1>8. FinalFailures(j)' = FinalFailures(j)
  BY <1>2 DEF FinalFailures
<1>9. CoverOf(j)'
  BY <1>2, <1>7, <1>8, <1>i DEF CoverOf
<1> QED BY <1>4, <1>6, <1>9 DEF Counted

\* A failure lands: it is retried within the attempts, or final and already covered.
LEMMA MoveToFailedCounts ==
  ASSUME CountsInv, TypeOK', NEW s \in Slots, NEW j \in Jobs, MoveToFailed(s)
  PROVE  Counted(j)'
<1>0. TypeOK /\ LifecycleInv
  BY DEF CountsInv, LifecycleInv
<1>i. StalledOf(j) /\ StartsOf(j) /\ CoverOf(j)
  BY DEF CountsInv, StalledInv, StartsInv, CoverInv
<1>1. /\ slot'[s].phase = "emitting" /\ slot'[s].error = slot[s].error /\ slot'[s].job = slot[s].job
      /\ \A r \in Slots \ {s} : slot'[r] = slot[r]
  BY <1>0, SlotEffect
<1>2. /\ UNCHANGED <<stalls, metrics, retries>>
      /\ slot[s].phase = "failing" /\ slot[s].job \in Jobs /\ lock[slot[s].job] = s
  BY <1>0 DEF MoveToFailed, faultVars, TypeOK
<1>3. CASE slot[s].job # j
  <2>1. /\ lock'[j] = lock[j] /\ state'[j] = state[j]
        /\ attemptsMade'[j] = attemptsMade[j] /\ deferred'[j] = deferred[j]
    BY <1>0, <1>2, <1>3 DEF MoveToFailed, TypeOK
  <2>2. lock[j] # s
    BY <1>0, <1>3 DEF LifecycleInv, HoldersRun
  <2>3. FinalFailures(j)' = FinalFailures(j)
    BY <1>3 DEF MoveToFailed, FinalFailures
  <2> QED BY <1>1, <1>2, <1>3, <2>1, <2>2, <2>3, OtherJobs
<1>4. CASE slot[s].job = j
  <2> DEFINE id == <<j, attemptsMade[j] + 1>>
  <2>1. /\ lock'[j] = NoLock /\ attemptsMade'[j] = attemptsMade[j] + 1 /\ ~deferred'[j]
        /\ state'[j] = IF BullRetries(s) THEN "waiting" ELSE "failed"
        /\ terminal' = terminal \cup IF BullRetries(s) THEN {} ELSE {id}
    BY <1>0, <1>2, <1>4 DEF MoveToFailed, TypeOK
  <2>2. lock[j] = s /\ state[j] = "active" /\ slot[s].attempt = attemptsMade[j] + 1
    BY <1>0, <1>2, <1>4, SlotsNotTokens DEF LifecycleInv, HoldersRun, LockedIsActive
  <2>3. \A r \in Slots : lock'[j] # r
    BY <2>1, SlotsNotTokens
  <2>4. Condemned(s) => ~BullRetries(s) /\ deferred[j]
    BY <1>2, <1>i, <2>2 DEF Condemned, BullRetries, StalledOf
  <2>5. StalledOf(j)'
    <3>1. stalls[j] > MaxStalledCount /\ retries[j] = 0 => state'[j] # "waiting"
      BY <1>i, <2>1, <2>2, <2>4 DEF StalledOf
    <3> QED BY <1>2, <2>3, <3>1 DEF StalledOf
  <2>6. StartsOf(j)'
    <3>1. Fetched(j)' \subseteq Fetched(j)
      BY <1>1 DEF Fetched
    <3>2. /\ IsFiniteSet(Fetched(j)')
          /\ Starts(j) \in Nat /\ Starts(j)' \in Nat /\ Starts(j)' <= Starts(j)
      BY <1>0, <1>2, <1>i, <3>1, StartsKept DEF StartsOf
    <3>3. attemptsMade[j] \in Nat /\ stalls[j] \in Nat
      BY <1>0, CountTypes
    <3>4. Paid(j)' = Paid(j) /\ Paid(j) \in Nat
      BY <1>2, <2>1, <2>2, <3>3 DEF Paid
    <3>5. state'[j] \in {"waiting", "active"} => attemptsMade'[j] < Attempts
      BY <2>1, <2>2 DEF BullRetries
    <3> QED BY <1>0, <1>2, <1>i, <2>2, <3>2, <3>4, <3>5, StartsFrame
  <2>7. CoverOf(j)'
    <3> DEFINE T == FinalFailures(j)
               U == FinalFailures(j)'
               n == Cardinality(T)
               m == Cardinality(U)
    <3>1. \A r \in Slots : ~CountedFinal(j, r)'
      BY <2>3 DEF CountedFinal
    <3>2. Owed(j)' = 0 /\ Owed(j) \in Nat
      BY <2>1, <3>1 DEF Owed
    <3>3. ~BullRetries(s) => Owed(j) >= 1
      <4> SUFFICES ASSUME ~BullRetries(s) PROVE Owed(j) >= 1
        OBVIOUS
      <4>1. CASE slot[s].error = "stalled limit"
        <5>1. deferred[j]
          BY <1>2, <1>i, <2>2, <4>1 DEF Condemned, StalledOf
        <5> QED BY <5>1 DEF Owed
      <4>2. CASE slot[s].error # "stalled limit"
        <5>1. slot[s].willRetry <=> slot[s].error = "plain" /\ slot[s].attempt < Attempts
          BY <1>2 DEF CountsInv, PredictionInv, Predicts
        <5>2. ~slot[s].willRetry
          BY <5>1 DEF BullRetries
        <5>3. CountedFinal(j, s)
          BY <1>2, <2>2, <4>2, <5>2 DEF CountedFinal
        <5> QED BY <5>3 DEF Owed
      <4> QED BY <4>1, <4>2
    <3>4. IsFiniteSet(T) /\ n \in Nat
      BY <1>i, FS_CardinalityType DEF CoverOf
    <3>5. CASE BullRetries(s)
      <4>1. U = T
        BY <2>1, <3>5 DEF FinalFailures
      <4> HIDE DEF T, U
      <4>2. IsFiniteSet(U) /\ m = n
        BY <3>4, <4>1
      <4>3. n + metrics[j].retrying + Owed(j) <= metrics[j].failed + stalls[j]
            /\ metrics[j].retrying \in Nat /\ metrics[j].failed \in Nat /\ stalls[j] \in Nat
        BY <1>0, <1>i, <3>4, CountTypes DEF CoverOf, Owed, T
      <4>4. m + metrics'[j].retrying + Owed(j)' <= metrics'[j].failed + stalls'[j]
        <5> HIDE DEF n, m
        <5> QED BY <1>2, <3>2, <3>4, <4>2, <4>3
      <4> QED BY <1>2, <3>4, <4>2, <4>3, <4>4 DEF CoverOf, Owed, U
    <3>6. CASE ~BullRetries(s)
      <4>1. U = T \cup {id}
        BY <2>1, <3>6 DEF FinalFailures
      <4> HIDE DEF T, U
      <4>2. IsFiniteSet(U) /\ m \in Nat /\ m <= n + 1
        <5>1. CASE id \in T
          <6>1. U = T
            BY <4>1, <5>1
          <6> QED BY <3>4, <6>1
        <5>2. CASE id \notin T
          <6>1. IsFiniteSet(T \cup {id}) /\ Cardinality(T \cup {id}) = Cardinality(T) + 1
            BY <3>4, <5>2, FS_AddElement
          <6> QED BY <3>4, <4>1, <6>1
        <5> QED BY <5>1, <5>2
      <4>3. n + metrics[j].retrying + Owed(j) <= metrics[j].failed + stalls[j]
            /\ metrics[j].retrying \in Nat /\ metrics[j].failed \in Nat /\ stalls[j] \in Nat
        BY <1>0, <1>i, <3>4, CountTypes DEF CoverOf, Owed, T
      <4>4. m + metrics'[j].retrying + Owed(j)' <= metrics'[j].failed + stalls'[j]
        <5> HIDE DEF n, m
        <5> QED BY <1>2, <3>2, <3>3, <3>4, <3>6, <4>2, <4>3
      <4> QED BY <1>2, <3>4, <4>2, <4>3, <4>4 DEF CoverOf, Owed, U
    <3> QED BY <3>5, <3>6
  <2> QED BY <2>5, <2>6, <2>7 DEF Counted
<1> QED BY <1>3, <1>4

\* A job that may lose its holder and be settled, removed or reopened, at no cost.
LEMMA ReleaseCounts ==
  ASSUME CountsInv, TypeOK', NEW j \in Jobs, metrics'[j] = metrics[j],
         attemptsMade'[j] = attemptsMade[j], stalls'[j] = stalls[j], deferred'[j] = deferred[j],
         terminal' = terminal,
         \A r \in Slots : lock'[j] = r => lock[j] = r /\ slot'[r] = slot[r],
         Fetched(j)' \subseteq Fetched(j),
         retries'[j] = 0 =>
           retries[j] = 0 /\ (state'[j] \in {"waiting", "active"} => state'[j] = state[j])
  PROVE  Counted(j)'
<1>0. TypeOK /\ StalledOf(j) /\ StartsOf(j) /\ CoverOf(j)
  BY DEF CountsInv, LifecycleInv, StalledInv, StartsInv, CoverInv
<1>1. \A r \in Slots : lock'[j] = r => lock[j] = r /\ (Condemned(r)' <=> Condemned(r))
  BY DEF Condemned
<1>2. StalledOf(j)'
  BY <1>0, <1>1, StalledFrame
<1>3. StartsOf(j)'
  <2>1. /\ IsFiniteSet(Fetched(j)')
        /\ Starts(j) \in Nat /\ Starts(j)' \in Nat /\ Starts(j)' <= Starts(j)
    BY <1>0, StartsKept DEF StartsOf
  <2>2. state'[j] = state[j] => Paid(j)' = Paid(j) /\ Paid(j) \in Nat
    BY <1>0, CountTypes DEF Paid
  <2>3. state[j] \in {"waiting", "active"} /\ retries[j] = 0 => attemptsMade[j] < Attempts
    BY <1>0 DEF StartsOf
  <2> QED BY <1>0, <2>1, <2>2, <2>3, StartsFrame
<1>4. CoverOf(j)'
  <2>1. \A r \in Slots : CountedFinal(j, r)' => CountedFinal(j, r)
    BY DEF CountedFinal
  <2>2. Owed(j) \in Nat /\ Owed(j)' \in Nat /\ Owed(j)' <= Owed(j)
    BY <2>1, OwedKept
  <2>3. metrics[j].retrying \in Nat /\ metrics[j].failed \in Nat /\ stalls[j] \in Nat
    BY <1>0, CountTypes
  <2>4. metrics'[j].retrying + Owed(j)' + metrics[j].failed + stalls[j]
         <= metrics[j].retrying + Owed(j) + metrics'[j].failed + stalls'[j]
    BY <2>2, <2>3
  <2> QED BY <1>0, <2>4, CoverFrame
<1> QED BY <1>2, <1>3, <1>4 DEF Counted

\* A run that ends gives up the lock if it had it, and counts nothing.
LEMMA IdleCounts ==
  ASSUME CountsInv, TypeOK', NEW s \in Slots, NEW j \in Jobs, Idles(s),
         FinishRefused(s) \/ MoveToCompleted(s) \/ OnFailed(s) \/ FailedReplyLost(s)
  PROVE  Counted(j)'
<1>0. TypeOK /\ LifecycleInv
  BY DEF CountsInv, LifecycleInv
<1>1. slot'[s] = IdleSlot /\ (\A r \in Slots \ {s} : slot'[r] = slot[r]) /\ metrics' = metrics
  BY <1>0 DEF Idles, TypeOK
<1>2. UNCHANGED <<attemptsMade, stalls, deferred, terminal, retries>>
  BY DEF FinishRefused, MoveToCompleted, OnFailed, FailedReplyLost, redisVars, faultVars
<1>3. \A r \in Slots : lock'[j] = r => lock[j] = r /\ r # s
  <2>1. CASE FinishRefused(s)
    BY <1>0, <2>1 DEF FinishRefused, redisVars, LifecycleInv, HoldersRun
  <2>2. CASE MoveToCompleted(s)
    BY <1>0, <2>2, SlotsNotTokens DEF MoveToCompleted, LifecycleInv, HoldersRun, TypeOK
  <2>3. CASE OnFailed(s) \/ FailedReplyLost(s)
    BY <1>0, <2>3, NoLockHeld DEF OnFailed, FailedReplyLost, redisVars
  <2> QED BY <2>1, <2>2, <2>3
<1>4. state'[j] = state[j] \/ state'[j] = "completed"
  BY <1>0 DEF FinishRefused, MoveToCompleted, OnFailed, FailedReplyLost, redisVars, TypeOK
<1>5. Fetched(j)' \subseteq Fetched(j)
  BY <1>1 DEF Fetched, IdleSlot
<1> QED BY <1>1, <1>2, <1>3, <1>4, <1>5, ReleaseCounts

\* A process dies: its runs are gone, and what they counted stays.
LEMMA CrashCounts ==
  ASSUME CountsInv, TypeOK', NEW w \in Workers, NEW j \in Jobs, Crash(w)
  PROVE  Counted(j)'
<1>0. TypeOK
  BY DEF CountsInv, LifecycleInv
<1>1. UNCHANGED <<state, attemptsMade, stalls, deferred, metrics, terminal, retries>>
  BY DEF Crash
<1>2. \A r \in Slots : IF Owner(r) = w THEN slot'[r] = IdleSlot ELSE slot'[r] = slot[r]
  BY DEF Crash
<1>3. \A r \in Slots : lock'[j] = r => lock[j] = r /\ Owner(r) # w
  BY SlotsNotTokens DEF Crash
<1>4. Fetched(j)' \subseteq Fetched(j)
  BY <1>2 DEF Fetched, IdleSlot
<1> QED BY <1>1, <1>2, <1>3, <1>4, ReleaseCounts

\* A stall is paid for by the stalls counter, whether it condemns the job or not.
LEMMA StalledCounts ==
  ASSUME CountsInv, TypeOK', NEW i \in Jobs, NEW j \in Jobs, Stalled(i)
  PROVE  Counted(j)'
<1>0. TypeOK /\ StalledOf(j) /\ StartsOf(j) /\ CoverOf(j)
  BY DEF CountsInv, LifecycleInv, StalledInv, StartsInv, CoverInv
<1>1. UNCHANGED <<attemptsMade, lock, slot, metrics, terminal, retries>> /\ lock[i] = NoLock
  BY DEF Stalled, faultVars
<1>2. Fetched(j)' = Fetched(j)
  BY <1>1 DEF Fetched
<1>3. CASE i # j
  <2>1. stalls'[j] = stalls[j] /\ deferred'[j] = deferred[j] /\ state'[j] = state[j]
    BY <1>0, <1>3 DEF Stalled, TypeOK
  <2> QED BY <1>1, <1>2, <2>1, ReleaseCounts
<1>4. CASE i = j
  <2>1. /\ state[j] = "active" /\ state'[j] = "waiting" /\ stalls'[j] = stalls[j] + 1
        /\ deferred'[j] <=> stalls[j] >= MaxStalledCount
    <3>1. state[j] = "active" /\ state'[j] = "waiting" /\ stalls'[j] = stalls[j] + 1
      BY <1>0, <1>4 DEF Stalled, TypeOK
    <3>2. deferred'[j] = OverStalledLimit(j)
      BY <1>0, <1>4 DEF Stalled, TypeOK
    <3>3. deferred'[j] <=> stalls[j] >= MaxStalledCount
      BY <3>2, Zenon DEF OverStalledLimit
    <3> QED BY <3>1, <3>3
  <2>2. \A r \in Slots : lock[j] # r /\ lock'[j] # r
    BY <1>1, <1>4, SlotsNotTokens
  <2>3. /\ metrics[j].retrying \in Nat /\ metrics[j].failed \in Nat /\ metrics[j].started \in Nat
        /\ attemptsMade[j] \in Nat /\ stalls[j] \in Nat /\ MaxStalledCount \in Nat
    BY <1>0, CountTypes
  <2>4. StalledOf(j)'
    BY <2>1, <2>2, <2>3 DEF StalledOf
  <2>5. StartsOf(j)'
    <3>1. Cardinality(Fetched(j)) \in Nat
      BY <1>0, FS_CardinalityType DEF StartsOf
    <3>2. IsFiniteSet(Fetched(j)') /\ Starts(j)' = Starts(j) /\ Starts(j) \in Nat
      BY <1>0, <1>1, <1>2, <2>3, <3>1 DEF Starts, StartsOf
    <3>3. Paid(j)' = Paid(j) /\ Paid(j) \in Nat
      BY <1>1, <2>1, <2>3 DEF Paid
    <3>4. retries[j] = 0 => attemptsMade[j] < Attempts
      BY <1>0, <2>1 DEF StartsOf
    <3>5. stalls'[j] <= MaxStalledCount => stalls[j] <= MaxStalledCount
      BY <2>1, <2>3
    <3> QED BY <1>0, <1>1, <2>1, <3>2, <3>3, <3>4, <3>5, StartsFrame
  <2>6. CoverOf(j)'
    <3>1. \A r \in Slots : ~CountedFinal(j, r)'
      BY <2>2 DEF CountedFinal
    <3>2. Owed(j) \in Nat /\ Owed(j)' \in {0, 1}
      BY <3>1 DEF Owed
    <3>3. metrics'[j].retrying + Owed(j)' + metrics[j].failed + stalls[j]
           <= metrics[j].retrying + Owed(j) + metrics'[j].failed + stalls'[j]
      BY <1>1, <2>1, <2>3, <3>2
    <3> QED BY <1>0, <1>1, <3>3, CoverFrame
  <2> QED BY <2>4, <2>5, <2>6 DEF Counted
<1> QED BY <1>3, <1>4

\* What happens to a job in Redis while no run of it makes a step.
LEMMA RedisCounts ==
  ASSUME CountsInv, TypeOK', NEW i \in Jobs, NEW j \in Jobs, JobNext(i)
  PROVE  Counted(j)'
<1>0. TypeOK /\ LifecycleInv
  BY DEF CountsInv, LifecycleInv
<1>1. CASE Stalled(i)
  BY <1>1, StalledCounts
<1>2. CASE LockExpires(i) \/ OperatorRetry(i) \/ Remove(i)
  <2>1. UNCHANGED <<attemptsMade, stalls, deferred, slot, metrics, terminal>>
    BY <1>2 DEF LockExpires, OperatorRetry, Remove
  <2>2. Fetched(j)' = Fetched(j)
    BY <2>1 DEF Fetched
  <2>3. \A r \in Slots : lock'[j] = r => lock[j] = r
    BY <1>0, <1>2, SlotsNotTokens DEF LockExpires, OperatorRetry, Remove, TypeOK
  <2>4. retries'[j] = 0 =>
          retries[j] = 0 /\ (state'[j] \in {"waiting", "active"} => state'[j] = state[j])
    <3>1. CASE LockExpires(i)
      BY <3>1 DEF LockExpires
    <3>2. CASE OperatorRetry(i)
      <4>1. retries[j] \in Nat
        BY <1>0, CountTypes
      <4> QED BY <1>0, <3>2, <4>1 DEF OperatorRetry, TypeOK
    <3>3. CASE Remove(i)
      BY <1>0, <3>3 DEF Remove, faultVars, TypeOK
    <3> QED BY <1>2, <3>1, <3>2, <3>3
  <2> QED BY <2>1, <2>2, <2>3, <2>4, ReleaseCounts
<1> QED BY <1>1, <1>2 DEF JobNext

-----------------------------------------------------------------------------
(* Counts: the theorems.                                                   *)

\* Nothing is counted at first.
LEMMA CountsInit == Init => CountsInv
<1> SUFFICES ASSUME Init PROVE CountsInv
  OBVIOUS
<1>1. LifecycleInv
  BY InitInv
<1>2. PredictionInv
  BY NothingPredicted DEF Init, PredictionInv
<1>3. ASSUME NEW j \in Jobs PROVE StalledOf(j) /\ StartsOf(j) /\ CoverOf(j)
  <2>1. \A s \in Slots : lock[j] # s
    BY SlotsNotTokens DEF Init
  <2>2. Fetched(j) = {} /\ FinalFailures(j) = {}
    BY DEF Init, Fetched, FinalFailures, IdleSlot
  <2>3. /\ metrics[j].started = 0 /\ metrics[j].failed = 0 /\ metrics[j].retrying = 0
        /\ attemptsMade[j] = 0 /\ stalls[j] = 0 /\ ~deferred[j] /\ state[j] = "waiting"
    BY DEF Init
  <2>4. Attempts \in Nat \ {0} /\ MaxStalledCount \in Nat
    BY LifecycleAssumption
  <2>5. IsFiniteSet({}) /\ Cardinality({}) = 0
    BY FS_EmptySet
  <2>6. Starts(j) = 0 /\ Paid(j) = 0
    BY <2>2, <2>3, <2>5 DEF Starts, Paid
  <2>7. \A s \in Slots : ~CountedFinal(j, s)
    BY <2>1 DEF CountedFinal
  <2>8. StalledOf(j)
    <3>1. ~(stalls[j] > MaxStalledCount)
      BY <2>3, <2>4
    <3> QED BY <2>1, <3>1 DEF StalledOf
  <2>9. StartsOf(j)
    BY <2>2, <2>3, <2>4, <2>5, <2>6 DEF StartsOf
  <2>10. CoverOf(j)
    BY <2>2, <2>3, <2>5, <2>7 DEF CoverOf
  <2> QED BY <2>8, <2>9, <2>10
<1> QED BY <1>1, <1>2, <1>3 DEF CountsInv, StalledInv, StartsInv, CoverInv

\* Every step keeps the invariant of every job.
LEMMA CountsStep == CountsInv /\ [Next]_vars => CountsInv'
<1> SUFFICES ASSUME CountsInv, [Next]_vars PROVE CountsInv'
  OBVIOUS
<1>1. LifecycleInv' /\ TypeOK' /\ PredictionInv'
  BY StepInv, PredictionStep DEF CountsInv, LifecycleInv
<1>2. ASSUME NEW j \in Jobs PROVE Counted(j)'
  <2>1. ASSUME NEW s \in Slots, SlotNext(s) PROVE Counted(j)'
    BY <1>1, <2>1, SlotSteps, FetchCounts, CondemnCounts, ThrowCounts, RunCounts, IdleCounts,
       MoveToFailedCounts
  <2>2. ASSUME NEW i \in Jobs, JobNext(i) PROVE Counted(j)'
    BY <1>1, <2>2, RedisCounts
  <2>3. ASSUME NEW w \in Workers, Crash(w) PROVE Counted(j)'
    BY <1>1, <2>3, CrashCounts
  <2>4. ASSUME UNCHANGED <<redisVars, slot, metrics, terminal, retries>> PROVE Counted(j)'
    <3>1. UNCHANGED <<state, attemptsMade, stalls, deferred, lock, slot, metrics, terminal, retries>>
      BY <2>4 DEF redisVars
    <3>2. Fetched(j)' = Fetched(j)
      BY <3>1 DEF Fetched
    <3> QED BY <1>1, <3>1, <3>2, ReleaseCounts
  <2>5. \/ \E s \in Slots : SlotNext(s)
        \/ \E i \in Jobs : JobNext(i)
        \/ \E w \in Workers : Crash(w)
        \/ UNCHANGED <<redisVars, slot, metrics, terminal, retries>>
    BY DEF Next, vars, faultVars, AbandonedEnds, WriteDeadLetter, WriteFails
  <2> QED BY <2>1, <2>2, <2>3, <2>4, <2>5
<1>3. (\A j \in Jobs : StalledOf(j) /\ StartsOf(j) /\ CoverOf(j))'
  BY <1>2 DEF Counted
<1> QED BY <1>1, <1>3 DEF CountsInv, StalledInv, StartsInv, CoverInv

\* CountsInv holds throughout: the starts of a job are paid for by its attempts and its
\* stalls, and its final failures by the failures and the stalls counted.
THEOREM CountsInvariant == Spec => []CountsInv
<1> QED BY CountsInit, CountsStep, PTL DEF Spec

\* A job nobody retries by hand is started at most Attempts + MaxStalledCount times,
\* whatever processes die and whatever locks are lost.
THEOREM StartsAreBounded == Spec => []StartsBounded
<1>1. CountsInv => StartsBounded
  <2> SUFFICES ASSUME CountsInv, NEW j \in Jobs, retries[j] = 0
               PROVE  metrics[j].started <= Attempts + MaxStalledCount
    BY DEF StartsBounded
  <2>1. StartsOf(j) /\ TypeOK
    BY DEF CountsInv, StartsInv, LifecycleInv
  <2>2. Starts(j) <= Attempts + MaxStalledCount /\ Cardinality(Fetched(j)) \in Nat
    BY <2>1, FS_CardinalityType DEF StartsOf
  <2>3. metrics[j].started \in Nat /\ Attempts \in Nat /\ MaxStalledCount \in Nat
    BY <2>1, CountTypes
  <2> QED BY <2>2, <2>3 DEF Starts
<1> QED BY <1>1, CountsInvariant, PTL

\* The counters of failed attempts, retries and stalls never understate the final
\* failures of a job.
THEOREM FailuresAreCounted == Spec => []CountersCoverFailures
<1>1. CountsInv => CountersCoverFailures
  <2> SUFFICES ASSUME CountsInv, NEW j \in Jobs
               PROVE  Cardinality(FinalFailures(j)) + metrics[j].retrying
                        <= metrics[j].failed + stalls[j]
    BY DEF CountersCoverFailures, FinalFailures
  <2>1. CoverOf(j) /\ TypeOK
    BY DEF CountsInv, CoverInv, LifecycleInv
  <2>2. Cardinality(FinalFailures(j)) \in Nat
    BY <2>1, FS_CardinalityType DEF CoverOf
  <2>3. metrics[j].retrying \in Nat /\ metrics[j].failed \in Nat /\ stalls[j] \in Nat
    BY <2>1, CountTypes
  <2> QED BY <2>1, <2>2, <2>3 DEF CoverOf
<1> QED BY <1>1, CountsInvariant, PTL

\* The retry counted by processJob's catch block is the one BullMQ decides on, as long as
\* no handler throws an error that only its name makes final ("named").
THEOREM PredictionsAgree ==
  ASSUME "named" \notin HandlerErrors
  PROVE  Spec => []RetryPredictionAgrees
<1>1. CountsInv => RetryPredictionAgrees
  <2> SUFFICES ASSUME CountsInv, NEW s \in Slots, slot[s].phase = "failing"
               PROVE  slot[s].willRetry = BullRetries(s)
    BY DEF RetryPredictionAgrees
  <2>1. slot[s].willRetry \in BOOLEAN /\ Predicts(slot[s])
    BY DEF CountsInv, LifecycleInv, TypeOK, SlotType, PredictionInv
  <2>2. slot[s].willRetry <=> BullRetries(s)
    BY <2>1 DEF Predicts, BullRetries
  <2>3. BullRetries(s) \in BOOLEAN
    BY DEF BullRetries
  <2> QED BY <2>1, <2>2, <2>3, Zenon
<1> QED BY <1>1, CountsInvariant, PTL

=============================================================================
