------------------------------ MODULE JobStatus -----------------------------
(***************************************************************************)
(* GET /jobs/:queue/:id (api/routes/jobs.routes.ts) while the job it asks  *)
(* for moves on: the handler reads the job, then its state, and in one     *)
(* case the job again, over a client that drops and reconnects.  The job's *)
(* life in Redis is external.                                              *)
(***************************************************************************)
EXTENDS Naturals

CONSTANTS
  Requests,   \* GETs of one job
  MaxRuns,    \* bound: runs of the job
  MaxDrops    \* bound: connections lost

ASSUME JobStatusAssumption ==
  /\ MaxRuns \in Nat \ {0}
  /\ MaxDrops \in Nat

\* A job's fields, as getJob returns them: whether finishedOn is set, and the runs
\* that left the return value and the failed reason, 0 if none did.
Fields == [finished : BOOLEAN, result : 0..MaxRuns, reason : 0..MaxRuns]
Fresh  == [finished |-> FALSE, result |-> 0, reason |-> 0]

Settled == {"completed", "failed"}
States  == Settled \cup {"waiting", "active", "unknown"}

\* A response: 404, 500, or 200 with what it reports.
Bare(code) == [code |-> code, state |-> "unknown", fields |-> Fresh]

VARIABLES
  \* Redis (external)
  state,    \* of the job; "unknown" once it is removed
  fields,
  runs,
  reported, \* history: what settled runs of the job are reported as
  \* the client
  link,     \* whether the connection is up
  drops,
  \* per request
  phase,    \* "none", "getState", "getJob again", "done"
  snapshot, \* the job as last read
  seen,     \* the state as read
  reply,
  moved     \* history: the job was removed or retried while the request ran

jobVars == <<state, fields, runs, reported>>
requestVars == <<phase, snapshot, seen, reply>>
linkVars == <<link, drops>>
vars == <<jobVars, linkVars, requestVars, moved>>

Init ==
  /\ state = "waiting"
  /\ fields = Fresh
  /\ runs = 0
  /\ reported = {}
  /\ link = TRUE
  /\ drops = 0
  /\ phase = [r \in Requests |-> "none"]
  /\ snapshot = [r \in Requests |-> Fresh]
  /\ seen = [r \in Requests |-> "unknown"]
  /\ reply = [r \in Requests |-> Bare(0)]
  /\ moved = [r \in Requests |-> FALSE]

-----------------------------------------------------------------------------
(* The job (external).                                                     *)

Start ==
  /\ state = "waiting"
  /\ runs < MaxRuns
  /\ runs' = runs + 1
  /\ state' = "active"
  /\ UNCHANGED <<fields, reported, linkVars, requestVars, moved>>

\* Fault: the fields are passed on as they are.
Shown_Raw(s, f) == f

\* What is reported of a job read in state s with fields f: the reason only of a
\* failed job, the result only of a completed one.
Shown(s, f) ==
  [finished |-> f.finished,
   result   |-> IF s = "completed" THEN f.result ELSE 0,
   reason   |-> IF s = "failed" THEN f.reason ELSE 0]

\* finishedOn and what the run left are written with the transition.
Settle(s) ==
  /\ state = "active"
  /\ state' = s
  /\ fields' = IF s = "completed" THEN [fields EXCEPT !.finished = TRUE, !.result = runs]
               ELSE [fields EXCEPT !.finished = TRUE, !.reason = runs]
  /\ reported' = reported \cup {<<s, Shown(s, fields')>>}
  /\ UNCHANGED <<runs, linkVars, requestVars, moved>>

\* A failed attempt with another one left keeps its reason.
FailAttempt ==
  /\ state = "active"
  /\ state' = "waiting"
  /\ fields' = [fields EXCEPT !.reason = runs]
  /\ UNCHANGED <<runs, reported, linkVars, requestVars, moved>>

Leaves ==
  /\ moved' = [r \in Requests |-> moved[r] \/ phase[r] \in {"getState", "getJob again"}]
  /\ UNCHANGED <<runs, reported, linkVars, requestVars>>

\* Retention.
Remove ==
  /\ state \in Settled
  /\ state' = "unknown"
  /\ UNCHANGED fields
  /\ Leaves

\* From the dashboard.
OperatorRetry ==
  /\ state = "failed"
  /\ state' = "waiting"
  /\ fields' = Fresh
  /\ Leaves

-----------------------------------------------------------------------------
(* The handler.                                                            *)

Respond(r, s, f) ==
  /\ phase' = [phase EXCEPT ![r] = "done"]
  /\ reply' = [reply EXCEPT ![r] = [code |-> 200, state |-> s, fields |-> Shown(s, f)]]

\* 404 for a queue that is not readable, and for a job that is not there.
GetJob(r, readable) ==
  /\ phase[r] = "none"
  /\ readable => link
  /\ IF ~readable \/ state = "unknown"
     THEN /\ phase' = [phase EXCEPT ![r] = "done"]
          /\ reply' = [reply EXCEPT ![r] = Bare(404)]
          /\ UNCHANGED snapshot
     ELSE /\ phase' = [phase EXCEPT ![r] = "getState"]
          /\ snapshot' = [snapshot EXCEPT ![r] = fields]
          /\ UNCHANGED reply
  /\ UNCHANGED <<jobVars, linkVars, seen, moved>>

\* Fault: the job is never read again.
GetState_NoReread(r) ==
  /\ phase[r] = "getState"
  /\ link
  /\ seen' = [seen EXCEPT ![r] = state]
  /\ Respond(r, state, snapshot[r])
  /\ UNCHANGED <<jobVars, linkVars, snapshot, moved>>

\* A settled state with a snapshot that is not finished: the job is read again.
GetState(r) ==
  /\ phase[r] = "getState"
  /\ link
  /\ seen' = [seen EXCEPT ![r] = state]
  /\ IF state \in Settled /\ ~snapshot[r].finished
     THEN phase' = [phase EXCEPT ![r] = "getJob again"] /\ UNCHANGED reply
     ELSE Respond(r, state, snapshot[r])
  /\ UNCHANGED <<jobVars, linkVars, snapshot, moved>>

\* The first snapshot is kept if the job is no longer there.
Reread(r) ==
  /\ phase[r] = "getJob again"
  /\ link
  /\ snapshot' = [snapshot EXCEPT ![r] = IF state = "unknown" THEN @ ELSE fields]
  /\ Respond(r, seen[r], snapshot'[r])
  /\ UNCHANGED <<jobVars, linkVars, seen, moved>>

\* No read is sent while the connection is down (no offline queue): it fails, and
\* the request with it.
ReadFails(r) ==
  /\ phase[r] # "done"
  /\ ~link
  /\ phase' = [phase EXCEPT ![r] = "done"]
  /\ reply' = [reply EXCEPT ![r] = Bare(500)]
  /\ UNCHANGED <<jobVars, linkVars, snapshot, seen, moved>>

-----------------------------------------------------------------------------
(* The client.  A read that waits for its reply is sent again once it is   *)
(* connected.                                                              *)

LinkDrops ==
  /\ link
  /\ drops < MaxDrops
  /\ drops' = drops + 1
  /\ link' = FALSE
  /\ UNCHANGED <<jobVars, requestVars, moved>>

LinkReturns ==
  /\ ~link
  /\ link' = TRUE
  /\ UNCHANGED <<jobVars, drops, requestVars, moved>>

-----------------------------------------------------------------------------
Next ==
  \/ Start
  \/ \E s \in Settled : Settle(s)
  \/ FailAttempt
  \/ Remove
  \/ OperatorRetry
  \/ \E r \in Requests :
       \/ \E readable \in BOOLEAN : GetJob(r, readable)
       \/ GetState(r)
       \/ Reread(r)
       \/ ReadFails(r)
  \/ LinkDrops
  \/ LinkReturns

Spec == Init /\ [][Next]_vars

-----------------------------------------------------------------------------
(* Properties.                                                             *)

\* Every variable holds a value of its type; a job in Redis is finished exactly when
\* it is settled; and a reason is reported of failed jobs only, a result of completed
\* ones.
TypeOK ==
  /\ state \in States
  /\ fields \in Fields
  /\ state # "unknown" => (fields.finished <=> state \in Settled)
  /\ runs \in 0..MaxRuns
  /\ reported \subseteq Settled \X Fields
  /\ link \in BOOLEAN
  /\ drops \in Nat
  /\ phase \in [Requests -> {"none", "getState", "getJob again", "done"}]
  /\ snapshot \in [Requests -> Fields]
  /\ seen \in [Requests -> States]
  /\ reply \in [Requests -> [code : {0, 200, 404, 500}, state : States, fields : Fields]]
  /\ \A r \in Requests : LET f == reply[r].fields IN
       (f.reason # 0 => reply[r].state = "failed") /\ (f.result # 0 => reply[r].state = "completed")
  /\ moved \in [Requests -> BOOLEAN]

Agrees(r) == <<reply[r].state, reply[r].fields>> \in reported

\* "`finishedOn` is written atomically with the state transition, so its absence is
\* the tell, and one re-read makes the two agree": a reply that says completed or
\* failed reports a run that settled so, whole, unless the job was removed or
\* retried under the request.
SettledRepliesAgree ==
  \A r \in Requests : reply[r].code = 200 /\ reply[r].state \in Settled => Agrees(r) \/ moved[r]

=============================================================================
