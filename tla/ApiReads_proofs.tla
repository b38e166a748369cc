--------------------------- MODULE ApiReads_proofs --------------------------
(***************************************************************************)
(* The routes that read from Redis, for any number of status requests,     *)
(* scrapes and queues: what they report is of one moment.                  *)
(***************************************************************************)
EXTENDS ApiReads, SequenceTheorems, TLAPS

\* While the job is neither removed nor retried under it, a request that read a
\* finished job still sees that job, and one that saw a settled state that state.
RequestInv(r) == ~moved[r] =>
  /\ phase[r] = "getState" /\ snapshot[r].finished => state \in Settled /\ snapshot[r] = fields
  /\ phase[r] = "getJob again" => state \in Settled /\ seen[r] = state
  /\ phase[r] = "done" /\ reply[r].code = 200 /\ reply[r].state \in Settled => Agrees(r)

StatusInv ==
  /\ TypeOK
  /\ state \in Settled => <<state, Shown(state, fields)>> \in reported
  /\ \A r \in Requests : RequestInv(r)
  /\ \A r \in Requests : reply[r].code = 200 => phase[r] = "done"

-----------------------------------------------------------------------------
(* The job.                                                                *)

USE JobStatusAssumption

\* Job fields are finished or not, with the runs that left a result or a reason.
LEMMA ShownType ==
  ASSUME NEW s \in States, NEW f \in Fields
  PROVE  /\ Shown(s, f) \in Fields
         /\ Shown(s, f).reason # 0 => s = "failed"
         /\ Shown(s, f).result # 0 => s = "completed"
BY DEF Shown, Fields

\* A job that was never run has no outcome to show.
LEMMA FreshType == Fresh \in Fields /\ ~Fresh.finished /\ Fresh.result = 0 /\ Fresh.reason = 0
BY DEF Fresh, Fields

\* Before the first request.
LEMMA StatusInit == Init => StatusInv
<1> SUFFICES ASSUME Init PROVE StatusInv
  OBVIOUS
<1>1. Bare(0) \in [code : {0, 200, 404, 500}, state : States, fields : Fields]
  BY FreshType DEF Bare, States
<1>2. TypeOK
  BY FreshType, <1>1 DEF Init, TypeOK, States, Settled, Bare
<1>3. \A r \in Requests : RequestInv(r) /\ reply[r].code # 200
  <2> SUFFICES ASSUME NEW r \in Requests PROVE RequestInv(r) /\ reply[r].code # 200
    OBVIOUS
  <2>1. phase[r] = "none" /\ reply[r] = Bare(0)
    BY DEF Init
  <2>2. Bare(0).code = 0
    BY DEF Bare
  <2> QED BY <2>1, <2>2 DEF RequestInv
<1> QED BY <1>2, <1>3 DEF StatusInv, Init, Settled

\* A run of the job starts, or fails with attempts left: no settled state is seen.
LEMMA RunsInv ==
  ASSUME StatusInv, Start \/ FailAttempt
  PROVE  StatusInv'
<1>s. /\ state \in {"waiting", "active"} /\ state' \in {"waiting", "active"}
      /\ fields' \in Fields /\ ~fields'.finished
      /\ runs' \in 0..MaxRuns
      /\ UNCHANGED <<reported, link, drops, phase, snapshot, seen, reply, moved>>
  <2>i. /\ fields \in Fields /\ runs \in 0..MaxRuns
        /\ state \in {"waiting", "active"} => ~fields.finished
    BY DEF StatusInv, TypeOK, Settled
  <2>1. CASE Start
    BY <2>1, <2>i DEF Start, linkVars, requestVars
  <2>2. CASE FailAttempt
    <3>1. fields' = [fields EXCEPT !.reason = runs]
      BY <2>2 DEF FailAttempt
    <3>2. fields' \in Fields /\ fields'.finished = fields.finished
      BY <3>1, <2>i DEF Fields
    <3> QED BY <2>2, <2>i, <3>2 DEF FailAttempt, linkVars, requestVars
  <2> QED BY <2>1, <2>2
<1>1. TypeOK'
  BY <1>s DEF StatusInv, TypeOK, States, Settled
<1>2. \A r \in Requests : RequestInv(r)'
  BY <1>s DEF StatusInv, RequestInv, Agrees, Settled
<1> QED BY <1>1, <1>2, <1>s DEF StatusInv, Settled

\* A run settles: what requests read before it was not finished.
LEMMA SettleInv ==
  ASSUME StatusInv, NEW s \in Settled, Settle(s)
  PROVE  StatusInv'
<1>s. /\ state = "active" /\ state' = s
      /\ fields' \in Fields /\ fields'.finished
      /\ reported' = reported \cup {<<s, Shown(s, fields')>>}
      /\ UNCHANGED <<runs, link, drops, phase, snapshot, seen, reply, moved>>
  <2>1. fields \in Fields /\ runs \in 0..MaxRuns
    BY DEF StatusInv, TypeOK
  <2>2. \/ fields' = [fields EXCEPT !.finished = TRUE, !.result = runs]
        \/ fields' = [fields EXCEPT !.finished = TRUE, !.reason = runs]
    BY DEF Settle
  <2>3. fields' \in Fields /\ fields'.finished
    BY <2>1, <2>2 DEF Fields
  <2> QED BY <2>3 DEF Settle, linkVars, requestVars
<1>1. TypeOK'
  <2>1. s \in States /\ Shown(s, fields') \in Fields
    BY <1>s, ShownType DEF States
  <2>2. reported' \subseteq Settled \X Fields
    <3>1. reported \subseteq Settled \X Fields
      BY DEF StatusInv, TypeOK
    <3>2. <<s, Shown(s, fields')>> \in Settled \X Fields
      BY <2>1
    <3> QED BY <3>1, <3>2, <1>s
  <2>3. state' # "unknown" => (fields'.finished <=> state' \in Settled)
    BY <1>s
  <2>4. state' \in States
    BY <1>s, <2>1
  <2> QED BY <1>s, <2>2, <2>3, <2>4 DEF StatusInv, TypeOK
<1>2. \A r \in Requests : RequestInv(r)'
  BY <1>s DEF StatusInv, RequestInv, Agrees, Settled
<1> QED BY <1>1, <1>2, <1>s DEF StatusInv

\* The job is removed or retried: the requests that run are no longer promised anything.
LEMMA LeavesInv ==
  ASSUME StatusInv, Remove \/ OperatorRetry
  PROVE  StatusInv'
<1>s. /\ state' \in {"unknown", "waiting"}
      /\ fields' \in Fields /\ (state' = "waiting" => ~fields'.finished)
      /\ moved' = [r \in Requests |-> moved[r] \/ phase[r] \in {"getState", "getJob again"}]
      /\ UNCHANGED <<runs, reported, link, drops, phase, snapshot, seen, reply>>
  <2>1. CASE Remove
    BY <2>1 DEF Remove, Leaves, StatusInv, TypeOK, linkVars, requestVars
  <2>2. CASE OperatorRetry
    BY <2>2, FreshType DEF OperatorRetry, Leaves, linkVars, requestVars
  <2> QED BY <2>1, <2>2
<1>1. TypeOK'
  BY <1>s DEF StatusInv, TypeOK, States, Settled
<1>2. \A r \in Requests : RequestInv(r)'
  BY <1>s DEF StatusInv, RequestInv, Agrees, Settled
<1> QED BY <1>1, <1>2, <1>s DEF StatusInv, Settled

-----------------------------------------------------------------------------
(* The handler.                                                            *)

Replies == [code : {0, 200, 404, 500}, state : States, fields : Fields]

\* What a reply reports is of the state it names.
Consistent(rep) ==
  /\ rep.fields.reason # 0 => rep.state = "failed"
  /\ rep.fields.result # 0 => rep.state = "completed"

\* What is promised of a request depends on its own reads and on the job.
LEMMA RequestFrame ==
  ASSUME NEW q \in Requests, RequestInv(q), UNCHANGED <<state, fields, reported, moved>>,
         phase'[q] = phase[q], snapshot'[q] = snapshot[q], seen'[q] = seen[q], reply'[q] = reply[q]
  PROVE  RequestInv(q)'
<1>1. moved'[q] = moved[q] /\ state' = state /\ fields' = fields /\ reported' = reported
  OBVIOUS
<1>2. Agrees(q) => Agrees(q)'
  BY <1>1 DEF Agrees
<1> QED BY <1>1, <1>2, Zenon DEF RequestInv

\* A step of one request leaves the job and the other requests alone.
LEMMA OneRequest ==
  ASSUME StatusInv, NEW r \in Requests,
         NEW p \in {"none", "getState", "getJob again", "done"},
         NEW sn \in Fields, NEW se \in States, NEW rep \in Replies,
         phase' = [phase EXCEPT ![r] = p], snapshot' = [snapshot EXCEPT ![r] = sn],
         seen' = [seen EXCEPT ![r] = se], reply' = [reply EXCEPT ![r] = rep],
         UNCHANGED <<state, fields, runs, reported, link, drops, moved>>,
         Consistent(rep), rep.code = 200 => p = "done",
         ~moved[r] =>
           /\ p = "getState" /\ sn.finished => state \in Settled /\ sn = fields
           /\ p = "getJob again" => state \in Settled /\ se = state
           /\ p = "done" /\ rep.code = 200 /\ rep.state \in Settled =>
                <<rep.state, rep.fields>> \in reported
  PROVE  StatusInv'
<1>i. /\ phase \in [Requests -> {"none", "getState", "getJob again", "done"}]
      /\ snapshot \in [Requests -> Fields]
      /\ seen \in [Requests -> States]
      /\ reply \in [Requests -> Replies]
      /\ \A q \in Requests : Consistent(reply[q])
  BY DEF StatusInv, TypeOK, Replies, Consistent
<1>1. /\ phase' \in [Requests -> {"none", "getState", "getJob again", "done"}]
      /\ snapshot' \in [Requests -> Fields]
      /\ seen' \in [Requests -> States]
      /\ reply' \in [Requests -> Replies]
  BY <1>i
<1>2. ASSUME NEW q \in Requests
      PROVE  /\ Consistent(reply'[q])
             /\ RequestInv(q)'
             /\ reply'[q].code = 200 => phase'[q] = "done"
  <2>1. CASE q = r
    <3>1. phase'[q] = p /\ snapshot'[q] = sn /\ seen'[q] = se /\ reply'[q] = rep
      BY <2>1, <1>i
    <3>2. Consistent(reply'[q]) /\ (reply'[q].code = 200 => phase'[q] = "done")
      BY <3>1
    <3>3. RequestInv(q)'
      <4>1. moved'[q] = moved[r] /\ state' = state /\ fields' = fields /\ reported' = reported
        BY <2>1
      <4>2. <<rep.state, rep.fields>> \in reported => Agrees(q)'
        BY <3>1, <4>1 DEF Agrees
      <4> QED BY <3>1, <4>1, <4>2, Zenon DEF RequestInv
    <3> QED BY <3>2, <3>3
  <2>2. CASE q # r
    <3>1. /\ phase'[q] = phase[q] /\ snapshot'[q] = snapshot[q]
          /\ seen'[q] = seen[q] /\ reply'[q] = reply[q]
      BY <2>2, <1>i
    <3>2. RequestInv(q) /\ (reply[q].code = 200 => phase[q] = "done")
      BY DEF StatusInv
    <3>3. RequestInv(q)'
      BY <3>1, <3>2, RequestFrame
    <3> QED BY <3>1, <3>2, <3>3, <1>i
  <2> QED BY <2>1, <2>2
<1>3. TypeOK'
  BY <1>1, <1>2 DEF StatusInv, TypeOK, Replies, Consistent
<1> QED BY <1>2, <1>3 DEF StatusInv

\* The replies there are: an error, or what is shown of a job.
LEMMA ReplyTypes ==
  /\ \A code \in {0, 404, 500} :
       Bare(code) \in Replies /\ Consistent(Bare(code)) /\ Bare(code).code = code
  /\ \A s \in States, f \in Fields :
       /\ [code |-> 200, state |-> s, fields |-> Shown(s, f)] \in Replies
       /\ Consistent([code |-> 200, state |-> s, fields |-> Shown(s, f)])
<1>1. ASSUME NEW code \in {0, 404, 500}
      PROVE  Bare(code) \in Replies /\ Consistent(Bare(code)) /\ Bare(code).code = code
  BY FreshType DEF Bare, Replies, Consistent, States
<1>2. ASSUME NEW s \in States, NEW f \in Fields
      PROVE  /\ [code |-> 200, state |-> s, fields |-> Shown(s, f)] \in Replies
             /\ Consistent([code |-> 200, state |-> s, fields |-> Shown(s, f)])
  <2>1. /\ Shown(s, f) \in Fields
        /\ Shown(s, f).reason # 0 => s = "failed"
        /\ Shown(s, f).result # 0 => s = "completed"
    BY ShownType
  <2> HIDE DEF Shown
  <2> QED BY <2>1 DEF Replies, Consistent
<1> QED BY <1>1, <1>2

\* An error is promised nothing.
LEMMA ErrorReply ==
  ASSUME StatusInv, NEW r \in Requests, NEW rep \in Replies, Consistent(rep), rep.code # 200,
         phase' = [phase EXCEPT ![r] = "done"], reply' = [reply EXCEPT ![r] = rep],
         UNCHANGED <<state, fields, runs, reported, link, drops, snapshot, seen, moved>>
  PROVE  StatusInv'
<1> DEFINE sn == snapshot[r]
           se == seen[r]
           p  == "done"
<1>1. snapshot \in [Requests -> Fields] /\ seen \in [Requests -> States]
  BY DEF StatusInv, TypeOK
<1>2. /\ snapshot' = [snapshot EXCEPT ![r] = sn] /\ sn \in Fields
      /\ seen' = [seen EXCEPT ![r] = se] /\ se \in States
  BY <1>1
<1>3. /\ p \in {"none", "getState", "getJob again", "done"}
      /\ p # "getState" /\ p # "getJob again"
      /\ phase' = [phase EXCEPT ![r] = p]
      /\ rep.code = 200 => p = "done"
  OBVIOUS
<1> HIDE DEF sn, se, p
<1> QED BY <1>2, <1>3, OneRequest

\* Every step of a request: what it answers of a settled job is what its run was
\* reported as, because the job it read is the one it saw settled.
LEMMA HandlerInv ==
  ASSUME StatusInv, NEW r \in Requests,
         (\E readable \in BOOLEAN : GetJob(r, readable)) \/ GetState(r) \/ Reread(r) \/ ReadFails(r)
  PROVE  StatusInv'
<1>t. TypeOK
  BY DEF StatusInv
<1>i. /\ phase \in [Requests -> {"none", "getState", "getJob again", "done"}]
      /\ snapshot \in [Requests -> Fields] /\ snapshot[r] \in Fields
      /\ seen \in [Requests -> States] /\ seen[r] \in States
      /\ reply \in [Requests -> Replies] /\ reply[r] \in Replies
      /\ state \in States /\ fields \in Fields
  <2>1. /\ phase \in [Requests -> {"none", "getState", "getJob again", "done"}]
        /\ snapshot \in [Requests -> Fields]
        /\ seen \in [Requests -> States]
        /\ reply \in [Requests -> Replies]
        /\ state \in States /\ fields \in Fields
    BY <1>t, Zenon DEF TypeOK, Replies
  <2> QED BY <2>1
<1>f. state # "unknown" => (fields.finished <=> state \in Settled)
  BY <1>t DEF TypeOK
<1>c. Consistent(reply[r])
  BY <1>t DEF TypeOK, Consistent
<1>j. /\ state \in Settled => <<state, Shown(state, fields)>> \in reported
      /\ RequestInv(r)
      /\ reply[r].code = 200 => phase[r] = "done"
  BY DEF StatusInv
<1>same. /\ snapshot = [snapshot EXCEPT ![r] = snapshot[r]]
         /\ seen = [seen EXCEPT ![r] = seen[r]]
         /\ reply = [reply EXCEPT ![r] = reply[r]]
  BY <1>i
<1>1. ASSUME NEW readable \in BOOLEAN, GetJob(r, readable) PROVE StatusInv'
  <2>u. phase[r] = "none" /\ UNCHANGED <<state, fields, runs, reported, link, drops, seen, moved>>
    BY <1>1 DEF GetJob, jobVars, linkVars
  <2>1. CASE ~readable \/ state = "unknown"
    <3>1. /\ phase' = [phase EXCEPT ![r] = "done"]
          /\ reply' = [reply EXCEPT ![r] = Bare(404)]
          /\ snapshot' = snapshot
      BY <1>1, <2>1 DEF GetJob
    <3>2. Bare(404) \in Replies /\ Consistent(Bare(404)) /\ Bare(404).code # 200
      BY ReplyTypes
    <3> HIDE DEF Bare
    <3> QED BY <3>1, <3>2, <2>u, ErrorReply
  <2>2. CASE readable /\ state # "unknown"
    <3>1. /\ phase' = [phase EXCEPT ![r] = "getState"]
          /\ snapshot' = [snapshot EXCEPT ![r] = fields]
          /\ reply' = reply
      BY <1>1, <2>2 DEF GetJob
    <3> DEFINE rep == reply[r]
               se == seen[r]
    <3>2. rep.code # 200 /\ rep \in Replies /\ Consistent(rep) /\ se \in States
      BY <2>u, <1>i, <1>j, <1>c
    <3>3. reply' = [reply EXCEPT ![r] = rep] /\ seen' = [seen EXCEPT ![r] = se]
      BY <3>1, <2>u, <1>same
    <3>4. fields \in Fields /\ (fields.finished => state \in Settled)
      BY <2>2, <1>i, <1>f
    <3> HIDE DEF rep, se
    <3> QED BY <3>1, <3>2, <3>3, <3>4, <2>u, OneRequest
  <2> QED BY <2>1, <2>2
<1>2. CASE GetState(r)
  <2>u. /\ phase[r] = "getState"
        /\ seen' = [seen EXCEPT ![r] = state]
        /\ UNCHANGED <<state, fields, runs, reported, link, drops, snapshot, moved>>
    BY <1>2 DEF GetState, jobVars, linkVars
  <2>1. CASE state \in Settled /\ ~snapshot[r].finished
    <3>1. phase' = [phase EXCEPT ![r] = "getJob again"] /\ reply' = reply
      BY <1>2, <2>1 DEF GetState
    <3>2. reply[r].code # 200
      BY <2>u, <1>j
    <3> QED BY <3>1, <3>2, <2>1, <2>u, <1>i, <1>c, <1>same, OneRequest
  <2>2. CASE ~(state \in Settled /\ ~snapshot[r].finished)
    <3> DEFINE rep == [code |-> 200, state |-> state, fields |-> Shown(state, snapshot[r])]
    <3>1. phase' = [phase EXCEPT ![r] = "done"] /\ reply' = [reply EXCEPT ![r] = rep]
      BY <1>2, <2>2 DEF GetState, Respond
    <3>2. rep \in Replies /\ Consistent(rep)
      <4>1. state \in States /\ snapshot[r] \in Fields
        BY <1>i
      <4> QED BY <4>1, ReplyTypes
    <3>3. ASSUME ~moved[r], rep.state \in Settled
          PROVE  <<rep.state, rep.fields>> \in reported
      <4>1. state \in Settled /\ snapshot[r].finished
        BY <3>3, <2>2
      <4>2. snapshot[r] = fields
        BY <4>1, <3>3, <2>u, <1>j DEF RequestInv
      <4> QED BY <4>1, <4>2, <1>j
    <3> HIDE DEF rep
    <3> QED BY <3>1, <3>2, <3>3, <2>u, <1>i, <1>same, OneRequest
  <2> QED BY <2>1, <2>2
<1>3. CASE Reread(r)
  <2> DEFINE sn == IF state = "unknown" THEN snapshot[r] ELSE fields
             rep == [code |-> 200, state |-> seen[r], fields |-> Shown(seen[r], sn)]
  <2>u. /\ phase[r] = "getJob again"
        /\ phase' = [phase EXCEPT ![r] = "done"]
        /\ snapshot' = [snapshot EXCEPT ![r] = sn]
        /\ UNCHANGED <<state, fields, runs, reported, link, drops, seen, moved>>
    BY <1>3 DEF Reread, Respond, jobVars, linkVars
  <2>1. sn \in Fields
    BY <1>i
  <2>2. reply' = [reply EXCEPT ![r] = rep]
    <3>1. snapshot'[r] = sn
      BY <2>u, <1>i
    <3> QED BY <3>1, <1>3 DEF Reread, Respond
  <2>3. rep \in Replies /\ Consistent(rep)
    <3>1. seen[r] \in States
      BY <1>i
    <3> HIDE DEF sn
    <3> QED BY <3>1, <2>1, ReplyTypes
  <2>4. ASSUME ~moved[r] PROVE <<rep.state, rep.fields>> \in reported
    <3>1. state \in Settled /\ seen[r] = state
      BY <2>4, <2>u, <1>j DEF RequestInv
    <3>2. sn = fields
      BY <3>1 DEF Settled
    <3> QED BY <3>1, <3>2, <1>j
  <2> HIDE DEF rep, sn
  <2> QED BY <2>u, <2>1, <2>2, <2>3, <2>4, <1>i, <1>same, OneRequest
<1>4. CASE ReadFails(r)
  <2>1. /\ phase' = [phase EXCEPT ![r] = "done"]
        /\ reply' = [reply EXCEPT ![r] = Bare(500)]
        /\ UNCHANGED <<state, fields, runs, reported, link, drops, snapshot, seen, moved>>
    BY <1>4 DEF ReadFails, jobVars, linkVars
  <2>2. Bare(500) \in Replies /\ Consistent(Bare(500)) /\ Bare(500).code # 200
    BY ReplyTypes
  <2> HIDE DEF Bare
  <2> QED BY <2>1, <2>2, ErrorReply
<1> QED BY <1>1, <1>2, <1>3, <1>4

\* The connection is lost or comes back.
LEMMA LinkInv ==
  ASSUME StatusInv, LinkDrops \/ LinkReturns
  PROVE  StatusInv'
<1>s. /\ drops' \in Nat
      /\ UNCHANGED <<state, fields, runs, reported, phase, snapshot, seen, reply, moved>>
  <2>1. drops \in Nat
    BY DEF StatusInv, TypeOK
  <2> QED BY <2>1 DEF LinkDrops, LinkReturns, jobVars, requestVars
<1>1. link' \in BOOLEAN
  BY Zenon DEF LinkDrops, LinkReturns
<1>2. TypeOK'
  BY <1>s, <1>1 DEF StatusInv, TypeOK
<1>3. \A r \in Requests : RequestInv(r)'
  BY <1>s DEF StatusInv, RequestInv, Agrees
<1> QED BY <1>2, <1>3, <1>s DEF StatusInv

\* Every step of the job, the requests and the client.
LEMMA StatusNext == StatusInv /\ [Next]_vars => StatusInv'
<1> SUFFICES ASSUME StatusInv, [Next]_vars PROVE StatusInv'
  OBVIOUS
<1>1. CASE UNCHANGED vars
  <2>s. UNCHANGED <<state, fields, runs, reported, link, drops, phase, snapshot, seen, reply, moved>>
    BY <1>1 DEF vars, jobVars, linkVars, requestVars
  <2>1. TypeOK'
    BY <2>s DEF StatusInv, TypeOK
  <2>2. \A r \in Requests : RequestInv(r)'
    BY <2>s DEF StatusInv, RequestInv, Agrees
  <2> QED BY <2>s, <2>1, <2>2 DEF StatusInv
<1> QED BY <1>1, RunsInv, SettleInv, LeavesInv, HandlerInv, LinkInv DEF Next

-----------------------------------------------------------------------------
(* The gauge.                                                              *)

\* One of the two scrapes began while the other was sampling.
Overlap(s, t) == t \in overtaken[s] \/ s \in overtaken[t]

\* The command that asks for queue q for scrape s has no reply yet.
Pending(s, q) == \E k \in 1..Len(asked) : asked[k] = <<s, q>>

\* What a label holds that scrape s finds set or missing is accounted for.
Explained(s, q, by) ==
  \/ by = s
  \/ by = Unset /\ (q \in refused[s] \/ overtaken[s] # {})
  \/ by \in Scrapes /\ Overlap(s, by)

\* Scrapes that sample at the same time overlap, and they alone have commands
\* without a reply: so whatever is in the gauge was set by a scrape that overlaps
\* each of them, and what is missing is still to come, was refused or was reset.
DepthInv ==
  /\ Depth!TypeOK
  /\ asked \in Seq(Scrapes \X Depth!QueueNames)
  /\ \A k \in 1..Len(asked) : stage[asked[k][1]] = "sampling"
  /\ \A s, t \in Depth!Sampling : s # t => Overlap(s, t)
  /\ \A s \in Depth!Sampling, q \in Depth!QueueNames :
       Explained(s, q, gauge[q]) \/ (gauge[q] = Unset /\ Pending(s, q))
  /\ \A s \in Scrapes, q \in Depth!QueueNames :
       stage[s] = "done" => Explained(s, q, report[s][q])

USE ApiReadsAssumption

\* A scrape has heard of the queues that none of its commands asks for any more.
LEMMA AwaitedPending ==
  ASSUME asked \in Seq(Scrapes \X Depth!QueueNames), NEW s \in Scrapes, NEW q \in Depth!QueueNames,
         Pending(s, q)
  PROVE  q \in Depth!Awaited(s)
<1>1. PICK k \in 1..Len(asked) : asked[k] = <<s, q>>
  BY DEF Pending
<1>2. asked[k][1] = s /\ asked[k][2] = q
  BY <1>1
<1> QED BY <1>2 DEF Depth!Awaited

\* Before the first scrape.
LEMMA DepthInit == Depth!Init => DepthInv
<1> SUFFICES ASSUME Depth!Init PROVE DepthInv
  OBVIOUS
<1>1. Depth!Empty \in [Depth!QueueNames -> Scrapes \cup {Unset}]
  BY DEF Depth!Empty
<1>2. asked = <<>> /\ asked \in Seq(Scrapes \X Depth!QueueNames) /\ 1..Len(asked) = {}
  BY DEF Depth!Init
<1>3. Depth!TypeOK
  BY <1>1, <1>2 DEF Depth!Init, Depth!TypeOK
<1>4. Depth!Sampling = {} /\ \A s \in Scrapes : stage[s] = "none"
  BY DEF Depth!Init, Depth!Sampling
<1> QED BY <1>2, <1>3, <1>4 DEF DepthInv

\* A scrape resets the gauge and asks for every queue, or is refused all of them;
\* those that were sampling overlap it from then on.
LEMMA CollectInv ==
  ASSUME DepthInv, NEW s \in Scrapes, Depth!Collect(s)
  PROVE  DepthInv'
<1> DEFINE QN == Depth!QueueNames
           commands == Depth!Commands(s)
<1>i. /\ stage \in [Scrapes -> {"none", "sampling", "done"}]
      /\ report \in [Scrapes -> [QN -> Scrapes \cup {Unset}]]
      /\ refused \in [Scrapes -> SUBSET QN]
      /\ overtaken \in [Scrapes -> SUBSET Scrapes]
      /\ asked \in Seq(Scrapes \X QN)
  BY DEF DepthInv, Depth!TypeOK
<1>s. /\ stage[s] = "none"
      /\ stage' = [stage EXCEPT ![s] = "sampling"]
      /\ gauge' = Depth!Empty
      /\ asked' = IF link THEN asked \o commands ELSE asked
      /\ refused' = [refused EXCEPT ![s] = IF link THEN {} ELSE QN]
      /\ overtaken' = [t \in Scrapes |-> IF t \in Depth!Sampling THEN overtaken[t] \cup {s} ELSE overtaken[t]]
      /\ report' = report
  BY DEF Depth!Collect
<1>c. /\ commands \in Seq(Scrapes \X QN) /\ Len(commands) = Len(Queues)
      /\ \A k \in 1..Len(Queues) : commands[k] = <<s, Queues[k]>> /\ Queues[k] \in QN
      /\ Len(Queues) \in Nat
  <2>1. Len(Queues) \in Nat /\ \A k \in 1..Len(Queues) : Queues[k] \in QN
    BY DEF Depth!QueueNames
  <2>2. commands = [k \in 1..Len(Queues) |-> <<s, Queues[k]>>]
    BY DEF Depth!Commands
  <2>3. \A k \in 1..Len(Queues) : <<s, Queues[k]>> \in Scrapes \X QN
    BY <2>1
  <2> HIDE DEF commands, QN
  <2> QED BY <2>1, <2>2, <2>3
<1>a. /\ asked' \in Seq(Scrapes \X QN)
      /\ \A k \in 1..Len(asked') : asked'[k][1] = s \/ \E l \in 1..Len(asked) : asked'[k] = asked[l]
      /\ link => \A k \in 1..Len(Queues) : \E l \in 1..Len(asked') : asked'[l] = <<s, Queues[k]>>
  <2> HIDE DEF commands, QN
  <2>1. CASE link
    <3>1. /\ asked' = asked \o commands /\ asked' \in Seq(Scrapes \X QN)
          /\ Len(asked') = Len(asked) + Len(Queues) /\ Len(asked) \in Nat
          /\ \A k \in 1..Len(asked) : asked'[k] = asked[k]
          /\ \A k \in 1..Len(Queues) : asked'[Len(asked) + k] = commands[k]
      <4>1. asked' = asked \o commands
        BY <2>1, <1>s
      <4>2. \A k \in 1..(Len(asked) + Len(commands)) :
              (asked \o commands)[k] = IF k <= Len(asked) THEN asked[k] ELSE commands[k - Len(asked)]
        BY <1>c, <1>i, ConcatProperties
      <4>3. asked \o commands \in Seq(Scrapes \X QN) /\ Len(asked \o commands) = Len(asked) + Len(commands)
        BY <1>c, <1>i, ConcatProperties
      <4>4. Len(asked) \in Nat
        BY <1>i
      <4>5. ASSUME NEW k \in 1..Len(asked) PROVE asked'[k] = asked[k]
        BY <4>1, <4>2, <4>4, <1>c
      <4>6. ASSUME NEW k \in 1..Len(Queues) PROVE asked'[Len(asked) + k] = commands[k]
        <5>1. /\ Len(asked) + k \in 1..(Len(asked) + Len(commands))
              /\ ~(Len(asked) + k <= Len(asked))
              /\ (Len(asked) + k) - Len(asked) = k
          BY <4>4, <1>c
        <5> QED BY <5>1, <4>1, <4>2
      <4> QED BY <4>1, <4>3, <4>4, <4>5, <4>6, <1>c
    <3>2. ASSUME NEW k \in 1..Len(asked'), k > Len(asked) PROVE asked'[k][1] = s
      <4>1. k - Len(asked) \in 1..Len(Queues) /\ Len(asked) + (k - Len(asked)) = k
        BY <3>1, <3>2, <1>c
      <4> QED BY <4>1, <3>1, <1>c
    <3>3. ASSUME NEW k \in 1..Len(Queues)
          PROVE  \E l \in 1..Len(asked') : asked'[l] = <<s, Queues[k]>>
      <4>1. Len(asked) + k \in 1..Len(asked')
        BY <3>1, <1>c
      <4> QED BY <4>1, <3>1, <1>c
    <3>4. \A k \in 1..Len(asked') : k > Len(asked) \/ k \in 1..Len(asked)
      BY <3>1
    <3> QED BY <3>1, <3>2, <3>3, <3>4
  <2>2. CASE ~link
    BY <2>2, <1>s, <1>i
  <2> QED BY <2>1, <2>2
<1>m. /\ Depth!Sampling' = Depth!Sampling \cup {s}
      /\ s \notin Depth!Sampling
      /\ \A t \in Depth!Sampling : s \in overtaken'[t]
      /\ \A t \in Scrapes : overtaken[t] \subseteq overtaken'[t]
      /\ \A t \in Scrapes : t # s => refused'[t] = refused[t]
  BY <1>s, <1>i DEF Depth!Sampling
<1>1. Depth!TypeOK'
  <2>1. gauge' \in [QN -> Scrapes \cup {Unset}]
    BY <1>s DEF Depth!Empty
  <2>2. /\ stage' \in [Scrapes -> {"none", "sampling", "done"}]
        /\ refused' \in [Scrapes -> SUBSET QN]
        /\ overtaken' \in [Scrapes -> SUBSET Scrapes]
    BY <1>s, <1>i
  <2> QED BY <2>1, <2>2, <1>i, <1>s, <1>a DEF Depth!TypeOK
<1>2. \A k \in 1..Len(asked') : stage'[asked'[k][1]] = "sampling"
  <2> SUFFICES ASSUME NEW k \in 1..Len(asked') PROVE stage'[asked'[k][1]] = "sampling"
    OBVIOUS
  <2>1. CASE asked'[k][1] = s
    BY <2>1, <1>s, <1>i
  <2>2. CASE \E l \in 1..Len(asked) : asked'[k] = asked[l]
    <3>1. PICK l \in 1..Len(asked) : asked'[k] = asked[l]
      BY <2>2
    <3>2. stage[asked[l][1]] = "sampling" /\ asked[l][1] \in Scrapes
      BY <1>i DEF DepthInv
    <3> QED BY <3>1, <3>2, <1>s, <1>i
  <2> QED BY <2>1, <2>2, <1>a
<1>3. ASSUME NEW t \in Depth!Sampling', NEW u \in Depth!Sampling', t # u
      PROVE  Overlap(t, u)'
  BY <1>3, <1>m DEF DepthInv, Overlap, Depth!Sampling
<1>4. ASSUME NEW t \in Depth!Sampling', NEW q \in QN
      PROVE  Explained(t, q, gauge[q])' \/ (gauge'[q] = Unset /\ Pending(t, q)')
  <2>1. gauge'[q] = Unset
    BY <1>s DEF Depth!Empty
  <2>2. CASE t # s
    <3>1. s \in overtaken'[t]
      BY <2>2, <1>m
    <3> QED BY <2>1, <3>1 DEF Explained
  <2>3. CASE t = s /\ link
    <3>1. PICK k \in 1..Len(Queues) : q = Queues[k]
      BY DEF Depth!QueueNames
    <3> QED BY <3>1, <2>1, <2>3, <1>a DEF Pending
  <2>4. CASE t = s /\ ~link
    <3>1. refused'[t] = QN
      BY <2>4, <1>s, <1>i
    <3> QED BY <2>1, <3>1 DEF Explained
  <2> QED BY <2>2, <2>3, <2>4
<1>5. ASSUME NEW t \in Scrapes, NEW q \in QN, stage'[t] = "done"
      PROVE  Explained(t, q, report[t][q])'
  <2>1. t # s /\ stage[t] = "done" /\ report' = report
    BY <1>5, <1>s, <1>i
  <2>2. Explained(t, q, report[t][q])
    BY <2>1 DEF DepthInv
  <2> QED BY <2>1, <2>2, <1>m DEF Explained, Overlap
<1> QED BY <1>1, <1>2, <1>3, <1>4, <1>5, <1>a DEF DepthInv, Depth!QueueNames

\* A reply: its sample was asked for by a scrape that overlaps all those that sample.
LEMMA CountsArriveInv ==
  ASSUME DepthInv, NEW ok \in BOOLEAN, Depth!CountsArrive(ok)
  PROVE  DepthInv'
<1> DEFINE QN == Depth!QueueNames
           by == Head(asked)[1]
           of == Head(asked)[2]
<1>i. /\ gauge \in [QN -> Scrapes \cup {Unset}]
      /\ refused \in [Scrapes -> SUBSET QN]
      /\ asked \in Seq(Scrapes \X QN)
  BY DEF DepthInv, Depth!TypeOK
<1>s. /\ asked # <<>> /\ asked' = Tail(asked)
      /\ gauge' = IF ok THEN [gauge EXCEPT ![of] = by] ELSE gauge
      /\ refused' = IF ok THEN refused ELSE [refused EXCEPT ![by] = @ \cup {of}]
      /\ UNCHANGED <<stage, report, overtaken>>
  BY DEF Depth!CountsArrive
<1>a. /\ asked' \in Seq(Scrapes \X QN)
      /\ \A k \in 1..Len(asked') : k + 1 \in 1..Len(asked) /\ asked'[k] = asked[k + 1]
      /\ \A k \in 1..Len(asked) : k = 1 \/ (k - 1 \in 1..Len(asked') /\ asked'[k - 1] = asked[k])
      /\ Len(asked) \in Nat \ {0} /\ asked[1] = Head(asked) /\ Head(asked) \in Scrapes \X QN
  <2> HIDE DEF QN
  <2>1. /\ Head(asked) \in Scrapes \X QN /\ Tail(asked) \in Seq(Scrapes \X QN)
        /\ Len(Tail(asked)) = Len(asked) - 1
        /\ \A k \in 1..Len(Tail(asked)) : Tail(asked)[k] = asked[k + 1]
    BY <1>i, <1>s, HeadTailProperties
  <2>2. Len(asked) \in Nat \ {0} /\ asked[1] = Head(asked)
    BY <1>i, <1>s, EmptySeq
  <2>3. ASSUME NEW k \in 1..Len(asked), k # 1
        PROVE  k - 1 \in 1..Len(Tail(asked)) /\ Tail(asked)[k - 1] = asked[k]
    <3>1. k - 1 \in 1..Len(Tail(asked)) /\ (k - 1) + 1 = k
      BY <2>1, <2>2, <2>3
    <3> QED BY <3>1, <2>1
  <2>4. \A k \in 1..Len(Tail(asked)) : k + 1 \in 1..Len(asked)
    BY <2>1, <2>2
  <2> QED BY <2>1, <2>2, <2>3, <2>4, <1>s
<1>b. by \in Depth!Sampling /\ of \in QN /\ by # Unset /\ asked[1] = <<by, of>>
  BY <1>a DEF DepthInv, Depth!Sampling
<1> HIDE DEF by, of
<1>1. Depth!TypeOK'
  <2>1. by \in Scrapes
    BY <1>b DEF Depth!Sampling
  <2>2. gauge' \in [QN -> Scrapes \cup {Unset}]
    BY <2>1, <1>s, <1>i
  <2>3. refused' \in [Scrapes -> SUBSET QN]
    BY <2>1, <1>b, <1>s, <1>i
  <2>4. \A k \in 1..Len(asked') : asked'[k] \in Scrapes \X QN
    BY <1>a
  <2> QED BY <2>2, <2>3, <2>4, <1>s DEF DepthInv, Depth!TypeOK
<1>2. \A k \in 1..Len(asked') : stage'[asked'[k][1]] = "sampling"
  BY <1>a, <1>s DEF DepthInv
<1>3. Depth!Sampling' = Depth!Sampling
  BY <1>s DEF Depth!Sampling
<1>4. ASSUME NEW s \in Depth!Sampling, NEW q \in QN
      PROVE  Explained(s, q, gauge[q])' \/ (gauge'[q] = Unset /\ Pending(s, q)')
  <2>1. s \in Scrapes /\ by \in Scrapes /\ (s # by => Overlap(s, by))
    BY <1>b DEF DepthInv, Depth!Sampling
  <2>2. Explained(s, q, gauge[q]) \/ (gauge[q] = Unset /\ Pending(s, q))
    BY DEF DepthInv
  <2>3. CASE ok /\ q = of
    <3>1. gauge'[q] = by
      BY <2>3, <1>b, <1>s, <1>i
    <3> QED BY <3>1, <2>1, <1>s DEF Explained, Overlap
  <2>4. CASE ~(ok /\ q = of)
    <3>1. gauge'[q] = gauge[q]
      BY <2>4, <1>b, <1>s, <1>i
    <3>2. refused[s] \subseteq refused'[s]
      BY <2>1, <1>s, <1>i
    <3>3. CASE Explained(s, q, gauge[q])
      BY <3>1, <3>2, <3>3, <1>s DEF Explained, Overlap
    <3>4. CASE gauge[q] = Unset /\ Pending(s, q)
      <4>1. PICK k \in 1..Len(asked) : asked[k] = <<s, q>>
        BY <3>4 DEF Pending
      <4>2. CASE k = 1
        <5>1. s = by /\ q = of /\ ~ok
          BY <4>1, <4>2, <2>4, <1>b
        <5>2. q \in refused'[s]
          BY <5>1, <2>1, <1>s, <1>i
        <5> QED BY <5>2, <3>1, <3>4 DEF Explained
      <4>3. CASE k # 1
        <5>1. k - 1 \in 1..Len(asked') /\ asked'[k - 1] = <<s, q>>
          BY <4>1, <4>3, <1>a
        <5> QED BY <5>1, <3>1, <3>4 DEF Pending
      <4> QED BY <4>2, <4>3
    <3> QED BY <2>2, <3>3, <3>4
  <2> QED BY <2>3, <2>4
<1>5. ASSUME NEW s \in Scrapes, NEW q \in QN, stage'[s] = "done"
      PROVE  Explained(s, q, report[s][q])'
  <2>1. Explained(s, q, report[s][q])
    BY <1>5, <1>s DEF DepthInv
  <2>2. refused[s] \subseteq refused'[s]
    BY <1>s, <1>i
  <2> QED BY <2>1, <2>2, <1>s DEF Explained, Overlap
<1>6. \A s, t \in Depth!Sampling : s # t => Overlap(s, t)'
  BY <1>s DEF DepthInv, Overlap
<1> QED BY <1>1, <1>2, <1>3, <1>4, <1>5, <1>6, <1>a DEF DepthInv, Depth!QueueNames

\* A scrape that has heard of every queue renders what is accounted for.
LEMMA RenderInv ==
  ASSUME DepthInv, NEW s \in Scrapes, Depth!Render(s)
  PROVE  DepthInv'
<1> DEFINE QN == Depth!QueueNames
<1>i. /\ stage \in [Scrapes -> {"none", "sampling", "done"}]
      /\ report \in [Scrapes -> [QN -> Scrapes \cup {Unset}]]
      /\ gauge \in [QN -> Scrapes \cup {Unset}]
      /\ asked \in Seq(Scrapes \X QN)
  BY DEF DepthInv, Depth!TypeOK
<1>s. /\ stage[s] = "sampling" /\ Depth!Awaited(s) = {}
      /\ stage' = [stage EXCEPT ![s] = "done"]
      /\ report' = [report EXCEPT ![s] = gauge]
      /\ UNCHANGED <<gauge, asked, refused, overtaken>>
  BY DEF Depth!Render
<1>1. Depth!TypeOK'
  <2>1. /\ stage' \in [Scrapes -> {"none", "sampling", "done"}]
        /\ report' \in [Scrapes -> [QN -> Scrapes \cup {Unset}]]
    BY <1>s, <1>i
  <2> QED BY <2>1, <1>s DEF DepthInv, Depth!TypeOK
<1>2. ASSUME NEW k \in 1..Len(asked) PROVE stage'[asked[k][1]] = "sampling"
  <2>1. stage[asked[k][1]] = "sampling" /\ asked[k][1] \in Scrapes
    BY <1>i DEF DepthInv
  <2>2. asked[k][1] # s
    BY <1>s DEF Depth!Awaited
  <2> QED BY <2>1, <2>2, <1>s, <1>i
<1>3. Depth!Sampling' \subseteq Depth!Sampling
  BY <1>s, <1>i DEF Depth!Sampling
<1>4. \A t \in Depth!Sampling, q \in QN :
        Explained(t, q, gauge[q])' \/ (gauge'[q] = Unset /\ Pending(t, q)')
  BY <1>s DEF DepthInv, Explained, Overlap, Pending
<1>5. ASSUME NEW t \in Scrapes, NEW q \in QN, stage'[t] = "done"
      PROVE  Explained(t, q, report[t][q])'
  <2>1. CASE t = s
    <3>1. s \in Depth!Sampling /\ report'[t] = gauge
      BY <2>1, <1>s, <1>i DEF Depth!Sampling
    <3>2. ~Pending(s, q)
      BY <1>s, <1>i, AwaitedPending
    <3>3. Explained(s, q, gauge[q])
      BY <3>1, <3>2 DEF DepthInv
    <3> QED BY <2>1, <3>1, <3>3, <1>s DEF Explained, Overlap
  <2>2. CASE t # s
    <3>1. stage[t] = "done" /\ report'[t] = report[t]
      BY <2>2, <1>5, <1>s, <1>i
    <3>2. Explained(t, q, report[t][q])
      BY <3>1 DEF DepthInv
    <3> QED BY <3>1, <3>2, <1>s DEF Explained, Overlap
  <2> QED BY <2>1, <2>2
<1>6. \A t, u \in Depth!Sampling : t # u => Overlap(t, u)'
  BY <1>s DEF DepthInv, Overlap
<1> QED BY <1>1, <1>2, <1>3, <1>4, <1>5, <1>6, <1>s DEF DepthInv, Depth!QueueNames

\* A step of the status requests leaves the gauge alone.
LEMMA DepthStutter == DepthInv /\ UNCHANGED scrapeVars => DepthInv'
<1> SUFFICES ASSUME DepthInv, UNCHANGED scrapeVars PROVE DepthInv'
  OBVIOUS
<1>s. UNCHANGED <<gauge, asked, stage, report, refused, overtaken>>
  BY DEF scrapeVars
<1>1. Depth!TypeOK' /\ Depth!Sampling' = Depth!Sampling
  BY <1>s DEF DepthInv, Depth!TypeOK, Depth!Sampling
<1>2. \A s, q, by : Explained(s, q, by)' = Explained(s, q, by) /\ Pending(s, q)' = Pending(s, q)
  BY <1>s DEF Explained, Overlap, Pending
<1>3. \A s, t : Overlap(s, t)' = Overlap(s, t)
  BY <1>s DEF Overlap
<1> QED BY <1>s, <1>1, <1>2, <1>3 DEF DepthInv, Depth!QueueNames

-----------------------------------------------------------------------------
(* The theorems.                                                           *)

\* The two routes share the client, and neither disturbs the other.
THEOREM ReadsInvariant == ReadsSpec => [](StatusInv /\ DepthInv)
<1>1. ReadsInit => StatusInv /\ DepthInv
  BY StatusInit, DepthInit DEF ReadsInit
<1>2. StatusInv /\ DepthInv /\ [ReadsNext]_readsVars => StatusInv' /\ DepthInv'
  <2> SUFFICES ASSUME StatusInv, DepthInv, [ReadsNext]_readsVars
               PROVE  StatusInv' /\ DepthInv'
    OBVIOUS
  <2>1. CASE Next /\ UNCHANGED scrapeVars
    BY <2>1, StatusNext, DepthStutter
  <2>2. CASE Depth!Next /\ UNCHANGED vars
    BY <2>2, StatusNext, CollectInv, RenderInv, CountsArriveInv DEF Depth!Next
  <2>3. CASE UNCHANGED readsVars
    BY <2>3, StatusNext, DepthStutter DEF readsVars
  <2> QED BY <2>1, <2>2, <2>3 DEF ReadsNext
<1> QED BY <1>1, <1>2, PTL DEF ReadsSpec

\* Type correctness of both routes.
THEOREM TypeCorrect == ReadsSpec => []ReadsTypeOK
<1>1. StatusInv /\ DepthInv => ReadsTypeOK
  BY DEF StatusInv, DepthInv, ReadsTypeOK
<1> QED BY <1>1, ReadsInvariant, PTL

\* One re-read is enough: a reply that calls a job completed or failed reports what a
\* run of it settled with, unless the job was removed or retried under the request.
THEOREM OneRereadIsEnough == ReadsSpec => []SettledRepliesAgree
<1>1. StatusInv => SettledRepliesAgree
  <2> SUFFICES ASSUME StatusInv, NEW r \in Requests,
                      reply[r].code = 200, reply[r].state \in Settled, ~moved[r]
               PROVE  Agrees(r)
    BY DEF SettledRepliesAgree
  <2>1. RequestInv(r) /\ phase[r] = "done"
    BY DEF StatusInv
  <2> QED BY <2>1 DEF RequestInv
<1> QED BY <1>1, ReadsInvariant, PTL

\* However many scrapes share the gauge: each renders its own samples, but for what
\* Redis refused it and what scrapes that ran beside it reset or set.
THEOREM SamplesExplained == ReadsSpec => []SamplesAccountedFor
<1>1. DepthInv => SamplesAccountedFor
  <2> SUFFICES ASSUME DepthInv, NEW s \in Scrapes, stage[s] = "done", NEW q \in Depth!QueueNames
               PROVE  \/ report[s][q] = s
                      \/ report[s][q] = Unset /\ (q \in refused[s] \/ overtaken[s] # {})
                      \/ /\ report[s][q] \in Scrapes
                         /\ report[s][q] \in overtaken[s] \/ s \in overtaken[report[s][q]]
    BY DEF SamplesAccountedFor
  <2>1. Explained(s, q, report[s][q])
    BY DEF DepthInv
  <2> QED BY <2>1 DEF Explained, Overlap
<1> QED BY <1>1, ReadsInvariant, PTL

=============================================================================
