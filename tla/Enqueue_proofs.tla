--------------------------- MODULE Enqueue_proofs ---------------------------
(***************************************************************************)
(* The producer side for any requests, keys and defects: what the          *)
(* idempotency keys and the client's offline buffer promise.               *)
(***************************************************************************)
EXTENDS Enqueue, FiniteSetTheorems, TLAPS

JobsOfKey(k) == {j \in jobs : Key[j[1]] = k}

\* Job j answers request r: it is r's own or, with a key, one of the same key.
Answers(j, r) == IF Key[r] = NoKey THEN j[1] = r ELSE Key[j[1]] = Key[r]

\* What the phase of a request tells about its jobs and its reply.  Unless an add has
\* landed whose reply is still there, every job of the request is one whose reply
\* was lost; and the answer may be another request's job only if that is so too.
RequestInv(r) ==
  /\ Cardinality(JobsOf(r)) <= 1 + lost[r]
  /\ phase[r] \in {"adding", "landed"} \/ JobsOf(r) # {} => Defects[r] = {}
  /\ phase[r] \in {"none", "adding", "landed"} <=> status[r] = 0
  /\ phase[r] \in {"none", "adding"} \/ status[r] \in Refusals => Cardinality(JobsOf(r)) <= lost[r]
  /\ phase[r] = "landed" \/ status[r] = 202 =>
       /\ answer[r] \in jobs
       /\ Answers(answer[r], r)
       /\ answer[r][1] # r => Cardinality(JobsOf(r)) <= lost[r]

\* A live key stands for one of its jobs, which its expiries so far do not account for.
KeyInv(k) ==
  /\ dedup[k] # NoJob => Key[dedup[k][1]] = k
  /\ Cardinality(JobsOfKey(k)) <= expiries[k] + (IF dedup[k] = NoJob THEN 0 ELSE 1)

EnqueueInv ==
  /\ TypeOK
  /\ IsFiniteSet(jobs)
  /\ \A r \in Requests : RequestInv(r)
  /\ \A k \in Keys : KeyInv(k)
  /\ BlameIsStable

-----------------------------------------------------------------------------
(* The replies, and sets of jobs.                                          *)

\* The statuses of the errors a request can meet.
LEMMA StatusCodes ==
  /\ statusCode("none") = 202
  /\ statusCode("Error") = 500
  /\ \A e \in {"FST_ERR_CTP_INVALID_MEDIA_TYPE", "FST_ERR_CTP_BODY_TOO_LARGE",
              "FST_ERR_CTP_INVALID_JSON_BODY", "FastifyValidationError",
              "UnknownJobError", "PayloadValidationError", "NonRetryableError"} :
       statusCode(e) \in {400, 413, 415}
<1>1. /\ DOMAIN readStatusCode = {"HttpError", "FST_ERR_CTP_BODY_TOO_LARGE",
                                  "FST_ERR_CTP_INVALID_MEDIA_TYPE", "FST_ERR_CTP_INVALID_JSON_BODY"}
      /\ readStatusCode["FST_ERR_CTP_BODY_TOO_LARGE"] = 413
      /\ readStatusCode["FST_ERR_CTP_INVALID_MEDIA_TYPE"] = 415
      /\ readStatusCode["FST_ERR_CTP_INVALID_JSON_BODY"] = 400
  BY DEF readStatusCode
<1>2. statusCode("none") = 202
  BY <1>1 DEF statusCode
<1>3. statusCode("Error") = 500
  BY <1>1 DEF statusCode
<1>4. \A e \in {"FST_ERR_CTP_INVALID_MEDIA_TYPE", "FST_ERR_CTP_BODY_TOO_LARGE",
               "FST_ERR_CTP_INVALID_JSON_BODY", "FastifyValidationError",
               "UnknownJobError", "PayloadValidationError", "NonRetryableError"} :
        statusCode(e) \in {400, 413, 415}
  BY <1>1 DEF statusCode
<1> QED BY <1>2, <1>3, <1>4

\* What validation finds, if it finds anything, has a status of its own below 500.
LEMMA ValidationError ==
  ASSUME NEW r \in Requests
  PROVE  /\ validationError(r) = "none" <=> Defects[r] \ {"oversize"} = {}
         /\ validationError(r) # "none" => statusCode(validationError(r)) \in {400, 413, 415}
<1> USE EnqueueAssumption
<1>1. Defects[r] \subseteq DefectKinds
  OBVIOUS
<1>2. \A d \in DefectKinds : has(r, d) <=> d \in Defects[r]
  BY DEF has
<1>3. DefectKinds = {"content type", "body size", "body syntax", "body schema",
                     "unknown name", "payload", "delay", "oversize"}
  BY DEF DefectKinds
<1>4. validationError(r) = "none" <=>
        ~\E d \in DefectKinds \ {"oversize"} : has(r, d)
  BY <1>3 DEF validationError
<1>5. validationError(r) = "none" <=> Defects[r] \ {"oversize"} = {}
  <2> HIDE DEF validationError
  <2> QED BY <1>1, <1>2, <1>4
<1>6. validationError(r) \in {"FST_ERR_CTP_INVALID_MEDIA_TYPE", "FST_ERR_CTP_BODY_TOO_LARGE",
                              "FST_ERR_CTP_INVALID_JSON_BODY", "FastifyValidationError",
                              "UnknownJobError", "PayloadValidationError",
                              "NonRetryableError", "none"}
  BY DEF validationError
<1> HIDE DEF validationError, statusCode
<1> QED BY <1>5, <1>6, StatusCodes

\* What is answered at once, by what is wrong with the request and the client.
LEMMA StatusOf ==
  ASSUME NEW r \in Requests, link \in BOOLEAN
  PROVE  /\ statusOf(r) \in {202} \cup Refusals
         /\ statusOf(r) \in Refusals => (statusOf(r) < 500 <=> Defects[r] \ {"oversize"} # {})
<1>1. statusCode("none") = 202 /\ statusCode("Error") = 500
  BY StatusCodes
<1>2. \/ validationError(r) # "none" /\ errorOf(r) = validationError(r)
      \/ validationError(r) = "none" /\ errorOf(r) \in {"Error", "none"}
  BY DEF errorOf
<1> HIDE DEF statusCode, errorOf, validationError
<1> QED BY <1>1, <1>2, ValidationError DEF statusOf, Refusals

\* The jobs of a request and of a key are finite sets, counted by naturals.
LEMMA JobSets ==
  ASSUME IsFiniteSet(jobs)
  PROVE  /\ \A r : IsFiniteSet(JobsOf(r)) /\ Cardinality(JobsOf(r)) \in Nat
         /\ \A k : IsFiniteSet(JobsOfKey(k)) /\ Cardinality(JobsOfKey(k)) \in Nat
<1>1. \A r : JobsOf(r) \in SUBSET jobs
  BY DEF JobsOf
<1>2. \A k : JobsOfKey(k) \in SUBSET jobs
  BY DEF JobsOfKey
<1> QED BY <1>1, <1>2, FS_Subset, FS_CardinalityType

\* While the jobs stay the same, so do the sets of them.
LEMMA SameJobs ==
  ASSUME jobs' = jobs
  PROVE  /\ \A r : JobsOf(r)' = JobsOf(r)
         /\ \A k : JobsOfKey(k)' = JobsOfKey(k)
BY DEF JobsOf, JobsOfKey

-----------------------------------------------------------------------------
(* The steps of the model.                                                 *)

\* Before the first request.
LEMMA InitInv == Init => EnqueueInv
<1> SUFFICES ASSUME Init PROVE EnqueueInv
  OBVIOUS
<1> USE EnqueueAssumption
<1>1. TypeOK
  BY DEF Init, TypeOK
<1>2. IsFiniteSet(jobs) /\ (\A r : JobsOf(r) = {}) /\ (\A k : JobsOfKey(k) = {})
  BY FS_EmptySet DEF Init, JobsOf, JobsOfKey
<1>3. Cardinality({}) = 0
  BY FS_EmptySet
<1>4. \A r \in Requests : RequestInv(r)
  BY <1>2, <1>3 DEF Init, RequestInv, Refusals
<1>5. \A k \in Keys : KeyInv(k)
  BY <1>2, <1>3 DEF Init, KeyInv
<1>6. BlameIsStable
  BY DEF Init, BlameIsStable, Refusals
<1> QED BY <1>1, <1>2, <1>4, <1>5, <1>6 DEF EnqueueInv, Init

\* A refused request has no job, and is blamed for what is wrong with it.
LEMMA RefuseInv ==
  ASSUME EnqueueInv, NEW r \in Requests, Refuse(r)
  PROVE  EnqueueInv'
<1> USE EnqueueAssumption
<1>i. TypeOK /\ IsFiniteSet(jobs) /\ BlameIsStable
  BY DEF EnqueueInv
<1>s. /\ phase[r] = "none" /\ statusOf(r) \in Refusals
      /\ phase' = [phase EXCEPT ![r] = "done"]
      /\ status' = [status EXCEPT ![r] = statusOf(r)]
      /\ UNCHANGED <<jobs, dedup, link, answer, lost, drops, expiries>>
  BY <1>i, StatusOf DEF Refuse, TypeOK, redisVars
<1>1. TypeOK'
  BY <1>i, <1>s DEF TypeOK
<1>2. ASSUME NEW q \in Requests PROVE RequestInv(q)'
  <2>1. RequestInv(q) /\ JobsOf(q)' = JobsOf(q) /\ Answers(answer[q], q)' = Answers(answer[q], q)
    BY <1>s, SameJobs DEF EnqueueInv, Answers
  <2>2. CASE q = r
    BY <2>1, <2>2, <1>s, <1>i DEF RequestInv, TypeOK, Refusals
  <2>3. CASE q # r
    BY <2>1, <2>3, <1>s, <1>i DEF RequestInv, TypeOK
  <2> QED BY <2>2, <2>3
<1>3. \A k \in Keys : KeyInv(k)'
  BY <1>s, SameJobs DEF EnqueueInv, KeyInv
<1>4. BlameIsStable'
  BY <1>i, <1>s, StatusOf DEF BlameIsStable, TypeOK, Refusals
<1> QED BY <1>i, <1>s, <1>1, <1>2, <1>3, <1>4 DEF EnqueueInv

\* A request that is sent has no defect and, so far, no job.
LEMMA SendInv ==
  ASSUME EnqueueInv, NEW r \in Requests, Send(r)
  PROVE  EnqueueInv'
<1> USE EnqueueAssumption
<1>i. TypeOK /\ IsFiniteSet(jobs) /\ BlameIsStable
  BY DEF EnqueueInv
<1>s. /\ phase[r] = "none" /\ Defects[r] = {}
      /\ phase' = [phase EXCEPT ![r] = "adding"]
      /\ UNCHANGED <<jobs, dedup, link, answer, status, lost, drops, expiries>>
  BY DEF Send, redisVars
<1>1. TypeOK'
  BY <1>i, <1>s DEF TypeOK
<1>2. ASSUME NEW q \in Requests PROVE RequestInv(q)'
  <2>1. RequestInv(q) /\ JobsOf(q)' = JobsOf(q) /\ Answers(answer[q], q)' = Answers(answer[q], q)
    BY <1>s, SameJobs DEF EnqueueInv, Answers
  <2>2. CASE q = r
    BY <2>1, <2>2, <1>s, <1>i DEF RequestInv, TypeOK
  <2>3. CASE q # r
    BY <2>1, <2>3, <1>s, <1>i DEF RequestInv, TypeOK
  <2> QED BY <2>2, <2>3
<1>3. \A k \in Keys : KeyInv(k)'
  BY <1>s, SameJobs DEF EnqueueInv, KeyInv
<1>4. BlameIsStable'
  BY <1>i, <1>s DEF BlameIsStable
<1> QED BY <1>i, <1>s, <1>1, <1>2, <1>3, <1>4 DEF EnqueueInv

\* The add finds the live key's job, and changes no set of jobs, or it adds a job.
LEMMA AddLandsJobs ==
  ASSUME EnqueueInv, NEW r \in Requests, AddLands(r)
  PROVE  \/ /\ Key[r] \in Keys /\ dedup[Key[r]] # NoJob
            /\ answer' = [answer EXCEPT ![r] = dedup[Key[r]]]
            /\ UNCHANGED <<jobs, dedup>>
         \/ \E j \in Requests \X Nat :
            /\ j[1] = r
            /\ Key[r] \in Keys => dedup[Key[r]] = NoJob
            /\ jobs' = jobs \cup {j}
            /\ answer' = [answer EXCEPT ![r] = j]
            /\ dedup' = IF Key[r] \in Keys THEN [dedup EXCEPT ![Key[r]] = j] ELSE dedup
<1> USE EnqueueAssumption
<1> DEFINE fresh == <<r, Cardinality(JobsOf(r)) + 1>>
           found == Key[r] # NoKey /\ dedup[Key[r]] # NoJob
<1>1. fresh \in Requests \X Nat /\ fresh[1] = r
  BY JobSets DEF EnqueueInv
<1>2. Key[r] # NoKey <=> Key[r] \in Keys
  OBVIOUS
<1>3. /\ answer' = [answer EXCEPT ![r] = IF found THEN dedup[Key[r]] ELSE fresh]
      /\ jobs' = IF found THEN jobs ELSE jobs \cup {fresh}
      /\ dedup' = IF found \/ Key[r] = NoKey THEN dedup ELSE [dedup EXCEPT ![Key[r]] = fresh]
  BY DEF AddLands, dedupKey
<1> HIDE DEF fresh
<1>4. CASE found
  BY <1>2, <1>3, <1>4
<1>5. CASE ~found
  <2>1. /\ jobs' = jobs \cup {fresh}
        /\ answer' = [answer EXCEPT ![r] = fresh]
        /\ dedup' = IF Key[r] \in Keys THEN [dedup EXCEPT ![Key[r]] = fresh] ELSE dedup
    BY <1>2, <1>3, <1>5
  <2>2. Key[r] \in Keys => dedup[Key[r]] = NoJob
    BY <1>2, <1>5
  <2> HIDE DEF found
  <2> QED BY <2>1, <2>2, <1>1, Zenon
<1> QED BY <1>4, <1>5

\* One job more is at most one more of each request and of each key, and none of
\* the others.
LEMMA OneJobMore ==
  ASSUME IsFiniteSet(jobs), NEW j, jobs' = jobs \cup {j}
  PROVE  /\ IsFiniteSet(jobs')
         /\ \A r : r # j[1] => JobsOf(r)' = JobsOf(r)
         /\ \A r : Cardinality(JobsOf(r)') <= Cardinality(JobsOf(r)) + 1
         /\ \A k : k # Key[j[1]] => JobsOfKey(k)' = JobsOfKey(k)
         /\ \A k : Cardinality(JobsOfKey(k)') <= Cardinality(JobsOfKey(k)) + 1
<1>1. IsFiniteSet(jobs')
  BY FS_AddElement
<1>2. \A r : JobsOf(r)' = IF r = j[1] THEN JobsOf(r) \cup {j} ELSE JobsOf(r)
  BY DEF JobsOf
<1>3. \A k : JobsOfKey(k)' = IF k = Key[j[1]] THEN JobsOfKey(k) \cup {j} ELSE JobsOfKey(k)
  BY DEF JobsOfKey
<1>4. ASSUME NEW S, IsFiniteSet(S)
      PROVE  Cardinality(S) <= Cardinality(S) + 1 /\ Cardinality(S \cup {j}) <= Cardinality(S) + 1
  <2>1. Cardinality(S) \in Nat
    BY <1>4, FS_CardinalityType
  <2>2. Cardinality(S \cup {j}) = IF j \in S THEN Cardinality(S) ELSE Cardinality(S) + 1
    BY <1>4, FS_AddElement
  <2> QED BY <2>1, <2>2
<1>5. ASSUME NEW r PROVE Cardinality(JobsOf(r)') <= Cardinality(JobsOf(r)) + 1
  BY <1>2, <1>4, JobSets
<1>6. ASSUME NEW k PROVE Cardinality(JobsOfKey(k)') <= Cardinality(JobsOfKey(k)) + 1
  BY <1>3, <1>4, JobSets
<1> QED BY <1>1, <1>2, <1>3, <1>5, <1>6

\* The add lands, as a new job or as the live key's.
LEMMA AddLandsInv ==
  ASSUME EnqueueInv, NEW r \in Requests, AddLands(r)
  PROVE  EnqueueInv'
<1> USE EnqueueAssumption
<1>i. TypeOK /\ IsFiniteSet(jobs) /\ BlameIsStable
  BY DEF EnqueueInv
<1>s. /\ phase[r] = "adding" /\ link
      /\ phase' = [phase EXCEPT ![r] = "landed"]
      /\ UNCHANGED <<link, status, lost, drops, expiries>>
  BY DEF AddLands
<1>k. Key[r] \in Keys \/ Key[r] = NoKey
  OBVIOUS
<1>b. BlameIsStable'
  BY <1>i, <1>s DEF BlameIsStable
<1>1. ASSUME Key[r] \in Keys, dedup[Key[r]] # NoJob,
             answer' = [answer EXCEPT ![r] = dedup[Key[r]]], UNCHANGED <<jobs, dedup>>
      PROVE  EnqueueInv'
  <2>1. dedup[Key[r]] \in jobs /\ Key[dedup[Key[r]][1]] = Key[r]
    BY <1>1, <1>i DEF EnqueueInv, KeyInv, TypeOK
  <2>2. TypeOK'
    BY <1>1, <2>1, <1>i, <1>s DEF TypeOK
  <2>3. ASSUME NEW q \in Requests PROVE RequestInv(q)'
    <3>1. RequestInv(q) /\ JobsOf(q)' = JobsOf(q)
      BY <1>1, SameJobs DEF EnqueueInv
    <3>2. CASE q = r
      BY <3>1, <3>2, <1>1, <2>1, <1>s, <1>i DEF RequestInv, TypeOK, Answers
    <3>3. CASE q # r
      BY <3>1, <3>3, <1>1, <1>s, <1>i DEF RequestInv, TypeOK, Answers
    <3> QED BY <3>2, <3>3
  <2>4. \A k \in Keys : KeyInv(k)'
    BY <1>1, <1>s, SameJobs DEF EnqueueInv, KeyInv
  <2> QED BY <1>1, <1>i, <1>s, <1>b, <2>2, <2>3, <2>4 DEF EnqueueInv
<1>2. ASSUME NEW j \in Requests \X Nat, j[1] = r,
             Key[r] \in Keys => dedup[Key[r]] = NoJob,
             jobs' = jobs \cup {j}, answer' = [answer EXCEPT ![r] = j],
             dedup' = IF Key[r] \in Keys THEN [dedup EXCEPT ![Key[r]] = j] ELSE dedup
      PROVE  EnqueueInv'
  <2>1. TypeOK'
    BY <1>2, <1>i, <1>s DEF TypeOK
  <2>2. ASSUME NEW q \in Requests PROVE RequestInv(q)'
    <3>1. /\ RequestInv(q)
          /\ lost[q] \in Nat /\ Cardinality(JobsOf(q)) \in Nat
          /\ Cardinality(JobsOf(q)') \in Nat
      BY <1>2, <1>i, OneJobMore, JobSets, FS_CardinalityType, FS_Subset DEF EnqueueInv, TypeOK, JobsOf
    <3>2. CASE q = r
      <4>1. Cardinality(JobsOf(q)') <= Cardinality(JobsOf(q)) + 1
        BY <1>2, <1>i, OneJobMore
      <4>2. Cardinality(JobsOf(q)') <= 1 + lost[q]
        BY <4>1, <3>1, <3>2, <1>s DEF RequestInv
      <4>3. answer'[r] = j /\ Answers(j, r)' /\ phase'[r] = "landed" /\ status'[r] = 0 /\ Defects[r] = {}
        BY <1>2, <1>s, <1>i, <3>1, <3>2 DEF Answers, TypeOK, RequestInv
      <4> QED BY <4>2, <4>3, <3>2, <1>2, <1>s DEF RequestInv, Refusals
    <3>3. CASE q # r
      <4>1. JobsOf(q)' = JobsOf(q)
        BY <1>2, <3>3, <1>i, OneJobMore
      <4>2. /\ UNCHANGED <<phase[q], status[q], answer[q], lost[q]>>
            /\ answer[q] \in jobs => answer[q] \in jobs'
            /\ Answers(answer[q], q)' = Answers(answer[q], q)
        BY <1>2, <3>3, <1>s, <1>i DEF TypeOK, Answers
      <4> QED BY <3>1, <4>1, <4>2 DEF RequestInv
    <3> QED BY <3>2, <3>3
  <2>3. ASSUME NEW k \in Keys PROVE KeyInv(k)'
    <3>1. /\ KeyInv(k) /\ expiries[k] \in Nat /\ Cardinality(JobsOfKey(k)) \in Nat
          /\ k # Key[r] => JobsOfKey(k)' = JobsOfKey(k)
          /\ Cardinality(JobsOfKey(k)') <= Cardinality(JobsOfKey(k)) + 1
          /\ Cardinality(JobsOfKey(k)') \in Nat
          /\ expiries' = expiries
      <4>1. IsFiniteSet(jobs') /\ JobsOfKey(k)' \in SUBSET jobs'
        BY <1>2, <1>i, OneJobMore DEF JobsOfKey
      <4> QED BY <4>1, <1>2, <1>i, <1>s, OneJobMore, JobSets, FS_CardinalityType, FS_Subset DEF EnqueueInv, TypeOK
    <3>2. CASE k = Key[r]
      <4>1. dedup[k] = NoJob /\ dedup'[k] = j /\ j # NoJob /\ Key[j[1]] = k
        BY <3>2, <1>2, <1>i DEF TypeOK
      <4> QED BY <3>1, <4>1 DEF KeyInv
    <3>3. CASE k # Key[r]
      <4>1. dedup'[k] = dedup[k]
        BY <3>3, <1>2, <1>i DEF TypeOK
      <4> QED BY <3>1, <3>3, <4>1 DEF KeyInv
    <3> QED BY <3>2, <3>3
  <2>4. IsFiniteSet(jobs')
    BY <1>2, <1>i, OneJobMore
  <2> QED BY <1>i, <1>s, <1>b, <2>1, <2>2, <2>3, <2>4 DEF EnqueueInv
<1> QED BY <1>1, <1>2, AddLandsJobs

\* The add is refused: what is left of it are the jobs whose replies were lost.
LEMMA AddFailsInv ==
  ASSUME EnqueueInv, NEW r \in Requests, AddFails(r)
  PROVE  EnqueueInv'
<1> USE EnqueueAssumption
<1>i. TypeOK /\ IsFiniteSet(jobs) /\ BlameIsStable
  BY DEF EnqueueInv
<1>e. statusCode("Error") = 500
  BY StatusCodes
<1>s. /\ phase[r] = "adding"
      /\ phase' = [phase EXCEPT ![r] = "done"]
      /\ status' = [status EXCEPT ![r] = 500]
      /\ UNCHANGED <<jobs, dedup, link, answer, lost, drops, expiries>>
  BY <1>e DEF AddFails, redisVars
<1>1. TypeOK'
  BY <1>i, <1>s DEF TypeOK, Refusals
<1>2. ASSUME NEW q \in Requests PROVE RequestInv(q)'
  <2>1. RequestInv(q) /\ JobsOf(q)' = JobsOf(q) /\ Answers(answer[q], q)' = Answers(answer[q], q)
    BY <1>s, SameJobs DEF EnqueueInv, Answers
  <2>2. CASE q = r
    BY <2>1, <2>2, <1>s, <1>i DEF RequestInv, TypeOK, Refusals
  <2>3. CASE q # r
    BY <2>1, <2>3, <1>s, <1>i DEF RequestInv, TypeOK
  <2> QED BY <2>2, <2>3
<1>3. \A k \in Keys : KeyInv(k)'
  BY <1>s, SameJobs DEF EnqueueInv, KeyInv
<1>4. BlameIsStable'
  <2>1. Defects[r] = {}
    BY <1>s DEF EnqueueInv, RequestInv
  <2> QED BY <2>1, <1>i, <1>s DEF BlameIsStable, TypeOK
<1> QED BY <1>i, <1>s, <1>1, <1>2, <1>3, <1>4 DEF EnqueueInv

\* The reply arrives.
LEMMA AcceptedInv ==
  ASSUME EnqueueInv, NEW r \in Requests, Accepted(r)
  PROVE  EnqueueInv'
<1> USE EnqueueAssumption
<1>i. TypeOK /\ IsFiniteSet(jobs) /\ BlameIsStable
  BY DEF EnqueueInv
<1>s. /\ phase[r] = "landed"
      /\ phase' = [phase EXCEPT ![r] = "done"]
      /\ status' = [status EXCEPT ![r] = 202]
      /\ UNCHANGED <<jobs, dedup, link, answer, lost, drops, expiries>>
  BY DEF Accepted, redisVars
<1>1. TypeOK'
  BY <1>i, <1>s DEF TypeOK
<1>2. ASSUME NEW q \in Requests PROVE RequestInv(q)'
  <2>1. RequestInv(q) /\ JobsOf(q)' = JobsOf(q) /\ Answers(answer[q], q)' = Answers(answer[q], q)
    BY <1>s, SameJobs DEF EnqueueInv, Answers
  <2>2. CASE q = r
    BY <2>1, <2>2, <1>s, <1>i DEF RequestInv, TypeOK, Refusals
  <2>3. CASE q # r
    BY <2>1, <2>3, <1>s, <1>i DEF RequestInv, TypeOK
  <2> QED BY <2>2, <2>3
<1>3. \A k \in Keys : KeyInv(k)'
  BY <1>s, SameJobs DEF EnqueueInv, KeyInv
<1>4. BlameIsStable'
  BY <1>i, <1>s DEF BlameIsStable, TypeOK, Refusals
<1> QED BY <1>i, <1>s, <1>1, <1>2, <1>3, <1>4 DEF EnqueueInv

\* What was landed and not answered is to be sent again: it may land once more.
LEMMA LinkDropsInv ==
  ASSUME EnqueueInv, LinkDrops
  PROVE  EnqueueInv'
<1> USE EnqueueAssumption
<1>i. TypeOK /\ IsFiniteSet(jobs) /\ BlameIsStable
  BY DEF EnqueueInv
<1>s. /\ drops' = drops + 1
      /\ link' = FALSE
      /\ phase' = [r \in Requests |-> IF phase[r] = "landed" THEN "adding" ELSE phase[r]]
      /\ answer' = [r \in Requests |-> IF phase[r] = "landed" THEN NoJob ELSE answer[r]]
      /\ lost' = [r \in Requests |-> IF phase[r] = "landed" THEN lost[r] + 1 ELSE lost[r]]
      /\ UNCHANGED <<jobs, dedup, status, expiries>>
  BY DEF LinkDrops, redisVars
<1>1. TypeOK'
  <2>1. phase' \in [Requests -> {"none", "adding", "landed", "done"}]
    BY <1>i, <1>s DEF TypeOK
  <2>2. answer' \in [Requests -> jobs \cup {NoJob}]
    BY <1>i, <1>s DEF TypeOK
  <2>3. drops' \in Nat /\ lost' \in [Requests -> Nat]
    BY <1>i, <1>s DEF TypeOK
  <2>4. link' \in BOOLEAN
    BY <1>s, Zenon
  <2> QED BY <2>1, <2>2, <2>3, <2>4, <1>i, <1>s DEF TypeOK
<1>2. ASSUME NEW q \in Requests PROVE RequestInv(q)'
  <2>1. /\ RequestInv(q) /\ JobsOf(q)' = JobsOf(q)
        /\ Cardinality(JobsOf(q)) \in Nat /\ lost[q] \in Nat
    BY <1>s, <1>i, SameJobs, JobSets DEF EnqueueInv, TypeOK
  <2>2. CASE phase[q] = "landed"
    <3>1. phase'[q] = "adding" /\ status'[q] = 0 /\ Defects[q] = {} /\ lost'[q] = lost[q] + 1
      BY <2>1, <2>2, <1>s DEF RequestInv
    <3>2. Cardinality(JobsOf(q)') <= lost'[q]
      BY <2>1, <3>1 DEF RequestInv
    <3> QED BY <2>1, <3>1, <3>2, <1>s DEF RequestInv, Refusals
  <2>3. CASE phase[q] # "landed"
    <3>1. /\ phase'[q] = phase[q] /\ answer'[q] = answer[q] /\ lost'[q] = lost[q]
          /\ Answers(answer[q], q)' = Answers(answer[q], q)
      BY <2>3, <1>s DEF Answers
    <3> QED BY <2>1, <2>3, <3>1, <1>s DEF RequestInv
  <2> QED BY <2>2, <2>3
<1>3. \A k \in Keys : KeyInv(k)'
  BY <1>s, SameJobs DEF EnqueueInv, KeyInv
<1>4. BlameIsStable'
  BY <1>i, <1>s DEF BlameIsStable, TypeOK
<1> QED BY <1>i, <1>s, <1>1, <1>2, <1>3, <1>4 DEF EnqueueInv

\* The client is connected again.
LEMMA LinkReturnsInv ==
  ASSUME EnqueueInv, LinkReturns
  PROVE  EnqueueInv'
<1>s. link' = TRUE /\ UNCHANGED <<jobs, dedup, phase, answer, status, lost, drops, expiries>>
  BY DEF LinkReturns, redisVars
<1>1. TypeOK' /\ BlameIsStable'
  BY <1>s DEF EnqueueInv, TypeOK, BlameIsStable
<1>2. \A r \in Requests : RequestInv(r)'
  BY <1>s, SameJobs DEF EnqueueInv, RequestInv, Answers
<1>3. \A k \in Keys : KeyInv(k)'
  BY <1>s, SameJobs DEF EnqueueInv, KeyInv
<1> QED BY <1>s, <1>1, <1>2, <1>3 DEF EnqueueInv

\* A key that expires accounts from then on for the job it stood for.
LEMMA KeyExpiresInv ==
  ASSUME EnqueueInv, NEW k \in Keys, KeyExpires(k)
  PROVE  EnqueueInv'
<1> USE EnqueueAssumption
<1>i. TypeOK /\ IsFiniteSet(jobs) /\ BlameIsStable
  BY DEF EnqueueInv
<1>s. /\ dedup[k] # NoJob
      /\ expiries' = [expiries EXCEPT ![k] = @ + 1]
      /\ dedup' = [dedup EXCEPT ![k] = NoJob]
      /\ UNCHANGED <<jobs, link, phase, answer, status, lost, drops>>
  BY DEF KeyExpires
<1>1. TypeOK' /\ BlameIsStable'
  BY <1>i, <1>s DEF TypeOK, BlameIsStable
<1>2. \A r \in Requests : RequestInv(r)'
  BY <1>s, SameJobs DEF EnqueueInv, RequestInv, Answers
<1>3. ASSUME NEW q \in Keys PROVE KeyInv(q)'
  <2>1. /\ KeyInv(q) /\ JobsOfKey(q)' = JobsOfKey(q)
        /\ Cardinality(JobsOfKey(q)) \in Nat /\ expiries[q] \in Nat
    BY <1>s, <1>i, SameJobs, JobSets DEF EnqueueInv, TypeOK
  <2>2. CASE q = k
    BY <2>1, <2>2, <1>s, <1>i DEF KeyInv, TypeOK
  <2>3. CASE q # k
    BY <2>1, <2>3, <1>s, <1>i DEF KeyInv, TypeOK
  <2> QED BY <2>2, <2>3
<1> QED BY <1>i, <1>s, <1>1, <1>2, <1>3 DEF EnqueueInv

\* Every step.
LEMMA NextInv == EnqueueInv /\ [Next]_vars => EnqueueInv'
<1> SUFFICES ASSUME EnqueueInv, [Next]_vars PROVE EnqueueInv'
  OBVIOUS
<1>1. ASSUME NEW r \in Requests, RequestNext(r) PROVE EnqueueInv'
  BY <1>1, RefuseInv, SendInv, AddLandsInv, AddFailsInv, AcceptedInv DEF RequestNext
<1>2. CASE UNCHANGED vars
  <2>s. UNCHANGED <<jobs, dedup, link, phase, answer, status, lost, drops, expiries>>
    BY <1>2 DEF vars, redisVars
  <2>1. TypeOK' /\ BlameIsStable'
    BY <2>s DEF EnqueueInv, TypeOK, BlameIsStable
  <2>2. (\A r \in Requests : RequestInv(r)') /\ (\A k \in Keys : KeyInv(k)')
    BY <2>s, SameJobs DEF EnqueueInv, RequestInv, Answers, KeyInv
  <2> QED BY <2>s, <2>1, <2>2 DEF EnqueueInv
<1> QED BY <1>1, <1>2, LinkDropsInv, LinkReturnsInv, KeyExpiresInv DEF Next

-----------------------------------------------------------------------------
(* The theorems.                                                           *)

\* The invariant of every run.
THEOREM EnqueueInvariant == Spec => []EnqueueInv
<1> QED BY InitInv, NextInv, PTL DEF Spec

\* Type correctness of the producer.
THEOREM TypeCorrect == Spec => []TypeOK
<1>1. EnqueueInv => TypeOK
  BY DEF EnqueueInv
<1> QED BY <1>1, EnqueueInvariant, PTL

\* Concurrent, repeated and resent enqueues with a key make one job for each of its
\* lifetimes, whatever connections are lost.
THEOREM OneJobPerLifetime == Spec => []KeyCollapses
<1>1. EnqueueInv => KeyCollapses
  <2> SUFFICES ASSUME EnqueueInv, NEW k \in Keys
               PROVE  Cardinality(JobsOfKey(k)) <= 1 + expiries[k]
    BY DEF KeyCollapses, JobsOfKey
  <2>1. KeyInv(k) /\ expiries[k] \in Nat /\ Cardinality(JobsOfKey(k)) \in Nat
    BY JobSets DEF EnqueueInv, TypeOK
  <2> QED BY <2>1 DEF KeyInv
<1> QED BY <1>1, EnqueueInvariant, PTL

\* An id that was answered is that of a job in the queue, the request's own or its
\* key's.
THEOREM AnswersAreQueued == Spec => []AcceptedIsQueued
<1>1. EnqueueInv => AcceptedIsQueued
  BY DEF EnqueueInv, RequestInv, Answers, AcceptedIsQueued
<1> QED BY <1>1, EnqueueInvariant, PTL

\* Nothing defective is ever queued, and of a request that was refused only what a
\* lost reply hid: a caller who retries a refused request duplicates nothing else.
THEOREM RefusedLeavesNothing == Spec => []RefusedNotQueued
<1>1. EnqueueInv => RefusedNotQueued
  BY DEF EnqueueInv, RequestInv, RefusedNotQueued
<1> QED BY <1>1, EnqueueInvariant, PTL

\* Whether a refused request is answered 4xx depends on the request alone: not on the
\* connection it starts with, loses or finds again, nor on Redis refusing the write.
THEOREM BlameOnRequestAlone == Spec => []BlameIsStable
<1>1. EnqueueInv => BlameIsStable
  BY DEF EnqueueInv
<1> QED BY <1>1, EnqueueInvariant, PTL

\* A request makes one job, and at most one more for each reply that was lost.
THEOREM OneJobMorePerLoss == Spec => []DuplicatesBounded
<1>1. EnqueueInv => DuplicatesBounded
  BY DEF EnqueueInv, RequestInv, DuplicatesBounded
<1> QED BY <1>1, EnqueueInvariant, PTL

=============================================================================
