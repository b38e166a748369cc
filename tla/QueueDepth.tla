----------------------------- MODULE QueueDepth -----------------------------
(***************************************************************************)
(* GET /metrics of the API process: a scrape resets the gauge of queue     *)
(* depths and fills it again from Redis, queue by queue                    *)
(* (observability/metrics.ts, api/server.ts).  All scrapes share the       *)
(* gauge.  A sample is identified by the scrape that asked for it.         *)
(*                                                                         *)
(* One client asks for all of them, and replies come in the order asked.   *)
(* Continuations of replies run before the next request is handled.        *)
(***************************************************************************)
EXTENDS Naturals, Sequences

CONSTANTS
  Scrapes,   \* GET /metrics requests
  Queues,    \* the names of the queues, in the order they are asked for
  Unset      \* a label that the gauge holds no sample for

VARIABLES
  gauge,     \* per queue: the scrape that set its sample since the last reset, or Unset
  asked,     \* the getJobCounts commands without a reply, oldest first
  stage,     \* per scrape: "none", "sampling" or "done"
  report,    \* per scrape: the gauge as it was rendered
  refused,   \* history, per scrape: the queues it could not sample
  overtaken, \* history, per scrape: the scrapes that began while it was sampling
  link       \* whether the client's connection is up; not changed here

QueueNames == {Queues[k] : k \in 1..Len(Queues)}
Empty == [q \in QueueNames |-> Unset]

\* The queues that scrape s has yet to hear of.
Awaited(s) == {asked[k][2] : k \in {l \in 1..Len(asked) : asked[l][1] = s}}

Init ==
  /\ gauge = Empty
  /\ asked = <<>>
  /\ stage = [s \in Scrapes |-> "none"]
  /\ report = [s \in Scrapes |-> Empty]
  /\ refused = [s \in Scrapes |-> {}]
  /\ overtaken = [s \in Scrapes |-> {}]

-----------------------------------------------------------------------------
Commands(s) == [k \in 1..Len(Queues) |-> <<s, Queues[k]>>]

Sampling == {s \in Scrapes : stage[s] = "sampling"}

\* Fault: labels of the scrape before are kept.
Collect_NoReset(s) ==
  /\ stage[s] = "none"
  /\ \A t \in Sampling : Awaited(t) # {}
  /\ stage' = [stage EXCEPT ![s] = "sampling"]
  /\ asked' = IF link THEN asked \o Commands(s) ELSE asked
  /\ refused' = [refused EXCEPT ![s] = IF link THEN {} ELSE QueueNames]
  /\ overtaken' = [t \in Scrapes |-> IF t \in Sampling THEN overtaken[t] \cup {s} ELSE overtaken[t]]
  /\ UNCHANGED <<gauge, report>>

\* The gauge's collect(): reset, then one command per queue; all of them fail at
\* once when the client knows that it is not connected.
Collect(s) ==
  /\ stage[s] = "none"
  /\ \A t \in Sampling : Awaited(t) # {}
  /\ stage' = [stage EXCEPT ![s] = "sampling"]
  /\ gauge' = Empty
  /\ asked' = IF link THEN asked \o Commands(s) ELSE asked
  /\ refused' = [refused EXCEPT ![s] = IF link THEN {} ELSE QueueNames]
  /\ overtaken' = [t \in Scrapes |-> IF t \in Sampling THEN overtaken[t] \cup {s} ELSE overtaken[t]]
  /\ UNCHANGED report

\* A reply: the samples of the queue are set.  An error is swallowed, and the queue
\* "simply reports no samples this time round".
CountsArrive(ok) ==
  /\ link
  /\ asked # <<>>
  /\ asked' = Tail(asked)
  /\ LET s == Head(asked)[1]
         q == Head(asked)[2]
     IN  /\ gauge' = IF ok THEN [gauge EXCEPT ![q] = s] ELSE gauge
         /\ refused' = IF ok THEN refused ELSE [refused EXCEPT ![s] = @ \cup {q}]
  /\ UNCHANGED <<stage, report, overtaken>>

\* registry.metrics(), once collect() has resolved.
Render(s) ==
  /\ stage[s] = "sampling"
  /\ Awaited(s) = {}
  /\ stage' = [stage EXCEPT ![s] = "done"]
  /\ report' = [report EXCEPT ![s] = gauge]
  /\ UNCHANGED <<gauge, asked, refused, overtaken>>

Next ==
  \/ \E s \in Scrapes : Collect(s) \/ Render(s)
  \/ \E ok \in BOOLEAN : CountsArrive(ok)

-----------------------------------------------------------------------------
(* Properties.                                                             *)

\* Every variable holds a value of its type: type correctness of the gauge's model.
TypeOK ==
  /\ gauge \in [QueueNames -> Scrapes \cup {Unset}]
  /\ \A k \in 1..Len(asked) : asked[k] \in Scrapes \X QueueNames
  /\ stage \in [Scrapes -> {"none", "sampling", "done"}]
  /\ report \in [Scrapes -> [QueueNames -> Scrapes \cup {Unset}]]
  /\ refused \in [Scrapes -> SUBSET QueueNames]
  /\ overtaken \in [Scrapes -> SUBSET Scrapes]

=============================================================================
