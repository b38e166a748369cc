------------------------------ MODULE Shutdown ------------------------------
(***************************************************************************)
(* The shutdown controller both processes share                            *)
(* (worker/graceful-shutdown.ts): steps awaited one after the other, a     *)
(* deadline over all of them, and an exit timer that does not keep the     *)
(* process alive.                                                          *)
(***************************************************************************)
EXTENDS Naturals, Sequences

CONSTANTS
  Steps,       \* the names of the steps, in order
  Holders,     \* the steps whose resources keep the event loop alive until they end
  MaxRequests  \* bound: signals and last-resort events

StepNames == {Steps[k] : k \in 1..Len(Steps)}

ASSUME ShutdownAssumption ==
  /\ Len(Steps) \in Nat \ {0}
  /\ \A k, l \in 1..Len(Steps) : Steps[k] = Steps[l] => k = l
  /\ Holders \subseteq StepNames
  /\ MaxRequests \in Nat

VARIABLES
  running,   \* whether shutdown() has been called
  current,   \* the step being awaited; Len(Steps) + 1 when all have ended
  begun,     \* per step: how often it was started
  released,  \* the steps that ended well: what they closed is closed
  outcome,   \* of the race: "none" yet, "complete" or "timeout"
  exit,      \* "none" while the process lives, then its exit code
  requests

shutdownVars == <<running, current, begun, released, outcome, exit, requests>>

Init ==
  /\ running = FALSE
  /\ current = 0
  /\ begun = [s \in StepNames |-> 0]
  /\ released = {}
  /\ outcome = "none"
  /\ exit = "none"
  /\ requests = 0

Alive == exit = "none"

\* Fault: every call of shutdown() runs the steps.
Request_NotIdempotent ==
  /\ Alive
  /\ requests < MaxRequests
  /\ requests' = requests + 1
  /\ running' = TRUE
  /\ current' = 1
  /\ begun' = [begun EXCEPT ![Steps[1]] = @ + 1]
  /\ UNCHANGED <<released, outcome, exit>>

\* shutdown(), called by a signal handler or a last-resort listener.  The first
\* call arms the deadline and starts the first step; the others change nothing.
Request ==
  /\ Alive
  /\ requests < MaxRequests
  /\ requests' = requests + 1
  /\ running' = TRUE
  /\ current' = IF running THEN current ELSE 1
  /\ begun' = IF running THEN begun ELSE [begun EXCEPT ![Steps[1]] = @ + 1]
  /\ UNCHANGED <<released, outcome, exit>>

\* Fault: a step that throws ends the loop.
StepEnds_StopsOnError(ok) ==
  /\ Alive
  /\ current \in 1..Len(Steps)
  /\ current' = IF ok THEN current + 1 ELSE Len(Steps) + 1
  /\ released' = IF ok THEN released \cup {Steps[current]} ELSE released
  /\ begun' = IF ok /\ current < Len(Steps)
              THEN [begun EXCEPT ![Steps[current + 1]] = @ + 1] ELSE begun
  /\ outcome' = IF current' > Len(Steps) /\ outcome = "none" THEN "complete" ELSE outcome
  /\ UNCHANGED <<running, exit, requests>>

\* runSteps: a step resolves, or throws and is logged (ok is FALSE); either way the
\* next one starts.  The loop goes on after the deadline, while the process lives.
StepEnds(ok) ==
  /\ Alive
  /\ current \in 1..Len(Steps)
  /\ current' = current + 1
  /\ released' = IF ok THEN released \cup {Steps[current]} ELSE released
  /\ begun' = IF current < Len(Steps)
              THEN [begun EXCEPT ![Steps[current + 1]] = @ + 1] ELSE begun
  /\ outcome' = IF current = Len(Steps) /\ outcome = "none" THEN "complete" ELSE outcome
  /\ UNCHANGED <<running, exit, requests>>

\* Fault: the deadline covers the last step only.
Deadline_LastStep ==
  /\ Alive
  /\ current = Len(Steps)
  /\ outcome = "none"
  /\ outcome' = "timeout"
  /\ UNCHANGED <<running, current, begun, released, exit, requests>>

\* The deadline wins the race.
Deadline ==
  /\ Alive
  /\ running
  /\ outcome = "none"
  /\ outcome' = "timeout"
  /\ UNCHANGED <<running, current, begun, released, exit, requests>>

\* The grace period for the log transport ends in process.exit.
ExitTimer ==
  /\ Alive
  /\ outcome # "none"
  /\ exit' = IF outcome = "timeout" THEN "1" ELSE "0"
  /\ UNCHANGED <<running, current, begun, released, outcome, requests>>

\* The exit timer is unref'd: once nothing else keeps the event loop alive the
\* process ends by itself, and process.exitCode was never set.
LoopEmpties ==
  /\ Alive
  /\ outcome # "none"
  /\ Holders \subseteq released
  /\ exit' = "0"
  /\ UNCHANGED <<running, current, begun, released, outcome, requests>>

Next ==
  \/ Request
  \/ \E ok \in BOOLEAN : StepEnds(ok)
  \/ Deadline
  \/ ExitTimer
  \/ LoopEmpties

Spec == Init /\ [][Next]_shutdownVars

\* Timers fire.  No step is assumed to end.
FairSpec == Spec /\ WF_shutdownVars(Deadline) /\ WF_shutdownVars(ExitTimer \/ LoopEmpties)

-----------------------------------------------------------------------------
(* Properties.                                                             *)

\* Every variable holds a value of its type, and only ended steps are released.
TypeOK ==
  /\ running \in BOOLEAN
  /\ current \in 0..(Len(Steps) + 1)
  /\ begun \in [StepNames -> Nat]
  /\ released \subseteq {Steps[k] : k \in {l \in 1..Len(Steps) : l < current}}
  /\ outcome \in {"none", "complete", "timeout"}
  /\ exit \in {"none", "0", "1"}
  /\ requests \in Nat

\* "handlers that run twice because the orchestrator sends SIGTERM and then SIGINT":
\* whatever is requested when, each step starts once, and in the declared order.
StepsOnceInOrder ==
  \A k \in 1..Len(Steps) : begun[Steps[k]] = IF k <= current THEN 1 ELSE 0

\* "One failed step must not strand the rest": the process does not exit before
\* every step has been started and has ended, unless the deadline has passed.
ExitsAfterAllSteps ==
  exit # "none" /\ outcome # "timeout" =>
    current > Len(Steps) /\ \A s \in StepNames : begun[s] > 0

\* "shutdowns that hang forever on a step that never resolves": a shutdown once
\* requested ends the process, whichever step hangs or throws.
ShutdownEnds == running ~> ~Alive

=============================================================================
