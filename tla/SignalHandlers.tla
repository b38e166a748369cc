--------------------------- MODULE SignalHandlers ---------------------------
(***************************************************************************)
(* installSignalHandlers (worker/graceful-shutdown.ts): the listeners that *)
(* call the shutdown controller.  Those of last resort first report what   *)
(* was thrown, through serializeError (utils/serialize-error.ts): any      *)
(* value, with a cause that may be another, itself or unreadable.          *)
(***************************************************************************)
EXTENDS Shutdown

CONSTANTS
  Thrown,              \* what may be thrown
  Errors,              \* those that are instances of Error
  Cause,               \* per thrown value: what its cause is
  Undefined,           \* the cause of a value without one
  Unreadable,          \* the cause of a value whose getter throws
  ErrorCauseMaxDepth,  \* ERROR_CAUSE_MAX_DEPTH
  StackDepth           \* bound: the calls that fit on the stack

ASSUME SignalHandlersAssumption ==
  /\ Errors \subseteq Thrown
  /\ Cause \in [Thrown -> Thrown \cup {Undefined, Unreadable}]
  /\ {Undefined, Unreadable} \cap Thrown = {}
  /\ ErrorCauseMaxDepth \in Nat
  /\ StackDepth \in Nat /\ StackDepth > ErrorCauseMaxDepth + 1

VARIABLE reports  \* what the last-resort listeners logged: of which value, as what

handlerVars == <<shutdownVars, reports>>

-----------------------------------------------------------------------------
(* serializeError                                                          *)

\* readProperty: a getter that throws reads as undefined.  (Thrown holds no value
\* whose instanceof check throws, such as a revoked proxy.)
readCause(v) == IF Cause[v] = Unreadable THEN Undefined ELSE Cause[v]

\* Fault: no bound.
nested_Unbounded(v, depth) == v \in Errors /\ readCause(v) # Undefined

\* Whether the record of v has one of its cause in it.
nested(v, depth) ==
  v \in Errors /\ readCause(v) # Undefined /\ depth < ErrorCauseMaxDepth

\* The values that have a record, outermost first; empty if serializeError throws,
\* the stack being exhausted.
serializeError[depth \in 0..StackDepth] ==
  [v \in Thrown |->
     IF depth = StackDepth THEN <<>>
     ELSE IF ~nested(v, depth) THEN <<v>>
     ELSE LET cause == serializeError[depth + 1][readCause(v)]
          IN  IF cause = <<>> THEN <<>> ELSE <<v>> \o cause]

-----------------------------------------------------------------------------
HandlersInit == Init /\ reports = <<>>

SignalReceived == Request /\ UNCHANGED reports

\* What a listener throws is an uncaught exception; in the listener of these it
\* ends the process (external).
Abort ==
  /\ exit' = "7"
  /\ requests' = requests + 1
  /\ UNCHANGED <<running, current, begun, released, outcome>>

\* onUnhandledRejection and onUncaughtException: report, then shut down.
LastResort(event, v) ==
  LET report == serializeError[0][v]
  IN  /\ Alive
      /\ requests < MaxRequests
      /\ reports' = Append(reports, [of |-> v, as |-> report])
      /\ IF report = <<>> /\ event = "uncaughtException" THEN Abort ELSE Request

HandlersNext ==
  \/ SignalReceived
  \/ \E event \in {"unhandledRejection", "uncaughtException"}, v \in Thrown :
       LastResort(event, v)
  \/ (\E ok \in BOOLEAN : StepEnds(ok)) /\ UNCHANGED reports
  \/ (Deadline \/ ExitTimer \/ LoopEmpties) /\ UNCHANGED reports

\* The controller's fairness: timers fire.
HandlersSpec ==
  /\ HandlersInit /\ [][HandlersNext]_handlerVars
  /\ WF_handlerVars(Deadline /\ UNCHANGED reports)
  /\ WF_handlerVars((ExitTimer \/ LoopEmpties) /\ UNCHANGED reports)

-----------------------------------------------------------------------------
(* Properties.                                                             *)

\* "It must not itself become the thing that fails while reporting an error": every
\* value that reached a last-resort listener is reported together with the chain of
\* its causes, circular or not, up to the first that is no Error or has no cause
\* that can be read, and no further than ERROR_CAUSE_MAX_DEPTH causes.
ReportsFollowCauses ==
  \A n \in 1..Len(reports) :
    LET chain == reports[n].as
    IN  /\ Len(chain) \in 1..(ErrorCauseMaxDepth + 1)
        /\ chain[1] = reports[n].of
        /\ \A k \in 1..(Len(chain) - 1) : chain[k] \in Errors /\ chain[k + 1] = Cause[chain[k]]
        /\ LET last == chain[Len(chain)]
           IN  last \in Errors /\ Cause[last] \in Thrown => Len(chain) = ErrorCauseMaxDepth + 1

=============================================================================
