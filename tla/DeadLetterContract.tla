------------------------- MODULE DeadLetterContract -------------------------
(***************************************************************************)
(* What the dead-letter writer promises about one failure, and all that    *)
(* JobLifecycle knows of it: a write in flight either lands or is lost,    *)
(* once, and a record that landed is never taken for a lost one.           *)
(***************************************************************************)
CONSTANT Failures  \* the terminal failures handed to the writer

VARIABLES
  inFlight,  \* failures whose record is being written
  recorded,  \* failures whose record has been in the dead-letter queue
  lost       \* failures whose record will never be

contractVars == <<inFlight, recorded, lost>>

Init == inFlight = {} /\ recorded = {} /\ lost = {}

Begin(f) ==
  /\ f \notin inFlight \cup recorded \cup lost
  /\ inFlight' = inFlight \cup {f}
  /\ UNCHANGED <<recorded, lost>>

Land(f) ==
  /\ f \in inFlight
  /\ inFlight' = inFlight \ {f}
  /\ recorded' = recorded \cup {f}
  /\ UNCHANGED lost

\* Writes are lost one at a time, or together with the process they were in.
Lose(F) ==
  /\ F \subseteq inFlight
  /\ inFlight' = inFlight \ F
  /\ lost' = lost \cup F
  /\ UNCHANGED recorded

Next ==
  \/ \E f \in Failures : Begin(f) \/ Land(f)
  \/ \E F \in SUBSET Failures : Lose(F)

Spec == Init /\ [][Next]_contractVars
=============================================================================
