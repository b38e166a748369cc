--------------------------- MODULE Shutdown_proofs --------------------------
(***************************************************************************)
(* The shutdown controller for any list of steps and any number of         *)
(* signals: its type invariant, that each step is started once and in      *)
(* order, and that it completes only after all of them.                    *)
(***************************************************************************)
EXTENDS Shutdown, TLAPS

\* What was awaited last tells which steps were started and what the race decided.
ShutdownInv ==
  /\ TypeOK
  /\ running <=> current > 0
  /\ StepsOnceInOrder
  /\ outcome = "complete" => current > Len(Steps)
  /\ exit # "none" => outcome # "none"

\* The controller before the first request.
LEMMA InitInv == Init => ShutdownInv
<1> SUFFICES ASSUME Init PROVE ShutdownInv
  OBVIOUS
<1>0. Len(Steps) \in Nat
  BY ShutdownAssumption
<1>1. TypeOK
  <2>1. current \in 0..(Len(Steps) + 1)
    BY <1>0 DEF Init
  <2>2. begun \in [StepNames -> Nat]
    BY DEF Init
  <2> QED BY <2>1, <2>2 DEF Init, TypeOK
<1>2. StepsOnceInOrder
  <2> SUFFICES ASSUME NEW k \in 1..Len(Steps)
               PROVE  begun[Steps[k]] = IF k <= current THEN 1 ELSE 0
    BY DEF StepsOnceInOrder
  <2>1. Steps[k] \in StepNames
    BY DEF StepNames
  <2>2. begun[Steps[k]] = 0
    BY <2>1 DEF Init
  <2>3. ~(k <= current)
    BY <1>0 DEF Init
  <2> QED BY <2>2, <2>3
<1> QED BY <1>1, <1>2 DEF ShutdownInv, Init

\* Starting step n after the n - 1 before it keeps them started once each.
LEMMA BeginNext ==
  ASSUME TypeOK, StepsOnceInOrder, NEW n \in 1..Len(Steps), n = current + 1,
         begun' = [begun EXCEPT ![Steps[n]] = @ + 1], current' = n
  PROVE  StepsOnceInOrder' /\ begun' \in [StepNames -> Nat]
<1> USE ShutdownAssumption
<1>1. Steps[n] \in StepNames /\ begun[Steps[n]] = 0
  BY DEF StepNames, StepsOnceInOrder, TypeOK
<1>2. begun' \in [StepNames -> Nat]
  BY <1>1 DEF TypeOK
<1>3. ASSUME NEW k \in 1..Len(Steps)
      PROVE  begun'[Steps[k]] = IF k <= n THEN 1 ELSE 0
  <2>1. Steps[k] \in StepNames /\ (Steps[k] = Steps[n] => k = n)
    BY DEF StepNames
  <2>2. begun[Steps[k]] = IF k <= current THEN 1 ELSE 0
    BY DEF StepsOnceInOrder
  <2>3. CASE k = n
    BY <2>3, <1>1 DEF TypeOK
  <2>4. CASE k # n
    <3>1. begun'[Steps[k]] = begun[Steps[k]]
      BY <2>1, <2>4, <1>1 DEF TypeOK
    <3>2. k <= n <=> k <= current
      BY <2>4 DEF TypeOK
    <3> QED BY <3>1, <3>2, <2>2
  <2> QED BY <2>3, <2>4
<1> QED BY <1>2, <1>3 DEF StepsOnceInOrder

\* Every step of the controller.
LEMMA NextInv == ShutdownInv /\ [Next]_shutdownVars => ShutdownInv'
<1> SUFFICES ASSUME ShutdownInv, [Next]_shutdownVars PROVE ShutdownInv'
  OBVIOUS
<1> USE ShutdownAssumption
<1>i. /\ TypeOK
      /\ running <=> current > 0
      /\ StepsOnceInOrder
      /\ outcome = "complete" => current > Len(Steps)
      /\ exit # "none" => outcome # "none"
  BY DEF ShutdownInv
<1>1. CASE Request
  <2>1. CASE running
    <3>1. UNCHANGED <<running, current, begun, released, outcome, exit>>
      BY <1>1, <2>1, <1>i DEF Request, TypeOK
    <3>2. TypeOK'
      BY <1>1, <3>1, <1>i DEF Request, TypeOK
    <3>3. StepsOnceInOrder'
      BY <3>1, <1>i DEF StepsOnceInOrder
    <3> QED BY <3>1, <3>2, <3>3, <1>i DEF ShutdownInv
  <2>2. CASE ~running
    <3>1. current = 0 /\ 1 \in 1..Len(Steps)
      BY <2>2, <1>i DEF TypeOK
    <3>2. /\ begun' = [begun EXCEPT ![Steps[1]] = @ + 1]
          /\ current' = 1
          /\ running' = TRUE
          /\ requests' = requests + 1
          /\ UNCHANGED <<released, outcome, exit>>
      BY <1>1, <2>2 DEF Request
    <3>3. StepsOnceInOrder' /\ begun' \in [StepNames -> Nat]
      <4>1. 1 = current + 1
        BY <3>1
      <4> QED BY <3>1, <3>2, <4>1, <1>i, BeginNext
    <3>4. TypeOK'
      BY <3>1, <3>2, <3>3, <1>i DEF TypeOK
    <3>5. outcome # "complete"
      BY <3>1, <1>i
    <3> QED BY <3>1, <3>2, <3>3, <3>4, <3>5, <1>i DEF ShutdownInv
  <2> QED BY <2>1, <2>2
<1>2. ASSUME NEW ok \in BOOLEAN, StepEnds(ok) PROVE ShutdownInv'
  <2>1. /\ current \in 1..Len(Steps)
        /\ current' = current + 1
        /\ released' = IF ok THEN released \cup {Steps[current]} ELSE released
        /\ begun' = IF current < Len(Steps)
                    THEN [begun EXCEPT ![Steps[current + 1]] = @ + 1] ELSE begun
        /\ outcome' = IF current = Len(Steps) /\ outcome = "none" THEN "complete" ELSE outcome
        /\ UNCHANGED <<running, exit, requests>>
        /\ exit = "none"
    BY <1>2 DEF StepEnds, Alive
  <2>2. StepsOnceInOrder' /\ begun' \in [StepNames -> Nat]
    <3>1. CASE current < Len(Steps)
      <4>1. /\ current + 1 \in 1..Len(Steps)
            /\ begun' = [begun EXCEPT ![Steps[current + 1]] = @ + 1]
        BY <2>1, <3>1
      <4> QED BY <4>1, <2>1, <1>i, BeginNext
    <3>2. CASE current = Len(Steps)
      BY <2>1, <3>2, <1>i DEF StepsOnceInOrder, TypeOK
    <3> QED BY <3>1, <3>2, <2>1
  <2>3. released' \subseteq {Steps[k] : k \in {l \in 1..Len(Steps) : l < current'}}
    BY <2>1, <1>i DEF TypeOK
  <2>4. TypeOK'
    BY <2>1, <2>2, <2>3, <1>i DEF TypeOK
  <2>5. outcome' = "complete" => current' > Len(Steps)
    BY <2>1, <1>i
  <2> QED BY <2>1, <2>2, <2>4, <2>5, <1>i DEF ShutdownInv
<1>3. CASE Deadline
  <2>1. /\ outcome' = "timeout"
        /\ UNCHANGED <<running, current, begun, released, exit, requests>>
        /\ exit = "none"
    BY <1>3 DEF Deadline, Alive
  <2>2. TypeOK'
    BY <2>1, <1>i DEF TypeOK
  <2>3. StepsOnceInOrder'
    BY <2>1, <1>i DEF StepsOnceInOrder
  <2> QED BY <2>1, <2>2, <2>3, <1>i DEF ShutdownInv
<1>4. CASE ExitTimer \/ LoopEmpties
  <2>1. /\ exit' \in {"0", "1"}
        /\ outcome # "none"
        /\ UNCHANGED <<running, current, begun, released, outcome, requests>>
    BY <1>4 DEF ExitTimer, LoopEmpties
  <2>2. TypeOK'
    BY <2>1, <1>i DEF TypeOK
  <2>3. StepsOnceInOrder'
    BY <2>1, <1>i DEF StepsOnceInOrder
  <2> QED BY <2>1, <2>2, <2>3, <1>i DEF ShutdownInv
<1>5. CASE UNCHANGED shutdownVars
  BY <1>5, <1>i DEF shutdownVars, ShutdownInv, TypeOK, StepsOnceInOrder
<1> QED BY <1>1, <1>2, <1>3, <1>4, <1>5 DEF Next

\* The invariant of every run of the controller.
THEOREM ShutdownInvariant == Spec => []ShutdownInv
<1> QED BY InitInv, NextInv, PTL DEF Spec

\* Type correctness.
THEOREM TypeCorrect == Spec => []TypeOK
<1>1. ShutdownInv => TypeOK
  BY DEF ShutdownInv
<1> QED BY <1>1, ShutdownInvariant, PTL

\* However many signals arrive, and in whatever state, no step is started twice or
\* before the one declared before it.
THEOREM OnceInOrder == Spec => []StepsOnceInOrder
<1>1. ShutdownInv => StepsOnceInOrder
  BY DEF ShutdownInv
<1> QED BY <1>1, ShutdownInvariant, PTL

\* A step that throws does not keep the later ones from being started before the
\* process exits.
THEOREM AllStepsFirst == Spec => []ExitsAfterAllSteps
<1>1. ShutdownInv => ExitsAfterAllSteps
  <2> SUFFICES ASSUME ShutdownInv, exit # "none", outcome # "timeout"
               PROVE  current > Len(Steps) /\ \A s \in StepNames : begun[s] > 0
    BY DEF ExitsAfterAllSteps
  <2> USE ShutdownAssumption
  <2>1. current > Len(Steps) /\ current \in Nat
    BY DEF ShutdownInv, TypeOK
  <2>2. ASSUME NEW s \in StepNames PROVE begun[s] > 0
    <3>1. PICK k \in 1..Len(Steps) : s = Steps[k]
      BY DEF StepNames
    <3>2. k <= current
      BY <2>1
    <3>3. begun[Steps[k]] = 1
      BY <3>2 DEF ShutdownInv, StepsOnceInOrder
    <3> QED BY <3>1, <3>3
  <2> QED BY <2>1, <2>2
<1> QED BY <1>1, ShutdownInvariant, PTL

=============================================================================
