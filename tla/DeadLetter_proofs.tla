-------------------------- MODULE DeadLetter_proofs -------------------------
(***************************************************************************)
(* Theorems about DeadLetter for any number of failures, processes and     *)
(* faults, and any limit.  The heart of it is TrimPending: the argument    *)
(* that overlapping trims cannot leave the queue over its limit.           *)
(***************************************************************************)
EXTENDS DeadLetter, FiniteSetTheorems, TLAPS

\* Sets of failures are finite, and can be counted.
LEMMA Finite ==
  ASSUME NEW S \in SUBSET Failures
  PROVE  IsFiniteSet(S) /\ Cardinality(S) \in Nat
BY FS_Subset, FS_CardinalityType, DeadLetterAssumption

\* Sets of records are finite, and a part has no more members than the whole.
LEMMA Smaller ==
  ASSUME NEW S \in SUBSET Failures, NEW T \in SUBSET S
  PROVE  Cardinality(T) <= Cardinality(S)
BY Finite, FS_Subset

\* Listing the oldest `k` leaves what the listed ones do not account for.
LEMMA OldestLeaves ==
  ASSUME waiting \in SUBSET Failures, NEW S \in SUBSET waiting, NEW k \in Nat,
         IsOldest(S, k), Cardinality(waiting) <= MaxEntries + k
  PROVE  Cardinality(waiting \ S) <= MaxEntries
<1>1. IsFiniteSet(waiting) /\ IsFiniteSet(S)
      /\ Cardinality(waiting) \in Nat /\ Cardinality(S) \in Nat
  BY Finite
<1>2. Cardinality(waiting \ S) = Cardinality(waiting) - Cardinality(waiting \cap S)
  BY <1>1, FS_Difference
<1>3. waiting \cap S = S
  OBVIOUS
<1>4. Cardinality(waiting \ S) = Cardinality(waiting) - Cardinality(S)
  BY <1>2, <1>3
<1>5. Cardinality(S) = IF k < Cardinality(waiting) THEN k ELSE Cardinality(waiting)
  BY DEF IsOldest
<1>6. ASSUME NEW n \in Nat, NEW m \in Nat, n <= m + k
      PROVE  n - (IF k < n THEN k ELSE n) <= m
  BY <1>6
<1>7. QED
  BY <1>1, <1>4, <1>5, <1>6, DeadLetterAssumption

\* The queue before the first failure.
LEMMA InitInv == Init => DeadLetterInv
<1> SUFFICES ASSUME Init PROVE DeadLetterInv
  OBVIOUS
<1>1. TypeOK
  BY DEF Init, TypeOK, Phases
<1>2. TrimmingCounted /\ NeverSilent
  BY DEF Init, TrimmingCounted, NeverSilent
<1>3. TrimPending
  BY FS_EmptySet, DeadLetterAssumption DEF Init, TrimPending
<1>4. QED
  BY <1>1, <1>2, <1>3 DEF DeadLetterInv

-----------------------------------------------------------------------------
(* Type correctness and the bookkeeping, action by action.                 *)

\* What an add does to the queue keeps its order total.
LEMMA AddType ==
  ASSUME TypeOK, NEW f \in Failures, Add(f)
  PROVE  /\ waiting' \subseteq landed'
         /\ landed' \subseteq Failures
         /\ before' \subseteq waiting' \X waiting'
         /\ \A x, y \in waiting' : x # y => (<<x, y>> \in before' <=> <<y, x>> \notin before')
<1>1. CASE f \in waiting
  BY <1>1 DEF TypeOK, Add
<1>2. CASE f \notin waiting
  <2>1. before' = before \cup (waiting \X {f}) /\ waiting' = waiting \cup {f}
    BY <1>2 DEF Add
  <2>2. \A x, y \in waiting' : x # y => (<<x, y>> \in before' <=> <<y, x>> \notin before')
    <3> SUFFICES ASSUME NEW x \in waiting', NEW y \in waiting', x # y
                 PROVE  <<x, y>> \in before' <=> <<y, x>> \notin before'
      OBVIOUS
    <3>1. \A z : <<f, z>> \notin before /\ <<z, f>> \notin before
      BY <1>2 DEF TypeOK
    <3>2. CASE x = f
      BY <1>2, <2>1, <3>1, <3>2
    <3>3. CASE y = f
      BY <1>2, <2>1, <3>1, <3>3
    <3>4. CASE x # f /\ y # f
      BY <2>1, <3>4 DEF TypeOK
    <3>5. QED
      BY <3>2, <3>3, <3>4
  <2>3. QED
    BY <2>1, <2>2 DEF TypeOK, Add
<1>3. QED
  BY <1>1, <1>2

\* Every step of a call keeps every variable in its type.
LEMMA TypeStep ==
  ASSUME TypeOK, [Next]_vars
  PROVE  TypeOK'
<1>1. ASSUME NEW f \in Failures, Record(f) PROVE TypeOK'
  BY <1>1 DEF TypeOK, Record, Go, Phases, redisVars, trimVars, counters
<1>2. ASSUME NEW f \in Failures, AddLands(f) PROVE TypeOK'
  <2>1. Add(f)
    BY <1>2 DEF AddLands
  <2>2. QED
    BY <1>2, <2>1, AddType DEF TypeOK, AddLands, Go, Phases, trimVars
<1>3. ASSUME NEW f \in Failures, AddReplyLost(f) PROVE TypeOK'
  <2>1. Add(f)
    BY <1>3 DEF AddReplyLost
  <2>2. QED
    BY <1>3, <2>1, AddType DEF TypeOK, AddReplyLost, Phases, trimVars, counters
<1>4. ASSUME NEW f \in Failures, Fails(f) PROVE TypeOK'
  BY <1>4 DEF TypeOK, Fails, Go, Phases, redisVars, trimVars
<1>5. ASSUME NEW f \in Failures, Count(f) PROVE TypeOK'
  <2>1. Cardinality(waiting) \in Nat
    BY Finite DEF TypeOK
  <2>2. overflow(Cardinality(waiting)) \in Nat
    BY <2>1, DeadLetterAssumption DEF overflow
  <2>3. QED
    BY <1>5, <2>2 DEF TypeOK, Count, Go, Phases, redisVars, counters
<1>6. ASSUME NEW f \in Failures, List(f) PROVE TypeOK'
  BY <1>6 DEF TypeOK, List, Go, Phases, redisVars, counters
<1>7. ASSUME NEW f \in Failures, NEW e \in victims[f], RemoveEntry(f, e) PROVE TypeOK'
  BY <1>7 DEF TypeOK, RemoveEntry, counters
<1>8. ASSUME NEW f \in Failures, NEW e \in victims[f], RemoveFails(f, e) PROVE TypeOK'
  BY <1>8 DEF TypeOK, RemoveFails, redisVars, counters
<1>9. ASSUME NEW f \in Failures, Trimmed(f) PROVE TypeOK'
  BY <1>9 DEF TypeOK, Trimmed, Go, Phases, redisVars, trimVars, counters
<1>10. ASSUME NEW p \in Processes, Crash(p) PROVE TypeOK'
  BY <1>10 DEF TypeOK, Crash, InFlight, Phases, redisVars, counters
<1>11. CASE UNCHANGED vars
  BY <1>11 DEF TypeOK, vars, redisVars, trimVars, counters
<1>12. QED
  BY <1>1, <1>2, <1>3, <1>4, <1>5, <1>6, <1>7, <1>8, <1>9, <1>10, <1>11 DEF Next, Step

\* Every step keeps the counters in step with the calls.
LEMMA BookkeepingStep ==
  ASSUME TypeOK, TrimmingCounted, NeverSilent, [Next]_vars
  PROVE  TrimmingCounted' /\ NeverSilent'
<1> USE DEF TypeOK, TrimmingCounted, NeverSilent, Go
<1>1. ASSUME NEW f \in Failures, Record(f) PROVE TrimmingCounted' /\ NeverSilent'
  BY <1>1 DEF Record, redisVars, counters
<1>2. ASSUME NEW f \in Failures, AddLands(f) PROVE TrimmingCounted' /\ NeverSilent'
  BY <1>2 DEF AddLands, Add
<1>3. ASSUME NEW f \in Failures, AddReplyLost(f) PROVE TrimmingCounted' /\ NeverSilent'
  BY <1>3 DEF AddReplyLost, Add, counters
<1>4. ASSUME NEW f \in Failures, Fails(f) PROVE TrimmingCounted' /\ NeverSilent'
  BY <1>4 DEF Fails, redisVars
<1>5. ASSUME NEW f \in Failures, Count(f) PROVE TrimmingCounted' /\ NeverSilent'
  BY <1>5 DEF Count, redisVars, counters
<1>6. ASSUME NEW f \in Failures, List(f) PROVE TrimmingCounted' /\ NeverSilent'
  BY <1>6 DEF List, redisVars, counters
<1>7. ASSUME NEW f \in Failures, NEW e \in victims[f], RemoveEntry(f, e) \/ RemoveFails(f, e)
      PROVE  TrimmingCounted' /\ NeverSilent'
  BY <1>7 DEF RemoveEntry, RemoveFails, redisVars, counters
<1>9. ASSUME NEW f \in Failures, Trimmed(f) PROVE TrimmingCounted' /\ NeverSilent'
  BY <1>9 DEF Trimmed, redisVars, counters
<1>10. ASSUME NEW p \in Processes, Crash(p) PROVE TrimmingCounted' /\ NeverSilent'
  BY <1>10 DEF Crash, InFlight, redisVars, counters
<1>11. CASE UNCHANGED vars
  BY <1>11 DEF vars, redisVars, counters
<1>12. QED
  BY <1>1, <1>2, <1>3, <1>4, <1>5, <1>6, <1>7, <1>9, <1>10, <1>11 DEF Next, Step

-----------------------------------------------------------------------------
(* Some call always has the job of bringing the queue back to its limit.    *)

\* What it takes for call g to have that job.
Charged(g) ==
  /\ g \in landed
  /\ \/ phase[g] \in {"adding", "counting"}
     \/ phase[g] = "listing" /\ Cardinality(waiting) <= MaxEntries + excess[g]
     \/ phase[g] = "removing" /\ Cardinality(waiting \ victims[g]) <= MaxEntries

\* TrimPending in terms of the calls charged with the trim.
LEMMA TrimPendingCharged ==
  TrimPending <=> (~missed => Cardinality(waiting) <= MaxEntries \/ \E g \in landed : Charged(g))
BY DEF TrimPending, Charged

\* A call keeps the job over a step of another that adds nothing to the queue.
LEMMA StaysCharged ==
  ASSUME TypeOK, NEW g \in Failures, Charged(g), waiting' \subseteq waiting, landed' = landed,
         phase'[g] = phase[g], excess'[g] = excess[g], victims'[g] = victims[g]
  PROVE  Charged(g)'
<1>1. waiting \in SUBSET Failures
  BY DEF TypeOK
<1>2. Cardinality(waiting') <= Cardinality(waiting)
      /\ Cardinality(waiting' \ victims[g]) <= Cardinality(waiting \ victims[g])
  BY <1>1, Smaller
<1>3. /\ Cardinality(waiting) \in Nat /\ Cardinality(waiting') \in Nat
      /\ Cardinality(waiting \ victims[g]) \in Nat
      /\ Cardinality(waiting' \ victims[g]) \in Nat
  BY <1>1, Finite
<1>4. MaxEntries \in Nat /\ excess[g] \in Nat
  BY DeadLetterAssumption DEF TypeOK
<1>5. Cardinality(waiting) <= MaxEntries + excess[g]
        => Cardinality(waiting') <= MaxEntries + excess[g]
  BY <1>2, <1>3, <1>4
<1>6. Cardinality(waiting \ victims[g]) <= MaxEntries
        => Cardinality(waiting' \ victims[g]) <= MaxEntries
  BY <1>2, <1>3, <1>4
<1>7. QED
  BY <1>5, <1>6 DEF Charged

\* A queue over its limit has a call charged with trimming it, whichever call steps.
LEMMA TrimPendingStep ==
  ASSUME DeadLetterInv, [Next]_vars
  PROVE  TrimPending'
<1> SUFFICES ASSUME ~missed'
             PROVE  Cardinality(waiting') <= MaxEntries \/ \E g \in landed' : Charged(g)'
  BY TrimPendingCharged DEF TrimPending, Charged
<1> USE DEF Go
<1>a. TypeOK /\ TrimPending /\ waiting \in SUBSET Failures /\ landed \in SUBSET Failures
  BY DEF DeadLetterInv, TypeOK
<1>b. Cardinality(waiting) \in Nat /\ MaxEntries \in Nat
  BY <1>a, Finite, DeadLetterAssumption
<1>c. ~missed => Cardinality(waiting) <= MaxEntries \/ \E g \in landed : Charged(g)
  BY <1>a, TrimPendingCharged
\* A step that adds nothing and keeps whoever was charged charged.
<1>d. ASSUME ~missed, waiting' = waiting, landed' = landed,
             \A g \in landed : Charged(g) => Cardinality(waiting) <= MaxEntries \/ Charged(g)'
      PROVE  Cardinality(waiting') <= MaxEntries \/ \E g \in landed' : Charged(g)'
  BY <1>c, <1>d
<1>1. ASSUME NEW f \in Failures, Record(f)
      PROVE  Cardinality(waiting') <= MaxEntries \/ \E g \in landed' : Charged(g)'
  <2>1. \A g \in landed : Charged(g) => g # f
    BY <1>1 DEF Record, Charged
  <2>2. \A g \in landed : Charged(g) => Charged(g)'
    BY <1>1, <1>a, <2>1, StaysCharged DEF Record, redisVars, trimVars, TypeOK
  <2>3. QED
    BY <1>1, <1>d, <2>2 DEF Record, redisVars
<1>2. ASSUME NEW f \in Failures, AddLands(f) \/ AddReplyLost(f)
      PROVE  \E g \in landed' : Charged(g)'
  BY <1>2, <1>a DEF AddLands, AddReplyLost, Add, Charged, TypeOK
<1>3. ASSUME NEW f \in Failures, Fails(f)
      PROVE  Cardinality(waiting') <= MaxEntries \/ \E g \in landed' : Charged(g)'
  <2>1. ~missed /\ f \notin landed
    BY <1>3, <1>a DEF Fails, TypeOK
  <2>2. \A g \in landed : Charged(g) => Charged(g)'
    BY <1>3, <1>a, <2>1, StaysCharged DEF Fails, redisVars, trimVars, TypeOK
  <2>3. QED
    BY <1>3, <1>d, <2>1, <2>2 DEF Fails, redisVars
<1>4. ASSUME NEW f \in Failures, Count(f)
      PROVE  Cardinality(waiting') <= MaxEntries \/ \E g \in landed' : Charged(g)'
  <2>1. f \in landed /\ landed' = landed /\ waiting' = waiting
    BY <1>4 DEF Count, redisVars, DeadLetterInv, TrimmingCounted, NeverSilent
  <2>2. CASE Cardinality(waiting) <= MaxEntries
    BY <2>1, <2>2
  <2>3. CASE ~(Cardinality(waiting) <= MaxEntries)
    <3>1. overflow(Cardinality(waiting)) = Cardinality(waiting) - MaxEntries
          /\ overflow(Cardinality(waiting)) # 0
      BY <1>b, <2>3 DEF overflow
    <3>2. phase'[f] = "listing" /\ excess'[f] = Cardinality(waiting) - MaxEntries
      BY <1>4, <1>a, <3>1 DEF Count, TypeOK
    <3>3. Cardinality(waiting') <= MaxEntries + excess'[f]
      BY <1>b, <2>1, <3>2
    <3>4. QED
      BY <2>1, <3>2, <3>3 DEF Charged
  <2>4. QED
    BY <2>2, <2>3
<1>5. ASSUME NEW f \in Failures, List(f)
      PROVE  Cardinality(waiting') <= MaxEntries \/ \E g \in landed' : Charged(g)'
  <2>1. waiting' = waiting /\ landed' = landed /\ missed' = missed
    BY <1>5 DEF List, redisVars
  <2>2. ASSUME NEW g \in landed, Charged(g), g # f PROVE Charged(g)'
    BY <1>5, <1>a, <2>2, StaysCharged DEF List, redisVars, TypeOK
  <2>3. ASSUME Charged(f) PROVE Charged(f)'
    <3>1. Cardinality(waiting) <= MaxEntries + excess[f] /\ f \in landed
      BY <1>5, <2>3 DEF List, Charged
    <3>2. PICK S \in SUBSET waiting : IsOldest(S, excess[f])
                                      /\ victims' = [victims EXCEPT ![f] = S]
      BY <1>5 DEF List
    <3>3. Cardinality(waiting \ S) <= MaxEntries
      BY <1>a, <3>1, <3>2, OldestLeaves DEF TypeOK
    <3>4. phase'[f] = "removing" /\ victims'[f] = S
      BY <1>5, <1>a, <3>2 DEF List, TypeOK
    <3>5. QED
      BY <2>1, <3>1, <3>3, <3>4 DEF Charged
  <2>4. QED
    BY <1>d, <2>1, <2>2, <2>3
<1>6. ASSUME NEW f \in Failures, NEW e \in victims[f], RemoveEntry(f, e)
      PROVE  Cardinality(waiting') <= MaxEntries \/ \E g \in landed' : Charged(g)'
  <2>1. waiting' = waiting \ {e} /\ landed' = landed /\ missed' = missed
    BY <1>6 DEF RemoveEntry
  <2>2. Cardinality(waiting') <= Cardinality(waiting) /\ Cardinality(waiting') \in Nat
    BY <1>a, <2>1, Smaller, Finite
  <2>3. CASE Cardinality(waiting) <= MaxEntries
    BY <1>b, <2>2, <2>3
  <2>4. ASSUME NEW g \in landed, Charged(g), g # f PROVE Charged(g)'
    BY <1>6, <1>a, <2>1, <2>4, StaysCharged DEF RemoveEntry, TypeOK
  <2>5. ASSUME Charged(f) PROVE Charged(f)'
    <3>1. f \in landed /\ Cardinality(waiting \ victims[f]) <= MaxEntries
      BY <1>6, <2>5 DEF RemoveEntry, Charged
    <3>2. phase'[f] = "removing" /\ victims'[f] = victims[f] \ {e}
      BY <1>6, <1>a DEF RemoveEntry, TypeOK
    <3>3. waiting' \ victims'[f] = waiting \ victims[f]
      BY <1>6, <2>1, <3>2
    <3>4. QED
      BY <2>1, <3>1, <3>2, <3>3 DEF Charged
  <2>6. QED
    BY <1>c, <2>1, <2>3, <2>4, <2>5
<1>7. ASSUME NEW f \in Failures, Trimmed(f)
      PROVE  Cardinality(waiting') <= MaxEntries \/ \E g \in landed' : Charged(g)'
  <2>1. waiting' = waiting /\ landed' = landed /\ missed' = missed
    BY <1>7 DEF Trimmed, redisVars
  <2>2. ASSUME NEW g \in landed, Charged(g), g # f PROVE Charged(g)'
    BY <1>7, <1>a, <2>2, StaysCharged DEF Trimmed, redisVars, trimVars, TypeOK
  <2>3. ASSUME Charged(f) PROVE Cardinality(waiting) <= MaxEntries
    <3>1. Cardinality(waiting \ victims[f]) <= MaxEntries /\ victims[f] = {}
      BY <1>7, <2>3 DEF Trimmed, Charged
    <3>2. waiting \ victims[f] = waiting
      BY <3>1
    <3>3. QED
      BY <3>1, <3>2
  <2>4. QED
    BY <1>d, <2>1, <2>2, <2>3
<1>8. ASSUME NEW p \in Processes, Crash(p)
      PROVE  Cardinality(waiting') <= MaxEntries \/ \E g \in landed' : Charged(g)'
  <2>1. ~missed /\ waiting' = waiting /\ landed' = landed
    BY <1>8, <1>a DEF Crash, redisVars, TypeOK
  <2>2. \A g \in landed : Owner[g] = p => g \notin InFlight
    BY <1>8, <1>a DEF Crash, TypeOK, InFlight
  <2>3. ASSUME NEW g \in landed, Charged(g) PROVE Charged(g)'
    <3>1. Owner[g] # p /\ g \in Failures
      BY <1>a, <2>2, <2>3 DEF Charged, InFlight
    <3>2. QED
      BY <1>8, <1>a, <2>1, <2>3, <3>1, StaysCharged DEF Crash, TypeOK
  <2>4. QED
    BY <1>d, <2>1, <2>3
<1>9. CASE UNCHANGED vars
  BY <1>9, <1>c DEF vars, redisVars, trimVars, Charged
<1>10. QED
  BY <1>1, <1>2, <1>3, <1>4, <1>5, <1>6, <1>7, <1>8, <1>9 DEF Next, Step, RemoveFails

-----------------------------------------------------------------------------
(* The theorems.                                                           *)

\* The writer's bookkeeping and the trims' shared duty hold in every reachable
\* state, for any number of failures, processes and faults.
THEOREM DeadLetterInvariant == Spec => []DeadLetterInv
<1>1. Init => DeadLetterInv
  BY InitInv
<1>2. DeadLetterInv /\ [Next]_vars => DeadLetterInv'
  BY TypeStep, BookkeepingStep, TrimPendingStep DEF DeadLetterInv
<1>3. QED
  BY <1>1, <1>2, PTL DEF Spec

\* Type correctness of the model of the writer.
THEOREM TypeCorrect == Spec => []TypeOK
<1>1. DeadLetterInv => TypeOK
  BY DEF DeadLetterInv
<1>2. QED
  BY <1>1, DeadLetterInvariant, PTL

\* No interleaving of record() calls leaves the dead-letter queue over
\* maxEntries once they have settled, unless the last trim to count went wrong.
THEOREM Bounded == Spec => []BoundedAtRest
<1>1. DeadLetterInv => BoundedAtRest
  BY DEF DeadLetterInv, TrimPending, BoundedAtRest, InFlight, TypeOK
<1>2. QED
  BY <1>1, DeadLetterInvariant, PTL

\* No record() call settles without being counted.
THEOREM Counted == Spec => []NeverSilent
<1>1. DeadLetterInv => NeverSilent
  BY DEF DeadLetterInv
<1>2. QED
  BY <1>1, DeadLetterInvariant, PTL

\* The writer, with its trims, resent adds and deaths, implements the atomic
\* dead-letter write.
THEOREM Implementation == Spec => ImplementsContract
<1>1. Init => Contract!Init
  BY DEF Init, Contract!Init, InFlight
<1>2. DeadLetterInv /\ [Next]_vars => [Contract!Next]_(Contract!contractVars)
  <2> SUFFICES ASSUME DeadLetterInv, [Next]_vars
               PROVE  Contract!Next \/ UNCHANGED Contract!contractVars
    OBVIOUS
  <2>a. TypeOK /\ TrimmingCounted /\ deadLettered \subseteq landed
    BY DEF DeadLetterInv, NeverSilent
  <2> USE DEF InFlight, Go, TypeOK, Contract!contractVars
  <2>1. ASSUME NEW f \in Failures, Record(f) PROVE Contract!Begin(f) \/ UNCHANGED Contract!contractVars
    BY <2>1, <2>a DEF Record, Contract!Begin, redisVars
  <2>2. ASSUME NEW f \in Failures, AddLands(f) \/ AddReplyLost(f)
        PROVE  Contract!Land(f) \/ UNCHANGED Contract!contractVars
    <3>1. landed' = landed \cup {f} /\ phase[f] = "adding"
      BY <2>2 DEF AddLands, AddReplyLost, Add
    <3>2. phase' = phase \/ phase' = [phase EXCEPT ![f] = "counting"]
      BY <2>2 DEF AddLands, AddReplyLost
    <3>3. \A g \in Failures : g # f => phase'[g] = phase[g]
      BY <2>a, <3>2
    <3>4. phase'[f] \in {"adding", "counting"}
      BY <2>a, <3>1, <3>2
    <3>5. {g \in InFlight : g \notin landed}' = {g \in InFlight : g \notin landed} \ {f}
      BY <3>1, <3>3
    <3>6. UNCHANGED {g \in Failures : phase[g] \in {"settled", "died"} /\ g \notin landed}
      BY <3>1, <3>3, <3>4
    <3>7. CASE f \in landed
      BY <3>1, <3>5, <3>6, <3>7
    <3>8. CASE f \notin landed
      BY <3>1, <3>5, <3>6, <3>8 DEF Contract!Land
    <3>9. QED
      BY <3>7, <3>8
  <2>3. ASSUME NEW f \in Failures, Fails(f)
        PROVE  Contract!Lose({f}) \/ UNCHANGED Contract!contractVars
    BY <2>3, <2>a DEF Fails, Contract!Lose, redisVars
  <2>4. ASSUME NEW f \in Failures, Count(f) \/ List(f) \/ Trimmed(f)
        PROVE  UNCHANGED Contract!contractVars
    BY <2>4, <2>a DEF Count, List, Trimmed, TrimmingCounted, redisVars
  <2>5. ASSUME NEW f \in Failures, NEW e \in victims[f], RemoveEntry(f, e) \/ RemoveFails(f, e)
        PROVE  UNCHANGED Contract!contractVars
    BY <2>5 DEF RemoveEntry, RemoveFails, redisVars
  <2>6. ASSUME NEW p \in Processes, Crash(p)
        PROVE  Contract!Lose({f \in InFlight : Owner[f] = p} \ landed)
    BY <2>6, <2>a DEF Crash, Contract!Lose, redisVars
  <2>7. CASE UNCHANGED vars
    BY <2>7 DEF vars, redisVars
  <2>8. ASSUME NEW F \in SUBSET Failures, Contract!Lose(F) PROVE Contract!Next
    BY <2>8 DEF Contract!Next
  <2>9. ASSUME NEW f \in Failures, Contract!Begin(f) \/ Contract!Land(f) PROVE Contract!Next
    BY <2>9 DEF Contract!Next
  <2> HIDE DEF InFlight, Contract!contractVars
  <2>10. ASSUME NEW f \in Failures, Step(f) PROVE Contract!Next \/ UNCHANGED Contract!contractVars
    BY <2>2, <2>3, <2>4, <2>5, <2>8, <2>9, <2>10 DEF Step
  <2>11. ASSUME NEW p \in Processes, Crash(p) PROVE Contract!Next
    <3> DEFINE F == {f \in InFlight : Owner[f] = p} \ landed
    <3>1. F \in SUBSET Failures
      BY DEF InFlight
    <3>2. Contract!Lose(F)
      BY <2>6, <2>11
    <3> HIDE DEF F
    <3>3. QED
      BY <3>1, <3>2 DEF Contract!Next, Contract!Lose
  <2>12. QED
    BY <2>1, <2>2, <2>7, <2>9, <2>10, <2>11 DEF Next
<1>3. QED
  BY <1>1, <1>2, DeadLetterInvariant, PTL DEF Spec, ImplementsContract, Contract!Spec

=============================================================================
