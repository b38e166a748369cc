------------------------ MODULE SignalHandlers_proofs -----------------------
(***************************************************************************)
(* The listeners that call the shutdown controller, for anything that may  *)
(* be thrown: what they report is a chain of causes, and they drive the    *)
(* controller as Shutdown says.  serializeError is a recursive function;   *)
(* that it is defined, and what it returns, is proved by induction on the  *)
(* depth that is left.                                                     *)
(***************************************************************************)
EXTENDS SignalHandlers, Shutdown_proofs, SequenceTheorems, WellFoundedInduction

\* Induction over the natural numbers, on a set: the least number outside has a predecessor.
LEMMA SetInduction ==
  ASSUME NEW S, 0 \in S, \A n \in Nat : n \in S => n + 1 \in S
  PROVE  Nat \subseteq S
<1> SUFFICES ASSUME Nat \ S # {} PROVE FALSE
  OBVIOUS
<1> DEFINE N == Nat \ S
<1>1. N \subseteq Nat /\ N # {}
  OBVIOUS
<1>2. PICK m \in N : \A k \in N : <<k, m>> \notin OpToRel(<, Nat)
  <2> HIDE DEF N
  <2> QED BY <1>1, WFMin, NatLessThanWellFounded, Zenon
<1>3. \A k \in N : ~(k < m)
  BY <1>1, <1>2, Zenon DEF OpToRel
<1>4. m \in Nat /\ m \notin S
  OBVIOUS
<1>5. m # 0
  BY <1>4
<1>6. m - 1 \in Nat /\ m = (m - 1) + 1 /\ m - 1 < m
  BY <1>4, <1>5
<1>7. m - 1 \in S
  BY <1>3, <1>6
<1> QED BY <1>4, <1>6, <1>7

-----------------------------------------------------------------------------
(* serializeError is the function its recursion says.                      *)

\* The calls of serializeError at one depth, the nested ones being answered by g.
Record(g, depth) ==
  [v \in Thrown |->
     IF depth = StackDepth THEN <<>>
     ELSE IF ~nested(v, depth) THEN <<v>>
     ELSE LET cause == g[depth + 1][readCause(v)]
          IN  IF cause = <<>> THEN <<>> ELSE <<v>> \o cause]

Depths == 0..StackDepth

\* The stack is deeper than a chain of causes is followed.
LEMMA DepthTypes ==
  StackDepth \in Nat /\ ErrorCauseMaxDepth \in Nat /\ StackDepth > ErrorCauseMaxDepth + 1
BY SignalHandlersAssumption

\* A cause that is followed is a value, read from an error above the bound.
LEMMA NestedCause ==
  ASSUME NEW v \in Thrown, NEW d \in Depths, nested(v, d)
  PROVE  /\ readCause(v) \in Thrown /\ readCause(v) = Cause[v] /\ v \in Errors
         /\ d < ErrorCauseMaxDepth
BY SignalHandlersAssumption DEF nested, readCause

\* They depend on the calls one level deeper only.
LEMMA RecordLocal ==
  ASSUME NEW g, NEW h, NEW d \in Depths, d # StackDepth => g[d + 1] = h[d + 1]
  PROVE  Record(g, d) = Record(h, d)
BY Zenon DEF Record

\* g is serializeError from depth m on.
Unrolled(g, m) == g = [d \in m..StackDepth |-> Record(g, d)]

\* There is such a function: from the exhausted stack up, one depth at a time.
LEMMA Unrolling == \E g : Unrolled(g, 0)
<1> DEFINE S == {n \in Nat : n <= StackDepth => \E g : Unrolled(g, StackDepth - n)}
<1>0. StackDepth \in Nat
  BY DepthTypes
<1>1. 0 \in S
  <2> DEFINE g == [d \in StackDepth..StackDepth |-> [v \in Thrown |-> <<>>]]
  <2>1. \A d \in StackDepth..StackDepth : Record(g, d) = [v \in Thrown |-> <<>>]
    BY <1>0 DEF Record
  <2>2. Unrolled(g, StackDepth)
    BY <2>1 DEF Unrolled
  <2>3. StackDepth - 0 = StackDepth
    BY <1>0
  <2> QED BY <2>2, <2>3
<1>2. ASSUME NEW n \in Nat, n \in S PROVE n + 1 \in S
  <2> SUFFICES ASSUME n + 1 <= StackDepth
               PROVE  \E g : Unrolled(g, StackDepth - (n + 1))
    OBVIOUS
  <2> DEFINE m == StackDepth - n
             l == StackDepth - (n + 1)
  <2>1. m \in Nat /\ m <= StackDepth /\ l \in Nat /\ m = l + 1
    BY <1>0
  <2>2. PICK g : Unrolled(g, m)
    BY <1>0, <1>2
  <2> DEFINE h == [d \in l..StackDepth |-> IF d = l THEN Record(g, d) ELSE g[d]]
  <2> HIDE DEF l, m
  <2>3. ASSUME NEW d \in m..StackDepth PROVE d \in l..StackDepth /\ g[d] = h[d]
    BY <1>0, <2>1
  <2>4. ASSUME NEW d \in l..StackDepth PROVE h[d] = Record(h, d)
    <3>0. d \in Depths /\ (d # StackDepth => d + 1 \in m..StackDepth) /\ (d # l => d \in m..StackDepth)
      BY <1>0, <2>1 DEF Depths
    <3>1. d # StackDepth => g[d + 1] = h[d + 1]
      BY <2>3, <3>0
    <3>2. Record(g, d) = Record(h, d)
      <4> HIDE DEF h
      <4> QED BY <3>0, <3>1, RecordLocal
    <3>3. h[d] = Record(g, d)
      <4>1. CASE d = l
        BY <4>1
      <4>2. CASE d # l
        <5>1. g[d] = Record(g, d)
          BY <2>2, <3>0, <4>2, Zenon DEF Unrolled
        <5> QED BY <2>3, <3>0, <4>2, <5>1
      <4> QED BY <4>1, <4>2
    <3> QED BY <3>2, <3>3
  <2>5. h = [d \in l..StackDepth |-> h[d]]
    OBVIOUS
  <2>6. h = [d \in l..StackDepth |-> Record(h, d)]
    <3> HIDE DEF h
    <3> QED BY <2>4, <2>5
  <2> QED BY <2>6 DEF Unrolled, l
<1>3. StackDepth \in S
  <2> HIDE DEF S
  <2> QED BY <1>0, <1>1, <1>2, SetInduction
<1> QED BY <1>0, <1>3

\* serializeError, which TLA+ defines as such a function if there is one, is one.
LEMMA Serialized == Unrolled(serializeError, 0)
BY Unrolling, Zenon DEF Unrolled, Record, serializeError

\* A call of serializeError.
LEMMA Serialize ==
  ASSUME NEW d \in Depths
  PROVE  serializeError[d] = Record(serializeError, d)
BY Serialized, Zenon DEF Unrolled, Depths

-----------------------------------------------------------------------------
(* What it returns.                                                        *)

\* What ReportsFollowCauses says of the report `chain` on v, with room for n records.
Follows(chain, v, n) ==
  /\ chain \in Seq(Thrown)
  /\ Len(chain) \in 1..n
  /\ chain[1] = v
  /\ \A k \in 1..(Len(chain) - 1) : chain[k] \in Errors /\ chain[k + 1] = Cause[chain[k]]
  /\ LET last == chain[Len(chain)] IN last \in Errors /\ Cause[last] \in Thrown => Len(chain) = n

\* The record of v alone.
LEMMA FollowsOne ==
  ASSUME NEW v \in Thrown, NEW n \in Nat \ {0}, v \in Errors /\ Cause[v] \in Thrown => n = 1
  PROVE  Follows(<<v>>, v, n)
<1>1. <<v>> \in Seq(Thrown) /\ Len(<<v>>) = 1 /\ <<v>>[1] = v
  OBVIOUS
<1> DEFINE c == <<v>>
<1> HIDE DEF c
<1>2. c \in Seq(Thrown) /\ Len(c) = 1 /\ c[1] = v
  BY <1>1 DEF c
<1>3. Follows(c, v, n)
  BY <1>2 DEF Follows
<1> QED BY <1>3 DEF c

\* The record of v in front of its cause's.
LEMMA FollowsMore ==
  ASSUME NEW v \in Errors, NEW n \in Nat, NEW chain, Follows(chain, Cause[v], n)
  PROVE  <<v>> \o chain # <<>> /\ Follows(<<v>> \o chain, v, n + 1)
<1> DEFINE c == <<v>> \o chain
           l == Len(chain)
<1>1. chain \in Seq(Thrown) /\ l \in 1..n /\ <<v>> \in Seq(Thrown) /\ Len(<<v>>) = 1 /\ <<v>>[1] = v
  BY SignalHandlersAssumption DEF Follows
<1>2. /\ c \in Seq(Thrown) /\ Len(c) = 1 + l
      /\ \A i \in 1..(1 + l) : c[i] = IF i <= 1 THEN <<v>>[i] ELSE chain[i - 1]
  <2> DEFINE one == <<v>>
  <2> HIDE DEF one
  <2>1. /\ one \o chain \in Seq(Thrown) /\ Len(one \o chain) = Len(one) + Len(chain)
        /\ \A i \in 1..(Len(one) + Len(chain)) :
             (one \o chain)[i] = IF i <= Len(one) THEN one[i] ELSE chain[i - Len(one)]
    BY <1>1, ConcatProperties DEF one
  <2> QED BY <1>1, <2>1 DEF one
<1>3. c[1] = v /\ \A i \in 1..l : c[i + 1] = chain[i]
  <2>1. c[1] = v
    BY <1>1, <1>2
  <2>2. ASSUME NEW i \in 1..l PROVE c[i + 1] = chain[i]
    BY <1>1, <1>2
  <2> QED BY <2>1, <2>2
<1> HIDE DEF c
<1>4. ASSUME NEW k \in 1..(Len(c) - 1) PROVE c[k] \in Errors /\ c[k + 1] = Cause[c[k]]
  <2>1. CASE k = 1
    <3>1. c[2] = chain[1]
      BY <1>1, <1>3
    <3> QED BY <2>1, <3>1, <1>3 DEF Follows
  <2>2. CASE k # 1
    <3>1. k - 1 \in 1..(l - 1) /\ k - 1 \in 1..l /\ k \in 1..l
      BY <1>1, <1>2, <2>2
    <3>2. c[k] = chain[k - 1] /\ c[k + 1] = chain[k]
      BY <1>3, <3>1
    <3>3. chain[k - 1] \in Errors /\ chain[(k - 1) + 1] = Cause[chain[k - 1]]
      BY <3>1 DEF Follows
    <3> QED BY <3>1, <3>2, <3>3
  <2> QED BY <2>1, <2>2
<1>5. c[Len(c)] = chain[l]
  BY <1>1, <1>2, <1>3
<1>6. c[Len(c)] \in Errors /\ Cause[c[Len(c)]] \in Thrown => Len(c) = n + 1
  BY <1>1, <1>2, <1>5 DEF Follows
<1>7. c # <<>>
  BY <1>1, <1>2
<1>8. Follows(c, v, n + 1)
  BY <1>1, <1>2, <1>3, <1>4, <1>6 DEF Follows
<1> QED BY <1>7, <1>8 DEF c

\* A listener's call reports the chain of causes: by induction on the depth left.
LEMMA SerializesChain ==
  \A v \in Thrown : Follows(serializeError[0][v], v, ErrorCauseMaxDepth + 1)
<1> DEFINE S == {n \in Nat : n <= ErrorCauseMaxDepth =>
                   \A v \in Thrown : Follows(serializeError[ErrorCauseMaxDepth - n][v], v, n + 1)}
<1>0. ErrorCauseMaxDepth \in Nat /\ StackDepth \in Nat /\ StackDepth > ErrorCauseMaxDepth + 1
  BY DepthTypes
<1>1. ASSUME NEW d \in 0..ErrorCauseMaxDepth, NEW v \in Thrown
      PROVE  /\ d \in Depths /\ d # StackDepth
             /\ serializeError[d][v] = Record(serializeError, d)[v]
  BY <1>0, Serialize DEF Depths
<1>2. ASSUME NEW d \in 0..ErrorCauseMaxDepth, NEW v \in Thrown, ~nested(v, d)
      PROVE  /\ serializeError[d][v] = <<v>>
             /\ v \in Errors /\ Cause[v] \in Thrown => d = ErrorCauseMaxDepth
  <2>1. serializeError[d][v] = <<v>>
    BY <1>1, <1>2 DEF Record
  <2>2. v \in Errors /\ Cause[v] \in Thrown => ~(d < ErrorCauseMaxDepth)
    BY <1>2, SignalHandlersAssumption DEF nested, readCause
  <2> QED BY <1>0, <2>1, <2>2
<1>3. 0 \in S
  <2> SUFFICES ASSUME NEW v \in Thrown PROVE Follows(serializeError[ErrorCauseMaxDepth][v], v, 1)
    BY <1>0
  <2>1. ErrorCauseMaxDepth \in 0..ErrorCauseMaxDepth /\ ~nested(v, ErrorCauseMaxDepth)
    BY <1>0 DEF nested
  <2>2. serializeError[ErrorCauseMaxDepth][v] = <<v>>
    BY <1>2, <2>1
  <2> QED BY <2>2, FollowsOne
<1>4. ASSUME NEW n \in Nat, n \in S PROVE n + 1 \in S
  <2> SUFFICES ASSUME n + 1 <= ErrorCauseMaxDepth, NEW v \in Thrown
               PROVE  Follows(serializeError[ErrorCauseMaxDepth - (n + 1)][v], v, (n + 1) + 1)
    OBVIOUS
  <2> DEFINE d == ErrorCauseMaxDepth - (n + 1)
             cause == serializeError[d + 1][readCause(v)]
  <2>1. d \in 0..ErrorCauseMaxDepth /\ d + 1 = ErrorCauseMaxDepth - n /\ d # ErrorCauseMaxDepth
        /\ n <= ErrorCauseMaxDepth
    BY <1>0
  <2>2. CASE ~nested(v, d)
    <3>1. serializeError[d][v] = <<v>> /\ ~(v \in Errors /\ Cause[v] \in Thrown)
      <4> HIDE DEF d
      <4> QED BY <1>2, <2>1, <2>2
    <3> QED BY <3>1, FollowsOne
  <2>3. CASE nested(v, d)
    <3>1. d \in Depths
      <4> HIDE DEF d
      <4> QED BY <1>1, <2>1
    <3>2. readCause(v) \in Thrown /\ readCause(v) = Cause[v] /\ v \in Errors
      BY <2>3, <3>1, NestedCause
    <3>3. Follows(cause, Cause[v], n + 1)
      BY <1>4, <2>1, <3>2
    <3>4. cause # <<>>
      BY <3>3 DEF Follows
    <3>5. serializeError[d][v] = <<v>> \o cause
      <4> HIDE DEF d
      <4>1. /\ d # StackDepth
            /\ serializeError[d][v] = Record(serializeError, d)[v]
        BY <1>1, <2>1
      <4> QED BY <2>3, <3>4, <4>1 DEF Record
    <3>6. Follows(<<v>> \o cause, v, (n + 1) + 1)
      <4> HIDE DEF cause
      <4> QED BY <3>2, <3>3, FollowsMore
    <3> QED BY <3>5, <3>6
  <2> QED BY <2>2, <2>3
<1>5. ErrorCauseMaxDepth \in S
  <2> HIDE DEF S
  <2> QED BY <1>0, <1>3, <1>4, SetInduction
<1>6. ErrorCauseMaxDepth - ErrorCauseMaxDepth = 0
  BY <1>0
<1> QED BY <1>0, <1>5, <1>6

-----------------------------------------------------------------------------
\* The controller's invariant, and that what was logged are chains of causes.
HandlersInv ==
  /\ ShutdownInv
  /\ reports \in Seq([of : Thrown, as : Seq(Thrown)])
  /\ \A n \in 1..Len(reports) :
       Follows(reports[n].as, reports[n].of, ErrorCauseMaxDepth + 1)

\* Before the first event.
LEMMA HandlersInitInv == HandlersInit => HandlersInv
BY InitInv DEF HandlersInit, HandlersInv

\* A last-resort listener reports a chain, so that it never aborts.
LEMMA LastResortStep ==
  ASSUME HandlersInv, NEW event, NEW v \in Thrown, LastResort(event, v)
  PROVE  Request /\ HandlersInv'
<1> DEFINE chain == serializeError[0][v]
           report == [of |-> v, as |-> chain]
<1>1. Follows(chain, v, ErrorCauseMaxDepth + 1)
  BY SerializesChain
<1>2. chain \in Seq(Thrown) /\ chain # <<>>
  BY <1>1 DEF Follows
<1>3. Request /\ reports' = Append(reports, report)
  BY <1>2 DEF LastResort
<1>4. ShutdownInv'
  BY <1>3, NextInv DEF HandlersInv, Next
<1> HIDE DEF chain
<1>5. report \in [of : Thrown, as : Seq(Thrown)] /\ report.of = v /\ report.as = chain
  BY <1>2
<1> HIDE DEF report
<1>6. /\ reports' \in Seq([of : Thrown, as : Seq(Thrown)]) /\ Len(reports') = Len(reports) + 1
      /\ \A n \in 1..Len(reports) : reports'[n] = reports[n]
      /\ reports'[Len(reports) + 1] = report /\ Len(reports) \in Nat
  BY <1>3, <1>5, AppendProperties DEF HandlersInv
<1>7. ASSUME NEW n \in 1..Len(reports')
      PROVE  Follows(reports'[n].as, reports'[n].of, ErrorCauseMaxDepth + 1)
  <2>1. CASE n = Len(reports) + 1
    BY <1>1, <1>5, <1>6, <2>1
  <2>2. CASE n # Len(reports) + 1
    <3>1. n \in 1..Len(reports)
      BY <1>6, <2>2
    <3> QED BY <1>6, <3>1 DEF HandlersInv
  <2> QED BY <2>1, <2>2
<1>8. HandlersInv'
  BY <1>4, <1>6, <1>7 DEF HandlersInv, Follows
<1> QED BY <1>3, <1>8

\* Every step is one of the controller, which leaves the reports alone, or such a report.
LEMMA HandlersStep == HandlersInv /\ [HandlersNext]_handlerVars => HandlersInv'
<1> SUFFICES ASSUME HandlersInv, [HandlersNext]_handlerVars PROVE HandlersInv'
  OBVIOUS
<1>1. ASSUME NEW event, NEW v \in Thrown, LastResort(event, v) PROVE HandlersInv'
  BY <1>1, LastResortStep
<1>2. ASSUME [Next]_shutdownVars, UNCHANGED reports PROVE HandlersInv'
  <2>1. ShutdownInv'
    BY <1>2, NextInv DEF HandlersInv
  <2> QED BY <1>2, <2>1 DEF HandlersInv, Follows
<1>3. \/ \E event \in {"unhandledRejection", "uncaughtException"}, v \in Thrown :
            LastResort(event, v)
      \/ [Next]_shutdownVars /\ UNCHANGED reports
  BY DEF HandlersNext, SignalReceived, handlerVars, Next
<1> QED BY <1>1, <1>2, <1>3

\* The controller's invariant holds under the listeners too, and all they log is a chain.
THEOREM HandlersInvariant == HandlersSpec => []HandlersInv
<1> QED BY HandlersInitInv, HandlersStep, PTL DEF HandlersSpec

\* Whatever is thrown, it is reported with the chain of its causes, circular or not, to
\* the first that has no readable cause, or ERROR_CAUSE_MAX_DEPTH deep.
THEOREM ChainsReported == HandlersSpec => []ReportsFollowCauses
<1>1. HandlersInv => ReportsFollowCauses
  BY DEF HandlersInv, ReportsFollowCauses, Follows
<1> QED BY <1>1, HandlersInvariant, PTL

\* The listeners implement the controller, each event being a request to shut down: none
\* ends the process by failing itself, and what holds of the controller holds of them.
THEOREM DrivesController == HandlersSpec => Spec
<1>1. HandlersInit => Init
  BY DEF HandlersInit
<1>2. HandlersInv /\ [HandlersNext]_handlerVars => [Next]_shutdownVars
  BY LastResortStep DEF HandlersNext, SignalReceived, handlerVars, Next
<1> QED BY <1>1, <1>2, HandlersInvariant, PTL DEF HandlersSpec, Spec

\* So the process does not exit before every step has been started and has ended, other
\* than at the deadline, whatever is thrown meanwhile.
THEOREM StepsBeforeExit == HandlersSpec => []ExitsAfterAllSteps
<1> QED BY DrivesController, AllStepsFirst, PTL

=============================================================================
