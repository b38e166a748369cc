---------------------------- MODULE MCDeadLetter ----------------------------
EXTENDS DeadLetter, TLC

CONSTANTS f1, f2, f3, p1, p2

\* One failure reported by the first process, two by the second.
Owners3 == f1 :> p1 @@ f2 :> p2 @@ f3 :> p2
=============================================================================
