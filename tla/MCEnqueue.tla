----------------------------- MODULE MCEnqueue ------------------------------
EXTENDS Enqueue, TLC

CONSTANTS r1, r2, r3, r4, r5, r6, k1

\* Two sound calls with the same key and one without any; of the calls with a
\* defect, one uses the key too.
MCKey == [r \in Requests |-> IF r \in {r1, r2, r4} THEN k1 ELSE NoKey]
MCDefects ==
  [r \in Requests |-> CASE r = r4 -> {"oversize"}
                         [] r = r5 -> {"payload", "oversize"}
                         [] r = r6 -> {"content type"}
                         [] OTHER  -> {}]
=============================================================================
