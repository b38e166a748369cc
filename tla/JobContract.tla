----------------------------- MODULE JobContract ----------------------------
(***************************************************************************)
(* What the kit promises about a job and its dead-letter records, with the *)
(* workers, locks, stalls and retries left out: a job is pending until it  *)
(* succeeds, or fails for good under an attempt number larger than those   *)
(* of its earlier final failures; only an operator reopens a failed job,   *)
(* nothing reopens one that succeeded; and only final failures are         *)
(* recorded, each once.                                                    *)
(***************************************************************************)
EXTENDS Naturals

CONSTANT Jobs

VARIABLES status,    \* per job: "pending", "succeeded", "failed" or "forgotten"
          failures,  \* the final failures so far: <<job, attempt>>
          recorded   \* the failures in the dead-letter queue

contractVars == <<status, failures, recorded>>

Init ==
  /\ status = [j \in Jobs |-> "pending"]
  /\ failures = {}
  /\ recorded = {}

Succeed(j) ==
  /\ status[j] = "pending"
  /\ status' = [status EXCEPT ![j] = "succeeded"]
  /\ UNCHANGED <<failures, recorded>>

FailForGood(j) ==
  /\ status[j] = "pending"
  /\ status' = [status EXCEPT ![j] = "failed"]
  /\ \E new \in failures' : /\ failures' = failures \cup {new}
                            /\ new \in {j} \X Nat
                            /\ \A id \in failures : id[1] = j => id[2] < new[2]
  /\ UNCHANGED recorded

Reopen(j) ==
  /\ status[j] = "failed"
  /\ status' = [status EXCEPT ![j] = "pending"]
  /\ UNCHANGED <<failures, recorded>>

Forget(j) ==
  /\ status[j] \in {"succeeded", "failed"}
  /\ status' = [status EXCEPT ![j] = "forgotten"]
  /\ UNCHANGED <<failures, recorded>>

Record(id) ==
  /\ id \in failures \ recorded
  /\ recorded' = recorded \cup {id}
  /\ UNCHANGED <<status, failures>>

Next ==
  \/ \E j \in Jobs : Succeed(j) \/ FailForGood(j) \/ Reopen(j) \/ Forget(j)
  \/ \E id \in failures : Record(id)

Spec == Init /\ [][Next]_contractVars
=============================================================================
