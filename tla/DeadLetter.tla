----------------------------- MODULE DeadLetter -----------------------------
(***************************************************************************)
(* The dead-letter writer (worker/dead-letter.ts): the record() calls of   *)
(* every worker process, each an add to the one dead-letter queue followed *)
(* by a trim that counts, lists and removes in separate round trips.       *)
(* Nothing consumes the queue, so its records wait until they are evicted. *)
(***************************************************************************)
EXTENDS Naturals, FiniteSets

CONSTANTS
  Failures,     \* the terminal failures to record: one record() call for each
  Processes,    \* the worker processes
  Owner,        \* per failure: the process whose 'failed' listener reports it
  MaxEntries,   \* DEAD_LETTER_MAX_ENTRIES
  MayRefuse,    \* whether a command may be answered with an error
  MaxCrashes,   \* bound: process deaths
  MaxResends    \* bound: adds sent again after a reconnect

ASSUME DeadLetterAssumption ==
  /\ IsFiniteSet(Failures)
  /\ Owner \in [Failures -> Processes]
  /\ MaxEntries \in Nat \ {0}
  /\ MayRefuse \in BOOLEAN
  /\ {MaxCrashes, MaxResends} \subseteq Nat

VARIABLES
  \* Redis (external)
  waiting,   \* the records in the dead-letter queue, by their failure
  before,    \* their order in the wait list: <<x, y>> when x is older than y
  \* the record() calls
  phase,     \* per call: where write() is
  excess,    \* per call: waiting - maxEntries, as trim() counted it
  victims,   \* per call: the entries trim() listed and has yet to remove
  deadLettered, writeFailures,  \* the two counters, as the calls they count
  \* history and bounds
  landed,    \* failures whose record has been in the queue
  missed,    \* whether a trim went wrong since the queue was last counted
  resends, crashes

redisVars == <<waiting, before, landed>>
trimVars  == <<excess, victims>>
counters  == <<deadLettered, writeFailures>>
vars == <<redisVars, phase, trimVars, counters, missed, resends, crashes>>

Phases == {"none", "adding", "counting", "listing", "removing", "settled", "died"}

Init ==
  /\ waiting = {}
  /\ before = {}
  /\ phase = [f \in Failures |-> "none"]
  /\ excess = [f \in Failures |-> 0]
  /\ victims = [f \in Failures |-> {}]
  /\ deadLettered = {}
  /\ writeFailures = {}
  /\ landed = {}
  /\ missed = FALSE
  /\ resends = 0
  /\ crashes = 0

Go(f, p) == phase' = [phase EXCEPT ![f] = p]

-----------------------------------------------------------------------------
(* write()                                                                 *)

\* Fault: a record that could not be written is handed in once more.
Record_Again(f) ==
  /\ phase[f] \in {"none", "settled"}
  /\ Go(f, "adding")
  /\ UNCHANGED <<redisVars, trimVars, counters, missed, resends, crashes>>

\* record() is called: the promise of write() joins inFlight.
Record(f) ==
  /\ phase[f] = "none"
  /\ Go(f, "adding")
  /\ UNCHANGED <<redisVars, trimVars, counters, missed, resends, crashes>>

\* External: what Queue.add does in Redis.  It ignores an id that exists, and an
\* evicted record's id no longer does.
Add(f) ==
  /\ waiting' = waiting \cup {f}
  /\ before' = before \cup IF f \in waiting THEN {} ELSE waiting \X {f}
  /\ landed' = landed \cup {f}

\* Fault: queue.add is not awaited.
AddLands_NotAwaited(f) ==
  /\ phase[f] = "adding"
  /\ deadLettered' = deadLettered \cup {f}
  /\ Go(f, "counting")
  /\ UNCHANGED <<redisVars, trimVars, writeFailures, missed, resends, crashes>>

\* The add is acknowledged and counted; trim() follows.
AddLands(f) ==
  /\ phase[f] = "adding"
  /\ Add(f)
  /\ deadLettered' = deadLettered \cup {f}
  /\ Go(f, "counting")
  /\ UNCHANGED <<trimVars, writeFailures, missed, resends, crashes>>

\* The add lands but the connection drops before the reply.  The worker's client
\* waits for a reconnect (maxRetriesPerRequest null) and sends it again.
AddReplyLost(f) ==
  /\ phase[f] = "adding"
  /\ resends < MaxResends
  /\ resends' = resends + 1
  /\ Add(f)
  /\ UNCHANGED <<phase, trimVars, counters, missed, crashes>>

\* Fault: a failed write is begun again, for ever.
Fails_Retried(f) ==
  /\ phase[f] \in {"adding", "counting", "listing"}
  /\ MayRefuse
  /\ Go(f, "adding")
  /\ UNCHANGED <<redisVars, trimVars, counters, missed, resends, crashes>>

\* write() rejects, from queue.add (which refuses also a record over the sizeLimit) or
\* from trim(): record() swallows and counts it.
Fails(f) ==
  /\ phase[f] \in {"adding", "counting", "listing"}
  /\ MayRefuse
  /\ writeFailures' = writeFailures \cup {f}
  /\ missed' = (missed \/ f \in landed)
  /\ Go(f, "settled")
  /\ UNCHANGED <<redisVars, trimVars, deadLettered, resends, crashes>>

-----------------------------------------------------------------------------
(* trim(): one round trip per action.                                      *)

\* Fault: one record more than maxEntries is let stay.
overflow_OffByOne(n) == IF n > MaxEntries THEN n - MaxEntries - 1 ELSE 0

\* waiting - maxEntries, and nothing to do when it is not positive
overflow(n) == IF n > MaxEntries THEN n - MaxEntries ELSE 0

\* getWaitingCount()
Count(f) ==
  LET over == overflow(Cardinality(waiting))
  IN  /\ phase[f] = "counting"
      /\ excess' = [excess EXCEPT ![f] = over]
      /\ Go(f, IF over = 0 THEN "settled" ELSE "listing")
      /\ missed' = FALSE
      /\ UNCHANGED <<redisVars, victims, counters, resends, crashes>>

\* External: S is what getWaiting(0, k - 1) returns, the k oldest records.
IsOldest(S, k) ==
  /\ Cardinality(S) = IF k < Cardinality(waiting) THEN k ELSE Cardinality(waiting)
  /\ S \X (waiting \ S) \subseteq before

\* The listing is one step.  (getWaiting reads the ids and then the records; that one
\* of these may be gone by then, which would count the write as failed while the
\* other entries are still removed, is left out.)
List(f) ==
  /\ phase[f] = "listing"
  /\ \E S \in SUBSET waiting :
       IsOldest(S, excess[f]) /\ victims' = [victims EXCEPT ![f] = S]
  /\ Go(f, "removing")
  /\ UNCHANGED <<redisVars, excess, counters, missed, resends, crashes>>

\* entry.remove(): harmless when another trim has removed the entry already.
RemoveEntry(f, e) ==
  /\ phase[f] = "removing"
  /\ e \in victims[f]
  /\ victims' = [victims EXCEPT ![f] = @ \ {e}]
  /\ waiting' = waiting \ {e}
  /\ before' = {p \in before : e \notin {p[1], p[2]}}
  /\ UNCHANGED <<landed, phase, excess, counters, missed, resends, crashes>>

\* A removal that fails is logged and passed over.
RemoveFails(f, e) ==
  /\ MayRefuse
  /\ phase[f] = "removing"
  /\ e \in victims[f]
  /\ victims' = [victims EXCEPT ![f] = @ \ {e}]
  /\ missed' = TRUE
  /\ UNCHANGED <<redisVars, phase, excess, counters, resends, crashes>>

\* Fault: the removals are not awaited.
Trimmed_NotAwaited(f) ==
  /\ phase[f] = "removing"
  /\ Go(f, "settled")
  /\ UNCHANGED <<redisVars, trimVars, counters, missed, resends, crashes>>

\* All removals have settled, and with them the call.
Trimmed(f) ==
  /\ phase[f] = "removing"
  /\ victims[f] = {}
  /\ Go(f, "settled")
  /\ UNCHANGED <<redisVars, trimVars, counters, missed, resends, crashes>>

\* Calls still in inFlight: pending() is their number.
InFlight == {f \in Failures : phase[f] \in {"adding", "counting", "listing", "removing"}}

\* A process dies with the calls it had in flight.
Crash(p) ==
  LET own == {f \in InFlight : Owner[f] = p}
  IN  /\ crashes < MaxCrashes
      /\ own # {}
      /\ crashes' = crashes + 1
      /\ phase' = [f \in Failures |-> IF f \in own THEN "died" ELSE phase[f]]
      /\ victims' = [f \in Failures |-> IF f \in own THEN {} ELSE victims[f]]
      /\ missed' = (missed \/ own \cap landed # {})
      /\ UNCHANGED <<redisVars, excess, counters, resends>>

-----------------------------------------------------------------------------
Step(f) ==
  \/ AddLands(f)
  \/ Fails(f)
  \/ Count(f)
  \/ List(f)
  \/ \E e \in victims[f] : RemoveEntry(f, e) \/ RemoveFails(f, e)
  \/ Trimmed(f)

Next ==
  \/ \E f \in Failures : Record(f) \/ AddReplyLost(f) \/ Step(f)
  \/ \E p \in Processes : Crash(p)

Spec == Init /\ [][Next]_vars

\* A command in flight is answered or refused sooner or later: Redis stays
\* reachable, or the client keeps reconnecting to it.
FairSpec == Spec /\ \A f \in Failures : WF_vars(Step(f))

-----------------------------------------------------------------------------
(* Properties.                                                             *)

\* Every variable holds a value of its type, the order of the wait list is a
\* total order of the records in it, and only a call in trim() has victims.
TypeOK ==
  /\ waiting \subseteq landed
  /\ landed \subseteq Failures
  /\ before \subseteq waiting \X waiting
  /\ \A x, y \in waiting : x # y => (<<x, y>> \in before <=> <<y, x>> \notin before)
  /\ phase \in [Failures -> Phases]
  /\ excess \in [Failures -> Nat]
  /\ victims \in [Failures -> SUBSET Failures]
  /\ \A f \in Failures : victims[f] # {} => phase[f] = "removing"
  /\ deadLettered \subseteq Failures
  /\ writeFailures \subseteq Failures
  /\ missed \in BOOLEAN
  /\ resends \in Nat
  /\ crashes \in Nat

\* "Keeps the queue bounded": once the calls in flight have settled there are at
\* most maxEntries records, however the trims of different calls and processes
\* interleaved, and though some went wrong, if only one counted after the last
\* that did.
BoundedAtRest ==
  InFlight = {} /\ ~missed => Cardinality(waiting) <= MaxEntries

\* "Swallowed deliberately, but never silently": a call that settles without its
\* record in the queue has been counted as a write failure, one that was counted
\* as dead-lettered has put it there, and no call is uncounted.
NeverSilent ==
  /\ \A f \in Failures : phase[f] = "settled" => f \in deadLettered \cup writeFailures
  /\ deadLettered \subseteq landed
  /\ landed \cap {f \in Failures : phase[f] = "settled"} \subseteq deadLettered \cup writeFailures

\* The writer implements the atomic write JobLifecycle is built on.
Contract == INSTANCE DeadLetterContract WITH
  inFlight <- {f \in InFlight : f \notin landed},
  recorded <- landed,
  lost     <- {f \in Failures : phase[f] \in {"settled", "died"} /\ f \notin landed}

ImplementsContract == Contract!Spec

\* record() settles, whatever fails, so that a drain can wait for it.
RecordSettles ==
  \A f \in Failures : phase[f] = "adding" ~> phase[f] \in {"settled", "died"}

-----------------------------------------------------------------------------
(* The inductive invariant behind the theorems of DeadLetter_proofs.        *)

TrimmingCounted ==
  \A f \in Failures : phase[f] \in {"counting", "listing", "removing"} => f \in deadLettered

\* While the queue is over its limit some call will see to it: it has yet to
\* count, or is about to list enough, or holds enough victims.
TrimPending ==
  ~missed =>
    \/ Cardinality(waiting) <= MaxEntries
    \/ \E f \in landed :
         \/ phase[f] \in {"adding", "counting"}
         \/ phase[f] = "listing" /\ Cardinality(waiting) <= MaxEntries + excess[f]
         \/ phase[f] = "removing" /\ Cardinality(waiting \ victims[f]) <= MaxEntries

\* Whatever the interleaving of the trims, one of them has the job of bringing the
\* queue back to its limit: what makes BoundedAtRest hold when all have ended.
DeadLetterInv ==
  /\ TypeOK
  /\ TrimmingCounted
  /\ NeverSilent
  /\ TrimPending

-----------------------------------------------------------------------------
(* Claims of the repository that the code does not keep (violation runs).  *)

\* "Oldest records are evicted past this count": a record is evicted only while
\* maxEntries newer ones are in the queue.
EvictsOnlyPastLimit ==
  [][\A e \in waiting \ waiting' :
       Cardinality({y \in waiting : <<e, y>> \in before}) >= MaxEntries]_vars

=============================================================================
