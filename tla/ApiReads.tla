------------------------------ MODULE ApiReads ------------------------------
(***************************************************************************)
(* The routes of an API process that read from Redis, side by side:        *)
(* status requests (JobStatus) and scrapes of the queue depths             *)
(* (QueueDepth), over the process's one client.                            *)
(***************************************************************************)
EXTENDS JobStatus, Sequences

CONSTANTS Scrapes, Queues, Unset

ASSUME ApiReadsAssumption ==
  /\ Queues \in Seq(STRING)
  /\ Unset \notin Scrapes

VARIABLES gauge, asked, stage, report, refused, overtaken

Depth == INSTANCE QueueDepth

scrapeVars == <<gauge, asked, stage, report, refused, overtaken>>
readsVars == <<vars, scrapeVars>>

ReadsInit == Init /\ Depth!Init

ReadsNext ==
  \/ Next /\ UNCHANGED scrapeVars
  \/ Depth!Next /\ UNCHANGED vars

ReadsSpec == ReadsInit /\ [][ReadsNext]_readsVars

-----------------------------------------------------------------------------
(* Properties.                                                             *)

\* Every variable of either route holds a value of its type.
ReadsTypeOK == TypeOK /\ Depth!TypeOK

\* "A scrape must not fail because Redis is momentarily unavailable: the queue simply
\* reports no samples", and the numbers it does report "are never stale": of every
\* queue a scrape renders the sample it asked for itself, but for one that Redis could
\* not be asked for, and but for the resets and samples of scrapes that ran beside it.
SamplesAccountedFor ==
  \A s \in Scrapes : stage[s] = "done" =>
    \A q \in Depth!QueueNames : LET by == report[s][q] IN
      \/ by = s
      \/ by = Unset /\ (q \in refused[s] \/ overtaken[s] # {})
      \/ by \in Scrapes /\ (by \in overtaken[s] \/ s \in overtaken[by])

=============================================================================
