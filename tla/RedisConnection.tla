-------------------------- MODULE RedisConnection ---------------------------
(***************************************************************************)
(* The one Redis client of a process and its handle (queue/connection.ts). *)
(* The client notices an outage only when its socket breaks; until then    *)
(* commands are sent and not answered.  The processes instantiate this     *)
(* module; ioredis is external.                                            *)
(***************************************************************************)
EXTENDS Naturals

CONSTANTS
  OfflineQueue, \* enableOfflineQueue: whether commands wait while disconnected
  MaxOutages    \* bound: outages of Redis, and of the network to it

VARIABLES
  redis,    \* whether Redis can be reached (external)
  outages,
  status,   \* of the client: "connecting" (again), "ready" or "end"
  quit      \* of close(): "none", "queued" or "sent" (QUIT), "settled"

Init ==
  /\ redis \in BOOLEAN
  /\ outages = 0
  /\ status = "connecting"
  /\ quit = "none"

\* Commands are answered.
Connected == redis /\ status = "ready"

\* The retry strategy never gives up, and what is queued is then sent.
Connects ==
  /\ redis
  /\ status = "connecting"
  /\ status' = "ready"
  /\ quit' = IF quit = "queued" THEN "sent" ELSE quit
  /\ UNCHANGED <<redis, outages>>

\* The socket breaks.  A QUIT that was sent is rejected, and close() disconnects.
Breaks ==
  /\ ~redis
  /\ status = "ready"
  /\ status' = IF quit = "sent" THEN "end" ELSE "connecting"
  /\ quit' = IF quit = "sent" THEN "settled" ELSE quit
  /\ UNCHANGED <<redis, outages>>

\* close(): QUIT is sent to a ready client; otherwise it waits behind the commands of
\* the offline queue, and without any (or any queue) the client just disconnects.
Close(behind) ==
  /\ quit' = IF status = "ready" THEN "sent"
             ELSE IF OfflineQueue /\ behind THEN "queued" ELSE "settled"
  /\ status' = IF quit' = "settled" THEN "end" ELSE status
  /\ UNCHANGED <<redis, outages>>

\* QUIT is answered.  Nothing but the reply or a broken socket ends the wait for it.
QuitAnswered ==
  /\ Connected
  /\ quit = "sent"
  /\ status' = "end"
  /\ quit' = "settled"
  /\ UNCHANGED <<redis, outages>>

\* External: an outage.
RedisFails ==
  /\ redis
  /\ outages < MaxOutages
  /\ outages' = outages + 1
  /\ redis' = FALSE
  /\ UNCHANGED <<status, quit>>

RedisReturns ==
  /\ ~redis
  /\ redis' = TRUE
  /\ UNCHANGED <<outages, status, quit>>

\* Every variable holds a value of its type; the client has ended exactly when close()
\* has settled, and until then it is connected or trying to be.
TypeOK ==
  /\ redis \in BOOLEAN
  /\ outages \in Nat
  /\ status \in {"connecting", "ready", "end"}
  /\ quit \in {"none", "queued", "sent", "settled"}
  /\ status = "end" <=> quit = "settled"
  /\ quit = "sent" => status = "ready"
  /\ quit = "queued" => OfflineQueue /\ status = "connecting"

=============================================================================
