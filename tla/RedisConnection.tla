-------------------------- MODULE RedisConnection --------------------------
(***************************************************************************)
(* The two ioredis connections of the server, that of RedisService for the *)
(* cache and that of QueueModule for BullMQ, and the commands of requests  *)
(* that wait for one of them.  They are configured oppositely: a command   *)
(* of the cache fails fast and its request goes on without the cache; a    *)
(* command of the queue waits an outage out.                               *)
(*                                                                         *)
(* Redis, or the way to it, goes down and comes up at any time; a broken   *)
(* connection is noticed.  ioredis sends the commands it has no reply to   *)
(* again when it has reconnected (autoResendUnfulfilledCommands).          *)
(***************************************************************************)
EXTENDS Naturals

CONSTANTS CacheCommands, QueueCommands,  \* commands that may be under way at once
          CacheEnabled,  \* REDIS_ENABLED
          QueueEnabled,  \* QUEUE_ENABLED
          CacheRetries,  \* REDIS_MAX_RETRIES_PER_REQUEST
          None

\* What an ioredis client reports of itself.
Status == {"connecting", "ready", "reconnecting", "end"}

ASSUME OptionsAssumption ==
  /\ CacheEnabled \in BOOLEAN /\ QueueEnabled \in BOOLEAN
  /\ CacheRetries \in Nat /\ None \notin Nat \cup Status
ASSUME CommandsAssumption == CacheCommands \cap QueueCommands = {}

Connections == {"cache", "queue"}
Commands == CacheCommands \cup QueueCommands

\* The connection a command is for.
On(c) == IF c \in CacheCommands THEN "cache" ELSE "queue"

\* ioredis queues commands unless it is told not to.
OfflineQueue(k) == k = "queue"

\* Fault: one more than configured, as ioredis counts from nought.
MaxRetriesOneMore(k) == IF k = "cache" THEN CacheRetries + 1 ELSE None

\* maxRetriesPerRequest; None: null.
MaxRetries(k) == IF k = "cache" THEN CacheRetries ELSE None

VARIABLES
  up,        \* can Redis be reached?
  client,    \* client[k]: its status; None: there is no client yet
  attempts,  \* attempts[k]: retryAttempts, modulo maxRetriesPerRequest + 1
  command    \* command[c]: "none", "sent" or "offline" (queued), or its outcome

vars == <<up, client, attempts, command>>

IsReady(k) == client[k] = "ready"

Waiting == {"sent", "offline"}

TypeOK ==
  /\ up \in BOOLEAN
  /\ client \in [Connections -> Status \cup {None}]
  /\ attempts \in [Connections -> 0..CacheRetries]
  /\ command \in [Commands -> Waiting \cup {"none", "replied", "failed", "skipped"}]

Init ==
  /\ up \in BOOLEAN
  /\ client = [k \in Connections |-> None]
  /\ attempts = [k \in Connections |-> 0]
  /\ command = [c \in Commands |-> "none"]

-----------------------------------------------------------------------------
(* Redis.                                                                  *)

GoDown == up /\ up' = FALSE /\ UNCHANGED <<client, attempts, command>>
ComeUp == ~up /\ up' = TRUE /\ UNCHANGED <<client, attempts, command>>

-----------------------------------------------------------------------------
(* A connection.                                                           *)

\* onModuleInit of the cache, if enabled: lazyConnect, then connect() that nobody
\* awaits.  BullModule connects in any case.
OnModuleInit(k) ==
  /\ k = "cache" => CacheEnabled
  /\ client[k] = None
  /\ client' = [client EXCEPT ![k] = "connecting"]
  /\ UNCHANGED <<up, attempts, command>>

Changed(k, outcome) ==
  [c \in Commands |-> IF On(c) = k /\ command[c] \in Waiting THEN outcome ELSE command[c]]

\* Ready: what waits is sent, again or for the first time.
Connect(k) ==
  /\ client[k] = "connecting" /\ up
  /\ client' = [client EXCEPT ![k] = "ready"]
  /\ attempts' = [attempts EXCEPT ![k] = 0]
  /\ command' = Changed(k, "sent")
  /\ UNCHANGED up

\* Fault: maxRetriesPerRequest is null, as the queue has it.
FlushesNever(k, n) == FALSE

\* Every maxRetriesPerRequest + 1 lost or refused connections the waiting commands fail.
Flushes(k, n) == MaxRetries(k) # None /\ n = 0

\* Fault: retryStrategy gives up (the client stays closed).
AfterCloseEnd == "close"

\* retryStrategy returns a delay, whatever the attempt.
AfterClose == "reconnecting"

\* The connection is lost, or an attempt to connect fails.
Close(k) ==
  /\ client[k] \in {"connecting", "ready"} /\ ~up
  /\ client' = [client EXCEPT ![k] = AfterClose]
  /\ attempts' = [attempts EXCEPT ![k] =
                    IF MaxRetries(k) = None THEN 0 ELSE (@ + 1) % (MaxRetries(k) + 1)]
  /\ command' = IF Flushes(k, attempts'[k]) THEN Changed(k, "failed") ELSE command
  /\ UNCHANGED up

Retry(k) ==
  /\ client[k] = "reconnecting"
  /\ client' = [client EXCEPT ![k] = "connecting"]
  /\ UNCHANGED <<up, attempts, command>>

\* The shutdown disconnects either client.
OnModuleDestroy(k) ==
  /\ client[k] \notin {None, "end"}
  /\ client' = [client EXCEPT ![k] = "end"]
  /\ command' = Changed(k, "failed")
  /\ UNCHANGED <<up, attempts>>

-----------------------------------------------------------------------------
(* Commands.                                                               *)

\* CacheService.isUsable; a queue has no such test.
IsUsable(k) == k = "cache" => CacheEnabled /\ IsReady(k)

\* Fault: the queue's client has enableOfflineQueue: false.
OutcomeUnqueued(k) == IF IsReady(k) THEN "sent" ELSE "failed"

\* A command is written, queued until there is a connection, or rejected.
Outcome(k) ==
  IF IsReady(k) THEN "sent"
  ELSE IF OfflineQueue(k) /\ client[k] # "end" THEN "offline"
  ELSE "failed"

\* The last command of c is over and forgotten; its next one begins.
Issue(c) ==
  /\ command[c] \notin Waiting
  /\ c \in CacheCommands \/ client["queue"] # None
  /\ command' = [command EXCEPT ![c] =
                   IF IsUsable(On(c)) THEN Outcome(On(c)) ELSE "skipped"]
  /\ UNCHANGED <<up, client, attempts>>

Reply(c) ==
  /\ command[c] = "sent" /\ IsReady(On(c)) /\ up
  /\ command' = [command EXCEPT ![c] = "replied"]
  /\ UNCHANGED <<up, client, attempts>>

Next ==
  \/ GoDown \/ ComeUp
  \/ \E k \in Connections :
       OnModuleInit(k) \/ Connect(k) \/ Close(k) \/ Retry(k) \/ OnModuleDestroy(k)
  \/ \E c \in Commands : Issue(c) \/ Reply(c)

\* Start-up runs onModuleInit; the clients' timers and their sockets' events come.
Fairness ==
  /\ \A k \in Connections :
       /\ WF_vars(OnModuleInit(k)) /\ WF_vars(Connect(k))
       /\ WF_vars(Close(k)) /\ WF_vars(Retry(k))
  /\ \A c \in Commands : WF_vars(Reply(c))

Spec == Init /\ [][Next]_vars /\ Fairness

-----------------------------------------------------------------------------
(* Properties.                                                             *)

Settles(c) == command[c] \in Waiting ~> command[c] \notin Waiting

\* redis-config.service.ts: maxRetriesPerRequest "keeps a cache-miss-due-to-outage
\* fast [...] instead of hanging".  If Redis is not up and down for ever, no command
\* of the cache is waited for for ever, not even one whose reply was lost in an outage
\* that never ends.
CommandsSettle == <>[]up \/ <>[]~up => \A c \in CacheCommands : Settles(c)

\* An outage of any length is survived: once Redis stays up, the cache is used again,
\* unless the application shuts down.
UsableAgain ==
  <>[]up /\ CacheEnabled => <>(client["cache"] = "end") \/ <>[]IsUsable("cache")

\* redis.service.ts: "a queue needs to buffer/wait through an outage".  No command of
\* the queue fails as long as its client is not shut down.
QueueWaits ==
  client["queue"] # "end" => \A c \in QueueCommands : command[c] \notin {"failed", "skipped"}

\* And what has waited is sent and answered once Redis stays up.
QueueAnswers == <>[]up => \A c \in QueueCommands : Settles(c)

-----------------------------------------------------------------------------
(* What the repository says of the queue and the code does not keep.       *)

\* queue-config.service.ts: "Queues disabled via QUEUE_ENABLED=false".  Nobody then
\* waits for the queue.
DisabledIsIdle == ~QueueEnabled => \A c \in QueueCommands : command[c] \notin Waiting

=============================================================================
