----------------------- MODULE RedisConnection_proofs -----------------------
(***************************************************************************)
(* RedisConnection for any number of commands and any allowance of         *)
(* retries: no command of the queue is lost in an outage.                  *)
(***************************************************************************)
EXTENDS RedisConnection, TLAPS

Inv == TypeOK /\ QueueWaits

LEMMA InitInv == Init => Inv
<1>. SUFFICES ASSUME Init PROVE Inv
  OBVIOUS
<1>1. TypeOK
  BY OptionsAssumption DEF Init, TypeOK
<1>2. QueueWaits
  BY DEF Init, QueueWaits, Commands
<1>. QED BY <1>1, <1>2 DEF Inv

\* The commands of one connection, and they alone, change to outcome.
LEMMA ChangedEffect ==
  ASSUME TypeOK, NEW k \in Connections, NEW outcome \in {"sent", "failed"}
  PROVE  /\ Changed(k, outcome) \in
              [Commands -> Waiting \cup {"none", "replied", "failed", "skipped"}]
         /\ \A c \in Commands : On(c) # k => Changed(k, outcome)[c] = command[c]
         /\ outcome = "sent" => \A c \in Commands : Changed(k, outcome)[c] \in {"sent", command[c]}
  BY DEF TypeOK, Changed, Waiting

LEMMA QueueCommandsOn == \A c \in QueueCommands : c \in Commands /\ On(c) = "queue"
  BY CommandsAssumption DEF On, Commands

LEMMA NextAttempt ==
  ASSUME TypeOK, NEW k \in Connections
  PROVE  (IF MaxRetries(k) = None THEN 0 ELSE (attempts[k] + 1) % (MaxRetries(k) + 1))
            \in 0..CacheRetries
<1>1. CacheRetries \in Nat /\ attempts[k] \in Nat /\ CacheRetries + 1 > 0
  BY OptionsAssumption DEF TypeOK
<1>2. (attempts[k] + 1) % (CacheRetries + 1) \in 0..CacheRetries
  BY <1>1
<1>. QED BY <1>1, <1>2 DEF MaxRetries

LEMMA NextInv == Inv /\ [Next]_vars => Inv'
<1>. SUFFICES ASSUME Inv, [Next]_vars
              PROVE  Inv'
  OBVIOUS
<1>0. TypeOK /\ QueueWaits
  BY DEF Inv
<1>1. CASE GoDown \/ ComeUp \/ UNCHANGED vars
  BY <1>1 DEF GoDown, ComeUp, vars, Inv, TypeOK, QueueWaits
<1>2. ASSUME NEW k \in Connections, OnModuleInit(k) \/ Retry(k)
      PROVE  Inv'
  <2>1. client' = [client EXCEPT ![k] = "connecting"]
    BY <1>2 DEF OnModuleInit, Retry
  <2>2. UNCHANGED <<up, attempts, command>> /\ client[k] # "end"
    BY <1>2, OptionsAssumption DEF OnModuleInit, Retry, Status
  <2>3. TypeOK'
    BY <1>0, <2>1, <2>2 DEF TypeOK, Status
  <2>4. QueueWaits'
    BY <1>0, <2>1, <2>2 DEF TypeOK, QueueWaits, Connections
  <2>. QED BY <2>3, <2>4 DEF Inv
<1>3. ASSUME NEW k \in Connections, Connect(k)
      PROVE  Inv'
  <2>1. TypeOK'
    BY <1>0, <1>3, ChangedEffect, OptionsAssumption
       DEF Connect, TypeOK, Status
  <2>2. \A c \in QueueCommands : command'[c] \in {"sent", command[c]}
    BY <1>0, <1>3, ChangedEffect, QueueCommandsOn DEF Connect
  <2>3. QueueWaits'
    BY <1>0, <1>3, <2>2 DEF QueueWaits, Connect, TypeOK, Connections
  <2>. QED BY <2>1, <2>3 DEF Inv
<1>4. ASSUME NEW k \in Connections, Close(k)
      PROVE  Inv'
  <2>1. client' \in [Connections -> Status \cup {None}]
        /\ client'[k] = "reconnecting" /\ \A j \in Connections \ {k} : client'[j] = client[j]
    BY <1>0, <1>4 DEF Close, TypeOK, AfterClose, Status
  <2>2. attempts' \in [Connections -> 0..CacheRetries]
        /\ \A j \in Connections \ {k} : attempts'[j] = attempts[j]
    BY <1>0, <1>4, NextAttempt DEF Close, TypeOK
  <2>3. command' \in [Commands -> Waiting \cup {"none", "replied", "failed", "skipped"}]
    BY <1>0, <1>4, ChangedEffect DEF Close, TypeOK
  <2>4. \A c \in QueueCommands : command'[c] = command[c]
    <3>1. CASE k = "queue"
      BY <1>4, <3>1 DEF Close, Flushes, MaxRetries
    <3>2. CASE k # "queue"
      BY <1>0, <1>4, <3>2, ChangedEffect, QueueCommandsOn DEF Close
    <3>. QED BY <3>1, <3>2
  <2>5. QueueWaits'
    BY <1>0, <1>4, <2>1, <2>4 DEF QueueWaits, Close, Connections
  <2>6. TypeOK'
    BY <1>0, <1>4, <2>1, <2>2, <2>3 DEF TypeOK, Close
  <2>. QED BY <2>5, <2>6 DEF Inv
<1>5. ASSUME NEW k \in Connections, OnModuleDestroy(k)
      PROVE  Inv'
  <2>1. TypeOK'
    BY <1>0, <1>5, ChangedEffect DEF OnModuleDestroy, TypeOK, Status
  <2>2. QueueWaits'
    <3>1. CASE k = "queue"
      BY <1>0, <1>5, <3>1 DEF OnModuleDestroy, QueueWaits, TypeOK
    <3>2. CASE k # "queue"
      <4>1. \A c \in QueueCommands : command'[c] = command[c]
        BY <1>0, <1>5, <3>2, ChangedEffect, QueueCommandsOn DEF OnModuleDestroy
      <4>. QED BY <1>0, <1>5, <3>2, <4>1 DEF OnModuleDestroy, QueueWaits, TypeOK, Connections
    <3>. QED BY <3>1, <3>2
  <2>. QED BY <2>1, <2>2 DEF Inv
<1>6. ASSUME NEW c \in Commands, Issue(c)
      PROVE  Inv'
  <2>1. TypeOK'
    BY <1>0, <1>6 DEF Issue, Outcome, TypeOK, IsReady, Waiting
  <2>2. QueueWaits'
    <3>1. ASSUME c \in QueueCommands, client["queue"] # "end"
          PROVE  command'[c] \in {"sent", "offline"}
      BY <1>0, <1>6, <3>1, QueueCommandsOn DEF Issue, IsUsable, Outcome, OfflineQueue, TypeOK
    <3>. QED BY <1>0, <1>6, <3>1, QueueCommandsOn DEF QueueWaits, Issue, TypeOK
  <2>. QED BY <2>1, <2>2 DEF Inv
<1>7. ASSUME NEW c \in Commands, Reply(c)
      PROVE  Inv'
  BY <1>0, <1>7, QueueCommandsOn DEF Reply, Inv, TypeOK, QueueWaits
<1>. QED BY <1>1, <1>2, <1>3, <1>4, <1>5, <1>6, <1>7 DEF Next

LEMMA SpecInv == Spec => []Inv
  BY InitInv, NextInv, PTL DEF Spec

\* The variables keep their types: the count of attempts stays within the allowance.
THEOREM TypeCorrect == Spec => []TypeOK
<1>1. Inv => TypeOK
  BY DEF Inv
<1>. QED BY SpecInv, <1>1, PTL

\* No command of the queue fails, however long Redis is away and whatever becomes of
\* the cache's connection, as long as the queue's client is not shut down.
THEOREM Waits == Spec => []QueueWaits
<1>1. Inv => QueueWaits
  BY DEF Inv
<1>. QED BY SpecInv, <1>1, PTL

=============================================================================
