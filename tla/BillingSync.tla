---------------------------- MODULE BillingSync ----------------------------
(***************************************************************************)
(* How the billing state of a payer (a user or an organization) reaches    *)
(* the database and the cache: Clerk posts a webhook, the controller puts  *)
(* it on the BILLING_SYNC queue under its svix-id, a worker marks the event*)
(* in processed_webhook_events and then reconciles: it asks Clerk for the  *)
(* subscription, writes the row, writes the cache.  An HTTP read fills the *)
(* cache from the row and reconciles itself when the row was never synced. *)
(*                                                                         *)
(* A subscription is a version number: Clerk's n-th change of a payer is   *)
(* version n.  Clerk, svix and BullMQ are external and appear as the       *)
(* repository uses them: delivery at least once, jobs deduplicated by id   *)
(* until they are retired, retries up to MaxAttempts, a stalled job handed *)
(* out again while its first worker still runs, up to MaxStalled times.    *)
(*                                                                         *)
(* started and missed are history: no step reads them.                     *)
(*                                                                         *)
(* Bounds: each event is one change at Clerk; faults stop at MaxFaults.    *)
(***************************************************************************)
EXTENDS Naturals, FiniteSets

CONSTANTS Users,         \* payers whose row only a sign-up creates
          Orgs,          \* payers whose row reconciling creates
          Synced,        \* payers reconciled before the behaviour starts
          Events,        \* svix ids
          PayerOf,       \* PayerOf[e]: the payer event e names, or None
          Workers,       \* BullMQ workers, one job at a time each
          Readers,       \* HTTP calls that read a payer's billing state
          MaxAttempts,   \* attempts of a job
          MaxStalled,    \* stalls a job survives: BullMQ's maxStalledCount
          FailAt,        \* the steps whose attempt may die
          ClerkFails,    \* may a request to Clerk fail?
          MaxFaults,     \* bound on failures
          None,          \* no entry, no owner, no event
          NoPlan,        \* the state written for a null subscription
          Never          \* billingSyncedAt is null

Payers == Users \cup Orgs
Actors == Workers \cup Readers

ASSUME PayersAssumption == Synced \subseteq Payers
ASSUME EventsAssumption == PayerOf \in [Events -> Payers \cup {None}]
ASSUME ActorsAssumption == Workers \cap Readers = {}
ASSUME NumbersAssumption ==
  MaxAttempts \in Nat \ {0} /\ MaxStalled \in Nat /\ MaxFaults \in Nat
ASSUME StepsAssumption ==
  FailAt \subseteq {"mark", "readRow", "fetch", "store", "cache", "fill"}
ASSUME NullAssumption ==
  /\ None \notin Nat \cup Payers \cup Events \cup Workers
  /\ NoPlan \notin Nat /\ Never \notin Nat \cup {NoPlan}

VARIABLES
  clerk,               \* clerk[p]: the version Clerk has now
  sent, acked,         \* events Clerk has emitted; those it knows to have arrived
  job,                 \* job[e]: state of the BullMQ job with id e
  owner,               \* owner[e]: the worker holding the lock of the active job
  attempts, stalls,    \* of the job of e: attempts that ended, times it stalled
  marked,              \* processed_webhook_events
  started,             \* started[e]: reconciles begun for the event
  missed,              \* payers whose last reconcile ended without their version in the row
  row,                 \* row[p] of every payer that has a row
  cache,               \* cache[p]: the cached state, or None
  pc, ev, payer, got,  \* an actor's next step, its event, its payer, its subscription
  faults               \* failures so far

queueVars == <<sent, acked, job, owner, attempts, stalls>>
actorVars == <<pc, ev, payer, got>>
vars == <<clerk, queueVars, marked, started, missed, row, cache, actorVars, faults>>

-----------------------------------------------------------------------------
TypeOK ==
  /\ clerk \in [Payers -> Nat]
  /\ acked \subseteq sent /\ sent \subseteq Events
  /\ job \in [Events -> {"none", "waiting", "active", "completed", "failed"}]
  /\ owner \in [Events -> Workers \cup {None}]
  /\ attempts \in [Events -> 0..MaxAttempts]
  /\ stalls \in [Events -> 0..(MaxStalled + 1)]
  /\ marked \subseteq Events
  /\ started \in [Events -> Nat]
  /\ missed \subseteq Payers
  /\ DOMAIN row \subseteq Payers
  /\ row \in [DOMAIN row -> Nat \cup {NoPlan, Never}]
  /\ cache \in [Payers -> Nat \cup {NoPlan, None}]
  /\ pc \in [Actors -> {"idle", "mark", "readRow", "fetch", "store", "cache", "fill",
                        "done", "failed"}]
  /\ ev \in [Actors -> Events \cup {None}]
  /\ payer \in [Actors -> Payers \cup {None}]
  /\ got \in [Actors -> Nat \cup {NoPlan, None}]
  /\ faults \in 0..MaxFaults

Init ==
  /\ clerk = [p \in Payers |-> 0]
  /\ sent = {} /\ acked = {}
  /\ job = [e \in Events |-> "none"]
  /\ owner = [e \in Events |-> None]
  /\ attempts = [e \in Events |-> 0]
  /\ stalls = [e \in Events |-> 0]
  /\ marked = {}
  /\ started = [e \in Events |-> 0]
  /\ missed = {}
  /\ row = [p \in Synced |-> 0]
  /\ cache = [p \in Payers |-> None]
  /\ pc = [a \in Actors |-> "idle"]
  /\ ev = [a \in Actors |-> None]
  /\ payer = [a \in Actors |-> None]
  /\ got = [a \in Actors |-> None]
  /\ faults = 0

Fault == faults < MaxFaults /\ faults' = faults + 1

Goto(a, label) == pc' = [pc EXCEPT ![a] = label]

-----------------------------------------------------------------------------
(* Clerk and svix.                                                         *)

\* A subscription changes and Clerk emits an event for it.
Change(e) ==
  /\ e \notin sent
  /\ sent' = sent \cup {e}
  /\ clerk' = [p \in Payers |-> IF p = PayerOf[e] THEN clerk[p] + 1 ELSE clerk[p]]
  /\ UNCHANGED <<acked, job, owner, attempts, stalls, marked, started, missed, row, cache,
                 actorVars, faults>>

\* Fault: the 200 does not wait for queue.add, which may fail.
DeliverUnawaited(e) ==
  /\ e \in sent \ acked
  /\ \/ job[e] = "none" /\ job' = [job EXCEPT ![e] = "waiting"]
     \/ UNCHANGED job
  /\ acked' = acked \cup {e}
  /\ UNCHANGED <<clerk, sent, owner, attempts, stalls, marked, started, missed, row, cache,
                 actorVars, faults>>

\* The webhook controller: queue.add ignores a job id it still knows.  The 200
\* may get lost, svix then posts the event again.
Deliver(e) ==
  /\ e \in sent \ acked
  /\ IF job[e] = "none"
     THEN /\ job' = [job EXCEPT ![e] = "waiting"]
          /\ attempts' = [attempts EXCEPT ![e] = 0]
          /\ stalls' = [stalls EXCEPT ![e] = 0]
     ELSE UNCHANGED <<job, attempts, stalls>>
  /\ acked' = acked \cup {e} \/ UNCHANGED acked
  /\ UNCHANGED <<clerk, sent, owner, marked, started, missed, row, cache, actorVars, faults>>

-----------------------------------------------------------------------------
(* BullMQ.                                                                 *)

\* removeOnComplete, removeOnFail.
Retire(e) ==
  /\ job[e] \in {"completed", "failed"}
  /\ job' = [job EXCEPT ![e] = "none"]
  /\ UNCHANGED <<clerk, sent, acked, owner, attempts, stalls, marked, started, missed, row,
                 cache, actorVars, faults>>

Take(w, e) ==
  /\ pc[w] = "idle"
  /\ job[e] = "waiting"
  /\ job' = [job EXCEPT ![e] = "active"]
  /\ owner' = [owner EXCEPT ![e] = w]
  /\ ev' = [ev EXCEPT ![w] = e]
  /\ Goto(w, "mark")
  /\ UNCHANGED <<clerk, sent, acked, attempts, stalls, marked, started, missed, row, cache,
                 payer, got, faults>>

\* The lock of a running job expires: the job goes back, or fails when it has stalled
\* too often, and its worker goes on.  (A process that crashes is a Stall of its job
\* and a Die of its worker.)
Stall(e) ==
  /\ job[e] = "active"
  /\ Fault
  /\ job' = [job EXCEPT ![e] = IF stalls[e] < MaxStalled THEN "waiting" ELSE "failed"]
  /\ stalls' = [stalls EXCEPT ![e] = @ + 1]
  /\ owner' = [owner EXCEPT ![e] = None]
  /\ UNCHANGED <<clerk, sent, acked, attempts, marked, started, missed, row, cache, actorVars>>

\* Worker w is through with its job; BullMQ takes the outcome from the owner only.
Finish(w, state) ==
  /\ pc' = [pc EXCEPT ![w] = "idle"]
  /\ ev' = [ev EXCEPT ![w] = None]
  /\ payer' = [payer EXCEPT ![w] = None]
  /\ got' = [got EXCEPT ![w] = None]
  /\ IF owner[ev[w]] = w
     THEN /\ job' = [job EXCEPT ![ev[w]] = state]
          /\ owner' = [owner EXCEPT ![ev[w]] = None]
          /\ attempts' = [attempts EXCEPT ![ev[w]] = @ + 1]
     ELSE UNCHANGED <<job, owner, attempts>>
  /\ UNCHANGED <<sent, acked, stalls>>

\* Fault: one attempt too many.
ThrowOffByOne(w) ==
  Finish(w, IF attempts[ev[w]] + 1 <= MaxAttempts THEN "waiting" ELSE "failed")

\* process() throws: the job is tried again while it has attempts left.
Throw(w) ==
  Finish(w, IF attempts[ev[w]] + 1 < MaxAttempts THEN "waiting" ELSE "failed")

-----------------------------------------------------------------------------
(* BillingWebhookProcessor.process.                                        *)

\* Fault: the unique violation is caught and ignored.
MarkIgnoringDuplicates(w) ==
  /\ pc[w] = "mark"
  /\ IF PayerOf[ev[w]] = None
     THEN Finish(w, "completed")
     ELSE /\ Goto(w, "fetch")
          /\ payer' = [payer EXCEPT ![w] = PayerOf[ev[w]]]
          /\ UNCHANGED <<queueVars, ev, got>>
  /\ marked' = marked \cup {ev[w]}
  /\ UNCHANGED <<clerk, started, missed, row, cache, faults>>

\* A P2002 or an event without payer ends the job; the marker stays either way.
Mark(w) ==
  /\ pc[w] = "mark"
  /\ IF ev[w] \in marked \/ PayerOf[ev[w]] = None
     THEN Finish(w, "completed")
     ELSE /\ Goto(w, "fetch")
          /\ payer' = [payer EXCEPT ![w] = PayerOf[ev[w]]]
          /\ UNCHANGED <<queueVars, ev, got>>
  /\ marked' = marked \cup {ev[w]}
  /\ UNCHANGED <<clerk, started, missed, row, cache, faults>>

-----------------------------------------------------------------------------
(* BillingService: reconcileUserBilling and reconcileOrgBilling, run by a  *)
(* worker or by a reader.                                                  *)

\* Fault: the cache is written before the row.
FetchIntoCache(a) ==
  /\ pc[a] = "fetch"
  /\ got' = [got EXCEPT ![a] = clerk[payer[a]]]
  /\ cache' = [cache EXCEPT ![payer[a]] = clerk[payer[a]]]
  /\ started' = [e \in Events |-> IF e = ev[a] THEN started[e] + 1 ELSE started[e]]
  /\ Goto(a, "store")
  /\ UNCHANGED <<clerk, queueVars, marked, missed, row, ev, payer, faults>>

\* ClerkService turns a failed request into null.
Fetch(a) ==
  /\ pc[a] = "fetch"
  /\ \/ got' = [got EXCEPT ![a] = clerk[payer[a]]] /\ UNCHANGED faults
     \/ ClerkFails /\ Fault /\ got' = [got EXCEPT ![a] = NoPlan]
  /\ started' = [e \in Events |-> IF e = ev[a] THEN started[e] + 1 ELSE started[e]]
  /\ Goto(a, "store")
  /\ UNCHANGED <<clerk, queueVars, marked, missed, row, cache, ev, payer>>

\* The reconcile of actor a ends without the payer's version in its row: a worker's
\* event is used up then, a reader's caller asks again.
Miss(a) ==
  missed' = IF a \in Workers /\ pc[a] \in {"fetch", "store"}
            THEN missed \cup {payer[a]}
            ELSE missed

\* The row of the payer holds what the reconcile was told: a version, or no plan.
Told(a) ==
  missed' = IF got[a] = NoPlan THEN missed \cup {payer[a]} ELSE missed \ {payer[a]}

\* Fault: a row that was synced once is not written again.
StoreOnce(a) ==
  /\ pc[a] = "store"
  /\ row' = [p \in DOMAIN row \cup {payer[a]} |->
               IF p # payer[a] \/ (p \in DOMAIN row /\ row[p] # Never) THEN row[p] ELSE got[a]]
  /\ Told(a)
  /\ Goto(a, "cache")
  /\ UNCHANGED <<clerk, queueVars, marked, started, cache, ev, payer, got, faults>>

\* user.update throws when there is no row; organization.upsert makes one.
Store(a) ==
  /\ pc[a] = "store"
  /\ IF payer[a] \in DOMAIN row \cup Orgs
     THEN /\ row' = [p \in DOMAIN row \cup {payer[a]} |->
                       IF p = payer[a] THEN got[a] ELSE row[p]]
          /\ Told(a)
          /\ Goto(a, "cache")
          /\ UNCHANGED <<queueVars, ev, payer, got>>
     ELSE /\ IF a \in Workers
             THEN Throw(a)
             ELSE Goto(a, "failed") /\ UNCHANGED <<queueVars, ev, payer, got>>
          /\ Miss(a)
          /\ UNCHANGED row
  /\ UNCHANGED <<clerk, marked, started, cache, faults>>

\* cache.set, which swallows its errors.
WriteCache(a) ==
  cache' = [cache EXCEPT ![payer[a]] = got[a]] \/ UNCHANGED cache

CacheState(a) ==
  /\ pc[a] = "cache"
  /\ WriteCache(a)
  /\ IF a \in Workers
     THEN Finish(a, "completed")
     ELSE Goto(a, "fill") /\ UNCHANGED <<queueVars, ev, payer, got>>
  /\ UNCHANGED <<clerk, marked, started, missed, row, faults>>

\* An attempt dies before the step it is at: the database fails or the process does.
Die(a) ==
  /\ pc[a] \in FailAt
  /\ Fault
  /\ IF a \in Workers
     THEN Throw(a)
     ELSE Goto(a, "failed") /\ UNCHANGED <<queueVars, ev, payer, got>>
  /\ Miss(a)
  /\ UNCHANGED <<clerk, marked, started, row, cache>>

-----------------------------------------------------------------------------
(* getUserBilling and getOrgBilling: cache.getOrSet around the row.        *)

ReadCache(h, p) ==
  /\ pc[h] = "idle"
  /\ \/ cache[p] # None /\ Goto(h, "done") /\ UNCHANGED payer
     \/ Goto(h, "readRow") /\ payer' = [payer EXCEPT ![h] = p]
  /\ UNCHANGED <<clerk, queueVars, marked, started, missed, row, cache, ev, got, faults>>

ReadRow(h) ==
  /\ pc[h] = "readRow"
  /\ IF payer[h] \in DOMAIN row /\ row[payer[h]] # Never
     THEN got' = [got EXCEPT ![h] = row[payer[h]]] /\ Goto(h, "fill")
     ELSE Goto(h, "fetch") /\ UNCHANGED got
  /\ UNCHANGED <<clerk, queueVars, marked, started, missed, row, cache, ev, payer, faults>>

Fill(h) ==
  /\ pc[h] = "fill"
  /\ WriteCache(h)
  /\ Goto(h, "done")
  /\ UNCHANGED <<clerk, queueVars, marked, started, missed, row, ev, payer, got, faults>>

-----------------------------------------------------------------------------
(* The surroundings.                                                       *)

\* UsersService.syncFromClerk or ProductsService.create make the payer's row.
CreateRow(p) ==
  /\ p \notin DOMAIN row
  /\ row' = [q \in DOMAIN row \cup {p} |-> IF q = p THEN Never ELSE row[q]]
  /\ UNCHANGED <<clerk, queueVars, marked, started, missed, cache, actorVars, faults>>

\* BILLING_CACHE_TTL_SECONDS are over.
Expire(p) ==
  /\ cache[p] # None
  /\ cache' = [cache EXCEPT ![p] = None]
  /\ UNCHANGED <<clerk, queueVars, marked, started, missed, row, actorVars, faults>>

Process(a) ==
  \/ a \in Workers /\ Mark(a)
  \/ a \in Readers /\ (ReadRow(a) \/ Fill(a))
  \/ Fetch(a) \/ Store(a) \/ CacheState(a)

Next ==
  \/ \E e \in Events : Change(e) \/ Deliver(e) \/ Retire(e) \/ Stall(e)
  \/ \E w \in Workers, e \in Events : Take(w, e)
  \/ \E a \in Actors : Process(a) \/ Die(a)
  \/ \E p \in Payers : (\E h \in Readers : ReadCache(h, p)) \/ CreateRow(p) \/ Expire(p)

Spec == Init /\ [][Next]_vars

\* svix posts until it is answered, BullMQ hands out waiting jobs in order, a
\* running handler goes on, a cache entry runs out.
FairSpec ==
  /\ Spec
  /\ \A e \in Events : WF_vars(Deliver(e))
  /\ \A w \in Workers, e \in Events : SF_vars(Take(w, e))
  /\ \A a \in Actors : WF_vars(Process(a))
  /\ \A p \in Payers : WF_vars(Expire(p))

-----------------------------------------------------------------------------
(* Invariants.                                                             *)

\* One event starts at most one reconcile, however often svix delivers it, BullMQ
\* retires, retries or doubles its job (processed_webhook_events is written first).
AtMostOneReconcile ==
  \A e \in Events : started[e] <= 1

Reconciling(w) == pc[w] \in {"fetch", "store", "cache"}

\* Only the worker that wrote the marker of an event is past it, also when a
\* stalled job runs twice at once, and what it has yet to start nobody started.
MarkerHasOneHolder ==
  /\ \A e \in Events : started[e] > 0 => e \in marked
  /\ \A w \in Workers : Reconciling(w) => ev[w] \in marked
  /\ \A w \in Workers : pc[w] = "fetch" => started[ev[w]] = 0
  /\ \A w, v \in Workers : Reconciling(w) /\ Reconciling(v) /\ ev[w] = ev[v] => w = v

NotAfter(v, x) == v \in Nat /\ x \in Nat => v <= x

\* One worker and no reader that reconciles: the cache never shows a version the row
\* has not reached, whatever dies in between (reconcile writes the row first).
CacheNotAheadOfRow ==
  \A p \in DOMAIN row : NotAfter(cache[p], row[p])

\* Somebody is still to act on an event: svix to post it, the queue to hand out its
\* job, or a worker that is about to write its marker.
Ahead(e) ==
  /\ e \in sent \ marked
  /\ \/ e \notin acked
     \/ job[e] = "waiting"
     \/ job[e] = "active" /\ \E w \in Workers : owner[e] = w /\ ev[w] = e /\ pc[w] = "mark"

\* The queue gave an event up before its marker was written.
Exhausted(e) ==
  /\ e \in acked \ marked
  /\ job[e] \notin {"waiting", "active"}
  /\ attempts[e] = MaxAttempts \/ stalls[e] > MaxStalled

\* One worker, and no reader that reconciles: a change at Clerk is lost in two ways only.
\* A row that does not show what Clerk has is one for which an event is still ahead or a
\* worker on its way, or the queue ran out of attempts before the marker of an event, or
\* the last reconcile of the payer failed behind the marker or was told nothing by Clerk.
\* Posts that repeat, retired jobs, retries and markers that are there already lose none.
ChangesReachRow ==
  \A p \in DOMAIN row : row[p] # Never =>
    \/ row[p] = clerk[p]
    \/ \E e \in Events : PayerOf[e] = p /\ (Ahead(e) \/ Exhausted(e))
    \/ \E w \in Workers : payer[w] = p /\ pc[w] \in {"fetch", "store"}
    \/ p \in missed

-----------------------------------------------------------------------------
(* Liveness.                                                               *)

Current(p) ==
  /\ p \in DOMAIN row /\ row[p] # Never => row[p] = clerk[p]
  /\ cache[p] # None => cache[p] = clerk[p]

\* One worker, and no reader that reconciles: row and cache of a payer come to show what
\* Clerk has, unless the queue gave up an event of his before its marker or his last
\* reconcile was lost behind it.  Attempts that die before the marker, repeated posts,
\* lost cache writes and stale fills keep no payer behind for ever.
Convergence ==
  \A p \in Payers :
    <>[](\/ Current(p)
         \/ p \in missed
         \/ \E e \in Events : PayerOf[e] = p /\ Exhausted(e))

-----------------------------------------------------------------------------
(* What the repository says of the sync and the code does not keep.        *)

\* queue-defaults.ts: the billing queue is "redelivery-tolerant by design" and has "the
\* same transient-failure-tolerant profile as USER_SYNC".  With fewer failures than
\* attempts, row and cache come to show what Clerk has.
TransientFailureTolerant == <>[](\A p \in Payers : Current(p))

\* queue-defaults.ts: "transient-failure-tolerant".  A request to Clerk that fails
\* does not end up as a row that says there is no subscription.
FailureIsNotNoPlan == \A p \in DOMAIN row : row[p] # NoPlan

=============================================================================
