------------------------- MODULE BillingSync_proofs -------------------------
(***************************************************************************)
(* For any number of workers, readers, events, retries and failures, an    *)
(* event starts at most one reconcile; while one worker alone reconciles,  *)
(* the cache stays behind the row, and a change at Clerk is lost only if   *)
(* the queue gives its event up or a reconcile fails behind the marker.    *)
(***************************************************************************)
EXTENDS BillingSync, TLAPS

\* The variables the marker argument is about, typed.
MarkerTypes ==
  /\ marked \subseteq Events
  /\ started \in [Events -> Nat]
  /\ DOMAIN pc = Actors
  /\ ev \in [Actors -> Events \cup {None}]
  /\ \A w \in Workers : pc[w] \in {"mark", "fetch", "store", "cache"} => ev[w] \in Events
  /\ \A h \in Readers : ev[h] = None

MarkerInv == MarkerTypes /\ MarkerHasOneHolder /\ AtMostOneReconcile

LEMMA InitMarker == Init => MarkerInv
<1>. SUFFICES ASSUME Init
              PROVE  MarkerInv
  OBVIOUS
<1>1. MarkerTypes
  BY DEF Init, MarkerTypes, Actors
<1>2. MarkerHasOneHolder /\ AtMostOneReconcile
  BY DEF Init, MarkerHasOneHolder, AtMostOneReconcile, Reconciling, Actors
<1>. QED BY <1>1, <1>2 DEF MarkerInv

\* A step that leaves the markers and the counters alone, and in which one actor
\* at most stops or moves on without becoming a reconciler, keeps the invariant.
LEMMA QuietStep ==
  ASSUME MarkerInv, NEW a \in Actors,
         marked \subseteq marked', marked' \subseteq Events, UNCHANGED started,
         DOMAIN pc' = Actors, ev' \in [Actors -> Events \cup {None}],
         \A b \in Actors \ {a} : pc'[b] = pc[b] /\ ev'[b] = ev[b],
         a \in Workers => \/ pc'[a] \notin {"mark", "fetch", "store", "cache"}
                          \/ pc'[a] = "mark" /\ ev'[a] \in Events
                          \/ /\ pc'[a] = "cache" /\ pc[a] = "store" /\ ev'[a] = ev[a],
         a \in Readers => ev'[a] = ev[a]
  PROVE  MarkerInv'
<1>. USE DEF MarkerInv
<1>1. MarkerTypes'
  BY DEF MarkerTypes, Actors
<1>2. ASSUME NEW w \in Workers, Reconciling(w)'
      PROVE  /\ Reconciling(w) /\ ev'[w] = ev[w] /\ ev[w] \in Events
             /\ pc'[w] = "fetch" => pc[w] = "fetch"
  BY <1>2 DEF Reconciling, MarkerTypes, Actors
<1>3. MarkerHasOneHolder'
  BY <1>2 DEF MarkerHasOneHolder, Reconciling
<1>4. AtMostOneReconcile'
  BY DEF AtMostOneReconcile
<1>. QED BY <1>1, <1>3, <1>4

LEMMA NextMarker == MarkerInv /\ [Next]_vars => MarkerInv'
<1>. SUFFICES ASSUME MarkerInv, [Next]_vars
              PROVE  MarkerInv'
  OBVIOUS
<1>1. MarkerTypes /\ MarkerHasOneHolder /\ AtMostOneReconcile
  BY DEF MarkerInv
<1>2. ASSUME UNCHANGED <<marked, started, pc, ev>>
      PROVE  MarkerInv'
  BY <1>2 DEF MarkerInv, MarkerTypes, MarkerHasOneHolder, AtMostOneReconcile, Reconciling
<1>3. ASSUME NEW w \in Workers, NEW e \in Events, Take(w, e)
      PROVE  MarkerInv'
  <2>1. /\ UNCHANGED <<marked, started>>
        /\ pc' = [pc EXCEPT ![w] = "mark"] /\ ev' = [ev EXCEPT ![w] = e]
    BY <1>3 DEF Take, Goto
  <2>. QED BY <1>1, <2>1, ActorsAssumption, QuietStep DEF MarkerTypes, Actors
<1>4. ASSUME NEW w \in Workers, NEW state, Finish(w, state), UNCHANGED started,
             marked \subseteq marked', marked' \subseteq Events
      PROVE  MarkerInv'
  <2>1. pc' = [pc EXCEPT ![w] = "idle"] /\ ev' = [ev EXCEPT ![w] = None]
    BY <1>4 DEF Finish
  <2>. QED BY <1>1, <1>4, <2>1, ActorsAssumption, QuietStep DEF MarkerTypes, Actors
<1>5. ASSUME NEW w \in Workers, Mark(w)
      PROVE  MarkerInv'
  <2>1. /\ pc[w] = "mark" /\ ev[w] \in Events /\ UNCHANGED started
        /\ marked' = marked \cup {ev[w]} /\ marked' \subseteq Events
    BY <1>1, <1>5 DEF Mark, MarkerTypes
  <2>2. CASE ev[w] \in marked \/ PayerOf[ev[w]] = None
    BY <1>4, <1>5, <2>1, <2>2 DEF Mark
  <2>3. CASE ~ (ev[w] \in marked \/ PayerOf[ev[w]] = None)
    <3>1. pc' = [pc EXCEPT ![w] = "fetch"] /\ ev' = ev
      BY <1>5, <2>3 DEF Mark, Goto
    <3>2. started[ev[w]] = 0
      BY <1>1, <2>1, <2>3 DEF MarkerHasOneHolder, MarkerTypes
    <3>3. \A v \in Workers \ {w} : Reconciling(v) => ev[v] # ev[w]
      BY <1>1, <2>3 DEF MarkerHasOneHolder
    <3>4. MarkerTypes'
      BY <1>1, <2>1, <3>1 DEF MarkerTypes, Actors
    <3>5. \A v \in Workers : Reconciling(v)' => v = w \/ Reconciling(v)
      BY <1>1, <3>1 DEF Reconciling, MarkerTypes, Actors
    <3>6. \A v \in Workers : pc'[v] = "fetch" => v = w \/ pc[v] = "fetch"
      BY <1>1, <3>1 DEF MarkerTypes, Actors
    <3>7. MarkerHasOneHolder'
      BY <1>1, <2>1, <3>1, <3>2, <3>3, <3>5, <3>6 DEF MarkerHasOneHolder
    <3>. QED BY <1>1, <2>1, <3>4, <3>7 DEF MarkerInv, AtMostOneReconcile
  <2>. QED BY <2>2, <2>3
<1>6. ASSUME NEW a \in Actors, Fetch(a)
      PROVE  MarkerInv'
  <2>1. /\ pc[a] = "fetch" /\ pc' = [pc EXCEPT ![a] = "store"]
        /\ UNCHANGED <<marked, ev>>
        /\ started' = [e \in Events |-> IF e = ev[a] THEN started[e] + 1 ELSE started[e]]
    BY <1>6 DEF Fetch, Goto
  <2>2. MarkerTypes'
    BY <1>1, <2>1 DEF MarkerTypes, Actors
  <2>3. CASE a \in Readers
    <3>1. \A e \in Events : ev[a] # e
      BY <1>1, <2>3, NullAssumption DEF MarkerTypes
    <3>2. started' = started
      BY <1>1, <2>1, <3>1 DEF MarkerTypes
    <3>3. \A v \in Workers : v # a /\ pc'[v] = pc[v]
      BY <1>1, <2>1, <2>3, ActorsAssumption DEF MarkerTypes, Actors
    <3>. QED BY <1>1, <2>1, <2>2, <3>2, <3>3
         DEF MarkerInv, MarkerHasOneHolder, AtMostOneReconcile, Reconciling
  <2>4. CASE a \in Workers
    <3>1. ev[a] \in Events /\ started[ev[a]] = 0 /\ ev[a] \in marked
      BY <1>1, <2>1, <2>4 DEF MarkerTypes, MarkerHasOneHolder, Reconciling
    <3>2. started'[ev[a]] = 1 /\ \A e \in Events \ {ev[a]} : started'[e] = started[e]
      BY <1>1, <2>1, <3>1 DEF MarkerTypes
    <3>3. \A v \in Workers : /\ Reconciling(v)' => Reconciling(v)
                             /\ pc'[v] = "fetch" => pc[v] = "fetch" /\ v # a
      BY <1>1, <2>1, <2>4 DEF Reconciling, MarkerTypes, Actors
    <3>4. \A v \in Workers : pc'[v] = "fetch" => ev[v] # ev[a] /\ ev[v] \in Events
      BY <1>1, <2>1, <2>4, <3>3 DEF MarkerHasOneHolder, MarkerTypes, Reconciling
    <3>5. MarkerHasOneHolder'
      BY <1>1, <2>1, <3>1, <3>2, <3>3, <3>4 DEF MarkerHasOneHolder
    <3>6. AtMostOneReconcile'
      BY <1>1, <3>2 DEF AtMostOneReconcile
    <3>. QED BY <2>2, <3>5, <3>6 DEF MarkerInv
  <2>. QED BY <2>3, <2>4 DEF Actors
<1>7. ASSUME NEW a \in Actors, NEW l \in {"cache", "fill", "failed", "done", "readRow"},
             Goto(a, l), UNCHANGED <<marked, started, ev>>,
             a \in Workers => l = "cache" /\ pc[a] = "store"
      PROVE  MarkerInv'
  BY <1>1, <1>7, ActorsAssumption, QuietStep DEF Goto, MarkerTypes, Actors
<1>8. ASSUME NEW a \in Actors, Store(a)
      PROVE  MarkerInv'
  BY <1>1, <1>4, <1>7, <1>8 DEF Store, Throw, Actors, MarkerTypes
<1>9. ASSUME NEW a \in Actors, CacheState(a)
      PROVE  MarkerInv'
  BY <1>1, <1>4, <1>7, <1>9 DEF CacheState, Actors, MarkerTypes
<1>10. ASSUME NEW a \in Actors, Die(a)
       PROVE  MarkerInv'
  BY <1>1, <1>4, <1>7, <1>10 DEF Die, Throw, Actors, MarkerTypes
<1>11. ASSUME NEW h \in Readers, ReadRow(h) \/ Fill(h) \/ \E p \in Payers : ReadCache(h, p)
       PROVE  MarkerInv'
  <2>1. /\ \E l \in {"fetch", "fill", "done", "readRow"} : pc' = [pc EXCEPT ![h] = l]
        /\ UNCHANGED <<marked, started, ev>>
    BY <1>11 DEF ReadRow, Fill, ReadCache, Goto
  <2>. QED BY <1>1, <2>1, ActorsAssumption, QuietStep DEF MarkerTypes, Actors
<1>. QED
  BY <1>2, <1>3, <1>5, <1>6, <1>8, <1>9, <1>10, <1>11
  DEF Next, Process, vars, actorVars, Change, Deliver, Retire, Stall, CreateRow, Expire

\* An event starts at most one reconcile, whatever is delivered, retried or
\* doubled: the marker is unique and written before anything else.
THEOREM ReconciledAtMostOnce == Spec => []AtMostOneReconcile
BY InitMarker, NextMarker, PTL DEF Spec, MarkerInv

\* The marker of an event has one holder.
THEOREM OneHolder == Spec => []MarkerHasOneHolder
BY InitMarker, NextMarker, PTL DEF Spec, MarkerInv

-----------------------------------------------------------------------------
(* Types.                                                                  *)

\* A job that is handed out, or will be, has an attempt left and may still stall.
AttemptsLeft ==
  \A e \in Events : job[e] \in {"waiting", "active"} =>
    attempts[e] < MaxAttempts /\ stalls[e] <= MaxStalled

\* An actor under way knows its payer, and past the request to Clerk a subscription.
KnowsWhat(a) ==
  /\ pc[a] \in {"readRow", "fetch", "store", "cache", "fill"} => payer[a] \in Payers
  /\ pc[a] \in {"store", "cache", "fill"} => got[a] \in Nat \cup {NoPlan}

\* An active job is being worked on by its owner, and no other job has one.
OwnersWork ==
  /\ \A w \in Workers : pc[w] \in {"idle", "mark", "fetch", "store", "cache"}
  /\ \A e \in Events :
       /\ owner[e] # None => job[e] = "active"
       /\ job[e] = "active" => \E w \in Workers : owner[e] = w /\ ev[w] = e /\ pc[w] # "idle"

TypeInv ==
  /\ MarkerInv /\ TypeOK /\ AttemptsLeft /\ OwnersWork
  /\ \A a \in Actors : KnowsWhat(a)

LEMMA InitTypes == Init => TypeInv
<1>. SUFFICES ASSUME Init
              PROVE  TypeInv
  OBVIOUS
<1>1. TypeOK
  BY PayersAssumption, NumbersAssumption DEF Init, TypeOK
<1>2. AttemptsLeft /\ OwnersWork /\ \A a \in Actors : KnowsWhat(a)
  BY DEF Init, AttemptsLeft, OwnersWork, KnowsWhat, Actors
<1>. QED BY <1>1, <1>2, InitMarker DEF TypeInv

\* Only Take gives a job an owner, and only the end of its attempt or a stall takes it.
LEMMA NextOwners == TypeInv /\ [Next]_vars => OwnersWork'
<1>. SUFFICES ASSUME TypeInv, [Next]_vars
              PROVE  OwnersWork'
  OBVIOUS
<1>0. MarkerTypes /\ TypeOK /\ OwnersWork /\ None \notin Workers
  BY NullAssumption DEF TypeInv, MarkerInv
<1>1. ASSUME UNCHANGED <<job, owner, ev>>, NEW a \in Actors, NEW l,
             pc' = pc \/ pc' = [pc EXCEPT ![a] = l],
             a \in Workers => l \in {"mark", "fetch", "store", "cache"}
      PROVE  OwnersWork'
  BY <1>0, <1>1 DEF OwnersWork, TypeOK, Actors
<1>2. CASE UNCHANGED <<job, owner, pc, ev>>
  BY <1>0, <1>2 DEF OwnersWork
<1>3. ASSUME NEW e \in Events, Deliver(e) \/ Retire(e) \/ Stall(e)
      PROVE  OwnersWork'
  <2>1. /\ UNCHANGED <<pc, ev>>
        /\ \A d \in Events : job'[d] = job[d] \/ job[d] # "active" \/ owner'[d] = None
        /\ \A d \in Events : job'[d] = job[d] \/ job'[d] # "active"
        /\ \A d \in Events : owner'[d] = owner[d] \/ (owner'[d] = None /\ job'[d] # "active")
    BY <1>0, <1>3 DEF Deliver, Retire, Stall, actorVars, TypeOK
  <2>. QED BY <1>0, <2>1 DEF OwnersWork
<1>4. ASSUME NEW w \in Workers, NEW e \in Events, Take(w, e)
      PROVE  OwnersWork'
  <2>1. /\ pc'[w] = "mark" /\ ev'[w] = e /\ job'[e] = "active" /\ owner'[e] = w
        /\ pc[w] = "idle"
        /\ \A v \in Workers \ {w} : pc'[v] = pc[v] /\ ev'[v] = ev[v]
        /\ \A d \in Events \ {e} : job'[d] = job[d] /\ owner'[d] = owner[d]
    BY <1>0, <1>4 DEF Take, Goto, TypeOK, Actors
  <2>. QED BY <1>0, <2>1 DEF OwnersWork
<1>5. ASSUME NEW w \in Workers, NEW state \in {"waiting", "completed", "failed"},
             Finish(w, state), ev[w] \in Events
      PROVE  OwnersWork'
  <2>1. /\ pc'[w] = "idle"
        /\ \A v \in Workers \ {w} : pc'[v] = pc[v] /\ ev'[v] = ev[v]
        /\ \A d \in Events :
             \/ job'[d] = job[d] /\ owner'[d] = owner[d] /\ (owner[d] = w => d # ev[w])
             \/ job'[d] = state /\ owner'[d] = None
    BY <1>0, <1>5 DEF Finish, TypeOK, Actors
  <2>. QED BY <1>0, <2>1 DEF OwnersWork
<1>6. ASSUME NEW w \in Workers, Throw(w), ev[w] \in Events
      PROVE  OwnersWork'
  <2>1. CASE attempts[ev[w]] + 1 < MaxAttempts
    BY <1>5, <1>6, <2>1 DEF Throw
  <2>2. CASE ~(attempts[ev[w]] + 1 < MaxAttempts)
    BY <1>5, <1>6, <2>2 DEF Throw
  <2>. QED BY <2>1, <2>2
<1>7. ASSUME NEW w \in Workers, Mark(w)
      PROVE  OwnersWork'
  BY <1>0, <1>1, <1>5, <1>7 DEF Mark, MarkerTypes, Goto, queueVars, Actors
<1>8. ASSUME NEW a \in Actors, Fetch(a) \/ Store(a) \/ CacheState(a)
      PROVE  OwnersWork'
  <2>1. CASE a \in Workers
    <3>1. ev[a] \in Events
      BY <1>0, <1>8, <2>1 DEF Fetch, Store, CacheState, MarkerTypes
    <3>. QED BY <1>1, <1>5, <1>6, <1>8, <2>1, <3>1 DEF Fetch, Store, CacheState, Goto, queueVars
  <2>2. CASE a \notin Workers
    BY <1>1, <1>8, <2>2 DEF Fetch, Store, CacheState, Goto, queueVars
  <2>. QED BY <2>1, <2>2
<1>9. ASSUME NEW a \in Actors, Die(a)
      PROVE  OwnersWork'
  <2>1. CASE a \in Workers
    <3>1. ev[a] \in Events
      BY <1>0, <1>9, <2>1, StepsAssumption DEF Die, MarkerTypes, OwnersWork
    <3>. QED BY <1>6, <1>9, <2>1, <3>1 DEF Die
  <2>2. CASE a \notin Workers
    BY <1>1, <1>9, <2>2 DEF Die, Goto, queueVars
  <2>. QED BY <2>1, <2>2
<1>10. ASSUME NEW h \in Readers, ReadRow(h) \/ Fill(h) \/ \E p \in Payers : ReadCache(h, p)
       PROVE  OwnersWork'
  BY <1>1, <1>10, ActorsAssumption DEF ReadRow, Fill, ReadCache, Goto, queueVars, Actors
<1>. QED
  BY <1>2, <1>3, <1>4, <1>7, <1>8, <1>9, <1>10
  DEF Next, Process, Change, CreateRow, Expire, vars, queueVars, actorVars

\* How a worker leaves its job.
LEMMA FinishTypes ==
  ASSUME TypeOK, AttemptsLeft, \A a \in Actors : KnowsWhat(a),
         OwnersWork, NEW w \in Workers, NEW state \in {"waiting", "completed", "failed"}, Finish(w, state),
         ev[w] \in Events,
         state = "waiting" => attempts[ev[w]] + 1 < MaxAttempts
  PROVE  /\ job' \in [Events -> {"none", "waiting", "active", "completed", "failed"}]
         /\ owner' \in [Events -> Workers \cup {None}]
         /\ attempts' \in [Events -> 0..MaxAttempts]
         /\ pc' \in [Actors -> {"idle", "mark", "readRow", "fetch", "store", "cache", "fill",
                                "done", "failed"}]
         /\ ev' \in [Actors -> Events \cup {None}]
         /\ payer' \in [Actors -> Payers \cup {None}]
         /\ got' \in [Actors -> Nat \cup {NoPlan, None}]
         /\ UNCHANGED <<sent, acked, stalls>>
         /\ AttemptsLeft'
         /\ \A a \in Actors : KnowsWhat(a)'
<1>1. /\ pc' = [pc EXCEPT ![w] = "idle"] /\ ev' = [ev EXCEPT ![w] = None]
      /\ payer' = [payer EXCEPT ![w] = None] /\ got' = [got EXCEPT ![w] = None]
      /\ UNCHANGED <<sent, acked, stalls>>
      /\ \/ /\ owner[ev[w]] = w
            /\ job' = [job EXCEPT ![ev[w]] = state] /\ owner' = [owner EXCEPT ![ev[w]] = None]
            /\ attempts' = [attempts EXCEPT ![ev[w]] = @ + 1]
         \/ UNCHANGED <<job, owner, attempts>>
  BY DEF Finish
<1>2. w \in Actors /\ w # None
  BY NullAssumption DEF Actors
<1>3. owner[ev[w]] = w => job[ev[w]] = "active" /\ attempts[ev[w]] < MaxAttempts
  BY <1>2 DEF AttemptsLeft, OwnersWork
<1>4. owner[ev[w]] = w => attempts[ev[w]] + 1 \in 0..MaxAttempts
  BY <1>3, NumbersAssumption DEF TypeOK
<1>5. /\ job' \in [Events -> {"none", "waiting", "active", "completed", "failed"}]
      /\ owner' \in [Events -> Workers \cup {None}]
      /\ attempts' \in [Events -> 0..MaxAttempts]
  BY <1>1, <1>4 DEF TypeOK
<1>6. /\ pc' \in [Actors -> {"idle", "mark", "readRow", "fetch", "store", "cache", "fill",
                             "done", "failed"}]
      /\ ev' \in [Actors -> Events \cup {None}]
      /\ payer' \in [Actors -> Payers \cup {None}]
      /\ got' \in [Actors -> Nat \cup {NoPlan, None}]
  BY <1>1 DEF TypeOK
<1>7. AttemptsLeft'
  <2>. SUFFICES ASSUME NEW e \in Events, job'[e] \in {"waiting", "active"}
                PROVE  attempts'[e] < MaxAttempts /\ stalls'[e] <= MaxStalled
    BY DEF AttemptsLeft
  <2>1. CASE job'[e] = job[e] /\ attempts'[e] = attempts[e]
    BY <1>1, <2>1 DEF AttemptsLeft
  <2>2. CASE e = ev[w] /\ owner[e] = w /\ job'[e] = state /\ attempts'[e] = attempts[e] + 1
    BY <1>1, <1>3, <2>2 DEF AttemptsLeft
  <2>. QED BY <1>1, <2>1, <2>2 DEF TypeOK
<1>8. \A a \in Actors : KnowsWhat(a)'
  BY <1>1, <1>2 DEF KnowsWhat, TypeOK
<1>. QED BY <1>1, <1>5, <1>6, <1>7, <1>8

LEMMA ThrowTypes ==
  ASSUME NEW w \in Workers, Throw(w)
  PROVE  \E state \in {"waiting", "completed", "failed"} :
           Finish(w, state) /\ (state = "waiting" => attempts[ev[w]] + 1 < MaxAttempts)
<1>1. CASE attempts[ev[w]] + 1 < MaxAttempts
  BY <1>1 DEF Throw
<1>2. CASE ~(attempts[ev[w]] + 1 < MaxAttempts)
  BY <1>2 DEF Throw
<1>. QED BY <1>1, <1>2

LEMMA NextTypes == TypeInv /\ [Next]_vars => TypeInv'
<1>. SUFFICES ASSUME TypeInv, [Next]_vars
              PROVE  TypeOK' /\ AttemptsLeft' /\ \A a \in Actors : KnowsWhat(a)'
  BY NextMarker, NextOwners DEF TypeInv
<1>0. /\ MarkerTypes /\ TypeOK /\ AttemptsLeft /\ OwnersWork
      /\ \A a \in Actors : KnowsWhat(a)
  BY DEF TypeInv, MarkerInv
<1>. DEFINE Goal == TypeOK' /\ AttemptsLeft' /\ \A a \in Actors : KnowsWhat(a)'
<1>1. CASE UNCHANGED vars
  BY <1>0, <1>1 DEF vars, queueVars, actorVars, TypeOK, AttemptsLeft, KnowsWhat
<1>2. ASSUME NEW e \in Events, Change(e)
      PROVE  Goal
  <2>1. clerk' \in [Payers -> Nat]
    BY <1>0, <1>2 DEF Change, TypeOK
  <2>. QED BY <1>0, <1>2, <2>1 DEF Change, actorVars, TypeOK, AttemptsLeft, KnowsWhat
<1>3. ASSUME NEW e \in Events, Deliver(e)
      PROVE  Goal
  <2>1. /\ job' \in [Events -> {"none", "waiting", "active", "completed", "failed"}]
        /\ attempts' \in [Events -> 0..MaxAttempts]
        /\ stalls' \in [Events -> 0..(MaxStalled + 1)]
    BY <1>0, <1>3, NumbersAssumption DEF Deliver, TypeOK
  <2>2. AttemptsLeft'
    BY <1>0, <1>3, NumbersAssumption DEF Deliver, TypeOK, AttemptsLeft
  <2>3. TypeOK'
    BY <1>0, <1>3, <2>1 DEF Deliver, TypeOK, actorVars
  <2>. QED BY <1>0, <1>3, <2>2, <2>3 DEF Deliver, actorVars, KnowsWhat
<1>4. ASSUME NEW e \in Events, Retire(e) \/ Stall(e)
      PROVE  Goal
  <2>1. /\ job' \in [Events -> {"none", "waiting", "active", "completed", "failed"}]
        /\ owner' \in [Events -> Workers \cup {None}]
        /\ stalls' \in [Events -> 0..(MaxStalled + 1)]
        /\ faults' \in 0..MaxFaults
    BY <1>0, <1>4, NumbersAssumption DEF AttemptsLeft, Retire, Stall, Fault, TypeOK
  <2>2. AttemptsLeft'
    BY <1>0, <1>4, NumbersAssumption DEF Retire, Stall, TypeOK, AttemptsLeft
  <2>3. TypeOK'
    BY <1>0, <1>4, <2>1 DEF Retire, Stall, TypeOK, actorVars
  <2>. QED BY <1>0, <1>4, <2>2, <2>3 DEF Retire, Stall, actorVars, KnowsWhat
<1>5. ASSUME NEW w \in Workers, NEW e \in Events, Take(w, e)
      PROVE  Goal
  <2>2. TypeOK'
    BY <1>0, <1>5 DEF Take, Goto, TypeOK
  <2>3. AttemptsLeft'
    BY <1>0, <1>5 DEF Take, TypeOK, AttemptsLeft
  <2>4. w \in Actors /\ pc' = [pc EXCEPT ![w] = "mark"] /\ UNCHANGED <<payer, got>>
    BY <1>5 DEF Take, Goto, Actors
  <2>5. \A a \in Actors : KnowsWhat(a)'
    BY <1>0, <2>4 DEF TypeOK, KnowsWhat
  <2>. QED BY <2>2, <2>3, <2>5
<1>6. ASSUME NEW w \in Workers, Mark(w)
      PROVE  Goal
  <2>1. /\ ev[w] \in Events /\ w \in Actors /\ marked' \subseteq Events
        /\ UNCHANGED <<clerk, started, missed, row, cache, faults>>
    BY <1>0, <1>6 DEF Mark, MarkerTypes, TypeOK, Actors
  <2>2. CASE Finish(w, "completed")
    BY <1>0, <2>1, <2>2, FinishTypes DEF TypeOK
  <2>3. CASE /\ PayerOf[ev[w]] # None
             /\ Goto(w, "fetch")
             /\ payer' = [payer EXCEPT ![w] = PayerOf[ev[w]]]
             /\ UNCHANGED <<queueVars, ev, got>>
    <3>1. PayerOf[ev[w]] \in Payers
      BY <2>1, <2>3, EventsAssumption
    <3>2. TypeOK'
      BY <1>0, <2>1, <2>3, <3>1 DEF TypeOK, Goto, queueVars
    <3>3. AttemptsLeft' /\ \A a \in Actors : KnowsWhat(a)'
      BY <1>0, <2>1, <2>3, <3>1 DEF TypeOK, Goto, queueVars, AttemptsLeft, KnowsWhat
    <3>. QED BY <3>2, <3>3
  <2>. QED BY <1>6, <2>2, <2>3 DEF Mark
<1>7. ASSUME NEW h \in Readers, ReadRow(h)
      PROVE  Goal
  <2>1. /\ h \in Actors /\ payer[h] \in Payers
        /\ UNCHANGED <<clerk, queueVars, marked, started, missed, row, cache, ev, payer, faults>>
    BY <1>0, <1>7 DEF ReadRow, KnowsWhat, Actors
  <2>2. \/ /\ row[payer[h]] \in Nat \cup {NoPlan}
           /\ got' = [got EXCEPT ![h] = row[payer[h]]] /\ pc' = [pc EXCEPT ![h] = "fill"]
        \/ pc' = [pc EXCEPT ![h] = "fetch"] /\ got' = got
    BY <1>0, <1>7 DEF ReadRow, Goto, TypeOK
  <2>3. TypeOK'
    BY <1>0, <2>1, <2>2 DEF TypeOK, queueVars
  <2>4. AttemptsLeft' /\ \A a \in Actors : KnowsWhat(a)'
    BY <1>0, <2>1, <2>2 DEF TypeOK, queueVars, AttemptsLeft, KnowsWhat
  <2>. QED BY <2>3, <2>4
<1>8. ASSUME NEW a \in Actors, Fetch(a)
      PROVE  Goal
  <2>1. /\ payer[a] \in Payers /\ clerk[payer[a]] \in Nat
        /\ pc' = [pc EXCEPT ![a] = "store"]
        /\ UNCHANGED <<clerk, queueVars, marked, missed, row, cache, ev, payer>>
    BY <1>0, <1>8 DEF Fetch, Goto, KnowsWhat, TypeOK
  <2>2. \E s \in Nat \cup {NoPlan} : got' = [got EXCEPT ![a] = s]
    BY <1>8, <2>1 DEF Fetch
  <2>3. started' \in [Events -> Nat] /\ faults' \in 0..MaxFaults
    BY <1>0, <1>8, NumbersAssumption DEF Fetch, Fault, TypeOK
  <2>4. TypeOK'
    BY <1>0, <2>1, <2>2, <2>3 DEF TypeOK, queueVars
  <2>5. AttemptsLeft' /\ \A b \in Actors : KnowsWhat(b)'
    BY <1>0, <2>1, <2>2 DEF TypeOK, queueVars, AttemptsLeft, KnowsWhat
  <2>. QED BY <2>4, <2>5
\* An actor gives up.
<1>9. ASSUME NEW a \in Actors,
             IF a \in Workers
             THEN Throw(a)
             ELSE Goto(a, "failed") /\ UNCHANGED <<queueVars, ev, payer, got>>,
             pc[a] \in {"mark", "readRow", "fetch", "store", "cache", "fill"}, Miss(a),
             UNCHANGED <<clerk, marked, started, row, cache>>, faults' \in 0..MaxFaults
      PROVE  Goal
  <2>0. missed' \subseteq Payers
    BY <1>0, <1>9 DEF Miss, KnowsWhat, TypeOK
  <2>1. CASE a \in Workers
    <3>1. PICK state \in {"waiting", "completed", "failed"} :
            Finish(a, state) /\ (state = "waiting" => attempts[ev[a]] + 1 < MaxAttempts)
      BY <1>9, <2>1, ThrowTypes
    <3>2. ev[a] \in Events
      BY <1>0, <1>9, <2>1 DEF OwnersWork, MarkerTypes
    <3>. QED BY <1>0, <1>9, <2>0, <2>1, <3>1, <3>2, FinishTypes DEF TypeOK
  <2>2. CASE a \notin Workers
    <3>1. pc' = [pc EXCEPT ![a] = "failed"] /\ UNCHANGED <<queueVars, ev, payer, got>>
      BY <1>9, <2>2 DEF Goto
    <3>2. TypeOK'
      BY <1>0, <1>9, <2>0, <3>1 DEF TypeOK, queueVars
    <3>3. AttemptsLeft' /\ \A b \in Actors : KnowsWhat(b)'
      BY <1>0, <1>9, <3>1 DEF TypeOK, queueVars, AttemptsLeft, KnowsWhat
    <3>. QED BY <3>2, <3>3
  <2>. QED BY <2>1, <2>2
<1>10. ASSUME NEW a \in Actors, Store(a)
       PROVE  Goal
  <2>1. /\ payer[a] \in Payers /\ got[a] \in Nat \cup {NoPlan}
        /\ UNCHANGED <<clerk, marked, started, cache, faults>> /\ faults \in 0..MaxFaults
    BY <1>0, <1>10 DEF Store, KnowsWhat, TypeOK
  <2>2. CASE payer[a] \in DOMAIN row \cup Orgs
    <3>1. /\ row' = [p \in DOMAIN row \cup {payer[a]} |-> IF p = payer[a] THEN got[a] ELSE row[p]]
          /\ pc' = [pc EXCEPT ![a] = "cache"] /\ UNCHANGED <<queueVars, ev, payer, got>>
      BY <1>10, <2>2 DEF Store, Goto
    <3>2. DOMAIN row' \subseteq Payers /\ row' \in [DOMAIN row' -> Nat \cup {NoPlan, Never}]
      BY <1>0, <2>1, <3>1 DEF TypeOK
    <3>3. TypeOK'
      <4>1. missed' \subseteq Payers
        BY <1>0, <1>10, <2>1, <2>2 DEF Store, Told, TypeOK
      <4>. QED BY <1>0, <2>1, <3>1, <3>2, <4>1 DEF TypeOK, queueVars
    <3>4. AttemptsLeft' /\ \A b \in Actors : KnowsWhat(b)'
      BY <1>0, <2>1, <3>1 DEF TypeOK, queueVars, AttemptsLeft, KnowsWhat
    <3>. QED BY <3>3, <3>4
  <2>3. CASE payer[a] \notin DOMAIN row \cup Orgs
    BY <1>9, <1>10, <2>1, <2>3 DEF Store
  <2>. QED BY <2>2, <2>3
<1>11. ASSUME NEW a \in Actors, CacheState(a) \/ Fill(a)
       PROVE  Goal
  <2>1. /\ payer[a] \in Payers /\ got[a] \in Nat \cup {NoPlan}
        /\ UNCHANGED <<clerk, marked, started, missed, row, faults>>
        /\ cache' \in [Payers -> Nat \cup {NoPlan, None}]
    BY <1>0, <1>11 DEF CacheState, Fill, WriteCache, KnowsWhat, TypeOK
  <2>2. CASE a \in Workers /\ Finish(a, "completed")
    <3>1. ev[a] \in Events
      BY <1>0, <1>11, <2>2 DEF CacheState, Fill, OwnersWork, MarkerTypes
    <3>. QED BY <1>0, <2>1, <2>2, <3>1, FinishTypes DEF TypeOK
  <2>3. CASE /\ \E l \in {"fill", "done"} : pc' = [pc EXCEPT ![a] = l]
             /\ UNCHANGED <<queueVars, ev, payer, got>>
    <3>1. TypeOK'
      BY <1>0, <2>1, <2>3 DEF TypeOK, queueVars
    <3>2. AttemptsLeft' /\ \A b \in Actors : KnowsWhat(b)'
      BY <1>0, <2>1, <2>3 DEF TypeOK, queueVars, AttemptsLeft, KnowsWhat
    <3>. QED BY <3>1, <3>2
  <2>. QED BY <1>11, <2>2, <2>3 DEF CacheState, Fill, Goto
<1>12. ASSUME NEW a \in Actors, Die(a)
       PROVE  Goal
  <2>1. faults' \in 0..MaxFaults
    BY <1>0, <1>12, NumbersAssumption DEF Die, Fault, TypeOK
  <2>. QED BY <1>9, <1>12, <2>1, StepsAssumption DEF Die
<1>13. ASSUME NEW h \in Readers, NEW p \in Payers, ReadCache(h, p)
       PROVE  Goal
  <2>1. /\ h \in Actors /\ UNCHANGED <<clerk, queueVars, marked, started, missed, row, cache, ev,
                                            got, faults>>
        /\ \/ pc' = [pc EXCEPT ![h] = "done"] /\ payer' = payer
           \/ pc' = [pc EXCEPT ![h] = "readRow"] /\ payer' = [payer EXCEPT ![h] = p]
    BY <1>13 DEF ReadCache, Goto, Actors
  <2>2. TypeOK'
    BY <1>0, <2>1 DEF TypeOK, queueVars
  <2>3. AttemptsLeft' /\ \A b \in Actors : KnowsWhat(b)'
    BY <1>0, <2>1 DEF TypeOK, queueVars, AttemptsLeft, KnowsWhat
  <2>. QED BY <2>2, <2>3
<1>14. ASSUME NEW p \in Payers, CreateRow(p) \/ Expire(p)
       PROVE  Goal
  <2>1. /\ DOMAIN row' \subseteq Payers /\ row' \in [DOMAIN row' -> Nat \cup {NoPlan, Never}]
        /\ cache' \in [Payers -> Nat \cup {NoPlan, None}]
        /\ UNCHANGED <<clerk, queueVars, marked, started, missed, actorVars, faults>>
    BY <1>0, <1>14 DEF CreateRow, Expire, TypeOK
  <2>. QED BY <1>0, <2>1 DEF TypeOK, queueVars, actorVars, AttemptsLeft, KnowsWhat
<1>. QED
  BY <1>1, <1>2, <1>3, <1>4, <1>5, <1>6, <1>7, <1>8, <1>10, <1>11, <1>12, <1>13, <1>14
  DEF Next, Process

LEMMA TypeInvariance == Spec => []TypeInv
<1>. QED BY InitTypes, NextTypes, PTL DEF Spec

\* The variables of BillingSync keep their types: no job runs more often than it may.
THEOREM TypeCorrect == Spec => []TypeOK
<1>1. TypeInv => TypeOK
  BY DEF TypeInv
<1>. QED BY <1>1, TypeInvariance, PTL

-----------------------------------------------------------------------------
(* Row and cache.                                                          *)

\* One worker, and no reader that reconciles: there are none, or every row was synced
\* before.
OneReconciler ==
  /\ \A v, w \in Workers : v = w
  /\ Readers = {} \/ Synced = Payers

\* The cache is not ahead of the row, nor either of Clerk.
InLine(p) ==
  /\ NotAfter(cache[p], clerk[p])
  /\ p \in DOMAIN row => NotAfter(row[p], clerk[p]) /\ NotAfter(cache[p], row[p])

\* What the worker is about to store is not older than row and cache, nor than what is
\* on its way into the cache; what an actor is about to cache is not newer than the row.
Carries(a) ==
  /\ pc[a] = "store" =>
       /\ NotAfter(got[a], clerk[payer[a]])
       /\ NotAfter(cache[payer[a]], got[a])
       /\ payer[a] \in DOMAIN row => NotAfter(row[payer[a]], got[a])
       /\ \A b \in Actors : pc[b] \in {"cache", "fill"} /\ payer[b] = payer[a] =>
            NotAfter(got[b], got[a])
  /\ pc[a] \in {"cache", "fill"} =>
       /\ NotAfter(got[a], clerk[payer[a]])
       /\ payer[a] \in DOMAIN row /\ NotAfter(got[a], row[payer[a]])

\* A reader finds every row synced.
ReadersFind ==
  \A h \in Readers :
    /\ DOMAIN row = Payers /\ \A p \in Payers : row[p] # Never
    /\ pc[h] \notin {"fetch", "store", "cache"}

OrderInv ==
  /\ TypeInv /\ ReadersFind
  /\ \A p \in Payers : InLine(p)
  /\ \A a \in Actors : Carries(a)

LEMMA InitOrder == OneReconciler /\ Init => OrderInv
<1>. SUFFICES ASSUME OneReconciler, Init
              PROVE  OrderInv
  OBVIOUS
<1>1. ReadersFind
  BY NullAssumption DEF Init, OneReconciler, ReadersFind, Actors
<1>2. \A p \in Payers : InLine(p)
  BY NullAssumption DEF Init, InLine, NotAfter
<1>3. \A a \in Actors : Carries(a)
  BY DEF Init, Carries
<1>. QED BY <1>1, <1>2, <1>3, InitTypes DEF OrderInv

\* A step that leaves row and cache, and after which no actor carries anything new.
LEMMA NothingCarried ==
  ASSUME OrderInv, UNCHANGED <<row, cache>>,
         clerk' \in [Payers -> Nat], \A p \in Payers : clerk[p] <= clerk'[p],
         \A a \in Actors : \/ pc'[a] = pc[a] /\ payer'[a] = payer[a] /\ got'[a] = got[a]
                           \/ pc'[a] \notin {"store", "cache", "fill"},
         \A h \in Readers : pc'[h] # "fetch" \/ pc[h] = "fetch"
  PROVE  /\ ReadersFind'
         /\ \A p \in Payers : InLine(p)'
         /\ \A a \in Actors : Carries(a)'
<1>0. /\ TypeOK /\ ReadersFind
      /\ \A p \in Payers : InLine(p)
      /\ \A a \in Actors : Carries(a) /\ KnowsWhat(a)
  BY DEF OrderInv, TypeInv
<1>1. ReadersFind'
  BY <1>0 DEF ReadersFind, Actors
<1>2. ASSUME NEW p \in Payers, NEW v, NotAfter(v, clerk[p])
      PROVE  NotAfter(v, clerk'[p])
  BY <1>0, <1>2 DEF NotAfter, TypeOK
<1>3. ASSUME NEW p \in Payers
      PROVE  InLine(p)'
  <2>1. NotAfter(cache[p], clerk'[p])
    BY <1>0, <1>2 DEF InLine
  <2>2. p \in DOMAIN row => NotAfter(row[p], clerk'[p])
    BY <1>0, <1>2 DEF InLine
  <2>. QED BY <1>0, <2>1, <2>2 DEF InLine, NotAfter
<1>4. ASSUME NEW a \in Actors
      PROVE  Carries(a)'
  <2>1. CASE pc'[a] \notin {"store", "cache", "fill"}
    BY <2>1 DEF Carries
  <2>2. CASE pc'[a] = pc[a] /\ payer'[a] = payer[a] /\ got'[a] = got[a]
                /\ pc[a] \in {"store", "cache", "fill"}
    <3>1. payer[a] \in Payers
      BY <1>0, <2>2 DEF KnowsWhat
    <3>2. NotAfter(got[a], clerk'[payer[a]])
      BY <1>0, <1>2, <2>2, <3>1 DEF Carries
    <3>. QED BY <1>0, <2>2, <3>2 DEF Carries, NotAfter
  <2>. QED BY <2>1, <2>2
<1>. QED BY <1>1, <1>3, <1>4

LEMMA NextOrder == OneReconciler /\ OrderInv /\ [Next]_vars => OrderInv'
<1>. SUFFICES ASSUME OneReconciler, OrderInv, [Next]_vars
              PROVE  /\ ReadersFind'
                     /\ \A p \in Payers : InLine(p)'
                     /\ \A a \in Actors : Carries(a)'
  BY NextTypes DEF OrderInv
<1>0. /\ MarkerTypes /\ TypeOK /\ TypeOK' /\ ReadersFind
      /\ \A p \in Payers : InLine(p)
      /\ \A a \in Actors : Carries(a) /\ KnowsWhat(a)
  BY NextTypes DEF OrderInv, TypeInv, MarkerInv
<1>. DEFINE Goal == /\ ReadersFind'
                    /\ \A p \in Payers : InLine(p)'
                    /\ \A a \in Actors : Carries(a)'
<1>1. clerk \in [Payers -> Nat] /\ \A p \in Payers : clerk[p] <= clerk[p]
  BY <1>0 DEF TypeOK
<1>2. CASE UNCHANGED <<clerk, row, cache, pc, payer, got>>
  BY <1>1, <1>2, NothingCarried
<1>3. ASSUME NEW e \in Events, Change(e)
      PROVE  Goal
  <2>1. clerk' \in [Payers -> Nat] /\ \A p \in Payers : clerk[p] <= clerk'[p]
    BY <1>0, <1>3 DEF Change, TypeOK
  <2>. QED BY <1>3, <2>1, NothingCarried DEF Change, actorVars
<1>4. ASSUME NEW w \in Workers, NEW e \in Events, Take(w, e)
      PROVE  Goal
  <2>1. /\ UNCHANGED <<clerk, row, cache, payer, got>>
        /\ pc' = [pc EXCEPT ![w] = "mark"]
    BY <1>4 DEF Take, Goto
  <2>2. \A a \in Actors : pc'[a] = pc[a] \/ pc'[a] = "mark"
    BY <1>0, <2>1 DEF TypeOK
  <2>. QED BY <1>1, <2>1, <2>2, NothingCarried DEF Actors
\* An actor that stops carries nothing.
<1>5. ASSUME NEW a \in Actors, NEW l \in {"idle", "done", "failed", "readRow"},
             pc' = [pc EXCEPT ![a] = l],
             \A b \in Actors \ {a} : payer'[b] = payer[b] /\ got'[b] = got[b],
             UNCHANGED <<clerk, row, cache>>
      PROVE  Goal
  <2>1. pc'[a] = l /\ \A b \in Actors \ {a} : pc'[b] = pc[b]
    BY <1>0, <1>5 DEF TypeOK
  <2>. QED BY <1>1, <1>5, <2>1, NothingCarried DEF Actors
<1>6. ASSUME NEW w \in Workers, NEW state, Finish(w, state)
      PROVE  /\ w \in Actors /\ pc' = [pc EXCEPT ![w] = "idle"]
             /\ \A b \in Actors \ {w} : payer'[b] = payer[b] /\ got'[b] = got[b]
  BY <1>0, <1>6 DEF Finish, TypeOK, Actors
<1>7. ASSUME NEW a \in Actors,
             IF a \in Workers
             THEN Throw(a)
             ELSE Goto(a, "failed") /\ UNCHANGED <<queueVars, ev, payer, got>>,
             UNCHANGED <<clerk, row, cache>>
      PROVE  Goal
  BY <1>5, <1>6, <1>7 DEF Throw, Goto
<1>8. ASSUME NEW w \in Workers, Mark(w)
      PROVE  Goal
  <2>1. UNCHANGED <<clerk, row, cache>>
    BY <1>8 DEF Mark
  <2>2. CASE Finish(w, "completed")
    BY <1>5, <1>6, <2>1, <2>2
  <2>3. CASE /\ Goto(w, "fetch")
             /\ payer' = [payer EXCEPT ![w] = PayerOf[ev[w]]]
             /\ UNCHANGED got
    <3>1. /\ pc'[w] = "fetch" /\ w \notin Readers
          /\ \A b \in Actors \ {w} : pc'[b] = pc[b] /\ payer'[b] = payer[b] /\ got'[b] = got[b]
      BY <1>0, <2>3, ActorsAssumption DEF Goto, TypeOK, Actors
    <3>. QED BY <1>1, <2>1, <3>1, NothingCarried DEF Actors
  <2>. QED BY <1>8, <2>2, <2>3 DEF Mark
\* A reader takes what the row shows, which the worker's subscription is not behind.
<1>9. ASSUME NEW h \in Readers, ReadRow(h)
      PROVE  Goal
  <2>1. /\ h \in Actors /\ payer[h] \in Payers
        /\ UNCHANGED <<clerk, row, cache, payer>>
    BY <1>0, <1>9 DEF ReadRow, KnowsWhat, Actors
  <2>2. payer[h] \in DOMAIN row /\ row[payer[h]] # Never
    BY <1>0, <2>1 DEF ReadersFind
  <2>3. /\ got'[h] = row[payer[h]] /\ pc'[h] = "fill"
        /\ \A b \in Actors \ {h} : pc'[b] = pc[b] /\ got'[b] = got[b]
    BY <1>0, <1>9, <2>1, <2>2 DEF ReadRow, Goto, TypeOK
  <2>4. ReadersFind'
    BY <1>0, <2>1, <2>3 DEF ReadersFind, Actors
  <2>5. \A p \in Payers : InLine(p)'
    BY <1>0, <2>1 DEF InLine, NotAfter
  <2>6. NotAfter(row[payer[h]], row[payer[h]]) /\ NotAfter(row[payer[h]], clerk[payer[h]])
    BY <1>0, <2>1, <2>2 DEF InLine, NotAfter
  <2>7. Carries(h)'
    BY <2>1, <2>2, <2>3, <2>6 DEF Carries, NotAfter
  <2>8. ASSUME NEW b \in Actors \ {h}
        PROVE  Carries(b)'
    <3>1. CASE pc[b] = "store"
      <4>1. ASSUME NEW d \in Actors, pc'[d] \in {"cache", "fill"}, payer[d] = payer[b]
            PROVE  NotAfter(got'[d], got[b])
        BY <1>0, <2>2, <2>3, <3>1, <4>1 DEF Carries
      <4>. QED BY <1>0, <2>1, <2>3, <3>1, <4>1 DEF Carries, NotAfter
    <3>2. CASE pc[b] # "store"
      BY <1>0, <2>1, <2>3, <3>2 DEF Carries, NotAfter
    <3>. QED BY <3>1, <3>2
  <2>. QED BY <2>4, <2>5, <2>7, <2>8
\* What Clerk has is not behind anything.
<1>10. ASSUME NEW a \in Actors, Fetch(a)
       PROVE  Goal
  <2>1. /\ payer[a] \in Payers /\ a \notin Readers
        /\ UNCHANGED <<clerk, row, cache, payer>>
    BY <1>0, <1>10 DEF Fetch, KnowsWhat, ReadersFind
  <2>2. /\ got'[a] = clerk[payer[a]] \/ got'[a] = NoPlan
        /\ pc'[a] = "store"
        /\ \A b \in Actors \ {a} : pc'[b] = pc[b] /\ got'[b] = got[b]
    BY <1>0, <1>10, <2>1 DEF Fetch, Goto, TypeOK
  <2>3. ReadersFind'
    BY <1>0, <2>1, <2>2 DEF ReadersFind, Actors
  <2>4. \A p \in Payers : InLine(p)'
    BY <1>0, <2>1 DEF InLine, NotAfter
  <2>5. ASSUME NEW v, NotAfter(v, clerk[payer[a]])
        PROVE  NotAfter(v, got'[a])
    BY <2>2, <2>5, NullAssumption DEF NotAfter
  <2>6. NotAfter(got'[a], clerk[payer[a]])
    BY <2>1, <2>2, <1>0, NullAssumption DEF NotAfter, TypeOK
  <2>7. ASSUME NEW b \in Actors, pc'[b] \in {"cache", "fill"}, payer[b] = payer[a]
        PROVE  NotAfter(got'[b], got'[a])
    BY <1>0, <2>2, <2>5, <2>7 DEF Carries
  <2>8. Carries(a)'
    <3>1. NotAfter(cache[payer[a]], got'[a])
      BY <1>0, <2>1, <2>5 DEF InLine
    <3>2. payer[a] \in DOMAIN row => NotAfter(row[payer[a]], got'[a])
      BY <1>0, <2>1, <2>5 DEF InLine
    <3>. QED BY <2>1, <2>2, <2>6, <2>7, <3>1, <3>2 DEF Carries, NotAfter
  <2>9. ASSUME NEW b \in Actors \ {a}
        PROVE  Carries(b)'
    BY <1>0, <2>1, <2>2 DEF Carries, NotAfter
  <2>. QED BY <2>3, <2>4, <2>8, <2>9
<1>11. ASSUME NEW a \in Actors, Store(a)
       PROVE  Goal
  <2>1. /\ pc[a] = "store" /\ payer[a] \in Payers /\ a \notin Readers /\ a \in Workers
        /\ UNCHANGED <<clerk, cache>> /\ got[a] \in Nat \cup {NoPlan}
    BY <1>0, <1>11 DEF Store, KnowsWhat, ReadersFind, Actors
  <2>2. /\ NotAfter(got[a], clerk[payer[a]]) /\ NotAfter(cache[payer[a]], got[a])
        /\ \A b \in Actors : pc[b] \in {"cache", "fill"} /\ payer[b] = payer[a] =>
             NotAfter(got[b], got[a])
    BY <1>0, <2>1 DEF Carries
  <2>3. CASE payer[a] \in DOMAIN row \cup Orgs
    <3>1. /\ row' = [p \in DOMAIN row \cup {payer[a]} |-> IF p = payer[a] THEN got[a] ELSE row[p]]
          /\ UNCHANGED <<payer, got>>
      BY <1>11, <2>3 DEF Store
    <3>2. /\ DOMAIN row' = DOMAIN row \cup {payer[a]} /\ row'[payer[a]] = got[a]
          /\ \A p \in DOMAIN row : p # payer[a] => row'[p] = row[p]
      BY <3>1
    <3>3. pc'[a] = "cache" /\ \A b \in Actors \ {a} : pc'[b] = pc[b]
      BY <1>0, <1>11, <2>3 DEF Store, Goto, TypeOK
    <3>4. got[a] # Never
      BY <2>1, NullAssumption
    <3>5. ReadersFind'
      BY <1>0, <2>1, <3>2, <3>3, <3>4 DEF ReadersFind, Actors
    <3>6. ASSUME NEW p \in Payers
          PROVE  InLine(p)'
      <4>1. CASE p = payer[a]
        BY <1>0, <2>1, <2>2, <3>2, <4>1 DEF InLine, NotAfter
      <4>2. CASE p # payer[a]
        BY <1>0, <2>1, <3>2, <4>2 DEF InLine, NotAfter
      <4>. QED BY <4>1, <4>2
    <3>7. ASSUME NEW b \in Actors \ {a}
          PROVE  Carries(b)'
      <4>1. pc[b] # "store"
        BY <1>0, <2>1 DEF OneReconciler, ReadersFind, Actors
      <4>2. CASE pc[b] \in {"cache", "fill"} /\ payer[b] = payer[a]
        BY <1>0, <2>1, <2>2, <3>1, <3>2, <3>3, <4>2 DEF Carries, NotAfter
      <4>3. CASE pc[b] \in {"cache", "fill"} /\ payer[b] # payer[a]
        BY <1>0, <2>1, <3>1, <3>2, <3>3, <4>3 DEF Carries, NotAfter
      <4>4. CASE pc[b] \notin {"cache", "fill"}
        BY <3>3, <4>1, <4>4 DEF Carries
      <4>. QED BY <4>2, <4>3, <4>4
    <3>8. Carries(a)'
      <4>1. NotAfter(got[a], got[a])
        BY DEF NotAfter
      <4>. QED BY <2>1, <2>2, <3>1, <3>2, <3>3, <4>1 DEF Carries, NotAfter
    <3>. QED BY <3>5, <3>6, <3>7, <3>8
  <2>4. CASE payer[a] \notin DOMAIN row \cup Orgs
    BY <1>7, <1>11, <2>4 DEF Store
  <2>. QED BY <2>3, <2>4
\* The cache takes what is in line with the row.
<1>12. ASSUME NEW a \in Actors, CacheState(a) \/ Fill(a)
       PROVE  Goal
  <2>1. /\ payer[a] \in Payers /\ UNCHANGED <<clerk, row>>
        /\ cache' = [cache EXCEPT ![payer[a]] = got[a]] \/ cache' = cache
        /\ pc[a] \in {"cache", "fill"}
    BY <1>0, <1>12 DEF CacheState, Fill, WriteCache, KnowsWhat
  <2>2. /\ NotAfter(got[a], clerk[payer[a]])
        /\ payer[a] \in DOMAIN row /\ NotAfter(got[a], row[payer[a]])
    BY <1>0, <2>1 DEF Carries
  <2>3. \A p \in Payers : cache'[p] = cache[p] \/ (p = payer[a] /\ cache'[p] = got[a])
    BY <1>0, <2>1 DEF TypeOK
  <2>4. ASSUME NEW p \in Payers
        PROVE  InLine(p)'
    BY <1>0, <2>1, <2>2, <2>3 DEF InLine, NotAfter
  <2>5. a \notin Readers => a \in Workers
    BY DEF Actors
  <2>6. /\ pc'[a] \in {"idle", "done"} \/ (pc'[a] = "fill" /\ a \notin Workers /\ pc[a] = "cache")
        /\ \A b \in Actors \ {a} : pc'[b] = pc[b] /\ payer'[b] = payer[b] /\ got'[b] = got[b]
    BY <1>0, <1>6, <1>12 DEF CacheState, Fill, Goto, TypeOK
  <2>7. pc'[a] \in {"idle", "done"}
    BY <1>0, <2>5, <2>6 DEF ReadersFind
  <2>8. ReadersFind'
    BY <1>0, <2>1, <2>6, <2>7 DEF ReadersFind, Actors
  <2>9. ASSUME NEW b \in Actors \ {a}
        PROVE  Carries(b)'
    <3>1. CASE pc[b] = "store"
      <4>1. payer[b] \in Payers /\ NotAfter(cache'[payer[b]], got[b])
        BY <1>0, <2>1, <2>3, <3>1 DEF Carries, KnowsWhat
      <4>2. ASSUME NEW d \in Actors, pc'[d] \in {"cache", "fill"}, payer'[d] = payer[b]
            PROVE  NotAfter(got'[d], got[b])
        BY <1>0, <2>6, <2>7, <3>1, <4>2 DEF Carries
      <4>. QED BY <1>0, <2>1, <2>6, <3>1, <4>1, <4>2 DEF Carries, NotAfter
    <3>2. CASE pc[b] # "store"
      BY <1>0, <2>1, <2>6, <3>2 DEF Carries, NotAfter
    <3>. QED BY <3>1, <3>2
  <2>10. Carries(a)'
    BY <2>7 DEF Carries
  <2>. QED BY <2>4, <2>8, <2>9, <2>10
<1>13. ASSUME NEW a \in Actors, Die(a)
       PROVE  Goal
  BY <1>7, <1>13 DEF Die
<1>14. ASSUME NEW h \in Readers, NEW p \in Payers, ReadCache(h, p)
       PROVE  Goal
  <2>1. /\ h \in Actors /\ UNCHANGED <<clerk, row, cache, got>>
        /\ pc' = [pc EXCEPT ![h] = "done"] \/ pc' = [pc EXCEPT ![h] = "readRow"]
        /\ payer' = payer \/ payer' = [payer EXCEPT ![h] = p]
    BY <1>14 DEF ReadCache, Goto, Actors
  <2>2. \A b \in Actors \ {h} : payer'[b] = payer[b] /\ got'[b] = got[b]
    BY <1>0, <2>1 DEF TypeOK
  <2>. QED BY <1>5, <2>1, <2>2
<1>15. ASSUME NEW q \in Payers, CreateRow(q)
       PROVE  Goal
  <2>1. /\ q \notin DOMAIN row /\ DOMAIN row' = DOMAIN row \cup {q} /\ row'[q] = Never
        /\ \A p \in DOMAIN row : row'[p] = row[p]
        /\ UNCHANGED <<clerk, cache, pc, payer, got>>
    BY <1>15 DEF CreateRow, actorVars
  <2>2. Readers = {}
    BY <1>0, <2>1 DEF ReadersFind
  <2>3. ReadersFind'
    BY <2>2 DEF ReadersFind
  <2>4. \A v : NotAfter(v, Never) /\ NotAfter(Never, v)
    BY NullAssumption DEF NotAfter
  <2>5. ASSUME NEW p \in Payers
        PROVE  InLine(p)'
    BY <1>0, <2>1, <2>4 DEF InLine, NotAfter
  <2>6. ASSUME NEW a \in Actors
        PROVE  Carries(a)'
    BY <1>0, <2>1, <2>4 DEF Carries, NotAfter
  <2>. QED BY <2>3, <2>5, <2>6
<1>16. ASSUME NEW p \in Payers, Expire(p)
       PROVE  Goal
  <2>1. UNCHANGED <<clerk, row, pc, payer, got>> /\ cache' = [cache EXCEPT ![p] = None]
    BY <1>16 DEF Expire, actorVars
  <2>2. \A q \in Payers : cache'[q] = cache[q] \/ cache'[q] \notin Nat
    BY <1>0, <2>1, NullAssumption DEF TypeOK
  <2>3. ASSUME NEW q \in Payers
        PROVE  InLine(q)'
    BY <1>0, <2>1, <2>2 DEF InLine, NotAfter
  <2>4. ASSUME NEW a \in Actors
        PROVE  Carries(a)'
    BY <1>0, <2>1, <2>2 DEF Carries, NotAfter, KnowsWhat
  <2>. QED BY <1>0, <2>1, <2>3, <2>4 DEF ReadersFind
<1>. QED
  BY <1>2, <1>3, <1>4, <1>8, <1>9, <1>10, <1>11, <1>12, <1>13, <1>14, <1>15, <1>16
  DEF Next, Process, Deliver, Retire, Stall, vars, actorVars

\* As long as one worker alone reconciles, the cache never shows a version that the row
\* has not reached: any number of readers may fill it meanwhile, requests to Clerk may
\* fail, and any step may die.
THEOREM CacheFollowsRow ==
  ASSUME OneReconciler
  PROVE  Spec => []CacheNotAheadOfRow
<1>1. OrderInv => CacheNotAheadOfRow
  BY DEF CacheNotAheadOfRow, OrderInv, TypeInv, TypeOK, InLine
<1>. QED BY <1>1, InitOrder, NextOrder, PTL DEF Spec

-----------------------------------------------------------------------------
(* How a change is lost.                                                   *)

\* What the queue knows of an event: jobs are of events that were sent, and a job that
\* is over without marker ran out of attempts or stalled too often.
JobStands(e) ==
  /\ e \notin sent => job[e] = "none" /\ e \notin marked
  /\ e \notin marked /\ job[e] \notin {"waiting", "active"} /\ (e \in acked \/ job[e] # "none") =>
       attempts[e] = MaxAttempts \/ stalls[e] > MaxStalled

QueueInv ==
  /\ TypeInv
  /\ \A e \in Events : JobStands(e)
  /\ \A w \in Workers : ev[w] \in sent \cup {None}

LEMMA InitQueue == Init => QueueInv
<1>. SUFFICES ASSUME Init
              PROVE  (\A e \in Events : JobStands(e)) /\ \A w \in Workers : ev[w] \in sent \cup {None}
  BY InitTypes DEF QueueInv
<1>1. \A e \in Events : JobStands(e)
  BY DEF Init, JobStands
<1>. QED BY <1>1 DEF Init, Actors

\* An attempt that ends leaves the jobs of unmarked events waiting or used up.
LEMMA FinishJobs ==
  ASSUME QueueInv, NEW w \in Workers, NEW state \in {"waiting", "completed", "failed"},
         Finish(w, state), ev[w] \in Events,
         marked \subseteq marked', marked' \subseteq marked \cup {ev[w]},
         \/ ev[w] \in marked'
         \/ state = "waiting"
         \/ state = "failed" /\ ~(attempts[ev[w]] + 1 < MaxAttempts)
  PROVE  (\A e \in Events : JobStands(e)') /\ \A v \in Workers : ev'[v] \in sent' \cup {None}
<1>0. /\ TypeOK /\ AttemptsLeft /\ OwnersWork /\ None \notin Workers
      /\ \A e \in Events : JobStands(e)
  BY NullAssumption DEF QueueInv, TypeInv
<1>1. /\ UNCHANGED <<sent, acked, stalls>>
      /\ \/ /\ owner[ev[w]] = w
            /\ job' = [job EXCEPT ![ev[w]] = state]
            /\ attempts' = [attempts EXCEPT ![ev[w]] = @ + 1]
         \/ UNCHANGED <<job, attempts>>
      /\ ev' = [ev EXCEPT ![w] = None]
  BY DEF Finish
<1>2. ev[w] \in sent
  BY NullAssumption DEF QueueInv
<1>3. ASSUME NEW e \in Events
      PROVE  JobStands(e)'
  <2>1. CASE job'[e] = job[e] /\ attempts'[e] = attempts[e]
    BY <1>0, <1>1, <1>2, <2>1 DEF JobStands
  <2>2. CASE e = ev[w] /\ owner[e] = w /\ job'[e] = state /\ attempts'[e] = attempts[e] + 1
    <3>1. job[e] = "active" /\ attempts[e] < MaxAttempts /\ attempts[e] \in Nat
      BY <1>0, <2>2, NumbersAssumption DEF OwnersWork, AttemptsLeft, TypeOK
    <3>2. state = "failed" /\ ~(attempts[e] + 1 < MaxAttempts) => attempts[e] + 1 = MaxAttempts
      BY <3>1, NumbersAssumption
    <3>. QED BY <1>1, <1>2, <2>2, <3>2 DEF JobStands
  <2>3. \/ job'[e] = job[e] /\ attempts'[e] = attempts[e]
        \/ e = ev[w] /\ owner[e] = w /\ job'[e] = state /\ attempts'[e] = attempts[e] + 1
    BY <1>0, <1>1 DEF TypeOK
  <2>. QED BY <2>1, <2>2, <2>3
<1>4. \A v \in Workers : ev'[v] \in sent' \cup {None}
  BY <1>0, <1>1 DEF QueueInv, TypeOK, Actors
<1>. QED BY <1>3, <1>4

LEMMA NextQueue == QueueInv /\ [Next]_vars => QueueInv'
<1>. SUFFICES ASSUME QueueInv, [Next]_vars
              PROVE  /\ \A e \in Events : JobStands(e)'
                     /\ \A w \in Workers : ev'[w] \in sent' \cup {None}
  BY NextTypes DEF QueueInv
<1>0. /\ MarkerTypes /\ MarkerHasOneHolder /\ TypeOK /\ OwnersWork
      /\ \A e \in Events : JobStands(e)
      /\ \A w \in Workers : ev[w] \in sent \cup {None}
  BY DEF QueueInv, TypeInv, MarkerInv
<1>. DEFINE Goal == /\ \A e \in Events : JobStands(e)'
                    /\ \A w \in Workers : ev'[w] \in sent' \cup {None}
\* The queue rests.
<1>1. CASE UNCHANGED <<queueVars, marked>> /\ \A w \in Workers : ev'[w] = ev[w]
  BY <1>0, <1>1 DEF queueVars, JobStands
<1>2. ASSUME NEW c \in Events, Change(c)
      PROVE  Goal
  <2>1. sent' = sent \cup {c} /\ UNCHANGED <<acked, job, attempts, stalls, marked, ev>>
    BY <1>2 DEF Change, actorVars
  <2>. QED BY <1>0, <2>1 DEF JobStands
<1>3. ASSUME NEW d \in Events, Deliver(d)
      PROVE  Goal
  <2>1. /\ d \in sent /\ (acked' = acked \cup {d} \/ acked' = acked)
        /\ UNCHANGED <<sent, marked, ev>>
    BY <1>3 DEF Deliver, actorVars
  <2>2. \A e \in Events :
          \/ /\ job'[e] = job[e] /\ attempts'[e] = attempts[e] /\ stalls'[e] = stalls[e]
             /\ e = d => job[e] # "none"
          \/ e = d /\ job'[e] = "waiting"
    BY <1>0, <1>3 DEF Deliver, TypeOK
  <2>. QED BY <1>0, <2>1, <2>2 DEF JobStands
<1>4. ASSUME NEW r \in Events, Retire(r)
      PROVE  Goal
  <2>1. /\ job[r] \in {"completed", "failed"} /\ job' = [job EXCEPT ![r] = "none"]
        /\ UNCHANGED <<sent, acked, attempts, stalls, marked, ev>>
    BY <1>4 DEF Retire, actorVars
  <2>. QED BY <1>0, <2>1 DEF JobStands, TypeOK
<1>5. ASSUME NEW s \in Events, Stall(s)
      PROVE  Goal
  <2>1. /\ job[s] = "active" /\ stalls[s] \in Nat
        /\ job'[s] = "waiting" \/ (job'[s] = "failed" /\ ~(stalls[s] < MaxStalled))
        /\ stalls'[s] = stalls[s] + 1
        /\ \A e \in Events : e # s => job'[e] = job[e] /\ stalls'[e] = stalls[e]
        /\ UNCHANGED <<sent, acked, attempts, marked, ev>>
    BY <1>0, <1>5, NumbersAssumption DEF Stall, actorVars, TypeOK
  <2>2. s \in sent
    BY <1>0, <2>1 DEF JobStands
  <2>3. ASSUME NEW e \in Events
        PROVE  JobStands(e)'
    <3>1. CASE e = s
      BY <2>1, <2>2, <3>1, NumbersAssumption DEF JobStands
    <3>2. CASE e # s
      BY <1>0, <2>1, <3>2 DEF JobStands
    <3>. QED BY <3>1, <3>2
  <2>. QED BY <1>0, <2>1, <2>3
<1>6. ASSUME NEW w \in Workers, NEW t \in Events, Take(w, t)
      PROVE  Goal
  <2>1. /\ job[t] = "waiting" /\ job' = [job EXCEPT ![t] = "active"]
        /\ ev' = [ev EXCEPT ![w] = t]
        /\ UNCHANGED <<sent, acked, attempts, stalls, marked>>
    BY <1>6 DEF Take
  <2>2. t \in sent
    BY <1>0, <2>1 DEF JobStands
  <2>3. \A e \in Events : JobStands(e)'
    BY <1>0, <2>1, <2>2 DEF JobStands, TypeOK
  <2>4. \A v \in Workers : ev'[v] \in sent' \cup {None}
    BY <1>0, <2>1, <2>2 DEF TypeOK, Actors
  <2>. QED BY <2>3, <2>4
<1>7. ASSUME NEW w \in Workers, Mark(w)
      PROVE  Goal
  <2>1. ev[w] \in Events /\ ev[w] \in sent /\ marked' = marked \cup {ev[w]}
    BY <1>0, <1>7, NullAssumption DEF Mark, MarkerTypes
  <2>2. CASE Finish(w, "completed")
    BY <1>0, <2>1, <2>2, FinishJobs
  <2>3. CASE UNCHANGED <<queueVars, ev>>
    BY <1>0, <2>1, <2>3 DEF queueVars, JobStands
  <2>. QED BY <1>7, <2>2, <2>3 DEF Mark
\* An attempt that dies is repeated, or was the last.
<1>8. ASSUME NEW w \in Workers, Throw(w), pc[w] # "idle", UNCHANGED marked
      PROVE  Goal
  <2>1. ev[w] \in Events
    BY <1>0, <1>8 DEF OwnersWork, MarkerTypes
  <2>2. CASE attempts[ev[w]] + 1 < MaxAttempts
    BY <1>8, <2>1, <2>2, FinishJobs DEF Throw
  <2>3. CASE ~(attempts[ev[w]] + 1 < MaxAttempts)
    BY <1>8, <2>1, <2>3, FinishJobs DEF Throw
  <2>. QED BY <2>2, <2>3
<1>9. ASSUME NEW a \in Actors, Store(a) \/ Die(a)
      PROVE  Goal
  <2>1. UNCHANGED marked /\ pc[a] # "idle"
    BY <1>9, StepsAssumption DEF Store, Die
  <2>2. UNCHANGED <<queueVars, ev>> \/ (a \in Workers /\ Throw(a))
    BY <1>9 DEF Store, Die
  <2>. QED BY <1>1, <1>8, <2>1, <2>2
<1>10. ASSUME NEW a \in Actors, CacheState(a)
       PROVE  Goal
  <2>1. pc[a] = "cache" /\ UNCHANGED marked
    BY <1>10 DEF CacheState
  <2>2. CASE UNCHANGED <<queueVars, ev>>
    BY <1>1, <2>1, <2>2
  <2>3. CASE a \in Workers /\ Finish(a, "completed")
    <3>1. ev[a] \in Events /\ ev[a] \in marked
      BY <1>0, <2>1, <2>3 DEF MarkerTypes, MarkerHasOneHolder, Reconciling
    <3>. QED BY <2>1, <2>3, <3>1, FinishJobs
  <2>. QED BY <1>10, <2>2, <2>3 DEF CacheState
<1>11. ASSUME NEW a \in Actors, Fetch(a)
       PROVE  Goal
  BY <1>1, <1>11 DEF Fetch
<1>12. ASSUME NEW h \in Readers, ReadRow(h) \/ Fill(h) \/ \E p \in Payers : ReadCache(h, p)
       PROVE  Goal
  BY <1>1, <1>12 DEF ReadRow, Fill, ReadCache
<1>13. ASSUME NEW p \in Payers, CreateRow(p) \/ Expire(p)
       PROVE  Goal
  BY <1>1, <1>13 DEF CreateRow, Expire, actorVars
<1>14. CASE UNCHANGED vars
  BY <1>1, <1>14 DEF vars, actorVars
<1>. QED
  BY <1>2, <1>3, <1>4, <1>5, <1>6, <1>7, <1>9, <1>10, <1>11, <1>12, <1>13, <1>14
  DEF Next, Process

\* A version is what Clerk has, or an event of its payer has no marker yet.
Shows(p, v) ==
  v = clerk[p] \/ \E e \in sent \ marked : PayerOf[e] = p

\* The row shows it, or a worker is on its way, or the last reconcile was lost.
Reaches(p) ==
  p \in DOMAIN row /\ row[p] # Never =>
    \/ Shows(p, row[p])
    \/ \E w \in Workers : payer[w] = p /\ pc[w] \in {"fetch", "store"}
    \/ p \in missed

\* What a worker stores will do, unless Clerk told it nothing.
StoresShown(w) == pc[w] = "store" => got[w] = NoPlan \/ Shows(payer[w], got[w])

ReachInv ==
  /\ OrderInv /\ QueueInv
  /\ \A p \in Payers : Reaches(p)
  /\ \A w \in Workers : StoresShown(w)

LEMMA InitReach == OneReconciler /\ Init => ReachInv
<1>. SUFFICES ASSUME OneReconciler, Init
              PROVE  (\A p \in Payers : Reaches(p)) /\ \A w \in Workers : StoresShown(w)
  BY InitOrder, InitQueue DEF ReachInv
<1>1. \A p \in Payers : Reaches(p)
  BY DEF Init, Reaches, Shows
<1>2. \A w \in Workers : StoresShown(w)
  BY DEF Init, StoresShown, Actors
<1>. QED BY <1>1, <1>2

\* A step that leaves Clerk, markers and rows, and in which no worker comes or goes
\* between marker and row.
LEMMA NobodySets ==
  ASSUME ReachInv, UNCHANGED <<clerk, row, marked, missed>>, sent \subseteq sent',
         \A w \in Workers :
           \/ pc'[w] = pc[w] /\ payer'[w] = payer[w] /\ got'[w] = got[w]
           \/ pc[w] \notin {"fetch", "store"} /\ pc'[w] \notin {"fetch", "store"}
  PROVE  (\A p \in Payers : Reaches(p)') /\ \A w \in Workers : StoresShown(w)'
<1>1. ASSUME NEW p, NEW v, Shows(p, v)
      PROVE  v = clerk'[p] \/ \E e \in sent' \ marked' : PayerOf[e] = p
  BY <1>1 DEF Shows
<1>2. ASSUME NEW p \in Payers
      PROVE  Reaches(p)'
  BY <1>1 DEF ReachInv, Reaches, Shows
<1>3. ASSUME NEW w \in Workers
      PROVE  StoresShown(w)'
  BY <1>1 DEF ReachInv, StoresShown, Shows
<1>. QED BY <1>2, <1>3

LEMMA NextReach == OneReconciler /\ ReachInv /\ [Next]_vars => ReachInv'
<1>. SUFFICES ASSUME OneReconciler, ReachInv, [Next]_vars
              PROVE  (\A p \in Payers : Reaches(p)') /\ \A w \in Workers : StoresShown(w)'
  BY NextOrder, NextQueue DEF ReachInv
<1>0. /\ MarkerTypes /\ MarkerHasOneHolder /\ TypeOK /\ TypeOK'
      /\ ReadersFind /\ \A a \in Actors : KnowsWhat(a)
      /\ \A e \in Events : JobStands(e)
      /\ \A w \in Workers : ev[w] \in sent \cup {None}
      /\ \A p \in Payers : Reaches(p)
      /\ \A w \in Workers : StoresShown(w)
      /\ \A v, w \in Workers : v = w
  BY NextTypes DEF ReachInv, OrderInv, QueueInv, TypeInv, MarkerInv, OneReconciler
<1>. DEFINE Goal == (\A p \in Payers : Reaches(p)') /\ \A w \in Workers : StoresShown(w)'
<1>1. Workers \subseteq Actors /\ Readers \subseteq Actors /\ Workers \cap Readers = {}
  BY ActorsAssumption DEF Actors
<1>2. CASE UNCHANGED <<clerk, row, marked, missed, sent, pc, payer, got>>
  BY <1>2, NobodySets
\* A change at Clerk comes with an event.
<1>3. ASSUME NEW c \in Events, Change(c)
      PROVE  Goal
  <2>1. /\ c \in sent' \ marked' /\ sent \subseteq sent'
        /\ UNCHANGED <<marked, missed, row, pc, payer, got>>
    BY <1>0, <1>3 DEF Change, actorVars, JobStands
  <2>2. \A p \in Payers : PayerOf[c] = p \/ clerk'[p] = clerk[p]
    BY <1>3 DEF Change
  <2>3. \A p \in Payers : \A v : Shows(p, v) => v = clerk'[p] \/ \E e \in sent' \ marked' : PayerOf[e] = p
    BY <2>1, <2>2 DEF Shows
  <2>4. \A p \in Payers : Reaches(p)'
    BY <1>0, <2>1, <2>3 DEF Reaches, Shows
  <2>5. \A w \in Workers : pc[w] = "store" => payer[w] \in Payers
    BY <1>0, <1>1 DEF KnowsWhat
  <2>6. \A w \in Workers : StoresShown(w)'
    BY <1>0, <2>1, <2>3, <2>5 DEF StoresShown, Shows
  <2>. QED BY <2>4, <2>6
<1>4. ASSUME NEW w \in Workers, NEW state, Finish(w, state), pc[w] \notin {"fetch", "store"},
             UNCHANGED <<clerk, row, marked, missed>>
      PROVE  Goal
  <2>1. UNCHANGED sent
    BY <1>4 DEF Finish
  <2>2. \A v \in Workers : pc'[v] = "idle" /\ pc[v] \notin {"fetch", "store"}
    BY <1>0, <1>1, <1>4 DEF Finish, TypeOK
  <2>. QED BY <1>4, <2>1, <2>2, NobodySets
<1>5. ASSUME NEW w \in Workers, NEW t \in Events, Take(w, t)
      PROVE  Goal
  <2>1. /\ pc[w] = "idle" /\ pc' = [pc EXCEPT ![w] = "mark"]
        /\ UNCHANGED <<clerk, row, marked, missed, sent, payer, got>>
    BY <1>5 DEF Take, Goto
  <2>2. \A v \in Workers : pc'[v] = "mark" /\ pc[v] = "idle"
    BY <1>0, <1>1, <2>1 DEF TypeOK
  <2>. QED BY <2>1, <2>2, NobodySets
\* The marker takes the event, and the worker takes over for its payer.
<1>6. ASSUME NEW w \in Workers, Mark(w)
      PROVE  Goal
  <2>1. /\ pc[w] = "mark" /\ marked' = marked \cup {ev[w]} /\ UNCHANGED <<clerk, row, missed>>
        /\ ev[w] \in Events
    BY <1>0, <1>6 DEF Mark, MarkerTypes
  <2>2. CASE ev[w] \in marked
    <3>1. Finish(w, "completed") /\ UNCHANGED marked
      BY <1>6, <2>1, <2>2 DEF Mark
    <3>. QED BY <1>4, <2>1, <3>1
  <2>3. CASE ev[w] \notin marked /\ PayerOf[ev[w]] = None
    <3>1. Finish(w, "completed")
      BY <1>6, <2>3 DEF Mark
    <3>2. UNCHANGED sent /\ pc'[w] = "idle"
      BY <1>0, <1>1, <3>1 DEF Finish, TypeOK
    <3>3. \A p \in Payers : p # None
      BY NullAssumption
    <3>4. \A p \in Payers : Reaches(p)'
      BY <1>0, <2>1, <2>3, <3>2, <3>3 DEF Reaches, Shows
    <3>. QED BY <1>0, <3>2, <3>4 DEF StoresShown
  <2>4. CASE ev[w] \notin marked /\ PayerOf[ev[w]] # None
    <3>1. /\ pc' = [pc EXCEPT ![w] = "fetch"]
          /\ payer' = [payer EXCEPT ![w] = PayerOf[ev[w]]] /\ UNCHANGED sent
      BY <1>6, <2>4 DEF Mark, Goto, queueVars
    <3>2. pc'[w] = "fetch" /\ payer'[w] = PayerOf[ev[w]]
      BY <1>0, <1>1, <3>1 DEF TypeOK
    <3>3. ASSUME NEW p \in Payers
          PROVE  Reaches(p)'
      <4>1. CASE p = PayerOf[ev[w]]
        BY <3>2, <4>1 DEF Reaches
      <4>2. CASE p # PayerOf[ev[w]]
        BY <1>0, <2>1, <3>1, <4>2 DEF Reaches, Shows
      <4>. QED BY <4>1, <4>2
    <3>4. \A v \in Workers : StoresShown(v)'
      BY <1>0, <3>2 DEF StoresShown
    <3>. QED BY <3>3, <3>4
  <2>. QED BY <2>2, <2>3, <2>4
<1>7. ASSUME NEW a \in Actors, Fetch(a)
      PROVE  Goal
  <2>1. /\ a \in Workers /\ pc[a] = "fetch"
        /\ \/ got' = [got EXCEPT ![a] = clerk[payer[a]]]
           \/ got' = [got EXCEPT ![a] = NoPlan]
        /\ pc' = [pc EXCEPT ![a] = "store"]
        /\ UNCHANGED <<clerk, sent, marked, missed, row, payer>>
    BY <1>0, <1>7 DEF Fetch, Goto, ReadersFind, queueVars, Actors
  <2>2. pc'[a] = "store" /\ (got'[a] = clerk'[payer'[a]] \/ got'[a] = NoPlan)
    BY <1>0, <2>1 DEF TypeOK
  <2>3. \A p \in Payers : Reaches(p)'
    BY <1>0, <2>1, <2>2 DEF Reaches, Shows
  <2>4. \A w \in Workers : StoresShown(w)'
    BY <1>0, <2>1, <2>2 DEF StoresShown, Shows
  <2>. QED BY <2>3, <2>4
<1>8. ASSUME NEW a \in Actors, Store(a)
      PROVE  Goal
  <2>1. /\ a \in Workers /\ pc[a] = "store" /\ payer[a] \in Payers
        /\ got[a] = NoPlan \/ Shows(payer[a], got[a])
        /\ UNCHANGED <<clerk, marked>>
    BY <1>0, <1>8 DEF Store, ReadersFind, KnowsWhat, StoresShown, Actors
  <2>2. \A p \in Payers : p \in DOMAIN row /\ row[p] # Never /\ p # payer[a] =>
          Shows(p, row[p]) \/ p \in missed
    BY <1>0, <2>1 DEF Reaches
  <2>3. CASE payer[a] \in DOMAIN row \cup Orgs
    <3>1. /\ row' = [p \in DOMAIN row \cup {payer[a]} |->
                       IF p = payer[a] THEN got[a] ELSE row[p]]
          /\ pc' = [pc EXCEPT ![a] = "cache"] /\ UNCHANGED sent
          /\ \A p \in missed : p # payer[a] => p \in missed'
          /\ got[a] = NoPlan => payer[a] \in missed'
      BY <1>8, <2>3 DEF Store, Told, Goto, queueVars
    <3>2. /\ DOMAIN row' = DOMAIN row \cup {payer[a]} /\ row'[payer[a]] = got[a]
          /\ \A p \in DOMAIN row : p # payer[a] => row'[p] = row[p]
      BY <3>1
    <3>3. \A p \in Payers : Reaches(p)'
      BY <2>1, <2>2, <3>1, <3>2 DEF Reaches, Shows
    <3>4. pc'[a] = "cache"
      BY <1>0, <3>1 DEF TypeOK
    <3>5. \A w \in Workers : StoresShown(w)'
      BY <1>0, <2>1, <3>4 DEF StoresShown
    <3>. QED BY <3>3, <3>5
  <2>4. CASE payer[a] \notin DOMAIN row \cup Orgs
    <3>1. Throw(a) /\ UNCHANGED row /\ missed' = missed \cup {payer[a]}
      BY <1>8, <2>1, <2>4 DEF Store, Miss
    <3>2. UNCHANGED sent /\ pc'[a] = "idle"
      BY <1>0, <3>1 DEF Throw, Finish, TypeOK
    <3>3. \A p \in Payers : Reaches(p)'
      BY <2>1, <2>2, <2>4, <3>1, <3>2 DEF Reaches, Shows
    <3>4. \A w \in Workers : StoresShown(w)'
      BY <1>0, <2>1, <3>2 DEF StoresShown
    <3>. QED BY <3>3, <3>4
  <2>. QED BY <2>3, <2>4
<1>9. ASSUME NEW a \in Actors, CacheState(a)
      PROVE  Goal
  <2>1. a \in Workers /\ pc[a] = "cache" /\ UNCHANGED <<clerk, marked, missed, row>>
    BY <1>0, <1>9 DEF CacheState, ReadersFind, Actors
  <2>. QED BY <1>4, <1>9, <2>1 DEF CacheState
\* A worker that dies on its way to the row leaves its payer behind.
<1>10. ASSUME NEW a \in Actors, Die(a)
       PROVE  Goal
  <2>1. UNCHANGED <<clerk, marked, row>> /\ Miss(a)
    BY <1>10 DEF Die
  <2>2. CASE a \in Workers /\ pc[a] \notin {"fetch", "store"}
    BY <1>4, <1>10, <2>1, <2>2 DEF Die, Throw, Miss
  <2>3. CASE a \in Workers /\ pc[a] \in {"fetch", "store"}
    <3>1. Throw(a) /\ missed' = missed \cup {payer[a]}
      BY <1>10, <2>1, <2>3 DEF Die, Miss
    <3>2. UNCHANGED sent /\ pc'[a] = "idle"
      BY <1>0, <1>1, <3>1 DEF Throw, Finish, TypeOK
    <3>3. \A p \in Payers : Reaches(p)'
      BY <1>0, <2>1, <2>3, <3>1, <3>2 DEF Reaches, Shows
    <3>4. \A w \in Workers : StoresShown(w)'
      BY <1>0, <2>3, <3>2 DEF StoresShown
    <3>. QED BY <3>3, <3>4
  <2>4. CASE a \notin Workers
    <3>1. /\ pc' = [pc EXCEPT ![a] = "failed"]
          /\ UNCHANGED <<sent, payer, got, missed>>
      BY <1>10, <2>1, <2>4 DEF Die, Goto, Miss, queueVars
    <3>2. \A w \in Workers : pc'[w] = pc[w]
      BY <1>0, <1>1, <2>4, <3>1 DEF TypeOK
    <3>. QED BY <2>1, <3>1, <3>2, NobodySets
  <2>. QED BY <2>2, <2>3, <2>4
<1>11. ASSUME NEW h \in Readers, ReadRow(h) \/ Fill(h) \/ \E p \in Payers : ReadCache(h, p)
       PROVE  Goal
  <2>1. UNCHANGED <<clerk, sent, marked, missed, row>>
    BY <1>11 DEF ReadRow, Fill, ReadCache, queueVars
  <2>2. \A a \in Actors \ {h} : pc'[a] = pc[a] /\ payer'[a] = payer[a] /\ got'[a] = got[a]
    BY <1>0, <1>11 DEF ReadRow, Fill, ReadCache, Goto, TypeOK
  <2>. QED BY <1>1, <2>1, <2>2, NobodySets
<1>12. ASSUME NEW q \in Payers, CreateRow(q)
       PROVE  Goal
  <2>1. /\ DOMAIN row' = DOMAIN row \cup {q} /\ row'[q] = Never
        /\ \A p \in DOMAIN row : p # q => row'[p] = row[p]
        /\ UNCHANGED <<clerk, sent, marked, missed, pc, payer, got>>
    BY <1>12 DEF CreateRow, queueVars, actorVars
  <2>2. \A p \in Payers : Reaches(p)'
    BY <1>0, <2>1 DEF Reaches, Shows
  <2>3. \A w \in Workers : StoresShown(w)'
    BY <1>0, <2>1 DEF StoresShown, Shows
  <2>. QED BY <2>2, <2>3
<1>13. ASSUME NEW e \in Events, Deliver(e) \/ Retire(e) \/ Stall(e)
       PROVE  Goal
  BY <1>2, <1>13 DEF Deliver, Retire, Stall, actorVars
<1>14. ASSUME NEW p \in Payers, Expire(p)
       PROVE  Goal
  BY <1>2, <1>14 DEF Expire, queueVars, actorVars
<1>15. CASE UNCHANGED vars
  BY <1>2, <1>15 DEF vars, queueVars, actorVars
<1>. QED
  BY <1>3, <1>5, <1>6, <1>7, <1>8, <1>9, <1>10, <1>11, <1>12, <1>13, <1>14, <1>15
  DEF Next, Process

\* A change at Clerk is lost in two ways only.  While one worker alone reconciles, a
\* synced row shows what Clerk has, or an event of its payer is still ahead, or a worker
\* is on its way, or the queue gave an event of his up before its marker, or his last
\* reconcile failed behind the marker: whatever is posted again, retired, retried or
\* stalls, and whichever step dies.
THEOREM NoChangeLost ==
  ASSUME OneReconciler
  PROVE  Spec => []ChangesReachRow
<1>1. ReachInv => ChangesReachRow
  <2>. SUFFICES ASSUME ReachInv, NEW p \in DOMAIN row, row[p] # Never
                PROVE  \/ row[p] = clerk[p]
                       \/ \E e \in Events : PayerOf[e] = p /\ (Ahead(e) \/ Exhausted(e))
                       \/ \E w \in Workers : payer[w] = p /\ pc[w] \in {"fetch", "store"}
                       \/ p \in missed
    BY DEF ChangesReachRow
  <2>1. /\ TypeOK /\ OwnersWork /\ MarkerHasOneHolder /\ Reaches(p)
        /\ \A e \in Events : JobStands(e)
    BY DEF ReachInv, OrderInv, QueueInv, TypeInv, MarkerInv, TypeOK
  <2>2. ASSUME NEW e \in sent \ marked
        PROVE  e \in Events /\ (Ahead(e) \/ Exhausted(e))
    <3>1. e \in Events
      BY <2>1 DEF TypeOK
    <3>2. CASE e \in acked /\ job[e] = "active"
      <4>1. PICK w \in Workers : owner[e] = w /\ ev[w] = e /\ pc[w] # "idle"
        BY <2>1, <3>1, <3>2 DEF OwnersWork
      <4>2. pc[w] = "mark"
        BY <2>1, <4>1 DEF OwnersWork, MarkerHasOneHolder, Reconciling
      <4>. QED BY <3>1, <3>2, <4>1, <4>2 DEF Ahead
    <3>3. CASE e \notin acked \/ job[e] = "waiting"
      BY <3>1, <3>3 DEF Ahead
    <3>4. CASE e \in acked /\ job[e] \notin {"waiting", "active"}
      BY <2>1, <3>1, <3>4 DEF JobStands, Exhausted
    <3>. QED BY <3>2, <3>3, <3>4
  <2>. QED BY <2>1, <2>2 DEF Reaches, Shows
<1>. QED BY <1>1, InitReach, NextReach, PTL DEF Spec

=============================================================================
