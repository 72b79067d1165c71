---------------------------- MODULE Entitlement ----------------------------
(***************************************************************************)
(* BillingGuard and GET /billing/status for one caller: a Solo plan in the *)
(* user's row or an Org plan in the row of the caller's organization, each *)
(* read through a cache whose entries live CacheTtl and hold JSON, so that *)
(* a cached periodEnd comes back as text.  BillingSync shows how the rows  *)
(* come to be what they are; here a reconcile is two steps, row and cache, *)
(* and every row has been reconciled before.                               *)
(*                                                                         *)
(* Time: a handler takes less than a tick (Tick waits for all of them).    *)
(* Bounds: MaxTime ends the clock, MaxChanges the reconciles.              *)
(***************************************************************************)
EXTENDS Naturals

CONSTANTS Calls,       \* calls of a guarded route or of GET /billing/status
          Ends,        \* values of billingPeriodEnd
          Stored,      \* the states a reconcile may store
          CacheTtl,    \* BILLING_CACHE_TTL_SECONDS, in ticks
          MaxTime, MaxChanges,
          None

ASSUME TimeAssumption ==
  CacheTtl \in Nat \ {0} /\ Ends \subseteq Nat /\ MaxTime \in Nat /\ MaxChanges \in Nat
ASSUME NoneAssumption ==
  None \notin Nat \cup {"error", "shown", "granted", "denied"}

Plans == {"solo", "org"}

\* BillingState.  form: periodEnd is a Date, or the text JSON made of it.
States(form) ==
  [plan : {None}, status : {None}, periodEnd : {None}, form : {form}]
    \cup [plan : Plans, status : {"active", "canceled"}, periodEnd : Ends \cup {None},
          form : {form}]

\* JSON.parse(JSON.stringify(s))
JSON(s) == [s EXCEPT !.form = "text"]

ASSUME StoredAssumption ==
  Stored \subseteq States("date") /\ None \notin States("date") \cup States("text")

VARIABLES
  now,
  row,       \* row[p]: billing columns of the user ("solo") or the organization ("org")
  writing,   \* writing[p]: states that reconciles have stored and not yet cached
  changes,   \* reconciles so far
  cache,     \* cache[p]: [state, expires], or None
  past,      \* past[p]: <<what the row held, when>> for the last CacheTtl ticks
  member,    \* the snapshot of the caller names an organization
  route,     \* route[c]: a guarded route, or GET /billing/status
  asked,     \* asked[c]: the plans the call looks for
  pc,        \* pc[c]: the call's next step
  left,      \* left[c]: plans still to read
  held       \* held[c][p]: the state read

callVars == <<route, asked, pc, left, held>>
vars == <<now, row, writing, changes, cache, past, member, callVars>>

TypeOK ==
  /\ now \in 0..MaxTime
  /\ row \in [Plans -> Stored]
  /\ writing \in [Plans -> SUBSET Stored]
  /\ changes \in 0..MaxChanges
  /\ cache \in [Plans -> [state : States("text"), expires : Nat] \cup {None}]
  /\ past \in [Plans -> SUBSET (Stored \X (0..MaxTime))]
  /\ member \in BOOLEAN
  /\ route \in [Calls -> {"guard", "status"}]
  /\ asked \in [Calls -> SUBSET Plans]
  /\ pc \in [Calls -> {"idle", "cache", "row", "fill", "check"}]
  /\ left \in [Calls -> SUBSET Plans]
  /\ held \in [Calls -> [Plans -> Stored \cup States("text") \cup {None}]]

Init ==
  /\ now = 0
  /\ row \in [Plans -> Stored]
  /\ writing = [p \in Plans |-> {}]
  /\ changes = 0
  /\ cache = [p \in Plans |-> None]
  /\ past = [p \in Plans |-> {<<row[p], 0>>}]
  /\ member \in BOOLEAN
  /\ route = [c \in Calls |-> "guard"]
  /\ asked = [c \in Calls |-> {}]
  /\ pc = [c \in Calls |-> "idle"]
  /\ left = [c \in Calls |-> {}]
  /\ held = [c \in Calls |-> [p \in Plans |-> None]]

-----------------------------------------------------------------------------
(* The cache.                                                              *)

\* Fault: the entry is written without its EX.
SetForever(p, s) ==
  \/ cache' = [cache EXCEPT ![p] = [state |-> JSON(s), expires |-> None]]
  \/ UNCHANGED cache

\* CacheService.set, which swallows its errors.
Set(p, s) ==
  \/ cache' = [cache EXCEPT ![p] = [state |-> JSON(s), expires |-> now + CacheTtl]]
  \/ UNCHANGED cache

-----------------------------------------------------------------------------
(* A reconcile changes the row, then the cache.                            *)

StoreRow(p, s) ==
  /\ changes < MaxChanges
  /\ changes' = changes + 1
  /\ row' = [row EXCEPT ![p] = s]
  /\ writing' = [writing EXCEPT ![p] = @ \cup {s}]
  /\ past' = [past EXCEPT ![p] = @ \cup {<<s, now>>}]
  /\ UNCHANGED <<now, cache, member, callVars>>

StoreCache(p, s) ==
  /\ s \in writing[p]
  /\ Set(p, s)
  /\ writing' = [writing EXCEPT ![p] = @ \ {s}]
  /\ UNCHANGED <<now, row, changes, past, member, callVars>>

Tick ==
  /\ now < MaxTime
  /\ \A c \in Calls : pc[c] = "idle"
  /\ \A p \in Plans : writing[p] = {}
  /\ now' = now + 1
  /\ cache' = [p \in Plans |->
                 IF cache[p] # None /\ cache[p].expires <= now' THEN None ELSE cache[p]]
  /\ past' = [p \in Plans |->
                {e \in past[p] : now' < e[2] + CacheTtl} \cup {<<row[p], now'>>}]
  /\ UNCHANGED <<row, writing, changes, member, callVars>>

-----------------------------------------------------------------------------
(* isEntitledFromState.                                                    *)

\* state.periodEnd.getTime() on a text
Throws(s) ==
  s.plan # None /\ s.status # "active" /\ s.periodEnd # None /\ s.form = "text"

IsEntitled(s) ==
  /\ s.plan # None
  /\ s.status = "active" \/ (s.periodEnd # None /\ now < s.periodEnd)

\* The plan is compared first.
Grants(p, s) == s.plan = p /\ IsEntitled(s)

Reachable(plans) == IF member THEN plans ELSE plans \ {"org"}

-----------------------------------------------------------------------------
(* A call.                                                                 *)

Ask(c, r, plans) ==
  /\ pc[c] = "idle"
  /\ r = "status" => plans = Plans
  /\ route' = [route EXCEPT ![c] = r]
  /\ asked' = [asked EXCEPT ![c] = plans]
  /\ left' = [left EXCEPT ![c] = Reachable(plans)]
  /\ pc' = [pc EXCEPT ![c] = IF left'[c] = {} THEN "check" ELSE "cache"]
  /\ UNCHANGED <<now, row, writing, changes, cache, past, member, held>>

\* The user's state is read before the organization's.
Reading(c) == IF "solo" \in left[c] THEN "solo" ELSE "org"

\* The read of Reading(c) has given s; a status call reads all before it checks.
Got(c, s) ==
  /\ held' = [held EXCEPT ![c][Reading(c)] = s]
  /\ left' = [left EXCEPT ![c] = @ \ {Reading(c)}]
  /\ pc' = [pc EXCEPT ![c] =
              IF route[c] = "status" /\ left'[c] # {} THEN "cache" ELSE "check"]

\* Fault: a hit renews the entry.
ReadCacheSliding(c) ==
  /\ pc[c] = "cache"
  /\ LET p == Reading(c) IN
     IF cache[p] # None
     THEN Got(c, cache[p].state) /\ Set(p, cache[p].state)
     ELSE pc' = [pc EXCEPT ![c] = "row"] /\ UNCHANGED <<cache, left, held>>
  /\ UNCHANGED <<now, row, writing, changes, past, member, route, asked>>

\* getOrSet: a hit, or a miss (no entry, or Redis fails).
ReadCache(c) ==
  /\ pc[c] = "cache"
  /\ \/ cache[Reading(c)] # None /\ Got(c, cache[Reading(c)].state)
     \/ pc' = [pc EXCEPT ![c] = "row"] /\ UNCHANGED <<left, held>>
  /\ UNCHANGED <<now, row, writing, changes, cache, past, member, route, asked>>

ReadRow(c) ==
  /\ pc[c] = "row"
  /\ held' = [held EXCEPT ![c][Reading(c)] = row[Reading(c)]]
  /\ pc' = [pc EXCEPT ![c] = "fill"]
  /\ UNCHANGED <<now, row, writing, changes, cache, past, member, route, asked, left>>

Fill(c) ==
  /\ pc[c] = "fill"
  /\ Set(Reading(c), held[c][Reading(c)])
  /\ Got(c, held[c][Reading(c)])
  /\ UNCHANGED <<now, row, writing, changes, past, member, route, asked>>

Held(c) == {p \in Plans : held[c][p] # None}
Entitling(c) == {p \in Held(c) : Grants(p, held[c][p])}

\* Fault: the guard gives up when the first plan it reads does not entitle.
VerdictOfFirst(c) ==
  IF \E p \in Held(c) : held[c][p].plan = p /\ Throws(held[c][p]) THEN "error"
  ELSE IF route[c] = "status" THEN "shown"
  ELSE IF asked[c] = {} \/ Entitling(c) # {} THEN "granted"
  ELSE "denied"

\* The answer; None: read on.
Verdict(c) ==
  IF \E p \in Held(c) : held[c][p].plan = p /\ Throws(held[c][p]) THEN "error"
  ELSE IF route[c] = "status" THEN "shown"
  ELSE IF asked[c] = {} \/ Entitling(c) # {} THEN "granted"
  ELSE IF left[c] = {} THEN "denied"
  ELSE None

Check(c) ==
  /\ pc[c] = "check"
  /\ IF Verdict(c) = None
     THEN pc' = [pc EXCEPT ![c] = "cache"] /\ UNCHANGED <<route, asked, left, held>>
     ELSE /\ pc' = [pc EXCEPT ![c] = "idle"]
          /\ route' = [route EXCEPT ![c] = "guard"]
          /\ asked' = [asked EXCEPT ![c] = {}]
          /\ left' = [left EXCEPT ![c] = {}]
          /\ held' = [held EXCEPT ![c] = [p \in Plans |-> None]]
  /\ UNCHANGED <<now, row, writing, changes, cache, past, member>>

Next ==
  \/ \E p \in Plans : \E s \in Stored : StoreRow(p, s) \/ StoreCache(p, s)
  \/ Tick
  \/ \E c \in Calls :
       \/ \E r \in {"guard", "status"}, plans \in SUBSET Plans : Ask(c, r, plans)
       \/ ReadCache(c) \/ ReadRow(c) \/ Fill(c) \/ Check(c)

Spec == Init /\ [][Next]_vars

-----------------------------------------------------------------------------
(* Properties of the step in which a call is answered with its Verdict.    *)

Answers(c) == pc[c] = "check" /\ Verdict(c) # None /\ pc'[c] = "idle"

\* The states the row of p had in the last CacheTtl ticks.
Recent(p) == {e[1] : e \in past[p]}

\* However the cache and the reconciles interleave, nobody is let in, or told to be
\* entitled, by plans none of which has entitled for longer than an entry lives.
GrantJustified ==
  [][\A c \in Calls : Answers(c) =>
       /\ Verdict(c) = "shown" =>
            \A p \in Entitling(c) : \E s \in Recent(p) : Grants(p, s)
       /\ Verdict(c) = "granted" =>
            asked[c] = {} \/ \E p \in asked[c] : \E s \in Recent(p) : Grants(p, s)]_vars

\* Solo and Org each grant access ("no precedence rules"): a call is turned away, or
\* told not to be entitled, only if each plan it asks for failed to entitle within
\* the life of a cache entry.
DenialJustified ==
  [][\A c \in Calls : Answers(c) /\ Verdict(c) \in {"denied", "shown"} =>
       \A p \in Reachable(asked[c]) \ Entitling(c) : \E s \in Recent(p) : ~Grants(p, s)]_vars

-----------------------------------------------------------------------------
(* What the repository says of entitlement and the code does not keep.     *)

\* billing.service.ts, isEntitledFromState: "a canceled/past_due subscription still
\* grants access until the paid period actually ends".  A plan that has entitled all
\* the while a cache entry lives is enough.
GraceServed ==
  [][\A c \in Calls :
       Answers(c) /\ (\E p \in Reachable(asked[c]) : \A s \in Recent(p) : Grants(p, s))
         => Verdict(c) \in {"granted", "shown"}]_vars

=============================================================================
