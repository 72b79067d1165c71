-------------------------- MODULE RequestPipeline --------------------------
(***************************************************************************)
(* What happens to a request before its handler: the global guards, in the *)
(* order of the imports of AppModule, work on one request object and one   *)
(* store of hits.  The auth guard sets userId, the limiter counts the      *)
(* request under a tracker, the billing guard looks userId's plan up, and  *)
(* whatever throws is answered by AllExceptionsFilter.                     *)
(*                                                                         *)
(* The store of @nestjs/throttler, as AppThrottlerGuard configures it: one *)
(* bucket per handler and tracker, a hit counts for ttl, and a bucket with *)
(* more than limit hits is blocked for ttl (blockDuration is ttl).         *)
(*                                                                         *)
(* Bounds: Requests are sent once each, MaxTime ends the clock.            *)
(***************************************************************************)
EXTENDS Integers, Sequences, FiniteSets

CONSTANTS Requests, Users, Ips,
          Routes, PublicRoutes,   \* routes with @Public()
          PlanRoutes,             \* routes with @RequirePlan()
          Limit, Ttl,             \* by route, as its rate limit decorator says
          RateLimitEnabled, MaxTime, None

ASSUME RoutesAssumption ==
  PublicRoutes \subseteq Routes /\ PlanRoutes \subseteq Routes \ PublicRoutes
ASSUME LimitsAssumption ==
  Limit \in [Routes -> Nat] /\ Ttl \in [Routes -> Nat \ {0}] /\ MaxTime \in Nat
ASSUME NoneAssumption ==
  /\ None \notin Users \cup Ips \cup Routes \cup {"handler", "401", "403", "429", "500"}
  /\ None \notin [key : Routes \X (Users \cup Ips), at : Nat]

VARIABLES
  now,
  entitled,     \* users with a plan
  route, bearer, ip,   \* of a request; bearer: whose valid token it carries, or None
  stage,        \* "unsent", the guard it is at, "handler" or "done"
  userId,       \* request.userId, or None
  hit,          \* hit[q]: [key, at] where and when it was counted, or None
  blocked,      \* blocked[k]: until when the bucket is blocked
  status        \* status[q]: the status it was answered with ("handler": the handler's), or None

requestVars == <<route, bearer, ip>>
vars == <<now, entitled, requestVars, stage, userId, hit, blocked, status>>

\* Fault: RateLimitModule before AuthModule.
GuardsThrottleFirst == <<"throttle", "auth", "billing">>

\* Fault: BillingModule before AuthModule.
GuardsBillingFirst == <<"billing", "auth", "throttle">>

\* AuthModule, RateLimitModule, BillingModule
Guards == <<"auth", "throttle", "billing">>

Trackers == Users \cup Ips
Keys == Routes \X Trackers

TypeOK ==
  /\ now \in 0..MaxTime
  /\ entitled \subseteq Users
  /\ route \in [Requests -> Routes \cup {None}]
  /\ bearer \in [Requests -> Users \cup {None}]
  /\ ip \in [Requests -> Ips \cup {None}]
  /\ stage \in [Requests -> {"unsent", "auth", "throttle", "billing", "handler", "done"}]
  /\ userId \in [Requests -> Users \cup {None}]
  /\ hit \in [Requests -> [key : Keys, at : 0..MaxTime] \cup {None}]
  /\ blocked \in [Keys -> Nat]
  /\ status \in [Requests -> {None, "handler", "401", "403", "429", "500"}]

Init ==
  /\ now = 0
  /\ entitled \in SUBSET Users
  /\ route = [q \in Requests |-> None]
  /\ bearer = [q \in Requests |-> None]
  /\ ip = [q \in Requests |-> None]
  /\ stage = [q \in Requests |-> "unsent"]
  /\ userId = [q \in Requests |-> None]
  /\ hit = [q \in Requests |-> None]
  /\ blocked = [k \in Keys |-> 0]
  /\ status = [q \in Requests |-> None]

-----------------------------------------------------------------------------
Tick ==
  /\ now < MaxTime
  /\ now' = now + 1
  /\ UNCHANGED <<entitled, requestVars, stage, userId, hit, blocked, status>>

Send(q, r, u, i) ==
  /\ stage[q] = "unsent"
  /\ route' = [route EXCEPT ![q] = r]
  /\ bearer' = [bearer EXCEPT ![q] = u]
  /\ ip' = [ip EXCEPT ![q] = i]
  /\ stage' = [stage EXCEPT ![q] = Guards[1]]
  /\ UNCHANGED <<now, entitled, userId, hit, blocked, status>>

\* canActivate returned true.
Pass(q) ==
  /\ stage' = [stage EXCEPT ![q] =
       IF @ = Guards[3] THEN "handler"
       ELSE LET n == CHOOSE m \in 1..2 : Guards[m] = @ IN Guards[n + 1]]
  /\ UNCHANGED status

\* Fault: the filter asks whatever was thrown for its status.
AnswerUnmapped(q, code) ==
  /\ stage' = [stage EXCEPT ![q] = "done"]
  /\ status' = [status EXCEPT ![q] = IF code = "500" THEN "undefined" ELSE code]

\* The filter: an HttpException has its status, anything else thrown is a 500.
Answer(q, code) ==
  /\ stage' = [stage EXCEPT ![q] = "done"]
  /\ status' = [status EXCEPT ![q] = code]

\* verifySessionToken gives null for a bad token, and when it fails.
Sessions(q) == {bearer[q], None}

\* ClerkAuthGuard.
Authenticate(q) ==
  /\ stage[q] = "auth"
  /\ \/ route[q] \in PublicRoutes /\ Pass(q) /\ UNCHANGED userId
     \/ \E u \in Sessions(q) \ {None} :
          /\ route[q] \notin PublicRoutes
          /\ userId' = [userId EXCEPT ![q] = u]
          /\ Pass(q)
     \/ /\ route[q] \notin PublicRoutes /\ None \in Sessions(q)
        /\ Answer(q, "401")
        /\ UNCHANGED userId
  /\ UNCHANGED <<now, entitled, requestVars, hit, blocked>>

\* Fault: the address comes first.
TrackerByIp(q) == ip[q]

Tracker(q) == IF userId[q] # None THEN userId[q] ELSE ip[q]

Skip == ~RateLimitEnabled

TotalHits(k) ==
  Cardinality({q \in Requests :
                 hit[q] # None /\ hit[q].key = k /\ now < hit[q].at + Ttl[k[1]]})

\* With one more hit, as the decorator of the route limits them.
Exceeds(k) == TotalHits(k) + 1 > Limit[k[1]]

\* AppThrottlerGuard and the store.
Throttle(q) ==
  /\ stage[q] = "throttle"
  /\ LET k == <<route[q], Tracker(q)>> IN
     \/ Skip /\ Pass(q) /\ UNCHANGED <<hit, blocked>>
     \/ ~Skip /\ now < blocked[k] /\ Answer(q, "429") /\ UNCHANGED <<hit, blocked>>
     \/ /\ ~Skip /\ blocked[k] <= now
        /\ hit' = [hit EXCEPT ![q] = [key |-> k, at |-> now]]
        /\ IF Exceeds(k)
           THEN /\ blocked' = [blocked EXCEPT ![k] = now + Ttl[route[q]]]
                /\ Answer(q, "429")
           ELSE Pass(q) /\ UNCHANGED blocked
  /\ UNCHANGED <<now, entitled, requestVars, userId>>

\* BillingGuard.  isEntitled may throw.
CheckPlan(q) ==
  /\ stage[q] = "billing"
  /\ \/ route[q] \notin PlanRoutes /\ Pass(q)
     \/ route[q] \in PlanRoutes /\ userId[q] \in entitled /\ Pass(q)
     \/ route[q] \in PlanRoutes /\ userId[q] \notin entitled /\ Answer(q, "403")
     \/ route[q] \in PlanRoutes /\ userId[q] # None /\ Answer(q, "500")
  /\ UNCHANGED <<now, entitled, requestVars, userId, hit, blocked>>

\* What the ValidationPipe and the handler make of it.
Handle(q) ==
  /\ stage[q] = "handler"
  /\ Answer(q, "handler")
  /\ UNCHANGED <<now, entitled, requestVars, userId, hit, blocked>>

Next ==
  \/ Tick
  \/ \E q \in Requests :
       \/ \E r \in Routes, u \in Users \cup {None}, i \in Ips : Send(q, r, u, i)
       \/ Authenticate(q) \/ Throttle(q) \/ CheckPlan(q) \/ Handle(q)

Spec == Init /\ [][Next]_vars

-----------------------------------------------------------------------------
(* Properties.                                                             *)

\* Who sent a request, as far as the limiter should know: a user with a session, or
\* on a public route an address.
Sender(q) == IF route[q] \in PublicRoutes THEN <<ip[q]>> ELSE <<bearer[q]>>

SameSender(q) == {r \in Requests : route[r] = route[q] /\ Sender(r) = Sender(q)}

\* app.module.ts, "reordering this silently breaks per-user rate-limit tracking": a
\* request is refused for the hits of its own sender only, however many users share
\* an address.
RefusedForOwnHits ==
  [][\A q \in Requests : status[q] = None /\ status'[q] = "429" =>
       Cardinality({r \in SameSender(q) :
                      hit'[r] # None /\ now < hit'[r].at + 2 * Ttl[route[q]]})
         > Limit[route[q]]]_vars

\* Nobody gets more than limit requests per ttl past the limiter of one route,
\* whatever addresses the requests of a user come from.
LimitHolds ==
  RateLimitEnabled =>
    \A q \in Requests : hit[q] # None =>
      Cardinality({r \in SameSender(q) :
                     /\ hit[r] # None /\ status[r] # "429"
                     /\ hit[r].at \in (hit[q].at - Ttl[route[q]] + 1)..hit[q].at})
        <= Limit[route[q]]

\* app.module.ts, "plan-gating (userId undefined, always denied)": the billing guard
\* turns away only a user without a plan, and lets nobody else pass.
PlanDecides ==
  [][\A q \in Requests : stage[q] = "billing" /\ route[q] \in PlanRoutes =>
       /\ status'[q] = "403" => bearer[q] \notin entitled
       /\ stage'[q] \in {"auth", "throttle", "handler"} => bearer[q] \in entitled]_vars

=============================================================================
