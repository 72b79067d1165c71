----------------------- MODULE RequestPipeline_proofs -----------------------
(***************************************************************************)
(* RequestPipeline for any number of requests, users, addresses and routes *)
(* and any limits: the order of the guards makes the limits and the plan   *)
(* check those of the sender.                                              *)
(***************************************************************************)
EXTENDS RequestPipeline, FiniteSetTheorems, TLAPS

\* The auth guard has been passed, as the route asks.
Identified(q) ==
  /\ route[q] \in Routes /\ ip[q] \in Ips
  /\ route[q] \in PublicRoutes => userId[q] = None
  /\ route[q] \notin PublicRoutes => userId[q] = bearer[q] /\ bearer[q] # None

\* How far a request has come tells what has been done to it.
InOrder(q) ==
  /\ stage[q] # "unsent" => route[q] \in Routes /\ ip[q] \in Ips
  /\ stage[q] \in {"unsent", "auth"} => userId[q] = None
  /\ stage[q] \in {"throttle", "billing", "handler"} => Identified(q)
  /\ stage[q] \in {"unsent", "auth", "throttle"} => hit[q] = None
  /\ stage[q] # "done" => status[q] = None

\* A hit is counted under its sender.
HitOfSender(q) ==
  hit[q] # None =>
    /\ stage[q] # "unsent" /\ Identified(q)
    /\ hit[q].key = <<route[q], Tracker(q)>>
    /\ hit[q].at <= now

HitsFinite == IsFiniteSet({q \in Requests : hit[q] # None})

\* The hits of a bucket that count at a time t, and those of the ttl up to t that the
\* limiter let pass.
Counted(k, t) ==
  {q \in Requests : hit[q] # None /\ hit[q].key = k /\ t < hit[q].at + Ttl[k[1]]}

Served(k, t) ==
  {q \in Requests : /\ hit[q] # None /\ hit[q].key = k /\ status[q] # "429"
                    /\ hit[q].at \in (t - Ttl[k[1]] + 1)..t}

BucketsHold == \A k \in Keys, t \in Nat : Cardinality(Served(k, t)) <= Limit[k[1]]

\* A bucket is blocked only from a time when its hits exceeded the limit.
BlocksEarned ==
  \A k \in Keys : blocked[k] = 0 \/
    \E b \in Nat : blocked[k] = b + Ttl[k[1]] /\ Cardinality(Counted(k, b)) > Limit[k[1]]

Inv ==
  /\ TypeOK
  /\ \A q \in Requests : InOrder(q) /\ HitOfSender(q)
  /\ HitsFinite
  /\ BucketsHold
  /\ BlocksEarned

-----------------------------------------------------------------------------

LEMMA Numbers ==
  ASSUME NEW k \in Keys
  PROVE  Limit[k[1]] \in Nat /\ Ttl[k[1]] \in Nat /\ Ttl[k[1]] > 0
<1>1. k[1] \in Routes
  BY DEF Keys
<1>. QED BY <1>1, LimitsAssumption

\* Where each guard sends a request on.
LEMMA PassEffect ==
  ASSUME TypeOK, NEW q \in Requests, Pass(q)
  PROVE  /\ status' = status
         /\ stage[q] = "auth" => stage' = [stage EXCEPT ![q] = "throttle"]
         /\ stage[q] = "throttle" => stage' = [stage EXCEPT ![q] = "billing"]
         /\ stage[q] = "billing" => stage' = [stage EXCEPT ![q] = "handler"]
<1>. DEFINE Numbered(s) == CHOOSE m \in 1..2 : Guards[m] = s
<1>1. Guards[1] = "auth" /\ Guards[2] = "throttle" /\ Guards[3] = "billing"
  BY DEF Guards
<1>2. Numbered("auth") = 1 /\ Numbered("throttle") = 2
  <2>1. \A m \in 1..2 : m = 1 \/ m = 2
    OBVIOUS
  <2>2. "auth" # "throttle"
    OBVIOUS
  <2>3. \A m \in 1..2 : Guards[m] = "auth" <=> m = 1
    BY <1>1, <2>1, <2>2
  <2>4. \A m \in 1..2 : Guards[m] = "throttle" <=> m = 2
    BY <1>1, <2>1, <2>2
  <2>5. 1 \in 1..2 /\ 2 \in 1..2
    OBVIOUS
  <2>6. (CHOOSE m \in 1..2 : Guards[m] = "auth") = 1
    BY <2>3, <2>5
  <2>7. (CHOOSE m \in 1..2 : Guards[m] = "throttle") = 2
    BY <2>4, <2>5
  <2>. QED BY <2>6, <2>7
<1>3. stage' = [stage EXCEPT ![q] = IF stage[q] = "billing" THEN "handler"
                                    ELSE Guards[Numbered(stage[q]) + 1]]
  BY <1>1 DEF Pass
<1>. HIDE DEF Numbered
<1>4. 1 + 1 = 2 /\ 2 + 1 = 3
  OBVIOUS
<1>5. "auth" # "billing" /\ "throttle" # "billing"
  OBVIOUS
<1>6. status' = status
  BY DEF Pass
<1>7. CASE stage[q] = "auth"
  <2>1. stage' = [stage EXCEPT ![q] = Guards[Numbered("auth") + 1]]
    BY <1>3, <1>5, <1>7
  <2>. QED BY <1>1, <1>2, <1>4, <1>6, <1>7, <2>1
<1>8. CASE stage[q] = "throttle"
  <2>1. stage' = [stage EXCEPT ![q] = Guards[Numbered("throttle") + 1]]
    BY <1>3, <1>5, <1>8
  <2>. QED BY <1>1, <1>2, <1>4, <1>6, <1>8, <2>1
<1>9. CASE stage[q] \notin {"auth", "throttle"}
  BY <1>3, <1>6, <1>9
<1>. QED BY <1>7, <1>8, <1>9

\* Requests with hits have one key exactly if they have one route and one sender.
LEMMA SameKey ==
  ASSUME NEW q \in Requests, NEW r \in Requests, Identified(q), Identified(r)
  PROVE  <<route[q], Tracker(q)>> = <<route[r], Tracker(r)>>
           <=> route[r] = route[q] /\ Sender(r) = Sender(q)
  BY DEF Identified, Tracker, Sender

LEMMA SetsFinite ==
  ASSUME HitsFinite, NEW k, NEW t
  PROVE  /\ IsFiniteSet(Counted(k, t)) /\ Cardinality(Counted(k, t)) \in Nat
         /\ IsFiniteSet(Served(k, t)) /\ Cardinality(Served(k, t)) \in Nat
<1>1. Counted(k, t) \in SUBSET {q \in Requests : hit[q] # None}
      /\ Served(k, t) \in SUBSET {q \in Requests : hit[q] # None}
  BY DEF Counted, Served
<1>2. IsFiniteSet(Counted(k, t)) /\ IsFiniteSet(Served(k, t))
  BY <1>1, FS_Subset DEF HitsFinite
<1>. QED BY <1>2, FS_CardinalityType

LEMMA InitInv == Init => Inv
<1>. SUFFICES ASSUME Init PROVE Inv
  OBVIOUS
<1>1. TypeOK
  BY LimitsAssumption DEF Init, TypeOK
<1>2. \A q \in Requests : InOrder(q) /\ HitOfSender(q)
  BY DEF Init, InOrder, HitOfSender
<1>3. {q \in Requests : hit[q] # None} = {}
  BY DEF Init
<1>4. HitsFinite
  BY <1>3, FS_EmptySet DEF HitsFinite
<1>5. BucketsHold
  <2>. SUFFICES ASSUME NEW k \in Keys, NEW t \in Nat
                PROVE  Cardinality(Served(k, t)) <= Limit[k[1]]
    BY DEF BucketsHold
  <2>1. Served(k, t) = {}
    BY <1>3 DEF Served
  <2>. QED BY <2>1, Numbers, FS_EmptySet
<1>6. BlocksEarned
  BY DEF Init, BlocksEarned
<1>. QED BY <1>1, <1>2, <1>4, <1>5, <1>6 DEF Inv

\* A step that counts nothing and takes no refusal back keeps the counts.
LEMMA CountsKept ==
  ASSUME HitsFinite, BucketsHold, BlocksEarned, UNCHANGED <<hit, blocked>>,
         \A q \in Requests : hit[q] # None /\ status[q] = "429" => status'[q] = "429"
  PROVE  HitsFinite' /\ BucketsHold' /\ BlocksEarned'
<1>1. HitsFinite'
  BY DEF HitsFinite
<1>2. BucketsHold'
  <2>. SUFFICES ASSUME NEW k \in Keys, NEW t \in Nat
                PROVE  Cardinality(Served(k, t)') <= Limit[k[1]]
    BY DEF BucketsHold
  <2>1. Served(k, t)' \in SUBSET Served(k, t)
    BY DEF Served
  <2>2. Cardinality(Served(k, t)') <= Cardinality(Served(k, t))
    BY <2>1, SetsFinite, FS_Subset
  <2>3. Cardinality(Served(k, t)') \in Nat
    BY <2>1, SetsFinite, FS_Subset, FS_CardinalityType
  <2>. QED BY <2>2, <2>3, SetsFinite, Numbers DEF BucketsHold
<1>3. BlocksEarned'
  BY DEF BlocksEarned, Counted
<1>. QED BY <1>1, <1>2, <1>3

\* The count of a request in its bucket.
LEMMA HitEffect ==
  ASSUME Inv, NEW q \in Requests, stage[q] = "throttle", NEW k, k = <<route[q], Tracker(q)>>,
         NEW b \in Nat, b = now,
         hit' = [hit EXCEPT ![q] = [key |-> k, at |-> now]]
  PROVE  /\ k \in Keys /\ k[1] = route[q]
         /\ hit' \in [Requests -> [key : Keys, at : 0..MaxTime] \cup {None}]
         /\ hit'[q] # None /\ hit'[q].key = k /\ hit'[q].at = now
         /\ \A r \in Requests \ {q} : hit'[r] = hit[r]
         /\ HitsFinite'
         /\ \A j, t : Counted(j, t) \subseteq Counted(j, t)'
         /\ Counted(k, b)' = Counted(k, b) \cup {q} /\ q \notin Counted(k, b)
<1>1. TypeOK /\ InOrder(q) /\ Identified(q) /\ hit[q] = None /\ HitsFinite
  BY DEF Inv, InOrder
<1>2. k \in Keys /\ k[1] = route[q]
  BY <1>1 DEF Keys, Trackers, Tracker, Identified, TypeOK
<1>3. now \in 0..MaxTime /\ now \in Nat
  BY <1>1, LimitsAssumption DEF TypeOK
<1>4. [key |-> k, at |-> now] # None
  BY <1>2, <1>3, NoneAssumption DEF Keys, Trackers
<1>5. hit' \in [Requests -> [key : Keys, at : 0..MaxTime] \cup {None}]
  BY <1>1, <1>2, <1>3 DEF TypeOK
<1>6. hit'[q] = [key |-> k, at |-> now] /\ \A r \in Requests \ {q} : hit'[r] = hit[r]
  BY <1>1 DEF TypeOK
<1>7. hit'[q] # None /\ hit'[q].key = k /\ hit'[q].at = now
  BY <1>4, <1>6
<1>8. HitsFinite'
  <2>1. {r \in Requests : hit'[r] # None} = {r \in Requests : hit[r] # None} \cup {q}
    BY <1>6, <1>7
  <2>. QED BY <1>1, <2>1, FS_AddElement DEF HitsFinite
<1>9. \A j, t : Counted(j, t) \subseteq Counted(j, t)'
  BY <1>1, <1>6 DEF Counted
<1>10. Counted(k, b)' = Counted(k, b) \cup {q} /\ q \notin Counted(k, b)
  BY <1>1, <1>2, <1>6, <1>7, Numbers DEF Counted
<1>. QED BY <1>2, <1>5, <1>6, <1>7, <1>8, <1>9, <1>10

LEMMA NextInv == Inv /\ [Next]_vars => Inv'
<1>. SUFFICES ASSUME Inv, [Next]_vars
              PROVE  Inv'
  OBVIOUS
<1>0. /\ TypeOK /\ HitsFinite /\ BucketsHold /\ BlocksEarned
      /\ \A q \in Requests : InOrder(q) /\ HitOfSender(q)
  BY DEF Inv
<1>1. CASE Tick \/ UNCHANGED vars
  <2>1. TypeOK' /\ now' >= now
    BY <1>0, <1>1, LimitsAssumption DEF Tick, vars, requestVars, TypeOK
  <2>2. \A q \in Requests : InOrder(q)'
    BY <1>0, <1>1 DEF Tick, vars, requestVars, InOrder, Identified
  <2>3. \A q \in Requests : HitOfSender(q)'
    BY <1>0, <1>1, <2>1, LimitsAssumption
       DEF Tick, vars, requestVars, HitOfSender, Identified, Tracker, TypeOK
  <2>4. UNCHANGED <<hit, blocked, status>>
    BY <1>1 DEF Tick, vars
  <2>. QED BY <1>0, <2>1, <2>2, <2>3, <2>4, CountsKept DEF Inv
<1>2. ASSUME NEW q \in Requests, NEW r \in Routes, NEW u \in Users \cup {None}, NEW i \in Ips,
             Send(q, r, u, i)
      PROVE  Inv'
  <2>1. stage' = [stage EXCEPT ![q] = "auth"] /\ UNCHANGED <<now, entitled, userId, hit, blocked, status>>
    BY <1>2 DEF Send, Guards
  <2>2. TypeOK'
    BY <1>0, <1>2, <2>1 DEF Send, TypeOK
  <2>3. hit[q] = None /\ status[q] = None
    BY <1>0, <1>2 DEF Send, InOrder
  <2>4. \A p \in Requests \ {q} : /\ route'[p] = route[p] /\ bearer'[p] = bearer[p]
                                  /\ ip'[p] = ip[p] /\ stage'[p] = stage[p]
    BY <1>0, <1>2 DEF Send, TypeOK
  <2>5. \A p \in Requests \ {q} : InOrder(p)' /\ HitOfSender(p)'
    BY <1>0, <2>1, <2>4 DEF InOrder, HitOfSender, Identified, Tracker
  <2>6. InOrder(q)' /\ HitOfSender(q)'
    BY <1>0, <1>2, <2>1, <2>3 DEF Send, TypeOK, InOrder, HitOfSender
  <2>. QED BY <1>0, <2>1, <2>2, <2>5, <2>6, CountsKept DEF Inv
<1>3. ASSUME NEW q \in Requests, Authenticate(q)
      PROVE  Inv'
  <2>1. /\ stage[q] = "auth" /\ route[q] \in Routes /\ ip[q] \in Ips /\ userId[q] = None
        /\ hit[q] = None /\ status[q] = None
        /\ UNCHANGED <<now, entitled, route, bearer, ip, hit, blocked>>
    BY <1>0, <1>3 DEF Authenticate, requestVars, InOrder
  <2>2. \/ /\ route[q] \in PublicRoutes /\ UNCHANGED <<userId, status>>
           /\ stage' = [stage EXCEPT ![q] = "throttle"]
        \/ /\ route[q] \notin PublicRoutes /\ bearer[q] # None /\ UNCHANGED status
           /\ userId' = [userId EXCEPT ![q] = bearer[q]]
           /\ stage' = [stage EXCEPT ![q] = "throttle"]
        \/ /\ stage' = [stage EXCEPT ![q] = "done"] /\ UNCHANGED userId
           /\ status' = [status EXCEPT ![q] = "401"]
    BY <1>0, <1>3, <2>1, PassEffect DEF Authenticate, Sessions, Answer
  <2>3. TypeOK'
    BY <1>0, <2>1, <2>2 DEF TypeOK
  <2>4. \A p \in Requests \ {q} : /\ stage'[p] = stage[p] /\ userId'[p] = userId[p]
                                  /\ status'[p] = status[p]
    BY <1>0, <2>2 DEF TypeOK
  <2>5. \A p \in Requests \ {q} : InOrder(p)' /\ HitOfSender(p)'
    BY <1>0, <2>1, <2>4 DEF InOrder, HitOfSender, Identified, Tracker
  <2>6. InOrder(q)' /\ HitOfSender(q)'
    BY <1>0, <2>1, <2>2 DEF TypeOK, InOrder, HitOfSender, Identified
  <2>7. \A p \in Requests : hit[p] # None /\ status[p] = "429" => status'[p] = "429"
    BY <2>1, <2>4
  <2>. QED BY <1>0, <2>1, <2>3, <2>5, <2>6, <2>7, CountsKept DEF Inv
<1>4. ASSUME NEW q \in Requests, CheckPlan(q) \/ Handle(q)
      PROVE  Inv'
  <2>1. /\ stage[q] \in {"billing", "handler"} /\ Identified(q) /\ status[q] = None
        /\ UNCHANGED <<now, entitled, route, bearer, ip, userId, hit, blocked>>
    BY <1>0, <1>4 DEF CheckPlan, Handle, requestVars, InOrder
  <2>2. \/ /\ UNCHANGED status
           /\ stage' = [stage EXCEPT ![q] = "handler"]
        \/ /\ stage' = [stage EXCEPT ![q] = "done"]
           /\ \E code \in {"403", "500", "handler"} : status' = [status EXCEPT ![q] = code]
    BY <1>0, <1>4, PassEffect DEF CheckPlan, Handle, Answer
  <2>3. TypeOK'
    BY <1>0, <2>1, <2>2 DEF TypeOK
  <2>4. \A p \in Requests \ {q} : stage'[p] = stage[p] /\ status'[p] = status[p]
    BY <1>0, <2>2 DEF TypeOK
  <2>5. \A p \in Requests \ {q} : InOrder(p)' /\ HitOfSender(p)'
    BY <1>0, <2>1, <2>4 DEF InOrder, HitOfSender, Identified, Tracker
  <2>6. stage'[q] \in {"handler", "done"} /\ (stage'[q] = "handler" => status'[q] = None)
    BY <1>0, <2>1, <2>2 DEF TypeOK
  <2>7. InOrder(q)' /\ HitOfSender(q)'
    BY <1>0, <2>1, <2>6 DEF InOrder, HitOfSender, Identified, Tracker
  <2>8. \A p \in Requests : hit[p] # None /\ status[p] = "429" => status'[p] = "429"
    BY <2>1, <2>4, NoneAssumption
  <2>. QED BY <1>0, <2>1, <2>3, <2>5, <2>7, <2>8, CountsKept DEF Inv
<1>5. ASSUME NEW q \in Requests, Throttle(q)
      PROVE  Inv'
  <2>1. /\ stage[q] = "throttle" /\ Identified(q) /\ status[q] = None /\ hit[q] = None
        /\ UNCHANGED <<now, entitled, route, bearer, ip, userId>>
    BY <1>0, <1>5 DEF Throttle, requestVars, InOrder
  <2>2. PICK k : k = <<route[q], Tracker(q)>>
    OBVIOUS
  <2>3. PICK b \in Nat : b = now
    BY <1>0, LimitsAssumption DEF TypeOK
  <2>4. \/ /\ stage' = [stage EXCEPT ![q] = "billing"] /\ UNCHANGED status
        \/ /\ stage' = [stage EXCEPT ![q] = "done"] /\ status' = [status EXCEPT ![q] = "429"]
    BY <1>0, <1>5, <2>1, PassEffect DEF Throttle, Answer
  <2>5. /\ stage' \in [Requests -> {"unsent", "auth", "throttle", "billing", "handler", "done"}]
        /\ status' \in [Requests -> {None, "handler", "401", "403", "429", "500"}]
        /\ stage'[q] \in {"billing", "done"} /\ (stage'[q] = "billing" => status'[q] = None)
        /\ \A p \in Requests \ {q} : stage'[p] = stage[p] /\ status'[p] = status[p]
    BY <1>0, <2>1, <2>4 DEF TypeOK
  <2>6. InOrder(q)'
    BY <2>1, <2>5 DEF InOrder, Identified
  <2>7. CASE UNCHANGED <<hit, blocked>>
    <3>1. TypeOK'
      BY <1>0, <2>1, <2>5, <2>7 DEF TypeOK
    <3>2. \A p \in Requests \ {q} : InOrder(p)' /\ HitOfSender(p)'
      BY <1>0, <2>1, <2>5, <2>7 DEF InOrder, HitOfSender, Identified, Tracker
    <3>3. HitOfSender(q)'
      BY <2>1, <2>7 DEF HitOfSender
    <3>4. \A p \in Requests : hit[p] # None /\ status[p] = "429" => status'[p] = "429"
      BY <2>1, <2>5
    <3>. QED BY <1>0, <2>6, <2>7, <3>1, <3>2, <3>3, <3>4, CountsKept DEF Inv
  <2>8. CASE /\ hit' = [hit EXCEPT ![q] = [key |-> k, at |-> now]]
             /\ IF Exceeds(k)
                THEN /\ blocked' = [blocked EXCEPT ![k] = now + Ttl[route[q]]]
                     /\ Answer(q, "429")
                ELSE Pass(q) /\ UNCHANGED blocked
    <3>1. /\ k \in Keys /\ k[1] = route[q]
          /\ hit' \in [Requests -> [key : Keys, at : 0..MaxTime] \cup {None}]
          /\ hit'[q] # None /\ hit'[q].key = k /\ hit'[q].at = now
          /\ \A r \in Requests \ {q} : hit'[r] = hit[r]
          /\ HitsFinite'
          /\ \A j, t : Counted(j, t) \subseteq Counted(j, t)'
          /\ Counted(k, b)' = Counted(k, b) \cup {q} /\ q \notin Counted(k, b)
      BY <2>1, <2>2, <2>3, <2>8, HitEffect
    <3>2. \A j \in Keys : Limit[j[1]] \in Nat /\ Ttl[j[1]] \in Nat /\ Ttl[j[1]] > 0
      BY Numbers
    <3>3. TotalHits(k) = Cardinality(Counted(k, b)) /\ Cardinality(Counted(k, b)) \in Nat
      BY <1>0, <2>3, SetsFinite DEF TotalHits, Counted
    <3>4. Cardinality(Counted(k, b)') = TotalHits(k) + 1
      BY <1>0, <3>1, <3>3, SetsFinite, FS_AddElement
    <3>5. blocked' \in [Keys -> Nat]
      BY <1>0, <2>3, <2>8, <3>1, <3>2 DEF TypeOK
    <3>6. TypeOK'
      BY <1>0, <2>1, <2>5, <3>1, <3>5 DEF TypeOK
    <3>7. \A p \in Requests \ {q} : InOrder(p)' /\ HitOfSender(p)'
      BY <1>0, <2>1, <2>5, <3>1 DEF InOrder, HitOfSender, Identified, Tracker
    <3>8. HitOfSender(q)'
      BY <2>1, <2>2, <2>3, <2>5, <3>1 DEF HitOfSender, Identified, Tracker
    <3>9. BlocksEarned'
      <4>. SUFFICES ASSUME NEW j \in Keys
                    PROVE  blocked'[j] = 0 \/
                             \E t \in Nat : /\ blocked'[j] = t + Ttl[j[1]]
                                           /\ Cardinality(Counted(j, t)') > Limit[j[1]]
        BY DEF BlocksEarned
      <4>1. CASE blocked'[j] = blocked[j]
        <5>1. CASE blocked[j] = 0
          BY <4>1, <5>1
        <5>2. CASE blocked[j] # 0
          <6>1. PICK t \in Nat : /\ blocked[j] = t + Ttl[j[1]]
                                /\ Cardinality(Counted(j, t)) > Limit[j[1]]
            BY <1>0, <5>2 DEF BlocksEarned
          <6>2. Cardinality(Counted(j, t)) <= Cardinality(Counted(j, t)')
                /\ Cardinality(Counted(j, t)') \in Nat
            <7>1. HitsFinite' => IsFiniteSet(Counted(j, t)') /\ Cardinality(Counted(j, t)') \in Nat
              <8>1. Counted(j, t)' \in SUBSET {p \in Requests : hit'[p] # None}
                BY DEF Counted
              <8>. QED BY <8>1, FS_Subset, FS_CardinalityType DEF HitsFinite
            <7>2. Counted(j, t) \in SUBSET Counted(j, t)'
              BY <3>1
            <7>. QED BY <3>1, <7>1, <7>2, FS_Subset
          <6>. QED BY <1>0, <3>2, <4>1, <6>1, <6>2, SetsFinite
        <5>. QED BY <5>1, <5>2
      <4>2. CASE blocked'[j] # blocked[j]
        <5>1. Exceeds(k) /\ j = k /\ blocked'[j] = b + Ttl[k[1]]
          BY <1>0, <2>3, <2>8, <3>1, <4>2 DEF TypeOK
        <5>. QED BY <3>4, <5>1 DEF Exceeds
      <4>. QED BY <4>1, <4>2
    <3>10. BucketsHold'
      <4>. SUFFICES ASSUME NEW j \in Keys, NEW t \in Nat
                    PROVE  Cardinality(Served(j, t)') <= Limit[j[1]]
        BY DEF BucketsHold
      <4>1. CASE q \notin Served(j, t)'
        <5>1. Served(j, t)' \in SUBSET Served(j, t)
          BY <2>1, <2>5, <3>1, <4>1 DEF Served
        <5>2. Cardinality(Served(j, t)') <= Cardinality(Served(j, t))
              /\ Cardinality(Served(j, t)') \in Nat
          BY <1>0, <5>1, SetsFinite, FS_Subset, FS_CardinalityType
        <5>. QED BY <1>0, <3>2, <5>2, SetsFinite DEF BucketsHold
      <4>2. CASE q \in Served(j, t)'
        <5>1. j = k /\ status'[q] # "429" /\ b \in (t - Ttl[k[1]] + 1)..t
          BY <2>3, <3>1, <4>2 DEF Served
        <5>2. ~Exceeds(k)
          BY <1>0, <2>8, <5>1 DEF Answer, TypeOK
        <5>3. Served(j, t)' \in SUBSET Counted(k, b)'
          <6>. SUFFICES ASSUME NEW p \in Requests, hit'[p] # None, hit'[p].key = k,
                               hit'[p].at \in (t - Ttl[k[1]] + 1)..t
                        PROVE  b < hit'[p].at + Ttl[k[1]]
            BY <5>1 DEF Served, Counted
          <6>. QED BY <3>1, <3>2, <5>1
        <5>4. IsFiniteSet(Counted(k, b)')
          BY <1>0, <3>1, SetsFinite, FS_AddElement
        <5>5. Cardinality(Served(j, t)') <= TotalHits(k) + 1
          BY <3>4, <5>3, <5>4, FS_Subset
        <5>6. Cardinality(Served(j, t)') \in Nat
          BY <5>3, <5>4, FS_Subset, FS_CardinalityType
        <5>. QED BY <3>1, <3>2, <3>3, <5>1, <5>2, <5>5, <5>6 DEF Exceeds
      <4>. QED BY <4>1, <4>2
    <3>. QED BY <2>6, <3>1, <3>6, <3>7, <3>8, <3>9, <3>10 DEF Inv
  <2>. QED BY <1>5, <2>2, <2>7, <2>8 DEF Throttle
<1>. QED BY <1>1, <1>2, <1>3, <1>4, <1>5 DEF Next

LEMMA Invariance == Spec => []Inv
<1>. QED BY InitInv, NextInv, PTL DEF Spec

-----------------------------------------------------------------------------

\* The variables of RequestPipeline keep their types.
THEOREM TypeCorrect == Spec => []TypeOK
<1>1. Inv => TypeOK
  BY DEF Inv
<1>. QED BY <1>1, Invariance, PTL

\* In any ttl the limiter lets at most limit requests of one sender through to a route.
THEOREM LimitPerSender == Spec => []LimitHolds
<1>1. Inv => LimitHolds
  <2>. SUFFICES ASSUME Inv, NEW q \in Requests, hit[q] # None
                PROVE  Cardinality({r \in SameSender(q) :
                                     /\ hit[r] # None /\ status[r] # "429"
                                     /\ hit[r].at \in (hit[q].at - Ttl[route[q]] + 1)..hit[q].at})
                         <= Limit[route[q]]
    BY DEF LimitHolds
  <2>. DEFINE S == {r \in SameSender(q) :
                      /\ hit[r] # None /\ status[r] # "429"
                      /\ hit[r].at \in (hit[q].at - Ttl[route[q]] + 1)..hit[q].at}
  <2>1. TypeOK /\ HitsFinite /\ BucketsHold /\ \A r \in Requests : HitOfSender(r)
    BY DEF Inv
  <2>2. PICK k \in Keys, t \in Nat : k = hit[q].key /\ t = hit[q].at
    BY <2>1, LimitsAssumption DEF TypeOK
  <2>3. Identified(q) /\ k = <<route[q], Tracker(q)>> /\ k[1] = route[q]
    BY <2>1, <2>2 DEF HitOfSender
  <2>4. S \in SUBSET Served(k, t)
    <3>. SUFFICES ASSUME NEW r \in S PROVE r \in Served(k, t)
      OBVIOUS
    <3>1. /\ r \in Requests /\ hit[r] # None /\ Identified(r)
          /\ hit[r].key = <<route[r], Tracker(r)>>
          /\ route[r] = route[q] /\ Sender(r) = Sender(q)
      BY <2>1 DEF SameSender, HitOfSender
    <3>2. hit[r].key = k
      BY <2>3, <3>1, SameKey
    <3>. QED BY <2>2, <2>3, <3>1, <3>2 DEF Served
  <2>5. Cardinality(S) <= Cardinality(Served(k, t)) /\ Cardinality(S) \in Nat
    BY <2>1, <2>4, SetsFinite, FS_Subset, FS_CardinalityType
  <2>6. Cardinality(Served(k, t)) <= Limit[route[q]]
    BY <2>1, <2>3 DEF BucketsHold
  <2>7. Limit[route[q]] \in Nat
    BY <2>3, Numbers
  <2>. QED BY <2>1, <2>5, <2>6, <2>7, SetsFinite
<1>. QED BY <1>1, Invariance, PTL

\* A request is refused only if its own sender sent more than limit requests to the
\* route within the time a block can last.
THEOREM RefusalsEarned == Spec => RefusedForOwnHits
<1>1. ASSUME Inv, [Next]_vars, NEW q \in Requests, status[q] = None, status'[q] = "429"
      PROVE  Cardinality({r \in SameSender(q) :
                            hit'[r] # None /\ now < hit'[r].at + 2 * Ttl[route[q]]})
               > Limit[route[q]]
  <2>. DEFINE S == {r \in SameSender(q) : hit'[r] # None /\ now < hit'[r].at + 2 * Ttl[route[q]]}
  <2>1. /\ TypeOK /\ HitsFinite /\ BlocksEarned
        /\ \A r \in Requests : InOrder(r) /\ HitOfSender(r)
    BY <1>1 DEF Inv
  <2>2. Throttle(q)
    <3>1. CASE UNCHANGED status
      BY <1>1, <3>1, NoneAssumption
    <3>2. ASSUME NEW p \in Requests, Throttle(p)
          PROVE  p = q
      <4>1. status' = status \/ status' = [status EXCEPT ![p] = "429"]
        BY <3>2 DEF Throttle, Pass, Answer
      <4>. QED BY <1>1, <2>1, <4>1, NoneAssumption DEF TypeOK
    <3>3. ASSUME NEW p \in Requests, Authenticate(p) \/ CheckPlan(p) \/ Handle(p)
          PROVE  FALSE
      <4>1. \/ status' = status
            \/ \E code \in {"401", "403", "500", "handler"} : status' = [status EXCEPT ![p] = code]
        BY <3>3 DEF Authenticate, CheckPlan, Handle, Pass, Answer
      <4>. QED BY <1>1, <2>1, <4>1, NoneAssumption DEF TypeOK
    <3>. QED BY <1>1, <3>1, <3>2, <3>3 DEF Next, Tick, Send, vars
  <2>3. stage[q] = "throttle" /\ Identified(q) /\ hit[q] = None
    BY <2>1, <2>2 DEF Throttle, InOrder
  <2>4. PICK k : k = <<route[q], Tracker(q)>>
    OBVIOUS
  <2>5. PICK n \in Nat : n = now
    BY <2>1, LimitsAssumption DEF TypeOK
  <2>6. k \in Keys /\ k[1] = route[q]
    BY <2>1, <2>3, <2>4 DEF Keys, Trackers, Tracker, Identified, TypeOK
  <2>7. Limit[k[1]] \in Nat /\ Ttl[k[1]] \in Nat /\ Ttl[k[1]] > 0
    BY <2>6, Numbers
  <2>8. \A r \in Requests : hit[r] # None /\ hit[r].key = k => r \in SameSender(q)
    <3>. SUFFICES ASSUME NEW r \in Requests, hit[r] # None, hit[r].key = k
                  PROVE  r \in SameSender(q)
      OBVIOUS
    <3>1. Identified(r) /\ hit[r].key = <<route[r], Tracker(r)>>
      BY <2>1 DEF HitOfSender
    <3>. QED BY <2>3, <2>4, <3>1, SameKey DEF SameSender
  <2>9. CASE UNCHANGED hit /\ now < blocked[k]
    <3>1. PICK b \in Nat : /\ blocked[k] = b + Ttl[k[1]]
                          /\ Cardinality(Counted(k, b)) > Limit[k[1]]
      BY <2>1, <2>5, <2>6, <2>9 DEF BlocksEarned
    <3>2. Counted(k, b) \in SUBSET S
      <4>. SUFFICES ASSUME NEW r \in Counted(k, b) PROVE r \in S
        OBVIOUS
      <4>1. /\ r \in Requests /\ hit[r] # None /\ hit[r].key = k
            /\ b < hit[r].at + Ttl[k[1]]
        BY DEF Counted
      <4>2. hit[r].at \in Nat
        BY <2>1, <4>1, LimitsAssumption DEF TypeOK
      <4>3. n < hit[r].at + 2 * Ttl[k[1]]
        BY <2>5, <2>7, <2>9, <3>1, <4>1, <4>2
      <4>. QED BY <2>5, <2>6, <2>8, <2>9, <4>1, <4>3
    <3>3. S \in SUBSET {r \in Requests : hit[r] # None}
      BY <2>9 DEF SameSender
    <3>4. IsFiniteSet(S) /\ Cardinality(S) \in Nat
      BY <2>1, <3>3, FS_Subset, FS_CardinalityType DEF HitsFinite
    <3>5. Cardinality(Counted(k, b)) <= Cardinality(S)
      BY <3>2, <3>4, FS_Subset
    <3>. QED BY <2>1, <2>6, <2>7, <3>1, <3>4, <3>5, SetsFinite
  <2>10. CASE /\ hit' = [hit EXCEPT ![q] = [key |-> k, at |-> now]]
              /\ Exceeds(k)
    <3>1. /\ hit'[q] # None /\ hit'[q].at = now
          /\ \A r \in Requests \ {q} : hit'[r] = hit[r]
          /\ HitsFinite'
          /\ Counted(k, n)' = Counted(k, n) \cup {q} /\ q \notin Counted(k, n)
      BY <1>1, <2>3, <2>4, <2>5, <2>10, HitEffect
    <3>2. Counted(k, n) \cup {q} \in SUBSET S
      <4>1. q \in S
        BY <2>5, <2>6, <2>7, <3>1 DEF SameSender
      <4>2. ASSUME NEW r \in Counted(k, n) PROVE r \in S
        <5>1. /\ r \in Requests /\ hit[r] # None /\ hit[r].key = k
              /\ n < hit[r].at + Ttl[k[1]] /\ r # q
          BY <3>1 DEF Counted
        <5>2. hit[r].at \in Nat
          BY <2>1, <5>1, LimitsAssumption DEF TypeOK
        <5>3. n < hit[r].at + 2 * Ttl[k[1]]
          BY <2>7, <5>1, <5>2
        <5>. QED BY <2>5, <2>6, <2>8, <3>1, <5>1, <5>3
      <4>. QED BY <4>1, <4>2
    <3>3. S \in SUBSET {r \in Requests : hit'[r] # None}
      BY DEF SameSender
    <3>4. IsFiniteSet(S) /\ Cardinality(S) \in Nat
      BY <3>1, <3>3, FS_Subset, FS_CardinalityType DEF HitsFinite
    <3>5. Cardinality(Counted(k, n) \cup {q}) <= Cardinality(S)
      BY <3>2, <3>4, FS_Subset
    <3>6. TotalHits(k) = Cardinality(Counted(k, n))
      BY <2>5 DEF TotalHits, Counted
    <3>7. Cardinality(Counted(k, n) \cup {q}) = TotalHits(k) + 1 /\ TotalHits(k) \in Nat
      <4>1. IsFiniteSet(Counted(k, n)) /\ Cardinality(Counted(k, n)) \in Nat
        BY <2>1, SetsFinite
      <4>2. Cardinality(Counted(k, n) \cup {q}) = Cardinality(Counted(k, n)) + 1
        BY <3>1, <4>1, FS_AddElement
      <4>. QED BY <3>6, <4>1, <4>2
    <3>. QED BY <2>6, <2>7, <2>10, <3>4, <3>5, <3>7 DEF Exceeds
  <2>11. \/ UNCHANGED hit /\ now < blocked[k]
         \/ /\ hit' = [hit EXCEPT ![q] = [key |-> k, at |-> now]]
            /\ Exceeds(k)
    <3>1. status' # status
      BY <1>1, NoneAssumption
    <3>. QED BY <2>2, <2>4, <3>1 DEF Throttle, Pass
  <2>. QED BY <2>9, <2>10, <2>11
<1>2. Inv /\ [Next]_vars =>
        [\A q \in Requests : status[q] = None /\ status'[q] = "429" =>
           Cardinality({r \in SameSender(q) :
                          hit'[r] # None /\ now < hit'[r].at + 2 * Ttl[route[q]]})
             > Limit[route[q]]]_vars
  BY <1>1
<1>. QED BY <1>2, Invariance, PTL DEF Spec, RefusedForOwnHits

\* The billing guard decides by the plan of the user whose token the request carries.
THEOREM PlanOfBearer == Spec => PlanDecides
<1>1. ASSUME Inv, [Next]_vars, NEW q \in Requests, stage[q] = "billing", route[q] \in PlanRoutes
      PROVE  /\ status'[q] = "403" => bearer[q] \notin entitled
             /\ stage'[q] \in {"auth", "throttle", "handler"} => bearer[q] \in entitled
  <2>1. TypeOK /\ InOrder(q)
    BY <1>1 DEF Inv
  <2>2. status[q] = None /\ userId[q] = bearer[q] /\ bearer[q] # None
    BY <1>1, <2>1, RoutesAssumption DEF InOrder, Identified
  <2>3. CASE UNCHANGED <<stage, status>>
    BY <1>1, <2>2, <2>3, NoneAssumption
  <2>4. ASSUME NEW p \in Requests,
               \/ \E r \in Routes, u \in Users \cup {None}, i \in Ips : Send(p, r, u, i)
               \/ Authenticate(p) \/ Throttle(p) \/ Handle(p)
        PROVE  UNCHANGED <<stage[q], status[q]>>
    <3>1. p # q
      BY <1>1, <2>4 DEF Send, Authenticate, Throttle, Handle
    <3>2. \/ UNCHANGED status
          \/ \E code : status' = [status EXCEPT ![p] = code]
      BY <2>4 DEF Send, Authenticate, Throttle, Handle, Pass, Answer
    <3>3. \E s : stage' = [stage EXCEPT ![p] = s]
      BY <2>4 DEF Send, Authenticate, Throttle, Handle, Pass, Answer
    <3>. QED BY <2>1, <3>1, <3>2, <3>3 DEF TypeOK
  <2>5. ASSUME NEW p \in Requests \ {q}, CheckPlan(p)
        PROVE  UNCHANGED <<stage[q], status[q]>>
    <3>1. \/ UNCHANGED status
          \/ \E code : status' = [status EXCEPT ![p] = code]
      BY <2>5 DEF CheckPlan, Pass, Answer
    <3>2. \E s : stage' = [stage EXCEPT ![p] = s]
      BY <2>5 DEF CheckPlan, Pass, Answer
    <3>. QED BY <2>1, <3>1, <3>2 DEF TypeOK
  <2>6. CASE CheckPlan(q)
    <3>1. CASE bearer[q] \in entitled
      <4>1. UNCHANGED status \/ status' = [status EXCEPT ![q] = "500"]
        BY <1>1, <2>2, <2>6, <3>1 DEF CheckPlan, Pass, Answer
      <4>2. status'[q] # "403"
        BY <2>1, <2>2, <4>1, NoneAssumption DEF TypeOK
      <4>. QED BY <3>1, <4>2
    <3>2. CASE bearer[q] \notin entitled
      <4>1. stage' = [stage EXCEPT ![q] = "done"]
        BY <1>1, <2>2, <2>6, <3>2 DEF CheckPlan, Answer
      <4>2. stage'[q] = "done"
        BY <2>1, <4>1 DEF TypeOK
      <4>. QED BY <3>2, <4>2
    <3>. QED BY <3>1, <3>2
  <2>7. CASE UNCHANGED <<stage[q], status[q]>>
    BY <1>1, <2>2, <2>7, NoneAssumption
  <2>. QED BY <1>1, <2>3, <2>4, <2>5, <2>6, <2>7 DEF Next, Tick, vars
<1>2. Inv /\ [Next]_vars =>
        [\A q \in Requests : stage[q] = "billing" /\ route[q] \in PlanRoutes =>
           /\ status'[q] = "403" => bearer[q] \notin entitled
           /\ stage'[q] \in {"auth", "throttle", "handler"} => bearer[q] \in entitled]_vars
  BY <1>1
<1>. QED BY <1>2, Invariance, PTL DEF Spec, PlanDecides

=============================================================================
