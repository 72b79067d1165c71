------------------------- MODULE Entitlement_proofs -------------------------
(***************************************************************************)
(* Entitlement for any number of calls and any life of a cache entry: an   *)
(* answer is one that the plans justified within the life of an entry.     *)
(***************************************************************************)
EXTENDS Entitlement, TLAPS

\* What a row holds, and what a reconcile has still to cache, is recent.
RowsRecent ==
  \A p \in Plans :
    <<row[p], now>> \in past[p] /\ \A s \in writing[p] : <<s, now>> \in past[p]

\* An entry holds what its row held when the entry, at the latest, was written.
EntriesRecent ==
  \A p \in Plans : cache[p] # None =>
    \E s \in Stored, t \in 0..MaxTime :
      <<s, t>> \in past[p] /\ cache[p].state = JSON(s) /\ cache[p].expires <= t + CacheTtl

\* A call holds recent states, of plans it asks for.
HoldsRecent(c) ==
  \A p \in Plans : held[c][p] # None =>
    p \in Reachable(asked[c]) /\ \E s \in Recent(p) : held[c][p] \in {s, JSON(s)}

\* What a call has still to read.
InOrder(c) ==
  /\ pc[c] = "idle" => \A p \in Plans : held[c][p] = None
  /\ pc[c] # "idle" => left[c] \subseteq Reachable(asked[c])
  /\ pc[c] # "idle" => \A p \in Reachable(asked[c]) \ left[c] : held[c][p] # None
  /\ pc[c] \in {"cache", "row", "fill"} => left[c] # {}
  /\ pc[c] = "fill" => <<held[c][Reading(c)], now>> \in past[Reading(c)]
  /\ pc[c] = "check" /\ route[c] = "status" => left[c] = {}

Inv ==
  /\ TypeOK /\ RowsRecent /\ EntriesRecent
  /\ \A c \in Calls : HoldsRecent(c) /\ InOrder(c)

-----------------------------------------------------------------------------

\* JSON changes the form of a state, and not what it grants.
LEMMA JSONState ==
  ASSUME NEW s \in Stored
  PROVE  /\ s # None /\ JSON(s) \in States("text") /\ JSON(s) # None
         /\ \A p \in Plans : Grants(p, JSON(s)) <=> Grants(p, s)
<1>1. s \in States("date")
  BY StoredAssumption
<1>2. JSON(s) \in States("text")
  BY <1>1 DEF States, JSON
<1>3. JSON(s).plan = s.plan /\ JSON(s).status = s.status /\ JSON(s).periodEnd = s.periodEnd
  BY <1>1 DEF States, JSON
<1>. QED BY <1>1, <1>2, <1>3, StoredAssumption DEF Grants, IsEntitled

LEMMA ReadingLeft ==
  ASSUME TypeOK, NEW c \in Calls, left[c] # {}
  PROVE  Reading(c) \in left[c] /\ Reading(c) \in Plans
  BY DEF TypeOK, Reading, Plans

LEMMA ReachablePlans ==
  ASSUME TypeOK, NEW plans \in SUBSET Plans
  PROVE  Reachable(plans) \in SUBSET Plans /\ Reachable(plans) \subseteq plans
  BY DEF Reachable

LEMMA InitInv == Init => Inv
<1>. SUFFICES ASSUME Init PROVE Inv
  OBVIOUS
<1>1. TypeOK
  BY TimeAssumption DEF Init, TypeOK
<1>2. RowsRecent /\ EntriesRecent
  BY DEF Init, RowsRecent, EntriesRecent
<1>3. \A c \in Calls : HoldsRecent(c) /\ InOrder(c)
  BY DEF Init, HoldsRecent, InOrder
<1>. QED BY <1>1, <1>2, <1>3 DEF Inv

\* A write to the cache of what the row held in this tick.
LEMMA SetEffect ==
  ASSUME TypeOK, EntriesRecent, NEW p \in Plans, NEW s \in Stored, <<s, now>> \in past[p],
         Set(p, s), UNCHANGED past
  PROVE  /\ cache' \in [Plans -> [state : States("text"), expires : Nat] \cup {None}]
         /\ EntriesRecent'
<1>. DEFINE entry == [state |-> JSON(s), expires |-> now + CacheTtl]
<1>1. now \in 0..MaxTime /\ now + CacheTtl \in Nat /\ now + CacheTtl <= now + CacheTtl
  BY TimeAssumption DEF TypeOK
<1>2. entry \in [state : States("text"), expires : Nat]
  BY <1>1, JSONState
<1>3. entry.state = JSON(s) /\ entry.expires = now + CacheTtl
  OBVIOUS
<1>4. cache' = cache \/ cache' = [cache EXCEPT ![p] = entry]
  BY DEF Set
<1>. HIDE DEF entry
<1>5. CASE cache' = cache
  BY <1>5 DEF TypeOK, EntriesRecent
<1>6. CASE cache' = [cache EXCEPT ![p] = entry]
  <2>1. cache' \in [Plans -> [state : States("text"), expires : Nat] \cup {None}]
    BY <1>2, <1>6 DEF TypeOK
  <2>2. cache'[p] = entry /\ \A r \in Plans \ {p} : cache'[r] = cache[r]
    BY <1>6 DEF TypeOK
  <2>. QED BY <1>1, <1>3, <2>1, <2>2 DEF EntriesRecent
<1>. QED BY <1>4, <1>5, <1>6

\* A state of the plan that a call was reading, and recent.
LEMMA GotEffect ==
  ASSUME Inv, NEW c \in Calls, pc[c] \in {"cache", "row", "fill"},
         NEW s, s \in Stored \cup States("text"), s # None,
         \E e \in past[Reading(c)] : s \in {e[1], JSON(e[1])},
         Got(c, s), UNCHANGED <<now, past, member, route, asked>>
  PROVE  /\ held' \in [Calls -> [Plans -> Stored \cup States("text") \cup {None}]]
         /\ left' \in [Calls -> SUBSET Plans]
         /\ pc' \in [Calls -> {"idle", "cache", "row", "fill", "check"}]
         /\ \A d \in Calls : HoldsRecent(d)' /\ InOrder(d)'
<1>0. /\ TypeOK /\ left[c] # {} /\ pc[c] # "idle"
      /\ \A d \in Calls : HoldsRecent(d) /\ InOrder(d)
  BY DEF Inv, InOrder
<1>1. PICK p \in Plans : p = Reading(c) /\ p \in left[c]
  BY <1>0, ReadingLeft
<1>2. held' \in [Calls -> [Plans -> Stored \cup States("text") \cup {None}]]
      /\ left' \in [Calls -> SUBSET Plans]
  BY <1>0, <1>1 DEF Got, TypeOK
<1>3. pc' \in [Calls -> {"idle", "cache", "row", "fill", "check"}]
  BY <1>0 DEF Got, TypeOK
<1>4. \A d \in Calls \ {c} : held'[d] = held[d] /\ left'[d] = left[d] /\ pc'[d] = pc[d]
  BY <1>0 DEF Got, TypeOK
<1>5. held'[c][p] = s /\ \A r \in Plans \ {p} : held'[c][r] = held[c][r]
  BY <1>0, <1>1 DEF Got, TypeOK
<1>6. /\ left'[c] = left[c] \ {p}
      /\ pc'[c] = IF route[c] = "status" /\ left'[c] # {} THEN "cache" ELSE "check"
  BY <1>0, <1>1 DEF Got, TypeOK
<1>7. \A d \in Calls \ {c} : HoldsRecent(d)' /\ InOrder(d)'
  BY <1>0, <1>4 DEF HoldsRecent, InOrder, Reading, Recent, Reachable
<1>8. HoldsRecent(c)'
  <2>1. \A r \in Plans : Recent(r)' = Recent(r) /\ Reachable(asked[c])' = Reachable(asked[c])
    BY DEF Recent, Reachable
  <2>2. p \in Reachable(asked[c])
    BY <1>0, <1>1 DEF InOrder
  <2>3. \E t \in Recent(p) : s \in {t, JSON(t)}
    BY <1>1 DEF Recent
  <2>. QED BY <1>0, <1>5, <2>1, <2>2, <2>3 DEF HoldsRecent
<1>9. InOrder(c)'
  <2>1. Reachable(asked[c])' = Reachable(asked[c]) /\ Reachable(asked[c]) \subseteq Plans
    BY <1>0, ReachablePlans DEF Reachable, TypeOK
  <2>2. left[c] \subseteq Reachable(asked[c])
        /\ \A r \in Reachable(asked[c]) \ left[c] : held[c][r] # None
    BY <1>0 DEF InOrder
  <2>3. left'[c] \subseteq Reachable(asked[c])
        /\ \A r \in Reachable(asked[c]) \ left'[c] : held'[c][r] # None
    BY <1>5, <1>6, <2>1, <2>2
  <2>. QED BY <1>6, <2>1, <2>3 DEF InOrder
<1>. QED BY <1>2, <1>3, <1>7, <1>8, <1>9

LEMMA NextInv == Inv /\ [Next]_vars => Inv'
<1>. SUFFICES ASSUME Inv, [Next]_vars
              PROVE  Inv'
  OBVIOUS
<1>0. /\ TypeOK /\ RowsRecent /\ EntriesRecent
      /\ \A c \in Calls : HoldsRecent(c) /\ InOrder(c)
  BY DEF Inv
<1>1. CASE UNCHANGED vars
  BY <1>0, <1>1 DEF vars, callVars, Inv, TypeOK, RowsRecent, EntriesRecent, HoldsRecent, InOrder,
                    Reading, Recent, Reachable
<1>2. ASSUME NEW p \in Plans, NEW s \in Stored, StoreRow(p, s)
      PROVE  Inv'
  <2>1. TypeOK'
    <3>1. now \in 0..MaxTime /\ changes + 1 \in 0..MaxChanges
      BY <1>0, <1>2, TimeAssumption DEF StoreRow, TypeOK
    <3>. QED BY <1>0, <1>2, <3>1 DEF StoreRow, TypeOK, callVars
  <2>2. /\ \A r \in Plans : past[r] \subseteq past'[r]
        /\ row'[p] = s /\ writing'[p] = writing[p] \cup {s} /\ <<s, now>> \in past'[p]
        /\ \A r \in Plans \ {p} : row'[r] = row[r] /\ writing'[r] = writing[r]
        /\ UNCHANGED <<now, cache, member, route, asked, pc, left, held>>
    BY <1>0, <1>2 DEF StoreRow, TypeOK, callVars
  <2>3. RowsRecent'
    BY <1>0, <2>2 DEF RowsRecent
  <2>4. EntriesRecent'
    BY <1>0, <2>2 DEF EntriesRecent
  <2>5. \A c \in Calls : HoldsRecent(c)'
    <3>1. \A r \in Plans : Recent(r) \subseteq Recent(r)'
      BY <2>2 DEF Recent
    <3>2. \A c \in Calls : Reachable(asked[c])' = Reachable(asked[c])
      BY <2>2 DEF Reachable
    <3>. QED BY <1>0, <2>2, <3>1, <3>2 DEF HoldsRecent
  <2>6. \A c \in Calls : InOrder(c)'
    <3>. SUFFICES ASSUME NEW c \in Calls PROVE InOrder(c)'
      OBVIOUS
    <3>1. pc[c] = "fill" => Reading(c) \in Plans /\ <<held[c][Reading(c)], now>> \in past[Reading(c)]
      BY <1>0, ReadingLeft DEF InOrder
    <3>2. Reading(c)' = Reading(c) /\ Reachable(asked[c])' = Reachable(asked[c])
      BY <2>2 DEF Reading, Reachable
    <3>. QED BY <1>0, <2>2, <3>1, <3>2 DEF InOrder
  <2>. QED BY <2>1, <2>3, <2>4, <2>5, <2>6 DEF Inv
<1>3. ASSUME NEW p \in Plans, NEW s \in Stored, StoreCache(p, s)
      PROVE  Inv'
  <2>1. <<s, now>> \in past[p] /\ UNCHANGED past
    BY <1>0, <1>3 DEF StoreCache, RowsRecent
  <2>2. /\ cache' \in [Plans -> [state : States("text"), expires : Nat] \cup {None}]
        /\ EntriesRecent'
    BY <1>0, <1>3, <2>1, SetEffect DEF StoreCache
  <2>3. TypeOK'
    BY <1>0, <1>3, <2>2 DEF StoreCache, TypeOK, callVars
  <2>4. RowsRecent'
    BY <1>0, <1>3 DEF StoreCache, RowsRecent, TypeOK
  <2>5. \A c \in Calls : HoldsRecent(c)' /\ InOrder(c)'
    BY <1>0, <1>3 DEF StoreCache, callVars, HoldsRecent, InOrder, Reading, Recent, Reachable
  <2>. QED BY <2>2, <2>3, <2>4, <2>5 DEF Inv
<1>4. CASE Tick
  <2>1. now \in Nat /\ now' = now + 1 /\ now' \in 0..MaxTime
    BY <1>0, <1>4, TimeAssumption DEF Tick, TypeOK
  <2>2. past' \in [Plans -> SUBSET (Stored \X (0..MaxTime))]
    <3>1. \A p \in Plans : {e \in past[p] : now' < e[2] + CacheTtl} \in SUBSET (Stored \X (0..MaxTime))
      BY <1>0 DEF TypeOK
    <3>2. \A p \in Plans : <<row[p], now'>> \in Stored \X (0..MaxTime)
      BY <1>0, <2>1 DEF TypeOK
    <3>. QED BY <1>4, <3>1, <3>2 DEF Tick
  <2>3. cache' \in [Plans -> [state : States("text"), expires : Nat] \cup {None}]
    BY <1>0, <1>4 DEF Tick, TypeOK
  <2>4. TypeOK'
    BY <1>0, <1>4, <2>1, <2>2, <2>3 DEF Tick, TypeOK, callVars
  <2>5. RowsRecent'
    BY <1>4 DEF Tick, RowsRecent
  <2>6. EntriesRecent'
    <3>. SUFFICES ASSUME NEW p \in Plans, cache'[p] # None
                  PROVE  \E s \in Stored, t \in 0..MaxTime :
                           /\ <<s, t>> \in past'[p] /\ cache'[p].state = JSON(s)
                           /\ cache'[p].expires <= t + CacheTtl
      BY DEF EntriesRecent
    <3>1. cache'[p] = cache[p] /\ cache[p] # None /\ ~(cache[p].expires <= now')
      BY <1>4 DEF Tick
    <3>2. PICK s \in Stored, t \in 0..MaxTime :
            <<s, t>> \in past[p] /\ cache[p].state = JSON(s) /\ cache[p].expires <= t + CacheTtl
      BY <1>0, <3>1 DEF EntriesRecent
    <3>3. cache[p].expires \in Nat
      BY <1>0, <3>1 DEF TypeOK
    <3>4. now' < t + CacheTtl
      BY <2>1, <3>1, <3>2, <3>3, TimeAssumption
    <3>5. <<s, t>> \in past'[p]
      BY <1>4, <3>2, <3>4 DEF Tick
    <3>. QED BY <3>1, <3>2, <3>5
  <2>7. \A c \in Calls : HoldsRecent(c)' /\ InOrder(c)'
    <3>. SUFFICES ASSUME NEW c \in Calls PROVE HoldsRecent(c)' /\ InOrder(c)'
      OBVIOUS
    <3>1. pc'[c] = "idle" /\ \A p \in Plans : held'[c][p] = None
      BY <1>0, <1>4 DEF Tick, callVars, InOrder
    <3>. QED BY <3>1 DEF HoldsRecent, InOrder
  <2>. QED BY <2>4, <2>5, <2>6, <2>7 DEF Inv
<1>5. ASSUME NEW c \in Calls, NEW r \in {"guard", "status"}, NEW plans \in SUBSET Plans,
             Ask(c, r, plans)
      PROVE  Inv'
  <2>1. Reachable(plans) \in SUBSET Plans
    BY <1>0, ReachablePlans
  <2>2. /\ route'[c] = r /\ asked'[c] = plans /\ left'[c] = Reachable(plans)
        /\ pc'[c] = IF left'[c] = {} THEN "check" ELSE "cache"
        /\ pc[c] = "idle"
    BY <1>0, <1>5 DEF Ask, TypeOK
  <2>3. pc' \in [Calls -> {"idle", "cache", "row", "fill", "check"}]
    BY <1>0, <1>5 DEF Ask, TypeOK
  <2>4. TypeOK'
    BY <1>0, <1>5, <2>1, <2>3 DEF Ask, TypeOK
  <2>5. RowsRecent' /\ EntriesRecent'
    BY <1>0, <1>5 DEF Ask, RowsRecent, EntriesRecent
  <2>6. \A d \in Calls \ {c} : HoldsRecent(d)' /\ InOrder(d)'
    <3>1. \A d \in Calls \ {c} : /\ route'[d] = route[d] /\ asked'[d] = asked[d]
                                 /\ left'[d] = left[d] /\ pc'[d] = pc[d]
      BY <1>0, <1>5 DEF Ask, TypeOK
    <3>2. UNCHANGED <<now, past, member, held>>
      BY <1>5 DEF Ask
    <3>. QED BY <1>0, <3>1, <3>2 DEF HoldsRecent, InOrder, Reading, Recent, Reachable
  <2>7. \A p \in Plans : held'[c][p] = None
    BY <1>0, <1>5, <2>2 DEF Ask, InOrder
  <2>8. HoldsRecent(c)'
    BY <2>7 DEF HoldsRecent
  <2>9. Reachable(asked[c])' = left'[c]
    BY <1>5, <2>2 DEF Ask, Reachable
  <2>10. InOrder(c)'
    BY <2>2, <2>9 DEF InOrder
  <2>. QED BY <2>4, <2>5, <2>6, <2>8, <2>10 DEF Inv
<1>6. ASSUME NEW c \in Calls, ReadCache(c)
      PROVE  Inv'
  <2>1. UNCHANGED <<now, row, writing, changes, cache, past, member, route, asked>> /\ pc[c] = "cache"
    BY <1>6 DEF ReadCache
  <2>2. RowsRecent' /\ EntriesRecent'
    BY <1>0, <2>1 DEF RowsRecent, EntriesRecent
  <2>3. CASE cache[Reading(c)] # None /\ Got(c, cache[Reading(c)].state)
    <3>1. PICK p \in Plans : p = Reading(c)
      BY <1>0, <2>1, ReadingLeft DEF InOrder
    <3>2. PICK s \in Stored, t \in 0..MaxTime : <<s, t>> \in past[p] /\ cache[p].state = JSON(s)
      BY <1>0, <2>3, <3>1 DEF EntriesRecent
    <3>3. PICK x : x = cache[p].state
      OBVIOUS
    <3>4. x = JSON(s) /\ x \in States("text") /\ x # None
      BY <3>2, <3>3, JSONState
    <3>5. \E e \in past[Reading(c)] : x \in {e[1], JSON(e[1])}
      BY <3>1, <3>2, <3>4
    <3>6. /\ held' \in [Calls -> [Plans -> Stored \cup States("text") \cup {None}]]
          /\ left' \in [Calls -> SUBSET Plans]
          /\ pc' \in [Calls -> {"idle", "cache", "row", "fill", "check"}]
          /\ \A d \in Calls : HoldsRecent(d)' /\ InOrder(d)'
      BY <2>1, <2>3, <3>1, <3>3, <3>4, <3>5, GotEffect
    <3>7. TypeOK'
      BY <1>0, <2>1, <3>6 DEF TypeOK
    <3>. QED BY <2>2, <3>6, <3>7 DEF Inv
  <2>4. CASE pc' = [pc EXCEPT ![c] = "row"] /\ UNCHANGED <<left, held>>
    <3>1. TypeOK'
      BY <1>0, <2>1, <2>4 DEF TypeOK
    <3>2. pc'[c] = "row" /\ \A d \in Calls \ {c} : pc'[d] = pc[d]
      BY <1>0, <2>4 DEF TypeOK
    <3>3. \A d \in Calls : HoldsRecent(d)' /\ InOrder(d)'
      BY <1>0, <2>1, <2>4, <3>2 DEF HoldsRecent, InOrder, Reading, Recent, Reachable
    <3>. QED BY <2>2, <3>1, <3>3 DEF Inv
  <2>. QED BY <1>6, <2>3, <2>4 DEF ReadCache
<1>7. ASSUME NEW c \in Calls, ReadRow(c)
      PROVE  Inv'
  <2>1. UNCHANGED <<now, row, writing, changes, cache, past, member, route, asked, left>> /\ pc[c] = "row"
    BY <1>7 DEF ReadRow
  <2>2. PICK p \in Plans : p = Reading(c) /\ p \in left[c]
    BY <1>0, <2>1, ReadingLeft DEF InOrder
  <2>3. row[p] \in Stored /\ <<row[p], now>> \in past[p]
    BY <1>0 DEF TypeOK, RowsRecent
  <2>4. TypeOK'
    BY <1>0, <1>7, <2>1, <2>2, <2>3 DEF ReadRow, TypeOK
  <2>5. RowsRecent' /\ EntriesRecent'
    BY <1>0, <2>1 DEF RowsRecent, EntriesRecent
  <2>6. /\ held'[c][p] = row[p] /\ \A r \in Plans \ {p} : held'[c][r] = held[c][r]
        /\ pc'[c] = "fill"
        /\ \A d \in Calls \ {c} : held'[d] = held[d] /\ pc'[d] = pc[d]
    BY <1>0, <1>7, <2>2 DEF ReadRow, TypeOK
  <2>7. \A d \in Calls \ {c} : HoldsRecent(d)' /\ InOrder(d)'
    BY <1>0, <2>1, <2>6 DEF HoldsRecent, InOrder, Reading, Recent, Reachable
  <2>8. /\ \A r \in Plans : Recent(r)' = Recent(r)
        /\ Reachable(asked[c])' = Reachable(asked[c]) /\ Reading(c)' = p
    BY <2>1, <2>2 DEF Recent, Reachable, Reading
  <2>9. /\ left[c] \subseteq Reachable(asked[c])
        /\ \A r \in Reachable(asked[c]) \ left[c] : held[c][r] # None
        /\ p \in Reachable(asked[c]) /\ row[p] \in Recent(p)
    <3>1. InOrder(c) /\ pc[c] # "idle"
      BY <1>0, <2>1
    <3>2. /\ left[c] \subseteq Reachable(asked[c])
          /\ \A r \in Reachable(asked[c]) \ left[c] : held[c][r] # None
      BY <3>1, Zenon DEF InOrder
    <3>3. row[p] \in Recent(p)
      BY <2>3 DEF Recent
    <3>. QED BY <2>2, <3>2, <3>3
  <2>10. HoldsRecent(c)'
    <3>1. \E s \in Recent(p) : held'[c][p] \in {s, JSON(s)}
      <4>1. PICK s \in Recent(p) : s = row[p]
        BY <2>9
      <4>. QED BY <2>6, <4>1
    <3>2. \A r \in Plans \ {p} : held'[c][r] # None =>
            r \in Reachable(asked[c]) /\ \E s \in Recent(r) : held'[c][r] \in {s, JSON(s)}
      BY <1>0, <2>6 DEF HoldsRecent
    <3>. QED BY <2>8, <2>9, <3>1, <3>2 DEF HoldsRecent
  <2>11. InOrder(c)'
    <3>1. Reachable(asked[c]) \subseteq Plans
      BY <1>0, ReachablePlans DEF TypeOK
    <3>2. left[c] \subseteq Reachable(asked[c])
          /\ \A r \in Reachable(asked[c]) \ left[c] : held'[c][r] # None
      BY <2>2, <2>6, <2>9, <3>1
    <3>3. <<held'[c][p], now>> \in past[p]
      BY <2>3, <2>6
    <3>4. (<<held[c][Reading(c)], now>> \in past[Reading(c)])'
      BY <2>1, <2>8, <3>3
    <3>5. left'[c] # {} /\ left'[c] = left[c]
      BY <2>1, <2>2
    <3>. QED BY <2>6, <2>8, <3>2, <3>4, <3>5 DEF InOrder
  <2>. QED BY <2>4, <2>5, <2>7, <2>10, <2>11 DEF Inv
<1>8. ASSUME NEW c \in Calls, Fill(c)
      PROVE  Inv'
  <2>1. UNCHANGED <<now, row, writing, changes, past, member, route, asked>> /\ pc[c] = "fill"
    BY <1>8 DEF Fill
  <2>2. PICK p \in Plans : p = Reading(c)
    BY <1>0, <2>1, ReadingLeft DEF InOrder
  <2>3. PICK s : s = held[c][p]
    OBVIOUS
  <2>4. s \in Stored /\ <<s, now>> \in past[p]
    BY <1>0, <2>1, <2>2, <2>3 DEF InOrder, TypeOK
  <2>5. Set(p, s) /\ Got(c, s)
    BY <1>8, <2>2, <2>3 DEF Fill
  <2>6. /\ cache' \in [Plans -> [state : States("text"), expires : Nat] \cup {None}]
        /\ EntriesRecent'
    BY <1>0, <2>1, <2>4, <2>5, SetEffect
  <2>7. s # None /\ \E e \in past[Reading(c)] : s \in {e[1], JSON(e[1])}
    BY <2>2, <2>4, JSONState
  <2>8. /\ held' \in [Calls -> [Plans -> Stored \cup States("text") \cup {None}]]
        /\ left' \in [Calls -> SUBSET Plans]
        /\ pc' \in [Calls -> {"idle", "cache", "row", "fill", "check"}]
        /\ \A d \in Calls : HoldsRecent(d)' /\ InOrder(d)'
    BY <2>1, <2>4, <2>5, <2>7, GotEffect
  <2>9. TypeOK' /\ RowsRecent'
    BY <1>0, <2>1, <2>6, <2>8 DEF TypeOK, RowsRecent
  <2>. QED BY <2>6, <2>8, <2>9 DEF Inv
<1>9. ASSUME NEW c \in Calls, Check(c)
      PROVE  Inv'
  <2>1. UNCHANGED <<now, row, writing, changes, cache, past, member>> /\ pc[c] = "check"
    BY <1>9 DEF Check
  <2>2. RowsRecent' /\ EntriesRecent'
    BY <1>0, <2>1 DEF RowsRecent, EntriesRecent
  <2>3. CASE Verdict(c) = None /\ pc' = [pc EXCEPT ![c] = "cache"] /\ UNCHANGED <<route, asked, left, held>>
    <3>1. TypeOK'
      BY <1>0, <2>1, <2>3 DEF TypeOK
    <3>2. left[c] # {}
      BY <2>3, NoneAssumption DEF Verdict
    <3>3. pc'[c] = "cache" /\ \A d \in Calls \ {c} : pc'[d] = pc[d]
      BY <1>0, <2>3 DEF TypeOK
    <3>4. \A d \in Calls : HoldsRecent(d)' /\ InOrder(d)'
      BY <1>0, <2>1, <2>3, <3>2, <3>3 DEF HoldsRecent, InOrder, Reading, Recent, Reachable
    <3>. QED BY <2>2, <3>1, <3>4 DEF Inv
  <2>4. CASE /\ pc' = [pc EXCEPT ![c] = "idle"]
             /\ route' = [route EXCEPT ![c] = "guard"]
             /\ asked' = [asked EXCEPT ![c] = {}]
             /\ left' = [left EXCEPT ![c] = {}]
             /\ held' = [held EXCEPT ![c] = [p \in Plans |-> None]]
    <3>1. TypeOK'
      BY <1>0, <2>1, <2>4 DEF TypeOK
    <3>2. \A d \in Calls \ {c} : /\ pc'[d] = pc[d] /\ route'[d] = route[d] /\ asked'[d] = asked[d]
                                 /\ left'[d] = left[d] /\ held'[d] = held[d]
      BY <1>0, <2>4 DEF TypeOK
    <3>3. \A d \in Calls \ {c} : HoldsRecent(d)' /\ InOrder(d)'
      BY <1>0, <2>1, <3>2 DEF HoldsRecent, InOrder, Reading, Recent, Reachable
    <3>4. pc'[c] = "idle" /\ \A p \in Plans : held'[c][p] = None
      BY <1>0, <2>4 DEF TypeOK
    <3>5. HoldsRecent(c)' /\ InOrder(c)'
      BY <3>4 DEF HoldsRecent, InOrder
    <3>. QED BY <2>2, <3>1, <3>3, <3>5 DEF Inv
  <2>. QED BY <1>9, <2>3, <2>4 DEF Check
<1>. QED BY <1>1, <1>2, <1>3, <1>4, <1>5, <1>6, <1>7, <1>8, <1>9 DEF Next

LEMMA Invariance == Spec => []Inv
<1>. QED BY InitInv, NextInv, PTL DEF Spec

-----------------------------------------------------------------------------

\* The variables of Entitlement keep their types.
THEOREM TypeCorrect == Spec => []TypeOK
<1>1. Inv => TypeOK
  BY DEF Inv
<1>. QED BY <1>1, Invariance, PTL

\* What a call holds grants as a recent state of the row does.
LEMMA HeldGrants ==
  ASSUME Inv, NEW c \in Calls, NEW p \in Plans, held[c][p] # None
  PROVE  p \in asked[c] /\ \E s \in Recent(p) : Grants(p, held[c][p]) <=> Grants(p, s)
<1>1. TypeOK /\ HoldsRecent(c)
  BY DEF Inv
<1>2. p \in asked[c]
  BY <1>1, ReachablePlans DEF HoldsRecent, TypeOK
<1>3. PICK s \in Recent(p) : held[c][p] \in {s, JSON(s)}
  BY <1>1 DEF HoldsRecent
<1>4. s \in Stored
  BY <1>1 DEF Recent, TypeOK
<1>. QED BY <1>2, <1>3, <1>4, JSONState

\* Nobody is let in, or shown to be entitled, by plans none of which has entitled for
\* longer than an entry of the cache lives.
THEOREM GrantsJustified == Spec => GrantJustified
<1>1. ASSUME Inv, NEW c \in Calls, Answers(c)
      PROVE  /\ Verdict(c) = "shown" =>
                  \A p \in Entitling(c) : \E s \in Recent(p) : Grants(p, s)
             /\ Verdict(c) = "granted" =>
                  asked[c] = {} \/ \E p \in asked[c] : \E s \in Recent(p) : Grants(p, s)
  <2>1. ASSUME NEW p \in Entitling(c)
        PROVE  p \in asked[c] /\ \E s \in Recent(p) : Grants(p, s)
    <3>1. p \in Plans /\ held[c][p] # None /\ Grants(p, held[c][p])
      BY DEF Entitling, Held
    <3>. QED BY <1>1, <3>1, HeldGrants
  <2>2. Verdict(c) = "granted" => asked[c] = {} \/ Entitling(c) # {}
    BY NoneAssumption DEF Verdict
  <2>. QED BY <2>1, <2>2
<1>2. Inv =>
        [\A c \in Calls : Answers(c) =>
           /\ Verdict(c) = "shown" =>
                \A p \in Entitling(c) : \E s \in Recent(p) : Grants(p, s)
           /\ Verdict(c) = "granted" =>
                asked[c] = {} \/ \E p \in asked[c] : \E s \in Recent(p) : Grants(p, s)]_vars
  BY <1>1
<1>. QED BY <1>2, Invariance, PTL DEF GrantJustified

\* Nobody is turned away, or shown not to be entitled, unless each plan asked for
\* failed to entitle within the life of an entry.
THEOREM DenialsJustified == Spec => DenialJustified
<1>1. ASSUME Inv, NEW c \in Calls, Answers(c), Verdict(c) \in {"denied", "shown"},
             NEW p \in Reachable(asked[c]) \ Entitling(c)
      PROVE  \E s \in Recent(p) : ~Grants(p, s)
  <2>1. TypeOK /\ InOrder(c) /\ pc[c] = "check"
    BY <1>1 DEF Inv, Answers
  <2>2. left[c] = {}
    BY <1>1, <2>1, NoneAssumption DEF Verdict, InOrder
  <2>3. p \in Plans /\ held[c][p] # None
    BY <1>1, <2>1, <2>2, ReachablePlans DEF InOrder, TypeOK
  <2>4. ~Grants(p, held[c][p])
    BY <1>1, <2>3 DEF Entitling, Held
  <2>. QED BY <1>1, <2>3, <2>4, HeldGrants
<1>2. Inv =>
        [\A c \in Calls : Answers(c) /\ Verdict(c) \in {"denied", "shown"} =>
           \A p \in Reachable(asked[c]) \ Entitling(c) : \E s \in Recent(p) : ~Grants(p, s)]_vars
  BY <1>1
<1>. QED BY <1>2, Invariance, PTL DEF DenialJustified

=============================================================================
