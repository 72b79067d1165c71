---------------------- MODULE OrganizationSnapshot_proofs ----------------------
(***************************************************************************)
(* OrganizationSnapshot implements RecentValue, for any number of users,   *)
(* calls and organizations, any life of an entry, any faults.              *)
(***************************************************************************)
EXTENDS OrganizationSnapshot, TLAPS

\* What the row names now is recent.
RowRecent == \A u \in Users : <<OrgOf(Row(u)), now>> \in past[u]

\* An entry names what the row named when it, at the latest, was written.
EntryRecent ==
  \A u \in Users :
    cache[u] # None =>
      \E t \in 0..MaxTime : <<cache[u].row.org, t>> \in past[u] /\ cache[u].expires <= t + CacheTtl

\* What a call in flight holds.
CallKnows(c) ==
  /\ pc[c] # "idle" => user[c] \in Users
  /\ pc[c] \in {"fetchOrg", "upsert", "cache"} => got[c] \in Profile
  /\ pc[c] \in {"cache", "fill"} => <<OrgOf(got[c]), now>> \in past[user[c]]

Inv == TypeOK /\ RowRecent /\ EntryRecent /\ \A c \in Calls : CallKnows(c)

-----------------------------------------------------------------------------

LEMMA RowType ==
  ASSUME TypeOK, NEW u \in Users
  PROVE  Row(u) \in Profile \cup {None} /\ OrgOf(Row(u)) \in Orgs \cup {None}
  BY DEF TypeOK, Row, OrgOf, Profile

LEMMA OrgOfType ==
  ASSUME NEW row \in Profile \cup {None}
  PROVE  /\ OrgOf(row) \in Orgs \cup {None}
         /\ row \in Profile => OrgOf(row) = row.org
  BY NoneAssumption DEF OrgOf, Profile

LEMMA InitInv == Init => Inv
<1>. SUFFICES ASSUME Init PROVE Inv
  OBVIOUS
<1>1. TypeOK
  BY NumbersAssumption DEF Init, TypeOK
<1>2. RowRecent
  BY DEF Init, RowRecent, Row, OrgOf
<1>3. EntryRecent /\ \A c \in Calls : CallKnows(c)
  BY DEF Init, EntryRecent, CallKnows
<1>. QED BY <1>1, <1>2, <1>3 DEF Inv

\* A write to the cache of what the row named in this tick.
LEMMA SetEffect ==
  ASSUME TypeOK, EntryRecent, NEW u \in Users, NEW row \in Profile \cup {None}, Set(u, row),
         <<OrgOf(row), now>> \in past[u], UNCHANGED past
  PROVE  /\ cache' \in [Users -> [row : Profile, expires : Nat] \cup {None}]
         /\ EntryRecent'
<1>. DEFINE entry == IF row = None THEN None ELSE [row |-> row, expires |-> now + CacheTtl]
<1>1. entry \in [row : Profile, expires : Nat] \cup {None}
  BY NumbersAssumption DEF TypeOK
<1>2. entry # None => entry.row = row /\ row \in Profile /\ entry.expires = now + CacheTtl
  OBVIOUS
<1>3. cache' = cache \/ cache' = [cache EXCEPT ![u] = entry]
  BY DEF Set
<1>4. CASE cache' = cache
  BY <1>4 DEF TypeOK, EntryRecent
<1>5. CASE cache' = [cache EXCEPT ![u] = entry]
  <2>1. cache' \in [Users -> [row : Profile, expires : Nat] \cup {None}]
    BY <1>1, <1>5 DEF TypeOK
  <2>2. cache'[u] = entry /\ \A v \in Users \ {u} : cache'[v] = cache[v]
    BY <1>5 DEF TypeOK
  <2>3. entry # None => <<entry.row.org, now>> \in past[u] /\ entry.expires <= now + CacheTtl
    BY <1>2, OrgOfType, NumbersAssumption DEF TypeOK
  <2>4. now \in 0..MaxTime
    BY DEF TypeOK
  <2>. QED BY <2>1, <2>2, <2>3, <2>4 DEF EntryRecent
<1>. QED BY <1>3, <1>4, <1>5

LEMMA NextInv == Inv /\ [Next]_vars => Inv'
<1>. SUFFICES ASSUME Inv, [Next]_vars
              PROVE  Inv'
  OBVIOUS
<1>0. TypeOK /\ RowRecent /\ EntryRecent /\ \A c \in Calls : CallKnows(c)
  BY DEF Inv
<1>1. CASE Tick
  <2>1. now \in Nat /\ now' = now + 1 /\ now' \in 0..MaxTime
    BY <1>0, <1>1, NumbersAssumption DEF Tick, TypeOK
  <2>2. past' \in [Users -> SUBSET ((Orgs \cup {None}) \X (0..MaxTime))]
    <3>1. \A u \in Users : {e \in past[u] : now' < e[2] + CacheTtl} \in
                              SUBSET ((Orgs \cup {None}) \X (0..MaxTime))
      BY <1>0 DEF TypeOK
    <3>2. \A u \in Users : <<OrgOf(Row(u)), now'>> \in (Orgs \cup {None}) \X (0..MaxTime)
      BY <1>0, <2>1, RowType
    <3>. QED BY <1>1, <3>1, <3>2 DEF Tick
  <2>3. TypeOK'
    BY <1>0, <1>1, <2>1, <2>2 DEF Tick, TypeOK, callVars
  <2>4. RowRecent'
    BY <1>1, <2>1 DEF Tick, RowRecent, Row, OrgOf
  <2>5. EntryRecent'
    <3>. SUFFICES ASSUME NEW u \in Users, cache'[u] # None
                  PROVE  \E t \in 0..MaxTime : /\ <<cache'[u].row.org, t>> \in past'[u]
                                               /\ cache'[u].expires <= t + CacheTtl
      BY DEF EntryRecent
    <3>1. cache'[u] = cache[u] /\ ~(cache[u].expires <= now')
      BY <1>1 DEF Tick
    <3>2. PICK t \in 0..MaxTime : /\ <<cache[u].row.org, t>> \in past[u]
                                  /\ cache[u].expires <= t + CacheTtl
      BY <1>0, <3>1 DEF EntryRecent
    <3>3. cache[u].expires \in Nat
      BY <1>0, <3>1 DEF TypeOK
    <3>4. now' < t + CacheTtl
      BY <2>1, <3>1, <3>2, <3>3, NumbersAssumption
    <3>5. <<cache[u].row.org, t>> \in past'[u]
      BY <1>1, <3>2, <3>4 DEF Tick
    <3>. QED BY <3>1, <3>2, <3>5
  <2>6. \A c \in Calls : CallKnows(c)'
    BY <1>1 DEF Tick, callVars, CallKnows
  <2>. QED BY <2>3, <2>4, <2>5, <2>6 DEF Inv
<1>2. ASSUME NEW u \in Users, NEW profile \in Profile, ClerkChanges(u, profile)
      PROVE  Inv'
  <2>1. TypeOK'
    BY <1>0, <1>2, NumbersAssumption DEF ClerkChanges, TypeOK, callVars
  <2>. QED BY <1>0, <1>2, <2>1
           DEF ClerkChanges, callVars, Inv, RowRecent, Row, EntryRecent, CallKnows
<1>3. ASSUME NEW c \in Calls, NEW u \in Users, FetchUser(c, u)
      PROVE  Inv'
  <2>1. [clerk[u] EXCEPT !.org = None] \in Profile
    BY <1>0 DEF TypeOK, Profile
  <2>2. TypeOK'
    BY <1>0, <1>3, <2>1, NumbersAssumption DEF FetchUser, TypeOK, callVars, Goto, Fault
  <2>3. \A d \in Calls : CallKnows(d)'
    BY <1>0, <1>3, <2>1 DEF FetchUser, TypeOK, callVars, Goto, CallKnows
  <2>. QED BY <1>0, <1>3, <2>2, <2>3 DEF FetchUser, Inv, RowRecent, Row, EntryRecent
<1>4. ASSUME NEW c \in Calls, FetchOrg(c)
      PROVE  Inv'
  <2>1. pc[c] = "fetchOrg" /\ user[c] \in Users /\ got[c] \in Profile
    BY <1>0, <1>4 DEF FetchOrg, CallKnows
  <2>2. [got[c] EXCEPT !.org = clerk[user[c]].org] \in Profile
    BY <1>0, <2>1 DEF TypeOK, Profile
  <2>3. got' = got \/ got' = [got EXCEPT ![c] = [got[c] EXCEPT !.org = clerk[user[c]].org]]
    BY <1>4 DEF FetchOrg
  <2>4. faults' \in 0..MaxFaults
    BY <1>0, <1>4, NumbersAssumption DEF FetchOrg, Fault, TypeOK
  <2>5. TypeOK'
    BY <1>0, <1>4, <2>2, <2>3, <2>4 DEF FetchOrg, TypeOK, Goto
  <2>6. \A d \in Calls : CallKnows(d)'
    BY <1>0, <1>4, <2>1, <2>2, <2>3 DEF FetchOrg, TypeOK, Goto, CallKnows
  <2>. QED BY <1>0, <1>4, <2>5, <2>6 DEF FetchOrg, Inv, RowRecent, Row, EntryRecent
<1>5. ASSUME NEW c \in Calls, Upsert(c)
      PROVE  Inv'
  <2>1. pc[c] = "upsert" /\ user[c] \in Users /\ got[c] \in Profile
    BY <1>0, <1>5 DEF Upsert, CallKnows
  <2>2. got[c].org \in Orgs \cup {None} /\ OrgOf(got[c]) = got[c].org
    BY <2>1, OrgOfType
  <2>3. CASE EmailTaken(user[c], got[c])
    <3>1. Return(c) /\ UNCHANGED <<rows, past, now, clerk, cache, answer, changes, faults>>
      BY <1>5, <2>3 DEF Upsert
    <3>2. TypeOK'
      BY <1>0, <3>1 DEF Return, Goto, TypeOK
    <3>3. \A d \in Calls : CallKnows(d)'
      BY <1>0, <3>1 DEF Return, Goto, TypeOK, CallKnows
    <3>. QED BY <1>0, <3>1, <3>2, <3>3 DEF Inv, RowRecent, Row, EntryRecent
  <2>4. CASE ~EmailTaken(user[c], got[c])
    <3>1. /\ rows' = [u \in DOMAIN rows \cup {user[c]} |->
                        IF u = user[c] THEN got[c] ELSE rows[u]]
          /\ past' = [past EXCEPT ![user[c]] = @ \cup {<<got[c].org, now>>}]
          /\ pc' = [pc EXCEPT ![c] = "cache"]
          /\ UNCHANGED <<user, got, now, clerk, cache, answer, changes, faults>>
      BY <1>5, <2>4 DEF Upsert, Goto
    <3>2. <<got[c].org, now>> \in (Orgs \cup {None}) \X (0..MaxTime)
      BY <1>0, <2>2 DEF TypeOK
    <3>3. past' \in [Users -> SUBSET ((Orgs \cup {None}) \X (0..MaxTime))]
      BY <1>0, <3>1, <3>2 DEF TypeOK
    <3>4. DOMAIN rows' \subseteq Users /\ rows' \in [DOMAIN rows' -> Profile]
      BY <1>0, <2>1, <3>1 DEF TypeOK
    <3>5. TypeOK'
      BY <1>0, <3>1, <3>3, <3>4 DEF TypeOK
    <3>6. /\ \A u \in Users : past[u] \subseteq past'[u]
          /\ <<OrgOf(got[c]), now>> \in past'[user[c]]
      BY <1>0, <2>1, <2>2, <3>1 DEF TypeOK
    <3>7. RowRecent'
      BY <1>0, <3>1, <3>6 DEF RowRecent, Row
    <3>8. EntryRecent'
      BY <1>0, <3>1, <3>6 DEF EntryRecent
    <3>9. \A d \in Calls : CallKnows(d)'
      BY <1>0, <2>1, <3>1, <3>6 DEF CallKnows, TypeOK
    <3>. QED BY <3>5, <3>7, <3>8, <3>9 DEF Inv
  <2>. QED BY <2>3, <2>4
<1>6. ASSUME NEW c \in Calls, CacheUser(c)
      PROVE  Inv'
  <2>1. user[c] \in Users /\ got[c] \in Profile /\ <<OrgOf(got[c]), now>> \in past[user[c]]
    BY <1>0, <1>6 DEF CacheUser, CallKnows
  <2>2. /\ cache' \in [Users -> [row : Profile, expires : Nat] \cup {None}]
        /\ EntryRecent'
    BY <1>0, <1>6, <2>1, SetEffect DEF CacheUser
  <2>3. TypeOK'
    BY <1>0, <1>6, <2>2 DEF CacheUser, Return, Goto, TypeOK
  <2>4. \A d \in Calls : CallKnows(d)'
    BY <1>0, <1>6 DEF CacheUser, Return, Goto, TypeOK, CallKnows
  <2>. QED BY <1>0, <1>6, <2>2, <2>3, <2>4 DEF CacheUser, Inv, RowRecent, Row
<1>7. ASSUME NEW c \in Calls, NEW u \in Users, ReadCache(c, u)
      PROVE  Inv'
  <2>1. cache[u] # None => cache[u].row.org \in Orgs \cup {None}
    BY <1>0 DEF TypeOK, Profile
  <2>2. TypeOK'
    BY <1>0, <1>7, <2>1 DEF ReadCache, TypeOK, callVars, Goto
  <2>3. \A d \in Calls : CallKnows(d)'
    BY <1>0, <1>7 DEF ReadCache, TypeOK, callVars, Goto, CallKnows
  <2>. QED BY <1>0, <1>7, <2>2, <2>3 DEF ReadCache, Inv, RowRecent, Row, EntryRecent
<1>8. ASSUME NEW c \in Calls, ReadRow(c)
      PROVE  Inv'
  <2>1. user[c] \in Users
    BY <1>0, <1>8 DEF ReadRow, CallKnows
  <2>2. TypeOK'
    BY <1>0, <1>8, <2>1, RowType DEF ReadRow, TypeOK, Goto
  <2>3. \A d \in Calls : CallKnows(d)'
    BY <1>0, <1>8, <2>1 DEF ReadRow, TypeOK, Goto, CallKnows, RowRecent
  <2>. QED BY <1>0, <1>8, <2>2, <2>3 DEF ReadRow, Inv, RowRecent, Row, EntryRecent
<1>9. ASSUME NEW c \in Calls, Fill(c)
      PROVE  Inv'
  <2>1. /\ user[c] \in Users /\ got[c] \in Profile \cup {None}
        /\ <<OrgOf(got[c]), now>> \in past[user[c]]
    BY <1>0, <1>9 DEF Fill, CallKnows, TypeOK
  <2>2. /\ cache' \in [Users -> [row : Profile, expires : Nat] \cup {None}]
        /\ EntryRecent'
    BY <1>0, <1>9, <2>1, SetEffect DEF Fill
  <2>3. TypeOK'
    BY <1>0, <1>9, <2>1, <2>2, OrgOfType DEF Fill, Return, Goto, TypeOK
  <2>4. \A d \in Calls : CallKnows(d)'
    BY <1>0, <1>9 DEF Fill, Return, Goto, TypeOK, CallKnows
  <2>. QED BY <1>0, <1>9, <2>2, <2>3, <2>4 DEF Fill, Inv, RowRecent, Row
<1>10. CASE UNCHANGED vars
  BY <1>0, <1>10
     DEF vars, callVars, Inv, TypeOK, RowRecent, Row, EntryRecent, CallKnows
<1>. QED BY <1>1, <1>2, <1>3, <1>4, <1>5, <1>6, <1>7, <1>8, <1>9, <1>10 DEF Next

LEMMA SpecInv == Spec => []Inv
  BY InitInv, NextInv, PTL DEF Spec

\* The variables keep their types.
THEOREM TypeCorrect == Spec => []TypeOK
<1>1. Inv => TypeOK
  BY DEF Inv
<1>. QED BY SpecInv, <1>1, PTL

-----------------------------------------------------------------------------
(* The refinement.                                                         *)

value == [u \in Users |-> OrgOf(Row(u))]
window == [u \in Users |-> {e[1] : e \in past[u]}]

\* To have named an organization lately is to have it in the window.
LEMMA InWindow ==
  ASSUME NEW u \in Users, NEW org, NEW t, <<org, t>> \in past[u]
  PROVE  org \in window[u]
<1>1. <<org, t>>[1] = org
  OBVIOUS
<1>. QED BY <1>1 DEF window

\* A step that leaves the rows and what they named lately alone.
LEMMA SameRows ==
  ASSUME UNCHANGED <<rows, past>>
  PROVE  value' = value /\ window' = window
  BY DEF value, window, Row, OrgOf

LEMMA AbstractInit == Init => Recent!Init
<1>. SUFFICES ASSUME Init, NEW u \in Users
              PROVE  window[u] = {value[u]} /\ answer[u] = Unasked
  BY DEF Recent!Init, window, value
<1>1. value[u] = None
  BY DEF Init, value, Row, OrgOf
<1>2. window[u] = {<<None, 0>>[1]}
  BY DEF Init, window
<1>. QED BY <1>1, <1>2 DEF Init

\* A tick forgets, a committed upsert writes, an answer is a read; all else stutters.
LEMMA AbstractNext == Inv /\ [Next]_vars => [Recent!Next]_(Recent!valueVars)
<1>. SUFFICES ASSUME Inv, [Next]_vars
              PROVE  Recent!Next \/ UNCHANGED <<value, window, answer>>
  BY DEF Recent!valueVars, value, window
<1>. USE DEF Inv
<1>1. CASE Tick
  <2>1. value' = value
    BY <1>1 DEF Tick, value, Row, OrgOf
  <2>2. ASSUME NEW u \in Users
        PROVE  window'[u] \subseteq window[u] /\ value[u] \in window'[u]
    <3>1. past'[u] = {e \in past[u] : now' < e[2] + CacheTtl} \cup {<<OrgOf(Row(u)), now'>>}
      BY <1>1 DEF Tick
    <3>2. OrgOf(Row(u)) \in window[u]
      BY InWindow DEF RowRecent
    <3>3. <<OrgOf(Row(u)), now'>>[1] = OrgOf(Row(u))
      OBVIOUS
    <3>. QED BY <3>1, <3>2, <3>3 DEF window, value
  <2>3. answer' = [u \in Users |-> Unasked]
    BY <1>1 DEF Tick
  <2>. QED BY <2>1, <2>2, <2>3 DEF Recent!Next, Recent!Forget, value, window
<1>2. ASSUME NEW c \in Calls, Upsert(c)
      PROVE  Recent!Next \/ UNCHANGED <<value, window, answer>>
  <2>1. user[c] \in Users /\ got[c] \in Profile /\ OrgOf(got[c]) = got[c].org
    BY <1>2, OrgOfType DEF Upsert, CallKnows
  <2>2. CASE EmailTaken(user[c], got[c])
    BY <1>2, <2>2, SameRows DEF Upsert
  <2>3. CASE ~EmailTaken(user[c], got[c])
    <3>1. /\ rows' = [u \in DOMAIN rows \cup {user[c]} |->
                        IF u = user[c] THEN got[c] ELSE rows[u]]
          /\ past' = [past EXCEPT ![user[c]] = @ \cup {<<got[c].org, now>>}]
          /\ UNCHANGED answer
      BY <1>2, <2>3 DEF Upsert
    <3>2. value'[user[c]] = got[c].org
      BY <2>1, <3>1 DEF value, Row
    <3>3. value' = [value EXCEPT ![user[c]] = value'[user[c]]]
      BY <2>1, <3>1 DEF value, Row
    <3>4. <<got[c].org, now>>[1] = got[c].org
      OBVIOUS
    <3>5. past'[user[c]] = past[user[c]] \cup {<<got[c].org, now>>}
          /\ \A u \in Users \ {user[c]} : past'[u] = past[u]
      BY <2>1, <3>1 DEF TypeOK
    <3>6. window'[user[c]] = window[user[c]] \cup {got[c].org}
      BY <2>1, <3>4, <3>5 DEF window
    <3>7. \A u \in Users \ {user[c]} : window'[u] = window[u]
      BY <3>5 DEF window
    <3>8. window' = [window EXCEPT ![user[c]] = @ \cup {value'[user[c]]}]
      BY <2>1, <3>2, <3>6, <3>7 DEF window
    <3>9. PICK u \in Users : u = user[c]
      BY <2>1
    <3>10. Recent!Write(u)
      BY <3>1, <3>3, <3>8, <3>9 DEF Recent!Write, value, window
    <3>. QED BY <3>10 DEF Recent!Next
  <2>. QED BY <2>2, <2>3
<1>3. ASSUME NEW c \in Calls, NEW u \in Users, ReadCache(c, u)
      PROVE  Recent!Next \/ UNCHANGED <<value, window, answer>>
  <2>1. UNCHANGED <<value, window>>
    BY <1>3, SameRows DEF ReadCache
  <2>2. CASE UNCHANGED answer
    BY <2>1, <2>2
  <2>3. CASE cache[u] # None /\ answer' = [answer EXCEPT ![u] = cache[u].row.org]
    <3>1. cache[u].row.org \in window[u]
      BY <2>3, InWindow DEF EntryRecent
    <3>2. answer'[u] = cache[u].row.org
      BY <2>3 DEF TypeOK
    <3>3. Recent!Read(u)
      BY <2>1, <2>3, <3>1, <3>2 DEF Recent!Read, value, window
    <3>. QED BY <3>3 DEF Recent!Next
  <2>. QED BY <1>3, <2>2, <2>3 DEF ReadCache
<1>4. ASSUME NEW c \in Calls, Fill(c)
      PROVE  Recent!Next \/ UNCHANGED <<value, window, answer>>
  <2>1. user[c] \in Users /\ OrgOf(got[c]) \in window[user[c]]
    BY <1>4, InWindow DEF Fill, CallKnows
  <2>2. UNCHANGED <<value, window>>
    BY <1>4, SameRows DEF Fill
  <2>3. answer' = [answer EXCEPT ![user[c]] = OrgOf(got[c])]
        /\ answer'[user[c]] = OrgOf(got[c])
    BY <1>4, <2>1 DEF Fill, TypeOK
  <2>4. Recent!Read(user[c])
    BY <2>1, <2>2, <2>3 DEF Recent!Read, value, window
  <2>. QED BY <2>1, <2>4 DEF Recent!Next
<1>5. ASSUME \/ \E u \in Users, profile \in Profile : ClerkChanges(u, profile)
             \/ \E c \in Calls :
                  \/ \E u \in Users : FetchUser(c, u)
                  \/ FetchOrg(c) \/ CacheUser(c) \/ ReadRow(c)
             \/ UNCHANGED vars
      PROVE  UNCHANGED <<value, window, answer>>
  <2>1. UNCHANGED <<rows, past, answer>>
    BY <1>5 DEF ClerkChanges, FetchUser, FetchOrg, CacheUser, ReadRow, vars
  <2>. QED BY <2>1, SameRows
<1>. QED BY <1>1, <1>2, <1>3, <1>4, <1>5 DEF Next

\* OrganizationSnapshot implements RecentValue: whatever syncs, reads and failures of
\* Redis do, the organization that scopes a request is one its user's row named within
\* the life of a cache entry.
THEOREM Recency == Spec => SnapshotRecent
<1>1. Spec => Recent!Init /\ [][Recent!Next]_(Recent!valueVars)
  BY AbstractInit, AbstractNext, SpecInv, PTL DEF Spec
<1>. QED BY <1>1 DEF SnapshotRecent, Recent!Spec

=============================================================================
