-------------------------- MODULE Catalogue_proofs --------------------------
(***************************************************************************)
(* Catalogue for any number of users, calls, organizations, products and   *)
(* requests: the invariants and the action properties of its run.          *)
(***************************************************************************)
EXTENDS Catalogue, TLAPS

LEMMA InsertEffect ==
  ASSUME NEW table, NEW key, NEW row
  PROVE  /\ DOMAIN Insert(table, key, row) = DOMAIN table \cup {key}
         /\ Insert(table, key, row)[key] = row
         /\ \A k \in DOMAIN table : k # key => Insert(table, key, row)[k] = table[k]
  BY DEF Insert

LEMMA TableType ==
  ASSUME NEW table, NEW S, table = [k \in DOMAIN table |-> table[k]],
         \A k \in DOMAIN table : table[k] \in S
  PROVE  table \in [DOMAIN table -> S]
  OBVIOUS

-----------------------------------------------------------------------------
(* The inductive invariant.                                                *)

\* A product's organization has its row: FindOrg does not turn its owner away.
OrganizationsHaveRows == \A p \in DOMAIN products : products[p].org \in DOMAIN orgs

\* What call c may rely on, however long ago it looked.  The organization it is
\* scoped by stays one of its user's recent ones; the row that findOne returned keeps
\* its organization, or is gone for good.
Knows(c) ==
  /\ pc[c] # "idle" =>
       /\ user[c] \in Users /\ op[c] \in Ops
       /\ op[c] \in OnProduct => target[c] \in Products
       /\ op[c] \in OnRequest => target[c] \in Requests
       /\ op[c] \in {"create", "list"} => target[c] = None
       /\ seen[c] \subseteq DOMAIN products \cup removed
       /\ reply[c] = None
  /\ pc[c] \in {"org", "insert", "find", "act", "delete"} =>
       scope[c] \in recent[user[c]] \ {None}
  /\ pc[c] \in {"org", "find"} => op[c] # "create"
  /\ pc[c] = "again" =>
       /\ op[c] = "list"
       /\ scope[c] \in recent[user[c]]
       /\ \A p \in seen[c] \cap DOMAIN products : products[p].org # scope[c]
  /\ pc[c] = "delete" => op[c] = "remove"
  /\ pc[c] \in {"act", "delete"} =>
       /\ op[c] \in {"edit", "remove", "ask", "cancel"}
       /\ found[c] = scope[c]
       /\ op[c] = "cancel" =>
            target[c] \in DOMAIN requests /\ requests[target[c]].org = scope[c]
       /\ op[c] # "cancel" =>
            /\ target[c] \in DOMAIN products \cup removed
            /\ target[c] \in DOMAIN products => products[target[c]].org = scope[c]

Inv ==
  /\ TypeOK
  /\ RequestsFollowProducts
  /\ OrganizationsHaveRows
  /\ \A c \in Calls : Knows(c)

LEMMA InitInv == Init => Inv
<1>. SUFFICES ASSUME Init
              PROVE  Inv
  OBVIOUS
<1>1. TypeOK
  <2>1. recent \in [Users -> (SUBSET (Orgs \cup {None})) \ {{}}] /\ syncs \in 0..MaxSyncs
    <3>1. ASSUME NEW u \in Users
          PROVE  recent[u] \in (SUBSET (Orgs \cup {None})) \ {{}}
      <4>1. PICK o \in Orgs \cup {None} : recent[u] = {o}
        BY DEF Init
      <4>2. o \in recent[u] /\ recent[u] \subseteq Orgs \cup {None}
        BY <4>1
      <4>. QED BY <4>2
    <3>. QED BY <3>1, MaxSyncsAssumption DEF Init
  <2>2. orgs \in [DOMAIN orgs -> BOOLEAN] /\ DOMAIN orgs \subseteq Orgs
    BY DEF Init
  <2>3. products \in [DOMAIN products -> [org : Orgs, edited : BOOLEAN]] /\ DOMAIN products = {}
    BY DEF Init
  <2>4. /\ requests \in [DOMAIN requests -> [product : Products, org : Orgs, cancelled : BOOLEAN]]
        /\ DOMAIN requests = {}
    BY DEF Init
  <2>5. /\ pc \in [Calls -> {"idle", "snapshot", "org", "again", "insert", "find", "act",
                             "delete"}]
        /\ user \in [Calls -> Users \cup {None}]
        /\ op \in [Calls -> Ops \cup {None}]
        /\ target \in [Calls -> Products \cup Requests \cup {None}]
        /\ scope \in [Calls -> Orgs \cup {None}]
        /\ found \in [Calls -> Orgs \cup {None}]
        /\ seen \in [Calls -> SUBSET Products]
        /\ reply \in [Calls -> Replies \cup {None}]
    BY DEF Init
  <2>. QED BY <2>1, <2>2, <2>3, <2>4, <2>5 DEF TypeOK, Init
<1>2. RequestsFollowProducts /\ OrganizationsHaveRows
  BY DEF Init, RequestsFollowProducts, OrganizationsHaveRows
<1>3. \A c \in Calls : Knows(c)
  BY DEF Init, Knows
<1>. QED BY <1>1, <1>2, <1>3 DEF Inv

-----------------------------------------------------------------------------
(* What one step may do to the tables.                                     *)

\* Rows keep their organization, ids are not used again, requests are never deleted,
\* and nobody's recent organizations are forgotten under a call of his.
TablesEvolve ==
  /\ DOMAIN products \cup removed \subseteq DOMAIN products' \cup removed'
  /\ \A p \in DOMAIN products' :
       \/ p \in DOMAIN products /\ products'[p].org = products[p].org
       \/ p \notin DOMAIN products \cup removed
  /\ \A r \in DOMAIN requests : r \in DOMAIN requests' /\ requests'[r].org = requests[r].org
  /\ \A d \in Calls : pc[d] # "idle" => recent[user[d]] \subseteq recent'[user[d]]

LEMMA OthersKnow ==
  ASSUME TablesEvolve, NEW d \in Calls, Knows(d), TypeOK,
         pc'[d] = pc[d], user'[d] = user[d], op'[d] = op[d], target'[d] = target[d],
         scope'[d] = scope[d], found'[d] = found[d], seen'[d] = seen[d],
         reply'[d] = reply[d]
  PROVE  Knows(d)'
<1>1. pc[d] # "idle" => recent[user[d]] \subseteq recent'[user[d]]
  BY DEF TablesEvolve
<1>2. pc[d] # "idle" => seen'[d] \subseteq DOMAIN products' \cup removed'
  BY DEF Knows, TablesEvolve
<1>3. pc[d] = "again" => \A p \in seen'[d] \cap DOMAIN products' : products'[p].org # scope'[d]
  BY DEF Knows, TablesEvolve
<1>4. pc[d] \in {"act", "delete"} /\ op[d] = "cancel" =>
        target[d] \in DOMAIN requests' /\ requests'[target[d]].org = scope[d]
  BY DEF Knows, TablesEvolve
<1>5. pc[d] \in {"act", "delete"} /\ op[d] # "cancel" =>
        /\ target[d] \in DOMAIN products' \cup removed'
        /\ target[d] \in DOMAIN products' => products'[target[d]].org = scope[d]
  BY DEF Knows, TablesEvolve
<1>. QED BY <1>1, <1>2, <1>3, <1>4, <1>5 DEF Knows

-----------------------------------------------------------------------------
(* Steps of one call.                                                      *)

CallTypes ==
  /\ pc \in [Calls -> {"idle", "snapshot", "org", "again", "insert", "find", "act",
                       "delete"}]
  /\ user \in [Calls -> Users \cup {None}]
  /\ op \in [Calls -> Ops \cup {None}]
  /\ target \in [Calls -> Products \cup Requests \cup {None}]
  /\ seen \in [Calls -> SUBSET Products]
  /\ reply \in [Calls -> Replies \cup {None}]

OthersStay(c) ==
  \A d \in Calls \ {c} :
    /\ pc'[d] = pc[d] /\ user'[d] = user[d] /\ op'[d] = op[d]
    /\ target'[d] = target[d] /\ seen'[d] = seen[d] /\ reply'[d] = reply[d]

LEMMA AnswerEffect ==
  ASSUME TypeOK, NEW c \in Calls,
         NEW s \in Replies, Answer(c, s)
  PROVE  CallTypes' /\ OthersStay(c) /\ Knows(c)' /\ pc'[c] = "idle" /\ reply'[c] = s
<1>1. CallTypes' /\ OthersStay(c)
  BY DEF TypeOK, Answer, CallTypes, OthersStay
<1>2. pc'[c] = "idle" /\ reply'[c] = s
  BY DEF TypeOK, Answer
<1>3. Knows(c)'
  BY <1>2 DEF Knows
<1>. QED BY <1>1, <1>2, <1>3

LEMMA GotoEffect ==
  ASSUME TypeOK, NEW c \in Calls,
         NEW label \in {"org", "again", "insert", "find", "act", "delete"}, Goto(c, label)
  PROVE  /\ CallTypes' /\ OthersStay(c)
         /\ pc'[c] = label
         /\ user' = user /\ op' = op /\ target' = target /\ seen' = seen /\ reply' = reply
  BY DEF TypeOK, Goto, CallTypes, OthersStay

\* A step that looks at the tables, or at nothing.
LEMMA ReadStep ==
  ASSUME Inv, NEW c \in Calls, UNCHANGED <<recent, syncs, tables>>,
         CallTypes', OthersStay(c), Knows(c)',
         scope' \in [Calls -> Orgs \cup {None}], found' \in [Calls -> Orgs \cup {None}],
         \A d \in Calls \ {c} : scope'[d] = scope[d] /\ found'[d] = found[d]
  PROVE  Inv' /\ TablesEvolve
<1>1. TypeOK'
  BY DEF Inv, TypeOK, CallTypes, tables
<1>2. RequestsFollowProducts' /\ OrganizationsHaveRows'
  BY DEF Inv, RequestsFollowProducts, OrganizationsHaveRows, tables
<1>3. TablesEvolve
  BY DEF TablesEvolve, tables
<1>4. ASSUME NEW d \in Calls \ {c}
      PROVE  Knows(d)'
  BY <1>3, OthersKnow DEF Inv, OthersStay
<1>. QED BY <1>1, <1>2, <1>3, <1>4 DEF Inv

\* A step that writes a table and answers.
LEMMA WriteStep ==
  ASSUME Inv, NEW c \in Calls, UNCHANGED <<recent, syncs, scope, found>>,
         NEW s \in {"ok", "500"}, Answer(c, s), TablesEvolve,
         DOMAIN orgs' \subseteq Orgs, orgs' \in [DOMAIN orgs' -> BOOLEAN],
         DOMAIN products' \subseteq Products,
         products' \in [DOMAIN products' -> [org : Orgs, edited : BOOLEAN]],
         removed' \subseteq Products \ DOMAIN products',
         DOMAIN requests' \subseteq Requests,
         requests' \in [DOMAIN requests' ->
                          [product : Products, org : Orgs, cancelled : BOOLEAN]],
         RequestsFollowProducts', OrganizationsHaveRows'
  PROVE  Inv'
<1>1. CallTypes' /\ OthersStay(c) /\ Knows(c)'
  BY AnswerEffect DEF Inv, Replies
<1>2. TypeOK'
  BY <1>1 DEF Inv, TypeOK, CallTypes
<1>3. ASSUME NEW d \in Calls \ {c}
      PROVE  Knows(d)'
  BY <1>1, OthersKnow DEF Inv, OthersStay
<1>. QED BY <1>1, <1>2, <1>3 DEF Inv

-----------------------------------------------------------------------------
LEMMA SurroundingsInv ==
  ASSUME Inv,
         \/ \E u \in Users, o \in Orgs \cup {None} : Sync(u, o) \/ Settle(u, o)
         \/ \E o \in Orgs : ReconcileOrg(o)
  PROVE  Inv' /\ TablesEvolve
<1>1. ASSUME NEW u \in Users, NEW o \in Orgs \cup {None}, Sync(u, o)
      PROVE  Inv' /\ TablesEvolve
  <2>1. TypeOK'
    <3>1. recent[u] \cup {o} \in (SUBSET (Orgs \cup {None})) \ {{}}
      BY DEF Inv, TypeOK
    <3>2. recent' \in [Users -> (SUBSET (Orgs \cup {None})) \ {{}}]
      <4>1. recent' = [recent EXCEPT ![u] = recent[u] \cup {o}]
        BY <1>1 DEF Sync
      <4>2. recent \in [Users -> (SUBSET (Orgs \cup {None})) \ {{}}]
        BY DEF Inv, TypeOK
      <4>. QED BY <3>1, <4>1, <4>2
    <3>3. syncs' \in 0..MaxSyncs
      <4>1. syncs \in 0..MaxSyncs
        BY DEF Inv, TypeOK
      <4>2. syncs < MaxSyncs /\ syncs' = syncs + 1
        BY <1>1 DEF Sync
      <4>. QED BY <4>1, <4>2, MaxSyncsAssumption
    <3>. QED BY <1>1, <3>2, <3>3 DEF Inv, TypeOK, Sync, tables, callVars
  <2>2. TablesEvolve
    BY <1>1 DEF Inv, TypeOK, Sync, TablesEvolve, tables, Knows
  <2>3. RequestsFollowProducts' /\ OrganizationsHaveRows'
    BY <1>1 DEF Inv, Sync, RequestsFollowProducts, OrganizationsHaveRows, tables
  <2>4. \A d \in Calls : Knows(d)'
    BY <1>1, <2>2, OthersKnow DEF Inv, Sync, callVars
  <2>. QED BY <2>1, <2>2, <2>3, <2>4 DEF Inv
<1>2. ASSUME NEW u \in Users, NEW o \in Orgs \cup {None}, Settle(u, o)
      PROVE  Inv' /\ TablesEvolve
  <2>1. TypeOK'
    BY <1>2 DEF Inv, TypeOK, Settle, tables, callVars
  <2>2. TablesEvolve
    <3>1. \A d \in Calls : pc[d] # "idle" => recent[user[d]] \subseteq recent'[user[d]]
      <4>. SUFFICES ASSUME NEW d \in Calls, pc[d] # "idle"
                    PROVE  recent'[user[d]] = recent[user[d]]
        OBVIOUS
      <4>1. user[d] \in Users /\ user[d] # u
        BY <1>2 DEF Inv, Settle, Knows
      <4>. QED BY <1>2, <4>1 DEF Inv, TypeOK, Settle
    <3>. QED BY <1>2, <3>1 DEF Settle, TablesEvolve, tables
  <2>3. RequestsFollowProducts' /\ OrganizationsHaveRows'
    BY <1>2 DEF Inv, Settle, RequestsFollowProducts, OrganizationsHaveRows, tables
  <2>4. \A d \in Calls : Knows(d)'
    BY <1>2, <2>2, OthersKnow DEF Inv, Settle, callVars
  <2>. QED BY <2>1, <2>2, <2>3, <2>4 DEF Inv
<1>3. ASSUME NEW o \in Orgs, ReconcileOrg(o)
      PROVE  Inv' /\ TablesEvolve
  <2>1. /\ orgs' \in [DOMAIN orgs' -> BOOLEAN] /\ DOMAIN orgs' \subseteq Orgs
        /\ DOMAIN orgs \subseteq DOMAIN orgs'
    BY <1>3 DEF Inv, TypeOK, ReconcileOrg, Insert
  <2>2. TypeOK'
    BY <1>3, <2>1 DEF Inv, TypeOK, ReconcileOrg, callVars
  <2>3. TablesEvolve
    BY <1>3 DEF ReconcileOrg, TablesEvolve
  <2>4. RequestsFollowProducts' /\ OrganizationsHaveRows'
    BY <1>3, <2>1 DEF Inv, ReconcileOrg, RequestsFollowProducts, OrganizationsHaveRows
  <2>5. \A d \in Calls : Knows(d)'
    BY <1>3, <2>3, OthersKnow DEF Inv, ReconcileOrg, callVars
  <2>. QED BY <2>2, <2>3, <2>4, <2>5 DEF Inv
<1>. QED BY <1>1, <1>2, <1>3

LEMMA LookInv ==
  ASSUME Inv, NEW c \in Calls,
         \/ \E u \in Users, o \in Ops, id \in Products \cup Requests \cup {None} :
              Begin(c, u, o, id)
         \/ Snapshot(c) \/ FindOrg(c) \/ SnapshotAgain(c) \/ Find(c) \/ Count(c)
  PROVE  Inv' /\ TablesEvolve
<1>0. TypeOK /\ Knows(c)
  BY DEF Inv
<1>1. ASSUME NEW u \in Users, NEW o \in Ops, NEW id \in Products \cup Requests \cup {None},
             Begin(c, u, o, id)
      PROVE  Inv' /\ TablesEvolve
  <2>1. CallTypes' /\ OthersStay(c)
    BY <1>0, <1>1 DEF TypeOK, Begin, CallTypes, OthersStay
  <2>2. Knows(c)'
    BY <1>0, <1>1 DEF TypeOK, Begin, Knows, tables
  <2>3. /\ scope' \in [Calls -> Orgs \cup {None}] /\ found' \in [Calls -> Orgs \cup {None}]
        /\ \A d \in Calls \ {c} : scope'[d] = scope[d] /\ found'[d] = found[d]
    BY <1>0, <1>1 DEF TypeOK, Begin
  <2>. QED BY <1>1, <2>1, <2>2, <2>3, ReadStep DEF Begin
<1>2. CASE Snapshot(c)
  <2>1. PICK o \in recent[user[c]] : scope' = [scope EXCEPT ![c] = o]
                /\ IF op[c] = "create"
                   THEN IF o = None THEN Answer(c, "403") ELSE Goto(c, "insert")
                   ELSE IF o = None THEN Unscoped(c) ELSE Goto(c, "org")
    BY <1>2 DEF Snapshot
  <2>2. user[c] \in Users /\ o \in Orgs \cup {None}
    BY <1>0, <1>2, <2>1 DEF TypeOK, Snapshot, Knows
  <2>3. UNCHANGED <<recent, syncs, tables, found>>
    BY <1>2 DEF Snapshot
  <2>4. /\ scope' \in [Calls -> Orgs \cup {None}] /\ found' \in [Calls -> Orgs \cup {None}]
        /\ \A d \in Calls \ {c} : scope'[d] = scope[d] /\ found'[d] = found[d]
        /\ scope'[c] = o
    BY <1>0, <2>1, <2>2, <2>3 DEF TypeOK
  <2>5. CallTypes' /\ OthersStay(c) /\ Knows(c)'
    <3>1. CASE Answer(c, "403") \/ Answer(c, "404")
      BY <1>0, <3>1, AnswerEffect DEF Replies
    <3>2. CASE op[c] = "create" /\ o # None /\ Goto(c, "insert")
      BY <1>0, <1>2, <2>1, <2>3, <2>4, <3>2, GotoEffect DEF Knows, Snapshot, tables
    <3>3. CASE op[c] = "list" /\ o = None /\ Goto(c, "again")
      <4>1. \A p \in DOMAIN products : products[p].org # None
        <5>1. \A p \in DOMAIN products : products[p].org \in Orgs
          BY <1>0 DEF TypeOK
        <5>. QED BY <5>1, NoneAssumption
      <4>2. /\ CallTypes' /\ OthersStay(c) /\ pc'[c] = "again"
            /\ user' = user /\ op' = op /\ target' = target /\ seen' = seen /\ reply' = reply
        BY <1>0, <3>3, GotoEffect
      <4>3. scope'[c] = None /\ None \in recent'[user'[c]]
        BY <2>1, <2>3, <2>4, <3>3, <4>2
      <4>. QED BY <1>0, <1>2, <2>3, <3>3, <4>1, <4>2, <4>3 DEF Knows, Snapshot, tables
    <3>4. CASE op[c] # "create" /\ o # None /\ Goto(c, "org")
      BY <1>0, <1>2, <2>1, <2>3, <2>4, <3>4, GotoEffect DEF Knows, Snapshot, tables
    <3>. QED BY <2>1, <3>1, <3>2, <3>3, <3>4 DEF Unscoped
  <2>. QED BY <2>3, <2>4, <2>5, ReadStep
<1>3. CASE FindOrg(c)
  <2>1. UNCHANGED <<recent, syncs, tables, scope, found>>
    BY <1>3 DEF FindOrg
  <2>2. CallTypes' /\ OthersStay(c) /\ Knows(c)'
    <3>1. CASE Answer(c, "404")
      BY <1>0, <3>1, AnswerEffect DEF Replies
    <3>2. CASE op[c] = "list" /\ scope[c] \notin DOMAIN orgs /\ Goto(c, "again")
      <4>1. \A p \in DOMAIN products : products[p].org # scope[c]
        BY <3>2 DEF Inv, OrganizationsHaveRows
      <4>. QED BY <1>0, <1>3, <2>1, <3>2, <4>1, GotoEffect DEF Knows, FindOrg, tables
    <3>3. CASE Goto(c, "find")
      BY <1>0, <1>3, <2>1, <3>3, GotoEffect DEF Knows, FindOrg, tables
    <3>. QED BY <1>3, <3>1, <3>2, <3>3 DEF FindOrg, Unscoped
  <2>. QED BY <1>0, <2>1, <2>2, ReadStep DEF TypeOK
<1>4. CASE SnapshotAgain(c)
  <2>1. PICK o \in recent[user[c]] :
               /\ scope' = [scope EXCEPT ![c] = o]
               /\ Answer(c, "403") \/ Answer(c, "none yet")
    BY <1>4 DEF SnapshotAgain
  <2>2. user[c] \in Users /\ o \in Orgs \cup {None}
    BY <1>0, <1>4, <2>1 DEF TypeOK, SnapshotAgain, Knows
  <2>3. CallTypes' /\ OthersStay(c) /\ Knows(c)'
    BY <1>0, <2>1, AnswerEffect DEF Replies
  <2>4. /\ scope' \in [Calls -> Orgs \cup {None}] /\ found' \in [Calls -> Orgs \cup {None}]
        /\ \A d \in Calls \ {c} : scope'[d] = scope[d] /\ found'[d] = found[d]
    BY <1>0, <1>4, <2>1, <2>2 DEF TypeOK, SnapshotAgain
  <2>. QED BY <1>4, <2>3, <2>4, ReadStep DEF SnapshotAgain
<1>5. CASE Find(c)
  <2>1. UNCHANGED <<recent, syncs, tables, scope>>
    BY <1>5 DEF Find
  <2>2. CASE op[c] = "list" \/ ~Visible(c)
    <3>1. found' = found /\ (Answer(c, "ok") \/ Answer(c, "404"))
      BY <1>5, <2>2 DEF Find
    <3>2. CallTypes' /\ OthersStay(c) /\ Knows(c)'
      BY <1>0, <3>1, AnswerEffect DEF Replies
    <3>. QED BY <1>0, <2>1, <3>1, <3>2, ReadStep DEF TypeOK
  <2>3. CASE op[c] # "list" /\ Visible(c)
    <3>1. /\ op[c] # "list" /\ Visible(c)
          /\ found' = [found EXCEPT ![c] = IF target[c] \in Products
                                           THEN products[target[c]].org
                                           ELSE requests[target[c]].org]
          /\ IF op[c] \in {"get", "getRequest"} THEN Answer(c, "ok") ELSE Goto(c, "act")
      BY <1>5, <2>3 DEF Find
    <3>2. /\ pc[c] = "find" /\ op[c] \in OnProduct \cup OnRequest
          /\ scope[c] \in recent[user[c]] \ {None} /\ user[c] \in Users
      BY <1>0, <1>5, <3>1 DEF Find, Knows, Ops
    <3>3. /\ op[c] \in OnProduct => target[c] \in DOMAIN products
                                    /\ products[target[c]].org = scope[c]
          /\ op[c] \in OnRequest => target[c] \in DOMAIN requests
                                    /\ requests[target[c]].org = scope[c]
      BY <1>0, <3>1, <3>2, IdsAssumption DEF TypeOK, Visible, Knows
    <3>4. found'[c] = scope[c] /\ \A d \in Calls \ {c} : found'[d] = found[d]
      BY <1>0, <3>1, <3>2, <3>3, IdsAssumption DEF TypeOK, Knows
    <3>5. found' \in [Calls -> Orgs \cup {None}]
      BY <1>0, <3>1, <3>4 DEF TypeOK
    <3>6. CallTypes' /\ OthersStay(c) /\ Knows(c)'
      <4>1. CASE Answer(c, "ok")
        BY <1>0, <4>1, AnswerEffect DEF Replies
      <4>2. CASE op[c] \notin {"get", "getRequest"} /\ Goto(c, "act")
        <5>1. /\ CallTypes' /\ OthersStay(c) /\ pc'[c] = "act"
              /\ user' = user /\ op' = op /\ target' = target /\ seen' = seen
              /\ reply' = reply
          BY <1>0, <4>2, GotoEffect
        <5>2. op[c] \in {"edit", "remove", "ask", "cancel"}
          BY <3>2, <4>2 DEF OnProduct, OnRequest
        <5>. QED BY <1>0, <2>1, <3>2, <3>3, <3>4, <5>1, <5>2
                   DEF Knows, tables, OnProduct, OnRequest
      <4>. QED BY <3>1, <4>1, <4>2
    <3>. QED BY <1>0, <2>1, <3>4, <3>5, <3>6, ReadStep DEF TypeOK
  <2>. QED BY <2>2, <2>3
<1>6. CASE Count(c)
  <2>1. UNCHANGED <<recent, syncs, tables, scope, found>>
    BY <1>6 DEF Count
  <2>2. CallTypes' /\ OthersStay(c) /\ Knows(c)'
    <3>1. CASE Answer(c, "409")
      BY <1>0, <3>1, AnswerEffect DEF Replies
    <3>2. CASE Goto(c, "delete")
      BY <1>0, <1>6, <2>1, <3>2, GotoEffect DEF Knows, Count, tables
    <3>. QED BY <1>6, <3>1, <3>2 DEF Count
  <2>. QED BY <1>0, <2>1, <2>2, ReadStep DEF TypeOK
<1>. QED BY <1>1, <1>2, <1>3, <1>4, <1>5, <1>6

LEMMA CreateInv ==
  ASSUME Inv, NEW c \in Calls, NEW p \in Products, Create(c, p)
  PROVE  Inv' /\ TablesEvolve
<1>0. TypeOK /\ Knows(c)
  BY DEF Inv
<1>1. /\ scope[c] \in Orgs /\ p \notin DOMAIN products \cup removed
      /\ Answer(c, "ok") /\ UNCHANGED <<recent, syncs, removed, requests, scope, found>>
  BY <1>0 DEF Create, Knows, TypeOK
<1>2. /\ orgs' \in [DOMAIN orgs' -> BOOLEAN] /\ DOMAIN orgs' = DOMAIN orgs \cup {scope[c]}
      /\ DOMAIN orgs' \subseteq Orgs
  <2>1. orgs \in [DOMAIN orgs -> BOOLEAN] /\ DOMAIN orgs \subseteq Orgs
    BY <1>0 DEF TypeOK
  <2>2. CASE scope[c] \in DOMAIN orgs /\ orgs' = orgs
    BY <2>1, <2>2
  <2>3. CASE orgs' = Insert(orgs, scope[c], TRUE)
    BY <1>1, <2>1, <2>3 DEF Insert
  <2>. QED BY <2>2, <2>3 DEF Create
<1>3. /\ DOMAIN products' = DOMAIN products \cup {p}
      /\ products'[p] = [org |-> scope[c], edited |-> FALSE]
      /\ \A q \in DOMAIN products : products'[q] = products[q]
      /\ products' = [q \in DOMAIN products' |-> products'[q]]
  BY <1>1 DEF Create, Insert
<1>4. /\ DOMAIN products' \subseteq Products
      /\ products' \in [DOMAIN products' -> [org : Orgs, edited : BOOLEAN]]
      /\ removed' \subseteq Products \ DOMAIN products'
  <2>1. \A q \in DOMAIN products : products[q] \in [org : Orgs, edited : BOOLEAN]
    BY <1>0 DEF TypeOK
  <2>2. \A q \in DOMAIN products' : products'[q] \in [org : Orgs, edited : BOOLEAN]
    <3>1. [org |-> scope[c], edited |-> FALSE] \in [org : Orgs, edited : BOOLEAN]
      BY <1>1
    <3>2. products'[p] \in [org : Orgs, edited : BOOLEAN]
      BY <1>3, <3>1
    <3>. QED BY <1>3, <2>1, <3>2
  <2>3. products' \in [DOMAIN products' -> [org : Orgs, edited : BOOLEAN]]
    BY <1>3, <2>2, TableType
  <2>4. /\ DOMAIN products' \subseteq Products
        /\ removed' \subseteq Products \ DOMAIN products'
    BY <1>0, <1>1, <1>3 DEF TypeOK
  <2>. QED BY <2>3, <2>4
<1>5. TablesEvolve
  BY <1>1, <1>3 DEF TablesEvolve
<1>6. RequestsFollowProducts'
  BY <1>1, <1>3 DEF Inv, RequestsFollowProducts
<1>7. OrganizationsHaveRows'
  BY <1>2, <1>3 DEF Inv, OrganizationsHaveRows
<1>. QED BY <1>0, <1>1, <1>2, <1>4, <1>5, <1>6, <1>7, WriteStep DEF TypeOK

LEMMA EditInv ==
  ASSUME Inv, NEW c \in Calls, Edit(c)
  PROVE  Inv' /\ TablesEvolve
<1>0. TypeOK
  BY DEF Inv
<1>1. UNCHANGED <<recent, syncs, orgs, removed, requests, scope, found>>
  BY DEF Edit
<1>2. PICK s \in {"ok", "500"} : Answer(c, s)
  BY DEF Edit
<1>3. /\ DOMAIN products' = DOMAIN products
      /\ products' \in [DOMAIN products -> [org : Orgs, edited : BOOLEAN]]
      /\ \A p \in DOMAIN products : products'[p].org = products[p].org
  <2>1. products \in [DOMAIN products -> [org : Orgs, edited : BOOLEAN]]
    BY <1>0 DEF TypeOK
  <2>2. \/ products' = products
        \/ /\ target[c] \in DOMAIN products
           /\ products' = [products EXCEPT ![target[c]].edited = TRUE]
    BY DEF Edit
  <2>3. CASE products' = products
    BY <2>1, <2>3
  <2>4. CASE /\ target[c] \in DOMAIN products
             /\ products' = [products EXCEPT ![target[c]].edited = TRUE]
    BY <2>1, <2>4
  <2>. QED BY <2>2, <2>3, <2>4
<1>4. TablesEvolve
  BY <1>1, <1>3 DEF TablesEvolve
<1>5. RequestsFollowProducts' /\ OrganizationsHaveRows'
  BY <1>1, <1>3 DEF Inv, RequestsFollowProducts, OrganizationsHaveRows
<1>. QED BY <1>0, <1>1, <1>2, <1>3, <1>4, <1>5, WriteStep DEF TypeOK

LEMMA AskInv ==
  ASSUME Inv, NEW c \in Calls, NEW r \in Requests, Ask(c, r)
  PROVE  Inv' /\ TablesEvolve
<1>0. TypeOK /\ Knows(c)
  BY DEF Inv
<1>1. UNCHANGED <<recent, syncs, orgs, products, removed, scope, found>>
  BY DEF Ask
<1>2. PICK s \in {"ok", "500"} : Answer(c, s)
  BY DEF Ask
<1>3. CASE UNCHANGED requests
  <2>1. TablesEvolve /\ RequestsFollowProducts' /\ OrganizationsHaveRows'
    BY <1>1, <1>3 DEF TablesEvolve, Inv, RequestsFollowProducts, OrganizationsHaveRows
  <2>. QED BY <1>0, <1>1, <1>2, <1>3, <2>1, WriteStep DEF TypeOK
<1>4. CASE References(target[c]) /\ r \notin DOMAIN requests
           /\ requests' = Insert(requests, r, [product |-> target[c], org |-> found[c],
                                               cancelled |-> FALSE])
  <2>1. /\ target[c] \in DOMAIN products /\ target[c] \in Products /\ found[c] \in Orgs
        /\ products[target[c]].org = found[c]
    BY <1>0, <1>4 DEF Ask, Knows, References, TypeOK
  <2>2. /\ DOMAIN requests' = DOMAIN requests \cup {r}
        /\ requests'[r] = [product |-> target[c], org |-> found[c], cancelled |-> FALSE]
        /\ \A q \in DOMAIN requests : requests'[q] = requests[q]
        /\ requests' = [q \in DOMAIN requests' |-> requests'[q]]
    BY <1>4 DEF Insert
  <2>3. /\ DOMAIN requests' \subseteq Requests
        /\ requests' \in [DOMAIN requests' ->
                            [product : Products, org : Orgs, cancelled : BOOLEAN]]
    <3>1. \A q \in DOMAIN requests :
            requests[q] \in [product : Products, org : Orgs, cancelled : BOOLEAN]
      BY <1>0 DEF TypeOK
    <3>2. \A q \in DOMAIN requests' :
            requests'[q] \in [product : Products, org : Orgs, cancelled : BOOLEAN]
      <4>1. [product |-> target[c], org |-> found[c], cancelled |-> FALSE]
              \in [product : Products, org : Orgs, cancelled : BOOLEAN]
        BY <2>1
      <4>2. ASSUME NEW q \in DOMAIN requests'
            PROVE  \/ requests'[q] = [product |-> target[c], org |-> found[c],
                                      cancelled |-> FALSE]
                   \/ q \in DOMAIN requests /\ requests'[q] = requests[q]
        BY <2>2
      <4>. QED BY <3>1, <4>1, <4>2
    <3>3. requests' \in [DOMAIN requests' ->
                           [product : Products, org : Orgs, cancelled : BOOLEAN]]
      BY <2>2, <3>2, TableType
    <3>. QED BY <1>0, <2>2, <3>3 DEF TypeOK
  <2>4. TablesEvolve
    BY <1>1, <2>2 DEF TablesEvolve
  <2>5. RequestsFollowProducts'
    BY <1>1, <2>1, <2>2 DEF Inv, RequestsFollowProducts
  <2>6. OrganizationsHaveRows'
    BY <1>1 DEF Inv, OrganizationsHaveRows
  <2>. QED BY <1>0, <1>1, <1>2, <2>3, <2>4, <2>5, <2>6, WriteStep DEF TypeOK
<1>. QED BY <1>3, <1>4 DEF Ask

LEMMA CancelInv ==
  ASSUME Inv, NEW c \in Calls, Cancel(c)
  PROVE  Inv' /\ TablesEvolve
<1>0. TypeOK
  BY DEF Inv
<1>1. UNCHANGED <<recent, syncs, orgs, products, removed, scope, found>> /\ Answer(c, "ok")
  BY DEF Cancel
<1>2. /\ DOMAIN requests' = DOMAIN requests
      /\ requests' \in [DOMAIN requests ->
                          [product : Products, org : Orgs, cancelled : BOOLEAN]]
      /\ \A r \in DOMAIN requests : /\ requests'[r].org = requests[r].org
                                    /\ requests'[r].product = requests[r].product
  <2>1. requests \in [DOMAIN requests ->
                        [product : Products, org : Orgs, cancelled : BOOLEAN]]
    BY <1>0 DEF TypeOK
  <2>2. target[c] \in DOMAIN requests
    BY DEF Cancel, Inv, Knows
  <2>3. requests' = [requests EXCEPT ![target[c]].cancelled = TRUE]
    BY DEF Cancel
  <2>. QED BY <2>1, <2>2, <2>3
<1>3. TablesEvolve
  BY <1>1, <1>2 DEF TablesEvolve
<1>4. RequestsFollowProducts' /\ OrganizationsHaveRows'
  BY <1>1, <1>2 DEF Inv, RequestsFollowProducts, OrganizationsHaveRows
<1>. QED BY <1>0, <1>1, <1>2, <1>3, <1>4, WriteStep DEF TypeOK

LEMMA DeleteInv ==
  ASSUME Inv, NEW c \in Calls, Delete(c)
  PROVE  Inv' /\ TablesEvolve
<1>0. TypeOK
  BY DEF Inv
<1>1. UNCHANGED <<recent, syncs, orgs, requests, scope, found>>
  BY DEF Delete
<1>2. PICK s \in {"ok", "500"} : Answer(c, s)
  BY DEF Delete
<1>3. /\ DOMAIN products' \subseteq DOMAIN products
      /\ \A p \in DOMAIN products' : products'[p] = products[p]
      /\ products' = [p \in DOMAIN products' |-> products'[p]]
      /\ DOMAIN products \cup removed = DOMAIN products' \cup removed'
      /\ removed' \subseteq Products \ DOMAIN products'
      /\ \A r \in DOMAIN requests : requests[r].product \in DOMAIN products =>
                                    requests[r].product \in DOMAIN products'
  <2>1. CASE UNCHANGED <<products, removed>>
    BY <1>0, <2>1 DEF TypeOK
  <2>2. CASE /\ target[c] \in DOMAIN products /\ Dependents(target[c]) = {}
             /\ products' = [p \in DOMAIN products \ {target[c]} |-> products[p]]
             /\ removed' = removed \cup {target[c]}
    BY <1>0, <2>2 DEF TypeOK, Dependents
  <2>. QED BY <2>1, <2>2 DEF Delete
<1>4. products' \in [DOMAIN products' -> [org : Orgs, edited : BOOLEAN]]
  <2>1. \A q \in DOMAIN products : products[q] \in [org : Orgs, edited : BOOLEAN]
    BY <1>0 DEF TypeOK
  <2>2. \A q \in DOMAIN products' : products'[q] \in [org : Orgs, edited : BOOLEAN]
    BY <1>3, <2>1
  <2>. QED BY <1>3, <2>2, TableType
<1>5. TablesEvolve
  BY <1>1, <1>3 DEF TablesEvolve
<1>6. RequestsFollowProducts' /\ OrganizationsHaveRows'
  BY <1>1, <1>3 DEF Inv, RequestsFollowProducts, OrganizationsHaveRows
<1>7. /\ DOMAIN orgs' \subseteq Orgs /\ orgs' \in [DOMAIN orgs' -> BOOLEAN]
      /\ DOMAIN products' \subseteq Products /\ DOMAIN requests' \subseteq Requests
      /\ requests' \in [DOMAIN requests' ->
                          [product : Products, org : Orgs, cancelled : BOOLEAN]]
  BY <1>0, <1>1, <1>3 DEF TypeOK
<1>. QED BY <1>1, <1>2, <1>3, <1>4, <1>5, <1>6, <1>7, WriteStep

LEMMA NextInv ==
  ASSUME Inv, [Next]_vars
  PROVE  Inv' /\ TablesEvolve
<1>1. CASE UNCHANGED vars
  <2>1. TypeOK'
    BY <1>1 DEF Inv, TypeOK, vars, tables, callVars
  <2>2. RequestsFollowProducts' /\ OrganizationsHaveRows' /\ TablesEvolve
    BY <1>1 DEF Inv, RequestsFollowProducts, OrganizationsHaveRows, TablesEvolve, vars, tables,
                callVars
  <2>3. \A d \in Calls : Knows(d)'
    BY <1>1, <2>2, OthersKnow DEF Inv, vars, callVars
  <2>. QED BY <2>1, <2>2, <2>3 DEF Inv
<1>2. CASE Next
  BY <1>2, SurroundingsInv, LookInv, CreateInv, EditInv, AskInv, CancelInv, DeleteInv DEF Next
<1>. QED BY <1>1, <1>2

LEMMA SpecInv == Spec => []Inv
<1>1. Inv /\ [Next]_vars => Inv'
  BY NextInv
<1>. QED BY InitInv, <1>1, PTL DEF Spec

\* The variables keep their types: in particular a removed product's id stays unused,
\* and no call is scoped by anything but an organization.
THEOREM TypeCorrect == Spec => []TypeOK
<1>1. Inv => TypeOK
  BY DEF Inv
<1>. QED BY SpecInv, <1>1, PTL

\* However remove, create and changes of organization overlap, every request has its
\* product, and both name the same organization.
THEOREM Integrity == Spec => []RequestsFollowProducts
<1>1. Inv => RequestsFollowProducts
  BY DEF Inv
<1>. QED BY SpecInv, <1>1, PTL

-----------------------------------------------------------------------------
(* What a step of a call may write, and when it may turn its user away.    *)

LEMMA TouchedWithin ==
  ASSUME NEW t, NEW t2, NEW S,
         \A k \in DOMAIN t : (k \in DOMAIN t2 /\ t[k] = t2[k]) \/ t[k].org \in S,
         \A k \in DOMAIN t2 : (k \in DOMAIN t /\ t[k] = t2[k]) \/ t2[k].org \in S
  PROVE  Touched(t, t2) \subseteq S
  BY DEF Touched

LEMMA StepOfCall ==
  ASSUME Inv, Next, NEW c \in Calls, pc[c] # "idle", pc'[c] # pc[c] \/ reply'[c] # reply[c]
  PROVE  \/ Snapshot(c) \/ FindOrg(c) \/ SnapshotAgain(c) \/ Find(c)
         \/ \E p \in Products : Create(c, p)
         \/ \E r \in Requests : Ask(c, r)
         \/ Edit(c) \/ Cancel(c) \/ Count(c) \/ Delete(c)
<1>1. ASSUME NEW u \in Users, NEW o \in Orgs \cup {None}, Sync(u, o) \/ Settle(u, o)
      PROVE  FALSE
  BY <1>1 DEF Sync, Settle, callVars
<1>2. ASSUME NEW o \in Orgs, ReconcileOrg(o)
      PROVE  FALSE
  BY <1>2 DEF ReconcileOrg, callVars
<1>3. ASSUME NEW d \in Calls, NEW u \in Users, NEW o \in Ops,
             NEW id \in Products \cup Requests \cup {None}, Begin(d, u, o, id)
      PROVE  FALSE
  BY <1>3 DEF Begin, Inv, TypeOK
<1>4. ASSUME NEW d \in Calls, d # c, NEW label, Goto(d, label)
      PROVE  FALSE
  BY <1>4 DEF Goto, Inv, TypeOK
<1>5. ASSUME NEW d \in Calls, d # c, NEW s, Answer(d, s)
      PROVE  FALSE
  BY <1>5 DEF Answer, Inv, TypeOK
<1>6. ASSUME NEW d \in Calls, d # c,
             \/ Snapshot(d) \/ FindOrg(d) \/ SnapshotAgain(d) \/ Find(d) \/ Count(d)
             \/ \E p \in Products : Create(d, p)
             \/ \E r \in Requests : Ask(d, r)
             \/ Edit(d) \/ Cancel(d) \/ Delete(d)
      PROVE  FALSE
  BY <1>4, <1>5, <1>6 DEF Snapshot, FindOrg, SnapshotAgain, Find, Create, Ask, Edit, Cancel,
                          Count, Delete, Unscoped
<1>. QED BY <1>1, <1>2, <1>3, <1>6 DEF Next

LEMMA ScopedWrite ==
  ASSUME Inv, Next, NEW c \in Calls, pc[c] # "idle", pc'[c] # pc[c]
  PROVE  Touched(products, products') \cup Touched(requests, requests') \subseteq recent[user[c]]
<1>0. TypeOK /\ Knows(c)
  BY DEF Inv
<1>1. SUFFICES
        /\ \A p \in DOMAIN products : \/ p \in DOMAIN products' /\ products[p] = products'[p]
                                      \/ products[p].org \in recent[user[c]]
        /\ \A p \in DOMAIN products' : \/ p \in DOMAIN products /\ products[p] = products'[p]
                                       \/ products'[p].org \in recent[user[c]]
        /\ \A r \in DOMAIN requests : \/ r \in DOMAIN requests' /\ requests[r] = requests'[r]
                                      \/ requests[r].org \in recent[user[c]]
        /\ \A r \in DOMAIN requests' : \/ r \in DOMAIN requests /\ requests[r] = requests'[r]
                                       \/ requests'[r].org \in recent[user[c]]
  BY TouchedWithin
<1>2. CASE Snapshot(c) \/ FindOrg(c) \/ SnapshotAgain(c) \/ Find(c) \/ Count(c)
  BY <1>2 DEF Snapshot, FindOrg, SnapshotAgain, Find, Count, tables
<1>3. ASSUME NEW p \in Products, Create(c, p)
      PROVE  /\ requests' = requests
             /\ DOMAIN products' = DOMAIN products \cup {p}
             /\ products'[p].org \in recent[user[c]]
             /\ \A q \in DOMAIN products : products'[q] = products[q]
  BY <1>0, <1>3 DEF Create, Insert, Knows
<1>4. ASSUME NEW r \in Requests, Ask(c, r)
      PROVE  /\ products' = products
             /\ \/ requests' = requests
                \/ /\ DOMAIN requests' = DOMAIN requests \cup {r}
                   /\ requests'[r].org \in recent[user[c]]
                   /\ \A q \in DOMAIN requests : requests'[q] = requests[q]
  BY <1>0, <1>4 DEF Ask, Insert, Knows
<1>5. ASSUME Edit(c)
      PROVE  /\ requests' = requests /\ DOMAIN products' = DOMAIN products
             /\ \A p \in DOMAIN products : p # target[c] => products'[p] = products[p]
             /\ target[c] \in DOMAIN products =>
                  /\ products'[target[c]].org = products[target[c]].org
                  /\ products[target[c]].org \in recent[user[c]]
  <2>1. /\ requests' = requests
        /\ \/ products' = products
           \/ products' = [products EXCEPT ![target[c]].edited = TRUE]
    BY <1>5 DEF Edit
  <2>2. target[c] \in DOMAIN products => products[target[c]].org \in recent[user[c]]
    BY <1>0, <1>5 DEF Edit, Knows
  <2>3. \A p \in DOMAIN products : products[p] \in [org : Orgs, edited : BOOLEAN]
    BY <1>0 DEF TypeOK
  <2>. QED BY <2>1, <2>2, <2>3
<1>6. ASSUME Cancel(c)
      PROVE  /\ products' = products /\ DOMAIN requests' = DOMAIN requests
             /\ \A r \in DOMAIN requests : r # target[c] => requests'[r] = requests[r]
             /\ target[c] \in DOMAIN requests =>
                  /\ requests'[target[c]].org = requests[target[c]].org
                  /\ requests[target[c]].org \in recent[user[c]]
  BY <1>0, <1>6 DEF Cancel, Knows, TypeOK
<1>7. ASSUME Delete(c)
      PROVE  /\ requests' = requests /\ DOMAIN products' \subseteq DOMAIN products
             /\ \A p \in DOMAIN products' : products'[p] = products[p]
             /\ \A p \in DOMAIN products \ DOMAIN products' :
                  products[p].org \in recent[user[c]]
  BY <1>0, <1>7 DEF Delete, Knows
<1>. QED BY <1>2, <1>3, <1>4, <1>5, <1>6, <1>7, StepOfCall

\* A step of a call changes rows only of an organization its user's row named lately.
THEOREM Tenancy == Spec => WritesStayInScope
<1>1. ASSUME Inv, [Next]_vars, NEW c \in Calls, pc[c] # "idle", pc'[c] # pc[c]
      PROVE  Touched(products, products') \cup Touched(requests, requests')
               \subseteq recent[user[c]]
  <2>1. CASE Next
    BY <1>1, <2>1, ScopedWrite
  <2>2. CASE UNCHANGED vars
    BY <1>1, <2>2 DEF vars, callVars
  <2>. QED BY <1>1, <2>1, <2>2
<1>2. Inv /\ [Next]_vars =>
        [\A c \in Calls : pc[c] # "idle" /\ pc'[c] # pc[c] =>
           Touched(products, products') \cup Touched(requests, requests')
             \subseteq recent[user[c]]]_vars
  BY <1>1
<1>. QED BY SpecInv, <1>2, PTL DEF Spec, WritesStayInScope

LEMMA JustifiedRefusal ==
  ASSUME Inv, Next, NEW c \in Calls, NEW p \in seen[c] \cap DOMAIN products, pc[c] # "idle"
  PROVE  /\ reply'[c] = "404" /\ target[c] = p => scope'[c] # products[p].org
         /\ op[c] = "list" /\ reply'[c] \in {"403", "none yet"} => scope[c] # products[p].org
<1>0. TypeOK /\ Knows(c)
  BY DEF Inv
<1>1. CASE reply'[c] = reply[c]
  <2>1. None \notin {"403", "404", "none yet"}
    BY NoneAssumption DEF Replies
  <2>. QED BY <1>0, <1>1, <2>1 DEF Knows
<1>2. CASE reply'[c] # reply[c]
  <2>0. products[p].org # None /\ products[p].org \in DOMAIN orgs
    <3>1. products[p].org \in Orgs
      BY <1>0 DEF TypeOK
    <3>. QED BY <3>1, NoneAssumption DEF Inv, OrganizationsHaveRows
  <2>1. ASSUME NEW s, Answer(c, s)
        PROVE  reply'[c] = s
    BY <1>0, <2>1 DEF Answer, TypeOK
  <2>2. CASE Snapshot(c)
    <3>1. CASE op[c] = "create"
      <4>1. Answer(c, "403") \/ Goto(c, "insert")
        BY <2>2, <3>1 DEF Snapshot
      <4>. QED BY <1>2, <2>1, <3>1, <4>1 DEF Goto
    <3>2. CASE op[c] # "create"
      <4>1. PICK o \in recent[user[c]] :
              /\ scope' = [scope EXCEPT ![c] = o]
              /\ IF o = None THEN Unscoped(c) ELSE Goto(c, "org")
        BY <2>2, <3>2 DEF Snapshot
      <4>2. o = None /\ op[c] # "list" /\ Answer(c, "404")
        BY <1>2, <4>1 DEF Unscoped, Goto
      <4>. QED BY <1>0, <2>0, <2>1, <4>1, <4>2 DEF TypeOK
    <3>. QED BY <3>1, <3>2
  \* The row of the product's organization is there.
  <2>3. CASE FindOrg(c)
    <3>1. Unscoped(c) /\ scope' = scope /\ scope[c] \notin DOMAIN orgs
      BY <1>2, <2>3 DEF FindOrg, Goto
    <3>2. op[c] # "list" /\ Answer(c, "404")
      BY <1>2, <3>1 DEF Unscoped, Goto
    <3>. QED BY <2>0, <2>1, <3>1, <3>2
  <2>4. CASE SnapshotAgain(c)
    <3>1. scope[c] # products[p].org
      BY <1>0, <2>4 DEF SnapshotAgain, Knows
    <3>2. Answer(c, "403") \/ Answer(c, "none yet")
      BY <2>4 DEF SnapshotAgain
    <3>. QED BY <2>1, <3>1, <3>2
  <2>5. CASE Find(c)
    <3>1. scope' = scope /\ (Answer(c, "ok") \/ (Answer(c, "404") /\ ~Visible(c)))
      BY <1>2, <2>5 DEF Find, Goto
    <3>2. target[c] = p /\ ~Visible(c) => scope[c] # products[p].org
      BY DEF Visible
    <3>. QED BY <2>1, <3>1, <3>2
  <2>6. CASE \/ \E q \in Products : Create(c, q)
             \/ \E r \in Requests : Ask(c, r)
             \/ Edit(c) \/ Cancel(c) \/ Delete(c) \/ Count(c)
    <3>1. (\E s \in {"ok", "409", "500"} : Answer(c, s)) \/ Goto(c, "delete")
      BY <2>6 DEF Create, Ask, Edit, Cancel, Delete, Count
    <3>. QED BY <1>2, <2>1, <3>1 DEF Goto
  <2>. QED BY <1>2, <2>2, <2>3, <2>4, <2>5, <2>6, StepOfCall
<1>. QED BY <1>1, <1>2

\* Whoever is turned away over a product that is there all the while was told by his own
\* look at the snapshot that he is not in its organization, however late that
\* organization got its row.
THEOREM Refusals == Spec => RefusalsJustified
<1>1. Inv /\ [Next]_vars =>
        [\A c \in Calls : \A p \in seen[c] \cap DOMAIN products : pc[c] # "idle" =>
           /\ reply'[c] = "404" /\ target[c] = p => scope'[c] # products[p].org
           /\ op[c] = "list" /\ reply'[c] \in {"403", "none yet"} =>
                scope[c] # products[p].org]_vars
  BY JustifiedRefusal
<1>. QED BY SpecInv, <1>1, PTL DEF Spec, RefusalsJustified

=============================================================================
