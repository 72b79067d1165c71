----------------------------- MODULE Catalogue -----------------------------
(***************************************************************************)
(* ProductsService and the organization scope of FeedbackService: products *)
(* belong to an organization, feedback requests to a product and, once     *)
(* more, to its organization, and a caller reaches those of the            *)
(* organization that getOrganizationSnapshot names.  OrganizationSnapshot  *)
(* shows that this is one the user's row named lately; here, any such one. *)
(* The row changes only when the user syncs, and not always to where he    *)
(* is: a sync whose request to Clerk failed stores no organization.        *)
(*                                                                         *)
(* Bounds: Products and Requests are all that will ever be created,        *)
(* MaxSyncs the syncs.                                                     *)
(***************************************************************************)
EXTENDS Naturals

CONSTANTS Users, Calls, Orgs, Products, Requests, MaxSyncs, None

\* "none yet": an empty list, since the organization has no row.
Replies == {"ok", "none yet", "403", "404", "409", "500"}

ASSUME MaxSyncsAssumption == MaxSyncs \in Nat
ASSUME NoneAssumption ==
  None \notin Orgs \cup Products \cup Requests \cup Users \cup Replies
ASSUME IdsAssumption == Products \cap Requests = {}

OnProduct == {"get", "edit", "remove", "ask"}    \* "ask": POST /feedback/requests
OnRequest == {"getRequest", "cancel"}

VARIABLES
  recent,      \* recent[u]: what the row of u named lately, so what a snapshot may
               \* name; None: no organization
  syncs,       \* syncs so far
  orgs,        \* organizations: clerkOrgId -> does it have display data?
  products,    \* products: id -> [org, edited]
  removed,     \* products that have been deleted; an id is not used again
  requests,    \* feedback_requests: id -> [product, org, cancelled]
  pc, user,
  op, target,  \* the operation of a call, and the id it names
  scope,       \* scope[c]: the organization the call is scoped by
  found,       \* found[c]: the organizationId of the row findOne returned
  seen,        \* seen[c]: products that were there when the call began
  reply        \* reply[c]: how the last call was answered

callVars == <<pc, user, op, target, scope, found, seen, reply>>
tables == <<orgs, products, removed, requests>>
vars == <<recent, syncs, tables, callVars>>

Ops == OnProduct \cup OnRequest \cup {"create", "list"}

TypeOK ==
  /\ recent \in [Users -> (SUBSET (Orgs \cup {None})) \ {{}}]
  /\ syncs \in 0..MaxSyncs
  /\ DOMAIN orgs \subseteq Orgs /\ orgs \in [DOMAIN orgs -> BOOLEAN]
  /\ DOMAIN products \subseteq Products
  /\ products \in [DOMAIN products -> [org : Orgs, edited : BOOLEAN]]
  /\ removed \subseteq Products \ DOMAIN products
  /\ DOMAIN requests \subseteq Requests
  /\ requests \in [DOMAIN requests -> [product : Products, org : Orgs, cancelled : BOOLEAN]]
  /\ pc \in [Calls -> {"idle", "snapshot", "org", "again", "insert", "find", "act",
                       "delete"}]
  /\ user \in [Calls -> Users \cup {None}]
  /\ op \in [Calls -> Ops \cup {None}]
  /\ target \in [Calls -> Products \cup Requests \cup {None}]
  /\ scope \in [Calls -> Orgs \cup {None}]
  /\ found \in [Calls -> Orgs \cup {None}]
  /\ seen \in [Calls -> SUBSET Products]
  /\ reply \in [Calls -> Replies \cup {None}]

Init ==
  /\ recent \in [Users -> {{o} : o \in Orgs \cup {None}}]
  /\ syncs = 0
  /\ orgs = [o \in {} |-> FALSE]
  /\ products = [p \in {} |-> None]
  /\ removed = {}
  /\ requests = [r \in {} |-> None]
  /\ pc = [c \in Calls |-> "idle"]
  /\ user = [c \in Calls |-> None]
  /\ op = [c \in Calls |-> None]
  /\ target = [c \in Calls |-> None]
  /\ scope = [c \in Calls |-> None]
  /\ found = [c \in Calls |-> None]
  /\ seen = [c \in Calls |-> {}]
  /\ reply = [c \in Calls |-> None]

Insert(table, key, row) ==
  [k \in DOMAIN table \cup {key} |-> IF k = key THEN row ELSE table[k]]

-----------------------------------------------------------------------------
(* The surroundings.                                                       *)

\* syncFromClerk stores what Clerk names, or no organization when it names none or the
\* request failed.  A cached row, or a call under way, may still name the one before.
Sync(u, o) ==
  /\ syncs < MaxSyncs
  /\ syncs' = syncs + 1
  /\ recent' = [recent EXCEPT ![u] = @ \cup {o}]
  /\ UNCHANGED <<tables, callVars>>

\* Cache entries of before the sync are over, and so are the calls.
Settle(u, o) ==
  /\ o \in recent[u]
  /\ \A c \in Calls : user[c] # u
  /\ recent' = [recent EXCEPT ![u] = {o}]
  /\ UNCHANGED <<syncs, tables, callVars>>

\* The upsert of reconcileOrgBilling: billing columns only.
ReconcileOrg(o) ==
  /\ orgs' = IF o \in DOMAIN orgs THEN orgs ELSE Insert(orgs, o, FALSE)
  /\ UNCHANGED <<recent, syncs, products, removed, requests, callVars>>

-----------------------------------------------------------------------------
(* Calls.                                                                  *)

Goto(c, label) == pc' = [pc EXCEPT ![c] = label] /\ UNCHANGED <<user, op, target, seen, reply>>

Answer(c, status) ==
  /\ pc' = [pc EXCEPT ![c] = "idle"]
  /\ user' = [user EXCEPT ![c] = None]
  /\ op' = [op EXCEPT ![c] = None]
  /\ target' = [target EXCEPT ![c] = None]
  /\ seen' = [seen EXCEPT ![c] = {}]
  /\ reply' = [reply EXCEPT ![c] = status]

Begin(c, u, o, id) ==
  /\ pc[c] = "idle"
  /\ o \in OnProduct => id \in Products
  /\ o \in OnRequest => id \in Requests
  /\ o \in {"create", "list"} => id = None
  /\ pc' = [pc EXCEPT ![c] = "snapshot"]
  /\ user' = [user EXCEPT ![c] = u]
  /\ op' = [op EXCEPT ![c] = o]
  /\ target' = [target EXCEPT ![c] = id]
  /\ scope' = [scope EXCEPT ![c] = None]
  /\ found' = [found EXCEPT ![c] = None]
  /\ seen' = [seen EXCEPT ![c] = DOMAIN products]
  /\ reply' = [reply EXCEPT ![c] = None]
  /\ UNCHANGED <<recent, syncs, tables>>

\* The caller's organization has no row (or the caller no organization).
Unscoped(c) == IF op[c] = "list" THEN Goto(c, "again") ELSE Answer(c, "404")

\* Fault: create takes whatever the snapshot says.
SnapshotUnrefused(c) ==
  /\ pc[c] = "snapshot"
  /\ \E o \in recent[user[c]] :
       /\ scope' = [scope EXCEPT ![c] = o]
       /\ IF op[c] = "create" THEN Goto(c, "insert")
          ELSE IF o = None THEN Unscoped(c) ELSE Goto(c, "org")
  /\ UNCHANGED <<recent, syncs, tables, found>>

Snapshot(c) ==
  /\ pc[c] = "snapshot"
  /\ \E o \in recent[user[c]] :
       /\ scope' = [scope EXCEPT ![c] = o]
       /\ IF op[c] = "create"
          THEN IF o = None THEN Answer(c, "403") ELSE Goto(c, "insert")
          ELSE IF o = None THEN Unscoped(c) ELSE Goto(c, "org")
  /\ UNCHANGED <<recent, syncs, tables, found>>

\* resolveCallerOrganizationId: the organization's local row.
FindOrg(c) ==
  /\ pc[c] = "org"
  /\ IF scope[c] \in DOMAIN orgs THEN Goto(c, "find") ELSE Unscoped(c)
  /\ UNCHANGED <<recent, syncs, tables, scope, found>>

\* findAll asks for the snapshot once more to tell the two cases apart.
SnapshotAgain(c) ==
  /\ pc[c] = "again"
  /\ \E o \in recent[user[c]] :
       /\ scope' = [scope EXCEPT ![c] = o]
       /\ Answer(c, IF o = None THEN "403" ELSE "none yet")
  /\ UNCHANGED <<recent, syncs, tables, found>>

\* The transaction of ProductsService.create.
Create(c, p) ==
  /\ pc[c] = "insert"
  /\ p \notin DOMAIN products \cup removed
  /\ orgs' = IF scope[c] \in DOMAIN orgs THEN orgs ELSE Insert(orgs, scope[c], TRUE)
  /\ products' = Insert(products, p, [org |-> scope[c], edited |-> FALSE])
  /\ Answer(c, "ok")
  /\ UNCHANGED <<recent, syncs, removed, requests, scope, found>>

\* Fault: only the existence of the row is checked.
VisibleAnywhere(c) == target[c] \in DOMAIN products \cup DOMAIN requests

\* Fault: the snapshot's organization is taken for the row's.
VisibleInOther(c) ==
  \/ target[c] \in DOMAIN products /\ products[target[c]].org # scope[c]
  \/ target[c] \in DOMAIN requests /\ requests[target[c]].org # scope[c]

\* The row a call names exists and belongs to its organization.
Visible(c) ==
  \/ target[c] \in DOMAIN products /\ products[target[c]].org = scope[c]
  \/ target[c] \in DOMAIN requests /\ requests[target[c]].org = scope[c]

\* findOne of either service; for "list", findMany.
Find(c) ==
  /\ pc[c] = "find"
  /\ IF op[c] = "list" THEN Answer(c, "ok") /\ UNCHANGED found
     ELSE IF ~Visible(c) THEN Answer(c, "404") /\ UNCHANGED found
     ELSE /\ found' = [found EXCEPT ![c] = IF target[c] \in Products
                                           THEN products[target[c]].org
                                           ELSE requests[target[c]].org]
          /\ IF op[c] \in {"get", "getRequest"} THEN Answer(c, "ok") ELSE Goto(c, "act")
  /\ UNCHANGED <<recent, syncs, tables, scope>>

\* prisma.product.update throws when the row is gone.
Edit(c) ==
  /\ pc[c] = "act" /\ op[c] = "edit"
  /\ IF target[c] \in DOMAIN products
     THEN products' = [products EXCEPT ![target[c]].edited = TRUE] /\ Answer(c, "ok")
     ELSE Answer(c, "500") /\ UNCHANGED products
  /\ UNCHANGED <<recent, syncs, orgs, removed, requests, scope, found>>

\* Fault: the insert does not check the foreign key.
ReferencesNothing(p) == TRUE

\* The foreign key of feedback_requests.productId.
References(p) == p \in DOMAIN products

\* FeedbackService.create after findOne.
Ask(c, r) ==
  /\ pc[c] = "act" /\ op[c] = "ask"
  /\ r \notin DOMAIN requests
  /\ IF References(target[c])
     THEN /\ requests' = Insert(requests, r, [product |-> target[c], org |-> found[c],
                                              cancelled |-> FALSE])
          /\ Answer(c, "ok")
     ELSE Answer(c, "500") /\ UNCHANGED requests
  /\ UNCHANGED <<recent, syncs, orgs, products, removed, scope, found>>

\* FeedbackService.update; FeedbackRequests has the 409 for a submitted request.
Cancel(c) ==
  /\ pc[c] = "act" /\ op[c] = "cancel"
  /\ requests' = [requests EXCEPT ![target[c]].cancelled = TRUE]
  /\ Answer(c, "ok")
  /\ UNCHANGED <<recent, syncs, orgs, products, removed, scope, found>>

Dependents(p) == {r \in DOMAIN requests : requests[r].product = p}

Count(c) ==
  /\ pc[c] = "act" /\ op[c] = "remove"
  /\ IF Dependents(target[c]) # {} THEN Answer(c, "409") ELSE Goto(c, "delete")
  /\ UNCHANGED <<recent, syncs, tables, scope, found>>

\* The delete throws when the row is gone or is referenced.
Delete(c) ==
  /\ pc[c] = "delete"
  /\ IF target[c] \in DOMAIN products /\ Dependents(target[c]) = {}
     THEN /\ products' = [p \in DOMAIN products \ {target[c]} |-> products[p]]
          /\ removed' = removed \cup {target[c]}
          /\ Answer(c, "ok")
     ELSE Answer(c, "500") /\ UNCHANGED <<products, removed>>
  /\ UNCHANGED <<recent, syncs, orgs, requests, scope, found>>

Next ==
  \/ \E u \in Users, o \in Orgs \cup {None} : Sync(u, o) \/ Settle(u, o)
  \/ \E o \in Orgs : ReconcileOrg(o)
  \/ \E c \in Calls :
       \/ \E u \in Users, o \in Ops, id \in Products \cup Requests \cup {None} :
            Begin(c, u, o, id)
       \/ Snapshot(c) \/ FindOrg(c) \/ SnapshotAgain(c) \/ Find(c)
       \/ \E p \in Products : Create(c, p)
       \/ \E r \in Requests : Ask(c, r)
       \/ Edit(c) \/ Cancel(c) \/ Count(c) \/ Delete(c)

Spec == Init /\ [][Next]_vars

-----------------------------------------------------------------------------
(* Properties.                                                             *)

\* organizationId is stored twice: a request's is that of its product, and the
\* product is there as long as the request (a customer may hold its link), although
\* remove counts requests in one step and deletes in another.
RequestsFollowProducts ==
  \A r \in DOMAIN requests :
    /\ requests[r].product \in DOMAIN products
    /\ requests[r].org = products[requests[r].product].org

\* The organizations of the rows in which two states of a table differ.
Touched(t, t2) ==
  LET same == {k \in DOMAIN t \cap DOMAIN t2 : t[k] = t2[k]} IN
  {t[k].org : k \in DOMAIN t \ same} \cup {t2[k].org : k \in DOMAIN t2 \ same}

\* A step of a call changes rows only of an organization its user's row named lately,
\* although updates and deletes name the id alone and rely on a read made before.
WritesStayInScope ==
  [][\A c \in Calls : pc[c] # "idle" /\ pc'[c] # pc[c] =>
       Touched(products, products') \cup Touched(requests, requests')
         \subseteq recent[user[c]]]_vars

\* A call that is turned away over a product that was there all the while (it is not
\* found, its organization is said to have none, or the caller to have no organization)
\* has been told by its own look at the snapshot, the first if there are two, that the
\* caller is not in the product's organization.  That the organization's row is made on
\* demand, by a product or by billing, hides no product from its organization.
RefusalsJustified ==
  [][\A c \in Calls : \A p \in seen[c] \cap DOMAIN products : pc[c] # "idle" =>
       /\ reply'[c] = "404" /\ target[c] = p => scope'[c] # products[p].org
       /\ op[c] = "list" /\ reply'[c] \in {"403", "none yet"} =>
            scope[c] # products[p].org]_vars

-----------------------------------------------------------------------------
(* What the repository says of products and the code does not keep.        *)

\* products.service.ts: "Cannot delete this product — it has n associated feedback
\* request(s). Cancel them first."
CancelledRequestsDoNotBlock ==
  [][\A c \in Calls : pc[c] = "act" /\ reply'[c] = "409" =>
       \E r \in Dependents(target[c]) : ~requests[r].cancelled]_vars

\* products.service.ts, findAll: it answers with no product if the "Org exists in
\* Clerk, just no local row/products yet".
EmptyListMeansNoProducts ==
  [][\A c \in Calls : pc[c] = "again" /\ reply'[c] = "none yet" =>
       \A p \in seen[c] \cap DOMAIN products : products[p].org # scope'[c]]_vars

\* products.service.ts, create: it leaves an organization's display data alone since
\* "reconcileOrgBilling owns that".
ReconcileOwnsDisplayData == [][\A o \in Orgs : ReconcileOrg(o) => orgs'[o]]_vars

=============================================================================
