------------------------------ MODULE Listing ------------------------------
(***************************************************************************)
(* GET /feedback/requests: a client walks the pages of findAll, passing    *)
(* each nextCursor back, while requests of its organization are created    *)
(* and change status.  Only the status filter is modelled: the other       *)
(* filters look at columns that nothing changes.                           *)
(*                                                                         *)
(* Bounds: Ids are the requests there will ever be, MaxTime ends the clock.*)
(***************************************************************************)
EXTENDS Naturals, FiniteSets

CONSTANTS Ids,         \* request ids, compared as PostgreSQL compares the texts
          Limit,       \* query.limit
          Filter,      \* query.status, or None
          Lag,         \* how far behind the clock a committed createdAt may be
          MaxTime,
          None

ASSUME NumbersAssumption ==
  Ids \subseteq Nat /\ Limit \in Nat \ {0} /\ Lag \in Nat /\ MaxTime \in Nat
ASSUME NoneAssumption == None \notin Nat

VARIABLES
  now,
  requests,    \* the organization's feedback_requests: id -> [createdAt, status]
  walk,        \* the client's walk: "idle", "next" (it holds a cursor), "done"
  cursor,      \* the nextCursor it holds
  returned,    \* how often the walk was given a request
  steady       \* requests that matched when the walk began, and ever since

vars == <<now, requests, walk, cursor, returned, steady>>

Rank == [PENDING |-> 0, OPENED |-> 1, COMPLETED |-> 2, CANCELLED |-> 3]
Status == DOMAIN Rank

TypeOK ==
  /\ now \in 0..MaxTime
  /\ DOMAIN requests \subseteq Ids
  /\ requests \in [DOMAIN requests -> [createdAt : 0..MaxTime, status : Status]]
  /\ walk \in {"idle", "next", "done"}
  /\ cursor \in DOMAIN requests \cup {None}
  /\ returned \in [Ids -> Nat]
  /\ steady \subseteq DOMAIN requests

Init ==
  /\ now = 0
  /\ requests = [i \in {} |-> None]
  /\ walk = "idle"
  /\ cursor = None
  /\ returned = [i \in Ids |-> 0]
  /\ steady = {}

-----------------------------------------------------------------------------
(* The table.                                                              *)

Matches(row) == Filter = None \/ row.status = Filter
Matching == {i \in DOMAIN requests : Matches(requests[i])}

Tick ==
  /\ now < MaxTime
  /\ now' = now + 1
  /\ UNCHANGED <<requests, walk, cursor, returned, steady>>

\* A row becomes visible when it commits, a little after its createdAt.
Create(i, t) ==
  /\ i \notin DOMAIN requests
  /\ t <= now /\ now <= t + Lag
  /\ requests' = [j \in DOMAIN requests \cup {i} |->
                    IF j = i THEN [createdAt |-> t, status |-> "PENDING"] ELSE requests[j]]
  /\ UNCHANGED <<now, walk, cursor, returned, steady>>

\* Fault: a sweep marks a request EXPIRED.
ChangeStatusSwept(i, s) ==
  /\ i \in DOMAIN requests
  /\ requests' = [requests EXCEPT ![i].status = "EXPIRED"]
  /\ UNCHANGED <<now, walk, cursor, returned, steady>>

\* A view, a submit or a cancel.
ChangeStatus(i, s) ==
  /\ i \in DOMAIN requests
  /\ Rank[requests[i].status] < Rank[s]
  /\ requests' = [requests EXCEPT ![i].status = s]
  /\ steady' = {j \in steady : Matches(requests'[j])}
  /\ UNCHANGED <<now, walk, cursor, returned>>

-----------------------------------------------------------------------------
(* findAll.                                                                *)

\* orderBy: [{ createdAt: 'desc' }, { id: 'desc' }]
Before(i, j) ==
  \/ requests[i].createdAt > requests[j].createdAt
  \/ requests[i].createdAt = requests[j].createdAt /\ i > j

First(S, n) == {i \in S : Cardinality({j \in S : Before(j, i)}) < n}

\* Fault: skip is forgotten.
FromUnskipped(cur) == {i \in Matching : cur = None \/ i = cur \/ Before(cur, i)}

\* Fault: the cursor's row is left out, not sought.
FromExcluded(cur) == Matching \ {cur}

\* Prisma: the rows of the WHERE clause from the place of the cursor's row on, in
\* the order, less the first of them (skip: 1).
From(cur) ==
  IF cur = None
  THEN Matching
  ELSE LET S == {i \in Matching : i = cur \/ Before(cur, i)} IN S \ First(S, 1)

\* Fault: take is limit, so that no row tells of a next page.
RowsTaken(cur) == First(From(cur), Limit)

\* take: limit + 1
Rows(cur) == First(From(cur), Limit + 1)

Items(rows) == First(rows, Limit)
HasMore(rows) == Cardinality(rows) > Limit

LastOf(items) == CHOOSE i \in items : \A j \in items : i = j \/ Before(j, i)

Respond(rows, before) ==
  /\ returned' = [i \in Ids |-> before[i] + (IF i \in Items(rows) THEN 1 ELSE 0)]
  /\ walk' = IF HasMore(rows) THEN "next" ELSE "done"
  /\ cursor' = IF HasMore(rows) THEN LastOf(Items(rows)) ELSE None
  /\ UNCHANGED <<now, requests>>

\* No cursor, or one that decodeCursor takes for none.
FirstPage ==
  /\ Respond(Rows(None), [i \in Ids |-> 0])
  /\ steady' = Matching

NextPage ==
  /\ walk = "next"
  /\ Respond(Rows(cursor), returned)
  /\ UNCHANGED steady

Next ==
  \/ Tick
  \/ \E i \in Ids : (\E t \in 0..MaxTime : Create(i, t)) \/ (\E s \in Status : ChangeStatus(i, s))
  \/ FirstPage \/ NextPage

Spec == Init /\ [][Next]_vars

-----------------------------------------------------------------------------
(* Properties.                                                             *)

\* No request is shown twice in a walk, whatever is created, also with an older
\* createdAt, or changes status between two pages.
NoRepeat == \A i \in Ids : returned[i] <= 1

\* A walk ends with every request that was there, and matched, all the while (limit
\* + 1 rows are read to know whether there are more).  pagination.util.ts: the id is
\* "a sufficient, unambiguous resume point via Prisma's cursor/skip mechanism".  It
\* is without a filter; a cursor row that leaves the filter takes another with it.
WalkComplete == walk = "done" => \A i \in steady : returned[i] >= 1

\* Every next page ends behind the one before, so a walk cannot go in circles.
CursorAdvances == [][NextPage /\ walk' = "next" => Before(cursor, cursor')]_vars

=============================================================================
