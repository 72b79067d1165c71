------------------------ MODULE OrganizationSnapshot ------------------------
(***************************************************************************)
(* UsersService: POST /users/sync and the user-sync job copy a user's      *)
(* profile from Clerk into the users table and, write-through, the cache;  *)
(* getOrganizationSnapshot reads the organization back through the cache.  *)
(* Products, feedback requests and entitlement are scoped by that answer.  *)
(*                                                                         *)
(* Time: a handler takes less than a tick (Tick waits for all of them).    *)
(* Bounds: MaxTime, MaxChanges at Clerk, MaxFaults failed Clerk requests.  *)
(***************************************************************************)
EXTENDS Naturals

CONSTANTS Users, Calls, Orgs, Emails,
          CacheTtl,      \* USER_CACHE_TTL_SECONDS, in ticks
          RedisFails,    \* may a cache command fail?
          MaxTime, MaxChanges, MaxFaults,
          None, Unasked

ASSUME NumbersAssumption ==
  CacheTtl \in Nat \ {0} /\ MaxTime \in Nat /\ MaxChanges \in Nat /\ MaxFaults \in Nat

Profile == [email : Emails \cup {None}, org : Orgs \cup {None}]

ASSUME NoneAssumption ==
  None \notin Orgs \cup Emails \cup Users \cup Profile /\ Unasked \notin Orgs \cup {None}

VARIABLES
  now,
  clerk,             \* Clerk's profile of each user
  rows,              \* users: clerkId -> columns
  cache,             \* cache[u]: [row, expires], or None
  past,              \* past[u]: <<organization in the row, when>>, the last CacheTtl ticks
  answer,            \* answer[u]: the last snapshot handed out in this tick, or Unasked
  pc, user, got,     \* a call's next step, its user, the profile it fetched or read
  changes, faults

callVars == <<pc, user, got>>
vars == <<now, clerk, rows, cache, past, answer, callVars, changes, faults>>

\* The organization of a row that may not be there.
OrgOf(row) == IF row = None THEN None ELSE row.org
Row(u) == IF u \in DOMAIN rows THEN rows[u] ELSE None

\* Clerk gives an email to one user at a time.
EmailFree(profiles, u, email) ==
  email = None \/ \A v \in Users \ {u} : profiles[v].email # email

TypeOK ==
  /\ now \in 0..MaxTime
  /\ clerk \in [Users -> Profile]
  /\ DOMAIN rows \subseteq Users
  /\ rows \in [DOMAIN rows -> Profile]
  /\ cache \in [Users -> [row : Profile, expires : Nat] \cup {None}]
  /\ past \in [Users -> SUBSET ((Orgs \cup {None}) \X (0..MaxTime))]
  /\ answer \in [Users -> Orgs \cup {None, Unasked}]
  /\ pc \in [Calls -> {"idle", "fetchOrg", "upsert", "cache", "readRow", "fill"}]
  /\ user \in [Calls -> Users \cup {None}]
  /\ got \in [Calls -> Profile \cup {None}]
  /\ changes \in 0..MaxChanges /\ faults \in 0..MaxFaults

Init ==
  /\ now = 0
  /\ clerk \in {f \in [Users -> Profile] : \A u \in Users : EmailFree(f, u, f[u].email)}
  /\ rows = [u \in {} |-> None]
  /\ cache = [u \in Users |-> None]
  /\ past = [u \in Users |-> {<<None, 0>>}]
  /\ answer = [u \in Users |-> Unasked]
  /\ pc = [c \in Calls |-> "idle"]
  /\ user = [c \in Calls |-> None]
  /\ got = [c \in Calls |-> None]
  /\ changes = 0 /\ faults = 0

-----------------------------------------------------------------------------
(* The surroundings.                                                       *)

\* A user joins or leaves an organization, or changes email.
ClerkChanges(u, profile) ==
  /\ changes < MaxChanges
  /\ EmailFree(clerk, u, profile.email)
  /\ clerk' = [clerk EXCEPT ![u] = profile]
  /\ changes' = changes + 1
  /\ UNCHANGED <<now, rows, cache, past, answer, callVars, faults>>

Tick ==
  /\ now < MaxTime
  /\ \A c \in Calls : pc[c] = "idle"
  /\ now' = now + 1
  /\ cache' = [u \in Users |->
                 IF cache[u] # None /\ cache[u].expires <= now' THEN None ELSE cache[u]]
  /\ past' = [u \in Users |->
                {e \in past[u] : now' < e[2] + CacheTtl} \cup {<<OrgOf(Row(u)), now'>>}]
  /\ answer' = [u \in Users |-> Unasked]
  /\ UNCHANGED <<clerk, rows, callVars, changes, faults>>

Fault == faults < MaxFaults /\ faults' = faults + 1

Goto(c, label) == pc' = [pc EXCEPT ![c] = label]

Return(c) ==
  /\ Goto(c, "idle")
  /\ user' = [user EXCEPT ![c] = None]
  /\ got' = [got EXCEPT ![c] = None]

\* Fault: the entry is written without its EX.
SetForever(u, row) ==
  cache' = [cache EXCEPT ![u] = IF row = None THEN None ELSE [row |-> row, expires |-> None]]

\* CacheService.set.  An entry "null" is read as a miss.
Set(u, row) ==
  \/ cache' = [cache EXCEPT ![u] =
                 IF row = None THEN None ELSE [row |-> row, expires |-> now + CacheTtl]]
  \/ RedisFails /\ UNCHANGED cache

-----------------------------------------------------------------------------
(* syncFromClerk.                                                          *)

\* getUserById; null is a 404, and a retry of the job.
FetchUser(c, u) ==
  /\ pc[c] = "idle"
  /\ \/ /\ got' = [got EXCEPT ![c] = [clerk[u] EXCEPT !.org = None]]
        /\ user' = [user EXCEPT ![c] = u]
        /\ Goto(c, "fetchOrg")
        /\ UNCHANGED faults
     \/ Fault /\ UNCHANGED callVars
  /\ UNCHANGED <<now, clerk, rows, cache, past, answer, changes>>

\* getUserPrimaryOrganization turns a failed request into null.
FetchOrg(c) ==
  /\ pc[c] = "fetchOrg"
  /\ \/ got' = [got EXCEPT ![c].org = clerk[user[c]].org] /\ UNCHANGED faults
     \/ Fault /\ UNCHANGED got
  /\ Goto(c, "upsert")
  /\ UNCHANGED <<now, clerk, rows, cache, past, answer, user, changes>>

EmailTaken(u, row) ==
  \E v \in DOMAIN rows \ {u} : row.email # None /\ rows[v].email = row.email

\* users.email is unique; no organization is stored as DbNull.
Upsert(c) ==
  /\ pc[c] = "upsert"
  /\ IF EmailTaken(user[c], got[c])
     THEN Return(c) /\ UNCHANGED <<rows, past>>
     ELSE /\ rows' = [u \in DOMAIN rows \cup {user[c]} |->
                        IF u = user[c] THEN got[c] ELSE rows[u]]
          /\ past' = [past EXCEPT ![user[c]] = @ \cup {<<got[c].org, now>>}]
          /\ Goto(c, "cache")
          /\ UNCHANGED <<user, got>>
  /\ UNCHANGED <<now, clerk, cache, answer, changes, faults>>

CacheUser(c) ==
  /\ pc[c] = "cache"
  /\ Set(user[c], got[c])
  /\ Return(c)
  /\ UNCHANGED <<now, clerk, rows, past, answer, changes, faults>>

-----------------------------------------------------------------------------
(* getOrganizationSnapshot.                                                *)

\* Fault: a hit renews the entry.
ReadCacheSliding(c, u) ==
  /\ pc[c] = "idle"
  /\ IF cache[u] # None
     THEN /\ answer' = [answer EXCEPT ![u] = cache[u].row.org]
          /\ Set(u, cache[u].row)
          /\ UNCHANGED callVars
     ELSE /\ user' = [user EXCEPT ![c] = u]
          /\ Goto(c, "readRow")
          /\ UNCHANGED <<got, answer, cache>>
  /\ UNCHANGED <<now, clerk, rows, past, changes, faults>>

ReadCache(c, u) ==
  /\ pc[c] = "idle"
  /\ \/ /\ cache[u] # None
        /\ answer' = [answer EXCEPT ![u] = cache[u].row.org]
        /\ UNCHANGED callVars
     \/ /\ cache[u] = None \/ RedisFails
        /\ user' = [user EXCEPT ![c] = u]
        /\ Goto(c, "readRow")
        /\ UNCHANGED <<got, answer>>
  /\ UNCHANGED <<now, clerk, rows, cache, past, changes, faults>>

ReadRow(c) ==
  /\ pc[c] = "readRow"
  /\ got' = [got EXCEPT ![c] = Row(user[c])]
  /\ Goto(c, "fill")
  /\ UNCHANGED <<now, clerk, rows, cache, past, answer, user, changes, faults>>

Fill(c) ==
  /\ pc[c] = "fill"
  /\ Set(user[c], got[c])
  /\ answer' = [answer EXCEPT ![user[c]] = OrgOf(got[c])]
  /\ Return(c)
  /\ UNCHANGED <<now, clerk, rows, past, changes, faults>>

Next ==
  \/ Tick
  \/ \E u \in Users, profile \in Profile : ClerkChanges(u, profile)
  \/ \E c \in Calls :
       \/ \E u \in Users : FetchUser(c, u) \/ ReadCache(c, u)
       \/ FetchOrg(c) \/ Upsert(c) \/ CacheUser(c) \/ ReadRow(c) \/ Fill(c)

Spec == Init /\ [][Next]_vars

-----------------------------------------------------------------------------
(* Properties.                                                             *)

Recent == INSTANCE RecentValue
            WITH Keys <- Users,
                 value <- [u \in Users |-> OrgOf(Row(u))],
                 window <- [u \in Users |-> {e[1] : e \in past[u]}]

\* However syncs and reads overlap and cache commands fail, the organization a
\* request is scoped by is one its row named within the life of a cache entry.
SnapshotRecent == Recent!Spec

-----------------------------------------------------------------------------
(* What the repository says of the sync and the code does not keep.        *)

\* users.service.ts: the write-through leaves "no stale-read window".  With Redis up,
\* once no sync of a user is between its two writes, an entry shows the row.
NoStaleEntry ==
  \A u \in Users :
    cache[u] # None /\ (\A c \in Calls : pc[c] = "cache" => user[c] # u)
      => cache[u].row = Row(u)

\* users.service.ts: "syncFromClerk always has the freshest value in hand"; and
\* queue-defaults.ts: the job is "transient-failure-tolerant".  A row that agrees with
\* Clerk about the organization is not made to disagree by a sync.
SyncKeepsOrganization ==
  [][\A u \in DOMAIN rows :
       rows[u].org = clerk[u].org => rows'[u].org = clerk[u].org]_<<rows>>

\* users.controller.ts: a sync fetches the profile "and upserts it into the local
\* users table".
SyncUpserts ==
  [][\A c \in Calls : pc[c] = "upsert" /\ pc'[c] # "upsert" => pc'[c] = "cache"]_vars

=============================================================================
