-------------------------- MODULE FeedbackRequests --------------------------
(***************************************************************************)
(* FeedbackService and PublicFeedbackTokenGuard over the feedback_requests *)
(* and feedback_submissions tables.                                        *)
(*                                                                         *)
(* Every HTTP request the server ever handles is an element of Calls and   *)
(* performs one operation: create, public view, public submit, cancel or   *)
(* edit.  The handlers are async functions: between two awaits anything    *)
(* else may run, so each handler is a sequence of steps, one per database  *)
(* statement or mail delivery, and carries the row it read earlier (seen). *)
(* submitPublic's $transaction holds the row lock from its UPDATE to its   *)
(* commit; nobody sees the uncommitted status, and writers of the row wait.*)
(*                                                                         *)
(* Bounds: Tick stops at MaxTime; Expiries is the set of dates a PATCH may *)
(* name.                                                                   *)
(***************************************************************************)
EXTENDS Naturals

CONSTANTS Requests,   \* ids a feedback_requests row can get
          Calls,      \* HTTP calls
          Messages,   \* values of optionalMessage
          Expiries,   \* dates a PATCH may put into expiresAt (0 is the epoch)
          LinkTtl,    \* FEEDBACK_LINK_TTL_DAYS, in ticks
          MaxTime,    \* bound on the clock
          None        \* SQL NULL, an absent DTO field, no lock holder

ASSUME TtlAssumption == LinkTtl \in Nat
ASSUME ExpiriesAssumption == Expiries \subseteq Nat

\* The responses of a finished call.
Result == {"Created", "Viewed", "Received", "Updated", "Unchanged",
           "NotFound", "Gone", "Conflict", "Error"}

ASSUME NoneAssumption ==
  None \notin Calls \cup Messages \cup Nat \cup {"SENT", "FAILED"} \cup Result

VARIABLES
  rows,        \* feedback_requests: id -> columns
  answers,     \* feedback_submissions: feedbackRequestId -> the call that submitted
  lock,        \* lock[r]: the call whose open transaction has updated row r
  delivered,   \* requests whose invite reached the customer's mailbox
  now,         \* the wall clock
  pc, req,     \* what a call does next, and the request it works on
  seen,        \* the row as the call read it
  patch,       \* the UpdateFeedbackRequestDto of an edit
  result       \* the response of a finished call

callVars == <<pc, req, seen, patch, result>>
vars == <<rows, answers, lock, delivered, now, callVars>>

-----------------------------------------------------------------------------
Status == {"PENDING", "OPENED", "COMPLETED", "CANCELLED"}

Row == [status : Status,
        message : Messages,
        expiresAt : Nat,
        openedAt : Nat \cup {None},
        openCount : Nat,
        cancelledAt : Nat \cup {None},
        emailStatus : {"SENT", "FAILED", None}]

Patch == [message : Messages \cup {None}, expiresAt : Expiries \cup {None}]

Waiting == {"sendInvite", "recordSent", "recordFailed", "viewCheck", "viewWrite",
            "submitCheck", "submitClaim", "submitInsert", "cancelWrite", "editWrite"}

TypeOK ==
  /\ DOMAIN rows \subseteq Requests
  /\ rows \in [DOMAIN rows -> Row]
  /\ DOMAIN answers \subseteq Requests
  /\ answers \in [DOMAIN answers -> Calls]
  /\ lock \in [Requests -> Calls \cup {None}]
  /\ delivered \subseteq Requests
  /\ now \in Nat
  /\ pc \in [Calls -> Waiting \cup {"idle", "done"}]
  /\ req \in [Calls -> Requests \cup {None}]
  /\ seen \in [Calls -> Row \cup {None}]
  /\ patch \in [Calls -> Patch \cup {None}]
  /\ result \in [Calls -> Result \cup {None}]

-----------------------------------------------------------------------------
\* f extended (or overridden) at x.
With(f, x, v) == [y \in DOMAIN f \cup {x} |-> IF y = x THEN v ELSE f[y]]

IsExpired(row) == row.expiresAt < now

\* getPublicView and submitPublic turn such a link away with 410.
IsGone(row) == row.status = "CANCELLED" \/ IsExpired(row)

\* Two weakened WHERE clauses (faults).
ClaimableUnlessCancelled(row) == row.status # "CANCELLED"
ClaimableUnlessAnswered(row) == row.status # "COMPLETED"

\* The WHERE clause of submitPublic's updateMany.
Claimable(row) == row.status \in {"PENDING", "OPENED"}

NewRow(m) ==
  [status |-> "PENDING", message |-> m, expiresAt |-> now + LinkTtl,
   openedAt |-> None, openCount |-> 0, cancelledAt |-> None, emailStatus |-> None]

\* The plaintext token leaves the server in the invite and in the response of
\* create, nowhere else.
TokenDisclosed(r) ==
  \/ r \in delivered
  \/ \E c \in Calls : req[c] = r /\ result[c] = "Created"

Begin(c, r, label) ==
  /\ pc[c] = "idle"
  /\ pc' = [pc EXCEPT ![c] = label]
  /\ req' = [req EXCEPT ![c] = r]

At(c, label) == pc[c] = label

Goto(c, label) == /\ pc' = [pc EXCEPT ![c] = label]
                  /\ UNCHANGED <<req, seen, patch, result>>

\* The handler returns or throws; what it had read is forgotten with it.
Respond(c, res) ==
  /\ pc' = [pc EXCEPT ![c] = "done"]
  /\ seen' = [seen EXCEPT ![c] = None]
  /\ patch' = [patch EXCEPT ![c] = None]
  /\ result' = [result EXCEPT ![c] = res]
  /\ UNCHANGED req

\* A single UPDATE statement on row r: it waits for an open transaction.
UpdateRow(r, new) ==
  /\ lock[r] = None
  /\ rows' = [rows EXCEPT ![r] = new]

\* Some requests may have been made, and their invites sent, before the server started.
Init ==
  /\ now = 0
  /\ \E old \in SUBSET Requests, m \in Messages :
       rows = [r \in old |-> [NewRow(m) EXCEPT !.emailStatus = "SENT"]]
  /\ delivered = DOMAIN rows
  /\ answers = [r \in {} |-> None]
  /\ lock = [r \in Requests |-> None]
  /\ pc = [c \in Calls |-> "idle"]
  /\ req = [c \in Calls |-> None]
  /\ seen = [c \in Calls |-> None]
  /\ patch = [c \in Calls |-> None]
  /\ result = [c \in Calls |-> None]

-----------------------------------------------------------------------------
(* create: insert the row, send the invite, record what became of it.      *)

CreateInsert(c, r) ==
  /\ Begin(c, r, "sendInvite")
  /\ r \notin DOMAIN rows
  /\ \E m \in Messages : rows' = With(rows, r, NewRow(m))
  /\ UNCHANGED <<answers, lock, delivered, now, seen, patch, result>>

\* Fault: the mail is fired without await, its failure goes unnoticed.
SendInviteUnawaited(c) ==
  /\ At(c, "sendInvite")
  /\ delivered' = delivered \cup {req[c]} \/ UNCHANGED delivered
  /\ Goto(c, "recordSent")
  /\ UNCHANGED <<rows, answers, lock, now>>

SendInvite(c) ==
  /\ At(c, "sendInvite")
  /\ \/ delivered' = delivered \cup {req[c]} /\ Goto(c, "recordSent")
     \/ UNCHANGED delivered /\ Goto(c, "recordFailed")
  /\ UNCHANGED <<rows, answers, lock, now>>

RecordSent(c) ==
  /\ At(c, "recordSent")
  /\ UpdateRow(req[c], [rows[req[c]] EXCEPT !.emailStatus = "SENT"])
  /\ Respond(c, "Created")
  /\ UNCHANGED <<answers, lock, delivered, now>>

\* The UPDATE to SENT sits in the same try block as the mail: when it throws,
\* the catch block runs.
RecordSentThrows(c) ==
  /\ At(c, "recordSent")
  /\ Goto(c, "recordFailed")
  /\ UNCHANGED <<rows, answers, lock, delivered, now>>

RecordFailed(c) ==
  /\ At(c, "recordFailed")
  /\ UpdateRow(req[c], [rows[req[c]] EXCEPT !.emailStatus = "FAILED"])
  /\ Respond(c, "Created")
  /\ UNCHANGED <<answers, lock, delivered, now>>

-----------------------------------------------------------------------------
(* The public surface: the guard resolves the token to a row, the handler  *)
(* then works from that row.                                               *)

ResolveToken(c, r) ==
  /\ r \in DOMAIN rows
  /\ TokenDisclosed(r)
  /\ Begin(c, r, "viewCheck") \/ Begin(c, r, "submitCheck")
  /\ seen' = [seen EXCEPT ![c] = rows[r]]
  /\ UNCHANGED <<rows, answers, lock, delivered, now, patch, result>>

CheckGone(c, from, to) ==
  /\ At(c, from)
  /\ IF IsGone(seen[c]) THEN Respond(c, "Gone") ELSE Goto(c, to)
  /\ UNCHANGED <<rows, answers, lock, delivered, now>>

ViewCheck(c) == CheckGone(c, "viewCheck", "viewWrite")

\* Faults: the first view lacks its WHERE status = PENDING; it counts nothing.
ViewedUnconditionally(stale, row) ==
  IF stale.status # "PENDING" THEN [row EXCEPT !.openCount = @ + 1]
  ELSE [row EXCEPT !.status = "OPENED", !.openedAt = now, !.openCount = @ + 1]

ViewedUncounted(stale, row) ==
  IF stale.status # "PENDING" THEN [row EXCEPT !.openCount = @ + 1]
  ELSE IF row.status = "PENDING"
  THEN [row EXCEPT !.status = "OPENED", !.openedAt = now]
  ELSE row

\* The row after a view by a handler that had read the row as `stale`.
Viewed(stale, row) ==
  IF stale.status # "PENDING" THEN [row EXCEPT !.openCount = @ + 1]
  ELSE IF row.status = "PENDING"
  THEN [row EXCEPT !.status = "OPENED", !.openedAt = now, !.openCount = @ + 1]
  ELSE row

ViewWrite(c) ==
  /\ At(c, "viewWrite")
  /\ UpdateRow(req[c], Viewed(seen[c], rows[req[c]]))
  /\ Respond(c, "Viewed")
  /\ UNCHANGED <<answers, lock, delivered, now>>

SubmitCheck(c) == CheckGone(c, "submitCheck", "submitClaim")

\* Faults: no $transaction around claim and insert; count = 0 not checked.
SubmitClaimUntransacted(c) ==
  /\ At(c, "submitClaim")
  /\ IF Claimable(rows[req[c]])
     THEN /\ rows' = [rows EXCEPT ![req[c]].status = "COMPLETED"]
          /\ Goto(c, "submitInsert")
     ELSE UNCHANGED rows /\ Respond(c, "Conflict")
  /\ UNCHANGED <<answers, lock, delivered, now>>

SubmitClaimUnchecked(c) ==
  /\ At(c, "submitClaim")
  /\ lock[req[c]] = None
  /\ IF Claimable(rows[req[c]])
     THEN lock' = [lock EXCEPT ![req[c]] = c] /\ Goto(c, "submitInsert")
     ELSE UNCHANGED lock /\ Respond(c, "Received")
  /\ UNCHANGED <<rows, answers, delivered, now>>

\* updateMany: count = 1 keeps the row locked, count = 0 throws and rolls back.
SubmitClaim(c) ==
  /\ At(c, "submitClaim")
  /\ lock[req[c]] = None
  /\ IF Claimable(rows[req[c]])
     THEN lock' = [lock EXCEPT ![req[c]] = c] /\ Goto(c, "submitInsert")
     ELSE UNCHANGED lock /\ Respond(c, "Conflict")
  /\ UNCHANGED <<rows, answers, delivered, now>>

\* The insert passes the unique index and the transaction commits.  The server
\* may die before the response leaves it.
SubmitCommit(c) ==
  /\ At(c, "submitInsert")
  /\ req[c] \notin DOMAIN answers
  /\ rows' = [rows EXCEPT ![req[c]].status = "COMPLETED"]
  /\ answers' = With(answers, req[c], c)
  /\ lock' = [lock EXCEPT ![req[c]] = None]
  /\ Respond(c, "Received") \/ Respond(c, "Error")
  /\ UNCHANGED <<delivered, now>>

-----------------------------------------------------------------------------
(* update: findOne reads the row, the UPDATE that follows is unconditional.*)

CancelRead(c, r) ==
  /\ r \in DOMAIN rows
  /\ pc[c] = "idle"
  /\ req' = [req EXCEPT ![c] = r]
  /\ CASE rows[r].status = "COMPLETED" ->
            /\ pc' = [pc EXCEPT ![c] = "done"]
            /\ result' = [result EXCEPT ![c] = "Conflict"]
       [] rows[r].status = "CANCELLED" ->
            /\ pc' = [pc EXCEPT ![c] = "done"]
            /\ result' = [result EXCEPT ![c] = "Unchanged"]
       [] OTHER ->
            /\ pc' = [pc EXCEPT ![c] = "cancelWrite"]
            /\ UNCHANGED result
  /\ UNCHANGED <<rows, answers, lock, delivered, now, seen, patch>>

CancelWrite(c) ==
  /\ At(c, "cancelWrite")
  /\ UpdateRow(req[c], [rows[req[c]] EXCEPT !.status = "CANCELLED", !.cancelledAt = now])
  /\ Respond(c, "Updated")
  /\ UNCHANGED <<answers, lock, delivered, now>>

EditsContent(p) == p.message # None \/ p.expiresAt # None

EditRead(c, r, p) ==
  /\ r \in DOMAIN rows
  /\ pc[c] = "idle"
  /\ req' = [req EXCEPT ![c] = r]
  /\ IF EditsContent(p) /\ rows[r].status # "PENDING"
     THEN /\ pc' = [pc EXCEPT ![c] = "done"]
          /\ result' = [result EXCEPT ![c] = "Conflict"]
          /\ UNCHANGED patch
     ELSE /\ pc' = [pc EXCEPT ![c] = "editWrite"]
          /\ patch' = [patch EXCEPT ![c] = p]
          /\ UNCHANGED result
  /\ UNCHANGED <<rows, answers, lock, delivered, now, seen>>

\* Faults: absent fields are written too; an edit reopens the request.
PatchedBlindly(row, p) == [row EXCEPT !.message = p.message, !.expiresAt = p.expiresAt]

PatchedReopens(row, p) ==
  [row EXCEPT !.status = "PENDING",
              !.message = IF p.message = None THEN @ ELSE p.message,
              !.expiresAt = IF p.expiresAt = None THEN @ ELSE p.expiresAt]

Patched(row, p) ==
  [row EXCEPT !.message = IF p.message = None THEN @ ELSE p.message,
              !.expiresAt = IF p.expiresAt = None THEN @ ELSE p.expiresAt]

EditWrite(c) ==
  /\ At(c, "editWrite")
  /\ UpdateRow(req[c], Patched(rows[req[c]], patch[c]))
  /\ Respond(c, "Updated")
  /\ UNCHANGED <<answers, lock, delivered, now>>

-----------------------------------------------------------------------------
(* A wrong token, a request or product of another organization, an unknown *)
(* id: the call is turned away with 404 before it touches anything.        *)
TurnAway(c) ==
  /\ At(c, "idle")
  /\ Respond(c, "NotFound")
  /\ UNCHANGED <<rows, answers, lock, delivered, now>>

\* Fault: a transaction that fails is left open.
AbortLeaksLock(c) ==
  /\ pc[c] \in Waiting
  /\ Respond(c, "Error")
  /\ UNCHANGED <<rows, answers, lock, delivered, now>>

(* A statement fails, the transaction times out or the process dies: an    *)
(* open transaction rolls back and the caller sees an error.               *)
Abort(c) ==
  /\ pc[c] \in Waiting
  /\ lock' = [r \in Requests |-> IF lock[r] = c THEN None ELSE lock[r]]
  /\ Respond(c, "Error")
  /\ UNCHANGED <<rows, answers, delivered, now>>

Tick ==
  /\ now < MaxTime
  /\ now' = now + 1
  /\ UNCHANGED <<rows, answers, lock, delivered, callVars>>

Arrive(c) ==
  \/ TurnAway(c)
  \/ \E r \in Requests :
       \/ CreateInsert(c, r)
       \/ ResolveToken(c, r)
       \/ CancelRead(c, r)
       \/ \E p \in Patch : EditRead(c, r, p)

\* The steps a handler takes by itself once its call has arrived.
Proceed(c) ==
  \/ SendInvite(c) \/ RecordSent(c) \/ RecordSentThrows(c) \/ RecordFailed(c)
  \/ ViewCheck(c) \/ ViewWrite(c)
  \/ SubmitCheck(c) \/ SubmitClaim(c) \/ SubmitCommit(c)
  \/ CancelWrite(c) \/ EditWrite(c)

Next ==
  \/ Tick
  \/ \E c \in Calls : Arrive(c) \/ Proceed(c) \/ Abort(c)

Spec == Init /\ [][Next]_vars

\* The event loop keeps running a handler it has started, and the database
\* answers its statements.  Nobody has to call, and nothing has to fail.
FairSpec == Spec /\ \A c \in Calls : WF_vars(Proceed(c))

-----------------------------------------------------------------------------
(* Invariants.                                                             *)

\* A stored answer and the status of its request never disagree, whatever call
\* failed or raced: no answer while the link is open, always one once it reads
\* COMPLETED (submitPublic's transaction).
AnswerMatchesStatus ==
  /\ DOMAIN answers \subseteq DOMAIN rows
  /\ \A r \in DOMAIN rows :
       /\ rows[r].status \in {"PENDING", "OPENED"} => r \notin DOMAIN answers
       /\ rows[r].status = "COMPLETED" => r \in DOMAIN answers

\* A customer who was told "received" is the one whose answer is stored, for
\* ever: of concurrent submits through one link at most one is acknowledged
\* (submitPublic throws 409 on count = 0).
AcknowledgedAnswerStored ==
  \A c \in Calls :
    result[c] = "Received" => req[c] \in DOMAIN answers /\ answers[req[c]] = c

\* The open transaction on a row belongs to one submit that is about to insert,
\* and until it ends no other handler moves the row on or stores an answer.
TransactionHoldsRow ==
  /\ \A c \in Calls : pc[c] = "submitInsert" =>
       req[c] \in Requests /\ lock[req[c]] = c
  /\ \A r \in Requests : lock[r] # None =>
       /\ pc[lock[r]] = "submitInsert" /\ req[lock[r]] = r
       /\ r \in DOMAIN rows /\ Claimable(rows[r]) /\ r \notin DOMAIN answers

\* The timestamps and the counter tell the same story as the status, also when
\* views, submits and cancels that read an older row write last.
LifecycleStamps ==
  \A r \in DOMAIN rows :
    /\ rows[r].status = "PENDING" => rows[r].openedAt = None /\ rows[r].openCount = 0
    /\ rows[r].status = "OPENED" => rows[r].openedAt # None /\ rows[r].openCount >= 1
    /\ rows[r].status = "CANCELLED" <=> rows[r].cancelledAt # None

\* emailStatus SENT is never written for an invite the mail server did not take
\* (create awaits the mail before it records SENT).
InviteStatusTruthful ==
  \A r \in DOMAIN rows : rows[r].emailStatus = "SENT" => r \in delivered

Rank == [PENDING |-> 0, OPENED |-> 1, COMPLETED |-> 2, CANCELLED |-> 3]

\* The guard keeps the row it read for the view or the submit that follows.  However long
\* ago that was and whatever other handlers wrote since, this copy may be behind the row
\* but not ahead of it: the row has the copy's status or a later one, at least its view
\* count, and the first view it shows.  (cancel and edit keep no copy.)
CopyNeverAhead ==
  \A c \in Calls : pc[c] \in {"viewCheck", "viewWrite", "submitCheck", "submitClaim"} =>
    LET row == rows[req[c]] IN
    /\ Rank[seen[c].status] <= Rank[row.status]
    /\ seen[c].openCount <= row.openCount
    /\ seen[c].openedAt # None => row.openedAt = seen[c].openedAt

-----------------------------------------------------------------------------
(* Action properties.                                                      *)

\* No step takes a request back: not a late first view after a submit, not an
\* edit after a cancel; rows are never deleted (every UPDATE of feedback.service).
StatusOnlyAdvances ==
  [][\A r \in DOMAIN rows :
       /\ r \in DOMAIN rows'
       /\ Rank[rows[r].status] <= Rank[rows'[r].status]]_vars

\* The time of the first view is recorded once: of two views that both read
\* PENDING only the first stamps the row (getPublicView's conditional update).
OpenedAtWriteOnce ==
  [][\A r \in DOMAIN rows :
       rows[r].openedAt # None => rows'[r].openedAt = rows[r].openedAt]_vars

-----------------------------------------------------------------------------
(* Refinement.                                                             *)

LinkState(row) ==
  IF Claimable(row) THEN "live"
  ELSE IF row.status = "COMPLETED" THEN "answered" ELSE "revoked"

Link == INSTANCE SingleUseLink
          WITH link <- [r \in DOMAIN rows |-> LinkState(rows[r])], answer <- answers

\* The handlers, their stale reads and the row lock together are a single-use
\* link: one answer at most, never after a cancel, never lost or replaced.
LinkSpec == Link!Spec

-----------------------------------------------------------------------------
(* Liveness.                                                               *)

\* Every request that arrives gets a response, although writers wait for the
\* row lock of a submit: an open transaction always ends.
EveryCallAnswered == \A c \in Calls : pc[c] # "idle" ~> pc[c] = "done"

-----------------------------------------------------------------------------
(* What the repository says of these handlers and the code does not keep.  *)

\* feedback.controller.ts: a cancel is "rejected with 409 if the customer
\* already submitted".
CancelNeverOverridesAnswer ==
  [][\A r \in DOMAIN rows :
       rows[r].status = "COMPLETED" => rows'[r].status = "COMPLETED"]_vars

\* feedback.controller.ts: optionalMessage and expiresAt may change "only while
\* status is PENDING".
EditsOnlyWhilePending ==
  [][\A r \in DOMAIN rows :
       rows[r].status # "PENDING" =>
         /\ rows'[r].message = rows[r].message
         /\ rows'[r].expiresAt = rows[r].expiresAt]_vars

\* feedback.service.ts: "emailStatus tracks delivery".
FailedMeansUndelivered ==
  \A r \in DOMAIN rows : rows[r].emailStatus = "FAILED" => r \notin delivered

\* feedback.service.ts: the 409 of a submit says "This feedback request was
\* already submitted".
ConflictMeansSubmitted ==
  [][\A c \in Calls :
       pc[c] = "submitClaim" /\ result'[c] = "Conflict" => req[c] \in DOMAIN answers]_vars

=============================================================================
