---------------------- MODULE FeedbackRequests_proofs ----------------------
(***************************************************************************)
(* FeedbackRequests for any number of requests, calls, messages and dates: *)
(* the invariants, the action properties and the refinement of             *)
(* SingleUseLink.  RowsEvolve lists what a step may do to the rows; most of*)
(* the rest follows from it.                                               *)
(***************************************************************************)
EXTENDS FeedbackRequests, TLAPS

LEMMA WithEffect ==
  ASSUME NEW f, NEW x, NEW v
  PROVE  /\ DOMAIN With(f, x, v) = DOMAIN f \cup {x}
         /\ With(f, x, v)[x] = v
         /\ \A y \in DOMAIN f : y # x => With(f, x, v)[y] = f[y]
  BY DEF With

LEMMA UpdateRowEffect ==
  ASSUME NEW r, NEW new \in Row, rows \in [DOMAIN rows -> Row], UpdateRow(r, new)
  PROVE  /\ rows' \in [DOMAIN rows -> Row]
         /\ DOMAIN rows' = DOMAIN rows
         /\ \A q \in DOMAIN rows : rows'[q] = IF q = r THEN new ELSE rows[q]
         /\ lock[r] = None
  BY DEF UpdateRow

LEMMA NewRowEffect ==
  ASSUME NEW m \in Messages, now \in Nat
  PROVE  /\ NewRow(m) \in Row
         /\ NewRow(m).status = "PENDING" /\ NewRow(m).openedAt = None
         /\ NewRow(m).openCount = 0 /\ NewRow(m).cancelledAt = None
         /\ NewRow(m).emailStatus = None
  BY TtlAssumption DEF NewRow, Row, Status

LEMMA ViewedEffect ==
  ASSUME NEW stale, NEW row \in Row, now \in Nat
  PROVE  /\ Viewed(stale, row) \in Row
         /\ Viewed(stale, row).cancelledAt = row.cancelledAt
         /\ Viewed(stale, row).emailStatus = row.emailStatus
         /\ \/ Viewed(stale, row) = row
            \/ /\ stale.status # "PENDING"
               /\ Viewed(stale, row).status = row.status
               /\ Viewed(stale, row).openedAt = row.openedAt
               /\ Viewed(stale, row).openCount = row.openCount + 1
            \/ /\ row.status = "PENDING"
               /\ Viewed(stale, row).status = "OPENED"
               /\ Viewed(stale, row).openedAt = now
               /\ Viewed(stale, row).openCount = row.openCount + 1
<1>1. CASE stale.status # "PENDING"
  <2>1. Viewed(stale, row) = [row EXCEPT !.openCount = @ + 1]
    BY <1>1 DEF Viewed
  <2>. QED BY <1>1, <2>1 DEF Row
<1>2. CASE stale.status = "PENDING" /\ row.status = "PENDING"
  <2>1. Viewed(stale, row) =
          [row EXCEPT !.status = "OPENED", !.openedAt = now, !.openCount = @ + 1]
    BY <1>2 DEF Viewed
  <2>2. Viewed(stale, row) =
          [status |-> "OPENED", message |-> row.message, expiresAt |-> row.expiresAt,
           openedAt |-> now, openCount |-> row.openCount + 1,
           cancelledAt |-> row.cancelledAt, emailStatus |-> row.emailStatus]
    BY <2>1 DEF Row
  <2>3. Viewed(stale, row) \in Row
    BY <2>2 DEF Row, Status
  <2>. QED BY <1>2, <2>2, <2>3
<1>3. CASE stale.status = "PENDING" /\ row.status # "PENDING"
  BY <1>3 DEF Viewed
<1>. QED BY <1>1, <1>2, <1>3

LEMMA PatchedEffect ==
  ASSUME NEW row \in Row, NEW p \in Patch
  PROVE  /\ Patched(row, p) \in Row
         /\ Patched(row, p).status = row.status
         /\ Patched(row, p).openedAt = row.openedAt
         /\ Patched(row, p).openCount = row.openCount
         /\ Patched(row, p).cancelledAt = row.cancelledAt
         /\ Patched(row, p).emailStatus = row.emailStatus
  BY ExpiriesAssumption DEF Patched, Patch, Row, Status

-----------------------------------------------------------------------------
(* The inductive invariant: no conjunct is inductive alone.                *)

\* The row a handler works on exists, a view or a submit has a copy of it, an invite
\* about to be recorded as sent was sent, an edit carries its patch, and only a finished
\* call has been answered.
HandlerKnowledge ==
  \A c \in Calls :
    /\ pc[c] \in Waiting => req[c] \in DOMAIN rows
    /\ pc[c] \in {"viewCheck", "viewWrite", "submitCheck", "submitClaim"} => seen[c] \in Row
    /\ pc[c] = "recordSent" => req[c] \in delivered
    /\ pc[c] = "editWrite" => patch[c] \in Patch
    /\ pc[c] # "done" => result[c] = None

Inv ==
  /\ TypeOK
  /\ HandlerKnowledge
  /\ CopyNeverAhead
  /\ TransactionHoldsRow
  /\ AnswerMatchesStatus
  /\ AcknowledgedAnswerStored
  /\ LifecycleStamps
  /\ InviteStatusTruthful

(* Everything a step can do to the life cycle of a row that exists.        *)

Keeps(r) ==
  /\ rows'[r].status = rows[r].status
  /\ rows'[r].openedAt = rows[r].openedAt
  /\ rows'[r].openCount = rows[r].openCount
  /\ rows'[r].cancelledAt = rows[r].cancelledAt

Opens(r) ==
  /\ lock[r] = None
  /\ rows[r].status = "PENDING" /\ rows'[r].status = "OPENED"
  /\ rows'[r].openedAt = now
  /\ rows'[r].openCount = rows[r].openCount + 1
  /\ rows'[r].cancelledAt = rows[r].cancelledAt

Recounts(r) ==
  /\ rows[r].status # "PENDING" /\ rows'[r].status = rows[r].status
  /\ rows'[r].openedAt = rows[r].openedAt
  /\ rows'[r].openCount = rows[r].openCount + 1
  /\ rows'[r].cancelledAt = rows[r].cancelledAt

Cancels(r) ==
  /\ lock[r] = None
  /\ rows'[r].status = "CANCELLED" /\ rows'[r].cancelledAt = now
  /\ rows'[r].openedAt = rows[r].openedAt
  /\ rows'[r].openCount = rows[r].openCount

Completes(r, c) ==
  /\ lock[r] = c /\ pc[c] = "submitInsert" /\ req[c] = r
  /\ Claimable(rows[r]) /\ rows'[r].status = "COMPLETED"
  /\ rows'[r].openedAt = rows[r].openedAt
  /\ rows'[r].openCount = rows[r].openCount
  /\ rows'[r].cancelledAt = rows[r].cancelledAt

Stored(r, c) == r \notin DOMAIN answers /\ answers' = With(answers, r, c)

Lives(r) ==
  \/ Keeps(r) /\ UNCHANGED answers
  \/ Opens(r) /\ UNCHANGED answers
  \/ Recounts(r) /\ UNCHANGED answers
  \/ Cancels(r) /\ UNCHANGED answers
  \/ \E c \in Calls : Completes(r, c) /\ Stored(r, c)
  \/ Keeps(r) /\ \E q \in DOMAIN rows \ {r}, c \in Calls : Stored(q, c)

\* A row reads SENT after a step only if it did before or its invite is out.
Mailed(r) ==
  rows'[r].emailStatus = "SENT" => rows[r].emailStatus = "SENT" \/ r \in delivered

RowsTyped == DOMAIN rows \subseteq Requests /\ rows \in [DOMAIN rows -> Row]

\* The rows after any step: typed, none lost, each changed in one of the ways
\* above, a new one fresh.
RowsEvolve ==
  /\ RowsTyped'
  /\ DOMAIN rows \subseteq DOMAIN rows'
  /\ \A r \in DOMAIN rows : Lives(r) /\ Mailed(r)
  /\ UNCHANGED answers \/ \E r \in DOMAIN rows, c \in Calls : Stored(r, c)
  /\ \A r \in DOMAIN rows' \ DOMAIN rows :
       /\ rows'[r].status = "PENDING" /\ rows'[r].openedAt = None
       /\ rows'[r].openCount = 0 /\ rows'[r].cancelledAt = None
       /\ rows'[r].emailStatus = None
       /\ UNCHANGED answers

LEMMA UnchangedRows ==
  ASSUME TypeOK, UNCHANGED <<rows, answers>>
  PROVE  RowsEvolve
  BY DEF TypeOK, RowsEvolve, RowsTyped, Lives, Keeps, Mailed

\* An UPDATE of a row evolves the rows if it evolves that one.
LEMMA UpdatedRow ==
  ASSUME NEW r \in DOMAIN rows, NEW new \in Row, TypeOK,
         UpdateRow(r, new), UNCHANGED answers,
         rows'[r] = new => /\ Keeps(r) \/ Opens(r) \/ Recounts(r) \/ Cancels(r)
                           /\ Mailed(r)
  PROVE  RowsEvolve
<1>1. /\ rows' \in [DOMAIN rows -> Row] /\ DOMAIN rows' = DOMAIN rows
      /\ \A q \in DOMAIN rows : rows'[q] = IF q = r THEN new ELSE rows[q]
  BY UpdateRowEffect DEF TypeOK
<1>2. \A q \in DOMAIN rows : Lives(q) /\ Mailed(q)
  BY <1>1 DEF Lives, Keeps, Mailed
<1>3. RowsTyped'
  BY <1>1 DEF RowsTyped, TypeOK
<1>. QED BY <1>1, <1>2, <1>3 DEF RowsEvolve

LEMMA RankOrder ==
  /\ Rank["PENDING"] = 0 /\ Rank["OPENED"] = 1
  /\ Rank["COMPLETED"] = 2 /\ Rank["CANCELLED"] = 3
  /\ \A s \in Status : Rank[s] \in Nat
BY DEF Rank, Status

LEMMA RowsStep ==
  ASSUME Inv, [Next]_vars
  PROVE  RowsEvolve
<1>. USE DEF Inv
<1>1. ASSUME NEW c \in Calls, NEW r \in Requests, CreateInsert(c, r)
      PROVE  RowsEvolve
  <2>1. PICK m \in Messages : rows' = With(rows, r, NewRow(m))
    BY <1>1 DEF CreateInsert
  <2>2. r \notin DOMAIN rows /\ UNCHANGED answers
    BY <1>1 DEF CreateInsert
  <2>3. /\ DOMAIN rows' = DOMAIN rows \cup {r} /\ rows'[r] = NewRow(m)
        /\ \A q \in DOMAIN rows : rows'[q] = rows[q]
    BY <2>1, <2>2 DEF With
  <2>4. RowsTyped'
    BY <2>1, <2>3, NewRowEffect DEF TypeOK, RowsTyped, With
  <2>5. \A q \in DOMAIN rows : Lives(q) /\ Mailed(q)
    BY <2>2, <2>3 DEF Lives, Keeps, Mailed
  <2>. QED BY <2>2, <2>3, <2>4, <2>5, NewRowEffect DEF RowsEvolve, TypeOK
<1>2. ASSUME NEW c \in Calls, RecordSent(c) \/ RecordFailed(c)
      PROVE  RowsEvolve
  <2>1. PICK e \in {"SENT", "FAILED"} :
          /\ UpdateRow(req[c], [rows[req[c]] EXCEPT !.emailStatus = e])
          /\ e = "SENT" => pc[c] = "recordSent"
    BY <1>2 DEF RecordSent, RecordFailed, At
  <2>2. req[c] \in DOMAIN rows /\ UNCHANGED answers
    BY <1>2 DEF RecordSent, RecordFailed, At, HandlerKnowledge, Waiting
  <2>. DEFINE new == [rows[req[c]] EXCEPT !.emailStatus = e]
  <2>3. new \in Row
    BY <2>2 DEF TypeOK, Row
  <2>4. rows'[req[c]] = new => Keeps(req[c]) /\ Mailed(req[c])
    BY <2>1, <2>2 DEF Keeps, Mailed, HandlerKnowledge, TypeOK, Row
  <2>. QED BY <2>1, <2>2, <2>3, <2>4, UpdatedRow
<1>3. ASSUME NEW c \in Calls, ViewWrite(c)
      PROVE  RowsEvolve
  <2>. DEFINE r == req[c]  new == Viewed(seen[c], rows[r])
  <2>1. /\ UpdateRow(r, new) /\ UNCHANGED answers /\ pc[c] = "viewWrite"
    BY <1>3 DEF ViewWrite, At
  <2>2. /\ r \in DOMAIN rows
        /\ seen[c] \in Row /\ rows[r] \in Row
        /\ Rank[seen[c].status] <= Rank[rows[r].status]
    BY <2>1 DEF HandlerKnowledge, CopyNeverAhead, Waiting, TypeOK
  <2>3. now \in Nat /\ (seen[c].status # "PENDING" => rows[r].status # "PENDING")
    BY <2>2, RankOrder DEF TypeOK, Row, Status
  <2>4. lock[r] = None
    BY <2>1 DEF UpdateRow
  <2>5. new \in Row /\ (rows'[r] = new => Keeps(r) \/ Opens(r) \/ Recounts(r))
    BY <2>2, <2>3, <2>4, ViewedEffect DEF Keeps, Opens, Recounts
  <2>6. rows'[r] = new => Mailed(r)
    BY <2>2, <2>3, ViewedEffect DEF Mailed
  <2>. QED BY <2>1, <2>2, <2>5, <2>6, UpdatedRow
<1>4. ASSUME NEW c \in Calls, SubmitCommit(c)
      PROVE  RowsEvolve
  <2>. DEFINE r == req[c]
  <2>1. /\ pc[c] = "submitInsert" /\ r \notin DOMAIN answers
        /\ rows' = [rows EXCEPT ![r].status = "COMPLETED"]
        /\ answers' = With(answers, r, c)
    BY <1>4 DEF SubmitCommit, At
  <2>2. /\ r \in DOMAIN rows /\ lock[r] = c /\ Claimable(rows[r])
        /\ rows[r] \in Row
    BY <2>1, NoneAssumption DEF TransactionHoldsRow, TypeOK
  <2>3. /\ DOMAIN rows' = DOMAIN rows
        /\ rows'[r] = [rows[r] EXCEPT !.status = "COMPLETED"]
        /\ \A q \in DOMAIN rows \ {r} : rows'[q] = rows[q]
    BY <2>1, <2>2
  <2>4. rows'[r] \in Row
    BY <2>2, <2>3 DEF Row, Status
  <2>5. RowsTyped'
    BY <2>1, <2>2, <2>3, <2>4 DEF RowsTyped, TypeOK
  <2>6. Completes(r, c) /\ Stored(r, c)
    BY <2>1, <2>2, <2>3 DEF Completes, Stored, Row
  <2>7. \A q \in DOMAIN rows \ {r} : Keeps(q)
    BY <2>3 DEF Keeps
  <2>8. \A q \in DOMAIN rows : Mailed(q)
    BY <2>2, <2>3 DEF Mailed, Row
  <2>. QED BY <2>2, <2>3, <2>5, <2>6, <2>7, <2>8 DEF RowsEvolve, Lives
<1>5. ASSUME NEW c \in Calls, CancelWrite(c)
      PROVE  RowsEvolve
  <2>. DEFINE r == req[c]
              new == [rows[r] EXCEPT !.status = "CANCELLED", !.cancelledAt = now]
  <2>1. /\ UpdateRow(r, new) /\ UNCHANGED answers /\ pc[c] = "cancelWrite"
    BY <1>5 DEF CancelWrite, At
  <2>2. r \in DOMAIN rows
    BY <2>1 DEF HandlerKnowledge, Waiting
  <2>3. lock[r] = None
    BY <2>1 DEF UpdateRow
  <2>4. rows[r] \in Row /\ now \in Nat
    BY <2>2 DEF TypeOK
  <2>5. new \in Row
    BY <2>4 DEF Row, Status
  <2>6. rows'[r] = new => Cancels(r) /\ Mailed(r)
    BY <2>3, <2>4 DEF Cancels, Mailed, Row
  <2>. QED BY <2>1, <2>2, <2>5, <2>6, UpdatedRow
<1>6. ASSUME NEW c \in Calls, EditWrite(c)
      PROVE  RowsEvolve
  <2>. DEFINE r == req[c]  new == Patched(rows[r], patch[c])
  <2>1. /\ UpdateRow(r, new) /\ UNCHANGED answers /\ pc[c] = "editWrite"
    BY <1>6 DEF EditWrite, At
  <2>2. r \in DOMAIN rows /\ patch[c] \in Patch
    BY <2>1 DEF HandlerKnowledge, Waiting
  <2>3. rows[r] \in Row
    BY <2>2 DEF TypeOK
  <2>4. new \in Row /\ (rows'[r] = new => Keeps(r) /\ Mailed(r))
    BY <2>2, <2>3, PatchedEffect DEF Keeps, Mailed
  <2>. QED BY <2>1, <2>2, <2>4, UpdatedRow
<1>7. ASSUME UNCHANGED <<rows, answers>>
      PROVE  RowsEvolve
  BY <1>7, UnchangedRows
<1>. QED
  BY <1>1, <1>2, <1>3, <1>4, <1>5, <1>6, <1>7
  DEF Next, Arrive, Proceed, vars, Tick, TurnAway, ResolveToken, CancelRead, EditRead,
      SendInvite, RecordSentThrows, ViewCheck, SubmitCheck, CheckGone, SubmitClaim, Abort

-----------------------------------------------------------------------------
(* What follows from the evolution of the rows alone.                      *)

LEMMA AdvanceStep ==
  ASSUME Inv, [Next]_vars
  PROVE  \A r \in DOMAIN rows : /\ r \in DOMAIN rows'
                                /\ Rank[rows[r].status] <= Rank[rows'[r].status]
                                /\ rows[r].openCount <= rows'[r].openCount
                                /\ rows[r].openedAt # None => rows'[r].openedAt = rows[r].openedAt
<1>. TAKE r \in DOMAIN rows
<1>1. TypeOK /\ LifecycleStamps /\ RowsEvolve
  BY RowsStep DEF Inv
<1>2. rows[r] \in Row /\ Lives(r) /\ r \in DOMAIN rows'
  BY <1>1 DEF TypeOK, RowsEvolve
<1>3. CASE Keeps(r) \/ Recounts(r)
  BY <1>2, <1>3, RankOrder DEF Keeps, Recounts, Row, Status
<1>4. CASE Opens(r)
  BY <1>1, <1>2, <1>4, RankOrder DEF Opens, LifecycleStamps
<1>5. CASE Cancels(r)
  BY <1>2, <1>5, RankOrder DEF Cancels, Row, Status
<1>6. ASSUME NEW c \in Calls, Completes(r, c)
      PROVE  /\ Rank[rows[r].status] <= Rank[rows'[r].status]
             /\ rows'[r].openCount = rows[r].openCount
             /\ rows'[r].openedAt = rows[r].openedAt
  BY <1>6, RankOrder DEF Completes, Claimable
<1>7. rows[r].openCount \in Nat
  BY <1>2 DEF Row
<1>. QED BY <1>2, <1>3, <1>4, <1>5, <1>6, <1>7 DEF Lives

LEMMA AnswersStep ==
  ASSUME TypeOK, AnswerMatchesStatus, RowsEvolve
  PROVE  AnswerMatchesStatus' /\ DOMAIN answers' \subseteq Requests
                              /\ answers' \in [DOMAIN answers' -> Calls]
<1>1. /\ answers' \in [DOMAIN answers' -> Calls]
      /\ DOMAIN answers \subseteq DOMAIN answers'
      /\ DOMAIN answers' \subseteq DOMAIN rows
  BY DEF RowsEvolve, Stored, With, TypeOK, AnswerMatchesStatus
<1>2. ASSUME NEW r \in DOMAIN rows
      PROVE  /\ rows'[r].status \in {"PENDING", "OPENED"} => r \notin DOMAIN answers'
             /\ rows'[r].status = "COMPLETED" => r \in DOMAIN answers'
  <2>1. rows[r] \in Row
    BY DEF TypeOK
  <2>2. \A q, c : Stored(q, c) => DOMAIN answers' = DOMAIN answers \cup {q}
    BY DEF Stored, With
  <2>3. Lives(r)
    BY DEF RowsEvolve
  <2>4. CASE \E c \in Calls : Completes(r, c) /\ Stored(r, c)
    BY <2>2, <2>4 DEF Completes
  <2>5. CASE Keeps(r) /\ \E q \in DOMAIN rows \ {r}, c \in Calls : Stored(q, c)
    <3>1. PICK q \in DOMAIN rows \ {r}, c \in Calls : Stored(q, c)
      BY <2>5
    <3>2. DOMAIN answers' = DOMAIN answers \cup {q}
      BY <2>2, <3>1
    <3>. QED BY <2>5, <3>2 DEF AnswerMatchesStatus, Keeps
  <2>. QED
    BY <2>1, <2>3, <2>4, <2>5
    DEF AnswerMatchesStatus, Lives, Keeps, Opens, Recounts, Cancels, Completes, Row, Status
<1>3. ASSUME NEW r \in DOMAIN rows', r \notin DOMAIN rows
      PROVE  rows'[r].status = "PENDING" /\ r \notin DOMAIN answers'
  BY <1>1, <1>3 DEF RowsEvolve
<1>. QED BY <1>1, <1>2, <1>3 DEF AnswerMatchesStatus, RowsEvolve, RowsTyped

LEMMA StampsStep ==
  ASSUME TypeOK, LifecycleStamps, RowsEvolve
  PROVE  LifecycleStamps'
<1>1. ASSUME NEW r \in DOMAIN rows
      PROVE  /\ rows'[r].status = "PENDING" => rows'[r].openedAt = None /\ rows'[r].openCount = 0
             /\ rows'[r].status = "OPENED" => rows'[r].openedAt # None /\ rows'[r].openCount >= 1
             /\ rows'[r].status = "CANCELLED" <=> rows'[r].cancelledAt # None
  <2>1. rows[r] \in Row /\ now \in Nat /\ now # None
    BY NoneAssumption DEF TypeOK
  <2>2. Lives(r)
    BY DEF RowsEvolve
  <2>. QED
    BY <2>1, <2>2
    DEF LifecycleStamps, Lives, Keeps, Opens, Recounts, Cancels, Completes, Claimable, Row, Status
<1>2. ASSUME NEW r \in DOMAIN rows', r \notin DOMAIN rows
      PROVE  /\ rows'[r].status = "PENDING" /\ rows'[r].openedAt = None
             /\ rows'[r].openCount = 0 /\ rows'[r].cancelledAt = None
  BY <1>2 DEF RowsEvolve
<1>. QED BY <1>1, <1>2 DEF LifecycleStamps

-----------------------------------------------------------------------------
(* The other variables, action by action.                                  *)

CallTypes ==
  /\ pc \in [Calls -> Waiting \cup {"idle", "done"}]
  /\ req \in [Calls -> Requests \cup {None}]
  /\ seen \in [Calls -> Row \cup {None}]
  /\ patch \in [Calls -> Patch \cup {None}]
  /\ result \in [Calls -> Result \cup {None}]

LockTypes ==
  /\ lock \in [Requests -> Calls \cup {None}]
  /\ delivered \subseteq Requests

LEMMA TypeStep ==
  ASSUME Inv, [Next]_vars
  PROVE  TypeOK'
<1>. USE DEF Inv
<1>1. RowsTyped'
  BY RowsStep DEF RowsEvolve
<1>2. DOMAIN answers' \subseteq Requests /\ answers' \in [DOMAIN answers' -> Calls]
  BY RowsStep, AnswersStep
<1>3. now' \in Nat
  <2>1. now \in Nat
    BY DEF TypeOK
  <2>2. now' = now \/ now' = now + 1
    BY DEF Next, Arrive, Proceed, vars, Tick, TurnAway, CreateInsert, ResolveToken, CancelRead,
           EditRead, SendInvite, RecordSent, RecordSentThrows, RecordFailed, ViewCheck,
           ViewWrite, SubmitCheck, CheckGone, SubmitClaim, SubmitCommit, CancelWrite,
           EditWrite, Abort
  <2>. QED BY <2>1, <2>2
<1>4. CallTypes /\ LockTypes
  BY DEF TypeOK, CallTypes, LockTypes
<1>5. ASSUME NEW c \in Calls, NEW res \in Result, Respond(c, res)
      PROVE  CallTypes'
  BY <1>4, <1>5 DEF CallTypes, LockTypes, Respond
<1>6. ASSUME NEW c \in Calls, NEW l \in Waiting, Goto(c, l)
      PROVE  CallTypes'
  BY <1>4, <1>6 DEF CallTypes, LockTypes, Goto
<1>7. ASSUME NEW c \in Calls, Arrive(c)
      PROVE  CallTypes' /\ LockTypes'
  <2>1. CASE TurnAway(c)
    BY <1>4, <1>5, <2>1 DEF CallTypes, LockTypes, TurnAway, Result
  <2>2. ASSUME NEW r \in Requests, CreateInsert(c, r)
        PROVE  CallTypes' /\ LockTypes'
    BY <1>4, <2>2 DEF CallTypes, LockTypes, CreateInsert, Begin, Waiting
  <2>3. ASSUME NEW r \in Requests, ResolveToken(c, r)
        PROVE  CallTypes' /\ LockTypes'
    <3>1. rows[r] \in Row
      BY <2>3 DEF ResolveToken, TypeOK
    <3>. QED BY <1>4, <2>3, <3>1 DEF CallTypes, LockTypes, ResolveToken, Begin, Waiting
  <2>4. ASSUME NEW r \in Requests, CancelRead(c, r)
        PROVE  CallTypes' /\ LockTypes'
    BY <1>4, <2>4 DEF CallTypes, LockTypes, CancelRead, Waiting, Result
  <2>5. ASSUME NEW r \in Requests, NEW p \in Patch, EditRead(c, r, p)
        PROVE  CallTypes' /\ LockTypes'
    BY <1>4, <2>5 DEF CallTypes, LockTypes, EditRead, Waiting, Result
  <2>. QED BY <1>7, <2>1, <2>2, <2>3, <2>4, <2>5 DEF Arrive
<1>8. ASSUME NEW c \in Calls, Proceed(c)
      PROVE  CallTypes' /\ LockTypes'
  <2>1. CASE SendInvite(c)
    <3>1. req[c] \in Requests
      BY <2>1 DEF SendInvite, At, HandlerKnowledge, TypeOK, Waiting
    <3>. QED BY <1>4, <1>6, <2>1, <3>1 DEF CallTypes, LockTypes, SendInvite, Waiting
  <2>2. CASE RecordSentThrows(c)
    BY <1>4, <1>6, <2>2 DEF CallTypes, LockTypes, RecordSentThrows, Waiting
  <2>3. CASE ViewCheck(c) \/ SubmitCheck(c)
    BY <1>4, <1>5, <1>6, <2>3 DEF CallTypes, LockTypes, ViewCheck, SubmitCheck, CheckGone, Waiting, Result
  <2>4. CASE SubmitClaim(c)
    BY <1>4, <1>5, <1>6, <2>4 DEF CallTypes, LockTypes, SubmitClaim, Waiting, Result
  <2>5. CASE SubmitCommit(c)
    BY <1>4, <1>5, <2>5 DEF CallTypes, LockTypes, SubmitCommit, Result
  <2>6. CASE RecordSent(c) \/ RecordFailed(c) \/ ViewWrite(c) \/ CancelWrite(c) \/ EditWrite(c)
    BY <1>4, <1>5, <2>6
    DEF CallTypes, LockTypes, RecordSent, RecordFailed, ViewWrite, CancelWrite, EditWrite, Result
  <2>. QED BY <1>8, <2>1, <2>2, <2>3, <2>4, <2>5, <2>6 DEF Proceed
<1>9. ASSUME NEW c \in Calls, Abort(c)
      PROVE  CallTypes' /\ LockTypes'
  BY <1>4, <1>5, <1>9 DEF CallTypes, LockTypes, Abort, Result
<1>10. ASSUME UNCHANGED <<lock, delivered, pc, req, seen, patch, result>>
       PROVE  CallTypes' /\ LockTypes'
  BY <1>4, <1>10 DEF CallTypes, LockTypes
<1>. QED
  <2>1. CallTypes' /\ LockTypes'
    BY <1>7, <1>8, <1>9, <1>10 DEF Next, Tick, vars, callVars
  <2>. QED BY <1>1, <1>2, <1>3, <2>1 DEF TypeOK, RowsTyped, CallTypes, LockTypes


\* An acknowledgement is given once, for the answer the step stores.
LEMMA AcknowledgedStep ==
  ASSUME Inv, [Next]_vars
  PROVE  AcknowledgedAnswerStored'
<1>. USE DEF Inv
<1>1. TypeOK /\ RowsEvolve
  BY RowsStep
<1>2. \A r \in DOMAIN answers : r \in DOMAIN answers' /\ answers'[r] = answers[r]
  BY <1>1 DEF RowsEvolve, Stored, With, TypeOK
<1>. DEFINE Kept(d) == result'[d] = "Received" => result[d] = "Received" /\ req'[d] = req[d]
<1>3. ASSUME \A d \in Calls : Kept(d)
      PROVE  AcknowledgedAnswerStored'
  BY <1>2, <1>3 DEF AcknowledgedAnswerStored
<1>4. ASSUME NEW c \in Calls, NEW res \in Result \ {"Received"}, Respond(c, res)
      PROVE  \A d \in Calls : Kept(d)
  BY <1>4 DEF Respond, TypeOK, Result
<1>5. ASSUME UNCHANGED <<req, result>>
      PROVE  \A d \in Calls : Kept(d)
  BY <1>5
<1>7. ASSUME NEW c \in Calls, Arrive(c)
      PROVE  \A d \in Calls : Kept(d)
  <2>1. CASE TurnAway(c)
    BY <1>4, <2>1 DEF TurnAway, Result
  <2>2. CASE ~ TurnAway(c)
    <3>1. /\ pc[c] = "idle"
          /\ \A d \in Calls \ {c} : req'[d] = req[d] /\ result'[d] = result[d]
          /\ result'[c] \in {result[c], "Conflict", "Unchanged"}
      BY <1>7, <2>2
      DEF Arrive, CreateInsert, ResolveToken, CancelRead, EditRead, Begin, TypeOK
    <3>. QED BY <3>1, NoneAssumption DEF HandlerKnowledge, Result
  <2>. QED BY <2>1, <2>2
<1>8. ASSUME NEW c \in Calls, SubmitCommit(c)
      PROVE  AcknowledgedAnswerStored'
  <2>1. /\ req' = req /\ answers' = With(answers, req[c], c)
        /\ \A d \in Calls \ {c} : result'[d] = result[d]
    BY <1>8 DEF SubmitCommit, Respond, TypeOK
  <2>2. req[c] \in DOMAIN answers' /\ answers'[req[c]] = c
    BY <2>1 DEF With
  <2>. QED BY <1>2, <2>1, <2>2 DEF AcknowledgedAnswerStored
<1>9. ASSUME NEW c \in Calls, Proceed(c), ~ SubmitCommit(c)
      PROVE  \A d \in Calls : Kept(d)
  BY <1>4, <1>5, <1>9
  DEF Proceed, SendInvite, RecordSent, RecordSentThrows, RecordFailed, ViewCheck, ViewWrite,
      SubmitCheck, CheckGone, SubmitClaim, CancelWrite, EditWrite, Goto, Result
<1>10. ASSUME NEW c \in Calls, Abort(c)
      PROVE  \A d \in Calls : Kept(d)
  BY <1>4, <1>10 DEF Abort, Result
<1>. QED
  BY <1>3, <1>5, <1>7, <1>8, <1>9, <1>10 DEF Next, Tick, vars, callVars

\* The row lock is taken by a claim, given up by the end of its transaction,
\* and in between keeps every UPDATE off the row.
LEMMA TransactionStep ==
  ASSUME Inv, [Next]_vars
  PROVE  TransactionHoldsRow'
<1>. USE DEF Inv
<1>1. RowsEvolve
  BY RowsStep
<1>2. ASSUME NEW r \in Requests, lock[r] # None, UNCHANGED answers
      PROVE  r \in DOMAIN rows' /\ Claimable(rows'[r]) /\ r \notin DOMAIN answers'
  <2>1. r \in DOMAIN rows /\ Claimable(rows[r]) /\ r \notin DOMAIN answers
    BY <1>2 DEF TransactionHoldsRow
  <2>2. ASSUME NEW q, NEW c, Stored(q, c)
        PROVE  FALSE
    BY <1>2, <2>2 DEF Stored, With
  <2>3. Keeps(r) \/ Recounts(r)
    BY <1>1, <1>2, <2>1, <2>2 DEF RowsEvolve, Lives, Opens, Cancels
  <2>. QED BY <1>1, <1>2, <2>1, <2>3 DEF RowsEvolve, Keeps, Recounts, Claimable
<1>3. ASSUME NEW c \in Calls, pc[c] # "submitInsert", pc'[c] # "submitInsert",
             \A d \in Calls \ {c} : pc'[d] = pc[d] /\ req'[d] = req[d],
             UNCHANGED <<lock, answers>>
      PROVE  TransactionHoldsRow'
  <2>1. \A d \in Calls : pc'[d] = "submitInsert" =>
          pc[d] = "submitInsert" /\ req'[d] = req[d]
    BY <1>3
  <2>2. ASSUME NEW r \in Requests, lock[r] # None
        PROVE  /\ pc'[lock[r]] = "submitInsert" /\ req'[lock[r]] = r
               /\ r \in DOMAIN rows' /\ Claimable(rows'[r]) /\ r \notin DOMAIN answers'
    <3>1. lock[r] \in Calls /\ pc[lock[r]] = "submitInsert" /\ req[lock[r]] = r
      BY <2>2 DEF TransactionHoldsRow, TypeOK
    <3>. QED BY <1>2, <1>3, <2>2, <3>1
  <2>. QED BY <1>3, <2>1, <2>2 DEF TransactionHoldsRow
<1>4. ASSUME NEW c \in Calls, SubmitClaim(c)
      PROVE  TransactionHoldsRow'
  <2>1. /\ pc[c] = "submitClaim" /\ req[c] \in DOMAIN rows /\ req[c] \in Requests
        /\ lock[req[c]] = None
    BY <1>4 DEF SubmitClaim, At, HandlerKnowledge, Waiting, TypeOK
  <2>2. CASE Claimable(rows[req[c]])
    <3>1. /\ lock' = [lock EXCEPT ![req[c]] = c]
          /\ pc' = [pc EXCEPT ![c] = "submitInsert"]
          /\ UNCHANGED <<req, rows, answers>>
      BY <1>4, <2>2 DEF SubmitClaim, Goto
    <3>2. req[c] \notin DOMAIN answers
      BY <2>1, <2>2 DEF AnswerMatchesStatus, Claimable
    <3>3. \A d \in Calls : pc'[d] = "submitInsert" =>
            req'[d] \in Requests /\ lock'[req'[d]] = d
      BY <2>1, <3>1, NoneAssumption DEF TransactionHoldsRow, TypeOK
    <3>4. ASSUME NEW r \in Requests, lock'[r] # None
          PROVE  /\ pc'[lock'[r]] = "submitInsert" /\ req'[lock'[r]] = r
                 /\ r \in DOMAIN rows' /\ Claimable(rows'[r]) /\ r \notin DOMAIN answers'
      <4>1. CASE r = req[c]
        BY <2>1, <2>2, <3>1, <3>2, <4>1 DEF TypeOK
      <4>2. CASE r # req[c]
        <5>1. lock'[r] = lock[r] /\ lock[r] # c /\ lock[r] \in Calls
          BY <2>1, <3>1, <3>4, <4>2 DEF TypeOK, TransactionHoldsRow
        <5>. QED BY <3>1, <3>4, <5>1 DEF TypeOK, TransactionHoldsRow
      <4>. QED BY <4>1, <4>2
    <3>. QED BY <3>3, <3>4 DEF TransactionHoldsRow
  <2>3. CASE ~ Claimable(rows[req[c]])
    BY <1>3, <1>4, <2>1, <2>3 DEF SubmitClaim, Respond, TypeOK
  <2>. QED BY <2>2, <2>3
<1>5. ASSUME NEW c \in Calls, SubmitCommit(c)
      PROVE  TransactionHoldsRow'
  <2>. DEFINE r == req[c]
  <2>1. /\ pc[c] = "submitInsert" /\ lock' = [lock EXCEPT ![r] = None]
        /\ pc' = [pc EXCEPT ![c] = "done"] /\ req' = req
        /\ rows' = [rows EXCEPT ![r].status = "COMPLETED"]
        /\ answers' = With(answers, r, c)
    BY <1>5 DEF SubmitCommit, Respond, At
  <2>2. r \in Requests /\ lock[r] = c
    BY <2>1 DEF TransactionHoldsRow
  <2>3. \A d \in Calls : pc'[d] = "submitInsert" =>
          req'[d] \in Requests /\ lock'[req'[d]] = d
    BY <2>1, <2>2 DEF TransactionHoldsRow, TypeOK
  <2>4. ASSUME NEW q \in Requests, lock'[q] # None
        PROVE  /\ pc'[lock'[q]] = "submitInsert" /\ req'[lock'[q]] = q
               /\ q \in DOMAIN rows' /\ Claimable(rows'[q]) /\ q \notin DOMAIN answers'
    <3>1. q # r /\ lock'[q] = lock[q] /\ lock[q] \in Calls
      BY <2>1, <2>2, <2>4 DEF TypeOK
    <3>2. lock[q] # c
      BY <2>4, <3>1 DEF TransactionHoldsRow
    <3>3. DOMAIN answers' = DOMAIN answers \cup {r}
      BY <2>1 DEF With
    <3>. QED BY <2>1, <2>4, <3>1, <3>2, <3>3 DEF TransactionHoldsRow, TypeOK
  <2>. QED BY <2>3, <2>4 DEF TransactionHoldsRow
<1>6. ASSUME NEW c \in Calls, Abort(c)
      PROVE  TransactionHoldsRow'
  <2>1. /\ lock' = [r \in Requests |-> IF lock[r] = c THEN None ELSE lock[r]]
        /\ pc' = [pc EXCEPT ![c] = "done"] /\ UNCHANGED <<req, rows, answers>>
    BY <1>6 DEF Abort, Respond
  <2>2. \A d \in Calls : pc'[d] = "submitInsert" =>
          req'[d] \in Requests /\ lock'[req'[d]] = d
    BY <2>1 DEF TransactionHoldsRow, TypeOK
  <2>3. \A r \in Requests : lock'[r] # None =>
          lock'[r] = lock[r] /\ lock[r] # c /\ lock[r] \in Calls
    BY <2>1 DEF TypeOK
  <2>. QED BY <2>1, <2>2, <2>3 DEF TransactionHoldsRow, TypeOK
<1>7. ASSUME NEW c \in Calls, Arrive(c)
      PROVE  TransactionHoldsRow'
  <2>1. /\ pc[c] = "idle" /\ pc'[c] # "submitInsert"
        /\ \A d \in Calls \ {c} : pc'[d] = pc[d] /\ req'[d] = req[d]
        /\ UNCHANGED <<lock, answers>>
    BY <1>7
    DEF Arrive, TurnAway, CreateInsert, ResolveToken, CancelRead, EditRead, Begin, At,
        Respond, TypeOK
  <2>. QED BY <1>3, <2>1
<1>8. ASSUME NEW c \in Calls, Proceed(c), ~ SubmitClaim(c), ~ SubmitCommit(c)
      PROVE  TransactionHoldsRow'
  <2>1. /\ pc[c] # "submitInsert" /\ pc'[c] # "submitInsert"
        /\ \A d \in Calls \ {c} : pc'[d] = pc[d] /\ req'[d] = req[d]
        /\ UNCHANGED <<lock, answers>>
    BY <1>8
    DEF Proceed, SendInvite, RecordSent, RecordSentThrows, RecordFailed, ViewCheck, ViewWrite,
        SubmitCheck, CheckGone, CancelWrite, EditWrite, At, Goto, Respond, TypeOK
  <2>. QED BY <1>3, <2>1
<1>9. CASE Tick \/ UNCHANGED vars
  BY <1>9 DEF Tick, vars, callVars, TransactionHoldsRow, Claimable
<1>. QED BY <1>4, <1>5, <1>6, <1>7, <1>8, <1>9 DEF Next


\* What a handler knows survives the steps of every other handler.
LEMMA HandlerStep ==
  ASSUME Inv, [Next]_vars
  PROVE  HandlerKnowledge'
<1>. USE DEF Inv
<1>1. RowsEvolve
  BY RowsStep
<1>2. \A r \in DOMAIN rows : r \in DOMAIN rows'
  BY <1>1 DEF RowsEvolve
<1>. DEFINE Knows(d) ==
       /\ pc[d] \in Waiting => req[d] \in DOMAIN rows
       /\ pc[d] \in {"viewCheck", "viewWrite", "submitCheck", "submitClaim"} => seen[d] \in Row
       /\ pc[d] = "recordSent" => req[d] \in delivered
       /\ pc[d] = "editWrite" => patch[d] \in Patch
       /\ pc[d] # "done" => result[d] = None
     Same(d) == /\ pc'[d] = pc[d] /\ req'[d] = req[d] /\ seen'[d] = seen[d]
                /\ patch'[d] = patch[d] /\ result'[d] = result[d]
<1>3. \A d \in Calls : Knows(d)
  BY DEF HandlerKnowledge
<1>4. SUFFICES \A d \in Calls : Knows(d)'
  BY DEF HandlerKnowledge
<1>5. delivered \subseteq delivered'
  BY DEF Next, Arrive, Proceed, vars, callVars, Tick, TurnAway, CreateInsert, ResolveToken,
         CancelRead, EditRead, SendInvite, RecordSent, RecordSentThrows, RecordFailed,
         ViewCheck, ViewWrite, SubmitCheck, CheckGone, SubmitClaim, SubmitCommit,
         CancelWrite, EditWrite, Abort
<1>6. ASSUME NEW d \in Calls, Same(d)
      PROVE  Knows(d)'
  BY <1>2, <1>3, <1>5, <1>6 DEF Waiting
<1>7. ASSUME NEW c \in Calls, NEW res, Respond(c, res)
      PROVE  \A d \in Calls : Knows(d)'
  <2>1. pc'[c] = "done" /\ \A d \in Calls \ {c} : Same(d)
    BY <1>7 DEF Respond, TypeOK
  <2>2. Knows(c)'
    BY <2>1 DEF Waiting
  <2>. QED BY <1>6, <2>1, <2>2
<1>8. ASSUME NEW c \in Calls, NEW l \in Waiting, Goto(c, l), pc[c] \in Waiting,
             l \notin {"viewCheck", "submitCheck", "editWrite"},
             l = "viewWrite" => pc[c] = "viewCheck",
             l = "submitClaim" => pc[c] = "submitCheck",
             l = "recordSent" => req[c] \in delivered'
      PROVE  \A d \in Calls : Knows(d)'
  <2>1. /\ pc'[c] = l /\ UNCHANGED <<req, seen, patch, result>>
        /\ \A d \in Calls \ {c} : Same(d)
    BY <1>8 DEF Goto, TypeOK
  <2>2. Knows(c)'
    BY <1>2, <1>3, <1>8, <2>1 DEF Waiting
  <2>. QED BY <1>6, <2>1, <2>2
<1>9. ASSUME NEW c \in Calls, Arrive(c)
      PROVE  \A d \in Calls : Knows(d)'
  <2>1. CASE TurnAway(c)
    BY <1>7, <2>1 DEF TurnAway
  <2>2. CASE ~ TurnAway(c)
    <3>1. \A d \in Calls \ {c} : Same(d)
      BY <1>9, <2>2 DEF Arrive, CreateInsert, ResolveToken, CancelRead, EditRead, Begin, TypeOK
    <3>2. pc[c] = "idle" /\ result[c] = None
      BY <1>3, <1>9, <2>2 DEF Arrive, CreateInsert, ResolveToken, CancelRead, EditRead, Begin
    <3>3. ASSUME NEW r \in Requests, CreateInsert(c, r)
          PROVE  Knows(c)'
      <4>1. /\ pc'[c] = "sendInvite" /\ req'[c] = r /\ result'[c] = None
            /\ r \in DOMAIN rows'
        BY <3>2, <3>3 DEF CreateInsert, Begin, TypeOK, With
      <4>. QED BY <4>1 DEF Waiting
    <3>4. ASSUME NEW r \in Requests, ResolveToken(c, r)
          PROVE  Knows(c)'
      <4>1. /\ pc'[c] \in {"viewCheck", "submitCheck"} /\ req'[c] = r /\ result'[c] = None
            /\ seen'[c] = rows[r] /\ rows' = rows /\ rows[r] \in Row /\ r \in DOMAIN rows
        BY <3>2, <3>4 DEF ResolveToken, Begin, TypeOK
      <4>. QED BY <4>1 DEF Waiting
    <3>5. ASSUME NEW r \in Requests, CancelRead(c, r)
          PROVE  Knows(c)'
      <4>1. /\ pc'[c] \in {"done", "cancelWrite"} /\ req'[c] = r
            /\ pc'[c] # "done" => result'[c] = None
            /\ r \in DOMAIN rows'
        BY <3>2, <3>5 DEF CancelRead, TypeOK
      <4>. QED BY <4>1 DEF Waiting
    <3>6. ASSUME NEW r \in Requests, NEW p \in Patch, EditRead(c, r, p)
          PROVE  Knows(c)'
      <4>1. /\ pc'[c] \in {"done", "editWrite"} /\ req'[c] = r
            /\ pc'[c] # "done" => result'[c] = None /\ patch'[c] = p
            /\ r \in DOMAIN rows'
        BY <3>2, <3>6 DEF EditRead, TypeOK
      <4>. QED BY <4>1 DEF Waiting
    <3>. QED BY <1>6, <1>9, <2>2, <3>1, <3>3, <3>4, <3>5, <3>6 DEF Arrive
  <2>. QED BY <2>1, <2>2
<1>10. ASSUME NEW c \in Calls, Proceed(c)
       PROVE  \A d \in Calls : Knows(d)'
  <2>1. CASE SendInvite(c) \/ RecordSentThrows(c) \/ SubmitClaim(c)
    BY <1>7, <1>8, <2>1 DEF SendInvite, RecordSentThrows, SubmitClaim, At, Waiting
  <2>2. CASE ViewCheck(c) \/ SubmitCheck(c)
    BY <1>7, <1>8, <2>2 DEF ViewCheck, SubmitCheck, CheckGone, At, Waiting
  <2>3. CASE RecordSent(c) \/ RecordFailed(c) \/ ViewWrite(c) \/ SubmitCommit(c)
               \/ CancelWrite(c) \/ EditWrite(c)
    BY <1>7, <2>3 DEF RecordSent, RecordFailed, ViewWrite, SubmitCommit, CancelWrite, EditWrite
  <2>. QED BY <1>10, <2>1, <2>2, <2>3 DEF Proceed
<1>11. ASSUME NEW c \in Calls, Abort(c)
       PROVE  \A d \in Calls : Knows(d)'
  BY <1>7, <1>11 DEF Abort
<1>12. CASE Tick \/ UNCHANGED vars
  BY <1>6, <1>12 DEF Tick, vars, callVars
<1>. QED BY <1>9, <1>10, <1>11, <1>12 DEF Next

\* A copy is fresh when it is taken, and from then on the row only moves on.
LEMMA CopyStep ==
  ASSUME Inv, [Next]_vars
  PROVE  CopyNeverAhead'
<1>. DEFINE Copies == {"viewCheck", "viewWrite", "submitCheck", "submitClaim"}
<1>1. TypeOK /\ HandlerKnowledge /\ CopyNeverAhead
  BY DEF Inv
<1>. SUFFICES ASSUME NEW c \in Calls, pc'[c] \in Copies
              PROVE  LET row == rows'[req'[c]] IN
                     /\ Rank[seen'[c].status] <= Rank[row.status]
                     /\ seen'[c].openCount <= row.openCount
                     /\ seen'[c].openedAt # None => row.openedAt = seen'[c].openedAt
  BY DEF CopyNeverAhead
<1>2. ASSUME NEW d \in Calls, NEW r \in Requests, ResolveToken(d, r), d = c
      PROVE  seen'[c] = rows'[req'[c]] /\ seen'[c] \in Row
  BY <1>1, <1>2 DEF ResolveToken, Begin, TypeOK
<1>3. \/ seen'[c] = rows'[req'[c]] /\ seen'[c] \in Row
      \/ pc[c] \in Copies /\ req'[c] = req[c] /\ seen'[c] = seen[c]
  <2>1. CASE Tick \/ UNCHANGED vars
    BY <2>1 DEF Tick, vars, callVars
  <2>2. ASSUME NEW d \in Calls, Arrive(d)
        PROVE  \/ seen'[c] = rows'[req'[c]] /\ seen'[c] \in Row
               \/ pc[c] \in Copies /\ req'[c] = req[c] /\ seen'[c] = seen[c]
    BY <1>1, <1>2, <2>2
    DEF Arrive, TurnAway, CreateInsert, ResolveToken, CancelRead, EditRead, Begin, At, Respond,
        TypeOK
  <2>3. ASSUME NEW d \in Calls, Proceed(d) \/ Abort(d)
        PROVE  pc[c] \in Copies /\ req'[c] = req[c] /\ seen'[c] = seen[c]
    BY <1>1, <2>3
    DEF Proceed, SendInvite, RecordSent, RecordSentThrows, RecordFailed, ViewCheck, ViewWrite,
        SubmitCheck, CheckGone, SubmitClaim, SubmitCommit, CancelWrite, EditWrite, Abort, At,
        Goto, Respond, TypeOK
  <2>. QED BY <2>1, <2>2, <2>3 DEF Next
<1>4. CASE seen'[c] = rows'[req'[c]] /\ seen'[c] \in Row
  BY <1>4, RankOrder DEF Row
<1>5. CASE pc[c] \in Copies /\ req'[c] = req[c] /\ seen'[c] = seen[c]
  <2>. DEFINE r == req[c]
  <2>1. r \in DOMAIN rows /\ rows[r] \in Row /\ seen[c] \in Row
    BY <1>1, <1>5 DEF HandlerKnowledge, Waiting, TypeOK
  <2>2. rows'[r] \in Row
    BY <2>1, RowsStep DEF RowsEvolve, RowsTyped
  <2>3. /\ Rank[seen[c].status] <= Rank[rows[r].status]
        /\ seen[c].openCount <= rows[r].openCount
        /\ seen[c].openedAt # None => rows[r].openedAt = seen[c].openedAt
    BY <1>1, <1>5 DEF CopyNeverAhead
  <2>4. /\ Rank[rows[r].status] <= Rank[rows'[r].status]
        /\ rows[r].openCount <= rows'[r].openCount
        /\ rows[r].openedAt # None => rows'[r].openedAt = rows[r].openedAt
    BY <2>1, AdvanceStep
  <2>5. /\ Rank[seen[c].status] \in Nat /\ Rank[rows[r].status] \in Nat
        /\ Rank[rows'[r].status] \in Nat /\ seen[c].openCount \in Nat
        /\ rows[r].openCount \in Nat /\ rows'[r].openCount \in Nat
    BY <2>1, <2>2, RankOrder DEF Row
  <2>. QED BY <1>5, <2>3, <2>4, <2>5
<1>. QED BY <1>3, <1>4, <1>5

LEMMA InviteStep ==
  ASSUME Inv, [Next]_vars
  PROVE  InviteStatusTruthful'
<1>1. RowsEvolve
  BY RowsStep
<1>2. delivered \subseteq delivered'
  BY DEF Next, Arrive, Proceed, vars, callVars, Tick, TurnAway, CreateInsert, ResolveToken,
         CancelRead, EditRead, SendInvite, RecordSent, RecordSentThrows, RecordFailed,
         ViewCheck, ViewWrite, SubmitCheck, CheckGone, SubmitClaim, SubmitCommit,
         CancelWrite, EditWrite, Abort
<1>. QED BY <1>1, <1>2, NoneAssumption DEF Inv, InviteStatusTruthful, RowsEvolve, Mailed

-----------------------------------------------------------------------------
(* The invariants.                                                         *)

LEMMA InitInv == Init => Inv
<1>. SUFFICES ASSUME Init
              PROVE  Inv
  OBVIOUS
<1>1. PICK old \in SUBSET Requests, m \in Messages :
        rows = [r \in old |-> [NewRow(m) EXCEPT !.emailStatus = "SENT"]]
  BY DEF Init
<1>2. now = 0 /\ now \in Nat /\ DOMAIN rows = old /\ DOMAIN answers = {} /\ delivered = old
  BY <1>1 DEF Init
<1>3. \A r \in old : /\ rows[r] \in Row /\ rows[r].status = "PENDING"
                     /\ rows[r].openedAt = None /\ rows[r].openCount = 0
                     /\ rows[r].cancelledAt = None
  <2>1. [NewRow(m) EXCEPT !.emailStatus = "SENT"] =
          [status |-> "PENDING", message |-> m, expiresAt |-> now + LinkTtl,
           openedAt |-> None, openCount |-> 0, cancelledAt |-> None, emailStatus |-> "SENT"]
    BY DEF NewRow
  <2>2. now + LinkTtl \in Nat
    BY <1>2, TtlAssumption
  <2>. QED BY <1>1, <2>1, <2>2 DEF Row, Status
<1>4. TypeOK
  <2>1. rows \in [DOMAIN rows -> Row]
    BY <1>1, <1>2, <1>3
  <2>. QED BY <1>2, <2>1 DEF Init, TypeOK
<1>5. HandlerKnowledge /\ CopyNeverAhead /\ AcknowledgedAnswerStored
  BY NoneAssumption
  DEF Init, HandlerKnowledge, CopyNeverAhead, AcknowledgedAnswerStored, Waiting, Result
<1>6. TransactionHoldsRow
  BY DEF Init, TransactionHoldsRow
<1>7. AnswerMatchesStatus /\ LifecycleStamps /\ InviteStatusTruthful
  BY <1>2, <1>3 DEF AnswerMatchesStatus, LifecycleStamps, InviteStatusTruthful
<1>. QED BY <1>4, <1>5, <1>6, <1>7 DEF Inv

LEMMA NextInv == Inv /\ [Next]_vars => Inv'
<1>. SUFFICES ASSUME Inv, [Next]_vars
              PROVE  Inv'
  OBVIOUS
<1>1. TypeOK /\ AnswerMatchesStatus /\ LifecycleStamps
  BY DEF Inv
<1>2. AnswerMatchesStatus' /\ LifecycleStamps'
  BY <1>1, RowsStep, AnswersStep, StampsStep
<1>. QED
  BY <1>2, TypeStep, HandlerStep, CopyStep, TransactionStep, AcknowledgedStep, InviteStep
  DEF Inv

\* The eight invariants hold together in every state of every run.
THEOREM Invariance == Spec => []Inv
BY InitInv, NextInv, PTL DEF Spec

\* Type correctness of every column and every variable of a handler.
THEOREM TypeCorrect == Spec => []TypeOK
BY Invariance, PTL DEF Inv

\* Stored answers agree with the status of their request.
THEOREM AnswersAgree == Spec => []AnswerMatchesStatus
BY Invariance, PTL DEF Inv

\* An acknowledged answer is the stored one, so at most one submit of a link is
\* ever acknowledged.
THEOREM AcknowledgedOnce == Spec => []AcknowledgedAnswerStored
BY Invariance, PTL DEF Inv

\* The row lock belongs to one submit about to insert, and holds the row still.
THEOREM LockHolds == Spec => []TransactionHoldsRow
BY Invariance, PTL DEF Inv

\* Timestamps and view counter follow the status.
THEOREM StampsFollowStatus == Spec => []LifecycleStamps
BY Invariance, PTL DEF Inv

\* SENT is never recorded for an invite that was not sent.
THEOREM SentMeansSent == Spec => []InviteStatusTruthful
BY Invariance, PTL DEF Inv

\* The copy of the row that a view or a submit works from may be behind the row, never
\* ahead of it, however many handlers wrote in between.
THEOREM CopiesLag == Spec => []CopyNeverAhead
BY Invariance, PTL DEF Inv

-----------------------------------------------------------------------------
(* The action properties.                                                  *)

\* A request never goes back to an earlier status and its row never disappears.
THEOREM NeverBack == Spec => StatusOnlyAdvances
<1>1. Inv /\ [Next]_vars =>
        [\A r \in DOMAIN rows :
           /\ r \in DOMAIN rows'
           /\ Rank[rows[r].status] <= Rank[rows'[r].status]]_vars
  BY AdvanceStep
<1>. QED BY <1>1, Invariance, PTL DEF Spec, StatusOnlyAdvances

\* The time of the first view, once recorded, stays.
THEOREM FirstViewStays == Spec => OpenedAtWriteOnce
<1>1. Inv /\ [Next]_vars =>
        [\A r \in DOMAIN rows :
           rows[r].openedAt # None => rows'[r].openedAt = rows[r].openedAt]_vars
  BY AdvanceStep
<1>. QED BY <1>1, Invariance, PTL DEF Spec, OpenedAtWriteOnce

-----------------------------------------------------------------------------
(* FeedbackRequests implements SingleUseLink.                              *)

Links == [r \in DOMAIN rows |-> LinkState(rows[r])]

LEMMA LinkInit == Init => Link!Init
<1>. SUFFICES ASSUME Init
              PROVE  Link!Init
  OBVIOUS
<1>1. PICK old \in SUBSET Requests, m \in Messages :
        rows = [r \in old |-> [NewRow(m) EXCEPT !.emailStatus = "SENT"]]
  BY DEF Init
<1>2. DOMAIN rows = old /\ \A r \in old : rows[r].status = "PENDING"
  BY <1>1 DEF NewRow
<1>3. Links = [r \in old |-> "live"]
  BY <1>2 DEF Links, LinkState, Claimable
<1>. QED BY <1>3 DEF Init, Links, Link!Init

LEMMA LinkStep ==
  ASSUME Inv, [Next]_vars
  PROVE  [Link!Next]_<<Links, answers>>
<1>. USE DEF Inv
<1>1. TypeOK
  OBVIOUS
<1>2. ASSUME UNCHANGED <<rows, answers>>
      PROVE  [Link!Next]_<<Links, answers>>
  BY <1>2 DEF Links
<1>3. ASSUME NEW r \in DOMAIN rows, NEW new \in Row, UpdateRow(r, new), UNCHANGED answers,
             LinkState(new) \in {LinkState(rows[r]), "revoked"}
      PROVE  [Link!Next]_<<Links, answers>>
  <2>1. Links' = [Links EXCEPT ![r] = LinkState(new)]
    BY <1>1, <1>3, UpdateRowEffect DEF Links, TypeOK
  <2>2. r \in DOMAIN Links /\ Links[r] = LinkState(rows[r]) /\ r \in Requests
    BY <1>1 DEF Links, TypeOK
  <2>3. CASE LinkState(new) = LinkState(rows[r])
    BY <1>3, <2>1, <2>2, <2>3 DEF Links
  <2>4. CASE LinkState(new) = "revoked"
    BY <1>3, <2>1, <2>2, <2>4 DEF Links, Link!Next, Link!Revoke
  <2>. QED BY <1>3, <2>3, <2>4
<1>4. ASSUME NEW c \in Calls, NEW r \in Requests, CreateInsert(c, r)
      PROVE  [Link!Next]_<<Links, answers>>
  <2>1. PICK m \in Messages : rows' = With(rows, r, NewRow(m))
    BY <1>4 DEF CreateInsert
  <2>2. r \notin DOMAIN rows /\ UNCHANGED answers
    BY <1>4 DEF CreateInsert
  <2>3. LinkState(NewRow(m)) = "live"
    BY <1>1, NewRowEffect DEF LinkState, Claimable, TypeOK
  <2>4. Links' = Link!With(Links, r, "live")
    BY <2>1, <2>2, <2>3 DEF Links, Link!With, With
  <2>5. r \notin DOMAIN Links
    BY <2>2 DEF Links
  <2>. QED BY <2>2, <2>4, <2>5 DEF Links, Link!Next, Link!Issue
<1>5. ASSUME NEW c \in Calls, RecordSent(c) \/ RecordFailed(c)
      PROVE  [Link!Next]_<<Links, answers>>
  <2>1. PICK e \in {"SENT", "FAILED"} :
          UpdateRow(req[c], [rows[req[c]] EXCEPT !.emailStatus = e])
    BY <1>5 DEF RecordSent, RecordFailed
  <2>2. req[c] \in DOMAIN rows /\ UNCHANGED answers
    BY <1>5 DEF RecordSent, RecordFailed, At, HandlerKnowledge, Waiting
  <2>3. rows[req[c]] \in Row
    BY <1>1, <2>2 DEF TypeOK
  <2>. DEFINE new == [rows[req[c]] EXCEPT !.emailStatus = e]
  <2>4. new \in Row /\ LinkState(new) = LinkState(rows[req[c]])
    BY <2>3 DEF Row, LinkState, Claimable
  <2>. QED BY <1>3, <2>1, <2>2, <2>4
<1>6. ASSUME NEW c \in Calls, ViewWrite(c)
      PROVE  [Link!Next]_<<Links, answers>>
  <2>. DEFINE r == req[c]  new == Viewed(seen[c], rows[r])
  <2>1. UpdateRow(r, new) /\ UNCHANGED answers /\ r \in DOMAIN rows
    BY <1>6 DEF ViewWrite, At, HandlerKnowledge, Waiting
  <2>2. rows[r] \in Row /\ now \in Nat
    BY <1>1, <2>1 DEF TypeOK
  <2>3. new \in Row /\ LinkState(new) = LinkState(rows[r])
    BY <2>2, ViewedEffect DEF LinkState, Claimable
  <2>. QED BY <1>3, <2>1, <2>3
<1>7. ASSUME NEW c \in Calls, SubmitCommit(c)
      PROVE  [Link!Next]_<<Links, answers>>
  <2>. DEFINE r == req[c]
  <2>1. /\ pc[c] = "submitInsert" /\ r \notin DOMAIN answers
        /\ rows' = [rows EXCEPT ![r].status = "COMPLETED"]
        /\ answers' = With(answers, r, c)
    BY <1>7 DEF SubmitCommit, At
  <2>2. /\ r \in Requests /\ r \in DOMAIN rows /\ Claimable(rows[r]) /\ rows[r] \in Row
    BY <1>1, <2>1, NoneAssumption DEF TransactionHoldsRow, TypeOK
  <2>3. LinkState(rows'[r]) = "answered" /\ LinkState(rows[r]) = "live"
    BY <2>1, <2>2 DEF LinkState, Claimable, Row
  <2>4. Links' = [Links EXCEPT ![r] = "answered"]
    BY <2>1, <2>2, <2>3 DEF Links
  <2>5. r \in DOMAIN Links /\ Links[r] = "live"
    BY <2>2, <2>3 DEF Links
  <2>6. Link!With(answers, r, c) = With(answers, r, c)
    BY DEF Link!With, With
  <2>7. Link!Answer(r, c)
    BY <2>1, <2>4, <2>5, <2>6 DEF Links, Link!Answer
  <2>. QED BY <2>2, <2>7 DEF Link!Next
<1>8. ASSUME NEW c \in Calls, CancelWrite(c)
      PROVE  [Link!Next]_<<Links, answers>>
  <2>. DEFINE r == req[c]
              new == [rows[r] EXCEPT !.status = "CANCELLED", !.cancelledAt = now]
  <2>1. UpdateRow(r, new) /\ UNCHANGED answers /\ r \in DOMAIN rows
    BY <1>8 DEF CancelWrite, At, HandlerKnowledge, Waiting
  <2>2. rows[r] \in Row /\ now \in Nat
    BY <1>1, <2>1 DEF TypeOK
  <2>3. new \in Row
    BY <2>2 DEF Row, Status
  <2>4. LinkState(new) = "revoked"
    BY <2>2 DEF Row, LinkState, Claimable
  <2>. QED BY <1>3, <2>1, <2>3, <2>4
<1>9. ASSUME NEW c \in Calls, EditWrite(c)
      PROVE  [Link!Next]_<<Links, answers>>
  <2>. DEFINE r == req[c]  new == Patched(rows[r], patch[c])
  <2>1. /\ UpdateRow(r, new) /\ UNCHANGED answers /\ r \in DOMAIN rows
        /\ patch[c] \in Patch
    BY <1>9 DEF EditWrite, At, HandlerKnowledge, Waiting
  <2>2. rows[r] \in Row
    BY <1>1, <2>1 DEF TypeOK
  <2>3. new \in Row /\ LinkState(new) = LinkState(rows[r])
    BY <2>1, <2>2, PatchedEffect DEF LinkState, Claimable
  <2>. QED BY <1>3, <2>1, <2>3
<1>. QED
  BY <1>2, <1>4, <1>5, <1>6, <1>7, <1>8, <1>9
  DEF Next, Arrive, Proceed, vars, Tick, TurnAway, ResolveToken, CancelRead, EditRead,
      SendInvite, RecordSentThrows, ViewCheck, SubmitCheck, CheckGone, SubmitClaim, Abort

\* The service is a single-use link: whatever the handlers interleave, a link
\* takes at most one answer, none once revoked, and never loses one.
THEOREM SingleUse == Spec => LinkSpec
<1>1. Inv /\ [Next]_vars => [Link!Next]_Link!linkVars
  BY LinkStep DEF Links, Link!linkVars
<1>. QED BY <1>1, LinkInit, Invariance, PTL DEF Spec, LinkSpec, Link!Spec

=============================================================================
