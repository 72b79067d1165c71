---------------------------- MODULE SingleUseLink ----------------------------
(***************************************************************************)
(* What a feedback review link promises, with the HTTP handlers, the       *)
(* snapshots they hold and the database transaction hidden.  A link is     *)
(* issued once, takes at most one answer while it is live, keeps that      *)
(* answer for ever, and takes none once it has been revoked.  Revoking is  *)
(* allowed after an answer too: FeedbackService.update writes CANCELLED    *)
(* without looking at the row again, so the promise cannot be stronger.    *)
(***************************************************************************)

CONSTANTS Requests,   \* identities of feedback requests, one link each
          Calls       \* HTTP calls; an answer is named by the call that gave it

VARIABLES link,       \* link[r] for every issued link: "live", "answered" or "revoked"
          answer      \* answer[r] for every link that was ever answered

linkVars == <<link, answer>>

\* f extended (or overridden) at x.
With(f, x, v) == [y \in DOMAIN f \cup {x} |-> IF y = x THEN v ELSE f[y]]

Init ==
  /\ \E issued \in SUBSET Requests : link = [r \in issued |-> "live"]
  /\ answer = [r \in {} |-> "live"]

Issue(r) ==
  /\ r \notin DOMAIN link
  /\ link' = With(link, r, "live")
  /\ UNCHANGED answer

Answer(r, c) ==
  /\ r \in DOMAIN link
  /\ link[r] = "live"
  /\ link' = [link EXCEPT ![r] = "answered"]
  /\ r \notin DOMAIN answer
  /\ answer' = With(answer, r, c)

Revoke(r) ==
  /\ r \in DOMAIN link
  /\ link' = [link EXCEPT ![r] = "revoked"]
  /\ UNCHANGED answer

Next ==
  \E r \in Requests :
    \/ Issue(r)
    \/ \E c \in Calls : Answer(r, c)
    \/ Revoke(r)

Spec == Init /\ [][Next]_linkVars

=============================================================================
