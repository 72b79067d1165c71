--------------------------- MODULE MCEntitlement ---------------------------
(***************************************************************************)
(* Entitlement on small instances.                                         *)
(***************************************************************************)
EXTENDS Entitlement

Subscription(plan, status, end) ==
  [plan |-> plan, status |-> status, periodEnd |-> end, form |-> "date"]

\* No subscription, a Solo one that was canceled and is paid until 2, an Org one
\* that runs.  In the user's row the Org plan entitles nobody, and vice versa.
Few ==
  {Subscription(None, None, None), Subscription("solo", "canceled", 2),
   Subscription("org", "active", 2)}

=============================================================================
