--------------------------- MODULE MCBillingSync ---------------------------
(***************************************************************************)
(* BillingSync on small instances.                                         *)
(***************************************************************************)
EXTENDS BillingSync, TLC

CONSTANTS u,           \* a user
          e1, e2       \* svix ids

TwoOfUser == (e1 :> u) @@ (e2 :> u)

UserAndNobody == (e1 :> u) @@ (e2 :> None)

Symmetry == Permutations(Workers)

=============================================================================
