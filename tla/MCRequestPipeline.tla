------------------------- MODULE MCRequestPipeline -------------------------
(***************************************************************************)
(* RequestPipeline on small instances.                                     *)
(***************************************************************************)
EXTENDS RequestPipeline, TLC

OneHit == [r \in Routes |-> 1]

Symmetry == Permutations(Requests) \cup Permutations(Users) \cup Permutations(Ips)

=============================================================================
