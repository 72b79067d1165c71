---------------------------- MODULE MCCatalogue ----------------------------
(***************************************************************************)
(* Catalogue on small instances.                                           *)
(***************************************************************************)
EXTENDS Catalogue, TLC

Symmetry == Permutations(Calls) \cup Permutations(Orgs) \cup Permutations(Users)

=============================================================================
