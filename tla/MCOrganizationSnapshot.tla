----------------------- MODULE MCOrganizationSnapshot -----------------------
(***************************************************************************)
(* OrganizationSnapshot on small instances.                                *)
(***************************************************************************)
EXTENDS OrganizationSnapshot, TLC

Symmetry == Permutations(Calls)

=============================================================================
