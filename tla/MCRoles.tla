------------------------------ MODULE MCRoles ------------------------------
(* Instances of RoleMatrix for TLC. *)
EXTENDS RoleMatrix, TLC
DefaultCaps == [r \in Roles |-> RoleCaps]
InterchangeableRequests == Permutations(Requests)
=============================================================================
