--------------------------- MODULE MCTenantGroups ---------------------------
(* Small instances of the group memberships for TLC. *)
EXTENDS TenantGroups, TLC

Symmetry == Permutations(Call) \union Permutations(Pass) \union Permutations(User) \union Permutations(Name)
=============================================================================
