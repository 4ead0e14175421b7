------------------------- MODULE MCRoleAssignments -------------------------
(* Small instances of the role commands for TLC. *)
EXTENDS RoleAssignments, TLC

\* One person, an owner by every owner assignment: in person, and as a group's member.
MCHumans == [o \in Owner |-> {"human"}]

Symmetry == Permutations(Call) \union Permutations(Pass) \union Permutations(Idempotency)
=============================================================================
