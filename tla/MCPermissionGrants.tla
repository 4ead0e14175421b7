------------------------- MODULE MCPermissionGrants -------------------------
(* Small instances of check, grant and revoke for TLC. *)
EXTENDS PermissionGrants, TLC

Symmetry == Permutations(Caller)
=============================================================================
