-------------------------- MODULE MCAccessRequests --------------------------
(* Small instances of the access request workflow for TLC. *)
EXTENDS AccessRequests, TLC

Symmetry == Permutations(Call) \union Permutations(Request) \union Permutations(Approver)
=============================================================================
