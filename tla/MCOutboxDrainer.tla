-------------------------- MODULE MCOutboxDrainer --------------------------
(* Small instances of the outbox drainer for TLC.                          *)
EXTENDS OutboxDrainer, TLC

(* Rows 1 and 2 are in the first table, row 3 in the second. *)
MCSourceOf == [r \in Row |-> IF r <= 2 THEN 1 ELSE 2]

Symmetry == Permutations(Worker)
=============================================================================
