------------------------------ MODULE MCOutbox ------------------------------
(* Small instances of Outbox. *)
EXTENDS Outbox, TLC

CONSTANTS w1, w2, w3

\* Every process has a worker_id of its own ...
OwnName == [w \in Workers |-> w]
\* ... or a restarted deployment reuses the one of its predecessor.
SharedName == [w \in Workers |-> IF w = w2 THEN w1 ELSE w]

Symmetry == Permutations(Proposals) \cup Permutations(Nonces)
=============================================================================
