----------------------------- MODULE MCMigrator -----------------------------
(* Small instances of Migrator: migration 3 drops what 1 created. *)
EXTENDS Migrator, TLC

DropsFirst == [v \in Versions |-> IF v = 3 THEN 1 ELSE 0]
\* An empty database, one whose schema is current, one whose schema is not.
SomeSchemas == {{}, Target, {1}}

Symmetry == Permutations(Calls \ Adopting) \cup Permutations(Adopting)
=============================================================================
