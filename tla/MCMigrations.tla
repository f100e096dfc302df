---------------------------- MODULE MCMigrations ----------------------------
(* Model-checking instances of Migrations. *)
EXTENDS Migrations, TLC

Symmetry == Permutations(Migrator) \cup Permutations(RowId) \cup Permutations(Queue)
==============================================================================
