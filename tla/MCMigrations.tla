--------------------------- MODULE MCMigrations -----------------------------
(* An instance of Migrations for TLC. *)
EXTENDS MigrationSteps

Symmetry == Permutations(Migrators)
=============================================================================
